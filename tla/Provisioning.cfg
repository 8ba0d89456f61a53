SPECIFICATION FairSpec
CONSTANTS
  Passwords = {"p1", "p2", "p3", "p4", "p5", "p6", "p7", "p8"}
  None = None
  MaxUserOps = 1
  MaxMishaps = 1
INVARIANTS TypeOK PasswordsAgree
PROPERTIES KeycloakComesUp SingleUserCleansUp
CHECK_DEADLOCK FALSE
