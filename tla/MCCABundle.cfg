SPECIFICATION FairSpec
CONSTANTS
  corporate = corporate
  partner = partner
  dotted = dotted
  injected = injected
  Names <- MCNames
  TrustStore <- injected
  Unparsable <- MCUnparsable
  Misread <- MCMisread
  MaxChanges = 4
  MaxMishaps = 1
INVARIANTS TypeOK UpToDateMeansMerged
PROPERTIES BundleSettles
CHECK_DEADLOCK FALSE
