---------------------------- MODULE Provisioning ----------------------------
(***************************************************************************)
(* The database and Keycloak: generated credentials (controller/che/         *)
(* create.go), the Deployments of PostgreSQL and Keycloak (deploy/postgres,  *)
(* deploy/identity-provider), and the scripts run in their pods, in          *)
(* multi-user mode; in single-user mode both are taken down.                *)
(*                                                                         *)
(* A password lives in a Secret, in the database and in the environment of  *)
(* pods, and nothing compares them.  What has been done is remembered in the *)
(* status of the CR; what a pass sees is a cached CR, and cached objects.    *)
(***************************************************************************)
EXTENDS Naturals, FiniteSets

CONSTANTS
  Passwords,    \* a set
  None,         \* nothing: no object, no password
  MaxUserOps,   \* bound on how often the user switches the mode
  MaxMishaps    \* bound on failed calls, restarts of the operator and lost pods

(* There is always a password that nobody has: at most 7 are in use.        *)
ASSUME PasswordsAssumption ==
  /\ "" \notin Passwords /\ None \notin Passwords \cup {""}
  /\ IsFiniteSet(Passwords) /\ Cardinality(Passwords) > 7

ASSUME BoundsAssumption == MaxUserOps \in Nat /\ MaxMishaps \in Nat

VARIABLES
  cr, crSeen,   \* the CR in the API server, and in the cache
  api, cache,   \* the objects in the API server, and in the caches
  stale,        \* the kinds whose latest event the caches have not seen
  db,           \* what is in the database; it lives on the PVC
  postgresUp,   \* is the database's pod ready?
  keycloak,     \* Keycloak's pod
  pc,           \* the operator's next step, and the object it is about
  mem, fresh,   \* deployContext.CheCluster; is it the latest revision?
  pwd,          \* the password generated in this step
  missed,       \* did this pass go on after an error as if there were none?
  queued,       \* the work queue
  userOps, mishaps

pods    == <<db, postgresUp, keycloak>>
objects == <<api, stale>>
control == <<mem, fresh, pwd, missed, queued>>
vars == <<cr, crSeen, api, cache, stale, db, postgresUp, keycloak, pc, mem, fresh, pwd,
          missed, queued, userOps, mishaps>>

Secrets     == {"postgres-secret", "admin-secret"}
Deployments == {"postgres", "keycloak"}
Objects     == Secrets \cup Deployments \cup {"pvc"}
Kind(o) == CASE o \in Secrets -> "secret" [] o \in Deployments -> "deployment" [] o = "pvc" -> "pvc"
Kinds == {"cr", "secret", "deployment", "pvc"}

(* A Secret is its password, "" if it is empty.  A Deployment: does Keycloak *)
(* start with the message that was added to roll it out again, and is its   *)
(* one pod ready?                                                          *)
Deployment == [echo: BOOLEAN, ready: BOOLEAN]
Created    == [echo |-> FALSE, ready |-> FALSE]
Values(o) ==
  {None} \cup CASE o \in Secrets     -> Passwords \cup {""}
                [] o \in Deployments -> Deployment
                [] o = "pvc"         -> {"bound", "terminating"}
Is(s, o) == s[o] # None

(* status.dbProvisioned, status.keycloakProvisioned; which generated Secrets *)
(* are named in the spec; the property CHE_MULTIUSER.                       *)
CheCluster == [multi: BOOLEAN, named: SUBSET Secrets,
               dbProvisioned: BOOLEAN, keycloakProvisioned: BOOLEAN]
NoCR == [multi |-> TRUE, named |-> {}, dbProvisioned |-> FALSE, keycloakProvisioned |-> FALSE]

(* The database user of Keycloak and Keycloak's admin with their passwords,  *)
(* whether the realm is there, and whether the master realm asks for SSL.   *)
EmptyDB == [user |-> None, admin |-> None, realm |-> FALSE, ssl |-> TRUE]
NoPod   == [up |-> FALSE, admin |-> None, ssl |-> TRUE, echo |-> FALSE]

Idle    == <<"idle", "">>
Resting == <<"rest", "">>
Steps ==
  {"idle", "rest"} \X {""} \cup {"name", "delete", "create", "save"} \X Secrets
  \cup {"drop", "sync"} \X (Deployments \cup {"pvc"})
  \cup {"provision", "record"} \X Deployments \cup {"ssl"} \X {"keycloak"}

Init ==
  /\ \E m \in BOOLEAN : cr = [NoCR EXCEPT !.multi = m]
  /\ crSeen = cr
  /\ api = [o \in Objects |-> None] /\ cache = api /\ stale = {}
  /\ db = EmptyDB /\ postgresUp = FALSE /\ keycloak = NoPod
  /\ pc = Idle /\ mem = NoCR /\ fresh = FALSE /\ pwd = None /\ missed = FALSE /\ queued = TRUE
  /\ userOps = MaxUserOps /\ mishaps = MaxMishaps

-----------------------------------------------------------------------------
(* The user, the informers, and the controllers that run pods.             *)

SwitchMode ==
  /\ userOps > 0 /\ userOps' = userOps - 1
  /\ cr' = [cr EXCEPT !.multi = ~@] /\ stale' = stale \cup {"cr"} /\ fresh' = FALSE
  /\ UNCHANGED <<crSeen, api, cache, pods, pc, mem, pwd, missed, queued, mishaps>>

SyncCache(k) ==
  /\ k \in stale /\ stale' = stale \ {k}
  /\ crSeen' = IF k = "cr" THEN cr ELSE crSeen
  /\ cache' = [o \in Objects |-> IF Kind(o) = k THEN api[o] ELSE cache[o]]
  /\ queued' = TRUE
  /\ UNCHANGED <<cr, api, pods, pc, mem, fresh, pwd, missed, userOps, mishaps>>

Store(o, v) ==
  IF api[o] = v THEN UNCHANGED objects
  ELSE api' = [api EXCEPT ![o] = v] /\ stale' = stale \cup {Kind(o)}

External == UNCHANGED <<cr, crSeen, cache, pc, control, userOps>>

(* A pod takes longer to start than the caches, and the pass under way, take *)
(* to follow: without this a Secret is replaced, on behalf of a CR from      *)
(* before it was named, while the database is told its old password.        *)
Followed == stale \cap {"cr", "secret"} = {} /\ (pc = Idle \/ fresh)

PostgresStarts ==
  /\ Is(api, "postgres") /\ ~postgresUp /\ api["pvc"] = "bound"
  /\ Followed
  /\ postgresUp' = TRUE
  /\ Store("postgres", [api["postgres"] EXCEPT !.ready = TRUE])
  /\ UNCHANGED <<db, keycloak, mishaps>> /\ External

(* Keycloak starts if the database lets it in, makes its admin in an empty   *)
(* one, and reads once what the master realm asks for.                      *)
KeycloakStarts ==
  /\ Is(api, "keycloak") /\ postgresUp
  /\ ~keycloak.up \/ keycloak.echo # api["keycloak"].echo
  /\ Is(api, "postgres-secret") /\ api["postgres-secret"] = db.user
  /\ Is(api, "admin-secret")
  /\ LET admin == IF db.admin = None THEN api["admin-secret"] ELSE db.admin
     IN db' = [db EXCEPT !.admin = admin]
  /\ keycloak' = [up |-> TRUE, admin |-> api["admin-secret"], ssl |-> db.ssl,
                  echo |-> api["keycloak"].echo]
  /\ Store("keycloak", [api["keycloak"] EXCEPT !.ready = TRUE])
  /\ UNCHANGED <<postgresUp, mishaps>> /\ External

(* The pods of a Deployment that is gone go; a PVC that is deleted goes when *)
(* no pod uses it, and the data with it.                                    *)
PodsStop ==
  /\ \/ ~Is(api, "postgres") /\ postgresUp /\ postgresUp' = FALSE /\ UNCHANGED <<db, keycloak>>
     \/ ~Is(api, "keycloak") /\ keycloak.up /\ keycloak' = NoPod /\ UNCHANGED <<db, postgresUp>>
  /\ UNCHANGED <<objects, mishaps>> /\ External

PVCGoes ==
  /\ api["pvc"] = "terminating" /\ ~postgresUp
  /\ Store("pvc", None) /\ db' = EmptyDB
  /\ UNCHANGED <<postgresUp, keycloak, mishaps>> /\ External

PodLost ==
  /\ mishaps > 0 /\ mishaps' = mishaps - 1
  /\ \/ /\ postgresUp /\ Is(api, "postgres") /\ postgresUp' = FALSE
        /\ Store("postgres", [api["postgres"] EXCEPT !.ready = FALSE])
        /\ UNCHANGED <<db, keycloak>>
     \/ /\ keycloak.up /\ Is(api, "keycloak") /\ keycloak' = NoPod
        /\ Store("keycloak", [api["keycloak"] EXCEPT !.ready = FALSE])
        /\ UNCHANGED <<db, postgresUp>>
  /\ External

-----------------------------------------------------------------------------
(* Control flow of a pass.                                                 *)

Leave   == pc' = Idle /\ mem' = NoCR /\ fresh' = FALSE /\ pwd' = None /\ UNCHANGED missed
Wait    == Leave /\ UNCHANGED queued           \* for the event of a watch
Requeue == Leave /\ queued' = TRUE             \* an error
Go(s)   == pc' = s /\ pwd' = None /\ UNCHANGED <<mem, fresh, missed, queued>>
Outside == UNCHANGED <<crSeen, cache, userOps>>
NoCalls == UNCHANGED <<cr, objects, pods, mishaps>> /\ Outside

StartKeepsPVC ==
  /\ pc = Idle /\ queued /\ queued' = FALSE
  /\ mem' = crSeen /\ fresh' = ("cr" \notin stale) /\ missed' = FALSE /\ UNCHANGED pwd
  /\ pc' = IF crSeen.multi THEN <<"name", "postgres-secret">> ELSE <<"drop", "postgres">>
  /\ NoCalls

Start ==
  /\ pc = Idle /\ queued /\ queued' = FALSE
  /\ mem' = crSeen /\ fresh' = ("cr" \notin stale) /\ missed' = FALSE /\ UNCHANGED pwd
  /\ pc' = IF crSeen.multi THEN <<"name", "postgres-secret">> ELSE <<"drop", "pvc">>
  /\ NoCalls

(* A call that fails ends the pass, but for the write that has a loop.       *)
CallFails ==
  /\ pc \notin {Idle, <<"record", "keycloak">>} /\ mishaps > 0 /\ mishaps' = mishaps - 1
  /\ Requeue
  /\ UNCHANGED <<cr, objects, pods>> /\ Outside

Restart ==
  /\ mishaps > 0 /\ mishaps' = mishaps - 1
  /\ Requeue
  /\ crSeen' = cr /\ cache' = api /\ stale' = {}
  /\ UNCHANGED <<cr, api, pods, userOps>>

WriteCRForgets(c, next) ==
  IF fresh
  THEN /\ cr' = c /\ UNCHANGED mem /\ pc' = next /\ pwd' = None
       /\ stale' = stale \cup {"cr"} /\ UNCHANGED <<fresh, missed, queued>>
  ELSE Requeue /\ UNCHANGED <<cr, stale>>

(* A write of the CR needs the latest revision.                            *)
WriteCR(c, next) ==
  IF fresh
  THEN /\ cr' = c /\ mem' = c /\ pc' = next /\ pwd' = None
       /\ stale' = stale \cup {"cr"} /\ UNCHANGED <<fresh, missed, queued>>
  ELSE Requeue /\ UNCHANGED <<cr, stale>>

-----------------------------------------------------------------------------
(* GenerateAndSaveFields.                                                  *)

NextOf(s) == IF s = "postgres-secret" THEN <<"name", "admin-secret">> ELSE <<"sync", "pvc">>

(* A password nobody has.                                                  *)
Taken == {api[s] : s \in Secrets} \cup {cache[s] : s \in Secrets}
         \cup {db.user, db.admin, keycloak.admin}
NewPassword == CHOOSE p \in Passwords : p \notin Taken

NameAgain(s) ==
  /\ pc = <<"name", s>>
  /\ pc' = IF Is(cache, s) THEN <<"delete", s>> ELSE <<"create", s>>
  /\ pwd' = IF Is(cache, "keycloak") THEN "" ELSE NewPassword
  /\ UNCHANGED <<mem, fresh, missed, queued>>
  /\ NoCalls

(* Without a name in the CR there is a new password, or, if Keycloak is      *)
(* deployed, the literal value it has for it: none, if it reads a Secret.   *)
Name(s) ==
  /\ pc = <<"name", s>>
  /\ IF s \in mem.named THEN Go(NextOf(s))
     ELSE /\ pc' = IF Is(cache, s) THEN <<"delete", s>> ELSE <<"create", s>>
          /\ pwd' = IF Is(cache, "keycloak") THEN "" ELSE NewPassword
          /\ UNCHANGED <<mem, fresh, missed, queued>>
  /\ NoCalls

(* SyncSecretToCluster: an existing Secret is replaced.                     *)
DeleteSecret(s) ==
  /\ pc = <<"delete", s>>
  /\ Store(s, None)
  /\ pc' = <<"create", s>> /\ UNCHANGED control
  /\ UNCHANGED <<cr, pods, mishaps>> /\ Outside

(* That it exists is no error, and that it was not made is not looked at.   *)
CreateSecret(s) ==
  /\ pc = <<"create", s>>
  /\ IF Is(api, s) THEN UNCHANGED objects ELSE Store(s, pwd)
  /\ Go(<<"save", s>>)
  /\ UNCHANGED <<cr, pods, mishaps>> /\ Outside

SaveName(s) ==
  /\ pc = <<"save", s>>
  /\ WriteCR([mem EXCEPT !.named = @ \cup {s}], NextOf(s))
  /\ UNCHANGED <<api, pods, mishaps>> /\ Outside

-----------------------------------------------------------------------------
(* PostgreSQL.                                                             *)

AfterDB == IF mem.multi THEN <<"sync", "keycloak">> ELSE <<"drop", "keycloak">>

SyncPVC ==
  /\ pc = <<"sync", "pvc">>
  /\ IF Is(cache, "pvc") THEN Go(<<"sync", "postgres">>) /\ UNCHANGED objects
     ELSE IF Is(api, "pvc") THEN Wait /\ UNCHANGED objects
     ELSE Go(<<"sync", "postgres">>) /\ Store("pvc", "bound")
  /\ UNCHANGED <<cr, pods, mishaps>> /\ Outside

SyncDeployment ==
  /\ pc = <<"sync", "postgres">>
  /\ \/ /\ Is(cache, "postgres") /\ cache["postgres"].ready
        /\ Go(<<"provision", "postgres">>) /\ UNCHANGED objects
     \/ Is(cache, "postgres") /\ ~cache["postgres"].ready /\ Wait /\ UNCHANGED objects
     \/ /\ ~Is(cache, "postgres") /\ Wait
        /\ IF Is(api, "postgres") THEN UNCHANGED objects ELSE Store("postgres", Created)
  /\ UNCHANGED <<cr, pods, mishaps>> /\ Outside

(* The script runs as long as the status does not say that it did, in any    *)
(* mode.  It leaves a user that is there alone.                             *)
ProvisionDB ==
  /\ pc = <<"provision", "postgres">>
  /\ IF mem.dbProvisioned
     THEN Go(AfterDB) /\ UNCHANGED pods
     ELSE IF ~postgresUp \/ "postgres-secret" \notin mem.named \/ ~Is(cache, "postgres-secret")
     THEN Requeue /\ UNCHANGED pods
     ELSE /\ Go(<<"record", "postgres">>)
          /\ db' = IF db.user = None THEN [db EXCEPT !.user = cache["postgres-secret"]] ELSE db
          /\ UNCHANGED <<postgresUp, keycloak>>
  /\ UNCHANGED <<cr, objects, mishaps>> /\ Outside

SaveDBProvisioned ==
  /\ pc = <<"record", "postgres">>
  /\ WriteCR([mem EXCEPT !.dbProvisioned = TRUE], AfterDB)
  /\ UNCHANGED <<api, pods, mishaps>> /\ Outside

(* Single-user mode: neither database nor Keycloak.                         *)
Drop(o, next) ==
  /\ pc = <<"drop", o>>
  /\ IF Is(cache, o) /\ Is(api, o)
     THEN Store(o, IF o = "pvc" /\ postgresUp THEN "terminating" ELSE None)
     ELSE UNCHANGED objects
  /\ db' = IF o = "pvc" /\ Is(cache, o) /\ ~postgresUp THEN EmptyDB ELSE db
  /\ Go(next)
  /\ UNCHANGED <<cr, postgresUp, keycloak, mishaps>> /\ Outside

-----------------------------------------------------------------------------
(* Keycloak.                                                               *)

AskedNever == FALSE

(* isSslRequiredUpdatedForMasterRealm: once noted on the Deployment it       *)
(* stays; otherwise the database is asked, and no answer means no.          *)
Asked == Is(cache, "keycloak") /\ ~cache["keycloak"].echo

Rollout(v) ==
  IF api["keycloak"] = cache["keycloak"] THEN Store("keycloak", v) /\ UNCHANGED queued
  ELSE IF Is(cache, "keycloak") THEN UNCHANGED objects /\ queued' = TRUE   \* a conflict
  ELSE UNCHANGED <<objects, queued>>                                     \* exists: no error

SyncKeycloakDeploymentToCluster ==
  /\ pc = <<"sync", "keycloak">>
  /\ \E answered \in BOOLEAN :
       /\ IF ~Asked \/ answered = postgresUp THEN UNCHANGED mishaps
          ELSE ~answered /\ mishaps > 0 /\ mishaps' = mishaps - 1
       /\ missed' = (missed \/ (Asked /\ ~answered))
       /\ LET note == Asked /\ answered /\ ~db.ssl IN
          IF Is(cache, "keycloak") /\ ~note
          THEN /\ UNCHANGED <<objects, queued>>
               /\ IF cache["keycloak"].ready
                  THEN pc' = (IF mem.keycloakProvisioned THEN Resting ELSE <<"ssl", "keycloak">>)
                       /\ UNCHANGED <<mem, fresh>>
                  ELSE pc' = Idle /\ mem' = NoCR /\ fresh' = FALSE
          ELSE /\ pc' = Idle /\ mem' = NoCR /\ fresh' = FALSE
               /\ Rollout([Created EXCEPT !.echo = note])
  /\ UNCHANGED <<cr, pods, pwd>> /\ Outside

(* ProvisionKeycloakResources: the database, then a script in Keycloak's pod *)
(* that signs in as the admin the pod knows.                                *)
UpdateSSL ==
  /\ pc = <<"ssl", "keycloak">>
  /\ IF postgresUp THEN db' = [db EXCEPT !.ssl = FALSE] /\ Go(<<"provision", "keycloak">>)
     ELSE Requeue /\ UNCHANGED db
  /\ UNCHANGED <<cr, objects, postgresUp, keycloak, mishaps>> /\ Outside

ProvisionKeycloakResources ==
  /\ pc = <<"provision", "keycloak">>
  /\ IF keycloak.up /\ postgresUp /\ keycloak.admin = db.admin
     THEN db' = [db EXCEPT !.realm = TRUE] /\ Go(<<"record", "keycloak">>)
     ELSE Requeue /\ UNCHANGED db
  /\ UNCHANGED <<cr, objects, postgresUp, keycloak, mishaps>> /\ Outside

(* This write is repeated on a reloaded CR until it does not conflict.  Any  *)
(* other error ends the loop as a success does: the pass goes on and nothing *)
(* is requeued, but the status is not stored.                               *)
SaveKeycloakProvisioned ==
  /\ pc = <<"record", "keycloak">>
  /\ \/ /\ IF fresh
           THEN /\ cr' = [mem EXCEPT !.keycloakProvisioned = TRUE] /\ mem' = cr'
                /\ stale' = stale \cup {"cr"} /\ pc' = Resting /\ UNCHANGED fresh
           ELSE mem' = crSeen /\ fresh' = ("cr" \notin stale) /\ UNCHANGED <<cr, stale, pc>>
        /\ UNCHANGED <<missed, mishaps>>
     \/ /\ mishaps > 0 /\ mishaps' = mishaps - 1
        /\ missed' = TRUE /\ pc' = Resting /\ UNCHANGED <<cr, mem, fresh, stale>>
  /\ UNCHANGED <<api, pods, pwd, queued>> /\ Outside

Rest == pc = Resting /\ Wait /\ NoCalls

Worker ==
  \/ Start \/ SyncPVC \/ SyncDeployment \/ ProvisionDB \/ SaveDBProvisioned
  \/ \E s \in Secrets : Name(s) \/ DeleteSecret(s) \/ CreateSecret(s) \/ SaveName(s)
  \/ Drop("pvc", <<"drop", "postgres">>) \/ Drop("postgres", <<"provision", "postgres">>)
  \/ Drop("keycloak", Resting)
  \/ SyncKeycloakDeploymentToCluster \/ UpdateSSL \/ ProvisionKeycloakResources
  \/ SaveKeycloakProvisioned \/ Rest

Cluster == PostgresStarts \/ KeycloakStarts \/ PodsStop \/ PVCGoes

Next ==
  \/ Worker \/ Cluster \/ CallFails \/ Restart \/ PodLost \/ SwitchMode
  \/ \E k \in Kinds : SyncCache(k)

Spec == Init /\ [][Next]_vars

FairSpec ==
  /\ Spec /\ WF_vars(Worker) /\ \A k \in Kinds : WF_vars(SyncCache(k))
  /\ SF_vars(PostgresStarts) /\ WF_vars(KeycloakStarts) /\ WF_vars(PodsStop) /\ WF_vars(PVCGoes)

-----------------------------------------------------------------------------
TypeOK ==
  /\ cr \in CheCluster /\ crSeen \in CheCluster /\ mem \in CheCluster
  /\ \A o \in Objects : api[o] \in Values(o) /\ cache[o] \in Values(o)
  /\ stale \subseteq Kinds
  /\ db \in [user: Passwords \cup {None}, admin: Passwords \cup {None}, realm: BOOLEAN, ssl: BOOLEAN]
  /\ keycloak \in [up: BOOLEAN, admin: Passwords \cup {None}, ssl: BOOLEAN, echo: BOOLEAN]
  /\ pc \in Steps /\ pwd \in Passwords \cup {None, ""}
  /\ fresh \in BOOLEAN /\ missed \in BOOLEAN /\ queued \in BOOLEAN /\ postgresUp \in BOOLEAN
  /\ userOps \in Nat /\ mishaps \in Nat
  /\ fresh => mem = cr

KeycloakServes ==
  /\ keycloak.up /\ postgresUp /\ db.realm /\ keycloak.admin = db.admin
  /\ cr.dbProvisioned
  /\ missed \/ (~keycloak.ssl /\ cr.keycloakProvisioned)

(* In multi-user mode Keycloak is brought up, with its realm and credentials *)
(* that open the database, across conflicts, restarts, lost pods and passes  *)
(* that end in an error; it no longer demands SSL and the status says that   *)
(* it is provisioned, unless the last pass went on after an error as if      *)
(* there were none (missed).  Two things that the code does not recover from *)
(* are premises: a Secret that the CR names and that is lost is not made     *)
(* again, and a database that single-user mode has thrown away still counts  *)
(* as provisioned.                                                          *)
KeycloakComesUp ==
  /\ <>[]cr.multi /\ [](cr.dbProvisioned => cr.multi)
  /\ <>[](\A s \in cr.named : Is(api, s))
  => <>[]KeycloakServes

(* A password that the database knows stays in its Secret.                  *)
PasswordKept ==
  [][\A s \in Secrets :
       LET known == IF s = "postgres-secret" THEN db.user ELSE db.admin IN
       known # None /\ api[s] = known => api'[s] = known]_vars

(* The database, the Secrets and Keycloak's pod agree on the passwords: what *)
(* the database knows is what the Secrets hold, and a Keycloak that runs has *)
(* the admin's password that they hold now, across switches of the mode,     *)
(* restarts and passes that act on an old CR.                               *)
PasswordsAgree ==
  /\ db.user # None => api["postgres-secret"] = db.user
  /\ db.admin # None => api["admin-secret"] = db.admin
  /\ keycloak.up => keycloak.admin = api["admin-secret"]

(* In single-user mode neither of them is left.                             *)
SingleUserCleansUp ==
  <>[](~cr.multi) => <>[](\A o \in Deployments \cup {"pvc"} : ~Is(api, o))
=============================================================================
