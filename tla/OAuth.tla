------------------------------- MODULE OAuth -------------------------------
(***************************************************************************)
(* Login with OpenShift: an OAuthClient in the cluster and an identity     *)
(* provider in Keycloak that share a name and a secret, both generated by  *)
(* the operator and kept in the CheCluster resource (CR), a flag in the    *)
(* CR's status that says Keycloak is configured, and a finalizer.          *)
(*                                                                         *)
(* Turning OAuth on and off is a sequence of calls to three systems with   *)
(* no transaction around them, made from a copy of the CR while the user   *)
(* may toggle OAuth again, delete the CR, or the process may die.          *)
(***************************************************************************)
EXTENDS Naturals, FiniteSetsExt

CONSTANTS
  MaxSecrets,    \* bound on the names, and on the secrets, in use at a time
  MaxUserOps,    \* bound on what the user does
  MaxFailures,   \* bound on failed calls
  MaxRestarts    \* bound on restarts

ASSUME OAuthAssumption ==
  /\ MaxSecrets \in Nat \ {0}
  /\ MaxUserOps \in Nat /\ MaxFailures \in Nat /\ MaxRestarts \in Nat

VARIABLES
  cr, crCache,  \* the CR in the API server, and in the informer cache
  stale,        \* has the cache not seen the CR's latest event?
  mem, fresh,   \* deployContext.CheCluster; is it the latest revision?
  clients,      \* the OAuthClients: name -> secret, 0 if there is none
  idp,          \* the identity provider in Keycloak: its name and secret
  pc, queued,   \* the call the worker makes next; the work queue
  userOps, failures, restarts     \* what is left of the bounds

vars == <<cr, crCache, stale, mem, fresh, clients, idp, pc, queued,
          userOps, failures, restarts>>

bounds == <<userOps, failures, restarts>>
store  == <<cr, stale>>

Numbers == 0..MaxSecrets
None    == [name |-> 0, secret |-> 0]

(* name and secret are spec.auth.oAuthClientName and oAuthSecret, 0 if     *)
(* empty; provisioned is status.openShiftoAuthProvisioned.                 *)
CheCluster == [state: {"absent", "live", "deleting"}, oauth: BOOLEAN,
               name: Numbers, secret: Numbers, fin: BOOLEAN, provisioned: BOOLEAN]
NoCR == [state |-> "absent", oauth |-> FALSE, name |-> 0, secret |-> 0,
         fin |-> FALSE, provisioned |-> FALSE]
Exists(c)   == c.state # "absent"
Deleting(c) == c.state = "deleting"

PCs == {"idle", "finalizer", "append", "dropDeleted", "name", "secret", "client",
        "provision", "record", "undo", "deleteClient", "drop", "clearStatus",
        "clearSpec"}

Init ==
  /\ cr = [NoCR EXCEPT !.state = "live"]
  /\ crCache = cr /\ stale = FALSE
  /\ mem = NoCR /\ fresh = FALSE
  /\ clients = [n \in Numbers |-> 0] /\ idp = None
  /\ pc = "idle" /\ queued = TRUE
  /\ userOps = MaxUserOps /\ failures = MaxFailures /\ restarts = MaxRestarts

-----------------------------------------------------------------------------
(* The user, the API server and the informer.                              *)

UserWrites(c) ==
  /\ Exists(cr)
  /\ userOps > 0 /\ userOps' = userOps - 1
  /\ cr' = c /\ stale' = TRUE /\ fresh' = FALSE
  /\ UNCHANGED <<crCache, mem, clients, idp, pc, queued, failures, restarts>>

Toggle == UserWrites([cr EXCEPT !.oauth = ~@])

DeleteCR ==
  /\ ~Deleting(cr)
  /\ UserWrites(IF cr.fin THEN [cr EXCEPT !.state = "deleting"] ELSE NoCR)

CacheSync ==
  /\ stale /\ stale' = FALSE
  /\ crCache' = cr /\ queued' = TRUE
  /\ UNCHANGED <<cr, mem, fresh, clients, idp, pc, bounds>>

(* An update of the worker's copy, which is stored if it is the latest     *)
(* revision.  A CR marked as deleted goes with its finalizer.              *)
Accepted == Exists(cr) /\ fresh
Conflict == Exists(cr) /\ ~fresh
Store(c) ==
  IF c = cr THEN UNCHANGED store
  ELSE /\ cr' = IF Deleting(c) /\ ~c.fin THEN NoCR ELSE c
       /\ stale' = TRUE

(* An update of the CR leaves its status alone; a status update, the rest.  *)
SpecOf(c)     == [c EXCEPT !.provisioned = cr.provisioned]
WithStatus(b) == [cr EXCEPT !.provisioned = b]

Failure == failures > 0 /\ failures' = failures - 1
NoFailure == UNCHANGED failures

(* A write that fails for another reason than a conflict.                  *)
Refused == Failure \/ (~Exists(cr) /\ NoFailure)

-----------------------------------------------------------------------------
(* Control flow of a pass.                                                 *)

Goto(l, c)   == pc' = l /\ mem' = c /\ UNCHANGED <<fresh, queued>>
Leave        == pc' = "idle" /\ mem' = NoCR /\ fresh' = FALSE
Done         == Leave /\ UNCHANGED queued
Requeue      == Leave /\ queued' = TRUE

(* deployContext.CheCluster takes the cached state, whatever its age.      *)
Reload(l, c) == pc' = l /\ mem' = c /\ fresh' = (~stale) /\ UNCHANGED queued

Start ==
  /\ pc = "idle" /\ queued
  /\ queued' = FALSE
  /\ IF Exists(crCache)
     THEN pc' = "finalizer" /\ mem' = crCache /\ fresh' = (~stale)
     ELSE UNCHANGED <<pc, mem, fresh>>
  /\ UNCHANGED <<store, crCache, clients, idp, bounds>>

(* After the finalizers pass: only an enabled OAuth is synchronised.       *)
AfterFinalizer(c) == Goto(IF c.oauth THEN "name" ELSE "undo", c)

(* ReconcileOAuthClientFinalizer.  Its errors are logged.                  *)
ReconcileFinalizer ==
  /\ pc = "finalizer"
  /\ \/ /\ ~mem.oauth \/ (~Deleting(mem) /\ mem.fin)
        /\ AfterFinalizer(mem)
        /\ NoFailure /\ UNCHANGED clients
     \/ /\ mem.oauth /\ ~Deleting(mem) /\ ~mem.fin
        /\ Goto("append", mem)
        /\ NoFailure /\ UNCHANGED clients
     \/ /\ mem.oauth /\ Deleting(mem)
        /\ \/ clients' = [clients EXCEPT ![mem.name] = 0] /\ NoFailure
           \/ UNCHANGED clients /\ Failure
        /\ IF mem.fin THEN Goto("dropDeleted", mem) ELSE AfterFinalizer(mem)
  /\ UNCHANGED <<store, crCache, idp, userOps, restarts>>

(* The loops of AppendFinalizer and DeleteFinalizer: after a conflict the  *)
(* copy is read again and the change applied to it without another look.   *)
Resume(next, c) == IF next = "items" THEN AfterFinalizer(c) ELSE Goto(next, c)

WriteFinalizer(new, next) ==
  /\ \/ Accepted /\ Store(SpecOf(new)) /\ Resume(next, SpecOf(new)) /\ NoFailure
     \/ /\ Conflict /\ NoFailure
        /\ IF Exists(crCache) THEN Reload(pc, crCache) ELSE Resume(next, new)
        /\ UNCHANGED store
     \/ Refused /\ Resume(next, new) /\ UNCHANGED store
  /\ UNCHANGED <<crCache, clients, idp, userOps, restarts>>

AppendFinalizer ==
  pc = "append" /\ WriteFinalizer([mem EXCEPT !.fin = TRUE], "items")

DeleteFinalizer ==
  \/ pc = "dropDeleted" /\ WriteFinalizer([mem EXCEPT !.fin = FALSE], "items")
  \/ pc = "drop" /\ WriteFinalizer([mem EXCEPT !.fin = FALSE], "clearStatus")

-----------------------------------------------------------------------------
(* SyncOpenShiftIdentityProviderItems.                                     *)

(* Mutant: a conflict is only logged.                                      *)
UpdateSpecAndGoOn(c, next) ==
  \/ Accepted /\ Store(SpecOf(c)) /\ Goto(next, SpecOf(c)) /\ NoFailure
  \/ Conflict /\ NoFailure /\ Goto(next, c) /\ UNCHANGED store
  \/ Refused /\ Requeue /\ UNCHANGED store

(* UpdateCheCRSpec: any error ends the pass.                               *)
UpdateSpec(c, next) ==
  \/ Accepted /\ Store(SpecOf(c)) /\ Goto(next, SpecOf(c)) /\ NoFailure
  \/ Conflict /\ NoFailure /\ Requeue /\ UNCHANGED store
  \/ Refused /\ Requeue /\ UNCHANGED store

(* What GeneratePasswd returns: a value nobody uses.  Which one makes no     *)
(* difference.                                                             *)
NewName ==
  {Min(Numbers \ ({0, cr.name, crCache.name, idp.name} \cup {n \in Numbers : clients[n] # 0}))}
NewSecret ==
  {Min(Numbers \ ({0, cr.secret, crCache.secret, idp.secret} \cup {clients[n] : n \in Numbers}))}

(* Mutant: no name is made up.                                             *)
GenerateNoName ==
  /\ pc = "name"
  /\ Goto("secret", mem)
  /\ UNCHANGED <<store, crCache, clients, idp, bounds>>

GenerateName ==
  /\ pc = "name"
  /\ \/ mem.name # 0 /\ Goto("secret", mem) /\ NoFailure /\ UNCHANGED store
     \/ mem.name = 0 /\ \E n \in NewName : UpdateSpec([mem EXCEPT !.name = n], "secret")
  /\ UNCHANGED <<crCache, clients, idp, userOps, restarts>>

(* Mutant: the secret is made up, but only kept in the copy.               *)
GenerateSecretUnsaved ==
  /\ pc = "secret"
  /\ \/ mem.secret # 0 /\ Goto("client", mem)
     \/ mem.secret = 0 /\ \E n \in NewSecret : Goto("client", [mem EXCEPT !.secret = n])
  /\ UNCHANGED <<store, crCache, clients, idp, bounds>>

GenerateSecret ==
  /\ pc = "secret"
  /\ \/ mem.secret # 0 /\ Goto("client", mem) /\ NoFailure /\ UNCHANGED store
     \/ mem.secret = 0 /\ \E n \in NewSecret : UpdateSpec([mem EXCEPT !.secret = n], "client")
  /\ UNCHANGED <<crCache, clients, idp, userOps, restarts>>

(* Sync of a cluster-scoped object no watch covers: an update is not done,  *)
(* and the request is not queued again.                                    *)
SyncOAuthClient ==
  /\ pc = "client"
  /\ \/ /\ Deleting(mem) \/ clients[mem.name] = mem.secret
        /\ Goto("provision", mem) /\ NoFailure /\ UNCHANGED clients
     \/ /\ ~Deleting(mem) /\ clients[mem.name] # mem.secret
        /\ clients' = [clients EXCEPT ![mem.name] = mem.secret]
        /\ IF clients[mem.name] = 0 THEN Goto("provision", mem) ELSE Done
        /\ NoFailure
     \/ ~Deleting(mem) /\ Failure /\ Requeue /\ UNCHANGED clients
  /\ UNCHANGED <<store, crCache, idp, userOps, restarts>>

(* The script leaves an identity provider that exists as it is, and may    *)
(* fail in the steps after its creation.                                   *)
Configured ==
  IF idp = None THEN [name |-> mem.name, secret |-> mem.secret] ELSE idp

ProvisionKeycloak ==
  /\ pc = "provision"
  /\ \/ mem.provisioned /\ Goto("undo", mem) /\ NoFailure /\ UNCHANGED idp
     \/ /\ ~mem.provisioned
        /\ idp' = Configured
        /\ Goto("record", mem) /\ NoFailure
     \/ ~mem.provisioned /\ Failure /\ Requeue /\ idp' \in {idp, Configured}
  /\ UNCHANGED <<store, crCache, clients, userOps, restarts>>

(* A conflict is answered with a reload, any other error is ignored.       *)
RecordProvisioned ==
  /\ pc = "record"
  /\ \/ Accepted /\ Store(WithStatus(TRUE)) /\ Goto("undo", WithStatus(TRUE)) /\ NoFailure
     \/ /\ Conflict /\ NoFailure
        /\ IF Exists(crCache) THEN Reload("record", crCache) ELSE Goto("record", mem)
        /\ UNCHANGED store
     \/ /\ Refused
        /\ Goto("undo", [mem EXCEPT !.provisioned = TRUE]) /\ UNCHANGED store
  /\ UNCHANGED <<crCache, clients, idp, userOps, restarts>>

-----------------------------------------------------------------------------
(* ReconcileIdentityProvider, and what Reconcile does when it answers       *)
(* "deleted".  A failed call is not reported: the pass ends as done.  A     *)
(* script that cannot ask Keycloak takes the provider for absent.          *)

(* Mutant: the identity provider is left in Keycloak.                      *)
DeleteNothing ==
  /\ pc = "undo"
  /\ Done
  /\ UNCHANGED <<store, crCache, clients, idp, bounds>>

DeleteIdentityProvider ==
  /\ pc = "undo"
  /\ \/ /\ mem.oauth \/ ~mem.provisioned
        /\ Done /\ NoFailure /\ UNCHANGED idp
     \/ /\ ~mem.oauth /\ mem.provisioned
        /\ idp' = None
        /\ Goto("deleteClient", mem) /\ NoFailure
     \/ /\ ~mem.oauth /\ mem.provisioned
        /\ Failure /\ UNCHANGED idp
        /\ Done \/ Goto("deleteClient", mem)
  /\ UNCHANGED <<store, crCache, clients, userOps, restarts>>

DeleteOAuthClient ==
  /\ pc = "deleteClient"
  /\ \/ clients' = [clients EXCEPT ![mem.name] = 0] /\ NoFailure
     \/ UNCHANGED clients /\ Failure
  /\ Goto(IF mem.fin THEN "drop" ELSE "clearStatus", mem)
  /\ UNCHANGED <<store, crCache, idp, userOps, restarts>>

(* After a conflict the CR is read into a variable that the next attempt    *)
(* does not write.                                                         *)
ClearProvisioned ==
  /\ pc = "clearStatus"
  /\ \/ Accepted /\ Store(WithStatus(FALSE)) /\ Goto("clearSpec", WithStatus(FALSE)) /\ NoFailure
     \/ Conflict /\ NoFailure /\ Goto(pc, mem) /\ UNCHANGED store
     \/ /\ Refused
        /\ Goto("clearSpec", [mem EXCEPT !.provisioned = FALSE]) /\ UNCHANGED store
  /\ UNCHANGED <<crCache, clients, idp, userOps, restarts>>

(* The name and the secret are cleared in the copy; a status write does not *)
(* store them.                                                             *)
ClearSpec ==
  /\ pc = "clearSpec"
  /\ \/ Accepted /\ Store(WithStatus(mem.provisioned)) /\ Done /\ NoFailure
     \/ Conflict /\ NoFailure /\ Goto(pc, mem) /\ UNCHANGED store
     \/ Refused /\ Done /\ UNCHANGED store
  /\ UNCHANGED <<crCache, clients, idp, userOps, restarts>>

Restart ==
  /\ restarts > 0 /\ restarts' = restarts - 1
  /\ Leave
  /\ queued' = TRUE /\ crCache' = cr /\ stale' = FALSE
  /\ UNCHANGED <<cr, clients, idp, userOps, failures>>

Worker ==
  \/ Start \/ ReconcileFinalizer \/ AppendFinalizer \/ DeleteFinalizer
  \/ GenerateName \/ GenerateSecret \/ SyncOAuthClient
  \/ ProvisionKeycloak \/ RecordProvisioned
  \/ DeleteIdentityProvider \/ DeleteOAuthClient \/ ClearProvisioned \/ ClearSpec

Next == Toggle \/ DeleteCR \/ CacheSync \/ Worker \/ Restart

Spec == Init /\ [][Next]_vars

FairSpec == Spec /\ WF_vars(CacheSync) /\ WF_vars(Worker)

-----------------------------------------------------------------------------
TypeOK ==
  /\ cr \in CheCluster /\ crCache \in CheCluster /\ mem \in CheCluster
  /\ stale \in BOOLEAN /\ fresh \in BOOLEAN /\ queued \in BOOLEAN
  /\ clients \in [Numbers -> Numbers] /\ clients[0] = 0
  /\ idp \in [name: Numbers, secret: Numbers]
  /\ pc \in PCs
  /\ userOps \in Nat /\ failures \in Nat /\ restarts \in Nat

(* An OAuthClient is always the one the CR names, so that the operator can  *)
(* find it again: a generated name is stored before a client bears it.     *)
NoOrphanClient ==
  Exists(cr) => \A n \in Numbers : clients[n] # 0 => n = cr.name

(* Keycloak and the OAuthClient of the same name share their secret: what   *)
(* crashes, conflicts and re-runs generate anew is never half in use.      *)
CredentialsAgree ==
  idp # None /\ clients[idp.name] # 0 => clients[idp.name] = idp.secret

(* Switched off, nothing is left that lets a user log in.  The OAuthClient  *)
(* may be left: one that was created in a pass that did not get to Keycloak *)
(* is not deleted.                                                         *)
InStep ==
  IF cr.oauth
  THEN /\ cr.provisioned /\ cr.name # 0
       /\ idp = [name |-> cr.name, secret |-> cr.secret]
       /\ clients[cr.name] = cr.secret
  ELSE ~cr.provisioned /\ idp = None

Spinning == pc \in {"clearStatus", "clearSpec"} /\ Conflict

(* When the user stops toggling, OAuth is as the CR says in all three       *)
(* systems, if nothing failed or died and the worker does not spin.        *)
ToggleTakesEffect ==
  \/ <>[](cr.state = "live" => InStep) \/ <>[]Spinning
  \/ <>(failures < MaxFailures \/ restarts < MaxRestarts)
=============================================================================
