---------------------------- MODULE ImagePuller ----------------------------
(***************************************************************************)
(* The Kubernetes image puller (deploy/kubernetes_image_puller.go): another *)
(* operator, which the Che operator installs through the Operator Lifecycle *)
(* Manager (OLM) while spec.imagePuller.enable is set, configures by a      *)
(* KubernetesImagePuller object, and removes when the switch is off.        *)
(*                                                                         *)
(* A pass looks at one object after another and mostly ends at the first    *)
(* that it had to write.  OLM, the puller's operator, the garbage collector *)
(* and the user act between any two of its calls; the CR and the puller are *)
(* read from caches, everything else from the API server.                   *)
(***************************************************************************)
EXTENDS Naturals

CONSTANTS
  MaxChannel,    \* channels a catalog may offer by default: 1..MaxChannel
  MaxUserOps,    \* bound on what users and administrators do
  MaxMishaps     \* bound on failed calls and restarts

ASSUME ImagePullerAssumption ==
  /\ MaxChannel \in Nat \ {0}
  /\ MaxUserOps \in Nat /\ MaxMishaps \in Nat

VARIABLES
  cr, crCache,         \* the CR in the API server, and in the informer cache
  puller, pullerCache, \* spec of the KubernetesImagePuller, "none" if there is none
  stale,               \* which of the two caches has not seen the latest event
  mem, fresh,          \* deployContext.CheCluster; is it the latest revision?
  olm, channel,        \* OLM's APIs; default channel of the package, 0 if unknown
  group, sub,          \* OperatorGroup; channel of the Subscription, 0 if none
  csv, crd,            \* the puller's operator runs; its API is there
  found,               \* default channel the pass read from the PackageManifest
  pc, queued,          \* the call the worker makes next; the work queue
  userOps, mishaps     \* what is left of the bounds

cluster == <<olm, channel>>
package == <<group, sub, csv, crd>>
store   == <<cr, stale>>
pullers == <<puller, pullerCache>>
bounds  == <<userOps, mishaps>>
vars == <<cr, crCache, pullers, stale, mem, fresh, cluster, package, found,
          pc, queued, bounds>>

(* What tells KubernetesImagePullerSpecs apart: do they have the names of a *)
(* Deployment and a ConfigMap, and something else such as images?           *)
Specs  == {"empty", "images", "names", "full"}
Filled == [s \in Specs |-> IF s \in {"empty", "names"} THEN "names" ELSE "full"]

CheCluster == [state: {"gone", "live", "deleting"}, enable: BOOLEAN,
               spec: Specs, fin: BOOLEAN]
NoCR == [state |-> "gone", enable |-> FALSE, spec |-> "empty", fin |-> FALSE]
Exists(c)   == c.state # "gone"
Deleting(c) == c.state = "deleting"

InstallPCs   == {"group", "subscription", "compare", "update", "append", "api", "puller"}
UninstallPCs == {"deletePuller", "deleteCSV", "deleteSubscription", "deleteGroup",
                 "clear", "drop"}
PCs == {"idle", "apis", "manifest", "rest"} \cup InstallPCs \cup UninstallPCs

Init ==
  /\ \E e \in BOOLEAN, s \in Specs :
       cr = [state |-> "live", enable |-> e, spec |-> s, fin |-> FALSE]
  /\ crCache = cr /\ puller = "none" /\ pullerCache = "none" /\ stale = {}
  /\ mem = NoCR /\ fresh = FALSE
  /\ olm \in BOOLEAN /\ channel \in {0, 1} /\ (channel = 1 => olm)
  /\ group \in {"none", "other"} /\ sub = 0 /\ csv = FALSE /\ crd = FALSE
  /\ found = 0 /\ pc = "idle" /\ queued = TRUE
  /\ userOps = MaxUserOps /\ mishaps = MaxMishaps

-----------------------------------------------------------------------------
(* Users and administrators.                                               *)

UserOp == userOps > 0 /\ userOps' = userOps - 1 /\ UNCHANGED mishaps

UserWrites(c) ==
  /\ UserOp
  /\ Exists(cr)
  /\ cr' = c /\ stale' = stale \cup {"CR"} /\ fresh' = FALSE
  /\ UNCHANGED <<crCache, pullers, mem, cluster, package, found, pc, queued>>

EditCR ==
  \/ UserWrites([cr EXCEPT !.enable = ~@])
  \/ \E s \in Specs : UserWrites([cr EXCEPT !.spec = s])

DeleteCR ==
  /\ ~Deleting(cr)
  /\ UserWrites(IF cr.fin THEN [cr EXCEPT !.state = "deleting"] ELSE NoCR)

InstallOLM ==
  /\ UserOp
  /\ ~olm /\ olm' = TRUE
  /\ UNCHANGED <<store, crCache, pullers, mem, fresh, channel, package, found, pc, queued>>

(* The catalog comes to offer the package, or another channel of it.       *)
PublishPackage ==
  /\ UserOp
  /\ olm /\ channel' \in (1..MaxChannel) \ {channel}
  /\ UNCHANGED <<store, crCache, pullers, mem, fresh, olm, package, found, pc, queued>>

-----------------------------------------------------------------------------
(* OLM, the puller's operator, the garbage collector and the caches.       *)

OthersActed == UNCHANGED <<cr, crCache, mem, fresh, cluster, found, pc, bounds>>

(* OLM installs what a Subscription asks for; the API stays for ever.      *)
OLMInstalls ==
  /\ sub # 0 /\ ~csv
  /\ csv' = TRUE /\ crd' = TRUE
  /\ UNCHANGED <<group, sub, pullers, stale, queued>>
  /\ OthersActed

(* The puller's operator fills in the names it misses.                     *)
PullerOperatorFills ==
  /\ csv /\ puller # "none" /\ puller # Filled[puller]
  /\ puller' = Filled[puller] /\ stale' = stale \cup {"puller"}
  /\ UNCHANGED <<package, pullerCache, queued>>
  /\ OthersActed

(* Objects owned by a CR go after it.  A ClusterServiceVersion is not owned. *)
CollectGarbage ==
  /\ ~Exists(cr)
  /\ group = "ours" \/ sub # 0 \/ puller # "none"
  /\ group' = (IF group = "ours" THEN "none" ELSE group) /\ sub' = 0
  /\ puller' = "none" /\ stale' = stale \cup {"puller"}
  /\ UNCHANGED <<csv, crd, pullerCache, queued>>
  /\ OthersActed

(* Only the CR is watched.                                                 *)
SyncCR ==
  /\ "CR" \in stale /\ stale' = stale \ {"CR"}
  /\ crCache' = cr /\ queued' = TRUE
  /\ UNCHANGED <<cr, pullers, mem, fresh, cluster, package, found, pc, bounds>>

SyncPuller ==
  /\ "puller" \in stale /\ stale' = stale \ {"puller"}
  /\ pullerCache' = puller
  /\ UNCHANGED <<puller, package, queued>>
  /\ OthersActed

(* The informers repeat the CR periodically, whatever happened to it.      *)
Resync ==
  /\ Exists(crCache) /\ ~queued /\ queued' = TRUE
  /\ UNCHANGED <<pullers, stale, package>>
  /\ OthersActed

-----------------------------------------------------------------------------
(* Control flow of a pass.  Requeue also stands for an error, which is      *)
(* retried after a back-off.                                               *)

Goto(l)  == pc' = l /\ UNCHANGED <<mem, fresh, found, queued>>
Leave    == pc' = "idle" /\ mem' = NoCR /\ fresh' = FALSE /\ found' = 0
Requeue  == Leave /\ queued' = TRUE
Mishap   == mishaps > 0 /\ mishaps' = mishaps - 1
Frame    == UNCHANGED <<crCache, pullerCache, cluster, userOps>>
Quiet    == UNCHANGED <<store, puller, package, mishaps>> /\ Frame

Start ==
  /\ pc = "idle" /\ queued /\ queued' = FALSE
  /\ IF Exists(crCache)
     THEN pc' = "apis" /\ mem' = crCache /\ fresh' = ("CR" \notin stale)
     ELSE UNCHANGED <<pc, mem, fresh>>
  /\ UNCHANGED found /\ Quiet

(* Mutant: for a CR that is being deleted, dropping the finalizer will do.  *)
CheckAPIsInHaste ==
  /\ pc = "apis"
  /\ \/ mem.enable /\ ~olm /\ Requeue
     \/ mem.enable /\ olm /\ Goto("manifest")
     \/ ~mem.enable /\ ~olm /\ Goto("rest")
     \/ ~mem.enable /\ olm /\ Goto(IF Deleting(mem) THEN "drop" ELSE "deletePuller")
  /\ Quiet

(* CheckNeededImagePullerApis.                                             *)
CheckAPIs ==
  /\ pc = "apis"
  /\ \/ mem.enable /\ ~olm /\ Requeue
     \/ mem.enable /\ olm /\ Goto("manifest")
     \/ ~mem.enable /\ ~olm /\ Goto("rest")
     \/ ~mem.enable /\ olm /\ Goto("deletePuller")
  /\ Quiet

(* A call that fails ends the pass with its error, ...                     *)
CallFails ==
  /\ pc \notin {"idle", "rest", "compare"}
  /\ Mishap
  /\ Requeue
  /\ UNCHANGED <<store, puller, package>> /\ Frame

(* ... but for the comparison: its error is logged, and the pass goes on.  *)
CompareFails ==
  /\ pc = "compare"
  /\ \/ Mishap
     \/ sub = 0 /\ UNCHANGED mishaps
  /\ Goto("rest")
  /\ UNCHANGED <<store, puller, package>> /\ Frame

(* The rest of Reconcile, which may ask for another pass or not.           *)
Rest ==
  /\ pc = "rest"
  /\ Requeue \/ (Leave /\ UNCHANGED queued)
  /\ Quiet

(* Client.Update of the worker's copy, which may be the last of a CR that   *)
(* is being deleted.                                                       *)
Accepted == Exists(cr) /\ fresh
Store(c) ==
  IF c = cr THEN UNCHANGED store
  ELSE /\ cr' = IF Deleting(c) /\ ~c.fin THEN NoCR ELSE c
       /\ stale' = stale \cup {"CR"}

UpdateAndRequeue(c) ==
  /\ IF Accepted THEN Store(c) ELSE UNCHANGED store
  /\ Requeue

-----------------------------------------------------------------------------
(* ReconcileImagePuller while the puller is enabled.                       *)

(* Mutant: a package without a channel is taken as it is.                  *)
GetAnyPackageManifest ==
  /\ pc = "manifest"
  /\ found' = channel /\ pc' = "group"
  /\ UNCHANGED <<mem, fresh, queued>>
  /\ UNCHANGED <<store, puller, package, mishaps>> /\ Frame

GetPackageManifest ==
  /\ pc = "manifest"
  /\ \/ channel = 0 /\ Requeue
     \/ /\ channel # 0 /\ found' = channel /\ pc' = "group"
        /\ UNCHANGED <<mem, fresh, queued>>
  /\ UNCHANGED <<store, puller, package, mishaps>> /\ Frame

CreateOperatorGroupIfNotFound ==
  /\ pc = "group"
  /\ IF group = "none" THEN group' = "ours" /\ Requeue
     ELSE Goto("subscription") /\ UNCHANGED group
  /\ UNCHANGED <<store, puller, sub, csv, crd, mishaps>> /\ Frame

CreateImagePullerSubscription ==
  /\ pc = "subscription"
  /\ IF sub = 0 THEN sub' = found /\ Requeue
     ELSE Goto("compare") /\ UNCHANGED sub
  /\ UNCHANGED <<store, puller, group, csv, crd, mishaps>> /\ Frame

CompareExpectedSubscription ==
  /\ pc = "compare" /\ sub # 0
  /\ \/ sub # found /\ Goto("update")
     \/ sub = found /\ mem.fin /\ Goto("api")
     \/ sub = found /\ ~mem.fin /\ Deleting(mem) /\ Requeue
     \/ sub = found /\ ~mem.fin /\ ~Deleting(mem) /\ Goto("append")
  /\ Quiet

(* The update names no resourceVersion, and the API server accepts no       *)
(* unconditional update of a custom resource.                              *)
UpdateSubscription ==
  /\ pc = "update"
  /\ Requeue
  /\ Quiet

(* AppendFinalizer: a conflict is answered with a reload.                  *)
AppendFinalizer ==
  LET c == [mem EXCEPT !.fin = TRUE] IN
  /\ pc = "append"
  /\ \/ Accepted /\ Store(c) /\ Requeue
     \/ ~Exists(cr) /\ Requeue /\ UNCHANGED store
     \/ /\ Exists(cr) /\ ~fresh
        /\ IF Exists(crCache)
           THEN mem' = crCache /\ fresh' = ("CR" \notin stale) /\ UNCHANGED <<pc, found, queued>>
           ELSE Requeue
        /\ UNCHANGED store
  /\ UNCHANGED <<puller, package, mishaps>> /\ Frame

WaitForPullerAPI ==
  /\ pc = "api"
  /\ IF crd THEN Goto("puller") ELSE Requeue
  /\ Quiet

(* Mutant: the defaults are kept in the copy only.                         *)
SetNoDefaults ==
  /\ pc = "puller" /\ pullerCache = "none" /\ mem.spec = "empty"
  /\ Requeue
  /\ Quiet

(* UpdateImagePullerSpecIfEmpty.                                           *)
SetDefaults ==
  /\ pc = "puller" /\ pullerCache = "none" /\ mem.spec = "empty"
  /\ UpdateAndRequeue([mem EXCEPT !.spec = "names"])
  /\ UNCHANGED <<puller, package, mishaps>> /\ Frame

WritePuller ==
  /\ puller' = mem.spec /\ stale' = stale \cup {"puller"}
  /\ UNCHANGED <<cr, package, mishaps>> /\ Frame

(* The cache may not have seen a puller that is there: AlreadyExists.       *)
CreateKubernetesImagePuller ==
  /\ pc = "puller" /\ pullerCache = "none" /\ mem.spec # "empty"
  /\ IF puller = "none" THEN WritePuller /\ Goto("rest") ELSE Requeue /\ Quiet

UpdateKubernetesImagePuller ==
  /\ pc = "puller" /\ pullerCache \notin {"none", mem.spec}
  /\ Requeue
  /\ IF "puller" \in stale THEN Quiet ELSE WritePuller

KeepKubernetesImagePuller ==
  /\ pc = "puller" /\ pullerCache = mem.spec
  /\ Goto("rest")
  /\ Quiet

-----------------------------------------------------------------------------
(* UninstallImagePullerOperator, in each pass while the puller is disabled. *)

DeletePuller ==
  /\ pc = "deletePuller"
  /\ Goto("deleteCSV")
  /\ IF crd /\ pullerCache # "none" /\ puller # "none"
     THEN puller' = "none" /\ stale' = stale \cup {"puller"}
     ELSE UNCHANGED <<puller, stale>>
  /\ UNCHANGED <<cr, package, mishaps>> /\ Frame

(* Mutant: OLM removes what it has installed.                              *)
LeaveCSV == pc = "deleteCSV" /\ Goto("deleteSubscription") /\ Quiet

DeleteCSV ==
  /\ pc = "deleteCSV"
  /\ csv' = FALSE /\ Goto("deleteSubscription")
  /\ UNCHANGED <<store, puller, group, sub, crd, mishaps>> /\ Frame

DeleteSubscription ==
  /\ pc = "deleteSubscription"
  /\ sub' = 0 /\ Goto("deleteGroup")
  /\ UNCHANGED <<store, puller, group, csv, crd, mishaps>> /\ Frame

(* The group is deleted by its name.                                       *)
DeleteOperatorGroup ==
  /\ pc = "deleteGroup"
  /\ group' = (IF group = "ours" THEN "none" ELSE group)
  /\ Goto("clear")
  /\ UNCHANGED <<store, puller, sub, csv, crd, mishaps>> /\ Frame

ClearSpec ==
  /\ pc = "clear"
  /\ \/ mem.spec # "empty" /\ UpdateAndRequeue([mem EXCEPT !.spec = "empty"])
     \/ mem.spec = "empty" /\ Goto(IF mem.fin THEN "drop" ELSE "rest") /\ UNCHANGED store
  /\ UNCHANGED <<puller, package, mishaps>> /\ Frame

DropFinalizer ==
  /\ pc = "drop"
  /\ UpdateAndRequeue([mem EXCEPT !.fin = FALSE])
  /\ UNCHANGED <<puller, package, mishaps>> /\ Frame

Restart ==
  /\ Mishap
  /\ Leave /\ queued' = TRUE
  /\ crCache' = cr /\ pullerCache' = puller /\ stale' = {}
  /\ UNCHANGED <<cr, puller, cluster, package, userOps>>

Install ==
  \/ GetPackageManifest \/ CreateOperatorGroupIfNotFound
  \/ CreateImagePullerSubscription \/ CompareExpectedSubscription \/ CompareFails
  \/ UpdateSubscription \/ AppendFinalizer \/ WaitForPullerAPI
  \/ SetDefaults \/ CreateKubernetesImagePuller
  \/ UpdateKubernetesImagePuller \/ KeepKubernetesImagePuller

Uninstall ==
  \/ DeletePuller \/ DeleteCSV \/ DeleteSubscription \/ DeleteOperatorGroup
  \/ ClearSpec \/ DropFinalizer

Worker == Start \/ CheckAPIs \/ CallFails \/ Install \/ Uninstall \/ Rest

Others ==
  \/ EditCR \/ DeleteCR \/ InstallOLM \/ PublishPackage
  \/ OLMInstalls \/ PullerOperatorFills \/ CollectGarbage
  \/ SyncCR \/ SyncPuller \/ Resync \/ Restart

Next == Worker \/ Others

Spec == Init /\ [][Next]_vars

FairSpec ==
  /\ Spec
  /\ WF_vars(Worker) /\ WF_vars(SyncCR) /\ WF_vars(SyncPuller) /\ WF_vars(Resync)
  /\ WF_vars(OLMInstalls)

-----------------------------------------------------------------------------
(* A pass that installs has a channel to subscribe to.                     *)
TypeOK ==
  /\ cr \in CheCluster /\ crCache \in CheCluster /\ mem \in CheCluster
  /\ puller \in Specs \cup {"none"} /\ pullerCache \in Specs \cup {"none"}
  /\ stale \subseteq {"CR", "puller"} /\ fresh \in BOOLEAN
  /\ olm \in BOOLEAN /\ channel \in 0..MaxChannel
  /\ group \in {"none", "ours", "other"} /\ sub \in 0..MaxChannel
  /\ csv \in BOOLEAN /\ crd \in BOOLEAN
  /\ found \in 0..MaxChannel /\ (pc \in InstallPCs => found # 0)
  /\ pc \in PCs /\ queued \in BOOLEAN
  /\ userOps \in Nat /\ mishaps \in Nat

(* The finalizer leaves the CR only when what it guards is gone: a          *)
(* Subscription would bring the operator back after its CR.                *)
FinalizerGuards ==
  [][cr.fin /\ ~cr'.fin => sub = 0 /\ group # "ours"]_vars

Asked ==
  /\ cr.state = "live" /\ cr.enable
  /\ olm /\ channel # 0 /\ sub \in {0, channel}

Installed ==
  /\ group # "none" /\ sub = channel /\ csv /\ cr.fin /\ puller = cr.spec

(* An enabled puller comes to be installed as the CR says, and stays so,    *)
(* and lets the rest of Reconcile take its turn.  This takes a channel that *)
(* does not change and a spec that the puller's operator leaves as it is,   *)
(* or none: the operators overwrite each other's spec otherwise.            *)
InstallCompletes ==
  <>[](Asked /\ (cr.spec = Filled[cr.spec] \/ puller = "none"))
    => <>[]Installed /\ []<>(pc = "rest")

(* A disabled puller comes to be removed, with all that belongs to it, and   *)
(* the deletion of a CR with a disabled puller completes.                  *)
UninstallCompletes ==
  /\ <>[](cr.state = "live" /\ ~cr.enable /\ olm)
       => <>[](/\ group # "ours" /\ sub = 0 /\ ~csv /\ puller = "none"
               /\ ~cr.fin /\ cr.spec = "empty")
  /\ Deleting(cr) /\ ~cr.enable ~> ~Exists(cr) \/ cr.enable
=============================================================================
