------------------------------ MODULE Rollout ------------------------------
(***************************************************************************)
(* The part of Reconcile that rolls Che out: a fixed sequence of calls     *)
(* that create or update one object each, wait for it, or record progress  *)
(* in the status of the CheCluster resource (CR).                          *)
(*                                                                         *)
(* A pass ends at the first call that is not done.  If that call returned  *)
(* an error the request is queued again; if not, the operator counts on    *)
(* the watch of the object to start the next pass.  Reads come from        *)
(* informer caches that trail the API server; events may be coalesced.     *)
(* Meanwhile the user edits the CR and tampers with the objects, the       *)
(* Deployment controller starts pods, calls fail and the process restarts. *)
(***************************************************************************)
EXTENDS Naturals, Sequences, FiniteSets

CONSTANTS
  Objects,        \* what the rollout creates
  Stages,         \* the calls of a pass: a sequence of [call, obj]
  Deployments,    \* the objects that are Deployments
  Replaced,       \* the kinds Update deletes and creates again
  LabelCompared,  \* the objects whose diff options compare the labels
  ClusterScoped,  \* the objects read past the cache, and not watched
  Config,         \* the ConfigMap the server reads ...
  Server,         \* ... whose Deployment names the revision it was read at
  MayInterrupt,   \* may the provisioning script stop halfway?
  MaxUserOps,     \* bound on what the user does to the CR and the objects
  MaxFaults       \* bound on failed calls, lost pods and restarts

Calls == {"sync", "ensure", "exists", "await", "provision", "status"}

Creates(i) == Stages[i].call \in {"sync", "ensure"}

(* An object has one stage that creates it; the database is provisioned    *)
(* before the server is created.                                           *)
ASSUME RolloutAssumption ==
  /\ Stages \in Seq([call: Calls, obj: Objects]) /\ Stages # <<>>
  /\ Deployments \subseteq Objects /\ ClusterScoped \subseteq Objects
  /\ LabelCompared \subseteq Objects
  /\ Replaced \subseteq Objects \ Deployments
  /\ Config \in Objects \ ClusterScoped
  /\ Server \in Deployments \ ClusterScoped
  /\ "CR" \notin Objects
  /\ \A i, j \in DOMAIN Stages : Creates(i) /\ Creates(j) /\ i # j =>
       Stages[i].obj # Stages[j].obj
  /\ \A i \in DOMAIN Stages : Creates(i) /\ Stages[i].obj = Server =>
       \E p \in DOMAIN Stages : p < i /\ Stages[p].call = "provision"
  /\ MayInterrupt \in BOOLEAN
  /\ MaxUserOps \in Nat /\ MaxFaults \in Nat

(* Deployments are namespaced, and so is what these calls read.             *)
ASSUME WatchAssumption ==
  /\ Deployments \cap ClusterScoped = {}
  /\ \A i \in DOMAIN Stages : Stages[i].call \in {"exists", "await", "status"} =>
       Stages[i].obj \notin ClusterScoped

VARIABLES
  cr,       \* the CR in the API server
  api,      \* the objects in the API server
  cache,    \* the objects in the informer caches
  crCache,  \* the CR in its informer cache
  stale,    \* whose latest event the caches have not seen
  db,       \* how far the database is provisioned
  mem,      \* deployContext.CheCluster
  fresh,    \* does mem have the CR's latest revision?
  pc, at,   \* the call the worker makes next
  carry,    \* what the blueprint of a replaced object takes over
  queued,   \* is the reconcile request in the work queue?
  reached,  \* history: the latest CR generation each object was given
  userOps, faults  \* what is left of the bounds

vars == <<cr, api, cache, crCache, stale, db, mem, fresh, pc, at, carry,
          queued, reached, userOps, faults>>

caches  == <<cache, crCache>>
control == <<mem, fresh, pc, at, carry, queued>>

(* What the caches hold.                                                   *)
Keys == (Objects \ ClusterScoped) \cup {"CR"}

(* A Deployment's status: no pod, several, the one that is wanted, or one  *)
(* of the previous pod template that the controller has not acted on yet.  *)
Phases == {"absent", "down", "outdated", "rolling", "up"}

(* gen is the CR generation the content is made of, 0 if the user changed  *)
(* it; pin is the revision of Config a Deployment names; rev is the object *)
(* revision, counted for Config only; meta is what the user added.         *)
Object == [phase: Phases, gen: Nat, pin: Nat, rev: Nat,
           meta: SUBSET {"label", "annotation"}]
NoObject == [phase |-> "absent", gen |-> 0, pin |-> 0, rev |-> 0, meta |-> {}]
Present(s) == s.phase # "absent"

CheCluster == [gen: Nat, provisioned: BOOLEAN,
               running: {"", "Available", "Unavailable", "RollingUpdate"}]

NoCR == [gen |-> 0, provisioned |-> FALSE, running |-> ""]

Init ==
  /\ cr = [gen |-> 1, provisioned |-> FALSE, running |-> ""]
  /\ api = [o \in Objects |-> NoObject] /\ cache = api
  /\ crCache = cr /\ stale = {}
  /\ db = "empty"
  /\ mem = NoCR /\ fresh = FALSE
  /\ pc = "idle" /\ at = 1 /\ carry = {} /\ queued = TRUE
  /\ reached = [o \in Objects |-> 0]
  /\ userOps = MaxUserOps /\ faults = MaxFaults

-----------------------------------------------------------------------------
(* The API server: what a write of object o stores, and whom it makes stale *)

Revised(o, s) == IF o = Config THEN [s EXCEPT !.rev = api[o].rev + 1] ELSE s

(* A write that changes nothing keeps the revision and sends no event.     *)
Write(o, s) ==
  IF s = api[o] THEN UNCHANGED <<api, stale>>
  ELSE /\ api' = [api EXCEPT ![o] = Revised(o, s)]
       /\ stale' = stale \cup ({o} \ ClusterScoped)

Gone(o) == [NoObject EXCEPT !.rev = api[o].rev]

WriteCR(c) == cr' = c /\ stale' = stale \cup {"CR"}

-----------------------------------------------------------------------------
(* The user, the Deployment controller and the informers.                  *)

EditSpec ==
  /\ userOps > 0 /\ userOps' = userOps - 1
  /\ WriteCR([cr EXCEPT !.gen = @ + 1])
  /\ fresh' = FALSE
  /\ UNCHANGED <<api, caches, db, mem, pc, at, carry, queued, reached, faults>>

(* The user deletes an object, changes its content, or adds an annotation  *)
(* or a label; kubectl apply annotates what it changes.  A new pod template *)
(* leaves the old pod running for a while.                                 *)
Changed(o, s) ==
  [s EXCEPT !.phase = IF o \in Deployments /\ @ = "up" THEN "outdated" ELSE @]

Tamperings(o) ==
  {Gone(o), Changed(o, [api[o] EXCEPT !.gen = 0]),
   Changed(o, [api[o] EXCEPT !.gen = 0, !.meta = @ \cup {"annotation"}])}
  \cup {[api[o] EXCEPT !.meta = @ \cup {m}] : m \in {"label", "annotation"}}

Tamper ==
  /\ userOps > 0 /\ userOps' = userOps - 1
  /\ \E o \in Objects \ ClusterScoped :
       /\ Present(api[o])
       /\ \E s \in Tamperings(o) \ {api[o]} : Write(o, s)
  /\ UNCHANGED <<cr, caches, db, control, reached, faults>>

(* A Deployment's pods change, and with them its status.                   *)
Pods(o, from, to) ==
  /\ api[o].phase \in from
  /\ Write(o, [api[o] EXCEPT !.phase = to])
  /\ UNCHANGED <<cr, caches, db, control, reached, userOps>>

StartRolling == UNCHANGED faults /\ \E o \in Deployments : Pods(o, {"outdated"}, "rolling")
PodsReady    == UNCHANGED faults /\ \E o \in Deployments : Pods(o, {"down", "rolling"}, "up")

PodsLost ==
  /\ faults > 0 /\ faults' = faults - 1
  /\ \E o \in Deployments : Pods(o, Phases \ {"absent", "down"}, "down")

(* The watch of a namespaced object or of the CR brings its latest state   *)
(* and enqueues the request of the CR that owns it.                        *)
CacheSync(k) ==
  /\ k \in stale
  /\ stale' = stale \ {k}
  /\ IF k = "CR" THEN crCache' = cr /\ UNCHANGED cache
     ELSE cache' = [cache EXCEPT ![k] = api[k]] /\ UNCHANGED crCache
  /\ queued' = TRUE
  /\ UNCHANGED <<cr, api, db, mem, fresh, pc, at, carry, reached, userOps, faults>>

-----------------------------------------------------------------------------
(* Control flow of a pass.                                                 *)

Call(c) == pc = "call" /\ Stages[at].call = c
This    == Stages[at].obj

Leave ==
  pc' = "idle" /\ at' = 1 /\ mem' = NoCR /\ fresh' = FALSE /\ carry' = {}

(* Mutant: a pass does not end with its last call.                         *)
ContinuePastEnd(c) ==
  /\ pc' = "call" /\ at' = at + 1 /\ mem' = c /\ carry' = {}
  /\ UNCHANGED <<fresh, queued>>

(* The call is done: the next one works on copy c of the CR.               *)
Continue(c) ==
  /\ IF at = Len(Stages) THEN Leave
     ELSE pc' = "call" /\ at' = at + 1 /\ mem' = c /\ carry' = {} /\ UNCHANGED fresh
  /\ UNCHANGED queued

Advance == Continue(mem)

(* Not done and no error: only cluster-scoped objects, which no watch      *)
(* covers, make the operator ask to be called again.                       *)
NotDone == Leave /\ queued' = (queued \/ This \in ClusterScoped)

(* Mutant: an error is logged, and the request is not queued again.        *)
FailQuietly == Leave /\ UNCHANGED queued

Fail == Leave /\ queued' = TRUE

Start ==
  /\ pc = "idle" /\ queued
  /\ queued' = FALSE
  /\ mem' = crCache /\ fresh' = ("CR" \notin stale)
  /\ pc' = "call"
  /\ UNCHANGED <<cr, api, caches, stale, db, at, carry, reached, userOps, faults>>

-----------------------------------------------------------------------------
(* Sync: get from the cache, then create, update or neither.               *)

Seen(o) == IF o \in ClusterScoped THEN api[o] ELSE cache[o]

Pin(o) ==
  IF o = Server /\ Present(Seen(Config)) THEN Seen(Config).rev ELSE 0

Differs(o) ==
  \/ Seen(o).gen # mem.gen
  \/ Seen(o).pin # Pin(o)
  \/ o \in LabelCompared /\ "label" \in Seen(o).meta

(* Mutant: the blueprint is written as it is.                              *)
Unmerged(o) ==
  Changed(o, [Seen(o) EXCEPT !.gen = mem.gen, !.pin = Pin(o), !.meta = {}])

(* The blueprint carries what the user added to the object it is to replace *)
Merged(o) ==
  Changed(o, [Seen(o) EXCEPT !.gen = mem.gen, !.pin = Pin(o)])

Give(o, s) ==
  /\ Write(o, s)
  /\ reached' = [reached EXCEPT ![o] = IF s.gen > @ THEN s.gen ELSE @]

(* Create, or CreateIfNotExists, which does not mind who was first.        *)
New(o, meta) ==
  [NoObject EXCEPT !.phase = IF o \in Deployments THEN "down" ELSE "up",
                   !.gen = mem.gen, !.pin = Pin(o), !.meta = meta]

Create(o, meta, doneIfExists) ==
  \/ /\ ~Present(api[o])
     /\ Give(o, New(o, meta))
     /\ Advance
  \/ /\ Present(api[o])
     /\ IF doneIfExists THEN Advance ELSE NotDone
     /\ UNCHANGED <<api, stale, reached>>

(* Mutant: a conflict does not end the pass.                               *)
UpdateOrGoOn(o) ==
  \/ /\ o \notin stale
     /\ Give(o, Merged(o))
     /\ NotDone
  \/ /\ o \in stale
     /\ Advance
     /\ UNCHANGED <<api, stale, reached>>

(* An update names the revision that was read; an object that changed or   *)
(* went since is an error.  A stored update is never done: its event is.   *)
Update(o) ==
  \/ /\ o \notin stale
     /\ Give(o, Merged(o))
     /\ NotDone
  \/ /\ o \in stale
     /\ Fail
     /\ UNCHANGED <<api, stale, reached>>

(* Services, Ingresses, Routes, Jobs and Secrets are deleted, whatever     *)
(* their revision, and created again in a second call.                     *)
Delete(o) ==
  /\ IF Present(api[o]) THEN Write(o, Gone(o)) ELSE UNCHANGED <<api, stale>>
  /\ pc' = "recreate" /\ carry' = Seen(o).meta
  /\ UNCHANGED <<mem, fresh, at, queued, reached>>

Sync ==
  LET o == This IN
  /\ Call("sync")
  /\ \/ ~Present(Seen(o)) /\ Create(o, {}, FALSE)
     \/ Present(Seen(o)) /\ Differs(o) /\ o \in Replaced /\ Delete(o)
     \/ Present(Seen(o)) /\ Differs(o) /\ o \notin Replaced /\ Update(o)
     \/ Present(Seen(o)) /\ ~Differs(o) /\ Advance /\ UNCHANGED <<api, stale, reached>>
  /\ UNCHANGED <<cr, caches, db, userOps, faults>>

Recreate ==
  /\ pc = "recreate"
  /\ Create(This, carry, FALSE)
  /\ UNCHANGED <<cr, caches, db, userOps, faults>>

CreateIfNotExists ==
  /\ Call("ensure")
  /\ IF Present(Seen(This)) THEN Advance /\ UNCHANGED <<api, stale, reached>>
     ELSE Create(This, {}, TRUE)
  /\ UNCHANGED <<cr, caches, db, userOps, faults>>

-----------------------------------------------------------------------------
(* The calls that read an object, and what they make of it.                *)

(* GetNamespacedObject: a stage that needs an object it just created.      *)
EnsureExists ==
  /\ Call("exists")
  /\ IF Present(Seen(This)) THEN Advance ELSE NotDone
  /\ UNCHANGED <<cr, api, caches, stale, db, reached, userOps, faults>>

(* SyncDeploymentSpecToCluster looks at the replicas, not at whether the    *)
(* controller has seen the new template: "outdated" has one available.      *)
Available(s) == s.phase \in {"up", "outdated"}

AwaitDeployment ==
  /\ Call("await")
  /\ IF Available(Seen(This)) THEN Advance ELSE NotDone
  /\ UNCHANGED <<cr, api, caches, stale, db, reached, userOps, faults>>

(* Mutant: without a pod to run the script in, the status is written.      *)
ProvisionDBAnyway ==
  /\ Call("provision")
  /\ IF mem.provisioned THEN Advance /\ UNCHANGED db
     ELSE /\ db' = IF db = "empty" /\ api[This].phase \notin {"absent", "down"}
                   THEN "ready" ELSE db
          /\ pc' = "record"
          /\ UNCHANGED <<mem, fresh, at, carry, queued>>
  /\ UNCHANGED <<cr, api, caches, stale, reached, userOps, faults>>

(* ProvisionDB runs a script in the database's pod.  The script stops at   *)
(* once if the database user exists, and succeeds.                         *)
ProvisionDB ==
  /\ Call("provision")
  /\ \/ mem.provisioned /\ Advance /\ UNCHANGED <<db, faults>>
     \/ /\ ~mem.provisioned /\ api[This].phase \notin {"absent", "down"}
        /\ db' = IF db = "empty" THEN "ready" ELSE db
        /\ pc' = "record"
        /\ UNCHANGED <<mem, fresh, at, carry, queued, faults>>
     \/ /\ ~mem.provisioned /\ api[This].phase \in {"absent", "down"}
        /\ Fail
        /\ UNCHANGED <<db, faults>>
     \/ /\ ~mem.provisioned /\ db = "empty"
        /\ MayInterrupt /\ faults > 0 /\ faults' = faults - 1
        /\ db' = "user"
        /\ Fail
  /\ UNCHANGED <<cr, api, caches, stale, reached, userOps>>

(* Mutant: the status is written without the revision that was read.       *)
UpdateStatusUnchecked(c) == WriteCR(c) /\ Continue(c)

(* Status().Update of the worker's copy: a conflict ends the pass.         *)
UpdateStatus(c) ==
  \/ fresh /\ WriteCR(c) /\ Continue(c)
  \/ ~fresh /\ Fail /\ UNCHANGED <<cr, stale>>

RecordProvisioned ==
  /\ pc = "record"
  /\ UpdateStatus([mem EXCEPT !.provisioned = TRUE])
  /\ UNCHANGED <<api, caches, db, reached, userOps, faults>>

Availability(s) ==
  IF s.phase \in {"absent", "down"} THEN "Unavailable"
  ELSE IF s.phase = "rolling" THEN "RollingUpdate" ELSE "Available"

UpdateAvailabilityStatus ==
  LET running == Availability(Seen(This)) IN
  /\ Call("status")
  /\ IF mem.running = running THEN Advance /\ UNCHANGED <<cr, stale>>
     ELSE UpdateStatus([mem EXCEPT !.running = running])
  /\ UNCHANGED <<api, caches, db, reached, userOps, faults>>

-----------------------------------------------------------------------------
(* A call fails, or the process dies; the new one starts from a fresh list. *)
CallFails ==
  /\ pc # "idle"
  /\ faults > 0 /\ faults' = faults - 1
  /\ Fail
  /\ UNCHANGED <<cr, api, caches, stale, db, reached, userOps>>

Restart ==
  /\ faults > 0 /\ faults' = faults - 1
  /\ cache' = api /\ crCache' = cr /\ stale' = {}
  /\ Fail
  /\ UNCHANGED <<cr, api, db, reached, userOps>>

Worker ==
  \/ Start \/ Sync \/ Recreate \/ CreateIfNotExists
  \/ EnsureExists \/ AwaitDeployment
  \/ ProvisionDB \/ RecordProvisioned \/ UpdateAvailabilityStatus

DeploymentController == StartRolling \/ PodsReady

Next ==
  \/ EditSpec \/ Tamper
  \/ DeploymentController \/ PodsLost
  \/ \E k \in Keys : CacheSync(k)
  \/ Worker \/ CallFails \/ Restart

Spec == Init /\ [][Next]_vars

(* The worker is scheduled and every watch delivers.                       *)
OperatorFairness == WF_vars(Worker) /\ \A k \in Keys : WF_vars(CacheSync(k))

FairSpec == Spec /\ OperatorFairness /\ WF_vars(DeploymentController)

-----------------------------------------------------------------------------
TypeOK ==
  /\ cr \in CheCluster /\ crCache \in CheCluster /\ mem \in CheCluster
  /\ api \in [Objects -> Object] /\ cache \in [Objects -> Object]
  /\ stale \subseteq Keys
  /\ db \in {"empty", "user", "ready"}
  /\ fresh \in BOOLEAN /\ queued \in BOOLEAN
  /\ carry \subseteq {"label", "annotation"}
  /\ pc \in {"idle", "call", "recreate", "record"} /\ at \in DOMAIN Stages
  /\ reached \in [Objects -> Nat]
  /\ userOps \in Nat /\ faults \in Nat

Synced == {i \in DOMAIN Stages : Stages[i].call = "sync"}

(* No object is given a generation of the CR before the objects that come  *)
(* before it have been given it: whatever was stale, failed or tampered    *)
(* with, the server never gets ahead of its database and its ConfigMap.    *)
StagesInOrder ==
  \A i, j \in Synced :
    i < j => reached[Stages[j].obj] <= reached[Stages[i].obj]

(* The status says that the database is provisioned, and the server is     *)
(* created, only when the script has run to its end, or has once been cut  *)
(* short: then it takes the database user for a sign that all is done.     *)
Provisioned == db = "ready" \/ (MayInterrupt /\ db = "user")
ProvisionedMeansReady == cr.provisioned \/ reached[Server] > 0 => Provisioned

(* An update keeps the annotations that others put on the object, the ones *)
(* added since the operator read it included.                              *)
AnnotationsKept ==
  [][\A o \in Objects \ Replaced :
       "annotation" \in api[o].meta /\ Present(api'[o]) =>
         "annotation" \in api'[o].meta]_vars

(* The installation the CR asks for.                                       *)
Settled ==
  /\ \A i \in Synced : LET s == api[Stages[i].obj] IN
       /\ s.phase = "up" /\ s.gen = cr.gen
       /\ Stages[i].obj = Server => s.pin = api[Config].rev
  /\ \A i \in DOMAIN Stages : Present(api[Stages[i].obj])
  /\ cr.provisioned /\ cr.running = "Available"

(* The rollout completes and then stays as it is: no pass that ends without *)
(* asking for the next one waits for an event that never comes, and no two  *)
(* passes undo each other's work.  A label on an object whose labels are    *)
(* compared prevents it: no update takes the label off.                    *)
Labelled == \E o \in LabelCompared : "label" \in api[o].meta
RolloutCompletes == <>[]Settled \/ []<>Labelled

(* Seen from outside, the passes are a pipeline: whatever is stale, fails   *)
(* or is tampered with, an object's generation only ever grows, none comes  *)
(* before its turn or from a CR that never was, and the server waits for    *)
(* the database.                                                           *)
MadeBefore ==
  {m \in Objects \X Objects : \E i, j \in Synced :
     i < j /\ m = <<Stages[i].obj, Stages[j].obj>>}

P == INSTANCE Pipeline WITH
       Before <- MadeBefore, asked <- cr.gen, given <- reached,
       database <- (db # "empty"), recorded <- cr.provisioned

ImplementsPipeline == P!Spec
=============================================================================
