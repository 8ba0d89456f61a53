---------------------------- MODULE RolloutProofs ----------------------------
(* Proofs about Rollout, for every sequence of stages and every bound.     *)
EXTENDS Rollout, SequenceTheorems, TLAPS

-----------------------------------------------------------------------------
(* Type correctness, in four parts.                                        *)

TypeCRs == cr \in CheCluster /\ crCache \in CheCluster /\ mem \in CheCluster

TypeAPI ==
  /\ api \in [Objects -> Object] /\ cache \in [Objects -> Object]
  /\ stale \subseteq Keys

TypeControl ==
  /\ fresh \in BOOLEAN /\ queued \in BOOLEAN
  /\ carry \subseteq {"label", "annotation"}
  /\ pc \in {"idle", "call", "recreate", "record"} /\ at \in DOMAIN Stages

TypeRest ==
  /\ db \in {"empty", "user", "ready"}
  /\ reached \in [Objects -> Nat]
  /\ userOps \in Nat /\ faults \in Nat

LEMMA TypeParts == TypeOK <=> TypeCRs /\ TypeAPI /\ TypeControl /\ TypeRest
  BY DEF TypeOK, TypeCRs, TypeAPI, TypeControl, TypeRest

LEMMA StageFacts ==
  /\ DOMAIN Stages = 1..Len(Stages) /\ Len(Stages) \in Nat /\ 1 \in DOMAIN Stages
  /\ \A i \in DOMAIN Stages : Stages[i].obj \in Objects /\ Stages[i].call \in Calls
<1>1. Stages \in Seq([call: Calls, obj: Objects]) /\ Stages # <<>>
  BY RolloutAssumption
<1>2. DOMAIN Stages = 1..Len(Stages) /\ Len(Stages) \in Nat
  BY <1>1
<1>3. Len(Stages) > 0
  BY <1>1, <1>2
<1>4. \A i \in DOMAIN Stages : Stages[i] \in [call: Calls, obj: Objects]
  BY <1>1, <1>2, ElementOfSeq
<1> QED
  BY <1>2, <1>3, <1>4

LEMMA NoObjectType == NoObject \in Object
  BY DEF NoObject, Object, Phases

(* What the record updates of the module keep within Object.               *)
LEMMA ObjectUpdates ==
  ASSUME NEW s \in Object
  PROVE  /\ \A g \in Nat : [s EXCEPT !.gen = g] \in Object
         /\ \A g \in Nat : [s EXCEPT !.rev = g] \in Object
         /\ \A p \in Phases : [s EXCEPT !.phase = p] \in Object
         /\ \A g, p \in Nat : [s EXCEPT !.gen = g, !.pin = p] \in Object
         /\ \A m \in SUBSET {"label", "annotation"} : [s EXCEPT !.meta = m] \in Object
         /\ s.phase \in Phases /\ s.gen \in Nat /\ s.pin \in Nat /\ s.rev \in Nat
         /\ s.meta \subseteq {"label", "annotation"}
  BY DEF Object

LEMMA CRUpdates ==
  ASSUME NEW c \in CheCluster
  PROVE  /\ \A g \in Nat : [c EXCEPT !.gen = g] \in CheCluster
         /\ [c EXCEPT !.provisioned = TRUE] \in CheCluster
         /\ \A r \in {"Available", "Unavailable", "RollingUpdate"} :
              [c EXCEPT !.running = r] \in CheCluster
  BY DEF CheCluster

LEMMA SeenType ==
  ASSUME TypeAPI, NEW o \in Objects
  PROVE  Seen(o) \in Object /\ api[o] \in Object /\ cache[o] \in Object
  BY DEF TypeAPI, Seen

LEMMA PinType ==
  ASSUME TypeAPI, NEW o \in Objects
  PROVE  Pin(o) \in Nat
<1>1. Seen(Config).rev \in Nat
  BY SeenType, ObjectUpdates, RolloutAssumption
<1> QED
  BY <1>1 DEF Pin

LEMMA ChangedType ==
  ASSUME NEW s \in Object, NEW o
  PROVE  Changed(o, s) \in Object
<1>1. s.phase \in Phases /\ "outdated" \in Phases
  BY ObjectUpdates DEF Phases
<1>2. (IF o \in Deployments /\ s.phase = "up" THEN "outdated" ELSE s.phase) \in Phases
  BY <1>1
<1> QED
  BY <1>2, ObjectUpdates DEF Changed

LEMMA BlueprintTypes ==
  ASSUME TypeAPI, mem \in CheCluster, NEW o \in Objects
  PROVE  /\ Merged(o) \in Object /\ Gone(o) \in Object
         /\ \A m \in SUBSET {"label", "annotation"} : New(o, m) \in Object
<1>1. mem.gen \in Nat /\ Pin(o) \in Nat
  BY PinType DEF CheCluster
<1>2. Merged(o) \in Object
  <2>1. [Seen(o) EXCEPT !.gen = mem.gen, !.pin = Pin(o)] \in Object
    BY <1>1, SeenType, ObjectUpdates
  <2> QED
    BY <2>1, ChangedType DEF Merged
<1>3. Gone(o) \in Object
  <2>1. api[o].rev \in Nat
    BY SeenType, ObjectUpdates
  <2> QED
    BY <2>1, NoObjectType, ObjectUpdates DEF Gone
<1>4. \A m \in SUBSET {"label", "annotation"} : New(o, m) \in Object
  BY <1>1 DEF New, NoObject, Object, Phases
<1> QED
  BY <1>2, <1>3, <1>4

LEMMA WriteType ==
  ASSUME TypeAPI, NEW o \in Objects, NEW s \in Object, Write(o, s)
  PROVE  api' \in [Objects -> Object] /\ stale' \subseteq Keys
<1>1. CASE s = api[o]
  BY <1>1 DEF Write, TypeAPI
<1>2. CASE s # api[o]
  <2>1. Revised(o, s) \in Object
    <3>1. api[o] \in Object
      BY SeenType
    <3>2. api[o].rev \in Nat
      BY <3>1, ObjectUpdates
    <3>3. [s EXCEPT !.rev = api[o].rev + 1] \in Object
      <4>1. api[o].rev + 1 \in Nat
        BY <3>2
      <4> QED
        BY <4>1, ObjectUpdates
    <3> QED
      BY <3>3 DEF Revised
  <2>2. api' = [api EXCEPT ![o] = Revised(o, s)] /\ stale' = stale \cup ({o} \ ClusterScoped)
    BY <1>2 DEF Write
  <2> QED
    BY <2>1, <2>2 DEF TypeAPI, Keys
<1> QED
  BY <1>1, <1>2

LEMMA GiveType ==
  ASSUME TypeAPI, TypeRest, NEW o \in Objects, NEW s \in Object, Give(o, s)
  PROVE  /\ api' \in [Objects -> Object] /\ stale' \subseteq Keys
         /\ reached' \in [Objects -> Nat]
<1>1. Write(o, s) /\ reached' = [reached EXCEPT ![o] = IF s.gen > reached[o] THEN s.gen ELSE reached[o]]
  BY DEF Give
<1>2. s.gen \in Nat /\ reached[o] \in Nat
  BY ObjectUpdates DEF TypeRest
<1>3. reached' \in [Objects -> Nat]
  BY <1>1, <1>2 DEF TypeRest
<1> QED
  BY <1>1, <1>3, WriteType

(* Control: where a pass goes on, or ends.                                 *)
LEMMA NoCRType == NoCR \in CheCluster
  BY DEF NoCR, CheCluster

LEMMA LeaveType ==
  ASSUME Leave
  PROVE  /\ mem' \in CheCluster /\ fresh' \in BOOLEAN /\ carry' = {}
         /\ pc' = "idle" /\ at' = 1
  BY NoCRType DEF Leave

LEMMA ContinueType ==
  ASSUME TypeControl, NEW c \in CheCluster, Continue(c)
  PROVE  mem' \in CheCluster /\ TypeControl'
<1>1. CASE at = Len(Stages)
  BY <1>1, LeaveType, StageFacts DEF Continue, TypeControl
<1>2. CASE at # Len(Stages)
  <2>1. at + 1 \in DOMAIN Stages
    BY <1>2, StageFacts DEF TypeControl
  <2> QED
    BY <1>2, <2>1 DEF Continue, TypeControl
<1> QED
  BY <1>1, <1>2

LEMMA EndType ==
  ASSUME TypeControl, Fail \/ NotDone
  PROVE  mem' \in CheCluster /\ TypeControl'
  BY LeaveType, StageFacts DEF Fail, NotDone, TypeControl

LEMMA CreateType ==
  ASSUME TypeCRs, TypeAPI, TypeControl, TypeRest,
         NEW o \in Objects, NEW m \in SUBSET {"label", "annotation"}, NEW b,
         Create(o, m, b)
  PROVE  /\ api' \in [Objects -> Object] /\ stale' \subseteq Keys
         /\ reached' \in [Objects -> Nat]
         /\ mem' \in CheCluster /\ TypeControl'
<1>1. mem \in CheCluster
  BY DEF TypeCRs
<1>2. CASE Give(o, New(o, m)) /\ Advance
  BY <1>1, <1>2, BlueprintTypes, GiveType, ContinueType DEF Advance
<1>3. CASE (Advance \/ NotDone) /\ UNCHANGED <<api, stale, reached>>
  <2>1. mem' \in CheCluster /\ TypeControl'
    BY <1>1, <1>3, ContinueType, EndType DEF Advance
  <2> QED
    BY <2>1, <1>3 DEF TypeAPI, TypeRest
<1> QED
  BY <1>2, <1>3 DEF Create

-----------------------------------------------------------------------------
(* Each part of TypeOK is preserved by every action.                       *)

LEMMA InitType == Init => TypeOK
<1> SUFFICES ASSUME Init PROVE TypeOK
  OBVIOUS
<1>1. TypeCRs
  BY NoCRType DEF Init, TypeCRs, CheCluster
<1>2. TypeAPI
  BY NoObjectType DEF Init, TypeAPI
<1>3. TypeControl
  BY StageFacts DEF Init, TypeControl
<1>4. TypeRest
  BY RolloutAssumption DEF Init, TypeRest
<1> QED
  BY <1>1, <1>2, <1>3, <1>4, TypeParts

LEMMA TamperedType ==
  ASSUME TypeCRs, TypeAPI, NEW o \in Objects
  PROVE  Tamperings(o) \subseteq Object
<1>1. api[o] \in Object
  BY SeenType
<1>2. Gone(o) \in Object
  BY BlueprintTypes DEF TypeCRs
<1>3. Changed(o, [api[o] EXCEPT !.gen = 0]) \in Object
  BY <1>1, ChangedType, ObjectUpdates
<1>4. \A l \in {"label", "annotation"} :
        [api[o] EXCEPT !.meta = api[o].meta \cup {l}] \in Object
  BY <1>1, ObjectUpdates DEF Object
<1>5. Changed(o, [api[o] EXCEPT !.gen = 0, !.meta = api[o].meta \cup {"annotation"}]) \in Object
  <2>1. [api[o] EXCEPT !.gen = 0, !.meta = api[o].meta \cup {"annotation"}] \in Object
    BY <1>1 DEF Object
  <2> QED
    BY <2>1, ChangedType
<1> QED
  BY <1>2, <1>3, <1>4, <1>5 DEF Tamperings

LEMMA EnvironmentType ==
  ASSUME TypeCRs, TypeAPI, TypeControl, TypeRest,
         EditSpec \/ Tamper \/ DeploymentController \/ PodsLost
         \/ (\E k \in Keys : CacheSync(k))
  PROVE  TypeCRs' /\ TypeAPI' /\ TypeControl' /\ TypeRest'
<1>1. CASE EditSpec
  <2>1. cr' = [cr EXCEPT !.gen = cr.gen + 1] /\ stale' = stale \cup {"CR"}
    BY <1>1 DEF EditSpec, WriteCR
  <2>2. TypeCRs'
    <3>1. cr' \in CheCluster
      <4>1. cr.gen \in Nat
        BY DEF TypeCRs, CheCluster
      <4>2. cr.gen + 1 \in Nat
        BY <4>1
      <4> QED
        BY <2>1, <4>2, CRUpdates DEF TypeCRs
    <3> QED
      BY <1>1, <3>1 DEF EditSpec, TypeCRs, caches
  <2>3. TypeAPI'
    BY <1>1, <2>1 DEF EditSpec, TypeAPI, Keys, caches
  <2>4. TypeControl'
    BY <1>1 DEF EditSpec, TypeControl
  <2>5. TypeRest'
    BY <1>1 DEF EditSpec, TypeRest
  <2> QED
    BY <2>2, <2>3, <2>4, <2>5
<1>2. CASE Tamper
  <2>o. PICK o \in Objects \ ClusterScoped : \E s \in Tamperings(o) : Write(o, s)
    BY <1>2 DEF Tamper
  <2>1. PICK s \in Tamperings(o) : Write(o, s)
    BY <2>o
  <2>3. s \in Object
    BY <2>1, TamperedType
  <2>4. api' \in [Objects -> Object] /\ stale' \subseteq Keys
    BY <2>1, <2>3, WriteType
  <2> QED
    BY <1>2, <2>4 DEF Tamper, TypeCRs, TypeAPI, TypeControl, TypeRest, caches, control
<1>3. ASSUME NEW from, NEW to \in Phases, NEW o \in Deployments, Pods(o, from, to),
             faults' \in Nat
      PROVE  TypeCRs' /\ TypeAPI' /\ TypeControl' /\ TypeRest'
  <2>1. o \in Objects /\ api[o] \in Object
    BY SeenType, RolloutAssumption
  <2>2. [api[o] EXCEPT !.phase = to] \in Object
    BY <2>1, ObjectUpdates
  <2>3. api' \in [Objects -> Object] /\ stale' \subseteq Keys
    BY <1>3, <2>1, <2>2, WriteType DEF Pods
  <2> QED
    BY <1>3, <2>3 DEF Pods, TypeCRs, TypeAPI, TypeControl, TypeRest, caches, control
<1>4. CASE DeploymentController
  BY <1>3, <1>4 DEF DeploymentController, StartRolling, PodsReady, Phases, TypeRest
<1>5. CASE PodsLost
  BY <1>3, <1>5 DEF PodsLost, Phases, TypeRest
<1>6. ASSUME NEW k \in Keys, CacheSync(k)
      PROVE  TypeCRs' /\ TypeAPI' /\ TypeControl' /\ TypeRest'
  <2>1. crCache' \in CheCluster
    BY <1>6 DEF CacheSync, TypeCRs
  <2>2. cache' \in [Objects -> Object]
    BY <1>6 DEF CacheSync, TypeAPI, Keys
  <2> QED
    BY <1>6, <2>1, <2>2 DEF CacheSync, TypeCRs, TypeAPI, TypeControl, TypeRest
<1> QED
  BY <1>1, <1>2, <1>4, <1>5, <1>6

(* What a call that reads leaves alone.                                    *)
LEMMA ReadType ==
  ASSUME TypeCRs, TypeControl, Advance \/ NotDone \/ Fail
  PROVE  mem' \in CheCluster /\ TypeControl'
  BY ContinueType, EndType DEF Advance, TypeCRs

LEMMA UpdateStatusType ==
  ASSUME TypeCRs, TypeAPI, TypeControl, NEW c \in CheCluster, UpdateStatus(c)
  PROVE  /\ cr' \in CheCluster /\ stale' \subseteq Keys
         /\ mem' \in CheCluster /\ TypeControl'
<1>1. CASE fresh /\ WriteCR(c) /\ Continue(c)
  BY <1>1, ContinueType DEF WriteCR, TypeAPI, Keys
<1>2. CASE ~fresh /\ Fail /\ UNCHANGED <<cr, stale>>
  BY <1>2, EndType DEF TypeAPI, TypeCRs
<1> QED
  BY <1>1, <1>2 DEF UpdateStatus

LEMMA WriterType ==
  ASSUME TypeCRs, TypeAPI, TypeControl, TypeRest,
         Sync \/ Recreate \/ CreateIfNotExists
  PROVE  TypeCRs' /\ TypeAPI' /\ TypeControl' /\ TypeRest'
<1> DEFINE o == This
<1>o. o \in Objects /\ Seen(o) \in Object /\ api[o] \in Object
  BY StageFacts, SeenType DEF TypeControl, This
<1> HIDE DEF o
<1> SUFFICES /\ api' \in [Objects -> Object] /\ stale' \subseteq Keys
             /\ reached' \in [Objects -> Nat]
             /\ mem' \in CheCluster /\ TypeControl'
  BY DEF Sync, Recreate, CreateIfNotExists, TypeCRs, TypeAPI, TypeRest, caches
<1>1. ASSUME Advance, UNCHANGED <<api, stale, reached>>
      PROVE  /\ api' \in [Objects -> Object] /\ stale' \subseteq Keys
             /\ reached' \in [Objects -> Nat]
             /\ mem' \in CheCluster /\ TypeControl'
  BY <1>1, ReadType DEF TypeAPI, TypeRest
<1>2. ASSUME Delete(o)
      PROVE  /\ api' \in [Objects -> Object] /\ stale' \subseteq Keys
             /\ reached' \in [Objects -> Nat]
             /\ mem' \in CheCluster /\ TypeControl'
  <2>1. api' \in [Objects -> Object] /\ stale' \subseteq Keys
    BY <1>2, <1>o, BlueprintTypes, WriteType DEF Delete, TypeAPI, TypeCRs
  <2>2. Seen(o).meta \subseteq {"label", "annotation"}
    BY <1>o, ObjectUpdates
  <2>3. TypeControl'
    BY <1>2, <2>2 DEF Delete, TypeControl
  <2> QED
    BY <1>2, <2>1, <2>3 DEF Delete, TypeRest, TypeCRs
<1>3. ASSUME Update(o)
      PROVE  /\ api' \in [Objects -> Object] /\ stale' \subseteq Keys
             /\ reached' \in [Objects -> Nat]
             /\ mem' \in CheCluster /\ TypeControl'
  <2>1. CASE Give(o, Merged(o)) /\ NotDone
    BY <2>1, <1>o, BlueprintTypes, GiveType, ReadType DEF TypeCRs
  <2>2. CASE Fail /\ UNCHANGED <<api, stale, reached>>
    BY <2>2, ReadType DEF TypeAPI, TypeRest
  <2> QED
    BY <1>3, <2>1, <2>2 DEF Update
<1>4. CASE Sync
  <2>1. \/ Create(o, {}, FALSE) \/ Delete(o) \/ Update(o)
        \/ Advance /\ UNCHANGED <<api, stale, reached>>
    BY <1>4 DEF Sync, o
  <2> QED
    BY <2>1, <1>o, <1>1, <1>2, <1>3, CreateType
<1>5. CASE Recreate
  <2>1. Create(o, carry, FALSE) /\ carry \in SUBSET {"label", "annotation"}
    BY <1>5 DEF Recreate, TypeControl, o
  <2> QED
    BY <2>1, <1>o, CreateType
<1>6. CASE CreateIfNotExists
  <2>1. Create(o, {}, TRUE) \/ (Advance /\ UNCHANGED <<api, stale, reached>>)
    BY <1>6 DEF CreateIfNotExists, o
  <2> QED
    BY <2>1, <1>o, <1>1, CreateType
<1> QED
  BY <1>4, <1>5, <1>6

LEMMA ReaderType ==
  ASSUME TypeCRs, TypeAPI, TypeControl, TypeRest,
         \/ Start \/ EnsureExists \/ AwaitDeployment \/ ProvisionDB
         \/ RecordProvisioned \/ UpdateAvailabilityStatus \/ CallFails \/ Restart
  PROVE  TypeCRs' /\ TypeAPI' /\ TypeControl' /\ TypeRest'
<1>1. CASE Start
  <2>1. TypeCRs'
    BY <1>1 DEF Start, TypeCRs, caches
  <2>2. TypeControl'
    BY <1>1 DEF Start, TypeControl
  <2> QED
    BY <1>1, <2>1, <2>2 DEF Start, TypeAPI, TypeRest, caches
<1>2. CASE EnsureExists \/ AwaitDeployment
  <2>1. mem' \in CheCluster /\ TypeControl'
    BY <1>2, ReadType DEF EnsureExists, AwaitDeployment
  <2> QED
    BY <1>2, <2>1 DEF EnsureExists, AwaitDeployment, TypeCRs, TypeAPI, TypeRest, caches
<1>3. CASE ProvisionDB
  <2>1. db' \in {"empty", "user", "ready"} /\ faults' \in Nat
    BY <1>3 DEF ProvisionDB, TypeRest
  <2>2. mem' \in CheCluster /\ TypeControl'
    <3>1. CASE Advance \/ Fail
      BY <3>1, ReadType
    <3>2. CASE pc' = "record" /\ UNCHANGED <<mem, fresh, at, carry, queued>>
      BY <3>2 DEF TypeCRs, TypeControl
    <3> QED
      BY <1>3, <3>1, <3>2 DEF ProvisionDB
  <2> QED
    BY <1>3, <2>1, <2>2 DEF ProvisionDB, TypeCRs, TypeAPI, TypeRest, caches
<1>4. ASSUME NEW c \in CheCluster, UpdateStatus(c),
             UNCHANGED <<api, caches, db, reached, userOps, faults>>
      PROVE  TypeCRs' /\ TypeAPI' /\ TypeControl' /\ TypeRest'
  BY <1>4, UpdateStatusType DEF TypeCRs, TypeAPI, TypeRest, caches
<1>5. CASE RecordProvisioned
  <2>1. [mem EXCEPT !.provisioned = TRUE] \in CheCluster
    BY CRUpdates DEF TypeCRs
  <2> QED
    BY <1>4, <1>5, <2>1 DEF RecordProvisioned
<1>6. CASE UpdateAvailabilityStatus
  <2> DEFINE running == Availability(Seen(This))
  <2>1. [mem EXCEPT !.running = running] \in CheCluster
    BY CRUpdates DEF TypeCRs, Availability
  <2>2. CASE Advance /\ UNCHANGED <<cr, stale>>
    <3>1. mem' \in CheCluster /\ TypeControl'
      BY <2>2, ReadType
    <3> QED
      BY <1>6, <2>2, <3>1 DEF UpdateAvailabilityStatus, TypeCRs, TypeAPI, TypeRest, caches
  <2>3. CASE UpdateStatus([mem EXCEPT !.running = running])
    BY <1>4, <1>6, <2>1, <2>3 DEF UpdateAvailabilityStatus
  <2> QED
    BY <1>6, <2>2, <2>3 DEF UpdateAvailabilityStatus
<1>7. CASE CallFails \/ Restart
  <2>1. mem' \in CheCluster /\ TypeControl'
    BY <1>7, ReadType DEF CallFails, Restart
  <2>2. TypeCRs' /\ TypeAPI'
    BY <1>7, <2>1 DEF CallFails, Restart, TypeCRs, TypeAPI, caches
  <2>3. TypeRest'
    BY <1>7 DEF CallFails, Restart, TypeRest
  <2> QED
    BY <2>1, <2>2, <2>3
<1> QED
  BY <1>1, <1>2, <1>3, <1>5, <1>6, <1>7

LEMMA StepType == TypeOK /\ [Next]_vars => TypeOK'
<1> SUFFICES ASSUME TypeOK, [Next]_vars PROVE TypeOK'
  OBVIOUS
<1>1. TypeCRs /\ TypeAPI /\ TypeControl /\ TypeRest
  BY TypeParts
<1>2. ASSUME TypeCRs' /\ TypeAPI' /\ TypeControl' /\ TypeRest'
      PROVE  TypeOK'
  BY <1>2 DEF TypeOK, TypeCRs, TypeAPI, TypeControl, TypeRest
<1>3. CASE Next
  BY <1>1, <1>2, <1>3, EnvironmentType, WriterType, ReaderType DEF Next, Worker
<1>4. CASE UNCHANGED vars
  BY <1>4 DEF vars, TypeOK
<1> QED
  BY <1>3, <1>4

(* Every variable of a rollout stays in its type, whatever the stages and  *)
(* however often the user edits and calls fail.                            *)
THEOREM TypeCorrect == Spec => []TypeOK
  BY InitType, StepType, PTL DEF Spec

-----------------------------------------------------------------------------
(* StagesInOrder.  A pass reaches a stage only with the earlier objects     *)
(* given the generation it works on, and what the operator sees of an       *)
(* object never has a generation the object was not given.                  *)

Bounded == \A o \in Objects : api[o].gen <= reached[o] /\ cache[o].gen <= reached[o]

Prefix ==
  pc # "idle" => \A i \in Synced : i < at => mem.gen <= reached[Stages[i].obj]

Position ==
  /\ pc = "idle" => at = 1
  /\ pc = "recreate" => Stages[at].call = "sync"
  /\ pc = "record" => Stages[at].call = "provision"

OrderInv == StagesInOrder /\ Bounded /\ Prefix /\ Position

LEMMA GenTypes ==
  ASSUME TypeOK
  PROVE  /\ mem.gen \in Nat /\ cr.gen \in Nat /\ crCache.gen \in Nat
         /\ \A o \in Objects : /\ api[o].gen \in Nat /\ cache[o].gen \in Nat
                               /\ reached[o] \in Nat
<1>1. mem \in CheCluster /\ cr \in CheCluster /\ crCache \in CheCluster
  BY DEF TypeOK
<1>2. \A o \in Objects : api[o] \in Object /\ cache[o] \in Object
  BY DEF TypeOK
<1>3. reached \in [Objects -> Nat]
  BY DEF TypeOK
<1> QED
  BY <1>1, <1>2, <1>3 DEF CheCluster, Object

LEMMA WriteGen ==
  ASSUME TypeAPI, NEW o \in Objects, NEW s \in Object, Write(o, s)
  PROVE  \A p \in Objects : api'[p].gen = IF p = o THEN s.gen ELSE api[p].gen
<1>1. CASE s = api[o]
  BY <1>1 DEF Write
<1>2. CASE s # api[o]
  <2>1. Revised(o, s).gen = s.gen
    BY DEF Revised, Object
  <2>2. api' = [api EXCEPT ![o] = Revised(o, s)]
    BY <1>2 DEF Write
  <2> QED
    BY <2>1, <2>2 DEF TypeAPI
<1> QED
  BY <1>1, <1>2

(* The generations of the states that the operator and the user write.     *)
LEMMA BlueprintGens ==
  ASSUME TypeAPI, NEW o \in Objects
  PROVE  /\ Merged(o).gen = mem.gen /\ Gone(o).gen = 0
         /\ \A m : New(o, m).gen = mem.gen
         /\ \A s \in Object : Changed(o, s).gen = s.gen
         /\ \A s \in Tamperings(o) : s.gen \in {0, api[o].gen}
<1>1. api[o] \in Object /\ Seen(o) \in Object
  BY SeenType
<1>2. \A s \in Object : Changed(o, s).gen = s.gen
  BY DEF Changed, Object
<1>3. Merged(o).gen = mem.gen
  BY <1>1 DEF Merged, Changed, Object
<1>4. Gone(o).gen = 0 /\ \A m : New(o, m).gen = mem.gen
  BY DEF Gone, New, NoObject
<1>5. \A s \in Tamperings(o) : s.gen \in {0, api[o].gen}
  <2>1. Changed(o, [api[o] EXCEPT !.gen = 0]).gen = 0
    BY <1>1 DEF Changed, Object
  <2>2. \A l : [api[o] EXCEPT !.meta = api[o].meta \cup {l}].gen = api[o].gen
    BY <1>1 DEF Object
  <2>3. Changed(o, [api[o] EXCEPT !.gen = 0, !.meta = api[o].meta \cup {"annotation"}]).gen = 0
    BY <1>1 DEF Changed, Object
  <2> QED
    BY <1>4, <2>1, <2>2, <2>3 DEF Tamperings
<1> QED
  BY <1>2, <1>3, <1>4, <1>5

(* An object is given the generation the pass works on: it catches up with *)
(* the ones before it and stays ahead of the ones after it.                *)
LEMMA GiveOrder ==
  ASSUME TypeOK, StagesInOrder, Bounded, Prefix, pc # "idle", Creates(at),
         NEW s \in Object, s.gen = mem.gen, Give(This, s), cache' = cache
  PROVE  /\ StagesInOrder' /\ Bounded'
         /\ mem.gen <= reached'[This]
         /\ \A o \in Objects : reached[o] <= reached'[o]
<1> DEFINE g == mem.gen
<1>1. This \in Objects /\ at \in DOMAIN Stages
  BY StageFacts DEF TypeOK, This
<1>2. /\ g \in Nat
      /\ \A o \in Objects : api[o].gen \in Nat /\ cache[o].gen \in Nat /\ reached[o] \in Nat
  BY GenTypes
<1>3. \A o \in Objects : api'[o].gen = IF o = This THEN g ELSE api[o].gen
  BY <1>1, WriteGen, TypeParts DEF Give
<1>4. reached' = [reached EXCEPT ![This] = IF g > reached[This] THEN g ELSE reached[This]]
  BY DEF Give
<1>5. \A o \in Objects : reached'[o] =
        IF o = This /\ g > reached[o] THEN g ELSE reached[o]
  BY <1>1, <1>4 DEF TypeOK
<1> HIDE DEF g
<1>6. \A o \in Objects : reached[o] <= reached'[o]
  BY <1>2, <1>5
<1>7. g <= reached'[This]
  BY <1>1, <1>2, <1>5
<1>8. Bounded'
  BY <1>2, <1>3, <1>5, <1>6 DEF Bounded
<1>9. StagesInOrder'
  <2> SUFFICES ASSUME NEW i \in Synced, NEW j \in Synced, i < j
               PROVE  reached'[Stages[j].obj] <= reached'[Stages[i].obj]
    BY DEF StagesInOrder, Synced
  <2>1. Stages[i].obj \in Objects /\ Stages[j].obj \in Objects
    BY StageFacts DEF Synced
  <2>2. reached[Stages[j].obj] <= reached[Stages[i].obj]
    BY DEF StagesInOrder
  <2>3. CASE Stages[j].obj = This
    <3>1. j = at
      BY <1>1, <2>3, RolloutAssumption DEF This, Synced, Creates
    <3>2. g <= reached[Stages[i].obj]
      BY <3>1 DEF Prefix, g
    <3> QED
      BY <1>2, <1>5, <2>1, <2>2, <2>3, <3>2
  <2>4. CASE Stages[j].obj # This
    BY <1>2, <1>5, <2>1, <2>2, <2>4
  <2> QED
    BY <2>3, <2>4
<1> QED
  BY <1>6, <1>7, <1>8, <1>9 DEF g

(* A write by the user or by the Deployment controller.                    *)
LEMMA WriteBounded ==
  ASSUME TypeOK, Bounded, NEW o \in Objects, NEW s \in Object,
         s.gen \in {0, api[o].gen}, Write(o, s), UNCHANGED <<cache, reached>>
  PROVE  Bounded'
<1>1. \A p \in Objects : api'[p].gen = IF p = o THEN s.gen ELSE api[p].gen
  BY WriteGen, TypeParts
<1> QED
  BY <1>1, GenTypes DEF Bounded

LEMMA HistoryKept ==
  ASSUME StagesInOrder, Bounded, UNCHANGED <<api, cache, reached>>
  PROVE  StagesInOrder' /\ Bounded'
  BY DEF StagesInOrder, Bounded, Synced

LEMMA ControlKept ==
  ASSUME Prefix, Position, UNCHANGED <<mem, pc, at, reached>>
  PROVE  Prefix' /\ Position'
  BY DEF Prefix, Position, Synced

LEMMA LeavePosition ==
  ASSUME Leave PROVE Prefix' /\ Position'
  BY DEF Leave, Prefix, Position

LEMMA ContinuePosition ==
  ASSUME TypeOK, Prefix, pc # "idle", NEW c, c.gen = mem.gen, Continue(c),
         reached' \in [Objects -> Nat],
         \A o \in Objects : reached[o] <= reached'[o],
         at \in Synced => mem.gen <= reached'[This]
  PROVE  Prefix' /\ Position'
<1>1. CASE at = Len(Stages)
  BY <1>1, LeavePosition DEF Continue
<1>2. CASE at # Len(Stages)
  <2>1. pc' = "call" /\ at' = at + 1 /\ mem' = c
    BY <1>2 DEF Continue
  <2>2. ASSUME NEW i \in Synced, i < at + 1
        PROVE  mem.gen <= reached'[Stages[i].obj]
    <3>1. i \in Nat /\ at \in Nat /\ Stages[i].obj \in Objects
      BY StageFacts DEF Synced, TypeOK
    <3>2. CASE i = at
      BY <2>2, <3>2 DEF This
    <3>3. CASE i < at
      <4>1. mem.gen <= reached[Stages[i].obj]
        BY <3>3 DEF Prefix
      <4>2. reached[Stages[i].obj] <= reached'[Stages[i].obj]
        BY <3>1
      <4>3. mem.gen \in Nat /\ reached[Stages[i].obj] \in Nat /\ reached'[Stages[i].obj] \in Nat
        BY <3>1, GenTypes
      <4> QED
        BY <4>1, <4>2, <4>3
    <3> QED
      BY <2>2, <3>1, <3>2, <3>3
  <2>3. Prefix'
    BY <2>1, <2>2 DEF Prefix, Synced
  <2> QED
    BY <2>1, <2>3 DEF Position
<1> QED
  BY <1>1, <1>2

(* Calls that give nothing and go on, or end the pass.                     *)
LEMMA ReadOrder ==
  ASSUME TypeOK, OrderInv, pc # "idle", UNCHANGED <<api, cache, reached>>,
         \/ Fail \/ NotDone
         \/ \E c : c.gen = mem.gen /\ Continue(c) /\ (at \in Synced => mem.gen <= reached[This])
  PROVE  OrderInv'
<1>1. StagesInOrder' /\ Bounded'
  BY HistoryKept DEF OrderInv
<1>2. CASE Fail \/ NotDone
  BY <1>1, <1>2, LeavePosition DEF Fail, NotDone, OrderInv
<1>3. ASSUME NEW c, c.gen = mem.gen, Continue(c), at \in Synced => mem.gen <= reached[This]
      PROVE  OrderInv'
  <2>1. reached' \in [Objects -> Nat] /\ \A o \in Objects : reached[o] <= reached'[o]
    <3>1. reached \in [Objects -> Nat] /\ reached' = reached
      BY DEF TypeOK
    <3>2. \A o \in Objects : reached[o] \in Nat
      BY <3>1
    <3> QED
      BY <3>1, <3>2
  <2>2. Prefix' /\ Position'
    BY <1>3, <2>1, ContinuePosition DEF OrderInv, This
  <2> QED
    BY <1>1, <2>2 DEF OrderInv
<1> QED
  BY <1>2, <1>3

LEMMA CreateOrder ==
  ASSUME TypeOK, TypeOK', OrderInv, pc # "idle", Creates(at), cache' = cache,
         NEW m \in SUBSET {"label", "annotation"}, NEW b,
         b => at \notin Synced, Create(This, m, b)
  PROVE  OrderInv'
<1>0. This \in Objects
  BY StageFacts DEF TypeOK, This
<1>1. CASE Give(This, New(This, m)) /\ Advance
  <2>1. New(This, m) \in Object /\ New(This, m).gen = mem.gen
    BY <1>0, BlueprintTypes, BlueprintGens, TypeParts DEF TypeCRs
  <2>2. /\ StagesInOrder' /\ Bounded' /\ mem.gen <= reached'[This]
        /\ \A o \in Objects : reached[o] <= reached'[o]
    BY <1>1, <2>1, GiveOrder DEF OrderInv
  <2>3. Prefix' /\ Position'
    BY <1>1, <2>2, ContinuePosition DEF OrderInv, Advance, TypeOK
  <2> QED
    BY <2>2, <2>3 DEF OrderInv
<1>2. CASE (IF b THEN Advance ELSE NotDone) /\ UNCHANGED <<api, stale, reached>>
  BY <1>2, ReadOrder DEF Advance
<1> QED
  BY <1>1, <1>2 DEF Create

LEMMA InitOrder == Init => OrderInv
<1> SUFFICES ASSUME Init PROVE OrderInv
  OBVIOUS
<1>1. \A i \in DOMAIN Stages : Stages[i].obj \in Objects
  BY StageFacts
<1>0. NoObject.gen = 0
  BY DEF NoObject
<1>a. \A o \in Objects : api[o].gen = 0 /\ cache[o].gen = 0 /\ reached[o] = 0
  BY <1>0 DEF Init
<1>2. StagesInOrder
  <2>1. \A i, j \in Synced : reached[Stages[j].obj] = 0 /\ reached[Stages[i].obj] = 0
    BY <1>1, <1>a DEF Synced
  <2> QED
    BY <2>1 DEF StagesInOrder
<1>3. Bounded
  BY <1>a DEF Bounded
<1>4. Prefix /\ Position
  BY DEF Init, Prefix, Position
<1> QED
  BY <1>2, <1>3, <1>4 DEF OrderInv

LEMMA EnvironmentOrder ==
  ASSUME TypeOK, OrderInv,
         EditSpec \/ Tamper \/ DeploymentController \/ PodsLost
         \/ (\E k \in Keys : CacheSync(k))
  PROVE  OrderInv'
<1>0. StagesInOrder /\ Bounded /\ Prefix /\ Position
  BY DEF OrderInv
<1>1. CASE EditSpec
  BY <1>0, <1>1, HistoryKept, ControlKept DEF EditSpec, OrderInv, caches
<1>2. ASSUME NEW o \in Objects, NEW s \in Object, s.gen \in {0, api[o].gen},
             Write(o, s), UNCHANGED <<cache, reached, mem, pc, at>>
      PROVE  OrderInv'
  <2>1. Bounded'
    BY <1>0, <1>2, WriteBounded
  <2>2. StagesInOrder'
    BY <1>0, <1>2 DEF StagesInOrder, Synced
  <2> QED
    BY <1>0, <1>2, <2>1, <2>2, ControlKept DEF OrderInv
<1>3. CASE Tamper
  <2>o. PICK o \in Objects \ ClusterScoped : \E s \in Tamperings(o) : Write(o, s)
    BY <1>3 DEF Tamper
  <2>1. PICK s \in Tamperings(o) : Write(o, s)
    BY <2>o
  <2>2. s \in Object
    BY TamperedType, TypeParts
  <2>3. s.gen \in {0, api[o].gen}
    BY BlueprintGens, TypeParts
  <2> QED
    BY <1>2, <1>3, <2>1, <2>2, <2>3 DEF Tamper, caches, control
<1>4. ASSUME NEW from, NEW to \in Phases, NEW o \in Deployments, Pods(o, from, to)
      PROVE  OrderInv'
  <2>1. o \in Objects /\ api[o] \in Object
    BY SeenType, TypeParts, RolloutAssumption
  <2>2. [api[o] EXCEPT !.phase = to] \in Object
    BY <2>1, ObjectUpdates
  <2>3. [api[o] EXCEPT !.phase = to].gen = api[o].gen
    BY <2>1 DEF Object
  <2> QED
    BY <1>2, <1>4, <2>1, <2>2, <2>3 DEF Pods, caches, control
<1>5. CASE DeploymentController \/ PodsLost
  BY <1>4, <1>5 DEF DeploymentController, StartRolling, PodsReady, PodsLost, Phases
<1>6. ASSUME NEW k \in Keys, CacheSync(k)
      PROVE  OrderInv'
  <2>1. cache \in [Objects -> Object]
    BY DEF TypeOK
  <2>2. \A o \in Objects : cache'[o] \in {cache[o], api[o]}
    BY <1>6, <2>1 DEF CacheSync
  <2>3. StagesInOrder' /\ Bounded'
    BY <1>0, <1>6, <2>2 DEF CacheSync, StagesInOrder, Bounded, Synced
  <2> QED
    BY <1>0, <1>6, <2>3, ControlKept DEF CacheSync, OrderInv
<1> QED
  BY <1>1, <1>3, <1>5, <1>6

LEMMA WriterOrder ==
  ASSUME TypeOK, TypeOK', OrderInv, Sync \/ Recreate \/ CreateIfNotExists
  PROVE  OrderInv'
<1>0. StagesInOrder /\ Bounded /\ Prefix /\ Position /\ This \in Objects
  BY StageFacts DEF OrderInv, TypeOK, This
<1>1. CASE Sync
  <2>1. /\ pc = "call" /\ Stages[at].call = "sync" /\ cache' = cache
        /\ Creates(at)
    BY <1>1 DEF Sync, Call, Creates, caches
  <2>2. CASE Create(This, {}, FALSE)
    BY <2>1, <2>2, CreateOrder
  <2>3. CASE Delete(This)
    <3>1. Gone(This) \in Object /\ Gone(This).gen = 0
      BY <1>0, BlueprintTypes, BlueprintGens, TypeParts DEF TypeCRs
    <3>2. Bounded'
      BY <1>0, <2>1, <2>3, <3>1, WriteBounded DEF Delete, Bounded
    <3>3. StagesInOrder'
      BY <1>0, <2>3 DEF Delete, StagesInOrder, Synced
    <3>4. Prefix' /\ Position'
      BY <1>0, <2>1, <2>3 DEF Delete, Prefix, Position, Synced
    <3> QED
      BY <3>2, <3>3, <3>4 DEF OrderInv
  <2>4. CASE Update(This)
    <3>1. CASE Give(This, Merged(This)) /\ NotDone
      <4>1. Merged(This) \in Object /\ Merged(This).gen = mem.gen
        BY <1>0, BlueprintTypes, BlueprintGens, TypeParts DEF TypeCRs
      <4>2. StagesInOrder' /\ Bounded'
        BY <1>0, <2>1, <3>1, <4>1, GiveOrder
      <4> QED
        BY <3>1, <4>2, LeavePosition DEF NotDone, OrderInv
    <3>2. CASE Fail /\ UNCHANGED <<api, stale, reached>>
      BY <2>1, <3>2, ReadOrder
    <3> QED
      BY <2>4, <3>1, <3>2 DEF Update
  <2>5. CASE ~Differs(This) /\ Advance /\ UNCHANGED <<api, stale, reached>>
    <3>1. Seen(This).gen = mem.gen
      BY <2>5 DEF Differs
    <3>2. mem.gen <= reached[This]
      BY <1>0, <3>1 DEF Bounded, Seen
    <3> QED
      BY <2>1, <2>5, <3>2, ReadOrder DEF Advance
  <2> QED
    BY <1>1, <2>2, <2>3, <2>4, <2>5 DEF Sync
<1>2. CASE Recreate
  <2>1. /\ pc = "recreate" /\ Creates(at) /\ cache' = cache
        /\ carry \in SUBSET {"label", "annotation"} /\ Create(This, carry, FALSE)
    BY <1>0, <1>2 DEF Recreate, Position, Creates, caches, TypeOK
  <2> QED
    BY <2>1, CreateOrder
<1>3. CASE CreateIfNotExists
  <2>1. /\ pc = "call" /\ Creates(at) /\ cache' = cache /\ at \notin Synced
    BY <1>3 DEF CreateIfNotExists, Call, Creates, caches, Synced
  <2>2. CASE Create(This, {}, TRUE)
    BY <2>1, <2>2, CreateOrder
  <2>3. CASE Advance /\ UNCHANGED <<api, stale, reached>>
    BY <2>1, <2>3, ReadOrder DEF Advance
  <2> QED
    BY <1>3, <2>2, <2>3 DEF CreateIfNotExists
<1> QED
  BY <1>1, <1>2, <1>3

LEMMA ReaderOrder ==
  ASSUME TypeOK, OrderInv,
         \/ Start \/ EnsureExists \/ AwaitDeployment \/ ProvisionDB
         \/ RecordProvisioned \/ UpdateAvailabilityStatus \/ CallFails \/ Restart
  PROVE  OrderInv'
<1>0. StagesInOrder /\ Bounded /\ Prefix /\ Position /\ mem \in CheCluster
  BY DEF OrderInv, TypeOK
<1>1. CASE Start
  <2>1. at = 1 /\ at' = 1 /\ pc' = "call"
    BY <1>0, <1>1 DEF Start, Position
  <2>2. Prefix' /\ Position'
    BY <2>1, StageFacts DEF Prefix, Position, Synced
  <2> QED
    BY <1>0, <1>1, <2>2, HistoryKept DEF Start, caches, OrderInv
<1>2. CASE EnsureExists \/ AwaitDeployment
  <2>1. at \notin Synced /\ pc # "idle" /\ UNCHANGED <<api, cache, reached>>
    BY <1>2 DEF EnsureExists, AwaitDeployment, Call, Synced, caches
  <2> QED
    BY <1>2, <2>1, ReadOrder DEF EnsureExists, AwaitDeployment, Advance
<1>3. CASE ProvisionDB
  <2>1. /\ at \notin Synced /\ pc # "idle" /\ UNCHANGED <<api, cache, reached>>
        /\ Stages[at].call = "provision"
    BY <1>3 DEF ProvisionDB, Call, Synced, caches
  <2>2. CASE Advance \/ Fail
    BY <2>1, <2>2, ReadOrder DEF Advance
  <2>3. CASE pc' = "record" /\ UNCHANGED <<mem, fresh, at, carry, queued>>
    <3>1. StagesInOrder' /\ Bounded'
      BY <1>0, <2>1, HistoryKept
    <3>2. Prefix' /\ Position'
      BY <1>0, <2>1, <2>3 DEF Prefix, Position, Synced
    <3> QED
      BY <3>1, <3>2 DEF OrderInv
  <2> QED
    BY <1>3, <2>2, <2>3 DEF ProvisionDB
<1>4. ASSUME NEW c, c.gen = mem.gen, UpdateStatus(c), at \notin Synced, pc # "idle",
             UNCHANGED <<api, cache, reached>>
      PROVE  OrderInv'
  BY <1>4, ReadOrder DEF UpdateStatus
<1>5. CASE RecordProvisioned
  <2>1. at \notin Synced /\ pc # "idle" /\ UNCHANGED <<api, cache, reached>>
    BY <1>0, <1>5 DEF RecordProvisioned, Position, Synced, caches
  <2>2. [mem EXCEPT !.provisioned = TRUE].gen = mem.gen
    BY <1>0 DEF CheCluster
  <2> QED
    BY <1>4, <1>5, <2>1, <2>2 DEF RecordProvisioned
<1>6. CASE UpdateAvailabilityStatus
  <2>1. at \notin Synced /\ pc # "idle" /\ UNCHANGED <<api, cache, reached>>
    BY <1>6 DEF UpdateAvailabilityStatus, Call, Synced, caches
  <2>2. \A r : [mem EXCEPT !.running = r].gen = mem.gen
    BY <1>0 DEF CheCluster
  <2>3. Advance \/ UpdateStatus([mem EXCEPT !.running = Availability(Seen(This))])
    BY <1>6 DEF UpdateAvailabilityStatus
  <2> QED
    BY <1>4, <2>1, <2>2, <2>3, ReadOrder DEF Advance
<1>7. CASE CallFails
  BY <1>7, ReadOrder DEF CallFails, caches
<1>8. CASE Restart
  <2>1. StagesInOrder' /\ Bounded'
    BY <1>0, <1>8 DEF Restart, StagesInOrder, Bounded, Synced
  <2> QED
    BY <1>8, <2>1, LeavePosition DEF Restart, Fail, OrderInv
<1> QED
  BY <1>1, <1>2, <1>3, <1>5, <1>6, <1>7, <1>8

LEMMA StepOrder == TypeOK /\ TypeOK' /\ OrderInv /\ [Next]_vars => OrderInv'
<1> SUFFICES ASSUME TypeOK, TypeOK', OrderInv, [Next]_vars PROVE OrderInv'
  OBVIOUS
<1>1. CASE Next
  BY <1>1, EnvironmentOrder, WriterOrder, ReaderOrder DEF Next, Worker
<1>2. CASE UNCHANGED vars
  BY <1>2, HistoryKept, ControlKept DEF vars, OrderInv
<1> QED
  BY <1>1, <1>2

(* The server never gets ahead of the objects it needs: every object is    *)
(* given a generation of the CR after the ones that come before it, in     *)
(* whatever order the passes end, fail and start again.                    *)
THEOREM StagesStayInOrder == Spec => []StagesInOrder
<1>1. OrderInv => StagesInOrder
  BY DEF OrderInv
<1> QED
  BY <1>1, TypeCorrect, InitOrder, StepOrder, PTL DEF Spec

-----------------------------------------------------------------------------
(* AnnotationsKept.  An object whose events the cache has seen is cached as *)
(* it is, and one that is not there carries nothing over.                   *)

Current == \A o \in Objects \ ClusterScoped : o \notin stale => cache[o] = api[o]
Bare    == \A o \in Objects : ~Present(api[o]) => api[o].meta = {}

KeptStep ==
  \A o \in Objects \ Replaced :
    "annotation" \in api[o].meta /\ Present(api'[o]) => "annotation" \in api'[o].meta

LEMMA InitCurrent == Init => Current /\ Bare
<1>1. NoObject.meta = {}
  BY DEF NoObject
<1> QED
  BY <1>1 DEF Init, Current, Bare

LEMMA WriteKept ==
  ASSUME TypeOK, Current, Bare, cache' = cache,
         NEW o \in Objects, NEW s \in Object, Write(o, s),
         Present(s) \/ s.meta = {},
         o \in Replaced \/ ("annotation" \in api[o].meta /\ Present(s) => "annotation" \in s.meta)
  PROVE  Current' /\ Bare' /\ KeptStep
<1>1. CASE s = api[o]
  BY <1>1 DEF Write, Current, Bare, KeptStep
<1>2. CASE s # api[o]
  <2>1. Revised(o, s).meta = s.meta /\ Revised(o, s).phase = s.phase
    BY DEF Revised, Object
  <2>2. api' = [api EXCEPT ![o] = Revised(o, s)] /\ stale' = stale \cup ({o} \ ClusterScoped)
    BY <1>2 DEF Write
  <2>3. /\ api'[o] = Revised(o, s)
        /\ \A p \in Objects : p # o => api'[p] = api[p]
    BY <2>2 DEF TypeOK
  <2>4. Current'
    BY <2>2, <2>3 DEF Current
  <2>5. Bare'
    BY <2>1, <2>3 DEF Bare, Present
  <2>6. KeptStep
    BY <2>1, <2>3 DEF KeptStep, Present
  <2> QED
    BY <2>4, <2>5, <2>6
<1> QED
  BY <1>1, <1>2

LEMMA SameKept ==
  ASSUME Current, Bare, UNCHANGED <<api, cache, stale>>
  PROVE  Current' /\ Bare' /\ KeptStep
  BY DEF Current, Bare, KeptStep

LEMMA CreateKept ==
  ASSUME TypeOK, Current, Bare, cache' = cache, NEW o \in Objects,
         NEW m \in SUBSET {"label", "annotation"}, NEW b, Create(o, m, b)
  PROVE  Current' /\ Bare' /\ KeptStep
<1>1. CASE ~Present(api[o]) /\ Give(o, New(o, m))
  <2>1. New(o, m) \in Object
    BY BlueprintTypes, TypeParts DEF TypeCRs
  <2>2. Present(New(o, m))
    BY DEF Present, New, NoObject
  <2>3. api[o].meta = {}
    BY <1>1 DEF Bare
  <2> QED
    BY <1>1, <2>1, <2>2, <2>3, WriteKept DEF Give
<1>2. CASE UNCHANGED <<api, stale>>
  BY <1>2, SameKept
<1> QED
  BY <1>1, <1>2 DEF Create

LEMMA EnvironmentKept ==
  ASSUME TypeOK, Current, Bare,
         EditSpec \/ Tamper \/ DeploymentController \/ PodsLost
         \/ (\E k \in Keys : CacheSync(k))
  PROVE  Current' /\ Bare' /\ KeptStep
<1>1. CASE EditSpec
  BY <1>1 DEF EditSpec, WriteCR, Current, Bare, KeptStep, caches
<1>2. CASE Tamper
  <2>o. PICK o \in Objects \ ClusterScoped :
          Present(api[o]) /\ \E s \in Tamperings(o) : Write(o, s)
    BY <1>2 DEF Tamper
  <2>1. PICK s \in Tamperings(o) : Write(o, s)
    BY <2>o
  <2>2. s \in Object /\ api[o] \in Object
    BY SeenType, TamperedType, TypeParts
  <2>3. Gone(o).meta = {} /\ ~Present(Gone(o))
    BY DEF Gone, NoObject, Present
  <2>4. /\ Changed(o, [api[o] EXCEPT !.gen = 0]).meta = api[o].meta
        /\ Present(Changed(o, [api[o] EXCEPT !.gen = 0]))
    BY <2>o, <2>2 DEF Changed, Object, Present
  <2>5. \A l : /\ [api[o] EXCEPT !.meta = api[o].meta \cup {l}].meta = api[o].meta \cup {l}
              /\ Present([api[o] EXCEPT !.meta = api[o].meta \cup {l}])
    BY <2>o, <2>2 DEF Object, Present
  <2>6. /\ Changed(o, [api[o] EXCEPT !.gen = 0, !.meta = api[o].meta \cup {"annotation"}]).meta
             = api[o].meta \cup {"annotation"}
        /\ Present(Changed(o, [api[o] EXCEPT !.gen = 0,
                                             !.meta = api[o].meta \cup {"annotation"}]))
    BY <2>o, <2>2 DEF Changed, Object, Present
  <2>7. \/ s \in {Gone(o), Changed(o, [api[o] EXCEPT !.gen = 0]),
                  Changed(o, [api[o] EXCEPT !.gen = 0, !.meta = api[o].meta \cup {"annotation"}])}
        \/ \E m \in {"label", "annotation"} : s = [api[o] EXCEPT !.meta = api[o].meta \cup {m}]
    BY <2>1 DEF Tamperings
  <2>8. ASSUME NEW m \in {"label", "annotation"},
               s = [api[o] EXCEPT !.meta = api[o].meta \cup {m}]
        PROVE  api[o].meta \subseteq s.meta /\ Present(s)
    BY <2>5, <2>8
  <2>9. \/ s.meta = {} /\ ~Present(s)
        \/ api[o].meta \subseteq s.meta /\ Present(s)
    BY <2>3, <2>4, <2>6, <2>7, <2>8
  <2> QED
    BY <1>2, <2>1, <2>2, <2>9, WriteKept DEF Tamper, caches
<1>3. ASSUME NEW from, NEW to \in Phases \ {"absent"}, NEW o \in Deployments, Pods(o, from, to)
      PROVE  Current' /\ Bare' /\ KeptStep
  <2>1. o \in Objects /\ api[o] \in Object
    BY SeenType, TypeParts, RolloutAssumption
  <2>2. [api[o] EXCEPT !.phase = to] \in Object
    BY <2>1, ObjectUpdates
  <2>3. /\ [api[o] EXCEPT !.phase = to].meta = api[o].meta
        /\ Present([api[o] EXCEPT !.phase = to])
    BY <2>1 DEF Object, Present
  <2> QED
    BY <1>3, <2>1, <2>2, <2>3, WriteKept DEF Pods, caches
<1>4. CASE DeploymentController \/ PodsLost
  BY <1>3, <1>4 DEF DeploymentController, StartRolling, PodsReady, PodsLost, Phases
<1>5. ASSUME NEW k \in Keys, CacheSync(k)
      PROVE  Current' /\ Bare' /\ KeptStep
  <2>1. cache \in [Objects -> Object]
    BY DEF TypeOK
  <2>2. Current'
    BY <1>5, <2>1, RolloutAssumption DEF CacheSync, Current
  <2> QED
    BY <1>5, <2>2 DEF CacheSync, Bare, KeptStep
<1> QED
  BY <1>1, <1>2, <1>4, <1>5

LEMMA WorkerKept ==
  ASSUME TypeOK, Current, Bare, Worker \/ CallFails \/ Restart
  PROVE  Current' /\ Bare' /\ KeptStep
<1>0. This \in Objects /\ Seen(This) \in Object /\ api[This] \in Object
  BY StageFacts, SeenType, TypeParts DEF TypeOK, This
<1>1. CASE Sync
  <2>1. cache' = cache
    BY <1>1 DEF Sync, caches
  <2>2. CASE Create(This, {}, FALSE)
    BY <1>0, <2>1, <2>2, CreateKept
  <2>3. CASE Delete(This)
    <3>1. Gone(This) \in Object /\ Gone(This).meta = {} /\ ~Present(Gone(This))
      BY <1>0, BlueprintTypes, TypeParts DEF TypeCRs, Gone, NoObject, Present
    <3>2. CASE Write(This, Gone(This))
      BY <1>0, <2>1, <3>1, <3>2, WriteKept
    <3>3. CASE UNCHANGED <<api, stale>>
      BY <2>1, <3>3, SameKept
    <3> QED
      BY <2>3, <3>2, <3>3 DEF Delete
  <2>4. CASE Present(Seen(This)) /\ Update(This)
    <3>1. CASE This \notin stale /\ Give(This, Merged(This))
      <4>1. Merged(This) \in Object
        BY <1>0, BlueprintTypes, TypeParts DEF TypeCRs
      <4>2. Seen(This) = api[This]
        BY <1>0, <3>1 DEF Current, Seen
      <4>3. Merged(This).meta = Seen(This).meta /\ Present(Merged(This))
        BY <1>0, <2>4 DEF Merged, Changed, Object, Present
      <4> QED
        BY <1>0, <2>1, <3>1, <4>1, <4>2, <4>3, WriteKept DEF Give
    <3>2. CASE UNCHANGED <<api, stale>>
      BY <2>1, <3>2, SameKept
    <3> QED
      BY <2>4, <3>1, <3>2 DEF Update
  <2>5. CASE UNCHANGED <<api, stale>>
    BY <2>1, <2>5, SameKept
  <2> QED
    BY <1>1, <2>2, <2>3, <2>4, <2>5 DEF Sync
<1>2. CASE Recreate
  <2>1. carry \in SUBSET {"label", "annotation"} /\ Create(This, carry, FALSE) /\ cache' = cache
    BY <1>2 DEF Recreate, TypeOK, caches
  <2> QED
    BY <1>0, <2>1, CreateKept
<1>3. CASE CreateIfNotExists
  <2>1. cache' = cache /\ (Create(This, {}, TRUE) \/ UNCHANGED <<api, stale>>)
    BY <1>3 DEF CreateIfNotExists, caches
  <2> QED
    BY <1>0, <2>1, CreateKept, SameKept
<1>4. CASE Start \/ EnsureExists \/ AwaitDeployment \/ ProvisionDB \/ CallFails
  <2>1. UNCHANGED <<api, cache, stale>>
    BY <1>4 DEF Start, EnsureExists, AwaitDeployment, ProvisionDB, CallFails, caches
  <2> QED
    BY <2>1, SameKept
<1>5. CASE RecordProvisioned \/ UpdateAvailabilityStatus
  <2>1. UNCHANGED <<api, cache>> /\ stale' \in {stale, stale \cup {"CR"}}
    BY <1>5 DEF RecordProvisioned, UpdateAvailabilityStatus, UpdateStatus, WriteCR, caches
  <2> QED
    BY <2>1 DEF Current, Bare, KeptStep
<1>6. CASE Restart
  BY <1>6 DEF Restart, Current, Bare, KeptStep
<1> QED
  BY <1>1, <1>2, <1>3, <1>4, <1>5, <1>6 DEF Worker

LEMMA StepKept ==
  TypeOK /\ Current /\ Bare /\ [Next]_vars => Current' /\ Bare' /\ [KeptStep]_vars
<1> SUFFICES ASSUME TypeOK, Current, Bare, [Next]_vars
             PROVE  Current' /\ Bare' /\ [KeptStep]_vars
  OBVIOUS
<1>1. CASE Next
  BY <1>1, EnvironmentKept, WorkerKept DEF Next
<1>2. CASE UNCHANGED vars
  BY <1>2, SameKept DEF vars
<1> QED
  BY <1>1, <1>2

(* An update that the API server takes was made from the latest revision,  *)
(* so the annotations others put on the object survive it.                 *)
THEOREM AnnotationsSurvive == Spec => AnnotationsKept
<1>1. AnnotationsKept <=> [][KeptStep]_vars
  BY DEF AnnotationsKept, KeptStep
<1> QED
  BY <1>1, TypeCorrect, InitCurrent, StepKept, PTL DEF Spec

-----------------------------------------------------------------------------
(* ProvisionedMeansReady.  A pass that records the provisioning, or is past *)
(* it, has a database that is ready, or that was cut short once.            *)

Passed == pc # "idle" /\ \E p \in DOMAIN Stages : p < at /\ Stages[p].call = "provision"

Claims ==
  \/ cr.provisioned \/ crCache.provisioned \/ mem.provisioned
  \/ reached[Server] > 0 \/ pc = "record" \/ Passed

ReadyInv ==
  (db = "user" => MayInterrupt) /\ (Claims => Provisioned) /\ Position

LEMMA InitReady == Init => ReadyInv
<1> SUFFICES ASSUME Init PROVE ReadyInv
  OBVIOUS
<1>1. ~cr.provisioned /\ ~crCache.provisioned /\ ~mem.provisioned
  BY DEF Init, NoCR
<1>2. reached[Server] = 0
  BY RolloutAssumption DEF Init
<1>3. pc = "idle" /\ at = 1 /\ db # "user"
  BY DEF Init
<1> QED
  BY <1>1, <1>2, <1>3 DEF ReadyInv, Claims, Passed, Position

(* A step that makes no new claim keeps the ones there are.                *)
LEMMA NoNewClaims ==
  ASSUME ReadyInv, db' = db \/ Provisioned', Claims' => Claims \/ Provisioned', Position'
  PROVE  ReadyInv'
  BY DEF ReadyInv, Provisioned

LEMMA LeaveClaims ==
  ASSUME Leave, cr'.provisioned => Claims, crCache' = crCache \/ crCache' = cr,
         reached'[Server] > 0 => Claims
  PROVE  Claims' => Claims
<1>1. ~mem'.provisioned /\ pc' = "idle"
  BY DEF Leave, NoCR
<1>2. ~Passed' /\ pc' # "record"
  BY <1>1 DEF Passed
<1>3. crCache'.provisioned => Claims
  BY DEF Claims
<1>4. Claims' => \/ cr'.provisioned \/ crCache'.provisioned \/ mem'.provisioned
                 \/ reached'[Server] > 0 \/ pc' = "record" \/ Passed'
  BY DEF Claims
<1> QED
  BY <1>1, <1>2, <1>3, <1>4

(* A pass that goes on has passed one stage more.                          *)
LEMMA ContinueClaims ==
  ASSUME TypeOK, pc # "idle", NEW c, Continue(c), c.provisioned => Claims,
         cr' = cr \/ cr' = c, crCache' = crCache, reached'[Server] > 0 => Claims,
         Stages[at].call = "provision" => Claims
  PROVE  Claims' => Claims
<1>0. cr'.provisioned => Claims
  BY DEF Claims
<1>1. CASE at = Len(Stages)
  BY <1>0, <1>1, LeaveClaims DEF Continue
<1>2. CASE at # Len(Stages)
  <2>1. pc' = "call" /\ at' = at + 1 /\ mem' = c
    BY <1>2 DEF Continue
  <2>2. \A p \in DOMAIN Stages : p < at + 1 => p < at \/ p = at
    BY StageFacts DEF TypeOK
  <2>3. Passed' => Claims
    BY <2>1, <2>2 DEF Passed, Claims
  <2> QED
    BY <2>1, <2>3 DEF Claims
<1> QED
  BY <1>1, <1>2

LEMMA ContinueOrLeavePosition ==
  ASSUME (\E c : Continue(c)) \/ Fail \/ NotDone
  PROVE  Position'
<1>1. ASSUME Leave PROVE Position'
  BY <1>1 DEF Leave, Position
<1>2. ASSUME NEW c, Continue(c) PROVE Position'
  <2>1. CASE at = Len(Stages)
    BY <1>1, <1>2, <2>1 DEF Continue
  <2>2. CASE at # Len(Stages)
    BY <1>2, <2>2 DEF Continue, Position
  <2> QED
    BY <2>1, <2>2
<1> QED
  BY <1>1, <1>2 DEF Fail, NotDone

(* The server's stage comes after the one that provisions the database.    *)
LEMMA GiveClaims ==
  ASSUME TypeOK, pc # "idle", Creates(at), NEW s, Give(This, s)
  PROVE  reached'[Server] > 0 => Claims
<1>0. reached \in [Objects -> Nat] /\ Server \in Objects /\ at \in DOMAIN Stages
  BY RolloutAssumption DEF TypeOK
<1>1. CASE This = Server
  BY <1>0, <1>1, RolloutAssumption DEF Claims, Passed, This
<1>2. CASE This # Server
  <2>1. reached'[Server] = reached[Server]
    BY <1>0, <1>2 DEF Give
  <2> QED
    BY <2>1 DEF Claims
<1> QED
  BY <1>1, <1>2

LEMMA WriterReady ==
  ASSUME TypeOK, ReadyInv, Sync \/ Recreate \/ CreateIfNotExists
  PROVE  ReadyInv'
<1>1. /\ pc # "idle" /\ Creates(at) /\ db' = db /\ cr' = cr /\ crCache' = crCache
      /\ Stages[at].call # "provision"
  BY DEF Sync, Recreate, CreateIfNotExists, Call, Creates, caches, ReadyInv, Position
<1>2. ASSUME reached' = reached \/ \E s : Give(This, s), Advance \/ NotDone \/ Fail
      PROVE  ReadyInv'
  <2>1. reached'[Server] > 0 => Claims
    BY <1>1, <1>2, GiveClaims DEF Claims
  <2>2. CASE Advance
    <3>1. Claims' => Claims
      BY <1>1, <2>1, <2>2, ContinueClaims DEF Advance, Claims
    <3> QED
      BY <1>1, <2>2, <3>1, ContinueOrLeavePosition, NoNewClaims DEF Advance
  <2>3. CASE NotDone \/ Fail
    <3>1. Claims' => Claims
      <4>1. cr'.provisioned => Claims
        BY <1>1 DEF Claims
      <4> QED
        BY <1>1, <2>1, <2>3, <4>1, LeaveClaims DEF NotDone, Fail
    <3> QED
      BY <1>1, <2>3, <3>1, ContinueOrLeavePosition, NoNewClaims
  <2> QED
    BY <1>2, <2>2, <2>3
<1>3. ASSUME NEW m, NEW b, Create(This, m, b) PROVE ReadyInv'
  BY <1>2, <1>3 DEF Create
<1>4. CASE Sync
  <2>1. CASE Delete(This)
    <3>1. pc' = "recreate" /\ at' = at /\ mem' = mem /\ reached' = reached
      BY <2>1 DEF Delete
    <3>2. (Claims' => Claims) /\ Position'
      BY <1>1, <1>4, <3>1 DEF Claims, Passed, Position, Sync, Call
    <3> QED
      BY <1>1, <3>2, NoNewClaims
  <2>2. CASE Update(This)
    BY <1>2, <2>2 DEF Update
  <2>3. CASE Advance /\ UNCHANGED <<api, stale, reached>>
    BY <1>2, <2>3
  <2> QED
    BY <1>3, <1>4, <2>1, <2>2, <2>3 DEF Sync
<1>5. CASE Recreate
  BY <1>3, <1>5 DEF Recreate
<1>6. CASE CreateIfNotExists
  BY <1>2, <1>3, <1>6 DEF CreateIfNotExists
<1> QED
  BY <1>4, <1>5, <1>6

LEMMA ReaderReady ==
  ASSUME TypeOK, ReadyInv,
         \/ Start \/ EnsureExists \/ AwaitDeployment \/ ProvisionDB
         \/ RecordProvisioned \/ UpdateAvailabilityStatus \/ CallFails \/ Restart
  PROVE  ReadyInv'
<1>0. Position
  BY DEF ReadyInv
<1>1. CASE Start
  <2>1. mem' = crCache /\ pc' = "call" /\ at' = 1 /\ UNCHANGED <<cr, crCache, reached, db>>
    BY <1>0, <1>1 DEF Start, Position, caches
  <2>2. ~Passed' /\ Position'
    BY <2>1, StageFacts DEF Passed, Position
  <2>3. Claims' => Claims
    BY <2>1, <2>2 DEF Claims
  <2> QED
    BY <2>1, <2>2, <2>3, NoNewClaims
<1>2. ASSUME Fail, UNCHANGED <<cr, reached, db>>, crCache' = crCache \/ crCache' = cr
      PROVE  ReadyInv'
  <2>1. (cr'.provisioned => Claims) /\ (reached'[Server] > 0 => Claims)
    BY <1>2 DEF Claims
  <2> QED
    BY <1>2, <2>1, LeaveClaims, ContinueOrLeavePosition, NoNewClaims DEF Fail
<1>3. ASSUME Advance, UNCHANGED <<cr, crCache, reached, db>>, pc # "idle",
             Stages[at].call = "provision" => mem.provisioned
      PROVE  ReadyInv'
  <2>1. Claims' => Claims
    BY <1>3, ContinueClaims DEF Advance, Claims
  <2> QED
    BY <1>3, <2>1, ContinueOrLeavePosition, NoNewClaims DEF Advance
<1>4. CASE EnsureExists \/ AwaitDeployment
  <2>1. /\ pc # "idle" /\ Stages[at].call # "provision"
        /\ UNCHANGED <<cr, crCache, reached, db>> /\ (Advance \/ NotDone)
    BY <1>4 DEF EnsureExists, AwaitDeployment, Call, caches
  <2>2. CASE NotDone
    <3>1. (cr'.provisioned => Claims) /\ (reached'[Server] > 0 => Claims)
      BY <2>1 DEF Claims
    <3> QED
      BY <2>1, <2>2, <3>1, LeaveClaims, ContinueOrLeavePosition, NoNewClaims DEF NotDone
  <2> QED
    BY <1>3, <2>1, <2>2
<1>5. CASE ProvisionDB
  <2>1. pc = "call" /\ Stages[at].call = "provision" /\ UNCHANGED <<cr, crCache, reached>>
    BY <1>5 DEF ProvisionDB, Call, caches
  <2>2. CASE mem.provisioned /\ Advance /\ db' = db
    BY <1>3, <2>1, <2>2
  <2>3. CASE /\ db' = IF db = "empty" THEN "ready" ELSE db
             /\ pc' = "record" /\ UNCHANGED <<mem, fresh, at, carry, queued>>
    <3>1. Provisioned'
      BY <2>3 DEF ReadyInv, TypeOK, Provisioned
    <3>2. Position'
      BY <2>1, <2>3 DEF Position
    <3> QED
      BY <3>1, <3>2, NoNewClaims
  <2>4. CASE Fail /\ db' = db
    BY <1>2, <2>1, <2>4
  <2>5. CASE Fail /\ MayInterrupt /\ db' = "user"
    <3>1. Provisioned' /\ Position'
      BY <2>5, ContinueOrLeavePosition DEF Provisioned
    <3> QED
      BY <3>1, NoNewClaims
  <2> QED
    BY <1>5, <2>2, <2>3, <2>4, <2>5 DEF ProvisionDB
<1>6. ASSUME NEW c, UpdateStatus(c), pc # "idle", UNCHANGED <<crCache, reached, db>>,
             c.provisioned => Claims, Stages[at].call = "provision" => Claims
      PROVE  ReadyInv'
  <2>1. CASE WriteCR(c) /\ Continue(c)
    <3>1. Claims' => Claims
      BY <1>6, <2>1, ContinueClaims DEF WriteCR, Claims
    <3> QED
      BY <1>6, <2>1, <3>1, ContinueOrLeavePosition, NoNewClaims
  <2>2. CASE Fail /\ UNCHANGED <<cr, stale>>
    BY <1>2, <1>6, <2>2
  <2> QED
    BY <1>6, <2>1, <2>2 DEF UpdateStatus
<1>7. CASE RecordProvisioned
  <2>1. pc = "record" /\ UNCHANGED <<crCache, reached, db>> /\ Claims
    BY <1>7 DEF RecordProvisioned, caches, Claims
  <2> QED
    BY <1>6, <1>7, <2>1 DEF RecordProvisioned
<1>8. CASE UpdateAvailabilityStatus
  <2>1. /\ pc # "idle" /\ Stages[at].call # "provision"
        /\ UNCHANGED <<crCache, reached, db>>
    BY <1>8 DEF UpdateAvailabilityStatus, Call, caches
  <2>2. \A r : [mem EXCEPT !.running = r].provisioned = mem.provisioned
    BY DEF TypeOK, CheCluster
  <2>3. CASE Advance /\ UNCHANGED <<cr, stale>>
    BY <1>3, <2>1, <2>3
  <2>4. CASE UpdateStatus([mem EXCEPT !.running = Availability(Seen(This))])
    BY <1>6, <2>1, <2>2, <2>4 DEF Claims
  <2> QED
    BY <1>8, <2>3, <2>4 DEF UpdateAvailabilityStatus
<1>9. CASE CallFails \/ Restart
  BY <1>2, <1>9 DEF CallFails, Restart, caches
<1> QED
  BY <1>1, <1>4, <1>5, <1>7, <1>8, <1>9

LEMMA EnvironmentReady ==
  ASSUME TypeOK, ReadyInv,
         EditSpec \/ Tamper \/ DeploymentController \/ PodsLost
         \/ (\E k \in Keys : CacheSync(k))
  PROVE  ReadyInv'
<1>1. CASE EditSpec
  <2>1. /\ cr' = [cr EXCEPT !.gen = cr.gen + 1]
        /\ UNCHANGED <<crCache, mem, pc, at, reached, db>>
    BY <1>1 DEF EditSpec, WriteCR, caches
  <2>2. cr'.provisioned = cr.provisioned
    BY <2>1 DEF TypeOK, CheCluster
  <2>3. (Claims' => Claims) /\ Position'
    BY <2>1, <2>2 DEF Claims, Passed, Position, ReadyInv
  <2> QED
    BY <2>1, <2>3, NoNewClaims
<1>2. CASE Tamper \/ DeploymentController \/ PodsLost
  <2>1. UNCHANGED <<cr, crCache, mem, pc, at, reached, db>>
    BY <1>2 DEF Tamper, DeploymentController, StartRolling, PodsReady, PodsLost, Pods,
                caches, control
  <2>2. (Claims' => Claims) /\ Position'
    BY <2>1 DEF Claims, Passed, Position, ReadyInv
  <2> QED
    BY <2>1, <2>2, NoNewClaims
<1>3. ASSUME NEW k \in Keys, CacheSync(k) PROVE ReadyInv'
  <2>1. crCache' \in {crCache, cr} /\ UNCHANGED <<cr, mem, pc, at, reached, db>>
    BY <1>3 DEF CacheSync
  <2>2. (Claims' => Claims) /\ Position'
    BY <2>1 DEF Claims, Passed, Position, ReadyInv
  <2> QED
    BY <2>1, <2>2, NoNewClaims
<1> QED
  BY <1>1, <1>2, <1>3

LEMMA StepReady ==
  TypeOK /\ ReadyInv /\ [Next]_vars => ReadyInv'
<1> SUFFICES ASSUME TypeOK, ReadyInv, [Next]_vars PROVE ReadyInv'
  OBVIOUS
<1>1. CASE Next
  BY <1>1, EnvironmentReady, WriterReady, ReaderReady DEF Next, Worker
<1>2. CASE UNCHANGED vars
  BY <1>2 DEF vars, ReadyInv, Claims, Passed, Position, Provisioned
<1> QED
  BY <1>1, <1>2

(* The status never says provisioned, and the server is never created,     *)
(* before the provisioning script has run: to its end, unless it is cut     *)
(* short once.                                                             *)
THEOREM ProvisionedOnceReady == Spec => []ProvisionedMeansReady
<1>1. ReadyInv => ProvisionedMeansReady
  BY DEF ReadyInv, Claims, ProvisionedMeansReady
<1>2. TypeOK /\ ReadyInv /\ [Next]_vars => ReadyInv'
  BY StepReady
<1> QED
  BY <1>1, <1>2, TypeCorrect, InitReady, PTL DEF Spec

-----------------------------------------------------------------------------
(* The refinement.  An object is given the generation of the worker's copy  *)
(* of the CR, which is one the CR had; the status is written over the       *)
(* current CR only.                                                        *)

Copies ==
  /\ fresh => mem = cr
  /\ "CR" \notin stale => crCache = cr
  /\ crCache.gen <= cr.gen /\ mem.gen <= cr.gen

LEMMA InitCopies == Init => Copies
<1> SUFFICES ASSUME Init PROVE Copies
  OBVIOUS
<1>1. cr.gen = 1 /\ crCache = cr /\ mem.gen = 0 /\ fresh = FALSE
  BY DEF Init, NoCR
<1> QED
  BY <1>1 DEF Copies

LEMMA LeaveCopies ==
  ASSUME TypeOK, Copies, Leave, UNCHANGED <<cr, crCache>>, stale \subseteq stale'
  PROVE  Copies'
<1>1. fresh' = FALSE /\ mem'.gen = 0
  BY DEF Leave, NoCR
<1> QED
  BY <1>1, GenTypes DEF Copies

(* A write of an object makes at most its own watch stale.                 *)
LEMMA WriteStale ==
  ASSUME NEW o, NEW s, Write(o, s)
  PROVE  stale \subseteq stale'
  BY DEF Write

LEMMA ObjectWriteStale ==
  ASSUME NEW o \in Objects, NEW s, Write(o, s)
  PROVE  "CR" \in stale <=> "CR" \in stale'
  BY RolloutAssumption DEF Write

LEMMA SameCopies ==
  ASSUME Copies, UNCHANGED <<cr, crCache, mem, fresh>>, stale \subseteq stale'
  PROVE  Copies'
  BY DEF Copies

LEMMA ContinueCopies ==
  ASSUME TypeOK, Copies, Continue(mem), UNCHANGED <<cr, crCache>>, stale \subseteq stale'
  PROVE  Copies'
<1>1. CASE Leave
  BY <1>1, LeaveCopies
<1>2. CASE UNCHANGED <<mem, fresh>>
  BY <1>2, SameCopies
<1> QED
  BY <1>1, <1>2 DEF Continue

LEMMA EnvironmentCopies ==
  ASSUME TypeOK, Copies,
         EditSpec \/ Tamper \/ DeploymentController \/ PodsLost
         \/ (\E k \in Keys : CacheSync(k))
  PROVE  Copies'
<1>1. CASE EditSpec
  <2>1. /\ cr' = [cr EXCEPT !.gen = cr.gen + 1] /\ "CR" \in stale' /\ fresh' = FALSE
        /\ UNCHANGED <<crCache, mem>>
    BY <1>1 DEF EditSpec, WriteCR, caches
  <2>2. cr'.gen = cr.gen + 1
    BY <2>1 DEF TypeOK, CheCluster
  <2> QED
    BY <2>1, <2>2, GenTypes DEF Copies
<1>2. CASE Tamper \/ DeploymentController \/ PodsLost
  <2>1. UNCHANGED <<cr, crCache, mem, fresh>> /\ stale \subseteq stale'
    BY <1>2, WriteStale DEF Tamper, DeploymentController, StartRolling, PodsReady, PodsLost,
                            Pods, caches, control
  <2> QED
    BY <2>1, SameCopies
<1>3. ASSUME NEW k \in Keys, CacheSync(k) PROVE Copies'
  <2>1. stale' = stale \ {k} /\ UNCHANGED <<cr, mem, fresh>>
    BY <1>3 DEF CacheSync
  <2>2. CASE k = "CR"
    <3>1. crCache' = cr
      BY <1>3, <2>2 DEF CacheSync
    <3> QED
      BY <2>1, <3>1, GenTypes DEF Copies
  <2>3. CASE k # "CR"
    <3>1. crCache' = crCache
      BY <1>3, <2>3 DEF CacheSync
    <3> QED
      BY <2>1, <2>3, <3>1 DEF Copies
  <2> QED
    BY <2>2, <2>3
<1> QED
  BY <1>1, <1>2, <1>3

LEMMA WorkerCopies ==
  ASSUME TypeOK, Copies, Worker \/ CallFails \/ Restart
  PROVE  Copies'
<1>1. CASE Start
  <2>1. mem' = crCache /\ fresh' = ("CR" \notin stale) /\ UNCHANGED <<cr, crCache, stale>>
    BY <1>1 DEF Start, caches
  <2> QED
    BY <2>1 DEF Copies
<1>2. ASSUME NEW m, NEW b, Create(This, m, b), UNCHANGED <<cr, crCache>> PROVE Copies'
  <2>1. stale \subseteq stale'
    BY <1>2, WriteStale DEF Create, Give
  <2>2. Continue(mem) \/ Leave
    BY <1>2 DEF Create, Advance, NotDone
  <2> QED
    BY <1>2, <2>1, <2>2, ContinueCopies, LeaveCopies
<1>3. CASE Sync
  <2>1. UNCHANGED <<cr, crCache>>
    BY <1>3 DEF Sync, caches
  <2>2. CASE Delete(This)
    <3>1. stale \subseteq stale' /\ UNCHANGED <<mem, fresh>>
      BY <2>2, WriteStale DEF Delete
    <3> QED
      BY <2>1, <3>1, SameCopies
  <2>3. CASE Update(This)
    <3>1. stale \subseteq stale' /\ Leave
      BY <2>3, WriteStale DEF Update, Give, NotDone, Fail
    <3> QED
      BY <2>1, <3>1, LeaveCopies
  <2>4. CASE Advance /\ UNCHANGED <<api, stale, reached>>
    BY <2>1, <2>4, ContinueCopies DEF Advance
  <2> QED
    BY <1>2, <1>3, <2>1, <2>2, <2>3, <2>4 DEF Sync
<1>4. CASE Recreate
  BY <1>2, <1>4 DEF Recreate, caches
<1>5. CASE CreateIfNotExists
  BY <1>2, <1>5, ContinueCopies DEF CreateIfNotExists, caches, Advance
<1>6. CASE EnsureExists \/ AwaitDeployment
  BY <1>6, ContinueCopies, LeaveCopies DEF EnsureExists, AwaitDeployment, caches, Advance, NotDone
<1>7. CASE ProvisionDB
  <2>1. UNCHANGED <<cr, crCache, stale>>
    BY <1>7 DEF ProvisionDB, caches
  <2>2. Continue(mem) \/ Leave \/ UNCHANGED <<mem, fresh>>
    BY <1>7 DEF ProvisionDB, Advance, Fail
  <2> QED
    BY <2>1, <2>2, ContinueCopies, LeaveCopies, SameCopies
<1>8. ASSUME NEW c \in CheCluster, c.gen = mem.gen, UpdateStatus(c), UNCHANGED crCache
      PROVE  Copies'
  <2>1. CASE Fail /\ UNCHANGED <<cr, stale>>
    BY <1>8, <2>1, LeaveCopies DEF Fail
  <2>2. CASE fresh /\ WriteCR(c) /\ Continue(c)
    <3>1. cr' = c /\ "CR" \in stale' /\ cr'.gen = cr.gen
      BY <1>8, <2>2 DEF WriteCR, Copies
    <3>2. CASE Leave
      <4>1. fresh' = FALSE /\ mem'.gen = 0
        BY <3>2 DEF Leave, NoCR
      <4> QED
        BY <1>8, <3>1, <4>1, GenTypes DEF Copies
    <3>3. CASE mem' = c
      BY <1>8, <3>1, <3>3, GenTypes DEF Copies
    <3> QED
      BY <2>2, <3>2, <3>3 DEF Continue
  <2> QED
    BY <1>8, <2>1, <2>2 DEF UpdateStatus
<1>9. CASE RecordProvisioned
  <2>1. [mem EXCEPT !.provisioned = TRUE] \in CheCluster
        /\ [mem EXCEPT !.provisioned = TRUE].gen = mem.gen
    BY CRUpdates DEF TypeOK, CheCluster
  <2> QED
    BY <1>8, <1>9, <2>1 DEF RecordProvisioned, caches
<1>10. CASE UpdateAvailabilityStatus
  <2>1. \A r \in {"Available", "Unavailable", "RollingUpdate"} :
          [mem EXCEPT !.running = r] \in CheCluster /\ [mem EXCEPT !.running = r].gen = mem.gen
    BY CRUpdates DEF TypeOK, CheCluster
  <2>2. Availability(Seen(This)) \in {"Available", "Unavailable", "RollingUpdate"}
    BY DEF Availability
  <2> QED
    BY <1>8, <1>10, <2>1, <2>2, ContinueCopies DEF UpdateAvailabilityStatus, caches, Advance
<1>11. CASE CallFails
  BY <1>11, LeaveCopies DEF CallFails, Fail, caches
<1>12. CASE Restart
  <2>1. crCache' = cr /\ cr' = cr /\ fresh' = FALSE /\ mem'.gen = 0
    BY <1>12 DEF Restart, Fail, Leave, NoCR
  <2> QED
    BY <2>1, GenTypes DEF Copies
<1> QED
  BY <1>1, <1>3, <1>4, <1>5, <1>6, <1>7, <1>9, <1>10, <1>11, <1>12 DEF Worker

LEMMA StepCopies == TypeOK /\ Copies /\ [Next]_vars => Copies'
<1> SUFFICES ASSUME TypeOK, Copies, [Next]_vars PROVE Copies'
  OBVIOUS
<1>1. CASE Next
  BY <1>1, EnvironmentCopies, WorkerCopies DEF Next
<1>2. CASE UNCHANGED vars
  BY <1>2 DEF vars, Copies
<1> QED
  BY <1>1, <1>2

LEMMA GiveRefines ==
  ASSUME TypeOK, OrderInv, ReadyInv, Copies, pc # "idle", Creates(at),
         NEW s \in Object, s.gen = mem.gen, Give(This, s), UNCHANGED <<cr, db>>
  PROVE  [P!Next]_(P!vars)
<1>0. This \in Objects /\ at \in DOMAIN Stages
  BY StageFacts DEF TypeOK, This
<1>1. /\ mem.gen \in Nat /\ cr.gen \in Nat /\ mem.gen <= cr.gen
      /\ \A o \in Objects : reached[o] \in Nat
  BY GenTypes DEF Copies
<1>2. CASE mem.gen > reached[This]
  <2>1. mem.gen \in 1..cr.gen
    BY <1>0, <1>1, <1>2
  <2>2. reached' = [reached EXCEPT ![This] = mem.gen]
    BY <1>2 DEF Give
  <2>3. ASSUME NEW b \in Objects, <<b, This>> \in MadeBefore
        PROVE  mem.gen <= reached[b]
    <3>1. PICK i \in Synced, j \in Synced : i < j /\ b = Stages[i].obj /\ This = Stages[j].obj
      BY <2>3 DEF MadeBefore
    <3>2. j = at
      BY <1>0, <3>1, RolloutAssumption DEF This, Synced, Creates
    <3> QED
      BY <3>1, <3>2 DEF OrderInv, Prefix
  <2>4. This = Server => db # "empty"
    BY <1>0, RolloutAssumption DEF ReadyInv, Claims, Passed, Provisioned, This
  <2>5. P!Give(This)
    BY <1>2, <2>1, <2>2, <2>3, <2>4 DEF P!Give
  <2> QED
    BY <1>0, <2>5 DEF P!Next
<1>3. CASE ~(mem.gen > reached[This])
  <2>1. reached' = [reached EXCEPT ![This] = reached[This]]
    BY <1>3 DEF Give
  <2>2. reached' = reached
    BY <2>1 DEF TypeOK
  <2> QED
    BY <2>2 DEF P!vars
<1> QED
  BY <1>2, <1>3

LEMMA StutterRefines ==
  ASSUME UNCHANGED <<cr, reached, db>>
  PROVE  [P!Next]_(P!vars)
  BY DEF P!vars

LEMMA WriterRefines ==
  ASSUME TypeOK, OrderInv, ReadyInv, Copies, Sync \/ Recreate \/ CreateIfNotExists
  PROVE  [P!Next]_(P!vars)
<1>0. /\ pc # "idle" /\ Creates(at) /\ UNCHANGED <<cr, db>> /\ This \in Objects
      /\ carry \in SUBSET {"label", "annotation"}
  BY StageFacts DEF Sync, Recreate, CreateIfNotExists, Call, Creates, ReadyInv, Position,
                    TypeOK, This
<1>1. ASSUME NEW m \in SUBSET {"label", "annotation"}, NEW b, Create(This, m, b)
      PROVE  [P!Next]_(P!vars)
  <2>1. New(This, m) \in Object /\ New(This, m).gen = mem.gen
    BY <1>0, BlueprintTypes, BlueprintGens, TypeParts DEF TypeCRs
  <2>2. CASE Give(This, New(This, m))
    BY <1>0, <2>1, <2>2, GiveRefines
  <2>3. CASE UNCHANGED <<api, stale, reached>>
    BY <1>0, <2>3, StutterRefines
  <2> QED
    BY <1>1, <2>2, <2>3 DEF Create
<1>2. CASE Update(This)
  <2>1. Merged(This) \in Object /\ Merged(This).gen = mem.gen
    BY <1>0, BlueprintTypes, BlueprintGens, TypeParts DEF TypeCRs
  <2>2. CASE Give(This, Merged(This))
    BY <1>0, <2>1, <2>2, GiveRefines
  <2>3. CASE UNCHANGED <<api, stale, reached>>
    BY <1>0, <2>3, StutterRefines
  <2> QED
    BY <1>2, <2>2, <2>3 DEF Update
<1>3. CASE UNCHANGED reached
  BY <1>0, <1>3, StutterRefines
<1>4. {} \in SUBSET {"label", "annotation"}
  OBVIOUS
<1>5. CASE Sync
  BY <1>1, <1>2, <1>3, <1>4, <1>5 DEF Sync, Delete
<1>6. CASE Recreate
  BY <1>0, <1>1, <1>6 DEF Recreate
<1>7. CASE CreateIfNotExists
  BY <1>1, <1>3, <1>4, <1>7 DEF CreateIfNotExists
<1> QED
  BY <1>5, <1>6, <1>7

LEMMA ProvisionRefines ==
  ASSUME TypeOK, ReadyInv, Copies,
         ProvisionDB \/ RecordProvisioned \/ UpdateAvailabilityStatus
  PROVE  [P!Next]_(P!vars)
<1>1. CASE ProvisionDB
  <2>1. UNCHANGED <<cr, reached>> /\ (db' = db \/ db' # "empty")
    BY <1>1 DEF ProvisionDB
  <2>2. CASE db' # "empty"
    <3>1. (db # "empty")' = TRUE
      BY <2>2
    <3> QED
      BY <2>1, <3>1 DEF P!Next, P!Provision
  <2> QED
    BY <2>1, <2>2, StutterRefines
<1>2. CASE RecordProvisioned
  <2>1. UNCHANGED <<reached, db>> /\ db # "empty"
    BY <1>2 DEF RecordProvisioned, ReadyInv, Claims, Provisioned
  <2>2. CASE fresh /\ cr' = [mem EXCEPT !.provisioned = TRUE]
    <3>1. cr'.gen = cr.gen /\ cr'.provisioned = TRUE
      BY <2>2 DEF Copies, TypeOK, CheCluster
    <3> QED
      BY <2>1, <3>1 DEF P!Next, P!Record
  <2>3. CASE cr' = cr
    BY <2>1, <2>3, StutterRefines
  <2> QED
    BY <1>2, <2>2, <2>3 DEF RecordProvisioned, UpdateStatus, WriteCR
<1>3. CASE UpdateAvailabilityStatus
  <2>1. UNCHANGED <<reached, db>>
    BY <1>3 DEF UpdateAvailabilityStatus
  <2>2. ASSUME NEW r, fresh, cr' = [mem EXCEPT !.running = r]
        PROVE  [P!Next]_(P!vars)
    <3>1. cr'.gen = cr.gen /\ cr'.provisioned = cr.provisioned
      BY <2>2 DEF Copies, TypeOK, CheCluster
    <3> QED
      BY <2>1, <3>1 DEF P!vars
  <2>3. CASE cr' = cr
    BY <2>1, <2>3, StutterRefines
  <2> QED
    BY <1>3, <2>2, <2>3 DEF UpdateAvailabilityStatus, UpdateStatus, WriteCR
<1> QED
  BY <1>1, <1>2, <1>3

LEMMA StepRefines ==
  TypeOK /\ OrderInv /\ ReadyInv /\ Copies /\ [Next]_vars => [P!Next]_(P!vars)
<1> SUFFICES ASSUME TypeOK, OrderInv, ReadyInv, Copies, [Next]_vars
             PROVE  [P!Next]_(P!vars)
  OBVIOUS
<1>1. CASE EditSpec
  <2>1. cr' = [cr EXCEPT !.gen = cr.gen + 1] /\ UNCHANGED <<reached, db>>
    BY <1>1 DEF EditSpec, WriteCR
  <2>2. cr'.gen = cr.gen + 1 /\ cr'.provisioned = cr.provisioned
    BY <2>1 DEF TypeOK, CheCluster
  <2> QED
    BY <2>1, <2>2 DEF P!Next, P!Ask
<1>2. CASE \/ Tamper \/ DeploymentController \/ PodsLost \/ (\E k \in Keys : CacheSync(k))
           \/ Start \/ EnsureExists \/ AwaitDeployment \/ CallFails \/ Restart
           \/ UNCHANGED vars
  <2>1. UNCHANGED <<cr, reached, db>>
    BY <1>2 DEF Tamper, DeploymentController, StartRolling, PodsReady, PodsLost, Pods, CacheSync,
                Start, EnsureExists, AwaitDeployment, CallFails, Restart, vars
  <2> QED
    BY <2>1, StutterRefines
<1> QED
  BY <1>1, <1>2, WriterRefines, ProvisionRefines DEF Next, Worker

(* The passes implement the pipeline, for every sequence of stages, every  *)
(* bound and every interleaving: what the worker does, call by call and on *)
(* stale copies, is what Pipeline allows, or nothing that Pipeline sees.   *)
THEOREM PassesImplementPipeline == Spec => ImplementsPipeline
<1>1. Init => P!Init
  <2> SUFFICES ASSUME Init PROVE P!Init
    OBVIOUS
  <2>1. cr.gen = 1 /\ cr.provisioned = FALSE /\ db = "empty" /\ reached = [o \in Objects |-> 0]
    BY DEF Init
  <2> QED
    BY <2>1 DEF P!Init
<1>2. TypeOK /\ TypeOK' /\ OrderInv /\ [Next]_vars => OrderInv'
  BY StepOrder
<1>3. TypeOK /\ ReadyInv /\ [Next]_vars => ReadyInv'
  BY StepReady
<1>4. TypeOK /\ Copies /\ [Next]_vars => Copies'
  BY StepCopies
<1>5. TypeOK /\ OrderInv /\ ReadyInv /\ Copies /\ [Next]_vars => [P!Next]_(P!vars)
  BY StepRefines
<1> QED
  BY <1>1, <1>2, <1>3, <1>4, <1>5, TypeCorrect, InitOrder, InitReady, InitCopies, PTL
     DEF Spec, P!Spec, ImplementsPipeline

-----------------------------------------------------------------------------
(* No wake-up is lost.                                                     *)

(* A stage has what it wants, ...                                          *)
StageDone(i) ==
  LET s == api[Stages[i].obj] IN
  /\ Stages[i].call = "sync" =>
       /\ Present(s) /\ s.gen = cr.gen
       /\ Stages[i].obj = Server /\ Present(api[Config]) => s.pin = api[Config].rev
       /\ Stages[i].obj \in LabelCompared => "label" \notin s.meta
  /\ Stages[i].call \in {"ensure", "exists"} => Present(s)
  /\ Stages[i].call = "await" => Available(s)
  /\ Stages[i].call = "provision" => cr.provisioned
  /\ Stages[i].call = "status" => cr.running = Availability(s)

(* ... or ends the pass for something that others have to change.          *)
Waits(i) ==
  LET s == api[Stages[i].obj] IN
  \/ Stages[i].call = "sync" /\ Stages[i].obj \in LabelCompared /\ "label" \in s.meta
  \/ Stages[i].call = "exists" /\ ~Present(s)
  \/ Stages[i].call = "await" /\ ~Available(s)

DoneBefore(n) == \A i \in DOMAIN Stages : i < n => StageDone(i)

Halted ==
  \/ DoneBefore(Len(Stages) + 1)
  \/ \E n \in DOMAIN Stages : Waits(n) /\ DoneBefore(n)

RolloutAtRest == pc = "idle" /\ ~queued /\ stale = {} => Halted

(* As long as no event has come since a pass began, and it has not written   *)
(* anything that is watched, the stages behind it are done.                *)
RestKnows ==
  /\ pc # "idle" => mem = cr /\ DoneBefore(at)
  /\ pc = "recreate" => This \in ClusterScoped
  /\ pc = "idle" => Halted

(* Nobody labels cluster-scoped objects.                                   *)
Plain ==
  /\ \A o \in ClusterScoped : api[o].meta = {}
  /\ pc = "recreate" /\ This \in ClusterScoped => carry = {}

RestInv == Plain /\ (~queued /\ stale = {} => RestKnows)

LEMMA SeenIsStored ==
  ASSUME Current, stale = {}, NEW o \in Objects PROVE Seen(o) = api[o]
BY DEF Current, Seen

(* Only the stage that creates a cluster-scoped object has to do with it.    *)
LEMMA DoneStays ==
  ASSUME NEW n \in Int, DoneBefore(n), cr' = cr,
         \/ api' = api
         \/ /\ n = at /\ at \in DOMAIN Stages /\ Creates(at) /\ This \in ClusterScoped
            /\ \A o \in Objects : o # This => api'[o] = api[o]
  PROVE  DoneBefore(n)'
<1> SUFFICES ASSUME NEW i \in DOMAIN Stages, i < n PROVE StageDone(i)'
  BY DEF DoneBefore
<1>1. StageDone(i) /\ Stages[i].obj \in Objects /\ Config \in Objects
  BY StageFacts, RolloutAssumption DEF DoneBefore
<1>2. CASE api' = api
  BY <1>1, <1>2 DEF StageDone
<1>3. CASE /\ n = at /\ at \in DOMAIN Stages /\ Creates(at) /\ This \in ClusterScoped
           /\ \A o \in Objects : o # This => api'[o] = api[o]
  <2>1. i # at
    BY <1>3, StageFacts
  <2>2. api'[Config] = api[Config]
    BY <1>1, <1>3, RolloutAssumption
  <2>3. CASE Stages[i].obj # This
    <3>1. api'[Stages[i].obj] = api[Stages[i].obj]
      BY <1>1, <1>3, <2>3
    <3> QED
      BY <1>1, <2>2, <3>1 DEF StageDone
  <2>4. CASE Stages[i].obj = This
    <3>1. ~Creates(i)
      BY <1>3, <2>1, <2>4, RolloutAssumption DEF This
    <3>2. Stages[i].call \notin {"sync", "ensure", "exists", "await", "status"}
      BY <1>3, <2>4, <3>1, WatchAssumption DEF Creates
    <3> QED
      BY <1>1, <3>2 DEF StageDone
  <2> QED
    BY <2>3, <2>4
<1> QED
  BY <1>2, <1>3

(* The ways a step of a pass can end.                                      *)
LEMMA AdvanceRests ==
  ASSUME NEW n \in DOMAIN Stages, n = at, mem = cr, cr' = cr, DoneBefore(n)', StageDone(n)',
         Advance
  PROVE  RestKnows'
<1>1. DOMAIN Stages = 1..Len(Stages) /\ Len(Stages) \in Nat
  BY StageFacts
<1>2. \A i \in DOMAIN Stages : i < n + 1 => StageDone(i)'
  <2> SUFFICES ASSUME NEW i \in DOMAIN Stages, i < n + 1 PROVE StageDone(i)'
    OBVIOUS
  <2>1. i = n \/ i < n
    BY <1>1
  <2> QED
    BY <2>1 DEF DoneBefore
<1>3. CASE n = Len(Stages)
  <2>1. pc' = "idle"
    BY <1>3 DEF Advance, Continue, Leave
  <2>2. DoneBefore(Len(Stages) + 1)'
    BY <1>2, <1>3 DEF DoneBefore
  <2> QED
    BY <2>1, <2>2 DEF RestKnows, Halted
<1>4. CASE n # Len(Stages)
  <2>1. pc' = "call" /\ at' = n + 1 /\ mem' = mem
    BY <1>4 DEF Advance, Continue
  <2>2. DoneBefore(n + 1)'
    BY <1>2 DEF DoneBefore
  <2>3. DoneBefore(at)'
    BY <2>1, <2>2
  <2> QED
    BY <2>1, <2>3 DEF RestKnows
<1> QED
  BY <1>3, <1>4

LEMMA WaitRests ==
  ASSUME NEW n \in DOMAIN Stages, DoneBefore(n)', Waits(n)', Leave
  PROVE  RestKnows'
<1>1. pc' = "idle" /\ Halted'
  BY DEF Leave, Halted
<1> QED
  BY <1>1 DEF RestKnows

(* A write that no event follows changes nothing, or an object without a     *)
(* watch.                                                                  *)
LEMMA SilentWrite ==
  ASSUME NEW o, NEW s, Write(o, s), stale' = {}
  PROVE  /\ stale = {} /\ (o \notin ClusterScoped => s = api[o] /\ api' = api)
         /\ s = api[o] => api' = api
         /\ s # api[o] => api' = [api EXCEPT ![o] = Revised(o, s)]
BY DEF Write


(* What a pass knows when it calls.                                        *)
LEMMA CallKnows ==
  ASSUME TypeOK, Current, RestInv, ~queued, stale = {}, pc # "idle"
  PROVE  /\ mem = cr /\ DoneBefore(at) /\ at \in DOMAIN Stages /\ at \in Int
         /\ This \in Objects /\ Seen(This) = api[This] /\ api[This] \in Object
         /\ Seen(Config) = api[Config]
<1>1. mem = cr /\ DoneBefore(at) /\ at \in DOMAIN Stages
  BY DEF RestInv, RestKnows, TypeOK
<1>2. at \in Int /\ This \in Objects /\ Config \in Objects
  BY <1>1, StageFacts, RolloutAssumption DEF This
<1> QED
  BY <1>1, <1>2, SeenIsStored, SeenType, TypeParts

LEMMA CreateRests ==
  ASSUME TypeOK, Current, RestInv, ~queued, stale = {}, pc # "idle", Creates(at),
         NEW b, Create(This, {}, b), cr' = cr, stale' = {}, ~queued',
         Present(api[This]) => This \in ClusterScoped /\ b = FALSE
  PROVE  RestKnows'
<1>1. /\ mem = cr /\ DoneBefore(at) /\ at \in DOMAIN Stages /\ at \in Int
      /\ This \in Objects
  BY CallKnows
<1>2. CASE ~Present(api[This]) /\ Give(This, New(This, {})) /\ Advance
  <2> DEFINE s == New(This, {})
  <2>1. Present(s) /\ s.gen = mem.gen /\ s.meta = {}
    BY DEF New, NoObject, Present
  <2>2. s # api[This] /\ Write(This, s)
    BY <1>2, <2>1 DEF Give
  <2> HIDE DEF s
  <2>3. This \in ClusterScoped /\ api' = [api EXCEPT ![This] = Revised(This, s)]
    BY <2>2, SilentWrite
  <2>4. This # Config /\ This # Server
    BY <2>3, RolloutAssumption
  <2>5. api'[This] = s /\ \A o \in Objects : o # This => api'[o] = api[o]
    BY <1>1, <2>3, <2>4 DEF Revised, TypeOK
  <2>6. DoneBefore(at) => \A n \in Int : n = at => DoneBefore(n)'
    BY <1>1, <2>3, <2>5, DoneStays
  <2>7. ASSUME NEW n \in DOMAIN Stages, n = at PROVE StageDone(n)'
    <3>1. /\ api'[Stages[n].obj] = s /\ Stages[n].obj # Server
          /\ Stages[n].call \in {"sync", "ensure"}
      BY <2>4, <2>5, <2>7 DEF This, Creates
    <3> QED
      BY <1>1, <2>1, <3>1 DEF StageDone
  <2> QED
    BY <1>1, <1>2, <2>6, <2>7, AdvanceRests
<1>3. CASE Present(api[This])
  BY <1>3 DEF Create, NotDone
<1> QED
  BY <1>2, <1>3 DEF Create

LEMMA SyncRests ==
  ASSUME TypeOK, Current, RestInv, ~queued, stale = {}, Sync, stale' = {}, ~queued'
  PROVE  RestKnows'
<1>1. pc = "call" /\ Stages[at].call = "sync" /\ cr' = cr /\ Creates(at)
  BY DEF Sync, Call, Creates
<1>2. /\ mem = cr /\ DoneBefore(at) /\ at \in DOMAIN Stages /\ at \in Int
      /\ This \in Objects /\ Seen(This) = api[This] /\ api[This] \in Object
      /\ Seen(Config) = api[Config]
  BY <1>1, CallKnows
<1>3. api' = api => \A n \in Int : n = at => DoneBefore(n)'
  BY <1>1, <1>2, DoneStays
<1>4. CASE ~Present(Seen(This)) /\ Create(This, {}, FALSE)
  BY <1>1, <1>2, <1>4, CreateRests
<1>5. CASE Present(Seen(This)) /\ Delete(This)
  <2>1. Write(This, Gone(This)) /\ pc' = "recreate" /\ UNCHANGED <<mem, at>>
    BY <1>2, <1>5 DEF Delete
  <2>2. Gone(This) # api[This]
    BY <1>2, <1>5 DEF Gone, NoObject, Present
  <2>3. /\ This \in ClusterScoped
        /\ api' = [api EXCEPT ![This] = Revised(This, Gone(This))]
    BY <2>1, <2>2, SilentWrite
  <2>4. \A o \in Objects : o # This => api'[o] = api[o]
    BY <2>3 DEF TypeOK
  <2>5. \A n \in Int : n = at => DoneBefore(n)'
    BY <1>1, <1>2, <2>3, <2>4, DoneStays
  <2>6. DoneBefore(at)'
    BY <1>2, <2>1, <2>5
  <2> QED
    BY <1>1, <1>2, <2>1, <2>3, <2>6 DEF RestKnows, This
<1>6. CASE Present(Seen(This)) /\ Differs(This) /\ Update(This)
  <2>1. This \notin stale /\ Give(This, Merged(This)) /\ Leave /\ This \notin ClusterScoped
    BY <1>6 DEF Update, NotDone, Fail
  <2>2. Merged(This) = api[This] /\ api' = api
    BY <2>1, SilentWrite DEF Give
  <2>3. Merged(This).gen = mem.gen /\ Merged(This).pin = Pin(This)
    BY <1>2 DEF Merged, Changed, Object
  <2>4. This \in LabelCompared /\ "label" \in api[This].meta
    BY <1>2, <1>6, <2>2, <2>3 DEF Differs
  <2>5. Waits(at)
    BY <1>1, <2>4 DEF Waits, This
  <2>6. ASSUME NEW n \in DOMAIN Stages, n = at PROVE Waits(n)'
    BY <2>2, <2>5, <2>6 DEF Waits
  <2> QED
    BY <1>2, <1>3, <2>1, <2>2, <2>6, WaitRests
<1>7. CASE Present(Seen(This)) /\ ~Differs(This) /\ Advance /\ UNCHANGED api
  <2>1. /\ Present(api[This]) /\ api[This].gen = cr.gen
        /\ This = Server /\ Present(api[Config]) => api[This].pin = api[Config].rev
        /\ This \in LabelCompared => "label" \notin api[This].meta
    BY <1>2, <1>7 DEF Differs, Pin
  <2>2. StageDone(at)
    BY <1>1, <2>1 DEF StageDone, This
  <2>3. ASSUME NEW n \in DOMAIN Stages, n = at PROVE StageDone(n)'
    BY <1>1, <1>7, <2>2, <2>3 DEF StageDone
  <2> QED
    BY <1>1, <1>2, <1>3, <1>7, <2>3, AdvanceRests
<1> QED
  BY <1>4, <1>5, <1>6, <1>7 DEF Sync

(* The calls that write nothing.                                           *)
LEMMA ReadRests ==
  ASSUME TypeOK, Current, RestInv, ~queued, stale = {}, pc # "idle",
         UNCHANGED <<api, cr>>, ~queued',
         \/ StageDone(at) /\ Advance
         \/ Waits(at) /\ Leave
  PROVE  RestKnows'
<1>1. mem = cr /\ DoneBefore(at) /\ at \in DOMAIN Stages /\ at \in Int
  BY CallKnows
<1>2. \A n \in Int : n = at => DoneBefore(n)'
  BY <1>1, DoneStays
<1>3. CASE StageDone(at) /\ Advance
  <2>1. ASSUME NEW n \in DOMAIN Stages, n = at PROVE StageDone(n)'
    BY <1>3, <2>1 DEF StageDone
  <2> QED
    BY <1>1, <1>2, <1>3, <2>1, AdvanceRests
<1>4. CASE Waits(at) /\ Leave
  <2>1. ASSUME NEW n \in DOMAIN Stages, n = at PROVE Waits(n)'
    BY <1>4, <2>1 DEF Waits
  <2> QED
    BY <1>1, <1>2, <1>4, <2>1, WaitRests
<1> QED
  BY <1>3, <1>4

(* What keeps the cluster-scoped objects as the operator made them.        *)
LEMMA PlainWrite ==
  ASSUME TypeOK, Plain, NEW o \in Objects, NEW s \in Object, Write(o, s),
         o \in ClusterScoped => s.meta = {},
         pc' # "recreate" \/ UNCHANGED <<pc, at, carry>>
  PROVE  Plain'
<1>1. Revised(o, s).meta = s.meta
  BY DEF Revised, Object
<1>2. \A x \in ClusterScoped : api'[x].meta = {}
  <2> SUFFICES ASSUME NEW x \in ClusterScoped PROVE api'[x].meta = {}
    OBVIOUS
  <2>1. api[x].meta = {} /\ x \in Objects
    BY RolloutAssumption DEF Plain
  <2>2. CASE api' = api
    BY <2>1, <2>2
  <2>3. CASE api' = [api EXCEPT ![o] = Revised(o, s)]
    <3>1. api'[x] = IF x = o THEN Revised(o, s) ELSE api[x]
      BY <2>1, <2>3 DEF TypeOK
    <3> QED
      BY <1>1, <2>1, <3>1
  <2> QED
    BY <2>2, <2>3 DEF Write
<1> QED
  BY <1>2 DEF Plain, This

LEMMA PlainControl ==
  ASSUME Plain, api' = api, pc' # "recreate" \/ UNCHANGED <<pc, at, carry>>
  PROVE  Plain'
BY DEF Plain, This

LEMMA EndsPlain ==
  ASSUME \/ Leave \/ Fail \/ NotDone \/ Advance \/ \E c : Continue(c)
  PROVE  pc' # "recreate"
BY DEF Leave, Fail, NotDone, Advance, Continue

LEMMA CreatePlain ==
  ASSUME TypeOK, Plain, pc # "idle", NEW m \in SUBSET {"label", "annotation"}, NEW b,
         Create(This, m, b), This \in ClusterScoped => m = {}
  PROVE  Plain'
<1>1. This \in Objects
  BY StageFacts DEF TypeOK, This
<1>2. CASE Give(This, New(This, m)) /\ Advance
  <2>1. New(This, m) \in Object
    BY <1>1, BlueprintTypes, TypeParts DEF TypeCRs
  <2>2. New(This, m).meta = m
    BY DEF New, NoObject
  <2>3. Write(This, New(This, m)) /\ pc' # "recreate"
    BY <1>2, EndsPlain DEF Give
  <2> HIDE DEF New
  <2> QED
    BY <1>1, <2>1, <2>2, <2>3, PlainWrite
<1>3. CASE api' = api /\ (Advance \/ NotDone)
  BY <1>3, EndsPlain, PlainControl
<1> QED
  BY <1>2, <1>3 DEF Create

LEMMA EnvironmentPlain ==
  ASSUME TypeOK, Plain,
         EditSpec \/ Tamper \/ DeploymentController \/ PodsLost
         \/ (\E k \in Keys : CacheSync(k))
  PROVE  Plain'
<1>1. CASE EditSpec \/ \E k \in Keys : CacheSync(k)
  BY <1>1, PlainControl DEF EditSpec, CacheSync
<1>2. CASE Tamper
  <2>1. PICK o \in Objects \ ClusterScoped : \E s \in Tamperings(o) : Write(o, s)
    BY <1>2 DEF Tamper
  <2>2. PICK s \in Tamperings(o) : Write(o, s)
    BY <2>1
  <2>3. s \in Object
    BY TamperedType, TypeParts
  <2> QED
    BY <1>2, <2>2, <2>3, PlainWrite DEF Tamper, control
<1>3. ASSUME NEW from, NEW to \in Phases, NEW o \in Deployments, Pods(o, from, to)
      PROVE  Plain'
  <2>1. o \in Objects /\ o \notin ClusterScoped /\ api[o] \in Object
    BY SeenType, TypeParts, RolloutAssumption, WatchAssumption
  <2>2. [api[o] EXCEPT !.phase = to] \in Object
    BY <2>1, ObjectUpdates
  <2> QED
    BY <1>3, <2>1, <2>2, PlainWrite DEF Pods, control
<1>4. CASE DeploymentController \/ PodsLost
  BY <1>3, <1>4 DEF DeploymentController, StartRolling, PodsReady, PodsLost, Phases
<1> QED
  BY <1>1, <1>2, <1>4

LEMMA WorkerPlain ==
  ASSUME TypeOK, Plain, Position, Worker \/ CallFails \/ Restart
  PROVE  Plain'
<1>0. This \in Objects /\ Seen(This) \in Object /\ api[This] \in Object
  BY StageFacts, SeenType, TypeParts DEF TypeOK, This
<1>1. CASE Sync
  <2>0. pc # "idle"
    BY <1>1 DEF Sync, Call
  <2>1. CASE Create(This, {}, FALSE)
    BY <2>0, <2>1, CreatePlain
  <2>2. CASE Delete(This)
    <3>1. Gone(This) \in Object /\ Gone(This).meta = {}
      BY <1>0, BlueprintTypes, TypeParts DEF TypeCRs, Gone, NoObject
    <3>2. /\ carry' = Seen(This).meta /\ at' = at
          /\ Write(This, Gone(This)) \/ api' = api
      BY <2>2 DEF Delete
    <3>3. This \in ClusterScoped => carry' = {}
      BY <3>2 DEF Plain, Seen
    <3>4. \A x \in ClusterScoped : api'[x].meta = {}
      <4> SUFFICES ASSUME NEW x \in ClusterScoped PROVE api'[x].meta = {}
        OBVIOUS
      <4>1. api[x].meta = {} /\ x \in Objects
        BY RolloutAssumption DEF Plain
      <4>2. CASE api' = [api EXCEPT ![This] = Revised(This, Gone(This))]
        <5>1. Revised(This, Gone(This)).meta = {}
          BY <3>1 DEF Revised, Object
        <5>2. api'[x] = IF x = This THEN Revised(This, Gone(This)) ELSE api[x]
          BY <4>1, <4>2 DEF TypeOK
        <5> QED
          BY <4>1, <5>1, <5>2
      <4> QED
        BY <3>2, <4>1, <4>2 DEF Write
    <3> QED
      BY <3>2, <3>3, <3>4 DEF Plain, This
  <2>3. CASE Present(Seen(This)) /\ Update(This)
    <3>1. pc' # "recreate"
      BY <2>3, EndsPlain DEF Update
    <3>2. CASE Give(This, Merged(This))
      <4>1. Merged(This) \in Object
        BY <1>0, BlueprintTypes, TypeParts DEF TypeCRs
      <4>2. Merged(This).meta = Seen(This).meta
        BY <1>0 DEF Merged, Changed, Object
      <4>3. This \in ClusterScoped => Merged(This).meta = {}
        BY <4>2 DEF Plain, Seen
      <4> QED
        BY <1>0, <3>1, <3>2, <4>1, <4>3, PlainWrite DEF Give
    <3> QED
      BY <2>3, <3>1, <3>2, PlainControl DEF Update
  <2>4. CASE Advance /\ UNCHANGED <<api, stale, reached>>
    BY <2>4, EndsPlain, PlainControl
  <2> QED
    BY <1>1, <2>1, <2>2, <2>3, <2>4 DEF Sync
<1>2. CASE Recreate
  <2>1. /\ carry \in SUBSET {"label", "annotation"} /\ Create(This, carry, FALSE)
        /\ pc = "recreate"
    BY <1>2 DEF Recreate, TypeOK
  <2>2. This \in ClusterScoped => carry = {}
    BY <2>1 DEF Plain
  <2> QED
    BY <2>1, <2>2, CreatePlain
<1>3. CASE CreateIfNotExists
  <2>1. pc # "idle" /\ (Create(This, {}, TRUE) \/ (Advance /\ UNCHANGED <<api, stale>>))
    BY <1>3 DEF CreateIfNotExists, Call
  <2> QED
    BY <2>1, CreatePlain, EndsPlain, PlainControl
<1>4. CASE Start \/ EnsureExists \/ AwaitDeployment \/ CallFails \/ Restart
  BY <1>4, EndsPlain, PlainControl DEF Start, EnsureExists, AwaitDeployment, CallFails, Restart
<1>5. CASE ProvisionDB \/ RecordProvisioned \/ UpdateAvailabilityStatus
  <2>1. api' = api /\ (pc' = "record" \/ Fail \/ \E c : Continue(c))
    BY <1>5 DEF ProvisionDB, RecordProvisioned, UpdateAvailabilityStatus, UpdateStatus, Advance
  <2> QED
    BY <2>1, EndsPlain, PlainControl
<1> QED
  BY <1>1, <1>2, <1>3, <1>4, <1>5 DEF Worker

-----------------------------------------------------------------------------
(* What a pass knows stays true, or an event is due.                       *)

LEMMA EnvironmentRests ==
  ASSUME TypeOK, RestInv,
         EditSpec \/ Tamper \/ DeploymentController \/ PodsLost
         \/ (\E k \in Keys : CacheSync(k)),
         ~queued', stale' = {}
  PROVE  RestKnows'
<1>1. CASE EditSpec \/ \E k \in Keys : CacheSync(k)
  BY <1>1 DEF EditSpec, WriteCR, CacheSync
<1>2. ASSUME NEW o \in Objects \ ClusterScoped, NEW s, Write(o, s), UNCHANGED <<cr, control>>
      PROVE  RestKnows'
  <2>1. api' = api /\ stale = {} /\ ~queued
    BY <1>2, SilentWrite DEF control
  <2>2. RestKnows
    BY <2>1 DEF RestInv
  <2> QED
    BY <1>2, <2>1, <2>2 DEF RestKnows, control, DoneBefore, StageDone, Halted, Waits, This
<1>3. CASE Tamper
  BY <1>2, <1>3 DEF Tamper
<1>4. ASSUME NEW from, NEW to, NEW o \in Deployments, Pods(o, from, to)
      PROVE  RestKnows'
  BY <1>2, <1>4, RolloutAssumption, WatchAssumption DEF Pods
<1>5. CASE DeploymentController \/ PodsLost
  BY <1>4, <1>5 DEF DeploymentController, StartRolling, PodsReady, PodsLost
<1> QED
  BY <1>1, <1>3, <1>5

(* A step of a pass takes neither an event nor a request away.             *)
LEMMA PassIsQuiet ==
  ASSUME Worker, ~Start, ~queued', stale' = {}
  PROVE  ~queued /\ stale = {}
<1>1. \A o, s : Write(o, s) => stale = {}
  BY WriteStale
<1>2. (Leave /\ UNCHANGED queued) \/ NotDone \/ (\E c : Continue(c)) \/ Advance => ~queued
  BY DEF NotDone, Continue, Advance
<1>3. ~Fail
  BY DEF Fail
<1>4. \A o, m, b : Create(o, m, b) => ~queued /\ stale = {}
  BY <1>1, <1>2 DEF Create, Give
<1>5. CASE Sync
  <2>1. Update(This) => ~queued /\ stale = {}
    BY <1>1, <1>2, <1>3 DEF Update, Give
  <2>2. Delete(This) => ~queued /\ stale = {}
    BY <1>1 DEF Delete
  <2> QED
    BY <1>2, <1>4, <1>5, <2>1, <2>2 DEF Sync
<1>6. CASE Recreate \/ CreateIfNotExists
  BY <1>2, <1>4, <1>6 DEF Recreate, CreateIfNotExists
<1>7. CASE RecordProvisioned \/ UpdateAvailabilityStatus
  BY <1>2, <1>3, <1>7 DEF RecordProvisioned, UpdateAvailabilityStatus, UpdateStatus, WriteCR
<1>8. CASE EnsureExists \/ AwaitDeployment \/ ProvisionDB
  BY <1>2, <1>3, <1>8 DEF EnsureExists, AwaitDeployment, ProvisionDB
<1> QED
  BY <1>5, <1>6, <1>7, <1>8 DEF Worker

LEMMA StartRests ==
  ASSUME TypeOK, Position, Copies, Start, stale' = {}
  PROVE  RestKnows'
<1>1. at = 1 /\ mem' = cr /\ pc' = "call" /\ UNCHANGED <<cr, at>>
  BY DEF Position, Copies, Start
<1>2. DoneBefore(at)'
  <2>1. \A i \in DOMAIN Stages : ~(i < 1)
    BY StageFacts
  <2> QED
    BY <1>1, <2>1 DEF DoneBefore
<1> QED
  BY <1>1, <1>2 DEF RestKnows

LEMMA WriterRests ==
  ASSUME TypeOK, Current, Position, RestInv, ~queued, stale = {},
         Recreate \/ CreateIfNotExists, ~queued', stale' = {}
  PROVE  RestKnows'
<1>1. CASE Recreate
  <2>1. pc = "recreate" /\ Creates(at) /\ cr' = cr /\ Create(This, carry, FALSE)
    BY <1>1 DEF Recreate, Position, Creates
  <2>2. This \in ClusterScoped /\ carry = {}
    BY <2>1 DEF RestInv, RestKnows, Plain
  <2> QED
    BY <2>1, <2>2, CreateRests
<1>2. CASE CreateIfNotExists
  <2>1. pc = "call" /\ Stages[at].call = "ensure" /\ Creates(at) /\ cr' = cr
    BY <1>2 DEF CreateIfNotExists, Call, Creates
  <2>2. Seen(This) = api[This]
    BY <2>1, CallKnows
  <2>3. CASE Present(Seen(This)) /\ Advance /\ api' = api
    <3>1. StageDone(at)
      BY <2>1, <2>2, <2>3 DEF StageDone, This
    <3> QED
      BY <2>1, <2>3, <3>1, ReadRests
  <2>4. CASE ~Present(api[This]) /\ Create(This, {}, TRUE)
    BY <2>1, <2>4, CreateRests
  <2> QED
    BY <1>2, <2>2, <2>3, <2>4 DEF CreateIfNotExists
<1> QED
  BY <1>1, <1>2

LEMMA ReaderRests ==
  ASSUME TypeOK, Current, Position, RestInv, ~queued, stale = {},
         EnsureExists \/ AwaitDeployment \/ ProvisionDB
         \/ RecordProvisioned \/ UpdateAvailabilityStatus,
         ~queued', stale' = {}
  PROVE  RestKnows'
<1>f. ~Fail /\ \A c : ~UpdateStatus(c)
  BY DEF Fail, UpdateStatus, WriteCR
<1>1. CASE EnsureExists
  <2>1. /\ pc = "call" /\ Stages[at].call = "exists" /\ UNCHANGED <<api, cr>>
        /\ IF Present(Seen(This)) THEN Advance ELSE Leave
    BY <1>1 DEF EnsureExists, Call, NotDone
  <2>2. Seen(This) = api[This]
    BY <2>1, CallKnows
  <2>3. IF Present(Seen(This)) THEN StageDone(at) ELSE Waits(at)
    BY <2>1, <2>2 DEF StageDone, Waits, This
  <2> QED
    BY <2>1, <2>3, ReadRests
<1>2. CASE AwaitDeployment
  <2>1. /\ pc = "call" /\ Stages[at].call = "await" /\ UNCHANGED <<api, cr>>
        /\ IF Available(Seen(This)) THEN Advance ELSE Leave
    BY <1>2 DEF AwaitDeployment, Call, NotDone
  <2>2. Seen(This) = api[This]
    BY <2>1, CallKnows
  <2>3. IF Available(Seen(This)) THEN StageDone(at) ELSE Waits(at)
    BY <2>1, <2>2 DEF StageDone, Waits, This
  <2> QED
    BY <2>1, <2>3, ReadRests
<1>3. CASE ProvisionDB
  <2>1. pc = "call" /\ Stages[at].call = "provision" /\ UNCHANGED <<api, cr>>
    BY <1>3 DEF ProvisionDB, Call
  <2>2. mem = cr
    BY <2>1, CallKnows
  <2>3. CASE mem.provisioned /\ Advance
    <3>1. StageDone(at)
      BY <2>1, <2>2, <2>3 DEF StageDone
    <3> QED
      BY <2>1, <2>3, <3>1, ReadRests
  <2>4. CASE pc' = "record" /\ UNCHANGED <<mem, at>>
    <3>1. DoneBefore(at)
      BY <2>1, CallKnows
    <3>2. DoneBefore(at)'
      BY <2>1, <2>4, <3>1 DEF DoneBefore, StageDone
    <3> QED
      BY <2>1, <2>2, <2>4, <3>2 DEF RestKnows
  <2> QED
    BY <1>3, <1>f, <2>3, <2>4 DEF ProvisionDB
<1>4. CASE RecordProvisioned
  BY <1>4, <1>f DEF RecordProvisioned
<1>5. CASE UpdateAvailabilityStatus
  <2>1. /\ pc = "call" /\ Stages[at].call = "status" /\ UNCHANGED <<api, cr>>
        /\ mem.running = Availability(Seen(This)) /\ Advance
    BY <1>5, <1>f DEF UpdateAvailabilityStatus, Call
  <2>2. Seen(This) = api[This] /\ mem = cr
    BY <2>1, CallKnows
  <2>3. StageDone(at)
    BY <2>1, <2>2 DEF StageDone, This
  <2> QED
    BY <2>1, <2>3, ReadRests
<1> QED
  BY <1>1, <1>2, <1>3, <1>4, <1>5

LEMMA WorkerRests ==
  ASSUME TypeOK, Current, Position, Copies, RestInv, Worker \/ CallFails \/ Restart,
         ~queued', stale' = {}
  PROVE  RestKnows'
<1>1. CASE Start
  BY <1>1, StartRests
<1>2. CASE CallFails \/ Restart
  BY <1>2 DEF CallFails, Restart, Fail
<1>3. CASE Worker /\ ~Start
  <2>1. ~queued /\ stale = {}
    BY <1>3, PassIsQuiet
  <2> QED
    BY <1>3, <2>1, SyncRests, WriterRests, ReaderRests DEF Worker
<1> QED
  BY <1>1, <1>2, <1>3

LEMMA InitRests == Init => RestInv
<1>1. NoObject.meta = {}
  BY DEF NoObject
<1> QED
  BY <1>1, RolloutAssumption DEF Init, RestInv, Plain

LEMMA StepRests ==
  TypeOK /\ Current /\ Position /\ Copies /\ RestInv /\ [Next]_vars => RestInv'
<1> SUFFICES ASSUME TypeOK, Current, Position, Copies, RestInv, [Next]_vars
             PROVE  RestInv'
  OBVIOUS
<1>0. Plain
  BY DEF RestInv
<1>1. CASE Next
  <2>1. Plain'
    BY <1>0, <1>1, EnvironmentPlain, WorkerPlain DEF Next
  <2>2. ~queued' /\ stale' = {} => RestKnows'
    BY <1>1, EnvironmentRests, WorkerRests DEF Next
  <2> QED
    BY <2>1, <2>2 DEF RestInv
<1>2. CASE UNCHANGED vars
  <2>1. Plain'
    BY <1>0, <1>2, PlainControl DEF vars
  <2>2. ~queued' /\ stale' = {} => RestKnows'
    BY <1>2 DEF vars, RestInv, RestKnows, DoneBefore, StageDone, Halted, Waits, This
  <2> QED
    BY <2>1, <2>2 DEF RestInv
<1> QED
  BY <1>1, <1>2

(* The operator is never left waiting for an event that came and went: when *)
(* no pass runs, no request is queued and the caches are up to date, then   *)
(* every stage has what it wants of the CR and the objects as they are now, *)
(* or the first that has not waits for something the operator cannot do, a  *)
(* Deployment's pod, an object someone else makes, or a label to be removed.*)
THEOREM RestsOnlyWhenHalted == Spec => []RolloutAtRest
<1>1. TypeOK /\ TypeOK' /\ OrderInv /\ [Next]_vars => OrderInv'
  BY StepOrder
<1>2. TypeOK /\ Current /\ Bare /\ [Next]_vars => Current' /\ Bare'
  BY StepKept
<1>3. TypeOK /\ Copies /\ [Next]_vars => Copies'
  BY StepCopies
<1>4. TypeOK /\ Current /\ OrderInv /\ Copies /\ RestInv /\ [Next]_vars => RestInv'
  BY StepRests DEF OrderInv
<1>5. RestInv => RolloutAtRest
  BY DEF RestInv, RestKnows, RolloutAtRest
<1> QED
  BY <1>1, <1>2, <1>3, <1>4, <1>5, TypeCorrect, InitOrder, InitCurrent, InitCopies,
     InitRests, PTL DEF Spec

=============================================================================
