------------------------ MODULE DevWorkspaceProofs ------------------------
(***************************************************************************)
(* Theorems about DevWorkspace, for any number of CheClusters, files and    *)
(* versions: types, and that operators do not fight over an object.        *)
(***************************************************************************)
EXTENDS DevWorkspace, TLAPS

PCs == {"idle", "look", "create", "count", "read", "write"}

(* Past the first look, an operator is busy with a file.                    *)
AtFiles ==
  \A c \in CheClusters : pc[c] \in {"count", "read", "write"} => Item(c) \in Files

TypeWorker ==
  /\ pc \in [CheClusters -> PCs] /\ at \in [CheClusters -> 1..Len(Items)]
  /\ seen \in [CheClusters -> CRs]
  /\ read \in [CheClusters -> {"none", "fresh", "stale"}]
  /\ AtFiles

TypeShared ==
  /\ cr \in [CheClusters -> CRs] /\ version \in [CheClusters -> 1..MaxVersion]
  /\ cluster \in [Objects -> Stored]
  /\ webhook \in BOOLEAN /\ webTerminal \in BOOLEAN

TypeMemory ==
  /\ blueprint \in [CheClusters -> [Files -> Blueprints]]
  /\ lost \in [CheClusters -> SUBSET Files]

TypeBounds == userOps \in 0..MaxUserOps /\ mishaps \in 0..MaxMishaps

TypeInv == TypeWorker /\ TypeShared /\ TypeMemory /\ TypeBounds

LEMMA TypeParts == TypeInv => TypeOK
BY DEF TypeInv, TypeWorker, TypeShared, TypeMemory, TypeBounds, TypeOK, PCs

-----------------------------------------------------------------------------
(* Facts about the items and the records.                                  *)

LEMMA ItemFacts ==
  /\ Len(Items) \in Nat /\ 1 \in 1..Len(Items)
  /\ \A i \in 1..Len(Items) : Items[i] \in Objects
  /\ \A i \in 1..Len(Items) : i # Len(Items) => i + 1 \in 1..Len(Items)
<1>1. Len(Items) \in Nat /\ Len(Items) # 0
  BY DevWorkspaceAssumption DEF DevWorkspaceAssumption
<1>2. ASSUME NEW i \in 1..Len(Items) PROVE Items[i] \in Objects
  BY DevWorkspaceAssumption DEF DevWorkspaceAssumption, Objects
<1> QED
  BY <1>1, <1>2

LEMMA StoredFacts ==
  /\ Absent \in Stored
  /\ \A w \in CheClusters \cup {"none"} : [owner |-> w, hash |-> 0, there |-> TRUE] \in Stored
  /\ \A w \in CheClusters, v \in 1..MaxVersion :
       [owner |-> w, hash |-> v, there |-> TRUE] \in Stored
  /\ \A s \in Stored : [s EXCEPT !.there = TRUE] \in Stored
<1>1. 0 \in 0..MaxVersion /\ 1..MaxVersion \subseteq 0..MaxVersion
  BY DevWorkspaceAssumption DEF DevWorkspaceAssumption
<1> QED
  BY <1>1 DEF Absent, Stored

LEMMA BoundFacts ==
  /\ \A n \in 0..MaxUserOps : n > 0 => n - 1 \in 0..MaxUserOps /\ n - 1 < MaxUserOps
  /\ \A n \in 0..MaxMishaps : n > 0 => n - 1 \in 0..MaxMishaps
BY DevWorkspaceAssumption DEF DevWorkspaceAssumption

-----------------------------------------------------------------------------
(* How the steps of a pass keep the types.                                 *)

LEMMA GoTypes ==
  ASSUME TypeWorker, NEW c \in CheClusters, NEW l \in PCs, NEW i \in 1..Len(Items), Go(c, l, i),
         l \in {"count", "read", "write"} => Items[i] \in Files,
         seen' \in [CheClusters -> CRs], read' \in [CheClusters -> {"none", "fresh", "stale"}]
  PROVE  TypeWorker'
<1>1. pc' \in [CheClusters -> PCs] /\ at' \in [CheClusters -> 1..Len(Items)]
  BY DEF TypeWorker, Go
<1>2. ASSUME NEW d \in CheClusters, pc'[d] \in {"count", "read", "write"}
      PROVE  Item(d)' \in Files
  BY <1>2 DEF TypeWorker, AtFiles, Go, Item
<1> QED
  BY <1>1, <1>2 DEF TypeWorker, AtFiles

LEMMA ForgetTypes ==
  ASSUME TypeWorker, NEW c \in CheClusters
  PROVE  /\ [seen EXCEPT ![c] = "off"] \in [CheClusters -> CRs]
         /\ [read EXCEPT ![c] = "none"] \in [CheClusters -> {"none", "fresh", "stale"}]
BY DEF TypeWorker, CRs

LEMMA LeaveTypes ==
  ASSUME TypeWorker, NEW c \in CheClusters, Leave(c) PROVE TypeWorker'
<1>1. Go(c, "idle", 1) /\ Forget(c)
  BY DEF Leave
<1>2. seen' \in [CheClusters -> CRs] /\ read' \in [CheClusters -> {"none", "fresh", "stale"}]
  BY <1>1, ForgetTypes DEF Forget
<1> QED
  BY <1>1, <1>2, GoTypes, ItemFacts DEF PCs

LEMMA ContinueTypes ==
  ASSUME TypeWorker, NEW c \in CheClusters, Continue(c) PROVE TypeWorker'
<1>1. CASE at[c] = Len(Items)
  BY <1>1, LeaveTypes DEF Continue
<1>2. CASE at[c] # Len(Items)
  <2>1. Go(c, "look", at[c] + 1) /\ read' = [read EXCEPT ![c] = "none"] /\ seen' = seen
    BY <1>2 DEF Continue
  <2>2. at[c] + 1 \in 1..Len(Items)
    BY <1>2, ItemFacts DEF TypeWorker
  <2>3. seen' \in [CheClusters -> CRs] /\ read' \in [CheClusters -> {"none", "fresh", "stale"}]
    BY <2>1, ForgetTypes DEF TypeWorker
  <2> QED
    BY <2>1, <2>2, <2>3, GoTypes DEF PCs
<1> QED
  BY <1>1, <1>2

(* To another call for the same item.                                      *)
LEMMA StayTypes ==
  ASSUME TypeWorker, NEW c \in CheClusters, NEW l \in PCs, Go(c, l, at[c]),
         l \in {"count", "read", "write"} => Item(c) \in Files, UNCHANGED seen,
         read' \in [CheClusters -> {"none", "fresh", "stale"}]
  PROVE  TypeWorker'
<1>1. at[c] \in 1..Len(Items) /\ seen' \in [CheClusters -> CRs]
  BY DEF TypeWorker
<1> QED
  BY <1>1, GoTypes DEF Item

LEMMA OutdatedTypes ==
  ASSUME TypeWorker, NEW o PROVE Outdated(o) \in [CheClusters -> {"none", "fresh", "stale"}]
BY DEF TypeWorker, Outdated

LEMMA StoreTypes ==
  ASSUME TypeInv, NEW c \in CheClusters, pc[c] = "write", Store(c)
  PROVE  TypeShared' /\ TypeMemory' /\ TypeBounds'
<1>1. Item(c) \in Files /\ Item(c) \in Objects
  BY DEF TypeInv, TypeWorker, AtFiles, Objects
<1>2. [owner |-> c, hash |-> version[c], there |-> TRUE] \in Stored
  BY StoredFacts DEF TypeInv, TypeShared
<1>3. cluster' \in [Objects -> Stored]
  BY <1>1, <1>2 DEF TypeInv, TypeShared, Store
<1>4. blueprint' \in [CheClusters -> [Files -> Blueprints]]
  BY <1>1 DEF TypeInv, TypeMemory, Store, Blueprints
<1>5. lost' \in [CheClusters -> SUBSET Files]
  BY <1>1 DEF TypeInv, TypeMemory, Store
<1>6. UNCHANGED <<cr, version, webTerminal, webhook, userOps, mishaps>>
  BY DEF Store, Outside, users
<1> QED
  BY <1>3, <1>4, <1>5, <1>6 DEF TypeInv, TypeShared, TypeMemory, TypeBounds

LEMMA InitTypes == Init => TypeInv
<1> SUFFICES ASSUME Init PROVE TypeInv
  OBVIOUS
<1>1. cluster \in [Objects -> Stored]
  BY StoredFacts DEF Init
<1>2. TypeShared
  BY <1>1 DEF Init, TypeShared, CRs
<1>3. TypeMemory
  BY DEF Init, TypeMemory, Blueprints
<1>4. TypeWorker
  BY ItemFacts DEF Init, TypeWorker, AtFiles, PCs, CRs
<1>5. TypeBounds
  BY DevWorkspaceAssumption DEF Init, TypeBounds, DevWorkspaceAssumption
<1> QED
  BY <1>2, <1>3, <1>4, <1>5 DEF TypeInv

(* The steps that leave the shared state alone, and those of the worker      *)
(* that leave the memory of files alone.                                   *)
LEMMA RestTypes ==
  /\ TypeShared /\ UNCHANGED <<users, cluster, webhook>> => TypeShared'
  /\ TypeMemory /\ UNCHANGED <<blueprint, lost>> => TypeMemory'
  /\ TypeBounds /\ UNCHANGED <<userOps, mishaps>> => TypeBounds'
<1>1. ASSUME TypeShared, UNCHANGED <<users, cluster, webhook>> PROVE TypeShared'
  BY <1>1 DEF TypeShared, users
<1>2. ASSUME TypeMemory, UNCHANGED <<blueprint, lost>> PROVE TypeMemory'
  BY <1>2 DEF TypeMemory
<1>3. ASSUME TypeBounds, UNCHANGED <<userOps, mishaps>> PROVE TypeBounds'
  BY <1>3 DEF TypeBounds
<1> QED
  BY <1>1, <1>2, <1>3

LEMMA QuietTypes ==
  ASSUME TypeInv, Quiet PROVE TypeShared' /\ TypeMemory' /\ TypeBounds'
BY RestTypes DEF TypeInv, Quiet, Outside

(* Users, administrators and the controller.                               *)
LEMMA UserTypes ==
  ASSUME TypeInv,
         \/ \E c \in CheClusters : EditCR(c) \/ CRGoes(c)
         \/ \E o \in Files \cup {Manager} : DeleteObject(o)
         \/ WebTerminal \/ RegisterWebhook
  PROVE  TypeInv'
<1> USE DEF TypeInv
<1>1. ASSUME UserOp, UNCHANGED blueprint PROVE TypeMemory' /\ TypeBounds' /\ UNCHANGED webhook
  BY <1>1, BoundFacts DEF UserOp, TypeMemory, TypeBounds
<1>2. ASSUME UNCHANGED worker PROVE TypeWorker'
  BY <1>2 DEF worker, TypeWorker, AtFiles, Item
<1>3. ASSUME NEW c \in CheClusters, EditCR(c) PROVE TypeInv'
  <2>1. cr' \in [CheClusters -> CRs]
    BY <1>3 DEF EditCR, TypeShared, CRs
  <2>2. TypeShared'
    BY <1>1, <1>3, <2>1 DEF EditCR, TypeShared
  <2> QED
    BY <1>1, <1>2, <1>3, <2>2 DEF EditCR
<1>4. ASSUME NEW c \in CheClusters, CRGoes(c) PROVE TypeInv'
  <2>1. TypeShared'
    BY <1>4 DEF CRGoes, TypeShared, CRs
  <2> QED
    BY <1>2, <1>4, <2>1, RestTypes DEF CRGoes
<1>5. ASSUME NEW o \in Files \cup {Manager}, DeleteObject(o) PROVE TypeInv'
  <2>1. cluster' \in [Objects -> Stored]
    BY <1>5, StoredFacts DEF DeleteObject, TypeShared
  <2>2. TypeShared'
    BY <1>1, <1>5, <2>1 DEF DeleteObject, TypeShared, users
  <2>3. pc' = pc /\ at' = at /\ seen' = seen
        /\ read' \in [CheClusters -> {"none", "fresh", "stale"}]
    BY <1>5, OutdatedTypes DEF DeleteObject
  <2>4. TypeWorker'
    BY <2>3 DEF TypeWorker, AtFiles, Item
  <2> QED
    BY <1>1, <1>5, <2>2, <2>4 DEF DeleteObject
<1>6. CASE WebTerminal
  <2>1. TypeShared'
    BY <1>1, <1>6 DEF WebTerminal, TypeShared
  <2> QED
    BY <1>1, <1>2, <1>6, <2>1 DEF WebTerminal
<1>7. CASE RegisterWebhook
  <2>1. TypeShared'
    BY <1>7 DEF RegisterWebhook, TypeShared, users
  <2> QED
    BY <1>2, <1>7, <2>1, RestTypes DEF RegisterWebhook
<1> QED
  BY <1>3, <1>4, <1>5, <1>6, <1>7

(* A pass that ends before its time.                                       *)
LEMMA EndTypes ==
  ASSUME TypeInv, NEW c \in CheClusters, CallFails(c) \/ Restart(c) \/ Upgrade(c)
  PROVE  TypeInv'
<1> USE DEF TypeInv
<1>1. TypeWorker'
  BY LeaveTypes DEF CallFails, Restart, Upgrade
<1>2. blueprint' \in [CheClusters -> [Files -> Blueprints]]
  BY DEF CallFails, Restart, Upgrade, TypeMemory, Blueprints
<1>3. CASE CallFails(c) \/ Restart(c)
  <2>1. mishaps' \in 0..MaxMishaps /\ userOps' = userOps
    BY <1>3, BoundFacts DEF CallFails, Restart, Outside, TypeBounds
  <2>2. UNCHANGED <<users, cluster, webhook, lost>>
    BY <1>3 DEF CallFails, Restart, Outside
  <2> QED
    BY <1>1, <1>2, <2>1, <2>2, RestTypes DEF TypeMemory, TypeBounds
<1>4. CASE Upgrade(c)
  <2>1. version' \in [CheClusters -> 1..MaxVersion]
    BY <1>4, DevWorkspaceAssumption DEF Upgrade, TypeShared, DevWorkspaceAssumption
  <2>2. TypeShared'
    BY <1>4, <2>1 DEF Upgrade, UserOp, TypeShared
  <2>3. TypeMemory' /\ TypeBounds'
    BY <1>2, <1>4, BoundFacts DEF Upgrade, UserOp, TypeMemory, TypeBounds
  <2> QED
    BY <1>1, <2>2, <2>3
<1> QED
  BY <1>3, <1>4

(* The worker.                                                             *)
LEMMA QuietWorkTypes ==
  ASSUME TypeInv, NEW c \in CheClusters,
         Start(c) \/ LookForManager(c) \/ Look(c) \/ CountCheClusters(c) \/ SyncRead(c)
  PROVE  TypeInv'
<1> USE DEF TypeInv
<1>1. Quiet /\ read \in [CheClusters -> {"none", "fresh", "stale"}]
  BY DEF Start, LookForManager, Look, CountCheClusters, SyncRead, TypeWorker
<1> SUFFICES TypeWorker'
  BY <1>1, QuietTypes
<1>2. CASE Leave(c) \/ Continue(c)
  BY <1>2, LeaveTypes, ContinueTypes
<1>3. CASE Start(c)
  <2>1. seen' \in [CheClusters -> CRs] /\ read' = read
    BY <1>3 DEF Start, TypeWorker, TypeShared
  <2>2. Go(c, "look", 1)
    BY <1>3 DEF Start
  <2> QED
    BY <1>1, <2>1, <2>2, GoTypes, ItemFacts DEF PCs
<1>4. CASE \E l \in {"create", "read", "count"} :
             /\ Go(c, l, at[c]) /\ UNCHANGED <<seen, read>>
             /\ l # "create" => Item(c) \in Files
  BY <1>1, <1>4, StayTypes DEF PCs
<1>5. CASE SyncRead(c)
  <2>1. Item(c) \in Files
    BY <1>5 DEF SyncRead, TypeWorker, AtFiles
  <2>2. CASE /\ Go(c, "write", at[c]) /\ UNCHANGED seen
             /\ read' = [read EXCEPT ![c] = IF cluster[Item(c)].there THEN "fresh" ELSE "none"]
    <3>1. read' \in [CheClusters -> {"none", "fresh", "stale"}]
      BY <1>1, <2>2
    <3> QED
      BY <2>1, <2>2, <3>1, StayTypes DEF PCs
  <2> QED
    BY <1>2, <1>5, <2>2 DEF SyncRead
<1>6. CASE LookForManager(c)
  BY <1>2, <1>4, <1>6 DEF LookForManager
<1>7. CASE Look(c)
  BY <1>2, <1>4, <1>7 DEF Look
<1>8. CASE CountCheClusters(c)
  <2>1. Item(c) \in Files
    BY <1>8 DEF CountCheClusters, TypeWorker, AtFiles
  <2> QED
    BY <1>2, <1>4, <1>8, <2>1 DEF CountCheClusters
<1> QED
  BY <1>3, <1>5, <1>6, <1>7, <1>8

LEMMA WriteTypes ==
  ASSUME TypeInv, NEW c \in CheClusters,
         \/ CreateIfNotExists(c) \/ CreateManager(c)
         \/ Create(c) \/ Update(c) \/ UpdateConflicts(c)
  PROVE  TypeInv'
<1> USE DEF TypeInv
<1>1. CASE CreateIfNotExists(c)
  <2>1. Item(c) \in Objects /\ TypeWorker'
    BY <1>1, ContinueTypes DEF CreateIfNotExists, Objects
  <2>2. cluster' \in [Objects -> Stored]
    BY <1>1, <2>1, StoredFacts DEF CreateIfNotExists, TypeShared
  <2> QED
    BY <1>1, <2>1, <2>2, RestTypes DEF CreateIfNotExists, Outside, TypeShared, users
<1>2. CASE CreateManager(c)
  <2>1. Manager \in Objects /\ TypeWorker'
    BY <1>2, ContinueTypes, LeaveTypes DEF CreateManager, Objects
  <2>2. cluster' \in [Objects -> Stored]
    BY <1>2, <2>1, StoredFacts DEF CreateManager, TypeShared
  <2> QED
    BY <1>2, <2>1, <2>2, RestTypes DEF CreateManager, Outside, TypeShared, users
<1>3. CASE Create(c)
  BY <1>3, LeaveTypes, ContinueTypes, QuietTypes, StoreTypes DEF Create
<1>4. CASE Update(c)
  <2>1. Go(c, "idle", 1) /\ seen' = [seen EXCEPT ![c] = "off"] /\ Store(c) /\ pc[c] = "write"
        /\ read' = [Outdated(Item(c)) EXCEPT ![c] = "none"]
    BY <1>4 DEF Update
  <2>2. seen' \in [CheClusters -> CRs] /\ read' \in [CheClusters -> {"none", "fresh", "stale"}]
    BY <2>1, ForgetTypes, OutdatedTypes
  <2>3. TypeWorker'
    BY <2>1, <2>2, GoTypes, ItemFacts DEF PCs
  <2> QED
    BY <2>1, <2>3, StoreTypes
<1>5. CASE UpdateConflicts(c)
  <2>1. Item(c) \in Files /\ TypeWorker'
    BY <1>5, LeaveTypes DEF UpdateConflicts, TypeWorker, AtFiles
  <2>2. TypeMemory'
    BY <1>5, <2>1 DEF UpdateConflicts, TypeMemory, Blueprints
  <2> QED
    BY <1>5, <2>1, <2>2, RestTypes DEF UpdateConflicts, Outside
<1> QED
  BY <1>1, <1>2, <1>3, <1>4, <1>5

LEMMA NextTypes == TypeInv /\ [Next]_vars => TypeInv'
<1> SUFFICES ASSUME TypeInv, [Next]_vars PROVE TypeInv'
  OBVIOUS
<1>1. CASE UNCHANGED vars
  BY <1>1 DEF vars, users, worker, TypeInv, TypeWorker, AtFiles, Item, TypeShared,
              TypeMemory, TypeBounds
<1> QED
  BY <1>1, UserTypes, EndTypes, QuietWorkTypes, WriteTypes DEF Next, Work

(* Type correctness; an operator that is about to read or write an object    *)
(* is at the item of a file.                                               *)
THEOREM TypeCorrect == Spec => []TypeOK
<1>1. TypeInv => TypeOK
  BY TypeParts
<1> QED
  BY <1>1, InitTypes, NextTypes, PTL DEF Spec

-----------------------------------------------------------------------------
(* Why operators do not fight.  As long as no user does anything, what is     *)
(* enabled, and each version, is what it was, and no object goes.  So an    *)
(* object of another version that still belongs to its operator has never   *)
(* been written by it; nobody else but the only operator may replace it.    *)

Untouched == userOps = MaxUserOps

(* c has made up its mind to write o.                                       *)
Poised(c, o) == pc[c] \in {"read", "write"} /\ Item(c) = o

Running ==
  \A c \in CheClusters : cr[c] # "deleting" /\ (pc[c] # "idle" => Enabled(c))

Unowned == \A o \in Files : ~cluster[o].there => cluster[o].owner = "none"

Owns(c, o)     == cluster[o].owner = c
Original(c, o) == Owns(c, o) /\ cluster[o].hash # version[c]

Counting == \A c \in CheClusters : pc[c] = "count" => ~Owns(c, Item(c))

(* What an operator is to write of its own is of another version, ...       *)
OwnReplaced == \A c \in CheClusters, o \in Files : Poised(c, o) /\ Owns(c, o) => Original(c, o)

(* ... nobody else is about to write that while its owner is enabled, ...   *)
NoRival ==
  \A c, d \in CheClusters : \A o \in Files :
    Enabled(c) /\ Original(c, o) /\ d # c => ~Poised(d, o)

(* ... and who lost an object is not the only one, nor about to write it.   *)
Resigned ==
  \A c \in CheClusters : \A o \in lost[c] :
    /\ cluster[o].there /\ ~Owns(c, o) /\ ~Poised(c, o)
    /\ \E d \in CheClusters \ {c} : Enabled(d)

Peace == Running /\ Unowned /\ Counting /\ OwnReplaced /\ NoRival /\ Resigned
PeaceInv == TypeInv /\ (Untouched => Peace)

LEMMA InitPeace == Init => Peace
<1> SUFFICES ASSUME Init PROVE Peace
  OBVIOUS
<1>1. pc = [c \in CheClusters |-> "idle"] /\ lost = [c \in CheClusters |-> {}]
      /\ cr \in [CheClusters -> {"off", "on"}]
  BY DEF Init
<1>2. Unowned
  BY DEF Init, Unowned, Objects, Absent
<1> QED
  BY <1>1, <1>2 DEF Peace, Running, Counting, OwnReplaced, NoRival, Resigned, Poised

(* The peace rests on these variables, and of the cluster on the files only. *)
SameFiles == \A o \in Files : cluster'[o] = cluster[o]

LEMMA PeaceKept ==
  ASSUME TypeInv, Peace, SameFiles, UNCHANGED <<version, lost, pc, at>>,
         cr' \in [CheClusters -> CRs], \A c \in CheClusters : Enabled(c)' <=> Enabled(c),
         \A c \in CheClusters : cr'[c] # "deleting"
  PROVE  Peace'
<1>1. \A c \in CheClusters : Item(c)' = Item(c)
  BY DEF Item
<1>2. \A c \in CheClusters, o \in Files :
        /\ Owns(c, o)' <=> Owns(c, o)
        /\ Original(c, o)' <=> Original(c, o)
        /\ Poised(c, o)' <=> Poised(c, o)
  BY <1>1 DEF SameFiles, Owns, Original, Poised
<1>3. Running'
  BY DEF Peace, Running
<1>4. Unowned'
  BY DEF Peace, Unowned, SameFiles
<1>5. Counting'
  BY <1>1, <1>2 DEF Peace, Counting, TypeInv, TypeWorker, AtFiles
<1>6. OwnReplaced' /\ NoRival'
  BY <1>2 DEF Peace, OwnReplaced, NoRival
<1>7. Resigned'
  BY <1>2 DEF Peace, Resigned, SameFiles, TypeInv, TypeMemory
<1> QED
  BY <1>3, <1>4, <1>5, <1>6, <1>7 DEF Peace

(* A step of c that writes no file.  To be about to write one it takes the   *)
(* right to it.                                                            *)
MayWrite(c, o) ==
  /\ Owns(c, o) => Original(c, o)
  /\ \A d \in CheClusters \ {c} : Enabled(d) => ~Original(d, o)
  /\ o \notin lost[c]

LEMMA PeaceMoves ==
  ASSUME TypeInv, Peace, NEW c \in CheClusters, NEW l \in PCs, NEW i \in 1..Len(Items),
         Go(c, l, i), SameFiles, UNCHANGED <<cr, version, lost>>,
         l # "idle" => Enabled(c), l = "count" => Items[i] \in Files /\ ~Owns(c, Items[i]),
         l \in {"read", "write"} => Items[i] \in Files
                                    /\ (Poised(c, Items[i]) \/ MayWrite(c, Items[i]))
  PROVE  Peace'
<1>1. /\ \A d \in CheClusters \ {c} : Item(d)' = Item(d) /\ pc'[d] = pc[d]
      /\ Item(c)' = Items[i] /\ pc'[c] = l
  BY DEF Item, Go, TypeInv, TypeWorker
<1>2. \A d \in CheClusters, o \in Files :
        /\ Owns(d, o)' <=> Owns(d, o)
        /\ Original(d, o)' <=> Original(d, o)
  BY DEF SameFiles, Owns, Original
<1>3. \A d \in CheClusters, o \in Files :
        Poised(d, o)' => Poised(d, o) \/ (d = c /\ MayWrite(c, o))
  BY <1>1 DEF Poised
<1>4. \A d \in CheClusters : Enabled(d)' <=> Enabled(d)
  BY DEF Enabled
<1>5. Running'
  BY <1>1, <1>4 DEF Peace, Running
<1>6. Unowned'
  BY DEF Peace, Unowned, SameFiles
<1>7. Counting'
  BY <1>1, <1>2 DEF Peace, Counting, TypeInv, TypeWorker, AtFiles
<1>8. OwnReplaced'
  BY <1>2, <1>3 DEF Peace, OwnReplaced, MayWrite
<1>9. NoRival'
  BY <1>2, <1>3, <1>4 DEF Peace, NoRival, MayWrite
<1>10. Resigned'
  <2> SUFFICES ASSUME NEW d \in CheClusters, NEW o \in lost[d]
               PROVE  /\ cluster'[o].there /\ ~Owns(d, o)' /\ ~Poised(d, o)'
                      /\ \E e \in CheClusters \ {d} : Enabled(e)'
    BY DEF Resigned
  <2>1. o \in Files
    BY DEF TypeInv, TypeMemory
  <2>2. /\ cluster[o].there /\ ~Owns(d, o) /\ ~Poised(d, o)
        /\ \E e \in CheClusters \ {d} : Enabled(e)
    BY DEF Peace, Resigned
  <2> QED
    BY <1>2, <1>3, <1>4, <2>1, <2>2 DEF SameFiles, MayWrite
<1> QED
  BY <1>5, <1>6, <1>7, <1>8, <1>9, <1>10 DEF Peace

(* To the end of the pass, or to the next item.                             *)
LEMMA TurnsAway ==
  ASSUME TypeInv, NEW c \in CheClusters, Leave(c) \/ Continue(c)
  PROVE  \E l \in {"idle", "look"}, i \in 1..Len(Items) : Go(c, l, i)
<1>1. CASE Leave(c)
  BY <1>1, ItemFacts DEF Leave
<1>2. CASE Continue(c) /\ ~Leave(c)
  BY <1>2, ItemFacts DEF Continue, TypeInv, TypeWorker
<1> QED
  BY <1>1, <1>2

LEMMA PeaceTurns ==
  ASSUME TypeInv, Peace, NEW c \in CheClusters, Leave(c) \/ (Continue(c) /\ pc[c] # "idle"),
         SameFiles, UNCHANGED <<cr, version, lost>>
  PROVE  Peace'
<1>1. PICK l \in {"idle", "look"}, i \in 1..Len(Items) : Go(c, l, i)
  BY TurnsAway
<1>2. l # "idle" => Enabled(c)
  <2>1. CASE pc[c] # "idle"
    BY <2>1 DEF Peace, Running
  <2>2. CASE pc[c] = "idle"
    BY <1>1, <2>2 DEF Leave, Go, TypeInv, TypeWorker
  <2> QED
    BY <2>1, <2>2
<1> QED
  BY <1>1, <1>2, PeaceMoves DEF PCs

(* A write of c takes the file over, and c turns to the next item.          *)
LEMMA PeaceStores ==
  ASSUME TypeInv, Peace, NEW c \in CheClusters, pc[c] = "write", Store(c),
         NEW l \in {"idle", "look"}, NEW i \in 1..Len(Items), Go(c, l, i)
  PROVE  Peace'
<1> DEFINE o == Item(c)
<1>1. o \in Files /\ o \in Objects /\ Poised(c, o) /\ Enabled(c)
  BY DEF TypeInv, TypeWorker, AtFiles, Objects, Poised, Peace, Running
<1>2. /\ cluster'[o].owner = c /\ cluster'[o].hash = version[c] /\ cluster'[o].there
      /\ \A p \in Files \ {o} : cluster'[p] = cluster[p]
      /\ UNCHANGED <<cr, version>>
  BY <1>1 DEF Store, TypeInv, TypeShared, Objects, Outside, users
<1>3. /\ \A d \in CheClusters \ {c} : Item(d)' = Item(d) /\ pc'[d] = pc[d]
      /\ pc'[c] \notin {"count", "read", "write"}
  BY DEF Item, Go, TypeInv, TypeWorker
<1>4. \A d \in CheClusters, p \in Files :
        /\ Owns(d, p)' <=> (IF p = o THEN d = c ELSE Owns(d, p))
        /\ Original(d, p)' <=> p # o /\ Original(d, p)
        /\ Poised(d, p)' <=> d # c /\ Poised(d, p)
        /\ Enabled(d)' <=> Enabled(d)
  BY <1>2, <1>3 DEF Owns, Original, Poised, Enabled
<1>5. Running'
  BY <1>1, <1>2, <1>3, <1>4 DEF Peace, Running
<1>6. Unowned'
  BY <1>2 DEF Peace, Unowned
<1>7. Counting'
  BY <1>3, <1>4 DEF Peace, Counting, TypeInv, TypeWorker, AtFiles
<1>8. OwnReplaced' /\ NoRival'
  BY <1>4 DEF Peace, OwnReplaced, NoRival
<1>9. ASSUME NEW d \in CheClusters, NEW p \in lost'[d]
      PROVE  /\ cluster'[p].there /\ ~Owns(d, p)' /\ ~Poised(d, p)'
             /\ \E e \in CheClusters \ {d} : Enabled(e)'
  <2>1. CASE p \in lost[d]
    <3>1. p \in Files
      BY <2>1 DEF TypeInv, TypeMemory
    <3>2. /\ cluster[p].there /\ ~Owns(d, p) /\ ~Poised(d, p)
          /\ \E e \in CheClusters \ {d} : Enabled(e)
      BY <2>1 DEF Peace, Resigned
    <3> QED
      BY <1>1, <1>2, <1>4, <3>1, <3>2
  <2>2. CASE p \notin lost[d]
    <3>1. p = o /\ d # c /\ Owns(d, o)
      BY <1>9, <2>2 DEF Store, Owns, TypeInv, TypeMemory
    <3>2. ~Poised(d, o)
      <4> SUFFICES ASSUME Poised(d, o) PROVE FALSE
        OBVIOUS
      <4>1. Original(d, o) /\ Enabled(d)
        BY <1>1, <3>1 DEF Peace, OwnReplaced, Running, Poised
      <4> QED
        BY <1>1, <3>1, <4>1 DEF Peace, NoRival
    <3> QED
      BY <1>1, <1>2, <1>4, <3>1, <3>2
  <2> QED
    BY <2>1, <2>2
<1>10. Resigned'
  BY <1>9 DEF Resigned
<1> QED
  BY <1>5, <1>6, <1>7, <1>8, <1>10 DEF Peace

(* The worker.                                                             *)
LEMMA LookPeace ==
  ASSUME TypeInv, Peace, NEW c \in CheClusters,
         Start(c) \/ LookForManager(c) \/ Look(c) \/ CountCheClusters(c) \/ SyncRead(c)
  PROVE  Peace'
<1>1. SameFiles /\ UNCHANGED <<cr, version, lost>>
  BY DEF Start, LookForManager, Look, CountCheClusters, SyncRead, Quiet, Outside, users, SameFiles
<1>2. at[c] \in 1..Len(Items) /\ Item(c) = Items[at[c]]
  BY DEF TypeInv, TypeWorker, Item
<1>3. CASE Start(c)
  <2>1. Go(c, "look", 1) /\ Enabled(c)
    BY <1>3 DEF Start
  <2> QED
    BY <1>1, <2>1, PeaceMoves, ItemFacts DEF PCs
<1> SUFFICES ASSUME ~Start(c) PROVE Peace'
  BY <1>3
<1>4. pc[c] # "idle" /\ Enabled(c)
  BY DEF LookForManager, Look, CountCheClusters, SyncRead, Peace, Running
<1>5. CASE Leave(c) \/ Continue(c)
  BY <1>1, <1>4, <1>5, PeaceTurns
<1>6. CASE LookForManager(c)
  <2>1. CASE Go(c, "create", at[c])
    BY <1>1, <1>2, <1>4, <2>1, PeaceMoves DEF PCs
  <2> QED
    BY <1>5, <1>6, <2>1 DEF LookForManager
<1>7. CASE Look(c)
  <2>0. Item(c) \in Files
    BY <1>7 DEF Look
  <2>1. CASE /\ ~cluster[Item(c)].there \/ (Differs(c) /\ Owns(c, Item(c)))
             /\ Go(c, "read", at[c])
    <3>1. MayWrite(c, Item(c))
      <4>1. CASE ~cluster[Item(c)].there
        <5>1. cluster[Item(c)].owner = "none" /\ Item(c) \notin lost[c]
          BY <2>0, <4>1 DEF Peace, Unowned, Resigned
        <5> QED
          BY <5>1, DevWorkspaceAssumption DEF DevWorkspaceAssumption, MayWrite, Owns, Original
      <4>2. CASE Differs(c) /\ Owns(c, Item(c))
        BY <4>2 DEF MayWrite, Owns, Original, Differs, Peace, Resigned
      <4> QED
        BY <2>1, <4>1, <4>2
    <3> QED
      BY <1>1, <1>2, <1>4, <2>0, <2>1, <3>1, PeaceMoves DEF PCs
  <2>2. CASE ~Owns(c, Item(c)) /\ Go(c, "count", at[c])
    BY <1>1, <1>2, <1>4, <2>0, <2>2, PeaceMoves DEF PCs
  <2> QED
    BY <1>5, <1>7, <2>1, <2>2 DEF Look, Owns
<1>8. CASE CountCheClusters(c)
  <2>0. Item(c) \in Files /\ ~Owns(c, Item(c))
    BY <1>8 DEF CountCheClusters, TypeInv, TypeWorker, AtFiles, Peace, Counting
  <2>1. CASE /\ \E only \in CheClusters : {d \in CheClusters : Enabled(d)} = {only}
             /\ Go(c, "read", at[c])
    <3>1. \A d \in CheClusters \ {c} : ~Enabled(d)
      BY <1>4, <2>1
    <3>2. MayWrite(c, Item(c))
      BY <2>0, <3>1 DEF MayWrite, Peace, Resigned
    <3> QED
      BY <1>1, <1>2, <1>4, <2>0, <2>1, <3>2, PeaceMoves DEF PCs
  <2> QED
    BY <1>5, <1>8, <2>1 DEF CountCheClusters
<1>9. CASE SyncRead(c)
  <2>0. Item(c) \in Files /\ Poised(c, Item(c))
    BY <1>9 DEF SyncRead, TypeInv, TypeWorker, AtFiles, Poised
  <2>1. CASE Go(c, "write", at[c])
    BY <1>1, <1>2, <1>4, <2>0, <2>1, PeaceMoves DEF PCs
  <2> QED
    BY <1>5, <1>9, <2>1 DEF SyncRead
<1> QED
  BY <1>6, <1>7, <1>8, <1>9

LEMMA WritePeace ==
  ASSUME TypeInv, Peace, NEW c \in CheClusters,
         \/ CreateIfNotExists(c) \/ CreateManager(c)
         \/ Create(c) \/ Update(c) \/ UpdateConflicts(c)
  PROVE  Peace'
<1>0. pc[c] # "idle"
  BY DEF CreateIfNotExists, CreateManager, Create, Update, UpdateConflicts
<1>1. CASE CreateIfNotExists(c) \/ CreateManager(c)
  <2>1. SameFiles
    BY <1>1, DevWorkspaceAssumption DEF DevWorkspaceAssumption, CreateIfNotExists, CreateManager,
                                        SameFiles, TypeInv, TypeShared, Objects
  <2>2. (Leave(c) \/ Continue(c)) /\ UNCHANGED <<cr, version, lost>>
    BY <1>1 DEF CreateIfNotExists, CreateManager, Outside, users
  <2> QED
    BY <1>0, <2>1, <2>2, PeaceTurns
<1>2. CASE Create(c) /\ ~Store(c)
  <2>1. Leave(c) /\ SameFiles /\ UNCHANGED <<cr, version, lost>>
    BY <1>2 DEF Create, Quiet, Outside, users, SameFiles
  <2> QED
    BY <2>1, PeaceTurns
<1>3. CASE Create(c) /\ Store(c)
  <2>1. pc[c] = "write" /\ (Leave(c) \/ Continue(c))
    BY <1>3 DEF Create
  <2>2. PICK l \in {"idle", "look"}, i \in 1..Len(Items) : Go(c, l, i)
    BY <2>1, TurnsAway
  <2> QED
    BY <1>3, <2>1, <2>2, PeaceStores
<1>4. CASE Update(c)
  BY <1>4, PeaceStores, ItemFacts DEF Update
<1>5. CASE UpdateConflicts(c)
  <2>1. Leave(c) /\ SameFiles /\ UNCHANGED <<cr, version, lost>>
    BY <1>5 DEF UpdateConflicts, Outside, users, SameFiles
  <2> QED
    BY <2>1, PeaceTurns
<1> QED
  BY <1>1, <1>2, <1>3, <1>4, <1>5

(* What a user does ends it; the rest leaves the peace alone.               *)
LEMMA NextPeace ==
  ASSUME PeaceInv, [Next]_vars PROVE PeaceInv'
<1>0. TypeInv /\ TypeInv'
  BY NextTypes DEF PeaceInv
<1>1. CASE UserOp
  BY <1>0, <1>1, BoundFacts DEF UserOp, PeaceInv, Untouched, TypeInv, TypeBounds
<1> SUFFICES ASSUME ~UserOp, Untouched' PROVE Peace'
  BY <1>0, <1>1 DEF PeaceInv
<1>2. UNCHANGED userOps
  BY DEF Next, Work, vars, UserOp, EditCR, CRGoes, DeleteObject, WebTerminal, RegisterWebhook,
         Upgrade, Start, CreateIfNotExists, LookForManager, CreateManager, Look, CountCheClusters,
         SyncRead, Create, Update, UpdateConflicts, CallFails, Restart, Quiet, Outside, Store
<1>3. Peace
  BY <1>2 DEF PeaceInv, Untouched
<1>4. ASSUME NEW c \in CheClusters, Work(c) PROVE Peace'
  BY <1>0, <1>3, <1>4, LookPeace, WritePeace DEF Work
<1>5. ASSUME NEW c \in CheClusters, CallFails(c) \/ Restart(c) PROVE Peace'
  <2>1. Leave(c) /\ SameFiles /\ UNCHANGED <<cr, version, lost>>
    BY <1>5 DEF CallFails, Restart, Outside, users, SameFiles
  <2> QED
    BY <1>0, <1>3, <2>1, PeaceTurns
<1>6. CASE RegisterWebhook \/ UNCHANGED vars
  <2>1. SameFiles /\ UNCHANGED <<cr, version, lost, pc, at>>
    BY <1>6 DEF RegisterWebhook, vars, users, worker, SameFiles
  <2> QED
    BY <1>0, <1>3, <2>1, PeaceKept DEF Enabled, Peace, Running, TypeInv, TypeShared
<1>7. ~\E c \in CheClusters : CRGoes(c)
  BY <1>3 DEF CRGoes, Peace, Running
<1> QED
  BY <1>4, <1>5, <1>6, <1>7 DEF Next, EditCR, Upgrade, DeleteObject, WebTerminal

(* As long as nobody touches the CheClusters, operators of any versions and *)
(* in any number do not fight: who has lost an object to another one never  *)
(* takes it back, however their steps interleave, fail and restart.         *)
THEOREM NobodyFights == Spec => []NoFight
<1>1. Init => PeaceInv
  BY InitTypes, InitPeace DEF PeaceInv
<1>2. PeaceInv /\ [Next]_vars => PeaceInv'
  BY NextPeace
<1>3. PeaceInv => NoFight
  BY DEF PeaceInv, Untouched, Peace, Resigned, Owns, NoFight
<1> QED
  BY <1>1, <1>2, <1>3, PTL DEF Spec
=============================================================================
