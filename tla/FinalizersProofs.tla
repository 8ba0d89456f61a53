-------------------------- MODULE FinalizersProofs --------------------------
(* The proofs about Finalizers, for every set of permission groups and     *)
(* roles, every order of the two loops and every bound.                    *)
EXTENDS Finalizers, SequenceTheorems, TLAPS

(* The shape of the sequences the two loops run over.                      *)
LEMMA ListTypes ==
  /\ ProvisionOrder \in Seq(Groups) /\ CleanupOrder \in Seq(Groups)
  /\ \A l \in RoleLists : l \in Seq(Groups)
  /\ NoCR \in CheCluster
<1>1. \A l \in Seq(Permissions) : l \in Seq(Groups)
  BY SeqDef DEF Groups
<1>2. \A l \in Seq(Roles) : l \in Seq(Groups)
  BY SeqDef DEF Groups
<1>3. NoCR \in CheCluster
  BY FinalizersAssumption DEF NoCR, CheCluster, NoFinalizers
<1> QED
  BY <1>1, <1>2, <1>3, FinalizersAssumption

LEMMA HeadTail ==
  ASSUME NEW s \in Seq(Groups), s # <<>>
  PROVE  Head(s) \in Groups /\ Tail(s) \in Seq(Groups)
BY HeadTailProperties

(* What entering a loop leaves in pc and todo.                             *)
ControlOK(inner) ==
  /\ todo' \in Seq(Groups)
  /\ pc' \in inner
  /\ pc' \notin {"middle", "finish"} => todo' # <<>>
  /\ pc' \in {"deleteRole", "syncRole"} => Head(todo)' \in Permissions

LEMMA EnterCleanupOK ==
  ASSUME NEW rest \in Seq(Groups), EnterCleanup(rest)
  PROVE  ControlOK({"deleteRole", "deleteBinding", "middle"})
BY DEF EnterCleanup, Enter, ControlOK

LEMMA EnterProvisionOK ==
  ASSUME NEW rest \in Seq(Groups), EnterProvision(rest)
  PROVE  ControlOK({"syncRole", "syncBinding", "finish"})
BY DEF EnterProvision, Enter, ControlOK

LEMMA NextCleanupOK ==
  ASSUME todo \in Seq(Groups), todo # <<>>, NEW m \in CheCluster,
         NextCleanup(m) \/ FailCleanup(m)
  PROVE  ControlOK({"deleteRole", "deleteBinding", "middle"})
<1> DEFINE rest ==
      IF Head(todo) \in Permissions /\ Tail(todo) = <<>> THEN RolesToClean(m)
      ELSE IF Head(todo) \in Permissions \/ Deleting(m) THEN Tail(todo)
      ELSE <<>>
<1>1. RolesToClean(m) \in Seq(Groups)
  BY ListTypes, EmptySeq DEF RolesToClean, CheCluster
<1>2. rest \in Seq(Groups)
  BY <1>1, HeadTail, EmptySeq
<1>3. EnterCleanup(rest) \/ EnterCleanup(RolesToClean(m))
  BY DEF NextCleanup, FailCleanup
<1> QED
  BY <1>1, <1>2, <1>3, EnterCleanupOK

LEMMA NextProvisionOK ==
  ASSUME todo \in Seq(Groups), todo # <<>>, NEW m \in CheCluster,
         NextProvision(m)
  PROVE  ControlOK({"syncRole", "syncBinding", "finish"})
<1> DEFINE rest == IF Head(todo) \in Permissions /\ Tail(todo) = <<>>
                   THEN m.roles ELSE Tail(todo)
<1>1. rest \in Seq(Groups)
  BY ListTypes, HeadTail DEF CheCluster
<1>2. EnterProvision(rest)
  BY DEF NextProvision
<1> QED
  BY <1>1, <1>2, EnterProvisionOK

-----------------------------------------------------------------------------
(* A copy with one finalizer's count changed.                              *)
LEMMA WithFinalizerOK ==
  ASSUME NEW c \in CheCluster, NEW h \in Groups, NEW n \in Nat
  PROVE  /\ WithFinalizer(c, h, n) \in CheCluster
         /\ WithFinalizer(c, h, n).state = c.state
         /\ WithFinalizer(c, h, n).rv = c.rv
         /\ \A g \in Groups :
              WithFinalizer(c, h, n).fin[g] = IF g = h THEN n ELSE c.fin[g]
BY DEF WithFinalizer, CheCluster

(* The other changes a CR undergoes.                                       *)
LEMMA Touched ==
  ASSUME NEW c \in CheCluster, NEW r \in Nat
  PROVE  /\ [c EXCEPT !.rv = r] \in CheCluster
         /\ [c EXCEPT !.rv = r].state = c.state
         /\ [c EXCEPT !.rv = r].rv = r
         /\ [c EXCEPT !.rv = r].fin = c.fin
BY DEF CheCluster

LEMMA Marked ==
  ASSUME NEW c \in CheCluster, NEW r \in Nat
  PROVE  /\ [c EXCEPT !.state = "deleting", !.rv = r] \in CheCluster
         /\ [c EXCEPT !.state = "deleting", !.rv = r].state = "deleting"
         /\ [c EXCEPT !.state = "deleting", !.rv = r].rv = r
         /\ [c EXCEPT !.state = "deleting", !.rv = r].fin = c.fin
BY DEF CheCluster

LEMMA Edited ==
  ASSUME NEW c \in CheCluster, NEW r \in Nat, NEW l \in RoleLists
  PROVE  /\ [c EXCEPT !.roles = l, !.rv = r] \in CheCluster
         /\ [c EXCEPT !.roles = l, !.rv = r].state = c.state
         /\ [c EXCEPT !.roles = l, !.rv = r].rv = r
         /\ [c EXCEPT !.roles = l, !.rv = r].fin = c.fin
BY DEF CheCluster

LEMMA Created ==
  ASSUME NEW c \in CheCluster, NEW r \in Nat, NEW l \in RoleLists
  PROVE  /\ [c EXCEPT !.state = "live", !.rv = r, !.roles = l] \in CheCluster
         /\ [c EXCEPT !.state = "live", !.rv = r, !.roles = l].state = "live"
         /\ [c EXCEPT !.state = "live", !.rv = r, !.roles = l].rv = r
         /\ [c EXCEPT !.state = "live", !.rv = r, !.roles = l].fin = c.fin
BY DEF CheCluster

(* What the API server stores is a CR.                                     *)
LEMMA StoreOK ==
  ASSUME TypeCR, NEW new \in CheCluster
  PROVE  /\ Stored(new) \in CheCluster
         /\ Store(new) => cr' \in CheCluster /\ revision' \in Nat
<1>1. cr \in CheCluster /\ revision \in Nat
  BY DEF TypeCR
<1>2. [new EXCEPT !.rv = revision + 1] \in CheCluster
  BY <1>1 DEF CheCluster
<1>3. Stored(new) \in CheCluster
  BY <1>1, <1>2 DEF Stored
<1>4. ASSUME Store(new) PROVE cr' \in CheCluster /\ revision' \in Nat
  BY <1>1, <1>3, <1>4, ListTypes DEF Store
<1> QED
  BY <1>3, <1>4

(* The copy DeleteFinalizer writes, and the one AppendFinalizer writes.    *)
Dropped  == WithFinalizer(mem, Head(todo), 0)
Appended == WithFinalizer(mem, Head(todo), mem.fin[Head(todo)] + 1)

LEMMA CopyOK ==
  ASSUME TypeCR, TypeControl, pc \in CleanupPCs \cup ProvisionPCs
  PROVE  /\ todo \in Seq(Groups) /\ todo # <<>> /\ Head(todo) \in Groups
         /\ Dropped \in CheCluster /\ Appended \in CheCluster
<1>1. todo \in Seq(Groups) /\ todo # <<>> /\ Head(todo) \in Groups
  BY HeadTail DEF TypeControl
<1>2. mem \in CheCluster /\ mem.fin[Head(todo)] + 1 \in Nat
  BY <1>1 DEF TypeCR, CheCluster
<1> QED
  BY <1>1, <1>2, WithFinalizerOK DEF Dropped, Appended

-----------------------------------------------------------------------------
(* The type invariant, one part at a time.                                 *)

LEMMA InitType == Init => TypeOK
<1> SUFFICES ASSUME Init PROVE TypeOK
  OBVIOUS
<1>1. TypeCR
  BY ListTypes DEF Init, TypeCR
<1>2. TypeControl
  BY EmptySeq DEF Init, TypeControl, PCs, CleanupPCs, ProvisionPCs
<1>3. TypeBounds
  BY FinalizersAssumption DEF Init, TypeBounds
<1> QED
  BY <1>1, <1>2, <1>3 DEF Init, TypeOK

LEMMA NextTypeBounds == TypeBounds /\ [Next]_vars => TypeBounds'
<1> SUFFICES ASSUME TypeBounds, [Next]_vars PROVE TypeBounds'
  OBVIOUS
<1> USE DEF TypeBounds, store, user, Fault
<1>1. CASE User
  <2>1. CASE CreateCR
    BY <2>1 DEF CreateCR
  <2>2. CASE DeleteCR \/ EditRoles
    <3>1. UserOp
      BY <2>2 DEF DeleteCR, EditRoles
    <3> QED
      BY <3>1 DEF UserOp
  <2> QED
    BY <1>1, <2>1, <2>2 DEF User
<1>2. CASE CacheSync \/ Resync \/ Restart
  BY <1>2 DEF CacheSync, Resync, Restart
<1>3. CASE Start \/ ReturnEarly \/ Proceed \/ UpdateCheCRSpec \/ UpdateCheCRStatus
  BY <1>3 DEF Start, ReturnEarly, Proceed, UpdateCheCRSpec,
              UpdateCheCRStatus
<1>4. CASE Cleanup
  BY <1>4 DEF Cleanup, DeleteClusterRole, DeleteClusterRoleBinding,
              DeleteFinalizer, ReloadAndDelete
<1>5. CASE Provision
  BY <1>5 DEF Provision, SyncClusterRole, SyncClusterRoleBinding,
              AppendFinalizer, ReloadAndAppend, FailProvision
<1>6. CASE UNCHANGED vars
  BY <1>6 DEF vars
<1> QED
  BY <1>1, <1>2, <1>3, <1>4, <1>5, <1>6 DEF Next, Reconcile

LEMMA NextObjects ==
  TypeControl /\ objects \subseteq Objects /\ [Next]_vars => objects' \subseteq Objects
<1> SUFFICES ASSUME TypeControl, objects \subseteq Objects, [Next]_vars
             PROVE  objects' \subseteq Objects
  OBVIOUS
<1>1. CASE SyncClusterRole
  <2>1. Role(Head(todo)) \in Objects
    BY <1>1 DEF SyncClusterRole, TypeControl, Objects
  <2> QED
    BY <1>1, <2>1 DEF SyncClusterRole, Synced, FailProvision
<1>2. CASE SyncClusterRoleBinding
  <2>1. Binding(Head(todo)) \in Objects
    BY <1>2, HeadTail
    DEF SyncClusterRoleBinding, TypeControl, Objects, ProvisionPCs
  <2> QED
    BY <1>2, <2>1 DEF SyncClusterRoleBinding, Synced, FailProvision
<1>3. CASE DeleteClusterRole \/ DeleteClusterRoleBinding
  BY <1>3 DEF DeleteClusterRole, DeleteClusterRoleBinding
<1>4. CASE UNCHANGED objects
  BY <1>4
<1> QED
  BY <1>1, <1>2, <1>3, <1>4 DEF Next, User, CreateCR, DeleteCR, EditRoles, UserOp,
     CacheSync, Resync, Restart, Reconcile, Start, ReturnEarly, Proceed,
     UpdateCheCRSpec, UpdateCheCRStatus, Cleanup, DeleteFinalizer,
     ReloadAndDelete, Provision, AppendFinalizer, ReloadAndAppend,
     FailProvision, vars

LEMMA NextTypeCR == TypeCR /\ TypeControl /\ [Next]_vars => TypeCR'
<1> SUFFICES ASSUME TypeCR, TypeControl, [Next]_vars PROVE TypeCR'
  OBVIOUS
<1> USE ListTypes DEF store, user, Leave
<1>1. /\ cr \in CheCluster /\ mem \in CheCluster /\ cache \in CheCluster
      /\ revision \in Nat /\ revision + 1 \in Nat
  BY DEF TypeCR
<1>2. CASE CreateCR
  <2>1. PICK l \in RoleLists :
          cr' = [NoCR EXCEPT !.state = "live", !.rv = revision + 1, !.roles = l]
    BY <1>2 DEF CreateCR
  <2>2. cr' \in CheCluster
    BY <1>1, <2>1, Created
  <2> QED
    BY <1>1, <1>2, <2>2 DEF CreateCR, worker, TypeCR
<1>3. CASE DeleteCR
  <2>1. [cr EXCEPT !.state = "deleting", !.rv = revision + 1] \in CheCluster
    BY <1>1, Marked
  <2> QED
    BY <1>1, <1>3, <2>1 DEF DeleteCR, UserOp, worker, TypeCR
<1>4. CASE EditRoles
  <2>1. PICK l \in RoleLists : cr' = [cr EXCEPT !.roles = l, !.rv = revision + 1]
    BY <1>4 DEF EditRoles
  <2>2. cr' \in CheCluster
    BY <1>1, <2>1, Edited
  <2> QED
    BY <1>1, <1>4, <2>2 DEF EditRoles, UserOp, worker, TypeCR
<1>5. CASE CacheSync \/ Resync \/ Restart
  BY <1>1, <1>5 DEF CacheSync, Resync, Restart, TypeCR
<1>6. CASE Start \/ ReturnEarly \/ Proceed
  BY <1>1, <1>6 DEF Start, ReturnEarly, Done, Requeue, Proceed, TypeCR
<1>7. CASE UpdateCheCRSpec
  <2>1. [mem EXCEPT !.rv = revision + 1] \in CheCluster
    BY <1>1, Touched
  <2> QED
    BY <1>1, <1>7, <2>1 DEF UpdateCheCRSpec, Requeue, TypeCR
<1>8. CASE UpdateCheCRStatus
  <2>1. [cr EXCEPT !.rv = revision + 1] \in CheCluster
    BY <1>1, Touched
  <2> QED
    BY <1>1, <1>8, <2>1 DEF UpdateCheCRStatus, Requeue, TypeCR
<1>9. CASE DeleteClusterRole \/ DeleteClusterRoleBinding \/ ReloadAndDelete
  BY <1>1, <1>9
  DEF DeleteClusterRole, DeleteClusterRoleBinding, ReloadAndDelete, TypeCR
<1>10. CASE DeleteFinalizer
  <2>1. Dropped \in CheCluster
    BY <1>10, CopyOK DEF DeleteFinalizer, CleanupPCs
  <2>2. \/ Store(Dropped) /\ mem' = Stored(Dropped)
        \/ UNCHANGED <<cr, revision>> /\ mem' = Dropped
        \/ Store(Dropped) /\ mem' = Dropped
    BY <1>10 DEF DeleteFinalizer, StoreUnanswered, Dropped
  <2>3. UNCHANGED cache
    BY <1>10 DEF DeleteFinalizer
  <2> QED
    BY <1>1, <2>1, <2>2, <2>3, StoreOK DEF TypeCR
<1>11. CASE SyncClusterRole \/ SyncClusterRoleBinding \/ ReloadAndAppend
  BY <1>1, <1>11 DEF SyncClusterRole, SyncClusterRoleBinding, FailProvision,
     Requeue, ReloadAndAppend, TypeCR
<1>12. CASE AppendFinalizer
  <2>1. Appended \in CheCluster
    BY <1>12, CopyOK DEF AppendFinalizer, ProvisionPCs
  <2>2. \/ Store(Appended) /\ mem' = Stored(Appended)
        \/ UNCHANGED <<cr, revision>> /\ mem' \in {Appended, NoCR}
        \/ Store(Appended) /\ mem' = NoCR
    BY <1>12 DEF AppendFinalizer, StoreUnanswered, Appended, FailProvision, Requeue
  <2>3. UNCHANGED cache
    BY <1>12 DEF AppendFinalizer
  <2> QED
    BY <1>1, <2>1, <2>2, <2>3, StoreOK DEF TypeCR
<1>13. CASE UNCHANGED vars
  BY <1>1, <1>13 DEF TypeCR, vars
<1> QED
  BY <1>2, <1>3, <1>4, <1>5, <1>6, <1>7, <1>8, <1>9, <1>10, <1>11, <1>12, <1>13
  DEF Next, User, Reconcile, Cleanup, Provision

LEMMA NextTypeControl == TypeCR /\ TypeControl /\ [Next]_vars => TypeControl'
<1> SUFFICES ASSUME TypeCR, TypeControl, [Next]_vars PROVE TypeControl'
  OBVIOUS
<1> USE DEF PCs, CleanupPCs, ProvisionPCs
<1> DEFINE cleanup   == {"deleteRole", "deleteBinding", "middle"}
           provision == {"syncRole", "syncBinding", "finish"}
<1>1. mem \in CheCluster /\ cache \in CheCluster /\ queued \in BOOLEAN
  BY DEF TypeCR, TypeControl
<1>2. ASSUME ControlOK(cleanup), UNCHANGED queued PROVE TypeControl'
  BY <1>2 DEF ControlOK, TypeControl
<1>3. ASSUME ControlOK(provision), UNCHANGED queued PROVE TypeControl'
  BY <1>3 DEF ControlOK, TypeControl
<1>4. ASSUME Done \/ Requeue \/ (Leave /\ queued' = Exists(cr)) PROVE TypeControl'
  BY <1>4, EmptySeq DEF Done, Requeue, Leave, TypeControl, Exists
<1>5. CASE UNCHANGED <<pc, todo, queued>>
  BY <1>5 DEF TypeControl
<1>6. CASE User \/ UpdateCheCRSpec \/ UpdateCheCRStatus \/ ReturnEarly \/ Restart
           \/ UNCHANGED vars
  BY <1>4, <1>5, <1>6 DEF User, CreateCR, DeleteCR, EditRoles, UserOp, worker,
     UpdateCheCRSpec, UpdateCheCRStatus, ReturnEarly, Restart, vars
<1>7. CASE CacheSync \/ Resync
  BY <1>7 DEF CacheSync, Resync, TypeControl
<1>8. CASE Start
  <2>1. CASE ~Exists(cache)
    BY <1>8, <2>1 DEF Start, TypeControl
  <2>2. CASE Exists(cache)
    <3> DEFINE rest == IF Deleting(cache) THEN CleanupOrder ELSE <<>>
    <3>1. rest \in Seq(Groups) /\ EnterCleanup(rest)
      BY <1>8, <2>2, ListTypes, EmptySeq DEF Start
    <3>2. ControlOK(cleanup)
      BY <3>1, EnterCleanupOK
    <3> QED
      BY <1>8, <3>2 DEF Start, ControlOK, TypeControl
  <2> QED
    BY <2>1, <2>2
<1>9. CASE Cleanup
  <2>1. /\ todo \in Seq(Groups) /\ todo # <<>>
        /\ Dropped \in CheCluster /\ UNCHANGED queued
    BY <1>9, CopyOK DEF Cleanup, DeleteClusterRole, DeleteClusterRoleBinding,
       DeleteFinalizer, ReloadAndDelete
  <2>2. \/ pc' \in {"deleteBinding", "drop", "reloadDrop"} /\ UNCHANGED todo
        \/ NextCleanup(mem) \/ FailCleanup(mem)
        \/ NextCleanup(Dropped) \/ FailCleanup(Dropped)
    BY <1>9 DEF Cleanup, DeleteClusterRole, DeleteClusterRoleBinding, EnterDrop,
       DeleteFinalizer, ReloadAndDelete, Dropped
  <2>3. CASE pc' \in {"deleteBinding", "drop", "reloadDrop"} /\ UNCHANGED todo
    BY <2>1, <2>3 DEF TypeControl
  <2> QED
    BY <1>1, <1>2, <2>1, <2>2, <2>3, NextCleanupOK
<1>10. CASE Proceed
  <2>1. ControlOK(provision) /\ UNCHANGED queued
    BY <1>10, ListTypes, EnterProvisionOK DEF Proceed
  <2> QED
    BY <1>3, <2>1
<1>11. CASE Provision
  <2>1. /\ todo \in Seq(Groups) /\ todo # <<>> /\ Appended \in CheCluster
    BY <1>11, CopyOK DEF Provision, SyncClusterRole, SyncClusterRoleBinding,
       AppendFinalizer, ReloadAndAppend
  <2>2. \/ /\ pc' \in {"syncBinding", "append", "reloadAppend"}
           /\ UNCHANGED <<todo, queued>>
        \/ NextProvision(mem) /\ UNCHANGED queued
        \/ NextProvision(Appended) /\ UNCHANGED queued
        \/ Requeue
    BY <1>11 DEF Provision, SyncClusterRole, SyncClusterRoleBinding,
       AppendFinalizer, ReloadAndAppend, FailProvision, Appended
  <2>3. CASE /\ pc' \in {"syncBinding", "append", "reloadAppend"}
             /\ UNCHANGED <<todo, queued>>
    BY <2>1, <2>3 DEF TypeControl
  <2> QED
    BY <1>1, <1>3, <1>4, <2>1, <2>2, <2>3, NextProvisionOK
<1> QED
  BY <1>6, <1>7, <1>8, <1>9, <1>10, <1>11 DEF Next, Reconcile

(* Every reachable state is well typed: the CR, its copies and the control *)
(* state of the worker, in particular that no loop body runs on an empty   *)
(* rest, and that a ClusterRole is only asked for a permission group.      *)
THEOREM TypeCorrect == Spec => []TypeOK
<1>1. TypeOK /\ [Next]_vars => TypeOK'
  BY NextTypeBounds, NextObjects, NextTypeCR, NextTypeControl DEF TypeOK
<1> QED
  BY InitType, <1>1, PTL DEF Spec

-----------------------------------------------------------------------------
(* HeldUntilGone, when no read of an object is mistaken for its absence.    *)

LEMMA Fields ==
  ASSUME NEW c \in CheCluster
  PROVE  /\ c.rv \in Nat
         /\ c.state \in {"absent", "live", "deleting"}
         /\ \A g \in Groups : c.fin[g] \in Nat
         /\ c.fin = NoFinalizers <=> \A g \in Groups : c.fin[g] = 0
BY DEF CheCluster, NoFinalizers

LEMMA NoCRFields ==
  NoCR.state = "absent" /\ NoCR.rv = 0 /\ NoCR.fin = NoFinalizers
BY DEF NoCR

LEMMA InitSafe == Init => HeldInv
<1> SUFFICES ASSUME Init PROVE HeldInv
  OBVIOUS
<1>1. ~Exists(cr) /\ cr.rv = 0 /\ cache = cr /\ mem = cr /\ revision = 0 /\ pc = "idle"
      /\ cr.state = "absent"
  BY NoCRFields DEF Init, Exists
<1> QED
  BY <1>1 DEF HeldInv, Revisions, CopiesAgree, NoneToDrop, CleanedInCopy,
     CleanedInLoop, Current, Exists, Deleting, CleanupPCs

(* The user changes the CR: every copy is out of date.                     *)
LEMMA UserSafe ==
  ASSUME TypeOK, HeldInv, User
  PROVE  HeldInv'
<1>1. /\ cr \in CheCluster /\ mem \in CheCluster /\ cache \in CheCluster
      /\ revision \in Nat /\ revision + 1 \in Nat
  BY DEF TypeOK, TypeCR
<1>2. UNCHANGED <<cache, mem, pc, todo, objects>> /\ revision' = revision + 1
  BY DEF User, CreateCR, DeleteCR, EditRoles, UserOp, worker
<1>3. \/ cr'.rv = 0 /\ cr'.state = "absent"
      \/ cr'.rv = revision + 1 /\ cr'.state = "live" /\ cr'.fin = NoFinalizers
      \/ cr'.rv = revision + 1 /\ cr'.state = "deleting"
      \/ cr'.rv = revision + 1 /\ cr'.state = cr.state /\ cr'.fin = cr.fin
         /\ Exists(cr)
  <2>1. CASE CreateCR
    <3>1. PICK l \in RoleLists :
            cr' = [NoCR EXCEPT !.state = "live", !.rv = revision + 1, !.roles = l]
      BY <2>1 DEF CreateCR
    <3>2. NoCR \in CheCluster /\ revision + 1 \in Nat
      BY <1>1, ListTypes
    <3>3. cr'.state = "live" /\ cr'.rv = revision + 1 /\ cr'.fin = NoCR.fin
      BY <3>1, <3>2 DEF CheCluster
    <3> QED
      BY <3>3, NoCRFields
  <2>2. CASE DeleteCR
    BY <1>1, <2>2, NoCRFields, Marked DEF DeleteCR
  <2>3. CASE EditRoles
    <3>1. PICK l \in RoleLists : cr' = [cr EXCEPT !.roles = l, !.rv = revision + 1]
      BY <2>3 DEF EditRoles
    <3>2. cr \in CheCluster /\ revision + 1 \in Nat
      BY <1>1
    <3>3. cr'.state = cr.state /\ cr'.rv = revision + 1 /\ cr'.fin = cr.fin
      BY <3>1, <3>2, Edited
    <3> QED
      BY <2>3, <3>3 DEF EditRoles, UserOp
  <2> QED
    BY <2>1, <2>2, <2>3 DEF User
<1>4. /\ cr.rv <= revision /\ cache.rv <= revision /\ mem.rv <= revision
      /\ Exists(cr) <=> cr.rv > 0
      /\ Exists(cache) <=> cache.rv > 0
      /\ Exists(mem) <=> mem.rv > 0
  BY DEF HeldInv, Revisions
<1>5. ~Current(cache)' /\ ~Current(mem)'
  BY <1>1, <1>2, <1>3, <1>4, Fields DEF Current, Exists
<1>6. Revisions'
  BY <1>1, <1>2, <1>3, <1>4, Fields DEF Revisions, Exists
<1>7. CopiesAgree' /\ CleanedInCopy'
  BY <1>5 DEF CopiesAgree, CleanedInCopy
<1>8. NoneToDrop'
  BY <1>1, <1>2, <1>3, <1>5 DEF HeldInv, NoneToDrop, Deleting
<1>9. CleanedInLoop'
  BY <1>2 DEF HeldInv, CleanedInLoop, ObjectsOf
<1> QED
  BY <1>6, <1>7, <1>8, <1>9 DEF HeldInv

(* The cache, or the worker, forgets what it had.                          *)
LEMMA CacheSafe ==
  ASSUME TypeOK, HeldInv, CacheSync
  PROVE  HeldInv'
<1>1. UNCHANGED <<cr, revision, mem, pc, todo, objects>> /\ cache' = cr
  BY DEF CacheSync, store
<1> QED
  BY <1>1 DEF HeldInv, Revisions, CopiesAgree, NoneToDrop, CleanedInCopy,
     CleanedInLoop, Current, Exists, Deleting, ObjectsOf

LEMMA LeaveSafe ==
  ASSUME TypeOK, HeldInv, Leave, UNCHANGED <<cr, revision, objects>>,
         cache' \in {cache, cr}
  PROVE  HeldInv'
<1>1. mem'.rv = 0 /\ mem'.state = "absent" /\ pc' = "idle"
  BY NoCRFields DEF Leave
<1>2. Revisions'
  BY <1>1, Fields DEF HeldInv, Revisions, Exists, TypeOK, TypeCR
<1>3. ~Current(mem)'
  BY <1>1, <1>2 DEF Revisions, Current
<1> QED
  BY <1>1, <1>2, <1>3 DEF HeldInv, CopiesAgree, NoneToDrop, CleanedInCopy,
     CleanedInLoop, Current, Exists, Deleting, CleanupPCs

(* Where a loop of the cleanup begins or goes on.                          *)
LEMMA EnterCleanupPC ==
  ASSUME NEW rest, EnterCleanup(rest)
  PROVE  /\ pc' \in {"deleteRole", "deleteBinding", "middle"}
         /\ pc' = "deleteBinding" => Head(todo)' \notin Permissions
BY DEF EnterCleanup, Enter

LEMMA NextCleanupPC ==
  ASSUME NEW m, NextCleanup(m) \/ FailCleanup(m)
  PROVE  /\ pc' \in {"deleteRole", "deleteBinding", "middle"}
         /\ pc' = "deleteBinding" => Head(todo)' \notin Permissions
BY EnterCleanupPC DEF NextCleanup, FailCleanup

LEMMA StartSafe ==
  ASSUME TypeOK, HeldInv, Start
  PROVE  HeldInv'
<1>1. UNCHANGED <<cr, revision, cache, objects>> /\ mem' = cache /\ pc = "idle"
  BY DEF Start, store
<1>2. /\ pc' \in {"idle", "middle", "deleteRole", "deleteBinding"}
      /\ pc' = "deleteBinding" => Head(todo)' \notin Permissions
      /\ pc' \in CleanupPCs => Deleting(cache)
  BY <1>1, EnterCleanupPC DEF Start, CleanupPCs, EnterCleanup, Enter
<1>3. CleanedInLoop'
  BY <1>2 DEF CleanedInLoop
<1>4. NoneToDrop'
  <2>1. Current(cache) => cache = cr
    BY DEF HeldInv, CopiesAgree
  <2>2. \A g \in Groups : cr.fin[g] <= cr.fin[g]
    BY Fields DEF TypeOK, TypeCR
  <2>3. Current(mem)' => cache = cr
    BY <1>1, <2>1 DEF Current, Exists
  <2> QED
    BY <1>1, <1>2, <2>2, <2>3 DEF HeldInv, NoneToDrop, Deleting
<1>5. Revisions' /\ CopiesAgree' /\ CleanedInCopy'
  BY <1>1 DEF HeldInv, Revisions, CopiesAgree, CleanedInCopy, Current, Exists
<1> QED
  BY <1>3, <1>4, <1>5 DEF HeldInv

(* What an accepted write of a copy that agrees with the CR does to it.    *)
LEMMA StoreFields ==
  ASSUME TypeCR, NEW new \in CheCluster, new.state = cr.state,
         Answer(new) = "OK", Store(new)
  PROVE  /\ new.rv = cr.rv /\ Exists(cr)
         /\ \/ cr' = NoCR /\ Deleting(cr) /\ new.fin = NoFinalizers
            \/ cr' = Stored(new) /\ cr'.fin = new.fin
         /\ Stored(new).state = cr.state /\ Stored(new).fin = new.fin
         /\ \/ Stored(new) = cr /\ new = cr /\ revision' = revision
            \/ Stored(new).rv = revision + 1 /\ revision' = revision + 1
<1>1. new.rv = cr.rv /\ Exists(cr)
  BY DEF Answer
<1>2. cr \in CheCluster /\ revision + 1 \in Nat
  BY DEF TypeCR
<1>3. CASE new = cr
  BY <1>1, <1>3 DEF Store, Stored
<1>4. CASE new # cr
  <2> DEFINE s == [new EXCEPT !.rv = revision + 1]
  <2>1. s.state = new.state /\ s.rv = revision + 1 /\ s.fin = new.fin
    BY <1>2, Touched
  <2>2. Stored(new) = s /\ revision' = revision + 1
    BY <1>4 DEF Stored, Store
  <2>3. (cr' = NoCR /\ Deleting(cr) /\ new.fin = NoFinalizers) \/ cr' = s
    BY <2>2 DEF Store
  <2> QED
    BY <1>1, <2>1, <2>2, <2>3
<1> QED
  BY <1>3, <1>4

(* The write replaces the CR and the copy is kept, is forgotten, or stays  *)
(* as it was because the answer was lost.                                  *)
LEMMA WriteRevisions ==
  ASSUME TypeOK, HeldInv, NEW new \in CheCluster, new.state = mem.state,
         new.rv = mem.rv, Answer(new) = "OK", Store(new),
         mem' \in {Stored(new), new, NoCR}, UNCHANGED cache
  PROVE  /\ Revisions' /\ CopiesAgree'
         /\ Current(mem)' => mem'.fin = cr'.fin
<1>1. /\ cr \in CheCluster /\ mem \in CheCluster /\ cache \in CheCluster
      /\ revision \in Nat /\ TypeCR
  BY DEF TypeOK, TypeCR
<1>2. new.rv = cr.rv /\ Exists(cr)
  BY DEF Answer
<1>3. new.state = cr.state
  BY <1>2 DEF HeldInv, CopiesAgree, Current
<1>4. /\ \/ cr' = NoCR /\ Deleting(cr) /\ new.fin = NoFinalizers
         \/ cr' = Stored(new) /\ cr'.fin = new.fin
      /\ Stored(new).state = cr.state /\ Stored(new).fin = new.fin
      /\ \/ Stored(new) = cr /\ new = cr /\ revision' = revision
         \/ Stored(new).rv = revision + 1 /\ revision' = revision + 1
  BY <1>1, <1>3, StoreFields
<1>5. /\ cr.rv <= revision /\ cache.rv <= revision /\ mem.rv <= revision
      /\ Exists(cr) <=> cr.rv > 0
      /\ Exists(cache) <=> cache.rv > 0
      /\ Exists(mem) <=> mem.rv > 0
      /\ Current(cache) => cache = cr
  BY DEF HeldInv, Revisions, CopiesAgree
<1>6. /\ cr.rv \in Nat /\ cache.rv \in Nat /\ mem.rv \in Nat
  BY <1>1, Fields
<1>7. Stored(new).rv <= revision' /\ Stored(new).rv > 0 /\ Exists(Stored(new))
  BY <1>1, <1>2, <1>4, <1>5, <1>6 DEF Exists
<1>8. Revisions'
  BY <1>1, <1>2, <1>3, <1>4, <1>5, <1>6, <1>7, NoCRFields DEF Revisions, Exists
<1>9. CASE cr' = NoCR
  <2>1. ~Exists(cr)'
    BY <1>9, NoCRFields DEF Exists
  <2> QED
    BY <1>8, <2>1 DEF CopiesAgree, Current
<1>10. CASE cr' = Stored(new)
  <2>1. Current(mem)' => mem' = cr'
    <3>1. CASE mem' = Stored(new)
      BY <1>10, <3>1
    <3>2. CASE mem' = new
      BY <1>2, <1>1, <1>4, <1>5, <1>6, <1>10, <3>2 DEF Current
    <3>3. CASE mem' = NoCR
      BY <1>7, <1>10, <3>3, NoCRFields DEF Current
    <3> QED
      BY <3>1, <3>2, <3>3
  <2>2. Current(cache)' => cache' = cr'
    <3>1. CASE Stored(new) = cr
      BY <1>2, <1>5, <1>10, <3>1 DEF Current
    <3>2. CASE Stored(new).rv = revision + 1
      BY <1>1, <1>5, <1>6, <1>10, <3>2 DEF Current
    <3> QED
      BY <1>4, <3>1, <3>2
  <2> QED
    BY <1>8, <2>1, <2>2 DEF CopiesAgree
<1> QED
  BY <1>4, <1>9, <1>10

(* DeleteClusterRole, DeleteClusterRoleBinding and the reload.             *)
LEMMA DeleteSafe ==
  ASSUME GetMayFail = FALSE, TypeOK, HeldInv,
         DeleteClusterRole \/ DeleteClusterRoleBinding
  PROVE  HeldInv'
<1>1. UNCHANGED <<cr, revision, cache, mem>> /\ objects' \subseteq objects
      /\ pc \in CleanupPCs
  BY DEF DeleteClusterRole, DeleteClusterRoleBinding, store, CleanupPCs
<1>2. Revisions' /\ CopiesAgree' /\ CleanedInCopy'
  BY <1>1 DEF HeldInv, Revisions, CopiesAgree, CleanedInCopy, Current, Exists,
     Deleting, ObjectsOf
<1>3. NoneToDrop'
  BY <1>1 DEF HeldInv, NoneToDrop, Current, Exists, Deleting
<1>4. CASE DeleteClusterRole
  <2>1. \/ /\ objects' = objects \ {Role(Head(todo))}
           /\ pc' = "deleteBinding" /\ todo' = todo
        \/ FailCleanup(mem)
    BY <1>4 DEF DeleteClusterRole
  <2>2. CleanedInLoop'
    BY <2>1, NextCleanupPC DEF CleanedInLoop
  <2> QED
    BY <1>2, <1>3, <2>2 DEF HeldInv
<1>5. CASE DeleteClusterRoleBinding
  <2>1. \/ NextCleanup(mem) \/ FailCleanup(mem)
        \/ /\ pc' = "drop" /\ todo' = todo
           /\ objects' = objects \ {Binding(Head(todo))} \/ Head(todo) \notin Permissions
    BY <1>5 DEF DeleteClusterRoleBinding, EnterDrop
  <2>2. Head(todo) \in Permissions => Role(Head(todo)) \notin objects
    BY <1>5 DEF HeldInv, CleanedInLoop, DeleteClusterRoleBinding
  <2>3. CleanedInLoop'
    BY <1>1, <2>1, <2>2, NextCleanupPC DEF CleanedInLoop, ObjectsOf
  <2> QED
    BY <1>2, <1>3, <2>3 DEF HeldInv
<1> QED
  BY <1>4, <1>5

LEMMA ReloadSafe ==
  ASSUME TypeOK, HeldInv, ReloadAndDelete \/ ReloadAndAppend, Exists(cache)
  PROVE  HeldInv'
<1>1. /\ UNCHANGED <<cr, revision, cache, objects, todo>> /\ mem' = cache
      /\ \/ pc = "reloadDrop" /\ pc' = "drop"
         \/ pc = "reloadAppend" /\ pc' = "append"
  BY DEF ReloadAndDelete, ReloadAndAppend, store
<1>2. Current(cache) => cache = cr
  BY DEF HeldInv, CopiesAgree
<1>3. Current(mem)' => cache = cr
  BY <1>1, <1>2 DEF Current, Exists
<1>4. \A g \in Groups : cr.fin[g] <= cr.fin[g]
  BY Fields DEF TypeOK, TypeCR
<1>5. Revisions' /\ CopiesAgree' /\ CleanedInCopy'
  BY <1>1, <1>3 DEF HeldInv, Revisions, CopiesAgree, CleanedInCopy, Current, Exists
<1>6. NoneToDrop'
  BY <1>1, <1>3, <1>4 DEF HeldInv, NoneToDrop, Deleting, CleanupPCs
<1>7. CleanedInLoop'
  BY <1>1 DEF HeldInv, CleanedInLoop, ObjectsOf
<1> QED
  BY <1>5, <1>6, <1>7 DEF HeldInv

(* A write the server accepts: no live CR loses a finalizer by it, unless   *)
(* the copy that is written has it.                                        *)
LEMMA WriteSafe ==
  ASSUME TypeOK, HeldInv, NEW new \in CheCluster, new.state = mem.state,
         new.rv = mem.rv, Answer(new) = "OK", Store(new),
         mem' \in {Stored(new), new, NoCR}, UNCHANGED cache,
         pc' \in CleanupPCs =>
           /\ pc \in CleanupPCs
           /\ \A g \in Groups : new.fin[g] <= mem.fin[g],
         CleanedInLoop'
  PROVE  HeldInv'
<1>1. /\ cr \in CheCluster /\ mem \in CheCluster /\ TypeCR
  BY DEF TypeOK, TypeCR
<1>2. mem.rv = cr.rv /\ Exists(cr) /\ Current(mem)
  BY DEF Answer, Current
<1>3. new.state = cr.state
  BY <1>2 DEF HeldInv, CopiesAgree
<1>4. \/ cr' = NoCR
      \/ cr'.state = cr.state /\ cr'.fin = new.fin
  BY <1>1, <1>3, StoreFields
<1>5. Revisions' /\ CopiesAgree' /\ (Current(mem)' => mem'.fin = cr'.fin)
  BY WriteRevisions
<1>6. \A g \in Groups : cr'.fin[g] \in Nat
  BY <1>1, StoreOK, Fields
<1>7. CleanedInCopy'
  <2>1. ASSUME NEW g \in Permissions, Current(mem)', cr'.fin[g] > 0, mem'.fin[g] = 0
        PROVE  FALSE
    BY <1>5, <2>1
  <2> QED
    BY <2>1 DEF CleanedInCopy
<1>8. NoneToDrop'
  <2>1. ~((cr'.state = "live") /\ Deleting(cache)')
    BY <1>2, <1>4, NoCRFields DEF HeldInv, NoneToDrop, Deleting
  <2>2. ASSUME cr'.state = "live", pc' \in CleanupPCs
        PROVE  cr'.fin = NoFinalizers
    <3>1. cr.state = "live" /\ cr'.fin = new.fin
      BY <1>4, <2>2, NoCRFields
    <3>2. \A g \in Groups : cr.fin[g] = 0 /\ mem.fin[g] <= cr.fin[g]
      BY <1>1, <1>2, <2>2, <3>1, Fields DEF HeldInv, NoneToDrop
    <3>3. \A g \in Groups : new.fin[g] \in Nat /\ mem.fin[g] \in Nat
      BY <1>1, Fields
    <3>4. \A g \in Groups : new.fin[g] = 0
      BY <2>2, <3>2, <3>3
    <3> QED
      BY <3>1, <3>4, Fields
  <2>3. ASSUME Current(mem)'
        PROVE  \A g \in Groups : mem'.fin[g] <= cr'.fin[g]
    BY <1>5, <1>6, <2>3
  <2> QED
    BY <2>1, <2>2, <2>3 DEF NoneToDrop
<1> QED
  BY <1>5, <1>7, <1>8 DEF HeldInv

LEMMA DropFields ==
  ASSUME TypeOK, pc \in CleanupPCs \cup ProvisionPCs
  PROVE  /\ Head(todo) \in Groups
         /\ Dropped \in CheCluster /\ Dropped.state = mem.state /\ Dropped.rv = mem.rv
         /\ \A g \in Groups :
              Dropped.fin[g] = IF g = Head(todo) THEN 0 ELSE mem.fin[g]
         /\ Appended \in CheCluster /\ Appended.state = mem.state
         /\ Appended.rv = mem.rv
         /\ \A g \in Groups :
              Appended.fin[g] = IF g = Head(todo) THEN mem.fin[g] + 1 ELSE mem.fin[g]
<1>1. Head(todo) \in Groups /\ Dropped \in CheCluster /\ Appended \in CheCluster
  BY CopyOK DEF TypeOK
<1>2. mem \in CheCluster /\ mem.fin[Head(todo)] + 1 \in Nat
  BY <1>1 DEF TypeOK, TypeCR, CheCluster
<1>3. /\ Dropped.state = mem.state /\ Dropped.rv = mem.rv
      /\ \A g \in Groups :
           Dropped.fin[g] = IF g = Head(todo) THEN 0 ELSE mem.fin[g]
  BY <1>1, <1>2 DEF Dropped, WithFinalizer, CheCluster
<1>4. /\ Appended.state = mem.state /\ Appended.rv = mem.rv
      /\ \A g \in Groups :
           Appended.fin[g] = IF g = Head(todo) THEN mem.fin[g] + 1 ELSE mem.fin[g]
  BY <1>1, <1>2 DEF Appended, WithFinalizer, CheCluster
<1> QED
  BY <1>1, <1>3, <1>4

LEMMA DropSafe ==
  ASSUME TypeOK, HeldInv, DeleteFinalizer
  PROVE  HeldInv'
<1>1. /\ cr \in CheCluster /\ mem \in CheCluster /\ pc = "drop" /\ pc \in CleanupPCs
      /\ UNCHANGED <<cache, objects>>
  BY DEF TypeOK, TypeCR, DeleteFinalizer, CleanupPCs
<1>2. /\ Dropped \in CheCluster /\ Dropped.state = mem.state /\ Dropped.rv = mem.rv
      /\ \A g \in Groups : Dropped.fin[g] = IF g = Head(todo) THEN 0 ELSE mem.fin[g]
      /\ Head(todo) \in Groups
  BY <1>1, DropFields
<1>3. \A g \in Groups : /\ mem.fin[g] \in Nat /\ cr.fin[g] \in Nat
                        /\ Dropped.fin[g] <= mem.fin[g]
  BY <1>1, <1>2, Fields
<1>4. \/ /\ Answer(Dropped) = "OK" /\ Store(Dropped)
         /\ mem' \in {Stored(Dropped), Dropped}
         /\ NextCleanup(Dropped) \/ FailCleanup(Dropped)
      \/ /\ UNCHANGED <<cr, revision>> /\ mem' = Dropped
         /\ \/ pc' = "reloadDrop" /\ todo' = todo
            \/ FailCleanup(Dropped)
  BY DEF DeleteFinalizer, StoreUnanswered, Dropped
<1>5. CleanedInLoop'
  BY <1>1, <1>4, NextCleanupPC DEF HeldInv, CleanedInLoop, ObjectsOf
<1>6. CASE Answer(Dropped) = "OK" /\ Store(Dropped) /\ mem' \in {Stored(Dropped), Dropped}
  BY <1>1, <1>2, <1>3, <1>5, <1>6, WriteSafe
<1>7. CASE UNCHANGED <<cr, revision>> /\ mem' = Dropped
  <2>1. Revisions' /\ CopiesAgree' /\ (Current(mem)' <=> Current(mem))
    BY <1>1, <1>2, <1>7 DEF HeldInv, Revisions, CopiesAgree, Current, Exists
  <2>2. NoneToDrop'
    BY <1>1, <1>2, <1>3, <1>7, <2>1 DEF HeldInv, NoneToDrop, Deleting
  <2>3. CleanedInCopy'
    <3> SUFFICES ASSUME NEW g \in Permissions, Current(mem), cr.fin[g] > 0,
                        Dropped.fin[g] = 0
                 PROVE  Deleting(Dropped) /\ ObjectsOf(g) = {}
      BY <1>1, <1>7, <2>1 DEF CleanedInCopy, Deleting, ObjectsOf
    <3>1. CASE g = Head(todo)
      <4>1. ObjectsOf(g) = {}
        BY <1>1, <3>1 DEF HeldInv, CleanedInLoop
      <4>2. cr.state # "live"
        BY <1>1, Fields DEF HeldInv, NoneToDrop, Groups
      <4>3. cr.state = "deleting" /\ mem.state = cr.state
        BY <1>1, <4>2, Fields DEF HeldInv, CopiesAgree, Current, Exists
      <4> QED
        BY <1>2, <4>1, <4>3 DEF Deleting
    <3>2. CASE g # Head(todo)
      <4>1. mem.fin[g] = 0
        BY <1>2, <3>2 DEF Groups
      <4> QED
        BY <1>2, <4>1 DEF HeldInv, CleanedInCopy, Deleting
    <3> QED
      BY <3>1, <3>2
  <2> QED
    BY <1>5, <2>1, <2>2, <2>3 DEF HeldInv
<1> QED
  BY <1>4, <1>6, <1>7

LEMMA NextProvisionPC ==
  ASSUME NEW m, NextProvision(m)
  PROVE  pc' \in {"syncRole", "syncBinding", "finish"}
BY DEF NextProvision, EnterProvision, Enter

LEMMA AppendSafe ==
  ASSUME TypeOK, HeldInv, AppendFinalizer
  PROVE  HeldInv'
<1>1. pc \in ProvisionPCs /\ UNCHANGED <<cache, objects>>
  BY DEF AppendFinalizer, ProvisionPCs, FailProvision
<1>2. Appended \in CheCluster /\ Appended.state = mem.state /\ Appended.rv = mem.rv
  BY <1>1, DropFields
<1>3. \/ Leave /\ UNCHANGED <<cr, revision, objects>>
      \/ /\ Answer(Appended) = "OK" /\ Store(Appended)
         /\ mem' \in {Stored(Appended), NoCR}
         /\ pc' \in {"syncRole", "syncBinding", "finish", "idle"}
      \/ /\ Answer(Appended) = "Conflict" /\ UNCHANGED <<cr, revision>>
         /\ mem' = Appended /\ pc' = "reloadAppend"
  BY <1>1, NextProvisionPC DEF AppendFinalizer, StoreUnanswered, FailProvision,
     Requeue, Leave, Appended
<1>4. CASE Leave /\ UNCHANGED <<cr, revision, objects>>
  BY <1>1, <1>4, LeaveSafe
<1>5. CASE /\ Answer(Appended) = "OK" /\ Store(Appended)
           /\ mem' \in {Stored(Appended), NoCR}
           /\ pc' \in {"syncRole", "syncBinding", "finish", "idle"}
  <2>1. pc' \notin CleanupPCs
    BY <1>5 DEF CleanupPCs
  <2>2. CleanedInLoop'
    BY <1>5 DEF CleanedInLoop
  <2> QED
    BY <1>1, <1>2, <1>5, <2>1, <2>2, WriteSafe
<1>6. CASE /\ Answer(Appended) = "Conflict" /\ UNCHANGED <<cr, revision>>
           /\ mem' = Appended /\ pc' = "reloadAppend"
  <2>1. Appended.rv # cr.rv
    BY <1>6 DEF Answer
  <2>2. ~Current(mem) /\ ~Current(mem)'
    BY <1>2, <1>6, <2>1 DEF Current
  <2>3. Revisions' /\ CopiesAgree'
    BY <1>1, <1>2, <1>6, <2>2 DEF HeldInv, Revisions, CopiesAgree, Current, Exists
  <2>4. NoneToDrop' /\ CleanedInCopy' /\ CleanedInLoop'
    BY <1>1, <1>6, <2>2 DEF HeldInv, NoneToDrop, CleanedInCopy, CleanedInLoop,
       Deleting, CleanupPCs
  <2> QED
    BY <2>3, <2>4 DEF HeldInv
<1> QED
  BY <1>3, <1>4, <1>5, <1>6

(* Objects are created for a live copy only.                               *)
LEMMA SyncSafe ==
  ASSUME TypeOK, HeldInv, SyncClusterRole \/ SyncClusterRoleBinding
  PROVE  HeldInv'
<1>1. UNCHANGED <<cr, revision, cache>>
  BY DEF SyncClusterRole, SyncClusterRoleBinding, FailProvision, user
<1>2. \/ Leave /\ UNCHANGED objects
      \/ /\ mem' = mem /\ pc' \in {"syncRole", "syncBinding", "append", "finish"}
         /\ Deleting(mem) => UNCHANGED objects
  BY NextProvisionPC DEF SyncClusterRole, SyncClusterRoleBinding, FailProvision,
     Requeue, Synced
<1>3. CASE Leave /\ UNCHANGED objects
  BY <1>1, <1>3, LeaveSafe
<1>4. CASE /\ mem' = mem /\ pc' \in {"syncRole", "syncBinding", "append", "finish"}
           /\ Deleting(mem) => UNCHANGED objects
  <2>1. Revisions' /\ CopiesAgree'
    BY <1>1, <1>4 DEF HeldInv, Revisions, CopiesAgree, Current, Exists
  <2>2. NoneToDrop' /\ CleanedInLoop'
    BY <1>1, <1>4 DEF HeldInv, NoneToDrop, CleanedInLoop, Current, Exists, Deleting,
       CleanupPCs
  <2>3. CleanedInCopy'
    BY <1>1, <1>4 DEF HeldInv, CleanedInCopy, Current, Exists, Deleting, ObjectsOf
  <2> QED
    BY <2>1, <2>2, <2>3 DEF HeldInv
<1> QED
  BY <1>2, <1>3, <1>4

(* The CR writes of the rest of the pipeline.                              *)
LEMMA PipelineWriteSafe ==
  ASSUME TypeOK, HeldInv, UpdateCheCRSpec \/ UpdateCheCRStatus
  PROVE  HeldInv'
<1>1. /\ cr \in CheCluster /\ mem \in CheCluster /\ cache \in CheCluster
      /\ revision \in Nat /\ revision + 1 \in Nat
      /\ UNCHANGED <<cache, objects>>
  BY DEF TypeOK, TypeCR, UpdateCheCRSpec, UpdateCheCRStatus
<1>2. CASE Requeue /\ UNCHANGED <<cr, revision>>
  BY <1>1, <1>2, LeaveSafe DEF Requeue
<1>3. CASE /\ Current(mem) /\ revision' = revision + 1
           /\ pc \notin CleanupPCs /\ UNCHANGED <<pc, todo>>
           /\ mem'.rv = revision + 1 /\ mem'.state = cr.state
           /\ \/ cr' = NoCR
              \/ cr' = mem'
  <2>1. /\ cr.rv <= revision /\ cache.rv <= revision /\ mem.rv <= revision
        /\ Exists(cr) <=> cr.rv > 0
        /\ Exists(cache) <=> cache.rv > 0
        /\ cr.rv \in Nat /\ cache.rv \in Nat /\ mem.rv \in Nat
        /\ Exists(cr)
    BY <1>1, <1>3, Fields DEF HeldInv, Revisions, Current
  <2>2. Revisions'
    BY <1>1, <1>3, <2>1, NoCRFields DEF Revisions, Exists
  <2>3. ~Current(cache)' /\ (Current(mem)' => cr' = mem')
    BY <1>1, <1>3, <2>1, NoCRFields DEF Current, Exists
  <2>4. CopiesAgree'
    BY <2>3 DEF CopiesAgree
  <2>5. CleanedInCopy'
    BY <2>3 DEF CleanedInCopy
  <2>6. NoneToDrop' /\ CleanedInLoop'
    <3>1. ~((cr'.state = "live") /\ Deleting(cache)')
      BY <1>1, <1>3, NoCRFields DEF HeldInv, NoneToDrop, Deleting
    <3> QED
      BY <1>1, <1>3, <3>1 DEF HeldInv, NoneToDrop, CleanedInLoop, ObjectsOf, CleanupPCs
  <2> QED
    BY <2>2, <2>4, <2>5, <2>6 DEF HeldInv
<1>4. CASE UpdateCheCRSpec
  <2>1. CASE Answer(mem) = "OK"
    <3>1. Current(mem) /\ mem.state = cr.state
      BY <2>1 DEF Answer, Current, HeldInv, CopiesAgree
    <3>2. mem' = [mem EXCEPT !.rv = revision + 1]
      BY <1>4, <2>1 DEF UpdateCheCRSpec
    <3>3. mem'.rv = revision + 1 /\ mem'.state = cr.state
      BY <1>1, <3>1, <3>2, Touched
    <3> QED
      BY <1>3, <1>4, <2>1, <3>1, <3>3 DEF UpdateCheCRSpec, CleanupPCs
  <2> QED
    BY <1>2, <1>4, <2>1 DEF UpdateCheCRSpec
<1>5. CASE UpdateCheCRStatus
  <2>1. CASE Current(mem)
    <3>1. cr' = [cr EXCEPT !.rv = revision + 1] /\ mem' = cr'
      BY <1>5, <2>1 DEF UpdateCheCRStatus, Current
    <3>2. mem'.rv = revision + 1 /\ mem'.state = cr.state
      BY <1>1, <3>1, Touched
    <3> QED
      BY <1>3, <1>5, <2>1, <3>1, <3>2 DEF UpdateCheCRStatus, Current, CleanupPCs
  <2> QED
    BY <1>2, <1>5, <2>1 DEF UpdateCheCRStatus, Current
<1> QED
  BY <1>4, <1>5

LEMMA NextSafe ==
  ASSUME GetMayFail = FALSE, TypeOK, HeldInv, [Next]_vars
  PROVE  HeldInv'
<1>1. CASE CacheSync
  BY <1>1, CacheSafe
<1>2. CASE Resync \/ UNCHANGED vars
  <2>1. UNCHANGED <<cr, revision, cache, mem, pc, todo, objects>>
    BY <1>2 DEF Resync, store, vars
  <2> QED
    BY <2>1 DEF HeldInv, Revisions, CopiesAgree, NoneToDrop, CleanedInCopy,
       CleanedInLoop, Current, Exists, Deleting, ObjectsOf
<1>3. CASE Restart
  BY <1>3, LeaveSafe DEF Restart, store
<1>4. CASE ReturnEarly
  BY <1>4, LeaveSafe DEF ReturnEarly, Done, Requeue, store
<1>5. CASE Proceed
  <2>1. /\ UNCHANGED <<cr, revision, cache, mem, objects>>
        /\ pc' \in {"syncRole", "syncBinding", "finish"}
    BY <1>5 DEF Proceed, store, EnterProvision, Enter
  <2> QED
    BY <2>1 DEF HeldInv, Revisions, CopiesAgree, NoneToDrop, CleanedInCopy,
       CleanedInLoop, Current, Exists, Deleting, ObjectsOf, CleanupPCs
<1>6. CASE ReloadAndDelete \/ ReloadAndAppend
  <2>1. CASE Exists(cache)
    BY <1>6, <2>1, ReloadSafe
  <2>2. CASE ~Exists(cache) /\ ReloadAndAppend
    BY <2>2, LeaveSafe DEF ReloadAndAppend, Requeue, store
  <2>3. CASE ~Exists(cache) /\ ReloadAndDelete
    <3>1. UNCHANGED <<cr, revision, cache, mem, objects>> /\ FailCleanup(mem)
          /\ pc \in CleanupPCs
      BY <2>3 DEF ReloadAndDelete, store, CleanupPCs
    <3>2. CleanedInLoop'
      BY <3>1, NextCleanupPC DEF CleanedInLoop
    <3> QED
      BY <3>1, <3>2 DEF HeldInv, Revisions, CopiesAgree, NoneToDrop, CleanedInCopy,
         Current, Exists, Deleting, ObjectsOf
  <2> QED
    BY <1>6, <2>1, <2>2, <2>3
<1> QED
  BY <1>1, <1>2, <1>3, <1>4, <1>5, <1>6, UserSafe, StartSafe, DeleteSafe, DropSafe,
     AppendSafe, SyncSafe, PipelineWriteSafe
  DEF Next, Reconcile, Cleanup, Provision

(* A write that is accepted, by whichever action, takes off no finalizer    *)
(* but one whose objects are gone.                                         *)
LEMMA WriteHolds ==
  ASSUME TypeOK, HeldInv, NEW new \in CheCluster, new.state = mem.state,
         Answer(new) = "OK", Store(new), UNCHANGED objects,
         NEW g \in Permissions, new.rv = mem.rv, Held(g), ~Held(g)',
         mem.fin[g] # 0 => new.fin[g] > 0
  PROVE  ObjectsOf(g) = {}
<1>1. TypeCR /\ cr \in CheCluster /\ mem \in CheCluster /\ new.rv = cr.rv /\ Current(mem)
  BY DEF TypeOK, TypeCR, Answer, Current
<1>2. new.state = cr.state
  BY <1>1 DEF HeldInv, CopiesAgree
<1>3. \/ cr' = NoCR /\ new.fin = NoFinalizers
      \/ cr' = Stored(new) /\ Exists(cr)' /\ cr'.fin = new.fin
  BY <1>1, <1>2, StoreFields DEF Exists
<1>4. new.fin[g] \in Nat /\ g \in Groups
  BY Fields DEF Groups
<1>5. new.fin[g] = 0
  BY <1>3, <1>4, Fields DEF Held
<1>6. CASE mem.fin[g] = 0
  BY <1>1, <1>6 DEF HeldInv, CleanedInCopy, Held
<1>7. CASE mem.fin[g] # 0
  BY <1>5, <1>7
<1> QED
  BY <1>6, <1>7

LEMMA StepHolds ==
  ASSUME TypeOK, HeldInv, [Next]_vars, NEW g \in Permissions, Held(g), ~Held(g)'
  PROVE  ObjectsOf(g) = {}
<1>1. /\ TypeCR /\ cr \in CheCluster /\ mem \in CheCluster /\ Exists(cr)
      /\ g \in Groups /\ cr.fin[g] > 0 /\ revision \in Nat /\ revision + 1 \in Nat
  BY DEF TypeOK, TypeCR, Held, Groups
<1>2. CASE UNCHANGED cr
  BY <1>2 DEF Held, Exists
<1>3. CASE DeleteCR
  <2>1. cr.fin # NoFinalizers
    BY <1>1, Fields
  <2>2. cr' = [cr EXCEPT !.state = "deleting", !.rv = revision + 1]
    BY <1>3, <2>1 DEF DeleteCR
  <2>3. cr'.state = "deleting" /\ cr'.fin = cr.fin
    BY <1>1, <2>2, Marked
  <2> QED
    BY <1>1, <2>3 DEF Held, Exists
<1>4. CASE EditRoles
  <2>1. PICK l \in RoleLists : cr' = [cr EXCEPT !.roles = l, !.rv = revision + 1]
    BY <1>4 DEF EditRoles
  <2>2. cr'.state = cr.state /\ cr'.fin = cr.fin
    BY <1>1, <2>1, Edited
  <2> QED
    BY <1>1, <2>2 DEF Held, Exists
<1>5. CASE CreateCR
  BY <1>1, <1>5 DEF CreateCR
<1>6. CASE DeleteFinalizer
  <2>1. pc \in CleanupPCs /\ pc = "drop" /\ UNCHANGED objects
    BY <1>6 DEF DeleteFinalizer, CleanupPCs
  <2>2. UNCHANGED cr \/ (Answer(Dropped) = "OK" /\ Store(Dropped))
    BY <1>6 DEF DeleteFinalizer, StoreUnanswered, Dropped
  <2>3. /\ Dropped \in CheCluster /\ Dropped.state = mem.state /\ Dropped.rv = mem.rv
        /\ Dropped.fin[g] = IF g = Head(todo) THEN 0 ELSE mem.fin[g]
    BY <1>1, <2>1, DropFields
  <2>4. CASE g = Head(todo)
    BY <2>1, <2>4 DEF HeldInv, CleanedInLoop
  <2>5. CASE g # Head(todo)
    <3>1. Dropped.fin[g] = mem.fin[g] /\ mem.fin[g] \in Nat
      BY <1>1, <2>3, <2>5, Fields
    <3> QED
      BY <1>2, <2>1, <2>2, <2>3, <3>1, WriteHolds
  <2> QED
    BY <2>4, <2>5
<1>7. CASE AppendFinalizer
  <2>1. pc \in ProvisionPCs /\ UNCHANGED objects
    BY <1>7 DEF AppendFinalizer, ProvisionPCs, FailProvision
  <2>2. UNCHANGED cr \/ (Answer(Appended) = "OK" /\ Store(Appended))
    BY <1>7 DEF AppendFinalizer, StoreUnanswered, Appended
  <2>3. /\ Appended \in CheCluster /\ Appended.state = mem.state
        /\ Appended.rv = mem.rv /\ mem.fin[g] \in Nat
        /\ Appended.fin[g] = IF g = Head(todo) THEN mem.fin[g] + 1 ELSE mem.fin[g]
    BY <1>1, <2>1, DropFields, Fields
  <2>4. mem.fin[g] # 0 => Appended.fin[g] > 0
    BY <2>3
  <2> QED
    BY <1>2, <2>1, <2>2, <2>3, <2>4, WriteHolds
<1>8. CASE UpdateCheCRSpec
  <2>1. \/ UNCHANGED cr
        \/ /\ Answer(mem) = "OK" /\ UNCHANGED objects
           /\ \/ cr' = NoCR /\ mem.fin = NoFinalizers
              \/ cr' = [mem EXCEPT !.rv = revision + 1]
    BY <1>8 DEF UpdateCheCRSpec
  <2>2. CASE Answer(mem) = "OK" /\ UNCHANGED objects
             /\ (\/ cr' = NoCR /\ mem.fin = NoFinalizers
                 \/ cr' = [mem EXCEPT !.rv = revision + 1])
    <3>1. Current(mem) /\ mem.state = cr.state
      BY <2>2 DEF Answer, Current, HeldInv, CopiesAgree
    <3>2. mem.fin[g] = 0
      <4>1. CASE mem.fin = NoFinalizers
        BY <1>1, <4>1, Fields
      <4>2. CASE cr' = [mem EXCEPT !.rv = revision + 1]
        <5>1. cr'.state = cr.state /\ cr'.fin = mem.fin /\ mem.fin[g] \in Nat
          BY <1>1, <3>1, <4>2, Touched, Fields
        <5> QED
          BY <1>1, <5>1 DEF Held, Exists
      <4> QED
        BY <2>2, <4>1, <4>2
    <3> QED
      BY <1>1, <3>1, <3>2 DEF HeldInv, CleanedInCopy
  <2> QED
    BY <1>2, <2>1, <2>2
<1>9. CASE UpdateCheCRStatus
  <2>1. UNCHANGED cr \/ cr' = [cr EXCEPT !.rv = revision + 1]
    BY <1>9 DEF UpdateCheCRStatus
  <2>2. CASE cr' = [cr EXCEPT !.rv = revision + 1]
    <3>1. cr'.state = cr.state /\ cr'.fin = cr.fin
      BY <1>1, <2>2, Touched
    <3> QED
      BY <1>1, <3>1 DEF Held, Exists
  <2> QED
    BY <1>2, <2>1, <2>2
<1>10. \/ UNCHANGED cr \/ DeleteCR \/ EditRoles \/ CreateCR \/ DeleteFinalizer
       \/ AppendFinalizer \/ UpdateCheCRSpec \/ UpdateCheCRStatus
  BY DEF Next, User, CacheSync, Resync, Restart, Reconcile, Start, Cleanup,
     DeleteClusterRole, DeleteClusterRoleBinding, ReloadAndDelete, Provision,
     SyncClusterRole, SyncClusterRoleBinding, ReloadAndAppend, FailProvision,
     ReturnEarly, Proceed, store, vars
<1> QED
  BY <1>2, <1>3, <1>4, <1>5, <1>6, <1>7, <1>8, <1>9, <1>10

(* A permission group's finalizer leaves the CR only when the group's       *)
(* objects are gone, however often the CR is created, edited and deleted,   *)
(* whatever calls fail and whenever the operator restarts: provided that a  *)
(* failed read is not taken for an absent object.                          *)
THEOREM FinalizersHold == GetMayFail = FALSE /\ Spec => HeldUntilGone
<1> SUFFICES ASSUME GetMayFail = FALSE PROVE Spec => HeldUntilGone
  OBVIOUS
<1>1. Init => TypeOK /\ HeldInv
  BY InitType, InitSafe
<1>2. TypeOK /\ HeldInv /\ [Next]_vars => (TypeOK /\ HeldInv)'
  BY NextTypeBounds, NextObjects, NextTypeCR, NextTypeControl, NextSafe DEF TypeOK
<1>3. TypeOK /\ HeldInv /\ [Next]_vars =>
        [\A g \in Permissions : Held(g) /\ ~Held(g)' => ObjectsOf(g) = {}]_vars
  BY StepHolds
<1> QED
  BY <1>1, <1>2, <1>3, PTL DEF Spec, HeldUntilGone

-----------------------------------------------------------------------------
(* GoneMeansClean.  The first group provisioned is the last removed: its     *)
(* finalizer stands for all groups, in the life of the first CR.            *)

First == Head(ProvisionOrder)
Clean == \A g \in Permissions : ObjectsOf(g) = {}

(* Before the first CR there is nothing.                                    *)
Unborn ==
  /\ creations <= MaxCreations
  /\ creations = MaxCreations =>
       cr = NoCR /\ cache = NoCR /\ mem = NoCR /\ pc = "idle"

(* The cleanup loop runs over permission groups or over roles.  The groups   *)
(* it has left behind are gone, and First is its last.                      *)
OnWay(rest) ==
  \/ rest \in Seq(Roles)
  \/ /\ rest \in Seq(Permissions)
     /\ \A g \in Permissions : ObjectsOf(g) # {} => g \in Elements(rest)
     /\ \A i \in DOMAIN rest : rest[i] = First => i = Len(rest)
LoopInv == pc \in CleanupPCs => OnWay(todo)

(* The worker learns of the deletion from the cache, and the cache from the  *)
(* CR.                                                                      *)
DeletionSpreads ==
  /\ Deleting(mem) => Deleting(cache)
  /\ Deleting(cache) => Deleting(cr)
  /\ pc \in CleanupPCs => Deleting(mem)

(* No finalizer comes before that of First, in the CR or in a copy.          *)
FirstComesFirst ==
  /\ cr.state = "live" => cr.fin = NoFinalizers \/ cr.fin[First] > 0
  /\ cr.fin[First] = 0 /\ ~Deleting(cache) => cache.fin = NoFinalizers
  /\ cr.fin[First] = 0 /\ ~Deleting(mem) /\ pc # "reloadAppend" => mem.fin = NoFinalizers
  /\ cr.fin[First] = 0 /\ ~Deleting(mem) /\ pc \in ProvisionPCs => todo = ProvisionOrder

(* Nothing is left when it goes, from the CR or from a copy that may be     *)
(* written, and nothing is made afterwards.                                *)
FirstGoesLast ==
  /\ Deleting(cr) /\ cr.fin[First] = 0 =>
       Clean /\ Deleting(cache) /\ (pc = "idle" \/ Deleting(mem))
  /\ Deleting(mem) /\ Current(mem) /\ mem.fin[First] = 0 => Clean

FirstLife == DeletionSpreads /\ FirstComesFirst /\ FirstGoesLast

CleanInv == Unborn /\ LoopInv /\ (FirstOfName /\ Exists(cr) => FirstLife)

LEMMA FirstFacts ==
  /\ First \in Permissions /\ First \in Groups /\ First \notin Roles
  /\ ProvisionOrder \in Seq(Permissions) /\ ProvisionOrder # <<>>
  /\ \A l \in RoleLists : l \in Seq(Roles)
  /\ Permissions \cap Roles = {}
<1>1. ProvisionOrder \in Seq(Permissions) /\ ProvisionOrder # <<>>
  BY FinalizersAssumption
<1>2. First \in Permissions
  BY <1>1, HeadTailProperties DEF First
<1> QED
  BY <1>1, <1>2, FinalizersAssumption DEF Groups

(* The cleanup begins with all groups before it.                            *)
LEMMA WayBegins == OnWay(CleanupOrder)
<1>1. /\ CleanupOrder \in Seq(Permissions) /\ Elements(CleanupOrder) = Permissions
      /\ \A i \in DOMAIN CleanupOrder : CleanupOrder[i] = First => i = Len(CleanupOrder)
  BY FinalizersAssumption, OrderAssumption DEF First
<1> QED
  BY <1>1 DEF OnWay

LEMMA TailWay ==
  ASSUME NEW s \in Seq(Permissions), Tail(s) # <<>>, s # <<>>,
         \A i \in DOMAIN s : s[i] = First => i = Len(s)
  PROVE  /\ Tail(s) \in Seq(Permissions)
         /\ \A g \in Elements(s) : g = Head(s) \/ g \in Elements(Tail(s))
         /\ \A i \in DOMAIN Tail(s) : Tail(s)[i] = First => i = Len(Tail(s))
<1>1. /\ Tail(s) \in Seq(Permissions) /\ Len(Tail(s)) = Len(s) - 1 /\ Head(s) = s[1]
      /\ \A i \in 1..Len(Tail(s)) : Tail(s)[i] = s[i + 1]
  BY HeadTailProperties
<1>2. DOMAIN s = 1..Len(s) /\ DOMAIN Tail(s) = 1..Len(Tail(s)) /\ Len(s) \in Nat
  BY <1>1
<1>3. ASSUME NEW i \in DOMAIN s PROVE s[i] = Head(s) \/ s[i] \in Elements(Tail(s))
  <2>1. CASE i = 1
    BY <1>1, <2>1
  <2>2. CASE i # 1
    <3>1. i - 1 \in DOMAIN Tail(s) /\ Tail(s)[i - 1] = s[i]
      BY <1>1, <1>2, <2>2
    <3> QED
      BY <3>1 DEF Elements
  <2> QED
    BY <2>1, <2>2
<1>4. ASSUME NEW i \in DOMAIN Tail(s), Tail(s)[i] = First PROVE i = Len(Tail(s))
  <2>1. i + 1 \in DOMAIN s /\ s[i + 1] = First
    BY <1>1, <1>2, <1>4
  <2>2. i + 1 = Len(s)
    BY <2>1
  <2> QED
    BY <1>1, <1>2, <2>2
<1> QED
  BY <1>1, <1>3, <1>4 DEF Elements

(* The loop goes on from a group that is gone, or leaves the groups.        *)
LEMMA WayGoesOn ==
  ASSUME OnWay(todo), todo # <<>>, NEW m \in CheCluster, objects' \subseteq objects,
         \/ FailCleanup(m)
         \/ NextCleanup(m) /\ \A g \in Permissions : g = Head(todo) => ObjectsOf(g)' = {}
  PROVE  OnWay(todo)'
<1>1. RolesToClean(m) \in Seq(Roles)
  BY FirstFacts, EmptySeq DEF RolesToClean, CheCluster
<1>2. \A rest : EnterCleanup(rest) => todo' = rest
  BY DEF EnterCleanup, Enter
<1>3. CASE todo' \in Seq(Roles)
  BY <1>3 DEF OnWay
<1>4. CASE Head(todo) \notin Permissions
  <2>1. todo \in Seq(Roles)
    BY <1>4, HeadTailProperties DEF OnWay
  <2>2. Tail(todo) \in Seq(Roles) /\ <<>> \in Seq(Roles)
    BY <2>1, HeadTailProperties, EmptySeq
  <2>3. NextCleanup(m)
    BY <1>4 DEF FailCleanup
  <2>4. todo' \in Seq(Roles)
    BY <1>2, <1>4, <2>2, <2>3 DEF NextCleanup
  <2> QED
    BY <1>3, <2>4
<1>5. CASE Head(todo) \in Permissions
  <2>1. Head(todo) \notin Roles
    BY <1>5, FirstFacts
  <2>2. /\ todo \in Seq(Permissions)
        /\ \A g \in Permissions : ObjectsOf(g) # {} => g \in Elements(todo)
        /\ \A i \in DOMAIN todo : todo[i] = First => i = Len(todo)
    BY <2>1, HeadTailProperties DEF OnWay
  <2>3. \/ todo' = RolesToClean(m)
        \/ /\ todo' = Tail(todo) /\ Tail(todo) # <<>>
           /\ \A g \in Permissions : g = Head(todo) => ObjectsOf(g)' = {}
    BY <1>2, <1>5 DEF NextCleanup, FailCleanup
  <2>4. CASE todo' = RolesToClean(m)
    BY <1>1, <1>3, <2>4
  <2>5. CASE /\ todo' = Tail(todo) /\ Tail(todo) # <<>>
             /\ \A g \in Permissions : g = Head(todo) => ObjectsOf(g)' = {}
    <3>1. \A g \in Permissions : ObjectsOf(g)' \subseteq ObjectsOf(g)
      BY DEF ObjectsOf
    <3>2. /\ Tail(todo) \in Seq(Permissions)
          /\ \A g \in Elements(todo) : g = Head(todo) \/ g \in Elements(Tail(todo))
          /\ \A i \in DOMAIN Tail(todo) : Tail(todo)[i] = First => i = Len(Tail(todo))
      BY <2>2, <2>5, TailWay
    <3>3. \A g \in Permissions : ObjectsOf(g)' # {} => g \in Elements(Tail(todo))
      BY <2>2, <2>5, <3>1, <3>2
    <3>4. \A g \in Permissions : ObjectsOf(g)' # {} => g \in Elements(todo)'
      BY <2>5, <3>3 DEF Elements
    <3> QED
      BY <2>5, <3>2, <3>4 DEF OnWay, First
  <2> QED
    BY <2>3, <2>4, <2>5
<1> QED
  BY <1>4, <1>5

LEMMA WayStays ==
  ASSUME OnWay(todo), UNCHANGED todo, objects' \subseteq objects
  PROVE  OnWay(todo)'
<1>1. \A g \in Permissions : ObjectsOf(g)' \subseteq ObjectsOf(g)
  BY DEF ObjectsOf
<1>2. \A g \in Permissions : ObjectsOf(g)' # {} => g \in Elements(todo)'
             \/ todo \in Seq(Roles)
  BY <1>1 DEF OnWay, Elements
<1> QED
  BY <1>2 DEF OnWay, First

LEMMA LoopSafe ==
  ASSUME GetMayFail = FALSE, TypeOK, HeldInv, LoopInv, [Next]_vars
  PROVE  LoopInv'
<1>1. /\ pc \in CleanupPCs => OnWay(todo) /\ todo # <<>>
      /\ mem \in CheCluster
  BY DEF LoopInv, TypeOK, TypeCR, TypeControl
<1>2. CASE pc' \notin CleanupPCs
  BY <1>2 DEF LoopInv
<1>3. CASE UNCHANGED <<pc, todo>> /\ objects' \subseteq objects
  BY <1>1, <1>3, WayStays DEF LoopInv
<1>4. CASE Start
  <2>1. CASE ~Exists(cache)
    BY <1>3, <1>4, <2>1 DEF Start
  <2>2. CASE Exists(cache)
    <3>1. EnterCleanup(IF Deleting(cache) THEN CleanupOrder ELSE <<>>)
      BY <1>4, <2>2 DEF Start
    <3>2. todo' = CleanupOrder \/ pc' = "middle"
      BY <3>1 DEF EnterCleanup, Enter
    <3>3. UNCHANGED objects
      BY <1>4 DEF Start
    <3>4. CASE todo' = CleanupOrder
      <4>1. OnWay(todo)'
        BY <3>3, <3>4, WayBegins DEF OnWay, ObjectsOf, Elements, First
      <4> QED
        BY <4>1 DEF LoopInv
    <3> QED
      BY <1>2, <3>2, <3>4 DEF CleanupPCs
  <2> QED
    BY <2>1, <2>2
<1>5. CASE Cleanup
  <2>1. /\ OnWay(todo) /\ todo # <<>> /\ objects' \subseteq objects
    BY <1>1, <1>5 DEF Cleanup, DeleteClusterRole, DeleteClusterRoleBinding,
       DeleteFinalizer, ReloadAndDelete, CleanupPCs
  <2>2. CASE DeleteClusterRole \/ ReloadAndDelete
    <3>1. UNCHANGED todo \/ FailCleanup(mem)
      BY <2>2 DEF DeleteClusterRole, ReloadAndDelete
    <3> QED
      BY <1>1, <2>1, <3>1, WayStays, WayGoesOn DEF LoopInv
  <2>3. CASE DeleteClusterRoleBinding
    <3>1. Head(todo) \in Permissions => Role(Head(todo)) \notin objects
      BY <2>3 DEF HeldInv, CleanedInLoop, DeleteClusterRoleBinding
    <3>2. \/ UNCHANGED todo \/ FailCleanup(mem)
          \/ /\ NextCleanup(mem)
             /\ \/ Head(todo) \notin Permissions
                \/ objects' = objects \ {Binding(Head(todo))}
      BY <2>3 DEF DeleteClusterRoleBinding, EnterDrop
    <3>3. objects' = objects \ {Binding(Head(todo))} =>
            \A g \in Permissions : g = Head(todo) => ObjectsOf(g)' = {}
      BY <3>1 DEF ObjectsOf
    <3> QED
      BY <1>1, <2>1, <3>2, <3>3, WayStays, WayGoesOn DEF LoopInv
  <2>4. CASE DeleteFinalizer
    <3>1. UNCHANGED objects /\ Dropped \in CheCluster
      BY <2>4, DropFields DEF DeleteFinalizer, CleanupPCs
    <3>2. \A g \in Permissions : g = Head(todo) => ObjectsOf(g)' = {}
      BY <2>4, <3>1 DEF HeldInv, CleanedInLoop, DeleteFinalizer, ObjectsOf
    <3>3. UNCHANGED todo \/ FailCleanup(Dropped) \/ NextCleanup(Dropped)
      BY <2>4 DEF DeleteFinalizer, Dropped
    <3> QED
      BY <2>1, <3>1, <3>2, <3>3, WayStays, WayGoesOn DEF LoopInv
  <2> QED
    BY <1>5, <2>2, <2>3, <2>4 DEF Cleanup
<1>6. CASE \/ User \/ CacheSync \/ Resync \/ UNCHANGED vars
  BY <1>3, <1>6 DEF User, CreateCR, DeleteCR, EditRoles, UserOp, CacheSync, Resync, worker, vars
<1>7. CASE UpdateCheCRSpec \/ UpdateCheCRStatus \/ ReturnEarly \/ Restart
  BY <1>2, <1>7 DEF UpdateCheCRSpec, UpdateCheCRStatus, ReturnEarly, Restart, Done,
     Requeue, Leave, CleanupPCs
<1>8. CASE Proceed \/ Provision
  <2>1. pc' \in {"syncRole", "syncBinding", "append", "reloadAppend", "finish", "idle"}
    BY <1>8, NextProvisionPC DEF Proceed, Provision, SyncClusterRole, SyncClusterRoleBinding,
       AppendFinalizer, ReloadAndAppend, FailProvision, Requeue, Leave, EnterProvision, Enter
  <2> QED
    BY <1>2, <2>1 DEF CleanupPCs
<1> QED
  BY <1>4, <1>5, <1>6, <1>7, <1>8 DEF Next, Reconcile

(* Before the first CR nothing moves.                                       *)
LEMMA UnbornSafe == ASSUME TypeOK, Unborn, [Next]_vars PROVE Unborn'
<1>1. creations \in Nat /\ MaxCreations \in Nat /\ creations <= MaxCreations
  BY FinalizersAssumption DEF TypeOK, TypeBounds, Unborn
<1>2. CASE CreateCR
  BY <1>1, <1>2 DEF CreateCR, Unborn
<1>3. CASE ~CreateCR
  <2>1. UNCHANGED creations
    BY <1>3 DEF Next, User, DeleteCR, EditRoles, UserOp, CacheSync, Resync, Reconcile, Start,
       Cleanup, DeleteClusterRole, DeleteClusterRoleBinding, DeleteFinalizer,
       ReloadAndDelete, Provision, SyncClusterRole, SyncClusterRoleBinding, AppendFinalizer,
       ReloadAndAppend, UpdateCheCRSpec, UpdateCheCRStatus, ReturnEarly, Proceed, Restart,
       store, user, vars
  <2>2. CASE creations # MaxCreations
    BY <1>1, <2>1, <2>2 DEF Unborn
  <2>3. CASE creations = MaxCreations
    <3>1. cr = NoCR /\ cache = NoCR /\ mem = NoCR /\ pc = "idle" /\ ~Exists(NoCR)
      BY <2>3, NoCRFields DEF Unborn, Exists
    <3>2. UNCHANGED vars \/ Restart \/ Start
      BY <1>3, <3>1 DEF Next, User, DeleteCR, EditRoles, UserOp, CacheSync, Resync, Reconcile,
         Cleanup, DeleteClusterRole, DeleteClusterRoleBinding, DeleteFinalizer,
         ReloadAndDelete, Provision, SyncClusterRole, SyncClusterRoleBinding, AppendFinalizer,
         ReloadAndAppend, UpdateCheCRSpec, UpdateCheCRStatus, ReturnEarly, Proceed
    <3> QED
      BY <1>1, <2>1, <3>1, <3>2 DEF Unborn, vars, Start, Restart, Leave, store
  <2> QED
    BY <2>2, <2>3
<1> QED
  BY <1>2, <1>3

-----------------------------------------------------------------------------
(* The life of the first CR.                                                *)

Alive == TypeOK /\ HeldInv /\ LoopInv /\ FirstLife /\ Exists(cr)

LEMMA AliveFacts ==
  ASSUME Alive
  PROVE  /\ cr \in CheCluster /\ cache \in CheCluster /\ mem \in CheCluster
         /\ DeletionSpreads /\ FirstComesFirst /\ FirstGoesLast
         /\ cr.state = "live" \/ Deleting(cr)
         /\ cr.state = "live" => ~Deleting(cr)
         /\ Current(mem) => mem.state = cr.state
         /\ Current(cache) => cache = cr
         /\ Current(mem) /\ cr.fin[First] > 0 /\ mem.fin[First] = 0 => Deleting(mem)
         /\ cr.fin[First] \in Nat /\ mem.fin[First] \in Nat
BY Fields, FirstFacts DEF Alive, TypeOK, TypeCR, FirstLife, HeldInv, CopiesAgree,
   CleanedInCopy, Deleting, Exists

LEMMA CleanStays == ASSUME Clean, objects' \subseteq objects PROVE Clean'
BY DEF Clean, ObjectsOf

(* The CR and its copies stay as they are.                                  *)
LEMMA CopiesStayLife ==
  ASSUME Alive, UNCHANGED <<cr, cache, mem>>,
         objects' \subseteq objects \/ (~Deleting(mem) /\ pc # "idle"),
         pc = "idle" => pc' = "idle",
         pc = "reloadAppend" => pc' = "reloadAppend",
         pc' \in CleanupPCs => Deleting(mem),
         pc' \in ProvisionPCs => \/ Deleting(mem) \/ cr.fin[First] > 0
                                 \/ todo' = ProvisionOrder
                                 \/ pc \in ProvisionPCs /\ UNCHANGED todo
  PROVE  FirstLife'
<1>1. DeletionSpreads' /\ FirstComesFirst'
  BY AliveFacts DEF DeletionSpreads, FirstComesFirst, Deleting, First
<1>2. FirstGoesLast'
  BY AliveFacts, CleanStays DEF FirstGoesLast, Deleting, Current, Exists, First
<1> QED
  BY <1>1, <1>2 DEF FirstLife

(* The worker takes the cached copy.                                        *)
LEMMA CopyLife ==
  ASSUME Alive, UNCHANGED <<cr, cache, objects>>, mem' = cache,
         pc' \in CleanupPCs => Deleting(cache),
         pc' \in ProvisionPCs => pc \in ProvisionPCs /\ UNCHANGED todo
  PROVE  FirstLife'
<1>1. DeletionSpreads' /\ FirstComesFirst'
  BY AliveFacts DEF DeletionSpreads, FirstComesFirst, Deleting, First
<1>2. Clean => Clean'
  BY CleanStays
<1>3. FirstGoesLast'
  BY <1>2, AliveFacts DEF FirstGoesLast, Deleting, Current, Exists, First
<1> QED
  BY <1>1, <1>3 DEF FirstLife

(* The worker ends its pass, or a new process begins.                       *)
LEMMA LeaveLife ==
  ASSUME Alive, Leave, UNCHANGED <<cr, objects>>, cache' \in {cache, cr}
  PROVE  FirstLife'
<1>1. mem' = NoCR /\ pc' = "idle" /\ ~Deleting(NoCR) /\ NoCR.fin = NoFinalizers
  BY NoCRFields DEF Leave, Deleting
<1>2. DeletionSpreads'
  BY <1>1, AliveFacts DEF DeletionSpreads, Deleting, CleanupPCs
<1>3. cr.fin[First] = 0 /\ ~Deleting(cr) => cr.fin = NoFinalizers
  BY AliveFacts DEF FirstComesFirst
<1>4. FirstComesFirst'
  BY <1>1, <1>3, AliveFacts DEF FirstComesFirst, Deleting, First, ProvisionPCs
<1>5. Clean => Clean'
  BY CleanStays
<1>6. FirstGoesLast'
  BY <1>1, <1>5, AliveFacts DEF FirstGoesLast, Deleting, First
<1> QED
  BY <1>2, <1>4, <1>6 DEF FirstLife

LEMMA SyncLife ==
  ASSUME Alive, UNCHANGED <<cr, mem, pc, todo, objects>>, cache' \in {cache, cr}
  PROVE  FirstLife'
<1>1. DeletionSpreads'
  BY AliveFacts DEF DeletionSpreads, Deleting
<1>2. cr.fin[First] = 0 /\ ~Deleting(cr) => cr.fin = NoFinalizers
  BY AliveFacts DEF FirstComesFirst
<1>3. FirstComesFirst'
  BY <1>2, AliveFacts DEF FirstComesFirst, Deleting, First
<1>4. Clean => Clean'
  BY CleanStays
<1>5. FirstGoesLast'
  BY <1>4, AliveFacts DEF FirstGoesLast, Deleting, Current, Exists, First
<1> QED
  BY <1>1, <1>3, <1>5 DEF FirstLife

(* The worker's copy becomes the CR: First's finalizer is there, or no       *)
(* other, and it goes when all is clean.                                    *)
LEMMA WriteLife ==
  ASSUME Alive, Current(mem), cr' \in CheCluster, cr'.state = cr.state,
         UNCHANGED <<cache, objects>>,
         \/ mem' = NoCR /\ pc' = "idle"
         \/ mem'.state = cr.state /\ mem'.fin = cr'.fin /\ pc' # "idle",
         cr.state = "live" => \/ cr'.fin = NoFinalizers /\ cr.fin[First] = 0
                              \/ cr'.fin[First] > 0,
         Deleting(cr) /\ cr'.fin[First] = 0 => Clean,
         pc' \in CleanupPCs => pc \in CleanupPCs,
         pc' \in ProvisionPCs => Deleting(cr) \/ cr'.fin[First] > 0
  PROVE  FirstLife'
<1>1. /\ mem.state = cr.state /\ ~Deleting(NoCR) /\ NoCR.fin = NoFinalizers
      /\ Deleting(cr)' <=> Deleting(cr)
      /\ Deleting(mem)' => Deleting(cr)
      /\ pc' # "idle" => (Deleting(mem)' <=> Deleting(cr))
      /\ Deleting(mem) <=> Deleting(cr)
      /\ UNCHANGED First
  BY AliveFacts, NoCRFields DEF Deleting, First
<1>2. Deleting(cr) => Deleting(cache)
  BY <1>1, AliveFacts DEF DeletionSpreads
<1>3. DeletionSpreads'
  <2>1. Deleting(cache)' <=> Deleting(cache)
    BY DEF Deleting
  <2>2. Deleting(cache) => Deleting(cr)
    BY AliveFacts DEF DeletionSpreads
  <2>3. pc' \in CleanupPCs => Deleting(cr) /\ pc' # "idle"
    BY <1>1, AliveFacts DEF DeletionSpreads, CleanupPCs
  <2> QED
    BY <1>1, <1>2, <2>1, <2>2, <2>3 DEF DeletionSpreads
<1>4. ~Deleting(cr) => cr.state = "live"
  BY AliveFacts
<1>5. FirstComesFirst'
  <2>1. cr'.state = "live" => cr'.fin = NoFinalizers \/ cr'.fin[First] > 0
    BY AliveFacts
  <2>2. cr'.fin[First] = 0 /\ ~Deleting(cache) => cache.fin = NoFinalizers
    BY <1>2, <1>4, AliveFacts DEF FirstComesFirst
  <2>3. cr'.fin[First] = 0 /\ ~Deleting(mem)' => mem'.fin = NoFinalizers
    BY <1>1, <1>4
  <2>4. cr'.fin[First] = 0 /\ ~Deleting(mem)' => pc' \notin ProvisionPCs
    BY <1>1 DEF ProvisionPCs
  <2> QED
    BY <1>1, <2>1, <2>2, <2>3, <2>4 DEF FirstComesFirst, Deleting
<1>6. FirstGoesLast'
  <2>1. Clean => Clean'
    BY CleanStays
  <2>2. Deleting(mem)' => mem'.fin = cr'.fin
    BY <1>1
  <2> QED
    BY <1>1, <1>2, <2>1, <2>2 DEF FirstGoesLast, Deleting
<1> QED
  BY <1>3, <1>5, <1>6 DEF FirstLife

-----------------------------------------------------------------------------
(* What each action does to the first CR.                                   *)

LEMMA CreateLife ==
  ASSUME TypeOK, Unborn, creations = MaxCreations, CreateCR PROVE FirstLife'
<1>1. cache = NoCR /\ mem = NoCR /\ pc = "idle" /\ UNCHANGED <<cache, mem, pc>>
  BY DEF Unborn, CreateCR, worker
<1>2. cr'.state = "live" /\ cr'.fin = NoFinalizers
  <2>1. PICK l \in RoleLists :
          cr' = [NoCR EXCEPT !.state = "live", !.rv = revision + 1, !.roles = l]
    BY DEF CreateCR
  <2>2. NoCR \in CheCluster /\ revision + 1 \in Nat
    BY ListTypes DEF TypeOK, TypeCR
  <2>3. cr'.state = "live" /\ cr'.fin = NoCR.fin
    BY <2>1, <2>2 DEF CheCluster
  <2> QED
    BY <2>3, NoCRFields
<1>3. DeletionSpreads'
  BY <1>1, NoCRFields DEF DeletionSpreads, Deleting, CleanupPCs
<1>4. FirstComesFirst'
  BY <1>1, <1>2, NoCRFields DEF FirstComesFirst, ProvisionPCs
<1>5. FirstGoesLast'
  BY <1>1, <1>2, NoCRFields DEF FirstGoesLast, Deleting
<1> QED
  BY <1>3, <1>4, <1>5 DEF FirstLife

(* The user writes the CR, whose copies are then out of date.               *)
LEMMA UserLife ==
  ASSUME Alive, DeleteCR \/ EditRoles, Exists(cr)' PROVE FirstLife'
<1>1. /\ cr \in CheCluster /\ revision \in Nat /\ revision + 1 \in Nat
      /\ UNCHANGED <<cache, objects, mem, pc, todo, queued>>
  <2>1. cr \in CheCluster /\ revision \in Nat
    BY DEF Alive, TypeOK, TypeCR
  <2>2. UserOp
    BY DEF DeleteCR, EditRoles
  <2> QED
    BY <2>1, <2>2 DEF UserOp, worker
<1>2. /\ cr'.fin = cr.fin /\ cr'.rv = revision + 1
      /\ \/ cr'.state = cr.state
         \/ cr'.state = "deleting" /\ cr.fin # NoFinalizers /\ ~Deleting(cr)
  <2>1. CASE DeleteCR
    <3>1. cr.fin # NoFinalizers /\ ~Deleting(cr)
      BY <2>1, NoCRFields DEF DeleteCR, Exists
    <3>2. cr' = [cr EXCEPT !.state = "deleting", !.rv = revision + 1]
      BY <2>1, <3>1 DEF DeleteCR
    <3> QED
      BY <1>1, <3>1, <3>2, Marked
  <2>2. CASE EditRoles
    <3>1. PICK l \in RoleLists : cr' = [cr EXCEPT !.roles = l, !.rv = revision + 1]
      BY <2>2 DEF EditRoles
    <3> QED
      BY <1>1, <3>1, Edited
  <2> QED
    BY <2>1, <2>2
<1>3. ~Current(mem)'
  BY <1>1, <1>2, AliveFacts, Fields DEF Alive, HeldInv, Revisions, Current
<1>4. ~Deleting(cr) => cr.state = "live" /\ (cr.fin = NoFinalizers \/ cr.fin[First] > 0)
  BY AliveFacts DEF FirstComesFirst
<1>5. DeletionSpreads'
  BY <1>1, <1>2, AliveFacts DEF DeletionSpreads, Deleting
<1>6. FirstComesFirst'
  BY <1>1, <1>2, AliveFacts DEF FirstComesFirst, Deleting, First
<1>7. Clean => Clean'
  BY <1>1, CleanStays
<1>8. FirstGoesLast'
  <2>1. Deleting(cr)' /\ cr'.fin[First] = 0 => Deleting(cr)
    BY <1>2, <1>4, AliveFacts DEF Deleting
  <2> QED
    BY <1>1, <1>2, <1>3, <1>7, <2>1, AliveFacts DEF FirstGoesLast, Deleting, First
<1> QED
  BY <1>5, <1>6, <1>8 DEF FirstLife

LEMMA StartLife == ASSUME Alive, Start PROVE FirstLife'
<1>1. UNCHANGED <<cr, cache, objects>> /\ mem' = cache /\ pc = "idle"
  BY DEF Start, store
<1>2. /\ pc' \in {"idle", "middle", "deleteRole", "deleteBinding"}
      /\ pc' \in CleanupPCs => Deleting(cache)
  BY <1>1, EnterCleanupPC DEF Start, CleanupPCs, EnterCleanup, Enter
<1> QED
  BY <1>1, <1>2, CopyLife DEF ProvisionPCs

(* The cleanup loop, but for the write.                                     *)
LEMMA CleanupLife ==
  ASSUME Alive, DeleteClusterRole \/ DeleteClusterRoleBinding \/ ReloadAndDelete
  PROVE  FirstLife'
<1>1. /\ UNCHANGED <<cr, cache>> /\ objects' \subseteq objects
      /\ pc \in {"deleteRole", "deleteBinding", "reloadDrop"} /\ Deleting(mem)
  BY AliveFacts DEF DeleteClusterRole, DeleteClusterRoleBinding, ReloadAndDelete, store,
     DeletionSpreads, CleanupPCs
<1>2. \/ UNCHANGED mem /\ pc' \in CleanupPCs \cup {"middle"}
      \/ mem' = cache /\ pc' = "drop" /\ UNCHANGED objects
  BY NextCleanupPC DEF DeleteClusterRole, DeleteClusterRoleBinding, ReloadAndDelete,
     EnterDrop, CleanupPCs
<1>3. CASE UNCHANGED mem /\ pc' \in CleanupPCs \cup {"middle"}
  BY <1>1, <1>3, CopiesStayLife DEF ProvisionPCs, CleanupPCs
<1>4. CASE mem' = cache /\ pc' = "drop" /\ UNCHANGED objects
  BY <1>1, <1>4, CopyLife, AliveFacts DEF ProvisionPCs, CleanupPCs, DeletionSpreads
<1> QED
  BY <1>2, <1>3, <1>4

(* A finalizer is dropped in a copy without First's only when all is gone.   *)
LEMMA DropIsClean ==
  ASSUME Alive, pc = "drop", Current(mem), Dropped.fin[First] = 0 PROVE Clean
<1>1. /\ pc \in CleanupPCs /\ todo # <<>> /\ OnWay(todo) /\ Deleting(mem)
      /\ TypeOK
      /\ Head(todo) \in Permissions => ObjectsOf(Head(todo)) = {}
  BY AliveFacts DEF Alive, LoopInv, TypeOK, TypeControl, CleanupPCs, DeletionSpreads,
     HeldInv, CleanedInLoop
<1>2. CASE Head(todo) # First
  <2>1. mem.fin[First] = 0
    BY <1>1, <1>2, DropFields, FirstFacts
  <2> QED
    BY <1>1, <2>1, AliveFacts DEF FirstGoesLast
<1>3. CASE Head(todo) = First
  <2>1. todo \notin Seq(Roles)
    BY <1>1, <1>3, FirstFacts, HeadTailProperties
  <2>2. /\ todo \in Seq(Permissions)
        /\ \A g \in Permissions : ObjectsOf(g) # {} => g \in Elements(todo)
        /\ \A i \in DOMAIN todo : todo[i] = First => i = Len(todo)
    BY <1>1, <2>1 DEF OnWay
  <2>3. 1 \in DOMAIN todo /\ todo[1] = First /\ DOMAIN todo = 1..Len(todo) /\ Len(todo) \in Nat
    BY <1>1, <1>3, <2>2
  <2>4. Len(todo) = 1
    BY <2>2, <2>3
  <2>5. Elements(todo) = {First}
    BY <2>3, <2>4 DEF Elements
  <2> QED
    BY <1>1, <1>3, <2>2, <2>5, FirstFacts DEF Clean
<1> QED
  BY <1>2, <1>3

LEMMA DropLife == ASSUME Alive, DeleteFinalizer, Exists(cr)' PROVE FirstLife'
<1>1. /\ pc = "drop" /\ pc \in CleanupPCs /\ Deleting(mem) /\ Deleting(cache) /\ Deleting(cr)
      /\ UNCHANGED <<cache, objects>> /\ TypeOK /\ TypeCR /\ cr \in CheCluster
  BY AliveFacts DEF Alive, TypeOK, DeleteFinalizer, CleanupPCs, DeletionSpreads
<1>2. Dropped \in CheCluster /\ Dropped.state = mem.state /\ Dropped.rv = mem.rv
  BY <1>1, DropFields
<1>3. /\ pc' \in CleanupPCs \cup {"middle"} /\ pc' \notin {"idle", "reloadAppend"}
      /\ pc' \notin ProvisionPCs
  BY NextCleanupPC DEF DeleteFinalizer, CleanupPCs, ProvisionPCs
<1>4. \/ /\ Answer(Dropped) = "OK" /\ Store(Dropped)
         /\ mem' \in {Stored(Dropped), Dropped}
      \/ UNCHANGED <<cr, revision>> /\ mem' = Dropped
  BY DEF DeleteFinalizer, StoreUnanswered, Dropped
<1>5. CASE /\ Answer(Dropped) = "OK" /\ Store(Dropped)
           /\ mem' \in {Stored(Dropped), Dropped}
  <2>1. Current(mem)
    BY <1>2, <1>5 DEF Answer, Current
  <2>2. mem.state = cr.state
    BY <2>1, AliveFacts
  <2>3. /\ cr' = NoCR \/ (cr' = Stored(Dropped) /\ cr'.fin = Dropped.fin)
        /\ Stored(Dropped).state = cr.state /\ Stored(Dropped).fin = Dropped.fin
    BY <1>1, <1>2, <1>5, <2>2, StoreFields
  <2>4. cr' = Stored(Dropped) /\ cr'.fin = Dropped.fin /\ cr'.state = cr.state
    BY <2>3, NoCRFields DEF Exists
  <2>5. mem'.state = cr.state /\ mem'.fin = cr'.fin
    BY <1>2, <1>5, <2>2, <2>3, <2>4
  <2>6. cr' \in CheCluster
    BY <1>1, <1>2, <2>4, StoreOK
  <2>7. cr'.fin[First] = 0 => Clean
    BY <1>1, <2>1, <2>4, DropIsClean
  <2>8. cr.state # "live"
    BY <1>1 DEF Deleting
  <2> QED
    BY <1>1, <1>3, <2>1, <2>4, <2>5, <2>6, <2>7, <2>8, WriteLife
<1>6. CASE UNCHANGED <<cr, revision>> /\ mem' = Dropped
  <2>1. /\ Deleting(cr)' /\ Deleting(cache)' /\ Deleting(mem)'
        /\ Current(mem)' => Current(mem)
    BY <1>1, <1>2, <1>6 DEF Deleting, Current, Exists
  <2>2. DeletionSpreads' /\ FirstComesFirst'
    BY <1>1, <1>6, <2>1, AliveFacts DEF DeletionSpreads, FirstComesFirst, Deleting
  <2>3. Clean => Clean'
    BY <1>1, CleanStays
  <2>4. FirstGoesLast'
    BY <1>1, <1>6, <2>1, <2>3, DropIsClean, AliveFacts DEF FirstGoesLast, First
  <2> QED
    BY <2>2, <2>4 DEF FirstLife
<1> QED
  BY <1>4, <1>5, <1>6

(* Append: any finalizer but First's finds that one in the CR.              *)
LEMMA AppendIsLater ==
  ASSUME Alive, pc = "append", Current(mem)
  PROVE  \/ Appended.fin[First] > 0
         \/ Deleting(cr) /\ mem.fin[First] = 0 /\ Appended.fin[First] = 0
<1>1. /\ pc \in ProvisionPCs /\ TypeOK /\ todo # <<>> /\ todo \in Seq(Groups)
      /\ mem.state = cr.state /\ mem.fin[First] \in Nat /\ cr.fin[First] \in Nat
  BY AliveFacts DEF Alive, TypeOK, TypeControl, ProvisionPCs
<1>2. Appended.fin[First] = IF First = Head(todo) THEN mem.fin[First] + 1 ELSE mem.fin[First]
  <2>1. mem.fin[First] + 1 \in Nat
    BY <1>1
  <2>2. \A g \in Groups :
          Appended.fin[g] = IF g = Head(todo) THEN mem.fin[g] + 1 ELSE mem.fin[g]
    BY <1>1, DropFields
  <2>3. First \in Groups
    BY FirstFacts
  <2>4. CASE First = Head(todo)
    BY <2>2, <2>3, <2>4
  <2>5. CASE First # Head(todo)
    BY <2>2, <2>3, <2>5
  <2> QED
    BY <2>4, <2>5
<1>3. CASE First = Head(todo)
  BY <1>1, <1>2, <1>3
<1>4. CASE First # Head(todo) /\ ~Deleting(cr)
  <2>1. todo # ProvisionOrder
    BY <1>4 DEF First
  <2>2. ~Deleting(mem)
    BY <1>1, <1>4 DEF Deleting
  <2>3. cr.fin[First] > 0
    BY <1>1, <2>1, <2>2, AliveFacts DEF FirstComesFirst
  <2>4. mem.fin[First] # 0
    BY <2>2, <2>3, AliveFacts
  <2> QED
    BY <1>1, <1>2, <1>4, <2>4
<1>5. CASE First # Head(todo) /\ Deleting(cr)
  BY <1>1, <1>2, <1>5
<1> QED
  BY <1>3, <1>4, <1>5

LEMMA AppendLife == ASSUME Alive, AppendFinalizer, Exists(cr)' PROVE FirstLife'
<1>1. /\ pc = "append" /\ pc \in ProvisionPCs /\ UNCHANGED <<cache, objects>>
      /\ TypeOK /\ TypeCR /\ cr \in CheCluster
  BY DEF Alive, TypeOK, TypeCR, AppendFinalizer, ProvisionPCs, FailProvision
<1>2. Appended \in CheCluster /\ Appended.state = mem.state /\ Appended.rv = mem.rv
  BY <1>1, DropFields
<1>3. \/ Leave /\ UNCHANGED <<cr, revision>>
      \/ /\ Answer(Appended) = "OK" /\ Store(Appended)
         /\ \/ mem' = Stored(Appended) /\ pc' \in {"syncRole", "syncBinding", "finish"}
            \/ mem' = NoCR /\ pc' = "idle"
      \/ /\ Answer(Appended) = "Conflict" /\ UNCHANGED <<cr, revision, todo>>
         /\ mem' = Appended /\ pc' = "reloadAppend"
  BY <1>1, NextProvisionPC DEF AppendFinalizer, StoreUnanswered, FailProvision,
     Requeue, Leave, Appended
<1>4. CASE Leave /\ UNCHANGED <<cr, revision>>
  BY <1>1, <1>4, LeaveLife
<1>5. CASE /\ Answer(Appended) = "OK" /\ Store(Appended)
           /\ \/ mem' = Stored(Appended) /\ pc' \in {"syncRole", "syncBinding", "finish"}
              \/ mem' = NoCR /\ pc' = "idle"
  <2>1. Current(mem)
    BY <1>2, <1>5 DEF Answer, Current
  <2>2. mem.state = cr.state
    BY <2>1, AliveFacts
  <2>3. /\ cr' = NoCR \/ (cr' = Stored(Appended) /\ cr'.fin = Appended.fin)
        /\ Stored(Appended).state = cr.state /\ Stored(Appended).fin = Appended.fin
    BY <1>1, <1>2, <1>5, <2>2, StoreFields
  <2>4. cr' = Stored(Appended) /\ cr'.fin = Appended.fin /\ cr'.state = cr.state
    BY <2>3, NoCRFields DEF Exists
  <2>5. \/ mem' = NoCR /\ pc' = "idle"
        \/ mem'.state = cr.state /\ mem'.fin = cr'.fin /\ pc' # "idle"
    BY <1>5, <2>3, <2>4
  <2>6. cr' \in CheCluster
    BY <1>1, <1>2, <2>4, StoreOK
  <2>7. \/ cr'.fin[First] > 0
        \/ Deleting(cr) /\ mem.fin[First] = 0 /\ cr'.fin[First] = 0
    BY <1>1, <2>1, <2>4, AppendIsLater
  <2>8. Deleting(cr) /\ cr'.fin[First] = 0 => Clean
    <3>1. Deleting(cr) => Deleting(mem)
      BY <2>2 DEF Deleting
    <3>2. cr'.fin[First] = 0 => mem.fin[First] = 0
      BY <2>7
    <3> QED
      BY <2>1, <3>1, <3>2, AliveFacts DEF FirstGoesLast
  <2>9. cr.state = "live" => ~Deleting(cr)
    BY AliveFacts
  <2>10. pc' \notin CleanupPCs
    BY <1>5 DEF CleanupPCs
  <2> QED
    BY <1>1, <2>1, <2>4, <2>5, <2>6, <2>7, <2>8, <2>9, <2>10, WriteLife
<1>6. CASE /\ Answer(Appended) = "Conflict" /\ UNCHANGED <<cr, revision, todo>>
           /\ mem' = Appended /\ pc' = "reloadAppend"
  <2>1. /\ ~Current(mem)' /\ (Deleting(mem)' <=> Deleting(mem))
        /\ (Deleting(cr)' <=> Deleting(cr)) /\ (Deleting(cache)' <=> Deleting(cache))
    BY <1>1, <1>2, <1>6 DEF Answer, Current, Deleting
  <2>2. DeletionSpreads'
    BY <1>6, <2>1, AliveFacts DEF DeletionSpreads, CleanupPCs
  <2>3. FirstComesFirst'
    BY <1>1, <1>6, <2>1, AliveFacts DEF FirstComesFirst, First
  <2>4. Clean => Clean'
    BY <1>1, CleanStays
  <2>5. FirstGoesLast'
    BY <1>1, <1>6, <2>1, <2>4, AliveFacts DEF FirstGoesLast, First
  <2> QED
    BY <2>2, <2>3, <2>5 DEF FirstLife
<1> QED
  BY <1>3, <1>4, <1>5, <1>6

LEMMA ReloadLife == ASSUME Alive, ReloadAndAppend PROVE FirstLife'
<1>1. UNCHANGED <<cr, cache, objects>> /\ pc \in ProvisionPCs
  BY DEF ReloadAndAppend, store, ProvisionPCs
<1>2. CASE Leave
  BY <1>1, <1>2, LeaveLife
<1>3. CASE mem' = cache /\ pc' = "append" /\ UNCHANGED todo
  BY <1>1, <1>3, CopyLife DEF CleanupPCs
<1> QED
  BY <1>2, <1>3 DEF ReloadAndAppend, Requeue

(* The other steps of the provisioning.                                     *)
LEMMA ProvisionLife ==
  ASSUME Alive, Proceed \/ SyncClusterRole \/ SyncClusterRoleBinding PROVE FirstLife'
<1>1. UNCHANGED <<cr, cache>>
  BY DEF Proceed, SyncClusterRole, SyncClusterRoleBinding, FailProvision, store
<1>2. CASE Leave /\ UNCHANGED objects
  BY <1>1, <1>2, LeaveLife
<1>3. CASE Proceed
  <2>1. UNCHANGED <<mem, objects>> /\ todo' = ProvisionOrder /\ pc = "middle"
        /\ pc' \in {"syncRole", "syncBinding", "finish"}
    BY <1>3 DEF Proceed, EnterProvision, Enter
  <2> QED
    BY <1>1, <2>1, CopiesStayLife DEF CleanupPCs
<1>4. CASE /\ pc \in {"syncRole", "syncBinding"} /\ mem' = mem
           /\ Deleting(mem) => UNCHANGED objects
           /\ \/ pc' \in {"syncBinding", "append"} /\ UNCHANGED todo
              \/ /\ pc' \in {"syncRole", "syncBinding", "finish"}
                 /\ mem.fin[Head(todo)] # 0 \/ Head(todo) \notin Permissions
  <2>1. \/ Deleting(mem) \/ cr.fin[First] > 0 \/ UNCHANGED todo
    <3>1. CASE ~Deleting(mem) /\ cr.fin[First] = 0
      <4>1. mem.fin = NoFinalizers /\ todo = ProvisionOrder
        BY <1>4, <3>1, AliveFacts DEF FirstComesFirst, ProvisionPCs
      <4>2. Head(todo) = First /\ mem.fin[First] = 0
        BY <4>1, FirstFacts DEF First, NoFinalizers
      <4> QED
        BY <1>4, <4>2, FirstFacts
    <3> QED
      BY <3>1, AliveFacts
  <2>2. objects' \subseteq objects \/ (~Deleting(mem) /\ pc # "idle")
    BY <1>4
  <2>3. pc \in ProvisionPCs /\ pc # "idle" /\ pc # "reloadAppend" /\ pc' \notin CleanupPCs
    BY <1>4 DEF ProvisionPCs, CleanupPCs
  <2> QED
    BY <1>1, <1>4, <2>1, <2>2, <2>3, CopiesStayLife
<1>5. CASE SyncClusterRole
  BY <1>2, <1>4, <1>5 DEF SyncClusterRole, Synced, FailProvision, Requeue
<1>6. CASE SyncClusterRoleBinding
  BY <1>2, <1>4, <1>6, NextProvisionPC DEF SyncClusterRoleBinding, Synced, FailProvision, Requeue
<1> QED
  BY <1>3, <1>5, <1>6

(* The CR writes of the rest of the pipeline.                               *)
LEMMA PipelineLife ==
  ASSUME Alive, UpdateCheCRSpec \/ UpdateCheCRStatus, Exists(cr)' PROVE FirstLife'
<1>1. /\ UNCHANGED <<cache, objects>> /\ pc \in {"middle", "finish"}
      /\ cr \in CheCluster /\ mem \in CheCluster /\ revision + 1 \in Nat
  BY AliveFacts DEF UpdateCheCRSpec, UpdateCheCRStatus, Alive, TypeOK, TypeCR
<1>2. CASE Requeue /\ UNCHANGED cr
  BY <1>1, <1>2, LeaveLife DEF Requeue
<1>3. ASSUME Current(mem), NEW c \in CheCluster, c.state = cr.state, c.fin \in {cr.fin, mem.fin},
             cr' = c, mem' = c, UNCHANGED pc
      PROVE  FirstLife'
  <2>1. mem.state = cr.state
    BY <1>3, AliveFacts
  <2>2. cr.state = "live" => \/ c.fin = NoFinalizers /\ cr.fin[First] = 0
                             \/ c.fin[First] > 0
    <3> SUFFICES ASSUME cr.state = "live" PROVE \/ c.fin = NoFinalizers /\ cr.fin[First] = 0
                                                \/ c.fin[First] > 0
      OBVIOUS
    <3>1. ~Deleting(mem)
      BY <2>1 DEF Deleting
    <3>2. CASE cr.fin[First] = 0
      <4>1. cr.fin = NoFinalizers /\ mem.fin = NoFinalizers
        BY <1>1, <3>1, <3>2, AliveFacts DEF FirstComesFirst
      <4> QED
        BY <1>3, <3>2, <4>1
    <3>3. CASE cr.fin[First] > 0
      BY <1>3, <3>1, <3>3, AliveFacts
    <3> QED
      BY <3>2, <3>3, AliveFacts
  <2>3. Deleting(cr) /\ c.fin[First] = 0 => Clean
    <3>1. Deleting(mem) <=> Deleting(cr)
      BY <2>1 DEF Deleting
    <3> QED
      BY <1>3, <3>1, AliveFacts DEF FirstGoesLast
  <2>4. pc' \notin ProvisionPCs /\ pc' # "idle" /\ pc' \notin CleanupPCs
    BY <1>1, <1>3 DEF ProvisionPCs, CleanupPCs
  <2> QED
    BY <1>1, <1>3, <2>2, <2>3, <2>4, WriteLife
<1>4. CASE UpdateCheCRSpec
  <2>1. CASE Answer(mem) = "OK"
    <3>1. Current(mem) /\ mem.state = cr.state
      BY <2>1, AliveFacts DEF Answer, Current
    <3>2. mem' = [mem EXCEPT !.rv = revision + 1] /\ UNCHANGED pc /\ cr' \in {NoCR, mem'}
      BY <1>4, <2>1 DEF UpdateCheCRSpec
    <3>3. cr' = mem'
      BY <3>2, NoCRFields DEF Exists
    <3>4. mem' \in CheCluster /\ mem'.state = cr.state /\ mem'.fin = mem.fin
      BY <1>1, <3>1, <3>2, Touched
    <3> QED
      BY <1>3, <3>1, <3>2, <3>3, <3>4
  <2> QED
    BY <1>2, <1>4, <2>1 DEF UpdateCheCRSpec
<1>5. CASE UpdateCheCRStatus
  <2>1. CASE Current(mem)
    <3>1. cr' = [cr EXCEPT !.rv = revision + 1] /\ mem' = cr' /\ UNCHANGED pc
      BY <1>5, <2>1 DEF UpdateCheCRStatus, Current
    <3>2. cr' \in CheCluster /\ cr'.state = cr.state /\ cr'.fin = cr.fin
      BY <1>1, <3>1, Touched
    <3> QED
      BY <1>3, <2>1, <3>1, <3>2
  <2> QED
    BY <1>2, <1>5, <2>1 DEF UpdateCheCRStatus, Current
<1> QED
  BY <1>4, <1>5

LEMMA LifeGoesOn ==
  ASSUME Alive, [Next]_vars, ~CreateCR, Exists(cr)' PROVE FirstLife'
<1>1. CASE CacheSync \/ Resync \/ UNCHANGED vars
  BY <1>1, SyncLife DEF CacheSync, Resync, store, vars
<1>2. CASE Restart \/ ReturnEarly
  BY <1>2, LeaveLife DEF Restart, ReturnEarly, Done, Requeue, store
<1> QED
  BY <1>1, <1>2, UserLife, StartLife, CleanupLife, DropLife, AppendLife, ReloadLife,
     ProvisionLife, PipelineLife
  DEF Next, User, Reconcile, Cleanup, Provision

LEMMA OnlyUserCreates ==
  ASSUME TypeOK, [Next]_vars, ~CreateCR
  PROVE  UNCHANGED creations /\ (Exists(cr)' => Exists(cr))
<1>1. UNCHANGED creations
  BY DEF Next, User, DeleteCR, EditRoles, UserOp, CacheSync, Resync, Reconcile, Start,
     Cleanup, DeleteClusterRole, DeleteClusterRoleBinding, DeleteFinalizer,
     ReloadAndDelete, Provision, SyncClusterRole, SyncClusterRoleBinding, AppendFinalizer,
     ReloadAndAppend, UpdateCheCRSpec, UpdateCheCRStatus, ReturnEarly, Proceed, Restart,
     store, user, vars
<1>2. UNCHANGED cr \/ Exists(cr)
  BY DEF Next, User, DeleteCR, EditRoles, UserOp, CacheSync, Resync, Reconcile, Start,
     Cleanup, DeleteClusterRole, DeleteClusterRoleBinding, DeleteFinalizer,
     ReloadAndDelete, Provision, SyncClusterRole, SyncClusterRoleBinding, AppendFinalizer,
     ReloadAndAppend, UpdateCheCRSpec, UpdateCheCRStatus, ReturnEarly, Proceed, Restart,
     store, vars, FailProvision, StoreUnanswered, Answer
<1> QED
  BY <1>1, <1>2 DEF Exists

CleanStep ==
  FirstOfName /\ Deleting(cr) /\ ~Exists(cr') => \A g \in Permissions : ObjectsOf(g) = {}

LEMMA LastStepIsClean ==
  ASSUME Alive, [Next]_vars, Deleting(cr), ~Exists(cr') PROVE Clean
<1>1. /\ cr \in CheCluster /\ mem \in CheCluster /\ revision + 1 \in Nat /\ First \in Groups
      /\ TypeOK /\ TypeCR /\ Exists(cr)
  BY AliveFacts, FirstFacts DEF Alive, TypeOK, TypeCR
<1>2. CASE DeleteFinalizer
  <2>1. UNCHANGED cr \/ (Answer(Dropped) = "OK" /\ Store(Dropped))
    BY <1>2 DEF DeleteFinalizer, StoreUnanswered, Dropped
  <2>2. Answer(Dropped) = "OK" /\ Store(Dropped)
    BY <1>1, <2>1 DEF Exists
  <2>3. pc = "drop" /\ Dropped \in CheCluster /\ Dropped.state = mem.state /\ Dropped.rv = mem.rv
    BY <1>1, <1>2, DropFields DEF DeleteFinalizer, CleanupPCs
  <2>4. Current(mem) /\ mem.state = cr.state
    BY <2>2, <2>3, AliveFacts DEF Answer, Current
  <2>5. Dropped.fin = NoFinalizers
    BY <1>1, <2>2, <2>3, <2>4, StoreFields DEF Exists
  <2>6. Dropped.fin[First] = 0
    BY <1>1, <2>5 DEF NoFinalizers
  <2> QED
    BY <2>3, <2>4, <2>6, DropIsClean
<1>3. CASE AppendFinalizer
  <2>1. UNCHANGED cr \/ (Answer(Appended) = "OK" /\ Store(Appended))
    BY <1>3 DEF AppendFinalizer, StoreUnanswered, Appended
  <2>2. Answer(Appended) = "OK" /\ Store(Appended)
    BY <1>1, <2>1 DEF Exists
  <2>3. /\ pc = "append" /\ Appended \in CheCluster /\ Appended.state = mem.state
        /\ Appended.rv = mem.rv
    BY <1>1, <1>3, DropFields DEF AppendFinalizer, ProvisionPCs
  <2>4. Current(mem) /\ mem.state = cr.state
    BY <2>2, <2>3, AliveFacts DEF Answer, Current
  <2>5. Appended.fin = NoFinalizers
    BY <1>1, <2>2, <2>3, <2>4, StoreFields DEF Exists
  <2>6. Appended.fin[First] = 0
    BY <1>1, <2>5 DEF NoFinalizers
  <2>7. Deleting(mem) /\ mem.fin[First] = 0
    BY <2>3, <2>4, <2>6, AppendIsLater DEF Deleting
  <2> QED
    BY <2>4, <2>7, AliveFacts DEF FirstGoesLast
<1>4. CASE UpdateCheCRSpec
  <2>1. \/ UNCHANGED cr
        \/ Answer(mem) = "OK" /\ mem.fin = NoFinalizers
        \/ /\ Answer(mem) = "OK" /\ cr' = mem' /\ mem' = [mem EXCEPT !.rv = revision + 1]
    BY <1>4 DEF UpdateCheCRSpec
  <2>2. Answer(mem) = "OK" => Current(mem) /\ mem.state = cr.state
    BY AliveFacts DEF Answer, Current
  <2>3. Answer(mem) = "OK" /\ mem.fin = NoFinalizers
    <3>1. [mem EXCEPT !.rv = revision + 1].state = mem.state
      BY <1>1, Touched
    <3> QED
      BY <1>1, <2>1, <2>2, <3>1 DEF Exists
  <2>4. mem.fin[First] = 0 /\ Deleting(mem)
    BY <1>1, <2>2, <2>3 DEF NoFinalizers, Deleting
  <2> QED
    BY <2>2, <2>3, <2>4, AliveFacts DEF FirstGoesLast
<1>5. CASE UpdateCheCRStatus
  <2>1. UNCHANGED cr \/ cr' = [cr EXCEPT !.rv = revision + 1]
    BY <1>5 DEF UpdateCheCRStatus
  <2>2. [cr EXCEPT !.rv = revision + 1].state = cr.state
    BY <1>1, Touched
  <2> QED
    BY <1>1, <2>1, <2>2 DEF Exists
<1>6. CASE EditRoles
  <2>1. PICK l \in RoleLists : cr' = [cr EXCEPT !.roles = l, !.rv = revision + 1]
    BY <1>6 DEF EditRoles
  <2>2. cr'.state = cr.state
    BY <1>1, <2>1, Edited
  <2> QED
    BY <1>1, <2>2 DEF Exists
<1>7. ~CreateCR /\ ~DeleteCR
  BY <1>1 DEF CreateCR, DeleteCR
<1>8. UNCHANGED cr => Exists(cr')
  BY <1>1 DEF Exists
<1>9. \/ UNCHANGED cr \/ DeleteCR \/ EditRoles \/ CreateCR \/ DeleteFinalizer
      \/ AppendFinalizer \/ UpdateCheCRSpec \/ UpdateCheCRStatus
  BY DEF Next, User, CacheSync, Resync, Restart, Reconcile, Start, Cleanup,
     DeleteClusterRole, DeleteClusterRoleBinding, ReloadAndDelete, Provision,
     SyncClusterRole, SyncClusterRoleBinding, ReloadAndAppend, FailProvision,
     ReturnEarly, Proceed, store, vars
<1> QED
  BY <1>2, <1>3, <1>4, <1>5, <1>6, <1>7, <1>8, <1>9

LEMMA CleanSafe ==
  ASSUME GetMayFail = FALSE, TypeOK, HeldInv, CleanInv, [Next]_vars
  PROVE  CleanInv'
<1>1. LoopInv' /\ Unborn'
  BY LoopSafe, UnbornSafe DEF CleanInv
<1>2. ASSUME FirstOfName', Exists(cr)' PROVE FirstLife'
  <2>1. CASE CreateCR
    <3>1. creations \in Nat /\ MaxCreations \in Nat /\ creations' = creations - 1
      BY <2>1, FinalizersAssumption DEF TypeOK, TypeBounds, CreateCR
    <3>2. creations = MaxCreations
      BY <1>2, <3>1 DEF FirstOfName
    <3> QED
      BY <2>1, <3>2, CreateLife DEF CleanInv
  <2>2. CASE ~CreateCR
    <3>1. FirstOfName /\ Exists(cr)
      BY <1>2, <2>2, OnlyUserCreates DEF FirstOfName
    <3>2. Alive
      BY <3>1 DEF Alive, CleanInv
    <3> QED
      BY <1>2, <2>2, <3>2, LifeGoesOn
  <2> QED
    BY <2>1, <2>2
<1> QED
  BY <1>1, <1>2 DEF CleanInv

(* When its finalizers let the first CR of a name go, the ClusterRole and    *)
(* the ClusterRoleBinding of every group are gone, also those whose          *)
(* finalizer never reached the CR: the finalizer of the group made first     *)
(* comes before any other, and is taken in a pass that has removed all.     *)
THEOREM GoneIsClean == GetMayFail = FALSE /\ Spec => GoneMeansClean
<1> SUFFICES ASSUME GetMayFail = FALSE PROVE Spec => GoneMeansClean
  OBVIOUS
<1> DEFINE Inv == TypeOK /\ HeldInv /\ CleanInv
<1>1. ASSUME Init PROVE Inv
  <2>1. TypeOK /\ HeldInv
    BY <1>1, InitType, InitSafe
  <2>2. ~Exists(cr) /\ pc = "idle" /\ MaxCreations \in Nat
    BY <1>1, NoCRFields, FinalizersAssumption DEF Init, Exists
  <2>3. Unborn /\ LoopInv
    BY <1>1, <2>2 DEF Init, Unborn, LoopInv, CleanupPCs
  <2> QED
    BY <2>1, <2>2, <2>3 DEF CleanInv
<1>2. Inv /\ [Next]_vars => Inv'
  BY NextTypeBounds, NextObjects, NextTypeCR, NextTypeControl, NextSafe, CleanSafe DEF TypeOK
<1>3. Inv /\ [Next]_vars => [CleanStep]_vars
  <2> SUFFICES ASSUME Inv, [Next]_vars, FirstOfName, Deleting(cr), ~Exists(cr')
               PROVE  \A g \in Permissions : ObjectsOf(g) = {}
    BY DEF CleanStep
  <2>1. Alive
    BY DEF CleanInv, Alive, Exists, Deleting
  <2> QED
    BY <2>1, LastStepIsClean DEF Clean
<1>4. GoneMeansClean <=> [][CleanStep]_vars
  BY DEF GoneMeansClean, CleanStep
<1> QED
  BY <1>1, <1>2, <1>3, <1>4, PTL DEF Spec

=============================================================================
