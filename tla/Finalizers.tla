----------------------------- MODULE Finalizers -----------------------------
(***************************************************************************)
(* The life of a CheCluster custom resource (CR) and of the cluster-scoped *)
(* objects its finalizers stand for.                                       *)
(*                                                                         *)
(* Kubernetes garbage-collects the objects a CR owns, but an owner         *)
(* reference cannot lead out of a namespace: ClusterRoles and              *)
(* ClusterRoleBindings are removed by the operator, which holds the CR     *)
(* back with a finalizer per group of objects until they are gone.         *)
(*                                                                         *)
(* One worker reconciles.  It reads the CR from an informer cache that     *)
(* trails the API server, works on that copy, and writes the whole copy    *)
(* back under optimistic concurrency.  The user edits and deletes the CR   *)
(* between any two calls, a call may fail, and the process may restart.    *)
(***************************************************************************)
EXTENDS Naturals, Sequences, FiniteSets

CONSTANTS
  Permissions,     \* groups of a ClusterRole and its ClusterRoleBinding
  ProvisionOrder,  \* the order reconcileWorkspacePermissions creates them in
  CleanupOrder,    \* the order the finalizers pass removes them in
  Roles,           \* names that spec.server.cheClusterRoles may list
  RoleLists,       \* the values of spec.server.cheClusterRoles in use
  GetMayFail,      \* may a read of a cluster object fail (not "not found")?
  MaxCreations,    \* bound on how often the user creates the CR
  MaxUserOps,      \* bound on what the user does to an existing CR
  MaxSpecWrites,   \* bound on the CR writes of the rest of the pipeline
  MaxFaults        \* bound on failed calls and restarts

Groups == Permissions \cup Roles

Elements(s) == {s[i] : i \in DOMAIN s}

ASSUME FinalizersAssumption ==
  /\ Permissions \cap Roles = {}
  /\ ProvisionOrder \in Seq(Permissions) /\ Elements(ProvisionOrder) = Permissions
  /\ CleanupOrder \in Seq(Permissions) /\ Elements(CleanupOrder) = Permissions
  /\ ProvisionOrder # <<>> /\ CleanupOrder # <<>>
  /\ RoleLists \subseteq Seq(Roles)
  /\ <<>> \in RoleLists
  /\ GetMayFail \in BOOLEAN
  /\ MaxCreations \in Nat /\ MaxUserOps \in Nat
  /\ MaxSpecWrites \in Nat /\ MaxFaults \in Nat

(* The group that is provisioned first is the last one removed.            *)
ASSUME OrderAssumption ==
  \A i \in DOMAIN CleanupOrder :
    CleanupOrder[i] = Head(ProvisionOrder) <=> i = Len(CleanupOrder)

VARIABLES
  cr,        \* the CR in the API server
  revision,  \* the API server's revision counter
  cache,     \* the CR in the informer cache
  mem,       \* deployContext.CheCluster
  objects,   \* the cluster-scoped objects that exist
  pc,        \* the call the worker makes next
  todo,      \* what is left of the loop the worker is in
  queued,    \* is the reconcile request in the work queue?
  creations, userOps, specWrites, faults   \* what is left of the bounds

vars == <<cr, revision, cache, mem, objects, pc, todo, queued,
          creations, userOps, specWrites, faults>>

user   == <<creations, userOps>>
store  == <<cr, revision, user>>
worker == <<mem, pc, todo, queued>>

(* metadata.finalizers is a list, which may hold a name twice: fin counts.  *)
CheCluster == [state: {"absent", "live", "deleting"}, rv: Nat,
               fin: [Groups -> Nat], roles: RoleLists]
WithFinalizer(c, g, n) == [c EXCEPT !.fin = [@ EXCEPT ![g] = n]]
Exists(c)   == c.state # "absent"
Deleting(c) == c.state = "deleting"

NoFinalizers == [g \in Groups |-> 0]
NoCR == [state |-> "absent", rv |-> 0, fin |-> NoFinalizers, roles |-> <<>>]

CleanupPCs   == {"deleteRole", "deleteBinding", "drop", "reloadDrop"}
ProvisionPCs == {"syncRole", "syncBinding", "append", "reloadAppend"}
PCs == CleanupPCs \cup ProvisionPCs \cup {"idle", "middle", "finish"}

Role(g)    == <<g, "ClusterRole">>
Binding(g) == <<g, "ClusterRoleBinding">>
Objects == {Role(g) : g \in Permissions} \cup {Binding(g) : g \in Groups}
ObjectsOf(g) == {Role(g), Binding(g)} \cap objects

Init ==
  /\ cr = NoCR /\ cache = NoCR /\ mem = NoCR
  /\ revision = 0
  /\ objects = {}
  /\ pc = "idle" /\ todo = <<>> /\ queued = FALSE
  /\ creations = MaxCreations
  /\ userOps = MaxUserOps
  /\ specWrites = MaxSpecWrites
  /\ faults = MaxFaults

-----------------------------------------------------------------------------
(* The user and the API server.                                            *)

CreateCR ==
  /\ ~Exists(cr)
  /\ creations > 0 /\ creations' = creations - 1
  /\ revision' = revision + 1
  /\ \E l \in RoleLists :
       cr' = [NoCR EXCEPT !.state = "live", !.rv = revision + 1, !.roles = l]
  /\ UNCHANGED <<cache, objects, worker, userOps, specWrites, faults>>

UserOp ==
  /\ Exists(cr)
  /\ userOps > 0 /\ userOps' = userOps - 1
  /\ revision' = revision + 1
  /\ UNCHANGED <<cache, objects, worker, creations, specWrites, faults>>

(* A CR with finalizers is only marked; one without is removed at once.    *)
DeleteCR ==
  /\ UserOp
  /\ ~Deleting(cr)
  /\ cr' = IF cr.fin = NoFinalizers THEN NoCR
           ELSE [cr EXCEPT !.state = "deleting", !.rv = revision + 1]

EditRoles ==
  /\ UserOp
  /\ \E l \in RoleLists \ {cr.roles} :
       cr' = [cr EXCEPT !.roles = l, !.rv = revision + 1]

(* The watch delivers the current state and enqueues the request.          *)
CacheSync ==
  /\ cache # cr
  /\ cache' = cr
  /\ queued' = TRUE
  /\ UNCHANGED <<store, mem, objects, pc, todo, specWrites, faults>>

(* The informer's periodic resync enqueues the request without an event.   *)
Resync ==
  /\ Exists(cache) /\ ~queued
  /\ queued' = TRUE
  /\ UNCHANGED <<store, cache, mem, objects, pc, todo, specWrites, faults>>

(* Client.Update(new), new being the worker's copy: the answer it gets.    *)
Answer(new) ==
  IF ~Exists(cr) THEN "NotFound"
  ELSE IF new.rv # cr.rv THEN "Conflict"
  ELSE IF Deleting(cr) /\ \E g \in Groups : new.fin[g] > 0 /\ cr.fin[g] = 0
       THEN "Invalid"   \* no finalizer may be added to a CR under deletion
  ELSE "OK"

(* What an accepted update stores: nothing new under the same revision,    *)
(* and no CR once the last finalizer of a deleted one is gone.             *)
Stored(new) == IF new = cr THEN cr ELSE [new EXCEPT !.rv = revision + 1]
Store(new) ==
  /\ revision' = IF new = cr THEN revision ELSE revision + 1
  /\ cr' = IF Deleting(cr) /\ new.fin = NoFinalizers THEN NoCR ELSE Stored(new)

(* A call that fails; a failed update may have been stored all the same.   *)
Fault == faults > 0 /\ faults' = faults - 1
StoreUnanswered(new) ==
  \/ UNCHANGED <<cr, revision>>
  \/ Answer(new) = "OK" /\ Store(new)

-----------------------------------------------------------------------------
(* Control flow of Reconcile.                                              *)

Leave   == pc' = "idle" /\ todo' = <<>> /\ mem' = NoCR
Done    == Leave /\ UNCHANGED queued
Requeue == Leave /\ queued' = TRUE

Enter(rest, firstRole, firstBinding, after) ==
  /\ todo' = rest
  /\ pc' = IF rest = <<>> THEN after
           ELSE IF Head(rest) \in Permissions THEN firstRole ELSE firstBinding

EnterCleanup(rest)   == Enter(rest, "deleteRole", "deleteBinding", "middle")
(* Mutant: the roles of the CR are given ClusterRoles too.                 *)
EnterProvisionOwnRoles(rest) == Enter(rest, "syncRole", "syncRole", "finish")
EnterProvision(rest) == Enter(rest, "syncRole", "syncBinding", "finish")

(* Mutant: the finalizers pass forgets the optional cluster roles.         *)
NoRolesToClean(m) == <<>>

(* ReconcileClusterRoleBindingFinalizer runs for the listed roles only, and *)
(* only on a copy that is marked as being deleted.                          *)
RolesToClean(m) == IF Deleting(m) THEN m.roles ELSE <<>>

(* The head of the cleanup loop is done; a failed permission group ends     *)
(* reconcileWorkspacePermissionsFinalizers, not the roles that follow it.   *)
NextCleanup(m) ==
  EnterCleanup(
    IF Head(todo) \in Permissions /\ Tail(todo) = <<>> THEN RolesToClean(m)
    ELSE IF Head(todo) \in Permissions \/ Deleting(m) THEN Tail(todo)
    ELSE <<>>)

(* Mutant: a permission group that fails does not stop the ones after it.  *)
FailCleanupAndGoOn(m) == NextCleanup(m)

FailCleanup(m) ==
  IF Head(todo) \in Permissions THEN EnterCleanup(RolesToClean(m))
  ELSE NextCleanup(m)

NextProvision(m) ==
  EnterProvision(IF Head(todo) \in Permissions /\ Tail(todo) = <<>>
                 THEN m.roles ELSE Tail(todo))

Start ==
  /\ pc = "idle" /\ queued
  /\ queued' = FALSE
  /\ mem' = cache
  /\ IF ~Exists(cache) THEN UNCHANGED <<pc, todo>>
     ELSE EnterCleanup(IF Deleting(cache) THEN CleanupOrder ELSE <<>>)
  /\ UNCHANGED <<store, cache, objects, specWrites, faults>>

-----------------------------------------------------------------------------
(* Cleanup: remove*Permissions and DeleteObjectWithFinalizer.              *)

(* Mutant: a failed delete of the ClusterRole is logged and forgotten.     *)
DeleteClusterRoleAnyway ==
  /\ pc = "deleteRole"
  /\ \/ objects' = objects \ {Role(Head(todo))} /\ UNCHANGED faults
     \/ UNCHANGED objects /\ Fault
  /\ pc' = "deleteBinding"
  /\ UNCHANGED <<store, cache, mem, todo, queued, specWrites>>

(* doDeleteByKey: a failed read counts as "does not exist".                *)
DeleteClusterRole ==
  /\ pc = "deleteRole"
  /\ \/ /\ objects' = objects \ {Role(Head(todo))}
        /\ pc' = "deleteBinding"
        /\ UNCHANGED <<todo, faults>>
     \/ /\ GetMayFail /\ Fault
        /\ pc' = "deleteBinding"
        /\ UNCHANGED <<objects, todo>>
     \/ /\ Role(Head(todo)) \in objects /\ Fault
        /\ FailCleanup(mem)
        /\ UNCHANGED objects
  /\ UNCHANGED <<store, cache, mem, queued, specWrites>>

(* Mutant: a finalizer that is not there ends the pass.                    *)
EnterDropOrReturn ==
  IF mem.fin[Head(todo)] > 0
  THEN pc' = "drop" /\ UNCHANGED todo
  ELSE EnterCleanup(<<>>)

(* DeleteFinalizer asks whether the copy holds the finalizer, once.        *)
EnterDrop ==
  IF mem.fin[Head(todo)] > 0
  THEN pc' = "drop" /\ UNCHANGED todo
  ELSE NextCleanup(mem)

(* A failed delete stops a permission group; DeleteObjectWithFinalizer logs *)
(* it and drops the finalizer of a role's binding nevertheless.             *)
DeleteClusterRoleBinding ==
  /\ pc = "deleteBinding"
  /\ \/ /\ objects' = objects \ {Binding(Head(todo))}
        /\ EnterDrop
        /\ UNCHANGED faults
     \/ /\ GetMayFail /\ Fault
        /\ EnterDrop
        /\ UNCHANGED objects
     \/ /\ Binding(Head(todo)) \in objects /\ Fault
        /\ IF Head(todo) \in Permissions THEN FailCleanup(mem) ELSE EnterDrop
        /\ UNCHANGED objects
  /\ UNCHANGED <<store, cache, mem, queued, specWrites>>

(* One turn of DeleteFinalizer's loop; a conflict goes on to the reload.   *)
DeleteFinalizer ==
  LET new == WithFinalizer(mem, Head(todo), 0) IN
  /\ pc = "drop"
  /\ \/ /\ Answer(new) = "OK"
        /\ Store(new) /\ mem' = Stored(new)
        /\ NextCleanup(new)
        /\ UNCHANGED faults
     \/ /\ Answer(new) = "Conflict"
        /\ pc' = "reloadDrop" /\ mem' = new
        /\ UNCHANGED <<cr, revision, todo, faults>>
     \/ /\ \/ Answer(new) = "NotFound" /\ UNCHANGED <<cr, revision, faults>>
           \/ Fault /\ StoreUnanswered(new)
        /\ mem' = new
        /\ FailCleanup(new)
  /\ UNCHANGED <<cache, objects, queued, user, specWrites>>

(* ReloadCheClusterCR reads the cache; the loop goes on without asking     *)
(* again what the copy holds.                                              *)
ReloadAndDelete ==
  /\ pc = "reloadDrop"
  /\ IF Exists(cache)
     THEN mem' = cache /\ pc' = "drop" /\ UNCHANGED todo
     ELSE FailCleanup(mem) /\ UNCHANGED mem
  /\ UNCHANGED <<store, cache, objects, queued, specWrites, faults>>

-----------------------------------------------------------------------------
(* The part of Reconcile between the finalizers and the permissions, and   *)
(* the part after them: it may write the CR, return early, or go on.       *)

UpdateCheCRSpec ==
  /\ pc \in {"middle", "finish"}
  /\ specWrites > 0 /\ specWrites' = specWrites - 1
  /\ \/ /\ Answer(mem) = "OK"
        /\ mem' = [mem EXCEPT !.rv = revision + 1]
        /\ cr' = IF Deleting(cr) /\ mem.fin = NoFinalizers THEN NoCR ELSE mem'
        /\ revision' = revision + 1
        /\ UNCHANGED <<pc, todo, queued>>
     \/ /\ Answer(mem) # "OK"
        /\ Requeue
        /\ UNCHANGED <<cr, revision>>
  /\ UNCHANGED <<cache, objects, user, faults>>

(* A status write leaves spec and finalizers alone, and answers with the   *)
(* CR as the server has it.                                                *)
UpdateCheCRStatus ==
  /\ pc \in {"middle", "finish"}
  /\ specWrites > 0 /\ specWrites' = specWrites - 1
  /\ \/ /\ Exists(cr) /\ mem.rv = cr.rv
        /\ cr' = [cr EXCEPT !.rv = revision + 1]
        /\ mem' = cr'
        /\ revision' = revision + 1
        /\ UNCHANGED <<pc, todo, queued>>
     \/ /\ ~Exists(cr) \/ mem.rv # cr.rv
        /\ Requeue
        /\ UNCHANGED <<cr, revision>>
  /\ UNCHANGED <<cache, objects, user, faults>>

ReturnEarly ==
  /\ pc \in {"middle", "finish"}
  /\ Done \/ Requeue
  /\ UNCHANGED <<store, cache, objects, specWrites, faults>>

Proceed ==
  /\ pc = "middle"
  /\ EnterProvision(ProvisionOrder)
  /\ UNCHANGED <<store, cache, mem, objects, queued, specWrites, faults>>

-----------------------------------------------------------------------------
(* Provisioning: delegate*Permissions and SyncAndAddFinalizer.             *)

FailProvision == Requeue /\ UNCHANGED <<cr, revision, objects>>

(* Sync does nothing on a copy that is marked as being deleted.            *)
Synced(o) == objects' = IF Deleting(mem) THEN objects ELSE objects \cup {o}

SyncClusterRole ==
  /\ pc = "syncRole"
  /\ \/ /\ Synced(Role(Head(todo)))
        /\ pc' = "syncBinding"
        /\ UNCHANGED <<cr, revision, mem, todo, queued, faults>>
     \/ ~Deleting(mem) /\ Fault /\ FailProvision
  /\ UNCHANGED <<cache, user, specWrites>>

(* AppendFinalizer asks whether the copy holds the finalizer, once.  The   *)
(* permissions call it on any copy, SyncAndAddFinalizer on a live one.     *)
SyncClusterRoleBinding ==
  LET g == Head(todo) IN
  /\ pc = "syncBinding"
  /\ \/ /\ Synced(Binding(g))
        /\ IF mem.fin[g] = 0 /\ (g \in Permissions \/ ~Deleting(mem))
           THEN pc' = "append" /\ UNCHANGED todo
           ELSE NextProvision(mem)
        /\ UNCHANGED <<cr, revision, mem, queued, faults>>
     \/ ~Deleting(mem) /\ Fault /\ FailProvision
  /\ UNCHANGED <<cache, user, specWrites>>

AppendFinalizer ==
  LET new == WithFinalizer(mem, Head(todo), mem.fin[Head(todo)] + 1) IN
  /\ pc = "append"
  /\ \/ /\ Answer(new) = "OK"
        /\ Store(new) /\ mem' = Stored(new)
        /\ NextProvision(new)
        /\ UNCHANGED <<objects, queued, faults>>
     \/ /\ Answer(new) = "Conflict"
        /\ pc' = "reloadAppend" /\ mem' = new
        /\ UNCHANGED <<cr, revision, objects, todo, queued, faults>>
     \/ /\ \/ /\ Answer(new) \in {"NotFound", "Invalid"}
              /\ UNCHANGED <<cr, revision, faults>>
           \/ Fault /\ StoreUnanswered(new)
        /\ Requeue
        /\ UNCHANGED objects
  /\ UNCHANGED <<cache, user, specWrites>>

ReloadAndAppend ==
  /\ pc = "reloadAppend"
  /\ IF Exists(cache)
     THEN mem' = cache /\ pc' = "append" /\ UNCHANGED <<todo, queued>>
     ELSE Requeue
  /\ UNCHANGED <<store, cache, objects, specWrites, faults>>

(* The process restarts: the new one lists the CR and enqueues it.         *)
Restart ==
  /\ Fault
  /\ Leave
  /\ queued' = Exists(cr)
  /\ cache' = cr
  /\ UNCHANGED <<store, objects, specWrites>>

-----------------------------------------------------------------------------
User == CreateCR \/ DeleteCR \/ EditRoles

Cleanup ==
  DeleteClusterRole \/ DeleteClusterRoleBinding \/ DeleteFinalizer \/ ReloadAndDelete

Provision ==
  SyncClusterRole \/ SyncClusterRoleBinding \/ AppendFinalizer \/ ReloadAndAppend

Reconcile ==
  \/ Start \/ Cleanup \/ Provision
  \/ UpdateCheCRSpec \/ UpdateCheCRStatus \/ ReturnEarly \/ Proceed

Next == User \/ CacheSync \/ Resync \/ Reconcile \/ Restart

Spec == Init /\ [][Next]_vars

(* The worker's goroutine is scheduled, the watch delivers, the informer   *)
(* resyncs.  Nothing is assumed of the user, nor that a call fails.        *)
FairSpec ==
  /\ Spec
  /\ WF_vars(CacheSync) /\ WF_vars(Resync) /\ WF_vars(Reconcile)

-----------------------------------------------------------------------------
TypeCR ==
  /\ cr \in CheCluster /\ cache \in CheCluster /\ mem \in CheCluster
  /\ revision \in Nat

TypeControl ==
  /\ pc \in PCs
  /\ todo \in Seq(Groups)
  /\ pc \in CleanupPCs \cup ProvisionPCs => todo # <<>>
  /\ pc \in {"deleteRole", "syncRole"} => Head(todo) \in Permissions
  /\ queued \in BOOLEAN

TypeBounds ==
  /\ creations \in Nat /\ userOps \in Nat
  /\ specWrites \in Nat /\ faults \in Nat

TypeOK == TypeCR /\ objects \subseteq Objects /\ TypeControl /\ TypeBounds

Held(g) == Exists(cr) /\ cr.fin[g] > 0

(* A permission group's finalizer leaves the CR, by an update or with the  *)
(* CR itself, only when the group's ClusterRole and ClusterRoleBinding are *)
(* gone: what DeleteFinalizer at the end of remove*Permissions is for.     *)
HeldUntilGone ==
  [][\A g \in Permissions : Held(g) /\ ~Held(g)' => ObjectsOf(g) = {}]_vars

(* When the finalizers let a deleted CR go, no permission object is left,  *)
(* not even one whose finalizer never reached the CR: the group created    *)
(* first is the group removed last, and its finalizer covers the others.   *)
(* So it is for the first CR of the name.  The next one may get the second *)
(* finalizer alone, from a pass that began on the copy of the first CR.    *)
FirstOfName == creations = MaxCreations - 1
GoneMeansClean ==
  [][FirstOfName /\ Deleting(cr) /\ ~Exists(cr') =>
       \A g \in Permissions : ObjectsOf(g) = {}]_vars

(* Why HeldUntilGone holds when no read is mistaken for an absence.  Only   *)
(* the CR of a given revision can be overwritten, so a copy matters while   *)
(* it has the CR's revision.  Such a copy agrees with the CR on deletion.   *)
Current(c) == Exists(cr) /\ c.rv = cr.rv

Revisions ==
  /\ cr.rv <= revision /\ cache.rv <= revision /\ mem.rv <= revision
  /\ \A c \in {cr, cache, mem} : Exists(c) <=> c.rv > 0

CopiesAgree ==
  /\ Current(cache) => cache = cr
  /\ Current(mem) => mem.state = cr.state

(* A worker that cleans up while the CR is live is behind: it works for a   *)
(* CR that is gone, and the new CR of the same name has no finalizer yet.   *)
NoneToDrop ==
  /\ cr.state = "live" /\ Deleting(cache) => cr.fin = NoFinalizers /\ ~Current(mem)
  /\ cr.state = "live" /\ pc \in CleanupPCs => cr.fin = NoFinalizers
  /\ pc \in CleanupPCs /\ Current(mem) => \A g \in Groups : mem.fin[g] <= cr.fin[g]

(* A current copy without a finalizer the CR has is being deleted, and the  *)
(* objects the finalizer stands for are gone.                               *)
CleanedInCopy ==
  \A g \in Permissions :
    Current(mem) /\ cr.fin[g] > 0 /\ mem.fin[g] = 0 =>
      Deleting(mem) /\ ObjectsOf(g) = {}

CleanedInLoop ==
  /\ pc = "deleteBinding" /\ Head(todo) \in Permissions => Role(Head(todo)) \notin objects
  /\ pc \in {"drop", "reloadDrop"} /\ Head(todo) \in Permissions =>
       ObjectsOf(Head(todo)) = {}

HeldInv ==
  Revisions /\ CopiesAgree /\ NoneToDrop /\ CleanedInCopy /\ CleanedInLoop

(* The finalizers of the optional roles are found through the list that the *)
(* CR has at its deletion: that of a role taken off before is found by none. *)
RoleForgotten == \E r \in Roles : cr.fin[r] > 0 /\ r \notin Elements(cr.roles)

(* The deletion of a CR completes, whatever failed before: a resync starts  *)
(* reconcileFinalizers over.  What can hold it is a role forgotten.         *)
DeletionCompletes == Deleting(cr) ~> ~Exists(cr) \/ RoleForgotten

(* When no call fails, the deletion of the first CR of the name leaves      *)
(* nothing behind, the bindings of the optional roles included, if the user *)
(* never edits the list: a role taken off it while its binding is made has  *)
(* no finalizer.                                                           *)
OnlyDeleted == FirstOfName /\ userOps = MaxUserOps - 1
DeletionCleansUp ==
  Deleting(cr) /\ OnlyDeleted ~> objects = {} \/ ~OnlyDeleted \/ faults < MaxFaults
=============================================================================
