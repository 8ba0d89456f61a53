--------------------------- MODULE DevWorkspace ---------------------------
(***************************************************************************)
(* The Dev Workspace operator (deploy/dev-workspace/dev_workspace.go): a    *)
(* set of objects outside the namespace of any CheCluster, of which a       *)
(* cluster has one copy, while every CheCluster has an operator process     *)
(* that may want to install it, from the files of its own version.  An      *)
(* object carries the namespace of the CheCluster that wrote it last and    *)
(* the hash of the file it was made from, and syncObject tells from these,  *)
(* and from the CheClusters it lists, whether to write.                     *)
(*                                                                         *)
(* Everything here is read from the API server, and each call is a step.    *)
(* What a process knows of a file it keeps in memory (cachedObj), and the   *)
(* client fills that copy with the answer of the API server.               *)
(***************************************************************************)
EXTENDS Naturals, Sequences

CONSTANTS
  CheClusters,   \* a CheCluster and the operator in its namespace
  Items,         \* what is synchronised, in the order of syncItems, syncDwCheItems
  Namespaces, Files, Manager, ManagerCRD,  \* the kinds of items; the CheManager and its CRD
  MaxVersion,    \* versions of the files: 1..MaxVersion; 0 is an older one
  MaxUserOps,    \* bound on what users and administrators do
  MaxMishaps     \* bound on failed calls and restarts

ASSUME DevWorkspaceAssumption ==
  /\ ManagerCRD \in Files /\ Namespaces \cap Files = {}
  /\ Manager \notin Files \cup Namespaces /\ "none" \notin CheClusters
  /\ Items \in Seq(Files \cup Namespaces \cup {Manager}) /\ Items # <<>>
  /\ MaxVersion \in Nat \ {0} /\ MaxUserOps \in Nat /\ MaxMishaps \in Nat

VARIABLES
  cr,            \* per CheCluster: is spec.devWorkspace.enable set, is it being deleted?
  version,       \* per operator: the version of its files
  cluster,       \* per item: who wrote it, from which version
  webhook, webTerminal,  \* the webhook; the Subscription of the Web Terminal operator
  blueprint,     \* per operator and file: has cachedObj its resourceVersion, its kind?
  pc, at, seen,  \* per operator: next call, item, the CR of this pass
  read,          \* per operator: what Sync got: "none", "fresh", or changed since
  lost,          \* history: files that another operator took over, since the last user op
  userOps, mishaps

worker == <<pc, at, seen, read>>
users  == <<cr, version, webTerminal>>
vars == <<users, cluster, webhook, blueprint, worker, lost, userOps, mishaps>>

Objects  == Namespaces \cup Files \cup {Manager}
(* The switch is off also if there is no CheCluster; deleting: with it on.  *)
CRs      == {"off", "on", "deleting"}
Enabled(c) == cr[c] # "off"
Absent   == [owner |-> "none", hash |-> 0, there |-> FALSE]
Stored   == [owner: CheClusters \cup {"none"}, hash: 0..MaxVersion, there: BOOLEAN]
(* cachedObj: as read from the file; with the resourceVersion of a failed   *)
(* update; or as the API server answered, without the object's kind.       *)
Blueprints == {"clean", "versioned", "decoded"}
Item(c)  == Items[at[c]]

Init ==
  /\ cr \in [CheClusters -> {"off", "on"}]
  /\ version \in [CheClusters -> 1..MaxVersion]
  /\ \/ cluster = [o \in Objects |-> Absent] /\ webhook = FALSE
     \/ \E w \in CheClusters \cup {"none"} :
          /\ cluster = [o \in Objects |-> [owner |-> w, hash |-> 0, there |-> TRUE]]
          /\ webhook = TRUE
  /\ webTerminal = FALSE
  /\ blueprint = [c \in CheClusters |-> [o \in Files |-> "clean"]]
  /\ pc = [c \in CheClusters |-> "idle"] /\ at = [c \in CheClusters |-> 1]
  /\ seen = [c \in CheClusters |-> "off"] /\ read = [c \in CheClusters |-> "none"]
  /\ lost = [c \in CheClusters |-> {}]
  /\ userOps = MaxUserOps /\ mishaps = MaxMishaps

-----------------------------------------------------------------------------
(* Users, administrators, and the controller that is installed here.       *)

UserOp ==
  /\ userOps > 0 /\ userOps' = userOps - 1
  /\ lost' = [c \in CheClusters |-> {}]
  /\ UNCHANGED <<webhook, mishaps>>

EditCR(c) ==
  /\ UserOp
  /\ \/ cr[c] = "on"  /\ cr' = [cr EXCEPT ![c] = "off"]
     \/ cr[c] = "off" /\ cr' = [cr EXCEPT ![c] = "on"]
     \/ cr[c] = "on"  /\ cr' = [cr EXCEPT ![c] = "deleting"]
  /\ UNCHANGED <<version, webTerminal, cluster, blueprint, worker>>

(* The last finalizer of a CR goes (module Finalizers).                    *)
CRGoes(c) ==
  /\ cr[c] = "deleting" /\ cr' = [cr EXCEPT ![c] = "off"]
  /\ UNCHANGED <<version, webTerminal, cluster, webhook, blueprint, worker, lost,
                 userOps, mishaps>>

(* Who has read an object will find it changed.                            *)
Outdated(o) ==
  [d \in CheClusters |-> IF read[d] = "fresh" /\ Item(d) = o THEN "stale" ELSE read[d]]

(* A CRD takes its custom resources with it.                               *)
DeleteObject(o) ==
  /\ UserOp
  /\ cluster[o].there
  /\ cluster' = [p \in Objects |->
                   IF p = o \/ (o = ManagerCRD /\ p = Manager) THEN Absent ELSE cluster[p]]
  /\ read' = Outdated(o)
  /\ UNCHANGED <<users, blueprint, pc, at, seen>>

WebTerminal ==
  /\ UserOp
  /\ webTerminal' = ~webTerminal
  /\ UNCHANGED <<cr, version, cluster, blueprint, worker>>

(* The controller, once installed, registers its webhook.                  *)
RegisterWebhook ==
  /\ ~webhook /\ \A o \in Files : cluster[o].there
  /\ webhook' = TRUE
  /\ UNCHANGED <<users, cluster, blueprint, worker, lost, userOps, mishaps>>

-----------------------------------------------------------------------------
(* Control flow of a pass.  A pass that is not done comes again after a     *)
(* second or a back-off, one that is done with the next event or resync.    *)

Go(c, l, i) == pc' = [pc EXCEPT ![c] = l] /\ at' = [at EXCEPT ![c] = i]
Forget(c) == seen' = [seen EXCEPT ![c] = "off"] /\ read' = [read EXCEPT ![c] = "none"]
Leave(c)  == Go(c, "idle", 1) /\ Forget(c)
Outside   == UNCHANGED <<users, webhook, userOps>>
Quiet     == UNCHANGED <<cluster, blueprint, lost, mishaps>> /\ Outside

(* Mutant: it goes on past the last item.                                  *)
ContinuePast(c) ==
  IF at[c] > Len(Items) THEN Leave(c)
  ELSE /\ Go(c, "look", at[c] + 1)
       /\ read' = [read EXCEPT ![c] = "none"] /\ UNCHANGED seen

(* This item is done: the next one.                                        *)
Continue(c) ==
  IF at[c] = Len(Items) THEN Leave(c)
  ELSE /\ Go(c, "look", at[c] + 1)
       /\ read' = [read EXCEPT ![c] = "none"] /\ UNCHANGED seen

(* ReconcileDevWorkspace, with the check for the Web Terminal operator.    *)
Start(c) ==
  /\ pc[c] = "idle" /\ Enabled(c)
  /\ ~(webhook /\ webTerminal)
  /\ Go(c, "look", 1) /\ seen' = [seen EXCEPT ![c] = cr[c]] /\ UNCHANGED read
  /\ Quiet

CallFails(c) ==
  /\ pc[c] # "idle" /\ mishaps > 0 /\ mishaps' = mishaps - 1
  /\ Leave(c)
  /\ UNCHANGED <<cluster, blueprint, lost>> /\ Outside

Restart(c) ==
  /\ mishaps > 0 /\ mishaps' = mishaps - 1
  /\ Leave(c) /\ blueprint' = [blueprint EXCEPT ![c] = [o \in Files |-> "clean"]]
  /\ UNCHANGED <<cluster, lost>> /\ Outside

(* A new version of the operator: other files, another process.            *)
Upgrade(c) ==
  /\ UserOp
  /\ version[c] < MaxVersion /\ version' = [version EXCEPT ![c] = @ + 1]
  /\ Leave(c) /\ blueprint' = [blueprint EXCEPT ![c] = [o \in Files |-> "clean"]]
  /\ UNCHANGED <<cr, webTerminal, cluster>>

-----------------------------------------------------------------------------
(* createDwNamespace, createDwCheNamespace: another one may create it first. *)
CreateIfNotExists(c) ==
  /\ pc[c] = "look" /\ Item(c) \in Namespaces
  /\ Continue(c)
  /\ \/ (cluster[Item(c)].there \/ seen[c] = "deleting") /\ UNCHANGED cluster
     \/ /\ ~cluster[Item(c)].there /\ seen[c] # "deleting"
        /\ cluster' = [cluster EXCEPT ![Item(c)].there = TRUE]
  /\ UNCHANGED <<blueprint, lost, mishaps>> /\ Outside

(* synDwCheCR waits for the API of the CheManager; it creates one even for  *)
(* a CR that is being deleted.                                             *)
LookForManager(c) ==
  /\ pc[c] = "look" /\ Item(c) = Manager
  /\ \/ ~cluster[ManagerCRD].there /\ Leave(c)
     \/ cluster[ManagerCRD].there /\ cluster[Manager].there /\ Continue(c)
     \/ /\ cluster[ManagerCRD].there /\ ~cluster[Manager].there
        /\ Go(c, "create", at[c]) /\ UNCHANGED <<seen, read>>
  /\ Quiet

CreateManager(c) ==
  /\ pc[c] = "create"
  /\ IF cluster[ManagerCRD].there /\ ~cluster[Manager].there
     THEN cluster' = [cluster EXCEPT ![Manager].there = TRUE] /\ Continue(c)
     ELSE UNCHANGED cluster /\ Leave(c)
  /\ UNCHANGED <<blueprint, lost, mishaps>> /\ Outside

-----------------------------------------------------------------------------
(* readAndSyncObject.                                                      *)

Differs(c) == cluster[Item(c)].hash # version[c]

(* Mutant: only the hash is asked for.                                     *)
LookByHash(c) ==
  /\ pc[c] = "look" /\ Item(c) \in Files
  /\ IF cluster[Item(c)].there /\ ~Differs(c) THEN Continue(c)
     ELSE Go(c, "read", at[c]) /\ UNCHANGED <<seen, read>>
  /\ Quiet

(* Mutant: what this operator wrote it leaves as it is.                    *)
LookForAbsent(c) ==
  /\ pc[c] = "look" /\ Item(c) \in Files
  /\ \/ cluster[Item(c)].there /\ ~Differs(c) /\ Continue(c)
     \/ ~cluster[Item(c)].there /\ Go(c, "read", at[c]) /\ UNCHANGED <<seen, read>>
     \/ cluster[Item(c)].there /\ Differs(c) /\ Go(c, "count", at[c]) /\ UNCHANGED <<seen, read>>
  /\ Quiet

(* syncObject: an object that is absent, or this operator's own and of      *)
(* another version, is to be written; ...                                  *)
Look(c) ==
  LET o == cluster[Item(c)] IN
  /\ pc[c] = "look" /\ Item(c) \in Files
  /\ \/ o.there /\ ~Differs(c) /\ Continue(c)
     \/ /\ ~o.there \/ (Differs(c) /\ o.owner = c)
        /\ Go(c, "read", at[c]) /\ UNCHANGED <<seen, read>>
     \/ /\ o.there /\ Differs(c) /\ o.owner # c
        /\ Go(c, "count", at[c]) /\ UNCHANGED <<seen, read>>
  /\ Quiet

(* ... somebody else's one only by the only CheCluster that has it enabled.  *)
CountCheClusters(c) ==
  /\ pc[c] = "count"
  /\ IF \E only \in CheClusters : {d \in CheClusters : Enabled(d)} = {only}
     THEN Go(c, "read", at[c]) /\ UNCHANGED <<seen, read>>
     ELSE Continue(c)
  /\ Quiet

(* Sync reads the object again.  It needs the kind, which the client clears *)
(* from a copy it has decoded an answer into.                              *)
SyncRead(c) ==
  /\ pc[c] = "read"
  /\ \/ seen[c] = "deleting" /\ Continue(c)
     \/ seen[c] = "on" /\ blueprint[c][Item(c)] = "decoded" /\ Leave(c)
     \/ /\ seen[c] = "on" /\ blueprint[c][Item(c)] # "decoded"
        /\ Go(c, "write", at[c]) /\ UNCHANGED seen
        /\ read' = [read EXCEPT ![c] = IF cluster[Item(c)].there THEN "fresh" ELSE "none"]
  /\ Quiet

(* What is written, and what the copy in memory becomes by it.             *)
Store(c) ==
  LET o == Item(c) IN
  /\ cluster' = [cluster EXCEPT ![o] = [owner |-> c, hash |-> version[c], there |-> TRUE]]
  /\ blueprint' = [blueprint EXCEPT ![c][o] = "decoded"]
  /\ lost' = [d \in CheClusters |->
                IF d # c /\ cluster[o].owner = d THEN lost[d] \cup {o} ELSE lost[d]]
  /\ UNCHANGED mishaps /\ Outside

(* An object with a resourceVersion cannot be created.                     *)
Create(c) ==
  /\ pc[c] = "write" /\ read[c] = "none"
  /\ IF cluster[Item(c)].there \/ blueprint[c][Item(c)] # "clean"
     THEN Leave(c) /\ Quiet
     ELSE Continue(c) /\ Store(c)

(* Update never says that it is done.                                      *)
Update(c) ==
  /\ pc[c] = "write" /\ read[c] = "fresh"
  /\ Go(c, "idle", 1) /\ seen' = [seen EXCEPT ![c] = "off"]
  /\ read' = [Outdated(Item(c)) EXCEPT ![c] = "none"]
  /\ Store(c)

UpdateConflicts(c) ==
  /\ pc[c] = "write" /\ read[c] = "stale"
  /\ Leave(c) /\ blueprint' = [blueprint EXCEPT ![c][Item(c)] = "versioned"]
  /\ UNCHANGED <<cluster, lost, mishaps>> /\ Outside

Work(c) ==
  \/ Start(c) \/ CreateIfNotExists(c) \/ LookForManager(c) \/ CreateManager(c)
  \/ Look(c) \/ CountCheClusters(c) \/ SyncRead(c)
  \/ Create(c) \/ Update(c) \/ UpdateConflicts(c)

Next ==
  \/ \E c \in CheClusters : \/ Work(c) \/ CallFails(c) \/ Restart(c)
                            \/ EditCR(c) \/ CRGoes(c) \/ Upgrade(c)
  \/ \E o \in Files \cup {Manager} : DeleteObject(o)
  \/ WebTerminal \/ RegisterWebhook

Spec == Init /\ [][Next]_vars

(* Each operator has a worker, with a resync if nothing else.              *)
FairSpec == Spec /\ \A c \in CheClusters : WF_vars(Work(c))

-----------------------------------------------------------------------------
TypeOK ==
  /\ cr \in [CheClusters -> CRs] /\ version \in [CheClusters -> 1..MaxVersion]
  /\ cluster \in [Objects -> Stored]
  /\ webhook \in BOOLEAN /\ webTerminal \in BOOLEAN
  /\ blueprint \in [CheClusters -> [Files -> Blueprints]]
  /\ pc \in [CheClusters -> {"idle", "look", "create", "count", "read", "write"}]
  /\ at \in [CheClusters -> 1..Len(Items)]
  /\ seen \in [CheClusters -> CRs]
  /\ read \in [CheClusters -> {"none", "fresh", "stale"}]
  /\ lost \in [CheClusters -> SUBSET Files]
  /\ userOps \in 0..MaxUserOps /\ mishaps \in 0..MaxMishaps

(* As long as nobody touches the CheClusters, operators do not fight over   *)
(* an object: two that create it at the same time may overwrite each other  *)
(* once, but who has lost it to another one never takes it back, whatever   *)
(* their versions are and however often they restart.                      *)
NoFight ==
  userOps = MaxUserOps =>
    \A c \in CheClusters : \A o \in lost[c] : cluster[o].owner # c

Only(c) == \A d \in CheClusters \ {c} : ~Enabled(d)

(* What c is to write.                                                     *)
Due(c, o) ==
  \/ ~cluster[o].there
  \/ cluster[o].hash # version[c] /\ (cluster[o].owner = c \/ Only(c))

(* The process has written this file's object once, or tried to, and cannot *)
(* do so again.                                                            *)
Stuck(c) ==
  \E o \in Files :
    /\ Due(c, o) /\ blueprint[c][o] # "clean"
    /\ cluster[o].there => blueprint[c][o] = "decoded"

(* The operator that an object belongs to, or the only one that is enabled, *)
(* brings it to its own version: after its own upgrade, after the other     *)
(* ones are gone or after somebody deleted the object.  This takes a        *)
(* process that has not written the object before.                         *)
Converges ==
  \A c \in CheClusters :
    <>[](cr[c] = "on" /\ ~Stuck(c) /\ ~(webhook /\ webTerminal))
      => <>[](cluster[Manager].there /\ \A o \in Files : ~Due(c, o))
=============================================================================
