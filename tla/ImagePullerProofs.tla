--------------------------- MODULE ImagePullerProofs ---------------------------
(***************************************************************************)
(* Theorems about ImagePuller, for every bound: types, and that the          *)
(* finalizer is taken from the CR only by a pass that has removed what would *)
(* bring the puller's operator back.                                        *)
(***************************************************************************)
EXTENDS ImagePuller, TLAPS

(* The worker's copy is the CR while it is fresh, the cached one while it is *)
(* not stale.                                                              *)
CopiesOK ==
  /\ cr \in CheCluster /\ crCache \in CheCluster /\ mem \in CheCluster
  /\ fresh \in BOOLEAN /\ stale \subseteq {"CR", "puller"}
  /\ fresh => mem = cr
  /\ "CR" \notin stale => crCache = cr

PullersOK == puller \in Specs \cup {"none"} /\ pullerCache \in Specs \cup {"none"}

PackageOK ==
  /\ olm \in BOOLEAN /\ channel \in 0..MaxChannel
  /\ group \in {"none", "ours", "other"} /\ sub \in 0..MaxChannel
  /\ csv \in BOOLEAN /\ crd \in BOOLEAN

(* What a pass that uninstalls has removed stays removed until it ends: only *)
(* this worker makes it.                                                   *)
Removed ==
  /\ pc \in {"deleteGroup", "clear", "drop"} => sub = 0
  /\ pc \in {"clear", "drop"} => group # "ours"

ControlOK ==
  /\ found \in 0..MaxChannel /\ (pc \in InstallPCs => found # 0)
  /\ pc \in PCs /\ queued \in BOOLEAN

BoundsOK == userOps \in Nat /\ mishaps \in Nat

PullerInv == CopiesOK /\ PullersOK /\ PackageOK /\ ControlOK /\ Removed /\ BoundsOK

-----------------------------------------------------------------------------
(* Facts about records and bounds.                                          *)

LEMMA CRFacts ==
  /\ NoCR \in CheCluster /\ NoCR.fin = FALSE
  /\ \A c \in CheCluster :
       /\ c.fin \in BOOLEAN /\ c.spec \in Specs
       /\ [c EXCEPT !.enable = ~@] \in CheCluster
       /\ [c EXCEPT !.enable = ~@].fin = c.fin
       /\ [c EXCEPT !.state = "deleting"] \in CheCluster
       /\ [c EXCEPT !.state = "deleting"].fin = c.fin
       /\ \A b \in BOOLEAN : [c EXCEPT !.fin = b] \in CheCluster /\ [c EXCEPT !.fin = b].fin = b
       /\ \A s \in Specs : [c EXCEPT !.spec = s] \in CheCluster /\ [c EXCEPT !.spec = s].fin = c.fin
<1>1. NoCR \in CheCluster /\ NoCR.fin = FALSE
  BY DEF NoCR, CheCluster, Specs
<1> QED
  BY <1>1 DEF CheCluster

LEMMA NextBounds == PullerInv /\ [Next]_vars => BoundsOK'
<1> SUFFICES ASSUME PullerInv, [Next]_vars PROVE BoundsOK'
  OBVIOUS
<1>1. userOps \in Nat /\ mishaps \in Nat
  BY DEF PullerInv, BoundsOK
<1>2. \/ userOps' = userOps /\ mishaps' = mishaps
      \/ userOps > 0 /\ userOps' = userOps - 1 /\ mishaps' = mishaps
      \/ mishaps > 0 /\ mishaps' = mishaps - 1 /\ userOps' = userOps
  <2>1. CASE EditCR \/ DeleteCR \/ InstallOLM \/ PublishPackage
    BY <2>1 DEF EditCR, DeleteCR, InstallOLM, PublishPackage, UserWrites, UserOp
  <2>2. CASE \/ OLMInstalls \/ PullerOperatorFills \/ CollectGarbage \/ SyncCR \/ SyncPuller
             \/ Resync \/ UNCHANGED vars
    BY <2>2 DEF OLMInstalls, PullerOperatorFills, CollectGarbage, SyncCR, SyncPuller, Resync,
       OthersActed, bounds, vars
  <2>3. CASE Install
    BY <2>3 DEF Install, GetPackageManifest, CreateOperatorGroupIfNotFound,
       CreateImagePullerSubscription, CompareExpectedSubscription, CompareFails,
       UpdateSubscription, AppendFinalizer, WaitForPullerAPI, SetDefaults,
       CreateKubernetesImagePuller, UpdateKubernetesImagePuller, KeepKubernetesImagePuller,
       WritePuller, Quiet, Frame, Mishap
  <2>4. CASE Uninstall \/ Start \/ CheckAPIs \/ CallFails \/ Rest \/ Restart
    BY <2>4 DEF Uninstall, DeletePuller, DeleteCSV, DeleteSubscription, DeleteOperatorGroup,
       ClearSpec, DropFinalizer, Start, CheckAPIs, CallFails, Rest, Restart, Quiet, Frame, Mishap
  <2> QED
    BY <2>1, <2>2, <2>3, <2>4 DEF Next, Worker, Others
<1> QED
  BY <1>1, <1>2 DEF BoundsOK

-----------------------------------------------------------------------------
(* What a step may do to each part.                                         *)

(* The caches are no older than they were.                                  *)
CopiesStay ==
  /\ UNCHANGED <<cr, crCache>>
  /\ stale' \subseteq {"CR", "puller"} /\ ("CR" \in stale => "CR" \in stale')

(* One of the objects goes, or none is touched.                             *)
PackageStays ==
  /\ PackageOK'
  /\ sub' \in {sub, 0} /\ (group' = "ours" => group = "ours")

LEMMA GotoKeeps ==
  ASSUME PullerInv, BoundsOK', NEW l \in PCs, Goto(l), l \in InstallPCs => found # 0,
         CopiesStay, PullersOK', PackageOK',
         l \in {"deleteGroup", "clear", "drop"} => sub' = 0,
         l \in {"clear", "drop"} => group' # "ours"
  PROVE  PullerInv'
<1>1. pc' = l /\ UNCHANGED <<mem, fresh, found, queued>>
  BY DEF Goto
<1>2. CopiesOK'
  BY <1>1 DEF PullerInv, CopiesOK, CopiesStay
<1>3. ControlOK' /\ Removed'
  BY <1>1 DEF PullerInv, ControlOK, Removed
<1> QED
  BY <1>2, <1>3 DEF PullerInv

(* A pass ends, after a write of the CR or without one.                     *)
LEMMA LeaveKeeps ==
  ASSUME PullerInv, BoundsOK', Leave, queued' \in BOOLEAN, cr' \in CheCluster, UNCHANGED crCache,
         stale' \subseteq {"CR", "puller"}, "CR" \notin stale' => "CR" \notin stale /\ cr' = cr,
         PullersOK', PackageOK'
  PROVE  PullerInv'
<1>1. pc' = "idle" /\ mem' = NoCR /\ fresh' = FALSE /\ found' = 0
  BY DEF Leave
<1>2. CopiesOK'
  BY <1>1, CRFacts DEF PullerInv, CopiesOK
<1>3. ControlOK' /\ Removed'
  BY <1>1, ImagePullerAssumption
  DEF PullerInv, ControlOK, Removed, PCs, InstallPCs, ImagePullerAssumption
<1> QED
  BY <1>2, <1>3 DEF PullerInv

LEMMA QuietFacts ==
  ASSUME PullerInv
  PROVE  /\ UNCHANGED <<store, crCache>> => CopiesStay
         /\ UNCHANGED pullers => PullersOK'
         /\ UNCHANGED <<cluster, package>> => PackageStays
         /\ CopiesOK /\ PullersOK /\ PackageOK /\ ControlOK
         /\ queued \in BOOLEAN /\ found \in 0..MaxChannel
<1>1. CopiesOK /\ PullersOK /\ PackageOK /\ ControlOK
  BY DEF PullerInv
<1>2. UNCHANGED <<store, crCache>> => CopiesStay
  BY <1>1 DEF store, CopiesStay, CopiesOK
<1>3. UNCHANGED pullers => PullersOK'
  BY <1>1 DEF pullers, PullersOK
<1>4. UNCHANGED <<cluster, package>> => PackageStays
  BY <1>1 DEF cluster, package, PackageStays, PackageOK
<1> QED
  BY <1>1, <1>2, <1>3, <1>4 DEF ControlOK

(* A step that is not the worker's, and not a write of the CR.              *)
LEMMA OthersKeep ==
  ASSUME PullerInv, BoundsOK', UNCHANGED <<mem, fresh, found, pc>>, queued' \in BOOLEAN,
         CopiesStay, PullersOK', PackageStays
  PROVE  PullerInv'
<1>1. CopiesOK'
  BY DEF PullerInv, CopiesOK, CopiesStay
<1>2. ControlOK' /\ Removed'
  BY DEF PullerInv, ControlOK, Removed, PackageStays
<1> QED
  BY <1>1, <1>2 DEF PullerInv, PackageStays

-----------------------------------------------------------------------------
(* Users, administrators, the other controllers and the caches.             *)

LEMMA UserWritesKeep ==
  ASSUME PullerInv, BoundsOK', NEW c \in CheCluster, UserWrites(c) PROVE PullerInv'
<1>1. /\ cr' = c /\ stale' = stale \cup {"CR"} /\ fresh' = FALSE
      /\ UNCHANGED <<crCache, pullers, mem, cluster, package, found, pc, queued>>
  BY DEF UserWrites
<1>2. CopiesOK'
  BY <1>1 DEF PullerInv, CopiesOK
<1>3. PullersOK' /\ PackageStays
  BY <1>1, QuietFacts
<1>4. ControlOK' /\ Removed'
  BY <1>1, <1>3 DEF PullerInv, ControlOK, Removed, PackageStays
<1> QED
  BY <1>2, <1>3, <1>4 DEF PullerInv, PackageStays

LEMMA UserKeeps ==
  ASSUME PullerInv, BoundsOK', EditCR \/ DeleteCR PROVE PullerInv'
<1>1. cr \in CheCluster
  BY DEF PullerInv, CopiesOK
<1>2. CASE EditCR
  <2>1. CASE UserWrites([cr EXCEPT !.enable = ~@])
    BY <1>1, <2>1, CRFacts, UserWritesKeep
  <2>2. CASE \E s \in Specs : UserWrites([cr EXCEPT !.spec = s])
    BY <1>1, <2>2, CRFacts, UserWritesKeep
  <2> QED
    BY <1>2, <2>1, <2>2 DEF EditCR
<1>3. CASE DeleteCR
  <2>1. CASE cr.fin
    BY <1>1, <1>3, <2>1, CRFacts, UserWritesKeep DEF DeleteCR
  <2>2. CASE ~cr.fin
    BY <1>3, <2>2, CRFacts, UserWritesKeep DEF DeleteCR
  <2> QED
    BY <2>1, <2>2
<1> QED
  BY <1>2, <1>3

LEMMA AdministratorKeeps ==
  ASSUME PullerInv, BoundsOK', InstallOLM \/ PublishPackage PROVE PullerInv'
<1>1. /\ UNCHANGED <<store, crCache, pullers, mem, fresh, package, found, pc, queued>>
      /\ olm' = olm \/ olm' = TRUE
      /\ channel' = channel \/ channel' \in 1..MaxChannel
  BY DEF InstallOLM, PublishPackage
<1>2. CopiesStay /\ PullersOK' /\ queued' \in BOOLEAN
  BY <1>1, QuietFacts
<1>3. PackageStays
  <2>1. PackageOK
    BY QuietFacts
  <2>2. olm' \in BOOLEAN
    BY <1>1, <2>1 DEF PackageOK
  <2>3. channel' \in 0..MaxChannel
    BY <1>1, <2>1, ImagePullerAssumption DEF PackageOK, ImagePullerAssumption
  <2> QED
    BY <1>1, <2>1, <2>2, <2>3 DEF PackageStays, PackageOK, package
<1> QED
  BY <1>1, <1>2, <1>3, OthersKeep

LEMMA ControllersKeep ==
  ASSUME PullerInv, BoundsOK',
         OLMInstalls \/ PullerOperatorFills \/ CollectGarbage \/ SyncPuller \/ Resync
  PROVE  PullerInv'
<1>1. UNCHANGED <<cr, crCache, mem, fresh, cluster, found, pc>>
  BY DEF OLMInstalls, PullerOperatorFills, CollectGarbage, SyncPuller, Resync, OthersActed
<1>2. queued' \in BOOLEAN
  BY QuietFacts DEF OLMInstalls, PullerOperatorFills, CollectGarbage, SyncPuller, Resync
<1>3. stale' \in {stale, stale \cup {"puller"}, stale \ {"puller"}}
  BY DEF OLMInstalls, PullerOperatorFills, CollectGarbage, SyncPuller, Resync
<1>4. CopiesStay
  BY <1>1, <1>3, QuietFacts DEF CopiesStay, CopiesOK
<1>5. /\ puller' \in {puller, "none"} \/ (puller # "none" /\ puller' = Filled[puller])
      /\ pullerCache' \in {puller, pullerCache}
  BY DEF OLMInstalls, PullerOperatorFills, CollectGarbage, SyncPuller, Resync, pullers
<1>6. PullersOK'
  BY <1>5, QuietFacts DEF PullersOK, Filled, Specs
<1>7. /\ csv' = csv \/ csv' = TRUE
      /\ crd' = crd \/ crd' = TRUE
      /\ sub' \in {sub, 0} /\ group' \in {group, "none"}
  BY DEF OLMInstalls, PullerOperatorFills, CollectGarbage, SyncPuller, Resync, package
<1>8. PackageStays
  <2>1. PackageOK
    BY QuietFacts
  <2>2. csv' \in BOOLEAN /\ crd' \in BOOLEAN
    BY <1>7, <2>1 DEF PackageOK
  <2>3. sub' \in 0..MaxChannel
    BY <1>7, <2>1, ImagePullerAssumption DEF PackageOK, ImagePullerAssumption
  <2> QED
    BY <1>1, <1>7, <2>1, <2>2, <2>3 DEF PackageStays, PackageOK, cluster
<1> QED
  BY <1>1, <1>2, <1>4, <1>6, <1>8, OthersKeep

LEMMA SyncCRKeeps == ASSUME PullerInv, BoundsOK', SyncCR PROVE PullerInv'
<1>1. /\ stale' = stale \ {"CR"} /\ crCache' = cr /\ queued' = TRUE
      /\ UNCHANGED <<cr, pullers, mem, fresh, cluster, package, found, pc>>
  BY DEF SyncCR
<1>2. CopiesOK'
  BY <1>1 DEF PullerInv, CopiesOK
<1>3. PullersOK' /\ PackageStays
  BY <1>1, QuietFacts
<1>4. ControlOK' /\ Removed'
  BY <1>1, <1>3 DEF PullerInv, ControlOK, Removed, PackageStays
<1> QED
  BY <1>2, <1>3, <1>4 DEF PullerInv, PackageStays

LEMMA RestartKeeps == ASSUME PullerInv, BoundsOK', Restart PROVE PullerInv'
<1>1. /\ pc' = "idle" /\ mem' = NoCR /\ fresh' = FALSE /\ found' = 0 /\ queued' = TRUE
      /\ crCache' = cr /\ pullerCache' = puller /\ stale' = {}
      /\ UNCHANGED <<cr, puller, cluster, package>>
  BY DEF Restart, Leave
<1>2. CopiesOK'
  BY <1>1, CRFacts DEF PullerInv, CopiesOK
<1>3. PullersOK' /\ PackageStays
  BY <1>1, QuietFacts DEF PullersOK
<1>4. ControlOK' /\ Removed'
  BY <1>1, ImagePullerAssumption
  DEF PullerInv, ControlOK, Removed, PCs, InstallPCs, ImagePullerAssumption
<1> QED
  BY <1>2, <1>3, <1>4 DEF PullerInv, PackageStays

-----------------------------------------------------------------------------
(* The worker: steps that read.                                             *)

LEMMA FrameFacts ==
  ASSUME PullerInv, Frame
  PROVE  /\ UNCHANGED <<crCache, pullerCache, olm, channel>>
         /\ UNCHANGED store => CopiesStay
         /\ UNCHANGED puller => PullersOK'
         /\ UNCHANGED package => PackageStays
BY QuietFacts DEF Frame, cluster, pullers

(* A pass goes on, and has written nothing.                                 *)
LEMMA ReadOnKeeps ==
  ASSUME PullerInv, BoundsOK', NEW l \in PCs, Goto(l), l \in InstallPCs => found # 0,
         UNCHANGED <<store, puller, package>>, Frame,
         l \notin {"deleteGroup", "drop", "clear"} \/ (l = "drop" /\ pc = "clear")
  PROVE  PullerInv'
<1>1. CopiesStay /\ PullersOK' /\ PackageStays
  BY FrameFacts
<1>2. sub' \in {sub, 0} /\ (group' = "ours" => group = "ours")
  BY <1>1 DEF PackageStays
<1>3. l = "drop" => sub = 0 /\ group # "ours"
  BY DEF PullerInv, Removed
<1>4. l = "drop" => sub' = 0 /\ group' # "ours"
  BY <1>2, <1>3
<1> QED
  BY <1>1, <1>4, GotoKeeps DEF PackageStays

LEMMA EndKeeps ==
  ASSUME PullerInv, BoundsOK', Requeue \/ (Leave /\ UNCHANGED queued),
         UNCHANGED <<store, puller, package>>, Frame
  PROVE  PullerInv'
<1>1. CopiesStay /\ PullersOK' /\ PackageStays
  BY FrameFacts
<1>2. Leave /\ queued' \in BOOLEAN
  BY QuietFacts DEF Requeue
<1>3. cr' \in CheCluster /\ UNCHANGED <<cr, stale, crCache>>
  BY QuietFacts DEF store, CopiesOK, Frame
<1> QED
  BY <1>1, <1>2, <1>3, LeaveKeeps DEF CopiesStay, PackageStays

LEMMA StartKeeps == ASSUME PullerInv, BoundsOK', Start PROVE PullerInv'
<1>1. /\ Quiet /\ queued' = FALSE /\ UNCHANGED found /\ pc = "idle"
      /\ \/ pc' = "apis" /\ mem' = crCache /\ fresh' = ("CR" \notin stale)
         \/ UNCHANGED <<pc, mem, fresh>>
  BY DEF Start
<1>2. PullersOK' /\ PackageStays /\ UNCHANGED <<cr, crCache, stale>>
  BY <1>1, FrameFacts DEF Quiet, store
<1>3. CopiesOK'
  <2>1. CASE mem' = crCache /\ fresh' = ("CR" \notin stale)
    BY <1>2, <2>1 DEF PullerInv, CopiesOK
  <2>2. CASE UNCHANGED <<mem, fresh>>
    BY <1>2, <2>2 DEF PullerInv, CopiesOK
  <2> QED
    BY <1>1, <2>1, <2>2
<1>4. ControlOK' /\ Removed'
  BY <1>1 DEF PullerInv, ControlOK, Removed, PCs, InstallPCs
<1> QED
  BY <1>2, <1>3, <1>4 DEF PullerInv, PackageStays

LEMMA ReadersKeep ==
  ASSUME PullerInv, BoundsOK',
         \/ CheckAPIs \/ CallFails \/ CompareFails \/ Rest \/ CompareExpectedSubscription
         \/ UpdateSubscription \/ WaitForPullerAPI \/ KeepKubernetesImagePuller
  PROVE  PullerInv'
<1>1. UNCHANGED <<store, puller, package>> /\ Frame
  BY DEF CheckAPIs, CallFails, CompareFails, Rest, CompareExpectedSubscription,
     UpdateSubscription, WaitForPullerAPI, KeepKubernetesImagePuller, Quiet
<1>2. CASE Requeue \/ (Leave /\ UNCHANGED queued)
  BY <1>1, <1>2, EndKeeps
<1>3. CASE \E l \in {"manifest", "rest", "deletePuller"} : Goto(l)
  BY <1>1, <1>3, ReadOnKeeps DEF PCs, InstallPCs, UninstallPCs
<1>4. CASE /\ pc \in {"compare", "api", "puller"}
           /\ \E l \in {"rest", "update", "api", "append", "puller"} : Goto(l)
  <2>1. found # 0
    BY <1>4 DEF PullerInv, ControlOK, InstallPCs
  <2> QED
    BY <1>1, <1>4, <2>1, ReadOnKeeps DEF PCs, InstallPCs
<1> QED
  BY <1>2, <1>3, <1>4
  DEF CheckAPIs, CallFails, CompareFails, Rest, CompareExpectedSubscription,
     UpdateSubscription, WaitForPullerAPI, KeepKubernetesImagePuller

-----------------------------------------------------------------------------
(* The worker: steps of the installation that write.                        *)

LEMMA ManifestKeeps == ASSUME PullerInv, BoundsOK', GetPackageManifest PROVE PullerInv'
<1>1. UNCHANGED <<store, puller, package>> /\ Frame
  BY DEF GetPackageManifest
<1>2. CASE Requeue
  BY <1>1, <1>2, EndKeeps
<1>3. CASE /\ channel # 0 /\ found' = channel /\ pc' = "group"
           /\ UNCHANGED <<mem, fresh, queued>>
  <2>1. CopiesStay /\ PullersOK' /\ PackageStays
    BY <1>1, FrameFacts
  <2>2. CopiesOK'
    BY <1>3, <2>1 DEF PullerInv, CopiesOK, CopiesStay
  <2>3. channel \in 0..MaxChannel
    BY DEF PullerInv, PackageOK
  <2>4. ControlOK' /\ Removed'
    BY <1>3, <2>3 DEF PullerInv, ControlOK, Removed, PCs, InstallPCs
  <2> QED
    BY <2>1, <2>2, <2>4 DEF PullerInv, PackageStays
<1> QED
  BY <1>2, <1>3 DEF GetPackageManifest

LEMMA GroupKeeps == ASSUME PullerInv, BoundsOK', CreateOperatorGroupIfNotFound PROVE PullerInv'
<1>1. UNCHANGED <<store, puller, sub, csv, crd>> /\ Frame
  BY DEF CreateOperatorGroupIfNotFound
<1>2. CopiesStay /\ PullersOK' /\ UNCHANGED <<olm, channel, crCache>>
  BY <1>1, FrameFacts
<1>3. CASE group' = "ours" /\ Requeue
  <2>1. PackageOK'
    BY <1>1, <1>2, <1>3 DEF PullerInv, PackageOK
  <2>2. cr' \in CheCluster /\ UNCHANGED <<cr, stale>>
    BY <1>1, QuietFacts DEF store, CopiesOK
  <2> QED
    BY <1>2, <1>3, <2>1, <2>2, LeaveKeeps DEF CopiesStay, Requeue
<1>4. CASE Goto("subscription") /\ UNCHANGED group
  <2>1. found # 0 /\ "subscription" \in PCs
    BY DEF PullerInv, ControlOK, InstallPCs, CreateOperatorGroupIfNotFound, PCs
  <2> QED
    BY <1>1, <1>4, <2>1, ReadOnKeeps DEF package
<1> QED
  BY <1>3, <1>4 DEF CreateOperatorGroupIfNotFound

LEMMA SubscriptionKeeps ==
  ASSUME PullerInv, BoundsOK', CreateImagePullerSubscription PROVE PullerInv'
<1>1. UNCHANGED <<store, puller, group, csv, crd>> /\ Frame
  BY DEF CreateImagePullerSubscription
<1>2. CopiesStay /\ PullersOK' /\ UNCHANGED <<olm, channel, crCache>>
  BY <1>1, FrameFacts
<1>3. CASE sub' = found /\ Requeue
  <2>1. PackageOK'
    BY <1>1, <1>2, <1>3, QuietFacts DEF PackageOK
  <2>2. cr' \in CheCluster /\ UNCHANGED <<cr, stale>>
    BY <1>1, QuietFacts DEF store, CopiesOK
  <2> QED
    BY <1>2, <1>3, <2>1, <2>2, LeaveKeeps DEF CopiesStay, Requeue
<1>4. CASE Goto("compare") /\ UNCHANGED sub
  <2>1. found # 0 /\ "compare" \in PCs
    BY DEF PullerInv, ControlOK, InstallPCs, CreateImagePullerSubscription, PCs
  <2> QED
    BY <1>1, <1>4, <2>1, ReadOnKeeps DEF package
<1> QED
  BY <1>3, <1>4 DEF CreateImagePullerSubscription

(* A write of the CR, and the end of the pass.                              *)
LEMMA StoreAndLeaveKeeps ==
  ASSUME PullerInv, BoundsOK', NEW c \in CheCluster, Store(c) \/ UNCHANGED store, Requeue,
         UNCHANGED <<puller, package>>, Frame
  PROVE  PullerInv'
<1>1. PullersOK' /\ PackageStays /\ UNCHANGED crCache
  BY FrameFacts
<1>2. cr \in CheCluster /\ stale \subseteq {"CR", "puller"}
  BY DEF PullerInv, CopiesOK
<1>3. CASE UNCHANGED store
  BY <1>3, EndKeeps
<1>4. CASE UNCHANGED <<cr, crCache>> /\ stale' = stale
  BY <1>4, EndKeeps DEF store
<1>5. CASE cr' \in {c, NoCR} /\ stale' = stale \cup {"CR"}
  <2>1. cr' \in CheCluster
    BY <1>5, CRFacts
  <2>2. stale' \subseteq {"CR", "puller"} /\ "CR" \in stale'
    BY <1>2, <1>5
  <2> QED
    BY <1>1, <2>1, <2>2, LeaveKeeps DEF Requeue, PackageStays
<1> QED
  BY <1>1, <1>3, <1>4, <1>5 DEF Store, store

LEMMA AppendKeeps == ASSUME PullerInv, BoundsOK', AppendFinalizer PROVE PullerInv'
<1> DEFINE c == [mem EXCEPT !.fin = TRUE]
<1>1. UNCHANGED <<puller, package>> /\ Frame /\ pc = "append"
  BY DEF AppendFinalizer
<1>2. c \in CheCluster
  BY CRFacts DEF PullerInv, CopiesOK
<1>3. CASE Store(c) /\ Requeue
  BY <1>1, <1>2, <1>3, StoreAndLeaveKeeps
<1>4. CASE Requeue /\ UNCHANGED store
  BY <1>1, <1>4, EndKeeps
<1>5. CASE /\ mem' = crCache /\ fresh' = ("CR" \notin stale)
           /\ UNCHANGED <<pc, found, queued>> /\ UNCHANGED store
  <2>1. PullersOK' /\ PackageStays /\ UNCHANGED <<cr, crCache, stale>>
    BY <1>1, <1>5, FrameFacts DEF store
  <2>2. CopiesOK'
    BY <1>5, <2>1 DEF PullerInv, CopiesOK
  <2>3. ControlOK' /\ Removed'
    BY <1>5, <2>1 DEF PullerInv, ControlOK, Removed, PackageStays
  <2> QED
    BY <2>1, <2>2, <2>3 DEF PullerInv, PackageStays
<1> QED
  BY <1>3, <1>4, <1>5 DEF AppendFinalizer

LEMMA DefaultsKeep == ASSUME PullerInv, BoundsOK', SetDefaults PROVE PullerInv'
<1> DEFINE c == [mem EXCEPT !.spec = "names"]
<1>1. c \in CheCluster
  BY CRFacts DEF PullerInv, CopiesOK, Specs
<1>2. UNCHANGED <<puller, package>> /\ Frame /\ Requeue /\ (Store(c) \/ UNCHANGED store)
  BY DEF SetDefaults, UpdateAndRequeue
<1> QED
  BY <1>1, <1>2, StoreAndLeaveKeeps

LEMMA WritePullerFacts ==
  ASSUME PullerInv, UNCHANGED <<cr, package>>, Frame,
         puller' \in Specs \cup {"none"}, stale' \in {stale, stale \cup {"puller"}}
  PROVE  CopiesStay /\ PullersOK' /\ PackageStays
<1>1. UNCHANGED <<crCache, pullerCache>> /\ PackageStays
  BY FrameFacts
<1>2. stale \subseteq {"CR", "puller"} /\ PullersOK
  BY DEF PullerInv, CopiesOK
<1> QED
  BY <1>1, <1>2 DEF CopiesStay, PullersOK

LEMMA CreatePullerKeeps ==
  ASSUME PullerInv, BoundsOK', CreateKubernetesImagePuller PROVE PullerInv'
<1>1. CASE WritePuller /\ Goto("rest")
  <2>1. mem.spec \in Specs
    BY CRFacts DEF PullerInv, CopiesOK
  <2>2. CopiesStay /\ PullersOK' /\ PackageStays
    BY <1>1, <2>1, WritePullerFacts DEF WritePuller
  <2> QED
    BY <1>1, <2>2, GotoKeeps DEF PCs, InstallPCs, PackageStays
<1>2. CASE Requeue /\ Quiet
  BY <1>2, EndKeeps DEF Quiet
<1> QED
  BY <1>1, <1>2 DEF CreateKubernetesImagePuller

LEMMA UpdatePullerKeeps ==
  ASSUME PullerInv, BoundsOK', UpdateKubernetesImagePuller PROVE PullerInv'
<1>1. Requeue
  BY DEF UpdateKubernetesImagePuller
<1>2. CASE Quiet
  BY <1>1, <1>2, EndKeeps DEF Quiet
<1>3. CASE WritePuller
  <2>1. mem.spec \in Specs /\ cr \in CheCluster /\ stale \subseteq {"CR", "puller"}
    BY CRFacts DEF PullerInv, CopiesOK
  <2>2. CopiesStay /\ PullersOK' /\ PackageStays
    BY <1>3, <2>1, WritePullerFacts DEF WritePuller
  <2> QED
    BY <1>1, <2>1, <2>2, LeaveKeeps DEF Requeue, CopiesStay, PackageStays
<1> QED
  BY <1>2, <1>3 DEF UpdateKubernetesImagePuller

-----------------------------------------------------------------------------
(* The worker: the removal.                                                 *)

LEMMA DeletePullerKeeps == ASSUME PullerInv, BoundsOK', DeletePuller PROVE PullerInv'
<1>1. Goto("deleteCSV") /\ UNCHANGED <<cr, package>> /\ Frame
  BY DEF DeletePuller
<1>2. puller' \in {puller, "none"} /\ stale' \in {stale, stale \cup {"puller"}}
  BY DEF DeletePuller
<1>3. puller' \in Specs \cup {"none"}
  BY <1>2 DEF PullerInv, PullersOK
<1>4. CopiesStay /\ PullersOK' /\ PackageStays
  BY <1>1, <1>2, <1>3, WritePullerFacts
<1> QED
  BY <1>1, <1>4, GotoKeeps DEF PCs, UninstallPCs, InstallPCs, PackageStays

LEMMA DeletePackageKeeps ==
  ASSUME PullerInv, BoundsOK', DeleteCSV \/ DeleteSubscription \/ DeleteOperatorGroup
  PROVE  PullerInv'
<1>1. /\ UNCHANGED <<store, puller, crd>> /\ Frame
      /\ csv' = csv \/ csv' = FALSE
      /\ sub' \in {sub, 0} /\ group' \in {group, "none"}
  BY DEF DeleteCSV, DeleteSubscription, DeleteOperatorGroup
<1>2. CopiesStay /\ PullersOK' /\ UNCHANGED <<olm, channel>>
  BY <1>1, FrameFacts
<1>3. PackageOK'
  <2>1. PackageOK
    BY QuietFacts
  <2>2. csv' \in BOOLEAN
    BY <1>1, <2>1 DEF PackageOK
  <2>3. sub' \in 0..MaxChannel
    BY <1>1, <2>1, ImagePullerAssumption DEF PackageOK, ImagePullerAssumption
  <2> QED
    BY <1>1, <1>2, <2>1, <2>2, <2>3 DEF PackageOK
<1>4. CASE DeleteCSV
  BY <1>2, <1>3, <1>4, GotoKeeps DEF DeleteCSV, PCs, UninstallPCs, InstallPCs
<1>5. CASE DeleteSubscription
  BY <1>2, <1>3, <1>5, GotoKeeps DEF DeleteSubscription, PCs, UninstallPCs, InstallPCs
<1>6. CASE DeleteOperatorGroup
  <2>1. sub = 0
    BY <1>6 DEF DeleteOperatorGroup, PullerInv, Removed
  <2>2. sub' = 0 /\ group' # "ours"
    BY <1>6, <2>1 DEF DeleteOperatorGroup
  <2>3. "clear" \in PCs /\ "clear" \notin InstallPCs
    BY DEF PCs, UninstallPCs, InstallPCs
  <2>4. Goto("clear")
    BY <1>6 DEF DeleteOperatorGroup
  <2> QED
    BY <1>2, <1>3, <2>2, <2>3, <2>4, GotoKeeps
<1> QED
  BY <1>4, <1>5, <1>6

LEMMA ClearKeeps == ASSUME PullerInv, BoundsOK', ClearSpec PROVE PullerInv'
<1> DEFINE c == [mem EXCEPT !.spec = "empty"]
<1>1. UNCHANGED <<puller, package>> /\ Frame /\ pc = "clear"
  BY DEF ClearSpec
<1>2. CASE UpdateAndRequeue(c)
  <2>1. c \in CheCluster
    BY CRFacts DEF PullerInv, CopiesOK, Specs
  <2>2. Requeue /\ (Store(c) \/ UNCHANGED store)
    BY <1>2 DEF UpdateAndRequeue
  <2> QED
    BY <1>1, <2>1, <2>2, StoreAndLeaveKeeps
<1>3. CASE (\E l \in {"drop", "rest"} : Goto(l)) /\ UNCHANGED store
  BY <1>1, <1>3, ReadOnKeeps DEF PCs, UninstallPCs, InstallPCs
<1> QED
  BY <1>2, <1>3 DEF ClearSpec

LEMMA DropKeeps == ASSUME PullerInv, BoundsOK', DropFinalizer PROVE PullerInv'
<1> DEFINE c == [mem EXCEPT !.fin = FALSE]
<1>1. c \in CheCluster
  BY CRFacts DEF PullerInv, CopiesOK
<1>2. UNCHANGED <<puller, package>> /\ Frame /\ Requeue /\ (Store(c) \/ UNCHANGED store)
  BY DEF DropFinalizer, UpdateAndRequeue
<1> QED
  BY <1>1, <1>2, StoreAndLeaveKeeps

-----------------------------------------------------------------------------
(* The invariant holds in every state.                                      *)

LEMMA InitPuller == Init => PullerInv
<1> SUFFICES ASSUME Init PROVE PullerInv
  OBVIOUS
<1>1. cr \in CheCluster
  BY DEF Init, CheCluster
<1>2. CopiesOK
  BY <1>1, CRFacts DEF Init, CopiesOK
<1>3. 1 \in 0..MaxChannel /\ 0 \in 0..MaxChannel
  BY ImagePullerAssumption DEF ImagePullerAssumption
<1>4. PullersOK /\ PackageOK
  <2>1. olm \in BOOLEAN /\ csv \in BOOLEAN /\ crd \in BOOLEAN
    BY DEF Init
  <2> QED
    BY <1>3, <2>1 DEF Init, PullersOK, PackageOK
<1>5. ControlOK /\ Removed /\ BoundsOK
  BY <1>3, ImagePullerAssumption
  DEF Init, ControlOK, Removed, BoundsOK, PCs, InstallPCs, ImagePullerAssumption
<1> QED
  BY <1>2, <1>4, <1>5 DEF PullerInv

LEMMA StutterKeeps == ASSUME PullerInv, BoundsOK', UNCHANGED vars PROVE PullerInv'
<1>1. UNCHANGED <<mem, fresh, found, pc, queued, cr, crCache, stale, pullers, cluster, package>>
  BY DEF vars
<1>2. CopiesStay /\ PullersOK' /\ PackageStays /\ queued' \in BOOLEAN
  BY <1>1, QuietFacts DEF store
<1> QED
  BY <1>1, <1>2, OthersKeep

LEMMA NextPuller == PullerInv /\ [Next]_vars => PullerInv'
<1> SUFFICES ASSUME PullerInv, [Next]_vars PROVE PullerInv'
  OBVIOUS
<1>1. BoundsOK'
  BY NextBounds
<1>2. CASE Install
  BY <1>1, <1>2, ReadersKeep, ManifestKeeps, GroupKeeps, SubscriptionKeeps, AppendKeeps,
     DefaultsKeep, CreatePullerKeeps, UpdatePullerKeeps DEF Install
<1>3. CASE Uninstall
  BY <1>1, <1>3, DeletePullerKeeps, DeletePackageKeeps, ClearKeeps, DropKeeps DEF Uninstall
<1>4. CASE Start \/ CheckAPIs \/ CallFails \/ Rest
  BY <1>1, <1>4, StartKeeps, ReadersKeep
<1>5. CASE Others
  BY <1>1, <1>5, UserKeeps, AdministratorKeeps, ControllersKeep, SyncCRKeeps, RestartKeeps
  DEF Others
<1>6. CASE UNCHANGED vars
  BY <1>1, <1>6, StutterKeeps
<1> QED
  BY <1>2, <1>3, <1>4, <1>5, <1>6 DEF Next, Worker

LEMMA AlwaysPullerInv == Spec => []PullerInv
BY InitPuller, NextPuller, PTL DEF Spec

(* Types are kept, and a pass that installs has read a channel to subscribe *)
(* to: GetPackageManifest ends the pass that finds none.                    *)
THEOREM TypeCorrect == Spec => []TypeOK
<1>1. PullerInv => TypeOK
  BY DEF PullerInv, CopiesOK, PullersOK, PackageOK, ControlOK, BoundsOK, TypeOK
<1> QED
  BY <1>1, AlwaysPullerInv, PTL

-----------------------------------------------------------------------------
(* Who takes the finalizer.                                                 *)

LEMMA StoreKeepsFinalizer ==
  ASSUME NEW c \in CheCluster, c.fin, Store(c), cr.fin PROVE cr'.fin
BY DEF Store, store

LEMMA UserKeepsFinalizer ==
  ASSUME PullerInv, EditCR \/ DeleteCR, cr.fin PROVE cr'.fin
<1>1. cr \in CheCluster
  BY DEF PullerInv, CopiesOK
<1>2. CASE UserWrites([cr EXCEPT !.enable = ~@])
  <2>1. cr' = [cr EXCEPT !.enable = ~@]
    BY <1>2 DEF UserWrites
  <2> QED
    BY <1>1, <2>1, CRFacts
<1>3. ASSUME NEW s \in Specs, UserWrites([cr EXCEPT !.spec = s]) PROVE cr'.fin
  <2>1. cr' = [cr EXCEPT !.spec = s]
    BY <1>3 DEF UserWrites
  <2> QED
    BY <1>1, <2>1, CRFacts
<1>4. CASE DeleteCR
  <2>1. cr' = [cr EXCEPT !.state = "deleting"]
    BY <1>4 DEF DeleteCR, UserWrites
  <2> QED
    BY <1>1, <2>1, CRFacts
<1> QED
  BY <1>2, <1>3, <1>4 DEF EditCR

LEMMA WorkerKeepsFinalizer ==
  ASSUME PullerInv, AppendFinalizer \/ SetDefaults \/ ClearSpec, cr.fin PROVE cr'.fin
<1>1. mem \in CheCluster /\ (fresh => mem = cr)
  BY DEF PullerInv, CopiesOK
<1>2. CASE UNCHANGED store
  BY <1>2 DEF store
<1>3. CASE Store([mem EXCEPT !.fin = TRUE])
  BY <1>1, <1>3, CRFacts, StoreKeepsFinalizer
<1>4. ASSUME fresh, NEW s \in Specs, Store([mem EXCEPT !.spec = s]) PROVE cr'.fin
  <2>1. mem = cr /\ [mem EXCEPT !.spec = s] \in CheCluster
    BY <1>1, <1>4, CRFacts
  <2>2. [mem EXCEPT !.spec = s].fin
    BY <1>1, <2>1, CRFacts
  <2> QED
    BY <1>4, <2>1, <2>2, StoreKeepsFinalizer
<1> QED
  BY <1>2, <1>3, <1>4
  DEF AppendFinalizer, SetDefaults, ClearSpec, UpdateAndRequeue, Accepted, Specs

LEMMA OthersKeepCR ==
  ASSUME PullerInv, [Next]_vars,
         ~(EditCR \/ DeleteCR \/ AppendFinalizer \/ SetDefaults \/ ClearSpec \/ DropFinalizer)
  PROVE  UNCHANGED cr
<1>1. CASE \/ CheckAPIs \/ CallFails \/ CompareFails \/ Rest \/ CompareExpectedSubscription
           \/ UpdateSubscription \/ WaitForPullerAPI \/ KeepKubernetesImagePuller \/ Start
  BY <1>1 DEF CheckAPIs, CallFails, CompareFails, Rest, CompareExpectedSubscription,
     UpdateSubscription, WaitForPullerAPI, KeepKubernetesImagePuller, Start, Quiet, store
<1>2. CASE \/ GetPackageManifest \/ CreateOperatorGroupIfNotFound
           \/ CreateImagePullerSubscription \/ CreateKubernetesImagePuller
           \/ UpdateKubernetesImagePuller
  BY <1>2 DEF GetPackageManifest, CreateOperatorGroupIfNotFound, CreateImagePullerSubscription,
     CreateKubernetesImagePuller, UpdateKubernetesImagePuller, WritePuller, Quiet, store
<1>3. CASE DeletePuller \/ DeleteCSV \/ DeleteSubscription \/ DeleteOperatorGroup
  BY <1>3 DEF DeletePuller, DeleteCSV, DeleteSubscription, DeleteOperatorGroup, store
<1>4. CASE \/ InstallOLM \/ PublishPackage \/ OLMInstalls \/ PullerOperatorFills
           \/ CollectGarbage \/ SyncCR \/ SyncPuller \/ Resync \/ Restart \/ UNCHANGED vars
  BY <1>4 DEF InstallOLM, PublishPackage, OLMInstalls, PullerOperatorFills, CollectGarbage,
     SyncCR, SyncPuller, Resync, Restart, OthersActed, store, vars
<1> QED
  BY <1>1, <1>2, <1>3, <1>4 DEF Next, Worker, Others, Install, Uninstall

(* UninstallImagePullerOperator takes the finalizer last.  By then the       *)
(* Subscription and the operator's own OperatorGroup are gone, and they are  *)
(* still gone when the update of the CR is accepted, whatever users, OLM and *)
(* the garbage collector did since: nobody but this worker makes them, and   *)
(* a restart abandons the pass.  No other write of the CR loses the          *)
(* finalizer, an update from an outdated copy included.                     *)
THEOREM FinalizerIsLast == Spec => FinalizerGuards
<1>1. PullerInv /\ [Next]_vars => [cr.fin /\ ~cr'.fin => sub = 0 /\ group # "ours"]_vars
  <2> SUFFICES ASSUME PullerInv, [Next]_vars, cr.fin, ~cr'.fin
               PROVE  sub = 0 /\ group # "ours"
    OBVIOUS
  <2>1. DropFinalizer
    BY OthersKeepCR, UserKeepsFinalizer, WorkerKeepsFinalizer
  <2> QED
    BY <2>1 DEF DropFinalizer, PullerInv, Removed
<1> QED
  BY <1>1, AlwaysPullerInv, PTL DEF Spec, FinalizerGuards

=============================================================================
