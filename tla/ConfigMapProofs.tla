-------------------------- MODULE ConfigMapProofs --------------------------
(***************************************************************************)
(* Theorems about the two components that keep ConfigMaps for the server.   *)
(*                                                                         *)
(* About CABundle, for every set of ConfigMaps, with names that can be read  *)
(* back or not, every trust store and every bound: types, that revisions     *)
(* vouch for the certificates of the bundle as far as they can be read, and  *)
(* that the operator rests only when the bundle is right.                   *)
(*                                                                         *)
(* About Server, for every set of properties and Secrets: types, that a    *)
(* legacy setting is in the CR before its ConfigMap goes and overwrites     *)
(* nothing once that has been seen, and that the operator rests only when   *)
(* the server's objects are right.  It is an instance, S, over variables of  *)
(* its own and cache, pc and queued, which both modules have; nothing is     *)
(* said of the two at once.                                                 *)
(***************************************************************************)
EXTENDS CABundle, FiniteSetTheorems, TLAPS

CONSTANTS Properties, BitBucket, Mounted, None, MaxEvents
VARIABLES cr, crSeen, api, stale, pod, mem, fresh, events

S == INSTANCE Server

(* The parts of a bundle that is written.                                  *)
LEMMA BundleTypes ==
  ASSUME NEW s \in Sources, content \in [Versions -> Versions],
         NEW o \in Notes(s)
  PROVE  IsBundle(Bundle(s, o))
<1>1. Merged(s) \subseteq Names \X Versions
  BY DEF Merged, Present, Sources
<1>2. Revisions(s) \subseteq Names \X Versions
  BY DEF Revisions, Present, Sources
<1>3. /\ DOMAIN o = 1..Cardinality(Present(s))
      /\ o \in [DOMAIN o -> Names \X Versions]
  BY <1>2 DEF Notes
<1>4. /\ IsFiniteSet(Present(s))
      /\ Cardinality(Present(s)) \in Nat /\ Cardinality(Names) \in Nat
      /\ Cardinality(Present(s)) <= Cardinality(Names)
  BY CABundleAssumption, FS_Subset, FS_CardinalityType DEF Present, CABundleAssumption
<1>5. DOMAIN o \subseteq 1..Cardinality(Names)
  BY <1>3, <1>4
<1> QED
  BY <1>1, <1>3, <1>5 DEF IsBundle, Bundle

LEMMA NoBundleTypes == IsBundle(NoBundle)
BY DEF IsBundle, NoBundle

-----------------------------------------------------------------------------
(* Type correctness.                                                       *)

LEMMA UsedTypes == \A s \in Sources : \A t : Used(s, t) \in Sources
<1>1. 0 \in Versions
  BY CABundleAssumption DEF Versions, CABundleAssumption
<1> QED
  BY <1>1 DEF Used, Sources

(* A change by the administrator.                                          *)
LEMMA AdministratorTypes ==
  ASSUME TypeOK, Administrator, trusts' \in BOOLEAN, behind' \in BOOLEAN,
         source' \in Sources, content' \in [Versions -> Versions], IsBundle(bundle')
  PROVE  TypeOK'
BY CABundleAssumption DEF TypeOK, Administrator, Versions, CABundleAssumption

(* A call of the worker.                                                   *)
LEMMA WorkerTypes ==
  ASSUME TypeOK, listed' \in Sources, pc' \in {"idle", "trustStore", "compare", "sync"},
         queued' \in BOOLEAN, mishaps' \in Nat, behind' \in BOOLEAN, IsBundle(bundle'),
         Outside
  PROVE  TypeOK'
BY DEF TypeOK, Outside

LEMMA LeaveTypes ==
  ASSUME TypeOK, Fail \/ Return
  PROVE  pc' = "idle" /\ queued' \in BOOLEAN /\ listed' \in Sources
<1>1. NoSources \in Sources
  BY CABundleAssumption DEF NoSources, Sources, Versions, CABundleAssumption
<1> QED
  BY <1>1 DEF TypeOK, Fail, Return, Leave

LEMMA InitTypes == Init => TypeOK
<1>1. NoSources \in Sources
  BY CABundleAssumption DEF NoSources, Sources, Versions, CABundleAssumption
<1>2. 0 \in Versions
  BY CABundleAssumption DEF Versions, CABundleAssumption
<1>3. Init => cache.source = NoSources /\ cache.bundle = NoBundle
  BY DEF Init
<1>4. Init => IsBundle(bundle) /\ IsBundle(cache.bundle)
  BY <1>3, NoBundleTypes DEF Init
<1> QED
  BY <1>1, <1>2, <1>3, <1>4, CABundleAssumption DEF Init, TypeOK, CABundleAssumption

LEMMA NextTypes ==
  ASSUME TypeOK, [Next]_vars
  PROVE  TypeOK'
<1>1. /\ source \in Sources /\ cache.source \in Sources /\ listed \in Sources
      /\ content \in [Versions -> Versions] /\ IsBundle(bundle)
      /\ queued \in BOOLEAN /\ behind \in BOOLEAN /\ mishaps \in Nat
      /\ trusts \in BOOLEAN /\ seen \in BOOLEAN
  BY DEF TypeOK
<1>2. Administrator => version + 1 \in Versions
  BY CABundleAssumption DEF Administrator, TypeOK, Versions, CABundleAssumption
<1>3. CASE SetSource
  <2>1. source' \in Sources /\ content' \in [Versions -> Versions] /\ bundle' = bundle
    BY <1>1, <1>2, <1>3 DEF SetSource, Sources
  <2> QED
    BY <1>1, <1>3, <2>1, AdministratorTypes DEF SetSource
<1>4. CASE TouchSource
  <2>1. PICK n \in Names : /\ source' = [source EXCEPT ![n] = version + 1]
                           /\ content' = [content EXCEPT ![version + 1] = content[source[n]]]
    BY <1>4 DEF TouchSource, Present
  <2>2. source' \in Sources /\ content' \in [Versions -> Versions] /\ bundle' = bundle
    BY <1>1, <1>2, <1>4, <2>1 DEF TouchSource, Sources
  <2> QED
    BY <1>1, <1>4, <2>2, AdministratorTypes DEF TouchSource
<1>5. CASE RemoveSource
  <2>1. 0 \in Versions
    BY CABundleAssumption DEF Versions, CABundleAssumption
  <2>2. source' \in Sources /\ content' = content /\ bundle' = bundle
    BY <1>1, <1>5, <2>1 DEF RemoveSource, Sources
  <2> QED
    BY <1>1, <1>5, <2>2, AdministratorTypes DEF RemoveSource
<1>6. CASE DeleteBundle
  BY <1>1, <1>6, NoBundleTypes, AdministratorTypes DEF DeleteBundle
<1>7. CASE CacheSync
  BY <1>1, <1>7 DEF CacheSync, TypeOK
<1>18. CASE SyncCR
  <2>1. /\ UNCHANGED <<source, bundle, trusts, content, cache, behind, listed, pc, version, mishaps>>
        /\ seen' = trusts /\ queued' = TRUE
    BY <1>18 DEF SyncCR
  <2> QED
    BY <1>1, <2>1 DEF TypeOK
<1>8. CASE ListSources
  <2>1. listed' \in Sources
    BY <1>1, <1>8, UsedTypes DEF ListSources
  <2> QED
    BY <1>1, <1>8, <2>1, WorkerTypes DEF ListSources, ReadOnly
<1>9. CASE GetTrustStore
  <2>1. CASE Fail
    BY <1>1, <1>9, <2>1, LeaveTypes, WorkerTypes DEF GetTrustStore, ReadOnly
  <2>2. CASE ~Fail
    <3>1. listed' = [listed EXCEPT ![TrustStore] = cache.source[TrustStore]]
      BY <1>9, <2>2 DEF GetTrustStore
    <3>2. listed' \in Sources
      BY <1>1, <3>1 DEF Sources
    <3> QED
      BY <1>1, <1>9, <2>2, <3>2, WorkerTypes DEF GetTrustStore, ReadOnly
  <2> QED
    BY <2>1, <2>2
<1>10. CASE CompareRevisions
  BY <1>1, <1>10, LeaveTypes, WorkerTypes DEF CompareRevisions, ReadOnly
<1>11. WriteBundle => IsBundle(bundle') /\ behind'
  BY <1>1, BundleTypes DEF WriteBundle
<1>12. CASE UpdateBundle
  <2>1. (Fail \/ Return) /\ ((bundle' = bundle /\ behind' = behind) \/ WriteBundle)
    BY <1>12 DEF UpdateBundle
  <2> QED
    BY <1>1, <1>11, <1>12, <2>1, LeaveTypes, WorkerTypes DEF UpdateBundle
<1>13. CASE CreateBundle
  BY <1>1, <1>11, <1>13, LeaveTypes, WorkerTypes DEF CreateBundle
<1>14. CASE CallFails
  BY <1>1, <1>14, LeaveTypes, WorkerTypes DEF CallFails, ReadOnly
<1>15. CASE Restart
  <2>1. cache'.source = source /\ cache'.bundle = bundle /\ mishaps' \in Nat
    BY <1>1, <1>15 DEF Restart
  <2>2. IsBundle(cache'.bundle) /\ IsBundle(bundle')
    BY <1>1, <1>15, <2>1 DEF Restart
  <2>3. pc' = "idle" /\ queued' \in BOOLEAN /\ listed' \in Sources
    BY <1>15, LeaveTypes DEF Restart
  <2> QED
    BY <1>15, <2>1, <2>2, <2>3 DEF Restart, TypeOK
<1>16. CASE UNCHANGED vars
  BY <1>16 DEF vars, TypeOK, IsBundle
<1>17. CASE NameTrustStore
  BY <1>1, <1>17, AdministratorTypes DEF NameTrustStore
<1> QED
  BY <1>3, <1>4, <1>5, <1>6, <1>7, <1>8, <1>9, <1>10, <1>12, <1>13, <1>14, <1>15, <1>16, <1>17, <1>18
     DEF Next, Worker

(* Type correctness: sources, cache and list have only revisions that can   *)
(* have been given, and a bundle never notes more entries than there are    *)
(* ConfigMaps.                                                             *)
THEOREM TypeCorrect == Spec => []TypeOK
<1>1. Init => TypeOK
  BY InitTypes
<1>2. TypeOK /\ [Next]_vars => TypeOK'
  BY NextTypes
<1> QED
  BY <1>1, <1>2, PTL DEF Spec

-----------------------------------------------------------------------------
(* Revisions vouch for certificates.                                       *)

(* A bundle was merged from the revisions noted on it, none of which is     *)
(* newer than v, when c are the contents of revisions.                     *)
MergedFrom(b, c, v) ==
  /\ b.data = {<<e[1], c[e[2]]>> : e \in Noted(b.noted)}
  /\ \A e \in Noted(b.noted) : e[2] <= v

Given(s, v) == \A n \in Names : s[n] <= v

Faithful ==
  /\ MergedFrom(bundle, content, version)
  /\ MergedFrom(cache.bundle, content, version)
  /\ Given(source, version) /\ Given(cache.source, version) /\ Given(listed, version)

LEMMA BundleFaithful ==
  ASSUME NEW s \in Sources, Given(s, version), NEW o \in Notes(s)
  PROVE  MergedFrom(Bundle(s, o), content, version)
<1>1. Noted(o) = {<<n, s[n]>> : n \in Present(s)}
  BY DEF Notes, Revisions
<1>2. {<<e[1], content[e[2]]>> : e \in Noted(o)} = {<<n, content[s[n]]>> : n \in Present(s)}
  <2>1. \A e \in Noted(o) : \E n \in Present(s) : <<e[1], content[e[2]]>> = <<n, content[s[n]]>>
    BY <1>1
  <2>2. ASSUME NEW n \in Present(s)
        PROVE  \E e \in Noted(o) : <<e[1], content[e[2]]>> = <<n, content[s[n]]>>
    <3>1. <<n, s[n]>> \in Noted(o)
      BY <1>1
    <3> QED
      BY <3>1
  <2> QED
    BY <2>1, <2>2
<1>3. \A e \in Noted(o) : e[2] <= version
  BY <1>1 DEF Given, Present
<1> QED
  BY <1>2, <1>3 DEF MergedFrom, Bundle, Merged

LEMMA NoBundleFaithful ==
  ASSUME NEW c, NEW v PROVE MergedFrom(NoBundle, c, v)
<1>1. Noted(<<>>) = {}
  BY DEF Noted
<1> QED
  BY <1>1 DEF MergedFrom, NoBundle

(* What is noted keeps its certificates when a revision is added.          *)
LEMMA FaithfulKept ==
  ASSUME NEW b, IsBundle(b), NEW c \in [Versions -> Versions], NEW v \in Versions,
         MergedFrom(b, c, v), v + 1 \in Versions,
         NEW d, d = c \/ \E x \in Versions : d = [c EXCEPT ![v + 1] = x]
  PROVE  MergedFrom(b, d, v + 1)
<1>1. \A e \in Noted(b.noted) : e \in Names \X Versions /\ e[2] <= v
  BY DEF MergedFrom, IsBundle, Noted
<1>2. Versions \subseteq Nat
  BY CABundleAssumption DEF Versions, CABundleAssumption
<1>3. \A e \in Noted(b.noted) : e[2] \in Nat /\ e[2] <= v + 1 /\ e[2] # v + 1
  <2>1. v \in Nat /\ \A e \in Noted(b.noted) : e[2] \in Nat
    BY <1>1, <1>2
  <2> QED
    BY <1>1, <2>1
<1>4. \A e \in Noted(b.noted) : d[e[2]] = c[e[2]]
  BY <1>1, <1>3
<1>5. {<<e[1], d[e[2]]>> : e \in Noted(b.noted)} = {<<e[1], c[e[2]]>> : e \in Noted(b.noted)}
  BY <1>4
<1> QED
  BY <1>3, <1>5 DEF MergedFrom

LEMMA GivenKept ==
  ASSUME NEW s \in Sources, NEW v \in Versions, Given(s, v)
  PROVE  Given(s, v + 1)
<1>1. Versions \subseteq Nat
  BY CABundleAssumption DEF Versions, CABundleAssumption
<1>2. \A n \in Names : s[n] \in Nat
  BY <1>1 DEF Sources
<1> QED
  BY <1>1, <1>2 DEF Given

(* An added revision, and what a call of the worker may do.                *)
LEMMA AdministratorFaithful ==
  ASSUME TypeOK, TypeOK', Faithful, Administrator,
         \/ \E n \in Names : source' = [source EXCEPT ![n] = version + 1]
         \/ \E n \in Names : source' = [source EXCEPT ![n] = 0]
         \/ source' = source,
         content' = content \/ \E x \in Versions : content' = [content EXCEPT ![version + 1] = x],
         bundle' = bundle \/ bundle' = NoBundle
  PROVE  Faithful'
<1>1. /\ version' = version + 1 /\ version \in Versions /\ version' \in Versions
      /\ cache' = cache /\ listed' = listed
  BY DEF Administrator, TypeOK
<1>2. /\ content \in [Versions -> Versions] /\ IsBundle(bundle) /\ IsBundle(cache.bundle)
      /\ source \in Sources /\ cache.source \in Sources /\ listed \in Sources
  BY DEF TypeOK
<1>3. /\ MergedFrom(bundle, content, version) /\ MergedFrom(cache.bundle, content, version)
      /\ Given(source, version) /\ Given(cache.source, version) /\ Given(listed, version)
  BY DEF Faithful
<1>4. /\ MergedFrom(bundle, content', version + 1)
      /\ MergedFrom(cache.bundle, content', version + 1)
  BY <1>1, <1>2, <1>3, FaithfulKept
<1>5. MergedFrom(NoBundle, content', version + 1)
  BY NoBundleFaithful
<1>6. /\ Given(source, version + 1) /\ Given(cache.source, version + 1)
      /\ Given(listed, version + 1)
  BY <1>1, <1>2, <1>3, GivenKept
<1>7. version \in Nat
  BY <1>1, CABundleAssumption DEF Versions, CABundleAssumption
<1>8. Given(source', version + 1)
  BY <1>2, <1>6, <1>7 DEF Given, Sources
<1> QED
  BY <1>1, <1>4, <1>5, <1>6, <1>8 DEF Faithful

LEMMA WorkerFaithful ==
  ASSUME TypeOK, Faithful, UNCHANGED <<source, content, version>>,
         bundle' = bundle \/ WriteBundle,
         cache' = cache \/ (cache'.source = source /\ cache'.bundle = bundle),
         listed' = listed \/ Given(listed', version)
  PROVE  Faithful'
<1>1. /\ MergedFrom(bundle, content, version) /\ MergedFrom(cache.bundle, content, version)
      /\ Given(source, version) /\ Given(cache.source, version) /\ Given(listed, version)
  BY DEF Faithful
<1>2. MergedFrom(bundle', content, version)
  BY <1>1, BundleFaithful DEF WriteBundle, TypeOK
<1>3. MergedFrom(cache'.bundle, content, version) /\ Given(cache'.source, version)
  BY <1>1
<1>4. Given(listed', version)
  BY <1>1
<1> QED
  BY <1>1, <1>2, <1>3, <1>4 DEF Faithful

LEMMA LeaveGiven ==
  ASSUME TypeOK, Faithful, Fail \/ Return
  PROVE  Given(listed', version)
<1>1. \A n \in Names : listed'[n] = 0
  BY DEF Fail, Return, Leave, NoSources
<1>2. version \in Nat
  BY CABundleAssumption DEF TypeOK, Versions, CABundleAssumption
<1> QED
  BY <1>1, <1>2 DEF Given

LEMMA InitFaithful == Init => Faithful
<1> SUFFICES ASSUME Init PROVE Faithful
  OBVIOUS
<1>1. /\ bundle = NoBundle /\ cache.bundle = NoBundle
      /\ source = NoSources /\ cache.source = NoSources /\ listed = NoSources
      /\ version = 0
  BY DEF Init
<1>2. Given(NoSources, 0)
  BY DEF Given, NoSources
<1>3. MergedFrom(NoBundle, content, version)
  BY NoBundleFaithful
<1> QED
  BY <1>1, <1>2, <1>3 DEF Faithful

LEMMA NextFaithful ==
  ASSUME TypeOK, TypeOK', Faithful, [Next]_vars
  PROVE  Faithful'
<1>1. /\ Given(listed, version) /\ Given(cache.source, version)
      /\ version \in Nat /\ content \in [Versions -> Versions] /\ source \in Sources
      /\ listed \in Sources /\ cache.source \in Sources
  BY CABundleAssumption DEF Faithful, TypeOK, Versions, CABundleAssumption
<1>2. CASE SetSource
  <2>1. Administrator /\ version < MaxChanges
    BY <1>2 DEF SetSource, Administrator
  <2>2. version + 1 \in Versions
    BY <1>1, <2>1, CABundleAssumption DEF Versions, CABundleAssumption
  <2> QED
    BY <1>2, <2>1, <2>2, AdministratorFaithful DEF SetSource
<1>3. CASE TouchSource
  <2>1. PICK n \in Names : /\ source' = [source EXCEPT ![n] = version + 1]
                           /\ content' = [content EXCEPT ![version + 1] = content[source[n]]]
    BY <1>3 DEF TouchSource, Present
  <2>2. content[source[n]] \in Versions
    BY <1>1 DEF Sources
  <2> QED
    BY <1>3, <2>1, <2>2, AdministratorFaithful DEF TouchSource
<1>4. CASE RemoveSource
  BY <1>4, AdministratorFaithful DEF RemoveSource, Present
<1>5. CASE DeleteBundle
  BY <1>5, AdministratorFaithful DEF DeleteBundle
<1>6. CASE CacheSync \/ SyncCR \/ NameTrustStore
  <2>1. CASE CacheSync \/ SyncCR
    BY <2>1, WorkerFaithful DEF CacheSync, SyncCR
  <2>2. CASE NameTrustStore
    BY <2>2, AdministratorFaithful DEF NameTrustStore
  <2> QED
    BY <1>6, <2>1, <2>2
<1>7. CASE ListSources
  <2>1. Given(listed', version)
    BY <1>1, <1>7 DEF ListSources, Given, Used
  <2> QED
    BY <1>7, <2>1, WorkerFaithful DEF ListSources, ReadOnly, Outside
<1>8. CASE GetTrustStore
  <2>1. CASE Fail
    BY <1>8, <2>1, LeaveGiven, WorkerFaithful DEF GetTrustStore, ReadOnly, Outside
  <2>2. CASE ~Fail
    <3>1. listed' = [listed EXCEPT ![TrustStore] = cache.source[TrustStore]]
      BY <1>8, <2>2 DEF GetTrustStore
    <3>2. Given(listed', version)
      BY <1>1, <3>1 DEF Given, Sources
    <3> QED
      BY <1>8, <3>2, WorkerFaithful DEF GetTrustStore, ReadOnly, Outside
  <2> QED
    BY <2>1, <2>2
<1>9. CASE CompareRevisions
  BY <1>9, LeaveGiven, WorkerFaithful DEF CompareRevisions, ReadOnly, Outside
<1>10. CASE UpdateBundle
  <2>1. (Fail \/ Return) /\ (bundle' = bundle \/ WriteBundle)
    BY <1>10 DEF UpdateBundle
  <2> QED
    BY <1>10, <2>1, LeaveGiven, WorkerFaithful DEF UpdateBundle, Outside
<1>11. CASE CreateBundle
  BY <1>11, LeaveGiven, WorkerFaithful DEF CreateBundle, Outside
<1>12. CASE CallFails
  BY <1>12, LeaveGiven, WorkerFaithful DEF CallFails, ReadOnly, Outside
<1>13. CASE Restart
  BY <1>13, LeaveGiven, WorkerFaithful DEF Restart
<1>14. CASE UNCHANGED vars
  BY <1>14, WorkerFaithful DEF vars
<1> QED
  BY <1>2, <1>3, <1>4, <1>5, <1>6, <1>7, <1>8, <1>9, <1>10, <1>11, <1>12, <1>13, <1>14
     DEF Next, Worker

(* What was read and agrees with the list was noted so.                     *)
LEMMA ReadAsNoted ==
  ASSUME NEW o, NEW s, Parsed(o) = Revisions(s), NEW i \in Readable(o)
  PROVE  o[i] \in Revisions(s)
<1>1. (IF o[i][1] \in Misread THEN <<o[i][1], 0>> ELSE o[i]) \in Revisions(s)
  BY DEF Parsed
<1>2. \A e \in Revisions(s) : e[2] # 0
  BY DEF Revisions, Present
<1> QED
  BY <1>1, <1>2

LEMMA NotedAsListed ==
  ASSUME NEW o, NEW s, Parsed(o) = Revisions(s) PROVE Revisions(s) \subseteq Noted(o)
<1> SUFFICES ASSUME NEW e \in Revisions(s) PROVE e \in Noted(o)
  OBVIOUS
<1>1. PICK i \in Readable(o) : e = IF o[i][1] \in Misread THEN <<o[i][1], 0>> ELSE o[i]
  BY DEF Parsed
<1>2. e[2] # 0
  BY DEF Revisions, Present
<1>3. e = o[i] /\ i \in DOMAIN o
  BY <1>1, <1>2 DEF Readable
<1> QED
  BY <1>3 DEF Noted

LEMMA FaithfulSuffices ==
  ASSUME TypeOK, Faithful
  PROVE  UpToDateMeansMerged
<1> SUFFICES ASSUME UpToDate PROVE Holds(cache.bundle, listed)
  BY DEF UpToDateMeansMerged
<1> DEFINE o == cache.bundle.noted
<1>1. Parsed(o) = Revisions(listed)
  BY DEF UpToDate
<1>2. cache.bundle.data = {<<e[1], content[e[2]]>> : e \in Noted(o)}
  BY DEF Faithful, MergedFrom
<1> HIDE DEF o
<1>3. \A e \in Revisions(listed) : <<e[1], content[e[2]]>> \in Merged(listed)
  BY DEF Revisions, Merged
<1>4. Merged(listed) \subseteq cache.bundle.data
  <2> SUFFICES ASSUME NEW n \in Present(listed)
               PROVE  <<n, content[listed[n]]>> \in cache.bundle.data
    BY DEF Merged
  <2>1. <<n, listed[n]>> \in Noted(o)
    BY <1>1, NotedAsListed DEF Revisions
  <2> QED
    BY <1>2, <2>1
<1>5. ASSUME NEW x \in cache.bundle.data \ Merged(listed) PROVE x[1] \in Unread(o)
  <2>1. PICK e \in Noted(o) : x = <<e[1], content[e[2]]>>
    BY <1>2
  <2>2. PICK i \in DOMAIN o : e = o[i]
    BY DEF Noted
  <2>3. i \notin Readable(o)
    BY <1>1, <1>3, <2>1, <2>2, ReadAsNoted
  <2> QED
    BY <2>1, <2>2, <2>3 DEF Unread
<1> QED
  BY <1>4, <1>5 DEF Holds, o

(* A bundle that counts as up to date, by the revisions in its annotation,   *)
(* has the certificates of all sources as listed, however stale the list,    *)
(* whoever wrote the bundle and whatever was deleted, lost or repeated in    *)
(* between; what else it has is of sources noted from the first name on that *)
(* ends the reading.  Nothing is assumed of the names.                      *)
THEOREM RevisionsVouch == Spec => []UpToDateMeansMerged
<1> DEFINE IInv == TypeOK /\ Faithful
<1>1. Init => IInv
  BY InitTypes, InitFaithful
<1>2. IInv /\ [Next]_vars => IInv'
  BY NextTypes, NextFaithful
<1>3. IInv => UpToDateMeansMerged
  BY FaithfulSuffices
<1> QED
  BY <1>1, <1>2, <1>3, PTL DEF Spec

-----------------------------------------------------------------------------
(* No change is lost.                                                      *)

(* What there is to do when the work queue is empty and the informer is up  *)
(* to date: nothing, for the CR as it was last seen, ...                    *)
SettledBundle ==
  /\ bundle.present /\ Holds(bundle, Used(source, seen))
  /\ seen => source[TrustStore] # 0

AtRest == pc = "idle" /\ ~queued /\ ~behind => SettledBundle

(* ... and what a pass knows as long as no event has come since it began.   *)
ListedIsCached ==
  /\ pc = "trustStore" => seen /\ listed = Used(cache.source, FALSE)
  /\ pc \in {"compare", "sync"} => /\ listed = Used(cache.source, seen)
                                   /\ seen => cache.source[TrustStore] # 0

RestInv ==
  /\ ~behind => cache.source = source /\ cache.bundle = bundle
  /\ ~queued => ListedIsCached
  /\ AtRest

LEMMA ExactHolds == ASSUME NEW b, NEW s, b.data = Merged(s) PROVE Holds(b, s)
BY DEF Holds

(* A pass that ends in silence has seen a bundle with the certificates of   *)
(* its list.                                                               *)
LEMMA SilentEndRests ==
  ASSUME TypeOK, RestInv, pc \in {"compare", "sync"}, Return, ReadOnly,
         cache.bundle.present, Holds(cache.bundle, listed)
  PROVE  RestInv'
<1>1. pc' = "idle" /\ queued' = queued
  BY DEF Return, Leave
<1>2. UNCHANGED <<source, bundle, content, cache, behind, seen>>
  BY DEF ReadOnly, Outside
<1>3. SettledBundle' = SettledBundle
  BY <1>2 DEF SettledBundle, Holds, Merged, Present, Used
<1>4. ~queued /\ ~behind => SettledBundle
  BY DEF RestInv, ListedIsCached, SettledBundle
<1> QED
  BY <1>1, <1>2, <1>3, <1>4 DEF RestInv, AtRest, ListedIsCached

(* So has one that asks for another, or writes.                            *)
LEMMA FailRests ==
  ASSUME RestInv, Fail, UNCHANGED <<source, bundle, cache, behind>>
  PROVE  RestInv'
BY DEF RestInv, Fail, Leave, AtRest

LEMMA WriteRests ==
  ASSUME Return, behind' PROVE RestInv'
BY DEF RestInv, Return, Leave, AtRest, ListedIsCached

LEMMA InitRests == Init => RestInv
BY DEF Init, RestInv, AtRest

LEMMA NextRests ==
  ASSUME TypeOK, RestInv, UpToDateMeansMerged, [Next]_vars
  PROVE  RestInv'
<1>1. ASSUME Administrator, behind' PROVE RestInv'
  BY <1>1 DEF RestInv, Administrator, AtRest, ListedIsCached
<1>2. CASE SetSource \/ TouchSource \/ RemoveSource \/ DeleteBundle
  BY <1>1, <1>2 DEF SetSource, TouchSource, RemoveSource, DeleteBundle
<1>3. CASE CacheSync \/ SyncCR
  BY <1>3 DEF CacheSync, SyncCR, RestInv, AtRest
<1>4. CASE ListSources
  <2>1. /\ listed' = Used(cache.source, FALSE)
        /\ pc' = IF seen THEN "trustStore" ELSE "compare"
        /\ UNCHANGED <<source, bundle, cache, behind, seen>> /\ seen \in BOOLEAN
    BY <1>4 DEF ListSources, ReadOnly, Outside, TypeOK
  <2>2. ListedIsCached' /\ AtRest'
    BY <2>1 DEF ListedIsCached, AtRest
  <2> QED
    BY <2>1, <2>2 DEF RestInv
<1>5. CASE GetTrustStore
  <2>1. UNCHANGED <<source, bundle, cache, behind, seen>> /\ pc = "trustStore"
    BY <1>5 DEF GetTrustStore, ReadOnly, Outside
  <2>2. CASE Fail
    BY <2>1, <2>2, FailRests
  <2>3. CASE ~Fail
    <3>1. /\ listed' = [listed EXCEPT ![TrustStore] = cache.source[TrustStore]]
          /\ pc' = "compare" /\ queued' = queued /\ cache.source[TrustStore] # 0
      BY <1>5, <2>3 DEF GetTrustStore
    <3>2. ASSUME ~queued PROVE seen /\ listed' = Used(cache.source, seen)
      <4>1. seen /\ listed = Used(cache.source, FALSE)
        BY <2>1, <3>2 DEF RestInv, ListedIsCached
      <4>2. TrustStore \in Names
        BY CABundleAssumption DEF CABundleAssumption
      <4> QED
        BY <3>1, <4>1, <4>2 DEF Used
    <3> QED
      BY <2>1, <3>1, <3>2 DEF RestInv, ListedIsCached, AtRest
  <2> QED
    BY <2>2, <2>3
<1>6. CASE CompareRevisions
  <2>1. ReadOnly
    BY <1>6 DEF CompareRevisions
  <2>2. CASE UpToDate /\ Return
    <3>1. cache.bundle.present /\ Holds(cache.bundle, listed)
      BY <1>6, <2>2 DEF CompareRevisions, UpToDate, UpToDateMeansMerged
    <3> QED
      BY <1>6, <2>1, <2>2, <3>1, SilentEndRests DEF CompareRevisions
  <2>3. CASE pc' = "sync" /\ UNCHANGED <<listed, queued>>
    BY <1>6, <2>1, <2>3 DEF CompareRevisions, RestInv, ListedIsCached, AtRest, ReadOnly, Outside
  <2> QED
    BY <1>6, <2>2, <2>3 DEF CompareRevisions
<1>7. CASE UpdateBundle
  <2>1. Outside /\ pc = "sync" /\ cache.bundle.present
    BY <1>7 DEF UpdateBundle
  <2>2. CASE cache.bundle.data = Merged(listed) /\ Return /\ UNCHANGED <<bundle, behind>>
    BY <2>1, <2>2, ExactHolds, SilentEndRests DEF ReadOnly
  <2>3. CASE WriteBundle /\ Return
    BY <2>3, WriteRests DEF WriteBundle
  <2>4. CASE Fail /\ UNCHANGED <<bundle, behind>>
    BY <2>1, <2>4, FailRests DEF Outside
  <2> QED
    BY <1>7, <2>2, <2>3, <2>4 DEF UpdateBundle
<1>8. CASE CreateBundle
  <2>1. Return /\ UNCHANGED <<source, cache>> /\ ~cache.bundle.present
    BY <1>8 DEF CreateBundle, Outside
  <2>2. behind'
    BY <1>8, <2>1 DEF CreateBundle, WriteBundle, RestInv
  <2> QED
    BY <2>1, <2>2, WriteRests
<1>9. CASE CallFails
  BY <1>9, FailRests DEF CallFails, ReadOnly, Outside
<1>10. CASE Restart
  BY <1>10 DEF Restart, Fail, Leave, RestInv, AtRest
<1>11. CASE UNCHANGED <<source, bundle, seen, content, cache, behind, listed, pc, queued>>
  BY <1>11 DEF RestInv, AtRest, SettledBundle, Holds, Used, Merged, Present, ListedIsCached
<1>12. NameTrustStore \/ UNCHANGED vars
         => UNCHANGED <<source, bundle, seen, content, cache, behind, listed, pc, queued>>
  BY DEF NameTrustStore, Administrator, vars
<1> QED
  BY <1>2, <1>3, <1>4, <1>5, <1>6, <1>7, <1>8, <1>9, <1>10, <1>11, <1>12 DEF Next, Worker

(* No wake-up is lost: whenever the work queue is empty, no pass runs and    *)
(* the informer has no event of a ConfigMap to come, the trust store of the  *)
(* CR, as last seen, is there, and the bundle holds the certificates of the  *)
(* sources as they are.  That is the part of BundleSettles which needs no    *)
(* fairness: a pass that updates nothing, or whose update is not done, never *)
(* leaves the queue empty too early.                                        *)
THEOREM AtRestMeansMerged == Spec => []AtRest
<1> DEFINE IInv == TypeOK /\ Faithful /\ RestInv
<1>1. Init => IInv
  BY InitTypes, InitFaithful, InitRests
<1>2. IInv /\ [Next]_vars => IInv'
  BY NextTypes, NextFaithful, NextRests, FaithfulSuffices
<1>3. IInv => AtRest
  BY DEF RestInv
<1> QED
  BY <1>1, <1>2, <1>3, PTL DEF Spec

-----------------------------------------------------------------------------
(* The server.  Its objects in the API server, or in the caches, by parts.   *)

ServerObjects(s) ==
  /\ DOMAIN s = S!Objects
  /\ s.legacy \in Properties \cup {None} /\ s.ca \in Nat /\ s.pvc \in {None, "bound", "terminating"}
  /\ s.che # None => s.che.data \in S!Data /\ s.che.rev \in Nat
  /\ s.secrets \subseteq BitBucket \cup Mounted
  /\ s.deployment \in S!Deployment \cup {None}

(* What the API server and the caches hold, ...                             *)
ServerStores == ServerObjects(api) /\ ServerObjects(cache) /\ stale \subseteq S!Kinds

(* ... the copies of the CR, and the pod.                                   *)
ServerCopies ==
  /\ cr \in S!CheCluster /\ crSeen \in S!CheCluster /\ mem \in S!CheCluster
  /\ fresh \in BOOLEAN /\ queued \in BOOLEAN /\ (fresh => mem = cr)
  /\ "cr" \notin stale => crSeen = cr

ServerPod == pod # None => pod.spec \in S!Deployment /\ pod.data \in S!Data

(* The legacy setting is seen as it is, or it is gone; and it is deleted when *)
(* the pass's copy of the CR has it.                                        *)
LegacyInv ==
  /\ "configmap" \notin stale => cache.legacy = api.legacy
  /\ cache.legacy # api.legacy => api.legacy = None
  /\ pc = "legacy delete" /\ api.legacy # None => mem.custom = api.legacy

ServerInv == ServerStores /\ ServerCopies /\ ServerPod /\ LegacyInv

LEMMA ServerConstants ==
  /\ S!Objects = {"legacy", "che", "ca", "secrets", "pvc", "deployment"}
  /\ S!Kinds = {"cr", "configmap", "secret", "pvc", "deployment"}
  /\ S!Kind["legacy"] = "configmap" /\ S!Kind["che"] = "configmap" /\ S!Kind["ca"] = "configmap"
  /\ S!Kind["secrets"] = "secret" /\ S!Kind["pvc"] = "pvc" /\ S!Kind["deployment"] = "deployment"
BY DEF S!Objects, S!Kinds, S!Kind

LEMMA ServerCRFacts ==
  /\ S!NoCR \in S!CheCluster
  /\ \A c \in S!CheCluster :
       /\ c.multi \in BOOLEAN /\ c.custom \in Properties \cup {None}
       /\ [c EXCEPT !.multi = ~@] \in S!CheCluster
       /\ [c EXCEPT !.multi = ~@].custom = c.custom
       /\ \A v \in Properties \cup {None} : /\ [c EXCEPT !.custom = v] \in S!CheCluster
                                            /\ [c EXCEPT !.custom = v].custom = v
BY DEF S!NoCR, S!CheCluster

(* The values that the worker writes.                                       *)
LEMMA ServerValues ==
  ASSUME NEW c \in S!CheCluster, ServerObjects(cache), cache.che # None
  PROVE  S!DeploymentSpec(c, cache.secrets) \in S!Deployment
<1>1. S!Endpoint(cache.secrets) \subseteq BitBucket
  BY DEF S!Endpoint
<1>2. S!Pins \in [che: Nat, ca: Nat]
  BY DEF S!Pins, ServerObjects
<1>3. S!Mounts(c, cache.secrets) \subseteq S!Volumes
  BY <1>1 DEF S!Mounts, S!Volumes
<1> QED
  BY <1>1, <1>2, <1>3, ServerCRFacts DEF S!DeploymentSpec, S!Deployment

LEMMA ServerDataTypes ==
  ASSUME NEW c \in S!CheCluster PROVE S!CheConfigMap(c, cache.secrets) \in S!Data
<1>1. S!Endpoint(cache.secrets) \subseteq BitBucket
  BY DEF S!Endpoint
<1> QED
  BY <1>1, ServerCRFacts DEF S!CheConfigMap, S!Data

(* A value that an object may have.                                         *)
ServerValue(o, v) ==
  /\ o = "legacy" => v = None
  /\ o = "che" => v.data \in S!Data /\ v.rev \in Nat
  /\ o = "ca" => v \in Nat
  /\ o = "secrets" => v \subseteq BitBucket \cup Mounted
  /\ o = "pvc" => v \in {None, "bound", "terminating"}
  /\ o = "deployment" => v \in S!Deployment

(* A write of an object other than the legacy ConfigMap keeps what is known  *)
(* of that one.                                                            *)
LEMMA ServerStoreKeeps ==
  ASSUME ServerStores, NEW o \in S!Objects, NEW v, ServerValue(o, v), S!Store(o, v), UNCHANGED cache
  PROVE  /\ ServerStores'
         /\ o # "legacy" => api'.legacy = api.legacy
         /\ o = "legacy" => api'.legacy = None /\ (api.legacy # None => "configmap" \in stale')
         /\ stale \subseteq stale'
<1>1. CASE api[o] = v
  BY <1>1 DEF S!Store, ServerStores, ServerObjects, ServerValue
<1>2. CASE api[o] # v
  <2>1. api' = [api EXCEPT ![o] = v] /\ stale' = stale \cup {S!Kind[o]}
    BY <1>2 DEF S!Store
  <2>2. ServerObjects(api) /\ DOMAIN api = S!Objects
    BY DEF ServerStores, ServerObjects
  <2>3. DOMAIN api' = S!Objects /\ api'[o] = v /\ \A x \in S!Objects : x # o => api'[x] = api[x]
    BY <2>1, <2>2
  <2>4. /\ api'.legacy = IF o = "legacy" THEN v ELSE api.legacy
        /\ api'.che = IF o = "che" THEN v ELSE api.che
        /\ api'.ca = IF o = "ca" THEN v ELSE api.ca
        /\ api'.secrets = IF o = "secrets" THEN v ELSE api.secrets
        /\ api'.pvc = IF o = "pvc" THEN v ELSE api.pvc
        /\ api'.deployment = IF o = "deployment" THEN v ELSE api.deployment
    BY <2>3, ServerConstants
  <2>5. ServerObjects(api')
    BY <2>2, <2>3, <2>4 DEF ServerObjects, ServerValue
  <2>6. stale' \subseteq S!Kinds
    BY <2>1, ServerConstants DEF ServerStores
  <2> QED
    BY <2>1, <2>4, <2>5, <2>6, ServerConstants DEF ServerStores, ServerValue
<1> QED
  BY <1>1, <1>2

LEMMA ServerStoresStay ==
  ASSUME ServerStores, UNCHANGED <<api, cache, stale>> PROVE ServerStores'
BY DEF ServerStores

(* A step that leaves the CR and the legacy ConfigMap alone.                *)
LEMMA ServerStepKeeps ==
  ASSUME ServerInv, ServerStores', ServerPod', UNCHANGED <<cr, crSeen, cache>>,
         api'.legacy = api.legacy, stale \subseteq stale',
         UNCHANGED <<mem, fresh>> \/ (mem' = S!NoCR /\ fresh' = FALSE), queued' \in BOOLEAN,
         pc' = "legacy delete" =>
           mem' = mem /\ (pc = "legacy delete" \/ mem.custom = cache.legacy)
  PROVE  ServerInv'
<1>1. ServerCopies'
  <2>1. CASE UNCHANGED <<mem, fresh>>
    BY <2>1 DEF ServerInv, ServerCopies
  <2>2. CASE mem' = S!NoCR /\ fresh' = FALSE
    BY <2>2, ServerCRFacts DEF ServerInv, ServerCopies
  <2> QED
    BY <2>1, <2>2
<1>2. LegacyInv'
  BY DEF ServerInv, LegacyInv
<1> QED
  BY <1>1, <1>2 DEF ServerInv

(* The worker writes an object, or none, and goes on or ends its pass.       *)
LEMMA ServerWriteKeeps ==
  ASSUME ServerInv, UNCHANGED cr, S!Outside, NEW o \in S!Objects, NEW v, o # "legacy",
         UNCHANGED <<api, stale>> \/ (ServerValue(o, v) /\ S!Store(o, v)),
         NEW p, p # "legacy delete", S!Go(p) \/ S!Wait \/ S!Requeue
  PROVE  ServerInv'
<1>1. UNCHANGED <<crSeen, cache, pod>>
  BY DEF S!Outside
<1>2. ServerStores' /\ api'.legacy = api.legacy /\ stale \subseteq stale'
  BY <1>1, ServerStoreKeeps DEF ServerInv, ServerStores
<1>3. /\ UNCHANGED <<mem, fresh>> \/ (mem' = S!NoCR /\ fresh' = FALSE)
      /\ queued' \in BOOLEAN /\ pc' # "legacy delete"
  BY DEF S!Go, S!Wait, S!Requeue, S!Leave, S!control, ServerInv, ServerCopies
<1>4. ServerPod'
  BY <1>1 DEF ServerInv, ServerPod
<1> QED
  BY <1>1, <1>2, <1>3, <1>4, ServerStepKeeps

(* No object is written.                                                    *)
LEMMA ServerQuietKeeps ==
  ASSUME ServerInv, UNCHANGED <<cr, api, stale>>, S!Outside,
         NEW p, p # "legacy delete", S!Go(p) \/ S!Wait \/ S!Requeue
  PROVE  ServerInv'
BY ServerConstants, ServerWriteKeeps

LEMMA ServerEndKeeps ==
  ASSUME ServerInv, UNCHANGED <<cr, api, stale>>, S!Outside, S!Wait \/ S!Requeue PROVE ServerInv'
<1>1. "idle" # "legacy delete" /\ (S!Go("idle") \/ S!Wait \/ S!Requeue)
  OBVIOUS
<1> QED
  BY <1>1, ServerQuietKeeps

(* A write of the CR by the operator: the legacy setting.                   *)
LEMMA ServerLegacyKeeps == ASSUME ServerInv, S!SyncLegacyConfigMap PROVE ServerInv'
<1>1. S!Outside /\ UNCHANGED <<crSeen, cache, pod>>
  BY DEF S!SyncLegacyConfigMap, S!Outside
<1>2. ServerStores /\ ServerCopies /\ ServerPod /\ LegacyInv
  BY DEF ServerInv
<1>3. ServerPod'
  BY <1>1, <1>2 DEF ServerPod
<1>4. CASE pc = "legacy"
  <2>1. UNCHANGED api
    BY <1>4 DEF S!SyncLegacyConfigMap
  <2>2. CASE cache.legacy = None /\ S!Go("pvc") /\ UNCHANGED <<cr, stale>>
    BY <1>1, <2>1, <2>2, ServerQuietKeeps
  <2>3. CASE fresh /\ mem.custom = cache.legacy /\ S!Go("legacy delete") /\ UNCHANGED <<cr, stale>>
    <3>1. mem.custom = cache.legacy /\ UNCHANGED <<mem, fresh, queued>>
      BY <1>2, <2>3 DEF ServerCopies, S!Go, S!control
    <3>2. ServerStores' /\ queued' \in BOOLEAN
      BY <1>1, <1>2, <2>1, <2>3, <3>1, ServerStoresStay DEF ServerCopies
    <3> QED
      BY <1>1, <1>3, <2>1, <2>3, <3>1, <3>2, ServerStepKeeps
  <2>4. CASE S!WriteCR([mem EXCEPT !.custom = cache.legacy], "legacy delete")
    <3> DEFINE c == [mem EXCEPT !.custom = cache.legacy]
    <3>1. c \in S!CheCluster /\ c.custom = cache.legacy
      BY <1>2, ServerCRFacts DEF ServerStores, ServerObjects, ServerCopies
    <3> HIDE DEF c
    <3>2. CASE fresh
      <4>1. /\ cr' = c /\ mem' = c /\ stale' = stale \cup {"cr"}
            /\ pc' = "legacy delete" /\ UNCHANGED <<fresh, queued>>
        BY <2>4, <3>2 DEF S!WriteCR, c
      <4>2. ServerStores'
        BY <1>1, <1>2, <2>1, <4>1, ServerConstants DEF ServerStores
      <4>3. ServerCopies'
        BY <1>1, <1>2, <3>1, <4>1 DEF ServerCopies
      <4>4. LegacyInv'
        BY <1>1, <1>2, <2>1, <3>1, <4>1 DEF LegacyInv
      <4> QED
        BY <1>3, <4>2, <4>3, <4>4 DEF ServerInv
    <3>3. CASE ~fresh
      <4>1. S!Requeue /\ UNCHANGED <<cr, stale>>
        BY <2>4, <3>3 DEF S!WriteCR
      <4> QED
        BY <1>1, <2>1, <4>1, ServerEndKeeps
    <3> QED
      BY <3>2, <3>3
  <2> QED
    BY <1>4, <2>2, <2>3, <2>4 DEF S!SyncLegacyConfigMap
<1>5. CASE pc = "legacy delete"
  <2>1. S!Store("legacy", None) /\ S!Go("pvc") /\ UNCHANGED cr
    BY <1>5 DEF S!SyncLegacyConfigMap
  <2>2. UNCHANGED <<mem, fresh, queued>> /\ pc' = "pvc"
    BY <2>1 DEF S!Go, S!control
  <2>3. /\ ServerStores' /\ stale \subseteq stale'
        /\ api'.legacy = None /\ (api.legacy # None => "configmap" \in stale')
    BY <1>1, <1>2, <2>1, ServerConstants, ServerStoreKeeps DEF ServerValue
  <2>4. ServerCopies'
    BY <1>1, <1>2, <2>1, <2>2, <2>3 DEF ServerCopies
  <2>5. LegacyInv'
    BY <1>1, <1>2, <1>5, <2>1, <2>2, <2>3 DEF LegacyInv
  <2> QED
    BY <1>3, <2>3, <2>4, <2>5 DEF ServerInv
<1> QED
  BY <1>4, <1>5 DEF S!SyncLegacyConfigMap

LEMMA ServerPVCKeeps == ASSUME ServerInv, S!SyncPVC PROVE ServerInv'
<1>1. UNCHANGED cr /\ S!Outside /\ (S!Go("config") \/ S!Wait)
  BY DEF S!SyncPVC
<1>2. UNCHANGED <<api, stale>> \/ \E v \in {None, "bound", "terminating"} : S!Store("pvc", v)
  BY DEF S!SyncPVC
<1> QED
  BY <1>1, <1>2, ServerConstants, ServerWriteKeeps DEF ServerValue

LEMMA ServerConfigKeeps == ASSUME ServerInv, S!SyncCheConfigMap PROVE ServerInv'
<1> DEFINE data == S!CheConfigMap(mem, cache.secrets)
<1>1. UNCHANGED cr /\ S!Outside /\ (S!Go("deployment") \/ S!Wait \/ S!Requeue)
  BY DEF S!SyncCheConfigMap
<1>2. /\ data \in S!Data
      /\ api.che # None => api.che.rev \in Nat
  BY ServerDataTypes DEF ServerInv, ServerCopies, ServerStores, ServerObjects
<1>3. \/ UNCHANGED <<api, stale>>
      \/ S!Store("che", [data |-> data, rev |-> 1])
      \/ api.che # None /\ S!Store("che", [data |-> data, rev |-> api.che.rev + 1])
  BY DEF S!SyncCheConfigMap
<1> HIDE DEF data
<1>4. UNCHANGED <<api, stale>> \/ \E n \in Nat : S!Store("che", [data |-> data, rev |-> n])
  <2>1. 1 \in Nat /\ (api.che # None => api.che.rev + 1 \in Nat)
    BY <1>2
  <2> QED
    BY <1>3, <2>1, Zenon
<1>5. \A n \in Nat : ServerValue("che", [data |-> data, rev |-> n])
  BY <1>2 DEF ServerValue
<1> QED
  BY <1>1, <1>4, <1>5, ServerConstants, ServerWriteKeeps

LEMMA ServerDeploymentKeeps == ASSUME ServerInv, S!SyncDeployment PROVE ServerInv'
<1> DEFINE spec == S!DeploymentSpec(mem, cache.secrets)
<1>1. UNCHANGED cr /\ S!Outside /\ (S!Wait \/ S!Requeue)
  BY DEF S!SyncDeployment
<1>2. UNCHANGED <<api, stale>> \/ (cache.che # None /\ S!Store("deployment", spec))
  BY DEF S!SyncDeployment
<1>3. cache.che # None => ServerValue("deployment", spec)
  BY ServerValues DEF ServerInv, ServerCopies, ServerStores, ServerValue
<1> QED
  BY <1>1, <1>2, <1>3, ServerConstants, ServerWriteKeeps

(* The start of a pass, and what ends it.                                   *)
LEMMA ServerStartKeeps == ASSUME ServerInv, S!Start PROVE ServerInv'
<1>1. /\ UNCHANGED <<cr, crSeen, api, cache, stale, pod>>
      /\ mem' = crSeen /\ fresh' = ("cr" \notin stale) /\ queued' = FALSE /\ pc' = "legacy"
  BY DEF S!Start, S!Outside
<1>2. ServerStores'
  BY <1>1, ServerStoresStay DEF ServerInv
<1>3. ServerCopies' /\ ServerPod' /\ LegacyInv'
  BY <1>1 DEF ServerInv, ServerCopies, ServerPod, LegacyInv
<1> QED
  BY <1>2, <1>3 DEF ServerInv

LEMMA ServerEndsKeep == ASSUME ServerInv, S!CallFails PROVE ServerInv'
<1>1. UNCHANGED <<cr, crSeen, api, cache, stale, pod>> /\ S!Requeue
  BY DEF S!CallFails
<1>2. /\ mem' = S!NoCR /\ fresh' = FALSE /\ queued' \in BOOLEAN /\ pc' # "legacy delete"
  BY <1>1 DEF S!Requeue, S!Leave
<1>3. ServerStores' /\ ServerPod'
  BY <1>1, ServerStoresStay DEF ServerInv, ServerPod
<1> QED
  BY <1>1, <1>2, <1>3, ServerStepKeeps

LEMMA ServerRestartKeeps == ASSUME ServerInv, S!Restart PROVE ServerInv'
<1>1. /\ UNCHANGED <<cr, api, pod>> /\ crSeen' = cr /\ cache' = api /\ stale' = {}
      /\ mem' = S!NoCR /\ fresh' = FALSE /\ queued' = TRUE /\ pc' = "idle"
  BY DEF S!Restart, S!Requeue, S!Leave
<1>2. ServerStores' /\ ServerPod'
  BY <1>1 DEF ServerInv, ServerStores, ServerPod
<1>3. ServerCopies'
  BY <1>1, ServerCRFacts DEF ServerInv, ServerCopies
<1>4. LegacyInv'
  BY <1>1 DEF LegacyInv
<1> QED
  BY <1>2, <1>3, <1>4 DEF ServerInv

LEMMA ServerSyncCacheKeeps ==
  ASSUME ServerInv, NEW k \in S!Kinds, S!SyncCache(k) PROVE ServerInv'
<1>1. /\ stale' = stale \ {k} /\ queued' = TRUE
      /\ crSeen' = IF k = "cr" THEN cr ELSE crSeen
      /\ cache' = [o \in S!Objects |-> IF S!Kind[o] = k THEN api[o] ELSE cache[o]]
      /\ UNCHANGED <<cr, api, pod, pc, mem, fresh>>
  BY DEF S!SyncCache
<1>2. ServerObjects(api) /\ ServerObjects(cache) /\ stale \subseteq S!Kinds
  BY DEF ServerInv, ServerStores
<1>3. /\ DOMAIN cache' = S!Objects
      /\ cache'.legacy = IF k = "configmap" THEN api.legacy ELSE cache.legacy
      /\ cache'.che = IF k = "configmap" THEN api.che ELSE cache.che
      /\ cache'.ca = IF k = "configmap" THEN api.ca ELSE cache.ca
      /\ cache'.secrets = IF k = "secret" THEN api.secrets ELSE cache.secrets
      /\ cache'.pvc = IF k = "pvc" THEN api.pvc ELSE cache.pvc
      /\ cache'.deployment = IF k = "deployment" THEN api.deployment ELSE cache.deployment
  BY <1>1, ServerConstants
<1>4. ServerObjects(cache')
  BY <1>2, <1>3 DEF ServerObjects
<1>5. ServerStores'
  BY <1>1, <1>2, <1>4 DEF ServerStores
<1>6. ServerCopies' /\ ServerPod'
  BY <1>1 DEF ServerInv, ServerCopies, ServerPod
<1>7. LegacyInv'
  BY <1>1, <1>3 DEF ServerInv, LegacyInv
<1> QED
  BY <1>5, <1>6, <1>7 DEF ServerInv

(* The pods, and the PVC.                                                   *)
LEMMA ServerPodsKeep ==
  ASSUME ServerInv, S!PodStarts \/ S!PodStops \/ S!PodLost PROVE ServerInv'
<1>1. UNCHANGED <<api, stale, cr, crSeen, cache, pc, mem, fresh, queued>>
  BY DEF S!PodStarts, S!PodStops, S!PodLost, S!External, S!control
<1>2. ServerPod'
  <2>1. CASE S!PodStarts
    <3>1. /\ pod' = [spec |-> api.deployment, data |-> api.che.data, ca |-> api.ca]
          /\ api.deployment # None /\ api.che # None
      BY <2>1 DEF S!PodStarts
    <3> QED
      BY <3>1 DEF ServerInv, ServerStores, ServerObjects, ServerPod
  <2>2. CASE pod' = None
    BY <2>2 DEF ServerPod
  <2> QED
    BY <2>1, <2>2 DEF S!PodStops, S!PodLost
<1>3. ServerStores' /\ queued' \in BOOLEAN
  BY <1>1, ServerStoresStay DEF ServerInv, ServerCopies
<1> QED
  BY <1>1, <1>2, <1>3, ServerStepKeeps

LEMMA ServerPVCGoesKeeps == ASSUME ServerInv, S!PVCGoes PROVE ServerInv'
<1>1. UNCHANGED <<pod, cr, crSeen, cache, pc, mem, fresh, queued>> /\ S!Store("pvc", None)
  BY DEF S!PVCGoes, S!External, S!control
<1>2. ServerStores' /\ api'.legacy = api.legacy /\ stale \subseteq stale'
  BY <1>1, ServerConstants, ServerStoreKeeps DEF ServerInv, ServerValue
<1>3. ServerPod' /\ queued' \in BOOLEAN
  BY <1>1 DEF ServerInv, ServerPod, ServerCopies
<1> QED
  BY <1>1, <1>2, <1>3, ServerStepKeeps

(* The user changes the CR, whatever the operator does.                     *)
LEMMA ServerEditKeeps ==
  ASSUME ServerInv, NEW c \in S!CheCluster, S!EditCR(c), UNCHANGED <<crSeen, cache, pod, pc, queued>>
  PROVE  ServerInv'
<1>1. cr' = c /\ stale' = stale \cup {"cr"} /\ fresh' = FALSE /\ UNCHANGED <<api, mem>>
  BY DEF S!EditCR
<1>2. ServerStores' /\ ServerPod'
  BY <1>1, ServerConstants DEF ServerInv, ServerStores, ServerPod
<1>3. ServerCopies'
  BY <1>1 DEF ServerInv, ServerCopies
<1>4. LegacyInv'
  BY <1>1 DEF ServerInv, LegacyInv
<1> QED
  BY <1>2, <1>3, <1>4 DEF ServerInv

LEMMA ServerUserKeeps == ASSUME ServerInv, S!User PROVE ServerInv'
<1>1. UNCHANGED <<crSeen, cache, pod, pc, queued>> /\ cr \in S!CheCluster
  BY DEF S!User, ServerInv, ServerCopies
<1>2. CASE S!EditCR([cr EXCEPT !.multi = ~@])
  BY <1>1, <1>2, ServerCRFacts, ServerEditKeeps
<1>3. CASE \E v \in Properties \cup {None} : S!EditCR([cr EXCEPT !.custom = v])
  BY <1>1, <1>3, ServerCRFacts, ServerEditKeeps
<1>4. ASSUME NEW o \in {"secrets", "ca"}, NEW v, ServerValue(o, v), S!Store(o, v),
             UNCHANGED <<cr, mem, fresh>>
      PROVE  ServerInv'
  <2>1. ServerStores' /\ api'.legacy = api.legacy /\ stale \subseteq stale'
    BY <1>1, <1>4, ServerConstants, ServerStoreKeeps DEF ServerInv
  <2>2. ServerPod' /\ queued' \in BOOLEAN
    BY <1>1 DEF ServerInv, ServerPod, ServerCopies
  <2> QED
    BY <1>1, <1>4, <2>1, <2>2, ServerStepKeeps
<1>5. CASE (\E s \in BitBucket \cup Mounted :
              S!Store("secrets", IF s \in api.secrets THEN api.secrets \ {s} ELSE api.secrets \cup {s}))
           /\ UNCHANGED <<cr, mem, fresh>>
  <2>1. PICK s \in BitBucket \cup Mounted :
          S!Store("secrets", IF s \in api.secrets THEN api.secrets \ {s} ELSE api.secrets \cup {s})
    BY <1>5
  <2>2. ServerValue("secrets", IF s \in api.secrets THEN api.secrets \ {s} ELSE api.secrets \cup {s})
    BY DEF ServerInv, ServerStores, ServerObjects, ServerValue
  <2> QED
    BY <1>4, <1>5, <2>1, <2>2
<1>6. CASE S!Store("ca", api.ca + 1) /\ UNCHANGED <<cr, mem, fresh>>
  <2>1. ServerValue("ca", api.ca + 1)
    BY DEF ServerInv, ServerStores, ServerObjects, ServerValue
  <2> QED
    BY <1>4, <1>6, <2>1
<1> QED
  BY <1>2, <1>3, <1>5, <1>6 DEF S!User

LEMMA ServerInit == S!Init => ServerInv
<1> SUFFICES ASSUME S!Init PROVE ServerInv
  OBVIOUS
<1>1. PICK m \in BOOLEAN : cr = [S!NoCR EXCEPT !.multi = m]
  BY DEF S!Init
<1>2. cr \in S!CheCluster
  BY <1>1 DEF S!NoCR, S!CheCluster
<1>3. ServerCopies
  BY <1>2, ServerCRFacts DEF S!Init, ServerCopies
<1>4. PICK v \in Properties \cup {None} :
        api = [legacy |-> v, che |-> None, ca |-> 1, secrets |-> {}, pvc |-> None, deployment |-> None]
  BY DEF S!Init
<1>5. ServerObjects(api)
  BY <1>4, ServerConstants DEF ServerObjects
<1>6. ServerStores /\ ServerPod /\ LegacyInv
  BY <1>5 DEF S!Init, ServerStores, ServerPod, LegacyInv
<1> QED
  BY <1>3, <1>6 DEF ServerInv

LEMMA ServerNext == ServerInv /\ [S!Next]_S!vars => ServerInv'
<1> SUFFICES ASSUME ServerInv, [S!Next]_S!vars PROVE ServerInv'
  OBVIOUS
<1>1. CASE S!SyncAll
  BY <1>1, ServerLegacyKeeps, ServerPVCKeeps, ServerConfigKeeps, ServerDeploymentKeeps DEF S!SyncAll
<1>2. CASE UNCHANGED S!vars
  BY <1>2 DEF S!vars, ServerInv, ServerStores, ServerCopies, ServerPod, LegacyInv
<1> QED
  BY <1>1, <1>2, ServerStartKeeps, ServerEndsKeep, ServerRestartKeeps, ServerUserKeeps,
     ServerPodsKeep, ServerPVCGoesKeeps, ServerSyncCacheKeeps DEF S!Next

LEMMA AlwaysServerInv == S!Spec => []ServerInv
BY ServerInit, ServerNext, PTL DEF S!Spec

(* Every variable of Server has its type: the revisions that the Deployment  *)
(* names are those of a ConfigMap, and a pod runs a specification with the   *)
(* data of one.                                                            *)
THEOREM ServerTypeCorrect == S!Spec => []S!TypeOK
<1>1. ServerInv => S!TypeOK
  BY DEF ServerInv, ServerStores, ServerObjects, ServerCopies, ServerPod, S!TypeOK
<1> QED
  BY <1>1, AlwaysServerInv, PTL

(* Only SyncLegacyConfigMap writes the setting, ...                         *)
LEMMA OthersKeepSetting ==
  ASSUME [S!Next]_S!vars, pc' # pc, cr' # cr
  PROVE  S!SyncLegacyConfigMap
BY DEF S!Next, S!vars, S!SyncAll, S!SyncPVC, S!SyncCheConfigMap, S!SyncDeployment, S!Start,
   S!CallFails, S!Restart, S!User, S!PodStarts, S!PodStops, S!PodLost, S!PVCGoes, S!SyncCache,
   S!External

(* ... and only its second step deletes the legacy ConfigMap.               *)
LEMMA OthersKeepLegacy ==
  ASSUME ServerInv, [S!Next]_S!vars, api'.legacy # api.legacy
  PROVE  pc = "legacy delete"
<1>1. \A o \in S!Objects \ {"legacy"} : \A v : S!Store(o, v) => api'.legacy = api.legacy
  <2> SUFFICES ASSUME NEW o \in S!Objects \ {"legacy"}, NEW v, S!Store(o, v)
               PROVE  api'.legacy = api.legacy
    OBVIOUS
  <2>1. UNCHANGED api \/ api' = [api EXCEPT ![o] = v]
    BY DEF S!Store
  <2>2. DOMAIN api = S!Objects /\ "legacy" \in S!Objects
    BY ServerConstants DEF ServerInv, ServerStores, ServerObjects
  <2> QED
    BY <2>1, <2>2
<1>2. {"che", "ca", "secrets", "pvc", "deployment"} \subseteq S!Objects \ {"legacy"}
  BY ServerConstants
<1>3. S!SyncLegacyConfigMap => pc = "legacy delete"
  BY DEF S!SyncLegacyConfigMap
<1>4. ~(S!SyncPVC \/ S!SyncCheConfigMap \/ S!SyncDeployment)
  BY <1>1, <1>2 DEF S!SyncPVC, S!SyncCheConfigMap, S!SyncDeployment
<1>5. ~(S!User \/ S!PVCGoes)
  BY <1>1, <1>2 DEF S!User, S!EditCR, S!PVCGoes
<1>6. ~(\/ S!Start \/ S!CallFails \/ S!Restart \/ S!PodStarts \/ S!PodStops \/ S!PodLost
        \/ UNCHANGED S!vars \/ \E k \in S!Kinds : S!SyncCache(k))
  BY DEF S!Start, S!CallFails, S!Restart, S!PodStarts, S!PodStops, S!PodLost, S!SyncCache, S!vars
<1> QED
  BY <1>3, <1>4, <1>5, <1>6 DEF S!Next, S!SyncAll

(* For every set of settings and every number of failures, restarts and      *)
(* edits at any moment: the legacy ConfigMap is deleted only by a pass whose  *)
(* copy of the CR has its setting, and the operator changes a setting only   *)
(* to the one that its caches show in a legacy ConfigMap, which is there or   *)
(* whose deletion they have not seen.                                       *)
THEOREM SettingIsKept == S!Spec => S!SettingKept
<1> DEFINE Kept ==
      /\ api.legacy # None /\ api'.legacy = None => mem.custom = api.legacy
      /\ pc' # pc /\ cr'.custom # cr.custom =>
           /\ cr'.custom = cache.legacy /\ cache.legacy # None
           /\ api.legacy = cache.legacy \/ "configmap" \in stale
<1>1. ASSUME ServerInv, [S!Next]_S!vars PROVE Kept
  <2>1. ASSUME api.legacy # None, api'.legacy = None PROVE mem.custom = api.legacy
    BY <1>1, <2>1, OthersKeepLegacy DEF ServerInv, LegacyInv
  <2>2. ASSUME pc' # pc, cr'.custom # cr.custom
        PROVE  /\ cr'.custom = cache.legacy /\ cache.legacy # None
               /\ api.legacy = cache.legacy \/ "configmap" \in stale
    <3>1. S!SyncLegacyConfigMap
      BY <1>1, <2>2, OthersKeepSetting
    <3>2. cache.legacy # None /\ cr' = [mem EXCEPT !.custom = cache.legacy] /\ mem = cr
      BY <1>1, <2>2, <3>1 DEF S!SyncLegacyConfigMap, S!WriteCR, ServerInv, ServerCopies
    <3>3. cr'.custom = cache.legacy
      BY <1>1, <3>2 DEF ServerInv, ServerCopies, S!CheCluster
    <3> QED
      BY <1>1, <3>2, <3>3 DEF ServerInv, LegacyInv
  <2> QED
    BY <2>1, <2>2
<1>2. ServerInv /\ [S!Next]_S!vars => [Kept]_S!vars
  BY <1>1
<1>3. S!Spec => [][Kept]_S!vars
  BY <1>2, AlwaysServerInv, PTL DEF S!Spec
<1> QED
  BY <1>3 DEF S!SettingKept, S!vars

-----------------------------------------------------------------------------
(* The server, too, is left as it should be.                               *)

(* "Nothing" is neither a volume nor a ConfigMap.                           *)
NothingApart == None # "bound" /\ None \notin [data: S!Data, rev: Nat]

SettingMoved(s) == s.legacy = None

VolumeRight(c, s) == IF c.multi THEN s.pvc \in {None, "terminating"} ELSE s.pvc # None

DataRight(c, s) == s.che # None /\ s.che.data = S!CheConfigMap(c, s.secrets)

SpecRight(c, s) ==
  /\ ~(Cardinality(s.secrets \cap BitBucket) > 1)
  /\ s.deployment = [multi |-> c.multi, pins |-> [che |-> s.che.rev, ca |-> s.ca],
                     mounts |-> S!Mounts(c, s.secrets), bitbucket |-> S!Endpoint(s.secrets)]

ServerAtRest ==
  pc = "idle" /\ ~queued /\ stale = {} =>
    SettingMoved(api) /\ VolumeRight(cr, api) /\ DataRight(cr, api) /\ SpecRight(cr, api)

(* A cache without an event to come shows what there is, and as long as the  *)
(* pass has written nothing and no event has come, the steps behind it have  *)
(* found what they want.                                                   *)
ServerSeen == \A o \in S!Objects : S!Kind[o] \notin stale => cache[o] = api[o]

ServerKnows ==
  /\ pc # "idle" => mem = crSeen
  /\ pc = "legacy delete" => cache.legacy # None
  /\ pc \in {"pvc", "config", "deployment", "idle"} => SettingMoved(cache)
  /\ pc \in {"config", "deployment", "idle"} => VolumeRight(crSeen, cache)
  /\ pc \in {"deployment", "idle"} => DataRight(crSeen, cache)
  /\ pc = "idle" => SpecRight(crSeen, cache)

ServerRestInv == ServerSeen /\ (~queued /\ stale = {} => ServerKnows)

LEMMA ServerSeenAll ==
  ASSUME ServerSeen, stale = {}
  PROVE  /\ cache.legacy = api.legacy /\ cache.che = api.che /\ cache.ca = api.ca
         /\ cache.secrets = api.secrets /\ cache.pvc = api.pvc
         /\ cache.deployment = api.deployment
BY ServerConstants DEF ServerSeen

(* After a write there is an event to come.                                *)
LEMMA ServerWriteSeen ==
  ASSUME ServerInv, ServerSeen, UNCHANGED cache,
         \/ UNCHANGED <<api, stale>>
         \/ UNCHANGED api /\ stale' = stale \cup {"cr"}
         \/ \E o \in S!Objects : \E v : S!Store(o, v)
  PROVE  /\ ServerSeen'
         /\ stale' = {} => stale = {}
<1>1. CASE UNCHANGED api /\ (stale' = stale \/ stale' = stale \cup {"cr"})
  BY <1>1 DEF ServerSeen
<1>2. ASSUME NEW o \in S!Objects, NEW v, api' = [api EXCEPT ![o] = v],
             stale' = stale \cup {S!Kind[o]}
      PROVE  ServerSeen' /\ stale' # {}
  <2>1. \A x \in S!Objects : x # o => api'[x] = api[x]
    BY <1>2 DEF ServerInv, ServerStores, ServerObjects
  <2> QED
    BY <1>2, <2>1 DEF ServerSeen
<1> QED
  BY <1>1, <1>2 DEF S!Store

(* A step of the worker: what it has to know is only asked when neither an   *)
(* error nor a write has occurred.                                         *)
LEMMA ServerWorkerRests ==
  ASSUME ServerInv, ServerRestInv, S!Outside,
         \/ UNCHANGED <<api, stale>>
         \/ UNCHANGED api /\ stale' = stale \cup {"cr"}
         \/ \E o \in S!Objects : \E v : S!Store(o, v),
         queued' = queued \/ queued',
         ServerKnows /\ ~queued /\ stale = {} /\ stale' = {} /\ queued' = queued => ServerKnows'
  PROVE  ServerRestInv'
<1>1. ServerSeen' /\ (stale' = {} => stale = {})
  BY ServerWriteSeen DEF ServerRestInv, S!Outside
<1> QED
  BY <1>1 DEF ServerRestInv

LEMMA ServerLegacyRests ==
  ASSUME ServerInv, ServerRestInv, S!SyncLegacyConfigMap PROVE ServerRestInv'
<1>1. S!Outside /\ UNCHANGED <<crSeen, cache>>
  BY DEF S!SyncLegacyConfigMap, S!Outside
<1>2. CASE pc = "legacy"
  <2>1. UNCHANGED api
    BY <1>2 DEF S!SyncLegacyConfigMap
  <2>2. CASE cache.legacy = None /\ S!Go("pvc") /\ UNCHANGED stale
    <3>1. ServerKnows => ServerKnows'
      BY <1>1, <1>2, <2>2 DEF ServerKnows, SettingMoved, S!Go, S!control
    <3> QED
      BY <1>1, <2>1, <2>2, <3>1, ServerWorkerRests DEF S!Go, S!control
  <2>3. CASE cache.legacy # None /\ S!Go("legacy delete") /\ UNCHANGED stale
    <3>1. ServerKnows => ServerKnows'
      BY <1>1, <1>2, <2>3 DEF ServerKnows, S!Go, S!control
    <3> QED
      BY <1>1, <2>1, <2>3, <3>1, ServerWorkerRests DEF S!Go, S!control
  <2>4. CASE S!WriteCR([mem EXCEPT !.custom = cache.legacy], "legacy delete")
    <3>1. \/ stale' = stale \cup {"cr"} /\ queued' = queued
          \/ stale' = stale /\ queued'
      BY <2>4 DEF S!WriteCR, S!Requeue
    <3>2. ~(stale' = {} /\ ~queued')
      BY <3>1
    <3> QED
      BY <1>1, <2>1, <3>1, <3>2, ServerWorkerRests
  <2> QED
    BY <1>2, <2>2, <2>3, <2>4 DEF S!SyncLegacyConfigMap
<1>3. CASE pc = "legacy delete"
  <2>1. S!Store("legacy", None) /\ S!Go("pvc")
    BY <1>3 DEF S!SyncLegacyConfigMap
  <2>2. ServerKnows /\ stale = {} => stale' # {}
    <3> SUFFICES ASSUME ServerKnows, stale = {} PROVE stale' # {}
      OBVIOUS
    <3>1. api.legacy # None
      BY <1>3, ServerSeenAll DEF ServerKnows, ServerRestInv
    <3> QED
      BY <2>1, <3>1 DEF S!Store
  <2>3. "legacy" \in S!Objects /\ queued' = queued
    BY <2>1, ServerConstants DEF S!Go, S!control
  <2> QED
    BY <1>1, <2>1, <2>2, <2>3, ServerWorkerRests
<1> QED
  BY <1>2, <1>3 DEF S!SyncLegacyConfigMap

LEMMA ServerPVCRests ==
  ASSUME NothingApart, ServerInv, ServerRestInv, S!SyncPVC PROVE ServerRestInv'
<1>1. /\ S!Outside /\ UNCHANGED <<crSeen, cache>> /\ pc = "pvc"
      /\ UNCHANGED <<api, stale>> \/ \E v : S!Store("pvc", v)
  BY DEF S!SyncPVC, S!Outside
<1>2. queued' = queued /\ (S!Go("config") \/ S!Wait) /\ "pvc" \in S!Objects
  BY ServerConstants DEF S!SyncPVC, S!Go, S!Wait, S!control
<1>3. ASSUME ServerKnows, stale = {}, stale' = {} PROVE ServerKnows'
  <2>1. mem = crSeen /\ SettingMoved(cache) /\ cache.pvc = api.pvc
    BY <1>1, <1>3, ServerSeenAll DEF ServerKnows, ServerRestInv
  <2>2. \A v : S!Store("pvc", v) => api.pvc = v
    BY <1>3 DEF S!Store
  <2>3. S!Go("config") /\ VolumeRight(mem, cache)
    <3>1. CASE mem.multi
      BY <2>1, <2>2, <3>1 DEF S!SyncPVC, VolumeRight
    <3>2. CASE ~mem.multi /\ cache.pvc # None
      BY <3>2 DEF S!SyncPVC, VolumeRight
    <3>3. CASE ~mem.multi /\ cache.pvc = None
      <4>1. S!Store("pvc", "bound") /\ S!Go("config")
        BY <2>1, <3>3 DEF S!SyncPVC
      <4> QED
        BY <2>1, <2>2, <3>3, <4>1 DEF NothingApart
    <3> QED
      BY <3>1, <3>2, <3>3
  <2> QED
    BY <1>1, <2>1, <2>3 DEF ServerKnows, S!Go, S!control, SettingMoved, VolumeRight
<1> QED
  BY <1>1, <1>2, <1>3, ServerWorkerRests

LEMMA ServerConfigRests ==
  ASSUME NothingApart, ServerInv, ServerRestInv, S!SyncCheConfigMap PROVE ServerRestInv'
<1> DEFINE data == S!CheConfigMap(mem, cache.secrets)
<1>1. /\ S!Outside /\ UNCHANGED <<crSeen, cache>> /\ pc = "config"
      /\ UNCHANGED <<api, stale>> \/ \E v : S!Store("che", v)
  BY DEF S!SyncCheConfigMap, S!Outside
<1>2. (queued' = queued \/ queued') /\ "che" \in S!Objects
  BY ServerConstants DEF S!SyncCheConfigMap, S!Go, S!Wait, S!Requeue, S!control
<1>3. data \in S!Data
  BY ServerDataTypes DEF ServerInv, ServerCopies
<1>4. ASSUME ServerKnows, ~queued, stale = {}, stale' = {}, queued' = queued PROVE ServerKnows'
  <2>1. /\ mem = crSeen /\ SettingMoved(cache) /\ VolumeRight(crSeen, cache)
        /\ cache.che = api.che
    BY <1>1, <1>4, ServerSeenAll DEF ServerKnows, ServerRestInv
  <2>2. \A v : S!Store("che", v) => api.che = v
    BY <1>4 DEF S!Store
  <2>3. cache.che # None /\ cache.che.data = data
    <3>1. CASE cache.che = None
      <4>1. S!Store("che", [data |-> data, rev |-> 1])
        BY <2>1, <3>1 DEF S!SyncCheConfigMap
      <4>2. None = [data |-> data, rev |-> 1]
        BY <2>1, <2>2, <3>1, <4>1
      <4>3. [data |-> data, rev |-> 1] \in [data: S!Data, rev: Nat]
        BY <1>3
      <4> QED
        BY <4>2, <4>3 DEF NothingApart
    <3>2. CASE cache.che # None /\ cache.che.data # data
      <4>1. S!Store("che", [data |-> data, rev |-> api.che.rev + 1])
        BY <1>4, <2>1, <3>2 DEF S!SyncCheConfigMap, S!Requeue
      <4>2. api.che = [data |-> data, rev |-> api.che.rev + 1]
        BY <2>2, <4>1
      <4>3. api.che.data = data
        BY <4>2
      <4> QED
        BY <2>1, <3>2, <4>3
    <3> QED
      BY <3>1, <3>2
  <2>4. S!Go("deployment")
    BY <2>3 DEF S!SyncCheConfigMap
  <2> QED
    BY <1>1, <2>1, <2>3, <2>4
       DEF ServerKnows, S!Go, S!control, SettingMoved, VolumeRight, DataRight
<1> HIDE DEF data
<1> QED
  BY <1>1, <1>2, <1>4, ServerWorkerRests

(* The instance counts as this module does.                                 *)
LEMMA SameCardinality == \A s : S!Cardinality(s) = Cardinality(s)
BY DEF S!Cardinality, Cardinality

LEMMA ServerDeploymentRests ==
  ASSUME ServerInv, ServerRestInv, S!SyncDeployment PROVE ServerRestInv'
<1> DEFINE spec == S!DeploymentSpec(mem, cache.secrets)
<1>1. /\ S!Outside /\ UNCHANGED <<crSeen, cache>> /\ pc = "deployment"
      /\ UNCHANGED <<api, stale>> \/ \E v : S!Store("deployment", v)
  BY DEF S!SyncDeployment, S!Outside
<1>2. (queued' = queued \/ queued') /\ "deployment" \in S!Objects
  BY ServerConstants DEF S!SyncDeployment, S!Wait, S!Requeue
<1>3. ASSUME ServerKnows, ~queued, stale = {}, stale' = {}, queued' = queued PROVE ServerKnows'
  <2>1. /\ mem = crSeen /\ SettingMoved(cache) /\ VolumeRight(crSeen, cache)
        /\ DataRight(crSeen, cache) /\ cache.deployment = api.deployment
    BY <1>1, <1>3, ServerSeenAll DEF ServerKnows, ServerRestInv
  <2>2. \A v : S!Store("deployment", v) => api.deployment = v
    BY <1>3 DEF S!Store
  <2>3. ~S!Requeue /\ cache.che # None
    BY <1>3, <2>1 DEF S!Requeue, DataRight
  <2>4. ~(Cardinality(cache.secrets \cap BitBucket) > 1)
    BY <2>3, SameCardinality DEF S!SyncDeployment
  <2>5. cache.deployment = spec /\ S!Wait
    <3>1. cache.deployment = spec \/ cache.deployment # spec
      OBVIOUS
    <3> QED
      BY <2>1, <2>2, <2>3, <2>4, <3>1, SameCardinality DEF S!SyncDeployment
  <2>6. SpecRight(crSeen, cache)
    BY <2>1, <2>4, <2>5 DEF SpecRight, S!DeploymentSpec, S!Pins
  <2> QED
    BY <1>1, <2>1, <2>5, <2>6
       DEF ServerKnows, S!Wait, S!Leave, SettingMoved, VolumeRight, DataRight, SpecRight
<1> QED
  BY <1>1, <1>2, <1>3, ServerWorkerRests

LEMMA ServerSyncCacheRests ==
  ASSUME ServerInv, ServerRestInv, NEW k \in S!Kinds, S!SyncCache(k) PROVE ServerRestInv'
<1>1. /\ cache' = [o \in S!Objects |-> IF S!Kind[o] = k THEN api[o] ELSE cache[o]]
      /\ stale' = stale \ {k} /\ queued' /\ api' = api
  BY DEF S!SyncCache
<1> QED
  BY <1>1 DEF ServerRestInv, ServerSeen

(* What is not the worker's.                                               *)
LEMMA ServerOutsideRests ==
  ASSUME ServerInv, ServerRestInv, UNCHANGED <<crSeen, cache, pc, queued>>,
         \/ UNCHANGED <<api, stale, mem>>
         \/ UNCHANGED api /\ stale' = stale \cup {"cr"}
         \/ UNCHANGED mem /\ \E o \in S!Objects : \E v : S!Store(o, v)
  PROVE  ServerRestInv'
<1>1. ServerSeen' /\ (stale' = {} => stale = {})
  BY ServerWriteSeen DEF ServerRestInv
<1>2. CASE UNCHANGED mem
  BY <1>1, <1>2 DEF ServerRestInv, ServerKnows, SettingMoved, VolumeRight, DataRight, SpecRight
<1>3. CASE stale' = stale \cup {"cr"}
  BY <1>1, <1>3 DEF ServerRestInv
<1> QED
  BY <1>2, <1>3

LEMMA ServerInitRests == S!Init => ServerRestInv
BY DEF S!Init, ServerRestInv, ServerSeen

LEMMA ServerNextRests ==
  ASSUME NothingApart, ServerInv, ServerRestInv, [S!Next]_S!vars
  PROVE  ServerRestInv'
<1>1. CASE S!Start
  BY <1>1 DEF S!Start, S!Outside, ServerRestInv, ServerSeen, ServerKnows
<1>2. CASE S!SyncAll
  BY <1>2, ServerLegacyRests, ServerPVCRests, ServerConfigRests, ServerDeploymentRests
     DEF S!SyncAll
<1>3. CASE S!CallFails \/ S!Restart
  BY <1>3 DEF S!CallFails, S!Restart, S!Requeue, ServerRestInv, ServerSeen
<1>4. CASE S!User
  <2>1. UNCHANGED <<crSeen, cache, pc, queued>>
    BY <1>4 DEF S!User
  <2>2. \/ UNCHANGED api /\ stale' = stale \cup {"cr"}
        \/ UNCHANGED mem /\ \E o \in S!Objects : \E v : S!Store(o, v)
    BY <1>4, ServerConstants DEF S!User, S!EditCR
  <2> QED
    BY <2>1, <2>2, ServerOutsideRests
<1>5. CASE S!PodStarts \/ S!PodStops \/ S!PodLost \/ S!PVCGoes
  <2>1. /\ UNCHANGED <<crSeen, cache, pc, queued, mem>>
        /\ UNCHANGED <<api, stale>> \/ \E o \in S!Objects : \E v : S!Store(o, v)
    BY <1>5, ServerConstants
       DEF S!PodStarts, S!PodStops, S!PodLost, S!PVCGoes, S!External, S!control
  <2> QED
    BY <2>1, ServerOutsideRests
<1>6. CASE \E k \in S!Kinds : S!SyncCache(k)
  BY <1>6, ServerSyncCacheRests
<1>7. CASE UNCHANGED S!vars
  BY <1>7, ServerOutsideRests DEF S!vars
<1> QED
  BY <1>1, <1>2, <1>3, <1>4, <1>5, <1>6, <1>7 DEF S!Next

(* No wake-up is lost: whenever the work queue is empty, no pass runs and no *)
(* cache has an event to come, the legacy setting is gone, the ConfigMap     *)
(* che has what the CR and the Secrets say, the Deployment is the one of     *)
(* the mode, its revisions those of the ConfigMaps, and the volume is there  *)
(* in single-user mode and deleted, or about to be, in multi-user mode.  This *)
(* is what ServerFollows needs of the operator besides fairness, although    *)
(* passes end in silence when an object exists that the cache does not show *)
(* yet.                                                                    *)
THEOREM AtRestServerIsRight ==
  ASSUME NothingApart PROVE S!Spec => []ServerAtRest
<1> DEFINE IInv == ServerInv /\ ServerRestInv
<1>1. S!Init => IInv
  BY ServerInit, ServerInitRests
<1>2. IInv /\ [S!Next]_S!vars => IInv'
  BY ServerNext, ServerNextRests
<1>3. IInv => ServerAtRest
  <2> SUFFICES ASSUME IInv, pc = "idle", ~queued, stale = {}
               PROVE  SettingMoved(api) /\ VolumeRight(cr, api) /\ DataRight(cr, api) /\ SpecRight(cr, api)
    BY DEF ServerAtRest
  <2>1. crSeen = cr /\ ServerKnows
    BY DEF ServerInv, ServerCopies, ServerRestInv
  <2>2. /\ cache.legacy = api.legacy /\ cache.che = api.che /\ cache.ca = api.ca
        /\ cache.secrets = api.secrets /\ cache.pvc = api.pvc
        /\ cache.deployment = api.deployment
    BY ServerSeenAll DEF ServerRestInv
  <2> QED
    BY <2>1, <2>2 DEF ServerKnows, SettingMoved, VolumeRight, DataRight, SpecRight
<1> QED
  BY <1>1, <1>2, <1>3, PTL DEF S!Spec

=============================================================================
