------------------------------ MODULE CABundle ------------------------------
(***************************************************************************)
(* The merged CA bundle (deploy/tls.go): one ConfigMap with the data of all *)
(* ConfigMaps that carry the CA bundle label and of the one that the CR     *)
(* names as its trust store.  Whether it is up to date is told by comparing *)
(* the revisions of the sources with those noted in an annotation when the  *)
(* bundle was written; sources and bundle are read from the same informer,  *)
(* but not in one read.  The annotation is split at dashes and dots, which   *)
(* names may hold: the operator's own default trust store is ca-certs.      *)
(***************************************************************************)
EXTENDS Naturals, FiniteSets

CONSTANTS
  Names,        \* names of ConfigMaps with CA certificates
  TrustStore,   \* the one that the CR may name as its trust store
  Unparsable,   \* names at which the reading of the annotation ends: "ca-certs"
  Misread,      \* names read as something that is no revision: "ca-bundle.crt"
  MaxChanges,   \* bound on changes of the sources and deletions of the bundle
  MaxMishaps    \* bound on failed calls and restarts

ASSUME CABundleAssumption ==
  /\ IsFiniteSet(Names) /\ TrustStore \in Names
  /\ MaxChanges \in Nat /\ MaxMishaps \in Nat

VARIABLES
  source, bundle,  \* the ConfigMaps in the API server
  trusts, seen,    \* does the CR name the trust store, does its cached copy?
  content,         \* the certificates that a revision of a source holds
  cache, behind,   \* both, as the informer has them; are there events to come?
  listed,          \* the sources as the pass has read them
  pc, queued,      \* the call the worker makes next; the work queue
  version,         \* the last revision given to a source
  mishaps          \* what is left of the bound

vars == <<source, bundle, trusts, seen, content, cache, behind, listed, pc, queued, version, mishaps>>

(* A source is its revision, 0 if there is none.                           *)
Versions == 0..MaxChanges
Sources  == [Names -> Versions]
NoSources == [n \in Names |-> 0]
Present(s) == {n \in Names : s[n] # 0}
Labelled == Names \ {TrustStore}

(* The sources that are to be merged if the CR names the trust store, or not. *)
Used(s, trusted) == [n \in Names |-> IF n = TrustStore /\ ~trusted THEN 0 ELSE s[n]]

(* What a bundle of these sources holds, and the revisions it is made from. *)
Merged(s)    == {<<n, content[s[n]]>> : n \in Present(s)}
Revisions(s) == {<<n, s[n]>> : n \in Present(s)}

(* The annotation notes the revisions in the order of the list, which has    *)
(* none but that the trust store is appended to it.                         *)
Noted(o) == {o[i] : i \in DOMAIN o}
Notes(s) ==
  {o \in [1..Cardinality(Present(s)) -> Revisions(s)] :
     /\ Noted(o) = Revisions(s)
     /\ \A i, j \in DOMAIN o : o[i][1] = TrustStore => j <= i}

(* Mutant: only the names of the sources are compared.                     *)
ParsedNames(noted) ==
  {<<noted[i][1], listed[noted[i][1]]>> : i \in DOMAIN noted}

(* The annotation is read up to the first entry with too many parts, or too  *)
(* few.  A name with both separators may leave an entry that is well formed  *)
(* and wrong: there is no revision 0.                                       *)
Readable(noted) == {k \in DOMAIN noted : \A j \in 1..k : noted[j][1] \notin Unparsable}
Parsed(noted) ==
  {IF noted[i][1] \in Misread THEN <<noted[i][1], 0>> ELSE noted[i] : i \in Readable(noted)}

NoBundle == [present |-> FALSE, data |-> {}, noted |-> <<>>]
Bundle(s, o) == [present |-> TRUE, data |-> Merged(s), noted |-> o]

Init ==
  /\ source = NoSources /\ bundle = NoBundle
  /\ trusts \in BOOLEAN /\ seen = trusts
  /\ content = [v \in Versions |-> 0] /\ version = 0
  /\ cache = [source |-> source, bundle |-> bundle] /\ behind = FALSE
  /\ listed = NoSources
  /\ pc = "idle" /\ queued = TRUE
  /\ mishaps = MaxMishaps

-----------------------------------------------------------------------------
(* The administrator, and the informer.                                    *)

Administrator ==
  /\ version < MaxChanges /\ version' = version + 1
  /\ UNCHANGED <<seen, cache, listed, pc, queued, mishaps>>

SetSource ==
  /\ Administrator /\ behind' = TRUE
  /\ \E n \in Names : source' = [source EXCEPT ![n] = version + 1]
  /\ content' = [content EXCEPT ![version + 1] = version + 1]
  /\ UNCHANGED <<bundle, trusts>>

(* The metadata of a source change, its certificates do not.               *)
TouchSource ==
  /\ Administrator /\ behind' = TRUE
  /\ \E n \in Present(source) :
       /\ source' = [source EXCEPT ![n] = version + 1]
       /\ content' = [content EXCEPT ![version + 1] = content[source[n]]]
  /\ UNCHANGED <<bundle, trusts>>

(* A source is deleted or loses its label.                                 *)
RemoveSource ==
  /\ Administrator /\ behind' = TRUE
  /\ \E n \in Present(source) : source' = [source EXCEPT ![n] = 0]
  /\ UNCHANGED <<bundle, content, trusts>>

DeleteBundle ==
  /\ Administrator /\ behind' = TRUE
  /\ bundle.present /\ bundle' = NoBundle
  /\ UNCHANGED <<source, content, trusts>>

(* The CR comes to name the trust store, or no longer does.                 *)
NameTrustStore ==
  /\ Administrator /\ trusts' = ~trusts
  /\ UNCHANGED <<source, bundle, content, behind>>

(* All of these ConfigMaps are watched: by label, by name, by owner.       *)
CacheSync ==
  /\ behind /\ behind' = FALSE
  /\ cache' = [source |-> source, bundle |-> bundle]
  /\ queued' = TRUE
  /\ UNCHANGED <<source, bundle, trusts, seen, content, listed, pc, version, mishaps>>

SyncCR ==
  /\ seen # trusts /\ seen' = trusts
  /\ queued' = TRUE
  /\ UNCHANGED <<source, bundle, trusts, content, cache, behind, listed, pc, version, mishaps>>

-----------------------------------------------------------------------------
(* SyncAdditionalCACertsConfigMapToCluster.                                *)

Outside  == UNCHANGED <<source, trusts, seen, content, cache, version>>
ReadOnly == Outside /\ UNCHANGED <<bundle, behind>>

Leave  == pc' = "idle" /\ listed' = NoSources
Fail   == Leave /\ queued' = TRUE
Return == Leave /\ UNCHANGED queued   \* goes on, or ends and asks for nothing

(* Mutant: names without a ConfigMap are forgotten.                        *)
ListPresentSources ==
  /\ pc = "idle" /\ queued /\ queued' = FALSE
  /\ listed' = [n \in Labelled \cap Present(cache.source) |-> cache.source[n]]
  /\ pc' = IF seen THEN "trustStore" ELSE "compare"
  /\ ReadOnly /\ UNCHANGED mishaps

(* getCACertsConfigMaps, in a pass on the cached CR.                        *)
ListSources ==
  /\ pc = "idle" /\ queued /\ queued' = FALSE
  /\ listed' = Used(cache.source, FALSE)
  /\ pc' = IF seen THEN "trustStore" ELSE "compare"
  /\ ReadOnly /\ UNCHANGED mishaps

GetTrustStore ==
  /\ pc = "trustStore"
  /\ IF cache.source[TrustStore] = 0 THEN Fail
     ELSE /\ listed' = [listed EXCEPT ![TrustStore] = cache.source[TrustStore]]
          /\ pc' = "compare" /\ UNCHANGED queued
  /\ ReadOnly /\ UNCHANGED mishaps

(* Mutant: that a source is gone makes no difference.                      *)
CoversListed ==
  cache.bundle.present /\ Revisions(listed) \subseteq Parsed(cache.bundle.noted)

UpToDate == cache.bundle.present /\ Parsed(cache.bundle.noted) = Revisions(listed)

CompareRevisions ==
  /\ pc = "compare"
  /\ IF UpToDate THEN Return ELSE pc' = "sync" /\ UNCHANGED <<listed, queued>>
  /\ ReadOnly /\ UNCHANGED mishaps

WriteBundle ==
  /\ \E o \in Notes(listed) : bundle' = Bundle(listed, o)
  /\ behind' = TRUE

(* Sync of a ConfigMap looks at data and labels, not at annotations; its    *)
(* update is not done, and waits for an event of the bundle; so does a      *)
(* create that finds one.                                                  *)
UpdateBundle ==
  /\ pc = "sync" /\ cache.bundle.present
  /\ \/ cache.bundle.data = Merged(listed) /\ Return /\ UNCHANGED <<bundle, behind>>
     \/ /\ cache.bundle.data # Merged(listed)
        /\ IF bundle = cache.bundle
           THEN WriteBundle /\ Return
           ELSE Fail /\ UNCHANGED <<bundle, behind>>
  /\ Outside /\ UNCHANGED mishaps

CreateBundle ==
  /\ pc = "sync" /\ ~cache.bundle.present
  /\ Return
  /\ IF bundle.present THEN UNCHANGED <<bundle, behind>> ELSE WriteBundle
  /\ Outside /\ UNCHANGED mishaps

CallFails ==
  /\ pc # "idle"
  /\ mishaps > 0 /\ mishaps' = mishaps - 1
  /\ Fail
  /\ ReadOnly

Restart ==
  /\ mishaps > 0 /\ mishaps' = mishaps - 1
  /\ Fail
  /\ cache' = [source |-> source, bundle |-> bundle] /\ behind' = FALSE /\ seen' = trusts
  /\ UNCHANGED <<source, bundle, trusts, content, version>>

Worker ==
  \/ ListSources \/ GetTrustStore \/ CompareRevisions
  \/ UpdateBundle \/ CreateBundle

Next ==
  \/ SetSource \/ TouchSource \/ RemoveSource \/ DeleteBundle
  \/ NameTrustStore \/ CacheSync \/ SyncCR \/ Worker \/ CallFails \/ Restart

Spec == Init /\ [][Next]_vars

FairSpec == Spec /\ WF_vars(CacheSync) /\ WF_vars(SyncCR) /\ WF_vars(Worker)

-----------------------------------------------------------------------------
IsBundle(b) ==
  /\ b = [present |-> b.present, data |-> b.data, noted |-> b.noted]
  /\ b.present \in BOOLEAN /\ b.data \subseteq Names \X Versions
  /\ b.noted \in [DOMAIN b.noted -> Names \X Versions]
  /\ DOMAIN b.noted \subseteq 1..Cardinality(Names)

TypeOK ==
  /\ source \in Sources /\ listed \in Sources
  /\ content \in [Versions -> Versions] /\ version \in Versions
  /\ IsBundle(bundle)
  /\ cache = [source |-> cache.source, bundle |-> cache.bundle]
  /\ cache.source \in Sources /\ IsBundle(cache.bundle) /\ behind \in BOOLEAN
  /\ pc \in {"idle", "trustStore", "compare", "sync"} /\ queued \in BOOLEAN
  /\ trusts \in BOOLEAN /\ seen \in BOOLEAN /\ mishaps \in Nat

(* A bundle holds what these sources do.  What else it may hold comes from   *)
(* sources that its annotation names from the first name on that ends the    *)
(* reading: nothing, if there is no such name.                              *)
Unread(noted) == {noted[i][1] : i \in DOMAIN noted \ Readable(noted)}
Holds(b, s) ==
  /\ Merged(s) \subseteq b.data
  /\ \A certificates \in b.data \ Merged(s) : certificates[1] \in Unread(b.noted)

(* The revisions tell the truth, as far as they can be read: a bundle that   *)
(* counts as up to date holds the certificates of all sources, and of no     *)
(* others but those noted beyond the point where the reading ends.          *)
UpToDateMeansMerged ==
  pc = "compare" /\ UpToDate => Holds(cache.bundle, listed)

(* When the sources and the CR stay as they are, the bundle comes to hold    *)
(* them, and the operator rests: no pass is started by the write of the one   *)
(* before, and none ends in silence too early.                              *)
BundleSettles ==
  <>[](trusts => source[TrustStore] # 0)
    => <>[](bundle.present /\ Holds(bundle, Used(source, trusts)) /\ pc = "idle" /\ ~queued)
=============================================================================
