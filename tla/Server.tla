------------------------------- MODULE Server -------------------------------
(***************************************************************************)
(* The Che server (deploy/server): its ConfigMap, volume and Deployment.    *)
(*                                                                         *)
(* What the server does is settled by the ConfigMap its pod reads when it    *)
(* starts, by the Secrets mounted into it, and by the mode: with PostgreSQL  *)
(* and Keycloak (multi-user), or alone, with its data on a PVC.  The         *)
(* Deployment names revisions of ConfigMaps, so that a change of them starts *)
(* the pod again.                                                          *)
(***************************************************************************)
EXTENDS Naturals, FiniteSets

CONSTANTS
  Properties,   \* values of a property of the server that the user may set
  BitBucket,    \* Secrets with the OAuth configuration of BitBucket servers
  Mounted,      \* other Secrets, labelled to be mounted as files
  None,         \* nothing: no object, no value
  MaxEvents     \* bound on what the user does, failed calls, restarts and lost pods

ASSUME ValuesAssumption == None \notin Properties
ASSUME SecretsAssumption == BitBucket \cap Mounted = {}

VARIABLES
  cr, crSeen,   \* the CR in the API server, and in the cache
  api, cache,   \* the objects in the API server, and in the caches
  stale,        \* the kinds whose latest event the caches have not seen
  pod,          \* the server's pod
  pc,           \* the operator's next step
  mem, fresh,   \* deployContext.CheCluster; is it the latest revision?
  queued,       \* the work queue
  events        \* what may still happen

control == <<mem, fresh, queued>>
vars == <<cr, crSeen, api, cache, stale, pod, pc, mem, fresh, queued, events>>

(* The legacy ConfigMap "custom", the ConfigMaps "che" and "ca-certs-merged", *)
(* the labelled Secrets, the PVC and the Deployment.                        *)
Kind == [legacy |-> "configmap", che |-> "configmap", ca |-> "configmap",
         secrets |-> "secret", pvc |-> "pvc", deployment |-> "deployment"]
Objects == DOMAIN Kind
Kinds   == {"cr"} \cup {Kind[o] : o \in Objects}

CheCluster == [multi: BOOLEAN, custom: Properties \cup {None}]
NoCR == [multi |-> TRUE, custom |-> None]

(* The ConfigMap's content: the mode, CustomCheProperties, and the endpoint  *)
(* of BitBucket, which is named like its Secret.                            *)
Data == [multi: BOOLEAN, custom: Properties \cup {None}, bitbucket: SUBSET BitBucket]

Volumes == {"ca", "pvc"} \cup BitBucket \cup Mounted
Deployment == [multi: BOOLEAN, pins: [che: Nat, ca: Nat],
               mounts: SUBSET Volumes, bitbucket: SUBSET BitBucket]

Init ==
  /\ \E m \in BOOLEAN : cr = [NoCR EXCEPT !.multi = m]
  /\ crSeen = cr
  /\ \E v \in Properties \cup {None} :
       api = [legacy |-> v, che |-> None, ca |-> 1, secrets |-> {}, pvc |-> None,
              deployment |-> None]
  /\ cache = api /\ stale = {} /\ pod = None
  /\ pc = "idle" /\ mem = NoCR /\ fresh = FALSE /\ queued = TRUE
  /\ events = MaxEvents

-----------------------------------------------------------------------------
(* The user, the merge of CA certificates, and the informers.              *)

Store(o, v) ==
  IF api[o] = v THEN UNCHANGED <<api, stale>>
  ELSE api' = [api EXCEPT ![o] = v] /\ stale' = stale \cup {Kind[o]}

EditCR(c) ==
  /\ c # cr /\ cr' = c /\ stale' = stale \cup {"cr"} /\ fresh' = FALSE
  /\ UNCHANGED <<api, mem>>

User ==
  /\ events > 0 /\ events' = events - 1
  /\ \/ EditCR([cr EXCEPT !.multi = ~@])
     \/ \E v \in Properties \cup {None} : EditCR([cr EXCEPT !.custom = v])
     \/ /\ \E s \in BitBucket \cup Mounted :
             Store("secrets", IF s \in api.secrets THEN api.secrets \ {s} ELSE api.secrets \cup {s})
        /\ UNCHANGED <<cr, mem, fresh>>
     \/ Store("ca", api.ca + 1) /\ UNCHANGED <<cr, mem, fresh>>
  /\ UNCHANGED <<crSeen, cache, pod, pc, queued>>

(* isEclipseCheSecret and isTrustedBundleConfigMap bring the operator back   *)
(* for what it does not own; nothing watches the legacy ConfigMap.          *)
SyncCache(k) ==
  /\ k \in stale /\ stale' = stale \ {k}
  /\ crSeen' = IF k = "cr" THEN cr ELSE crSeen
  /\ cache' = [o \in Objects |-> IF Kind[o] = k THEN api[o] ELSE cache[o]]
  /\ queued' = TRUE
  /\ UNCHANGED <<cr, api, pod, pc, mem, fresh, events>>

-----------------------------------------------------------------------------
(* The controllers of Deployments and PVCs.                                *)

External == UNCHANGED <<cr, crSeen, cache, pc, control>>

Outdated == pod # None /\ (api.deployment = None \/ pod.spec # api.deployment)

(* Multi-user rolls over to a new pod; alone, the old one stops first.      *)
PodStarts ==
  /\ api.deployment # None
  /\ pod = None \/ (Outdated /\ api.deployment.multi)
  /\ api.che # None
  /\ "pvc" \in api.deployment.mounts => api.pvc = "bound"
  /\ api.deployment.mounts \cap (BitBucket \cup Mounted) \subseteq api.secrets
  /\ pod' = [spec |-> api.deployment, data |-> api.che.data, ca |-> api.ca]
  /\ UNCHANGED <<api, stale, events>> /\ External

PodStops ==
  /\ Outdated /\ ~api.deployment.multi /\ pod' = None
  /\ UNCHANGED <<api, stale, events>> /\ External

PodLost ==
  /\ pod # None /\ events > 0 /\ events' = events - 1 /\ pod' = None
  /\ UNCHANGED <<api, stale>> /\ External

PVCUsed == pod # None /\ "pvc" \in pod.spec.mounts
PVCGoes ==
  /\ api.pvc = "terminating" /\ ~PVCUsed /\ Store("pvc", None)
  /\ UNCHANGED <<pod, events>> /\ External

-----------------------------------------------------------------------------
(* Control flow of a pass.                                                 *)

Leave   == pc' = "idle" /\ mem' = NoCR /\ fresh' = FALSE
Wait    == Leave /\ UNCHANGED queued           \* for the event of a watch
Requeue == Leave /\ queued' = TRUE             \* an error
Go(s)   == pc' = s /\ UNCHANGED control
Outside == UNCHANGED <<crSeen, cache, pod, events>>

Start ==
  /\ pc = "idle" /\ queued /\ queued' = FALSE
  /\ mem' = crSeen /\ fresh' = ("cr" \notin stale) /\ pc' = "legacy"
  /\ UNCHANGED <<cr, api, stale>> /\ Outside

CallFails ==
  /\ pc # "idle" /\ events > 0 /\ events' = events - 1 /\ Requeue
  /\ UNCHANGED <<cr, crSeen, api, cache, stale, pod>>

Restart ==
  /\ events > 0 /\ events' = events - 1 /\ Requeue
  /\ crSeen' = cr /\ cache' = api /\ stale' = {}
  /\ UNCHANGED <<cr, api, pod>>

-----------------------------------------------------------------------------
(* SyncAll.                                                                *)

WriteCRForgets(c, next) ==
  IF fresh THEN cr' = c /\ stale' = stale \cup {"cr"} /\ pc' = next /\ UNCHANGED control
  ELSE Requeue /\ UNCHANGED <<cr, stale>>

(* A write of the CR needs the latest revision.                            *)
WriteCR(c, next) ==
  IF fresh
  THEN cr' = c /\ mem' = c /\ stale' = stale \cup {"cr"} /\ pc' = next /\ UNCHANGED <<fresh, queued>>
  ELSE Requeue /\ UNCHANGED <<cr, stale>>

SyncLegacyConfigMapSwapped ==
  \/ /\ pc = "legacy"
     /\ IF cache.legacy = None THEN Go("pvc") /\ UNCHANGED <<api, stale>>
        ELSE Store("legacy", None) /\ Go("legacy delete")
     /\ UNCHANGED cr /\ Outside
  \/ /\ pc = "legacy delete"
     /\ IF mem.custom = cache.legacy THEN Go("pvc") /\ UNCHANGED <<cr, stale>>
        ELSE WriteCR([mem EXCEPT !.custom = cache.legacy], "pvc")
     /\ UNCHANGED api /\ Outside

(* The legacy settings are moved to the CR, over those that are there, and   *)
(* the ConfigMap is deleted.  An update that changes nothing makes no event. *)
SyncLegacyConfigMap ==
  \/ /\ pc = "legacy"
     /\ IF cache.legacy = None THEN Go("pvc") /\ UNCHANGED <<cr, stale>>
        ELSE IF fresh /\ mem.custom = cache.legacy THEN Go("legacy delete") /\ UNCHANGED <<cr, stale>>
        ELSE WriteCR([mem EXCEPT !.custom = cache.legacy], "legacy delete")
     /\ UNCHANGED api /\ Outside
  \/ /\ pc = "legacy delete"
     /\ Store("legacy", None) /\ Go("pvc")
     /\ UNCHANGED cr /\ Outside

SyncPVC ==
  /\ pc = "pvc"
  /\ IF mem.multi
     THEN /\ IF cache.pvc = None \/ api.pvc = None THEN UNCHANGED <<api, stale>>
             ELSE Store("pvc", IF PVCUsed THEN "terminating" ELSE None)
          /\ Go("config")
     ELSE IF cache.pvc # None THEN Go("config") /\ UNCHANGED <<api, stale>>
     ELSE IF api.pvc # None THEN Wait /\ UNCHANGED <<api, stale>>     \* it exists already
     ELSE Store("pvc", "bound") /\ Go("config")
  /\ UNCHANGED cr /\ Outside

(* getCheConfigMapData.                                                    *)
Endpoint(secrets) ==
  LET found == secrets \cap BitBucket IN IF Cardinality(found) = 1 THEN found ELSE {}
CheConfigMap(c, secrets) ==
  [multi |-> c.multi, custom |-> c.custom, bitbucket |-> Endpoint(secrets)]

(* An update ends the pass, and its event starts the next one.              *)
SyncCheConfigMap ==
  /\ pc = "config"
  /\ LET data == CheConfigMap(mem, cache.secrets) IN
     IF cache.che = None
     THEN IF api.che = None THEN Store("che", [data |-> data, rev |-> 1]) /\ Go("deployment")
          ELSE Wait /\ UNCHANGED <<api, stale>>
     ELSE IF cache.che.data = data THEN Go("deployment") /\ UNCHANGED <<api, stale>>
     ELSE IF api.che = cache.che
     THEN Store("che", [data |-> data, rev |-> api.che.rev + 1]) /\ Wait
     ELSE Requeue /\ UNCHANGED <<api, stale>>                         \* a conflict
  /\ UNCHANGED cr /\ Outside

PinsNone == [che |-> 0, ca |-> cache.ca]

(* CM_REVISION.                                                            *)
Pins == [che |-> cache.che.rev, ca |-> cache.ca]

(* Alone, the list of volumes is replaced by one with the PVC only, and what *)
(* MountBitBucketOAuthConfig put there is lost; its variables stay.         *)
Mounts(c, secrets) ==
  (IF c.multi THEN {"ca"} \cup Endpoint(secrets) ELSE {"pvc"}) \cup (secrets \cap Mounted)

DeploymentSpec(c, secrets) ==
  [multi |-> c.multi, pins |-> Pins, mounts |-> Mounts(c, secrets), bitbucket |-> Endpoint(secrets)]

(* "More than 1 BitBucket OAuth configuration secrets found".              *)
SyncDeployment ==
  /\ pc = "deployment"
  /\ IF cache.che = None THEN Wait /\ UNCHANGED <<api, stale>>
     ELSE IF Cardinality(cache.secrets \cap BitBucket) > 1 THEN Requeue /\ UNCHANGED <<api, stale>>
     ELSE LET spec == DeploymentSpec(mem, cache.secrets) IN
          IF cache.deployment = spec \/ (cache.deployment = None /\ api.deployment # None)
          THEN Wait /\ UNCHANGED <<api, stale>>
          ELSE IF api.deployment = cache.deployment THEN Store("deployment", spec) /\ Wait
          ELSE Requeue /\ UNCHANGED <<api, stale>>                    \* a conflict
  /\ UNCHANGED cr /\ Outside

SyncAll == SyncLegacyConfigMap \/ SyncPVC \/ SyncCheConfigMap \/ SyncDeployment

Next ==
  \/ Start \/ SyncAll \/ CallFails \/ Restart \/ User
  \/ PodStarts \/ PodStops \/ PodLost \/ PVCGoes
  \/ \E k \in Kinds : SyncCache(k)

Spec == Init /\ [][Next]_vars

FairSpec ==
  /\ Spec /\ WF_vars(Start \/ SyncAll) /\ \A k \in Kinds : WF_vars(SyncCache(k))
  /\ WF_vars(PodStarts) /\ WF_vars(PodStops) /\ WF_vars(PVCGoes)

-----------------------------------------------------------------------------
TypeOK ==
  /\ cr \in CheCluster /\ crSeen \in CheCluster /\ mem \in CheCluster
  /\ \A s \in {api, cache} :
       /\ s.legacy \in Properties \cup {None} /\ s.ca \in Nat /\ s.pvc \in {None, "bound", "terminating"}
       /\ s.che # None => s.che.data \in Data /\ s.che.rev \in Nat
       /\ s.secrets \subseteq BitBucket \cup Mounted
       /\ s.deployment \in Deployment \cup {None}
  /\ stale \subseteq Kinds
  /\ pod # None => pod.spec \in Deployment /\ pod.data \in Data
  /\ fresh \in BOOLEAN /\ queued \in BOOLEAN
  /\ fresh => mem = cr

(* Once the user stops, the server's pod runs with the settings of the CR    *)
(* and of the Secrets, the latest CA certificates and the volumes of its     *)
(* mode, whichever ConfigMap a pod that was started in between has read.    *)
(* (The PVC may be one whose deletion the mode's coming back has overtaken.) *)
Follows ==
  /\ api.legacy = None
  /\ pod # None /\ pod.spec = api.deployment
  /\ pod.data = [multi |-> cr.multi, custom |-> cr.custom, bitbucket |-> api.secrets \cap BitBucket]
  /\ pod.spec.multi = cr.multi /\ pod.spec.bitbucket = pod.data.bitbucket
  /\ IF cr.multi
     THEN pod.ca = api.ca /\ api.pvc = None /\ pod.spec.mounts = {"ca"} \cup api.secrets
     ELSE api.pvc # None /\ pod.spec.mounts = {"pvc"} \cup (api.secrets \cap Mounted)
ServerFollows == <>[](Cardinality(api.secrets \cap BitBucket) <= 1) => <>[]Follows

(* The legacy setting is not lost: its ConfigMap is deleted by a pass whose   *)
(* copy of the CR, a revision that was stored, has it.  And nothing else is:  *)
(* the operator changes a setting only to the legacy one, and not any more    *)
(* when the caches have seen that the ConfigMap is gone.  (What the user sets *)
(* between the move and that moment may be moved over.)                      *)
SettingKept ==
  [][/\ api.legacy # None /\ api'.legacy = None => mem.custom = api.legacy
     /\ pc' # pc /\ cr'.custom # cr.custom =>
          /\ cr'.custom = cache.legacy /\ cache.legacy # None
          /\ api.legacy = cache.legacy \/ "configmap" \in stale]_vars
=============================================================================
