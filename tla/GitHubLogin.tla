---------------------------- MODULE GitHubLogin ----------------------------
(***************************************************************************)
(* Login with GitHub (identity-provider/identity_provider.go) and the        *)
(* Secrets mounted into Keycloak's pod (deploy/deployment.go).              *)
(*                                                                         *)
(* The user asks for the login with a labelled Secret.  The operator names   *)
(* the Secret in Keycloak's Deployment, has a script run in a pod of         *)
(* Keycloak that creates the identity provider with what that pod's          *)
(* environment holds, and records that in the status of the CR.             *)
(***************************************************************************)
EXTENDS Naturals, FiniteSets

CONSTANTS
  Configurations,  \* Secrets "oauth-scm-configuration" for GitHub
  Legacy,          \* Secrets "keycloak-secret" with GitHub's credentials
  Unmountable,     \* Secrets "keycloak-secret" to be mounted as variables that
                   \* cannot be: unnamed keys, or in another namespace
  MaxUserOps,      \* bound on Secrets that come or go
  MaxMishaps       \* bound on failed calls, restarts, lost pods and edits of the CR

ASSUME KindsAssumption ==
  /\ Configurations \cap Legacy = {}
  /\ Unmountable \cap (Configurations \cup Legacy) = {}

Credentials == Configurations \cup Legacy
Secrets     == Credentials \cup Unmountable

VARIABLES
  secrets, secretsSeen,        \* the labelled Secrets, and those in the cache
  provisioned, crSeen,         \* status.gitHubOAuthProvisioned, and in the cache
  deployment, deploymentSeen,  \* Keycloak's Deployment: [env, available]
  stale,                       \* the kinds whose latest event the caches have not seen
  pods,                        \* Keycloak's pods, starting, ready or stopping
  provider,                    \* is there a provider "github" in Keycloak's database?
  pc, mem, fresh, queued,      \* the operator's next step, its copy of the status, is
                               \* it of the latest revision?, and the work queue
  userOps, mishaps,            \* what may still happen
  slipped                      \* something the operator has no way to make up for

cluster == <<secrets, provisioned, deployment, pods, provider>>
seen    == <<secretsSeen, crSeen, deploymentSeen>>
control == <<pc, mem, fresh, queued>>
vars    == <<cluster, seen, stale, control, userOps, mishaps, slipped>>

Kinds == {"secrets", "cr", "deployment"}
Pod   == [env : SUBSET Credentials, phase : {"starting", "ready", "stopping"}]

(* Keycloak runs, and nobody has asked for GitHub.                          *)
Init ==
  /\ secrets = {} /\ secretsSeen = {}
  /\ provisioned = FALSE /\ crSeen = FALSE /\ provider = FALSE
  /\ deployment = [env |-> {}, available |-> TRUE] /\ deploymentSeen = deployment
  /\ stale = {} /\ pods = {[env |-> {}, phase |-> "ready"]}
  /\ pc = "idle" /\ mem = FALSE /\ fresh = FALSE /\ queued = FALSE
  /\ userOps = MaxUserOps /\ mishaps = MaxMishaps /\ slipped = FALSE

-----------------------------------------------------------------------------
(* The user.                                                               *)

ChangeSecrets ==
  /\ userOps > 0 /\ userOps' = userOps - 1
  /\ \E s \in Secrets : secrets' = IF s \in secrets THEN secrets \ {s} ELSE secrets \cup {s}
  /\ stale' = stale \cup {"secrets"}
  /\ UNCHANGED <<provisioned, deployment, pods, provider, seen, control, mishaps, slipped>>

(* Another field of the CR changes: the revision in hand is no longer the    *)
(* latest.                                                                 *)
EditCR ==
  /\ mishaps > 0 /\ mishaps' = mishaps - 1
  /\ stale' = stale \cup {"cr"} /\ fresh' = FALSE
  /\ UNCHANGED <<cluster, seen, pc, mem, queued, userOps, slipped>>

-----------------------------------------------------------------------------
(* The informers.  isEclipseCheSecret brings the operator back for any       *)
(* labelled Secret.                                                        *)

(* A script has run whose result the status does not say yet.  The operator  *)
(* will run it again, unless it sees other Secrets first.                   *)
Unrecorded == provider # provisioned
SeesOthers(k) == k = "secrets" /\ secrets # secretsSeen

SyncCache(k) ==
  /\ k \in stale /\ stale' = stale \ {k} /\ queued' = TRUE
  /\ secretsSeen' = IF k = "secrets" THEN secrets ELSE secretsSeen
  /\ crSeen' = IF k = "cr" THEN provisioned ELSE crSeen
  /\ deploymentSeen' = IF k = "deployment" THEN deployment ELSE deploymentSeen
  /\ slipped' = (slipped \/ (Unrecorded /\ SeesOthers(k)))
  /\ UNCHANGED <<cluster, pc, mem, fresh, userOps, mishaps>>

-----------------------------------------------------------------------------
(* The Deployment controller and the kubelet, with strategy RollingUpdate:   *)
(* one pod, and one more while the new one starts.  A pod that stops is      *)
(* listed until it is gone, but no longer counted.                         *)

Running == {p \in pods : p.phase # "stopping"}
Latest(p) == p.env = deployment.env
Controlled ==
  UNCHANGED <<secrets, provisioned, provider, seen, control, userOps, slipped>>

PodCreated ==
  /\ \A p \in Running : ~Latest(p)
  /\ pods' = (pods \ {p \in pods : p.phase = "starting"}) \cup {[env |-> deployment.env, phase |-> "starting"]}
  /\ UNCHANGED <<deployment, stale, mishaps>> /\ Controlled

PodReady ==
  /\ \E p \in pods :
       /\ p.phase = "starting" /\ p.env \subseteq secrets
       /\ pods' = (pods \ {p}) \cup {[p EXCEPT !.phase = "ready"]}
  /\ UNCHANGED <<deployment, stale, mishaps>> /\ Controlled

PodStops ==
  /\ \E p \in Running :
       /\ ~Latest(p) /\ \E q \in pods : Latest(q) /\ q.phase = "ready"
       /\ pods' = (pods \ {p}) \cup {[p EXCEPT !.phase = "stopping"]}
  /\ UNCHANGED <<deployment, stale, mishaps>> /\ Controlled

PodGone ==
  /\ \E p \in pods : p.phase = "stopping" /\ pods' = pods \ {p}
  /\ UNCHANGED <<deployment, stale, mishaps>> /\ Controlled

PodLost ==
  /\ mishaps > 0 /\ mishaps' = mishaps - 1
  /\ \E p \in pods : pods' = pods \ {p}
  /\ UNCHANGED <<deployment, stale>> /\ Controlled

(* AvailableReplicas and Replicas are both 1: not necessarily a pod of the   *)
(* latest specification, and not necessarily still so.                      *)
Available == Cardinality(Running) = 1 /\ \A p \in Running : p.phase = "ready"
StatusFollows ==
  /\ deployment.available # Available
  /\ deployment' = [deployment EXCEPT !.available = Available]
  /\ stale' = stale \cup {"deployment"}
  /\ UNCHANGED <<pods, mishaps>> /\ Controlled

-----------------------------------------------------------------------------
(* Control flow of a pass.                                                 *)

Leave   == pc' = "idle" /\ mem' = FALSE /\ fresh' = FALSE
Wait    == Leave /\ UNCHANGED queued           \* for the event of a watch
Requeue == Leave /\ queued' = TRUE             \* an error
Go(s)   == pc' = s /\ UNCHANGED <<mem, fresh, queued>>

(* Mutant: the cached copy is taken for the latest revision.                *)
StartWithAnyRevision ==
  /\ pc = "idle" /\ queued /\ queued' = FALSE
  /\ mem' = crSeen /\ fresh' = TRUE /\ pc' = "deployment"
  /\ UNCHANGED <<cluster, seen, stale, userOps, mishaps, slipped>>

Start ==
  /\ pc = "idle" /\ queued /\ queued' = FALSE
  /\ mem' = crSeen /\ fresh' = ("cr" \notin stale) /\ pc' = "deployment"
  /\ UNCHANGED <<cluster, seen, stale, userOps, mishaps, slipped>>

CallFails ==
  /\ pc # "idle" /\ mishaps > 0 /\ mishaps' = mishaps - 1 /\ Requeue
  /\ UNCHANGED <<cluster, seen, stale, userOps, slipped>>

Restart ==
  /\ mishaps > 0 /\ mishaps' = mishaps - 1 /\ Requeue
  /\ secretsSeen' = secrets /\ crSeen' = provisioned /\ deploymentSeen' = deployment
  /\ stale' = {} /\ slipped' = (slipped \/ (Unrecorded /\ SeesOthers("secrets")))
  /\ UNCHANGED <<cluster, userOps>>

-----------------------------------------------------------------------------
(* SyncKeycloakDeploymentToCluster.                                        *)

(* Mutant: the legacy Secrets are not mounted.                              *)
EnvOfConfiguration(s) ==
  IF Cardinality(s \cap Configurations) = 1 THEN s \cap Configurations ELSE {}

(* GITHUB_CLIENT_ID and GITHUB_SECRET come from a configuration only when it *)
(* is the only one; MountSecrets adds the legacy Secrets as they are.       *)
Env(s) ==
  (IF Cardinality(s \cap Configurations) = 1 THEN s \cap Configurations ELSE {})
    \cup (s \cap Legacy)

MountFails(s) == s \cap Unmountable # {}

(* An update ends the pass; the next one asks the cached status, whichever   *)
(* generation of the Deployment it is about.                               *)
SyncKeycloakDeployment ==
  /\ pc = "deployment"
  /\ IF MountFails(secretsSeen) THEN Requeue /\ UNCHANGED <<deployment, stale>>
     ELSE IF deploymentSeen.env = Env(secretsSeen)
     THEN /\ IF deploymentSeen.available THEN Go("github") ELSE Wait
          /\ UNCHANGED <<deployment, stale>>
     ELSE IF deploymentSeen = deployment
     THEN /\ deployment' = [deployment EXCEPT !.env = Env(secretsSeen)]
          /\ stale' = stale \cup {"deployment"} /\ Wait
     ELSE Requeue /\ UNCHANGED <<deployment, stale>>                    \* a conflict
  /\ UNCHANGED <<secrets, provisioned, pods, provider, seen, userOps, mishaps, slipped>>

-----------------------------------------------------------------------------
(* SyncGitHubOAuth.                                                        *)

Sources(s) == s \cap Credentials

(* The script create-github-identity-provider.sh in pod p succeeds.  It      *)
(* leaves a provider that exists as it is, needs Keycloak to answer, and the *)
(* credentials in the environment.  In a pod that stops it may yet succeed.  *)
Creates(p) == p.phase # "starting" /\ (provider \/ p.env # {})

(* The script delete-identity-provider.sh takes a Keycloak that does not     *)
(* answer for one without the provider, and succeeds.                       *)
Deletes(p) == p.phase # "starting"

(* ExecIntoPod picks the first pod with Keycloak's label, whatever its phase.*)
(* (An answer that gets lost is a call that fails in the next step.)         *)
CreateProvider ==
  /\ pc = "github" /\ Cardinality(Sources(secretsSeen)) = 1 /\ ~mem
  /\ \/ /\ \E p \in pods : Creates(p)
        /\ provider' = TRUE /\ Go("status")
     \/ /\ pods = {} \/ \E p \in pods : ~Creates(p) \/ p.phase = "stopping"
        /\ Requeue /\ UNCHANGED provider
  /\ UNCHANGED <<secrets, provisioned, deployment, pods, seen, stale, userOps, mishaps, slipped>>

DeleteProvider ==
  /\ pc = "github" /\ Sources(secretsSeen) = {} /\ mem
  /\ \/ /\ \E p \in pods : Deletes(p)
        /\ provider' = FALSE /\ Go("status") /\ UNCHANGED slipped
     \/ /\ \E p \in pods : p.phase # "ready"
        /\ slipped' = (slipped \/ provider) /\ Go("status") /\ UNCHANGED provider
     \/ /\ pods = {} \/ \E p \in pods : p.phase # "ready"
        /\ Requeue /\ UNCHANGED <<provider, slipped>>
  /\ UNCHANGED <<secrets, provisioned, deployment, pods, seen, stale, userOps, mishaps>>

(* "More than 1 GitHub OAuth configuration secrets found".                   *)
RefuseSecrets ==
  /\ pc = "github" /\ Cardinality(Sources(secretsSeen)) > 1 /\ Requeue
  /\ UNCHANGED <<cluster, seen, stale, userOps, mishaps, slipped>>

KeepProvider ==
  /\ pc = "github" /\ Cardinality(Sources(secretsSeen)) = (IF mem THEN 1 ELSE 0) /\ Wait
  /\ UNCHANGED <<cluster, seen, stale, userOps, mishaps, slipped>>

(* UpdateCheCRStatus needs the latest revision of the CR.                    *)
RecordProvider ==
  /\ pc = "status"
  /\ IF fresh THEN provisioned' = ~mem /\ stale' = stale \cup {"cr"} /\ Wait
     ELSE Requeue /\ UNCHANGED <<provisioned, stale>>
  /\ UNCHANGED <<secrets, deployment, pods, provider, seen, userOps, mishaps, slipped>>

SyncGitHubOAuth ==
  CreateProvider \/ DeleteProvider \/ RefuseSecrets \/ KeepProvider \/ RecordProvider

-----------------------------------------------------------------------------
Operator == Start \/ SyncKeycloakDeployment \/ SyncGitHubOAuth

Next ==
  \/ Operator \/ CallFails \/ Restart \/ ChangeSecrets \/ EditCR
  \/ PodCreated \/ PodReady \/ PodStops \/ PodGone \/ PodLost \/ StatusFollows
  \/ \E k \in Kinds : SyncCache(k)

Spec == Init /\ [][Next]_vars

FairSpec ==
  /\ Spec /\ WF_vars(Operator) /\ \A k \in Kinds : WF_vars(SyncCache(k))
  /\ WF_vars(PodCreated) /\ WF_vars(PodReady) /\ WF_vars(PodStops) /\ WF_vars(PodGone)
  /\ WF_vars(StatusFollows)

-----------------------------------------------------------------------------
TypeOK ==
  /\ secrets \subseteq Secrets /\ secretsSeen \subseteq Secrets
  /\ {provisioned, crSeen, provider, mem, fresh, queued, slipped} \subseteq BOOLEAN
  /\ {deployment, deploymentSeen} \subseteq [env : SUBSET Credentials, available : BOOLEAN]
  /\ stale \subseteq Kinds /\ pods \subseteq Pod
  /\ pc \in {"idle", "deployment", "github", "status"}
  /\ userOps \in 0 .. MaxUserOps /\ mishaps \in 0 .. MaxMishaps
  /\ fresh => mem = provisioned

(* When the user is left with one Secret for GitHub or none, and none that   *)
(* cannot be mounted, the status comes to say so, and the rest of Reconcile  *)
(* gets its turn; and there is a provider in Keycloak exactly when there is  *)
(* a Secret, unless the operator saw other Secrets before it had recorded    *)
(* the result of a script, or the delete script asked a Keycloak that did    *)
(* not answer.                                                             *)
Asked == Sources(secrets) # {}
GitHubFollows ==
  <>[](Cardinality(Sources(secrets)) <= 1 /\ ~MountFails(secrets))
    => <>[](provisioned = Asked /\ (slipped \/ provider = Asked))
=============================================================================
