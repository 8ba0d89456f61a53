# A verification project for the Che / CodeReady Workspaces operator

The operator in `src/pkg` and `src/cmd/manager` installs Eclipse Che (CodeReady
Workspaces) on a Kubernetes or OpenShift cluster and keeps the installation as
a `CheCluster` custom resource (CR) describes it. This directory holds TLA+
modules of its control logic, TLC runs over small instances, and TLAPS proofs.

## 1. The system

One process (`cmd/manager/main.go`), elected leader for life, runs one
controller with one worker. `ReconcileChe.Reconcile`
(`controller/che/che_controller.go:314-698`) is one long sequence of calls. A
call reads objects (from informer caches; cluster-scoped ones from the API
server), compares them with what the CR asks for, writes, and answers *done*,
*not done*, or an error. The first call that is not done ends the pass:

| a pass ends with       | the next pass starts                                |
|------------------------|-----------------------------------------------------|
| an error               | after a back-off                                    |
| not done, cluster-scoped object | after one second (`RequeueAfter`)          |
| not done, no error     | when a watched object or the CR changes             |
| the end of the sequence| when a watched object or the CR changes             |

Watched are the CR, the Services, Secrets, ConfigMaps, Roles, RoleBindings,
ServiceAccounts, Routes or Ingresses, Deployments and PVCs it owns, and some
labelled ConfigMaps and Secrets (`che_controller.go:154-268`). Not watched are
Jobs, ClusterRoles and bindings, OAuthClients and ConsoleLinks. A resync every
ten hours starts a pass whatever happened.

### Inventory

| part | state | operations | hard about it | what makes it correct |
|---|---|---|---|---|
| finalizers and cluster permissions (`finalizer.go`, `clusterrole*.go`, `workspace_namespace_permission.go`) | finalizers on the CR; ClusterRoles and bindings | append, delete, the pass before a deletion, the pass that creates | stale copies, conflicts, the CR deleted or re-created meanwhile, failed calls | a finalizer goes only after its objects; a deletion completes; nothing is left |
| CR access (`checluster.go`) | the copy in `deployContext` | update spec, update status, reload | optimistic concurrency, status subresource | part of the others |
| object synchronisation (`sync.go` and the typed files) | the operator's objects | get, create, create if absent, update, delete and create, merge | caches of different age, foreign edits, non-atomic replacement | foreign annotations stay; no endless difference |
| rollout (`Reconcile`, `postgres/`, `server/`) | Deployments, ConfigMaps, endpoints, two status fields | stages in order, wait for pods, run a script, record it | passes that end in silence and rely on an event, restarts, lost pods | order of stages; database before server; the rollout completes |
| login with OpenShift (`identity-provider/`, `oauthclient.go`) | name, secret, flag in the CR; OAuthClient; identity provider in Keycloak | generate, create, run script, record; undo | three systems without a transaction; the user toggles | shared credentials, no orphan, the toggle takes effect |
| exposure and gateway (`expose/`, `gateway/`, `route.go`, `ingress.go`) | Routes or Ingresses, gateway objects | expose by the strategy of the CR, remove what another one left | switching strategies | one endpoint per service, nothing left of the other strategy |
| login with GitHub, mounted Secrets (`identity_provider.go:217-291`, `deployment.go`) | labelled Secrets, a status flag, variables of Keycloak's pod, a provider in Keycloak | name the Secret in the Deployment, run a script in a pod, record | a script in whichever pod is listed first, status after effect | the provider is there exactly if a Secret asks for it |
| generated fields (`create.go`) | secrets with passwords, CR fields that name them | generate, store secret, store name | secret before CR, replacement | consumers and stored password agree |
| initial OpenShift user (`oauth_initial_htpasswd_provider.go`) | two secrets, user, identity, cluster OAuth | create, remove | partial failure, password in memory | all or nothing in the end |
| image puller (`kubernetes_image_puller.go`) | OperatorGroup, Subscription, CSV, its CR | install step by step, update, remove | another operator's life cycle | installed or removed as asked |
| TLS and CA bundle (`tls.go`, `job.go`) | two secrets, a Job, merged ConfigMap | generate by Job, label, merge by revision | unwatched Job, one of two secrets missing | both secrets of one run; bundle follows its sources |
| dev workspace operator (`dev-workspace/`) | some twenty shared objects | create, update if owner | several operators, per-process cache | one owner, latest content |
| console link (`consolelink.go`) | one object per cluster | create, finalizer | shared by instances | removed with its instance only |
| registries, dashboard | a Service, endpoint, ConfigMap, Deployment each | stages | as the rollout | as the rollout |
| conversion (`apis/org/conversion.go`) | none | v1 to v2alpha1 and back | annotation that stores the rest | round trip |
| proxy, defaults, validation, permission checks, utilities | none | pure functions | - | - |

## 2. Modules

| module | models | extends |
|---|---|---|
| `Finalizers` | permission groups, optional cluster roles, their finalizers, from creation of the CR to its removal | |
| `Pipeline` | what a rollout promises, without API server, caches, passes or failures | |
| `MCFinalizers` | two groups and one role | `Finalizers` |
| `FinalizersProofs` | theorems | `Finalizers`, `TLAPS` |
| `Rollout` | the pipeline of synchronised objects over stale caches; implements `Pipeline` | instantiates `Pipeline` |
| `RolloutProofs` | theorems | `Rollout`, `TLAPS` |
| `MCRollout` | database, endpoint, ConfigMap, server, status, console link | `Rollout` |
| `OAuth` | turning login with OpenShift on and off | |
| `LoginProofs` | theorems about `OAuth` and `GitHubLogin` | `OAuth`, `TLAPS`; instantiates `GitHubLogin` |
| `ImagePuller` | installing and removing the image puller's operator through OLM | |
| `ImagePullerProofs` | theorems | `ImagePuller`, `TLAPS` |
| `CABundle` | the ConfigMap with all trusted certificates, kept up to date by revisions | |
| `ConfigMapProofs` | theorems about `CABundle` and `Server` | `CABundle`, `TLAPS`; instantiates `Server` |
| `MCCABundle` | two labelled ConfigMaps and a trust store | `CABundle` |
| `TLSSecrets` | the Job that makes the two TLS secrets on Kubernetes, and the passes that wait for it | |
| `EndpointProofs` | theorems about `TLSSecrets` and `Exposure` | `TLSSecrets`, `TLAPS`; instantiates `Exposure` |
| `Provisioning` | generated credentials, PostgreSQL and Keycloak, in both modes | |
| `ProvisioningProofs` | theorems | `Provisioning`, `FiniteSetTheorems`, `TLAPS` |
| `Server` | the server's ConfigMaps, volume, mounts and Deployment, in both modes | |
| `Exposure` | Routes or Ingresses, the single-host gateway, host name and URLs | |
| `MCExposure` | the dashboard and a registry beside the server | `Exposure` |
| `GitHubLogin` | Secrets mounted into Keycloak and the provider for GitHub | |
| `DevWorkspace` | several operators that share the objects of the Dev Workspace operator | |
| `DevWorkspaceProofs` | theorems | `DevWorkspace`, `TLAPS` |
| `MCDevWorkspace` | two CheClusters, one item of each kind | `DevWorkspace` |

### Common to all

*The CR* is a record of the fields the component reads and writes. The API
server accepts a write of a copy only if the copy has the latest revision;
`Finalizers` counts revisions (`rv`, because the CR can be re-created under its
name), the others keep a flag `fresh`: is `mem` the latest revision? `mem` is
`deployContext.CheCluster`. *Informer caches* trail the server: a set of keys
(or a flag) `stale` says whose latest event is still to come; a `CacheSync`
brings the latest state (events in between may be coalesced, which an informer
allows) and puts the request into the queue. A cache jumps to the latest state
rather than through each one: a pass that sees an intermediate state is one
that started before the later write. *The queue* is a Boolean, as the
controller has one request per CR and a queue that merges equal requests.
*One step* is one call to the API server or one script, with the Go code up to
the next one. `Restart` at any point loses `mem` and the program counter and
lists everything again. Definitions marked "Mutant:" are faulty versions that
no specification uses; each shows that a property notices that mistake.

### Finalizers

`pc`/`todo` walk through `reconcileFinalizers` (`EnterCleanup`,
`DeleteClusterRole`, `DeleteClusterRoleBinding`, `DeleteFinalizer`) and then, on
the same copy, through `reconcileWorkspacePermissions` (`SyncClusterRole`,
`SyncClusterRoleBinding`, `AppendFinalizer`). The rest of the pipeline is one
step that may return early, write the CR's spec or status, or go on. `fin` counts
how often a finalizer is on the list, since `AppendFinalizer` may add it twice:
it tests before the loop, and after a conflict appends to a reloaded copy.
The group of the Dev Workspace permissions has the same shape as the two of the
instance; `Permissions`, and the two different orders in which the code visits
them, are parameters. `OrderAssumption` says of the two orders what
`workspace_namespace_permission.go:49-66` and `:186-202` have in common: the group
made first is the one removed last. Left out: the bindings under the names of older releases.

### Rollout

A pass is the sequence `Stages` of calls on objects; `at` is the index. An
object is its phase (for a Deployment its pods), the generation `gen` of the CR
that its content was made from, the revision of the server's ConfigMap that a
Deployment is pinned to, and what the user added to its metadata. `Sync`
creates, updates in place (conflict if the cache is behind) or deletes and
creates (`Delete`, `Recreate`, two calls). `reached` is a history variable. The
user edits the CR, deletes an object, annotates it, puts a label on it, or
applies a content and an annotation of their own at once.
`Pipeline` is the abstract specification: `given` is the latest generation of
the CR that each object was given, `Give` requires that the objects before it
have been given it, and the server requires the database. `Rollout` maps
`asked` to the CR's generation, `given` to `reached`, and the database and its
record to its own; caches, passes, conflicts and retries are invisible.
The periodic resync is left out on purpose: with it, a lost wake-up would be
invisible, although it costs ten hours.

### OAuth

`clients` are the cluster's OAuthClients, `idp` the identity provider in
Keycloak, `name`, `secret` and `provisioned` the fields of the CR. A generated
value is one that nobody uses (`NewName`, `NewSecret`). A failed script may have
done its work or not, and a script that cannot reach Keycloak takes the
provider for absent, as `templates/delete-identity-provider.sh` does. Stages of
the rollout between those modelled have no effect on this state.

### Provisioning

`pc` is the next step and the object it is about. A password lives in a Secret (`create.go`), in the
database (`db.user`, `db.admin`, on the PVC) and in the environment of Keycloak's pod, and nothing
ever compares the three. A pass names the two Secrets (`Name`, `DeleteSecret`, `CreateSecret`,
`SaveName`: four calls with a crash between any two), brings up PostgreSQL, runs the script that
makes the user and the database (`ProvisionDB`), brings up Keycloak, asks the database whether SSL
is still required, rolls Keycloak out again if not, and runs the realm's script. A new password is
one that nobody has: at most seven are in Secrets, caches and pods, and `PasswordsAssumption` asks
for more. In single-user mode `Drop` takes PVC and Deployments down; the PVC goes when no pod uses
it. An error of the status write that is no conflict is dropped at the end of
`syncKeycloakResources` (`identity_provider.go:121-127`): the pass goes on, with the flag in memory
only, and nothing asks for another (`SaveKeycloakProvisioned`). `missed` remembers this, and a
question about SSL that was not answered, until the next pass begins. `che-postgres-secret` is the
Secret of a fresh installation; the realm's update for a changed host is left out.

### Server

`SyncAll` of `server.go`: the legacy ConfigMap `custom` is moved to the CR and deleted, the PVC
follows the mode, the ConfigMap `che` is written from CR and Secrets, and the Deployment pins the
revisions of it and of the CA bundle as *the cache* shows them (`Pins`). The pod reads the ConfigMap
of the moment it starts (`pod.data`), whichever revision its Deployment names: `ServerFollows` says
that the two agree in the end. The move of a legacy setting takes two calls, and the user may edit
the CR between them: `SettingKept` says when the operator overwrites. Host name and availability are
in `Exposure` and `Rollout`.

### Exposure

`todo` is the list of calls that a pass makes for the strategy of its CR, which it reads from the
informer's cache (`crSeen`) as everywhere. The strategies are the documented three, single-host with
and without the gateway. With `default-host` a Route is as with `multi-host`, and an Ingress gets no
host unless the CR names one (`ingress.go:81-87`): what the operator then publishes and advertises
has none (`Nameless`). Objects are a Route (or Ingress) with host and Service behind, the
configuration of a route of the gateway, and the gateway's own objects; `access` stands for its
service account, role and binding. A Route changes by delete and create (`half`). The host found on
a cached Route goes to `cr.cheHost` and the URLs (`Publish`). Pods are assumed to follow their
Deployment.

### GitHubLogin

A Secret is of the current kind (`oauth-scm-configuration`), of the older kind,
which `MountSecrets` mounts, or one that cannot be mounted. Keycloak's pods roll over as
Kubernetes does it: a new one starts, the old one stops and stays listed for a while,
and the status of the Deployment follows when its controller gets there. A script
runs in any listed pod, as `GetDeploymentPod` takes the first. `slipped` is a
history variable: other Secrets were seen before the result of a script had
been recorded, or the delete script took a Keycloak that did not answer for one
without the provider. Whether the provider's credentials are those of the latest
Secret is not modelled: the script leaves a provider that exists as it is.

### DevWorkspace

Each CheCluster has an operator process with its own `version` of the files;
`cluster` has the shared objects with the owner and the hash they carry. `Look`
is the ownership rule of `syncObject`, decided from a list of CheClusters read
just before the write. `blueprint` is the process's cached copy of a file, which the
client changes: after a conflict it has a resourceVersion, after a
successful write it has lost its kind. `NoFight` counts objects that another operator has taken
over since the last user operation (`lost`).

### ImagePuller

`step` and `pc` follow `ReconcileImagePuller`: discovery of the APIs, the package
manifest, OperatorGroup, Subscription, the CR of the puller, and the way back.
Each call answers as the code's early returns do, so the pass after a
*requeue* starts again from the top. Around it act OLM (installs what a
Subscription asks for, again if the Subscription outlives its
ClusterServiceVersion), the puller's operator (fills in the names of its own CR), the
garbage collector (owner references), and a user who switches the puller on
and off, edits its spec and deletes the CheCluster. The puller's CR is not
watched: its cache has an event of its own, `SyncPuller`, that starts no pass.

### CABundle

A source is the revision of a ConfigMap, 0 if there is none; `content` gives the certificates that a
revision holds, so a change of metadata is a new revision with old certificates. `ListSources`,
`GetTrustStore`, `CompareRevisions` and `UpdateBundle` or `CreateBundle` are the calls of
`SyncAdditionalCACertsConfigMapToCluster`; each reads the informer's state of *its* moment. The CR
comes to name the trust store, or no longer does, at any time (`trusts`, `seen`; the operator itself
names it for a cluster with a proxy, `controller/che/proxy.go:71`). The annotation is a sequence, in
the order of the list, which is any but for the trust store at its end; it is split at dashes and
dots, and names may hold both. `Parsed` reads it as the code does, up to the first entry that does
not split into two. A name in `Unparsable` ends the reading: one dash does, as in `ca-certs`, the
default name of the trust store. A name in `Misread` leaves an entry of two parts that is not its
revision (a dash and a dot, as in `ca-bundle.crt`); what the false entry says is abstracted to a
revision that no source has.

### TLSSecrets

A secret is the pair it was generated with (`run`, the pod), whether its data are there and whether
the CR owns it; `pods[r]` counts the secrets that pod `r` has written. A pod outlives its Job
(`deleteJob` looks for pods by label first, then deletes the Job, and ignores both errors; a deleted
pod ends in its own time), so any of the pods may stay and still write, and the deletion of the Job
may fail. The role and its binding come from a cache of their own (`roles`): a pass that does not
see them yet ends there or goes on. That a pod can only *create* secrets is `SyncTLSRoleToCluster`;
that it creates the certificate before the CA is the image's choice and assumed. The worker's calls
are those of `K8sHandleCheTLSSecrets`, each on the state that one of three informers (secrets, Jobs,
roles) has at that moment; `mem` holds the copies from `GetTLS` on. A Job is reported `failed`
before it has ended, so a pass may delete one whose next pod is still to come. `lost` is a history
variable: one of the five events has happened by which a CA is lost that nobody makes again
(`Loses`, `HalfDone`): a pod dies between its two writes or is deleted there, the user deletes the
CA, the CA is deleted for a certificate that was read as absent, or the pass that replaces a pair
ends between its two deletions. Left out: the same secrets on OpenShift (read off a test route), and
a change of the domain while the Job runs.

## 3. Runs

| run | cfg | result | what it shows |
|---|---|---|---|
| finalizers | `MCFinalizers.cfg` | passes, 0.8M states | `HeldUntilGone`: no permission finalizer leaves the CR before its ClusterRole and binding are gone; `DeletionCompletes`; `GoneMeansClean` (no permission object survives the CR), `DeletionCleansUp` (nor any other, if nothing failed) |
| finalizers_read_error | `MCFinalizers_read_error.cfg` | `HeldUntilGone` violated | a failed read counts as "deleted" (`sync.go:292`) |
| rollout | `MCRollout.cfg` | passes, 0.5M | `StagesInOrder`, `ProvisionedMeansReady`, `AnnotationsKept`; `RolloutCompletes`, without resync; `ImplementsPipeline`, the refinement |
| oauth | `OAuth.cfg` | passes, 0.09M | `NoOrphanClient`, `CredentialsAgree`, `ToggleTakesEffect` |
| image_puller | `ImagePuller.cfg` | passes, 0.7M | `FinalizerGuards`, `InstallCompletes`, `UninstallCompletes` (and the deletion of a CR whose puller is disabled) |
| ca_bundle | `MCCABundle.cfg` | passes, 1.8M | `UpToDateMeansMerged`: noted revisions, as far as they can be read, vouch for the bundle's certificates; beyond that a removed source may be left in it; `BundleSettles`, with the same reservation |
| tls_secrets | `TLSSecrets.cfg` | passes, 1.1M | `PairsMatch`: no CA of another certificate until a user touches the secrets; `TLSSettles`: the certificate there, valid and owned, Job and pods gone; a CA that is there valid and owned, and there unless one of the five events of `lost` happened |
| provisioning | `Provisioning.cfg` | passes, 0.3M | `KeycloakComesUp`: with credentials that open the database, and its realm; no SSL and the record in the status unless the last pass dropped an error (`missed`); the Secrets that the CR names and a database that single-user mode did not throw away are premises; `PasswordsAgree`: what the database and Keycloak know of passwords is what the Secrets hold; `SingleUserCleansUp` |
| server | `Server.cfg` | passes, 1.6M | `ServerFollows`: the pod runs with the current settings, certificates and volumes; `SettingKept`: a legacy setting is in the CR before its ConfigMap goes, and overwrites nothing any more once the caches have seen that |
| exposure | `MCExposure.cfg` | passes, 0.9M | if the host name in the CR comes to rest (`HostSettles`): `AddressesAnswer`: everything answers at the address the CR advertises, and that has a host, but with default-host on Kubernetes; `NoSecondWay`: only the way the CR asks for is left, unless the last pass dropped a failed deletion |
| github_login | `GitHubLogin.cfg` | passes, 0.75M | `GitHubFollows`: status and provider follow the Secrets |
| dev_workspace | `MCDevWorkspace.cfg` | passes | `NoFight`: as long as nobody touches the CheClusters, an operator that lost an object to another one never takes it back; `Converges`: the one whose turn it is brings the objects to its version |

Deadlock is not checked: when nothing is left to do the operator rests.

TLC also showed the following. The properties above exempt these cases, by name
in the property or by a premise; each appears as soon as the exemption is taken out:

* a CR created again under its name while a pass still works on the copy of the deleted one can get
  the *second* of its two permission finalizers alone; a crash then leaves a ClusterRole behind its
  deletion (`FirstOfName`);
* a role taken off `spec.server.cheClusterRoles` before the deletion keeps its finalizer, and the CR
  stays (`RoleForgotten`); if its binding was being made at that moment, the binding stays instead
  (`OnlyDeleted`);
* a foreign label on a ConfigMap ends every pass there (`Labelled`, `configmap.go:25`);
* a provisioning script that was cut short is not repeated, because it takes the database's user for
  a sign that all is there (`identity-provider/exec.go:26`, `Provisioned`);
* the loops around the status writes that undo OAuth (`che_controller.go:681`, `:690`) reload the CR
  into a variable that the next attempt does not use: after one conflict the only worker never
  returns (`Spinning`);
* if login with OpenShift is switched off before Keycloak was provisioned, its finalizer is nobody's
  any more, and a deleted CR stays (`che_controller.go:837`);
* the finalizer of an *enabled* image puller stays on a deleted CR, which stays with it;
* the revisions noted on the CA bundle are read only up to the first name with a dash, and the
  certificates of a removed ConfigMap that is noted beyond it may stay trusted (`tls.go:534`,
  `Unread`); the trust store's default name has one, so a trust store that is taken off the CR is
  not taken out of the bundle by that alone;
* `tls.go:310`: the CA of a *new* pair is deleted if the certificate was read as absent a moment
  before (the pods of a collected Job are fast, the informer slow). The certificate stays, and is
  from then on taken for a commonly trusted one, so nothing is generated again (`Loses`);
* an operator that has written an object of the Dev Workspace operator cannot write it again until
  it restarts: `Sync` fails for want of the kind, or `Create` is refused for a resourceVersion, and
  every pass ends there (`Stuck`, `dev_workspace.go:476-496`);
* switching the gateway off leaves its role, binding and service account, because `deleteAll`
  returns at the first success (`gateway.go:135`, inverted `err == nil`);
* a cache that is always behind makes the operator exchange two host names for ever (`HostSettles`);
* with default-host on Kubernetes a name that the user gives while the cached Ingress has none is
  overwritten with nothing; without a name the URLs that are advertised have no host (`Nameless`);
* `status.dbProvisioned` survives the database that single-user mode throws away, and Keycloak does
  not come up again; a Secret that is replaced on behalf of a stale CR is lost for ever if the
  operator restarts between delete and create; a failed question about SSL is taken for a no, and a
  status write that fails other than by a conflict is dropped (`missed`); if pods start faster than
  caches follow, a Secret is replaced after the database has learnt the old password (`Followed`);
* a property that the user sets between the move of the legacy setting and the moment when the
  caches have seen that its ConfigMap is gone may be moved over; the single-user server may run on a
  volume that is about to go;
* the provider for GitHub stays after its Secret, or does not come, if the Secret changes between
  the script and a status write that conflicts, and stays if the delete script met a Keycloak that
  was not up (`slipped`).

Seen in the source, with no property about them: the server's status stays
`Available` while its Deployment is not (`server/server.go:94`); the options that
would compare the annotations of Keycloak's Deployment are passed to nothing
(`deployment_keycloak.go:42`), so changed certificates do not restart it; in
single-user mode the BitBucket Secret's volume is dropped while its variable stays
(`server_deployment.go:292`); a Secret for GitHub that replaces another is not
noticed while the provider exists.

### Bounds

`MCFinalizers.cfg` has two groups (the two orders differ only from two on), one optional role, two
lives of the CR (so that a copy of the first life can meet the second), two user operations, one
write of the pipeline and one fault. `MCRollout` has five objects: a Deployment at either end of a
dependency, an object replaced by delete and create, a ConfigMap that a Deployment is pinned to, and
an object outside the watches, with one user operation (an edit of the CR, or an object tampered
with) and one fault in any step of any pass. `OAuth` has six user operations, enough for off, on and
off again during each pass, with two failed calls and a restart; `MaxSecrets` = 3 names are never
exhausted, because a CR, a cached CR and a client or provider use at most two. `ImagePuller` has two
user operations (on and off, or off and deleted, in any step of a pass) and one failed call or
restart. `MCCABundle` has four changes: two sources noted, one removed and one touched while the
list, the comparison and the write of a pass are under way. Each of the four names is one kind: two
plain ones, one that is misread, and a trust store whose name ends the reading. `TLSSecrets` has
three pairs, with one deleted or emptied secret and one fault; a number is given again when neither
the server, a cache, the worker's memory nor a running pod has it. A fourth pair may then have to
wait for an informer to catch up, which delays its pod and forbids no order of the three; the proofs
have no such bound.

`Provisioning` has one switch of the mode and one mishap (a failed call, a restart or a lost pod),
in any step; eight passwords are more than two Secrets, the database, the pod and the caches hold at
a time. `Server` has two events of the user or of the environment: two settings that meet, or one
that meets a failure; two BitBucket Secrets, because two are an error. `MCExposure` begins with each
strategy on each platform, on Kubernetes also with a host name of the user's (on OpenShift a name
comes with an edit), and has one change by the user and one mishap: one switch of the strategy or of
the host, against passes of the old one that are under way; the dashboard shares the server's host,
the registry does not. `GitHubLogin` has three Secrets, one of each kind, and three changes: one
comes, another comes too, or goes and comes again, with one mishap. `MCDevWorkspace` has two
operators, two versions, and one item of each kind the code treats differently (a namespace, a file,
the CheManager's CRD, the CheManager).

### Fairness

`WF(Worker)`: the only worker takes the next step if the request is queued or a pass is under way.
`WF(CacheSync)`: a watch delivers in the end (informers re-list after a broken watch). `WF(Resync)`,
in `Finalizers`: the informer's resync, in `ImagePuller` too, where most objects are not watched;
there `WF(OLMInstalls)` assumes that OLM works and `WF(SyncCR)`, `WF(SyncPuller)` are the two
watches. `WF(DeploymentController)`: Kubernetes starts the pods of a Deployment. Nothing is assumed
of the user or of faults, which are bounded. Strong fairness is assumed once, of `PostgresStarts`:
its guard includes that the caches have caught up (`Followed`), which they do again and again.

`BundleSettles` needs only the worker and one watch, which it shows to be enough:
no resync is assumed. `UninstallCompletes` needs the resync,
and so does `TLSSettles`: after a failed Job or a failed role the pass goes on with what there is and
asks for no other. It also assumes the Job controller (`WF(StartPod)`,
`WF(CollectJob)`) and that a pod runs to its end (`WF(Pod(r))`).

`ToggleTakesEffect` exempts behaviours with a fault (an error of the undo is
dropped in `che_controller.go:672` and nothing repeats it) and a worker that
spins (see above). When OAuth is off it asks for the flag and Keycloak only: an
OAuthClient created in a pass that did not reach Keycloak is left.

`Provisioning`, `Server` and `GitHubLogin` add the Deployment controller, the kubelet and the
protection of PVCs (`WF` of each of their steps), and no resync. `Exposure` needs the worker and the
watches only; `DevWorkspace` the workers only, which read everything from the API server there, and
which the resync brings back if nothing else does.

## 4. Proofs

Each module of proofs has its inductive invariants, the lemmas about the model's
operators that its steps need, one lemma per kind of step, and the theorems last.
Three of them are about two components each: they extend one, and speak of the
other through an instance (`S == INSTANCE Server`, `G == INSTANCE GitHubLogin`,
`X == INSTANCE Exposure`) whose theorems are about its specification alone. The
assumptions of an instantiated module cannot be cited, so theorems about `G` and `X`
have what they need of the constants as a hypothesis.

`FinalizersProofs` proves, for every set of groups and roles, every order of
the two loops in which the group made first is removed last, and every bound:

* `TypeCorrect == Spec => []TypeOK`;
* `FinalizersHold == GetMayFail = FALSE /\ Spec => HeldUntilGone`;
* `GoneIsClean == GetMayFail = FALSE /\ Spec => GoneMeansClean`.

The assumption of the second and third is the one the run finalizers_read_error shows to
be necessary; only the third needs the order. `HeldUntilGone` is an action property: a step that takes the last
copy of a finalizer off the CR finds none of its objects. It is not enough to
look at the worker's program counter, because an update stores the *whole*
copy: any write can take off a finalizer that its copy lacks. Hence the inductive
invariant `HeldInv`:

* `Revisions`: revisions in the cache and in `mem` are at most the server's counter;
* `CopiesAgree`: a cached copy with the revision of the CR equals it;
* `NoneToDrop`, `CleanedInCopy`: if `mem` has the latest revision and lacks a
  finalizer that the CR has, the CR is being deleted and the objects of the group
  are gone (so the write that will follow is allowed);
* `CleanedInLoop`: between the deletion of an object and the drop of the
  finalizer, the object stays gone.

The proof has one lemma per kind of step (`UserSafe`, `DropSafe`, `WriteSafe`,
`AppendSafe`, `SyncSafe`, ...), which `NextSafe` puts together, and `StepHolds` derives the
action property from the invariant. `ListTypes`, `HeadTail` and the `Enter*`/`Next*`
lemmas are facts about the lists the loops walk along.

`GoneMeansClean` says more than that each group is cleaned before *its* finalizer goes: a group may have
objects whose finalizer never reached the CR. What covers them is the finalizer of
the group that is made first (`First`), and only while the copies of the CR are of
one life. The invariant `CleanInv` has three parts. `Unborn`: before the first
CR there is nothing. `LoopInv`: the groups that the cleanup loop has left behind are gone, and `First` is
the last it comes to. `FirstLife`, for the first CR of the name: a deletion spreads from the CR to
the cache and from there to the worker, never back; no copy that could be written has a
finalizer without that of `First`; and when a copy or the CR is deleted and lacks that one,
every group is gone and no pass that creates can still be under way.
The third part fails for a second CR of the name (see the first exemption above), which is why the property is
about the first.

`RolloutProofs` proves, for every sequence of stages and every bound:

* `TypeCorrect == Spec => []TypeOK`, in four parts with one lemma per kind of step;
* `StagesStayInOrder == Spec => []StagesInOrder`;
* `AnnotationsSurvive == Spec => AnnotationsKept`;
* `ProvisionedOnceReady == Spec => []ProvisionedMeansReady`;
* `PassesImplementPipeline == Spec => ImplementsPipeline`, the refinement;
* `RestsOnlyWhenHalted == Spec => []RolloutAtRest` (see *No wake-up is lost*, below).

`RolloutAssumption` says what they need of the stages: an object has one stage
that creates it, and the database is provisioned before the server is created.
Both are facts of the order of calls in `Reconcile`; TLC evaluates them for `MCStages`.
The theorem about rest (below) needs `WatchAssumption` too: what is cluster-scoped is only
created or compared, never waited for.

`StagesInOrder` is inductive only with `Bounded` (neither the server nor a cache
shows a generation that an object was not given), `Prefix` (when a pass is at a
stage, all earlier objects have been given the generation it works on) and
`Position`. A stage is passed without a write only if the *seen* object has that generation, which
is where `Bounded` is used for the cache. `AnnotationsKept` rests on `Current` (the cached state
of an object without pending events is the state in the API server), which turns the
merge with the cached object into a merge with the actual one, and on `Bare`.
For `ProvisionedMeansReady`, `ReadyInv` lists everything that claims a ready
database: the three copies of the status flag, the worker about to write it,
a pass beyond the stage, and a server that was created. The refinement
needs `Copies` besides (no copy of the CR is of a generation that never was, and
a fresh one equals the CR): a step that gives an object a generation is then a
`Give`, and every other step is `Ask`, `Provision`, `Record` or invisible.

`ConfigMapProofs` proves, for every set of ConfigMaps and every bound:

* `TypeCorrect == Spec => []TypeOK`;
* `RevisionsVouch == Spec => []UpToDateMeansMerged`;
* `AtRestMeansMerged == Spec => []AtRest` (see *No wake-up is lost*, below).

`UpToDateMeansMerged` speaks of a bundle in the cache and a list read at another time; both may be
stale. What makes it true is `Faithful`: every bundle, in the server or a cache, holds what the
revisions *noted on it* held (`MergedFrom`), and no source shows a revision that was not given yet
(`Given`). The second part is what keeps the first when a revision is added (`FaithfulKept`): a new
revision is noted nowhere. Of the names nothing is assumed. A note that is read back whole gives the
revisions it was written from; one that is not gives a part of them, and then what the bundle holds
beyond the listed sources comes from names noted where the reading has ended (`Unread`). That a part
which equals the revisions listed covers *all* listed sources is what makes the bundle complete; a
false entry, read from a `Misread` name, is never equal to one of those, since it has a revision
that no source has.

And about `Server`, for every set of settings and Secrets:

* `ServerTypeCorrect == S!Spec => []S!TypeOK`;
* `SettingIsKept == S!Spec => S!SettingKept`;
* `AtRestServerIsRight == ASSUME NothingApart PROVE S!Spec => []ServerAtRest` (see *No wake-up is lost*, below).

`SettingKept` is about the move of a legacy setting, which is not atomic: the CR is written in one
call, the ConfigMap deleted in another, and a repeated move overwrites what the user has set in
between. The property says what the code gives, with the user editing at any moment: the ConfigMap
goes only when the pass that deletes it has its setting in a copy of the CR that was stored, and the
operator changes a setting only to the legacy one, and not after the caches have seen the deletion.
`LegacyInv` says that a legacy ConfigMap is seen as it is or is gone, that it is seen as it is when
no event of a ConfigMap is to come, and that the worker is about to delete one only when its copy of
the CR has the setting; `ServerCopies`, that a copy of the latest revision *is* the CR, so that an
older one cannot be written.

`EndpointProofs` proves, for any number of pods, user operations and faults:

* `TypeCorrect == Spec => []TypeOK`;
* `PairsStayMatched == Spec => []PairsMatch`.

The invariant `Matching` adds to `PairsMatch` what the two writers rely on: every secret
that exists, is cached or is held has its data (so the worker, which deletes only
an invalid pair or the CA of a missing certificate, never deletes one half), and a
pod that has written one of its two secrets wrote the certificate that is
there. A pod then adds a CA to its own certificate or finds one and fails. It
is conditional on `Untouched`, which `StaysTouched` carries from a step's end to its start.

And about `Exposure`, for any sequence of components and any bounds (`ExposureConstants`):

* `ExposureTypeCorrect == ASSUME ExposureConstants PROVE X!Spec => []X!TypeOK`, which includes that
  on OpenShift no host is published before the default one is known;
* `StrategyIsTheUsers == ASSUME ExposureConstants PROVE X!Spec => [][AsAsked]_X!vars`: only the user
  changes the strategy, although every pass writes its whole copy of the CR back, and on OpenShift a
  CR never loses its host name (on Kubernetes with default-host it may, see above).

The calls of a pass are concatenated by a recursive function over the components. That
this definition is one, and of what calls the result consists (`CallsOfComponents`,
`ComponentsCallsTypes`), is proved by induction, as the absence of a least counterexample
(`LeastNumber`). The invariant `ExposureInv` says what may be left of a pass (`Guarded`: a host is
published only after the default has been found), that on OpenShift every Route in the server and
the caches has a host (`Hosted`), so that what is published is one, and that a copy of the latest
revision is the CR; `HalfInv`, that between delete and create of a Route the pass
is still at that call.

`LoginProofs` proves, for every bound:

* `TypeCorrect == Spec => []TypeOK`;
* `NoClientIsLost == Spec => []NoOrphanClient`;
* `SecretsAgree == Spec => []CredentialsAgree`;
* `AtRestInStep == Spec => []OAuthAtRest` (see *No wake-up is lost*, below).

The second and the third are proved together, from `KeysInv`: while there is a CR, every name and every
secret anywhere (cached CR, worker's copy, OAuthClients, Keycloak) is the one the CR stores
(`AllStored`), and at most one secret is about even when the CR is gone (`OneSecret`).
That a *generated* value keeps this true needs that the write which stores it is refused
to an old copy: `FreshCopy` (a copy of the latest revision has the CR's keys) and
`UpToDate` (so has the cached CR once its event came). `InHand` says that no call that uses a name or
a secret is reached without one, `Whole` the same of Keycloak's provider.

And about `GitHubLogin`, for every set of Secrets and any number of changes and mishaps:

* `GitHubTypeCorrect == ASSUME MaxMishaps \in Nat PROVE G!Spec => []G!TypeOK`;
* `UnrecordedScriptIsDue == ASSUME MaxMishaps \in Nat PROVE G!Spec => []ScriptIsDue`;
* `AtRestGitHubIsRight == ASSUME MaxMishaps \in Nat PROVE G!Spec => []GitHubAtRest` (see *No wake-up
  is lost*, below).

The script in Keycloak and its record in the status are two steps. `ScriptIsDue` says of the
time between them, a lost record included, that what the script did is what the Secrets call for,
so that the pass which runs it again and records it repairs the loss; `slipped` names the exceptions.

`ProvisioningProofs` proves, for every bound and every finite set of more than seven passwords:

* `TypeCorrect == Spec => []TypeOK`, which includes that a new password always exists and no empty
  one is stored;
* `PasswordsDoAgree == Spec => []PasswordsAgree`;
* `PasswordIsKept == Spec => PasswordKept`.

The last one is an action property, and what could break it is a pass that began
before a Secret was named and replaces it later. `ProvisioningInv` says when such a pass is
still possible: as soon as the database has run or is about to (`Begun`),
the cached CR and the copy of the pass under way name both Secrets (`Settled`). Three
facts make it inductive. A copy names only what the CR names (`Copies`), because
names are never removed; a pass comes to the database only when its copy names both
Secrets (`OrderAt`); and the database starts only when the caches have followed, which is
the modelled guard `Followed`: without it the property is false.

`PasswordsAgree` compares three places that the code never compares: a password goes from a Secret
to a cache, from there to a script in the database and into the environment of Keycloak's pod.
`AgreeInv` adds what makes each copy a right one: caches without a pending event show the Secrets as
they are (`Current`), and they do from the moment the database has begun (`Seen`), since from then
on, by the invariant of `PasswordIsKept`, no pass writes a Secret any more; and Keycloak is deployed
only for a CR that records a provisioned database, which it does for good (`Lasting`).

`ImagePullerProofs` proves, for every number of channels and every bound:

* `TypeCorrect == Spec => []TypeOK`, which includes that a pass that installs has read a channel;
* `FinalizerIsLast == Spec => FinalizerGuards`.

The invariant `PullerInv` keeps between the calls what the uninstalling pass has achieved: from the deletion
of the OperatorGroup on there is no Subscription, and after it no OperatorGroup of ours
(`Removed`), since the only one who makes them is the worker itself. `CopiesOK` (a fresh copy
*is* the CR) shows of every other write of the CR that it keeps the finalizer.

`DevWorkspaceProofs` proves, for any set of CheClusters, any list of items, any number of versions
and every bound:

* `TypeCorrect == Spec => []TypeOK`;
* `NobodyFights == Spec => []NoFight`.

`NoFight` is about several operators, so its invariant relates them. `Peace` says, as long as nobody
touches the CheClusters (`Untouched`): an operator poised to write an object of its own
has another version of it (`OwnReplaced`); while the owner of an object in an old version is
enabled, nobody else is poised to write it (`NoRival`); and who lost an object knows of another
enabled operator and is not poised to write it (`Resigned`). It does not depend on when a list of
CheClusters was read: `Running` says that every pass under way is of an enabled one, and that stays so.

### No wake-up is lost

A pass that ends without an error and without asking for the next one relies on an event to
come. What a liveness property needs besides fairness is that this never goes wrong, and that is
a safety property: *no pass runs, no request is queued and the caches have nothing
to catch up with, only if* there is nothing for the operator to do. It is proved of five
components, each the core of a liveness property that TLC checks:

| theorem | at rest ... | core of |
|---|---|---|
| `RestsOnlyWhenHalted` | every stage has what it wants of the CR and the objects as they are, or the first that has not waits for a pod, for an object others make, or for a label to be removed | `RolloutCompletes` |
| `AtRestMeansMerged` | the bundle holds the certificates of the sources as they are, and others only from beyond the readable part of its note | `BundleSettles` |
| `AtRestServerIsRight` | the legacy setting has moved, ConfigMap, Deployment and volume are what the CR and the Secrets ask for | `ServerFollows` |
| `AtRestInStep` | OAuth is as the CR says in the cluster, in Keycloak and in the status, if no call failed and the operator was not restarted | `ToggleTakesEffect` |
| `AtRestGitHubIsRight` | Keycloak's Deployment names the Secrets' credentials; once it is available, the status follows the Secrets and Keycloak the status, unless something slipped | `GitHubFollows` |

The invariant has one form in all five: *as long as no event is due and nothing is queued*, the
pass works on the latest CR, the cache shows the objects as they are, and what the pass has left
behind is done (`RestKnows`, `ListedIsCached`, `ServerKnows`, `OAuthKnows`, `GitHubKnows`). A step
of the user or of a controller makes an event due, so nothing is left to show for it; a
write of the operator does so too, unless it changes nothing (then its object was right)
or is of an object without a watch. The last is where the proof is not routine: for `Rollout` it needs that a
cluster-scoped object has no stage behind the one that creates it (`DoneStays`), and that
only such objects are deleted without an event, so that a pass halfway through a
replacement goes on by itself (`WriterRests`). For `OAuth` it needs `Recorded`, which holds of
every pass, quiet or not: Keycloak and the status differ only while a pass is on its way to
change the one that lags. A user who toggles in the middle of a pass therefore leaves nothing
behind that the next pass would not see; a failure or a restart there may, which is
why the theorem, like the property, excludes them.

Assumptions: `NothingApart`, that
the value which stands for "no object" is none of an object's; `WatchAssumption`.
The five are checked by the proof system only: TLC evaluated them while they were
being stated, but a run that checks them would repeat what the liveness properties
of the runs imply.

### What is not proved

Model-checked only is what needs fairness, because the proof system has no ENABLED here
(`DeletionCompletes`, `DeletionCleansUp`, `RolloutCompletes`, `ToggleTakesEffect`,
`InstallCompletes`, `UninstallCompletes`, `BundleSettles`, `TLSSettles`, `KeycloakComesUp`,
`SingleUserCleansUp`, `ServerFollows`, `AddressesAnswer`, `NoSecondWay`, `GitHubFollows`,
`Converges`). Every invariant and every safety property of the passing runs is a theorem.

## 5. Not modelled

The contents of Deployments, ConfigMaps and Routes beyond what the modules tell apart,
wording of status and logs, metrics and flags, and the parts marked
`not_modelled` in `PROJECT.json`: `InitialUser` (a user of the cluster made in several
calls) is the only one of them with control of its own that is not covered elsewhere; the
others are pure functions, unused code, or stages as in `Rollout`.
`deployment_che.go` is not called by anything. Except in `DevWorkspace` one CheCluster
per cluster is modelled; the console link, which instances share, is a stage of `Rollout` only.

## 6. Plan

In order of weight:

1. Proofs: the safety properties of all modules are proved, and of five components that no wake-up
is lost. The same can be stated and proved of `Exposure`, `TLSSecrets` and `ImagePuller`. 2.
`InitialUser`: a user of the cluster created step by step, with an undo. 3. The rest of the TLS
part: the endpoint that OpenShift's certificate is read from, and an abstract "bundle follows
sources" specification that `CABundle` implements. 4. Conversion of the API types as a pure
function; two CheClusters that share the console link.
