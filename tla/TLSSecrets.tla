----------------------------- MODULE TLSSecrets -----------------------------
(***************************************************************************)
(* The TLS secrets on Kubernetes (deploy/tls.go, K8sHandleCheTLSSecrets): a *)
(* certificate and the CA that signed it, each in a secret, are made        *)
(* together by a Job.  Its pods may only create secrets (deploy/role.go);   *)
(* the operator waits for the Job, removes it, and checks the secrets in    *)
(* every pass.  It reads secrets and Jobs from two informers, deletes by    *)
(* name, and nothing wakes it when the Job is done.                        *)
(***************************************************************************)
EXTENDS Naturals, FiniteSets

CONSTANTS
  MaxRuns,      \* bound on the pairs of certificates that exist at a time
  MaxUserOps,   \* bound on secrets that a user deletes or empties
  MaxFaults     \* bound on pods that die, failed calls and restarts

ASSUME TLSSecretsAssumption ==
  MaxRuns \in Nat \ {0} /\ MaxUserOps \in Nat /\ MaxFaults \in Nat

VARIABLES
  secrets, job,      \* in the API server
  pods,              \* how many secrets the pods that run have written
  roles,             \* of the pods: absent, created, or seen by the informers too
  cache, cachedJob,  \* what the informers have of secrets and job
  pc, mem,           \* the call the worker makes next; the secrets it holds
  queued,            \* is a request in the work queue or to be added?
  userOps, faults,   \* what is left of the bounds
  lost               \* did a certificate lose its CA? (history, see Loses)

vars == <<secrets, job, pods, roles, cache, cachedJob, pc, mem, queued, userOps, faults,
          lost>>
worker == <<pc, mem, queued>>
bounds == <<userOps, faults, lost>>

(* A secret is the pair it belongs to, 0 if there is none; are its data     *)
(* there, and is the CR its owner?                                         *)
Kinds == {"tls", "ca"}
Runs == 1..MaxRuns
None == [run |-> 0, valid |-> FALSE, owned |-> FALSE]
Secret == {None} \cup [run: Runs, valid: BOOLEAN, owned: BOOLEAN]
Exists(s) == s # None

(* A Job has its pod, 0 between two, and an outcome; status.failed counts   *)
(* pods and may not be 0 although another pod is still to come.            *)
NoJob == [phase |-> "absent", failed |-> FALSE, pod |-> 0]
Job == [phase: {"absent", "active", "succeeded", "failed"}, failed: BOOLEAN, pod: 0..MaxRuns]
NewJob == [NoJob EXCEPT !.phase = "active"]
Status(j) == [j EXCEPT !.pod = 0]
NotRunning == 3

PCs == {"idle", "findCA", "deleteCA", "permissions", "syncJob", "awaitJob", "cleanup",
        "podsOfDone", "jobOfDone", "podsOfFailed", "jobOfFailed",
        "checkTLS", "readCA", "checkCA", "deleteTLS"}

Init ==
  /\ secrets = [k \in Kinds |-> None] /\ cache = secrets
  /\ job = NoJob /\ cachedJob = job
  /\ pods = [r \in Runs |-> NotRunning] /\ roles = "absent"
  /\ pc = "idle" /\ mem = secrets /\ queued = TRUE
  /\ userOps = MaxUserOps /\ faults = MaxFaults /\ lost = FALSE

-----------------------------------------------------------------------------
(* The Job controller, the pods and the user.                              *)

Cached == UNCHANGED <<roles, cache, cachedJob>>

Fault == faults > 0 /\ faults' = faults - 1 /\ UNCHANGED userOps

(* A CA is lost when it is deleted alone, or when what would make it, or    *)
(* delete its certificate too, does not go on.                             *)
Loses(what) == lost' = (lost \/ what)
HalfDone(rs) == \E r \in rs : pods[r] = 1

Used == {s[k].run : s \in {secrets, cache, mem}, k \in Kinds}

StartPod ==
  /\ job.phase = "active" /\ job.pod = 0
  /\ \E r \in Runs :
       /\ r \notin Used /\ pods[r] = NotRunning
       /\ \A q \in 1..(r - 1) : q \in Used \/ pods[q] # NotRunning
       /\ pods' = [pods EXCEPT ![r] = 0]
       /\ job' = [job EXCEPT !.pod = r]
  /\ Cached /\ UNCHANGED <<secrets, worker, bounds>>

(* A pod that fails is replaced until the back-off limit is reached.        *)
PodFails(r) ==
  /\ pods' = [pods EXCEPT ![r] = NotRunning]
  /\ IF job.pod = r
     THEN /\ \E p \in {"active", "failed"} : job' = [phase |-> p, failed |-> TRUE, pod |-> 0]
             ELSE UNCHANGED job

(* A pod that has written both and is not the Job's has nothing left to do. *)
Rest(ps, p) == [r \in Runs |-> IF r # p /\ ps[r] = 2 THEN NotRunning ELSE ps[r]]

(* Mutant: pods may also replace secrets.                                  *)
PodReplaces(r) ==
  LET k == IF pods[r] = 0 THEN "tls" ELSE "ca" IN
  /\ pods[r] \in {0, 1}
  /\ secrets' = [secrets EXCEPT ![k] = [run |-> r, valid |-> TRUE, owned |-> FALSE]]
  /\ pods' = [pods EXCEPT ![r] = @ + 1]
  /\ Cached /\ UNCHANGED <<job, worker, bounds>>

(* Secrets are created, the certificate first; one that exists already is   *)
(* an error.                                                               *)
PodWrites(r) ==
  LET k == IF pods[r] = 0 THEN "tls" ELSE "ca" IN
  /\ pods[r] \in {0, 1}
  /\ \/ /\ Exists(secrets[k]) /\ PodFails(r) /\ UNCHANGED secrets
     \/ /\ ~Exists(secrets[k])
        /\ secrets' = [secrets EXCEPT ![k] = [run |-> r, valid |-> TRUE, owned |-> FALSE]]
        /\ pods' = Rest([pods EXCEPT ![r] = @ + 1], job.pod)
        /\ UNCHANGED job
  /\ Cached /\ UNCHANGED <<worker, bounds>>

PodEnds(r) ==
  /\ pods[r] = 2 /\ pods' = [pods EXCEPT ![r] = NotRunning]
  /\ IF job.pod = r
     THEN /\ job' = [NoJob EXCEPT !.phase = "succeeded"]
             ELSE UNCHANGED job
  /\ Cached /\ UNCHANGED <<secrets, worker, bounds>>

PodDies(r) ==
  /\ pods[r] # NotRunning /\ Fault /\ PodFails(r) /\ Loses(HalfDone({r}))
  /\ Cached /\ UNCHANGED <<secrets, worker>>

(* ttlSecondsAfterFinished.                                                *)
CollectJob ==
  /\ job.phase \in {"succeeded", "failed"} /\ job' = NoJob
  /\ Cached /\ UNCHANGED <<secrets, pods, worker, bounds>>

User ==
  /\ userOps > 0 /\ userOps' = userOps - 1
  /\ \E k \in Kinds :
       /\ Exists(secrets[k])
       /\ \E s \in {None, [secrets[k] EXCEPT !.valid = FALSE]} :
            secrets' = [secrets EXCEPT ![k] = s] /\ Loses(k = "ca" /\ s = None)
  /\ Cached /\ UNCHANGED <<job, pods, worker, faults>>

(* Secrets are watched by owner, Jobs are not watched at all.              *)
SyncSecrets ==
  /\ cache # secrets
  /\ cache' = secrets
  /\ queued' = (queued \/ \E k \in Kinds :
                  secrets[k] # cache[k] /\ (secrets[k].owned \/ cache[k].owned))
  /\ UNCHANGED <<secrets, job, pods, roles, cachedJob, pc, mem, bounds>>

SyncJobs ==
  /\ cachedJob # Status(job) /\ cachedJob' = Status(job)
  /\ UNCHANGED <<secrets, job, pods, roles, cache, worker, bounds>>

SyncRoles ==
  /\ roles = "created" /\ roles' = "seen" /\ queued' = TRUE
  /\ UNCHANGED <<secrets, job, pods, cache, cachedJob, pc, mem, bounds>>

Resync ==
  /\ ~queued /\ queued' = TRUE /\ Cached
  /\ UNCHANGED <<secrets, job, pods, pc, mem, bounds>>

-----------------------------------------------------------------------------
(* K8sHandleCheTLSSecrets.                                                 *)

ReadOnly == UNCHANGED <<secrets, job, pods>> /\ Cached

NoSecrets == [k \in Kinds |-> None]
Goto(p) == pc' = p /\ UNCHANGED <<mem, queued>>
Leave   == pc' = "idle" /\ mem' = NoSecrets
Again   == Leave /\ queued' = TRUE      \* RequeueAfter or an error
GoOn    == Leave /\ UNCHANGED queued    \* the rest of Reconcile

GetTLS ==
  /\ pc = "idle" /\ queued /\ queued' = FALSE
  /\ mem' = [mem EXCEPT !["tls"] = cache["tls"]]
  /\ pc' = IF Exists(cache["tls"]) THEN "cleanup" ELSE "findCA"
  /\ ReadOnly /\ UNCHANGED bounds

(* The CA of a certificate that is gone is removed.                        *)
FindCA ==
  /\ pc = "findCA"
  /\ Goto(IF Exists(cache["ca"]) THEN "deleteCA" ELSE "permissions")
  /\ ReadOnly /\ UNCHANGED bounds

(* A delete goes by name; of what is not there it is an error.             *)
DeleteSecret(k) == secrets' = [secrets EXCEPT ![k] = None]

DeleteCA ==
  /\ pc = "deleteCA"
  /\ IF Exists(secrets["ca"]) THEN DeleteSecret("ca") /\ Goto("permissions")
     ELSE Again /\ UNCHANGED secrets
  /\ Loses(Exists(secrets["ca"]) /\ Exists(secrets["tls"]))
  /\ Cached /\ UNCHANGED <<job, pods, userOps, faults>>

(* Service account, role and binding of the pods, taken together.  What     *)
(* exists but is not in the cache yet is not done: for the account the      *)
(* result asks for another pass, for the role and the binding for nothing,  *)
(* and the caller goes on, as it does when they fail.                      *)
SyncPermissions ==
  /\ pc = "permissions"
  /\ \/ roles = "absent" /\ roles' = "created" /\ Goto("syncJob") /\ UNCHANGED bounds
     \/ roles = "created" /\ (Again \/ GoOn) /\ UNCHANGED <<roles, bounds>>
     \/ roles = "seen" /\ Goto("syncJob") /\ UNCHANGED <<roles, bounds>>
     \/ GoOn /\ Fault /\ UNCHANGED <<roles, lost>>
  /\ UNCHANGED <<secrets, job, pods, cache, cachedJob>>

SyncJob ==
  /\ pc = "syncJob"
  /\ IF cachedJob.phase # "absent" THEN Goto("awaitJob") /\ UNCHANGED job
     ELSE IF job.phase # "absent" THEN Again /\ UNCHANGED job
     ELSE job' = NewJob /\ Goto("awaitJob")
  /\ Cached /\ UNCHANGED <<secrets, pods, bounds>>

AwaitJob ==
  /\ pc = "awaitJob"
  /\ IF cachedJob.phase = "succeeded" THEN Goto("cleanup") ELSE Again
  /\ ReadOnly /\ UNCHANGED bounds

(* A certificate is used only when its Job is gone.                        *)
CleanupJob ==
  /\ pc = "cleanup"
  /\ \/ Goto("checkTLS") /\ cachedJob.phase = "absent"
     \/ Goto("podsOfDone") /\ cachedJob.phase = "succeeded"
     \/ Goto("podsOfFailed") /\ cachedJob.phase \in {"active", "failed"} /\ cachedJob.failed
     \/ Again /\ cachedJob.phase = "active" /\ ~cachedJob.failed
  /\ ReadOnly /\ UNCHANGED bounds

(* deleteJob: the pods first, since they do not go with the Job.  Errors    *)
(* are not looked at, a pod may be missing in the cache, and one that is    *)
(* deleted may run on for its grace period, although no longer for the Job. *)
DeletePods ==
  /\ pc \in {"podsOfDone", "podsOfFailed"}
  /\ \E gone \in SUBSET Runs, p \in {0, job.pod} :
       /\ pods' = Rest([r \in Runs |-> IF r \in gone THEN NotRunning ELSE pods[r]], p)
       /\ job' = [job EXCEPT !.pod = p]
       /\ p \notin gone /\ Loses(HalfDone(gone))
  /\ Goto(IF pc = "podsOfDone" THEN "jobOfDone" ELSE "jobOfFailed")
  /\ Cached /\ UNCHANGED <<secrets, userOps, faults>>

(* Of a Job that failed the caller goes on with what is there.              *)
DeleteJob ==
  /\ \/ job' = NoJob /\ UNCHANGED bounds
     \/ UNCHANGED <<job, lost>> /\ Fault
  /\ \/ pc = "jobOfDone" /\ Again
     \/ pc = "jobOfFailed" /\ GoOn
  /\ Cached /\ UNCHANGED <<secrets, pods>>

(* The copy of the secret is from the start of the pass; without a copy the *)
(* delete is an error.  An update must be of the latest revision.           *)
RemoveInvalid ==
  IF Exists(secrets["tls"]) /\ Exists(mem["tls"])
  THEN DeleteSecret("tls") ELSE UNCHANGED secrets

(* Mutant: an update is not compared with what is there.                   *)
SetOwnerAnyway(k) == secrets' = [secrets EXCEPT ![k].owned = TRUE]

SetOwner(k) ==
  /\ secrets[k] = mem[k]
  /\ secrets' = [secrets EXCEPT ![k].owned = TRUE]

(* Mutant: an invalid certificate is kept.                                 *)
CheckOwnerOnly ==
  /\ pc = "checkTLS"
  /\ IF mem["tls"].owned THEN Goto("readCA") /\ UNCHANGED secrets
     ELSE \/ SetOwner("tls") /\ Goto("readCA")
          \/ secrets["tls"] # mem["tls"] /\ Again /\ UNCHANGED secrets
  /\ Cached /\ UNCHANGED <<job, pods, bounds>>

CheckTLS ==
  /\ pc = "checkTLS"
  /\ \/ ~mem["tls"].valid /\ RemoveInvalid /\ Again
     \/ mem["tls"].valid /\ mem["tls"].owned /\ Goto("readCA") /\ UNCHANGED secrets
     \/ mem["tls"].valid /\ ~mem["tls"].owned
        /\ \/ SetOwner("tls") /\ Goto("readCA")
           \/ secrets["tls"] # mem["tls"] /\ Again /\ UNCHANGED secrets
  /\ Cached /\ UNCHANGED <<job, pods, bounds>>

(* Without a CA the certificate is taken for a commonly trusted one.        *)
ReadCA ==
  /\ pc = "readCA"
  /\ IF Exists(cache["ca"])
     THEN mem' = [mem EXCEPT !["ca"] = cache["ca"]] /\ pc' = "checkCA" /\ UNCHANGED queued
     ELSE GoOn
  /\ ReadOnly /\ UNCHANGED bounds

CheckCA ==
  /\ pc = "checkCA"
  /\ \/ mem["ca"].valid /\ mem["ca"].owned /\ GoOn /\ UNCHANGED secrets
     \/ mem["ca"].valid /\ ~mem["ca"].owned
        /\ \/ SetOwner("ca") /\ GoOn
           \/ secrets["ca"] # mem["ca"] /\ Again /\ UNCHANGED secrets
     \/ ~mem["ca"].valid
        /\ IF Exists(secrets["ca"]) THEN DeleteSecret("ca") /\ Goto("deleteTLS")
           ELSE Again /\ UNCHANGED secrets
  /\ Cached /\ UNCHANGED <<job, pods, bounds>>

(* The certificate goes with its CA.                                       *)
DeleteTLS ==
  /\ pc = "deleteTLS"
  /\ Again
  /\ IF Exists(secrets["tls"]) THEN DeleteSecret("tls") ELSE UNCHANGED secrets
  /\ Cached /\ UNCHANGED <<job, pods, bounds>>

CallFails ==
  /\ pc \notin {"idle", "podsOfDone", "podsOfFailed", "jobOfDone", "jobOfFailed"}
  /\ Fault /\ Again /\ Loses(pc = "deleteTLS") /\ ReadOnly

Restart ==
  /\ Fault /\ Again /\ Loses(pc = "deleteTLS")
  /\ cache' = secrets /\ cachedJob' = Status(job)
  /\ roles' = IF roles = "absent" THEN "absent" ELSE "seen"
  /\ UNCHANGED <<secrets, job, pods>>

Worker ==
  \/ GetTLS \/ FindCA \/ DeleteCA \/ SyncPermissions \/ SyncJob \/ AwaitJob \/ CleanupJob
  \/ DeletePods \/ DeleteJob \/ CheckTLS \/ ReadCA \/ CheckCA \/ DeleteTLS

Pod(r) == PodWrites(r) \/ PodEnds(r)

Next ==
  \/ StartPod \/ (\E r \in Runs : Pod(r) \/ PodDies(r)) \/ CollectJob
  \/ User \/ SyncSecrets \/ SyncJobs \/ SyncRoles \/ Resync
  \/ Worker \/ CallFails \/ Restart

Spec == Init /\ [][Next]_vars

(* Pods run to their end, finished Jobs are collected, informers catch up,  *)
(* and there is a resync.                                                  *)
FairSpec ==
  /\ Spec
  /\ WF_vars(StartPod) /\ (\A r \in Runs : WF_vars(Pod(r))) /\ WF_vars(CollectJob)
  /\ WF_vars(SyncSecrets) /\ WF_vars(SyncJobs) /\ WF_vars(SyncRoles)
  /\ WF_vars(Resync) /\ WF_vars(Worker)

-----------------------------------------------------------------------------
TypeOK ==
  /\ secrets \in [Kinds -> Secret] /\ cache \in [Kinds -> Secret]
  /\ job \in Job /\ cachedJob \in Job
  /\ pods \in [Runs -> 0..NotRunning] /\ roles \in {"absent", "created", "seen"}
  /\ pc \in PCs /\ mem \in [Kinds -> Secret] /\ queued \in BOOLEAN
  /\ userOps \in 0..MaxUserOps /\ faults \in 0..MaxFaults /\ lost \in BOOLEAN

(* Until a user touches the secrets, there is never a CA that is not the    *)
(* certificate's: slow informers, pods that die or are forgotten, restarts  *)
(* and repeated Jobs do not mix two pairs.                                 *)
Untouched == userOps = MaxUserOps
PairsMatch ==
  Untouched /\ Exists(secrets["ca"]) => secrets["ca"].run = secrets["tls"].run

(* The certificate comes to be there, valid and owned, and the Job and its  *)
(* pods gone, whatever was deleted, emptied, failed or seen late; a CA that *)
(* is there is valid and owned too.  It is there unless it was lost (Loses): *)
(* that is not made good, since a certificate without a CA is taken for a   *)
(* commonly trusted one (ReadCA).                                          *)
TLSSettles ==
  <>[](/\ secrets["tls"].valid /\ secrets["tls"].owned
       /\ Exists(secrets["ca"]) => secrets["ca"].valid /\ secrets["ca"].owned
       /\ ~lost => Exists(secrets["ca"])
       /\ job = NoJob /\ \A r \in Runs : pods[r] = NotRunning)
=============================================================================
