--------------------------- MODULE EndpointProofs ---------------------------
(***************************************************************************)
(* Theorems about the two components that make the endpoints reachable.     *)
(*                                                                         *)
(* About TLSSecrets, for any number of pods, user operations and faults:    *)
(* types, and that two pairs of certificates are not mixed.                *)
(*                                                                         *)
(* About Exposure, for any sequence of components: types, and that what the *)
(* user asks of the strategy is not undone by a pass.  It is an instance,   *)
(* X, over variables of its own and cache, mem, queued and userOps, which   *)
(* both modules have; nothing is said of the two at once.                  *)
(***************************************************************************)
EXTENDS TLSSecrets, Sequences, WellFoundedInduction, TLAPS

CONSTANTS Components, Dashboard, FirstCRs, MaxMishaps
VARIABLES openShift, cr, crSeen, api, stale, fresh, default, todo, half, missed, mishaps

X == INSTANCE Exposure

(* Facts about the records.                                                *)
LEMMA SecretFacts ==
  /\ None \in Secret /\ NoSecrets \in [Kinds -> Secret]
  /\ \A r \in Runs : \A v, w \in BOOLEAN : [run |-> r, valid |-> v, owned |-> w] \in Secret
  /\ \A s \in Secret : Exists(s) => /\ [s EXCEPT !.valid = FALSE] \in Secret
                                    /\ [s EXCEPT !.owned = TRUE] \in Secret
  /\ \A s \in Secret : s.valid => Exists(s)
<1>1. None \in Secret /\ NoSecrets \in [Kinds -> Secret]
  BY DEF Secret, NoSecrets
<1>2. ASSUME NEW r \in Runs, NEW v \in BOOLEAN, NEW w \in BOOLEAN
      PROVE  [run |-> r, valid |-> v, owned |-> w] \in Secret
  BY DEF Secret
<1>3. ASSUME NEW s \in Secret, Exists(s)
      PROVE  [s EXCEPT !.valid = FALSE] \in Secret /\ [s EXCEPT !.owned = TRUE] \in Secret
  <2>1. s \in [run: Runs, valid: BOOLEAN, owned: BOOLEAN]
    BY <1>3 DEF Secret, Exists
  <2> QED
    BY <2>1 DEF Secret
<1>4. ASSUME NEW s \in Secret, s.valid PROVE Exists(s)
  BY <1>4 DEF Exists, None
<1> QED
  BY <1>1, <1>2, <1>3, <1>4

LEMMA JobFacts ==
  /\ NoJob \in Job /\ NewJob \in Job /\ 0 \in 0..MaxRuns /\ Runs \subseteq 0..MaxRuns
  /\ \A j \in Job : /\ Status(j) \in Job
                    /\ \A r \in 0..MaxRuns : [j EXCEPT !.pod = r] \in Job
                    /\ [NoJob EXCEPT !.phase = "succeeded"] \in Job
  /\ \A p \in {"active", "failed"} : [phase |-> p, failed |-> TRUE, pod |-> 0] \in Job
<1>1. 0 \in 0..MaxRuns /\ Runs \subseteq 0..MaxRuns
  BY TLSSecretsAssumption DEF Runs, TLSSecretsAssumption
<1>2. NoJob \in Job
  BY <1>1 DEF Job, NoJob
<1>3. NewJob \in Job
  BY <1>1 DEF Job, NoJob, NewJob
<1>4. ASSUME NEW j \in Job, NEW r \in 0..MaxRuns PROVE [j EXCEPT !.pod = r] \in Job
  BY DEF Job
<1>5. ASSUME NEW j \in Job
      PROVE  Status(j) \in Job /\ [NoJob EXCEPT !.phase = "succeeded"] \in Job
  <2>1. Status(j) \in Job
    BY <1>1, <1>4 DEF Status
  <2>2. [NoJob EXCEPT !.phase = "succeeded"] \in Job
    BY <1>2 DEF Job, NoJob
  <2> QED
    BY <2>1, <2>2
<1>6. ASSUME NEW p \in {"active", "failed"}
      PROVE  [phase |-> p, failed |-> TRUE, pod |-> 0] \in Job
  BY <1>1 DEF Job
<1> QED
  BY <1>1, <1>2, <1>3, <1>4, <1>5, <1>6

TypeServer == /\ secrets \in [Kinds -> Secret] /\ job \in Job
              /\ pods \in [Runs -> 0..NotRunning]
TypeCaches == /\ cache \in [Kinds -> Secret] /\ cachedJob \in Job
              /\ roles \in {"absent", "created", "seen"}
TypeWorker == pc \in PCs /\ mem \in [Kinds -> Secret] /\ queued \in BOOLEAN
TypeBounds == /\ userOps \in 0..MaxUserOps /\ faults \in 0..MaxFaults /\ lost \in BOOLEAN

LEMMA TypeParts == TypeOK <=> TypeServer /\ TypeCaches /\ TypeWorker /\ TypeBounds
BY DEF TypeOK, TypeServer, TypeCaches, TypeWorker, TypeBounds

LEMMA InitTypes == Init => TypeOK
<1> SUFFICES ASSUME Init PROVE TypeOK
  OBVIOUS
<1>1. secrets \in [Kinds -> Secret] /\ cache = secrets /\ mem = secrets
  BY SecretFacts DEF Init, NoSecrets
<1>2. job \in Job /\ cachedJob \in Job
  BY JobFacts DEF Init
<1>3. pods \in [Runs -> 0..NotRunning]
  BY DEF Init, NotRunning
<1>4. pc \in PCs /\ queued \in BOOLEAN
  BY DEF Init, PCs
<1>5. userOps \in 0..MaxUserOps /\ faults \in 0..MaxFaults
  BY TLSSecretsAssumption DEF Init, TLSSecretsAssumption
<1>6. roles \in {"absent", "created", "seen"} /\ lost \in BOOLEAN
  BY DEF Init
<1> QED
  BY <1>1, <1>2, <1>3, <1>4, <1>5, <1>6 DEF TypeOK

LEMMA ServerKept ==
  ASSUME TypeServer, UNCHANGED <<secrets, job, pods>> PROVE TypeServer'
BY DEF TypeServer

LEMMA CachesKept == ASSUME TypeCaches, Cached PROVE TypeCaches'
BY DEF TypeCaches, Cached

LEMMA WorkerKept == ASSUME TypeWorker, UNCHANGED worker PROVE TypeWorker'
BY DEF TypeWorker, worker

LEMMA BoundsKept ==
  ASSUME TypeBounds, UNCHANGED bounds PROVE TypeBounds'
BY DEF TypeBounds, bounds

LEMMA BoundsMove ==
  ASSUME TypeBounds, UNCHANGED <<userOps, faults>> \/ Fault, lost' \in BOOLEAN
  PROVE  TypeBounds'
BY TLSSecretsAssumption DEF TypeBounds, Fault, TLSSecretsAssumption

LEMMA LosesTypes == ASSUME NEW what, Loses(what) PROVE lost' \in BOOLEAN
BY DEF Loses

(* A set of pods that stops.                                               *)
LEMMA RestFacts ==
  ASSUME NEW ps \in [Runs -> 0..NotRunning], NEW p
  PROVE  /\ Rest(ps, p) \in [Runs -> 0..NotRunning]
         /\ \A r \in Runs : Rest(ps, p)[r] = ps[r] \/ Rest(ps, p)[r] = NotRunning
BY DEF Rest, NotRunning

(* The worker ends the pass or goes to the next call.                      *)
LEMMA WorkerMoves ==
  ASSUME TypeWorker, Again \/ GoOn \/ \E p \in PCs : Goto(p)
  PROVE  TypeWorker'
BY SecretFacts DEF TypeWorker, Again, GoOn, Leave, Goto, PCs

(* What becomes of the secrets.                                            *)
LEMMA SecretDeleted ==
  ASSUME TypeServer, NEW k \in Kinds, DeleteSecret(k), UNCHANGED <<job, pods>>
  PROVE  TypeServer'
BY SecretFacts DEF TypeServer, DeleteSecret

LEMMA OwnerSet ==
  ASSUME TypeServer, NEW k \in Kinds, SetOwner(k), mem[k].valid, TypeWorker,
         UNCHANGED <<job, pods>>
  PROVE  TypeServer'
<1>1. secrets[k] \in Secret /\ Exists(secrets[k])
  BY SecretFacts DEF TypeServer, SetOwner, TypeWorker
<1>2. [secrets[k] EXCEPT !.owned = TRUE] \in Secret
  BY <1>1, SecretFacts
<1> QED
  BY <1>2 DEF TypeServer, SetOwner

LEMMA PodFailsTypes ==
  ASSUME TypeServer, NEW r \in Runs, PodFails(r), UNCHANGED secrets
  PROVE  TypeServer'
<1>1. pods' \in [Runs -> 0..NotRunning]
  BY DEF TypeServer, PodFails, NotRunning
<1>2. job' \in Job
  BY JobFacts DEF TypeServer, PodFails
<1> QED
  BY <1>1, <1>2 DEF TypeServer

LEMMA PodTypes ==
  ASSUME TypeServer, NEW r \in Runs, Pod(r)
  PROVE  TypeServer'
<1>1. CASE PodWrites(r)
  <2> DEFINE k == IF pods[r] = 0 THEN "tls" ELSE "ca"
  <2>1. CASE PodFails(r) /\ UNCHANGED secrets
    BY <2>1, PodFailsTypes
  <2>2. CASE ~(PodFails(r) /\ UNCHANGED secrets)
    <3>1. /\ secrets' = [secrets EXCEPT ![k] = [run |-> r, valid |-> TRUE, owned |-> FALSE]]
          /\ pods' = Rest([pods EXCEPT ![r] = @ + 1], job.pod)
          /\ job' = job /\ pods[r] \in {0, 1}
      BY <1>1, <2>2 DEF PodWrites
    <3>2. secrets' \in [Kinds -> Secret]
      BY <3>1, SecretFacts DEF TypeServer
    <3>3. [pods EXCEPT ![r] = @ + 1] \in [Runs -> 0..NotRunning]
      BY <3>1 DEF TypeServer, NotRunning
    <3>4. pods' \in [Runs -> 0..NotRunning]
      BY <3>1, <3>3, RestFacts
    <3> QED
      BY <3>1, <3>2, <3>4 DEF TypeServer
  <2> QED
    BY <2>1, <2>2
<1>2. CASE PodEnds(r)
  <2>1. pods' \in [Runs -> 0..NotRunning]
    BY <1>2 DEF TypeServer, PodEnds, NotRunning
  <2>2. job' \in Job /\ secrets' = secrets
    BY <1>2, JobFacts DEF TypeServer, PodEnds
  <2> QED
    BY <2>1, <2>2 DEF TypeServer
<1> QED
  BY <1>1, <1>2 DEF Pod

LEMMA UserTypes ==
  ASSUME TypeServer, User PROVE TypeServer'
<1>1. PICK k \in Kinds :
        /\ Exists(secrets[k])
        /\ \E s \in {None, [secrets[k] EXCEPT !.valid = FALSE]} :
             secrets' = [secrets EXCEPT ![k] = s]
  BY DEF User
<1>2. {None, [secrets[k] EXCEPT !.valid = FALSE]} \subseteq Secret
  BY <1>1, SecretFacts DEF TypeServer
<1> QED
  BY <1>1, <1>2 DEF TypeServer, User

(* The calls that write secrets.                                           *)
LEMMA WritesTypes ==
  ASSUME TypeServer, TypeWorker, DeleteCA \/ CheckTLS \/ CheckCA \/ DeleteTLS
  PROVE  TypeServer'
<1>1. CASE DeleteCA
  BY <1>1, SecretDeleted, ServerKept DEF DeleteCA, Kinds
<1>2. CASE CheckTLS
  <2>1. UNCHANGED <<job, pods>> /\ "tls" \in Kinds
    BY <1>2 DEF CheckTLS, Kinds
  <2>2. DeleteSecret("tls") \/ (mem["tls"].valid /\ SetOwner("tls")) \/ UNCHANGED secrets
    BY <1>2 DEF CheckTLS, RemoveInvalid
  <2> QED
    BY <2>1, <2>2, SecretDeleted, OwnerSet, ServerKept
<1>3. CASE CheckCA
  <2>1. UNCHANGED <<job, pods>> /\ "ca" \in Kinds
    BY <1>3 DEF CheckCA, Kinds
  <2>2. DeleteSecret("ca") \/ (mem["ca"].valid /\ SetOwner("ca")) \/ UNCHANGED secrets
    BY <1>3 DEF CheckCA
  <2> QED
    BY <2>1, <2>2, SecretDeleted, OwnerSet, ServerKept
<1>4. CASE DeleteTLS
  BY <1>4, SecretDeleted, ServerKept DEF DeleteTLS, Kinds
<1> QED
  BY <1>1, <1>2, <1>3, <1>4

LEMMA NextTypes ==
  ASSUME TypeOK, [Next]_vars PROVE TypeOK'
<1>0. TypeServer /\ TypeCaches /\ TypeWorker /\ TypeBounds
  BY TypeParts
<1> SUFFICES TypeServer' /\ TypeCaches' /\ TypeWorker' /\ TypeBounds'
  BY TypeParts DEF TypeOK, TypeServer, TypeCaches, TypeWorker, TypeBounds
<1>1. CASE StartPod
  <2>1. PICK r \in Runs : pods' = [pods EXCEPT ![r] = 0] /\ job' = [job EXCEPT !.pod = r]
    BY <1>1 DEF StartPod
  <2>2. TypeServer'
    <3>1. [job EXCEPT !.pod = r] \in Job
      BY <1>0, JobFacts DEF TypeServer
    <3>2. pods' \in [Runs -> 0..NotRunning]
      BY <1>0, <2>1 DEF TypeServer, NotRunning
    <3>3. secrets' = secrets
      BY <1>1 DEF StartPod
    <3> QED
      BY <1>0, <2>1, <3>1, <3>2, <3>3 DEF TypeServer
  <2> QED
    BY <1>0, <1>1, <2>2, CachesKept, WorkerKept, BoundsKept DEF StartPod
<1>2. CASE \E r \in Runs : Pod(r) \/ PodDies(r)
  <2>1. PICK r \in Runs : Pod(r) \/ PodDies(r)
    BY <1>2
  <2>2. CASE Pod(r)
    <3>1. Cached /\ UNCHANGED <<worker, bounds>>
      BY <2>2 DEF Pod, PodWrites, PodEnds
    <3> QED
      BY <1>0, <2>2, <3>1, PodTypes, CachesKept, WorkerKept, BoundsKept
  <2>3. CASE PodDies(r)
    BY <1>0, <2>3, PodFailsTypes, CachesKept, WorkerKept, BoundsMove, LosesTypes DEF PodDies
  <2> QED
    BY <2>1, <2>2, <2>3
<1>3. CASE CollectJob
  <2>1. TypeServer'
    BY <1>0, <1>3, JobFacts DEF TypeServer, CollectJob
  <2> QED
    BY <1>0, <1>3, <2>1, CachesKept, WorkerKept, BoundsKept DEF CollectJob
<1>4. CASE User
  <2>1. TypeBounds'
    <3>1. lost' \in BOOLEAN
      BY <1>4, LosesTypes DEF User
    <3> QED
      BY <1>0, <1>4, <3>1, TLSSecretsAssumption DEF TypeBounds, User, TLSSecretsAssumption
  <2> QED
    BY <1>0, <1>4, <2>1, UserTypes, CachesKept, WorkerKept DEF User
<1>5. CASE SyncSecrets
  <2>1. TypeCaches' /\ UNCHANGED <<secrets, job, pods, bounds>>
    BY <1>0, <1>5 DEF SyncSecrets, TypeCaches, TypeServer
  <2>2. TypeWorker'
    BY <1>0, <1>5 DEF SyncSecrets, TypeWorker
  <2> QED
    BY <1>0, <2>1, <2>2, ServerKept, BoundsKept
<1>6. CASE SyncJobs
  <2>1. TypeCaches' /\ UNCHANGED <<secrets, job, pods, worker, bounds>>
    BY <1>0, <1>6, JobFacts DEF SyncJobs, TypeCaches, TypeServer
  <2> QED
    BY <1>0, <2>1, ServerKept, WorkerKept, BoundsKept
<1>7. CASE Resync \/ SyncRoles
  <2>1. TypeWorker' /\ UNCHANGED <<secrets, job, pods, bounds>>
    BY <1>0, <1>7 DEF Resync, SyncRoles, TypeWorker
  <2>2. TypeCaches'
    BY <1>0, <1>7 DEF Resync, SyncRoles, TypeCaches, Cached
  <2> QED
    BY <1>0, <2>1, <2>2, ServerKept, BoundsKept
<1>8. CASE GetTLS
  <2>1. TypeWorker' /\ UNCHANGED <<secrets, job, pods, bounds>> /\ Cached
    BY <1>0, <1>8 DEF GetTLS, ReadOnly, TypeWorker, TypeCaches, PCs, Kinds
  <2> QED
    BY <1>0, <2>1, ServerKept, CachesKept, BoundsKept
<1>9. CASE FindCA \/ AwaitJob \/ CleanupJob
  <2>1. Again \/ GoOn \/ \E p \in PCs : Goto(p)
    BY <1>9 DEF FindCA, AwaitJob, CleanupJob, PCs
  <2>2. ReadOnly /\ UNCHANGED bounds
    BY <1>9 DEF FindCA, AwaitJob, CleanupJob
  <2> QED
    BY <1>0, <2>1, <2>2, ServerKept, CachesKept, WorkerMoves, BoundsKept DEF ReadOnly
<1>16. CASE SyncPermissions
  <2>1. Again \/ GoOn \/ Goto("syncJob")
    BY <1>16 DEF SyncPermissions
  <2>2. UNCHANGED <<secrets, job, pods>> /\ (UNCHANGED bounds \/ (Fault /\ UNCHANGED lost))
    BY <1>16 DEF SyncPermissions
  <2>3. TypeCaches'
    BY <1>0, <1>16 DEF SyncPermissions, TypeCaches
  <2>4. TypeBounds'
    BY <1>0, <2>2, BoundsKept, BoundsMove DEF TypeBounds
  <2> QED
    BY <1>0, <2>1, <2>2, <2>3, <2>4, ServerKept, WorkerMoves DEF PCs
<1>10. CASE SyncJob \/ DeletePods \/ DeleteJob
  <2>1. Again \/ GoOn \/ \E p \in PCs : Goto(p)
    BY <1>10 DEF SyncJob, DeletePods, DeleteJob, PCs
  <2>2. Cached /\ UNCHANGED secrets
    BY <1>10 DEF SyncJob, DeletePods, DeleteJob
  <2>3. job' \in Job /\ pods' \in [Runs -> 0..NotRunning]
    <3>1. CASE SyncJob
      BY <1>0, <3>1, JobFacts DEF SyncJob, TypeServer
    <3>2. CASE DeletePods
      <4>1. PICK gone \in SUBSET Runs, p \in {0, job.pod} :
              /\ pods' = Rest([r \in Runs |-> IF r \in gone THEN NotRunning ELSE pods[r]], p)
              /\ job' = [job EXCEPT !.pod = p]
        BY <3>2 DEF DeletePods
      <4>2. [r \in Runs |-> IF r \in gone THEN NotRunning ELSE pods[r]] \in [Runs -> 0..NotRunning]
        BY <1>0 DEF TypeServer, NotRunning
      <4>3. job \in Job /\ job.pod \in 0..MaxRuns
        BY <1>0 DEF TypeServer, Job
      <4> QED
        BY <4>1, <4>2, <4>3, JobFacts, RestFacts
    <3>3. CASE DeleteJob
      BY <1>0, <3>3, JobFacts DEF DeleteJob, TypeServer
    <3> QED
      BY <1>10, <3>1, <3>2, <3>3
  <2>4. TypeBounds'
    <3>1. CASE UNCHANGED bounds
      BY <1>0, <3>1, BoundsKept
    <3>2. CASE Fault /\ UNCHANGED lost
      BY <1>0, <3>2, BoundsMove DEF TypeBounds
    <3>3. CASE DeletePods
      <4>1. lost' \in BOOLEAN
        BY <3>3, LosesTypes DEF DeletePods
      <4> QED
        BY <1>0, <3>3, <4>1, BoundsMove DEF DeletePods
    <3> QED
      BY <1>10, <3>1, <3>2, <3>3 DEF SyncJob, DeleteJob
  <2> QED
    BY <1>0, <2>1, <2>2, <2>3, <2>4, CachesKept, WorkerMoves DEF TypeServer
<1>11. CASE DeleteCA \/ CheckTLS \/ CheckCA \/ DeleteTLS
  <2>1. Again \/ GoOn \/ \E p \in PCs : Goto(p)
    BY <1>11 DEF DeleteCA, CheckTLS, CheckCA, DeleteTLS, PCs
  <2>2. Cached
    BY <1>11 DEF DeleteCA, CheckTLS, CheckCA, DeleteTLS
  <2>3. TypeBounds'
    <3>1. CASE DeleteCA
      <4>1. lost' \in BOOLEAN
        BY <3>1, LosesTypes DEF DeleteCA
      <4> QED
        BY <1>0, <3>1, <4>1, BoundsMove DEF DeleteCA
    <3> QED
      BY <1>0, <1>11, <3>1, BoundsKept DEF CheckTLS, CheckCA, DeleteTLS
  <2> QED
    BY <1>0, <1>11, <2>1, <2>2, <2>3, WritesTypes, CachesKept, WorkerMoves
<1>12. CASE ReadCA
  <2>1. TypeWorker' /\ ReadOnly /\ UNCHANGED bounds
    BY <1>0, <1>12, SecretFacts DEF ReadCA, TypeWorker, TypeCaches, PCs, Kinds, GoOn, Leave
  <2> QED
    BY <1>0, <2>1, ServerKept, CachesKept, BoundsKept DEF ReadOnly
<1>13. CASE CallFails
  BY <1>0, <1>13, ServerKept, CachesKept, WorkerMoves, BoundsMove, LosesTypes DEF CallFails, ReadOnly
<1>14. CASE Restart
  <2>1. TypeCaches'
    BY <1>0, <1>14, JobFacts DEF Restart, TypeCaches, TypeServer
  <2> QED
    BY <1>0, <1>14, <2>1, ServerKept, WorkerMoves, BoundsMove, LosesTypes DEF Restart
<1>15. CASE UNCHANGED vars
  <2>1. UNCHANGED <<secrets, job, pods, worker, bounds>> /\ Cached
    BY <1>15 DEF vars, worker, bounds, Cached
  <2> QED
    BY <1>0, <2>1, ServerKept, CachesKept, WorkerKept, BoundsKept
<1> QED
  BY <1>1, <1>2, <1>3, <1>4, <1>5, <1>6, <1>7, <1>8, <1>9, <1>10, <1>11, <1>12, <1>13,
     <1>14, <1>15, <1>16 DEF Next, Worker

(* Type correctness: an update never puts an owner on a secret that is      *)
(* gone, and a Job has one pod at a time.                                  *)
THEOREM TypeCorrect == Spec => []TypeOK
<1>1. Init => TypeOK
  BY InitTypes
<1>2. TypeOK /\ [Next]_vars => TypeOK'
  BY NextTypes
<1> QED
  BY <1>1, <1>2, PTL DEF Spec

-----------------------------------------------------------------------------
(* Pairs.                                                                  *)

(* Until a user touches them, whatever secret there is, seen or held is     *)
(* valid, so no certificate is ever removed; and a pod that has still to    *)
(* write the CA has written the certificate that is there.                  *)
AllValid(f) == \A k \in Kinds : Exists(f[k]) => f[k].valid

Matching ==
  /\ AllValid(secrets) /\ AllValid(cache) /\ AllValid(mem)
  /\ pc # "deleteTLS" /\ (pc = "checkCA" => Exists(mem["ca"]))
  /\ \A r \in Runs : pods[r] = 1 => secrets["tls"].run = r
  /\ Exists(secrets["ca"]) => secrets["ca"].run = secrets["tls"].run

PairInv == TypeOK /\ (Untouched => Matching)

LEMMA RunFacts ==
  /\ \A s \in Secret : Exists(s) <=> s.run # 0
  /\ \A s \in Secret : Exists(s) => s.run \in Runs
  /\ ~Exists(None) /\ None.run = 0
BY TLSSecretsAssumption DEF Secret, None, Exists, Runs, TLSSecretsAssumption

LEMMA NothingHeld == AllValid(NoSecrets)
BY DEF AllValid, NoSecrets, Exists

(* The calls of the worker that leave the secrets alone.                    *)
LEMMA MatchingKept ==
  ASSUME Matching, UNCHANGED secrets,
         pods' = pods \/ \A r \in Runs : pods'[r] = pods[r] \/ pods'[r] # 1,
         cache' = cache \/ cache' = secrets,
         AllValid(mem'), pc' # "deleteTLS", pc' = "checkCA" => Exists(mem'["ca"])
  PROVE  Matching'
BY DEF Matching, AllValid

LEMMA MatchingMoves ==
  ASSUME Matching, Again \/ GoOn \/ \E p \in PCs \ {"deleteTLS", "checkCA"} : Goto(p)
  PROVE  AllValid(mem') /\ pc' # "deleteTLS" /\ (pc' = "checkCA" => Exists(mem'["ca"]))
BY NothingHeld DEF Matching, Again, GoOn, Leave, Goto

(* A new owner changes neither pair nor data.                               *)
LEMMA MatchingOwner ==
  ASSUME TypeOK, Matching, NEW k \in Kinds, SetOwner(k), mem[k].valid,
         UNCHANGED <<pods, cache>>, Again \/ GoOn \/ Goto("readCA")
  PROVE  Matching'
<1>1. /\ secrets[k] \in Secret /\ Exists(secrets[k]) /\ secrets[k].valid
      /\ secrets \in [Kinds -> Secret]
  BY SecretFacts DEF TypeOK, SetOwner
<1>2. secrets' = [secrets EXCEPT ![k] = [secrets[k] EXCEPT !.owned = TRUE]]
  BY DEF SetOwner
<1>3. /\ [secrets[k] EXCEPT !.owned = TRUE].run = secrets[k].run
      /\ [secrets[k] EXCEPT !.owned = TRUE].valid
  <2>1. secrets[k] \in [run: Runs, valid: BOOLEAN, owned: BOOLEAN]
    BY <1>1 DEF Secret, Exists
  <2> QED
    BY <1>1, <2>1
<1>4. [secrets[k] EXCEPT !.owned = TRUE] \in Secret
  BY <1>1, SecretFacts
<1>5. \A x \in Kinds : /\ secrets'[x].run = secrets[x].run
                       /\ secrets'[x] \in Secret /\ secrets[x] \in Secret
                       /\ secrets'[x].valid = secrets[x].valid
  BY <1>1, <1>2, <1>3, <1>4
<1>6. \A x \in Kinds : Exists(secrets'[x]) <=> Exists(secrets[x])
  BY <1>5, RunFacts
<1>7. AllValid(secrets')
  BY <1>5, <1>6 DEF Matching, AllValid
<1>8. AllValid(mem') /\ pc' # "deleteTLS" /\ (pc' = "checkCA" => Exists(mem'["ca"]))
  BY MatchingMoves DEF PCs
<1>9. "tls" \in Kinds /\ "ca" \in Kinds
  BY DEF Kinds
<1> QED
  BY <1>5, <1>6, <1>7, <1>8, <1>9 DEF Matching

LEMMA MatchingPod ==
  ASSUME TypeOK, Matching, NEW r \in Runs, Pod(r)
  PROVE  Matching'
<1>0. UNCHANGED <<cache, pc, mem>> /\ AllValid(mem) /\ pc # "deleteTLS"
      /\ (pc = "checkCA" => Exists(mem["ca"]))
  BY DEF Pod, PodWrites, PodEnds, Cached, worker, Matching
<1>1. pods \in [Runs -> 0..3] /\ secrets \in [Kinds -> Secret]
  BY DEF TypeOK, NotRunning
<1>2. CASE UNCHANGED secrets /\ (PodFails(r) \/ PodEnds(r))
  <2>1. \A q \in Runs : pods'[q] = pods[q] \/ pods'[q] # 1
    BY <1>1, <1>2 DEF PodEnds, PodFails, NotRunning
  <2> QED
    BY <1>0, <1>2, <2>1, MatchingKept
<1>3. CASE PodWrites(r) /\ ~(UNCHANGED secrets /\ PodFails(r))
  <2>0. pods[r] \in {0, 1} /\ pods' = Rest([pods EXCEPT ![r] = @ + 1], job.pod)
    BY <1>3 DEF PodWrites
  <2>1. /\ pods[r] \in {0, 1}
        /\ \A q \in Runs : pods'[q] = 1 => [pods EXCEPT ![r] = @ + 1][q] = 1
    <3>1. [pods EXCEPT ![r] = @ + 1] \in [Runs -> 0..NotRunning]
      BY <1>1, <2>0 DEF NotRunning
    <3>2. \A q \in Runs : \/ pods'[q] = [pods EXCEPT ![r] = @ + 1][q]
                          \/ pods'[q] = NotRunning
      BY <2>0, <3>1, RestFacts
    <3>3. NotRunning # 1
      BY DEF NotRunning
    <3> QED
      BY <2>0, <3>2, <3>3, Zenon
  <2>2. CASE pods[r] = 0
    <3>1. /\ ~Exists(secrets["tls"])
          /\ secrets' = [secrets EXCEPT !["tls"] = [run |-> r, valid |-> TRUE, owned |-> FALSE]]
      BY <1>3, <2>2 DEF PodWrites
    <3>2. secrets["tls"].run = 0 /\ ~Exists(secrets["ca"])
      BY <1>1, <3>1, RunFacts DEF Matching, Kinds
    <3>3. \A q \in Runs : pods'[q] = 1 => q = r
      BY <1>1, <2>1, <3>2, TLSSecretsAssumption DEF Matching, Runs, TLSSecretsAssumption
    <3>4. secrets'["tls"].run = r /\ secrets'["tls"].valid /\ secrets'["ca"] = secrets["ca"]
      BY <1>1, <3>1 DEF Kinds
    <3>5. AllValid(secrets')
      BY <3>2, <3>4 DEF AllValid, Kinds
    <3> QED
      BY <1>0, <3>2, <3>3, <3>4, <3>5 DEF Matching
  <2>3. CASE pods[r] = 1
    <3>1. secrets' = [secrets EXCEPT !["ca"] = [run |-> r, valid |-> TRUE, owned |-> FALSE]]
      BY <1>3, <2>3 DEF PodWrites
    <3>2. secrets["tls"].run = r
      BY <2>3 DEF Matching
    <3>3. secrets'["ca"].run = r /\ secrets'["ca"].valid /\ secrets'["tls"] = secrets["tls"]
      BY <1>1, <3>1 DEF Kinds
    <3>4. AllValid(secrets')
      BY <3>3 DEF AllValid, Kinds, Matching
    <3>5. \A q \in Runs : pods'[q] = 1 => pods[q] = 1
      BY <1>1, <2>1, <2>3
    <3> QED
      BY <1>0, <3>2, <3>3, <3>4, <3>5 DEF Matching
  <2> QED
    BY <2>1, <2>2, <2>3
<1>4. CASE PodEnds(r)
  BY <1>2, <1>4 DEF PodEnds
<1> QED
  BY <1>2, <1>3, <1>4 DEF Pod

LEMMA InitMatching == Init => Matching
<1> SUFFICES ASSUME Init PROVE Matching
  OBVIOUS
<1>1. secrets = NoSecrets /\ cache = NoSecrets /\ mem = NoSecrets /\ pc = "idle"
  BY DEF Init, NoSecrets
<1>2. \A r \in Runs : pods[r] = 3
  BY DEF Init, NotRunning
<1>3. ~Exists(NoSecrets["ca"])
  BY RunFacts DEF NoSecrets, Kinds
<1> QED
  BY <1>1, <1>2, <1>3, NothingHeld DEF Matching

LEMMA NextMatching ==
  ASSUME TypeOK, Matching, [Next]_vars, Untouched'
  PROVE  Matching'
<1>0. /\ AllValid(secrets) /\ AllValid(cache) /\ AllValid(mem)
      /\ pc # "deleteTLS" /\ (pc = "checkCA" => Exists(mem["ca"]))
      /\ secrets \in [Kinds -> Secret] /\ cache \in [Kinds -> Secret]
      /\ mem \in [Kinds -> Secret] /\ pods \in [Runs -> 0..3]
  BY DEF Matching, TypeOK, NotRunning
<1>1. CASE StartPod
  <2>1. UNCHANGED <<secrets, cache, mem, pc>>
    BY <1>1 DEF StartPod, Cached, worker
  <2>2. \A r \in Runs : pods'[r] = pods[r] \/ pods'[r] # 1
    BY <1>0, <1>1 DEF StartPod
  <2> QED
    BY <1>0, <2>1, <2>2, MatchingKept
<1>2. CASE \E r \in Runs : Pod(r) \/ PodDies(r)
  <2>1. PICK r \in Runs : Pod(r) \/ PodDies(r)
    BY <1>2
  <2>2. CASE PodDies(r)
    <3>1. UNCHANGED <<secrets, cache, mem, pc>>
      BY <2>2 DEF PodDies, Cached, worker
    <3>2. \A q \in Runs : pods'[q] = pods[q] \/ pods'[q] # 1
      BY <1>0, <2>2 DEF PodDies, PodFails, NotRunning
    <3> QED
      BY <1>0, <3>1, <3>2, MatchingKept
  <2> QED
    BY <2>1, <2>2, MatchingPod
<1>3. CASE CollectJob \/ SyncSecrets \/ SyncJobs \/ SyncRoles \/ Resync \/ UNCHANGED vars
  <2>1. UNCHANGED <<secrets, pods, mem, pc>> /\ (cache' = cache \/ cache' = secrets)
    BY <1>3 DEF CollectJob, SyncSecrets, SyncJobs, SyncRoles, Resync, vars, Cached, worker
  <2> QED
    BY <1>0, <2>1, MatchingKept
<1>4. CASE User
  BY <1>4, TLSSecretsAssumption DEF User, Untouched, TypeOK, TLSSecretsAssumption
<1>5. CASE GetTLS
  <2>1. UNCHANGED <<secrets, pods, cache>> /\ pc' \in {"cleanup", "findCA"}
    BY <1>5 DEF GetTLS, ReadOnly, Cached
  <2>2. AllValid(mem')
    BY <1>0, <1>5 DEF GetTLS, AllValid, Kinds
  <2> QED
    BY <2>1, <2>2, MatchingKept
<1>6. CASE FindCA \/ SyncPermissions \/ SyncJob \/ AwaitJob \/ CleanupJob \/ DeletePods
           \/ DeleteJob \/ CallFails \/ Restart
  <2>1. Again \/ GoOn \/ \E p \in PCs \ {"deleteTLS", "checkCA"} : Goto(p)
    BY <1>6 DEF FindCA, SyncPermissions, SyncJob, AwaitJob, CleanupJob, DeletePods,
                DeleteJob, CallFails, Restart, PCs
  <2>2. UNCHANGED secrets /\ (cache' = cache \/ cache' = secrets)
    BY <1>6 DEF FindCA, SyncPermissions, SyncJob, AwaitJob, CleanupJob, DeletePods,
                DeleteJob, CallFails, Restart, ReadOnly, Cached
  <2>3. pods' = pods \/ \A r \in Runs : pods'[r] = pods[r] \/ pods'[r] # 1
    <3>1. CASE DeletePods
      <4>1. PICK gone \in SUBSET Runs, p \in {0, job.pod} :
              pods' = Rest([r \in Runs |-> IF r \in gone THEN NotRunning ELSE pods[r]], p)
        BY <3>1 DEF DeletePods
      <4>2. [r \in Runs |-> IF r \in gone THEN NotRunning ELSE pods[r]] \in [Runs -> 0..NotRunning]
        BY <1>0 DEF NotRunning
      <4> QED
        BY <4>1, <4>2, RestFacts DEF NotRunning
    <3> QED
      BY <1>6, <3>1 DEF FindCA, SyncPermissions, SyncJob, AwaitJob, CleanupJob, DeleteJob,
                        CallFails, Restart, ReadOnly
  <2> QED
    BY <2>1, <2>2, <2>3, MatchingMoves, MatchingKept
<1>7. CASE DeleteCA
  <2>1. /\ secrets' = [secrets EXCEPT !["ca"] = None] \/ secrets' = secrets
        /\ UNCHANGED <<pods, cache>>
        /\ Again \/ Goto("permissions")
    BY <1>7 DEF DeleteCA, DeleteSecret, Cached
  <2>2. AllValid(mem') /\ pc' # "deleteTLS" /\ (pc' = "checkCA" => Exists(mem'["ca"]))
    BY <2>1, MatchingMoves DEF PCs
  <2>3. CASE secrets' = secrets
    BY <2>1, <2>2, <2>3, MatchingKept
  <2>4. CASE secrets' = [secrets EXCEPT !["ca"] = None]
    <3>1. secrets'["tls"] = secrets["tls"] /\ ~Exists(secrets'["ca"])
      BY <1>0, <2>4, RunFacts DEF Kinds
    <3>2. AllValid(secrets')
      BY <1>0, <3>1 DEF AllValid, Kinds
    <3> QED
      BY <2>1, <2>2, <3>1, <3>2 DEF Matching
  <2> QED
    BY <2>1, <2>3, <2>4
<1>8. CASE CheckTLS
  <2>1. UNCHANGED <<pods, cache>> /\ "tls" \in Kinds
    BY <1>8 DEF CheckTLS, Cached, Kinds
  <2>2. \/ (Again \/ Goto("readCA")) /\ UNCHANGED secrets
        \/ mem["tls"].valid /\ SetOwner("tls") /\ Goto("readCA")
    BY <1>0, <1>8 DEF CheckTLS, RemoveInvalid, AllValid, Kinds
  <2>3. CASE (Again \/ Goto("readCA")) /\ UNCHANGED secrets
    BY <2>1, <2>3, MatchingMoves, MatchingKept DEF PCs
  <2> QED
    BY <2>1, <2>2, <2>3, MatchingOwner
<1>9. CASE ReadCA
  <2>1. UNCHANGED <<secrets, pods, cache>> /\ pc' # "deleteTLS"
    BY <1>9 DEF ReadCA, ReadOnly, Cached, GoOn, Leave
  <2>2. AllValid(mem') /\ (pc' = "checkCA" => Exists(mem'["ca"]))
    <3>1. CASE Exists(cache["ca"])
      <4>1. mem' = [mem EXCEPT !["ca"] = cache["ca"]]
        BY <1>9, <3>1 DEF ReadCA
      <4> QED
        BY <1>0, <3>1, <4>1 DEF AllValid, Kinds
    <3>2. CASE ~Exists(cache["ca"])
      BY <1>9, <3>2, NothingHeld DEF ReadCA, GoOn, Leave
    <3> QED
      BY <3>1, <3>2
  <2> QED
    BY <2>1, <2>2, MatchingKept
<1>10. CASE CheckCA
  <2>1. UNCHANGED <<pods, cache>> /\ "ca" \in Kinds /\ mem["ca"].valid
    BY <1>0, <1>10 DEF CheckCA, Cached, Kinds, AllValid
  <2>2. \/ (Again \/ GoOn) /\ UNCHANGED secrets
        \/ mem["ca"].valid /\ SetOwner("ca") /\ GoOn
    BY <1>10, <2>1 DEF CheckCA
  <2>3. CASE (Again \/ GoOn) /\ UNCHANGED secrets
    BY <2>1, <2>3, MatchingMoves, MatchingKept DEF PCs
  <2> QED
    BY <2>1, <2>2, <2>3, MatchingOwner
<1>11. CASE DeleteTLS
  BY <1>0, <1>11 DEF DeleteTLS
<1> QED
  BY <1>1, <1>2, <1>3, <1>4, <1>5, <1>6, <1>7, <1>8, <1>9, <1>10, <1>11 DEF Next, Worker

(* Nobody gives back to the user what has been used.                       *)
LEMMA StaysTouched ==
  ASSUME TypeOK, [Next]_vars, Untouched'
  PROVE  Untouched
<1>1. userOps \in Nat /\ userOps <= MaxUserOps /\ MaxUserOps \in Nat
  BY TLSSecretsAssumption DEF TypeOK, TLSSecretsAssumption
<1>2. CASE User
  BY <1>1, <1>2 DEF User, Untouched
<1>3. CASE UNCHANGED vars \/ StartPod \/ CollectJob \/ SyncSecrets \/ SyncJobs \/ SyncRoles
           \/ Resync
  <2>1. UNCHANGED userOps
    BY <1>3 DEF vars, StartPod, CollectJob, SyncSecrets, SyncJobs, SyncRoles, Resync, bounds
  <2> QED
    BY <2>1 DEF Untouched
<1>4. CASE \E r \in Runs : Pod(r) \/ PodDies(r)
  <2>1. UNCHANGED userOps
    BY <1>4 DEF Pod, PodWrites, PodEnds, PodDies, Fault, bounds
  <2> QED
    BY <2>1 DEF Untouched
<1>5. CASE Worker
  <2>1. UNCHANGED userOps
    BY <1>5 DEF Worker, GetTLS, FindCA, DeleteCA, SyncPermissions, SyncJob, AwaitJob,
                CleanupJob, DeletePods, DeleteJob, CheckTLS, ReadCA, CheckCA, DeleteTLS,
                Fault, bounds
  <2> QED
    BY <2>1 DEF Untouched
<1>6. CASE CallFails \/ Restart
  BY <1>6 DEF CallFails, Restart, Fault, Untouched
<1> QED
  BY <1>2, <1>3, <1>4, <1>5, <1>6 DEF Next

(* Until a user touches the secrets, a CA belongs to the certificate that   *)
(* is there, for any number of pods, failures and restarts and however late *)
(* the informers are.                                                      *)
THEOREM PairsStayMatched == Spec => []PairsMatch
<1>1. Init => PairInv
  BY InitTypes, InitMatching DEF PairInv
<1>2. PairInv /\ [Next]_vars => PairInv'
  <2> SUFFICES ASSUME PairInv, [Next]_vars PROVE PairInv'
    OBVIOUS
  <2>1. TypeOK'
    BY NextTypes DEF PairInv
  <2>2. Untouched' => Untouched
    BY StaysTouched DEF PairInv
  <2> QED
    BY <2>1, <2>2, NextMatching DEF PairInv
<1>3. PairInv => PairsMatch
  BY DEF PairInv, Matching, PairsMatch
<1> QED
  BY <1>1, <1>2, <1>3, PTL DEF Spec

-----------------------------------------------------------------------------
(* Exposure: the list of calls of a pass.                                  *)

(* Every set of numbers that is not empty has a least one.                  *)
LEMMA LeastNumber ==
  ASSUME NEW T, T \subseteq Nat, T # {}
  PROVE  \E n \in T : \A m \in T : n <= m
<1>1. PICK n \in T : \A m \in T : ~ (<<m, n>> \in OpToRel(<, Nat))
  BY NatLessThanWellFounded, WFMin
<1>2. ASSUME NEW m \in T PROVE n <= m
  <2>1. ~ (m < n)
    BY <1>1 DEF OpToRel
  <2> QED
    BY <2>1
<1> QED
  BY <1>2

(* The calls for the components, which the recursion concatenates.  The     *)
(* recursive definition does define a function: by induction, since each    *)
(* value depends on the one before only.                                   *)
LEMMA CallsOfComponents ==
  ASSUME NEW N, N = Len(Components), N \in Nat
  PROVE  X!ComponentsCalls = [i \in 0..N |->
           IF i = 0 THEN <<>>
           ELSE X!ComponentsCalls[i - 1] \o X!ComponentCalls(Components[i])]
<1> DEFINE Steps(f, n) == [i \in 0..n |->
             IF i = 0 THEN <<>> ELSE f[i - 1] \o X!ComponentCalls(Components[i])]
           Without == {n \in Nat : ~ \E f : f = Steps(f, n)}
<1>0. \A n : n \in Without <=> n \in Nat /\ ~ \E f : f = Steps(f, n)
  OBVIOUS
<1>1. ASSUME Without # {} PROVE FALSE
  <2>0. Without \subseteq Nat
    OBVIOUS
  <2> HIDE DEF Without
  <2>1. PICK n \in Without : \A m \in Without : n <= m
    BY <1>1, <2>0, LeastNumber
  <2>2. CASE n = 0
    <3> DEFINE g == [i \in 0..0 |-> <<>>]
    <3>1. g = Steps(g, 0)
      OBVIOUS
    <3> QED
      BY <1>0, <2>1, <2>2, <3>1
  <2>3. CASE n # 0
    <3>1. n \in Nat /\ n - 1 \in Nat /\ n - 1 \notin Without
      BY <2>0, <2>1, <2>3
    <3>2. PICK f : f = Steps(f, n - 1)
      <4> HIDE DEF Steps
      <4> QED
        BY <1>0, <3>1
    <3> DEFINE g == Steps(f, n)
    <3>3. ASSUME NEW i \in 0..(n - 1) PROVE g[i] = f[i]
      <4>1. f[i] = Steps(f, n - 1)[i]
        BY <3>2
      <4> QED
        BY <3>1, <4>1
    <3>4. \A i \in 0..n : i # 0 => g[i - 1] = f[i - 1]
      <4> HIDE DEF g
      <4> QED
        BY <3>1, <3>3
    <3>5. \E h : h = Steps(f, n) /\ \A i \in 0..n : i # 0 => h[i - 1] = f[i - 1]
      BY <3>4
    <3>6. PICK h : h = Steps(f, n) /\ \A i \in 0..n : i # 0 => h[i - 1] = f[i - 1]
      BY <3>5
    <3>7. h = Steps(h, n)
      BY <3>6
    <3> QED
      <4> HIDE DEF Steps
      <4> QED
        BY <1>0, <2>1, <3>7
  <2> QED
    BY <2>2, <2>3
<1>2. \E f : f = Steps(f, N)
  <2> HIDE DEF Steps, Without
  <2> QED
    BY <1>0, <1>1
<1>3. X!ComponentsCalls = CHOOSE f : f = Steps(f, N)
  BY DEF X!ComponentsCalls
<1>4. X!ComponentsCalls = Steps(X!ComponentsCalls, N)
  BY <1>2, <1>3
<1> QED
  BY <1>4

-----------------------------------------------------------------------------
(* Exposure: what a pass has in hand.                                      *)

(* What the theorems need of the constants.                                *)
ExposureConstants ==
  /\ Components \in Seq(STRING) /\ FirstCRs \subseteq X!Choices
  /\ MaxUserOps \in Nat /\ MaxMishaps \in Nat

LaterOps == {"sync", "exists", "delete", "advertise"}
CallsWith(ops) == [op: ops, obj: X!Objects, lax: BOOLEAN]
LaterCalls == CallsWith(LaterOps)
ServerOps == {"detect", "default", "publish"}
AnyCalls ==
  {c \in CallsWith(LaterOps \cup ServerOps) : c.op \in ServerOps => c.obj = X!ServerRoute}

(* On OpenShift no pass publishes a host before it has found the default.   *)
Guarded(calls, host) ==
  openShift => \A i \in 1..Len(calls) :
    calls[i].op = "publish" => host # "" \/ \E j \in 1..(i - 1) : calls[j].op = "default"

(* A Route has a host, in the API server and in the caches.                 *)
Hosted(s) == openShift => \A o \in X!Objects : o.kind = "route" /\ X!Is(s, o) => s[o].host # ""

Hosts == X!Hosts \cup {""}
PassTypes ==
  /\ mem \in X!CheCluster /\ default \in Hosts
  /\ fresh \in BOOLEAN /\ missed \in BOOLEAN /\ half \in BOOLEAN /\ queued \in BOOLEAN
PassInv == PassTypes /\ todo \in Seq(AnyCalls) /\ Guarded(todo, default)
CRInv ==
  /\ cr \in X!CheCluster /\ crSeen \in X!CheCluster
  /\ (fresh => mem = cr) /\ ("cr" \notin stale => crSeen = cr)
StoreInv ==
  /\ api \in [X!Objects -> X!Contents] /\ cache \in [X!Objects -> X!Contents]
  /\ Hosted(api) /\ Hosted(cache)
  /\ stale \subseteq X!Kinds
BoundsInv == userOps \in 0..MaxUserOps /\ mishaps \in 0..MaxMishaps
ExposureInv == openShift \in BOOLEAN /\ PassInv /\ CRInv /\ StoreInv /\ BoundsInv

LEMMA ObjectFacts ==
  ASSUME ExposureConstants
  PROVE  /\ X!ServerRoute \in X!Objects
         /\ \A c \in X!Parts : X!Route(c) \in X!Objects /\ X!Config(c) \in X!Objects
         /\ \A i \in 1..5 : X!Gateway(X!GatewayParts[i]) \in X!Objects
         /\ \A o \in X!Objects : o.kind \in X!Kinds
         /\ \A o \in X!Objects : o.kind = "route" /\ o # X!ServerRoute => o.name \in X!Parts
         /\ \A i \in 1..Len(Components) : Components[i] \in X!Parts
<1>1. \A o \in X!Objects :
        \/ o = X!ServerRoute
        \/ \E c \in X!Parts : o = X!Route(c)
        \/ o.kind = "config"
  BY DEF X!Objects, X!Config, X!Gateway
<1>2. \A o \in X!Objects : o.kind \in X!Kinds
  BY <1>1 DEF X!ServerRoute, X!Route, X!Kinds
<1>3. \A o \in X!Objects : o.kind = "route" /\ o # X!ServerRoute => o.name \in X!Parts
  BY <1>1 DEF X!Route
<1>4. \A i \in 1..Len(Components) : Components[i] \in X!Parts
  BY DEF X!Parts
<1> QED
  BY <1>2, <1>3, <1>4 DEF X!Objects

LEMMA CallTypes ==
  ASSUME NEW o \in X!Objects, NEW op, NEW lax \in BOOLEAN
  PROVE  /\ op \in LaterOps => X!Call(op, o, lax) \in LaterCalls
         /\ op \in LaterOps => X!Call(op, o, lax) \in AnyCalls
         /\ op \in ServerOps /\ o = X!ServerRoute => X!Call(op, o, lax) \in AnyCalls
         /\ X!Call(op, o, lax).op = op /\ X!Call(op, o, lax).obj = o
BY DEF X!Call, LaterCalls, AnyCalls, CallsWith, LaterOps, ServerOps

(* Sequences written out.                                                  *)
LEMMA ShortSequences ==
  ASSUME NEW S, NEW a \in S, NEW b \in S, NEW c \in S, NEW d \in S
  PROVE  <<a, b, c>> \in Seq(S) /\ <<a, b, c, d>> \in Seq(S)
OBVIOUS

LEMMA EmptySequence == ASSUME NEW S PROVE <<>> \in Seq(S) /\ Len(<<>>) = 0
OBVIOUS

LEMMA Concatenation ==
  ASSUME NEW S, NEW s \in Seq(S), NEW t \in Seq(S)
  PROVE  /\ s \o t \in Seq(S)
         /\ Len(s \o t) = Len(s) + Len(t) /\ Len(s) \in Nat /\ Len(t) \in Nat
         /\ \A i \in 1..Len(s) : (s \o t)[i] = s[i]
OBVIOUS

LEMMA ComponentCallsTypes ==
  ASSUME ExposureConstants, NEW c \in X!Parts, openShift \in BOOLEAN
  PROVE  X!ComponentCalls(c) \in Seq(LaterCalls)
<1>1. X!Route(c) \in X!Objects /\ X!Config(c) \in X!Objects
  BY ObjectFacts
<1>2. \A op \in LaterOps, lax \in BOOLEAN :
        /\ X!Call(op, X!Route(c), lax) \in LaterCalls
        /\ X!Call(op, X!Config(c), lax) \in LaterCalls
  BY <1>1, CallTypes
<1>3. /\ "sync" \in LaterOps /\ "exists" \in LaterOps
      /\ "delete" \in LaterOps /\ "advertise" \in LaterOps
      /\ TRUE \in BOOLEAN /\ FALSE \in BOOLEAN /\ (~openShift) \in BOOLEAN
  BY DEF LaterOps
<1>4. \A op \in LaterOps, lax \in {TRUE, FALSE, ~openShift} :
        /\ X!Call(op, X!Route(c), lax) \in LaterCalls
        /\ X!Call(op, X!Config(c), lax) \in LaterCalls
  BY <1>2, <1>3
<1>5. CASE crSeen.strategy = "gateway"
  <2>1. <<X!Call("sync", X!Config(c), FALSE), X!Call("delete", X!Route(c), TRUE),
          X!Call("advertise", X!Config(c), FALSE)>> \in Seq(LaterCalls)
    BY <1>3, <1>4, ShortSequences
  <2> QED
    BY <1>5, <2>1 DEF X!ComponentCalls
<1>6. CASE crSeen.strategy # "gateway"
  <2>1. <<X!Call("sync", X!Route(c), FALSE), X!Call("exists", X!Route(c), ~openShift),
          X!Call("delete", X!Config(c), TRUE), X!Call("advertise", X!Route(c), FALSE)>>
        \in Seq(LaterCalls)
    BY <1>3, <1>4, ShortSequences
  <2> QED
    BY <1>6, <2>1 DEF X!ComponentCalls
<1> QED
  BY <1>5, <1>6

LEMMA ComponentsCallsTypes ==
  ASSUME ExposureConstants, openShift \in BOOLEAN
  PROVE  X!ComponentsCalls[Len(Components)] \in Seq(LaterCalls)
<1> DEFINE N == Len(Components)
           Bad == {i \in 0..N : X!ComponentsCalls[i] \notin Seq(LaterCalls)}
<1>1. N \in Nat
  BY DEF ExposureConstants
<1>2. X!ComponentsCalls = [i \in 0..N |->
        IF i = 0 THEN <<>> ELSE X!ComponentsCalls[i - 1] \o X!ComponentCalls(Components[i])]
  BY <1>1, CallsOfComponents
<1> HIDE DEF N
<1>3. X!ComponentsCalls[0] = <<>>
  BY <1>1, <1>2
<1>4. ASSUME NEW i \in 1..N
      PROVE  X!ComponentsCalls[i] = X!ComponentsCalls[i - 1] \o X!ComponentCalls(Components[i])
  <2>1. i \in 0..N /\ i # 0
    BY <1>1
  <2> QED
    BY <1>2, <2>1
<1>5. ASSUME Bad # {} PROVE FALSE
  <2>1. Bad \subseteq Nat
    BY <1>1
  <2>2. PICK n \in Bad : \A m \in Bad : n <= m
    <3> HIDE DEF Bad
    <3> QED
      BY <1>5, <2>1, LeastNumber
  <2>3. n # 0
    <3>1. X!ComponentsCalls[0] \in Seq(LaterCalls)
      BY <1>3
    <3> QED
      BY <2>2, <3>1
  <2>4. n \in 1..N /\ n - 1 \in 0..N /\ n - 1 \notin Bad
    <3>1. n \in 0..N
      BY <2>2
    <3>2. n \in 1..N /\ n - 1 \in 0..N
      BY <1>1, <2>3, <3>1
    <3>3. n - 1 \notin Bad
      <4> HIDE DEF Bad
      <4> QED
        BY <1>1, <2>2, <3>2
    <3> QED
      BY <3>2, <3>3
  <2>5. X!ComponentsCalls[n - 1] \in Seq(LaterCalls)
    BY <2>4
  <2>6. X!ComponentCalls(Components[n]) \in Seq(LaterCalls)
    BY <2>4, ObjectFacts, ComponentCallsTypes DEF N
  <2>7. X!ComponentsCalls[n] \in Seq(LaterCalls)
    BY <1>4, <2>4, <2>5, <2>6, Concatenation
  <2> QED
    BY <2>2, <2>7
<1> QED
  BY <1>1, <1>5 DEF N

LEMMA GatewayCallsTypes ==
  ASSUME ExposureConstants
  PROVE  X!GatewayCalls \in Seq(LaterCalls)
<1>1. \A i \in 1..5 : X!Gateway(X!GatewayParts[i]) \in X!Objects
  BY ObjectFacts
<1>2. /\ "sync" \in LaterOps /\ "delete" \in LaterOps
      /\ TRUE \in BOOLEAN /\ FALSE \in BOOLEAN
  BY DEF LaterOps
<1>3. \A i \in 1..5, op \in {"sync", "delete"}, lax \in BOOLEAN :
        X!Call(op, X!Gateway(X!GatewayParts[i]), lax) \in LaterCalls
  BY <1>1, <1>2, CallTypes
<1>4. CASE crSeen.strategy = "gateway"
  <2> DEFINE C(i) == X!Call("sync", X!Gateway(X!GatewayParts[i]), TRUE)
  <2>1. X!GatewayCalls = [i \in 1..5 |-> C(i)]
    BY <1>4 DEF X!GatewayCalls
  <2>2. \A i \in 1..5 : C(i) \in LaterCalls
    BY <1>3
  <2> HIDE DEF C
  <2>3. <<C(1), C(2), C(3), C(4), C(5)>> \in Seq(LaterCalls)
    BY <2>2
  <2>4. [i \in 1..5 |-> C(i)] = <<C(1), C(2), C(3), C(4), C(5)>>
    OBVIOUS
  <2> QED
    BY <2>1, <2>3, <2>4
<1>5. CASE crSeen.strategy # "gateway"
  <2>1. /\ X!GatewayParts[2] = "traefik" /\ X!GatewayParts[3] = "deployment"
        /\ X!GatewayParts[5] = "server"
    BY DEF X!GatewayParts
  <2>2. \A n \in {"deployment", "server", "traefik"}, lax \in BOOLEAN :
          X!Call("delete", X!Gateway(n), lax) \in LaterCalls
    <3>1. \A i \in {2, 3, 5}, lax \in BOOLEAN :
            X!Call("delete", X!Gateway(X!GatewayParts[i]), lax) \in LaterCalls
      BY <1>3
    <3> QED
      BY <2>1, <3>1
  <2>3. <<X!Call("delete", X!Gateway("deployment"), FALSE),
          X!Call("delete", X!Gateway("server"), FALSE),
          X!Call("delete", X!Gateway("traefik"), TRUE)>> \in Seq(LaterCalls)
    BY <2>2, ShortSequences
  <2> QED
    BY <1>5, <2>3 DEF X!GatewayCalls
<1> QED
  BY <1>4, <1>5

(* A pass begins by finding the default host, on OpenShift.                 *)
LEMMA CallsGuarded ==
  ASSUME ExposureConstants, openShift \in BOOLEAN
  PROVE  X!Calls \in Seq(AnyCalls) /\ X!Calls # <<>> /\ Guarded(X!Calls, default)
<1> DEFINE C == X!ComponentsCalls[Len(Components)]
           D == X!Call("detect", X!ServerRoute, FALSE)
           F == X!Call("default", X!ServerRoute, FALSE)
           Y == X!Call("sync", X!ServerRoute, FALSE)
           P == X!Call("publish", X!ServerRoute, FALSE)
           A == X!Call("advertise", X!ServerRoute, FALSE)
           First == IF openShift THEN <<D, F>> ELSE <<>>
           Then == <<Y, P, A>>
<1>1. \A s \in Seq(LaterCalls) : s \in Seq(AnyCalls)
  <2>1. LaterCalls \subseteq AnyCalls
    BY DEF LaterCalls, AnyCalls, CallsWith, LaterOps, ServerOps
  <2> QED
    BY <2>1
<1>2. C \in Seq(AnyCalls) /\ X!GatewayCalls \in Seq(AnyCalls)
  <2> HIDE DEF C
  <2>1. C \in Seq(LaterCalls) /\ X!GatewayCalls \in Seq(LaterCalls)
    BY ComponentsCallsTypes, GatewayCallsTypes DEF C
  <2> QED
    BY <1>1, <2>1
<1>3. D \in AnyCalls /\ F \in AnyCalls /\ Y \in AnyCalls /\ P \in AnyCalls /\ A \in AnyCalls
  BY ObjectFacts, CallTypes DEF LaterOps, ServerOps
<1>4. D.op = "detect" /\ F.op = "default"
  BY ObjectFacts, CallTypes
<1>5. X!Calls = ((First \o Then) \o C) \o X!GatewayCalls
  BY DEF X!Calls, X!ServerCalls
<1> HIDE DEF C, D, F, Y, P, A
<1>6. First \in Seq(AnyCalls) /\ Then \in Seq(AnyCalls) /\ Len(Then) = 3
  BY <1>3
<1>7. openShift => Len(First) = 2 /\ First[1] = D /\ First[2] = F
  OBVIOUS
<1> HIDE DEF First, Then
<1>8. /\ First \o Then \in Seq(AnyCalls) /\ Len(First \o Then) = Len(First) + 3
      /\ Len(First) \in Nat
      /\ \A i \in 1..Len(First) : (First \o Then)[i] = First[i]
  <2>1. /\ First \o Then \in Seq(AnyCalls) /\ Len(First \o Then) = Len(First) + Len(Then)
        /\ Len(First) \in Nat
        /\ \A i \in 1..Len(First) : (First \o Then)[i] = First[i]
    BY <1>6, Concatenation
  <2> QED
    BY <1>6, <2>1
<1>9. /\ (First \o Then) \o C \in Seq(AnyCalls)
      /\ Len((First \o Then) \o C) \in Nat /\ Len((First \o Then) \o C) >= Len(First) + 3
      /\ \A i \in 1..Len(First) : ((First \o Then) \o C)[i] = First[i]
  <2>1. \A i \in 1..Len(First) : i \in 1..Len(First \o Then)
    BY <1>8
  <2>2. /\ (First \o Then) \o C \in Seq(AnyCalls)
        /\ Len((First \o Then) \o C) = Len(First \o Then) + Len(C) /\ Len(C) \in Nat
        /\ \A i \in 1..Len(First \o Then) : ((First \o Then) \o C)[i] = (First \o Then)[i]
    BY <1>2, <1>8, Concatenation
  <2> QED
    BY <1>8, <2>1, <2>2
<1>10. /\ X!Calls \in Seq(AnyCalls)
       /\ Len(X!Calls) \in Nat /\ Len(X!Calls) >= Len(First) + 3
       /\ \A i \in 1..Len(First) : X!Calls[i] = First[i]
  <2> DEFINE Q == (First \o Then) \o C
  <2>1. /\ Q \in Seq(AnyCalls) /\ Len(Q) \in Nat /\ Len(Q) >= Len(First) + 3
        /\ \A i \in 1..Len(First) : Q[i] = First[i]
    BY <1>9
  <2>2. X!Calls = Q \o X!GatewayCalls
    BY <1>5
  <2> HIDE DEF Q
  <2>3. \A i \in 1..Len(First) : i \in 1..Len(Q)
    BY <1>8, <2>1
  <2>4. /\ X!Calls \in Seq(AnyCalls)
        /\ Len(X!Calls) = Len(Q) + Len(X!GatewayCalls) /\ Len(X!GatewayCalls) \in Nat
        /\ \A i \in 1..Len(Q) : X!Calls[i] = Q[i]
    BY <1>2, <2>1, <2>2, Concatenation
  <2> QED
    BY <1>8, <2>1, <2>3, <2>4
<1>11. X!Calls # <<>>
  BY <1>8, <1>10
<1>12. ASSUME openShift, NEW i \in 1..Len(X!Calls), X!Calls[i].op = "publish"
       PROVE  \E j \in 1..(i - 1) : X!Calls[j].op = "default"
  <2>1. X!Calls[1] = D /\ X!Calls[2] = F
    <3>1. 1 \in 1..Len(First) /\ 2 \in 1..Len(First)
      BY <1>7, <1>12
    <3> QED
      BY <1>7, <1>10, <1>12, <3>1
  <2>2. i # 1 /\ i # 2
    BY <1>4, <1>12, <2>1
  <2>3. 2 \in 1..(i - 1)
    BY <1>10, <2>2
  <2> QED
    BY <1>4, <2>1, <2>3
<1>13. Guarded(X!Calls, default)
  BY <1>12 DEF Guarded
<1> QED
  BY <1>10, <1>11, <1>13

-----------------------------------------------------------------------------
(* Exposure: what the steps have in common.                                *)

LEMMA RecordFacts ==
  /\ X!NoCR \in X!CheCluster /\ X!Absent \in X!Contents /\ X!There \in X!Contents
  /\ \A c \in X!CheCluster :
       /\ \A h \in Hosts : [c EXCEPT !.cheHost = h] \in X!CheCluster
       /\ \A n, h : h \in Hosts => [c EXCEPT !.url[n] = h] \in X!CheCluster
       /\ \A s \in X!Strategies : [c EXCEPT !.strategy = s] \in X!CheCluster
<1>1. X!NoCR \in X!CheCluster
  BY DEF X!NoCR, X!NoURL, X!CheCluster, X!Strategies
<1>2. X!Absent \in X!Contents /\ X!There \in X!Contents
  BY DEF X!Absent, X!There, X!Contents
<1>3. ASSUME NEW c \in X!CheCluster
      PROVE  /\ \A h \in Hosts : [c EXCEPT !.cheHost = h] \in X!CheCluster
             /\ \A s \in X!Strategies : [c EXCEPT !.strategy = s] \in X!CheCluster
  BY DEF X!CheCluster, Hosts
<1>4. ASSUME NEW c \in X!CheCluster, NEW n, NEW h \in Hosts
      PROVE  [c EXCEPT !.url[n] = h] \in X!CheCluster
  <2>1. c.url \in [X!Parts \cup {"server"} -> X!Hosts \cup {"", "unset"}]
    BY DEF X!CheCluster
  <2>2. [c.url EXCEPT ![n] = h] \in [X!Parts \cup {"server"} -> X!Hosts \cup {"", "unset"}]
    BY <2>1 DEF Hosts
  <2> QED
    BY <2>2 DEF X!CheCluster, Hosts
<1> QED
  BY <1>1, <1>2, <1>3, <1>4

LEMMA HeadTypes ==
  ASSUME todo \in Seq(AnyCalls), todo # <<>>
  PROVE  /\ X!This \in AnyCalls /\ X!Obj \in X!Objects
         /\ X!This.op \in ServerOps => X!Obj = X!ServerRoute
<1>1. Head(todo) \in AnyCalls
  OBVIOUS
<1> QED
  BY <1>1 DEF X!This, X!Obj, AnyCalls, CallsWith

(* A Route that is written has a host, and leads to a Service.              *)
LEMMA WantedTypes ==
  ASSUME ExposureConstants, openShift \in BOOLEAN, PassInv, todo # <<>>
  PROVE  /\ X!Wanted \in X!Contents
         /\ openShift /\ X!Obj.kind = "route" => X!Wanted.host # ""
<1>1. X!Obj \in X!Objects
  BY HeadTypes DEF PassInv
<1>2. CASE X!Obj.kind # "route"
  BY <1>2, RecordFacts DEF X!Wanted
<1>3. CASE X!Obj.kind = "route"
  <2>1. X!OwnHost(X!Obj) \in Hosts /\ (openShift => X!OwnHost(X!Obj) # "")
    BY DEF X!OwnHost, X!Hosts, Hosts
  <2>2. mem.cheHost \in Hosts
    BY DEF PassInv, PassTypes, X!CheCluster, Hosts
  <2>3. X!WantedHost \in Hosts
    <3>1. X!AskedHost \in Hosts
      BY <2>2 DEF X!AskedHost, Hosts
    <3> QED
      BY <2>1, <3>1 DEF X!WantedHost
  <2>4. X!Target \in {"none", "there", "che-host", "che-gateway"} \cup X!Parts
    BY <1>1, <1>3, ObjectFacts DEF X!Target, X!ServerService
  <2> DEFINE h == IF X!WantedHost = "" THEN X!OwnHost(X!Obj) ELSE X!WantedHost
  <2>5. X!Wanted = [to |-> X!Target, host |-> h]
    BY <1>3 DEF X!Wanted
  <2>6. h \in Hosts /\ (openShift => h # "")
    BY <2>1, <2>3
  <2> QED
    BY <2>4, <2>5, <2>6 DEF X!Contents, Hosts
<1> QED
  BY <1>2, <1>3

LEMMA StoreKeeps ==
  ASSUME ExposureConstants, StoreInv, NEW o \in X!Objects, NEW c \in X!Contents,
         openShift /\ o.kind = "route" /\ c # X!Absent => c.host # "",
         X!Store(o, c), cache' = cache, openShift' = openShift
  PROVE  StoreInv' /\ stale \subseteq stale'
<1>1. CASE UNCHANGED X!objects
  BY <1>1 DEF StoreInv, Hosted, X!objects, X!Is
<1>2. CASE api' = [api EXCEPT ![o] = c] /\ stale' = stale \cup {o.kind}
  <2>1. stale' \subseteq X!Kinds
    BY <1>2, ObjectFacts DEF StoreInv
  <2>2. api' \in [X!Objects -> X!Contents]
    BY <1>2 DEF StoreInv
  <2>3. \A p \in X!Objects : api'[p] = IF p = o THEN c ELSE api[p]
    BY <1>2 DEF StoreInv
  <2>4. Hosted(api) /\ Hosted(cache)
    BY DEF StoreInv
  <2>5. Hosted(api') /\ Hosted(cache')
    BY <2>3, <2>4 DEF Hosted, X!Is
  <2>6. Hosted(api)' /\ Hosted(cache)'
    BY <2>5 DEF Hosted, X!Is
  <2>7. cache' \in [X!Objects -> X!Contents]
    BY DEF StoreInv
  <2>8. StoreInv'
    BY <2>1, <2>2, <2>6, <2>7 DEF StoreInv
  <2>9. stale \subseteq stale'
    BY <1>2
  <2> QED
    BY <2>8, <2>9
<1> QED
  BY <1>1, <1>2 DEF X!Store

LEMMA TailFacts ==
  ASSUME NEW T, NEW s \in Seq(T), s # <<>>
  PROVE  /\ Tail(s) \in Seq(T)
         /\ Len(Tail(s)) = Len(s) - 1 /\ Len(s) \in Nat /\ Len(s) > 0
         /\ \A i \in 1..Len(Tail(s)) : Tail(s)[i] = s[i + 1]
         /\ s[1] = Head(s)
OBVIOUS

LEMMA Shifted ==
  ASSUME NEW n \in Nat, NEW i \in 1..(n - 1)
  PROVE  /\ i + 1 \in 1..n
         /\ \A j \in 1..((i + 1) - 1) : j # 1 =>
              j - 1 \in 1..(i - 1) /\ j - 1 \in 1..(n - 1) /\ (j - 1) + 1 = j
OBVIOUS

LEMMA TailKeeps ==
  ASSUME todo \in Seq(AnyCalls), todo # <<>>, Guarded(todo, default),
         NEW d, d # "" \/ (d = default /\ X!This.op # "default")
  PROVE  Tail(todo) \in Seq(AnyCalls) /\ Guarded(Tail(todo), d)
<1>1. /\ Tail(todo) \in Seq(AnyCalls)
      /\ Len(Tail(todo)) = Len(todo) - 1 /\ Len(todo) \in Nat
      /\ \A i \in 1..Len(Tail(todo)) : Tail(todo)[i] = todo[i + 1]
      /\ todo[1] = Head(todo)
  BY TailFacts
<1>2. ASSUME openShift, NEW i \in 1..Len(Tail(todo)), Tail(todo)[i].op = "publish", d = ""
      PROVE  \E j \in 1..(i - 1) : Tail(todo)[j].op = "default"
  <2>1. default = "" /\ todo[1].op # "default"
    BY <1>1, <1>2 DEF X!This
  <2>2. /\ i + 1 \in 1..Len(todo)
        /\ \A j \in 1..((i + 1) - 1) : j # 1 =>
             /\ j - 1 \in 1..(i - 1)
             /\ j - 1 \in 1..Len(Tail(todo)) /\ (j - 1) + 1 = j
    BY <1>1, Shifted
  <2>3. todo[i + 1].op = "publish"
    BY <1>1, <1>2
  <2>4. PICK j \in 1..((i + 1) - 1) : todo[j].op = "default"
    BY <1>2, <2>1, <2>2, <2>3 DEF Guarded
  <2>5. j # 1
    BY <2>1, <2>4
  <2>6. j - 1 \in 1..(i - 1) /\ j - 1 \in 1..Len(Tail(todo)) /\ (j - 1) + 1 = j
    BY <2>2, <2>4, <2>5
  <2>7. Tail(todo)[j - 1].op = "default"
    BY <1>1, <2>4, <2>6
  <2> QED
    BY <2>6, <2>7
<1> QED
  BY <1>1, <1>2 DEF Guarded

LEMMA LeaveKeeps ==
  ASSUME PassTypes, X!Leave, queued' \in BOOLEAN
  PROVE  PassInv' /\ fresh' = FALSE
<1>1. todo' = <<>> /\ default' = "" /\ mem' = X!NoCR /\ half' = FALSE /\ fresh' = FALSE /\ missed' = missed
  BY DEF X!Leave
<1>2. PassTypes'
  BY <1>1, RecordFacts DEF PassTypes, Hosts
<1>3. todo' \in Seq(AnyCalls) /\ Len(todo') = 0
  BY <1>1, EmptySequence
<1>4. 1..Len(todo') = {}
  BY <1>3
<1>5. Guarded(todo, default)'
  BY <1>4 DEF Guarded
<1> QED
  BY <1>1, <1>2, <1>3, <1>5 DEF PassInv

(* The next call, or the end of the pass.                                  *)
LEMMA ProceedKeeps ==
  ASSUME PassInv, todo # <<>>, X!This.op # "default", X!Proceed, openShift' = openShift
  PROVE  PassInv' /\ (fresh' = FALSE \/ (fresh' = fresh /\ mem' = mem))
<1>1. CASE X!Wait
  <2>1. queued' \in BOOLEAN
    BY <1>1 DEF X!Wait, PassInv, PassTypes
  <2> QED
    BY <1>1, <2>1, LeaveKeeps DEF X!Wait, PassInv
<1>2. CASE todo' = Tail(todo) /\ half' = FALSE /\ X!Same
  <2>1. Tail(todo) \in Seq(AnyCalls) /\ Guarded(Tail(todo), default)
    BY TailKeeps DEF PassInv
  <2>2. mem' = mem /\ fresh' = fresh /\ default' = default /\ missed' = missed /\ queued' = queued
    BY <1>2 DEF X!Same
  <2>3. todo' \in Seq(AnyCalls) /\ Guarded(todo, default)'
    BY <1>2, <2>1, <2>2 DEF Guarded
  <2>4. PassTypes'
    BY <1>2, <2>2 DEF PassInv, PassTypes
  <2> QED
    BY <2>2, <2>3, <2>4 DEF PassInv
<1> QED
  BY <1>1, <1>2 DEF X!Proceed

(* The strategy is the user's, and a Route's host name stays in the CR.      *)
AsAsked ==
  /\ cr'.strategy = cr.strategy \/ X!EditCR
  /\ openShift /\ cr.cheHost # "" => cr'.cheHost # ""

(* A step that leaves the CR alone and ends the pass or goes on in it.      *)
LEMMA SameCR ==
  ASSUME CRInv, cr' = cr, crSeen' = crSeen, stale \subseteq stale',
         fresh' = FALSE \/ (fresh' = fresh /\ mem' = mem)
  PROVE  CRInv' /\ AsAsked
<1>1. /\ cr' \in X!CheCluster /\ crSeen' \in X!CheCluster
      /\ ("cr" \notin stale' => crSeen' = cr')
  BY DEF CRInv
<1>2. ASSUME ~fresh' PROVE CRInv'
  BY <1>1, <1>2 DEF CRInv
<1>3. ASSUME fresh' = fresh, mem' = mem PROVE CRInv'
  BY <1>1, <1>3 DEF CRInv
<1>4. AsAsked
  BY DEF AsAsked
<1> QED
  BY <1>2, <1>3, <1>4

LEMMA SameStore ==
  ASSUME StoreInv, api' = api, cache' = cache, stale' \subseteq X!Kinds, openShift' = openShift
  PROVE  StoreInv'
BY DEF StoreInv, Hosted, X!Is

(* A write of the CR: only a copy of its latest revision is stored.         *)
LEMMA WriteKeeps ==
  ASSUME PassInv, CRInv, StoreInv, todo # <<>>, X!This.op # "default", X!Outside,
         NEW c \in X!CheCluster, X!WriteCR(c)
  PROVE  PassInv' /\ CRInv' /\ StoreInv' /\ (cr' = cr \/ (mem = cr /\ cr' = c))
<1>0. openShift' = openShift /\ crSeen' = crSeen /\ cache' = cache /\ api' = api
  BY DEF X!Outside, X!WriteCR
<1>1. CASE UNCHANGED <<cr, stale>> /\ X!Proceed
  <2>1. PassInv' /\ (fresh' = FALSE \/ (fresh' = fresh /\ mem' = mem)) /\ cr' = cr
    BY <1>0, <1>1, ProceedKeeps
  <2>2. CRInv' /\ StoreInv'
    BY <1>0, <1>1, <2>1, SameCR, SameStore DEF StoreInv
  <2> QED
    BY <2>1, <2>2
<1>2. CASE /\ c # mem /\ fresh
           /\ cr' = c /\ mem' = c /\ stale' = stale \cup {"cr"}
           /\ todo' = Tail(todo) /\ UNCHANGED <<fresh, default, half, missed, queued>>
  <2>1. Tail(todo) \in Seq(AnyCalls) /\ Guarded(Tail(todo), default)
    BY TailKeeps DEF PassInv
  <2>2. todo' \in Seq(AnyCalls) /\ Guarded(todo, default)'
    BY <1>0, <1>2, <2>1 DEF Guarded
  <2>3. PassTypes'
    BY <1>2 DEF PassInv, PassTypes
  <2>4. StoreInv'
    BY <1>0, <1>2, SameStore DEF StoreInv, X!Kinds
  <2> QED
    BY <1>0, <1>2, <2>2, <2>3, <2>4 DEF PassInv, CRInv
<1>3. CASE UNCHANGED <<cr, stale>> /\ X!Requeue
  <2>1. PassInv' /\ fresh' = FALSE
    BY <1>3, LeaveKeeps DEF X!Requeue, PassInv
  <2> QED
    BY <1>0, <1>3, <2>1, SameCR, SameStore DEF StoreInv
<1> QED
  BY <1>1, <1>2, <1>3 DEF X!WriteCR

-----------------------------------------------------------------------------
(* Exposure: the invariant, step by step.                                  *)

LEMMA ExposureInit ==
  ASSUME ExposureConstants, X!Init
  PROVE  ExposureInv
<1>1. PassInv
  <2>1. PassTypes
    BY RecordFacts DEF X!Init, PassTypes, Hosts
  <2>2. todo \in Seq(AnyCalls) /\ Len(todo) = 0
    BY EmptySequence DEF X!Init
  <2>3. 1..Len(todo) = {}
    BY <2>2
  <2> QED
    BY <2>1, <2>2, <2>3 DEF PassInv, Guarded
<1>2. CRInv
  <2>1. PICK f \in FirstCRs :
          cr = [strategy |-> f.strategy, cheHost |-> f.cheHost, url |-> X!NoURL]
    BY DEF X!Init
  <2>2. /\ X!NoURL \in [X!Parts \cup {"server"} -> X!Hosts \cup {"", "unset"}]
        /\ f.strategy \in X!Strategies /\ f.cheHost \in X!Hosts \cup {""}
    BY <2>1 DEF X!NoURL, X!Hosts, X!Choices, ExposureConstants
  <2>3. cr \in X!CheCluster
    BY <2>1, <2>2 DEF X!CheCluster
  <2>4. ~fresh /\ crSeen = cr
    BY DEF X!Init
  <2> QED
    BY <2>3, <2>4 DEF CRInv
<1>3. StoreInv
  BY RecordFacts DEF X!Init, StoreInv, Hosted, X!Is
<1>4. openShift \in BOOLEAN /\ BoundsInv
  <2>1. openShift \in BOOLEAN /\ userOps = MaxUserOps /\ mishaps = MaxMishaps
    BY DEF X!Init, X!Choices, ExposureConstants
  <2>2. MaxUserOps \in 0..MaxUserOps /\ MaxMishaps \in 0..MaxMishaps
    BY DEF ExposureConstants
  <2> QED
    BY <2>1, <2>2 DEF BoundsInv
<1> QED
  BY <1>1, <1>2, <1>3, <1>4 DEF ExposureInv

LEMMA EditKeeps ==
  ASSUME ExposureConstants, ExposureInv, X!EditCR
  PROVE  ExposureInv' /\ AsAsked
<1>1. cr' \in X!CheCluster /\ (cr.cheHost # "" => cr'.cheHost # "")
  <2>1. cr \in X!CheCluster
    BY DEF ExposureInv, CRInv
  <2>2. CASE \E s \in X!Strategies \ {cr.strategy} : cr' = [cr EXCEPT !.strategy = s]
    BY <2>1, <2>2, RecordFacts DEF X!CheCluster
  <2>3. CASE cr' = [cr EXCEPT !.cheHost = "custom"]
    BY <2>1, <2>3, RecordFacts DEF X!CheCluster, Hosts, X!Hosts
  <2> QED
    BY <2>2, <2>3 DEF X!EditCR
<1>2. PassInv'
  BY DEF X!EditCR, ExposureInv, PassInv, PassTypes, Guarded
<1>3. CRInv'
  BY <1>1 DEF X!EditCR, ExposureInv, CRInv
<1>4. StoreInv'
  BY SameStore DEF X!EditCR, ExposureInv, StoreInv, X!Kinds
<1>5. BoundsInv' /\ openShift' \in BOOLEAN
  BY DEF X!EditCR, ExposureInv, BoundsInv, ExposureConstants
<1> QED
  BY <1>1, <1>2, <1>3, <1>4, <1>5 DEF ExposureInv, AsAsked

LEMMA SyncCacheKeeps ==
  ASSUME ExposureInv, NEW k \in X!Kinds, X!SyncCache(k)
  PROVE  ExposureInv' /\ AsAsked
<1>1. PassInv'
  BY DEF X!SyncCache, ExposureInv, PassInv, PassTypes, Guarded
<1>2. CRInv' /\ AsAsked
  BY DEF X!SyncCache, ExposureInv, CRInv, AsAsked
<1>3. StoreInv'
  <2>1. \A o \in X!Objects : cache'[o] = api[o] \/ cache'[o] = cache[o]
    BY DEF X!SyncCache
  <2>2. cache' \in [X!Objects -> X!Contents]
    BY DEF X!SyncCache, ExposureInv, StoreInv
  <2> QED
    BY <2>1, <2>2 DEF X!SyncCache, ExposureInv, StoreInv, Hosted, X!Is
<1>4. BoundsInv' /\ openShift' \in BOOLEAN
  BY DEF X!SyncCache, ExposureInv, BoundsInv
<1> QED
  BY <1>1, <1>2, <1>3, <1>4 DEF ExposureInv

LEMMA StartKeeps ==
  ASSUME ExposureConstants, ExposureInv, X!Start
  PROVE  ExposureInv' /\ AsAsked
<1>1. X!Calls \in Seq(AnyCalls) /\ Guarded(X!Calls, default)
  BY CallsGuarded DEF ExposureInv
<1>2. Guarded(todo, default)'
  BY <1>1 DEF X!Start, X!Outside, Guarded
<1>3. PassInv'
  BY <1>1, <1>2 DEF X!Start, X!Outside, ExposureInv, PassInv, PassTypes, CRInv
<1>4. CRInv' /\ AsAsked
  BY DEF X!Start, X!Outside, X!objects, ExposureInv, CRInv, AsAsked
<1>5. StoreInv'
  BY SameStore DEF X!Start, X!Outside, ExposureInv, X!objects, StoreInv
<1>6. BoundsInv' /\ openShift' \in BOOLEAN
  BY DEF X!Start, X!Outside, ExposureInv, BoundsInv
<1> QED
  BY <1>3, <1>4, <1>5, <1>6 DEF ExposureInv

LEMMA RestartKeeps ==
  ASSUME ExposureConstants, ExposureInv, X!Restart
  PROVE  ExposureInv' /\ AsAsked
<1>1. PassInv' /\ fresh' = FALSE
  BY LeaveKeeps DEF X!Restart, X!Requeue, ExposureInv, PassInv
<1>2. CRInv' /\ AsAsked
  BY <1>1 DEF X!Restart, ExposureInv, CRInv, AsAsked
<1>3. StoreInv'
  BY DEF X!Restart, ExposureInv, StoreInv, Hosted, X!Is
<1>4. BoundsInv' /\ openShift' \in BOOLEAN
  BY DEF X!Restart, ExposureInv, BoundsInv, ExposureConstants
<1> QED
  BY <1>1, <1>2, <1>3, <1>4 DEF ExposureInv

(* What a call of a pass leaves alone.                                     *)
LEMMA CallKeeps ==
  ASSUME ExposureInv, PassInv', CRInv', AsAsked, StoreInv', X!Outside,
         mishaps' \in 0..MaxMishaps
  PROVE  ExposureInv' /\ AsAsked
<1>1. openShift' \in BOOLEAN /\ BoundsInv'
  BY DEF ExposureInv, BoundsInv, X!Outside
<1> QED
  BY <1>1 DEF ExposureInv

LEMMA CallFailsKeeps ==
  ASSUME ExposureConstants, ExposureInv, X!CallFails
  PROVE  ExposureInv' /\ AsAsked
<1>0. SUFFICES PassInv' /\ (fresh' = FALSE \/ (fresh' = fresh /\ mem' = mem))
  <2>1. ASSUME PassInv', fresh' = FALSE \/ (fresh' = fresh /\ mem' = mem)
        PROVE  ExposureInv' /\ AsAsked
    <3>1. CRInv' /\ AsAsked
      BY <2>1, SameCR DEF X!CallFails, X!Outside, ExposureInv, X!objects
    <3>2. StoreInv'
      BY SameStore DEF X!CallFails, X!Outside, ExposureInv, X!objects, StoreInv
    <3>3. mishaps' \in 0..MaxMishaps
      BY DEF X!CallFails, ExposureInv, BoundsInv, ExposureConstants
    <3> QED
      BY <2>1, <3>1, <3>2, <3>3, CallKeeps DEF X!CallFails
  <2> QED
    BY <2>1
<1>1. todo # <<>> /\ PassInv /\ openShift' = openShift
  BY DEF X!CallFails, X!Outside, ExposureInv
<1>2. CASE X!This.op = "delete" /\ X!This.lax
  <2>1. UNCHANGED <<mem, fresh, default, half, queued>> /\ missed' = TRUE
    BY <1>2 DEF X!CallFails
  <2>2. CASE X!Obj = X!Gateway("traefik")
    <3>1. X!Gateway("access") \in X!Objects
      <4>1. X!GatewayParts[1] = "access"
        BY DEF X!GatewayParts
      <4>2. X!Gateway(X!GatewayParts[1]) \in X!Objects
        BY ObjectFacts
      <4> QED
        BY <4>1, <4>2
    <3> DEFINE c == X!Call("delete", X!Gateway("access"), TRUE)
    <3>2. c \in AnyCalls /\ c.op = "delete"
      BY <3>1, CallTypes DEF LaterOps
    <3>3. todo' = <<c>>
      BY <1>2, <2>2 DEF X!CallFails
    <3> HIDE DEF c
    <3>4. todo' \in Seq(AnyCalls) /\ Len(todo') = 1 /\ todo'[1] = c
      BY <3>2, <3>3
    <3>5. \A i \in 1..Len(todo') : todo'[i].op # "publish"
      BY <3>2, <3>4
    <3>6. Guarded(todo, default)'
      BY <3>5 DEF Guarded
    <3>7. PassInv'
      BY <1>1, <2>1, <3>4, <3>6 DEF PassInv, PassTypes
    <3> QED
      BY <2>1, <3>7
  <2>3. CASE X!Obj # X!Gateway("traefik")
    <3>1. todo' = Tail(todo)
      BY <1>2, <2>3 DEF X!CallFails
    <3>2. Tail(todo) \in Seq(AnyCalls) /\ Guarded(Tail(todo), default)
      BY <1>1, <1>2, TailKeeps DEF PassInv
    <3>3. Guarded(todo, default)'
      BY <1>1, <2>1, <3>1, <3>2 DEF Guarded
    <3>4. PassInv'
      BY <1>1, <2>1, <3>1, <3>2, <3>3 DEF PassInv, PassTypes
    <3> QED
      BY <2>1, <3>4
  <2> QED
    BY <2>2, <2>3
<1>3. CASE ~(X!This.op = "delete" /\ X!This.lax)
  <2>1. X!Requeue
    BY <1>3 DEF X!CallFails
  <2> QED
    BY <1>1, <2>1, LeaveKeeps DEF X!Requeue, PassInv
<1> QED
  BY <1>2, <1>3

LEMMA SyncKeeps ==
  ASSUME ExposureConstants, ExposureInv, X!Sync
  PROVE  ExposureInv' /\ AsAsked
<1>1. /\ todo # <<>> /\ PassInv /\ StoreInv /\ openShift \in BOOLEAN
      /\ openShift' = openShift /\ cache' = cache
      /\ X!This.op # "default"
  BY DEF X!Sync, X!Outside, ExposureInv
<1>2. /\ X!Obj \in X!Objects /\ X!Wanted \in X!Contents
      /\ openShift /\ X!Obj.kind = "route" => X!Wanted.host # ""
  BY <1>1, HeadTypes, WantedTypes DEF PassInv
<1>3. StoreInv' /\ stale \subseteq stale'
  <2>1. CASE UNCHANGED X!objects
    BY <1>1, <2>1, SameStore DEF X!objects, StoreInv
  <2>2. CASE X!Store(X!Obj, X!Wanted)
    BY <1>1, <1>2, <2>2, StoreKeeps
  <2>3. CASE X!Store(X!Obj, X!Absent)
    BY <1>1, <1>2, <2>3, StoreKeeps, RecordFacts
  <2> QED
    BY <2>1, <2>2, <2>3 DEF X!Sync
<1>4. PassInv' /\ (fresh' = FALSE \/ (fresh' = fresh /\ mem' = mem))
  <2>1. CASE X!Proceed
    BY <1>1, <2>1, ProceedKeeps
  <2>2. CASE X!Wait
    <3>1. queued' \in BOOLEAN
      BY <1>1, <2>2 DEF X!Wait, PassInv, PassTypes
    <3> QED
      BY <1>1, <2>2, <3>1, LeaveKeeps DEF X!Wait, PassInv
  <2>3. CASE half' = TRUE /\ UNCHANGED todo /\ X!Same
    BY <1>1, <2>3 DEF X!Same, PassInv, PassTypes, Guarded
  <2> QED
    BY <2>1, <2>2, <2>3 DEF X!Sync
<1>5. CRInv' /\ AsAsked
  BY <1>3, <1>4, SameCR DEF X!Sync, X!Outside, ExposureInv
<1>6. X!Outside /\ mishaps' \in 0..MaxMishaps
  BY DEF X!Sync, ExposureInv, BoundsInv
<1> QED
  BY <1>3, <1>4, <1>5, <1>6, CallKeeps

LEMMA CreateAgainKeeps ==
  ASSUME ExposureConstants, ExposureInv, X!CreateAgain, half => X!This.op # "default"
  PROVE  ExposureInv' /\ AsAsked
<1>1. /\ todo # <<>> /\ PassInv /\ StoreInv /\ openShift \in BOOLEAN
      /\ openShift' = openShift /\ cache' = cache
      /\ X!This.op # "default"
  BY DEF X!CreateAgain, X!Outside, ExposureInv
<1>2. /\ X!Obj \in X!Objects /\ X!Wanted \in X!Contents
      /\ openShift /\ X!Obj.kind = "route" => X!Wanted.host # ""
  BY <1>1, HeadTypes, WantedTypes DEF PassInv
<1>3. StoreInv' /\ stale \subseteq stale'
  BY <1>1, <1>2, StoreKeeps DEF X!CreateAgain
<1>4. PassInv' /\ (fresh' = FALSE \/ (fresh' = fresh /\ mem' = mem))
  BY <1>1, ProceedKeeps DEF X!CreateAgain
<1>5. CRInv' /\ AsAsked
  BY <1>3, <1>4, SameCR DEF X!CreateAgain, X!Outside, ExposureInv
<1>6. X!Outside /\ mishaps' \in 0..MaxMishaps
  BY DEF X!CreateAgain, ExposureInv, BoundsInv
<1> QED
  BY <1>3, <1>4, <1>5, <1>6, CallKeeps

LEMMA DeleteKeeps ==
  ASSUME ExposureConstants, ExposureInv, X!Delete
  PROVE  ExposureInv' /\ AsAsked
<1>1. /\ todo # <<>> /\ PassInv /\ StoreInv
      /\ openShift' = openShift /\ cache' = cache
      /\ X!This.op # "default"
  BY DEF X!Delete, X!Outside, ExposureInv
<1>2. X!Obj \in X!Objects
  BY <1>1, HeadTypes DEF PassInv
<1>3. StoreInv' /\ stale \subseteq stale'
  <2>1. CASE UNCHANGED X!objects
    BY <1>1, <2>1, SameStore DEF X!objects, StoreInv
  <2>2. CASE X!Store(X!Obj, X!Absent)
    BY <1>1, <1>2, <2>2, StoreKeeps, RecordFacts
  <2> QED
    BY <2>1, <2>2 DEF X!Delete
<1>4. PassInv' /\ (fresh' = FALSE \/ (fresh' = fresh /\ mem' = mem))
  BY <1>1, ProceedKeeps DEF X!Delete
<1>5. CRInv' /\ AsAsked
  BY <1>3, <1>4, SameCR DEF X!Delete, X!Outside, ExposureInv
<1>6. X!Outside /\ mishaps' \in 0..MaxMishaps
  BY DEF X!Delete, ExposureInv, BoundsInv
<1> QED
  BY <1>3, <1>4, <1>5, <1>6, CallKeeps

LEMMA ExistsKeeps ==
  ASSUME ExposureConstants, ExposureInv, X!Exists
  PROVE  ExposureInv' /\ AsAsked
<1>1. /\ todo # <<>> /\ PassInv
      /\ openShift' = openShift /\ cache' = cache /\ UNCHANGED X!objects
      /\ X!This.op # "default"
  BY DEF X!Exists, X!Outside, ExposureInv, X!objects
<1>2. StoreInv'
  BY <1>1, SameStore DEF ExposureInv, StoreInv, X!objects
<1>3. PassInv' /\ (fresh' = FALSE \/ (fresh' = fresh /\ mem' = mem))
  <2>1. CASE X!Proceed
    BY <1>1, <2>1, ProceedKeeps
  <2>2. CASE X!Wait
    <3>1. queued' \in BOOLEAN
      BY <1>1, <2>2 DEF X!Wait, PassInv, PassTypes
    <3> QED
      BY <1>1, <2>2, <3>1, LeaveKeeps DEF X!Wait, PassInv
  <2> QED
    BY <2>1, <2>2 DEF X!Exists
<1>4. CRInv' /\ AsAsked
  BY <1>1, <1>3, SameCR DEF X!Exists, X!Outside, ExposureInv, X!objects
<1>5. X!Outside /\ mishaps' \in 0..MaxMishaps
  BY DEF X!Exists, ExposureInv, BoundsInv
<1> QED
  BY <1>2, <1>3, <1>4, <1>5, CallKeeps

LEMMA DetectKeeps ==
  ASSUME ExposureConstants, ExposureInv, X!DetectDefaultCheHost
  PROVE  ExposureInv' /\ AsAsked
<1>1. /\ todo # <<>> /\ PassInv /\ StoreInv
      /\ openShift' = openShift /\ cache' = cache /\ UNCHANGED X!objects
      /\ X!This.op = "default"
  BY DEF X!DetectDefaultCheHost, X!Outside, ExposureInv, X!objects
<1>2. X!Obj = X!ServerRoute /\ X!Obj \in X!Objects
  BY <1>1, HeadTypes DEF PassInv, ServerOps
<1>3. StoreInv'
  BY <1>1, SameStore DEF StoreInv, X!objects
<1>4. PassInv' /\ (fresh' = FALSE \/ (fresh' = fresh /\ mem' = mem))
  <2>1. CASE X!Is(cache, X!Obj)
    <3> DEFINE h == cache[X!Obj].host
    <3>1. todo' = Tail(todo) /\ default' = h /\ UNCHANGED <<mem, fresh, half, missed, queued>>
      BY <2>1 DEF X!DetectDefaultCheHost
    <3>2. (openShift => h # "") /\ h \in Hosts
      BY <1>1, <1>2, <2>1 DEF StoreInv, Hosted, X!ServerRoute, X!Contents, Hosts
    <3> HIDE DEF h
    <3>3. Tail(todo) \in Seq(AnyCalls)
      BY <1>1, TailFacts DEF PassInv
    <3>4. Guarded(todo, default)'
      BY <1>1, <3>1, <3>2 DEF Guarded
    <3> QED
      BY <1>1, <3>1, <3>2, <3>3, <3>4 DEF PassInv, PassTypes
  <2>2. CASE ~X!Is(cache, X!Obj)
    <3>1. X!Leave /\ queued' \in BOOLEAN
      BY <1>1, <2>2 DEF X!DetectDefaultCheHost, X!Wait, PassInv, PassTypes
    <3> QED
      BY <1>1, <3>1, LeaveKeeps DEF PassInv
  <2> QED
    BY <2>1, <2>2
<1>5. CRInv' /\ AsAsked
  BY <1>1, <1>4, SameCR DEF X!DetectDefaultCheHost, X!Outside, ExposureInv, X!objects
<1>6. X!Outside /\ mishaps' \in 0..MaxMishaps
  BY DEF X!DetectDefaultCheHost, ExposureInv, BoundsInv
<1> QED
  BY <1>3, <1>4, <1>5, <1>6, CallKeeps

(* The host that is published is that of a Route or Ingress.                *)
LEMMA PublishKeeps ==
  ASSUME ExposureConstants, ExposureInv, X!Publish
  PROVE  ExposureInv' /\ AsAsked
<1>1. /\ todo # <<>> /\ PassInv /\ StoreInv /\ CRInv
      /\ openShift' = openShift /\ cache' = cache /\ crSeen' = crSeen
      /\ X!This.op = "publish" /\ X!Outside /\ mishaps' \in 0..MaxMishaps
  BY DEF X!Publish, X!Outside, ExposureInv, BoundsInv
<1>2. X!Obj = X!ServerRoute /\ X!Obj \in X!Objects
  BY <1>1, HeadTypes DEF PassInv, ServerOps
<1>4. CASE X!Is(cache, X!Obj)
  <2> DEFINE h == cache[X!Obj].host
             c == [mem EXCEPT !.cheHost = h]
  <2>1. (openShift => h # "") /\ h \in Hosts
    BY <1>1, <1>2, <1>4 DEF StoreInv, Hosted, X!ServerRoute, X!Contents, Hosts
  <2>2. X!WriteCR(c)
    BY <1>4 DEF X!Publish
  <2>3. mem \in X!CheCluster
    BY <1>1 DEF PassInv, PassTypes
  <2> HIDE DEF h
  <2>4. c \in X!CheCluster /\ c.strategy = mem.strategy /\ c.cheHost = h
    BY <2>1, <2>3, RecordFacts DEF X!CheCluster
  <2> HIDE DEF c
  <2>5. PassInv' /\ CRInv' /\ StoreInv' /\ (cr' = cr \/ (mem = cr /\ cr' = c))
    BY <1>1, <2>2, <2>4, WriteKeeps
  <2>6. AsAsked
    BY <2>1, <2>4, <2>5 DEF AsAsked
  <2> QED
    BY <1>1, <2>5, <2>6, CallKeeps
<1>5. CASE ~X!Is(cache, X!Obj)
  <2>1. X!Leave /\ queued' \in BOOLEAN /\ cr' = cr /\ api' = api /\ stale' = stale
    BY <1>1, <1>5 DEF X!Publish, X!Wait, PassInv, PassTypes, X!objects
  <2>2. PassInv' /\ fresh' = FALSE
    BY <1>1, <2>1, LeaveKeeps DEF PassInv
  <2>3. CRInv' /\ StoreInv' /\ AsAsked
    BY <1>1, <2>1, <2>2, SameCR, SameStore DEF StoreInv
  <2> QED
    BY <1>1, <2>2, <2>3, CallKeeps
<1> QED
  BY <1>4, <1>5

LEMMA AdvertiseKeeps ==
  ASSUME ExposureConstants, ExposureInv, X!Advertise
  PROVE  ExposureInv' /\ AsAsked
<1>1. /\ todo # <<>> /\ PassInv /\ StoreInv /\ CRInv
      /\ openShift' = openShift /\ cache' = cache /\ crSeen' = crSeen
      /\ X!This.op = "advertise" /\ X!Outside /\ mishaps' \in 0..MaxMishaps
  BY DEF X!Advertise, X!Outside, ExposureInv, BoundsInv
<1>3. CASE X!Obj.name = Dashboard
  <2>1. X!Proceed /\ cr' = cr /\ api' = api /\ stale' = stale
    BY <1>3 DEF X!Advertise, X!objects
  <2>2. PassInv' /\ (fresh' = FALSE \/ (fresh' = fresh /\ mem' = mem))
    BY <1>1, <2>1, ProceedKeeps
  <2>3. CRInv' /\ StoreInv' /\ AsAsked
    BY <1>1, <2>1, <2>2, SameCR, SameStore DEF StoreInv
  <2> QED
    BY <1>1, <2>2, <2>3, CallKeeps
<1>4. CASE X!Obj.name # Dashboard
  <2> DEFINE h == IF X!Obj.kind = "config" \/ X!Obj = X!ServerRoute
                  THEN mem.cheHost ELSE X!OwnHost(X!Obj)
             c == [mem EXCEPT !.url[X!Obj.name] = h]
  <2>1. mem \in X!CheCluster
    BY <1>1 DEF PassInv, PassTypes
  <2>2. h \in Hosts
    <3>1. mem.cheHost \in Hosts
      BY <2>1 DEF X!CheCluster, Hosts
    <3>2. X!OwnHost(X!Obj) \in Hosts
      BY DEF X!OwnHost, X!Hosts, Hosts
    <3> QED
      BY <3>1, <3>2
  <2>3. X!WriteCR(c)
    BY <1>4 DEF X!Advertise
  <2> HIDE DEF h
  <2>4. c \in X!CheCluster /\ c.strategy = mem.strategy /\ c.cheHost = mem.cheHost
    <3>1. c \in X!CheCluster
      BY <2>1, <2>2, RecordFacts
    <3> QED
      BY <2>1, <3>1 DEF X!CheCluster
  <2> HIDE DEF c
  <2>5. PassInv' /\ CRInv' /\ StoreInv' /\ (cr' = cr \/ (mem = cr /\ cr' = c))
    BY <1>1, <2>3, <2>4, WriteKeeps
  <2>6. AsAsked
    BY <2>4, <2>5 DEF AsAsked
  <2> QED
    BY <1>1, <2>5, <2>6, CallKeeps
<1> QED
  BY <1>3, <1>4

(* Between delete and create of a Route, the call that did the first is     *)
(* still the next one.                                                     *)
HalfInv == half => todo # <<>> /\ X!This.op \in {"sync", "detect"}

LEMMA HalfKeeps ==
  ASSUME ExposureInv, HalfInv, [X!Next]_X!vars
  PROVE  HalfInv'
<1>1. half \in BOOLEAN
  BY DEF ExposureInv, PassInv, PassTypes
<1>2. ASSUME half' = FALSE PROVE HalfInv'
  BY <1>2 DEF HalfInv
<1>3. ASSUME half' = half, todo' = todo PROVE HalfInv'
  BY <1>3 DEF HalfInv, X!This
<1>4. ASSUME half' = half, todo # <<>> => X!This.op \notin {"sync", "detect"} PROVE HalfInv'
  BY <1>1, <1>2, <1>4 DEF HalfInv
<1>5. X!Leave => half' = FALSE
  BY DEF X!Leave
<1>6. X!Proceed => half' = FALSE
  BY <1>5 DEF X!Proceed, X!Wait
<1>7. CASE X!EditCR \/ (\E k \in X!Kinds : X!SyncCache(k)) \/ UNCHANGED X!vars
  BY <1>3, <1>7 DEF X!EditCR, X!SyncCache, X!vars
<1>8. CASE X!Start
  BY <1>4, <1>8 DEF X!Start
<1>9. CASE X!CallFails
  <2>1. CASE X!This.op = "delete" /\ X!This.lax
    BY <1>4, <1>9, <2>1 DEF X!CallFails
  <2>2. CASE ~(X!This.op = "delete" /\ X!This.lax)
    BY <1>2, <1>5, <1>9, <2>2 DEF X!CallFails, X!Requeue
  <2> QED
    BY <2>1, <2>2
<1>10. CASE X!Restart
  BY <1>2, <1>5, <1>10 DEF X!Restart, X!Requeue
<1>11. CASE X!Sync
  <2>1. CASE X!Proceed \/ X!Wait
    BY <1>2, <1>5, <1>6, <2>1 DEF X!Wait
  <2>2. CASE half' = TRUE /\ UNCHANGED todo
    BY <1>11, <2>2 DEF X!Sync, HalfInv, X!This
  <2> QED
    BY <1>11, <2>1, <2>2 DEF X!Sync
<1>12. CASE X!CreateAgain \/ X!Delete
  BY <1>2, <1>6, <1>12 DEF X!CreateAgain, X!Delete
<1>13. CASE X!Exists
  BY <1>2, <1>5, <1>6, <1>13 DEF X!Exists, X!Wait
<1>14. CASE X!DetectDefaultCheHost
  <2>1. CASE X!Is(cache, X!Obj)
    BY <1>4, <1>14, <2>1 DEF X!DetectDefaultCheHost
  <2>2. CASE ~X!Is(cache, X!Obj)
    BY <1>2, <1>5, <1>14, <2>2 DEF X!DetectDefaultCheHost, X!Wait
  <2> QED
    BY <2>1, <2>2
<1>15. CASE X!Publish \/ X!Advertise
  <2>1. todo # <<>> /\ X!This.op \notin {"sync", "detect"}
    BY <1>15 DEF X!Publish, X!Advertise
  <2>2. half' = half \/ half' = FALSE
    BY <1>5, <1>6, <1>15 DEF X!Publish, X!Advertise, X!WriteCR, X!Wait, X!Requeue
  <2> QED
    BY <1>2, <1>4, <2>1, <2>2
<1> QED
  BY <1>7, <1>8, <1>9, <1>10, <1>11, <1>12, <1>13, <1>14, <1>15 DEF X!Next, X!Worker

LEMMA ExposureNext ==
  ASSUME ExposureConstants, ExposureInv, HalfInv, [X!Next]_X!vars
  PROVE  ExposureInv' /\ HalfInv' /\ AsAsked
<1>1. HalfInv'
  BY HalfKeeps
<1>2. CASE X!EditCR
  BY <1>1, <1>2, EditKeeps
<1>3. CASE \E k \in X!Kinds : X!SyncCache(k)
  BY <1>1, <1>3, SyncCacheKeeps
<1>4. CASE X!CallFails
  BY <1>1, <1>4, CallFailsKeeps
<1>5. CASE X!Restart
  BY <1>1, <1>5, RestartKeeps
<1>6. CASE X!Start
  BY <1>1, <1>6, StartKeeps
<1>7. CASE X!Sync
  BY <1>1, <1>7, SyncKeeps
<1>8. CASE X!CreateAgain
  <2>1. half => X!This.op # "default"
    BY DEF HalfInv
  <2> QED
    BY <1>1, <1>8, <2>1, CreateAgainKeeps
<1>9. CASE X!Delete
  BY <1>1, <1>9, DeleteKeeps
<1>10. CASE X!Exists
  BY <1>1, <1>10, ExistsKeeps
<1>11. CASE X!DetectDefaultCheHost
  BY <1>1, <1>11, DetectKeeps
<1>12. CASE X!Publish
  BY <1>1, <1>12, PublishKeeps
<1>13. CASE X!Advertise
  BY <1>1, <1>13, AdvertiseKeeps
<1>14. CASE UNCHANGED X!vars
  BY <1>1, <1>14 DEF X!vars, ExposureInv, PassInv, PassTypes, Guarded, CRInv, StoreInv,
                     Hosted, X!Is, BoundsInv, AsAsked
<1> QED
  BY <1>2, <1>3, <1>4, <1>5, <1>6, <1>7, <1>8, <1>9, <1>10, <1>11, <1>12, <1>13, <1>14
     DEF X!Next, X!Worker

LEMMA ExposureTypes == ExposureInv => X!TypeOK
<1> SUFFICES ASSUME ExposureInv PROVE X!TypeOK
  OBVIOUS
<1>1. ASSUME openShift, todo # <<>>, Head(todo).op = "publish" PROVE default # ""
  <2>1. Len(todo) > 0 /\ Len(todo) \in Nat /\ todo[1] = Head(todo)
    BY <1>1, TailFacts DEF ExposureInv, PassInv
  <2>2. 1 \in 1..Len(todo) /\ 1..(1 - 1) = {}
    BY <2>1
  <2> QED
    BY <1>1, <2>1, <2>2 DEF ExposureInv, PassInv, Guarded
<1>2. /\ openShift \in BOOLEAN /\ cr \in X!CheCluster /\ crSeen \in X!CheCluster
      /\ mem \in X!CheCluster
      /\ api \in [X!Objects -> X!Contents] /\ cache \in [X!Objects -> X!Contents]
      /\ stale \subseteq X!Kinds /\ fresh \in BOOLEAN /\ default \in X!Hosts \cup {""}
      /\ missed \in BOOLEAN /\ half \in BOOLEAN /\ queued \in BOOLEAN
      /\ userOps \in 0..MaxUserOps /\ mishaps \in 0..MaxMishaps
  BY DEF ExposureInv, PassInv, PassTypes, CRInv, StoreInv, BoundsInv, Hosts
<1> QED
  BY <1>1, <1>2 DEF X!TypeOK

(* Type correctness, for every sequence of components.  It includes that on *)
(* OpenShift the default host is known when a host is published.           *)
THEOREM ExposureTypeCorrect ==
  ASSUME ExposureConstants PROVE X!Spec => []X!TypeOK
<1>1. X!Init => ExposureInv /\ HalfInv
  <2>1. X!Init => half = FALSE
    BY DEF X!Init
  <2> QED
    BY <2>1, ExposureInit DEF HalfInv
<1>2. ExposureInv /\ HalfInv /\ [X!Next]_X!vars => (ExposureInv /\ HalfInv)'
  BY ExposureNext
<1> QED
  BY <1>1, <1>2, ExposureTypes, PTL DEF X!Spec

(* A pass works on a copy of the CR and writes all of it back, the host and *)
(* the addresses that it found included.  Whatever the user changes in the  *)
(* meantime, whatever is stale, fails or restarts, no pass puts back another *)
(* strategy, and on OpenShift none leaves a CR that has a host name without *)
(* one.  On Kubernetes that is not so: with default-host, a name that the   *)
(* user gives while the cached Ingress has none is overwritten with nothing. *)
THEOREM StrategyIsTheUsers ==
  ASSUME ExposureConstants PROVE X!Spec => [][AsAsked]_X!vars
<1>1. X!Init => ExposureInv /\ HalfInv
  <2>1. X!Init => half = FALSE
    BY DEF X!Init
  <2> QED
    BY <2>1, ExposureInit DEF HalfInv
<1>2. ExposureInv /\ HalfInv /\ [X!Next]_X!vars => (ExposureInv /\ HalfInv)' /\ [AsAsked]_X!vars
  BY ExposureNext
<1> QED
  BY <1>1, <1>2, PTL DEF X!Spec

=============================================================================
