-------------------------- MODULE ProvisioningProofs --------------------------
(***************************************************************************)
(* Theorems about Provisioning, for every bound and every set of passwords   *)
(* that does not run out: types, and that a password the database knows is   *)
(* never taken from its Secret.  A pass from before the Secret was named     *)
(* would replace it, so what matters is when such a pass is still possible.  *)
(***************************************************************************)
EXTENDS Provisioning, FiniteSetTheorems, TLAPS

(* Whoever looks at the CR finds both Secrets named, now and for ever: a     *)
(* name is never removed.                                                  *)
Settled == Secrets \subseteq crSeen.named /\ (pc[1] # "idle" => Secrets \subseteq mem.named)

(* The database or Keycloak runs, has run or is about to.                   *)
Begun ==
  \/ postgresUp \/ db.user # None \/ db.admin # None
  \/ Is(api, "keycloak") \/ Is(cache, "keycloak")
  \/ cr.dbProvisioned \/ crSeen.dbProvisioned \/ mem.dbProvisioned
  \/ pc[1] = "record" \/ (pc[1] = "sync" /\ pc[2] = "keycloak")

(* What a copy names, the CR names; the latest copy is the CR.              *)
Copies ==
  /\ crSeen.named \subseteq cr.named /\ mem.named \subseteq cr.named
  /\ "cr" \notin stale => crSeen = cr

(* A pass replaces a Secret that its copy c does not name, by a password w,  *)
(* and comes to the database when its copy names both.                      *)
OrderAt(p, c, w) ==
  /\ p[1] \in {"delete", "create", "save"} => p[2] \notin c.named
  /\ p[1] \in {"delete", "create"} => w \in Passwords
  /\ p[1] \in {"name", "delete", "create", "save"} /\ p[2] = "admin-secret"
       => "postgres-secret" \in c.named
  /\ p[1] = "sync" /\ p[2] # "keycloak" => Secrets \subseteq c.named

(* The steps that this says nothing of.                                     *)
Plain ==
  {"idle", "rest"} \X {""} \cup {"name"} \X {"postgres-secret"}
  \cup {"drop"} \X (Deployments \cup {"pvc"}) \cup {"sync", "ssl"} \X {"keycloak"}
  \cup {"provision", "record"} \X Deployments

Deployed == Is(api, "postgres") => Secrets \subseteq cr.named

(* No Secret is empty: the "" that stands for what Keycloak has is stored    *)
(* by nobody.                                                              *)
ObjectsOK ==
  /\ \A o \in Objects : api[o] \in Values(o) /\ cache[o] \in Values(o)
  /\ \A s \in Secrets : api[s] # "" /\ cache[s] # ""
  /\ DOMAIN api = Objects /\ DOMAIN cache = Objects
  /\ stale \subseteq Kinds

CopiesOK ==
  /\ cr \in CheCluster /\ crSeen \in CheCluster /\ mem \in CheCluster
  /\ fresh \in BOOLEAN /\ (fresh => mem = cr)
  /\ Copies

PodsOK ==
  /\ db \in [user: Passwords \cup {None}, admin: Passwords \cup {None}, realm: BOOLEAN, ssl: BOOLEAN]
  /\ keycloak \in [up: BOOLEAN, admin: Passwords \cup {None}, ssl: BOOLEAN, echo: BOOLEAN]
  /\ postgresUp \in BOOLEAN

ControlOK ==
  /\ pc \in Steps /\ pwd \in Passwords \cup {None, ""}
  /\ missed \in BOOLEAN /\ queued \in BOOLEAN

BoundsOK == userOps \in Nat /\ mishaps \in Nat

ProvisioningInv ==
  /\ ObjectsOK /\ CopiesOK /\ PodsOK /\ ControlOK /\ BoundsOK
  /\ OrderAt(pc, mem, pwd) /\ Deployed
  /\ Begun => Settled

(* The caches follow the Secrets.  Once the database has begun it is what    *)
(* they hold that matters, and nothing replaces them any more.              *)
Current == "secret" \notin stale => \A s \in Secrets : cache[s] = api[s]
Seen    == Begun => \A s \in Secrets : cache[s] = api[s]

AtKeycloak == pc[1] = "sync" /\ pc[2] = "keycloak"

(* A database that was provisioned stays so in the CR, and Keycloak is       *)
(* deployed for such a CR only.                                            *)
Lasting ==
  /\ crSeen.dbProvisioned \/ mem.dbProvisioned => cr.dbProvisioned
  /\ keycloak.up \/ Is(api, "keycloak") \/ AtKeycloak => cr.dbProvisioned

AgreeInv == Current /\ Seen /\ Lasting /\ PasswordsAgree

-----------------------------------------------------------------------------
(* Facts about passwords, records and steps.                                *)

LEMMA Constants ==
  /\ "postgres-secret" \in Secrets /\ "admin-secret" \in Secrets
  /\ \A s \in Secrets : s \in {"postgres-secret", "admin-secret"}
  /\ Secrets \subseteq Objects /\ Deployments \subseteq Objects /\ "pvc" \in Objects
  /\ \A s \in Secrets : Kind(s) = "secret"
  /\ "postgres" \in Objects /\ "keycloak" \in Objects
  /\ \A o \in Objects : Kind(o) \in Kinds /\ Kind(o) # "cr"
BY DEF Secrets, Deployments, Objects, Kind, Kinds

LEMMA ValueFacts ==
  /\ \A s \in Secrets : Values(s) = {None} \cup Passwords \cup {""}
  /\ \A o \in Deployments : Values(o) = {None} \cup Deployment
  /\ Values("pvc") = {None, "bound", "terminating"}
  /\ \A o \in Objects : None \in Values(o)
  /\ Created \in Deployment
  /\ \A b \in BOOLEAN : [Created EXCEPT !.echo = b] \in Deployment
  /\ \A d \in Deployment, b \in BOOLEAN : [d EXCEPT !.ready = b] \in Deployment
<1>1. \A s \in Secrets : Values(s) = {None} \cup Passwords \cup {""}
  BY DEF Values, Secrets, Deployments
<1>2. \A o \in Deployments : Values(o) = {None} \cup Deployment
  BY DEF Values, Secrets, Deployments
<1>3. Values("pvc") = {None, "bound", "terminating"}
  BY DEF Values, Secrets, Deployments
<1>4. \A o \in Objects : None \in Values(o)
  BY <1>1, <1>2, <1>3 DEF Objects
<1>5. Created \in Deployment /\ \A b \in BOOLEAN : [Created EXCEPT !.echo = b] \in Deployment
  BY DEF Created, Deployment
<1>6. \A d \in Deployment, b \in BOOLEAN : [d EXCEPT !.ready = b] \in Deployment
  BY DEF Deployment
<1> QED
  BY <1>1, <1>2, <1>3, <1>4, <1>5, <1>6

LEMMA PasswordFacts == None # "" /\ None \notin Passwords /\ "" \notin Passwords
BY PasswordsAssumption

LEMMA OneMore ==
  ASSUME NEW S, IsFiniteSet(S), NEW n \in Nat, Cardinality(S) <= n, NEW x, NEW m \in Nat, m = n + 1
  PROVE  IsFiniteSet(S \cup {x}) /\ Cardinality(S \cup {x}) <= m
<1>1. /\ IsFiniteSet(S \cup {x})
      /\ Cardinality(S \cup {x}) = IF x \in S THEN Cardinality(S) ELSE Cardinality(S) + 1
  BY FS_AddElement
<1>2. Cardinality(S) \in Nat
  BY FS_CardinalityType
<1> QED
  BY <1>1, <1>2

LEMMA TakenFacts == IsFiniteSet(Taken) /\ Cardinality(Taken) <= 7
<1> DEFINE T0 == {}
           T1 == T0 \cup {api["postgres-secret"]}
           T2 == T1 \cup {api["admin-secret"]}
           T3 == T2 \cup {cache["postgres-secret"]}
           T4 == T3 \cup {cache["admin-secret"]}
           T5 == T4 \cup {db.user}
           T6 == T5 \cup {db.admin}
           T7 == T6 \cup {keycloak.admin}
<1>1. Taken = T7
  BY DEF Taken, Secrets
<1>2. IsFiniteSet(T0) /\ Cardinality(T0) <= 0
  BY FS_EmptySet
<1>3. \A S, x, n, m : n \in Nat /\ m \in Nat /\ m = n + 1 /\ IsFiniteSet(S) /\ Cardinality(S) <= n
                     => IsFiniteSet(S \cup {x}) /\ Cardinality(S \cup {x}) <= m
  BY OneMore
<1> HIDE DEF T0
<1>4. IsFiniteSet(T1) /\ Cardinality(T1) <= 1
  <2>1. 0 \in Nat /\ 1 \in Nat /\ 1 = 0 + 1
    OBVIOUS
  <2> QED
    BY <1>2, <1>3, <2>1
<1> HIDE DEF T1
<1>5. IsFiniteSet(T2) /\ Cardinality(T2) <= 2
  <2>1. 1 \in Nat /\ 2 \in Nat /\ 2 = 1 + 1
    OBVIOUS
  <2> QED
    BY <1>4, <1>3, <2>1
<1> HIDE DEF T2
<1>6. IsFiniteSet(T3) /\ Cardinality(T3) <= 3
  <2>1. 2 \in Nat /\ 3 \in Nat /\ 3 = 2 + 1
    OBVIOUS
  <2> QED
    BY <1>5, <1>3, <2>1
<1> HIDE DEF T3
<1>7. IsFiniteSet(T4) /\ Cardinality(T4) <= 4
  <2>1. 3 \in Nat /\ 4 \in Nat /\ 4 = 3 + 1
    OBVIOUS
  <2> QED
    BY <1>6, <1>3, <2>1
<1> HIDE DEF T4
<1>8. IsFiniteSet(T5) /\ Cardinality(T5) <= 5
  <2>1. 4 \in Nat /\ 5 \in Nat /\ 5 = 4 + 1
    OBVIOUS
  <2> QED
    BY <1>7, <1>3, <2>1
<1> HIDE DEF T5
<1>9. IsFiniteSet(T6) /\ Cardinality(T6) <= 6
  <2>1. 5 \in Nat /\ 6 \in Nat /\ 6 = 5 + 1
    OBVIOUS
  <2> QED
    BY <1>8, <1>3, <2>1
<1> HIDE DEF T6
<1>10. IsFiniteSet(T7) /\ Cardinality(T7) <= 7
  <2>1. 6 \in Nat /\ 7 \in Nat /\ 7 = 6 + 1
    OBVIOUS
  <2> QED
    BY <1>9, <1>3, <2>1
<1> HIDE DEF T7
<1> QED
  BY <1>1, <1>10

(* There is a password to generate.                                         *)
LEMMA NewPasswordExists == NewPassword \in Passwords /\ NewPassword \notin Taken
<1>1. \E p \in Passwords : p \notin Taken
  <2> SUFFICES ASSUME Passwords \subseteq Taken PROVE FALSE
    OBVIOUS
  <2>1. Cardinality(Passwords) <= Cardinality(Taken)
    BY TakenFacts, FS_Subset
  <2>2. Cardinality(Passwords) \in Nat /\ Cardinality(Taken) \in Nat
    BY TakenFacts, PasswordsAssumption, FS_CardinalityType
  <2>3. Cardinality(Taken) <= 7
    BY TakenFacts
  <2>4. Cardinality(Passwords) > 7
    BY PasswordsAssumption
  <2> QED
    BY <2>1, <2>2, <2>3, <2>4
<1> QED
  BY <1>1 DEF NewPassword

LEMMA CRFacts ==
  /\ NoCR \in CheCluster /\ NoCR.named = {} /\ NoCR.dbProvisioned = FALSE
  /\ \A c \in CheCluster :
       /\ [c EXCEPT !.multi = ~@] \in CheCluster
       /\ [c EXCEPT !.multi = ~@].named = c.named
       /\ [c EXCEPT !.multi = ~@].dbProvisioned = c.dbProvisioned
       /\ [c EXCEPT !.dbProvisioned = TRUE] \in CheCluster
       /\ [c EXCEPT !.dbProvisioned = TRUE].named = c.named
       /\ [c EXCEPT !.keycloakProvisioned = TRUE] \in CheCluster
       /\ [c EXCEPT !.keycloakProvisioned = TRUE].named = c.named
       /\ [c EXCEPT !.keycloakProvisioned = TRUE].dbProvisioned = c.dbProvisioned
       /\ \A s \in Secrets : /\ [c EXCEPT !.named = @ \cup {s}] \in CheCluster
                             /\ [c EXCEPT !.named = @ \cup {s}].named = c.named \cup {s}
                             /\ [c EXCEPT !.named = @ \cup {s}].dbProvisioned = c.dbProvisioned
<1>1. NoCR \in CheCluster /\ NoCR.named = {} /\ NoCR.dbProvisioned = FALSE
  BY DEF NoCR, CheCluster
<1> QED
  BY <1>1 DEF CheCluster

LEMMA StepFacts ==
  /\ Idle \in Plain /\ Resting \in Plain /\ Idle[1] = "idle"
  /\ Plain \subseteq Steps
  /\ \A s \in Secrets : /\ <<"name", s>> \in Steps /\ <<"delete", s>> \in Steps
                        /\ <<"create", s>> \in Steps /\ <<"save", s>> \in Steps
  /\ <<"sync", "pvc">> \in Steps /\ <<"sync", "postgres">> \in Steps
<1>1. Idle \in Plain /\ Resting \in Plain /\ Idle[1] = "idle"
  BY DEF Plain, Idle, Resting
<1>2. Plain \subseteq Steps
  BY DEF Plain, Steps, Idle, Resting, Deployments, Secrets
<1>3. \A s \in Secrets : /\ <<"name", s>> \in Steps /\ <<"delete", s>> \in Steps
                        /\ <<"create", s>> \in Steps /\ <<"save", s>> \in Steps
  BY DEF Steps
<1>4. <<"sync", "pvc">> \in Steps /\ <<"sync", "postgres">> \in Steps
  BY DEF Steps, Deployments
<1> QED
  BY <1>1, <1>2, <1>3, <1>4

LEMMA PlainIsOrdered == \A p \in Plain : \A c, w : OrderAt(p, c, w)
BY DEF OrderAt, Plain, Deployments, Secrets

-----------------------------------------------------------------------------
(* The parts of a step: a write of an object, and the worker's moves.        *)

LEMMA StoreKeeps ==
  ASSUME ObjectsOK, NEW o \in Objects, NEW v \in Values(o), o \in Secrets => v # "",
         Store(o, v), UNCHANGED cache
  PROVE  /\ ObjectsOK' /\ ("cr" \in stale => "cr" \in stale')
         /\ api'[o] = v /\ \A x \in Objects : x # o => api'[x] = api[x]
<1>1. CASE api[o] = v
  BY <1>1 DEF Store, objects, ObjectsOK
<1>2. CASE api[o] # v
  <2>1. api' = [api EXCEPT ![o] = v] /\ stale' = stale \cup {Kind(o)}
    BY <1>2 DEF Store
  <2>2. api'[o] = v /\ \A x \in Objects : x # o => api'[x] = api[x]
    BY <2>1 DEF ObjectsOK
  <2>3. \A x \in Objects : api'[x] \in Values(x) /\ cache'[x] \in Values(x)
    BY <2>2 DEF ObjectsOK
  <2>4. \A s \in Secrets : api'[s] # "" /\ cache'[s] # ""
    BY <2>2, Constants DEF ObjectsOK
  <2>5. DOMAIN api' = Objects /\ DOMAIN cache' = Objects
    BY <2>1 DEF ObjectsOK
  <2>6. stale' \subseteq Kinds
    BY <2>1, Constants DEF ObjectsOK
  <2> QED
    BY <2>1, <2>2, <2>3, <2>4, <2>5, <2>6 DEF ObjectsOK
<1> QED
  BY <1>1, <1>2

LEMMA ObjectsStay == ASSUME ObjectsOK, UNCHANGED <<objects, cache>> PROVE ObjectsOK'
BY DEF objects, ObjectsOK

(* The worker keeps its copy and has its next step, or ends its pass.       *)
Turned ==
  /\ ControlOK'
  /\ \/ UNCHANGED <<mem, fresh>> /\ OrderAt(pc', mem, pwd') /\ (pc[1] = "idle" => pc'[1] = "idle")
     \/ mem' = NoCR /\ fresh' = FALSE /\ pc' = Idle

LEMMA GoTurns ==
  ASSUME ProvisioningInv, NEW p \in Steps, Go(p), pc[1] # "idle", OrderAt(p, mem, None)
  PROVE  Turned
BY DEF Go, Turned, ProvisioningInv, ControlOK

LEMMA GoPlain ==
  ASSUME ProvisioningInv, NEW p \in Plain, Go(p), pc[1] # "idle" PROVE Turned
BY GoTurns, StepFacts, PlainIsOrdered

LEMMA LeaveTurns ==
  ASSUME ProvisioningInv, Wait \/ Requeue
  PROVE  Turned /\ mem' = NoCR /\ fresh' = FALSE /\ pc' = Idle
<1>1. Leave /\ queued' \in BOOLEAN
  BY DEF Wait, Requeue, ProvisioningInv, ControlOK
<1> QED
  BY <1>1, StepFacts DEF Leave, Turned, ProvisioningInv, ControlOK

LEMMA StayTurns ==
  ASSUME ProvisioningInv, UNCHANGED <<pc, control>> PROVE Turned
BY DEF control, Turned, ProvisioningInv, ControlOK

(* What begins, beside the worker: the step it is at and what its copy says. *)
Started ==
  \/ postgresUp \/ db.user # None \/ db.admin # None
  \/ Is(api, "keycloak") \/ Is(cache, "keycloak")
  \/ cr.dbProvisioned \/ crSeen.dbProvisioned

(* A step that does not write the CR.                                       *)
LEMMA PassKeeps ==
  ASSUME ProvisioningInv, BoundsOK', ObjectsOK', "cr" \in stale => "cr" \in stale', PodsOK',
         Turned, UNCHANGED <<cr, crSeen>>,
         Is(api', "postgres") => Is(api, "postgres") \/ Secrets \subseteq mem.named,
         Started' => Started \/ Settled,
         pc' = pc \/ (pc'[1] = "record" \/ (pc'[1] = "sync" /\ pc'[2] = "keycloak")
                       => Begun \/ Settled)
  PROVE  ProvisioningInv'
<1>1. NoCR \in CheCluster /\ NoCR.named = {} /\ NoCR.dbProvisioned = FALSE
  BY CRFacts
<1>2. CopiesOK'
  <2>1. CopiesOK /\ Copies
    BY DEF ProvisioningInv, CopiesOK
  <2>2. UNCHANGED <<mem, fresh>> \/ (mem' = NoCR /\ fresh' = FALSE)
    BY DEF Turned
  <2>3. mem' \in CheCluster /\ fresh' \in BOOLEAN /\ (fresh' => mem' = cr)
    <3>1. CASE UNCHANGED <<mem, fresh>>
      BY <2>1, <3>1 DEF CopiesOK
    <3>2. CASE mem' = NoCR /\ fresh' = FALSE
      BY <1>1, <3>2
    <3> QED
      BY <2>2, <3>1, <3>2
  <2>4. mem'.named \subseteq cr.named
    BY <1>1, <2>1, <2>2 DEF Copies
  <2>5. Copies'
    BY <2>1, <2>4 DEF Copies
  <2> QED
    BY <2>1, <2>3, <2>5 DEF CopiesOK
<1>3. ControlOK' /\ OrderAt(pc', mem', pwd')
  BY StepFacts, PlainIsOrdered DEF Turned
<1>4. OrderAt(pc, mem, pwd)'
  BY <1>3 DEF OrderAt
<1>5. Deployed'
  BY DEF ProvisioningInv, Deployed, CopiesOK, Copies, Is
<1>6. Settled => Settled'
  BY StepFacts DEF Settled, Turned
<1>7. Begun' => Begun \/ Settled
  <2>1. mem'.dbProvisioned => mem.dbProvisioned
    BY <1>1 DEF Turned
  <2>2. Started => Begun
    BY DEF Started, Begun
  <2>3. Begun' => \/ Started' \/ mem'.dbProvisioned \/ pc'[1] = "record"
                  \/ (pc'[1] = "sync" /\ pc'[2] = "keycloak")
    BY DEF Started, Begun
  <2>4. mem.dbProvisioned \/ pc[1] = "record" \/ (pc[1] = "sync" /\ pc[2] = "keycloak") => Begun
    BY DEF Begun
  <2> QED
    BY <2>1, <2>2, <2>3, <2>4
<1> QED
  BY <1>2, <1>3, <1>4, <1>5, <1>6, <1>7 DEF ProvisioningInv

LEMMA NextBounds == ProvisioningInv /\ [Next]_vars => BoundsOK'
<1> SUFFICES ASSUME ProvisioningInv, [Next]_vars PROVE BoundsOK'
  OBVIOUS
<1>1. userOps \in Nat /\ mishaps \in Nat
  BY DEF ProvisioningInv, BoundsOK
<1>2. userOps' = userOps \/ (userOps > 0 /\ userOps' = userOps - 1)
  BY DEF Next, Worker, Cluster, vars, PostgresStarts, KeycloakStarts, PodsStop, PVCGoes, External,
     CallFails, Restart, PodLost, SwitchMode, SyncCache, Outside, Start, NoCalls, SyncPVC,
     SyncDeployment, ProvisionDB, SaveDBProvisioned, Name, DeleteSecret, CreateSecret, SaveName,
     Drop, SyncKeycloakDeploymentToCluster, UpdateSSL, ProvisionKeycloakResources,
     SaveKeycloakProvisioned, Rest
<1>3. mishaps' = mishaps \/ (mishaps > 0 /\ mishaps' = mishaps - 1)
  BY DEF Next, Worker, Cluster, vars, PostgresStarts, KeycloakStarts, PodsStop, PVCGoes, External,
     CallFails, Restart, PodLost, SwitchMode, SyncCache, Outside, Start, NoCalls, SyncPVC,
     SyncDeployment, ProvisionDB, SaveDBProvisioned, Name, DeleteSecret, CreateSecret, SaveName,
     Drop, SyncKeycloakDeploymentToCluster, UpdateSSL, ProvisionKeycloakResources,
     SaveKeycloakProvisioned, Rest
<1> QED
  BY <1>1, <1>2, <1>3 DEF BoundsOK

-----------------------------------------------------------------------------
(* The pods and the objects that are not the worker's.                      *)

(* A step of the cluster, of o's pods.                                      *)
LEMMA ClusterKeeps ==
  ASSUME ProvisioningInv, BoundsOK', External, PodsOK', NEW o \in Objects, NEW v \in Values(o),
         o \notin Secrets, Store(o, v), o \in Deployments => Is(api, o),
         Started' => Started \/ Settled
  PROVE  ProvisioningInv'
<1>1. UNCHANGED <<cr, crSeen, cache, pc, control>>
  BY DEF External
<1>2. /\ ObjectsOK' /\ ("cr" \in stale => "cr" \in stale')
      /\ api'[o] = v /\ \A x \in Objects : x # o => api'[x] = api[x]
  BY <1>1, StoreKeeps DEF ProvisioningInv
<1>3. Turned
  BY <1>1, StayTurns
<1>4. Is(api', "postgres") => Is(api, "postgres")
  BY <1>2, Constants DEF Is, Deployments
<1> QED
  BY <1>1, <1>2, <1>3, <1>4, PassKeeps

LEMMA PodFacts ==
  ASSUME ProvisioningInv
  PROVE  /\ PodsOK /\ ObjectsOK /\ CopiesOK /\ ControlOK
         /\ db.user \in Passwords \cup {None} /\ db.admin \in Passwords \cup {None}
         /\ \A o \in Deployments, b \in BOOLEAN :
              Is(api, o) => [api[o] EXCEPT !.ready = b] \in Values(o) /\ api[o] \in Deployment
         /\ \A s \in Secrets : /\ Is(api, s) => api[s] \in Passwords
                               /\ Is(cache, s) => cache[s] \in Passwords
<1>1. /\ PodsOK /\ ObjectsOK /\ CopiesOK /\ ControlOK
      /\ db.user \in Passwords \cup {None} /\ db.admin \in Passwords \cup {None}
  BY DEF ProvisioningInv, PodsOK
<1>2. \A o \in Deployments, b \in BOOLEAN :
        Is(api, o) => [api[o] EXCEPT !.ready = b] \in Values(o) /\ api[o] \in Deployment
  BY <1>1, ValueFacts, Constants DEF ObjectsOK, Is
<1>3. \A s \in Secrets : /\ Is(api, s) => api[s] \in Passwords
                         /\ Is(cache, s) => cache[s] \in Passwords
  BY <1>1, ValueFacts, Constants DEF ObjectsOK, Is
<1> QED
  BY <1>1, <1>2, <1>3

LEMMA StoppedOK ==
  ASSUME PodsOK, UNCHANGED db,
         \/ postgresUp' = FALSE /\ UNCHANGED keycloak
         \/ keycloak' = NoPod /\ UNCHANGED postgresUp
  PROVE  PodsOK'
<1>1. NoPod \in [up: BOOLEAN, admin: Passwords \cup {None}, ssl: BOOLEAN, echo: BOOLEAN]
  BY DEF NoPod
<1>2. CASE postgresUp' = FALSE /\ UNCHANGED keycloak
  BY <1>2 DEF PodsOK
<1>3. CASE keycloak' = NoPod /\ UNCHANGED postgresUp
  BY <1>1, <1>3 DEF PodsOK
<1> QED
  BY <1>2, <1>3

LEMMA PostgresStartsKeeps ==
  ASSUME ProvisioningInv, BoundsOK', PostgresStarts PROVE ProvisioningInv'
<1>1. /\ External /\ Is(api, "postgres") /\ postgresUp' = TRUE /\ UNCHANGED <<db, keycloak>>
      /\ Store("postgres", [api["postgres"] EXCEPT !.ready = TRUE])
      /\ "cr" \notin stale /\ (pc = Idle \/ fresh)
  BY DEF PostgresStarts, Followed
<1>2. [api["postgres"] EXCEPT !.ready = TRUE] \in Values("postgres")
  BY <1>1, PodFacts DEF Deployments
<1>3. PodsOK'
  BY <1>1, PodFacts DEF PodsOK
<1>4. Secrets \subseteq cr.named
  BY <1>1 DEF ProvisioningInv, Deployed
<1>5. crSeen = cr /\ (pc[1] # "idle" => mem = cr)
  BY <1>1, PodFacts, StepFacts DEF CopiesOK, Copies
<1>6. Settled
  BY <1>4, <1>5 DEF Settled
<1> QED
  BY <1>1, <1>2, <1>3, <1>6, Constants, ClusterKeeps DEF Deployments, Secrets

LEMMA KeycloakStartsKeeps ==
  ASSUME ProvisioningInv, BoundsOK', KeycloakStarts PROVE ProvisioningInv'
<1>1. /\ External /\ Is(api, "keycloak") /\ postgresUp /\ UNCHANGED postgresUp
      /\ Store("keycloak", [api["keycloak"] EXCEPT !.ready = TRUE])
      /\ Is(api, "admin-secret")
      /\ db' = [db EXCEPT !.admin = IF db.admin = None THEN api["admin-secret"] ELSE db.admin]
      /\ keycloak' = [up |-> TRUE, admin |-> api["admin-secret"], ssl |-> db.ssl,
                      echo |-> api["keycloak"].echo]
  BY DEF KeycloakStarts
<1>2. /\ [api["keycloak"] EXCEPT !.ready = TRUE] \in Values("keycloak")
      /\ api["keycloak"].echo \in BOOLEAN
  BY <1>1, PodFacts DEF Deployments, Deployment
<1>3. api["admin-secret"] \in Passwords
  BY <1>1, PodFacts, Constants
<1>4. PodsOK'
  BY <1>1, <1>2, <1>3, PodFacts DEF PodsOK
<1>5. Started
  BY <1>1 DEF Started
<1> QED
  BY <1>1, <1>2, <1>4, <1>5, Constants, ClusterKeeps DEF Deployments, Secrets

LEMMA PodsStopKeeps ==
  ASSUME ProvisioningInv, BoundsOK', PodsStop PROVE ProvisioningInv'
<1>1. /\ External /\ UNCHANGED <<objects, db>>
      /\ \/ postgresUp' = FALSE /\ UNCHANGED keycloak
         \/ keycloak' = NoPod /\ UNCHANGED postgresUp
  BY DEF PodsStop
<1>2. UNCHANGED <<cr, crSeen, cache, pc, control, api, stale>>
  BY <1>1 DEF External, objects
<1>3. PodsOK'
  BY <1>1, PodFacts, StoppedOK
<1>4. ObjectsOK' /\ Turned
  BY <1>2, PodFacts, ObjectsStay, StayTurns DEF objects
<1>5. Started' => Started
  BY <1>1, <1>2 DEF Started, Is
<1> QED
  BY <1>2, <1>3, <1>4, <1>5, PassKeeps DEF Is

LEMMA PVCGoesKeeps ==
  ASSUME ProvisioningInv, BoundsOK', PVCGoes PROVE ProvisioningInv'
<1>1. /\ External /\ Store("pvc", None) /\ db' = EmptyDB /\ UNCHANGED <<postgresUp, keycloak>>
  BY DEF PVCGoes
<1>2. PodsOK'
  BY <1>1, PodFacts DEF PodsOK, EmptyDB
<1>3. /\ \A x \in Objects : x # "pvc" => api'[x] = api[x]
      /\ UNCHANGED <<cache, cr, crSeen>>
  BY <1>1, PodFacts, StoreKeeps, Constants, ValueFacts DEF External, Secrets
<1>4. Started' => Started
  BY <1>1, <1>3, Constants DEF Started, Is, EmptyDB
<1> QED
  BY <1>1, <1>2, <1>4, Constants, ValueFacts, ClusterKeeps DEF Deployments, Secrets

LEMMA PodLostKeeps ==
  ASSUME ProvisioningInv, BoundsOK', PodLost PROVE ProvisioningInv'
<1>1. External /\ UNCHANGED db
  BY DEF PodLost
<1>2. PICK o \in Deployments : /\ Is(api, o) /\ Store(o, [api[o] EXCEPT !.ready = FALSE])
                               /\ \/ postgresUp' = FALSE /\ UNCHANGED keycloak
                                  \/ keycloak' = NoPod /\ UNCHANGED postgresUp
  BY DEF PodLost, Deployments
<1>3. [api[o] EXCEPT !.ready = FALSE] \in Values(o) /\ o \in Objects /\ o \notin Secrets
  BY <1>2, PodFacts, Constants DEF Deployments, Secrets
<1>4. PodsOK'
  BY <1>1, <1>2, PodFacts, StoppedOK
<1>5. /\ \A x \in Objects : x # o => api'[x] = api[x]
      /\ UNCHANGED <<cache, cr, crSeen>>
  BY <1>1, <1>2, <1>3, PodFacts, StoreKeeps DEF External
<1>6. Is(api', "keycloak") => Is(api, "keycloak")
  BY <1>2, <1>5, Constants DEF Is
<1>7. Started' => Started
  BY <1>1, <1>2, <1>5, <1>6 DEF Started, Is
<1> QED
  BY <1>1, <1>2, <1>3, <1>4, <1>7, ClusterKeeps

-----------------------------------------------------------------------------
(* The CR: its writers, and what follows it.                                *)

(* A write of the CR that removes no name.                                  *)
LEMMA CRWriteKeeps ==
  ASSUME ProvisioningInv, BoundsOK', UNCHANGED <<api, cache, db, postgresUp, keycloak, crSeen>>,
         stale' = stale \cup {"cr"}, ControlOK',
         cr' \in CheCluster, mem' \in CheCluster, fresh' \in BOOLEAN, fresh' => mem' = cr',
         cr.named \subseteq cr'.named, mem'.named \subseteq cr'.named,
         mem.named \subseteq mem'.named, OrderAt(pc', mem', pwd'),
         pc[1] = "idle" => pc'[1] = "idle",
         cr'.dbProvisioned \/ mem'.dbProvisioned => Begun,
         pc'[1] = "record" \/ (pc'[1] = "sync" /\ pc'[2] = "keycloak") => Begun
  PROVE  ProvisioningInv'
<1>1. ObjectsOK'
  BY DEF ProvisioningInv, ObjectsOK, Kinds
<1>2. CopiesOK'
  BY DEF ProvisioningInv, CopiesOK, Copies
<1>3. PodsOK'
  BY DEF ProvisioningInv, PodsOK
<1>4. OrderAt(pc, mem, pwd)'
  BY DEF OrderAt
<1>5. Deployed'
  BY DEF ProvisioningInv, Deployed, Is
<1>6. Settled => Settled'
  BY DEF Settled
<1>7. Begun' => Begun
  BY DEF Begun, Is
<1> QED
  BY <1>1, <1>2, <1>3, <1>4, <1>5, <1>6, <1>7 DEF ProvisioningInv

LEMMA SwitchModeKeeps ==
  ASSUME ProvisioningInv, BoundsOK', SwitchMode PROVE ProvisioningInv'
<1>1. /\ cr' = [cr EXCEPT !.multi = ~@] /\ stale' = stale \cup {"cr"} /\ fresh' = FALSE
      /\ UNCHANGED <<crSeen, api, cache, db, postgresUp, keycloak, pc, mem, pwd, missed, queued>>
  BY DEF SwitchMode, pods
<1>2. /\ cr' \in CheCluster /\ cr'.named = cr.named /\ cr'.dbProvisioned = cr.dbProvisioned
      /\ mem' \in CheCluster /\ mem'.named \subseteq cr'.named
  BY <1>1, CRFacts DEF ProvisioningInv, CopiesOK, Copies
<1>3. ControlOK' /\ OrderAt(pc', mem', pwd')
  BY <1>1 DEF ProvisioningInv, ControlOK
<1>4. cr'.dbProvisioned \/ mem'.dbProvisioned => Begun
  BY <1>1, <1>2 DEF Begun
<1>5. pc'[1] = "record" \/ (pc'[1] = "sync" /\ pc'[2] = "keycloak") => Begun
  BY <1>1 DEF Begun
<1> QED
  BY <1>1, <1>2, <1>3, <1>4, <1>5, CRWriteKeeps

(* WriteCR, by a worker that adds to its copy.                              *)
LEMMA WriteCRKeeps ==
  ASSUME ProvisioningInv, BoundsOK', NEW c \in CheCluster, NEW next \in Steps, WriteCR(c, next),
         UNCHANGED <<api, cache, db, postgresUp, keycloak, crSeen>>, pc[1] # "idle",
         mem.named \subseteq c.named, c.dbProvisioned => Begun, OrderAt(next, c, None),
         next[1] = "record" \/ (next[1] = "sync" /\ next[2] = "keycloak") => Begun
  PROVE  ProvisioningInv'
<1>1. CASE fresh
  <2>1. /\ cr' = c /\ mem' = c /\ pc' = next /\ pwd' = None
        /\ stale' = stale \cup {"cr"} /\ UNCHANGED <<fresh, missed, queued>>
    BY <1>1 DEF WriteCR
  <2>2. mem = cr /\ fresh \in BOOLEAN
    BY <1>1, PodFacts DEF CopiesOK
  <2>3. ControlOK'
    BY <2>1, PodFacts DEF ControlOK
  <2> QED
    BY <2>1, <2>2, <2>3, CRWriteKeeps
<1>2. CASE ~fresh
  <2>1. Requeue /\ UNCHANGED <<cr, stale>>
    BY <1>2 DEF WriteCR
  <2>2. Turned /\ mem' = NoCR /\ fresh' = FALSE /\ pc' = Idle
    BY <2>1, LeaveTurns
  <2>3. ObjectsOK' /\ PodsOK' /\ (Started' => Started)
    BY <2>1, PodFacts DEF ObjectsOK, PodsOK, Started, Is
  <2>4. pc'[1] = "idle"
    BY <2>2, StepFacts
  <2> QED
    BY <2>1, <2>2, <2>3, <2>4, PassKeeps DEF Is
<1> QED
  BY <1>1, <1>2

LEMMA SaveNameKeeps ==
  ASSUME ProvisioningInv, BoundsOK', NEW s \in Secrets, SaveName(s) PROVE ProvisioningInv'
<1> DEFINE c == [mem EXCEPT !.named = @ \cup {s}]
<1>1. /\ pc = <<"save", s>> /\ WriteCR(c, NextOf(s))
      /\ UNCHANGED <<api, cache, db, postgresUp, keycloak, crSeen>>
  BY DEF SaveName, pods, Outside
<1>2. c \in CheCluster /\ c.named = mem.named \cup {s} /\ c.dbProvisioned = mem.dbProvisioned
  BY CRFacts, PodFacts DEF CopiesOK
<1> HIDE DEF c
<1>3. NextOf(s) \in {<<"name", "admin-secret">>, <<"sync", "pvc">>}
  BY DEF NextOf
<1>4. s = "admin-secret" => "postgres-secret" \in mem.named
  BY <1>1 DEF ProvisioningInv, OrderAt
<1>5. OrderAt(NextOf(s), c, None)
  BY <1>2, <1>4, Constants DEF NextOf, OrderAt, Secrets
<1>6. NextOf(s) \in Steps
  BY <1>3, StepFacts, Constants
<1>8. ~(NextOf(s)[1] = "record" \/ (NextOf(s)[1] = "sync" /\ NextOf(s)[2] = "keycloak"))
  <2>1. CASE NextOf(s) = <<"name", "admin-secret">>
    BY <2>1
  <2>2. CASE NextOf(s) = <<"sync", "pvc">>
    BY <2>2
  <2> QED
    BY <1>3, <2>1, <2>2
<1>7. pc[1] # "idle" /\ (c.dbProvisioned => Begun)
  BY <1>1, <1>2 DEF Begun
<1> QED
  BY <1>1, <1>2, <1>5, <1>6, <1>7, <1>8, WriteCRKeeps

LEMMA AfterDBIsPlain ==
  AfterDB \in Plain /\ AfterDB[1] \in {"sync", "drop"} /\ AfterDB[2] = "keycloak"
BY DEF AfterDB, Plain, Deployments

LEMMA SaveDBProvisionedKeeps ==
  ASSUME ProvisioningInv, BoundsOK', SaveDBProvisioned PROVE ProvisioningInv'
<1> DEFINE c == [mem EXCEPT !.dbProvisioned = TRUE]
<1>1. /\ pc = <<"record", "postgres">> /\ WriteCR(c, AfterDB)
      /\ UNCHANGED <<api, cache, db, postgresUp, keycloak, crSeen>>
  BY DEF SaveDBProvisioned, pods, Outside
<1>2. c \in CheCluster /\ c.named = mem.named
  BY CRFacts, PodFacts DEF CopiesOK
<1> HIDE DEF c
<1>3. AfterDB \in Steps /\ OrderAt(AfterDB, c, None)
  BY AfterDBIsPlain, PlainIsOrdered, StepFacts
<1>4. pc[1] # "idle" /\ Begun
  BY <1>1 DEF Begun
<1> QED
  BY <1>1, <1>2, <1>3, <1>4, WriteCRKeeps

(* The caches follow, and with them a CR of at least the same names.         *)
LEMMA FollowKeeps ==
  ASSUME ProvisioningInv, BoundsOK', ObjectsOK', ControlOK',
         UNCHANGED <<cr, api, db, postgresUp, keycloak>>,
         crSeen' = cr \/ (crSeen' = crSeen /\ ("cr" \in stale => "cr" \in stale')),
         cache'["keycloak"] \in {api["keycloak"], cache["keycloak"]},
         \/ UNCHANGED <<mem, fresh, pc, pwd>>
         \/ mem' = NoCR /\ fresh' = FALSE /\ pc' = Idle
  PROVE  ProvisioningInv'
<1>0. CopiesOK /\ Copies /\ NoCR \in CheCluster /\ NoCR.named = {} /\ NoCR.dbProvisioned = FALSE
  BY CRFacts DEF ProvisioningInv, CopiesOK
<1>1. CopiesOK'
  <2>1. CASE UNCHANGED <<mem, fresh>>
    BY <1>0, <2>1 DEF CopiesOK, Copies
  <2>2. CASE mem' = NoCR /\ fresh' = FALSE
    BY <1>0, <2>2 DEF CopiesOK, Copies
  <2> QED
    BY <2>1, <2>2
<1>2. PodsOK'
  BY DEF ProvisioningInv, PodsOK
<1>3. OrderAt(pc, mem, pwd)'
  <2>1. OrderAt(pc', mem', pwd')
    BY StepFacts, PlainIsOrdered DEF ProvisioningInv
  <2> QED
    BY <2>1 DEF OrderAt
<1>4. Deployed'
  BY DEF ProvisioningInv, Deployed, Is
<1>5. Settled => Settled'
  BY <1>0, StepFacts DEF Settled, Copies
<1>6. Begun' => Begun
  BY <1>0, StepFacts DEF Begun, Is
<1> QED
  BY <1>1, <1>2, <1>3, <1>4, <1>5, <1>6 DEF ProvisioningInv

LEMMA SyncCacheKeeps ==
  ASSUME ProvisioningInv, BoundsOK', NEW k \in Kinds, SyncCache(k) PROVE ProvisioningInv'
<1>1. /\ stale' = stale \ {k} /\ queued' = TRUE
      /\ crSeen' = IF k = "cr" THEN cr ELSE crSeen
      /\ cache' = [o \in Objects |-> IF Kind(o) = k THEN api[o] ELSE cache[o]]
      /\ UNCHANGED <<cr, api, db, postgresUp, keycloak, pc, mem, fresh, pwd, missed>>
  BY DEF SyncCache, pods
<1>2. \A o \in Objects : cache'[o] \in {api[o], cache[o]}
  BY <1>1
<1>3. ObjectsOK'
  BY <1>1, <1>2, PodFacts, Constants DEF ObjectsOK
<1>4. ControlOK'
  BY <1>1, PodFacts DEF ControlOK
<1> QED
  BY <1>1, <1>2, <1>3, <1>4, Constants, FollowKeeps

LEMMA RestartKeeps ==
  ASSUME ProvisioningInv, BoundsOK', Restart PROVE ProvisioningInv'
<1>1. /\ Requeue /\ crSeen' = cr /\ cache' = api /\ stale' = {}
      /\ UNCHANGED <<cr, api, db, postgresUp, keycloak>>
  BY DEF Restart, pods
<1>2. ObjectsOK'
  BY <1>1, PodFacts DEF ObjectsOK
<1>3. ControlOK' /\ mem' = NoCR /\ fresh' = FALSE /\ pc' = Idle
  BY <1>1, LeaveTurns DEF Turned
<1> QED
  BY <1>1, <1>2, <1>3, FollowKeeps

-----------------------------------------------------------------------------
(* The copy is taken from the cache: when a pass starts, and after a         *)
(* conflict at its end.                                                    *)
LEMMA ReadKeeps ==
  ASSUME ProvisioningInv, BoundsOK', mem' = crSeen, fresh' = ("cr" \notin stale), ControlOK',
         UNCHANGED <<cr, crSeen, api, cache, stale, db, postgresUp, keycloak>>, pc' \in Plain,
         pc'[1] = "record" \/ (pc'[1] = "sync" /\ pc'[2] = "keycloak") => Begun
  PROVE  ProvisioningInv'
<1>1. ObjectsOK'
  BY PodFacts DEF ObjectsOK
<1>2. CopiesOK'
  BY DEF ProvisioningInv, CopiesOK, Copies
<1>3. PodsOK'
  BY PodFacts DEF PodsOK
<1>4. OrderAt(pc, mem, pwd)'
  <2>1. OrderAt(pc', mem', pwd')
    BY PlainIsOrdered
  <2> QED
    BY <2>1 DEF OrderAt
<1>5. Deployed'
  BY DEF ProvisioningInv, Deployed, Is
<1>6. Settled => Settled'
  BY DEF Settled
<1>7. Begun' => Begun
  BY DEF Begun, Is
<1> QED
  BY <1>1, <1>2, <1>3, <1>4, <1>5, <1>6, <1>7 DEF ProvisioningInv

LEMMA StartKeeps ==
  ASSUME ProvisioningInv, BoundsOK', Start PROVE ProvisioningInv'
<1>1. /\ mem' = crSeen /\ fresh' = ("cr" \notin stale)
      /\ queued' = FALSE /\ missed' = FALSE /\ UNCHANGED pwd
      /\ pc' \in {<<"name", "postgres-secret">>, <<"drop", "pvc">>}
      /\ UNCHANGED <<cr, crSeen, api, cache, stale, db, postgresUp, keycloak>>
  BY DEF Start, NoCalls, Outside, objects, pods
<1>2. pc' \in Plain /\ pc'[1] \in {"name", "drop"}
  <2>1. CASE pc' = <<"name", "postgres-secret">>
    BY <2>1 DEF Plain
  <2>2. CASE pc' = <<"drop", "pvc">>
    BY <2>2 DEF Plain
  <2> QED
    BY <1>1, <2>1, <2>2
<1>3. ControlOK'
  BY <1>1, <1>2, StepFacts, PodFacts DEF ControlOK
<1> QED
  BY <1>1, <1>2, <1>3, ReadKeeps

-----------------------------------------------------------------------------
(* The rest of the worker.                                                  *)

(* A step that writes o, or no object, and neither the CR nor a pod.         *)
LEMMA ObjectStepKeeps ==
  ASSUME ProvisioningInv, BoundsOK', Turned,
         UNCHANGED <<cr, crSeen, cache, db, postgresUp, keycloak>>,
         NEW o \in Objects, NEW v \in Values(o), o \in Secrets => v # "",
         Store(o, v) \/ UNCHANGED objects,
         o = "postgres" => v = None \/ Secrets \subseteq mem.named,
         o = "keycloak" => v = None \/ Begun,
         pc'[1] = "record" \/ (pc'[1] = "sync" /\ pc'[2] = "keycloak") => Begun \/ Settled
  PROVE  ProvisioningInv'
<1>1. /\ ObjectsOK' /\ ("cr" \in stale => "cr" \in stale')
      /\ \A x \in Objects : api'[x] = api[x] \/ (x = o /\ api'[x] = v)
  BY StoreKeeps, ObjectsStay, PodFacts DEF objects
<1>2. PodsOK'
  BY PodFacts DEF PodsOK
<1>3. Is(api', "postgres") => Is(api, "postgres") \/ Secrets \subseteq mem.named
  BY <1>1, Constants DEF Is
<1>4. Is(api', "keycloak") => Is(api, "keycloak") \/ Begun
  BY <1>1, Constants DEF Is
<1>5. Started' => Started \/ Settled
  BY <1>4 DEF Started, Is, ProvisioningInv
<1> QED
  BY <1>1, <1>2, <1>3, <1>5, PassKeeps

(* No object is written.                                                    *)
LEMMA QuietStepKeeps ==
  ASSUME ProvisioningInv, BoundsOK', Turned,
         UNCHANGED <<cr, crSeen, cache, db, postgresUp, keycloak>>, UNCHANGED objects,
         pc'[1] = "record" \/ (pc'[1] = "sync" /\ pc'[2] = "keycloak") => Begun \/ Settled
  PROVE  ProvisioningInv'
<1>1. "pvc" \in Objects /\ None \in Values("pvc") /\ "pvc" \notin Secrets
  BY Constants, ValueFacts DEF Secrets
<1> QED
  BY <1>1, ObjectStepKeeps

LEMMA SaveKeycloakProvisionedKeeps ==
  ASSUME ProvisioningInv, BoundsOK', SaveKeycloakProvisioned PROVE ProvisioningInv'
<1>1. /\ pc = <<"record", "keycloak">> /\ UNCHANGED <<pwd, queued>> /\ missed' \in BOOLEAN
      /\ UNCHANGED <<api, crSeen, cache, db, postgresUp, keycloak>>
  BY PodFacts DEF SaveKeycloakProvisioned, Outside, pods, ControlOK
<1>2. pc \in Plain /\ pc[1] # "idle" /\ Begun
  BY <1>1 DEF Plain, Deployments, Begun
<1>3. CASE \/ fresh /\ cr' = [mem EXCEPT !.keycloakProvisioned = TRUE] /\ mem' = cr'
              /\ stale' = stale \cup {"cr"} /\ pc' = Resting /\ UNCHANGED fresh
  <2> DEFINE c == [mem EXCEPT !.keycloakProvisioned = TRUE]
  <2>1. /\ cr' = c /\ mem' = c /\ stale' = stale \cup {"cr"} /\ pc' = Resting
        /\ UNCHANGED fresh
    BY <1>3
  <2>2. mem = cr /\ fresh \in BOOLEAN /\ mem \in CheCluster
    BY <1>3, PodFacts DEF CopiesOK
  <2>3. c \in CheCluster /\ c.named = mem.named
    BY <2>2, CRFacts
  <2> HIDE DEF c
  <2>4. ControlOK' /\ OrderAt(pc', mem', pwd')
    BY <1>1, <2>1, PodFacts, StepFacts, PlainIsOrdered DEF ControlOK
  <2> QED
    BY <1>1, <1>2, <2>1, <2>2, <2>3, <2>4, CRWriteKeeps
<1>4. CASE mem' = crSeen /\ fresh' = ("cr" \notin stale) /\ UNCHANGED <<cr, stale, pc>>
  <2>1. ControlOK'
    BY <1>1, <1>4, PodFacts DEF ControlOK
  <2> QED
    BY <1>1, <1>2, <1>4, <2>1, ReadKeeps
<1>5. CASE pc' = Resting /\ UNCHANGED <<cr, mem, fresh, stale>>
  <2>1. ControlOK'
    BY <1>1, <1>5, PodFacts, StepFacts DEF ControlOK
  <2>2. OrderAt(pc', mem, pwd') /\ pc' = Resting
    BY <1>5, StepFacts, PlainIsOrdered
  <2>3. mem' = mem /\ fresh' = fresh
    BY <1>5
  <2>4. Turned
    BY <1>2, <2>1, <2>2, <2>3 DEF Turned
  <2>5. pc'[1] = "rest"
    BY <2>2 DEF Resting
  <2> QED
    BY <1>1, <1>5, <2>4, <2>5, QuietStepKeeps DEF objects
<1> QED
  BY <1>3, <1>4, <1>5 DEF SaveKeycloakProvisioned

LEMMA EndKeeps ==
  ASSUME ProvisioningInv, BoundsOK', Wait \/ Requeue,
         UNCHANGED <<cr, crSeen, cache, db, postgresUp, keycloak>>, UNCHANGED objects
  PROVE  ProvisioningInv'
<1>1. Turned /\ pc'[1] = "idle"
  BY LeaveTurns, StepFacts
<1> QED
  BY <1>1, QuietStepKeeps

LEMMA CallFailsKeeps ==
  ASSUME ProvisioningInv, BoundsOK', CallFails \/ Rest PROVE ProvisioningInv'
BY EndKeeps DEF CallFails, Rest, NoCalls, Outside, pods

LEMMA NameKeeps ==
  ASSUME ProvisioningInv, BoundsOK', NEW s \in Secrets, Name(s) PROVE ProvisioningInv'
<1>1. /\ pc = <<"name", s>> /\ UNCHANGED objects
      /\ UNCHANGED <<cr, crSeen, cache, db, postgresUp, keycloak>>
  BY DEF Name, NoCalls, Outside, pods
<1>2. pc[1] = "name" /\ pc[2] = s
  BY <1>1
<1>3. s = "admin-secret" => "postgres-secret" \in mem.named
  BY <1>2 DEF ProvisioningInv, OrderAt
<1>4. CASE s \in mem.named
  <2>1. Go(NextOf(s))
    BY <1>4 DEF Name
  <2>2. CASE s = "postgres-secret"
    <3>1. NextOf(s) = <<"name", "admin-secret">>
      BY <2>2 DEF NextOf
    <3>2. OrderAt(NextOf(s), mem, None)
      BY <1>4, <2>2, <3>1 DEF OrderAt
    <3>3. NextOf(s) \in Steps /\ pc[1] # "idle"
      BY <1>2, <3>1, StepFacts, Constants
    <3>4. Turned
      BY <2>1, <3>2, <3>3, GoTurns
    <3>5. pc' = <<"name", "admin-secret">>
      BY <2>1, <3>1 DEF Go
    <3>6. pc'[1] = "name" /\ pc'[2] = "admin-secret"
      BY <3>5
    <3> QED
      BY <1>1, <3>4, <3>6, QuietStepKeeps
  <2>3. CASE s = "admin-secret"
    <3>1. NextOf(s) = <<"sync", "pvc">>
      BY <2>3 DEF NextOf
    <3>2. OrderAt(NextOf(s), mem, None)
      BY <1>3, <1>4, <2>3, <3>1, Constants DEF OrderAt
    <3>3. NextOf(s) \in Steps /\ pc[1] # "idle"
      BY <1>2, <3>1, StepFacts, Constants
    <3>4. Turned
      BY <2>1, <3>2, <3>3, GoTurns
    <3>5. pc' = <<"sync", "pvc">>
      BY <2>1, <3>1 DEF Go
    <3>6. pc'[1] = "sync" /\ pc'[2] = "pvc"
      BY <3>5
    <3> QED
      BY <1>1, <3>4, <3>6, QuietStepKeeps
  <2> QED
    BY <2>2, <2>3, Constants
<1>5. CASE s \notin mem.named
  <2>1. ~Begun
    BY <1>2, <1>5 DEF ProvisioningInv, Settled
  <2>2. pwd' = NewPassword /\ UNCHANGED <<mem, fresh, missed, queued>>
    BY <1>5, <2>1 DEF Name, Begun
  <2>3. pc' = <<"delete", s>> \/ pc' = <<"create", s>>
    BY <1>5 DEF Name
  <2>4. pc' \in Steps /\ pc'[1] \in {"delete", "create"} /\ pc'[2] = s
    <3>1. CASE pc' = <<"delete", s>>
      BY <3>1, StepFacts
    <3>2. CASE pc' = <<"create", s>>
      BY <3>2, StepFacts
    <3> QED
      BY <2>3, <3>1, <3>2
  <2>5. OrderAt(pc', mem, pwd')
    BY <1>3, <1>5, <2>2, <2>4, NewPasswordExists DEF OrderAt
  <2>6. ControlOK'
    BY <2>2, <2>4, PodFacts, NewPasswordExists DEF ControlOK
  <2>7. Turned
    BY <1>2, <2>2, <2>5, <2>6 DEF Turned
  <2> QED
    BY <1>1, <2>4, <2>7, QuietStepKeeps
<1> QED
  BY <1>4, <1>5

LEMMA DeleteSecretKeeps ==
  ASSUME ProvisioningInv, BoundsOK', NEW s \in Secrets, DeleteSecret(s) PROVE ProvisioningInv'
<1>1. /\ pc = <<"delete", s>> /\ pc' = <<"create", s>> /\ Store(s, None) /\ UNCHANGED control
      /\ UNCHANGED <<cr, crSeen, cache, db, postgresUp, keycloak>>
  BY DEF DeleteSecret, Outside, pods
<1>2. pc[1] = "delete" /\ pc[2] = s /\ pc'[1] = "create" /\ pc'[2] = s /\ pc' \in Steps
  BY <1>1, StepFacts
<1>3. OrderAt(pc', mem, pwd')
  BY <1>1, <1>2 DEF ProvisioningInv, OrderAt, control
<1>4. Turned
  BY <1>1, <1>2, <1>3, PodFacts DEF Turned, ControlOK, control
<1>5. s \in Objects /\ s \notin Deployments /\ None \in Values(s) /\ None # ""
  BY PasswordFacts, Constants, ValueFacts DEF Deployments
<1> QED
  BY <1>1, <1>2, <1>4, <1>5, ObjectStepKeeps

LEMMA CreateSecretKeeps ==
  ASSUME ProvisioningInv, BoundsOK', NEW s \in Secrets, CreateSecret(s) PROVE ProvisioningInv'
<1>1. /\ pc = <<"create", s>> /\ Go(<<"save", s>>) /\ (Store(s, pwd) \/ UNCHANGED objects)
      /\ UNCHANGED <<cr, crSeen, cache, db, postgresUp, keycloak>>
  BY DEF CreateSecret, Outside, pods
<1>2. pc[1] = "create" /\ pc[2] = s /\ <<"save", s>> \in Steps
  BY <1>1, StepFacts
<1>3. OrderAt(<<"save", s>>, mem, None) /\ pwd \in Passwords
  BY <1>2 DEF ProvisioningInv, OrderAt
<1>4. Turned
  BY <1>1, <1>2, <1>3, GoTurns
<1>5. pc' = <<"save", s>>
  BY <1>1 DEF Go
<1>6. pc'[1] = "save"
  BY <1>5
<1>7. s \in Objects /\ s \notin Deployments /\ pwd \in Values(s) /\ pwd # ""
  BY <1>3, PasswordFacts, Constants, ValueFacts DEF Deployments
<1>8. s # "postgres" /\ s # "keycloak"
  BY <1>7 DEF Deployments
<1> QED
  BY <1>1, <1>4, <1>6, <1>7, <1>8, ObjectStepKeeps

LEMMA SyncPVCKeeps == ASSUME ProvisioningInv, BoundsOK', SyncPVC PROVE ProvisioningInv'
<1>1. /\ pc = <<"sync", "pvc">>
      /\ UNCHANGED <<cr, crSeen, cache, db, postgresUp, keycloak>>
  BY DEF SyncPVC, Outside, pods
<1>2. pc[1] = "sync" /\ pc[2] = "pvc" /\ <<"sync", "postgres">> \in Steps
  BY <1>1, StepFacts
<1>3. "pvc" \in Objects /\ "pvc" \notin Secrets /\ "bound" \in Values("pvc")
  BY Constants, ValueFacts DEF Secrets
<1>4. CASE Wait /\ UNCHANGED objects
  BY <1>1, <1>4, EndKeeps
<1>5. CASE Go(<<"sync", "postgres">>) /\ (Store("pvc", "bound") \/ UNCHANGED objects)
  <2>1. OrderAt(<<"sync", "postgres">>, mem, None)
    BY <1>2 DEF ProvisioningInv, OrderAt
  <2>2. Turned
    BY <1>2, <1>5, <2>1, GoTurns
  <2>3. pc' = <<"sync", "postgres">>
    BY <1>5 DEF Go
  <2>4. pc'[1] # "record" /\ pc'[2] # "keycloak"
    BY <2>3
  <2> QED
    BY <1>1, <1>3, <1>5, <2>2, <2>4, ObjectStepKeeps
<1> QED
  BY <1>4, <1>5 DEF SyncPVC

LEMMA SyncDeploymentKeeps ==
  ASSUME ProvisioningInv, BoundsOK', SyncDeployment PROVE ProvisioningInv'
<1>1. /\ pc = <<"sync", "postgres">>
      /\ UNCHANGED <<cr, crSeen, cache, db, postgresUp, keycloak>>
  BY DEF SyncDeployment, Outside, pods
<1>2. pc[1] = "sync" /\ pc[2] = "postgres" /\ <<"provision", "postgres">> \in Plain
  BY <1>1 DEF Plain, Deployments
<1>3. "postgres" \in Objects /\ "postgres" \notin Secrets /\ Created \in Values("postgres")
  BY Constants, ValueFacts DEF Secrets, Deployments
<1>4. CASE Go(<<"provision", "postgres">>) /\ UNCHANGED objects
  <2>1. Turned
    BY <1>2, <1>4, GoPlain
  <2>2. pc' = <<"provision", "postgres">>
    BY <1>4 DEF Go
  <2>3. pc'[1] = "provision"
    BY <2>2
  <2> QED
    BY <1>1, <1>4, <2>1, <2>3, QuietStepKeeps
<1>5. CASE Wait /\ (Store("postgres", Created) \/ UNCHANGED objects)
  <2>1. Turned /\ pc'[1] = "idle"
    BY <1>5, LeaveTurns, StepFacts
  <2>2. Secrets \subseteq mem.named
    BY <1>2 DEF ProvisioningInv, OrderAt
  <2> QED
    BY <1>1, <1>3, <1>5, <2>1, <2>2, ObjectStepKeeps
<1> QED
  BY <1>4, <1>5 DEF SyncDeployment

(* A step that changes the database only, while it runs or not to begin it.  *)
LEMMA DBStepKeeps ==
  ASSUME ProvisioningInv, BoundsOK', NEW p \in Plain, Go(p), pc[1] # "idle",
         UNCHANGED <<cr, crSeen, cache, postgresUp, keycloak>>, UNCHANGED objects,
         db' \in [user: Passwords \cup {None}, admin: Passwords \cup {None},
                  realm: BOOLEAN, ssl: BOOLEAN],
         postgresUp \/ (db'.user = db.user /\ db'.admin = db.admin),
         p[1] = "record" \/ (p[1] = "sync" /\ p[2] = "keycloak") => Begun
  PROVE  ProvisioningInv'
<1>1. ObjectsOK'
  BY PodFacts, ObjectsStay
<1>2. PodsOK'
  BY PodFacts DEF PodsOK
<1>3. Turned /\ pc' = p
  BY GoPlain DEF Go
<1>4. UNCHANGED <<api, stale>>
  BY DEF objects
<1>5. Started' => Started
  BY <1>4 DEF Started, Is
<1> QED
  BY <1>1, <1>2, <1>3, <1>4, <1>5, PassKeeps DEF Is

LEMMA DBFacts ==
  ASSUME PodsOK
  PROVE  LET DBs == [user: Passwords \cup {None}, admin: Passwords \cup {None},
                     realm: BOOLEAN, ssl: BOOLEAN]
         IN  /\ db \in DBs
             /\ \A p \in Passwords : [db EXCEPT !.user = p] \in DBs
             /\ [db EXCEPT !.ssl = FALSE] \in DBs
             /\ [db EXCEPT !.realm = TRUE] \in DBs
BY DEF PodsOK

LEMMA ProvisionDBKeeps == ASSUME ProvisioningInv, BoundsOK', ProvisionDB PROVE ProvisioningInv'
<1>1. /\ pc = <<"provision", "postgres">> /\ UNCHANGED objects
      /\ UNCHANGED <<cr, crSeen, cache>>
  BY DEF ProvisionDB, Outside
<1>2. pc[1] = "provision"
  BY <1>1
<1>3. CASE mem.dbProvisioned
  <2>1. Go(AfterDB) /\ UNCHANGED <<db, postgresUp, keycloak>>
    BY <1>3 DEF ProvisionDB, pods
  <2>2. Begun
    BY <1>3 DEF Begun
  <2> QED
    BY <1>1, <1>2, <2>1, <2>2, AfterDBIsPlain, PodFacts, DBFacts, DBStepKeeps
<1>4. CASE Requeue /\ UNCHANGED pods
  BY <1>1, <1>4, EndKeeps DEF pods
<1>5. CASE ~mem.dbProvisioned /\ ~(Requeue /\ UNCHANGED pods)
  <2>1. /\ Go(<<"record", "postgres">>) /\ postgresUp /\ Is(cache, "postgres-secret")
        /\ db' = IF db.user = None THEN [db EXCEPT !.user = cache["postgres-secret"]] ELSE db
        /\ UNCHANGED <<postgresUp, keycloak>>
    BY <1>5 DEF ProvisionDB
  <2>2. <<"record", "postgres">> \in Plain /\ Begun
    BY <2>1 DEF Plain, Deployments, Begun
  <2>3. cache["postgres-secret"] \in Passwords
    BY <2>1, PodFacts, Constants
  <2>4. db' \in [user: Passwords \cup {None}, admin: Passwords \cup {None},
                 realm: BOOLEAN, ssl: BOOLEAN]
    BY <2>1, <2>3, PodFacts, DBFacts
  <2> QED
    BY <1>1, <1>2, <2>1, <2>2, <2>4, DBStepKeeps
<1> QED
  BY <1>3, <1>4, <1>5

LEMMA KeycloakScriptsKeep ==
  ASSUME ProvisioningInv, BoundsOK', UpdateSSL \/ ProvisionKeycloakResources
  PROVE  ProvisioningInv'
<1>1. /\ pc[1] # "idle" /\ UNCHANGED objects
      /\ UNCHANGED <<cr, crSeen, cache, postgresUp, keycloak>>
  <2>1. pc = <<"ssl", "keycloak">> \/ pc = <<"provision", "keycloak">>
    BY DEF UpdateSSL, ProvisionKeycloakResources
  <2>2. pc[1] # "idle"
    BY <2>1
  <2> QED
    BY <2>2 DEF UpdateSSL, ProvisionKeycloakResources, Outside
<1>2. CASE Requeue /\ UNCHANGED db
  BY <1>1, <1>2, EndKeeps
<1>3. CASE /\ postgresUp
           /\ \/ db' = [db EXCEPT !.ssl = FALSE] /\ Go(<<"provision", "keycloak">>)
              \/ db' = [db EXCEPT !.realm = TRUE] /\ Go(<<"record", "keycloak">>)
  <2>1. <<"provision", "keycloak">> \in Plain /\ <<"record", "keycloak">> \in Plain
    BY DEF Plain, Deployments
  <2>2. Begun
    BY <1>3 DEF Begun
  <2> QED
    BY <1>1, <1>3, <2>1, <2>2, PodFacts, DBFacts, DBStepKeeps
<1> QED
  BY <1>2, <1>3 DEF UpdateSSL, ProvisionKeycloakResources

LEMMA DropKeeps ==
  ASSUME ProvisioningInv, BoundsOK', NEW o \in Deployments \cup {"pvc"}, NEW p \in Plain,
         p[1] \in {"drop", "provision", "rest"}, Drop(o, p)
  PROVE  ProvisioningInv'
<1> DEFINE v == IF o = "pvc" /\ postgresUp THEN "terminating" ELSE None
<1>1. /\ pc = <<"drop", o>> /\ Go(p) /\ (Store(o, v) \/ UNCHANGED objects)
      /\ UNCHANGED <<cr, crSeen, cache, postgresUp, keycloak>>
      /\ db' = EmptyDB \/ db' = db
  BY DEF Drop, Outside
<1>2. o \in Objects /\ o \notin Secrets /\ v \in Values(o) /\ (o # "pvc" => v = None)
  BY Constants, ValueFacts DEF Deployments, Secrets
<1> HIDE DEF v
<1>3. pc[1] # "idle"
  BY <1>1
<1>4. Turned
  BY <1>1, <1>3, GoPlain
<1>5. /\ ObjectsOK' /\ ("cr" \in stale => "cr" \in stale')
      /\ \A x \in Objects : api'[x] = api[x] \/ (x = o /\ api'[x] = v)
  BY <1>1, <1>2, StoreKeeps, ObjectsStay, PodFacts DEF objects
<1>6. EmptyDB \in [user: Passwords \cup {None}, admin: Passwords \cup {None},
                   realm: BOOLEAN, ssl: BOOLEAN]
  BY DEF EmptyDB
<1>7. PodsOK'
  BY <1>1, <1>6, PodFacts DEF PodsOK
<1>8. /\ Is(api', "postgres") => Is(api, "postgres")
      /\ Is(api', "keycloak") => Is(api, "keycloak")
  BY <1>2, <1>5, Constants DEF Is
<1>9. Started' => Started
  BY <1>1, <1>8 DEF Started, Is, EmptyDB
<1>10. pc'[1] # "record" /\ pc'[1] # "sync"
  BY <1>1 DEF Go
<1> QED
  BY <1>1, <1>4, <1>5, <1>7, <1>8, <1>9, <1>10, PassKeeps

LEMMA DropsKeep ==
  ASSUME ProvisioningInv, BoundsOK',
         \/ Drop("pvc", <<"drop", "postgres">>) \/ Drop("postgres", <<"provision", "postgres">>)
         \/ Drop("keycloak", Resting)
  PROVE  ProvisioningInv'
<1>1. <<"drop", "postgres">> \in Plain /\ <<"provision", "postgres">> \in Plain
  BY DEF Plain, Deployments
<1>2. Resting \in Plain /\ Resting[1] = "rest"
  BY StepFacts DEF Resting
<1>3. CASE Drop("pvc", <<"drop", "postgres">>)
  BY <1>1, <1>3, DropKeeps
<1>4. CASE Drop("postgres", <<"provision", "postgres">>)
  BY <1>1, <1>4, DropKeeps DEF Deployments
<1>5. CASE Drop("keycloak", Resting)
  BY <1>2, <1>5, DropKeeps DEF Deployments
<1> QED
  BY <1>3, <1>4, <1>5

LEMMA SyncKeycloakKeeps ==
  ASSUME ProvisioningInv, BoundsOK', SyncKeycloakDeploymentToCluster PROVE ProvisioningInv'
<1>1. /\ pc = <<"sync", "keycloak">> /\ UNCHANGED <<cr, db, postgresUp, keycloak, pwd>>
      /\ UNCHANGED <<crSeen, cache>>
  BY DEF SyncKeycloakDeploymentToCluster, Outside, pods
<1>2. pc[1] # "idle" /\ Begun
  BY <1>1 DEF Begun
<1>3. PICK b \in BOOLEAN :
        /\ missed' = (missed \/ b)
        /\ \/ /\ UNCHANGED <<objects, queued>>
              /\ \/ pc' = Resting /\ UNCHANGED <<mem, fresh>>
                 \/ pc' = <<"ssl", "keycloak">> /\ UNCHANGED <<mem, fresh>>
                 \/ pc' = Idle /\ mem' = NoCR /\ fresh' = FALSE
           \/ /\ pc' = Idle /\ mem' = NoCR /\ fresh' = FALSE
              /\ \E note \in BOOLEAN : Rollout([Created EXCEPT !.echo = note])
  <2>1. PICK answered \in BOOLEAN :
          /\ missed' = (missed \/ (Asked /\ ~answered))
          /\ LET note == Asked /\ answered /\ ~db.ssl IN
             IF Is(cache, "keycloak") /\ ~note
             THEN /\ UNCHANGED <<objects, queued>>
                  /\ IF cache["keycloak"].ready
                     THEN pc' = (IF mem.keycloakProvisioned THEN Resting ELSE <<"ssl", "keycloak">>)
                          /\ UNCHANGED <<mem, fresh>>
                     ELSE pc' = Idle /\ mem' = NoCR /\ fresh' = FALSE
             ELSE /\ pc' = Idle /\ mem' = NoCR /\ fresh' = FALSE
                  /\ Rollout([Created EXCEPT !.echo = note])
    BY DEF SyncKeycloakDeploymentToCluster
  <2>2. (Asked /\ ~answered) \in BOOLEAN /\ (Asked /\ answered /\ ~db.ssl) \in BOOLEAN
    OBVIOUS
  <2> QED
    BY <2>1, <2>2
<1>4. missed' \in BOOLEAN
  BY <1>3
<1>5. /\ queued' \in BOOLEAN
      /\ \E v \in Values("keycloak") : Store("keycloak", v) \/ UNCHANGED objects
  BY <1>3, PodFacts, ValueFacts DEF Rollout, Deployments, ControlOK
<1>6. pc' \in Plain /\ pc'[1] \in {"idle", "rest", "ssl"}
  <2>1. CASE pc' = Resting
    BY <2>1, StepFacts DEF Resting
  <2>2. CASE pc' = <<"ssl", "keycloak">>
    BY <2>2 DEF Plain
  <2>3. CASE pc' = Idle
    BY <2>3, StepFacts
  <2> QED
    BY <1>3, <2>1, <2>2, <2>3
<1>7. ControlOK'
  BY <1>1, <1>4, <1>5, <1>6, PodFacts, StepFacts DEF ControlOK
<1>8. Turned
  BY <1>2, <1>3, <1>6, <1>7, PlainIsOrdered DEF Turned
<1>9. "keycloak" \in Objects /\ "keycloak" \notin Secrets
  BY Constants DEF Secrets
<1> QED
  BY <1>1, <1>2, <1>5, <1>6, <1>8, <1>9, ObjectStepKeeps

-----------------------------------------------------------------------------
LEMMA InitProvisioning == Init => ProvisioningInv
<1> SUFFICES ASSUME Init PROVE ProvisioningInv
  OBVIOUS
<1>1. ObjectsOK
  <2>1. /\ \A o \in Objects : api[o] = None /\ cache[o] = None
        /\ DOMAIN api = Objects /\ DOMAIN cache = Objects /\ stale = {}
    BY DEF Init
  <2> QED
    BY <2>1, Constants, ValueFacts, PasswordFacts DEF ObjectsOK
<1>2. PICK m \in BOOLEAN : cr = [NoCR EXCEPT !.multi = m]
  BY DEF Init
<1>3. cr \in CheCluster /\ cr.named = {} /\ cr.dbProvisioned = FALSE
  BY <1>2 DEF NoCR, CheCluster
<1>4. CopiesOK
  BY <1>3, CRFacts DEF Init, CopiesOK, Copies
<1>5. PodsOK
  BY DEF Init, PodsOK, EmptyDB, NoPod
<1>6. ControlOK /\ BoundsOK
  BY StepFacts, BoundsAssumption DEF Init, ControlOK, BoundsOK
<1>7. OrderAt(pc, mem, pwd) /\ pc[1] = "idle"
  BY StepFacts, PlainIsOrdered DEF Init
<1>8. Deployed
  BY Constants DEF Init, Deployed, Is
<1>9. ~Begun
  BY <1>3, <1>7, CRFacts, Constants DEF Init, Begun, Is, EmptyDB
<1> QED
  BY <1>1, <1>4, <1>5, <1>6, <1>7, <1>8, <1>9 DEF ProvisioningInv

LEMMA NextProvisioning == ProvisioningInv /\ [Next]_vars => ProvisioningInv'
<1> SUFFICES ASSUME ProvisioningInv, [Next]_vars PROVE ProvisioningInv'
  OBVIOUS
<1>1. BoundsOK'
  BY NextBounds
<1>2. CASE Worker
  BY <1>1, <1>2, StartKeeps, SyncPVCKeeps, SyncDeploymentKeeps, ProvisionDBKeeps,
     SaveDBProvisionedKeeps, NameKeeps, DeleteSecretKeeps, CreateSecretKeeps, SaveNameKeeps,
     DropsKeep, SyncKeycloakKeeps, KeycloakScriptsKeep, SaveKeycloakProvisionedKeeps,
     CallFailsKeeps DEF Worker
<1>3. CASE Cluster \/ CallFails \/ Restart \/ PodLost \/ SwitchMode
  BY <1>1, <1>3, PostgresStartsKeeps, KeycloakStartsKeeps, PodsStopKeeps, PVCGoesKeeps,
     CallFailsKeeps, RestartKeeps, PodLostKeeps, SwitchModeKeeps DEF Cluster
<1>4. CASE \E k \in Kinds : SyncCache(k)
  BY <1>1, <1>4, SyncCacheKeeps
<1>5. CASE UNCHANGED vars
  <2>1. /\ UNCHANGED <<pc, control, objects>>
        /\ UNCHANGED <<cr, crSeen, cache, db, postgresUp, keycloak>>
    BY <1>5 DEF vars, control, objects
  <2>2. Turned
    BY <2>1, StayTurns
  <2>3. pc'[1] = "record" \/ (pc'[1] = "sync" /\ pc'[2] = "keycloak") => Begun
    BY <2>1 DEF Begun
  <2> QED
    BY <1>1, <2>1, <2>2, <2>3, QuietStepKeeps
<1> QED
  BY <1>2, <1>3, <1>4, <1>5 DEF Next

LEMMA AlwaysProvisioningInv == Spec => []ProvisioningInv
BY InitProvisioning, NextProvisioning, PTL DEF Spec

(* A step that replaces no Secret.                                          *)
LEMMA OthersKeepSecrets ==
  ASSUME ProvisioningInv, [Next]_vars, NEW s \in Secrets,
         \A t \in Secrets : ~DeleteSecret(t) /\ ~CreateSecret(t)
  PROVE  api'[s] = api[s]
<1>1. s \in Objects /\ s \notin Deployments /\ s # "pvc"
  BY Constants DEF Deployments
<1>2. ASSUME NEW o, o # s, NEW v, Store(o, v) PROVE api'[s] = api[s]
  BY <1>1, <1>2, PodFacts DEF Store, objects, ObjectsOK
<1>3. CASE \/ Start \/ ProvisionDB \/ SaveDBProvisioned \/ UpdateSSL \/ ProvisionKeycloakResources
           \/ SaveKeycloakProvisioned \/ Rest \/ \E t \in Secrets : Name(t) \/ SaveName(t)
  BY <1>3 DEF Start, ProvisionDB, SaveDBProvisioned, UpdateSSL, ProvisionKeycloakResources,
     SaveKeycloakProvisioned, Rest, Name, SaveName, NoCalls, objects
<1>4. CASE SyncPVC
  BY <1>1, <1>2, <1>4 DEF SyncPVC, objects
<1>5. CASE SyncDeployment
  BY <1>1, <1>2, <1>5 DEF SyncDeployment, objects, Deployments
<1>6. CASE SyncKeycloakDeploymentToCluster
  <2>1. (\E v : Store("keycloak", v)) \/ UNCHANGED objects
    BY <1>6 DEF SyncKeycloakDeploymentToCluster, Rollout
  <2> QED
    BY <1>1, <1>2, <2>1 DEF objects, Deployments
<1>7. CASE \E o \in Deployments \cup {"pvc"} : \E p : Drop(o, p)
  <2>1. PICK o \in Deployments \cup {"pvc"} : \E p : Drop(o, p)
    BY <1>7
  <2>2. (\E v : Store(o, v)) \/ UNCHANGED objects
    BY <2>1 DEF Drop
  <2> QED
    BY <1>1, <1>2, <2>2 DEF objects
<1>8. CASE Cluster \/ PodLost
  <2>1. (\E o \in Deployments \cup {"pvc"} : \E v : Store(o, v)) \/ UNCHANGED objects
    BY <1>8 DEF Cluster, PodLost, PostgresStarts, KeycloakStarts, PodsStop, PVCGoes, Deployments
  <2> QED
    BY <1>1, <1>2, <2>1 DEF objects
<1>9. CASE CallFails \/ Restart \/ SwitchMode \/ (\E k \in Kinds : SyncCache(k)) \/ UNCHANGED vars
  BY <1>9 DEF CallFails, Restart, SwitchMode, SyncCache, vars, objects
<1>10. Worker => \/ Start \/ ProvisionDB \/ SaveDBProvisioned \/ UpdateSSL
                 \/ ProvisionKeycloakResources \/ SaveKeycloakProvisioned \/ Rest
                 \/ \E t \in Secrets : Name(t) \/ SaveName(t)
                 \/ SyncPVC \/ SyncDeployment \/ SyncKeycloakDeploymentToCluster
                 \/ \E o \in Deployments \cup {"pvc"} : \E p : Drop(o, p)
  BY DEF Worker, Deployments
<1> QED
  BY <1>3, <1>4, <1>5, <1>6, <1>7, <1>8, <1>9, <1>10 DEF Next

(* Every variable has its type; no password is generated twice, no empty     *)
(* one stored.                                                             *)
THEOREM TypeCorrect == Spec => []TypeOK
<1>1. ProvisioningInv => TypeOK
  BY DEF ProvisioningInv, ObjectsOK, CopiesOK, PodsOK, ControlOK, BoundsOK, TypeOK
<1> QED
  BY <1>1, AlwaysProvisioningInv, PTL

(* Once the database has begun, by the time there is one, every pass that    *)
(* can still run has the Secrets' names in its copy of the CR.              *)
LEMMA BegunKeepsSecrets ==
  ASSUME ProvisioningInv, [Next]_vars, Begun PROVE \A s \in Secrets : api'[s] = api[s]
<1>1. Secrets \subseteq mem.named \/ pc[1] = "idle"
  BY DEF ProvisioningInv, Settled
<1>2. ASSUME NEW t \in Secrets, DeleteSecret(t) \/ CreateSecret(t) PROVE FALSE
  <2>1. CASE pc = <<"delete", t>>
    BY <1>1, <2>1 DEF ProvisioningInv, OrderAt
  <2>2. CASE pc = <<"create", t>>
    BY <1>1, <2>2 DEF ProvisioningInv, OrderAt
  <2> QED
    BY <1>2, <2>1, <2>2 DEF DeleteSecret, CreateSecret
<1> QED
  BY <1>2, OthersKeepSecrets

(* A password that the database, or Keycloak's admin in it, has been given   *)
(* is not replaced in its Secret.                                           *)
THEOREM PasswordIsKept == Spec => PasswordKept
<1> DEFINE Known(s) == IF s = "postgres-secret" THEN db.user ELSE db.admin
           Kept == \A s \in Secrets : Known(s) # None /\ api[s] = Known(s) => api'[s] = Known(s)
<1>1. ASSUME ProvisioningInv, [Next]_vars PROVE Kept
  BY <1>1, BegunKeepsSecrets DEF Begun
<1>2. ProvisioningInv /\ [Next]_vars => [Kept]_vars
  BY <1>1
<1>3. Spec => [][Kept]_vars
  BY <1>2, AlwaysProvisioningInv, PTL DEF Spec
<1> QED
  BY <1>3 DEF PasswordKept

-----------------------------------------------------------------------------
(* The database, the Secrets and Keycloak agree.                            *)

(* A write of an object leaves the caches behind the Secrets only if it says *)
(* so.                                                                     *)
LEMMA StoreStales ==
  ASSUME ProvisioningInv, NEW o \in Objects, NEW v, Store(o, v) \/ UNCHANGED objects, NEW s \in Secrets
  PROVE  /\ api'[s] = api[s] \/ "secret" \in stale'
         /\ "secret" \in stale => "secret" \in stale'
<1>1. CASE UNCHANGED objects
  BY <1>1 DEF objects
<1>2. CASE Store(o, v) /\ ~UNCHANGED objects
  <2>1. api' = [api EXCEPT ![o] = v] /\ stale' = stale \cup {Kind(o)}
    BY <1>2 DEF Store
  <2> QED
    BY <2>1, Constants, PodFacts DEF ObjectsOK
<1> QED
  BY <1>1, <1>2

(* What a step that is not the caches' writes: an object, or the CR.         *)
LEMMA StepWrites ==
  ASSUME ProvisioningInv, Worker \/ Cluster \/ CallFails \/ PodLost \/ SwitchMode \/ UNCHANGED vars
  PROVE  \/ \E o \in Objects : \E v : Store(o, v) \/ UNCHANGED objects
         \/ UNCHANGED api /\ stale' = stale \cup {"cr"}
<1>1. UNCHANGED objects => \E o \in Objects : \E v : Store(o, v) \/ UNCHANGED objects
  BY Constants
<1>2. ASSUME NEW c, NEW next, WriteCR(c, next), UNCHANGED api
      PROVE  UNCHANGED objects \/ (UNCHANGED api /\ stale' = stale \cup {"cr"})
  BY <1>2 DEF WriteCR, objects
<1>3. CASE \/ Start \/ ProvisionDB \/ UpdateSSL \/ ProvisionKeycloakResources \/ Rest
           \/ \E t \in Secrets : Name(t)
  BY <1>1, <1>3 DEF Start, ProvisionDB, UpdateSSL, ProvisionKeycloakResources, Rest, Name, NoCalls
<1>4. CASE SaveDBProvisioned \/ SaveKeycloakProvisioned \/ \E t \in Secrets : SaveName(t)
  BY <1>1, <1>2, <1>4 DEF SaveDBProvisioned, SaveKeycloakProvisioned, SaveName, objects
<1>5. CASE SyncPVC \/ SyncDeployment
  BY <1>1, <1>5, Constants DEF SyncPVC, SyncDeployment
<1>6. CASE SyncKeycloakDeploymentToCluster
  <2>1. (\E v : Store("keycloak", v)) \/ UNCHANGED objects
    BY <1>6 DEF SyncKeycloakDeploymentToCluster, Rollout
  <2> QED
    BY <1>1, <2>1, Constants
<1>7. CASE \E t \in Secrets : DeleteSecret(t) \/ CreateSecret(t)
  BY <1>1, <1>7, Constants DEF DeleteSecret, CreateSecret
<1>8. CASE \E o \in Deployments \cup {"pvc"} : \E p : Drop(o, p)
  BY <1>1, <1>8, Constants DEF Drop
<1>9. CASE Cluster \/ PodLost
  BY <1>1, <1>9, Constants DEF Cluster, PodLost, PostgresStarts, KeycloakStarts, PodsStop, PVCGoes
<1>10. CASE CallFails \/ SwitchMode \/ UNCHANGED vars
  BY <1>1, <1>10 DEF CallFails, SwitchMode, vars, objects
<1>11. Worker => \/ Start \/ ProvisionDB \/ UpdateSSL \/ ProvisionKeycloakResources \/ Rest
                 \/ SaveDBProvisioned \/ SaveKeycloakProvisioned
                 \/ \E t \in Secrets : Name(t) \/ SaveName(t) \/ DeleteSecret(t) \/ CreateSecret(t)
                 \/ SyncPVC \/ SyncDeployment \/ SyncKeycloakDeploymentToCluster
                 \/ \E o \in Deployments \cup {"pvc"} : \E p : Drop(o, p)
  BY DEF Worker, Deployments
<1> QED
  BY <1>3, <1>4, <1>5, <1>6, <1>7, <1>8, <1>9, <1>10, <1>11

(* The caches of the Secrets and their staleness, whatever the step.         *)
LEMMA SecretsFollow ==
  ASSUME ProvisioningInv, [Next]_vars, NEW s \in Secrets
  PROVE  /\ cache'[s] = cache[s] \/ cache'[s] = api'[s]
         /\ api'[s] = api[s] \/ "secret" \in stale'
         /\ "secret" \in stale => "secret" \in stale' \/ cache'[s] = api'[s]
<1>1. CASE \E k \in Kinds : SyncCache(k)
  <2>1. PICK k \in Kinds : SyncCache(k)
    BY <1>1
  <2>2. /\ stale' = stale \ {k} /\ UNCHANGED api
        /\ cache' = [o \in Objects |-> IF Kind(o) = k THEN api[o] ELSE cache[o]]
    BY <2>1 DEF SyncCache
  <2>3. cache'[s] = IF k = "secret" THEN api[s] ELSE cache[s]
    BY <2>2, Constants
  <2> QED
    BY <2>2, <2>3
<1>2. CASE Restart
  BY <1>2 DEF Restart
<1>3. CASE UNCHANGED cache /\ \E o \in Objects : \E v : Store(o, v) \/ UNCHANGED objects
  BY <1>3, StoreStales
<1>4. CASE UNCHANGED cache /\ UNCHANGED api /\ stale' = stale \cup {"cr"}
  BY <1>4
<1>5. Worker \/ Cluster \/ CallFails \/ PodLost \/ SwitchMode \/ UNCHANGED vars => UNCHANGED cache
  BY DEF Worker, Cluster, PostgresStarts, KeycloakStarts, PodsStop, PVCGoes, External, CallFails,
     PodLost, SwitchMode, Outside, Start, NoCalls, SyncPVC, SyncDeployment, ProvisionDB,
     SaveDBProvisioned, Name, DeleteSecret, CreateSecret, SaveName, Drop,
     SyncKeycloakDeploymentToCluster, UpdateSSL, ProvisionKeycloakResources,
     SaveKeycloakProvisioned, Rest, vars
<1>6. CASE Worker \/ Cluster \/ CallFails \/ PodLost \/ SwitchMode \/ UNCHANGED vars
  BY <1>3, <1>4, <1>5, <1>6, StepWrites
<1> QED
  BY <1>1, <1>2, <1>6 DEF Next

(* What a step may do to the copies of the CR, to the pods and to the next   *)
(* step of the worker.                                                     *)
CopiesMove ==
  /\ cr.dbProvisioned => cr'.dbProvisioned
  /\ cr'.dbProvisioned => cr.dbProvisioned \/ pc[1] = "record"
  /\ crSeen'.dbProvisioned => crSeen.dbProvisioned \/ cr.dbProvisioned
  /\ mem'.dbProvisioned => mem.dbProvisioned \/ crSeen.dbProvisioned \/ cr'.dbProvisioned

PodsMove ==
  /\ Is(api', "keycloak") => Is(api, "keycloak") \/ AtKeycloak
  /\ Is(cache', "keycloak") => Is(cache, "keycloak") \/ Is(api, "keycloak")
  /\ keycloak'.up => keycloak.up \/ Is(api, "keycloak")
  /\ postgresUp' => postgresUp \/ PostgresStarts
  /\ db'.user # None => db.user # None \/ postgresUp
  /\ db'.admin # None => db.admin # None \/ postgresUp

WorkerMoves ==
  /\ pc'[1] = "record" => pc[1] = "record" \/ postgresUp
  /\ AtKeycloak' => AtKeycloak \/ mem.dbProvisioned \/ cr'.dbProvisioned

LEMMA WriteCRMoves ==
  ASSUME ProvisioningInv, NEW c \in CheCluster, NEW next, WriteCR(c, next),
         mem.dbProvisioned => c.dbProvisioned, UNCHANGED crSeen,
         c.dbProvisioned => mem.dbProvisioned \/ pc[1] = "record"
  PROVE  CopiesMove
<1>1. (fresh => mem = cr) /\ NoCR.dbProvisioned = FALSE
  BY PodFacts, CRFacts DEF CopiesOK
<1>2. CASE fresh
  BY <1>1, <1>2 DEF WriteCR, CopiesMove
<1>3. CASE ~fresh
  BY <1>1, <1>3 DEF WriteCR, CopiesMove, Requeue, Leave
<1> QED
  BY <1>2, <1>3

LEMMA CopiesMoveSo == ASSUME ProvisioningInv, [Next]_vars PROVE CopiesMove
<1>1. /\ cr \in CheCluster /\ mem \in CheCluster /\ NoCR.dbProvisioned = FALSE
      /\ (fresh => mem = cr)
  BY PodFacts, CRFacts DEF CopiesOK
<1>2. CASE \E s \in Secrets : SaveName(s)
  <2>1. PICK s \in Secrets : SaveName(s)
    BY <1>2
  <2>2. /\ [mem EXCEPT !.named = @ \cup {s}] \in CheCluster
        /\ [mem EXCEPT !.named = @ \cup {s}].dbProvisioned = mem.dbProvisioned
    BY <1>1, CRFacts
  <2> QED
    BY <2>1, <2>2, WriteCRMoves DEF SaveName, Outside
<1>3. CASE SaveDBProvisioned
  <2>1. /\ [mem EXCEPT !.dbProvisioned = TRUE] \in CheCluster
        /\ [mem EXCEPT !.dbProvisioned = TRUE].dbProvisioned
        /\ pc[1] = "record"
    BY <1>1, <1>3, CRFacts DEF CheCluster, SaveDBProvisioned
  <2> QED
    BY <1>3, <2>1, WriteCRMoves DEF SaveDBProvisioned, Outside
<1>4. CASE SaveKeycloakProvisioned
  BY <1>1, <1>4, CRFacts DEF SaveKeycloakProvisioned, Outside, CopiesMove
<1>5. CASE SwitchMode
  BY <1>1, <1>5, CRFacts DEF SwitchMode, CopiesMove
<1>6. CASE Start
  BY <1>6 DEF Start, NoCalls, Outside, CopiesMove
<1>7. CASE Restart \/ \E k \in Kinds : SyncCache(k)
  BY <1>1, <1>7 DEF Restart, SyncCache, Requeue, Leave, CopiesMove
<1>8. CASE UNCHANGED <<cr, crSeen>> /\ (mem' = mem \/ mem' = NoCR)
  BY <1>1, <1>8 DEF CopiesMove
<1>9. Cluster \/ PodLost \/ UNCHANGED vars => UNCHANGED <<cr, crSeen, mem>>
  BY DEF Cluster, PodLost, PostgresStarts, KeycloakStarts, PodsStop, PVCGoes, External, control, vars
<1>10. CallFails \/ Rest \/ SyncPVC \/ SyncDeployment \/ ProvisionDB \/ UpdateSSL
       \/ ProvisionKeycloakResources => UNCHANGED <<cr, crSeen>> /\ (mem' = mem \/ mem' = NoCR)
  BY DEF CallFails, Rest, SyncPVC, SyncDeployment, ProvisionDB, UpdateSSL, Outside, NoCalls,
     ProvisionKeycloakResources, Requeue, Wait, Leave, Go
<1>11. (\E s \in Secrets : Name(s) \/ DeleteSecret(s) \/ CreateSecret(s))
       \/ (\E o, p : Drop(o, p)) => UNCHANGED <<cr, crSeen, mem>>
  BY DEF Name, DeleteSecret, CreateSecret, Drop, Outside, NoCalls, Go, control
<1>12. SyncKeycloakDeploymentToCluster => UNCHANGED <<cr, crSeen>> /\ (mem' = mem \/ mem' = NoCR)
  BY DEF SyncKeycloakDeploymentToCluster, Outside
<1> QED
  BY <1>2, <1>3, <1>4, <1>5, <1>6, <1>7, <1>8, <1>9, <1>10, <1>11, <1>12 DEF Next, Worker

LEMMA StoreMoves ==
  ASSUME ProvisioningInv, NEW o \in Objects, NEW v, Store(o, v) \/ UNCHANGED objects, NEW x \in Objects
  PROVE  api'[x] = api[x] \/ (x = o /\ api'[x] = v)
BY PodFacts DEF Store, objects, ObjectsOK

LEMMA PodsMoveSo == ASSUME ProvisioningInv, [Next]_vars PROVE PodsMove
<1> DEFINE PodsStay == UNCHANGED <<db, postgresUp, keycloak>>
           KeycloakStays == api'["keycloak"] = api["keycloak"] \/ ~Is(api', "keycloak")
<1>0. "keycloak" \in Objects /\ "postgres" \in Objects /\ "pvc" \in Objects /\ Secrets \subseteq Objects
  BY Constants
<1>1. CASE PodsStay /\ UNCHANGED cache /\ KeycloakStays
  BY <1>1 DEF PodsMove, Is
<1>2. CASE \/ Start \/ SyncPVC \/ SyncDeployment \/ SaveDBProvisioned \/ SaveKeycloakProvisioned
           \/ Rest \/ CallFails \/ SwitchMode \/ UNCHANGED vars
           \/ \E s \in Secrets : Name(s) \/ DeleteSecret(s) \/ CreateSecret(s) \/ SaveName(s)
  <2>1. PodsStay /\ UNCHANGED cache
    BY <1>2 DEF Start, SyncPVC, SyncDeployment, SaveDBProvisioned, SaveKeycloakProvisioned, Rest,
       CallFails, SwitchMode, Name, DeleteSecret, CreateSecret, SaveName, NoCalls, Outside, pods, vars
  <2>2. UNCHANGED api \/ \E o \in Secrets \cup {"pvc", "postgres"} : \E v : Store(o, v)
    BY <1>2 DEF Start, SyncPVC, SyncDeployment, SaveDBProvisioned, SaveKeycloakProvisioned, Rest,
       CallFails, SwitchMode, Name, DeleteSecret, CreateSecret, SaveName, NoCalls, objects, vars
  <2>3. \A o \in Secrets \cup {"pvc", "postgres"} : o # "keycloak"
    BY DEF Secrets
  <2> QED
    BY <1>0, <1>1, <2>1, <2>2, <2>3, StoreMoves
<1>3. CASE \E o \in Deployments \cup {"pvc"}, p \in Plain : Drop(o, p)
  <2>1. PICK o \in Deployments \cup {"pvc"} : \E p \in Plain : Drop(o, p)
    BY <1>3
  <2>2. /\ UNCHANGED <<cache, postgresUp, keycloak>> /\ (db' = db \/ db' = EmptyDB)
        /\ UNCHANGED objects \/ Store(o, None) \/ (o = "pvc" /\ Store(o, "terminating"))
    BY <2>1 DEF Drop, Outside
  <2>3. KeycloakStays
    BY <1>0, <2>1, <2>2, StoreMoves DEF Is, objects, Deployments
  <2> QED
    BY <2>2, <2>3 DEF PodsMove, Is, EmptyDB
<1>4. CASE SyncKeycloakDeploymentToCluster
  <2>1. /\ PodsStay /\ UNCHANGED cache /\ AtKeycloak
    BY <1>4 DEF SyncKeycloakDeploymentToCluster, pods, Outside, AtKeycloak
  <2> QED
    BY <2>1 DEF PodsMove, Is
<1>5. CASE ProvisionDB \/ UpdateSSL \/ ProvisionKeycloakResources
  <2>1. /\ UNCHANGED <<cache, api, postgresUp, keycloak>>
        /\ UNCHANGED db \/ postgresUp
    BY <1>5 DEF ProvisionDB, UpdateSSL, ProvisionKeycloakResources, objects, pods, Outside
  <2> QED
    BY <2>1 DEF PodsMove, Is
<1>6. CASE Restart \/ \E k \in Kinds : SyncCache(k)
  <2>1. UNCHANGED api /\ PodsStay /\ cache'["keycloak"] \in {api["keycloak"], cache["keycloak"]}
    BY <1>0, <1>6 DEF Restart, SyncCache, pods
  <2> QED
    BY <2>1 DEF PodsMove, Is
<1>7. CASE PostgresStarts
  <2>1. UNCHANGED <<db, keycloak, cache>> /\ \E v : Store("postgres", v)
    BY <1>7 DEF PostgresStarts, External
  <2>2. api'["keycloak"] = api["keycloak"]
    BY <1>0, <2>1, StoreMoves
  <2> QED
    BY <1>7, <2>1, <2>2 DEF PodsMove, Is
<1>8. CASE KeycloakStarts
  BY <1>8 DEF KeycloakStarts, PodsMove, External, Is
<1>9. CASE PodsStop
  BY <1>9 DEF PodsStop, PodsMove, External, objects, Is, NoPod
<1>10. CASE PVCGoes
  <2>1. UNCHANGED <<postgresUp, keycloak, cache>> /\ Store("pvc", None) /\ db' = EmptyDB
    BY <1>10 DEF PVCGoes, External
  <2>2. api'["keycloak"] = api["keycloak"]
    BY <1>0, <2>1, StoreMoves
  <2> QED
    BY <2>1, <2>2 DEF PodsMove, Is, EmptyDB
<1>11. CASE PodLost
  <2>1. /\ UNCHANGED <<db, cache>> /\ (postgresUp' => postgresUp) /\ (keycloak'.up => keycloak.up)
        /\ \/ \E v : Store("postgres", v)
           \/ Is(api, "keycloak")
    BY <1>11 DEF PodLost, External, NoPod
  <2>2. Is(api', "keycloak") => Is(api, "keycloak")
    BY <1>0, <2>1, StoreMoves DEF Is
  <2> QED
    BY <2>1, <2>2 DEF PodsMove, Is
<1>12. Worker => \/ Start \/ SyncPVC \/ SyncDeployment \/ SaveDBProvisioned \/ SaveKeycloakProvisioned
                 \/ Rest \/ \E s \in Secrets : Name(s) \/ DeleteSecret(s) \/ CreateSecret(s) \/ SaveName(s)
                 \/ \E o \in Deployments \cup {"pvc"}, p \in Plain : Drop(o, p)
                 \/ SyncKeycloakDeploymentToCluster
                 \/ ProvisionDB \/ UpdateSSL \/ ProvisionKeycloakResources
  BY StepFacts DEF Worker, Deployments, Plain
<1> QED
  BY <1>2, <1>3, <1>4, <1>5, <1>6, <1>7, <1>8, <1>9, <1>10, <1>11, <1>12 DEF Next, Cluster

LEMMA WorkerMovesSo == ASSUME ProvisioningInv, [Next]_vars PROVE WorkerMoves
<1>1. /\ Idle[1] = "idle" /\ Resting[1] = "rest" /\ AfterDB[1] \in {"sync", "drop"}
      /\ \A s \in Secrets : NextOf(s) \in {<<"name", "admin-secret">>, <<"sync", "pvc">>}
  BY StepFacts, AfterDBIsPlain DEF Resting, NextOf
<1>2. CASE UNCHANGED pc
  BY <1>2 DEF WorkerMoves, AtKeycloak
<1>3. CASE pc' = Idle \/ pc' = Resting
  BY <1>1, <1>3 DEF WorkerMoves, AtKeycloak
<1>4. CASE Start
  BY <1>4 DEF Start, WorkerMoves, AtKeycloak
<1>5. CASE \E s \in Secrets : Name(s) \/ DeleteSecret(s) \/ CreateSecret(s)
  <2>1. PICK s \in Secrets : Name(s) \/ DeleteSecret(s) \/ CreateSecret(s)
    BY <1>5
  <2>2. pc' \in {<<"name", "admin-secret">>, <<"sync", "pvc">>, <<"delete", s>>, <<"create", s>>,
                 <<"save", s>>}
    BY <1>1, <2>1 DEF Name, DeleteSecret, CreateSecret, Go
  <2> QED
    BY <2>2 DEF WorkerMoves, AtKeycloak
<1>6. CASE \E s \in Secrets : SaveName(s)
  BY <1>1, <1>3, <1>6 DEF SaveName, WriteCR, Requeue, Leave, WorkerMoves, AtKeycloak
<1>7. CASE SyncPVC \/ SyncDeployment
  BY <1>3, <1>7 DEF SyncPVC, SyncDeployment, Go, Wait, Leave, WorkerMoves, AtKeycloak
<1>8. CASE ProvisionDB
  BY <1>1, <1>3, <1>8 DEF ProvisionDB, Go, Requeue, Leave, WorkerMoves, AtKeycloak
<1>9. CASE SaveDBProvisioned
  <2>1. CASE fresh
    <3>1. [mem EXCEPT !.dbProvisioned = TRUE].dbProvisioned
      BY PodFacts DEF CopiesOK, CheCluster
    <3> QED
      BY <1>1, <1>9, <2>1, <3>1 DEF SaveDBProvisioned, WriteCR, WorkerMoves
  <2>2. CASE ~fresh
    BY <1>3, <1>9, <2>2 DEF SaveDBProvisioned, WriteCR, Requeue, Leave
  <2> QED
    BY <2>1, <2>2
<1>10. CASE \/ Drop("pvc", <<"drop", "postgres">>) \/ Drop("postgres", <<"provision", "postgres">>)
            \/ Drop("keycloak", Resting)
  BY <1>1, <1>10 DEF Drop, Go, WorkerMoves, AtKeycloak
<1>11. CASE SyncKeycloakDeploymentToCluster
  <2>1. pc' \in {Idle, Resting, <<"ssl", "keycloak">>}
    BY <1>11 DEF SyncKeycloakDeploymentToCluster
  <2> QED
    BY <1>3, <2>1 DEF WorkerMoves, AtKeycloak
<1>12. CASE UpdateSSL \/ ProvisionKeycloakResources
  BY <1>3, <1>12 DEF UpdateSSL, ProvisionKeycloakResources, Go, Requeue, Leave, WorkerMoves, AtKeycloak
<1>13. SaveKeycloakProvisioned => pc' = Resting \/ UNCHANGED pc
  BY DEF SaveKeycloakProvisioned
<1>14. Rest \/ CallFails \/ Restart => pc' = Idle
  BY DEF Rest, CallFails, Restart, Wait, Requeue, Leave
<1>15. Cluster \/ PodLost \/ SwitchMode \/ (\E k \in Kinds : SyncCache(k)) \/ UNCHANGED vars => UNCHANGED pc
  BY DEF Cluster, PodLost, PostgresStarts, KeycloakStarts, PodsStop, PVCGoes, External, SwitchMode,
     SyncCache, vars
<1> QED
  BY <1>2, <1>3, <1>4, <1>5, <1>6, <1>7, <1>8, <1>9, <1>10, <1>11, <1>12, <1>13, <1>14, <1>15
     DEF Next, Worker

(* The database begins with PostgreSQL's pod, and Keycloak after it.         *)
LEMMA BegunByPostgres ==
  ASSUME ProvisioningInv, [Next]_vars, Begun', ~Begun PROVE PostgresStarts
<1>1. CopiesMove /\ PodsMove /\ WorkerMoves
  BY CopiesMoveSo, PodsMoveSo, WorkerMovesSo
<1> QED
  BY <1>1 DEF CopiesMove, PodsMove, WorkerMoves, AtKeycloak, Begun

LEMMA LastingKept == ASSUME ProvisioningInv, Lasting, [Next]_vars PROVE Lasting'
<1>1. CopiesMove /\ PodsMove /\ WorkerMoves
  BY CopiesMoveSo, PodsMoveSo, WorkerMovesSo
<1>2. crSeen'.dbProvisioned \/ mem'.dbProvisioned => cr'.dbProvisioned
  BY <1>1 DEF CopiesMove, Lasting
<1>3. keycloak'.up \/ Is(api', "keycloak") \/ AtKeycloak' => cr'.dbProvisioned
  BY <1>1 DEF CopiesMove, PodsMove, WorkerMoves, Lasting
<1> QED
  BY <1>2, <1>3 DEF Lasting, Is

LEMMA CurrentKept == ASSUME ProvisioningInv, Current, [Next]_vars PROVE Current'
BY SecretsFollow DEF Current

(* The database starts when the caches have followed.                       *)
LEMMA SeenKept == ASSUME ProvisioningInv, Current, Seen, [Next]_vars PROVE Seen'
<1>1. SUFFICES ASSUME Begun', NEW s \in Secrets PROVE cache'[s] = api'[s]
  BY DEF Seen
<1>2. CASE Begun
  BY <1>2, BegunKeepsSecrets, SecretsFollow DEF Seen
<1>3. CASE ~Begun
  <2>1. PostgresStarts
    BY <1>1, <1>3, BegunByPostgres
  <2>2. cache[s] = api[s] /\ UNCHANGED cache /\ \E v : Store("postgres", v)
    BY <2>1 DEF PostgresStarts, Followed, Current, External
  <2>3. api'[s] = api[s]
    BY <2>2, Constants, StoreMoves DEF Secrets
  <2> QED
    BY <2>2, <2>3
<1> QED
  BY <1>2, <1>3

(* What the database and Keycloak's pod know of passwords stays or goes,     *)
(* unless Keycloak starts or the script runs in the database.               *)
LEMMA KnownStays ==
  ASSUME ProvisioningInv, [Next]_vars, ~KeycloakStarts, ~ProvisionDB
  PROVE  /\ db'.user \in {db.user, None} /\ db'.admin \in {db.admin, None}
         /\ keycloak' = keycloak \/ ~keycloak'.up
<1>1. CASE \/ Start \/ SyncPVC \/ SyncDeployment \/ SaveDBProvisioned \/ SaveKeycloakProvisioned
           \/ Rest \/ CallFails \/ SwitchMode \/ UNCHANGED vars \/ SyncKeycloakDeploymentToCluster
           \/ Restart \/ (\E k \in Kinds : SyncCache(k))
           \/ \E s \in Secrets : Name(s) \/ DeleteSecret(s) \/ CreateSecret(s) \/ SaveName(s)
  BY <1>1 DEF Start, SyncPVC, SyncDeployment, SaveDBProvisioned, SaveKeycloakProvisioned, Rest,
     CallFails, SwitchMode, Name, DeleteSecret, CreateSecret, SaveName, NoCalls, pods, vars,
     SyncKeycloakDeploymentToCluster, Restart, SyncCache
<1>2. CASE UpdateSSL \/ ProvisionKeycloakResources
  BY <1>2, PodFacts DEF UpdateSSL, ProvisionKeycloakResources, PodsOK
<1>3. CASE \E o, p : Drop(o, p)
  BY <1>3 DEF Drop, EmptyDB
<1>4. CASE PostgresStarts \/ PodsStop \/ PVCGoes \/ PodLost
  BY <1>4 DEF PostgresStarts, PodsStop, PVCGoes, PodLost, EmptyDB, NoPod
<1> QED
  BY <1>1, <1>2, <1>3, <1>4 DEF Next, Worker, Cluster

LEMMA AgreeKept ==
  ASSUME ProvisioningInv, AgreeInv, [Next]_vars PROVE PasswordsAgree'
<1>1. PasswordsAgree /\ (keycloak.up => Begun) /\ "admin-secret" \in Secrets
      /\ "postgres-secret" \in Secrets
  BY Constants DEF AgreeInv, Lasting, Begun
<1>2. Begun => /\ api'["postgres-secret"] = api["postgres-secret"]
               /\ api'["admin-secret"] = api["admin-secret"]
  BY <1>1, BegunKeepsSecrets
<1>3. CASE KeycloakStarts
  <2>1. /\ Begun /\ keycloak'.admin = api["admin-secret"] /\ db'.user = db.user
        /\ db'.admin = IF db.admin = None THEN api["admin-secret"] ELSE db.admin
    BY <1>3, PodFacts DEF KeycloakStarts, Begun, PodsOK
  <2> QED
    BY <1>1, <1>2, <2>1 DEF PasswordsAgree
<1>4. CASE ProvisionDB
  <2>1. UNCHANGED keycloak
    BY <1>4 DEF ProvisionDB, pods
  <2>2. CASE UNCHANGED db
    BY <1>1, <1>2, <2>1, <2>2 DEF PasswordsAgree, Begun
  <2>3. CASE ~UNCHANGED db
    <3>1. postgresUp /\ db' = [db EXCEPT !.user = cache["postgres-secret"]]
      BY <1>4, <2>3 DEF ProvisionDB, pods
    <3>2. Begun /\ db'.user = cache["postgres-secret"] /\ db'.admin = db.admin
      BY <3>1, PodFacts DEF Begun, PodsOK
    <3>3. db'.user = api["postgres-secret"]
      BY <1>1, <3>2 DEF AgreeInv, Seen
    <3> QED
      BY <1>1, <1>2, <2>1, <3>2, <3>3 DEF PasswordsAgree
  <2> QED
    BY <2>2, <2>3
<1>5. CASE ~KeycloakStarts /\ ~ProvisionDB
  BY <1>1, <1>2, <1>5, KnownStays DEF PasswordsAgree, Begun
<1> QED
  BY <1>3, <1>4, <1>5

LEMMA InitAgree == Init => AgreeInv
<1> SUFFICES ASSUME Init PROVE AgreeInv
  OBVIOUS
<1>1. PICK m \in BOOLEAN : cr = [NoCR EXCEPT !.multi = m]
  BY DEF Init
<1>2. cr.dbProvisioned = FALSE /\ NoCR.dbProvisioned = FALSE
  BY <1>1 DEF NoCR
<1>3. Current /\ Seen
  BY DEF Init, Current, Seen
<1>4. Lasting
  BY <1>2, StepFacts, Constants DEF Init, Lasting, AtKeycloak, Is, NoPod, Idle
<1>5. PasswordsAgree
  BY DEF Init, PasswordsAgree, EmptyDB, NoPod
<1> QED
  BY <1>3, <1>4, <1>5 DEF AgreeInv

(* The database knows the passwords that the Secrets hold, and a Keycloak    *)
(* that runs has the admin's: a password is generated before the database's *)
(* pod starts, its pod starts when the caches have seen it, and after that   *)
(* nothing replaces it, whatever is cut short or acts on an old CR.          *)
THEOREM PasswordsDoAgree == Spec => []PasswordsAgree
<1>1. ProvisioningInv /\ AgreeInv /\ [Next]_vars => AgreeInv'
  BY LastingKept, CurrentKept, SeenKept, AgreeKept DEF AgreeInv
<1>2. AgreeInv => PasswordsAgree
  BY DEF AgreeInv
<1> QED
  BY <1>1, <1>2, InitAgree, AlwaysProvisioningInv, PTL DEF Spec

=============================================================================
