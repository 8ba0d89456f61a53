---------------------------- MODULE LoginProofs ----------------------------
(***************************************************************************)
(* Theorems about the two ways to log in.                                  *)
(*                                                                         *)
(* About OAuth, for every bound: types, that an OAuthClient bears the name  *)
(* in the CR, and that Keycloak and the OAuthClient agree on the secret.    *)
(* They hold together: a name or a secret that is generated must be one     *)
(* that exists, and be stored before it is used.  And that the operator     *)
(* rests only when OAuth is as the CR says everywhere.                      *)
(*                                                                         *)
(* About GitHubLogin, for all Secrets and bounds: types, that a script      *)
(* whose result is not recorded is still called for, and that the operator  *)
(* rests only when Keycloak has what the Secrets ask for.  It is an instance, *)
(* G, over variables of its own and the worker's, which both modules have;  *)
(* nothing is said of the two at once.                                      *)
(***************************************************************************)
EXTENDS OAuth, FiniteSetTheorems, TLAPS

CONSTANTS Configurations, Legacy, Unmountable, MaxMishaps
VARIABLES secrets, secretsSeen, provisioned, crSeen, deployment, deploymentSeen, pods, provider,
          mishaps, slipped

G == INSTANCE GitHubLogin

Names ==
  {cr.name, crCache.name, mem.name, idp.name} \cup {n \in Numbers : clients[n] # 0}
Secrets ==
  {cr.secret, crCache.secret, mem.secret, idp.secret} \cup {clients[n] : n \in Numbers}

(* What is in use is what the CR stores, while there is one, ...            *)
AllStored == Exists(cr) => Names \subseteq {0, cr.name} /\ Secrets \subseteq {0, cr.secret}
(* ... and the secrets stay the same when it is gone.                       *)
OneSecret == \A s, t \in Secrets : s = 0 \/ t = 0 \/ s = t

SameKeys(c, d) == c.name = d.name /\ c.secret = d.secret
UpToDate  == ~stale => crCache = cr
FreshCopy == fresh /\ Exists(cr) => SameKeys(mem, cr)

(* The calls that use a name and a secret have them.                        *)
InHand ==
  /\ pc \in {"secret", "client", "provision"} => mem.name # 0
  /\ pc \in {"client", "provision"} => mem.secret # 0
Whole == idp = None \/ (idp.name # 0 /\ idp.secret # 0)

KeysInv == AllStored /\ OneSecret /\ UpToDate /\ FreshCopy /\ InHand /\ Whole
OAuthInv == TypeOK /\ KeysInv

-----------------------------------------------------------------------------
(* Facts about the records.                                                *)

LEMMA NumberFacts == 0 \in Numbers /\ 1 \in Numbers /\ Numbers \subseteq Nat
BY OAuthAssumption DEF OAuthAssumption, Numbers

LEMMA RecordFacts ==
  /\ NoCR \in CheCluster /\ SameKeys(NoCR, None) /\ ~Exists(NoCR)
  /\ None \in [name: Numbers, secret: Numbers] /\ None.name = 0 /\ None.secret = 0
  /\ \A n, s \in Numbers : [name |-> n, secret |-> s] \in [name: Numbers, secret: Numbers]
<1>1. NoCR \in CheCluster /\ SameKeys(NoCR, None) /\ ~Exists(NoCR)
  BY NumberFacts DEF NoCR, CheCluster, SameKeys, None, Exists
<1>2. None \in [name: Numbers, secret: Numbers] /\ None.name = 0 /\ None.secret = 0
  BY NumberFacts DEF None
<1> QED
  BY <1>1, <1>2

LEMMA UpdateFacts ==
  ASSUME NEW c \in CheCluster
  PROVE  /\ c.name \in Numbers /\ c.secret \in Numbers
         /\ c.oauth \in BOOLEAN /\ c.fin \in BOOLEAN /\ c.provisioned \in BOOLEAN
         /\ \A b \in BOOLEAN : /\ [c EXCEPT !.fin = b] \in CheCluster
                               /\ SameKeys([c EXCEPT !.fin = b], c)
                               /\ [c EXCEPT !.oauth = b] \in CheCluster
                               /\ SameKeys([c EXCEPT !.oauth = b], c)
                               /\ [c EXCEPT !.provisioned = b] \in CheCluster
                               /\ SameKeys([c EXCEPT !.provisioned = b], c)
         /\ [c EXCEPT !.state = "deleting"] \in CheCluster
         /\ SameKeys([c EXCEPT !.state = "deleting"], c)
         /\ \A n \in Numbers : /\ [c EXCEPT !.name = n] \in CheCluster
                               /\ [c EXCEPT !.name = n].name = n
                               /\ [c EXCEPT !.name = n].secret = c.secret
                               /\ [c EXCEPT !.secret = n] \in CheCluster
                               /\ [c EXCEPT !.secret = n].secret = n
                               /\ [c EXCEPT !.secret = n].name = c.name
BY DEF CheCluster, SameKeys

LEMMA WriteFacts ==
  ASSUME TypeOK, NEW c \in CheCluster
  PROVE  /\ SpecOf(c) \in CheCluster /\ SameKeys(SpecOf(c), c)
         /\ \A b \in BOOLEAN : WithStatus(b) \in CheCluster /\ SameKeys(WithStatus(b), cr)
BY UpdateFacts DEF SpecOf, WithStatus, TypeOK

LEMMA StoreFacts ==
  ASSUME TypeOK, NEW c \in CheCluster, Store(c), Exists(cr)
  PROVE  /\ cr' \in CheCluster /\ stale' \in BOOLEAN
         /\ SameKeys(cr', c) \/ (~Exists(cr') /\ SameKeys(cr', None))
         /\ stale' \/ (cr' = cr /\ stale' = stale)
<1>1. CASE c = cr
  BY <1>1 DEF Store, store, TypeOK, SameKeys
<1>2. CASE c # cr
  BY <1>2, RecordFacts DEF Store, SameKeys
<1> QED
  BY <1>1, <1>2

-----------------------------------------------------------------------------
(* A step that uses no name or secret that was not in use keeps the keys.   *)
LEMMA KeysKept ==
  ASSUME TypeOK, KeysInv,
         Exists(cr') => Exists(cr) /\ SameKeys(cr', cr),
         Names' \subseteq Names \cup {0}, Secrets' \subseteq Secrets \cup {0},
         UpToDate', FreshCopy', InHand', Whole'
  PROVE  KeysInv'
<1>1. AllStored'
  <2> SUFFICES ASSUME Exists(cr')
               PROVE  Names' \subseteq {0, cr'.name} /\ Secrets' \subseteq {0, cr'.secret}
    BY DEF AllStored, Exists
  <2>1. Names \subseteq {0, cr.name} /\ Secrets \subseteq {0, cr.secret}
    BY DEF KeysInv, AllStored
  <2> QED
    BY <2>1 DEF SameKeys
<1>2. OneSecret'
  BY DEF KeysInv, OneSecret
<1> QED
  BY <1>1, <1>2 DEF KeysInv

BoundsOK == userOps \in Nat /\ failures \in Nat /\ restarts \in Nat

LEMMA NextBounds == TypeOK /\ [Next]_vars => BoundsOK'
<1> SUFFICES ASSUME TypeOK, [Next]_vars PROVE BoundsOK'
  OBVIOUS
<1>1. BoundsOK
  BY DEF TypeOK, BoundsOK
<1>2. CASE Toggle \/ DeleteCR
  BY <1>1, <1>2 DEF Toggle, DeleteCR, UserWrites, BoundsOK
<1>3. CASE CacheSync \/ UNCHANGED vars
  BY <1>1, <1>3 DEF CacheSync, bounds, vars, BoundsOK
<1>4. CASE Worker
  <2>1. UNCHANGED <<userOps, restarts>> /\ (Failure \/ NoFailure)
    BY <1>4 DEF Worker, Start, ReconcileFinalizer, AppendFinalizer, DeleteFinalizer,
         WriteFinalizer, GenerateName, GenerateSecret, UpdateSpec, SyncOAuthClient,
         ProvisionKeycloak, RecordProvisioned, DeleteIdentityProvider, DeleteOAuthClient,
         ClearProvisioned, ClearSpec, Refused, NoFailure, bounds
  <2> QED
    BY <1>1, <2>1 DEF Failure, NoFailure, BoundsOK
<1>5. CASE Restart
  BY <1>1, <1>5 DEF Restart, BoundsOK
<1> QED
  BY <1>2, <1>3, <1>4, <1>5 DEF Next

(* The worker's copy has the keys of c.                                     *)
Turned(c) ==
  /\ mem' \in CheCluster /\ SameKeys(mem', c)
  /\ fresh' \in BOOLEAN /\ (fresh' /\ Exists(cr) => SameKeys(c, cr))
  /\ pc' \in PCs /\ queued' \in BOOLEAN

LEMMA GotoTurns ==
  ASSUME OAuthInv, NEW l \in PCs, NEW c \in CheCluster, SameKeys(c, mem), Goto(l, c)
  PROVE  Turned(mem)
BY DEF Goto, Turned, OAuthInv, TypeOK, KeysInv, FreshCopy

LEMMA LeaveTurns ==
  ASSUME OAuthInv, Done \/ Requeue PROVE Turned(NoCR) /\ pc' = "idle"
<1>1. Leave /\ queued' \in BOOLEAN
  BY DEF Done, Requeue, OAuthInv, TypeOK
<1>2. mem' = NoCR /\ fresh' = FALSE /\ pc' = "idle"
  BY <1>1 DEF Leave
<1> QED
  BY <1>1, <1>2, RecordFacts DEF Turned, PCs, SameKeys

LEMMA ReloadTurns ==
  ASSUME OAuthInv, NEW l \in PCs, Reload(l, crCache) PROVE Turned(crCache)
<1>1. ~stale => crCache = cr
  BY DEF OAuthInv, KeysInv, UpToDate
<1> QED
  BY <1>1 DEF Reload, Turned, OAuthInv, TypeOK, SameKeys

(* A step of the worker that does not write the CR.                         *)
LEMMA MoveKeeps ==
  ASSUME OAuthInv, BoundsOK', NEW c \in {mem, crCache, NoCR}, Turned(c), InHand',
         clients' \in [Numbers -> Numbers], clients'[0] = 0,
         idp' \in [name: Numbers, secret: Numbers], Whole',
         idp'.name \in Names \cup {0}, idp'.secret \in Secrets \cup {0},
         \A n \in Numbers : /\ clients'[n] # 0 => n \in Names
                            /\ clients'[n] \in Secrets \cup {0},
         UNCHANGED <<cr, crCache, stale>>
  PROVE  OAuthInv'
<1>1. TypeOK'
  BY DEF OAuthInv, TypeOK, Turned, BoundsOK
<1>2. mem'.name \in Names \cup {0} /\ mem'.secret \in Secrets \cup {0}
  BY RecordFacts DEF Turned, SameKeys, Names, Secrets
<1>3. Names' \subseteq Names \cup {0} /\ Secrets' \subseteq Secrets \cup {0}
  BY <1>2 DEF Names, Secrets
<1>4. UpToDate' /\ FreshCopy'
  BY DEF OAuthInv, KeysInv, UpToDate, FreshCopy, Turned, SameKeys
<1>5. SameKeys(cr', cr)
  BY DEF SameKeys
<1> QED
  BY <1>1, <1>3, <1>4, <1>5, KeysKept DEF OAuthInv

LEMMA InUse ==
  ASSUME OAuthInv
  PROVE  /\ idp.name \in Names /\ idp.secret \in Secrets /\ Whole
         /\ idp \in [name: Numbers, secret: Numbers]
         /\ clients \in [Numbers -> Numbers] /\ clients[0] = 0
         /\ \A n \in Numbers : (clients[n] # 0 => n \in Names) /\ clients[n] \in Secrets
         /\ mem.name \in Names /\ mem.secret \in Secrets
         /\ mem \in CheCluster /\ crCache \in CheCluster /\ cr \in CheCluster
BY DEF OAuthInv, KeysInv, TypeOK, Names, Secrets

(* One that changes nothing but the worker.                                *)
LEMMA TurnKeeps ==
  ASSUME OAuthInv, BoundsOK', NEW c \in {mem, crCache, NoCR}, Turned(c), InHand',
         UNCHANGED <<store, crCache, clients, idp>>
  PROVE  OAuthInv'
<1>1. Whole'
  BY InUse DEF Whole
<1> QED
  BY <1>1, InUse, MoveKeeps DEF store

(* One that stores keys that are those of the CR already.                   *)
LEMMA StoreKeeps ==
  ASSUME OAuthInv, BoundsOK', Accepted, NEW d \in CheCluster, SameKeys(d, cr), Store(d),
         NEW c \in {mem, NoCR}, Turned(c), InHand', UNCHANGED <<crCache, clients, idp>>
  PROVE  OAuthInv'
<1>1. /\ cr' \in CheCluster /\ stale' \in BOOLEAN
      /\ SameKeys(cr', d) \/ (~Exists(cr') /\ SameKeys(cr', None))
      /\ stale' \/ (cr' = cr /\ stale' = stale)
  BY StoreFacts DEF OAuthInv, Accepted
<1>2. TypeOK'
  BY <1>1 DEF OAuthInv, TypeOK, Turned, BoundsOK
<1>3. /\ mem'.name \in Names \cup {0} /\ mem'.secret \in Secrets \cup {0}
      /\ cr'.name \in Names \cup {0} /\ cr'.secret \in Secrets \cup {0}
  BY <1>1, RecordFacts DEF Turned, SameKeys, Names, Secrets
<1>4. Names' \subseteq Names \cup {0} /\ Secrets' \subseteq Secrets \cup {0}
  BY <1>3 DEF Names, Secrets
<1>5. UpToDate' /\ FreshCopy' /\ Whole'
  BY <1>1, InUse DEF OAuthInv, KeysInv, UpToDate, FreshCopy, Turned, SameKeys, Whole, Accepted
<1>6. Exists(cr') => Exists(cr) /\ SameKeys(cr', cr)
  BY <1>1 DEF SameKeys, Accepted
<1> QED
  BY <1>2, <1>4, <1>5, <1>6, KeysKept DEF OAuthInv

-----------------------------------------------------------------------------
(* The initial state, and the steps that are not the worker's.              *)
LEMMA InitOAuth == Init => OAuthInv
<1> SUFFICES ASSUME Init PROVE OAuthInv
  OBVIOUS
<1>1. /\ cr \in CheCluster /\ cr.name = 0 /\ cr.secret = 0
      /\ mem = NoCR /\ NoCR \in CheCluster /\ NoCR.name = 0 /\ NoCR.secret = 0
  BY NumberFacts DEF Init, NoCR, CheCluster
<1>2. idp = None /\ idp.name = 0 /\ idp.secret = 0 /\ idp \in [name: Numbers, secret: Numbers]
  BY RecordFacts DEF Init
<1>3. clients \in [Numbers -> Numbers] /\ \A n \in Numbers : clients[n] = 0
  BY NumberFacts DEF Init
<1>4. TypeOK
  BY <1>1, <1>2, <1>3, NumberFacts, OAuthAssumption DEF Init, TypeOK, PCs, OAuthAssumption
<1>5. Names \subseteq {0} /\ Secrets \subseteq {0}
  BY <1>1, <1>2, <1>3 DEF Names, Secrets, Init
<1>6. KeysInv
  BY <1>2, <1>5 DEF KeysInv, AllStored, OneSecret, UpToDate, FreshCopy, InHand, Whole, Init
<1> QED
  BY <1>4, <1>6 DEF OAuthInv

(* The user's writes leave a stale copy behind and use no new key.          *)
LEMMA UserKeeps ==
  ASSUME OAuthInv, BoundsOK', NEW c \in CheCluster, UserWrites(c),
         SameKeys(c, cr) \/ c = NoCR
  PROVE  OAuthInv'
<1>1. TypeOK'
  BY DEF OAuthInv, TypeOK, UserWrites, BoundsOK
<1>2. cr'.name \in Names \cup {0} /\ cr'.secret \in Secrets \cup {0}
  BY RecordFacts DEF UserWrites, SameKeys, Names, Secrets
<1>3. Names' \subseteq Names \cup {0} /\ Secrets' \subseteq Secrets \cup {0}
  BY <1>2 DEF Names, Secrets, UserWrites
<1>4. UpToDate' /\ FreshCopy' /\ InHand' /\ Whole'
  BY DEF OAuthInv, KeysInv, UpToDate, FreshCopy, InHand, Whole, UserWrites
<1>5. Exists(cr') => Exists(cr) /\ SameKeys(cr', cr)
  BY RecordFacts DEF UserWrites
<1> QED
  BY <1>1, <1>3, <1>4, <1>5, KeysKept DEF OAuthInv

LEMMA SyncKeeps ==
  ASSUME OAuthInv, BoundsOK', CacheSync \/ Restart PROVE OAuthInv'
<1>1. /\ crCache' = cr /\ stale' = FALSE /\ queued' = TRUE
      /\ UNCHANGED <<cr, clients, idp>>
      /\ UNCHANGED <<mem, fresh, pc>> \/ (mem' = NoCR /\ fresh' = FALSE /\ pc' = "idle")
  BY DEF CacheSync, Restart, Leave
<1>2. TypeOK'
  BY <1>1, RecordFacts DEF OAuthInv, TypeOK, PCs, BoundsOK
<1>3. mem'.name \in Names \cup {0} /\ mem'.secret \in Secrets \cup {0}
  BY <1>1, RecordFacts DEF Names, Secrets, SameKeys
<1>4. Names' \subseteq Names \cup {0} /\ Secrets' \subseteq Secrets \cup {0}
  BY <1>1, <1>3 DEF Names, Secrets
<1>5. UpToDate' /\ FreshCopy' /\ InHand' /\ Whole'
  BY <1>1 DEF OAuthInv, KeysInv, UpToDate, FreshCopy, InHand, Whole
<1>6. SameKeys(cr', cr)
  BY <1>1 DEF SameKeys
<1> QED
  BY <1>1, <1>2, <1>4, <1>5, <1>6, KeysKept DEF OAuthInv

LEMMA EnvironmentKeeps ==
  ASSUME OAuthInv, BoundsOK', Toggle \/ DeleteCR \/ CacheSync \/ Restart \/ UNCHANGED vars
  PROVE  OAuthInv'
<1>1. CASE Toggle
  <2>1. cr \in CheCluster /\ (~cr.oauth) \in BOOLEAN
    BY DEF OAuthInv, TypeOK
  <2>2. /\ [cr EXCEPT !.oauth = ~@] \in CheCluster
        /\ SameKeys([cr EXCEPT !.oauth = ~@], cr)
    BY <2>1, UpdateFacts
  <2> QED
    BY <1>1, <2>2, UserKeeps DEF Toggle
<1>2. CASE DeleteCR
  <2>1. cr \in CheCluster
    BY DEF OAuthInv, TypeOK
  <2>2. /\ [cr EXCEPT !.state = "deleting"] \in CheCluster
        /\ SameKeys([cr EXCEPT !.state = "deleting"], cr)
    BY <2>1, UpdateFacts
  <2>3. CASE cr.fin
    BY <1>2, <2>2, <2>3, UserKeeps DEF DeleteCR
  <2>4. CASE ~cr.fin
    BY <1>2, <2>4, RecordFacts, UserKeeps DEF DeleteCR
  <2> QED
    BY <2>3, <2>4
<1>3. CASE CacheSync \/ Restart
  BY <1>3, SyncKeeps
<1>4. CASE UNCHANGED vars
  BY <1>4 DEF vars, OAuthInv, TypeOK, KeysInv, AllStored, OneSecret, Names, Secrets, UpToDate,
     FreshCopy, InHand, Whole, Exists, SameKeys
<1> QED
  BY <1>1, <1>2, <1>3, <1>4

-----------------------------------------------------------------------------
(* The worker: one lemma per call.                                          *)

LEMMA StartKeeps == ASSUME OAuthInv, BoundsOK', Start PROVE OAuthInv'
<1>1. UNCHANGED <<store, crCache, clients, idp>> /\ queued' = FALSE /\ pc = "idle"
  BY DEF Start
<1>2. SameKeys(mem, mem) /\ SameKeys(crCache, crCache)
  BY DEF SameKeys
<1>3. (fresh /\ Exists(cr) => SameKeys(mem, cr)) /\ (~stale => SameKeys(crCache, cr))
  BY DEF OAuthInv, KeysInv, FreshCopy, UpToDate, SameKeys
<1>4. CASE Exists(crCache)
  <2>1. Turned(crCache) /\ pc' = "finalizer"
    BY <1>1, <1>2, <1>3, <1>4 DEF Start, Turned, OAuthInv, TypeOK, PCs
  <2> QED
    BY <1>1, <2>1, TurnKeeps DEF InHand
<1>5. CASE ~Exists(crCache)
  <2>1. Turned(mem) /\ pc' = "idle"
    BY <1>1, <1>2, <1>3, <1>5 DEF Start, Turned, OAuthInv, TypeOK, PCs
  <2> QED
    BY <1>1, <2>1, TurnKeeps DEF InHand
<1> QED
  BY <1>4, <1>5

(* A call that only moves on with its copy, with a change to it that is not *)
(* about the keys.                                                         *)
LEMMA GotoKeeps ==
  ASSUME OAuthInv, BoundsOK', NEW l \in PCs, NEW c \in CheCluster, SameKeys(c, mem),
         Goto(l, c), InHand', UNCHANGED <<store, crCache, clients, idp>>
  PROVE  OAuthInv'
<1>1. Turned(mem)
  BY GotoTurns
<1> QED
  BY <1>1, TurnKeeps

LEMMA LeaveKeeps ==
  ASSUME OAuthInv, BoundsOK', Done \/ Requeue, UNCHANGED <<store, crCache, clients, idp>>
  PROVE  OAuthInv'
<1>1. Turned(NoCR) /\ pc' = "idle"
  BY LeaveTurns
<1> QED
  BY <1>1, TurnKeeps DEF InHand

(* One client is deleted.                                                  *)
LEMMA DeleteClientKeeps ==
  ASSUME OAuthInv, BoundsOK', clients' = [clients EXCEPT ![mem.name] = 0] \/ UNCHANGED clients,
         NEW l \in PCs, Goto(l, mem), l \notin {"secret", "client", "provision"},
         UNCHANGED <<store, crCache, idp>>
  PROVE  OAuthInv'
<1>1. mem \in CheCluster /\ SameKeys(mem, mem)
  BY InUse DEF SameKeys
<1>2. Turned(mem) /\ InHand'
  BY <1>1, GotoTurns DEF Goto, InHand
<1>3. Whole' /\ idp' = idp
  BY InUse DEF Whole
<1>4. clients \in [Numbers -> Numbers] /\ clients[0] = 0 /\ 0 \in Numbers
  BY InUse, NumberFacts
<1>5. clients' \in [Numbers -> Numbers] /\ \A n \in Numbers : clients'[n] \in {0, clients[n]}
  BY <1>4
<1>6. \A n \in Numbers : /\ clients'[n] # 0 => n \in Names
                         /\ clients'[n] \in Secrets \cup {0}
  BY <1>5, InUse
<1>7. clients'[0] = 0
  BY <1>4, <1>5
<1> QED
  BY <1>2, <1>3, <1>5, <1>6, <1>7, InUse, MoveKeeps DEF store

LEMMA ReconcileFinalizerKeeps ==
  ASSUME OAuthInv, BoundsOK', ReconcileFinalizer PROVE OAuthInv'
<1>1. mem \in CheCluster /\ mem.oauth \in BOOLEAN /\ SameKeys(mem, mem)
  BY InUse DEF CheCluster, SameKeys
<1>2. PICK l \in {"append", "dropDeleted", "name", "undo"} : Goto(l, mem)
  BY DEF ReconcileFinalizer, AfterFinalizer
<1>3. clients' = [clients EXCEPT ![mem.name] = 0] \/ UNCHANGED clients
  BY DEF ReconcileFinalizer
<1>4. UNCHANGED <<store, crCache, idp>>
  BY DEF ReconcileFinalizer
<1> QED
  BY <1>2, <1>3, <1>4, DeleteClientKeeps DEF PCs

LEMMA DeleteOAuthClientKeeps ==
  ASSUME OAuthInv, BoundsOK', DeleteOAuthClient PROVE OAuthInv'
<1>2. PICK l \in {"drop", "clearStatus"} : Goto(l, mem)
  BY DEF DeleteOAuthClient
<1>3. clients' = [clients EXCEPT ![mem.name] = 0] \/ UNCHANGED clients
  BY DEF DeleteOAuthClient
<1>4. UNCHANGED <<store, crCache, idp>>
  BY DEF DeleteOAuthClient
<1> QED
  BY <1>2, <1>3, <1>4, DeleteClientKeeps DEF PCs

(* The worker writes a copy that has the keys of its own.                   *)
LEMMA UpdateKeeps ==
  ASSUME OAuthInv, BoundsOK', Accepted, NEW d \in CheCluster, SameKeys(d, mem), Store(d),
         NEW l \in PCs, Goto(l, d), InHand', UNCHANGED <<crCache, clients, idp>>
  PROVE  OAuthInv'
<1>1. Turned(mem)
  BY GotoTurns
<1>2. SameKeys(d, cr)
  BY DEF OAuthInv, KeysInv, FreshCopy, Accepted, SameKeys
<1> QED
  BY <1>1, <1>2, StoreKeeps

LEMMA ReloadKeeps ==
  ASSUME OAuthInv, BoundsOK', NEW l \in PCs, Reload(l, crCache), InHand',
         UNCHANGED <<store, crCache, clients, idp>>
  PROVE  OAuthInv'
BY ReloadTurns, TurnKeeps

LEMMA ResumeGoes ==
  ASSUME NEW c \in CheCluster, NEW next \in {"items", "clearStatus"}, Resume(next, c)
  PROVE  \E l \in {"name", "undo", "clearStatus"} : Goto(l, c)
BY DEF Resume, AfterFinalizer

LEMMA WriteFinalizerKeeps ==
  ASSUME OAuthInv, BoundsOK', NEW b \in BOOLEAN, NEW next \in {"items", "clearStatus"},
         pc \in {"append", "dropDeleted", "drop"},
         WriteFinalizer([mem EXCEPT !.fin = b], next)
  PROVE  OAuthInv'
<1> DEFINE new == [mem EXCEPT !.fin = b]
<1>1. new \in CheCluster /\ SameKeys(new, mem)
  BY InUse, UpdateFacts
<1> HIDE DEF new
<1>2. SpecOf(new) \in CheCluster /\ SameKeys(SpecOf(new), mem)
  BY <1>1, WriteFacts DEF OAuthInv, SameKeys
<1>3. WriteFinalizer(new, next) /\ UNCHANGED <<crCache, clients, idp>>
  BY DEF new, WriteFinalizer
<1>4. CASE Accepted /\ Store(SpecOf(new)) /\ Resume(next, SpecOf(new))
  <2>1. PICK l \in {"name", "undo", "clearStatus"} : Goto(l, SpecOf(new))
    BY <1>2, <1>4, ResumeGoes
  <2>2. InHand' /\ l \in PCs
    BY <2>1 DEF Goto, InHand, PCs
  <2> QED
    BY <1>2, <1>3, <1>4, <2>1, <2>2, UpdateKeeps
<1>5. CASE Resume(next, new) /\ UNCHANGED store
  <2>1. PICK l \in {"name", "undo", "clearStatus"} : Goto(l, new)
    BY <1>1, <1>5, ResumeGoes
  <2>2. InHand' /\ l \in PCs
    BY <2>1 DEF Goto, InHand, PCs
  <2> QED
    BY <1>1, <1>3, <1>5, <2>1, <2>2, GotoKeeps
<1>6. CASE Reload(pc, crCache) /\ UNCHANGED store
  <2>1. InHand' /\ pc \in PCs
    BY <1>6 DEF Reload, InHand, PCs
  <2> QED
    BY <1>3, <1>6, <2>1, ReloadKeeps
<1> QED
  BY <1>3, <1>4, <1>5, <1>6 DEF WriteFinalizer

LEMMA FinalizerKeeps ==
  ASSUME OAuthInv, BoundsOK', AppendFinalizer \/ DeleteFinalizer PROVE OAuthInv'
BY WriteFinalizerKeeps DEF AppendFinalizer, DeleteFinalizer

-----------------------------------------------------------------------------
(* A new key exists: the numbers in use are none but 0.                     *)
LEMMA MinOfFree ==
  ASSUME NEW U, U \subseteq {0}
  PROVE  Min(Numbers \ ({0} \cup U)) \in Numbers \ {0}
<1> DEFINE S == Numbers \ ({0} \cup U)
<1>1. 1 \in S /\ \A y \in S : 1 =< y
  BY NumberFacts
<1>2. Min(S) \in S
  BY <1>1 DEF Min
<1> QED
  BY <1>2

LEMMA NewNameExists ==
  ASSUME OAuthInv, Names \subseteq {0}, NEW n \in NewName PROVE n \in Numbers \ {0}
<1> DEFINE U == {cr.name, crCache.name, idp.name} \cup {m \in Numbers : clients[m] # 0}
<1>1. U \subseteq {0}
  BY DEF Names
<1>2. {0, cr.name, crCache.name, idp.name} \cup {m \in Numbers : clients[m] # 0} = {0} \cup U
  OBVIOUS
<1>3. n = Min(Numbers \ ({0} \cup U))
  BY <1>2 DEF NewName
<1> QED
  BY <1>1, <1>3, MinOfFree

LEMMA NewSecretExists ==
  ASSUME OAuthInv, Secrets \subseteq {0}, NEW n \in NewSecret PROVE n \in Numbers \ {0}
<1> DEFINE U == {cr.secret, crCache.secret, idp.secret} \cup {clients[m] : m \in Numbers}
<1>1. U \subseteq {0}
  BY DEF Secrets
<1>2. {0, cr.secret, crCache.secret, idp.secret} \cup {clients[m] : m \in Numbers} = {0} \cup U
  OBVIOUS
<1>3. n = Min(Numbers \ ({0} \cup U))
  BY <1>2 DEF NewSecret
<1> QED
  BY <1>1, <1>3, MinOfFree

(* The new key is stored, and the copy goes on with it: it is in use        *)
(* nowhere else, since a copy that is stored is up to date and had none.    *)
LEMMA NewKeyKeeps ==
  ASSUME OAuthInv, BoundsOK', Accepted, NEW d \in CheCluster, Store(d),
         NEW l \in PCs, Goto(l, d), InHand', UNCHANGED <<crCache, clients, idp>>,
         \/ mem.name = 0 /\ d.secret = mem.secret
         \/ mem.secret = 0 /\ d.name = mem.name
  PROVE  OAuthInv'
<1>1. /\ cr' \in CheCluster /\ stale' \in BOOLEAN
      /\ SameKeys(cr', d) \/ (~Exists(cr') /\ SameKeys(cr', None))
      /\ stale' \/ (cr' = cr /\ stale' = stale)
  BY StoreFacts DEF OAuthInv, Accepted
<1>2. mem' = d /\ fresh' = fresh /\ pc' = l /\ queued' = queued
  BY DEF Goto
<1>3. TypeOK'
  BY <1>1, <1>2 DEF OAuthInv, TypeOK, BoundsOK
<1>4. mem.name = cr.name /\ mem.secret = cr.secret
  BY DEF OAuthInv, KeysInv, FreshCopy, SameKeys, Accepted
<1>5. Names \subseteq {0, cr.name} /\ Secrets \subseteq {0, cr.secret}
  BY DEF OAuthInv, KeysInv, AllStored, Accepted
<1>6. Names \subseteq {0, d.name} /\ Secrets \subseteq {0, d.secret}
  BY <1>4, <1>5
<1>7. Names' \subseteq {0, d.name} /\ Secrets' \subseteq {0, d.secret}
  BY <1>1, <1>2, <1>6, RecordFacts DEF Names, Secrets, SameKeys
<1>8. AllStored' /\ OneSecret'
  BY <1>1, <1>7 DEF AllStored, OneSecret, SameKeys
<1>9. UpToDate' /\ FreshCopy' /\ Whole'
  BY <1>1, <1>2, InUse DEF OAuthInv, KeysInv, UpToDate, FreshCopy, SameKeys, Whole
<1> QED
  BY <1>3, <1>8, <1>9 DEF OAuthInv, KeysInv

LEMMA NoneInUse ==
  ASSUME OAuthInv, Accepted
  PROVE  /\ mem.name = 0 => Names \subseteq {0}
         /\ mem.secret = 0 => Secrets \subseteq {0}
BY DEF OAuthInv, KeysInv, FreshCopy, SameKeys, AllStored, Accepted

LEMMA GenerateNameKeeps ==
  ASSUME OAuthInv, BoundsOK', GenerateName PROVE OAuthInv'
<1>1. UNCHANGED <<crCache, clients, idp>> /\ pc = "name"
  BY DEF GenerateName
<1>2. mem \in CheCluster /\ SameKeys(mem, mem)
  BY InUse DEF SameKeys
<1>3. CASE mem.name # 0 /\ Goto("secret", mem) /\ UNCHANGED store
  <2>1. InHand' /\ "secret" \in PCs
    BY <1>3 DEF Goto, InHand, PCs
  <2> QED
    BY <1>1, <1>2, <1>3, <2>1, GotoKeeps
<1>4. CASE Requeue /\ UNCHANGED store
  BY <1>1, <1>4, LeaveKeeps
<1>5. ASSUME mem.name = 0, NEW n \in NewName,
             UpdateSpec([mem EXCEPT !.name = n], "secret"), ~(Requeue /\ UNCHANGED store)
      PROVE  OAuthInv'
  <2> DEFINE c == [mem EXCEPT !.name = n]
             d == SpecOf(c)
  <2>1. Accepted /\ Store(d) /\ Goto("secret", d)
    BY <1>5 DEF UpdateSpec
  <2>2. n \in Numbers \ {0}
    BY <1>5, <2>1, NoneInUse, NewNameExists
  <2>3. c \in CheCluster /\ c.name = n /\ c.secret = mem.secret
    BY <1>2, <2>2, UpdateFacts
  <2>4. d \in CheCluster /\ d.name = n /\ d.secret = mem.secret
    BY <2>3, WriteFacts DEF OAuthInv, SameKeys
  <2> HIDE DEF c, d
  <2>5. InHand' /\ "secret" \in PCs
    BY <2>1, <2>2, <2>4 DEF Goto, InHand, PCs
  <2> QED
    BY <1>1, <1>5, <2>1, <2>4, <2>5, NewKeyKeeps
<1> QED
  BY <1>3, <1>4, <1>5 DEF GenerateName

LEMMA GenerateSecretKeeps ==
  ASSUME OAuthInv, BoundsOK', GenerateSecret PROVE OAuthInv'
<1>1. UNCHANGED <<crCache, clients, idp>> /\ pc = "secret" /\ mem.name # 0
  BY DEF GenerateSecret, OAuthInv, KeysInv, InHand
<1>2. mem \in CheCluster /\ SameKeys(mem, mem)
  BY InUse DEF SameKeys
<1>3. CASE mem.secret # 0 /\ Goto("client", mem) /\ UNCHANGED store
  <2>1. InHand' /\ "client" \in PCs
    BY <1>1, <1>3 DEF Goto, InHand, PCs
  <2> QED
    BY <1>1, <1>2, <1>3, <2>1, GotoKeeps
<1>4. CASE Requeue /\ UNCHANGED store
  BY <1>1, <1>4, LeaveKeeps
<1>5. ASSUME mem.secret = 0, NEW n \in NewSecret,
             UpdateSpec([mem EXCEPT !.secret = n], "client"), ~(Requeue /\ UNCHANGED store)
      PROVE  OAuthInv'
  <2> DEFINE c == [mem EXCEPT !.secret = n]
             d == SpecOf(c)
  <2>1. Accepted /\ Store(d) /\ Goto("client", d)
    BY <1>5 DEF UpdateSpec
  <2>2. n \in Numbers \ {0}
    BY <1>5, <2>1, NoneInUse, NewSecretExists
  <2>3. c \in CheCluster /\ c.secret = n /\ c.name = mem.name
    BY <1>2, <2>2, UpdateFacts
  <2>4. d \in CheCluster /\ d.secret = n /\ d.name = mem.name
    BY <2>3, WriteFacts DEF OAuthInv, SameKeys
  <2> HIDE DEF c, d
  <2>5. InHand' /\ "client" \in PCs
    BY <1>1, <2>1, <2>2, <2>4 DEF Goto, InHand, PCs
  <2> QED
    BY <1>1, <1>5, <2>1, <2>4, <2>5, NewKeyKeeps
<1> QED
  BY <1>3, <1>4, <1>5 DEF GenerateSecret

LEMMA SyncOAuthClientKeeps ==
  ASSUME OAuthInv, BoundsOK', SyncOAuthClient PROVE OAuthInv'
<1>1. UNCHANGED <<store, crCache, idp>> /\ mem.name # 0 /\ mem.secret # 0
  BY DEF SyncOAuthClient, OAuthInv, KeysInv, InHand
<1>2. mem \in CheCluster /\ SameKeys(mem, mem) /\ "provision" \in PCs
  BY InUse DEF SameKeys, PCs
<1>3. CASE Requeue /\ UNCHANGED clients
  BY <1>1, <1>3, LeaveKeeps
<1>4. CASE Goto("provision", mem) /\ UNCHANGED clients
  BY <1>1, <1>2, <1>4, GotoKeeps DEF Goto, InHand
<1>5. CASE /\ clients' = [clients EXCEPT ![mem.name] = mem.secret]
           /\ Goto("provision", mem) \/ Done
  <2>1. \E c \in {mem, NoCR} : Turned(c) /\ InHand'
    BY <1>1, <1>2, <1>5, GotoTurns, LeaveTurns DEF Goto, InHand
  <2>2. /\ clients \in [Numbers -> Numbers] /\ clients[0] = 0 /\ 0 \in Numbers
        /\ mem.name \in Numbers /\ mem.secret \in Numbers
    BY <1>2, InUse, NumberFacts, UpdateFacts
  <2>3. clients' \in [Numbers -> Numbers] /\ clients'[0] = 0
    BY <1>1, <1>5, <2>2
  <2>4. \A n \in Numbers : clients'[n] = IF n = mem.name THEN mem.secret ELSE clients[n]
    BY <1>5, <2>2
  <2>5. \A n \in Numbers : /\ clients'[n] # 0 => n \in Names
                           /\ clients'[n] \in Secrets \cup {0}
    BY <2>4, InUse
  <2>6. Whole' /\ idp' = idp
    BY <1>1, InUse DEF Whole
  <2> QED
    BY <1>1, <2>1, <2>3, <2>5, <2>6, InUse, MoveKeeps DEF store
<1> QED
  BY <1>3, <1>4, <1>5 DEF SyncOAuthClient

(* The identity provider changes, to one of known keys or to none.          *)
LEMMA IdentityKeeps ==
  ASSUME OAuthInv, BoundsOK', idp' \in {idp, None, [name |-> mem.name, secret |-> mem.secret]},
         Whole', NEW c \in {mem, NoCR}, Turned(c), InHand', UNCHANGED <<store, crCache, clients>>
  PROVE  OAuthInv'
<1>1. mem.name \in Numbers /\ mem.secret \in Numbers
  BY InUse, UpdateFacts
<1>2. /\ idp' \in [name: Numbers, secret: Numbers]
      /\ idp'.name \in Names \cup {0} /\ idp'.secret \in Secrets \cup {0}
  BY <1>1, InUse, RecordFacts
<1> QED
  BY <1>2, InUse, MoveKeeps DEF store

LEMMA ProvisionKeycloakKeeps ==
  ASSUME OAuthInv, BoundsOK', ProvisionKeycloak PROVE OAuthInv'
<1>1. UNCHANGED <<store, crCache, clients>> /\ mem.name # 0 /\ mem.secret # 0
  BY DEF ProvisionKeycloak, OAuthInv, KeysInv, InHand
<1>2. mem \in CheCluster /\ SameKeys(mem, mem) /\ "undo" \in PCs /\ "record" \in PCs
  BY InUse DEF SameKeys, PCs
<1>3. /\ idp' \in {idp, None, [name |-> mem.name, secret |-> mem.secret]}
      /\ Whole'
  BY <1>1, InUse DEF ProvisionKeycloak, Configured, Whole
<1>4. CASE Goto("undo", mem) \/ Goto("record", mem)
  <2>1. Turned(mem) /\ InHand'
    BY <1>2, <1>4, GotoTurns DEF Goto, InHand
  <2> QED
    BY <1>1, <1>3, <2>1, IdentityKeeps
<1>5. CASE Requeue
  <2>1. Turned(NoCR) /\ InHand'
    BY <1>5, LeaveTurns DEF InHand
  <2> QED
    BY <1>1, <1>3, <2>1, IdentityKeeps
<1> QED
  BY <1>4, <1>5 DEF ProvisionKeycloak

LEMMA DeleteIdentityProviderKeeps ==
  ASSUME OAuthInv, BoundsOK', DeleteIdentityProvider PROVE OAuthInv'
<1>1. UNCHANGED <<store, crCache, clients>>
  BY DEF DeleteIdentityProvider
<1>2. mem \in CheCluster /\ SameKeys(mem, mem) /\ "deleteClient" \in PCs
  BY InUse DEF SameKeys, PCs
<1>3. /\ idp' \in {idp, None, [name |-> mem.name, secret |-> mem.secret]}
      /\ Whole'
  BY InUse DEF DeleteIdentityProvider, Whole
<1>4. CASE Goto("deleteClient", mem)
  <2>1. Turned(mem) /\ InHand'
    BY <1>2, <1>4, GotoTurns DEF Goto, InHand
  <2> QED
    BY <1>1, <1>3, <2>1, IdentityKeeps
<1>5. CASE Done
  <2>1. Turned(NoCR) /\ InHand'
    BY <1>5, LeaveTurns DEF InHand
  <2> QED
    BY <1>1, <1>3, <2>1, IdentityKeeps
<1> QED
  BY <1>4, <1>5 DEF DeleteIdentityProvider

(* The writes of the CR's status.                                          *)
LEMMA StatusFacts ==
  ASSUME OAuthInv, NEW b \in BOOLEAN
  PROVE  /\ mem \in CheCluster /\ SameKeys(mem, mem)
         /\ [mem EXCEPT !.provisioned = b] \in CheCluster
         /\ SameKeys([mem EXCEPT !.provisioned = b], mem)
         /\ WithStatus(b) \in CheCluster /\ SameKeys(WithStatus(b), cr)
         /\ Accepted => SameKeys(WithStatus(b), mem)
<1>1. mem \in CheCluster /\ SameKeys(mem, mem)
  BY InUse DEF SameKeys
<1>2. WithStatus(b) \in CheCluster /\ SameKeys(WithStatus(b), cr)
  BY WriteFacts, <1>1 DEF OAuthInv
<1> QED
  BY <1>1, <1>2, UpdateFacts DEF OAuthInv, KeysInv, FreshCopy, Accepted, SameKeys

LEMMA RecordProvisionedKeeps ==
  ASSUME OAuthInv, BoundsOK', RecordProvisioned PROVE OAuthInv'
<1>1. UNCHANGED <<crCache, clients, idp>> /\ "undo" \in PCs /\ "record" \in PCs
  BY DEF RecordProvisioned, PCs
<1>2. CASE Accepted /\ Store(WithStatus(TRUE)) /\ Goto("undo", WithStatus(TRUE))
  BY <1>1, <1>2, StatusFacts, UpdateKeeps DEF Goto, InHand
<1>3. CASE Reload("record", crCache) /\ UNCHANGED store
  BY <1>1, <1>3, ReloadKeeps DEF Reload, InHand
<1>4. CASE Goto("record", mem) /\ UNCHANGED store
  BY <1>1, <1>4, StatusFacts, GotoKeeps DEF Goto, InHand
<1>5. CASE Goto("undo", [mem EXCEPT !.provisioned = TRUE]) /\ UNCHANGED store
  BY <1>1, <1>5, StatusFacts, GotoKeeps DEF Goto, InHand
<1> QED
  BY <1>2, <1>3, <1>4, <1>5 DEF RecordProvisioned

LEMMA ClearProvisionedKeeps ==
  ASSUME OAuthInv, BoundsOK', ClearProvisioned PROVE OAuthInv'
<1>1. /\ UNCHANGED <<crCache, clients, idp>> /\ pc = "clearStatus"
      /\ "clearStatus" \in PCs /\ "clearSpec" \in PCs
  BY DEF ClearProvisioned, PCs
<1>2. CASE Accepted /\ Store(WithStatus(FALSE)) /\ Goto("clearSpec", WithStatus(FALSE))
  BY <1>1, <1>2, StatusFacts, UpdateKeeps DEF Goto, InHand
<1>3. CASE Goto(pc, mem) /\ UNCHANGED store
  BY <1>1, <1>3, StatusFacts, GotoKeeps DEF Goto, InHand
<1>4. CASE Goto("clearSpec", [mem EXCEPT !.provisioned = FALSE]) /\ UNCHANGED store
  BY <1>1, <1>4, StatusFacts, GotoKeeps DEF Goto, InHand
<1> QED
  BY <1>2, <1>3, <1>4 DEF ClearProvisioned

LEMMA ClearSpecKeeps ==
  ASSUME OAuthInv, BoundsOK', ClearSpec PROVE OAuthInv'
<1>1. UNCHANGED <<crCache, clients, idp>> /\ pc = "clearSpec" /\ "clearSpec" \in PCs
  BY DEF ClearSpec, PCs
<1>2. CASE Accepted /\ Store(WithStatus(mem.provisioned)) /\ Done
  <2>1. mem.provisioned \in BOOLEAN
    BY InUse, UpdateFacts
  <2>2. Turned(NoCR) /\ InHand'
    BY <1>2, LeaveTurns DEF InHand
  <2> QED
    BY <1>1, <1>2, <2>1, <2>2, StatusFacts, StoreKeeps
<1>3. CASE Goto(pc, mem) /\ UNCHANGED store
  BY <1>1, <1>3, StatusFacts, GotoKeeps DEF Goto, InHand
<1>4. CASE Done /\ UNCHANGED store
  BY <1>1, <1>4, LeaveKeeps
<1> QED
  BY <1>2, <1>3, <1>4 DEF ClearSpec

LEMMA NextOAuth == OAuthInv /\ [Next]_vars => OAuthInv'
<1> SUFFICES ASSUME OAuthInv, [Next]_vars PROVE OAuthInv'
  OBVIOUS
<1>1. BoundsOK'
  BY NextBounds DEF OAuthInv
<1>2. CASE Worker
  BY <1>1, <1>2, StartKeeps, ReconcileFinalizerKeeps, FinalizerKeeps, GenerateNameKeeps,
     GenerateSecretKeeps, SyncOAuthClientKeeps, ProvisionKeycloakKeeps,
     RecordProvisionedKeeps, DeleteIdentityProviderKeeps, DeleteOAuthClientKeeps,
     ClearProvisionedKeeps, ClearSpecKeeps DEF Worker
<1>3. CASE Toggle \/ DeleteCR \/ CacheSync \/ Restart \/ UNCHANGED vars
  BY <1>1, <1>3, EnvironmentKeeps
<1> QED
  BY <1>2, <1>3 DEF Next

LEMMA AlwaysOAuthInv == Spec => []OAuthInv
BY InitOAuth, NextOAuth, PTL DEF Spec

-----------------------------------------------------------------------------
(* Every variable has its type, whatever the bounds: there is always a name *)
(* and a secret left to generate.                                          *)
THEOREM TypeCorrect == Spec => []TypeOK
<1>1. OAuthInv => TypeOK
  BY DEF OAuthInv
<1> QED
  BY <1>1, AlwaysOAuthInv, PTL

(* While the CR exists, no OAuthClient bears a name other than the CR's:    *)
(* the operator, which looks for a client by that name only, can always     *)
(* find it to change or delete it.                                         *)
THEOREM NoClientIsLost == Spec => []NoOrphanClient
<1>1. OAuthInv => NoOrphanClient
  <2>1. OAuthInv => clients[0] = 0
    BY InUse
  <2> QED
    BY <2>1 DEF OAuthInv, KeysInv, AllStored, Names, NoOrphanClient
<1> QED
  BY <1>1, AlwaysOAuthInv, PTL

(* The identity provider and the OAuthClient it names never hold different  *)
(* secrets, across conflicts, crashes and repeated passes, and after the CR *)
(* is gone.                                                                *)
THEOREM SecretsAgree == Spec => []CredentialsAgree
<1>1. ASSUME OAuthInv, idp # None, clients[idp.name] # 0
      PROVE  clients[idp.name] = idp.secret
  <2>1. idp.name \in Numbers /\ idp.secret # 0
    BY <1>1, InUse DEF Whole
  <2>2. clients[idp.name] \in Secrets /\ idp.secret \in Secrets
    BY <1>1, <2>1, InUse
  <2> QED
    BY <1>1, <2>1, <2>2 DEF OAuthInv, KeysInv, OneSecret
<1>2. OAuthInv => CredentialsAgree
  BY <1>1 DEF CredentialsAgree
<1> QED
  BY <1>2, AlwaysOAuthInv, PTL

-----------------------------------------------------------------------------
(* No wake-up is lost, if no call fails and the operator is not restarted    *)
(* while the CR is there.                                                  *)
Calm  == cr.state = "live" /\ failures = MaxFailures /\ restarts = MaxRestarts
Quiet == Calm /\ ~queued /\ ~stale

OAuthAtRest == Quiet /\ pc = "idle" => InStep

(* Keycloak and the status differ only while a pass is on its way to change *)
(* the one that lags.                                                      *)
TakingDown == pc \in {"deleteClient", "drop", "clearStatus"}
Recorded ==
  /\ idp # None /\ ~cr.provisioned => pc = "record"
  /\ idp = None /\ cr.provisioned => TakingDown
  /\ pc = "record" => idp # None
  /\ TakingDown \/ pc = "clearSpec" => idp = None
  /\ pc = "clearSpec" => ~mem.provisioned

(* What a pass knows which began after the last event and has written       *)
(* nothing to the CR.                                                      *)
OAuthKnows ==
  /\ pc # "idle" => fresh
  /\ pc \in {"name", "secret", "client", "provision", "record"} => cr.oauth
  /\ pc \in {"provision", "record"} \/ (pc = "undo" /\ cr.oauth) =>
       cr.name # 0 /\ clients[cr.name] = cr.secret
  /\ pc = "undo" /\ cr.oauth => cr.provisioned
  /\ pc = "record" => ~cr.provisioned
  /\ TakingDown => cr.provisioned /\ ~cr.oauth
  /\ pc \notin {"clearSpec", "dropDeleted"}
  /\ (pc = "drop" => cr.fin) /\ (pc = "append" => ~cr.fin)
  /\ pc = "idle" => InStep

FreshIsCR == failures = MaxFailures /\ fresh /\ Exists(cr) => mem = cr
Within    == failures <= MaxFailures /\ restarts <= MaxRestarts

OAuthRestInv ==
  Within /\ FreshIsCR /\ (Calm => Recorded) /\ (Quiet => OAuthKnows)

(* What a call of a pass does with the CR, if nothing fails.               *)
CallKind ==
  \/ /\ UNCHANGED store
     /\ \/ \E l : Goto(l, mem) \/ Reload(l, crCache)
        \/ \E l, c : Goto(l, c) /\ ~fresh
        \/ Leave \/ ~Exists(cr)
  \/ /\ Accepted
     /\ \E d : /\ Store(d) /\ (d.state = mem.state \/ d.state = cr.state)
               /\ Leave \/ \E l : Goto(l, d)

Pass ==
  \/ ReconcileFinalizer \/ AppendFinalizer \/ DeleteFinalizer
  \/ GenerateName \/ GenerateSecret \/ SyncOAuthClient
  \/ ProvisionKeycloak \/ RecordProvisioned
  \/ DeleteIdentityProvider \/ DeleteOAuthClient \/ ClearProvisioned \/ ClearSpec

LEMMA WorkerIs == Worker <=> Start \/ Pass
BY DEF Worker, Pass

LEMMA StateKept ==
  ASSUME OAuthInv
  PROVE  /\ \A b : /\ SpecOf([mem EXCEPT !.fin = b]).state = mem.state
                   /\ SpecOf([mem EXCEPT !.fin = b]).fin = b
                   /\ SpecOf([mem EXCEPT !.fin = b]).provisioned = cr.provisioned
                   /\ SpecOf([mem EXCEPT !.name = b]).state = mem.state
                   /\ SpecOf([mem EXCEPT !.name = b]).provisioned = cr.provisioned
                   /\ SpecOf([mem EXCEPT !.secret = b]).state = mem.state
                   /\ SpecOf([mem EXCEPT !.secret = b]).provisioned = cr.provisioned
                   /\ WithStatus(b).state = cr.state /\ WithStatus(b).provisioned = b
         /\ NoCR.state # "live"
<1>1. mem \in CheCluster /\ cr \in CheCluster
  BY InUse
<1> QED
  BY <1>1 DEF CheCluster, SpecOf, WithStatus, NoCR

LEMMA SpecKind ==
  ASSUME OAuthInv, ~Failure, NEW c, NEW next, UpdateSpec(c, next),
         SpecOf(c).state = mem.state
  PROVE  CallKind
BY DEF UpdateSpec, CallKind, Requeue, Refused

LEMMA FinalizerKind ==
  ASSUME OAuthInv, ~Failure, NEW b, NEW next, WriteFinalizer([mem EXCEPT !.fin = b], next)
  PROVE  CallKind
<1>1. SpecOf([mem EXCEPT !.fin = b]).state = mem.state
  BY StateKept
<1> DEFINE new == [mem EXCEPT !.fin = b]
<1> HIDE DEF new
<1>2. WriteFinalizer(new, next) /\ SpecOf(new).state = mem.state
  BY <1>1 DEF new
<1>3. CASE Accepted /\ Store(SpecOf(new)) /\ Resume(next, SpecOf(new))
  <2>1. \E l : Goto(l, SpecOf(new))
    BY <1>3 DEF Resume, AfterFinalizer
  <2> QED
    BY <1>2, <1>3, <2>1 DEF CallKind
<1>4. CASE Conflict /\ Exists(crCache) /\ Reload(pc, crCache) /\ UNCHANGED store
  BY <1>4 DEF CallKind
<1>5. CASE Resume(next, new) /\ UNCHANGED store /\ (~Exists(cr) \/ ~fresh)
  <2>1. \E l : Goto(l, new)
    BY <1>5 DEF Resume, AfterFinalizer
  <2> QED
    BY <1>5, <2>1 DEF CallKind
<1> QED
  BY <1>2, <1>3, <1>4, <1>5 DEF WriteFinalizer, Refused, Conflict

LEMMA CallKinds ==
  ASSUME OAuthInv, Pass, ~Failure
  PROVE  CallKind /\ NoFailure /\ UNCHANGED <<crCache, userOps, restarts>>
<1>1. CASE ReconcileFinalizer
  BY <1>1 DEF ReconcileFinalizer, AfterFinalizer, CallKind
<1>2. CASE AppendFinalizer \/ DeleteFinalizer
  <2>1. CallKind
    BY <1>2, FinalizerKind DEF AppendFinalizer, DeleteFinalizer
  <2> QED
    BY <1>2, <2>1 DEF AppendFinalizer, DeleteFinalizer, WriteFinalizer, Refused
<1>3. CASE GenerateName
  <2>1. CASE Goto("secret", mem) /\ NoFailure /\ UNCHANGED store
    BY <1>3, <2>1 DEF GenerateName, CallKind
  <2>2. CASE \E n \in NewName : UpdateSpec([mem EXCEPT !.name = n], "secret")
    <3>1. PICK n : UpdateSpec([mem EXCEPT !.name = n], "secret")
      BY <2>2
    <3>2. CallKind
      BY <3>1, StateKept, SpecKind
    <3> QED
      BY <1>3, <3>1, <3>2 DEF GenerateName, UpdateSpec, Refused
  <2> QED
    BY <1>3, <2>1, <2>2 DEF GenerateName
<1>4. CASE GenerateSecret
  <2>1. CASE Goto("client", mem) /\ NoFailure /\ UNCHANGED store
    BY <1>4, <2>1 DEF GenerateSecret, CallKind
  <2>2. CASE \E n \in NewSecret : UpdateSpec([mem EXCEPT !.secret = n], "client")
    <3>1. PICK n : UpdateSpec([mem EXCEPT !.secret = n], "client")
      BY <2>2
    <3>2. CallKind
      BY <3>1, StateKept, SpecKind
    <3> QED
      BY <1>4, <3>1, <3>2 DEF GenerateSecret, UpdateSpec, Refused
  <2> QED
    BY <1>4, <2>1, <2>2 DEF GenerateSecret
<1>5. CASE SyncOAuthClient \/ ProvisionKeycloak \/ DeleteIdentityProvider \/ DeleteOAuthClient
  BY <1>5 DEF SyncOAuthClient, ProvisionKeycloak, DeleteIdentityProvider, DeleteOAuthClient,
     CallKind, Done, Requeue
<1>6. CASE RecordProvisioned \/ ClearProvisioned \/ ClearSpec
  BY <1>6, StateKept DEF RecordProvisioned, ClearProvisioned, ClearSpec, CallKind, Done,
     Refused, Conflict
<1> QED
  BY <1>1, <1>2, <1>3, <1>4, <1>5, <1>6 DEF Pass

LEMMA OAuthWithin ==
  ASSUME OAuthInv, Within, [Next]_vars
  PROVE  /\ Within'
         /\ failures' = MaxFailures => failures = MaxFailures /\ (Pass => ~Failure)
         /\ restarts' = MaxRestarts => restarts = MaxRestarts /\ ~Restart
<1>0. failures \in Nat /\ restarts \in Nat /\ MaxFailures \in Nat /\ MaxRestarts \in Nat
  BY OAuthAssumption DEF OAuthInv, TypeOK, OAuthAssumption
<1>1. CASE Pass /\ Failure
  <2>1. failures' = failures - 1 /\ restarts' = restarts
    BY <1>1 DEF Failure, Pass, ReconcileFinalizer, AppendFinalizer, DeleteFinalizer,
         WriteFinalizer, GenerateName, GenerateSecret, UpdateSpec, SyncOAuthClient,
         ProvisionKeycloak, RecordProvisioned, DeleteIdentityProvider, DeleteOAuthClient,
         ClearProvisioned, ClearSpec
  <2>2. ~Restart
    BY <1>0, <2>1 DEF Restart
  <2> QED
    BY <1>0, <2>1, <2>2 DEF Within
<1>2. CASE Pass /\ ~Failure
  <2>1. failures' = failures /\ restarts' = restarts
    BY <1>2, CallKinds DEF NoFailure
  <2>2. ~Restart
    BY <1>0, <2>1 DEF Restart
  <2> QED
    BY <1>0, <1>2, <2>1, <2>2 DEF Within
<1>3. CASE Restart
  <2>1. failures' = failures /\ restarts' = restarts - 1
    BY <1>3 DEF Restart
  <2>2. Pass => ~Failure
    BY <1>0, <2>1 DEF Failure
  <2> QED
    BY <1>0, <2>1, <2>2 DEF Within
<1>4. CASE Start \/ Toggle \/ DeleteCR \/ CacheSync \/ UNCHANGED vars
  <2>1. failures' = failures /\ restarts' = restarts
    BY <1>4 DEF Start, Toggle, DeleteCR, UserWrites, CacheSync, bounds, vars
  <2>2. ~Failure /\ ~Restart
    BY <1>0, <2>1 DEF Failure, Restart
  <2> QED
    BY <1>0, <2>1, <2>2 DEF Within
<1> QED
  BY <1>1, <1>2, <1>3, <1>4, WorkerIs DEF Next

(* The copy that counts as the latest revision is the CR, and a CR that is   *)
(* there was there before.                                                 *)
LEMMA OAuthFresh ==
  ASSUME OAuthInv, OAuthInv', OAuthRestInv, [Next]_vars
  PROVE  /\ FreshIsCR'
         /\ failures' = MaxFailures /\ cr'.state = "live" => cr.state = "live"
<1>0. UpToDate /\ FreshIsCR /\ Within
  BY DEF OAuthInv, KeysInv, OAuthRestInv
<1>1. CASE Start
  BY <1>0, <1>1 DEF Start, FreshIsCR, UpToDate, store, bounds, Exists
<1>2. CASE Pass
  <2> SUFFICES ASSUME failures' = MaxFailures
               PROVE  /\ fresh' /\ Exists(cr)' => mem' = cr'
                      /\ cr'.state = "live" => cr.state = "live"
    BY DEF FreshIsCR
  <2>1. CallKind /\ failures = MaxFailures
    BY <1>0, <1>2, CallKinds, OAuthWithin
  <2>2. fresh /\ Exists(cr) => mem = cr
    BY <1>0, <2>1 DEF FreshIsCR
  <2>3. CASE /\ UNCHANGED store
             /\ \/ \E l : Goto(l, mem) \/ Reload(l, crCache)
                \/ \E l, c : Goto(l, c) /\ ~fresh
                \/ Leave \/ ~Exists(cr)
    <3>1. cr' = cr /\ stale' = stale /\ (~stale => crCache = cr)
      BY <1>0, <2>3 DEF store, UpToDate
    <3>2. CASE \E l : Goto(l, mem)
      BY <2>2, <3>1, <3>2 DEF Goto
    <3>3. CASE \E l : Reload(l, crCache)
      BY <3>1, <3>3 DEF Reload
    <3>4. CASE (\E l, c : Goto(l, c) /\ ~fresh) \/ Leave \/ ~Exists(cr)
      BY <3>1, <3>4 DEF Goto, Leave
    <3> QED
      BY <2>3, <3>2, <3>3, <3>4
  <2>4. CASE Accepted /\ \E d : /\ Store(d) /\ (d.state = mem.state \/ d.state = cr.state)
                                /\ Leave \/ \E l : Goto(l, d)
    <3>1. PICK d : /\ Store(d) /\ (d.state = mem.state \/ d.state = cr.state)
                   /\ Leave \/ \E l : Goto(l, d)
      BY <2>4
    <3>2. mem = cr /\ d.state = cr.state
      BY <2>2, <2>4, <3>1 DEF Accepted
    <3>3. cr' = d \/ (cr' = NoCR /\ ~Exists(cr'))
      BY <3>1, RecordFacts DEF Store, store
    <3> QED
      BY <3>1, <3>2, <3>3, StateKept DEF Goto, Leave, Exists
  <2> QED
    BY <2>1, <2>3, <2>4 DEF CallKind
<1>3. CASE Restart
  BY <1>3 DEF Restart, Leave, FreshIsCR
<1>4. CASE Toggle \/ DeleteCR
  <2>1. UserWrites([cr EXCEPT !.oauth = ~@])
        \/ UserWrites(IF cr.fin THEN [cr EXCEPT !.state = "deleting"] ELSE NoCR)
    BY <1>4 DEF Toggle, DeleteCR
  <2>2. /\ [cr EXCEPT !.oauth = ~@].state = cr.state
        /\ [cr EXCEPT !.state = "deleting"].state = "deleting"
    BY InUse DEF CheCluster
  <2> QED
    BY <2>1, <2>2, StateKept DEF UserWrites, FreshIsCR
<1>5. CASE CacheSync \/ UNCHANGED vars
  BY <1>0, <1>5 DEF CacheSync, vars, FreshIsCR, bounds, Exists
<1> QED
  BY <1>1, <1>2, <1>3, <1>4, <1>5, WorkerIs DEF Next

LEMMA CalmStep ==
  ASSUME OAuthInv, OAuthInv', OAuthRestInv, [Next]_vars, Calm'
  PROVE  /\ Calm /\ Recorded /\ ~Restart /\ cr.state = "live" /\ Exists(cr)
         /\ Pass => ~Failure /\ ~Refused
<1>1. Calm
  BY OAuthFresh, OAuthWithin DEF OAuthRestInv, Calm
<1> QED
  BY <1>1, OAuthWithin DEF OAuthRestInv, Calm, Exists, Refused

(* A call of a quiet pass finds everything as it was, or an event follows.  *)
LEMMA QuietStep ==
  ASSUME OAuthInv, OAuthInv', OAuthRestInv, Pass, Quiet'
  PROVE  /\ Quiet /\ OAuthKnows /\ fresh /\ mem = cr /\ cr' = cr
         /\ ~Failure /\ ~Refused /\ ~Conflict /\ ~Deleting(mem)
         /\ \A c : Store(c) => c = cr
<1>1. Next /\ Calm'
  BY WorkerIs DEF Next, Quiet
<1>2. Calm /\ ~Failure /\ ~Refused /\ Exists(cr) /\ cr.state = "live"
  BY <1>1, CalmStep
<1>3. CallKind
  BY <1>2, CallKinds
<1>4. pc # "idle"
  BY DEF Pass, ReconcileFinalizer, AppendFinalizer, DeleteFinalizer, GenerateName,
     GenerateSecret, SyncOAuthClient, ProvisionKeycloak, RecordProvisioned,
     DeleteIdentityProvider, DeleteOAuthClient, ClearProvisioned, ClearSpec
<1>5. ~queued
  <2>1. (\E l, c : Goto(l, c)) \/ Done \/ (\E l : Reload(l, crCache)) => ~queued
    BY DEF Goto, Done, Reload, Quiet
  <2>2. ~Requeue
    BY DEF Requeue, Quiet
  <2>3. ASSUME NEW n, NEW c, WriteFinalizer(c, n) PROVE ~queued
    BY <2>1, <2>3 DEF WriteFinalizer, Resume, AfterFinalizer
  <2> QED
    BY <2>1, <2>2, <2>3 DEF Pass, ReconcileFinalizer, AppendFinalizer, DeleteFinalizer,
       GenerateName, GenerateSecret, UpdateSpec, SyncOAuthClient, ProvisionKeycloak,
       RecordProvisioned, DeleteIdentityProvider, DeleteOAuthClient, ClearProvisioned,
       ClearSpec, AfterFinalizer
<1>6. \A c : Store(c) => c = cr /\ UNCHANGED store
  BY DEF Store, Quiet
<1>7. UNCHANGED store
  BY <1>3, <1>6 DEF CallKind
<1>8. Quiet
  BY <1>2, <1>5, <1>7 DEF Quiet, store
<1>9. OAuthKnows /\ fresh
  BY <1>4, <1>8 DEF OAuthRestInv, OAuthKnows
<1>10. mem = cr
  BY <1>2, <1>9 DEF OAuthRestInv, FreshIsCR, Calm
<1> QED
  BY <1>2, <1>6, <1>7, <1>8, <1>9, <1>10 DEF Conflict, Deleting, store

(* The steps keep Recorded, ...                                            *)
LEMMA StoresStatus ==
  ASSUME NEW d, Store(d), cr'.state = "live"
  PROVE  cr'.provisioned = d.provisioned
BY StateKept DEF Store, store, NoCR

LEMMA RecordedFinalizer ==
  ASSUME OAuthInv, Recorded, ~Failure, ~Refused, cr'.state = "live",
         ReconcileFinalizer \/ AppendFinalizer \/ DeleteFinalizer
  PROVE  Recorded'
<1>1. CASE ReconcileFinalizer
  <2>1. UNCHANGED <<cr, idp>> /\ pc = "finalizer"
    BY <1>1 DEF ReconcileFinalizer, store
  <2>2. pc' \in {"append", "dropDeleted", "name", "undo"}
    BY <1>1 DEF ReconcileFinalizer, AfterFinalizer, Goto
  <2> QED
    BY <2>1, <2>2 DEF Recorded, TakingDown
<1>2. ASSUME NEW b \in BOOLEAN, NEW next \in {"items", "clearStatus"},
             WriteFinalizer([mem EXCEPT !.fin = b], next),
             \/ pc \in {"append", "dropDeleted"} /\ next = "items"
             \/ pc = "drop" /\ next = "clearStatus"
      PROVE  Recorded'
  <2>1. cr'.provisioned = cr.provisioned /\ idp' = idp
    <3> DEFINE new == [mem EXCEPT !.fin = b]
    <3>1. SpecOf(new).provisioned = cr.provisioned
      BY StateKept
    <3> HIDE DEF new
    <3>2. UNCHANGED store \/ Store(SpecOf(new))
      BY <1>2 DEF WriteFinalizer, new
    <3> QED
      BY <1>2, <3>1, <3>2, StoresStatus DEF WriteFinalizer, store
  <2>2. pc' = pc \/ (next = "clearStatus" /\ pc' = next) \/ (next = "items" /\ pc' \in {"name", "undo"})
    BY <1>2 DEF WriteFinalizer, Resume, AfterFinalizer, Goto, Reload
  <2> QED
    BY <1>2, <2>1, <2>2 DEF Recorded, TakingDown
<1>3. CASE AppendFinalizer \/ DeleteFinalizer
  BY <1>2, <1>3 DEF AppendFinalizer, DeleteFinalizer
<1> QED
  BY <1>1, <1>3

LEMMA RecordedItems ==
  ASSUME OAuthInv, Recorded, ~Failure, ~Refused, cr'.state = "live",
         GenerateName \/ GenerateSecret \/ SyncOAuthClient \/ ProvisionKeycloak
         \/ RecordProvisioned
  PROVE  Recorded'
<1>1. CASE GenerateName \/ GenerateSecret
  <2>1. \A n : /\ SpecOf([mem EXCEPT !.name = n]).provisioned = cr.provisioned
               /\ SpecOf([mem EXCEPT !.secret = n]).provisioned = cr.provisioned
    BY StateKept
  <2>2. ASSUME NEW c, NEW next \in {"secret", "client"}, UpdateSpec(c, next),
               SpecOf(c).provisioned = cr.provisioned
        PROVE  cr'.provisioned = cr.provisioned /\ pc' \in {"secret", "client", "idle"}
    <3>1. Store(SpecOf(c)) \/ UNCHANGED store
      BY <2>2 DEF UpdateSpec
    <3>2. pc' \in {"secret", "client", "idle"}
      BY <2>2 DEF UpdateSpec, Goto, Requeue, Leave
    <3> QED
      BY <2>2, <3>1, <3>2, StoresStatus DEF store
  <2>3. cr'.provisioned = cr.provisioned /\ pc' \in {"secret", "client", "idle"}
    BY <1>1, <2>1, <2>2 DEF GenerateName, GenerateSecret, Goto, store
  <2>4. idp' = idp /\ pc \in {"name", "secret"}
    BY <1>1 DEF GenerateName, GenerateSecret
  <2> QED
    BY <2>3, <2>4 DEF Recorded, TakingDown
<1>2. CASE SyncOAuthClient
  <2>1. UNCHANGED <<cr, idp>> /\ pc = "client" /\ pc' \in {"provision", "idle"}
    BY <1>2 DEF SyncOAuthClient, store, Goto, Done, Leave
  <2> QED
    BY <2>1 DEF Recorded, TakingDown
<1>3. CASE ProvisionKeycloak
  <2>1. UNCHANGED cr /\ pc = "provision" /\ mem.name # 0
    BY <1>3 DEF ProvisionKeycloak, store, OAuthInv, KeysInv, InHand
  <2>2. Configured # None
    BY <2>1 DEF Configured, None
  <2>3. \/ pc' = "undo" /\ idp' = idp
        \/ pc' = "record" /\ idp' # None
    BY <1>3, <2>2 DEF ProvisionKeycloak, Goto
  <2> QED
    BY <2>1, <2>3 DEF Recorded, TakingDown
<1>4. CASE RecordProvisioned
  <2>1. idp' = idp /\ idp # None
    BY <1>4 DEF RecordProvisioned, Recorded
  <2>2. \/ cr'.provisioned /\ pc' = "undo"
        \/ cr' = cr /\ pc' = "record"
    <3>1. WithStatus(TRUE).provisioned
      BY StateKept
    <3> QED
      BY <1>4, <3>1, StoresStatus DEF RecordProvisioned, Goto, Reload, store
  <2> QED
    BY <2>1, <2>2 DEF Recorded, TakingDown
<1> QED
  BY <1>1, <1>2, <1>3, <1>4

LEMMA RecordedUndo ==
  ASSUME OAuthInv, Recorded, ~Failure, ~Refused, cr'.state = "live",
         DeleteIdentityProvider \/ DeleteOAuthClient \/ ClearProvisioned \/ ClearSpec
  PROVE  Recorded'
<1>1. CASE DeleteIdentityProvider
  <2>1. UNCHANGED cr /\ pc = "undo"
    BY <1>1 DEF DeleteIdentityProvider, store
  <2>2. \/ pc' = "idle" /\ idp' = idp
        \/ pc' = "deleteClient" /\ idp' = None
    BY <1>1 DEF DeleteIdentityProvider, Goto, Done, Leave
  <2> QED
    BY <2>1, <2>2 DEF Recorded, TakingDown
<1>2. CASE DeleteOAuthClient
  <2>1. UNCHANGED <<cr, idp>> /\ pc = "deleteClient" /\ pc' \in {"drop", "clearStatus"}
    BY <1>2 DEF DeleteOAuthClient, store, Goto
  <2> QED
    BY <2>1 DEF Recorded, TakingDown
<1>3. CASE ClearProvisioned
  <2>1. idp' = idp /\ idp = None /\ pc = "clearStatus"
    BY <1>3 DEF ClearProvisioned, Recorded, TakingDown
  <2>2. \/ cr'.provisioned = FALSE /\ pc' = "clearSpec" /\ ~mem'.provisioned
        \/ cr' = cr /\ pc' = "clearStatus"
    <3>1. WithStatus(FALSE).provisioned = FALSE
      BY StateKept
    <3> QED
      BY <1>3, <3>1, StoresStatus DEF ClearProvisioned, Goto, store
  <2> QED
    BY <2>1, <2>2 DEF Recorded, TakingDown
<1>4. CASE ClearSpec
  <2>1. idp' = idp /\ idp = None /\ pc = "clearSpec" /\ ~mem.provisioned
    BY <1>4 DEF ClearSpec, Recorded
  <2>2. \/ ~cr'.provisioned /\ pc' = "idle"
        \/ cr' = cr /\ pc' = "clearSpec" /\ mem' = mem
    <3>1. WithStatus(mem.provisioned).provisioned = mem.provisioned
      BY StateKept
    <3> QED
      BY <1>4, <2>1, <3>1, StoresStatus DEF ClearSpec, Goto, Done, Leave, store
  <2> QED
    BY <2>1, <2>2 DEF Recorded, TakingDown
<1> QED
  BY <1>1, <1>2, <1>3, <1>4

(* ... and a quiet pass keeps what it knows.                               *)
LEMMA QuietFinalizer ==
  ASSUME OAuthInv, OAuthInv', OAuthRestInv, Pass, Quiet',
         ReconcileFinalizer \/ AppendFinalizer \/ DeleteFinalizer
  PROVE  OAuthKnows'
<1>1. /\ OAuthKnows /\ fresh /\ mem = cr /\ cr' = cr
      /\ ~Failure /\ ~Refused /\ ~Conflict /\ ~Deleting(mem)
      /\ \A c : Store(c) => c = cr
  BY QuietStep
<1>2. CASE ReconcileFinalizer
  <2>1. /\ fresh' /\ \/ pc' = "append" /\ ~cr.fin
                     \/ pc' = "name" /\ cr.oauth
                     \/ pc' = "undo" /\ ~cr.oauth
    BY <1>1, <1>2 DEF ReconcileFinalizer, AfterFinalizer, Goto
  <2> QED
    BY <1>1, <2>1 DEF OAuthKnows, TakingDown
<1>3. CASE AppendFinalizer \/ DeleteFinalizer
  <2>1. PICK b \in BOOLEAN : /\ \E next : WriteFinalizer([mem EXCEPT !.fin = b], next)
                             /\ b = (pc = "append") /\ pc \in {"append", "dropDeleted", "drop"}
    BY <1>3 DEF AppendFinalizer, DeleteFinalizer
  <2> DEFINE new == [mem EXCEPT !.fin = b]
  <2>2. SpecOf(new).fin = b
    BY StateKept
  <2> HIDE DEF new
  <2>3. Store(SpecOf(new))
    BY <1>1, <2>1 DEF WriteFinalizer, new
  <2>4. cr.fin = b
    BY <1>1, <2>2, <2>3
  <2> QED
    BY <1>1, <2>1, <2>4 DEF OAuthKnows
<1> QED
  BY <1>2, <1>3

LEMMA QuietItems ==
  ASSUME OAuthInv, OAuthInv', OAuthRestInv, Pass, Quiet',
         GenerateName \/ GenerateSecret \/ SyncOAuthClient
  PROVE  OAuthKnows'
<1>1. /\ OAuthKnows /\ fresh /\ mem = cr /\ cr' = cr
      /\ ~Failure /\ ~Refused /\ ~Conflict /\ ~Deleting(mem)
      /\ \A c : Store(c) => c = cr
  BY QuietStep
<1>2. CASE GenerateName \/ GenerateSecret
  <2>1. ASSUME NEW c, NEW next, UpdateSpec(c, next)
        PROVE  pc' = next /\ fresh'
    BY <1>1, <2>1 DEF UpdateSpec, Goto
  <2>2. pc' \in {"secret", "client"} /\ fresh' /\ cr.oauth
    BY <1>1, <1>2, <2>1 DEF GenerateName, GenerateSecret, Goto, OAuthKnows
  <2> QED
    BY <1>1, <2>2 DEF OAuthKnows, TakingDown
<1>3. CASE SyncOAuthClient
  <2>1. cr.oauth /\ cr.name # 0 /\ cr.secret # 0 /\ cr.name \in Numbers
    <3>1. pc = "client"
      BY <1>3 DEF SyncOAuthClient
    <3> QED
      BY <1>1, <3>1, InUse, UpdateFacts DEF OAuthKnows, OAuthInv, KeysInv, InHand
  <2>2. clients[cr.name] \in {0, cr.secret}
    <3>1. Exists(cr)
      BY QuietStep DEF Quiet, Calm, Exists
    <3> QED
      BY <2>1, <3>1, InUse DEF OAuthInv, KeysInv, AllStored
  <2>3. pc' = "provision" /\ fresh' /\ clients'[cr.name] = cr.secret
    <3>1. clients \in [Numbers -> Numbers]
      BY InUse
    <3> QED
      BY <1>1, <1>3, <2>1, <2>2, <3>1 DEF SyncOAuthClient, Goto
  <2> QED
    BY <1>1, <2>1, <2>3 DEF OAuthKnows, TakingDown
<1> QED
  BY <1>2, <1>3

(* What Keycloak has is what the CR stores.                                *)
LEMMA ProviderIsStored ==
  ASSUME OAuthInv, Exists(cr), idp # None
  PROVE  idp = [name |-> cr.name, secret |-> cr.secret] /\ cr.name # 0
<1>1. idp.name = cr.name /\ idp.secret = cr.secret /\ cr.name # 0
  BY InUse DEF OAuthInv, KeysInv, AllStored, Whole
<1> QED
  BY <1>1, InUse

LEMMA QuietProvider ==
  ASSUME OAuthInv, OAuthInv', OAuthRestInv, Pass, Quiet', Recorded',
         ProvisionKeycloak \/ RecordProvisioned \/ DeleteIdentityProvider
  PROVE  OAuthKnows'
<1>1. /\ OAuthKnows /\ fresh /\ mem = cr /\ cr' = cr
      /\ ~Failure /\ ~Refused /\ ~Conflict /\ ~Deleting(mem)
      /\ \A c : Store(c) => c = cr
  BY QuietStep
<1>2. CASE ProvisionKeycloak
  <2>1. cr.oauth /\ cr.name # 0 /\ clients[cr.name] = cr.secret /\ clients' = clients
    BY <1>1, <1>2 DEF ProvisionKeycloak, OAuthKnows
  <2>2. \/ pc' = "undo" /\ fresh' /\ cr.provisioned
        \/ pc' = "record" /\ fresh' /\ ~cr.provisioned
    BY <1>1, <1>2 DEF ProvisionKeycloak, Goto
  <2> QED
    BY <1>1, <2>1, <2>2 DEF OAuthKnows, TakingDown
<1>3. CASE RecordProvisioned
  <2>1. Store(WithStatus(TRUE)) /\ WithStatus(TRUE).provisioned /\ pc = "record"
    BY <1>1, <1>3, StateKept DEF RecordProvisioned
  <2>2. cr.provisioned
    BY <1>1, <2>1
  <2> QED
    BY <1>1, <2>1, <2>2 DEF OAuthKnows
<1>4. CASE DeleteIdentityProvider
  <2>0. pc = "undo" /\ clients' = clients
    BY <1>4 DEF DeleteIdentityProvider
  <2>1. CASE (mem.oauth \/ ~mem.provisioned) /\ Done
    <3>1. pc' = "idle"
      BY <2>1 DEF Done, Leave
    <3>2. cr.oauth => cr.provisioned /\ clients[cr.name] = cr.secret
      BY <1>1, <2>0 DEF OAuthKnows
    <3>3. cr.provisioned => idp' # None
      BY <1>1, <3>1 DEF Recorded, TakingDown
    <3>4. ~cr.provisioned => idp' = None
      BY <1>1, <3>1 DEF Recorded
    <3>5. Exists(cr)'
      BY DEF Quiet, Calm, Exists
    <3>6. idp' # None => idp' = [name |-> cr.name, secret |-> cr.secret] /\ cr.name # 0
      <4>1. (idp # None => idp = [name |-> cr.name, secret |-> cr.secret] /\ cr.name # 0)'
        BY <3>5, ProviderIsStored, PTL
      <4> QED
        BY <1>1, <4>1
    <3>7. InStep'
      BY <1>1, <2>0, <2>1, <3>2, <3>3, <3>4, <3>6 DEF InStep
    <3> QED
      BY <3>1, <3>7 DEF OAuthKnows, TakingDown
  <2>2. CASE ~mem.oauth /\ mem.provisioned /\ Goto("deleteClient", mem)
    BY <1>1, <2>2 DEF Goto, OAuthKnows, TakingDown
  <2> QED
    BY <1>1, <1>4, <2>1, <2>2 DEF DeleteIdentityProvider
<1> QED
  BY <1>2, <1>3, <1>4

LEMMA QuietUndo ==
  ASSUME OAuthInv, OAuthInv', OAuthRestInv, Pass, Quiet',
         DeleteOAuthClient \/ ClearProvisioned \/ ClearSpec
  PROVE  OAuthKnows'
<1>1. /\ OAuthKnows /\ fresh /\ mem = cr /\ cr' = cr
      /\ ~Failure /\ ~Refused /\ ~Conflict /\ ~Deleting(mem)
      /\ \A c : Store(c) => c = cr
  BY QuietStep
<1>2. CASE DeleteOAuthClient
  <2>1. /\ cr.provisioned /\ ~cr.oauth /\ fresh'
        /\ pc' = IF cr.fin THEN "drop" ELSE "clearStatus"
    BY <1>1, <1>2 DEF DeleteOAuthClient, Goto, OAuthKnows, TakingDown
  <2> QED
    BY <1>1, <2>1 DEF OAuthKnows, TakingDown
<1>3. CASE ClearProvisioned
  <2>1. Store(WithStatus(FALSE)) /\ WithStatus(FALSE).provisioned = FALSE /\ pc = "clearStatus"
    BY <1>1, <1>3, StateKept DEF ClearProvisioned
  <2>2. ~cr.provisioned
    BY <1>1, <2>1
  <2> QED
    BY <1>1, <2>1, <2>2 DEF OAuthKnows, TakingDown
<1>4. CASE ClearSpec
  BY <1>1, <1>4 DEF ClearSpec, OAuthKnows
<1> QED
  BY <1>2, <1>3, <1>4

LEMMA OAuthInitRests == Init => OAuthRestInv
<1> SUFFICES ASSUME Init PROVE OAuthRestInv
  OBVIOUS
<1>1. ~cr.provisioned
  BY DEF Init, NoCR
<1> QED
  BY <1>1, OAuthAssumption
     DEF Init, OAuthRestInv, Within, FreshIsCR, Recorded, TakingDown, Quiet, OAuthAssumption

LEMMA OAuthNextRests == OAuthInv /\ OAuthInv' /\ OAuthRestInv /\ [Next]_vars => OAuthRestInv'
<1> SUFFICES ASSUME OAuthInv, OAuthInv', OAuthRestInv, [Next]_vars PROVE OAuthRestInv'
  OBVIOUS
<1>1. Within' /\ FreshIsCR'
  BY OAuthWithin, OAuthFresh DEF OAuthRestInv
<1>2. CASE Pass
  <2>1. ASSUME Calm' PROVE Recorded'
    <3>1. Recorded /\ ~Failure /\ ~Refused /\ cr'.state = "live"
      BY <1>2, <2>1, CalmStep DEF Calm
    <3> QED
      BY <1>2, <3>1, RecordedFinalizer, RecordedItems, RecordedUndo DEF Pass
  <2>2. ASSUME Quiet' PROVE OAuthKnows'
    <3>1. Recorded'
      BY <2>1, <2>2 DEF Quiet
    <3> QED
      BY <1>2, <2>2, <3>1, QuietFinalizer, QuietItems, QuietProvider, QuietUndo DEF Pass
  <2> QED
    BY <1>1, <2>1, <2>2 DEF OAuthRestInv
<1>3. CASE Start
  <2>1. ASSUME Calm' PROVE Recorded'
    <3>1. Recorded
      BY <2>1, CalmStep
    <3>2. UNCHANGED <<cr, idp>> /\ pc = "idle" /\ pc' \in {"idle", "finalizer"}
      BY <1>3 DEF Start, store
    <3> QED
      BY <3>1, <3>2 DEF Recorded, TakingDown
  <2>2. ASSUME Quiet' PROVE OAuthKnows'
    <3>1. Exists(cr)
      BY <2>2, CalmStep DEF Quiet
    <3>2. ~stale /\ crCache = cr
      BY <1>3, <2>2 DEF Start, store, Quiet, OAuthInv, KeysInv, UpToDate
    <3>3. pc' = "finalizer" /\ fresh'
      BY <1>3, <3>1, <3>2 DEF Start
    <3> QED
      BY <3>3 DEF OAuthKnows, TakingDown
  <2> QED
    BY <1>1, <2>1, <2>2 DEF OAuthRestInv
<1>4. CASE Toggle \/ DeleteCR
  <2>1. ASSUME Calm' PROVE Recorded'
    <3>1. Recorded
      BY <2>1, CalmStep
    <3>2. UNCHANGED <<idp, pc, mem>> /\ cr'.provisioned = cr.provisioned
      <4>1. [cr EXCEPT !.oauth = ~@].provisioned = cr.provisioned
            /\ [cr EXCEPT !.state = "deleting"].provisioned = cr.provisioned
        BY InUse DEF CheCluster
      <4> QED
        BY <1>4, <2>1, <4>1, StateKept DEF Toggle, DeleteCR, UserWrites, Calm
    <3> QED
      BY <3>1, <3>2 DEF Recorded, TakingDown
  <2>2. ~Quiet'
    BY <1>4 DEF Toggle, DeleteCR, UserWrites, Quiet
  <2> QED
    BY <1>1, <2>1, <2>2 DEF OAuthRestInv
<1>5. CASE CacheSync
  <2>1. UNCHANGED <<cr, idp, pc, mem, failures, restarts>> /\ ~Quiet'
    BY <1>5 DEF CacheSync, bounds, Quiet
  <2> QED
    BY <1>1, <2>1 DEF OAuthRestInv, Calm, Recorded, TakingDown
<1>6. CASE Restart
  <2>1. ~Calm'
    BY <1>6, CalmStep
  <2> QED
    BY <1>1, <2>1 DEF OAuthRestInv, Quiet
<1>7. CASE UNCHANGED vars
  BY <1>7 DEF vars, OAuthRestInv, Within, FreshIsCR, Calm, Quiet, Recorded, OAuthKnows,
     TakingDown, InStep, Exists
<1> QED
  BY <1>2, <1>3, <1>4, <1>5, <1>6, <1>7, WorkerIs DEF Next

(* No wake-up is lost, and no toggle: as long as no call has failed and the  *)
(* operator was not restarted, then with an empty work queue, no pass and   *)
(* no event to come, OAuth is as the CR says in the cluster, in Keycloak and *)
(* in the status.  The user may have toggled it in the middle of any pass.  *)
(* This is what ToggleTakesEffect needs besides fairness.                  *)
THEOREM AtRestInStep == Spec => []OAuthAtRest
<1>1. OAuthRestInv => OAuthAtRest
  BY DEF OAuthRestInv, OAuthAtRest, OAuthKnows
<1> QED
  BY <1>1, OAuthInitRests, OAuthNextRests, AlwaysOAuthInv, PTL DEF Spec

-----------------------------------------------------------------------------
(* The login with GitHub.  Types, by parts.                                 *)

GitHubCluster ==
  /\ secrets \subseteq G!Secrets /\ provisioned \in BOOLEAN /\ provider \in BOOLEAN
  /\ deployment \in [env : SUBSET G!Credentials, available : BOOLEAN]
  /\ pods \subseteq G!Pod
GitHubSeen ==
  /\ secretsSeen \subseteq G!Secrets /\ crSeen \in BOOLEAN
  /\ deploymentSeen \in [env : SUBSET G!Credentials, available : BOOLEAN]
  /\ stale \subseteq G!Kinds /\ ("cr" \notin stale => crSeen = provisioned)
GitHubWorker ==
  /\ pc \in {"idle", "deployment", "github", "status"}
  /\ mem \in BOOLEAN /\ fresh \in BOOLEAN /\ queued \in BOOLEAN /\ (fresh => mem = provisioned)
GitHubBounds == userOps \in 0 .. MaxUserOps /\ mishaps \in 0 .. MaxMishaps

(* A script has run on the account of Secrets, in the direction in which the *)
(* status is to change.                                                    *)
Ran == pc = "status" /\ ~slipped => provider = ~mem

(* The Secrets that the operator sees call for what a script has done and    *)
(* the status does not say: the pass that repeats it records it.            *)
CalledFor(s) == IF provisioned THEN G!Sources(s) = {} ELSE Cardinality(G!Sources(s)) = 1
ScriptIsDue == ~slipped /\ provider # provisioned => CalledFor(secretsSeen)

GitHubInv ==
  /\ GitHubCluster /\ GitHubSeen /\ GitHubWorker /\ GitHubBounds /\ slipped \in BOOLEAN
  /\ Ran /\ ScriptIsDue

LEMMA GitHubBoundsKept ==
  ASSUME MaxMishaps \in Nat, GitHubBounds, [G!Next]_G!vars PROVE GitHubBounds'
<1>1. userOps' = userOps \/ (userOps > 0 /\ userOps' = userOps - 1)
  BY DEF G!Next, G!vars, G!Operator, G!Start, G!SyncKeycloakDeployment, G!SyncGitHubOAuth,
     G!CreateProvider, G!DeleteProvider, G!RefuseSecrets, G!KeepProvider, G!RecordProvider,
     G!CallFails, G!Restart, G!ChangeSecrets, G!EditCR, G!PodCreated, G!PodReady, G!PodStops,
     G!PodGone, G!PodLost, G!StatusFollows, G!SyncCache, G!Controlled
<1>2. mishaps' = mishaps \/ (mishaps > 0 /\ mishaps' = mishaps - 1)
  BY DEF G!Next, G!vars, G!Operator, G!Start, G!SyncKeycloakDeployment, G!SyncGitHubOAuth,
     G!CreateProvider, G!DeleteProvider, G!RefuseSecrets, G!KeepProvider, G!RecordProvider,
     G!CallFails, G!Restart, G!ChangeSecrets, G!EditCR, G!PodCreated, G!PodReady, G!PodStops,
     G!PodGone, G!PodLost, G!StatusFollows, G!SyncCache, G!Controlled
<1> QED
  BY <1>1, <1>2, OAuthAssumption DEF GitHubBounds, OAuthAssumption

LEMMA EnvTypes == \A s \in SUBSET G!Secrets : G!Env(s) \subseteq G!Credentials
BY DEF G!Env, G!Credentials

(* A step that leaves Secrets, status and provider alone, and the worker     *)
(* where it is or idle or before its script.                                *)
LEMMA GitHubStepKeeps ==
  ASSUME GitHubInv, GitHubBounds', UNCHANGED <<secrets, provisioned, provider, crSeen, slipped>>,
         secretsSeen' = secretsSeen, stale \subseteq stale', stale' \subseteq G!Kinds,
         deployment' \in [env : SUBSET G!Credentials, available : BOOLEAN],
         UNCHANGED deploymentSeen, pods' \subseteq G!Pod, queued' \in BOOLEAN,
         \/ UNCHANGED <<pc, mem, fresh>>
         \/ mem' = FALSE /\ fresh' = FALSE /\ pc' = "idle"
         \/ UNCHANGED <<mem, fresh>> /\ pc' = "github"
  PROVE  GitHubInv'
<1>1. GitHubCluster' /\ GitHubSeen'
  BY DEF GitHubInv, GitHubCluster, GitHubSeen
<1>2. GitHubWorker' /\ Ran'
  <2>1. CASE UNCHANGED <<pc, mem, fresh>>
    BY <2>1 DEF GitHubInv, GitHubWorker, Ran
  <2>2. CASE mem' = FALSE /\ fresh' = FALSE /\ pc' = "idle"
    BY <2>2 DEF GitHubInv, GitHubWorker, Ran
  <2>3. CASE UNCHANGED <<mem, fresh>> /\ pc' = "github"
    BY <2>3 DEF GitHubInv, GitHubWorker, Ran
  <2> QED
    BY <2>1, <2>2, <2>3
<1>3. ScriptIsDue' /\ slipped' \in BOOLEAN
  BY DEF GitHubInv, ScriptIsDue, CalledFor
<1> QED
  BY <1>1, <1>2, <1>3 DEF GitHubInv

LEMMA GitHubEndKeeps ==
  ASSUME GitHubInv, GitHubBounds', G!Wait \/ G!Requeue, UNCHANGED G!cluster, UNCHANGED G!seen,
         UNCHANGED <<stale, slipped>>
  PROVE  GitHubInv'
<1>1. mem' = FALSE /\ fresh' = FALSE /\ pc' = "idle" /\ queued' \in BOOLEAN
  BY DEF G!Wait, G!Requeue, G!Leave, GitHubInv, GitHubWorker
<1> QED
  BY <1>1, GitHubStepKeeps DEF G!cluster, G!seen, GitHubInv, GitHubCluster, GitHubSeen

(* The pods and the status of the Deployment.                               *)
LEMMA GitHubPodsKeep ==
  ASSUME GitHubInv, GitHubBounds',
         G!PodCreated \/ G!PodReady \/ G!PodStops \/ G!PodGone \/ G!PodLost \/ G!StatusFollows
  PROVE  GitHubInv'
<1>1. /\ UNCHANGED <<secrets, provisioned, provider, secretsSeen, crSeen, deploymentSeen>>
      /\ UNCHANGED <<pc, mem, fresh, queued, slipped>>
  BY DEF G!PodCreated, G!PodReady, G!PodStops, G!PodGone, G!PodLost, G!StatusFollows, G!Controlled,
     G!seen, G!control
<1>2. GitHubCluster /\ GitHubSeen /\ GitHubWorker
  BY DEF GitHubInv
<1>3. ASSUME UNCHANGED <<deployment, stale>>, pods' \subseteq G!Pod PROVE GitHubInv'
  BY <1>1, <1>2, <1>3, GitHubStepKeeps DEF GitHubCluster, GitHubSeen, GitHubWorker
<1>4. CASE G!PodCreated
  <2>1. [env |-> deployment.env, phase |-> "starting"] \in G!Pod
    BY <1>2 DEF GitHubCluster, G!Pod
  <2> QED
    BY <1>2, <1>3, <1>4, <2>1 DEF G!PodCreated, GitHubCluster
<1>5. ASSUME NEW p \in pods, NEW f \in {"ready", "stopping"} PROVE [p EXCEPT !.phase = f] \in G!Pod
  BY <1>2 DEF GitHubCluster, G!Pod
<1>6. CASE G!PodReady
  <2>1. PICK p \in pods : pods' = (pods \ {p}) \cup {[p EXCEPT !.phase = "ready"]}
    BY <1>6 DEF G!PodReady
  <2>2. pods' \subseteq G!Pod
    BY <1>2, <1>5, <2>1 DEF GitHubCluster
  <2> QED
    BY <1>3, <1>6, <2>2 DEF G!PodReady
<1>7. CASE G!PodStops
  <2>1. PICK p \in pods : pods' = (pods \ {p}) \cup {[p EXCEPT !.phase = "stopping"]}
    BY <1>7 DEF G!PodStops, G!Running
  <2>2. pods' \subseteq G!Pod
    BY <1>2, <1>5, <2>1 DEF GitHubCluster
  <2> QED
    BY <1>3, <1>7, <2>2 DEF G!PodStops
<1>8. CASE G!PodGone \/ G!PodLost
  BY <1>2, <1>3, <1>8 DEF G!PodGone, G!PodLost, GitHubCluster
<1>9. CASE G!StatusFollows
  <2>1. /\ deployment' = [deployment EXCEPT !.available = G!Available]
        /\ stale' = stale \cup {"deployment"} /\ UNCHANGED pods
    BY <1>9 DEF G!StatusFollows
  <2>2. G!Available \in BOOLEAN
    BY DEF G!Available
  <2>3. deployment' \in [env : SUBSET G!Credentials, available : BOOLEAN]
    BY <1>2, <2>1, <2>2 DEF GitHubCluster
  <2>4. stale \subseteq stale' /\ stale' \subseteq G!Kinds
    BY <1>2, <2>1 DEF GitHubSeen, G!Kinds
  <2> QED
    BY <1>1, <1>2, <2>1, <2>3, <2>4, GitHubStepKeeps DEF GitHubCluster, GitHubWorker
<1> QED
  BY <1>4, <1>6, <1>7, <1>8, <1>9

-----------------------------------------------------------------------------
(* The user and the informers: what the operator sees is what may make a     *)
(* script that has run the wrong one.                                       *)
LEMMA GitHubUserKeeps ==
  ASSUME GitHubInv, GitHubBounds', G!ChangeSecrets \/ G!EditCR PROVE GitHubInv'
<1>1. /\ UNCHANGED <<provisioned, deployment, pods, provider, secretsSeen, crSeen, deploymentSeen>>
      /\ UNCHANGED <<pc, mem, queued, slipped>>
      /\ stale' \in {stale \cup {"cr"}, stale \cup {"secrets"}}
      /\ fresh' = fresh \/ fresh' = FALSE
  BY DEF G!ChangeSecrets, G!EditCR, G!seen, G!control, G!cluster
<1>2. secrets' \subseteq G!Secrets
  BY DEF G!ChangeSecrets, G!EditCR, G!cluster, GitHubInv, GitHubCluster
<1>3. GitHubCluster' /\ GitHubSeen'
  BY <1>1, <1>2 DEF GitHubInv, GitHubCluster, GitHubSeen, G!Kinds
<1>4. GitHubWorker' /\ Ran'
  <2>1. CASE UNCHANGED fresh
    BY <1>1, <2>1 DEF GitHubInv, GitHubWorker, Ran
  <2>2. CASE fresh' = FALSE
    BY <1>1, <2>2 DEF GitHubInv, GitHubWorker, Ran
  <2> QED
    BY <1>1, <2>1, <2>2
<1>5. ScriptIsDue' /\ slipped' \in BOOLEAN
  BY <1>1 DEF GitHubInv, ScriptIsDue, CalledFor
<1> QED
  BY <1>3, <1>4, <1>5 DEF GitHubInv

(* The caches change as far as events have come.                            *)
LEMMA GitHubFollowKeeps ==
  ASSUME GitHubInv, GitHubBounds', UNCHANGED G!cluster, queued' \in BOOLEAN,
         secretsSeen' = secretsSeen \/ secretsSeen' = secrets,
         slipped' = (slipped \/ (G!Unrecorded /\ secretsSeen' # secretsSeen)),
         crSeen' = provisioned \/ (crSeen' = crSeen /\ ("cr" \in stale => "cr" \in stale')),
         deploymentSeen' \in {deployment, deploymentSeen}, stale' \subseteq stale,
         UNCHANGED <<pc, mem, fresh>> \/ (mem' = FALSE /\ fresh' = FALSE /\ pc' = "idle")
  PROVE  GitHubInv'
<1>1. UNCHANGED <<secrets, provisioned, deployment, pods, provider>>
  BY DEF G!cluster
<1>2. GitHubCluster' /\ GitHubSeen'
  BY <1>1 DEF GitHubInv, GitHubCluster, GitHubSeen
<1>3. GitHubWorker' /\ Ran'
  <2>1. CASE UNCHANGED <<pc, mem, fresh>>
    BY <1>1, <2>1 DEF GitHubInv, GitHubWorker, Ran
  <2>2. CASE mem' = FALSE /\ fresh' = FALSE /\ pc' = "idle"
    BY <1>1, <2>2 DEF GitHubInv, GitHubWorker, Ran
  <2> QED
    BY <2>1, <2>2
<1>4. ScriptIsDue' /\ slipped' \in BOOLEAN
  BY <1>1 DEF GitHubInv, ScriptIsDue, CalledFor, G!Unrecorded
<1> QED
  BY <1>2, <1>3, <1>4 DEF GitHubInv

LEMMA GitHubSyncCacheKeeps ==
  ASSUME GitHubInv, GitHubBounds', NEW k \in G!Kinds, G!SyncCache(k) PROVE GitHubInv'
<1>1. /\ stale' = stale \ {k} /\ queued' = TRUE /\ UNCHANGED G!cluster /\ UNCHANGED <<pc, mem, fresh>>
      /\ secretsSeen' = IF k = "secrets" THEN secrets ELSE secretsSeen
      /\ crSeen' = IF k = "cr" THEN provisioned ELSE crSeen
      /\ deploymentSeen' = IF k = "deployment" THEN deployment ELSE deploymentSeen
      /\ slipped' = (slipped \/ (G!Unrecorded /\ G!SeesOthers(k)))
  BY DEF G!SyncCache
<1>2. slipped' = (slipped \/ (G!Unrecorded /\ secretsSeen' # secretsSeen))
  BY <1>1 DEF G!SeesOthers
<1> QED
  BY <1>1, <1>2, GitHubFollowKeeps

LEMMA GitHubRestartKeeps == ASSUME GitHubInv, GitHubBounds', G!Restart PROVE GitHubInv'
<1>1. /\ stale' = {} /\ queued' = TRUE /\ UNCHANGED G!cluster
      /\ mem' = FALSE /\ fresh' = FALSE /\ pc' = "idle"
      /\ secretsSeen' = secrets /\ crSeen' = provisioned /\ deploymentSeen' = deployment
      /\ slipped' = (slipped \/ (G!Unrecorded /\ G!SeesOthers("secrets")))
  BY DEF G!Restart, G!Requeue, G!Leave
<1>2. slipped' = (slipped \/ (G!Unrecorded /\ secretsSeen' # secretsSeen))
  BY <1>1 DEF G!SeesOthers
<1> QED
  BY <1>1, <1>2, GitHubFollowKeeps

-----------------------------------------------------------------------------
(* The worker.                                                             *)

LEMMA GitHubStartKeeps == ASSUME GitHubInv, GitHubBounds', G!Start PROVE GitHubInv'
<1>1. /\ UNCHANGED <<secrets, provisioned, deployment, pods, provider>>
      /\ UNCHANGED <<secretsSeen, crSeen, deploymentSeen, stale, slipped>>
      /\ queued' = FALSE /\ mem' = crSeen /\ fresh' = ("cr" \notin stale) /\ pc' = "deployment"
  BY DEF G!Start, G!cluster, G!seen
<1>2. GitHubCluster' /\ GitHubSeen'
  BY <1>1 DEF GitHubInv, GitHubCluster, GitHubSeen
<1>3. GitHubWorker' /\ Ran'
  BY <1>1 DEF GitHubInv, GitHubSeen, GitHubWorker, Ran
<1>4. ScriptIsDue' /\ slipped' \in BOOLEAN
  BY <1>1 DEF GitHubInv, ScriptIsDue, CalledFor
<1> QED
  BY <1>2, <1>3, <1>4 DEF GitHubInv

LEMMA GitHubDeploymentKeeps ==
  ASSUME GitHubInv, GitHubBounds', G!SyncKeycloakDeployment PROVE GitHubInv'
<1>1. /\ UNCHANGED <<secrets, provisioned, pods, provider>>
      /\ UNCHANGED <<secretsSeen, crSeen, deploymentSeen, slipped>>
      /\ G!Go("github") \/ G!Wait \/ G!Requeue
      /\ \/ UNCHANGED <<deployment, stale>>
         \/ /\ deployment' = [deployment EXCEPT !.env = G!Env(secretsSeen)]
            /\ stale' = stale \cup {"deployment"}
  BY DEF G!SyncKeycloakDeployment, G!seen
<1>2. /\ \/ UNCHANGED <<mem, fresh>> /\ pc' = "github"
         \/ mem' = FALSE /\ fresh' = FALSE /\ pc' = "idle"
      /\ queued' \in BOOLEAN
  BY <1>1 DEF G!Go, G!Wait, G!Requeue, G!Leave, GitHubInv, GitHubWorker
<1>3. G!Env(secretsSeen) \subseteq G!Credentials
  BY EnvTypes DEF GitHubInv, GitHubSeen
<1>4. deployment' \in [env : SUBSET G!Credentials, available : BOOLEAN]
  BY <1>1, <1>3 DEF GitHubInv, GitHubCluster
<1>5. stale \subseteq stale' /\ stale' \subseteq G!Kinds
  BY <1>1 DEF GitHubInv, GitHubSeen, G!Kinds
<1> QED
  BY <1>1, <1>2, <1>4, <1>5, GitHubStepKeeps DEF GitHubInv, GitHubCluster

(* The instance counts as this module does.                                 *)
LEMMA SameCardinality == \A s : G!Cardinality(s) = Cardinality(s)
BY DEF G!Cardinality, Cardinality

(* A script has run, and its result is to be recorded.                      *)
LEMMA GitHubScriptKeeps ==
  ASSUME GitHubInv, GitHubBounds', G!Go("status"),
         UNCHANGED <<secrets, provisioned, deployment, pods, stale>>, UNCHANGED G!seen,
         provider' \in BOOLEAN, slipped' \in BOOLEAN,
         slipped' \/ provider' = ~mem, slipped => slipped',
         G!Sources(secretsSeen) = {} => mem,
         G!Sources(secretsSeen) # {} => ~mem /\ Cardinality(G!Sources(secretsSeen)) = 1
  PROVE  GitHubInv'
<1>1. /\ UNCHANGED <<secretsSeen, crSeen, deploymentSeen>>
      /\ UNCHANGED <<mem, fresh, queued>> /\ pc' = "status"
  BY DEF G!seen, G!Go
<1>2. GitHubCluster' /\ GitHubSeen'
  BY <1>1 DEF GitHubInv, GitHubCluster, GitHubSeen
<1>3. GitHubWorker' /\ Ran'
  BY <1>1 DEF GitHubInv, GitHubWorker, Ran
<1>4. ScriptIsDue'
  <2>1. SUFFICES ASSUME ~slipped', provider' # provisioned PROVE CalledFor(secretsSeen)'
    BY DEF ScriptIsDue
  <2>2. provider' = ~mem /\ mem \in BOOLEAN /\ provisioned \in BOOLEAN
    BY <2>1 DEF GitHubInv, GitHubWorker, GitHubCluster
  <2>3. mem = provisioned
    BY <2>1, <2>2
  <2> QED
    BY <1>1, <2>3 DEF CalledFor
<1> QED
  BY <1>2, <1>3, <1>4 DEF GitHubInv

LEMMA GitHubProviderKeeps ==
  ASSUME GitHubInv, GitHubBounds', G!CreateProvider \/ G!DeleteProvider PROVE GitHubInv'
<1>1. UNCHANGED <<secrets, provisioned, deployment, pods, stale>> /\ UNCHANGED G!seen
  BY DEF G!CreateProvider, G!DeleteProvider
<1>2. provider \in BOOLEAN /\ slipped \in BOOLEAN
  BY DEF GitHubInv, GitHubCluster
<1>3. CASE G!Requeue /\ UNCHANGED <<provider, slipped>>
  BY <1>1, <1>3, GitHubEndKeeps DEF G!cluster
<1>4. CASE G!CreateProvider /\ provider' = TRUE /\ G!Go("status")
  <2>1. /\ Cardinality(G!Sources(secretsSeen)) = 1 /\ ~mem /\ UNCHANGED slipped
    BY <1>4, SameCardinality DEF G!CreateProvider
  <2>2. G!Sources(secretsSeen) # {}
    BY <2>1, FS_EmptySet
  <2> QED
    BY <1>1, <1>2, <1>4, <2>1, <2>2, GitHubScriptKeeps
<1>5. CASE G!DeleteProvider /\ G!Go("status")
  <2>1. /\ G!Sources(secretsSeen) = {} /\ mem
        /\ \/ provider' = FALSE /\ UNCHANGED slipped
           \/ slipped' = (slipped \/ provider) /\ UNCHANGED provider
    BY <1>5 DEF G!DeleteProvider, G!Go, G!Requeue, G!Leave
  <2>2. slipped' \in BOOLEAN /\ provider' \in BOOLEAN /\ (slipped => slipped')
        /\ (slipped' \/ provider' = ~mem)
    <3>1. CASE provider' = FALSE /\ UNCHANGED slipped
      BY <1>2, <2>1, <3>1
    <3>2. CASE slipped' = (slipped \/ provider) /\ UNCHANGED provider
      BY <1>2, <2>1, <3>2
    <3> QED
      BY <2>1, <3>1, <3>2
  <2> QED
    BY <1>1, <1>5, <2>1, <2>2, GitHubScriptKeeps
<1> QED
  BY <1>3, <1>4, <1>5 DEF G!CreateProvider, G!DeleteProvider

LEMMA GitHubRecordKeeps == ASSUME GitHubInv, GitHubBounds', G!RecordProvider PROVE GitHubInv'
<1>1. /\ pc = "status" /\ UNCHANGED <<secrets, deployment, pods, provider, slipped>>
      /\ UNCHANGED <<secretsSeen, crSeen, deploymentSeen>>
  BY DEF G!RecordProvider, G!seen
<1>2. CASE fresh
  <2>1. /\ provisioned' = ~mem /\ stale' = stale \cup {"cr"}
        /\ mem' = FALSE /\ fresh' = FALSE /\ pc' = "idle" /\ UNCHANGED queued
    BY <1>2 DEF G!RecordProvider, G!Wait, G!Leave
  <2>2. GitHubCluster' /\ GitHubSeen'
    BY <1>1, <2>1 DEF GitHubInv, GitHubCluster, GitHubSeen, GitHubWorker, G!Kinds
  <2>3. GitHubWorker' /\ Ran'
    BY <2>1 DEF GitHubInv, GitHubWorker, Ran
  <2>4. ScriptIsDue' /\ slipped' \in BOOLEAN
    BY <1>1, <2>1 DEF GitHubInv, ScriptIsDue, Ran
  <2> QED
    BY <2>2, <2>3, <2>4 DEF GitHubInv
<1>3. CASE ~fresh
  BY <1>1, <1>3, GitHubEndKeeps DEF G!RecordProvider, G!cluster, G!seen
<1> QED
  BY <1>2, <1>3

LEMMA GitHubInit == MaxMishaps \in Nat /\ G!Init => GitHubInv
<1> SUFFICES ASSUME MaxMishaps \in Nat, G!Init PROVE GitHubInv
  OBVIOUS
<1>1. GitHubBounds
  BY OAuthAssumption DEF G!Init, GitHubBounds, OAuthAssumption
<1>2. GitHubCluster
  <2>1. [env |-> {}, phase |-> "ready"] \in G!Pod
    BY DEF G!Pod
  <2> QED
    BY <2>1 DEF G!Init, GitHubCluster
<1>4. GitHubSeen
  BY DEF G!Init, GitHubSeen
<1>3. GitHubWorker /\ Ran /\ ScriptIsDue /\ slipped \in BOOLEAN
  BY DEF G!Init, GitHubWorker, Ran, ScriptIsDue
<1> QED
  BY <1>1, <1>2, <1>3, <1>4 DEF GitHubInv

LEMMA GitHubNext == MaxMishaps \in Nat /\ GitHubInv /\ [G!Next]_G!vars => GitHubInv'
<1> SUFFICES ASSUME MaxMishaps \in Nat, GitHubInv, [G!Next]_G!vars PROVE GitHubInv'
  OBVIOUS
<1>1. GitHubBounds'
  BY GitHubBoundsKept DEF GitHubInv
<1>2. CASE G!RefuseSecrets \/ G!KeepProvider \/ G!CallFails
  BY <1>1, <1>2, GitHubEndKeeps DEF G!RefuseSecrets, G!KeepProvider, G!CallFails
<1>3. CASE G!Operator
  BY <1>1, <1>2, <1>3, GitHubStartKeeps, GitHubDeploymentKeeps, GitHubProviderKeeps,
     GitHubRecordKeeps DEF G!Operator, G!SyncGitHubOAuth
<1>4. CASE UNCHANGED G!vars
  <2>1. /\ UNCHANGED <<secrets, provisioned, deployment, pods, provider>>
        /\ UNCHANGED <<secretsSeen, crSeen, deploymentSeen, stale>>
        /\ UNCHANGED <<pc, mem, fresh, queued, slipped>>
    BY <1>4 DEF G!vars, G!cluster, G!seen, G!control
  <2> QED
    BY <1>1, <2>1, GitHubStepKeeps DEF GitHubInv, GitHubCluster, GitHubSeen, GitHubWorker
<1> QED
  BY <1>1, <1>2, <1>3, <1>4, GitHubRestartKeeps, GitHubUserKeeps, GitHubPodsKeep,
     GitHubSyncCacheKeeps DEF G!Next

LEMMA AlwaysGitHubInv == ASSUME MaxMishaps \in Nat PROVE G!Spec => []GitHubInv
<1>1. G!Init => GitHubInv
  BY GitHubInit
<1>2. GitHubInv /\ [G!Next]_G!vars => GitHubInv'
  BY GitHubNext
<1> QED
  BY <1>1, <1>2, PTL DEF G!Spec

(* Every variable of GitHubLogin has its type, and the copy of the status    *)
(* that counts as the latest revision is the status.                        *)
THEOREM GitHubTypeCorrect == ASSUME MaxMishaps \in Nat PROVE G!Spec => []G!TypeOK
<1>1. GitHubInv => G!TypeOK
  BY DEF GitHubInv, GitHubCluster, GitHubSeen, GitHubWorker, GitHubBounds, G!TypeOK
<1> QED
  BY <1>1, AlwaysGitHubInv, PTL

(* What a script has done in Keycloak and the status does not say yet is     *)
(* what the Secrets that the operator sees call for, so that running it      *)
(* again and recording it then is right: unless other Secrets were seen in   *)
(* between, or a Keycloak that did not answer was taken for an empty one.    *)
THEOREM UnrecordedScriptIsDue == ASSUME MaxMishaps \in Nat PROVE G!Spec => []ScriptIsDue
<1>1. GitHubInv => ScriptIsDue
  BY DEF GitHubInv
<1> QED
  BY <1>1, AlwaysGitHubInv, PTL

-----------------------------------------------------------------------------
(* The login with GitHub is left as the Secrets say.                        *)

GitHubAtRest ==
  pc = "idle" /\ ~queued /\ stale = {} =>
    /\ ~G!MountFails(secrets) /\ deployment.env = G!Env(secrets)
    /\ deployment.available =>
         /\ Cardinality(G!Sources(secrets)) = (IF provisioned THEN 1 ELSE 0)
         /\ slipped \/ provider = provisioned

(* A cache without an event to come shows what there is, and as long as the  *)
(* pass has written nothing and no event has come, the steps behind it have  *)
(* found what they want.                                                   *)
GitHubShows ==
  /\ "secrets" \notin stale => secretsSeen = secrets
  /\ "cr" \notin stale => crSeen = provisioned
  /\ "deployment" \notin stale => deploymentSeen = deployment

GitHubKnows ==
  /\ pc # "idle" => mem = crSeen
  /\ pc # "deployment" => ~G!MountFails(secretsSeen) /\ deploymentSeen.env = G!Env(secretsSeen)
  /\ pc = "idle" /\ deploymentSeen.available =>
       Cardinality(G!Sources(secretsSeen)) = (IF crSeen THEN 1 ELSE 0)

GitHubRestInv == GitHubShows /\ (~queued /\ stale = {} => GitHubKnows)

(* A step that ends the pass, or leaves it where it is.                     *)
LEMMA GitHubRequeueRests ==
  ASSUME GitHubRestInv, UNCHANGED G!cluster, UNCHANGED G!seen, UNCHANGED stale, G!Requeue
  PROVE  GitHubRestInv'
BY DEF GitHubRestInv, GitHubShows, G!cluster, G!seen, G!Requeue

LEMMA GitHubWriteRests ==
  ASSUME GitHubRestInv, UNCHANGED G!seen,
         \/ UNCHANGED <<secrets, provisioned>> /\ stale' = stale \cup {"deployment"}
         \/ UNCHANGED <<secrets, deployment>> /\ stale' = stale \cup {"cr"}
         \/ UNCHANGED <<provisioned, deployment>> /\ stale' = stale \cup {"secrets"}
  PROVE  GitHubRestInv'
BY DEF GitHubRestInv, GitHubShows, G!seen

LEMMA GitHubQuietRests ==
  ASSUME GitHubRestInv, UNCHANGED <<secrets, provisioned, deployment, stale>>,
         UNCHANGED G!seen, UNCHANGED G!control
  PROVE  GitHubRestInv'
BY DEF GitHubRestInv, GitHubShows, GitHubKnows, G!seen, G!control

LEMMA GitHubDeploymentRests ==
  ASSUME GitHubRestInv, G!SyncKeycloakDeployment PROVE GitHubRestInv'
<1>1. UNCHANGED <<secrets, provisioned>> /\ UNCHANGED G!seen /\ pc = "deployment"
  BY DEF G!SyncKeycloakDeployment
<1>2. CASE G!Requeue /\ UNCHANGED <<deployment, stale>>
  BY <1>1, <1>2 DEF GitHubRestInv, GitHubShows, G!seen, G!Requeue
<1>3. CASE stale' = stale \cup {"deployment"}
  BY <1>1, <1>3, GitHubWriteRests
<1>4. CASE /\ ~G!MountFails(secretsSeen) /\ deploymentSeen.env = G!Env(secretsSeen)
           /\ (IF deploymentSeen.available THEN G!Go("github") ELSE G!Wait)
           /\ UNCHANGED <<deployment, stale>>
  <2>1. CASE deploymentSeen.available
    BY <1>1, <1>4, <2>1 DEF G!Go, GitHubRestInv, GitHubShows, GitHubKnows, G!seen
  <2>2. CASE ~deploymentSeen.available
    BY <1>1, <1>4, <2>2 DEF G!Wait, G!Leave, GitHubRestInv, GitHubShows, GitHubKnows, G!seen
  <2> QED
    BY <2>1, <2>2
<1> QED
  BY <1>2, <1>3, <1>4 DEF G!SyncKeycloakDeployment

LEMMA GitHubScriptRests ==
  ASSUME GitHubRestInv, G!CreateProvider \/ G!DeleteProvider PROVE GitHubRestInv'
<1>1. UNCHANGED <<secrets, provisioned, deployment, stale>> /\ UNCHANGED G!seen /\ pc = "github"
  BY DEF G!CreateProvider, G!DeleteProvider
<1>2. CASE G!Go("status")
  BY <1>1, <1>2 DEF G!Go, GitHubRestInv, GitHubShows, GitHubKnows, G!seen
<1>3. CASE G!Requeue
  BY <1>1, <1>3 DEF GitHubRestInv, GitHubShows, G!seen, G!Requeue
<1> QED
  BY <1>2, <1>3 DEF G!CreateProvider, G!DeleteProvider

LEMMA GitHubKeepRests == ASSUME GitHubRestInv, G!KeepProvider PROVE GitHubRestInv'
<1>1. /\ UNCHANGED G!cluster /\ UNCHANGED G!seen /\ UNCHANGED stale /\ pc = "github" /\ G!Wait
      /\ Cardinality(G!Sources(secretsSeen)) = (IF mem THEN 1 ELSE 0)
  BY SameCardinality DEF G!KeepProvider
<1> QED
  BY <1>1 DEF G!Wait, G!Leave, GitHubRestInv, GitHubShows, GitHubKnows, G!cluster, G!seen

LEMMA GitHubRecordRests == ASSUME GitHubRestInv, G!RecordProvider PROVE GitHubRestInv'
<1>1. UNCHANGED <<secrets, deployment, pods, provider>> /\ UNCHANGED G!seen
  BY DEF G!RecordProvider
<1>2. CASE stale' = stale \cup {"cr"}
  BY <1>1, <1>2, GitHubWriteRests
<1>3. CASE G!Requeue /\ UNCHANGED <<provisioned, stale>>
  BY <1>1, <1>3, GitHubRequeueRests DEF G!cluster
<1> QED
  BY <1>2, <1>3 DEF G!RecordProvider

LEMMA GitHubSyncCacheRests ==
  ASSUME GitHubRestInv, NEW k \in G!Kinds, G!SyncCache(k) PROVE GitHubRestInv'
BY DEF G!SyncCache, G!Kinds, G!cluster, GitHubRestInv, GitHubShows

LEMMA GitHubInitRests == G!Init => GitHubRestInv
<1> SUFFICES ASSUME G!Init PROVE GitHubRestInv
  OBVIOUS
<1>1. G!Env({}) = {} /\ G!Sources({}) = {} /\ ~G!MountFails({})
  BY DEF G!Env, G!Sources, G!MountFails
<1>2. Cardinality({}) = 0
  BY FS_EmptySet
<1> QED
  BY <1>1, <1>2 DEF G!Init, GitHubRestInv, GitHubShows, GitHubKnows

LEMMA GitHubNextRests == ASSUME GitHubRestInv, [G!Next]_G!vars PROVE GitHubRestInv'
<1>1. CASE G!Start
  BY <1>1 DEF G!Start, G!cluster, G!seen, GitHubRestInv, GitHubShows, GitHubKnows
<1>2. CASE G!RefuseSecrets \/ G!CallFails
  BY <1>2, GitHubRequeueRests DEF G!RefuseSecrets, G!CallFails
<1>3. CASE G!Operator
  BY <1>1, <1>2, <1>3, GitHubDeploymentRests, GitHubScriptRests, GitHubKeepRests, GitHubRecordRests
     DEF G!Operator, G!SyncGitHubOAuth
<1>4. CASE G!Restart
  BY <1>4 DEF G!Restart, G!Requeue, G!cluster, GitHubRestInv, GitHubShows
<1>5. CASE G!ChangeSecrets \/ G!EditCR \/ G!StatusFollows
  BY <1>5, GitHubWriteRests
     DEF G!ChangeSecrets, G!EditCR, G!StatusFollows, G!cluster, G!seen, G!Controlled
<1>6. CASE G!PodCreated \/ G!PodReady \/ G!PodStops \/ G!PodGone \/ G!PodLost
  BY <1>6, GitHubQuietRests
     DEF G!PodCreated, G!PodReady, G!PodStops, G!PodGone, G!PodLost, G!Controlled
<1>7. CASE UNCHANGED G!vars
  BY <1>7, GitHubQuietRests DEF G!vars, G!cluster
<1> QED
  BY <1>2, <1>3, <1>4, <1>5, <1>6, <1>7, GitHubSyncCacheRests DEF G!Next

(* No wake-up is lost: whenever the work queue is empty, no pass runs and no *)
(* cache has an event to come, Keycloak's Deployment names the credentials   *)
(* of the Secrets, and when it is available, the status says whether there   *)
(* is a Secret for GitHub, and Keycloak has a provider if it says so, unless *)
(* something has slipped.  A script that has run without being recorded is   *)
(* thus never left at that, whichever call has failed in between.           *)
THEOREM AtRestGitHubIsRight == ASSUME MaxMishaps \in Nat PROVE G!Spec => []GitHubAtRest
<1> DEFINE IInv == GitHubInv /\ GitHubRestInv
<1>1. G!Init => IInv
  BY GitHubInit, GitHubInitRests
<1>2. IInv /\ [G!Next]_G!vars => IInv'
  BY GitHubNext, GitHubNextRests
<1>3. IInv => GitHubAtRest
  <2> SUFFICES ASSUME IInv, pc = "idle", ~queued, stale = {}
               PROVE  /\ ~G!MountFails(secrets) /\ deployment.env = G!Env(secrets)
                      /\ deployment.available =>
                           /\ Cardinality(G!Sources(secrets)) = (IF provisioned THEN 1 ELSE 0)
                           /\ slipped \/ provider = provisioned
    BY DEF GitHubAtRest
  <2>1. /\ secretsSeen = secrets /\ crSeen = provisioned /\ deploymentSeen = deployment
        /\ GitHubKnows
    BY DEF GitHubRestInv, GitHubShows
  <2>2. ASSUME deployment.available, ~slipped PROVE provider = provisioned
    <3>1. Cardinality(G!Sources(secrets)) = (IF provisioned THEN 1 ELSE 0)
      BY <2>1, <2>2 DEF GitHubKnows
    <3>2. provider # provisioned => CalledFor(secrets)
      BY <2>1, <2>2 DEF GitHubInv, ScriptIsDue
    <3>3. G!Sources(secrets) = {} => Cardinality(G!Sources(secrets)) = 0
      BY FS_EmptySet
    <3> QED
      BY <3>1, <3>2, <3>3 DEF CalledFor
  <2> QED
    BY <2>1, <2>2 DEF GitHubKnows
<1> QED
  BY <1>1, <1>2, <1>3, PTL DEF G!Spec

=============================================================================
