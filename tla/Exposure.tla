----------------------------- MODULE Exposure -----------------------------
(***************************************************************************)
(* How Che and its components are reached from outside (deploy/expose,      *)
(* deploy/gateway, deploy/server): each by a Route or an Ingress of its own *)
(* or, with the single-host gateway, by a ConfigMap that tells the gateway  *)
(* where to route a path, the server's Route pointing to the gateway.       *)
(*                                                                         *)
(* A pass is a fixed sequence of calls for the strategy of the CR.  Objects *)
(* are read from informer caches that trail the API server, a Route is      *)
(* replaced by delete and create, and what the operator finds in the caches *)
(* it writes back to the CR: the host name and the URLs it advertises.      *)
(***************************************************************************)
EXTENDS Naturals, Sequences

CONSTANTS
  Components,   \* what is exposed beside the server: a sequence
  Dashboard,    \* the one of them that shares the server's host name
  FirstCRs,     \* the platforms and CRs to begin with
  MaxUserOps,   \* bound on what the user changes
  MaxMishaps    \* bound on failed calls and restarts

VARIABLES
  openShift,    \* Routes, or Ingresses?
  cr, crSeen,   \* the CR in the API server, and in the informer cache
  api, cache,   \* the objects in the API server, and in the informer caches
  stale,        \* the kinds whose latest event the caches have not seen
  mem, fresh,   \* deployContext.CheCluster; is it the latest revision?
  default,      \* deployContext.DefaultCheHost
  todo, half,   \* the calls left of this pass; is the first one between delete and create?
  missed,       \* has a deletion failed that is only logged?
  queued,       \* the work queue
  userOps, mishaps

objects == <<api, stale>>
control == <<mem, fresh, default, todo, half, missed, queued>>
vars == <<openShift, cr, crSeen, api, cache, stale, mem, fresh, default, todo, half,
          missed, queued, userOps, mishaps>>

Parts == {Components[i] : i \in 1..Len(Components)}

(* The strategy of the CR; "gateway" is single-host by the gateway.  With    *)
(* default-host a Route is as with multi-host, and an Ingress without a     *)
(* name in the CR has no host: it answers under any name.                   *)
Strategies == {"multi-host", "single-host", "gateway", "default-host"}
Hosts == {"default", "custom", "own", "domain"}

(* useGateway, GetServerExposingServiceName: on OpenShift a single host is   *)
(* always served by the gateway.                                           *)
ServerService(c) == IF c.strategy = "gateway" THEN "che-gateway" ELSE "che-host"

ServerRoute == [kind |-> "route", name |-> "server"]
Route(c)    == [kind |-> "route", name |-> c]
Config(c)   == [kind |-> "config", name |-> c]
Gateway(n)  == [kind |-> "config", name |-> n]

(* "access" stands for the service account, the role and its binding.  The  *)
(* caches of all that is not a Route or an Ingress catch up together.       *)
GatewayParts == <<"access", "traefik", "deployment", "service", "server">>
Objects ==
  {ServerRoute} \cup {Route(c) : c \in Parts} \cup {Config(c) : c \in Parts}
  \cup {Gateway(GatewayParts[i]) : i \in 1..5}
Kinds == {"route", "config", "cr"}

(* The Service a Route leads to and its host; other objects are just there. *)
Absent == [to |-> "none", host |-> ""]
There  == [to |-> "there", host |-> ""]
Contents == [to: {"none", "there", "che-host", "che-gateway"} \cup Parts,
             host: Hosts \cup {""}]
Is(s, o) == s[o] # Absent

CheCluster == [strategy: Strategies, cheHost: Hosts \cup {""},
               url: [Parts \cup {"server"} -> Hosts \cup {"", "unset"}]]
NoURL == [p \in Parts \cup {"server"} |-> "unset"]
NoCR  == [strategy |-> "multi-host", cheHost |-> "", url |-> NoURL]

(* The choice of a CR to begin with, single-host without a gateway being    *)
(* one of Kubernetes.                                                      *)
Choices == {f \in [openShift: BOOLEAN, strategy: Strategies, cheHost: {"", "custom"}] :
              f.openShift => f.strategy # "single-host"}
ASSUME FirstCRsAssumption == FirstCRs \subseteq Choices

Init ==
  /\ \E f \in FirstCRs :
       /\ openShift = f.openShift
       /\ cr = [strategy |-> f.strategy, cheHost |-> f.cheHost, url |-> NoURL]
  /\ crSeen = cr
  /\ api = [o \in Objects |-> Absent] /\ cache = api /\ stale = {}
  /\ mem = NoCR /\ fresh = FALSE /\ default = ""
  /\ todo = <<>> /\ half = FALSE /\ missed = FALSE /\ queued = TRUE
  /\ userOps = MaxUserOps /\ mishaps = MaxMishaps

-----------------------------------------------------------------------------
(* The user, and the informers.                                            *)

EditCR ==
  /\ userOps > 0 /\ userOps' = userOps - 1
  /\ \/ \E s \in Strategies \ {cr.strategy} :
          (openShift => s # "single-host") /\ cr' = [cr EXCEPT !.strategy = s]
     \/ cr' = [cr EXCEPT !.cheHost = "custom"]
  /\ fresh' = FALSE /\ stale' = stale \cup {"cr"}
  /\ UNCHANGED <<openShift, crSeen, api, cache, mem, default, todo, half, missed, queued,
                 mishaps>>

SyncCache(k) ==
  /\ k \in stale /\ stale' = stale \ {k}
  /\ cache' = [o \in Objects |-> IF o.kind = k THEN api[o] ELSE cache[o]]
  /\ crSeen' = IF k = "cr" THEN cr ELSE crSeen
  /\ queued' = TRUE
  /\ UNCHANGED <<openShift, cr, api, mem, fresh, default, todo, half, missed, userOps, mishaps>>

-----------------------------------------------------------------------------
(* The calls of a pass, by the strategy of the CR it begins with.           *)

(* lax: its failure does not end the pass.                                 *)
Call(op, o, lax) == [op |-> op, obj |-> o, lax |-> lax]

(* ExposeCheServiceAndEndpoint.  Only OpenShift has a default host to find. *)
ServerCalls ==
  (IF openShift THEN <<Call("detect", ServerRoute, FALSE), Call("default", ServerRoute, FALSE)>>
   ELSE <<>>)
  \o <<Call("sync", ServerRoute, FALSE), Call("publish", ServerRoute, FALSE),
       Call("advertise", ServerRoute, FALSE)>>

(* Mutant: the Ingress or Route is not taken down for the gateway.          *)
ComponentCallsKeep(c) ==
  IF crSeen.strategy = "gateway"
  THEN <<Call("sync", Config(c), FALSE), Call("advertise", Config(c), FALSE)>>
  ELSE <<Call("sync", Route(c), FALSE), Call("exists", Route(c), ~openShift),
         Call("delete", Config(c), TRUE), Call("advertise", Route(c), FALSE)>>

(* ExposeWithHostPath: the new way first, then the old one goes; an error   *)
(* of the latter is only logged.                                           *)
ComponentCalls(c) ==
  IF crSeen.strategy = "gateway"
  THEN <<Call("sync", Config(c), FALSE), Call("delete", Route(c), TRUE),
         Call("advertise", Config(c), FALSE)>>
  ELSE <<Call("sync", Route(c), FALSE), Call("exists", Route(c), ~openShift),
         Call("delete", Config(c), TRUE), Call("advertise", Route(c), FALSE)>>

(* SyncGatewayToCluster: syncAll drops the answer "not done"; deleteAll is   *)
(* over after the first success that follows the server's ConfigMap, so the *)
(* rights of the gateway go only if the deletion before them has failed;    *)
(* and it has nothing to say of the Service.                               *)
GatewayCalls ==
  IF crSeen.strategy = "gateway"
  THEN [i \in 1..5 |-> Call("sync", Gateway(GatewayParts[i]), TRUE)]
  ELSE <<Call("delete", Gateway("deployment"), FALSE), Call("delete", Gateway("server"), FALSE),
         Call("delete", Gateway("traefik"), TRUE)>>

ComponentsCalls[i \in 0..Len(Components)] ==
  IF i = 0 THEN <<>> ELSE ComponentsCalls[i - 1] \o ComponentCalls(Components[i])

Calls == ServerCalls \o ComponentsCalls[Len(Components)] \o GatewayCalls
This  == Head(todo)
Obj   == This.obj

(* The host a Route or Ingress gets if it asks for none.                    *)
OwnHost(o) ==
  LET s == IF o = ServerRoute THEN "default" ELSE "own" IN
  IF openShift \/ mem.strategy = "multi-host" THEN s
  ELSE IF mem.strategy = "default-host" THEN "" ELSE "domain"

AskedHost ==
  IF This.op = "detect" THEN ""
  ELSE IF Obj = ServerRoute THEN IF openShift /\ mem.cheHost = default THEN "" ELSE mem.cheHost
  ELSE IF Obj = Route(Dashboard) THEN mem.cheHost
  ELSE ""

(* A Route that asks for none may have any.                                 *)
WantedHost == IF openShift \/ AskedHost # "" THEN AskedHost ELSE OwnHost(Obj)

Target == IF Obj = ServerRoute THEN ServerService(mem) ELSE Obj.name
Wanted ==
  IF Obj.kind # "route" THEN There
  ELSE [to |-> Target, host |-> IF WantedHost = "" THEN OwnHost(Obj) ELSE WantedHost]
(* Mutant: the Service is not looked at.                                    *)
AsWantedHost(c) ==
  IF Obj.kind # "route" THEN c = There ELSE (openShift /\ WantedHost = "") \/ c.host = WantedHost

AsWanted(c) ==
  IF Obj.kind # "route" THEN c = There
  ELSE c.to = Target /\ ((openShift /\ WantedHost = "") \/ c.host = WantedHost)

-----------------------------------------------------------------------------
(* Control flow of a pass.                                                 *)

Leave   ==
  /\ todo' = <<>> /\ half' = FALSE /\ mem' = NoCR /\ fresh' = FALSE /\ default' = ""
  /\ UNCHANGED missed
Wait    == Leave /\ UNCHANGED queued           \* for the event of a watch
Requeue == Leave /\ queued' = TRUE             \* an error
Same    == UNCHANGED <<mem, fresh, default, missed, queued>>
Proceed ==
  IF Len(todo) = 1 THEN Wait ELSE todo' = Tail(todo) /\ half' = FALSE /\ Same
Outside == UNCHANGED <<openShift, crSeen, cache, userOps>>

(* GetCR reads the cache.                                                   *)
Start ==
  /\ todo = <<>> /\ queued /\ queued' = FALSE
  /\ todo' = Calls /\ mem' = crSeen /\ fresh' = ("cr" \notin stale) /\ missed' = FALSE /\ UNCHANGED <<default, half>>
  /\ UNCHANGED <<cr, objects, mishaps>> /\ Outside

CallFails ==
  /\ todo # <<>> /\ mishaps > 0 /\ mishaps' = mishaps - 1
  /\ IF This.op = "delete" /\ This.lax
     THEN /\ missed' = TRUE
          /\ todo' = IF Obj = Gateway("traefik")
                     THEN <<Call("delete", Gateway("access"), TRUE)>> ELSE Tail(todo)
          /\ UNCHANGED <<mem, fresh, default, half, queued>>
     ELSE Requeue
  /\ UNCHANGED <<cr, objects>> /\ Outside

Restart ==
  /\ mishaps > 0 /\ mishaps' = mishaps - 1
  /\ Requeue
  /\ cache' = api /\ crSeen' = cr /\ stale' = {}
  /\ UNCHANGED <<openShift, cr, api, userOps>>

-----------------------------------------------------------------------------
(* Objects.                                                                *)

Store(o, c) ==
  IF c = api[o] THEN UNCHANGED objects
  ELSE api' = [api EXCEPT ![o] = c] /\ stale' = stale \cup {o.kind}

(* Sync: what is as wanted stays; what is absent is created; ...            *)
Sync ==
  /\ todo # <<>> /\ This.op \in {"sync", "detect"} /\ ~half
  /\ \/ Is(cache, Obj) /\ AsWanted(cache[Obj]) /\ Proceed /\ UNCHANGED objects
     \/ /\ ~Is(cache, Obj)
        /\ IF Is(api, Obj)
           THEN (IF This.lax THEN Proceed ELSE Wait) /\ UNCHANGED objects
           ELSE Store(Obj, Wanted) /\ Proceed
     \/ /\ Is(cache, Obj) /\ ~AsWanted(cache[Obj])
        /\ Store(Obj, Absent) /\ half' = TRUE /\ UNCHANGED todo /\ Same
  /\ UNCHANGED <<cr, mishaps>> /\ Outside

(* ... and a Route or Ingress that differs is deleted and created.          *)
CreateAgain ==
  /\ todo # <<>> /\ half
  /\ Store(Obj, Wanted) /\ Proceed
  /\ UNCHANGED <<cr, mishaps>> /\ Outside

Delete ==
  /\ todo # <<>> /\ This.op = "delete"
  /\ IF Is(cache, Obj) THEN Store(Obj, Absent) ELSE UNCHANGED objects
  /\ Proceed
  /\ UNCHANGED <<cr, mishaps>> /\ Outside

(* A Route must be in the cache by now; if it is not, its event will tell.  *)
Exists ==
  /\ todo # <<>> /\ This.op = "exists"
  /\ IF Is(cache, Obj) \/ This.lax THEN Proceed ELSE Wait
  /\ UNCHANGED <<cr, objects, mishaps>> /\ Outside

(* Mutant: it does not wait for the Route to show in the cache.             *)
DetectDefaultCheHostAtOnce ==
  /\ todo # <<>> /\ This.op = "default"
  /\ todo' = Tail(todo) /\ default' = cache[Obj].host
  /\ UNCHANGED <<cr, objects, mem, fresh, half, missed, queued, mishaps>> /\ Outside

(* DetectDefaultCheHost.                                                   *)
DetectDefaultCheHost ==
  /\ todo # <<>> /\ This.op = "default"
  /\ IF Is(cache, Obj)
     THEN todo' = Tail(todo) /\ default' = cache[Obj].host
          /\ UNCHANGED <<mem, fresh, half, missed, queued>>
     ELSE Wait
  /\ UNCHANGED <<cr, objects, mishaps>> /\ Outside

-----------------------------------------------------------------------------
(* The CR.  A write needs the latest revision.                             *)

WriteCR(c) ==
  /\ UNCHANGED api
  /\ \/ c = mem /\ UNCHANGED <<cr, stale>> /\ Proceed
     \/ /\ c # mem /\ fresh
        /\ cr' = c /\ mem' = c /\ stale' = stale \cup {"cr"}
        /\ todo' = Tail(todo) /\ UNCHANGED <<fresh, default, half, missed, queued>>
     \/ c # mem /\ ~fresh /\ UNCHANGED <<cr, stale>> /\ Requeue

(* ExposeCheEndpoint: the host that the cache shows becomes the CR's.       *)
Publish ==
  /\ todo # <<>> /\ This.op = "publish"
  /\ IF Is(cache, Obj) THEN WriteCR([mem EXCEPT !.cheHost = cache[Obj].host])
     ELSE Wait /\ UNCHANGED <<cr, objects>>
  /\ UNCHANGED mishaps /\ Outside

(* UpdateCheURL, UpdateStatus.                                             *)
Advertise ==
  /\ todo # <<>> /\ This.op = "advertise"
  /\ LET h == IF Obj.kind = "config" \/ Obj = ServerRoute THEN mem.cheHost ELSE OwnHost(Obj)
     IN IF Obj.name = Dashboard THEN UNCHANGED <<cr, objects>> /\ Proceed
        ELSE WriteCR([mem EXCEPT !.url[Obj.name] = h])
  /\ UNCHANGED mishaps /\ Outside

Worker ==
  \/ Start \/ Sync \/ CreateAgain \/ Delete \/ Exists
  \/ DetectDefaultCheHost \/ Publish \/ Advertise

Next == Worker \/ CallFails \/ Restart \/ EditCR \/ \E k \in Kinds : SyncCache(k)

Spec == Init /\ [][Next]_vars

FairSpec == Spec /\ WF_vars(Worker) /\ \A k \in Kinds : WF_vars(SyncCache(k))

-----------------------------------------------------------------------------
TypeOK ==
  /\ openShift \in BOOLEAN
  /\ cr \in CheCluster /\ crSeen \in CheCluster /\ mem \in CheCluster
  /\ api \in [Objects -> Contents] /\ cache \in [Objects -> Contents]
  /\ stale \subseteq Kinds /\ fresh \in BOOLEAN
  /\ default \in Hosts \cup {""} /\ (openShift /\ todo # <<>> /\ Head(todo).op = "publish" => default # "")
  /\ missed \in BOOLEAN /\ half \in BOOLEAN /\ queued \in BOOLEAN
  /\ userOps \in 0..MaxUserOps /\ mishaps \in 0..MaxMishaps

GatewayWorks == \A n \in {"access", "traefik", "deployment", "service"} : Is(api, Gateway(n))
ByGateway(config) ==
  api[ServerRoute].to = "che-gateway" /\ GatewayWorks /\ Is(api, config)

(* What a request for a component gets to at the address it is known by.    *)
ServerReached ==
  /\ cr.url["server"] = cr.cheHost /\ api[ServerRoute].host = cr.cheHost
  /\ api[ServerRoute].to = "che-host" \/ ByGateway(Gateway("server"))

Reached(c) ==
  LET host == IF c = Dashboard THEN cr.cheHost ELSE cr.url[c] IN
  \/ api[Route(c)] = [to |-> c, host |-> host]
  \/ api[ServerRoute].host = host /\ ByGateway(Config(c))

(* The one strategy that has no host name to give: there an Ingress may be  *)
(* without one, and the operator then advertises paths without a host.      *)
Nameless == ~openShift /\ cr.strategy = "default-host"
Named == cr.cheHost # "" /\ \A c \in Parts \ {Dashboard} : cr.url[c] # ""

HostSettles == <>[][cr'.cheHost = cr.cheHost]_vars

AllReached == ServerReached /\ (\A c \in Parts : Reached(c)) /\ (Nameless \/ Named)
OneWay ==
  IF cr.strategy = "gateway" THEN \A c \in Parts : ~Is(api, Route(c))
  ELSE /\ \A c \in Parts : ~Is(api, Config(c))
       /\ \A n \in {"deployment", "server", "traefik"} : ~Is(api, Gateway(n))

(* Whatever the user switched from and to, through whatever caches and      *)
(* interruptions: in the end everything answers at the address that the CR  *)
(* advertises for it, and the address has a host, unless the strategy is    *)
(* default-host on Kubernetes (Nameless).  The premise leaves one case out: *)
(* with a cache that is always behind, the operator can exchange two host   *)
(* names for ever (Publish).                                               *)
AddressesAnswer == HostSettles => <>[]AllReached

(* And only the way the CR asks for is left: no gateway, nor configuration  *)
(* of its routes, without the strategy, and no second way with it, unless   *)
(* the last pass dropped a failed deletion.                                *)
NoSecondWay == HostSettles => <>[](missed \/ OneWay)
=============================================================================
