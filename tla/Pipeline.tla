------------------------------ MODULE Pipeline ------------------------------
(***************************************************************************)
(* What a rollout promises whoever edits the CheCluster resource (CR), with *)
(* no API server, cache, pass or failure in sight: each object is given     *)
(* ever newer generations of the CR, none that was not asked for and none   *)
(* that the objects before it have not been given; the status records the   *)
(* database as provisioned, and the server is created, once it has been.    *)
(***************************************************************************)
EXTENDS Naturals

CONSTANTS
  Objects,  \* what the rollout creates
  Before,   \* the pairs of objects of which the first is made first
  Server    \* the object that needs the database

VARIABLES
  asked,     \* the latest generation of the CR
  given,     \* the latest generation each object was given
  database,  \* has the database been provisioned?
  recorded   \* does the status say so?

vars == <<asked, given, database, recorded>>

Init ==
  /\ asked = 1 /\ given = [o \in Objects |-> 0]
  /\ database = FALSE /\ recorded = FALSE

Ask == asked' = asked + 1 /\ UNCHANGED <<given, database, recorded>>

(* Generations may be skipped, never given back.                           *)
Give(o) ==
  /\ \E g \in 1..asked :
       /\ g > given[o] /\ given' = [given EXCEPT ![o] = g]
       /\ \A b \in Objects : <<b, o>> \in Before => g <= given[b]
  /\ o = Server => database
  /\ UNCHANGED <<asked, database, recorded>>

Provision == database' = TRUE /\ UNCHANGED <<asked, given, recorded>>

Record == database /\ recorded' = TRUE /\ UNCHANGED <<asked, given, database>>

Next == Ask \/ (\E o \in Objects : Give(o)) \/ Provision \/ Record

Spec == Init /\ [][Next]_vars
=============================================================================
