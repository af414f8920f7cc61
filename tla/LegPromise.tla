----------------------------- MODULE LegPromise -----------------------------
(***************************************************************************)
(* What StraddleBridge takes for granted of the execution of one leg: it   *)
(* trades, it reports once, and it may still trade afterwards.  How exact  *)
(* the report is, and how much can trade, depends on how well the broker's *)
(* order status can be read.                                               *)
(***************************************************************************)
EXTENDS Integers

CONSTANT Qty  \* contracts of the leg

VARIABLES
  exact,     \* the order status is read whenever it matters
  orders,    \* orders that may each trade the whole leg
  traded,    \* contracts traded at the broker
  reported   \* what the bridge was told, NoReport until then

vars == <<exact, orders, traded, reported>>

NoReport == -1

\* An exact report is wrong of a part only: all of it, or nothing.
Reports ==
  IF exact THEN {traded} \cup (IF traded \in 1..(Qty - 1) THEN {0, Qty} ELSE {})
  ELSE 0..traded \cup (IF traded > 0 THEN {Qty} ELSE {})

Trade ==
  /\ traded' \in (traded + 1)..(Qty * orders)
  /\ UNCHANGED <<exact, orders, reported>>

Report ==
  /\ reported = NoReport
  /\ reported' \in Reports
  /\ UNCHANGED <<exact, orders, traded>>

Init ==
  /\ exact \in BOOLEAN /\ orders \in Nat \ {0} /\ (exact => orders = 1)
  /\ traded = 0 /\ reported = NoReport

Next == Trade \/ Report
Spec == Init /\ [][Next]_vars
=============================================================================
