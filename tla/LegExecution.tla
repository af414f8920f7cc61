---------------------------- MODULE LegExecution ----------------------------
(***************************************************************************)
(* One leg of a straddle order: _do_leg of the bridge, the execute_leg of  *)
(* SmartOrderExecutor it awaits, and the order status that the broker's    *)
(* adapter makes of the exchange's orders.                                 *)
(***************************************************************************)
EXTENDS Integers

CONSTANTS
  Qty,         \* contracts of the leg
  ChaseCounts, \* chase_attempts of the entry and of the exit executor
  FaultSets    \* what may happen in one behaviour: sets of
               \*   "refused"    place_order raises, nothing was accepted
               \*   "reply_lost" place_order raises, the order was accepted
               \*   "killed"     the exchange ends a market order early
               \*   "lag"        a status read returns an older status
               \*   "lost"       a status read fails

ASSUME LegAssumption == Qty \in Nat \ {0} /\ ChaseCounts \subseteq Nat

\* Delta's orders are limit orders; the other brokers' are market orders.
\* counts: what the adapter puts in OrderFill.qty; errors: what becomes of a
\* status request that fails.
Brokers ==
  { [name |-> "delta",   limit |-> TRUE,  counts |-> "filled",  errors |-> "dead"],
    [name |-> "zerodha", limit |-> FALSE, counts |-> "filled",  errors |-> "open"],
    [name |-> "upstox",  limit |-> FALSE, counts |-> "ordered", errors |-> "open"],
    [name |-> "others",  limit |-> FALSE, counts |-> "ordered", errors |-> "raises"] }

VARIABLES
  broker, chases, faults,  \* chosen at the start
  phase,     \* "ready", "await" (_await_fill), "final" (the status read after
             \* it), "returned" (execute_leg has), "raised" or "done"
  attempt,   \* limit orders sent
  booked,    \* filled_qty of execute_leg
  seen,      \* quantity that _await_fill returned with a price
  order,     \* the last order at the exchange
  traded,    \* contracts that all the orders have traded
  reported   \* what _do_leg returned, NoReport until then

setup == <<broker, chases, faults>>
vars == <<setup, phase, attempt, booked, seen, order, traded, reported>>

NoReport == -1
NoOrder == [type |-> "none", sent |-> 0, traded |-> 0, state |-> "dead"]
\* Fault: the whole leg is sent again.
RemainingAll == Qty
Remaining == Qty - booked

Init ==
  /\ broker \in Brokers /\ chases \in ChaseCounts /\ faults \in FaultSets
  /\ phase = "ready" /\ attempt = 0 /\ booked = 0 /\ seen = 0
  /\ order = NoOrder /\ traded = 0 /\ reported = NoReport

----------------------------------------------------------------------------
(* The exchange and the adapter. *)

\* An order of n contracts of which t have traded; an IOC leaves nothing open.
Order(type, n, t) ==
  [type |-> type, sent |-> n, traded |-> t,
   state |-> IF t = n THEN "complete" ELSE IF type = "ioc" THEN "dead" ELSE "open"]

\* Fault: the adapter counts what was ordered.
StatusOrdered(t, st) == [qty |-> order.sent, priced |-> t > 0, state |-> st]
\* get_order_status of an order that has traded t; priced: avg_price > 0.
Status(t, st) ==
  [qty |-> IF broker.counts = "filled" THEN t ELSE order.sent,
   priced |-> t > 0, state |-> st]

NoStatus == [qty |-> 0, priced |-> FALSE, state |-> broker.errors]
ReadRaises == "lost" \in faults /\ broker.errors = "raises"
Readings ==
  {Status(order.traded, order.state)}
    \cup (IF "lag" \in faults THEN {Status(t, "open") : t \in 0..order.traded} ELSE {})
    \cup (IF "lost" \in faults /\ ~ReadRaises THEN {NoStatus} ELSE {})

\* The exchange trades a part of an open market order.
Fill ==
  /\ order.state = "open"
  /\ \E q \in 1..(order.sent - order.traded) :
       /\ order' = Order(order.type, order.sent, order.traded + q)
       /\ traded' = traded + q
  /\ UNCHANGED <<setup, phase, attempt, booked, seen, reported>>

Kill ==
  /\ "killed" \in faults /\ order.state = "open"
  /\ order' = [order EXCEPT !.state = "dead"]
  /\ UNCHANGED <<setup, phase, attempt, booked, seen, traded, reported>>

----------------------------------------------------------------------------
(* execute_leg *)

\* place_order: an IOC trades t at once, a market order nothing yet.
Place(type, n, t) ==
  \/ /\ order' = Order(type, n, t) /\ traded' = traded + t
     /\ phase' = "await" \/ ("reply_lost" \in faults /\ phase' = "raised")
  \/ /\ "refused" \in faults /\ phase' = "raised"
     /\ UNCHANGED <<order, traded>>

\* The ladder has a rung left.
Chasing == broker.limit /\ attempt <= chases

\* A limit IOC for what is still to fill.
PlaceLimit ==
  /\ phase = "ready" /\ Chasing
  /\ \E t \in 0..Remaining : Place("ioc", Remaining, t)
  /\ attempt' = attempt + 1
  /\ UNCHANGED <<setup, booked, seen, reported>>

\* Without a rung left, or without a quote or a price to set a limit at.
PlaceMarket ==
  /\ phase = "ready"
  /\ Place("market", Remaining, 0)
  /\ UNCHANGED <<setup, attempt, booked, seen, reported>>

\* _await_fill sees an order that has ended.
AwaitSees ==
  /\ phase = "await"
  /\ \E f \in Readings :
       \/ f.state = "complete" /\ f.priced /\ seen' = f.qty
       \/ f.state = "dead" /\ seen' = 0
  /\ phase' = "final"
  /\ UNCHANGED <<setup, attempt, booked, order, traded, reported>>

\* It times out; an IOC is seen open only by an older or a failed status.
AwaitTimesOut ==
  /\ phase = "await" /\ (order.type = "market" \/ faults \cap {"lag", "lost"} # {})
  /\ seen' = 0 /\ phase' = "final"
  /\ UNCHANGED <<setup, attempt, booked, order, traded, reported>>

\* Fault: a ladder that has run out ends the leg.
BookWithoutMarket(q) ==
  /\ booked' = booked + q
  /\ phase' = IF order.type = "market" \/ booked' >= Qty \/ ~Chasing THEN "returned" ELSE "ready"
  /\ UNCHANGED <<setup, attempt, seen, order, traded, reported>>

Book(q) ==
  /\ booked' = booked + q
  /\ phase' = IF order.type = "market" \/ booked' >= Qty THEN "returned" ELSE "ready"
  /\ UNCHANGED <<setup, attempt, seen, order, traded, reported>>

\* Fault: an IOC that was cancelled after a part of it traded counts as unfilled.
AuthoritativeSeen(f) == seen
\* What the second status of an IOC says, or else what _await_fill saw.
Authoritative(f) == IF f.qty > 0 THEN (IF f.priced THEN f.qty ELSE 0) ELSE seen

BookLimit ==
  /\ phase = "final" /\ order.type = "ioc"
  /\ \E f \in Readings : Book(Authoritative(f))

\* A market order that filled is booked as _await_fill saw it; of another, the
\* status is read once more.
BookMarket ==
  /\ phase = "final" /\ order.type = "market"
  /\ IF seen > 0 THEN Book(seen)
     ELSE \E f \in Readings : Book(IF f.priced THEN f.qty ELSE 0)

MarketReadRaises ==
  /\ phase = "final" /\ order.type = "market" /\ seen = 0 /\ ReadRaises
  /\ phase' = "raised"
  /\ UNCHANGED <<setup, attempt, booked, seen, order, traded, reported>>

----------------------------------------------------------------------------
(* _do_leg *)

Report(r) ==
  /\ phase' = "done" /\ reported' = r
  /\ UNCHANGED <<setup, attempt, booked, seen, order, traded>>

\* The broker has no symbol of this strike: the leg is skipped.
NoSymbol == phase = "ready" /\ order = NoOrder /\ attempt = 0 /\ "refused" \in faults /\ Report(0)

\* Any exception: the leg counts as not filled.
ReportNothing == phase = "raised" /\ Report(0)

ReportAll == phase = "returned" /\ booked >= Qty /\ Report(booked)

\* An under-filled leg: its last order is polled for a price, up to five times;
\* OrderFill has no filled_qty, so a price stands for the whole quantity.
ReportPolled ==
  /\ phase = "returned" /\ booked < Qty
  /\ \E f \in Readings : Report(IF f.priced THEN Qty ELSE booked)

PollRaises == phase = "returned" /\ booked < Qty /\ ReadRaises /\ Report(booked)

----------------------------------------------------------------------------
Step ==
  \/ PlaceLimit \/ PlaceMarket \/ AwaitSees \/ AwaitTimesOut \/ BookLimit
  \/ BookMarket \/ MarketReadRaises \/ NoSymbol \/ ReportNothing \/ ReportAll
  \/ ReportPolled \/ PollRaises

Next == Fill \/ Kill \/ Step

Spec == Init /\ [][Next]_vars

\* Every await of the code has a timeout; an exchange fills a market order or
\* ends it.
FairSpec == Spec /\ WF_vars(Step) /\ WF_vars(Fill)

----------------------------------------------------------------------------
(* Properties *)

Survives(fs) == faults \subseteq fs

\* Type invariant; the orders of a leg trade Qty more at most for each order
\* whose status was not read.
TypeOK ==
  /\ phase \in {"ready", "await", "final", "returned", "raised", "done"}
  /\ attempt \in 0..(chases + 1) /\ booked \in 0..Qty /\ seen \in 0..Qty
  /\ order.sent \in 0..Qty /\ order.traded \in 0..order.sent
  /\ order.state \in {"open", "complete", "dead"} /\ order.type \in {"none", "ioc", "market"}
  /\ traded \in 0..(Qty * (chases + 2)) /\ reported \in NoReport..Qty

\* "ONLY book a position from a CONFIRMED real fill": with an adapter that
\* counts what filled, execute_leg books no contract that has not traded,
\* whatever the status reads miss and however often it resends.
BooksTraded == broker.counts = "filled" => booked <= traded

\* The leg ends, and nothing of it is left unsent: unless an order was refused
\* or ended by the exchange, all of it trades ("guaranteed completion").
Completes ==
  <>[](phase = "done" /\ (Survives({"lag", "lost"}) => traded >= Qty))

\* The promise the bridge relies on, kept by every broker and ladder: an exact
\* report unless status reads or replies are lost, more than the leg only if a
\* remainder is resent.
WholeOrders == IF broker.limit /\ ~Survives({"refused", "reply_lost", "killed"}) THEN chases + 2 ELSE 1
Promise == INSTANCE LegPromise WITH
  exact <- Survives({"refused", "killed"}), orders <- WholeOrders
KeepsPromise == Promise!Spec
=============================================================================
