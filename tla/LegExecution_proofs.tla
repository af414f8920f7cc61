------------------------- MODULE LegExecution_proofs -------------------------
(***************************************************************************)
(* What execute_leg books has traded, and what _do_leg reports is what the *)
(* bridge may rely on, for every quantity, ladder and fault set.           *)
(***************************************************************************)
EXTENDS LegExecution, TLAPS

USE LegAssumption

\* While the last order is being read its contracts are not booked yet; it was
\* sent for no more than what remained.
ReadBound ==
  /\ phase \in {"await", "final"} => booked + order.sent <= Qty
  /\ phase = "final" => seen <= order.sent

\* The same of what has traded, for an adapter that counts what filled.
TradedBound ==
  broker.counts = "filled" =>
    /\ booked <= traded
    /\ phase \in {"await", "final"} => booked + order.traded <= traded
    /\ phase = "final" => seen <= order.traded

\* Each rung trades Qty at most, and the market order that follows them too.
SentBound ==
  /\ phase = "ready" => order.type # "market"
  /\ traded <= Qty * attempt + (IF order.type = "market" THEN order.traded ELSE 0)

Orders == [type : {"none", "ioc", "market"}, sent : 0..Qty, traded : 0..Qty,
           state : {"open", "complete", "dead"}]

LegInv ==
  /\ TypeOK
  /\ broker \in Brokers /\ chases \in Nat
  /\ order \in Orders /\ (order.state = "open" => order.type = "market")
  /\ ReadBound /\ TradedBound /\ SentBound

----------------------------------------------------------------------------
(* The parts of a step *)

\* One more rung raises the bound on what has traded by Qty.
LEMMA Rung ==
  ASSUME NEW a \in Nat
  PROVE  Qty * (a + 1) = Qty * a + Qty
  OBVIOUS

\* What has traded is bounded by the number of orders a ladder can send.
LEMMA Ladder ==
  ASSUME NEW a \in Nat, NEW c \in Nat, a <= c + 1
  PROVE  Qty * a + Qty <= Qty * (c + 2)
<1> DEFINE d == c + 1 - a
<1>1. d \in Nat /\ c + 2 = a + d + 1
  OBVIOUS
<1>2. Qty * (a + d + 1) = Qty * a + Qty * d + Qty /\ Qty * d >= 0
  BY <1>1
<1> QED
  BY <1>1, <1>2

\* The bound of a ladder is a number.
LEMMA LadderNat ==
  ASSUME NEW c \in Nat
  PROVE  Qty * (c + 2) \in Nat
  OBVIOUS

\* A status never says more than was sent, nor, at an adapter that counts what
\* filled, more than has traded.
LEMMA ReadingBound ==
  ASSUME LegInv, NEW f \in Readings
  PROVE  /\ f.qty \in 0..order.sent
         /\ broker.counts = "filled" => f.qty <= order.traded
  BY DEF LegInv, TypeOK, Readings, Status, NoStatus

\* An order as it is built.
LEMMA OrderFields ==
  ASSUME NEW type \in {"ioc", "market"}, NEW n \in 0..Qty, NEW t \in 0..n
  PROVE  LET o == Order(type, n, t) IN
         /\ o \in Orders /\ o.type = type /\ o.sent = n /\ o.traded = t
         /\ type = "ioc" => o.state # "open"
  BY DEF Order, Orders

\* Booking what a status said, or what was seen, ends the reading of the order.
LEMMA BookKeeps ==
  ASSUME LegInv, phase = "final", NEW q \in 0..order.sent,
         broker.counts = "filled" => q <= order.traded, Book(q)
  PROVE  LegInv'
<1>1. /\ booked' = booked + q /\ booked' \in 0..Qty
      /\ phase' = IF order.type = "market" \/ booked' >= Qty THEN "returned" ELSE "ready"
      /\ UNCHANGED <<broker, chases, attempt, seen, order, traded, reported>>
  BY DEF Book, LegInv, TypeOK, ReadBound, setup
<1>2. TypeOK'
  BY <1>1 DEF LegInv, TypeOK
<1>3. TradedBound'
  BY <1>1 DEF LegInv, TypeOK, TradedBound
<1>4. ReadBound' /\ SentBound'
  BY <1>1 DEF LegInv, ReadBound, SentBound
<1> QED
  BY <1>1, <1>2, <1>3, <1>4 DEF LegInv, Orders

\* A step that only moves the phase past the reading, or ends the leg.
LEMMA LeaveKeeps ==
  ASSUME LegInv, phase' \in {"returned", "raised", "done"},
         reported' \in NoReport..Qty,
         UNCHANGED <<broker, chases, attempt, booked, seen, order, traded>>
  PROVE  LegInv'
  BY DEF LegInv, TypeOK, ReadBound, TradedBound, SentBound, Orders

----------------------------------------------------------------------------
(* The actions *)

\* Nothing was sent at the start.
LEMMA InitKeeps == Init => LegInv
<1> SUFFICES ASSUME Init PROVE LegInv
  OBVIOUS
<1>1. order \in Orders /\ chases \in Nat /\ Qty * 0 = 0
  BY DEF Init, Orders, NoOrder
<1>2. 0 <= Qty * (chases + 2)
  BY <1>1
<1> QED
  BY <1>1, <1>2 DEF Init, LegInv, TypeOK, ReadBound, TradedBound, SentBound, NoOrder, NoReport

\* The exchange trades no more than was sent.
LEMMA ExchangeKeeps == LegInv /\ (Fill \/ Kill) => LegInv'
<1> SUFFICES ASSUME LegInv, Fill \/ Kill PROVE LegInv'
  OBVIOUS
<1>1. CASE Fill
  <2>1. PICK q \in 1..(order.sent - order.traded) :
          /\ order' = Order(order.type, order.sent, order.traded + q)
          /\ traded' = traded + q
    BY <1>1 DEF Fill
  <2>2. order.type = "market"
    BY <1>1 DEF LegInv, Fill
  <2>3. /\ order'.type = order.type /\ order'.sent = order.sent
        /\ order'.traded = order.traded + q /\ order' \in Orders
    BY <2>1, <2>2 DEF Order, Orders, LegInv, TypeOK
  <2>4. UNCHANGED <<broker, chases, phase, attempt, booked, seen, reported>>
    BY <1>1 DEF Fill, setup
  <2>5. SentBound'
    <3>1. /\ Qty * attempt \in Nat /\ traded \in Nat
          /\ order.traded \in Nat /\ order.sent \in Nat
      BY DEF LegInv, TypeOK
    <3>2. traded <= Qty * attempt + order.traded
      BY <2>2 DEF LegInv, SentBound
    <3>3. traded' <= Qty * attempt' + order'.traded
      BY <2>1, <2>3, <2>4, <3>1, <3>2
    <3> QED
      BY <2>2, <2>3, <2>4, <3>3 DEF LegInv, SentBound
  <2>6. traded' <= Qty * (chases + 2)
    <3>1. attempt \in Nat /\ attempt <= chases + 1 /\ chases \in Nat
      BY DEF LegInv, TypeOK
    <3>2. Qty * attempt + Qty <= Qty * (chases + 2)
      BY <3>1, Ladder
    <3>3. traded' <= Qty * attempt + order'.traded
      BY <2>2, <2>3, <2>4, <2>5 DEF SentBound
    <3>4. order'.traded <= Qty /\ order'.traded \in Nat
      BY <2>3 DEF Orders
    <3>5. Qty * attempt \in Nat /\ Qty * (chases + 2) \in Nat
      BY <3>1
    <3>6. traded' \in Nat
      BY <2>1 DEF LegInv, TypeOK
    <3> QED
      BY <3>2, <3>3, <3>4, <3>5, <3>6
  <2>7. TypeOK'
    BY <2>1, <2>3, <2>4, <2>6 DEF LegInv, TypeOK, Orders
  <2>8. ReadBound' /\ TradedBound'
    BY <2>1, <2>3, <2>4 DEF LegInv, TypeOK, ReadBound, TradedBound
  <2> QED
    BY <2>2, <2>3, <2>4, <2>5, <2>7, <2>8 DEF LegInv
<1>2. CASE Kill
  BY <1>2 DEF Kill, setup, LegInv, TypeOK, ReadBound, TradedBound, SentBound, Orders
<1> QED
  BY <1>1, <1>2

\* What becomes of an order that was sent, or was not.
LEMMA PlaceKeeps ==
  ASSUME LegInv, phase = "ready", NEW type \in {"ioc", "market"}, NEW t \in 0..Remaining,
         type = "market" => t = 0,
         Place(type, Remaining, t),
         attempt' = IF type = "ioc" THEN attempt + 1 ELSE attempt,
         attempt' <= chases + 1,
         UNCHANGED <<broker, chases, booked, seen, reported>>
  PROVE  LegInv'
<1>1. /\ Remaining \in 0..Qty /\ Remaining = Qty - booked
      /\ attempt \in Nat /\ attempt' \in Nat /\ chases \in Nat /\ traded \in Nat
  BY DEF LegInv, TypeOK, Remaining
<1>2. Qty * (attempt + 1) = Qty * attempt + Qty /\ Qty * attempt \in Nat
  BY <1>1, Rung
<1>3. traded <= Qty * attempt
  BY <1>1, <1>2 DEF LegInv, SentBound
<1>4. Qty * attempt' + Qty <= Qty * (chases + 2)
  BY <1>1, Ladder
<1>5. CASE /\ order' = Order(type, Remaining, t) /\ traded' = traded + t
           /\ phase' \in {"await", "raised"}
  <2>1. /\ order' \in Orders /\ order'.type = type /\ order'.sent = Remaining
        /\ order'.traded = t /\ (type = "ioc" => order'.state # "open")
    BY <1>1, <1>5, OrderFields
  <2>2. SentBound'
    BY <1>1, <1>2, <1>3, <1>5, <2>1 DEF SentBound
  <2>3. traded' <= Qty * (chases + 2)
    BY <1>1, <1>2, <1>3, <1>4, <1>5
  <2>4. TypeOK'
    BY <1>1, <1>5, <2>1, <2>3 DEF LegInv, TypeOK, Orders
  <2>5. ReadBound' /\ TradedBound'
    BY <1>1, <1>5, <2>1 DEF LegInv, TypeOK, ReadBound, TradedBound
  <2> QED
    BY <2>1, <2>2, <2>4, <2>5 DEF LegInv
<1>6. CASE phase' = "raised" /\ UNCHANGED <<order, traded>>
  <2>1. SentBound'
    BY <1>1, <1>2, <1>3, <1>6 DEF LegInv, SentBound
  <2>2. TypeOK' /\ ReadBound' /\ TradedBound'
    BY <1>1, <1>6 DEF LegInv, TypeOK, ReadBound, TradedBound
  <2> QED
    BY <1>6, <2>1, <2>2 DEF LegInv
<1> QED
  BY <1>5, <1>6 DEF Place

\* A rung is sent for what remains.
LEMMA PlacesKeep == LegInv /\ (PlaceLimit \/ PlaceMarket) => LegInv'
<1> SUFFICES ASSUME LegInv, PlaceLimit \/ PlaceMarket PROVE LegInv'
  OBVIOUS
<1>1. attempt \in 0..(chases + 1) /\ chases \in Nat /\ Remaining \in Nat
  BY DEF LegInv, TypeOK, Remaining
<1>2. CASE PlaceLimit
  <2>1. PICK t \in 0..Remaining : Place("ioc", Remaining, t)
    BY <1>2 DEF PlaceLimit
  <2>2. /\ phase = "ready" /\ attempt' = attempt + 1 /\ attempt' <= chases + 1
        /\ UNCHANGED <<broker, chases, booked, seen, reported>>
    BY <1>1, <1>2 DEF PlaceLimit, Chasing, setup
  <2> QED
    BY <2>1, <2>2, PlaceKeeps
<1>3. CASE PlaceMarket
  <2>1. /\ phase = "ready" /\ attempt' = attempt /\ attempt' <= chases + 1
        /\ Place("market", Remaining, 0) /\ 0 \in 0..Remaining
        /\ UNCHANGED <<broker, chases, booked, seen, reported>>
    BY <1>1, <1>3 DEF PlaceMarket, setup
  <2> QED
    BY <2>1, PlaceKeeps
<1> QED
  BY <1>2, <1>3

\* _await_fill sees no more than has traded.
LEMMA AwaitsKeep == LegInv /\ (AwaitSees \/ AwaitTimesOut) => LegInv'
<1> SUFFICES ASSUME LegInv, AwaitSees \/ AwaitTimesOut PROVE LegInv'
  OBVIOUS
<1>1. /\ phase = "await" /\ phase' = "final"
      /\ UNCHANGED <<broker, chases, attempt, booked, order, traded, reported>>
  BY DEF AwaitSees, AwaitTimesOut, setup
<1>2. seen' \in 0..order.sent /\ (broker.counts = "filled" => seen' <= order.traded)
  <2>1. order.sent \in Nat /\ order.traded \in Nat
    BY DEF LegInv, TypeOK
  <2>2. CASE seen' = 0
    BY <2>1, <2>2
  <2>3. CASE \E f \in Readings : seen' = f.qty
    BY <2>3, ReadingBound
  <2> QED
    BY <2>2, <2>3 DEF AwaitSees, AwaitTimesOut
<1> QED
  BY <1>1, <1>2 DEF LegInv, TypeOK, ReadBound, TradedBound, SentBound, Orders

\* What is booked was read of the last order.
LEMMA BooksKeep == LegInv /\ (BookLimit \/ BookMarket) => LegInv'
<1> SUFFICES ASSUME LegInv, BookLimit \/ BookMarket PROVE LegInv'
  OBVIOUS
<1>1. /\ phase = "final" /\ seen \in 0..order.sent /\ order.traded \in Nat /\ order.sent \in Nat
      /\ broker.counts = "filled" => seen <= order.traded
  BY DEF BookLimit, BookMarket, LegInv, TypeOK, ReadBound, TradedBound
<1>2. CASE BookLimit
  <2>1. PICK f \in Readings : Book(Authoritative(f))
    BY <1>2 DEF BookLimit
  <2>2. /\ Authoritative(f) \in 0..order.sent
        /\ broker.counts = "filled" => Authoritative(f) <= order.traded
    BY <1>1, ReadingBound DEF Authoritative
  <2> QED
    BY <1>1, <2>1, <2>2, BookKeeps
<1>3. CASE BookMarket /\ seen > 0
  BY <1>1, <1>3, BookKeeps DEF BookMarket
<1>4. CASE BookMarket /\ ~(seen > 0)
  <2> DEFINE Q(f) == IF f.priced THEN f.qty ELSE 0
  <2>1. PICK f \in Readings : Book(Q(f))
    BY <1>4 DEF BookMarket
  <2>2. Q(f) \in 0..order.sent /\ (broker.counts = "filled" => Q(f) <= order.traded)
    BY <1>1, ReadingBound
  <2> QED
    BY <1>1, <2>1, <2>2, BookKeeps
<1> QED
  BY <1>2, <1>3, <1>4

\* The exits of execute_leg and _do_leg leave the books alone.
LEMMA LeavesKeep ==
  LegInv /\ (MarketReadRaises \/ NoSymbol \/ ReportNothing \/ ReportAll \/ ReportPolled \/ PollRaises)
    => LegInv'
<1> SUFFICES
      ASSUME LegInv,
             \/ MarketReadRaises \/ NoSymbol \/ ReportNothing
             \/ ReportAll \/ ReportPolled \/ PollRaises
      PROVE  LegInv'
  OBVIOUS
<1>1. booked \in 0..Qty /\ reported \in NoReport..Qty /\ Qty \in Nat
  BY DEF LegInv, TypeOK
<1>2. /\ phase' \in {"raised", "done"}
      /\ UNCHANGED <<broker, chases, attempt, booked, seen, order, traded>>
  BY DEF MarketReadRaises, NoSymbol, ReportNothing, ReportAll, ReportPolled, PollRaises,
         Report, setup
<1>3. reported' \in NoReport..Qty
  BY <1>1 DEF MarketReadRaises, NoSymbol, ReportNothing, ReportAll, ReportPolled, PollRaises,
              Report, NoReport
<1> QED
  BY <1>2, <1>3, LeaveKeeps

----------------------------------------------------------------------------
(* The theorems *)

\* The invariant that the two results below follow from: between sending an order
\* and booking it, what it traded is not booked yet.
THEOREM LegInvariant == Spec => []LegInv
<1>1. Init => LegInv
  BY InitKeeps
<1>2. LegInv /\ [Next]_vars => LegInv'
  <2> SUFFICES ASSUME LegInv, [Next]_vars PROVE LegInv'
    OBVIOUS
  <2>1. CASE UNCHANGED vars
    BY <2>1 DEF vars, setup, LegInv, TypeOK, ReadBound, TradedBound, SentBound, Orders
  <2>2. CASE Next
    BY <2>2, ExchangeKeeps, PlacesKeep, AwaitsKeep, BooksKeep, LeavesKeep DEF Next, Step
  <2> QED
    BY <2>1, <2>2
<1> QED
  BY <1>1, <1>2, PTL DEF Spec

\* Every variable keeps its type; the orders of a leg trade Qty at most for each
\* rung and once more for the market order.
THEOREM LegTypeCorrect == Spec => []TypeOK
<1>1. LegInv => TypeOK
  BY DEF LegInv
<1> QED
  BY <1>1, LegInvariant, PTL

\* execute_leg books only confirmed fills, whatever the status reads miss and
\* however often a remainder is sent again.
THEOREM BooksTradedTheorem == Spec => []BooksTraded
<1>1. LegInv => BooksTraded
  BY DEF LegInv, TradedBound, BooksTraded
<1> QED
  BY <1>1, LegInvariant, PTL

----------------------------------------------------------------------------
(* The promise *)

\* No remainder is sent again: the adapter uses market orders, or what an order
\* traded is read exactly.
Single == ~(broker.limit /\ ~Survives({"refused", "reply_lost", "killed"}))
Exact == Survives({"refused", "killed"})

\* An adapter that counts what was ordered reports all or nothing, and all only
\* if something has traded.
AllOrNothing ==
  broker.counts = "ordered" =>
    /\ booked \in {0, Qty} /\ (booked > 0 => traded > 0)
    /\ phase \in {"ready", "await", "final"} => booked = 0
    /\ phase \in {"await", "final"} => order.sent = Qty
    /\ phase = "final" => seen \in {0, order.sent} /\ (seen > 0 => order.traded > 0)

\* Without a remainder sent again the books are complete between two orders,
\* and what is still to trade belongs to the last order.
NothingTwice ==
  Single =>
    /\ phase = "ready" => traded = booked
    /\ phase \in {"await", "final"} => traded = booked + order.traded
    /\ traded - order.traded <= booked
    /\ traded - order.traded + order.sent <= Qty

PromiseInv ==
  /\ phase # "done" => reported = NoReport
  /\ order.traded <= traded
  /\ order.type = "ioc" => broker.limit
  /\ phase \in {"await", "final"} => order.type # "none"
  /\ phase = "ready" => booked < Qty
  /\ Exact /\ phase = "raised" => traded < Qty /\ order.state # "open"
  /\ AllOrNothing /\ NothingTwice

\* The fields of the state, as numbers.
LEMMA Numbers ==
  ASSUME LegInv
  PROVE  /\ Qty \in Nat \ {0} /\ booked \in 0..Qty /\ seen \in 0..Qty /\ traded \in Nat
         /\ order.sent \in 0..Qty /\ order.traded \in 0..order.sent
         /\ attempt \in Nat /\ chases \in Nat
  BY DEF LegInv, TypeOK

\* The adapters that use limit orders count what filled.
LEMMA BrokerKinds ==
  ASSUME LegInv
  PROVE  /\ broker.counts = "filled" \/ broker.counts = "ordered"
         /\ broker.limit => broker.counts = "filled"
<1>1. broker \in Brokers
  BY DEF LegInv
<1> QED
  BY <1>1 DEF Brokers

\* A status read is the order's, now or earlier, or none.
LEMMA ReadingCases ==
  ASSUME LegInv, NEW f \in Readings
  PROVE  \/ f = NoStatus /\ "lost" \in faults
         \/ \E t \in 0..order.traded, st \in {"open", "complete", "dead"} :
              f = Status(t, st) /\ (t = order.traded \/ "lag" \in faults)
<1>1. order.traded \in 0..order.traded /\ order.state \in {"open", "complete", "dead"}
  BY DEF LegInv, TypeOK
<1> QED
  BY <1>1 DEF Readings

\* A price is read of an order that has traded.
LEMMA ReadingPriced ==
  ASSUME LegInv, NEW f \in Readings, f.priced
  PROVE  /\ order.traded > 0
         /\ broker.counts = "ordered" => f.qty = order.sent
<1>1. f # NoStatus
  BY DEF NoStatus
<1>2. PICK t \in 0..order.traded, st \in {"open", "complete", "dead"} : f = Status(t, st)
  BY <1>1, ReadingCases
<1>3. t > 0
  BY <1>2 DEF Status
<1>4. broker.counts = "ordered" => f.qty = order.sent
  BY <1>2 DEF Status
<1> QED
  BY <1>3, <1>4, Numbers

\* A status that is neither old nor lost says what has traded.
LEMMA ReadingExact ==
  ASSUME LegInv, NEW f \in Readings, "lag" \notin faults, "lost" \notin faults
  PROVE  /\ order.traded > 0 => f.priced
         /\ broker.counts = "filled" => f.qty = order.traded
<1>1. PICK st \in {"open", "complete", "dead"} : f = Status(order.traded, st)
  BY ReadingCases
<1>2. order.traded > 0 => f.priced
  BY <1>1 DEF Status
<1>3. broker.counts = "filled" => f.qty = order.traded
  BY <1>1 DEF Status
<1> QED
  BY <1>2, <1>3

\* The promise's invariant at the start.
LEMMA InitPromise == Init => PromiseInv
  BY DEF Init, PromiseInv, AllOrNothing, NothingTwice, NoOrder, Brokers

\* A market order may trade on, after the report too.
LEMMA ExchangePromise ==
  ASSUME LegInv, PromiseInv, Fill \/ Kill
  PROVE  PromiseInv'
<1>1. CASE Fill
  <2>1. PICK q \in 1..(order.sent - order.traded) :
          /\ order' = Order(order.type, order.sent, order.traded + q)
          /\ traded' = traded + q
    BY <1>1 DEF Fill
  <2>2. /\ order'.type = order.type /\ order'.sent = order.sent
        /\ order'.traded = order.traded + q
    BY <2>1 DEF Order
  <2>3. /\ UNCHANGED <<broker, chases, faults, phase, attempt, booked, seen, reported>>
        /\ order.state = "open"
    BY <1>1 DEF Fill, setup
  <2>4. AllOrNothing'
    BY <2>1, <2>2, <2>3, Numbers DEF PromiseInv, AllOrNothing
  <2>5. NothingTwice'
    <3>1. order.type = "market" /\ phase # "ready"
      BY <2>3 DEF LegInv, SentBound
    <3> QED
      BY <2>1, <2>2, <2>3, <3>1, Numbers DEF PromiseInv, NothingTwice, Single, Survives
  <2> QED
    BY <2>1, <2>2, <2>3, <2>4, <2>5, Numbers DEF PromiseInv, Exact, Survives
<1>2. CASE Kill
  <2>1. /\ UNCHANGED <<broker, chases, faults, phase, attempt, booked, seen, traded, reported>>
        /\ order'.type = order.type /\ order'.sent = order.sent
        /\ order'.traded = order.traded /\ order'.state = "dead"
    BY <1>2 DEF Kill, setup, LegInv, Orders
  <2> QED
    BY <2>1 DEF PromiseInv, AllOrNothing, NothingTwice, Single, Exact, Survives
<1> QED
  BY <1>1, <1>2

\* A remainder is sent when the books are complete, if it is to trade once.
LEMMA PlacePromise ==
  ASSUME LegInv, PromiseInv, phase = "ready",
         NEW type \in {"ioc", "market"}, NEW t \in 0..Remaining,
         type = "market" => t = 0, type = "ioc" => broker.limit,
         Place(type, Remaining, t),
         UNCHANGED <<broker, faults, booked, seen, reported>>
  PROVE  PromiseInv'
<1>1. /\ Remaining \in 0..Qty /\ Remaining = Qty - booked /\ booked < Qty
      /\ order.state # "open" /\ order.traded <= traded
  BY Numbers DEF Remaining, PromiseInv, LegInv, SentBound
<1>2. CASE /\ order' = Order(type, Remaining, t) /\ traded' = traded + t
           /\ phase' = "await" \/ ("reply_lost" \in faults /\ phase' = "raised")
  <2>1. /\ order'.type = type /\ order'.sent = Remaining /\ order'.traded = t
    BY <1>2 DEF Order
  <2>2. AllOrNothing'
    BY <1>1, <1>2, <2>1, Numbers DEF PromiseInv, AllOrNothing
  <2>3. NothingTwice'
    BY <1>1, <1>2, <2>1, Numbers DEF PromiseInv, NothingTwice, Single, Survives
  <2>4. ~(Exact' /\ phase' = "raised")
    BY <1>2 DEF Exact, Survives
  <2> QED
    BY <1>1, <1>2, <2>1, <2>2, <2>3, <2>4, Numbers DEF PromiseInv
<1>3. CASE phase' = "raised" /\ UNCHANGED <<order, traded>>
  <2>1. Exact => Single
    BY DEF Exact, Single, Survives
  <2>2. Exact => traded = booked
    BY <2>1 DEF PromiseInv, NothingTwice
  <2> QED
    BY <1>1, <1>3, <2>2, Numbers
       DEF PromiseInv, AllOrNothing, NothingTwice, Single, Exact, Survives
<1> QED
  BY <1>2, <1>3 DEF Place

\* Both rungs of the ladder.
LEMMA PlacesPromise ==
  ASSUME LegInv, PromiseInv, PlaceLimit \/ PlaceMarket
  PROVE  PromiseInv'
<1>1. CASE PlaceLimit
  <2>1. PICK t \in 0..Remaining : Place("ioc", Remaining, t)
    BY <1>1 DEF PlaceLimit
  <2>2. /\ phase = "ready" /\ broker.limit
        /\ UNCHANGED <<broker, faults, booked, seen, reported>>
    BY <1>1 DEF PlaceLimit, Chasing, setup
  <2> QED
    BY <2>1, <2>2, PlacePromise
<1>2. CASE PlaceMarket
  <2>1. 0 \in 0..Remaining
    BY Numbers DEF Remaining
  <2>2. /\ phase = "ready" /\ Place("market", Remaining, 0)
        /\ UNCHANGED <<broker, faults, booked, seen, reported>>
    BY <1>2 DEF PlaceMarket, setup
  <2> QED
    BY <2>1, <2>2, PlacePromise
<1> QED
  BY <1>1, <1>2

\* _await_fill.
LEMMA AwaitsPromise ==
  ASSUME LegInv, PromiseInv, AwaitSees \/ AwaitTimesOut
  PROVE  PromiseInv'
<1>1. /\ phase = "await" /\ phase' = "final"
      /\ UNCHANGED <<broker, faults, booked, order, traded, reported>>
  BY DEF AwaitSees, AwaitTimesOut, setup
<1>2. \/ seen' = 0
      \/ \E f \in Readings : f.priced /\ seen' = f.qty
  BY DEF AwaitSees, AwaitTimesOut
<1>3. broker.counts = "ordered" => seen' \in {0, order.sent} /\ (seen' > 0 => order.traded > 0)
  BY <1>2, ReadingPriced
<1>4. AllOrNothing'
  BY <1>1, <1>3 DEF PromiseInv, AllOrNothing
<1> QED
  BY <1>1, <1>4 DEF PromiseInv, NothingTwice, Single, Exact, Survives

\* What is booked of an order that ended.
LEMMA BookPromise ==
  ASSUME LegInv, PromiseInv, phase = "final", NEW q \in 0..order.sent, Book(q),
         broker.counts = "ordered" => q \in {0, order.sent} /\ (q > 0 => order.traded > 0),
         order.type = "ioc" /\ Single => q = order.traded
  PROVE  PromiseInv'
<1>1. /\ booked' = booked + q
      /\ phase' = IF order.type = "market" \/ booked' >= Qty THEN "returned" ELSE "ready"
      /\ UNCHANGED <<broker, faults, order, traded, reported>>
  BY DEF Book, setup
<1>2. order.type = "ioc" => broker.counts = "filled"
  BY BrokerKinds DEF PromiseInv
<1>3. phase' = "ready" => order.type # "market"
  BY <1>1
<1>4. phase' = "ready" => order.type = "ioc"
  BY <1>3 DEF LegInv, Orders, PromiseInv
<1>5. AllOrNothing'
  BY <1>1, <1>2, <1>4, Numbers DEF PromiseInv, AllOrNothing
<1>6. NothingTwice'
  BY <1>1, <1>4, Numbers DEF PromiseInv, NothingTwice, Single, Survives
<1> QED
  BY <1>1, <1>5, <1>6, Numbers DEF PromiseInv, Exact, Survives

\* The three ways an order is booked.
LEMMA BooksPromise ==
  ASSUME LegInv, PromiseInv, BookLimit \/ BookMarket
  PROVE  PromiseInv'
<1>1. /\ phase = "final" /\ seen \in 0..order.sent /\ order.sent \in Nat /\ order.traded \in Nat
      /\ broker.counts = "filled" => seen <= order.traded
      /\ broker.counts = "ordered" => seen \in {0, order.sent} /\ (seen > 0 => order.traded > 0)
  BY Numbers DEF BookLimit, BookMarket, LegInv, ReadBound, TradedBound, PromiseInv, AllOrNothing
<1>2. CASE BookLimit
  <2>1. PICK f \in Readings : Book(Authoritative(f))
    BY <1>2 DEF BookLimit
  <2>2. order.type = "ioc" /\ broker.limit /\ broker.counts = "filled"
    BY <1>2, BrokerKinds DEF BookLimit, PromiseInv
  <2>3. Authoritative(f) \in 0..order.sent
    BY <1>1, ReadingBound DEF Authoritative
  <2>4. ASSUME Single PROVE Authoritative(f) = order.traded
    <3>1. "lag" \notin faults /\ "lost" \notin faults
      BY <2>2, <2>4 DEF Single, Survives
    <3>2. f.qty = order.traded /\ (order.traded > 0 => f.priced)
      BY <2>2, <3>1, ReadingExact
    <3> QED
      BY <1>1, <2>2, <3>2 DEF Authoritative
  <2> QED
    BY <1>1, <2>1, <2>2, <2>3, <2>4, BookPromise
<1>3. CASE BookMarket /\ seen > 0
  <2>1. Book(seen) /\ order.type # "ioc"
    BY <1>3 DEF BookMarket
  <2> QED
    BY <1>1, <2>1, BookPromise
<1>4. CASE BookMarket /\ ~(seen > 0)
  <2> DEFINE Q(f) == IF f.priced THEN f.qty ELSE 0
  <2>1. order.type # "ioc" /\ \E f \in Readings : Book(Q(f))
    BY <1>4 DEF BookMarket
  <2>2. PICK f \in Readings : Book(Q(f))
    BY <2>1
  <2>3. Q(f) \in 0..order.sent
    BY <1>1, ReadingBound
  <2>4. broker.counts = "ordered" => Q(f) \in {0, order.sent} /\ (Q(f) > 0 => order.traded > 0)
    BY ReadingPriced
  <2> QED
    BY <1>1, <2>1, <2>2, <2>3, <2>4, BookPromise
<1> QED
  BY <1>2, <1>3, <1>4

\* The exits of _do_leg.
LEMMA LeavesPromise ==
  ASSUME LegInv, PromiseInv,
         \/ MarketReadRaises \/ NoSymbol \/ ReportNothing
         \/ ReportAll \/ ReportPolled \/ PollRaises
  PROVE  PromiseInv'
<1>1. /\ phase' = "done" \/ (phase' = "raised" /\ "lost" \in faults /\ UNCHANGED reported)
      /\ phase # "done"
      /\ UNCHANGED <<broker, faults, booked, seen, order, traded>>
  BY DEF MarketReadRaises, NoSymbol, ReportNothing, ReportAll, ReportPolled, PollRaises,
         Report, setup, ReadRaises
<1>2. ~(Exact' /\ phase' = "raised")
  BY <1>1 DEF Exact, Survives
<1> QED
  BY <1>1, <1>2 DEF PromiseInv, AllOrNothing, NothingTwice, Single, Survives

\* What is between an order and its report, for the refinement below.
THEOREM PromiseInvariant == Spec => [](LegInv /\ PromiseInv)
<1>1. Init => LegInv /\ PromiseInv
  BY InitKeeps, InitPromise
<1>2. LegInv /\ PromiseInv /\ [Next]_vars => PromiseInv'
  <2> SUFFICES ASSUME LegInv, PromiseInv, [Next]_vars PROVE PromiseInv'
    OBVIOUS
  <2>1. CASE UNCHANGED vars
    BY <2>1 DEF vars, setup, PromiseInv, AllOrNothing, NothingTwice, Single, Exact, Survives
  <2>2. CASE Next
    BY <2>2, ExchangePromise, PlacesPromise, AwaitsPromise, BooksPromise, LeavesPromise
       DEF Next, Step
  <2> QED
    BY <2>1, <2>2
<1> QED
  BY <1>1, <1>2, LegInvariant, PTL DEF Spec

\* What execute_leg booked can be reported, all of it or a part.
LEMMA BookedReport ==
  ASSUME LegInv, PromiseInv, phase = "returned", NEW r,
         r = booked \/ (r = Qty /\ order.traded > 0),
         Exact /\ r < Qty => order.traded = 0
  PROVE  r \in Promise!Reports
<1>1. /\ Qty \in Nat \ {0} /\ booked \in 0..Qty /\ traded \in Nat
      /\ order.traded \in Nat /\ order.traded <= traded /\ order.traded <= order.sent
      /\ order.sent \in Nat
  BY Numbers DEF PromiseInv
<1>2. broker.counts = "filled" => booked <= traded
  BY DEF LegInv, TradedBound
<1>3. broker.counts = "ordered" => booked \in {0, Qty} /\ (booked > 0 => traded > 0)
  BY DEF PromiseInv, AllOrNothing
<1>4. r \in 0..traded \/ (r = Qty /\ traded > 0)
  BY <1>1, <1>2, <1>3, BrokerKinds
<1>5. CASE ~Exact
  BY <1>1, <1>4, <1>5 DEF Promise!Reports, Exact
<1>6. CASE Exact
  <2>1. Single
    BY <1>6 DEF Exact, Single, Survives
  <2>2. traded <= Qty /\ traded - order.traded <= booked
    BY <1>1, <2>1 DEF PromiseInv, NothingTwice
  <2>3. CASE r = Qty
    BY <1>1, <1>4, <1>6, <2>2, <2>3 DEF Promise!Reports, Exact
  <2>4. CASE r # Qty
    <3>1. r = booked /\ r < Qty /\ order.traded = 0
      BY <1>1, <1>6, <2>4
    <3>2. r = traded
      BY <1>1, <1>2, <1>3, <2>2, <3>1, BrokerKinds
    <3> QED
      BY <1>6, <3>2 DEF Promise!Reports, Exact
  <2> QED
    BY <2>3, <2>4
<1> QED
  BY <1>5, <1>6

\* Every exit of _do_leg reports what the promise allows.
LEMMA ReportKeepsPromise ==
  ASSUME LegInv, PromiseInv,
         NoSymbol \/ ReportNothing \/ ReportAll \/ ReportPolled \/ PollRaises
  PROVE  phase # "done" /\ UNCHANGED traded /\ reported' \in Promise!Reports
<1>1. phase # "done" /\ UNCHANGED traded
  BY DEF NoSymbol, ReportNothing, ReportAll, ReportPolled, PollRaises, Report
<1>2. Qty \in Nat \ {0} /\ traded \in Nat /\ booked \in 0..Qty
  BY Numbers
<1>3. CASE NoSymbol
  <2>1. attempt = 0 /\ order.type # "market" /\ reported' = 0
    BY <1>3 DEF NoSymbol, NoOrder, Report
  <2>2. traded = 0
    <3>1. Qty * 0 = 0
      BY <1>2
    <3> QED
      BY <1>2, <2>1, <3>1 DEF LegInv, SentBound
  <2> QED
    BY <1>1, <2>1, <2>2 DEF Promise!Reports
<1>4. CASE ReportNothing
  <2>1. reported' = 0 /\ (Exact => traded < Qty)
    BY <1>4 DEF ReportNothing, Report, PromiseInv
  <2> QED
    BY <1>1, <1>2, <2>1 DEF Promise!Reports, Exact
<1>5. CASE ReportAll
  <2>1. phase = "returned" /\ reported' = booked /\ booked >= Qty
    BY <1>5 DEF ReportAll, Report
  <2> QED
    BY <1>1, <1>2, <2>1, BookedReport
<1>6. CASE ReportPolled
  <2>1. PICK f \in Readings : reported' = IF f.priced THEN Qty ELSE booked
    BY <1>6 DEF ReportPolled, Report
  <2>2. phase = "returned"
    BY <1>6 DEF ReportPolled
  <2>3. CASE f.priced
    BY <1>1, <1>2, <2>1, <2>2, <2>3, ReadingPriced, BookedReport
  <2>4. CASE ~f.priced
    <3>1. Exact => ~(order.traded > 0)
      BY <2>4, ReadingExact DEF Exact, Survives
    <3>2. Exact => order.traded = 0
      BY <3>1, Numbers
    <3> QED
      BY <1>1, <2>1, <2>2, <2>4, <3>2, BookedReport
  <2> QED
    BY <2>3, <2>4
<1>7. CASE PollRaises
  <2>1. phase = "returned" /\ reported' = booked /\ ~Exact
    BY <1>7 DEF PollRaises, Report, ReadRaises, Exact, Survives
  <2> QED
    BY <1>1, <2>1, BookedReport
<1> QED
  BY <1>3, <1>4, <1>5, <1>6, <1>7

\* A step of the leg is one of the promise, or none.
LEMMA StepKeepsPromise ==
  ASSUME LegInv, PromiseInv, LegInv', PromiseInv', [Next]_vars
  PROVE  [Promise!Next]_(Promise!vars)
<1>1. UNCHANGED <<Survives({"refused", "killed"}), WholeOrders>>
  BY DEF Next, Step, Fill, Kill, PlaceLimit, PlaceMarket, AwaitSees, AwaitTimesOut, BookLimit,
         BookMarket, Book, MarketReadRaises, NoSymbol, ReportNothing, ReportAll, ReportPolled,
         PollRaises, Report, setup, vars, WholeOrders, Survives
<1>2. traded' <= Qty * WholeOrders' /\ Qty * WholeOrders' \in Nat
  <2>1. CASE Single'
    <3>1. WholeOrders' = 1 /\ traded' <= Qty
      <4>1. /\ traded' - order'.traded + order'.sent <= Qty
            /\ traded' \in Nat /\ order'.sent \in 0..Qty /\ order'.traded \in 0..order'.sent
        BY <2>1 DEF PromiseInv, NothingTwice, LegInv, TypeOK
      <4> QED
        BY <2>1, <4>1 DEF Single, WholeOrders
    <3> QED
      BY <3>1
  <2>2. CASE ~Single'
    <3>1. WholeOrders' = chases' + 2
      BY <2>2 DEF Single, WholeOrders
    <3>2. traded' \in 0..(Qty * (chases' + 2))
      BY DEF LegInv, TypeOK
    <3>3. chases' \in Nat
      BY DEF LegInv
    <3>4. Qty * (chases' + 2) \in Nat
      BY <3>3, LadderNat
    <3> QED
      BY <3>1, <3>2, <3>4
  <2> QED
    BY <2>1, <2>2
<1>3. CASE UNCHANGED reported /\ traded' >= traded
  <2>1. traded \in Nat /\ traded' \in Nat
    BY DEF LegInv, TypeOK
  <2>2. CASE traded' = traded
    BY <1>1, <1>3, <2>2 DEF Promise!vars
  <2>3. CASE traded' # traded
    <3>1. traded' \in (traded + 1)..(Qty * WholeOrders)
      BY <1>1, <1>2, <1>3, <2>1, <2>3
    <3> QED
      BY <1>1, <1>3, <3>1 DEF Promise!Next, Promise!Trade
  <2> QED
    BY <2>2, <2>3
<1>4. CASE /\ phase # "done" /\ UNCHANGED traded
           /\ reported' \in Promise!Reports
  BY <1>1, <1>4 DEF PromiseInv, NoReport, Promise!NoReport, Promise!Next, Promise!Report
<1>5. CASE Fill \/ Kill
  <2>1. UNCHANGED reported /\ traded' >= traded
    BY <1>5, Numbers DEF Fill, Kill
  <2> QED
    BY <1>3, <2>1
<1>6. CASE PlaceLimit \/ PlaceMarket
  <2>1. PICK type \in {"ioc", "market"}, t \in 0..Remaining : Place(type, Remaining, t)
    <3>1. 0 \in 0..Remaining
      BY Numbers DEF Remaining
    <3> QED
      BY <1>6, <3>1 DEF PlaceLimit, PlaceMarket
  <2>2. UNCHANGED reported /\ traded' >= traded
    BY <1>6, <2>1, Numbers DEF Place, PlaceLimit, PlaceMarket
  <2> QED
    BY <1>3, <2>2
<1>7. CASE \/ AwaitSees \/ AwaitTimesOut \/ BookLimit \/ BookMarket \/ MarketReadRaises
           \/ UNCHANGED vars
  <2>1. UNCHANGED <<reported, traded>>
    BY <1>7 DEF AwaitSees, AwaitTimesOut, BookLimit, BookMarket, Book, MarketReadRaises, vars
  <2> QED
    BY <1>3, <2>1, Numbers
<1>8. CASE NoSymbol \/ ReportNothing \/ ReportAll \/ ReportPolled \/ PollRaises
  BY <1>4, <1>8, ReportKeepsPromise
<1> QED
  BY <1>5, <1>6, <1>7, <1>8 DEF Next, Step

\* _do_leg keeps the promise LegPromise states, with every broker, quantity and
\* ladder: an exact report while no status or reply is lost, and more than the leg
\* only where a remainder is sent again.
THEOREM KeepsPromiseTheorem == Spec => KeepsPromise
<1>1. Init => Promise!Init
  <2> SUFFICES ASSUME Init PROVE Promise!Init
    OBVIOUS
  <2>1. chases \in Nat /\ traded = 0 /\ reported = NoReport
    BY DEF Init
  <2>2. WholeOrders \in Nat \ {0} /\ (Survives({"refused", "killed"}) => WholeOrders = 1)
    BY <2>1 DEF WholeOrders, Survives
  <2>3. Survives({"refused", "killed"}) \in BOOLEAN
    BY DEF Survives
  <2> QED
    BY <2>1, <2>2, <2>3 DEF Promise!Init, NoReport, Promise!NoReport
<1>2. LegInv /\ PromiseInv /\ LegInv' /\ PromiseInv' /\ [Next]_vars
        => [Promise!Next]_(Promise!vars)
  BY StepKeepsPromise
<1> QED
  BY <1>1, <1>2, PromiseInvariant, PTL DEF Spec, KeepsPromise, Promise!Spec
=============================================================================
