----------------------- MODULE StraddleTrading_proofs ----------------------
(***************************************************************************)
(* Type correctness of the desk for every value of the constants.          *)
(***************************************************************************)
EXTENDS StraddleTrading, TLAPS

\* TypeOK is not inductive: the bridge reads the head of the queue while it is
\* busy, so the head must be there.
TypeInv == TypeOK /\ Busy

USE BooksAssumption, FlatAssumption, QtyAssumption, BoundsAssumption, FillsAssumption

----------------------------------------------------------------------------
(* Lemmas on the records and on the pieces actions are made of *)

\* ExitOrder, EntryOrder: what a book publishes is an order.
LEMMA OrderType ==
  ASSUME NEW b \in Books, NEW L \in Legs, NEW k \in Pairs
  PROVE  EntryOrder(b, L, k) \in Order /\ ExitOrder(b, L, k) \in Order
BY DEF EntryOrder, ExitOrder, Order

\* FillOf: what the bridge publishes is a fill.
LEMMA FillType ==
  ASSUME NEW o \in Order, NEW a \in BOOLEAN
  PROVE  FillOf(o, a) \in Fill
BY DEF FillOf, Order, Fill

\* Current: the head of a nonempty order queue is an order.
LEMMA CurrentType ==
  ASSUME DeskTypeOK, orderQ # <<>>
  PROVE  /\ Current \in Order
         /\ Current.book \in Books
         /\ Current.legs \in Legs /\ Current.legs \subseteq Sides
         /\ Current.strikes \in Pairs
         /\ Tail(orderQ) \in Seq(Order)
<1>1. Current \in Order /\ Tail(orderQ) \in Seq(Order)
  BY DEF DeskTypeOK, Current
<1> QED
  BY <1>1 DEF Order, Legs

\* A position is never the empty one, and a position in memory that is not the
\* empty one is a position.
LEMMA OpenIsPosition ==
  ASSUME BookTypeOK, NEW b \in Books, pos[b] # NoPosition
  PROVE  pos[b] \in Position /\ pos[b].strike \in Pairs
BY DEF BookTypeOK, Position

\* The values _persist writes, for position p, trade count n and stop flag st.
PositionFile(p) == IF p = NoPosition THEN Cleared ELSE [day |-> day, pos |-> p]
PositionFiles == [day : 0..MaxDay, pos : Position \cup {NoPosition}]
SessionFiles == [day : 0..MaxDay, trades : Nat, stop : BOOLEAN]

\* _persist writes files of the right form.
LEMMA FilesType ==
  ASSUME DeskTypeOK, NEW p \in Position \cup {NoPosition}, NEW n \in Nat, NEW st \in BOOLEAN
  PROVE  /\ PositionFile(p) \in PositionFiles
         /\ [day |-> day, trades |-> n, stop |-> st] \in SessionFiles
<1>1. day \in 0..MaxDay /\ 0 \in 0..MaxDay
  BY DEF DeskTypeOK
<1>2. Cleared \in PositionFiles
  BY <1>1 DEF Cleared, PositionFiles
<1> QED
  BY <1>1, <1>2 DEF PositionFile, PositionFiles, SessionFiles

\* _open_leg, _on_fill: re-selling a leg, or taking over its fill price, keeps
\* a position a position.
LEMMA RolledType ==
  ASSUME NEW p \in Position, NEW s \in Sides, NEW k \in Strikes
  PROVE  Rolled(p, s, k) \in Position /\ Rolled(p, s, k).strike \in Pairs
BY DEF Rolled, Position, Pairs

\* _on_fill replaces entry prices of a position and leaves it a position.
LEMMA AdoptType ==
  ASSUME NEW p \in Position, NEW f \in Fill
  PROVE  Adopt(p, f) \in Position
BY DEF Adopt, Position, Fill, Pairs, Legs

----------------------------------------------------------------------------
(* The books' handlers *)

\* What a handler of a book may disturb.
BookSideOK ==
  /\ orderQ \in Seq(Order)
  /\ fillQ \in [Books -> Seq(Fill)]
  /\ running \in [Books -> BOOLEAN]
  /\ BookTypeOK

\* A handler only adds to the order queue.
Grows == orderQ # <<>> => orderQ' # <<>>

\* Appending to a queue keeps its type and leaves it nonempty.
LEMMA AppendType ==
  ASSUME NEW S, NEW q \in Seq(S), NEW x \in S, NEW y \in S
  PROVE  /\ Append(q, x) \in Seq(S) /\ Append(q, x) # <<>>
         /\ Append(Append(q, x), y) \in Seq(S) /\ Append(Append(q, x), y) # <<>>
<1>1. ASSUME NEW r \in Seq(S), NEW z \in S
      PROVE  Append(r, z) \in Seq(S) /\ Append(r, z) # <<>>
  <2>1. Append(r, z) \in Seq(S) /\ Len(Append(r, z)) = Len(r) + 1 /\ Len(r) \in Nat
    OBVIOUS
  <2> QED
    BY <2>1
<1> QED
  BY <1>1

\* EventBus.publish: the queue keeps its type and is not empty afterwards.
LEMMA PublishType ==
  ASSUME orderQ \in Seq(Order), NEW o \in Order, PublishOrder(o)
  PROVE  orderQ' \in Seq(Order) /\ orderQ' # <<>>
BY AppendType DEF PublishOrder

\* _open_position creates, persists and publishes well-formed records.
LEMMA OpenPositionType ==
  ASSUME DeskTypeOK, BookTypeOK, NEW b \in Books, NEW k \in Pairs, OpenPosition(b, k)
  PROVE  BookSideOK' /\ Grows
<1> DEFINE p == [strike |-> k, sold |-> k]
<1>1. p \in Position
  BY DEF Position
<1>2. trades[b] \in Nat /\ stop[b] \in BOOLEAN
  BY DEF BookTypeOK
<1>3. Persist(b, p, trades[b], stop[b])
  BY DEF OpenPosition
<1>4. store' \in [Books -> PositionFiles] /\ sess' \in [Books -> SessionFiles]
  <2>1. PositionFile(p) \in PositionFiles
    BY <1>1, <1>2, FilesType
  <2>2. [day |-> day, trades |-> trades[b], stop |-> stop[b]] \in SessionFiles
    BY <1>1, <1>2, FilesType
  <2> HIDE DEF p
  <2> QED
    BY <2>1, <2>2, <1>3 DEF Persist, Sets, BookTypeOK, PositionFile, PositionFiles, SessionFiles
<1>5. Sides \in Legs
  BY DEF Sides, Legs
<1>6. EntryOrder(b, Sides, k) \in Order
  BY <1>5, OrderType
<1>7. orderQ' \in Seq(Order) /\ orderQ' # <<>>
  BY <1>6, PublishType DEF OpenPosition, DeskTypeOK
<1>8. pos' \in [Books -> Position \cup {NoPosition}]
  BY <1>1 DEF OpenPosition, Sets, BookTypeOK
<1>9. trades' \in [Books -> Nat]
  BY <1>2 DEF OpenPosition, Sets, BookTypeOK
<1>10. pending' \in [Books -> BOOLEAN] /\ gate' \in [Books -> BOOLEAN]
  BY DEF OpenPosition, Sets, BookTypeOK
<1> QED
  BY <1>4, <1>7, <1>8, <1>9, <1>10 DEF PositionFiles, SessionFiles, OpenPosition, BookSideOK, BookTypeOK, DeskTypeOK, Grows

\* Every full exit, whichever rule or switch asks for it.
LEMMA ClosePositionType ==
  ASSUME DeskTypeOK, BookTypeOK, NEW b \in Books, NEW st \in BOOLEAN, ClosePosition(b, st),
         stop' \in [Books -> BOOLEAN], sday' \in [Books -> 0..MaxDay]
  PROVE  BookSideOK' /\ Grows
<1>1. NoPosition \in Position \cup {NoPosition} /\ trades[b] \in Nat
  BY DEF BookTypeOK
<1>2. Persist(b, NoPosition, trades[b], st)
  BY DEF ClosePosition
<1>3. store' \in [Books -> PositionFiles] /\ sess' \in [Books -> SessionFiles]
  <2>1. PositionFile(NoPosition) \in PositionFiles
    BY <1>1, FilesType
  <2>2. [day |-> day, trades |-> trades[b], stop |-> st] \in SessionFiles
    BY <1>1, FilesType
  <2> QED
    BY <2>1, <2>2, <1>2 DEF Persist, Sets, BookTypeOK, PositionFile, PositionFiles, SessionFiles
<1>4. pos[b].strike \in Pairs
  BY OpenIsPosition DEF ClosePosition
<1>5. Sides \in Legs
  BY DEF Sides, Legs
<1>6. ExitOrder(b, Sides, pos[b].strike) \in Order
  BY <1>4, <1>5, OrderType
<1>7. orderQ' \in Seq(Order) /\ orderQ' # <<>>
  BY <1>6, PublishType DEF ClosePosition, DeskTypeOK
<1>8. pos' \in [Books -> Position \cup {NoPosition}]
  BY DEF ClosePosition, Sets, BookTypeOK
<1>9. cool' \in [Books -> BOOLEAN]
  BY CooldownAssumption DEF ClosePosition, Sets, BookTypeOK
<1> QED
  BY <1>3, <1>7, <1>8, <1>9 DEF PositionFiles, SessionFiles, ClosePosition, BookSideOK, BookTypeOK, DeskTypeOK, Grows

\* The exits of the tick loop, of the candle loop and of the client.
LEMMA ExitsType ==
  ASSUME DeskTypeOK, BookTypeOK, NEW b \in Books,
         \/ ExitAndReenter(b) \/ ExitForDay(b) \/ EndOfDay(b) \/ SquareOff(b)
  PROVE  BookSideOK' /\ Grows
<1>0. stop[b] \in BOOLEAN /\ TRUE \in BOOLEAN /\ day \in 0..MaxDay
  BY DEF BookTypeOK, DeskTypeOK
<1>1. CASE ExitAndReenter(b)
  BY <1>0, <1>1, ClosePositionType DEF ExitAndReenter, BookTypeOK
<1>2. CASE ExitForDay(b)
  BY <1>0, <1>2, ClosePositionType DEF ExitForDay, BookTypeOK, Sets
<1>3. CASE EodTick(b)
  BY <1>0, <1>3, ClosePositionType DEF EodTick, BookTypeOK, Sets
<1>4. CASE EodCandle(b)
  BY <1>0, <1>4, ClosePositionType DEF EodCandle, BookTypeOK, Sets
<1>5. CASE SquareOff(b)
  BY <1>0, <1>5, ClosePositionType DEF SquareOff, BookTypeOK, Sets
<1> QED
  BY <1>1, <1>2, <1>3, <1>4, <1>5 DEF EndOfDay

\* _single_side_roll with a partner: two orders, the rolled position persisted.
LEMMA RollType ==
  ASSUME DeskTypeOK, BookTypeOK, NEW b \in Books, NEW s \in Sides, NEW k \in Strikes, Roll(b, s, k)
  PROVE  BookSideOK' /\ Grows
<1> DEFINE p == Rolled(pos[b], s, k)
<1>1. pos[b] \in Position /\ pos[b].strike \in Pairs
  BY OpenIsPosition DEF Roll, MayRoll
<1>2. p \in Position /\ p.strike \in Pairs
  BY <1>1, RolledType
<1>3. trades[b] \in Nat /\ stop[b] \in BOOLEAN /\ {s} \in Legs
  BY DEF BookTypeOK, Legs
<1>4. Persist(b, p, trades[b], stop[b]) /\ pos' = [pos EXCEPT ![b] = p]
  BY DEF Roll, Sets
<1>5. /\ ExitOrder(b, {s}, pos[b].strike) \in Order
      /\ EntryOrder(b, {s}, p.strike) \in Order
  BY <1>1, <1>2, <1>3, OrderType
<1>6. orderQ' \in Seq(Order) /\ orderQ' # <<>>
  BY <1>5, AppendType DEF Roll, RollOrders, DeskTypeOK
<1>7. PositionFile(p) \in PositionFiles
  BY <1>2, <1>3, FilesType
<1>8. [day |-> day, trades |-> trades[b], stop |-> stop[b]] \in SessionFiles
  BY <1>2, <1>3, FilesType
<1> HIDE DEF p
<1>9. store' \in [Books -> PositionFiles] /\ sess' \in [Books -> SessionFiles]
  BY <1>4, <1>7, <1>8 DEF Persist, Sets, BookTypeOK, PositionFile, PositionFiles, SessionFiles
<1>10. pos' \in [Books -> Position \cup {NoPosition}]
  BY <1>2, <1>4 DEF BookTypeOK
<1> QED
  BY <1>6, <1>9, <1>10
     DEF Roll, PositionFiles, SessionFiles, BookSideOK, BookTypeOK, DeskTypeOK, Grows

\* _single_side_roll without a partner: both legs closed, the position gone.
LEMMA RollNoPartnerType ==
  ASSUME DeskTypeOK, BookTypeOK, NEW b \in Books, NEW s \in Sides, RollNoPartner(b, s)
  PROVE  BookSideOK' /\ Grows
<1>1. pos[b].strike \in Pairs
  BY OpenIsPosition DEF RollNoPartner, MayRoll
<1>2. trades[b] \in Nat /\ stop[b] \in BOOLEAN /\ {s} \in Legs /\ {Other(s)} \in Legs
  BY DEF BookTypeOK, Legs, Other, Sides
<1>3. /\ ExitOrder(b, {s}, pos[b].strike) \in Order
      /\ ExitOrder(b, {Other(s)}, pos[b].strike) \in Order
  BY <1>1, <1>2, OrderType
<1>4. orderQ' \in Seq(Order) /\ orderQ' # <<>>
  BY <1>3, AppendType DEF RollNoPartner, CleanupOrders, DeskTypeOK
<1>5. PositionFile(NoPosition) \in PositionFiles
  BY <1>2, FilesType
<1>6. [day |-> day, trades |-> trades[b], stop |-> stop[b]] \in SessionFiles
  BY <1>2, FilesType
<1>7. Persist(b, NoPosition, trades[b], stop[b])
  BY DEF RollNoPartner
<1>8. store' \in [Books -> PositionFiles] /\ sess' \in [Books -> SessionFiles]
  BY <1>5, <1>6, <1>7 DEF Persist, Sets, BookTypeOK, PositionFile, PositionFiles, SessionFiles
<1>9. pos' \in [Books -> Position \cup {NoPosition}] /\ cool' \in [Books -> BOOLEAN]
  BY CooldownAssumption DEF RollNoPartner, Sets, BookTypeOK
<1> QED
  BY <1>4, <1>8, <1>9
     DEF RollNoPartner, PositionFiles, SessionFiles, BookSideOK, BookTypeOK, DeskTypeOK, Grows

\* The handlers that publish nothing.
LEMMA QuietType ==
  ASSUME DeskTypeOK, BookTypeOK, NEW b \in Books, Quiet(b)
  PROVE  BookSideOK' /\ Grows
<1>0. day \in 0..MaxDay
  BY DEF DeskTypeOK
<1>1. CASE CheckTerminal(b)
  BY <1>1 DEF CheckTerminal, BookSideOK, BookTypeOK, DeskTypeOK, Grows, Sets, busVars, diskVars
<1>2. CASE WarmUpEnds(b)
  BY <1>2 DEF WarmUpEnds, BookSideOK, BookTypeOK, DeskTypeOK, Grows, Sets, busVars, diskVars
<1>3. CASE CooldownEnds(b)
  BY <1>3 DEF CooldownEnds, BookSideOK, BookTypeOK, DeskTypeOK, Grows, Sets, busVars, diskVars
<1>4. CASE ResetSession(b)
  BY <1>0, <1>4 DEF ResetSession, BookSideOK, BookTypeOK, DeskTypeOK, Grows, Sets, busVars, diskVars
<1>5. CASE QuietCandle(b)
  BY <1>0, <1>5 DEF QuietCandle, BookSideOK, BookTypeOK, DeskTypeOK, Grows, Sets, busVars, diskVars
<1> QED
  BY <1>1, <1>2, <1>3, <1>4, <1>5 DEF Quiet

\* _fill_loop: the fill at the head of a book's queue is one, and is taken off.
LEMMA TakeFillType ==
  ASSUME DeskTypeOK, BookTypeOK, NEW b \in Books, TakeFill(b)
  PROVE  /\ Head(fillQ[b]) \in Fill
         /\ fillQ' \in [Books -> Seq(Fill)]
         /\ pending' \in [Books -> BOOLEAN]
<1>1. fillQ[b] \in Seq(Fill) /\ fillQ[b] # <<>>
  BY DEF DeskTypeOK, TakeFill
<1>2. Head(fillQ[b]) \in Fill /\ Tail(fillQ[b]) \in Seq(Fill)
  BY <1>1
<1> QED
  BY <1>2 DEF TakeFill, Sets, DeskTypeOK, BookTypeOK

\* _on_fill: a filled entry, an aborted entry, an exit.
LEMMA HandleFillType ==
  ASSUME DeskTypeOK, BookTypeOK, NEW b \in Books, HandleFill(b)
  PROVE  BookSideOK' /\ Grows
<1>0. trades[b] \in Nat /\ stop[b] \in BOOLEAN /\ NoPosition \in Position \cup {NoPosition}
  BY DEF BookTypeOK
<1>1. CASE EntryFilled(b)
  <2>1. TakeFill(b)
    BY <1>1 DEF EntryFilled
  <2> DEFINE p == Adopt(pos[b], Head(fillQ[b]))
  <2>2. CASE pos[b] # NoPosition
    <3>1. p \in Position
      BY <2>1, <2>2, OpenIsPosition, TakeFillType, AdoptType
    <3>2. pos' = [pos EXCEPT ![b] = p] /\ Persist(b, p, trades[b], stop[b])
      BY <1>1, <2>2 DEF EntryFilled, Sets
    <3>3. PositionFile(p) \in PositionFiles
      BY <1>0, <3>1, FilesType
    <3>4. [day |-> day, trades |-> trades[b], stop |-> stop[b]] \in SessionFiles
      BY <1>0, <3>1, FilesType
    <3> HIDE DEF p
    <3>5. store' \in [Books -> PositionFiles] /\ sess' \in [Books -> SessionFiles]
      BY <3>2, <3>3, <3>4 DEF Persist, Sets, BookTypeOK, PositionFile, PositionFiles, SessionFiles
    <3>6. pos' \in [Books -> Position \cup {NoPosition}]
      BY <3>1, <3>2 DEF BookTypeOK
    <3> QED
      BY <1>1, <2>1, <3>5, <3>6, TakeFillType
         DEF EntryFilled, TakeFill, PositionFiles, SessionFiles, BookSideOK, BookTypeOK, DeskTypeOK, Grows
  <2>3. CASE pos[b] = NoPosition
    <3>1. UNCHANGED <<pos, diskVars>>
      BY <1>1, <2>3 DEF EntryFilled
    <3> QED
      BY <1>1, <2>1, <3>1, TakeFillType
         DEF EntryFilled, TakeFill, diskVars, BookSideOK, BookTypeOK, DeskTypeOK, Grows
  <2> QED
    BY <2>2, <2>3
<1>2. CASE EntryAborted(b)
  <2> DEFINE n == IF trades[b] = 0 THEN 0 ELSE trades[b] - 1
  <2>1. TakeFill(b)
    BY <1>2 DEF EntryAborted
  <2>2. n \in Nat
    BY <1>0
  <2>3. /\ Persist(b, NoPosition, n, stop[b]) /\ pos' = [pos EXCEPT ![b] = NoPosition]
        /\ trades' = [trades EXCEPT ![b] = n]
    BY <1>2 DEF EntryAborted, Sets
  <2> HIDE DEF n
  <2>4. PositionFile(NoPosition) \in PositionFiles
    BY <1>0, <2>2, FilesType
  <2>5. [day |-> day, trades |-> n, stop |-> stop[b]] \in SessionFiles
    BY <1>0, <2>2, FilesType
  <2>6. store' \in [Books -> PositionFiles] /\ sess' \in [Books -> SessionFiles]
    BY <2>3, <2>4, <2>5 DEF Persist, Sets, BookTypeOK, PositionFile, PositionFiles, SessionFiles
  <2>7. /\ pos' \in [Books -> Position \cup {NoPosition}]
        /\ trades' \in [Books -> Nat] /\ cool' \in [Books -> BOOLEAN]
    BY <1>2, <2>2, <2>3, CooldownAssumption DEF EntryAborted, Sets, BookTypeOK
  <2> QED
    BY <1>2, <2>1, <2>6, <2>7, TakeFillType
       DEF EntryAborted, TakeFill, PositionFiles, SessionFiles, BookSideOK, BookTypeOK, DeskTypeOK, Grows
<1>3. CASE ExitFilled(b)
  <2>1. TakeFill(b)
    BY <1>3 DEF ExitFilled
  <2> QED
    BY <1>3, <2>1, TakeFillType
       DEF ExitFilled, TakeFill, diskVars, BookSideOK, BookTypeOK, DeskTypeOK, Grows
<1> QED
  BY <1>1, <1>2, <1>3 DEF HandleFill

\* start(): what the files restore is a position or none.
LEMMA StartBookType ==
  ASSUME DeskTypeOK, BookTypeOK, NEW b \in Books, StartBook(b)
  PROVE  BookSideOK' /\ Grows
<1>1. store[b] \in PositionFiles /\ Cleared \in PositionFiles
  BY DEF BookTypeOK, PositionFiles, Cleared, DeskTypeOK
<1>2. Saved(b) \in Position \cup {NoPosition}
  BY <1>1 DEF Saved, PositionFiles
<1>3. SavedSession(b).trades \in Nat /\ SavedSession(b).stop \in BOOLEAN
  BY DEF SavedSession, NoSession, BookTypeOK
<1>4. store' \in [Books -> PositionFiles]
  BY <1>1 DEF StartBook, Sets, BookTypeOK, PositionFiles
<1>5. /\ pos' \in [Books -> Position \cup {NoPosition}]
      /\ trades' \in [Books -> Nat] /\ stop' \in [Books -> BOOLEAN]
  BY <1>2, <1>3 DEF StartBook, Sets, BookTypeOK
<1>6. running' \in [Books -> BOOLEAN] /\ warm' \in [Books -> BOOLEAN]
  BY DEF StartBook, Sets, BookTypeOK, DeskTypeOK
<1> QED
  BY <1>4, <1>5, <1>6
     DEF StartBook, PositionFiles, busVars, BookSideOK, BookTypeOK, DeskTypeOK, Grows

\* Books that stop, or a process that dies, leave only their files.
LEMMA ForgetType ==
  ASSUME DeskTypeOK, BookTypeOK, NEW gone \in SUBSET Books, Forget(gone)
  PROVE  fillQ' \in [Books -> Seq(Fill)] /\ running' \in [Books -> BOOLEAN] /\ BookTypeOK'
<1>1. 0 \in 0..MaxDay
  BY DEF DeskTypeOK
<1>2. fillQ' \in [Books -> Seq(Fill)] /\ running' \in [Books -> BOOLEAN]
  BY DEF Forget, DeskTypeOK
<1>3. /\ pos' \in [Books -> Position \cup {NoPosition}]
      /\ trades' \in [Books -> Nat] /\ sday' \in [Books -> 0..MaxDay]
  BY <1>1 DEF Forget, BookTypeOK
<1>4. /\ pending' \in [Books -> BOOLEAN] /\ stop' \in [Books -> BOOLEAN]
      /\ cool' \in [Books -> BOOLEAN] /\ warm' \in [Books -> BOOLEAN]
      /\ gate' \in [Books -> BOOLEAN]
  BY DEF Forget, BookTypeOK
<1> QED
  BY <1>2, <1>3, <1>4 DEF Forget, diskVars, BookTypeOK

----------------------------------------------------------------------------
(* The bridge *)

\* What a step of the bridge may disturb.
BridgeSideOK ==
  /\ orderQ \in Seq(Order)
  /\ fillQ \in [Books -> Seq(Fill)]
  /\ BridgeTypeOK
  /\ Busy

\* No quantity of any leg, in a record of the bridge.
LEMMA NothingType == Nothing \in [Sides -> 0..Qty]
BY QtyAssumption DEF Nothing

\* An account that is as it was, in a record of the bridge.
LEMMA NothingInt == Nothing \in [Sides -> Int]
BY DEF Nothing

\* Between orders the bridge holds none.
LEMMA IdleType == Idle \in Exec /\ Idle.phase = "idle"
BY NothingType, NothingInt DEF Idle, Exec

\* EventBus.publish: every started book's queue grows by the fill.
LEMMA PublishFillType ==
  ASSUME DeskTypeOK, NEW f \in Fill, PublishFill(f)
  PROVE  fillQ' \in [Books -> Seq(Fill)]
<1>1. \A b \in Books : fillQ[b] \in Seq(Fill) /\ Append(fillQ[b], f) \in Seq(Fill)
  BY AppendType DEF DeskTypeOK
<1> QED
  BY <1>1 DEF PublishFill

\* One traded leg leaves the accounts whole.
LEMMA TradedType ==
  ASSUME BridgeTypeOK, NEW o \in Order, NEW s \in Sides, NEW q \in Int
  PROVE  Traded(o, s, q) \in [Books -> [Sides -> [Strikes -> Int]]]
<1>1. o.book \in Books /\ o.strikes[s] \in Strikes
  BY DEF Order, Pairs
<1>2. net[o.book][s][o.strikes[s]] \in Int
  BY <1>1 DEF BridgeTypeOK
<1> QED
  BY <1>1, <1>2 DEF Traded, BridgeTypeOK

\* A ticket of an order is one of the tickets.
LEMMA TicketType ==
  ASSUME NEW o \in Order, NEW s \in Sides, NEW w \in {"SELL", "BUY"}
  PROVE  Ticket(o, s, w) \in Tickets
<1>1. o.book \in Books /\ o.strikes[s] \in Strikes
  BY DEF Order, Pairs
<1> QED
  BY <1>1 DEF Ticket, Tickets

\* What rests stays a quantity.
LEMMA RestsType ==
  ASSUME BridgeTypeOK, NEW t \in Tickets, NEW q \in Int, resting[t] + q >= 0, Rests(t, q)
  PROVE  resting' \in [Tickets -> Nat]
<1>1. resting \in [Tickets -> Nat] /\ resting[t] + q \in Nat
  BY DEF BridgeTypeOK
<1> QED
  BY <1>1 DEF Rests

\* _handle, _live_fill: each step of the bridge keeps the queues, the accounts
\* and its own record whole, and is busy only with an order.
LEMMA BridgeStepType ==
  ASSUME DeskTypeOK, BridgeTypeOK, Busy, BridgeStep
  PROVE  BridgeSideOK'
<1> USE DEF BridgeSideOK
<1>1. orderQ # <<>> => Current \in Order /\ Tail(orderQ) \in Seq(Order) /\ Current.legs \in SUBSET Sides
  BY CurrentType
<1>2. ASSUME NEW a \in BOOLEAN, orderQ # <<>>, Finish, PublishFill(FillOf(Current, a)), UNCHANGED <<net, resting>>
      PROVE  BridgeSideOK'
  <2>1. fillQ' \in [Books -> Seq(Fill)]
    BY <1>1, <1>2, FillType, PublishFillType
  <2> QED
    BY <1>1, <1>2, <2>1, IdleType DEF Finish, BridgeTypeOK, Busy
<1>3. CASE DropUnrouted
  BY <1>1, <1>3, IdleType DEF DropUnrouted, Finish, BridgeTypeOK, Busy, DeskTypeOK
<1>4. CASE PaperFill
  BY <1>2, <1>4 DEF PaperFill
<1>5. CASE StartLive
  <2>1. exec' = [Idle EXCEPT !.phase = "legs", !.todo = Current.legs]
    BY <1>5 DEF StartLive
  <2>2. Current.legs \in SUBSET Sides
    BY <1>1, <1>5 DEF StartLive
  <2>3. exec' \in Exec
    BY <2>1, <2>2, IdleType DEF Exec
  <2> QED
    BY <1>5, <2>3 DEF StartLive, BridgeTypeOK, Busy, DeskTypeOK, busVars
<1>6. ASSUME NEW s \in Sides, NEW q \in 0..Qty, NEW r \in 0..Qty, LegDone(s, q, r)
      PROVE  BridgeSideOK'
  <2>1. orderQ # <<>> /\ Signed(Current, q) \in Int
    BY <1>6 DEF LegDone, Busy, Signed
  <2>2. net' \in [Books -> [Sides -> [Strikes -> Int]]]
    BY <1>1, <1>6, <2>1, TradedType DEF LegDone
  <2> DEFINE t == Ticket(Current, s, "SELL")
             rest == IF Current.action = "ENTRY" /\ "late_fill" \in Faults THEN Qty - q ELSE 0
  <2>3. exec' = [exec EXCEPT !.todo = @ \ {s}, !.filled[s] = r] /\ Rests(t, rest)
    BY <1>6 DEF LegDone
  <2>4. rest \in Nat
    BY QtyAssumption
  <2>5. t \in Tickets /\ resting[t] \in Nat
    BY <1>1, <2>1, TicketType DEF BridgeTypeOK
  <2> HIDE DEF t, rest
  <2>6. resting' \in [Tickets -> Nat]
    BY <2>3, <2>4, <2>5, RestsType
  <2>7. exec' \in Exec
    BY <2>3 DEF Exec, BridgeTypeOK
  <2> QED
    BY <1>6, <2>1, <2>2, <2>6, <2>7 DEF LegDone, BridgeTypeOK, Busy, DeskTypeOK, busVars
<1>7. ASSUME NEW t \in Tickets, NEW q \in 1..resting[t], LateFill(t, q)
      PROVE  BridgeSideOK'
  <2>1. t.book \in Books /\ t.side \in Sides /\ t.strike \in Strikes
    BY DEF Tickets
  <2>2. resting[t] \in Nat /\ q \in Int /\ resting[t] + (-q) >= 0 /\ -q \in Int
    BY DEF BridgeTypeOK
  <2>3. Shorter(t, q) \in Int
    BY <2>2 DEF Shorter
  <2>4. resting' \in [Tickets -> Nat]
    BY <1>7, <2>2, RestsType DEF LateFill
  <2>5. net' \in [Books -> [Sides -> [Strikes -> Int]]]
    <3>1. net[t.book][t.side][t.strike] + Shorter(t, q) \in Int
      BY <2>1, <2>3 DEF BridgeTypeOK
    <3> QED
      BY <1>7, <2>1, <3>1 DEF LateFill, BridgeTypeOK
  <2>6. exec' \in Exec /\ exec'.phase = exec.phase
    <3>1. exec \in Exec /\ exec.missed[t.side] + Shorter(t, q) \in Int
      BY <2>1, <2>3 DEF BridgeTypeOK, Exec
    <3>2. \/ exec' = exec
          \/ exec' = [exec EXCEPT !.missed[t.side] = exec.missed[t.side] + Shorter(t, q)]
      BY <1>7 DEF LateFill
    <3> QED
      BY <3>1, <3>2 DEF Exec
  <2> QED
    BY <1>7, <2>4, <2>5, <2>6 DEF LateFill, BridgeTypeOK, Busy, DeskTypeOK, busVars
<1>8. ASSUME NEW s \in Sides, FlattenLeg(s)
      PROVE  BridgeSideOK'
  <2>1. orderQ # <<>> /\ -exec.filled[s] \in Int
    BY <1>8 DEF FlattenLeg, Busy, BridgeTypeOK, Exec
  <2>2. Traded(Current, s, -exec.filled[s]) \in [Books -> [Sides -> [Strikes -> Int]]]
    BY <1>1, <2>1, TradedType
  <2>3. net' \in [Books -> [Sides -> [Strikes -> Int]]]
    BY <1>8, <2>2 DEF FlattenLeg, BridgeTypeOK
  <2>4. exec' \in Exec
    BY <1>8 DEF FlattenLeg, Exec, BridgeTypeOK
  <2>5. resting' \in [Tickets -> Nat]
    <3>1. Ticket(Current, s, "BUY") \in Tickets
      BY <1>1, <2>1, TicketType
    <3>2. \A q \in {0, exec.filled[s]} : q \in Int /\ resting[Ticket(Current, s, "BUY")] + q >= 0
      BY <3>1, QtyAssumption DEF BridgeTypeOK, Exec
    <3> QED
      BY <1>8, <3>1, <3>2, RestsType DEF FlattenLeg, BridgeTypeOK
  <2> QED
    BY <1>8, <2>1, <2>3, <2>4, <2>5 DEF FlattenLeg, BridgeTypeOK, Busy, DeskTypeOK, busVars
<1>9. CASE ConfirmFill
  BY <1>2, <1>9 DEF ConfirmFill, Busy
<1>10. CASE StartFlatten
  <2> DEFINE back == {s \in Current.legs : exec.filled[s] > 0}
  <2>1. orderQ # <<>> /\ back \in SUBSET Sides
    BY <1>1, <1>10 DEF StartFlatten, Busy
  <2>2. exec' = [exec EXCEPT !.phase = "flatten", !.todo = back]
    BY <1>10 DEF StartFlatten
  <2> HIDE DEF back
  <2>3. exec' \in Exec
    BY <2>1, <2>2 DEF Exec, BridgeTypeOK
  <2> QED
    BY <1>10, <2>3 DEF StartFlatten, BridgeTypeOK, Busy, DeskTypeOK, busVars
<1>11. CASE CancelResting
  <2>1. resting' \in [Tickets -> Nat]
    BY <1>11 DEF CancelResting, BridgeTypeOK
  <2>2. exec' \in Exec
    BY <1>11 DEF CancelResting, Exec, BridgeTypeOK
  <2> QED
    BY <1>11, <2>1, <2>2 DEF CancelResting, BridgeTypeOK, Busy, DeskTypeOK, busVars
<1>12. CASE ReadPositions
  <2>1. orderQ # <<>>
    BY <1>12 DEF ReadPositions, Busy
  <2>2. \A s \in Sides : PositionOf(Current, s) \in Int
    BY <1>1, <2>1 DEF PositionOf, BridgeTypeOK, Order, Pairs
  <2>3. exec' \in Exec
    <3> DEFINE left == {s \in Sides : PositionOf(Current, s) # 0}
               read == [s \in Sides |-> PositionOf(Current, s)]
    <3>1. left \in SUBSET Sides /\ read \in [Sides -> Int]
      BY <2>2
    <3>2. \/ exec' = [Idle EXCEPT !.phase = "squaring", !.seen = read, !.todo = left]
          \/ exec' = [Idle EXCEPT !.phase = "squaring"]
      BY <1>12 DEF ReadPositions
    <3> HIDE DEF left, read
    <3> QED
      BY <3>1, <3>2, IdleType DEF Exec
  <2> QED
    BY <1>12, <2>1, <2>3 DEF ReadPositions, BridgeTypeOK, Busy, DeskTypeOK, busVars
<1>13. ASSUME NEW s \in Sides, SquareLeg(s)
       PROVE  BridgeSideOK'
  <2>1. orderQ # <<>> /\ exec.seen[s] \in Int /\ -exec.seen[s] \in Int
    BY <1>13 DEF SquareLeg, Busy, BridgeTypeOK, Exec
  <2>2. Traded(Current, s, -exec.seen[s]) \in [Books -> [Sides -> [Strikes -> Int]]]
    BY <1>1, <2>1, TradedType
  <2>3. net' \in [Books -> [Sides -> [Strikes -> Int]]]
    BY <1>13, <2>2 DEF SquareLeg, BridgeTypeOK
  <2>4. exec' \in Exec
    BY <1>13 DEF SquareLeg, Exec, BridgeTypeOK
  <2>5. resting' \in [Tickets -> Nat]
    <3>1. Ticket(Current, s, "BUY") \in Tickets /\ Ticket(Current, s, "SELL") \in Tickets
      BY <1>1, <2>1, TicketType
    <3>2. \A t \in Tickets : resting[t] \in Nat
      BY DEF BridgeTypeOK
    <3>3. ASSUME NEW t \in Tickets, NEW q \in Int, q >= 0, Rests(t, q)
          PROVE  resting' \in [Tickets -> Nat]
      <4>1. resting[t] + q >= 0
        BY <3>2, <3>3
      <4> QED
        BY <3>3, <4>1, RestsType
    <3>4. CASE UNCHANGED resting
      BY <3>4 DEF BridgeTypeOK
    <3>5. CASE exec.seen[s] > 0 /\ Rests(Ticket(Current, s, "BUY"), exec.seen[s])
      BY <2>1, <3>1, <3>3, <3>5
    <3>6. CASE exec.seen[s] < 0 /\ Rests(Ticket(Current, s, "SELL"), -exec.seen[s])
      <4>1. -exec.seen[s] >= 0
        BY <2>1, <3>6
      <4> QED
        BY <2>1, <3>1, <3>3, <3>6, <4>1
    <3> QED
      BY <1>13, <3>4, <3>5, <3>6 DEF SquareLeg
  <2> QED
    BY <1>13, <2>1, <2>3, <2>4, <2>5 DEF SquareLeg, BridgeTypeOK, Busy, DeskTypeOK, busVars
<1>14. CASE AbortEntry
  BY <1>2, <1>14 DEF AbortEntry, Busy
<1> QED
  <2>1. \A s \in Sides, q \in 0..Qty, r \in 0..Qty : ~LegDone(s, q, r) \/ BridgeSideOK'
    BY <1>6
  <2>2. \A t \in Tickets : \A q \in 1..resting[t] : ~LateFill(t, q) \/ BridgeSideOK'
    BY <1>7
  <2> QED
    BY <1>3, <1>4, <1>5, <2>1, <2>2, <1>8, <1>9, <1>10, <1>11, <1>12, <1>13, <1>14 DEF BridgeStep

----------------------------------------------------------------------------
(* The desk *)

\* A handler of a book touches neither clock, switches, bridge nor requests.
LEMMA BookStepFrame ==
  ASSUME TypeInv, BookSideOK', Grows, UNCHANGED <<clockVars, flagVars, bridgeVars, op>>
  PROVE  TypeInv'
BY DEF TypeInv, TypeOK, Busy, Grows, BookSideOK, DeskTypeOK, BridgeTypeOK,
       clockVars, flagVars, bridgeVars

\* The two switches, and how far a request to stop has come.
LEMMA ClientStepType ==
  ASSUME TypeInv, NEW b \in Books, ClientStep(b)
  PROVE  TypeInv'
<1> USE DEF TypeInv, TypeOK
<1>1. ASSUME SquareOffBinding(b), NEW v \in OpStates, op' = [op EXCEPT ![b] = v],
             UNCHANGED <<clockVars, flagVars, bridgeVars>>
      PROVE  TypeInv'
  <2>1. op' \in [Books -> OpStates]
    BY <1>1
  <2>2. CASE running[b] /\ pos[b] # NoPosition
    <3>1. BookSideOK' /\ Grows
      BY <1>1, <2>2, ExitsType DEF SquareOffBinding
    <3> QED
      BY <1>1, <2>1, <3>1
         DEF Busy, Grows, BookSideOK, DeskTypeOK, BridgeTypeOK, clockVars, flagVars, bridgeVars
  <2>3. CASE ~(running[b] /\ pos[b] # NoPosition)
    <3>1. UNCHANGED <<busVars, bookVars>>
      BY <1>1, <2>3 DEF SquareOffBinding
    <3> QED
      BY <1>1, <2>1, <3>1 DEF Busy, DeskTypeOK, BookTypeOK, BridgeTypeOK, busVars, bookVars,
         memoryVars, diskVars, clockVars, flagVars, bridgeVars
  <2> QED
    BY <2>2, <2>3
<1>2. CASE RunOff(b)
  BY <1>1, <1>2 DEF RunOff, OpStates
<1>3. CASE DisconnectSquareOff(b)
  BY <1>1, <1>3 DEF DisconnectSquareOff, OpStates
<1>4. CASE RunCleared(b)
  BY <1>4 DEF RunCleared, OpStates, Busy, DeskTypeOK, BookTypeOK, BridgeTypeOK, busVars, bookVars,
     memoryVars, diskVars, clockVars, bridgeVars
<1>5. CASE TerminalOff(b)
  BY <1>5 DEF TerminalOff, OpStates, Busy, DeskTypeOK, BookTypeOK, BridgeTypeOK, busVars, bookVars,
     memoryVars, diskVars, clockVars, bridgeVars
<1>6. CASE RunOn(b)
  BY <1>6 DEF RunOn, Busy, DeskTypeOK, BookTypeOK, BridgeTypeOK, busVars, bookVars,
     memoryVars, diskVars, clockVars, bridgeVars
<1>7. CASE TerminalOn(b)
  BY <1>7 DEF TerminalOn, Busy, DeskTypeOK, BookTypeOK, BridgeTypeOK, busVars, bookVars,
     memoryVars, diskVars, clockVars, bridgeVars
<1> QED
  BY <1>2, <1>3, <1>4, <1>5, <1>6, <1>7 DEF ClientStep

\* What __init__ and an empty database start from is well typed.
LEMMA TypeInit == Init => TypeInv
<1> SUFFICES ASSUME Init PROVE TypeInv
  OBVIOUS
<1>1. <<>> \in Seq(Order) /\ <<>> \in Seq(Fill)
  OBVIOUS
<1>2. DeskTypeOK
  BY <1>1 DEF Init, DeskTypeOK, BookInit
<1>3. 0 \in 0..MaxDay /\ Cleared \in PositionFiles /\ NoSession \in SessionFiles
  BY DEF Cleared, NoSession, PositionFiles, SessionFiles
<1>4. BookTypeOK
  BY <1>3 DEF Init, BookInit, BookTypeOK, PositionFiles, SessionFiles
<1>5. BridgeTypeOK /\ Busy
  BY IdleType DEF Init, BridgeInit, BridgeTypeOK, Busy
<1>6. op \in [Books -> OpStates]
  BY DEF Init, OpStates
<1> QED
  BY <1>2, <1>4, <1>5, <1>6 DEF TypeInv, TypeOK

\* Every handler of the book, the bridge, the manager and the dashboard, and
\* every fault, keeps the types.
LEMMA TypeNext == TypeInv /\ [Next]_vars => TypeInv'
<1> SUFFICES ASSUME TypeInv, [Next]_vars PROVE TypeInv'
  OBVIOUS
<1> USE DEF TypeInv, TypeOK
<1>1. CASE BookStep
  <2>1. UNCHANGED <<clockVars, flagVars, bridgeVars, op>>
    BY <1>1 DEF BookStep
  <2>2. BookSideOK' /\ Grows
    <3>1. PICK b \in Books : Trade(b) \/ EndOfDay(b) \/ Quiet(b) \/ HandleFill(b)
      BY <1>1 DEF BookStep
    <3>2. CASE Trade(b)
      <4>1. ASSUME NEW k \in Pairs, OpenPosition(b, k) PROVE BookSideOK' /\ Grows
        BY <4>1, OpenPositionType
      <4>2. ASSUME NEW s \in Sides, NEW k \in Strikes, Roll(b, s, k) PROVE BookSideOK' /\ Grows
        BY <4>2, RollType
      <4>3. ASSUME NEW s \in Sides, RollNoPartner(b, s) PROVE BookSideOK' /\ Grows
        BY <4>3, RollNoPartnerType
      <4> QED
        BY <3>2, <4>1, <4>2, <4>3, ExitsType DEF Trade
    <3>3. CASE EndOfDay(b)
      BY <3>3, ExitsType
    <3>4. CASE Quiet(b)
      BY <3>4, QuietType
    <3>5. CASE HandleFill(b)
      BY <3>5, HandleFillType
    <3> QED
      BY <3>1, <3>2, <3>3, <3>4, <3>5
  <2> QED
    BY <2>1, <2>2, BookStepFrame
<1>2. CASE Bridge
  <2>1. BridgeSideOK'
    BY <1>2, BridgeStepType DEF Bridge
  <2> QED
    BY <1>2, <2>1 DEF Bridge, BridgeSideOK, DeskTypeOK, BookTypeOK, clockVars, flagVars,
       memoryVars, diskVars
<1>3. ASSUME NEW b \in Books, SpawnBook(b) PROVE TypeInv'
  BY <1>3, StartBookType, BookStepFrame DEF SpawnBook
<1>4. ASSUME NEW gone \in SUBSET Books, Forget(gone), orderQ' = orderQ,
             UNCHANGED <<clockVars, flagVars, bridgeVars, op>>
      PROVE  TypeInv'
  BY <1>4, ForgetType DEF Busy, DeskTypeOK, BridgeTypeOK, clockVars, flagVars, bridgeVars
<1>5. ASSUME NEW b \in Books, RemoveBook(b) PROVE TypeInv'
  BY <1>4, <1>5 DEF RemoveBook, StopBook
<1>6. CASE ManagerReadError
  BY <1>4, <1>6 DEF ManagerReadError
<1>7. ASSUME NEW b \in Books, ClientStep(b) PROVE TypeInv'
  BY <1>7, ClientStepType
<1>8. CASE SquareOffTime
  BY <1>8 DEF SquareOffTime, Busy, DeskTypeOK, BookTypeOK, BridgeTypeOK, busVars, bookVars,
     memoryVars, diskVars, flagVars, bridgeVars
<1>9. CASE NewDay
  BY <1>9 DEF NewDay, Busy, DeskTypeOK, BookTypeOK, BridgeTypeOK, busVars, bookVars,
     memoryVars, diskVars, flagVars, bridgeVars
<1>10. CASE Crash
  <2>1. Forget(Books) /\ orderQ' = <<>> /\ exec' = Idle
    BY <1>10 DEF Crash
  <2>2. fillQ' \in [Books -> Seq(Fill)] /\ running' \in [Books -> BOOLEAN] /\ BookTypeOK'
    BY <2>1, ForgetType
  <2>3. op' \in [Books -> OpStates]
    BY <1>10 DEF Crash, OpStates
  <2> QED
    BY <1>10, <2>1, <2>2, <2>3, IdleType
       DEF Crash, Busy, DeskTypeOK, BridgeTypeOK, clockVars, flagVars
<1>11. CASE UNCHANGED vars
  BY <1>11 DEF vars, Busy, DeskTypeOK, BookTypeOK, BridgeTypeOK, busVars, bookVars,
     memoryVars, diskVars, clockVars, flagVars, bridgeVars
<1> QED
  BY <1>1, <1>2, <1>3, <1>5, <1>6, <1>7, <1>8, <1>9, <1>10, <1>11 DEF Next

\* Type correctness: whatever books, faults and bounds, the bus, the books, the
\* files and the bridge keep to the records the code builds; in particular an
\* order always names two real strikes, and the bridge is never at work on an
\* order that is gone.
THEOREM TypeCorrect == Spec => []TypeOK
<1>1. Spec => []TypeInv
  BY TypeInit, TypeNext, PTL DEF Spec
<1>2. TypeInv => TypeOK
  BY DEF TypeInv
<1> QED
  BY <1>1, <1>2, PTL

----------------------------------------------------------------------------
(* The order the bridge works on *)

\* Where the books and the client leave the queue: an order in front stays there.
Behind == orderQ # <<>> => Head(orderQ') = Head(orderQ)

\* EventBus.publish appends: the order the bridge works on stays at the head.
LEMMA HeadAppend ==
  ASSUME NEW S, NEW q \in Seq(S), NEW x \in S, q # <<>>
  PROVE  Head(Append(q, x)) = Head(q)
OBVIOUS

\* No handler of a book gets in front of the order the bridge works on.
LEMMA HandlersBehind ==
  ASSUME DeskTypeOK, BookTypeOK, NEW b \in Books
  PROVE  /\ Trade(b) \/ EndOfDay(b) \/ Quiet(b) \/ HandleFill(b) => Behind
         /\ \A st \in BOOLEAN : ClosePosition(b, st) => Behind
<1>1. orderQ \in Seq(Order) /\ Sides \in Legs /\ \A s \in Sides : {s} \in Legs /\ {Other(s)} \in Legs
  BY DEF DeskTypeOK, Sides, Legs, Other
<1>2. ASSUME NEW o \in Order, PublishOrder(o) PROVE Behind
  BY <1>1, <1>2, HeadAppend DEF PublishOrder, Behind
<1>3. ASSUME NEW o1 \in Order, NEW o2 \in Order, orderQ' = Append(Append(orderQ, o1), o2)
      PROVE  Behind
  <2>1. Append(orderQ, o1) \in Seq(Order) /\ Append(orderQ, o1) # <<>>
    BY <1>1, AppendType
  <2>2. Head(Append(Append(orderQ, o1), o2)) = Head(Append(orderQ, o1))
    BY <2>1, HeadAppend
  <2>3. orderQ # <<>> => Head(Append(orderQ, o1)) = Head(orderQ)
    BY <1>1, HeadAppend
  <2> QED
    BY <1>3, <2>2, <2>3 DEF Behind
<1>4. ASSUME NEW st, ClosePosition(b, st) PROVE Behind
  <2>1. pos[b].strike \in Pairs
    BY <1>4, OpenIsPosition DEF ClosePosition
  <2> QED
    BY <1>1, <1>2, <1>4, <2>1, OrderType DEF ClosePosition
<1>5. ASSUME NEW k \in Pairs, OpenPosition(b, k) PROVE Behind
  BY <1>1, <1>2, <1>5, OrderType DEF OpenPosition
<1>6. ASSUME NEW s \in Sides, NEW k \in Strikes, Roll(b, s, k) PROVE Behind
  <2>1. pos[b] \in Position /\ pos[b].strike \in Pairs
    BY <1>6, OpenIsPosition DEF Roll, MayRoll
  <2>2. Rolled(pos[b], s, k).strike \in Pairs
    BY <2>1, RolledType
  <2> QED
    BY <1>1, <1>3, <1>6, <2>1, <2>2, OrderType DEF Roll, RollOrders
<1>7. ASSUME NEW s \in Sides, RollNoPartner(b, s) PROVE Behind
  <2>1. pos[b].strike \in Pairs
    BY <1>7, OpenIsPosition DEF RollNoPartner, MayRoll
  <2> QED
    BY <1>1, <1>3, <1>7, <2>1, OrderType DEF RollNoPartner, CleanupOrders
<1>8. Trade(b) \/ EndOfDay(b) => Behind
  BY <1>4, <1>5, <1>6, <1>7 DEF Trade, EndOfDay, ExitAndReenter, ExitForDay, EodTick, EodCandle
<1>9. Quiet(b) \/ HandleFill(b) => orderQ' = orderQ
  BY DEF Quiet, CheckTerminal, WarmUpEnds, CooldownEnds, ResetSession, QuietCandle, busVars,
     HandleFill, EntryFilled, EntryAborted, ExitFilled, TakeFill
<1> QED
  BY <1>4, <1>8, <1>9 DEF Behind

\* Only the bridge, and a crash, take the order the bridge works on away.
LEMMA OthersBehind ==
  ASSUME TypeInv, [Next]_vars
  PROVE  Bridge \/ Crash \/ (Behind /\ UNCHANGED bridgeVars)
<1> USE DEF TypeInv, TypeOK
<1>1. ASSUME NEW b \in Books, SquareOffBinding(b) PROVE Behind
  BY <1>1, HandlersBehind DEF SquareOffBinding, SquareOff, busVars, Behind
<1>2. CASE BookStep
  BY <1>2, HandlersBehind DEF BookStep
<1>3. ASSUME NEW b \in Books, ClientStep(b) PROVE Behind /\ UNCHANGED bridgeVars
  BY <1>1, <1>3 DEF ClientStep, RunOff, RunCleared, TerminalOff, DisconnectSquareOff, RunOn,
     TerminalOn, busVars, Behind
<1>4. ASSUME NEW b \in Books, SpawnBook(b) \/ RemoveBook(b) PROVE Behind /\ UNCHANGED bridgeVars
  BY <1>4 DEF SpawnBook, StartBook, RemoveBook, StopBook, busVars, Behind
<1>5. CASE ManagerReadError \/ SquareOffTime \/ NewDay \/ UNCHANGED vars
  BY <1>5 DEF ManagerReadError, SquareOffTime, NewDay, vars, busVars, Behind
<1> QED
  BY <1>2, <1>3, <1>4, <1>5 DEF Next

----------------------------------------------------------------------------
(* Aborted entries *)

\* While the legs are squared, each of them is off by what was read of it and is
\* still to be bought back, and by what the exchange has traded since.
Squaring ==
  exec.phase = "squaring" =>
    \A s \in Current.legs : net[Current.book][s][Current.strikes[s]]
                              = exec.missed[s] + (IF s \in exec.todo THEN exec.seen[s] ELSE 0)

AbortInv == TypeInv /\ Squaring

\* The positions are read of every leg, each is squared by what was read, and what
\* else moves a leg is a fill of the exchange.
LEMMA AbortStep ==
  ASSUME "reconcile_fails" \notin Faults, AbortInv, [Next]_vars
  PROVE  AbortInv'
<1>1. TypeInv /\ TypeInv'
  BY TypeNext DEF AbortInv
<1>2. exec \in Exec /\ (exec.phase # "idle" => orderQ # <<>>) /\ DeskTypeOK
  BY <1>1 DEF TypeInv, TypeOK, BridgeTypeOK, Busy
<1>3. SUFFICES ASSUME exec'.phase = "squaring", NEW s \in Current'.legs
               PROVE  net'[Current'.book][s][Current'.strikes[s]]
                        = exec'.missed[s] + (IF s \in exec'.todo THEN exec'.seen[s] ELSE 0)
  BY <1>1 DEF AbortInv, Squaring
<1>4. CASE Behind /\ UNCHANGED bridgeVars
  BY <1>2, <1>3, <1>4 DEF Behind, bridgeVars, AbortInv, Squaring, Current
<1>5. CASE Crash
  BY <1>3, <1>5 DEF Crash, Idle
<1>6. CASE Bridge
  <2>1. ~(DropUnrouted \/ PaperFill \/ ConfirmFill \/ AbortEntry)
    BY <1>3, IdleType DEF DropUnrouted, PaperFill, ConfirmFill, AbortEntry, Finish
  <2>1a. ~StartLive
    BY <1>3, IdleType DEF StartLive, Exec
  <2>2. ASSUME NEW t \in Sides, NEW q \in 0..Qty, NEW r \in 0..Qty, LegDone(t, q, r) PROVE FALSE
    BY <1>2, <1>3, <2>2 DEF LegDone, Exec
  <2>3. ASSUME NEW t \in Sides, FlattenLeg(t) PROVE FALSE
    BY <1>2, <1>3, <2>3 DEF FlattenLeg, Exec
  <2>4. ~StartFlatten /\ ~CancelResting
    BY <1>2, <1>3 DEF StartFlatten, CancelResting, Exec
  <2>5. exec.phase \in {"settling", "squaring"} =>
          /\ Current \in Order /\ Current.book \in Books /\ Current.legs \subseteq Sides
          /\ Current.strikes \in Pairs
    BY <1>2, CurrentType DEF Order
  <2>6. net \in [Books -> [Sides -> [Strikes -> Int]]]
    BY <1>1 DEF TypeInv, TypeOK, BridgeTypeOK
  <2>7. CASE ReadPositions
    <3>1. /\ Current' = Current /\ net' = net /\ exec.phase = "settling"
          /\ exec' = [Idle EXCEPT !.phase = "squaring",
                        !.seen = [i \in Sides |-> PositionOf(Current, i)],
                        !.todo = {i \in Sides : PositionOf(Current, i) # 0}]
      BY <2>7 DEF ReadPositions, busVars, Current
    <3>2. s \in Current.legs /\ s \in Sides /\ Current.strikes[s] \in Strikes
      BY <1>3, <2>5, <3>1 DEF Pairs
    <3>3. /\ exec'.missed[s] = 0 /\ exec'.seen[s] = net[Current.book][s][Current.strikes[s]]
          /\ s \in exec'.todo <=> exec'.seen[s] # 0
      BY <3>1, <3>2, IdleType DEF Idle, Nothing, PositionOf
    <3> QED
      BY <2>5, <2>6, <3>1, <3>2, <3>3
  <2>8. ASSUME NEW t \in Sides, SquareLeg(t)
        PROVE  net'[Current'.book][s][Current'.strikes[s]]
                 = exec'.missed[s] + (IF s \in exec'.todo THEN exec'.seen[s] ELSE 0)
    <3>1. /\ Current' = Current /\ exec.phase = "squaring" /\ t \in exec.todo
          /\ net' = Traded(Current, t, -exec.seen[t]) /\ exec' = [exec EXCEPT !.todo = @ \ {t}]
      BY <2>8 DEF SquareLeg, busVars, Current
    <3>2. /\ s \in Current.legs /\ s \in Sides
          /\ Current.strikes[s] \in Strikes /\ Current.strikes[t] \in Strikes
      BY <1>3, <2>5, <3>1 DEF Pairs
    <3>3. /\ exec'.missed = exec.missed /\ exec'.seen = exec.seen /\ exec'.todo = exec.todo \ {t}
          /\ exec.missed[s] \in Int /\ exec.seen[s] \in Int /\ exec.seen[t] \in Int
      BY <1>2, <3>1, <3>2 DEF Exec
    <3>4. net[Current.book][s][Current.strikes[s]]
            = exec.missed[s] + (IF s \in exec.todo THEN exec.seen[s] ELSE 0)
      BY <3>1, <3>2 DEF AbortInv, Squaring
    <3>5. CASE s = t
      <4>1. net'[Current.book][s][Current.strikes[s]]
              = net[Current.book][s][Current.strikes[s]] + (-exec.seen[s])
        BY <2>5, <2>6, <3>1, <3>2, <3>5 DEF Traded
      <4> QED
        BY <3>1, <3>3, <3>4, <3>5, <4>1
    <3>6. CASE s # t
      <4>1. net'[Current.book][s][Current.strikes[s]] = net[Current.book][s][Current.strikes[s]]
        BY <2>5, <2>6, <3>1, <3>2, <3>6 DEF Traded
      <4> QED
        BY <3>1, <3>3, <3>4, <3>6, <4>1
    <3> QED
      BY <3>5, <3>6
  <2>9. ASSUME NEW t \in Tickets, NEW q \in 1..resting[t], LateFill(t, q)
        PROVE  net'[Current'.book][s][Current'.strikes[s]]
                 = exec'.missed[s] + (IF s \in exec'.todo THEN exec'.seen[s] ELSE 0)
    <3> DEFINE d == Shorter(t, q)
               mine == t.side \in Current.legs /\ t = Ticket(Current, t.side, t.way)
    <3>1. /\ Current' = Current
          /\ net' = [net EXCEPT ![t.book][t.side][t.strike] = @ + d]
          /\ exec' = IF exec.phase = "squaring" /\ mine
                       THEN [exec EXCEPT !.missed[t.side] = @ + d] ELSE exec
      BY <2>9 DEF LateFill, busVars, Current
    <3>2. exec.phase = "squaring"
      BY <1>2, <1>3, <3>1 DEF Exec
    <3>3. /\ s \in Current.legs /\ s \in Sides /\ Current.strikes[s] \in Strikes
          /\ t.book \in Books /\ t.side \in Sides /\ t.strike \in Strikes
      BY <1>3, <2>5, <3>1, <3>2 DEF Pairs, Tickets
    <3>4. d \in Int
      <4>1. resting[t] \in Nat
        BY <1>1 DEF TypeInv, TypeOK, BridgeTypeOK
      <4> QED
        BY <4>1 DEF Shorter
    <3>5. mine <=> /\ t.side \in Current.legs /\ t.book = Current.book
                   /\ t.strike = Current.strikes[t.side]
      BY DEF Ticket, Tickets
    <3>6. /\ exec.missed[s] \in Int /\ exec.seen[s] \in Int
          /\ exec.missed \in [Sides -> Int]
      BY <1>2, <3>3 DEF Exec
    <3>7. net[Current.book][s][Current.strikes[s]]
            = exec.missed[s] + (IF s \in exec.todo THEN exec.seen[s] ELSE 0)
      BY <3>2, <3>3 DEF AbortInv, Squaring
    <3> HIDE DEF d, mine
    <3>8. CASE mine /\ t.side = s
      <4>1. net'[Current.book][s][Current.strikes[s]] = net[Current.book][s][Current.strikes[s]] + d
        BY <2>5, <2>6, <3>1, <3>2, <3>3, <3>5, <3>8
      <4>2. /\ exec'.missed[s] = exec.missed[s] + d
            /\ exec'.todo = exec.todo /\ exec'.seen = exec.seen
        BY <1>2, <3>1, <3>2, <3>3, <3>6, <3>8 DEF Exec
      <4> QED
        BY <3>1, <3>4, <3>6, <3>7, <4>1, <4>2
    <3>9. CASE ~(mine /\ t.side = s)
      <4>1. net'[Current.book][s][Current.strikes[s]] = net[Current.book][s][Current.strikes[s]]
        BY <2>5, <2>6, <3>1, <3>2, <3>3, <3>5, <3>9
      <4>2. /\ exec'.missed[s] = exec.missed[s]
            /\ exec'.todo = exec.todo /\ exec'.seen = exec.seen
        BY <1>2, <3>1, <3>2, <3>3, <3>6, <3>9 DEF Exec
      <4> QED
        BY <3>1, <3>6, <3>7, <4>1, <4>2
    <3> QED
      BY <3>8, <3>9
  <2> QED
    BY <1>6, <2>1, <2>1a, <2>2, <2>3, <2>4, <2>7, <2>8, <2>9 DEF Bridge, BridgeStep
<1> QED
  BY <1>1, <1>4, <1>5, <1>6, OthersBehind

\* _reconcile_flat: where the broker's positions can be read and squared, an aborted
\* entry leaves its legs off only by what the exchange traded after the reading,
\* whatever the legs reported, rested or filled before it, during the squaring, or
\* after the flatten orders that were rejected or filled late.
THEOREM AbortLeavesFlatTheorem ==
  ASSUME "reconcile_fails" \notin Faults PROVE Spec => []AbortLeavesFlat
<1>1. Init => AbortInv
  BY TypeInit DEF Init, BridgeInit, Idle, AbortInv, Squaring
<1>2. AbortInv /\ [Next]_vars => AbortInv'
  BY AbortStep
<1>3. AbortInv => AbortLeavesFlat
  <2> SUFFICES ASSUME AbortInv, exec.phase = "squaring", exec.todo = {}, NEW s \in Current.legs
               PROVE  net[Current.book][s][Current.strikes[s]] = exec.missed[s]
    BY DEF AbortLeavesFlat
  <2>1. orderQ # <<>> /\ DeskTypeOK /\ exec \in Exec
    BY DEF AbortInv, TypeInv, TypeOK, BridgeTypeOK, Busy
  <2>2. exec.missed[s] \in Int
    BY <2>1, CurrentType DEF Exec
  <2> QED
    BY <2>2 DEF AbortInv, Squaring
<1> QED
  BY <1>1, <1>2, <1>3, PTL DEF Spec

----------------------------------------------------------------------------
(* Files and memory *)

\* Within a session a candle never finds a session of another day.
StoreInv ==
  /\ TypeInv
  /\ StoreMatches
  /\ \A b \in Books : sday[b] \in {0, day}

\* _persist follows the change of _position.
LEMMA PersistMatches ==
  ASSUME StoreInv, NEW b \in Books, NEW p \in Position \cup {NoPosition},
         pos' = [pos EXCEPT ![b] = p], store' = [store EXCEPT ![b] = PositionFile(p)],
         running' = running
  PROVE  StoreMatches'
<1>1. pos \in [Books -> Position \cup {NoPosition}] /\ store \in [Books -> PositionFiles]
  BY DEF StoreInv, TypeInv, TypeOK, BookTypeOK, PositionFiles
<1>2. PositionFile(p).pos = p
  BY DEF PositionFile, Cleared
<1>3. pos'[b] = p /\ store'[b] = PositionFile(p)
  BY <1>1
<1>4. \A c \in Books \ {b} : pos'[c] = pos[c] /\ store'[c] = store[c]
  BY <1>1
<1> QED
  BY <1>2, <1>3, <1>4 DEF StoreMatches, StoreInv

\* A handler that changes the position of its book has its file follow.
LEMMA HandlerMatches ==
  ASSUME StoreInv, NEW b \in Books
  PROVE  /\ Trade(b) \/ EndOfDay(b) \/ HandleFill(b) => StoreMatches'
         /\ \A st \in BOOLEAN : ClosePosition(b, st) => StoreMatches'
<1>1. DeskTypeOK /\ BookTypeOK
  BY DEF StoreInv, TypeInv, TypeOK
<1>2. ASSUME NEW st, ClosePosition(b, st) PROVE StoreMatches'
  BY <1>2, PersistMatches DEF ClosePosition, Persist, Sets, PositionFile
<1>3. ASSUME NEW k \in Pairs, OpenPosition(b, k) PROVE StoreMatches'
  <2> DEFINE p == [strike |-> k, sold |-> k]
  <2>1. p \in Position \cup {NoPosition}
    BY DEF Position
  <2>2. pos' = [pos EXCEPT ![b] = p] /\ store' = [store EXCEPT ![b] = PositionFile(p)]
        /\ running' = running
    BY <1>3 DEF OpenPosition, Persist, Sets, PositionFile
  <2> HIDE DEF p
  <2> QED
    BY <2>1, <2>2, PersistMatches
<1>4. ASSUME NEW s \in Sides, NEW k \in Strikes, Roll(b, s, k) PROVE StoreMatches'
  <2> DEFINE p == Rolled(pos[b], s, k)
  <2>1. p \in Position \cup {NoPosition}
    <3>1. pos[b] \in Position
      BY <1>1, <1>4, OpenIsPosition DEF Roll, MayRoll
    <3> QED
      BY <3>1, RolledType
  <2>2. pos' = [pos EXCEPT ![b] = p] /\ store' = [store EXCEPT ![b] = PositionFile(p)]
        /\ running' = running
    BY <1>4 DEF Roll, Persist, Sets, PositionFile
  <2> HIDE DEF p
  <2> QED
    BY <2>1, <2>2, PersistMatches
<1>5. ASSUME NEW s \in Sides, RollNoPartner(b, s) PROVE StoreMatches'
  BY <1>5, PersistMatches DEF RollNoPartner, Persist, Sets, PositionFile
<1>6. CASE EntryFilled(b) /\ pos[b] # NoPosition
  <2> DEFINE p == Adopt(pos[b], Head(fillQ[b]))
  <2>1. p \in Position \cup {NoPosition}
    <3>1. pos[b] \in Position
      BY <1>1, <1>6, OpenIsPosition
    <3>2. TakeFill(b)
      BY <1>6 DEF EntryFilled
    <3>3. Head(fillQ[b]) \in Fill
      BY <1>1, <3>2, TakeFillType
    <3> QED
      BY <3>1, <3>3, AdoptType
  <2>2. pos' = [pos EXCEPT ![b] = p] /\ store' = [store EXCEPT ![b] = PositionFile(p)]
        /\ running' = running
    BY <1>6 DEF EntryFilled, TakeFill, Persist, Sets, PositionFile
  <2> HIDE DEF p
  <2> QED
    BY <2>1, <2>2, PersistMatches
<1>7. CASE EntryAborted(b)
  BY <1>7, PersistMatches DEF EntryAborted, TakeFill, Persist, Sets, PositionFile
<1>8. CASE ExitFilled(b) \/ (EntryFilled(b) /\ pos[b] = NoPosition)
  BY <1>8 DEF ExitFilled, EntryFilled, TakeFill, diskVars, StoreInv, StoreMatches
<1>9. Trade(b) \/ EndOfDay(b) => StoreMatches'
  BY <1>2, <1>3, <1>4, <1>5 DEF Trade, EndOfDay, ExitAndReenter, ExitForDay, EodTick, EodCandle
<1>10. HandleFill(b) => StoreMatches'
  BY <1>6, <1>7, <1>8 DEF HandleFill
<1> QED
  BY <1>2, <1>9, <1>10

\* No handler moves a book into a session of another day.
LEMMA HandlerSession ==
  ASSUME StoreInv, NEW b \in Books
  PROVE  Trade(b) \/ EndOfDay(b) \/ Quiet(b) \/ HandleFill(b) =>
           \A c \in Books : sday'[c] \in {sday[c], 0, day}
<1>1. sday \in [Books -> 0..MaxDay]
  BY DEF StoreInv, TypeInv, TypeOK, BookTypeOK
<1>2. Trade(b) \/ HandleFill(b) => sday' = sday
  BY DEF Trade, OpenPosition, Roll, RollNoPartner, ExitAndReenter, ExitForDay, HandleFill,
     EntryFilled, EntryAborted, ExitFilled, TakeFill
<1>3. EndOfDay(b) \/ Quiet(b) => sday' = sday \/ sday' = [sday EXCEPT ![b] = day]
  BY DEF EndOfDay, EodTick, EodCandle, Quiet, CheckTerminal, WarmUpEnds, CooldownEnds,
     ResetSession, QuietCandle, Sets
<1> QED
  BY <1>1, <1>2, <1>3

\* As long as no new session begins, every step keeps file and memory together.
LEMMA StoreStep ==
  ASSUME "new_day" \notin Faults, StoreInv, [Next]_vars
  PROVE  StoreInv'
<1> USE DEF TypeInv, TypeOK
<1>1. TypeInv'
  BY TypeNext DEF StoreInv
<1>2. ASSUME UNCHANGED <<running, pos, store, sday, day>> PROVE StoreInv'
  BY <1>1, <1>2 DEF StoreInv, StoreMatches
<1>3. CASE BookStep
  <2>1. PICK b \in Books : Trade(b) \/ EndOfDay(b) \/ Quiet(b) \/ HandleFill(b)
    BY <1>3 DEF BookStep
  <2>2. \A c \in Books : sday'[c] \in {0, day'}
    <3>1. day' = day
      BY <1>3 DEF BookStep, clockVars
    <3> QED
      BY <2>1, <3>1, HandlerSession DEF StoreInv
  <2>3. CASE Quiet(b)
    <3>1. ~ResetSession(b)
      BY DEF ResetSession, StoreInv
    <3>2. UNCHANGED <<running, pos, store>>
      BY <2>3, <3>1 DEF Quiet, CheckTerminal, WarmUpEnds, CooldownEnds, QuietCandle, diskVars
    <3> QED
      BY <1>1, <2>2, <3>2 DEF StoreInv, StoreMatches
  <2> QED
    BY <1>1, <2>1, <2>2, <2>3, HandlerMatches DEF StoreInv
<1>4. CASE Bridge
  BY <1>2, <1>4 DEF Bridge, memoryVars, diskVars, clockVars
<1>5. ASSUME NEW b \in Books, SpawnBook(b) PROVE StoreInv'
  <2>1. /\ UNCHANGED <<sday, day>>
        /\ running' = [running EXCEPT ![b] = TRUE]
        /\ pos' = [pos EXCEPT ![b] = Saved(b)]
        /\ store' = [store EXCEPT ![b] = IF Saved(b) = NoPosition THEN Cleared ELSE store[b]]
    BY <1>5 DEF SpawnBook, StartBook, Sets, clockVars
  <2>2. pos \in [Books -> Position \cup {NoPosition}] /\ store \in [Books -> PositionFiles]
        /\ running \in [Books -> BOOLEAN]
    BY DEF StoreInv, DeskTypeOK, BookTypeOK, PositionFiles
  <2>3. pos'[b] = store'[b].pos
    BY <2>1, <2>2 DEF Saved, Cleared
  <2>4. \A c \in Books \ {b} : pos'[c] = pos[c] /\ store'[c] = store[c] /\ running'[c] = running[c]
    BY <2>1, <2>2
  <2> QED
    BY <1>1, <2>1, <2>3, <2>4 DEF StoreInv, StoreMatches
<1>6. ASSUME NEW gone \in SUBSET Books, Forget(gone), day' = day PROVE StoreInv'
  <2>1. store' = store /\ \A b \in Books : /\ running'[b] => running[b] /\ pos'[b] = pos[b]
                                           /\ sday'[b] \in {0, sday[b]}
    BY <1>6 DEF Forget, diskVars
  <2> QED
    BY <1>1, <1>6, <2>1 DEF StoreInv, StoreMatches
<1>7. ASSUME NEW b \in Books, RemoveBook(b) PROVE StoreInv'
  BY <1>6, <1>7 DEF RemoveBook, StopBook, clockVars
<1>8. CASE ManagerReadError \/ Crash
  BY <1>6, <1>8 DEF ManagerReadError, Crash, clockVars
<1>9. ASSUME NEW b \in Books, ClientStep(b) PROVE StoreInv'
  <2>1. day' = day
    BY <1>9 DEF ClientStep, RunOff, RunCleared, TerminalOff, DisconnectSquareOff, RunOn, TerminalOn,
       clockVars
  <2>2. CASE SquareOff(b)
    <3>1. StoreMatches' /\ sday' = sday
      BY <2>2, HandlerMatches DEF SquareOff
    <3> QED
      BY <1>1, <2>1, <3>1 DEF StoreInv
  <2>3. SquareOff(b) \/ UNCHANGED <<running, pos, store, sday>>
    BY <1>9 DEF ClientStep, RunOff, RunCleared, TerminalOff, DisconnectSquareOff, RunOn, TerminalOn,
       SquareOffBinding, bookVars, memoryVars, diskVars
  <2> QED
    BY <1>2, <2>1, <2>2, <2>3
<1>10. CASE SquareOffTime \/ UNCHANGED vars
  BY <1>2, <1>10 DEF SquareOffTime, vars, bookVars, memoryVars, diskVars, clockVars
<1>11. ~NewDay
  BY DEF NewDay
<1> QED
  BY <1>3, <1>4, <1>5, <1>7, <1>8, <1>9, <1>10, <1>11 DEF Next

\* _persist: as long as no new session begins under a running book, the file a
\* restart would read is the position in memory, whatever orders are dropped,
\* aborted or filled late, and whoever stops the book or the process.
THEOREM StoreMatchesTheorem ==
  ASSUME "new_day" \notin Faults PROVE Spec => []StoreMatches
<1>1. Init => StoreInv
  BY TypeInit DEF Init, BookInit, StoreInv, StoreMatches
<1>2. StoreInv /\ [Next]_vars => StoreInv'
  BY StoreStep
<1>3. StoreInv => StoreMatches
  BY DEF StoreInv
<1> QED
  BY <1>1, <1>2, <1>3, PTL DEF Spec

----------------------------------------------------------------------------
(* Entry prices *)

\* A desk of one book that is started once and whose orders all reach their
\* broker: PricedOwn is about such a desk.
Undisturbed ==
  /\ \A b, c \in Books : b = c
  /\ Faults \cap {"manager_read_error", "bridge_read_error", "run_off", "terminal_off", "crash"} = {}

\* Order or fill e sets the entry price of side s.
Prices(e, s) == e.action = "ENTRY" /\ s \in e.legs

None(q, s) == \A i \in 1..Len(q) : ~Prices(q[i], s)

\* The last of q that sets the price of side s sets it to that of strike k.
LastAt(q, s, k) ==
  \A i \in 1..Len(q) :
    Prices(q[i], s) /\ (\A j \in (i+1)..Len(q) : ~Prices(q[j], s)) => q[i].strikes[s] = k

\* An aborted entry is among the fills: it will drop the position.
Dropping(q) == \E i \in 1..Len(q) : q[i].action = "ENTRY" /\ q[i].aborted

\* Side s of position p will have the price of the strike it is at, once the
\* fills fs and then the orders os have set their prices.
PriceComes(p, os, fs, s) ==
  /\ LastAt(os, s, p.strike[s])
  /\ None(os, s) => LastAt(fs, s, p.strike[s])
  /\ None(os, s) /\ None(fs, s) => p.sold[s] = p.strike[s]

PricesSettle(b) ==
  pos[b] # NoPosition /\ ~Dropping(fillQ[b]) =>
    \A s \in Sides : PriceComes(pos[b], orderQ, fillQ[b], s)

\* The switches are left alone, so that a book is started once, with no position.
StartsOnce ==
  /\ \A b \in Books : run[b] /\ terminal[b] /\ op[b] = "none"
  /\ \A b \in Books : ~running[b] => pos[b] = NoPosition /\ store[b].pos = NoPosition

PriceInv == TypeInv /\ StartsOnce /\ \A b \in Books : PricesSettle(b)

\* One more order or fill has the last word if it sets a price.
LEMMA PriceAppended ==
  ASSUME NEW S, NEW q \in Seq(S), NEW e \in S, NEW s, NEW k
  PROVE  /\ None(Append(q, e), s) <=> None(q, s) /\ ~Prices(e, s)
         /\ Prices(e, s) => (LastAt(Append(q, e), s, k) <=> e.strikes[s] = k)
         /\ ~Prices(e, s) /\ LastAt(q, s, k) => LastAt(Append(q, e), s, k)
<1> DEFINE t == Append(q, e)
           n == Len(q)
<1>1. /\ n \in Nat /\ Len(t) = n + 1 /\ t[n + 1] = e /\ \A i \in 1..n : t[i] = q[i]
  OBVIOUS
<1> HIDE DEF t, n
<1>2. /\ n + 1 \in 1..(n + 1) /\ \A i \in 1..n : i \in 1..(n + 1)
      /\ \A i \in 1..(n + 1) : i \in 1..n \/ i = n + 1
      /\ \A i \in 1..n : n + 1 \in (i+1)..(n + 1)
      /\ \A j \in (n + 2)..(n + 1) : FALSE
  BY <1>1
<1>3. None(t, s) <=> None(q, s) /\ ~Prices(e, s)
  BY <1>1, <1>2 DEF None, n
<1>4. ASSUME Prices(e, s) PROVE LastAt(t, s, k) <=> e.strikes[s] = k
  <2>1. LastAt(t, s, k) => e.strikes[s] = k
    <3>1. \A j \in (n + 1 + 1)..(n + 1) : ~Prices(t[j], s)
      BY <1>1
    <3> QED
      BY <1>1, <1>2, <1>4, <3>1 DEF LastAt
  <2>2. ASSUME e.strikes[s] = k, NEW i \in 1..(n + 1),
               \A j \in (i+1)..(n + 1) : ~Prices(t[j], s)
        PROVE  t[i].strikes[s] = k
    BY <1>1, <1>2, <1>4, <2>2
  <2> QED
    BY <1>1, <2>1, <2>2 DEF LastAt
<1>5. ASSUME ~Prices(e, s), LastAt(q, s, k), NEW i \in 1..(n + 1), Prices(t[i], s),
             \A j \in (i+1)..(n + 1) : ~Prices(t[j], s)
      PROVE  t[i].strikes[s] = k
  <2>1. i \in 1..n /\ t[i] = q[i]
    BY <1>1, <1>2, <1>5
  <2>2. \A j \in (i+1)..n : j \in (i+1)..(n + 1) /\ t[j] = q[j]
    BY <1>1, <2>1
  <2> QED
    BY <1>5, <2>1, <2>2 DEF LastAt, n
<1> QED
  BY <1>1, <1>3, <1>4, <1>5 DEF LastAt, t

\* The first order or fill counts only where none after it sets a price.
LEMMA PriceTaken ==
  ASSUME NEW S, NEW q \in Seq(S), q # <<>>, NEW s, NEW k
  PROVE  /\ None(q, s) <=> None(Tail(q), s) /\ ~Prices(Head(q), s)
         /\ LastAt(q, s, k) => LastAt(Tail(q), s, k)
         /\ LastAt(q, s, k) /\ None(Tail(q), s) /\ Prices(Head(q), s) => Head(q).strikes[s] = k
<1> DEFINE t == Tail(q)
           n == Len(q)
<1>1. /\ n \in Nat /\ n > 0 /\ Len(t) = n - 1 /\ Head(q) = q[1]
      /\ \A i \in 1..(n - 1) : t[i] = q[i + 1]
  OBVIOUS
<1> HIDE DEF t, n
<1>2. /\ \A i \in 1..(n - 1) : i + 1 \in 1..n
      /\ \A i \in 2..n : i - 1 \in 1..(n - 1) /\ q[i] = t[i - 1]
      /\ 1 \in 1..n /\ \A i \in 1..n : i = 1 \/ i \in 2..n
  <2>1. \A i \in 2..n : i - 1 \in 1..(n - 1) /\ (i - 1) + 1 = i
    BY <1>1
  <2> QED
    BY <1>1, <2>1
<1>3. None(q, s) <=> None(t, s) /\ ~Prices(Head(q), s)
  BY <1>1, <1>2 DEF None, n
<1>4. ASSUME LastAt(q, s, k), NEW i \in 1..(n - 1), Prices(t[i], s),
             \A j \in (i+1)..(n - 1) : ~Prices(t[j], s)
      PROVE  t[i].strikes[s] = k
  <2>1. i + 1 \in 1..n /\ t[i] = q[i + 1]
    BY <1>1, <1>2
  <2>2. ASSUME NEW j \in (i+1+1)..n PROVE ~Prices(q[j], s)
    <3>1. j - 1 \in (i+1)..(n - 1) /\ j \in 2..n
      BY <1>1, <2>1
    <3> QED
      BY <1>2, <1>4, <3>1
  <2> QED
    BY <1>4, <2>1, <2>2 DEF LastAt, n
<1>5. ASSUME LastAt(q, s, k), None(t, s), Prices(Head(q), s)
      PROVE  Head(q).strikes[s] = k
  <2>1. \A j \in (1+1)..n : ~Prices(q[j], s)
    BY <1>1, <1>2, <1>5 DEF None
  <2> QED
    BY <1>1, <1>2, <1>5, <2>1 DEF LastAt, n
<1> QED
  BY <1>1, <1>3, <1>4, <1>5 DEF LastAt, t

\* A new position's prices come with its own entry.
LEMMA PriceOpens ==
  ASSUME PriceInv, NEW b \in Books, NEW k \in Pairs, OpenPosition(b, k)
  PROVE  PricesSettle(b)'
<1> DEFINE p == [strike |-> k, sold |-> k]
           e == EntryOrder(b, Sides, k)
<1>1. orderQ \in Seq(Order) /\ e \in Order /\ pos \in [Books -> Position \cup {NoPosition}]
  BY OrderType DEF PriceInv, TypeInv, TypeOK, DeskTypeOK, BookTypeOK, Legs, Sides
<1>2. orderQ' = Append(orderQ, e) /\ pos' = [pos EXCEPT ![b] = p]
  BY DEF OpenPosition, PublishOrder, Sets
<1>3. pos'[b] = p /\ p.strike = k
  BY <1>1, <1>2
<1>4. \A s \in Sides : Prices(e, s) /\ e.strikes[s] = k[s]
  BY DEF EntryOrder, Prices
<1> HIDE DEF p, e
<1>5. \A s \in Sides : LastAt(orderQ', s, k[s]) /\ ~None(orderQ', s)
  BY <1>1, <1>2, <1>4, PriceAppended
<1> QED
  BY <1>3, <1>5 DEF PricesSettle, PriceComes

\* A roll leaves the other side alone; the side it moves gets its price with the
\* entry that is queued last.
LEMMA PriceRolls ==
  ASSUME PriceInv, NEW b \in Books, NEW s \in Sides, NEW k \in Strikes, Roll(b, s, k)
  PROVE  PricesSettle(b)'
<1> DEFINE p == Rolled(pos[b], s, k)
           x == ExitOrder(b, {s}, pos[b].strike)
           e == EntryOrder(b, {s}, p.strike)
           q == Append(orderQ, x)
<1>1. /\ pos[b] \in Position /\ pos[b] # NoPosition /\ pos[b].strike \in Pairs
      /\ pos \in [Books -> Position \cup {NoPosition}] /\ orderQ \in Seq(Order)
  BY OpenIsPosition DEF PriceInv, TypeInv, TypeOK, DeskTypeOK, BookTypeOK, Roll, MayRoll
<1>2. x \in Order /\ e \in Order /\ p \in Position
  BY <1>1, OrderType, RolledType DEF Legs, Sides
<1>3. orderQ' = Append(q, e) /\ pos'[b] = p /\ fillQ' = fillQ
  BY <1>1 DEF Roll, RollOrders, Sets
<1>4. /\ p.strike[s] = k
      /\ \A r \in Sides \ {s} : p.strike[r] = pos[b].strike[r] /\ p.sold[r] = pos[b].sold[r]
  BY <1>1 DEF Rolled, Position, Pairs
<1>5. /\ \A r \in Sides : ~Prices(x, r)
      /\ Prices(e, s) /\ e.strikes = p.strike /\ \A r \in Sides \ {s} : ~Prices(e, r)
  BY DEF ExitOrder, EntryOrder, Prices
<1>6. q \in Seq(Order)
  BY <1>1, <1>2
<1> HIDE DEF p, x, e
<1>7. \A r \in Sides : /\ None(q, r) <=> None(orderQ, r)
                       /\ \A j : LastAt(orderQ, r, j) => LastAt(q, r, j)
  BY <1>1, <1>2, <1>5, PriceAppended
<1> HIDE DEF q
<1>8. LastAt(orderQ', s, k) /\ ~None(orderQ', s)
  BY <1>2, <1>3, <1>4, <1>5, <1>6, PriceAppended
<1>9. \A r \in Sides \ {s} : /\ None(orderQ', r) <=> None(q, r)
                             /\ \A j : LastAt(q, r, j) => LastAt(orderQ', r, j)
  BY <1>2, <1>3, <1>5, <1>6, PriceAppended
<1>10. ASSUME ~Dropping(fillQ[b]), NEW r \in Sides
       PROVE  PriceComes(p, orderQ', fillQ[b], r)
  <2>1. PriceComes(pos[b], orderQ, fillQ[b], r)
    BY <1>1, <1>10 DEF PriceInv, PricesSettle
  <2>2. CASE r = s
    BY <1>4, <1>8, <2>2 DEF PriceComes
  <2>3. CASE r # s
    BY <1>4, <1>7, <1>9, <2>1, <2>3 DEF PriceComes
  <2> QED
    BY <2>2, <2>3
<1> QED
  BY <1>3, <1>10 DEF PricesSettle

\* A fill leaves the queue and its prices enter the position.
LEMMA PriceAdopted ==
  ASSUME PriceInv, NEW b \in Books, HandleFill(b)
  PROVE  PricesSettle(b)'
<1> DEFINE f == Head(fillQ[b])
           F == fillQ[b]
<1>1. /\ TakeFill(b)
      /\ pos \in [Books -> Position \cup {NoPosition}] /\ F \in Seq(Fill) /\ F # <<>>
  BY DEF HandleFill, EntryFilled, EntryAborted, ExitFilled, TakeFill,
         PriceInv, TypeInv, TypeOK, DeskTypeOK, BookTypeOK
<1>2. fillQ'[b] = Tail(F) /\ orderQ' = orderQ
  <2>1. fillQ \in [Books -> Seq(Fill)]
    BY DEF PriceInv, TypeInv, TypeOK, DeskTypeOK
  <2> QED
    BY <1>1, <2>1 DEF TakeFill
<1> HIDE DEF F
<1>3. f \in Fill
  BY <1>1, TakeFillType DEF PriceInv, TypeInv, TypeOK, F
<1>4. ASSUME ~(f.action = "ENTRY" /\ f.aborted), Dropping(F) PROVE Dropping(Tail(F))
  <2>1. PICK i \in 1..Len(F) : F[i].action = "ENTRY" /\ F[i].aborted
    BY <1>4 DEF Dropping
  <2>2. F[1] = f /\ Len(Tail(F)) = Len(F) - 1 /\ Len(F) \in Nat
        /\ \A j \in 1..(Len(F) - 1) : Tail(F)[j] = F[j + 1]
    BY <1>1 DEF F
  <2>3. i # 1
    BY <1>4, <2>1, <2>2
  <2>4. i - 1 \in 1..(Len(F) - 1) /\ Tail(F)[i - 1] = F[i]
    BY <2>2, <2>3
  <2> QED
    BY <2>1, <2>2, <2>4 DEF Dropping
<1>5. CASE EntryAborted(b)
  <2>1. pos'[b] = NoPosition
    BY <1>1, <1>5 DEF EntryAborted, Sets
  <2> QED
    BY <2>1 DEF PricesSettle
<1>6. CASE ExitFilled(b)
  <2>1. f.action = "EXIT" /\ pos' = pos
    BY <1>6 DEF ExitFilled
  <2>2. \A s \in Sides : ~Prices(f, s)
    BY <2>1 DEF Prices
  <2>3. f = Head(F)
    BY DEF F
  <2> HIDE DEF f
  <2>4. \A s \in Sides : /\ None(F, s) <=> None(Tail(F), s)
                         /\ \A k : LastAt(F, s, k) => LastAt(Tail(F), s, k)
    BY <1>1, <2>2, <2>3, PriceTaken
  <2>5. pos[b] # NoPosition /\ ~Dropping(Tail(F)) =>
          \A s \in Sides : PriceComes(pos[b], orderQ, F, s)
    BY <1>4, <2>1 DEF PriceInv, PricesSettle, F
  <2> QED
    BY <1>2, <2>1, <2>4, <2>5 DEF PricesSettle, PriceComes
<1>7. CASE EntryFilled(b) /\ pos[b] = NoPosition
  BY <1>7 DEF EntryFilled, PricesSettle
<1>8. CASE EntryFilled(b) /\ pos[b] # NoPosition
  <2> DEFINE p == Adopt(pos[b], f)
  <2>1. f.action = "ENTRY" /\ ~f.aborted /\ pos'[b] = p
    BY <1>1, <1>8 DEF EntryFilled, Sets
  <2>2. /\ p.strike = pos[b].strike
        /\ \A s \in Sides : p.sold[s] = IF s \in f.legs THEN f.strikes[s] ELSE pos[b].sold[s]
    <3>1. pos[b] \in Position
      BY <1>1, <1>8
    <3> QED
      BY <3>1 DEF Adopt, Position
  <2>3. f = Head(F) /\ \A s \in Sides : Prices(f, s) <=> s \in f.legs
    BY <2>1 DEF F, Prices
  <2> HIDE DEF p, f
  <2>4. ~Dropping(Tail(F)) => \A s \in Sides : PriceComes(pos[b], orderQ, F, s)
    BY <1>4, <1>8, <2>1 DEF PriceInv, PricesSettle, F
  <2>5. ASSUME ~Dropping(Tail(F)), NEW s \in Sides
        PROVE  PriceComes(p, orderQ, Tail(F), s)
    <3>1. PriceComes(pos[b], orderQ, F, s)
      BY <2>4, <2>5
    <3> DEFINE k == pos[b].strike[s]
    <3>2. p.strike[s] = k /\ p.sold[s] = IF Prices(f, s) THEN f.strikes[s] ELSE pos[b].sold[s]
      BY <2>2, <2>3
    <3>3. /\ None(F, s) <=> None(Tail(F), s) /\ ~Prices(f, s)
          /\ LastAt(F, s, k) => LastAt(Tail(F), s, k)
          /\ LastAt(F, s, k) /\ None(Tail(F), s) /\ Prices(f, s) => f.strikes[s] = k
      BY <1>1, <2>3, PriceTaken
    <3> QED
      BY <3>1, <3>2, <3>3 DEF PriceComes
  <2> QED
    BY <1>2, <2>1, <2>5 DEF PricesSettle
<1> QED
  BY <1>5, <1>6, <1>7, <1>8 DEF HandleFill

\* The bridge puts at the end of the fills what it takes from the front of the
\* orders, and never drops an order.
LEMMA PriceServed ==
  ASSUME Undisturbed, PriceInv, Bridge, NEW b \in Books
  PROVE  PricesSettle(b)'
<1>1. /\ DeskTypeOK /\ orderQ \in Seq(Order) /\ fillQ[b] \in Seq(Fill)
      /\ running' = running /\ pos' = pos /\ \A c \in Books : terminal[c] /\ run[c]
  BY DEF PriceInv, TypeInv, TypeOK, DeskTypeOK, Bridge, memoryVars, StartsOnce
<1>2. ASSUME NEW a \in BOOLEAN, orderQ # <<>>, Finish, PublishFill(FillOf(Current, a))
      PROVE  PricesSettle(b)'
  <2> DEFINE o == Current
             f == FillOf(o, a)
             F == fillQ[b]
  <2>1. o \in Order /\ f \in Fill /\ o = Head(orderQ)
    BY <1>1, <1>2, CurrentType, FillType DEF Current
  <2>2. orderQ' = Tail(orderQ) /\ f.strikes = o.strikes /\ f.action = o.action /\ f.aborted = a
        /\ \A s \in Sides : Prices(f, s) <=> Prices(o, s)
    BY <1>2 DEF Finish, FillOf, Prices
  <2>3. CASE ~running[b]
    <3>1. pos[b] = NoPosition
      BY <2>3 DEF PriceInv, StartsOnce
    <3> QED
      BY <1>1, <3>1 DEF PricesSettle
  <2>4. CASE running[b]
    <3>1. fillQ'[b] = Append(F, f)
      BY <1>2, <2>4 DEF PublishFill
    <3> HIDE DEF o, f, F
    <3>2. F \in Seq(Fill) /\ Append(F, f) \in Seq(Fill) /\ Len(Append(F, f)) = Len(F) + 1
          /\ Len(F) \in Nat /\ Append(F, f)[Len(F) + 1] = f
          /\ \A i \in 1..Len(F) : Append(F, f)[i] = F[i]
      BY <1>1, <2>1 DEF F
    <3>3. Dropping(F) => Dropping(Append(F, f))
      <4> SUFFICES ASSUME NEW i \in 1..Len(F), F[i].action = "ENTRY" /\ F[i].aborted
                   PROVE  Dropping(Append(F, f))
        BY DEF Dropping
      <4>1. i \in 1..(Len(F) + 1) /\ Append(F, f)[i] = F[i]
        BY <3>2
      <4> QED
        BY <3>2, <4>1 DEF Dropping
    <3>4. pos[b] # NoPosition /\ ~Dropping(Append(F, f)) =>
            \A s \in Sides : PriceComes(pos[b], orderQ, F, s)
      BY <3>3 DEF PriceInv, PricesSettle, F
    <3>5. ASSUME pos[b] # NoPosition, ~Dropping(Append(F, f)), NEW s \in Sides
          PROVE  PriceComes(pos[b], Tail(orderQ), Append(F, f), s)
      <4> DEFINE k == pos[b].strike[s]
                 G == Append(F, f)
                 Q == Tail(orderQ)
      <4>1. PriceComes(pos[b], orderQ, F, s)
        BY <3>4, <3>5
      <4>2. /\ None(orderQ, s) <=> None(Q, s) /\ ~Prices(o, s)
            /\ LastAt(orderQ, s, k) => LastAt(Q, s, k)
            /\ LastAt(orderQ, s, k) /\ None(Q, s) /\ Prices(o, s) => o.strikes[s] = k
        BY <1>1, <1>2, <2>1, PriceTaken
      <4>3. /\ None(G, s) <=> None(F, s) /\ ~Prices(f, s)
            /\ Prices(f, s) => (LastAt(G, s, k) <=> f.strikes[s] = k)
            /\ ~Prices(f, s) /\ LastAt(F, s, k) => LastAt(G, s, k)
        BY <2>1, <3>2, PriceAppended
      <4>4. f.strikes[s] = o.strikes[s] /\ (Prices(f, s) <=> Prices(o, s))
        BY <2>2
      <4> HIDE DEF G, Q
      <4>5. PriceComes(pos[b], Q, G, s)
        BY <4>1, <4>2, <4>3, <4>4 DEF PriceComes
      <4> QED
        BY <4>5 DEF G, Q
    <3> QED
      BY <1>1, <2>2, <3>1, <3>5 DEF PricesSettle
  <2> QED
    BY <2>3, <2>4
<1>3. CASE UNCHANGED busVars
  BY <1>1, <1>3 DEF busVars, PriceInv, PricesSettle
<1>4. CASE DropUnrouted
  <2>1. Current.book \in Books
    BY <1>1, <1>4, CurrentType DEF DropUnrouted
  <2> QED
    BY <1>1, <1>4, <2>1 DEF DropUnrouted, Routable, Undisturbed
<1>5. CASE PaperFill \/ ConfirmFill \/ AbortEntry
  <2>1. orderQ # <<>>
    BY <1>5 DEF PaperFill, ConfirmFill, AbortEntry, PriceInv, TypeInv, Busy
  <2> QED
    BY <1>2, <1>5, <2>1 DEF PaperFill, ConfirmFill, AbortEntry
<1>6. BridgeStep =>
        \/ DropUnrouted \/ PaperFill \/ ConfirmFill \/ AbortEntry \/ UNCHANGED busVars
  BY DEF BridgeStep, StartLive, LegDone, LateFill, FlattenLeg, StartFlatten, CancelResting,
     ReadPositions, SquareLeg
<1> QED
  BY <1>3, <1>4, <1>5, <1>6 DEF Bridge

\* The other handlers end a position or leave position, orders and fills alone.
LEMMA PriceOthers ==
  ASSUME PriceInv, NEW b \in Books,
         \/ \E s \in Sides : RollNoPartner(b, s)
         \/ ExitAndReenter(b) \/ ExitForDay(b) \/ EndOfDay(b) \/ Quiet(b)
  PROVE  PricesSettle(b)'
<1>1. pos \in [Books -> Position \cup {NoPosition}]
  BY DEF PriceInv, TypeInv, TypeOK, BookTypeOK
<1>2. CASE pos' = [pos EXCEPT ![b] = NoPosition]
  <2>1. pos'[b] = NoPosition
    BY <1>1, <1>2
  <2> QED
    BY <2>1 DEF PricesSettle
<1>3. CASE UNCHANGED <<pos, orderQ, fillQ>>
  BY <1>3 DEF PriceInv, PricesSettle
<1>4. Quiet(b) => pos' = [pos EXCEPT ![b] = NoPosition] \/ UNCHANGED <<pos, orderQ, fillQ>>
  BY DEF Quiet, CheckTerminal, WarmUpEnds, CooldownEnds, ResetSession, QuietCandle, Sets, busVars
<1>5. ~Quiet(b) => pos' = [pos EXCEPT ![b] = NoPosition]
  BY DEF ExitAndReenter, ExitForDay, EndOfDay, EodTick, EodCandle, ClosePosition, RollNoPartner, Sets
<1> QED
  BY <1>2, <1>3, <1>4, <1>5

\* A book's handlers run only in a started book and leave it started.
LEMMA StartedStays ==
  ASSUME NEW b \in Books, Trade(b) \/ EndOfDay(b) \/ Quiet(b) \/ HandleFill(b)
  PROVE  running[b] /\ running' = running
BY DEF Trade, OpenPosition, MayEnter, Roll, MayRoll, RollNoPartner, ExitAndReenter, ExitForDay,
       ClosePosition, EndOfDay, EodTick, EodCandle, Quiet, CheckTerminal, WarmUpEnds, CooldownEnds,
       ResetSession, QuietCandle, HandleFill, EntryFilled, EntryAborted, ExitFilled, TakeFill

\* Every step of an undisturbed desk keeps the prices on their way.
LEMMA PriceStep ==
  ASSUME Undisturbed, PriceInv, [Next]_vars
  PROVE  PriceInv'
<1>1. TypeInv /\ TypeInv' /\ StartsOnce
  BY TypeNext DEF PriceInv
<1>2. ASSUME UNCHANGED <<pos, orderQ, fillQ, run, terminal, op, running, store>> PROVE PriceInv'
  BY <1>1, <1>2 DEF PriceInv, StartsOnce, PricesSettle
<1>3. CASE BookStep
  <2>1. PICK b \in Books : Trade(b) \/ EndOfDay(b) \/ Quiet(b) \/ HandleFill(b)
    BY <1>3 DEF BookStep
  <2>2. PricesSettle(b)'
    BY <2>1, PriceOpens, PriceRolls, PriceAdopted, PriceOthers DEF Trade
  <2>3. running[b] /\ running' = running /\ \A c \in Books : c = b
    BY <2>1, StartedStays DEF Undisturbed
  <2>4. UNCHANGED <<run, terminal, op>>
    BY <1>3 DEF BookStep, flagVars
  <2>5. StartsOnce'
    BY <1>1, <2>3, <2>4 DEF StartsOnce
  <2>6. \A c \in Books : PricesSettle(c)'
    BY <2>2, <2>3
  <2> QED
    BY <1>1, <2>5, <2>6 DEF PriceInv
<1>4. CASE Bridge
  <2>1. \A b \in Books : PricesSettle(b)'
    BY <1>4, PriceServed
  <2>2. UNCHANGED <<run, terminal, op, running, pos, store>>
    BY <1>4 DEF Bridge, flagVars, memoryVars, diskVars
  <2> QED
    BY <1>1, <2>1, <2>2 DEF PriceInv, StartsOnce
<1>5. ASSUME NEW b \in Books, SpawnBook(b) PROVE PriceInv'
  <2>1. ~running[b] /\ pos' = [pos EXCEPT ![b] = Saved(b)] /\ running' = [running EXCEPT ![b] = TRUE]
        /\ UNCHANGED <<run, terminal, op>>
    BY <1>5 DEF SpawnBook, StartBook, Sets, flagVars
  <2>2. Saved(b) = NoPosition
    BY <1>1, <2>1 DEF StartsOnce, Saved
  <2>3. pos \in [Books -> Position \cup {NoPosition}] /\ running \in [Books -> BOOLEAN]
    BY <1>1 DEF TypeInv, TypeOK, BookTypeOK, DeskTypeOK
  <2>4. pos'[b] = NoPosition /\ running'[b]
    BY <2>1, <2>2, <2>3
  <2>5. \A c \in Books : c = b
    BY DEF Undisturbed
  <2>6. StartsOnce'
    BY <1>1, <2>1, <2>4, <2>5 DEF StartsOnce
  <2>7. \A c \in Books : PricesSettle(c)'
    BY <2>4, <2>5 DEF PricesSettle
  <2> QED
    BY <1>1, <2>6, <2>7 DEF PriceInv
<1>6. ASSUME NEW b \in Books PROVE ~RemoveBook(b) /\ ~ClientStep(b)
  BY <1>1 DEF RemoveBook, ClientStep, RunOff, RunCleared, TerminalOff, DisconnectSquareOff,
     RunOn, TerminalOn, StartsOnce, Undisturbed
<1>7. ~ManagerReadError /\ ~Crash
  BY DEF ManagerReadError, Crash, Undisturbed
<1>8. CASE SquareOffTime \/ NewDay \/ UNCHANGED vars
  BY <1>2, <1>8 DEF SquareOffTime, NewDay, vars, busVars, flagVars, bookVars, memoryVars, diskVars
<1> QED
  BY <1>3, <1>4, <1>5, <1>6, <1>7, <1>8 DEF Next

\* _on_fill, _open_leg: whatever rolls, exits, aborts and sessions were decided
\* while fills were on their way, the entry price of each open leg ends as the
\* price of the strike the leg is at.
THEOREM PricedOwnTheorem == ASSUME Undisturbed PROVE Spec => []PricedOwn
<1>1. Init => PriceInv
  BY TypeInit DEF Init, BookInit, Cleared, PriceInv, StartsOnce, PricesSettle
<1>2. PriceInv /\ [Next]_vars => PriceInv'
  BY PriceStep
<1>3. PriceInv => PricedOwn
  <2> SUFFICES ASSUME PriceInv, NEW b \in Books, NoOrders(b), fillQ[b] = <<>>, pos[b] # NoPosition
               PROVE  pos[b].sold = pos[b].strike
    BY DEF PricedOwn, NoPosition
  <2>1. orderQ \in Seq(Order) /\ pos[b] \in Position
    BY DEF PriceInv, TypeInv, TypeOK, DeskTypeOK, BookTypeOK
  <2>2. \A i \in 1..Len(orderQ) : orderQ[i] \in Order
    BY <2>1
  <2>3. \A i \in 1..Len(orderQ) : orderQ[i].book = b
    BY <2>2 DEF Order, Undisturbed
  <2>4. \A s \in Sides : None(orderQ, s) /\ None(fillQ[b], s)
    BY <2>3 DEF NoOrders, None
  <2>5. ~Dropping(fillQ[b])
    BY DEF Dropping
  <2>6. \A s \in Sides : pos[b].sold[s] = pos[b].strike[s]
    BY <2>4, <2>5 DEF PriceInv, PricesSettle, PriceComes
  <2>7. pos[b].sold \in Pairs /\ pos[b].strike \in Pairs
    BY <2>1 DEF Position
  <2> QED
    BY <2>6, <2>7 DEF Pairs
<1> QED
  BY <1>1, <1>2, <1>3, PTL DEF Spec
=============================================================================
