---------------------------- MODULE SellStraddle ---------------------------
(***************************************************************************)
(* The strategy side: SellStraddleStrategy, one book per binding.  Its     *)
(* handlers (a tick, a candle, a fill, start and stop) contain no await    *)
(* that suspends, because EventBus.publish only does put_nowait; so each   *)
(* is one action.  Which rule fires is market data and is left open: an    *)
(* action is enabled whenever the code's guards let some price fire it.    *)
(***************************************************************************)
EXTENDS TradingDesk

VARIABLES
  pos,       \* pos[b]: _position, NoPosition when None
  pending,   \* pending[b]: _order_pending
  trades,    \* trades[b]: _trades_today
  stop,      \* stop[b]: _stop_for_day
  cool,      \* cool[b]: the re-entry cooldown is running
  warm,      \* warm[b]: _post_restore_warmup
  gate,      \* gate[b]: _term_active_cached
  sday,      \* sday[b]: session day of _market_open_dt, 0 when None
  store,     \* store[b]: the book's file in data/positions
  sess       \* sess[b]: the book's session file in data/positions

memoryVars == <<pos, pending, trades, stop, cool, warm, gate, sday>>
diskVars == <<store, sess>>
bookVars == <<running, memoryVars, diskVars>>

\* sold[s] is the strike whose price entry_price of leg s holds.
Position == [strike : Pairs, sold : Pairs]
NoPosition == [strike |-> [s \in Sides |-> Flat], sold |-> [s \in Sides |-> Flat]]

Other(s) == IF s = "CE" THEN "PE" ELSE "CE"

Sets(f, b, v) == f' = [f EXCEPT ![b] = v]

----------------------------------------------------------------------------
(* Persistence *)

Cleared == [day |-> 0, pos |-> NoPosition]
NoSession == [day |-> 0, trades |-> 0, stop |-> FALSE]

\* Fault: clearing the position leaves the file behind.
PersistSticky(b, p, n, st) ==
  /\ Sets(store, b, IF p = NoPosition THEN store[b] ELSE [day |-> day, pos |-> p])
  /\ Sets(sess, b, [day |-> day, trades |-> n, stop |-> st])

\* _persist with position p: the position file, then the session file with the
\* trade count and stop flag of this moment.
Persist(b, p, n, st) ==
  /\ Sets(store, b, IF p = NoPosition THEN Cleared ELSE [day |-> day, pos |-> p])
  /\ Sets(sess, b, [day |-> day, trades |-> n, stop |-> st])

\* position_store.load: a MIS position of an earlier day is discarded.
Saved(b) == IF store[b].day = day THEN store[b].pos ELSE NoPosition

SavedSession(b) == IF sess[b].day = day THEN sess[b] ELSE NoSession

----------------------------------------------------------------------------
(* Entries *)

\* One evaluation of _any_active_terminal: the cached answer, or a fresh one.
TerminalActive(b) == gate[b] \/ (run[b] /\ terminal[b])

\* A tick on which _any_active_terminal re-reads the database.
CheckTerminal(b) ==
  /\ running[b]
  /\ Sets(gate, b, run[b] /\ terminal[b])
  /\ UNCHANGED <<busVars, running, pos, pending, trades, stop, cool, warm, sday, diskVars>>

\* The early returns of _try_entry.
MayEnter(b) ==
  /\ running[b] /\ pos[b] = NoPosition
  /\ ~stop[b]
  /\ TerminalActive(b)
  /\ phase = "open"
  /\ trades[b] < MaxTrades
  /\ ~cool[b]
  /\ ~pending[b]

\* _maybe_try_entry ... _open_position: the position is created and persisted
\* before the counter moves, the order is published last.
OpenPosition(b, k) ==
  LET p == [strike |-> k, sold |-> k]
  IN  /\ MayEnter(b)
      /\ Sets(pos, b, p)
      /\ Persist(b, p, trades[b], stop[b])
      /\ Sets(trades, b, trades[b] + 1)
      /\ Sets(pending, b, TRUE)
      /\ Sets(gate, b, TRUE)
      /\ PublishOrder(EntryOrder(b, Sides, k))
      /\ UNCHANGED <<fillQ, running, stop, cool, warm, sday>>

----------------------------------------------------------------------------
(* Full exits *)

\* Fault: the order is built after _position has been cleared.
ClosePositionCleared(b, st) ==
  /\ running[b] /\ pos[b] # NoPosition
  /\ PublishOrder(ExitOrder(b, Sides, NoPosition.strike))
  /\ Sets(pos, b, NoPosition)
  /\ Persist(b, NoPosition, trades[b], st)
  /\ Sets(cool, b, cool[b] \/ Cooldown)
  /\ UNCHANGED <<fillQ, running, pending, trades, warm, gate>>

\* _close_position while the stop flag is st: both legs bought back, the
\* stored position cleared, the cooldown started.
ClosePosition(b, st) ==
  /\ running[b] /\ pos[b] # NoPosition
  /\ PublishOrder(ExitOrder(b, Sides, pos[b].strike))
  /\ Sets(pos, b, NoPosition)
  /\ Persist(b, NoPosition, trades[b], st)
  /\ Sets(cool, b, cool[b] \/ Cooldown)
  /\ UNCHANGED <<fillQ, running, pending, trades, warm, gate>>

\* A tick whose exit rule leaves the day open (guardrail SL, trailing SL, ROC,
\* exit_rules).
ExitAndReenter(b) ==
  /\ phase = "open" /\ ~warm[b]
  /\ ClosePosition(b, stop[b])
  /\ UNCHANGED <<stop, sday>>

\* A tick whose exit rule ends the day (day target, day loss, guardrail
\* target): _stop_for_day is set after _close_position has persisted.
ExitForDay(b) ==
  /\ phase = "open" /\ ~warm[b]
  /\ ClosePosition(b, stop[b])
  /\ Sets(stop, b, TRUE)
  /\ UNCHANGED sday

\* The first tick past the square-off time with a position open.
EodTick(b) ==
  /\ phase = "closing"
  /\ ClosePosition(b, stop[b])
  /\ Sets(stop, b, TRUE)
  /\ UNCHANGED sday

\* square_off_binding on this book: the flag is set before the exit.
SquareOff(b) ==
  /\ ClosePosition(b, TRUE)
  /\ Sets(stop, b, TRUE)
  /\ UNCHANGED sday

\* The restored position's legs have both ticked, or 20 s have passed.
WarmUpEnds(b) ==
  /\ running[b] /\ warm[b] /\ pos[b] # NoPosition /\ phase = "open"
  /\ Sets(warm, b, FALSE)
  /\ UNCHANGED <<busVars, running, pos, pending, trades, stop, cool, gate, sday, diskVars>>

CooldownEnds(b) ==
  /\ running[b] /\ cool[b]
  /\ Sets(cool, b, FALSE)
  /\ UNCHANGED <<busVars, running, pos, pending, trades, stop, warm, gate, sday, diskVars>>

----------------------------------------------------------------------------
(* Single-side rolls *)

\* The position after leg s is re-sold at strike k (_open_leg).
Rolled(p, s, k) == [strike |-> [p.strike EXCEPT ![s] = k], sold |-> [p.sold EXCEPT ![s] = k]]

MayRoll(b) == running[b] /\ pos[b] # NoPosition /\ phase = "open" /\ ~warm[b]

\* Fault: the new leg is sold before the old one is bought back.
RollOrdersSwapped(b, s, k) ==
  Append(Append(orderQ, EntryOrder(b, {s}, Rolled(pos[b], s, k).strike)),
         ExitOrder(b, {s}, pos[b].strike))

\* Fault: the leg's strike is replaced before the closing order is built.
RollOrdersLate(b, s, k) ==
  Append(Append(orderQ, ExitOrder(b, {s}, Rolled(pos[b], s, k).strike)),
         EntryOrder(b, {s}, Rolled(pos[b], s, k).strike))

\* _close_leg of side s, then _open_leg at strike k.
RollOrders(b, s, k) ==
  Append(Append(orderQ, ExitOrder(b, {s}, pos[b].strike)),
         EntryOrder(b, {s}, Rolled(pos[b], s, k).strike))

\* _close_leg of side s, then _close_leg of the other side.
CleanupOrders(b, s) ==
  Append(Append(orderQ, ExitOrder(b, {s}, pos[b].strike)),
         ExitOrder(b, {Other(s)}, pos[b].strike))

\* _single_side_roll with a partner at another strike: the other leg is kept.
Roll(b, s, k) ==
  /\ MayRoll(b)
  /\ k # pos[b].strike[s]
  /\ orderQ' = RollOrders(b, s, k)
  /\ Sets(pos, b, Rolled(pos[b], s, k))
  /\ Persist(b, Rolled(pos[b], s, k), trades[b], stop[b])
  /\ UNCHANGED <<fillQ, running, pending, trades, stop, cool, warm, gate, sday>>

\* _single_side_roll without a partner: the book starts afresh after the
\* cooldown.
RollNoPartner(b, s) ==
  /\ MayRoll(b)
  /\ orderQ' = CleanupOrders(b, s)
  /\ Sets(pos, b, NoPosition)
  /\ Persist(b, NoPosition, trades[b], stop[b])
  /\ Sets(cool, b, cool[b] \/ Cooldown)
  /\ UNCHANGED <<fillQ, running, pending, trades, stop, warm, gate, sday>>

----------------------------------------------------------------------------
(* Candles *)

\* A 1-minute candle of a new session day: reset_session drops the position
\* and the counters, and touches neither _order_pending nor the files.
ResetSession(b) ==
  /\ running[b] /\ sday[b] \notin {0, day}
  /\ Sets(sday, b, day)
  /\ Sets(pos, b, NoPosition)
  /\ Sets(trades, b, 0)
  /\ Sets(stop, b, FALSE)
  /\ Sets(cool, b, FALSE)
  /\ UNCHANGED <<busVars, running, pending, warm, gate, diskVars>>

\* Past the square-off time a candle closes the position too, and leaves the
\* stop flag as it is.
EodCandle(b) ==
  /\ phase = "closing" /\ sday[b] \in {0, day}
  /\ ClosePosition(b, stop[b])
  /\ Sets(sday, b, day)
  /\ UNCHANGED stop

\* Any other candle only stamps the session on a freshly started book.
QuietCandle(b) ==
  /\ running[b] /\ sday[b] \in {0, day}
  /\ phase = "closing" => pos[b] = NoPosition
  /\ Sets(sday, b, day)
  /\ UNCHANGED <<busVars, running, pos, pending, trades, stop, cool, warm, gate, diskVars>>

----------------------------------------------------------------------------
(* Fills: _fill_loop passes on every fill of the underlying *)

TakeFill(b) ==
  /\ running[b] /\ fillQ[b] # <<>>
  /\ fillQ' = [fillQ EXCEPT ![b] = Tail(fillQ[b])]
  /\ Sets(pending, b, FALSE)
  /\ UNCHANGED <<orderQ, running, warm, gate, sday>>

\* Fault: each leg takes the other leg's price.
AdoptCrossed(p, f) ==
  [p EXCEPT !.sold = [s \in Sides |-> IF s \in f.legs THEN f.strikes[Other(s)] ELSE @[s]]]

\* The entry prices of the legs the fill names become the fill's prices.
Adopt(p, f) == [p EXCEPT !.sold = [s \in Sides |-> IF s \in f.legs THEN f.strikes[s] ELSE @[s]]]

EntryFilled(b) ==
  /\ TakeFill(b)
  /\ LET f == Head(fillQ[b])
     IN  /\ f.action = "ENTRY" /\ ~f.aborted
         /\ IF pos[b] # NoPosition
            THEN /\ Sets(pos, b, Adopt(pos[b], f))
                 /\ Persist(b, Adopt(pos[b], f), trades[b], stop[b])
            ELSE UNCHANGED <<pos, diskVars>>
  /\ UNCHANGED <<trades, stop, cool>>

EntryAborted(b) ==
  /\ TakeFill(b)
  /\ Head(fillQ[b]).action = "ENTRY" /\ Head(fillQ[b]).aborted
  /\ LET n == IF trades[b] = 0 THEN 0 ELSE trades[b] - 1
     IN  /\ Sets(pos, b, NoPosition)
         /\ Sets(trades, b, n)
         /\ Persist(b, NoPosition, n, stop[b])
  /\ Sets(cool, b, cool[b] \/ Cooldown)
  /\ UNCHANGED stop

ExitFilled(b) ==
  /\ TakeFill(b)
  /\ Head(fillQ[b]).action = "EXIT"
  /\ UNCHANGED <<pos, trades, stop, cool, diskVars>>

HandleFill(b) == EntryFilled(b) \/ EntryAborted(b) \/ ExitFilled(b)

----------------------------------------------------------------------------
(* start() and stop() *)

\* A new strategy object, restored from the files; its bus queues are new.
StartBook(b) ==
  /\ ~running[b]
  /\ Sets(running, b, TRUE)
  /\ Sets(pos, b, Saved(b))
  /\ Sets(trades, b, IF Saved(b) # NoPosition /\ SavedSession(b).trades = 0
                     THEN 1 ELSE SavedSession(b).trades)
  /\ Sets(stop, b, SavedSession(b).stop)
  /\ Sets(warm, b, Saved(b) # NoPosition)
  /\ Sets(store, b, IF Saved(b) = NoPosition THEN Cleared ELSE store[b])
  /\ UNCHANGED <<busVars, pending, cool, gate, sday, sess>>

\* What is left of a book that is not running: nothing but its files.
Forget(gone) ==
  /\ running' = [b \in Books |-> running[b] /\ b \notin gone]
  /\ fillQ' = [b \in Books |-> IF b \in gone THEN <<>> ELSE fillQ[b]]
  /\ pos' = [b \in Books |-> IF b \in gone THEN NoPosition ELSE pos[b]]
  /\ trades' = [b \in Books |-> IF b \in gone THEN 0 ELSE trades[b]]
  /\ sday' = [b \in Books |-> IF b \in gone THEN 0 ELSE sday[b]]
  /\ pending' = [b \in Books |-> pending[b] /\ b \notin gone]
  /\ stop' = [b \in Books |-> stop[b] /\ b \notin gone]
  /\ cool' = [b \in Books |-> cool[b] /\ b \notin gone]
  /\ warm' = [b \in Books |-> warm[b] /\ b \notin gone]
  /\ gate' = [b \in Books |-> gate[b] /\ b \notin gone]
  /\ UNCHANGED diskVars

\* stop() cancels the book's tasks; the manager drops the object.
StopBook(b) == running[b] /\ Forget({b}) /\ UNCHANGED orderQ

BookInit ==
  /\ running = [b \in Books |-> FALSE]
  /\ pos = [b \in Books |-> NoPosition]
  /\ pending = [b \in Books |-> FALSE]
  /\ trades = [b \in Books |-> 0]
  /\ stop = [b \in Books |-> FALSE]
  /\ cool = [b \in Books |-> FALSE]
  /\ warm = [b \in Books |-> FALSE]
  /\ gate = [b \in Books |-> FALSE]
  /\ sday = [b \in Books |-> 0]
  /\ store = [b \in Books |-> Cleared]
  /\ sess = [b \in Books |-> NoSession]

\* The file of a position is stamped with its day; a session file likewise.
BookTypeOK ==
  /\ pos \in [Books -> Position \cup {NoPosition}]
  /\ pending \in [Books -> BOOLEAN]
  /\ trades \in [Books -> Nat]
  /\ stop \in [Books -> BOOLEAN]
  /\ cool \in [Books -> BOOLEAN]
  /\ warm \in [Books -> BOOLEAN]
  /\ gate \in [Books -> BOOLEAN]
  /\ sday \in [Books -> 0..MaxDay]
  /\ store \in [Books -> [day : 0..MaxDay, pos : Position \cup {NoPosition}]]
  /\ sess \in [Books -> [day : 0..MaxDay, trades : Nat, stop : BOOLEAN]]
=============================================================================
