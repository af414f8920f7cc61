----------------------------- MODULE TrapEngine -----------------------------
(***************************************************************************)
(* One TrapScannerEngine: the lifecycle loop, the option and the index     *)
(* tick loops and the entry tasks of a binding, with the account they      *)
(* trade in.  A step is what runs between two awaits that suspend.         *)
(* Prices are ranks measured in the direction of profit, so that a stop is *)
(* always a floor: the two scales the code uses are the option premium and *)
(* the underlying, and every premium is far below the underlying.          *)
(***************************************************************************)
EXTENDS Integers, Sequences, FiniteSets

CONSTANTS
  Sources,   \* which htf_source the engine may have: "option", "futures"
  PerSide,   \* bound: zones per side in a session
  Faults,    \* what may go wrong: any of
             \*   "two_signals"   a signal comes while another is being entered
             \*   "slow_fill"     an order trades and its status comes too late
             \*   "exit_refused"  an exit order is refused, or no broker is there
             \*   "overlap"       two loops exit at once
             \*   "stop_in_entry" a stop or a crash meets an entry task
             \*   "stop_in_exit"  a stop or a crash meets an exit order
  MaxFaults, \* bound: how many of these in one behaviour
  MaxHeld,   \* bound: quantity held of one contract
  MaxStray,  \* bound: contracts in the account when an entry starts
  MaxDay     \* bound: sessions

ASSUME TrapAssumption ==
  /\ Sources \subseteq {"option", "futures"} /\ Sources # {}
  /\ Faults \subseteq {"two_signals", "slow_fill", "exit_refused", "overlap",
                    "stop_in_entry", "stop_in_exit"}
  /\ MaxFaults \in Nat
  /\ {PerSide, MaxHeld, MaxStray, MaxDay} \subseteq Nat \ {0}

Sides == {"CE", "PE"}
Zones == Sides \X (1..PerSide)
\* The strikes an entry is tried at, relative to the money.
Rungs == {"itm", "atm", "otm"}
Contracts == Sides \X Rungs
Total == 2             \* an even number of lots, in units of its half
Half == 1
Ticks == 1..4          \* ranks of a price on the scale the stop is kept on
StopRank == 1          \* sl_price
EntryRank == 2         \* the price at entry
TargetRank == 3        \* t1_price
Underlying == 9        \* the underlying, seen from the premium scale

VARIABLES
  source,     \* _htf_source
  faults,     \* what goes wrong in this behaviour
  phase, day, \* the session: "open", "cutoff" (no more entries), "closing"
  running,    \* the manager holds the engine
  ready,      \* _initialized
  initDone,   \* _day_init_done
  noMargin,   \* _no_margin_today
  notified,   \* _notified_uids
  pos,        \* _position
  entry,      \* the entry task of each zone
  exit,       \* the exit order each loop waits for
  file,       \* the persisted position
  held        \* the account: quantity of each contract

setup == <<source, faults>>
clock == <<phase, day>>
flags == <<running, ready, initDone>>
vars == <<setup, clock, flags, noMargin, notified, pos, entry, exit, file, held>>

NoPos == [con |-> "none"]
Positions == [con : Contracts, rem : 0..Total, t1 : BOOLEAN,
              trail : Ticks \cup {Underlying}, day : 1..MaxDay]

\* What has been tried, whether the order in flight traded, and whether the
\* task belongs to an engine the manager has dropped.
NoEntry == [at |-> "none", rungs |-> <<>>, bought |-> FALSE, orphan |-> FALSE]
Ladders == {<<r, "atm", "otm">> : r \in {"itm", "atm"}}
LadderRests == Ladders \cup {<<"atm", "otm">>, <<"otm">>, <<>>}
Entries == [at : {"none", "quotes", "order", "sent"}, rungs : LadderRests,
            bought : BOOLEAN, orphan : BOOLEAN]

Loops == {"opt", "idx", "life"}
NoExit == [kind |-> "none"]
Exits == [kind : {"T1", "SL", "FLOOR", "EOD"}, con : Contracts, qty : 1..Total, price : Ticks]

SpotAtEntry == IF source = "option" THEN Underlying ELSE EntryRank
ExitLoop == IF source = "option" THEN "opt" ELSE "idx"

InFlight == \E l \in Loops : exit[l] # NoExit
Entering == \E z \in Zones : entry[z].at # "none"
Quiet == ~InFlight /\ ~Entering

Trade(c, q) == held' = [held EXCEPT ![c] = @ + q]

\* _persist_position, _clear_persisted_position
Persist(p) == file' = p
\* Fault: the file outlives its position.
ClearedNever == UNCHANGED file
Cleared == file' = NoPos

\* _load_persisted_position: "restore today's trade".

\* Fault: no file is taken for today's.
OfTodayNever(f) == FALSE

\* Fault: the date is not looked at.
OfTodayUnread(f) == TRUE
OfToday(f) == f.day = day

TrapInit ==
  /\ source \in Sources /\ faults \in {f \in SUBSET Faults : Cardinality(f) <= MaxFaults}
  /\ phase = "open" /\ day = 1
  /\ running = TRUE /\ ready = FALSE /\ initDone = FALSE
  /\ noMargin = FALSE /\ notified = {}
  /\ pos = NoPos /\ file = NoPos
  /\ entry = [z \in Zones |-> NoEntry]
  /\ exit = [l \in Loops |-> NoExit]
  /\ held = [c \in Contracts |-> 0]

----------------------------------------------------------------------------
(* Exits: an order is on its way while its loop awaits the broker.         *)

Selling(l, kind, con, qty, price) ==
  exit' = [exit EXCEPT ![l] =
             [kind |-> kind, con |-> con, qty |-> qty, price |-> price]]

\* _place_exit swallows every failure, and its callers go on as if sold.
ExitTrades == IF "exit_refused" \in faults THEN BOOLEAN ELSE {TRUE}

Sold(l) ==
  \E traded \in ExitTrades :
    IF traded THEN Trade(exit[l].con, -exit[l].qty) ELSE UNCHANGED held

\* Bound: loops overlap until the account is short.
Overlap == "overlap" \in faults /\ \A c \in Contracts : held[c] >= 0

\* A loop handles one tick at a time; another loop may be at the broker.
MayExit(l) ==
  /\ running /\ ready /\ pos # NoPos /\ exit[l] = NoExit
  /\ Overlap \/ ~InFlight

\* Fault: the target can be hit again.
TargetReachedAgain(p) == p >= TargetRank
TargetReached(p) == ~pos.t1 /\ p >= TargetRank

\* T1 at price p: the position counts the half as sold before the order.
T1Hit(p) ==
  /\ MayExit("opt") /\ TargetReached(p)
  /\ pos' = [pos EXCEPT !.t1 = TRUE, !.rem = @ - Half, !.trail = SpotAtEntry]
  /\ Selling("opt", "T1", pos.con, Half, p)
  /\ UNCHANGED <<setup, clock, flags, noMargin, notified, entry, file, held>>

\* In option mode the handler goes on to the stop with the same tick.
T1Done ==
  /\ exit["opt"] # NoExit /\ exit["opt"].kind = "T1"
  /\ Sold("opt")
  /\ Persist(pos)
  /\ IF source = "option" /\ pos # NoPos /\ exit["opt"].price <= SpotAtEntry
     THEN Selling("opt", "SL", pos.con, Total - Half, exit["opt"].price)
     ELSE exit' = [exit EXCEPT !["opt"] = NoExit]
  /\ UNCHANGED <<setup, clock, flags, noMargin, notified, pos, entry>>

ActiveStop == IF pos.t1 THEN pos.trail ELSE StopRank

StopHit(p) ==
  /\ MayExit(ExitLoop) /\ p <= ActiveStop
  /\ Selling(ExitLoop, "SL", pos.con, pos.rem, p)
  /\ UNCHANGED <<setup, clock, flags, noMargin, notified, pos, entry, file, held>>

\* The profit floor, once locked, sells at any price.
FloorHit(p) ==
  /\ MayExit(ExitLoop)
  /\ Selling(ExitLoop, "FLOOR", pos.con, pos.rem, p)
  /\ UNCHANGED <<setup, clock, flags, noMargin, notified, pos, entry, file, held>>

ExitDone(l) ==
  /\ exit[l] # NoExit /\ exit[l].kind \in {"SL", "FLOOR"}
  /\ Sold(l)
  /\ pos' = NoPos /\ Cleared
  /\ exit' = [exit EXCEPT ![l] = NoExit]
  /\ UNCHANGED <<setup, clock, flags, noMargin, notified, entry>>

Trailed(r) ==
  /\ pos' = [pos EXCEPT !.trail = r] /\ Persist(pos')
  /\ UNCHANGED <<setup, clock, flags, noMargin, notified, entry, exit, held>>

\* _update_futures_tsl, on a candle before T1: to cost first, then to a zone.
FuturesTrail(r) ==
  /\ source = "futures" /\ running /\ ready /\ exit["idx"] = NoExit
  /\ pos # NoPos /\ ~pos.t1
  /\ r > pos.trail /\ r \in EntryRank..TargetRank
  /\ Trailed(r)

\* _update_trail_sl, after T1: a confirmed trap above the stop lifts it.
TrapTrail(r) ==
  /\ running /\ ready /\ exit[ExitLoop] = NoExit
  /\ pos # NoPos /\ pos.t1
  /\ r > pos.trail
  /\ Trailed(r)

----------------------------------------------------------------------------
(* Entries: a task per signal *)

Entry(z) == entry[z].at

\* _on_entry_signal up to its first await.  Whether the switches and the
\* entry window let the signal pass is left open.
StartEntry(z) ==
  /\ running /\ ready /\ phase = "open"
  /\ ~noMargin /\ pos = NoPos /\ z \notin notified
  /\ Entry(z) = "none"
  /\ "two_signals" \in faults \/ ~Entering
  /\ Cardinality({c \in Contracts : held[c] # 0}) <= MaxStray
  /\ notified' = notified \cup {z}
  /\ entry' = [entry EXCEPT ![z] = [NoEntry EXCEPT !.at = "quotes"]]
  /\ UNCHANGED <<setup, clock, flags, noMargin, pos, exit, file, held>>

\* The liquid strike is picked; without a broker the entry is given up.
PickStrike(z) ==
  /\ Entry(z) = "quotes"
  /\ \/ entry' = [entry EXCEPT ![z] = NoEntry]
     \/ \E l \in Ladders : entry' = [entry EXCEPT ![z] = [@ EXCEPT !.at = "order", !.rungs = l]]
  /\ UNCHANGED <<setup, clock, flags, noMargin, notified, pos, exit, file, held>>

\* place_order: the order trades or not; the status is polled for 6 s.
PlaceEntry(z) ==
  /\ Entry(z) = "order"
  /\ LET c == <<z[1], Head(entry[z].rungs)>> IN
     \E bought \in BOOLEAN :
       /\ bought => held[c] + Total <= MaxHeld
       /\ entry' = [entry EXCEPT ![z] = [@ EXCEPT !.at = "sent", !.bought = bought]]
       /\ IF bought THEN Trade(c, Total) ELSE UNCHANGED held
  /\ UNCHANGED <<setup, clock, flags, noMargin, notified, pos, exit, file>>

\* COMPLETE: the position is made and persisted, by whichever engine the task
\* belongs to.
EntryFilled(z) ==
  /\ Entry(z) = "sent" /\ entry[z].bought
  /\ LET p == [con |-> <<z[1], Head(entry[z].rungs)>>, rem |-> Total, t1 |-> FALSE,
               trail |-> StopRank, day |-> day]
     IN Persist(p) /\ pos' = IF entry[z].orphan THEN pos ELSE p
  /\ entry' = [entry EXCEPT ![z] = NoEntry]
  /\ UNCHANGED <<setup, clock, flags, noMargin, notified, exit, held>>

\* Not COMPLETE in time: the next strike, and after the last no more entries.
\* Only a slow order can have bought.
EntryNotFilled(z) ==
  /\ Entry(z) = "sent" /\ (entry[z].bought => "slow_fill" \in faults)
  /\ LET rest == Tail(entry[z].rungs) IN
     IF rest = <<>>
     THEN /\ entry' = [entry EXCEPT ![z] = NoEntry]
          /\ noMargin' = (noMargin \/ ~entry[z].orphan)
     ELSE /\ entry' = [entry EXCEPT ![z] = [@ EXCEPT !.at = "order", !.rungs = rest,
                                                !.bought = FALSE]]
          /\ UNCHANGED noMargin
  /\ UNCHANGED <<setup, clock, flags, notified, pos, exit, file, held>>

\* An exception of the broker adapter ends the task.
EntryFails(z) ==
  /\ Entry(z) \in {"order", "sent"} /\ (entry[z].bought => "slow_fill" \in faults)
  /\ entry' = [entry EXCEPT ![z] = NoEntry]
  /\ UNCHANGED <<setup, clock, flags, noMargin, notified, pos, exit, file, held>>

----------------------------------------------------------------------------
(* Lifecycle loop *)

\* Between the open and the square-off time; a failing _morning_init is tried
\* again.  Only a position of today is restored.
MorningInit ==
  /\ running /\ ~ready /\ ~initDone /\ phase # "closing"
  /\ ready' = TRUE /\ initDone' = TRUE
  /\ IF file = NoPos THEN UNCHANGED <<pos, file>>
     ELSE IF OfToday(file) THEN pos' = file /\ UNCHANGED file
     ELSE Cleared /\ UNCHANGED pos
  /\ UNCHANGED <<setup, clock, running, noMargin, notified, entry, exit, held>>

\* _reset_day_state, which leaves _no_margin_today alone.
DayReset ==
  /\ ready' = FALSE /\ initDone' = FALSE /\ notified' = {}
  /\ pos' = NoPos /\ Cleared

\* Fault: after T1 nothing is squared off.
SquareOffDueUnlessHalved == pos # NoPos /\ ~pos.t1
SquareOffDue == pos # NoPos

EodSquareOff ==
  /\ running /\ ready /\ phase = "closing" /\ exit["life"] = NoExit
  /\ Overlap \/ ~InFlight
  /\ IF SquareOffDue
     THEN /\ Selling("life", "EOD", pos.con, pos.rem, EntryRank)
          /\ UNCHANGED <<ready, initDone, notified, pos, file>>
     ELSE DayReset /\ UNCHANGED exit
  /\ UNCHANGED <<setup, clock, running, noMargin, entry, held>>

EodDone ==
  /\ exit["life"] # NoExit
  /\ Sold("life")
  /\ exit' = [exit EXCEPT !["life"] = NoExit]
  /\ DayReset
  /\ UNCHANGED <<setup, clock, running, noMargin, entry>>

\* The dashboard's set_expiry_mode clears the expiry and _initialized.
SetExpiryMode ==
  /\ running /\ ready /\ ~InFlight
  /\ ready' = FALSE
  /\ UNCHANGED <<setup, clock, running, initDone, noMargin, notified, pos, entry,
                 exit, file, held>>

EngineStep ==
  \/ \E p \in Ticks : T1Hit(p) \/ StopHit(p) \/ FloorHit(p)
  \/ \E r \in Ticks : FuturesTrail(r) \/ TrapTrail(r)
  \/ T1Done \/ \E l \in Loops : ExitDone(l)
  \/ \E z \in Zones :
       \/ StartEntry(z) \/ PickStrike(z) \/ PlaceEntry(z)
       \/ EntryFilled(z) \/ EntryNotFilled(z) \/ EntryFails(z)
  \/ MorningInit \/ EodSquareOff \/ EodDone
=============================================================================
