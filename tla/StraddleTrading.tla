-------------------------- MODULE StraddleTrading --------------------------
(***************************************************************************)
(* The sell-straddle desk: books (SellStraddle), the bridge with the       *)
(* exchange accounts (StraddleBridge), the manager that starts and stops   *)
(* books, the client's switches on the dashboard, and the session clock.   *)
(* All of it runs on one asyncio loop; a step here is what runs between    *)
(* two awaits that suspend.                                                *)
(***************************************************************************)
EXTENDS SellStraddle, StraddleBridge

CONSTANTS
  MaxQueue,  \* bound: queued orders (the queues of the bus hold 20 000 events)
  MaxFills,  \* bound: fills queued per book
  MaxDrift,  \* bound: contracts an account may be short of one strike a side,
  MaxOff     \* bound: contracts by which all else in it may be off, and which may
             \* rest on a ticket, for its book to open or roll

ASSUME CapsAssumption == {MaxQueue, MaxFills, MaxDrift, MaxOff} \subseteq Nat

VARIABLE op  \* op[b]: how far the client's request to stop b has come

vars == <<busVars, clockVars, flagVars, bookVars, bridgeVars, op>>

OpStates == {"none", "disconnecting", "stopping"}

----------------------------------------------------------------------------
(* Bounds *)

OrderRoom == Len(orderQ) + 2 <= MaxQueue
FillRoom == \A b \in Books : Len(fillQ[b]) < MaxFills
InDrift(b) ==
  /\ \A s \in Sides : \E k \in Strikes :
       /\ net[b][s][k] \in (-MaxOff)..MaxDrift
       /\ \A j \in Strikes \ {k} : net[b][s][j] \in (-MaxOff)..MaxOff
  /\ \A t \in Tickets : t.book = b => resting[t] <= MaxOff

----------------------------------------------------------------------------
(* The books' handlers *)

Trade(b) ==
  \/ \E k \in Pairs : InDrift(b) /\ OpenPosition(b, k)
  \/ \E s \in Sides, k \in Strikes : InDrift(b) /\ Roll(b, s, k)
  \/ \E s \in Sides : RollNoPartner(b, s)
  \/ ExitAndReenter(b)
  \/ ExitForDay(b)

EndOfDay(b) == EodTick(b) \/ EodCandle(b)

Quiet(b) ==
  \/ CheckTerminal(b) \/ WarmUpEnds(b) \/ CooldownEnds(b)
  \/ ResetSession(b) \/ QuietCandle(b)

BookStep ==
  /\ \E b \in Books :
       \/ OrderRoom /\ (Trade(b) \/ EndOfDay(b))
       \/ Quiet(b)
       \/ HandleFill(b)
  /\ UNCHANGED <<clockVars, flagVars, bridgeVars, op>>

----------------------------------------------------------------------------
(* The manager: _reconcile every 5 s *)

SpawnBook(b) ==
  /\ run[b] /\ StartBook(b)
  /\ UNCHANGED <<clockVars, flagVars, bridgeVars, op>>

RemoveBook(b) ==
  /\ ~run[b]
  /\ StopBook(b)
  /\ UNCHANGED <<clockVars, flagVars, bridgeVars, op>>

\* _wanted returns nothing when its query fails: every book is stopped.
ManagerReadError ==
  /\ "manager_read_error" \in Faults
  /\ \E b \in Books : running[b]
  /\ Forget(Books)
  /\ UNCHANGED <<orderQ, clockVars, flagVars, bridgeVars, op>>

----------------------------------------------------------------------------
(* The client's switches.  The handlers await the database between steps.  *)

\* square_off_binding finds a book only while the manager holds it.
SquareOffBinding(b) ==
  IF running[b] /\ pos[b] # NoPosition
  THEN OrderRoom /\ SquareOff(b)
  ELSE UNCHANGED <<busVars, bookVars>>

\* Run toggle OFF (also the broker's square-off and kill buttons): square off
\* first, then clear is_running.
RunOff(b) ==
  /\ "run_off" \in Faults /\ op[b] = "none" /\ run[b]
  /\ SquareOffBinding(b)
  /\ op' = [op EXCEPT ![b] = "stopping"]
  /\ UNCHANGED <<clockVars, flagVars, bridgeVars>>

RunCleared(b) ==
  /\ op[b] = "stopping"
  /\ run' = [run EXCEPT ![b] = FALSE]
  /\ op' = [op EXCEPT ![b] = "none"]
  /\ UNCHANGED <<busVars, clockVars, terminal, bookVars, bridgeVars>>

\* Terminal OFF: the terminal flag is cleared, then the book is squared off,
\* then is_running is cleared.
TerminalOff(b) ==
  /\ "terminal_off" \in Faults /\ op[b] = "none" /\ terminal[b]
  /\ terminal' = [terminal EXCEPT ![b] = FALSE]
  /\ op' = [op EXCEPT ![b] = "disconnecting"]
  /\ UNCHANGED <<busVars, clockVars, run, bookVars, bridgeVars>>

DisconnectSquareOff(b) ==
  /\ op[b] = "disconnecting"
  /\ SquareOffBinding(b)
  /\ op' = [op EXCEPT ![b] = "stopping"]
  /\ UNCHANGED <<clockVars, flagVars, bridgeVars>>

RunOn(b) ==
  /\ op[b] = "none" /\ ~run[b] /\ terminal[b]
  /\ run' = [run EXCEPT ![b] = TRUE]
  /\ UNCHANGED <<busVars, clockVars, terminal, bookVars, bridgeVars, op>>

TerminalOn(b) ==
  /\ op[b] = "none" /\ ~terminal[b]
  /\ terminal' = [terminal EXCEPT ![b] = TRUE]
  /\ UNCHANGED <<busVars, clockVars, run, bookVars, bridgeVars, op>>

ClientStep(b) ==
  \/ RunOff(b) \/ RunCleared(b) \/ TerminalOff(b) \/ DisconnectSquareOff(b)
  \/ RunOn(b) \/ TerminalOn(b)

----------------------------------------------------------------------------
(* Clock and process *)

SquareOffTime ==
  /\ phase = "open"
  /\ phase' = "closing"
  /\ UNCHANGED <<busVars, day, flagVars, bookVars, bridgeVars, op>>

\* The next session opens long after the bus and the bridge have drained.
NewDay ==
  /\ "new_day" \in Faults /\ phase = "closing" /\ day < MaxDay
  /\ orderQ = <<>> /\ \A b \in Books : fillQ[b] = <<>>
  /\ phase' = "open" /\ day' = day + 1
  /\ UNCHANGED <<busVars, flagVars, bookVars, bridgeVars, op>>

\* The process dies; only the database and the position files survive.
Crash ==
  /\ "crash" \in Faults
  /\ Forget(Books)
  /\ orderQ' = <<>>
  /\ exec' = Idle
  /\ op' = [b \in Books |-> "none"]
  /\ UNCHANGED <<clockVars, flagVars, net, resting>>

----------------------------------------------------------------------------

Init ==
  /\ orderQ = <<>>
  /\ fillQ = [b \in Books |-> <<>>]
  /\ phase = "open" /\ day = 1
  /\ run = [b \in Books |-> TRUE]
  /\ terminal = [b \in Books |-> TRUE]
  /\ op = [b \in Books |-> "none"]
  /\ BookInit
  /\ BridgeInit

Bridge ==
  /\ FillRoom
  /\ BridgeStep
  /\ UNCHANGED <<running, clockVars, flagVars, memoryVars, diskVars, op>>

Next ==
  \/ BookStep
  \/ Bridge
  \/ \E b \in Books : SpawnBook(b) \/ RemoveBook(b) \/ ClientStep(b)
  \/ ManagerReadError
  \/ SquareOffTime \/ NewDay \/ Crash

Spec == Init /\ [][Next]_vars

\* The asyncio loop is fair to its tasks: the bridge serves its queue, a book
\* its fills, its ticks and its candles, and the manager wakes every 5 s.
Fairness ==
  /\ WF_vars(Bridge)
  /\ \A b \in Books :
       /\ WF_vars(HandleFill(b) /\ UNCHANGED <<clockVars, flagVars, bridgeVars, op>>)
       /\ WF_vars(OrderRoom /\ EndOfDay(b)
                  /\ UNCHANGED <<clockVars, flagVars, bridgeVars, op>>)
       /\ WF_vars(SpawnBook(b))

FairSpec == Spec /\ Fairness

----------------------------------------------------------------------------
(* Properties *)

\* Every variable keeps its type, and the bus, the books, the bridge and the
\* client's requests stay within the records the code builds.
TypeOK ==
  /\ DeskTypeOK /\ BookTypeOK /\ BridgeTypeOK
  /\ op \in [Books -> OpStates]

\* The bridge is at work only on an order that is there.
Busy == exec.phase # "idle" => orderQ # <<>>

\* The strike book b believes it is short on side s: what its memory says, or
\* what its file will restore while it is not running.
Believed(b, s) == IF running[b] THEN pos[b].strike[s] ELSE store[b].pos.strike[s]

NoOrders(b) == \A i \in 1..Len(orderQ) : orderQ[i].book # b

\* Account a of one side is short exactly one order of strike k (nothing, when
\* k is Flat).
ShortOf(a, k) == \A j \in Strikes : a[j] = IF j = k THEN Qty ELSE 0

\* Settlement (_close_position, _single_side_roll, _live_fill): whenever no
\* order of a live book is queued or at the broker, its exchange account holds
\* exactly the legs the book believes in, whatever entries, rolls, exits, fills
\* and restarts were interleaved before.
Settled ==
  \A b \in Live : NoOrders(b) => \A s \in Sides : ShortOf(net[b][s], Believed(b, s))

\* At no moment, not even between the two orders of a roll, is an account
\* short two strikes of a side, short one twice, or long (_single_side_roll's
\* 0-or-2 discipline as the exchange sees it).
OneShortPerSide ==
  \A b \in Live, s \in Sides : \E k \in Strikes \cup {Flat} : ShortOf(net[b][s], k)

\* _persist: the file a restart would read is the position in memory.
StoreMatches == \A b \in Books : running[b] => store[b].pos = pos[b]

\* "Gating the close on is_running would strand the open legs" (_handle): with
\* its orders done, an account is short nothing the book has forgotten.
NoStrandedShort ==
  \A b \in Live : NoOrders(b) =>
    \A s \in Sides, k \in Strikes : net[b][s][k] > 0 => Believed(b, s) = k

\* _reconcile_flat, "Make the broker ACTUALLY flat": when an aborted entry is
\* published, and whatever its legs reported, rested or were flattened to, the
\* account is off only by what the exchange traded of the entry's strikes after
\* their positions were read: flat, when nothing filled as late as that.
AbortLeavesFlat ==
  exec.phase = "squaring" /\ exec.todo = {} =>
    \A s \in Current.legs : net[Current.book][s][Current.strikes[s]] = exec.missed[s]

\* _on_fill, _open_leg: once the orders and the fills of a book are through,
\* the entry price of each open leg is the price of the strike the leg is at.
PricedOwn ==
  \A b \in Books : running[b] /\ NoOrders(b) /\ fillQ[b] = <<>> => pos[b].sold = pos[b].strike

\* The square-off: past its time every account ends, and stays, flat.
FlatAfterSquareOff ==
  <>[](phase = "closing" => \A b \in Live, s \in Sides : ShortOf(net[b][s], Flat))

\* _order_pending: an entry that waits for its fill does not wait for ever.
EntryAnswered == \A b \in Books : pending[b] ~> ~pending[b]
=============================================================================
