---------------------------- MODULE TradingDesk ----------------------------
(***************************************************************************)
(* What the components of the sell-straddle desk share: the events that    *)
(* travel on the EventBus, the queues the bus keeps per subscriber, the    *)
(* wall clock as the strategy reads it, and the flags the client database  *)
(* keeps for each binding.                                                 *)
(*                                                                         *)
(* A book is one SellStraddleStrategy instance, that is one (client,       *)
(* binding); every book here trades the same underlying.  A strike stands  *)
(* for an option contract of a side, and also for the price of that        *)
(* contract: a price is only ever asked which contract it belongs to.      *)
(***************************************************************************)
EXTENDS Integers, Sequences, FiniteSets

CONSTANTS
  Books,        \* the books, one per (client, binding)
  Live,         \* the books whose binding has trading_mode "live" and a broker
  Strikes,      \* strikes of the option chain
  Flat,         \* the strike of a leg that is not open
  Qty,          \* lot_size * lot_multiplier: contracts per leg
  MaxTrades,    \* max_trades: pairs a book may open in a session
  Cooldown,     \* TRUE iff sl_cooldown_minutes > 0
  EntryFills,   \* quantities of a SELL leg that may trade while it is worked
  ExitFills,    \* quantities of a BUY leg that may trade while it is worked
  Faults,       \* what the environment may do, a subset of FaultKinds
  MaxDay        \* bound: sessions the clock runs through

Sides == {"CE", "PE"}

FaultKinds ==
  {"manager_read_error",  \* the book manager's DB query fails and yields no row
   "bridge_read_error",   \* the bridge's DB query fails and yields no binding
   "run_off",             \* the client turns a deployment's Run toggle off
   "terminal_off",        \* the client turns the broker terminal off
   "late_fill",           \* the rest of an under-filled SELL leg may still trade
   "status_lost",         \* the broker answers no order status for a leg
   "flatten_fails",       \* an order that flattens is rejected, or fills only later
   "reconcile_fails",     \* get_positions fails, or an order that squares does so
   "crash",               \* the process dies: memory and bus contents are lost
   "new_day"}             \* the clock runs into the next session

ASSUME BooksAssumption == Live \subseteq Books
ASSUME FlatAssumption == Flat \notin Strikes
ASSUME QtyAssumption == Qty \in Nat \ {0}
ASSUME BoundsAssumption == MaxTrades \in Nat /\ MaxDay \in Nat \ {0}
ASSUME CooldownAssumption == Cooldown \in BOOLEAN
ASSUME FillsAssumption == EntryFills \subseteq 0..Qty /\ ExitFills \subseteq 0..Qty
ASSUME FaultsAssumption == Faults \subseteq FaultKinds

VARIABLES
  orderQ,    \* the bridge's ORDER_REQUEST queue; its head stays until it is done
  fillQ,     \* fillQ[b]: the ORDER_FILL queue of book b
  running,   \* running[b]: the book manager holds a started book b
  phase,     \* "open": entries allowed; "closing": past the square-off time
  day,       \* the session day, 1..MaxDay
  run,       \* run[b]: is_running of b's deployment
  terminal   \* terminal[b]: terminal_connected of b's binding

busVars == <<orderQ, fillQ>>
flagVars == <<run, terminal>>
clockVars == <<phase, day>>

Legs == (SUBSET Sides) \ {{}}
Pairs == [Sides -> Strikes]

\* StraddleOrderEvent: always carries both strikes of the position, and in
\* legs the sides to trade.
Order == [book : Books, action : {"ENTRY", "EXIT"}, legs : Legs, strikes : Pairs]

EntryOrder(b, legs, k) == [book |-> b, action |-> "ENTRY", legs |-> legs, strikes |-> k]
ExitOrder(b, legs, k) == [book |-> b, action |-> "EXIT", legs |-> legs, strikes |-> k]

\* StraddleFillEvent
Fill == [book : Books, action : {"ENTRY", "EXIT"}, legs : Legs, strikes : Pairs,
         aborted : BOOLEAN]

FillOf(o, aborted) ==
  [book |-> o.book, action |-> o.action, legs |-> o.legs, strikes |-> o.strikes,
   aborted |-> aborted]

\* EventBus.publish on ORDER_REQUEST, whose one subscriber is the bridge.
PublishOrder(o) == orderQ' = Append(orderQ, o)

\* EventBus.publish on ORDER_FILL: every started book subscribes, whichever
\* book the fill is for.
PublishFill(f) ==
  fillQ' = [b \in Books |-> IF running[b] THEN Append(fillQ[b], f) ELSE fillQ[b]]

\* The order the bridge works on, or the next one it will take.
Current == Head(orderQ)

DeskTypeOK ==
  /\ orderQ \in Seq(Order)
  /\ fillQ \in [Books -> Seq(Fill)]
  /\ running \in [Books -> BOOLEAN]
  /\ phase \in {"open", "closing"}
  /\ day \in 1..MaxDay
  /\ run \in [Books -> BOOLEAN]
  /\ terminal \in [Books -> BOOLEAN]
=============================================================================
