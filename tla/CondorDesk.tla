----------------------------- MODULE CondorDesk -----------------------------
(***************************************************************************)
(* The iron condor of one underlying: IronCondorStrategy, the order bus,   *)
(* ICExecutionBridge and the account of every binding it routes to.  The   *)
(* strategy is one for all bindings and gets no fill back.                 *)
(* Strikes are named by the at-the-money strike they are derived from, an  *)
(* expiry by its rank in the registry.                                     *)
(***************************************************************************)
EXTENDS Integers, FiniteSets, SequencesExt

CONSTANTS
  Bindings,     \* bindings with an iron_condor deployment on the underlying
  Atms,         \* at-the-money strikes
  Products,     \* what product_type may be: "MIS", "NRML"
  FaultSets,    \* what may go wrong in one behaviour: sets of
                \*   "switch"    a binding is switched on or off between events
                \*   "shift"     premiums below min_ltp choose the next expiry
                \*   "leg_fails" a leg is refused, or has no broker symbol
                \*   "lost"      a crash meets an order on the bus or a broker
                \*   "overnight" the process sees a second session
                \*   "expiry"    the current expiry ends before that session
                \*   "breach"    the premiums of the short legs drift apart
  MaxEntries    \* bound: entries in a behaviour

ASSUME CondorAssumption ==
  /\ Products \subseteq {"MIS", "NRML"} /\ Products # {}
  /\ IsFiniteSet(Bindings) /\ Bindings # {}
  /\ MaxEntries \in Nat

Legs == <<"short_ce", "short_pe", "long_ce", "long_pe">>
LegNames == {Legs[i] : i \in 1..4}
Expiries == 1..3
Contracts == LegNames \X Atms \X Expiries

VARIABLES
  product,    \* product_type of the strategy's configuration
  bound,      \* bound[b]: product_type of binding b
  faults,     \* what goes wrong in this behaviour
  day,        \* the session
  current,    \* the first expiry not before today
  running,    \* the process is up
  ticking,    \* the tick task is alive
  pos,        \* _position
  cooldown,   \* _reentry_until has not passed
  store,      \* the position store's entry
  entries,    \* entries so far
  orderQ,     \* IC_ORDER_REQUEST
  exec,       \* the event the bridge serves, and how far it is
  on,         \* on[b]: engine, terminal and live mode are on
  held        \* held[b]: the account of binding b, per contract

setup == <<product, bound, faults>>
clock == <<day, current>>
strategyVars == <<ticking, pos, cooldown, store, entries>>
vars == <<setup, clock, running, strategyVars, orderQ, exec, on, held>>

NoPos == [atm |-> "none"]
Positions == [atm : Atms, expiry : Expiries]
NoEntry == [pos |-> NoPos, day |-> 0]
Events == [action : {"ENTRY"}, atm : Atms, expiry : Expiries]
            \cup [action : {"EXIT"}, atm : Atms]
Idle == [left |-> <<>>, leg |-> 0]
AtRest == orderQ = <<>> /\ exec = Idle

Init ==
  /\ product \in Products
  /\ bound \in [Bindings -> Products]
  /\ faults \in FaultSets
  /\ day = 1 /\ current = 1
  /\ running = TRUE /\ ticking = TRUE
  /\ pos = NoPos /\ cooldown = FALSE /\ store = NoEntry /\ entries = 0
  /\ orderQ = <<>> /\ exec = Idle
  /\ on = [b \in Bindings |-> TRUE]
  /\ held = [b \in Bindings |-> [c \in Contracts |-> 0]]

----------------------------------------------------------------------------
(* IronCondorStrategy *)

\* Fault: the date is left out of the stored position.
PersistUndated(p) == store' = IF p = NoPos THEN NoEntry ELSE [pos |-> p, day |-> 0]

\* Fault: closing leaves the stored position behind.
PersistSticky(p) == store' = IF p = NoPos THEN store ELSE [pos |-> p, day |-> day]
Persist(p) == store' = IF p = NoPos THEN NoEntry ELSE [pos |-> p, day |-> day]

\* choose_expiry: the next expiry only when the shorts of the current one are
\* too cheap.
ChosenExpiries == {current} \cup IF "shift" \in faults THEN {current + 1} ELSE {}

\* _try_entry, from a tick or a candle: all four legs are priced.
TryEntry(a, e) ==
  /\ running /\ pos = NoPos /\ ~cooldown /\ entries < MaxEntries
  /\ e \in ChosenExpiries
  /\ orderQ' = Append(orderQ, [action |-> "ENTRY", atm |-> a, expiry |-> e])
  /\ pos' = [atm |-> a, expiry |-> e]
  /\ Persist(pos')
  /\ entries' = entries + 1
  /\ UNCHANGED <<setup, clock, running, ticking, cooldown, exec, on, held>>

\* _check_exits and _close_position: the event names no expiry.
ClosePosition ==
  /\ running /\ ticking /\ pos # NoPos
  /\ orderQ' = Append(orderQ, [action |-> "EXIT", atm |-> pos.atm])
  /\ pos' = NoPos /\ Persist(NoPos)
  /\ cooldown' = TRUE
  /\ UNCHANGED <<setup, clock, running, ticking, entries, exec, on, held>>

\* _check_adjustment_criteria raises (line 631) before it adjusts anything, and
\* nothing in _tick_loop catches it: the tick task is over.
RatioBreach ==
  /\ "breach" \in faults
  /\ running /\ ticking /\ pos # NoPos
  /\ ticking' = FALSE
  /\ UNCHANGED <<setup, clock, running, pos, cooldown, store, entries, orderQ, exec, on, held>>

CooldownEnds ==
  /\ cooldown /\ cooldown' = FALSE
  /\ UNCHANGED <<setup, clock, running, ticking, pos, store, entries, orderQ, exec, on, held>>

\* Fault: a positional position of another day is discarded too.
RestoredToday == IF store.pos # NoPos /\ store.day = day THEN store ELSE NoEntry

\* position_store.load: a position of another day is discarded when the
\* configuration says that it was intraday.
Restored ==
  IF store.pos # NoPos /\ (product = "NRML" \/ store.day = day) THEN store ELSE NoEntry

Start ==
  /\ ~running
  /\ running' = TRUE /\ ticking' = TRUE
  /\ pos' = Restored.pos /\ store' = Restored
  /\ cooldown' = FALSE
  /\ UNCHANGED <<setup, clock, entries, orderQ, exec, on, held>>

----------------------------------------------------------------------------
(* ICExecutionBridge *)

Serve ==
  /\ running /\ exec = Idle /\ orderQ # <<>>
  /\ exec' = [left |-> SetToSeq(Bindings), leg |-> 0, ev |-> Head(orderQ)]
  /\ orderQ' = Tail(orderQ)
  /\ UNCHANGED <<setup, clock, running, strategyVars, on, held>>

Rest(left) == IF Len(left) = 1 THEN Idle ELSE [left |-> Tail(left), leg |-> 0, ev |-> exec.ev]

\* _handle reads the switches of a binding when its turn comes; a paper
\* binding, or one that is off, trades nothing at the exchange.
RouteBinding ==
  /\ running /\ exec # Idle /\ exec.leg = 0
  /\ exec' = IF on[Head(exec.left)] THEN [exec EXCEPT !.leg = 1] ELSE Rest(exec.left)
  /\ UNCHANGED <<setup, clock, running, strategyVars, orderQ, on, held>>

IsEntry == exec.ev.action = "ENTRY"
\* Without an expiry in the event the registry's current one is taken.
ExpiryOf(ev) == IF ev.action = "ENTRY" THEN ev.expiry ELSE current

\* Fault: on the way out the hedges are bought again.
SignedOneWay(leg) == IF leg \in {"long_ce", "long_pe"} THEN 1 ELSE IF IsEntry THEN -1 ELSE 1
Signed(leg) == IF leg \in {"long_ce", "long_pe"} <=> IsEntry THEN 1 ELSE -1

\* Fault: the last leg is left out.
LegCountShort == 3
LegCount == 4

\* _live_fill, one leg: a failure is logged and the next leg follows.
PlaceLeg ==
  /\ running /\ exec # Idle /\ exec.leg > 0
  /\ LET b == Head(exec.left)
         c == <<Legs[exec.leg], exec.ev.atm, ExpiryOf(exec.ev)>>
     IN \E traded \in {TRUE} \cup {"leg_fails" \notin faults} :
          held' = IF traded THEN [held EXCEPT ![b][c] = @ + Signed(Legs[exec.leg])] ELSE held
  /\ exec' = IF exec.leg = LegCount THEN Rest(exec.left) ELSE [exec EXCEPT !.leg = @ + 1]
  /\ UNCHANGED <<setup, clock, running, strategyVars, orderQ, on>>

----------------------------------------------------------------------------
(* Client, clock and process *)

Switch(b) ==
  /\ "switch" \in faults
  /\ on' = [on EXCEPT ![b] = ~@]
  /\ UNCHANGED <<setup, clock, running, strategyVars, orderQ, exec, held>>

Crash ==
  /\ running
  /\ "lost" \in faults \/ AtRest
  /\ running' = FALSE /\ ticking' = FALSE
  /\ pos' = NoPos /\ orderQ' = <<>> /\ exec' = Idle
  /\ UNCHANGED <<setup, clock, cooldown, store, entries, on, held>>

\* Overnight the broker squares off intraday products and expired contracts
\* settle; the strategy, if it is up, keeps its position.  The OrderRequest of
\* _live_fill names no product (the configured one is computed and not used), so
\* that the adapter takes the one of its binding.
NewDay ==
  /\ "overnight" \in faults /\ AtRest /\ day < 2
  /\ day' = day + 1
  /\ current' \in {current} \cup IF "expiry" \in faults THEN {current + 1} ELSE {}
  /\ held' = [b \in Bindings |-> [c \in Contracts |->
                IF bound[b] = "MIS" \/ c[3] < current' THEN 0 ELSE held[b][c]]]
  /\ UNCHANGED <<setup, running, strategyVars, orderQ, exec, on>>

Bridge == Serve \/ RouteBinding \/ PlaceLeg

Next ==
  \/ \E a \in Atms, e \in Expiries : TryEntry(a, e)
  \/ ClosePosition \/ RatioBreach \/ CooldownEnds \/ Start
  \/ Serve \/ RouteBinding \/ PlaceLeg
  \/ \E b \in Bindings : Switch(b)
  \/ Crash \/ NewDay

Spec == Init /\ [][Next]_vars

\* The loop is fair to the bridge and the process is restarted.
FairSpec == Spec /\ WF_vars(Bridge) /\ WF_vars(Start)

----------------------------------------------------------------------------
(* Properties *)

Survives(fs) == faults \cap fs = {}

\* Every variable keeps its type; events, positions and what the bridge serves
\* stay within the records the code builds.
TypeOK ==
  /\ product \in Products /\ bound \in [Bindings -> Products] /\ faults \in FaultSets
  /\ day \in 1..2 /\ current \in 1..day
  /\ {running, ticking, cooldown} \subseteq BOOLEAN /\ entries \in 0..MaxEntries
  /\ pos \in Positions \cup {NoPos}
  /\ store \in {NoEntry} \cup [pos : Positions, day : 1..day]
  /\ orderQ \in Seq(Events)
  /\ exec = Idle \/ exec \in [left : Seq(Bindings) \ {<<>>}, leg : 0..4, ev : Events]
  /\ on \in [Bindings -> BOOLEAN]
  /\ held \in [Bindings -> [Contracts -> Int]]

Believed == IF running THEN pos ELSE Restored.pos

Sign(leg) == IF leg \in {"long_ce", "long_pe"} THEN 1 ELSE -1
Share(c) == IF Believed = [atm |-> c[2], expiry |-> c[3]] THEN Sign(c[1]) ELSE 0

\* A position outlives the session for strategy and account alike: the one goes by
\* its configuration (load), the other by its binding.
Carried(b) == Survives({"overnight"}) \/ (product = "NRML" /\ bound[b] = "NRML")

\* Nothing tells the strategy what was filled; still, with every order served
\* (_handle, _live_fill), an account holds the condor it believes in: across
\* restarts, breaches of the ratio, and nights where both the configuration and
\* the binding carry it.  "Independent of the broker binding", as _live_fill has
\* it of the product, this is not: a binding with MIS is squared off overnight.
Settled ==
  Survives({"switch", "shift", "leg_fails", "lost", "expiry"}) /\ AtRest =>
    \A b \in Bindings : Carried(b) => \A c \in Contracts : held[b][c] = Share(c)

\* "Places all 4 legs" (the bridge's header): a short leg never stays without
\* its hedge, not even when a client switches between entry and exit, an exit
\* trades another expiry or a position outlives its expiry.
Hedged ==
  Survives({"leg_fails", "lost"}) /\ AtRest =>
    \A b \in Bindings, a \in Atms, e \in Expiries :
      LET q(leg) == held[b][<<leg, a, e>>] IN
      q("short_ce") = q("short_pe") /\ q("long_ce") = q("long_pe")
        /\ q("short_ce") + q("long_ce") = 0

\* _persist: what a restart of the same session restores is the position.
StoreMatches == running => store.pos = pos

\* _close_position: a position the strategy has closed is closed in every
\* account in the end, or a new one is open.
ClosedEndsFlat ==
  (pos = NoPos /\ running /\ faults \subseteq {"breach"})
    ~> (pos # NoPos \/ ~running \/ \A b \in Bindings, c \in Contracts : held[b][c] = 0)
=============================================================================
