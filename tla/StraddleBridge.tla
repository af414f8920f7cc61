--------------------------- MODULE StraddleBridge --------------------------
(***************************************************************************)
(* The execution side: StraddleExecutionBridge, one task that serves the   *)
(* ORDER_REQUEST queue one order at a time, and the exchange account of    *)
(* each live binding.  Every broker call of the bridge is an await, so     *)
(* books, clients, the other legs and the exchange run between its steps.  *)
(***************************************************************************)
EXTENDS TradingDesk

VARIABLES
  exec,    \* what _live_fill is doing with the order at the head of orderQ
  net,     \* net[b][s][k]: contracts of strike k, side s, that binding b is short
  resting  \* resting[t]: contracts the exchange may still trade on ticket t

bridgeVars == <<exec, net, resting>>

\* phase: "idle", "legs" (placing the legs); of an entry that is aborted,
\* "flatten" (buying back what was reported), "settling" (the wait for fills
\* under way) and "squaring" (what the positions still show).
\* todo: sides this phase has still to send; filled: the quantities _do_leg
\* reported; seen: the positions that were read; missed: what the exchange has
\* traded of these legs since, of its own accord (only the property reads it).
Nothing == [s \in Sides |-> 0]
Idle == [phase |-> "idle", todo |-> {}, filled |-> Nothing, seen |-> Nothing,
         missed |-> Nothing]

Exec == [phase : {"idle", "legs", "flatten", "settling", "squaring"}, todo : SUBSET Sides,
         filled : [Sides -> 0..Qty], seen : [Sides -> Int], missed : [Sides -> Int]]

\* Orders at the exchange that the bridge does not wait for any more, by what
\* they trade.
Tickets == [book : Books, side : Sides, strike : Strikes, way : {"SELL", "BUY"}]
Ticket(o, s, way) == [book |-> o.book, side |-> s, strike |-> o.strikes[s], way |-> way]

\* q more contracts rest on ticket t.
Rests(t, q) == resting' = [resting EXCEPT ![t] = @ + q]

\* Fault: exits are gated on the Run toggle like entries.
RoutableGated(o) == terminal[o.book] /\ run[o.book]

\* The gates of _handle: the terminal for every order, the Run toggle for
\* entries only.
Routable(o) == terminal[o.book] /\ (o.action = "ENTRY" => run[o.book])

Finish == orderQ' = Tail(orderQ) /\ exec' = Idle

\* No binding passes the gates: a warning is logged, nothing is published.
DropUnrouted ==
  /\ exec.phase = "idle" /\ orderQ # <<>>
  /\ ~Routable(Current) \/ "bridge_read_error" \in Faults
  /\ Finish
  /\ UNCHANGED <<fillQ, net, resting>>

\* _paper_fill: a local fill at once, no broker call.
PaperFill ==
  /\ exec.phase = "idle" /\ orderQ # <<>>
  /\ Routable(Current) /\ Current.book \notin Live
  /\ Finish
  /\ PublishFill(FillOf(Current, FALSE))
  /\ UNCHANGED <<net, resting>>

StartLive ==
  /\ exec.phase = "idle" /\ orderQ # <<>>
  /\ Routable(Current) /\ Current.book \in Live
  /\ exec' = [Idle EXCEPT !.phase = "legs", !.todo = Current.legs]
  /\ UNCHANGED <<busVars, net, resting>>

\* Fault: the order is mirrored to every binding.
TradedMirrored(o, s, q) ==
  [b \in Books |-> [net[b] EXCEPT ![s][o.strikes[s]] = @ + q]]

\* The account of book b after q more contracts of side s of order o's strike
\* are sold (bought, if q is negative).
Traded(o, s, q) == [net EXCEPT ![o.book][s][o.strikes[s]] = @ + q]

\* Fault: an exit is sent with the entry's side.
SignedAsSell(o, q) == q

Signed(o, q) == IF o.action = "ENTRY" THEN q ELSE -q

\* What _do_leg may report of q contracts traded: q; 0, when placing the rest
\* raises; all of them, when the last order of an under-filled leg shows an
\* average price (an OrderFill has no filled_qty, so the poll takes qty).
Reported(q) ==
  {q} \cup (IF q \in 1..(Qty - 1) THEN {0, Qty} ELSE {})
      \cup (IF "status_lost" \in Faults THEN {0} ELSE {})

\* _do_leg on side s returns: q contracts were traded, r are reported; the rest
\* of a SELL may still be live at the exchange.
LegDone(s, q, r) ==
  /\ exec.phase = "legs" /\ s \in exec.todo
  /\ q \in (IF Current.action = "ENTRY" THEN EntryFills ELSE ExitFills)
  /\ r \in Reported(q)
  /\ net' = Traded(Current, s, Signed(Current, q))
  /\ exec' = [exec EXCEPT !.todo = @ \ {s}, !.filled[s] = r]
  /\ Rests(Ticket(Current, s, "SELL"),
           IF Current.action = "ENTRY" /\ "late_fill" \in Faults THEN Qty - q ELSE 0)
  /\ UNCHANGED busVars

\* What the account is short more after q contracts of ticket t.
Shorter(t, q) == IF t.way = "SELL" THEN q ELSE -q

\* The exchange trades q contracts of an order the bridge has given up on: at
\* any time, also after the abort and after the process has died.
LateFill(t, q) ==
  /\ q \in 1..resting[t]
  /\ net' = [net EXCEPT ![t.book][t.side][t.strike] = @ + Shorter(t, q)]
  /\ Rests(t, -q)
  /\ exec' = IF exec.phase = "squaring" /\ t.side \in Current.legs
                  /\ t = Ticket(Current, t.side, t.way)
             THEN [exec EXCEPT !.missed[t.side] = @ + Shorter(t, q)]
             ELSE exec
  /\ UNCHANGED busVars

\* The atomicity guard: an entry that filled, but not all of it.
Asymmetric ==
  /\ Current.action = "ENTRY"
  /\ \E s \in Current.legs : exec.filled[s] > 0
  /\ \E s \in Current.legs : exec.filled[s] < Qty

\* Fault: a filled entry is not confirmed to the book.
ConfirmFillSilent ==
  /\ exec.phase = "legs" /\ exec.todo = {} /\ ~Asymmetric
  /\ Finish
  /\ UNCHANGED <<fillQ, net, resting>>

ConfirmFill ==
  /\ exec.phase = "legs" /\ exec.todo = {} /\ ~Asymmetric
  /\ Finish
  /\ PublishFill(FillOf(Current, FALSE))
  /\ UNCHANGED <<net, resting>>

StartFlatten ==
  /\ exec.phase = "legs" /\ exec.todo = {} /\ Asymmetric
  /\ exec' = [exec EXCEPT !.phase = "flatten",
                !.todo = {s \in Current.legs : exec.filled[s] > 0}]
  /\ UNCHANGED <<busVars, net, resting>>

\* Market order against what the leg reported filled.  A rejection is logged;
\* that the order is accepted is all that is asked of it.
FlattenLeg(s) ==
  /\ exec.phase = "flatten" /\ s \in exec.todo
  /\ \/ net' = Traded(Current, s, -exec.filled[s]) /\ UNCHANGED resting
     \/ /\ "flatten_fails" \in Faults
        /\ \E q \in {0, exec.filled[s]} : Rests(Ticket(Current, s, "BUY"), q)
        /\ UNCHANGED net
  /\ exec' = [exec EXCEPT !.todo = @ \ {s}]
  /\ UNCHANGED busVars

\* _reconcile_flat cancels the known orders of the book, each at best, and
\* waits for the fills under way.
CancelResting ==
  /\ exec.phase = "flatten" /\ exec.todo = {}
  /\ \E cancelled \in SUBSET {t \in Tickets : t.book = Current.book /\ t.way = "SELL"} :
       resting' = [t \in Tickets |-> IF t \in cancelled THEN 0 ELSE resting[t]]
  /\ exec' = [exec EXCEPT !.phase = "settling"]
  /\ UNCHANGED <<busVars, net>>

\* Fault: what the legs reported is squared, and not what the positions show.
ReadPositionsReported ==
  /\ exec.phase = "settling"
  /\ exec' = [Idle EXCEPT !.phase = "squaring", !.seen = exec.filled,
                !.todo = {s \in Current.legs : exec.filled[s] # 0}]
  /\ UNCHANGED <<busVars, net, resting>>

\* The position of order o in side s: what get_positions says of its symbol.
PositionOf(o, s) == IF s \in o.legs THEN net[o.book][s][o.strikes[s]] ELSE 0

\* get_positions answers with what is left of the legs, or does not answer.
ReadPositions ==
  /\ exec.phase = "settling"
  /\ \/ exec' = [Idle EXCEPT !.phase = "squaring",
                   !.seen = [s \in Sides |-> PositionOf(Current, s)],
                   !.todo = {s \in Sides : PositionOf(Current, s) # 0}]
     \/ "reconcile_fails" \in Faults /\ exec' = [Idle EXCEPT !.phase = "squaring"]
  /\ UNCHANGED <<busVars, net, resting>>

\* Market order against the position that was read.
SquareLeg(s) ==
  /\ exec.phase = "squaring" /\ s \in exec.todo
  /\ \/ net' = Traded(Current, s, -exec.seen[s]) /\ UNCHANGED resting
     \/ /\ "reconcile_fails" \in Faults
        /\ \/ UNCHANGED resting
           \/ exec.seen[s] > 0 /\ Rests(Ticket(Current, s, "BUY"), exec.seen[s])
           \/ exec.seen[s] < 0 /\ Rests(Ticket(Current, s, "SELL"), -exec.seen[s])
        /\ UNCHANGED net
  /\ exec' = [exec EXCEPT !.todo = @ \ {s}]
  /\ UNCHANGED busVars

AbortEntry ==
  /\ exec.phase = "squaring" /\ exec.todo = {}
  /\ Finish
  /\ PublishFill(FillOf(Current, TRUE))
  /\ UNCHANGED <<net, resting>>

BridgeStep ==
  \/ DropUnrouted \/ PaperFill \/ StartLive
  \/ \E s \in Sides : \E q, r \in 0..Qty : LegDone(s, q, r)
  \/ \E t \in Tickets : \E q \in 1..resting[t] : LateFill(t, q)
  \/ \E s \in Sides : FlattenLeg(s) \/ SquareLeg(s)
  \/ ConfirmFill \/ StartFlatten \/ CancelResting \/ ReadPositions \/ AbortEntry

BridgeInit ==
  /\ exec = Idle
  /\ net = [b \in Books |-> [s \in Sides |-> [k \in Strikes |-> 0]]]
  /\ resting = [t \in Tickets |-> 0]

BridgeTypeOK ==
  /\ exec \in Exec
  /\ net \in [Books -> [Sides -> [Strikes -> Int]]]
  /\ resting \in [Tickets -> Nat]
=============================================================================
