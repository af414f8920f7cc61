------------------------- MODULE StraddleSettlement ------------------------
(***************************************************************************)
(* Why the desk settles: the orders of one side of one book, between the   *)
(* exchange account and the position in memory, form a chain.  The chain   *)
(* is the core of the inductive invariant behind Settled, and the queue of *)
(* decisions of LaggedAccount.                                             *)
(***************************************************************************)
EXTENDS StraddleTrading

\* Every leg that reaches the exchange fills; books are restarted at most by
\* the manager, and by the client with the Run toggle.
Toggled ==
  /\ Faults \subseteq {"manager_read_error", "run_off"}
  /\ EntryFills = {Qty} /\ ExitFills = {Qty}

\* The client leaves the switches alone.
Reliable == Toggled /\ "run_off" \notin Faults

\* The sides of the order at the head of the queue not yet executed.
Left == IF exec.phase = "idle" THEN Sides ELSE exec.todo

Before(o, s) == IF o.action = "ENTRY" THEN Flat ELSE o.strikes[s]
After(o, s) == IF o.action = "ENTRY" THEN o.strikes[s] ELSE Flat

\* Order i of queue q has still to move side s of book b.
Touches(q, left, i, b, s) ==
  q[i].book = b /\ s \in q[i].legs /\ (i = 1 => s \in left)

\* From leg h to belief k: the first order that touches the side finds leg h,
\* each later one the leg its predecessor leaves, and the last one leaves what
\* the book believes.
Linked(q, left, b, s, h, k) ==
  LET n == Len(q)
      T(i) == Touches(q, left, i, b, s)
  IN  /\ (\A i \in 1..n : ~T(i)) => h = k
      /\ \A i \in 1..n : T(i) /\ (\A j \in 1..(i-1) : ~T(j)) => h = Before(q[i], s)
      /\ \A i \in 1..n : T(i) /\ (\A j \in (i+1)..n : ~T(j)) => After(q[i], s) = k
      /\ \A i \in 1..n, j \in 1..n :
           i < j /\ T(i) /\ T(j) /\ (\A m \in (i+1)..(j-1) : ~T(m))
             => After(q[i], s) = Before(q[j], s)

\* Account a of one side is where leg h puts it.  An entry that finds the Run
\* toggle off is dropped (_handle), and leaves the account short of less.
Within(a, h) ==
  IF "run_off" \in Faults THEN \A j \in Strikes : a[j] <= (IF j = h THEN Qty ELSE 0)
                          ELSE ShortOf(a, h)

\* From account a to belief k runs a chain of orders.
Chained(q, left, b, s, a, k) ==
  \E h \in Strikes \cup {Flat} : Within(a, h) /\ Linked(q, left, b, s, h, k)

SettlementChain ==
  \A b \in Live, s \in Sides : Chained(orderQ, Left, b, s, net[b][s], Believed(b, s))

\* What is left of the environment: one session, the terminal on, and the Run
\* toggle as the client has it.
OneSession ==
  /\ day = 1 /\ \A b \in Books : sday[b] \in {0, day}
  /\ \A b \in Books : terminal[b] /\ op[b] # "disconnecting"
  /\ "run_off" \notin Faults => \A b \in Books : run[b] /\ op[b] = "none"

\* A stored position is of today, so that a restart does restore it.
FilesOfToday == \A b \in Books : store[b].pos # NoPosition => store[b].day = day

\* No entry is ever aborted, so no fill takes a position away.
NoAborts == \A b \in Books : \A i \in 1..Len(fillQ[b]) : ~fillQ[b][i].aborted

\* The bridge sends legs of live books only, and what it sent has filled.
LegsFill ==
  /\ exec.phase \in {"idle", "legs"} /\ \A t \in Tickets : resting[t] = 0
  /\ exec.phase = "legs" =>
       /\ Current.book \in Live /\ exec.todo \subseteq Current.legs
       /\ \A s \in Current.legs \ exec.todo : exec.filled[s] = Qty

\* The inductive invariant that implies Settled, OneShortPerSide and
\* NoStrandedShort: between an account and a book's belief runs the chain of its
\* orders (_close_position, _single_side_roll, _live_fill), whatever is queued,
\* half executed, dropped or restarted.
SettlementInv ==
  /\ TypeOK /\ Busy
  /\ OneSession /\ FilesOfToday /\ NoAborts /\ LegsFill
  /\ StoreMatches
  /\ SettlementChain

----------------------------------------------------------------------------
(* The desk implements LaggedAccount *)

\* The leg account a of one side is short, Flat if none.
LegOf(a) == IF ShortOf(a, Flat) THEN Flat ELSE CHOOSE k \in Strikes : ShortOf(a, k)

HeldLeg(b, s) == LegOf(net[b][s])

\* The orders of queue q that have still to move side s of book b.
Waiting(q, left, b, s) == {i \in 1..Len(q) : Touches(q, left, i, b, s)}

\* Member m of a set of numbers, from the least.
Turn(T, i) == Cardinality({j \in T : j <= i})
Nth(T, m) == CHOOSE i \in T : Turn(T, i) = m

\* The legs these orders leave, one after the other.
LegsOf(q, left, b, s) ==
  LET T == Waiting(q, left, b, s)
  IN  [m \in 1..Cardinality(T) |-> After(q[Nth(T, m)], s)]

Outstanding(b, s) == LegsOf(orderQ, Left, b, s)

Account == INSTANCE LaggedAccount WITH
  Accounts <- Live,
  believed <- [b \in Live |-> [s \in Sides |-> Believed(b, s)]],
  todo <- [b \in Live |-> [s \in Sides |-> Outstanding(b, s)]],
  account <- [b \in Live |-> [s \in Sides |-> HeldLeg(b, s)]]

\* Refinement: each live account goes through the legs its book decided on
\* (_open_position, _single_side_roll, _close_position), in order, none lost
\* and none repeated.
ImplementsLaggedAccount == Account!Spec
=============================================================================
