--------------------------- MODULE LaggedAccount ---------------------------
(***************************************************************************)
(* What the desk promises about an exchange account, without books, bus or *)
(* bridge: the strategy decides on legs, the account reaches the decided   *)
(* states one leg at a time, in the order they were decided, none left out *)
(* and none repeated.  A leg is Flat or short at one strike.               *)
(***************************************************************************)
EXTENDS Sequences

CONSTANTS Accounts, Sides, Strikes, Flat

VARIABLES
  believed,  \* believed[b][s]: the leg the strategy last decided on
  todo,      \* todo[b][s]: decided states the account has still to reach
  account    \* account[b][s]: the leg at the exchange

vars == <<believed, todo, account>>

\* From a flat leg to a sold one; from a sold leg to flat, or through flat to
\* another strike.
Decisions(h) ==
  IF h = Flat THEN {<<k>> : k \in Strikes}
  ELSE {<<Flat>>} \cup {<<Flat, k>> : k \in Strikes \ {h}}

Decided(b, s) ==
  \E d \in Decisions(believed[b][s]) :
    /\ todo'[b][s] = todo[b][s] \o d
    /\ believed'[b][s] = d[Len(d)]

Unmoved(b, s) == todo'[b][s] = todo[b][s] /\ believed'[b][s] = believed[b][s]

Decide(b) ==
  /\ \A s \in Sides : Decided(b, s) \/ Unmoved(b, s)
  /\ \A c \in Accounts \ {b} : todo'[c] = todo[c] /\ believed'[c] = believed[c]
  /\ UNCHANGED account

Execute(b, s) ==
  /\ todo[b][s] # <<>>
  /\ account' = [account EXCEPT ![b][s] = Head(todo[b][s])]
  /\ todo' = [todo EXCEPT ![b][s] = Tail(todo[b][s])]
  /\ UNCHANGED believed

Init ==
  /\ believed = [b \in Accounts |-> [s \in Sides |-> Flat]]
  /\ todo = [b \in Accounts |-> [s \in Sides |-> <<>>]]
  /\ account = [b \in Accounts |-> [s \in Sides |-> Flat]]

Next == \E b \in Accounts : Decide(b) \/ \E s \in Sides : Execute(b, s)

Spec == Init /\ [][Next]_vars
=============================================================================
