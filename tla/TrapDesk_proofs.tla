--------------------------- MODULE TrapDesk_proofs ---------------------------
(***************************************************************************)
(* The engine's position, its file and the account, for any number of      *)
(* zones, sessions and faults in a behaviour.                              *)
(***************************************************************************)
EXTENDS TrapDesk, FiniteSetTheorems, TLAPS

USE TrapAssumption DEF Total, Half

----------------------------------------------------------------------------
(* Types *)

\* A position is whole until its target is hit and half from then on.
Whole(p) == p # NoPos => p.rem = IF p.t1 THEN Half ELSE Total

\* With TypeOK: what makes every quantity that is sold positive, and gives every
\* order a strike.
TypeInv ==
  /\ TypeOK /\ Whole(pos) /\ Whole(file)
  /\ \A z \in Zones : entry[z].at \in {"order", "sent"} => entry[z].rungs # <<>>

\* A trade changes one contract.
LEMMA TradeEffect ==
  ASSUME held \in [Contracts -> Int], NEW c \in Contracts, NEW q \in Int, Trade(c, q)
  PROVE  /\ held' \in [Contracts -> Int]
         /\ \A d \in Contracts : held'[d] = held[d] + (IF d = c THEN q ELSE 0)
<1>1. held[c] + q \in Int
  OBVIOUS
<1> QED
  BY <1>1 DEF Trade

\* Nothing, no order and no position are not of the records.
LEMMA Apart ==
  /\ NoExit \notin Exits /\ NoPos \notin Positions
  /\ NoExit.kind = "none"
  /\ NoEntry \in Entries /\ NoEntry.at = "none" /\ NoEntry.bought = FALSE
<1>1. NoEntry \in Entries
  <2>1. <<>> \in LadderRests
    BY DEF LadderRests, Ladders
  <2> QED
    BY <2>1 DEF NoEntry, Entries
<1>2. NoPos \notin Positions
  BY DEF NoPos, Positions
<1>3. NoExit \notin Exits
  BY DEF NoExit, Exits
<1> QED
  BY <1>1, <1>2, <1>3 DEF NoEntry, NoExit

\* The strikes that are left are strikes.
LEMMA LadderParts ==
  /\ \A l \in Ladders : l \in LadderRests /\ l # <<>>
  /\ \A l \in LadderRests : l # <<>> => Head(l) \in Rungs /\ Tail(l) \in LadderRests
<1>1. ASSUME NEW r \in {"itm", "atm"}
      PROVE  LET l == <<r, "atm", "otm">> IN
             /\ Tail(l) = <<"atm", "otm">> /\ Tail(Tail(l)) = <<"otm">>
             /\ Tail(<<"otm">>) = <<>> /\ l # <<>>
  OBVIOUS
<1>2. \A l \in LadderRests : \/ l = <<>> \/ l = <<"otm">> \/ l = <<"atm", "otm">>
                             \/ \E r \in {"itm", "atm"} : l = <<r, "atm", "otm">>
  BY DEF LadderRests, Ladders
<1>3. /\ \A r \in {"itm", "atm"} : <<r, "atm", "otm">> \in LadderRests
      /\ <<"atm", "otm">> \in LadderRests /\ <<"otm">> \in LadderRests /\ <<>> \in LadderRests
  BY DEF LadderRests, Ladders
<1>4. \A l \in Ladders : \E r \in {"itm", "atm"} : l = <<r, "atm", "otm">>
  BY DEF Ladders
<1>5. Head(<<"otm">>) = "otm" /\ Head(<<"atm", "otm">>) = "atm"
      /\ \A r \in {"itm", "atm"} : Head(<<r, "atm", "otm">>) = r
  OBVIOUS
<1> QED
  BY <1>1, <1>2, <1>3, <1>4, <1>5 DEF Rungs

\* The initial states are typed.
LEMMA TrapInitType == TrapInit => TypeInv
<1> SUFFICES ASSUME TrapInit PROVE TypeInv
  OBVIOUS
<1>1. entry \in [Zones -> Entries] /\ \A z \in Zones : entry[z].at = "none"
  BY Apart DEF TrapInit
<1>2. {running, ready, initDone, noMargin} \subseteq BOOLEAN
  BY DEF TrapInit
<1>3. held \in [Contracts -> Int] /\ \A c \in Contracts : held[c] <= MaxHeld
  BY DEF TrapInit
<1>4. exit \in [Loops -> Exits \cup {NoExit}]
  BY DEF TrapInit
<1> QED
  BY <1>1, <1>2, <1>3, <1>4 DEF TrapInit, TypeInv, TypeOK, Whole

\* The parts of a position that is held.
LEMMA PosParts ==
  ASSUME TypeInv, pos # NoPos
  PROVE  /\ pos \in Positions /\ pos.con \in Contracts /\ pos.day \in 1..MaxDay
         /\ pos.t1 \in BOOLEAN /\ pos.rem \in {Half, Total} /\ (~pos.t1 => pos.rem = Total)
<1>1. pos \in Positions
  BY DEF TypeInv, TypeOK
<1>2. pos.con \in Contracts /\ pos.day \in 1..MaxDay /\ pos.t1 \in BOOLEAN
  BY <1>1 DEF Positions
<1> QED
  BY <1>1, <1>2 DEF TypeInv, Whole

\* What T1Hit makes of the position.
LEMMA Halved ==
  ASSUME TypeInv, pos # NoPos, ~pos.t1,
         pos' = [pos EXCEPT !.t1 = TRUE, !.rem = @ - Half, !.trail = SpotAtEntry]
  PROVE  /\ pos' \in Positions /\ pos' # NoPos /\ pos'.con = pos.con /\ pos'.day = pos.day
         /\ pos'.t1 = TRUE /\ pos'.rem = Half
<1>1. pos \in Positions /\ pos.rem = Total
  BY PosParts
<1>2. SpotAtEntry \in Ticks \cup {Underlying}
  BY DEF SpotAtEntry, EntryRank, Ticks
<1>3. pos' = [con |-> pos.con, rem |-> pos.rem - Half, t1 |-> TRUE,
              trail |-> SpotAtEntry, day |-> pos.day]
  BY <1>1 DEF Positions
<1>4. pos.con \in Contracts /\ pos.day \in 1..MaxDay /\ pos.rem - Half \in 0..Total
  BY <1>1, PosParts
<1>5. pos' \in Positions
  BY <1>2, <1>3, <1>4, Zenon DEF Positions
<1> QED
  BY <1>1, <1>3, <1>5, Apart

\* What trailing makes of the position.
LEMMA Lifted ==
  ASSUME TypeInv, pos # NoPos, NEW r \in Ticks, pos' = [pos EXCEPT !.trail = r]
  PROVE  /\ pos' \in Positions /\ pos' # NoPos /\ pos'.con = pos.con /\ pos'.day = pos.day
         /\ pos'.t1 = pos.t1 /\ pos'.rem = pos.rem
<1>1. pos \in Positions
  BY PosParts
<1>2. /\ pos'.con = pos.con /\ pos'.day = pos.day
      /\ pos'.t1 = pos.t1 /\ pos'.rem = pos.rem
  BY <1>1 DEF Positions
<1>3. pos' \in Positions
  BY <1>1 DEF Positions
<1> QED
  BY <1>2, <1>3, Apart

\* An exit order is on its way.
LEMMA SellingType ==
  ASSUME exit \in [Loops -> Exits \cup {NoExit}], NEW l \in Loops,
         NEW kind \in {"T1", "SL", "FLOOR", "EOD"}, NEW con \in Contracts,
         NEW qty \in 1..Total, NEW price \in Ticks, Selling(l, kind, con, qty, price)
  PROVE  /\ exit' \in [Loops -> Exits \cup {NoExit}] /\ exit'[l] # NoExit
         /\ exit'[l].kind = kind /\ exit'[l].con = con /\ exit'[l].qty = qty
         /\ \A m \in Loops : m # l => exit'[m] = exit[m]
<1> DEFINE x == [kind |-> kind, con |-> con, qty |-> qty, price |-> price]
<1>1. x \in Exits
  BY DEF Exits
<1>2. exit' = [exit EXCEPT ![l] = x]
  BY DEF Selling
<1>3. x.kind = kind /\ x.con = con /\ x.qty = qty
  OBVIOUS
<1>4. x # NoExit
  BY <1>1, Apart
<1> HIDE DEF x
<1> QED
  BY <1>1, <1>2, <1>3, <1>4

\* An exit that comes back has traded or has been refused.
LEMMA SoldEffect ==
  ASSUME TypeInv, NEW l \in Loops, exit[l] # NoExit, Sold(l)
  PROVE  /\ exit[l] \in Exits /\ exit[l].con \in Contracts /\ exit[l].qty \in 1..Total
         /\ exit[l].price \in Ticks
         /\ held' \in [Contracts -> Int] /\ \A c \in Contracts : held'[c] <= MaxHeld
         /\ \/ /\ "exit_refused" \in faults /\ held' = held
            \/ \A c \in Contracts :
                 held'[c] = held[c] - (IF c = exit[l].con THEN exit[l].qty ELSE 0)
<1>1. exit[l] \in Exits
  BY DEF TypeInv, TypeOK
<1>2. exit[l].con \in Contracts /\ exit[l].qty \in 1..Total /\ exit[l].price \in Ticks
  BY <1>1 DEF Exits
<1>3. held \in [Contracts -> Int] /\ \A c \in Contracts : held[c] <= MaxHeld
  BY DEF TypeInv, TypeOK
<1>4. CASE Trade(exit[l].con, -exit[l].qty)
  <2> DEFINE q == -exit[l].qty
  <2>1. q \in Int
    BY <1>2
  <2>2. /\ held' \in [Contracts -> Int]
        /\ \A d \in Contracts : held'[d] = held[d] + (IF d = exit[l].con THEN q ELSE 0)
    BY <1>2, <1>3, <1>4, <2>1, TradeEffect
  <2>3. \A c \in Contracts :
          held'[c] = held[c] - (IF c = exit[l].con THEN exit[l].qty ELSE 0)
    BY <1>2, <1>3, <2>2
  <2>4. \A c \in Contracts : held'[c] <= MaxHeld
    <3> SUFFICES ASSUME NEW c \in Contracts PROVE held'[c] <= MaxHeld
      OBVIOUS
    <3>1. held[c] \in Int /\ held[c] <= MaxHeld /\ MaxHeld \in Int
      BY <1>3
    <3> QED
      BY <1>2, <2>3, <3>1
  <2> QED
    BY <1>1, <1>2, <2>2, <2>3, <2>4
<1>5. CASE "exit_refused" \in faults /\ UNCHANGED held
  BY <1>1, <1>2, <1>3, <1>5
<1> QED
  BY <1>4, <1>5 DEF Sold, ExitTrades

----------------------------------------------------------------------------
(* The file *)

\* An engine that has not read its file has no position and no task of its own.
Owned ==
  /\ ready => initDone
  /\ initDone => running
  /\ ~initDone => pos = NoPos
  /\ \A z \in Zones : entry[z].at # "none" /\ entry[z].orphan = FALSE => initDone
  /\ phase = "closing" => ~Entering
  /\ phase # "closing" => exit["life"] = NoExit

\* Without a stop in an entry every task is the engine's own, and outside the
\* half exit the file is the position.
Paired ==
  /\ \A z \in Zones : entry[z].at # "none" => entry[z].orphan = FALSE
  /\ initDone /\ exit["opt"].kind # "T1" => file = pos

FileInv == TypeInv /\ Owned /\ (Survives({"stop_in_entry"}) => Paired)

----------------------------------------------------------------------------
(* The account *)

\* The strike an entry task is at.
At(z) == <<z[1], Head(entry[z].rungs)>>

\* What a position, or its file, answers for today.
ShareOf(p, c) == IF p # NoPos /\ p.con = c /\ p.day = day THEN p.rem ELSE 0

\* A half that the position counts as sold while its order is at the broker.
HalfAway(c) == IF exit["opt"].kind = "T1" /\ exit["opt"].con = c THEN Half ELSE 0

\* The tasks whose order has traded and whose position is still to be made.
Bought(c) == {z \in Zones : entry[z].at = "sent" /\ entry[z].bought /\ At(z) = c}

\* An exit that ends the position, whichever loop sent it.
Closes(l) == exit[l] # NoExit /\ exit[l].kind # "T1"

\* T1 is the option loop's, of a half.
HalfExits ==
  /\ exit["opt"].kind = "T1" => exit["opt"].qty = Half
  /\ exit["idx"].kind # "T1" /\ exit["life"].kind # "T1"

\* With no fault but overlapping exits: one task at a time, and none with a
\* position; an exit is of the position, as long as there is one.
Orderly ==
  /\ ready /\ pos # NoPos => pos.day = day
  /\ Entering => pos = NoPos
  /\ \A y, z \in Zones : entry[y].at # "none" /\ entry[z].at # "none" => y = z
  /\ HalfExits
  /\ \A l \in Loops : Closes(l) => /\ l \in {ExitLoop, "life"}
                                   /\ pos = NoPos \/ pos.con = exit[l].con
  /\ phase # "closing" /\ exit[ExitLoop] # NoExit => pos # NoPos
  /\ source = "option" /\ exit["opt"].kind = "T1" => pos = NoPos \/ pos.t1 = TRUE
  /\ ~initDone /\ InFlight => phase = "closing" /\ file = NoPos

\* What an order that has traded will add to the position.
Due(c) == IF Bought(c) = {} THEN 0 ELSE Total

\* No contract is left over: the account is covered by the position, what is
\* still to be booked and what is already at the broker.
Covered ==
  /\ \A c \in Contracts : held[c] <= Share(c) + HalfAway(c) + Due(c)
  /\ \A l \in Loops :
       Closes(l) => held[exit[l].con] <= exit[l].qty + HalfAway(exit[l].con)

Calm == Survives(Faults \ {"overlap"})

ForgottenInv == FileInv /\ (Calm => Orderly /\ Covered)

\* Without overlapping exits and stops in one: one exit at a time, by an engine
\* that is ready, of a position of today.
OneExit ==
  /\ \A l, m \in Loops : exit[l] # NoExit /\ exit[m] # NoExit => l = m
  /\ InFlight => ready
  /\ ready => running /\ (pos # NoPos => pos.day = day)
  /\ pos # NoPos => pos.day <= day
  /\ file # NoPos => file.day <= day
  /\ HalfExits

\* The account can serve the position, the file and the exit at the broker,
\* each with every order that is still to be booked.
Backed ==
  /\ \A c \in Contracts :
       /\ held[c] >= ShareOf(pos, c) + HalfAway(c) + Total * Cardinality(Bought(c))
       /\ held[c] >= ShareOf(file, c) + Total * Cardinality(Bought(c))
  /\ \A l \in Loops :
       Closes(l) =>
         held[exit[l].con] >= exit[l].qty + Total * Cardinality(Bought(exit[l].con))

OversoldInv == FileInv /\ (Survives({"overlap", "stop_in_exit"}) => OneExit /\ Backed)

----------------------------------------------------------------------------
(* Every step keeps the types *)

\* The exits and the trailing stops.
LEMMA ExitsType ==
  ASSUME TypeInv,
         \/ \E p \in Ticks : T1Hit(p) \/ StopHit(p) \/ FloorHit(p)
         \/ \E r \in Ticks : FuturesTrail(r) \/ TrapTrail(r)
         \/ T1Done \/ \E l \in Loops : ExitDone(l)
  PROVE  TypeInv'
<1> USE DEF setup, clock, flags
<1>1. /\ exit \in [Loops -> Exits \cup {NoExit}]
      /\ {"opt", "idx", "life"} \subseteq Loops /\ ExitLoop \in Loops
  BY DEF TypeInv, TypeOK, Loops, ExitLoop
<1>2. ASSUME NEW p \in Ticks, T1Hit(p) PROVE TypeInv'
  <2>1. pos # NoPos /\ ~pos.t1
    BY <1>2 DEF T1Hit, MayExit, TargetReached
  <2>2. /\ pos' \in Positions /\ pos'.t1 = TRUE /\ pos'.rem = Half /\ pos.con \in Contracts
    BY <1>2, <2>1, Halved, PosParts DEF T1Hit
  <2>3. exit' \in [Loops -> Exits \cup {NoExit}]
    <3>1. Half \in 1..Total /\ Selling("opt", "T1", pos.con, Half, p)
      BY <1>2 DEF T1Hit
    <3> QED
      BY <1>1, <2>2, <3>1, SellingType
  <2> QED
    BY <1>2, <2>2, <2>3 DEF T1Hit, TypeInv, TypeOK, Whole
<1>3. ASSUME NEW p \in Ticks, StopHit(p) \/ FloorHit(p) PROVE TypeInv'
  <2>1. pos.con \in Contracts /\ pos.rem \in 1..Total
    BY <1>3, PosParts DEF StopHit, FloorHit, MayExit
  <2>2. exit' \in [Loops -> Exits \cup {NoExit}]
    BY <1>1, <1>3, <2>1, SellingType DEF StopHit, FloorHit
  <2> QED
    BY <1>3, <2>2 DEF StopHit, FloorHit, TypeInv, TypeOK, Whole
<1>4. ASSUME NEW r \in Ticks, FuturesTrail(r) \/ TrapTrail(r) PROVE TypeInv'
  <2>1. pos # NoPos /\ pos' = [pos EXCEPT !.trail = r] /\ file' = pos'
    BY <1>4 DEF FuturesTrail, TrapTrail, Trailed, Persist
  <2>2. pos' \in Positions /\ pos'.t1 = pos.t1 /\ pos'.rem = pos.rem
    BY <2>1, Lifted
  <2> QED
    BY <1>4, <2>1, <2>2 DEF FuturesTrail, TrapTrail, Trailed, TypeInv, TypeOK, Whole
<1>5. CASE T1Done
  <2>1. /\ exit["opt"].price \in Ticks
        /\ held' \in [Contracts -> Int] /\ \A c \in Contracts : held'[c] <= MaxHeld
    BY <1>1, <1>5, SoldEffect DEF T1Done
  <2>2. exit' \in [Loops -> Exits \cup {NoExit}]
    <3>1. CASE /\ pos # NoPos
               /\ Selling("opt", "SL", pos.con, Total - Half, exit["opt"].price)
      <4>1. pos.con \in Contracts /\ Total - Half \in 1..Total
        BY <3>1, PosParts
      <4> QED
        BY <1>1, <2>1, <3>1, <4>1, SellingType
    <3>2. CASE exit' = [exit EXCEPT !["opt"] = NoExit]
      BY <1>1, <3>2
    <3> QED
      BY <1>5, <3>1, <3>2 DEF T1Done
  <2> QED
    BY <1>5, <2>1, <2>2 DEF T1Done, Persist, TypeInv, TypeOK, Whole
<1>6. ASSUME NEW l \in Loops, ExitDone(l) PROVE TypeInv'
  <2>1. held' \in [Contracts -> Int] /\ \A c \in Contracts : held'[c] <= MaxHeld
    BY <1>6, SoldEffect DEF ExitDone
  <2>2. exit' \in [Loops -> Exits \cup {NoExit}]
    BY <1>1, <1>6 DEF ExitDone
  <2> QED
    BY <1>6, <2>1, <2>2 DEF ExitDone, Cleared, TypeInv, TypeOK, Whole
<1> QED
  BY <1>2, <1>3, <1>4, <1>5, <1>6

\* A zone is of a side, and its strike is a contract.
LEMMA AtType ==
  ASSUME TypeInv, NEW z \in Zones, entry[z].at \in {"order", "sent"}
  PROVE  At(z) \in Contracts /\ entry[z] \in Entries /\ Tail(entry[z].rungs) \in LadderRests
<1>1. entry[z] \in Entries
  BY DEF TypeInv, TypeOK
<1>2. entry[z].rungs \in LadderRests /\ entry[z].rungs # <<>>
  BY <1>1 DEF TypeInv, Entries
<1>3. z[1] \in Sides
  BY DEF Zones
<1> QED
  BY <1>1, <1>2, <1>3, LadderParts DEF At, Contracts

\* A task, field by field.
LEMMA TaskFields ==
  /\ \A k \in {"none", "quotes", "order", "sent"}, r \in LadderRests, u, v \in BOOLEAN :
       LET e == [at |-> k, rungs |-> r, bought |-> u, orphan |-> v] IN
       e \in Entries /\ e.at = k /\ e.rungs = r /\ e.bought = u /\ e.orphan = v
  /\ \A x \in Entries : /\ x.at \in {"none", "quotes", "order", "sent"} /\ x.rungs \in LadderRests
                        /\ x.bought \in BOOLEAN /\ x.orphan \in BOOLEAN
  BY ZenonT(60) DEF Entries

\* An entry task moves: the types are its own.
LEMMA TaskType ==
  ASSUME TypeInv, NEW z \in Zones, NEW x \in Entries, entry' = [entry EXCEPT ![z] = x],
         x.at \in {"order", "sent"} => x.rungs # <<>>
  PROVE  /\ entry' \in [Zones -> Entries]
         /\ \A y \in Zones : entry'[y].at \in {"order", "sent"} => entry'[y].rungs # <<>>
  BY DEF TypeInv, TypeOK

\* What a step of an entry task makes of it, and of nothing else.
LEMMA TaskSteps ==
  ASSUME TypeInv, NEW z \in Zones,
         \/ StartEntry(z) \/ PickStrike(z) \/ PlaceEntry(z)
         \/ EntryFilled(z) \/ EntryNotFilled(z) \/ EntryFails(z)
  PROVE  /\ \A y \in Zones : y # z => entry'[y] = entry[y]
         /\ StartEntry(z) => entry[z].at = "none" /\ entry'[z].at = "quotes" /\ entry'[z].orphan = FALSE
         /\ ~StartEntry(z) => entry[z].at # "none"
         /\ PickStrike(z) \/ EntryNotFilled(z) =>
              \/ entry'[z] = NoEntry
              \/ entry'[z].at = "order" /\ entry'[z].orphan = entry[z].orphan
         /\ PlaceEntry(z) => /\ entry[z].at = "order" /\ entry'[z].at = "sent"
                             /\ entry'[z].rungs = entry[z].rungs
                             /\ entry'[z].orphan = entry[z].orphan
         /\ EntryFilled(z) \/ EntryFails(z) => entry'[z] = NoEntry
<1> DEFINE x == entry'[z]
           o == entry[z]
<1>1. entry \in [Zones -> Entries] /\ o \in Entries
  BY DEF TypeInv, TypeOK
<1>2. \A y \in Zones : y # z => entry'[y] = entry[y]
  BY <1>1 DEF StartEntry, PickStrike, PlaceEntry, EntryFilled, EntryNotFilled, EntryFails
<1>3. StartEntry(z) => entry[z].at = "none" /\ entry'[z].at = "quotes" /\ entry'[z].orphan = FALSE
  BY <1>1 DEF StartEntry, Entry, NoEntry
<1>4. ~StartEntry(z) => entry[z].at # "none"
  BY DEF PickStrike, PlaceEntry, EntryFilled, EntryNotFilled, EntryFails, Entry
<1>5. ASSUME PickStrike(z)
      PROVE  x = NoEntry \/ (x.at = "order" /\ x.orphan = o.orphan)
  <2>1. CASE entry' = [entry EXCEPT ![z] = NoEntry]
    BY <1>1, <2>1
  <2>2. ASSUME NEW l \in Ladders,
               entry' = [entry EXCEPT ![z] = [@ EXCEPT !.at = "order", !.rungs = l]]
        PROVE  x.at = "order" /\ x.orphan = o.orphan
    <3>1. x = [o EXCEPT !.at = "order", !.rungs = l]
      BY <1>1, <2>2
    <3> HIDE DEF x, o
    <3>2. x = [at |-> "order", rungs |-> l, bought |-> o.bought, orphan |-> o.orphan]
      BY <1>1, <3>1 DEF Entries
    <3> QED
      BY <3>2
  <2> QED
    BY <1>5, <2>1, <2>2 DEF PickStrike
<1>6. ASSUME EntryNotFilled(z)
      PROVE  x = NoEntry \/ (x.at = "order" /\ x.orphan = o.orphan)
  <2>1. CASE entry' = [entry EXCEPT ![z] = NoEntry]
    BY <1>1, <2>1
  <2>2. CASE entry' = [entry EXCEPT ![z] = [@ EXCEPT !.at = "order", !.rungs = Tail(o.rungs),
                                                     !.bought = FALSE]]
    <3>1. x = [o EXCEPT !.at = "order", !.rungs = Tail(o.rungs), !.bought = FALSE]
      BY <1>1, <2>2
    <3> HIDE DEF x, o
    <3>2. x = [at |-> "order", rungs |-> Tail(o.rungs), bought |-> FALSE, orphan |-> o.orphan]
      BY <1>1, <3>1 DEF Entries
    <3> QED
      BY <3>2
  <2> QED
    BY <1>6, <2>1, <2>2 DEF EntryNotFilled
<1>7. ASSUME PlaceEntry(z)
      PROVE  o.at = "order" /\ x.at = "sent" /\ x.rungs = o.rungs /\ x.orphan = o.orphan
  <2>1. PICK b \in BOOLEAN :
          entry' = [entry EXCEPT ![z] = [@ EXCEPT !.at = "sent", !.bought = b]]
    BY <1>7 DEF PlaceEntry
  <2>2. x = [o EXCEPT !.at = "sent", !.bought = b] /\ o.at = "order"
    BY <1>1, <1>7, <2>1 DEF PlaceEntry, Entry
  <2> HIDE DEF x, o
  <2>3. x = [at |-> "sent", rungs |-> o.rungs, bought |-> b, orphan |-> o.orphan]
    BY <1>1, <2>2 DEF Entries
  <2> QED
    BY <2>2, <2>3
<1>8. EntryFilled(z) \/ EntryFails(z) => x = NoEntry
  BY <1>1 DEF EntryFilled, EntryFails
<1> QED
  BY <1>2, <1>3, <1>4, <1>5, <1>6, <1>7, <1>8

\* The entry tasks.
LEMMA EntriesType ==
  ASSUME TypeInv,
         \E z \in Zones : \/ StartEntry(z) \/ PickStrike(z) \/ PlaceEntry(z)
                          \/ EntryFilled(z) \/ EntryNotFilled(z) \/ EntryFails(z)
  PROVE  TypeInv'
<1> USE DEF setup, clock, flags
<1>1. PICK z \in Zones : \/ StartEntry(z) \/ PickStrike(z) \/ PlaceEntry(z)
                         \/ EntryFilled(z) \/ EntryNotFilled(z) \/ EntryFails(z)
  OBVIOUS
<1>2. /\ entry \in [Zones -> Entries] /\ entry[z] \in Entries
      /\ held \in [Contracts -> Int] /\ \A c \in Contracts : held[c] <= MaxHeld
  BY DEF TypeInv, TypeOK
<1>3. CASE StartEntry(z)
  <2> DEFINE x == [NoEntry EXCEPT !.at = "quotes"]
  <2>1. x \in Entries /\ x.at = "quotes"
    BY Apart DEF Entries
  <2>2. /\ entry' \in [Zones -> Entries]
        /\ \A y \in Zones : entry'[y].at \in {"order", "sent"} => entry'[y].rungs # <<>>
    BY <1>3, <2>1, TaskType DEF StartEntry
  <2> QED
    BY <1>3, <2>2 DEF StartEntry, TypeInv, TypeOK, Whole
<1>4. CASE PickStrike(z)
  <2>1. CASE entry' = [entry EXCEPT ![z] = NoEntry]
    BY <1>4, <2>1, TaskType, Apart DEF PickStrike, TypeInv, TypeOK, Whole
  <2>2. ASSUME NEW l \in Ladders,
               entry' = [entry EXCEPT ![z] = [@ EXCEPT !.at = "order", !.rungs = l]]
        PROVE  TypeInv'
    <3> DEFINE x == entry'[z]
    <3>1. x = [entry[z] EXCEPT !.at = "order", !.rungs = l] /\ entry' = [entry EXCEPT ![z] = x]
      BY <1>2, <2>2
    <3> HIDE DEF x
    <3>2. x \in Entries /\ x.rungs # <<>>
      <4>1. "order" \in {"none", "quotes", "order", "sent"} /\ FALSE \in BOOLEAN
            /\ l \in LadderRests /\ l # <<>>
        BY LadderParts
      <4>2. x = [at |-> "order", rungs |-> l, bought |-> entry[z].bought,
                 orphan |-> entry[z].orphan]
        BY <1>2, <3>1 DEF Entries
      <4>3. x \in Entries /\ x.rungs = l
        BY <1>2, <4>1, <4>2, TaskFields
      <4> QED
        BY <4>1, <4>3
    <3>3. /\ entry' \in [Zones -> Entries]
          /\ \A y \in Zones : entry'[y].at \in {"order", "sent"} => entry'[y].rungs # <<>>
      BY <3>1, <3>2, TaskType
    <3> QED
      BY <1>4, <3>3 DEF PickStrike, TypeInv, TypeOK, Whole
  <2> QED
    BY <1>4, <2>1, <2>2 DEF PickStrike
<1>5. CASE PlaceEntry(z)
  <2>1. At(z) \in Contracts /\ entry[z].rungs # <<>>
    BY <1>5, AtType DEF PlaceEntry, Entry, TypeInv
  <2>2. PICK bought \in BOOLEAN :
          /\ bought => held[At(z)] + Total <= MaxHeld
          /\ entry' = [entry EXCEPT ![z] = [@ EXCEPT !.at = "sent", !.bought = bought]]
          /\ IF bought THEN Trade(At(z), Total) ELSE UNCHANGED held
    BY <1>5 DEF PlaceEntry, At
  <2>3. /\ entry' \in [Zones -> Entries]
        /\ \A y \in Zones : entry'[y].at \in {"order", "sent"} => entry'[y].rungs # <<>>
    <3> DEFINE x == entry'[z]
    <3>1. /\ x = [entry[z] EXCEPT !.at = "sent", !.bought = bought]
          /\ entry' = [entry EXCEPT ![z] = x]
      BY <1>2, <2>2
    <3> HIDE DEF x
    <3>2. x \in Entries /\ x.rungs # <<>>
      BY <1>2, <2>1, <3>1, LadderParts, Apart DEF Entries
    <3> QED
      BY <3>1, <3>2, TaskType
  <2>4. held' \in [Contracts -> Int] /\ \A c \in Contracts : held'[c] <= MaxHeld
    <3>1. CASE ~bought
      BY <1>2, <2>2, <3>1
    <3>2. CASE bought
      <4>1. held[At(z)] + Total <= MaxHeld /\ Trade(At(z), Total) /\ Total \in Int
        BY <2>2, <3>2
      <4>2. /\ held' \in [Contracts -> Int]
            /\ \A d \in Contracts : held'[d] = held[d] + (IF d = At(z) THEN Total ELSE 0)
        BY <1>2, <2>1, <4>1, TradeEffect
      <4>3. ASSUME NEW d \in Contracts PROVE held'[d] <= MaxHeld
        BY <1>2, <2>1, <4>1, <4>2
      <4> QED
        BY <4>2, <4>3
    <3> QED
      BY <3>1, <3>2
  <2> QED
    BY <1>5, <2>3, <2>4 DEF PlaceEntry, TypeInv, TypeOK, Whole
<1>6. CASE EntryFilled(z)
  <2> DEFINE p == [con |-> At(z), rem |-> Total, t1 |-> FALSE, trail |-> StopRank, day |-> day]
  <2>1. At(z) \in Contracts
    BY <1>6, AtType DEF EntryFilled, Entry
  <2>2. p \in Positions /\ p.rem = Total /\ p.t1 = FALSE
    <3>1. StopRank \in Ticks \cup {Underlying} /\ day \in 1..MaxDay /\ Total \in 0..Total
      BY DEF StopRank, Ticks, TypeInv, TypeOK
    <3>2. p \in Positions
      BY <2>1, <3>1, Zenon DEF Positions
    <3> QED
      BY <3>2
  <2>3. file' = p /\ (pos' = pos \/ pos' = p)
    BY <1>6 DEF EntryFilled, Persist, At
  <2>4. /\ entry' \in [Zones -> Entries]
        /\ \A y \in Zones : entry'[y].at \in {"order", "sent"} => entry'[y].rungs # <<>>
    BY <1>6, TaskType, Apart DEF EntryFilled
  <2> HIDE DEF p
  <2>5. Whole(p) /\ Whole(pos)' /\ Whole(file)'
    BY <2>2, <2>3 DEF Whole, TypeInv
  <2> QED
    BY <1>6, <2>2, <2>3, <2>4, <2>5 DEF EntryFilled, TypeInv, TypeOK
<1>7. CASE EntryNotFilled(z)
  <2>1. entry[z].rungs # <<>> /\ Tail(entry[z].rungs) \in LadderRests
    BY <1>7, AtType DEF EntryNotFilled, Entry, TypeInv
  <2>2. /\ entry' \in [Zones -> Entries]
        /\ \A y \in Zones : entry'[y].at \in {"order", "sent"} => entry'[y].rungs # <<>>
    <3>1. CASE entry' = [entry EXCEPT ![z] = NoEntry]
      BY <3>1, TaskType, Apart
    <3>2. CASE /\ Tail(entry[z].rungs) # <<>>
               /\ entry' = [entry EXCEPT ![z] = [@ EXCEPT !.at = "order",
                                                 !.rungs = Tail(entry[z].rungs),
                                                 !.bought = FALSE]]
      <4> DEFINE x == entry'[z]
      <4>1. /\ x = [entry[z] EXCEPT !.at = "order", !.rungs = Tail(entry[z].rungs),
                                    !.bought = FALSE]
            /\ entry' = [entry EXCEPT ![z] = x]
        BY <1>2, <3>2
      <4> HIDE DEF x
      <4>2. x \in Entries /\ x.rungs # <<>>
        <5>1. "order" \in {"none", "quotes", "order", "sent"} /\ FALSE \in BOOLEAN
          OBVIOUS
        <5>2. x = [at |-> "order", rungs |-> Tail(entry[z].rungs), bought |-> FALSE,
                   orphan |-> entry[z].orphan]
          BY <1>2, <4>1 DEF Entries
        <5>3. x \in Entries /\ x.rungs = Tail(entry[z].rungs)
          BY <1>2, <2>1, <5>1, <5>2, TaskFields, ZenonT(60)
        <5> QED
          BY <3>2, <5>3
      <4> QED
        BY <4>1, <4>2, TaskType
    <3> QED
      BY <1>7, <3>1, <3>2 DEF EntryNotFilled
  <2>3. {running, ready, initDone, noMargin}' \subseteq BOOLEAN
    <3>1. entry[z].orphan \in BOOLEAN
      BY <1>2 DEF Entries
    <3>2. noMargin' \in BOOLEAN
      BY <1>7, <3>1 DEF EntryNotFilled, TypeInv, TypeOK
    <3> QED
      BY <1>7, <3>2 DEF EntryNotFilled, TypeInv, TypeOK
  <2> QED
    BY <1>7, <2>2, <2>3 DEF EntryNotFilled, TypeInv, TypeOK, Whole
<1>8. CASE EntryFails(z)
  BY <1>8, TaskType, Apart DEF EntryFails, TypeInv, TypeOK, Whole
<1> QED
  BY <1>1, <1>3, <1>4, <1>5, <1>6, <1>7, <1>8

\* The loops are cancelled: an order in flight may have traded, none is left.
LEMMA CancelledEffect ==
  ASSUME TypeInv, LoopsCancelled
  PROVE  /\ held' \in [Contracts -> Int] /\ \A c \in Contracts : held'[c] <= MaxHeld
         /\ exit' \in [Loops -> Exits \cup {NoExit}] /\ \A l \in Loops : exit'[l] = NoExit
         /\ ~InFlight => held' = held
<1>1. held \in [Contracts -> Int] /\ \A c \in Contracts : held[c] <= MaxHeld
  BY DEF TypeInv, TypeOK
<1>2. PICK l \in Loops : \/ UNCHANGED held
                         \/ exit[l] # NoExit /\ Trade(exit[l].con, -exit[l].qty)
  BY DEF LoopsCancelled
<1>3. exit' = [m \in Loops |-> NoExit]
  BY DEF LoopsCancelled
<1>4. CASE UNCHANGED held
  BY <1>1, <1>3, <1>4
<1>5. CASE exit[l] # NoExit /\ Trade(exit[l].con, -exit[l].qty)
  <2>1. exit[l] \in Exits
    BY <1>5 DEF TypeInv, TypeOK
  <2>2. exit[l].con \in Contracts /\ exit[l].qty \in 1..Total
    BY <2>1 DEF Exits
  <2> DEFINE q == -exit[l].qty
  <2>3. q \in Int /\ q <= 0
    BY <2>2
  <2>4. /\ held' \in [Contracts -> Int]
        /\ \A d \in Contracts : held'[d] = held[d] + (IF d = exit[l].con THEN q ELSE 0)
    BY <1>1, <1>5, <2>2, <2>3, TradeEffect
  <2> HIDE DEF q
  <2>5. ASSUME NEW c \in Contracts PROVE held'[c] <= MaxHeld
    <3>1. held[c] \in Int /\ held[c] <= MaxHeld /\ MaxHeld \in Int
      BY <1>1
    <3> QED
      BY <2>3, <2>4, <3>1
  <2>6. InFlight
    BY <1>5 DEF InFlight
  <2> QED
    BY <1>3, <2>4, <2>5, <2>6
<1> QED
  BY <1>2, <1>4, <1>5

\* The engine's tasks are orphans from now on.
LEMMA OrphanedEffect ==
  ASSUME TypeInv, Orphaned
  PROVE  /\ entry' \in [Zones -> Entries]
         /\ \A z \in Zones : /\ entry'[z].at = entry[z].at
                             /\ entry[z].at = "none" => entry'[z] = NoEntry
                             /\ entry[z].at # "none" =>
                                  /\ entry'[z].rungs = entry[z].rungs
                                  /\ entry'[z].bought = entry[z].bought
                                  /\ entry'[z].orphan = TRUE
<1>1. ASSUME NEW z \in Zones
      PROVE  /\ entry'[z] \in Entries /\ entry'[z].at = entry[z].at
             /\ entry[z].at = "none" => entry'[z] = NoEntry
             /\ entry[z].at # "none" => /\ entry'[z].rungs = entry[z].rungs
                                        /\ entry'[z].bought = entry[z].bought
                                        /\ entry'[z].orphan = TRUE
  <2> DEFINE x == entry'[z]
  <2>1. x = IF entry[z].at = "none" THEN NoEntry ELSE [entry[z] EXCEPT !.orphan = TRUE]
    BY DEF Orphaned, Entry
  <2>2. entry[z] \in Entries
    BY DEF TypeInv, TypeOK
  <2> HIDE DEF x
  <2>3. CASE entry[z].at = "none"
    BY <2>1, <2>3, Apart DEF x
  <2>4. CASE entry[z].at # "none"
    <3>1. x = [entry[z] EXCEPT !.orphan = TRUE]
      BY <2>1, <2>4
    <3>2. x = [at |-> entry[z].at, rungs |-> entry[z].rungs, bought |-> entry[z].bought,
               orphan |-> TRUE]
      BY <2>2, <3>1 DEF Entries
    <3>3. /\ x \in Entries /\ x.at = entry[z].at /\ x.rungs = entry[z].rungs
          /\ x.bought = entry[z].bought /\ x.orphan = TRUE
      BY <2>2, <3>2, TaskFields, ZenonT(60)
    <3> QED
      BY <2>4, <3>3 DEF x
  <2> QED
    BY <2>3, <2>4
<1>2. entry' = [z \in Zones |-> entry'[z]]
  BY DEF Orphaned
<1> QED
  BY <1>1, <1>2

\* The lifecycle loop and the dashboard.
LEMMA LifeType ==
  ASSUME TypeInv, MorningInit \/ EodSquareOff \/ EodDone \/ SetExpiryMode
  PROVE  TypeInv'
<1> USE DEF setup, clock, flags
<1>1. CASE MorningInit
  <2>1. {running, ready, initDone, noMargin}' \subseteq BOOLEAN
    BY <1>1 DEF MorningInit, TypeInv, TypeOK
  <2>2. (pos' = pos \/ pos' = file) /\ (file' = file \/ file' = NoPos)
    BY <1>1 DEF MorningInit, Cleared
  <2> QED
    BY <1>1, <2>1, <2>2 DEF MorningInit, TypeInv, TypeOK, Whole
<1>2. CASE EodSquareOff
  <2>1. CASE pos # NoPos
    <3>1. Selling("life", "EOD", pos.con, pos.rem, EntryRank) /\ "life" \in Loops
          /\ EntryRank \in Ticks
      BY <1>2, <2>1 DEF EodSquareOff, SquareOffDue, Loops, EntryRank, Ticks
    <3>2. pos.con \in Contracts /\ pos.rem \in 1..Total
      BY <2>1, PosParts
    <3>3. exit' \in [Loops -> Exits \cup {NoExit}]
      BY <3>1, <3>2, SellingType DEF TypeInv, TypeOK
    <3> QED
      BY <1>2, <2>1, <3>3 DEF EodSquareOff, SquareOffDue, TypeInv, TypeOK, Whole
  <2>2. CASE pos = NoPos
    <3>1. DayReset /\ UNCHANGED exit
      BY <1>2, <2>2 DEF EodSquareOff, SquareOffDue
    <3>2. {running, ready, initDone, noMargin}' \subseteq BOOLEAN
      BY <1>2, <3>1 DEF EodSquareOff, DayReset, TypeInv, TypeOK
    <3> QED
      BY <1>2, <3>1, <3>2 DEF EodSquareOff, DayReset, Cleared, TypeInv, TypeOK, Whole
  <2> QED
    BY <2>1, <2>2
<1>3. CASE EodDone
  <2>1. held' \in [Contracts -> Int] /\ \A c \in Contracts : held'[c] <= MaxHeld
    BY <1>3, SoldEffect DEF EodDone, Loops
  <2>2. exit' \in [Loops -> Exits \cup {NoExit}]
    BY <1>3 DEF EodDone, TypeInv, TypeOK
  <2>3. {running, ready, initDone, noMargin}' \subseteq BOOLEAN
    BY <1>3 DEF EodDone, DayReset, TypeInv, TypeOK
  <2> QED
    BY <1>3, <2>1, <2>2, <2>3 DEF EodDone, DayReset, Cleared, TypeInv, TypeOK, Whole
<1>4. CASE SetExpiryMode
  <2>1. {running, ready, initDone, noMargin}' \subseteq BOOLEAN
    BY <1>4 DEF SetExpiryMode, TypeInv, TypeOK
  <2> QED
    BY <1>4, <2>1 DEF SetExpiryMode, TypeInv, TypeOK, Whole
<1> QED
  BY <1>1, <1>2, <1>3, <1>4

\* The manager, the clock and the process.
LEMMA DeskType ==
  ASSUME TypeInv, \/ StopEngine \/ SpawnEngine \/ RespawnEngine \/ Crash
                  \/ CutoffTime \/ SquareOffTime \/ NewDay
  PROVE  TypeInv'
<1> USE DEF setup, clock, flags
<1>1. ASSUME StopEngine \/ RespawnEngine \/ Crash PROVE TypeInv'
  <2>1. Fresh /\ LoopsCancelled
    BY <1>1 DEF StopEngine, RespawnEngine, Crash
  <2>2. {running, ready, initDone, noMargin}' \subseteq BOOLEAN
    BY <1>1, <2>1 DEF StopEngine, RespawnEngine, Crash, Fresh, TypeInv, TypeOK
  <2>3. /\ entry' \in [Zones -> Entries]
        /\ \A z \in Zones : entry'[z].at \in {"order", "sent"} => entry'[z].rungs # <<>>
    <3>1. CASE Orphaned
      <4>1. entry' \in [Zones -> Entries]
        BY <3>1, OrphanedEffect
      <4>2. ASSUME NEW z \in Zones, entry'[z].at \in {"order", "sent"} PROVE entry'[z].rungs # <<>>
        BY <3>1, <4>2, OrphanedEffect DEF TypeInv
      <4> QED
        BY <4>1, <4>2
    <3>2. CASE entry' = [z \in Zones |-> NoEntry]
      BY <3>2, Apart
    <3> QED
      BY <1>1, <3>1, <3>2 DEF StopEngine, RespawnEngine, Crash
  <2>4. /\ held' \in [Contracts -> Int] /\ \A c \in Contracts : held'[c] <= MaxHeld
        /\ exit' \in [Loops -> Exits \cup {NoExit}]
    BY <2>1, CancelledEffect
  <2>5. /\ UNCHANGED <<setup, clock, file>> /\ pos' = NoPos /\ notified' = {}
    BY <1>1, <2>1 DEF StopEngine, RespawnEngine, Crash, Fresh
  <2> QED
    BY <2>2, <2>3, <2>4, <2>5 DEF TypeInv, TypeOK, Whole
<1>2. CASE SpawnEngine
  <2>1. {running, ready, initDone, noMargin}' \subseteq BOOLEAN
    BY <1>2 DEF SpawnEngine, TypeInv, TypeOK
  <2> QED
    BY <1>2, <2>1 DEF SpawnEngine, TypeInv, TypeOK, Whole
<1>3. CASE CutoffTime \/ SquareOffTime
  BY <1>3 DEF CutoffTime, SquareOffTime, TypeInv, TypeOK, Whole
<1>4. CASE NewDay
  <2>1. held' \in [Contracts -> Int] /\ \A c \in Contracts : held'[c] <= MaxHeld
    BY <1>4 DEF NewDay
  <2>2. day' \in 1..MaxDay
    BY <1>4 DEF NewDay, TypeInv, TypeOK
  <2> QED
    BY <1>4, <2>1, <2>2 DEF NewDay, TypeInv, TypeOK, Whole
<1> QED
  BY <1>1, <1>2, <1>3, <1>4

\* Every step keeps the types.
LEMMA TrapTypeStep == TypeInv /\ [Next]_vars => TypeInv'
<1> SUFFICES ASSUME TypeInv, [Next]_vars PROVE TypeInv'
  OBVIOUS
<1>1. CASE UNCHANGED vars
  BY <1>1 DEF TypeInv, TypeOK, Whole, vars, setup, clock, flags
<1>2. CASE Next
  BY <1>2, ExitsType, EntriesType, LifeType, DeskType DEF Next, EngineStep
<1> QED
  BY <1>1, <1>2

\* Under every fault, however many sessions: the position, its file, the entry
\* tasks and the exits stay within the records the code builds, and no quantity
\* that is sold is zero or more than the position.
THEOREM TrapTypeCorrect == Spec => []TypeOK
<1>1. TypeInv => TypeOK
  BY DEF TypeInv
<1> QED
  BY <1>1, TrapInitType, TrapTypeStep, PTL DEF Spec

----------------------------------------------------------------------------
(* The file is the position *)

\* The exits and the trailing stops keep the file at the position.
LEMMA FileExits ==
  ASSUME FileInv, TypeInv',
         \/ \E p \in Ticks : T1Hit(p) \/ StopHit(p) \/ FloorHit(p)
         \/ \E r \in Ticks : FuturesTrail(r) \/ TrapTrail(r)
         \/ T1Done \/ \E l \in Loops : ExitDone(l)
  PROVE  FileInv'
<1> USE DEF setup, clock, flags, Survives
<1>1. /\ TypeInv /\ "opt" \in Loops /\ "life" \in Loops /\ ExitLoop \in Loops /\ ExitLoop # "life"
      /\ exit \in [Loops -> Exits \cup {NoExit}] /\ NoExit.kind = "none"
  BY Apart DEF FileInv, TypeInv, TypeOK, Loops, ExitLoop
<1>2. ASSUME NEW p \in Ticks, T1Hit(p) PROVE FileInv'
  <2>1. /\ pos # NoPos /\ pos.con \in Contracts /\ Half \in 1..Total
        /\ Selling("opt", "T1", pos.con, Half, p)
    BY <1>1, <1>2, PosParts DEF T1Hit, MayExit
  <2>2. exit'["opt"].kind = "T1" /\ exit'["life"] = exit["life"]
    BY <1>1, <2>1, SellingType
  <2>3. ready /\ initDone
    BY <1>2 DEF T1Hit, MayExit, FileInv, Owned
  <2> QED
    BY <1>2, <2>2, <2>3 DEF T1Hit, FileInv, Owned, Paired, Entering
<1>3. ASSUME NEW p \in Ticks, StopHit(p) \/ FloorHit(p) PROVE FileInv'
  <2>1. /\ pos # NoPos /\ pos.con \in Contracts /\ pos.rem \in 1..Total
        /\ exit[ExitLoop] = NoExit
    BY <1>1, <1>3, PosParts DEF StopHit, FloorHit, MayExit
  <2>2. \/ Selling(ExitLoop, "SL", pos.con, pos.rem, p)
        \/ Selling(ExitLoop, "FLOOR", pos.con, pos.rem, p)
    BY <1>3 DEF StopHit, FloorHit
  <2>3. exit'["life"] = exit["life"] /\ (exit'["opt"].kind # "T1" => exit["opt"].kind # "T1")
    <3>1. \A m \in Loops : m # ExitLoop => exit'[m] = exit[m]
      BY <1>1, <2>1, <2>2, SellingType
    <3> QED
      BY <1>1, <2>1, <3>1
  <2> QED
    BY <1>3, <2>3 DEF StopHit, FloorHit, FileInv, Owned, Paired, Entering
<1>4. ASSUME NEW r \in Ticks, FuturesTrail(r) \/ TrapTrail(r) PROVE FileInv'
  <2>1. ready /\ initDone /\ file' = pos'
    BY <1>4 DEF FuturesTrail, TrapTrail, Trailed, Persist, FileInv, Owned
  <2> QED
    BY <1>4, <2>1 DEF FuturesTrail, TrapTrail, Trailed, FileInv, Owned, Paired, Entering
<1>5. CASE T1Done
  <2>1. exit'["life"] = exit["life"]
    <3>1. exit["opt"].price \in Ticks
      BY <1>1, <1>5, SoldEffect DEF T1Done
    <3>2. CASE /\ pos # NoPos
               /\ Selling("opt", "SL", pos.con, Total - Half, exit["opt"].price)
      <4>1. pos.con \in Contracts /\ Total - Half \in 1..Total
        BY <1>1, <3>2, PosParts
      <4> QED
        BY <1>1, <3>1, <3>2, <4>1, SellingType
    <3>3. CASE exit' = [exit EXCEPT !["opt"] = NoExit]
      BY <1>1, <3>3
    <3> QED
      BY <1>5, <3>2, <3>3 DEF T1Done
  <2>2. file' = pos' /\ pos' = pos
    BY <1>5 DEF T1Done, Persist
  <2> QED
    BY <1>5, <2>1, <2>2 DEF T1Done, FileInv, Owned, Paired, Entering
<1>6. ASSUME NEW l \in Loops, ExitDone(l) PROVE FileInv'
  <2>1. phase # "closing" => exit'["life"] = NoExit
    BY <1>1, <1>6 DEF ExitDone, FileInv, Owned
  <2>2. file' = pos' /\ pos' = NoPos
    BY <1>6 DEF ExitDone, Cleared
  <2> QED
    BY <1>6, <2>1, <2>2 DEF ExitDone, FileInv, Owned, Paired, Entering
<1> QED
  BY <1>2, <1>3, <1>4, <1>5, <1>6

\* An entry is booked in the position and in the file at once.
LEMMA FileEntries ==
  ASSUME FileInv, TypeInv',
         \E z \in Zones : \/ StartEntry(z) \/ PickStrike(z) \/ PlaceEntry(z)
                          \/ EntryFilled(z) \/ EntryNotFilled(z) \/ EntryFails(z)
  PROVE  FileInv'
<1> USE DEF setup, clock, flags, Survives
<1>1. PICK z \in Zones : \/ StartEntry(z) \/ PickStrike(z) \/ PlaceEntry(z)
                         \/ EntryFilled(z) \/ EntryNotFilled(z) \/ EntryFails(z)
  OBVIOUS
<1>2. entry \in [Zones -> Entries]
  BY DEF FileInv, TypeInv, TypeOK
<1>3. /\ running' = running /\ ready' = ready /\ initDone' = initDone /\ phase' = phase
      /\ exit' = exit /\ faults' = faults
  BY <1>1 DEF StartEntry, PickStrike, PlaceEntry, EntryFilled, EntryNotFilled, EntryFails
<1>4. entry'[z].at # "none" => entry'[z].orphan = entry[z].orphan \/ StartEntry(z)
  BY <1>1, TaskSteps, Apart DEF FileInv
<1>5. /\ \A y \in Zones : y # z => entry'[y] = entry[y]
      /\ ~StartEntry(z) => entry[z].at # "none"
  BY <1>1, TaskSteps DEF FileInv
<1>6. StartEntry(z) => ready /\ phase = "open" /\ entry'[z].orphan = FALSE
  BY TaskSteps DEF StartEntry, FileInv
<1>7. (file' = file /\ pos' = pos) \/ EntryFilled(z)
  BY <1>1 DEF StartEntry, PickStrike, PlaceEntry, EntryNotFilled, EntryFails
<1>8. Owned'
  <2>1. Owned
    BY DEF FileInv
  <2>2. phase # "closing"
    BY <1>5, <1>6, <2>1 DEF Owned, Entering, Entry
  <2>3. \A y \in Zones : entry'[y].at # "none" /\ entry'[y].orphan = FALSE => initDone
    BY <1>4, <1>5, <1>6, <2>1 DEF Owned
  <2>4. ~initDone => pos' = NoPos
    <3>1. CASE EntryFilled(z)
      <4>1. ~StartEntry(z)
        BY <3>1 DEF EntryFilled, StartEntry, Entry
      <4>2. entry[z].orphan \in BOOLEAN
        BY <1>2 DEF Entries
      <4>3. entry[z].orphan = FALSE => initDone
        BY <1>5, <2>1, <4>1 DEF Owned
      <4>4. entry[z].orphan => pos' = pos
        BY <3>1 DEF EntryFilled
      <4> QED
        BY <2>1, <4>2, <4>3, <4>4 DEF Owned
    <3> QED
      BY <1>7, <2>1, <3>1 DEF Owned
  <2> QED
    BY <1>3, <2>1, <2>2, <2>3, <2>4 DEF Owned
<1>9. ASSUME Survives({"stop_in_entry"}) PROVE Paired'
  <2>1. Paired
    BY <1>9 DEF FileInv
  <2>2. \A y \in Zones : entry'[y].at # "none" => entry'[y].orphan = FALSE
    BY <1>4, <1>5, <1>6, <2>1 DEF Paired
  <2>3. initDone /\ exit["opt"].kind # "T1" => file' = pos'
    <3>1. CASE EntryFilled(z)
      <4>1. ~StartEntry(z)
        BY <3>1 DEF EntryFilled, StartEntry, Entry
      <4>2. entry[z].orphan = FALSE
        BY <1>5, <2>1, <4>1 DEF Paired
      <4> QED
        BY <3>1, <4>2 DEF EntryFilled, Persist
    <3> QED
      BY <1>7, <2>1, <3>1 DEF Paired
  <2> QED
    BY <1>3, <2>2, <2>3 DEF Paired
<1> QED
  BY <1>3, <1>8, <1>9 DEF FileInv

\* The lifecycle loop, the dashboard, the manager and the clock.
LEMMA FileOutside ==
  ASSUME FileInv, TypeInv',
         \/ MorningInit \/ EodSquareOff \/ EodDone \/ SetExpiryMode
         \/ StopEngine \/ SpawnEngine \/ RespawnEngine \/ Crash
         \/ CutoffTime \/ SquareOffTime \/ NewDay
  PROVE  FileInv'
<1> USE DEF setup, clock, flags, Survives
<1>1. TypeInv /\ "opt" \in Loops /\ "life" \in Loops
  BY DEF FileInv, Loops
<1>2. CASE MorningInit
  BY <1>2 DEF MorningInit, Cleared, FileInv, Owned, Paired, Entering
<1>3. CASE EodSquareOff
  <2>1. CASE pos # NoPos
    <3>1. Selling("life", "EOD", pos.con, pos.rem, EntryRank) /\ EntryRank \in Ticks
      BY <1>3, <2>1 DEF EodSquareOff, SquareOffDue, EntryRank, Ticks
    <3>2. pos.con \in Contracts /\ pos.rem \in 1..Total
      BY <1>1, <2>1, PosParts
    <3>3. exit'["opt"] = exit["opt"]
      BY <1>1, <3>1, <3>2, SellingType DEF TypeInv, TypeOK
    <3> QED
      BY <1>3, <2>1, <3>3 DEF EodSquareOff, SquareOffDue, FileInv, Owned, Paired, Entering
  <2>2. CASE pos = NoPos
    <3>1. DayReset /\ UNCHANGED exit
      BY <1>3, <2>2 DEF EodSquareOff, SquareOffDue
    <3> QED
      BY <1>3, <3>1 DEF EodSquareOff, DayReset, Cleared, FileInv, Owned, Paired, Entering
  <2> QED
    BY <2>1, <2>2
<1>4. CASE EodDone
  <2>1. phase = "closing"
    BY <1>4 DEF EodDone, FileInv, Owned
  <2> QED
    BY <1>4, <2>1 DEF EodDone, DayReset, Cleared, FileInv, Owned, Paired, Entering
<1>5. CASE SetExpiryMode
  BY <1>5 DEF SetExpiryMode, FileInv, Owned, Paired, Entering
<1>6. ASSUME StopEngine \/ RespawnEngine \/ Crash PROVE FileInv'
  <2>1. /\ Fresh /\ LoopsCancelled /\ MayStop /\ faults' = faults
        /\ Orphaned \/ entry' = [z \in Zones |-> NoEntry]
    BY <1>6 DEF StopEngine, RespawnEngine, Crash
  <2>2. exit'["life"] = NoExit
    BY <1>1, <2>1, CancelledEffect
  <2>3. ASSUME Survives({"stop_in_entry"}), NEW z \in Zones PROVE entry'[z].at = "none"
    <3>1. entry[z].at = "none"
      BY <2>1, <2>3 DEF MayStop, Entering, Entry
    <3> QED
      BY <1>1, <2>1, <3>1, OrphanedEffect, Apart
  <2>4. \A z \in Zones : entry'[z].at # "none" => entry'[z].orphan = TRUE
    BY <1>1, <2>1, OrphanedEffect, Apart
  <2>5. phase' = "closing" => ~Entering'
    <3>1. \A z \in Zones : entry'[z].at # "none" => entry[z].at # "none"
      BY <1>1, <2>1, OrphanedEffect, Apart
    <3>2. phase' = phase
      BY <1>6 DEF StopEngine, RespawnEngine, Crash
    <3> QED
      BY <3>1, <3>2 DEF FileInv, Owned, Entering
  <2>6. ready' = FALSE /\ initDone' = FALSE /\ pos' = NoPos
    BY <2>1 DEF Fresh
  <2>7. Owned'
    BY <2>2, <2>4, <2>5, <2>6 DEF Owned
  <2>8. Survives({"stop_in_entry"}) => Paired'
    BY <2>3, <2>6 DEF Paired
  <2> QED
    BY <2>1, <2>7, <2>8 DEF FileInv
<1>7. CASE SpawnEngine
  BY <1>7 DEF SpawnEngine, FileInv, Owned, Paired, Entering
<1>8. CASE CutoffTime \/ SquareOffTime
  BY <1>8 DEF CutoffTime, SquareOffTime, FileInv, Owned, Paired, Entering, Entry
<1>9. CASE NewDay
  <2>1. exit["life"] = NoExit
    BY <1>1, <1>9 DEF NewDay, Quiet, InFlight
  <2> QED
    BY <1>9, <2>1 DEF NewDay, FileInv, Owned, Paired, Entering
<1> QED
  BY <1>2, <1>3, <1>4, <1>5, <1>6, <1>7, <1>8, <1>9

\* Every step keeps the file at the position.
LEMMA FileStep == FileInv /\ [Next]_vars => FileInv'
<1> SUFFICES ASSUME FileInv, [Next]_vars PROVE FileInv'
  OBVIOUS
<1>1. TypeInv'
  BY TrapTypeStep DEF FileInv
<1>2. CASE UNCHANGED vars
  BY <1>1, <1>2 DEF FileInv, Owned, Paired, Survives, Entering, Entry, vars, setup, clock, flags
<1>3. CASE Next
  BY <1>1, <1>3, FileExits, FileEntries, FileOutside DEF Next, EngineStep
<1> QED
  BY <1>2, <1>3

\* At the start there is no position and no file.
LEMMA FileInit == TrapInit => FileInv
<1> SUFFICES ASSUME TrapInit PROVE FileInv
  OBVIOUS
<1>1. /\ TypeInv /\ ~ready /\ ~initDone /\ exit["life"] = NoExit /\ phase = "open" /\ pos = NoPos
  BY TrapInitType DEF TrapInit, Loops
<1>2. \A z \in Zones : entry[z].at = "none"
  BY Apart DEF TrapInit
<1> QED
  BY <1>1, <1>2 DEF FileInv, Owned, Paired

\* Whatever signals raced, orders went astray and loops overlapped: outside the
\* half exit, what a restart finds on file is the position in memory.
THEOREM FileMatchesTheorem == Spec => []FileMatches
<1>1. FileInv => FileMatches
  BY DEF FileInv, Paired, FileMatches
<1> QED
  BY <1>1, FileInit, FileStep, PTL DEF Spec

----------------------------------------------------------------------------
(* Orders that have traded and are still to be booked *)

\* Sets of zones are finite, and are counted as sets are.
LEMMA ZoneCounts ==
  /\ \A S \in SUBSET Zones : IsFiniteSet(S) /\ Cardinality(S) \in Nat
  /\ \A S \in SUBSET Zones, z \in Zones :
       /\ z \notin S => Cardinality(S \cup {z}) = Cardinality(S) + 1
       /\ z \in S => Cardinality(S \ {z}) = Cardinality(S) - 1
  /\ \A S, T \in SUBSET Zones : T \subseteq S => Cardinality(T) <= Cardinality(S)
  /\ Cardinality({}) = 0
<1>1. IsFiniteSet(Sides)
  <2>1. IsFiniteSet({}) /\ Sides = ({} \cup {"CE"}) \cup {"PE"}
    BY FS_EmptySet DEF Sides
  <2> QED
    BY <2>1, FS_AddElement
<1>2. IsFiniteSet(1..PerSide)
  <2>1. 1 \in Int /\ PerSide \in Int
    OBVIOUS
  <2> QED
    BY <2>1, FS_Interval
<1>3. IsFiniteSet(Zones)
  BY <1>1, <1>2, FS_Product DEF Zones
<1>4. \A S \in SUBSET Zones : IsFiniteSet(S) /\ Cardinality(S) \in Nat
  BY <1>3, FS_Subset, FS_CardinalityType
<1>5. ASSUME NEW S \in SUBSET Zones, NEW z \in Zones
      PROVE  /\ z \notin S => Cardinality(S \cup {z}) = Cardinality(S) + 1
             /\ z \in S => Cardinality(S \ {z}) = Cardinality(S) - 1
  BY <1>4, FS_AddElement, FS_RemoveElement
<1>6. ASSUME NEW S \in SUBSET Zones, NEW T \in SUBSET Zones, T \subseteq S
      PROVE  Cardinality(T) <= Cardinality(S)
  <2>1. T \in SUBSET S /\ IsFiniteSet(S)
    BY <1>4, <1>6
  <2> QED
    BY <2>1, FS_Subset, Zenon
<1>7. Cardinality({}) = 0
  BY FS_EmptySet
<1> QED
  BY <1>4, <1>5, <1>6, <1>7

\* A step of a task changes whether it has bought, and the account only with it.
LEMMA BoughtMoves ==
  ASSUME TypeInv, NEW z \in Zones,
         \/ StartEntry(z) \/ PickStrike(z) \/ PlaceEntry(z)
         \/ EntryFilled(z) \/ EntryNotFilled(z) \/ EntryFails(z)
  PROVE  /\ \A c \in Contracts : Bought(c)' \ {z} = Bought(c) \ {z}
         /\ ~PlaceEntry(z) => held' = held /\ \A c \in Contracts : z \notin Bought(c)'
         /\ PlaceEntry(z) =>
              /\ \A c \in Contracts : z \notin Bought(c)
              /\ \/ held' = held /\ \A c \in Contracts : z \notin Bought(c)'
                 \/ \A c \in Contracts :
                      /\ z \in Bought(c)' <=> c = At(z)
                      /\ held'[c] = held[c] + (IF c = At(z) THEN Total ELSE 0)
         /\ EntryFilled(z) => At(z) \in Contracts /\ \A c \in Contracts : z \in Bought(c) <=> c = At(z)
         /\ "slow_fill" \notin faults /\ ~EntryFilled(z) => \A c \in Contracts : z \notin Bought(c)
<1>1. entry \in [Zones -> Entries] /\ held \in [Contracts -> Int]
  BY DEF TypeInv, TypeOK
<1>2. ASSUME NEW c \in Contracts PROVE Bought(c)' \ {z} = Bought(c) \ {z}
  <2>1. \A y \in Zones : y # z => entry'[y] = entry[y]
    BY TaskSteps
  <2>2. \A y \in Zones : y # z => (y \in Bought(c)' <=> y \in Bought(c))
    BY <2>1 DEF Bought, At
  <2>3. Bought(c)' \subseteq Zones /\ Bought(c) \subseteq Zones
    BY DEF Bought
  <2> QED
    BY <2>2, <2>3
<1>3. ASSUME ~PlaceEntry(z) PROVE held' = held /\ \A c \in Contracts : z \notin Bought(c)'
  <2>1. held' = held
    BY <1>3 DEF StartEntry, PickStrike, EntryFilled, EntryNotFilled, EntryFails
  <2>2. entry'[z].at # "sent"
    BY <1>3, TaskSteps, Apart
  <2> QED
    BY <2>1, <2>2 DEF Bought
<1>4. ASSUME PlaceEntry(z)
      PROVE  /\ \A c \in Contracts : z \notin Bought(c)
             /\ \/ held' = held /\ \A c \in Contracts : z \notin Bought(c)'
                \/ \A c \in Contracts :
                     /\ z \in Bought(c)' <=> c = At(z)
                     /\ held'[c] = held[c] + (IF c = At(z) THEN Total ELSE 0)
  <2>1. PICK b \in BOOLEAN :
          /\ entry' = [entry EXCEPT ![z] = [@ EXCEPT !.at = "sent", !.bought = b]]
          /\ IF b THEN Trade(At(z), Total) ELSE UNCHANGED held
    BY <1>4 DEF PlaceEntry, At
  <2>2. /\ entry[z].at = "order" /\ entry'[z].at = "sent" /\ entry'[z].rungs = entry[z].rungs
        /\ At(z) \in Contracts
    BY <1>4, TaskSteps, AtType
  <2>3. entry'[z].bought = b
    <3> DEFINE x == entry'[z]
               o == entry[z]
    <3>1. x = [o EXCEPT !.at = "sent", !.bought = b] /\ o \in Entries
      BY <1>1, <2>1
    <3> HIDE DEF x, o
    <3>2. x = [at |-> "sent", rungs |-> o.rungs, bought |-> b, orphan |-> o.orphan]
      BY <3>1 DEF Entries
    <3>3. x.bought = b
      BY <3>2
    <3> QED
      BY <3>3 DEF x
  <2>4. \A c \in Contracts : z \notin Bought(c)
    BY <2>2 DEF Bought
  <2>5. \A c \in Contracts : z \in Bought(c)' <=> b /\ c = At(z)
    BY <2>2, <2>3 DEF Bought, At
  <2>6. CASE b
    <3>1. Trade(At(z), Total) /\ Total \in Int
      BY <2>1, <2>6
    <3>2. \A d \in Contracts : held'[d] = held[d] + (IF d = At(z) THEN Total ELSE 0)
      BY <1>1, <2>2, <3>1, TradeEffect
    <3> QED
      BY <2>4, <2>5, <2>6, <3>2
  <2>7. CASE ~b
    BY <2>1, <2>4, <2>5, <2>7
  <2> QED
    BY <2>6, <2>7
<1>5. ASSUME EntryFilled(z)
      PROVE  At(z) \in Contracts /\ \A c \in Contracts : z \in Bought(c) <=> c = At(z)
  BY <1>5, AtType DEF EntryFilled, Entry, Bought
<1>6. ASSUME "slow_fill" \notin faults, ~EntryFilled(z)
      PROVE  \A c \in Contracts : z \notin Bought(c)
  <2>1. ~(entry[z].at = "sent" /\ entry[z].bought)
    BY <1>6 DEF StartEntry, PickStrike, PlaceEntry, EntryNotFilled, EntryFails, Entry
  <2> QED
    BY <2>1 DEF Bought
<1> QED
  BY <1>2, <1>3, <1>4, <1>5, <1>6

\* What a position answers for is a quantity.
LEMMA ShareType ==
  ASSUME TypeInv, NEW c \in Contracts
  PROVE  /\ ShareOf(pos, c) \in 0..Total /\ ShareOf(file, c) \in 0..Total
         /\ HalfAway(c) \in 0..Half /\ held[c] \in Int
         /\ Bought(c) \in SUBSET Zones /\ Cardinality(Bought(c)) \in Nat
         /\ pos # NoPos => ShareOf(pos, c) <= pos.rem
<1>1. \A p \in Positions : p.rem \in 0..Total
  BY DEF Positions
<1>2. pos \in Positions \cup {NoPos} /\ file \in Positions \cup {NoPos}
  BY DEF TypeInv, TypeOK
<1>3. ShareOf(pos, c) \in 0..Total /\ ShareOf(file, c) \in 0..Total
  BY <1>1, <1>2 DEF ShareOf
<1>4. HalfAway(c) \in 0..Half
  BY DEF HalfAway
<1>5. Bought(c) \in SUBSET Zones
  BY DEF Bought
<1>6. Cardinality(Bought(c)) \in Nat
  BY <1>5, ZoneCounts
<1>7. pos # NoPos => ShareOf(pos, c) <= pos.rem
  BY <1>1, <1>2 DEF ShareOf
<1> QED
  BY <1>3, <1>4, <1>5, <1>6, <1>7 DEF TypeInv, TypeOK

----------------------------------------------------------------------------
(* Nothing is sold that is not there *)

Alone == Survives({"overlap", "stop_in_exit"})

\* An exit starts only when none is in flight, by an engine with a position of
\* today, whose quantity it has in the account.
LEMMA ExitStarts ==
  ASSUME OversoldInv, Alone, NEW l \in Loops, MayExit(l)
  PROVE  /\ pos # NoPos /\ pos \in Positions /\ pos.con \in Contracts /\ pos.day = day /\ ready
         /\ pos.rem \in 1..Total /\ ShareOf(pos, pos.con) = pos.rem
         /\ \A m \in Loops : exit[m] = NoExit
         /\ \A c \in Contracts : HalfAway(c) = 0
<1>1. /\ pos # NoPos /\ ready /\ TypeInv /\ OneExit /\ ~InFlight
  BY DEF MayExit, Overlap, Alone, Survives, OversoldInv, FileInv
<1>2. \A m \in Loops : exit[m] = NoExit
  BY <1>1 DEF InFlight
<1>3. \A c \in Contracts : HalfAway(c) = 0
  BY <1>2, Apart DEF HalfAway, Loops
<1> QED
  BY <1>1, <1>2, <1>3, PosParts DEF OneExit, ShareOf

\* The exit that has started is in the account, with what is still to be booked.
LEMMA SellingBacked ==
  ASSUME OversoldInv, Alone, TypeInv', NEW l \in Loops, MayExit(l),
         NEW kind \in {"T1", "SL", "FLOOR", "EOD"}, NEW qty \in 1..Total, NEW price \in Ticks,
         Selling(l, kind, pos.con, qty, price), kind = "T1" => l = "opt" /\ qty = Half,
         kind # "T1" => qty = pos.rem /\ pos' = pos,
         kind = "T1" => /\ pos' # NoPos /\ pos'.con = pos.con /\ pos'.day = day
                        /\ pos'.rem = pos.rem - Half,
         UNCHANGED <<faults, day, running, ready, entry, file, held>>
  PROVE  OneExit' /\ Backed'
<1>1. /\ TypeInv /\ OneExit /\ Backed
      /\ pos # NoPos /\ pos.con \in Contracts /\ pos.day = day /\ ready
      /\ pos.rem \in 1..Total /\ ShareOf(pos, pos.con) = pos.rem
      /\ \A m \in Loops : exit[m] = NoExit
      /\ \A c \in Contracts : HalfAway(c) = 0
  BY ExitStarts DEF OversoldInv, FileInv, Alone
<1>2. /\ exit'[l] # NoExit /\ exit'[l].kind = kind /\ exit'[l].con = pos.con /\ exit'[l].qty = qty
      /\ \A m \in Loops : m # l => exit'[m] = NoExit
  BY <1>1, SellingType DEF TypeInv, TypeOK
<1>3. OneExit'
  <2>1. HalfExits'
    BY <1>2, Apart DEF HalfExits, Loops
  <2>2. \A k, m \in Loops : exit'[k] # NoExit /\ exit'[m] # NoExit => k = m
    BY <1>2
  <2> QED
    BY <1>1, <2>1, <2>2 DEF OneExit
<1>4. \A c \in Contracts : Bought(c)' = Bought(c)
  BY DEF Bought, At
<1>5. \A c \in Contracts : ShareOf(file, c)' = ShareOf(file, c)
  BY DEF ShareOf
<1>6. ASSUME NEW c \in Contracts
      PROVE  ShareOf(pos, c)' + HalfAway(c)' <= ShareOf(pos, c)
  <2>1. CASE kind = "T1"
    <3>1. HalfAway(c)' = IF c = pos.con THEN Half ELSE 0
      BY <1>2, <2>1 DEF HalfAway
    <3>2. ShareOf(pos, c)' = IF c = pos.con THEN pos.rem - Half ELSE 0
      BY <1>1, <2>1 DEF ShareOf
    <3>3. ShareOf(pos, c) = IF c = pos.con THEN pos.rem ELSE 0
      BY <1>1 DEF ShareOf
    <3> QED
      BY <1>1, <3>1, <3>2, <3>3
  <2>2. CASE kind # "T1"
    <3>1. HalfAway(c)' = 0
      BY <1>2, <2>2, Apart DEF HalfAway, Loops
    <3>2. ShareOf(pos, c)' = ShareOf(pos, c) /\ ShareOf(pos, c) \in Int
      BY <1>1, <2>2, ShareType DEF ShareOf
    <3> QED
      BY <3>1, <3>2
  <2> QED
    BY <2>1, <2>2
<1>7. Backed'
  <2>1. ASSUME NEW c \in Contracts
        PROVE  /\ held'[c] >= ShareOf(pos, c)' + HalfAway(c)' + Total * Cardinality(Bought(c)')
               /\ held'[c] >= ShareOf(file, c)' + Total * Cardinality(Bought(c)')
    <3>1. /\ held[c] >= ShareOf(pos, c) + HalfAway(c) + Total * Cardinality(Bought(c))
          /\ held[c] >= ShareOf(file, c) + Total * Cardinality(Bought(c))
      BY <1>1 DEF Backed
    <3>2. /\ ShareOf(pos, c)' \in Int /\ HalfAway(c)' \in Int /\ ShareOf(pos, c) \in Int
          /\ HalfAway(c) = 0 /\ Cardinality(Bought(c)) \in Nat /\ held[c] \in Int
      BY <1>1, ShareType DEF HalfAway, ShareOf, TypeInv, TypeOK, Positions
    <3> QED
      BY <1>4, <1>5, <1>6, <3>1, <3>2
  <2>2. ASSUME NEW m \in Loops, Closes(m)'
        PROVE  held'[exit'[m].con] >= exit'[m].qty + Total * Cardinality(Bought(exit[m].con)')
    <3>1. m = l /\ kind # "T1"
      BY <1>2, <2>2 DEF Closes
    <3>2. held[pos.con] >= ShareOf(pos, pos.con) + HalfAway(pos.con)
                             + Total * Cardinality(Bought(pos.con))
      BY <1>1 DEF Backed
    <3>3. Cardinality(Bought(pos.con)) \in Nat /\ held[pos.con] \in Int
      BY <1>1, ShareType
    <3> QED
      BY <1>1, <1>2, <1>4, <3>1, <3>2, <3>3
  <2> QED
    BY <2>1, <2>2 DEF Backed
<1> QED
  BY <1>3, <1>7

\* The exit that ends the position is done: the account keeps what is still to
\* be booked.
LEMMA ClosingBacked ==
  ASSUME OversoldInv, Alone, TypeInv', NEW l \in Loops, Closes(l), Sold(l),
         pos' = NoPos, file' = NoPos, exit' = [exit EXCEPT ![l] = NoExit],
         ready' => ready, UNCHANGED <<faults, day, running, entry>>
  PROVE  OneExit' /\ Backed'
<1>1. TypeInv /\ OneExit /\ Backed
  BY DEF OversoldInv, FileInv, Alone
<1>2. \A m \in Loops : exit'[m] = NoExit
  BY <1>1 DEF Closes, OneExit, TypeInv, TypeOK
<1>3. OneExit'
  BY <1>1, <1>2, Apart DEF OneExit, HalfExits, InFlight, Loops
<1>4. \A c \in Contracts : Bought(c)' = Bought(c)
  BY DEF Bought, At
<1>5. ASSUME NEW c \in Contracts
      PROVE  held'[c] >= Total * Cardinality(Bought(c))
  <2>1. /\ exit[l].con \in Contracts /\ exit[l].qty \in 1..Total
        /\ \/ held' = held
           \/ held'[c] = held[c] - (IF c = exit[l].con THEN exit[l].qty ELSE 0)
    BY <1>1, SoldEffect DEF Closes
  <2>2. held[c] >= ShareOf(pos, c) + HalfAway(c) + Total * Cardinality(Bought(c))
    BY <1>1 DEF Backed
  <2>3. /\ ShareOf(pos, c) \in 0..Total /\ HalfAway(c) \in 0..Half
        /\ Cardinality(Bought(c)) \in Nat /\ held[c] \in Int
    BY <1>1, ShareType
  <2>4. c = exit[l].con => held[c] >= exit[l].qty + Total * Cardinality(Bought(c))
    BY <1>1 DEF Backed
  <2> QED
    BY <2>1, <2>2, <2>3, <2>4
<1>6. ASSUME NEW c \in Contracts
      PROVE  ShareOf(pos, c)' = 0 /\ ShareOf(file, c)' = 0 /\ HalfAway(c)' = 0
             /\ Cardinality(Bought(c)) \in Nat /\ held'[c] \in Int
  BY <1>1, <1>2, ShareType, Apart DEF ShareOf, HalfAway, Loops, TypeInv, TypeOK
<1>7. Backed'
  <2>1. \A m \in Loops : ~Closes(m)'
    BY <1>2 DEF Closes
  <2>2. ASSUME NEW c \in Contracts
        PROVE  /\ held'[c] >= ShareOf(pos, c)' + HalfAway(c)' + Total * Cardinality(Bought(c)')
               /\ held'[c] >= ShareOf(file, c)' + Total * Cardinality(Bought(c)')
    BY <1>4, <1>5, <1>6
  <2> QED
    BY <2>1, <2>2 DEF Backed
<1> QED
  BY <1>3, <1>7

\* The half exit is done: a rest that is sold at the same tick is there.
LEMMA HalfBacked ==
  ASSUME OversoldInv, Alone, TypeInv', T1Done
  PROVE  OneExit' /\ Backed'
<1> USE DEF setup, clock, flags
<1>1. /\ TypeInv /\ OneExit /\ Backed /\ "opt" \in Loops
      /\ exit["opt"] # NoExit /\ exit["opt"].kind = "T1" /\ exit["opt"].qty = Half
      /\ ready /\ pos' = pos /\ file' = pos /\ day' = day
  BY DEF OversoldInv, FileInv, Alone, T1Done, Persist, OneExit, HalfExits, InFlight, Loops
<1>2. \A m \in Loops : m # "opt" => exit[m] = NoExit
  BY <1>1 DEF OneExit
<1>3. /\ exit["opt"].con \in Contracts /\ exit["opt"].price \in Ticks
      /\ \/ held' = held
         \/ \A c \in Contracts :
              held'[c] = held[c] - (IF c = exit["opt"].con THEN exit["opt"].qty ELSE 0)
  BY <1>1, SoldEffect DEF T1Done
<1>4. \A c \in Contracts : Bought(c)' = Bought(c)
  BY DEF T1Done, Bought, At
<1>5. ASSUME NEW c \in Contracts
      PROVE  held'[c] >= ShareOf(pos, c) + Total * Cardinality(Bought(c))
  <2>1. held[c] >= ShareOf(pos, c) + HalfAway(c) + Total * Cardinality(Bought(c))
    BY <1>1 DEF Backed
  <2>2. /\ ShareOf(pos, c) \in 0..Total /\ Cardinality(Bought(c)) \in Nat /\ held[c] \in Int
    BY <1>1, ShareType
  <2>3. HalfAway(c) = IF c = exit["opt"].con THEN exit["opt"].qty ELSE 0
    BY <1>1 DEF HalfAway
  <2> QED
    BY <1>1, <1>3, <2>1, <2>2, <2>3
<1>6. /\ \A m \in Loops : m # "opt" => exit'[m] = NoExit
      /\ \/ exit'["opt"] = NoExit
         \/ /\ pos # NoPos /\ exit'["opt"] # NoExit /\ exit'["opt"].kind = "SL"
            /\ exit'["opt"].con = pos.con /\ exit'["opt"].qty = Half
  <2>1. CASE exit' = [exit EXCEPT !["opt"] = NoExit]
    BY <1>1, <1>2, <2>1 DEF TypeInv, TypeOK
  <2>2. CASE /\ pos # NoPos
             /\ Selling("opt", "SL", pos.con, Total - Half, exit["opt"].price)
    <3>1. pos.con \in Contracts /\ Total - Half \in 1..Total /\ Total - Half = Half
      BY <1>1, <2>2, PosParts
    <3>2. exit \in [Loops -> Exits \cup {NoExit}]
      BY <1>1 DEF TypeInv, TypeOK
    <3> QED
      BY <1>1, <1>2, <1>3, <2>2, <3>1, <3>2, SellingType
  <2> QED
    BY <2>1, <2>2 DEF T1Done
<1>7. OneExit'
  <2>1. HalfExits'
    BY <1>1, <1>6, Apart DEF HalfExits, Loops
  <2>2. \A k, m \in Loops : exit'[k] # NoExit /\ exit'[m] # NoExit => k = m
    BY <1>6
  <2> QED
    BY <1>1, <2>1, <2>2 DEF OneExit, T1Done
<1>8. Backed'
  <2>1. ASSUME NEW c \in Contracts
        PROVE  /\ held'[c] >= ShareOf(pos, c)' + HalfAway(c)' + Total * Cardinality(Bought(c)')
               /\ held'[c] >= ShareOf(file, c)' + Total * Cardinality(Bought(c)')
    <3>1. ShareOf(pos, c)' = ShareOf(pos, c) /\ ShareOf(file, c)' = ShareOf(pos, c)
      BY <1>1 DEF ShareOf
    <3>2. HalfAway(c)' = 0
      BY <1>6, Apart DEF HalfAway
    <3>3. ShareOf(pos, c) \in 0..Total
      BY <1>1, ShareType
    <3> QED
      BY <1>4, <1>5, <3>1, <3>2, <3>3
  <2>2. ASSUME NEW m \in Loops, Closes(m)'
        PROVE  held'[exit'[m].con] >= exit'[m].qty + Total * Cardinality(Bought(exit[m].con)')
    <3>1. m = "opt" /\ pos # NoPos /\ exit'[m].con = pos.con /\ exit'[m].qty = Half
      BY <1>6, <2>2 DEF Closes
    <3>2. pos.con \in Contracts /\ pos.day = day /\ pos.rem \in {Half, Total}
      BY <1>1, <3>1, PosParts DEF OneExit
    <3>3. ShareOf(pos, pos.con) = pos.rem
      BY <3>1, <3>2 DEF ShareOf
    <3>4. held'[pos.con] >= pos.rem + Total * Cardinality(Bought(pos.con))
      BY <1>5, <3>2, <3>3
    <3>5. Cardinality(Bought(pos.con)) \in Nat /\ held'[pos.con] \in Int
      BY <1>1, <3>2, ShareType DEF TypeInv, TypeOK
    <3> QED
      BY <1>4, <3>1, <3>2, <3>4, <3>5
  <2> QED
    BY <2>1, <2>2 DEF Backed
<1> QED
  BY <1>7, <1>8

\* The exits and the trailing stops sell what is there.
LEMMA OversoldExits ==
  ASSUME OversoldInv, Alone, TypeInv',
         \/ \E p \in Ticks : T1Hit(p) \/ StopHit(p) \/ FloorHit(p)
         \/ \E r \in Ticks : FuturesTrail(r) \/ TrapTrail(r)
         \/ T1Done \/ \E l \in Loops : ExitDone(l)
  PROVE  OneExit' /\ Backed'
<1> USE DEF setup, clock, flags
<1>1. /\ TypeInv /\ OneExit /\ Backed /\ "opt" \in Loops /\ ExitLoop \in Loops
  BY DEF OversoldInv, FileInv, Alone, Loops, ExitLoop
<1>2. ASSUME NEW p \in Ticks, T1Hit(p) PROVE OneExit' /\ Backed'
  <2>1. MayExit("opt") /\ pos # NoPos /\ ~pos.t1 /\ Selling("opt", "T1", pos.con, Half, p)
    BY <1>2 DEF T1Hit, TargetReached, MayExit
  <2>2. /\ pos' # NoPos /\ pos'.con = pos.con /\ pos'.day = pos.day
        /\ pos'.rem = pos.rem - Half /\ pos.day = day
    BY <1>1, <1>2, <2>1, Halved, PosParts, ExitStarts DEF T1Hit
  <2>3. UNCHANGED <<faults, day, running, ready, entry, file, held>>
    BY <1>2 DEF T1Hit
  <2> QED
    BY <1>1, <1>2, <2>1, <2>2, <2>3, SellingBacked
<1>3. ASSUME NEW p \in Ticks, StopHit(p) \/ FloorHit(p) PROVE OneExit' /\ Backed'
  <2>1. MayExit(ExitLoop) /\ pos.rem \in 1..Total
    BY <1>1, <1>3, ExitStarts DEF StopHit, FloorHit
  <2>2. UNCHANGED <<faults, day, running, ready, entry, file, held>> /\ pos' = pos
    BY <1>3 DEF StopHit, FloorHit
  <2>3. \/ Selling(ExitLoop, "SL", pos.con, pos.rem, p)
        \/ Selling(ExitLoop, "FLOOR", pos.con, pos.rem, p)
    BY <1>3 DEF StopHit, FloorHit
  <2> QED
    BY <1>1, <2>1, <2>2, <2>3, SellingBacked
<1>4. ASSUME NEW r \in Ticks, FuturesTrail(r) \/ TrapTrail(r) PROVE OneExit' /\ Backed'
  <2>1. /\ pos # NoPos /\ pos' = [pos EXCEPT !.trail = r] /\ file' = pos'
        /\ UNCHANGED <<faults, day, running, ready, entry, exit, held>>
    BY <1>4 DEF FuturesTrail, TrapTrail, Trailed, Persist
  <2>2. pos' # NoPos /\ pos'.con = pos.con /\ pos'.day = pos.day /\ pos'.rem = pos.rem
    BY <1>1, <2>1, Lifted
  <2>3. OneExit'
    BY <1>1, <2>1, <2>2 DEF OneExit, HalfExits, InFlight
  <2>4. Backed'
    <3>1. \A c \in Contracts : /\ Bought(c)' = Bought(c) /\ HalfAway(c)' = HalfAway(c)
                               /\ ShareOf(pos, c)' = ShareOf(pos, c)
                               /\ ShareOf(file, c)' = ShareOf(pos, c)
      BY <2>1, <2>2 DEF Bought, At, HalfAway, ShareOf
    <3>2. \A m \in Loops : Closes(m)' => Closes(m)
      BY <2>1 DEF Closes
    <3>3. ASSUME NEW c \in Contracts
          PROVE  held[c] >= ShareOf(pos, c) + Total * Cardinality(Bought(c))
      BY <1>1, ShareType DEF Backed
    <3>4. \A m \in Loops : Closes(m) => exit[m].con \in Contracts
      BY <1>1 DEF Closes, TypeInv, TypeOK, Exits
    <3> QED
      BY <1>1, <2>1, <3>1, <3>2, <3>3, <3>4 DEF Backed
  <2> QED
    BY <2>3, <2>4
<1>5. CASE T1Done
  BY <1>5, HalfBacked
<1>6. ASSUME NEW l \in Loops, ExitDone(l) PROVE OneExit' /\ Backed'
  <2>1. /\ Closes(l) /\ Sold(l) /\ pos' = NoPos /\ file' = NoPos
        /\ exit' = [exit EXCEPT ![l] = NoExit] /\ ready' = ready
        /\ UNCHANGED <<faults, day, running, entry>>
    BY <1>6 DEF ExitDone, Closes, Cleared
  <2> QED
    BY <2>1, ClosingBacked
<1> QED
  BY <1>2, <1>3, <1>4, <1>5, <1>6

\* How a step of a task moves the count of what is still to be booked.
LEMMA BoughtCounts ==
  ASSUME TypeInv, NEW z \in Zones, NEW c \in Contracts,
         \/ StartEntry(z) \/ PickStrike(z) \/ PlaceEntry(z)
         \/ EntryFilled(z) \/ EntryNotFilled(z) \/ EntryFails(z)
  PROVE  LET n == Cardinality(Bought(c))
             m == Cardinality(Bought(c)')
         IN  /\ n \in Nat /\ m \in Nat
             /\ PlaceEntry(z) => held'[c] - Total * m = held[c] - Total * n
             /\ ~PlaceEntry(z) => held' = held /\ m <= n
             /\ EntryFilled(z) /\ c = At(z) => m = n - 1
<1> DEFINE U == Bought(c)
           V == Bought(c)'
<1>1. U \in SUBSET Zones /\ V \in SUBSET Zones /\ held[c] \in Int
  BY DEF Bought, TypeInv, TypeOK
<1>2. V \ {z} = U \ {z}
  BY BoughtMoves
<1>3. Cardinality(U) \in Nat /\ Cardinality(V) \in Nat
  BY <1>1, ZoneCounts
<1>4. ASSUME ~PlaceEntry(z) PROVE held' = held /\ Cardinality(V) <= Cardinality(U)
  <2>1. held' = held /\ z \notin V
    BY <1>4, BoughtMoves
  <2>2. V \subseteq U
    BY <1>2, <2>1
  <2> QED
    BY <1>1, <2>1, <2>2, ZoneCounts
<1>5. ASSUME PlaceEntry(z)
      PROVE  held'[c] - Total * Cardinality(V) = held[c] - Total * Cardinality(U)
  <2>1. z \notin U
    BY <1>5, BoughtMoves
  <2>2. CASE held' = held /\ z \notin V
    <3>1. V = U
      BY <1>2, <2>1, <2>2
    <3> QED
      BY <2>2, <3>1
  <2>3. CASE (z \in V <=> c = At(z)) /\ held'[c] = held[c] + (IF c = At(z) THEN Total ELSE 0)
    <3>1. CASE c = At(z)
      <4>1. V = U \cup {z}
        BY <1>2, <2>3, <3>1
      <4>2. Cardinality(V) = Cardinality(U) + 1
        BY <1>1, <2>1, <4>1, ZoneCounts
      <4> QED
        BY <1>1, <1>3, <2>3, <3>1, <4>2
    <3>2. CASE c # At(z)
      <4>1. V = U
        BY <1>2, <2>1, <2>3, <3>2
      <4> QED
        BY <1>1, <1>3, <2>3, <3>2, <4>1
    <3> QED
      BY <3>1, <3>2
  <2> QED
    BY <1>5, <2>2, <2>3, BoughtMoves
<1>6. ASSUME EntryFilled(z), c = At(z) PROVE Cardinality(V) = Cardinality(U) - 1
  <2>1. ~PlaceEntry(z)
    BY <1>6 DEF EntryFilled, PlaceEntry, Entry
  <2>2. z \notin V /\ z \in U
    BY <1>6, <2>1, BoughtMoves
  <2>3. V = U \ {z}
    BY <1>2, <2>2
  <2> QED
    BY <1>1, <2>2, <2>3, ZoneCounts
<1> QED
  BY <1>3, <1>4, <1>5, <1>6

\* A task that buys adds what it will book; a position that is made was bought.
LEMMA OversoldEntries ==
  ASSUME OversoldInv, Alone, TypeInv',
         \E z \in Zones : \/ StartEntry(z) \/ PickStrike(z) \/ PlaceEntry(z)
                          \/ EntryFilled(z) \/ EntryNotFilled(z) \/ EntryFails(z)
  PROVE  OneExit' /\ Backed'
<1> USE DEF setup, clock, flags
<1>1. PICK z \in Zones : \/ StartEntry(z) \/ PickStrike(z) \/ PlaceEntry(z)
                         \/ EntryFilled(z) \/ EntryNotFilled(z) \/ EntryFails(z)
  OBVIOUS
<1>2. TypeInv /\ OneExit /\ Backed
  BY DEF OversoldInv, FileInv, Alone
<1>3. UNCHANGED <<faults, day, running, ready, exit>>
  BY <1>1 DEF StartEntry, PickStrike, PlaceEntry, EntryFilled, EntryNotFilled, EntryFails
<1> DEFINE p == [con |-> At(z), rem |-> Total, t1 |-> FALSE, trail |-> StopRank, day |-> day]
<1>4. EntryFilled(z) => file' = p /\ (pos' = pos \/ pos' = p) /\ At(z) \in Contracts
  BY <1>1, <1>2, BoughtMoves DEF EntryFilled, Persist, At
<1>5. ~EntryFilled(z) => file' = file /\ pos' = pos
  BY <1>1 DEF StartEntry, PickStrike, PlaceEntry, EntryNotFilled, EntryFails
<1>6. p.day = day /\ p.con = At(z) /\ p.rem = Total /\ p # NoPos /\ day \in Nat
  <2>1. p.day = day /\ p.con = At(z) /\ p.rem = Total /\ p # NoPos
    BY DEF NoPos
  <2>2. day \in Nat
    BY <1>2 DEF TypeInv, TypeOK
  <2> QED
    BY <2>1, <2>2
<1> HIDE DEF p
<1>7. OneExit'
  BY <1>2, <1>3, <1>4, <1>5, <1>6 DEF OneExit, HalfExits, InFlight
<1>8. ASSUME NEW c \in Contracts
      PROVE  /\ held'[c] >= ShareOf(pos, c)' + HalfAway(c)' + Total * Cardinality(Bought(c)')
             /\ held'[c] >= ShareOf(file, c)' + Total * Cardinality(Bought(c)')
  <2>1. HalfAway(c)' = HalfAway(c)
    BY <1>3 DEF HalfAway
  <2>2. /\ held[c] >= ShareOf(pos, c) + HalfAway(c) + Total * Cardinality(Bought(c))
        /\ held[c] >= ShareOf(file, c) + Total * Cardinality(Bought(c))
    BY <1>2 DEF Backed
  <2>3. /\ ShareOf(pos, c) \in 0..Total /\ ShareOf(file, c) \in 0..Total
        /\ HalfAway(c) \in 0..Half /\ held[c] \in Int /\ held'[c] \in Int
    BY <1>2, ShareType DEF TypeInv, TypeOK
  <2>4. CASE ~EntryFilled(z)
    <3>1. ShareOf(pos, c)' = ShareOf(pos, c) /\ ShareOf(file, c)' = ShareOf(file, c)
      BY <1>3, <1>5, <2>4 DEF ShareOf
    <3> QED
      BY <1>1, <1>2, <2>1, <2>2, <2>3, <3>1, BoughtCounts
  <2>5. CASE EntryFilled(z)
    <3>1. ~PlaceEntry(z)
      BY <2>5 DEF EntryFilled, PlaceEntry, Entry
    <3>2. ShareOf(p, c) = IF c = At(z) THEN Total ELSE 0
      BY <1>6 DEF ShareOf
    <3>3. /\ ShareOf(file, c)' = ShareOf(p, c)
          /\ ShareOf(pos, c)' = ShareOf(pos, c) \/ ShareOf(pos, c)' = ShareOf(p, c)
      BY <1>3, <1>4, <2>5 DEF ShareOf
    <3>4. /\ Cardinality(Bought(c)) \in Nat /\ Cardinality(Bought(c)') \in Nat /\ held' = held
          /\ Cardinality(Bought(c)') <= Cardinality(Bought(c))
          /\ c = At(z) => Cardinality(Bought(c)') = Cardinality(Bought(c)) - 1
      BY <1>2, <2>5, <3>1, BoughtCounts
    <3> QED
      BY <2>1, <2>2, <2>3, <3>2, <3>3, <3>4
  <2> QED
    BY <2>4, <2>5
<1>9. ASSUME NEW l \in Loops, Closes(l)'
      PROVE  held'[exit'[l].con] >= exit'[l].qty + Total * Cardinality(Bought(exit[l].con)')
  <2>1. Closes(l) /\ exit'[l] = exit[l] /\ exit[l].con \in Contracts /\ exit[l].qty \in 1..Total
    BY <1>2, <1>3, <1>9 DEF Closes, TypeInv, TypeOK, Exits
  <2>2. held[exit[l].con] >= exit[l].qty + Total * Cardinality(Bought(exit[l].con))
    BY <1>2, <2>1 DEF Backed
  <2>3. held[exit[l].con] \in Int /\ held'[exit[l].con] \in Int
    BY <1>2, <2>1 DEF TypeInv, TypeOK
  <2> QED
    BY <1>1, <1>2, <2>1, <2>2, <2>3, BoughtCounts
<1>10. Backed'
  BY <1>3, <1>8, <1>9 DEF Backed
<1> QED
  BY <1>7, <1>10

\* With no exit in flight and nothing bought, a step that forgets or takes the
\* file for the position is backed.
LEMMA RestBacked ==
  ASSUME OversoldInv, Alone, ~InFlight, \A l \in Loops : exit'[l] = NoExit,
         \A c \in Contracts : Bought(c)' \subseteq Bought(c),
         pos' = pos \/ pos' = NoPos \/ pos' = file, file' = file \/ file' = NoPos,
         ready' => running' /\ (pos' # NoPos => pos'.day = day),
         UNCHANGED <<day, held>>
  PROVE  OneExit' /\ Backed'
<1>1. TypeInv /\ OneExit /\ Backed
  BY DEF OversoldInv, FileInv, Alone
<1>2. OneExit'
  BY <1>1, Apart DEF OneExit, HalfExits, InFlight, Loops
<1>3. ASSUME NEW c \in Contracts
      PROVE  /\ held'[c] >= ShareOf(pos, c)' + HalfAway(c)' + Total * Cardinality(Bought(c)')
             /\ held'[c] >= ShareOf(file, c)' + Total * Cardinality(Bought(c)')
  <2>1. HalfAway(c) = 0 /\ HalfAway(c)' = 0
    BY Apart DEF HalfAway, InFlight, Loops
  <2>2. /\ held[c] >= ShareOf(pos, c) + HalfAway(c) + Total * Cardinality(Bought(c))
        /\ held[c] >= ShareOf(file, c) + Total * Cardinality(Bought(c))
    BY <1>1 DEF Backed
  <2>3. /\ ShareOf(pos, c) \in 0..Total /\ ShareOf(file, c) \in 0..Total
        /\ held[c] \in Int /\ Cardinality(Bought(c)) \in Nat
        /\ Bought(c) \in SUBSET Zones
    BY <1>1, ShareType
  <2>4. Cardinality(Bought(c)') \in Nat /\ Cardinality(Bought(c)') <= Cardinality(Bought(c))
    <3>1. Bought(c)' \in SUBSET Zones
      BY <2>3
    <3> QED
      BY <2>3, <3>1, ZoneCounts
  <2>5. /\ ShareOf(file, c)' = ShareOf(file, c) \/ ShareOf(file, c)' = 0
        /\ \/ ShareOf(pos, c)' = ShareOf(pos, c) \/ ShareOf(pos, c)' = 0
           \/ ShareOf(pos, c)' = ShareOf(file, c)
    BY DEF ShareOf
  <2> QED
    BY <2>1, <2>2, <2>3, <2>4, <2>5
<1>4. \A l \in Loops : ~Closes(l)'
  BY DEF Closes
<1>5. Backed'
  BY <1>3, <1>4 DEF Backed
<1> QED
  BY <1>2, <1>5

\* A restart, a stop or a night leaves no exit behind and sells nothing.
LEMMA OversoldOutside ==
  ASSUME OversoldInv, Alone, TypeInv',
         \/ MorningInit \/ EodSquareOff \/ EodDone \/ SetExpiryMode
         \/ StopEngine \/ SpawnEngine \/ RespawnEngine \/ Crash
         \/ CutoffTime \/ SquareOffTime \/ NewDay
  PROVE  OneExit' /\ Backed'
<1> USE DEF setup, clock, flags
<1>1. /\ TypeInv /\ OneExit /\ Backed /\ Owned /\ "opt" \in Loops /\ "life" \in Loops
  BY DEF OversoldInv, FileInv, Alone, Loops
<1>2. ASSUME entry' = entry PROVE \A c \in Contracts : Bought(c)' = Bought(c)
  BY <1>2 DEF Bought, At
<1>3. CASE MorningInit
  <2>1. ~InFlight /\ pos = NoPos /\ entry' = entry /\ exit' = exit /\ held' = held /\ day' = day
    BY <1>1, <1>3 DEF MorningInit, OneExit, Owned
  <2>2. /\ (pos' = NoPos \/ pos' = file) /\ (file' = file \/ file' = NoPos)
        /\ running' /\ (pos' # NoPos => pos'.day = day)
    BY <1>3, <2>1 DEF MorningInit, Cleared, OfToday
  <2> QED
    BY <1>2, <2>1, <2>2, RestBacked DEF InFlight
<1>4. CASE EodSquareOff
  <2>1. (~InFlight /\ MayExit("life")) \/ pos = NoPos
    BY <1>4 DEF EodSquareOff, MayExit, Overlap, Alone, Survives
  <2>2. CASE pos # NoPos
    <3>1. /\ Selling("life", "EOD", pos.con, pos.rem, EntryRank) /\ EntryRank \in Ticks
          /\ UNCHANGED <<faults, day, running, ready, entry, file, held, pos>>
      BY <1>4, <2>2 DEF EodSquareOff, SquareOffDue, EntryRank, Ticks
    <3>2. pos.rem \in 1..Total
      BY <1>1, <2>2, PosParts
    <3> QED
      BY <1>1, <2>1, <2>2, <3>1, <3>2, SellingBacked
  <2>3. CASE pos = NoPos
    <3>1. DayReset /\ UNCHANGED <<exit, entry, held, day>> /\ ~InFlight
      BY <1>4, <2>3 DEF EodSquareOff, SquareOffDue, Overlap, Alone, Survives
    <3> QED
      BY <1>2, <3>1, RestBacked DEF DayReset, Cleared, InFlight
  <2> QED
    BY <2>2, <2>3
<1>5. CASE EodDone
  <2>1. Closes("life")
    BY <1>1, <1>5 DEF EodDone, Closes, OneExit, HalfExits
  <2> QED
    BY <1>1, <1>5, <2>1, ClosingBacked DEF EodDone, DayReset, Cleared
<1>6. CASE SetExpiryMode
  <2>1. ~InFlight /\ UNCHANGED <<exit, entry, held, day, pos, file>> /\ ~ready'
    BY <1>6 DEF SetExpiryMode
  <2> QED
    BY <1>2, <2>1, RestBacked DEF InFlight
<1>7. ASSUME StopEngine \/ RespawnEngine \/ Crash PROVE OneExit' /\ Backed'
  <2>1. /\ Fresh /\ LoopsCancelled /\ ~InFlight /\ UNCHANGED <<day, file>>
        /\ Orphaned \/ entry' = [z \in Zones |-> NoEntry]
    BY <1>7 DEF StopEngine, RespawnEngine, Crash, MayStop, Alone, Survives
  <2>2. held' = held /\ \A l \in Loops : exit'[l] = NoExit
    BY <1>1, <2>1, CancelledEffect
  <2>3. \A c \in Contracts : Bought(c)' \subseteq Bought(c)
    <3>1. CASE Orphaned
      <4>1. \A z \in Zones : entry'[z].at = "sent" => /\ entry[z].at = "sent"
                                                     /\ entry'[z].rungs = entry[z].rungs
                                                     /\ entry'[z].bought = entry[z].bought
        BY <1>1, <3>1, OrphanedEffect
      <4> QED
        BY <4>1 DEF Bought, At
    <3>2. CASE entry' = [z \in Zones |-> NoEntry]
      BY <3>2, Apart DEF Bought
    <3> QED
      BY <2>1, <3>1, <3>2
  <2> QED
    BY <2>1, <2>2, <2>3, RestBacked DEF Fresh
<1>8. CASE SpawnEngine
  <2>1. ~InFlight /\ pos = NoPos
    BY <1>1, <1>8 DEF SpawnEngine, OneExit, Owned
  <2> QED
    BY <1>2, <1>8, <2>1, RestBacked DEF SpawnEngine, InFlight
<1>9. CASE CutoffTime \/ SquareOffTime
  <2>1. UNCHANGED <<day, running, ready, exit, entry, held, pos, file>>
    BY <1>9 DEF CutoffTime, SquareOffTime
  <2>2. OneExit'
    BY <1>1, <2>1 DEF OneExit, HalfExits, InFlight
  <2>3. Backed'
    BY <1>1, <1>2, <2>1 DEF Backed, Closes, HalfAway, ShareOf, Bought, At
  <2> QED
    BY <2>2, <2>3
<1>10. CASE NewDay
  <2>1. /\ ~InFlight /\ ~Entering /\ ~ready /\ day' = day + 1 /\ day \in Nat
        /\ UNCHANGED <<running, ready, exit, entry, pos, file>>
        /\ held' = [c \in Contracts |-> 0]
    <3>1. running \/ ~ready
      BY <1>1 DEF OneExit
    <3>2. day \in Nat
      BY <1>1 DEF TypeInv, TypeOK
    <3> QED
      BY <1>10, <3>1, <3>2 DEF NewDay, Quiet
  <2>2. \A l \in Loops : exit[l] = NoExit
    BY <2>1 DEF InFlight
  <2>3. /\ pos # NoPos => pos.day \in Nat /\ pos.day <= day
        /\ file # NoPos => file.day \in Nat /\ file.day <= day
    BY <1>1 DEF OneExit, TypeInv, TypeOK, Positions
  <2>4. OneExit'
    BY <1>1, <2>1, <2>2, <2>3 DEF OneExit, HalfExits, InFlight
  <2>5. ASSUME NEW c \in Contracts
        PROVE  /\ held'[c] >= ShareOf(pos, c)' + HalfAway(c)' + Total * Cardinality(Bought(c)')
               /\ held'[c] >= ShareOf(file, c)' + Total * Cardinality(Bought(c)')
    <3>1. HalfAway(c)' = 0
      BY <1>1, <2>1, <2>2, Apart DEF HalfAway
    <3>2. Bought(c)' = {}
      BY <2>1 DEF Bought, Entering, Entry
    <3>3. ShareOf(pos, c)' = 0 /\ ShareOf(file, c)' = 0
      BY <2>1, <2>3 DEF ShareOf
    <3>4. Cardinality(Bought(c)') = 0
      BY <3>2, ZoneCounts
    <3> QED
      BY <2>1, <3>1, <3>3, <3>4
  <2>6. \A l \in Loops : ~Closes(l)'
    BY <2>1, <2>2 DEF Closes
  <2>7. Backed'
    BY <2>5, <2>6 DEF Backed
  <2> QED
    BY <2>4, <2>7
<1> QED
  BY <1>3, <1>4, <1>5, <1>6, <1>7, <1>8, <1>9, <1>10

\* What goes wrong is settled at the start.
LEMMA FaultsKept == [Next]_vars => faults' = faults
  BY DEF vars, setup, Next, EngineStep, T1Hit, StopHit, FloorHit, FuturesTrail, TrapTrail, Trailed,
     T1Done, ExitDone, StartEntry, PickStrike, PlaceEntry, EntryFilled, EntryNotFilled, EntryFails,
     MorningInit, EodSquareOff, EodDone, SetExpiryMode, StopEngine, SpawnEngine, RespawnEngine,
     Crash, CutoffTime, SquareOffTime, NewDay

\* Every step keeps what is sold to what was bought.
LEMMA OversoldStep == OversoldInv /\ [Next]_vars => OversoldInv'
<1> SUFFICES ASSUME OversoldInv, [Next]_vars PROVE OversoldInv'
  OBVIOUS
<1>1. FileInv' /\ TypeInv'
  BY FileStep DEF OversoldInv, FileInv
<1>2. faults' = faults
  BY FaultsKept
<1>3. SUFFICES ASSUME Alone PROVE OneExit' /\ Backed'
  BY <1>1, <1>2 DEF OversoldInv, Alone, Survives
<1>4. CASE UNCHANGED vars
  <2>1. OneExit'
    BY <1>3, <1>4 DEF OversoldInv, Alone, OneExit, HalfExits, InFlight, vars, setup, clock, flags
  <2>2. Backed'
    BY <1>3, <1>4 DEF OversoldInv, Alone, Backed, Closes, HalfAway, ShareOf, Bought, At,
                      vars, setup, clock, flags
  <2> QED
    BY <2>1, <2>2
<1>5. CASE Next
  BY <1>1, <1>3, <1>5, OversoldExits, OversoldEntries, OversoldOutside DEF Next, EngineStep
<1> QED
  BY <1>4, <1>5

\* However late fills came, exits were refused, signals raced and entries
\* outlived their engine: no more is ever sold than was bought, and the position
\* is there to be sold.
THEOREM NothingOversoldTheorem == Spec => []NothingOversold
<1>1. TrapInit => OversoldInv
  <2> SUFFICES ASSUME TrapInit PROVE OneExit /\ Backed
    BY FileInit DEF OversoldInv
  <2>1. \A l \in Loops : exit[l] = NoExit
    BY DEF TrapInit
  <2>2. pos = NoPos /\ file = NoPos /\ ~ready
    BY DEF TrapInit
  <2>3. \A c \in Contracts : /\ held[c] = 0 /\ HalfAway(c) = 0 /\ Cardinality(Bought(c)) = 0
                             /\ ShareOf(pos, c) = 0 /\ ShareOf(file, c) = 0
    <3> SUFFICES ASSUME NEW c \in Contracts
                 PROVE  /\ held[c] = 0 /\ HalfAway(c) = 0 /\ Cardinality(Bought(c)) = 0
                        /\ ShareOf(pos, c) = 0 /\ ShareOf(file, c) = 0
      OBVIOUS
    <3>1. Bought(c) = {}
      BY Apart DEF TrapInit, Bought
    <3> QED
      BY <2>1, <2>2, <3>1, ZoneCounts, Apart DEF TrapInit, HalfAway, ShareOf, Loops
  <2>4. OneExit
    BY <2>1, <2>2, Apart DEF OneExit, HalfExits, InFlight, Loops
  <2>5. Backed
    BY <2>1, <2>3 DEF Backed, Closes
  <2> QED
    BY <2>4, <2>5
<1>2. OversoldInv => NothingOversold
  <2> SUFFICES ASSUME OversoldInv, Alone, NEW c \in Contracts
               PROVE  held[c] >= IF Quiet THEN Share(c) ELSE 0
    BY DEF NothingOversold, Alone
  <2>1. /\ held[c] >= ShareOf(pos, c) + HalfAway(c) + Total * Cardinality(Bought(c))
        /\ held[c] >= ShareOf(file, c) + Total * Cardinality(Bought(c))
    BY DEF OversoldInv, Alone, Backed
  <2>2. /\ ShareOf(pos, c) \in 0..Total /\ ShareOf(file, c) \in 0..Total
        /\ HalfAway(c) \in 0..Half /\ held[c] \in Int /\ Cardinality(Bought(c)) \in Nat
    BY ShareType DEF OversoldInv, FileInv
  <2>3. Share(c) = ShareOf(pos, c) \/ Share(c) = ShareOf(file, c)
    BY DEF Share, ShareOf, Believed
  <2> QED
    BY <2>1, <2>2, <2>3
<1> QED
  BY <1>1, <1>2, OversoldStep, PTL DEF Spec

----------------------------------------------------------------------------
(* Nothing is forgotten *)

\* With overlapping exits as the only fault, every part of the invariant holds.
LEMMA CalmMeans ==
  ASSUME ForgottenInv, Calm
  PROVE  /\ TypeInv /\ Owned /\ Paired /\ Orderly /\ Covered /\ FileInv
         /\ faults \subseteq {"overlap"}
         /\ {"opt", "idx", "life"} = Loops /\ ExitLoop \in {"opt", "idx"}
         /\ exit \in [Loops -> Exits \cup {NoExit}]
<1>1. faults \subseteq {"overlap"}
  BY DEF Calm, Survives, ForgottenInv, FileInv, TypeInv, TypeOK
<1>2. Survives({"stop_in_entry"})
  BY <1>1 DEF Survives
<1> QED
  BY <1>1, <1>2 DEF ForgottenInv, FileInv, TypeInv, TypeOK, Loops, ExitLoop

\* What the engine or its file answers for is a quantity, and so is what is due.
LEMMA AccountType ==
  ASSUME TypeInv, NEW c \in Contracts
  PROVE  /\ Share(c) = IF initDone THEN ShareOf(pos, c) ELSE ShareOf(file, c)
         /\ Share(c) \in 0..Total /\ HalfAway(c) \in 0..Half /\ Due(c) \in 0..Total
         /\ held[c] \in Int
         /\ ~Entering => Due(c) = 0
<1>1. Share(c) = IF initDone THEN ShareOf(pos, c) ELSE ShareOf(file, c)
  BY DEF Share, Believed, ShareOf
<1>2. ~Entering => Bought(c) = {}
  BY DEF Entering, Entry, Bought
<1> QED
  BY <1>1, <1>2, ShareType DEF Due

\* Tasks that are not touched owe what they owed.
LEMMA DueKept ==
  ASSUME entry' = entry, NEW c \in Contracts
  PROVE  Due(c)' = Due(c) /\ Entering' = Entering
  BY DEF Due, Bought, At, Entering, Entry

\* The engine has a position that it may exit: nothing is being entered, and the
\* account holds no more of it than the position, and a half that is on its way.
LEMMA ExitOfPosition ==
  ASSUME ForgottenInv, Calm, ready, pos # NoPos
  PROVE  /\ initDone /\ pos \in Positions /\ pos.con \in Contracts /\ pos.day = day
         /\ pos.rem \in 1..Total /\ ~Entering
         /\ \A c \in Contracts : Due(c) = 0 /\ Share(c) = IF c = pos.con THEN pos.rem ELSE 0
         /\ held[pos.con] <= pos.rem + HalfAway(pos.con)
<1>1. TypeInv /\ Owned /\ Orderly /\ Covered
  BY CalmMeans
<1>2. initDone /\ pos.day = day /\ ~Entering
  BY <1>1 DEF Owned, Orderly
<1>3. pos \in Positions /\ pos.con \in Contracts /\ pos.rem \in 1..Total
  BY <1>1, PosParts
<1>4. \A c \in Contracts : Due(c) = 0 /\ Share(c) = IF c = pos.con THEN pos.rem ELSE 0
  BY <1>1, <1>2, AccountType DEF ShareOf
<1>5. held[pos.con] <= Share(pos.con) + HalfAway(pos.con) + Due(pos.con)
  BY <1>1, <1>3 DEF Covered
<1>6. HalfAway(pos.con) \in Int /\ held[pos.con] \in Int
  BY <1>1, <1>3, AccountType
<1> QED
  BY <1>2, <1>3, <1>4, <1>5, <1>6

\* The exit that ends the position is done: what is left is at the broker or due.
LEMMA ClosingCovered ==
  ASSUME ForgottenInv, Calm, TypeInv', NEW l \in Loops, Closes(l), Sold(l),
         pos' = NoPos, file' = NoPos, exit' = [exit EXCEPT ![l] = NoExit],
         ready' => ready, ~initDone' /\ initDone => phase = "closing",
         UNCHANGED <<source, phase, day, entry>>
  PROVE  Orderly' /\ Covered'
<1>1. /\ TypeInv /\ Owned /\ Orderly /\ Covered /\ "exit_refused" \notin faults
      /\ {"opt", "idx", "life"} = Loops /\ ExitLoop \in {"opt", "idx"} /\ ExitLoop' = ExitLoop
      /\ exit \in [Loops -> Exits \cup {NoExit}]
  BY CalmMeans DEF ExitLoop
<1>2. /\ exit[l] # NoExit /\ exit[l].kind # "T1" /\ l \in {ExitLoop, "life"}
      /\ pos = NoPos \/ pos.con = exit[l].con
  BY <1>1 DEF Closes, Orderly
<1>3. /\ exit[l].con \in Contracts /\ exit[l].qty \in 1..Total
      /\ \A c \in Contracts : held'[c] = held[c] - (IF c = exit[l].con THEN exit[l].qty ELSE 0)
  BY <1>1, <1>2, SoldEffect
<1>4. /\ exit'[l] = NoExit /\ NoExit.kind = "none"
      /\ \A m \in Loops : m # l => exit'[m] = exit[m]
  BY <1>1, Apart
<1>5. \A c \in Contracts : HalfAway(c)' = HalfAway(c)
  BY <1>1, <1>2, <1>4 DEF HalfAway
<1>6. Orderly'
  <2>1. HalfExits'
    BY <1>1, <1>4 DEF Orderly, HalfExits
  <2>2. \A m \in Loops : Closes(m)' => m \in {ExitLoop, "life"}
    BY <1>1, <1>4 DEF Orderly, Closes
  <2>3. phase # "closing" => exit'[ExitLoop] = NoExit
    BY <1>1, <1>2, <1>4 DEF Owned
  <2>4. ~initDone' /\ InFlight' => phase = "closing"
    BY <1>1, <1>4 DEF Orderly, InFlight
  <2>5. \A y, z \in Zones : entry'[y].at # "none" /\ entry'[z].at # "none" => y = z
    BY <1>1 DEF Orderly
  <2> QED
    BY <1>1, <2>1, <2>2, <2>3, <2>4, <2>5 DEF Orderly
<1>7. ASSUME NEW c \in Contracts PROVE held'[c] <= Share(c)' + HalfAway(c)' + Due(c)'
  <2>1. held[c] <= Share(c) + HalfAway(c) + Due(c)
    BY <1>1 DEF Covered
  <2>2. /\ Share(c) \in 0..Total /\ HalfAway(c) \in 0..Half /\ Due(c) \in 0..Total
        /\ held[c] \in Int
        /\ Share(c) = IF initDone THEN ShareOf(pos, c) ELSE ShareOf(file, c)
    BY <1>1, AccountType
  <2>3. Share(c)' = 0 /\ Due(c)' = Due(c)
    BY DueKept DEF Share, Believed
  <2>4. CASE c = exit[l].con
    <3>1. held[c] <= exit[l].qty + HalfAway(c)
      BY <1>1, <2>4 DEF Covered
    <3> QED
      BY <1>3, <1>5, <2>2, <2>3, <2>4, <3>1
  <2>5. CASE c # exit[l].con
    <3>1. ~initDone => file = NoPos
      BY <1>1, <1>2 DEF Orderly, InFlight
    <3>2. Share(c) = 0
      BY <1>2, <2>2, <2>5, <3>1 DEF ShareOf
    <3> QED
      BY <1>3, <1>5, <2>1, <2>2, <2>3, <2>5, <3>2
  <2> QED
    BY <2>4, <2>5
<1>8. ASSUME NEW m \in Loops, Closes(m)'
      PROVE  held'[exit'[m].con] <= exit'[m].qty + HalfAway(exit[m].con)'
  <2>1. Closes(m) /\ exit'[m] = exit[m]
    BY <1>4, <1>8 DEF Closes
  <2>2. /\ exit[m].con \in Contracts /\ exit[m].qty \in 1..Total
        /\ held[exit[m].con] <= exit[m].qty + HalfAway(exit[m].con)
    BY <1>1, <2>1 DEF Closes, Exits, Covered
  <2>3. held[exit[m].con] \in Int /\ HalfAway(exit[m].con) \in 0..Half
    BY <1>1, <2>2, AccountType
  <2> QED
    BY <1>3, <1>5, <2>1, <2>2, <2>3
<1> QED
  BY <1>6, <1>7, <1>8 DEF Covered

\* An exit has started: it is of the position, and of all that is held of it.
LEMMA SellingCovered ==
  ASSUME ForgottenInv, Calm, TypeInv', NEW l \in Loops, ready, pos # NoPos, exit[l] = NoExit,
         NEW kind \in {"T1", "SL", "FLOOR", "EOD"}, NEW qty \in 1..Total, NEW price \in Ticks,
         Selling(l, kind, pos.con, qty, price),
         kind = "T1" => /\ l = "opt" /\ qty = Half
                        /\ pos' # NoPos /\ pos'.con = pos.con /\ pos'.day = day
                        /\ pos'.t1 = TRUE /\ pos'.rem = pos.rem - Half,
         kind # "T1" => qty = pos.rem /\ pos' = pos /\ l \in {ExitLoop, "life"},
         l = "life" => phase = "closing",
         UNCHANGED <<source, phase, day, ready, initDone, entry, file, held>>
  PROVE  Orderly' /\ Covered'
<1>1. /\ TypeInv /\ Owned /\ Orderly /\ Covered
      /\ {"opt", "idx", "life"} = Loops /\ ExitLoop \in {"opt", "idx"} /\ ExitLoop' = ExitLoop
      /\ exit \in [Loops -> Exits \cup {NoExit}]
  BY CalmMeans DEF ExitLoop
<1>2. /\ initDone /\ pos \in Positions /\ pos.con \in Contracts /\ pos.day = day
      /\ pos.rem \in 1..Total /\ ~Entering
      /\ \A c \in Contracts : Due(c) = 0 /\ Share(c) = IF c = pos.con THEN pos.rem ELSE 0
      /\ held[pos.con] <= pos.rem + HalfAway(pos.con)
  BY ExitOfPosition
<1>3. /\ exit'[l] # NoExit /\ exit'[l].kind = kind /\ exit'[l].con = pos.con /\ exit'[l].qty = qty
      /\ \A m \in Loops : m # l => exit'[m] = exit[m]
      /\ NoExit.kind = "none"
  BY <1>1, <1>2, SellingType, Apart
<1>4. pos' # NoPos /\ pos'.con = pos.con /\ pos'.day = day
  BY <1>2
<1>5. Orderly'
  <2>1. HalfExits'
    BY <1>1, <1>3 DEF Orderly, HalfExits
  <2>2. \A m \in Loops : Closes(m)' => m \in {ExitLoop, "life"} /\ pos'.con = exit'[m].con
    <3> SUFFICES ASSUME NEW m \in Loops, Closes(m)'
                 PROVE  m \in {ExitLoop, "life"} /\ pos'.con = exit'[m].con
      OBVIOUS
    <3>1. CASE m = l
      BY <1>3, <1>4, <3>1 DEF Closes
    <3>2. CASE m # l
      BY <1>1, <1>3, <1>4, <3>2 DEF Closes, Orderly
    <3> QED
      BY <3>1, <3>2
  <2>3. source = "option" /\ exit'["opt"].kind = "T1" => pos'.t1 = TRUE
    BY <1>1, <1>3 DEF Orderly
  <2>4. ~Entering' /\ \A y, z \in Zones : entry'[y].at # "none" /\ entry'[z].at # "none" => y = z
    BY <1>1, <1>2 DEF Orderly, Entering, Entry
  <2> QED
    BY <1>1, <1>2, <1>4, <2>1, <2>2, <2>3, <2>4 DEF Orderly
<1>6. \A c \in Contracts :
        HalfAway(c)' = IF kind = "T1" /\ c = pos.con THEN Half ELSE HalfAway(c)
  <2>1. \A c \in Contracts : exit[l].kind = "none"
    BY <1>3
  <2> QED
    BY <1>1, <1>3, <2>1 DEF HalfAway
<1>7. ASSUME NEW c \in Contracts PROVE held'[c] <= Share(c)' + HalfAway(c)' + Due(c)'
  <2>1. held[c] <= Share(c) + HalfAway(c) + Due(c)
    BY <1>1 DEF Covered
  <2>2. HalfAway(c) \in 0..Half /\ held[c] \in Int /\ Due(c)' = Due(c)
    BY <1>1, AccountType, DueKept
  <2>3. Share(c)' = IF c = pos.con THEN pos'.rem ELSE 0
    BY <1>2, <1>4 DEF Share, Believed
  <2>4. CASE kind = "T1"
    <3>1. HalfAway(c) = 0
      BY <1>3, <2>4 DEF HalfAway
    <3> QED
      BY <1>2, <1>6, <2>1, <2>2, <2>3, <2>4, <3>1
  <2>5. CASE kind # "T1"
    BY <1>2, <1>6, <2>1, <2>2, <2>3, <2>5
  <2> QED
    BY <2>4, <2>5
<1>8. ASSUME NEW m \in Loops, Closes(m)'
      PROVE  held'[exit'[m].con] <= exit'[m].qty + HalfAway(exit[m].con)'
  <2>1. CASE m = l
    <3>1. kind # "T1"
      BY <1>3, <1>8, <2>1 DEF Closes
    <3> QED
      BY <1>2, <1>3, <1>6, <2>1, <3>1
  <2>2. CASE m # l
    <3>1. Closes(m) /\ exit'[m] = exit[m]
      BY <1>3, <1>8, <2>2 DEF Closes
    <3>2. /\ exit[m].con \in Contracts /\ exit[m].qty \in 1..Total
          /\ held[exit[m].con] <= exit[m].qty + HalfAway(exit[m].con)
      BY <1>1, <3>1 DEF Closes, Exits, Covered
    <3>3. held[exit[m].con] \in Int /\ HalfAway(exit[m].con) \in 0..Half
      BY <1>1, <3>2, AccountType
    <3> QED
      BY <1>6, <3>1, <3>2, <3>3
  <2> QED
    BY <2>1, <2>2
<1> QED
  BY <1>5, <1>7, <1>8 DEF Covered

\* The half exit is done: the account is at the position, and a rest that is sold
\* at the same tick is all of it.
LEMMA HalfCovered ==
  ASSUME ForgottenInv, Calm, TypeInv', T1Done
  PROVE  Orderly' /\ Covered'
<1> USE DEF setup, clock, flags
<1>1. /\ TypeInv /\ Owned /\ Orderly /\ Covered /\ "exit_refused" \notin faults
      /\ {"opt", "idx", "life"} = Loops /\ ExitLoop \in {"opt", "idx"} /\ ExitLoop' = ExitLoop
      /\ exit \in [Loops -> Exits \cup {NoExit}]
  BY CalmMeans DEF ExitLoop, T1Done
<1>2. /\ exit["opt"] # NoExit /\ exit["opt"].kind = "T1" /\ exit["opt"].qty = Half
      /\ UNCHANGED <<source, phase, day, ready, initDone, entry, pos>> /\ file' = pos
  BY <1>1 DEF T1Done, Persist, Orderly, HalfExits
<1>3. /\ exit["opt"].con \in Contracts /\ exit["opt"].price \in Ticks
      /\ \A c \in Contracts : held'[c] = held[c] - (IF c = exit["opt"].con THEN Half ELSE 0)
  BY <1>1, <1>2, SoldEffect DEF T1Done
<1>4. /\ \A m \in Loops : m # "opt" => exit'[m] = exit[m]
      /\ NoExit.kind = "none"
      /\ \/ exit'["opt"] = NoExit
         \/ /\ source = "option" /\ pos # NoPos
            /\ exit'["opt"] # NoExit /\ exit'["opt"].kind = "SL"
            /\ exit'["opt"].con = pos.con /\ exit'["opt"].qty = Half
  <2>1. CASE exit' = [exit EXCEPT !["opt"] = NoExit]
    BY <1>1, <2>1, Apart
  <2>2. CASE /\ source = "option" /\ pos # NoPos
             /\ Selling("opt", "SL", pos.con, Total - Half, exit["opt"].price)
    <3>1. pos.con \in Contracts /\ Total - Half \in 1..Total /\ Total - Half = Half
      BY <1>1, <2>2, PosParts
    <3> QED
      BY <1>1, <1>3, <2>2, <3>1, SellingType, Apart
  <2> QED
    BY <2>1, <2>2 DEF T1Done
<1>5. ~initDone => pos = NoPos /\ file = NoPos /\ phase = "closing"
  BY <1>1, <1>2 DEF Owned, Orderly, InFlight
<1>6. Orderly'
  <2>1. HalfExits'
    BY <1>1, <1>4 DEF Orderly, HalfExits
  <2>2. \A m \in Loops : Closes(m)' => /\ m \in {ExitLoop, "life"}
                                       /\ pos = NoPos \/ pos.con = exit'[m].con
    BY <1>1, <1>4 DEF Closes, Orderly, ExitLoop
  <2>3. phase # "closing" /\ exit'[ExitLoop] # NoExit => pos # NoPos
    BY <1>1, <1>4 DEF Orderly
  <2>4. exit'["opt"].kind # "T1"
    BY <1>4
  <2>5. (Entering' => pos = NoPos)
        /\ \A y, z \in Zones : entry'[y].at # "none" /\ entry'[z].at # "none" => y = z
    BY <1>1, <1>2 DEF Orderly, Entering, Entry
  <2> QED
    BY <1>1, <1>2, <1>5, <2>1, <2>2, <2>3, <2>4, <2>5 DEF Orderly
<1>7. ASSUME NEW c \in Contracts
      PROVE  /\ held'[c] <= Share(c) + Due(c)
             /\ Share(c)' = Share(c) /\ Due(c)' = Due(c) /\ HalfAway(c)' = 0
             /\ held'[c] = held[c] - HalfAway(c)
  <2>1. held[c] <= Share(c) + HalfAway(c) + Due(c)
    BY <1>1 DEF Covered
  <2>2. Share(c) \in 0..Total /\ Due(c) \in 0..Total /\ held[c] \in Int /\ Due(c)' = Due(c)
    BY <1>1, <1>2, AccountType, DueKept
  <2>3. HalfAway(c) = IF c = exit["opt"].con THEN Half ELSE 0
    BY <1>2 DEF HalfAway
  <2>4. HalfAway(c)' = 0
    BY <1>4 DEF HalfAway
  <2>5. Share(c)' = Share(c)
    BY <1>2, <1>5 DEF Share, Believed
  <2> QED
    BY <1>3, <2>1, <2>2, <2>3, <2>4, <2>5
<1>8. ASSUME NEW m \in Loops, Closes(m)'
      PROVE  held'[exit'[m].con] <= exit'[m].qty + HalfAway(exit[m].con)'
  <2>1. CASE m = "opt"
    <3>1. pos # NoPos /\ exit'[m].con = pos.con /\ exit'[m].qty = Half /\ source = "option"
      BY <1>4, <1>8, <2>1 DEF Closes
    <3>2. /\ pos.con \in Contracts /\ pos.rem = Half /\ initDone /\ ~Entering
      BY <1>1, <1>2, <1>5, <3>1, PosParts DEF Orderly, TypeInv, Whole
    <3>3. Share(pos.con) \in 0..Half /\ Due(pos.con) = 0
      BY <1>1, <3>2, AccountType DEF Share, Believed
    <3>4. held'[pos.con] <= Share(pos.con) + Due(pos.con)
      BY <1>7, <3>2
    <3>6. HalfAway(exit[m].con)' = 0
      BY <1>4 DEF HalfAway
    <3>5. held'[pos.con] \in Int
      BY <3>2 DEF TypeInv, TypeOK
    <3> QED
      BY <3>1, <3>3, <3>4, <3>5, <3>6
  <2>2. CASE m # "opt"
    <3>1. Closes(m) /\ exit'[m] = exit[m]
      BY <1>4, <1>8, <2>2 DEF Closes
    <3>2. /\ exit[m].con \in Contracts /\ exit[m].qty \in 1..Total
          /\ held[exit[m].con] <= exit[m].qty + HalfAway(exit[m].con)
      BY <1>1, <3>1 DEF Closes, Exits, Covered
    <3>3. held[exit[m].con] \in Int /\ HalfAway(exit[m].con) \in 0..Half
      BY <1>1, <3>2, AccountType
    <3> QED
      BY <1>7, <3>1, <3>2, <3>3
  <2> QED
    BY <2>1, <2>2
<1>9. ASSUME NEW c \in Contracts PROVE held'[c] <= Share(c)' + HalfAway(c)' + Due(c)'
  <2>1. Share(c) \in 0..Total /\ Due(c) \in 0..Total
    BY <1>1, AccountType
  <2> QED
    BY <1>7, <2>1
<1> QED
  BY <1>6, <1>8, <1>9 DEF Covered

\* The exits and the trailing stops forget nothing.
LEMMA ForgottenExits ==
  ASSUME ForgottenInv, Calm, TypeInv',
         \/ \E p \in Ticks : T1Hit(p) \/ StopHit(p) \/ FloorHit(p)
         \/ \E r \in Ticks : FuturesTrail(r) \/ TrapTrail(r)
         \/ T1Done \/ \E l \in Loops : ExitDone(l)
  PROVE  Orderly' /\ Covered'
<1> USE DEF setup, clock, flags
<1>1. /\ TypeInv /\ Owned /\ Orderly /\ Covered
      /\ {"opt", "idx", "life"} = Loops /\ ExitLoop \in {"opt", "idx"}
  BY CalmMeans
<1>2. ASSUME NEW p \in Ticks, T1Hit(p) PROVE Orderly' /\ Covered'
  <2>1. /\ ready /\ pos # NoPos /\ ~pos.t1 /\ exit["opt"] = NoExit
        /\ Selling("opt", "T1", pos.con, Half, p)
        /\ UNCHANGED <<source, phase, day, ready, initDone, entry, file, held>>
    BY <1>2 DEF T1Hit, TargetReached, MayExit
  <2>2. /\ pos' # NoPos /\ pos'.con = pos.con /\ pos'.day = pos.day /\ pos'.t1 = TRUE
        /\ pos'.rem = pos.rem - Half
    BY <1>1, <1>2, <2>1, Halved, PosParts DEF T1Hit
  <2>3. pos.day = day
    BY <2>1, ExitOfPosition
  <2>4. Half \in 1..Total
    OBVIOUS
  <2> QED
    BY <1>1, <2>1, <2>2, <2>3, <2>4, SellingCovered
<1>3. ASSUME NEW p \in Ticks, StopHit(p) \/ FloorHit(p) PROVE Orderly' /\ Covered'
  <2>1. /\ ready /\ pos # NoPos /\ exit[ExitLoop] = NoExit
        /\ UNCHANGED <<source, phase, day, ready, initDone, entry, file, held, pos>>
    BY <1>3 DEF StopHit, FloorHit, MayExit
  <2>2. pos.rem \in 1..Total
    BY <2>1, ExitOfPosition
  <2>3. PICK kind \in {"SL", "FLOOR"} : Selling(ExitLoop, kind, pos.con, pos.rem, p)
    BY <1>3 DEF StopHit, FloorHit
  <2> QED
    BY <1>1, <2>1, <2>2, <2>3, SellingCovered
<1>4. ASSUME NEW r \in Ticks, FuturesTrail(r) \/ TrapTrail(r) PROVE Orderly' /\ Covered'
  <2>1. /\ ready /\ pos # NoPos /\ pos' = [pos EXCEPT !.trail = r]
        /\ UNCHANGED <<source, phase, day, ready, initDone, entry, exit, held>>
    BY <1>4 DEF FuturesTrail, TrapTrail, Trailed
  <2>2. /\ pos' # NoPos /\ pos'.con = pos.con /\ pos'.day = pos.day
        /\ pos'.t1 = pos.t1 /\ pos'.rem = pos.rem
    BY <1>1, <2>1, Lifted
  <2>3. initDone
    BY <1>1, <2>1 DEF Owned
  <2>4. Orderly'
    BY <1>1, <2>1, <2>2, <2>3 DEF Orderly, Entering, Entry, HalfExits, Closes, ExitLoop, InFlight
  <2>5. ASSUME NEW c \in Contracts PROVE held'[c] <= Share(c)' + HalfAway(c)' + Due(c)'
    <3>1. Share(c)' = Share(c) /\ HalfAway(c)' = HalfAway(c) /\ Due(c)' = Due(c)
      BY <2>1, <2>2, <2>3, DueKept DEF Share, Believed, HalfAway
    <3> QED
      BY <1>1, <2>1, <3>1 DEF Covered
  <2>6. Covered'
    BY <1>1, <2>1, <2>5 DEF Covered, Closes, HalfAway
  <2> QED
    BY <2>4, <2>6
<1>5. CASE T1Done
  BY <1>5, HalfCovered
<1>6. ASSUME NEW l \in Loops, ExitDone(l) PROVE Orderly' /\ Covered'
  <2>1. Closes(l)
    BY <1>6 DEF ExitDone, Closes
  <2>2. /\ Sold(l) /\ pos' = NoPos /\ file' = NoPos /\ exit' = [exit EXCEPT ![l] = NoExit]
        /\ UNCHANGED <<source, phase, day, entry, ready, initDone>>
    BY <1>6 DEF ExitDone, Cleared
  <2> QED
    BY <2>1, <2>2, ClosingCovered
<1> QED
  BY <1>2, <1>3, <1>4, <1>5, <1>6

\* A task that is alone, with no exit on its way: what it buys is due, and what
\* was due becomes the position.
LEMMA ForgottenEntries ==
  ASSUME ForgottenInv, Calm, TypeInv',
         \E z \in Zones : \/ StartEntry(z) \/ PickStrike(z) \/ PlaceEntry(z)
                          \/ EntryFilled(z) \/ EntryNotFilled(z) \/ EntryFails(z)
  PROVE  Orderly' /\ Covered'
<1> USE DEF setup, clock, flags
<1>1. /\ TypeInv /\ Owned /\ Paired /\ Orderly /\ Covered
      /\ "slow_fill" \notin faults /\ "two_signals" \notin faults
      /\ {"opt", "idx", "life"} = Loops /\ ExitLoop \in {"opt", "idx"}
  BY CalmMeans
<1>2. PICK z \in Zones : \/ StartEntry(z) \/ PickStrike(z) \/ PlaceEntry(z)
                         \/ EntryFilled(z) \/ EntryNotFilled(z) \/ EntryFails(z)
  OBVIOUS
<1>3. UNCHANGED <<source, faults, phase, day, running, ready, initDone, exit>>
  BY <1>2 DEF StartEntry, PickStrike, PlaceEntry, EntryFilled, EntryNotFilled, EntryFails
<1>4. /\ \A y \in Zones : y # z => entry'[y] = entry[y]
      /\ ~StartEntry(z) => entry[z].at # "none"
  BY <1>1, <1>2, TaskSteps
<1>5. /\ \A y \in Zones : y # z => entry[y].at = "none"
      /\ pos = NoPos /\ initDone /\ phase # "closing"
  <2>1. CASE StartEntry(z)
    <3>1. ~Entering /\ pos = NoPos /\ ready /\ phase = "open"
      BY <1>1, <2>1 DEF StartEntry
    <3> QED
      BY <1>1, <3>1 DEF Owned, Entering, Entry
  <2>2. CASE ~StartEntry(z)
    <3>1. Entering
      BY <1>4, <2>2 DEF Entering, Entry
    <3>2. entry[z].orphan = FALSE
      BY <1>1, <1>4, <2>2 DEF Paired
    <3> QED
      BY <1>1, <1>4, <2>2, <3>1, <3>2 DEF Owned, Orderly
  <2> QED
    BY <2>1, <2>2
<1>6. \A l \in Loops : ~Closes(l)
  BY <1>1, <1>5 DEF Owned, Orderly, Closes
<1>7. exit[ExitLoop] = NoExit
  BY <1>1, <1>5 DEF Orderly
<1> DEFINE p == [con |-> At(z), rem |-> Total, t1 |-> FALSE, trail |-> StopRank, day |-> day]
<1>8. EntryFilled(z) => /\ pos' = p /\ entry'[z].at = "none"
                        /\ At(z) \in Contracts
  <2> SUFFICES ASSUME EntryFilled(z)
               PROVE  pos' = p /\ entry'[z].at = "none" /\ At(z) \in Contracts
    OBVIOUS
  <2>1. entry[z].orphan = FALSE
    BY <1>1 DEF Paired, EntryFilled, Entry
  <2>2. entry'[z] = NoEntry
    BY <1>1, TaskSteps
  <2> QED
    BY <1>1, <2>1, <2>2, BoughtMoves, Apart DEF EntryFilled, At
<1>9. ~EntryFilled(z) => pos' = pos
  BY <1>2 DEF StartEntry, PickStrike, PlaceEntry, EntryNotFilled, EntryFails
<1>10. p.day = day /\ p.con = At(z) /\ p.rem = Total /\ p # NoPos
  BY DEF NoPos
<1> HIDE DEF p
<1>11. Orderly'
  <2>1. HalfExits' /\ ExitLoop' = ExitLoop /\ \A l \in Loops : ~Closes(l)'
    BY <1>1, <1>3, <1>6 DEF Orderly, HalfExits, ExitLoop, Closes
  <2>2. \A x, y \in Zones : entry'[x].at # "none" /\ entry'[y].at # "none" => x = y
    BY <1>4, <1>5
  <2>3. Entering' => pos' = NoPos
    <3>1. CASE EntryFilled(z)
      <4>1. ~Entering'
        BY <1>4, <1>5, <1>8, <3>1 DEF Entering, Entry
      <4> QED
        BY <4>1
    <3>2. CASE ~EntryFilled(z)
      BY <1>5, <1>9, <3>2
    <3> QED
      BY <3>1, <3>2
  <2>4. pos' # NoPos => pos'.day = day
    BY <1>5, <1>8, <1>9, <1>10
  <2>5. source = "option" => exit["opt"].kind # "T1"
    BY <1>7, Apart DEF ExitLoop
  <2> QED
    BY <1>3, <1>5, <1>7, <2>1, <2>2, <2>3, <2>4, <2>5 DEF Orderly
<1>12. ASSUME NEW c \in Contracts PROVE held'[c] <= Share(c)' + HalfAway(c)' + Due(c)'
  <2>1. held[c] <= Share(c) + HalfAway(c) + Due(c)
    BY <1>1 DEF Covered
  <2>2. /\ Share(c) \in 0..Total /\ HalfAway(c) \in 0..Half /\ Due(c) \in 0..Total
        /\ held[c] \in Int
    BY <1>1, AccountType
  <2>3. Share(c) = 0 /\ HalfAway(c)' = HalfAway(c)
    BY <1>3, <1>5 DEF Share, Believed, HalfAway
  <2>4. Share(c)' = IF EntryFilled(z) /\ c = At(z) THEN Total ELSE 0
    BY <1>3, <1>5, <1>8, <1>9, <1>10 DEF Share, Believed
  <2>5. /\ Due(c) = IF z \in Bought(c) THEN Total ELSE 0
        /\ Due(c)' = IF z \in Bought(c)' THEN Total ELSE 0
    <3>1. \A y \in Zones : y # z => y \notin Bought(c)
      BY <1>5 DEF Bought
    <3>2. \A y \in Zones : y # z => y \notin Bought(c)'
      BY <1>4, <1>5 DEF Bought
    <3>3. Bought(c) \subseteq Zones /\ Bought(c)' \subseteq Zones
      BY DEF Bought
    <3>4. (Bought(c) = {} <=> z \notin Bought(c)) /\ (Bought(c)' = {} <=> z \notin Bought(c)')
      BY <3>1, <3>2, <3>3
    <3> QED
      BY <3>4 DEF Due
  <2>6. CASE PlaceEntry(z)
    <3>1. ~EntryFilled(z)
      BY <2>6 DEF EntryFilled, PlaceEntry, Entry
    <3>2. z \notin Bought(c)
      BY <1>1, <2>6, BoughtMoves
    <3>3. \/ held'[c] = held[c]
          \/ z \in Bought(c)' /\ held'[c] = held[c] + Total
      <4>1. \/ held' = held
            \/ /\ z \in Bought(c)' <=> c = At(z)
               /\ held'[c] = held[c] + (IF c = At(z) THEN Total ELSE 0)
        BY <1>1, <2>6, BoughtMoves
      <4> QED
        BY <2>2, <4>1
    <3> QED
      BY <2>1, <2>2, <2>3, <2>4, <2>5, <3>1, <3>2, <3>3
  <2>7. CASE EntryFilled(z)
    <3>1. ~PlaceEntry(z)
      BY <2>7 DEF EntryFilled, PlaceEntry, Entry
    <3>2. held' = held /\ (z \in Bought(c) <=> c = At(z))
      BY <1>1, <2>7, <3>1, BoughtMoves
    <3>3. Due(c)' \in 0..Total
      BY <2>5
    <3> QED
      BY <2>1, <2>2, <2>3, <2>4, <2>5, <2>7, <3>2, <3>3
  <2>8. CASE ~PlaceEntry(z) /\ ~EntryFilled(z)
    <3>1. held' = held /\ z \notin Bought(c)
      BY <1>1, <1>2, <2>8, BoughtMoves
    <3>2. Due(c) = 0 /\ Due(c)' \in 0..Total
      BY <2>5, <3>1
    <3> QED
      BY <2>1, <2>2, <2>3, <2>4, <2>8, <3>1, <3>2
  <2> QED
    BY <2>6, <2>7, <2>8
<1>13. \A l \in Loops : ~Closes(l)'
  BY <1>3, <1>6 DEF Closes
<1> QED
  BY <1>11, <1>12, <1>13 DEF Covered

\* No order is on its way after the step: what the engine or its file answers
\* for is all that matters.
LEMMA RestCovered ==
  ASSUME ForgottenInv, Calm, TypeInv', \A l \in Loops : exit'[l] = NoExit,
         \A z \in Zones : entry'[z].at = "none",
         ready' /\ pos' # NoPos => pos'.day = day',
         \A c \in Contracts : held'[c] <= Share(c)'
  PROVE  Orderly' /\ Covered'
<1>1. TypeInv /\ {"opt", "idx", "life"} = Loops /\ NoExit.kind = "none"
  BY CalmMeans, Apart
<1>2. ~Entering' /\ ~InFlight' /\ ExitLoop' \in Loops
  BY <1>1 DEF Entering, Entry, InFlight, ExitLoop
<1>3. \A l \in Loops : ~Closes(l)'
  BY DEF Closes
<1>4. HalfExits' /\ exit'["opt"].kind # "T1"
  BY <1>1 DEF HalfExits
<1>5. Orderly'
  BY <1>2, <1>3, <1>4 DEF Orderly
<1>6. \A c \in Contracts : HalfAway(c)' = 0 /\ Due(c)' = 0
  BY <1>4 DEF HalfAway, Due, Bought
<1>7. \A c \in Contracts : Share(c)' \in Int
  BY DEF Share, Believed, TypeInv, TypeOK, Positions
<1>8. ASSUME NEW c \in Contracts PROVE held'[c] <= Share(c)' + HalfAway(c)' + Due(c)'
  BY <1>6, <1>7
<1> QED
  BY <1>3, <1>5, <1>8 DEF Covered

\* A position of today that is on file is restored, a square-off ends the day, and
\* a stop that meets no order forgets what the file knows.
LEMMA ForgottenOutside ==
  ASSUME ForgottenInv, Calm, TypeInv',
         \/ MorningInit \/ EodSquareOff \/ EodDone \/ SetExpiryMode
         \/ StopEngine \/ SpawnEngine \/ RespawnEngine \/ Crash
         \/ CutoffTime \/ SquareOffTime \/ NewDay
  PROVE  Orderly' /\ Covered'
<1> USE DEF setup, clock, flags
<1>1. /\ TypeInv /\ Owned /\ Paired /\ Orderly /\ Covered
      /\ "stop_in_entry" \notin faults /\ "stop_in_exit" \notin faults
      /\ {"opt", "idx", "life"} = Loops /\ NoExit.kind = "none"
  BY CalmMeans, Apart
<1>2. ASSUME Quiet
      PROVE  /\ \A l \in Loops : exit[l] = NoExit
             /\ \A z \in Zones : entry[z].at = "none"
             /\ \A c \in Contracts : held[c] <= Share(c)
  <2>1. (\A l \in Loops : exit[l] = NoExit) /\ \A z \in Zones : entry[z].at = "none"
    BY <1>2 DEF Quiet, InFlight, Entering, Entry
  <2>2. ASSUME NEW c \in Contracts PROVE held[c] <= Share(c)
    <3>1. HalfAway(c) = 0 /\ Due(c) = 0
      BY <1>1, <2>1 DEF HalfAway, Due, Bought
    <3>2. held[c] <= Share(c) + HalfAway(c) + Due(c) /\ Share(c) \in Int
      BY <1>1, AccountType DEF Covered
    <3> QED
      BY <3>1, <3>2
  <2> QED
    BY <2>1, <2>2
<1>3. CASE MorningInit
  <2>1. Quiet
    <3>1. ~InFlight
      BY <1>1, <1>3 DEF MorningInit, Orderly
    <3>2. ~Entering
      BY <1>1, <1>3 DEF MorningInit, Owned, Paired, Entering, Entry
    <3> QED
      BY <3>1, <3>2 DEF Quiet
  <2>2. /\ ~initDone /\ initDone' /\ UNCHANGED <<entry, exit, held, day>>
        /\ \/ file = NoPos /\ pos' = pos
           \/ file # NoPos /\ file.day = day /\ pos' = file
           \/ file # NoPos /\ file.day # day /\ pos' = pos
    BY <1>3 DEF MorningInit, OfToday
  <2>3. pos = NoPos
    BY <1>1, <2>2 DEF Owned
  <2>4. \A c \in Contracts : Share(c)' = Share(c)
    BY <2>2, <2>3 DEF Share, Believed
  <2>5. pos' # NoPos => pos'.day = day'
    BY <2>2, <2>3
  <2> QED
    BY <1>2, <2>1, <2>2, <2>4, <2>5, RestCovered
<1>4. CASE EodSquareOff
  <2>1. /\ ready /\ phase = "closing" /\ exit["life"] = NoExit
        /\ UNCHANGED <<source, phase, day, entry, held>>
    BY <1>4 DEF EodSquareOff
  <2>2. CASE pos # NoPos
    <3>1. /\ Selling("life", "EOD", pos.con, pos.rem, EntryRank) /\ EntryRank \in Ticks
          /\ UNCHANGED <<ready, initDone, pos, file>>
      BY <1>4, <2>2 DEF EodSquareOff, SquareOffDue, EntryRank, Ticks
    <3>2. pos.rem \in 1..Total
      BY <2>1, <2>2, ExitOfPosition
    <3> QED
      BY <1>1, <2>1, <2>2, <3>1, <3>2, SellingCovered
  <2>3. CASE pos = NoPos
    <3>1. /\ DayReset /\ UNCHANGED exit
      BY <1>4, <2>3 DEF EodSquareOff, SquareOffDue
    <3>2. ~ready' /\ ~initDone' /\ pos' = NoPos /\ file' = NoPos
      BY <3>1 DEF DayReset, Cleared
    <3>3. initDone
      BY <1>1, <2>1 DEF Owned
    <3>4. Orderly'
      BY <1>1, <2>1, <3>1, <3>2
      DEF Orderly, Entering, Entry, HalfExits, Closes, ExitLoop, InFlight
    <3>5. ASSUME NEW c \in Contracts PROVE held'[c] <= Share(c)' + HalfAway(c)' + Due(c)'
      <4>1. Share(c) = 0 /\ Share(c)' = 0
        BY <2>3, <3>2, <3>3 DEF Share, Believed
      <4>2. HalfAway(c)' = HalfAway(c) /\ Due(c)' = Due(c)
        BY <2>1, <3>1, DueKept DEF HalfAway
      <4> QED
        BY <1>1, <2>1, <4>1, <4>2 DEF Covered
    <3>6. Covered'
      BY <1>1, <2>1, <3>1, <3>5 DEF Covered, Closes, HalfAway
    <3> QED
      BY <3>4, <3>6
  <2> QED
    BY <2>2, <2>3
<1>5. CASE EodDone
  <2>1. Closes("life") /\ phase = "closing"
    BY <1>1, <1>5 DEF EodDone, Closes, Orderly, HalfExits, Owned
  <2>2. /\ Sold("life") /\ pos' = NoPos /\ file' = NoPos /\ ~ready'
        /\ exit' = [exit EXCEPT !["life"] = NoExit]
        /\ UNCHANGED <<source, phase, day, entry>>
    BY <1>5 DEF EodDone, DayReset, Cleared
  <2> QED
    BY <1>1, <2>1, <2>2, ClosingCovered
<1>6. CASE SetExpiryMode
  <2>1. ~ready' /\ UNCHANGED <<source, phase, day, initDone, entry, exit, held, pos, file>>
    BY <1>6 DEF SetExpiryMode
  <2>2. Orderly'
    BY <1>1, <2>1 DEF Orderly, Entering, Entry, HalfExits, Closes, ExitLoop, InFlight
  <2>3. Covered'
    BY <1>1, <2>1
    DEF Covered, Closes, HalfAway, Share, Believed, Due, Bought, At
  <2> QED
    BY <2>2, <2>3
<1>7. ASSUME StopEngine \/ RespawnEngine \/ Crash PROVE Orderly' /\ Covered'
  <2>1. /\ Fresh /\ LoopsCancelled /\ Quiet /\ UNCHANGED <<day, file>>
        /\ Orphaned \/ entry' = [z \in Zones |-> NoEntry]
    BY <1>1, <1>7 DEF StopEngine, RespawnEngine, Crash, MayStop, Quiet
  <2>2. held' = held /\ \A l \in Loops : exit'[l] = NoExit
    BY <1>1, <2>1, CancelledEffect DEF Quiet
  <2>3. \A z \in Zones : entry'[z].at = "none"
    BY <1>1, <1>2, <2>1, OrphanedEffect, Apart
  <2>4. ~ready' /\ ~initDone'
    BY <2>1 DEF Fresh
  <2>5. initDone => file = pos
    BY <1>1, <1>2, <2>1 DEF Paired
  <2>6. \A c \in Contracts : Share(c)' = Share(c)
    BY <2>1, <2>4, <2>5 DEF Share, Believed
  <2> QED
    BY <1>2, <2>1, <2>2, <2>3, <2>4, <2>6, RestCovered
<1>8. CASE SpawnEngine
  <2>1. UNCHANGED <<source, phase, day, ready, initDone, entry, exit, held, pos, file>>
    BY <1>8 DEF SpawnEngine
  <2>2. Orderly'
    BY <1>1, <2>1 DEF Orderly, Entering, Entry, HalfExits, Closes, ExitLoop, InFlight
  <2>3. Covered'
    BY <1>1, <2>1
    DEF Covered, Closes, HalfAway, Share, Believed, Due, Bought, At
  <2> QED
    BY <2>2, <2>3
<1>9. CASE CutoffTime \/ SquareOffTime
  <2>1. /\ UNCHANGED <<source, day, ready, initDone, entry, exit, held, pos, file>>
        /\ phase # "closing"
    BY <1>9 DEF CutoffTime, SquareOffTime
  <2>2. Orderly'
    BY <1>1, <2>1 DEF Orderly, Entering, Entry, HalfExits, Closes, ExitLoop, InFlight
  <2>3. Covered'
    BY <1>1, <2>1
    DEF Covered, Closes, HalfAway, Share, Believed, Due, Bought, At
  <2> QED
    BY <2>2, <2>3
<1>10. CASE NewDay
  <2>1. /\ Quiet /\ UNCHANGED <<exit, entry>> /\ ~ready'
        /\ held' = [c \in Contracts |-> 0]
    BY <1>1, <1>10 DEF NewDay, Owned
  <2>2. \A c \in Contracts : Share(c)' >= 0
    BY DEF Share, Believed, TypeInv, TypeOK, Positions
  <2>3. \A c \in Contracts : held'[c] <= Share(c)'
    BY <2>1, <2>2
  <2> QED
    BY <1>2, <2>1, <2>3, RestCovered
<1> QED
  BY <1>3, <1>4, <1>5, <1>6, <1>7, <1>8, <1>9, <1>10

\* Every step keeps the account covered.
LEMMA ForgottenStep == ForgottenInv /\ [Next]_vars => ForgottenInv'
<1> SUFFICES ASSUME ForgottenInv, [Next]_vars PROVE ForgottenInv'
  OBVIOUS
<1>1. FileInv' /\ TypeInv'
  BY FileStep DEF ForgottenInv, FileInv
<1>2. faults' = faults
  BY FaultsKept
<1>3. SUFFICES ASSUME Calm PROVE Orderly' /\ Covered'
  BY <1>1, <1>2 DEF ForgottenInv, Calm, Survives
<1>4. CASE UNCHANGED vars
  <2>1. Orderly /\ Covered
    BY <1>3, CalmMeans
  <2>2. Orderly'
    BY <1>4, <2>1 DEF Orderly, Entering, Entry, HalfExits, Closes, ExitLoop, InFlight,
                      vars, setup, clock, flags
  <2>3. Covered'
    BY <1>4, <2>1 DEF Covered, Closes, HalfAway, Share, Believed, Due, Bought, At,
                      vars, setup, clock, flags
  <2> QED
    BY <2>2, <2>3
<1>5. CASE EngineStep
  <2>1. CASE MorningInit \/ EodSquareOff \/ EodDone
    BY <1>1, <1>3, <2>1, ForgottenOutside
  <2>2. CASE \/ \E p \in Ticks : T1Hit(p) \/ StopHit(p) \/ FloorHit(p)
             \/ \E r \in Ticks : FuturesTrail(r) \/ TrapTrail(r)
             \/ T1Done \/ \E l \in Loops : ExitDone(l)
    BY <1>1, <1>3, <2>2, ForgottenExits
  <2>3. CASE \E z \in Zones : \/ StartEntry(z) \/ PickStrike(z) \/ PlaceEntry(z)
                             \/ EntryFilled(z) \/ EntryNotFilled(z) \/ EntryFails(z)
    BY <1>1, <1>3, <2>3, ForgottenEntries
  <2> QED
    BY <1>5, <2>1, <2>2, <2>3 DEF EngineStep
<1>6. CASE Next /\ ~EngineStep
  BY <1>1, <1>3, <1>6, ForgottenOutside DEF Next
<1> QED
  BY <1>4, <1>5, <1>6

\* Whatever entries, half exits, restarts and replacements came before, also when
\* two loops exited at once: with no order on its way the account holds nothing
\* that the engine, or the file it will read, has forgotten.
THEOREM NothingForgottenTheorem == Spec => []NothingForgotten
<1>1. TrapInit => ForgottenInv
  <2> SUFFICES ASSUME TrapInit PROVE Orderly /\ Covered
    BY FileInit DEF ForgottenInv
  <2>1. /\ TypeInv /\ {"opt", "idx", "life"} = Loops /\ NoExit.kind = "none"
        /\ ExitLoop \in Loops
    BY TrapInitType, Apart DEF Loops, ExitLoop
  <2>2. \A l \in Loops : exit[l] = NoExit
    BY DEF TrapInit
  <2>3. (\A z \in Zones : entry[z].at = "none") /\ pos = NoPos /\ file = NoPos
    BY Apart DEF TrapInit
  <2>4. Orderly
    BY <2>1, <2>2, <2>3 DEF Orderly, Entering, Entry, HalfExits, Closes, InFlight
  <2>5. ASSUME NEW c \in Contracts PROVE held[c] <= Share(c) + HalfAway(c) + Due(c)
    <3>1. held[c] = 0 /\ Share(c) \in Nat /\ HalfAway(c) \in Nat /\ Due(c) \in Nat
      BY <2>1, AccountType DEF TrapInit
    <3> QED
      BY <3>1
  <2> QED
    BY <2>2, <2>4, <2>5 DEF Covered, Closes
<1>2. ForgottenInv => NothingForgotten
  <2> SUFFICES ASSUME ForgottenInv, Calm, Quiet, NEW c \in Contracts
               PROVE  held[c] <= Share(c)
    BY DEF NothingForgotten, Calm
  <2>1. held[c] <= Share(c) + HalfAway(c) + Due(c) /\ TypeInv
    BY CalmMeans DEF Covered
  <2>2. HalfAway(c) = 0 /\ Due(c) = 0
    <3>1. exit["opt"] = NoExit /\ NoExit.kind = "none"
      BY CalmMeans, Apart DEF Quiet, InFlight
    <3> QED
      BY <2>1, <3>1, AccountType DEF HalfAway, Quiet
  <2>3. Share(c) \in Int
    BY <2>1, AccountType
  <2> QED
    BY <2>1, <2>2, <2>3
<1> QED
  BY <1>1, <1>2, ForgottenStep, PTL DEF Spec
=============================================================================
