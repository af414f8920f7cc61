-------------------------- MODULE CondorDesk_proofs --------------------------
(***************************************************************************)
(* The iron condor's accounts are hedged, and hold what the strategy       *)
(* believes in, for every set of bindings and strikes and any number of    *)
(* entries.                                                                *)
(***************************************************************************)
EXTENDS CondorDesk, FiniteSetTheorems, SequenceTheorems, TLAPS

USE CondorAssumption

----------------------------------------------------------------------------
(* Where an event stands at a binding *)

\* The place of a leg in _live_fill's order.
PosOf(leg) ==
  IF leg = "short_ce" THEN 1 ELSE IF leg = "short_pe" THEN 2 ELSE IF leg = "long_ce" THEN 3 ELSE 4

\* The legs of the event that are placed for the binding being served.
Placed(b, c) ==
  /\ exec # Idle /\ exec.leg > 0 /\ b = Head(exec.left)
  /\ c[2] = exec.ev.atm /\ c[3] = ExpiryOf(exec.ev) /\ PosOf(c[1]) < exec.leg

\* The account without the legs of an event that is only half placed.
Base(b, c) == held[b][c] - (IF Placed(b, c) THEN Signed(c[1]) ELSE 0)

\* A condor has four legs or none: the event in service is left out.
HedgedBase ==
  \A b \in Bindings, a \in Atms, e \in Expiries :
    LET q(leg) == Base(b, <<leg, a, e>>) IN
    q("short_ce") = q("short_pe") /\ q("long_ce") = q("long_pe")
      /\ q("short_ce") + q("long_ce") = 0

HedgedInv == TypeOK /\ (Survives({"leg_fails", "lost"}) => HedgedBase)

\* The behaviours in which an account can only differ from the belief by orders
\* that are still to be served.
Calm ==
  /\ Survives({"switch", "shift", "leg_fails", "lost", "expiry"})
  /\ Survives({"overnight"}) \/ product = "NRML"

Before(ev) == IF ev.action = "ENTRY" THEN NoPos ELSE [atm |-> ev.atm, expiry |-> 1]
Leaves(ev) == IF ev.action = "ENTRY" THEN [atm |-> ev.atm, expiry |-> 1] ELSE NoPos

ShareOf(p, c) == IF p = [atm |-> c[2], expiry |-> c[3]] THEN Sign(c[1]) ELSE 0

\* What the queue expects the accounts to hold: what its first event finds, or
\* the position itself.
Target == IF orderQ = <<>> THEN store.pos ELSE Before(orderQ[1])

\* Each event leaves what the next one finds, the last one the position.
Chain ==
  /\ \A i, j \in DOMAIN orderQ : j = i + 1 => Leaves(orderQ[i]) = Before(orderQ[j])
  /\ orderQ # <<>> => Leaves(orderQ[Len(orderQ)]) = store.pos
  /\ exec # Idle => Leaves(exec.ev) = Target

\* A binding, or a leg of the one at work, that the event has not reached.
Waits(b, c) ==
  /\ exec # Idle /\ \E i \in DOMAIN exec.left : exec.left[i] = b
  /\ b = Head(exec.left) => PosOf(c[1]) >= exec.leg

Accounts ==
  \A b \in Bindings, c \in Contracts :
    Carried(b) => held[b][c] = ShareOf(IF Waits(b, c) THEN Before(exec.ev) ELSE Target, c)

\* In a calm behaviour every binding trades and nothing has another expiry.
CalmSetup ==
  /\ \A b \in Bindings : on[b] = TRUE
  /\ current = 1 /\ (product = "MIS" => day = 1)
  /\ store.pos # NoPos => store.pos.expiry = 1
  /\ \A i \in DOMAIN orderQ : orderQ[i].action = "ENTRY" => orderQ[i].expiry = 1
  /\ exec # Idle => /\ exec.ev.action = "ENTRY" => exec.ev.expiry = 1
                    /\ \A i, j \in DOMAIN exec.left : exec.left[i] = exec.left[j] => i = j
  /\ ~running => AtRest

CalmInv ==
  /\ TypeOK /\ StoreMatches
  /\ Calm => CalmSetup /\ Chain /\ Accounts

----------------------------------------------------------------------------
(* Legs, positions, the order in which bindings are served *)

Served == [left : Seq(Bindings) \ {<<>>}, leg : 0..4, ev : Events]

\* The four legs are where PosOf says.
LEMMA LegPlaces ==
  /\ \A i \in 1..4 : Legs[i] \in LegNames /\ PosOf(Legs[i]) = i
  /\ \A l \in LegNames : PosOf(l) \in 1..4 /\ Legs[PosOf(l)] = l
  /\ LegNames = {"short_ce", "short_pe", "long_ce", "long_pe"}
<1>1. /\ Legs[1] = "short_ce" /\ Legs[2] = "short_pe"
      /\ Legs[3] = "long_ce" /\ Legs[4] = "long_pe"
  BY DEF Legs
<1>2. 1..4 = {1, 2, 3, 4}
  OBVIOUS
<1>3. LegNames = {"short_ce", "short_pe", "long_ce", "long_pe"}
  BY <1>1, <1>2 DEF LegNames
<1> QED
  BY <1>1, <1>2, <1>3 DEF PosOf

\* A contract is a leg, a strike and an expiry.
LEMMA ContractParts ==
  /\ \A l \in LegNames, a \in Atms, e \in Expiries : <<l, a, e>> \in Contracts
  /\ \A c \in Contracts : /\ c = <<c[1], c[2], c[3]>>
                          /\ c[1] \in LegNames /\ c[2] \in Atms /\ c[3] \in Expiries
  BY DEF Contracts

\* No position, nothing in service and nothing stored are not of the records.
LEMMA Distinct ==
  /\ NoPos \notin Positions
  /\ \A x \in Served : x # Idle /\ x.left # <<>>
  /\ NoEntry.pos = NoPos
  BY DEF NoPos, Positions, Served, Idle, NoEntry

\* SetToSeq lists every binding, once.
LEMMA Listed ==
  LET s == SetToSeq(Bindings) IN
  /\ s \in Seq(Bindings) \ {<<>>}
  /\ \A b \in Bindings : \E i \in DOMAIN s : s[i] = b
  /\ \A i, j \in DOMAIN s : s[i] = s[j] => i = j
<1> DEFINE n == Cardinality(Bindings)
           s == SetToSeq(Bindings)
<1>1. n \in Nat /\ ExistsBijection(1..n, Bindings)
  BY FS_CardinalityType
<1>2. PICK f : f \in Bijection(1..n, Bindings)
  BY <1>1 DEF ExistsBijection
<1>3. f \in [1..n -> Bindings] /\ IsInjective(f)
  BY <1>2 DEF Bijection, Injection
<1>4. s \in [1..n -> Bindings] /\ IsInjective(s)
  BY <1>3 DEF SetToSeq
<1>5. s \in Injection(1..n, Bindings)
  BY <1>4 DEF Injection
<1>6. Cardinality(1..n) = n
  BY <1>1, FS_Interval
<1>7. s \in Surjection(1..n, Bindings)
  BY <1>5, <1>6, FS_Injection
<1>8. \A b \in Bindings : \E i \in 1..n : s[i] = b
  BY <1>7 DEF Surjection
<1>9. n # 0
  BY FS_EmptySet
<1>10. s \in Seq(Bindings) /\ Len(s) = n /\ DOMAIN s = 1..n
  BY <1>1, <1>4
<1> QED
  BY <1>1, <1>4, <1>8, <1>9, <1>10 DEF IsInjective

----------------------------------------------------------------------------
(* Types *)

LEMMA CondorInit == Init => TypeOK
<1> SUFFICES ASSUME Init PROVE TypeOK
  OBVIOUS
<1>1. held \in [Bindings -> [Contracts -> Int]] /\ on \in [Bindings -> BOOLEAN]
  BY DEF Init
<1>2. {running, ticking, cooldown} \subseteq BOOLEAN
  BY DEF Init
<1> QED
  BY <1>1, <1>2 DEF Init, TypeOK

\* What is stored is a dated position or nothing.
LEMMA PersistType ==
  ASSUME TypeOK, NEW p \in Positions \cup {NoPos}, Persist(p)
  PROVE  /\ store' \in {NoEntry} \cup [pos : Positions, day : 1..day]
         /\ store'.pos = p
  BY Distinct DEF Persist, TypeOK, NoEntry

\* What a restart takes is the stored position or nothing.
LEMMA RestoredType ==
  ASSUME TypeOK
  PROVE  /\ Restored \in {NoEntry} \cup [pos : Positions, day : 1..day]
         /\ Restored.pos \in Positions \cup {NoPos}
  BY DEF Restored, TypeOK, NoEntry

\* The remaining bindings, once the first is done.
LEMMA RestType ==
  ASSUME TypeOK, exec # Idle
  PROVE  LET r == Rest(exec.left) IN
         /\ r = Idle \/ r \in Served
         /\ r # Idle => r.leg = 0 /\ r.ev = exec.ev /\ r.left = Tail(exec.left)
         /\ r = Idle <=> Len(exec.left) = 1
<1>1. exec \in Served
  BY DEF TypeOK, Served
<1>2. exec.left \in Seq(Bindings) /\ Len(exec.left) \in Nat \ {0}
  BY <1>1 DEF Served
<1>3. Len(exec.left) # 1 => Tail(exec.left) \in Seq(Bindings) \ {<<>>}
  <2>1. Tail(exec.left) \in Seq(Bindings)
    BY <1>2
  <2>2. Len(Tail(exec.left)) = Len(exec.left) - 1
    BY <1>2
  <2>3. Tail(exec.left) = <<>> => Len(Tail(exec.left)) = 0
    BY <2>1, EmptySeq, Zenon
  <2> QED
    BY <1>2, <2>1, <2>2, <2>3
<1>4. Len(exec.left) # 1 => [left |-> Tail(exec.left), leg |-> 0, ev |-> exec.ev] \in Served
  BY <1>1, <1>3 DEF Served
<1> QED
  BY <1>3, <1>4, Distinct DEF Rest

\* The strategy's own steps.
LEMMA StrategyType ==
  ASSUME TypeOK,
         (\E a \in Atms, e \in Expiries : TryEntry(a, e))
           \/ ClosePosition \/ RatioBreach \/ CooldownEnds \/ Start
  PROVE  TypeOK'
<1> USE DEF setup, clock
<1>1. ASSUME NEW a \in Atms, NEW e \in Expiries, TryEntry(a, e) PROVE TypeOK'
  <2>1. [action |-> "ENTRY", atm |-> a, expiry |-> e] \in Events
    BY DEF Events
  <2>2. orderQ' \in Seq(Events)
    BY <1>1, <2>1 DEF TypeOK, TryEntry
  <2>3. pos' \in Positions
    BY <1>1 DEF TryEntry, Positions
  <2>4. store' \in {NoEntry} \cup [pos : Positions, day : 1..day]
    BY <1>1, <2>3, PersistType DEF TryEntry
  <2>5. entries' \in 0..MaxEntries
    BY <1>1 DEF TypeOK, TryEntry
  <2> QED
    BY <1>1, <2>2, <2>3, <2>4, <2>5 DEF TypeOK, TryEntry
<1>2. CASE ClosePosition
  <2>1. pos \in Positions
    BY <1>2 DEF TypeOK, ClosePosition
  <2>2. [action |-> "EXIT", atm |-> pos.atm] \in Events
    BY <2>1 DEF Events, Positions
  <2>3. orderQ' \in Seq(Events)
    BY <1>2, <2>2 DEF TypeOK, ClosePosition
  <2>4. store' \in {NoEntry} \cup [pos : Positions, day : 1..day]
    BY <1>2, PersistType DEF ClosePosition
  <2>5. {running, ticking, cooldown}' \subseteq BOOLEAN
    BY <1>2 DEF TypeOK, ClosePosition
  <2> QED
    BY <1>2, <2>3, <2>4, <2>5 DEF TypeOK, ClosePosition
<1>3. CASE RatioBreach
  <2>1. {running, ticking, cooldown}' \subseteq BOOLEAN
    BY <1>3 DEF TypeOK, RatioBreach
  <2> QED
    BY <1>3, <2>1 DEF TypeOK, RatioBreach
<1>4. CASE CooldownEnds
  <2>1. {running, ticking, cooldown}' \subseteq BOOLEAN
    BY <1>4 DEF TypeOK, CooldownEnds
  <2> QED
    BY <1>4, <2>1 DEF TypeOK, CooldownEnds
<1>5. CASE Start
  <2>1. {running, ticking, cooldown}' \subseteq BOOLEAN
    BY <1>5 DEF Start
  <2> QED
    BY <1>5, <2>1, RestoredType DEF TypeOK, Start
<1> QED
  BY <1>1, <1>2, <1>3, <1>4, <1>5

\* One leg of one account changes by one.
LEMMA PlaceType ==
  ASSUME TypeOK, PlaceLeg
  PROVE  LET b == Head(exec.left)
             c == <<Legs[exec.leg], exec.ev.atm, ExpiryOf(exec.ev)>>
         IN  /\ b \in Bindings /\ c \in Contracts /\ exec.leg \in 1..4
             /\ exec \in Served /\ Signed(Legs[exec.leg]) \in {-1, 1}
<1>1. exec \in Served /\ exec.leg \in 1..4
  BY DEF TypeOK, PlaceLeg, Served
<1>2. Head(exec.left) \in Bindings
  BY <1>1 DEF Served
<1>3. exec.ev \in Events /\ exec.ev.atm \in Atms
  BY <1>1 DEF Served, Events
<1>4. ExpiryOf(exec.ev) \in Expiries
  BY <1>3 DEF ExpiryOf, Events, Expiries, TypeOK
<1> QED
  BY <1>1, <1>2, <1>3, <1>4, LegPlaces, ContractParts DEF Signed

\* The bridge's steps.
LEMMA BridgeType ==
  ASSUME TypeOK, Serve \/ RouteBinding \/ PlaceLeg
  PROVE  TypeOK'
<1> USE DEF setup, clock, strategyVars
<1>1. CASE Serve
  <2>1. Head(orderQ) \in Events /\ Tail(orderQ) \in Seq(Events)
    BY <1>1 DEF TypeOK, Serve
  <2>2. exec' \in Served
    BY <1>1, <2>1, Listed DEF Serve, Served
  <2> QED
    BY <1>1, <2>1, <2>2 DEF TypeOK, Serve, Served
<1>2. CASE RouteBinding
  <2>1. exec' = Idle \/ exec' \in Served
    <3>1. exec \in Served
      BY <1>2 DEF TypeOK, RouteBinding, Served
    <3>2. [exec EXCEPT !.leg = 1] \in Served
      BY <3>1 DEF Served
    <3> QED
      BY <1>2, <3>2, RestType DEF RouteBinding
  <2> QED
    BY <1>2, <2>1 DEF TypeOK, RouteBinding, Served
<1>3. CASE PlaceLeg
  <2>1. held' \in [Bindings -> [Contracts -> Int]]
    <3> DEFINE b == Head(exec.left)
               c == <<Legs[exec.leg], exec.ev.atm, ExpiryOf(exec.ev)>>
               d == Signed(Legs[exec.leg])
    <3>1. b \in Bindings /\ c \in Contracts /\ d \in Int
      BY <1>3, PlaceType
    <3>2. held' = held \/ held' = [held EXCEPT ![b][c] = @ + d]
      BY <1>3 DEF PlaceLeg
    <3> HIDE DEF b, c, d
    <3>3. held[b] \in [Contracts -> Int] /\ held[b][c] + d \in Int
      BY <3>1 DEF TypeOK
    <3>4. [held[b] EXCEPT ![c] = @ + d] \in [Contracts -> Int]
      BY <3>1, <3>3
    <3> QED
      BY <3>1, <3>2, <3>4 DEF TypeOK
  <2>2. exec' = Idle \/ exec' \in Served
    <3>1. exec \in Served /\ exec.leg \in 1..4
      BY <1>3, PlaceType
    <3>2. exec.leg # 4 => [exec EXCEPT !.leg = @ + 1] \in Served
      BY <3>1 DEF Served
    <3> QED
      BY <1>3, <3>1, <3>2, RestType DEF PlaceLeg, LegCount
  <2> QED
    BY <1>3, <2>1, <2>2 DEF TypeOK, PlaceLeg, Served
<1> QED
  BY <1>1, <1>2, <1>3

\* The client, the process and the night.
LEMMA OutsideType ==
  ASSUME TypeOK, (\E b \in Bindings : Switch(b)) \/ Crash \/ NewDay
  PROVE  TypeOK'
<1> USE DEF setup, clock, strategyVars
<1>1. CASE \E b \in Bindings : Switch(b)
  BY <1>1 DEF TypeOK, Switch
<1>2. CASE Crash
  <2>1. {running, ticking, cooldown}' \subseteq BOOLEAN
    BY <1>2 DEF TypeOK, Crash
  <2> QED
    BY <1>2, <2>1 DEF TypeOK, Crash
<1>3. CASE NewDay
  <2>1. held' \in [Bindings -> [Contracts -> Int]]
    BY <1>3 DEF TypeOK, NewDay
  <2>2. day' \in 1..2 /\ current' \in 1..day'
    BY <1>3 DEF TypeOK, NewDay
  <2>3. store' \in {NoEntry} \cup [pos : Positions, day : 1..day']
    BY <1>3 DEF TypeOK, NewDay
  <2> QED
    BY <1>3, <2>1, <2>2, <2>3 DEF TypeOK, NewDay
<1> QED
  BY <1>1, <1>2, <1>3

LEMMA CondorTypeStep == TypeOK /\ [Next]_vars => TypeOK'
<1> SUFFICES ASSUME TypeOK, [Next]_vars PROVE TypeOK'
  OBVIOUS
<1>1. CASE UNCHANGED vars
  BY <1>1 DEF TypeOK, vars, setup, clock, strategyVars
<1>2. CASE Next
  BY <1>2, StrategyType, BridgeType, OutsideType DEF Next
<1> QED
  BY <1>1, <1>2

\* Under every fault the strategy's position, the stored entry, the events and
\* what the bridge serves stay within the records the code builds.
THEOREM CondorTypeCorrect == Spec => []TypeOK
  BY CondorInit, CondorTypeStep, PTL DEF Spec

----------------------------------------------------------------------------
(* A short leg has its hedge *)

\* Without a refused leg, PlaceLeg moves the account by whole condors: the legs
\* before the fourth are left out, and with the fourth all four count.
LEMMA PlaceBase ==
  ASSUME TypeOK, PlaceLeg, Survives({"leg_fails"}), NEW b \in Bindings, NEW c \in Contracts
  PROVE  Base(b, c)' = Base(b, c) +
           (IF /\ exec.leg = 4 /\ b = Head(exec.left)
               /\ c[2] = exec.ev.atm /\ c[3] = ExpiryOf(exec.ev)
            THEN Signed(c[1]) ELSE 0)
<1> DEFINE b0 == Head(exec.left)
           l0 == Legs[exec.leg]
           c0 == <<l0, exec.ev.atm, ExpiryOf(exec.ev)>>
           d == Signed(l0)
           mine == b = b0 /\ c[2] = exec.ev.atm /\ c[3] = ExpiryOf(exec.ev)
<1>1. /\ b0 \in Bindings /\ c0 \in Contracts /\ exec.leg \in 1..4 /\ exec \in Served
      /\ d \in {-1, 1} /\ Signed(c[1]) \in {-1, 1}
  BY PlaceType DEF Signed
<1>2. held' = [held EXCEPT ![b0][c0] = @ + d]
  BY DEF PlaceLeg, Survives
<1>3. /\ held \in [Bindings -> [Contracts -> Int]] /\ held[b][c] \in Int
      /\ held[b0] \in [Contracts -> Int]
  BY <1>1 DEF TypeOK
<1>4. c = c0 <=> c[1] = l0 /\ c[2] = exec.ev.atm /\ c[3] = ExpiryOf(exec.ev)
  BY ContractParts
<1>5. c[1] = l0 <=> PosOf(c[1]) = exec.leg
  BY <1>1, LegPlaces, ContractParts
<1>6. PosOf(c[1]) \in 1..4
  BY LegPlaces, ContractParts
<1>7. held'[b][c] = held[b][c] + (IF mine /\ PosOf(c[1]) = exec.leg THEN Signed(c[1]) ELSE 0)
  <2> HIDE DEF b0, c0, d
  <2>1. held'[b][c] = held[b][c] + (IF b = b0 /\ c = c0 THEN d ELSE 0)
    BY <1>1, <1>2, <1>3
  <2>2. b = b0 /\ c = c0 <=> mine /\ PosOf(c[1]) = exec.leg
    BY <1>4, <1>5
  <2>3. c = c0 => Signed(c[1]) = d
    BY <1>4 DEF d
  <2> QED
    BY <2>1, <2>2, <2>3
<1>8. Placed(b, c) <=> mine /\ PosOf(c[1]) < exec.leg
  BY <1>1, Distinct DEF Placed, PlaceLeg
<1>9. CASE exec.leg < 4
  <2>1. exec' = [exec EXCEPT !.leg = @ + 1]
    BY <1>1, <1>9 DEF PlaceLeg, LegCount
  <2>2. exec' \in Served /\ exec'.left = exec.left /\ exec'.ev = exec.ev /\ exec'.leg = exec.leg + 1
    <3>1. exec \in Served /\ exec.leg \in 1..4
      BY <1>1
    <3>2. exec.leg + 1 \in 0..4 /\ exec.leg + 1 \in Int
      BY <1>9, <3>1
    <3> QED
      BY ONLY <2>1, <3>1, <3>2 DEF Served
  <2>3. ExpiryOf(exec.ev)' = ExpiryOf(exec.ev) /\ Signed(c[1])' = Signed(c[1])
    BY <2>2 DEF ExpiryOf, Signed, IsEntry, PlaceLeg, clock
  <2>4. Placed(b, c)' <=> mine /\ PosOf(c[1]) < exec.leg + 1
    BY <1>1, <2>2, <2>3, Distinct DEF Placed
  <2>5. Base(b, c)' = held'[b][c] - (IF mine /\ PosOf(c[1]) < exec.leg + 1 THEN Signed(c[1]) ELSE 0)
    BY <2>3, <2>4 DEF Base
  <2>6. Base(b, c) = held[b][c] - (IF mine /\ PosOf(c[1]) < exec.leg THEN Signed(c[1]) ELSE 0)
    BY <1>8 DEF Base
  <2> HIDE DEF mine
  <2> QED
    BY <1>1, <1>3, <1>6, <1>7, <1>9, <2>5, <2>6
<1>10. CASE exec.leg = 4
  <2>1. exec' = Rest(exec.left)
    BY <1>10 DEF PlaceLeg, LegCount
  <2>2. ~Placed(b, c)'
    <3>1. exec' # Idle => exec'.leg = 0
      BY <2>1, RestType DEF PlaceLeg
    <3> QED
      BY <3>1 DEF Placed
  <2>3. Base(b, c)' = held'[b][c]
    <3>1. held'[b][c] \in Int
      BY <1>1, <1>3, <1>7
    <3> QED
      BY <2>2, <3>1 DEF Base
  <2>4. Base(b, c) = held[b][c] - (IF mine /\ PosOf(c[1]) < 4 THEN Signed(c[1]) ELSE 0)
    BY <1>8, <1>10 DEF Base
  <2> HIDE DEF mine
  <2> QED
    BY <1>1, <1>3, <1>6, <1>7, <1>10, <2>3, <2>4 DEF mine
<1> QED
  BY <1>1, <1>9, <1>10

\* With nothing placed before or after it, a step that leaves an account alone
\* leaves its condors alone.
LEMMA UnplacedBase ==
  ASSUME TypeOK, held' = held,
         exec = Idle \/ exec.leg = 0, exec' = Idle \/ exec'.leg = 0 \/ exec'.leg = 1,
         exec' # Idle => exec' \in Served
  PROVE  \A b \in Bindings, c \in Contracts : Base(b, c)' = Base(b, c)
<1> SUFFICES ASSUME NEW b \in Bindings, NEW c \in Contracts PROVE Base(b, c)' = Base(b, c)
  OBVIOUS
<1>1. PosOf(c[1]) \in 1..4
  BY LegPlaces, ContractParts
<1>2. ~Placed(b, c) /\ ~Placed(b, c)'
  BY <1>1 DEF Placed
<1> QED
  BY <1>2 DEF Base

\* The statement about one strike and expiry that HedgedBase makes for them all.
Square(b, a, e) ==
  LET q(leg) == Base(b, <<leg, a, e>>) IN
  q("short_ce") = q("short_pe") /\ q("long_ce") = q("long_pe")
    /\ q("short_ce") + q("long_ce") = 0

\* Base is an integer.
LEMMA BaseType ==
  ASSUME TypeOK, NEW b \in Bindings, NEW c \in Contracts
  PROVE  Base(b, c) \in Int
<1>1. held[b][c] \in Int
  BY DEF TypeOK
<1> QED
  BY <1>1 DEF Base, Signed

\* A step that leaves the condors alone keeps them hedged.
LEMMA SameBase ==
  ASSUME HedgedBase, \A b \in Bindings, c \in Contracts : Base(b, c)' = Base(b, c)
  PROVE  HedgedBase'
<1> SUFFICES ASSUME NEW b \in Bindings, NEW a \in Atms, NEW e \in Expiries
             PROVE  Square(b, a, e)'
  BY DEF HedgedBase, Square
<1>1. Square(b, a, e)
  BY DEF HedgedBase, Square
<1>2. \A l \in LegNames : Base(b, <<l, a, e>>)' = Base(b, <<l, a, e>>)
  BY ContractParts
<1> QED
  BY <1>1, <1>2, LegPlaces DEF Square

\* The fourth leg completes a condor, or takes one away.
LEMMA HedgedPlace ==
  ASSUME TypeOK, TypeOK', HedgedBase, PlaceLeg, Survives({"leg_fails"})
  PROVE  HedgedBase'
<1> SUFFICES ASSUME NEW b \in Bindings, NEW a \in Atms, NEW e \in Expiries
             PROVE  Square(b, a, e)'
  BY DEF HedgedBase, Square
<1> DEFINE mine == exec.leg = 4 /\ b = Head(exec.left) /\ a = exec.ev.atm /\ e = ExpiryOf(exec.ev)
<1>1. Square(b, a, e)
  BY DEF HedgedBase, Square
<1>2. \A l \in LegNames : Base(b, <<l, a, e>>)' = Base(b, <<l, a, e>>) + (IF mine THEN Signed(l) ELSE 0)
  BY ContractParts, PlaceBase
<1>3. \A l \in LegNames : Base(b, <<l, a, e>>) \in Int
  BY ContractParts, BaseType
<1>4. /\ Signed("short_ce") = Signed("short_pe") /\ Signed("long_ce") = Signed("long_pe")
      /\ Signed("short_ce") + Signed("long_ce") = 0
      /\ \A l \in LegNames : Signed(l) \in Int
  <2>1. CASE IsEntry
    BY <2>1 DEF Signed
  <2>2. CASE ~IsEntry
    BY <2>2 DEF Signed, IsEntry
  <2> QED
    BY <2>1, <2>2
<1> HIDE DEF mine
<1> QED
  BY <1>1, <1>2, <1>3, <1>4, LegPlaces DEF Square

\* A night squares the same contracts off in every leg.
LEMMA HedgedNight ==
  ASSUME TypeOK, TypeOK', HedgedBase, NewDay
  PROVE  HedgedBase'
<1> SUFFICES ASSUME NEW b \in Bindings, NEW a \in Atms, NEW e \in Expiries
             PROVE  Square(b, a, e)'
  BY DEF HedgedBase, Square
<1> DEFINE gone == bound[b] = "MIS" \/ e < current'
<1>1. Square(b, a, e)
  BY DEF HedgedBase, Square
<1>2. ASSUME NEW l \in LegNames
      PROVE  /\ Base(b, <<l, a, e>>) = held[b][<<l, a, e>>]
             /\ Base(b, <<l, a, e>>)' = IF gone THEN 0 ELSE held[b][<<l, a, e>>]
  <2> DEFINE c == <<l, a, e>>
  <2>1. c \in Contracts /\ c[3] = e
    BY ContractParts
  <2>2. ~Placed(b, c) /\ ~Placed(b, c)'
    BY DEF Placed, NewDay, AtRest
  <2>3. held[b][c] \in Int /\ held'[b][c] \in Int
    BY <2>1 DEF TypeOK
  <2>4. held'[b][c] = IF gone THEN 0 ELSE held[b][c]
    BY <2>1 DEF NewDay
  <2> QED
    BY <2>2, <2>3, <2>4 DEF Base
<1> HIDE DEF gone
<1> QED
  BY <1>1, <1>2, LegPlaces DEF Square

\* Every step keeps the condors whole.
LEMMA HedgedStep == HedgedInv /\ [Next]_vars => HedgedInv'
<1> SUFFICES ASSUME HedgedInv, [Next]_vars, Survives({"leg_fails", "lost"})
             PROVE  HedgedBase'
  BY CondorTypeStep DEF HedgedInv, Survives, vars, setup, Next, TryEntry, ClosePosition,
     RatioBreach, CooldownEnds, Start, Serve, RouteBinding, PlaceLeg, Switch, Crash, NewDay
<1>1. TypeOK /\ TypeOK' /\ HedgedBase
  BY CondorTypeStep DEF HedgedInv
<1>2. ASSUME exec' = exec, held' = held, current' = current PROVE HedgedBase'
  <2>1. \A b \in Bindings, c \in Contracts : Placed(b, c)' <=> Placed(b, c)
    BY <1>2 DEF Placed, ExpiryOf
  <2>2. \A c \in Contracts : Signed(c[1])' = Signed(c[1])
    BY <1>2 DEF Signed, IsEntry
  <2>3. \A b \in Bindings, c \in Contracts : Base(b, c)' = Base(b, c)
    BY <1>2, <2>1, <2>2 DEF Base
  <2> QED
    BY <1>1, <2>3, SameBase
<1>3. CASE Serve
  <2>1. held' = held /\ exec = Idle /\ exec'.leg = 0 /\ exec' \in Served
    <3>1. exec' # Idle /\ held' = held /\ exec = Idle /\ exec'.leg = 0
      BY <1>3, Listed DEF Serve, Idle, strategyVars
    <3> QED
      BY <1>1, <3>1 DEF TypeOK, Served
  <2> QED
    BY <1>1, <2>1, UnplacedBase, SameBase
<1>4. CASE RouteBinding
  <2>1. held' = held /\ exec \in Served /\ exec.leg = 0
    BY <1>1, <1>4 DEF RouteBinding, TypeOK, Served
  <2>2. exec' = [exec EXCEPT !.leg = 1] \/ exec' = Rest(exec.left)
    BY <1>4 DEF RouteBinding
  <2>3. exec' = Idle \/ exec'.leg = 0 \/ exec'.leg = 1
    BY <1>1, <1>4, <2>1, <2>2, RestType DEF Served, RouteBinding
  <2>4. exec' # Idle => exec' \in Served
    BY <1>1 DEF TypeOK, Served
  <2> QED
    BY <1>1, <2>1, <2>3, <2>4, UnplacedBase, SameBase
<1>5. CASE Crash
  <2>1. exec = Idle /\ exec' = Idle /\ held' = held
    BY <1>5 DEF Crash, AtRest, Survives
  <2> QED
    BY <1>1, <2>1, UnplacedBase, SameBase
<1>6. CASE PlaceLeg
  BY <1>1, <1>6, HedgedPlace DEF Survives
<1>7. CASE NewDay
  BY <1>1, <1>7, HedgedNight
<1>8. CASE UNCHANGED vars \/ (\E a \in Atms, e \in Expiries : TryEntry(a, e)) \/ ClosePosition
             \/ RatioBreach \/ CooldownEnds \/ Start \/ (\E b \in Bindings : Switch(b))
  BY <1>2, <1>8 DEF vars, clock, TryEntry, ClosePosition, RatioBreach, CooldownEnds, Start, Switch
<1> QED
  BY <1>3, <1>4, <1>5, <1>6, <1>7, <1>8 DEF Next

\* Whatever the client switches, whatever expiry an exit trades and whatever
\* night passes: with all four legs sent and no crash among them, a short leg
\* never stays without its hedge.
THEOREM HedgedTheorem == Spec => []Hedged
<1>1. Init => HedgedInv
  <2> SUFFICES ASSUME Init PROVE HedgedBase
    BY CondorInit DEF HedgedInv
  <2>1. \A b \in Bindings, c \in Contracts : held[b][c] = 0 /\ ~Placed(b, c)
    BY DEF Init, Placed
  <2>2. \A b \in Bindings, c \in Contracts : Base(b, c) = 0
    BY <2>1 DEF Base
  <2>3. \A b \in Bindings, a \in Atms, e \in Expiries : Square(b, a, e)
    <3> SUFFICES ASSUME NEW b \in Bindings, NEW a \in Atms, NEW e \in Expiries
                 PROVE  Square(b, a, e)
      OBVIOUS
    <3>1. \A l \in LegNames : Base(b, <<l, a, e>>) = 0
      BY <2>2, ContractParts
    <3> QED
      BY <3>1, LegPlaces DEF Square
  <2> QED
    BY <2>3 DEF HedgedBase, Square
<1>2. HedgedInv => Hedged
  <2> SUFFICES ASSUME HedgedInv, Survives({"leg_fails", "lost"}), AtRest,
                      NEW b \in Bindings, NEW a \in Atms, NEW e \in Expiries
               PROVE  LET q(leg) == held[b][<<leg, a, e>>] IN
                      q("short_ce") = q("short_pe") /\ q("long_ce") = q("long_pe")
                        /\ q("short_ce") + q("long_ce") = 0
    BY DEF Hedged
  <2>1. Square(b, a, e)
    BY DEF HedgedInv, HedgedBase, Square
  <2>2. \A l \in LegNames : Base(b, <<l, a, e>>) = held[b][<<l, a, e>>]
    <3> SUFFICES ASSUME NEW l \in LegNames
                 PROVE  Base(b, <<l, a, e>>) = held[b][<<l, a, e>>]
      OBVIOUS
    <3>1. held[b][<<l, a, e>>] \in Int
      BY ContractParts DEF HedgedInv, TypeOK
    <3> QED
      BY <3>1 DEF Base, Placed, AtRest
  <2> QED
    BY <2>1, <2>2, LegPlaces DEF Square
<1> QED
  BY <1>1, <1>2, HedgedStep, PTL DEF Spec

----------------------------------------------------------------------------
(* What is stored is the position *)

StoreInv == TypeOK /\ StoreMatches

\* Every step that moves the position stores it, and a restart takes what is
\* stored.
LEMMA StoreStep == StoreInv /\ [Next]_vars => StoreInv'
<1> SUFFICES ASSUME TypeOK, StoreMatches, [Next]_vars PROVE StoreMatches'
  BY CondorTypeStep DEF StoreInv
<1>1. ASSUME NEW a \in Atms, NEW e \in Expiries, TryEntry(a, e) PROVE StoreMatches'
  <2>1. pos' \in Positions
    BY <1>1 DEF TryEntry, Positions
  <2> QED
    BY <1>1, <2>1, PersistType DEF TryEntry, StoreMatches
<1>2. CASE ClosePosition
  BY <1>2, PersistType DEF ClosePosition, StoreMatches
<1>3. CASE Start
  BY <1>3 DEF Start, StoreMatches
<1>4. CASE Crash
  BY <1>4 DEF Crash, StoreMatches
<1>5. CASE UNCHANGED vars \/ RatioBreach \/ CooldownEnds \/ Serve \/ RouteBinding \/ PlaceLeg
             \/ (\E b \in Bindings : Switch(b)) \/ NewDay
  BY <1>5 DEF StoreMatches, vars, strategyVars, RatioBreach, CooldownEnds, Serve, RouteBinding,
              PlaceLeg, Switch, NewDay
<1> QED
  BY <1>1, <1>2, <1>3, <1>4, <1>5 DEF Next

\* Whatever the day, the product and the moment of a crash: the entry on disk
\* is the position of the running strategy.
THEOREM CondorStoreTheorem == Spec => []StoreMatches
<1>1. Init => StoreInv
  BY CondorInit DEF Init, StoreInv, StoreMatches, NoEntry
<1>2. StoreInv => StoreMatches
  BY DEF StoreInv
<1> QED
  BY <1>1, <1>2, StoreStep, PTL DEF Spec

----------------------------------------------------------------------------
(* Every account holds what the strategy believes in *)

\* What a behaviour starts with stays, and so what is carried.
LEMMA SetupStays ==
  ASSUME [Next]_vars
  PROVE  UNCHANGED setup /\ \A b : Carried(b)' <=> Carried(b)
<1>1. UNCHANGED setup
  BY DEF vars, Next, TryEntry, ClosePosition, RatioBreach, CooldownEnds, Start, Serve,
         RouteBinding, PlaceLeg, Switch, Crash, NewDay
<1> QED
  BY <1>1 DEF setup, Carried, Survives

\* In a calm behaviour a restart takes the stored entry, whatever the product.
LEMMA CalmRestored ==
  ASSUME TypeOK, Calm, CalmSetup
  PROVE  Restored.pos = store.pos
<1>1. product \in {"MIS", "NRML"} /\ (product = "MIS" => day = 1)
  BY DEF TypeOK, CalmSetup
<1>2. store.pos # NoPos => store.day \in 1..day
  BY DEF TypeOK, NoEntry
<1>3. store.pos # NoPos => product = "NRML" \/ store.day = day
  BY <1>1, <1>2
<1> QED
  BY <1>3 DEF Restored, NoEntry

\* What an event finds and leaves, by its kind.
LEMMA EventParts ==
  ASSUME NEW ev \in Events
  PROVE  /\ ev.action \in {"ENTRY", "EXIT"} /\ ev.atm \in Atms
         /\ Before(ev) \in Positions \cup {NoPos} /\ Leaves(ev) \in Positions \cup {NoPos}
  BY DEF Events, Before, Leaves, Positions, Expiries

\* A position of the condor gives a leg its share, and no position gives none.
LEMMA Shares ==
  /\ \A c \in Contracts : ShareOf(NoPos, c) = 0
  /\ \A a \in Atms, c \in Contracts :
       ShareOf([atm |-> a, expiry |-> 1], c) = IF c[2] = a /\ c[3] = 1 THEN Sign(c[1]) ELSE 0
  BY DEF ShareOf, NoPos

\* Serving the whole of an event takes a contract from what the event finds to
\* what it leaves.
LEMMA EventMoves ==
  ASSUME TypeOK, Calm, CalmSetup, exec # Idle, NEW c \in Contracts
  PROVE  ShareOf(Leaves(exec.ev), c) = ShareOf(Before(exec.ev), c) +
           (IF c[2] = exec.ev.atm /\ c[3] = ExpiryOf(exec.ev) THEN Signed(c[1]) ELSE 0)
<1>1. exec.ev \in Events
  BY DEF TypeOK
<1>2. ExpiryOf(exec.ev) = 1
  BY DEF CalmSetup, ExpiryOf
<1>3. CASE exec.ev.action = "ENTRY"
  BY <1>1, <1>2, <1>3, EventParts, Shares DEF Before, Leaves, Signed, Sign, IsEntry
<1>4. CASE exec.ev.action # "ENTRY"
  BY <1>1, <1>2, <1>4, EventParts, Shares DEF Before, Leaves, Signed, Sign, IsEntry
<1> QED
  BY <1>3, <1>4

\* A calm behaviour stays calm in its setting: every binding on, one expiry.
LEMMA CalmSetupStep ==
  ASSUME CalmInv, Calm, [Next]_vars
  PROVE  CalmSetup'
<1> USE DEF setup, clock, strategyVars
<1>1. TypeOK /\ TypeOK' /\ CalmSetup /\ product' = product
  BY CondorTypeStep DEF CalmInv, vars, Next, TryEntry, ClosePosition, RatioBreach,
     CooldownEnds, Start, Serve, RouteBinding, PlaceLeg, Switch, Crash, NewDay
<1>2. ASSUME NEW a \in Atms, NEW e \in Expiries, TryEntry(a, e) PROVE CalmSetup'
  <2> DEFINE ev == [action |-> "ENTRY", atm |-> a, expiry |-> e]
  <2>1. e = 1
    BY <1>1, <1>2 DEF TryEntry, ChosenExpiries, Calm, Survives, CalmSetup
  <2>2. orderQ' = Append(orderQ, ev) /\ orderQ \in Seq(Events)
    BY <1>1, <1>2 DEF TryEntry, TypeOK
  <2>3. \A i \in DOMAIN orderQ' : orderQ'[i].action = "ENTRY" => orderQ'[i].expiry = 1
    BY <1>1, <2>1, <2>2 DEF CalmSetup
  <2>4. pos' \in Positions /\ pos'.expiry = 1
    BY <1>2, <2>1 DEF TryEntry, Positions
  <2>5. store'.pos = pos'
    BY <1>1, <1>2, <2>4, PersistType DEF TryEntry
  <2> QED
    BY <1>1, <1>2, <2>3, <2>4, <2>5 DEF TryEntry, CalmSetup
<1>3. CASE ClosePosition
  <2> DEFINE ev == [action |-> "EXIT", atm |-> pos.atm]
  <2>1. orderQ' = Append(orderQ, ev) /\ orderQ \in Seq(Events) /\ ev.action # "ENTRY"
    BY <1>1, <1>3 DEF ClosePosition, TypeOK
  <2>2. \A i \in DOMAIN orderQ' : orderQ'[i].action = "ENTRY" => orderQ'[i].expiry = 1
    BY <1>1, <2>1 DEF CalmSetup
  <2>3. store'.pos = NoPos
    BY <1>1, <1>3, PersistType DEF ClosePosition
  <2> QED
    BY <1>1, <1>3, <2>2, <2>3 DEF ClosePosition, CalmSetup
<1>4. CASE Start
  <2>1. store'.pos = store.pos
    BY <1>1, <1>4, CalmRestored DEF Start
  <2> QED
    BY <1>1, <1>4, <2>1 DEF Start, CalmSetup
<1>5. CASE Serve
  <2> DEFINE s == SetToSeq(Bindings)
  <2>1. exec' = [left |-> s, leg |-> 0, ev |-> orderQ[1]] /\ orderQ' = Tail(orderQ)
    BY <1>1, <1>5 DEF Serve, TypeOK
  <2>2. orderQ \in Seq(Events) /\ Len(orderQ) > 0
    BY <1>1, <1>5 DEF Serve, TypeOK
  <2>3. orderQ[1].action = "ENTRY" => orderQ[1].expiry = 1
    BY <1>1, <2>2 DEF CalmSetup
  <2>4. \A i \in DOMAIN orderQ' : orderQ'[i].action = "ENTRY" => orderQ'[i].expiry = 1
    BY <1>1, <2>1, <2>2 DEF CalmSetup
  <2>5. \A i, j \in DOMAIN s : s[i] = s[j] => i = j
    BY Listed
  <2> HIDE DEF s
  <2> QED
    BY <1>1, <1>5, <2>1, <2>3, <2>4, <2>5 DEF Serve, CalmSetup
<1>6. ASSUME RouteBinding \/ PlaceLeg PROVE CalmSetup'
  <2>1. exec \in Served /\ exec # Idle
    BY <1>1, <1>6 DEF TypeOK, Served, RouteBinding, PlaceLeg
  <2>2. \/ exec' = Rest(exec.left)
        \/ exec' = [exec EXCEPT !.leg = 1]
        \/ exec' = [exec EXCEPT !.leg = @ + 1]
    BY <1>6 DEF RouteBinding, PlaceLeg
  <2>3. exec' # Idle => exec'.ev = exec.ev /\ (exec'.left = exec.left \/ exec'.left = Tail(exec.left))
    BY <1>1, <2>1, <2>2, RestType DEF Served
  <2>4. exec.left \in Seq(Bindings) /\ exec.left # <<>>
    BY <2>1 DEF Served
  <2>5. \A i, j \in DOMAIN exec.left : exec.left[i] = exec.left[j] => i = j
    BY <1>1, <2>1 DEF CalmSetup
  <2>6. \A i, j \in DOMAIN Tail(exec.left) : Tail(exec.left)[i] = Tail(exec.left)[j] => i = j
    BY <2>4, <2>5
  <2>7. exec' # Idle => /\ exec'.ev.action = "ENTRY" => exec'.ev.expiry = 1
                        /\ \A i, j \in DOMAIN exec'.left : exec'.left[i] = exec'.left[j] => i = j
    BY <1>1, <2>1, <2>3, <2>5, <2>6 DEF CalmSetup
  <2> QED
    BY <1>1, <1>6, <2>7 DEF RouteBinding, PlaceLeg, CalmSetup
<1>7. CASE Crash
  BY <1>1, <1>7 DEF Crash, CalmSetup, AtRest
<1>8. CASE NewDay
  <2>1. current' = current
    BY <1>8 DEF NewDay, Calm, Survives
  <2>2. product # "MIS"
    BY <1>8 DEF NewDay, Calm, Survives
  <2> QED
    BY <1>1, <1>8, <2>1, <2>2 DEF NewDay, CalmSetup, AtRest
<1>9. CASE \E b \in Bindings : Switch(b)
  BY <1>9 DEF Switch, Calm, Survives
<1>10. CASE UNCHANGED vars \/ RatioBreach \/ CooldownEnds
  BY <1>1, <1>10 DEF vars, RatioBreach, CooldownEnds, CalmSetup, AtRest
<1> QED
  BY <1>2, <1>3, <1>4, <1>5, <1>6, <1>7, <1>8, <1>9, <1>10 DEF Next

\* An order that takes the stored position to the new one is put behind what
\* the queue already promises.
LEMMA Enqueued ==
  ASSUME CalmInv, Calm, NEW ev \in Events,
         orderQ' = Append(orderQ, ev), exec' = exec, held' = held, UNCHANGED setup,
         Before(ev) = store.pos, Leaves(ev) = store'.pos
  PROVE  Chain' /\ Accounts'
<1>1. TypeOK /\ Chain /\ Accounts /\ orderQ \in Seq(Events)
  BY DEF CalmInv, TypeOK
<1> DEFINE n == Len(orderQ)
<1>2. /\ n \in Nat /\ Len(orderQ') = n + 1 /\ DOMAIN orderQ' = 1..(n + 1) /\ DOMAIN orderQ = 1..n
      /\ orderQ' # <<>> /\ (orderQ = <<>> <=> n = 0)
      /\ \A i \in 1..n : orderQ'[i] = orderQ[i]
      /\ orderQ'[n + 1] = ev
  BY <1>1
<1>3. Target' = Target
  <2>1. CASE n = 0
    BY <1>2, <2>1 DEF Target, Before
  <2>2. CASE n # 0
    BY <1>2, <2>2 DEF Target, Before
  <2> QED
    BY <2>1, <2>2
<1>4. \A x : Leaves(x)' = Leaves(x) /\ Before(x)' = Before(x)
  BY DEF Leaves, Before
<1>5. \A i, j \in DOMAIN orderQ' : j = i + 1 => Leaves(orderQ'[i]) = Before(orderQ'[j])
  <2> SUFFICES ASSUME NEW i \in 1..n, i + 1 \in 1..(n + 1)
               PROVE  Leaves(orderQ'[i]) = Before(orderQ'[i + 1])
    BY <1>2
  <2>1. CASE i < n
    BY <1>1, <1>2, <2>1 DEF Chain
  <2>2. CASE i = n
    BY <1>1, <1>2, <2>2 DEF Chain
  <2>3. n \in Nat
    BY <1>2
  <2>4. i < n \/ i = n
    <3> HIDE DEF n
    <3> QED
      BY <2>3
  <2> QED
    BY <2>1, <2>2, <2>4
<1>6. Chain'
  BY <1>1, <1>2, <1>3, <1>4, <1>5 DEF Chain
<1>7. Accounts'
  BY <1>1, <1>3, <1>4 DEF Accounts, Waits, Carried, Survives, setup
<1> QED
  BY <1>6, <1>7

\* The first event of the queue goes into service: every binding waits for it.
LEMMA CalmServe ==
  ASSUME CalmInv, Calm, Serve
  PROVE  Chain' /\ Accounts'
<1>1. TypeOK /\ Chain /\ Accounts /\ orderQ \in Seq(Events)
  BY DEF CalmInv, TypeOK
<1> DEFINE n == Len(orderQ)
<1>2. /\ n \in Nat \ {0} /\ orderQ' = Tail(orderQ) /\ Len(orderQ') = n - 1
      /\ DOMAIN orderQ' = 1..(n - 1) /\ DOMAIN orderQ = 1..n
      /\ (orderQ' = <<>> <=> n = 1) /\ orderQ # <<>>
      /\ \A i \in 1..(n - 1) : orderQ'[i] = orderQ[i + 1]
  <2>1. n \in Nat \ {0} /\ orderQ' = Tail(orderQ) /\ orderQ # <<>>
    BY <1>1 DEF Serve
  <2>2. /\ Len(orderQ') = n - 1 /\ DOMAIN orderQ' = 1..(n - 1)
        /\ \A i \in 1..(n - 1) : orderQ'[i] = orderQ[i + 1] /\ orderQ' \in Seq(Events)
    BY <1>1, <2>1
  <2>3. orderQ' \in Seq(Events)
    BY <1>1, <2>1
  <2>4. orderQ' = <<>> <=> Len(orderQ') = 0
    BY <2>3, EmptySeq, Zenon
  <2> QED
    BY <1>1, <2>1, <2>2, <2>4
<1>3. exec = Idle /\ exec' = [left |-> SetToSeq(Bindings), leg |-> 0, ev |-> orderQ[1]]
  BY <1>1, <1>2 DEF Serve
<1>4. store' = store /\ held' = held
  BY DEF Serve, strategyVars
<1>5. \A x : Leaves(x)' = Leaves(x) /\ Before(x)' = Before(x)
  BY DEF Leaves, Before
<1>6. Leaves(orderQ[1]) = Target'
  <2>1. CASE n = 1
    BY <1>1, <1>2, <1>4, <2>1 DEF Target, Chain
  <2>2. CASE n # 1
    <3>1. 1 \in 1..n /\ 2 \in 1..n /\ 1 \in 1..(n - 1) /\ 2 = 1 + 1
      BY <1>2, <2>2
    <3>2. Leaves(orderQ[1]) = Before(orderQ[2])
      BY <1>1, <1>2, <3>1 DEF Chain
    <3>3. Target' = Before(orderQ'[1])
      BY <1>2, <1>5, <2>2 DEF Target
    <3> QED
      BY <1>2, <3>1, <3>2, <3>3
  <2> QED
    BY <2>1, <2>2
<1>7. Chain'
  <2>1. \A i, j \in DOMAIN orderQ' : j = i + 1 => Leaves(orderQ'[i]) = Before(orderQ'[j])
    <3> SUFFICES ASSUME NEW i \in 1..(n - 1), i + 1 \in 1..(n - 1)
                 PROVE  Leaves(orderQ'[i]) = Before(orderQ'[i + 1])
      BY <1>2
    <3>1. i + 1 \in 1..n /\ i + 2 \in 1..n
      BY <1>2
    <3>2. Leaves(orderQ[i + 1]) = Before(orderQ[i + 2])
      BY <1>1, <1>2, <3>1 DEF Chain
    <3> QED
      BY <1>2, <3>1, <3>2
  <2>2. orderQ' # <<>> => Leaves(orderQ'[Len(orderQ')]) = store'.pos
    BY <1>1, <1>2, <1>4 DEF Chain
  <2>3. exec' # Idle => Leaves(exec'.ev) = Target'
    BY <1>3, <1>6
  <2> QED
    BY <2>1, <2>2, <2>3, <1>5 DEF Chain
<1>8. Accounts'
  <2>0. \A b : Carried(b)' <=> Carried(b)
    BY SetupStays DEF Next
  <2> SUFFICES ASSUME NEW b \in Bindings, NEW c \in Contracts, Carried(b)
               PROVE  /\ Waits(b, c)'
                      /\ held'[b][c] = ShareOf(Before(orderQ[1]), c)
    BY <1>3, <1>5, <2>0 DEF Accounts, ShareOf, Sign
  <2>1. PosOf(c[1]) \in 1..4
    BY LegPlaces, ContractParts
  <2>2. Waits(b, c)'
    BY <1>3, <2>1, Listed DEF Waits, Idle
  <2>3. held[b][c] = ShareOf(Target, c)
    BY <1>1, <1>3 DEF Accounts, Waits
  <2> QED
    BY <1>2, <1>4, <2>2, <2>3 DEF Target
<1> QED
  BY <1>7, <1>8

\* While the bridge works nothing is promised anew.
LEMMA ChainKept ==
  ASSUME CalmInv, Calm, orderQ' = orderQ, store' = store,
         exec' = Idle \/ (exec # Idle /\ exec'.ev = exec.ev)
  PROVE  Chain' /\ Target' = Target
<1>1. \A x : Leaves(x)' = Leaves(x) /\ Before(x)' = Before(x)
  BY DEF Leaves, Before
<1>2. Target' = Target
  BY <1>1 DEF Target, Before
<1> QED
  BY <1>1, <1>2 DEF CalmInv, Chain

\* A binding whose turn comes is on, and places all its legs.
LEMMA CalmRoute ==
  ASSUME CalmInv, Calm, RouteBinding
  PROVE  Chain' /\ Accounts'
<1>1. TypeOK /\ CalmSetup /\ Accounts /\ exec \in Served /\ exec # Idle /\ exec.leg = 0
  BY DEF CalmInv, TypeOK, Served, RouteBinding
<1>2. Head(exec.left) \in Bindings
  BY <1>1 DEF Served
<1>3. exec' = [exec EXCEPT !.leg = 1]
  BY <1>1, <1>2 DEF RouteBinding, CalmSetup
<1>4. exec' # Idle /\ exec'.left = exec.left /\ exec'.ev = exec.ev /\ exec'.leg = 1
  <2>1. exec' \in Served /\ exec'.left = exec.left /\ exec'.ev = exec.ev /\ exec'.leg = 1
    BY <1>1, <1>3 DEF Served
  <2> QED
    BY <2>1, Distinct
<1>5. orderQ' = orderQ /\ store' = store /\ held' = held
  BY DEF RouteBinding, strategyVars
<1>6. Chain' /\ Target' = Target
  BY <1>1, <1>4, <1>5, ChainKept
<1>7. \A b \in Bindings, c \in Contracts : Waits(b, c)' <=> Waits(b, c)
  <2> SUFFICES ASSUME NEW b \in Bindings, NEW c \in Contracts PROVE Waits(b, c)' <=> Waits(b, c)
    OBVIOUS
  <2>1. PosOf(c[1]) \in 1..4
    BY LegPlaces, ContractParts
  <2> QED
    BY <1>1, <1>4, <2>1 DEF Waits
<1>8. Accounts'
  <2>1. \A b : Carried(b)' <=> Carried(b)
    BY SetupStays DEF Next
  <2> QED
    BY <1>1, <1>4, <1>5, <1>6, <1>7, <2>1 DEF Accounts, Before
<1> QED
  BY <1>6, <1>8

\* The leg placed stops waiting, and it alone.
LEMMA WaitsAfterLeg ==
  ASSUME CalmInv, Calm, PlaceLeg, NEW b \in Bindings, NEW c \in Contracts
  PROVE  LET now == b = Head(exec.left) /\ PosOf(c[1]) = exec.leg IN
         (Waits(b, c)' <=> Waits(b, c) /\ ~now) /\ (now => Waits(b, c))
<1> DEFINE s == exec.left
           m == Len(s)
<1>1. /\ TypeOK /\ CalmSetup /\ exec \in Served /\ exec.leg \in 1..4 /\ exec # Idle
      /\ s \in Seq(Bindings) /\ s # <<>> /\ m \in Nat \ {0} /\ DOMAIN s = 1..m
  <2>1. TypeOK /\ CalmSetup /\ exec \in Served /\ exec.leg \in 1..4 /\ exec # Idle
    BY PlaceType DEF CalmInv, PlaceLeg
  <2>2. s \in Seq(Bindings) /\ s # <<>>
    BY <2>1 DEF Served
  <2>3. m \in Nat \ {0} /\ DOMAIN s = 1..m
    BY <2>2
  <2> QED
    BY <2>1, <2>2, <2>3
<1>2. Head(s) = s[1] /\ 1 \in 1..m
  BY <1>1
<1>3. \A i, j \in 1..m : s[i] = s[j] => i = j
  BY <1>1 DEF CalmSetup
<1>4. PosOf(c[1]) \in 1..4
  BY LegPlaces, ContractParts
<1>5. Waits(b, c) <=> (\E i \in 1..m : s[i] = b) /\ (b = s[1] => PosOf(c[1]) >= exec.leg)
  BY <1>1, <1>2 DEF Waits
<1>6. CASE exec.leg # 4
  <2>1. exec' = [exec EXCEPT !.leg = @ + 1]
    BY <1>6 DEF PlaceLeg, LegCount
  <2>2. exec' \in Served /\ exec'.left = s /\ exec'.leg = exec.leg + 1
    BY <1>1, <1>6, <2>1 DEF Served
  <2>3. exec' # Idle
    BY <2>2, Distinct
  <2>4. Waits(b, c)' <=> (\E i \in 1..m : s[i] = b) /\ (b = s[1] => PosOf(c[1]) >= exec.leg + 1)
    BY <1>1, <1>2, <2>2, <2>3 DEF Waits
  <2> HIDE DEF s, m
  <2> QED
    BY <1>1, <1>2, <1>4, <1>5, <2>4 DEF s
<1>7. CASE exec.leg = 4
  <2>1. exec' = Rest(s)
    BY <1>7 DEF PlaceLeg, LegCount
  <2>2. Waits(b, c)' <=> \E i \in 1..m : i # 1 /\ s[i] = b
    <3>1. CASE m = 1
      <4>1. exec' = Idle
        BY <2>1, <3>1 DEF Rest
      <4>2. ~ \E i \in 1..m : i # 1
        BY <3>1
      <4> QED
        BY <4>1, <4>2 DEF Waits
    <3>2. CASE m # 1
      <4>1. exec' # Idle /\ exec'.left = Tail(s) /\ exec'.leg = 0
        BY <1>1, <2>1, <3>2, RestType
      <4>2. DOMAIN Tail(s) = 1..(m - 1) /\ \A i \in 1..(m - 1) : Tail(s)[i] = s[i + 1]
        BY <1>1
      <4>3. Waits(b, c)' <=> \E i \in 1..(m - 1) : s[i + 1] = b
        <5>1. Waits(b, c)' <=> \E i \in DOMAIN Tail(s) : Tail(s)[i] = b
          BY <1>4, <4>1 DEF Waits
        <5> QED
          BY <4>2, <5>1
      <4>4. ASSUME NEW i \in 1..m, i # 1, s[i] = b PROVE \E k \in 1..(m - 1) : s[k + 1] = b
        <5>1. i - 1 \in 1..(m - 1) /\ (i - 1) + 1 = i
          BY <1>1, <4>4
        <5> QED
          BY <4>4, <5>1
      <4>5. ASSUME NEW k \in 1..(m - 1), s[k + 1] = b PROVE \E i \in 1..m : i # 1 /\ s[i] = b
        <5>1. k + 1 \in 1..m /\ k + 1 # 1
          BY <1>1, <4>5
        <5> QED
          BY <4>5, <5>1
      <4> QED
        BY <4>3, <4>4, <4>5
    <3> QED
      BY <3>1, <3>2
  <2> HIDE DEF s, m
  <2> QED
    BY <1>1, <1>2, <1>3, <1>4, <1>5, <1>7, <2>2 DEF s
<1> QED
  BY <1>6, <1>7

\* Placing a leg takes it from what the event finds to what it leaves.
LEMMA CalmPlace ==
  ASSUME CalmInv, Calm, PlaceLeg
  PROVE  Chain' /\ Accounts'
<1> DEFINE b0 == Head(exec.left)
           l0 == Legs[exec.leg]
           c0 == <<l0, exec.ev.atm, ExpiryOf(exec.ev)>>
           d == Signed(l0)
<1>1. /\ TypeOK /\ CalmSetup /\ Accounts /\ Chain /\ exec \in Served /\ exec # Idle
      /\ exec.leg \in 1..4 /\ b0 \in Bindings /\ c0 \in Contracts /\ d \in {-1, 1}
  BY PlaceType DEF CalmInv, PlaceLeg
<1>2. exec' = Idle \/ exec'.ev = exec.ev
  <2>1. exec' = Rest(exec.left) \/ exec' = [exec EXCEPT !.leg = @ + 1]
    BY DEF PlaceLeg
  <2> QED
    BY <1>1, <2>1, RestType DEF Served
<1>3. orderQ' = orderQ /\ store' = store
  BY DEF PlaceLeg, strategyVars
<1>4. Chain' /\ Target' = Target
  BY <1>1, <1>2, <1>3, ChainKept
<1>5. held' = [held EXCEPT ![b0][c0] = @ + d]
  BY DEF PlaceLeg, Calm, Survives
<1>6. ASSUME NEW b \in Bindings, NEW c \in Contracts, Carried(b)
      PROVE  held'[b][c] = ShareOf(IF Waits(b, c)' THEN Before(exec'.ev) ELSE Target, c)
  <2> DEFINE now == b = b0 /\ PosOf(c[1]) = exec.leg
             mine == c[2] = exec.ev.atm /\ c[3] = ExpiryOf(exec.ev)
             found == ShareOf(Before(exec.ev), c)
             left == ShareOf(Target, c)
  <2>1. held \in [Bindings -> [Contracts -> Int]] /\ held[b][c] \in Int /\ held[b0] \in [Contracts -> Int]
    BY <1>1 DEF TypeOK
  <2>2. c = c0 <=> PosOf(c[1]) = exec.leg /\ mine
    <3>1. c = c0 <=> c[1] = l0 /\ mine
      BY ContractParts
    <3>2. c[1] = l0 <=> PosOf(c[1]) = exec.leg
      BY <1>1, LegPlaces, ContractParts
    <3> QED
      BY <3>1, <3>2
  <2>3. c = c0 => Signed(c[1]) = d
    BY ContractParts
  <2>4. held'[b][c] = held[b][c] + (IF b = b0 /\ c = c0 THEN d ELSE 0)
    <3> HIDE DEF b0, c0, d
    <3> QED
      BY <1>1, <1>5, <2>1
  <2>5. Target = Leaves(exec.ev)
    BY <1>1 DEF Chain
  <2>6. left = found + (IF mine THEN Signed(c[1]) ELSE 0)
    BY <1>1, <2>5, EventMoves
  <2>7. (Waits(b, c)' <=> Waits(b, c) /\ ~now) /\ (now => Waits(b, c))
    BY WaitsAfterLeg
  <2>8. held[b][c] = IF Waits(b, c) THEN found ELSE left
    BY <1>1, <1>6 DEF Accounts
  <2>9. Waits(b, c)' => exec'.ev = exec.ev
    BY <1>2 DEF Waits
  <2>10. held'[b][c] = IF Waits(b, c)' THEN found ELSE left
    <3>1. found \in Int /\ left \in Int
      BY DEF ShareOf, Sign
    <3>2. Signed(c[1]) \in Int
      BY DEF Signed
    <3> HIDE DEF b0, c0, d, mine, found, left
    <3>3. CASE now
      <4>1. held[b][c] = found /\ ~Waits(b, c)'
        BY <2>7, <2>8, <3>3
      <4>2. CASE mine
        BY <2>2, <2>3, <2>4, <2>6, <3>1, <3>2, <3>3, <4>1, <4>2
      <4>3. CASE ~mine
        BY <2>2, <2>4, <2>6, <3>1, <3>3, <4>1, <4>3
      <4> QED
        BY <4>2, <4>3
    <3>4. CASE ~now
      <4>1. ~(b = b0 /\ c = c0)
        BY <2>2, <3>4
      <4>2. held'[b][c] = held[b][c]
        BY <2>1, <2>4, <4>1
      <4> QED
        BY <2>7, <2>8, <3>4, <4>2
    <3> QED
      BY <3>3, <3>4
  <2> QED
    BY <2>9, <2>10
<1>7. Accounts'
  <2>1. \A b : Carried(b)' <=> Carried(b)
    BY SetupStays DEF Next
  <2> QED
    BY <1>4, <1>6, <2>1 DEF Accounts, ShareOf, Sign, Before
<1> QED
  BY <1>4, <1>7

\* A step that moves no order and no account that is carried, and leaves the
\* position in the store, changes nothing of what is promised.
LEMMA CalmIdle ==
  ASSUME CalmInv, Calm, orderQ' = orderQ, exec' = exec, store'.pos = store.pos,
         \A b \in Bindings, c \in Contracts :
           Carried(b)' => Carried(b) /\ held'[b][c] = held[b][c]
  PROVE  Chain' /\ Accounts'
<1>1. \A x : Leaves(x)' = Leaves(x) /\ Before(x)' = Before(x)
  BY DEF Leaves, Before
<1>2. Target' = Target
  BY <1>1 DEF Target, Before
<1>3. Chain'
  BY <1>1, <1>2 DEF CalmInv, Chain
<1>4. Accounts'
  BY <1>1, <1>2 DEF CalmInv, Accounts, Waits
<1> QED
  BY <1>3, <1>4

\* Every step keeps the accounts on their way to the position.
LEMMA CalmStep == CalmInv /\ [Next]_vars => CalmInv'
<1> USE DEF setup, clock, strategyVars
<1> SUFFICES ASSUME CalmInv, [Next]_vars PROVE CalmInv'
  OBVIOUS
<1>1. TypeOK' /\ StoreMatches'
  BY StoreStep DEF CalmInv, StoreInv
<1>2. Calm' => Calm
  BY DEF Calm, Survives, vars, Next, TryEntry, ClosePosition, RatioBreach, CooldownEnds, Start,
         Serve, RouteBinding, PlaceLeg, Switch, Crash, NewDay
<1>3. SUFFICES ASSUME Calm PROVE Chain' /\ Accounts'
  BY <1>1, <1>2, CalmSetupStep DEF CalmInv
<1>4. TypeOK /\ CalmSetup /\ StoreMatches
  BY <1>3 DEF CalmInv
<1>4a. UNCHANGED setup /\ \A b : Carried(b)' <=> Carried(b)
  BY SetupStays
<1>4b. held' = held =>
         \A b \in Bindings, c \in Contracts : Carried(b)' => Carried(b) /\ held'[b][c] = held[b][c]
  BY <1>4a
<1>5. ASSUME NEW a \in Atms, NEW e \in Expiries, TryEntry(a, e) PROVE Chain' /\ Accounts'
  <2> DEFINE ev == [action |-> "ENTRY", atm |-> a, expiry |-> e]
  <2>1. ev \in Events
    BY DEF Events
  <2>2. e = 1
    BY <1>3, <1>4, <1>5 DEF TryEntry, ChosenExpiries, Calm, Survives, CalmSetup
  <2>3. pos' \in Positions /\ pos' = [atm |-> a, expiry |-> 1]
    BY <1>5, <2>2 DEF TryEntry, Positions
  <2>4. store'.pos = pos'
    BY <1>4, <1>5, <2>3, PersistType DEF TryEntry
  <2>5. Before(ev) = store.pos
    BY <1>4, <1>5 DEF TryEntry, StoreMatches, Before
  <2>6. Leaves(ev) = store'.pos
    BY <2>2, <2>3, <2>4 DEF Leaves
  <2> QED
    BY <1>3, <1>5, <2>1, <2>5, <2>6, Enqueued DEF TryEntry
<1>6. CASE ClosePosition
  <2> DEFINE ev == [action |-> "EXIT", atm |-> pos.atm]
  <2>1. pos \in Positions /\ store.pos = pos /\ pos.expiry = 1
    BY <1>4, <1>6 DEF ClosePosition, TypeOK, StoreMatches, CalmSetup
  <2>2. pos = [atm |-> pos.atm, expiry |-> 1]
    BY <2>1 DEF Positions
  <2>3. ev \in Events
    BY <2>1 DEF Events, Positions
  <2>4. store'.pos = NoPos
    BY <1>4, <1>6, PersistType DEF ClosePosition
  <2>5. Before(ev) = store.pos /\ Leaves(ev) = store'.pos
    BY <2>1, <2>2, <2>4 DEF Before, Leaves
  <2> QED
    BY <1>3, <1>6, <2>3, <2>5, Enqueued DEF ClosePosition
<1>7. CASE Start
  BY <1>3, <1>4, <1>4b, <1>7, CalmRestored, CalmIdle DEF Start
<1>8. CASE Crash
  <2>1. AtRest
    BY <1>3, <1>8 DEF Crash, Calm, Survives
  <2> QED
    BY <1>3, <1>4b, <1>8, <2>1, CalmIdle DEF Crash, AtRest
<1>9. CASE NewDay
  <2>1. current' = 1 /\ "overnight" \in faults
    BY <1>3, <1>4, <1>9 DEF NewDay, Calm, Survives, CalmSetup
  <2>2. \A c \in Contracts : ~(c[3] < current')
    BY <2>1, ContractParts DEF Expiries
  <2>3. \A b \in Bindings : Carried(b) => bound[b] # "MIS"
    BY <2>1 DEF Carried, Survives
  <2>4. \A b \in Bindings, c \in Contracts : Carried(b) => held'[b][c] = held[b][c]
    BY <1>9, <2>2, <2>3 DEF NewDay
  <2> QED
    BY <1>3, <1>4a, <1>9, <2>4, CalmIdle DEF NewDay
<1>10. CASE UNCHANGED vars \/ RatioBreach \/ CooldownEnds
  BY <1>3, <1>4b, <1>10, CalmIdle DEF vars, RatioBreach, CooldownEnds
<1>11. CASE \E b \in Bindings : Switch(b)
  BY <1>3, <1>11 DEF Switch, Calm, Survives
<1> QED
  BY <1>3, <1>5, <1>6, <1>7, <1>8, <1>9, <1>10, <1>11, CalmServe, CalmRoute, CalmPlace DEF Next

\* Nothing tells the strategy what was filled; still every account holds the
\* condor it believes in once the orders are served: for any number of bindings
\* and entries, through restarts and breaches, and through the night for those
\* bindings that carry a position the strategy carries as well.
THEOREM CondorSettledTheorem == Spec => []Settled
<1>1. Init => CalmInv
  <2> SUFFICES ASSUME Init PROVE CalmInv
    OBVIOUS
  <2>1. TypeOK /\ StoreMatches
    BY CondorInit DEF Init, StoreMatches, NoEntry
  <2>2. CalmSetup
    BY DEF Init, CalmSetup, NoEntry
  <2>3. Chain
    BY DEF Init, Chain
  <2>4. Accounts
    <3>1. Target = NoPos
      BY DEF Init, Target, NoEntry
    <3>2. \A b \in Bindings, c \in Contracts : held[b][c] = 0 /\ ~Waits(b, c)
      BY DEF Init, Waits
    <3> QED
      BY <3>1, <3>2, Shares DEF Accounts
  <2> QED
    BY <2>1, <2>2, <2>3, <2>4 DEF CalmInv
<1>2. CalmInv => Settled
  <2> SUFFICES ASSUME CalmInv, Calm, AtRest, NEW b \in Bindings, Carried(b), NEW c \in Contracts
               PROVE  held[b][c] = Share(c)
    BY DEF Settled, Calm, Carried
  <2>1. held[b][c] = ShareOf(store.pos, c)
    BY DEF CalmInv, Accounts, Waits, Target, AtRest
  <2>2. Believed = store.pos
    BY CalmRestored DEF CalmInv, Believed, StoreMatches
  <2> QED
    BY <2>1, <2>2 DEF Share, ShareOf
<1> QED
  BY <1>1, <1>2, CalmStep, PTL DEF Spec
=============================================================================
