-------------------------- MODULE SharedFeed_proofs --------------------------
(***************************************************************************)
(* The types of the shared feed, and that its server filters by what the   *)
(* client subscribed to, for every set of tokens, buffer and fault set.    *)
(***************************************************************************)
EXTENDS SharedFeed, SequenceTheorems, TLAPS

USE SharedAssumption

----------------------------------------------------------------------------
(* Commands *)

\* Handling a command of known tokens leaves known tokens.
LEMMA AppliedType ==
  ASSUME NEW ts \in SUBSET Tokens, NEW c \in Command
  PROVE  Applied(ts, c) \in SUBSET Tokens
  BY DEF Applied, Command

\* The commands of a connection that has just been opened.
LEMMA NewWireType ==
  ASSUME NEW ts \in SUBSET Tokens
  PROVE  /\ NewWire(ts) \in [state : {"none", "up", "cut", "mute"},
                             cmds : Seq(Command), lines : Seq(Ticks)]
         /\ NewWire(ts).lines = <<>> /\ NewWire(ts).state = "up"
<1>1. [cmd |-> "subscribe", of |-> ts] \in Command
  BY DEF Command
<1>2. (IF ts = {} THEN <<>> ELSE <<[cmd |-> "subscribe", of |-> ts]>>) \in Seq(Command)
  BY <1>1
<1> QED
  BY <1>2 DEF NewWire

\* A new connection ends in the client's set, since nothing is subscribed yet.
LEMMA AfterNewWire ==
  ASSUME NEW ts \in SUBSET Tokens
  PROVE  After({}, NewWire(ts).cmds) = ts
  BY DEF After, NewWire

\* No command in flight: the set is what it is.
LEMMA AfterNone ==
  ASSUME NEW ts \in SUBSET Tokens
  PROVE  After(ts, <<>>) = ts
  BY DEF After

\* The head of the commands may be handled before the rest is looked at.
LEMMA AfterHead ==
  ASSUME NEW ts \in SUBSET Tokens, NEW cs \in Seq(Command), cs # <<>>
  PROVE  After(Applied(ts, Head(cs)), Tail(cs)) = After(ts, cs)
<1> DEFINE n == Len(cs)  d == Tail(cs)
<1>1. /\ n \in Nat \ {0} /\ DOMAIN cs = 1..n /\ DOMAIN d = 1..(n-1) /\ Len(d) = n - 1
      /\ \A k \in 1..(n-1) : d[k] = cs[k+1]
      /\ Head(cs) = cs[1] /\ \A k \in 1..n : cs[k] \in Command
  OBVIOUS
<1> HIDE DEF n, d
<1>2. ASSUME NEW t \in Tokens
      PROVE  t \in After(Applied(ts, Head(cs)), d) <=> t \in After(ts, cs)
  <2> DEFINE Untold(j) == t \notin cs[j].of
             Last(k) == cs[k].cmd = "subscribe" /\ t \in cs[k].of /\ \A j \in (k+1)..n : Untold(j)
  <2>1. t \in After(ts, cs) <=> \/ t \in ts /\ \A k \in 1..n : Untold(k)
                                \/ \E k \in 1..n : Last(k)
    BY <1>1 DEF After, n
  <2>2. t \in After(Applied(ts, cs[1]), d) <=>
          \/ t \in Applied(ts, cs[1]) /\ \A k \in 1..(n-1) : t \notin d[k].of
          \/ \E k \in 1..(n-1) : /\ d[k].cmd = "subscribe" /\ t \in d[k].of
                                 /\ \A j \in (k+1)..(n-1) : t \notin d[j].of
    BY <1>1 DEF After
  <2>3. (\A k \in 1..(n-1) : t \notin d[k].of) <=> \A k \in 2..n : Untold(k)
    <3>1. ASSUME \A k \in 1..(n-1) : t \notin d[k].of, NEW k \in 2..n PROVE Untold(k)
      <4>1. k - 1 \in 1..(n-1) /\ d[k-1] = cs[k]
        BY <1>1
      <4> QED
        BY <3>1, <4>1
    <3>2. ASSUME \A k \in 2..n : Untold(k), NEW k \in 1..(n-1) PROVE t \notin d[k].of
      <4>1. k + 1 \in 2..n /\ d[k] = cs[k+1]
        BY <1>1
      <4> QED
        BY <3>2, <4>1
    <3> QED
      BY <3>1, <3>2
  <2>4. (\E k \in 1..(n-1) : /\ d[k].cmd = "subscribe" /\ t \in d[k].of
                             /\ \A j \in (k+1)..(n-1) : t \notin d[j].of)
        <=> \E k \in 2..n : Last(k)
    <3>1. ASSUME NEW k \in 1..(n-1)
          PROVE  (\A j \in (k+1)..(n-1) : t \notin d[j].of)
                   <=> \A j \in (k+2)..n : Untold(j)
      <4>1. ASSUME \A j \in (k+1)..(n-1) : t \notin d[j].of, NEW j \in (k+2)..n
            PROVE  Untold(j)
        <5>1. j - 1 \in (k+1)..(n-1) /\ d[j-1] = cs[j]
          BY <1>1
        <5> QED
          BY <4>1, <5>1
      <4>2. ASSUME \A j \in (k+2)..n : Untold(j), NEW j \in (k+1)..(n-1)
            PROVE  t \notin d[j].of
        <5>1. j + 1 \in (k+2)..n /\ d[j] = cs[j+1]
          BY <1>1
        <5> QED
          BY <4>2, <5>1
      <4> QED
        BY <4>1, <4>2
    <3>2. ASSUME NEW k \in 1..(n-1)
          PROVE  (/\ d[k].cmd = "subscribe" /\ t \in d[k].of
                  /\ \A j \in (k+1)..(n-1) : t \notin d[j].of) <=> Last(k+1)
      <4>1. (k + 1) + 1 = k + 2 /\ d[k] = cs[k+1]
        BY <1>1
      <4> QED
        BY <3>1, <4>1
    <3>3. ASSUME NEW k \in 2..n, Last(k)
          PROVE  \E l \in 1..(n-1) : /\ d[l].cmd = "subscribe" /\ t \in d[l].of
                                     /\ \A j \in (l+1)..(n-1) : t \notin d[j].of
      <4>1. k - 1 \in 1..(n-1) /\ (k - 1) + 1 = k
        BY <1>1
      <4> HIDE DEF Last
      <4>2. Last((k-1) + 1)
        BY <3>3, <4>1
      <4> QED
        BY <3>2, <4>1, <4>2
    <3>4. ASSUME NEW k \in 1..(n-1), Last(k+1) PROVE \E l \in 2..n : Last(l)
      <4>1. k + 1 \in 2..n
        BY <1>1
      <4> HIDE DEF Last
      <4> QED
        BY <3>4, <4>1
    <3> QED
      BY <3>2, <3>3, <3>4
  <2>5. (\E k \in 1..n : Last(k)) <=> (Last(1) \/ \E k \in 2..n : Last(k))
    <3> HIDE DEF Last
    <3>1. 1..n = {1} \cup 2..n
      BY <1>1
    <3> QED
      BY <3>1
  <2>6. (\A k \in 1..n : Untold(k)) <=> (Untold(1) /\ \A k \in 2..n : Untold(k))
    <3> HIDE DEF Untold
    <3>1. 1..n = {1} \cup 2..n
      BY <1>1
    <3> QED
      BY <3>1
  <2>7. Last(1) <=> cs[1].cmd = "subscribe" /\ ~Untold(1) /\ \A k \in 2..n : Untold(k)
    OBVIOUS
  <2>8. t \in Applied(ts, cs[1]) <=> IF cs[1].cmd = "subscribe" THEN t \in ts \/ ~Untold(1)
                                     ELSE t \in ts /\ Untold(1)
    BY DEF Applied
  <2> HIDE DEF Last, Untold
  <2> QED
    BY <1>1, <2>1, <2>2, <2>3, <2>4, <2>5, <2>6, <2>7, <2>8
<1>3. After(Applied(ts, Head(cs)), d) \subseteq Tokens /\ After(ts, cs) \subseteq Tokens
  BY DEF After
<1> QED
  BY <1>2, <1>3 DEF d

\* A command written last is what happens last.
LEMMA AfterAppend ==
  ASSUME NEW ts \in SUBSET Tokens, NEW cs \in Seq(Command), NEW c \in Command
  PROVE  After(ts, Append(cs, c)) = Applied(After(ts, cs), c)
<1> DEFINE n == Len(cs)  d == Append(cs, c)
<1>1. /\ n \in Nat /\ DOMAIN cs = 1..n /\ DOMAIN d = 1..(n+1) /\ Len(d) = n + 1
      /\ \A k \in 1..n : d[k] = cs[k]
      /\ d[n+1] = c
  OBVIOUS
<1> HIDE DEF n, d
<1>2. ASSUME NEW t \in Tokens
      PROVE  t \in After(ts, d) <=> t \in Applied(After(ts, cs), c)
  <2> DEFINE Untold(j) == t \notin d[j].of
             Last(k, m) == d[k].cmd = "subscribe" /\ t \in d[k].of /\ \A j \in (k+1)..m : Untold(j)
  <2>1. t \in After(ts, d) <=> \/ t \in ts /\ \A k \in 1..(n+1) : Untold(k)
                               \/ \E k \in 1..(n+1) : Last(k, n+1)
    BY <1>1 DEF After
  <2>2. t \in After(ts, cs) <=> \/ t \in ts /\ \A k \in 1..n : Untold(k)
                                \/ \E k \in 1..n : Last(k, n)
    <3>1. \A k \in 1..n : \A j \in (k+1)..n : j \in 1..n
      BY <1>1
    <3>2. t \in After(ts, cs) <=>
            \/ t \in ts /\ \A k \in 1..n : t \notin cs[k].of
            \/ \E k \in 1..n : /\ cs[k].cmd = "subscribe" /\ t \in cs[k].of
                               /\ \A j \in (k+1)..n : t \notin cs[j].of
      BY <1>1 DEF After, n
    <3> QED
      BY <1>1, <3>1, <3>2
  <2>3. 1..(n+1) = 1..n \cup {n+1}
    BY <1>1
  <2>4. ASSUME NEW k \in 1..n PROVE Last(k, n+1) <=> Last(k, n) /\ Untold(n+1)
    <3>1. (k+1)..(n+1) = (k+1)..n \cup {n+1}
      BY <1>1
    <3> QED
      BY <3>1
  <2>5. Last(n+1, n+1) <=> c.cmd = "subscribe" /\ ~Untold(n+1)
    <3>1. ((n+1)+1)..(n+1) = {}
      BY <1>1
    <3> QED
      BY <1>1, <3>1
  <2>6. t \in Applied(After(ts, cs), c) <=>
          IF c.cmd = "subscribe" THEN t \in After(ts, cs) \/ ~Untold(n+1)
          ELSE t \in After(ts, cs) /\ Untold(n+1)
    BY <1>1 DEF Applied
  <2> HIDE DEF Last, Untold
  <2> QED
    BY <2>1, <2>2, <2>3, <2>4, <2>5, <2>6
<1>3. After(ts, d) \subseteq Tokens /\ Applied(After(ts, cs), c) \subseteq Tokens
  BY DEF After, Applied, Command
<1> QED
  BY <1>2, <1>3 DEF d

----------------------------------------------------------------------------
(* The type invariant *)

Wires == [state : {"none", "up", "cut", "mute"}, cmds : Seq(Command), lines : Seq(Ticks)]
Clients == [connected : BOOLEAN, running : BOOLEAN, subscribed : SUBSET Tokens, rounds : 0..Rounds]

Received == \E kind \in {"index", "option"} : Receive(kind)

\* The constants are numbers.
LEMMA Numbers ==
  /\ Buffer \in Nat /\ Buffer > 0 /\ Rounds \in Nat /\ Rounds > 0
  /\ MaxFaults \in Nat /\ MaxChanges \in Nat /\ 0 \in 0..Rounds
  OBVIOUS

\* The bus is ticking, the server is up and every connection is empty.
LEMMA InitType == Init => TypeOK
<1> SUFFICES ASSUME Init PROVE TypeOK
  OBVIOUS
<1>1. wire \in Wires /\ client \in Clients /\ Len(wire.lines) = 0
  BY DEF Init, NewWire, Wires, Clients
<1> QED
  <2>1. {up, stalled, silent} \subseteq BOOLEAN
    BY DEF Init
  <2>2. cast = Idle /\ 0 \in 0..Buffer /\ 0 \in 0..MaxFaults /\ 0 \in 0..MaxChanges
    BY Numbers DEF Init
  <2>3. writers \subseteq {"client", "peer"} /\ subs \subseteq Tokens
    BY DEF Init
  <2> QED
    BY <1>1, <2>1, <2>2, <2>3, Numbers DEF Init, TypeOK, Wires, Clients

\* The server writes to a connection only where there is room.
LEMMA ServerType ==
  TypeOK /\ (Accept \/ PeerConnects \/ HandleCommand \/ Send \/ PeerReads \/ Restart) => TypeOK'
<1> SUFFICES ASSUME TypeOK,
                    Accept \/ PeerConnects \/ HandleCommand \/ Send \/ PeerReads \/ Restart
             PROVE  TypeOK'
  OBVIOUS
<1> USE DEF env, server, other
<1>1. CASE Accept
  BY <1>1 DEF TypeOK, Accept
<1>2. CASE PeerConnects
  BY <1>2 DEF TypeOK, PeerConnects
<1>3. CASE HandleCommand
  <2>1. Head(wire.cmds) \in Command /\ Tail(wire.cmds) \in Seq(Command)
    BY <1>3 DEF TypeOK, HandleCommand
  <2>2. subs' \in SUBSET Tokens
    BY <1>3, <2>1, AppliedType DEF TypeOK, HandleCommand
  <2>3. wire' \in Wires /\ wire'.lines = wire.lines
    BY <1>3, <2>1 DEF TypeOK, HandleCommand, Wires
  <2> QED
    BY <1>3, <2>2, <2>3 DEF TypeOK, HandleCommand, Wires
<1>4. ASSUME NEW w \in {"client", "peer"}, Served(w), cast # Idle
      PROVE  /\ cast' \in {Idle} \cup [tick : Ticks, todo : SUBSET {"client", "peer"}]
             /\ cast' # Idle => cast'.todo # {}
  BY <1>4 DEF TypeOK, Served
<1>5. CASE SendToClient
  <2>1. cast # Idle
    BY <1>5 DEF SendToClient, Idle
  <2>2. wire' \in Wires /\ Len(wire'.lines) <= Buffer
    <3>1. CASE UNCHANGED wire
      BY <3>1 DEF TypeOK, Wires
    <3>2. CASE Len(wire.lines) < Buffer /\ wire' = [wire EXCEPT !.lines = Append(@, cast.tick)]
      <4>1. /\ cast.tick \in Ticks /\ wire.lines \in Seq(Ticks)
            /\ wire \in Wires
        BY <2>1 DEF TypeOK, Wires
      <4>2. /\ Append(wire.lines, cast.tick) \in Seq(Ticks)
            /\ Len(Append(wire.lines, cast.tick)) <= Buffer
        BY <3>2, <4>1, Numbers
      <4> QED
        BY <3>2, <4>1, <4>2 DEF Wires
    <3> QED
      BY <1>5, <3>1, <3>2 DEF SendToClient, Room
  <2>3. /\ cast' \in {Idle} \cup [tick : Ticks, todo : SUBSET {"client", "peer"}]
        /\ cast' # Idle => cast'.todo # {}
    BY <1>4, <1>5, <2>1 DEF SendToClient
  <2> QED
    BY <1>5, <2>2, <2>3 DEF TypeOK, SendToClient, Wires
<1>6. CASE SendToPeer
  <2>1. cast # Idle
    BY <1>6 DEF SendToPeer, Idle
  <2>2. /\ cast' \in {Idle} \cup [tick : Ticks, todo : SUBSET {"client", "peer"}]
        /\ cast' # Idle => cast'.todo # {}
    BY <1>4, <1>6, <2>1 DEF SendToPeer
  <2> QED
    BY <1>6, <2>2 DEF TypeOK, SendToPeer, Room
<1>7. CASE PeerReads
  BY <1>7 DEF TypeOK, PeerReads
<1>8. CASE Restart
  BY <1>8 DEF TypeOK, Restart
<1> QED
  BY <1>1, <1>2, <1>3, <1>5, <1>6, <1>7, <1>8 DEF Send

\* A broadcast starts with everyone that is connected still to be served.
LEMMA BroadcastType == ASSUME TypeOK, NEW t \in Ticks, Broadcast(t) PROVE TypeOK'
  BY DEF TypeOK, Broadcast, env, other

\* A subscription of one token, or its end.
LEMMA ChangeType ==
  ASSUME TypeOK, NEW c \in Command, Change(c)
  PROVE  TypeOK'
<1> USE DEF env, server, other
<1>1. client' \in Clients
  BY AppliedType DEF TypeOK, Change, Clients
<1>2. wire' \in Wires /\ wire'.lines = wire.lines
  <2>1. wire \in Wires
    BY DEF TypeOK, Wires
  <2>2. Append(wire.cmds, c) \in Seq(Command)
    BY <2>1 DEF Wires
  <2> QED
    BY <2>1, <2>2 DEF Change, Commanded, Wires
<1>3. changes' \in 0..MaxChanges
  BY DEF TypeOK, Change
<1> QED
  BY <1>1, <1>2, <1>3 DEF TypeOK, Change, Wires, Clients

\* The loop and the heartbeat replace the connection by an empty one.
LEMMA ClientType ==
  TypeOK /\ (Received \/ LoopStep \/ GoSilent \/ BeatStep) => TypeOK'
<1> SUFFICES ASSUME TypeOK, Received \/ LoopStep \/ GoSilent \/ BeatStep PROVE TypeOK'
  OBVIOUS
<1> USE DEF env, server, other
<1>1. NoWire \in Wires /\ Len(NoWire.lines) = 0
  BY DEF NoWire, Wires
<1>2. Connects => /\ wire' \in Wires /\ Len(wire'.lines) = 0
                  /\ writers' \subseteq {"client", "peer"}
  BY NewWireType DEF Connects, Left, TypeOK, Wires
<1>3. CASE Received
  <2>1. wire' \in Wires /\ Len(wire'.lines) <= Buffer
    <3>1. wire \in Wires /\ wire.lines # <<>> /\ Len(wire.lines) <= Buffer
      BY <1>3 DEF TypeOK, Received, Receive, Wires
    <3>2. /\ Tail(wire.lines) \in Seq(Ticks)
          /\ Len(Tail(wire.lines)) <= Buffer
      BY <3>1, Numbers DEF Wires
    <3> QED
      BY <1>3, <3>1, <3>2 DEF Received, Receive, Wires
  <2> QED
    BY <1>3, <2>1 DEF TypeOK, Received, Receive, Wires
<1>4. CASE LoopConnects
  <2>1. client' \in Clients
    <3>1. client \in Clients /\ client.running \in BOOLEAN
      BY DEF TypeOK, Clients
    <3> QED
      BY <1>4, <3>1, Numbers DEF LoopConnects, Clients
  <2> QED
    BY <1>2, <1>4, <2>1 DEF TypeOK, LoopConnects, Wires, Clients
<1>5. CASE LoopConnectFails
  <2>1. client' \in Clients
    <3>1. client \in Clients /\ client.rounds \in 0..Rounds
      BY DEF TypeOK, Clients
    <3>2. (IF client.rounds < Rounds THEN client.rounds + 1 ELSE client.rounds) \in 0..Rounds
      BY <3>1, Numbers
    <3> QED
      BY <1>5, <3>1, <3>2 DEF LoopConnectFails, Clients
  <2> QED
    BY <1>5, <2>1 DEF TypeOK, LoopConnectFails, Clients
<1>6. CASE LoopEof
  <2>1. client' \in Clients
    BY <1>6 DEF TypeOK, LoopEof, Clients
  <2> QED
    BY <1>1, <1>6, <2>1 DEF TypeOK, LoopEof, Wires, Clients
<1>7. CASE LoopStops
  <2>1. client' \in Clients
    BY <1>7 DEF TypeOK, LoopStops, Clients
  <2> QED
    BY <1>7, <2>1 DEF TypeOK, LoopStops, Clients
<1>8. CASE LoopWakes
  BY <1>8 DEF TypeOK, LoopWakes
<1>9. CASE GoSilent
  BY <1>9 DEF TypeOK, GoSilent
<1>10. CASE Disconnect
  <2>1. client' \in Clients
    BY <1>10 DEF TypeOK, Disconnect, Clients
  <2> QED
    BY <1>1, <1>10, <2>1 DEF TypeOK, Disconnect, Left, Wires, Clients
<1>11. CASE Closed
  BY <1>1, <1>11 DEF TypeOK, Closed, Left, Wires
<1>12. CASE ReconnectDone
  <2>1. client' \in Clients
    <3>1. client \in Clients /\ (client.running \/ Revived(loop)) \in BOOLEAN
      BY DEF TypeOK, Clients
    <3> QED
      BY <1>12, <3>1, Numbers DEF ReconnectDone, Clients
  <2>2. {up, stalled, silent}' \subseteq BOOLEAN
    BY <1>12 DEF TypeOK, ReconnectDone
  <2>3. loop' \in {"reading", "stale", "pausing", "connecting", "done"}
    BY <1>12 DEF TypeOK, ReconnectDone
  <2> QED
    BY <1>2, <1>12, <2>1, <2>2, <2>3, Numbers DEF TypeOK, ReconnectDone, Wires, Clients
<1>13. CASE ReconnectFails
  BY <1>13 DEF TypeOK, ReconnectFails
<1> QED
  BY <1>3, <1>4, <1>5, <1>6, <1>7, <1>8, <1>9, <1>10, <1>11, <1>12, <1>13
  DEF LoopStep, BeatStep

\* A fault empties what it breaks.
LEMMA FaultType ==
  TypeOK /\ (Crash \/ Cut \/ Vanish \/ Stall \/ Wake \/ Night \/ Morning) => TypeOK'
<1> SUFFICES ASSUME TypeOK, Crash \/ Cut \/ Vanish \/ Stall \/ Wake \/ Night \/ Morning
             PROVE  TypeOK'
  OBVIOUS
<1> USE DEF env, server, other
<1>1. ASSUME NEW f, Fault(f) PROVE count' \in 0..MaxFaults
  BY <1>1 DEF Fault, TypeOK
<1>2. <<>> \in Seq(Command)
  OBVIOUS
<1>3. ASSUME NEW s \in {"cut", "mute"}
      PROVE  LET w == [wire EXCEPT !.state = s, !.cmds = <<>>]
             IN  w \in Wires /\ w.lines = wire.lines
  BY <1>2 DEF TypeOK, Wires
<1>4. CASE Crash
  BY <1>1, <1>3, <1>4 DEF TypeOK, Crash, Wires
<1>5. ASSUME NEW s \in {"cut", "mute"}, Lose(s), count' \in 0..MaxFaults PROVE TypeOK'
  BY <1>3, <1>5 DEF TypeOK, Lose, Left, Wires
<1>6. CASE Cut
  BY <1>1, <1>5, <1>6 DEF Cut
<1>7. CASE Vanish
  BY <1>1, <1>5, <1>7 DEF Vanish
<1>8. CASE Stall
  BY <1>1, <1>8 DEF TypeOK, Stall
<1>9. CASE Wake
  BY <1>9 DEF TypeOK, Wake
<1>10. CASE Night
  BY <1>1, <1>10 DEF TypeOK, Night
<1>11. CASE Morning
  BY <1>11 DEF TypeOK, Morning
<1> QED
  BY <1>4, <1>6, <1>7, <1>8, <1>9, <1>10, <1>11

\* The commands of subscribe_tokens and unsubscribe_tokens.
LEMMA OneToken ==
  ASSUME NEW t \in Tokens, Subscribe(t) \/ Unsubscribe(t)
  PROVE  \E c \in Command : Change(c)
  BY DEF Subscribe, Unsubscribe, Command

\* Every step keeps the types.
LEMMA TypeStep == TypeOK /\ [Next]_vars => TypeOK'
<1> SUFFICES ASSUME TypeOK, [Next]_vars PROVE TypeOK'
  OBVIOUS
<1>1. CASE UNCHANGED vars
  BY <1>1 DEF TypeOK, vars, env, server, other
<1>2. CASE Next
  BY <1>2, ServerType, BroadcastType, OneToken, ChangeType, ClientType, FaultType DEF Next, Received
<1> QED
  BY <1>1, <1>2

\* Under every fault each variable keeps its type, and neither connection holds
\* more than drain() lets through: SharedFeedClient, GlobalFeeder and FeedServer
\* for every number of tokens, buffer and retry rounds.
THEOREM SharedTypeCorrect == Spec => []TypeOK
  BY InitType, TypeStep, PTL DEF Spec

----------------------------------------------------------------------------
(* The subscription filter *)

\* InSync is inductive with the types: only a connection that works is spoken
\* of, and a connection is only made, or made to work again, by Connects.
SyncInv == TypeOK /\ InSync

\* What the server filters by: a connection it has not accepted asks for nothing.
Filter == IF "client" \in writers THEN subs ELSE {}

\* Nothing of the connection, the filter or the client's set is touched.
LEMMA SyncUntouched ==
  ASSUME InSync, UNCHANGED <<wire, client, subs, writers>>
  PROVE  InSync'
  BY DEF InSync

\* A connection that does not work, or a client that is not connected.
LEMMA SyncBroken ==
  ASSUME ~client'.connected \/ wire'.state # "up"
  PROVE  InSync'
  BY DEF InSync

\* A connection made now: the server has not accepted it, and its commands name
\* the client's whole set.
LEMMA SyncConnects ==
  ASSUME SyncInv, Connects, client'.subscribed = client.subscribed
  PROVE  InSync'
<1>1. client.subscribed \in SUBSET Tokens
  BY DEF SyncInv, TypeOK
<1>2. "client" \notin writers' /\ wire'.cmds = NewWire(client.subscribed).cmds
  BY DEF Connects, Left
<1> QED
  BY <1>1, <1>2, AfterNewWire DEF InSync

\* Nothing is subscribed at first.
LEMMA SyncInit == Init => SyncInv
<1> SUFFICES ASSUME Init PROVE InSync
  BY InitType DEF SyncInv
<1>1. client.subscribed = {} /\ wire.cmds = <<>> /\ "client" \notin writers
  BY DEF Init, NewWire
<1>2. After({}, <<>>) = {}
  BY AfterNone
<1> QED
  BY <1>1, <1>2 DEF InSync

\* The server's own steps: accepting keeps the filter empty, and a command that
\* is handled is one that After has counted.
LEMMA SyncServer ==
  ASSUME SyncInv, Accept \/ PeerConnects \/ HandleCommand \/ Send \/ PeerReads \/ Restart
  PROVE  InSync'
<1> USE DEF env, server, other
<1>1. CASE Accept
  BY <1>1 DEF SyncInv, InSync, Accept
<1>2. CASE PeerConnects
  <2>1. "client" \in writers' <=> "client" \in writers
    BY <1>2 DEF PeerConnects
  <2> QED
    BY <1>2, <2>1 DEF SyncInv, InSync, PeerConnects
<1>3. CASE HandleCommand
  <2>1. /\ subs \in SUBSET Tokens /\ wire.cmds \in Seq(Command) /\ wire.cmds # <<>>
        /\ "client" \in writers /\ writers' = writers /\ client' = client
        /\ subs' = Applied(subs, Head(wire.cmds))
        /\ wire'.cmds = Tail(wire.cmds) /\ wire'.state = wire.state
    BY <1>3 DEF SyncInv, TypeOK, HandleCommand
  <2>2. After(subs', wire'.cmds) = After(subs, wire.cmds)
    BY <2>1, AfterHead
  <2> QED
    BY <2>1, <2>2 DEF SyncInv, InSync
<1>4. CASE SendToClient
  <2>1. /\ wire'.cmds = wire.cmds /\ wire'.state = wire.state
        /\ UNCHANGED <<subs, writers, client>>
    BY <1>4 DEF SyncInv, TypeOK, SendToClient
  <2> QED
    BY <2>1 DEF SyncInv, InSync
<1>5. CASE SendToPeer \/ PeerReads \/ Restart
  BY <1>5, SyncUntouched DEF SyncInv, SendToPeer, PeerReads, Restart
<1> QED
  BY <1>1, <1>2, <1>3, <1>4, <1>5 DEF Send

\* subscribe_tokens and unsubscribe_tokens: what changes in the client's set is
\* written to a connection that works.
LEMMA SyncChange ==
  ASSUME SyncInv, NEW c \in Command, Change(c)
  PROVE  InSync'
<1> USE DEF env, server, other
<1> SUFFICES ASSUME client.connected, wire.state = "up"
             PROVE  After(Filter, wire'.cmds) = client'.subscribed
  BY DEF SyncInv, TypeOK, InSync, Change, Commanded, Filter
<1>1. wire.cmds \in Seq(Command) /\ Filter \in SUBSET Tokens
  BY DEF SyncInv, TypeOK, Filter
<1>2. wire'.cmds = Append(wire.cmds, c) /\ client'.subscribed = Applied(client.subscribed, c)
  BY DEF SyncInv, TypeOK, Change, Commanded
<1>3. After(Filter, wire.cmds) = client.subscribed
  BY DEF SyncInv, InSync, Filter
<1> QED
  BY <1>1, <1>2, <1>3, AfterAppend

\* The client's loop and the heartbeat: they close, or they connect anew.
LEMMA SyncClient ==
  ASSUME SyncInv, Received \/ LoopStep \/ GoSilent \/ BeatStep
  PROVE  InSync'
<1> USE DEF env, server, other
<1>1. NoWire.state # "up"
  BY DEF NoWire
<1>2. CASE Received
  <2>1. /\ wire'.cmds = wire.cmds /\ wire'.state = wire.state
        /\ UNCHANGED <<subs, writers, client>>
    BY <1>2 DEF SyncInv, TypeOK, Received, Receive
  <2> QED
    BY <2>1 DEF SyncInv, InSync
<1>3. CASE LoopConnects
  <2>1. client'.subscribed = client.subscribed
    BY <1>3 DEF SyncInv, TypeOK, LoopConnects
  <2> QED
    BY <1>3, <2>1, SyncConnects DEF LoopConnects
<1>4. CASE LoopConnectFails
  <2>1. /\ client'.subscribed = client.subscribed /\ client'.connected = client.connected
        /\ UNCHANGED <<wire, subs, writers>>
    BY <1>4 DEF SyncInv, TypeOK, LoopConnectFails
  <2> QED
    BY <2>1 DEF SyncInv, InSync
<1>5. CASE LoopEof \/ LoopStops
  <2>1. ~client'.connected
    BY <1>5 DEF SyncInv, TypeOK, LoopEof, LoopStops
  <2> QED
    BY <2>1, SyncBroken
<1>6. CASE LoopWakes \/ GoSilent \/ ReconnectFails
  BY <1>6, SyncUntouched DEF SyncInv, LoopWakes, GoSilent, ReconnectFails
<1>7. CASE Disconnect \/ Closed
  BY <1>1, <1>7, SyncBroken DEF Disconnect, Closed
<1>8. CASE ReconnectDone
  <2>1. client'.subscribed = client.subscribed
    BY <1>8 DEF SyncInv, TypeOK, ReconnectDone
  <2> QED
    BY <1>8, <2>1, SyncConnects DEF ReconnectDone
<1> QED
  BY <1>2, <1>3, <1>4, <1>5, <1>6, <1>7, <1>8 DEF LoopStep, BeatStep

\* A fault that reaches the connection ends it for good.
LEMMA SyncFault ==
  ASSUME SyncInv, Crash \/ Cut \/ Vanish \/ Stall \/ Wake \/ Night \/ Morning
  PROVE  InSync'
<1> USE DEF env, server, other
<1>1. wire \in Wires
  BY DEF SyncInv, TypeOK, Wires
<1>2. CASE Crash \/ Cut \/ Vanish
  <2>1. wire'.state # "up"
    BY <1>1, <1>2 DEF Crash, Cut, Vanish, Lose, Wires
  <2> QED
    BY <2>1, SyncBroken
<1>3. CASE Stall \/ Wake \/ Night \/ Morning
  BY <1>3, SyncUntouched DEF SyncInv, Stall, Wake, Night, Morning
<1> QED
  BY <1>2, <1>3

\* Every step keeps the filter in step with the client.
LEMMA SyncStep == SyncInv /\ [Next]_vars => SyncInv'
<1> SUFFICES ASSUME SyncInv, [Next]_vars PROVE InSync'
  BY TypeStep DEF SyncInv
<1>1. CASE UNCHANGED vars
  BY <1>1, SyncUntouched DEF SyncInv, vars, server
<1>2. ASSUME NEW t \in Ticks, Broadcast(t) PROVE InSync'
  BY <1>2, SyncUntouched DEF SyncInv, Broadcast
<1>3. CASE Next
  BY <1>2, <1>3, SyncServer, OneToken, SyncChange, SyncClient, SyncFault DEF Next, Received
<1> QED
  BY <1>1, <1>3

\* connect, subscribe_tokens, unsubscribe_tokens, FeedServer._handle_command: over
\* a connection that works the server ends up filtering by exactly the client's
\* set, whatever crashes, cuts, reconnections by either task, and changes of the
\* set came before.
THEOREM InSyncTheorem == Spec => []InSync
<1>1. Init => SyncInv
  BY SyncInit
<1>2. SyncInv /\ [Next]_vars => SyncInv'
  BY SyncStep
<1>3. SyncInv => InSync
  BY DEF SyncInv
<1> QED
  BY <1>1, <1>2, <1>3, PTL DEF Spec
=============================================================================
