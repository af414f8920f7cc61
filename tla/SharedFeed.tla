----------------------------- MODULE SharedFeed -----------------------------
(***************************************************************************)
(* One feed for many processes: FeedServer broadcasts the ticks of its bus *)
(* over TCP, SharedFeedClient subscribes by symbol and publishes what it   *)
(* reads, GlobalFeeder runs the client and reconnects it when it is        *)
(* silent.  One client is modelled in full, and beside it a second         *)
(* subscriber that only reads.  The server drops a connection as soon as   *)
(* its client has closed it or lost every reference to it.                 *)
(***************************************************************************)
EXTENDS Integers, Sequences, FiniteSets

CONSTANTS
  Instruments,  \* underlyings: what the server filters a tick by
  Tokens,       \* option contracts: what the client's rebalancer subscribes to
  Buffer,       \* lines a connection takes before drain() waits
  Rounds,       \* _FALLBACK_ROUNDS
  FaultSets,    \* what may happen in one behaviour: sets of
                \*   "crash"   the server's process dies and is started again
                \*   "cut"     the connection is reset
                \*   "vanish"  the connection is lost and nobody is told
                \*   "stall"   the other subscriber stops reading for a while
                \*   "night"   no ticks for a while
  MaxFaults,    \* bound: faults in a behaviour
  MaxChanges    \* bound: subscriptions and unsubscriptions

ASSUME SharedAssumption ==
  /\ {Buffer, Rounds} \subseteq Nat \ {0} /\ {MaxFaults, MaxChanges} \subseteq Nat

\* IndexTick and OptionTick, by the underlying they are of.
Ticks == [kind : {"index", "option"}, of : Instruments]

VARIABLES
  faults,    \* what happens in this behaviour
  count,     \* faults so far
  market,    \* ticks arrive on the server's bus
  up,        \* the server runs
  writers,   \* the connections it broadcasts to
  subs,      \* its subscription set of the client
  cast,      \* the tick being broadcast and who is still to get it
  stalled,   \* the other subscriber does not read
  peer,      \* lines in its buffer
  wire,      \* the client's connection: cmds to the server, lines to the client
  client,    \* SharedFeedClient: connected, running, subscribed, _fail_rounds
  loop,      \* where _ws_loop is
  beat,      \* where GlobalFeeder._reconnect is
  silent,    \* no index tick for two heartbeat intervals
  changes    \* subscriptions and unsubscriptions so far

env == <<faults, count, market, changes>>
server == <<up, writers, subs, cast>>
other == <<stalled, peer>>
vars == <<env, server, other, wire, client, loop, beat, silent>>

Idle == [tick |-> [kind |-> "none", of |-> "none"], todo |-> {}]
NoWire == [state |-> "none", cmds |-> <<>>, lines |-> <<>>]

\* Fault: a new connection asks for nothing.
NewWireBlank(ts) == [state |-> "up", cmds |-> <<>>, lines |-> <<>>]
\* A new connection asks again for all that is subscribed.
NewWire(ts) ==
  [state |-> "up", lines |-> <<>>,
   cmds |-> IF ts = {} THEN <<>> ELSE <<[cmd |-> "subscribe", of |-> ts]>>]

Init ==
  /\ faults \in FaultSets /\ count = 0 /\ market = "ticking" /\ changes = 0
  /\ up = TRUE /\ writers = {"peer"} /\ subs = {} /\ cast = Idle
  /\ stalled = FALSE /\ peer = 0
  /\ wire = NewWire({})
  /\ client = [connected |-> TRUE, running |-> TRUE, subscribed |-> {}, rounds |-> 0]
  /\ loop = "reading" /\ beat = "idle" /\ silent = FALSE

----------------------------------------------------------------------------
(* FeedServer *)

\* _handle_client: a new connection is subscribed to nothing, that is to all.
Accept ==
  /\ up /\ wire.state = "up" /\ "client" \notin writers
  /\ writers' = writers \cup {"client"} /\ subs' = {}
  /\ UNCHANGED <<env, up, cast, other, wire, client, loop, beat, silent>>

PeerConnects ==
  /\ up /\ "peer" \notin writers
  /\ writers' = writers \cup {"peer"} /\ peer' = 0
  /\ UNCHANGED <<env, up, subs, cast, stalled, wire, client, loop, beat, silent>>

Applied(ts, c) == IF c.cmd = "subscribe" THEN ts \cup c.of ELSE ts \ c.of

HandleCommand ==
  /\ "client" \in writers /\ wire.cmds # <<>>
  /\ subs' = Applied(subs, Head(wire.cmds))
  /\ wire' = [wire EXCEPT !.cmds = Tail(@)]
  /\ UNCHANGED <<env, up, writers, cast, other, client, loop, beat, silent>>

\* _drain_index_ticks, _drain_option_ticks: one tick at a time.
Broadcast(t) ==
  /\ up /\ market = "ticking" /\ cast = Idle /\ writers # {}
  /\ cast' = [tick |-> t, todo |-> writers]
  /\ UNCHANGED <<env, up, writers, subs, other, wire, client, loop, beat, silent>>

\* "Only send to clients that subscribed to this symbol OR subscribed to everything":
\* an option's tick is compared by its underlying, never by its contract.
Passes(t) == subs = {} \/ t.of \in subs

Served(w) ==
  LET left == cast.todo \ {w} IN
  cast' = IF left = {} THEN Idle ELSE [cast EXCEPT !.todo = left]

\* Fault: what is written is not drained.
RoomAlways(n) == TRUE
Room(n) == n < Buffer

\* write and drain, which waits for room, and with it the broadcast to all.
SendToClient ==
  /\ "client" \in cast.todo
  /\ IF "client" \in writers /\ Passes(cast.tick)
     THEN /\ Room(Len(wire.lines))
          /\ wire' = [wire EXCEPT !.lines = Append(@, cast.tick)]
     ELSE UNCHANGED wire
  /\ Served("client")
  /\ UNCHANGED <<env, up, writers, subs, other, client, loop, beat, silent>>

SendToPeer ==
  /\ "peer" \in cast.todo
  /\ Room(peer) /\ peer' = peer + 1
  /\ Served("peer")
  /\ UNCHANGED <<env, up, writers, subs, stalled, wire, client, loop, beat, silent>>

PeerReads ==
  /\ ~stalled /\ peer > 0 /\ peer' = peer - 1
  /\ UNCHANGED <<env, server, stalled, wire, client, loop, beat, silent>>

\* _remove_writer, when the client's end is gone.
Left == writers \ {"client"}

Restart ==
  /\ ~up /\ up' = TRUE
  /\ UNCHANGED <<env, writers, subs, cast, other, wire, client, loop, beat, silent>>

----------------------------------------------------------------------------
(* SharedFeedClient: subscriptions *)

\* A command written to a connection that is lost is lost.
Commanded(c) ==
  IF client.connected /\ wire.state = "up" THEN [wire EXCEPT !.cmds = Append(@, c)] ELSE wire

Change(c) ==
  /\ changes < MaxChanges /\ changes' = changes + 1
  /\ client' = [client EXCEPT !.subscribed = Applied(@, c)]
  /\ wire' = Commanded(c)
  /\ UNCHANGED <<faults, count, market, server, other, loop, beat, silent>>

Subscribe(t) == Change([cmd |-> "subscribe", of |-> {t}])
Unsubscribe(t) == t \in client.subscribed /\ Change([cmd |-> "unsubscribe", of |-> {t}])

----------------------------------------------------------------------------
(* SharedFeedClient: connect and _ws_loop *)

\* connect(), once the server answers; an older connection has lost its writer.
Connects ==
  /\ up
  /\ wire' = NewWire(client.subscribed)
  /\ writers' = Left

\* A connection opened for a client that was stopped meanwhile is not read, and
\* _read_loop leaves it marked as closed.
LoopConnects ==
  /\ loop = "connecting" /\ Connects
  /\ client' = [client EXCEPT !.connected = client.running, !.rounds = 0]
  /\ loop' = IF client.running THEN "reading" ELSE "done"
  /\ UNCHANGED <<env, up, subs, cast, other, beat, silent>>

\* Three attempts failed: another round, or FEEDER_DOWN.
LoopConnectFails ==
  /\ loop = "connecting" /\ ~up
  /\ client' = [client EXCEPT !.rounds = IF @ < Rounds THEN @ + 1 ELSE @]
  /\ loop' = IF client'.rounds >= Rounds THEN "done" ELSE "pausing"
  /\ UNCHANGED <<env, server, other, wire, beat, silent>>

\* A line goes through the raw queue to the bus of the client's process, where
\* _tick_listener waits for ticks of an index.
Receive(kind) ==
  /\ loop = "reading" /\ wire.lines # <<>> /\ Head(wire.lines).kind = kind
  /\ wire' = [wire EXCEPT !.lines = Tail(@)]
  /\ silent' = (silent /\ kind # "index")
  /\ UNCHANGED <<env, server, other, client, loop, beat>>

LoopEof ==
  /\ loop = "reading" /\ wire.state = "cut" /\ wire.lines = <<>>
  /\ client' = [client EXCEPT !.connected = FALSE]
  /\ wire' = NoWire
  /\ loop' = "pausing"
  /\ UNCHANGED <<env, server, other, beat, silent>>

\* The loop still waits for the connection that disconnect() has closed.
LoopStops ==
  /\ loop = "stale"
  /\ client' = [client EXCEPT !.connected = FALSE]
  /\ loop' = "done"
  /\ UNCHANGED <<env, server, other, wire, beat, silent>>

LoopWakes ==
  /\ loop = "pausing"
  /\ loop' = CASE ~client.running -> "done"
               [] client.running /\ client.connected -> "reading"
               [] OTHER -> "connecting"
  /\ UNCHANGED <<env, server, other, wire, client, beat, silent>>

----------------------------------------------------------------------------
(* GlobalFeeder: _heartbeat and _reconnect *)

\* A connection the server has accepted, and whose commands it has handled.
Established == "client" \in writers /\ wire.cmds = <<>>

\* Sixty seconds: the market is quiet, something on the way is broken, or the
\* server filters every tick out.  A connection settles in less.
Fed ==
  /\ up /\ wire.state = "up" /\ loop = "reading" /\ ~stalled /\ market = "ticking"
  /\ Established => \E t \in Ticks : t.kind = "index" /\ Passes(t)
GoSilent ==
  /\ ~silent /\ ~Fed
  /\ silent' = TRUE
  /\ UNCHANGED <<env, server, other, wire, client, loop, beat>>

Disconnect ==
  /\ beat = "idle" /\ silent
  /\ client' = [client EXCEPT !.connected = FALSE, !.running = FALSE]
  /\ wire' = NoWire /\ writers' = Left
  /\ loop' = IF loop = "reading" THEN "stale" ELSE loop
  /\ beat' = "closing"
  /\ UNCHANGED <<env, up, subs, cast, other, silent>>

\* wait_closed returns: reader and writer are cleared, whosever they are by now.
Closed ==
  /\ beat = "closing" /\ beat' = "connecting"
  /\ wire' = NoWire /\ writers' = Left
  /\ UNCHANGED <<env, up, subs, cast, other, client, loop, silent>>

\* Fault: the new connection is left to the loop that is on its way out.
RevivedNever(l) == FALSE
\* The run loop is started again if its task has ended.
Revived(l) == l = "done"

ReconnectDone ==
  /\ beat = "connecting" /\ Connects
  /\ client' = [client EXCEPT !.connected = TRUE, !.rounds = 0,
                              !.running = @ \/ Revived(loop)]
  /\ loop' = IF Revived(loop) THEN "reading" ELSE loop
  /\ beat' = "idle" /\ silent' = FALSE
  /\ UNCHANGED <<env, up, subs, cast, other>>

ReconnectFails ==
  /\ beat = "connecting" /\ ~up
  /\ beat' = "idle"
  /\ UNCHANGED <<env, server, other, wire, client, loop, silent>>

----------------------------------------------------------------------------
(* Faults *)

Fault(f) == f \in faults /\ count < MaxFaults /\ count' = count + 1

Crash ==
  /\ Fault("crash") /\ up
  /\ up' = FALSE /\ writers' = {} /\ subs' = {} /\ cast' = Idle
  /\ wire' = IF wire.state = "up" THEN [wire EXCEPT !.state = "cut", !.cmds = <<>>] ELSE wire
  /\ UNCHANGED <<faults, market, changes, other, client, loop, beat, silent>>

Lose(state) ==
  /\ wire.state = "up"
  /\ wire' = [wire EXCEPT !.state = state, !.cmds = <<>>]
  /\ writers' = Left
  /\ UNCHANGED <<faults, market, changes, up, subs, cast, other, client, loop, beat, silent>>

Cut == Fault("cut") /\ Lose("cut")
Vanish == Fault("vanish") /\ Lose("mute")

Stall ==
  /\ Fault("stall") /\ ~stalled /\ stalled' = TRUE
  /\ UNCHANGED <<faults, market, changes, server, peer, wire, client, loop, beat, silent>>
Wake ==
  /\ stalled /\ stalled' = FALSE
  /\ UNCHANGED <<env, server, peer, wire, client, loop, beat, silent>>

Night ==
  /\ Fault("night") /\ market = "ticking" /\ market' = "quiet"
  /\ UNCHANGED <<faults, changes, server, other, wire, client, loop, beat, silent>>
Morning ==
  /\ market = "quiet" /\ market' = "ticking"
  /\ UNCHANGED <<faults, count, changes, server, other, wire, client, loop, beat, silent>>

----------------------------------------------------------------------------
Send == SendToClient \/ SendToPeer
LoopStep == LoopConnects \/ LoopConnectFails \/ LoopEof \/ LoopStops \/ LoopWakes
BeatStep == Disconnect \/ Closed \/ ReconnectDone \/ ReconnectFails

Next ==
  \/ Accept \/ PeerConnects \/ HandleCommand \/ Send \/ PeerReads \/ Restart
  \/ \E t \in Ticks : Broadcast(t)
  \/ \E t \in Tokens : Subscribe(t) \/ Unsubscribe(t)
  \/ \E kind \in {"index", "option"} : Receive(kind)
  \/ LoopStep \/ GoSilent \/ BeatStep
  \/ Crash \/ Cut \/ Vanish \/ Stall \/ Wake \/ Night \/ Morning

Spec == Init /\ [][Next]_vars

\* Both event loops serve all their tasks, the market trades again, the server
\* is started again, and time passes.
FairSpec ==
  /\ Spec
  /\ WF_vars(Accept) /\ WF_vars(PeerConnects) /\ WF_vars(HandleCommand)
  /\ \A t \in Ticks : SF_vars(Broadcast(t))
  /\ WF_vars(SendToClient) /\ WF_vars(SendToPeer) /\ WF_vars(PeerReads) /\ WF_vars(Restart)
  /\ WF_vars(\E kind \in {"index", "option"} : Receive(kind)) /\ WF_vars(LoopStep) /\ WF_vars(GoSilent) /\ WF_vars(BeatStep)
  /\ WF_vars(Wake) /\ WF_vars(Morning)

----------------------------------------------------------------------------
(* Properties *)

Command == [cmd : {"subscribe", "unsubscribe"}, of : SUBSET Tokens]

\* Type invariant; no connection ever holds more than its buffer.
TypeOK ==
  /\ faults \in FaultSets /\ count \in 0..MaxFaults /\ changes \in 0..MaxChanges
  /\ market \in {"ticking", "quiet"} /\ {up, stalled, silent} \subseteq BOOLEAN
  /\ writers \subseteq {"client", "peer"} /\ subs \subseteq Tokens
  /\ cast \in {Idle} \cup [tick : Ticks, todo : SUBSET {"client", "peer"}]
  /\ cast # Idle => cast.todo # {}
  /\ peer \in 0..Buffer
  /\ wire \in [state : {"none", "up", "cut", "mute"}, cmds : Seq(Command),
              lines : Seq(Ticks)]
  /\ Len(wire.lines) <= Buffer
  /\ client \in [connected : BOOLEAN, running : BOOLEAN,
                 subscribed : SUBSET Tokens, rounds : 0..Rounds]
  /\ loop \in {"reading", "stale", "pausing", "connecting", "done"}
  /\ beat \in {"idle", "closing", "connecting"}

\* What the server makes of ts once it has handled the commands cs: the last
\* command about a token counts.
After(ts, cs) ==
  {t \in Tokens :
    \/ t \in ts /\ \A k \in DOMAIN cs : t \notin cs[k].of
    \/ \E k \in DOMAIN cs :
         /\ cs[k].cmd = "subscribe" /\ t \in cs[k].of
         /\ \A j \in (k+1)..Len(cs) : t \notin cs[j].of}

\* connect, subscribe_tokens, unsubscribe_tokens: over a connection that works,
\* the server will filter by exactly what the client has subscribed to, whatever
\* was lost with earlier connections or changed while there was none.
InSync ==
  client.connected /\ wire.state = "up" =>
    After(IF "client" \in writers THEN subs ELSE {}, wire.cmds) = client.subscribed

\* The client reads from a connection whose filter is the client's own set.
Joined == loop = "reading" /\ wire.state = "up" /\ Established

\* _ws_loop, _heartbeat, _reconnect: whatever broke, and whoever was reconnecting
\* at the same time, the client is joined again; and index ticks arrive again at
\* a client that ends up subscribed to nothing.  One that keeps a contract
\* subscribed gets none: the server knows ticks by their underlying, so its
\* filter passes no tick and the heartbeat reconnects it for ever.
TicksResume ==
  /\ []<>Joined
  /\ <>[](client.subscribed = {}) => []<><<Receive("index")>>_vars
=============================================================================
