----------------------------- MODULE StrikeFeed -----------------------------
(***************************************************************************)
(* The option contracts of one NSE index that the market data feed         *)
(* streams: StrikeRebalancer, the subscriptions GlobalFeeder remembers     *)
(* across feed switches, the live provider's socket, GapHandler, and the   *)
(* trap engines that subscribe and pin legs of their own.  A contract is a *)
(* strike (CE and PE go together) and an expiry, in the format of one      *)
(* provider; index ticks are always subscribed.                            *)
(***************************************************************************)
EXTENDS Integers, FiniteSets

CONSTANTS
  Strikes,      \* strikes, by rank
  Atms,         \* at-the-money strikes the market visits
  Depth,        \* chain_depth
  Threshold,    \* _REBALANCE_THRESHOLD
  Engines,      \* trap engines of the underlying
  TrapLegs,     \* what an engine may scan: sets of strikes
  FaultSets,    \* what may happen in one behaviour: sets of
                \*   "switch"    the live feed is switched again
                \*   "drop"      the socket closes and opens again
                \*   "silent"    the socket stops streaming a leg of an engine
                \*   "gap"       the session opens away from its reference
                \*   "pin"       an engine pins the strike it orders
                \*   "straddle"  a straddle holds a leg
                \*   "overnight" the process sees a second session
                \*   "rollover"  the second session has the next expiry
  MaxDay        \* bound: sessions

ASSUME FeedAssumption ==
  /\ Strikes \subseteq Int /\ Atms \subseteq Strikes \ {0}
  /\ TrapLegs \subseteq SUBSET Strikes
  /\ {Depth, Threshold, MaxDay} \subseteq Nat \ {0}

Formats == {"upstox", "fyers"}
Phases == {"pre", "open", "closed"}
Expiries == 1..MaxDay

VARIABLES
  provider,     \* the live provider
  faults,       \* what happens in this behaviour
  day, phase,   \* session, and "pre", "open" or "closed"
  expiry,       \* the registry's current expiry
  spot,         \* the strike nearest to the market
  feed,         \* GlobalFeeder and its socket
  tickQ,        \* the rebalancer's INDEX_TICK queue
  resetQ,       \* a feed switch waits in its SYSTEM_EVENT queue
  gap,          \* GapHandler: reference captured, opening checked
  rebalancer,   \* _UnderlyingState; open_atm is set when current_atm (atm) is
  engine,       \* trap engine: what it has subscribed
  legs          \* strikes of open straddle legs

setup == <<provider, faults>>
market == <<day, phase, expiry, spot>>
vars == <<setup, market, feed, tickQ, resetQ, gap, rebalancer, engine, legs>>

NoAtm == 0
Contracts(f, ks, e) == f \X ks \X {e}
Tokens == Formats \X Strikes \X Expiries
Off == [on |-> FALSE, strikes |-> {}, expiry |-> 1]
Window(a) == {k \in Strikes : k - a \in -Depth..Depth}

Init ==
  /\ provider \in Formats /\ faults \in FaultSets
  /\ day = 1 /\ expiry = 1 /\ phase \in Phases /\ spot \in Atms
  /\ feed = [mode |-> "mock", native |-> FALSE, connected |-> FALSE,
             cached |-> {}, streaming |-> {}]
  /\ tickQ = <<>> /\ resetQ = FALSE
  /\ gap = [ref |-> NoAtm, checked |-> FALSE]
  /\ rebalancer = [atm |-> NoAtm, active |-> {}, pinned |-> {}, eod |-> FALSE]
  /\ engine = [e \in Engines |-> Off]
  /\ legs = {}

----------------------------------------------------------------------------
(* GlobalFeeder and the provider's socket.  Once live, the provider's own list
   of keys is its part of _cached_tokens. *)

\* A provider takes the tokens of its own format.
Mine(ts) == {t \in ts : t[1] = provider}

\* Fault: what was asked for once is never asked for again.
AskedOnce(f, ts, force) == Mine(ts) \ f.cached
\* Upstox asks only for keys it has not asked for; resubscribe_tokens always.
Asked(f, ts, force) == IF provider = "upstox" /\ ~force THEN Mine(ts) \ f.cached ELSE Mine(ts)

\* Fault: a switch of the feed forgets what is subscribed meanwhile.
SubscribedUncached(f, ts, force) ==
  [f EXCEPT !.cached = IF f.mode = "live" THEN @ \cup ts ELSE @,
            !.streaming = @ \cup IF f.connected THEN Asked(f, ts, force) ELSE {}]
Subscribed(f, ts, force) ==
  [f EXCEPT !.cached = @ \cup ts,
            !.streaming = @ \cup IF f.connected THEN Asked(f, ts, force) ELSE {}]

\* Fault: the feeder keeps what it was told to drop.
UnsubscribedOnSocket(f, ts) ==
  [f EXCEPT !.streaming = IF provider = "fyers" /\ f.connected THEN @ \ Mine(ts) ELSE @]
\* Upstox keeps streaming until its next connection: unsubscribing there would
\* drop every subscription.
Unsubscribed(f, ts) ==
  [f EXCEPT !.cached = @ \ ts,
            !.streaming = IF provider = "fyers" /\ f.connected THEN @ \ Mine(ts) ELSE @]

\* start_single, up to the connect: the old feed is stopped and discarded.
SwitchStarts ==
  /\ feed.mode = "mock" \/ (feed.mode = "live" /\ "switch" \in faults)
  /\ feed' = [feed EXCEPT !.mode = "switching", !.connected = FALSE, !.streaming = {}]
  /\ UNCHANGED <<setup, market, tickQ, resetQ, gap, rebalancer, engine, legs>>

\* The rest of it: FEEDER_RESTORED, then _reapply_cached_tokens.
SwitchDone ==
  /\ feed.mode = "switching"
  /\ feed' = [feed EXCEPT !.mode = "live", !.native = TRUE]
  /\ resetQ' = TRUE
  /\ UNCHANGED <<setup, market, tickQ, gap, rebalancer, engine, legs>>

\* on_open asks for every key again.
SocketOpens ==
  /\ feed.mode = "live" /\ ~feed.connected
  /\ feed' = [feed EXCEPT !.connected = TRUE, !.streaming = Mine(feed.cached)]
  /\ UNCHANGED <<setup, market, tickQ, resetQ, gap, rebalancer, engine, legs>>

SocketCloses ==
  /\ "drop" \in faults /\ feed.connected
  /\ feed' = [feed EXCEPT !.connected = FALSE, !.streaming = {}]
  /\ UNCHANGED <<setup, market, tickQ, resetQ, gap, rebalancer, engine, legs>>

\* An engine asks for its legs by their Upstox keys.
LegTokens(e) == Contracts({"upstox"}, engine[e].strikes, engine[e].expiry)

\* "The SDK can silently stop delivering ticks" (resubscribe_tokens).
GoesSilent(t) ==
  /\ "silent" \in faults /\ t \in feed.streaming /\ \E e \in Engines : t \in LegTokens(e)
  /\ feed' = [feed EXCEPT !.streaming = @ \ {t}]
  /\ UNCHANGED <<setup, market, tickQ, resetQ, gap, rebalancer, engine, legs>>

\* An index tick; the mock feeder makes its own prices.
Tick(a) ==
  /\ feed.mode = "mock" \/ (feed.connected /\ a = spot)
  /\ tickQ = <<>>
  /\ tickQ' = <<[atm |-> a, at |-> phase]>>
  /\ UNCHANGED <<setup, market, feed, resetQ, gap, rebalancer, engine, legs>>

----------------------------------------------------------------------------
(* StrikeRebalancer: no feeder yields in subscribe or unsubscribe, so that a
   handler is one step.  enable_chain is called for every index at boot. *)

\* Fault: a single live provider gets the tokens of the primary.
TokensOfPrimary(ks) == IF feed.native THEN Contracts({"upstox"}, ks, expiry) ELSE {}
\* _strikes_to_tokens: both live formats, or the internal one, which no live
\* provider understands.
TokensOf(ks) == IF feed.native THEN Contracts(Formats, ks, expiry) ELSE {}

\* _initial_subscribe: the window and the pins.
ToAnchor(r, a) == Window(a) \cup r.pinned

Anchor(r, a) ==
  /\ feed' = Subscribed(feed, TokensOf(ToAnchor(r, a)), FALSE)
  /\ rebalancer' = [r EXCEPT !.atm = a, !.active = ToAnchor(r, a)]

\* Fault: pins are not kept out of what is dropped.
ToDropPinned(r, a) == r.active \ Window(a)
\* _rebalance: pinned strikes are never in to_unsub.
ToDrop(r, a) == (r.active \ Window(a)) \ r.pinned

Rebalance(r, a) ==
  /\ feed' = Subscribed(Unsubscribed(feed, TokensOf(ToDrop(r, a))),
                        TokensOf(Window(a) \ r.active), FALSE)
  /\ rebalancer' = [r EXCEPT !.atm = a, !.active = (@ \ ToDrop(r, a)) \cup Window(a)]

Drifted(a, b) == a - b >= Threshold \/ b - a >= Threshold

\* _on_tick.  The close is recorded (line 248) before it is tested, so that the
\* unsubscription at the close never runs.
OnTick ==
  /\ tickQ # <<>>
  /\ tickQ' = <<>>
  /\ LET t == tickQ[1]
         r == [rebalancer EXCEPT !.eod = @ \/ t.at = "closed"]
     IN \/ r.atm = NoAtm /\ t.at # "pre" /\ ~r.eod /\ Anchor(r, t.atm)
        \/ r.atm # NoAtm /\ Drifted(t.atm, r.atm) /\ Rebalance(r, t.atm)
        \/ /\ IF r.atm = NoAtm THEN t.at = "pre" \/ r.eod ELSE ~Drifted(t.atm, r.atm)
           /\ rebalancer' = r /\ UNCHANGED feed
  /\ UNCHANGED <<setup, market, resetQ, gap, engine, legs>>

\* _sysevt_loop: a live feed was started.
OnReset ==
  /\ resetQ /\ resetQ' = FALSE
  /\ rebalancer' = [rebalancer EXCEPT !.atm = NoAtm]
  /\ UNCHANGED <<setup, market, feed, tickQ, gap, engine, legs>>

----------------------------------------------------------------------------
(* GapHandler: its state is for one session; nobody calls daily_reset *)

CaptureReference ==
  /\ "gap" \in faults /\ phase = "pre" /\ gap.ref = NoAtm
  /\ gap' = [gap EXCEPT !.ref = spot]
  /\ UNCHANGED <<setup, market, feed, tickQ, resetQ, rebalancer, engine, legs>>

\* The opening check; a gap resets the anchor (_atm_reset_on_gap).
CheckOpening ==
  /\ phase # "pre" /\ gap.ref # NoAtm /\ ~gap.checked
  /\ gap' = [gap EXCEPT !.checked = TRUE]
  /\ rebalancer' = IF spot # gap.ref THEN [rebalancer EXCEPT !.atm = NoAtm] ELSE rebalancer
  /\ UNCHANGED <<setup, market, feed, tickQ, resetQ, engine, legs>>

----------------------------------------------------------------------------
(* Positions.  A fill of the straddle names no strike, so that _fill_loop pins
   nothing for it. *)

\* Fault: a pin alone does not make a strike active.
PinnedAlone(ks) == [rebalancer EXCEPT !.pinned = @ \cup ks]
\* pin_strike
Pinned(ks) == [rebalancer EXCEPT !.pinned = @ \cup ks, !.active = @ \cup ks]

\* _subscribe_instruments, at the end of the morning's initialisation.
EngineStarts(e, ks) ==
  /\ phase = "open" /\ ~engine[e].on /\ engine[e].strikes = {}
  /\ engine' = [engine EXCEPT ![e] = [on |-> TRUE, strikes |-> ks, expiry |-> expiry]]
  /\ rebalancer' = Pinned(ks)
  /\ feed' = Subscribed(feed, LegTokens(e)', FALSE)
  /\ UNCHANGED <<setup, market, tickQ, resetQ, gap, legs>>

\* Every 60 s of index ticks.
Heartbeat(e) ==
  /\ engine[e].on /\ (feed.mode = "mock" \/ feed.connected)
  /\ feed' = Subscribed(feed, LegTokens(e), TRUE)
  /\ feed' # feed
  /\ UNCHANGED <<setup, market, tickQ, resetQ, gap, rebalancer, engine, legs>>

\* _start_entry pins the strike it orders, one in the money; nothing subscribes
\* or unpins it.
PinOrder(e, k) ==
  /\ "pin" \in faults /\ engine[e].on /\ k - spot \in {-1, 1}
  /\ rebalancer' = Pinned({k})
  /\ rebalancer' # rebalancer
  /\ UNCHANGED <<setup, market, feed, tickQ, resetQ, gap, engine, legs>>

\* _unsubscribe_all_legs; what the engine has scanned keeps it off until the
\* next session.
EngineEnds(e) ==
  /\ engine[e].on
  /\ engine' = [engine EXCEPT ![e] = [@ EXCEPT !.on = FALSE]]
  /\ rebalancer' = [rebalancer EXCEPT !.pinned = @ \ engine[e].strikes]
  /\ feed' = Unsubscribed(feed, LegTokens(e))
  /\ UNCHANGED <<setup, market, tickQ, resetQ, gap, legs>>

\* A straddle sells a leg that has a price, and buys it back.
SellLeg(k) ==
  /\ "straddle" \in faults /\ legs = {} /\ k - spot \in -2..2
  /\ <<provider, k, expiry>> \in feed.streaming
  /\ legs' = {k}
  /\ UNCHANGED <<setup, market, feed, tickQ, resetQ, gap, rebalancer, engine>>

BuyLeg ==
  /\ legs # {} /\ legs' = {}
  /\ UNCHANGED <<setup, market, feed, tickQ, resetQ, gap, rebalancer, engine>>

----------------------------------------------------------------------------
(* Market *)

Move(a) ==
  /\ a # spot /\ spot' = a
  /\ UNCHANGED <<setup, day, phase, expiry, feed, tickQ, resetQ, gap, rebalancer, engine, legs>>

\* Engines are squared off before the close.
Clock ==
  /\ \/ phase = "pre" /\ phase' = "open" /\ UNCHANGED <<day, expiry, engine>>
     \/ /\ phase = "open" /\ \A e \in Engines : ~engine[e].on
        /\ phase' = "closed" /\ UNCHANGED <<day, expiry, engine>>
     \/ /\ phase = "closed" /\ "overnight" \in faults /\ day < MaxDay /\ legs = {}
        /\ phase' = "pre" /\ day' = day + 1
        /\ expiry' = IF "rollover" \in faults THEN expiry + 1 ELSE expiry
        /\ engine' = [e \in Engines |-> Off]
  /\ UNCHANGED <<setup, spot, feed, tickQ, resetQ, gap, rebalancer, legs>>

Next ==
  \/ SwitchStarts \/ SwitchDone \/ SocketOpens \/ SocketCloses
  \/ \E t \in Tokens : GoesSilent(t)
  \/ \E a \in Atms : Tick(a) \/ Move(a)
  \/ OnTick \/ OnReset \/ CaptureReference \/ CheckOpening
  \/ \E e \in Engines :
       \/ \E ks \in TrapLegs : EngineStarts(e, ks)
       \/ Heartbeat(e) \/ EngineEnds(e)
       \/ \E k \in Strikes : PinOrder(e, k)
  \/ \E k \in Strikes : SellLeg(k)
  \/ BuyLeg \/ Clock

Spec == Init /\ [][Next]_vars

Ticks == feed.mode = "live" /\ Tick(spot)
\* The loop is fair to the rebalancer's tasks, to a switch in progress and to
\* the socket, which ticks while it is up; engines beat with those ticks.
FairSpec ==
  /\ Spec
  /\ WF_vars(Ticks) /\ WF_vars(OnTick) /\ WF_vars(OnReset)
  /\ WF_vars(SwitchDone) /\ WF_vars(SocketOpens) /\ WF_vars(CheckOpening)
  /\ \A e \in Engines : WF_vars(Heartbeat(e))

----------------------------------------------------------------------------
(* Properties *)

Survives(fs) == faults \cap fs = {}

\* Every variable keeps its type; what the rebalancer asserts of its own state
\* ("pinned_strikes escaped active_strikes") holds.
TypeOK ==
  /\ provider \in Formats /\ faults \in FaultSets
  /\ day \in 1..MaxDay /\ phase \in Phases /\ expiry \in Expiries
  /\ spot \in Atms
  /\ feed \in [mode : {"mock", "switching", "live"}, native : BOOLEAN, connected : BOOLEAN,
               cached : SUBSET Tokens, streaming : SUBSET Tokens]
  /\ tickQ \in {<<>>} \cup {<<t>> : t \in [atm : Atms, at : Phases]}
  /\ resetQ \in BOOLEAN
  /\ gap \in [ref : Atms \cup {NoAtm}, checked : BOOLEAN]
  /\ rebalancer \in [atm : Atms \cup {NoAtm}, active : SUBSET Strikes,
                     pinned : SUBSET Strikes, eod : BOOLEAN]
  /\ rebalancer.pinned \subseteq rebalancer.active
  /\ engine \in [Engines -> [on : BOOLEAN, strikes : SUBSET Strikes, expiry : Expiries]]
  /\ legs \subseteq Strikes

\* "The live data stream for an open contract is never killed regardless of how
\* far the market moves" (strike_rebalancer.py): for the legs a trap engine has
\* pinned, across drift, gaps, switches of the feed and reconnections, on the
\* provider whose keys it asks by.  A second engine on the same legs breaks it.
PinnedStreams ==
  Survives({"silent"}) /\ provider = "upstox" /\ feed.connected =>
    \A e \in Engines : engine[e].on /\ (\A f \in Engines \ {e} : engine[f].strikes = {})
      => LegTokens(e) \subseteq feed.streaming

\* The same of every open contract, as the header says it.
OpenStreams ==
  feed.connected => \A k \in legs : <<provider, k, expiry>> \in feed.streaming

\* A pin counts as subscribed: the legs of an engine are, until it ends, on the
\* provider whose keys it asks by.  A second session finds the strikes of the
\* first tracked, but released or expired, and an anchor that is never set
\* again once it is reset.
LegsUnderstood ==
  Survives({"overnight"}) /\ \A e \in Engines : engine[e].strikes = {} \/ (engine[e].on /\ provider = "upstox")

\* _rebalance, _initial_subscribe and _reapply_cached_tokens: once anchored on
\* a live feed, the window around the anchor is subscribed, and is subscribed
\* again after a switch, before the anchor moves.
WindowCached ==
  feed.native /\ ~resetQ /\ rebalancer.atm # NoAtm
    /\ LegsUnderstood
  => Mine(TokensOf(Window(rebalancer.atm))) \subseteq feed.cached

Untracked ==
  {t \in feed.cached : t[2] \notin rebalancer.active
     /\ \A e \in Engines : engine[e].on => t \notin LegTokens(e)}

\* The WebSocket's symbol limit (global_feeder.py:221): following a drift, the
\* rebalancer leaves no subscription behind that nothing tracks.  Re-anchoring
\* does, and so does a drift that drops strikes of a past expiry.
DriftLeavesNothing ==
  [][Survives({"rollover"}) /\ NoAtm \notin {rebalancer.atm, rebalancer'.atm}
     => Untracked' \subseteq Untracked]_rebalancer

\* The window follows the market: if it settles in an open session with the
\* socket up, its strike ends up streaming, whatever drift, gaps, switches and
\* reconnections came before.
WindowFollows ==
  \A a \in Atms :
    <>[](spot = a /\ phase = "open" /\ feed.connected
         /\ Survives({"silent"}) /\ LegsUnderstood)
    => <>[](<<provider, a, expiry>> \in feed.streaming)

\* resubscribe_tokens, from an engine's heartbeat: a leg that fell silent
\* streams again.
SilenceHeals ==
  \A e \in Engines :
    <>[](engine[e].on /\ feed.connected /\ provider = "upstox")
    => []<>(LegTokens(e) \subseteq feed.streaming)
=============================================================================
