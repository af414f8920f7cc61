-------------------------- MODULE StrikeFeed_proofs --------------------------
(***************************************************************************)
(* The streams that trap engines have pinned, and the window around the    *)
(* anchor, for every set of strikes, market and depth of the chain.        *)
(***************************************************************************)
EXTENDS StrikeFeed, TLAPS

USE FeedAssumption

----------------------------------------------------------------------------
(* The operators of the feed *)

Feeds == [mode : {"mock", "switching", "live"}, native : BOOLEAN, connected : BOOLEAN,
          cached : SUBSET Tokens, streaming : SUBSET Tokens]
Trackers == [atm : Atms \cup {NoAtm}, active : SUBSET Strikes,
             pinned : SUBSET Strikes, eod : BOOLEAN]
Scans == [on : BOOLEAN, strikes : SUBSET Strikes, expiry : Expiries]

\* Tokens are told apart by provider, strike and expiry.
LEMMA ContractParts ==
  ASSUME NEW f \in SUBSET Formats, NEW ks \in SUBSET Strikes, NEW x \in Expiries
  PROVE  /\ Contracts(f, ks, x) \in SUBSET Tokens
         /\ \A t \in Tokens : t \in Contracts(f, ks, x) <=> t[1] \in f /\ t[2] \in ks /\ t[3] = x
         /\ \A t \in Tokens : t[1] \in Formats /\ t[2] \in Strikes /\ t[3] \in Expiries
  BY DEF Contracts, Tokens

\* What the feed is asked for is remembered, and a connected one is asked at once.
LEMMA SubscribedEffect ==
  ASSUME NEW f \in Feeds, NEW ts \in SUBSET Tokens, NEW force \in BOOLEAN
  PROVE  LET g == Subscribed(f, ts, force) IN
         /\ g \in Feeds /\ g.mode = f.mode /\ g.native = f.native /\ g.connected = f.connected
         /\ g.cached = f.cached \cup ts
         /\ f.streaming \subseteq g.streaming
         /\ f.connected => Mine(ts) \ f.cached \subseteq g.streaming
<1> DEFINE g == Subscribed(f, ts, force)
           a == IF f.connected THEN Asked(f, ts, force) ELSE {}
<1>1. a \in SUBSET Tokens /\ (f.connected => Mine(ts) \ f.cached \subseteq a)
  BY DEF Asked, Mine
<1> HIDE DEF a
<1>2. g = [f EXCEPT !.cached = @ \cup ts, !.streaming = @ \cup a]
  BY DEF Subscribed, a
<1> HIDE DEF g
<1>3. g = [mode |-> f.mode, native |-> f.native, connected |-> f.connected,
           cached |-> f.cached \cup ts, streaming |-> f.streaming \cup a]
  BY <1>2 DEF Feeds
<1>4. /\ f.mode \in {"mock", "switching", "live"} /\ f.native \in BOOLEAN
      /\ f.connected \in BOOLEAN /\ f.cached \cup ts \in SUBSET Tokens
      /\ f.streaming \cup a \in SUBSET Tokens
  BY <1>1 DEF Feeds
<1>5. g \in Feeds
  BY <1>3, <1>4, Zenon DEF Feeds
<1> QED
  BY <1>1, <1>3, <1>5 DEF g

\* What the feed is told to drop is forgotten; Upstox goes on streaming it.
LEMMA UnsubscribedEffect ==
  ASSUME NEW f \in Feeds, NEW ts \in SUBSET Tokens
  PROVE  LET g == Unsubscribed(f, ts) IN
         /\ g \in Feeds /\ g.mode = f.mode /\ g.native = f.native /\ g.connected = f.connected
         /\ g.cached = f.cached \ ts
         /\ provider = "upstox" => g.streaming = f.streaming
<1> DEFINE g == Unsubscribed(f, ts)
           s == IF provider = "fyers" /\ f.connected THEN f.streaming \ Mine(ts) ELSE f.streaming
<1>1. f.streaming \in SUBSET Tokens /\ f.cached \in SUBSET Tokens
  BY DEF Feeds
<1>2. s \in SUBSET Tokens /\ (provider = "upstox" => s = f.streaming)
  BY <1>1
<1>3. g = [f EXCEPT !.cached = @ \ ts, !.streaming = s]
  BY DEF Unsubscribed
<1> HIDE DEF g, s
<1>4. g = [mode |-> f.mode, native |-> f.native, connected |-> f.connected,
           cached |-> f.cached \ ts, streaming |-> s]
  BY <1>3 DEF Feeds
<1>5. /\ f.mode \in {"mock", "switching", "live"} /\ f.native \in BOOLEAN
      /\ f.connected \in BOOLEAN /\ f.cached \ ts \in SUBSET Tokens
  BY <1>1 DEF Feeds
<1>6. g \in Feeds
  BY <1>2, <1>4, <1>5, Zenon DEF Feeds
<1> QED
  BY <1>2, <1>4, <1>6 DEF g

----------------------------------------------------------------------------
(* Types *)

FeedType == TypeOK /\ expiry <= day

\* The tokens the rebalancer and the engines ask for are tokens.
LEMMA AskedTypes ==
  ASSUME TypeOK
  PROVE  /\ \A ks \in SUBSET Strikes : TokensOf(ks) \in SUBSET Tokens
         /\ \A e \in Engines : /\ LegTokens(e) \in SUBSET Tokens
                               /\ engine[e] \in Scans
         /\ \A a \in Atms : Window(a) \in SUBSET Strikes
         /\ feed \in Feeds /\ rebalancer \in Trackers
<1>1. expiry \in Expiries
  BY DEF TypeOK
<1>2. ASSUME NEW ks \in SUBSET Strikes PROVE TokensOf(ks) \in SUBSET Tokens
  BY <1>1, ContractParts DEF TokensOf
<1>3. ASSUME NEW e \in Engines PROVE LegTokens(e) \in SUBSET Tokens /\ engine[e] \in Scans
  <2>1. engine[e] \in Scans
    BY DEF TypeOK, Scans
  <2>2. engine[e].strikes \in SUBSET Strikes /\ engine[e].expiry \in Expiries
        /\ {"upstox"} \in SUBSET Formats
    BY <2>1 DEF Scans, Formats
  <2> QED
    BY <2>1, <2>2, ContractParts DEF LegTokens
<1> QED
  BY <1>2, <1>3 DEF Window, TypeOK, Feeds, Trackers

\* A tick, a reset and a pin move the rebalancer within its records.
LEMMA TrackerType ==
  /\ \A a \in Atms \cup {NoAtm}, s, p \in SUBSET Strikes, b \in BOOLEAN :
       [atm |-> a, active |-> s, pinned |-> p, eod |-> b] \in Trackers
  /\ \A r \in Trackers : /\ r.atm \in Atms \cup {NoAtm} /\ r.active \in SUBSET Strikes
                         /\ r.pinned \in SUBSET Strikes /\ r.eod \in BOOLEAN
  BY Zenon DEF Trackers

\* An anchor subscribes its window and the pins.
LEMMA AnchorEffect ==
  ASSUME TypeOK, NEW r \in Trackers, NEW a \in Atms, Anchor(r, a)
  PROVE  /\ feed' \in Feeds /\ feed'.mode = feed.mode /\ feed'.native = feed.native
         /\ feed'.connected = feed.connected
         /\ feed'.cached = feed.cached \cup TokensOf(Window(a) \cup r.pinned)
         /\ feed.streaming \subseteq feed'.streaming
         /\ feed.connected =>
              Mine(TokensOf(Window(a) \cup r.pinned)) \ feed.cached \subseteq feed'.streaming
         /\ rebalancer' \in Trackers /\ rebalancer'.atm = a
         /\ rebalancer'.active = Window(a) \cup r.pinned
         /\ rebalancer'.pinned = r.pinned /\ rebalancer'.eod = r.eod
<1> DEFINE ks == Window(a) \cup r.pinned
           ts == TokensOf(ks)
<1>1. ks \in SUBSET Strikes /\ ts \in SUBSET Tokens /\ feed \in Feeds /\ FALSE \in BOOLEAN
  BY AskedTypes, TrackerType
<1>2. feed' = Subscribed(feed, ts, FALSE) /\ rebalancer' = [r EXCEPT !.atm = a, !.active = ks]
  BY DEF Anchor, ToAnchor
<1> HIDE DEF ks, ts
<1>3. rebalancer' = [atm |-> a, active |-> ks, pinned |-> r.pinned, eod |-> r.eod]
  BY <1>2 DEF Trackers
<1>4. rebalancer' \in Trackers
  BY <1>1, <1>3, TrackerType
<1>5. /\ feed' \in Feeds /\ feed'.mode = feed.mode /\ feed'.native = feed.native
      /\ feed'.connected = feed.connected
      /\ feed'.cached = feed.cached \cup ts
      /\ feed.streaming \subseteq feed'.streaming
      /\ feed.connected => Mine(ts) \ feed.cached \subseteq feed'.streaming
  BY <1>1, <1>2, SubscribedEffect
<1> QED
  BY <1>3, <1>4, <1>5 DEF ks, ts

\* A drift drops what is neither in the window nor pinned and subscribes the rest
\* of the window.
LEMMA RebalanceEffect ==
  ASSUME TypeOK, NEW r \in Trackers, NEW a \in Atms, Rebalance(r, a)
  PROVE  LET drop == TokensOf(ToDrop(r, a))
             new  == TokensOf(Window(a) \ r.active) IN
         /\ ToDrop(r, a) \in SUBSET Strikes /\ drop \in SUBSET Tokens /\ new \in SUBSET Tokens
         /\ feed' \in Feeds /\ feed'.mode = feed.mode /\ feed'.native = feed.native
         /\ feed'.connected = feed.connected
         /\ feed'.cached = (feed.cached \ drop) \cup new
         /\ provider = "upstox" => feed.streaming \subseteq feed'.streaming
         /\ feed.connected => Mine(new) \ (feed.cached \ drop) \subseteq feed'.streaming
         /\ rebalancer' \in Trackers /\ rebalancer'.atm = a
         /\ rebalancer'.active = (r.active \ ToDrop(r, a)) \cup Window(a)
         /\ rebalancer'.pinned = r.pinned /\ rebalancer'.eod = r.eod
<1> DEFINE ks == ToDrop(r, a)
           drop == TokensOf(ks)
           new == TokensOf(Window(a) \ r.active)
           left == (r.active \ ks) \cup Window(a)
           f == Unsubscribed(feed, drop)
<1>1. /\ ks \in SUBSET Strikes /\ left \in SUBSET Strikes
      /\ drop \in SUBSET Tokens /\ new \in SUBSET Tokens
      /\ feed \in Feeds /\ FALSE \in BOOLEAN
  <2>1. Window(a) \in SUBSET Strikes /\ r.active \in SUBSET Strikes
    BY AskedTypes, TrackerType
  <2>2. ks \in SUBSET Strikes /\ left \in SUBSET Strikes /\ Window(a) \ r.active \in SUBSET Strikes
    BY <2>1 DEF ToDrop
  <2> QED
    BY <2>2, AskedTypes
<1>2. /\ feed' = Subscribed(f, new, FALSE)
      /\ rebalancer' = [r EXCEPT !.atm = a, !.active = left]
  BY DEF Rebalance
<1> HIDE DEF drop, new, left, ks
<1>3. rebalancer' = [atm |-> a, active |-> left, pinned |-> r.pinned, eod |-> r.eod]
  BY <1>2 DEF Trackers
<1>4. rebalancer' \in Trackers
  BY <1>1, <1>3, TrackerType
<1>5. /\ f \in Feeds /\ f.mode = feed.mode /\ f.native = feed.native
      /\ f.connected = feed.connected /\ f.cached = feed.cached \ drop
      /\ provider = "upstox" => f.streaming = feed.streaming
  BY <1>1, UnsubscribedEffect
<1> HIDE DEF f
<1>6. /\ feed' \in Feeds /\ feed'.mode = f.mode /\ feed'.native = f.native
      /\ feed'.connected = f.connected
      /\ feed'.cached = f.cached \cup new
      /\ f.streaming \subseteq feed'.streaming
      /\ f.connected => Mine(new) \ f.cached \subseteq feed'.streaming
  BY <1>1, <1>2, <1>5, SubscribedEffect
<1> QED
  BY <1>1, <1>3, <1>4, <1>5, <1>6 DEF drop, new, left, ks

\* A pin makes its strikes active.
LEMMA PinnedEffect ==
  ASSUME TypeOK, NEW ks \in SUBSET Strikes, rebalancer' = Pinned(ks)
  PROVE  /\ rebalancer' \in Trackers /\ rebalancer'.atm = rebalancer.atm
         /\ rebalancer'.active = rebalancer.active \cup ks
         /\ rebalancer'.pinned = rebalancer.pinned \cup ks
         /\ rebalancer'.eod = rebalancer.eod
<1> DEFINE r == rebalancer
           act == r.active \cup ks
           pin == r.pinned \cup ks
<1>1. r \in Trackers /\ act \in SUBSET Strikes /\ pin \in SUBSET Strikes
  BY AskedTypes, TrackerType
<1>2. rebalancer' = [r EXCEPT !.pinned = pin, !.active = act]
  BY DEF Pinned
<1> HIDE DEF act, pin
<1>3. rebalancer' = [atm |-> r.atm, active |-> act, pinned |-> pin, eod |-> r.eod]
  BY <1>1, <1>2 DEF Trackers
<1>4. rebalancer' \in Trackers
  BY <1>1, <1>3, TrackerType
<1> QED
  BY <1>3, <1>4 DEF act, pin

\* Handling a tick anchors, follows a drift or leaves the feed alone.
LEMMA TickCases ==
  ASSUME TypeOK, OnTick
  PROVE  \E r \in Trackers, a \in Atms :
           /\ r.atm = rebalancer.atm /\ r.active = rebalancer.active
           /\ r.pinned = rebalancer.pinned
           /\ \/ r.atm = NoAtm /\ Anchor(r, a)
              \/ r.atm # NoAtm /\ Rebalance(r, a)
              \/ rebalancer' = r /\ feed' = feed
<1> DEFINE t == tickQ[1]
           b == rebalancer.eod \/ t.at = "closed"
           r == [rebalancer EXCEPT !.eod = b]
<1>1. t \in [atm : Atms, at : Phases]
  <2>1. PICK u \in [atm : Atms, at : Phases] : tickQ = <<u>>
    BY DEF TypeOK, OnTick
  <2> QED
    BY <2>1
<1>2. t.atm \in Atms
  BY <1>1
<1>3. \/ r.atm = NoAtm /\ Anchor(r, t.atm)
      \/ r.atm # NoAtm /\ Rebalance(r, t.atm)
      \/ rebalancer' = r /\ feed' = feed
  BY DEF OnTick
<1>4. rebalancer \in Trackers /\ b \in BOOLEAN
  BY AskedTypes, TrackerType
<1> HIDE DEF t, b, r
<1>5. r = [atm |-> rebalancer.atm, active |-> rebalancer.active,
           pinned |-> rebalancer.pinned, eod |-> b]
  BY <1>4 DEF r, Trackers
<1>6. r \in Trackers
  BY <1>4, <1>5, TrackerType
<1>7. r.atm = rebalancer.atm /\ r.active = rebalancer.active /\ r.pinned = rebalancer.pinned
  BY <1>5
<1> QED
  BY <1>2, <1>3, <1>6, <1>7

\* An engine that starts or ends, and no other, changes.
LEMMA EngineEffect ==
  ASSUME TypeOK, NEW e \in Engines
  PROVE  /\ \A ks \in TrapLegs : EngineStarts(e, ks) =>
              /\ ks \in SUBSET Strikes
              /\ engine' \in [Engines -> Scans]
              /\ engine'[e].on /\ engine'[e].strikes = ks /\ engine'[e].expiry = expiry
              /\ \A f \in Engines : f # e => engine'[f] = engine[f]
              /\ LegTokens(e)' = Contracts({"upstox"}, ks, expiry)
         /\ EngineEnds(e) =>
              /\ engine' \in [Engines -> Scans]
              /\ ~engine'[e].on /\ engine'[e].strikes = engine[e].strikes
              /\ engine'[e].expiry = engine[e].expiry
              /\ \A f \in Engines : f # e => engine'[f] = engine[f]
<1>1. engine \in [Engines -> Scans] /\ expiry \in Expiries
  BY DEF TypeOK, Scans
<1>2. ASSUME NEW ks \in TrapLegs, EngineStarts(e, ks)
      PROVE  /\ ks \in SUBSET Strikes
             /\ engine' \in [Engines -> Scans]
             /\ engine'[e].on /\ engine'[e].strikes = ks /\ engine'[e].expiry = expiry
             /\ \A f \in Engines : f # e => engine'[f] = engine[f]
             /\ LegTokens(e)' = Contracts({"upstox"}, ks, expiry)
  <2> DEFINE x == [on |-> TRUE, strikes |-> ks, expiry |-> expiry]
  <2>1. ks \in SUBSET Strikes
    OBVIOUS
  <2>2. x \in Scans /\ x.on /\ x.strikes = ks /\ x.expiry = expiry
    BY <1>1, <2>1 DEF Scans
  <2>3. engine' = [engine EXCEPT ![e] = x]
    BY <1>2 DEF EngineStarts
  <2> HIDE DEF x
  <2>4. /\ engine' \in [Engines -> Scans] /\ engine'[e] = x
        /\ \A f \in Engines : f # e => engine'[f] = engine[f]
    BY <1>1, <2>2, <2>3
  <2>5. LegTokens(e)' = Contracts({"upstox"}, ks, expiry)
    BY <2>2, <2>4 DEF LegTokens
  <2> QED
    BY <2>1, <2>2, <2>4, <2>5
<1>3. ASSUME EngineEnds(e)
      PROVE  /\ engine' \in [Engines -> Scans]
             /\ ~engine'[e].on /\ engine'[e].strikes = engine[e].strikes
             /\ engine'[e].expiry = engine[e].expiry
             /\ \A f \in Engines : f # e => engine'[f] = engine[f]
  <2> DEFINE o == engine[e]
             x == engine'[e]
  <2>1. /\ x = [o EXCEPT !.on = FALSE] /\ engine' = [engine EXCEPT ![e] = x]
        /\ \A f \in Engines : f # e => engine'[f] = engine[f]
    BY <1>1, <1>3 DEF EngineEnds
  <2>2. o \in Scans
    BY <1>1
  <2> HIDE DEF o, x
  <2>3. x = [on |-> FALSE, strikes |-> o.strikes, expiry |-> o.expiry]
    BY <2>1, <2>2 DEF Scans
  <2>4. o.strikes \in SUBSET Strikes /\ o.expiry \in Expiries /\ FALSE \in BOOLEAN
    BY <2>2 DEF Scans
  <2>5. x \in Scans
    BY <2>3, <2>4 DEF Scans
  <2>6. ~x.on /\ x.strikes = o.strikes /\ x.expiry = o.expiry
    BY <2>3
  <2>7. engine' \in [Engines -> Scans]
    BY <1>1, <2>1, <2>5
  <2> QED
    BY <2>1, <2>6, <2>7 DEF o, x
<1> QED
  BY <1>2, <1>3

\* The feed of an engine that starts, beats or ends.
LEMMA EngineFeed ==
  ASSUME TypeOK, NEW e \in Engines
  PROVE  /\ \A ks \in TrapLegs : EngineStarts(e, ks) =>
              LET ts == Contracts({"upstox"}, ks, expiry) IN
              /\ ts \in SUBSET Tokens
              /\ feed' \in Feeds /\ feed'.native = feed.native
              /\ feed'.connected = feed.connected /\ feed'.cached = feed.cached \cup ts
              /\ feed.streaming \subseteq feed'.streaming
              /\ feed.connected => Mine(ts) \ feed.cached \subseteq feed'.streaming
         /\ Heartbeat(e) =>
              LET ts == LegTokens(e) IN
              /\ feed' \in Feeds /\ feed'.native = feed.native
              /\ feed'.connected = feed.connected /\ feed'.cached = feed.cached \cup ts
              /\ feed.streaming \subseteq feed'.streaming
              /\ feed.connected => Mine(ts) \ feed.cached \subseteq feed'.streaming
         /\ EngineEnds(e) =>
              /\ feed' \in Feeds /\ feed'.native = feed.native
              /\ feed'.connected = feed.connected
              /\ feed'.cached = feed.cached \ LegTokens(e)
              /\ provider = "upstox" => feed'.streaming = feed.streaming
<1>1. feed \in Feeds /\ LegTokens(e) \in SUBSET Tokens /\ TRUE \in BOOLEAN /\ FALSE \in BOOLEAN
  BY AskedTypes
<1>2. ASSUME NEW ks \in TrapLegs, EngineStarts(e, ks)
      PROVE  LET ts == Contracts({"upstox"}, ks, expiry) IN
             /\ ts \in SUBSET Tokens
             /\ feed' \in Feeds /\ feed'.native = feed.native
             /\ feed'.connected = feed.connected /\ feed'.cached = feed.cached \cup ts
             /\ feed.streaming \subseteq feed'.streaming
             /\ feed.connected => Mine(ts) \ feed.cached \subseteq feed'.streaming
  <2> DEFINE ts == Contracts({"upstox"}, ks, expiry)
  <2>1. ts \in SUBSET Tokens
    <3>1. ks \in SUBSET Strikes /\ {"upstox"} \in SUBSET Formats /\ expiry \in Expiries
      BY DEF Formats, TypeOK
    <3> QED
      BY <3>1, ContractParts
  <2>2. LegTokens(e)' = ts
    BY <1>2, EngineEffect
  <2>3. feed' = Subscribed(feed, ts, FALSE)
    BY <1>2, <2>2 DEF EngineStarts
  <2> HIDE DEF ts
  <2>4. /\ feed' \in Feeds /\ feed'.native = feed.native
        /\ feed'.connected = feed.connected /\ feed'.cached = feed.cached \cup ts
        /\ feed.streaming \subseteq feed'.streaming
        /\ feed.connected => Mine(ts) \ feed.cached \subseteq feed'.streaming
    BY <1>1, <2>1, <2>3, SubscribedEffect
  <2> QED
    BY <2>1, <2>4 DEF ts
<1>3. ASSUME Heartbeat(e)
      PROVE  LET ts == LegTokens(e) IN
             /\ feed' \in Feeds /\ feed'.native = feed.native
             /\ feed'.connected = feed.connected /\ feed'.cached = feed.cached \cup ts
             /\ feed.streaming \subseteq feed'.streaming
             /\ feed.connected => Mine(ts) \ feed.cached \subseteq feed'.streaming
  <2>1. feed' = Subscribed(feed, LegTokens(e), TRUE)
    BY <1>3 DEF Heartbeat
  <2> QED
    BY <1>1, <2>1, SubscribedEffect
<1>4. ASSUME EngineEnds(e)
      PROVE  /\ feed' \in Feeds /\ feed'.native = feed.native
             /\ feed'.connected = feed.connected
             /\ feed'.cached = feed.cached \ LegTokens(e)
             /\ provider = "upstox" => feed'.streaming = feed.streaming
  <2>1. feed' = Unsubscribed(feed, LegTokens(e))
    BY <1>4 DEF EngineEnds
  <2> QED
    BY <1>1, <2>1, UnsubscribedEffect
<1> QED
  BY <1>2, <1>3, <1>4

\* A switch and the socket keep what is subscribed.
LEMMA SocketEffect ==
  ASSUME TypeOK,
         \/ SwitchStarts \/ SwitchDone \/ SocketOpens \/ SocketCloses
         \/ \E t \in Tokens : GoesSilent(t)
  PROVE  /\ feed' \in Feeds /\ feed'.cached = feed.cached
         /\ \/ feed'.native = feed.native /\ resetQ' = resetQ
            \/ feed'.native = TRUE /\ resetQ' = TRUE
         /\ \/ ~feed'.connected
            \/ feed'.streaming = Mine(feed.cached)
            \/ "silent" \in faults
            \/ feed'.connected = feed.connected /\ feed'.streaming = feed.streaming
         /\ UNCHANGED <<setup, market, tickQ, gap, rebalancer, engine, legs>>
<1> USE DEF setup, market
<1>1. feed \in Feeds
  BY AskedTypes
<1>2. Mine(feed.cached) \in SUBSET Tokens
  BY <1>1 DEF Mine, Feeds
<1>3. CASE SwitchStarts
  BY <1>1, <1>3 DEF SwitchStarts, Feeds
<1>4. CASE SwitchDone
  BY <1>1, <1>4 DEF SwitchDone, Feeds
<1>5. CASE SocketOpens
  <2>1. feed' = [feed EXCEPT !.connected = TRUE, !.streaming = Mine(feed.cached)]
    BY <1>5 DEF SocketOpens
  <2>2. /\ feed' \in Feeds /\ feed'.cached = feed.cached /\ feed'.native = feed.native
        /\ feed'.streaming = Mine(feed.cached)
    BY <1>1, <1>2, <2>1 DEF Feeds
  <2> QED
    BY <1>5, <2>2 DEF SocketOpens
<1>6. CASE SocketCloses
  BY <1>1, <1>6 DEF SocketCloses, Feeds
<1>7. ASSUME NEW t \in Tokens, GoesSilent(t)
      PROVE  /\ feed' \in Feeds /\ feed'.cached = feed.cached /\ feed'.native = feed.native
             /\ "silent" \in faults
             /\ UNCHANGED <<setup, market, tickQ, resetQ, gap, rebalancer, engine, legs>>
  BY <1>1, <1>7 DEF GoesSilent, Feeds
<1> QED
  BY <1>3, <1>4, <1>5, <1>6, <1>7

----------------------------------------------------------------------------

\* Every step keeps the types.
LEMMA FeedTypeStep == FeedType /\ [Next]_vars => FeedType'
<1> SUFFICES ASSUME FeedType, [Next]_vars PROVE FeedType'
  OBVIOUS
<1> USE DEF setup, market
<1>1. /\ TypeOK /\ expiry <= day /\ feed \in Feeds /\ rebalancer \in Trackers
      /\ engine \in [Engines -> Scans] /\ rebalancer.pinned \subseteq rebalancer.active
  BY AskedTypes DEF FeedType, TypeOK, Scans
<1>2. \A r \in Trackers : r \in [atm : Atms \cup {NoAtm}, active : SUBSET Strikes,
                                pinned : SUBSET Strikes, eod : BOOLEAN]
  BY DEF Trackers
<1>3. CASE UNCHANGED vars
  BY <1>3 DEF vars, FeedType, TypeOK
<1>4. CASE \/ SwitchStarts \/ SwitchDone \/ SocketOpens \/ SocketCloses
           \/ \E t \in Tokens : GoesSilent(t)
  <2>1. /\ feed' \in Feeds /\ resetQ' \in {TRUE, resetQ}
        /\ UNCHANGED <<setup, market, tickQ, gap, rebalancer, engine, legs>>
    BY <1>1, <1>4, SocketEffect
  <2> QED
    BY <2>1 DEF FeedType, TypeOK, Feeds
<1>5. ASSUME NEW a \in Atms, Tick(a) PROVE FeedType'
  <2>1. [atm |-> a, at |-> phase] \in [atm : Atms, at : Phases]
    BY <1>1 DEF TypeOK
  <2> QED
    BY <1>5, <2>1 DEF Tick, FeedType, TypeOK
<1>6. ASSUME NEW a \in Atms, Move(a) PROVE FeedType'
  BY <1>6 DEF Move, FeedType, TypeOK
<1>7. CASE OnTick
  <2>1. PICK r \in Trackers, a \in Atms :
           /\ r.active = rebalancer.active /\ r.pinned = rebalancer.pinned
           /\ Anchor(r, a) \/ Rebalance(r, a) \/ (rebalancer' = r /\ feed' = feed)
    BY <1>1, <1>7, TickCases
  <2>2. /\ feed' \in Feeds /\ rebalancer' \in Trackers
        /\ rebalancer'.pinned \subseteq rebalancer'.active
    <3>1. CASE Anchor(r, a)
      BY <1>1, <3>1, AnchorEffect
    <3>2. CASE Rebalance(r, a)
      <4>1. /\ rebalancer'.active = (r.active \ ToDrop(r, a)) \cup Window(a)
            /\ rebalancer'.pinned = r.pinned /\ rebalancer' \in Trackers /\ feed' \in Feeds
        BY <1>1, <3>2, RebalanceEffect
      <4>2. r.pinned \subseteq r.active \ ToDrop(r, a)
        BY <1>1, <2>1 DEF ToDrop
      <4> QED
        BY <4>1, <4>2
    <3> QED
      BY <1>1, <2>1, <3>1, <3>2
  <2>3. tickQ' = <<>> /\ UNCHANGED <<setup, market, resetQ, gap, engine, legs>>
    BY <1>7 DEF OnTick
  <2> QED
    BY <2>2, <2>3 DEF FeedType, TypeOK, Feeds, Trackers
<1>8. CASE OnReset
  <2>1. rebalancer' = [rebalancer EXCEPT !.atm = NoAtm] /\ resetQ' = FALSE
    BY <1>8 DEF OnReset
  <2>2. rebalancer' \in Trackers /\ rebalancer'.pinned \subseteq rebalancer'.active
    BY <1>1, <2>1 DEF Trackers
  <2> QED
    BY <1>8, <2>1, <2>2 DEF OnReset, FeedType, TypeOK, Trackers
<1>9. CASE CaptureReference
  <2>1. gap' \in [ref : Atms \cup {NoAtm}, checked : BOOLEAN]
    BY <1>1, <1>9 DEF CaptureReference, TypeOK
  <2> QED
    BY <1>9, <2>1 DEF CaptureReference, FeedType, TypeOK
<1>10. CASE CheckOpening
  <2>1. gap' \in [ref : Atms \cup {NoAtm}, checked : BOOLEAN]
    BY <1>1, <1>10 DEF CheckOpening, TypeOK
  <2>2. rebalancer' = [rebalancer EXCEPT !.atm = NoAtm] \/ rebalancer' = rebalancer
    BY <1>10 DEF CheckOpening
  <2>3. rebalancer' \in Trackers /\ rebalancer'.pinned \subseteq rebalancer'.active
    BY <1>1, <2>2 DEF Trackers
  <2> QED
    BY <1>10, <2>1, <2>3 DEF CheckOpening, FeedType, TypeOK, Trackers
<1>11. ASSUME NEW e \in Engines, NEW ks \in TrapLegs, EngineStarts(e, ks) PROVE FeedType'
  <2>1. feed' \in Feeds /\ engine' \in [Engines -> Scans] /\ ks \in SUBSET Strikes
    BY <1>1, <1>11, EngineFeed, EngineEffect
  <2>2. rebalancer' \in Trackers /\ rebalancer'.pinned \subseteq rebalancer'.active
    BY <1>1, <1>11, <2>1, PinnedEffect DEF EngineStarts
  <2> QED
    BY <1>11, <2>1, <2>2 DEF EngineStarts, FeedType, TypeOK, Feeds, Trackers, Scans
<1>12. ASSUME NEW e \in Engines, Heartbeat(e) PROVE FeedType'
  <2>1. feed' \in Feeds
    BY <1>1, <1>12, EngineFeed
  <2> QED
    BY <1>12, <2>1 DEF Heartbeat, FeedType, TypeOK, Feeds
<1>13. ASSUME NEW e \in Engines, NEW k \in Strikes, PinOrder(e, k) PROVE FeedType'
  <2>1. {k} \in SUBSET Strikes /\ rebalancer' = Pinned({k})
    BY <1>13 DEF PinOrder
  <2>2. rebalancer' \in Trackers /\ rebalancer'.pinned \subseteq rebalancer'.active
    BY <1>1, <2>1, PinnedEffect
  <2> QED
    BY <1>13, <2>2 DEF PinOrder, FeedType, TypeOK, Trackers
<1>14. ASSUME NEW e \in Engines, EngineEnds(e) PROVE FeedType'
  <2>1. feed' \in Feeds /\ engine' \in [Engines -> Scans]
    BY <1>1, <1>14, EngineFeed, EngineEffect
  <2>2. rebalancer' \in Trackers /\ rebalancer'.pinned \subseteq rebalancer'.active
    <3> DEFINE left == rebalancer.pinned \ engine[e].strikes
    <3>1. rebalancer' = [rebalancer EXCEPT !.pinned = left]
      BY <1>14 DEF EngineEnds
    <3>2. left \subseteq rebalancer.pinned
      OBVIOUS
    <3> HIDE DEF left
    <3> QED
      BY <1>1, <3>1, <3>2 DEF Trackers
  <2> QED
    BY <1>14, <2>1, <2>2 DEF EngineEnds, FeedType, TypeOK, Feeds, Trackers, Scans
<1>15. ASSUME NEW k \in Strikes, SellLeg(k) PROVE FeedType'
  BY <1>15 DEF SellLeg, FeedType, TypeOK
<1>16. CASE BuyLeg
  BY <1>16 DEF BuyLeg, FeedType, TypeOK
<1>17. CASE Clock
  <2>1. UNCHANGED <<setup, spot, feed, tickQ, resetQ, gap, rebalancer, legs>>
    BY <1>17 DEF Clock
  <2>2. /\ phase' \in Phases /\ day' \in 1..MaxDay /\ expiry' \in Expiries /\ expiry' <= day'
    <3>1. day \in 1..MaxDay /\ expiry \in 1..MaxDay /\ MaxDay \in Nat
      BY <1>1 DEF TypeOK, Expiries
    <3>2. /\ phase' \in Phases
          /\ \/ day' = day /\ expiry' = expiry
             \/ day < MaxDay /\ day' = day + 1 /\ (expiry' = expiry \/ expiry' = expiry + 1)
      BY <1>17 DEF Clock, Phases
    <3> QED
      BY <1>1, <3>1, <3>2 DEF Expiries
  <2>3. engine' \in [Engines -> Scans]
    <3>1. Off \in Scans
      BY DEF Off, Scans, Expiries
    <3>2. engine' = engine \/ engine' = [e \in Engines |-> Off]
      BY <1>17 DEF Clock
    <3> QED
      BY <1>1, <3>1, <3>2
  <2> QED
    BY <2>1, <2>2, <2>3 DEF FeedType, TypeOK, Scans
<1> QED
  BY <1>3, <1>4, <1>5, <1>6, <1>7, <1>8, <1>9, <1>10, <1>11, <1>12, <1>13, <1>14, <1>15,
     <1>16, <1>17 DEF Next

\* The initial states are typed.
LEMMA FeedTypeInit == Init => FeedType
<1> SUFFICES ASSUME Init PROVE FeedType
  OBVIOUS
<1>1. 1 \in Expiries /\ 1 \in 1..MaxDay
  BY DEF Expiries
<1>2. feed \in Feeds /\ rebalancer \in Trackers /\ engine \in [Engines -> Scans]
  BY <1>1 DEF Init, Feeds, Trackers, Scans, Off
<1>3. /\ rebalancer.pinned \subseteq rebalancer.active
      /\ tickQ \in {<<>>} \cup {<<t>> : t \in [atm : Atms, at : Phases]}
      /\ gap \in [ref : Atms \cup {NoAtm}, checked : BOOLEAN]
  BY DEF Init
<1>4. day = 1 /\ expiry = 1 /\ resetQ = FALSE /\ legs = {}
  BY DEF Init
<1>5. /\ provider \in Formats /\ faults \in FaultSets /\ phase \in Phases /\ spot \in Atms
  BY DEF Init
<1>6. day \in 1..MaxDay /\ expiry \in Expiries /\ expiry <= day
  BY <1>1, <1>4
<1>7. resetQ \in BOOLEAN /\ legs \subseteq Strikes
  BY <1>4
<1> QED
  BY <1>2, <1>3, <1>5, <1>6, <1>7 DEF FeedType, TypeOK, Feeds, Trackers, Scans

\* Whatever the market, the feeds and the engines do: the feed remembers and
\* streams contracts, and what the rebalancer asserts of its own state, that no
\* pinned strike escapes the active ones, holds.
THEOREM FeedTypeCorrect == Spec => []TypeOK
<1>1. FeedType => TypeOK
  BY DEF FeedType
<1> QED
  BY <1>1, FeedTypeInit, FeedTypeStep, PTL DEF Spec

----------------------------------------------------------------------------
(* The legs of an engine *)

\* No other engine has scanned anything this session.
Sole(e) == \A f \in Engines \ {e} : engine[f].strikes = {}

\* The legs of the only engine are pinned and remembered by the feeder.
Kept ==
  \A e \in Engines : engine[e].on /\ Sole(e) =>
    /\ engine[e].strikes \subseteq rebalancer.pinned
    /\ LegTokens(e) \subseteq feed.cached

\* The socket of Upstox streams all that is remembered.
Live ==
  Survives({"silent"}) /\ provider = "upstox" /\ feed.connected
    => Mine(feed.cached) \subseteq feed.streaming

PinInv == FeedType /\ Kept /\ Live

\* What is subscribed is streamed, too.
LEMMA LiveGrows ==
  ASSUME Live, NEW ts, feed'.cached \subseteq feed.cached \cup ts,
         feed'.connected => feed.connected,
         provider = "upstox" => feed.streaming \subseteq feed'.streaming,
         provider = "upstox" /\ feed.connected => Mine(ts) \ feed.cached \subseteq feed'.streaming,
         UNCHANGED setup
  PROVE  Live'
<1> SUFFICES ASSUME Survives({"silent"}), provider = "upstox", feed'.connected,
                    NEW t \in Mine(feed.cached \cup ts)
             PROVE  t \in feed'.streaming
  BY DEF Live, Survives, Mine, setup
<1>1. feed.connected /\ Mine(feed.cached) \subseteq feed.streaming
  BY DEF Live
<1>2. t \in Mine(feed.cached) \/ t \in Mine(ts) \ feed.cached
  BY DEF Mine
<1> QED
  BY <1>1, <1>2

\* The engines stay: their legs are kept if no strike is unpinned and none of
\* their tokens is dropped.
LEMMA KeptGrows ==
  ASSUME Kept, engine' = engine, rebalancer.pinned \subseteq rebalancer'.pinned,
         \A e \in Engines : engine[e].strikes \subseteq rebalancer.pinned =>
           \A t \in LegTokens(e) : t \in feed.cached => t \in feed'.cached
  PROVE  Kept'
<1> SUFFICES ASSUME NEW e \in Engines, engine[e].on, Sole(e)
             PROVE  /\ engine[e].strikes \subseteq rebalancer'.pinned
                    /\ LegTokens(e) \subseteq feed'.cached
  BY DEF Kept, Sole, LegTokens
<1> QED
  BY DEF Kept

\* Every step keeps the pinned legs remembered and streaming.
LEMMA PinStep == PinInv /\ [Next]_vars => PinInv'
<1> SUFFICES ASSUME PinInv, [Next]_vars PROVE PinInv'
  OBVIOUS
<1> USE DEF setup, market
<1>1. /\ FeedType' /\ TypeOK /\ Kept /\ Live /\ feed \in Feeds /\ rebalancer \in Trackers
      /\ engine \in [Engines -> Scans]
  BY FeedTypeStep, AskedTypes DEF PinInv, FeedType, TypeOK, Scans
<1>2. SUFFICES Kept' /\ Live'
  BY <1>1 DEF PinInv
<1>3. ASSUME UNCHANGED <<setup, feed, engine>>, rebalancer.pinned \subseteq rebalancer'.pinned
      PROVE  Kept' /\ Live'
  BY <1>1, <1>3, KeptGrows DEF Live, Survives, Mine
<1>4. CASE UNCHANGED vars
  BY <1>3, <1>4 DEF vars
<1>5. CASE \/ SwitchStarts \/ SwitchDone \/ SocketOpens \/ SocketCloses
           \/ \E t \in Tokens : GoesSilent(t)
  <2>1. /\ feed'.cached = feed.cached
        /\ \/ ~feed'.connected
           \/ feed'.streaming = Mine(feed.cached)
           \/ "silent" \in faults
           \/ feed'.connected = feed.connected /\ feed'.streaming = feed.streaming
        /\ UNCHANGED <<setup, rebalancer, engine>>
    BY <1>1, <1>5, SocketEffect
  <2>2. Kept'
    BY <1>1, <2>1, KeptGrows
  <2>3. Live'
    BY <1>1, <2>1 DEF Live, Survives, Mine
  <2> QED
    BY <2>2, <2>3
<1>6. ASSUME NEW a \in Atms, Tick(a) \/ Move(a) PROVE Kept' /\ Live'
  BY <1>3, <1>6 DEF Tick, Move
<1>7. CASE OnTick
  <2>1. PICK r \in Trackers, a \in Atms :
           /\ r.active = rebalancer.active /\ r.pinned = rebalancer.pinned
           /\ Anchor(r, a) \/ Rebalance(r, a) \/ (rebalancer' = r /\ feed' = feed)
    BY <1>1, <1>7, TickCases
  <2>2. UNCHANGED <<setup, engine>>
    BY <1>7 DEF OnTick
  <2>3. CASE Anchor(r, a)
    <3> DEFINE ts == TokensOf(Window(a) \cup r.pinned)
    <3>1. /\ feed'.connected = feed.connected /\ feed'.cached = feed.cached \cup ts
          /\ feed.streaming \subseteq feed'.streaming
          /\ feed.connected => Mine(ts) \ feed.cached \subseteq feed'.streaming
          /\ rebalancer'.pinned = r.pinned
      BY <1>1, <2>3, AnchorEffect
    <3> HIDE DEF ts
    <3>2. Kept'
      BY <1>1, <2>1, <2>2, <3>1, KeptGrows
    <3>3. Live'
      BY <1>1, <2>2, <3>1, LiveGrows
    <3> QED
      BY <3>2, <3>3
  <2>4. CASE Rebalance(r, a)
    <3> DEFINE drop == TokensOf(ToDrop(r, a))
               new == TokensOf(Window(a) \ r.active)
    <3>1. /\ drop \in SUBSET Tokens /\ ToDrop(r, a) \in SUBSET Strikes
          /\ feed'.connected = feed.connected /\ feed'.cached = (feed.cached \ drop) \cup new
          /\ provider = "upstox" => feed.streaming \subseteq feed'.streaming
          /\ feed.connected => Mine(new) \ (feed.cached \ drop) \subseteq feed'.streaming
          /\ rebalancer'.pinned = r.pinned
      BY <1>1, <2>4, RebalanceEffect
    <3>2. ASSUME NEW e \in Engines, engine[e].strikes \subseteq rebalancer.pinned,
                 NEW t \in LegTokens(e), t \in feed.cached
          PROVE  t \in feed'.cached
      <4>1. engine[e].strikes \in SUBSET Strikes /\ engine[e].expiry \in Expiries
            /\ {"upstox"} \in SUBSET Formats
        BY <1>1 DEF Scans, Formats
      <4>2. t \in Tokens /\ t[2] \in engine[e].strikes
        BY <3>2, <4>1, ContractParts DEF LegTokens
      <4>3. t[2] \notin ToDrop(r, a)
        BY <2>1, <3>2, <4>2 DEF ToDrop
      <4>4. t \notin drop
        <5>1. expiry \in Expiries /\ Formats \in SUBSET Formats
          BY <1>1 DEF TypeOK
        <5> QED
          BY <3>1, <4>2, <4>3, <5>1, ContractParts DEF TokensOf
      <4> QED
        BY <3>1, <3>2, <4>4
    <3> HIDE DEF drop, new
    <3>3. Kept'
      BY <1>1, <2>1, <2>2, <3>1, <3>2, KeptGrows
    <3>4. Live'
      <4>1. feed'.cached \subseteq feed.cached \cup new
        BY <3>1
      <4>2. provider = "upstox" /\ feed.connected => Mine(new) \ feed.cached \subseteq feed'.streaming
        BY <3>1
      <4> QED
        BY <1>1, <2>2, <3>1, <4>1, <4>2, LiveGrows
    <3> QED
      BY <3>3, <3>4
  <2> QED
    BY <1>3, <2>1, <2>2, <2>3, <2>4
<1>8. CASE OnReset \/ CaptureReference \/ CheckOpening
  <2>1. rebalancer' = [rebalancer EXCEPT !.atm = NoAtm] \/ rebalancer' = rebalancer
    BY <1>8 DEF OnReset, CaptureReference, CheckOpening
  <2>2. rebalancer'.pinned = rebalancer.pinned
    BY <1>1, <2>1 DEF Trackers
  <2> QED
    BY <1>3, <1>8, <2>2 DEF OnReset, CaptureReference, CheckOpening
<1>9. ASSUME NEW e \in Engines, NEW ks \in TrapLegs, EngineStarts(e, ks) PROVE Kept' /\ Live'
  <2> DEFINE ts == Contracts({"upstox"}, ks, expiry)
  <2>1. /\ feed'.connected = feed.connected /\ feed'.cached = feed.cached \cup ts
        /\ feed.streaming \subseteq feed'.streaming
        /\ feed.connected => Mine(ts) \ feed.cached \subseteq feed'.streaming
    BY <1>1, <1>9, EngineFeed
  <2>2. /\ engine'[e].strikes = ks /\ LegTokens(e)' = ts /\ ks \in SUBSET Strikes
        /\ \A f \in Engines : f # e => engine'[f] = engine[f]
    BY <1>1, <1>9, EngineEffect
  <2>3. rebalancer'.pinned = rebalancer.pinned \cup ks
    BY <1>1, <1>9, <2>2, PinnedEffect DEF EngineStarts
  <2>4. UNCHANGED setup /\ engine[e].strikes = {}
    BY <1>9 DEF EngineStarts
  <2> HIDE DEF ts
  <2>5. Live'
    BY <1>1, <2>1, <2>4, LiveGrows
  <2>6. Kept'
    <3> SUFFICES ASSUME NEW f \in Engines, engine'[f].on, Sole(f)'
                 PROVE  /\ engine'[f].strikes \subseteq rebalancer'.pinned
                        /\ LegTokens(f)' \subseteq feed'.cached
      BY DEF Kept
    <3>1. CASE f = e
      BY <2>1, <2>2, <2>3, <3>1
    <3>2. CASE f # e
      <4>1. LegTokens(f)' = LegTokens(f) /\ engine'[f] = engine[f]
        BY <2>2, <3>2 DEF LegTokens
      <4>2. Sole(f)
        BY <2>2, <2>4 DEF Sole
      <4> QED
        BY <1>1, <2>1, <2>3, <4>1, <4>2 DEF Kept
    <3> QED
      BY <3>1, <3>2
  <2> QED
    BY <2>5, <2>6
<1>10. ASSUME NEW e \in Engines, Heartbeat(e) PROVE Kept' /\ Live'
  <2>1. /\ feed'.connected = feed.connected /\ feed'.cached = feed.cached \cup LegTokens(e)
        /\ feed.streaming \subseteq feed'.streaming
        /\ feed.connected => Mine(LegTokens(e)) \ feed.cached \subseteq feed'.streaming
    BY <1>1, <1>10, EngineFeed
  <2>2. UNCHANGED <<setup, rebalancer, engine>>
    BY <1>10 DEF Heartbeat
  <2>3. Live'
    BY <1>1, <2>1, <2>2, LiveGrows
  <2>4. Kept'
    BY <1>1, <2>1, <2>2, KeptGrows
  <2> QED
    BY <2>3, <2>4
<1>11. ASSUME NEW e \in Engines, NEW k \in Strikes, PinOrder(e, k) PROVE Kept' /\ Live'
  <2>1. {k} \in SUBSET Strikes /\ rebalancer' = Pinned({k})
    BY <1>11 DEF PinOrder
  <2>2. rebalancer.pinned \subseteq rebalancer'.pinned
    BY <1>1, <2>1, PinnedEffect
  <2> QED
    BY <1>3, <1>11, <2>2 DEF PinOrder
<1>12. ASSUME NEW e \in Engines, EngineEnds(e) PROVE Kept' /\ Live'
  <2>1. /\ feed'.connected = feed.connected /\ feed'.cached = feed.cached \ LegTokens(e)
        /\ provider = "upstox" => feed'.streaming = feed.streaming
    BY <1>1, <1>12, EngineFeed
  <2>2. /\ ~engine'[e].on /\ engine'[e].strikes = engine[e].strikes
        /\ \A f \in Engines : f # e => engine'[f] = engine[f]
    BY <1>1, <1>12, EngineEffect
  <2>3. /\ UNCHANGED setup
        /\ rebalancer' = [rebalancer EXCEPT !.pinned = rebalancer.pinned \ engine[e].strikes]
    BY <1>12 DEF EngineEnds
  <2>4. rebalancer'.pinned = rebalancer.pinned \ engine[e].strikes
    BY <1>1, <2>3 DEF Trackers
  <2>5. Live'
    BY <1>1, <2>1, <2>3 DEF Live, Survives, Mine
  <2>6. Kept'
    <3> SUFFICES ASSUME NEW f \in Engines, engine'[f].on, Sole(f)'
                 PROVE  /\ engine'[f].strikes \subseteq rebalancer'.pinned
                        /\ LegTokens(f)' \subseteq feed'.cached
      BY DEF Kept
    <3>1. f # e /\ engine'[f] = engine[f] /\ LegTokens(f)' = LegTokens(f)
      BY <2>2 DEF LegTokens
    <3>2. Sole(f) /\ engine[e].strikes = {}
      BY <2>2, <3>1 DEF Sole
    <3>3. LegTokens(e) = {}
      BY <3>2 DEF LegTokens, Contracts
    <3> QED
      BY <1>1, <2>1, <2>4, <3>1, <3>2, <3>3 DEF Kept
  <2> QED
    BY <2>5, <2>6
<1>13. ASSUME NEW k \in Strikes, SellLeg(k) PROVE Kept' /\ Live'
  BY <1>3, <1>13 DEF SellLeg
<1>14. CASE BuyLeg
  BY <1>3, <1>14 DEF BuyLeg
<1>15. CASE Clock
  <2>1. UNCHANGED <<setup, feed, rebalancer>> /\ (engine' = engine \/ engine' = [e \in Engines |-> Off])
    BY <1>15 DEF Clock
  <2>2. CASE engine' = engine
    BY <1>3, <2>1, <2>2
  <2>3. CASE engine' = [e \in Engines |-> Off]
    <3>1. Kept'
      BY <2>3 DEF Kept, Off
    <3>2. Live'
      BY <1>1, <2>1 DEF Live, Survives, Mine
    <3> QED
      BY <3>1, <3>2
  <2> QED
    BY <2>1, <2>2, <2>3
<1> QED
  BY <1>4, <1>5, <1>6, <1>7, <1>8, <1>9, <1>10, <1>11, <1>12, <1>13, <1>14, <1>15 DEF Next

\* "The live data stream for an open contract is never killed regardless of how
\* far the market moves": for the legs of the only trap engine that scans, and on
\* the provider whose keys it asks by, whatever the strikes, the market, the
\* switches and the reconnections.
THEOREM PinnedStreamsTheorem == Spec => []PinnedStreams
<1>1. Init => PinInv
  BY FeedTypeInit DEF Init, PinInv, Kept, Live, Off
<1>2. PinInv => PinnedStreams
  <2> SUFFICES ASSUME PinInv, Survives({"silent"}), provider = "upstox", feed.connected,
                      NEW e \in Engines, engine[e].on, Sole(e)
               PROVE  LegTokens(e) \subseteq feed.streaming
    BY DEF PinnedStreams, Sole
  <2>1. LegTokens(e) \subseteq feed.cached /\ Mine(feed.cached) \subseteq feed.streaming
    BY DEF PinInv, Kept, Live
  <2>2. \A t \in LegTokens(e) : t[1] = "upstox"
    BY DEF LegTokens, Contracts
  <2> QED
    BY <2>1, <2>2 DEF Mine
<1> QED
  BY <1>1, <1>2, PinStep, PTL DEF Spec

----------------------------------------------------------------------------
(* What a drift leaves behind *)

\* Until a live feed has started, only engines have subscribed; and until the
\* contracts roll over, only one expiry is subscribed.
DriftInv ==
  /\ FeedType
  /\ phase # "open" => \A e \in Engines : ~engine[e].on
  /\ ~feed.native => \A t \in feed.cached : \E e \in Engines : engine[e].on /\ t \in LegTokens(e)
  /\ Survives({"rollover"}) =>
       /\ expiry = 1 /\ \A e \in Engines : engine[e].expiry = 1
       /\ \A t \in feed.cached : t[3] = 1

\* An engine's legs are of its expiry.
LEMMA LegParts ==
  ASSUME TypeOK, NEW e \in Engines
  PROVE  \A t \in Tokens : t \in LegTokens(e) <=> /\ t[1] = "upstox" /\ t[2] \in engine[e].strikes
                                                 /\ t[3] = engine[e].expiry
<1>1. engine[e] \in Scans
  BY AskedTypes
<1>2. engine[e].strikes \in SUBSET Strikes /\ engine[e].expiry \in Expiries
      /\ {"upstox"} \in SUBSET Formats
  BY <1>1 DEF Scans, Formats
<1> QED
  BY <1>2, ContractParts DEF LegTokens

\* The rebalancer asks for tokens of both providers, once the feed is live.
LEMMA TokensOfParts ==
  ASSUME TypeOK, NEW ks \in SUBSET Strikes
  PROVE  /\ \A t \in Tokens : t \in TokensOf(ks) <=> feed.native /\ t[2] \in ks /\ t[3] = expiry
         /\ TokensOf(ks) \in SUBSET Tokens
<1>1. expiry \in Expiries /\ Formats \in SUBSET Formats
  BY DEF TypeOK
<1> QED
  BY <1>1, ContractParts DEF TokensOf

\* What a handled tick leaves of the subscriptions.
LEMMA TickCached ==
  ASSUME TypeOK, OnTick
  PROVE  /\ feed'.native = feed.native
         /\ \A t \in feed'.cached : t \in feed.cached \/ (feed.native /\ t \in Tokens /\ t[3] = expiry)
         /\ rebalancer.atm # NoAtm =>
              \A t \in feed'.cached :
                \/ t[2] \in rebalancer'.active
                \/ t \in feed.cached /\ t[2] \notin rebalancer.active
                \/ ~feed.native \/ t[3] # expiry
<1>1. PICK r \in Trackers, a \in Atms :
        /\ r.atm = rebalancer.atm /\ r.active = rebalancer.active
        /\ r.pinned = rebalancer.pinned
        /\ \/ r.atm = NoAtm /\ Anchor(r, a)
           \/ r.atm # NoAtm /\ Rebalance(r, a)
           \/ rebalancer' = r /\ feed' = feed
  BY TickCases
<1>2. feed \in Feeds /\ Window(a) \in SUBSET Strikes /\ feed.cached \in SUBSET Tokens
      /\ r.active \in SUBSET Strikes /\ r.pinned \in SUBSET Strikes
  BY AskedTypes, TrackerType DEF Feeds
<1>3. CASE r.atm = NoAtm /\ Anchor(r, a)
  <2>1. /\ feed'.native = feed.native
        /\ feed'.cached = feed.cached \cup TokensOf(Window(a) \cup r.pinned)
    BY <1>3, AnchorEffect
  <2>2. Window(a) \cup r.pinned \in SUBSET Strikes
    BY <1>2
  <2> QED
    BY <1>1, <1>3, <2>1, <2>2, TokensOfParts
<1>4. CASE r.atm # NoAtm /\ Rebalance(r, a)
  <2> DEFINE ks == ToDrop(r, a)
             new == Window(a) \ r.active
  <2>1. /\ feed'.native = feed.native /\ ks \in SUBSET Strikes
        /\ feed'.cached = (feed.cached \ TokensOf(ks)) \cup TokensOf(new)
        /\ rebalancer'.active = (r.active \ ks) \cup Window(a)
    BY <1>4, RebalanceEffect
  <2>2. new \in SUBSET Strikes /\ new \subseteq Window(a)
    BY <1>2
  <2> HIDE DEF ks, new
  <2> QED
    BY <1>1, <1>2, <2>1, <2>2, TokensOfParts
<1>5. CASE rebalancer' = r /\ feed' = feed
  BY <1>1, <1>5
<1> QED
  BY <1>1, <1>3, <1>4, <1>5

\* Every step keeps account of who has subscribed.
LEMMA DriftStep == DriftInv /\ [Next]_vars => DriftInv'
<1> SUFFICES ASSUME DriftInv, [Next]_vars PROVE DriftInv'
  OBVIOUS
<1> USE DEF setup, market
<1>1. /\ FeedType' /\ TypeOK /\ feed \in Feeds /\ rebalancer \in Trackers
      /\ engine \in [Engines -> Scans]
  BY FeedTypeStep, AskedTypes DEF DriftInv, FeedType, TypeOK, Scans
<1>2. ASSUME UNCHANGED <<faults, phase, expiry, engine>>, feed'.cached \subseteq feed.cached,
             feed'.native = feed.native \/ feed'.native = TRUE
      PROVE  DriftInv'
  BY <1>1, <1>2 DEF DriftInv, Survives, LegTokens
<1>3. CASE UNCHANGED vars
  BY <1>2, <1>3 DEF vars
<1>4. CASE \/ SwitchStarts \/ SwitchDone \/ SocketOpens \/ SocketCloses
           \/ \E t \in Tokens : GoesSilent(t)
  BY <1>1, <1>2, <1>4, SocketEffect
<1>5. ASSUME NEW a \in Atms, Tick(a) \/ Move(a) PROVE DriftInv'
  BY <1>2, <1>5 DEF Tick, Move
<1>6. CASE OnTick
  <2>1. /\ feed'.native = feed.native
        /\ \A t \in feed'.cached : t \in feed.cached \/ (feed.native /\ t[3] = expiry)
    BY <1>1, <1>6, TickCached
  <2>2. UNCHANGED <<faults, phase, expiry, engine>>
    BY <1>6 DEF OnTick
  <2> QED
    BY <1>1, <2>1, <2>2 DEF DriftInv, Survives, LegTokens
<1>7. CASE OnReset \/ CaptureReference \/ CheckOpening
  BY <1>2, <1>7 DEF OnReset, CaptureReference, CheckOpening
<1>8. ASSUME NEW e \in Engines, NEW ks \in TrapLegs, EngineStarts(e, ks) PROVE DriftInv'
  <2> DEFINE ts == Contracts({"upstox"}, ks, expiry)
  <2>1. feed'.native = feed.native /\ feed'.cached = feed.cached \cup ts /\ ts \in SUBSET Tokens
    BY <1>1, <1>8, EngineFeed
  <2>2. /\ engine'[e].on /\ engine'[e].expiry = expiry /\ LegTokens(e)' = ts
        /\ \A f \in Engines : f # e => engine'[f] = engine[f]
        /\ ks \in SUBSET Strikes
    BY <1>1, <1>8, EngineEffect
  <2>3. UNCHANGED <<faults, phase, expiry>> /\ phase = "open" /\ ~engine[e].on
    BY <1>8 DEF EngineStarts
  <2>4. \A t \in ts : t[3] = expiry
    <3>1. {"upstox"} \in SUBSET Formats /\ expiry \in Expiries
      BY <1>1 DEF Formats, TypeOK
    <3>2. ks \in SUBSET Strikes
      BY <2>2
    <3>3. \A t \in Tokens : t \in ts => t[3] = expiry
      BY ONLY <3>1, <3>2, ContractParts
    <3> HIDE DEF ts
    <3> QED
      BY <2>1, <3>3
  <2> HIDE DEF ts
  <2>5. ASSUME ~feed.native, NEW t \in feed'.cached
        PROVE  \E f \in Engines : engine'[f].on /\ t \in LegTokens(f)'
    <3>1. CASE t \in ts
      BY <2>2, <3>1
    <3>2. CASE t \in feed.cached
      <4>1. PICK f \in Engines : engine[f].on /\ t \in LegTokens(f)
        BY <2>5, <3>2 DEF DriftInv
      <4>2. f # e /\ engine'[f] = engine[f] /\ LegTokens(f)' = LegTokens(f)
        BY <2>2, <2>3, <4>1 DEF LegTokens
      <4> QED
        BY <4>1, <4>2
    <3> QED
      BY <2>1, <2>5, <3>1, <3>2
  <2>6. Survives({"rollover"}) =>
          /\ expiry = 1 /\ \A f \in Engines : engine'[f].expiry = 1
          /\ \A t \in feed'.cached : t[3] = 1
    BY <2>1, <2>2, <2>4 DEF DriftInv
  <2> QED
    BY <1>1, <2>1, <2>3, <2>5, <2>6 DEF DriftInv, Survives
<1>9. ASSUME NEW e \in Engines, Heartbeat(e) PROVE DriftInv'
  <2>1. feed'.native = feed.native /\ feed'.cached = feed.cached \cup LegTokens(e)
    BY <1>1, <1>9, EngineFeed
  <2>2. UNCHANGED <<faults, phase, expiry, engine>> /\ engine[e].on
    BY <1>9 DEF Heartbeat
  <2>3. LegTokens(e) \in SUBSET Tokens
    BY <1>1, AskedTypes
  <2>4. Survives({"rollover"}) => \A t \in feed'.cached : t[3] = 1
    BY <1>1, <2>1, <2>3, LegParts DEF DriftInv
  <2>5. ~feed.native => \A t \in feed'.cached : \E f \in Engines : engine[f].on /\ t \in LegTokens(f)
    BY <2>1, <2>2 DEF DriftInv
  <2> QED
    BY <1>1, <2>1, <2>2, <2>4, <2>5 DEF DriftInv, Survives, LegTokens
<1>10. ASSUME NEW e \in Engines, NEW k \in Strikes, PinOrder(e, k) PROVE DriftInv'
  BY <1>2, <1>10 DEF PinOrder
<1>11. ASSUME NEW e \in Engines, EngineEnds(e) PROVE DriftInv'
  <2>1. feed'.native = feed.native /\ feed'.cached = feed.cached \ LegTokens(e)
    BY <1>1, <1>11, EngineFeed
  <2>2. /\ ~engine'[e].on /\ engine'[e].expiry = engine[e].expiry
        /\ \A f \in Engines : f # e => engine'[f] = engine[f]
    BY <1>1, <1>11, EngineEffect
  <2>3. UNCHANGED <<faults, phase, expiry>>
    BY <1>11 DEF EngineEnds
  <2>4. ASSUME ~feed.native, NEW t \in feed'.cached
        PROVE  \E f \in Engines : engine'[f].on /\ t \in LegTokens(f)'
    <3>1. PICK f \in Engines : engine[f].on /\ t \in LegTokens(f)
      BY <2>1, <2>4 DEF DriftInv
    <3>2. f # e /\ engine'[f] = engine[f] /\ LegTokens(f)' = LegTokens(f)
      BY <2>1, <2>2, <3>1 DEF LegTokens
    <3> QED
      BY <3>1, <3>2
  <2>5. \A f \in Engines : engine'[f].on => engine[f].on
    BY <2>2
  <2>6. Survives({"rollover"}) =>
          /\ expiry = 1 /\ \A f \in Engines : engine'[f].expiry = 1
          /\ \A t \in feed'.cached : t[3] = 1
    BY <2>1, <2>2 DEF DriftInv
  <2> QED
    BY <1>1, <2>1, <2>3, <2>4, <2>5, <2>6 DEF DriftInv, Survives
<1>12. ASSUME NEW k \in Strikes, SellLeg(k) PROVE DriftInv'
  BY <1>2, <1>12 DEF SellLeg
<1>13. CASE BuyLeg
  BY <1>2, <1>13 DEF BuyLeg
<1>14. CASE Clock
  <2>1. UNCHANGED <<setup, feed>>
    BY <1>14 DEF Clock
  <2>2. CASE UNCHANGED <<day, expiry, engine>> /\ phase' = "open"
    BY <1>1, <2>1, <2>2 DEF DriftInv, Survives, LegTokens
  <2>3. CASE /\ UNCHANGED <<day, expiry, engine>> /\ phase' = "closed"
             /\ \A e \in Engines : ~engine[e].on
    BY <1>1, <2>1, <2>3 DEF DriftInv, Survives, LegTokens
  <2>4. CASE /\ phase = "closed" /\ engine' = [e \in Engines |-> Off]
             /\ expiry' = IF "rollover" \in faults THEN expiry + 1 ELSE expiry
    <3>1. \A e \in Engines : ~engine'[e].on /\ engine'[e].expiry = 1 /\ ~engine[e].on
      BY <2>4 DEF Off, DriftInv
    <3> QED
      BY <1>1, <2>1, <2>4, <3>1 DEF DriftInv, Survives
  <2> QED
    BY <1>14, <2>2, <2>3, <2>4 DEF Clock
<1> QED
  BY <1>3, <1>4, <1>5, <1>6, <1>7, <1>8, <1>9, <1>10, <1>11, <1>12, <1>13, <1>14 DEF Next

\* The symbol limit of the WebSocket (global_feeder.py:221): following a drift, the
\* rebalancer leaves no subscription behind that nothing tracks, whatever the
\* strikes, the engines and the switches of the feed.
THEOREM DriftLeavesNothingTheorem == Spec => DriftLeavesNothing
<1>1. Init => DriftInv
  BY FeedTypeInit DEF Init, DriftInv, Off
<1>2. ASSUME DriftInv, [Next]_vars
      PROVE  [Survives({"rollover"}) /\ NoAtm \notin {rebalancer.atm, rebalancer'.atm}
              => Untracked' \subseteq Untracked]_rebalancer
  <2> SUFFICES ASSUME Survives({"rollover"}), rebalancer.atm # NoAtm, rebalancer'.atm # NoAtm,
                      rebalancer' # rebalancer, NEW t \in Untracked'
               PROVE  t \in Untracked
    BY DEF Untracked
  <2> USE DEF setup, market
  <2>1. /\ TypeOK /\ rebalancer \in Trackers
        /\ feed'.cached \in SUBSET Tokens
    <3>1. TypeOK /\ TypeOK'
      BY <1>2, FeedTypeStep DEF DriftInv, FeedType
    <3>2. feed'.cached \in SUBSET Tokens
      BY <3>1 DEF TypeOK
    <3> QED
      BY <3>1, <3>2, AskedTypes
  <2>2. /\ t \in feed'.cached /\ t \in Tokens /\ t[2] \notin rebalancer'.active
        /\ \A e \in Engines : engine'[e].on => t \notin LegTokens(e)'
    BY <2>1 DEF Untracked
  <2>3. CASE OnTick
    <3>1. /\ \/ t[2] \in rebalancer'.active
             \/ t \in feed.cached /\ t[2] \notin rebalancer.active
             \/ ~feed.native \/ t[3] # expiry
          /\ t \in feed.cached \/ (feed.native /\ t[3] = expiry)
      BY <2>1, <2>2, <2>3, TickCached
    <3>2. \A e \in Engines : engine[e].on => t \notin LegTokens(e)
      BY <2>2, <2>3 DEF OnTick, LegTokens
    <3> QED
      BY <1>2, <2>2, <3>1, <3>2 DEF DriftInv, Untracked
  <2>4. ASSUME NEW e \in Engines, NEW ks \in TrapLegs, EngineStarts(e, ks) PROVE t \in Untracked
    <3>1. feed'.cached = feed.cached \cup Contracts({"upstox"}, ks, expiry)
      BY <2>1, <2>4, EngineFeed
    <3>2. /\ engine'[e].on /\ LegTokens(e)' = Contracts({"upstox"}, ks, expiry)
          /\ \A f \in Engines : f # e => engine'[f] = engine[f]
          /\ ks \in SUBSET Strikes
      BY <2>1, <2>4, EngineEffect
    <3>3. rebalancer'.active = rebalancer.active \cup ks /\ ~engine[e].on
      BY <2>1, <2>4, <3>2, PinnedEffect DEF EngineStarts
    <3>4. \A f \in Engines : engine[f].on => t \notin LegTokens(f)
      BY <2>2, <3>2, <3>3 DEF LegTokens
    <3> QED
      BY <2>2, <3>1, <3>2, <3>3, <3>4 DEF Untracked
  <2>5. ASSUME NEW e \in Engines, NEW k \in Strikes, PinOrder(e, k) PROVE t \in Untracked
    <3>1. {k} \in SUBSET Strikes /\ rebalancer' = Pinned({k}) /\ UNCHANGED <<feed, engine>>
      BY <2>5 DEF PinOrder
    <3>2. rebalancer'.active = rebalancer.active \cup {k}
      BY <2>1, <3>1, PinnedEffect
    <3> QED
      BY <2>2, <3>1, <3>2 DEF Untracked, LegTokens
  <2>6. ASSUME NEW e \in Engines, EngineEnds(e) PROVE t \in Untracked
    <3>1. feed'.cached = feed.cached \ LegTokens(e)
      BY <2>1, <2>6, EngineFeed
    <3>2. \A f \in Engines : f # e => engine'[f] = engine[f]
      BY <2>1, <2>6, EngineEffect
    <3>3. rebalancer'.active = rebalancer.active
      <4> DEFINE left == rebalancer.pinned \ engine[e].strikes
      <4>1. rebalancer' = [rebalancer EXCEPT !.pinned = left]
        BY <2>6 DEF EngineEnds
      <4> HIDE DEF left
      <4> QED
        BY <2>1, <4>1 DEF Trackers
    <3>4. \A f \in Engines : engine[f].on => t \notin LegTokens(f)
      <4>1. \A f \in Engines : f # e => LegTokens(f)' = LegTokens(f)
        BY <3>2 DEF LegTokens
      <4> QED
        BY <2>2, <3>1, <3>2, <4>1
    <3> QED
      BY <2>2, <3>1, <3>3, <3>4 DEF Untracked
  <2>7. CASE OnReset
    BY <2>1, <2>7 DEF OnReset, Trackers
  <2>8. CASE CheckOpening
    BY <2>1, <2>8 DEF CheckOpening, Trackers
  <2>9. ~(SwitchStarts \/ SwitchDone \/ SocketOpens \/ SocketCloses \/ UNCHANGED vars)
    BY DEF SwitchStarts, SwitchDone, SocketOpens, SocketCloses, vars
  <2>10. ~(\/ CaptureReference \/ BuyLeg \/ Clock
           \/ \E t1 \in Tokens : GoesSilent(t1)
           \/ \E a \in Atms : Tick(a) \/ Move(a)
           \/ \E e \in Engines : Heartbeat(e)
           \/ \E k \in Strikes : SellLeg(k))
    BY DEF CaptureReference, BuyLeg, Clock, GoesSilent, Tick, Move, Heartbeat, SellLeg
  <2> QED
    BY <1>2, <2>3, <2>4, <2>5, <2>6, <2>7, <2>8, <2>9, <2>10 DEF Next
<1> QED
  BY <1>1, <1>2, DriftStep, PTL DEF Spec, DriftLeavesNothing

----------------------------------------------------------------------------
(* The window around the anchor *)

\* The market stays within the chain: a strike next to the market is in the window
\* of any anchor.  A strike that an engine orders further away counts as active
\* and is never subscribed, so that a later window around it has a hole.
PinsNear == \A a, b \in Atms, k \in Strikes : k - b \in {-1, 1} => k \in Window(a)

\* The contracts of these strikes are subscribed with the live provider.
Covers(ks) ==
  \A t \in Tokens : t[1] = provider /\ t[2] \in ks /\ t[3] = expiry => t \in feed.cached

Anchored ==
  /\ feed.native /\ ~resetQ /\ rebalancer.atm # NoAtm
  /\ LegsUnderstood /\ (Survives({"pin"}) \/ PinsNear)

\* Whatever the rebalancer counts as active is subscribed, so that what a drift does
\* not ask for again was there before.
WinInv ==
  /\ FeedType
  /\ Anchored => /\ Window(rebalancer.atm) \subseteq rebalancer.active
                 /\ Covers(rebalancer.active)

\* A handled tick keeps the active strikes subscribed.
LEMMA TickWindow ==
  ASSUME WinInv, OnTick, Anchored'
  PROVE  Window(rebalancer'.atm) \subseteq rebalancer'.active /\ Covers(rebalancer.active)'
<1> USE DEF setup, market
<1>1. PICK r \in Trackers, a \in Atms :
        /\ r.atm = rebalancer.atm /\ r.active = rebalancer.active
        /\ r.pinned = rebalancer.pinned
        /\ \/ r.atm = NoAtm /\ Anchor(r, a)
           \/ r.atm # NoAtm /\ Rebalance(r, a)
           \/ rebalancer' = r /\ feed' = feed
  BY TickCases DEF WinInv, FeedType
<1>2. /\ UNCHANGED <<setup, market, resetQ, engine>> /\ TypeOK
      /\ Window(a) \in SUBSET Strikes /\ r.active \in SUBSET Strikes /\ r.pinned \in SUBSET Strikes
      /\ expiry \in Expiries
  BY AskedTypes, TrackerType DEF OnTick, WinInv, FeedType, TypeOK
<1>3. /\ LegsUnderstood /\ (Survives({"pin"}) \/ PinsNear)
      /\ feed'.native /\ ~resetQ /\ rebalancer'.atm # NoAtm
  BY <1>2 DEF Anchored, LegsUnderstood, Survives, PinsNear
<1>4. \A ks \in SUBSET Strikes : feed.native =>
        \A t \in Tokens : t \in TokensOf(ks) <=> t[2] \in ks /\ t[3] = expiry
  BY <1>2, TokensOfParts
<1>5. CASE r.atm = NoAtm /\ Anchor(r, a)
  <2>1. /\ feed'.native = feed.native
        /\ feed'.cached = feed.cached \cup TokensOf(Window(a) \cup r.pinned)
        /\ rebalancer'.atm = a /\ rebalancer'.active = Window(a) \cup r.pinned
    BY <1>2, <1>5, AnchorEffect
  <2>2. Window(a) \cup r.pinned \in SUBSET Strikes
    BY <1>2
  <2>3. \A t \in Tokens : t[2] \in rebalancer'.active /\ t[3] = expiry => t \in feed'.cached
    BY <1>3, <1>4, <2>1, <2>2
  <2> QED
    BY <1>2, <2>1, <2>3 DEF Covers
<1>6. CASE r.atm # NoAtm /\ Rebalance(r, a)
  <2> DEFINE ks == ToDrop(r, a)
             new == Window(a) \ r.active
  <2>1. /\ feed'.native = feed.native /\ ks \in SUBSET Strikes
        /\ feed'.cached = (feed.cached \ TokensOf(ks)) \cup TokensOf(new)
        /\ rebalancer'.atm = a /\ rebalancer'.active = (r.active \ ks) \cup Window(a)
    BY <1>2, <1>6, RebalanceEffect
  <2>2. /\ new \in SUBSET Strikes /\ ks \cap Window(a) = {}
        /\ new \cup r.active = Window(a) \cup r.active
    BY <1>2 DEF ToDrop
  <2>3. Covers(r.active)
    BY <1>1, <1>3, <1>6, <2>1 DEF WinInv, Anchored
  <2> HIDE DEF ks, new
  <2>4. ASSUME NEW t \in Tokens, t[1] = provider, t[2] \in rebalancer'.active, t[3] = expiry
        PROVE  t \in feed'.cached
    <3>1. t \in TokensOf(ks) <=> t[2] \in ks
      BY <1>3, <1>4, <2>1, <2>4
    <3>2. t \in TokensOf(new) <=> t[2] \in new
      BY <1>3, <1>4, <2>1, <2>2, <2>4
    <3>3. t[2] \in new \/ (t[2] \in r.active /\ t[2] \notin ks)
      BY <2>1, <2>2, <2>4
    <3>4. t[2] \in r.active => t \in feed.cached
      BY <2>3, <2>4 DEF Covers
    <3> QED
      BY <2>1, <3>1, <3>2, <3>3, <3>4
  <2> QED
    BY <1>2, <2>1, <2>4 DEF Covers
<1>7. CASE rebalancer' = r /\ feed' = feed
  <2>1. Anchored
    BY <1>1, <1>3, <1>7 DEF Anchored
  <2>2. Window(rebalancer.atm) \subseteq rebalancer.active /\ Covers(rebalancer.active)
    BY <2>1 DEF WinInv
  <2> QED
    BY <1>1, <1>2, <1>7, <2>2 DEF Covers
<1> QED
  BY <1>1, <1>5, <1>6, <1>7

\* Every step keeps the active strikes subscribed.
LEMMA WinStep == WinInv /\ [Next]_vars => WinInv'
<1> SUFFICES ASSUME WinInv, [Next]_vars, Anchored'
             PROVE  Window(rebalancer'.atm) \subseteq rebalancer'.active /\ Covers(rebalancer.active)'
  BY FeedTypeStep DEF WinInv, Window
<1> USE DEF setup, market
<1>1. /\ TypeOK /\ feed \in Feeds /\ rebalancer \in Trackers /\ engine \in [Engines -> Scans]
  BY AskedTypes DEF WinInv, FeedType, TypeOK, Scans
<1>2. ASSUME Anchored, rebalancer'.atm = rebalancer.atm, UNCHANGED <<provider, expiry>>,
             feed.cached \subseteq feed'.cached, rebalancer'.active \subseteq rebalancer.active,
             rebalancer.active \subseteq rebalancer'.active
      PROVE  Window(rebalancer'.atm) \subseteq rebalancer'.active /\ Covers(rebalancer.active)'
  BY <1>2 DEF WinInv, Covers
<1>3. ASSUME UNCHANGED <<setup, engine, resetQ>>, feed'.native = feed.native,
             rebalancer'.atm = rebalancer.atm
      PROVE  Anchored
  BY <1>3 DEF Anchored, LegsUnderstood, Survives
<1>4. CASE UNCHANGED vars
  BY <1>2, <1>3, <1>4 DEF vars
<1>5. CASE \/ SwitchStarts \/ SwitchDone \/ SocketOpens \/ SocketCloses
           \/ \E t \in Tokens : GoesSilent(t)
  <2>1. /\ feed'.cached = feed.cached
        /\ \/ feed'.native = feed.native /\ resetQ' = resetQ
           \/ feed'.native = TRUE /\ resetQ' = TRUE
        /\ UNCHANGED <<setup, market, tickQ, gap, rebalancer, engine, legs>>
    BY <1>1, <1>5, SocketEffect
  <2>2. feed'.native = feed.native /\ resetQ' = resetQ
    BY <2>1 DEF Anchored
  <2> QED
    BY <1>2, <1>3, <2>1, <2>2
<1>6. ASSUME NEW a \in Atms, Tick(a) \/ Move(a)
      PROVE  Window(rebalancer'.atm) \subseteq rebalancer'.active /\ Covers(rebalancer.active)'
  BY <1>2, <1>3, <1>6 DEF Tick, Move
<1>7. CASE OnTick
  BY <1>7, TickWindow
<1>8. CASE OnReset
  <2>1. rebalancer'.atm = NoAtm
    BY <1>1, <1>8 DEF OnReset, Trackers
  <2> QED
    BY <2>1 DEF Anchored
<1>9. CASE CaptureReference
  BY <1>2, <1>3, <1>9 DEF CaptureReference
<1>10. CASE CheckOpening
  <2>1. rebalancer'.atm = NoAtm \/ rebalancer' = rebalancer
    BY <1>1, <1>10 DEF CheckOpening, Trackers
  <2>2. rebalancer' = rebalancer
    BY <2>1 DEF Anchored
  <2> QED
    BY <1>2, <1>3, <1>10, <2>2 DEF CheckOpening
<1>11. ASSUME NEW e \in Engines, NEW ks \in TrapLegs, EngineStarts(e, ks)
       PROVE  Window(rebalancer'.atm) \subseteq rebalancer'.active /\ Covers(rebalancer.active)'
  <2> DEFINE ts == Contracts({"upstox"}, ks, expiry)
  <2>1. /\ feed'.native = feed.native /\ feed'.cached = feed.cached \cup ts
    BY <1>1, <1>11, EngineFeed
  <2>2. /\ engine'[e].on /\ engine'[e].strikes = ks /\ ks \in SUBSET Strikes
        /\ \A f \in Engines : f # e => engine'[f] = engine[f]
    BY <1>1, <1>11, EngineEffect
  <2>3. /\ rebalancer'.atm = rebalancer.atm
        /\ rebalancer'.active = rebalancer.active \cup ks
    BY <1>1, <1>11, <2>2, PinnedEffect DEF EngineStarts
  <2>4. UNCHANGED <<setup, market, resetQ>> /\ engine[e].strikes = {}
    BY <1>11 DEF EngineStarts
  <2>5. LegsUnderstood
    BY <2>2, <2>4 DEF Anchored, LegsUnderstood, Survives
  <2>6. Anchored
    BY <2>1, <2>3, <2>4, <2>5 DEF Anchored, Survives
  <2>7. Window(rebalancer.atm) \subseteq rebalancer.active /\ Covers(rebalancer.active)
    BY <2>6 DEF WinInv
  <2>8. ASSUME NEW t \in Tokens, t[1] = provider, t[2] \in ks, t[3] = expiry
        PROVE  t \in ts
    <3>1. provider = "upstox"
      BY <2>2, <2>4, <2>8 DEF Anchored, LegsUnderstood
    <3>2. {"upstox"} \in SUBSET Formats /\ expiry \in Expiries
      BY <1>1 DEF Formats, TypeOK
    <3> QED
      BY <2>2, <2>8, <3>1, <3>2, ContractParts
  <2> HIDE DEF ts
  <2> QED
    BY <2>1, <2>3, <2>4, <2>7, <2>8 DEF Covers
<1>12. ASSUME NEW e \in Engines, Heartbeat(e)
       PROVE  Window(rebalancer'.atm) \subseteq rebalancer'.active /\ Covers(rebalancer.active)'
  <2>1. feed'.native = feed.native /\ feed.cached \subseteq feed'.cached
    BY <1>1, <1>12, EngineFeed
  <2> QED
    BY <1>2, <1>3, <1>12, <2>1 DEF Heartbeat
<1>13. ASSUME NEW e \in Engines, NEW k \in Strikes, PinOrder(e, k)
       PROVE  Window(rebalancer'.atm) \subseteq rebalancer'.active /\ Covers(rebalancer.active)'
  <2>1. /\ {k} \in SUBSET Strikes /\ rebalancer' = Pinned({k})
        /\ UNCHANGED <<setup, market, feed, resetQ, engine>>
        /\ "pin" \in faults /\ k - spot \in {-1, 1}
    BY <1>13 DEF PinOrder
  <2>2. /\ rebalancer'.atm = rebalancer.atm
        /\ rebalancer'.active = rebalancer.active \cup {k}
    BY <1>1, <2>1, PinnedEffect
  <2>3. Anchored
    BY <1>3, <2>1, <2>2
  <2>4. k \in Window(rebalancer.atm)
    BY <1>1, <2>1, <2>3 DEF Anchored, Survives, PinsNear, TypeOK
  <2>5. k \in rebalancer.active
    BY <2>3, <2>4 DEF WinInv
  <2> QED
    BY <1>2, <2>1, <2>2, <2>3, <2>5
<1>14. ASSUME NEW e \in Engines, EngineEnds(e)
       PROVE  Window(rebalancer'.atm) \subseteq rebalancer'.active /\ Covers(rebalancer.active)'
  <2>1. feed'.native = feed.native /\ feed'.cached = feed.cached \ LegTokens(e)
    BY <1>1, <1>14, EngineFeed
  <2>2. /\ ~engine'[e].on /\ engine'[e].strikes = engine[e].strikes
        /\ \A f \in Engines : f # e => engine'[f] = engine[f]
    BY <1>1, <1>14, EngineEffect
  <2>3. UNCHANGED <<setup, market, resetQ>>
    BY <1>14 DEF EngineEnds
  <2>4. engine[e].strikes = {}
    BY <2>2 DEF Anchored, LegsUnderstood
  <2>5. LegTokens(e) = {}
    BY <2>4 DEF LegTokens, Contracts
  <2>6. rebalancer'.atm = rebalancer.atm /\ rebalancer'.active = rebalancer.active
    <3> DEFINE left == rebalancer.pinned \ engine[e].strikes
    <3>1. rebalancer' = [rebalancer EXCEPT !.pinned = left]
      BY <1>14 DEF EngineEnds
    <3> HIDE DEF left
    <3> QED
      BY <1>1, <3>1 DEF Trackers
  <2>7. Anchored
    BY <2>1, <2>2, <2>3, <2>4, <2>6 DEF Anchored, LegsUnderstood, Survives
  <2> QED
    BY <1>2, <2>1, <2>3, <2>5, <2>6, <2>7
<1>15. ASSUME NEW k \in Strikes, SellLeg(k)
       PROVE  Window(rebalancer'.atm) \subseteq rebalancer'.active /\ Covers(rebalancer.active)'
  BY <1>2, <1>3, <1>15 DEF SellLeg
<1>16. CASE BuyLeg
  BY <1>2, <1>3, <1>16 DEF BuyLeg
<1>17. CASE Clock
  <2>1. UNCHANGED <<expiry, engine>> /\ UNCHANGED <<setup, feed, resetQ, rebalancer>>
    BY <1>17 DEF Clock, Anchored, LegsUnderstood, Survives
  <2> QED
    BY <1>2, <1>3, <2>1
<1> QED
  BY <1>4, <1>5, <1>6, <1>7, <1>8, <1>9, <1>10, <1>11, <1>12, <1>13, <1>14, <1>15, <1>16,
     <1>17 DEF Next

\* _rebalance, _initial_subscribe and _reapply_cached_tokens: once anchored on a live
\* feed, the window around the anchor is subscribed, and again after a switch, for
\* every chain depth, threshold and path of the market; where engines pin the strikes
\* they order, for a market that stays within the chain.
THEOREM WindowCachedTheorem == Spec => [](Survives({"pin"}) \/ PinsNear => WindowCached)
<1>1. Init => WinInv
  BY FeedTypeInit DEF Init, WinInv, Anchored
<1>2. WinInv => (Survives({"pin"}) \/ PinsNear => WindowCached)
  <2> SUFFICES ASSUME WinInv, Anchored
               PROVE  Mine(TokensOf(Window(rebalancer.atm))) \subseteq feed.cached
    BY DEF WindowCached, Anchored
  <2>1. TypeOK /\ Window(rebalancer.atm) \in SUBSET Strikes
    BY DEF WinInv, FeedType, Window
  <2>2. Covers(Window(rebalancer.atm))
    BY DEF WinInv, Covers
  <2> QED
    BY <2>1, <2>2, TokensOfParts DEF Covers, Mine
<1> QED
  BY <1>1, <1>2, WinStep, PTL DEF Spec
=============================================================================
