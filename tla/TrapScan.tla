------------------------------ MODULE TrapScan ------------------------------
(***************************************************************************)
(* The scanning half of a TrapScannerEngine within a session: ticks make   *)
(* one-minute bars, a closed bar refreshes the zones of the long frame and *)
(* looks for an entry, and an entry becomes a task of the loop.            *)
(***************************************************************************)
EXTENDS TrapZones

CONSTANTS
  Histories, \* how a session may start: its source, its gap, the bars seeded
  Prices,    \* the prices of a tick, positive
  Hour,      \* minutes in an hour
  LtfMin,    \* ltf_minutes
  MtfMin,    \* _cascade_min, and the frame of the intermediate gate
  HtfMin,    \* htf_minutes
  Window,    \* the bars the short scan looks at (200)
  Kept,      \* the bars a leg keeps (2000)
  Guard,     \* how far a tick of the index may jump, in percent
  Unstick,   \* jumps in a row after which one is believed (5)
  MaxTicks   \* bound: ticks in a behaviour

ASSUME ScanAssumption ==
  /\ {Hour, LtfMin, MtfMin, HtfMin, Window, Kept, Guard, Unstick} \subseteq Nat \ {0}
  /\ Prices \subseteq Nat \ {0} /\ MaxTicks \in Nat

\* A leg keeps more bars than there are minutes in a day.
ASSUME KeptAssumption == Kept >= DayMinutes

\* A session starts after the bars it is seeded with, and a source has a leg.
ASSUME HistoryAssumption ==
  \A h \in Histories :
    /\ h.bars \in [DOMAIN h.bars -> Seq(Bar)]
    /\ h.source = "futures" => "FUT" \in DOMAIN h.bars
    /\ h.start \in Nat
    /\ \A l \in DOMAIN h.bars :
         InOrder(h.bars[l]) /\ \A b \in ToSet(h.bars[l]) : b.at < h.start

VARIABLES
  setup,     \* the history the session started from
  ticks,     \* ticks so far
  bars,      \* bars[l]: _bars_fut, _bars_ce1, ...: closed one-minute bars
  bucket,    \* bucket[l]: the bar being made, as a sequence of at most one
  zones,     \* zones[l]: _htf_bear_zones, _htf_bull_zones, _htf_fut_zones
  atr,       \* _htf_atr_val, in hundredths
  cascading, \* _intraday_mode
  jumps,     \* _spot_bad_cnt
  notified,  \* _notified_uids
  tasks,     \* tasks created and not begun
  working,   \* entries at the broker
  holds,     \* _position is set
  entered    \* the signals that were acted on, oldest first

vars == <<setup, ticks, bars, bucket, zones, atr, cascading, jumps,
          notified, tasks, working, holds, entered>>

Legs == DOMAIN setup.bars
Futures == setup.source = "futures"
\* The leg whose candles refresh the zones, and whose bars give the average range.
Leader == IF Futures THEN "FUT" ELSE "CE1"
OptType(l) == IF l = "PE1" THEN "PE" ELSE "CE"

\* ts.minute
MinuteOf(m) == m % Hour

Ltp(bk, l) == IF bk[l] = <<>> THEN 0 ELSE bk[l][1].close

\* The session is the day that begins at minute 0.
Today(bs) == Selected(bs, LAMBDA b : DayOf(b.at) = 0)

NewBar(m, p) == [at |-> m, low |-> p, high |-> p, close |-> p]

----------------------------------------------------------------------------
(* The long frame *)

\* _run_htf_scan with source "option", for one leg: without a trapped zone near
\* the price, today's and older 15-minute zones of another zone_low join.
OptionZones(old, bs, price, reach) ==
  LET htf == Resample(HtfMin)[bs]
      far == IF Len(htf) < 2 THEN old ELSE ScanHtf[htf]
      lows == {z.low : z \in ToSet(far)}
      intraday == Selected(ScanHtf[Resample(MtfMin)[bs]], LAMBDA z : z.low \notin lows)
  IN  IF price > 0 /\ Near(far, price, FALSE, reach) THEN far ELSE far \o intraday

Reach(a) == 2 * (IF a = 0 THEN 10000 ELSE a)

\* The zones after _run_htf_scan on bars bs, with live prices bk.
Refreshed(bs, bk) ==
  IF Futures
  THEN IF Len(Resample(HtfMin)[bs["FUT"]]) < 2 THEN zones
       ELSE [zones EXCEPT !["FUT"] = ScanHtfSpot[Resample(HtfMin)[bs["FUT"]]]]
  ELSE [l \in Legs |-> IF bs[l] = <<>> THEN zones[l]
                       ELSE OptionZones(zones[l], bs[l], Ltp(bk, l), Reach(atr))]

AtrOf(bs) == IF bs[Leader] = <<>> THEN 0 ELSE Atr[Resample(HtfMin)[bs[Leader]]]

\* _check_zone_reachability for a futures source; with source "option" the flag
\* is only displayed.
Unreachable(zs, price, a) ==
  IF price = 0 \/ a = 0 THEN With(zs["FUT"], "TRAPPED") = <<>>
  ELSE ~Near(zs["FUT"], price, TRUE, 2 * a)

----------------------------------------------------------------------------
(* The short frame *)

Entry(l, type, ltf, z) ==
  <<[at |-> "entry", leg |-> l, type |-> type, uid |-> Uid(z), kind |-> z.kind,
     ref |-> ltf.ref, level |-> ltf.entry, sl |-> ltf.sl]>>

\* The closed zone of the short frame that the price is back at, if there is one.
Retest(price) == [bs \in Seq(Bar) |->
  LET today == Today(bs)
      gate == IF today = <<>> THEN <<>> ELSE LatestClosed(ScanHtf[Resample(MtfMin)[today]])
      best == IF gate = <<>> THEN <<>>
              ELSE BestEntry(ScanLtf(LastN(today, Window), gate[1].high, gate[1].low))
  IN  IF best # <<>> /\ 1000 * price <= 1005 * best[1].high THEN <<best[1]>> ELSE <<>>]

\* _run_ltf_on: the first zone of zs the price is in, not entered today.
RunLtfOn(l, bs, zs, price, type) ==
  LET open == Selected(zs, LAMBDA z :
                Uid(z) \notin notified /\ (price = 0 \/ price \in z.low..z.high))
      ltf == Retest(price)[bs]
  IN  IF Len(Today(bs)) < 3 \/ open = <<>> \/ ltf = <<>> THEN <<>>
      ELSE Entry(l, type, ltf[1], open[1])

\* _run_ltf_on with all_cleared_entry: every seller of the option is out.
AllCleared(l, bs, zs, type) ==
  LET ltf == ScanHtf[LastN(Today(bs), Window)]
      out == LatestClosed(ltf)
  IN  IF \/ zs = <<>> \/ Len(Today(bs)) < 3 \/ out = <<>>
         \/ With(ltf, "TRAPPED") # <<>> \/ Uid(zs[1]) \in notified
      THEN <<>> ELSE Entry(l, type, out[1], zs[1])

\* _ltf_scan_normal
ScanNormal(l, bs, bk, zs) ==
  LET spot == IF Futures THEN Ltp(bk, "FUT") ELSE 0
      price == Ltp(bk, l)
      trapped == With(zs[IF Futures THEN "FUT" ELSE l], "TRAPPED")
      bias == Selected(trapped, LAMBDA z :
                IF l = "PE1" THEN z.kind = "BULL" /\ spot >= z.low
                ELSE z.kind = "BEAR" /\ spot \in z.low..z.high)
      alive == Selected(trapped, LAMBDA z : price >= z.low)
      against == setup.gap = (IF OptType(l) = "CE" THEN "DOWN" ELSE "UP")
  IN  IF Futures
      THEN IF l = "FUT" THEN <<>> ELSE AllCleared(l, bs[l], bias, OptType(l))
      ELSE IF against THEN <<>> ELSE RunLtfOn(l, bs[l], alive, price, OptType(l))

\* The bars of the bins before the one minute m is in.
Complete(bs, m) == Selected(Today(bs), LAMBDA b : b.at < m - (m % MtfMin))

\* _cascade_scan: what it leaves in zones and the entry it asks for.  A futures
\* cascade takes the zones of both kinds for the call, in the future's own bars.
CascadeZones(m) ==
  IF Futures /\ Len(Complete(bars["FUT"], m)) >= 4
             /\ Len(Resample(MtfMin)[Complete(bars["FUT"], m)]) >= 2
  THEN [zones EXCEPT !["FUT"] = ScanHtfSpot[Resample(MtfMin)[Complete(bars["FUT"], m)]]]
  ELSE zones

HighestFirst(zs) == SortSeq(zs, LAMBDA y, z : y.high > z.high)

CascadeEntry(l, m) ==
  LET leg == IF Futures THEN "FUT" ELSE l
      done == Complete(bars[leg], m)
      zs == IF Futures THEN CascadeZones(m)["FUT"]
            ELSE HighestFirst(ScanHtf[Resample(MtfMin)[done]])
  IN  IF Len(done) < 4 THEN <<>>
      ELSE RunLtfOn(leg, bars[leg], With(zs, "TRAPPED"), Ltp(bucket, leg), OptType(leg))

\* _ltp_in_any_htf_zone, with 2 % above the zone.
InAnyZone(l, bk, zs) ==
  \E z \in ToSet(With(zs[IF Futures THEN "FUT" ELSE l], "TRAPPED")) :
    z.low <= Ltp(bk, l) /\ 100 * Ltp(bk, l) <= 102 * z.high

\* What a closed candle of leg l asks the loop for.
Asked(l, m, bs, bk, zs, casc) ==
  LET cascade == <<[at |-> "cascade", leg |-> l, minute |-> m]>>
  IN  IF MinuteOf(m) % LtfMin # 0 /\ ~InAnyZone(l, bk, zs) THEN <<>>
      ELSE IF ~Futures THEN ScanNormal(l, bs, bk, zs) \o cascade
      ELSE IF casc THEN cascade ELSE ScanNormal(l, bs, bk, zs)

----------------------------------------------------------------------------
(* The tick loops *)

Init ==
  /\ setup \in Histories
  /\ ticks = 0 /\ jumps = 0 /\ working = 0
  /\ bars = setup.bars
  /\ bucket = [l \in Legs |-> <<>>]
  /\ zones = IF Futures
             THEN [l \in {"FUT"} |-> ScanHtfSpot[Resample(HtfMin)[bars["FUT"]]]]
             ELSE [l \in Legs |-> OptionZones(<<>>, bars[l], 0, Reach(0))]
  /\ atr = AtrOf(bars)
  /\ cascading = (Futures /\ Unreachable(zones, setup.open, atr))
  /\ notified = {} /\ tasks = <<>> /\ holds = FALSE /\ entered = <<>>

\* Minutes from one tick of a leg to its next: none, one, or a quiet stretch.
\* Ticks come in order of time; the engine would close a bar on an older one too.
Steps == {0, 1, MtfMin}
NextMinutes(l) == IF bucket[l] = <<>> THEN {setup.start} ELSE {bucket[l][1].at + s : s \in Steps}

Far(p, q) == q > 0 /\ 100 * Gap(p, q) > Guard * q
\* _idx_tick_loop's sanity guard: a jump is refused for good when it is also far
\* from the day's open, else until it has come Unstick times.
Jumped(l, p) ==
  /\ l = "FUT"
  /\ LET last == Ltp(bucket, "FUT")
     IN  Far(p, IF last > 0 THEN last ELSE setup.open)
Refused(l, p) == Jumped(l, p) /\ (Far(p, setup.open) \/ jumps + 1 < Unstick)

RefuseTick(p) ==
  /\ "FUT" \in Legs /\ Refused("FUT", p)
  /\ jumps' = jumps + 1
  /\ UNCHANGED <<bars, bucket, zones, atr, cascading, notified, tasks, working, holds, entered>>

TickInBar(l, p, m) ==
  /\ ~Refused(l, p)
  /\ \A b \in ToSet(bucket[l]) : m = b.at
  /\ bucket' = [bucket EXCEPT ![l] =
       IF @ = <<>> THEN <<NewBar(m, p)>> ELSE <<Extends(@[1], p)>>]
  /\ jumps' = IF l = "FUT" THEN 0 ELSE jumps
  /\ UNCHANGED <<bars, zones, atr, cascading, notified, tasks, working, holds, entered>>

\* _on_candle_close on the bars and prices that the tick leaves; a position
\* ends it, and _update_futures_tsl is the engine's.
TickClosesBar(l, p, m) ==
  /\ ~Refused(l, p)
  /\ bucket[l] # <<>> /\ m > bucket[l][1].at
  /\ bars' = [bars EXCEPT ![l] = LastN(@ \o bucket[l], Kept)]
  /\ bucket' = [bucket EXCEPT ![l] = <<NewBar(m, p)>>]
  /\ jumps' = IF l = "FUT" THEN 0 ELSE jumps
  /\ IF ~holds /\ MinuteOf(m) % HtfMin = 0 /\ l = Leader
     THEN /\ zones' = Refreshed(bars', bucket')
          /\ atr' = AtrOf(bars')
          /\ cascading' = (Futures /\ Unreachable(zones', Ltp(bucket', "FUT"), atr'))
     ELSE UNCHANGED <<zones, atr, cascading>>
  /\ tasks' = tasks \o IF holds THEN <<>> ELSE Asked(l, m, bars', bucket', zones', cascading')
  /\ UNCHANGED <<notified, working, holds, entered>>

\* Before the square-off of its day: after it the engine is not initialized.
InSession(m) == m < DayMinutes

Tick ==
  /\ ticks < MaxTicks /\ ticks' = ticks + 1
  /\ \E p \in Prices :
       \/ RefuseTick(p)
       \/ \E l \in Legs, m \in UNION {NextMinutes(k) : k \in Legs} :
            /\ m \in NextMinutes(l) /\ InSession(m)
            /\ TickInBar(l, p, m) \/ TickClosesBar(l, p, m)
  /\ UNCHANGED setup

----------------------------------------------------------------------------
(* The tasks, in the order they were created *)

RunCascade ==
  /\ tasks # <<>> /\ Head(tasks).at = "cascade"
  /\ zones' = CascadeZones(Head(tasks).minute)
  /\ tasks' = Tail(tasks) \o CascadeEntry(Head(tasks).leg, Head(tasks).minute)
  /\ UNCHANGED <<setup, ticks, bars, bucket, atr, cascading, jumps, notified,
                 working, holds, entered>>

\* _on_entry_signal's gates on the engine's own state.
Takes(t) == ~holds /\ t.uid \notin notified

TakeSignal ==
  /\ tasks # <<>> /\ Head(tasks).at = "entry" /\ Takes(Head(tasks))
  /\ notified' = notified \cup {Head(tasks).uid}
  /\ entered' = Append(entered, Head(tasks))
  /\ working' = working + 1
  /\ tasks' = Tail(tasks)
  /\ UNCHANGED <<setup, ticks, bars, bucket, zones, atr, cascading, jumps, holds>>

\* No margin, a terminal that is off, the cutoff, a position or a zone of today.
DropSignal ==
  /\ tasks # <<>> /\ Head(tasks).at = "entry"
  /\ tasks' = Tail(tasks)
  /\ UNCHANGED <<setup, ticks, bars, bucket, zones, atr, cascading, jumps,
                 notified, working, holds, entered>>

\* The entry is filled or given up; the position ends (TrapEngine).
Rest == <<setup, ticks, bars, bucket, zones, atr, cascading, jumps, notified, tasks, entered>>
EntryEnds ==
  /\ working > 0 /\ working' = working - 1
  /\ holds' \in {TRUE, holds}
  /\ UNCHANGED Rest
PositionEnds == holds /\ holds' = FALSE /\ UNCHANGED <<working, Rest>>

Next == Tick \/ RunCascade \/ TakeSignal \/ DropSignal \/ EntryEnds \/ PositionEnds

Spec == Init /\ [][Next]_vars

----------------------------------------------------------------------------
(* Properties *)

\* Bars are well formed and in order of time, the bar being made after all closed
\* ones; nothing is entered unannounced.
TypeOK ==
  /\ setup \in Histories
  /\ {bars, bucket} \subseteq [Legs -> Seq(Bar)]
  /\ \A l \in Legs : Len(bucket[l]) <= 1 /\ InOrder(bars[l] \o bucket[l])
  /\ jumps \in Nat /\ working \in 0..Len(entered)
  /\ entered \in Seq(ToSet(entered))
  /\ {entered[i].uid : i \in DOMAIN entered} = notified

Frames == {1, MtfMin, HtfMin}

\* scan_htf, scan_htf_spot: on the bars of every frame the one pass finds what
\* the definition of a trap says, sellers on the bars and buyers on their mirror.
\* A trap closes at the sellers' entry, as the code has it (line 87); the docstring
\* of scan_htf (line 37) has it close lower: "any future bar LOW <= Zone Trigger".
ScanMeans ==
  \A l \in Legs, k \in Frames : bars[l] # <<>> =>
    LET bs == Resample(k)[bars[l]]
    IN  /\ Found(ScanHtfSpot[bs], "BEAR") = Meaning(bs)
        /\ Found(ScanHtfSpot[bs], "BULL") = Meaning(Mirrored(bs))

Rank(status) == CASE status = "ACTIVE" -> 0 [] status = "TRAPPED" -> 1 [] OTHER -> 2

\* Every zone of zs is in ys, unchanged or further on.
Forward(zs) == [ys \in Seq(Zone) |->
  \A z \in ToSet(zs) : \E y \in ToSet(ys) :
    /\ y.kind = z.kind /\ y.ref = z.ref /\ y.entry = z.entry /\ y.sl = z.sl
    /\ Rank(y.status) >= Rank(z.status)
    /\ z.status # "ACTIVE" => Uid(y) = Uid(z) /\ y.low = z.low]

\* "Stable unique ID for a zone so notified_uids deduplicate across candle
\* refreshes" (_zone_uid): while no old bar is dropped, a zone once trapped
\* keeps its identity and its levels in every frame, and no zone goes back.
NoRepaint ==
  [][\A l \in Legs, k \in Frames :
       bars[l] # <<>> /\ bars'[l] # bars[l] /\ IsPrefix(bars[l], bars'[l]) =>
         Forward(ScanHtfSpot[Resample(k)[bars[l]]])[ScanHtfSpot[Resample(k)[bars'[l]]]]]_vars

\* An entry is taken where sellers went short, were trapped and got their price
\* back, in this order and in the minutes of today that the leg really traded.
\* The return is asked for in every mode (line 1323), also in a cascade, of which
\* the header says "Entry fires on 5-min TRAPPED (cascade: no CLOSED step
\* required)", and so do the docstrings of _run_ltf_on and _cascade_scan.
SignalEarned ==
  \A t \in ToSet(entered) :
    LET bs == Today(bars[t.leg])
    IN  \E i, j, k \in DOMAIN bs :
          /\ i < j /\ j < k
          /\ bs[i].at = t.ref /\ bs[i].low = t.level /\ bs[j].high > t.sl
          /\ bs[k].low <= t.level
=============================================================================
