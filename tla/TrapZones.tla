----------------------------- MODULE TrapZones -----------------------------
(***************************************************************************)
(* trap_scanner/scanner.py and the bar helpers of the engine, as functions *)
(* of a sequence of bars.  A bar is a record of the minute it opened at,   *)
(* its low, high and close.  A seller who went short below a bar is        *)
(* trapped when the price breaks the high of that bar.                     *)
(***************************************************************************)
EXTENDS Integers, SequencesExt, FiniteSetsExt

CONSTANT DayMinutes  \* minutes from midnight to midnight

ASSUME DayAssumption == DayMinutes \in Nat \ {0}

Never == -1000000    \* trapped_on and closed_on when None

Gap(a, b) == IF a < b THEN b - a ELSE a - b

LastN(s, n) == SubSeq(s, Max({1, Len(s) - n + 1}), Len(s))

DayOf(at) == at \div DayMinutes

\* The numbers of S from 1 to n, in increasing order.
Listed(S, n) ==
  LET listed[m \in 0..n] ==
        IF m = 0 THEN <<>>
        ELSE IF m \in S THEN Append(listed[m-1], m) ELSE listed[m-1]
  IN  listed[n]

\* The elements of s at the positions S, in their order.
Picked(s, S) ==
  LET at == Listed(S, Len(s)) IN [m \in DOMAIN at |-> s[at[m]]]

\* SelectSeq, by the positions it selects.
Selected(s, Test(_)) == Picked(s, {i \in DOMAIN s : Test(s[i])})

----------------------------------------------------------------------------
(* Resampling *)

Bar == [at : Int, low : Int, high : Int, close : Int]

IsBar(b) == b.low <= b.close /\ b.close <= b.high /\ b.low > 0

\* Bars a feed can have made: well formed, each opened after those before it.
InOrder(bs) ==
  /\ \A i \in DOMAIN bs : IsBar(bs[i])
  /\ \A i, j \in DOMAIN bs : i < j => bs[i].at < bs[j].at

\* Fault: the low of the bar is that of its first tick.
ExtendsUp(b, p) == [b EXCEPT !.high = Max({@, p}), !.close = p]

\* _update_bucket within a minute.
Extends(b, p) ==
  [b EXCEPT !.low = Min({@, p}), !.high = Max({@, p}), !.close = p]

\* The grid of pandas' resample starts at the midnight before the first bar.
BinOf(bs, at, k) == at - ((at - DayMinutes * DayOf(bs[1].at)) % k)

Merged(at, bs) ==
  [at |-> at, low |-> Min({b.low : b \in ToSet(bs)}),
   high |-> Max({b.high : b \in ToSet(bs)}), close |-> Last(bs).close]

\* _resample_htf, of bars in order of time.
Resample(k) == [bs \in Seq(Bar) |->
  LET bin == [i \in DOMAIN bs |-> BinOf(bs, bs[i].at, k)]
      first == Listed({i \in DOMAIN bs : i = 1 \/ bin[i] # bin[i-1]}, Len(bs))
  IN  [n \in DOMAIN first |->
         Merged(bin[first[n]],
                SubSeq(bs, first[n], IF n = Len(first) THEN Len(bs) ELSE first[n+1] - 1))]]

----------------------------------------------------------------------------
(* The scan *)

BearZone(prev, curr) ==
  [kind |-> "BEAR", ref |-> prev.at, entry |-> prev.low, sl |-> prev.high,
   low |-> curr.low, high |-> prev.low,
   status |-> "ACTIVE", trapped |-> Never, closed |-> Never]

BullZone(prev, curr) ==
  [kind |-> "BULL", ref |-> prev.at, entry |-> prev.high, sl |-> prev.low,
   low |-> prev.high, high |-> curr.high,
   status |-> "ACTIVE", trapped |-> Never, closed |-> Never]

Broken(z, b) == IF z.kind = "BEAR" THEN b.high > z.sl ELSE b.low < z.sl
Returned(z, b) == IF z.kind = "BEAR" THEN b.low <= z.entry ELSE b.high >= z.entry

\* Fault: a zone closes on the bar that traps it.
AgedAtOnce(z, b) ==
  CASE z.status = "ACTIVE" /\ Broken(z, b) /\ Returned(z, b) ->
         [z EXCEPT !.status = "CLOSED", !.trapped = b.at, !.closed = b.at]
    [] z.status = "ACTIVE" /\ Broken(z, b) /\ ~Returned(z, b) ->
         [z EXCEPT !.status = "TRAPPED", !.trapped = b.at]
    [] z.status = "TRAPPED" /\ Returned(z, b) ->
         [z EXCEPT !.status = "CLOSED", !.closed = b.at]
    [] OTHER -> z

\* Fault: a zone whose price has come back is open again.
AgedBack(z, b) ==
  CASE z.status = "ACTIVE" /\ Broken(z, b) ->
         [z EXCEPT !.status = "TRAPPED", !.trapped = b.at]
    [] z.status = "TRAPPED" /\ Returned(z, b) -> [z EXCEPT !.status = "ACTIVE"]
    [] OTHER -> z

\* The zone z once it has seen bar b: never closed by the bar that traps it.
Aged(z, b) ==
  CASE z.status = "ACTIVE" /\ Broken(z, b) ->
         [z EXCEPT !.status = "TRAPPED", !.trapped = b.at]
    [] z.status = "TRAPPED" /\ Returned(z, b) /\ b.at # z.trapped ->
         [z EXCEPT !.status = "CLOSED", !.closed = b.at]
    [] OTHER -> z

Zone == [kind : {"BEAR", "BULL"}, ref : Int, entry : Int, sl : Int, low : Int,
         high : Int, status : {"ACTIVE", "TRAPPED", "CLOSED"}, trapped : Int, closed : Int]

Age(b) == [z \in Zone |-> Aged(z, b)]

\* The zone z opened on bar i, once it has seen the bars after it.
Grown(z, i, bs) ==
  LET seen[j \in 0..Len(bs)] == IF j <= i THEN z ELSE Age(bs[j])[seen[j-1]]
  IN  seen[Len(bs)]

Lower(bs, i) == bs[i].low < bs[i-1].low
Higher(bs, i) == bs[i].high > bs[i-1].high

OpenedAt(bs, Opens(_, _)) == Listed({i \in 2..Len(bs) : Opens(bs, i)}, Len(bs))

Bears(bs, at) == [n \in DOMAIN at |-> Grown(BearZone(bs[at[n]-1], bs[at[n]]), at[n], bs)]
Bulls(bs, at) == [n \in DOMAIN at |-> Grown(BullZone(bs[at[n]-1], bs[at[n]]), at[n], bs)]

\* The zones, oldest first.
ScanHtf[bs \in Seq(Bar)] == Bears(bs, OpenedAt(bs, Lower))
ScanHtfSpot[bs \in Seq(Bar)] == ScanHtf[bs] \o Bulls(bs, OpenedAt(bs, Higher))

\* scan_ltf: the bars at the zone, and the traps among them.
ScanLtf(bs, high, low) ==
  ScanHtf[Selected(bs, LAMBDA b : b.low <= high /\ 100 * b.close >= 95 * low)]

With(zs, status) == Selected(zs, LAMBDA z : z.status = status)

\* Of the zones zs, those no other comes before, in their order.
Leading(zs, Before(_, _)) ==
  Selected(zs, LAMBDA z : \A n \in DOMAIN zs : ~Before(zs[n], z))

\* Fault: a zone that has trapped its sellers is taken before the price is back.
BestEntryTrapped(zs) == Leading(With(zs, "TRAPPED"), LAMBDA y, z : y.low < z.low)

\* select_best_ltf_entry: the closed zones of the lowest zone_low; the first counts.
BestEntry(zs) == Leading(With(zs, "CLOSED"), LAMBDA y, z : y.low < z.low)

\* max(..., key=closed_on): likewise.
LatestClosed(zs) == Leading(With(zs, "CLOSED"), LAMBDA y, z : y.closed > z.closed)

\* _zone_uid
Uid(z) == <<z.ref, z.high, z.kind>>

----------------------------------------------------------------------------
(* Distances, in hundredths *)

TrueRange(prev, curr) ==
  Max({curr.high - curr.low, Gap(curr.high, prev.close), Gap(curr.low, prev.close)})

\* _compute_htf_atr: the average of the last 14 true ranges.
Atr[bs \in Seq(Bar)] ==
  LET last == Min({14, Len(bs) - 1})
  IN  IF Len(bs) < 2 THEN 0
      ELSE (100 * MapThenSumSet(LAMBDA i : TrueRange(bs[i-1], bs[i]), (Len(bs)-last+1)..Len(bs)))
           \div last

\* zone_trigger lies a third of the zone above its low; the zones of
\* scan_htf_spot have none, and their entry stands in for it.
Trigger(z, spot) ==
  IF spot THEN 100 * z.entry ELSE (100 * (2 * z.low + z.high)) \div 3

Near(zs, price, spot, reach) ==
  \E z \in ToSet(With(zs, "TRAPPED")) : Gap(Trigger(z, spot), 100 * price) <= reach

----------------------------------------------------------------------------
(* What a scan means, without the order it is computed in *)

\* The short on bar i: trapped once a later bar breaks its high, closed once the
\* price is back at its low, which is the entry and not yet the Zone Trigger.
StatusAt(bs, i) ==
  LET traps == {j \in (i+2)..Len(bs) : bs[j].high > bs[i].high}
  IN  IF traps = {} THEN "ACTIVE"
      ELSE IF \E k \in (Min(traps)+1)..Len(bs) : bs[k].low <= bs[i].low
      THEN "CLOSED" ELSE "TRAPPED"

Shorts(bs) == {i \in 1 .. (Len(bs) - 1) : bs[i+1].low < bs[i].low}

Mirrored(bs) ==
  [i \in DOMAIN bs |-> [bs[i] EXCEPT !.low = -bs[i].high, !.high = -bs[i].low]]

Meaning(bs) == {<<bs[i].at, StatusAt(bs, i)>> : i \in Shorts(bs)}
Found(zs, kind) ==
  {<<z.ref, z.status>> : z \in {y \in ToSet(zs) : y.kind = kind}}
=============================================================================
