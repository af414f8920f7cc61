------------------------------ MODULE TrapDesk ------------------------------
(***************************************************************************)
(* A trap-scanner binding: its engine (TrapEngine), the TrapBookManager    *)
(* that spawns, stops and replaces it, the dashboard's expiry switch, the  *)
(* session clock and the process.                                          *)
(***************************************************************************)
EXTENDS TrapEngine

\* Bound: no second stop of this kind once the account is short.
MayStop ==
  /\ InFlight => "stop_in_exit" \in faults /\ \A c \in Contracts : held[c] >= 0
  /\ Entering => "stop_in_entry" \in faults

\* An engine that has just been made.
Fresh ==
  /\ ready' = FALSE /\ initDone' = FALSE /\ noMargin' = FALSE
  /\ notified' = {} /\ pos' = NoPos

\* stop_async cancels the three loops: an exit in flight trades or does not,
\* and is forgotten before its position is.  Entry tasks go on.
LoopsCancelled ==
  /\ \E l \in Loops :
       /\ \A m \in Loops \ {l} : exit[m] = NoExit
       /\ \/ UNCHANGED held
          \/ exit[l] # NoExit /\ Trade(exit[l].con, -exit[l].qty)
  /\ exit' = [l \in Loops |-> NoExit]

Orphaned == entry' = [z \in Zones |->
                        IF Entry(z) = "none" THEN NoEntry
                        ELSE [entry[z] EXCEPT !.orphan = TRUE]]

\* The client's run switch is off, or the manager's query failed: at any time
\* but within the minute of the square-off.
StopEngine ==
  /\ running /\ phase # "closing"
  /\ MayStop
  /\ running' = FALSE
  /\ Fresh /\ LoopsCancelled /\ Orphaned
  /\ UNCHANGED <<setup, clock, file>>

SpawnEngine ==
  /\ ~running
  /\ running' = TRUE
  /\ UNCHANGED <<setup, clock, ready, initDone, noMargin, notified, pos, entry, exit, file, held>>

\* Other lots or another expiry in the database: only a flat engine is replaced.
RespawnEngine ==
  /\ running /\ pos = NoPos
  /\ MayStop
  /\ Fresh /\ LoopsCancelled /\ Orphaned
  /\ UNCHANGED <<setup, clock, running, file>>

\* The process dies: entry tasks too.
Crash ==
  /\ phase # "closing"
  /\ MayStop
  /\ running' = FALSE
  /\ Fresh /\ LoopsCancelled
  /\ entry' = [z \in Zones |-> NoEntry]
  /\ UNCHANGED <<setup, clock, file>>

----------------------------------------------------------------------------
(* Clock *)

CutoffTime ==
  /\ phase = "open" /\ phase' = "cutoff"
  /\ UNCHANGED <<setup, day, flags, noMargin, notified, pos, entry, exit, file, held>>

\* Minutes after the cutoff: an entry takes less.
SquareOffTime ==
  /\ phase = "cutoff" /\ ~Entering
  /\ phase' = "closing"
  /\ UNCHANGED <<setup, day, flags, noMargin, notified, pos, entry, exit, file, held>>

\* The night: intraday products are squared off by the broker, and the loops
\* have had the time to do what they had to.
NewDay ==
  /\ phase = "closing" /\ day < MaxDay /\ Quiet
  /\ ~(running /\ ready)
  /\ phase' = "open" /\ day' = day + 1
  /\ held' = [c \in Contracts |-> 0]
  /\ UNCHANGED <<setup, flags, noMargin, notified, pos, entry, exit, file>>

----------------------------------------------------------------------------
Next ==
  \/ EngineStep
  \/ StopEngine \/ SpawnEngine \/ RespawnEngine \/ Crash
  \/ SetExpiryMode /\ phase # "closing"
  \/ CutoffTime \/ SquareOffTime \/ NewDay

Spec == TrapInit /\ [][Next]_vars

\* The loop is fair to the engine's tasks and the broker answers.
Fairness ==
  /\ WF_vars(SpawnEngine)
  /\ WF_vars(MorningInit)
  /\ WF_vars(EodSquareOff) /\ WF_vars(EodDone)
  /\ WF_vars(T1Done) /\ \A l \in Loops : WF_vars(ExitDone(l))
  /\ \A z \in Zones :
       /\ WF_vars(PickStrike(z)) /\ WF_vars(PlaceEntry(z))
       /\ WF_vars(EntryFilled(z) \/ EntryNotFilled(z) \/ EntryFails(z))

FairSpec == Spec /\ Fairness

----------------------------------------------------------------------------
(* Properties *)

\* Every variable keeps its type and the position, the entry tasks and the
\* exits stay within the records the code builds.
TypeOK ==
  /\ source \in Sources /\ faults \subseteq Faults
  /\ phase \in {"open", "cutoff", "closing"} /\ day \in 1..MaxDay
  /\ {running, ready, initDone, noMargin} \subseteq BOOLEAN
  /\ notified \subseteq Zones
  /\ pos \in Positions \cup {NoPos} /\ file \in Positions \cup {NoPos}
  /\ entry \in [Zones -> Entries]
  /\ exit \in [Loops -> Exits \cup {NoExit}]
  /\ held \in [Contracts -> Int] /\ \A c \in Contracts : held[c] <= MaxHeld

Survives(fs) == faults \cap fs = {}

\* What the engine answers for today: its memory, or what its file will restore.
Believed == IF initDone THEN pos ELSE file
Share(c) ==
  IF Believed # NoPos /\ Believed.con = c /\ Believed.day = day THEN Believed.rem ELSE 0

\* _on_entry_signal, _check_tick_exit, _load_persisted_position: with no order
\* on its way the account holds nothing that the engine, or its file, has
\* forgotten, whatever entries, half exits, restarts and replacements came
\* before, also when two loops exited at once.
NothingForgotten ==
  Survives(Faults \ {"overlap"}) /\ Quiet => \A c \in Contracts : held[c] <= Share(c)

\* The other side: the position is there to be sold, and never is more sold
\* than was bought, also after slow fills, refused exits, signals that came
\* together and entries that outlived their engine.
NothingOversold ==
  Survives({"overlap", "stop_in_exit"}) =>
    \A c \in Contracts : held[c] >= IF Quiet THEN Share(c) ELSE 0

\* _persist_position, _clear_persisted_position: outside the half exit a
\* restart finds on file the position in memory, also when entries raced and
\* orders went astray.
FileMatches ==
  Survives({"stop_in_entry"}) /\ running /\ initDone /\ exit["opt"].kind # "T1" => file = pos

\* _lifecycle_loop: an engine that is ready at the square-off time ends with
\* nothing in the account.
FlatAfterClose ==
  (phase = "closing" /\ ready /\ Survives(Faults \ {"overlap"})) ~>
    \A c \in Contracts : held[c] <= 0
=============================================================================
