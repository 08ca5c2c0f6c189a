------------------------------- MODULE Flights ------------------------------
(***************************************************************************)
(* What an autopilot does, the logs it leaves, what the readers            *)
(* (flight/px4.py, flight/ardupilot.py) make of them, and what the records *)
(* uploaded, some, in any order, some twice, add up to.                    *)
(***************************************************************************)
EXTENDS Usage

CONSTANTS Autopilots,   \* a subset of {"px4", "ardupilot"}
          Contents,     \* what logs hold: [dated, counter, flight : BOOLEAN]
          MaxTicks,     \* length of the history
          MaxLogs,      \* logs the autopilot leaves
          MaxUploads

\* A tick lasts as long as the window of a duplicate, so two logs never look like one.
ASSUME FlightsAssumption ==
    /\ Autopilots \subseteq STRING \cap {"px4", "ardupilot"}
    /\ Contents \subseteq [dated : BOOLEAN, counter : BOOLEAN, flight : BOOLEAN]
    /\ MaxTicks \in Nat \ {0} /\ MaxLogs \in Nat /\ MaxUploads \in Nat
    /\ DuplicateWindow = 1

VARIABLES autopilot,    \* the family
          past,         \* at each tick what the aircraft does until the next
          saved,        \* the lifetime counter as stored on board
          unsaved,      \* flight since then
          recording,    \* the log being written
          logs,         \* the logs written
          stored        \* the records in the store

flightVars == <<autopilot, past, saved, unsaved, recording, logs, stored>>

Modes == {"off", "idle", "armed", "flying"}
NoLog == [open |-> FALSE]
Now == Len(past)
Mode == past[Now]

\* The boot the aircraft is in at tick t: how often it was powered up again.
Boot(t) == Cardinality({i \in 2..t : past[i - 1] = "off" /\ past[i] # "off"})

FlownIn(from, to) == Cardinality({i \in from..(to - 1) : past[i] = "flying"})

-----------------------------------------------------------------------------
(* The readers.  A log holds a sample at every tick from its first to its  *)
(* last; `flying` and `armed` are state signals read sample to sample.     *)

Edges(log, from, to) ==
    Cardinality({i \in (log.first + 1)..log.last : past[i - 1] \in from /\ past[i] \in to})

ArmedModes == {"armed", "flying"}
DisarmedModes == {"off", "idle"}

\* Time between samples during which the first was airborne.
TimeWhileSet(log) ==
    Cardinality({i \in log.first..(log.last - 1) : past[i] = "flying"})

\* Mutant: only the armings the log shows.
Px4ArmCycles_Shown(log) == Edges(log, DisarmedModes, ArmedModes)

\* PX4 starts logging at arming, so a log that opens armed is inside a cycle.
Px4ArmCycles(log) ==
    Edges(log, DisarmedModes, ArmedModes) + (IF past[log.first] \in ArmedModes THEN 1 ELSE 0)

\* ArduPilot writes a message at each arm and disarm: with none the log does not say.
ArduPilotArmCycles(log) ==
    IF Edges(log, DisarmedModes, ArmedModes) + Edges(log, ArmedModes, DisarmedModes) = 0
    THEN Unknown
    ELSE Edges(log, DisarmedModes, ArmedModes)

ArmCycles(log) == IF autopilot = "px4" THEN Px4ArmCycles(log) ELSE ArduPilotArmCycles(log)

Lifetime(log) ==
    IF log.holds.counter
    THEN [atBoot |-> log.atBoot, seen |-> log.seen, seenAt |-> log.seenAt]
    ELSE Unknown

\* The start, from the first fix in the log.
Start(log) == IF log.holds.dated THEN log.first ELSE Unknown

Flight(log) == IF log.holds.flight THEN TimeWhileSet(log) ELSE Unknown

Px4Read(log, ref) ==
    [ref |-> ref, source |-> "px4", start |-> Start(log), span |-> log.last - log.first,
     flight |-> Flight(log), boot |-> Unknown, lifetime |-> Lifetime(log)]

ArduPilotRead(log, ref) ==
    [ref |-> ref, source |-> "ardupilot", start |-> Start(log), span |-> log.last - log.first,
     flight |-> Flight(log), boot |-> Boot(log.first), lifetime |-> Lifetime(log)]

\* read_log: by the family the log is of.
Read(log, ref) == IF autopilot = "px4" THEN Px4Read(log, ref) ELSE ArduPilotRead(log, ref)

-----------------------------------------------------------------------------
FlightsInit ==
    /\ autopilot \in Autopilots
    /\ past = <<"idle">>
    /\ saved = 0 /\ unsaved = 0
    /\ recording = NoLog
    /\ logs = {} /\ stored = {}

\* What follows what; power can be lost at any moment.  Only flight lasts: how long the
\* aircraft stands is nothing any answer depends on.
Follows(mode) ==
    CASE mode = "off"    -> {"idle"}
      [] mode = "idle"   -> {"armed", "off"}
      [] mode = "armed"  -> {"flying", "idle", "off"}
      [] mode = "flying" -> {"flying", "armed", "off"}

\* ArduPilot flushes its counter before a tolerance of flight is lost; PX4 saves at disarm.
Saves(mode, flight) ==
    IF autopilot = "ardupilot" THEN {TRUE, flight > Tolerance}
    ELSE {mode = "idle" /\ Mode \in ArmedModes}

Finished(log) == [log EXCEPT !.last = Now + 1]

\* ArduPilot's flushes are written into the log; PX4's are not.
Noted(log) ==
    IF autopilot = "ardupilot"
    THEN [log EXCEPT !.seen = saved', !.seenAt = Now + 1 - log.first]
    ELSE log

\* A PX4 log ends at disarm, any log when power is lost.
LogEnds(mode) == mode = "off" \/ (autopilot = "px4" /\ mode = "idle")

\* Bound: nothing is flown after the first upload, since what a reader makes of a log does not
\* depend on when it is uploaded.
Tick(mode) ==
    LET flight == unsaved + (IF Mode = "flying" THEN 1 ELSE 0)
    IN  /\ Now < MaxTicks /\ stored = {}
        /\ mode \in Follows(Mode)
        /\ past' = Append(past, mode)
        /\ \E saves \in Saves(mode, flight) :
              /\ saved' = IF saves THEN saved + flight ELSE saved
              /\ unsaved' = IF saves \/ mode = "off" THEN 0 ELSE flight
              /\ IF ~recording.open
                 THEN UNCHANGED <<recording, logs>>
                 ELSE LET log == IF saves /\ mode # "off" THEN Noted(recording) ELSE recording
                      IN  IF LogEnds(mode)
                          THEN /\ logs' = logs \cup {Finished(log)}
                               /\ recording' = NoLog
                          ELSE /\ recording' = log
                               /\ UNCHANGED logs
        /\ UNCHANGED <<autopilot, stored>>

\* PX4 starts a log at arming, ArduPilot by its own settings.
StartLog(holds) ==
    /\ ~recording.open
    /\ Cardinality(logs) < MaxLogs
    /\ IF autopilot = "px4"
       THEN Mode = "armed" /\ Now > 1 /\ past[Now - 1] = "idle"
       ELSE Mode # "off"
    /\ recording' = [open |-> TRUE, first |-> Now, last |-> Now, holds |-> holds,
                     atBoot |-> saved, seen |-> saved, seenAt |-> 0]
    /\ UNCHANGED <<autopilot, past, saved, unsaved, logs, stored>>

StopLog ==
    /\ recording.open /\ autopilot = "ardupilot"
    /\ Now > recording.first
    /\ logs' = logs \cup {[recording EXCEPT !.last = Now]}
    /\ recording' = NoLog
    /\ UNCHANGED <<autopilot, past, saved, unsaved, stored>>

\* Logs are taken off the aircraft when it is off, in any order.  One name is stored once
\* for an aircraft (a name is its place here); the same log may come under several.
UploadLog(log) ==
    /\ Mode = "off"
    /\ Cardinality(stored) < MaxUploads
    /\ stored' = stored \cup {Read(log, Cardinality(stored) + 1)}
    /\ UNCHANGED <<autopilot, past, saved, unsaved, recording, logs>>

FlightsNext ==
    \/ \E mode \in Modes : Tick(mode)
    \/ \E holds \in Contents : StartLog(holds)
    \/ StopLog
    \/ \E log \in logs : UploadLog(log)

FlightsSpec == FlightsInit /\ [][FlightsNext]_flightVars

-----------------------------------------------------------------------------
FlightsTypeOK ==
    /\ past \in Seq(Modes)
    /\ saved \in Nat /\ unsaved \in Nat
    /\ recording.open \in BOOLEAN
    /\ stored \subseteq FlightRecords(1..MaxUploads, Autopilots, 0..MaxTicks)

\* Flight the counter never got to keep: power lost before it was saved.
Lost == FlownIn(1, Now) - saved - unsaved

\* Records that show flight are dated and hold the counter.
Telling(records) ==
    \A r \in records : Known(r.flight) => Known(r.start) /\ Known(r.lifetime)

\* What the records add up to, whatever is uploaded, in whatever order, once or twice, is never
\* more than was flown, and of the flight between the first and the last log nothing is left out:
\* but for what the counter lost, and what it lags behind at each log's start.
FlightAddsUp ==
    LET told == FlightTime(stored, Unknown, TRUE)
        lag == Tolerance * Cardinality(stored)
        from == Min({r.start : r \in stored})
        to == Max({LogEnd(r) : r \in stored})
    IN  Telling(stored) =>
            /\ told <= FlownIn(1, Now) + lag
            /\ stored # {} /\ (\A r \in stored : Known(r.flight)) =>
                  FlownIn(from, to) <= told + Lost + lag

\* No arming is counted by two logs, and by none only if it fell into none and started none:
\* PX4's log opens armed and must count the arming that started it.
ArmingsCountedOnce ==
    LET arms == {i \in 2..Now : past[i - 1] \in DisarmedModes /\ past[i] \in ArmedModes}
        said == {log \in logs : Known(ArmCycles(log))}
        total == MapThenSumSet(ArmCycles, said)
    IN  /\ total <= Cardinality(arms)
        /\ total >= Cardinality({i \in arms :
               \E log \in said : /\ i \in log.first..log.last
                                 /\ i = log.first => autopilot = "px4"})

\* "Flight the autopilot counted that no log covers" (flight/reconcile.py): none of the logs
\* in the store shows it.
UnloggedIsUncovered ==
    Telling(stored) => \A f \in UnloggedFlights(stored) :
        f.seconds <= Tolerance
            + Cardinality({i \in 1..(Now - 1) :
                  /\ past[i] = "flying"
                  /\ \A r \in stored : Known(r.flight) => i \notin r.start..(LogEnd(r) - 1)})

\* Flight is counted once, as time and as armings.
CountedOnce == FlightsTypeOK /\ FlightAddsUp /\ ArmingsCountedOnce

=============================================================================
