------------------------------- MODULE Usage --------------------------------
(***************************************************************************)
(* What the flight records of an airframe add up to at a date              *)
(* (life/engine.py: log_end, counted, _usage, time_in_service and          *)
(* most_time_in_service).                                                  *)
(***************************************************************************)
EXTENDS FlightLogs

\* Mutant: a log's flight counts from the log's start.
LogEnd_Start(r) == r.start

\* A log's flight counts from the log's end.
LogEnd(r) == IF Known(r.start) THEN r.start + r.span ELSE Unknown

\* `until` is Unknown for no date; a log with no start counts whenever, or never.
Counted(r, until, undated) ==
    IF Known(LogEnd(r)) THEN ~Known(until) \/ LogEnd(r) <= until ELSE undated

Seconds(r) == IF Known(r.flight) THEN r.flight ELSE 0
Cycle(r) == IF ~Known(r.flight) \/ r.flight > 0 THEN 1 ELSE 0

\* The logs that count, and the flight no log covers, which counts with the log it followed.
Flown(logs, until, undated) ==
    {r \in logs \ Duplicates(logs) : Counted(r, until, undated)}
Unlogged(logs, until, undated) ==
    {f \in UnloggedFlights(logs) : Counted(f.after, until, undated)}

FlightTime(logs, until, undated) ==
    MapThenSumSet(Seconds, Flown(logs, until, undated))
      + MapThenSumSet(LAMBDA f : f.seconds, Unlogged(logs, until, undated))

\* The hours before the first log are one total, reached by it.
FirstLog(logs) ==
    LET starts == {r.start : r \in {s \in logs : Known(s.start)}}
    IN  IF starts = {} THEN Unknown ELSE Min(starts)

NotKnownAt(before, logs, until) ==
    Known(until) /\ before > 0 /\ Known(FirstLog(logs)) /\ until < FirstLog(logs)

MostTimeInService(before, logs, until) == before + FlightTime(logs, until, TRUE)

TimeInService(before, logs, until, undated) ==
    IF NotKnownAt(before, logs, until) THEN Unknown
    ELSE before + FlightTime(logs, until, undated)

=============================================================================
