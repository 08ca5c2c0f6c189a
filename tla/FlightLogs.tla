----------------------------- MODULE FlightLogs -----------------------------
(***************************************************************************)
(* Flight records and their reconciliation with the autopilot's lifetime   *)
(* counter (flight/record.py, flight/reconcile.py).  A record is what a    *)
(* reader made of one log; a value the log cannot support is Unknown.      *)
(* Times and durations are whole units.                                    *)
(***************************************************************************)
EXTENDS Integers, Sequences, FiniteSets, FiniteSetsExt, SequencesExt

CONSTANTS Unknown,          \* a value the log cannot support
          Tolerance,        \* FLUSH_INTERVAL_S
          DuplicateWindow   \* DUPLICATE_WINDOW_S

ASSUME FlightLogsAssumption ==
    /\ Unknown \notin Int
    /\ Tolerance \in Nat
    /\ DuplicateWindow \in Nat \ {0}

Known(v) == v # Unknown

\* p comes before q in lexicographic order; they have one length.
Precedes(p, q) ==
    \E i \in DOMAIN p : p[i] < q[i] /\ \A j \in 1..(i - 1) : p[j] = q[j]

\* The elements of S by their places, which are all different.
SortedBy(place(_), S) ==
    [n \in 1..Cardinality(S) |->
        CHOOSE x \in S : Cardinality({y \in S : Precedes(place(y), place(x))}) = n - 1]

(* A record: the log's name, the autopilot family, what the log says of its
   start, span, flight, boot and lifetime counter. *)
FlightRecords(Refs, Sources, Times) ==
    [ref : Refs, source : Sources,
     start : Times \cup {Unknown}, span : Times, flight : Times \cup {Unknown},
     boot : Nat \cup {Unknown},
     lifetime : [atBoot : Nat, seen : Nat, seenAt : Nat] \cup {Unknown}]

\* The order the store returns flights in: dated ones first, by start, then by name.
StorePlace(r) == IF Known(r.start) THEN <<0, r.start, r.ref>> ELSE <<1, 0, r.ref>>

Checkable(r) == Known(r.lifetime) /\ Known(r.flight)

Group(logs, source) == {r \in logs : r.source = source /\ Checkable(r)}

Booted(g) == \A r \in g : Known(r.boot)
Dated(g) == \A r \in g : Known(r.start)
Orderable(g) == Booted(g) \/ Dated(g)

\* By boot count when every log has one, else by start; a stable sort of the store's order.
Ordered(g) ==
    LET place(r) == IF Booted(g) THEN <<r.boot>> \o StorePlace(r) ELSE StorePlace(r)
    IN  SortedBy(place, g)

Within(a, b) == a - b < DuplicateWindow /\ b - a < DuplicateWindow

\* The same log uploaded twice shows the same UTC start and span.
SameLog(r, s) ==
    /\ Known(r.start) /\ Known(s.start) /\ Within(r.start, s.start)
    /\ Within(r.span, s.span)

\* Mutant: the same log uploaded twice is kept twice.
FirstUploads_All(o) == o

\* The logs of a sequence but those that show a kept earlier one again.
FirstUploads(o) ==
    FoldLeft(LAMBDA kept, r : IF \E k \in ToSet(kept) : SameLog(r, k) THEN kept
                              ELSE Append(kept, r),
             <<>>, o)

SourcesOf(logs) == {r.source : r \in logs}
Groups(logs) == {g \in {Group(logs, s) : s \in SourcesOf(logs)} : g # {} /\ Orderable(g)}

Duplicates(logs) == UNION {g \ ToSet(FirstUploads(Ordered(g))) : g \in Groups(logs)}

\* Consecutive logs of one autopilot family, duplicates left out.
Pairs(logs) ==
    UNION {LET o == FirstUploads(Ordered(g))
           IN  {[log |-> o[i], next |-> o[i + 1]] : i \in 1..(Len(o) - 1)} : g \in Groups(logs)}

\* Mutant: the log's own flight is not taken off.
UnloggedBetween_WithLogged(p) == p.next.lifetime.atBoot - p.log.lifetime.atBoot

\* Mutant: from the counter as the log last saw it.
UnloggedBetween_LastSeen(p) ==
    p.next.lifetime.atBoot - (p.log.lifetime.seen + p.log.flight)

\* The autopilot's advance to the next log's boot that this log does not show.
UnloggedBetween(p) ==
    p.next.lifetime.atBoot - (p.log.lifetime.atBoot + p.log.flight)

UnloggedFlights(logs) ==
    {[after |-> p.log, seconds |-> UnloggedBetween(p)] :
        p \in {q \in Pairs(logs) : UnloggedBetween(q) > Tolerance}}

InLogMismatch(r) ==
    LET gap == (r.lifetime.seen - r.lifetime.atBoot) - r.flight
    IN  r.lifetime.seenAt > 0 /\ (gap > Tolerance \/ gap < -Tolerance)

\* The logs a counter_mismatch finding names.
Mismatches(logs) ==
    {p.log : p \in {q \in Pairs(logs) : UnloggedBetween(q) < -Tolerance}}
    \cup {r \in UNION Groups(logs) \ Duplicates(logs) : InLogMismatch(r)}

=============================================================================
