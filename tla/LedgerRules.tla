----------------------------- MODULE LedgerRules ----------------------------
(***************************************************************************)
(* What may be written to the ledger (ledger/validate.py), and the ledger  *)
(* and the flight records as entries and logs come in, in whatever order   *)
(* they happened.                                                          *)
(***************************************************************************)
EXTENDS Life

CONSTANTS Showcase,     \* the public research aircraft, which keep no records
          Today,        \* now, with the allowed clock skew
          Topics        \* histories to check: [drafts, logs, aircraft, entries, uploads], the
                        \* last two their bounds

WorkStates == {"deferred", "in_work", "awaiting_parts"}

\* What a draft of each kind holds (validate.py DETAILS).
Form(kind) ==
    CASE kind = "work_order.open" -> [work : Nat \cup {None}, state : WorkStates]
      [] kind = "work_order.state" -> [work : Nat, state : WorkStates]
      [] kind = "work_order.close" -> [work : Nat]
      [] kind = "inspection.done" ->
            [name : STRING, hours : Nat \cup {None}, carried : Nat, derived : BOOLEAN]
      [] kind = "time_in_service.set" -> [before : Nat]
      [] kind = "component.register" -> [kind : STRING, since : Nat, hours : Nat, cycles : Nat]
      [] kind \in {"component.install", "component.remove"} -> [aircraft : STRING]
      [] kind = "retraction" -> {<<>>}

\* The calendar reaches to the end of a part's calendar life.
LifeEnds(part) ==
    part.kind \in DOMAIN PartRules =>
        LET limits == PartRules[part.kind].limits
        IN  "calendar" \in DOMAIN limits => DueDays(part.since, limits["calendar"]) # {}

ASSUME TopicsAssumption ==
    /\ Today \in Nat
    /\ \A k \in DOMAIN Topics :
          /\ Topics[k].logs \subseteq Topics[k].aircraft \X FlightRecords(Nat, STRING, Nat)
          /\ \A d \in Topics[k].drafts :
                /\ d.kind \in Kinds /\ d.subject # None
                /\ d.at \in Nat /\ d.details \in Form(d.kind)
                /\ d.kind = "component.register" => LifeEnds(d.details)

VARIABLES topic,
          entries,      \* the ledger
          flights       \* each aircraft's flight records

vars == <<topic, entries, flights>>

NextId(E) == Cardinality(E) + 1

-----------------------------------------------------------------------------
(* The checks.  Each says that an entry passes it.                         *)

ShapeHolds(d) == d.at <= Today /\ (d.kind = "retraction" => d.supersedes # 0)

SubjectsHold(aircraft, records, e) ==
    LET parts == DOMAIN records.parts
    IN  /\ e.kind \in AircraftKinds => e.subject \in aircraft \ (parts \cup Showcase)
        /\ e.kind \in ComponentKinds =>
              /\ e.subject \notin aircraft
              /\ (e.kind = "component.register") = (e.subject \notin parts)
        /\ e.kind \in {"component.install", "component.remove"} =>
              e.details.aircraft \in aircraft \ Showcase

PolicyHolds(e) ==
    /\ e.kind = "component.register" => e.details.kind \in DOMAIN PartRules
    /\ e.kind = "inspection.done" => e.details.name \in DOMAIN InspectionRules

\* Live entries that stand on entry t (of removals the code names the first).
Dependents(E, t) ==
    LET same == {e \in Live(E) : e.subject = t.subject /\ e.id # t.id}
    IN  CASE t.kind = "component.register" ->
                {e \in same : e.kind \in {"component.install", "component.remove"}}
          [] t.kind = "work_order.open" ->
                {e \in same : /\ e.kind \in {"work_order.state", "work_order.close"}
                              /\ e.details.work = t.details.work}
          [] t.kind = "component.install" ->
                {e \in same : /\ e.kind = "component.remove" /\ e.at >= t.at
                              /\ e.details.aircraft = t.details.aircraft}
          [] OTHER -> {}

CorrectionHolds(E, d) ==
    d.supersedes # 0 =>
        /\ d.supersedes \in Ids(E)
        /\ LET t == ById(E, d.supersedes)
           IN  /\ t.subject = d.subject
               /\ ~Superseded(E, t.id)
               /\ d.kind # "retraction" => d.at = t.at
               /\ Dependents(E, t) = {}

\* Mutant: a part at its limit may be fitted.
LimitReached_Passed(logs, c, at) ==
    c.kind \in DOMAIN PartRules /\ \E b \in DOMAIN PartRules[c.kind].limits :
        LET limit == PartRules[c.kind].limits[b]
        IN  CASE b = "hours" -> PartHours(logs, c, at) > limit
              [] b = "cycles" -> PartCycles(logs, c, at) > limit
              [] b = "calendar" -> DayOf(at) > EndOfMonthAfter(c.since, limit)

\* Each limit counts as the board counts it, but for a calendar limit's last day.
LimitReached(logs, c, at) ==
    c.kind \in DOMAIN PartRules /\ \E b \in DOMAIN PartRules[c.kind].limits :
        LET limit == PartRules[c.kind].limits[b]
        IN  CASE b = "hours" -> PartHours(logs, c, at) >= limit
              [] b = "cycles" -> PartCycles(logs, c, at) >= limit
              [] b = "calendar" -> DayOf(at) > EndOfMonthAfter(c.since, limit)

OrdersOn(records, key) ==
    IF key \in DOMAIN records.aircraft THEN records.aircraft[key].orders ELSE <<>>

BeforeOn(records, key) ==
    IF key \in DOMAIN records.aircraft THEN records.aircraft[key].before ELSE 0

\* An id of a work order is used once on an aircraft, over its whole history.
WorkIsNew(whole, e) ==
    e.kind = "work_order.open" => e.details.work \notin DOMAIN OrdersOn(whole, e.subject)

\* Mutant: a part may go on a second aircraft.
TransitionHolds_OtherAircraft(logs, then, e) ==
    LET orders == OrdersOn(then, e.subject)
        c == then.parts[e.subject]
        on == {i \in DOMAIN c.windows : c.windows[i].to = None}
    IN  CASE e.kind \in {"work_order.state", "work_order.close"} ->
                e.details.work \in DOMAIN orders /\ orders[e.details.work].closed = None
          [] e.kind = "component.install" ->
                /\ e.subject \in DOMAIN then.parts /\ ~LimitReached(logs, c, e.at)
                /\ \A i \in on : c.windows[i].aircraft # e.details.aircraft
          [] e.kind = "component.remove" ->
                /\ e.subject \in DOMAIN then.parts
                /\ \E i \in on : c.windows[i].aircraft = e.details.aircraft
          [] OTHER -> TRUE

\* e against the records as they stood when it happened.
TransitionHolds(logs, then, e) ==
    LET orders == OrdersOn(then, e.subject)
        c == then.parts[e.subject]
        on == {i \in DOMAIN c.windows : c.windows[i].to = None}
    IN  CASE e.kind \in {"work_order.state", "work_order.close"} ->
                e.details.work \in DOMAIN orders /\ orders[e.details.work].closed = None
          [] e.kind = "component.install" ->
                e.subject \in DOMAIN then.parts /\ on = {} /\ ~LimitReached(logs, c, e.at)
          [] e.kind = "component.remove" ->
                /\ e.subject \in DOMAIN then.parts
                /\ on # {} /\ c.windows[Min(on)].aircraft = e.details.aircraft
          [] OTHER -> TRUE

\* What a person may leave out: a work order's id, and the hours of an inspection, which are
\* then the least the records allow.
DerivedHours(logs, then, e) ==
    TimeInService(BeforeOn(then, e.subject), logs[e.subject], e.at, FALSE)

\* Mutant: a work order without an id is stored without one.
Filled_NoWorkId(logs, then, e) ==
    IF e.kind = "inspection.done" /\ e.details.hours = None
    THEN [e EXCEPT !.details.hours = DerivedHours(logs, then, e), !.details.derived = TRUE]
    ELSE e

Filled(logs, then, e) ==
    CASE e.kind = "work_order.open" /\ e.details.work = None ->
            [e EXCEPT !.details.work = e.id]
      [] e.kind = "inspection.done" /\ e.details.hours = None ->
            [e EXCEPT !.details.hours = DerivedHours(logs, then, e), !.details.derived = TRUE]
      [] OTHER -> e

Derivable(e) == e.kind = "inspection.done" => Known(e.details.hours)

-----------------------------------------------------------------------------
(* What a write changes in the live entries besides adding itself: the     *)
(* entries it brings back, and those it ends, at any depth of a chain of   *)
(* retractions.                                                            *)

Returned(E, T, e) == {x \in Live(T) \ {e} : x.id \notin LiveIds(E)}
Revived(E, T, e) == {x \in Returned(E, T, e) : x.kind # "retraction"}
Ended(E, T) == {x \in Live(E) : x.id \notin LiveIds(T) /\ x.kind # "retraction"}

\* x is the only live one of its kind where the records allow one ...
OnlyOfItsKind(T, x) ==
    LET others == {y \in Live(T) : y.id # x.id /\ y.subject = x.subject}
    IN  /\ x.kind = "component.register" => \A y \in others : y.kind # x.kind
        /\ x.supersedes # 0 => \A y \in others : y.supersedes # x.supersedes
        /\ x.kind = "work_order.open" =>
              \A y \in others : y.kind = x.kind => y.details.work # x.details.work

\* ... and, with these, at its place in the fold.
Twins(T, x) ==
    {y \in Live(T) : /\ y.id # x.id /\ "retraction" \notin {x.kind, y.kind}
                     /\ y.subject = x.subject /\ FoldKey(T, y) = FoldKey(T, x)}

OnlyOne(T, x) == OnlyOfItsKind(T, x) /\ Twins(T, x) = {}

\* Mutant: what comes back is not compared with what has taken its place.
RevivedEntriesHold_NoTwin(E, T, logs, e) ==
    \A x \in Returned(E, T, e) :
        x.kind # "retraction" =>
            LET whole == Project({y \in T : y.id \notin {x.id, x.supersedes}})
            IN  /\ SubjectsHold(DOMAIN logs, whole, x)
                /\ PolicyHolds(x)
                /\ TransitionHolds(logs, ProjectBefore(T, x), x)

RevivedEntriesHold(E, T, logs, e) ==
    \A x \in Returned(E, T, e) :
        /\ OnlyOne(T, x)
        /\ x.kind # "retraction" =>
              LET whole == Project({y \in T : y.id \notin {x.id, x.supersedes}})
              IN  /\ SubjectsHold(DOMAIN logs, whole, x)
                  /\ PolicyHolds(x)
                  /\ WorkIsNew(whole, x)
                  /\ TransitionHolds(logs, ProjectBefore(T, x), x)

FirstInFold(T, S) == CHOOSE x \in S : \A y \in S : ~Precedes(FoldKey(T, y), FoldKey(T, x))

\* Mutant: judged again from the entry written, not from the first it brings back or ends.
LaterEntriesStillHold_FromHere(E, T, logs, e) ==
    \A x \in Live(T) \ {e} :
        /\ x.subject = e.subject /\ x.kind # "retraction"
        /\ Precedes(FoldKey(T, e), FoldKey(T, x))
        => TransitionHolds(logs, ProjectBefore(T, x), x)

LaterEntriesStillHold(E, T, logs, e) ==
    LET corrected == IF e.supersedes = 0 THEN e ELSE ById(E, e.supersedes)
        cut == FirstInFold(T, {corrected} \cup Revived(E, T, e) \cup Ended(E, T))
    IN  \A x \in Live(T) \ {e} :
            /\ x.subject = e.subject /\ x.kind # "retraction"
            /\ Precedes(FoldKey(T, cut), FoldKey(T, x))
            => TransitionHolds(logs, ProjectBefore(T, x), x)

\* s is the later of the two; of two at one place, the newer.
Outlasts(T, s, y) ==
    \/ Precedes(FoldKey(T, y), FoldKey(T, s))
    \/ FoldKey(T, y) = FoldKey(T, s) /\ y.id < s.id

\* Mutant: only the hours in force at its date.
CountedWith_InForce(T, x) ==
    LET earlier == {s \in Live(T) : /\ s.subject = x.subject /\ s.kind = "time_in_service.set"
                                    /\ Precedes(FoldKey(T, s), FoldKey(T, x))}
        inForce == CHOOSE s \in earlier : \A y \in earlier \ {s} : Outlasts(T, s, y)
    IN  IF earlier = {} THEN {0} ELSE {inForce.details.before}

\* The hours before the first log that a dated answer counts the interval from x with: those
\* in force at its date, and every later figure.
CountedWith(T, x) ==
    LET totals == {s \in Live(T) : s.subject = x.subject /\ s.kind = "time_in_service.set"}
        earlier == {s \in totals : Precedes(FoldKey(T, s), FoldKey(T, x))}
        inForce == CHOOSE s \in earlier : \A y \in earlier \ {s} : Outlasts(T, s, y)
        later == {s \in totals : Precedes(FoldKey(T, x), FoldKey(T, s))}
    IN  (IF earlier = {} THEN {0} ELSE {inForce.details.before})
        \cup {s.details.before : s \in later}

Excess(T, logs, x) ==
    Max({x.details.hours - MostTimeInService(b, logs[x.subject], x.at) :
            b \in CountedWith(T, x)})

\* An inspection states no more hours than the aircraft can have had; one that already did is
\* not put further past.
InspectionHoursHold(E, T, logs, e) ==
    LET changed == {e} \cup Revived(E, T, e) \cup Ended(E, T)
        totals == \E x \in changed : x.kind = "time_in_service.set"
        judged == {x \in Live(T) : /\ x.subject = e.subject /\ x.kind = "inspection.done"
                                   /\ totals \/ x \in {e} \cup Revived(E, T, e)}
        held(x) == {y \in Live(E) : /\ y.kind = "inspection.done"
                                    /\ y.id = IF x = e THEN e.supersedes ELSE x.id}
    IN  \A x \in judged :
            \/ Excess(T, logs, x) <= HoursSlack
            \/ \E y \in held(x) : Excess(T, logs, x) <= Max({0, Excess(E, logs, y)}) + HoursSlack

-----------------------------------------------------------------------------
(* The entry as it would be stored, and whether it may be.                 *)

Candidate(E, logs, d) ==
    LET e == [d EXCEPT !.id = NextId(E)]
    IN  Filled(logs, ProjectBefore(E \cup {e}, e), e)

Acceptable(E, logs, e) ==
    LET T == E \cup {e}
        others == Project({x \in E : x.id # e.supersedes})
    IN  /\ ShapeHolds(e)
        /\ SubjectsHold(DOMAIN logs, Project(E), e)
        /\ CorrectionHolds(E, e)
        /\ PolicyHolds(e)
        /\ Derivable(e)
        /\ WorkIsNew(others, e)
        /\ TransitionHolds(logs, ProjectBefore(T, e), e)
        /\ RevivedEntriesHold(E, T, logs, e)
        /\ InspectionHoursHold(E, T, logs, e)
        /\ LaterEntriesStillHold(E, T, logs, e)

Write(d) ==
    LET e == Candidate(entries, flights, d)
    IN  /\ Cardinality(entries) < Topics[topic].entries
        /\ Acceptable(entries, flights, e)
        /\ entries' = entries \cup {e}
        /\ UNCHANGED <<topic, flights>>

\* A log is evidence: it is never refused, but for one of a name the aircraft has already.
Upload(key, log) ==
    /\ log.ref \notin {r.ref : r \in flights[key]}
    /\ SumFunction([k \in DOMAIN flights |-> Cardinality(flights[k])]) < Topics[topic].uploads
    /\ flights' = [flights EXCEPT ![key] = @ \cup {log}]
    /\ UNCHANGED <<topic, entries>>

Init ==
    /\ topic \in DOMAIN Topics
    /\ entries = {}
    /\ flights = [key \in Topics[topic].aircraft |-> {}]

Next ==
    \/ \E d \in Topics[topic].drafts, s \in {0} \cup Ids(entries) :
          Write([id |-> 0, supersedes |-> s, subject |-> d.subject, kind |-> d.kind,
                 at |-> d.at, details |-> d.details])
    \/ \E upload \in Topics[topic].logs : Upload(upload[1], upload[2])

Spec == Init /\ [][Next]_vars

-----------------------------------------------------------------------------
Dates == 0..(Today + 2)

Details ==
    [work : Nat, state : WorkStates]
    \cup [work : Nat]
    \cup [kind : DOMAIN PartRules, since : Nat, hours : Nat, cycles : Nat]
    \cup [aircraft : DOMAIN flights]
    \cup [name : DOMAIN InspectionRules, hours : Nat, carried : Nat, derived : BOOLEAN]
    \cup [before : Nat]
    \cup {<<>>}

\* Ids run in the order of entry without a gap, an entry supersedes an earlier one or none and
\* has happened by today, and what a person left out is filled in before it is stored
\* (validate.py validate, append).
TypeOK ==
    /\ Ids(entries) = 1..Cardinality(entries)
    /\ \A e \in entries :
          /\ e.kind \in Kinds /\ e.at \in 0..Today /\ e.supersedes \in 0..(e.id - 1)
          /\ e.details \in Details

NoTwins(E) == \A x \in Live(E) : Twins(E, x) = {}

\* x was written over a retraction, or corrects an entry that was.
OverRetraction(E, x) ==
    LET over[i \in Ids(E)] ==
            LET s == ById(E, i).supersedes
            IN  s \in Ids(E) /\ (ById(E, s).kind = "retraction" \/ over[s])
    IN  over[x.id]

\* However entries were corrected, retracted and brought back: one live registration of a
\* part, one live entry superseding another and one opening of a work order; and one at a
\* place in the fold, but for those written over retractions of entries there: a new entry
\* is not asked whether its place is taken (validate.py _twin, _subjects, _transitions).
OnlyOneOfEach ==
    \A e \in Live(entries) :
        /\ OnlyOfItsKind(entries, e)
        /\ \A x \in Twins(entries, e) : OverRetraction(entries, x)

\* Every live entry still fits the records as they stood when it happened, whatever was
\* written before and after it: an order is changed or closed while it is open, a part is
\* taken off where it was fitted and fitted when it is on no aircraft.
NoLimits(c) == [c EXCEPT !.kind = None]
WithoutLimits(r) == [r EXCEPT !.parts = [c \in DOMAIN @ |-> NoLimits(@[c])]]
LiveEntriesHold ==
    \A e \in Live(entries) :
        TransitionHolds(flights, WithoutLimits(ProjectBefore(entries, e)), e)

\* At no moment is a part on two aircraft.  It is not so once two entries stand at one place.
OnOneAircraft ==
    LET parts == Project(entries).parts
    IN  \A c \in DOMAIN parts : \A t \in Dates :
            Cardinality({key \in DOMAIN flights : InstalledOn(parts[c], key, t)}) <= 1

\* The live entries can all have happened, and nothing of them in two places at once, unless
\* two of them stand at one place in the fold and neither is judged against the other.
EntriesHold == LiveEntriesHold /\ (NoTwins(entries) => OnOneAircraft)

\* A write leaves no part fitted that the board would have called overdue as it was fitted
\* ("this is the board's boundary too"), unless it was so before.
FittedOverdue(E, logs) ==
    {e \in Live(E) :
        /\ e.kind = "component.install"
        /\ LET c == ProjectBefore(E, e).parts[e.subject]
           IN  \E i \in PartItems(logs, e.subject, c, e.at) : i.state = "overdue"}
NeverFittedAtItsLimit ==
    [][entries' # entries => 
            FittedOverdue(entries', flights) \subseteq FittedOverdue(entries, flights)]_vars

\* How far the hours of x are past the time in service that the board at date t counts them with.
Past(E, logs, x, t) ==
    x.details.hours
        - MostTimeInService(BeforeOn(ProjectAsOf(E, t), x.subject), logs[x.subject], x.at)

\* After a write the board counts no inspection, at any date from its own on, with hours past
\* the time in service the aircraft can have had, unless the records already held that same
\* inspection past it, and then no further: the interval it starts stays measurable.  It is
\* not so once two entries stand at one place (validate.py _inspection_hours_hold).
StatedHoursStayCredible ==
    [][entries' # entries /\ NoTwins(entries') =>
          \A x \in {i \in Live(entries') : i.kind = "inspection.done"} : \A t \in x.at..(Today + 2) :
              \/ Past(entries', flights, x, t) <= HoursSlack
              \/ \E y \in Live(entries) :
                    /\ y.kind = "inspection.done"
                    /\ y.id = IF x \in entries THEN x.id ELSE x.supersedes
                    /\ Past(entries', flights, x, t)
                          <= Max({0, Excess(entries, flights, y)}) + HoursSlack]_vars

\* An inspection's interval holds at least all the dated flight since the inspection that
\* starts it, whatever hours were stated, changed or derived, and whatever was uploaded.
Since(logs, done, t) ==
    MapThenSumSet(Seconds, {r \in Flown(logs, t, FALSE) : done = None \/ LogEnd(r) > done.done})
IntervalHoldsFlightSince ==
    \A key \in DOMAIN flights : \A t \in Dates :
        LET records == ProjectAsOf(entries, t)
        IN  key \in DOMAIN records.aircraft =>
            \A i \in DueList(flights, records, key, t).items :
                i.part = None /\ i.basis = "hours" /\ i.state # "unknown" =>
                    LET done == Completion(records.aircraft[key].inspections, i.rule)
                    IN  InspectionRules[i.rule].limits["hours"] - i.remaining
                            >= Since(flights[key], done, t) - HoursSlack

\* The board answers serviceable only when, counted from the entries themselves, no work
\* order is open and no part on the aircraft has flown its life.
OpenThen(key, t) ==
    LET past == {e \in Live(entries) : e.subject = key /\ e.at <= t}
    IN  {e.details.work : e \in {x \in past : x.kind = "work_order.open"}}
        \ {e.details.work : e \in {x \in past : x.kind = "work_order.close"}}
FittedThen(c, t) ==
    {e \in Live(entries) :
        /\ e.kind = "component.install" /\ e.subject = c /\ e.at <= t
        /\ ~\E x \in Live(entries) :
              /\ x.kind = "component.remove" /\ x.subject = c /\ x.at <= t
              /\ Precedes(FoldKey(entries, e), FoldKey(entries, x))}
FlownSinceFitted(e, t) ==
    MapThenSumSet(Seconds, {r \in Flown(flights[e.details.aircraft], t, FALSE) : r.start >= e.at})
ServiceableMeansCounted ==
    \A key \in DOMAIN flights : \A t \in Dates :
        StatusAt(flights, entries, key, t) = "serviceable" =>
            /\ OpenThen(key, t) = {}
            /\ \A c \in {e.subject : e \in entries} : \A e \in FittedThen(c, t) :
                  e.details.aircraft = key =>
                      LET part == Project(entries).parts[c]
                          rule == PartRules[part.kind]
                      IN  "hours" \in DOMAIN rule.limits =>
                              part.hours + FlownSinceFitted(e, t) < rule.limits["hours"]

\* A log found to have been flown while the aircraft was grounded does not stand on its own
\* flight, nor on what the counter shows after it ("the log's own flight is not in that state,
\* because a log counts from its end", grounded.py): had nothing been flown in it, the aircraft
\* was grounded then all the same.  A log of no length ends as it starts.
Unflown(logs, r) == (logs \ {r}) \cup {[r EXCEPT !.flight = 0]}
OwnFlightNotHeld ==
    \A key \in DOMAIN flights :
        \A r \in GroundedFlights(flights, entries, key, Unknown) :
            r.span > 0 =>
                Grounds(StatusAt([flights EXCEPT ![key] = Unflown(@, r)], entries, key, r.start))

\* The answer of the board agrees with the entries and the flight: serviceable only with life
\* left and nothing open, and flown while grounded only if something else grounds it.
BoardAgrees == ServiceableMeansCounted /\ OwnFlightNotHeld

\* Undoing a retraction gives back the records folded from the entries that are live without
\* it; and, unless an entry was written over it before, the records as they were without it
\* (an entry written over it has lost its place in the fold there).
UndoRestores ==
    [][\A e \in entries' \ entries :
          LET without == {x \in entries : x.id # e.supersedes}
          IN  /\ e.kind = "retraction"
              /\ e.supersedes # 0 /\ ById(entries, e.supersedes).kind = "retraction"
              => /\ Project(entries') = Fold(entries', Live(without))
                 /\ (\A x \in entries : x.supersedes # e.supersedes) =>
                       Project(entries') = Project(without)]_vars

=============================================================================
