-------------------------------- MODULE Life --------------------------------
(***************************************************************************)
(* Life limits and inspection intervals, the due list of an aircraft at a  *)
(* date, its board state, and the flights flown while it was grounded      *)
(* (life/engine.py, life/policy.py, life/grounded.py).  `flights` gives    *)
(* each aircraft's flight records, `records` what Ledger folds.  Clock and *)
(* flight time have one unit, of an hour or so: on whole units the code's  *)
(* roundings (to 0.001 h, to 0.1 s) do nothing.                            *)
(***************************************************************************)
EXTENDS Ledger, Usage

CONSTANTS PartRules,         \* component kind -> [limits]
          InspectionRules,   \* inspection -> [limits, tolerance, satisfiedBy]
          DueSoonPercent,    \* due_soon_fraction
          HoursSlack,        \* HOURS_SLACK_S
          DayLength,         \* units of time in a day
          MonthOf            \* the month each day lies in

\* The rules fleet.toml may set: a limit, a number, on some basis, a tolerance only of an hours
\* limit, and other inspections that start an inspection's interval too.
Limited(rule) ==
    /\ DOMAIN rule.limits \in SUBSET {"hours", "cycles", "calendar"} \ {{}}
    /\ \A b \in DOMAIN rule.limits : rule.limits[b] \in Int
Rule(rule) ==
    /\ Limited(rule) /\ rule.tolerance \in Int
    /\ rule.tolerance # 0 => "hours" \in DOMAIN rule.limits
Policy ==
    /\ \A kind \in DOMAIN PartRules : kind # None /\ Limited(PartRules[kind])
    /\ \A r \in DOMAIN InspectionRules :
          /\ Rule(InspectionRules[r])
          /\ InspectionRules[r].satisfiedBy \in Seq(DOMAIN InspectionRules \ {r})

\* Days are numbered from 0, a status not known is none of the board's, and None is no
\* completion of an inspection.
ASSUME LifeAssumption ==
    /\ DueSoonPercent \in 0..100 /\ HoursSlack \in Nat /\ DayLength \in Nat \ {0}
    /\ IsFiniteSet(DOMAIN MonthOf) /\ DOMAIN MonthOf = 0..(Cardinality(DOMAIN MonthOf) - 1)
    /\ Policy
    /\ Unknown \notin {"serviceable", "serviceable with deferred defects", "unserviceable",
                       "in maintenance", "AOG"}
    /\ None \notin [name : DOMAIN InspectionRules, done : Int, hours : Int,
                    carried : Int, derived : BOOLEAN]

DayOf(t) == t \div DayLength

DueDays(day, months) == {d \in DOMAIN MonthOf : MonthOf[d] = MonthOf[day] + months}
EndOfMonthAfter(day, months) == Max(DueDays(day, months))

State(remaining, limit, tolerance) ==
    CASE remaining < 0 /\ -remaining <= tolerance -> "overdue_within_tolerance"
      [] remaining < 0 /\ -remaining > tolerance -> "overdue"
      [] remaining >= 0 /\ 100 * remaining <= DueSoonPercent * limit -> "due_soon"
      [] OTHER -> "ok"

Item(part, rule, basis, remaining, state) ==
    [part |-> part, rule |-> rule, basis |-> basis, remaining |-> remaining, state |-> state]

-----------------------------------------------------------------------------
(* Parts: usage travels with a part over every airframe it was fitted to.  *)

InWindow(t, w) == Known(t) /\ w.from <= t /\ (w.to = None \/ t < w.to)
InstalledOn(c, key, asOf) ==
    \E i \in DOMAIN c.windows : c.windows[i].aircraft = key /\ InWindow(asOf, c.windows[i])

WindowHours(flights, w, until) ==
    MapThenSumSet(Seconds, {r \in Flown(flights[w.aircraft], until, TRUE) : InWindow(r.start, w)})
    + MapThenSumSet(LAMBDA f : f.seconds,
                    {f \in Unlogged(flights[w.aircraft], until, TRUE) : InWindow(f.after.start, w)})
WindowCycles(flights, w, until) ==
    MapThenSumSet(Cycle, {r \in Flown(flights[w.aircraft], until, TRUE) : InWindow(r.start, w)})

PartHours(flights, c, until) ==
    c.hours + SumFunction([i \in DOMAIN c.windows |-> WindowHours(flights, c.windows[i], until)])
PartCycles(flights, c, until) ==
    c.cycles + SumFunction([i \in DOMAIN c.windows |-> WindowCycles(flights, c.windows[i], until)])

\* Mutant: a limit is only passed, never reached.
PartItem_NotReached(flights, id, c, basis, limit, asOf) ==
    LET due == EndOfMonthAfter(c.since, limit)
        remaining == CASE basis = "hours" -> limit - PartHours(flights, c, asOf)
                       [] basis = "cycles" -> limit - PartCycles(flights, c, asOf)
                       [] basis = "calendar" -> due - DayOf(asOf)
        scale == IF basis = "calendar" THEN due - c.since ELSE limit
    IN  Item(id, c.kind, basis, remaining, State(remaining, scale, 0))

\* Completed units are reached at nothing remaining; a calendar life lasts its last day.
PartItem(flights, id, c, basis, limit, asOf) ==
    LET due == EndOfMonthAfter(c.since, limit)
        remaining == CASE basis = "hours" -> limit - PartHours(flights, c, asOf)
                       [] basis = "cycles" -> limit - PartCycles(flights, c, asOf)
                       [] basis = "calendar" -> due - DayOf(asOf)
        scale == IF basis = "calendar" THEN due - c.since ELSE limit
    IN  Item(id, c.kind, basis, remaining,
             IF basis # "calendar" /\ remaining <= 0 THEN "overdue"
             ELSE State(remaining, scale, 0))

\* No limits apply to a kind fleet.toml does not name.
PartItems(flights, id, c, asOf) ==
    IF c.kind \notin DOMAIN PartRules THEN {}
    ELSE LET limits == PartRules[c.kind].limits
         IN  {PartItem(flights, id, c, b, limits[b], asOf) : b \in DOMAIN limits}

-----------------------------------------------------------------------------
(* Inspections: the latest completion of an inspection, or of one that      *)
(* satisfies it, starts its interval; of two at one time the earlier named. *)

LatestNamed(done, name) ==
    {i \in DOMAIN done :
        /\ done[i].name = name
        /\ \A j \in DOMAIN done :
              done[j].name = name => done[j].done < done[i].done
                                     \/ (done[j].done = done[i].done /\ i <= j)}

\* None when no completion is on record.
Completion(done, rule) ==
    LET names == <<rule>> \o InspectionRules[rule].satisfiedBy
        found == {n \in DOMAIN names : LatestNamed(done, names[n]) # {}}
        latest(n) == done[CHOOSE i \in LatestNamed(done, names[n]) : TRUE]
        first == {n \in found : \A m \in found :
                     latest(m).done < latest(n).done
                     \/ (latest(m).done = latest(n).done /\ n <= m)}
    IN  IF found = {} THEN None ELSE latest(CHOOSE n \in first : TRUE)

\* Mutant: carried hours lengthen the interval.
HoursItem_CarriedAdded(rule, done, service) ==
    LET since == IF done = None THEN 0 ELSE done.hours + done.carried
        limit == InspectionRules[rule].limits["hours"]
        remaining == limit - (service - since)
    IN  Item(None, rule, "hours", remaining,
             State(remaining, limit, InspectionRules[rule].tolerance))

HoursItem(rule, done, service) ==
    LET since == IF done = None THEN 0 ELSE done.hours - done.carried
        limit == InspectionRules[rule].limits["hours"]
        remaining == limit - (service - since)
    IN  Item(None, rule, "hours", remaining,
             State(remaining, limit, InspectionRules[rule].tolerance))

NotKnownItem(rule, basis) == Item(None, rule, basis, Unknown, "unknown")

CalendarItem(rule, done, asOf) ==
    LET start == DayOf(done.done)
        due == EndOfMonthAfter(start, InspectionRules[rule].limits["calendar"])
    IN  IF done = None THEN NotKnownItem(rule, "calendar")
        ELSE Item(None, rule, "calendar", due - DayOf(asOf),
                  State(due - DayOf(asOf), due - start, 0))

\* Recorded hours above the most the records give at their date, or derived ones above the
\* least.
Disagree(logs, before, done) ==
    LET least == TimeInService(before, logs, done.done, FALSE)
    IN  \/ done.hours > MostTimeInService(before, logs, done.done) + HoursSlack
        \/ done.derived /\ Known(least) /\ done.hours > least + HoursSlack

\* Then the interval is counted from the least the records give, or, before the first log,
\* from the most, and only to say that it has run out.
DisagreeingItem(rule, done, logs, before, service) ==
    LET least == TimeInService(before, logs, done.done, FALSE)
        most == MostTimeInService(before, logs, done.done)
        read(hours) == HoursItem(rule, [done EXCEPT !.hours = hours], service)
    IN  IF Known(least) THEN read(least)
        ELSE IF read(most).state = "overdue" THEN read(most)
        ELSE NotKnownItem(rule, "hours")

InspectionItems(rule, done, logs, before, service, asOf) ==
    LET bases == DOMAIN InspectionRules[rule].limits
    IN  (IF "hours" \notin bases THEN {}
         ELSE {CASE ~Known(service) -> NotKnownItem(rule, "hours")
                 [] Known(service) /\ done # None /\ Disagree(logs, before, done) ->
                        DisagreeingItem(rule, done, logs, before, service)
                 [] OTHER -> HoursItem(rule, done, service)})
        \cup (IF "calendar" \notin bases THEN {} ELSE {CalendarItem(rule, done, asOf)})

-----------------------------------------------------------------------------
(* The due list and the board.                                             *)

NoRecord == [hasRecord |-> FALSE, service |-> Unknown, items |-> {}, orders |-> <<>>]

OrdersOf(a) == [w \in OpenOrders(a) |-> a.orders[w].state]

InstalledParts(records, key, asOf) ==
    {c \in DOMAIN records.parts : InstalledOn(records.parts[c], key, asOf)}

PartsDue(flights, records, key, asOf) ==
    UNION {PartItems(flights, c, records.parts[c], asOf) :
              c \in InstalledParts(records, key, asOf)}

InspectionsDue(a, logs, service, asOf) ==
    UNION {InspectionItems(rule, Completion(a.inspections, rule), logs, a.before, service, asOf) :
              rule \in DOMAIN InspectionRules}

DueOf(parts, a, logs, asOf) ==
    LET service == TimeInService(a.before, logs, asOf, TRUE)
    IN  [hasRecord |-> TRUE, service |-> service, orders |-> OrdersOf(a),
         items |-> parts \cup InspectionsDue(a, logs, service, asOf)]

DueList(flights, records, key, asOf) ==
    LET entered == key \in DOMAIN records.aircraft
    IN  IF ~entered /\ InstalledParts(records, key, asOf) = {} THEN NoRecord
        ELSE DueOf(PartsDue(flights, records, key, asOf),
                   IF entered THEN records.aircraft[key] ELSE NoAircraft, flights[key], asOf)

OrderStates(due) == {due.orders[w] : w \in DOMAIN due.orders}
ItemStates(due) == {i.state : i \in due.items}

\* The worst condition wins; Unknown is no leave to fly.
Board(due) ==
    CASE ~due.hasRecord -> Unknown
      [] due.hasRecord /\ "awaiting_parts" \in OrderStates(due) -> "AOG"
      [] due.hasRecord /\ "awaiting_parts" \notin OrderStates(due)
           /\ "in_work" \in OrderStates(due) -> "in maintenance"
      [] OTHER ->
           IF "overdue" \in ItemStates(due) THEN "unserviceable"
           ELSE IF "unknown" \in ItemStates(due) THEN Unknown
           ELSE IF "overdue_within_tolerance" \in ItemStates(due)
                   \/ "deferred" \in OrderStates(due)
                THEN "serviceable with deferred defects"
           ELSE "serviceable"

GroundingReasons(due) ==
    {<<"order", w>> : w \in {x \in DOMAIN due.orders : due.orders[x] # "deferred"}}
    \cup {<<"item", i>> : i \in {x \in due.items : x.state = "overdue"}}

Grounds(status) == status \in {"unserviceable", "in maintenance", "AOG"}

\* The answer at a date: what is live now and had happened by then.
DueAt(flights, E, key, asOf) == DueList(flights, ProjectAsOf(E, asOf), key, asOf)
StatusAt(flights, E, key, asOf) == Board(DueAt(flights, E, key, asOf))

\* Logs that started while the records show the aircraft grounded; one that shows no flight,
\* shows another again, or has no date is not judged.
Judgeable(logs, r) ==
    Known(r.start) /\ r \notin Duplicates(logs) /\ Known(r.flight) /\ r.flight > 0

GroundedFlights(flights, E, key, until) ==
    {r \in flights[key] :
        /\ Counted(r, until, TRUE)
        /\ Judgeable(flights[key], r)
        /\ Grounds(StatusAt(flights, E, key, r.start))}

=============================================================================
