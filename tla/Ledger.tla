------------------------------- MODULE Ledger -------------------------------
(***************************************************************************)
(* The maintenance ledger: entries that are never edited or deleted, which *)
(* of them are live, and the records folded from those                     *)
(* (ledger/model.py, ledger/project.py).  An entry is                      *)
(*   [id, subject, kind, at, supersedes, details]                          *)
(* with `supersedes` 0 when it supersedes nothing.  A ledger is a set of   *)
(* entries; an entry's id is its place in the order of entry.              *)
(***************************************************************************)
EXTENDS FlightLogs

CONSTANT None   \* no value: a date not given, a window still open

ASSUME LedgerAssumption == None \notin Int

AircraftKinds == {"work_order.open", "work_order.state", "work_order.close",
                  "inspection.done", "time_in_service.set"}
ComponentKinds == {"component.register", "component.install", "component.remove"}
Kinds == AircraftKinds \cup ComponentKinds \cup {"retraction"}

Ids(E) == {e.id : e \in E}
ById(E, id) == CHOOSE e \in E : e.id = id

-----------------------------------------------------------------------------
(* Liveness, decided from the newest entry backwards: an entry is dead when *)
(* a live newer one supersedes it.                                         *)

\* Mutant: dead once superseded, whether or not by a live entry.
LiveIds_EverSuperseded(E) == {i \in Ids(E) : ~\E e \in E : e.supersedes = i}

LiveIds(E) ==
    LET alive[i \in Ids(E)] ==
            ~\E e \in E : e.id > i /\ e.supersedes = i /\ alive[e.id]
    IN  {i \in Ids(E) : alive[i]}

Live(E) == LET ids == LiveIds(E) IN {e \in E : e.id \in ids}

\* Dead entry, superseded by a live one.
Superseded(E, id) == \E e \in Live(E) : e.supersedes = id
SupersededBy(E, id) == CHOOSE e \in Live(E) : e.supersedes = id

\* A correction takes the place of the entry it corrects, through a chain of them.
RootId(E, e) ==
    LET root[i \in Ids(E)] ==
            LET s == ById(E, i).supersedes IN IF s \in Ids(E) THEN root[s] ELSE i
    IN  root[e.id]

FoldKey(E, e) == <<e.at, RootId(E, e)>>

\* The entry of S that is folded last; of two at one place, the older.
LastInFold(E, S) ==
    LET place == [e \in S |-> <<e.at, RootId(E, e), -e.id>>]
    IN  CHOOSE e \in S : \A x \in S \ {e} : Precedes(place[x], place[e])

-----------------------------------------------------------------------------
(* The records folded from live entries: of each aircraft with entries,     *)
(* the hours before its first log, the inspections done and the work        *)
(* orders; of each registered component its particulars and the windows it  *)
(* was fitted to an aircraft.                                              *)

NoAircraft == [before |-> 0, inspections |-> <<>>, orders |-> <<>>]
NoRecords == [aircraft |-> <<>>, parts |-> <<>>]

WithKey(f, k, v) == [x \in DOMAIN f \cup {k} |-> IF x = k THEN v ELSE f[x]]

FoldAircraft(a, e) ==
    LET d == e.details
        known == "work" \in DOMAIN d /\ d.work \in DOMAIN a.orders
    IN  CASE e.kind = "time_in_service.set" -> [a EXCEPT !.before = d.before]
          [] e.kind = "inspection.done" ->
                [a EXCEPT !.inspections =
                    Append(@, [name |-> d.name, done |-> e.at, hours |-> d.hours,
                               carried |-> d.carried, derived |-> d.derived])]
          [] e.kind = "work_order.open" ->
                [a EXCEPT !.orders =
                    WithKey(@, d.work, [opened |-> e.at, state |-> d.state, closed |-> None])]
          [] e.kind = "work_order.state" /\ known -> [a EXCEPT !.orders[d.work].state = d.state]
          [] e.kind = "work_order.close" /\ known -> [a EXCEPT !.orders[d.work].closed = e.at]
          [] OTHER -> a

\* A removal ends the first window still open on that aircraft.
FirstOpen(windows, key) ==
    {i \in DOMAIN windows :
        /\ windows[i].aircraft = key /\ windows[i].to = None
        /\ \A j \in 1..(i - 1) : ~(windows[j].aircraft = key /\ windows[j].to = None)}

FoldPart(parts, e) ==
    LET d == e.details
        known == e.subject \in DOMAIN parts
    IN  CASE e.kind = "component.register" ->
                WithKey(parts, e.subject,
                        [kind |-> d.kind, since |-> d.since, hours |-> d.hours,
                         cycles |-> d.cycles, windows |-> <<>>, registered |-> e.at])
          [] e.kind = "component.install" /\ known ->
                [parts EXCEPT ![e.subject].windows =
                    Append(@, [aircraft |-> d.aircraft, from |-> e.at, to |-> None])]
          [] e.kind = "component.remove" /\ known ->
                [parts EXCEPT ![e.subject].windows =
                    [i \in DOMAIN @ |-> IF i \in FirstOpen(@, d.aircraft)
                                        THEN [@[i] EXCEPT !.to = e.at] ELSE @[i]]]
          [] OTHER -> parts

Folded(r, e) ==
    CASE e.kind \in AircraftKinds ->
            [r EXCEPT !.aircraft = WithKey(@, e.subject,
                FoldAircraft(IF e.subject \in DOMAIN @ THEN @[e.subject] ELSE NoAircraft, e))]
      [] e.kind \in ComponentKinds -> [r EXCEPT !.parts = FoldPart(@, e)]
      [] OTHER -> r

Fold(E, live) ==
    MapThenFoldSet(LAMBDA e, r : Folded(r, e), NoRecords, LAMBDA e : e,
                   LAMBDA S : LastInFold(E, S), live)

\* The records now; at a date, with liveness as known now; and as they stood when e happened.
Project(E) == Fold(E, Live(E))
ProjectAsOf(E, date) == Fold(E, {e \in Live(E) : e.at <= date})
ProjectBefore(E, e) ==
    Fold(E, {x \in Live(E) : Precedes(FoldKey(E, x), FoldKey(E, e))})

OpenOrders(a) == {w \in DOMAIN a.orders : a.orders[w].closed = None}

=============================================================================
