------------------------------ MODULE MCLedger ------------------------------
EXTENDS LedgerRules

Months == <<1, 1, 2, 2, 2, 3>>
MCMonthOf == [d \in 0..5 |-> Months[d + 1]]

MCPartRules ==
    [battery |-> [limits |-> [hours |-> 2, cycles |-> 2]],
     frame   |-> [limits |-> [calendar |-> 0]]]

MCInspectionRules ==
    [hundred |-> [limits |-> [hours |-> 2], tolerance |-> 1, satisfiedBy |-> <<"annual">>],
     annual  |-> [limits |-> [calendar |-> 1], tolerance |-> 0, satisfiedBy |-> <<>>]]

Draft(subject, kind, at, details) ==
    [subject |-> subject, kind |-> kind, at |-> at, details |-> details]

Log(ref, start, span, flight) ==
    [ref |-> ref, source |-> "px4", start |-> start, span |-> span, flight |-> flight,
     boot |-> Unknown, lifetime |-> Unknown]

Counter(seconds) == [atBoot |-> seconds, seen |-> seconds, seenAt |-> 0]

PartsTopic ==
    [drafts |->
        {Draft("P", "component.register", 1, [kind |-> k, since |-> 0, hours |-> h, cycles |-> 0]) :
            <<k, h>> \in {<<"battery", 0>>, <<"battery", 1>>, <<"frame", 0>>}}
        \cup {Draft("P", "component.install", 1, [aircraft |-> "a"]),
              Draft("P", "component.install", 2, [aircraft |-> "a"]),
              Draft("P", "component.install", 2, [aircraft |-> "b"]),
              Draft("P", "component.remove", 2, [aircraft |-> "a"]),
              Draft("P", "component.remove", 3, [aircraft |-> "a"]),
              Draft("P", "retraction", 3, <<>>)},
     logs |-> {<<"a", Log(1, 1, 1, 1)>>, <<"b", Log(2, 2, 1, 1)>>},
     aircraft |-> {"a", "b"}, entries |-> 6, uploads |-> 2]

WorkTopic ==
    [drafts |->
        {Draft("a", "work_order.open", t, [work |-> w, state |-> "in_work"]) :
            <<t, w>> \in {<<1, None>>, <<1, 2>>, <<2, 3>>}}
        \cup {Draft("a", "work_order.state", 2, [work |-> w, state |-> "deferred"]) : w \in {1, 2}}
        \cup {Draft("a", "work_order.close", t, [work |-> w]) :
                 <<t, w>> \in {<<1, 1>>, <<2, 2>>, <<3, 1>>}}
        \cup {Draft("a", "retraction", 3, <<>>)},
     logs |-> {},
     aircraft |-> {"a"}, entries |-> 5, uploads |-> 0]

Done(at, hours, carried) ==
    Draft("a", "inspection.done", at,
          [name |-> "hundred", hours |-> hours, carried |-> carried, derived |-> FALSE])

HoursTopic ==
    [drafts |->
        {Draft("a", "time_in_service.set", t, [before |-> b]) :
            <<t, b>> \in {<<1, 2>>, <<1, 0>>, <<3, 1>>}}
        \cup {Done(2, None, 0), Done(2, 3, 0), Done(3, 2, 1),
              Draft("a", "inspection.done", 2,
                    [name |-> "annual", hours |-> 0, carried |-> 0, derived |-> FALSE])}
        \cup {Draft("a", "retraction", 3, <<>>)},
     logs |-> {<<"a", Log(1, 2, 1, 1)>>, <<"a", Log(2, Unknown, 1, 1)>>},
     aircraft |-> {"a"}, entries |-> 4, uploads |-> 2]

\* Entries written over retractions: of the hours and the inspection counted with them, ...
TwinHoursTopic ==
    [drafts |->
        {Draft("a", "time_in_service.set", t, [before |-> b]) : <<t, b>> \in {<<1, 5>>, <<3, 1>>}}
        \cup {Done(3, 3, 0), Draft("a", "retraction", 3, <<>>)},
     logs |-> {},
     aircraft |-> {"a"}, entries |-> 5, uploads |-> 0]

\* ... and of a part.
TwinPartTopic ==
    [drafts |->
        {Draft("P", "component.register", 1,
               [kind |-> "frame", since |-> 3, hours |-> 0, cycles |-> 0]),
         Draft("P", "component.install", 1, [aircraft |-> "a"]),
         Draft("P", "component.install", 3, [aircraft |-> "a"]),
         Draft("P", "component.install", 3, [aircraft |-> "b"]),
         Draft("P", "component.remove", 2, [aircraft |-> "a"]),
         Draft("P", "retraction", 3, <<>>)},
     logs |-> {},
     aircraft |-> {"a", "b"}, entries |-> 8, uploads |-> 0]

\* An aircraft that can be serviceable, with a part that has flown some of its life.
BoardTopic ==
    [drafts |->
        {Draft("P", "component.register", 1,
               [kind |-> "battery", since |-> 0, hours |-> h, cycles |-> 0]) : h \in {0, 1}}
        \cup {Draft("P", "component.install", 1, [aircraft |-> "a"]),
              Draft("P", "component.remove", 3, [aircraft |-> "a"]),
              Draft("a", "work_order.open", 2, [work |-> None, state |-> "deferred"]),
              Draft("a", "inspection.done", 1,
                    [name |-> "annual", hours |-> 0, carried |-> 0, derived |-> FALSE])},
     logs |-> {<<"a", [Log(1, 1, 1, 1) EXCEPT !.lifetime = Counter(0)]>>,
               <<"a", [Log(2, 2, 1, 1) EXCEPT !.lifetime = Counter(2)]>>},
     aircraft |-> {"a"}, entries |-> 4, uploads |-> 2]

MCTopics == [parts |-> PartsTopic, work |-> WorkTopic, hours |-> HoursTopic,
             board |-> BoardTopic, twins |-> TwinHoursTopic]
MCTwinTopics == [twins |-> TwinPartTopic]

=============================================================================
