------------------------------ MODULE Assistant ------------------------------
(***************************************************************************)
(* A run of the assistant (assistant/agent.py: ask, _execute, ground;      *)
(* tools.py: resolve), its recording and a replay of it (recording.py),    *)
(* against a service whose ledger other clients write meanwhile.           *)
(*                                                                         *)
(* What the model says is any text and any calls, of small sets.  A number *)
(* and its roundings are one token, whatever its sign, and so are the ways *)
(* to write a person, a date, an identifier or a work order state, which   *)
(* are all told as words.                                                  *)
(***************************************************************************)
EXTENDS Integers, Sequences, FiniteSets, SequencesExt

CONSTANTS Dates,          \* computation dates; the run's is one of them
          MaxEntries,     \* entries the ledger comes to hold
          MaxSteps,       \* MAX_STEPS
          FreeCount,      \* FREE_COUNT
          MaxCalls,       \* calls the model asks for in a run
          MaxSaid         \* tokens in a text
ASSUME AssistantAssumption ==
    /\ Dates \subseteq Nat \ {0} /\ Dates # {}
    /\ MaxEntries \in Nat /\ MaxSteps \in Nat /\ FreeCount \in Nat
    /\ MaxCalls \in Nat /\ MaxSaid \in Nat

VARIABLES ledger,     \* the service's entries: the id each supersedes, or NoId
          run,        \* the run, of the model or of a recording
          recording   \* what --record saved, or NoRecording

vars == <<ledger, run, recording>>

NoId == 0
Ids == 1..MaxEntries
NoRecording == [held |-> FALSE]

-----------------------------------------------------------------------------
(* The service, at the date asked for.                                     *)

\* An entry is dead while a live one supersedes it; a later entry can bring it back.
SupersededBy(entries) ==
    LET by[i \in DOMAIN entries] ==
            LET live == {j \in DOMAIN entries : j > i /\ entries[j] = i /\ by[j] = NoId}
            IN  IF live = {} THEN NoId ELSE CHOOSE j \in live : TRUE
    IN  by

\* A due list gives a number of that date and of the records as they are.
Remaining(date, entries) == 100 * date + Len(entries)

Keys == {"fitted", "unknown", "malformed"}
LastDate == CHOOSE d \in Dates : \A e \in Dates : d >= e

ResultOf(path, query) ==
    IF path.tool = "ledger_entries"
    THEN [numbers |-> {}, words |-> {<<"by", id>> : id \in DOMAIN ledger},
          entries |-> SupersededBy(ledger)]
    ELSE [numbers |-> {Remaining(query.as_of, ledger)},
          words |-> {}, entries |-> <<>>]

-----------------------------------------------------------------------------
(* tools.resolve                                                           *)

Asked == [tool : {"aircraft_due"}, key : Keys, as_of : {NoId}]
         \cup [tool : {"aircraft_due"}, key : {"fitted"}, as_of : {LastDate}]
         \cup [tool : {"ledger_entries", "no such tool"}, key : {"unknown"}, as_of : {NoId}]

\* An unknown tool, or a key no aircraft can have: told to the model as text.
Mistaken(c) ==
    \/ c.tool = "no such tool"
    \/ c.tool = "aircraft_due" /\ c.key = "malformed"

Path(c) == [tool |-> c.tool, key |-> IF c.tool = "aircraft_due" THEN c.key ELSE ""]

\* Mutant: a date the model sets is taken.
Query_ModelsDate(c, as_of) ==
    IF c.tool = "ledger_entries" THEN [include_superseded |-> TRUE]
    ELSE [as_of |-> IF c.as_of = NoId THEN as_of ELSE c.as_of]

\* The caller's date is set whatever the model gives.
Query(c, as_of) ==
    IF c.tool = "ledger_entries" THEN [include_superseded |-> TRUE] ELSE [as_of |-> as_of]

-----------------------------------------------------------------------------
(* The grounding check.                                                    *)

Words == {<<"key", k>> : k \in Keys \ {"malformed"}} \cup {<<"by", id>> : id \in Ids}
Numbers == {Remaining(d, e) : d \in Dates, e \in UNION {[1..n -> {NoId}] : n \in 0..MaxEntries}}

\* What a text says: entries as "entry #12" (refs), as "#12" (hashes) or after the first of a
\* list, "entries 12 and 14" (listed), and whether it carries the ledger note.
Texts ==
    {t \in [refs : SUBSET Ids, hashes : SUBSET Ids, listed : SUBSET Ids,
            numbers : {{}} \cup {{n} : n \in Numbers}, words : {{}} \cup {{w} : w \in Words},
            note : BOOLEAN] :
        /\ Cardinality(t.refs) + Cardinality(t.hashes) + Cardinality(t.listed)
              + Cardinality(t.numbers) + Cardinality(t.words) <= MaxSaid
        /\ t.listed # {} => t.refs # {}}

Fetches(calls) == {i \in DOMAIN calls : calls[i].path.tool = "ledger_entries"}
Listing(calls, id) == {i \in Fetches(calls) : id \in DOMAIN calls[i].result.entries}
Entries(calls) == UNION {DOMAIN calls[i].result.entries : i \in Fetches(calls)}

\* Mutant: the first fetch to list an entry stands.
SuccessorOf_First(calls, id) ==
    LET at == CHOOSE i \in Listing(calls, id) : \A j \in Listing(calls, id) : i <= j
    IN  calls[at].result.entries[id]

\* by_id: the last fetch to list it.
SuccessorOf(calls, id) ==
    LET at == CHOOSE i \in Listing(calls, id) : \A j \in Listing(calls, id) : i >= j
    IN  calls[at].result.entries[id]

\* The path and the arguments of a call count as its result does.
CallWords(c) ==
    c.result.words \cup (IF c.path.tool = "ledger_entries" THEN {} ELSE {<<"key", c.asked.key>>})
RecordWords(calls) == UNION {CallWords(calls[i]) : i \in DOMAIN calls}
RecordNumbers(calls) == UNION {calls[i].result.numbers : i \in DOMAIN calls} \cup Entries(calls)

NumbersHeld(text, calls) ==
    \A n \in text.numbers \cup text.listed
             \cup (IF Entries(calls) = {} THEN text.hashes ELSE {}) :
        n <= FreeCount \/ n \in RecordNumbers(calls)

LedgerChecks(text, calls) ==
    LET mentioned == text.refs \cup text.hashes
    IN  IF Entries(calls) = {} THEN text.refs = {}
        ELSE /\ text.note
             /\ \A id \in mentioned :
                   /\ id \in Entries(calls)
                   /\ SuccessorOf(calls, id) \in mentioned \cup {NoId}

Ground(text, calls) ==
    /\ text.words \subseteq RecordWords(calls)
    /\ NumbersHeld(text, calls)
    /\ LedgerChecks(text, calls)

-----------------------------------------------------------------------------
(* The agent's loop.                                                       *)

NoText == [refs |-> {}, hashes |-> {}, listed |-> {}, numbers |-> {}, words |-> {}, note |-> FALSE]

Started(replays, as_of) ==
    [replays |-> replays, at |-> "chat", as_of |-> as_of, turns |-> <<>>, pending |-> <<>>,
     calls |-> <<>>, text |-> NoText, verified |-> FALSE, failed |-> FALSE]

Init ==
    /\ ledger = <<>>
    /\ \E d \in Dates : run = Started(FALSE, d)
    /\ recording = NoRecording

AskedSoFar == FoldSeq(LAMBDA t, n : n + Len(t.calls), 0, run.turns)
CallTurns ==
    {[calls |-> s, text |-> NoText] :
        s \in UNION {[1..n -> Asked] : n \in {m \in 1..MaxCalls : AskedSoFar + m <= MaxCalls}}}
TextTurns == {[calls |-> <<>>, text |-> t] : t \in Texts}

\* The next turn: the model's, or the recording's next.
Turns ==
    IF ~run.replays THEN CallTurns \cup TextTurns
    ELSE IF Len(run.turns) < Len(recording.turns) THEN {recording.turns[Len(run.turns) + 1]}
    ELSE {}

Chat ==
    /\ run.at = "chat" /\ Len(run.turns) < MaxSteps
    /\ \E turn \in Turns :
          LET taken == [run EXCEPT !.turns = Append(@, turn)]
          IN  run' = IF turn.calls = <<>>
                     THEN [taken EXCEPT !.at = "answered", !.text = turn.text,
                                        !.verified = Ground(turn.text, run.calls)]
                     ELSE [taken EXCEPT !.at = "calls", !.pending = turn.calls]
    /\ UNCHANGED <<ledger, recording>>

BackendFails ==
    /\ run.at = "chat" /\ Len(run.turns) < MaxSteps /\ ~run.replays
    /\ run' = [run EXCEPT !.at = "refused", !.failed = TRUE]
    /\ UNCHANGED <<ledger, recording>>

StepLimit ==
    /\ run.at = "chat" /\ Len(run.turns) = MaxSteps
    /\ run' = [run EXCEPT !.at = "limit"]
    /\ UNCHANGED <<ledger, recording>>

\* Mutant: a call the model got wrong is tried again.
Left_Retried == IF Mistaken(Head(run.pending)) THEN run.pending ELSE Tail(run.pending)

Left == Tail(run.pending)

\* Mutant: the model is not asked again once the turn's calls are made.
After_Waits == [run EXCEPT !.pending = Left]

After == [run EXCEPT !.pending = Left, !.at = IF Left = <<>> THEN "chat" ELSE "calls"]

NoResult == [numbers |-> {}, words |-> {}, entries |-> <<>>]

\* Mutant: the call is noted before it is looked at.
Corrected_Noted(c) ==
    [After EXCEPT !.calls = Append(@, [asked |-> c, path |-> Path(c),
                                       query |-> Query(c, run.as_of), result |-> NoResult])]

\* The model's own mistake goes back to it as text.
Corrected(c) == After

Answered(c) ==
    LET query == Query(c, run.as_of)
    IN  [After EXCEPT !.calls = Append(@, [asked |-> c, path |-> Path(c), query |-> query,
                                           result |-> ResultOf(Path(c), query)])]

\* Mutant: a refusal goes back to the model as its own mistakes do.
Refused_Told == [After EXCEPT !.failed = TRUE]

Refused == [run EXCEPT !.at = "refused", !.pending = <<>>, !.failed = TRUE]

\* A key the service does not hold is a 404; any call may meet a 503 or no service.
Execute ==
    /\ run.at = "calls"
    /\ LET c == Head(run.pending)
       IN  IF Mistaken(c) THEN run' = Corrected(c)
           ELSE \/ Path(c).key # "unknown" /\ run' = Answered(c)
                \/ run' = Refused
    /\ UNCHANGED <<ledger, recording>>

-----------------------------------------------------------------------------
\* Mutant: the recording is dated the day it is made.
Recorded_Today ==
    [held |-> TRUE, as_of |-> LastDate, turns |-> run.turns,
     calls |-> run.calls, text |-> run.text, verified |-> run.verified]

Recorded ==
    [held |-> TRUE, as_of |-> run.as_of, turns |-> run.turns,
     calls |-> run.calls, text |-> run.text, verified |-> run.verified]

Record ==
    /\ run.at = "answered" /\ ~run.replays /\ ~recording.held
    /\ recording' = Recorded
    /\ UNCHANGED <<ledger, run>>

Replay ==
    /\ recording.held /\ ~run.replays
    /\ run' = Started(TRUE, recording.as_of)
    /\ UNCHANGED <<ledger, recording>>

\* Another client's entry, which may supersede a live one.
Enter ==
    /\ Len(ledger) < MaxEntries
    /\ \E id \in {NoId} \cup {i \in DOMAIN ledger : SupersededBy(ledger)[i] = NoId} :
          ledger' = Append(ledger, id)
    /\ UNCHANGED <<run, recording>>

Step == Chat \/ BackendFails \/ StepLimit \/ Execute

Next == Step \/ Record \/ Replay \/ Enter

Spec == Init /\ [][Next]_vars

\* An exchange with the model or the service ends: with a reply or its timeout.
FairSpec == Spec /\ WF_vars(Step)

-----------------------------------------------------------------------------
Ended == {"answered", "refused", "limit"}

TypeOK ==
    /\ ledger \in Seq(Ids \cup {NoId}) /\ Len(ledger) <= MaxEntries
    /\ run.at \in {"chat", "calls"} \cup Ended
    /\ run.as_of \in Dates /\ run.text \in Texts
    /\ (run.at = "calls") <=> (run.pending # <<>>)
    /\ \A i \in DOMAIN run.calls : run.calls[i].result.entries \in Seq(Ids \cup {NoId})

\* A run in which the service refused a call, or the backend failed, says nothing and leaves
\* nothing to replay, whatever it had fetched before.
FailedSaysNothing ==
    run.failed => /\ run.at # "answered"
                  /\ ~run.replays => ~recording.held

\* No verified answer names a superseded entry without its successor, in the records as the
\* run last fetched them, though entries were superseded or brought back between two fetches.
SupersededIsSaid ==
    run.at = "answered" /\ run.verified =>
        \A id \in run.text.refs \cup (IF Entries(run.calls) = {} THEN {} ELSE run.text.hashes) :
            \E i \in DOMAIN run.calls :
                /\ run.calls[i].path.tool = "ledger_entries"
                /\ id \in DOMAIN run.calls[i].result.entries
                /\ \A j \in DOMAIN run.calls :
                      j > i => id \notin DOMAIN run.calls[j].result.entries
                /\ run.calls[i].result.entries[id]
                      \in run.text.refs \cup run.text.hashes \cup {NoId}

\* What a verified answer says of aircraft and people is of calls the service answered:
\* a name the model put in a call it got wrong supports nothing.
VerifiedIsFetched ==
    run.at = "answered" /\ run.verified =>
        \A w \in run.text.words :
            \E i \in DOMAIN run.calls :
                ~Mistaken(run.calls[i].asked) /\ w \in CallWords(run.calls[i])

\* A run answers only what it fetched and as it fetched it.
AnswersAreGrounded ==
    TypeOK /\ FailedSaysNothing /\ SupersededIsSaid /\ VerifiedIsFetched

\* Everything an answer rests on was computed at the run's date, and a replay's at the date of
\* the run recorded, whatever date the model asks for.
OneDate ==
    \A i \in DOMAIN run.calls :
        run.calls[i].path.tool = "aircraft_due" =>
            \E n \in 0..MaxEntries : run.calls[i].result.numbers = {100 * run.as_of + n}

\* A replay makes the recorded calls, at the recorded date, and ends in the recorded text, or is
\* refused; with the same results its grounding is the recorded one.
ReplayAgrees ==
    /\ OneDate
    /\ run.replays =>
        /\ run.at # "limit"
        /\ run.at = "chat" => Len(run.turns) < Len(recording.turns)
        /\ \A i \in DOMAIN run.calls :
              /\ run.calls[i].path = recording.calls[i].path
              /\ run.calls[i].query = recording.calls[i].query
        /\ run.at = "answered" =>
              /\ run.text = recording.text /\ Len(run.calls) = Len(recording.calls)
              /\ run.calls = recording.calls => run.verified = recording.verified

\* Every run ends: in an answer, a refusal or at the step limit.
EveryRunEnds == run.at \in {"chat", "calls"} ~> run.at \in Ended

=============================================================================
