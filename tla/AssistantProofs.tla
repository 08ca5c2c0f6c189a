--------------------------- MODULE AssistantProofs ---------------------------
(***************************************************************************)
(* Proofs about a run of the assistant, its recording and its replay       *)
(* (assistant/agent.py: ask, _execute, ground; recording.py; tools.py:     *)
(* resolve), for any dates, texts, calls, step limit and ledger, and any   *)
(* entries other clients write between two calls: an answer marked         *)
(* verified says what the service said, and a replay repeats the calls of  *)
(* the run it replays and ends in its text or is refused.                  *)
(*                                                                         *)
(* The second is not inductive: that a replay is where the recorded run    *)
(* was after as many steps is a fact about that run's past, which is gone. *)
(* The invariant keeps a trace of it: the recorded answer was reached by a *)
(* run from its start, and the replay follows a state of that trace.       *)
(***************************************************************************)
EXTENDS Assistant, SequenceTheorems, FiniteSetTheorems, TLAPS

\* What a run says before it has answered is a text.
LEMMA NoTextIsText == NoText \in Texts
  BY AssistantAssumption, FS_EmptySet DEF NoText, Texts

\* A set of natural numbers that holds one has a least.
LEMMA Least ==
    ASSUME NEW T \in SUBSET Nat, T # {}
    PROVE  \E n \in T : \A m \in T : n <= m
<1> DEFINE Below == {0 .. n : n \in T}
<1>1. Below \subseteq FiniteSubsetsOf(Nat)
  <2> SUFFICES ASSUME NEW n \in T PROVE 0 .. n \in FiniteSubsetsOf(Nat)
    OBVIOUS
  <2>1. IsFiniteSet(0 .. n) BY FS_Interval
  <2>2. 0 .. n \subseteq Nat OBVIOUS
  <2>3. QED BY <2>1, <2>2 DEF FiniteSubsetsOf
<1>2. Below # {} OBVIOUS
<1>3. IsWellFoundedOn(StrictSubsetOrdering(Nat), FiniteSubsetsOf(Nat))
  BY FS_StrictSubsetOrderingWellFounded
<1> HIDE DEF Below
<1>4. \E x \in Below : \A y \in Below : ~(<<y, x>> \in StrictSubsetOrdering(Nat))
  BY <1>1, <1>2, <1>3, WFMin, Zenon
<1>5. PICK n \in T : \A m \in T : ~(<<0 .. m, 0 .. n>> \in StrictSubsetOrdering(Nat))
  BY <1>4 DEF Below
<1>6. ASSUME NEW m \in T, m < n PROVE FALSE
  <2>1. 0 .. m \subseteq 0 .. n /\ n \in 0 .. n /\ n \notin 0 .. m
    BY <1>6
  <2>2. <<0 .. m, 0 .. n>> \in StrictSubsetOrdering(Nat)
    BY <2>1 DEF StrictSubsetOrdering
  <2>3. QED BY <2>2, <1>5
<1>7. QED BY <1>6

\* The live entries that supersede entry i, one of them, and the fold they make.
LiveAfter(e, i, f) == {j \in DOMAIN e : j > i /\ e[j] = i /\ f[j] = NoId}
AnyOf(S) == IF S = {} THEN NoId ELSE CHOOSE j \in S : TRUE
Supersession(e, f) == [i \in DOMAIN e |-> AnyOf(LiveAfter(e, i, f))]

\* The fold of supersession over the entries, from the last to the first, is defined: each
\* entry's verdict needs only those of later entries (ledger: the fold of the live entries).
LEMMA SupersessionDefined ==
    ASSUME NEW e, NEW len \in Nat, DOMAIN e = 1..len
    PROVE  \E f : f = Supersession(e, f)
<1> DEFINE D == DOMAIN e
<1> DEFINE By(i, f) == AnyOf(LiveAfter(e, i, f))
<1> DEFINE Above(n) == {i \in D : i > n}
<1> DEFINE Settled(n, f) == f = [i \in Above(n) |-> By(i, f)]
<1> DEFINE T == {n \in 0..len : \E f : Settled(n, f)}
<1>1. len \in T
  <2>1. Above(len) = {}
    OBVIOUS
  <2>2. Settled(len, [i \in {} |-> NoId])
    <3> HIDE DEF By
    <3> QED BY <2>1
  <2> HIDE DEF Settled
  <2> QED BY <2>2
<1>2. ASSUME NEW n \in T, n # 0 PROVE n - 1 \in T
  <2>1. PICK f : Settled(n, f)
    OBVIOUS
  <2>2. n \in Nat /\ n - 1 \in Nat /\ n - 1 \in 0..len
    BY <1>2
  <2> DEFINE g == [i \in Above(n - 1) |-> By(i, f)]
  <2>3. ASSUME NEW j \in D, j > n PROVE g[j] = f[j]
    <3>1. j \in Above(n) /\ j \in Above(n - 1)
      BY <2>2, <2>3
    <3> HIDE DEF By, Above
    <3>2. f[j] = By(j, f) /\ g[j] = By(j, f)
      BY <2>1, <3>1, Zenon
    <3> QED BY <3>2
  <2>4. ASSUME NEW i \in Above(n - 1) PROVE LiveAfter(e, i, g) = LiveAfter(e, i, f)
    <3>1. \A j \in D : j > i => j > n
      BY <2>2, <2>4
    <3> HIDE DEF g
    <3> QED BY <2>3, <3>1, Zenon DEF LiveAfter
  <2>5. Settled(n - 1, g)
    <3>1. ASSUME NEW i \in Above(n - 1) PROVE By(i, g) = By(i, f)
      BY <2>4
    <3> DEFINE h == [i \in Above(n - 1) |-> By(i, g)]
    <3>2. g = h
      <4> HIDE DEF By, Above
      <4> QED BY <3>1, Zenon
    <3> QED BY <3>2
  <2> HIDE DEF g, Settled
  <2> QED BY <2>2, <2>5
<1>3. 0 \in T
  <2>1. T \in SUBSET Nat /\ T # {}
    <3> HIDE DEF Settled
    <3>1. T \subseteq 0..len
      BY Zenon
    <3> HIDE DEF T
    <3> QED BY <1>1, <3>1
  <2> HIDE DEF T
  <2>2. PICK n \in T : \A m \in T : n <= m
    BY <2>1, Least
  <2>3. n = 0
    <3>1. n # 0 => n - 1 \in T
      BY <1>2
    <3>2. n \in Nat
      BY <2>1
    <3> QED BY <2>2, <3>1, <3>2
  <2> QED BY <2>3
<1>4. Above(0) = D
  OBVIOUS
<1>5. PICK f : Settled(0, f)
  BY <1>3
<1>6. f = [i \in D |-> By(i, f)]
  <2> HIDE DEF By, Above
  <2> QED BY <1>4, <1>5
<1> QED BY <1>6 DEF Supersession

\* A listing of the ledger gives each entry the id of an entry, or none.
LEMMA SupersededByFacts ==
    ASSUME NEW e \in Seq(Ids \cup {NoId}), Len(e) <= MaxEntries
    PROVE  SupersededBy(e) \in Seq(Ids \cup {NoId})
<1> USE AssistantAssumption
<1> DEFINE by == CHOOSE f : f = Supersession(e, f)
<1>1. SupersededBy(e) = by
  BY DEF SupersededBy, Supersession, LiveAfter, AnyOf
<1>2. Len(e) \in Nat /\ DOMAIN e = 1..Len(e) /\ DOMAIN e \subseteq Ids
  BY DEF Ids
<1>3. \E f : f = Supersession(e, f)
  BY <1>2, SupersessionDefined
<1>4. by = Supersession(e, by)
  BY <1>3, Zenon
<1> HIDE DEF by
<1>5. ASSUME NEW i PROVE AnyOf(LiveAfter(e, i, by)) \in Ids \cup {NoId}
  <2>1. LiveAfter(e, i, by) \subseteq Ids
    BY <1>2 DEF LiveAfter
  <2> QED BY <2>1 DEF AnyOf
<1>6. by \in [1..Len(e) -> Ids \cup {NoId}]
  BY <1>2, <1>4, <1>5 DEF Supersession
<1> QED BY <1>1, <1>2, <1>6, SeqDef

\* The types of the run, its recording, its calls and their results.
Places == {"chat", "calls"} \cup Ended
Paths == {Path(c) : c \in Asked}
Queries == {Query(c, d) : c \in Asked, d \in Dates}
Results == [numbers : SUBSET Nat, words : SUBSET {<<"by", id>> : id \in Ids},
            entries : Seq(Ids \cup {NoId})]
Answer == [asked : Asked, path : Paths, query : Queries, result : Results]
Turn == [calls : Seq(Asked), text : Texts]
Runs == [replays : BOOLEAN, at : Places, as_of : Dates, turns : Seq(Turn), pending : Seq(Asked),
         calls : Seq(Answer), text : Texts, verified : BOOLEAN, failed : BOOLEAN]
Recordings == [held : {TRUE}, as_of : Dates, turns : Seq(Turn), calls : Seq(Answer),
               text : Texts, verified : BOOLEAN]

\* A turn is taken: calls to make, or the text the run answers.
TakesTurn(a, b, turn) ==
    /\ a.at = "chat"
    /\ b.turns = Append(a.turns, turn) /\ b.calls = a.calls
    /\ turn.calls = <<>> => b.at = "answered" /\ b.pending = a.pending /\ b.text = turn.text
    /\ turn.calls # <<>> => b.at = "calls" /\ b.pending = turn.calls /\ b.text = a.text

\* A call is made: corrected and left out, or answered and noted.
MakesCall(a, b, c) ==
    /\ a.at = "calls" /\ a.pending # <<>> /\ c = Head(a.pending)
    /\ b.turns = a.turns /\ b.text = a.text /\ b.pending = Tail(a.pending)
    /\ b.at = IF b.pending = <<>> THEN "chat" ELSE "calls"
    /\ Mistaken(c) => b.calls = a.calls
    /\ ~Mistaken(c) => \E x \in Answer : /\ x.path = Path(c) /\ x.query = Query(c, a.as_of)
                                         /\ b.calls = Append(a.calls, x)

\* The run takes a turn or makes a call, at its date.
Moves(a, b) ==
    /\ b.as_of = a.as_of
    /\ (\E turn \in Turn : TakesTurn(a, b, turn)) \/ (\E c \in Asked : MakesCall(a, b, c))

\* The first is the beginning of the second.
Begins(s, t) == Len(s) <= Len(t) /\ \A k \in 1..Len(s) : s[k] = t[k]
Extends(a, b) == a.as_of = b.as_of /\ Begins(a.turns, b.turns) /\ Begins(a.calls, b.calls)

\* The states of a run from its start: each a step from the one before, and all parts of the last.
IsTrace(h) ==
    /\ h \in Seq(Runs) /\ h # <<>>
    /\ h[1].at = "chat" /\ h[1].turns = <<>> /\ h[1].pending = <<>> /\ h[1].calls = <<>>
    /\ h[1].text = NoText
    /\ \A i \in 1..(Len(h) - 1) : Moves(h[i], h[i + 1])
    /\ \A i \in 1..Len(h) : Extends(h[i], h[Len(h)])

\* The replay is where the recorded run was in state s, with its own results, or was refused
\* on its next call.
Follows(r, s) ==
    /\ r.as_of = s.as_of /\ Len(r.calls) = Len(s.calls)
    /\ \A k \in 1..Len(s.calls) :
          r.calls[k].path = s.calls[k].path /\ r.calls[k].query = s.calls[k].query
    /\ r.at # "refused" => /\ r.at = s.at /\ r.turns = s.turns
                           /\ r.pending = s.pending /\ r.text = s.text

\* To begin a sequence is reflexive, holds of what is appended to, and is transitive.
LEMMA BeginsFacts ==
    ASSUME NEW S, NEW s \in Seq(S), NEW t \in Seq(S), NEW u \in Seq(S)
    PROVE  /\ Begins(s, s)
           /\ \A x \in S : Begins(s, Append(s, x))
           /\ Begins(s, t) /\ Begins(t, u) => Begins(s, u)
  BY DEF Begins

\* To extend a run is reflexive, holds of a step, and is transitive.
LEMMA ExtendsFacts ==
    ASSUME NEW a \in Runs, NEW b \in Runs, NEW c \in Runs
    PROVE  /\ Extends(a, a)
           /\ Moves(a, b) => Extends(a, b)
           /\ Extends(a, b) /\ Extends(b, c) => Extends(a, c)
<1>1. /\ a.turns \in Seq(Turn) /\ b.turns \in Seq(Turn) /\ c.turns \in Seq(Turn)
      /\ a.calls \in Seq(Answer) /\ b.calls \in Seq(Answer) /\ c.calls \in Seq(Answer)
  BY DEF Runs
<1>2. Extends(a, a)
  BY <1>1, BeginsFacts DEF Extends
<1>3. ASSUME Moves(a, b) PROVE Extends(a, b)
  <2>1. ASSUME NEW turn \in Turn, TakesTurn(a, b, turn) PROVE Extends(a, b)
    BY <1>1, <1>3, <2>1, BeginsFacts DEF Extends, Moves, TakesTurn
  <2>2. ASSUME NEW d \in Asked, MakesCall(a, b, d) PROVE Extends(a, b)
    <3>1. a.as_of = b.as_of /\ b.turns = a.turns
      BY <1>3, <2>2 DEF Moves, MakesCall
    <3>2. CASE Mistaken(d)
      BY <1>1, <2>2, <3>1, <3>2, BeginsFacts DEF Extends, MakesCall
    <3>3. CASE ~Mistaken(d)
      <4>1. PICK x \in Answer : b.calls = Append(a.calls, x)
        BY <2>2, <3>3 DEF MakesCall
      <4>2. Begins(a.calls, b.calls)
        BY <1>1, <4>1, BeginsFacts
      <4> QED BY <1>1, <3>1, <4>2, BeginsFacts DEF Extends
    <3> QED BY <3>2, <3>3
  <2> QED BY <1>3, <2>1, <2>2 DEF Moves
<1>4. ASSUME Extends(a, b), Extends(b, c) PROVE Extends(a, c)
  <2>1. Begins(a.turns, c.turns)
    BY <1>1, <1>4, BeginsFacts DEF Extends
  <2>2. Begins(a.calls, c.calls)
    BY <1>1, <1>4, BeginsFacts DEF Extends
  <2> QED BY <1>4, <2>1, <2>2 DEF Extends
<1> QED BY <1>2, <1>3, <1>4

\* A trace of a run, and one step more, is a trace.
LEMMA TraceGrows ==
    ASSUME NEW h, IsTrace(h), NEW b \in Runs, Moves(h[Len(h)], b)
    PROVE  IsTrace(Append(h, b)) /\ Append(h, b)[Len(Append(h, b))] = b
<1> DEFINE g == Append(h, b)
<1>1. /\ h \in Seq(Runs) /\ Len(h) \in Nat \ {0} /\ \A i \in 1..Len(h) : h[i] \in Runs
      /\ \A i \in 1..(Len(h) - 1) : Moves(h[i], h[i + 1])
      /\ \A i \in 1..Len(h) : Extends(h[i], h[Len(h)])
  BY DEF IsTrace
<1>2. /\ g \in Seq(Runs) /\ Len(g) = Len(h) + 1 /\ g[Len(h) + 1] = b
      /\ \A i \in 1..Len(h) : g[i] = h[i]
  BY <1>1
<1> HIDE DEF g
<1>3. ASSUME NEW i \in 1..(Len(g) - 1) PROVE Moves(g[i], g[i + 1])
  <2>1. CASE i = Len(h)
    BY <1>1, <1>2, <2>1
  <2>2. CASE i # Len(h)
    <3>1. i \in 1..(Len(h) - 1) /\ i \in 1..Len(h) /\ i + 1 \in 1..Len(h)
      BY <1>1, <1>2, <2>2
    <3> QED BY <1>1, <1>2, <3>1
  <2> QED BY <2>1, <2>2
<1>4. ASSUME NEW i \in 1..Len(g) PROVE Extends(g[i], g[Len(g)])
  <2>1. g[Len(g)] = b
    BY <1>2
  <2>2. CASE i = Len(h) + 1
    BY <1>2, <2>1, <2>2, ExtendsFacts
  <2>3. CASE i # Len(h) + 1
    <3>1. i \in 1..Len(h) /\ Len(h) \in 1..Len(h)
      BY <1>1, <1>2, <2>3
    <3>2. h[i] \in Runs /\ h[Len(h)] \in Runs /\ Extends(h[i], h[Len(h)])
      BY <1>1, <3>1
    <3>3. Extends(h[Len(h)], b)
      BY <3>2, ExtendsFacts
    <3> QED BY <1>2, <2>1, <3>1, <3>2, <3>3, ExtendsFacts
  <2> QED BY <2>2, <2>3
<1>5. g # <<>> /\ g[1] = h[1]
  BY <1>1, <1>2
<1>6. IsTrace(g)
  BY <1>2, <1>3, <1>4, <1>5 DEF IsTrace
<1> QED BY <1>2, <1>6 DEF g

\* A run that has just started is a trace of itself.
LEMMA TraceStarts ==
    ASSUME NEW r \in Runs, r.at = "chat", r.turns = <<>>, r.pending = <<>>, r.calls = <<>>,
           r.text = NoText
    PROVE  IsTrace(<<r>>)
<1>1. <<r>> \in Seq(Runs) /\ Len(<<r>>) = 1 /\ <<r>>[1] = r /\ <<r>> # <<>>
  OBVIOUS
<1> QED BY <1>1, ExtendsFacts DEF IsTrace

\* A replay that follows a state of the recorded run, and takes its next turn or makes its next
\* call, follows the state after it.
LEMMA FollowsOn ==
    ASSUME NEW r \in Runs, NEW r2 \in Runs, NEW s \in Runs, NEW s2 \in Runs,
           Follows(r, s), Moves(r, r2), Moves(s, s2), r.at # "refused",
           r.at = "chat" => r2.turns[Len(r.turns) + 1] = s2.turns[Len(r.turns) + 1]
    PROVE  Follows(r2, s2)
<1>1. /\ r.turns \in Seq(Turn) /\ r.calls \in Seq(Answer) /\ s.calls \in Seq(Answer)
      /\ r.at = s.at /\ r.turns = s.turns /\ r.pending = s.pending /\ r.text = s.text
      /\ r.as_of = s.as_of /\ Len(r.calls) = Len(s.calls)
      /\ \A k \in 1..Len(s.calls) :
          r.calls[k].path = s.calls[k].path /\ r.calls[k].query = s.calls[k].query
  BY DEF Runs, Follows
<1>2. r2.as_of = s2.as_of
  BY <1>1 DEF Moves
<1>3. CASE r.at = "chat"
  <2>1. PICK t \in Turn : TakesTurn(r, r2, t)
    BY <1>3 DEF Moves, MakesCall
  <2>2. PICK u \in Turn : TakesTurn(s, s2, u)
    BY <1>1, <1>3 DEF Moves, MakesCall
  <2>3. t = u
    BY <1>1, <1>3, <2>1, <2>2 DEF TakesTurn
  <2> QED BY <1>1, <1>2, <2>1, <2>2, <2>3 DEF TakesTurn, Follows
<1>4. CASE r.at = "calls"
  <2>1. PICK c \in Asked : MakesCall(r, r2, c)
    BY <1>4 DEF Moves, TakesTurn
  <2>2. MakesCall(s, s2, c)
    BY <1>1, <1>4, <2>1 DEF Moves, TakesTurn, MakesCall
  <2>3. /\ r2.turns = s2.turns /\ r2.text = s2.text /\ r2.pending = s2.pending /\ r2.at = s2.at
    BY <1>1, <2>1, <2>2 DEF MakesCall
  <2>4. CASE Mistaken(c)
    BY <1>1, <1>2, <2>1, <2>2, <2>3, <2>4 DEF MakesCall, Follows
  <2>5. CASE ~Mistaken(c)
    <3>1. PICK x \in Answer : /\ x.path = Path(c) /\ x.query = Query(c, r.as_of)
                              /\ r2.calls = Append(r.calls, x)
      BY <2>1, <2>5 DEF MakesCall
    <3>2. PICK y \in Answer : /\ y.path = Path(c) /\ y.query = Query(c, r.as_of)
                              /\ s2.calls = Append(s.calls, y)
      BY <1>1, <2>2, <2>5 DEF MakesCall
    <3>3. ASSUME NEW k \in 1..Len(s2.calls)
          PROVE  /\ r2.calls[k].path = s2.calls[k].path
                 /\ r2.calls[k].query = s2.calls[k].query
      <4>1. CASE k \in 1..Len(s.calls)
        <5>1. r2.calls[k] = r.calls[k] /\ s2.calls[k] = s.calls[k]
          BY <1>1, <3>1, <3>2, <4>1
        <5> QED BY <1>1, <4>1, <5>1
      <4>2. CASE k \notin 1..Len(s.calls)
        <5>1. r2.calls[k] = x /\ s2.calls[k] = y
          BY <1>1, <3>1, <3>2, <4>2
        <5> QED BY <3>1, <3>2, <5>1
      <4> QED BY <4>1, <4>2
    <3>4. Len(r2.calls) = Len(s2.calls)
      BY <1>1, <3>1, <3>2
    <3> QED BY <1>2, <2>3, <3>3, <3>4 DEF Follows
  <2> QED BY <2>4, <2>5
<1> QED BY <1>3, <1>4 DEF Moves, TakesTurn, MakesCall

-----------------------------------------------------------------------------
\* A call the service answered at date d.
AnsweredAt(x, d) ==
    /\ ~Mistaken(x.asked)
    /\ x.path.tool # "ledger_entries" => x.result.entries = <<>>
    /\ x.path.tool = "aircraft_due" => \E n \in 0..MaxEntries : x.result.numbers = {100 * d + n}

\* What holds of every run, of the model or of a recording.
Sound(r) ==
    /\ r \in Runs /\ Len(r.turns) <= MaxSteps
    /\ (r.at = "calls") <=> (r.pending # <<>>)
    /\ \A i \in 1..Len(r.calls) : AnsweredAt(r.calls[i], r.as_of)
    /\ r.failed => r.at = "refused"
    /\ r.at = "answered" => (r.verified <=> Ground(r.text, r.calls))

\* The run is where a run that was made from the start has come.
Reached(r) == \E h : IsTrace(h) /\ h[Len(h)] = r

\* The trace ends in the answer that was recorded.
Ends(h, rec) ==
    LET last == h[Len(h)]
    IN  /\ last.at = "answered" /\ last.pending = <<>> /\ last.as_of = rec.as_of
        /\ last.turns = rec.turns /\ last.calls = rec.calls /\ last.text = rec.text

\* The replay follows some state of the run that was recorded.
Retraces(r, rec) ==
    \E h : IsTrace(h) /\ Ends(h, rec) /\ \E i \in 1..Len(h) : Follows(r, h[i])

\* The recording is of a run made from the start.
RecordedFrom(rec) == \E h : IsTrace(h) /\ Ends(h, rec)

\* Nothing is recorded: the run is the model's, and has come from its start.
Free ==
    /\ recording = NoRecording /\ ~run.replays
    /\ run.at \in {"chat", "calls", "answered"} => Reached(run)

\* A run is recorded: the run is still that one, or replays it.
Held ==
    /\ recording \in Recordings /\ Len(recording.turns) <= MaxSteps
    /\ recording.verified <=> Ground(recording.text, recording.calls)
    /\ RecordedFrom(recording)
    /\ ~run.replays => run.at = "answered"
    /\ run.replays => run.at # "limit" /\ Retraces(run, recording)

\* The inductive invariant.
AssistInv ==
    /\ ledger \in Seq(Ids \cup {NoId}) /\ Len(ledger) <= MaxEntries
    /\ Sound(run)
    /\ Free \/ Held

\* The grounding check is true or false.
LEMMA GroundDecides ==
    ASSUME NEW t, NEW c
    PROVE  \E good \in BOOLEAN : good <=> Ground(t, c)
  OBVIOUS

\* The path and arguments resolve gives a call are of the tool the model named, at the run's date.
LEMMA AskedFacts ==
    ASSUME NEW c \in Asked, NEW d \in Dates
    PROVE  /\ Path(c) \in Paths /\ Query(c, d) \in Queries
           /\ Path(c).tool = c.tool
           /\ c.tool = "aircraft_due" => Query(c, d).as_of = d
<1>1. Path(c) \in Paths
  BY DEF Paths
<1>4. Query(c, d) \in Queries
  BY DEF Queries
<1>2. Path(c).tool = c.tool
  BY DEF Path
<1>3. c.tool = "aircraft_due" => Query(c, d).as_of = d
  BY DEF Query
<1> QED BY <1>1, <1>2, <1>3, <1>4

\* The assistant starts with nothing recorded and a run that has asked nothing.
LEMMA InitHolds == Init => AssistInv
<1> SUFFICES ASSUME Init PROVE AssistInv
  OBVIOUS
<1>1. PICK d \in Dates : run = Started(FALSE, d)
  BY DEF Init
<1>2. ledger = <<>> /\ recording = NoRecording
  BY DEF Init
<1>3. Sound(run) /\ ~run.replays /\ Reached(run)
  <2>1. /\ run \in Runs /\ run.at = "chat" /\ run.turns = <<>> /\ run.pending = <<>>
        /\ run.calls = <<>> /\ run.text = NoText /\ ~run.failed /\ ~run.replays
    BY <1>1, NoTextIsText DEF Started, Runs, Places
  <2>2. Reached(run)
    <3>1. IsTrace(<<run>>) /\ Len(<<run>>) = 1 /\ <<run>>[1] = run
      BY <2>1, TraceStarts
    <3> QED BY <3>1 DEF Reached
  <2> QED BY <2>1, <2>2, AssistantAssumption DEF Sound
<1>4. Free
  BY <1>2, <1>3 DEF Free
<1> QED BY <1>2, <1>3, <1>4, AssistantAssumption DEF AssistInv

\* The next turn, of the model or of the recording, is calls or a text.
LEMMA TurnFacts ==
    ASSUME Sound(run), run.replays => recording \in Recordings
    PROVE  Turns \subseteq Turn
<1> SUFFICES ASSUME NEW turn \in Turns PROVE turn \in Turn
  OBVIOUS
<1>1. ASSUME turn \in CallTurns PROVE turn \in Turn
  <2>1. PICK n \in 1..MaxCalls : \E s \in [1..n -> Asked] :
                turn = [calls |-> s, text |-> NoText]
    BY <1>1 DEF CallTurns
  <2>2. PICK s \in [1..n -> Asked] : turn = [calls |-> s, text |-> NoText]
    BY <2>1
  <2>3. s \in Seq(Asked)
    BY <2>1, <2>2, SeqDef, AssistantAssumption
  <2> QED BY <2>2, <2>3, NoTextIsText DEF Turn
<1>2. ASSUME turn \in TextTurns PROVE turn \in Turn
  <2>1. PICK t \in Texts : turn = [calls |-> <<>>, text |-> t]
    BY <1>2, Zenon DEF TextTurns
  <2>2. <<>> \in Seq(Asked)
    OBVIOUS
  <2> QED BY <2>1, <2>2 DEF Turn
<1>3. CASE ~run.replays
  BY <1>1, <1>2, <1>3 DEF Turns
<1>4. CASE run.replays
  <2>1. /\ recording.turns \in Seq(Turn) /\ run.turns \in Seq(Turn)
        /\ Len(run.turns) < Len(recording.turns)
        /\ turn = recording.turns[Len(run.turns) + 1]
    BY <1>4 DEF Turns, Recordings, Sound, Runs
  <2> QED BY <2>1
<1> QED BY <1>3, <1>4

\* A turn of the run leaves it answered, with its text checked, or with calls to make.
LEMMA ChatMoves ==
    ASSUME Sound(run), run.at = "chat", Len(run.turns) < MaxSteps, NEW turn \in Turn,
           LET taken == [run EXCEPT !.turns = Append(@, turn)]
           IN  run' = IF turn.calls = <<>>
                      THEN [taken EXCEPT !.at = "answered", !.text = turn.text,
                                         !.verified = Ground(turn.text, run.calls)]
                      ELSE [taken EXCEPT !.at = "calls", !.pending = turn.calls]
    PROVE  /\ Sound(run)' /\ Moves(run, run') /\ TakesTurn(run, run', turn)
           /\ run'.replays = run.replays
<1>1. /\ run \in Runs /\ run.pending = <<>> /\ ~run.failed
      /\ run.turns \in Seq(Turn) /\ turn.calls \in Seq(Asked) /\ turn.text \in Texts
      /\ \A i \in 1..Len(run.calls) : AnsweredAt(run.calls[i], run.as_of)
  BY DEF Sound, Runs, Turn
<1>2. Append(run.turns, turn) \in Seq(Turn) /\ Len(Append(run.turns, turn)) <= MaxSteps
  BY <1>1, AssistantAssumption
<1>3. PICK good \in BOOLEAN : good <=> Ground(turn.text, run.calls)
  BY GroundDecides
<1>4. CASE turn.calls = <<>>
  <2>1. good = Ground(turn.text, run.calls)
    BY <1>3, Zenon DEF Ground
  <2>2. run' = [run EXCEPT !.turns = Append(run.turns, turn), !.at = "answered",
                           !.text = turn.text, !.verified = good]
    BY <1>1, <1>4, <2>1 DEF Runs
  <2>3. /\ run' \in Runs /\ run'.at = "answered" /\ run'.pending = <<>> /\ ~run'.failed
        /\ run'.text = turn.text /\ run'.calls = run.calls /\ run'.as_of = run.as_of
        /\ run'.replays = run.replays /\ run'.turns = Append(run.turns, turn)
        /\ run'.verified = good
    BY <1>1, <1>2, <2>2 DEF Runs, Places, Ended
  <2>4. TakesTurn(run, run', turn)
    BY <1>1, <1>4, <2>3 DEF TakesTurn
  <2> QED BY <1>1, <1>2, <1>3, <2>3, <2>4 DEF Sound, Moves
<1>5. CASE turn.calls # <<>>
  <2>1. run' = [run EXCEPT !.turns = Append(run.turns, turn), !.at = "calls",
                           !.pending = turn.calls]
    BY <1>1, <1>5 DEF Runs
  <2>2. /\ run' \in Runs /\ run'.at = "calls" /\ run'.pending = turn.calls /\ ~run'.failed
        /\ run'.text = run.text /\ run'.calls = run.calls /\ run'.as_of = run.as_of
        /\ run'.replays = run.replays /\ run'.turns = Append(run.turns, turn)
    BY <1>1, <1>2, <2>1 DEF Runs, Places, Ended
  <2>3. TakesTurn(run, run', turn)
    BY <1>1, <1>5, <2>2 DEF TakesTurn
  <2> QED BY <1>1, <1>2, <1>5, <2>2, <2>3 DEF Sound, Moves
<1> QED BY <1>4, <1>5

\* A recorded run that has a turn to take or a call to make took it: the recording ends in an
\* answer, so the state a replay follows is not its last.
LEMMA NextOnTrace ==
    ASSUME NEW h, IsTrace(h), NEW rec \in Recordings, Ends(h, rec), NEW i \in 1..Len(h),
           NEW r \in Runs, Follows(r, h[i]), r.at \in {"chat", "calls"}
    PROVE  /\ i + 1 \in 1..Len(h) /\ h[i] \in Runs /\ h[i + 1] \in Runs
           /\ Moves(h[i], h[i + 1])
           /\ r.at = "chat" => /\ Len(r.turns) < Len(rec.turns)
                               /\ h[i + 1].turns[Len(r.turns) + 1] = rec.turns[Len(r.turns) + 1]
<1>1. h \in Seq(Runs) /\ Len(h) \in Nat \ {0} /\ \A k \in 1..Len(h) : h[k] \in Runs
  BY DEF IsTrace
<1>2. h[i] \in Runs /\ h[i].at = r.at /\ h[i].turns = r.turns
  BY <1>1 DEF Follows
<1>3. i # Len(h)
  BY <1>2 DEF Ends
<1>4. i \in 1..(Len(h) - 1) /\ i + 1 \in 1..Len(h)
  BY <1>1, <1>3
<1>5. Moves(h[i], h[i + 1]) /\ h[i + 1] \in Runs
  BY <1>1, <1>4 DEF IsTrace
<1>6. ASSUME r.at = "chat"
      PROVE  /\ Len(r.turns) < Len(rec.turns)
             /\ h[i + 1].turns[Len(r.turns) + 1] = rec.turns[Len(r.turns) + 1]
  <2>1. PICK u \in Turn : h[i + 1].turns = Append(h[i].turns, u)
    BY <1>2, <1>5, <1>6 DEF Moves, MakesCall, TakesTurn
  <2>2. Begins(h[i + 1].turns, rec.turns)
    BY <1>4 DEF IsTrace, Extends, Ends
  <2>3. r.turns \in Seq(Turn) /\ rec.turns \in Seq(Turn)
    BY DEF Runs, Recordings
  <2> QED BY <1>2, <2>1, <2>2, <2>3 DEF Begins
<1> QED BY <1>2, <1>4, <1>5, <1>6

\* A replay's step follows the recorded run's next step.
LEMMA KeepsFollowing ==
    ASSUME Held, Sound(run), run.replays, run.at \in {"chat", "calls"},
           NEW b \in Runs, Moves(run, b),
           run.at = "chat" =>
              b.turns[Len(run.turns) + 1] = recording.turns[Len(run.turns) + 1]
    PROVE  Retraces(b, recording)
<1>1. PICK h : IsTrace(h) /\ Ends(h, recording) /\ \E i \in 1..Len(h) : Follows(run, h[i])
  BY DEF Held, Retraces
<1>2. PICK i \in 1..Len(h) : Follows(run, h[i])
  BY <1>1
<1>3. run \in Runs /\ recording \in Recordings
  BY DEF Held, Sound
<1>4. /\ i + 1 \in 1..Len(h) /\ h[i] \in Runs /\ h[i + 1] \in Runs
      /\ Moves(h[i], h[i + 1])
      /\ run.at = "chat" =>
            h[i + 1].turns[Len(run.turns) + 1] = recording.turns[Len(run.turns) + 1]
  BY <1>1, <1>2, <1>3, NextOnTrace
<1>5. Follows(b, h[i + 1])
  BY <1>2, <1>3, <1>4, FollowsOn
<1> QED BY <1>1, <1>4, <1>5 DEF Retraces

\* A turn or a call of a run keeps the invariant, in a run of the model and in a replay.
LEMMA MovesOn ==
    ASSUME AssistInv, run.at \in {"chat", "calls"}, UNCHANGED <<ledger, recording>>,
           Sound(run)', Moves(run, run'), run'.replays = run.replays,
           run'.at # "limit",
           run.replays /\ run.at = "chat" =>
              run'.turns[Len(run.turns) + 1] = recording.turns[Len(run.turns) + 1]
    PROVE  AssistInv'
<1>1. Sound(run) /\ run \in Runs /\ run' \in Runs
  BY DEF AssistInv, Sound
<1>2. CASE Free
  <2>1. PICK h : IsTrace(h) /\ h[Len(h)] = run
    BY <1>2 DEF Free, Reached
  <2>2. IsTrace(Append(h, run')) /\ Append(h, run')[Len(Append(h, run'))] = run'
    BY <1>1, <2>1, TraceGrows
  <2>3. Reached(run')
    BY <2>2 DEF Reached
  <2>4. Free'
    BY <1>2, <2>3 DEF Free
  <2> QED BY <2>4 DEF AssistInv
<1>3. CASE Held
  <2>1. run.replays
    BY <1>3 DEF Held
  <2>2. Retraces(run', recording)
    BY <1>1, <1>3, <2>1, KeepsFollowing
  <2>3. Held'
    BY <1>3, <2>1, <2>2 DEF Held
  <2> QED BY <2>3 DEF AssistInv
<1> QED BY <1>2, <1>3 DEF AssistInv

\* ask keeps the invariant when it takes a turn.
LEMMA ChatHolds == AssistInv /\ Chat => AssistInv'
<1> SUFFICES ASSUME AssistInv, Chat PROVE AssistInv'
  OBVIOUS
<1>1. /\ run.at = "chat" /\ Len(run.turns) < MaxSteps /\ UNCHANGED <<ledger, recording>>
      /\ Sound(run) /\ (Free \/ Held)
  BY DEF Chat, AssistInv
<1>2. PICK turn \in Turns :
          LET taken == [run EXCEPT !.turns = Append(@, turn)]
          IN  run' = IF turn.calls = <<>>
                     THEN [taken EXCEPT !.at = "answered", !.text = turn.text,
                                        !.verified = Ground(turn.text, run.calls)]
                     ELSE [taken EXCEPT !.at = "calls", !.pending = turn.calls]
  BY DEF Chat
<1>3. turn \in Turn
  BY <1>1, <1>2, TurnFacts DEF Free, Held
<1>4. /\ Sound(run)' /\ Moves(run, run') /\ TakesTurn(run, run', turn)
      /\ run'.replays = run.replays
  BY <1>1, <1>2, <1>3, ChatMoves
<1>5. run'.at # "limit" /\ run'.turns = Append(run.turns, turn) /\ run.turns \in Seq(Turn)
  BY <1>1, <1>4 DEF TakesTurn, Sound, Runs
<1>6. run.replays => turn = recording.turns[Len(run.turns) + 1]
  BY <1>2 DEF Turns
<1> QED BY <1>1, <1>3, <1>4, <1>5, <1>6, MovesOn

\* ask keeps the invariant when the backend fails, which only a run of the model can meet.
LEMMA BackendFailsHolds == AssistInv /\ BackendFails => AssistInv'
<1> SUFFICES ASSUME AssistInv, BackendFails PROVE AssistInv'
  OBVIOUS
<1>1. /\ run.at = "chat" /\ ~run.replays /\ UNCHANGED <<ledger, recording>>
      /\ run' = [run EXCEPT !.at = "refused", !.failed = TRUE]
      /\ Sound(run) /\ run \in Runs
  BY DEF BackendFails, AssistInv, Sound
<1>2. /\ run' \in Runs /\ run'.at = "refused" /\ run'.pending = run.pending /\ run'.failed
      /\ run'.turns = run.turns /\ run'.calls = run.calls /\ run'.as_of = run.as_of
      /\ run'.replays = run.replays
  BY <1>1 DEF Runs, Places, Ended
<1>3. Sound(run)'
  BY <1>1, <1>2 DEF Sound
<1>4. Free
  BY <1>1 DEF AssistInv, Held
<1>5. Free'
  BY <1>1, <1>2, <1>4 DEF Free
<1> QED BY <1>1, <1>3, <1>5 DEF AssistInv

\* ask keeps the invariant at the step limit, which a replay never meets: the recorded run
\* answered within it.
LEMMA StepLimitHolds == AssistInv /\ StepLimit => AssistInv'
<1> SUFFICES ASSUME AssistInv, StepLimit PROVE AssistInv'
  OBVIOUS
<1>1. /\ run.at = "chat" /\ Len(run.turns) = MaxSteps /\ UNCHANGED <<ledger, recording>>
      /\ run' = [run EXCEPT !.at = "limit"]
      /\ Sound(run) /\ run \in Runs
  BY DEF StepLimit, AssistInv, Sound
<1>2. /\ run' \in Runs /\ run'.at = "limit" /\ run'.pending = run.pending
      /\ run'.failed = run.failed
      /\ run'.turns = run.turns /\ run'.calls = run.calls /\ run'.as_of = run.as_of
      /\ run'.replays = run.replays
  BY <1>1 DEF Runs, Places, Ended
<1>3. Sound(run)'
  BY <1>1, <1>2 DEF Sound
<1>4. ~Held
  <2> SUFFICES ASSUME Held PROVE FALSE
    OBVIOUS
  <2>1. PICK h : IsTrace(h) /\ Ends(h, recording) /\ \E i \in 1..Len(h) : Follows(run, h[i])
    BY <1>1 DEF Held, Retraces
  <2>2. PICK i \in 1..Len(h) : Follows(run, h[i])
    BY <2>1
  <2>3. recording \in Recordings /\ Len(recording.turns) <= MaxSteps
    BY DEF Held
  <2>4. Len(run.turns) < Len(recording.turns)
    BY <1>1, <2>1, <2>2, <2>3, NextOnTrace
  <2>5. Len(recording.turns) \in Nat
    BY <2>3 DEF Recordings
  <2> QED BY <1>1, <2>3, <2>4, <2>5, AssistantAssumption
<1>5. Free'
  BY <1>1, <1>2, <1>4 DEF Free, AssistInv
<1> QED BY <1>1, <1>3, <1>5 DEF AssistInv

\* A call the service answers is at the run's date, is none of the model's mistakes, and only a
\* fetch of the ledger brings entries.
LEMMA CallFacts ==
    ASSUME ledger \in Seq(Ids \cup {NoId}), Len(ledger) <= MaxEntries, Sound(run),
           NEW c \in Asked, ~Mistaken(c)
    PROVE  LET x == [asked |-> c, path |-> Path(c), query |-> Query(c, run.as_of),
                     result |-> ResultOf(Path(c), Query(c, run.as_of))]
           IN  x \in Answer /\ AnsweredAt(x, run.as_of)
<1>1. run.as_of \in Dates /\ run.as_of \in Nat
  BY AssistantAssumption DEF Sound, Runs
<1>2. /\ Path(c) \in Paths /\ Query(c, run.as_of) \in Queries /\ Path(c).tool = c.tool
      /\ c.tool = "aircraft_due" => Query(c, run.as_of).as_of = run.as_of
  BY <1>1, AskedFacts
<1>3. c.tool \in {"aircraft_due", "ledger_entries"}
  BY DEF Asked, Mistaken
<1>4. SupersededBy(ledger) \in Seq(Ids \cup {NoId}) /\ Len(ledger) \in 0..MaxEntries
  BY SupersededByFacts, AssistantAssumption
<1>5. CASE c.tool = "ledger_entries"
  <2> DEFINE result == [numbers |-> {}, words |-> {<<"by", id>> : id \in DOMAIN ledger},
                        entries |-> SupersededBy(ledger)]
  <2>1. ResultOf(Path(c), Query(c, run.as_of)) = result
    BY <1>2, <1>5 DEF ResultOf
  <2>2. DOMAIN ledger \subseteq Ids
    BY AssistantAssumption DEF Ids
  <2>3. {<<"by", id>> : id \in DOMAIN ledger} \subseteq {<<"by", id>> : id \in Ids}
    BY <2>2
  <2>4. result \in Results
    BY <1>4, <2>3 DEF Results
  <2> HIDE DEF result
  <2> QED BY <1>2, <1>5, <2>1, <2>4 DEF Answer, AnsweredAt
<1>6. CASE c.tool = "aircraft_due"
  <2> DEFINE result == [numbers |-> {100 * run.as_of + Len(ledger)}, words |-> {},
                        entries |-> <<>>]
  <2>1. ResultOf(Path(c), Query(c, run.as_of)) = result
    BY <1>2, <1>6 DEF ResultOf, Remaining
  <2>2. 100 * run.as_of + Len(ledger) \in Nat
    BY <1>1, <1>4
  <2>3. result \in Results
    BY <2>2 DEF Results
  <2>4. \E n \in 0..MaxEntries : result.numbers = {100 * run.as_of + n}
    BY <1>4
  <2>5. result.entries = <<>>
    OBVIOUS
  <2> HIDE DEF result
  <2> QED BY <1>2, <1>6, <2>1, <2>3, <2>4, <2>5 DEF Answer, AnsweredAt
<1> QED BY <1>3, <1>5, <1>6

\* A run with calls to make has a first one.
LEMMA PendingFacts ==
    ASSUME Sound(run), run.at = "calls"
    PROVE  /\ run \in Runs /\ run.pending # <<>> /\ ~run.failed
           /\ Head(run.pending) \in Asked /\ Tail(run.pending) \in Seq(Asked)
           /\ run.calls \in Seq(Answer) /\ run.as_of \in Dates /\ Len(run.turns) <= MaxSteps
           /\ \A i \in 1..Len(run.calls) : AnsweredAt(run.calls[i], run.as_of)
  BY DEF Sound, Runs

\* Once a call is made the run goes on with the rest of the turn's calls, or asks again.
LEMMA AfterFacts ==
    ASSUME Sound(run), run.at = "calls", NEW calls \in Seq(Answer),
           \A i \in 1..Len(calls) : AnsweredAt(calls[i], run.as_of),
           run' = [After EXCEPT !.calls = calls]
    PROVE  /\ Sound(run)' /\ run'.at \in {"chat", "calls"} /\ run'.calls = calls
           /\ run'.at = (IF run'.pending = <<>> THEN "chat" ELSE "calls")
           /\ run'.pending = Tail(run.pending) /\ run'.turns = run.turns
           /\ run'.text = run.text /\ run'.as_of = run.as_of /\ run'.replays = run.replays
<1>1. /\ run \in Runs /\ run.pending # <<>> /\ ~run.failed
      /\ Tail(run.pending) \in Seq(Asked) /\ Len(run.turns) <= MaxSteps
  BY PendingFacts
<1>2. PICK at \in {"chat", "calls"} :
          at = IF Tail(run.pending) = <<>> THEN "chat" ELSE "calls"
  OBVIOUS
<1>3. run' = [run EXCEPT !.pending = Tail(run.pending), !.at = at, !.calls = calls]
  BY <1>1, <1>2 DEF After, Left, Runs
<1>4. /\ run' \in Runs /\ run'.at = at /\ run'.calls = calls
      /\ run'.pending = Tail(run.pending) /\ run'.turns = run.turns /\ run'.failed = run.failed
      /\ run'.text = run.text /\ run'.as_of = run.as_of /\ run'.replays = run.replays
  BY <1>1, <1>2, <1>3 DEF Runs, Places
<1> QED BY <1>1, <1>2, <1>4 DEF Sound

\* _execute keeps the invariant: a call corrected, answered or refused.
LEMMA ExecuteHolds == AssistInv /\ Execute => AssistInv'
<1> SUFFICES ASSUME AssistInv, Execute PROVE AssistInv'
  OBVIOUS
<1> DEFINE c == Head(run.pending)
<1>1. /\ run.at = "calls" /\ UNCHANGED <<ledger, recording>> /\ Sound(run)
      /\ ledger \in Seq(Ids \cup {NoId}) /\ Len(ledger) <= MaxEntries /\ (Free \/ Held)
  BY DEF Execute, AssistInv
<1>2. /\ run \in Runs /\ run.pending # <<>> /\ ~run.failed /\ c \in Asked
      /\ run.calls \in Seq(Answer) /\ run.as_of \in Dates /\ Len(run.turns) <= MaxSteps
      /\ \A i \in 1..Len(run.calls) : AnsweredAt(run.calls[i], run.as_of)
  BY <1>1, PendingFacts
<1>3. \/ Mistaken(c) /\ run' = After
      \/ ~Mistaken(c) /\ run' = Answered(c)
      \/ run' = Refused
  BY DEF Execute, Corrected
<1> HIDE DEF c
<1>4. CASE Mistaken(c) /\ run' = After
  <2>1. run' = [After EXCEPT !.calls = run.calls]
    BY <1>2, <1>4 DEF After, Runs
  <2>2. /\ Sound(run)' /\ run'.at \in {"chat", "calls"} /\ run'.calls = run.calls
        /\ run'.at = (IF run'.pending = <<>> THEN "chat" ELSE "calls")
        /\ run'.pending = Tail(run.pending) /\ run'.turns = run.turns
        /\ run'.text = run.text /\ run'.as_of = run.as_of /\ run'.replays = run.replays
    BY <1>1, <1>2, <2>1, AfterFacts
  <2>3. MakesCall(run, run', c)
    BY <1>1, <1>2, <1>4, <2>2 DEF MakesCall, c
  <2>4. Moves(run, run')
    BY <1>2, <2>2, <2>3 DEF Moves
  <2> QED BY <1>1, <2>2, <2>4, MovesOn
<1>5. CASE ~Mistaken(c) /\ run' = Answered(c)
  <2> DEFINE x == [asked |-> c, path |-> Path(c), query |-> Query(c, run.as_of),
                   result |-> ResultOf(Path(c), Query(c, run.as_of))]
  <2>1. x \in Answer /\ AnsweredAt(x, run.as_of)
    BY <1>1, <1>2, <1>5, CallFacts
  <2>2. x.path = Path(c) /\ x.query = Query(c, run.as_of)
    OBVIOUS
  <2>3. run' = [After EXCEPT !.calls = Append(run.calls, x)]
    <3> HIDE DEF x
    <3>1. After.calls = run.calls
      BY <1>2 DEF After, Runs
    <3>2. run' = [After EXCEPT !.calls = Append(@, x)]
      BY <1>5 DEF Answered, x
    <3> QED BY <3>1, <3>2
  <2> HIDE DEF x
  <2>4. Append(run.calls, x) \in Seq(Answer)
    BY <1>2, <2>1
  <2>5. \A i \in 1..Len(Append(run.calls, x)) : AnsweredAt(Append(run.calls, x)[i], run.as_of)
    BY <1>2, <2>1
  <2>6. /\ Sound(run)' /\ run'.at \in {"chat", "calls"} /\ run'.calls = Append(run.calls, x)
        /\ run'.at = (IF run'.pending = <<>> THEN "chat" ELSE "calls")
        /\ run'.pending = Tail(run.pending) /\ run'.turns = run.turns
        /\ run'.text = run.text /\ run'.as_of = run.as_of /\ run'.replays = run.replays
    BY <1>1, <2>3, <2>4, <2>5, AfterFacts
  <2>7. MakesCall(run, run', c)
    BY <1>1, <1>2, <1>5, <2>1, <2>2, <2>6 DEF MakesCall, c
  <2>8. Moves(run, run')
    BY <1>2, <2>6, <2>7 DEF Moves
  <2> QED BY <1>1, <2>6, <2>8, MovesOn
<1>6. CASE run' = Refused
  <2>0. <<>> \in Seq(Asked)
    OBVIOUS
  <2>1. /\ run' \in Runs /\ run'.at = "refused" /\ run'.pending = <<>> /\ run'.failed
        /\ run'.turns = run.turns /\ run'.calls = run.calls /\ run'.as_of = run.as_of
        /\ run'.replays = run.replays
    BY <1>2, <1>6, <2>0 DEF Refused, Runs, Places, Ended
  <2>2. Sound(run)'
    BY <1>2, <2>1 DEF Sound
  <2>3. CASE Free
    BY <1>1, <2>1, <2>2, <2>3 DEF AssistInv, Free
  <2>4. CASE Held
    <3>1. PICK h : IsTrace(h) /\ Ends(h, recording) /\ \E i \in 1..Len(h) : Follows(run, h[i])
      BY <1>1, <2>4 DEF Held, Retraces
    <3>2. PICK i \in 1..Len(h) : Follows(run, h[i])
      BY <3>1
    <3>3. Follows(run', h[i])
      BY <2>1, <3>2 DEF Follows
    <3>4. Retraces(run', recording)
      BY <3>1, <3>3 DEF Retraces
    <3>5. Held'
      BY <1>1, <2>1, <2>4, <3>4 DEF Held
    <3> QED BY <1>1, <2>2, <3>5 DEF AssistInv
  <2> QED BY <1>1, <2>3, <2>4
<1> QED BY <1>3, <1>4, <1>5, <1>6

\* Saving the run keeps the invariant: the trace of the run is that of the recording.
LEMMA RecordHolds == AssistInv /\ Record => AssistInv'
<1> SUFFICES ASSUME AssistInv, Record PROVE AssistInv'
  OBVIOUS
<1>1. /\ run.at = "answered" /\ ~run.replays /\ ~recording.held /\ UNCHANGED <<ledger, run>>
      /\ recording' = Recorded /\ Sound(run) /\ run \in Runs /\ run.pending = <<>>
  BY DEF Record, AssistInv, Sound
<1>2. /\ recording' \in Recordings /\ recording'.as_of = run.as_of
      /\ recording'.turns = run.turns /\ recording'.calls = run.calls
      /\ recording'.text = run.text /\ recording'.verified = run.verified
  BY <1>1 DEF Recorded, Recordings, Runs
<1>3. Free
  BY <1>1 DEF AssistInv, Held, Recordings
<1>4. PICK h : IsTrace(h) /\ h[Len(h)] = run
  BY <1>1, <1>3 DEF Free, Reached
<1>5. Ends(h, recording')
  BY <1>1, <1>2, <1>4 DEF Ends
<1>6. RecordedFrom(recording')
  BY <1>4, <1>5 DEF RecordedFrom
<1>7. Held'
  BY <1>1, <1>2, <1>6 DEF Held, Sound
<1> QED BY <1>1, <1>7 DEF AssistInv

\* Starting a replay keeps the invariant: it is where the recorded run started.
LEMMA ReplayHolds == AssistInv /\ Replay => AssistInv'
<1> SUFFICES ASSUME AssistInv, Replay PROVE AssistInv'
  OBVIOUS
<1>1. /\ recording.held /\ ~run.replays /\ UNCHANGED <<ledger, recording>>
      /\ run' = Started(TRUE, recording.as_of)
  BY DEF Replay
<1>2. Held
  BY <1>1 DEF AssistInv, Free, NoRecording
<1>3. recording.as_of \in Dates
  BY <1>2 DEF Held, Recordings
<1>4. /\ run' \in Runs /\ run'.at = "chat" /\ run'.turns = <<>> /\ run'.pending = <<>>
      /\ run'.calls = <<>> /\ run'.text = NoText /\ ~run'.failed /\ run'.replays
      /\ run'.as_of = recording.as_of
  BY <1>1, <1>3, NoTextIsText DEF Started, Runs, Places
<1>5. Sound(run)'
  BY <1>4, AssistantAssumption DEF Sound
<1>6. PICK h : IsTrace(h) /\ Ends(h, recording)
  BY <1>2 DEF Held, RecordedFrom
<1>7. 1 \in 1..Len(h) /\ Len(h) \in 1..Len(h)
  BY <1>6 DEF IsTrace
<1>8. h[1].as_of = recording.as_of
  BY <1>6, <1>7 DEF IsTrace, Extends, Ends
<1>9. Follows(run', h[1])
  BY <1>4, <1>6, <1>8 DEF Follows, IsTrace
<1>10. Retraces(run', recording)
  BY <1>6, <1>7, <1>9 DEF Retraces
<1>11. Held'
  BY <1>1, <1>2, <1>4, <1>10 DEF Held
<1> QED BY <1>1, <1>5, <1>11 DEF AssistInv

\* Another client's entry keeps the invariant: no result already fetched depends on it.
LEMMA EnterHolds == AssistInv /\ Enter => AssistInv'
<1> SUFFICES ASSUME AssistInv, Enter PROVE AssistInv'
  OBVIOUS
<1>1. /\ Len(ledger) < MaxEntries /\ UNCHANGED <<run, recording>>
      /\ ledger \in Seq(Ids \cup {NoId})
  BY DEF Enter, AssistInv
<1>2. PICK id \in {NoId} \cup DOMAIN ledger : ledger' = Append(ledger, id)
  BY DEF Enter
<1>3. id \in Ids \cup {NoId}
  BY <1>1, <1>2, AssistantAssumption DEF Ids
<1>4. ledger' \in Seq(Ids \cup {NoId}) /\ Len(ledger') <= MaxEntries
  BY <1>1, <1>2, <1>3, AssistantAssumption
<1>5. Sound(run)' /\ (Free \/ Held)'
  BY <1>1 DEF AssistInv, Sound, Free, Held
<1> QED BY <1>4, <1>5 DEF AssistInv

\* The invariant holds of every reachable state.
THEOREM AssistInductive == Spec => []AssistInv
<1>1. AssistInv /\ UNCHANGED vars => AssistInv'
  BY DEF AssistInv, Sound, Free, Held, vars
<1>2. AssistInv /\ [Next]_vars => AssistInv'
  BY <1>1, ChatHolds, BackendFailsHolds, StepLimitHolds, ExecuteHolds, RecordHolds, ReplayHolds,
     EnterHolds DEF Next, Step
<1> QED BY InitHolds, <1>2, PTL DEF Spec

-----------------------------------------------------------------------------
\* A set of places in a sequence that holds one has a last.
LEMMA Greatest ==
    ASSUME NEW len \in Nat, NEW T \in SUBSET (1..len), T # {}
    PROVE  \E n \in T : \A m \in T : n >= m
<1> DEFINE U == {len - n : n \in T}
<1>1. U \in SUBSET Nat /\ U # {}
  <2>1. \A n \in T : n \in 1..len /\ len - n \in Nat
    OBVIOUS
  <2> QED BY <2>1
<1>2. PICK u \in U : \A v \in U : u <= v
  <2> HIDE DEF U
  <2> QED BY <1>1, Least
<1>3. PICK n \in T : u = len - n
  BY <1>2
<1>4. ASSUME NEW m \in T PROVE n >= m
  <2>1. len - m \in U
    OBVIOUS
  <2>2. u <= len - m
    BY <1>2, <2>1
  <2> QED BY <1>3, <2>2
<1> QED BY <1>4

\* An entry some fetch lists is judged by the last that lists it (_ledger_checks: by_id).
LEMMA LastListing ==
    ASSUME NEW calls \in Seq(Answer), NEW id \in Entries(calls)
    PROVE  \E i \in 1..Len(calls) :
              /\ calls[i].path.tool = "ledger_entries"
              /\ id \in DOMAIN calls[i].result.entries
              /\ \A j \in 1..Len(calls) :
                    j > i /\ calls[j].path.tool = "ledger_entries" =>
                        id \notin DOMAIN calls[j].result.entries
              /\ SuccessorOf(calls, id) = calls[i].result.entries[id]
<1> DEFINE at == CHOOSE i \in Listing(calls, id) : \A j \in Listing(calls, id) : i >= j
<1>1. DOMAIN calls = 1..Len(calls) /\ Len(calls) \in Nat
  OBVIOUS
<1>2. Listing(calls, id) \in SUBSET (1..Len(calls)) /\ Listing(calls, id) # {}
  BY <1>1 DEF Listing, Fetches, Entries
<1>3. \E i \in Listing(calls, id) : \A j \in Listing(calls, id) : i >= j
  BY <1>1, <1>2, Greatest
<1>4. at \in Listing(calls, id) /\ \A j \in Listing(calls, id) : at >= j
  BY <1>3
<1>5. SuccessorOf(calls, id) = calls[at].result.entries[id]
  BY DEF SuccessorOf
<1> HIDE DEF at
<1>6. ASSUME NEW j \in 1..Len(calls), j > at, calls[j].path.tool = "ledger_entries",
             id \in DOMAIN calls[j].result.entries
      PROVE  FALSE
  <2>1. j \in Listing(calls, id)
    BY <1>1, <1>6 DEF Listing, Fetches
  <2> QED BY <1>2, <1>4, <1>6, <2>1
<1> QED BY <1>2, <1>4, <1>5, <1>6, <1>1 DEF Listing, Fetches

\* A verified answer names no superseded entry without its successor, in the last fetch of it.
LEMMA SupersededHolds ==
    ASSUME Sound(run)
    PROVE  SupersededIsSaid
<1> SUFFICES ASSUME run.at = "answered", run.verified,
                    NEW id \in run.text.refs
                               \cup (IF Entries(run.calls) = {} THEN {} ELSE run.text.hashes)
             PROVE  \E i \in DOMAIN run.calls :
                       /\ run.calls[i].path.tool = "ledger_entries"
                       /\ id \in DOMAIN run.calls[i].result.entries
                       /\ \A j \in DOMAIN run.calls :
                             j > i => id \notin DOMAIN run.calls[j].result.entries
                       /\ run.calls[i].result.entries[id]
                             \in run.text.refs \cup run.text.hashes \cup {NoId}
  BY DEF SupersededIsSaid
<1>1. /\ run.calls \in Seq(Answer) /\ DOMAIN run.calls = 1..Len(run.calls)
      /\ \A i \in 1..Len(run.calls) : AnsweredAt(run.calls[i], run.as_of)
      /\ Ground(run.text, run.calls)
  BY DEF Sound, Runs
<1>2. LedgerChecks(run.text, run.calls)
  BY <1>1 DEF Ground
<1>3. Entries(run.calls) # {}
  BY <1>2 DEF LedgerChecks
<1>4. /\ id \in Entries(run.calls)
      /\ SuccessorOf(run.calls, id) \in run.text.refs \cup run.text.hashes \cup {NoId}
  BY <1>2, <1>3 DEF LedgerChecks
<1>5. PICK i \in 1..Len(run.calls) :
         /\ run.calls[i].path.tool = "ledger_entries"
         /\ id \in DOMAIN run.calls[i].result.entries
         /\ \A j \in 1..Len(run.calls) :
               j > i /\ run.calls[j].path.tool = "ledger_entries" =>
                   id \notin DOMAIN run.calls[j].result.entries
         /\ SuccessorOf(run.calls, id) = run.calls[i].result.entries[id]
  BY <1>1, <1>4, LastListing
<1>6. ASSUME NEW j \in 1..Len(run.calls), j > i
      PROVE  id \notin DOMAIN run.calls[j].result.entries
  <2>1. CASE run.calls[j].path.tool = "ledger_entries"
    BY <1>5, <1>6, <2>1
  <2>2. CASE run.calls[j].path.tool # "ledger_entries"
    <3>1. run.calls[j].result.entries = <<>>
      BY <1>1, <2>2 DEF AnsweredAt
    <3> QED BY <3>1
  <2> QED BY <2>1, <2>2
<1> QED BY <1>1, <1>4, <1>5, <1>6

\* What a verified answer says of aircraft and people is of calls the service answered.
LEMMA FetchedHolds ==
    ASSUME Sound(run)
    PROVE  VerifiedIsFetched
<1> SUFFICES ASSUME run.at = "answered", run.verified, NEW w \in run.text.words
             PROVE  \E i \in DOMAIN run.calls :
                       ~Mistaken(run.calls[i].asked) /\ w \in CallWords(run.calls[i])
  BY DEF VerifiedIsFetched
<1>1. /\ DOMAIN run.calls = 1..Len(run.calls)
      /\ \A i \in 1..Len(run.calls) : AnsweredAt(run.calls[i], run.as_of)
      /\ Ground(run.text, run.calls)
  BY DEF Sound, Runs
<1>2. PICK i \in DOMAIN run.calls : w \in CallWords(run.calls[i])
  BY <1>1 DEF Ground, RecordWords
<1> QED BY <1>1, <1>2 DEF AnsweredAt

\* A run answers only what it fetched and as it fetched it, and one the service refused says
\* nothing and leaves nothing to replay.
THEOREM AnswersAreGroundedHold == Spec => []AnswersAreGrounded
<1>1. AssistInv => TypeOK
  <2> SUFFICES ASSUME AssistInv PROVE TypeOK
    OBVIOUS
  <2>1. Sound(run) /\ run \in Runs /\ run.calls \in Seq(Answer)
    BY DEF AssistInv, Sound, Runs
  <2>2. \A i \in DOMAIN run.calls : run.calls[i].result.entries \in Seq(Ids \cup {NoId})
    <3> SUFFICES ASSUME NEW i \in DOMAIN run.calls
                 PROVE  run.calls[i].result.entries \in Seq(Ids \cup {NoId})
      OBVIOUS
    <3>1. run.calls[i] \in Answer
      BY <2>1
    <3>2. run.calls[i].result \in Results
      BY <3>1 DEF Answer
    <3> QED BY <3>2 DEF Results
  <2>3. run.at \in {"chat", "calls"} \cup Ended /\ run.as_of \in Dates /\ run.text \in Texts
    BY <2>1 DEF Runs, Places
  <2>4. (run.at = "calls") <=> (run.pending # <<>>)
    BY <2>1 DEF Sound
  <2> QED BY <2>2, <2>3, <2>4 DEF TypeOK, AssistInv
<1>2. AssistInv => FailedSaysNothing
  BY DEF AssistInv, Sound, Free, Held, NoRecording, FailedSaysNothing
<1>3. AssistInv => SupersededIsSaid /\ VerifiedIsFetched
  BY SupersededHolds, FetchedHolds DEF AssistInv
<1> QED BY AssistInductive, <1>1, <1>2, <1>3, PTL DEF AnswersAreGrounded

\* A replay that retraces the recorded run has a turn left when it asks for one, has made its
\* calls, and ends in its text.
LEMMA RetracedFacts ==
    ASSUME NEW r \in Runs, NEW rec \in Recordings, Retraces(r, rec)
    PROVE  /\ r.at = "chat" => Len(r.turns) < Len(rec.turns)
           /\ \A i \in 1..Len(r.calls) :
                 r.calls[i].path = rec.calls[i].path /\ r.calls[i].query = rec.calls[i].query
           /\ r.at = "answered" => r.text = rec.text /\ Len(r.calls) = Len(rec.calls)
<1>1. PICK h : IsTrace(h) /\ Ends(h, rec) /\ \E i \in 1..Len(h) : Follows(r, h[i])
  BY DEF Retraces
<1>2. PICK i \in 1..Len(h) : Follows(r, h[i])
  BY <1>1
<1>3. /\ h \in Seq(Runs) /\ Len(h) \in Nat \ {0} /\ h[i] \in Runs
      /\ Extends(h[i], h[Len(h)])
  BY <1>1 DEF IsTrace
<1>4. r.at = "chat" => Len(r.turns) < Len(rec.turns)
  BY <1>1, <1>2, NextOnTrace
<1>5. ASSUME NEW k \in 1..Len(r.calls)
      PROVE  r.calls[k].path = rec.calls[k].path /\ r.calls[k].query = rec.calls[k].query
  <2>1. Begins(h[i].calls, rec.calls)
    BY <1>1, <1>3 DEF Extends, Ends
  <2>2. k \in 1..Len(h[i].calls) /\ h[i].calls[k] = rec.calls[k]
    BY <1>2, <2>1 DEF Begins, Follows
  <2> QED BY <1>2, <2>2 DEF Follows
<1>6. ASSUME r.at = "answered"
      PROVE  r.text = rec.text /\ Len(r.calls) = Len(rec.calls)
  <2>1. h[i].at = "answered" /\ r.text = h[i].text /\ Len(r.calls) = Len(h[i].calls)
    BY <1>2, <1>6 DEF Follows
  <2>2. i = Len(h)
    <3> SUFFICES ASSUME i # Len(h) PROVE FALSE
      OBVIOUS
    <3>1. i \in 1..(Len(h) - 1)
      BY <1>3
    <3>2. Moves(h[i], h[i + 1])
      BY <1>1, <3>1 DEF IsTrace
    <3> QED BY <2>1, <3>2 DEF Moves, TakesTurn, MakesCall
  <2> QED BY <1>1, <2>1, <2>2 DEF Ends
<1> QED BY <1>4, <1>5, <1>6

\* A replay makes the recorded calls at the recorded date, never meets the step limit, ends in
\* the recorded text, and with the same results is verified as the run was.
THEOREM ReplayAgreesHolds == Spec => []ReplayAgrees
<1>1. AssistInv => ReplayAgrees
  <2> SUFFICES ASSUME AssistInv PROVE ReplayAgrees
    OBVIOUS
  <2>1. Sound(run) /\ run \in Runs /\ DOMAIN run.calls = 1..Len(run.calls)
    BY DEF AssistInv, Sound, Runs
  <2>2. OneDate
    BY <2>1 DEF OneDate, Sound, AnsweredAt
  <2>3. ASSUME run.replays
        PROVE  /\ run.at # "limit"
               /\ run.at = "chat" => Len(run.turns) < Len(recording.turns)
               /\ \A i \in DOMAIN run.calls :
                     /\ run.calls[i].path = recording.calls[i].path
                     /\ run.calls[i].query = recording.calls[i].query
               /\ run.at = "answered" =>
                     /\ run.text = recording.text /\ Len(run.calls) = Len(recording.calls)
                     /\ run.calls = recording.calls => run.verified = recording.verified
    <3>1. Held
      BY <2>3 DEF AssistInv, Free
    <3>2. /\ recording \in Recordings /\ run.at # "limit" /\ Retraces(run, recording)
          /\ recording.verified <=> Ground(recording.text, recording.calls)
      BY <2>3, <3>1 DEF Held
    <3>3. /\ run.at = "chat" => Len(run.turns) < Len(recording.turns)
          /\ \A i \in 1..Len(run.calls) :
                /\ run.calls[i].path = recording.calls[i].path
                /\ run.calls[i].query = recording.calls[i].query
          /\ run.at = "answered" =>
                run.text = recording.text /\ Len(run.calls) = Len(recording.calls)
      BY <2>1, <3>2, RetracedFacts
    <3>4. ASSUME run.at = "answered", run.calls = recording.calls
          PROVE  run.verified = recording.verified
      <4>1. run.verified <=> Ground(run.text, run.calls)
        BY <2>1, <3>4 DEF Sound
      <4>2. run.verified \in BOOLEAN /\ recording.verified \in BOOLEAN
        BY <2>1, <3>2 DEF Runs, Recordings
      <4>3. Ground(run.text, run.calls) <=> Ground(recording.text, recording.calls)
        BY <3>3, <3>4
      <4> QED BY <3>2, <4>1, <4>2, <4>3
    <3> QED BY <2>1, <3>2, <3>3, <3>4
  <2> QED BY <2>2, <2>3 DEF ReplayAgrees
<1> QED BY AssistInductive, <1>1, PTL

=============================================================================
