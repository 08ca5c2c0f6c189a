--------------------------- MODULE ServiceProofs ---------------------------
(***************************************************************************)
(* Proofs about Service, for every number of requests and commands and     *)
(* every job they may be given: writes are accepted in turn, whoever is    *)
(* refused leaves nothing, and what is answered is so.                     *)
(***************************************************************************)
EXTENDS Service, SequenceTheorems, FiniteSetTheorems, TLAPS

-----------------------------------------------------------------------------
(* The log.                                                                *)

IsLog(l) == l \in Seq({l[i] : i \in DOMAIN l})

\* A log is numbered from 1, and a prefix of it is one too.
LEMMA LogFacts ==
    ASSUME NEW l, IsLog(l)
    PROVE  /\ Len(l) \in Nat /\ DOMAIN l = 1 .. Len(l)
           /\ \A k \in 0 .. Len(l) :
                 /\ IsLog(SubSeq(l, 1, k))
                 /\ DOMAIN SubSeq(l, 1, k) = 1 .. k
                 /\ \A i \in 1 .. k : SubSeq(l, 1, k)[i] = l[i]
<1>1. Len(l) \in Nat /\ DOMAIN l = 1 .. Len(l) BY LenProperties DEF IsLog
<1>2. ASSUME NEW k \in 0 .. Len(l)
      PROVE  /\ IsLog(SubSeq(l, 1, k))
             /\ DOMAIN SubSeq(l, 1, k) = 1 .. k
             /\ \A i \in 1 .. k : SubSeq(l, 1, k)[i] = l[i]
  <2>1. SubSeq(l, 1, k) = [i \in 1 .. k |-> l[i]]
    BY <1>1, SMT DEF IsLog
  <2> DEFINE s == [i \in 1 .. k |-> l[i]]
  <2>2. k \in Nat BY <1>1
  <2>3. s \in Seq({s[i] : i \in DOMAIN s})
    BY <2>2, IsASeq
  <2>4. QED BY <2>1, <2>3 DEF IsLog
<1>3. QED BY <1>1, <1>2

\* A write adds one at the end, and changes no state before it.
LEMMA LogGrows ==
    ASSUME NEW l, IsLog(l), NEW e
    PROVE  /\ IsLog(Append(l, e)) /\ Len(Append(l, e)) = Len(l) + 1
           /\ \A i \in 1 .. Len(l) : Append(l, e)[i] = l[i]
           /\ Append(l, e)[Len(l) + 1] = e
           /\ \A k \in 0 .. Len(l) : SubSeq(Append(l, e), 1, k) = SubSeq(l, 1, k)
<1> DEFINE S == {l[i] : i \in DOMAIN l} \cup {e}
<1> DEFINE m == Append(l, e)
<1>1. l \in Seq(S) /\ e \in S BY DEF IsLog
<1>2. Len(l) \in Nat /\ DOMAIN l = 1 .. Len(l) BY LogFacts
<1> HIDE DEF S
<1>3. /\ m \in Seq(S) /\ Len(m) = Len(l) + 1
      /\ \A i \in 1 .. Len(l) : m[i] = l[i]
      /\ m[Len(l) + 1] = e
  BY <1>1, AppendProperties
<1> HIDE DEF m
<1>4. IsLog(m)
  <2>1. DOMAIN m = 1 .. Len(m) /\ Len(m) \in Nat BY <1>3, LenProperties
  <2>2. m = [i \in 1 .. Len(m) |-> m[i]] BY <1>3, <2>1
  <2>3. [i \in 1 .. Len(m) |-> m[i]] \in Seq({m[i] : i \in DOMAIN m}) BY <2>1, IsASeq
  <2>4. QED BY <2>2, <2>3 DEF IsLog
<1>5. ASSUME NEW k \in 0 .. Len(l) PROVE SubSeq(m, 1, k) = SubSeq(l, 1, k)
  <2>1. SubSeq(m, 1, k) = [i \in 1 .. k |-> m[i]] BY <1>2, <1>3
  <2>2. SubSeq(l, 1, k) = [i \in 1 .. k |-> l[i]] BY <1>1, <1>2
  <2>3. QED BY <1>2, <1>3, <2>1, <2>2
<1>6. QED BY <1>3, <1>4, <1>5 DEF m

-----------------------------------------------------------------------------
(* What holds of each actor at each step.  A part of the invariant is      *)
(* stated of one actor, so that a step of another disturbs it only through *)
(* what they share.                                                        *)

SeedJob == [op |-> "seed"]
Jobs == {NoJob, SeedJob} \cup CommandJobs \cup (UNION {RequestJobs[p] : p \in Requests})

Act == [at : Places, job : Jobs, outcome : Outcomes, next : Nat, bad : BOOLEAN, got : Nat,
        temp : BOOLEAN, since : Nat, seen : Nat, found : Nat]

Typed ==
    /\ IsLog(log) /\ act \in [Actors -> Act]
    /\ damaged \in BOOLEAN /\ made \in Actors \cup {NoOne} /\ gauges \in 0 .. Len(log)

Before == {"new", "body", "route", "read", "lock", "begin", "check", "write"}
After == {"refresh", "snapshot", "set", "view"}

\* Who can be where, and with what.
RoleOK(p) ==
    /\ act[p].at # "end" => act[p].outcome = "none"
    /\ p = Serve =>
          /\ act[p].job = SeedJob
          /\ act[p].at \in {"open", "lock", "begin", "check", "write", "refresh", "snapshot",
                            "set", "serving", "end"}
    /\ p \in Requests =>
          /\ act[p].at \in Before \cup After \cup {"dead", "entries", "end"}
          /\ act[p].at = "new" => act[p].job = NoJob
          /\ act[p].at # "new" => act[p].job \in RequestJobs[p]
          /\ act[p].at \in {"dead", "entries"} => act[p].job.op = "list"
          /\ act[p].job.op = "list" => act[p].at \in {"dead", "entries", "end"}
          /\ act[p].at = "view" => act[p].job.op = "post"
    /\ p \in Commands =>
          /\ act[p].at \in {"new", "try", "file", "open", "lock", "begin", "check", "write", "end"}
          /\ act[p].at = "new" => act[p].job = NoJob
          /\ act[p].at # "new" => act[p].job \in CommandJobs
          /\ act[p].at = "file" => act[p].job.op = "ingest logs"

LocksOK(p) ==
    /\ storeLock = p <=> InService(p) /\ act[p].at \in {"begin", "check", "write"}
    /\ fileLock = p <=> act[p].at \in {"check", "write"}
    /\ refreshLock = p <=> act[p].at \in {"snapshot", "set"}

\* Between its check and its commit the store is as it was checked against.
CheckStands(p) == act[p].at = "write" => Accepts(log, Writes(p))
InTurn == \A i \in DOMAIN log : Accepts(SubSeq(log, 1, i - 1), log[i].what)

\* A request has written nothing before its commit, and once after it.
TraceOK(p) ==
    /\ act[p].at \in Before \cup {"dead", "entries"} => WrittenBy(p) = {}
    /\ act[p].at = "end" /\ act[p].outcome \notin {"done", "damaged"} => WrittenBy(p) = {}
    /\ act[p].at = "end" /\ act[p].job.op = "list" => WrittenBy(p) = {}
    /\ act[p].at \in After => \E i \in DOMAIN log : WrittenBy(p) = {i}
    /\ act[p].at = "end" /\ act[p].outcome = "done" /\ act[p].job.op # "list" =>
          \E i \in DOMAIN log : WrittenBy(p) = {i}

\* The body is counted, and copied only when it may be.
BodyOK(p) ==
    LET j == act[p].job
    IN  /\ act[p].at = "new" => act[p].got = 0 /\ ~act[p].temp
        /\ act[p].at \in {"dead", "entries"} => ~act[p].temp
        /\ act[p].temp => act[p].at = "read" /\ j.size <= Limit
        /\ act[p].got > 0 => j.writer
        /\ act[p].got > 0 /\ Capped(j) /\ BodyLength(j) > Cap => ~j.declares /\ act[p].got <= Cap + 1
        /\ act[p].at = "body" /\ Capped(j) => act[p].got <= Cap

\* A command that made the store had what it records accepted against an empty one.
MakesOK(p) ==
    /\ act[p].at = "new" => made # p
    /\ act[p].job.op = "record" =>
          /\ act[p].at \in {"open", "lock", "begin", "check"} /\ made \in {NoOne, p} =>
                Accepts(<<>>, Writes(p))
          /\ act[p].at \in {"try", "open"} => made # p
          /\ act[p].at = "end" /\ act[p].outcome = "refused" /\ made = p => log # <<>>

\* Whose snapshot the gauges are set from, and whose write they show.
ShownOK(p) ==
    /\ act[p].at = "set" => gauges <= act[p].seen /\ act[p].seen <= Len(log)
    /\ p \in Requests /\ act[p].at = "set" => \A i \in WrittenBy(p) : i <= act[p].seen
    /\ p \in Requests /\ (act[p].at = "view" \/ (act[p].at = "end" /\ act[p].outcome = "done")) =>
          \A i \in WrittenBy(p) : i <= gauges

\* A list's two snapshots come in their order.
ListOK(p) ==
    /\ act[p].at = "dead" => act[p].since <= Len(log)
    /\ act[p].at = "entries" => act[p].since <= act[p].seen /\ act[p].seen <= Len(log)
    /\ act[p].at = "end" /\ act[p].job.op = "list" /\ act[p].outcome = "done" =>
          act[p].since <= act[p].seen /\ act[p].seen <= act[p].found /\ act[p].found <= Len(log)

FlightOf(j, n) == [kind |-> "flight", aircraft |-> j.aircraft, log |-> j.logs[n]]

\* An ingest without a refusal so far holds every log before its next.
HeldOK(p) ==
    LET j == act[p].job
    IN  /\ act[p].at = "new" => act[p].next = 1
        /\ j.op = "ingest logs" =>
              /\ act[p].at # "end" /\ ~act[p].bad =>
                    \A n \in DOMAIN j.logs : n < act[p].next => FlightOf(j, n) \in Whats(log)
              /\ act[p].at = "end" /\ act[p].outcome = "done" =>
                    \A n \in DOMAIN j.logs : FlightOf(j, n) \in Whats(log)

Own(p) ==
    /\ RoleOK(p) /\ LocksOK(p) /\ CheckStands(p) /\ ShownOK(p)
    /\ p \in Requests => TraceOK(p) /\ BodyOK(p) /\ ListOK(p)
    /\ p \in Commands => MakesOK(p) /\ HeldOK(p)

ServiceInv == Typed /\ InTurn /\ \A p \in Actors : Own(p)

\* What a step of an actor may do to the rest: only under the file's lock to the log, under
\* the refresh's to the gauges, and to a lock only take it when it is free and let it go.
Takes(lock, lockNext, p) ==
    \/ lockNext = lock
    \/ lock = NoOne /\ lockNext = p
    \/ lock = p /\ lockNext = NoOne

Moves(p) ==
    /\ act' \in [Actors -> Act]
    /\ \A q \in Actors : q # p => act'[q] = act[q]
    /\ \/ log' = log
       \/ act[p].at = "write" /\ log' = Append(log, [by |-> p, what |-> Writes(p)])
    /\ made' = made \/ (made = NoOne /\ made' = p)
    /\ Takes(storeLock, storeLock', p)
    /\ Takes(fileLock, fileLock', p)
    /\ Takes(refreshLock, refreshLock', p)
    /\ gauges' = gauges \/ (act[p].at = "set" /\ gauges' = act[p].seen)
    /\ damaged' \in BOOLEAN

-----------------------------------------------------------------------------
(* A step of one actor leaves what holds of the others.                    *)

\* What another wrote is as it was, in the log and in the store it makes up.
LEMMA LogMoves ==
    ASSUME ServiceInv, NEW p \in Actors, Moves(p)
    PROVE  /\ IsLog(log') /\ Len(log) \in Nat /\ Len(log') \in Nat /\ Len(log) <= Len(log')
           /\ DOMAIN log = 1 .. Len(log) /\ DOMAIN log' = 1 .. Len(log')
           /\ \A i \in DOMAIN log : log'[i] = log[i]
           /\ \A q \in Actors : q # p => WrittenBy(q)' = WrittenBy(q)
           /\ Whats(log) \subseteq Whats(log')
           /\ log # <<>> => log' # <<>>
<1>1. IsLog(log) BY DEF ServiceInv, Typed
<1>2. CASE log' = log BY <1>1, <1>2, LogFacts DEF WrittenBy
<1>3. CASE log' = Append(log, [by |-> p, what |-> Writes(p)])
  <2> DEFINE e == [by |-> p, what |-> Writes(p)]
  <2>1. /\ IsLog(log') /\ Len(log') = Len(log) + 1
        /\ \A i \in 1 .. Len(log) : log'[i] = log[i]
        /\ log'[Len(log) + 1] = e
    BY <1>1, <1>3, LogGrows
  <2>2. /\ Len(log) \in Nat /\ DOMAIN log = 1 .. Len(log)
        /\ DOMAIN log' = 1 .. (Len(log) + 1)
    BY <1>1, <2>1, LogFacts
  <2>3. ASSUME NEW q \in Actors, q # p PROVE WrittenBy(q)' = WrittenBy(q)
    <3>1. e.by # q BY <2>3
    <3>2. QED BY <2>1, <2>2, <3>1 DEF WrittenBy
  <2>4. Whats(log) \subseteq Whats(log') BY <2>1, <2>2 DEF Whats
  <2>5. log' # <<>> BY <2>1, <2>2
  <2>6. QED BY <2>1, <2>2, <2>3, <2>4, <2>5
<1>4. QED BY <1>2, <1>3 DEF Moves

\* Types, and that what is committed was accepted by the store as it was.
LEMMA TurnKept ==
    ASSUME ServiceInv, NEW p \in Actors, Moves(p)
    PROVE  Typed' /\ InTurn'
<1>1. Typed'
  <2>1. gauges' \in 0 .. Len(log')
    <3>1. CASE gauges' = gauges BY <3>1, LogMoves DEF ServiceInv, Typed
    <3>2. CASE act[p].at = "set" /\ gauges' = act[p].seen
      <4>1. act[p].seen \in Nat BY DEF ServiceInv, Typed, Act
      <4>2. act[p].seen <= Len(log) BY <3>2 DEF ServiceInv, Own, ShownOK
      <4>3. QED BY <3>2, <4>1, <4>2, LogMoves
    <3>3. QED BY <3>1, <3>2 DEF Moves
  <2>2. QED BY <2>1, LogMoves DEF Typed, Moves, ServiceInv
<1>2. InTurn'
  <2>1. CASE log' = log BY <2>1 DEF InTurn, ServiceInv
  <2>2. CASE act[p].at = "write" /\ log' = Append(log, [by |-> p, what |-> Writes(p)])
    <3>1. IsLog(log) /\ Len(log) \in Nat /\ DOMAIN log = 1 .. Len(log)
      BY LogMoves DEF ServiceInv, Typed
    <3>2. /\ Len(log') = Len(log) + 1 /\ DOMAIN log' = 1 .. Len(log')
          /\ \A i \in 1 .. Len(log) : log'[i] = log[i]
          /\ log'[Len(log) + 1] = [by |-> p, what |-> Writes(p)]
          /\ \A k \in 0 .. Len(log) : SubSeq(log', 1, k) = SubSeq(log, 1, k)
      BY <2>2, <3>1, LogGrows, LogMoves
    <3>3. SubSeq(log, 1, Len(log)) = log
      <4>1. log = [i \in 1 .. Len(log) |-> log[i]] BY <3>1 DEF IsLog
      <4>2. QED BY <3>1, <4>1 DEF IsLog
    <3>4. Accepts(log, Writes(p)) BY <2>2 DEF ServiceInv, Own, CheckStands
    <3>5. SUFFICES ASSUME NEW i \in DOMAIN log' PROVE Accepts(SubSeq(log', 1, i - 1), log'[i].what)
      BY DEF InTurn
    <3>6. CASE i \in DOMAIN log
      <4>1. SubSeq(log', 1, i - 1) = SubSeq(log, 1, i - 1) BY <3>1, <3>2, <3>6
      <4>2. log'[i] = log[i] BY <3>1, <3>2, <3>6
      <4>3. QED BY <3>6, <4>1, <4>2 DEF ServiceInv, InTurn
    <3>7. CASE i \notin DOMAIN log
      <4>1. i = Len(log) + 1 BY <3>1, <3>2, <3>7
      <4>2. SubSeq(log', 1, i - 1) = log BY <3>1, <3>2, <3>3, <4>1
      <4>3. log'[i].what = Writes(p) BY <3>2, <4>1
      <4>4. QED BY <3>4, <4>2, <4>3
    <3>8. QED BY <3>6, <3>7
  <2>3. QED BY <2>1, <2>2 DEF Moves
<1>3. QED BY <1>1, <1>2

\* The locks, and what each other was checked, shown or answered.
LEMMA OthersKept ==
    ASSUME ServiceInv, NEW p \in Actors, Moves(p), NEW q \in Actors, q # p
    PROVE  Own(q)'
<1> USE ServiceAssumption DEF Actors
<1>1. act'[q] = act[q] BY DEF Moves
<1>2. Own(q) /\ Own(p) BY DEF ServiceInv
<1>3. RoleOK(q)' BY <1>1, <1>2 DEF Own, RoleOK
<1>4. LocksOK(q)'
  <2>1. q # NoOne OBVIOUS
  <2>2. /\ storeLock' = q <=> storeLock = q
        /\ fileLock' = q <=> fileLock = q
        /\ refreshLock' = q <=> refreshLock = q
    BY <2>1 DEF Moves, Takes
  <2>3. QED BY <1>1, <1>2, <2>2 DEF Own, LocksOK, InService
<1>5. CheckStands(q)'
  <2>1. SUFFICES ASSUME act[q].at = "write" PROVE Accepts(log, Writes(q))'
    BY <1>1 DEF CheckStands
  <2>2. fileLock = q BY <1>2, <2>1 DEF Own, LocksOK
  <2>3. act[p].at # "write" BY <1>2, <2>2 DEF Own, LocksOK
  <2>4. log' = log BY <2>3 DEF Moves
  <2>5. Accepts(log, Writes(q)) BY <1>2, <2>1 DEF Own, CheckStands
  <2>6. Writes(q)' = Writes(q) BY <1>1 DEF Writes
  <2>7. QED BY <2>4, <2>5, <2>6
<1>6. ShownOK(q)'
  <2>1. CASE act[p].at = "set" /\ gauges' = act[p].seen
    <3>1. refreshLock = p BY <1>2, <2>1 DEF Own, LocksOK
    <3>2. act[q].at # "set" BY <1>2, <3>1 DEF Own, LocksOK
    <3>3. gauges <= gauges' /\ gauges \in Nat /\ gauges' \in Nat
      BY <1>2, <2>1, LogMoves DEF Own, ShownOK, ServiceInv, Typed, Act
    <3>4. WrittenBy(q)' = WrittenBy(q) /\ WrittenBy(q) \subseteq Nat
      BY LogMoves DEF WrittenBy
    <3>5. QED BY <1>1, <1>2, <3>2, <3>3, <3>4 DEF Own, ShownOK
  <2>2. CASE gauges' = gauges
    <3>1. WrittenBy(q)' = WrittenBy(q) BY LogMoves
    <3>2. act[q].seen \in Nat BY DEF ServiceInv, Typed, Act
    <3>3. QED BY <1>1, <1>2, <2>2, <3>1, <3>2, LogMoves DEF Own, ShownOK
  <2>3. QED BY <2>1, <2>2 DEF Moves
<1>7. ASSUME q \in Requests PROVE TraceOK(q)' /\ BodyOK(q)' /\ ListOK(q)'
  <2>1. WrittenBy(q)' = WrittenBy(q) /\ DOMAIN log \subseteq DOMAIN log' BY LogMoves
  <2>2. TraceOK(q)' BY <1>1, <1>2, <1>7, <2>1 DEF Own, TraceOK
  <2>3. BodyOK(q)' BY <1>1, <1>2, <1>7 DEF Own, BodyOK
  <2>4. act[q].since \in Nat /\ act[q].seen \in Nat /\ act[q].found \in Nat
    BY DEF ServiceInv, Typed, Act
  <2>5. ListOK(q)' BY <1>1, <1>2, <1>7, <2>4, LogMoves DEF Own, ListOK
  <2>6. QED BY <2>2, <2>3, <2>5
<1>8. ASSUME q \in Commands PROVE MakesOK(q)' /\ HeldOK(q)'
  <2>1. Writes(q)' = Writes(q) BY <1>1 DEF Writes
  <2>2. made' = q => made = q BY DEF Moves
  <2>3. made' \in {NoOne, q} => made \in {NoOne, q} BY DEF Moves
  <2>4. MakesOK(q)' BY <1>1, <1>2, <1>8, <2>1, <2>2, <2>3, LogMoves DEF Own, MakesOK
  <2>5. HeldOK(q)' BY <1>1, <1>2, <1>8, LogMoves DEF Own, HeldOK, FlightOf
  <2>6. QED BY <2>4, <2>5
<1>9. QED BY <1>3, <1>4, <1>5, <1>6, <1>7, <1>8 DEF Own

-----------------------------------------------------------------------------
(* Each step keeps what holds of its own actor.                            *)

\* A step that puts its actor somewhere leaves the other actors where they were.
LEMMA PutFacts ==
    ASSUME act \in [Actors -> Act], NEW p \in Actors, NEW a \in Act, Put(p, a)
    PROVE  /\ act' \in [Actors -> Act]
           /\ act'[p] = a
           /\ \A q \in Actors : q # p => act'[q] = act[q]
BY DEF Put

\* What of an actor stays when it goes on to another step, or ends.
Carries(p) ==
    /\ act'[p].job = act[p].job /\ act'[p].next = act[p].next /\ act'[p].bad = act[p].bad
    /\ act'[p].got = act[p].got /\ act'[p].temp = act[p].temp /\ act'[p].since = act[p].since
    /\ act'[p].seen = act[p].seen /\ act'[p].found = act[p].found

Others(p) ==
    /\ act' \in [Actors -> Act]
    /\ \A q \in Actors : q # p => act'[q] = act[q]

LEMMA GoesFacts ==
    ASSUME Typed, NEW p \in Actors, NEW place \in Places, Goes(p, place)
    PROVE  Others(p) /\ Carries(p) /\ act'[p].at = place /\ act'[p].outcome = act[p].outcome
<1> DEFINE a == [act[p] EXCEPT !.at = place]
<1>1. act[p] \in Act BY DEF Typed
<1>2. /\ a \in Act /\ a.at = place /\ a.outcome = act[p].outcome
      /\ a.job = act[p].job /\ a.next = act[p].next /\ a.bad = act[p].bad
      /\ a.got = act[p].got /\ a.temp = act[p].temp /\ a.since = act[p].since
      /\ a.seen = act[p].seen /\ a.found = act[p].found
  BY <1>1 DEF Act
<1>3. Put(p, a) BY DEF Goes
<1> HIDE DEF a
<1>4. QED BY <1>2, <1>3, PutFacts DEF Typed, Others, Carries

LEMMA EndsFacts ==
    ASSUME Typed, NEW p \in Actors, NEW outcome \in Outcomes, Ends(p, outcome)
    PROVE  Others(p) /\ Carries(p) /\ act'[p].at = "end" /\ act'[p].outcome = outcome
<1> DEFINE a == [act[p] EXCEPT !.at = "end", !.outcome = outcome]
<1>1. act[p] \in Act BY DEF Typed
<1>2. /\ a \in Act /\ a.at = "end" /\ a.outcome = outcome
      /\ a.job = act[p].job /\ a.next = act[p].next /\ a.bad = act[p].bad
      /\ a.got = act[p].got /\ a.temp = act[p].temp /\ a.since = act[p].since
      /\ a.seen = act[p].seen /\ a.found = act[p].found
  BY <1>1 DEF Act, Places
<1>3. Put(p, a) BY DEF Ends
<1> HIDE DEF a
<1>4. QED BY <1>2, <1>3, PutFacts DEF Typed, Others, Carries

LEMMA NextLogFacts ==
    ASSUME Typed, NEW p \in Actors, NEW outcome, NextLog(p, outcome)
    PROVE  /\ Others(p)
           /\ act'[p].at = "file" /\ act'[p].outcome = act[p].outcome
           /\ act'[p].job = act[p].job /\ act'[p].next = act[p].next + 1
           /\ ~act'[p].bad => ~act[p].bad /\ outcome = "duplicate"
<1>1. act[p] \in Act BY DEF Typed
<1>2. act[p].next + 1 \in Nat /\ act[p].bad \in BOOLEAN BY <1>1 DEF Act
<1>3. PICK n \in Nat : n = act[p].next + 1 BY <1>2
<1>4. PICK bad \in BOOLEAN : bad = (act[p].bad \/ ~PassesOver(outcome)) OBVIOUS
<1>5. ~bad => ~act[p].bad /\ outcome = "duplicate" BY <1>4 DEF PassesOver
<1>6. PICK a : a = [act[p] EXCEPT !.at = "file", !.next = n, !.bad = bad] OBVIOUS
<1>7. Put(p, a) BY <1>3, <1>4, <1>6, Zenon DEF NextLog
<1>8. "file" \in Places BY DEF Places
<1>9. /\ a \in Act /\ a.at = "file" /\ a.outcome = act[p].outcome /\ a.job = act[p].job
      /\ a.next = n /\ a.bad = bad
  BY <1>1, <1>6, <1>8 DEF Act
<1>10. QED BY <1>3, <1>5, <1>7, <1>9, PutFacts DEF Typed, Others

\* A step that changes nothing but where its actor is moves nothing else.
LEMMA QuietMoves ==
    ASSUME Typed, NEW p \in Actors, Others(p), UNCHANGED world
    PROVE  Moves(p)
<1>1. /\ log' = log /\ made' = made /\ damaged' = damaged /\ gauges' = gauges
      /\ storeLock' = storeLock /\ fileLock' = fileLock /\ refreshLock' = refreshLock
  BY DEF world
<1>2. damaged' \in BOOLEAN BY <1>1, Zenon DEF Typed
<1>3. QED BY <1>1, <1>2 DEF Moves, Takes, Others

\* A request's job, when it has one.
LEMMA RequestJob ==
    ASSUME ServiceInv, NEW p \in Requests, act[p].at # "new"
    PROVE  /\ act[p].job \in RequestJobs[p]
           /\ act[p].job.op \in {"list", "post", "upload"}
           /\ act[p].job.op # "list" => act[p].job.writer \in BOOLEAN
           /\ act[p].job.op = "upload" => act[p].job.declares \in BOOLEAN /\ act[p].job.size \in Nat
<1>1. act[p].job \in RequestJobs[p] BY DEF ServiceInv, Own, RoleOK, Actors
<1>2. QED BY <1>1, JobsAssumption

\* A request arrives.
LEMMA ArriveKept ==
    ASSUME ServiceInv, NEW p \in Requests, Arrive(p)
    PROVE  Moves(p) /\ Own(p)'
<1> USE ServiceAssumption DEF Actors
<1>1. Typed /\ Own(p) /\ act[p] \in Act BY DEF ServiceInv, Typed
<1>2. PICK j \in RequestJobs[p] :
        Put(p, [act[p] EXCEPT !.job = j, !.since = IF j.op = "list" THEN Len(log) ELSE 0,
                              !.at = IF j.op = "list" THEN "dead" ELSE "body"])
  BY DEF Arrive
<1> DEFINE a == [act[p] EXCEPT !.job = j, !.since = IF j.op = "list" THEN Len(log) ELSE 0,
                              !.at = IF j.op = "list" THEN "dead" ELSE "body"]
<1>3. /\ a \in Act /\ a.job = j /\ a.at = (IF j.op = "list" THEN "dead" ELSE "body")
      /\ a.since = (IF j.op = "list" THEN Len(log) ELSE 0)
      /\ a.outcome = act[p].outcome /\ a.got = act[p].got /\ a.temp = act[p].temp
  <2>1. j \in Jobs BY DEF Jobs
  <2>2. Len(log) \in Nat BY <1>1, LogFacts DEF Typed
  <2>3. QED BY <1>1, <2>1, <2>2 DEF Act, Places
<1>4. Put(p, a) BY <1>2
<1> HIDE DEF a
<1>5. Others(p) /\ act'[p] = a BY <1>1, <1>3, <1>4, PutFacts DEF Typed, Others
<1>6. UNCHANGED world /\ act[p].at = "new" BY DEF Arrive
<1>7. Moves(p) BY <1>1, <1>5, <1>6, QuietMoves
<1>8. RoleOK(p)' BY <1>1, <1>3, <1>5, <1>6, JobsAssumption DEF Own, RoleOK, Before, After
<1>9. LocksOK(p)' BY <1>1, <1>3, <1>5, <1>6 DEF Own, LocksOK, InService, world
<1>10. CheckStands(p)' /\ ShownOK(p)' BY <1>3, <1>5 DEF CheckStands, ShownOK
<1>11. TraceOK(p)' BY <1>1, <1>3, <1>5, <1>6 DEF Own, TraceOK, WrittenBy, world, Before, After
<1>12. BodyOK(p)' BY <1>1, <1>3, <1>5, <1>6 DEF Own, BodyOK, Cap
<1>13. ListOK(p)'
  <2>1. Len(log) \in Nat BY <1>1, LogFacts DEF Typed
  <2>2. QED BY <1>1, <1>3, <1>5, <1>6, <2>1 DEF ListOK, world
<1>14. QED BY <1>7, <1>8, <1>9, <1>10, <1>11, <1>12, <1>13 DEF Own

\* A receive: a refusal, or one more piece of the body.
LEMMA ReceiveKept ==
    ASSUME ServiceInv, NEW p \in Requests, Receive(p)
    PROVE  Moves(p) /\ Own(p)'
<1> USE ServiceAssumption DEF Actors
<1>1. Typed /\ Own(p) /\ act[p] \in Act BY DEF ServiceInv, Typed
<1>2. UNCHANGED world /\ act[p].at = "body" BY DEF Receive
<1>3. act[p].got \in Nat BY <1>1 DEF Act
<1>4. /\ act[p].job \in RequestJobs[p]
      /\ act[p].job.op \in {"post", "upload"}
      /\ act[p].job.writer \in BOOLEAN
      /\ act[p].job.op = "upload" => act[p].job.declares \in BOOLEAN /\ act[p].job.size \in Nat
  <2>1. act[p].job.op # "list" BY <1>1, <1>2 DEF Own, RoleOK
  <2>2. QED BY <1>2, <2>1, RequestJob
<1>5. WrittenBy(p)' = WrittenBy(p) BY <1>2 DEF WrittenBy, world
<1>6. ~act[p].temp /\ WrittenBy(p) = {} BY <1>1, <1>2 DEF Own, BodyOK, TraceOK, Before
<1>7. CASE act[p].got = 0 /\ ~Admitted(p)
  <2>1. Ends(p, "refused") BY <1>7 DEF Receive
  <2>2. Others(p) /\ Carries(p) /\ act'[p].at = "end" /\ act'[p].outcome = "refused"
    BY <1>1, <2>1, EndsFacts DEF Outcomes
  <2>3. Moves(p) BY <1>1, <1>2, <2>2, QuietMoves
  <2>4. RoleOK(p)' BY <1>4, <2>2 DEF RoleOK, Carries
  <2>5. LocksOK(p)' BY <1>1, <1>2, <2>2 DEF Own, LocksOK, InService, world
  <2>6. CheckStands(p)' /\ ShownOK(p)' /\ ListOK(p)'
    BY <2>2 DEF CheckStands, ShownOK, ListOK
  <2>7. TraceOK(p)' BY <1>5, <1>6, <2>2 DEF TraceOK, Before, After
  <2>8. BodyOK(p)' BY <1>1, <1>6, <1>7, <2>2 DEF Own, BodyOK, Carries
  <2>9. QED BY <2>3, <2>4, <2>5, <2>6, <2>7, <2>8 DEF Own
<1>8. CASE ~(act[p].got = 0 /\ ~Admitted(p))
  <2> DEFINE got == act[p].got + 1
  <2>1. PICK place \in {"end", "route", "body"}, outcome \in {"refused", act[p].outcome} :
          /\ Put(p, [act[p] EXCEPT !.got = got, !.at = place, !.outcome = outcome])
          /\ place = "end" => outcome = "refused"
          /\ place # "end" => outcome = act[p].outcome /\ ~(Capped(act[p].job) /\ got > Cap)
    <3>1. CASE Capped(act[p].job) /\ got > Cap
      <4>1. Put(p, [act[p] EXCEPT !.got = got, !.at = "end", !.outcome = "refused"])
        BY <1>8, <3>1 DEF Receive
      <4>2. QED BY <4>1
    <3>2. CASE ~(Capped(act[p].job) /\ got > Cap)
      <4> DEFINE place == IF got = BodyLength(act[p].job) THEN "route" ELSE "body"
      <4>1. Put(p, [act[p] EXCEPT !.got = got, !.at = place])
        BY <1>8, <3>2 DEF Receive
      <4>2. [act[p] EXCEPT !.got = got, !.at = place]
              = [act[p] EXCEPT !.got = got, !.at = place, !.outcome = act[p].outcome]
        BY <1>1 DEF Act
      <4>3. place \in {"route", "body"} OBVIOUS
      <4>4. QED BY <3>2, <4>1, <4>2, <4>3
    <3>3. QED BY <3>1, <3>2
  <2> DEFINE a == [act[p] EXCEPT !.got = got, !.at = place, !.outcome = outcome]
  <2>2. /\ a \in Act /\ a.at = place /\ a.got = act[p].got + 1 /\ a.outcome = outcome
        /\ a.job = act[p].job /\ a.temp = act[p].temp
    <3>1. place \in Places /\ outcome \in Outcomes /\ got \in Nat
      BY <1>1, <1>3 DEF Act, Places, Outcomes
    <3>2. QED BY <1>1, <3>1 DEF Act
  <2> HIDE DEF a
  <2>3. Others(p) /\ act'[p] = a BY <1>1, <2>1, <2>2, PutFacts DEF Typed, Others, a
  <2>4. Moves(p) BY <1>1, <1>2, <2>3, QuietMoves
  <2>5. RoleOK(p)' BY <1>1, <1>2, <1>4, <2>1, <2>2, <2>3 DEF Own, RoleOK, Before, After
  <2>6. LocksOK(p)' BY <1>1, <1>2, <2>2, <2>3 DEF Own, LocksOK, InService, world
  <2>7. CheckStands(p)' /\ ShownOK(p)' /\ ListOK(p)'
    BY <1>4, <1>5, <1>6, <2>1, <2>2, <2>3 DEF CheckStands, ShownOK, ListOK
  <2>8. TraceOK(p)' BY <1>4, <1>5, <1>6, <2>1, <2>2, <2>3 DEF TraceOK, Before, After
  <2>9. BodyOK(p)'
    <3>1. Cap \in Nat BY DEF Cap
    <3>2. act[p].got = 0 => act[p].job.writer
            /\ (Capped(act[p].job) /\ act[p].job.declares => BodyLength(act[p].job) <= Cap)
      BY <1>8 DEF Admitted
    <3>3. Capped(act[p].job) => act[p].got <= Cap BY <1>1, <1>2 DEF Own, BodyOK
    <3>4. act[p].got > 0 => act[p].job.writer BY <1>1 DEF Own, BodyOK
    <3>5. act[p].job.writer BY <1>3, <3>2, <3>4
    <3>6. Capped(act[p].job) /\ BodyLength(act[p].job) > Cap => ~act[p].job.declares
      <4>1. SUFFICES ASSUME Capped(act[p].job), BodyLength(act[p].job) > Cap
                     PROVE  ~act[p].job.declares
        OBVIOUS
      <4>2. BodyLength(act[p].job) \in Nat BY <1>4, <4>1 DEF BodyLength, Capped
      <4>3. CASE act[p].got = 0 BY <3>1, <3>2, <4>1, <4>2, <4>3
      <4>4. CASE act[p].got > 0 BY <1>1, <4>1, <4>4 DEF Own, BodyOK
      <4>5. QED BY <1>3, <4>3, <4>4
    <3>7. Capped(act[p].job) => act[p].got + 1 <= Cap + 1 BY <1>3, <3>1, <3>3
    <3>8. place = "body" /\ Capped(act[p].job) => act[p].got + 1 <= Cap
      BY <1>3, <2>1, <3>1
    <3>9. QED BY <1>6, <2>2, <2>3, <2>1, <3>5, <3>6, <3>7, <3>8 DEF BodyOK
  <2>10. QED BY <2>4, <2>5, <2>6, <2>7, <2>8, <2>9 DEF Own
<1>9. QED BY <1>7, <1>8

\* A request that ends with nothing written, wherever before its commit.
LEMMA RequestEnds ==
    ASSUME ServiceInv, NEW p \in Requests, UNCHANGED world, WrittenBy(p) = {},
           act[p].at \notin {"new", "begin", "check", "write", "snapshot", "set", "end"},
           Others(p), NEW outcome \in {"refused", "failed", "damaged"},
           act'[p].at = "end", act'[p].outcome = outcome, act'[p].job = act[p].job,
           act'[p].got = act[p].got, ~act'[p].temp
    PROVE  Moves(p) /\ Own(p)'
<1> USE ServiceAssumption DEF Actors
<1>1. Typed /\ Own(p) BY DEF ServiceInv
<1>2. Moves(p) BY <1>1, QuietMoves
<1>3. WrittenBy(p)' = {} BY DEF WrittenBy, world
<1>4. RoleOK(p)' BY <1>1 DEF Own, RoleOK
<1>5. LocksOK(p)' BY <1>1 DEF Own, LocksOK, InService, world
<1>6. CheckStands(p)' /\ ShownOK(p)' /\ ListOK(p)' BY <1>3 DEF CheckStands, ShownOK, ListOK
<1>7. TraceOK(p)' BY <1>3 DEF TraceOK, Before, After
<1>8. BodyOK(p)' BY <1>1 DEF Own, BodyOK
<1>9. QED BY <1>2, <1>4, <1>5, <1>6, <1>7, <1>8 DEF Own

\* The route: refused, on to the store, or the upload copied.
LEMMA RouteKept ==
    ASSUME ServiceInv, NEW p \in Requests, Route(p)
    PROVE  Moves(p) /\ Own(p)'
<1> USE ServiceAssumption DEF Actors
<1>1. Typed /\ Own(p) /\ act[p] \in Act BY DEF ServiceInv, Typed
<1>2. UNCHANGED world /\ act[p].at = "route" BY DEF Route
<1>3. act[p].job.op \in {"post", "upload"} /\ act[p].job \in RequestJobs[p]
  BY <1>1, <1>2, RequestJob DEF Own, RoleOK
<1>4. ~act[p].temp /\ WrittenBy(p) = {} BY <1>1, <1>2 DEF Own, BodyOK, TraceOK, Before
<1>5. WrittenBy(p)' = {} BY <1>2, <1>4 DEF WrittenBy, world
<1>6. CASE Ends(p, "refused")
  <2>1. Others(p) /\ Carries(p) /\ act'[p].at = "end" /\ act'[p].outcome = "refused"
    BY <1>1, <1>6, EndsFacts DEF Outcomes
  <2>2. QED BY <1>2, <1>4, <2>1, RequestEnds DEF Carries
<1>7. CASE Goes(p, "lock")
  <2>1. Others(p) /\ Carries(p) /\ act'[p].at = "lock" /\ act'[p].outcome = act[p].outcome
    BY <1>1, <1>7, GoesFacts DEF Places
  <2>2. Moves(p) BY <1>1, <1>2, <2>1, QuietMoves
  <2>3. RoleOK(p)' BY <1>1, <1>2, <1>3, <2>1 DEF Own, RoleOK, Carries, Before
  <2>4. LocksOK(p)' BY <1>1, <1>2, <2>1 DEF Own, LocksOK, InService, world
  <2>5. CheckStands(p)' /\ ShownOK(p)' /\ ListOK(p)' BY <2>1 DEF CheckStands, ShownOK, ListOK
  <2>6. TraceOK(p)' BY <1>5, <2>1 DEF TraceOK, After
  <2>7. BodyOK(p)' BY <1>1, <1>4, <2>1 DEF Own, BodyOK, Carries
  <2>8. QED BY <2>2, <2>3, <2>4, <2>5, <2>6, <2>7 DEF Own
<1>8. CASE Put(p, [act[p] EXCEPT !.temp = TRUE, !.at = "read"]) /\ act[p].job.size <= Limit
  <2>1. PICK a : a = [act[p] EXCEPT !.temp = TRUE, !.at = "read"] OBVIOUS
  <2>2. /\ a \in Act /\ a.at = "read" /\ a.outcome = act[p].outcome /\ a.job = act[p].job
        /\ a.got = act[p].got
    BY <1>1, <2>1 DEF Act, Places
  <2>3. Others(p) /\ act'[p] = a BY <1>1, <1>8, <2>1, <2>2, PutFacts DEF Typed, Others
  <2>4. Moves(p) BY <1>1, <1>2, <2>3, QuietMoves
  <2>5. RoleOK(p)' BY <1>1, <1>2, <1>3, <2>2, <2>3 DEF Own, RoleOK, Before
  <2>6. LocksOK(p)' BY <1>1, <1>2, <2>2, <2>3 DEF Own, LocksOK, InService, world
  <2>7. CheckStands(p)' /\ ShownOK(p)' /\ ListOK(p)'
    BY <2>2, <2>3 DEF CheckStands, ShownOK, ListOK
  <2>8. TraceOK(p)' BY <1>5, <2>2, <2>3 DEF TraceOK, After
  <2>9. BodyOK(p)' BY <1>1, <1>8, <2>2, <2>3 DEF Own, BodyOK
  <2>10. QED BY <2>4, <2>5, <2>6, <2>7, <2>8, <2>9 DEF Own
<1>9. act[p].job.op = "upload" => act[p].job.size \in Nat BY <1>2, RequestJob
<1>10. ~(act[p].job.size > Limit) /\ act[p].job.op = "upload" => act[p].job.size <= Limit
  BY <1>9
<1>11. QED BY <1>3, <1>6, <1>7, <1>8, <1>10 DEF Route

\* The copy of an upload is given up, or read and removed.
LEMMA UploadKept ==
    ASSUME ServiceInv, NEW p \in Requests, CopyFails(p) \/ ReadUpload(p)
    PROVE  Moves(p) /\ Own(p)'
<1> USE ServiceAssumption DEF Actors
<1>1. Typed /\ Own(p) /\ act[p] \in Act BY DEF ServiceInv, Typed
<1>2. act[p].at = "read" BY DEF CopyFails, ReadUpload
<1>3. act[p].job.op \in {"post", "upload"} /\ act[p].job \in RequestJobs[p]
  BY <1>1, <1>2, RequestJob DEF Own, RoleOK
<1>4. WrittenBy(p) = {} BY <1>1, <1>2 DEF Own, TraceOK, Before
<1>5. log' = log /\ made' = made /\ damaged' = damaged /\ storeLock' = storeLock
      /\ fileLock' = fileLock /\ refreshLock' = refreshLock /\ gauges' = gauges
  BY DEF CopyFails, ReadUpload, world
<1>6. WrittenBy(p)' = {} BY <1>4, <1>5 DEF WrittenBy
<1>7. PICK place \in {"end", "lock"}, outcome \in {"refused", "failed", act[p].outcome} :
        /\ Put(p, [act[p] EXCEPT !.temp = FALSE, !.at = place, !.outcome = outcome])
        /\ place = "end" => outcome # act[p].outcome
        /\ place = "lock" => outcome = act[p].outcome
  <2>1. act[p].outcome = "none" BY <1>1, <1>2 DEF Own, RoleOK
  <2>2. CASE CopyFails(p)
    <3>1. Put(p, [act[p] EXCEPT !.temp = FALSE, !.at = "end", !.outcome = "failed"])
      BY <2>2 DEF CopyFails
    <3>2. QED BY <2>1, <3>1
  <2>3. CASE ReadUpload(p) /\ act[p].job.log = "unreadable"
    <3>1. Put(p, [[act[p] EXCEPT !.temp = FALSE] EXCEPT !.at = "end", !.outcome = "refused"])
      BY <2>3 DEF ReadUpload
    <3>2. QED BY <2>1, <3>1
  <2>4. CASE ReadUpload(p) /\ act[p].job.log # "unreadable"
    <3>1. Put(p, [[act[p] EXCEPT !.temp = FALSE] EXCEPT !.at = "lock"])
      BY <2>4 DEF ReadUpload
    <3>2. [[act[p] EXCEPT !.temp = FALSE] EXCEPT !.at = "lock"]
            = [act[p] EXCEPT !.temp = FALSE, !.at = "lock", !.outcome = act[p].outcome]
      BY <1>1 DEF Act
    <3>3. QED BY <3>1, <3>2
  <2>5. QED BY <2>2, <2>3, <2>4
<1>8. PICK a : a = [act[p] EXCEPT !.temp = FALSE, !.at = place, !.outcome = outcome] OBVIOUS
<1>9. /\ a \in Act /\ a.at = place /\ a.outcome = outcome /\ a.job = act[p].job
      /\ a.got = act[p].got /\ ~a.temp
  <2>1. place \in Places /\ outcome \in Outcomes BY <1>1 DEF Act, Places, Outcomes
  <2>2. QED BY <1>1, <1>8, <2>1 DEF Act
<1>10. Others(p) /\ act'[p] = a BY <1>1, <1>7, <1>8, <1>9, PutFacts DEF Typed, Others
<1>11. Moves(p)
  <2>1. damaged' \in BOOLEAN BY <1>1, <1>5, Zenon DEF Typed
  <2>2. QED BY <1>5, <1>10, <2>1 DEF Moves, Takes, Others
<1>12. RoleOK(p)' BY <1>1, <1>2, <1>3, <1>7, <1>9, <1>10 DEF Own, RoleOK, Before
<1>13. LocksOK(p)' BY <1>1, <1>2, <1>5, <1>7, <1>9, <1>10 DEF Own, LocksOK, InService
<1>14. CheckStands(p)' /\ ShownOK(p)' /\ ListOK(p)'
  BY <1>3, <1>6, <1>7, <1>9, <1>10 DEF CheckStands, ShownOK, ListOK
<1>15. TraceOK(p)'
  <2>1. act[p].outcome = "none" BY <1>1, <1>2 DEF Own, RoleOK
  <2>2. QED BY <1>6, <1>7, <1>9, <1>10, <2>1 DEF TraceOK, After
<1>16. BodyOK(p)' BY <1>1, <1>7, <1>9, <1>10 DEF Own, BodyOK
<1>17. QED BY <1>11, <1>12, <1>13, <1>14, <1>15, <1>16 DEF Own

\* An actor lets go of the locks it holds, and of no other's.
LEMMA LetsGoFacts ==
    ASSUME ServiceInv, NEW p \in Actors, LetsGo(p)
    PROVE  /\ storeLock' # p /\ fileLock' # p
           /\ Takes(storeLock, storeLock', p) /\ Takes(fileLock, fileLock', p)
BY ServiceAssumption DEF LetsGo, Free, Takes, Actors

\* What comes before the next of some numbers, and how a sequence is numbered.
LEMMA NumbersBefore ==
    ASSUME NEW D, D \in SUBSET Nat, NEW k \in Nat
    PROVE  \A n \in D : n < k + 1 => n < k \/ n = k
OBVIOUS

LEMMA NumberedFromOne ==
    ASSUME NEW S, NEW l, l \in Seq(S)
    PROVE  Len(l) \in Nat /\ DOMAIN l = 1 .. Len(l) /\ DOMAIN l \in SUBSET Nat
<1>1. Len(l) \in Nat /\ DOMAIN l = 1 .. Len(l) BY LenProperties
<1>2. QED BY <1>1

LEMMA NoneBeforeFirst ==
    ASSUME NEW S, NEW l, l \in Seq(S)
    PROVE  \A n \in DOMAIN l : ~(n < 1)
<1>1. Len(l) \in Nat /\ DOMAIN l = 1 .. Len(l) BY LenProperties
<1>2. QED BY <1>1

LEMMA AllBefore ==
    ASSUME NEW D, NEW k, k \in Nat, NEW n, n \in Nat, D = 1 .. k, n > k
    PROVE  \A m \in D : m < n
OBVIOUS

\* Only commands are given an ingest.
LEMMA IngestIsACommand ==
    ASSUME ServiceInv, NEW p \in Actors, act[p].at # "new", act[p].job.op = "ingest logs"
    PROVE  /\ p \in Commands
           /\ Len(act[p].job.logs) \in Nat
           /\ DOMAIN act[p].job.logs = 1 .. Len(act[p].job.logs)
           /\ DOMAIN act[p].job.logs \in SUBSET Nat
<1> USE ServiceAssumption DEF Actors
<1>1. Own(p) BY DEF ServiceInv
<1>2. p # Serve
  <2>1. p = Serve => act[p].job = SeedJob BY <1>1 DEF Own, RoleOK
  <2>2. SeedJob.op = "seed" BY DEF SeedJob
  <2>3. QED BY <2>1, <2>2
<1>3. p \notin Requests BY RequestJob
<1>4. p \in Commands /\ act[p].job \in CommandJobs BY <1>1, <1>2, <1>3 DEF Own, RoleOK
<1>5. act[p].job.logs \in Seq(STRING) BY <1>4, JobsAssumption
<1>6. /\ Len(act[p].job.logs) \in Nat
      /\ DOMAIN act[p].job.logs = 1 .. Len(act[p].job.logs)
      /\ DOMAIN act[p].job.logs \in SUBSET Nat
  BY <1>5, NumberedFromOne, Zenon
<1>7. QED BY <1>4, <1>5, <1>6

\* A write that is refused: at the start, busy, by its check, or by SQLite.
LEMMA RefusedKept ==
    ASSUME ServiceInv, NEW p \in Actors, act[p].at \in {"begin", "check", "write"},
           NEW outcome \in {"damaged", "busy", "refused", "duplicate", "failed"},
           LetsGo(p), RefusedWrite(p, outcome),
           UNCHANGED <<log, made, damaged, refreshLock, gauges>>,
           outcome = "duplicate" /\ act[p].job.op = "ingest logs" => Writes(p) \in Whats(log),
           outcome = "refused" /\ act[p].job.op = "record" /\ made = p => log # <<>>
    PROVE  Moves(p) /\ Own(p)'
<1> USE ServiceAssumption DEF Actors
<1>1. Typed /\ Own(p) /\ act[p] \in Act BY DEF ServiceInv, Typed
<1>2. /\ storeLock' # p /\ fileLock' # p
      /\ Takes(storeLock, storeLock', p) /\ Takes(fileLock, fileLock', p)
  BY LetsGoFacts
<1>3. log' = log /\ made' = made /\ damaged' = damaged /\ refreshLock' = refreshLock
      /\ gauges' = gauges
  OBVIOUS
<1>4. refreshLock' # p BY <1>1, <1>3 DEF Own, LocksOK
<1>5. WrittenBy(p)' = WrittenBy(p) BY <1>3 DEF WrittenBy
<1>6. ASSUME Others(p) PROVE Moves(p)
  <2>1. damaged' \in BOOLEAN BY <1>1, <1>3, Zenon DEF Typed
  <2>2. QED BY <1>2, <1>3, <1>6, <2>1 DEF Moves, Takes, Others
<1>7. ASSUME act'[p].at \notin {"begin", "check", "write", "snapshot", "set"}
      PROVE  LocksOK(p)' /\ CheckStands(p)'
  BY <1>2, <1>4, <1>7 DEF LocksOK, CheckStands
<1>8. CASE p = Serve /\ outcome = "refused"
  <2>1. Goes(p, "refresh") BY <1>8 DEF RefusedWrite
  <2>2. Others(p) /\ Carries(p) /\ act'[p].at = "refresh" /\ act'[p].outcome = act[p].outcome
    BY <1>1, <2>1, GoesFacts DEF Places
  <2>3. RoleOK(p)' /\ ShownOK(p)' BY <1>1, <1>8, <2>2 DEF Own, RoleOK, ShownOK, Carries
  <2>4. QED BY <1>6, <1>7, <1>8, <2>2, <2>3 DEF Own
<1>9. CASE act[p].job.op = "ingest logs" /\ outcome \in {"duplicate", "busy"}
  <2>1. p \in Commands /\ DOMAIN act[p].job.logs \in SUBSET Nat
    BY <1>9, IngestIsACommand
  <2>2. NextLog(p, outcome) BY <1>9, <2>1 DEF RefusedWrite
  <2>3. /\ Others(p)
        /\ act'[p].at = "file" /\ act'[p].outcome = act[p].outcome
        /\ act'[p].job = act[p].job /\ act'[p].next = act[p].next + 1
        /\ ~act'[p].bad => ~act[p].bad /\ outcome = "duplicate"
    BY <1>1, <2>2, NextLogFacts
  <2>4. RoleOK(p)' /\ ShownOK(p)' BY <1>1, <1>9, <2>1, <2>3 DEF Own, RoleOK, ShownOK
  <2>5. MakesOK(p)' BY <1>9, <2>3 DEF MakesOK
  <2>6. HeldOK(p)'
    <3>1. SUFFICES ASSUME ~act'[p].bad, NEW n \in DOMAIN act[p].job.logs, n < act[p].next + 1
                   PROVE  FlightOf(act[p].job, n) \in Whats(log)
      BY <1>3, <2>3 DEF HeldOK, FlightOf, Whats
    <3>2. ~act[p].bad /\ outcome = "duplicate" BY <2>3, <3>1
    <3>3. CASE n < act[p].next BY <1>1, <1>9, <2>1, <3>2, <3>3 DEF Own, HeldOK
    <3>4. CASE n = act[p].next
      <4>1. FlightOf(act[p].job, n) = Writes(p) BY <1>9, <3>4 DEF FlightOf, Writes
      <4>2. QED BY <1>9, <3>2, <4>1
    <3>5. act[p].next \in Nat BY <1>1 DEF Act
    <3>6. \A m \in DOMAIN act[p].job.logs :
            m < act[p].next + 1 => m < act[p].next \/ m = act[p].next
      BY <2>1, <3>5, NumbersBefore, Zenon
    <3>7. QED BY <3>1, <3>3, <3>4, <3>6, Zenon
  <2>7. p \notin Requests BY <2>1
  <2>8. QED BY <1>6, <1>7, <2>3, <2>4, <2>5, <2>6, <2>7 DEF Own
<1>10. CASE ~(p = Serve /\ outcome = "refused")
            /\ ~(act[p].job.op = "ingest logs" /\ outcome \in {"duplicate", "busy"})
  <2>1. Ends(p, outcome) BY <1>10 DEF RefusedWrite
  <2>2. Others(p) /\ Carries(p) /\ act'[p].at = "end" /\ act'[p].outcome = outcome
    BY <1>1, <2>1, EndsFacts DEF Outcomes
  <2>3. RoleOK(p)' BY <1>1, <2>2 DEF Own, RoleOK, Carries
  <2>4. ShownOK(p)' BY <2>2 DEF ShownOK
  <2>5. ASSUME p \in Requests PROVE TraceOK(p)' /\ BodyOK(p)' /\ ListOK(p)'
    <3>1. WrittenBy(p) = {} /\ ~act[p].temp BY <1>1, <2>5 DEF Own, TraceOK, BodyOK, Before
    <3>2. TraceOK(p)' BY <1>5, <2>2, <3>1 DEF TraceOK, Before, After
    <3>3. BodyOK(p)' BY <1>1, <2>2, <2>5, <3>1 DEF Own, BodyOK, Carries
    <3>4. QED BY <2>2, <3>2, <3>3 DEF ListOK
  <2>6. ASSUME p \in Commands PROVE MakesOK(p)' /\ HeldOK(p)'
    <3>1. MakesOK(p)' BY <1>3, <2>2 DEF MakesOK, Carries
    <3>2. QED BY <2>2, <3>1 DEF HeldOK, Carries
  <2>7. QED BY <1>6, <1>7, <2>2, <2>3, <2>4, <2>5, <2>6 DEF Own
<1>11. QED BY <1>8, <1>9, <1>10

\* Whoever goes on within its write keeps what it was given.
LEMMA WriteGoesOn ==
    ASSUME ServiceInv, NEW p \in Actors, act[p].at \in {"lock", "begin", "check"},
           NEW place \in {"begin", "check", "write"}, Goes(p, place),
           UNCHANGED <<log, made, damaged, refreshLock, gauges>>,
           Takes(storeLock, storeLock', p), Takes(fileLock, fileLock', p),
           storeLock' = p <=> InService(p),
           fileLock' = p <=> place \in {"check", "write"},
           place = "write" => Accepts(log, Writes(p))
    PROVE  Moves(p) /\ Own(p)'
<1> USE ServiceAssumption DEF Actors
<1>1. Typed /\ Own(p) /\ act[p] \in Act BY DEF ServiceInv, Typed
<1>2. Others(p) /\ Carries(p) /\ act'[p].at = place /\ act'[p].outcome = act[p].outcome
  BY <1>1, GoesFacts DEF Places
<1>3. log' = log /\ made' = made /\ damaged' = damaged /\ refreshLock' = refreshLock
      /\ gauges' = gauges
  OBVIOUS
<1>4. Moves(p)
  <2>1. damaged' \in BOOLEAN BY <1>1, <1>3, Zenon DEF Typed
  <2>2. QED BY <1>2, <1>3, <2>1 DEF Moves, Takes, Others
<1>5. RoleOK(p)' BY <1>1, <1>2 DEF Own, RoleOK, Carries, Before
<1>6. LocksOK(p)'
  <2>1. refreshLock' # p BY <1>1, <1>3 DEF Own, LocksOK
  <2>2. QED BY <1>2, <2>1 DEF LocksOK, InService
<1>7. Writes(p)' = Writes(p) BY <1>2 DEF Writes, Carries
<1>8. CheckStands(p)' BY <1>2, <1>3, <1>7 DEF CheckStands
<1>9. ShownOK(p)' BY <1>2 DEF ShownOK
<1>10. ASSUME p \in Requests PROVE TraceOK(p)' /\ BodyOK(p)' /\ ListOK(p)'
  <2>1. WrittenBy(p) = {} /\ ~act[p].temp BY <1>1, <1>10 DEF Own, TraceOK, BodyOK, Before
  <2>2. TraceOK(p)' BY <1>2, <1>3, <2>1 DEF TraceOK, After, WrittenBy
  <2>3. BodyOK(p)' BY <1>1, <1>2, <1>10, <2>1 DEF Own, BodyOK, Carries
  <2>4. QED BY <1>2, <2>2, <2>3 DEF ListOK
<1>11. ASSUME p \in Commands PROVE MakesOK(p)' /\ HeldOK(p)'
  <2>1. MakesOK(p)' BY <1>1, <1>2, <1>3, <1>7, <1>11 DEF Own, MakesOK, Carries
  <2>2. HeldOK(p)'
    <3>1. HeldOK(p) BY <1>1, <1>11 DEF Own
    <3>2. \A j, n : FlightOf(j, n)' = FlightOf(j, n) BY DEF FlightOf
    <3>3. Whats(log)' = Whats(log) BY <1>3 DEF Whats
    <3>4. QED BY <1>2, <3>1, <3>2, <3>3 DEF HeldOK, Carries
  <2>3. QED BY <2>1, <2>2
<1>12. QED BY <1>4, <1>5, <1>6, <1>8, <1>9, <1>10, <1>11 DEF Own

\* The store's lock, the file's, and the check under both.
LEMMA WriteStartsKept ==
    ASSUME ServiceInv, NEW p \in Actors, TakeStore(p) \/ Begin(p) \/ Busy(p) \/ Check(p)
    PROVE  Moves(p) /\ Own(p)'
<1> USE ServiceAssumption DEF Actors
<1>1. Typed /\ Own(p) BY DEF ServiceInv
<1>2. p # NoOne OBVIOUS
<1>3. CASE TakeStore(p)
  <2>1. /\ act[p].at = "lock" /\ Goes(p, "begin")
        /\ UNCHANGED <<log, made, damaged, fileLock, refreshLock, gauges>>
        /\ (InService(p) /\ storeLock = NoOne /\ storeLock' = p)
              \/ (~InService(p) /\ storeLock' = storeLock)
    BY <1>3 DEF TakeStore
  <2>2. fileLock' # p BY <1>1, <2>1 DEF Own, LocksOK
  <2>3. storeLock' = p <=> InService(p) BY <1>1, <2>1 DEF Own, LocksOK, InService
  <2>4. QED BY <2>1, <2>2, <2>3, WriteGoesOn DEF Takes
<1>4. CASE Begin(p)
  <2>1. /\ act[p].at = "begin"
        /\ UNCHANGED <<log, made, damaged, refreshLock, gauges>>
    BY <1>4 DEF Begin
  <2>2. CASE damaged
    <3>1. LetsGo(p) /\ RefusedWrite(p, "damaged") BY <1>4, <2>2 DEF Begin
    <3>2. QED BY <2>1, <3>1, RefusedKept
  <2>3. CASE ~damaged
    <3>1. fileLock = NoOne /\ fileLock' = p /\ Goes(p, "check") /\ storeLock' = storeLock
      BY <1>4, <2>3 DEF Begin, TakesFile
    <3>2. storeLock' = p <=> InService(p) BY <1>1, <2>1, <3>1 DEF Own, LocksOK, InService
    <3>3. QED BY <2>1, <3>1, <3>2, WriteGoesOn DEF Takes
  <2>4. QED BY <2>2, <2>3
<1>5. CASE Busy(p)
  <2>1. /\ act[p].at = "begin" /\ LetsGo(p) /\ RefusedWrite(p, "busy")
        /\ UNCHANGED <<log, made, damaged, refreshLock, gauges>>
    BY <1>5 DEF Busy
  <2>2. QED BY <2>1, RefusedKept
<1>6. CASE Check(p)
  <2>1. /\ act[p].at = "check"
        /\ UNCHANGED <<log, made, damaged, refreshLock, gauges>>
    BY <1>6 DEF Check
  <2>2. CASE Accepts(log, Writes(p))
    <3>1. Goes(p, "write") /\ storeLock' = storeLock /\ fileLock' = fileLock
      BY <1>6, <2>2 DEF Check
    <3>2. /\ storeLock' = p <=> InService(p)
          /\ fileLock' = p
      BY <1>1, <2>1, <3>1 DEF Own, LocksOK, InService
    <3>3. QED BY <2>1, <2>2, <3>1, <3>2, WriteGoesOn DEF Takes
  <2>3. CASE ~Accepts(log, Writes(p))
    <3>1. PICK outcome \in {"duplicate", "refused"} :
            /\ LetsGo(p) /\ RefusedWrite(p, outcome)
            /\ outcome = "duplicate" => Writes(p).kind = "flight"
      BY <1>6, <2>3 DEF Check
    <3>2. Writes(p).kind = "flight" => Writes(p) \in Whats(log)
      BY <2>3 DEF Accepts
    <3>3. ASSUME act[p].job.op = "record", made = p PROVE log # <<>>
      <4>1. p \in Commands
        <5>1. p # Serve
          <6>1. p = Serve => act[p].job = SeedJob BY <1>1 DEF Own, RoleOK
          <6>2. SeedJob.op = "seed" BY DEF SeedJob
          <6>3. QED BY <3>3, <6>1, <6>2
        <5>2. p \notin Requests BY <2>1, <3>3, RequestJob
        <5>3. QED BY <5>1, <5>2
      <4>2. Accepts(<<>>, Writes(p)) BY <1>1, <2>1, <3>3, <4>1 DEF Own, MakesOK
      <4>3. QED BY <2>3, <4>2
    <3>4. QED BY <2>1, <3>1, <3>2, <3>3, RefusedKept
  <2>4. QED BY <2>2, <2>3
<1>7. QED BY <1>3, <1>4, <1>5, <1>6

\* The commit: the write is the log's last, and its author's first.
LEMMA CommitKept ==
    ASSUME ServiceInv, NEW p \in Actors, Commit(p)
    PROVE  Moves(p) /\ Own(p)'
<1> USE ServiceAssumption DEF Actors
<1>1. Typed /\ Own(p) /\ act[p] \in Act BY DEF ServiceInv, Typed
<1> DEFINE e == [by |-> p, what |-> Writes(p)]
<1>2. /\ act[p].at = "write" /\ LetsGo(p) /\ log' = Append(log, e)
      /\ made' = made /\ damaged' = damaged /\ refreshLock' = refreshLock /\ gauges' = gauges
  BY DEF Commit
<1>3. /\ storeLock' # p /\ fileLock' # p
      /\ Takes(storeLock, storeLock', p) /\ Takes(fileLock, fileLock', p)
  BY <1>2, LetsGoFacts
<1>4. refreshLock' # p BY <1>1, <1>2 DEF Own, LocksOK
<1>5. ASSUME Others(p) PROVE Moves(p)
  <2>1. damaged' \in BOOLEAN BY <1>1, <1>2, Zenon DEF Typed
  <2>2. QED BY <1>2, <1>3, <1>5, <2>1 DEF Moves, Takes, Others
<1>6. ASSUME act'[p].at \notin {"begin", "check", "write", "snapshot", "set"}
      PROVE  LocksOK(p)' /\ CheckStands(p)'
  BY <1>3, <1>4, <1>6 DEF LocksOK, CheckStands
<1>7. /\ IsLog(log') /\ Len(log') = Len(log) + 1
      /\ \A i \in 1 .. Len(log) : log'[i] = log[i]
      /\ log'[Len(log) + 1] = e
      /\ Len(log) \in Nat /\ DOMAIN log = 1 .. Len(log) /\ DOMAIN log' = 1 .. (Len(log) + 1)
  <2>1. IsLog(log) BY <1>1 DEF Typed
  <2>2. /\ IsLog(log') /\ Len(log') = Len(log) + 1
        /\ \A i \in 1 .. Len(log) : log'[i] = log[i]
        /\ log'[Len(log) + 1] = e
    BY <1>2, <2>1, LogGrows
  <2>3. QED BY <2>1, <2>2, LogFacts
<1>8. Whats(log)' = Whats(log) \cup {Writes(p)}
  <2>1. Whats(log') \subseteq Whats(log) \cup {Writes(p)} BY <1>7 DEF Whats
  <2>2. Whats(log) \cup {Writes(p)} \subseteq Whats(log') BY <1>7 DEF Whats
  <2>3. QED BY <2>1, <2>2
<1>9. CASE act[p].job.op = "ingest logs"
  <2>1. p \in Commands /\ DOMAIN act[p].job.logs \in SUBSET Nat
    BY <1>2, <1>9, IngestIsACommand
  <2>2. NextLog(p, "duplicate") BY <1>9 DEF Commit
  <2>3. /\ Others(p)
        /\ act'[p].at = "file" /\ act'[p].outcome = act[p].outcome
        /\ act'[p].job = act[p].job /\ act'[p].next = act[p].next + 1
        /\ ~act'[p].bad => ~act[p].bad
    BY <1>1, <2>2, NextLogFacts
  <2>4. RoleOK(p)' /\ ShownOK(p)' BY <1>1, <1>2, <1>9, <2>1, <2>3 DEF Own, RoleOK, ShownOK
  <2>5. MakesOK(p)' BY <1>9, <2>3 DEF MakesOK
  <2>6. HeldOK(p)'
    <3>1. SUFFICES ASSUME ~act'[p].bad, NEW n \in DOMAIN act[p].job.logs, n < act[p].next + 1
                   PROVE  FlightOf(act[p].job, n) \in Whats(log')
      BY <2>3 DEF HeldOK, FlightOf
    <3>2. CASE n < act[p].next
      <4>1. FlightOf(act[p].job, n) \in Whats(log)
        BY <1>1, <1>2, <1>9, <2>1, <2>3, <3>1, <3>2 DEF Own, HeldOK
      <4>2. QED BY <1>8, <4>1
    <3>3. CASE n = act[p].next
      <4>1. FlightOf(act[p].job, n) = Writes(p) BY <1>9, <3>3 DEF FlightOf, Writes
      <4>2. QED BY <1>8, <4>1
    <3>4. act[p].next \in Nat BY <1>1 DEF Act
    <3>5. \A m \in DOMAIN act[p].job.logs :
            m < act[p].next + 1 => m < act[p].next \/ m = act[p].next
      BY <2>1, <3>4, NumbersBefore, Zenon
    <3>6. QED BY <3>1, <3>2, <3>3, <3>5, Zenon
  <2>7. p \notin Requests BY <2>1
  <2>8. QED BY <1>5, <1>6, <2>3, <2>4, <2>5, <2>6, <2>7 DEF Own
<1>10. CASE act[p].job.op # "ingest logs" /\ InService(p)
  <2>1. Goes(p, "refresh") BY <1>10 DEF Commit, AfterWrite
  <2>2. Others(p) /\ Carries(p) /\ act'[p].at = "refresh" /\ act'[p].outcome = act[p].outcome
    BY <1>1, <2>1, GoesFacts DEF Places
  <2>3. p \notin Commands BY <1>10 DEF InService
  <2>4. RoleOK(p)' /\ ShownOK(p)'
    BY <1>1, <1>2, <2>2, <2>3 DEF Own, RoleOK, ShownOK, Carries, After
  <2>5. ASSUME p \in Requests PROVE TraceOK(p)' /\ BodyOK(p)' /\ ListOK(p)'
    <3>1. WrittenBy(p) = {} /\ ~act[p].temp BY <1>1, <1>2, <2>5 DEF Own, TraceOK, BodyOK, Before
    <3>2. WrittenBy(p)' = {Len(log) + 1}
      <4>1. \A i \in DOMAIN log : log[i].by # p BY <3>1 DEF WrittenBy
      <4>2. e.by = p OBVIOUS
      <4>3. QED BY <1>7, <4>1, <4>2 DEF WrittenBy
    <3>3. TraceOK(p)' BY <1>7, <2>2, <3>2 DEF TraceOK, Before
    <3>4. BodyOK(p)' BY <1>1, <2>2, <2>5, <3>1 DEF Own, BodyOK, Carries
    <3>5. QED BY <2>2, <3>3, <3>4 DEF ListOK
  <2>6. QED BY <1>5, <1>6, <2>2, <2>3, <2>4, <2>5 DEF Own
<1>11. CASE act[p].job.op # "ingest logs" /\ ~InService(p)
  <2>1. Ends(p, "done") BY <1>11 DEF Commit, AfterWrite
  <2>2. Others(p) /\ Carries(p) /\ act'[p].at = "end" /\ act'[p].outcome = "done"
    BY <1>1, <2>1, EndsFacts DEF Outcomes
  <2>3. p \in Commands /\ p \notin Requests BY <1>11 DEF InService
  <2>4. RoleOK(p)' /\ ShownOK(p)'
    BY <1>1, <1>2, <2>2, <2>3 DEF Own, RoleOK, ShownOK, Carries
  <2>5. MakesOK(p)' /\ HeldOK(p)' BY <1>11, <2>2 DEF MakesOK, HeldOK, Carries
  <2>6. QED BY <1>5, <1>6, <2>2, <2>3, <2>4, <2>5 DEF Own
<1>12. QED BY <1>9, <1>10, <1>11

\* A commit SQLite refuses.
LEMMA CommitFailsKept ==
    ASSUME ServiceInv, NEW p \in Actors, CommitFails(p)
    PROVE  Moves(p) /\ Own(p)'
<1>1. /\ act[p].at = "write" /\ LetsGo(p) /\ RefusedWrite(p, "failed")
      /\ UNCHANGED <<log, made, damaged, refreshLock, gauges>>
  BY DEF CommitFails, Kept
<1>2. QED BY <1>1, RefusedKept

\* The refresh of the gauges: its lock, its snapshot, and the gauges.
LEMMA RefreshKept ==
    ASSUME ServiceInv, NEW p \in Requests \cup {Serve}, Refresh(p) \/ Snapshot(p)
    PROVE  Moves(p) /\ Own(p)'
<1> USE ServiceAssumption DEF Actors
<1>1. Typed /\ Own(p) /\ act[p] \in Act BY DEF ServiceInv, Typed
<1>2. /\ log' = log /\ made' = made /\ damaged' = damaged /\ gauges' = gauges
      /\ storeLock' = storeLock /\ fileLock' = fileLock
  BY DEF Refresh, Snapshot
<1>3. WrittenBy(p)' = WrittenBy(p) BY <1>2 DEF WrittenBy
<1>4. p # NoOne /\ p \notin Commands OBVIOUS
<1>5. act[p].at \in {"refresh", "snapshot"} BY DEF Refresh, Snapshot
<1>6. ASSUME Others(p), Takes(refreshLock, refreshLock', p) PROVE Moves(p)
  <2>1. damaged' \in BOOLEAN BY <1>1, <1>2, Zenon DEF Typed
  <2>2. QED BY <1>2, <1>6, <2>1 DEF Moves, Takes, Others
<1>7. CASE Refresh(p)
  <2>1. refreshLock = NoOne /\ refreshLock' = p /\ Goes(p, "snapshot") /\ act[p].at = "refresh"
    BY <1>7 DEF Refresh, TakesRefresh
  <2>2. Others(p) /\ Carries(p) /\ act'[p].at = "snapshot" /\ act'[p].outcome = act[p].outcome
    BY <1>1, <2>1, GoesFacts DEF Places
  <2>3. Moves(p) BY <1>6, <2>1, <2>2 DEF Takes
  <2>4. RoleOK(p)' BY <1>1, <2>1, <2>2 DEF Own, RoleOK, Carries, After
  <2>5. LocksOK(p)' BY <1>1, <1>2, <2>1, <2>2 DEF Own, LocksOK, InService
  <2>6. CheckStands(p)' /\ ShownOK(p)' /\ ListOK(p)' BY <2>2 DEF CheckStands, ShownOK, ListOK
  <2>7. p \in Requests => TraceOK(p)' /\ BodyOK(p)'
    <3>1. p \in Requests => TraceOK(p)'
      BY <1>1, <1>2, <1>3, <2>1, <2>2 DEF Own, TraceOK, Before, After
    <3>2. p \in Requests => BodyOK(p)' BY <1>1, <2>1, <2>2 DEF Own, BodyOK, Carries
    <3>3. QED BY <3>1, <3>2
  <2>8. QED BY <1>4, <2>3, <2>4, <2>5, <2>6, <2>7 DEF Own
<1>8. CASE Snapshot(p) /\ damaged
  <2>1. refreshLock' = Free(refreshLock, p) /\ Ends(p, "damaged") /\ act[p].at = "snapshot"
    BY <1>8 DEF Snapshot
  <2>2. Others(p) /\ Carries(p) /\ act'[p].at = "end" /\ act'[p].outcome = "damaged"
    BY <1>1, <2>1, EndsFacts DEF Outcomes
  <2>3. Moves(p) BY <1>6, <2>1, <2>2 DEF Takes, Free
  <2>4. RoleOK(p)' BY <1>1, <2>1, <2>2 DEF Own, RoleOK, Carries
  <2>5. LocksOK(p)' BY <1>1, <1>2, <1>4, <2>1, <2>2 DEF Own, LocksOK, InService, Free
  <2>6. CheckStands(p)' /\ ShownOK(p)' /\ ListOK(p)' BY <2>2 DEF CheckStands, ShownOK, ListOK
  <2>7. p \in Requests => TraceOK(p)' /\ BodyOK(p)'
    <3>1. p \in Requests => act[p].job.op # "list" BY <1>1, <2>1 DEF Own, RoleOK
    <3>2. p \in Requests => TraceOK(p)'
      BY <2>2, <3>1 DEF TraceOK, Carries, Before, After
    <3>3. p \in Requests => BodyOK(p)' BY <1>1, <2>1, <2>2 DEF Own, BodyOK, Carries
    <3>4. QED BY <3>2, <3>3
  <2>8. QED BY <1>4, <2>3, <2>4, <2>5, <2>6, <2>7 DEF Own
<1>9. CASE Snapshot(p) /\ ~damaged
  <2>1. /\ Put(p, [act[p] EXCEPT !.seen = Len(log), !.at = "set"]) /\ act[p].at = "snapshot"
        /\ refreshLock' = refreshLock
    BY <1>9 DEF Snapshot
  <2>2. PICK a : a = [act[p] EXCEPT !.seen = Len(log), !.at = "set"] OBVIOUS
  <2>3. Len(log) \in Nat /\ DOMAIN log = 1 .. Len(log) BY <1>1, LogFacts DEF Typed
  <2>4. /\ a \in Act /\ a.at = "set" /\ a.seen = Len(log) /\ a.outcome = act[p].outcome
        /\ a.job = act[p].job /\ a.got = act[p].got /\ a.temp = act[p].temp
    BY <1>1, <2>2, <2>3 DEF Act, Places
  <2>5. Others(p) /\ act'[p] = a BY <1>1, <2>1, <2>2, <2>4, PutFacts DEF Typed, Others
  <2>6. Moves(p) BY <1>6, <2>1, <2>5 DEF Takes
  <2>7. RoleOK(p)' BY <1>1, <2>1, <2>4, <2>5 DEF Own, RoleOK, After
  <2>8. LocksOK(p)' BY <1>1, <1>2, <2>1, <2>4, <2>5 DEF Own, LocksOK, InService
  <2>9. CheckStands(p)' /\ ListOK(p)' BY <2>4, <2>5 DEF CheckStands, ListOK
  <2>10. ShownOK(p)'
    <3>1. gauges <= Len(log) BY <1>1, <2>3 DEF Typed
    <3>2. \A i \in WrittenBy(p) : i <= Len(log) BY <2>3 DEF WrittenBy
    <3>3. QED BY <1>2, <1>3, <2>3, <2>4, <2>5, <3>1, <3>2 DEF ShownOK
  <2>11. p \in Requests => TraceOK(p)' /\ BodyOK(p)'
    <3>1. p \in Requests => TraceOK(p)'
      BY <1>1, <1>2, <1>3, <2>1, <2>4, <2>5 DEF Own, TraceOK, Before, After
    <3>2. p \in Requests => BodyOK(p)' BY <1>1, <2>1, <2>4, <2>5 DEF Own, BodyOK
    <3>3. QED BY <3>1, <3>2
  <2>12. QED BY <1>4, <2>6, <2>7, <2>8, <2>9, <2>10, <2>11 DEF Own
<1>10. QED BY <1>7, <1>8, <1>9

LEMMA SetGaugesKept ==
    ASSUME ServiceInv, NEW p \in Requests \cup {Serve}, SetGauges(p)
    PROVE  Moves(p) /\ Own(p)'
<1> USE ServiceAssumption DEF Actors
<1>1. Typed /\ Own(p) /\ act[p] \in Act BY DEF ServiceInv, Typed
<1>2. /\ log' = log /\ made' = made /\ damaged' = damaged /\ gauges' = act[p].seen
      /\ storeLock' = storeLock /\ fileLock' = fileLock /\ act[p].at = "set"
      /\ refreshLock' = Free(refreshLock, p)
  BY DEF SetGauges
<1>3. WrittenBy(p)' = WrittenBy(p) BY <1>2 DEF WrittenBy
<1>4. p # NoOne /\ p \notin Commands OBVIOUS
<1>5. refreshLock' # p /\ Takes(refreshLock, refreshLock', p) BY <1>2, <1>4 DEF Free, Takes
<1>6. ASSUME Others(p) PROVE Moves(p)
  <2>1. damaged' \in BOOLEAN BY <1>1, <1>2, Zenon DEF Typed
  <2>2. QED BY <1>2, <1>5, <1>6, <2>1 DEF Moves, Takes, Others
<1>7. ASSUME act'[p].at \in {"serving", "view", "end"}
      PROVE  LocksOK(p)' /\ CheckStands(p)'
  BY <1>1, <1>2, <1>5, <1>7 DEF Own, LocksOK, InService, CheckStands
<1>8. CASE p = Serve
  <2>1. Goes(p, "serving")
    <3>1. act[p].job = SeedJob BY <1>1, <1>8 DEF Own, RoleOK
    <3>2. SeedJob.op = "seed" BY DEF SeedJob
    <3>3. QED BY <1>8, <3>1, <3>2 DEF SetGauges
  <2>2. Others(p) /\ Carries(p) /\ act'[p].at = "serving" /\ act'[p].outcome = act[p].outcome
    BY <1>1, <2>1, GoesFacts DEF Places
  <2>3. RoleOK(p)' /\ ShownOK(p)' BY <1>1, <1>2, <1>8, <2>2 DEF Own, RoleOK, ShownOK, Carries
  <2>4. QED BY <1>4, <1>6, <1>7, <1>8, <2>2, <2>3 DEF Own
<1>9. CASE p \in Requests
  <2>1. act[p].job.op \in {"post", "upload"} /\ act[p].job \in RequestJobs[p]
    BY <1>1, <1>2, <1>9, RequestJob DEF Own, RoleOK
  <2>2. \A i \in WrittenBy(p) : i <= gauges' BY <1>1, <1>2, <1>9 DEF Own, ShownOK
  <2>3. (\E i \in DOMAIN log : WrittenBy(p) = {i}) /\ ~act[p].temp
    BY <1>1, <1>2, <1>9 DEF Own, TraceOK, BodyOK, After
  <2>4. CASE act[p].job.op = "post"
    <3>1. Put(p, [act[p] EXCEPT !.seen = 0, !.at = "view"]) BY <1>9, <2>4 DEF SetGauges
    <3>2. PICK a : a = [act[p] EXCEPT !.seen = 0, !.at = "view"] OBVIOUS
    <3>3. /\ a \in Act /\ a.at = "view" /\ a.outcome = act[p].outcome
          /\ a.job = act[p].job /\ a.got = act[p].got /\ a.temp = act[p].temp
      BY <1>1, <3>2 DEF Act, Places
    <3>4. Others(p) /\ act'[p] = a BY <1>1, <3>1, <3>2, <3>3, PutFacts DEF Typed, Others
    <3>5. RoleOK(p)' BY <1>1, <1>2, <1>9, <2>1, <2>4, <3>3, <3>4 DEF Own, RoleOK, After
    <3>6. ShownOK(p)' /\ ListOK(p)' BY <1>3, <2>2, <3>3, <3>4 DEF ShownOK, ListOK
    <3>7. TraceOK(p)' BY <1>2, <1>3, <2>3, <3>3, <3>4 DEF TraceOK, Before
    <3>8. BodyOK(p)' BY <1>1, <1>9, <2>3, <3>3, <3>4 DEF Own, BodyOK
    <3>9. QED BY <1>4, <1>6, <1>7, <3>3, <3>4, <3>5, <3>6, <3>7, <3>8 DEF Own
  <2>5. CASE act[p].job.op = "upload"
    <3>1. Ends(p, "done") BY <1>9, <2>5 DEF SetGauges
    <3>2. Others(p) /\ Carries(p) /\ act'[p].at = "end" /\ act'[p].outcome = "done"
      BY <1>1, <3>1, EndsFacts DEF Outcomes
    <3>3. RoleOK(p)' BY <1>1, <1>9, <2>1, <3>2 DEF Own, RoleOK, Carries
    <3>4. ShownOK(p)' BY <1>3, <2>2, <3>2 DEF ShownOK
    <3>5. ListOK(p)' BY <2>5, <3>2 DEF ListOK, Carries
    <3>6. TraceOK(p)' BY <1>2, <1>3, <2>3, <2>5, <3>2 DEF TraceOK, Before, After, Carries
    <3>7. BodyOK(p)' BY <1>1, <1>9, <2>3, <3>2 DEF Own, BodyOK, Carries
    <3>8. QED BY <1>4, <1>6, <1>7, <3>2, <3>3, <3>4, <3>5, <3>6, <3>7 DEF Own
  <2>6. QED BY <2>1, <2>4, <2>5
<1>10. QED BY <1>8, <1>9

\* The entry as it is answered, and the two snapshots of a list.
LEMMA ReadsKept ==
    ASSUME ServiceInv, NEW p \in Requests, View(p) \/ ReadDead(p) \/ ReadEntries(p)
    PROVE  Moves(p) /\ Own(p)'
<1> USE ServiceAssumption DEF Actors
<1>1. Typed /\ Own(p) /\ act[p] \in Act BY DEF ServiceInv, Typed
<1>2. UNCHANGED world BY DEF View, ReadDead, ReadEntries
<1>3. act[p].at \in {"view", "dead", "entries"} BY DEF View, ReadDead, ReadEntries
<1>4. act[p].job \in RequestJobs[p] /\ ~act[p].temp BY <1>1, <1>3 DEF Own, RoleOK, BodyOK
<1>5. log' = log /\ gauges' = gauges BY <1>2 DEF world
<1>6. WrittenBy(p)' = WrittenBy(p) BY <1>5 DEF WrittenBy
<1>7. p \notin Commands OBVIOUS
<1>8. Len(log) \in Nat /\ act[p].since \in Nat /\ act[p].seen \in Nat
  BY <1>1, LogFacts DEF Typed, Act
<1>9. CASE View(p)
  <2>1. PICK outcome \in {"damaged", "done"} : Ends(p, outcome) BY <1>9 DEF View
  <2>2. act[p].at = "view" BY <1>9 DEF View
  <2>3. Others(p) /\ Carries(p) /\ act'[p].at = "end" /\ act'[p].outcome = outcome
    BY <1>1, <2>1, EndsFacts DEF Outcomes
  <2>4. act[p].job.op = "post" BY <1>1, <2>2 DEF Own, RoleOK
  <2>5. Moves(p) BY <1>1, <1>2, <2>3, QuietMoves
  <2>6. RoleOK(p)' BY <1>1, <1>4, <2>3 DEF Own, RoleOK, Carries
  <2>7. LocksOK(p)' BY <1>1, <1>2, <2>2, <2>3 DEF Own, LocksOK, InService, world
  <2>8. CheckStands(p)' /\ ListOK(p)' BY <2>3, <2>4 DEF CheckStands, ListOK, Carries
  <2>9. ShownOK(p)' BY <1>1, <1>5, <1>6, <2>2, <2>3 DEF Own, ShownOK
  <2>10. TraceOK(p)'
    BY <1>1, <1>5, <1>6, <2>2, <2>3, <2>4 DEF Own, TraceOK, Carries, Before, After
  <2>11. BodyOK(p)' BY <1>1, <1>4, <2>3 DEF Own, BodyOK, Carries
  <2>12. QED BY <1>7, <2>5, <2>6, <2>7, <2>8, <2>9, <2>10, <2>11 DEF Own
<1>10. CASE act[p].at \in {"dead", "entries"} /\ Ends(p, "damaged")
  <2>1. Others(p) /\ Carries(p) /\ act'[p].at = "end" /\ act'[p].outcome = "damaged"
    BY <1>1, <1>10, EndsFacts DEF Outcomes
  <2>2. WrittenBy(p) = {} BY <1>1, <1>10 DEF Own, TraceOK
  <2>3. QED BY <1>2, <1>4, <1>10, <2>1, <2>2, RequestEnds DEF Carries
<1>11. CASE ReadDead(p) /\ ~damaged
  <2>1. Put(p, [act[p] EXCEPT !.seen = Len(log), !.at = "entries"]) /\ act[p].at = "dead"
    BY <1>11 DEF ReadDead
  <2>2. PICK a : a = [act[p] EXCEPT !.seen = Len(log), !.at = "entries"] OBVIOUS
  <2>3. /\ a \in Act /\ a.at = "entries" /\ a.seen = Len(log) /\ a.since = act[p].since
        /\ a.outcome = act[p].outcome /\ a.job = act[p].job /\ a.got = act[p].got
        /\ a.temp = act[p].temp
    BY <1>1, <1>8, <2>2 DEF Act, Places
  <2>4. Others(p) /\ act'[p] = a BY <1>1, <2>1, <2>2, <2>3, PutFacts DEF Typed, Others
  <2>5. Moves(p) BY <1>1, <1>2, <2>4, QuietMoves
  <2>6. RoleOK(p)' BY <1>1, <1>4, <2>1, <2>3, <2>4 DEF Own, RoleOK
  <2>7. LocksOK(p)' BY <1>1, <1>2, <2>1, <2>3, <2>4 DEF Own, LocksOK, InService, world
  <2>8. CheckStands(p)' /\ ShownOK(p)' BY <2>3, <2>4 DEF CheckStands, ShownOK
  <2>9. ListOK(p)' BY <1>1, <1>5, <1>8, <2>1, <2>3, <2>4 DEF Own, ListOK
  <2>10. TraceOK(p)' BY <1>1, <1>6, <2>1, <2>3, <2>4 DEF Own, TraceOK, Before, After
  <2>11. BodyOK(p)' BY <1>1, <1>4, <2>3, <2>4 DEF Own, BodyOK
  <2>12. QED BY <1>7, <2>5, <2>6, <2>7, <2>8, <2>9, <2>10, <2>11 DEF Own
<1>12. CASE ReadEntries(p) /\ ~damaged
  <2>1. /\ Put(p, [act[p] EXCEPT !.found = Len(log), !.at = "end", !.outcome = "done"])
        /\ act[p].at = "entries"
    BY <1>12 DEF ReadEntries
  <2>2. PICK a : a = [act[p] EXCEPT !.found = Len(log), !.at = "end", !.outcome = "done"] OBVIOUS
  <2>3. /\ a \in Act /\ a.at = "end" /\ a.outcome = "done" /\ a.found = Len(log)
        /\ a.seen = act[p].seen /\ a.since = act[p].since /\ a.job = act[p].job
        /\ a.got = act[p].got /\ a.temp = act[p].temp
    BY <1>1, <1>8, <2>2 DEF Act, Places, Outcomes
  <2>4. Others(p) /\ act'[p] = a BY <1>1, <2>1, <2>2, <2>3, PutFacts DEF Typed, Others
  <2>5. act[p].job.op = "list" /\ WrittenBy(p) = {} BY <1>1, <2>1 DEF Own, RoleOK, TraceOK
  <2>6. Moves(p) BY <1>1, <1>2, <2>4, QuietMoves
  <2>7. RoleOK(p)' BY <1>1, <1>4, <2>3, <2>4 DEF Own, RoleOK
  <2>8. LocksOK(p)' BY <1>1, <1>2, <2>1, <2>3, <2>4 DEF Own, LocksOK, InService, world
  <2>9. CheckStands(p)' /\ ShownOK(p)' BY <1>6, <2>3, <2>4, <2>5 DEF CheckStands, ShownOK
  <2>10. ListOK(p)' BY <1>1, <1>5, <1>8, <2>1, <2>3, <2>4 DEF Own, ListOK
  <2>11. TraceOK(p)' BY <1>6, <2>3, <2>4, <2>5 DEF TraceOK, Before, After
  <2>12. BodyOK(p)' BY <1>1, <1>4, <2>3, <2>4 DEF Own, BodyOK
  <2>13. QED BY <1>7, <2>6, <2>7, <2>8, <2>9, <2>10, <2>11, <2>12 DEF Own
<1>13. QED BY <1>9, <1>10, <1>11, <1>12 DEF ReadDead, ReadEntries

\* A command starts, tries what it records against an empty store, takes its next log, or
\* opens the store.
LEMMA StartKept ==
    ASSUME ServiceInv, NEW p \in Commands, Start(p)
    PROVE  Moves(p) /\ Own(p)'
<1> USE ServiceAssumption DEF Actors
<1>1. Typed /\ Own(p) /\ act[p] \in Act BY DEF ServiceInv, Typed
<1>2. UNCHANGED world /\ act[p].at = "new" BY DEF Start
<1>3. p # Serve /\ p \notin Requests OBVIOUS
<1>4. PICK j \in CommandJobs, place \in {"open", "file", "try"} :
        /\ Put(p, [act[p] EXCEPT !.job = j, !.at = place])
        /\ j.op = "record" /\ place = "open" => made # NoOne
        /\ place = "file" => j.op = "ingest logs"
  <2>1. PICK j \in CommandJobs :
          LET a == [act[p] EXCEPT !.job = j]
          IN  CASE j.op = "seed" -> Put(p, [a EXCEPT !.at = "open"])
                [] j.op = "ingest logs" -> Put(p, [a EXCEPT !.at = "file"])
                [] j.op = "record" /\ made # NoOne -> Put(p, [a EXCEPT !.at = "open"])
                [] j.op = "record" /\ made = NoOne -> Put(p, [a EXCEPT !.at = "try"])
    BY DEF Start
  <2>2. j.op \in {"seed", "record", "ingest logs"} BY JobsAssumption
  <2>3. CASE j.op = "seed" BY <2>1, <2>3
  <2>4. CASE j.op = "ingest logs" BY <2>1, <2>4
  <2>5. CASE j.op = "record" /\ made # NoOne BY <2>1, <2>5
  <2>6. CASE j.op = "record" /\ made = NoOne BY <2>1, <2>6
  <2>7. QED BY <2>2, <2>3, <2>4, <2>5, <2>6
<1>5. PICK a : a = [act[p] EXCEPT !.job = j, !.at = place] OBVIOUS
<1>6. /\ a \in Act /\ a.at = place /\ a.job = j /\ a.outcome = act[p].outcome
      /\ a.next = act[p].next
  <2>1. CommandJobs \subseteq Jobs BY DEF Jobs
  <2>2. QED BY <1>1, <1>4, <1>5, <2>1 DEF Act, Places
<1>7. Others(p) /\ act'[p] = a BY <1>1, <1>4, <1>5, <1>6, PutFacts DEF Typed, Others
<1>8. Moves(p) BY <1>1, <1>2, <1>7, QuietMoves
<1>9. RoleOK(p)' BY <1>1, <1>2, <1>3, <1>4, <1>6, <1>7 DEF Own, RoleOK
<1>10. LocksOK(p)' BY <1>1, <1>2, <1>6, <1>7 DEF Own, LocksOK, InService, world
<1>11. CheckStands(p)' /\ ShownOK(p)' BY <1>3, <1>6, <1>7 DEF CheckStands, ShownOK
<1>12. MakesOK(p)' BY <1>1, <1>2, <1>4, <1>6, <1>7 DEF Own, MakesOK, world
<1>13. HeldOK(p)'
  <2>1. j.op = "ingest logs" => \A n \in DOMAIN j.logs : ~(n < 1)
    <3>1. j.op = "ingest logs" => j.logs \in Seq(STRING) BY JobsAssumption
    <3>2. j.op = "ingest logs" => \A n \in DOMAIN j.logs : ~(n < 1)
      BY <3>1, NoneBeforeFirst, Zenon
    <3>3. QED BY <3>2
  <2>2. act'[p].job = j /\ act'[p].next = 1 /\ act'[p].at \notin {"new", "end"}
    BY <1>1, <1>2, <1>4, <1>6, <1>7 DEF Own, HeldOK
  <2>3. QED BY <2>1, <2>2 DEF HeldOK
<1>14. QED BY <1>3, <1>8, <1>9, <1>10, <1>11, <1>12, <1>13 DEF Own

LEMMA OpenKept ==
    ASSUME ServiceInv, NEW p \in Commands \cup {Serve}, Open(p)
    PROVE  Moves(p) /\ Own(p)'
<1> USE ServiceAssumption DEF Actors
<1>1. Typed /\ Own(p) /\ act[p] \in Act BY DEF ServiceInv, Typed
<1>2. /\ log' = log /\ damaged' = damaged /\ gauges' = gauges /\ act[p].at = "open"
      /\ storeLock' = storeLock /\ fileLock' = fileLock /\ refreshLock' = refreshLock
  BY DEF Open
<1>3. p \notin Requests /\ p # NoOne OBVIOUS
<1>4. ASSUME Others(p), made' = made \/ (made = NoOne /\ made' = p) PROVE Moves(p)
  <2>1. damaged' \in BOOLEAN BY <1>1, <1>2, Zenon DEF Typed
  <2>2. QED BY <1>2, <1>4, <2>1 DEF Moves, Takes, Others
<1>5. CASE damaged
  <2>1. Ends(p, "damaged") /\ made' = made BY <1>5 DEF Open
  <2>2. Others(p) /\ Carries(p) /\ act'[p].at = "end" /\ act'[p].outcome = "damaged"
    BY <1>1, <2>1, EndsFacts DEF Outcomes
  <2>3. RoleOK(p)' BY <1>1, <1>2, <2>2 DEF Own, RoleOK, Carries
  <2>4. LocksOK(p)' BY <1>1, <1>2, <2>2 DEF Own, LocksOK, InService
  <2>5. CheckStands(p)' /\ ShownOK(p)' BY <1>3, <2>2 DEF CheckStands, ShownOK
  <2>6. MakesOK(p)' /\ HeldOK(p)' BY <2>2 DEF MakesOK, HeldOK
  <2>7. QED BY <1>3, <1>4, <2>1, <2>2, <2>3, <2>4, <2>5, <2>6 DEF Own
<1>6. CASE ~damaged
  <2>1. Goes(p, "lock") /\ made' = (IF made = NoOne THEN p ELSE made) BY <1>6 DEF Open
  <2>2. Others(p) /\ Carries(p) /\ act'[p].at = "lock" /\ act'[p].outcome = act[p].outcome
    BY <1>1, <2>1, GoesFacts DEF Places
  <2>3. RoleOK(p)' BY <1>1, <1>2, <2>2 DEF Own, RoleOK, Carries
  <2>4. LocksOK(p)' BY <1>1, <1>2, <2>2 DEF Own, LocksOK, InService
  <2>5. CheckStands(p)' /\ ShownOK(p)' BY <1>3, <2>2 DEF CheckStands, ShownOK
  <2>6. ASSUME p \in Commands PROVE MakesOK(p)' /\ HeldOK(p)'
    <3>1. Writes(p)' = Writes(p) BY <2>2 DEF Writes, Carries
    <3>2. MakesOK(p)' BY <1>1, <1>2, <2>1, <2>2, <2>6, <3>1 DEF Own, MakesOK, Carries
    <3>3. HeldOK(p) /\ Whats(log)' = Whats(log) BY <1>1, <1>2, <2>6 DEF Own, Whats
    <3>4. \A j, n : FlightOf(j, n)' = FlightOf(j, n) BY DEF FlightOf
    <3>5. HeldOK(p)' BY <1>2, <2>2, <3>3, <3>4 DEF HeldOK, Carries
    <3>6. QED BY <3>2, <3>5
  <2>7. QED BY <1>3, <1>4, <2>1, <2>2, <2>3, <2>4, <2>5, <2>6 DEF Own
<1>7. QED BY <1>5, <1>6

LEMMA CommandKept ==
    ASSUME ServiceInv, NEW p \in Commands, TryEmpty(p) \/ NextFile(p) \/ Kill(p)
    PROVE  Moves(p) /\ Own(p)'
<1> USE ServiceAssumption DEF Actors
<1>1. Typed /\ Own(p) /\ act[p] \in Act BY DEF ServiceInv, Typed
<1>2. /\ log' = log /\ made' = made /\ damaged' = damaged /\ gauges' = gauges
      /\ storeLock' = storeLock /\ refreshLock' = refreshLock
      /\ fileLock' = (IF Kill(p) THEN Free(fileLock, p) ELSE fileLock)
  BY DEF TryEmpty, NextFile, Kill, world
<1>3. p \notin Requests /\ p # Serve /\ p # NoOne OBVIOUS
<1>4. ASSUME Others(p) PROVE Moves(p)
  <2>1. damaged' \in BOOLEAN BY <1>1, <1>2, Zenon DEF Typed
  <2>2. QED BY <1>2, <1>4, <2>1 DEF Moves, Takes, Others, Free
<1>5. storeLock' # p /\ refreshLock' # p BY <1>1, <1>2 DEF Own, LocksOK, InService, RoleOK
<1>6. Whats(log)' = Whats(log) BY <1>2 DEF Whats
<1>7. \A j, n : FlightOf(j, n)' = FlightOf(j, n) BY DEF FlightOf
<1>8. ASSUME act'[p].at \in {"open", "file", "end"}, fileLock' # p
      PROVE  LocksOK(p)' /\ CheckStands(p)' /\ ShownOK(p)'
  BY <1>3, <1>5, <1>8 DEF LocksOK, CheckStands, ShownOK
<1>9. CASE Kill(p)
  <2>1. Ends(p, "killed") /\ act[p].at # "new" BY <1>9 DEF Kill
  <2>2. Others(p) /\ Carries(p) /\ act'[p].at = "end" /\ act'[p].outcome = "killed"
    BY <1>1, <2>1, EndsFacts DEF Outcomes
  <2>3. fileLock' # p BY <1>2, <1>3, <1>9 DEF Free
  <2>4. RoleOK(p)' BY <1>1, <2>1, <2>2 DEF Own, RoleOK, Carries
  <2>5. MakesOK(p)' /\ HeldOK(p)' BY <2>2 DEF MakesOK, HeldOK
  <2>6. QED BY <1>3, <1>4, <1>8, <2>2, <2>3, <2>4, <2>5 DEF Own
<1>10. CASE TryEmpty(p)
  <2>1. act[p].at = "try" /\ fileLock' # p
    BY <1>1, <1>2, <1>3, <1>10 DEF TryEmpty, Own, LocksOK, Free
  <2>2. CASE Writes(p).kind # "retraction" /\ Accepts(<<>>, Writes(p))
    <3>1. Goes(p, "open") BY <1>10, <2>2 DEF TryEmpty
    <3>2. Others(p) /\ Carries(p) /\ act'[p].at = "open" /\ act'[p].outcome = act[p].outcome
      BY <1>1, <3>1, GoesFacts DEF Places
    <3>3. RoleOK(p)' BY <1>1, <2>1, <3>2 DEF Own, RoleOK, Carries
    <3>4. Writes(p)' = Writes(p) BY <3>2 DEF Writes, Carries
    <3>5. MakesOK(p)' BY <1>1, <1>2, <2>1, <2>2, <3>2, <3>4 DEF Own, MakesOK, Carries
    <3>6. HeldOK(p)' BY <1>1, <1>6, <1>7, <2>1, <3>2 DEF Own, HeldOK, Carries
    <3>7. QED BY <1>3, <1>4, <1>8, <2>1, <3>2, <3>3, <3>5, <3>6 DEF Own
  <2>3. CASE ~(Writes(p).kind # "retraction" /\ Accepts(<<>>, Writes(p)))
    <3>1. Ends(p, "refused") BY <1>10, <2>3 DEF TryEmpty
    <3>2. Others(p) /\ Carries(p) /\ act'[p].at = "end" /\ act'[p].outcome = "refused"
      BY <1>1, <3>1, EndsFacts DEF Outcomes
    <3>3. RoleOK(p)' BY <1>1, <2>1, <3>2 DEF Own, RoleOK, Carries
    <3>4. MakesOK(p)' BY <1>1, <1>2, <2>1, <3>2 DEF Own, MakesOK, Carries
    <3>5. HeldOK(p)' BY <3>2 DEF HeldOK
    <3>6. QED BY <1>3, <1>4, <1>8, <2>1, <3>2, <3>3, <3>4, <3>5 DEF Own
  <2>4. QED BY <2>2, <2>3
<1>11. CASE NextFile(p)
  <2>1. act[p].at = "file" /\ fileLock' # p
    BY <1>1, <1>2, <1>3, <1>11 DEF NextFile, Own, LocksOK, Free
  <2>2. act[p].job.op = "ingest logs" BY <1>1, <2>1 DEF Own, RoleOK
  <2>3. /\ Len(act[p].job.logs) \in Nat
        /\ DOMAIN act[p].job.logs = 1 .. Len(act[p].job.logs)
        /\ act[p].next \in Nat
    BY <1>1, <2>1, <2>2, IngestIsACommand DEF Act
  <2>4. CASE act[p].next > Len(act[p].job.logs)
    <3>1. Ends(p, IF act[p].bad THEN "refused" ELSE "done")
      BY <1>11, <2>3, <2>4 DEF NextFile
    <3>2. PICK outcome \in {"refused", "done"} :
            Ends(p, outcome) /\ (outcome = "done" => ~act[p].bad)
      BY <3>1
    <3>3. Others(p) /\ Carries(p) /\ act'[p].at = "end" /\ act'[p].outcome = outcome
      BY <1>1, <3>2, EndsFacts DEF Outcomes
    <3>4. RoleOK(p)' BY <1>1, <2>1, <3>3 DEF Own, RoleOK, Carries
    <3>5. MakesOK(p)' BY <2>2, <3>3 DEF MakesOK, Carries
    <3>6. HeldOK(p)'
      <4>1. \A n \in DOMAIN act[p].job.logs : n < act[p].next
        BY <2>3, <2>4, AllBefore, Zenon
      <4>2. outcome = "done" =>
              \A n \in DOMAIN act[p].job.logs : FlightOf(act[p].job, n) \in Whats(log)
        BY <1>1, <2>1, <2>2, <3>2, <4>1 DEF Own, HeldOK
      <4>3. QED BY <1>6, <1>7, <3>3, <4>2 DEF HeldOK, Carries
    <3>7. QED BY <1>3, <1>4, <1>8, <2>1, <3>3, <3>4, <3>5, <3>6 DEF Own
  <2>5. CASE ~(act[p].next > Len(act[p].job.logs)) /\ NextLog(p, "refused")
    <3>1. /\ Others(p)
          /\ act'[p].at = "file" /\ act'[p].outcome = act[p].outcome
          /\ act'[p].job = act[p].job /\ act'[p].bad
      BY <1>1, <2>5, NextLogFacts
    <3>2. RoleOK(p)' BY <1>1, <2>1, <3>1 DEF Own, RoleOK
    <3>3. MakesOK(p)' /\ HeldOK(p)' BY <2>2, <3>1 DEF MakesOK, HeldOK
    <3>4. QED BY <1>3, <1>4, <1>8, <2>1, <3>1, <3>2, <3>3 DEF Own
  <2>6. CASE Goes(p, "open")
    <3>1. Others(p) /\ Carries(p) /\ act'[p].at = "open" /\ act'[p].outcome = act[p].outcome
      BY <1>1, <2>6, GoesFacts DEF Places
    <3>2. RoleOK(p)' BY <1>1, <2>1, <3>1 DEF Own, RoleOK, Carries
    <3>3. MakesOK(p)' BY <2>2, <3>1 DEF MakesOK, Carries
    <3>4. HeldOK(p)' BY <1>1, <1>6, <1>7, <2>1, <3>1 DEF Own, HeldOK, Carries
    <3>5. QED BY <1>3, <1>4, <1>8, <2>1, <3>1, <3>2, <3>3, <3>4 DEF Own
  <2>7. QED BY <1>11, <2>3, <2>4, <2>5, <2>6 DEF NextFile
<1>12. QED BY <1>9, <1>10, <1>11

-----------------------------------------------------------------------------
(* The invariant, and what it says.                                        *)

\* Every step of an actor is one of those above.
LEMMA StepKept ==
    ASSUME ServiceInv, NEW p \in Actors,
           \/ p = Serve /\ ServeStep(p)
           \/ p \in Requests /\ (Arrive(p) \/ Receive(p) \/ RequestStep(p))
           \/ p \in Commands /\ (Start(p) \/ CommandStep(p) \/ Kill(p))
    PROVE  Moves(p) /\ Own(p)'
<1>1. CASE Write(p)
  BY <1>1, WriteStartsKept, CommitKept, CommitFailsKept DEF Write
<1>2. CASE p = Serve /\ ServeStep(p)
  BY <1>1, <1>2, OpenKept, RefreshKept, SetGaugesKept DEF ServeStep
<1>3. CASE p \in Requests /\ (Arrive(p) \/ Receive(p) \/ RequestStep(p))
  BY <1>1, <1>3, ArriveKept, ReceiveKept, RouteKept, UploadKept, RefreshKept, SetGaugesKept,
     ReadsKept DEF RequestStep
<1>4. CASE p \in Commands /\ (Start(p) \/ CommandStep(p) \/ Kill(p))
  BY <1>1, <1>4, StartKept, OpenKept, CommandKept DEF CommandStep
<1>5. QED BY <1>2, <1>3, <1>4

LEMMA InitHolds == Init => ServiceInv
<1> SUFFICES ASSUME Init PROVE ServiceInv
  OBVIOUS
<1> USE ServiceAssumption DEF Actors
<1>1. /\ log = <<>> /\ made = NoOne /\ damaged = FALSE
      /\ storeLock = NoOne /\ fileLock = NoOne /\ refreshLock = NoOne /\ gauges = 0
  BY DEF Init
<1>2. IsLog(log) /\ Len(log) = 0 /\ DOMAIN log = {}
  <2>1. <<>> \in Seq({<<>>[i] : i \in DOMAIN <<>>}) OBVIOUS
  <2>2. QED BY <1>1, <2>1 DEF IsLog
<1> DEFINE first == [Idle EXCEPT !.job = [op |-> "seed"], !.at = "open"]
<1>3. Idle \in Act /\ Idle.at = "new" /\ Idle.job = NoJob /\ Idle.outcome = "none"
      /\ Idle.next = 1 /\ Idle.got = 0 /\ ~Idle.temp
  BY DEF Idle, Act, Jobs, Places, Outcomes
<1>4. first \in Act /\ first.at = "open" /\ first.job = SeedJob /\ first.outcome = "none"
  BY DEF Idle, Act, Jobs, Places, Outcomes, SeedJob
<1>5. act = [p \in Actors |-> IF p = Serve THEN first ELSE Idle] BY DEF Init
<1> HIDE DEF first
<1>6. Typed
  <2>1. act \in [Actors -> Act] BY <1>3, <1>4, <1>5
  <2>2. damaged \in BOOLEAN BY <1>1, Zenon
  <2>3. QED BY <1>1, <1>2, <2>1, <2>2 DEF Typed
<1>7. InTurn BY <1>2 DEF InTurn
<1>8. ASSUME NEW p \in Actors PROVE Own(p)
  <2>1. WrittenBy(p) = {} BY <1>2 DEF WrittenBy
  <2>2. NoJob.op = "none" /\ SeedJob.op = "seed" BY DEF NoJob, SeedJob
  <2>3. act[p] = (IF p = Serve THEN first ELSE Idle) BY <1>5
  <2>4. RoleOK(p) BY <1>3, <1>4, <2>2, <2>3 DEF RoleOK, Before
  <2>5. LocksOK(p) BY <1>1, <1>3, <1>4, <2>3 DEF LocksOK
  <2>6. CheckStands(p) /\ ShownOK(p) BY <1>3, <1>4, <2>3 DEF CheckStands, ShownOK
  <2>7. p \in Requests => TraceOK(p) /\ BodyOK(p) /\ ListOK(p)
    BY <1>3, <2>1, <2>2, <2>3 DEF TraceOK, BodyOK, ListOK, After, Cap
  <2>8. p \in Commands => MakesOK(p) /\ HeldOK(p)
    BY <1>1, <1>3, <2>2, <2>3 DEF MakesOK, HeldOK
  <2>9. QED BY <2>4, <2>5, <2>6, <2>7, <2>8 DEF Own
<1>9. QED BY <1>6, <1>7, <1>8 DEF ServiceInv

\* The invariant holds of every state of every behaviour.
THEOREM ServiceInductive == Spec => []ServiceInv
<1>1. ServiceInv /\ [Next]_vars => ServiceInv'
  <2> SUFFICES ASSUME ServiceInv, [Next]_vars PROVE ServiceInv'
    OBVIOUS
  <2>1. ASSUME NEW p \in Actors, Moves(p), Own(p)' PROVE ServiceInv'
    <3>1. Typed' /\ InTurn' BY <2>1, TurnKept
    <3>2. \A q \in Actors : Own(q)' BY <2>1, OthersKept
    <3>3. QED BY <3>1, <3>2 DEF ServiceInv, Actors
  <2>2. CASE ServeStep(Serve)
    <3>1. Serve \in Actors BY DEF Actors
    <3>2. QED BY <2>1, <2>2, <3>1, StepKept
  <2>3. ASSUME NEW p \in Requests, Arrive(p) \/ Receive(p) \/ RequestStep(p) PROVE ServiceInv'
    <3>1. p \in Actors BY DEF Actors
    <3>2. QED BY <2>1, <2>3, <3>1, StepKept
  <2>4. ASSUME NEW p \in Commands, Start(p) \/ CommandStep(p) \/ Kill(p) PROVE ServiceInv'
    <3>1. p \in Actors BY DEF Actors
    <3>2. QED BY <2>1, <2>4, <3>1, StepKept
  <2>5. ASSUME UNCHANGED <<log, made, storeLock, fileLock, refreshLock, gauges, act>>,
               damaged' \in BOOLEAN
        PROVE  ServiceInv'
    <3>1. log' = log /\ made' = made /\ storeLock' = storeLock /\ fileLock' = fileLock
          /\ refreshLock' = refreshLock /\ gauges' = gauges /\ act' = act
      BY <2>5
    <3>2. Typed' BY <2>5, <3>1 DEF ServiceInv, Typed
    <3>3. InTurn' BY <3>1 DEF ServiceInv, InTurn
    <3>4. ASSUME NEW p \in Actors PROVE Own(p)'
      <4>1. Own(p) BY DEF ServiceInv
      <4>2. RoleOK(p)' /\ LocksOK(p)' BY <3>1, <4>1 DEF Own, RoleOK, LocksOK
      <4>3. Writes(p)' = Writes(p) /\ WrittenBy(p)' = WrittenBy(p)
        BY <3>1 DEF Writes, WrittenBy
      <4>4. CheckStands(p)' /\ ShownOK(p)' BY <3>1, <4>1, <4>3 DEF Own, CheckStands, ShownOK
      <4>5. p \in Requests => TraceOK(p)' /\ BodyOK(p)' /\ ListOK(p)'
        BY <3>1, <4>1, <4>3 DEF Own, TraceOK, BodyOK, ListOK
      <4>6. p \in Commands => MakesOK(p)' /\ HeldOK(p)'
        BY <3>1, <4>1, <4>3 DEF Own, MakesOK, HeldOK, FlightOf, Whats
      <4>7. QED BY <4>2, <4>4, <4>5, <4>6 DEF Own
    <3>5. QED BY <3>2, <3>3, <3>4 DEF ServiceInv, Actors
  <2>6. CASE Damage BY <2>5, <2>6 DEF Damage
  <2>7. CASE UNCHANGED vars
    <3>1. damaged' \in BOOLEAN
      <4>1. damaged' = damaged BY <2>7 DEF vars, world
      <4>2. QED BY <4>1, Zenon DEF ServiceInv, Typed
    <3>2. QED BY <2>5, <2>7, <3>1 DEF vars, world
  <2>8. CASE Over BY <2>7, <2>8 DEF Over
  <2>9. QED BY <2>2, <2>3, <2>4, <2>6, <2>7, <2>8 DEF Next
<1>2. QED BY <1>1, InitHolds, PTL DEF Spec

\* `writing`: writes from any thread and any process are accepted as if made one after the
\* other, each against all that was committed before it, and whoever holds a lock is at a step
\* that needs it.
THEOREM AcceptedInTurnHolds == Spec => []AcceptedInTurn
<1>1. ServiceInv => AcceptedInTurn
  <2> SUFFICES ASSUME ServiceInv PROVE AcceptedInTurn
    OBVIOUS
  <2>1. ASSUME NEW p \in Actors PROVE act[p].at \in Places /\ act[p].outcome \in Outcomes
    BY DEF ServiceInv, Typed, Act
  <2>2. TypeOK BY <2>1 DEF ServiceInv, Typed, Own, LocksOK, TypeOK
  <2>3. QED BY <2>2 DEF ServiceInv, InTurn, AcceptedInTurn
<1>2. QED BY <1>1, ServiceInductive, PTL

\* Whoever is refused leaves nothing: no record, no aircraft, no upload, no store; and no body
\* it was not to send was read.
THEOREM RefusedLeavesNothingHolds == Spec => []RefusedLeavesNothing
<1>1. ServiceInv => RefusedLeavesNothing
  <2> SUFFICES ASSUME ServiceInv PROVE RefusedLeavesNothing
    OBVIOUS
  <2> USE DEF Actors
  <2>1. RefusedWroteNothing
    <3> SUFFICES ASSUME NEW p \in Requests, Answered(p)
                 PROVE  /\ act[p].outcome \notin {"done", "damaged"} => WrittenBy(p) = {}
                        /\ act[p].outcome = "done" /\ act[p].job.op # "list" =>
                              Cardinality(WrittenBy(p)) = 1
      BY DEF RefusedWroteNothing
    <3>1. TraceOK(p) BY DEF ServiceInv, Own
    <3>2. \A i : Cardinality({i}) = 1 BY FS_Singleton
    <3>3. QED BY <3>1, <3>2 DEF TraceOK, Answered
  <2>2. RefusedMakesNothing
    <3> SUFFICES ASSUME NEW p \in Commands, act[p].job.op = "record",
                        act[p].outcome = "refused", made = p
                 PROVE  log # <<>>
      BY DEF RefusedMakesNothing
    <3>1. MakesOK(p) /\ RoleOK(p) BY DEF ServiceInv, Own
    <3>2. act[p].at = "end" BY <3>1 DEF RoleOK
    <3>3. QED BY <3>1, <3>2 DEF MakesOK
  <2>3. ASSUME NEW p \in Requests PROVE BodyOK(p) BY DEF ServiceInv, Own
  <2>4. NoUploadStays BY <2>3 DEF NoUploadStays, BodyOK
  <2>5. BodiesAreBounded BY <2>3 DEF BodiesAreBounded, BodyOK
  <2>6. QED BY <2>1, <2>2, <2>4, <2>5 DEF RefusedLeavesNothing
<1>2. QED BY <1>1, ServiceInductive, PTL

-----------------------------------------------------------------------------
(* Lists.                                                                  *)

\* Every set of numbers that is not empty has a least one. (The library's induction on
\* numbers takes a predicate; its order on finite sets takes none.)
LEMMA Least ==
    ASSUME NEW T \in SUBSET Nat, T # {}
    PROVE  \E n \in T : \A m \in T : n <= m
<1> DEFINE Below == {0 .. n : n \in T}
<1>1. Below \subseteq FiniteSubsetsOf(Nat)
  <2> SUFFICES ASSUME NEW n \in T PROVE 0 .. n \in FiniteSubsetsOf(Nat)
    OBVIOUS
  <2>1. IsFiniteSet(0 .. n) BY FS_Interval
  <2>2. 0 .. n \subseteq Nat OBVIOUS
  <2>3. QED BY <2>1, <2>2 DEF FiniteSubsetsOf
<1>2. Below # {} OBVIOUS
<1>3. IsWellFoundedOn(StrictSubsetOrdering(Nat), FiniteSubsetsOf(Nat))
  BY FS_StrictSubsetOrderingWellFounded
<1> HIDE DEF Below
<1>4. \E x \in Below : \A y \in Below : ~(<<y, x>> \in StrictSubsetOrdering(Nat))
  BY <1>1, <1>2, <1>3, WFMin, Zenon
<1>5. PICK n \in T : \A m \in T : ~(<<0 .. m, 0 .. n>> \in StrictSubsetOrdering(Nat))
  BY <1>4 DEF Below
<1>6. ASSUME NEW m \in T, m < n PROVE FALSE
  <2>1. 0 .. m \subseteq 0 .. n /\ n \in 0 .. n /\ n \notin 0 .. m
    BY <1>6
  <2>2. <<0 .. m, 0 .. n>> \in StrictSubsetOrdering(Nat)
    BY <2>1 DEF StrictSubsetOrdering
  <2>3. QED BY <2>2, <1>5
<1>7. QED BY <1>6

\* Whether an entry is dead depends on later entries only, so it is settled for every log.
LEMMA DeadDefined ==
    ASSUME NEW l, IsLog(l)
    PROVE  \E f : f = [i \in EntryIds(l) |->
                         \E j \in EntryIds(l) :
                            j > i /\ l[j].what = [kind |-> "retraction", of |-> i] /\ ~f[j]]
<1> DEFINE W(j, i) == l[j].what = [kind |-> "retraction", of |-> i]
<1> DEFINE E == EntryIds(l)
<1> DEFINE Above(n) == {e \in E : e > n}
<1> DEFINE Settled(n, f) == f = [i \in Above(n) |-> \E j \in E : j > i /\ W(j, i) /\ ~f[j]]
<1> DEFINE T == {n \in 0 .. Len(l) : \E f : Settled(n, f)}
<1>1. Len(l) \in Nat /\ E \subseteq 1 .. Len(l) BY LogFacts DEF EntryIds
<1> HIDE DEF W, E
<1>2. Len(l) \in T
  <2>1. \A e \in E : ~(e > Len(l)) BY <1>1
  <2>2. Above(Len(l)) = {} BY <2>1, Zenon
  <2>3. Settled(Len(l), [i \in {} |-> TRUE]) BY <2>2
  <2>4. Len(l) \in 0 .. Len(l) BY <1>1
  <2> HIDE DEF Settled
  <2>5. QED BY <2>3, <2>4, Zenon
<1>3. ASSUME NEW n \in T, n # 0 PROVE n - 1 \in T
  <2>1. PICK f : Settled(n, f) OBVIOUS
  <2>2. n \in Nat /\ n - 1 \in Nat /\ n - 1 \in 0 .. Len(l) BY <1>1, <1>3
  <2> DEFINE D(i) == \E j \in E : j > i /\ W(j, i) /\ ~f[j]
  <2> DEFINE g == [i \in Above(n - 1) |-> D(i)]
  <2>3. ASSUME NEW j \in E, j > n PROVE g[j] <=> f[j]
    <3>1. j \in Above(n) /\ j \in Above(n - 1) BY <1>1, <2>2, <2>3
    <3>2. f[j] <=> D(j)
      <4> HIDE DEF D
      <4>1. f[j] = D(j) BY <2>1, <3>1, Zenon DEF D
      <4>2. QED BY <4>1
    <3>3. g[j] <=> D(j)
      <4> HIDE DEF D
      <4>1. g[j] = D(j) BY <3>1, Zenon
      <4>2. QED BY <4>1
    <3>4. QED BY <3>2, <3>3
  <2>4. ASSUME NEW i \in Above(n - 1) PROVE D(i) = \E j \in E : j > i /\ W(j, i) /\ ~g[j]
    <3>1. \A j \in E : j > i => j > n \/ j = n BY <1>1, <2>2, <2>4
    <3>2. \A j \in E : j > i => j > n BY <1>1, <2>2, <2>4
    <3> HIDE DEF g
    <3>3. QED BY <2>3, <3>2, Zenon
  <2>5. Settled(n - 1, g)
    <3> DEFINE h == [i \in Above(n - 1) |-> \E j \in E : j > i /\ W(j, i) /\ ~g[j]]
    <3>1. g = h
      <4> HIDE DEF D
      <4>1. \A i \in Above(n - 1) : D(i) = \E j \in E : j > i /\ W(j, i) /\ ~g[j] BY <2>4
      <4> HIDE DEF Above
      <4>2. QED BY <4>1, Zenon
    <3>2. QED BY <3>1
  <2> HIDE DEF g, Settled
  <2>6. QED BY <2>2, <2>5
<1>4. 0 \in T
  <2>1. T \in SUBSET Nat /\ T # {}
    <3> HIDE DEF Settled
    <3>1. T \subseteq 0 .. Len(l) BY Zenon
    <3> HIDE DEF T
    <3>2. QED BY <1>1, <1>2, <3>1
  <2> HIDE DEF T
  <2>2. PICK n \in T : \A m \in T : n <= m BY <2>1, Least
  <2>3. n = 0
    <3>1. n # 0 => n - 1 \in T BY <1>3
    <3>2. n \in Nat BY <2>1
    <3>3. QED BY <2>2, <3>1, <3>2
  <2>4. QED BY <2>3
<1>5. Above(0) = E
  <2>1. \A e \in E : e > 0 BY <1>1
  <2>2. QED BY <2>1, Zenon
<1>6. PICK f : Settled(0, f) BY <1>4
<1>7. f = [i \in E |-> \E j \in E : j > i /\ W(j, i) /\ ~f[j]] BY <1>5, <1>6
<1>8. QED BY <1>7 DEF W, E

\* So the last entry of a log is live.
LEMMA LastIsLive ==
    ASSUME NEW l, IsLog(l), NEW n, n = Len(l), n \in EntryIds(l)
    PROVE  n \in LiveIds(l)
<1> DEFINE B(f) == [i \in EntryIds(l) |->
                      \E j \in EntryIds(l) :
                         j > i /\ l[j].what = [kind |-> "retraction", of |-> i] /\ ~f[j]]
<1> DEFINE dead == CHOOSE f : f = B(f)
<1>1. DeadIds(l) = {i \in EntryIds(l) : dead[i]} BY DEF DeadIds
<1>2. dead = B(dead) BY DeadDefined
<1>3. \A j \in EntryIds(l) : ~(j > n) BY LogFacts DEF EntryIds
<1> DEFINE d == \E j \in EntryIds(l) :
                   j > n /\ l[j].what = [kind |-> "retraction", of |-> n] /\ ~dead[j]
<1>4. dead[n] = d BY <1>2, Zenon
<1>5. ~d BY <1>3
<1>6. ~dead[n] BY <1>4, <1>5, Zenon
<1>7. QED BY <1>1, <1>6 DEF LiveIds

\* A list taken in two snapshots is of its time: what was live throughout is in it, and what is
\* in it was live at some moment of it.
LEMMA ListIsOfItsTimeHolds ==
    ASSUME ServiceInv
    PROVE  ListIsOfItsTime
<1> USE DEF Actors
<1> SUFFICES ASSUME NEW p \in Requests, Answered(p), act[p].job.op = "list",
                    act[p].outcome = "done", NEW i \in EntryIds(log)
             PROVE  LET live(k) == i \in LiveIds(UpTo(k))
                        span == act[p].since .. act[p].found
                    IN  /\ (\A k \in span : live(k)) => i \in Listed(p)
                        /\ i \in Listed(p) => \E k \in span : live(k)
  BY DEF ListIsOfItsTime
<1> DEFINE since == act[p].since
<1> DEFINE seen == act[p].seen
<1> DEFINE found == act[p].found
<1>1. /\ since \in Nat /\ seen \in Nat /\ found \in Nat
      /\ since <= seen /\ seen <= found /\ found <= Len(log)
  BY DEF ServiceInv, Typed, Act, Own, ListOK, Answered
<1>2. IsLog(log) /\ Len(log) \in Nat BY LogFacts DEF ServiceInv, Typed
<1>3. ASSUME NEW k \in 0 .. Len(log)
      PROVE  /\ IsLog(UpTo(k)) /\ Len(UpTo(k)) = k
             /\ EntryIds(UpTo(k)) = {n \in EntryIds(log) : n <= k}
  <2>1. IsLog(UpTo(k)) /\ DOMAIN UpTo(k) = 1 .. k /\ \A n \in 1 .. k : UpTo(k)[n] = log[n]
    BY <1>2, LogFacts DEF UpTo
  <2>2. Len(UpTo(k)) = k
    <3>1. Len(UpTo(k)) \in Nat /\ DOMAIN UpTo(k) = 1 .. Len(UpTo(k)) BY <2>1, LogFacts
    <3>2. k \in Nat /\ 1 .. k = 1 .. Len(UpTo(k)) BY <1>2, <2>1, <3>1
    <3>3. QED BY <3>1, <3>2
  <2>3. DOMAIN log = 1 .. Len(log) BY <1>2, LogFacts
  <2>4. EntryIds(UpTo(k)) = {n \in EntryIds(log) : n <= k}
    BY <1>2, <2>1, <2>3 DEF EntryIds
  <2>5. QED BY <2>1, <2>2, <2>4
<1>4. i \in Nat /\ i \in 1 .. Len(log) BY <1>2, LogFacts DEF EntryIds
<1>5. seen \in 0 .. Len(log) /\ found \in 0 .. Len(log) /\ i \in 0 .. Len(log)
  BY <1>1, <1>2, <1>4
<1>6. seen \in since .. found /\ found \in since .. found BY <1>1
<1>7. Listed(p) = EntryIds(UpTo(found)) \ DeadIds(UpTo(seen)) BY DEF Listed
<1>8. ASSUME \A k \in since .. found : i \in LiveIds(UpTo(k)) PROVE i \in Listed(p)
  <2>1. i \in LiveIds(UpTo(found)) /\ i \in LiveIds(UpTo(seen)) BY <1>6, <1>8
  <2>2. QED BY <1>7, <2>1 DEF LiveIds
<1>9. ASSUME i \in Listed(p) PROVE \E k \in since .. found : i \in LiveIds(UpTo(k))
  <2>1. i <= found /\ i \notin DeadIds(UpTo(seen)) BY <1>3, <1>5, <1>7, <1>9
  <2>2. CASE i <= seen
    <3>1. i \in EntryIds(UpTo(seen)) BY <1>3, <1>5, <2>2
    <3>2. i \in LiveIds(UpTo(seen)) BY <2>1, <3>1 DEF LiveIds
    <3>3. QED BY <1>6, <3>2
  <2>3. CASE i > seen
    <3>1. i \in EntryIds(UpTo(i)) /\ i = Len(UpTo(i)) /\ IsLog(UpTo(i)) BY <1>3, <1>4, <1>5
    <3>2. i \in LiveIds(UpTo(i)) BY <3>1, LastIsLive
    <3>3. i \in since .. found BY <1>1, <1>4, <2>1, <2>3
    <3>4. QED BY <3>2, <3>3
  <2>4. QED BY <1>1, <1>4, <2>2, <2>3
<1>10. QED BY <1>8, <1>9

\* What is answered is so: the gauges show the write, whichever refresh set them last, the
\* list is of its time, and an ingest that exits 0 holds every log it was given.
THEOREM AnswersAreTrueHold == Spec => []AnswersAreTrue
<1>1. ServiceInv => AnswersAreTrue
  <2> SUFFICES ASSUME ServiceInv PROVE AnswersAreTrue
    OBVIOUS
  <2> USE DEF Actors
  <2>1. AnsweredIsShown
    <3>1. ASSUME NEW p \in Requests PROVE ShownOK(p) BY DEF ServiceInv, Own
    <3>2. QED BY <3>1 DEF AnsweredIsShown, Answered, ShownOK
  <2>2. ExitTellsWhatIsHeld
    <3>1. ASSUME NEW p \in Commands PROVE HeldOK(p) BY DEF ServiceInv, Own
    <3>2. QED BY <3>1 DEF ExitTellsWhatIsHeld, Answered, HeldOK, FlightOf
  <2>3. QED BY <2>1, <2>2, ListIsOfItsTimeHolds DEF AnswersAreTrue
<1>2. QED BY <1>1, ServiceInductive, PTL
=============================================================================
