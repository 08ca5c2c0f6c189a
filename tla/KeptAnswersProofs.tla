-------------------------- MODULE KeptAnswersProofs --------------------------
(***************************************************************************)
(* For every set of threads, every set of writes and every bound: what the *)
(* store keeps is what its label names, what a snapshot is answered is     *)
(* what its own transaction reads, and no answer is computed twice of the  *)
(* newest state before the store writes itself.                            *)
(***************************************************************************)
EXTENDS KeptWalks, TLAPS

\* A labelled value describes the state its label names.
Faithful(k, v) ==
    v.label # 0 =>
        /\ v.label \in 1..Len(looks)
        /\ v.answer = Answer(k, history[looks[v.label]])

\* The labelling connection met states the file was in, no later than now.
LooksInv == \A i \in 1..Len(looks) : looks[i] \in 1..Now

\* A snapshot's label was read before its transaction pinned a state, and once
\* agreed the two name one state.
SnapOf(t) ==
    /\ at[t] = "labelled" => label[t] \in 1..Len(looks)
    /\ at[t] = "pinned" =>
          /\ label[t] \in 1..Len(looks)
          /\ pinned[t] \in looks[label[t]]..Now
    /\ IsOpen(t) =>
          /\ label[t] \in 1..Len(looks)
          /\ pinned[t] = looks[label[t]]
    /\ at[t] \in {"waiting", "computing", "keeping"} => asking[t] \in Kinds
    /\ at[t] = "keeping" => Answer(asking[t], history[pinned[t]]) # Unreadable

SnapInv == \A t \in Threads : SnapOf(t)

KeptInv ==
    /\ \A k \in Kinds : Faithful(k, kept[k])
    /\ \A t \in Threads, k \in Kinds : Faithful(k, captured[t][k])
    /\ stage = "found" => Faithful(First(todo), found)

\* The commit of this write, when no other is met: the state seen, made of the
\* one labelled before it.
MadeBy(n) ==
    /\ n \in 2..Now
    /\ op \in {"entry", "flight", "aircraft"}
    /\ history[n] = Written(op, history[n - 1], n)
    /\ head = IF Linked(op) THEN n ELSE 0

\* What the two reads of the writing connection's version, the one before the
\* write and the one after, say of the commits between the two labels: as long
\* as the version is the one read before, every commit the connection met was
\* in the label before the write or is the write itself.
WriteInv ==
    /\ seen \in 1..Now
    /\ since.outside <= version
    /\ stage \in {"before", "version", "label", "commit"} =>
          op \in {"entry", "flight", "aircraft"}
    /\ stage \in {"label", "commit", "committed", "after"} => before.outside <= version
    /\ stage \in {"commit", "committed", "after"} => before.label \in 1..Len(looks)
    /\ stage = "checking" => op = "entry"
    /\ stage = "commit" /\ before.outside = version => seen <= looks[before.label]
    /\ stage \in {"committed", "after"} => MadeBy(seen)
    /\ stage \in {"committed", "after"} /\ before.outside = version =>
          looks[before.label] = seen - 1
    /\ stage = "after" => after \in 1..Len(looks) /\ looks[after] >= seen
    /\ stage \in {"moving", "found"} /\ exact =>
          /\ after \in 1..Len(looks) /\ before.label \in 1..Len(looks)
          /\ looks[before.label] = looks[after] - 1
          /\ MadeBy(looks[after])

IInv == TypeOK /\ LooksInv /\ SnapInv /\ KeptInv /\ AnswersFaithful /\ WriteInv

-----------------------------------------------------------------------------
(* Facts about the operators.                                              *)

\* The next kind to move is one of those left.
LEMMA FirstIn ==
    ASSUME NEW S \in SUBSET Kinds, S # {}
    PROVE  First(S) \in S
BY KindsAssumption DEF First, AllKinds

\* Every answer but the one raised has its kind's type.
LEMMA AnswerType ==
    ASSUME NEW k \in Kinds, NEW s \in State, Answer(k, s) # Unreadable
    PROVE  Answer(k, s) \in Answers(k)
BY KindsAssumption
   DEF Answer, Answers, AllKinds, State, JournalAnswer, ReadableAnswer, ProjectionAnswer,
       Verification

\* What a write makes is a state.
LEMMA WrittenType ==
    ASSUME NEW o \in AllOps, NEW s \in State, NEW n \in Nat
    PROVE  Written(o, s, n) \in State
BY DEF Written, State, Linked, WritesEntry, AllOps

LEMMA EditedType ==
    ASSUME NEW s \in State, NEW n \in Nat, NEW broken \in BOOLEAN, NEW bad \in SUBSET Spoilable
    PROVE  Edited(s, n, broken, bad) \in State
BY SpoilableAssumption DEF Edited, State

\* One read of the labelling connection's version adds at most the newest
\* state to those it met, and it is then the last of them.
LEMMA LookedFacts ==
    ASSUME FileTypeOK, LooksInv
    PROVE  /\ Looked \in Seq(Nat \ {0})
           /\ Len(Looked) >= Len(looks)
           /\ \A i \in 1..Len(looks) : Looked[i] = looks[i]
           /\ \A i \in 1..Len(Looked) : Looked[i] \in 1..Now
           /\ Looked[Len(Looked)] = Now
           /\ Len(Looked) = Len(looks) => Looked = looks
<1>1. CASE looks[Len(looks)] = Now
  <2>1. Looked = looks
    BY <1>1 DEF Looked
  <2> QED BY <1>1, <2>1 DEF FileTypeOK, LooksInv, Now
<1>2. CASE looks[Len(looks)] # Now
  <2>1. Looked = Append(looks, Now)
    BY <1>2 DEF Looked
  <2>2. Now \in Nat \ {0}
    BY DEF FileTypeOK, Now
  <2>3. looks \in Seq(Nat \ {0})
    BY DEF FileTypeOK
  <2>4. /\ Looked \in Seq(Nat \ {0}) /\ Len(Looked) = Len(looks) + 1
        /\ \A i \in 1..Len(looks) : Looked[i] = looks[i]
        /\ Looked[Len(looks) + 1] = Now
    BY <2>1, <2>2, <2>3
  <2> QED BY <2>2, <2>3, <2>4 DEF LooksInv
<1> QED BY <1>1, <1>2

\* One commit: a state more, none forgotten.
LEMMA CommitFacts ==
    ASSUME FileTypeOK, NEW s \in State, history' = Append(history, s)
    PROVE  /\ history' \in Seq(State) /\ Now' = Now + 1
           /\ \A i \in 1..Now : history'[i] = history[i]
           /\ history'[Now + 1] = s
BY DEF FileTypeOK, Now

\* What is moved on describes the state the write made: a link more on a chain
\* that was intact, the same unreadable records, the same ledger when no entry
\* was written.
LEMMA MovedFacts ==
    ASSUME NEW k \in Kinds, NEW s \in State, NEW n \in Nat \ {0}, NEW v,
           op \in {"entry", "flight", "aircraft"},
           head = IF Linked(op) THEN n ELSE 0,
           v.answer = Answer(k, s),
           Movable(k, v)
    PROVE  MovedAnswer(k, v.answer) = Answer(k, Written(op, s, n))
<1>1. CASE k = "journal"
  <2> DEFINE w == Written(op, s, n)
  <2>1. Answer(k, s) = JournalAnswer(s) /\ Answer(k, w) = JournalAnswer(w)
    BY <1>1 DEF Answer
  <2>2. CASE Linked(op)
    <3>1. head = n /\ head # 0
      BY <2>2
    <3>2. v.answer.ok
      BY <1>1, <3>1 DEF Movable
    <3>3. JournalAnswer(s).ok = (s.damage = 0)
      BY DEF JournalAnswer
    <3>4. s.damage = 0
      BY <2>1, <3>2, <3>3
    <3>5. v.answer.length = s.links
      BY <2>1, <3>4 DEF JournalAnswer
    <3>6. MovedAnswer(k, v.answer) = [ok |-> TRUE, length |-> s.links + 1, head |-> n]
      BY <1>1, <3>1, <3>5 DEF MovedAnswer
    <3>7. w.damage = 0 /\ w.links = s.links + 1 /\ w.head = n
      BY <2>2, <3>4 DEF Written
    <3>8. JournalAnswer(w) = [ok |-> TRUE, length |-> s.links + 1, head |-> n]
      BY <3>7 DEF JournalAnswer
    <3> QED BY <2>1, <3>6, <3>8
  <2>3. CASE ~Linked(op)
    <3>1. MovedAnswer(k, v.answer) = JournalAnswer(s)
      BY <2>1, <2>3 DEF MovedAnswer
    <3>2. w.damage = s.damage /\ w.links = s.links /\ w.head = s.head
      BY <2>3 DEF Written, State, Linked
    <3>3. JournalAnswer(w) = JournalAnswer(s)
      BY <3>2 DEF JournalAnswer
    <3> QED BY <2>1, <3>1, <3>3
  <2> QED BY <2>2, <2>3
<1>2. CASE k = "readable"
  BY <1>2 DEF MovedAnswer, Answer, ReadableAnswer, Written
<1>3. CASE k = "projection"
  BY <1>3 DEF Movable, MovedAnswer, Answer, ProjectionAnswer, Written
<1> QED BY <1>1, <1>2, <1>3, KindsAssumption DEF AllKinds

-----------------------------------------------------------------------------
(* What every step leaves alone.                                           *)

\* The file and the labelling connection's versions only grow.
Grows ==
    /\ Len(looks') >= Len(looks)
    /\ \A i \in 1..Len(looks) : looks'[i] = looks[i]
    /\ Now' >= Now
    /\ \A i \in 1..Now : history'[i] = history[i]

\* One look, and no commit.
LEMMA LookGrows ==
    ASSUME FileTypeOK, LooksInv, looks' = Looked, UNCHANGED history
    PROVE  /\ FileTypeOK' /\ LooksInv' /\ Grows
           /\ looks'[Len(looks')] = Now
<1>1. Len(Looked) \in Nat /\ Len(looks) \in Nat /\ Now' = Now
  BY LookedFacts DEF FileTypeOK, Now
<1> QED BY <1>1, LookedFacts DEF FileTypeOK, LooksInv, Grows, Now

\* One commit, and no look.
LEMMA CommitGrows ==
    ASSUME FileTypeOK, LooksInv, UNCHANGED looks,
           NEW s \in State, history' = Append(history, s)
    PROVE  FileTypeOK' /\ LooksInv' /\ Grows
<1>1. Now \in Nat
  BY DEF FileTypeOK, Now
<1> QED BY <1>1, CommitFacts DEF FileTypeOK, LooksInv, Grows, Now

\* Neither.
LEMMA QuietGrows ==
    ASSUME FileTypeOK, LooksInv, UNCHANGED <<looks, history>>
    PROVE  FileTypeOK' /\ LooksInv' /\ Grows
BY DEF FileTypeOK, LooksInv, Grows, Now

\* A labelled value goes on describing the state its label names.
LEMMA FaithfulStable ==
    ASSUME FileTypeOK, LooksInv, Grows, NEW k, NEW v, Faithful(k, v), v.label \in Nat
    PROVE  (v.label # 0 =>
              /\ v.label \in 1..Len(looks')
              /\ v.answer = Answer(k, history'[looks'[v.label]]))
<1> SUFFICES ASSUME v.label # 0
    PROVE  /\ v.label \in 1..Len(looks')
           /\ v.answer = Answer(k, history'[looks'[v.label]])
  OBVIOUS
<1>1. v.label \in 1..Len(looks) /\ v.answer = Answer(k, history[looks[v.label]])
  BY DEF Faithful
<1>2. Len(looks) \in Nat /\ Len(looks') >= Len(looks)
  BY DEF FileTypeOK, Grows
<1>3. looks'[v.label] = looks[v.label]
  BY <1>1 DEF Grows
<1>4. looks[v.label] \in 1..Now
  BY <1>1 DEF LooksInv
<1>5. history'[looks[v.label]] = history[looks[v.label]]
  BY <1>4 DEF Grows
<1>6. v.label \in 1..Len(looks')
  BY <1>1, <1>2
<1> QED BY <1>1, <1>3, <1>5, <1>6

\* An open snapshot reads a state that stays as it is.
LEMMA OpenStable ==
    ASSUME IInv, Grows, NEW t \in Threads, IsOpen(t)
    PROVE  /\ label[t] \in 1..Len(looks) /\ pinned[t] = looks[label[t]]
           /\ pinned[t] \in 1..Now
           /\ looks'[label[t]] = looks[label[t]]
           /\ history'[pinned[t]] = history[pinned[t]]
BY DEF IInv, SnapInv, SnapOf, LooksInv, Grows

\* A snapshot that takes no part in a step.
LEMMA SnapOfStable ==
    ASSUME IInv, FileTypeOK', Grows, NEW t \in Threads,
           at'[t] = at[t], label'[t] = label[t], pinned'[t] = pinned[t], asking'[t] = asking[t]
    PROVE  SnapOf(t)'
<1>1. Len(looks) \in Nat /\ Now \in Nat /\ Len(looks') \in Nat /\ Now' \in Nat
  BY DEF IInv, TypeOK, FileTypeOK, Now
<1>2. IsOpen(t)' <=> IsOpen(t)
  BY DEF IsOpen
<1>3. SnapOf(t)
  BY DEF IInv, SnapInv
<1>4. (at[t] = "labelled" => label[t] \in 1..Len(looks))'
  BY <1>1, <1>3 DEF SnapOf, Grows
<1>5. (at[t] = "pinned" => label[t] \in 1..Len(looks) /\ pinned[t] \in looks[label[t]]..Now)'
  <2> SUFFICES ASSUME at[t] = "pinned"
      PROVE  (label[t] \in 1..Len(looks) /\ pinned[t] \in looks[label[t]]..Now)'
    OBVIOUS
  <2>1. label[t] \in 1..Len(looks) /\ pinned[t] \in looks[label[t]]..Now
    BY <1>3 DEF SnapOf
  <2>2. looks'[label[t]] = looks[label[t]] /\ looks[label[t]] \in Nat
    BY <2>1 DEF IInv, LooksInv, Grows
  <2> QED BY <1>1, <2>1, <2>2 DEF Grows
<1>6. (IsOpen(t) => label[t] \in 1..Len(looks) /\ pinned[t] = looks[label[t]])'
  BY <1>1, <1>2, OpenStable DEF Grows
<1>7. (at[t] \in {"waiting", "computing", "keeping"} => asking[t] \in Kinds)'
  BY <1>3 DEF SnapOf
<1>8. (at[t] = "keeping" => Answer(asking[t], history[pinned[t]]) # Unreadable)'
  <2> SUFFICES ASSUME at[t] = "keeping"
      PROVE  Answer(asking'[t], history'[pinned'[t]]) # Unreadable
    OBVIOUS
  <2>1. history'[pinned[t]] = history[pinned[t]]
    BY OpenStable DEF IsOpen
  <2>2. Answer(asking[t], history[pinned[t]]) # Unreadable
    BY <1>3 DEF SnapOf
  <2> QED BY <2>1, <2>2
<1> QED BY <1>4, <1>5, <1>6, <1>7, <1>8 DEF SnapOf

\* The snapshots, when a step is of an own write or of another connection.
LEMMA SnapStable ==
    ASSUME IInv, FileTypeOK', Grows, UNCHANGED snapVars
    PROVE  SnapTypeOK' /\ AnswersTypeOK' /\ SnapInv' /\ AnswersFaithful'
<1> USE DEF snapVars
<1>1. SnapTypeOK' /\ AnswersTypeOK'
  BY DEF IInv, TypeOK, SnapTypeOK, AnswersTypeOK
<1>2. SnapInv'
  BY SnapOfStable DEF SnapInv
<1>3. AnswersFaithful'
  BY OpenStable DEF IInv, AnswersFaithful, IsOpen
<1> QED BY <1>1, <1>2, <1>3

\* The write in progress, when a step is of a snapshot or of another connection.
LEMMA WriteStable ==
    ASSUME IInv, FileTypeOK', Grows, UNCHANGED <<writerVars, ownVars>>
    PROVE  OwnTypeOK' /\ WriteInv'
<1> USE DEF writerVars, ownVars
<1>1. OwnTypeOK'
  BY DEF IInv, TypeOK, OwnTypeOK
<1>2. Len(looks) \in Nat /\ Now \in Nat /\ Now' \in Nat /\ seen \in 1..Now
  BY DEF IInv, TypeOK, FileTypeOK, Now, WriteInv
<1>3. ASSUME NEW n \in 1..Now, MadeBy(n)
      PROVE  MadeBy(n)'
  <2>1. n \in 2..Now /\ n - 1 \in 1..Now /\ n \in 2..Now'
    BY <1>2, <1>3 DEF MadeBy, Grows
  <2>2. history'[n] = history[n] /\ history'[n - 1] = history[n - 1]
    BY <2>1 DEF Grows
  <2> QED BY <1>3, <2>1, <2>2 DEF MadeBy
<1>4. \A i \in 1..Len(looks) : looks'[i] = looks[i] /\ looks[i] \in 1..Now /\ i \in 1..Len(looks')
  BY <1>2 DEF IInv, LooksInv, Grows
<1>5. (seen \in 1..Now)'
  BY <1>2 DEF Grows
<1>6. \A i \in 1..Len(looks) : MadeBy(looks[i]) => MadeBy(looks[i])'
  BY <1>3, <1>4
<1>7. MadeBy(seen) => MadeBy(seen)'
  BY <1>2, <1>3
<1>8. WriteInv'
  BY <1>2, <1>4, <1>5, <1>6, <1>7 DEF IInv, WriteInv
<1> QED BY <1>1, <1>8

\* What is kept, when a step neither keeps, moves nor drops.
LEMMA KeptStable ==
    ASSUME IInv, Grows, UNCHANGED <<kept, captured>>,
           stage' = "found" => stage = "found" /\ UNCHANGED <<todo, found>>
    PROVE  KeptTypeOK' /\ KeptInv'
<1>1. KeptTypeOK'
  BY DEF IInv, TypeOK, KeptTypeOK
<1>2. \A k \in Kinds : Faithful(k, kept[k])'
  <2> SUFFICES ASSUME NEW k \in Kinds PROVE Faithful(k, kept[k])'
    OBVIOUS
  <2>1. Faithful(k, kept[k]) /\ kept[k].label \in Nat
    BY DEF IInv, KeptInv, TypeOK, KeptTypeOK, KeptType
  <2> QED BY <2>1, FaithfulStable DEF IInv, TypeOK, Faithful
<1>3. \A t \in Threads, k \in Kinds : Faithful(k, captured[t][k])'
  <2> SUFFICES ASSUME NEW t \in Threads, NEW k \in Kinds PROVE Faithful(k, captured[t][k])'
    OBVIOUS
  <2>1. Faithful(k, captured[t][k]) /\ captured[t][k].label \in Nat
    BY DEF IInv, KeptInv, TypeOK, AnswersTypeOK, KeptType
  <2> QED BY <2>1, FaithfulStable DEF IInv, TypeOK, Faithful
<1>4. (stage = "found" => Faithful(First(todo), found))'
  <2> SUFFICES ASSUME stage' = "found" PROVE Faithful(First(todo), found)'
    OBVIOUS
  <2>1. Faithful(First(todo), found) /\ found.label \in Nat /\ First(todo)' = First(todo)
    BY DEF IInv, KeptInv, TypeOK, OwnTypeOK, KeptType, First
  <2> QED BY <2>1, FaithfulStable DEF IInv, TypeOK, Faithful
<1> QED BY <1>1, <1>2, <1>3, <1>4 DEF KeptInv

-----------------------------------------------------------------------------
(* The steps of a snapshot.                                                *)

LEMMA BeginLabelStep ==
    ASSUME IInv, NEW t \in Threads, BeginLabel(t)
    PROVE  IInv'
<1> USE DEF fileVars, writerVars, keptVars, snapVars, ownVars
<1>1. FileTypeOK' /\ LooksInv' /\ Grows
  BY LookGrows DEF IInv, TypeOK, BeginLabel
<1>2. OwnTypeOK' /\ WriteInv'
  BY <1>1, WriteStable DEF BeginLabel
<1>3. KeptTypeOK' /\ KeptInv'
  BY <1>1, KeptStable DEF BeginLabel
<1>4. LockTypeOK'
  BY DEF IInv, TypeOK, LockTypeOK, BeginLabel
<1>5. SnapTypeOK' /\ AnswersTypeOK'
  BY <1>1 DEF IInv, TypeOK, SnapTypeOK, AnswersTypeOK, FileTypeOK, BeginLabel, Places
<1>6. SnapInv'
  <2> SUFFICES ASSUME NEW u \in Threads PROVE SnapOf(u)'
    BY DEF SnapInv
  <2>1. CASE u = t
    <3>1. at'[t] = "labelled" /\ label'[t] = Len(looks') /\ Len(looks') \in 1..Len(looks')
      BY <1>1 DEF IInv, TypeOK, FileTypeOK, SnapTypeOK, BeginLabel
    <3> QED BY <2>1, <3>1 DEF SnapOf, IsOpen
  <2>2. CASE u # t
    BY <1>1, <2>2, SnapOfStable DEF IInv, TypeOK, SnapTypeOK, BeginLabel
  <2> QED BY <2>1, <2>2
<1>7. AnswersFaithful'
  BY DEF IInv, TypeOK, SnapTypeOK, AnswersFaithful, IsOpen, BeginLabel
<1> QED BY <1>1, <1>2, <1>3, <1>4, <1>5, <1>6, <1>7 DEF IInv, TypeOK

LEMMA BeginPinStep ==
    ASSUME IInv, NEW t \in Threads, BeginPin(t)
    PROVE  IInv'
<1> USE DEF fileVars, writerVars, keptVars, snapVars, ownVars
<1>1. FileTypeOK' /\ LooksInv' /\ Grows
  BY QuietGrows DEF IInv, TypeOK, BeginPin
<1>2. OwnTypeOK' /\ WriteInv'
  BY <1>1, WriteStable DEF BeginPin
<1>3. KeptTypeOK' /\ KeptInv'
  BY <1>1, KeptStable DEF BeginPin
<1>4. LockTypeOK'
  BY DEF IInv, TypeOK, LockTypeOK, BeginPin
<1>5. SnapTypeOK' /\ AnswersTypeOK'
  BY DEF IInv, TypeOK, SnapTypeOK, AnswersTypeOK, FileTypeOK, BeginPin, Places, Now
<1>6. SnapInv'
  BY DEF IInv, TypeOK, FileTypeOK, SnapTypeOK, SnapInv, SnapOf, LooksInv, IsOpen, BeginPin, Now
<1>7. AnswersFaithful'
  BY DEF IInv, TypeOK, SnapTypeOK, AnswersFaithful, IsOpen, BeginPin
<1> QED BY <1>1, <1>2, <1>3, <1>4, <1>5, <1>6, <1>7 DEF IInv, TypeOK

LEMMA CaptureStep ==
    ASSUME IInv, NEW t \in Threads, Capture(t)
    PROVE  IInv'
<1> USE DEF fileVars, writerVars, keptVars, snapVars, ownVars
<1>1. FileTypeOK' /\ LooksInv' /\ Grows
  BY QuietGrows DEF IInv, TypeOK, Capture
<1>2. OwnTypeOK' /\ WriteInv'
  BY <1>1, WriteStable DEF Capture
<1>3. KeptTypeOK' /\ KeptInv'
  BY DEF IInv, TypeOK, KeptTypeOK, AnswersTypeOK, KeptInv, Faithful, First, Capture
<1>4. LockTypeOK'
  BY DEF IInv, TypeOK, LockTypeOK, Capture
<1>5. SnapTypeOK' /\ AnswersTypeOK'
  BY DEF IInv, TypeOK, KeptTypeOK, SnapTypeOK, AnswersTypeOK, Capture, Places
<1>6. SnapInv'
  BY DEF IInv, TypeOK, SnapTypeOK, SnapInv, SnapOf, IsOpen, Capture, Now
<1>7. AnswersFaithful'
  BY DEF IInv, TypeOK, SnapTypeOK, AnswersFaithful, IsOpen, Capture
<1> QED BY <1>1, <1>2, <1>3, <1>4, <1>5, <1>6, <1>7 DEF IInv, TypeOK

LEMMA EndSnapshotStep ==
    ASSUME IInv, NEW t \in Threads, EndSnapshot(t)
    PROVE  IInv'
<1> USE DEF fileVars, writerVars, keptVars, snapVars, ownVars
<1>1. FileTypeOK' /\ LooksInv' /\ Grows
  BY QuietGrows DEF IInv, TypeOK, EndSnapshot
<1>2. OwnTypeOK' /\ WriteInv'
  BY <1>1, WriteStable DEF EndSnapshot
<1>3. KeptTypeOK' /\ KeptInv'
  BY DEF IInv, TypeOK, KeptTypeOK, AnswersTypeOK, KeptInv, Faithful, First, EndSnapshot, NotKept
<1>4. LockTypeOK'
  BY DEF IInv, TypeOK, LockTypeOK, EndSnapshot
<1>5. SnapTypeOK' /\ AnswersTypeOK'
  BY DEF IInv, TypeOK, SnapTypeOK, AnswersTypeOK, EndSnapshot, Places, KeptType, NotKept
<1>6. SnapInv'
  BY DEF IInv, TypeOK, SnapTypeOK, SnapInv, SnapOf, IsOpen, EndSnapshot, Now
<1>7. AnswersFaithful'
  BY DEF IInv, TypeOK, SnapTypeOK, AnswersTypeOK, AnswersFaithful, IsOpen, EndSnapshot
<1> QED BY <1>1, <1>2, <1>3, <1>4, <1>5, <1>6, <1>7 DEF IInv, TypeOK

LEMMA BeginAgainStep ==
    ASSUME IInv, NEW t \in Threads, BeginAgain(t)
    PROVE  IInv'
<1> USE DEF fileVars, writerVars, keptVars, snapVars, ownVars
<1>1. FileTypeOK' /\ LooksInv' /\ Grows
  BY LookGrows DEF IInv, TypeOK, BeginAgain
<1>2. OwnTypeOK' /\ WriteInv'
  BY <1>1, WriteStable DEF BeginAgain
<1>3. KeptTypeOK' /\ KeptInv'
  BY <1>1, KeptStable DEF BeginAgain
<1>4. LockTypeOK'
  BY DEF IInv, TypeOK, LockTypeOK, BeginAgain
<1>5. SnapTypeOK' /\ AnswersTypeOK'
  <2>1. PICK p \in Places : at' = [at EXCEPT ![t] = p]
    BY DEF BeginAgain, Places
  <2>2. at' \in [Threads -> Places]
    BY <2>1 DEF IInv, TypeOK, SnapTypeOK
  <2>3. label' \in [Threads -> Nat] /\ pinned' \in [Threads -> Nat]
    BY DEF IInv, TypeOK, SnapTypeOK, BeginAgain
  <2>4. PICK b \in BOOLEAN : tries' = [tries EXCEPT ![t] = IF b THEN @ ELSE 0]
    <3> DEFINE b == at'[t] = "retry"
    <3>1. tries' = [tries EXCEPT ![t] = IF b THEN @ ELSE 0] /\ b \in BOOLEAN
      BY DEF BeginAgain
    <3> HIDE DEF b
    <3> QED BY <3>1
  <2>5. tries' \in [Threads -> Nat]
    BY <2>4 DEF IInv, TypeOK, SnapTypeOK
  <2>6. UNCHANGED <<asks, asking, captured, answers>>
    BY DEF BeginAgain
  <2> QED BY <2>2, <2>3, <2>5, <2>6 DEF IInv, TypeOK, SnapTypeOK, AnswersTypeOK
<1>6. SnapInv'
  <2> SUFFICES ASSUME NEW u \in Threads PROVE SnapOf(u)'
    BY DEF SnapInv
  <2>1. CASE u = t /\ Agreed(t)
    <3>1. label[t] \in 1..Len(looks) /\ pinned[t] \in looks[label[t]]..Now
      BY DEF IInv, SnapInv, SnapOf, BeginAgain
    <3>2. Len(Looked) = label[t] /\ looks' = Looked
      BY <2>1 DEF Agreed, BeginAgain
    <3>3. Len(Looked) = Len(looks) /\ Looked = looks /\ looks[Len(looks)] = Now
      BY <3>1, <3>2, LookedFacts DEF IInv, TypeOK, FileTypeOK
    <3>4. pinned[t] = looks[label[t]] /\ label[t] \in 1..Len(looks)
      BY <3>1, <3>2, <3>3 DEF IInv, LooksInv
    <3>5. at'[t] = "agreed" /\ label' = label /\ pinned' = pinned
      BY <2>1 DEF IInv, TypeOK, SnapTypeOK, BeginAgain
    <3> QED BY <2>1, <3>2, <3>3, <3>4, <3>5 DEF SnapOf, IsOpen
  <2>2. CASE u = t /\ ~Agreed(t)
    BY <2>2 DEF IInv, TypeOK, SnapTypeOK, SnapOf, IsOpen, BeginAgain
  <2>3. CASE u # t
    BY <1>1, <2>3, SnapOfStable DEF IInv, TypeOK, SnapTypeOK, BeginAgain
  <2> QED BY <2>1, <2>2, <2>3
<1>7. AnswersFaithful'
  BY DEF IInv, TypeOK, SnapTypeOK, AnswersFaithful, IsOpen, BeginAgain
<1> QED BY <1>1, <1>2, <1>3, <1>4, <1>5, <1>6, <1>7 DEF IInv, TypeOK

\* A kept answer with the snapshot's label is the answer of the state it reads.
LEMMA UsableFacts ==
    ASSUME IInv, NEW t \in Threads, IsOpen(t), NEW k \in Kinds, NEW v,
           Faithful(k, v), Usable(v, t)
    PROVE  v.answer = Answer(k, history[pinned[t]])
BY DEF IInv, SnapInv, SnapOf, Faithful, Usable

\* The answer of the state a snapshot reads is given to it.
LEMMA AnsweredFacts ==
    ASSUME IInv, NEW t \in Threads, IsOpen(t), NEW k \in Kinds,
           NEW a, a = Answer(k, history[pinned[t]]), Answered(t, k, a),
           UNCHANGED <<history, looks, label, pinned, tries, captured>>,
           asks' \in [Threads -> Nat]
    PROVE  SnapTypeOK' /\ AnswersTypeOK' /\ SnapInv' /\ AnswersFaithful'
<1>1. at' = [at EXCEPT ![t] = "open"] /\ at \in [Threads -> Places]
  BY DEF IInv, TypeOK, SnapTypeOK, Answered
<1>2. a \in Answers(k) \cup {Unreadable}
  <2>1. history[pinned[t]] \in State
    BY OpenStable DEF IInv, TypeOK, FileTypeOK, SnapInv, SnapOf, LooksInv, Now
  <2> QED BY <2>1, AnswerType
<1>3. SnapTypeOK' /\ AnswersTypeOK'
  <2>1. SnapTypeOK'
    BY DEF IInv, TypeOK, SnapTypeOK, Answered, Places
  <2>2. AnswersTypeOK'
    BY <1>2 DEF IInv, TypeOK, AnswersTypeOK, Answered
  <2> QED BY <2>1, <2>2
<1>4. SnapInv'
  BY <1>1 DEF IInv, TypeOK, SnapTypeOK, SnapInv, SnapOf, IsOpen, Answered, Now
<1>5. AnswersFaithful'
  BY <1>1 DEF IInv, TypeOK, AnswersTypeOK, AnswersFaithful, IsOpen, Answered
<1> QED BY <1>3, <1>4, <1>5

LEMMA AskStep ==
    ASSUME IInv, NEW t \in Threads, NEW k \in Kinds, Ask(t, k)
    PROVE  IInv'
<1> USE DEF fileVars, writerVars, keptVars, snapVars, ownVars
<1>1. FileTypeOK' /\ LooksInv' /\ Grows
  BY QuietGrows DEF IInv, TypeOK, Ask
<1>2. OwnTypeOK' /\ WriteInv'
  BY <1>1, WriteStable DEF Ask
<1>3. KeptTypeOK' /\ KeptInv'
  BY <1>1, KeptStable DEF Ask
<1>4. LockTypeOK'
  BY DEF IInv, TypeOK, LockTypeOK, Ask
<1>5. SnapTypeOK' /\ AnswersTypeOK' /\ SnapInv' /\ AnswersFaithful'
  <2>1. IsOpen(t) /\ asks' \in [Threads -> Nat]
    BY DEF IInv, TypeOK, SnapTypeOK, IsOpen, Ask
  <2>2. Faithful(k, kept[k]) /\ Faithful(k, captured[t][k])
    BY DEF IInv, KeptInv
  <2>3. CASE Usable(kept[k], t)
    BY <2>1, <2>2, <2>3, UsableFacts, AnsweredFacts DEF Ask
  <2>4. CASE ~Usable(kept[k], t) /\ Usable(captured[t][k], t)
    BY <2>1, <2>2, <2>4, UsableFacts, AnsweredFacts DEF Ask
  <2>5. CASE ~Usable(kept[k], t) /\ ~Usable(captured[t][k], t)
    <3>1. /\ at[t] = "open" /\ at' = [at EXCEPT ![t] = "waiting"]
          /\ asking' = [asking EXCEPT ![t] = k]
          /\ UNCHANGED <<history, looks, label, pinned, tries, captured, answers>>
      BY <2>5 DEF Ask
    <3>2. SnapTypeOK' /\ AnswersTypeOK'
      BY <2>1, <3>1 DEF IInv, TypeOK, SnapTypeOK, AnswersTypeOK, Places
    <3>3. SnapInv'
      BY <3>1 DEF IInv, TypeOK, SnapTypeOK, SnapInv, SnapOf, IsOpen, Now
    <3>4. AnswersFaithful'
      BY <3>1 DEF IInv, TypeOK, SnapTypeOK, AnswersFaithful, IsOpen
    <3> QED BY <3>2, <3>3, <3>4
  <2> QED BY <2>3, <2>4, <2>5
<1> QED BY <1>1, <1>2, <1>3, <1>4, <1>5 DEF IInv, TypeOK

LEMMA TakeLockStep ==
    ASSUME IInv, NEW t \in Threads, TakeLock(t)
    PROVE  IInv'
<1> USE DEF fileVars, writerVars, keptVars, snapVars, ownVars
<1>1. FileTypeOK' /\ LooksInv' /\ Grows
  BY QuietGrows DEF IInv, TypeOK, TakeLock
<1>2. OwnTypeOK' /\ WriteInv'
  BY <1>1, WriteStable DEF TakeLock
<1>3. KeptTypeOK' /\ KeptInv'
  BY <1>1, KeptStable DEF TakeLock
<1>4. LockTypeOK'
  BY DEF IInv, TypeOK, LockTypeOK, SnapInv, SnapOf, TakeLock
<1>5. SnapTypeOK' /\ AnswersTypeOK' /\ SnapInv' /\ AnswersFaithful'
  <2> DEFINE k == asking[t]
  <2>1. IsOpen(t) /\ asks' \in [Threads -> Nat] /\ k \in Kinds
    BY DEF IInv, TypeOK, SnapTypeOK, SnapInv, SnapOf, IsOpen, TakeLock
  <2>2. Faithful(k, kept[k])
    BY <2>1 DEF IInv, KeptInv
  <2>3. CASE Usable(kept[k], t)
    BY <2>1, <2>2, <2>3, UsableFacts, AnsweredFacts DEF TakeLock
  <2>4. CASE ~Usable(kept[k], t)
    <3>1. /\ at[t] = "waiting" /\ at' = [at EXCEPT ![t] = "computing"]
          /\ UNCHANGED <<history, looks, label, pinned, tries, captured, asking, asks, answers>>
      BY <2>4 DEF TakeLock
    <3>2. SnapTypeOK' /\ AnswersTypeOK'
      BY <3>1 DEF IInv, TypeOK, SnapTypeOK, AnswersTypeOK, Places
    <3>3. SnapInv'
      BY <2>1, <3>1 DEF IInv, TypeOK, SnapTypeOK, SnapInv, SnapOf, IsOpen, Now
    <3>4. AnswersFaithful'
      BY <3>1 DEF IInv, TypeOK, SnapTypeOK, AnswersFaithful, IsOpen
    <3> QED BY <3>2, <3>3, <3>4
  <2> QED BY <2>3, <2>4
<1> QED BY <1>1, <1>2, <1>3, <1>4, <1>5 DEF IInv, TypeOK

LEMMA ComputeStep ==
    ASSUME IInv, NEW t \in Threads, Compute(t)
    PROVE  IInv'
<1> USE DEF fileVars, writerVars, keptVars, snapVars, ownVars
<1>1. FileTypeOK' /\ LooksInv' /\ Grows
  BY QuietGrows DEF IInv, TypeOK, Compute
<1>2. OwnTypeOK' /\ WriteInv'
  BY <1>1, WriteStable DEF Compute
<1>3. KeptTypeOK' /\ KeptInv'
  BY <1>1, KeptStable DEF Compute
<1>4. LockTypeOK'
  BY DEF IInv, TypeOK, LockTypeOK, SnapInv, SnapOf, Compute
<1>5. SnapTypeOK' /\ AnswersTypeOK' /\ SnapInv' /\ AnswersFaithful'
  <2> DEFINE k == asking[t]
             a == Answer(k, Reads(t))
  <2>1. IsOpen(t) /\ asks' \in [Threads -> Nat] /\ k \in Kinds
    BY DEF IInv, TypeOK, SnapTypeOK, SnapInv, SnapOf, IsOpen, Compute
  <2>2. a = Answer(k, history[pinned[t]])
    BY DEF Reads
  <2>3. CASE ~Keeps(t, k, a)
    BY <2>1, <2>2, <2>3, AnsweredFacts DEF Compute
  <2>4. CASE Keeps(t, k, a)
    <3>1. /\ at[t] = "computing" /\ at' = [at EXCEPT ![t] = "keeping"]
          /\ UNCHANGED <<history, looks, label, pinned, tries, captured, asking, asks, answers>>
      BY <2>4 DEF Compute
    <3>2. SnapTypeOK' /\ AnswersTypeOK'
      BY <3>1 DEF IInv, TypeOK, SnapTypeOK, AnswersTypeOK, Places
    <3>3. SnapInv'
      BY <2>1, <2>2, <2>4, <3>1
         DEF IInv, TypeOK, SnapTypeOK, SnapInv, SnapOf, IsOpen, Now, Keeps
    <3>4. AnswersFaithful'
      BY <3>1 DEF IInv, TypeOK, SnapTypeOK, AnswersFaithful, IsOpen
    <3> QED BY <3>2, <3>3, <3>4
  <2> QED BY <2>3, <2>4
<1> QED BY <1>1, <1>2, <1>3, <1>4, <1>5 DEF IInv, TypeOK

LEMMA KeepStep ==
    ASSUME IInv, NEW t \in Threads, Keep(t)
    PROVE  IInv'
<1> USE DEF fileVars, writerVars, keptVars, snapVars, ownVars
<1>1. FileTypeOK' /\ LooksInv' /\ Grows
  BY QuietGrows DEF IInv, TypeOK, Keep
<1>2. OwnTypeOK' /\ WriteInv'
  BY <1>1, WriteStable DEF Keep
<1> DEFINE k == asking[t]
           a == Answer(k, Reads(t))
           v == [label |-> label[t], answer |-> a]
<1>6. IsOpen(t) /\ asks' \in [Threads -> Nat] /\ k \in Kinds
  BY DEF IInv, TypeOK, SnapTypeOK, SnapInv, SnapOf, IsOpen, Keep
<1>7. a = Answer(k, history[pinned[t]]) /\ kept' = [kept EXCEPT ![k] = v]
  BY DEF Reads, Keep
<1>8. label[t] \in 1..Len(looks) /\ pinned[t] = looks[label[t]] /\ pinned[t] \in 1..Now
  BY <1>6, OpenStable, <1>1
<1>9. v \in KeptType(k)
  <2>1. a \in Answers(k)
    BY <1>6, <1>7, <1>8, AnswerType
       DEF IInv, TypeOK, FileTypeOK, SnapInv, SnapOf, Keep, Now
  <2>2. label[t] \in Nat \ {0}
    BY <1>8 DEF IInv, TypeOK, FileTypeOK
  <2> QED BY <2>1, <2>2 DEF KeptType
<1>3. KeptTypeOK' /\ KeptInv'
  <2>1. KeptTypeOK'
    BY <1>6, <1>7, <1>9 DEF IInv, TypeOK, KeptTypeOK
  <2>2. UNCHANGED <<looks, history, captured, stage, todo, found>>
    BY DEF Keep
  <2>3. Faithful(k, v)
    BY <1>7, <1>8 DEF Faithful
  <2>4. \A j \in Kinds : Faithful(j, kept'[j])
    BY <1>6, <1>7, <2>3 DEF IInv, TypeOK, KeptTypeOK, KeptInv
  <2> QED BY <2>1, <2>2, <2>4 DEF IInv, KeptInv, Faithful, First
<1>4. LockTypeOK'
  BY <1>6 DEF IInv, TypeOK, LockTypeOK, Keep
<1>5. SnapTypeOK' /\ AnswersTypeOK' /\ SnapInv' /\ AnswersFaithful'
  BY <1>6, <1>7, AnsweredFacts DEF Keep
<1> QED BY <1>1, <1>2, <1>3, <1>4, <1>5 DEF IInv, TypeOK

-----------------------------------------------------------------------------
(* The steps of an own write.                                              *)

\* The writing connection's version after one look: unmoved, it had met the
\* newest state already.
LEMMA VersionFacts ==
    ASSUME IInv
    PROVE  /\ VersionNow \in Nat /\ VersionNow >= version /\ version \in Nat
           /\ VersionNow = version => seen = Now
           /\ Now \in Nat /\ Now >= 1 /\ seen \in 1..Now
BY DEF IInv, TypeOK, FileTypeOK, OwnTypeOK, WriteInv, VersionNow, Now

\* A write that ends leaves nothing to prove of it but what was seen.
LEMMA EndsFacts ==
    ASSUME IInv, FileTypeOK', Grows, Ends, UNCHANGED since,
           version' \in Nat, version' >= version, seen' \in 1..Now'
    PROVE  OwnTypeOK' /\ WriteInv'
<1>1. OwnTypeOK'
  <2>1. seen' \in Nat
    OBVIOUS
  <2>2. since' \in [outside : Nat, label : Nat]
    BY DEF IInv, TypeOK, OwnTypeOK
  <2> QED BY <2>1, <2>2 DEF OwnTypeOK, Ends, Stages
<1>2. since'.outside <= version'
  BY DEF IInv, TypeOK, OwnTypeOK, WriteInv
<1>3. stage' = "idle"
  BY DEF Ends
<1> QED BY <1>1, <1>2, <1>3 DEF WriteInv

LEMMA StartAddStep ==
    ASSUME IInv, NEW t \in Threads, StartAdd(t)
    PROVE  IInv'
<1> USE DEF fileVars, writerVars, keptVars, ownVars
<1>1. FileTypeOK' /\ LooksInv' /\ Grows
  BY QuietGrows DEF IInv, TypeOK, StartAdd
<1>2. SnapTypeOK' /\ AnswersTypeOK' /\ SnapInv' /\ AnswersFaithful'
  BY <1>1, SnapStable DEF StartAdd
<1>3. KeptTypeOK' /\ KeptInv'
  BY <1>1, KeptStable DEF StartAdd, snapVars
<1>4. LockTypeOK' /\ OwnTypeOK'
  BY OpsAssumption DEF IInv, TypeOK, LockTypeOK, OwnTypeOK, StartAdd, Stages, AllOps
<1>5. WriteInv'
  BY DEF IInv, WriteInv, Now, StartAdd
<1> QED BY <1>1, <1>2, <1>3, <1>4, <1>5 DEF IInv, TypeOK

LEMMA StartCheckedStep ==
    ASSUME IInv, NEW t \in Threads, StartChecked(t)
    PROVE  IInv'
<1> USE DEF fileVars, writerVars, keptVars, ownVars
<1>1. FileTypeOK' /\ LooksInv' /\ Grows
  BY QuietGrows DEF IInv, TypeOK, StartChecked
<1>2. SnapTypeOK' /\ AnswersTypeOK' /\ SnapInv' /\ AnswersFaithful'
  BY <1>1, SnapStable DEF StartChecked
<1>3. KeptTypeOK' /\ KeptInv'
  BY <1>1, KeptStable DEF StartChecked, snapVars
<1>4. LockTypeOK' /\ OwnTypeOK'
  BY VersionFacts DEF IInv, TypeOK, LockTypeOK, OwnTypeOK, StartChecked, Stages, AllOps
<1>5. WriteInv'
  BY VersionFacts DEF IInv, TypeOK, OwnTypeOK, WriteInv, Now, StartChecked
<1> QED BY <1>1, <1>2, <1>3, <1>4, <1>5 DEF IInv, TypeOK

LEMMA AcceptStep ==
    ASSUME IInv, NEW t \in Threads, Accept(t)
    PROVE  IInv'
<1> USE DEF fileVars, writerVars, keptVars, ownVars
<1>1. FileTypeOK' /\ LooksInv' /\ Grows
  BY QuietGrows DEF IInv, TypeOK, Accept
<1>2. SnapTypeOK' /\ AnswersTypeOK' /\ SnapInv' /\ AnswersFaithful'
  BY <1>1, SnapStable DEF Accept
<1>3. KeptTypeOK' /\ KeptInv'
  BY <1>1, KeptStable DEF Accept, snapVars
<1>4. LockTypeOK' /\ OwnTypeOK'
  BY DEF IInv, TypeOK, LockTypeOK, OwnTypeOK, Accept, Stages
<1>5. WriteInv'
  BY DEF IInv, WriteInv, Now, Holds, Accept
<1> QED BY <1>1, <1>2, <1>3, <1>4, <1>5 DEF IInv, TypeOK

LEMMA RejectStep ==
    ASSUME IInv, NEW t \in Threads, Reject(t)
    PROVE  IInv'
<1> USE DEF fileVars, writerVars, keptVars, ownVars
<1>1. FileTypeOK' /\ LooksInv' /\ Grows
  BY QuietGrows DEF IInv, TypeOK, Reject
<1>2. SnapTypeOK' /\ AnswersTypeOK' /\ SnapInv' /\ AnswersFaithful'
  BY <1>1, SnapStable DEF Reject
<1>3. KeptTypeOK' /\ KeptInv'
  BY <1>1, KeptStable DEF Reject, Ends, snapVars
<1>4. LockTypeOK'
  BY DEF IInv, TypeOK, LockTypeOK, Reject, Ends
<1>5. OwnTypeOK' /\ WriteInv'
  BY <1>1, EndsFacts, VersionFacts DEF Reject, Now
<1> QED BY <1>1, <1>2, <1>3, <1>4, <1>5 DEF IInv, TypeOK

LEMMA BeforeLabelStep ==
    ASSUME IInv, NEW t \in Threads, BeforeLabel(t)
    PROVE  IInv'
<1> USE DEF fileVars, writerVars, keptVars, ownVars
<1>1. FileTypeOK' /\ LooksInv' /\ Grows /\ looks'[Len(looks')] = Now
  BY LookGrows DEF IInv, TypeOK, BeforeLabel
<1>2. SnapTypeOK' /\ AnswersTypeOK' /\ SnapInv' /\ AnswersFaithful'
  BY <1>1, SnapStable DEF BeforeLabel
<1>3. KeptTypeOK' /\ KeptInv'
  BY <1>1, KeptStable DEF BeforeLabel, snapVars
<1>6. Len(looks') \in Nat /\ Len(looks') >= 1 /\ looks' = Looked
  BY <1>1 DEF FileTypeOK, BeforeLabel
<1>4. LockTypeOK' /\ OwnTypeOK'
  BY <1>6 DEF IInv, TypeOK, LockTypeOK, OwnTypeOK, BeforeLabel, Stages
<1>5. WriteInv'
  <2>1. CASE since.label = Len(Looked)
    BY <1>1, <1>6, <2>1, VersionFacts DEF IInv, WriteInv, Now, Holds, BeforeLabel
  <2>2. CASE since.label # Len(Looked)
    BY <2>2, VersionFacts DEF IInv, WriteInv, Now, Holds, BeforeLabel
  <2> QED BY <2>1, <2>2
<1> QED BY <1>1, <1>2, <1>3, <1>4, <1>5 DEF IInv, TypeOK

LEMMA BeforeVersionStep ==
    ASSUME IInv, NEW t \in Threads, BeforeVersion(t)
    PROVE  IInv'
<1> USE DEF fileVars, writerVars, keptVars, ownVars
<1>1. FileTypeOK' /\ LooksInv' /\ Grows
  BY QuietGrows DEF IInv, TypeOK, BeforeVersion
<1>2. SnapTypeOK' /\ AnswersTypeOK' /\ SnapInv' /\ AnswersFaithful'
  BY <1>1, SnapStable DEF BeforeVersion
<1>3. KeptTypeOK' /\ KeptInv'
  BY <1>1, KeptStable DEF BeforeVersion, snapVars
<1>4. LockTypeOK' /\ OwnTypeOK'
  BY VersionFacts DEF IInv, TypeOK, LockTypeOK, OwnTypeOK, BeforeVersion, Stages
<1>5. WriteInv'
  BY VersionFacts DEF IInv, TypeOK, OwnTypeOK, WriteInv, Now, Holds, BeforeVersion
<1> QED BY <1>1, <1>2, <1>3, <1>4, <1>5 DEF IInv, TypeOK

LEMMA BeforeLabelAgainStep ==
    ASSUME IInv, NEW t \in Threads, BeforeLabelAgain(t)
    PROVE  IInv'
<1> USE DEF fileVars, writerVars, keptVars, ownVars
<1>1. FileTypeOK' /\ LooksInv' /\ Grows /\ looks'[Len(looks')] = Now
  BY LookGrows DEF IInv, TypeOK, BeforeLabelAgain
<1>2. SnapTypeOK' /\ AnswersTypeOK' /\ SnapInv' /\ AnswersFaithful'
  BY <1>1, SnapStable DEF BeforeLabelAgain
<1>3. KeptTypeOK' /\ KeptInv'
  BY <1>1, KeptStable DEF BeforeLabelAgain, snapVars
<1>6. Len(looks') \in Nat /\ Len(looks') >= 1 /\ looks' = Looked
  BY <1>1 DEF FileTypeOK, BeforeLabelAgain
<1>4. LockTypeOK' /\ OwnTypeOK'
  BY <1>6 DEF IInv, TypeOK, LockTypeOK, OwnTypeOK, BeforeLabelAgain, Stages
<1>5. WriteInv'
  BY <1>1, <1>6, VersionFacts
     DEF IInv, TypeOK, OwnTypeOK, WriteInv, Now, Holds, BeforeLabelAgain
<1> QED BY <1>1, <1>2, <1>3, <1>4, <1>5 DEF IInv, TypeOK

LEMMA CommitStep ==
    ASSUME IInv, NEW t \in Threads, Commit(t)
    PROVE  IInv'
<1> USE DEF fileVars, writerVars, keptVars, ownVars
<1> DEFINE s == Written(op, history[Now], Now + 1)
<1>0. /\ op \in {"entry", "flight", "aircraft"} /\ before.label \in 1..Len(looks)
      /\ before.outside <= version
      /\ before.outside = version => seen <= looks[before.label]
      /\ looks[before.label] \in 1..Now
  BY DEF IInv, WriteInv, LooksInv, Holds, Commit
<1>1. s \in State /\ history' = Append(history, s)
  <2>1. history[Now] \in State /\ Now + 1 \in Nat
    BY VersionFacts DEF IInv, TypeOK, FileTypeOK, Now
  <2> QED BY <1>0, <2>1, WrittenType DEF Commit, AllOps
<1>2. FileTypeOK' /\ LooksInv' /\ Grows
  BY <1>1, CommitGrows DEF IInv, TypeOK, Commit
<1>3. Now' = Now + 1 /\ history'[Now + 1] = s /\ history'[Now] = history[Now]
  <2> HIDE DEF s
  <2>1. FileTypeOK /\ Now \in 1..Now
    BY VersionFacts DEF IInv, TypeOK
  <2>2. Now' = Now + 1 /\ history'[Now + 1] = s /\ \A i \in 1..Now : history'[i] = history[i]
    BY <1>1, <2>1, CommitFacts
  <2> QED BY <2>1, <2>2
<1>4. SnapTypeOK' /\ AnswersTypeOK' /\ SnapInv' /\ AnswersFaithful'
  BY <1>2, SnapStable DEF Commit
<1>5. KeptTypeOK' /\ KeptInv'
  BY <1>2, KeptStable DEF Commit, snapVars
<1>6. LockTypeOK' /\ OwnTypeOK'
  BY VersionFacts DEF IInv, TypeOK, LockTypeOK, OwnTypeOK, Commit, Stages
<1>7. WriteInv'
  <2>1. seen' = Now + 1 /\ version' = VersionNow /\ stage' = "committed"
    BY DEF Commit
  <2>2. MadeBy(seen)'
    <3>1. Now + 1 \in 2..Now' /\ (Now + 1) - 1 = Now
      BY <1>3, VersionFacts
    <3>2. history'[Now + 1] = Written(op, history'[(Now + 1) - 1], Now + 1)
      BY <1>3, <3>1
    <3>3. op' = op /\ head' = IF Linked(op) THEN Now + 1 ELSE 0
      BY DEF Commit
    <3> QED BY <1>0, <2>1, <3>1, <3>2, <3>3 DEF MadeBy
  <2>3. (before.outside = version => looks[before.label] = seen - 1)'
    <3> SUFFICES ASSUME before.outside = VersionNow
        PROVE  looks[before.label] = Now
      BY <2>1, VersionFacts DEF Commit
    <3>1. version = VersionNow /\ seen = Now
      BY <1>0, VersionFacts DEF IInv, TypeOK, OwnTypeOK
    <3> QED BY <1>0, <3>1, VersionFacts
  <2>4. (since.outside <= version)' /\ (before.outside <= version)'
    BY <1>0, <2>1, VersionFacts DEF IInv, TypeOK, OwnTypeOK, WriteInv, Commit
  <2>5. (seen \in 1..Now)' /\ (before.label \in 1..Len(looks))'
    BY <1>0, <1>3, <2>1, VersionFacts DEF Commit
  <2> QED BY <2>1, <2>2, <2>3, <2>4, <2>5 DEF WriteInv
<1> QED BY <1>2, <1>4, <1>5, <1>6, <1>7 DEF IInv, TypeOK

LEMMA RefuseStep ==
    ASSUME IInv, NEW t \in Threads, Refuse(t)
    PROVE  IInv'
<1> USE DEF fileVars, writerVars, keptVars, ownVars
<1>1. FileTypeOK' /\ LooksInv' /\ Grows
  BY QuietGrows DEF IInv, TypeOK, Refuse
<1>2. SnapTypeOK' /\ AnswersTypeOK' /\ SnapInv' /\ AnswersFaithful'
  BY <1>1, SnapStable DEF Refuse
<1>3. KeptTypeOK' /\ KeptInv'
  BY <1>1, KeptStable DEF Refuse, Ends, snapVars
<1>4. LockTypeOK'
  BY DEF IInv, TypeOK, LockTypeOK, Refuse, Ends
<1>5. OwnTypeOK' /\ WriteInv'
  BY <1>1, EndsFacts, VersionFacts DEF Refuse, Now
<1> QED BY <1>1, <1>2, <1>3, <1>4, <1>5 DEF IInv, TypeOK

LEMMA AfterLabelStep ==
    ASSUME IInv, NEW t \in Threads, AfterLabel(t)
    PROVE  IInv'
<1> USE DEF fileVars, writerVars, keptVars, ownVars
<1>1. FileTypeOK' /\ LooksInv' /\ Grows /\ looks'[Len(looks')] = Now
  BY LookGrows DEF IInv, TypeOK, AfterLabel
<1>2. SnapTypeOK' /\ AnswersTypeOK' /\ SnapInv' /\ AnswersFaithful'
  BY <1>1, SnapStable DEF AfterLabel
<1>3. KeptTypeOK' /\ KeptInv'
  BY <1>1, KeptStable DEF AfterLabel, snapVars
<1>6. Len(looks') \in Nat /\ Len(looks') >= 1 /\ looks' = Looked /\ Len(looks) \in Nat
  BY <1>1 DEF IInv, TypeOK, FileTypeOK, AfterLabel
<1>4. LockTypeOK' /\ OwnTypeOK'
  BY <1>6 DEF IInv, TypeOK, LockTypeOK, OwnTypeOK, AfterLabel, Stages
<1>5. WriteInv'
  <2>1. /\ before.label \in 1..Len(looks) /\ looks'[before.label] = looks[before.label]
        /\ before.label \in 1..Len(looks')
    BY <1>1, <1>6 DEF IInv, WriteInv, Holds, AfterLabel, Grows
  <2>2. MadeBy(seen)'
    BY DEF IInv, WriteInv, MadeBy, Holds, AfterLabel, Now
  <2>3. after' \in 1..Len(looks') /\ looks'[after'] >= seen
    BY <1>1, <1>6, VersionFacts DEF AfterLabel
  <2> QED BY <2>1, <2>2, <2>3 DEF IInv, WriteInv, Holds, AfterLabel, Now
<1> QED BY <1>1, <1>2, <1>3, <1>4, <1>5 DEF IInv, TypeOK

LEMMA AfterVersionStep ==
    ASSUME IInv, NEW t \in Threads, AfterVersion(t)
    PROVE  IInv'
<1> USE DEF fileVars, writerVars, keptVars, ownVars
<1>1. FileTypeOK' /\ LooksInv' /\ Grows
  BY QuietGrows DEF IInv, TypeOK, AfterVersion
<1>2. SnapTypeOK' /\ AnswersTypeOK' /\ SnapInv' /\ AnswersFaithful'
  BY <1>1, SnapStable DEF AfterVersion
<1>3. KeptTypeOK' /\ KeptInv'
  BY <1>1, KeptStable DEF AfterVersion, snapVars
<1>4. LockTypeOK' /\ OwnTypeOK'
  BY VersionFacts DEF IInv, TypeOK, LockTypeOK, OwnTypeOK, AfterVersion, Stages
<1>5. WriteInv'
  <2>1. /\ before.label \in 1..Len(looks) /\ after \in 1..Len(looks)
        /\ looks[after] \in 1..Now /\ looks[after] >= seen
        /\ before.outside <= version /\ MadeBy(seen)
        /\ before.outside = version => looks[before.label] = seen - 1
    BY DEF IInv, WriteInv, LooksInv, Holds, AfterVersion
  <2>2. exact' => looks[after] = seen /\ looks[before.label] = seen - 1
    <3>1. exact' <=> VersionNow = before.outside
      BY Zenon DEF AfterVersion
    <3>2. VersionNow = before.outside => version = before.outside /\ seen = Now
      BY <2>1, VersionFacts DEF IInv, TypeOK, OwnTypeOK
    <3>3. seen = Now => looks[after] = seen
      BY <2>1, VersionFacts
    <3> QED BY <2>1, <3>1, <3>2, <3>3
  <2>3. exact' => MadeBy(looks[after])'
    <3> SUFFICES ASSUME exact' PROVE MadeBy(looks[after])'
      OBVIOUS
    <3>1. MadeBy(looks[after]) /\ UNCHANGED <<looks, after, history, op, head>>
      BY <2>1, <2>2 DEF AfterVersion
    <3> QED BY <3>1 DEF MadeBy, Now
  <2>4. /\ stage' = "moving" /\ since'.outside = version' /\ version' \in Nat
        /\ seen' \in 1..Now' /\ UNCHANGED <<looks, before, after>>
    BY VersionFacts DEF AfterVersion, Now
  <2> QED BY <2>1, <2>2, <2>3, <2>4 DEF WriteInv
<1> QED BY <1>1, <1>2, <1>3, <1>4, <1>5 DEF IInv, TypeOK

LEMMA MoveFindStep ==
    ASSUME IInv, NEW t \in Threads, MoveFind(t)
    PROVE  IInv'
<1> USE DEF fileVars, writerVars, keptVars, ownVars
<1>1. FileTypeOK' /\ LooksInv' /\ Grows
  BY QuietGrows DEF IInv, TypeOK, MoveFind
<1>2. SnapTypeOK' /\ AnswersTypeOK' /\ SnapInv' /\ AnswersFaithful'
  BY <1>1, SnapStable DEF MoveFind
<1>6. First(todo) \in Kinds /\ found' = kept[First(todo)] /\ todo' = todo
  BY FirstIn DEF IInv, TypeOK, OwnTypeOK, MoveFind
<1>3. KeptTypeOK' /\ KeptInv'
  BY <1>6 DEF IInv, TypeOK, KeptTypeOK, KeptInv, Faithful, MoveFind, snapVars, First
<1>4. LockTypeOK'
  BY DEF IInv, TypeOK, LockTypeOK, MoveFind
<1>5. OwnTypeOK'
  <2>1. found' \in KeptType(First(todo))
    BY <1>6 DEF IInv, TypeOK, KeptTypeOK
  <2>2. First(todo)' = First(todo) /\ KeptType(First(todo))' = KeptType(First(todo))
    BY <1>6 DEF First, KeptType, Answers
  <2> QED BY <1>6, <2>1, <2>2 DEF IInv, TypeOK, OwnTypeOK, MoveFind, Stages
<1>7. WriteInv'
  BY DEF IInv, WriteInv, MadeBy, Now, Holds, MoveFind
<1> QED BY <1>1, <1>2, <1>3, <1>4, <1>5, <1>7 DEF IInv, TypeOK

LEMMA MoveOnStep ==
    ASSUME IInv, NEW t \in Threads, MoveOn(t)
    PROVE  IInv'
<1> USE DEF fileVars, writerVars, keptVars, ownVars
<1> DEFINE k == First(todo)
           w == [label |-> after, answer |-> MovedAnswer(k, found.answer)]
           v == IF Movable(k, found) THEN w ELSE NotKept
<1>1. FileTypeOK' /\ LooksInv' /\ Grows
  BY QuietGrows DEF IInv, TypeOK, MoveOn
<1>2. SnapTypeOK' /\ AnswersTypeOK' /\ SnapInv' /\ AnswersFaithful'
  BY <1>1, SnapStable DEF MoveOn
<1>3. k \in Kinds /\ todo # {} /\ found \in KeptType(k) /\ Faithful(k, found)
  BY FirstIn DEF IInv, TypeOK, OwnTypeOK, KeptInv, Holds, MoveOn
<1>4. v \in KeptType(k) /\ Faithful(k, v)
  <2>1. CASE ~Movable(k, found)
    BY <2>1 DEF KeptType, NotKept, Faithful
  <2>2. CASE Movable(k, found)
    <3> DEFINE n == looks[after]
               s == history[n - 1]
    <3>1. /\ exact /\ found.label = before.label /\ stage = "found"
      BY <2>2 DEF Movable, Holds, MoveOn
    <3>2. /\ after \in 1..Len(looks) /\ before.label \in 1..Len(looks)
          /\ looks[before.label] = n - 1 /\ MadeBy(n)
      BY <3>1 DEF IInv, WriteInv
    <3>3. n \in 2..Now /\ Len(looks) \in Nat /\ Now \in Nat
      BY <3>2, VersionFacts DEF MadeBy, IInv, TypeOK, FileTypeOK
    <3>4. s \in State /\ n \in Nat \ {0}
      BY <3>3 DEF IInv, TypeOK, FileTypeOK, Now
    <3>5. found.answer = Answer(k, s) /\ found.label # 0
      BY <1>3, <3>1, <3>2 DEF Faithful
    <3>6. /\ op \in {"entry", "flight", "aircraft"}
          /\ head = IF Linked(op) THEN n ELSE 0
          /\ history[n] = Written(op, s, n)
      BY <3>2 DEF MadeBy
    <3>7. MovedAnswer(k, found.answer) = Answer(k, history[n])
      <4> HIDE DEF n, s
      <4> QED BY <1>3, <2>2, <3>4, <3>5, <3>6, MovedFacts
    <3>8. w.answer = Answer(k, history[looks[after]]) /\ w.label = after /\ v = w
      BY <2>2, <3>7
    <3>9. Faithful(k, v)
      BY <3>2, <3>8 DEF Faithful
    <3>10. MovedAnswer(k, found.answer) \in Answers(k)
      <4>1. found.answer \in Answers(k)
        BY <1>3, <3>5 DEF KeptType
      <4>2. head \in Nat
        BY DEF IInv, TypeOK, OwnTypeOK
      <4>3. CASE k = "journal" /\ head # 0
        BY <4>1, <4>2, <4>3 DEF MovedAnswer, Answers, Verification
      <4>4. CASE ~(k = "journal" /\ head # 0)
        BY <4>1, <4>4 DEF MovedAnswer
      <4> HIDE DEF k
      <4> QED BY <4>3, <4>4
    <3>11. after \in Nat \ {0}
      BY <3>2, <3>3
    <3> QED BY <3>8, <3>9, <3>10, <3>11 DEF KeptType
  <2> QED BY <2>1, <2>2
<1>5. KeptTypeOK' /\ KeptInv'
  <2>1. kept' = [kept EXCEPT ![k] = v] /\ UNCHANGED <<looks, history, captured>>
    BY DEF MoveOn, snapVars
  <2>2. stage' = "moving"
    BY DEF MoveOn
  <2> HIDE DEF k, v
  <2>3. KeptTypeOK'
    BY <1>3, <1>4, <2>1 DEF IInv, TypeOK, KeptTypeOK
  <2>4. \A j \in Kinds : Faithful(j, kept'[j])
    BY <1>3, <1>4, <2>1 DEF IInv, TypeOK, KeptTypeOK, KeptInv
  <2> QED BY <2>1, <2>2, <2>3, <2>4 DEF IInv, KeptInv, Faithful
<1>6. LockTypeOK' /\ OwnTypeOK'
  BY DEF IInv, TypeOK, LockTypeOK, OwnTypeOK, MoveOn, Stages
<1>7. WriteInv'
  BY DEF IInv, WriteInv, MadeBy, Now, Holds, MoveOn
<1> QED BY <1>1, <1>2, <1>5, <1>6, <1>7 DEF IInv, TypeOK

LEMMA EndWriteStep ==
    ASSUME IInv, NEW t \in Threads, EndWrite(t)
    PROVE  IInv'
<1> USE DEF fileVars, writerVars, keptVars, ownVars
<1>1. FileTypeOK' /\ LooksInv' /\ Grows
  BY QuietGrows DEF IInv, TypeOK, EndWrite
<1>2. SnapTypeOK' /\ AnswersTypeOK' /\ SnapInv' /\ AnswersFaithful'
  BY <1>1, SnapStable DEF EndWrite
<1>3. KeptTypeOK' /\ KeptInv'
  BY <1>1, KeptStable DEF EndWrite, Ends, snapVars
<1>4. LockTypeOK'
  BY DEF IInv, TypeOK, LockTypeOK, EndWrite, Ends
<1>5. OwnTypeOK' /\ WriteInv'
  BY <1>1, EndsFacts, VersionFacts DEF EndWrite, Now
<1> QED BY <1>1, <1>2, <1>3, <1>4, <1>5 DEF IInv, TypeOK

LEMMA StartBatchStep ==
    ASSUME IInv, NEW t \in Threads, StartBatch(t)
    PROVE  IInv'
<1> USE DEF fileVars, writerVars, keptVars, ownVars
<1>1. FileTypeOK' /\ LooksInv' /\ Grows
  BY LookGrows DEF IInv, TypeOK, StartBatch
<1>2. SnapTypeOK' /\ AnswersTypeOK' /\ SnapInv' /\ AnswersFaithful'
  BY <1>1, SnapStable DEF StartBatch
<1>3. KeptTypeOK' /\ KeptInv'
  BY <1>1, KeptStable DEF StartBatch, snapVars
<1>4. LockTypeOK' /\ OwnTypeOK'
  BY VersionFacts DEF IInv, TypeOK, LockTypeOK, OwnTypeOK, StartBatch, Stages, AllOps
<1>5. WriteInv'
  BY VersionFacts DEF IInv, TypeOK, OwnTypeOK, WriteInv, Now, StartBatch
<1> QED BY <1>1, <1>2, <1>3, <1>4, <1>5 DEF IInv, TypeOK

\* The steps of a batch that ends and drops what is kept leave no claim about it.
LEMMA DroppingFacts ==
    ASSUME IInv, FileTypeOK', stage' = "dropping", todo' \subseteq Kinds,
           UNCHANGED <<version, since, op, before, head, after, exact>>,
           seen' \in 1..Now'
    PROVE  OwnTypeOK' /\ WriteInv'
<1>1. seen' \in Nat
  OBVIOUS
<1>2. OwnTypeOK'
  BY <1>1 DEF IInv, TypeOK, OwnTypeOK, Stages
<1> QED BY <1>2 DEF IInv, WriteInv

LEMMA EndBatchStep ==
    ASSUME IInv, NEW t \in Threads, EndBatch(t)
    PROVE  IInv'
<1> USE DEF fileVars, writerVars, keptVars, ownVars
<1>1. FileTypeOK' /\ LooksInv' /\ Grows /\ seen' \in 1..Now'
  <2>1. CASE UNCHANGED <<history, seen>>
    BY <2>1, QuietGrows, VersionFacts DEF IInv, TypeOK, EndBatch, Now
  <2>2. CASE history' = Append(history, Written(op, history[Now], Now + 1)) /\ seen' = Now + 1
    <3> DEFINE s == Written(op, history[Now], Now + 1)
    <3>1. op \in AllOps \cup {"none"} /\ history[Now] \in State /\ Now + 1 \in Nat
      BY VersionFacts DEF IInv, TypeOK, FileTypeOK, OwnTypeOK, Now
    <3>2. s \in State
      BY <3>1 DEF Written, State, Linked, WritesEntry
    <3> HIDE DEF s
    <3>3. history' = Append(history, s) /\ UNCHANGED looks
      BY <2>2 DEF EndBatch, s
    <3>4. Now' = Now + 1
      BY <3>2, <3>3, CommitFacts DEF IInv, TypeOK
    <3>5. FileTypeOK' /\ LooksInv' /\ Grows
      BY <3>2, <3>3, CommitGrows DEF IInv, TypeOK
    <3> QED BY <2>2, <3>4, <3>5, VersionFacts
  <2> QED BY <2>1, <2>2 DEF EndBatch
<1>2. SnapTypeOK' /\ AnswersTypeOK' /\ SnapInv' /\ AnswersFaithful'
  BY <1>1, SnapStable DEF EndBatch
<1>3. KeptTypeOK' /\ KeptInv'
  BY <1>1, KeptStable DEF EndBatch, snapVars
<1>4. LockTypeOK'
  BY DEF IInv, TypeOK, LockTypeOK, EndBatch
<1>5. OwnTypeOK' /\ WriteInv'
  BY <1>1, DroppingFacts DEF EndBatch
<1> QED BY <1>1, <1>2, <1>3, <1>4, <1>5 DEF IInv, TypeOK

LEMMA DropStep ==
    ASSUME IInv, NEW t \in Threads, Drop(t)
    PROVE  IInv'
<1> USE DEF fileVars, writerVars, keptVars, ownVars
<1>1. FileTypeOK' /\ LooksInv' /\ Grows
  BY QuietGrows DEF IInv, TypeOK, Drop
<1>2. SnapTypeOK' /\ AnswersTypeOK' /\ SnapInv' /\ AnswersFaithful'
  BY <1>1, SnapStable DEF Drop
<1>3. KeptTypeOK' /\ KeptInv'
  BY DEF IInv, TypeOK, KeptTypeOK, KeptType, KeptInv, Faithful, NotKept, Holds, Drop, snapVars
<1>4. LockTypeOK'
  BY DEF IInv, TypeOK, LockTypeOK, Drop
<1>5. OwnTypeOK' /\ WriteInv'
  <2>1. todo' \subseteq Kinds /\ stage' = "dropping" /\ seen' \in 1..Now'
    BY VersionFacts DEF IInv, TypeOK, OwnTypeOK, Holds, Drop, Now
  <2> QED BY <1>1, <2>1, DroppingFacts DEF Drop
<1> QED BY <1>1, <1>2, <1>3, <1>4, <1>5 DEF IInv, TypeOK

-----------------------------------------------------------------------------
(* The steps of the other connections.                                     *)

LEMMA OtherWritesStep ==
    ASSUME IInv, OtherWrites
    PROVE  IInv'
<1> USE DEF fileVars, writerVars, keptVars
<1>1. PICK s \in State : history' = Append(history, s)
  <2>1. history[Now] \in State /\ Now + 1 \in Nat
    BY VersionFacts DEF IInv, TypeOK, FileTypeOK, Now
  <2>2. PICK o \in {"entry", "flight"} :
            history' = Append(history, Written(o, history[Now], Now + 1))
    BY DEF OtherWrites
  <2>3. Written(o, history[Now], Now + 1) \in State
    BY <2>1, WrittenType DEF AllOps
  <2> QED BY <2>2, <2>3
<1>2. FileTypeOK' /\ LooksInv' /\ Grows
  BY <1>1, CommitGrows DEF IInv, TypeOK, OtherWrites
<1>3. SnapTypeOK' /\ AnswersTypeOK' /\ SnapInv' /\ AnswersFaithful'
  BY <1>2, SnapStable DEF OtherWrites
<1>4. KeptTypeOK' /\ KeptInv'
  BY <1>2, KeptStable DEF OtherWrites, snapVars, ownVars
<1>5. OwnTypeOK' /\ WriteInv'
  BY <1>2, WriteStable DEF OtherWrites
<1>6. LockTypeOK'
  BY DEF IInv, TypeOK, LockTypeOK, OtherWrites, ownVars
<1> QED BY <1>2, <1>3, <1>4, <1>5, <1>6 DEF IInv, TypeOK

LEMMA OtherEditsStep ==
    ASSUME IInv, OtherEdits
    PROVE  IInv'
<1> USE DEF fileVars, writerVars, keptVars
<1>1. PICK s \in State : history' = Append(history, s)
  <2>1. history[Now] \in State /\ Now + 1 \in Nat
    BY VersionFacts DEF IInv, TypeOK, FileTypeOK, Now
  <2>2. PICK broken \in BOOLEAN, bad \in SUBSET Spoilable :
            history' = Append(history, Edited(history[Now], Now + 1, broken, bad))
    BY DEF OtherEdits
  <2>3. Edited(history[Now], Now + 1, broken, bad) \in State
    BY <2>1, EditedType
  <2> QED BY <2>2, <2>3
<1>2. FileTypeOK' /\ LooksInv' /\ Grows
  BY <1>1, CommitGrows DEF IInv, TypeOK, OtherEdits
<1>3. SnapTypeOK' /\ AnswersTypeOK' /\ SnapInv' /\ AnswersFaithful'
  BY <1>2, SnapStable DEF OtherEdits
<1>4. KeptTypeOK' /\ KeptInv'
  BY <1>2, KeptStable DEF OtherEdits, snapVars, ownVars
<1>5. OwnTypeOK' /\ WriteInv'
  BY <1>2, WriteStable DEF OtherEdits
<1>6. LockTypeOK'
  BY DEF IInv, TypeOK, LockTypeOK, OtherEdits, ownVars
<1> QED BY <1>2, <1>3, <1>4, <1>5, <1>6 DEF IInv, TypeOK

-----------------------------------------------------------------------------
(* The theorems.                                                           *)

\* The store opens with nothing kept and no snapshot.
LEMMA InitStep == Init => IInv
<1> SUFFICES ASSUME Init PROVE IInv
  OBVIOUS
<1>1. EmptyStore \in State
  BY DEF EmptyStore, State
<1>2. FileTypeOK /\ Now = 1 /\ Len(looks) = 1 /\ looks[1] = 1
  BY <1>1 DEF Init, FileTypeOK, Now
<1>3. LockTypeOK /\ KeptTypeOK /\ SnapTypeOK
  BY DEF Init, LockTypeOK, KeptTypeOK, KeptType, NotKept, SnapTypeOK, Places
<1>4. AnswersTypeOK
  BY DEF Init, AnswersTypeOK, KeptType, NotKept
<1>5. OwnTypeOK
  BY DEF Init, OwnTypeOK, Stages, AllOps
<1>6. LooksInv /\ SnapInv /\ WriteInv
  BY <1>2 DEF Init, LooksInv, SnapInv, SnapOf, IsOpen, WriteInv
<1>7. KeptInv /\ AnswersFaithful
  BY DEF Init, KeptInv, Faithful, NotKept, AnswersFaithful
<1> QED BY <1>2, <1>3, <1>4, <1>5, <1>6, <1>7 DEF IInv, TypeOK

LEMMA StutterStep ==
    ASSUME IInv, UNCHANGED vars
    PROVE  IInv'
<1> USE DEF vars, fileVars, writerVars, keptVars
<1>1. FileTypeOK' /\ LooksInv' /\ Grows
  BY QuietGrows DEF IInv, TypeOK
<1>2. SnapTypeOK' /\ AnswersTypeOK' /\ SnapInv' /\ AnswersFaithful'
  BY <1>1, SnapStable
<1>3. KeptTypeOK' /\ KeptInv'
  BY <1>1, KeptStable DEF snapVars, ownVars
<1>4. OwnTypeOK' /\ WriteInv'
  BY <1>1, WriteStable
<1>5. LockTypeOK'
  BY DEF IInv, TypeOK, LockTypeOK, ownVars
<1> QED BY <1>1, <1>2, <1>3, <1>4, <1>5 DEF IInv, TypeOK

\* Every step of every thread and of every other connection keeps the invariant.
LEMMA NextStep == IInv /\ [Next]_vars => IInv'
<1> SUFFICES ASSUME IInv, [Next]_vars PROVE IInv'
  OBVIOUS
<1>1. CASE UNCHANGED vars
  BY <1>1, StutterStep
<1>2. CASE OtherWrites \/ OtherEdits
  BY <1>2, OtherWritesStep, OtherEditsStep
<1>3. ASSUME NEW t \in Threads, Goes(t)
      PROVE  IInv'
  <2>1. CASE BeginLabel(t) \/ BeginPin(t) \/ BeginAgain(t) \/ Capture(t)
    BY <2>1, BeginLabelStep, BeginPinStep, BeginAgainStep, CaptureStep
  <2>2. CASE TakeLock(t) \/ Compute(t) \/ Keep(t) \/ EndSnapshot(t)
    BY <2>2, TakeLockStep, ComputeStep, KeepStep, EndSnapshotStep
  <2>3. CASE Accept(t) \/ Reject(t) \/ BeforeLabel(t) \/ BeforeVersion(t)
    BY <2>3, AcceptStep, RejectStep, BeforeLabelStep, BeforeVersionStep
  <2>4. CASE BeforeLabelAgain(t) \/ Commit(t) \/ Refuse(t) \/ AfterLabel(t)
    BY <2>4, BeforeLabelAgainStep, CommitStep, RefuseStep, AfterLabelStep
  <2>5. CASE AfterVersion(t) \/ MoveFind(t) \/ MoveOn(t) \/ EndWrite(t)
    BY <2>5, AfterVersionStep, MoveFindStep, MoveOnStep, EndWriteStep
  <2>6. CASE EndBatch(t) \/ Drop(t)
    BY <2>6, EndBatchStep, DropStep
  <2> QED BY <1>3, <2>1, <2>2, <2>3, <2>4, <2>5, <2>6 DEF Goes
<1>4. ASSUME NEW t \in Threads, Begins(t)
      PROVE  IInv'
  <2>1. CASE BeginLabel(t)
    BY <2>1, BeginLabelStep
  <2>2. CASE \E k \in Kinds : Ask(t, k)
    BY <2>2, AskStep
  <2>3. CASE StartAdd(t) \/ StartChecked(t) \/ StartBatch(t)
    BY <2>3, StartAddStep, StartCheckedStep, StartBatchStep
  <2> QED BY <1>4, <2>1, <2>2, <2>3 DEF Begins
<1> QED BY <1>1, <1>2, <1>3, <1>4 DEF Next

\* The inductive invariant holds in every reachable state.
THEOREM Inductive == Spec => []IInv
BY InitStep, NextStep, PTL DEF Spec

\* Every variable of the store, its snapshots and its writes holds a value of
\* its type; a kept answer is of its kind, whatever moved it on.
THEOREM TypeCorrect == Spec => []TypeOK
<1>1. IInv => TypeOK
  BY DEF IInv
<1> QED BY <1>1, Inductive, PTL

\* Every answer the store keeps is the answer of the state its label names: no
\* crossing of own writes, computations and foreign commits keeps a wrong one.
THEOREM KeptFaithfulHolds == Spec => []KeptFaithful
<1>1. IInv => KeptFaithful
  BY DEF IInv, KeptInv, Faithful, KeptFaithful, Named
<1> QED BY <1>1, Inductive, PTL

\* Every answer given inside a snapshot, kept, captured or computed, is the
\* answer of the state the snapshot's own transaction reads.
THEOREM AnswersFaithfulHolds == Spec => []AnswersFaithful
<1>1. IInv => AnswersFaithful
  BY DEF IInv
<1> QED BY <1>1, Inductive, PTL

-----------------------------------------------------------------------------
(* The store, with all it keeps, labels and locks, does what SnapshotReads *)
(* promises, for every set of threads, every set of writes and every bound. *)

\* What a snapshot reads and what it was answered, and the file.
seenVars == <<history, view, answers>>

\* A step that changes none of what the promise is about.
LEMMA Unseen ==
    ASSUME IInv, UNCHANGED <<history, answers>>,
           \A t \in Threads : IsOpen(t)' = IsOpen(t) /\ (IsOpen(t) => pinned'[t] = pinned[t])
    PROVE  UNCHANGED seenVars
BY DEF seenVars, view

\* A commit, whoever makes it.
LEMMA SeenCommit ==
    ASSUME IInv, UNCHANGED snapVars, NEW s, history' = Append(history, s)
    PROVE  Promise!Commit
<1>1. history \in Seq(State)
  BY DEF IInv, TypeOK, FileTypeOK
<1>2. Len(history') = Len(history) + 1 /\ \A i \in 1..Len(history) : history'[i] = history[i]
  BY <1>1
<1>3. UNCHANGED <<view, answers>>
  BY DEF view, IsOpen, snapVars
<1> QED BY <1>2, <1>3 DEF Promise!Commit

\* A step of an own write that commits nothing.
LEMMA SeenQuiet ==
    ASSUME IInv, UNCHANGED <<history, snapVars>>
    PROVE  UNCHANGED seenVars
BY Unseen DEF snapVars, IsOpen

\* The label agrees: the snapshot opens on the newest state.
LEMMA SeenOpen ==
    ASSUME IInv, NEW t \in Threads, BeginAgain(t)
    PROVE  Promise!Open(t) \/ UNCHANGED seenVars
<1> USE DEF fileVars
<1>1. CASE Agreed(t)
  <2>1. label[t] \in 1..Len(looks) /\ pinned[t] \in looks[label[t]]..Now
    BY DEF IInv, SnapInv, SnapOf, BeginAgain
  <2>2. Len(Looked) = label[t]
    BY <1>1 DEF Agreed
  <2>3. Len(Looked) = Len(looks) /\ Looked = looks /\ looks[Len(looks)] = Now
    BY <2>1, <2>2, LookedFacts DEF IInv, TypeOK, FileTypeOK
  <2>4. pinned[t] = Len(history)
    BY <2>1, <2>2, <2>3, VersionFacts DEF Now
  <2>5. at[t] = "pinned" /\ at' = [at EXCEPT ![t] = "agreed"] /\ at \in [Threads -> Places]
    BY <1>1 DEF BeginAgain, IInv, TypeOK, SnapTypeOK
  <2>6. UNCHANGED <<history, answers, pinned>>
    BY <1>1 DEF BeginAgain
  <2>7. view[t] = 0 /\ view' = [view EXCEPT ![t] = Len(history)]
    BY <2>4, <2>5, <2>6 DEF view, IsOpen
  <2> QED BY <2>6, <2>7 DEF Promise!Open
<1>2. CASE ~Agreed(t)
  BY <1>2, Unseen DEF IInv, TypeOK, SnapTypeOK, BeginAgain, IsOpen
<1> QED BY <1>1, <1>2

\* An answer given is the promised one.
LEMMA SeenAnswered ==
    ASSUME IInv, NEW t \in Threads, IsOpen(t), NEW k \in Kinds,
           NEW a, a = Answer(k, history[pinned[t]]), Answered(t, k, a),
           UNCHANGED <<history, pinned>>
    PROVE  Promise!Ask(t, k)
<1>1. at' = [at EXCEPT ![t] = "open"] /\ at \in [Threads -> Places]
  BY DEF IInv, TypeOK, SnapTypeOK, Answered
<1>2. UNCHANGED view
  BY <1>1 DEF view, IsOpen
<1>3. view[t] = pinned[t] /\ pinned[t] # 0
  BY OpenStable, VersionFacts DEF view, IInv, SnapInv, SnapOf, LooksInv
<1>4. answers' = [answers EXCEPT ![t][k] = Answer(k, history[view[t]])]
  BY <1>3 DEF Answered
<1> QED BY <1>2, <1>3, <1>4 DEF Promise!Ask

LEMMA SeenAsk ==
    ASSUME IInv, NEW t \in Threads, NEW k \in Kinds, Ask(t, k)
    PROVE  Promise!Ask(t, k) \/ UNCHANGED seenVars
<1> USE DEF fileVars
<1>1. IsOpen(t) /\ Faithful(k, kept[k]) /\ Faithful(k, captured[t][k])
  BY DEF IInv, KeptInv, IsOpen, Ask
<1>2. CASE Usable(kept[k], t)
  BY <1>1, <1>2, UsableFacts, SeenAnswered DEF Ask
<1>3. CASE ~Usable(kept[k], t) /\ Usable(captured[t][k], t)
  BY <1>1, <1>3, UsableFacts, SeenAnswered DEF Ask
<1>4. CASE ~Usable(kept[k], t) /\ ~Usable(captured[t][k], t)
  BY <1>4, Unseen DEF IInv, TypeOK, SnapTypeOK, Ask, IsOpen
<1> QED BY <1>2, <1>3, <1>4

LEMMA SeenTakeLock ==
    ASSUME IInv, NEW t \in Threads, TakeLock(t)
    PROVE  Promise!Ask(t, asking[t]) \/ UNCHANGED seenVars
<1> USE DEF fileVars
<1> DEFINE k == asking[t]
<1>1. IsOpen(t) /\ k \in Kinds
  BY DEF IInv, SnapInv, SnapOf, IsOpen, TakeLock
<1>2. CASE Usable(kept[k], t)
  <2>1. Faithful(k, kept[k])
    BY <1>1 DEF IInv, KeptInv
  <2> QED BY <1>1, <1>2, <2>1, UsableFacts, SeenAnswered DEF TakeLock
<1>3. CASE ~Usable(kept[k], t)
  BY <1>3, Unseen DEF IInv, TypeOK, SnapTypeOK, TakeLock, IsOpen
<1> QED BY <1>2, <1>3

LEMMA SeenCompute ==
    ASSUME IInv, NEW t \in Threads, Compute(t) \/ Keep(t)
    PROVE  Promise!Ask(t, asking[t]) \/ UNCHANGED seenVars
<1> USE DEF fileVars
<1> DEFINE k == asking[t]
           a == Answer(k, Reads(t))
<1>1. IsOpen(t) /\ k \in Kinds
  BY DEF IInv, SnapInv, SnapOf, IsOpen, Compute, Keep
<1>2. a = Answer(k, history[pinned[t]])
  BY DEF Reads
<1>3. CASE Answered(t, k, a) /\ UNCHANGED <<history, pinned>>
  BY <1>1, <1>2, <1>3, SeenAnswered
<1>4. CASE Compute(t) /\ Keeps(t, k, a)
  BY <1>4, Unseen DEF IInv, TypeOK, SnapTypeOK, Compute, IsOpen
<1> QED BY <1>3, <1>4 DEF Compute, Keep

LEMMA SeenClose ==
    ASSUME IInv, NEW t \in Threads, EndSnapshot(t)
    PROVE  Promise!Close(t)
<1> USE DEF fileVars
<1>1. /\ at[t] = "open" /\ at' = [at EXCEPT ![t] = "closed"] /\ at \in [Threads -> Places]
      /\ pinned' = [pinned EXCEPT ![t] = 0] /\ pinned \in [Threads -> Nat]
  BY DEF IInv, TypeOK, SnapTypeOK, EndSnapshot
<1>2. view' = [view EXCEPT ![t] = 0]
  BY <1>1 DEF view, IsOpen
<1>3. view[t] # 0
  BY <1>1, OpenStable, VersionFacts DEF view, IsOpen, IInv, SnapInv, SnapOf, LooksInv
<1> QED BY <1>2, <1>3 DEF Promise!Close, Promise!Nothing, EndSnapshot

\* The snapshots read nothing before the first is opened.
LEMMA SeenInit == Init => Promise!Init
BY DEF Init, Promise!Init, Promise!Nothing, view, IsOpen

\* Every step is a step of the promise or changes nothing it is about.
LEMMA SeenNext == IInv /\ [Next]_vars => [Promise!Next]_seenVars
<1> SUFFICES ASSUME IInv, [Next]_vars PROVE Promise!Next \/ UNCHANGED seenVars
  OBVIOUS
<1> USE DEF fileVars
<1>1. CASE UNCHANGED vars
  BY <1>1, SeenQuiet DEF vars
<1>2. CASE OtherWrites \/ OtherEdits
  BY <1>2, SeenCommit DEF OtherWrites, OtherEdits, Promise!Next
<1>3. ASSUME NEW t \in Threads, Goes(t) \/ Begins(t)
      PROVE  Promise!Next \/ UNCHANGED seenVars
  <2>1. CASE BeginLabel(t) \/ BeginPin(t) \/ Capture(t)
    BY <2>1, Unseen DEF IInv, TypeOK, SnapTypeOK, BeginLabel, BeginPin, Capture, IsOpen
  <2>2. CASE BeginAgain(t)
    BY <2>2, SeenOpen DEF Promise!Next
  <2>3. CASE \E k \in Kinds : Ask(t, k)
    BY <2>3, SeenAsk DEF Promise!Next
  <2>4. CASE TakeLock(t) \/ Compute(t) \/ Keep(t)
    <3>1. asking[t] \in Kinds
      BY <2>4 DEF IInv, SnapInv, SnapOf, TakeLock, Compute, Keep
    <3> QED BY <2>4, <3>1, SeenTakeLock, SeenCompute DEF Promise!Next
  <2>5. CASE EndSnapshot(t)
    BY <2>5, SeenClose DEF Promise!Next
  <2>6. CASE StartAdd(t) \/ StartChecked(t) \/ StartBatch(t) \/ Accept(t) \/ Reject(t)
    BY <2>6, SeenQuiet DEF StartAdd, StartChecked, StartBatch, Accept, Reject
  <2>7. CASE BeforeLabel(t) \/ BeforeVersion(t) \/ BeforeLabelAgain(t) \/ Refuse(t)
    BY <2>7, SeenQuiet DEF BeforeLabel, BeforeVersion, BeforeLabelAgain, Refuse
  <2>8. CASE AfterLabel(t) \/ AfterVersion(t) \/ MoveFind(t) \/ MoveOn(t) \/ EndWrite(t) \/ Drop(t)
    BY <2>8, SeenQuiet DEF AfterLabel, AfterVersion, MoveFind, MoveOn, EndWrite, Drop
  <2>9. CASE Commit(t)
    BY <2>9, SeenCommit DEF Commit, Promise!Next
  <2>10. CASE EndBatch(t)
    BY <2>10, SeenCommit, SeenQuiet DEF EndBatch, Promise!Next
  <2> QED BY <1>3, <2>1, <2>2, <2>3, <2>4, <2>5, <2>6, <2>7, <2>8, <2>9, <2>10 DEF Goes, Begins
<1> QED BY <1>1, <1>2, <1>3 DEF Next

\* The store implements the promise: each snapshot reads one state, the newest
\* when it opened, and every answer given in it is the answer of that state.
THEOREM ReadsOneStateHolds == Spec => ReadsOneState
<1>1. [Promise!Next]_seenVars <=> [Promise!Next]_(Promise!vars)
  BY DEF seenVars, Promise!vars
<1>2. Spec => []IInv
  BY Inductive
<1> QED BY <1>1, <1>2, SeenInit, SeenNext, PTL DEF Spec, ReadsOneState, Promise!Spec

-----------------------------------------------------------------------------
(* KeptAnswers observed: how often an answer is computed.  Until this store *)
(* writes, whoever computes holds the lock of the kind from the second look *)
(* at what is kept to the answer kept, so for the newest state either the   *)
(* answer is kept, or being kept, or was never computed.                    *)

\* A thread between taking the lock of a kind and giving it back.
Computing(t) == at[t] \in {"computing", "keeping"}

\* From the commit of an own write, or the end of a batch, to the end.
Late == {"committed", "after", "moving", "found", "dropping"}

\* Two labels name two states, the later label the newer state.
LabelsOrdered == \A i, j \in 1..Len(looks) : i < j => looks[i] < looks[j]

\* One thread computes a kind at a time.
LockInv ==
    /\ LabelsOrdered
    /\ Now <= MaxCommits
    /\ stage \in Late => wrote
    /\ \A t \in Threads : Computing(t) => keptLock[asking[t]] = t

CountsTypeOK ==
    /\ wrote \in BOOLEAN
    /\ computed \in [Kinds -> [1..MaxCommits -> Nat]]

\* The newest state's answer is kept, or about to be.
KeptForNow(k) == kept[k].label # 0 /\ looks[kept[k].label] = Now
BeingKept(k, t) == at[t] = "keeping" /\ asking[t] = k /\ pinned[t] = Now

\* What a thread that computes knows of what is kept.
ComputingKnows(t) ==
    /\ at[t] = "computing" => kept[asking[t]].label # label[t]
    /\ at[t] = "keeping" => kept[asking[t]].label <= label[t]

\* What the counts say of the newest state, and of those to come.
CountsKnow(k) ==
    /\ \A i \in 1..MaxCommits : i > Now => computed[k][i] = 0
    /\ computed[k][Now] <= 1
    /\ computed[k][Now] = 1 => KeptForNow(k) \/ \E t \in Threads : BeingKept(k, t)

WalkInv ==
    ~wrote => /\ \A t \in Threads : ComputingKnows(t)
              /\ \A k \in Kinds : CountsKnow(k)

WInv == LockInv /\ CountsTypeOK /\ WalkInv

\* A look adds a label only for a state newer than every one labelled.
LEMMA LabelsStay ==
    ASSUME IInv, LabelsOrdered, looks' \in {looks, Looked}
    PROVE  /\ LabelsOrdered'
           /\ Len(looks') >= Len(looks)
           /\ \A i \in 1..Len(looks) : looks'[i] = looks[i]
<1>1. FileTypeOK /\ LooksInv /\ Now \in Nat
  BY DEF IInv, TypeOK, FileTypeOK, Now
<1>2. CASE looks' = looks
  BY <1>1, <1>2 DEF LabelsOrdered, FileTypeOK
<1>3. CASE looks' = Looked /\ Looked # looks
  <2>1. Looked = Append(looks, Now) /\ looks[Len(looks)] # Now
    BY <1>3 DEF Looked
  <2>2. Len(looks') = Len(looks) + 1 /\ looks'[Len(looks) + 1] = Now
    BY <1>1, <1>3, <2>1 DEF FileTypeOK
  <2>3. \A i \in 1..Len(looks) : looks'[i] = looks[i]
    BY <1>1, <1>3, <2>1 DEF FileTypeOK
  <2>4. \A i \in 1..Len(looks) : looks[i] < Now
    BY <1>1, <2>1 DEF FileTypeOK, LooksInv, LabelsOrdered
  <2> QED BY <1>1, <2>2, <2>3, <2>4 DEF LabelsOrdered, FileTypeOK
<1> QED BY <1>2, <1>3

\* What every step does to the labels, the file and the stage of a write.
Paces ==
    /\ looks' \in {looks, Looked}
    /\ Now' \in {Now, Now + 1} /\ Now' <= MaxCommits
    /\ stage' \in Late => stage \in Late \/ Touches

\* A step that neither begins nor ends a computation, and changes what is kept
\* only for a write.
Passes ==
    /\ Paces
    /\ UNCHANGED keptLock
    /\ kept' = kept \/ stage \in Late
    /\ \A t \in Threads : Computing(t) \/ Computing(t)' =>
          UNCHANGED <<at[t], asking[t], label[t], pinned[t]>>

LEMMA SnapshotPasses ==
    ASSUME IInv, LockInv, NEW t \in Threads,
           \/ BeginLabel(t) \/ BeginPin(t) \/ BeginAgain(t) \/ Capture(t) \/ EndSnapshot(t)
           \/ \E k \in Kinds : Ask(t, k)
    PROVE  Passes
<1> USE DEF fileVars, keptVars, ownVars
<1>1. Now \in Nat /\ at \in [Threads -> Places]
  BY DEF IInv, TypeOK, FileTypeOK, SnapTypeOK, Now
<1>2. /\ label \in [Threads -> Nat] /\ pinned \in [Threads -> Nat]
      /\ asking \in [Threads -> Kinds \cup {"nothing"}]
  BY DEF IInv, TypeOK, SnapTypeOK
<1>3. CASE BeginLabel(t) \/ BeginPin(t) \/ BeginAgain(t) \/ Capture(t) \/ EndSnapshot(t)
  <2>1. UNCHANGED <<history, stage, keptLock, kept, asking>> /\ looks' \in {looks, Looked}
    BY <1>3 DEF BeginLabel, BeginPin, BeginAgain, Capture, EndSnapshot
  <2>2. \A s \in Threads \ {t} : UNCHANGED <<at[s], label[s], pinned[s]>>
    BY <1>1, <1>2, <1>3 DEF BeginLabel, BeginPin, BeginAgain, Capture, EndSnapshot
  <2>3. ~Computing(t) /\ ~Computing(t)'
    BY <1>1, <1>3 DEF BeginLabel, BeginPin, BeginAgain, Capture, EndSnapshot, Computing
  <2> QED BY <1>1, <2>1, <2>2, <2>3 DEF Passes, Paces, LockInv, Now, Computing
<1>4. CASE \E k \in Kinds : Ask(t, k)
  <2>1. UNCHANGED <<history, looks, stage, keptLock, kept, label, pinned>>
    BY <1>4 DEF Ask
  <2>2. \A s \in Threads \ {t} : UNCHANGED <<at[s], asking[s]>>
    BY <1>1, <1>2, <1>4 DEF Ask, Answered
  <2>3. ~Computing(t) /\ ~Computing(t)'
    BY <1>1, <1>4 DEF Ask, Answered, Computing
  <2> QED BY <1>1, <2>1, <2>2, <2>3 DEF Passes, Paces, LockInv, Now, Computing
<1> QED BY <1>3, <1>4

LEMMA WritePasses ==
    ASSUME IInv, LockInv, NEW t \in Threads,
           \/ StartAdd(t) \/ StartChecked(t) \/ StartBatch(t) \/ Accept(t) \/ Reject(t)
           \/ BeforeLabel(t) \/ BeforeVersion(t) \/ BeforeLabelAgain(t) \/ Commit(t)
           \/ Refuse(t) \/ AfterLabel(t) \/ AfterVersion(t) \/ MoveFind(t) \/ MoveOn(t)
           \/ EndWrite(t) \/ EndBatch(t) \/ Drop(t)
    PROVE  Passes
<1> USE DEF fileVars, keptVars, snapVars
<1>1. Now \in Nat /\ history \in Seq(State)
  BY DEF IInv, TypeOK, FileTypeOK, Now
<1>2. Now' \in {Now, Now + 1} /\ Now' <= MaxCommits
  <2>1. CASE UNCHANGED history
    BY <1>1, <2>1 DEF LockInv, Now
  <2>2. CASE Now < MaxCommits /\ \E s : history' = Append(history, s)
    BY <1>1, <2>2, BoundsAssumption DEF Now
  <2> QED BY <2>1, <2>2 DEF StartAdd, StartChecked, StartBatch, Accept, Reject, BeforeLabel,
        BeforeVersion, BeforeLabelAgain, Commit, Refuse, AfterLabel, AfterVersion, MoveFind,
        MoveOn, EndWrite, EndBatch, Drop
<1>3. looks' \in {looks, Looked} /\ UNCHANGED <<keptLock, snapVars>>
  BY DEF StartAdd, StartChecked, StartBatch, Accept, Reject, BeforeLabel,
        BeforeVersion, BeforeLabelAgain, Commit, Refuse, AfterLabel, AfterVersion, MoveFind,
        MoveOn, EndWrite, EndBatch, Drop
<1>4. stage' \in Late => stage \in Late \/ Touches
  BY DEF Late, Touches, Holds, Ends, StartAdd, StartChecked, StartBatch, Accept, Reject,
        BeforeLabel, BeforeVersion, BeforeLabelAgain, Commit, Refuse, AfterLabel, AfterVersion,
        MoveFind, MoveOn, EndWrite, EndBatch, Drop
<1>5. kept' = kept \/ stage \in Late
  BY DEF Late, Holds, StartAdd, StartChecked, StartBatch, Accept, Reject,
        BeforeLabel, BeforeVersion, BeforeLabelAgain, Commit, Refuse, AfterLabel, AfterVersion,
        MoveFind, MoveOn, EndWrite, EndBatch, Drop
<1> QED BY <1>2, <1>3, <1>4, <1>5 DEF Passes, Paces, Computing

LEMMA OtherPasses ==
    ASSUME IInv, LockInv, OtherWrites \/ OtherEdits \/ UNCHANGED vars
    PROVE  Passes
<1> USE DEF fileVars, keptVars, snapVars, ownVars, vars
<1>1. Now \in Nat /\ history \in Seq(State)
  BY DEF IInv, TypeOK, FileTypeOK, Now
<1>2. Now' \in {Now, Now + 1} /\ Now' <= MaxCommits
  <2>1. CASE UNCHANGED history
    BY <1>1, <2>1 DEF LockInv, Now
  <2>2. CASE Now < MaxCommits /\ \E s : history' = Append(history, s)
    BY <1>1, <2>2, BoundsAssumption DEF Now
  <2> QED BY <2>1, <2>2 DEF OtherWrites, OtherEdits
<1>3. UNCHANGED <<looks, stage, keptVars, snapVars>>
  BY DEF OtherWrites, OtherEdits
<1> QED BY <1>2, <1>3 DEF Passes, Paces, Computing

\* What holds of the counts and the labels whatever the step.
LEMMA CountsStep ==
    ASSUME IInv, WInv, Paces, CountsNext
    PROVE  /\ CountsTypeOK' /\ LabelsOrdered' /\ (stage \in Late => wrote)'
           /\ (Now <= MaxCommits)'
           /\ wrote => wrote'
<1>1. CountsTypeOK' /\ (wrote => wrote')
  <2>1. wrote' \in BOOLEAN
    BY Zenon DEF CountsNext, Touches
  <2>2. wrote => wrote'
    BY Zenon DEF CountsNext
  <2>3. computed' \in [Kinds -> [1..MaxCommits -> Nat]]
    <3> DEFINE Walked(k, i) == \E t \in Threads : Computes(t) /\ asking[t] = k /\ pinned[t] = i
    <3>1. \A k \in Kinds, i \in 1..MaxCommits : computed[k][i] \in Nat
      BY DEF WInv, CountsTypeOK
    <3>2. computed' = [k \in Kinds |-> [i \in 1..MaxCommits |->
              IF wrote' THEN 0 ELSE IF Walked(k, i) THEN computed[k][i] + 1 ELSE computed[k][i]]]
      BY DEF CountsNext
    <3> HIDE DEF Walked
    <3>3. \A k \in Kinds, i \in 1..MaxCommits :
              (IF wrote' THEN 0 ELSE IF Walked(k, i) THEN computed[k][i] + 1 ELSE computed[k][i])
                \in Nat
      BY <3>1
    <3> QED BY <3>2, <3>3
  <2> QED BY <2>1, <2>2, <2>3 DEF CountsTypeOK
<1>2. LabelsOrdered'
  BY LabelsStay DEF WInv, LockInv, Paces
<1> QED BY <1>1, <1>2 DEF WInv, LockInv, Paces, CountsNext

\* A step in which no one computes leaves the counts as they are, until this
\* store writes: a new state has none.
LEMMA PassesStep ==
    ASSUME IInv, WInv, Passes, CountsNext
    PROVE  WInv'
<1>1. Paces
  BY DEF Passes
<1>2. \A t \in Threads : Computing(t)' => keptLock'[asking'[t]] = t
  BY DEF WInv, LockInv, Passes, Computing
<1>3. LockInv' /\ CountsTypeOK'
  BY <1>1, <1>2, CountsStep DEF LockInv
<1>4. ASSUME ~wrote'
      PROVE  /\ \A t \in Threads : ComputingKnows(t)'
             /\ \A k \in Kinds : CountsKnow(k)'
  <2>1. ~wrote /\ kept' = kept
    BY <1>1, <1>4, CountsStep DEF Passes, WInv, LockInv
  <2>2. \A t \in Threads : ComputingKnows(t)'
    BY <2>1 DEF Passes, Computing, ComputingKnows, WInv, WalkInv
  <2>3. \A t \in Threads : ~Computes(t)
    BY DEF Computes, Passes, Computing
  <2>4. computed' = computed
    BY <1>4, <2>3 DEF CountsNext, WInv, CountsTypeOK
  <2>5. Now \in Nat \ {0} /\ Now <= MaxCommits /\ MaxCommits \in Nat
    BY BoundsAssumption DEF IInv, TypeOK, FileTypeOK, Now, WInv, LockInv
  <2>6. ASSUME NEW k \in Kinds
        PROVE  CountsKnow(k)'
    <3>1. CountsKnow(k)
      BY <2>1 DEF WInv, WalkInv
    <3>2. CASE Now' = Now + 1
      <4>1. computed[k][Now + 1] = 0
        BY <2>5, <3>1, <3>2, <1>3 DEF CountsKnow, LockInv
      <4> QED BY <2>4, <2>5, <3>1, <3>2, <4>1 DEF CountsKnow
    <3>3. CASE Now' = Now
      <4>1. KeptForNow(k) => KeptForNow(k)'
        <5>1. kept[k].label # 0 => kept[k].label \in 1..Len(looks)
          BY DEF IInv, KeptInv, Faithful
        <5> QED BY <1>1, <2>1, <3>3, <5>1, LabelsStay DEF KeptForNow, WInv, LockInv, Paces
      <4>2. \A t \in Threads : BeingKept(k, t) => BeingKept(k, t)'
        BY <3>3 DEF BeingKept, Passes, Computing
      <4> QED BY <2>4, <3>1, <3>3, <4>1, <4>2 DEF CountsKnow
    <3> QED BY <1>1, <3>2, <3>3 DEF Paces
  <2> QED BY <2>2, <2>6
<1> QED BY <1>3, <1>4 DEF WInv, WalkInv

\* A thread that computes reads the state its label names, and holds the lock.
LEMMA ComputingFacts ==
    ASSUME IInv, WInv, NEW t \in Threads, Computing(t)
    PROVE  /\ asking[t] \in Kinds /\ keptLock[asking[t]] = t
           /\ label[t] \in 1..Len(looks) /\ pinned[t] = looks[label[t]]
           /\ pinned[t] \in 1..Now
           /\ kept[asking[t]].label \in 0..Len(looks)
           /\ Now \in 1..MaxCommits /\ Len(looks) \in Nat
           /\ \A i \in 1..Len(looks) : looks[i] \in 1..Now
<1>1. IsOpen(t) /\ SnapOf(t)
  BY DEF Computing, IsOpen, IInv, SnapInv
<1>2. asking[t] \in Kinds
  BY <1>1 DEF Computing, SnapOf
<1>3. kept[asking[t]] \in KeptType(asking[t]) /\ Faithful(asking[t], kept[asking[t]])
  BY <1>2 DEF IInv, TypeOK, KeptTypeOK, KeptInv
<1>4. Len(looks) \in Nat /\ Now \in 1..MaxCommits
  BY BoundsAssumption DEF IInv, TypeOK, FileTypeOK, Now, WInv, LockInv
<1>5. kept[asking[t]].label \in 0..Len(looks)
  BY <1>3, <1>4 DEF KeptType, Faithful
<1> QED BY <1>1, <1>2, <1>4, <1>5 DEF SnapOf, IInv, LooksInv, WInv, LockInv

\* A computation of the newest state's answer is the first one.
LEMMA FirstComputed ==
    ASSUME IInv, WInv, ~wrote, NEW t \in Threads, at[t] = "computing", pinned[t] = Now
    PROVE  computed[asking[t]][Now] = 0
<1> DEFINE k == asking[t]
<1>1. Computing(t)
  BY DEF Computing
<1>2. k \in Kinds /\ Now \in 1..MaxCommits
  BY <1>1, ComputingFacts
<1>3. computed[k][Now] \in Nat /\ CountsKnow(k) /\ ComputingKnows(t)
  BY <1>2 DEF WInv, CountsTypeOK, WalkInv
<1>4. ~KeptForNow(k)
  <2> SUFFICES ASSUME KeptForNow(k) PROVE FALSE
    OBVIOUS
  <2> DEFINE mine == label[t]
             theirs == kept[k].label
  <2>1. /\ mine \in 1..Len(looks) /\ looks[mine] = Now
        /\ theirs \in 1..Len(looks) /\ looks[theirs] = Now
        /\ Now \in Nat /\ Len(looks) \in Nat
    BY <1>1, ComputingFacts DEF KeptForNow
  <2>2. mine # theirs
    BY <1>3 DEF ComputingKnows
  <2>3. \A i, j \in 1..Len(looks) : i < j => looks[i] < looks[j]
    BY DEF WInv, LockInv, LabelsOrdered
  <2> HIDE DEF mine, theirs
  <2>4. mine < theirs \/ theirs < mine
    BY <2>1, <2>2
  <2> QED BY <2>1, <2>3, <2>4
<1>5. \A s \in Threads : ~BeingKept(k, s)
  BY <1>1, ComputingFacts DEF BeingKept, Computing, WInv, LockInv
<1> QED BY <1>3, <1>4, <1>5 DEF CountsKnow

\* An answer computed of the newest state is kept, if it can be.
LEMMA NewestKept ==
    ASSUME IInv, WInv, NEW t \in Threads, at[t] = "computing", pinned[t] = Now,
           Answer(asking[t], Reads(t)) # Unreadable
    PROVE  Keeps(t, asking[t], Answer(asking[t], Reads(t)))
<1>1. Computing(t)
  BY DEF Computing
<1>2. kept[asking[t]].label # 0 => looks[kept[asking[t]].label] <= looks[label[t]]
  BY <1>1, ComputingFacts
<1>3. kept[asking[t]].label <= label[t]
  BY <1>1, <1>2, ComputingFacts DEF WInv, LockInv, LabelsOrdered
<1> QED BY <1>3 DEF Keeps

\* A step of a computation changes nothing else.
LEMMA ComputingPaces ==
    ASSUME IInv, WInv, CountsNext, UNCHANGED <<looks, history, stage>>
    PROVE  /\ CountsTypeOK' /\ LabelsOrdered' /\ (stage \in Late => wrote)'
           /\ (Now <= MaxCommits)' /\ Now' = Now
           /\ ~wrote' => ~wrote
<1>1. Paces
  BY DEF Paces, IInv, TypeOK, FileTypeOK, Now, WInv, LockInv
<1> QED BY <1>1, CountsStep DEF Now

\* The lock taken: what is kept by now is of another state.
LEMMA TakeLockWalk ==
    ASSUME IInv, WInv, NEW t \in Threads, TakeLock(t), CountsNext
    PROVE  WInv'
<1> USE DEF fileVars, ownVars
<1> DEFINE k == asking[t]
<1>1. UNCHANGED <<looks, history, stage, kept, label, pinned>>
  BY DEF TakeLock
<1>2. at \in [Threads -> Places] /\ asking \in [Threads -> Kinds \cup {"nothing"}]
  BY DEF IInv, TypeOK, SnapTypeOK
<1>3. CASE Usable(kept[k], t)
  <2>1. \A s \in Threads : Computing(s) \/ Computing(s)' => s # t
    BY <1>2, <1>3 DEF TakeLock, Answered, Computing
  <2>2. \A s \in Threads \ {t} : UNCHANGED <<at[s], asking[s]>>
    BY <1>2, <1>3 DEF TakeLock, Answered
  <2>3. UNCHANGED keptLock
    BY <1>3 DEF TakeLock
  <2>4. Passes
    BY <1>1, <2>1, <2>2, <2>3
       DEF Passes, Paces, IInv, TypeOK, FileTypeOK, Now, WInv, LockInv
  <2> QED BY <2>4, PassesStep
<1>4. CASE ~Usable(kept[k], t)
  <2>1. /\ k \in Kinds /\ keptLock[k] = Nobody /\ at[t] = "waiting"
        /\ keptLock' = [keptLock EXCEPT ![k] = t] /\ at' = [at EXCEPT ![t] = "computing"]
        /\ UNCHANGED asking
    BY <1>4 DEF TakeLock, LockFree, IInv, SnapInv, SnapOf
  <2>2. \A s \in Threads : Computing(s) => s # t /\ asking[s] # k
    BY <2>1, NobodyAssumption DEF Computing, WInv, LockInv
  <2>3. \A s \in Threads : Computing(s)' <=> s = t \/ Computing(s)
    BY <1>2, <2>1 DEF Computing
  <2>4. \A s \in Threads : Computing(s)' => keptLock'[asking'[s]] = s
    BY <2>1, <2>2, <2>3 DEF WInv, LockInv, IInv, TypeOK, LockTypeOK
  <2>5. LockInv' /\ CountsTypeOK'
    BY <1>1, <2>4, ComputingPaces DEF LockInv
  <2>6. ASSUME ~wrote'
        PROVE  /\ \A s \in Threads : ComputingKnows(s)'
               /\ \A j \in Kinds : CountsKnow(j)'
    <3>1. ~wrote /\ Now' = Now
      BY <1>1, <2>6, ComputingPaces
    <3>2. \A s \in Threads : ~Computes(s)
      BY <1>2, <2>1 DEF Computes
    <3>3. computed' = computed
      BY <2>6, <3>2 DEF CountsNext, WInv, CountsTypeOK
    <3>4. \A s \in Threads : ComputingKnows(s)'
      BY <1>1, <1>2, <1>4, <2>1, <3>1 DEF ComputingKnows, WInv, WalkInv, Usable
    <3>5. \A j \in Kinds, s \in Threads : BeingKept(j, s) => BeingKept(j, s)'
      BY <1>1, <1>2, <2>1, <3>1 DEF BeingKept
    <3>6. \A j \in Kinds : KeptForNow(j) => KeptForNow(j)'
      BY <1>1, <3>1 DEF KeptForNow
    <3> QED BY <3>1, <3>3, <3>4, <3>5, <3>6 DEF WInv, WalkInv, CountsKnow
  <2> QED BY <2>5, <2>6 DEF WInv, WalkInv
<1> QED BY <1>3, <1>4

\* The answer computed: of the newest state for the first time, and then being
\* kept; of an older one it counts for nothing.
LEMMA ComputeWalk ==
    ASSUME IInv, WInv, NEW t \in Threads, Compute(t), CountsNext
    PROVE  WInv'
<1> USE DEF fileVars, ownVars
<1> DEFINE k == asking[t]
           a == Answer(k, Reads(t))
<1>1. UNCHANGED <<looks, history, stage, kept, label, pinned>> /\ at[t] = "computing"
  BY DEF Compute
<1>2. /\ at \in [Threads -> Places] /\ asking \in [Threads -> Kinds \cup {"nothing"}]
      /\ keptLock \in [Kinds -> Threads \cup {Nobody}]
  BY DEF IInv, TypeOK, SnapTypeOK, LockTypeOK
<1>3. Computing(t) /\ k \in Kinds /\ keptLock[k] = t /\ pinned[t] \in 1..Now
  BY <1>1, ComputingFacts DEF Computing
<1>4. /\ \A s \in Threads \ {t} : UNCHANGED <<at[s], asking[s]>>
      /\ at'[t] # "computing"
  BY <1>2 DEF Compute, Answered
<1>5. Keeps(t, k, a) => at'[t] = "keeping" /\ asking' = asking /\ keptLock' = keptLock
  BY <1>2 DEF Compute
<1>6. ~Keeps(t, k, a) => at'[t] = "open" /\ keptLock' = [keptLock EXCEPT ![k] = Nobody]
  BY <1>2 DEF Compute, Answered
<1>7. \A s \in Threads : Computing(s)' => keptLock'[asking'[s]] = s
  <2>1. \A s \in Threads \ {t} : Computing(s) => asking[s] # k /\ keptLock[asking[s]] = s
    BY <1>3 DEF WInv, LockInv
  <2>2. \A s \in Threads \ {t} : Computing(s)' => Computing(s) /\ asking[s] \in Kinds
    BY <1>4, ComputingFacts DEF Computing
  <2>3. CASE Keeps(t, k, a)
    BY <1>3, <1>4, <1>5, <2>1, <2>2, <2>3
  <2>4. CASE ~Keeps(t, k, a)
    <3>1. ~Computing(t)'
      BY <1>6, <2>4 DEF Computing
    <3> QED BY <1>2, <1>3, <1>4, <1>6, <2>1, <2>2, <2>4, <3>1
  <2> QED BY <2>3, <2>4
<1>8. LockInv' /\ CountsTypeOK'
  BY <1>1, <1>7, ComputingPaces DEF LockInv
<1>9. ASSUME ~wrote'
      PROVE  /\ \A s \in Threads : ComputingKnows(s)'
             /\ \A j \in Kinds : CountsKnow(j)'
  <2>1. ~wrote /\ Now' = Now /\ Now \in 1..MaxCommits
    BY <1>1, <1>3, <1>9, ComputingPaces, ComputingFacts
  <2>2. \A s \in Threads : Computes(s) => s = t /\ a # Unreadable
    BY <1>4 DEF Computes
  <2>3. \A j \in Kinds, i \in 1..MaxCommits :
          computed'[j][i] = IF \E s \in Threads : Computes(s) /\ asking[s] = j /\ pinned[s] = i
                            THEN computed[j][i] + 1 ELSE computed[j][i]
    BY <1>9 DEF CountsNext
  <2>4. \A j \in Kinds, i \in 1..MaxCommits :
          j # k \/ i # pinned[t] \/ a = Unreadable => computed'[j][i] = computed[j][i]
    BY <2>2, <2>3
  <2>5. \A s \in Threads : ComputingKnows(s)'
    <3>1. ComputingKnows(t)'
      BY <1>1, <1>4, <1>5, <1>6 DEF ComputingKnows, Keeps
    <3>2. \A s \in Threads \ {t} : ComputingKnows(s)'
      BY <1>1, <1>4, <2>1 DEF ComputingKnows, WInv, WalkInv
    <3> QED BY <3>1, <3>2
  <2>6. ASSUME NEW j \in Kinds
        PROVE  CountsKnow(j)'
    <3>1. CountsKnow(j) /\ \A i \in 1..MaxCommits : computed[j][i] \in Nat
      BY <2>1 DEF WInv, WalkInv, CountsTypeOK
    <3>2. \A i \in 1..MaxCommits : i > Now => computed'[j][i] = 0
      BY <1>3, <2>1, <2>4, <3>1 DEF CountsKnow
    <3>3. KeptForNow(j) => KeptForNow(j)'
      BY <1>1, <2>1 DEF KeptForNow
    <3>4. \A s \in Threads : BeingKept(j, s) => BeingKept(j, s)'
      BY <1>1, <1>4, <2>1 DEF BeingKept
    <3>5. CASE j = k /\ pinned[t] = Now /\ a # Unreadable
      <4>1. computed[k][Now] = 0 /\ Keeps(t, k, a)
        BY <1>1, <2>1, <3>5, FirstComputed, NewestKept
      <4>2. computed'[k][Now] <= 1
        <5> DEFINE n == computed[k][Now]
                   m == computed'[k][Now]
        <5>1. m = n \/ m = n + 1
          BY <1>3, <2>1, <2>3
        <5> HIDE DEF n, m
        <5>2. n = 0
          BY <4>1 DEF n
        <5>3. m <= 1
          BY <5>1, <5>2
        <5> QED BY <5>3 DEF m
      <4>3. BeingKept(j, t)'
        BY <1>1, <1>5, <2>1, <3>5, <4>1 DEF BeingKept
      <4>4. CountsKnow(j)' <=>
              /\ \A i \in 1..MaxCommits : i > Now' => computed'[j][i] = 0
              /\ computed'[j][Now'] <= 1
              /\ computed'[j][Now'] = 1 =>
                    KeptForNow(j)' \/ \E s \in Threads : BeingKept(j, s)'
        BY DEF CountsKnow
      <4> QED BY <2>1, <3>2, <3>5, <4>2, <4>3, <4>4
    <3>6. CASE ~(j = k /\ pinned[t] = Now /\ a # Unreadable)
      <4>1. computed'[j][Now] = computed[j][Now]
        BY <2>1, <2>4, <3>6
      <4> QED BY <2>1, <3>1, <3>2, <3>3, <3>4, <4>1 DEF CountsKnow
    <3> QED BY <3>5, <3>6
  <2> QED BY <2>5, <2>6
<1> QED BY <1>8, <1>9 DEF WInv, WalkInv

\* What is kept is replaced by a newer state's answer.
LEMMA KeepWalk ==
    ASSUME IInv, WInv, NEW t \in Threads, Keep(t), CountsNext
    PROVE  /\ WInv'
           /\ ~wrote' => \A j \in Kinds :
                kept'[j].label # 0 => kept'[j].label >= kept[j].label
<1> USE DEF fileVars, ownVars
<1> DEFINE k == asking[t]
           a == Answer(k, Reads(t))
<1>1. UNCHANGED <<looks, history, stage, label, pinned>> /\ at[t] = "keeping"
  BY DEF Keep
<1>2. /\ at \in [Threads -> Places] /\ asking \in [Threads -> Kinds \cup {"nothing"}]
      /\ keptLock \in [Kinds -> Threads \cup {Nobody}]
      /\ kept = [j \in Kinds |-> kept[j]]
      /\ \A j \in Kinds : kept[j].label \in Nat
  BY DEF IInv, TypeOK, SnapTypeOK, LockTypeOK, KeptTypeOK, KeptType
<1>3. /\ Computing(t) /\ k \in Kinds /\ keptLock[k] = t
      /\ label[t] \in 1..Len(looks) /\ pinned[t] = looks[label[t]]
  BY <1>1, ComputingFacts DEF Computing
<1>4. /\ \A s \in Threads \ {t} : UNCHANGED <<at[s], asking[s]>>
      /\ at'[t] = "open"
      /\ keptLock' = [keptLock EXCEPT ![k] = Nobody]
      /\ kept' = [kept EXCEPT ![k] = [label |-> label[t], answer |-> a]]
  BY <1>2 DEF Keep, Answered
<1>5. \A s \in Threads \ {t} : Computing(s) => asking[s] # k /\ keptLock[asking[s]] = s
  BY <1>3 DEF WInv, LockInv
<1>6. \A s \in Threads : Computing(s)' => s # t /\ Computing(s) /\ asking[s] \in Kinds
  BY <1>4, ComputingFacts DEF Computing
<1>7. \A s \in Threads : Computing(s)' => keptLock'[asking'[s]] = s
  BY <1>2, <1>4, <1>5, <1>6
<1>8. LockInv' /\ CountsTypeOK'
  BY <1>1, <1>7, ComputingPaces DEF LockInv
<1>9. ASSUME ~wrote'
      PROVE  /\ \A s \in Threads : ComputingKnows(s)'
             /\ \A j \in Kinds : CountsKnow(j)'
             /\ \A j \in Kinds : kept'[j].label # 0 => kept'[j].label >= kept[j].label
  <2>1. ~wrote /\ Now' = Now /\ Now \in 1..MaxCommits
    BY <1>1, <1>3, <1>9, ComputingPaces, ComputingFacts
  <2>2. \A s \in Threads : ~Computes(s)
    BY <1>1, <1>4 DEF Computes
  <2>3. computed' = computed
    BY <1>9, <2>2 DEF CountsNext, WInv, CountsTypeOK
  <2>4. \A s \in Threads : ComputingKnows(s)'
    <3>1. \A s \in Threads \ {t} : Computing(s) => kept'[asking[s]] = kept[asking[s]]
      BY <1>2, <1>4, <1>5, ComputingFacts
    <3>2. \A s \in Threads \ {t} : ComputingKnows(s)'
      BY <1>1, <1>4, <2>1, <3>1 DEF ComputingKnows, Computing, WInv, WalkInv
    <3>3. ComputingKnows(t)'
      BY <1>4 DEF ComputingKnows
    <3> QED BY <3>2, <3>3
  <2>5. kept'[k].label = label[t] /\ kept[k].label <= label[t]
    BY <1>1, <1>2, <1>3, <1>4, <2>1 DEF ComputingKnows, WInv, WalkInv
  <2>6. \A j \in Kinds \ {k} : kept'[j] = kept[j]
    BY <1>2, <1>4
  <2>7. ASSUME NEW j \in Kinds
        PROVE  CountsKnow(j)'
    <3>1. CountsKnow(j)
      BY <2>1 DEF WInv, WalkInv
    <3>2. KeptForNow(j) => KeptForNow(j)'
      <4>1. CASE j # k
        BY <1>1, <2>1, <2>6, <4>1 DEF KeptForNow
      <4>2. CASE j = k
        <5>1. KeptForNow(k) => looks[label[t]] = Now
          BY <1>3, <2>5, ComputingFacts DEF KeptForNow, WInv, LockInv, LabelsOrdered
        <5> QED BY <1>1, <1>3, <2>1, <2>5, <4>2, <5>1, ComputingFacts DEF KeptForNow
      <4> QED BY <4>1, <4>2
    <3>3. \A s \in Threads : BeingKept(j, s) => BeingKept(j, s)' \/ KeptForNow(j)'
      <4>1. \A s \in Threads \ {t} : BeingKept(j, s) => BeingKept(j, s)'
        BY <1>1, <1>4, <2>1 DEF BeingKept
      <4>2. BeingKept(j, t) => KeptForNow(j)'
        BY <1>1, <1>3, <2>1, <2>5, ComputingFacts DEF BeingKept, KeptForNow
      <4> QED BY <4>1, <4>2
    <3> QED BY <2>1, <2>3, <3>1, <3>2, <3>3 DEF CountsKnow
  <2> QED BY <1>2, <1>3, <2>4, <2>5, <2>6, <2>7
<1> QED BY <1>8, <1>9 DEF WInv, WalkInv

\* Every step passes by the computations or is a step of one.
LEMMA Steps ==
    ASSUME IInv, LockInv, [Next]_vars
    PROVE  Passes \/ \E t \in Threads : TakeLock(t) \/ Compute(t) \/ Keep(t)
<1>1. CASE UNCHANGED vars \/ OtherWrites \/ OtherEdits
  BY <1>1, OtherPasses
<1>2. ASSUME NEW t \in Threads, Goes(t) \/ Begins(t),
             ~(TakeLock(t) \/ Compute(t) \/ Keep(t))
      PROVE  Passes
  BY <1>2, SnapshotPasses, WritePasses DEF Goes, Begins
<1> QED BY <1>1, <1>2 DEF Next

LEMMA WalkInit == WatchInit => IInv /\ WInv
<1> SUFFICES ASSUME WatchInit PROVE IInv /\ WInv
  OBVIOUS
<1>1. Init /\ IInv
  BY InitStep DEF WatchInit
<1>2. Now = 1 /\ Len(looks) = 1
  BY <1>1 DEF Init, Now
<1>3. CountsTypeOK /\ \A k \in Kinds : CountsKnow(k)
  <2>1. wrote = FALSE /\ \A k \in Kinds, i \in 1..MaxCommits : computed[k][i] = 0
    BY DEF WatchInit
  <2>2. computed \in [Kinds -> [1..MaxCommits -> Nat]]
    BY DEF WatchInit
  <2>3. 1 \in 1..MaxCommits
    BY BoundsAssumption
  <2>4. CountsTypeOK
    BY <2>1, <2>2 DEF CountsTypeOK
  <2>5. ASSUME NEW k \in Kinds
        PROVE  CountsKnow(k)
    <3>1. computed[k][Now] = 0
      BY <1>2, <2>1, <2>3
    <3> QED BY <2>1, <3>1 DEF CountsKnow
  <2> QED BY <2>4, <2>5
<1>4. LockInv
  BY <1>1, <1>2, BoundsAssumption DEF Init, LockInv, LabelsOrdered, Late, Computing
<1>5. WalkInv
  BY <1>1, <1>3 DEF Init, WalkInv, ComputingKnows
<1> QED BY <1>1, <1>3, <1>4, <1>5 DEF WInv

\* No step of the store or of any other connection loses what WInv says.
LEMMA WalkNext ==
    ASSUME IInv, WInv, [WatchNext]_watchVars
    PROVE  IInv' /\ WInv'
<1>1. CASE WatchNext
  <2>1. Next /\ CountsNext
    BY <1>1 DEF WatchNext
  <2>2. IInv'
    BY <2>1, NextStep
  <2>3. WInv'
    BY <2>1, Steps, PassesStep, TakeLockWalk, ComputeWalk, KeepWalk DEF WInv
  <2> QED BY <2>2, <2>3
<1>2. CASE UNCHANGED watchVars
  <2>1. IInv'
    BY <1>2, NextStep DEF watchVars
  <2>2. CountsTypeOK' /\ (WInv' <=> WInv)
    BY <1>2 DEF watchVars, vars, fileVars, keptVars, snapVars, ownVars, WInv, LockInv,
          CountsTypeOK, WalkInv, LabelsOrdered, Now, Computing, ComputingKnows, CountsKnow,
          KeptForNow, BeingKept
  <2> QED BY <2>1, <2>2
<1> QED BY <1>1, <1>2

\* What a step may not do: replace what is kept by the answer of an older state.
LEMMA NewerStep ==
    ASSUME IInv, WInv, [WatchNext]_watchVars, ~wrote', NEW k \in Kinds, kept'[k].label # 0
    PROVE  kept'[k].label >= kept[k].label
<1>1. kept[k].label \in Nat
  BY DEF IInv, TypeOK, KeptTypeOK, KeptType
<1>2. CASE WatchNext
  <2>1. Next /\ CountsNext
    BY <1>2 DEF WatchNext
  <2>2. CASE Passes
    <3>1. ~wrote
      BY <2>1, <2>2, CountsStep DEF Passes
    <3> QED BY <1>1, <2>2, <3>1 DEF Passes, WInv, LockInv
  <2>3. ASSUME NEW t \in Threads, TakeLock(t) \/ Compute(t) \/ Keep(t)
        PROVE  kept'[k].label >= kept[k].label
    BY <1>1, <2>1, <2>3, KeepWalk DEF TakeLock, Compute
  <2> QED BY <2>1, <2>2, <2>3, Steps DEF WInv
<1>3. CASE UNCHANGED watchVars
  BY <1>1, <1>3 DEF watchVars, vars, keptVars
<1> QED BY <1>2, <1>3

\* What a step may not do: compute the newest state's answer a second time.
LEMMA OnceStep ==
    ASSUME IInv, WInv, WInv', [WatchNext]_watchVars, ~wrote', NEW k \in Kinds
    PROVE  computed'[k][Now] <= 1
<1>1. Now \in 1..MaxCommits /\ CountsKnow(k)'
  BY BoundsAssumption DEF WInv, LockInv, WalkInv, IInv, TypeOK, FileTypeOK, Now
<1>2. CASE Now' = Now
  BY <1>1, <1>2 DEF CountsKnow
<1>3. CASE Now' # Now
  <2>1. WatchNext /\ Next /\ CountsNext
    BY <1>3 DEF WatchNext, watchVars, vars, fileVars, Now
  <2>2. Passes
    BY <1>3, <2>1, Steps DEF WInv, TakeLock, Compute, Keep, fileVars, Now
  <2>3. ~wrote
    BY <2>1, <2>2, CountsStep DEF Passes
  <2>4. \A t \in Threads : ~Computes(t)
    BY <2>2 DEF Passes, Computes, Computing
  <2>5. computed' = computed
    BY <2>1, <2>4 DEF CountsNext, WInv, CountsTypeOK
  <2> QED BY <2>3, <2>5 DEF WInv, WalkInv, CountsKnow
<1> QED BY <1>2, <1>3

\* The observed store keeps both invariants.
THEOREM WalkInductive == WatchSpec => [](IInv /\ WInv)
BY WalkInit, WalkNext, PTL DEF WatchSpec

\* As long as this store has not written, what is kept is replaced only by a
\* newer state's answer: a walk that ends late does not undo a later one.
THEOREM NewerStaysHolds == WatchSpec => NewerStays
<1>1. IInv /\ WInv /\ [WatchNext]_watchVars =>
        [~wrote' => \A k \in Kinds :
            kept'[k].label # 0 => kept'[k].label >= kept[k].label]_watchVars
  BY NewerStep
<1> QED BY <1>1, WalkInductive, PTL DEF WatchSpec, NewerStays

\* Until this store writes, each answer that can be kept is computed once for
\* the newest state, however many snapshots of it ask for it at once.
THEOREM NewestComputedOnceHolds == WatchSpec => NewestComputedOnce
<1>1. IInv /\ WInv /\ WInv' /\ [WatchNext]_watchVars =>
        [~wrote' => \A k \in Kinds :
            Answer(k, history[Now]) # Unreadable => computed'[k][Now] <= 1]_watchVars
  BY OnceStep
<1> QED BY <1>1, WalkInductive, PTL DEF WatchSpec, NewestComputedOnce

=============================================================================
