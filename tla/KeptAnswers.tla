----------------------------- MODULE KeptAnswers -----------------------------
(***************************************************************************)
(* The labelled snapshots and the kept answers of the store                *)
(* (service/store.py).                                                     *)
(*                                                                         *)
(* Threads of one process share one store on one SQLite file in WAL mode.  *)
(* A thread reads inside a snapshot: one read transaction on a connection  *)
(* of its own, labelled with the state it reads.  Three answers, each      *)
(* costly to compute, are kept with the label of the state they describe:  *)
(* the walk of the write journal, the first unreadable record and the      *)
(* projection of the whole ledger.  A write of this store moves the kept   *)
(* answers on to the state it made; a commit of any other connection, made *)
(* at any moment no one holds SQLite's write lock, makes them stale.       *)
(*                                                                         *)
(* A step is what no other thread can see half of: one read or write of a  *)
(* shared reference, one statement on one connection, one lock taken.      *)
(*                                                                         *)
(* Not modelled here: the file changed outside SQLite (_watch and the      *)
(* generation in every label stay at 0), checkpoints, which move no        *)
(* version, and the store in memory, whose reads hold the write lock.      *)
(***************************************************************************)
EXTENDS Naturals, Sequences

CONSTANTS
    Threads,      \* the threads of this process that use the store
    Nobody,       \* holds no lock: no thread
    Kinds,        \* the answers kept: some of AllKinds
    NoAnswer,     \* nothing kept, or not answered yet
    Unreadable,   \* what an ask meets when its computation raises UnreadableRecord
    Ops,          \* what this store writes outside a batch: some of AllOps
    Others,       \* what other connections commit: some of AllOthers
    Spoilable,    \* tables an edit can leave unreadable: some of Tables
    MaxCommits,   \* bound: states the file goes through
    MaxTries,     \* how often _begin tries to pin a labelled state (1000 in the code)
    MaxAsks       \* bound: answers asked for in one snapshot

AllKinds == {"journal", "readable", "projection"}
AllOps == {"entry", "flight", "aircraft", "batch"}
AllOthers == {"write", "edit"}
Tables == {"entry", "flight"}

ASSUME NobodyAssumption == Nobody \notin Threads
ASSUME KindsAssumption == Kinds \subseteq AllKinds
ASSUME OpsAssumption == Ops \subseteq AllOps /\ Others \subseteq AllOthers
ASSUME SpoilableAssumption == Spoilable \subseteq Tables
ASSUME BoundsAssumption ==
    MaxCommits \in Nat \ {0} /\ MaxTries \in Nat \ {0} /\ MaxAsks \in Nat

VARIABLES
    \* the file
    history,      \* every state the file was committed in, oldest first
    fileLock,     \* the thread whose writing connection holds SQLite's write lock
    \* the labelling connection: its data_version is the number of states it has met
    looks,        \* the states it met, as positions in history
    \* the writing connection
    version,      \* its data_version: moves on other connections' commits only
    seen,         \* the newest state it has met, its own commits included
    since,        \* _since: version and label after the last own commit
    \* the kept answers and the lock that serialises the computations of each
    kept, keptLock,
    \* each thread's snapshot
    at, label, pinned, tries, captured, asking, asks, answers,
    \* the write lock and the own write in progress, of the thread that holds it
    writer, stage, op, before, head, after, exact, todo, found

fileVars == <<history, fileLock>>
writerVars == <<version, seen, since>>
keptVars == <<kept, keptLock>>
snapVars == <<at, label, pinned, tries, captured, asking, asks, answers>>
ownVars == <<writer, stage, op, before, head, after, exact, todo, found>>
vars == <<fileVars, looks, writerVars, keptVars, snapVars, ownVars>>

-----------------------------------------------------------------------------
(* States of the file, what is answered of them and what a write makes.    *)

\* A state is what the three answers can tell: the links of the journal and
\* its head (the commit that made the last link), the commit that last broke
\* the chain (0: intact), the commit that last changed an entry, and the
\* tables that hold a record that cannot be read.
State == [links : Nat, head : Nat, damage : Nat, ledger : Nat, bad : SUBSET Tables]

EmptyStore == [links |-> 0, head |-> 0, damage |-> 0, ledger |-> 0, bad |-> {}]

Verification == [ok : BOOLEAN, length : Nat, head : Nat]

\* journal.verify, with no head given: the whole chain, or how it is broken.
JournalAnswer(s) ==
    IF s.damage = 0
    THEN [ok |-> TRUE, length |-> s.links, head |-> s.head]
    ELSE [ok |-> FALSE, length |-> 0, head |-> s.damage]

\* _first_unreadable: every entry is read before any flight.
ReadableAnswer(s) ==
    IF "entry" \in s.bad THEN "entry" ELSE IF "flight" \in s.bad THEN "flight" ELSE "none"

\* project(self._entries(db)): raises on an entry that cannot be read.
ProjectionAnswer(s) == IF "entry" \in s.bad THEN Unreadable ELSE s.ledger

\* What computing the answer of kind k in state s gives.
Answer(k, s) ==
    CASE k = "journal" -> JournalAnswer(s)
      [] k = "readable" -> ReadableAnswer(s)
      [] k = "projection" -> ProjectionAnswer(s)

\* The state one own write makes, as commit n: an entry and a flight are
\* linked into the journal in their transaction, an aircraft is not.
Linked(o) == o \in {"entry", "flight", "batch"}
WritesEntry(o) == o \in {"entry", "batch"}
Written(o, s, n) ==
    [links |-> s.links + (IF o = "batch" THEN 2 ELSE IF Linked(o) THEN 1 ELSE 0),
     head |-> IF Linked(o) THEN n ELSE s.head,
     damage |-> s.damage,
     ledger |-> IF WritesEntry(o) THEN n ELSE s.ledger,
     bad |-> s.bad]

\* An edit made directly in the file: it can break the chain or repair it,
\* and leave any record unreadable or readable again.
Edited(s, n, broken, bad) ==
    [links |-> s.links, head |-> s.head, damage |-> IF broken THEN n ELSE 0,
     ledger |-> n, bad |-> bad]

Now == Len(history)
NotKept == [label |-> 0, answer |-> NoAnswer]

\* One read of the labelling connection's data_version: it moves when the
\* file has been committed to since the last read, however often.
Looked == IF looks[Len(looks)] = Now THEN looks ELSE Append(looks, Now)

\* The writing connection's data_version after it looks at the file.
VersionNow == IF seen = Now THEN version ELSE version + 1

Init ==
    /\ history = <<EmptyStore>>
    /\ fileLock = Nobody
    /\ looks = <<1>>
    /\ version = 1 /\ seen = 1
    /\ since = [outside |-> 0, label |-> 0]
    /\ kept = [k \in Kinds |-> NotKept]
    /\ keptLock = [k \in Kinds |-> Nobody]
    /\ at = [t \in Threads |-> "closed"]
    /\ label = [t \in Threads |-> 0]
    /\ pinned = [t \in Threads |-> 0]
    /\ tries = [t \in Threads |-> 0]
    /\ captured = [t \in Threads |-> [k \in Kinds |-> NotKept]]
    /\ asking = [t \in Threads |-> "nothing"]
    /\ asks = [t \in Threads |-> 0]
    /\ answers = [t \in Threads |-> [k \in Kinds |-> NoAnswer]]
    /\ writer = Nobody /\ stage = "idle" /\ op = "none"
    /\ before = [outside |-> 0, label |-> 0]
    /\ head = 0 /\ after = 0 /\ exact = FALSE /\ todo = {} /\ found = NotKept

-----------------------------------------------------------------------------
(* A snapshot.                                                             *)

\* The state the snapshot's transaction reads.
Reads_Newest(t) == history[Now]
Reads(t) == history[pinned[t]]

\* No commit landed between the two reads of the label.
Agreed(t) == Len(Looked) = label[t]

\* A kept answer is used by the snapshots of the state it is labelled with.
Usable_Any(v, t) == v.label # 0
Usable(v, t) == v.label = label[t]

\* Whether an answer computed is kept: one that was not raised, and that no
\* newer state's answer has replaced meanwhile.
Keeps_AnyOrder(t, k, a) == a # Unreadable
Keeps_Raised(t, k, a) == kept[k].label <= label[t]
Keeps(t, k, a) == a # Unreadable /\ kept[k].label <= label[t]

\* The lock of a kind is free: whoever computes holds it, and nothing else does.
LockFree_Always(k) == TRUE
LockFree_AfterWrite(k) == keptLock[k] = Nobody /\ writer = Nobody
LockFree(k) == keptLock[k] = Nobody

\* A thread runs one call at a time: it reads while it writes only in the
\* check inside writing(), between taking the locks and the write.
MayRead(t) == writer # t \/ stage = "checking"

\* _begin, the label read before the transaction.
BeginLabel(t) ==
    /\ MayRead(t)
    /\ at[t] \in {"closed", "retry"}
    /\ looks' = Looked
    /\ label' = [label EXCEPT ![t] = Len(Looked)]
    /\ tries' = [tries EXCEPT ![t] = @ + 1]
    /\ at' = [at EXCEPT ![t] = "labelled"]
    /\ UNCHANGED <<fileVars, writerVars, keptVars, pinned, captured, asking, asks, answers,
                   ownVars>>

\* BEGIN and the first read, which pins the newest state.
BeginPin(t) ==
    /\ at[t] = "labelled"
    /\ pinned' = [pinned EXCEPT ![t] = Now]
    /\ at' = [at EXCEPT ![t] = "pinned"]
    /\ UNCHANGED <<fileVars, looks, writerVars, keptVars, label, tries, captured, asking, asks,
                   answers, ownVars>>

\* The label read again: agreed, or ROLLBACK and another try, or refused.
BeginAgain(t) ==
    /\ at[t] = "pinned"
    /\ looks' = Looked
    /\ IF Agreed(t)
       THEN /\ at' = [at EXCEPT ![t] = "agreed"]
            /\ UNCHANGED <<label, pinned>>
       ELSE /\ at' = [at EXCEPT ![t] = IF tries[t] < MaxTries THEN "retry" ELSE "closed"]
            /\ label' = [label EXCEPT ![t] = 0]
            /\ pinned' = [pinned EXCEPT ![t] = 0]
    /\ tries' = [tries EXCEPT ![t] = IF at'[t] = "retry" THEN @ ELSE 0]
    /\ UNCHANGED <<fileVars, writerVars, keptVars, captured, asking, asks, answers, ownVars>>

\* _capture: the kept answers as they are when the snapshot begins.  They are
\* read one after the other, and nothing relates one kind's to another's.
Capture(t) ==
    /\ at[t] = "agreed"
    /\ captured' = [captured EXCEPT ![t] = kept]
    /\ at' = [at EXCEPT ![t] = "open"]
    /\ UNCHANGED <<fileVars, looks, writerVars, keptVars, label, pinned, tries, asking, asks,
                   answers, ownVars>>

\* The caller has the answer a to the kind k it asked for.
Answered(t, k, a) ==
    /\ at' = [at EXCEPT ![t] = "open"]
    /\ asking' = [asking EXCEPT ![t] = "nothing"]
    /\ answers' = [answers EXCEPT ![t][k] = a]

\* _kept up to the lock: the store's answer, or the one captured, or neither.
Ask(t, k) ==
    /\ MayRead(t)
    /\ at[t] = "open" /\ asks[t] < MaxAsks
    /\ asks' = [asks EXCEPT ![t] = @ + 1]
    /\ \/ /\ Usable(kept[k], t)
          /\ Answered(t, k, kept[k].answer)
       \/ /\ ~Usable(kept[k], t) /\ Usable(captured[t][k], t)
          /\ Answered(t, k, captured[t][k].answer)
       \/ /\ ~Usable(kept[k], t) /\ ~Usable(captured[t][k], t)
          /\ at' = [at EXCEPT ![t] = "waiting"]
          /\ asking' = [asking EXCEPT ![t] = k]
          /\ UNCHANGED answers
    /\ UNCHANGED <<fileVars, looks, writerVars, keptVars, label, pinned, tries, captured,
                   ownVars>>

\* with kept.lock: the store's answer is looked at again under the lock.
TakeLock(t) ==
    /\ at[t] = "waiting"
    /\ LET k == asking[t] IN
        /\ LockFree(k)
        /\ \/ /\ Usable(kept[k], t)
              /\ Answered(t, k, kept[k].answer)
              /\ UNCHANGED keptLock
           \/ /\ ~Usable(kept[k], t)
              /\ keptLock' = [keptLock EXCEPT ![k] = t]
              /\ at' = [at EXCEPT ![t] = "computing"]
              /\ UNCHANGED <<asking, answers>>
    /\ UNCHANGED <<fileVars, looks, writerVars, kept, label, pinned, tries, captured, asks,
                   ownVars>>

\* compute() in the snapshot's own transaction, then the read of what is kept
\* meanwhile: an answer for a newer state is not replaced.  A computation that
\* raises keeps nothing.
Compute(t) ==
    /\ at[t] = "computing"
    /\ LET k == asking[t]
           a == Answer(k, Reads(t)) IN
        \/ /\ Keeps(t, k, a)
           /\ at' = [at EXCEPT ![t] = "keeping"]
           /\ UNCHANGED <<keptLock, asking, answers>>
        \/ /\ ~Keeps(t, k, a)
           /\ keptLock' = [keptLock EXCEPT ![k] = Nobody]
           /\ Answered(t, k, a)
    /\ UNCHANGED <<fileVars, looks, writerVars, kept, label, pinned, tries, captured, asks,
                   ownVars>>

\* kept.value = (label, answer), and the lock released.
Keep(t) ==
    /\ at[t] = "keeping"
    /\ LET k == asking[t]
           a == Answer(k, Reads(t)) IN
        /\ kept' = [kept EXCEPT ![k] = [label |-> label[t], answer |-> a]]
        /\ keptLock' = [keptLock EXCEPT ![k] = Nobody]
        /\ Answered(t, k, a)
    /\ UNCHANGED <<fileVars, looks, writerVars, label, pinned, tries, captured, asks, ownVars>>

\* The end of the snapshot: ROLLBACK.
EndSnapshot(t) ==
    /\ MayRead(t)
    /\ at[t] = "open"
    /\ at' = [at EXCEPT ![t] = "closed"]
    /\ label' = [label EXCEPT ![t] = 0]
    /\ pinned' = [pinned EXCEPT ![t] = 0]
    /\ tries' = [tries EXCEPT ![t] = 0]
    /\ captured' = [captured EXCEPT ![t] = [k \in Kinds |-> NotKept]]
    /\ asks' = [asks EXCEPT ![t] = 0]
    /\ answers' = [answers EXCEPT ![t] = [k \in Kinds |-> NoAnswer]]
    /\ UNCHANGED <<fileVars, looks, writerVars, keptVars, asking, ownVars>>

-----------------------------------------------------------------------------
(* An own write, under the write lock.                                     *)

Holds(t, s) == writer = t /\ stage = s

Ends ==
    /\ writer' = Nobody /\ stage' = "idle" /\ op' = "none"
    /\ before' = [outside |-> 0, label |-> 0]
    /\ head' = 0 /\ after' = 0 /\ exact' = FALSE /\ todo' = {} /\ found' = NotKept

\* add_flight, add_log, add_aircraft: the write lock, and no transaction yet.
\* No caller makes one inside a snapshot it holds open.
StartAdd(t) ==
    /\ writer = Nobody
    /\ at[t] = "closed"
    /\ writer' = t /\ stage' = "before"
    /\ \E o \in Ops \cap {"flight", "aircraft"} : op' = o
    /\ UNCHANGED <<fileVars, looks, writerVars, keptVars, snapVars, before, head, after, exact,
                   todo, found>>

\* writing(): the write lock, then BEGIN IMMEDIATE, which meets the newest
\* state; refused inside an open snapshot.  Refused as busy it changes nothing.
StartChecked(t) ==
    /\ writer = Nobody /\ fileLock = Nobody
    /\ at[t] = "closed"
    /\ "entry" \in Ops
    /\ writer' = t /\ stage' = "checking" /\ op' = "entry"
    /\ fileLock' = t
    /\ version' = VersionNow /\ seen' = Now
    /\ UNCHANGED <<history, looks, since, keptVars, snapVars, before, head, after, exact, todo,
                   found>>

\* The check, whose own snapshots have ended, accepts: append_entry.
Accept(t) ==
    /\ Holds(t, "checking") /\ at[t] = "closed"
    /\ stage' = "before"
    /\ UNCHANGED <<fileVars, looks, writerVars, keptVars, snapVars, writer, op, before, head,
                   after,
                   exact, todo, found>>

\* The check refuses: the transaction is rolled back.
Reject(t) ==
    /\ Holds(t, "checking") /\ at[t] = "closed"
    /\ fileLock' = Nobody
    /\ Ends
    /\ UNCHANGED <<history, looks, writerVars, keptVars, snapVars>>

\* _before_commit, the first label: unmoved since the last own commit, the
\* version read after that commit still stands.
BeforeLabel(t) ==
    /\ Holds(t, "before")
    /\ looks' = Looked
    /\ IF since.label = Len(Looked)
       THEN /\ before' = since
            /\ stage' = "commit"
       ELSE /\ before' = [outside |-> 0, label |-> Len(Looked)]
            /\ stage' = "version"
    /\ UNCHANGED <<fileVars, writerVars, keptVars, snapVars, writer, op, head, after, exact,
                   todo, found>>

BeforeVersion_LabelFirst(t) ==
    /\ Holds(t, "version")
    /\ version' = VersionNow /\ seen' = Now
    /\ before' = [before EXCEPT !.outside = VersionNow]
    /\ stage' = "commit"
    /\ UNCHANGED <<fileVars, looks, since, keptVars, snapVars, writer, op, head, after, exact,
                   todo, found>>

\* _before_commit, the writing connection's version, before the label.
BeforeVersion(t) ==
    /\ Holds(t, "version")
    /\ version' = VersionNow /\ seen' = Now
    /\ before' = [before EXCEPT !.outside = VersionNow]
    /\ stage' = "label"
    /\ UNCHANGED <<fileVars, looks, since, keptVars, snapVars, writer, op, head, after, exact,
                   todo, found>>

\* _before_commit, the label, after the version.
BeforeLabelAgain(t) ==
    /\ Holds(t, "label")
    /\ looks' = Looked
    /\ before' = [before EXCEPT !.label = Len(Looked)]
    /\ stage' = "commit"
    /\ UNCHANGED <<fileVars, writerVars, keptVars, snapVars, writer, op, head, after, exact,
                   todo, found>>

\* _committing: the row and its link, in one transaction, whose first
\* statement meets the newest state.  Bound: MaxCommits.
Commit(t) ==
    /\ Holds(t, "commit")
    /\ fileLock \in {Nobody, t}
    /\ Now < MaxCommits
    /\ history' = Append(history, Written(op, history[Now], Now + 1))
    /\ version' = VersionNow /\ seen' = Now + 1
    /\ fileLock' = Nobody
    /\ head' = IF Linked(op) THEN Now + 1 ELSE 0
    /\ stage' = "committed"
    /\ UNCHANGED <<looks, since, keptVars, snapVars, writer, op, before, after, exact, todo,
                   found>>

\* Busy past the timeout, or a duplicate flight: rolled back.
Refuse(t) ==
    /\ Holds(t, "commit")
    /\ version' = VersionNow /\ seen' = Now
    /\ fileLock' = IF fileLock = t THEN Nobody ELSE fileLock
    /\ Ends
    /\ UNCHANGED <<history, looks, since, keptVars, snapVars>>

\* _after_commit, the label of the state after the commit.
AfterLabel(t) ==
    /\ Holds(t, "committed")
    /\ looks' = Looked
    /\ after' = Len(Looked)
    /\ stage' = "after"
    /\ UNCHANGED <<fileVars, writerVars, keptVars, snapVars, writer, op, before, head, exact,
                   todo, found>>

\* _after_commit, the version again: unmoved, no other commit landed.
AfterVersion(t) ==
    /\ Holds(t, "after")
    /\ version' = VersionNow /\ seen' = Now
    /\ since' = [outside |-> VersionNow, label |-> after]
    /\ exact' = (VersionNow = before.outside)
    /\ todo' = Kinds
    /\ stage' = "moving"
    /\ UNCHANGED <<fileVars, looks, keptVars, snapVars, writer, op, before, head, after, found>>

\* What the kept answer of kind k becomes when it described the state right
\* before this commit.
MovedAnswer(k, a) ==
    IF k = "journal" /\ head # 0
    THEN [ok |-> TRUE, length |-> a.length + 1, head |-> head]
    ELSE a

\* Whether it is moved on rather than dropped: a broken chain is left to the
\* next walk, the projection to the next read after an entry.
Movable(k, v) ==
    /\ exact /\ v.label = before.label
    /\ k = "journal" /\ head # 0 => v.answer.ok
    /\ k = "projection" => ~WritesEntry(op)

First(S) ==
    IF "journal" \in S THEN "journal" ELSE IF "readable" \in S THEN "readable" ELSE "projection"

\* _after_commit reads one kept answer ...
MoveFind(t) ==
    /\ Holds(t, "moving")
    /\ todo # {}
    /\ found' = kept[First(todo)]
    /\ stage' = "found"
    /\ UNCHANGED <<fileVars, looks, writerVars, keptVars, snapVars, writer, op, before, head,
                   after,
                   exact, todo>>

\* ... and replaces it, without the lock a computation holds.
MoveOn(t) ==
    /\ Holds(t, "found")
    /\ LET k == First(todo) IN
        /\ kept' = [kept EXCEPT ![k] =
                IF Movable(k, found)
                THEN [label |-> after, answer |-> MovedAnswer(k, found.answer)]
                ELSE NotKept]
        /\ todo' = todo \ {k}
    /\ found' = NotKept
    /\ stage' = "moving"
    /\ UNCHANGED <<fileVars, looks, writerVars, keptLock, snapVars, writer, op, before, head,
                   after, exact>>

\* The write lock is released, the three answers moved or dropped.
EndWrite(t) ==
    /\ stage \in {"moving", "dropping"}
    /\ writer = t /\ todo = {}
    /\ Ends
    /\ UNCHANGED <<fileVars, looks, writerVars, keptVars, snapVars>>

\* batch(): the locks; its writes read the label before each and move nothing.
StartBatch(t) ==
    /\ writer = Nobody /\ fileLock = Nobody
    /\ at[t] = "closed"
    /\ "batch" \in Ops
    /\ writer' = t /\ stage' = "batch" /\ op' = "batch"
    /\ fileLock' = t
    /\ looks' = Looked
    /\ version' = VersionNow /\ seen' = Now
    /\ UNCHANGED <<history, since, keptVars, snapVars, before, head, after, exact, todo, found>>

\* The batch commits all its writes or, when one of them raises, none.
EndBatch(t) ==
    /\ Holds(t, "batch")
    /\ \/ /\ Now < MaxCommits
          /\ history' = Append(history, Written(op, history[Now], Now + 1))
          /\ seen' = Now + 1
       \/ UNCHANGED <<history, seen>>
    /\ fileLock' = Nobody
    /\ todo' = Kinds
    /\ stage' = "dropping"
    /\ UNCHANGED <<looks, version, since, keptVars, snapVars, writer, op, before, head, after,
                   exact, found>>

\* Nothing kept from inside the batch outlives it.
Drop(t) ==
    /\ Holds(t, "dropping") /\ todo # {}
    /\ kept' = [kept EXCEPT ![First(todo)] = NotKept]
    /\ todo' = todo \ {First(todo)}
    /\ UNCHANGED <<fileVars, looks, writerVars, keptLock, snapVars, writer, stage, op, before,
                   head, after, exact, found>>

-----------------------------------------------------------------------------
(* Other connections: a uasw command, another service, sqlite3.            *)

OtherWrites ==
    /\ "write" \in Others
    /\ fileLock = Nobody /\ Now < MaxCommits
    /\ \E o \in {"entry", "flight"} :
          history' = Append(history, Written(o, history[Now], Now + 1))
    /\ UNCHANGED <<fileLock, looks, writerVars, keptVars, snapVars, ownVars>>

OtherEdits ==
    /\ "edit" \in Others
    /\ fileLock = Nobody /\ Now < MaxCommits
    /\ \E broken \in BOOLEAN, bad \in SUBSET Spoilable :
          history' = Append(history, Edited(history[Now], Now + 1, broken, bad))
    /\ UNCHANGED <<fileLock, looks, writerVars, keptVars, snapVars, ownVars>>

-----------------------------------------------------------------------------

\* What a thread does on its own once it began a snapshot or a write.
Goes(t) ==
    \/ at[t] = "retry" /\ BeginLabel(t)
    \/ BeginPin(t) \/ BeginAgain(t) \/ Capture(t)
    \/ TakeLock(t) \/ Compute(t) \/ Keep(t)
    \/ EndSnapshot(t)
    \/ Accept(t) \/ Reject(t)
    \/ BeforeLabel(t) \/ BeforeVersion(t) \/ BeforeLabelAgain(t) \/ Commit(t) \/ Refuse(t)
    \/ AfterLabel(t) \/ AfterVersion(t) \/ MoveFind(t) \/ MoveOn(t) \/ EndWrite(t)
    \/ EndBatch(t) \/ Drop(t)

\* What its callers decide.
Begins(t) ==
    \/ at[t] = "closed" /\ BeginLabel(t)
    \/ \E k \in Kinds : Ask(t, k)
    \/ StartAdd(t) \/ StartChecked(t) \/ StartBatch(t)

Next ==
    \/ \E t \in Threads : Goes(t) \/ Begins(t)
    \/ OtherWrites \/ OtherEdits

Spec == Init /\ [][Next]_vars

\* Every thread that runs goes on running; one that waits for a lock others
\* keep releasing gets it in the end; and a check, which makes finitely many
\* reads, ends.  No caller has to begin anything and no other connection
\* has to commit.
FairSpec ==
    /\ Spec
    /\ \A t \in Threads :
          WF_vars(Goes(t)) /\ SF_vars(TakeLock(t)) /\ SF_vars(Accept(t) \/ Reject(t))

-----------------------------------------------------------------------------
(* What must hold.                                                         *)

Stages == {"idle", "before", "checking", "version", "label", "commit", "committed", "after",
           "moving", "found", "batch", "dropping"}
Places == {"closed", "retry", "labelled", "pinned", "agreed", "open", "waiting", "computing",
           "keeping"}

\* The values an answer of kind k takes.
Answers(k) ==
    CASE k = "journal" -> Verification
      [] k = "readable" -> {"entry", "flight", "none"}
      [] k = "projection" -> Nat

KeptType(k) == [label : {0}, answer : {NoAnswer}] \cup [label : Nat \ {0}, answer : Answers(k)]

FileTypeOK ==
    /\ history \in Seq(State) /\ Now >= 1
    /\ looks \in Seq(Nat \ {0}) /\ Len(looks) >= 1

LockTypeOK ==
    /\ fileLock \in Threads \cup {Nobody}
    /\ keptLock \in [Kinds -> Threads \cup {Nobody}]
    /\ writer \in Threads \cup {Nobody}

KeptTypeOK ==
    /\ kept = [k \in Kinds |-> kept[k]]
    /\ \A k \in Kinds : kept[k] \in KeptType(k)

SnapTypeOK ==
    /\ at \in [Threads -> Places]
    /\ label \in [Threads -> Nat] /\ pinned \in [Threads -> Nat]
    /\ tries \in [Threads -> Nat] /\ asks \in [Threads -> Nat]
    /\ asking \in [Threads -> Kinds \cup {"nothing"}]

AnswersTypeOK ==
    /\ captured = [t \in Threads |-> [k \in Kinds |-> captured[t][k]]]
    /\ \A t \in Threads, k \in Kinds : captured[t][k] \in KeptType(k)
    /\ answers = [t \in Threads |-> [k \in Kinds |-> answers[t][k]]]
    /\ \A t \in Threads, k \in Kinds : answers[t][k] \in Answers(k) \cup {NoAnswer, Unreadable}

OwnTypeOK ==
    /\ version \in Nat /\ seen \in Nat
    /\ since \in [outside : Nat, label : Nat]
    /\ stage \in Stages
    /\ op \in AllOps \cup {"none"}
    /\ before \in [outside : Nat, label : Nat]
    /\ head \in Nat /\ after \in Nat /\ exact \in BOOLEAN /\ todo \subseteq Kinds
    /\ stage = "found" => todo # {} /\ found \in KeptType(First(todo))

\* Every variable holds a value of its type, a kept answer one of its kind.
TypeOK ==
    FileTypeOK /\ LockTypeOK /\ KeptTypeOK /\ SnapTypeOK /\ AnswersTypeOK /\ OwnTypeOK

\* The position in history of the state a label names.
Named(l) == looks[l]

\* An open snapshot: from the agreed label to its end.
IsOpen(t) == at[t] \in {"agreed", "open", "waiting", "computing", "keeping"}

\* Every answer the store keeps is the answer of the state its label names,
\* whatever own writes, computations and commits from outside crossed.
KeptFaithful ==
    \A k \in Kinds : kept[k].label # 0 =>
        /\ kept[k].label \in 1..Len(looks)
        /\ kept[k].answer = Answer(k, history[Named(kept[k].label)])

\* Every answer given inside a snapshot, kept or computed, is the answer of
\* the one state the snapshot's transaction reads.
AnswersFaithful ==
    \A t \in Threads, k \in Kinds : answers[t][k] # NoAnswer =>
        IsOpen(t) /\ answers[t][k] = Answer(k, history[pinned[t]])

\* The snapshots and their kept answers do what SnapshotReads promises: each
\* snapshot reads the state that was newest when its label was agreed.
view == [t \in Threads |-> IF IsOpen(t) THEN pinned[t] ELSE 0]
Promise == INSTANCE SnapshotReads
ReadsOneState == Promise!Spec

\* A snapshot begun ends, its answers given, beside writes that never stop: no read waits for
\* the write lock, and whoever computes lets the others go on. And a write begun ends, moved on
\* or refused, whatever reads are under way: its check reads under both locks and waits only
\* for computations.
ReadsAndWritesEnd ==
    /\ \A t \in Threads : at[t] # "closed" ~> at[t] = "closed"
    /\ \A t \in Threads : writer = t ~> writer # t

=============================================================================
