----------------------------- MODULE StoreWatch -----------------------------
(***************************************************************************)
(* The look at the store file before every read and write, the checks it   *)
(* leads to, the connections opened again after a change from outside, and *)
(* the store's own checkpoints (service/store.py: _watch, _judged,         *)
(* _damage_in, check_whole, _ready_to_write, _reader, _checkpoint).  The   *)
(* threads of one process, beside anything that changes the file.          *)
(***************************************************************************)
EXTENDS Integers, FiniteSets

CONSTANTS Threads,
          Writers,             \* bound: those of them that write; the others read
          CheckpointCommits,   \* CHECKPOINT_COMMITS
          MaxClock,            \* ticks of the clock that stamps files
          MaxOutside,          \* changes from outside
          MaxCommits,
          NoOne

ASSUME StoreWatchAssumption ==
    /\ NoOne \notin Threads /\ Writers \subseteq Threads /\ CheckpointCommits \in Nat \ {0}
    /\ MaxClock \in Nat /\ MaxOutside \in Nat /\ MaxCommits \in Nat

VARIABLES disk,        \* the file: its identity (0: none), stamp, image and soundness
          outside,     \* changes made from outside
          file,        \* _file: the file as last seen
          damaged,     \* _damaged
          generation,  \* _generation
          due,         \* the wait the last check set has passed
          watcher,     \* who holds _watch_lock
          looked,      \* the stat its holder took, and the outside changes its check has met
          writer,      \* who holds the store's lock
          writing,     \* the writing connection
          commits, uncheckpointed,
          pc, task, reader,    \* of each thread: where it is, what for, its connection
          vouched,     \* observed: the outside changes that _file stands for, and whether one
                       \* landed inside a checkpoint
          unseen       \* observed, of each thread: what its look cannot have told

vars == <<disk, outside, file, damaged, generation, due, watcher, looked, writer,
          writing, commits, uncheckpointed, pc, task, reader, vouched, unseen>>
store == <<disk, outside, file, damaged, generation, due, vouched>>
watch == <<watcher, looked>>
own == <<writing, commits, uncheckpointed>>
request == <<writer, task, unseen>>

\* What a stat tells of the file.  A connection is labelled with a generation and serves the
\* pages of the file as it was when it was opened; when that was is observed.
Stat == [identity |-> disk.identity, stamp |-> disk.stamp]
Opened(label) == [generation |-> label, opened |-> generation, image |-> disk.image]
NoLook == [stat |-> [identity |-> 0, stamp |-> 0], changes |-> 0]

\* _damage_in: removed, replaced, as the stat given says, or failing SQLite's check of the file
\* that is at the path by then.
SoundFor(stat) == stat.identity = 1 /\ disk.identity # 0 /\ disk.sound
Sound == SoundFor(Stat)

\* The changes a check has met: that the file is another one is left to the next stat.
Met == IF looked.stat.identity = disk.identity THEN outside ELSE vouched.changes

\* What a write to the file stamps it with: the clock has ticked since the last, or it has not.
Stamps == {disk.stamp, disk.stamp + 1} \cap 0..MaxClock

Tasks == {"read", "verify", "write", "batch"}
Writes == {"write", "batch"}
Goes(t, place) == pc' = [pc EXCEPT ![t] = place]

Init ==
    /\ disk = [identity |-> 1, stamp |-> 0, image |-> 0, sound |-> TRUE]
    /\ outside = 0
    /\ file = [identity |-> 1, stamp |-> 0]
    /\ damaged = FALSE /\ generation = 0 /\ due = FALSE
    /\ watcher = NoOne /\ looked = NoLook /\ writer = NoOne
    /\ writing = Opened(0)
    /\ commits = 0 /\ uncheckpointed = 0
    /\ pc = [t \in Threads |-> "idle"]
    /\ task = [t \in Threads |-> "read"]
    /\ reader = [t \in Threads |-> Opened(0)]
    /\ vouched = [changes |-> 0, folded |-> FALSE]
    /\ unseen = [t \in Threads |-> "nothing"]

-----------------------------------------------------------------------------
(* A request begins; a write takes the store's lock first.                 *)

Start(t, what) ==
    /\ pc[t] = "idle"
    /\ what \in Writes <=> t \in Writers
    /\ what \in Writes => writer = NoOne /\ commits < MaxCommits
    /\ writer' = IF what \in Writes THEN t ELSE writer
    /\ task' = [task EXCEPT ![t] = what]
    /\ Goes(t, "look")
    /\ UNCHANGED <<store, watch, own, reader, unseen>>

\* Mutant: the store's lock is kept.
LetsGo_KeepsLock(t) ==
    /\ Goes(t, "idle")
    /\ UNCHANGED writer
    /\ task' = [task EXCEPT ![t] = "read"]

\* Its answer is made, or refused.
LetsGo(t) ==
    /\ Goes(t, "idle")
    /\ writer' = IF writer = t THEN NoOne ELSE writer
    /\ task' = [task EXCEPT ![t] = "read"]

Ends(t) == LetsGo(t) /\ unseen' = [unseen EXCEPT ![t] = "nothing"]

\* Mutant: the look asks only whether the file changed.
LookDamaged_NotAsked(t) ==
    /\ pc[t] = "look"
    /\ Goes(t, "compare")
    /\ UNCHANGED <<store, watch, own, request, reader>>

\* The look without a lock: _damaged, then the stat and _file.
LookDamaged(t) ==
    /\ pc[t] = "look"
    /\ Goes(t, IF damaged THEN "wait" ELSE "compare")
    /\ UNCHANGED <<store, watch, own, request, reader>>

AfterLook(t) ==
    CASE task[t] = "read" -> "connect"
      [] task[t] \in Writes -> "ready"
      [] task[t] = "verify" -> "whole"

\* What a look may miss: a change no stat shows, and a verdict whose file is seen already
\* and whose damage is not.
Overlooked == IF outside > vouched.changes THEN "change" ELSE "nothing"
Unpublished == \E t \in Threads : pc[t] \in {"judge", "folded damaged"}
With(u, missed) ==
    CASE "change" \in {u, missed} -> "change"
      [] "verdict" \in {u, missed} -> "verdict"
      [] OTHER -> "nothing"
Missed(refused, ended) ==
    [t \in Threads |->
        IF t \in ended THEN "nothing"
        ELSE With(unseen[t], IF refused /\ pc[t] = "compare" THEN "verdict" ELSE "nothing")]

LookFile(t) ==
    /\ pc[t] = "compare"
    /\ Goes(t, IF Stat = file THEN AfterLook(t) ELSE "wait")
    /\ unseen' = [unseen EXCEPT ![t] =
                     With(With(@, Overlooked), IF Unpublished THEN "verdict" ELSE "nothing")]
    /\ UNCHANGED <<store, watch, own, writer, task, reader>>

\* Mutants: a damaged file is checked by every request, or not until it changes.
Again_Always == damaged
Again_Never == FALSE

\* Under the lock: the stat, and whether there is anything to check.
Again == damaged /\ due

TakeWatch(t) ==
    /\ pc[t] = "wait" /\ watcher = NoOne
    /\ watcher' = t
    /\ IF Stat # file \/ Again
       THEN /\ looked' = [stat |-> Stat, changes |-> 0]
            /\ Goes(t, "check")
            /\ UNCHANGED unseen
       ELSE /\ Goes(t, "verdict")
            /\ unseen' = [unseen EXCEPT ![t] = With(@, Overlooked)]
            /\ UNCHANGED looked
    /\ UNCHANGED <<store, own, writer, task, reader>>

\* The check reads the file as it is by then, and a sound one moves the generation.
Check(t) ==
    /\ pc[t] = "check"
    /\ LET sound == SoundFor(looked.stat)
       IN  /\ generation' = IF sound THEN generation + 1 ELSE generation
           /\ Goes(t, IF sound THEN "publish sound" ELSE "publish damaged")
    /\ looked' = [looked EXCEPT !.changes = Met]
    /\ UNCHANGED <<disk, outside, file, damaged, due, vouched, watcher, own, request,
                   reader>>

\* _file first, then _judged: two assignments other threads may look between.
Publish(t) ==
    /\ pc[t] \in {"publish sound", "publish damaged"}
    /\ file' = looked.stat
    /\ vouched' = [changes |-> looked.changes, folded |-> FALSE]
    /\ looked' = NoLook
    /\ Goes(t, IF pc[t] = "publish sound" THEN "judge sound" ELSE "judge")
    /\ UNCHANGED <<disk, outside, damaged, generation, due, watcher, own, request, reader>>

Judge(t) ==
    /\ pc[t] \in {"judge sound", "judge"}
    /\ damaged' = (pc[t] = "judge")
    /\ due' = FALSE
    /\ unseen' = Missed(damaged', {})
    /\ Goes(t, "verdict")
    /\ UNCHANGED <<disk, outside, file, generation, vouched, watch, own, writer, task,
                   reader>>

\* The lock is let go; a damaged file refuses the request.
Verdict(t) ==
    /\ pc[t] = "verdict"
    /\ watcher' = NoOne
    /\ \/ damaged /\ Ends(t)
       \/ ~damaged /\ Goes(t, AfterLook(t)) /\ UNCHANGED request
    /\ UNCHANGED <<store, looked, own, reader>>

-----------------------------------------------------------------------------
(* A read: the thread's connection, opened again when it is of an older     *)
(* generation, and then the snapshot.                                      *)

\* Mutant: a connection is kept for good.
Connect_Kept(t) ==
    /\ pc[t] = "connect"
    /\ Goes(t, "reading")
    /\ UNCHANGED <<store, watch, own, request, reader>>

\* The label is read first: a change noticed from here on has it opened again.
Connect(t) ==
    /\ pc[t] = "connect"
    /\ IF reader[t].generation = generation
       THEN Goes(t, "reading") /\ UNCHANGED reader
       ELSE Goes(t, "open reader") /\ reader' = [reader EXCEPT ![t].generation = generation]
    /\ UNCHANGED <<store, watch, own, request>>

OpenReader(t) ==
    /\ pc[t] = "open reader"
    /\ reader' = [reader EXCEPT ![t] = Opened(@.generation)]
    /\ Goes(t, "reading")
    /\ UNCHANGED <<store, watch, own, request>>

Finish(t) ==
    /\ pc[t] = "reading"
    /\ Ends(t)
    /\ UNCHANGED <<store, watch, own, reader>>

\* check_whole: under the lock, SQLite's check whatever the stat says, ...
LookWhole(t) ==
    /\ pc[t] = "whole" /\ watcher = NoOne
    /\ watcher' = t
    /\ looked' = [stat |-> Stat, changes |-> 0]
    /\ Goes(t, "whole check")
    /\ UNCHANGED <<store, own, request, reader>>

\* ... of which only a failure is kept; then the walk, a read as any other.
CheckWhole(t) ==
    /\ pc[t] = "whole check"
    /\ looked' = NoLook
    /\ IF SoundFor(looked.stat)
       THEN /\ watcher' = NoOne
            /\ task' = [task EXCEPT ![t] = "read"]
            /\ Goes(t, "look")
       ELSE Goes(t, "judge") /\ UNCHANGED <<watcher, task>>
    /\ UNCHANGED <<store, own, writer, unseen, reader>>

-----------------------------------------------------------------------------
(* A write: the writing connection, opened again when it is of an older     *)
(* generation and then labelled with the one there is by then; the commit;  *)
(* and the store's own checkpoint after it.                                 *)

\* Mutant: the writing connection is kept for good.
Ready_Kept(t) ==
    /\ pc[t] = "ready"
    /\ Goes(t, "commit")
    /\ UNCHANGED <<store, watch, own, request, reader>>

Ready(t) ==
    /\ pc[t] = "ready"
    /\ Goes(t, IF writing.generation = generation THEN "commit" ELSE "open writer")
    /\ UNCHANGED <<store, watch, own, request, reader>>

OpenWriter(t) ==
    /\ pc[t] = "open writer"
    /\ writing' = Opened(writing.generation)
    /\ Goes(t, "label writer")
    /\ UNCHANGED <<store, watch, commits, uncheckpointed, request, reader>>

LabelWriter(t) ==
    /\ pc[t] = "label writer"
    /\ writing' = [writing EXCEPT !.generation = generation]
    /\ Goes(t, "commit")
    /\ UNCHANGED <<store, watch, commits, uncheckpointed, request, reader>>

Commit(t) ==
    /\ pc[t] = "commit"
    /\ commits' = commits + 1
    /\ uncheckpointed' = uncheckpointed + 1
    /\ IF task[t] = "batch" \/ uncheckpointed' >= CheckpointCommits
       THEN Goes(t, "fold") /\ UNCHANGED request
       ELSE Ends(t)
    /\ UNCHANGED <<store, watch, writing, reader>>

\* A file that is refused, or changed since it was seen, is not written to.
CheckpointLook(t) ==
    /\ pc[t] = "fold" /\ watcher = NoOne
    /\ IF damaged \/ Stat # file
       THEN Ends(t) /\ UNCHANGED <<watcher, uncheckpointed>>
       ELSE /\ watcher' = t
            /\ uncheckpointed' = 0
            /\ Goes(t, "folding")
            /\ UNCHANGED request
    /\ UNCHANGED <<store, looked, writing, commits, reader>>

\* The write stamps the file; SQLite may refuse it.  Then the look after it.
Fold(t) ==
    /\ pc[t] = "folding"
    /\ disk' = disk \/ \E stamp \in Stamps : disk' = [disk EXCEPT !.stamp = stamp]
    /\ Goes(t, "folded")
    /\ UNCHANGED <<outside, file, damaged, generation, due, vouched, watch, own, request,
                   reader>>

CheckpointLookAfter(t) ==
    /\ pc[t] = "folded"
    /\ looked' = [stat |-> Stat, changes |-> 0]
    /\ Goes(t, "folded check")
    /\ UNCHANGED <<store, watcher, own, request, reader>>

\* Mutant: the folded file is not recorded as seen.
CheckpointCheck_NotSeen(t) ==
    /\ pc[t] = "folded check"
    /\ Goes(t, IF SoundFor(looked.stat) THEN "folded sound" ELSE "folded damaged")
    /\ looked' = NoLook
    /\ UNCHANGED <<store, watcher, own, request, reader>>

\* Checked whether or not the looks differ, since there were commits to fold.
CheckpointCheck(t) ==
    /\ pc[t] = "folded check"
    /\ Goes(t, IF SoundFor(looked.stat) THEN "folded sound" ELSE "folded damaged")
    /\ file' = looked.stat
    /\ looked' = NoLook
    /\ vouched' = [changes |-> Met, folded |-> vouched.folded \/ outside > vouched.changes]
    /\ UNCHANGED <<disk, outside, damaged, generation, due, watcher, own, request, reader>>

CheckpointJudge(t) ==
    /\ pc[t] \in {"folded sound", "folded damaged"}
    /\ damaged' = (pc[t] = "folded damaged")
    /\ due' = FALSE
    /\ watcher' = NoOne
    /\ LetsGo(t) /\ unseen' = Missed(damaged', {t})
    /\ UNCHANGED <<disk, outside, file, generation, vouched, looked, own, reader>>

-----------------------------------------------------------------------------
(* Outside the store: the wait before a damaged file is checked again, and  *)
(* the file changed, spoilt, restored, replaced or removed.                *)

WaitPasses ==
    /\ damaged /\ ~due
    /\ due' = TRUE
    /\ UNCHANGED <<disk, outside, file, damaged, generation, vouched, watch, own, request,
                   pc, reader>>

\* A change within the tick of the one last seen looks like none.
Outside(changed) ==
    /\ outside < MaxOutside
    /\ outside' = outside + 1
    /\ disk' = changed
    /\ unseen' = [t \in Threads |-> IF pc[t] = "idle" THEN "nothing" ELSE "change"]
    /\ UNCHANGED <<file, damaged, generation, due, vouched, watch, own, writer, pc, task,
                   reader>>

\* Written past SQLite, in place: spoilt, or restored from a copy.
Overwrite(sound) ==
    /\ disk.identity = 1
    /\ \E stamp \in Stamps :
          Outside([disk EXCEPT !.stamp = stamp, !.image = @ + 1, !.sound = sound])

Replace ==
    \E sound \in BOOLEAN, stamp \in Stamps :
        Outside([identity |-> 2, stamp |-> stamp, image |-> disk.image + 1, sound |-> sound])

Remove == disk.identity # 0 /\ Outside([disk EXCEPT !.identity = 0])

\* Another connection's checkpoint: SQLite's own change, which every connection sees.
OtherCheckpoint ==
    /\ disk.identity = 1
    /\ \E stamp \in Stamps : Outside([disk EXCEPT !.stamp = stamp])

-----------------------------------------------------------------------------
Step(t) ==
    \/ LookDamaged(t) \/ LookFile(t)
    \/ TakeWatch(t) \/ Check(t) \/ Publish(t) \/ Judge(t) \/ Verdict(t)
    \/ Connect(t) \/ OpenReader(t) \/ Finish(t) \/ LookWhole(t) \/ CheckWhole(t)
    \/ Ready(t) \/ OpenWriter(t) \/ LabelWriter(t) \/ Commit(t)
    \/ CheckpointLook(t) \/ Fold(t) \/ CheckpointLookAfter(t) \/ CheckpointCheck(t)
    \/ CheckpointJudge(t)

Environment ==
    \/ WaitPasses
    \/ (\E sound \in BOOLEAN : Overwrite(sound))
    \/ Replace \/ Remove \/ OtherCheckpoint

Next ==
    \/ \E t \in Threads : Step(t) \/ \E what \in Tasks : Start(t, what)
    \/ Environment

Spec == Init /\ [][Next]_vars

\* Requests keep coming, those under way go on, and time passes.
FairSpec ==
    /\ Spec
    /\ \A t \in Threads : WF_vars(Step(t)) /\ WF_vars(Start(t, "read"))
    /\ WF_vars(WaitPasses)

-----------------------------------------------------------------------------
TypeOK ==
    /\ disk \in [identity : 0..2, stamp : 0..MaxClock, image : 0..MaxOutside, sound : BOOLEAN]
    /\ file \in [identity : 0..2, stamp : 0..MaxClock]
    /\ damaged \in BOOLEAN /\ due \in BOOLEAN /\ generation \in Nat
    /\ watcher \in Threads \cup {NoOne} /\ writer \in Threads \cup {NoOne}
    /\ task \in [Threads -> Tasks]
    /\ writer # NoOne => task[writer] \in Writes
    /\ uncheckpointed \in 0..MaxCommits

Served(t) == CASE pc[t] = "reading" -> reader[t]
               [] pc[t] = "commit" -> writing
Serving(t) == pc[t] \in {"reading", "commit"}

\* A request whose look came after the last change from outside is not served from a file that
\* fails the check, as far as a stat tells the change and the verdict was out.
DamageIsRefused == \A t \in Threads : Serving(t) /\ unseen[t] = "nothing" => Sound

\* Of the writing connection: a change was noticed while it was opened (_ready_to_write), so
\* it has the label of pages it has not.
Mislabelled == writing.opened # writing.generation

\* Nor is it served pages of the file as it was before the change, by a read or a write,
\* whatever connection had them.  A sound change inside a checkpoint is taken for its own, and
\* a mislabelled writing connection is not opened again.
ServedAfresh ==
    \A t \in Threads :
        /\ Serving(t) /\ unseen[t] = "nothing" /\ ~vouched.folded
        /\ pc[t] = "commit" => ~Mislabelled
        => Served(t).image = disk.image

\* A request that came after a change from outside is served the file as it is now, or refused.
ServesTheFile == TypeOK /\ DamageIsRefused /\ ServedAfresh

\* The store's own commits and checkpoints, of any thread and at any tick, are never taken for
\* changes from outside: they open no connection afresh and refuse nothing.
OwnFoldsMoveNothing == outside = 0 => generation = 0 /\ ~damaged

\* However many requests wait for a verdict, the damaged file is checked once a wait.
ChecksArePaced ==
    \A t \in Threads : pc[t] = "check" /\ damaged /\ looked.stat = file => due

\* The whole-file check and the reopening are kept for changes from outside.
WatchIsSparing == OwnFoldsMoveNothing /\ ChecksArePaced

\* A file restored in place is served again, though its stat may tell no change.
RestoredIsServed == <>[](disk.identity = 1 /\ disk.sound) => <>[]~damaged
=============================================================================
