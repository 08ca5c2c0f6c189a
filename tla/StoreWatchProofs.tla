-------------------------- MODULE StoreWatchProofs --------------------------
(***************************************************************************)
(* Proofs about the look at the store file, for any number of threads,     *)
(* writers, changes from outside and ticks of the clock (service/store.py: *)
(* _watch, _judged, check_whole, _ready_to_write, _reader, _checkpoint): a *)
(* request that comes after a change is served the file as it is or is     *)
(* refused, and the store's own commits and checkpoints move nothing.      *)
(*                                                                         *)
(* Neither is inductive.  What carries them from the look to the answer is *)
(* what each place of the look knows of the file: the stat its holder took *)
(* is the file's while no change is overlooked, the verdict that goes with *)
(* it is of the same image, and a stat once left never comes back, as only *)
(* its stamp moves while the file is the one opened.  A connection has the *)
(* pages of the file as long as no generation is later than the one it was *)
(* opened in; that its label says so is an invariant of the readers'       *)
(* connections and is not one of the writing connection (Mislabelled).     *)
(***************************************************************************)
EXTENDS StoreWatch, TLAPS

\* Under the look's lock with a verdict under way, and inside a checkpoint, whose own write
\* may have moved the stat.
Deciding == {"check", "publish sound", "publish damaged", "judge", "folded damaged"}
Folded == {"folded", "folded check"}

Holding == Deciding \cup Folded
              \cup {"judge sound", "verdict", "whole check", "folding", "folded sound"}
AfterCommit == Folded \cup {"fold", "folding", "folded sound", "folded damaged"}

\* Past the look, and let in.
Readying == {"ready", "open writer", "label writer", "commit"}
LetIn == Readying \cup {"connect", "open reader", "reading", "whole", "whole check"}

Places == Holding \cup LetIn \cup {"idle", "look", "compare", "wait", "fold"}
Kinds == {"nothing", "change", "verdict"}
Connections == [generation : Nat, opened : Nat, image : 0..MaxOutside]
Stats == [identity : 0..2, stamp : 0..MaxClock]

StoreTyped ==
    /\ disk \in [identity : 0..2, stamp : 0..MaxClock, image : 0..MaxOutside, sound : BOOLEAN]
    /\ outside \in 0..MaxOutside
    /\ file \in Stats
    /\ damaged \in BOOLEAN /\ due \in BOOLEAN /\ generation \in Nat
    /\ watcher \in Threads \cup {NoOne}
    /\ looked \in [stat : Stats, changes : 0..MaxOutside]
    /\ vouched \in [changes : 0..MaxOutside, folded : BOOLEAN]

RequestsTyped ==
    /\ writer \in Threads \cup {NoOne}
    /\ writer # NoOne => task[writer] \in Writes
    /\ task \in [Threads -> Tasks] /\ pc \in [Threads -> Places]
    /\ unseen \in [Threads -> Kinds]
    /\ writing \in Connections /\ reader \in [Threads -> Connections]
    /\ commits \in 0..MaxCommits /\ uncheckpointed \in 0..MaxCommits

Typed == StoreTyped /\ RequestsTyped

\* Who holds each lock, told by where it is; a writer short of its commit has one to make.
LocksOf(t) ==
    /\ watcher = t <=> pc[t] \in Holding
    /\ writer = t <=> task[t] \in Writes
    /\ pc[t] = "idle" => task[t] = "read"
    /\ pc[t] \in AfterCommit \cup Readying => task[t] \in Writes
    /\ pc[t] \in {"whole", "whole check"} => task[t] \notin Writes
    /\ writer = t /\ pc[t] \notin AfterCommit => commits < MaxCommits

Locks == \A t \in Threads : LocksOf(t)

At(places) == watcher \in Threads /\ pc[watcher] \in places

\* A connection opened in the present generation has the present image.
FreshOf(c) == c.opened = generation => c.image = disk.image
Fresh == (\A t \in Threads : FreshOf(reader[t])) /\ FreshOf(writing)

\* Stamps and changes only grow: what was noted is no later than what is.
Ages ==
    /\ file.stamp <= disk.stamp /\ looked.stat.stamp <= disk.stamp
    /\ disk.image <= outside
    /\ vouched.changes <= outside
    /\ uncheckpointed <= commits

\* So do generations; and a reader, labelled before it is opened, is no older than its label.
Labelled ==
    /\ writing.opened <= generation
    /\ \A t \in Threads :
          /\ reader[t].generation <= generation /\ reader[t].opened <= generation
          /\ pc[t] # "open reader" => reader[t].generation <= reader[t].opened

\* What a check was begun for: it lasts until the check's verdict is kept.
Cause == damaged \/ disk.identity # 1 \/ file.identity # 1 \/ file.stamp < disk.stamp

\* While _file stands for every change: an unsound file is refused, unless its verdict is not
\* kept yet, and the connections are of it.  Before the first change nothing has moved.
Known ==
    /\ vouched.changes = outside /\ ~At({"judge", "folded damaged"}) => damaged \/ Sound
    /\ vouched.changes = outside /\ ~vouched.folded /\ Sound => Fresh
    /\ outside = 0 => /\ Sound /\ ~damaged /\ generation = 0
                      /\ ~At(Deciding \cup {"judge sound"})
                      /\ Stat = file \/ At(Folded)

\* What holds of the file while a request let in has no change before it: no check of another
\* request can refuse it, or open the connections afresh, under it.
Passed ==
    /\ vouched.changes = outside /\ Sound /\ ~damaged
    /\ ~At(Deciding) /\ (Stat = file \/ At(Folded))

\* What the holder of the look's lock knows at each place.
AtLock ==
    watcher \in Threads =>
        LET at == pc[watcher]
            new == unseen[watcher] = "nothing"
        IN  /\ at = "check" /\ new => looked.stat = Stat
            /\ at = "check" /\ damaged /\ looked.stat = file => due
            /\ at = "check" /\ looked.stat.identity # disk.identity => vouched.changes < outside
            /\ at = "whole check" /\ disk.identity = 1 => looked.stat.identity = 1
            /\ at \in {"check", "publish sound", "publish damaged"} => Cause
            /\ at \in {"publish sound", "publish damaged"} =>
                  /\ vouched.changes <= looked.changes /\ looked.changes <= outside
                  /\ looked.changes = outside => /\ Sound <=> at = "publish sound"
                                                 /\ Sound => Fresh
                  /\ new => looked.changes = outside /\ looked.stat = Stat
            /\ at \in {"judge", "judge sound"} /\ new => vouched.changes = outside /\ Stat = file
            /\ at \in {"judge sound", "folded sound"} /\ vouched.changes = outside => Sound
            /\ at = "folded check" => looked.stat = Stat \/ vouched.changes < outside
            /\ at = "verdict" /\ new /\ ~damaged => Passed

\* What a request knows that no change came before.
Own(t) ==
    unseen[t] = "nothing" =>
        /\ pc[t] = "compare" => ~damaged
        /\ pc[t] \in LetIn => Passed
        /\ pc[t] = "reading" /\ ~vouched.folded => reader[t].image = disk.image
        /\ pc[t] = "label writer" /\ ~vouched.folded => writing.image = disk.image
        /\ pc[t] = "commit" /\ ~vouched.folded /\ ~Mislabelled => writing.image = disk.image

\* The inductive invariant.
WatchInv == Typed /\ Locks /\ Ages /\ Known /\ AtLock /\ \A t \in Threads : Own(t)

-----------------------------------------------------------------------------
\* What was missed stays missed: nothing is overlooked only when neither look overlooked it.
LEMMA WithFacts ==
    ASSUME NEW a \in Kinds, NEW b \in Kinds
    PROVE  /\ With(a, b) \in Kinds
           /\ With(a, b) = "nothing" <=> a = "nothing" /\ b = "nothing"
  BY DEF With, Kinds

\* A refusal leaves a request its clear look only when it had one and was past the question.
LEMMA MissedFacts ==
    ASSUME Typed, NEW refused \in BOOLEAN, NEW ended \in SUBSET Threads
    PROVE  /\ Missed(refused, ended) \in [Threads -> Kinds]
           /\ \A u \in Threads : Missed(refused, ended)[u] = "nothing" =>
                 u \in ended \/ (unseen[u] = "nothing" /\ ~(refused /\ pc[u] = "compare"))
  BY WithFacts DEF Missed, Typed, StoreTyped, RequestsTyped, Kinds

\* A verdict not kept yet is that of the holder of the look's lock.
LEMMA UnpublishedAt ==
    ASSUME Typed, Locks
    PROVE  Unpublished <=> At({"judge", "folded damaged"})
<1>1. Unpublished => At({"judge", "folded damaged"})
  <2> SUFFICES ASSUME NEW u \in Threads, pc[u] \in {"judge", "folded damaged"}
               PROVE  At({"judge", "folded damaged"})
    BY DEF Unpublished
  <2>1. pc[u] \in Holding BY DEF Holding, Deciding
  <2> QED BY <2>1 DEF At, Locks, LocksOf
<1>2. At({"judge", "folded damaged"}) => Unpublished
  BY DEF At, Unpublished
<1> QED BY <1>1, <1>2

\* A look that overlooks no change is of a file that stands for all of them.
LEMMA OverlookedFacts ==
    ASSUME Typed, Ages
    PROVE  /\ Overlooked \in Kinds
           /\ Overlooked = "nothing" => vouched.changes = outside
  BY DEF Overlooked, Kinds, Typed, StoreTyped, RequestsTyped, Ages

\* A connection kept, or opened as the file is now, under whatever label.
Like(now, before) ==
    \/ now.opened = before.opened /\ now.image = before.image
    \/ now.opened = generation /\ now.image = disk.image

\* A step of t off the look's lock: what every action of a request that leaves the file and
\* what is known of it alone does, whatever else it does.
Aside(t) ==
    /\ UNCHANGED <<disk, outside, file, damaged, generation, due, vouched, watcher, looked>>
    /\ pc[t] \notin Holding /\ pc'[t] \notin Holding
    /\ \A u \in Threads \ {t} :
          pc'[u] = pc[u] /\ unseen'[u] = unseen[u] /\ reader'[u] = reader[u]
    /\ Like(reader'[t], reader[t]) /\ Like(writing', writing)
    /\ writing' # writing => writer = t
    /\ uncheckpointed' <= commits'

\* What a request knows survives a step of another that keeps what let it in.
LEMMA OthersOwn ==
    ASSUME NEW u \in Threads, Own(u), pc'[u] = pc[u], reader'[u] = reader[u],
           unseen'[u] = "nothing" => unseen[u] = "nothing",
           pc[u] = "compare" /\ damaged' => damaged \/ unseen'[u] # "nothing",
           Passed => Passed' /\ disk'.image = disk.image /\ (vouched.folded => vouched'.folded),
           pc[u] \in {"label writer", "commit"} => writing' = writing,
           vouched.folded \in BOOLEAN
    PROVE  Own(u)'
<1> DEFINE P == Passed
<1>1. P => P' BY DEF P
<1> HIDE DEF P
<1>2. CASE unseen'[u] # "nothing" BY <1>2 DEF Own
<1>3. CASE unseen'[u] = "nothing"
  <2>1. pc[u] = "compare" => ~damaged' BY <1>3 DEF Own
  <2>2. pc[u] \in LetIn => Passed /\ Passed' BY <1>3 DEF Own
  <2>3. pc[u] \in {"reading", "label writer", "commit"} => pc[u] \in LetIn
    BY DEF LetIn, Readying
  <2>4. pc[u] = "reading" /\ ~vouched'.folded => reader'[u].image = disk'.image
    BY <1>3, <2>2, <2>3 DEF Own
  <2>5. pc[u] = "label writer" /\ ~vouched'.folded => writing'.image = disk'.image
    BY <1>3, <2>2, <2>3 DEF Own
  <2>6. pc[u] = "commit" /\ ~vouched'.folded /\ ~Mislabelled' => writing'.image = disk'.image
    BY <1>3, <2>2, <2>3 DEF Own, Mislabelled
  <2> QED BY <2>1, <2>2, <2>4, <2>5, <2>6 DEF Own
<1> QED BY <1>2, <1>3

\* A step off the lock that leaves the file alone changes nothing of what is known of it.
LEMMA AsideFacts ==
    ASSUME NEW t \in Threads, Locks, Aside(t)
    PROVE  /\ Stat' = Stat /\ (Sound' <=> Sound) /\ (Cause' <=> Cause)
           /\ \A places \in SUBSET Holding : At(places)' <=> At(places)
           /\ Passed' <=> Passed
<1>1. Stat' = Stat /\ (Sound' <=> Sound) /\ (Cause' <=> Cause)
  BY DEF Aside, Stat, Sound, SoundFor, Cause
<1>2. \A places \in SUBSET Holding : At(places)' <=> At(places)
  BY DEF Aside, At, Locks, LocksOf
<1>3. Deciding \in SUBSET Holding /\ Folded \in SUBSET Holding
  BY DEF Holding
<1>4. Passed' <=> Passed
  BY <1>1, <1>2, <1>3 DEF Passed, Aside
<1> QED BY <1>1, <1>2, <1>4

\* So it keeps the invariant, whatever connection the thread opens.
LEMMA AsideKeeps ==
    ASSUME NEW t \in Threads, WatchInv, Aside(t), Typed', Own(t)'
    PROVE  Ages' /\ Known' /\ AtLock' /\ \A u \in Threads : Own(u)'
<1> USE DEF WatchInv
<1>1. Stat' = Stat /\ (Sound' <=> Sound) /\ (Cause' <=> Cause) /\ (Passed' <=> Passed)
  BY AsideFacts
<1>2. \A places \in SUBSET Holding : At(places)' <=> At(places)
  BY AsideFacts
<1>3. watcher \in Threads =>
         watcher # t /\ pc'[watcher] = pc[watcher] /\ unseen'[watcher] = unseen[watcher]
  BY DEF Aside, Locks, LocksOf
<1>4. (Deciding \cup {"judge sound"}) \in SUBSET Holding /\ Deciding \in SUBSET Holding
      /\ Folded \in SUBSET Holding /\ {"judge", "folded damaged"} \in SUBSET Holding
  BY DEF Deciding, Folded, Holding
<1>6. ASSUME Fresh PROVE Fresh'
  <2>1. \A u \in Threads : FreshOf(reader[u])' BY <1>6 DEF Fresh, FreshOf, Aside, Like
  <2>2. FreshOf(writing)' BY <1>6 DEF Fresh, FreshOf, Aside, Like
  <2> QED BY <2>1, <2>2 DEF Fresh
<1>7. Ages'
  BY DEF Ages, Aside
<1>8. Known'
  BY <1>1, <1>2, <1>4, <1>6 DEF Known, Aside
<1>9. AtLock'
  BY <1>1, <1>3, <1>6 DEF AtLock, Aside
<1>10. ASSUME NEW u \in Threads PROVE Own(u)'
  <2>1. CASE u # t
    <3>1. pc[u] \in {"label writer", "commit"} => writing' = writing
      BY <2>1 DEF Aside, Locks, LocksOf, Readying
    <3> QED BY <2>1, <1>1, <3>1, OthersOwn DEF Aside, Typed, StoreTyped, RequestsTyped
  <2> QED BY <2>1
<1> QED BY <1>7, <1>8, <1>9, <1>10

\* The locks stay told by the places when only one thread moves.
LEMMA LocksKept ==
    ASSUME Locks, NEW t \in Threads, LocksOf(t)',
           \A u \in Threads \ {t} :
               /\ pc'[u] = pc[u] /\ task'[u] = task[u]
               /\ watcher' = u <=> watcher = u
               /\ writer' = u <=> writer = u
               /\ writer = u => commits' = commits
    PROVE  Locks'
  BY DEF Locks, LocksOf

\* The types of what requests keep, from those of its parts.
LEMMA RequestsTypedKept ==
    ASSUME Locks',
           writer' \in Threads \cup {NoOne},
           pc' \in [Threads -> Places], task' \in [Threads -> Tasks],
           unseen' \in [Threads -> Kinds], reader' \in [Threads -> Connections],
           writing' \in Connections,
           commits' \in 0..MaxCommits, uncheckpointed' \in 0..MaxCommits
    PROVE  RequestsTyped'
<1>1. writer' # NoOne => task'[writer'] \in Writes
  BY DEF Locks, LocksOf
<1> QED BY <1>1 DEF RequestsTyped

\* And those of the store and its lock, when neither changes.
LEMMA StoreTypedKept ==
    ASSUME StoreTyped,
           UNCHANGED <<disk, outside, file, damaged, generation, due, vouched, watcher,
                       looked>>
    PROVE  StoreTyped'
<1>1. damaged' \in BOOLEAN /\ due' \in BOOLEAN
  BY Zenon DEF StoreTyped
<1> QED BY <1>1 DEF StoreTyped

\* A request's end: the thread is idle, holds the store's lock no more, and no other thread moves.
LEMMA LetsGoFacts ==
    ASSUME Typed, NEW t \in Threads, LetsGo(t)
    PROVE  /\ pc' \in [Threads -> Places] /\ task' \in [Threads -> Tasks]
           /\ writer' \in Threads \cup {NoOne} /\ writer' # t
           /\ pc'[t] = "idle" /\ task'[t] = "read"
           /\ \A u \in Threads \ {t} :
                 pc'[u] = pc[u] /\ task'[u] = task[u] /\ (writer' = u <=> writer = u)
  BY StoreWatchAssumption DEF LetsGo, Goes, Typed, StoreTyped, RequestsTyped, Places, Tasks

\* A request that ends has nothing behind it.
LEMMA EndsFacts ==
    ASSUME Typed, NEW t \in Threads, Ends(t)
    PROVE  /\ unseen' \in [Threads -> Kinds] /\ unseen'[t] = "nothing"
           /\ \A u \in Threads \ {t} : unseen'[u] = unseen[u]
  BY DEF Ends, Typed, StoreTyped, RequestsTyped, Kinds

\* A thread that ended its request holds no lock, and knows nothing.
LEMMA GoneIsFree ==
    ASSUME Typed, NEW t \in Threads, LetsGo(t), watcher' # t
    PROVE  LocksOf(t)' /\ Own(t)'
  BY LetsGoFacts DEF LocksOf, Own, Writes, AfterCommit, Folded, LetIn, Readying, Holding, Deciding

\* A request begins (_reader, _ready_to_write).
LEMMA StartKeeps ==
    ASSUME NEW t \in Threads, NEW what \in Tasks, WatchInv, Start(t, what)
    PROVE  WatchInv'
<1> USE StoreWatchAssumption DEF WatchInv
<1>1. /\ UNCHANGED <<disk, outside, file, damaged, generation, due, vouched, watcher,
                     looked, writing, commits, uncheckpointed, reader, unseen>>
      /\ pc' = [pc EXCEPT ![t] = "look"] /\ task' = [task EXCEPT ![t] = what]
      /\ pc[t] = "idle"
  BY DEF Start, Goes, store, watch, own
<1>2. /\ writer' \in Threads \cup {NoOne}
      /\ writer' = t <=> what \in Writes
      /\ writer' = t => commits < MaxCommits
      /\ \A u \in Threads \ {t} : writer' = u <=> writer = u
  <2>1. writer # t
    BY <1>1 DEF Locks, LocksOf, Writes
  <2> QED BY <2>1, StoreWatchAssumption DEF Start, Typed, RequestsTyped
<1>3. LocksOf(t)'
  <2>1. pc'[t] = "look" /\ task'[t] = what /\ watcher # t /\ commits' = commits
    BY <1>1 DEF Locks, LocksOf, Typed, RequestsTyped, Holding, Deciding, Folded
  <2> QED BY <1>1, <1>2, <2>1 DEF LocksOf, AfterCommit, Readying, Holding, Deciding, Folded
<1>4. Locks'
  BY <1>1, <1>2, <1>3, LocksKept DEF Typed, StoreTyped, RequestsTyped
<1>5. Typed'
  BY <1>1, <1>2, <1>4, RequestsTypedKept, StoreTypedKept
     DEF Typed, StoreTyped, RequestsTyped, Places
<1>6. Aside(t)
  BY <1>1 DEF Aside, Like, Typed, StoreTyped, RequestsTyped, Ages, Holding, Deciding, Folded
<1>7. Own(t)'
  BY <1>1 DEF Own, Typed, StoreTyped, RequestsTyped, LetIn, Readying
<1> QED BY <1>4, <1>5, <1>6, <1>7, AsideKeeps

\* The look asks whether the file is refused (_watch).
LEMMA LookDamagedKeeps ==
    ASSUME NEW t \in Threads, WatchInv, LookDamaged(t)
    PROVE  WatchInv'
<1> USE StoreWatchAssumption DEF WatchInv
<1>1. /\ UNCHANGED <<disk, outside, file, damaged, generation, due, vouched, watcher,
                     looked, writing, commits, uncheckpointed, reader, unseen, writer, task>>
      /\ pc' = [pc EXCEPT ![t] = IF damaged THEN "wait" ELSE "compare"]
      /\ pc[t] = "look"
  BY DEF LookDamaged, Goes, store, watch, own, request
<1>2. pc' \in [Threads -> Places] /\ pc'[t] = IF damaged THEN "wait" ELSE "compare"
  BY <1>1 DEF Typed, StoreTyped, RequestsTyped, Places
<1>3. LocksOf(t)'
  BY <1>1, <1>2 DEF Locks, LocksOf, AfterCommit, Readying, Holding, Deciding, Folded
<1>4. Locks'
  BY <1>1, <1>3, LocksKept DEF Typed, StoreTyped, RequestsTyped
<1>5. Typed'
  BY <1>1, <1>2, <1>4, RequestsTypedKept, StoreTypedKept DEF Typed, StoreTyped, RequestsTyped
<1>6. Aside(t)
  BY <1>1, <1>2 DEF Aside, Like, Typed, StoreTyped, RequestsTyped, Ages, Holding, Deciding, Folded
<1>7. Own(t)'
  BY <1>1, <1>2 DEF Own, LetIn, Readying
<1> QED BY <1>4, <1>5, <1>6, <1>7, AsideKeeps

\* The look compares the stat (_watch): what lets the request in holds of the file.
LEMMA LookFileKeeps ==
    ASSUME NEW t \in Threads, WatchInv, LookFile(t)
    PROVE  WatchInv'
<1> USE StoreWatchAssumption DEF WatchInv
<1>1. /\ UNCHANGED <<disk, outside, file, damaged, generation, due, vouched, watcher,
                     looked, writing, commits, uncheckpointed, reader, writer, task>>
      /\ pc' = [pc EXCEPT ![t] = IF Stat = file THEN AfterLook(t) ELSE "wait"]
      /\ pc[t] = "compare"
  BY DEF LookFile, Goes, store, watch, own
<1>2. /\ task[t] \in Writes => AfterLook(t) = "ready"
      /\ task[t] \notin Writes => AfterLook(t) \in {"connect", "whole"}
  BY DEF AfterLook, Typed, StoreTyped, RequestsTyped, Tasks, Writes
<1>3. /\ pc' \in [Threads -> Places]
      /\ pc'[t] = IF Stat = file THEN AfterLook(t) ELSE "wait"
  BY <1>1, <1>2 DEF Typed, StoreTyped, RequestsTyped, Places, LetIn, Readying
<1>4. LocksOf(t)'
  BY <1>1, <1>2, <1>3 DEF Locks, LocksOf, AfterCommit, Readying, Holding, Deciding, Folded
<1>5. Locks'
  BY <1>1, <1>4, LocksKept DEF Typed, StoreTyped, RequestsTyped
<1>6. PICK k \in Kinds : /\ unseen' = [unseen EXCEPT ![t] = k]
                         /\ k = "nothing" => /\ unseen[t] = "nothing" /\ ~Unpublished
                                             /\ vouched.changes = outside
  <2> DEFINE told == IF Unpublished THEN "verdict" ELSE "nothing"
  <2>1. unseen' = [unseen EXCEPT ![t] = With(With(unseen[t], Overlooked), told)]
    BY DEF LookFile
  <2>2. unseen[t] \in Kinds /\ told \in Kinds /\ (told = "nothing" => ~Unpublished)
    BY DEF Typed, StoreTyped, RequestsTyped, Kinds
  <2> DEFINE inner == With(unseen[t], Overlooked)
  <2> HIDE DEF told
  <2>3. /\ inner \in Kinds
        /\ inner = "nothing" => unseen[t] = "nothing" /\ vouched.changes = outside
    BY <2>2, OverlookedFacts, WithFacts
  <2>4. unseen' = [unseen EXCEPT ![t] = With(inner, told)]
    BY <2>1
  <2> HIDE DEF inner
  <2>5. /\ With(inner, told) \in Kinds
        /\ With(inner, told) = "nothing" => inner = "nothing" /\ told = "nothing"
    BY <2>2, <2>3, WithFacts
  <2> QED BY <2>2, <2>3, <2>4, <2>5
<1>7. Typed'
  BY <1>1, <1>3, <1>5, <1>6, RequestsTypedKept, StoreTypedKept DEF Typed, StoreTyped, RequestsTyped
<1>8. Aside(t)
  BY <1>1, <1>2, <1>3, <1>6
     DEF Aside, Like, Typed, StoreTyped, RequestsTyped, Ages, Holding, Deciding, Folded
<1>9. ASSUME unseen'[t] = "nothing", Stat = file PROVE Passed
  <2>1. /\ unseen[t] = "nothing" /\ vouched.changes = outside
        /\ ~At({"judge", "folded damaged"})
    BY <1>6, <1>9, UnpublishedAt DEF Typed, StoreTyped, RequestsTyped
  <2>2. Sound /\ ~damaged
    BY <1>1, <2>1 DEF Own, Known
  <2>3. ~Cause
    BY <1>9, <2>2 DEF Cause, Stat, Sound, SoundFor, Typed, StoreTyped, RequestsTyped
  <2>4. ~At(Deciding)
    BY <2>1, <2>3 DEF At, AtLock, Deciding
  <2> QED BY <1>9, <2>1, <2>2, <2>4 DEF Passed
<1>10. Passed => Passed'
  BY <1>8, AsideFacts
<1>11. Own(t)'
  BY <1>2, <1>3, <1>9, <1>10 DEF Own, LetIn, Readying
<1> QED BY <1>5, <1>7, <1>8, <1>11, AsideKeeps

\* A read takes its connection (_reader): one of the present generation was opened in it, and
\* any other is labelled anew before it is opened.
LEMMA ConnectKeeps ==
    ASSUME NEW t \in Threads, WatchInv, Labelled, Connect(t)
    PROVE  WatchInv'
<1> USE StoreWatchAssumption DEF WatchInv
<1>1. /\ UNCHANGED <<disk, outside, file, damaged, generation, due, vouched, watcher,
                     looked, writing, commits, uncheckpointed, unseen, writer, task>>
      /\ pc[t] = "connect"
  BY DEF Connect, store, watch, own, request
<1>2. /\ pc' \in [Threads -> Places]
      /\ pc'[t] = IF reader[t].generation = generation THEN "reading" ELSE "open reader"
      /\ \A u \in Threads \ {t} : pc'[u] = pc[u]
  BY DEF Connect, Goes, Typed, RequestsTyped, Places, LetIn
<1>3. PICK c \in Connections :
          /\ reader' = [reader EXCEPT ![t] = c]
          /\ c.opened = reader[t].opened /\ c.image = reader[t].image
  <2>1. reader[t] \in Connections /\ generation \in Nat
    BY DEF Typed, StoreTyped, RequestsTyped
  <2>2. CASE reader[t].generation = generation
    BY <2>1, <2>2 DEF Connect, Typed, RequestsTyped
  <2>3. CASE reader[t].generation # generation
    <3>1. reader' = [reader EXCEPT ![t] = [reader[t] EXCEPT !.generation = generation]]
      BY <2>3 DEF Connect
    <3> QED BY <2>1, <3>1 DEF Connections
  <2> QED BY <2>2, <2>3
<1>4. reader' \in [Threads -> Connections] /\ reader'[t] = c
      /\ \A u \in Threads \ {t} : reader'[u] = reader[u]
  BY <1>3 DEF Typed, RequestsTyped
<1>5. LocksOf(t)'
  BY <1>1, <1>2 DEF Locks, LocksOf, AfterCommit, Readying, Holding, Deciding, Folded
<1>6. Locks'
  BY <1>1, <1>2, <1>5, LocksKept
<1>7. Typed'
  BY <1>1, <1>2, <1>4, <1>6, RequestsTypedKept, StoreTypedKept DEF Typed, RequestsTyped
<1>8. Aside(t)
  BY <1>1, <1>2, <1>3, <1>4 DEF Aside, Like, Ages, Holding, Deciding, Folded
<1>9. Own(t)'
  <2>1. unseen[t] = "nothing" => Passed /\ Passed'
    BY <1>1, <1>8, AsideFacts DEF Own, LetIn
  <2>2. pc'[t] = "reading" => reader[t].opened = generation
    <3>1. reader[t] \in Connections /\ generation \in Nat
      BY DEF Typed, StoreTyped, RequestsTyped
    <3>2. pc'[t] = "reading" => reader[t].generation = generation
      BY <1>2
    <3>3. reader[t].opened <= generation /\ reader[t].generation <= reader[t].opened
      BY <1>1 DEF Labelled
    <3> QED BY <3>1, <3>2, <3>3 DEF Connections
  <2>3. unseen[t] = "nothing" /\ ~vouched.folded /\ pc'[t] = "reading" =>
            reader[t].image = disk.image
    BY <2>1, <2>2 DEF Passed, Known, Fresh, FreshOf
  <2> QED BY <1>1, <1>2, <1>3, <1>4, <2>1, <2>3 DEF Own
<1> QED BY <1>6, <1>7, <1>8, <1>9, AsideKeeps

\* It is opened (_open_reader).
LEMMA OpenReaderKeeps ==
    ASSUME NEW t \in Threads, WatchInv, OpenReader(t)
    PROVE  WatchInv'
<1> USE StoreWatchAssumption DEF WatchInv
<1>1. /\ UNCHANGED <<disk, outside, file, damaged, generation, due, vouched, watcher,
                     looked, writing, commits, uncheckpointed, unseen, writer, task>>
      /\ pc[t] = "open reader"
  BY DEF OpenReader, store, watch, own, request
<1>2. /\ pc' \in [Threads -> Places] /\ pc'[t] = "reading"
      /\ \A u \in Threads \ {t} : pc'[u] = pc[u]
  BY DEF OpenReader, Goes, Typed, RequestsTyped, Places, LetIn
<1>3. /\ reader' \in [Threads -> Connections]
      /\ reader'[t].opened = generation /\ reader'[t].image = disk.image
      /\ \A u \in Threads \ {t} : reader'[u] = reader[u]
  <2>1. reader[t] \in Connections /\ generation \in Nat /\ disk.image \in 0..MaxOutside
    BY DEF Typed, StoreTyped, RequestsTyped
  <2>2. Opened(reader[t].generation) \in Connections
    BY <2>1 DEF Opened, Connections
  <2>3. reader' = [reader EXCEPT ![t] = Opened(reader[t].generation)]
    BY DEF OpenReader
  <2> QED BY <2>2, <2>3 DEF Typed, RequestsTyped, Opened
<1>4. LocksOf(t)'
  BY <1>1, <1>2 DEF Locks, LocksOf, AfterCommit, Readying, Holding, Deciding, Folded
<1>5. Locks'
  BY <1>1, <1>2, <1>4, LocksKept
<1>6. Typed'
  BY <1>1, <1>2, <1>3, <1>5, RequestsTypedKept, StoreTypedKept DEF Typed, RequestsTyped
<1>7. Aside(t)
  BY <1>1, <1>2, <1>3 DEF Aside, Like, Ages, Holding, Deciding, Folded
<1>8. Own(t)'
  <2>1. unseen[t] = "nothing" => Passed'
    BY <1>1, <1>7, AsideFacts DEF Own, LetIn
  <2> QED BY <1>1, <1>2, <1>3, <2>1 DEF Own
<1> QED BY <1>5, <1>6, <1>7, <1>8, AsideKeeps

\* A read ends.
LEMMA FinishKeeps ==
    ASSUME NEW t \in Threads, WatchInv, Finish(t)
    PROVE  WatchInv'
<1> USE StoreWatchAssumption DEF WatchInv
<1>1. /\ UNCHANGED <<disk, outside, file, damaged, generation, due, vouched, watcher,
                     looked, writing, commits, uncheckpointed, reader>>
      /\ pc[t] = "reading" /\ Ends(t)
  BY DEF Finish, store, watch, own
<1>2. LetsGo(t)
  BY <1>1 DEF Ends
<1>3. LocksOf(t)' /\ Own(t)'
  <2>1. watcher # t
    BY <1>1 DEF Locks, LocksOf, Holding, Deciding, Folded
  <2> QED BY <1>1, <1>2, <2>1, GoneIsFree
<1>4. Locks'
  BY <1>1, <1>2, <1>3, LetsGoFacts, LocksKept
<1>5. Typed'
  BY <1>1, <1>2, <1>4, LetsGoFacts, EndsFacts, RequestsTypedKept, StoreTypedKept
     DEF Typed, StoreTyped, RequestsTyped
<1>6. Aside(t)
  BY <1>1, <1>2, LetsGoFacts, EndsFacts DEF Aside, Like, Ages, Holding, Deciding, Folded
<1> QED BY <1>3, <1>4, <1>5, <1>6, AsideKeeps

\* A write takes the writing connection (_ready_to_write): one of the present generation, with
\* the label of the pages it has, has those of the file.
LEMMA ReadyKeeps ==
    ASSUME NEW t \in Threads, WatchInv, Ready(t)
    PROVE  WatchInv'
<1> USE StoreWatchAssumption DEF WatchInv
<1>1. /\ UNCHANGED <<disk, outside, file, damaged, generation, due, vouched, watcher, looked,
                     writing, reader, commits, uncheckpointed, unseen, writer, task>>
      /\ pc[t] = "ready"
  BY DEF Ready, store, watch, own, request
<1>2. /\ pc' \in [Threads -> Places]
      /\ pc'[t] = IF writing.generation = generation THEN "commit" ELSE "open writer"
      /\ \A u \in Threads \ {t} : pc'[u] = pc[u]
  BY DEF Ready, Goes, Typed, RequestsTyped, Places, LetIn, Readying
<1>3. LocksOf(t)'
  BY <1>1, <1>2 DEF Locks, LocksOf, AfterCommit, Readying, Holding, Deciding, Folded
<1>4. Locks'
  BY <1>1, <1>2, <1>3, LocksKept
<1>5. Typed'
  BY <1>1, <1>2, <1>4, RequestsTypedKept, StoreTypedKept DEF Typed, RequestsTyped
<1>6. Aside(t)
  BY <1>1, <1>2 DEF Aside, Like, Ages, Holding, Deciding, Folded
<1>7. Own(t)'
  <2>1. unseen[t] = "nothing" => Passed /\ Passed'
    BY <1>1, <1>6, AsideFacts DEF Own, LetIn, Readying
  <2>2. /\ unseen[t] = "nothing" /\ ~vouched.folded
        /\ writing.generation = generation /\ ~Mislabelled
        => writing.image = disk.image
    BY <2>1 DEF Passed, Known, Fresh, FreshOf, Mislabelled
  <2>3. Mislabelled' <=> Mislabelled
    BY <1>1 DEF Mislabelled
  <2> QED BY <1>1, <1>2, <2>1, <2>2, <2>3 DEF Own
<1> QED BY <1>4, <1>5, <1>6, <1>7, AsideKeeps

\* It is opened (_open_writer).
LEMMA OpenWriterKeeps ==
    ASSUME NEW t \in Threads, WatchInv, OpenWriter(t)
    PROVE  WatchInv'
<1> USE StoreWatchAssumption DEF WatchInv
<1>1. /\ UNCHANGED <<disk, outside, file, damaged, generation, due, vouched, watcher, looked,
                     reader, commits, uncheckpointed, unseen, writer, task>>
      /\ pc[t] = "open writer"
  BY DEF OpenWriter, store, watch, request
<1>2. /\ pc' \in [Threads -> Places] /\ pc'[t] = "label writer"
      /\ \A u \in Threads \ {t} : pc'[u] = pc[u]
  BY DEF OpenWriter, Goes, Typed, RequestsTyped, Places, LetIn, Readying
<1>3. /\ writing' \in Connections
      /\ writing'.opened = generation /\ writing'.image = disk.image
  BY DEF OpenWriter, Opened, Connections, Typed, StoreTyped, RequestsTyped
<1>4. writer = t
  BY <1>1 DEF Locks, LocksOf, Readying
<1>5. LocksOf(t)'
  BY <1>1, <1>2 DEF Locks, LocksOf, AfterCommit, Readying, Holding, Deciding, Folded
<1>6. Locks'
  BY <1>1, <1>2, <1>5, LocksKept
<1>7. Typed'
  BY <1>1, <1>2, <1>3, <1>6, RequestsTypedKept, StoreTypedKept DEF Typed, RequestsTyped
<1>8. Aside(t)
  BY <1>1, <1>2, <1>3, <1>4 DEF Aside, Like, Ages, Holding, Deciding, Folded
<1>9. Own(t)'
  <2>1. unseen[t] = "nothing" => Passed'
    BY <1>1, <1>8, AsideFacts DEF Own, LetIn, Readying
  <2> QED BY <1>1, <1>2, <1>3, <2>1 DEF Own
<1> QED BY <1>6, <1>7, <1>8, <1>9, AsideKeeps

\* It is labelled, with the generation there is by then (_ready_to_write).
LEMMA LabelWriterKeeps ==
    ASSUME NEW t \in Threads, WatchInv, LabelWriter(t)
    PROVE  WatchInv'
<1> USE StoreWatchAssumption DEF WatchInv
<1>1. /\ UNCHANGED <<disk, outside, file, damaged, generation, due, vouched, watcher, looked,
                     reader, commits, uncheckpointed, unseen, writer, task>>
      /\ pc[t] = "label writer"
  BY DEF LabelWriter, store, watch, request
<1>2. /\ pc' \in [Threads -> Places] /\ pc'[t] = "commit"
      /\ \A u \in Threads \ {t} : pc'[u] = pc[u]
  BY DEF LabelWriter, Goes, Typed, RequestsTyped, Places, LetIn, Readying
<1>3. /\ writing' \in Connections
      /\ writing'.opened = writing.opened /\ writing'.image = writing.image
  BY DEF LabelWriter, Connections, Typed, StoreTyped, RequestsTyped
<1>4. writer = t
  BY <1>1 DEF Locks, LocksOf, Readying
<1>5. LocksOf(t)'
  BY <1>1, <1>2 DEF Locks, LocksOf, AfterCommit, Readying, Holding, Deciding, Folded
<1>6. Locks'
  BY <1>1, <1>2, <1>5, LocksKept
<1>7. Typed'
  BY <1>1, <1>2, <1>3, <1>6, RequestsTypedKept, StoreTypedKept DEF Typed, RequestsTyped
<1>8. Aside(t)
  BY <1>1, <1>2, <1>3, <1>4 DEF Aside, Like, Ages, Holding, Deciding, Folded
<1>9. Own(t)'
  <2>1. unseen[t] = "nothing" => Passed'
    BY <1>1, <1>8, AsideFacts DEF Own, LetIn, Readying
  <2>2. unseen[t] = "nothing" /\ ~vouched.folded => writing.image = disk.image
    BY <1>1 DEF Own
  <2> QED BY <1>1, <1>2, <1>3, <2>1, <2>2 DEF Own
<1> QED BY <1>6, <1>7, <1>8, <1>9, AsideKeeps

\* A write commits.
LEMMA CommitKeeps ==
    ASSUME NEW t \in Threads, WatchInv, Commit(t)
    PROVE  WatchInv'
<1> USE StoreWatchAssumption DEF WatchInv
<1>1. /\ UNCHANGED <<disk, outside, file, damaged, generation, due, vouched, watcher,
                     looked, reader, writing>>
      /\ pc[t] = "commit" /\ commits' = commits + 1 /\ uncheckpointed' = uncheckpointed + 1
  BY DEF Commit, store, watch
<1>2. /\ writer = t /\ task[t] \in Writes /\ watcher # t /\ commits < MaxCommits
      /\ \A u \in Threads \ {t} : writer # u
  BY <1>1 DEF Locks, LocksOf, AfterCommit, Readying, Holding, Deciding, Folded
<1>3. /\ commits' \in 0..MaxCommits /\ uncheckpointed' \in 0..MaxCommits
      /\ uncheckpointed' <= commits'
  BY <1>1, <1>2 DEF Typed, StoreTyped, RequestsTyped, Ages
<1>4. CASE Goes(t, "fold") /\ UNCHANGED request
  <2>1. /\ pc' \in [Threads -> Places] /\ pc'[t] = "fold"
        /\ \A u \in Threads \ {t} : pc'[u] = pc[u]
        /\ UNCHANGED <<writer, task, unseen>>
    BY <1>4 DEF Goes, request, Typed, StoreTyped, RequestsTyped, Places
  <2>2. LocksOf(t)' /\ Own(t)'
    BY <1>1, <1>2, <2>1 DEF LocksOf, Own, AfterCommit, Holding, Deciding, Folded, LetIn, Readying
  <2>3. Locks'
    BY <1>1, <1>2, <2>1, <2>2, LocksKept
  <2>4. Typed'
    BY <1>1, <1>3, <2>1, <2>3, RequestsTypedKept, StoreTypedKept
       DEF Typed, StoreTyped, RequestsTyped
  <2>5. Aside(t)
    BY <1>1, <1>3, <2>1 DEF Aside, Like, Holding, Deciding, Folded
  <2> QED BY <2>2, <2>3, <2>4, <2>5, AsideKeeps
<1>5. CASE Ends(t)
  <2>1. LetsGo(t)
    BY <1>5 DEF Ends
  <2>2. LocksOf(t)' /\ Own(t)'
    BY <1>1, <1>2, <2>1, GoneIsFree
  <2>3. Locks'
    BY <1>1, <1>2, <2>1, <2>2, LetsGoFacts, LocksKept
  <2>4. Typed'
    BY <1>1, <1>3, <1>5, <2>1, <2>3, LetsGoFacts, EndsFacts, RequestsTypedKept,
       StoreTypedKept
       DEF Typed, StoreTyped, RequestsTyped
  <2>5. Aside(t)
    BY <1>1, <1>3, <1>5, <2>1, LetsGoFacts, EndsFacts DEF Aside, Like, Holding, Deciding, Folded
  <2> QED BY <2>2, <2>3, <2>4, <2>5, AsideKeeps
<1> QED BY <1>4, <1>5 DEF Commit

\* The same for all of them, when the thread that steps knows what it should.
LEMMA OwnKept ==
    ASSUME NEW t \in Threads, Own(t)', \A u \in Threads : Own(u),
           vouched.folded \in BOOLEAN,
           Passed => Passed' /\ disk'.image = disk.image /\ (vouched.folded => vouched'.folded),
           UNCHANGED <<reader, writing>>,
           \A u \in Threads \ {t} :
               /\ pc'[u] = pc[u]
               /\ unseen'[u] = "nothing" => unseen[u] = "nothing"
               /\ pc[u] = "compare" /\ damaged' => damaged \/ unseen'[u] # "nothing"
    PROVE  \A u \in Threads : Own(u)'
<1> SUFFICES ASSUME NEW u \in Threads \ {t} PROVE Own(u)'
  OBVIOUS
<1> DEFINE P == Passed
<1>1. P => P' /\ disk'.image = disk.image /\ (vouched.folded => vouched'.folded)
  BY DEF P
<1> HIDE DEF P
<1> QED BY <1>1, OthersOwn DEF P

\* The look under the lock (_watch): a check begins with its cause, or the verdict stands.
LEMMA TakeWatchKeeps ==
    ASSUME NEW t \in Threads, WatchInv, TakeWatch(t)
    PROVE  WatchInv'
<1> USE StoreWatchAssumption DEF WatchInv
<1>1. /\ UNCHANGED <<disk, outside, file, damaged, generation, due, vouched, writing,
                     commits, uncheckpointed, writer, task, reader>>
      /\ pc[t] = "wait" /\ watcher = NoOne /\ watcher' = t
      /\ \A u \in Threads : watcher # u
  BY DEF TakeWatch, store, own
<1>2. Stat' = Stat /\ (Sound' <=> Sound) /\ (Fresh => Fresh') /\ Stat \in Stats
  BY <1>1 DEF Stat, Sound, SoundFor, Fresh, FreshOf, Typed, StoreTyped, Stats
<1>3. \A places : ~At(places)
  BY <1>1 DEF At
<1>4. CASE Stat # file \/ Again
  <2>1. /\ looked' = [stat |-> Stat, changes |-> 0] /\ unseen' = unseen
        /\ pc' \in [Threads -> Places] /\ pc'[t] = "check"
        /\ \A u \in Threads \ {t} : pc'[u] = pc[u]
    BY <1>4 DEF TakeWatch, Goes, Typed, RequestsTyped, Places, Holding, Deciding
  <2>2. LocksOf(t)' /\ Own(t)'
    BY <1>1, <2>1 DEF Locks, LocksOf, Own, AfterCommit, Holding, Deciding, Folded, LetIn, Readying
  <2>3. Locks'
    BY <1>1, <2>1, <2>2, LocksKept
  <2>4. Typed'
    <3>1. damaged' \in BOOLEAN /\ due' \in BOOLEAN
      BY <1>1, Zenon DEF Typed, StoreTyped
    <3>2. StoreTyped'
      BY <1>1, <1>2, <2>1, <3>1 DEF Typed, StoreTyped
    <3>3. RequestsTyped'
      BY <1>1, <2>1, <2>3, RequestsTypedKept DEF Typed, RequestsTyped
    <3> QED BY <3>2, <3>3 DEF Typed
  <2>5. Ages'
    <3>1. looked'.stat.stamp = disk.stamp /\ disk.stamp \in Nat
      BY <2>1 DEF Stat, Typed, StoreTyped
    <3> QED BY <1>1, <3>1 DEF Ages
  <2>6. outside # 0 /\ ~Passed
    BY <1>3, <1>4 DEF Known, Again, Passed
  <2>7. Known'
    BY <1>1, <1>2, <1>3, <2>1, <2>6 DEF Known, At
  <2>8. Cause
    BY <1>4 DEF Cause, Again, Stat, Ages, Typed, StoreTyped, Stats
  <2>9. AtLock'
    <3>1. looked'.stat = Stat /\ Stat.identity = disk.identity
      BY <2>1 DEF Stat
    <3> QED BY <1>1, <1>2, <1>4, <2>1, <2>8, <3>1 DEF AtLock, Again, Cause
  <2>10. \A u \in Threads : Own(u)'
    BY <1>1, <2>1, <2>2, <2>6, OwnKept DEF Typed, StoreTyped
  <2> QED BY <2>3, <2>4, <2>5, <2>7, <2>9, <2>10
<1>5. CASE Stat = file /\ ~Again
  <2>1. PICK k \in Kinds : /\ unseen' = [unseen EXCEPT ![t] = k]
                           /\ k = "nothing" => unseen[t] = "nothing" /\ vouched.changes = outside
    <3>1. unseen' = [unseen EXCEPT ![t] = With(unseen[t], Overlooked)]
      BY <1>5 DEF TakeWatch
    <3>2. /\ With(unseen[t], Overlooked) \in Kinds
          /\ With(unseen[t], Overlooked) = "nothing" =>
                unseen[t] = "nothing" /\ vouched.changes = outside
      BY OverlookedFacts, WithFacts DEF Typed, RequestsTyped
    <3> QED BY <3>1, <3>2
  <2>2. /\ looked' = looked
        /\ pc' \in [Threads -> Places] /\ pc'[t] = "verdict"
        /\ \A u \in Threads \ {t} : pc'[u] = pc[u]
    BY <1>5 DEF TakeWatch, Goes, Typed, RequestsTyped, Places, Holding
  <2>3. LocksOf(t)' /\ Own(t)'
    BY <1>1, <2>2 DEF Locks, LocksOf, Own, AfterCommit, Holding, Deciding, Folded, LetIn, Readying
  <2>4. Locks'
    BY <1>1, <2>2, <2>3, LocksKept
  <2>5. Typed'
    <3>1. damaged' \in BOOLEAN /\ due' \in BOOLEAN
      BY <1>1, Zenon DEF Typed, StoreTyped
    <3>2. StoreTyped'
      BY <1>1, <1>2, <2>2, <3>1 DEF Typed, StoreTyped
    <3>3. RequestsTyped'
      BY <1>1, <2>1, <2>2, <2>4, RequestsTypedKept DEF Typed, RequestsTyped
    <3> QED BY <3>2, <3>3 DEF Typed
  <2>6. Ages'
    BY <1>1, <2>2 DEF Ages
  <2>7. ~At(Deciding)' /\ ~At(Folded)' /\ ~At({"judge", "folded damaged"})'
        /\ ~At(Deciding \cup {"judge sound"})'
    BY <1>1, <2>2 DEF At, Deciding, Folded
  <2>8. Known'
    BY <1>1, <1>2, <1>3, <2>7 DEF Known
  <2>9. Passed => Passed'
    BY <1>1, <1>2, <1>3, <2>7 DEF Passed
  <2>10. AtLock'
    <3>1. unseen'[t] = "nothing" /\ ~damaged => Passed'
      BY <1>1, <1>2, <1>3, <1>5, <2>1, <2>7 DEF Passed, Known, Typed, RequestsTyped
    <3> QED BY <1>1, <2>2, <3>1 DEF AtLock
  <2>11. \A u \in Threads : Own(u)'
    BY <1>1, <2>1, <2>2, <2>3, <2>9, OwnKept DEF Typed, StoreTyped
  <2> QED BY <2>4, <2>5, <2>6, <2>8, <2>10, <2>11
<1> QED BY <1>4, <1>5

\* The check, which moves the generation of a sound file (_watch, _damage_in).
LEMMA CheckKeeps ==
    ASSUME NEW t \in Threads, WatchInv, Labelled, Check(t)
    PROVE  WatchInv'
<1> USE StoreWatchAssumption DEF WatchInv
<1>1. /\ UNCHANGED <<disk, outside, file, damaged, due, vouched, watcher, writing,
                     commits, uncheckpointed, writer, task, reader, unseen>>
      /\ pc[t] = "check"
      /\ generation' = IF SoundFor(looked.stat) THEN generation + 1 ELSE generation
      /\ looked' = [looked EXCEPT !.changes = Met]
  BY DEF Check, own, request
<1>2. /\ pc' \in [Threads -> Places]
      /\ pc'[t] = IF SoundFor(looked.stat) THEN "publish sound" ELSE "publish damaged"
      /\ \A u \in Threads \ {t} : pc'[u] = pc[u]
  BY DEF Check, Goes, Typed, RequestsTyped, Places, Holding, Deciding
<1>3. watcher = t
  BY <1>1 DEF Locks, LocksOf, Holding, Deciding
<1>4. LocksOf(t)' /\ Own(t)'
  BY <1>1, <1>2 DEF Locks, LocksOf, Own, AfterCommit, Holding, Deciding, Folded, LetIn, Readying
<1>5. Locks'
  BY <1>1, <1>2, <1>4, LocksKept
<1>6. Stat' = Stat /\ (Sound' <=> Sound) /\ (Cause' <=> Cause)
  BY <1>1 DEF Stat, Sound, SoundFor, Cause
<1>7. /\ generation \in Nat /\ generation' \in Nat /\ generation <= generation'
      /\ SoundFor(looked.stat) => generation < generation'
  BY <1>1 DEF Typed, StoreTyped
<1>8. /\ Met \in 0..MaxOutside /\ vouched.changes <= Met /\ Met <= outside
      /\ Met = outside => (Sound <=> SoundFor(looked.stat))
      /\ looked.stat = Stat => Met = outside
  <2>1. looked.stat.identity # disk.identity => vouched.changes < outside
    BY <1>1, <1>3 DEF AtLock
  <2>2. /\ vouched.changes \in 0..MaxOutside /\ outside \in 0..MaxOutside
        /\ vouched.changes <= outside
    BY DEF Typed, StoreTyped, Ages
  <2>3. looked.stat.identity = disk.identity => (Sound <=> SoundFor(looked.stat))
    BY DEF Sound, SoundFor, Stat
  <2>4. looked.stat = Stat => looked.stat.identity = disk.identity
    BY DEF Stat
  <2> QED BY <2>1, <2>2, <2>3, <2>4 DEF Met
<1>9. Typed'
  <2>1. damaged' \in BOOLEAN /\ due' \in BOOLEAN
    BY <1>1, Zenon DEF Typed, StoreTyped
  <2>2. StoreTyped'
    BY <1>1, <1>7, <1>8, <2>1 DEF Typed, StoreTyped
  <2>3. RequestsTyped'
    BY <1>1, <1>2, <1>5, RequestsTypedKept DEF Typed, RequestsTyped
  <2> QED BY <2>2, <2>3 DEF Typed
<1>10. Ages'
  <2>1. looked'.stat = looked.stat
    BY <1>1 DEF Typed, StoreTyped
  <2> QED BY <1>1, <2>1 DEF Ages
<1>11. SoundFor(looked.stat) => Fresh'
  <2>1. /\ writing.opened \in Nat /\ writing.opened <= generation
        /\ \A u \in Threads : reader[u].opened \in Nat /\ reader[u].opened <= generation
    BY DEF Labelled, Typed, RequestsTyped, Connections
  <2>2. writing' = writing /\ reader' = reader
    BY <1>1
  <2> QED BY <1>7, <2>1, <2>2 DEF Fresh, FreshOf
<1>12. ~SoundFor(looked.stat) => (Fresh' <=> Fresh)
  BY <1>1 DEF Fresh, FreshOf
<1>13. At(Deciding) /\ ~At({"judge", "folded damaged"}) /\ At(Deciding \cup {"judge sound"})
  BY <1>1, <1>3 DEF At, Deciding
<1>14. At(Deciding \cup {"judge sound"})'
  BY <1>1, <1>2, <1>3 DEF At, Deciding
<1>15. Known'
  BY <1>1, <1>6, <1>11, <1>12, <1>13 DEF Known
<1>16. AtLock'
  <2>1. looked'.changes = Met /\ looked'.stat = looked.stat
    BY <1>1 DEF Typed, StoreTyped
  <2>2. Cause /\ (unseen[t] = "nothing" => looked.stat = Stat)
    BY <1>1, <1>3 DEF AtLock
  <2> QED BY <1>1, <1>2, <1>3, <1>6, <1>8, <1>11, <2>1, <2>2 DEF AtLock
<1>17. \A u \in Threads : Own(u)'
  BY <1>1, <1>2, <1>4, <1>13, OwnKept DEF Passed, Typed, StoreTyped
<1> QED BY <1>5, <1>9, <1>10, <1>15, <1>16, <1>17

\* The file is noted as seen (_watch).
LEMMA PublishKeeps ==
    ASSUME NEW t \in Threads, WatchInv, Publish(t)
    PROVE  WatchInv'
<1> USE StoreWatchAssumption DEF WatchInv
<1>1. /\ UNCHANGED <<disk, outside, damaged, generation, due, watcher, writing,
                     commits, uncheckpointed, writer, task, reader, unseen>>
      /\ pc[t] \in {"publish sound", "publish damaged"}
      /\ file' = looked.stat /\ looked' = NoLook
      /\ vouched' = [changes |-> looked.changes, folded |-> FALSE]
  BY DEF Publish, own, request
<1>2. /\ pc' \in [Threads -> Places]
      /\ pc'[t] = IF pc[t] = "publish sound" THEN "judge sound" ELSE "judge"
      /\ \A u \in Threads \ {t} : pc'[u] = pc[u]
  BY DEF Publish, Goes, Typed, RequestsTyped, Places, Holding, Deciding
<1>3. watcher = t
  BY <1>1 DEF Locks, LocksOf, Holding, Deciding
<1>4. LocksOf(t)' /\ Own(t)'
  BY <1>1, <1>2 DEF Locks, LocksOf, Own, AfterCommit, Holding, Deciding, Folded, LetIn, Readying
<1>5. Locks'
  BY <1>1, <1>2, <1>4, LocksKept
<1>6. Stat' = Stat /\ (Sound' <=> Sound) /\ (Fresh' <=> Fresh)
  BY <1>1 DEF Stat, Sound, SoundFor, Fresh, FreshOf
<1>7. /\ looked.changes \in Nat /\ outside \in Nat /\ outside >= looked.changes
      /\ vouched'.changes = looked.changes /\ ~vouched'.folded
      /\ looked.changes = outside => /\ Sound <=> pc[t] = "publish sound"
                                     /\ Sound => Fresh
      /\ unseen[t] = "nothing" => looked.changes = outside /\ looked.stat = Stat
  <2>1. looked.changes \in Nat /\ outside \in Nat
    BY DEF Typed, StoreTyped
  <2>2. vouched'.changes = looked.changes /\ ~vouched'.folded
    BY <1>1
  <2>3. /\ looked.changes <= outside
        /\ looked.changes = outside => /\ Sound <=> pc[t] = "publish sound"
                                       /\ Sound => Fresh
        /\ unseen[t] = "nothing" => looked.changes = outside /\ looked.stat = Stat
    BY <1>1, <1>3 DEF AtLock
  <2> QED BY <2>1, <2>2, <2>3
<1>8. Typed'
  <2>1. damaged' \in BOOLEAN /\ due' \in BOOLEAN
    BY <1>1, Zenon DEF Typed, StoreTyped
  <2>2. NoLook \in [stat : Stats, changes : 0..MaxOutside]
    BY DEF NoLook, Stats
  <2>3. StoreTyped'
    BY <1>1, <2>1, <2>2 DEF Typed, StoreTyped
  <2>4. RequestsTyped'
    BY <1>1, <1>2, <1>5, RequestsTypedKept DEF Typed, RequestsTyped
  <2> QED BY <2>3, <2>4 DEF Typed
<1>9. Ages'
  <2>1. NoLook.stat.stamp = 0
    BY DEF NoLook
  <2>2. looked'.stat.stamp = 0 /\ file'.stamp = looked.stat.stamp
    BY <1>1, <2>1
  <2>3. disk.stamp \in Nat
    BY DEF Typed, StoreTyped
  <2>4. disk' = disk /\ outside' = outside
    BY <1>1
  <2>5. file'.stamp <= disk'.stamp
    BY <2>2, <2>4 DEF Ages
  <2>6. looked'.stat.stamp <= disk'.stamp
    BY <2>2, <2>3, <2>4
  <2>7. vouched'.changes <= outside'
    BY <1>7, <2>4
  <2> QED BY <1>1, <2>5, <2>6, <2>7 DEF Ages
<1>10. At(Deciding) /\ At(Deciding \cup {"judge sound"})
  BY <1>1, <1>3 DEF At, Deciding
<1>11. At({"judge", "folded damaged"})' <=> pc'[t] = "judge"
  BY <1>1, <1>2, <1>3 DEF At
<1>12. Known'
  BY <1>1, <1>2, <1>6, <1>7, <1>10, <1>11 DEF Known
<1>13. AtLock'
  BY <1>1, <1>2, <1>3, <1>6, <1>7 DEF AtLock
<1>14. \A u \in Threads : Own(u)'
  BY <1>1, <1>2, <1>4, <1>10, OwnKept DEF Passed, Typed, StoreTyped
<1> QED BY <1>5, <1>8, <1>9, <1>12, <1>13, <1>14

\* The verdict is kept (_judged).
LEMMA JudgeKeeps ==
    ASSUME NEW t \in Threads, WatchInv, Judge(t)
    PROVE  WatchInv'
<1> USE StoreWatchAssumption DEF WatchInv
<1>1. /\ UNCHANGED <<disk, outside, file, generation, vouched, watcher, looked, writing,
                     commits, uncheckpointed, writer, task, reader>>
      /\ pc[t] \in {"judge sound", "judge"}
      /\ damaged' = (pc[t] = "judge") /\ due' = FALSE
      /\ unseen' = Missed(damaged', {})
  BY DEF Judge, own, watch
<1>2. /\ pc' \in [Threads -> Places] /\ pc'[t] = "verdict"
      /\ \A u \in Threads \ {t} : pc'[u] = pc[u]
  BY DEF Judge, Goes, Typed, RequestsTyped, Places, Holding
<1>3. watcher = t
  BY <1>1 DEF Locks, LocksOf, Holding, Deciding
<1>4. LocksOf(t)' /\ Own(t)'
  BY <1>1, <1>2 DEF Locks, LocksOf, Own, AfterCommit, Holding, Deciding, Folded, LetIn, Readying
<1>5. Locks'
  BY <1>1, <1>2, <1>4, LocksKept
<1>6. Stat' = Stat /\ (Sound' <=> Sound) /\ (Fresh' <=> Fresh)
  BY <1>1 DEF Stat, Sound, SoundFor, Fresh, FreshOf
<1>7. damaged' \in BOOLEAN /\ due' \in BOOLEAN /\ {} \in SUBSET Threads
  BY <1>1, Zenon
<1>8. /\ unseen' \in [Threads -> Kinds]
      /\ \A u \in Threads : unseen'[u] = "nothing" =>
            unseen[u] = "nothing" /\ ~(damaged' /\ pc[u] = "compare")
  BY <1>1, <1>7, MissedFacts
<1>9. Typed'
  <2>1. StoreTyped'
    BY <1>1, <1>7 DEF Typed, StoreTyped
  <2>2. RequestsTyped'
    BY <1>1, <1>2, <1>5, <1>8, RequestsTypedKept DEF Typed, RequestsTyped
  <2> QED BY <2>1, <2>2 DEF Typed
<1>10. Ages'
  BY <1>1 DEF Ages
<1>11. At(Deciding \cup {"judge sound"}) /\ ~At(Folded)
  BY <1>1, <1>3 DEF At, Deciding, Folded
<1>12. ~At(Deciding)' /\ ~At(Folded)' /\ ~At({"judge", "folded damaged"})'
  BY <1>1, <1>2, <1>3 DEF At, Deciding, Folded
<1>13. /\ pc[t] = "judge sound" /\ vouched.changes = outside => Sound
       /\ unseen[t] = "nothing" => vouched.changes = outside /\ Stat = file
  BY <1>1, <1>3 DEF AtLock
<1>14. Known'
  BY <1>1, <1>6, <1>11, <1>12, <1>13 DEF Known
<1>15. unseen'[t] = "nothing" /\ ~damaged' => Passed'
  BY <1>1, <1>6, <1>8, <1>12, <1>13 DEF Passed
<1>16. AtLock'
  BY <1>1, <1>2, <1>3, <1>15 DEF AtLock
<1>17. Passed => Passed'
  <2>1. pc[t] = "judge" => At(Deciding)
    BY <1>3 DEF At, Deciding
  <2> QED BY <1>1, <1>6, <1>11, <1>12, <2>1 DEF Passed
<1>18. \A u \in Threads : Own(u)'
  BY <1>1, <1>2, <1>4, <1>8, <1>17, OwnKept DEF Typed, StoreTyped
<1> QED BY <1>5, <1>9, <1>10, <1>14, <1>16, <1>18

\* The lock is let go and the request is let in or refused (_watch).
LEMMA VerdictKeeps ==
    ASSUME NEW t \in Threads, WatchInv, Verdict(t)
    PROVE  WatchInv'
<1> USE StoreWatchAssumption DEF WatchInv
<1>1. /\ UNCHANGED <<disk, outside, file, damaged, due, generation, vouched, looked,
                     writing, commits, uncheckpointed, reader>>
      /\ pc[t] = "verdict" /\ watcher' = NoOne
  BY DEF Verdict, own, store
<1>2. watcher = t /\ \A u \in Threads : watcher' # u
  BY <1>1 DEF Locks, LocksOf, Holding
<1>3. Stat' = Stat /\ (Sound' <=> Sound) /\ (Fresh' <=> Fresh)
  BY <1>1 DEF Stat, Sound, SoundFor, Fresh, FreshOf
<1>4. ~At(Deciding) /\ ~At(Folded) /\ ~At({"judge", "folded damaged"})
  BY <1>1, <1>2 DEF At, Deciding, Folded
<1>5. \A places : ~At(places)'
  BY <1>2 DEF At
<1>6. StoreTyped'
  <2>1. damaged' \in BOOLEAN /\ due' \in BOOLEAN
    BY <1>1, Zenon DEF Typed, StoreTyped
  <2> QED BY <1>1, <2>1 DEF Typed, StoreTyped
<1>7. Ages'
  BY <1>1 DEF Ages
<1>8. Known'
  BY <1>1, <1>3, <1>4, <1>5 DEF Known
<1>9. AtLock'
  BY <1>2 DEF AtLock
<1>10. Passed => Passed'
  BY <1>1, <1>3, <1>4, <1>5 DEF Passed
<1>11. CASE damaged /\ Ends(t)
  <2>1. LetsGo(t)
    BY <1>11 DEF Ends
  <2>2. LocksOf(t)' /\ Own(t)'
    BY <1>2, <2>1, GoneIsFree
  <2>3. Locks'
    BY <1>1, <1>2, <2>1, <2>2, LetsGoFacts, LocksKept
  <2>4. RequestsTyped'
    BY <1>1, <1>11, <2>1, <2>3, LetsGoFacts, EndsFacts, RequestsTypedKept DEF Typed, RequestsTyped
  <2>5. \A u \in Threads : Own(u)'
    BY <1>1, <1>10, <1>11, <2>1, <2>2, LetsGoFacts, EndsFacts, OwnKept DEF Typed, StoreTyped
  <2> QED BY <1>6, <1>7, <1>8, <1>9, <2>3, <2>4, <2>5 DEF Typed
<1>12. CASE ~damaged /\ Goes(t, AfterLook(t)) /\ UNCHANGED request
  <2>1. /\ task[t] \in Writes => AfterLook(t) = "ready"
        /\ task[t] \notin Writes => AfterLook(t) \in {"connect", "whole"}
    BY DEF AfterLook, Typed, RequestsTyped, Tasks, Writes
  <2>2. /\ pc' \in [Threads -> Places] /\ pc'[t] = AfterLook(t)
        /\ \A u \in Threads \ {t} : pc'[u] = pc[u]
        /\ UNCHANGED <<writer, task, unseen>>
    BY <1>12, <2>1 DEF Goes, request, Typed, RequestsTyped, Places, LetIn, Readying
  <2>3. unseen[t] = "nothing" => Passed
    BY <1>1, <1>2, <1>12 DEF AtLock
  <2>4. LocksOf(t)' /\ Own(t)'
    BY <1>1, <1>2, <1>10, <2>1, <2>2, <2>3
       DEF Locks, LocksOf, Own, AfterCommit, Holding, Deciding, Folded, LetIn, Readying
  <2>5. Locks'
    BY <1>1, <1>2, <2>2, <2>4, LocksKept
  <2>6. RequestsTyped'
    BY <1>1, <2>2, <2>5, RequestsTypedKept DEF Typed, RequestsTyped
  <2>7. \A u \in Threads : Own(u)'
    BY <1>1, <1>10, <2>2, <2>4, OwnKept DEF Typed, StoreTyped
  <2> QED BY <1>6, <1>7, <1>8, <1>9, <2>5, <2>6, <2>7 DEF Typed
<1> QED BY <1>11, <1>12 DEF Verdict

\* The whole check a caller asks for takes the lock and looks at the file (check_whole).
LEMMA LookWholeKeeps ==
    ASSUME NEW t \in Threads, WatchInv, LookWhole(t)
    PROVE  WatchInv'
<1> USE StoreWatchAssumption DEF WatchInv
<1>1. /\ UNCHANGED <<disk, outside, file, damaged, generation, due, vouched, writing,
                     commits, uncheckpointed, writer, task, unseen, reader>>
      /\ pc[t] = "whole" /\ watcher = NoOne /\ watcher' = t
      /\ looked' = [stat |-> Stat, changes |-> 0]
      /\ \A u \in Threads : watcher # u
  BY DEF LookWhole, store, own, request
<1>2. /\ pc' \in [Threads -> Places] /\ pc'[t] = "whole check"
      /\ \A u \in Threads \ {t} : pc'[u] = pc[u]
  BY DEF LookWhole, Goes, Typed, RequestsTyped, Places, Holding
<1>3. Stat' = Stat /\ (Sound' <=> Sound) /\ (Fresh' <=> Fresh) /\ Stat \in Stats
  BY <1>1 DEF Stat, Sound, SoundFor, Fresh, FreshOf, Typed, StoreTyped, Stats
<1>4. looked'.stat = Stat /\ looked'.stat.stamp = disk.stamp /\ disk.stamp \in Nat
  BY <1>1 DEF Stat, Typed, StoreTyped
<1>5. \A places : ~At(places)
  BY <1>1 DEF At
<1>6. ~At(Deciding)' /\ ~At({"judge", "folded damaged"})' /\ ~At(Deciding \cup {"judge sound"})'
  BY <1>1, <1>2 DEF At, Deciding
<1>7. Passed => Passed'
  BY <1>1, <1>3, <1>5, <1>6 DEF Passed
<1>8. LocksOf(t)'
  BY <1>1, <1>2 DEF Locks, LocksOf, AfterCommit, Readying, Holding, Deciding, Folded
<1>9. Own(t)'
  BY <1>1, <1>2, <1>7 DEF Own, LetIn
<1>10. Locks'
  BY <1>1, <1>2, <1>8, LocksKept
<1>11. Typed'
  <2>1. damaged' \in BOOLEAN /\ due' \in BOOLEAN
    BY <1>1, Zenon DEF Typed, StoreTyped
  <2>2. StoreTyped'
    BY <1>1, <1>3, <2>1 DEF Typed, StoreTyped
  <2>3. RequestsTyped'
    BY <1>1, <1>2, <1>10, RequestsTypedKept DEF Typed, RequestsTyped
  <2> QED BY <2>2, <2>3 DEF Typed
<1>12. Ages'
  <2>1. disk' = disk /\ looked'.stat.stamp <= disk'.stamp
    BY <1>1, <1>4
  <2> QED BY <1>1, <2>1 DEF Ages
<1>13. Known'
  BY <1>1, <1>3, <1>5, <1>6 DEF Known
<1>14. AtLock'
  BY <1>1, <1>2, <1>4 DEF AtLock, Stat
<1>15. \A u \in Threads : Own(u)'
  BY <1>1, <1>2, <1>7, <1>9, OwnKept DEF Typed, StoreTyped
<1> QED BY <1>10, <1>11, <1>12, <1>13, <1>14, <1>15

\* Its verdict (check_whole): no request let in is refused by it.
LEMMA CheckWholeKeeps ==
    ASSUME NEW t \in Threads, WatchInv, CheckWhole(t)
    PROVE  WatchInv'
<1> USE StoreWatchAssumption DEF WatchInv
<1>1. /\ UNCHANGED <<disk, outside, file, damaged, generation, due, vouched, writing,
                     commits, uncheckpointed, writer, unseen, reader>>
      /\ pc[t] = "whole check" /\ looked' = NoLook
  BY DEF CheckWhole, store, own
<1>2. watcher = t /\ \A u \in Threads \ {t} : watcher # u
  BY <1>1 DEF Locks, LocksOf, Holding
<1>3. Stat' = Stat /\ (Sound' <=> Sound) /\ (Fresh' <=> Fresh)
  BY <1>1 DEF Stat, Sound, SoundFor, Fresh, FreshOf
<1>4. ~At(Deciding) /\ ~At(Folded) /\ ~At({"judge", "folded damaged"})
      /\ ~At(Deciding \cup {"judge sound"})
  BY <1>1, <1>2 DEF At, Deciding, Folded
<1>5. Sound => SoundFor(looked.stat)
  BY <1>1, <1>2 DEF AtLock, Sound, SoundFor, Stat
<1>6. damaged' \in BOOLEAN /\ due' \in BOOLEAN
  BY <1>1, Zenon DEF Typed, StoreTyped
<1>7. NoLook \in [stat : Stats, changes : 0..MaxOutside] /\ NoLook.stat.stamp = 0
  BY DEF NoLook, Stats
<1>8. Ages'
  <2>1. disk.stamp \in Nat
    BY DEF Typed, StoreTyped
  <2>2. looked'.stat.stamp = 0 /\ disk' = disk
    BY <1>1, <1>7
  <2>3. looked'.stat.stamp <= disk'.stamp
    BY <2>1, <2>2
  <2> QED BY <1>1, <2>3 DEF Ages
<1>9. CASE /\ watcher' = NoOne /\ task' = [task EXCEPT ![t] = "read"] /\ Goes(t, "look")
  <2>1. /\ pc' \in [Threads -> Places] /\ pc'[t] = "look"
        /\ task' \in [Threads -> Tasks] /\ task'[t] = "read"
        /\ \A u \in Threads \ {t} : pc'[u] = pc[u] /\ task'[u] = task[u]
    BY <1>9 DEF Goes, Typed, RequestsTyped, Places, Tasks
  <2>2. \A u \in Threads : watcher' # u
    BY <1>9
  <2>3. writer # t
    BY <1>1 DEF Locks, LocksOf
  <2>4. LocksOf(t)' /\ Own(t)'
    BY <1>1, <2>1, <2>2, <2>3
       DEF LocksOf, Own, Writes, AfterCommit, Holding, Deciding, Folded, LetIn, Readying
  <2>5. Locks'
    BY <1>1, <1>2, <2>1, <2>2, <2>4, LocksKept
  <2>6. Typed'
    <3>1. StoreTyped'
      BY <1>1, <1>6, <1>7, <1>9 DEF Typed, StoreTyped
    <3>2. RequestsTyped'
      BY <1>1, <2>1, <2>5, RequestsTypedKept DEF Typed, RequestsTyped
    <3> QED BY <3>1, <3>2 DEF Typed
  <2>7. \A places : ~At(places)'
    BY <2>2 DEF At
  <2>8. Known'
    BY <1>1, <1>3, <1>4, <2>7 DEF Known
  <2>9. AtLock'
    BY <2>2 DEF AtLock
  <2>10. Passed => Passed'
    BY <1>1, <1>3, <1>4, <2>7 DEF Passed
  <2>11. \A u \in Threads : Own(u)'
    BY <1>1, <2>1, <2>4, <2>10, OwnKept DEF Typed, StoreTyped
  <2> QED BY <1>8, <2>5, <2>6, <2>8, <2>9, <2>11
<1>10. CASE ~SoundFor(looked.stat) /\ Goes(t, "judge") /\ UNCHANGED <<watcher, task>>
  <2>1. /\ pc' \in [Threads -> Places] /\ pc'[t] = "judge"
        /\ \A u \in Threads \ {t} : pc'[u] = pc[u]
    BY <1>10 DEF Goes, Typed, RequestsTyped, Places, Holding, Deciding
  <2>2. LocksOf(t)' /\ Own(t)'
    BY <1>1, <1>10, <2>1
       DEF Locks, LocksOf, Own, AfterCommit, Holding, Deciding, Folded, LetIn, Readying
  <2>3. Locks'
    BY <1>1, <1>10, <2>1, <2>2, LocksKept
  <2>4. Typed'
    <3>1. StoreTyped'
      BY <1>1, <1>6, <1>7, <1>10 DEF Typed, StoreTyped
    <3>2. RequestsTyped'
      BY <1>1, <1>10, <2>1, <2>3, RequestsTypedKept DEF Typed, RequestsTyped
    <3> QED BY <3>1, <3>2 DEF Typed
  <2>5. ~Sound /\ outside # 0 /\ ~Passed
    BY <1>5, <1>10 DEF Known, Passed
  <2>6. unseen[t] # "nothing"
    BY <1>1, <2>5 DEF Own, LetIn
  <2>7. At({"judge", "folded damaged"})'
    BY <1>2, <1>10, <2>1 DEF At
  <2>8. Known'
    BY <1>1, <1>3, <2>5, <2>7 DEF Known
  <2>9. AtLock'
    BY <1>1, <1>2, <1>10, <2>1, <2>6 DEF AtLock
  <2>10. \A u \in Threads : Own(u)'
    BY <1>1, <2>1, <2>2, <2>5, OwnKept DEF Typed, StoreTyped
  <2> QED BY <1>8, <2>3, <2>4, <2>8, <2>9, <2>10
<1> QED BY <1>9, <1>10 DEF CheckWhole

\* The look before the store's own checkpoint (_checkpoint).
LEMMA CheckpointLookKeeps ==
    ASSUME NEW t \in Threads, WatchInv, CheckpointLook(t)
    PROVE  WatchInv'
<1> USE StoreWatchAssumption DEF WatchInv
<1>1. /\ UNCHANGED <<disk, outside, file, damaged, generation, due, vouched, looked,
                     writing, commits, reader>>
      /\ pc[t] = "fold" /\ watcher = NoOne
      /\ \A u \in Threads : watcher # u
  BY DEF CheckpointLook, store
<1>2. CASE (damaged \/ Stat # file) /\ Ends(t) /\ UNCHANGED <<watcher, uncheckpointed>>
  <2>1. LetsGo(t)
    BY <1>2 DEF Ends
  <2>2. LocksOf(t)' /\ Own(t)'
    BY <1>1, <1>2, <2>1, GoneIsFree
  <2>3. Locks'
    BY <1>1, <1>2, <2>1, <2>2, LetsGoFacts, LocksKept
  <2>4. Typed'
    BY <1>1, <1>2, <2>1, <2>3, LetsGoFacts, EndsFacts, RequestsTypedKept, StoreTypedKept
       DEF Typed, RequestsTyped
  <2>5. Aside(t)
    BY <1>1, <1>2, <2>1, LetsGoFacts, EndsFacts DEF Aside, Like, Ages, Holding, Deciding, Folded
  <2> QED BY <2>2, <2>3, <2>4, <2>5, AsideKeeps
<1>3. CASE /\ ~damaged /\ Stat = file /\ watcher' = t /\ uncheckpointed' = 0
           /\ Goes(t, "folding") /\ UNCHANGED request
  <2>1. /\ pc' \in [Threads -> Places] /\ pc'[t] = "folding"
        /\ \A u \in Threads \ {t} : pc'[u] = pc[u]
        /\ UNCHANGED <<writer, task, unseen>>
    BY <1>3 DEF Goes, request, Typed, RequestsTyped, Places, Holding
  <2>2. LocksOf(t)' /\ Own(t)'
    BY <1>1, <1>3, <2>1
       DEF Locks, LocksOf, Own, AfterCommit, Holding, Deciding, Folded, LetIn, Readying
  <2>3. Locks'
    BY <1>1, <1>3, <2>1, <2>2, LocksKept
  <2>4. Typed'
    <3>1. damaged' \in BOOLEAN /\ due' \in BOOLEAN
      BY <1>1, Zenon DEF Typed, StoreTyped
    <3>2. StoreTyped'
      BY <1>1, <1>3, <3>1 DEF Typed, StoreTyped
    <3>3. uncheckpointed' \in 0..MaxCommits
      BY <1>3
    <3>4. RequestsTyped'
      BY <1>1, <2>1, <2>3, <3>3, RequestsTypedKept DEF Typed, RequestsTyped
    <3> QED BY <3>2, <3>4 DEF Typed
  <2>5. Ages'
    <3>1. uncheckpointed' <= commits'
      BY <1>1, <1>3 DEF Typed, RequestsTyped
    <3> QED BY <1>1, <3>1 DEF Ages
  <2>6. \A places : ~At(places)
    BY <1>1 DEF At
  <2>7. ~At(Deciding)' /\ ~At({"judge", "folded damaged"})' /\ ~At(Deciding \cup {"judge sound"})'
    BY <1>3, <2>1 DEF At, Deciding
  <2>8. Stat' = Stat /\ (Sound' <=> Sound) /\ (Fresh' <=> Fresh)
    BY <1>1 DEF Stat, Sound, SoundFor, Fresh, FreshOf
  <2>9. Known'
    BY <1>1, <1>3, <2>6, <2>7, <2>8 DEF Known
  <2>10. AtLock'
    BY <1>3, <2>1 DEF AtLock
  <2>11. Passed => Passed'
    BY <1>1, <1>3, <2>7, <2>8 DEF Passed
  <2>12. \A u \in Threads : Own(u)'
    BY <1>1, <2>1, <2>2, <2>11, OwnKept DEF Typed, StoreTyped
  <2> QED BY <2>3, <2>4, <2>5, <2>9, <2>10, <2>12
<1> QED BY <1>2, <1>3 DEF CheckpointLook

\* No stamp goes back.
LEMMA StampFacts ==
    ASSUME Typed, NEW stamp \in Stamps
    PROVE  stamp \in 0..MaxClock /\ disk.stamp <= stamp
  BY DEF Stamps, Typed, StoreTyped

\* The checkpoint moves the stat, which only its own look after it may then take (_checkpoint).
LEMMA FoldKeeps ==
    ASSUME NEW t \in Threads, WatchInv, Fold(t)
    PROVE  WatchInv'
<1> USE StoreWatchAssumption DEF WatchInv
<1>1. /\ UNCHANGED <<outside, file, damaged, generation, due, vouched, watcher, looked,
                     writing, commits, uncheckpointed, reader, writer, task, unseen>>
      /\ pc[t] = "folding"
      /\ disk' = disk \/ \E stamp \in Stamps : disk' = [disk EXCEPT !.stamp = stamp]
  BY DEF Fold, own, watch, request
<1>2. /\ pc' \in [Threads -> Places] /\ pc'[t] = "folded"
      /\ \A u \in Threads \ {t} : pc'[u] = pc[u]
  BY DEF Fold, Goes, Typed, RequestsTyped, Places, Holding, Folded
<1>3. watcher = t
  BY <1>1 DEF Locks, LocksOf, Holding
<1>4. LocksOf(t)' /\ Own(t)'
  BY <1>1, <1>2 DEF Locks, LocksOf, Own, AfterCommit, Holding, Deciding, Folded, LetIn, Readying
<1>5. Locks'
  BY <1>1, <1>2, <1>4, LocksKept
<1>6. /\ disk' \in [identity : 0..2, stamp : 0..MaxClock, image : 0..MaxOutside, sound : BOOLEAN]
      /\ disk'.identity = disk.identity /\ disk'.image = disk.image /\ disk'.sound = disk.sound
      /\ disk.stamp <= disk'.stamp
      /\ disk.stamp \in Nat /\ disk'.stamp \in Nat
  BY <1>1, StampFacts DEF Typed, StoreTyped
<1>7. Typed'
  <2>1. damaged' \in BOOLEAN /\ due' \in BOOLEAN
    BY <1>1, Zenon DEF Typed, StoreTyped
  <2>2. StoreTyped'
    BY <1>1, <1>6, <2>1 DEF Typed, StoreTyped
  <2>3. RequestsTyped'
    BY <1>1, <1>2, <1>5, RequestsTypedKept DEF Typed, RequestsTyped
  <2> QED BY <2>2, <2>3 DEF Typed
<1>8. Ages'
  <2>1. /\ file.stamp \in Nat /\ looked.stat.stamp \in Nat
        /\ file.stamp <= disk.stamp /\ looked.stat.stamp <= disk.stamp
    BY DEF Typed, StoreTyped, Stats, Ages
  <2>2. file.stamp <= disk'.stamp /\ looked.stat.stamp <= disk'.stamp
    BY <1>6, <2>1
  <2> QED BY <1>1, <1>6, <2>2 DEF Ages
<1>9. (Sound' <=> Sound) /\ (Fresh' <=> Fresh)
  BY <1>1, <1>6 DEF Stat, Sound, SoundFor, Fresh, FreshOf
<1>10. ~At(Deciding)' /\ At(Folded)' /\ ~At({"judge", "folded damaged"})'
       /\ ~At(Deciding \cup {"judge sound"})' /\ ~At({"judge", "folded damaged"})
  BY <1>1, <1>2, <1>3 DEF At, Deciding, Folded
<1>11. Known'
  BY <1>1, <1>9, <1>10 DEF Known
<1>12. AtLock'
  BY <1>1, <1>2, <1>3 DEF AtLock
<1>13. Passed => Passed'
  BY <1>1, <1>9, <1>10 DEF Passed
<1>14. \A u \in Threads : Own(u)'
  BY <1>1, <1>2, <1>4, <1>6, <1>13, OwnKept DEF Typed, StoreTyped
<1> QED BY <1>5, <1>7, <1>8, <1>11, <1>12, <1>14

\* The look after it (_checkpoint).
LEMMA CheckpointLookAfterKeeps ==
    ASSUME NEW t \in Threads, WatchInv, CheckpointLookAfter(t)
    PROVE  WatchInv'
<1> USE StoreWatchAssumption DEF WatchInv
<1>1. /\ UNCHANGED <<disk, outside, file, damaged, generation, due, vouched, watcher,
                     writing, commits, uncheckpointed, reader, writer, task, unseen>>
      /\ pc[t] = "folded"
      /\ looked' = [stat |-> Stat, changes |-> 0]
  BY DEF CheckpointLookAfter, own, store, request
<1>2. /\ pc' \in [Threads -> Places] /\ pc'[t] = "folded check"
      /\ \A u \in Threads \ {t} : pc'[u] = pc[u]
  BY DEF CheckpointLookAfter, Goes, Typed, RequestsTyped, Places, Holding, Folded
<1>3. watcher = t
  BY <1>1 DEF Locks, LocksOf, Holding, Folded
<1>4. LocksOf(t)' /\ Own(t)'
  BY <1>1, <1>2 DEF Locks, LocksOf, Own, AfterCommit, Holding, Deciding, Folded, LetIn, Readying
<1>5. Locks'
  BY <1>1, <1>2, <1>4, LocksKept
<1>6. Stat' = Stat /\ (Sound' <=> Sound) /\ (Fresh' <=> Fresh) /\ Stat \in Stats
  BY <1>1 DEF Stat, Sound, SoundFor, Fresh, FreshOf, Typed, StoreTyped, Stats
<1>7. looked'.stat = Stat /\ looked'.stat.stamp = disk.stamp /\ disk.stamp \in Nat
  BY <1>1 DEF Stat, Typed, StoreTyped
<1>8. Typed'
  <2>1. damaged' \in BOOLEAN /\ due' \in BOOLEAN
    BY <1>1, Zenon DEF Typed, StoreTyped
  <2>2. StoreTyped'
    BY <1>1, <1>6, <2>1 DEF Typed, StoreTyped
  <2>3. RequestsTyped'
    BY <1>1, <1>2, <1>5, RequestsTypedKept DEF Typed, RequestsTyped
  <2> QED BY <2>2, <2>3 DEF Typed
<1>9. Ages'
  <2>1. disk' = disk /\ looked'.stat.stamp <= disk'.stamp
    BY <1>1, <1>7
  <2> QED BY <1>1, <2>1 DEF Ages
<1>10. ~At(Deciding)' /\ At(Folded)' /\ ~At({"judge", "folded damaged"})'
       /\ ~At(Deciding \cup {"judge sound"})' /\ ~At({"judge", "folded damaged"})
  BY <1>1, <1>2, <1>3 DEF At, Deciding, Folded
<1>11. Known'
  BY <1>1, <1>6, <1>10 DEF Known
<1>12. AtLock'
  BY <1>1, <1>2, <1>3, <1>6, <1>7 DEF AtLock
<1>13. Passed => Passed'
  BY <1>1, <1>6, <1>10 DEF Passed
<1>14. \A u \in Threads : Own(u)'
  BY <1>1, <1>2, <1>4, <1>13, OwnKept DEF Typed, StoreTyped
<1> QED BY <1>5, <1>8, <1>9, <1>11, <1>12, <1>14

\* The folded file is checked and noted as seen (_checkpoint).
LEMMA CheckpointCheckKeeps ==
    ASSUME NEW t \in Threads, WatchInv, CheckpointCheck(t)
    PROVE  WatchInv'
<1> USE StoreWatchAssumption DEF WatchInv
<1>1. /\ UNCHANGED <<disk, outside, damaged, generation, due, watcher,
                     writing, commits, uncheckpointed, reader, writer, task, unseen>>
      /\ pc[t] = "folded check"
      /\ file' = looked.stat /\ looked' = NoLook
  BY DEF CheckpointCheck, own, request
<1>2. PICK bad \in BOOLEAN : /\ bad <=> vouched.folded \/ outside > vouched.changes
                             /\ vouched' = [changes |-> Met, folded |-> bad]
  BY DEF CheckpointCheck
<1>3. /\ pc' \in [Threads -> Places]
      /\ pc'[t] = IF SoundFor(looked.stat) THEN "folded sound" ELSE "folded damaged"
      /\ \A u \in Threads \ {t} : pc'[u] = pc[u]
  BY DEF CheckpointCheck, Goes, Typed, RequestsTyped, Places, Holding, Deciding
<1>4. watcher = t
  BY <1>1 DEF Locks, LocksOf, Holding, Folded
<1>5. LocksOf(t)' /\ Own(t)'
  BY <1>1, <1>3 DEF Locks, LocksOf, Own, AfterCommit, Holding, Deciding, Folded, LetIn, Readying
<1>6. Locks'
  BY <1>1, <1>3, <1>5, LocksKept
<1>7. Stat' = Stat /\ (Sound' <=> Sound) /\ (Fresh' <=> Fresh)
  BY <1>1 DEF Stat, Sound, SoundFor, Fresh, FreshOf
<1>8. /\ vouched'.changes = Met /\ Met \in 0..MaxOutside /\ Met <= outside
      /\ Met = outside => (Sound <=> SoundFor(looked.stat))
      /\ looked.stat = Stat => Met = outside /\ (Sound <=> SoundFor(looked.stat))
      /\ vouched.folded => vouched'.folded
      /\ ~vouched'.folded => ~vouched.folded /\ vouched.changes = outside
      /\ vouched.changes = outside => looked.stat = Stat
      /\ outside = 0 => vouched.changes = outside
  <2>1. /\ vouched.changes \in 0..MaxOutside /\ outside \in 0..MaxOutside
        /\ vouched.changes <= outside
    BY DEF Typed, StoreTyped, Ages
  <2>2. looked.stat = Stat \/ vouched.changes < outside
    BY <1>1, <1>4 DEF AtLock
  <2>3. looked.stat = Stat => looked.stat.identity = disk.identity
    BY DEF Stat
  <2>4. looked.stat.identity = disk.identity => (Sound <=> SoundFor(looked.stat))
    BY DEF Sound, SoundFor, Stat
  <2> QED BY <1>2, <2>1, <2>2, <2>3, <2>4 DEF Met
<1>9. Typed'
  <2>1. damaged' \in BOOLEAN /\ due' \in BOOLEAN
    BY <1>1, Zenon DEF Typed, StoreTyped
  <2>2. NoLook \in [stat : Stats, changes : 0..MaxOutside]
    BY DEF NoLook, Stats
  <2>3. vouched' \in [changes : 0..MaxOutside, folded : BOOLEAN]
    BY <1>2, <1>8
  <2>4. StoreTyped'
    BY <1>1, <2>1, <2>2, <2>3 DEF Typed, StoreTyped
  <2>5. RequestsTyped'
    BY <1>1, <1>3, <1>6, RequestsTypedKept DEF Typed, RequestsTyped
  <2> QED BY <2>4, <2>5 DEF Typed
<1>10. Ages'
  <2>1. NoLook.stat.stamp = 0
    BY DEF NoLook
  <2>2. looked'.stat.stamp = 0 /\ file'.stamp = looked.stat.stamp
    BY <1>1, <2>1
  <2>3. disk.stamp \in Nat /\ outside \in Nat
    BY DEF Typed, StoreTyped
  <2>4. disk' = disk /\ outside' = outside
    BY <1>1
  <2>5. file'.stamp <= disk'.stamp
    BY <2>2, <2>4 DEF Ages
  <2>6. looked'.stat.stamp <= disk'.stamp
    BY <2>2, <2>3, <2>4
  <2>7. vouched'.changes <= outside'
    BY <1>8, <2>3, <2>4
  <2> QED BY <1>1, <2>5, <2>6, <2>7 DEF Ages
<1>11. /\ At({"judge", "folded damaged"})' <=> ~SoundFor(looked.stat)
       /\ At(Deciding)' <=> ~SoundFor(looked.stat)
       /\ At(Deciding \cup {"judge sound"})' <=> ~SoundFor(looked.stat)
       /\ ~At({"judge", "folded damaged"})
  BY <1>1, <1>3, <1>4 DEF At, Deciding
<1>12. Known'
  BY <1>1, <1>7, <1>8, <1>11 DEF Known
<1>13. AtLock'
  BY <1>1, <1>3, <1>4, <1>7, <1>8 DEF AtLock
<1>14. Passed => Passed'
  BY <1>1, <1>7, <1>8, <1>11 DEF Passed
<1>15. \A u \in Threads : Own(u)'
  BY <1>1, <1>3, <1>5, <1>8, <1>14, OwnKept DEF Typed, StoreTyped
<1> QED BY <1>6, <1>9, <1>10, <1>12, <1>13, <1>15

\* Its verdict is kept (_checkpoint, _judged).
LEMMA CheckpointJudgeKeeps ==
    ASSUME NEW t \in Threads, WatchInv, CheckpointJudge(t)
    PROVE  WatchInv'
<1> USE StoreWatchAssumption DEF WatchInv
<1>1. /\ UNCHANGED <<disk, outside, file, generation, vouched, looked, writing,
                     commits, uncheckpointed, reader>>
      /\ pc[t] \in {"folded sound", "folded damaged"}
      /\ damaged' = (pc[t] = "folded damaged") /\ due' = FALSE
      /\ watcher' = NoOne /\ LetsGo(t)
      /\ unseen' = Missed(damaged', {t})
  BY DEF CheckpointJudge, own
<1>2. watcher = t /\ \A u \in Threads : watcher' # u
  BY <1>1 DEF Locks, LocksOf, Holding, Deciding
<1>3. LocksOf(t)' /\ Own(t)'
  BY <1>1, <1>2, GoneIsFree
<1>4. Locks'
  BY <1>1, <1>2, <1>3, LetsGoFacts, LocksKept
<1>5. damaged' \in BOOLEAN /\ due' \in BOOLEAN /\ {t} \in SUBSET Threads
  BY <1>1, Zenon
<1>6. /\ unseen' \in [Threads -> Kinds]
      /\ \A u \in Threads \ {t} : unseen'[u] = "nothing" =>
            unseen[u] = "nothing" /\ ~(damaged' /\ pc[u] = "compare")
  BY <1>1, <1>5, MissedFacts
<1>7. Typed'
  <2>1. StoreTyped'
    BY <1>1, <1>5 DEF Typed, StoreTyped
  <2>2. RequestsTyped'
    BY <1>1, <1>4, <1>6, LetsGoFacts, RequestsTypedKept DEF Typed, RequestsTyped
  <2> QED BY <2>1, <2>2 DEF Typed
<1>8. Ages'
  BY <1>1 DEF Ages
<1>9. Stat' = Stat /\ (Sound' <=> Sound) /\ (Fresh' <=> Fresh)
  BY <1>1 DEF Stat, Sound, SoundFor, Fresh, FreshOf
<1>10. /\ ~At(Folded)
       /\ At(Deciding) <=> pc[t] = "folded damaged"
       /\ At(Deciding \cup {"judge sound"}) <=> pc[t] = "folded damaged"
  BY <1>1, <1>2 DEF At, Deciding, Folded
<1>11. \A places : ~At(places)'
  BY <1>2 DEF At
<1>12. pc[t] = "folded sound" /\ vouched.changes = outside => Sound
  BY <1>2 DEF AtLock
<1>13. Known'
  BY <1>1, <1>9, <1>10, <1>11, <1>12 DEF Known
<1>14. AtLock'
  BY <1>2 DEF AtLock
<1>15. Passed => Passed'
  BY <1>1, <1>9, <1>10, <1>11 DEF Passed
<1>16. \A u \in Threads : Own(u)'
  BY <1>1, <1>3, <1>6, <1>15, LetsGoFacts, OwnKept DEF Typed, StoreTyped
<1> QED BY <1>4, <1>7, <1>8, <1>13, <1>14, <1>16

\* A step of the wait, or none, leaves what is known alone.
LEMMA AllElseKept ==
    ASSUME WatchInv, due => due',
           UNCHANGED <<disk, outside, file, damaged, generation, vouched, watcher, looked,
                       writing, unseen, pc, reader>>
    PROVE  Known' /\ AtLock' /\ \A u \in Threads : Own(u)'
<1> USE DEF WatchInv
<1>1. Stat' = Stat /\ (Sound' <=> Sound) /\ (Fresh' <=> Fresh) /\ (Cause' <=> Cause)
  BY DEF Stat, Sound, SoundFor, Fresh, FreshOf, Cause
<1>2. \A places : At(places)' <=> At(places)
  BY DEF At
<1>3. Passed' <=> Passed
  BY <1>1, <1>2 DEF Passed
<1>4. Known'
  BY <1>1, <1>2 DEF Known
<1>5. AtLock'
  BY <1>1, <1>3 DEF AtLock
<1>6. \A u \in Threads : Own(u)'
  BY <1>3 DEF Own, Mislabelled
<1> QED BY <1>4, <1>5, <1>6

\* The wait before a damaged file is checked again is over.
LEMMA WaitPassesKeeps ==
    ASSUME WatchInv, WaitPasses
    PROVE  WatchInv'
<1> USE StoreWatchAssumption DEF WatchInv
<1>1. /\ UNCHANGED <<disk, outside, file, damaged, generation, vouched, watcher, looked,
                     writing, commits, uncheckpointed, writer, task, unseen, pc, reader>>
      /\ due' = TRUE
  BY DEF WaitPasses, own, watch, request
<1>2. Typed'
  <2>1. damaged' \in BOOLEAN /\ due' \in BOOLEAN
    BY <1>1, Zenon DEF Typed, StoreTyped
  <2>2. StoreTyped'
    BY <1>1, <2>1 DEF Typed, StoreTyped
  <2>3. RequestsTyped'
    BY <1>1 DEF Typed, RequestsTyped
  <2> QED BY <2>2, <2>3 DEF Typed
<1>3. Locks' /\ Ages'
  BY <1>1 DEF Locks, LocksOf, Ages
<1>4. Known' /\ AtLock' /\ \A u \in Threads : Own(u)'
  BY <1>1, AllElseKept
<1> QED BY <1>2, <1>3, <1>4

\* A change from outside: every request under way has it before it, and no stamp goes back.
LEMMA OutsideKeeps ==
    ASSUME WatchInv, NEW changed, Outside(changed),
           changed \in [identity : 0..2, stamp : 0..MaxClock, image : Nat, sound : BOOLEAN],
           disk.stamp <= changed.stamp,
           changed.image <= outside + 1,
           disk.identity # 1 => changed.identity # 1
    PROVE  WatchInv'
<1> USE StoreWatchAssumption DEF WatchInv
<1>1. /\ UNCHANGED <<file, damaged, generation, due, vouched, watcher, looked,
                     writing, commits, uncheckpointed, writer, task, pc, reader>>
      /\ disk' = changed /\ outside < MaxOutside /\ outside' = outside + 1
  BY DEF Outside, own, watch
<1>2. /\ unseen' \in [Threads -> Kinds]
      /\ \A u \in Threads : unseen'[u] = "nothing" => pc[u] = "idle"
  BY DEF Outside, Kinds
<1>3. /\ vouched.changes \in Nat /\ outside \in Nat /\ outside' \in Nat
      /\ vouched.changes < outside' /\ vouched.changes # outside' /\ outside' # 0
  BY <1>1 DEF Typed, StoreTyped, Ages
<1>4. Typed'
  <2>1. damaged' \in BOOLEAN /\ due' \in BOOLEAN
    BY <1>1, Zenon DEF Typed, StoreTyped
  <2>2. outside' \in 0..MaxOutside /\ changed.image \in 0..MaxOutside
    BY <1>1, <1>3
  <2>3. changed \in [identity : 0..2, stamp : 0..MaxClock, image : 0..MaxOutside, sound : BOOLEAN]
    BY <2>2
  <2>4. StoreTyped'
    BY <1>1, <2>1, <2>2, <2>3 DEF Typed, StoreTyped
  <2>5. RequestsTyped'
    BY <1>1, <1>2 DEF Typed, RequestsTyped
  <2> QED BY <2>4, <2>5 DEF Typed
<1>5. Locks'
  BY <1>1 DEF Locks, LocksOf
<1>6. Ages'
  <2>1. /\ file.stamp \in Nat /\ looked.stat.stamp \in Nat /\ disk.stamp \in Nat
        /\ file.stamp <= disk.stamp /\ looked.stat.stamp <= disk.stamp
        /\ changed.stamp \in Nat
    BY DEF Typed, StoreTyped, Stats, Ages
  <2>2. file.stamp <= changed.stamp /\ looked.stat.stamp <= changed.stamp
    BY <2>1
  <2>3. vouched.changes <= outside'
    BY <1>3
  <2> QED BY <1>1, <2>2, <2>3 DEF Ages
<1>7. Known'
  BY <1>1, <1>3 DEF Known
<1>8. AtLock'
  <2>1. Cause => Cause'
    BY <1>1 DEF Cause, Typed, StoreTyped, Stats
  <2>2. ASSUME watcher \in Threads PROVE unseen'[watcher] # "nothing"
    BY <1>2, <2>2 DEF Locks, LocksOf, Holding, Deciding, Folded
  <2>3. ASSUME watcher \in Threads, pc[watcher] \in {"publish sound", "publish damaged"}
        PROVE  /\ vouched.changes <= looked.changes /\ looked.changes <= outside'
               /\ looked.changes # outside'
    <3>1. vouched.changes <= looked.changes /\ looked.changes <= outside
      BY <2>3 DEF AtLock
    <3>2. looked.changes \in Nat
      BY DEF Typed, StoreTyped
    <3> QED BY <1>1, <1>3, <3>1, <3>2
  <2> QED BY <1>1, <1>3, <2>1, <2>2, <2>3 DEF AtLock
<1>9. \A u \in Threads : Own(u)'
  BY <1>1, <1>2 DEF Own, LetIn, Readying
<1> QED BY <1>4, <1>5, <1>6, <1>7, <1>8, <1>9

\* Whatever changes the file from outside.
LEMMA EnvironmentKeeps ==
    ASSUME WatchInv, Environment
    PROVE  WatchInv'
<1> USE StoreWatchAssumption
<1>1. /\ disk \in [identity : 0..2, stamp : 0..MaxClock, image : 0..MaxOutside, sound : BOOLEAN]
      /\ outside \in 0..MaxOutside /\ disk.image <= outside
      /\ \A stamp \in Stamps : stamp \in 0..MaxClock /\ disk.stamp <= stamp
  BY StampFacts DEF WatchInv, Typed, StoreTyped, Ages
<1>2. ASSUME NEW sound \in BOOLEAN, Overwrite(sound) PROVE WatchInv'
  <2>1. PICK stamp \in Stamps :
              /\ disk.identity = 1
              /\ Outside([disk EXCEPT !.stamp = stamp, !.image = disk.image + 1, !.sound = sound])
    BY <1>2 DEF Overwrite
  <2>2. PICK n : n = disk.image + 1
    OBVIOUS
  <2>3. PICK c : c = [disk EXCEPT !.stamp = stamp, !.image = n, !.sound = sound]
    OBVIOUS
  <2>4. Outside(c)
    BY <2>1, <2>2, <2>3
  <2>5. n \in Nat /\ n <= outside + 1
    BY <1>1, <2>2
  <2>6. /\ c \in [identity : 0..2, stamp : 0..MaxClock, image : Nat, sound : BOOLEAN]
        /\ c.stamp = stamp /\ c.image = n
    BY <1>1, <1>2, <2>1, <2>3, <2>5
  <2> QED BY <1>1, <2>1, <2>4, <2>5, <2>6, OutsideKeeps
<1>3. ASSUME Replace PROVE WatchInv'
  <2>1. PICK sound \in BOOLEAN, stamp \in Stamps :
              Outside([identity |-> 2, stamp |-> stamp, image |-> disk.image + 1,
                       sound |-> sound])
    BY <1>3 DEF Replace
  <2>2. PICK n : n = disk.image + 1
    OBVIOUS
  <2>3. PICK c : c = [identity |-> 2, stamp |-> stamp, image |-> n, sound |-> sound]
    OBVIOUS
  <2>4. Outside(c)
    BY <2>1, <2>2, <2>3
  <2>5. n \in Nat /\ n <= outside + 1
    BY <1>1, <2>2
  <2>6. /\ c \in [identity : 0..2, stamp : 0..MaxClock, image : Nat, sound : BOOLEAN]
        /\ c.stamp = stamp /\ c.image = n /\ c.identity # 1
    BY <1>1, <2>1, <2>3, <2>5
  <2> QED BY <1>1, <2>1, <2>4, <2>5, <2>6, OutsideKeeps
<1>4. ASSUME Remove PROVE WatchInv'
  <2>1. PICK c : c = [disk EXCEPT !.identity = 0] /\ Outside(c)
    BY <1>4 DEF Remove
  <2>2. /\ c \in [identity : 0..2, stamp : 0..MaxClock, image : Nat, sound : BOOLEAN]
        /\ disk.stamp <= c.stamp /\ c.image <= outside + 1
        /\ c.identity # 1
    BY <1>1, <2>1
  <2> QED BY <2>1, <2>2, OutsideKeeps
<1>5. ASSUME OtherCheckpoint PROVE WatchInv'
  <2>1. PICK stamp \in Stamps : disk.identity = 1 /\ Outside([disk EXCEPT !.stamp = stamp])
    BY <1>5 DEF OtherCheckpoint
  <2>2. PICK c : c = [disk EXCEPT !.stamp = stamp]
    OBVIOUS
  <2>3. /\ c \in [identity : 0..2, stamp : 0..MaxClock, image : Nat, sound : BOOLEAN]
        /\ disk.stamp <= c.stamp /\ c.image <= outside + 1
    BY <1>1, <2>1, <2>2
  <2> QED BY <2>1, <2>2, <2>3, OutsideKeeps
<1> QED BY <1>2, <1>3, <1>4, <1>5, WaitPassesKeeps DEF Environment

\* The store just opened.
LEMMA InitHolds == ASSUME Init PROVE WatchInv /\ Labelled
<1> USE StoreWatchAssumption DEF Init
<1>1. watcher \notin Threads /\ \A places : ~At(places)
  BY DEF At
<1>2. /\ Sound /\ Stat = file /\ Opened(0) \in Connections
      /\ Opened(0).generation = 0 /\ Opened(0).opened = 0 /\ Opened(0).image = 0
  BY DEF Sound, SoundFor, Stat, Opened, Connections
<1>3. Typed
  <2>1. looked \in [stat : Stats, changes : 0..MaxOutside]
    BY DEF NoLook, Stats
  <2>2. StoreTyped
    <3>1. damaged \in BOOLEAN /\ due \in BOOLEAN
      BY Zenon
    <3> QED BY <2>1, <3>1 DEF StoreTyped, Stats
  <2>3. RequestsTyped
    BY <1>2 DEF RequestsTyped, Tasks, Places, Kinds
  <2> QED BY <2>2, <2>3 DEF Typed
<1>4. Locks
  BY DEF Locks, LocksOf, Writes, AfterCommit, Readying, Folded, Holding, Deciding
<1>5. Ages
  <2>1. NoLook.stat.stamp = 0
    BY DEF NoLook
  <2>3. disk.stamp = 0 /\ file.stamp = 0 /\ vouched.changes = 0 /\ disk.image = 0 /\ looked = NoLook
    OBVIOUS
  <2> QED BY <2>1, <2>3 DEF Ages
<1>6. Fresh
  BY <1>2 DEF Fresh, FreshOf
<1>7. Known
  BY <1>1, <1>2, <1>6 DEF Known
<1>8. AtLock /\ \A t \in Threads : Own(t)
  BY <1>1 DEF AtLock, Own, LetIn, Readying
<1>9. Labelled
  BY <1>2 DEF Labelled
<1> QED BY <1>3, <1>4, <1>5, <1>7, <1>8, <1>9 DEF WatchInv

\* Every step keeps the invariant.
LEMMA StepKeeps ==
    ASSUME WatchInv, Labelled, [Next]_vars
    PROVE  WatchInv'
<1>1. ASSUME NEW t \in Threads, Step(t) PROVE WatchInv'
  BY <1>1, LookDamagedKeeps, LookFileKeeps, TakeWatchKeeps, CheckKeeps, PublishKeeps, JudgeKeeps,
     VerdictKeeps, ConnectKeeps, OpenReaderKeeps, FinishKeeps, LookWholeKeeps, CheckWholeKeeps,
     ReadyKeeps, OpenWriterKeeps, LabelWriterKeeps, CommitKeeps,
     CheckpointLookKeeps, FoldKeeps, CheckpointLookAfterKeeps, CheckpointCheckKeeps,
     CheckpointJudgeKeeps DEF Step
<1>2. ASSUME NEW t \in Threads, NEW what \in Tasks, Start(t, what) PROVE WatchInv'
  BY <1>2, StartKeeps
<1>3. ASSUME UNCHANGED vars PROVE WatchInv'
  <2>1. /\ UNCHANGED <<disk, outside, file, generation, vouched, watcher, looked, writing,
                       commits, uncheckpointed, writer, task, unseen, pc, reader>>
        /\ damaged' = damaged /\ due' = due
    BY <1>3 DEF vars
  <2>2. Typed'
    <3>1. damaged' \in BOOLEAN /\ due' \in BOOLEAN
      BY <2>1, Zenon DEF WatchInv, Typed, StoreTyped
    <3> QED BY <2>1, <3>1 DEF WatchInv, Typed, StoreTyped, RequestsTyped
  <2>3. Locks' /\ Ages'
    BY <2>1 DEF WatchInv, Locks, LocksOf, Ages
  <2>4. Known' /\ AtLock' /\ \A u \in Threads : Own(u)'
    BY <2>1, AllElseKept
  <2> QED BY <2>2, <2>3, <2>4 DEF WatchInv
<1> QED BY <1>1, <1>2, <1>3, EnvironmentKeeps DEF Next

\* Generations are ordered.
LEMMA NoLater ==
    ASSUME NEW a \in Nat, NEW b \in Nat, NEW c \in Nat, a <= b, b <= c
    PROVE  a <= c
  OBVIOUS

\* The labels stay in order when no connection is opened or labelled.
LEMMA LabelledKept ==
    ASSUME Typed, Labelled, UNCHANGED <<reader, writing>>,
           generation' \in Nat, generation <= generation',
           \A u \in Threads : pc[u] = "open reader" => pc'[u] = "open reader"
    PROVE  Labelled'
<1>1. /\ generation \in Nat /\ writing.opened \in Nat
      /\ \A u \in Threads : reader[u].generation \in Nat /\ reader[u].opened \in Nat
  BY DEF Typed, StoreTyped, RequestsTyped, Connections
<1>2. reader' = reader /\ writing' = writing
  OBVIOUS
<1>3. ASSUME NEW n \in Nat, n <= generation PROVE n <= generation'
  BY <1>1, <1>3, NoLater
<1>4. writing'.opened <= generation'
  BY <1>1, <1>2, <1>3 DEF Labelled
<1>5. ASSUME NEW u \in Threads
      PROVE  reader'[u].generation <= generation' /\ reader'[u].opened <= generation'
  BY <1>1, <1>2, <1>3 DEF Labelled
<1>6. ASSUME NEW u \in Threads, pc'[u] # "open reader"
      PROVE  reader'[u].generation <= reader'[u].opened
  BY <1>2, <1>6 DEF Labelled
<1> QED BY <1>4, <1>5, <1>6 DEF Labelled

\* Nor does any step put a label on a reader that is later than its pages.
LEMMA LabelledKeeps ==
    ASSUME WatchInv, Labelled, [Next]_vars
    PROVE  Labelled'
<1> USE DEF WatchInv
<1>1. /\ generation \in Nat /\ generation <= generation /\ writing \in Connections
      /\ pc \in [Threads -> Places] /\ reader \in [Threads -> Connections]
  BY DEF Typed, StoreTyped, RequestsTyped
<1>2. ASSUME NEW t \in Threads, NEW place, pc[t] # "open reader", Goes(t, place)
      PROVE  \A u \in Threads : pc[u] = "open reader" => pc'[u] = "open reader"
  BY <1>1, <1>2 DEF Goes
<1>3. ASSUME NEW t \in Threads, LookDamaged(t) \/ LookFile(t) \/ TakeWatch(t) PROVE Labelled'
  <2>1. pc[t] # "open reader" /\ \E place : Goes(t, place)
    BY <1>3 DEF LookDamaged, LookFile, TakeWatch
  <2>2. UNCHANGED <<generation, reader, writing>>
    BY <1>3 DEF LookDamaged, LookFile, TakeWatch, store, own
  <2> QED BY <1>1, <1>2, <2>1, <2>2, LabelledKept
<1>4. ASSUME NEW t \in Threads, Check(t) PROVE Labelled'
  <2>1. pc[t] # "open reader" /\ \E place : Goes(t, place)
    BY <1>4 DEF Check
  <2>2. UNCHANGED <<reader, writing>> /\ generation' \in {generation, generation + 1}
    BY <1>4 DEF Check, own
  <2>3. generation' \in Nat /\ generation <= generation'
    BY <1>1, <2>2
  <2> QED BY <1>2, <2>1, <2>2, <2>3, LabelledKept
<1>5. ASSUME NEW t \in Threads, Publish(t) \/ Judge(t) \/ Verdict(t) PROVE Labelled'
  <2>1. pc[t] # "open reader" /\ \E place : Goes(t, place)
    BY <1>5 DEF Publish, Judge, Verdict, Ends, LetsGo
  <2>2. UNCHANGED <<generation, reader, writing>>
    BY <1>5 DEF Publish, Judge, Verdict, store, own
  <2> QED BY <1>1, <1>2, <2>1, <2>2, LabelledKept
<1>6. ASSUME NEW t \in Threads, Connect(t) PROVE Labelled'
  <2>1. CASE reader[t].generation = generation
    <3>1. pc[t] # "open reader" /\ \E place : Goes(t, place)
      BY <1>6, <2>1 DEF Connect
    <3>2. UNCHANGED <<generation, reader, writing>>
      BY <1>6, <2>1 DEF Connect, store, own
    <3> QED BY <1>1, <1>2, <3>1, <3>2, LabelledKept
  <2>2. CASE reader[t].generation # generation
    <3>1. /\ UNCHANGED <<generation, writing>> /\ pc[t] = "connect"
          /\ pc' = [pc EXCEPT ![t] = "open reader"]
          /\ reader' = [reader EXCEPT ![t] = [reader[t] EXCEPT !.generation = generation]]
      BY <1>6, <2>2 DEF Connect, Goes, store, own
    <3>2. /\ reader'[t].generation = generation /\ reader'[t].opened = reader[t].opened
          /\ pc'[t] = "open reader"
          /\ \A u \in Threads \ {t} : reader'[u] = reader[u] /\ pc'[u] = pc[u]
      BY <1>1, <3>1 DEF Connections
    <3> QED BY <1>1, <3>1, <3>2 DEF Labelled
  <2> QED BY <2>1, <2>2
<1>7. ASSUME NEW t \in Threads, OpenReader(t) PROVE Labelled'
  <2>1. /\ UNCHANGED <<generation, writing>>
        /\ pc' = [pc EXCEPT ![t] = "reading"]
        /\ reader' = [reader EXCEPT ![t] = Opened(reader[t].generation)]
    BY <1>7 DEF OpenReader, Goes, store, own
  <2>2. /\ reader'[t].generation = reader[t].generation /\ reader'[t].opened = generation
        /\ \A u \in Threads \ {t} : reader'[u] = reader[u] /\ pc'[u] = pc[u]
    BY <1>1, <2>1 DEF Opened
  <2> QED BY <1>1, <2>1, <2>2 DEF Labelled
<1>8. ASSUME NEW t \in Threads, Finish(t) \/ LookWhole(t) \/ CheckWhole(t) PROVE Labelled'
  <2>1. pc[t] # "open reader" /\ \E place : Goes(t, place)
    BY <1>8 DEF Finish, LookWhole, CheckWhole, Ends, LetsGo
  <2>2. UNCHANGED <<generation, reader, writing>>
    BY <1>8 DEF Finish, LookWhole, CheckWhole, store, own
  <2> QED BY <1>1, <1>2, <2>1, <2>2, LabelledKept
<1>9. ASSUME NEW t \in Threads, OpenWriter(t) \/ LabelWriter(t) PROVE Labelled'
  <2>1. UNCHANGED <<generation, reader>>
    BY <1>9 DEF OpenWriter, LabelWriter, store
  <2>2. \A u \in Threads : pc[u] = "open reader" => pc'[u] = "open reader"
    BY <1>1, <1>9 DEF OpenWriter, LabelWriter, Goes
  <2>3. writing'.opened \in {generation, writing.opened}
    <3>1. CASE OpenWriter(t)
      BY <3>1 DEF OpenWriter, Opened
    <3>2. CASE LabelWriter(t)
      BY <1>1, <3>2 DEF LabelWriter, Connections
    <3> QED BY <1>9, <3>1, <3>2
  <2>4. writing'.opened <= generation
    <3>1. writing.opened <= generation
      BY DEF Labelled
    <3> QED BY <1>1, <2>3, <3>1
  <2> QED BY <1>1, <2>1, <2>2, <2>4 DEF Labelled
<1>10. ASSUME NEW t \in Threads, Ready(t) \/ Commit(t) PROVE Labelled'
  <2>1. pc[t] # "open reader" /\ \E place : Goes(t, place)
    BY <1>10 DEF Ready, Commit, Ends, LetsGo
  <2>2. UNCHANGED <<generation, reader, writing>>
    BY <1>10 DEF Ready, Commit, store, own
  <2> QED BY <1>1, <1>2, <2>1, <2>2, LabelledKept
<1>11. ASSUME NEW t \in Threads, CheckpointLook(t) \/ Fold(t) \/ CheckpointLookAfter(t)
       PROVE Labelled'
  <2>1. pc[t] # "open reader" /\ \E place : Goes(t, place)
    BY <1>11 DEF CheckpointLook, Fold, CheckpointLookAfter, Ends, LetsGo
  <2>2. UNCHANGED <<generation, reader, writing>>
    BY <1>11 DEF CheckpointLook, Fold, CheckpointLookAfter, store, own
  <2> QED BY <1>1, <1>2, <2>1, <2>2, LabelledKept
<1>12. ASSUME NEW t \in Threads, CheckpointCheck(t) \/ CheckpointJudge(t) PROVE Labelled'
  <2>1. pc[t] # "open reader" /\ \E place : Goes(t, place)
    BY <1>12 DEF CheckpointCheck, CheckpointJudge, LetsGo
  <2>2. UNCHANGED <<generation, reader, writing>>
    BY <1>12 DEF CheckpointCheck, CheckpointJudge, own
  <2> QED BY <1>1, <1>2, <2>1, <2>2, LabelledKept
<1>13. ASSUME NEW t \in Threads, NEW what \in Tasks, Start(t, what) PROVE Labelled'
  <2>1. pc[t] # "open reader" /\ \E place : Goes(t, place)
    BY <1>13 DEF Start
  <2>2. UNCHANGED <<generation, reader, writing>>
    BY <1>13 DEF Start, store, own
  <2> QED BY <1>1, <1>2, <2>1, <2>2, LabelledKept
<1>14. ASSUME Environment PROVE Labelled'
  <2>1. UNCHANGED <<generation, reader, writing, pc>>
    BY <1>14 DEF Environment, WaitPasses, Overwrite, Replace, Remove, OtherCheckpoint, Outside, own
  <2> QED BY <1>1, <2>1, LabelledKept
<1>15. ASSUME UNCHANGED vars PROVE Labelled'
  BY <1>1, <1>15, LabelledKept DEF vars
<1>16. ASSUME NEW t \in Threads, Step(t) PROVE Labelled'
  BY <1>3, <1>4, <1>5, <1>6, <1>7, <1>8, <1>9, <1>10, <1>11, <1>12, <1>16 DEF Step
<1> QED BY <1>13, <1>14, <1>15, <1>16 DEF Next

\* The invariant holds for any threads, writers and bounds.
THEOREM WatchInductive == Spec => [](WatchInv /\ Labelled)
  BY InitHolds, StepKeeps, LabelledKeeps, PTL DEF Spec

\* A request that comes after a change from outside is served the file as it is, or is
\* refused, as far as a stat tells the change (_watch, _reader, _ready_to_write).
THEOREM ServesTheFileHolds == Spec => []ServesTheFile
<1>1. WatchInv => ServesTheFile
  <2> SUFFICES ASSUME WatchInv PROVE ServesTheFile
    OBVIOUS
  <2> USE DEF WatchInv
  <2>1. TypeOK
    BY DEF TypeOK, Typed, StoreTyped, RequestsTyped, Stats
  <2>2. DamageIsRefused
    BY DEF DamageIsRefused, Serving, Own, Passed, LetIn, Readying
  <2>3. ServedAfresh
    BY DEF ServedAfresh, Serving, Served, Own
  <2> QED BY <2>1, <2>2, <2>3 DEF ServesTheFile
<1> QED BY <1>1, WatchInductive, PTL

\* The store's own commits and checkpoints open no connection afresh and refuse nothing, and
\* a damaged file is checked once a wait (_checkpoint, _watch).
THEOREM WatchIsSparingHolds == Spec => []WatchIsSparing
<1>1. WatchInv => WatchIsSparing
  <2> SUFFICES ASSUME WatchInv PROVE WatchIsSparing
    OBVIOUS
  <2> USE DEF WatchInv
  <2>1. OwnFoldsMoveNothing
    BY DEF OwnFoldsMoveNothing, Known
  <2>2. ChecksArePaced
    <3> SUFFICES ASSUME NEW t \in Threads, pc[t] = "check", damaged, looked.stat = file
                 PROVE  due
      BY DEF ChecksArePaced
    <3>1. watcher = t
      BY DEF Locks, LocksOf, Holding, Deciding
    <3> QED BY <3>1 DEF AtLock
  <2> QED BY <2>1, <2>2 DEF WatchIsSparing
<1> QED BY <1>1, WatchInductive, PTL

=============================================================================
