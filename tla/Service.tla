------------------------------ MODULE Service -------------------------------
(***************************************************************************)
(* The HTTP service and the commands beside it on one store file           *)
(* (service/app.py, service/cli.py, the write locks of service/store.py):  *)
(* requests on threads of one process, each through the upload guard, the  *)
(* route, the store's lock, SQLite's write transaction, the refresh of the *)
(* gauges and the answer, and commands that are processes of their own.    *)
(*                                                                         *)
(* The store is the sequence of what was committed to it, so that a        *)
(* snapshot, and what the gauges show, is a length of that sequence.       *)
(***************************************************************************)
EXTENDS Naturals, Sequences, FiniteSets, SequencesExt

CONSTANTS
    Requests,       \* requests, each on a thread of the service
    Commands,       \* `uasw` commands, each a process
    RequestJobs,    \* what each request may ask: a post, an upload or a list
    CommandJobs,    \* what a command may be told
    FleetAircraft,  \* the aircraft a seed writes
    Limit,          \* the size limit on one log
    MaxFaults,      \* bound: how often something outside goes wrong
    Allowance,      \* what is read past it for a form's other fields (FORM_ALLOWANCE)
    Serve           \* the service's main thread, which seeds and starts it

NoOne == "no one"
NoJob == [op |-> "none"]

ASSUME ServiceAssumption ==
    /\ Serve \notin Requests \cup Commands /\ Requests \cap Commands = {}
    /\ NoOne \notin Requests \cup Commands \cup {Serve}
    /\ Limit \in Nat /\ Allowance \in Nat /\ MaxFaults \in Nat

\* What can be asked over HTTP, and what `uasw` can be told to write.
ASSUME JobsAssumption ==
    /\ \A p \in Requests : \A j \in RequestJobs[p] :
          \/ j.op = "list"
          \/ j.op = "post" /\ j.writer \in BOOLEAN
          \/ j.op = "upload" /\ j.writer \in BOOLEAN /\ j.declares \in BOOLEAN /\ j.size \in Nat
    /\ \A j \in CommandJobs :
          \/ j.op \in {"seed", "record"}
          \/ j.op = "ingest logs" /\ j.logs \in Seq(STRING)

VARIABLES
    log,          \* what was committed: [by, what]
    made,         \* who made the store file, or NoOne
    damaged,      \* the file was damaged outside the store, and fails its check
    storeLock,    \* holder of the service's Store._lock
    fileLock,     \* holder of SQLite's write transaction
    refreshLock,  \* holder of _REFRESHING
    gauges,       \* how much of the store the gauges show
    faults,       \* disks found full, kills and damage so far
    act           \* what each request, command and the main thread is at

world == <<log, made, damaged, storeLock, fileLock, refreshLock, gauges, faults>>
vars == <<world, act>>

Actors == Requests \cup Commands \cup {Serve}
InService(p) == p \notin Commands

-----------------------------------------------------------------------------
(* What the store holds, and what it takes.                                *)

Whats(l) == {l[i].what : i \in DOMAIN l}

Aircraft(l) ==
    {w.aircraft : w \in {x \in Whats(l) : x.kind = "flight"}}
    \cup (IF \E x \in Whats(l) : x.kind = "fleet" THEN FleetAircraft ELSE {})

EntryIds(l) == {i \in DOMAIN l : l[i].what.kind \in {"work", "register", "retraction"}}

\* Dead when a live later entry supersedes it.
DeadIds(l) ==
    LET dead[i \in EntryIds(l)] ==
            \E j \in EntryIds(l) :
                j > i /\ l[j].what = [kind |-> "retraction", of |-> i] /\ ~dead[j]
    IN  {i \in EntryIds(l) : dead[i]}

LiveIds(l) == EntryIds(l) \ DeadIds(l)

\* A flight is stored once, a part registered once, an entry superseded once; work is on an
\* aircraft the store holds; a seed is written to an empty store.
Accepts(l, w) ==
    CASE w.kind = "fleet"      -> l = <<>>
      [] w.kind = "flight"     -> w \notin Whats(l)
      [] w.kind = "work"       -> w.of \in Aircraft(l)
      [] w.kind = "register"   -> ~\E i \in LiveIds(l) : l[i].what = w
      [] w.kind = "retraction" -> w.of \in LiveIds(l)

-----------------------------------------------------------------------------
(* Ending.  An actor's outcome is "done", "refused" (on its input or on the *)
(* records), "duplicate" (a flight held already), "busy" (another process   *)
(* kept the file's write lock past the busy timeout), "damaged", "failed"   *)
(* (SQLite refused the write), or "killed".                                *)

Fails == faults < MaxFaults /\ faults' = faults + 1

Outcomes == {"none", "done", "refused", "duplicate", "busy", "damaged", "failed", "killed"}

Idle == [at |-> "new", job |-> NoJob, outcome |-> "none", next |-> 1, bad |-> FALSE,
         got |-> 0, temp |-> FALSE, since |-> 0, seen |-> 0, found |-> 0]

Put(p, a) == act' = [act EXCEPT ![p] = a]
Goes(p, place) == Put(p, [act[p] EXCEPT !.at = place])
Ends(p, outcome) == Put(p, [act[p] EXCEPT !.at = "end", !.outcome = outcome])

Free(lock, p) == IF lock = p THEN NoOne ELSE lock

\* Mutant: a refused write keeps the store's lock.
LetsGo_KeepsLock(p) ==
    /\ fileLock' = Free(fileLock, p)
    /\ UNCHANGED storeLock

LetsGo(p) ==
    /\ fileLock' = Free(fileLock, p)
    /\ storeLock' = Free(storeLock, p)

\* Mutant: a log refused as busy is passed over like one that is held already.
PassesOver_BusyToo(outcome) == outcome \in {"duplicate", "busy"}

\* A log that is held already is warned of only; any other refusal is the command's.
PassesOver(outcome) == outcome = "duplicate"

\* `uasw ingest` goes on to its next log past a duplicate or a busy store.
NextLog(p, outcome) ==
    Put(p, [act[p] EXCEPT !.at = "file", !.next = @ + 1,
                          !.bad = @ \/ ~PassesOver(outcome)])

\* The write of an actor was refused: a start finds the store holding something and leaves it
\* so, an ingest goes on, any other is over.
RefusedWrite(p, outcome) ==
    CASE p = Serve /\ outcome = "refused" -> Goes(p, "refresh")
      [] act[p].job.op = "ingest logs" /\ outcome \in {"duplicate", "busy"} ->
            NextLog(p, outcome)
      [] OTHER -> Ends(p, outcome)

-----------------------------------------------------------------------------
(* A request: its body through the upload guard, and the route.            *)

Serving == act[Serve].at = "serving"

Arrive(p) ==
    /\ act[p].at = "new" /\ Serving
    /\ \E j \in RequestJobs[p] :
          Put(p, [act[p] EXCEPT !.job = j, !.since = IF j.op = "list" THEN Len(log) ELSE 0,
                                !.at = IF j.op = "list" THEN "dead" ELSE "body"])
    /\ UNCHANGED world

Cap == Limit + Allowance
Capped(j) == j.op = "upload"

\* A log with its form's fields, one more than the log; the server cuts a body at the length
\* it declared.
BodyLength(j) == IF j.op = "upload" THEN j.size + 1 ELSE 1

\* Mutant: checked once the body is there, as the route's own dependency is.
Admitted_Later(p) == TRUE

\* The guard, before the first byte: the write check, then the declared length of an upload.
Admitted(p) ==
    LET j == act[p].job
    IN  j.writer /\ (Capped(j) /\ j.declares => BodyLength(j) <= Cap)

\* One receive: a refusal, or the next piece of the body, counted on an upload.
Receive(p) ==
    LET j == act[p].job  got == act[p].got + 1
    IN  /\ act[p].at = "body"
        /\ IF act[p].got = 0 /\ ~Admitted(p)
           THEN Ends(p, "refused")
           ELSE IF Capped(j) /\ got > Cap
           THEN Put(p, [act[p] EXCEPT !.got = got, !.at = "end", !.outcome = "refused"])
           ELSE Put(p, [act[p] EXCEPT !.got = got,
                                      !.at = IF got = BodyLength(j) THEN "route" ELSE "body"])
        /\ UNCHANGED world

\* POST /ingest: the log's own size, its reader, and its copy in a temporary file, which a
\* copy that fails removes.
Route(p) ==
    LET j == act[p].job
    IN  /\ act[p].at = "route"
        /\ IF ~j.writer THEN Ends(p, "refused")
           ELSE IF j.op = "post" THEN Goes(p, "lock")
           ELSE IF j.size > Limit \/ j.log = "unsupported" THEN Ends(p, "refused")
           ELSE Put(p, [act[p] EXCEPT !.temp = TRUE, !.at = "read"])
        /\ UNCHANGED world

CopyFails(p) ==
    /\ act[p].at = "read" /\ Fails
    /\ Put(p, [act[p] EXCEPT !.temp = FALSE, !.at = "end", !.outcome = "failed"])
    /\ UNCHANGED <<log, made, damaged, storeLock, fileLock, refreshLock, gauges>>

\* Mutant: the temporary file is removed once the log was read.
ReadUpload_KeepsUnread(p) ==
    /\ act[p].at = "read"
    /\ IF act[p].job.log = "unreadable"
       THEN Ends(p, "refused")
       ELSE Put(p, [act[p] EXCEPT !.temp = FALSE, !.at = "lock"])
    /\ UNCHANGED world

\* The reader; the temporary file is removed however it ends.
ReadUpload(p) ==
    /\ act[p].at = "read"
    /\ LET a == [act[p] EXCEPT !.temp = FALSE]
       IN  IF act[p].job.log = "unreadable"
           THEN Put(p, [a EXCEPT !.at = "end", !.outcome = "refused"])
           ELSE Put(p, [a EXCEPT !.at = "lock"])
    /\ UNCHANGED world

-----------------------------------------------------------------------------
(* The write: the store's lock, then the file's; the check under both; one *)
(* transaction.                                                            *)

\* What this actor is to write now.
Writes(p) ==
    LET j == act[p].job
    IN  CASE j.op = "post"   -> j.entry
          [] j.op = "record" -> j.entry
          [] j.op = "upload" -> [kind |-> "flight", aircraft |-> j.aircraft, log |-> j.log]
          [] j.op = "ingest logs" ->
                [kind |-> "flight", aircraft |-> j.aircraft, log |-> j.logs[act[p].next]]
          [] j.op = "seed"   -> [kind |-> "fleet"]

\* A command has a store, and so a store's lock, of its own.
TakeStore(p) ==
    /\ act[p].at = "lock"
    /\ IF InService(p) THEN storeLock = NoOne /\ storeLock' = p ELSE UNCHANGED storeLock
    /\ Goes(p, "begin")
    /\ UNCHANGED <<log, made, damaged, fileLock, refreshLock, gauges, faults>>

\* Mutant: checked and written under the store's own lock only.
TakesFile_Not(p) == UNCHANGED fileLock

TakesFile(p) == fileLock = NoOne /\ fileLock' = p

\* The file is looked at, then BEGIN IMMEDIATE.
Begin(p) ==
    /\ act[p].at = "begin"
    /\ IF damaged
       THEN LetsGo(p) /\ RefusedWrite(p, "damaged")
       ELSE TakesFile(p) /\ Goes(p, "check") /\ UNCHANGED storeLock
    /\ UNCHANGED <<log, made, damaged, refreshLock, gauges, faults>>

Busy(p) ==
    /\ act[p].at = "begin" /\ ~damaged
    /\ fileLock # NoOne
    /\ LetsGo(p) /\ RefusedWrite(p, "busy")
    /\ UNCHANGED <<log, made, damaged, refreshLock, gauges, faults>>

Check(p) ==
    /\ act[p].at = "check"
    /\ IF Accepts(log, Writes(p))
       THEN Goes(p, "write") /\ UNCHANGED <<storeLock, fileLock>>
       ELSE /\ LetsGo(p)
            /\ RefusedWrite(p, IF Writes(p).kind = "flight" THEN "duplicate" ELSE "refused")
    /\ UNCHANGED <<log, made, damaged, refreshLock, gauges, faults>>

\* Mutant: an upload's aircraft row is kept when its flight is not written.
Kept_AircraftRow(p) ==
    IF act[p].job.op = "upload"
    THEN Append(log, [by |-> p, what |-> [kind |-> "aircraft", of |-> act[p].job.aircraft]])
    ELSE log

\* What a transaction that SQLite refuses leaves behind.
Kept(p) == log

\* Mutant: the gauges are left as they are after an upload.
AfterWrite_NoRefresh(p) ==
    IF InService(p) /\ act[p].job.op # "upload" THEN "refresh" ELSE "end"

AfterWrite(p) == IF InService(p) THEN "refresh" ELSE "end"

Commit(p) ==
    /\ act[p].at = "write"
    /\ log' = Append(log, [by |-> p, what |-> Writes(p)])
    /\ LetsGo(p)
    /\ CASE act[p].job.op = "ingest logs" -> NextLog(p, "duplicate")
         [] act[p].job.op # "ingest logs" ->
                IF AfterWrite(p) = "end" THEN Ends(p, "done") ELSE Goes(p, "refresh")
    /\ UNCHANGED <<made, damaged, refreshLock, gauges, faults>>

CommitFails(p) ==
    /\ act[p].at = "write" /\ Fails
    /\ log' = Kept(p)
    /\ LetsGo(p) /\ RefusedWrite(p, "failed")
    /\ UNCHANGED <<made, damaged, refreshLock, gauges>>

-----------------------------------------------------------------------------
(* After the write: the gauges, from one snapshot, one refresh at a time;  *)
(* then the answer.                                                        *)

\* Mutant: refreshes run beside one another.
TakesRefresh_Not(p) == UNCHANGED refreshLock

TakesRefresh(p) == refreshLock = NoOne /\ refreshLock' = p

Refresh(p) ==
    /\ act[p].at = "refresh"
    /\ TakesRefresh(p)
    /\ Goes(p, "snapshot")
    /\ UNCHANGED <<log, made, damaged, storeLock, fileLock, gauges, faults>>

Snapshot(p) ==
    /\ act[p].at = "snapshot"
    /\ IF damaged
       THEN refreshLock' = Free(refreshLock, p) /\ Ends(p, "damaged")
       ELSE /\ Put(p, [act[p] EXCEPT !.seen = Len(log), !.at = "set"])
            /\ UNCHANGED refreshLock
    /\ UNCHANGED <<log, made, damaged, storeLock, fileLock, gauges, faults>>

SetGauges(p) ==
    /\ act[p].at = "set"
    /\ gauges' = act[p].seen
    /\ refreshLock' = Free(refreshLock, p)
    /\ CASE p = Serve                -> Goes(p, "serving")
         [] act[p].job.op = "post"   -> Put(p, [act[p] EXCEPT !.seen = 0, !.at = "view"])
         [] act[p].job.op = "upload" -> Ends(p, "done")
    /\ UNCHANGED <<log, made, damaged, storeLock, fileLock, faults>>

\* The entry as it is answered is read once more (superseded_by).
View(p) ==
    /\ act[p].at = "view"
    /\ Ends(p, IF damaged THEN "damaged" ELSE "done")
    /\ UNCHANGED world

-----------------------------------------------------------------------------
(* GET /entries: what is superseded, then the entries, a snapshot each.    *)

\* Mutant: what is superseded, as the gauges' snapshot saw it.
ReadDead_Kept(p) ==
    /\ act[p].at = "dead"
    /\ Put(p, [act[p] EXCEPT !.seen = gauges, !.at = "entries"])
    /\ UNCHANGED world

ReadDead(p) ==
    /\ act[p].at = "dead"
    /\ IF damaged THEN Ends(p, "damaged")
       ELSE Put(p, [act[p] EXCEPT !.seen = Len(log), !.at = "entries"])
    /\ UNCHANGED world

ReadEntries(p) ==
    /\ act[p].at = "entries"
    /\ IF damaged THEN Ends(p, "damaged")
       ELSE Put(p, [act[p] EXCEPT !.found = Len(log), !.at = "end", !.outcome = "done"])
    /\ UNCHANGED world

UpTo(n) == SubSeq(log, 1, n)

Listed(p) == EntryIds(UpTo(act[p].found)) \ DeadIds(UpTo(act[p].seen))

-----------------------------------------------------------------------------
(* Commands.                                                               *)

\* A command that would make the store checks its entry against an empty one first, and one
\* that only reads makes none.
Start(p) ==
    /\ act[p].at = "new"
    /\ \E j \in CommandJobs :
          LET a == [act[p] EXCEPT !.job = j]
          IN  CASE j.op = "seed" -> Put(p, [a EXCEPT !.at = "open"])
                [] j.op = "ingest logs" -> Put(p, [a EXCEPT !.at = "file"])
                [] j.op = "record" /\ made # NoOne -> Put(p, [a EXCEPT !.at = "open"])
                [] j.op = "record" /\ made = NoOne -> Put(p, [a EXCEPT !.at = "try"])
    /\ UNCHANGED world

\* Mutant: the store is opened first.
TryEmpty_Opens(p) ==
    /\ act[p].at = "try"
    /\ Goes(p, "open")
    /\ UNCHANGED world

TryEmpty(p) ==
    /\ act[p].at = "try"
    /\ IF Writes(p).kind # "retraction" /\ Accepts(<<>>, Writes(p))
       THEN Goes(p, "open") ELSE Ends(p, "refused")
    /\ UNCHANGED world

\* `uasw ingest`: each log in turn; one that cannot be read is the command's refusal.
NextFile(p) ==
    LET a == act[p]
    IN  /\ a.at = "file"
        /\ CASE a.next > Len(a.job.logs) -> Ends(p, IF a.bad THEN "refused" ELSE "done")
             [] a.next <= Len(a.job.logs) /\ a.job.logs[a.next] = "unreadable" ->
                    NextLog(p, "refused")
             [] OTHER -> Goes(p, "open")
        /\ UNCHANGED world

\* open_store: a store there is checked whole first; one that is not is made.
Open(p) ==
    /\ act[p].at = "open"
    /\ IF damaged THEN Ends(p, "damaged") /\ UNCHANGED made
       ELSE /\ made' = IF made = NoOne THEN p ELSE made
            /\ Goes(p, "lock")
    /\ UNCHANGED <<log, damaged, storeLock, fileLock, refreshLock, gauges, faults>>

\* A command is killed: what it had not committed is rolled back.
Kill(p) ==
    /\ act[p].at \notin {"new", "end"} /\ Fails
    /\ fileLock' = Free(fileLock, p)
    /\ Ends(p, "killed")
    /\ UNCHANGED <<log, made, damaged, storeLock, refreshLock, gauges>>

\* The store file is damaged outside the store, and stays so.
Damage ==
    /\ made # NoOne /\ ~damaged /\ Fails
    /\ damaged' = TRUE
    /\ UNCHANGED <<log, made, storeLock, fileLock, refreshLock, gauges, act>>

-----------------------------------------------------------------------------
\* `uasw serve` opens the store, seeds it and then serves.
Init ==
    /\ log = <<>> /\ made = NoOne /\ damaged = FALSE
    /\ storeLock = NoOne /\ fileLock = NoOne /\ refreshLock = NoOne
    /\ gauges = 0 /\ faults = 0
    /\ act = [p \in Actors |->
                IF p = Serve THEN [Idle EXCEPT !.job = [op |-> "seed"], !.at = "open"]
                ELSE Idle]

Write(p) ==
    \/ TakeStore(p) \/ Begin(p) \/ Busy(p) \/ Check(p) \/ Commit(p) \/ CommitFails(p)

ServeStep(p) == Open(p) \/ Write(p) \/ Refresh(p) \/ Snapshot(p) \/ SetGauges(p)

\* What a request does once its body is there.
RequestStep(p) ==
    \/ Route(p) \/ ReadUpload(p) \/ CopyFails(p) \/ Write(p)
    \/ Refresh(p) \/ Snapshot(p) \/ SetGauges(p) \/ View(p)
    \/ ReadDead(p) \/ ReadEntries(p)

CommandStep(p) == TryEmpty(p) \/ NextFile(p) \/ Open(p) \/ Write(p)

\* Nothing is left to do.
Over ==
    /\ \A p \in Actors :
          \/ act[p].at \in {"end", "serving"}
          \/ act[p].at = "new" /\ act[Serve].at = "end"
    /\ UNCHANGED vars

Next ==
    \/ ServeStep(Serve)
    \/ \E p \in Requests : Arrive(p) \/ Receive(p) \/ RequestStep(p)
    \/ \E p \in Commands : Start(p) \/ CommandStep(p) \/ Kill(p)
    \/ Damage
    \/ Over

Spec == Init /\ [][Next]_vars

\* Threads and processes are scheduled; a client may never send, a command never be given.
Fairness ==
    /\ WF_vars(ServeStep(Serve))
    /\ \A p \in Requests : WF_vars(RequestStep(p))
    /\ \A p \in Commands : WF_vars(CommandStep(p))

FairSpec == Spec /\ Fairness

-----------------------------------------------------------------------------
Places ==
    {"new", "body", "route", "read", "lock", "begin", "check", "write", "refresh", "snapshot",
     "set", "view", "dead", "entries", "open", "try", "file", "serving", "end"}

\* Whoever holds a lock is at a step that needs it, and lets it go with it.
TypeOK ==
    /\ damaged \in BOOLEAN /\ made \in Actors \cup {NoOne} /\ gauges \in 0..Len(log)
    /\ \A p \in Actors :
          /\ act[p].at \in Places /\ act[p].outcome \in Outcomes
          /\ storeLock = p <=> InService(p) /\ act[p].at \in {"begin", "check", "write"}
          /\ fileLock = p <=> act[p].at \in {"check", "write"}
          /\ refreshLock = p <=> act[p].at \in {"snapshot", "set"}

WrittenBy(p) == {i \in DOMAIN log : log[i].by = p}
Answered(p) == act[p].at = "end"

\* `writing`: writes from any thread and any process are accepted as if made one after the
\* other, each against all that was committed before it.
AcceptedInTurn ==
    /\ TypeOK
    /\ \A i \in DOMAIN log : Accepts(SubSeq(log, 1, i - 1), log[i].what)

\* A write that is answered is stored once; one refused for its input, the records, a busy
\* store or SQLite left nothing, no aircraft without its flight either (add_log).  A file
\* found damaged after the commit is the exception: see RefusalsWroteNothing.
RefusedWroteNothing ==
    \A p \in Requests :
        /\ Answered(p) /\ act[p].outcome \notin {"done", "damaged"} => WrittenBy(p) = {}
        /\ Answered(p) /\ act[p].outcome = "done" /\ act[p].job.op # "list" =>
              Cardinality(WrittenBy(p)) = 1

\* What the service says of the same without the exception: "503 naming it, on every route
\* that reads or writes the store, /health included, nothing written" (app.py, damaged).
RefusalsWroteNothing ==
    \A p \in Requests : Answered(p) /\ act[p].outcome # "done" => WrittenBy(p) = {}

\* Once a write is answered the gauges show it, whichever refresh set them last: they never go
\* back to a state before it (_REFRESHING).
AnsweredIsShown ==
    \A p \in Requests :
        Answered(p) /\ act[p].outcome = "done" => \A i \in WrittenBy(p) : i <= gauges

\* GET /entries beside writes leaves out no entry that was live from the request to the
\* reading of the entries, and lists none that was dead all the while.
ListIsOfItsTime ==
    \A p \in Requests :
        Answered(p) /\ act[p].job.op = "list" /\ act[p].outcome = "done" =>
            LET live(i, k) == i \in LiveIds(UpTo(k))
                span == act[p].since..act[p].found
            IN  \A i \in EntryIds(log) :
                    /\ (\A k \in span : live(i, k)) => i \in Listed(p)
                    /\ i \in Listed(p) => \E k \in span : live(i, k)

\* No byte of a write is read for a client that may not write, none of an upload that
\* declares too much, and of one that declares nothing one piece past the cap at most.
BodiesAreBounded ==
    \A p \in Requests :
        LET j == act[p].job
        IN  /\ act[p].got > 0 => j.writer
            /\ act[p].got > 0 /\ Capped(j) /\ BodyLength(j) > Cap =>
                  ~j.declares /\ act[p].got <= Cap + 1
            /\ act[p].temp => j.size <= Limit

\* The temporary copy of an upload is gone before the store is asked to take the flight, and
\* whenever the request is over (ingest's finally).
NoUploadStays == \A p \in Requests : act[p].temp => act[p].at = "read"

\* `uasw ingest` that exits 0 leaves every log it was given in the store.
ExitTellsWhatIsHeld ==
    \A p \in Commands :
        LET j == act[p].job
        IN  Answered(p) /\ j.op = "ingest logs" /\ act[p].outcome = "done" =>
              \A n \in DOMAIN j.logs :
                  [kind |-> "flight", aircraft |-> j.aircraft, log |-> j.logs[n]] \in Whats(log)

\* A `record` refused on a path with nothing at it makes no store there (issue #83), unless
\* another process wrote to it meanwhile.
RefusedMakesNothing ==
    \A p \in Commands :
        act[p].job.op = "record" /\ act[p].outcome = "refused" /\ made = p => log # <<>>

\* Whoever is refused leaves nothing: no record and no aircraft (but for a file found damaged
\* after the commit), no upload, no store; and no body it was not to send was read.
RefusedLeavesNothing ==
    RefusedWroteNothing /\ RefusedMakesNothing /\ NoUploadStays /\ BodiesAreBounded

\* What is answered is so: the gauges show the write, the list is of its time, and a command
\* that exits 0 holds what it was given.
AnswersAreTrue == AnsweredIsShown /\ ListIsOfItsTime /\ ExitTellsWhatIsHeld

\* Underway: what no client or operator has to move on.
Underway(p) == act[p].at \notin {"new", "body", "serving", "end"}

\* A start ends in a service or a refusal, and every request whose body has arrived and every
\* command ends, whoever holds which lock: with so many of them, all come to rest.
EverythingEnds == (\E p \in Actors : Underway(p)) ~> (\A p \in Actors : ~Underway(p))

=============================================================================
