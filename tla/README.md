# A TLA+ model of the UAS Sustainment Workbench

The workbench (`src/src/uas_workbench`) keeps the maintenance and operations records of a
small fleet: it reads flight logs, keeps an append-only maintenance ledger, links every record
into a hash chain, and computes due lists and board states on every read. This folder holds
TLA+ modules of its parts, TLC configurations that check them on small instances, and proofs
checked by TLAPS. `PROJECT.json` lists every component, run, mutant, mapped definition,
finding, hazard and theorem.

## The system

| component | state it keeps | operations | interacts with |
|---|---|---|---|
| store: snapshots and kept answers (`service/store.py`) | one writing connection, one reading connection per thread, a labelling connection; three kept answers, each with a label and a lock; what the last own commit left (`_since`) | `snapshot`, `journal_state`, `readable`, `projection`; `add_aircraft`, `add_flight`, `add_log`, `append_entry`, `writing`, `batch` | SQLite's WAL and write lock; other connections on the file; the journal and the fold, whose results it keeps |
| store: watch (`_watch`, `_damage_in`, `check_whole`) | the file as last seen, its identity, what is wrong with it, the generation, when to check again | a look before every read and write; a check of the file whole | every connection, every label |
| store: checkpoints and close | own commits since the last checkpoint, the WAL | `_checkpoint`, `close` | readers and writers of every process |
| write journal (`service/journal.py`) | the chain of links, `user_version` | `append_link`, `migrate`, `verify` | called in the transaction of each row |
| ledger (`ledger/`) | entries, append-only | `validate`, `append`, `liveness`, `project` | reads and writes under `Store.writing`; flights and life limits |
| life engine (`life/`) | none | `due_list`, `board`, `component_usage`, `grounded_flights`, cues | the projection and the flights of one snapshot |
| reconciliation (`flight/reconcile.py`) | none | `reconcile` | flight records |
| parsers (`flight/px4.py`, `ardupilot.py`, `ulog_declared.py`) | none | one log to one flight record | `ingest` in the service and the command |
| HTTP service (`service/app.py`) | one store, the gauges, `_REFRESHING` | reads in a snapshot; `POST /entries`, `POST /ingest`; `UploadGuard` | the store, from a pool of threads |
| commands (`service/cli.py`) | the stores it opened | `seed`, `serve`, `ingest`, `record`, `verify`, exports | the same file as a running service |
| evidence, records summaries (`evidence/`) | none | one document from one snapshot | the store, the life engine |
| assistant (`assistant/`) | messages and calls of one question | `ask`, `ground` | the service's read endpoints, a local model |
| fleet, census | configuration; an offline study | | |

What is hard in it, and for each part what makes it correct:

* **Kept answers.** Three answers are computed rarely and shown on every page. A label names
  the state each describes; own commits move the labels on without computing; commits of other
  connections may land between any two statements. Correct: no answer given or kept is ever
  that of another state; a snapshot is one state; nobody waits for ever.
* **Write locks.** A transition is checked against the records and then written: the check and
  the write are under the store's lock and SQLite's. Correct: writes are as if made one after
  the other, across processes; a refusal writes nothing; the order of the locks has no cycle.
* **Watch.** The file may change under SQLite. Correct: no answer mixes two files; a damaged
  file is refused until it is sound again; a refusal ends.
* **Close and checkpoint.** Correct: a write beside a close waits a bounded time; the WAL is
  started over when readers leave a moment free; no committed row is lost.
* **Journal.** Correct: a chain the store wrote verifies; every edit of what a link covers is
  reported, at the first link it touches; a migration cut short is done once or not at all.
* **Ledger.** Correct: every live entry is one its own records accept, whatever was entered,
  corrected, retracted and retracted again, in any order and at any date.
* **Life engine.** Correct: what the ledger refuses to fit is what the board calls reached;
  unknown is never counted as zero; a dated answer does not see what came after.
* **Gauges.** Correct: once writes stop, the gauges show the last state.
* **Ingest.** Correct: an aircraft's row and its flight, or neither; the temporary file goes.

## The plan

The most important behaviour first. Written so far, in this order:

1. `KeptAnswers` with `SnapshotReads` (abstract), `KeptWalks` (observer) and
   `KeptAnswersProofs`.
2. `Journal` with `RecordLog` (abstract), `JournalEdited` for the file edited past the store,
   and `JournalProofs` about both.
3. `FlightLogs` and `Usage` (flight records, their reconciliation, flight time), `Flights` (an
   autopilot and the readers of its logs), `Ledger` (liveness and the fold), `Life` (due lists,
   board, flights flown while grounded), `LedgerRules` (what may be written), `LedgerProofs` and
   `FlightsProofs`.
4. `StoreWatch` (the look before every read and write), `SideFiles` (the file and its -wal at
   opening, close and refusal), `Service` (requests and commands beside one another), each with
   its proofs: `StoreWatchProofs`, `SideFilesProofs`, `ServiceProofs`.
5. `Assistant` (a run, its recording, a replay) with `AssistantProofs`.

Every safety and action property of a passing run is stated by a theorem. The liveness properties
are model-checked only ("The proofs" says why).
None of the modules declares a RECURSIVE operator, and their bounds are constants with named
assumptions.

A run answers one question of the system and is kept large enough to answer it.

## Modules

### KeptAnswers: the store's snapshots and kept answers

Threads of one process share one store; other connections commit to its file at any moment
nobody holds SQLite's write lock. A step is what no other thread can see half of: one read or
write of a shared reference, one statement on one connection, one lock taken.

* **The file.** `history` is every state the file was committed in. A state is what the three
  answers can tell: the links of the journal and its head, the commit that broke the chain,
  the commit that last changed an entry, the tables that hold a record that cannot be read.
  Hashes, rows and folds are not spelled out: an answer is a function of the state (`Answer`).
* **Labels.** SQLite's `PRAGMA data_version` moves on a connection when it meets a state
  another connection committed, once however many commits it missed. The labelling connection
  (`_label`) is therefore the sequence `looks` of the states it met and a label is a position
  in it; the writing connection is a number, `version`, and the newest state it met, `seen`,
  its own commits included, since they do not move its version.
* **A snapshot** (`_begin`, `_capture`): `BeginLabel`, `BeginPin`, `BeginAgain`, `Capture`;
  the retry loop is bounded by `MaxTries` (1000 in the code). `EndSnapshot` is its rollback.
  A thread is in one call at a time; it opens a snapshot inside `writing` only, for the check.
* **An ask** (`_kept`): `Ask` looks at the store's answer and the captured one, `TakeLock`
  takes the lock of the kind and looks again, `Compute` computes in the snapshot's own
  transaction and looks at what is kept, `Keep` assigns. The look and the assignment are two
  steps, as in the code, since own writes move the answers without that lock.
* **An own write**: `StartAdd` or `StartChecked`, `Accept` or `Reject`; the reads of
  `_before_commit` one by one (`BeforeLabel`, `BeforeVersion`, `BeforeLabelAgain`); `Commit` or
  `Refuse` (busy past the timeout, or a duplicate); the reads of `_after_commit`
  (`AfterLabel`, `AfterVersion`), then for each kind a read and an assignment (`MoveFind`,
  `MoveOn`). `StartBatch`, `EndBatch` and `Drop` are a batch.
* **Others**: `OtherWrites` and `OtherEdits`; an edit may break or repair the chain and spoil
  or repair records.

Left out: the file changed outside SQLite, so the generation in every label is 0; checkpoints,
which change no label (the wait of one for older readers is bounded by the busy timeout); the
store in memory, whose reads hold the write lock; dated projections, which live in one
snapshot.

### SnapshotReads: what a reader is promised

An abstract store: commits append to the history, a snapshot opens on the newest state, an
answer is the answer of that state. Nothing is kept, labelled or locked. `KeptAnswers`
implements it under the mapping `view` (the pinned state of an open snapshot), as the property
`ReadsOneState`.

### KeptWalks: how often answers are computed

`KeptAnswers` with an observer that takes part in every step and restricts none: how often each
answer was computed for each state, until the store writes itself.

### Journal: the write journal

Stores of several processes on one file. `db` is the file as last committed: its rows, its
links, SQLite's last id of the entries and `user_version`. `work` is the file as the open write
transaction sees it, `holder` the process whose transaction it is, `todo` the rows it still has
to link. A commit replaces `db`; a process that stops drops its transaction.

* **Opening** (`journal.migrate`): `Open` reads the version without a lock; `BeginMigrate` takes
  the lock, reads it again and, on a 0.5.x store with rows, links the note (`Started`); then one
  `LinkNext` for each row, flights before entries; `Commit` sets the version with it.
  `OpenBusy` is the refusal when the lock stays taken. `LinkFails` is `append_link` raising: a
  migration is rolled back and the open refused (`failed`), a write is rolled back.
* **Writing** (`_add_flight`, `append_entry`): `Write` inserts the row with the id SQLite gives
  it (`NewId`: entries are AUTOINCREMENT, a flight's id is given again once the last flight is
  deleted), `LinkNext` links it, `Commit` commits both.
* **Stopping**: `Stop` at any statement.
* **Verifying**: `BreakAt` is one turn of the loop of `verify`, check by check in its order;
  `FirstBreak` is what it reports, `_unjournaled` included; `Intact` is a verification that is
  ok.

A hash is the value it covers. So two hashes are equal exactly when what they cover is, which is
what SHA-256 is relied on for; `LinkHash` covers what the code hashes and nothing else. A row is
a model value for its columns and the record parsed; `Garbled` is a record that cannot be parsed
or hashed. A migration note keeps its two counts.

Left out: a flight refused as a duplicate of its log (`UNIQUE (aircraft_key, log_ref)`), which
rolls back before any link; a write refused as busy, which changes nothing; batches of several
rows (in `KeptAnswers`); the damage `PRAGMA integrity_check` finds.

### RecordLog: what the journal promises

Rows and an append-only list of them. The list begins once, with a note and every row found,
each once, or empty when there are none; from then on a row and its item at the end are written
in one step. There are no processes, locks, transactions or hashes. `Journal` implements it under
the mapping `LogOf`, as the property `IsRecordLog`.

### JournalEdited: the file edited past the store

`Journal` with what anyone who has the file can do to it, the edits that `journal.py`, LIMITS.md
and `tests/test_journal.py` name: a row changed, deleted or inserted; one column of a link
changed; a link deleted, inserted (with hashes computed right or not) or moved; the journal
emptied; the tail cut off with its rows; every link recomputed. `NoteHead` is the operator who
verifies and writes the head down. Edits are committed when nobody holds the write lock, as
SQLite makes them.

### FlightLogs, Usage, Flights: flight, logged and not

`FlightLogs` holds flight records and `reconcile`: which records can be compared (`Checkable`),
their order or that there is none (`Ordered`), second uploads of one log (`FirstUploads`), flight
the lifetime counter saw and no log covers (`UnloggedFlights`), mismatches. `Usage` sums them to
flight time and time in service, as `Unknown` where the records do not say.

`Flights` supplies histories: an aircraft that is off, idle, armed or flying at each `Tick`, whose
autopilot keeps a lifetime counter (ArduPilot flushes it before a tolerance of flight is lost and
notes it in the log; PX4 saves it at disarm) and loses what it has not saved when power goes.
`StartLog` and `StopLog` are the families' rules, `UploadLog` takes any log off the aircraft, in
any order, again under another name. `Read` is what the readers of `flight/px4.py` and
`flight/ardupilot.py` make of a log. Samples are the ticks; a frame's bytes, batteries and faults
are left out.

### Ledger, Life, LedgerRules: entries and what follows from them

`Ledger`: an entry is `[id, subject, kind, at, supersedes, details]`, a ledger a set of them.
`LiveIds` decides liveness from the newest backwards, `FoldKey` the place of an entry (a
correction takes that of what it corrects), `Fold` the records; `ProjectAsOf` and `ProjectBefore`
are the projections at a date and as an entry found them.

`Life`: hours and cycles of a part over every airframe it was fitted to, one operator per kind of
due item, `DueList`, `Board`, `GroundingReasons`, and `GroundedFlights`, each at any date. Limits
are `PartRules` and `InspectionRules`, of which `Policy` asks what `policy_from_toml` does. Times
are whole units, so the code's roundings do nothing; months are a table of days (`MonthOf`).

`LedgerRules`: `Write` is `append`, with `validate`'s checks in their order (shape, subjects, filled
in defaults, policy, corrections, transitions, what a retraction brings back, what later entries
still hold, stated and derived hours), each an operator that says an entry passes it. `Form` is the
table of what an entry of each kind holds (`DETAILS`). `Upload` adds a flight record, refused only
for the name of a log the aircraft already has. Wording is left out.

### StoreWatch: the look at the file

Threads of one process, and anything that changes the file: overwritten in place (spoilt or
restored), replaced, removed, checkpointed by another connection, within or past a tick of the
clock that stamps it: a write to the file has the stamp of the one before, or the next
(`Stamps`). `LookDamaged` and `LookFile` are the look without the lock, `TakeWatch`, `Check`,
`Publish`, `Judge`, `Verdict` the one under it. A check judges by the stat taken before it whether
the file is still the one opened, and SQLite's part of it reads the file there by then
(`SoundFor`). `_file` and `_damaged` are assigned one after the other, as in the code.
`CheckpointLook` to `CheckpointJudge` are the store's own checkpoint. `LookWhole` and `CheckWhole`
are the check `GET /journal/verify` asks for, under the look's lock; its walk looks again.

Either connection is opened afresh when the generation moved, each step of it one of the module: a
reader is compared, labelled with the generation (`Connect`) and opened (`OpenReader`); the
writing connection is compared (`Ready`), opened (`OpenWriter`) and labelled with the generation
there is by then (`LabelWriter`). No lock keeps another thread's check from moving the generation
between the steps. A connection serves the pages of the file as it was when it was opened: a
reader has no page before its first statement, so of what it can serve that is the oldest, and
the writing connection reads pages as it is opened (`PRAGMA synchronous`).

`vouched`, `unseen` and the `opened` of a connection observe: which changes `_file` stands for,
what a request's look cannot have told (a change that left the stat alone; a verdict not assigned
yet), and the generation there was when the connection was opened. A file removed while it is open
is one that POSIX `unlink` leaves to the connections.

### SideFiles: the file and its -wal

Processes that open the file (`Begin`, `Check`, `Refused` or `Open`), read, commit, checkpoint and
close (`Passive`, `Truncate`, `TruncateBusy`, `Pause`, `Last`), or are stopped inside a fold
(`Stop`); the files damaged at rest; a good copy put back with the files moved aside as the
refusal says (`Restore`). A page is told by the commit that wrote it. `View` is what SQLite reads
from the two files, `FoldedTo` what a fold leaves, `PartlyFolded` and `Report` what the store makes
of a damaged one. SQLite is modelled from its documentation of WAL mode and how the code uses it.

### Service: requests and commands on one file

The store is the sequence of what was committed, so a snapshot, and what the gauges show, is a
length of it. A request goes through `Receive` (`UploadGuard`, piece by piece), `Route`,
`ReadUpload`, `TakeStore`, `Begin` (the file's lock, or `Busy`), `Check`, `Commit` (or
`CommitFails`), `Refresh`, `Snapshot`, `SetGauges`, `View`; GET /entries is `ReadDead` and
`ReadEntries`, a snapshot each. Commands are processes: a seed, `record` (`TryEmpty` first when
there is no store), `ingest` of several logs (`NextFile`). `Kill`, `CopyFails` and `Damage` are
what goes wrong, `MaxFaults` times. The service's start seeds the store and may be refused.

### Assistant: a run, its recording and a replay

`Chat` is any turn of the model, `Execute` one call (answered, corrected or refused), `Ground` the
check of the final text, `Record` and `Replay` a recording; `Enter` writes the ledger meanwhile.
A text is what it names: entries by the two ways to write them, numbers, words, the ledger note.
A number and its roundings are one token whatever its sign, as the check compares them; keys,
people, dates and work order states are all words; `FreeCount` is scaled down. The regular
expressions that find them are left out.

## The runs

A property is a conjunction of named parts where one question has several sides; each part has a
mutant of the code that breaks it.

| run | asks | instance |
|---|---|---|
| `KeptStates` | `KeptFaithful`, `AnswersFaithful`, `ReadsOneState` | 2 threads, 3 states, the journal's result; entries checked under the lock, aircraft, batches, commits from outside and edits that break and repair the chain |
| `KeptLive` | `TypeOK`, `ReadsAndWritesEnd`, `NewerStays`, `NewestComputedOnce` | 2 threads, 2 states, entries, batches, commits and edits from outside, spoiling entries; fairness |
| `JournalStores` | `TypeOK`, `StoreChainVerifies`, `MigratedOnce`, `OnlyGarbledRowsRefuse`, `IsRecordLog` | 2 processes, a 0.5.x store of up to 4 rows, some garbled; ids up to 3 |
| `JournalEdits` | `HeadVouches`, `EditsReported`, `BreaksNamed`, `BreakStays` | 1 process, 2 contents, a 0.5.x store or none, chains of up to 3 links and one put in, 2 edits of any kind, a head noted at any time |
| `Flights` | `CountedOnce`, `UnloggedIsUncovered` | one aircraft of either autopilot, every history of 8 ticks, 2 logs, 3 uploads of them in any order, twice or not at all |
| `Ledger` | `TypeOK`, `OnlyOneOfEach`, `EntriesHold`, `IntervalHoldsFlightSince`, `BoardAgrees`, `NeverFittedAtItsLimit`, `StatedHoursStayCredible`, `UndoRestores` | five topics, each with its drafts and logs: a part on two aircraft (6 entries, 2 logs), work orders (5), hours and inspections (4, 2 logs), entries written over retractions (5), the board (4, 2 logs with the lifetime counter) |
| `StoreWatch` | `ServesTheFile`, `WatchIsSparing`, `RestoredIsServed` | a thread that writes and one that reads, 2 changes from outside and 2 ticks of the clock after the first, 2 writes or batches; fairness |
| `Service` | `AcceptedInTurn`, `RefusedLeavesNothing`, `AnswersAreTrue`, `EverythingEnds` | 2 requests, a start of the service and a command, one fault (a kill, a full disk, damage); fairness |
| `SideFiles` | `NothingIsLost`, `LeftAsFound`, `DamageIsPlaced`, `CloseEnds` | 2 processes, 2 pages, 2 commits, one hard stop, one damage; fairness |
| `Assistant` | `AnswersAreGrounded`, `ReplayAgrees`, `EveryRunEnds` | 2 dates, 2 entries, 2 steps, 2 calls, texts of 2 tokens, a recording and its replay; fairness |
| `ServiceRefused` | `RefusalsWroteNothing`: violated | as `Service`; see below |
| `LedgerTwins` | `OnOneAircraft`: violated | a part, two aircraft, 8 entries; see below |

**Bounds of the store's answers.** The races are between one reader, one writer and one commit
from outside, or two readers of two states: two threads and three states hold each of them (a
state before, the one an own write makes, the one a foreign commit makes). `MaxCommits` bounds
the history, `MaxAsks` the asks in one snapshot, `MaxTries` the tries to open one (2 reaches both
the retry and the refusal). The kinds are independent of one another, each with a lock and a
label of its own: `KeptStates` takes the one that moves over a link, `KeptLive` the one an entry
drops, and the theorems any of them together. Each property is broken by a mutant of the code
under its own run: the label read before the version, a raised answer kept, any label used, an
older answer kept over a newer, a lock that excludes nobody or that waits for the write lock.

**Bounds of the journal.** Two processes that migrate one file, and one that writes beside one
that opens, are all the store has: a third only waits for the same lock. Two rows of each kind
before the journal and one after hold a migration of several links, its order, and an append
after it. `MaxId` bounds the rows, `LegacyIds` those of the 0.5.x store, `MaxEdits` the edits. An
edit touches one link or two, and a chain of a note, a flight and an entry has a first, a middle
and a last one; with one id of each kind a deleted flight's id is given again to the next. Two
edits are a row changed and the chain recomputed, or a tail cut, written again by the store and
one more edit, or a break and what might hide it. The mutants here: a row committed without its
link, a note for an empty store, the version not read again under the lock, the rows to link
forgotten, a note left unchecked on a row's link, a break one number early, a link hash that does
not cover the one before, an emptied journal taken for one not begun.

**Bounds of flight and ledger.** Eight ticks hold two logs in one boot or two, a counter that
lags at the first and is lost at a power cut, and flight before, between and after them; a third
upload is a second one of either. Nothing is flown after the first upload: what a reader makes of
a log does not depend on when it is uploaded. The ledger's topics are the groups of entries that
meet one another: six entries are a part registered twice, fitted, taken off, fitted elsewhere
and a retraction retracted; five are a work order opened, changed, closed, corrected and brought
back; four, with two logs uploaded at any moment, are hours set, stated, carried over and
changed; four more, with two logs whose counters show flight between them that none covers, are
what a board says before and after a part is fitted and an inspection done; five are the first that
put two entries at one place in the fold. Dates are three with two
to come, over three months.

**Bounds of the file.** In `StoreWatch` two threads are one that checks and one that looks
meanwhile (both kinds of request look and wait in the same way, so one thread writes and one
reads), two commits the number that is folded without a batch, two changes a damage and its
restoration, or a change that has the connections opened again and one while they are; two ticks
beyond the first stamp let a stat tell each of them, so the generation moves twice. In `SideFiles`
two pages are what a fold cut short leaves one of each, two commits the two copies a page may have
in the -wal; the safety properties held once with three commits too (2.06 million states, past the
run's time). `CloseEnds` needs a try and one more.

**Bounds of the service.** Two requests race for each lock and a command of another process for
the file's; one fault falls anywhere. Bodies are of one to four pieces against a limit of one and
an allowance of two: within, past the log's limit only, and past both. `ingest` is told one log,
or one that cannot be read and one that can.

**Bounds of the assistant.** Two entries are one that supersedes the other, entered between any
two of two calls; two tokens are an entry and its successor, or an entry and one claim.

**Fairness.** In `KeptAnswers` every thread that runs goes on running (weak fairness
of its own steps). A lock that others keep releasing is taken in the end (strong fairness of
`TakeLock`: `threading.Lock` is released by each holder after one computation, which ends). A
check makes finitely many reads (strong fairness of `Accept \/ Reject`). No caller has to begin
anything, no other connection has to commit or stop committing: the tries to open a snapshot are
bounded by the code.

In `StoreWatch` each thread under way goes on, requests keep coming (a damaged file is looked at
again by a request, by nothing else) and the wait after a check passes. In `Service` each actor
under way goes on; weak fairness is enough for its locks, since so many requests and commands
take each only so often; no client has to send its body, and no fault has to happen or stay away.
In `SideFiles` a close goes on: its waits are SQLite's busy timeouts, which end. In `Assistant`
an exchange with the model or the service ends, with a reply or its timeout.

## What the runs show of the documentation

* `ServiceRefused`: "503 naming it, on every route that reads or writes the store, /health
  included, nothing written" (`app.py`, `damaged`). An entry is committed, then the gauges are
  refreshed, which reads the store: a file found damaged by that read is answered 503 though the
  entry is in it. `RefusedLeavesNothing` is the promise with that exception.

* `LedgerTwins`: "No write may leave two live entries where the records allow one: [...] or two at
  one place in the records; each is refused with 409", and a write that "would leave a part on two
  aircraft at once, is refused" (README.md of the repository, on the ledger). `_twin`, whose checks
  are "the checks a new entry faces", is asked only of the entries a write brings back. An ordinary
  entry may supersede a retraction, at the retraction's date, where it stands at a place no other
  check looks at; a second one, over the same retraction brought back or over another retraction of
  the same entry, stands there too, and each is judged against what folds strictly before it. Five
  entries leave two figures of the hours before the first log at one place, of which the older one
  counts and the newer one is what stated hours were compared with; eight put a part on two
  aircraft at once. The same entries were put through `validate` of the repository, beside a store
  held in memory, and are accepted there. `OnlyOneOfEach` is the promise with that exception;
  `EntriesHold` and `StatedHoursStayCredible` hold as long as no two entries stand at one place.

What three of the ledger's properties say is less plain than their names:

* `StatedHoursStayCredible`: after a write no inspection is counted with hours past the time in
  service the aircraft can have had, but for one the records already held past it, and that one no
  further (each within `HoursSlack`). A log uploaded late or hours set later may leave one past it
  without any write being at fault, and `validate` compares a write with what it found.
* `OwnFlightNotHeld`, in `BoardAgrees`: an aircraft flown while grounded would have been grounded at
  that start had nothing been flown in that log. It says so of logs of some length, since one of no
  length ends, and counts, as it starts.
* `NeverFittedAtItsLimit` is of the write that fits a part: a log uploaded later may take a part
  past its limit while it is fitted, which the board then says.

Met while modelling, in no run of its own:

* An answer computed is kept "unless a newer state's answer is kept already" (`store.py`, module
  docstring and `_kept`). The look and the assignment are two steps and `_after_commit` moves
  answers without the lock, so an older answer can replace a newer one. The cost is one
  computation; no wrong answer is given (`KeptFaithful`). For the same reason `NewerStays` is
  checked until the store writes itself.
* The journal is walked "never for a write made through this store" (`journal_state`). A snapshot
  begun between the commit and the move walks the new state.
* A 0.5.x store is journaled when it is first opened, "each row linked as found" (LIMITS.md). A
  record that cannot be parsed makes `row_content` raise: the migration is rolled back and that
  store is refused at every open (`OnlyGarbledRowsRefuse`).
* `reconcile` looks at two neighbouring logs. A log without a lifetime counter between two that
  have one is not in its group, and its flight is told as flight no log covers, against the
  docstring of `reconcile.py`. Nor are second uploads of a log without a date dropped. What
  `Flights` says of flight time is therefore said of stores in which every log that shows flight is
  dated and holds the counter (`Telling`), and its run uploads such logs (`FullLogs`).
* The watch assigns `_file` before `_damaged`: a request that looks between the two reads a file
  already found damaged. `ServesTheFile` excepts it (`unseen` is `"verdict"`), and a sound change
  that lands inside the store's own checkpoint, which is taken for its own (`vouched.folded`).
* `_ready_to_write` opens the writing connection afresh and then reads the generation again for its
  label (`store.py:566` and `567`). Another thread's check can move the generation between the two
  (`_watch`, under its own lock): the connection then has the pages of the file before the change
  and the label of after it, and no later write opens it again before the next change, where
  `_watch` says "the generation moves, so every connection is opened afresh before its next use".
  `_reader` reads the generation first and has no such gap. `ServedAfresh`, in `ServesTheFile`,
  excepts a write on such a connection (`Mislabelled`), and no read. Without the exception TLC finds
  a violation of 25 states in the same instance: a change the write itself meets, a second one met
  by a read between the two lines, and the next write on the connection left as it was. Tried by
  hand, a connection so opened before a file was written over in place answered "database disk
  image is malformed" from then on (SQLite 3.40.1).
* The refusal of a damaged store says the file is damaged, though only the -wal is, when a fold
  was cut short and its own copies in the -wal were damaged after: nothing is left to tell the
  fold by (`FoldedCopyIsDamaged`, excepted in `DamageIsPlaced`).
* GET /entries reads what is superseded and each row's view in snapshots of their own: a listed
  entry can carry a `superseded_by` written meanwhile. What `ListIsOfItsTime` says holds.
* `ground` takes the number after "entries" for an entry's, not those that follow: "Entries 19 and
  20", with 20 superseded by 21, is verified without naming 21, where README.md says "an entry
  named without its successor marks it unverified". `SupersededIsSaid` is of the entries the check
  finds. The note of the ledger is accepted anywhere in the text, not only at its end; the sign of
  a number is not compared.

LIMITS.md also names what each edit is reported as; `BreaksNamed` checks that, with one
precision: "a link removed is `sequence`" is so of every link but the last, which is
`unjournaled`, since nothing after it shows the gap.

Until the store writes itself, a newer answer is never replaced by an older one, and the newest
state is computed once (`KeptLive`).

## The proofs

`KeptAnswersProofs` proves for every set of threads, kinds and writes and every bound:

* `TypeCorrect`: `Spec => []TypeOK`
* `KeptFaithfulHolds`: `Spec => []KeptFaithful`
* `AnswersFaithfulHolds`: `Spec => []AnswersFaithful`
* `ReadsOneStateHolds`: `Spec => ReadsOneState`, the refinement of `SnapshotReads`
* `NewerStaysHolds`: `WatchSpec => NewerStays`
* `NewestComputedOnceHolds`: `WatchSpec => NewestComputedOnce`

They rest on the assumptions named in `KeptAnswers` (the sets of kinds, writes and tables;
`Nobody` is no thread; the bounds are numbers, and the file has a state to begin with) and on
one inductive invariant, `IInv`. Neither faithfulness property is inductive: that a moved answer
is right depends on what the writing connection's version says of commits between two labels.
`WriteInv` states it stage by stage: as long as the version is still the one read before the
write, every state that connection met is in the label before the write or is the write itself
(`seen <= looks[before.label]` before the commit, `looks[before.label] = seen - 1` after it), so
that when the version read after the second label is unmoved (`exact`), that label names exactly
the state this commit made. `SnapOf` states the same for a snapshot: its pinned state lies
between the label read before and now, so two equal labels leave one state. `LooksInv` says a
label names a state that was. `Faithful` is carried by what is kept, what is captured and what a
write is about to move. The lemma `MovedFacts` shows that moving an answer computes it: a link
more on an intact chain, the same unreadable record, the same ledger when no entry was written.
`Grows` and the `...Stable` lemmas say once what steps of others leave alone; each action has
one lemma. The two theorems of `KeptWalks` need `WInv` beside it: labels come in the order of
the states they name (`LabelsOrdered`), so the label of the newest state is the greatest;
whoever computes holds the lock of the kind (`LockInv`), and until the store writes itself what
is kept is of another state than the one being computed, and no newer than the one being kept
(`ComputingKnows`). So a count of one for the newest state means that its answer is kept or
being kept (`CountsKnow`), and nobody computes it again. `Passes` says once what every other
step leaves alone.

`JournalProofs` proves for every set of processes and contents, every 0.5.x store and every
number of rows:

* `TypeCorrect`: `Spec => []TypeOK`
* `MigratedOnceHolds`: `Spec => []MigratedOnce`
* `StoreChainHolds`: `Spec => []StoreChainVerifies`
* `OnlyGarbledRowsRefuseHolds`: `Spec => []OnlyGarbledRowsRefuse`
* `IsRecordLogHolds`: `Spec => IsRecordLog`, the refinement of `RecordLog`.

They rest on the assumptions named in `Journal` (a garbled record, a missing row, a missing note
and a junk note are none of the contents or notes that are hashed) and on one inductive
invariant, `IInv`. That a chain verifies is not inductive, since it says nothing of the
transaction that a commit makes the file: `TxInv` says the transaction's links are a chain
(`Chain`: numbered without a gap, each naming the one before and hashing what it holds, no row
twice) whose unlinked rows are exactly those in `todo`, so at a commit, with `todo` empty, none
is left; `MigrateInv` and `WriteInv` say what the transaction began from, which is what the
refinement needs: a migration leaves the rows alone, a write adds one. `StageInv` carries that
only an unjournaled file is being migrated, which the second read of the version gives and the
first does not. The tail, the next id and the next row are each chosen as a least or greatest
number of a set; that there is one is `Least`, from the library's theorem that the finite sets of
numbers are well-founded under inclusion, since the library's induction is not to be had.
`MigratedOnce` needs `NoteInv` beside it: while a migration runs, the rows its note counts are
those linked so far and those left, which is a count of rows by kind (`CountsAddUp`).

Of `JournalEdited` it proves, for any number of edits:

* `HeadVouchesHolds`: `EditedSpec => []HeadVouches`
* `EditsReportedHolds`: `EditedSpec => EditsReported`
* `BreaksNamedHolds`: `EditedSpec => BreaksNamed`
* `BreakStaysHolds`: `EditedSpec => BreakStays`

The invariant of the first, `HeadInv`, says little: a link has the six columns of its table, there
are finitely many, and what was noted verified. The rest is about two chains (`HeadCovers`). A
link's hash covers its number, so a head found in the new chain is found at the number it had; it
covers the hash before, so of the links below none can be the last whose hash differs
(`SameBelow`, by the least distance from the head); and a link that passes the walk has the note
and the row its hash covers (`SoundLink`).

`EditsReported` compares two files as well. Up to the first place an edit touches the walk finds
what it found (`UntouchedIsSound`), so a break there or one on is the first (`BreakNearIsReported`);
each edit is then shown to make one, or to leave a first part of the chain with its rows or one
link more (`CutIsUnseen`, `InsertedLink`). That a link has its own number in its hash is what
gives a link put in or two exchanged away (`WrongNumber`). A recomputed chain is a recursive
function: `RechainedIs` shows that there is one, by the least length it could fail at, and
`SoundIsRechained` that on an intact chain it changes nothing. `BreaksNamed` needs that before the
first edit the file is what the stores made of it (`StoresOnly`, from `IInv`): its last link is
no note, so the row it names is missed when the link goes.

`BreakStays` needs `WriterInv`: an open transaction is the file as it is, with one row more and
perhaps its link, so that a break of the file is a break of what is committed, the row's new id
included.

`ServiceProofs` proves for any requests, commands, logs, sizes and number of faults:

* `AcceptedInTurnHolds`: `Spec => []AcceptedInTurn`
* `RefusedLeavesNothingHolds`: `Spec => []RefusedLeavesNothing`
* `AnswersAreTrueHold`: `Spec => []AnswersAreTrue`

They rest on `ServiceAssumption` (the actors are distinct, the bounds numbers) and
`JobsAssumption` (what a client may send and an operator may run: the operations of the routes and
commands with their fields). None of the three says where anybody is, so none is inductive.
`ServiceInv` says it of every actor: who is between its check and its commit holds the file's lock
and what it was checked against stands (`CheckStands`); a request has written nothing before its
commit and once after it (`TraceOK`); whose snapshot the gauges are set from is no older than the
write it must show (`ShownOK`); the two snapshots of a list come in their order (`ListOK`); an
ingest without a refusal so far holds every log before its next (`HeldOK`). `Moves` says what a
step of one actor may do to the rest, and `Own` of the others follows from it once for all
actions.

`StoreWatchProofs` proves for any threads, changes from outside, commits and ticks:

* `ServesTheFileHolds`: `Spec => []ServesTheFile`
* `WatchIsSparingHolds`: `Spec => []WatchIsSparing`

The assumptions are that the bounds are numbers and `NoOne` no thread. What carries the promise
from the look to the answer is what each place of the look knows of the file (`AtLock`): while no
change is overlooked the stat its holder took is the file's, and the verdict that goes with it is
of the same image; a check is begun for a cause that lasts until its verdict is kept (`Cause`), so
a stat once left never comes back, as only its stamp moves while the file is the one opened.
What carries it from there to the pages served is the generation a connection was opened in: as
long as it is the present one, its pages are the file's (`Fresh`). A reader is labelled before it
is opened, so that its label is never later than its pages (`Labelled`, the part of the invariant
that is about labels); of the writing connection that is no invariant, and the theorem has
`ServedAfresh` with its exception (see above).

`SideFilesProofs` proves for any processes, pages, tries, commits, stops and damages:

* `NothingIsLostHolds`: `Spec => []NothingIsLost`
* `LeftAsFoundHolds`: `Spec => LeftAsFound`
* `DamageIsPlacedHolds`: `Spec => DamageIsPlaced`

Short of damage (`Clean`) the -wal is the last commits, and a page of the file is as it was when
the -wal started or as a commit in the -wal left it that no read still open is older than. That is
why a fold cut short at any page loses nothing, and why an open read keeps its state. After damage
the same is said of the copy. What outlives damage (`PlacedInv`) is that as long as there is a
-wal, a page of the file is damaged, or as the -wal's start or as a commit in the -wal left it,
and that `integrity_check` never leaves a damaged page open. So if no page of the file is damaged,
the file and the whole -wal make the last state (`WholeView`): a refusal whose file alone passes
is due to the -wal. And if nothing looks like a fold cut short, the file holds none of the -wal's
copies or the last of every page in it, a committed state either way (`WholeFile`), which
passes: a refusal that blames the file is due to the file.

`AssistantProofs` proves for any dates, texts, calls and step limit, and any ledger:

* `AnswersAreGroundedHold`: `Spec => []AnswersAreGrounded`
* `ReplayAgreesHolds`: `Spec => []ReplayAgrees`

That a replay is where the recorded run was after as many steps is a fact about a run that is
gone. The invariant keeps a trace of it (`Held`): the recorded answer was reached by some run from
its start (`IsTrace`), and the replay follows a state of that trace, or was refused on its next
call. The supersession of the service's listing is a recursive function; that there is one is
shown by the greatest entry it fails at (`SupersessionDefined`).

`LedgerProofs` proves for any drafts, aircraft, dates, rules and logs, and any number of entries
in any order:

* `LedgerTypeOK`: `Spec => []TypeOK`
* `OnlyOneOfEachHolds`: `Spec => []OnlyOneOfEach`
* `EntriesHoldHolds`: `Spec => []EntriesHold`
* `IntervalHoldsFlight`: `Spec => []IntervalHoldsFlightSince`
* `BoardAgreesAlways`: `Spec => []BoardAgrees`
* `NeverFittedOverdue`: `Spec => NeverFittedAtItsLimit`
* `StatedHoursCredible`: `Spec => StatedHoursStayCredible`
* `UndoRestoresHolds`: `Spec => UndoRestores`

What is assumed of the constants, and why the code justifies it:

* `TopicsAssumption`: a draft has a kind the code knows, a subject, a date that is a number and the
  details of its kind (`validate.py` refuses any other); a log is a flight record of one of the
  aircraft, its times numbers or unknown (what the parsers return). The calendar life of a
  registered part ends on a day of `MonthOf` (`LifeEnds`): the code's calendar has no last day,
  the table has.
* `LifeAssumption`: what `policy_from_toml` lets pass (`Policy`); the days of the table are numbered
  from 0; `Unknown` is none of the five statuses and `None` no completion of an inspection, as
  Python's `None` is no string and no `Done`.
* `LedgerAssumption`: `None` is no number.

Liveness, the place in the fold and the fold are recursive functions, of which a proof has an
equation once it is shown that there is one (`Recursion`, by the least id at fault); then
`LiveIs`: an entry is live exactly when no live one supersedes it. What one write changes from live
to dead and back is a chain of supersessions from the entry it supersedes down (`ChangedInChain`),
so it has one root and one subject.

`LedgerHolds` is the invariant of the first theorem. That one live entry supersedes another
(`Single`) is kept because what comes back is asked for a twin; that no two stand at one place is
not, since a new entry is not asked. It needs `Short`: without a retraction a chain of corrections
has two entries at most, for the third brings back what the second had ended, at the very place of
the third, and is refused. So a new entry stands at a live one's place only when one of them was
written over a retraction.

`RecordsInv` adds that each live entry fits the records it found (`FitsAll`, the checks of a
transition without the limits of the part, which a log may pass later). A write changes what an
entry found only through entries of its own subject (`FoldLocal`, by induction over the fold), and
those that change are none of them before the first that `validate` starts judging from
(`KeepsPast`): an entry is judged again or found what it finds now. From that the windows of a
part follow one after another (`WindowsInTurn`), each fitted when the one before has ended, as
long as what an entry found is all that is folded before it, which two entries at one place
break. `UndoRestores` is that a retraction of a retraction leaves live what was live without
them, each at its place (`Restores`, `FoldSame`); an entry written over the first retraction loses
its place there, so of that case only the fold itself is stated.

`TypedInv` adds the types: entries are `Kept`, the logs of an aircraft `Logged`, so that records
are what they should be (`RecordsKept`) and flight time is a number wherever the code takes it for
one. A sum over logs is a recursive function too, of which one exists (`IterationExists`); it grows
with the set and with each value, whatever the order (`FlownIs`, `UnloggedIs`, `FlightTimeGrows`).
With that:

* The hours of an interval are a difference of two sums, of the logs up to two dates, so they hold
  every dated log between the two (`IntervalHoldsFlight`).
* `validate` and the board count a part's hours and cycles by the same sums, `validate` from the
  records just before the entry and the board from those at its date; that the part is the same in
  both follows from `RecordsInv` (`NeverFittedOverdue`).
* An inspection whose hours a write leaves further past the greatest time in service than it found
  them is refused; one the write does not touch stands on the same logs (`StatedHoursCredible`).
* Serviceable means nothing due is reached or unknown, which is a walk through the kinds of due
  items (`ServiceableCounted`).
* For `OwnFlightNotHeld` a log is compared with the same log with nothing flown in it. `Renames` is
  that putting one for the other leaves the order of the logs, the second uploads and the
  neighbours as they were (`OrderedRenamed`, `DuplicatesRenamed`, `PairsRenamed`); and until it
  ends, a log counts for no date (`UnflownCounts`). So every due item at the start of the log is
  the same without its flight (`DueAlike`), and the status with it.

`FlightsProofs` proves for either autopilot, any contents of logs, any tolerance and any bounds:

* `FlightsInductive`: `FlightsSpec => []FlightsInv`
* `UnloggedIsUncoveredAlways`: `FlightsSpec => []UnloggedIsUncovered`
* `CountedOnceAlways`: `FlightsSpec => []CountedOnce`

Assumed are the forms of the constants and `DuplicateWindow = 1`: a tick lasts as long as the window
in which two logs pass for one. A wider window takes two short logs for one, as the code's one
second does (TLC shows it from 4 ticks on), so that the time of logs shorter than the window, begun
within it, is not told. As `FlightsProofs` takes its lemmas about sums over logs and about their
order from `LedgerProofs`, the assumptions of that module are among its own.

`FlightsInv` compares the counter with what was flown. What it does not show (`Uncounted`) never
grows smaller; what it did not show when a log began (`Debt`) is at most a tolerance more than it
lacks now, and never more than a tolerance above that of a later log. That is not inductive without
what is still to be saved: ArduPilot's is within a tolerance, PX4's is nothing while it is disarmed
and when its log begins, by arming (`CounterInv`). Logs do not overlap, and a record is what
the reader makes of one (`LogsInv`, `StoredInv`).

From that the argument is about records in their order. Boot count and date give the same one
(`OrderedByStart`), and what is dropped is a second upload of a log that is kept (`ShownOnceIs`).
Flight between two neighbours is told as the counter's advance less what the first shows: at most
a tolerance more than was flown from the one's end to the other's start, ticks that lie in no log
(`UncoveredStep`). A log's flight and what is told after it make what was flown up to the next
log, but for a tolerance and for the debt that grew between the two (`StepIs`); in the sum of the
steps the debts cancel but for the first and the last, a tolerance to each step is left
(`ToldTo`, `AddsUp`). Flight time is a sum over a set, of records kept and of flight missing; it
grows by one of each as one goes along the order (`KeptNext`, `MissingNext`). The arming that
starts a PX4 log lies at its first sample, those ArduPilot's show after it, so the armings of two
logs are apart and their counts add up (`ArmingsApart`, `TotalApart`).

Only model-checked:

* Liveness (`ReadsAndWritesEnd`, `EverythingEnds`, `RestoredIsServed`,
  `CloseEnds`, `EveryRunEnds`), which is outside the prover's reach, as ENABLED is.

## Not modelled

* Cues, evidence packs and records summaries: pure functions of one snapshot, laid out as JSON,
  HTML and text; what they need of the store is one state for all their reads (`ReadsOneState`).
* Fleet configuration and demo data, the census of public logs: generated or offline, no state.
* Bytes and text: frames and messages of the logs, hashes (a hash is what it covers), regular
  expressions, wording, argument parsing.
* The store in memory, whose reads hold the write lock; permissions of side files
  (`unwritable_side_files`, `_cannot_write`).
* Time as durations: busy timeouts, pauses and waits are steps that end, tries are counted. So
  whether a close makes a writer with a busy handler of its own wait too long is not told.
* Month ends and leap years: the months are a table of days.
* Commits to a damaged file: in `SideFiles` none follows a damage before the restore, though
  damage no check has met yet stops no writer of the code. What is asked there of a damaged file
  is what is made of the files it was left in; that no request whose look came after the damage is
  served from it is `StoreWatch`'s.
* The kept answers under a file changed outside SQLite: `KeptAnswers` has a generation of 0,
  `StoreWatch` no kept answers. Every label holds the generation, so an answer of an older one is
  never used; no run shows the two together.
