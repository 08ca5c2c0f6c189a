------------------------------ MODULE Journal ------------------------------
(***************************************************************************)
(* The write journal (service/journal.py): one hash chain over every       *)
(* ledger entry and flight record of a store file.                         *)
(*                                                                         *)
(* Stores of several processes open one file, migrate it when a 0.5.x      *)
(* version left it, and write rows, each with its link in the transaction  *)
(* of the row.  A process may stop at any statement.  Verifying reads one  *)
(* committed state.  What edits the file past the store is in              *)
(* JournalEdited.                                                          *)
(*                                                                         *)
(* A hash is the value it is the hash of: two hashes are equal when what   *)
(* they cover is, which is what SHA-256 is relied on for.  A row is a      *)
(* model value; the columns and the parsed JSON it stands for are what is  *)
(* hashed.  SQLite's transaction is a copy of the file that replaces it at *)
(* the commit and is dropped when its process stops.                       *)
(***************************************************************************)
EXTENDS Naturals, FiniteSets

CONSTANTS
    Processes,   \* processes that open a store on the file
    Nobody,      \* holds no write lock: no process
    Contents,    \* what a row may state
    Garbled,     \* a record or note that cannot be parsed or hashed
    NoRow,       \* row_content of a row that is gone
    NoRef,       \* the ref of a note link (NULL)
    NoNote,      \* the note of any other link (NULL)
    JunkNote,    \* JSON in a note that is not the migration note
    Legacy,      \* what the rows of a 0.5.x store may hold
    LegacyIds,   \* bound: their ids
    MaxId        \* bound: ids of rows

RowKinds == {"entry", "flight"}
KINDS == RowKinds \cup {"note"}
Ids == 1 .. MaxId
Refs == RowKinds \X Ids

ASSUME ProcessesAssumption == Nobody \notin Processes
ASSUME ContentsAssumption ==
    /\ Garbled \notin Contents \cup {NoRow, NoNote}
    /\ \A x \in {Garbled, NoRow, NoNote, JunkNote} :
         x \notin [id : Ids, record : Contents] /\ x \notin [flights : Nat, entries : Nat]
ASSUME LegacyAssumption ==
    Legacy \subseteq Contents \cup {Garbled} /\ LegacyIds \subseteq Ids
ASSUME BoundsAssumption == MaxId \in Nat

VARIABLES
    db,      \* the file as last committed: rows, links, sqlite_sequence of the entries, user_version
    holder,  \* the process in a write transaction
    work,    \* the file as that transaction sees it
    todo,    \* the rows it has still to link
    stage    \* what each process is doing

txVars == <<holder, work, todo>>
vars == <<db, txVars, stage>>

-----------------------------------------------------------------------------
(* Hashes and rows.                                                         *)

Genesis == <<>>

\* A store file: its rows, its journal, sqlite_sequence of the entries and user_version.
File(rows, links, last, version) ==
    [rows |-> rows, links |-> links, last |-> last, version |-> version]
WithRows(d, rows) == File(rows, d.links, d.last, d.version)
WithLinks(d, links) == File(d.rows, links, d.last, d.version)

\* content_hash: of the content as the store reads it.
ContentHash(content) == content

\* Mutant of LinkHash: A link hash that does not cover the previous hash.
LinkHash_NoPrev(seq, kind, ref, content, prev) == <<seq, kind, ref, content>>

\* link_hash: over the sequence number, kind, ref, content hash and previous hash.
LinkHash(seq, kind, ref, content, prev) == <<seq, kind, ref, content, prev>>

\* The migration note: its counts; its time and its wording are left out.
MigrationNote(flights, entries) == [flights |-> flights, entries |-> entries]

\* row_content: the columns, the id among them, and the record parsed.
RowContent(d, kind, ref) ==
    IF <<kind, ref>> \notin DOMAIN d.rows THEN NoRow
    ELSE IF d.rows[<<kind, ref>>] = Garbled THEN Garbled
    ELSE [id |-> ref, record |-> d.rows[<<kind, ref>>]]

-----------------------------------------------------------------------------
(* Writing.                                                                 *)

\* _tail: the last link by sequence number.
TailSeq(d) == CHOOSE n \in DOMAIN d.links \cup {0} : \A m \in DOMAIN d.links : m <= n
TailHash(d) == IF TailSeq(d) = 0 THEN Genesis ELSE d.links[TailSeq(d)].link

MakeLink(seq, kind, ref, note, content, prev) ==
    [kind |-> kind, ref |-> ref, note |-> note, content |-> ContentHash(content),
     prev |-> prev, link |-> LinkHash(seq, kind, ref, ContentHash(content), prev)]

PutLink(links, seq, link) ==
    [n \in DOMAIN links \cup {seq} |-> IF n = seq THEN link ELSE links[n]]

\* append_link after the current tail.
AppendNote(d, note) ==
    LET seq == TailSeq(d) + 1 IN
    WithLinks(d, PutLink(d.links, seq, MakeLink(seq, "note", NoRef, note, note, TailHash(d))))
AppendRow(d, kind, ref) ==
    LET seq == TailSeq(d) + 1 IN
    WithLinks(d, PutLink(d.links, seq,
        MakeLink(seq, kind, ref, NoNote, RowContent(d, kind, ref), TailHash(d))))

Linked(d, kind, ref) == \E s \in DOMAIN d.links : d.links[s].kind = kind /\ d.links[s].ref = ref

\* append_link raises for a row that is gone or cannot be parsed, and its INSERT for a row
\* linked already (UNIQUE (kind, ref)).
CanLink(d, kind, ref) ==
    /\ RowContent(d, kind, ref) \notin {NoRow, Garbled}
    /\ ~Linked(d, kind, ref)

\* The row of the next link of a migration: flights by id, then entries by id.
Before(r, q) == IF r[1] = q[1] THEN r[2] <= q[2] ELSE r[1] = "flight"
NextRow(rows) == CHOOSE r \in rows : \A q \in rows : Before(r, q)

Count(d, kind) == Cardinality({r \in DOMAIN d.rows : r[1] = kind})

-----------------------------------------------------------------------------
(* Verifying.                                                               *)

\* Every sequence number up to s is there, so the walk reaches s.
Present(d, s) == 1 .. s \subseteq DOMAIN d.links
PrevHash(d, s) == IF s = 1 THEN Genesis ELSE d.links[s - 1].link

\* A link of the same row before s.
Seen(d, s) ==
    \E t \in 1 .. (s - 1) : d.links[t].kind = d.links[s].kind /\ d.links[t].ref = d.links[s].ref

\* _check_content: the break found reading what link s refers to.
ContentBreak(d, s) ==
    LET link == d.links[s]
        content == IF link.kind = "note" THEN link.note ELSE RowContent(d, link.kind, link.ref)
    IN  IF content \in {NoRow, NoNote} THEN "missing_row"
        ELSE IF content = Garbled \/ ContentHash(content) # link.content THEN "content"
        ELSE IF link.kind = "note" /\ content = JunkNote THEN "content"
        ELSE "none"

\* Mutant of BreakAt: The note column of a link that is no note left unchecked.
BreakAt_AnyNote(d, s) ==
    LET link == d.links[s] IN
    IF ~Present(d, s) THEN "sequence"
    ELSE IF link.kind \notin KINDS THEN "link_hash"
    ELSE IF link.kind # "note" /\ Seen(d, s) THEN "duplicate"
    ELSE IF link.prev # PrevHash(d, s) THEN "previous_hash"
    ELSE IF ContentBreak(d, s) # "none" THEN ContentBreak(d, s)
    ELSE IF LinkHash(s, link.kind, link.ref, link.content, link.prev) # link.link THEN "link_hash"
    ELSE IF link.kind = "note" /\ \E t \in 1 .. (s - 1) : d.links[t].kind = "note" THEN "content"
    ELSE "none"

\* The break verify reports at link s, in the order of its checks.
BreakAt(d, s) ==
    LET link == d.links[s] IN
    IF ~Present(d, s) THEN "sequence"
    ELSE IF link.kind \notin KINDS THEN "link_hash"
    ELSE IF link.kind # "note" /\ Seen(d, s) THEN "duplicate"
    ELSE IF link.prev # PrevHash(d, s) THEN "previous_hash"
    ELSE IF link.kind # "note" /\ link.note # NoNote THEN "content"
    ELSE IF ContentBreak(d, s) # "none" THEN ContentBreak(d, s)
    ELSE IF LinkHash(s, link.kind, link.ref, link.content, link.prev) # link.link THEN "link_hash"
    ELSE IF link.kind = "note" /\ \E t \in 1 .. (s - 1) : d.links[t].kind = "note" THEN "content"
    ELSE "none"

ChainSound(d) == \A s \in 1 .. TailSeq(d) : BreakAt(d, s) = "none"

\* _unjournaled: a row no link names.
Unjournaled(d) == \E r \in DOMAIN d.rows : ~Linked(d, r[1], r[2])

\* Mutant of FirstBreak: A row with no link reported at the last link and not past it.
FirstBreak_AtTail(d) ==
    IF ~ChainSound(d)
    THEN LET s == CHOOSE n \in 1 .. TailSeq(d) :
                    /\ BreakAt(d, n) # "none"
                    /\ \A m \in 1 .. (n - 1) : BreakAt(d, m) = "none"
         IN  [seq |-> s, kind |-> BreakAt(d, s)]
    ELSE IF Unjournaled(d) THEN [seq |-> TailSeq(d), kind |-> "unjournaled"]
    ELSE [seq |-> 0, kind |-> "none"]

\* The first break, and where.
FirstBreak(d) ==
    IF ~ChainSound(d)
    THEN LET s == CHOOSE n \in 1 .. TailSeq(d) :
                    /\ BreakAt(d, n) # "none"
                    /\ \A m \in 1 .. (n - 1) : BreakAt(d, m) = "none"
         IN  [seq |-> s, kind |-> BreakAt(d, s)]
    ELSE IF Unjournaled(d) THEN [seq |-> TailSeq(d) + 1, kind |-> "unjournaled"]
    ELSE [seq |-> 0, kind |-> "none"]

Intact(d) == ChainSound(d) /\ ~Unjournaled(d)

-----------------------------------------------------------------------------
(* Stores that open the file and write to it.                               *)

EmptyFunction == [x \in {} |-> x]

HighestId(rows, kind) ==
    LET ids == {r[2] : r \in {q \in DOMAIN rows : q[1] = kind}} \cup {0}
    IN  CHOOSE n \in ids : \A m \in ids : m <= n

\* The id SQLite gives a new row: entries are AUTOINCREMENT, flights are not.
NewId(d, kind) ==
    LET highest == HighestId(d.rows, kind)
    IN  1 + (IF kind = "entry" /\ d.last > highest THEN d.last ELSE highest)

PutRow(d, kind, id, content) ==
    File([r \in DOMAIN d.rows \cup {<<kind, id>>} |->
            IF r = <<kind, id>> THEN content ELSE d.rows[r]],
         d.links,
         IF kind = "entry" /\ d.last < id THEN id ELSE d.last,
         d.version)

Stages == {"closed", "begin", "migrating", "open", "writing", "failed"}

\* A store file before this version first opens it: new, or as 0.5.x left it.
Init ==
    /\ \E old \in SUBSET (RowKinds \X LegacyIds) : \E rows \in [old -> Legacy] :
         db = File(rows, EmptyFunction, HighestId(rows, "entry"), 0)
    /\ holder = Nobody
    /\ work = db
    /\ todo = {}
    /\ stage = [p \in Processes |-> "closed"]

Move(p, to) == stage' = [stage EXCEPT ![p] = to]

\* Mutant of Journaled: A journal found empty taken for one not begun.
Journaled_NotEmpty(d) == DOMAIN d.links # {} \/ DOMAIN d.rows = {}

\* migrate's test of PRAGMA user_version.
Journaled(d) == d.version >= 1

\* migrate: user_version is read before any lock is taken.
Open(p) ==
    /\ stage[p] \in {"closed", "failed"}
    /\ Move(p, IF Journaled(db) THEN "open" ELSE "begin")
    /\ UNCHANGED <<db, txVars>>

\* Mutant of Begins: the rows to link forgotten.
Begins_NoRows(p, d, rows) ==
    /\ holder' = p
    /\ work' = d
    /\ todo' = {}

Begins(p, d, rows) ==
    /\ holder' = p
    /\ work' = d
    /\ todo' = rows

\* Mutant of Started: An empty store given a note too.
Started_Always(d) == AppendNote(d, MigrationNote(Count(d, "flight"), Count(d, "entry")))

\* What migrate writes first under the lock: the note, when there is anything to link.
Started(d) ==
    IF DOMAIN d.rows = {} THEN d
    ELSE AppendNote(d, MigrationNote(Count(d, "flight"), Count(d, "entry")))

\* Mutant of BeginMigrate: The version not read again under the lock.
BeginMigrate_Unread(p) ==
    /\ stage[p] = "begin"
    /\ holder = Nobody
    /\ Move(p, "migrating") /\ Begins(p, Started(db), DOMAIN db.rows)
    /\ UNCHANGED db

\* BEGIN IMMEDIATE, and user_version read again: another process may have migrated the file.
BeginMigrate(p) ==
    /\ stage[p] = "begin"
    /\ holder = Nobody
    /\ IF Journaled(db)
       THEN Move(p, "open") /\ UNCHANGED txVars
       ELSE Move(p, "migrating") /\ Begins(p, Started(db), DOMAIN db.rows)
    /\ UNCHANGED db

\* The lock held by another for longer than an open waits: StoreBusy.
OpenBusy(p) ==
    /\ stage[p] = "begin"
    /\ holder # Nobody
    /\ Move(p, "closed")
    /\ UNCHANGED <<db, txVars>>

\* A row inserted by _add_flight or append_entry: its transaction begins with it.
Write(p, kind, content) ==
    /\ stage[p] = "open"
    /\ holder = Nobody
    /\ LET id == NewId(db, kind) IN
       /\ id <= MaxId
       /\ Begins(p, PutRow(db, kind, id, content), {<<kind, id>>})
    /\ Move(p, "writing")
    /\ UNCHANGED db

\* append_link of the next row, in the transaction.
LinkNext(p) ==
    /\ holder = p
    /\ todo # {}
    /\ LET r == NextRow(todo) IN
       /\ CanLink(work, r[1], r[2])
       /\ work' = AppendRow(work, r[1], r[2])
       /\ todo' = todo \ {r}
    /\ UNCHANGED <<db, holder, stage>>

\* Mutant of Releases: A transaction that ends and leaves rows to link behind.
Releases_KeepsTodo == holder' = Nobody /\ UNCHANGED todo

Releases == holder' = Nobody /\ todo' = {}

\* append_link raises: everything is rolled back; an open is refused, a write is an error.
LinkFails(p) ==
    /\ holder = p
    /\ todo # {}
    /\ ~CanLink(work, NextRow(todo)[1], NextRow(todo)[2])
    /\ Releases
    /\ work' = db
    /\ Move(p, IF stage[p] = "migrating" THEN "failed" ELSE "open")
    /\ UNCHANGED db

\* PRAGMA user_version = 1.
Versioned(d) == File(d.rows, d.links, d.last, 1)

\* Mutant of Commit: A commit between a row and its link, as autocommit would make.
Commit_Early(p) ==
    /\ holder = p
    /\ db' = IF stage[p] = "migrating" THEN Versioned(work) ELSE work
    /\ work' = db'
    /\ Releases
    /\ Move(p, "open")

\* PRAGMA user_version, after a migration, and the commit.
Commit(p) ==
    /\ holder = p
    /\ todo = {}
    /\ db' = IF stage[p] = "migrating" THEN Versioned(work) ELSE work
    /\ work' = db'
    /\ Releases
    /\ Move(p, "open")

\* The process closes its store or is stopped at any statement: nothing of its transaction stays.
Stop(p) ==
    /\ stage[p] # "closed"
    /\ Move(p, "closed")
    /\ IF holder = p THEN Releases /\ work' = db ELSE UNCHANGED txVars
    /\ UNCHANGED db

-----------------------------------------------------------------------------
StoreStep(p) ==
    \/ Open(p) \/ BeginMigrate(p) \/ OpenBusy(p)
    \/ \E kind \in RowKinds, c \in Contents : Write(p, kind, c)
    \/ LinkNext(p) \/ LinkFails(p) \/ Commit(p) \/ Stop(p)

Next == \E p \in Processes : StoreStep(p)

Spec == Init /\ [][Next]_vars

-----------------------------------------------------------------------------
(* Properties.                                                              *)

\* Shapes: rows have known kinds, links positive sequence numbers, the version only the two
\* the code writes, and a transaction has a holder.
TypeOK ==
    /\ \A d \in {db, work} :
         /\ DOMAIN d.rows \subseteq Refs
         /\ \A r \in DOMAIN d.rows : d.rows[r] \in Contents \cup {Garbled}
         /\ DOMAIN d.links \subseteq Nat \ {0}
         /\ d.version \in {0, 1} /\ d.last \in 0 .. MaxId
    /\ holder \in Processes \cup {Nobody}
    /\ todo \subseteq Refs
    /\ stage \in [Processes -> Stages]
    /\ holder = Nobody => work = db /\ todo = {}
    /\ \A p \in Processes : stage[p] \in {"migrating", "writing"} <=> holder = p

\* journal.py: the chain verifies as long as only the store writes, whoever migrates it, in
\* whatever order processes open, write and stop; and before its migration nothing is linked.
StoreChainVerifies ==
    IF db.version = 1 THEN Intact(db) ELSE DOMAIN db.links = {}

\* journal.migrate: rows written before the journal are linked once, after one note that
\* counts them, and a store started empty has no note.
MigratedOnce ==
    db.version = 1 =>
        \A s \in DOMAIN db.links : db.links[s].kind = "note" =>
            /\ s = 1
            /\ db.links[s].note.flights + db.links[s].note.entries \in 1 .. TailSeq(db) - 1

\* migrate reads the version again under the lock: of two processes that found an unmigrated
\* store only one links its rows, and neither is refused for it. The one thing that refuses an
\* open is a record that cannot be parsed.
OnlyGarbledRowsRefuse ==
    \A p \in Processes : stage[p] = "failed" =>
        db.version = 0 /\ \E r \in DOMAIN db.rows : db.rows[r] = Garbled

\* journal.py: with the file left alone, the journal is an append-only log: a migration lists
\* every row once and all at once, and each row after it lands with its link or not at all.
LogOf(d) ==
    [s \in 1 .. TailSeq(d) |->
       [kind |-> d.links[s].kind, ref |-> d.links[s].ref, holds |-> d.links[s].content]]
Log == INSTANCE RecordLog WITH
    Rows <- Refs, Values <- Contents,
    stored <- db.rows, log <- LogOf(db), begun <- (db.version = 1)
IsRecordLog == Log!Spec
=============================================================================
