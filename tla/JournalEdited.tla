--------------------------- MODULE JournalEdited ---------------------------
(***************************************************************************)
(* The write journal in a file that is also edited past the store: rows    *)
(* and links changed, removed, put in or moved, the tail cut off, the      *)
(* whole chain recomputed; and a head of it written down outside the file. *)
(* The edits are what anyone with the file can do (service/journal.py,     *)
(* LIMITS.md and tests/test_journal.py name them); the claims are what     *)
(* journal.verify makes of them.                                           *)
(***************************************************************************)
EXTENDS Journal

CONSTANTS
    Forged,      \* a hash that is the hash of nothing stored
    NoHead,      \* no head written down
    Edits,       \* ways the file is edited: some of AllEdits
    MaxEdits,    \* bound: edits of the file
    HeadsKept    \* whether somebody writes a head down

AllEdits == {"row", "drop", "add", "field", "unlink", "insert", "swap", "wipe", "cut", "rechain"}

ASSUME EditsAssumption == Edits \subseteq AllEdits /\ HeadsKept \in BOOLEAN
ASSUME MaxEditsAssumption == MaxEdits \in Nat

VARIABLES
    edits,   \* how often the file was edited
    noted    \* the state a head was written down in, or NoHead

editedVars == <<vars, edits, noted>>

\* Where the walk meets a head given to it.
GivenAt(d, head) ==
    (IF head = Genesis THEN {0} ELSE {})
      \cup {s \in 1 .. TailSeq(d) :
              d.links[s].link = head /\ \A m \in 1 .. s : BreakAt(d, m) = "none"}

\* verify(head): the chain is intact and the head given is in it.
Verified(d, head) == Intact(d) /\ GivenAt(d, head) # {}

\* Somebody verifies, and writes the head of an intact journal down.
NoteHead ==
    /\ HeadsKept
    /\ noted = NoHead
    /\ db.version = 1 /\ Intact(db)
    /\ noted' = db
    /\ UNCHANGED <<vars, edits>>

-----------------------------------------------------------------------------
(* The file edited past the store.                                          *)

\* f on the elements of its domain that keep satisfies.
Only(f, keep) == [x \in keep |-> f[x]]

EditRow(r, content) ==
    "row" \in Edits /\ r \in DOMAIN db.rows /\ content # db.rows[r]
      /\ db' = WithRows(db, [db.rows EXCEPT ![r] = content])

DropRow(r) ==
    "drop" \in Edits /\ r \in DOMAIN db.rows
      /\ db' = WithRows(db, Only(db.rows, DOMAIN db.rows \ {r}))

\* A row put in with no link: by hand, or by a 0.5.x version, which keeps no journal.
AddRow(r, content) ==
    "add" \in Edits /\ r \notin DOMAIN db.rows /\ db' = PutRow(db, r[1], r[2], content)

Hashes(d) == {Genesis, Forged} \cup {d.links[s].link : s \in DOMAIN d.links}
Notes == {NoNote, Garbled, JunkNote, MigrationNote(0, 0)}

\* A link with one column changed.
Altered(link) ==
    {[link EXCEPT !.kind = k] : k \in KINDS \cup {"other"}}
      \cup {[link EXCEPT !.ref = i] : i \in Ids \cup {NoRef}}
      \cup {[link EXCEPT !.note = n] : n \in Notes}
      \cup {[link EXCEPT !.content = Forged]}
      \cup {[link EXCEPT !.prev = h] : h \in Hashes(db)}
      \cup {[link EXCEPT !.link = h] : h \in Hashes(db)}

EditLink(s) ==
    "field" \in Edits /\ s \in DOMAIN db.links
      /\ \E link \in Altered(db.links[s]) \ {db.links[s]} :
           db' = WithLinks(db, [db.links EXCEPT ![s] = link])

DropLink(s) ==
    "unlink" \in Edits /\ s \in DOMAIN db.links
      /\ db' = WithLinks(db, Only(db.links, DOMAIN db.links \ {s}))

\* Links that could stand at s, every hash computed as the store would, and forged.
Made(s) ==
    LET prev == IF s - 1 \in DOMAIN db.links THEN db.links[s - 1].link ELSE Genesis
        made == {MakeLink(s, r[1], r[2], NoNote, RowContent(db, r[1], r[2]), prev) : r \in Refs}
                  \cup {MakeLink(s, "note", NoRef, n, n, prev) : n \in Notes}
    IN  made \cup {[l EXCEPT !.link = Forged] : l \in made}

\* A link put in at s; those from s on move up by one.
InsertLink(s) ==
    "insert" \in Edits /\ s \in 1 .. TailSeq(db) + 1
      /\ \E link \in Made(s) :
           db' = WithLinks(db, [n \in {m \in DOMAIN db.links : m < s} \cup {s}
                                       \cup {m + 1 : m \in {k \in DOMAIN db.links : k >= s}} |->
                                 IF n < s THEN db.links[n]
                                 ELSE IF n = s THEN link ELSE db.links[n - 1]])

\* Two links trade places.
SwapLinks(s, t) ==
    "swap" \in Edits /\ {s, t} \subseteq DOMAIN db.links /\ s < t
      /\ db' = WithLinks(db, [db.links EXCEPT ![s] = db.links[t], ![t] = db.links[s]])

Wipe ==
    "wipe" \in Edits /\ DOMAIN db.links # {} /\ db' = WithLinks(db, EmptyFunction)

\* The links from s on removed together with the rows they link.
CutTail(s) ==
    LET cut == {n \in DOMAIN db.links : n >= s} IN
    "cut" \in Edits /\ s \in DOMAIN db.links
      /\ db' = File(Only(db.rows, {r \in DOMAIN db.rows :
                       ~ \E n \in cut : db.links[n].kind = r[1] /\ db.links[n].ref = r[2]}),
                    Only(db.links, DOMAIN db.links \ cut),
                    db.last, db.version)

\* Link s computed again from its row or note as it is, after a link whose hash is prev.
Relinked(d, s, prev) ==
    LET link == d.links[s]
        content == IF link.kind = "note" THEN link.note ELSE RowContent(d, link.kind, link.ref)
    IN  MakeLink(s, link.kind, link.ref, link.note, content, prev)

\* Every link computed again.
Rechained(d) ==
    LET chain[s \in 1 .. TailSeq(d)] ==
            Relinked(d, s, IF s = 1 THEN Genesis ELSE chain[s - 1].link)
    IN  chain

Rechain ==
    "rechain" \in Edits /\ DOMAIN db.links = 1 .. TailSeq(db)
      /\ Rechained(db) # db.links /\ db' = WithLinks(db, Rechained(db))

EditChain ==
    \/ \E s \in DOMAIN db.links : EditLink(s) \/ DropLink(s) \/ CutTail(s)
    \/ \E s \in 1 .. TailSeq(db) + 1 : InsertLink(s)
    \/ \E s, t \in DOMAIN db.links : SwapLinks(s, t)
    \/ Wipe
    \/ Rechain

\* Any one edit, made and committed while nobody holds the write lock.
FileEdit ==
    /\ holder = Nobody
    /\ edits < MaxEdits
    /\ \/ \E r \in Refs, c \in Contents \cup {Garbled} : EditRow(r, c) \/ AddRow(r, c)
       \/ \E r \in Refs : DropRow(r)
       \/ db.version = 1 /\ EditChain
    /\ work' = db'
    /\ edits' = edits + 1
    /\ UNCHANGED <<holder, todo, stage, noted>>

-----------------------------------------------------------------------------
EditedInit == Init /\ edits = 0 /\ noted = NoHead

EditedNext ==
    \/ Next /\ UNCHANGED <<edits, noted>>
    \/ NoteHead
    \/ FileEdit

EditedSpec == EditedInit /\ [][EditedNext]_editedVars

-----------------------------------------------------------------------------
(* Properties.                                                              *)

\* The part of the journal a head covers: link s and the row it names, as they were in old.
Unchanged(old, new, s) ==
    /\ s \in DOMAIN new.links
    /\ new.links[s] = old.links[s]
    /\ old.links[s].kind = "note"
         \/ RowContent(new, old.links[s].kind, old.links[s].ref)
              = RowContent(old, old.links[s].kind, old.links[s].ref)

\* journal.verify with a head kept outside the file: when it verifies, every link up to that
\* head and every row they name is as it was when the head was written down, whatever was done
\* to the file since, the whole chain recomputed included.
HeadVouches ==
    noted # NoHead /\ Verified(db, TailHash(noted)) =>
        \A s \in 1 .. TailSeq(noted) : Unchanged(noted, db, s)

\* The first place an edit of an intact journal touches: a link or the row it names, or past
\* the end when rows were put in.
Untouched(old, new, s) == s \in DOMAIN old.links /\ Unchanged(old, new, s)
Touched(old, new) ==
    CHOOSE s \in 1 .. TailSeq(old) + 1 :
        /\ ~Untouched(old, new, s)
        /\ \A m \in 1 .. (s - 1) : Untouched(old, new, m)

\* What the chain alone cannot tell from the store's own writes: the links and rows of one
\* state are the first of the other's, by a tail cut off with its rows or by an append.
Continues(old, new) == \A s \in DOMAIN old.links : Unchanged(old, new, s)
Undetectable(old, new) == Intact(new) /\ (Continues(old, new) \/ Continues(new, old))

\* journal.py: an edit of an intact journal is reported at the first link it touches, or at
\* the link after one put in with every hash right; never before, never later, and never
\* missed, but for a cut tail or an append.
EditsReported ==
    [][edits' # edits /\ db.version = 1 /\ Intact(db) =>
         \/ Undetectable(db, db')
         \/ /\ ~Intact(db')
            /\ FirstBreak(db').seq \in {Touched(db, db'), Touched(db, db') + 1}]_editedVars

\* LIMITS.md: what one edit of a file only stores wrote is reported as. A row changed is
\* content and a row removed missing_row, at its link; a link removed is sequence, or
\* unjournaled when it was the last; a link's own hash changed is link_hash; a row put in is
\* unjournaled past the end; the journal emptied is unjournaled at 1.
BreaksNamed ==
    [][db.version = 1 /\ edits = 0 /\ edits' = 1 =>
         /\ \A s \in DOMAIN db.links :
              LET r == <<db.links[s].kind, db.links[s].ref>> IN
              /\ (\E c \in Contents \cup {Garbled} : EditRow(r, c)) =>
                   FirstBreak(db') = [seq |-> s, kind |-> "content"]
              /\ DropRow(r) => FirstBreak(db') = [seq |-> s, kind |-> "missing_row"]
              /\ DropLink(s) => FirstBreak(db') =
                   [seq |-> s, kind |-> IF s < TailSeq(db) THEN "sequence"
                                       ELSE "unjournaled"]
              /\ \A h \in Hashes(db) \ {db.links[s].link} :
                   db' = WithLinks(db, [db.links EXCEPT ![s].link = h]) =>
                     FirstBreak(db') = [seq |-> s, kind |-> "link_hash"]
         /\ (\E r \in Refs, c \in Contents \cup {Garbled} : AddRow(r, c)) =>
              FirstBreak(db') = [seq |-> TailSeq(db) + 1, kind |-> "unjournaled"]
         /\ Wipe => FirstBreak(db') = [seq |-> 1, kind |-> "unjournaled"]]_editedVars

\* journal.migrate, test_a_wiped_journal_is_reported_not_rebuilt: what a store writes and
\* migrates never makes a broken journal verify again, a row deleted and its id given to a new
\* one included.
BreakStays ==
    [][edits' = edits /\ db.version = 1 /\ ~Intact(db) => ~Intact(db')]_editedVars
=============================================================================
