----------------------------- MODULE RecordLog -----------------------------
(***************************************************************************)
(* What the write journal promises as long as nobody edits the file past   *)
(* the store: an append-only log of the rows.  It begins once, with a note *)
(* and every row found, each listed once; from then on a row and its place *)
(* at the end of the log are written together, and nothing listed changes. *)
(* There are no processes, transactions, locks or hashes here.             *)
(***************************************************************************)
EXTENDS Naturals, Sequences

CONSTANTS Rows, Values   \* the names of rows, <<kind, id>>, and what they may state

VARIABLES
    stored,   \* the rows: a function from some names to values
    log,      \* what is listed, oldest first
    begun     \* whether the log was begun

Item(r, v) == [kind |-> r[1], ref |-> r[2], holds |-> [id |-> r[2], record |-> v]]

\* After a note, each row of the store once.
ListsOnce(items, rows) ==
    /\ items[1].kind = "note"
    /\ \A r \in DOMAIN rows : \E i \in 2 .. Len(items) : items[i] = Item(r, rows[r])
    /\ \A i \in 2 .. Len(items) : \E r \in DOMAIN rows : items[i] = Item(r, rows[r])
    /\ \A i, j \in 2 .. Len(items) : items[i] = items[j] => i = j

Init ==
    /\ DOMAIN stored \subseteq Rows
    /\ log = <<>>
    /\ begun = FALSE

Begin ==
    /\ ~begun
    /\ begun' = TRUE
    /\ IF DOMAIN stored = {} THEN log' = <<>> ELSE ListsOnce(log', stored)
    /\ UNCHANGED stored

Record(r, v) ==
    /\ begun
    /\ r \notin DOMAIN stored
    /\ stored' = [q \in DOMAIN stored \cup {r} |-> IF q = r THEN v ELSE stored[q]]
    /\ log' = Append(log, Item(r, v))
    /\ UNCHANGED begun

Next == Begin \/ \E r \in Rows, v \in Values : Record(r, v)

Spec == Init /\ [][Next]_<<stored, log, begun>>
=============================================================================
