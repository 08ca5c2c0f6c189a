--------------------------- MODULE JournalProofs ---------------------------
(***************************************************************************)
(* Proofs about Journal and JournalEdited, for every set of processes,     *)
(* contents and bounds.                                                    *)
(*                                                                         *)
(* As long as only stores write, the chain verifies, an open is refused    *)
(* only for a record that cannot be parsed, and the journal is the         *)
(* append-only log of RecordLog.                                           *)
(*                                                                         *)
(* Whatever edits are made past the stores, a head kept outside the file   *)
(* vouches for the records below it, an edit of an intact journal is       *)
(* reported at the first link it touches or the one after, an edit of a    *)
(* file only stores wrote is reported by the name the documents give it,   *)
(* and what stores write to a broken journal never makes it verify again.  *)
(***************************************************************************)
EXTENDS JournalEdited, Sequences, FiniteSetTheorems, TLAPS

-----------------------------------------------------------------------------
(* Least and greatest numbers.                                              *)

\* Every set of numbers that is not empty has a least one. (The library's induction on
\* numbers takes a predicate; its order on finite sets takes none.)
LEMMA Least ==
    ASSUME NEW T \in SUBSET Nat, T # {}
    PROVE  \E n \in T : \A m \in T : n <= m
<1> DEFINE Below == {0 .. n : n \in T}
<1>1. Below \subseteq FiniteSubsetsOf(Nat)
  <2> SUFFICES ASSUME NEW n \in T PROVE 0 .. n \in FiniteSubsetsOf(Nat)
    OBVIOUS
  <2>1. IsFiniteSet(0 .. n) BY FS_Interval
  <2>2. 0 .. n \subseteq Nat OBVIOUS
  <2>3. QED BY <2>1, <2>2 DEF FiniteSubsetsOf
<1>2. Below # {} OBVIOUS
<1>3. IsWellFoundedOn(StrictSubsetOrdering(Nat), FiniteSubsetsOf(Nat))
  BY FS_StrictSubsetOrderingWellFounded
<1> HIDE DEF Below
<1>4. \E x \in Below : \A y \in Below : ~(<<y, x>> \in StrictSubsetOrdering(Nat))
  BY <1>1, <1>2, <1>3, WFMin, Zenon
<1>5. PICK n \in T : \A m \in T : ~(<<0 .. m, 0 .. n>> \in StrictSubsetOrdering(Nat))
  BY <1>4 DEF Below
<1>6. ASSUME NEW m \in T, m < n PROVE FALSE
  <2>1. 0 .. m \subseteq 0 .. n /\ n \in 0 .. n /\ n \notin 0 .. m
    BY <1>6
  <2>2. <<0 .. m, 0 .. n>> \in StrictSubsetOrdering(Nat)
    BY <2>1 DEF StrictSubsetOrdering
  <2>3. QED BY <2>2, <1>5
<1>7. QED BY <1>6

\* Every set of numbers with a bound, not empty, has a greatest one.
LEMMA Greatest ==
    ASSUME NEW T \in SUBSET Nat, T # {}, NEW N \in Nat, T \subseteq 0 .. N
    PROVE  \E n \in T : \A m \in T : m <= n
<1> DEFINE Bounds == {b \in Nat : \A m \in T : m <= b}
<1>1. Bounds # {} BY DEF Bounds
<1>2. PICK b \in Bounds : \A c \in Bounds : b <= c BY <1>1, Least
<1>3. b \in T
  <2> SUFFICES ASSUME b \notin T PROVE FALSE OBVIOUS
  <2>1. PICK m \in T : TRUE OBVIOUS
  <2>2. \A k \in T : k <= b /\ k # b BY <1>2
  <2>3. b # 0 /\ b - 1 \in Nat BY <2>1, <2>2, <1>2
  <2>4. b - 1 \in Bounds BY <2>2, <2>3, <1>2
  <2>5. QED BY <2>4, <1>2
<1>4. QED BY <1>2, <1>3

\* The highest id of a kind is an id of that kind or 0, and none is higher.
LEMMA HighestIdFacts ==
    ASSUME NEW rows, DOMAIN rows \subseteq Refs, NEW kind
    PROVE  /\ HighestId(rows, kind) \in 0 .. MaxId
           /\ \A r \in DOMAIN rows : r[1] = kind => r[2] <= HighestId(rows, kind)
<1> DEFINE ids == {r[2] : r \in {q \in DOMAIN rows : q[1] = kind}} \cup {0}
<1>1. ids \subseteq 0 .. MaxId BY BoundsAssumption DEF Refs, Ids
<1>2. ids \in SUBSET Nat /\ ids # {} BY <1>1, BoundsAssumption
<1>3. \E n \in ids : \A m \in ids : m <= n BY <1>1, <1>2, BoundsAssumption, Greatest
<1>4. HighestId(rows, kind) = CHOOSE n \in ids : \A m \in ids : m <= n BY DEF HighestId
<1> HIDE DEF ids
<1>5. HighestId(rows, kind) \in ids /\ \A m \in ids : m <= HighestId(rows, kind)
  BY <1>3, <1>4
<1>6. QED BY <1>1, <1>5 DEF ids

\* A new row has an id of its own.
LEMMA NewIdFacts ==
    ASSUME NEW d, DOMAIN d.rows \subseteq Refs, d.last \in 0 .. MaxId, NEW kind \in RowKinds
    PROVE  NewId(d, kind) \in Nat \ {0} /\ <<kind, NewId(d, kind)>> \notin DOMAIN d.rows
<1> DEFINE h == HighestId(d.rows, kind)
<1>1. h \in 0 .. MaxId /\ \A r \in DOMAIN d.rows : r[1] = kind => r[2] <= h
  BY HighestIdFacts
<1> HIDE DEF h
<1>2. NewId(d, kind) = 1 + (IF kind = "entry" /\ d.last > h THEN d.last ELSE h)
  BY DEF NewId, h
<1>3. NewId(d, kind) \in Nat \ {0} /\ NewId(d, kind) > h BY <1>1, <1>2, BoundsAssumption
<1>4. <<kind, NewId(d, kind)>> \notin DOMAIN d.rows BY <1>1, <1>3
<1>5. QED BY <1>3, <1>4

\* The next row of a migration is one of those left.
LEMMA NextRowFacts ==
    ASSUME NEW rows \in SUBSET Refs, rows # {}
    PROVE  NextRow(rows) \in rows
<1> DEFINE ids(kind) == {r[2] : r \in {q \in rows : q[1] = kind}}
<1>1. ASSUME NEW kind \in RowKinds, ids(kind) # {}
      PROVE  \E r \in rows : r[1] = kind /\ \A q \in rows : q[1] = kind => r[2] <= q[2]
  <2>1. ids(kind) \in SUBSET Nat BY BoundsAssumption DEF Refs, Ids
  <2>2. PICK n \in ids(kind) : \A m \in ids(kind) : n <= m BY <2>1, <1>1, Least
  <2>3. QED BY <2>2
<1>2. \E r \in rows : \A q \in rows : Before(r, q)
  <2>1. CASE ids("flight") # {}
    BY <2>1, <1>1 DEF RowKinds, Before
  <2>2. CASE ids("flight") = {}
    <3>1. \A q \in rows : q[1] = "entry" BY <2>2 DEF Refs, RowKinds
    <3>2. ids("entry") # {} BY <3>1
    <3>3. PICK r \in rows : r[1] = "entry" /\ \A q \in rows : q[1] = "entry" => r[2] <= q[2]
      BY <3>2, <1>1 DEF RowKinds
    <3>4. QED BY <3>1, <3>3 DEF Before
  <2>3. QED BY <2>1, <2>2
<1>3. QED BY <1>2 DEF NextRow

-----------------------------------------------------------------------------
(* What a chain only stores wrote is like.                                  *)

PairOf(d, s) == <<d.links[s].kind, d.links[s].ref>>
RowsLeft(d) == {r \in DOMAIN d.rows : ~Linked(d, r[1], r[2])}

\* A link of a row that is there and can be read, or the migration note as the first link.
NoteLink(d, s) ==
    /\ s = 1
    /\ d.links[s].kind = "note"
    /\ d.links[s].note = d.links[s].content
    /\ d.links[s].note \in [flights : Nat, entries : Nat]
RowLink(d, s) ==
    /\ PairOf(d, s) \in DOMAIN d.rows
    /\ d.rows[PairOf(d, s)] # Garbled
    /\ d.links[s].note = NoNote
    /\ d.links[s].content = [id |-> d.links[s].ref, record |-> d.rows[PairOf(d, s)]]
GoodLink(d, s) ==
    /\ d.links[s].prev = PrevHash(d, s)
    /\ d.links[s].link = LinkHash(s, d.links[s].kind, d.links[s].ref, d.links[s].content,
                                  d.links[s].prev)
    /\ NoteLink(d, s) \/ RowLink(d, s)

\* n links, each good, no row linked twice.
ChainTo(d, n) ==
    /\ DOMAIN d.links = 1 .. n
    /\ \A s \in 1 .. n : GoodLink(d, s)
    /\ \A s, t \in 1 .. n : PairOf(d, s) = PairOf(d, t) => s = t
Chain(d) == \E n \in Nat : ChainTo(d, n)

\* Rows as a store holds them.
RowsOK(d) ==
    /\ DOMAIN d.rows \subseteq Refs
    /\ \A r \in DOMAIN d.rows : d.rows[r] \in Contents \cup {Garbled}

\* The fields of a file put together.
LEMMA FileFields ==
    ASSUME NEW rows, NEW links, NEW last, NEW version
    PROVE  /\ File(rows, links, last, version).rows = rows
           /\ File(rows, links, last, version).links = links
           /\ File(rows, links, last, version).last = last
           /\ File(rows, links, last, version).version = version
BY DEF File

\* The tail of links numbered 1 to n is n.
LEMMA TailOfDense ==
    ASSUME NEW d, NEW n \in Nat, DOMAIN d.links = 1 .. n
    PROVE  TailSeq(d) = n
<1>1. \A m \in DOMAIN d.links \cup {0} : (\A k \in DOMAIN d.links : k <= m) <=> m = n
  OBVIOUS
<1>2. n \in DOMAIN d.links \cup {0} OBVIOUS
<1>3. QED BY <1>1, <1>2 DEF TailSeq

\* A row that is there and can be read, as append_link reads it.
LEMMA RowContentReadable ==
    ASSUME NEW d, RowsOK(d), NEW r \in DOMAIN d.rows
    PROVE  /\ RowContent(d, r[1], r[2]) # NoRow \/ d.rows[r] = Garbled
           /\ d.rows[r] # Garbled =>
                /\ RowContent(d, r[1], r[2]) = [id |-> r[2], record |-> d.rows[r]]
                /\ RowContent(d, r[1], r[2]) \notin {NoRow, Garbled, NoNote, JunkNote}
           /\ r = <<r[1], r[2]>> /\ r[1] \in RowKinds /\ r[2] \in Ids
<1>1. r = <<r[1], r[2]>> /\ r[1] \in RowKinds /\ r[2] \in Ids BY DEF RowsOK, Refs
<1>2. ASSUME d.rows[r] # Garbled
      PROVE  RowContent(d, r[1], r[2]) = [id |-> r[2], record |-> d.rows[r]]
  BY <1>1, <1>2 DEF RowContent
<1>3. ASSUME d.rows[r] # Garbled
      PROVE  RowContent(d, r[1], r[2]) \in [id : Ids, record : Contents]
  BY <1>1, <1>2, <1>3 DEF RowsOK
<1>4. QED BY <1>1, <1>2, <1>3, ContentsAssumption

\* Such a chain meets every check of the walk.
LEMMA ChainIsSound ==
    ASSUME NEW d, RowsOK(d), Chain(d)
    PROVE  /\ ChainSound(d)
           /\ RowsLeft(d) = {} => Intact(d)
<1>1. PICK n \in Nat : ChainTo(d, n) BY DEF Chain
<1>2. TailSeq(d) = n BY <1>1, TailOfDense DEF ChainTo
<1>3. ASSUME NEW s \in 1 .. n PROVE BreakAt(d, s) = "none"
  <2>1. Present(d, s) /\ GoodLink(d, s) BY <1>1 DEF ChainTo, Present
  <2>2. d.links[s].prev = PrevHash(d, s) /\ LinkHash(s, d.links[s].kind, d.links[s].ref, d.links[s].content, d.links[s].prev) = d.links[s].link
    BY <2>1 DEF GoodLink
  <2>3. CASE NoteLink(d, s)
    <3>1. d.links[s].note \notin {NoRow, NoNote, Garbled, JunkNote}
      BY <2>3, ContentsAssumption DEF NoteLink
    <3>2. ContentBreak(d, s) = "none"
      BY <2>3, <3>1 DEF NoteLink, ContentBreak, ContentHash
    <3>3. ~ \E t \in 1 .. (s - 1) : d.links[t].kind = "note" BY <2>3 DEF NoteLink
    <3>4. d.links[s].kind = "note" /\ "note" \in KINDS BY <2>3 DEF NoteLink, KINDS
    <3>5. QED BY <2>1, <2>2, <3>2, <3>3, <3>4 DEF BreakAt
  <2>4. CASE RowLink(d, s)
    <3>1. PairOf(d, s)[1] \in RowKinds /\ PairOf(d, s)[1] = d.links[s].kind
            /\ PairOf(d, s)[2] = d.links[s].ref
      BY <2>4 DEF RowLink, RowsOK, Refs, PairOf
    <3>2. d.links[s].kind # "note" /\ d.links[s].kind \in KINDS BY <3>1 DEF RowKinds, KINDS
    <3>3. RowContent(d, d.links[s].kind, d.links[s].ref) = d.links[s].content
            /\ d.links[s].content \notin {NoRow, Garbled, NoNote, JunkNote}
      BY <2>4, <3>1, RowContentReadable DEF RowLink
    <3>4. ContentBreak(d, s) = "none" BY <3>2, <3>3 DEF ContentBreak, ContentHash
    <3>5. ~Seen(d, s) BY <1>1 DEF Seen, ChainTo, PairOf
    <3>6. d.links[s].note = NoNote BY <2>4 DEF RowLink
    <3>7. QED BY <2>1, <2>2, <3>2, <3>4, <3>5, <3>6 DEF BreakAt
  <2>5. QED BY <2>1, <2>3, <2>4 DEF GoodLink
<1>4. ChainSound(d) BY <1>2, <1>3 DEF ChainSound
<1>5. QED BY <1>4 DEF Intact, RowsLeft, Unjournaled

\* A file with other columns changed only has the same chain.
LEMMA ChainOfSame ==
    ASSUME NEW d, NEW e, Chain(d), e.rows = d.rows, e.links = d.links
    PROVE  Chain(e) /\ RowsLeft(e) = RowsLeft(d)
BY DEF Chain, ChainTo, GoodLink, NoteLink, RowLink, PairOf, PrevHash, RowsLeft, Linked

\* A new row leaves the chain as it is and is the one row more to link.
LEMMA ChainOfPutRow ==
    ASSUME NEW d, RowsOK(d), Chain(d), NEW r \in Refs, r \notin DOMAIN d.rows, NEW c \in Contents
    PROVE  /\ Chain(PutRow(d, r[1], r[2], c))
           /\ RowsLeft(PutRow(d, r[1], r[2], c)) = RowsLeft(d) \cup {r}
           /\ RowsOK(PutRow(d, r[1], r[2], c))
<1> DEFINE e == PutRow(d, r[1], r[2], c)
<1>1. r = <<r[1], r[2]>> BY DEF Refs
<1>2. e.rows = [q \in DOMAIN d.rows \cup {r} |-> IF q = r THEN c ELSE d.rows[q]]
  BY <1>1, FileFields DEF PutRow
<1>3. e.links = d.links BY FileFields DEF PutRow
<1> HIDE DEF e
<1>4. DOMAIN e.rows = DOMAIN d.rows \cup {r} /\ e.rows[r] = c
        /\ \A q \in DOMAIN d.rows : e.rows[q] = d.rows[q]
  BY <1>2
<1>5. PICK n \in Nat : ChainTo(d, n) BY DEF Chain
<1>6. ASSUME NEW s \in 1 .. n PROVE GoodLink(e, s)
  <2>1. GoodLink(d, s) BY <1>5 DEF ChainTo
  <2>2. PairOf(e, s) = PairOf(d, s) /\ PrevHash(e, s) = PrevHash(d, s)
    BY <1>3 DEF PairOf, PrevHash
  <2>3. NoteLink(d, s) => NoteLink(e, s) BY <1>3 DEF NoteLink
  <2>4. RowLink(d, s) => RowLink(e, s) BY <1>3, <1>4, <2>2 DEF RowLink
  <2>5. QED BY <1>3, <2>1, <2>2, <2>3, <2>4 DEF GoodLink
<1>7. ChainTo(e, n) BY <1>3, <1>5, <1>6 DEF ChainTo, PairOf
<1>8. ~Linked(d, r[1], r[2])
  <2> SUFFICES ASSUME NEW s \in 1 .. n, PairOf(d, s) = r PROVE FALSE
    BY <1>1, <1>5 DEF Linked, PairOf, ChainTo
  <2>1. NoteLink(d, s) BY <1>5 DEF ChainTo, GoodLink, RowLink
  <2>2. QED BY <2>1 DEF NoteLink, PairOf, Refs, RowKinds
<1>9. RowsLeft(e) = RowsLeft(d) \cup {r}
  BY <1>3, <1>4, <1>8 DEF RowsLeft, Linked
<1>10. RowsOK(e) BY <1>4 DEF RowsOK
<1>11. QED BY <1>7, <1>9, <1>10 DEF Chain, e

\* append_link of a row: one link more, and that row is no longer left.
LEMMA ChainOfAppendRow ==
    ASSUME NEW d, RowsOK(d), Chain(d), NEW r \in RowsLeft(d), CanLink(d, r[1], r[2])
    PROVE  /\ Chain(AppendRow(d, r[1], r[2]))
           /\ RowsLeft(AppendRow(d, r[1], r[2])) = RowsLeft(d) \ {r}
           /\ AppendRow(d, r[1], r[2]).rows = d.rows
           /\ AppendRow(d, r[1], r[2]).version = d.version
           /\ AppendRow(d, r[1], r[2]).last = d.last
           /\ \A s \in DOMAIN d.links : /\ s \in DOMAIN AppendRow(d, r[1], r[2]).links
                                        /\ AppendRow(d, r[1], r[2]).links[s] = d.links[s]
<1> DEFINE e == AppendRow(d, r[1], r[2])
           content == RowContent(d, r[1], r[2])
<1>1. PICK n \in Nat : ChainTo(d, n) BY DEF Chain
<1>2. TailSeq(d) = n BY <1>1, TailOfDense DEF ChainTo
<1> DEFINE link == MakeLink(n + 1, r[1], r[2], NoNote, content, TailHash(d))
<1>3. e.rows = d.rows /\ e.links = PutLink(d.links, n + 1, link)
        /\ e.version = d.version /\ e.last = d.last
  BY <1>2, FileFields DEF AppendRow, WithLinks
<1>4. /\ link.kind = r[1] /\ link.ref = r[2] /\ link.note = NoNote /\ link.content = content
      /\ link.prev = TailHash(d)
      /\ link.link = LinkHash(n + 1, r[1], r[2], content, TailHash(d))
  BY DEF MakeLink, ContentHash
<1>5. r \in DOMAIN d.rows /\ r = <<r[1], r[2]>> /\ d.rows[r] # Garbled
        /\ content = [id |-> r[2], record |-> d.rows[r]] /\ ~Linked(d, r[1], r[2])
  BY RowContentReadable DEF RowsLeft, CanLink, RowContent
<1> HIDE DEF link, content, e
<1>6. DOMAIN e.links = 1 .. n + 1 /\ e.links[n + 1] = link
        /\ \A s \in 1 .. n : e.links[s] = d.links[s]
  BY <1>1, <1>3 DEF PutLink, ChainTo
<1>7. TailHash(d) = PrevHash(e, n + 1)
  BY <1>2, <1>6 DEF TailHash, PrevHash
<1>8. ASSUME NEW s \in 1 .. n + 1 PROVE GoodLink(e, s)
  <2>1. CASE s = n + 1
    BY <2>1, <1>3, <1>4, <1>5, <1>6, <1>7 DEF GoodLink, RowLink, PairOf
  <2>2. CASE s \in 1 .. n
    <3>1. GoodLink(d, s) /\ e.links[s] = d.links[s] BY <2>2, <1>1, <1>6 DEF ChainTo
    <3>2. PrevHash(e, s) = PrevHash(d, s) BY <2>2, <1>6 DEF PrevHash
    <3>3. QED BY <3>1, <3>2, <1>3 DEF GoodLink, NoteLink, RowLink, PairOf
  <2>3. QED BY <2>1, <2>2
<1>9. \A s \in 1 .. n : PairOf(d, s) # r BY <1>1, <1>5 DEF Linked, PairOf, ChainTo
<1>10. \A s, t \in 1 .. n + 1 : PairOf(e, s) = PairOf(e, t) => s = t
  <2>1. PairOf(e, n + 1) = r BY <1>4, <1>5, <1>6 DEF PairOf
  <2>2. \A s \in 1 .. n : PairOf(e, s) = PairOf(d, s) BY <1>6 DEF PairOf
  <2>3. \A s, t \in 1 .. n : PairOf(d, s) = PairOf(d, t) => s = t BY <1>1 DEF ChainTo
  <2>4. \A s \in 1 .. n + 1 : s \in 1 .. n \/ s = n + 1 OBVIOUS
  <2>5. QED BY <1>9, <2>1, <2>2, <2>3, <2>4
<1>11. ChainTo(e, n + 1) BY <1>6, <1>8, <1>10 DEF ChainTo
<1>12. ASSUME NEW q \in DOMAIN d.rows
       PROVE  Linked(e, q[1], q[2]) <=> (Linked(d, q[1], q[2]) \/ q = r)
  <2>1. q = <<q[1], q[2]>> BY DEF RowsOK, Refs
  <2>2. QED BY <2>1, <1>1, <1>4, <1>5, <1>6 DEF Linked, ChainTo
<1>13. RowsLeft(e) = RowsLeft(d) \ {r} BY <1>3, <1>12 DEF RowsLeft
<1>14. Chain(e) BY <1>11 DEF Chain
<1>15. \A s \in DOMAIN d.links : s \in DOMAIN e.links /\ e.links[s] = d.links[s]
  BY <1>1, <1>6 DEF ChainTo
<1>16. QED BY <1>3, <1>13, <1>14, <1>15 DEF e

\* A row linked in such a chain can be read.
LEMMA LinkedIsReadable ==
    ASSUME NEW d, RowsOK(d), Chain(d), NEW r \in DOMAIN d.rows, r \notin RowsLeft(d)
    PROVE  d.rows[r] # Garbled
<1>1. PICK n \in Nat : ChainTo(d, n) BY DEF Chain
<1>2. r = <<r[1], r[2]>> /\ r[1] \in RowKinds BY DEF RowsOK, Refs
<1>3. PICK s \in 1 .. n : PairOf(d, s) = r
  BY <1>1, <1>2 DEF RowsLeft, Linked, PairOf, ChainTo
<1>4. ~NoteLink(d, s) BY <1>2, <1>3 DEF NoteLink, PairOf, RowKinds
<1>5. RowLink(d, s) BY <1>1, <1>4 DEF ChainTo, GoodLink
<1>6. QED BY <1>3, <1>5 DEF RowLink

\* Rows are finitely many.
LEMMA RowsAreFinite ==
    ASSUME NEW rows \in SUBSET Refs
    PROVE  IsFiniteSet(rows) /\ Cardinality(rows) \in Nat
<1>1. IsFiniteSet(Ids) BY FS_Interval, BoundsAssumption DEF Ids
<1>2. IsFiniteSet(RowKinds)
  <2>1. IsFiniteSet({"flight"}) BY FS_Singleton
  <2>2. IsFiniteSet({"flight"} \cup {"entry"}) BY <2>1, FS_AddElement
  <2>3. RowKinds = {"flight"} \cup {"entry"} BY DEF RowKinds
  <2>4. QED BY <2>2, <2>3
<1>3. IsFiniteSet(Refs) BY <1>1, <1>2, FS_Product DEF Refs
<1>4. IsFiniteSet(rows) BY <1>3, FS_Subset
<1>5. QED BY <1>4, FS_CardinalityType

\* The counts of the migration note are numbers.
LEMMA CountIsNat ==
    ASSUME NEW d, RowsOK(d), NEW kind
    PROVE  Count(d, kind) \in Nat
<1>1. {r \in DOMAIN d.rows : r[1] = kind} \in SUBSET Refs BY DEF RowsOK
<1>2. QED BY <1>1, RowsAreFinite DEF Count

\* What a migration begins with: nothing linked of an empty store, else the note alone.
LEMMA StartedFacts ==
    ASSUME NEW d, RowsOK(d), DOMAIN d.links = {}
    PROVE  /\ Chain(Started(d)) /\ RowsLeft(Started(d)) = DOMAIN d.rows
           /\ Started(d).rows = d.rows
           /\ Started(d).version = d.version /\ Started(d).last = d.last
           /\ DOMAIN d.rows = {} => DOMAIN Started(d).links = {}
           /\ DOMAIN d.rows # {} => 1 \in DOMAIN Started(d).links
                                     /\ Started(d).links[1].kind = "note"
<1>1. DOMAIN d.links = 1 .. 0 OBVIOUS
<1>2. TailSeq(d) = 0 BY <1>1, TailOfDense
<1>3. CASE DOMAIN d.rows = {}
  <2>1. Started(d) = d BY <1>3 DEF Started
  <2>2. ChainTo(d, 0) BY <1>1 DEF ChainTo
  <2>3. Chain(d) BY <2>2 DEF Chain
  <2>4. RowsLeft(d) = {} BY <1>3 DEF RowsLeft
  <2>5. QED BY <1>3, <2>1, <2>3, <2>4
<1>4. CASE DOMAIN d.rows # {}
  <2> DEFINE note == MigrationNote(Count(d, "flight"), Count(d, "entry"))
             link == MakeLink(1, "note", NoRef, note, note, Genesis)
             e == Started(d)
  <2>1. TailHash(d) = Genesis BY <1>2 DEF TailHash
  <2>2. e = WithLinks(d, PutLink(d.links, 1, link))
    BY <1>2, <1>4, <2>1 DEF Started, AppendNote
  <2>3. e.links = PutLink(d.links, 1, link) /\ e.rows = d.rows
          /\ e.version = d.version /\ e.last = d.last
    BY <2>2, FileFields DEF WithLinks
  <2>4. note \in [flights : Nat, entries : Nat] BY CountIsNat DEF MigrationNote
  <2>5. /\ link.kind = "note" /\ link.note = note /\ link.content = note
        /\ link.prev = Genesis
        /\ link.link = LinkHash(1, "note", link.ref, note, Genesis)
    BY DEF MakeLink, ContentHash
  <2> HIDE DEF note, link, e
  <2>6. DOMAIN e.links = 1 .. 1 /\ e.links[1] = link BY <2>3 DEF PutLink
  <2>7. GoodLink(e, 1) BY <2>4, <2>5, <2>6 DEF GoodLink, NoteLink, PrevHash
  <2>8. ChainTo(e, 1) BY <2>6, <2>7 DEF ChainTo
  <2>9. Chain(e) BY <2>8 DEF Chain
  <2>10. \A r \in DOMAIN d.rows : ~Linked(e, r[1], r[2])
    BY <2>5, <2>6 DEF Linked, RowsOK, Refs, RowKinds
  <2>11. RowsLeft(e) = DOMAIN d.rows BY <2>3, <2>10 DEF RowsLeft
  <2>12. QED BY <1>4, <2>3, <2>5, <2>6, <2>9, <2>11 DEF e
<1>5. QED BY <1>3, <1>4

-----------------------------------------------------------------------------
(* The inductive invariant.                                                 *)

\* The file: nothing linked before its migration, every row linked once after it.
DbInv ==
    IF db.version = 1 THEN Chain(db) /\ RowsLeft(db) = {} ELSE DOMAIN db.links = {}

\* Stores write to a journaled file only and migrate one that is not.
StageInv ==
    \A p \in Processes :
        /\ stage[p] \in {"open", "writing"} => db.version = 1
        /\ stage[p] = "migrating" => db.version = 0

\* A transaction: its chain is good so far, and what it has still to link is what is left.
TxInv ==
    holder # Nobody =>
        Chain(work) /\ todo = RowsLeft(work) /\ work.version = db.version

MigrateInv ==
    \A p \in Processes : stage[p] = "migrating" =>
        /\ work.rows = db.rows
        /\ DOMAIN db.rows = {} => DOMAIN work.links = {}
        /\ DOMAIN db.rows # {} => 1 \in DOMAIN work.links /\ work.links[1].kind = "note"

\* A write: one row more, unlinked still or with its link at the end.
NextLink(d, e, r) ==
    MakeLink(TailSeq(d) + 1, r[1], r[2], NoNote, RowContent(e, r[1], r[2]), TailHash(d))
Written(d, e, left) ==
    \E r \in Refs, c \in Contents :
        /\ r \notin DOMAIN d.rows
        /\ e.rows = PutRow(d, r[1], r[2], c).rows
        /\ \/ left = {r} /\ e.links = d.links
           \/ left = {} /\ e.links = PutLink(d.links, TailSeq(d) + 1, NextLink(d, e, r))
WriteInv == \A p \in Processes : stage[p] = "writing" => Written(db, work, todo)

IInv ==
    TypeOK /\ DbInv /\ StageInv /\ TxInv /\ MigrateInv /\ WriteInv /\ OnlyGarbledRowsRefuse

\* The parts of TypeOK the proofs below use, one by one.
LEMMA TypeFacts ==
    ASSUME TypeOK
    PROVE  /\ RowsOK(db) /\ RowsOK(work)
           /\ db.version \in {0, 1} /\ work.version \in {0, 1}
           /\ db.last \in 0 .. MaxId /\ work.last \in 0 .. MaxId
           /\ holder = Nobody => work = db /\ todo = {}
           /\ \A p \in Processes : stage[p] \in {"migrating", "writing"} <=> holder = p
           /\ stage \in [Processes -> Stages]
BY DEF TypeOK, RowsOK

\* Links of a good chain have positive numbers.
LEMMA ChainNumbers ==
    ASSUME NEW d, Chain(d)
    PROVE  DOMAIN d.links \subseteq Nat \ {0}
BY DEF Chain, ChainTo

LEMMA InitInv == Init => IInv
<1> SUFFICES ASSUME Init PROVE IInv OBVIOUS
<1>0. PICK old \in SUBSET (RowKinds \X LegacyIds) : \E rows \in [old -> Legacy] :
        db = File(rows, EmptyFunction, HighestId(rows, "entry"), 0)
  BY DEF Init
<1>1. PICK rows \in [old -> Legacy] : db = File(rows, EmptyFunction, HighestId(rows, "entry"), 0)
  BY <1>0
<1>2. db.rows = rows /\ db.links = EmptyFunction /\ db.last = HighestId(rows, "entry")
        /\ db.version = 0
  BY <1>1, FileFields
<1>3. DOMAIN db.links = {} BY <1>2 DEF EmptyFunction
<1>4. DOMAIN rows \subseteq Refs /\ \A r \in DOMAIN rows : rows[r] \in Contents \cup {Garbled}
  BY LegacyAssumption DEF Refs
<1>5. db.last \in 0 .. MaxId BY <1>2, <1>4, HighestIdFacts
<1>6. TypeOK
  BY <1>2, <1>3, <1>4, <1>5, ProcessesAssumption DEF Init, TypeOK, Stages, BoundsAssumption
<1>7. DbInv /\ StageInv /\ TxInv /\ MigrateInv /\ WriteInv /\ OnlyGarbledRowsRefuse
  BY <1>2, <1>3 DEF Init, DbInv, StageInv, TxInv, MigrateInv, WriteInv, OnlyGarbledRowsRefuse
<1>8. QED BY <1>6, <1>7 DEF IInv

\* Nothing but the stage of one process, which holds no lock, changes.
LEMMA StageMoves ==
    ASSUME IInv, NEW p \in Processes, NEW to \in {"closed", "begin", "open"},
           Move(p, to), UNCHANGED <<db, txVars>>, holder # p, to = "open" => db.version = 1
    PROVE  IInv'
<1>1. stage' = [stage EXCEPT ![p] = to] /\ \A q \in Processes : stage'[q] = IF q = p THEN to ELSE stage[q]
  BY DEF Move, IInv, TypeOK
<1>2. UNCHANGED <<db, holder, work, todo>> BY DEF txVars
<1>3. TypeOK' BY <1>1, <1>2 DEF IInv, TypeOK, Stages
<1>4. DbInv' BY <1>2 DEF IInv, DbInv
<1>5. TxInv' BY <1>2 DEF IInv, TxInv
<1>6. StageInv' /\ MigrateInv' /\ OnlyGarbledRowsRefuse'
  BY <1>1, <1>2 DEF IInv, StageInv, MigrateInv, OnlyGarbledRowsRefuse
<1>7. WriteInv' BY <1>1, <1>2 DEF IInv, WriteInv
<1>8. QED BY <1>3, <1>4, <1>5, <1>6, <1>7 DEF IInv

LEMMA OpenInv == ASSUME IInv, NEW p \in Processes, Open(p) PROVE IInv'
<1>1. holder # p BY DEF Open, IInv, TypeOK
<1>2. CASE Journaled(db)
  <2>1. db.version = 1 BY <1>2 DEF Journaled, IInv, TypeOK
  <2>2. QED BY <1>1, <1>2, <2>1, StageMoves DEF Open
<1>3. CASE ~Journaled(db)
  BY <1>1, <1>3, StageMoves DEF Open
<1>4. QED BY <1>2, <1>3

LEMMA OpenBusyInv == ASSUME IInv, NEW p \in Processes, OpenBusy(p) PROVE IInv'
<1>1. holder # p BY DEF OpenBusy, IInv, TypeOK
<1>2. QED BY <1>1, StageMoves DEF OpenBusy

LEMMA BeginMigrateInv == ASSUME IInv, NEW p \in Processes, BeginMigrate(p) PROVE IInv'
<1>1. holder = Nobody /\ holder # p /\ stage[p] = "begin" /\ UNCHANGED db
  BY ProcessesAssumption DEF BeginMigrate
<1>2. CASE Journaled(db)
  <2>1. db.version = 1 BY <1>2 DEF Journaled, IInv, TypeOK
  <2>2. QED BY <1>1, <1>2, <2>1, StageMoves DEF BeginMigrate
<1>3. CASE ~Journaled(db)
  <2>1. db.version = 0 /\ DOMAIN db.links = {} /\ RowsOK(db)
    BY <1>3, TypeFacts DEF Journaled, IInv, DbInv
  <2>2. /\ Move(p, "migrating") /\ holder' = p /\ work' = Started(db)
        /\ todo' = DOMAIN db.rows
    BY <1>3 DEF BeginMigrate, Begins
  <2>3. /\ Chain(work') /\ RowsLeft(work') = DOMAIN db.rows /\ work'.rows = db.rows
        /\ work'.version = 0 /\ work'.last = db.last
        /\ DOMAIN db.rows = {} => DOMAIN work'.links = {}
        /\ DOMAIN db.rows # {} => 1 \in DOMAIN work'.links /\ work'.links[1].kind = "note"
    BY <2>1, <2>2, StartedFacts
  <2>4. stage' = [stage EXCEPT ![p] = "migrating"]
          /\ \A q \in Processes : stage'[q] = IF q = p THEN "migrating" ELSE stage[q]
    BY <2>2 DEF Move, IInv, TypeOK
  <2>5. \A q \in Processes : stage[q] \notin {"migrating", "writing"}
    BY <1>1, ProcessesAssumption DEF IInv, TypeOK
  <2>6. TypeOK'
    <3>1. DOMAIN work'.links \subseteq Nat \ {0} BY <2>3, ChainNumbers
    <3>2. todo' \subseteq Refs BY <2>1, <2>2 DEF RowsOK
    <3>3. stage' \in [Processes -> Stages] BY <2>4 DEF IInv, TypeOK, Stages
    <3>4. \A q \in Processes : stage'[q] \in {"migrating", "writing"} <=> holder' = q
      BY <2>2, <2>4, <2>5
    <3>5. holder' \in Processes /\ holder' # Nobody BY <2>2, ProcessesAssumption
    <3>6. QED BY <1>1, <2>1, <2>3, <3>1, <3>2, <3>3, <3>4, <3>5 DEF IInv, TypeOK
  <2>7. DbInv' /\ OnlyGarbledRowsRefuse'
    BY <1>1, <2>4 DEF IInv, DbInv, OnlyGarbledRowsRefuse
  <2>8. StageInv' BY <1>1, <2>1, <2>4 DEF IInv, StageInv
  <2>9. TxInv' BY <1>1, <2>1, <2>2, <2>3 DEF TxInv
  <2>10. MigrateInv' /\ WriteInv' BY <1>1, <2>3, <2>4, <2>5 DEF MigrateInv, WriteInv
  <2>11. QED BY <2>6, <2>7, <2>8, <2>9, <2>10 DEF IInv
<1>4. QED BY <1>2, <1>3

LEMMA WriteStepInv ==
    ASSUME IInv, NEW p \in Processes, NEW kind \in RowKinds, NEW c \in Contents, Write(p, kind, c)
    PROVE  IInv'
<1> DEFINE id == NewId(db, kind)
           r == <<kind, id>>
<1>1. /\ stage[p] = "open" /\ holder = Nobody /\ UNCHANGED db /\ id <= MaxId
      /\ holder' = p /\ work' = PutRow(db, kind, id, c) /\ todo' = {r}
      /\ Move(p, "writing")
  BY DEF Write, Begins
<1>2. RowsOK(db) /\ db.last \in 0 .. MaxId BY TypeFacts DEF IInv
<1>3. id \in Nat \ {0} /\ r \notin DOMAIN db.rows BY <1>2, NewIdFacts DEF RowsOK
<1>4. id \in Ids /\ r \in Refs BY <1>1, <1>3, BoundsAssumption DEF Ids, Refs
<1> HIDE DEF id
<1>5. db.version = 1 /\ Chain(db) /\ RowsLeft(db) = {} BY <1>1 DEF IInv, StageInv, DbInv
<1>6. r[1] = kind /\ r[2] = id OBVIOUS
<1>7. Chain(work') /\ RowsLeft(work') = {r} /\ RowsOK(work')
  BY <1>1, <1>2, <1>3, <1>4, <1>5, <1>6, ChainOfPutRow
<1>8. work'.links = db.links /\ work'.version = 1
        /\ work'.last = IF kind = "entry" /\ db.last < id THEN id ELSE db.last
  BY <1>1, <1>5, FileFields DEF PutRow
<1>9. work'.last \in 0 .. MaxId BY <1>2, <1>4, <1>8, BoundsAssumption DEF Ids
<1>10. stage' = [stage EXCEPT ![p] = "writing"]
          /\ \A q \in Processes : stage'[q] = IF q = p THEN "writing" ELSE stage[q]
  BY <1>1 DEF Move, IInv, TypeOK
<1>11. \A q \in Processes : stage[q] \notin {"migrating", "writing"}
  BY <1>1, ProcessesAssumption DEF IInv, TypeOK
<1>12. TypeOK'
  <2>1. DOMAIN work'.links \subseteq Nat \ {0} BY <1>7, ChainNumbers
  <2>2. stage' \in [Processes -> Stages] BY <1>10 DEF IInv, TypeOK, Stages
  <2>3. \A q \in Processes : stage'[q] \in {"migrating", "writing"} <=> holder' = q
    BY <1>1, <1>10, <1>11
  <2>4. holder' \in Processes /\ holder' # Nobody BY <1>1, ProcessesAssumption
  <2>5. todo' \subseteq Refs BY <1>1, <1>4
  <2>6. QED BY <1>1, <1>7, <1>8, <1>9, <2>1, <2>2, <2>3, <2>4, <2>5 DEF IInv, TypeOK, RowsOK
<1>13. DbInv' /\ OnlyGarbledRowsRefuse'
  BY <1>1, <1>10 DEF IInv, DbInv, OnlyGarbledRowsRefuse
<1>14. StageInv' BY <1>1, <1>5, <1>10 DEF IInv, StageInv
<1>15. TxInv' BY <1>1, <1>5, <1>7, <1>8 DEF TxInv
<1>16. MigrateInv' BY <1>10, <1>11 DEF MigrateInv
<1>17. Written(db, work', todo') BY <1>1, <1>3, <1>4, <1>6, <1>8 DEF Written
<1>18. WriteInv' BY <1>1, <1>17 DEF WriteInv
<1>19. QED BY <1>12, <1>13, <1>14, <1>15, <1>16, <1>18 DEF IInv

LEMMA LinkNextInv == ASSUME IInv, NEW p \in Processes, LinkNext(p) PROVE IInv'
<1> DEFINE r == NextRow(todo)
<1>1. /\ holder = p /\ todo # {} /\ CanLink(work, r[1], r[2])
      /\ work' = AppendRow(work, r[1], r[2]) /\ todo' = todo \ {r}
      /\ UNCHANGED <<db, holder, stage>>
  BY DEF LinkNext
<1>2. holder # Nobody BY <1>1, ProcessesAssumption
<1>3. Chain(work) /\ todo = RowsLeft(work) /\ work.version = db.version /\ RowsOK(work)
  BY <1>2, TypeFacts DEF IInv, TxInv
<1>4. r \in todo /\ r \in Refs BY <1>1, NextRowFacts DEF IInv, TypeOK
<1> HIDE DEF r
<1>5. /\ Chain(work') /\ RowsLeft(work') = todo' /\ work'.rows = work.rows
      /\ work'.version = work.version /\ work'.last = work.last
      /\ \A s \in DOMAIN work.links : s \in DOMAIN work'.links /\ work'.links[s] = work.links[s]
  BY <1>1, <1>3, <1>4, ChainOfAppendRow
<1>6. TypeOK'
  <2>1. DOMAIN work'.links \subseteq Nat \ {0} BY <1>5, ChainNumbers
  <2>2. todo' \subseteq Refs BY <1>1 DEF IInv, TypeOK
  <2>3. QED BY <1>1, <1>2, <1>3, <1>5, <2>1, <2>2 DEF IInv, TypeOK, RowsOK
<1>7. DbInv' /\ StageInv' /\ OnlyGarbledRowsRefuse'
  BY <1>1 DEF IInv, DbInv, StageInv, OnlyGarbledRowsRefuse
<1>8. TxInv' BY <1>1, <1>3, <1>5 DEF TxInv
<1>9. MigrateInv' BY <1>1, <1>5, <1>3, <1>4 DEF IInv, MigrateInv, RowsLeft
<1>10. ASSUME NEW q \in Processes, stage[q] = "writing" PROVE Written(db, work', todo')
  <2>1. Written(db, work, todo) BY <1>10 DEF IInv, WriteInv
  <2>2. PICK w \in Refs : \E c \in Contents :
          /\ w \notin DOMAIN db.rows
          /\ work.rows = PutRow(db, w[1], w[2], c).rows
          /\ todo = {w} /\ work.links = db.links
    BY <1>1, <2>1 DEF Written
  <2>3. r = w /\ todo' = {} BY <1>1, <1>4, <2>2
  <2>4. work.links = db.links BY <2>2
  <2>5. TailSeq(work) = TailSeq(db) /\ TailHash(work) = TailHash(db)
    BY <2>4 DEF TailSeq, TailHash
  <2>6. work'.links = PutLink(work.links, TailSeq(work) + 1,
          MakeLink(TailSeq(work) + 1, r[1], r[2], NoNote, RowContent(work, r[1], r[2]), TailHash(work)))
    BY <1>1, FileFields DEF AppendRow, WithLinks
  <2>7. RowContent(work', r[1], r[2]) = RowContent(work, r[1], r[2]) BY <1>5 DEF RowContent
  <2>8. work'.links = PutLink(db.links, TailSeq(db) + 1, NextLink(db, work', r))
    BY <2>4, <2>5, <2>6, <2>7 DEF NextLink
  <2>9. QED BY <1>5, <2>2, <2>3, <2>8 DEF Written
<1>11. WriteInv' BY <1>1, <1>10 DEF WriteInv
<1>12. QED BY <1>6, <1>7, <1>8, <1>9, <1>11 DEF IInv

\* A transaction rolled back leaves the file as it was.
LEMMA RolledBack ==
    ASSUME IInv, NEW p \in Processes, holder = p, Releases, work' = db, UNCHANGED db,
           NEW to \in {"closed", "open", "failed"}, Move(p, to), to = "open" => db.version = 1,
           to = "failed" => db.version = 0 /\ \E r \in DOMAIN db.rows : db.rows[r] = Garbled
    PROVE  IInv'
<1>1. holder' = Nobody /\ todo' = {} BY DEF Releases
<1>2. stage' = [stage EXCEPT ![p] = to]
        /\ \A q \in Processes : stage'[q] = IF q = p THEN to ELSE stage[q]
  BY DEF Move, IInv, TypeOK
<1>3. \A q \in Processes : stage'[q] \notin {"migrating", "writing"}
  BY <1>2 DEF IInv, TypeOK
<1>4. TypeOK' BY <1>1, <1>2, <1>3, ProcessesAssumption DEF IInv, TypeOK, Stages
<1>5. DbInv' BY DEF IInv, DbInv
<1>6. TxInv' BY <1>1 DEF TxInv
<1>7. StageInv' BY <1>2, <1>3 DEF IInv, StageInv
<1>8. MigrateInv' /\ WriteInv' BY <1>3 DEF MigrateInv, WriteInv
<1>9. OnlyGarbledRowsRefuse' BY <1>2 DEF IInv, OnlyGarbledRowsRefuse
<1>10. QED BY <1>4, <1>5, <1>6, <1>7, <1>8, <1>9 DEF IInv

LEMMA LinkFailsInv == ASSUME IInv, NEW p \in Processes, LinkFails(p) PROVE IInv'
<1> DEFINE r == NextRow(todo)
<1>1. /\ holder = p /\ todo # {} /\ ~CanLink(work, r[1], r[2])
      /\ Releases /\ work' = db /\ UNCHANGED db
      /\ Move(p, IF stage[p] = "migrating" THEN "failed" ELSE "open")
  BY DEF LinkFails
<1>2. holder # Nobody /\ stage[p] \in {"migrating", "writing"}
  BY <1>1, ProcessesAssumption DEF IInv, TypeOK
<1>3. todo = RowsLeft(work) /\ RowsOK(work) BY <1>2, TypeFacts DEF IInv, TxInv
<1>4. r \in RowsLeft(work) BY <1>1, <1>3, NextRowFacts DEF IInv, TypeOK
<1> HIDE DEF r
<1>5. r \in DOMAIN work.rows /\ work.rows[r] = Garbled
  BY <1>1, <1>3, <1>4, RowContentReadable DEF RowsLeft, CanLink
<1>6. CASE stage[p] = "migrating"
  <2>1. db.version = 0 /\ work.rows = db.rows BY <1>6 DEF IInv, StageInv, MigrateInv
  <2>2. QED BY <1>1, <1>5, <1>6, <2>1, RolledBack
<1>7. CASE stage[p] = "writing"
  <2>1. db.version = 1 BY <1>7 DEF IInv, StageInv
  <2>2. QED BY <1>1, <1>7, <2>1, RolledBack
<1>8. QED BY <1>2, <1>6, <1>7

LEMMA StopInv == ASSUME IInv, NEW p \in Processes, Stop(p) PROVE IInv'
<1>1. CASE holder = p BY <1>1, RolledBack DEF Stop
<1>2. CASE holder # p BY <1>2, StageMoves DEF Stop
<1>3. QED BY <1>1, <1>2

LEMMA CommitInv == ASSUME IInv, NEW p \in Processes, Commit(p) PROVE IInv'
<1>1. /\ holder = p /\ todo = {} /\ work' = db' /\ holder' = Nobody /\ todo' = {}
      /\ db' = IF stage[p] = "migrating" THEN Versioned(work) ELSE work
      /\ Move(p, "open")
  BY DEF Commit, Releases
<1>2. holder # Nobody /\ stage[p] \in {"migrating", "writing"}
  BY <1>1, ProcessesAssumption DEF IInv, TypeOK
<1>3. Chain(work) /\ RowsLeft(work) = {} /\ work.version = db.version /\ RowsOK(work)
        /\ work.last \in 0 .. MaxId
  BY <1>1, <1>2, TypeFacts DEF IInv, TxInv
<1>4. /\ db'.rows = work.rows /\ db'.links = work.links /\ db'.last = work.last
      /\ db'.version = 1
  BY <1>1, <1>2, <1>3, FileFields DEF Versioned, IInv, StageInv
<1>5. Chain(db') /\ RowsLeft(db') = {} BY <1>3, <1>4, ChainOfSame
<1>6. stage' = [stage EXCEPT ![p] = "open"]
        /\ \A q \in Processes : stage'[q] = IF q = p THEN "open" ELSE stage[q]
  BY <1>1 DEF Move, IInv, TypeOK
<1>7. \A q \in Processes : stage'[q] \notin {"migrating", "writing"}
  BY <1>1, <1>6 DEF IInv, TypeOK
<1>8. TypeOK'
  <2>1. DOMAIN db'.links \subseteq Nat \ {0} BY <1>5, ChainNumbers
  <2>2. stage' \in [Processes -> Stages] BY <1>6 DEF IInv, TypeOK, Stages
  <2>3. \A q \in Processes : holder' # q BY <1>1, ProcessesAssumption
  <2>4. \A r \in DOMAIN db'.rows : db'.rows[r] \in Contents \cup {Garbled}
    BY <1>3, <1>4 DEF RowsOK
  <2>5. DOMAIN db'.rows \subseteq Refs BY <1>3, <1>4 DEF RowsOK
  <2>6. QED BY <1>1, <1>3, <1>4, <1>7, <2>1, <2>2, <2>3, <2>4, <2>5 DEF TypeOK
<1>9. DbInv' BY <1>4, <1>5 DEF DbInv
<1>10. StageInv' BY <1>4, <1>7 DEF StageInv
<1>11. TxInv' /\ MigrateInv' /\ WriteInv' BY <1>1, <1>7 DEF TxInv, MigrateInv, WriteInv
<1>12. ASSUME NEW q \in Processes, stage'[q] = "failed" PROVE FALSE
  <2>1. stage[q] = "failed" BY <1>6, <1>12
  <2>2. db.version = 0 /\ \E r \in DOMAIN db.rows : db.rows[r] = Garbled
    BY <2>1 DEF IInv, OnlyGarbledRowsRefuse
  <2>3. stage[p] = "migrating" BY <1>2, <2>2 DEF IInv, StageInv
  <2>4. work.rows = db.rows BY <2>3 DEF IInv, MigrateInv
  <2>5. QED BY <1>3, <2>2, <2>4, LinkedIsReadable
<1>13. OnlyGarbledRowsRefuse' BY <1>12 DEF OnlyGarbledRowsRefuse
<1>14. QED BY <1>8, <1>9, <1>10, <1>11, <1>13 DEF IInv

\* No step of a store leaves the invariant.
LEMMA StepInv == IInv /\ [Next]_vars => IInv'
<1> SUFFICES ASSUME IInv, [Next]_vars PROVE IInv' OBVIOUS
<1>1. ASSUME NEW p \in Processes, StoreStep(p) PROVE IInv'
  BY <1>1, OpenInv, BeginMigrateInv, OpenBusyInv, WriteStepInv, LinkNextInv, LinkFailsInv,
     CommitInv, StopInv DEF StoreStep
<1>2. CASE UNCHANGED vars
  BY <1>2 DEF vars, txVars, IInv, TypeOK, DbInv, StageInv, TxInv, MigrateInv, WriteInv,
              OnlyGarbledRowsRefuse
<1>3. QED BY <1>1, <1>2 DEF Next

\* The invariant holds of every state of every behaviour.
THEOREM Inductive == Spec => []IInv
<1>1. QED BY InitInv, StepInv, PTL DEF Spec

\* Rows, links, versions and transactions keep the shapes the code gives them.
THEOREM TypeCorrect == Spec => []TypeOK
<1>1. IInv => TypeOK BY DEF IInv
<1>2. QED BY <1>1, Inductive, PTL

\* As long as only stores write, the journal verifies, whoever migrates it and in whatever
\* order processes open, write, fail and stop.
THEOREM StoreChainHolds == Spec => []StoreChainVerifies
<1>1. IInv => StoreChainVerifies
  BY ChainIsSound, TypeFacts DEF IInv, DbInv, StoreChainVerifies
<1>2. QED BY <1>1, Inductive, PTL

\* The one thing that refuses an open for good is a record that cannot be parsed: of two
\* processes that migrate one file neither is refused for the other.
THEOREM OnlyGarbledRowsRefuseHolds == Spec => []OnlyGarbledRowsRefuse
<1>1. IInv => OnlyGarbledRowsRefuse BY DEF IInv
<1>2. QED BY <1>1, Inductive, PTL

-----------------------------------------------------------------------------
(* The migration note counts rows that are linked.                          *)

\* Links begun by a note: it counts at least one row, and no more than the links after it
\* and the rows left to link.
Counted(d, left) ==
    1 \in DOMAIN d.links /\ d.links[1].kind = "note" =>
        d.links[1].note.flights + d.links[1].note.entries
            \in 1 .. TailSeq(d) - 1 + Cardinality(left)

NoteInv ==
    /\ db.version = 1 => Counted(db, {})
    /\ \A p \in Processes : stage[p] = "migrating" => Counted(work, todo)

\* The counts of the two kinds of row add up to the rows.
LEMMA CountsAddUp ==
    ASSUME NEW d, RowsOK(d)
    PROVE  Count(d, "flight") + Count(d, "entry") = Cardinality(DOMAIN d.rows)
<1> DEFINE of(kind) == {r \in DOMAIN d.rows : r[1] = kind}
<1>1. of("flight") \in SUBSET Refs /\ of("entry") \in SUBSET Refs BY DEF RowsOK
<1>2. DOMAIN d.rows = of("flight") \cup of("entry") BY DEF RowsOK, Refs, RowKinds
<1>3. of("flight") \cap of("entry") = {} OBVIOUS
<1>4. Count(d, "flight") = Cardinality(of("flight")) /\ Count(d, "entry") = Cardinality(of("entry"))
  BY DEF Count
<1> HIDE DEF of
<1>5. /\ IsFiniteSet(of("flight")) /\ IsFiniteSet(of("entry"))
      /\ Cardinality(of("flight")) \in Nat /\ Cardinality(of("entry")) \in Nat
  BY <1>1, RowsAreFinite
<1>6. Cardinality(of("flight") \cup of("entry"))
        = Cardinality(of("flight")) + Cardinality(of("entry")) - Cardinality({})
  BY <1>3, <1>5, FS_Union
<1>7. QED BY <1>2, <1>4, <1>5, <1>6, FS_EmptySet

\* The note a migration starts with counts the rows it has to link.
LEMMA StartedCounts ==
    ASSUME NEW d, RowsOK(d), DOMAIN d.links = {}
    PROVE  Counted(Started(d), DOMAIN d.rows)
<1>1. DOMAIN d.links = 1 .. 0 OBVIOUS
<1>2. TailSeq(d) = 0 BY <1>1, TailOfDense
<1>3. CASE DOMAIN d.rows = {}
  BY <1>3 DEF Started, Counted
<1>4. CASE DOMAIN d.rows # {}
  <2> DEFINE note == MigrationNote(Count(d, "flight"), Count(d, "entry"))
             link == MakeLink(1, "note", NoRef, note, note, Genesis)
             e == Started(d)
  <2>1. e.links = PutLink(d.links, 1, link)
    BY <1>2, <1>4, FileFields DEF Started, AppendNote, WithLinks, TailHash
  <2>2. DOMAIN e.links = 1 .. 1 /\ e.links[1] = link BY <2>1 DEF PutLink
  <2>3. TailSeq(e) = 1 BY <2>2, TailOfDense
  <2>4. e.links[1].note.flights + e.links[1].note.entries = Cardinality(DOMAIN d.rows)
    BY <2>2, CountsAddUp DEF MakeLink, MigrationNote
  <2>5. Cardinality(DOMAIN d.rows) \in Nat \ {0}
    BY <1>4, RowsAreFinite, FS_EmptySet DEF RowsOK
  <2> HIDE DEF e
  <2>6. Counted(e, DOMAIN d.rows) BY <2>3, <2>4, <2>5 DEF Counted
  <2>7. QED BY <2>6 DEF e
<1>5. QED BY <1>3, <1>4

\* A step that commits nothing and starts no migration keeps the counts of the one under way.
LEMMA NoteStays ==
    ASSUME NoteInv, UNCHANGED db,
           \A q \in Processes : stage'[q] = "migrating" =>
                stage[q] = "migrating" /\ work' = work /\ todo' = todo
    PROVE  NoteInv'
BY DEF NoteInv, Counted, TailSeq

\* One more row linked of a migration is one less to link.
LEMMA LinkNextCounts ==
    ASSUME IInv, IInv', NoteInv, NEW p \in Processes, LinkNext(p)
    PROVE  NoteInv'
<1> DEFINE r == NextRow(todo)
<1>1. /\ holder = p /\ todo # {} /\ CanLink(work, r[1], r[2])
      /\ work' = AppendRow(work, r[1], r[2]) /\ todo' = todo \ {r}
      /\ UNCHANGED <<db, holder, stage>>
  BY DEF LinkNext
<1>2. holder # Nobody BY <1>1, ProcessesAssumption
<1>3. Chain(work) /\ todo = RowsLeft(work) /\ RowsOK(work)
  BY <1>2, TypeFacts DEF IInv, TxInv
<1>4. r \in todo /\ todo \in SUBSET Refs BY <1>1, NextRowFacts DEF IInv, TypeOK
<1> HIDE DEF r
<1>5. PICK n \in Nat : ChainTo(work, n) BY <1>3 DEF Chain
<1>6. DOMAIN work.links = 1 .. n /\ TailSeq(work) = n BY <1>5, TailOfDense DEF ChainTo
<1>7. work'.links = PutLink(work.links, n + 1,
          MakeLink(n + 1, r[1], r[2], NoNote, RowContent(work, r[1], r[2]), TailHash(work)))
  BY <1>1, <1>6, FileFields DEF AppendRow, WithLinks
<1>8. /\ DOMAIN work'.links = 1 .. n + 1 /\ \A s \in 1 .. n : work'.links[s] = work.links[s]
      /\ work'.links[n + 1].kind = r[1]
  BY <1>6, <1>7 DEF PutLink, MakeLink
<1>9. TailSeq(work') = n + 1 BY <1>8, TailOfDense
<1>10. r[1] # "note" BY <1>4 DEF Refs, RowKinds
<1>11. /\ Cardinality(todo') = Cardinality(todo) - 1
       /\ Cardinality(todo) \in Nat /\ Cardinality(todo') \in Nat
  BY <1>1, <1>4, RowsAreFinite, FS_RemoveElement
<1>12. ASSUME NEW q \in Processes, stage[q] = "migrating" PROVE Counted(work', todo')
  <2>1. Counted(work, todo) BY <1>12 DEF NoteInv
  <2>2. CASE n = 0 BY <1>8, <1>10, <2>2 DEF Counted
  <2>3. CASE n # 0
    <3>1. 1 \in 1 .. n /\ work'.links[1] = work.links[1] BY <1>8, <2>3
    <3>2. QED BY <1>6, <1>9, <1>11, <2>1, <3>1 DEF Counted
  <2>4. QED BY <2>2, <2>3
<1>13. QED BY <1>1, <1>12 DEF NoteInv, Counted, TailSeq

\* What is committed: a migration with nothing left to link, or a write, one link longer.
LEMMA CommitCounts ==
    ASSUME IInv, NoteInv, NEW p \in Processes, Commit(p)
    PROVE  NoteInv'
<1>1. /\ holder = p /\ todo = {}
      /\ db' = IF stage[p] = "migrating" THEN Versioned(work) ELSE work
      /\ Move(p, "open")
  BY DEF Commit
<1>2. holder # Nobody /\ stage[p] \in {"migrating", "writing"}
  BY <1>1, ProcessesAssumption DEF IInv, TypeOK
<1>3. db'.links = work.links /\ RowsOK(db)
  BY <1>1, FileFields, TypeFacts DEF Versioned, IInv
<1>4. \A q \in Processes : stage'[q] # "migrating"
  BY <1>1 DEF Move, IInv, TypeOK
<1>5. Counted(work, {})
  <2>1. CASE stage[p] = "migrating" BY <1>1, <2>1 DEF NoteInv
  <2>2. CASE stage[p] = "writing"
    <3>1. db.version = 1 /\ Chain(db) /\ Counted(db, {})
      BY <2>2 DEF IInv, StageInv, DbInv, NoteInv
    <3>2. PICK r \in Refs : work.links = PutLink(db.links, TailSeq(db) + 1, NextLink(db, work, r))
      BY <1>1, <2>2 DEF IInv, WriteInv, Written
    <3>3. PICK n \in Nat : ChainTo(db, n) BY <3>1 DEF Chain
    <3>4. DOMAIN db.links = 1 .. n /\ TailSeq(db) = n BY <3>3, TailOfDense DEF ChainTo
    <3>5. /\ DOMAIN work.links = 1 .. n + 1 /\ \A s \in 1 .. n : work.links[s] = db.links[s]
          /\ work.links[n + 1].kind = r[1]
      BY <3>2, <3>4 DEF PutLink, NextLink, MakeLink
    <3>6. TailSeq(work) = n + 1 BY <3>5, TailOfDense
    <3>7. r[1] # "note" BY DEF Refs, RowKinds
    <3>8. Cardinality({}) = 0 BY FS_EmptySet
    <3>9. CASE n = 0 BY <3>5, <3>7, <3>9 DEF Counted
    <3>10. CASE n # 0
      <4>1. 1 \in 1 .. n /\ work.links[1] = db.links[1] BY <3>5, <3>10
      <4>2. QED BY <3>1, <3>4, <3>6, <3>8, <4>1 DEF Counted
    <3>11. QED BY <3>9, <3>10
  <2>3. QED BY <1>2, <2>1, <2>2
<1>6. Counted(db, {})' BY <1>3, <1>5 DEF Counted, TailSeq
<1>7. QED BY <1>4, <1>6 DEF NoteInv

\* No step of a store changes what the note counts.
LEMMA NoteStep == IInv /\ IInv' /\ NoteInv /\ [Next]_vars => NoteInv'
<1> SUFFICES ASSUME IInv, IInv', NoteInv, [Next]_vars PROVE NoteInv'
  OBVIOUS
<1>1. ASSUME NEW p \in Processes, StoreStep(p) PROVE NoteInv'
  <2>1. CASE Open(p) \/ OpenBusy(p)
    BY <2>1, NoteStays DEF Open, OpenBusy, Move, txVars, IInv, TypeOK
  <2>2. CASE BeginMigrate(p)
    <3>1. CASE Journaled(db)
      BY <2>2, <3>1, NoteStays DEF BeginMigrate, Move, txVars, IInv, TypeOK
    <3>2. CASE ~Journaled(db)
      <4>1. /\ UNCHANGED db /\ work' = Started(db) /\ todo' = DOMAIN db.rows
        BY <2>2, <3>2 DEF BeginMigrate, Begins
      <4>2. db.version # 1 /\ DOMAIN db.links = {} /\ RowsOK(db)
        BY <3>2, TypeFacts DEF Journaled, IInv, DbInv
      <4>3. Counted(work', todo')
        BY <4>1, <4>2, StartedCounts
      <4>4. QED BY <4>1, <4>2, <4>3 DEF NoteInv, Counted, TailSeq
    <3>3. QED BY <3>1, <3>2
  <2>3. ASSUME NEW kind \in RowKinds, NEW c \in Contents, Write(p, kind, c) PROVE NoteInv'
    <3>1. \A q \in Processes : stage'[q] # "migrating"
      BY <2>3, ProcessesAssumption DEF Write, Begins, Move, IInv, TypeOK
    <3>2. QED BY <2>3, <3>1, NoteStays DEF Write
  <2>4. CASE LinkNext(p) BY <2>4, LinkNextCounts
  <2>5. CASE LinkFails(p)
    <3>1. \A q \in Processes : stage'[q] # "migrating"
      BY <2>5, ProcessesAssumption DEF LinkFails, Move, IInv, TypeOK
    <3>2. QED BY <2>5, <3>1, NoteStays DEF LinkFails
  <2>6. CASE Commit(p) BY <2>6, CommitCounts
  <2>7. CASE Stop(p)
    <3>1. \A q \in Processes : stage'[q] = "migrating" => stage[q] = "migrating" /\ holder = q /\ q # p
      BY <2>7 DEF Stop, Move, IInv, TypeOK
    <3>2. QED BY <2>7, <3>1, NoteStays DEF Stop, txVars
  <2>8. QED BY <1>1, <2>1, <2>2, <2>3, <2>4, <2>5, <2>6, <2>7 DEF StoreStep
<1>2. CASE UNCHANGED vars BY <1>2, NoteStays DEF vars, txVars
<1>3. QED BY <1>1, <1>2 DEF Next

\* The note a journal begins with counts rows that were linked, in every reachable state.
THEOREM NoteInductive == Spec => []NoteInv
<1>1. Init => NoteInv
  BY FileFields DEF Init, NoteInv
<1>2. QED BY <1>1, NoteStep, Inductive, PTL DEF Spec

\* A note that counts the rows linked after it is the first link.
LEMMA NoteIsFirst == IInv /\ NoteInv => MigratedOnce
<1> SUFFICES ASSUME IInv, NoteInv, db.version = 1, NEW s \in DOMAIN db.links,
                    db.links[s].kind = "note"
             PROVE  /\ s = 1
                    /\ db.links[s].note.flights + db.links[s].note.entries
                          \in 1 .. TailSeq(db) - 1
  BY DEF MigratedOnce
<1>1. Chain(db) /\ RowsOK(db) /\ Counted(db, {}) BY TypeFacts DEF IInv, DbInv, NoteInv
<1>2. PICK n \in Nat : ChainTo(db, n) BY <1>1 DEF Chain
<1>3. GoodLink(db, s) BY <1>2 DEF ChainTo
<1>4. s = 1 BY <1>1, <1>3 DEF GoodLink, NoteLink, RowLink, PairOf, RowsOK, Refs, RowKinds
<1>5. TailSeq(db) = n BY <1>2, TailOfDense DEF ChainTo
<1>6. QED BY <1>1, <1>4, <1>5, FS_EmptySet DEF Counted

\* journal.migrate: the one note of a journal is its first link, and the rows it counts were
\* linked after it.
THEOREM MigratedOnceHolds == Spec => []MigratedOnce
<1>1. QED BY NoteIsFirst, Inductive, NoteInductive, PTL

-----------------------------------------------------------------------------
(* The journal implements RecordLog.                                        *)

\* What is listed, number by number.
LEMMA LogAt ==
    ASSUME NEW d, NEW n \in Nat, DOMAIN d.links = 1 .. n
    PROVE  /\ TailSeq(d) = n
           /\ LogOf(d) = [s \in 1 .. n |-> LogOf(d)[s]]
           /\ \A s \in 1 .. n : LogOf(d)[s] = [kind |-> d.links[s].kind, ref |-> d.links[s].ref,
                                               holds |-> d.links[s].content]
<1>1. TailSeq(d) = n BY TailOfDense
<1>2. QED BY <1>1 DEF LogOf

\* What is listed is a sequence as long as the chain.
LEMMA LogLength ==
    ASSUME NEW d, NEW n \in Nat, DOMAIN d.links = 1 .. n
    PROVE  LogOf(d) \in Seq({LogOf(d)[s] : s \in 1 .. n}) /\ Len(LogOf(d)) = n
<1> DEFINE S == {LogOf(d)[s] : s \in 1 .. n}
<1>1. LogOf(d) \in [1 .. n -> S] BY LogAt
<1> HIDE DEF S
<1>2. LogOf(d) \in Seq(S) /\ Len(LogOf(d)) = n BY <1>1
<1>3. QED BY <1>2 DEF S

\* What a chain lists of a row link is that row.
LEMMA LogItem ==
    ASSUME NEW d, NEW n \in Nat, ChainTo(d, n), RowsOK(d), NEW s \in 1 .. n, RowLink(d, s)
    PROVE  /\ PairOf(d, s) \in DOMAIN d.rows
           /\ LogOf(d)[s] = Log!Item(PairOf(d, s), d.rows[PairOf(d, s)])
<1>1. LogOf(d)[s] = [kind |-> d.links[s].kind, ref |-> d.links[s].ref,
                     holds |-> d.links[s].content]
  <2>1. DOMAIN d.links = 1 .. n BY DEF ChainTo
  <2>2. QED BY <2>1, LogAt
<1>2. QED BY <1>1 DEF RowLink, Log!Item, PairOf

\* A chain of every row, its first link a note, lists each row once.
LEMMA ChainLists ==
    ASSUME NEW d, Chain(d), RowsOK(d), RowsLeft(d) = {}, 1 \in DOMAIN d.links,
           d.links[1].kind = "note"
    PROVE  Log!ListsOnce(LogOf(d), d.rows)
<1>1. PICK n \in Nat : ChainTo(d, n) BY DEF Chain
<1>2. DOMAIN d.links = 1 .. n BY <1>1 DEF ChainTo
<1>3. \A s \in 1 .. n : LogOf(d)[s].kind = d.links[s].kind /\ LogOf(d)[s].ref = d.links[s].ref
  <2> SUFFICES ASSUME NEW s \in 1 .. n
               PROVE  LogOf(d)[s].kind = d.links[s].kind /\ LogOf(d)[s].ref = d.links[s].ref
    OBVIOUS
  <2>1. LogOf(d)[s] = [kind |-> d.links[s].kind, ref |-> d.links[s].ref,
                       holds |-> d.links[s].content]
    BY <1>2, LogAt
  <2>2. QED BY <2>1
<1>4. LogOf(d)[1].kind = "note"
  <2>1. 1 \in 1 .. n BY <1>2
  <2>2. QED BY <1>3, <2>1
<1>5. ASSUME NEW s \in 2 .. n PROVE RowLink(d, s) /\ s \in 1 .. n
  BY <1>1 DEF ChainTo, GoodLink, NoteLink
<1>6. ASSUME NEW r \in DOMAIN d.rows
      PROVE  \E s \in 2 .. n : LogOf(d)[s] = Log!Item(r, d.rows[r])
  <2>1. r = <<r[1], r[2]>> /\ r[1] \in RowKinds BY DEF RowsOK, Refs
  <2>2. PICK s \in 1 .. n : PairOf(d, s) = r
    BY <1>1, <2>1 DEF RowsLeft, Linked, PairOf, ChainTo
  <2>3. s # 1 BY <2>1, <2>2 DEF PairOf, RowKinds
  <2>4. s \in 2 .. n BY <2>3
  <2>5. QED BY <1>1, <1>5, <2>2, <2>4, LogItem
<1>7. ASSUME NEW s \in 2 .. n
      PROVE  \E r \in DOMAIN d.rows : LogOf(d)[s] = Log!Item(r, d.rows[r])
  BY <1>1, <1>5, LogItem
<1>8. ASSUME NEW s \in 2 .. n, NEW t \in 2 .. n, LogOf(d)[s] = LogOf(d)[t]
      PROVE  s = t
  <2>1. s \in 1 .. n /\ t \in 1 .. n OBVIOUS
  <2>2. PairOf(d, s) = <<LogOf(d)[s].kind, LogOf(d)[s].ref>>
          /\ PairOf(d, t) = <<LogOf(d)[t].kind, LogOf(d)[t].ref>>
    BY <1>3, <2>1 DEF PairOf
  <2>3. QED BY <1>1, <1>8, <2>1, <2>2 DEF ChainTo
<1>9. Len(LogOf(d)) = n BY <1>2, LogLength
<1>10. QED BY <1>4, <1>6, <1>7, <1>8, <1>9 DEF Log!ListsOnce

\* One link more lists one item more.
LEMMA LogGrows ==
    ASSUME NEW d, NEW e, Chain(d), Chain(e), RowsOK(e), NEW r \in DOMAIN e.rows,
           e.rows[r] # Garbled, r = <<r[1], r[2]>>,
           e.links = PutLink(d.links, TailSeq(d) + 1, NextLink(d, e, r))
    PROVE  LogOf(e) = Append(LogOf(d), Log!Item(r, e.rows[r]))
<1>1. PICK n \in Nat : ChainTo(d, n) BY DEF Chain
<1>2. TailSeq(d) = n BY <1>1, TailOfDense DEF ChainTo
<1> DEFINE link == NextLink(d, e, r)
<1>3. link.kind = r[1] /\ link.ref = r[2] /\ link.content = [id |-> r[2], record |-> e.rows[r]]
  BY RowContentReadable DEF NextLink, MakeLink, ContentHash
<1> HIDE DEF link
<1>4. DOMAIN e.links = 1 .. n + 1 /\ e.links[n + 1] = link
        /\ \A s \in 1 .. n : e.links[s] = d.links[s]
  BY <1>1, <1>2 DEF PutLink, ChainTo, link
<1>5. n + 1 \in Nat /\ DOMAIN d.links = 1 .. n BY <1>1 DEF ChainTo
<1>6. /\ LogOf(e) = [s \in 1 .. n + 1 |-> LogOf(e)[s]]
      /\ \A s \in 1 .. n + 1 : LogOf(e)[s] = [kind |-> e.links[s].kind, ref |-> e.links[s].ref,
                                              holds |-> e.links[s].content]
  BY <1>4, <1>5, LogAt
<1>7. [kind |-> link.kind, ref |-> link.ref, holds |-> link.content] = Log!Item(r, e.rows[r])
  BY <1>3 DEF Log!Item
<1>8. LogOf(e) = [s \in 1 .. n + 1 |-> IF s = n + 1 THEN Log!Item(r, e.rows[r]) ELSE LogOf(d)[s]]
  <2>1. \A s \in 1 .. n : LogOf(e)[s] = LogOf(d)[s]
    <3>1. \A s \in 1 .. n : LogOf(d)[s] = [kind |-> d.links[s].kind, ref |-> d.links[s].ref,
                                           holds |-> d.links[s].content]
      BY <1>5, LogAt
    <3>2. QED BY <1>4, <1>6, <3>1
  <2>2. LogOf(e)[n + 1] = Log!Item(r, e.rows[r]) BY <1>4, <1>6, <1>7
  <2>3. \A s \in 1 .. n + 1 : LogOf(e)[s]
                                = IF s = n + 1 THEN Log!Item(r, e.rows[r]) ELSE LogOf(d)[s]
    BY <2>1, <2>2
  <2>4. QED BY <1>6, <2>3
<1>9. LogOf(d) \in Seq({LogOf(d)[s] : s \in 1 .. n}) /\ Len(LogOf(d)) = n BY <1>5, LogLength
<1>10. Append(LogOf(d), Log!Item(r, e.rows[r]))
         = [s \in 1 .. n + 1 |-> IF s = n + 1 THEN Log!Item(r, e.rows[r]) ELSE LogOf(d)[s]]
  BY <1>9
<1>11. QED BY <1>8, <1>10

\* A commit begins the log, or records one row at its end.
LEMMA CommitRefines ==
    ASSUME IInv, IInv', NEW p \in Processes, Commit(p)
    PROVE  Log!Next
<1>1. /\ holder = p /\ todo = {}
      /\ db' = IF stage[p] = "migrating" THEN Versioned(work) ELSE work
  BY DEF Commit
<1>2. holder # Nobody /\ stage[p] \in {"migrating", "writing"}
  BY <1>1, ProcessesAssumption DEF IInv, TypeOK
<1>3. work.version = db.version /\ Chain(work) /\ RowsLeft(work) = {} /\ RowsOK(work)
  BY <1>1, <1>2, TypeFacts DEF IInv, TxInv
<1>4. /\ db'.rows = work.rows /\ db'.links = work.links /\ db'.version = 1
  BY <1>1, <1>2, <1>3, FileFields DEF Versioned, IInv, StageInv
<1>5. Chain(db') /\ RowsLeft(db') = {} /\ RowsOK(db')
  BY <1>3, <1>4, ChainOfSame DEF RowsOK
<1>6. CASE stage[p] = "migrating"
  <2>1. /\ db.version = 0 /\ work.rows = db.rows
        /\ DOMAIN db.rows = {} => DOMAIN work.links = {}
        /\ DOMAIN db.rows # {} => 1 \in DOMAIN work.links /\ work.links[1].kind = "note"
    BY <1>6 DEF IInv, StageInv, MigrateInv
  <2>2. CASE DOMAIN db.rows = {}
    <3>1. TailSeq(db') = 0
      <4>1. DOMAIN db'.links = 1 .. 0 BY <1>4, <2>1, <2>2
      <4>2. QED BY <4>1, TailOfDense
    <3>2. LogOf(db') = <<>> BY <3>1 DEF LogOf
    <3>3. Log!Begin BY <1>4, <2>1, <2>2, <3>2 DEF Log!Begin
    <3>4. QED BY <3>3 DEF Log!Next
  <2>3. CASE DOMAIN db.rows # {}
    <3>1. Log!ListsOnce(LogOf(db'), db'.rows) BY <1>4, <1>5, <2>1, <2>3, ChainLists
    <3>2. Log!Begin BY <1>4, <2>1, <2>3, <3>1 DEF Log!Begin
    <3>3. QED BY <3>2 DEF Log!Next
  <2>4. QED BY <2>2, <2>3
<1>7. CASE stage[p] = "writing"
  <2>1. db.version = 1 /\ Chain(db) BY <1>7 DEF IInv, StageInv, DbInv
  <2>2. Written(db, work, todo) BY <1>7 DEF IInv, WriteInv
  <2>3. PICK r \in Refs : \E c \in Contents :
          /\ r \notin DOMAIN db.rows
          /\ work.rows = PutRow(db, r[1], r[2], c).rows
          /\ work.links = PutLink(db.links, TailSeq(db) + 1, NextLink(db, work, r))
    BY <1>1, <2>2 DEF Written
  <2>4. PICK c \in Contents : work.rows = PutRow(db, r[1], r[2], c).rows BY <2>3
  <2>5. r = <<r[1], r[2]>> BY DEF Refs
  <2>6. work.rows = [q \in DOMAIN db.rows \cup {r} |-> IF q = r THEN c ELSE db.rows[q]]
    BY <2>4, <2>5, FileFields DEF PutRow
  <2>7. r \in DOMAIN work.rows /\ work.rows[r] = c /\ c # Garbled
    BY <2>6, ContentsAssumption
  <2>8. LogOf(work) = Append(LogOf(db), Log!Item(r, c))
    BY <1>3, <2>1, <2>3, <2>5, <2>7, LogGrows
  <2>9. LogOf(db') = LogOf(work) BY <1>4 DEF LogOf, TailSeq
  <2>10. Log!Record(r, c) BY <1>4, <2>1, <2>3, <2>6, <2>8, <2>9 DEF Log!Record
  <2>11. QED BY <2>10 DEF Log!Next
<1>8. QED BY <1>2, <1>6, <1>7

\* As long as only stores write, the journal is an append-only log of the rows: begun once and
\* whole, each row after it recorded together with its link.
THEOREM IsRecordLogHolds == Spec => IsRecordLog
<1>1. Init => Log!Init
  <2> SUFFICES ASSUME Init PROVE Log!Init OBVIOUS
  <2>1. DOMAIN db.rows \subseteq Refs /\ db.version = 0 /\ DOMAIN db.links = {}
    <3>1. IInv BY InitInv
    <3>2. db.version = 0 BY FileFields DEF Init
    <3>3. QED BY <3>1, <3>2, TypeFacts DEF IInv, DbInv, RowsOK
  <2>2. TailSeq(db) = 0
    <3>1. DOMAIN db.links = 1 .. 0 BY <2>1
    <3>2. QED BY <3>1, TailOfDense
  <2>3. LogOf(db) = <<>> BY <2>2 DEF LogOf
  <2>4. QED BY <2>1, <2>3 DEF Log!Init
<1>2. IInv /\ IInv' /\ [Next]_vars => [Log!Next]_<<db.rows, LogOf(db), db.version = 1>>
  <2> SUFFICES ASSUME IInv, IInv', [Next]_vars
               PROVE  [Log!Next]_<<db.rows, LogOf(db), db.version = 1>>
    OBVIOUS
  <2>1. CASE UNCHANGED db BY <2>1
  <2>2. ASSUME NEW p \in Processes, Commit(p) PROVE Log!Next BY <2>2, CommitRefines
  <2>3. ASSUME NEW p \in Processes, StoreStep(p) PROVE Commit(p) \/ UNCHANGED db
    BY <2>3 DEF StoreStep, Open, BeginMigrate, OpenBusy, Write, LinkNext, LinkFails, Stop
  <2>4. CASE UNCHANGED vars BY <2>1, <2>4 DEF vars
  <2>5. QED BY <2>1, <2>2, <2>3, <2>4 DEF Next
<1>3. QED BY <1>1, <1>2, Inductive, PTL DEF Spec, IsRecordLog, Log!Spec

-----------------------------------------------------------------------------
(* Links as the file holds them, edited or not.                             *)

Columns == {"kind", "ref", "note", "content", "prev", "link"}
IsLink(link) == link = [f \in Columns |-> link[f]]
LinksOK(links) ==
    /\ \E N \in Nat : DOMAIN links \subseteq 1 .. N
    /\ \A s \in DOMAIN links : IsLink(links[s])

\* The tail of finitely many links is the greatest number there is.
LEMMA TailIsGreatest ==
    ASSUME NEW d, LinksOK(d.links)
    PROVE  TailSeq(d) \in DOMAIN d.links \cup {0} /\ TailSeq(d) \in Nat
<1>1. PICK N \in Nat : DOMAIN d.links \subseteq 1 .. N BY DEF LinksOK
<1>2. DOMAIN d.links \cup {0} \in SUBSET Nat /\ DOMAIN d.links \cup {0} \subseteq 0 .. N BY <1>1
<1>3. \E n \in DOMAIN d.links \cup {0} : \A m \in DOMAIN d.links \cup {0} : m <= n
  BY <1>1, <1>2, Greatest
<1>4. TailSeq(d) \in DOMAIN d.links \cup {0} BY <1>3 DEF TailSeq
<1>5. QED BY <1>2, <1>4

\* A link the store makes has every column; ...
LEMMA MadeLinkOK ==
    ASSUME NEW seq, NEW kind, NEW ref, NEW note, NEW content, NEW prev
    PROVE  IsLink(MakeLink(seq, kind, ref, note, content, prev))
BY DEF MakeLink, IsLink, Columns

\* ... so has one made by hand, ...
LEMMA MadeIsLink ==
    ASSUME NEW s, NEW link \in Made(s)
    PROVE  IsLink(link)
<1> DEFINE tail == IF s - 1 \in DOMAIN db.links THEN db.links[s - 1].link ELSE Genesis
<1> DEFINE made ==
      {MakeLink(s, r[1], r[2], NoNote, RowContent(db, r[1], r[2]), tail) : r \in Refs}
        \cup {MakeLink(s, "note", NoRef, n, n, tail) : n \in Notes}
<1>1. \A l \in made : IsLink(l) BY MadeLinkOK
<1>2. link \in made \/ \E l \in made : link = [l EXCEPT !.link = Forged] BY DEF Made
<1> HIDE DEF made
<1>3. \A l : IsLink(l) => IsLink([l EXCEPT !.link = Forged]) BY DEF IsLink, Columns
<1>4. QED BY <1>1, <1>2, <1>3

\* ... and one with a column changed.
LEMMA AlteredIsLink ==
    ASSUME NEW old, IsLink(old), NEW link \in Altered(old)
    PROVE  IsLink(link)
<1>1. \/ \E v : link = [old EXCEPT !.kind = v]
      \/ \E v : link = [old EXCEPT !.ref = v]
      \/ \E v : link = [old EXCEPT !.note = v]
      \/ \E v : link = [old EXCEPT !.content = v]
      \/ \E v : link = [old EXCEPT !.prev = v]
      \/ \E v : link = [old EXCEPT !.link = v]
  BY DEF Altered
<1>2. \A v : /\ IsLink([old EXCEPT !.kind = v]) /\ IsLink([old EXCEPT !.ref = v])
            /\ IsLink([old EXCEPT !.note = v]) /\ IsLink([old EXCEPT !.content = v])
            /\ IsLink([old EXCEPT !.prev = v]) /\ IsLink([old EXCEPT !.link = v])
  BY DEF IsLink, Columns
<1>3. QED BY <1>1, <1>2

\* Two links with the same columns are one.
LEMMA SameLink ==
    ASSUME NEW l, NEW m, IsLink(l), IsLink(m), l.kind = m.kind, l.ref = m.ref, l.note = m.note,
           l.content = m.content, l.prev = m.prev, l.link = m.link
    PROVE  l = m
<1>1. \A f \in Columns : l[f] = m[f] BY DEF Columns
<1>2. QED BY <1>1 DEF IsLink

\* What the walk has found of a link when it passes it.
LEMMA SoundLink ==
    ASSUME NEW d, NEW s \in Nat \ {0}, BreakAt(d, s) = "none"
    PROVE  LET link == d.links[s] IN
           /\ s \in DOMAIN d.links
           /\ link.prev = PrevHash(d, s)
           /\ link.link = <<s, link.kind, link.ref, link.content, link.prev>>
           /\ link.kind = "note" => link.note = link.content
           /\ link.kind # "note" =>
                link.note = NoNote /\ RowContent(d, link.kind, link.ref) = link.content
<1>1. Present(d, s) /\ s \in 1 .. s BY DEF BreakAt
<1>2. ContentBreak(d, s) = "none" BY <1>1 DEF BreakAt
<1>3. QED BY <1>1, <1>2 DEF BreakAt, ContentBreak, Present, LinkHash, ContentHash

-----------------------------------------------------------------------------
(* A head found in two sound chains leaves one chain below it.              *)

\* Two chains sound up to n whose links n have one hash have one hash at every link below.
LEMMA SameBelow ==
    ASSUME NEW old, NEW new, NEW n \in Nat, n # 0,
           \A s \in 1 .. n : BreakAt(old, s) = "none" /\ BreakAt(new, s) = "none",
           new.links[n].link = old.links[n].link
    PROVE  \A s \in 1 .. n : new.links[s].link = old.links[s].link
<1> DEFINE Below == {i \in 0 .. n - 1 : new.links[n - i].link # old.links[n - i].link}
<1>1. SUFFICES ASSUME Below # {} PROVE FALSE
  <2>1. ASSUME NEW s \in 1 .. n PROVE n - s \in 0 .. n - 1 /\ n - (n - s) = s OBVIOUS
  <2>2. QED BY <2>1
<1>2. Below \in SUBSET Nat OBVIOUS
<1>3. PICK i \in Below : \A j \in Below : i <= j BY <1>1, <1>2, Least
<1>4. i # 0 /\ i - 1 \in 0 .. n - 1 /\ i - 1 \notin Below BY <1>3
<1> DEFINE s == n - i
<1>5. s \in 1 .. n /\ s + 1 \in 1 .. n /\ n - (i - 1) = s + 1 BY <1>4
<1>6. new.links[s + 1].link = old.links[s + 1].link BY <1>4, <1>5
<1>7. new.links[s].link # old.links[s].link BY <1>3
<1> HIDE DEF s, Below
<1>8. BreakAt(old, s + 1) = "none" /\ BreakAt(new, s + 1) = "none" /\ s + 1 \in Nat \ {0}
  BY <1>5
<1>9. old.links[s + 1].prev = new.links[s + 1].prev
  <2>1. /\ old.links[s + 1].link = <<s + 1, old.links[s + 1].kind, old.links[s + 1].ref,
                                     old.links[s + 1].content, old.links[s + 1].prev>>
        /\ new.links[s + 1].link = <<s + 1, new.links[s + 1].kind, new.links[s + 1].ref,
                                     new.links[s + 1].content, new.links[s + 1].prev>>
    BY <1>8, SoundLink
  <2>2. QED BY <1>6, <2>1
<1>10. PrevHash(old, s + 1) = PrevHash(new, s + 1) BY <1>8, <1>9, SoundLink
<1>11. old.links[s].link = new.links[s].link BY <1>5, <1>10 DEF PrevHash
<1>12. QED BY <1>7, <1>11

\* So a head of one that verifies in the other covers equal links and the rows they name.
LEMMA HeadCovers ==
    ASSUME NEW old, NEW new, LinksOK(old.links), LinksOK(new.links), ChainSound(old),
           Verified(new, TailHash(old)), NEW s \in 1 .. TailSeq(old)
    PROVE  Unchanged(old, new, s)
<1> DEFINE n == TailSeq(old)
<1>1. n \in Nat /\ n # 0 /\ TailSeq(new) \in Nat BY TailIsGreatest
<1>2. n \in DOMAIN old.links /\ TailHash(old) = old.links[n].link
  BY <1>1, TailIsGreatest DEF TailHash
<1>3. \A t \in 1 .. n : BreakAt(old, t) = "none" BY DEF ChainSound
<1>4. \A t \in 1 .. TailSeq(new) : BreakAt(new, t) = "none" BY DEF Verified, Intact, ChainSound
<1> HIDE DEF n
<1>5. BreakAt(old, n) = "none" /\ n \in Nat \ {0} BY <1>1, <1>3
<1>6. old.links[n].link = <<n, old.links[n].kind, old.links[n].ref, old.links[n].content,
                            old.links[n].prev>>
  BY <1>5, SoundLink
<1>7. TailHash(old) # Genesis BY <1>2, <1>6 DEF Genesis
<1>8. PICK t \in 1 .. TailSeq(new) : new.links[t].link = TailHash(old)
  BY <1>7 DEF Verified, GivenAt
<1>9. new.links[t].link = <<t, new.links[t].kind, new.links[t].ref, new.links[t].content,
                            new.links[t].prev>>
  BY <1>4, <1>8, SoundLink
<1>10. t = n BY <1>2, <1>6, <1>8, <1>9
<1>11. \A u \in 1 .. n : BreakAt(old, u) = "none" /\ BreakAt(new, u) = "none"
  BY <1>1, <1>3, <1>4, <1>8, <1>10
<1>12. s \in 1 .. n BY DEF n
<1>13. new.links[s].link = old.links[s].link
  BY <1>1, <1>2, <1>8, <1>10, <1>11, <1>12, SameBelow
<1>14. BreakAt(old, s) = "none" /\ BreakAt(new, s) = "none" BY <1>11, <1>12
<1> DEFINE l == old.links[s]
<1> DEFINE m == new.links[s]
<1>15. l.link = <<s, l.kind, l.ref, l.content, l.prev>> /\ s \in DOMAIN old.links
  BY <1>14, SoundLink
<1>16. m.link = <<s, m.kind, m.ref, m.content, m.prev>> /\ s \in DOMAIN new.links
  BY <1>14, SoundLink
<1>17. l.kind = m.kind /\ l.ref = m.ref /\ l.content = m.content /\ l.prev = m.prev
  BY <1>13, <1>15, <1>16
<1>18. l.note = m.note BY <1>14, <1>17, SoundLink
<1>19. IsLink(l) /\ IsLink(m) BY <1>15, <1>16 DEF LinksOK
<1>20. l = m
  <2> HIDE DEF l, m
  <2>1. l.link = m.link BY <1>13 DEF l, m
  <2>2. QED BY <1>17, <1>18, <1>19, <2>1, SameLink
<1>21. l.kind # "note" => RowContent(new, l.kind, l.ref) = RowContent(old, l.kind, l.ref)
  BY <1>14, <1>17, SoundLink
<1>22. QED BY <1>16, <1>20, <1>21 DEF Unchanged

-----------------------------------------------------------------------------
(* The file keeps that shape, and the head noted is of a sound chain.       *)

HeadInv ==
    /\ LinksOK(db.links)
    /\ LinksOK(work.links)
    /\ noted = NoHead \/ (LinksOK(noted.links) /\ ChainSound(noted))

\* A journal with no link.
LEMMA NoLinksOK == LinksOK(EmptyFunction)
<1>1. DOMAIN EmptyFunction \subseteq 1 .. 0 BY DEF EmptyFunction
<1>2. QED BY <1>1 DEF LinksOK, EmptyFunction

\* A link more at the end.
LEMMA PutLinkOK ==
    ASSUME NEW d, LinksOK(d.links), NEW link, IsLink(link)
    PROVE  LinksOK(PutLink(d.links, TailSeq(d) + 1, link))
<1> DEFINE seq == TailSeq(d) + 1
<1> DEFINE put == PutLink(d.links, seq, link)
<1>1. PICK N \in Nat : DOMAIN d.links \subseteq 1 .. N BY DEF LinksOK
<1>2. TailSeq(d) \in Nat BY TailIsGreatest
<1>3. DOMAIN put = DOMAIN d.links \cup {seq} BY DEF PutLink
<1>4. N + seq \in Nat /\ DOMAIN put \subseteq 1 .. N + seq BY <1>1, <1>2, <1>3
<1>5. \A s \in DOMAIN put : IsLink(put[s]) BY <1>3 DEF PutLink, LinksOK
<1>6. QED BY <1>4, <1>5 DEF LinksOK

\* Some links removed.
LEMMA OnlyOK ==
    ASSUME NEW links, LinksOK(links), NEW keep, keep \subseteq DOMAIN links
    PROVE  LinksOK(Only(links, keep))
<1>1. DOMAIN Only(links, keep) = keep /\ \A s \in keep : Only(links, keep)[s] = links[s]
  BY DEF Only
<1>2. QED BY <1>1 DEF LinksOK

\* A link in the place of one.
LEMMA SetLinkOK ==
    ASSUME NEW links, LinksOK(links), NEW s, NEW link, IsLink(link)
    PROVE  LinksOK([links EXCEPT ![s] = link])
BY DEF LinksOK

\* What computing every link again makes, told without the recursion.
IsRechained(d, chain) ==
    /\ DOMAIN chain = 1 .. TailSeq(d)
    /\ \A s \in DOMAIN chain :
         chain[s] = Relinked(d, s, IF s = 1 THEN Genesis ELSE chain[s - 1].link)

\* There is such a chain: one up to any number, extended by the link after it.
LEMMA RechainedIs ==
    ASSUME NEW d, TailSeq(d) \in Nat
    PROVE  IsRechained(d, Rechained(d))
<1> DEFINE Step(f, s) == Relinked(d, s, IF s = 1 THEN Genesis ELSE f[s - 1].link)
           Reaches(k) == \E f : f = [s \in 1 .. k |-> Step(f, s)]
           Missing == {k \in Nat : ~Reaches(k)}
<1>1. Reaches(0)
  <2> DEFINE f == [s \in 1 .. 0 |-> Genesis]
  <2>1. f = [s \in 1 .. 0 |-> Step(f, s)] OBVIOUS
  <2>2. QED BY <2>1
<1>2. ASSUME NEW k \in Nat, Reaches(k) PROVE Reaches(k + 1)
  <2>1. PICK f : f = [s \in 1 .. k |-> Step(f, s)] BY <1>2
  <2> DEFINE g == [s \in 1 .. k + 1 |-> IF s = k + 1 THEN Step(f, s) ELSE f[s]]
  <2>2. \A s \in 1 .. k : g[s] = f[s] /\ f[s] = Step(f, s)
    <3> HIDE DEF Step
    <3>1. QED BY <2>1
  <2>3. \A s \in 1 .. k + 1 : Step(g, s) = Step(f, s)
    <3> SUFFICES ASSUME NEW s \in 1 .. k + 1 PROVE Step(g, s) = Step(f, s) OBVIOUS
    <3>1. s # 1 => s - 1 \in 1 .. k OBVIOUS
    <3>2. s # 1 => g[s - 1] = f[s - 1] BY <2>2, <3>1
    <3> HIDE DEF g
    <3>3. QED BY <3>2
  <2>4. \A s \in 1 .. k + 1 : g[s] = Step(g, s)
    <3> SUFFICES ASSUME NEW s \in 1 .. k + 1 PROVE g[s] = Step(g, s) OBVIOUS
    <3>1. s = k + 1 \/ s \in 1 .. k OBVIOUS
    <3>2. g[k + 1] = Step(f, k + 1)
      <4> HIDE DEF Step
      <4>1. QED OBVIOUS
    <3> HIDE DEF g, Step
    <3>3. QED BY <2>2, <2>3, <3>1, <3>2
  <2>5. g = [s \in 1 .. k + 1 |-> g[s]] OBVIOUS
  <2>6. g = [s \in 1 .. k + 1 |-> Step(g, s)]
    <3> HIDE DEF g, Step
    <3>1. QED BY <2>4, <2>5
  <2> HIDE DEF g
  <2>7. QED BY <2>6
<1> HIDE DEF Reaches
<1>3. Missing = {}
  <2> SUFFICES ASSUME Missing # {} PROVE FALSE OBVIOUS
  <2>1. Missing \in SUBSET Nat OBVIOUS
  <2>2. PICK k \in Missing : \A m \in Missing : k <= m BY <2>1, Least
  <2>3. k # 0 /\ k \in Nat BY <1>1, <2>2
  <2>4. k - 1 \in Nat /\ k - 1 \notin Missing /\ (k - 1) + 1 = k BY <2>2, <2>3
  <2>5. Reaches(k - 1) BY <2>4
  <2>6. Reaches((k - 1) + 1) BY <1>2, <2>4, <2>5
  <2>7. QED BY <2>2, <2>4, <2>6
<1>4. \E f : f = [s \in 1 .. TailSeq(d) |-> Step(f, s)] BY <1>3 DEF Reaches
<1>5. Rechained(d) = CHOOSE f : f = [s \in 1 .. TailSeq(d) |-> Step(f, s)] BY DEF Rechained
<1> DEFINE c == Rechained(d)
<1> HIDE DEF Step
<1>6. c = [s \in 1 .. TailSeq(d) |-> Step(c, s)] BY <1>4, <1>5
<1>7. DOMAIN c = 1 .. TailSeq(d) /\ \A s \in 1 .. TailSeq(d) : c[s] = Step(c, s)
  <2> HIDE DEF c
  <2>1. QED BY <1>6
<1>8. QED BY <1>7 DEF IsRechained, Step

\* What a store does keeps the shape of links.
LEMMA StoreKeepsLinks ==
    ASSUME LinksOK(db.links), LinksOK(work.links), NEW p \in Processes, StoreStep(p)
    PROVE  LinksOK(db'.links) /\ LinksOK(work'.links)
<1>1. CASE Open(p) BY <1>1 DEF Open, txVars
<1>2. CASE BeginMigrate(p)
  <2>1. LinksOK(Started(db).links)
    <3> DEFINE note == MigrationNote(Count(db, "flight"), Count(db, "entry"))
    <3>1. AppendNote(db, note).links
            = PutLink(db.links, TailSeq(db) + 1,
                      MakeLink(TailSeq(db) + 1, "note", NoRef, note, note, TailHash(db)))
      BY FileFields DEF AppendNote, WithLinks
    <3>2. LinksOK(AppendNote(db, note).links) BY <3>1, PutLinkOK, MadeLinkOK
    <3>3. QED BY <3>2 DEF Started
  <2>2. QED BY <1>2, <2>1 DEF BeginMigrate, Begins, txVars
<1>3. CASE OpenBusy(p) BY <1>3 DEF OpenBusy, txVars
<1>4. ASSUME NEW kind \in RowKinds, NEW c \in Contents, Write(p, kind, c)
      PROVE  LinksOK(db'.links) /\ LinksOK(work'.links)
  BY <1>4, FileFields DEF Write, Begins, PutRow
<1>5. CASE LinkNext(p)
  <2>1. ASSUME NEW kind, NEW ref PROVE LinksOK(AppendRow(work, kind, ref).links)
    <3>1. AppendRow(work, kind, ref).links
            = PutLink(work.links, TailSeq(work) + 1,
                      MakeLink(TailSeq(work) + 1, kind, ref, NoNote,
                               RowContent(work, kind, ref), TailHash(work)))
      BY FileFields DEF AppendRow, WithLinks
    <3>2. QED BY <3>1, PutLinkOK, MadeLinkOK
  <2>2. QED BY <1>5, <2>1 DEF LinkNext
<1>6. CASE LinkFails(p) BY <1>6 DEF LinkFails
<1>7. CASE Commit(p) BY <1>7, FileFields DEF Commit, Versioned
<1>8. CASE Stop(p) BY <1>8 DEF Stop, txVars
<1>9. QED BY <1>1, <1>2, <1>3, <1>4, <1>5, <1>6, <1>7, <1>8 DEF StoreStep

\* So does every edit of a row, ...
LEMMA RowEditsKeepLinks ==
    ASSUME LinksOK(db.links), NEW r, NEW c, EditRow(r, c) \/ AddRow(r, c) \/ DropRow(r)
    PROVE  LinksOK(db'.links)
BY FileFields DEF EditRow, AddRow, DropRow, WithRows, PutRow

\* ... a link put in ...
LEMMA InsertKeepsLinks ==
    ASSUME LinksOK(db.links), NEW s \in 1 .. TailSeq(db) + 1, InsertLink(s)
    PROVE  LinksOK(db'.links)
<1>1. PICK N \in Nat : DOMAIN db.links \subseteq 1 .. N BY DEF LinksOK
<1>2. TailSeq(db) \in Nat BY TailIsGreatest
<1> DEFINE low == {m \in DOMAIN db.links : m < s}
<1> DEFINE high == {m + 1 : m \in {k \in DOMAIN db.links : k >= s}}
<1> DEFINE moved(link) == [n \in low \cup {s} \cup high |->
                             IF n < s THEN db.links[n]
                             ELSE IF n = s THEN link ELSE db.links[n - 1]]
<1>3. PICK link \in Made(s) : db' = WithLinks(db, moved(link)) BY DEF InsertLink
<1>4. db'.links = moved(link) BY <1>3, FileFields DEF WithLinks
<1>5. IsLink(link) BY <1>3, MadeIsLink
<1>6. DOMAIN moved(link) = low \cup {s} \cup high OBVIOUS
<1>7. N + s \in Nat /\ low \cup {s} \cup high \subseteq 1 .. N + s
  <2>1. low \subseteq 1 .. N + s BY <1>1, <1>2
  <2>2. s \in 1 .. N + s BY <1>2
  <2>3. high \subseteq 1 .. N + s
    <3> SUFFICES ASSUME NEW m \in DOMAIN db.links, m >= s PROVE m + 1 \in 1 .. N + s
      OBVIOUS
    <3>1. QED BY <1>1, <1>2
  <2>4. QED BY <1>2, <2>1, <2>2, <2>3
<1>8. ASSUME NEW n \in low \cup {s} \cup high PROVE IsLink(moved(link)[n])
  <2>1. CASE n \in low BY <2>1, <1>1 DEF LinksOK
  <2>2. CASE n = s BY <1>1, <1>2, <1>5, <2>2
  <2>3. CASE n \in high
    <3>1. PICK m \in DOMAIN db.links : m >= s /\ n = m + 1 BY <2>3
    <3>2. ~(n < s) /\ n # s /\ n - 1 = m BY <1>1, <1>2, <3>1
    <3>3. IsLink(db.links[m]) BY DEF LinksOK
    <3>4. QED BY <2>3, <3>2, <3>3
  <2>4. QED BY <1>8, <2>1, <2>2, <2>3
<1> HIDE DEF moved, low, high
<1>9. QED BY <1>4, <1>6, <1>7, <1>8 DEF LinksOK

\* ... and every other edit of the chain.
LEMMA ChainEditsKeepLinks ==
    ASSUME LinksOK(db.links), EditChain
    PROVE  LinksOK(db'.links)
<1>1. ASSUME NEW s \in DOMAIN db.links, EditLink(s) PROVE LinksOK(db'.links)
  <2>1. IsLink(db.links[s]) BY DEF LinksOK
  <2>2. PICK link \in Altered(db.links[s]) : db' = WithLinks(db, [db.links EXCEPT ![s] = link])
    BY <1>1 DEF EditLink
  <2>3. IsLink(link) BY <2>1, <2>2, AlteredIsLink
  <2>4. LinksOK([db.links EXCEPT ![s] = link]) BY <2>3, SetLinkOK
  <2>5. QED BY <2>2, <2>4, FileFields DEF WithLinks
<1>2. ASSUME NEW s \in DOMAIN db.links, DropLink(s) PROVE LinksOK(db'.links)
  <2>1. LinksOK(Only(db.links, DOMAIN db.links \ {s})) BY OnlyOK
  <2>2. QED BY <1>2, <2>1, FileFields DEF DropLink, WithLinks
<1>3. ASSUME NEW s \in DOMAIN db.links, CutTail(s) PROVE LinksOK(db'.links)
  <2> DEFINE cut == {n \in DOMAIN db.links : n >= s}
  <2>1. LinksOK(Only(db.links, DOMAIN db.links \ cut)) BY OnlyOK
  <2>2. db'.links = Only(db.links, DOMAIN db.links \ cut) BY <1>3, FileFields DEF CutTail
  <2>3. QED BY <2>1, <2>2
<1>4. ASSUME NEW s \in 1 .. TailSeq(db) + 1, InsertLink(s) PROVE LinksOK(db'.links)
  BY <1>4, InsertKeepsLinks
<1>5. ASSUME NEW s \in DOMAIN db.links, NEW t \in DOMAIN db.links, SwapLinks(s, t)
      PROVE  LinksOK(db'.links)
  <2>1. IsLink(db.links[s]) /\ IsLink(db.links[t]) BY DEF LinksOK
  <2>2. LinksOK([db.links EXCEPT ![s] = db.links[t], ![t] = db.links[s]])
    BY <2>1, SetLinkOK
  <2>3. QED BY <1>5, <2>2, FileFields DEF SwapLinks, WithLinks
<1>6. CASE Wipe BY <1>6, NoLinksOK, FileFields DEF Wipe, WithLinks
<1>7. CASE Rechain
  <2>1. TailSeq(db) \in Nat /\ db'.links = Rechained(db)
    BY <1>7, TailIsGreatest, FileFields DEF Rechain, WithLinks
  <2> DEFINE chain == Rechained(db)
  <2>2. IsRechained(db, chain) BY <2>1, RechainedIs
  <2> HIDE DEF chain
  <2>3. DOMAIN chain \subseteq 1 .. TailSeq(db) BY <2>2 DEF IsRechained
  <2>4. \A s \in DOMAIN chain : IsLink(chain[s])
    BY <2>2, MadeLinkOK DEF IsRechained, Relinked
  <2>5. LinksOK(chain) BY <2>1, <2>3, <2>4 DEF LinksOK
  <2>6. QED BY <2>1, <2>5 DEF chain
<1>8. QED BY <1>1, <1>2, <1>3, <1>4, <1>5, <1>6, <1>7, Zenon DEF EditChain

\* The shape holds of every state of every behaviour, edits included.
THEOREM HeadInductive == EditedSpec => []HeadInv
<1>1. EditedInit => HeadInv
  <2> SUFFICES ASSUME EditedInit PROVE HeadInv OBVIOUS
  <2>1. \E old \in SUBSET (RowKinds \X LegacyIds) : \E rows \in [old -> Legacy] :
          db = File(rows, EmptyFunction, HighestId(rows, "entry"), 0)
    BY DEF EditedInit, Init
  <2>2. db.links = EmptyFunction BY <2>1, FileFields
  <2>3. work = db /\ noted = NoHead BY DEF EditedInit, Init
  <2>4. LinksOK(db.links) BY <2>2, NoLinksOK
  <2>5. LinksOK(work.links) BY <2>3, <2>4
  <2>6. QED BY <2>3, <2>4, <2>5 DEF HeadInv
<1>2. HeadInv /\ [EditedNext]_editedVars => HeadInv'
  <2> SUFFICES ASSUME HeadInv, [EditedNext]_editedVars PROVE HeadInv' OBVIOUS
  <2>1. CASE Next /\ UNCHANGED <<edits, noted>>
    BY <2>1, StoreKeepsLinks DEF Next, HeadInv
  <2>2. CASE NoteHead BY <2>2 DEF NoteHead, HeadInv, vars, txVars, Intact
  <2>3. CASE FileEdit
    <3>1. LinksOK(db'.links) BY <2>3, RowEditsKeepLinks, ChainEditsKeepLinks DEF FileEdit, HeadInv
    <3>2. QED BY <2>3, <3>1 DEF FileEdit, HeadInv
  <2>4. CASE UNCHANGED editedVars BY <2>4 DEF editedVars, vars, txVars, HeadInv
  <2>5. QED BY <2>1, <2>2, <2>3, <2>4 DEF EditedNext
<1>3. QED BY <1>1, <1>2, PTL DEF EditedSpec

\* A head kept outside the file vouches for the links and rows below it: whatever was done to
\* the file, however often, when that head verifies they are as they were.
THEOREM HeadVouchesHolds == EditedSpec => []HeadVouches
<1>1. HeadInv => HeadVouches BY HeadCovers DEF HeadInv, HeadVouches
<1>2. QED BY <1>1, HeadInductive, PTL

-----------------------------------------------------------------------------
(* A broken journal stays broken, whatever stores write to it.              *)

TypedFile(d) == DOMAIN d.rows \subseteq Refs /\ d.last \in 0 .. MaxId

\* The file with one row more, and with its link too.
Put(d, r, c) == PutRow(d, r[1], r[2], c)
PutLinked(d, r, c) == AppendRow(Put(d, r, c), r[1], r[2])

\* A writer's transaction is the file as it is, with one new row and perhaps its link: nobody
\* edits the file under the lock. A migration's began on a file that had no journal.
Writing(d, t, w) ==
    \E r \in Refs \ DOMAIN d.rows, c \in Contents :
       \/ t = {r} /\ w = Put(d, r, c)
       \/ t = {} /\ w = PutLinked(d, r, c)
InTurn ==
    holder # Nobody =>
        /\ stage[holder] \in {"migrating", "writing"}
        /\ stage[holder] = "migrating" => ~Journaled(db)
        /\ stage[holder] = "writing" => Writing(db, todo, work)
WriterInv ==
    /\ TypedFile(db) /\ TypedFile(work)
    /\ stage \in [Processes -> Stages]
    /\ holder \in Processes \cup {Nobody}
    /\ InTurn

\* What the two of them hold: the row, ...
LEMMA PutFields ==
    ASSUME NEW d, NEW r \in Refs, NEW c
    PROVE  /\ Put(d, r, c).rows = [q \in DOMAIN d.rows \cup {r} |-> IF q = r THEN c ELSE d.rows[q]]
           /\ Put(d, r, c).links = d.links
           /\ PutLinked(d, r, c).rows = Put(d, r, c).rows
           /\ PutLinked(d, r, c).last = Put(d, r, c).last
<1>1. r = <<r[1], r[2]>> BY DEF Refs
<1>2. /\ Put(d, r, c).rows = [q \in DOMAIN d.rows \cup {r} |-> IF q = r THEN c ELSE d.rows[q]]
      /\ Put(d, r, c).links = d.links
  BY <1>1, FileFields DEF Put, PutRow
<1>3. ASSUME NEW e PROVE AppendRow(e, r[1], r[2]).rows = e.rows
                           /\ AppendRow(e, r[1], r[2]).last = e.last
  BY FileFields DEF AppendRow, WithLinks
<1>4. QED BY <1>2, <1>3 DEF PutLinked

\* ... and a link of it past the tail.
LEMMA PutLinkedEnds ==
    ASSUME NEW d, NEW r \in Refs, NEW c
    PROVE  \E link : /\ PutLinked(d, r, c).links = PutLink(d.links, TailSeq(d) + 1, link)
                     /\ link.kind = r[1] /\ link.ref = r[2]
<1> DEFINE e == Put(d, r, c)
           made == MakeLink(TailSeq(e) + 1, r[1], r[2], NoNote, RowContent(e, r[1], r[2]),
                            TailHash(e))
<1>1. e.links = d.links BY PutFields
<1>2. TailSeq(e) = TailSeq(d) BY <1>1 DEF TailSeq
<1>3. PutLinked(d, r, c).links = PutLink(e.links, TailSeq(e) + 1, made)
  BY FileFields DEF PutLinked, AppendRow, WithLinks
<1>4. made.kind = r[1] /\ made.ref = r[2] BY DEF MakeLink
<1>5. PICK link : link = made OBVIOUS
<1>6. PutLinked(d, r, c).links = PutLink(d.links, TailSeq(d) + 1, link)
  BY <1>1, <1>2, <1>3, <1>5
<1>7. link.kind = r[1] /\ link.ref = r[2] BY <1>4, <1>5
<1> HIDE DEF e, made
<1>8. QED BY <1>6, <1>7, Zenon

\* No link comes after the tail.
LEMMA NoneAfterTail ==
    ASSUME NEW d, LinksOK(d.links)
    PROVE  TailSeq(d) \in Nat /\ \A m \in DOMAIN d.links : m <= TailSeq(d)
<1>1. PICK N \in Nat : DOMAIN d.links \subseteq 1 .. N BY DEF LinksOK
<1>2. DOMAIN d.links \cup {0} \in SUBSET Nat /\ DOMAIN d.links \cup {0} \subseteq 0 .. N BY <1>1
<1>3. \E n \in DOMAIN d.links \cup {0} : \A m \in DOMAIN d.links \cup {0} : m <= n
  BY <1>1, <1>2, Greatest
<1>4. \A m \in DOMAIN d.links : m <= TailSeq(d) BY <1>3 DEF TailSeq
<1>5. QED BY <1>4, TailIsGreatest

\* A file that verifies with a row and link more did so without: the new link would be reported
\* as a duplicate if an older one named its row already, as one does when a row was deleted and
\* its id given to the new one.
LEMMA WriteMendsNothing ==
    ASSUME NEW d, LinksOK(d.links), TypedFile(d), NEW r \in Refs \ DOMAIN d.rows, NEW c,
           Intact(PutLinked(d, r, c))
    PROVE  Intact(d)
<1> DEFINE e == PutLinked(d, r, c)
           n == TailSeq(d)
<1>1. r = <<r[1], r[2]>> /\ r[1] \in RowKinds BY DEF Refs
<1>2. PICK link : /\ e.links = PutLink(d.links, n + 1, link)
                  /\ link.kind = r[1] /\ link.ref = r[2]
  <2>1. r \in Refs OBVIOUS
  <2>2. QED BY <2>1, PutLinkedEnds
<1>3. e.rows = [q \in DOMAIN d.rows \cup {r} |-> IF q = r THEN c ELSE d.rows[q]]
  BY PutFields
<1>4. n \in Nat /\ \A m \in DOMAIN d.links : m \in Nat /\ m <= n
  <2>1. \A m \in DOMAIN d.links : m \in Nat BY DEF LinksOK
  <2>2. QED BY <2>1, NoneAfterTail
<1>5. Intact(e) OBVIOUS
<1> HIDE DEF e, n
<1>6. /\ DOMAIN e.links = DOMAIN d.links \cup {n + 1} /\ e.links[n + 1] = link
      /\ \A t \in DOMAIN d.links : e.links[t] = d.links[t]
  <2>1. n + 1 \notin DOMAIN d.links BY <1>4
  <2>2. QED BY <1>2, <2>1 DEF PutLink
<1>7. TailSeq(e) = n + 1
  <2>1. \A m \in DOMAIN e.links \cup {0} : (\A k \in DOMAIN e.links : k <= m) <=> m = n + 1
    BY <1>4, <1>6
  <2>2. n + 1 \in DOMAIN e.links \cup {0} BY <1>6
  <2>3. QED BY <2>1, <2>2 DEF TailSeq
<1>8. \A s \in 1 .. n + 1 : BreakAt(e, s) = "none" BY <1>5, <1>7 DEF Intact, ChainSound
<1>9. \A t \in 1 .. n : t \in DOMAIN d.links /\ t \in DOMAIN e.links
  <2>1. BreakAt(e, n + 1) = "none" BY <1>4, <1>8
  <2>2. Present(e, n + 1) BY <2>1 DEF BreakAt
  <2>3. QED BY <2>2, <1>4, <1>6 DEF Present
<1>10. \A t \in 1 .. n : <<d.links[t].kind, d.links[t].ref>> # r
  <2> SUFFICES ASSUME NEW t \in 1 .. n, <<d.links[t].kind, d.links[t].ref>> = r PROVE FALSE
    OBVIOUS
  <2>1. d.links[t].kind = r[1] /\ d.links[t].ref = r[2] BY <1>1
  <2>2. e.links[t] = d.links[t] /\ t \in 1 .. (n + 1) - 1 BY <1>4, <1>6, <1>9
  <2>3. Seen(e, n + 1) BY <1>2, <1>6, <2>1, <2>2 DEF Seen
  <2>4. e.links[n + 1].kind # "note" BY <1>1, <1>2, <1>6 DEF RowKinds
  <2>5. BreakAt(e, n + 1) = "none" BY <1>4, <1>8
  <2>6. QED BY <2>3, <2>4, <2>5 DEF BreakAt
<1>11. ASSUME NEW s \in 1 .. n PROVE BreakAt(d, s) = "none"
  <2>1. BreakAt(e, s) = "none" BY <1>4, <1>8
  <2>2. Present(d, s) /\ Present(e, s) BY <1>4, <1>9 DEF Present
  <2>3. e.links[s] = d.links[s] /\ \A t \in 1 .. (s - 1) : e.links[t] = d.links[t]
    BY <1>4, <1>6, <1>9
  <2>4. PrevHash(e, s) = PrevHash(d, s)
    <3>1. s # 1 => s - 1 \in 1 .. (s - 1) BY <1>4
    <3>2. QED BY <2>3, <3>1 DEF PrevHash
  <2>5. Seen(e, s) <=> Seen(d, s) BY <2>3 DEF Seen
  <2>6. RowContent(e, d.links[s].kind, d.links[s].ref)
          = RowContent(d, d.links[s].kind, d.links[s].ref)
    BY <1>3, <1>10 DEF RowContent
  <2>7. ContentBreak(e, s) = ContentBreak(d, s) BY <2>3, <2>6 DEF ContentBreak
  <2>8. (\E t \in 1 .. (s - 1) : e.links[t].kind = "note")
          <=> (\E t \in 1 .. (s - 1) : d.links[t].kind = "note")
    BY <2>3
  <2>9. BreakAt(e, s) = BreakAt(d, s)
    BY <2>2, <2>3, <2>4, <2>5, <2>7, <2>8 DEF BreakAt
  <2>10. QED BY <2>1, <2>9
<1>12. ChainSound(d) BY <1>11 DEF ChainSound, n
<1>13. ~Unjournaled(d)
  <2> SUFFICES ASSUME NEW q \in DOMAIN d.rows PROVE Linked(d, q[1], q[2])
    BY DEF Unjournaled
  <2>1. q \in DOMAIN e.rows /\ q # r /\ q = <<q[1], q[2]>>
    BY <1>3 DEF TypedFile, Refs
  <2>2. Linked(e, q[1], q[2]) BY <1>5, <2>1 DEF Intact, Unjournaled
  <2>3. PICK t \in DOMAIN e.links : e.links[t].kind = q[1] /\ e.links[t].ref = q[2]
    BY <2>2 DEF Linked
  <2>4. t # n + 1 BY <1>1, <1>2, <1>6, <2>1, <2>3
  <2>5. t \in DOMAIN d.links /\ e.links[t] = d.links[t] BY <1>6, <2>4
  <2>6. QED BY <2>3, <2>5 DEF Linked
<1>14. QED BY <1>12, <1>13 DEF Intact

\* Files with the rows and the last id of a typed one are typed.
LEMMA SameRowsTyped ==
    ASSUME NEW d, NEW e, TypedFile(d), DOMAIN e.rows = DOMAIN d.rows, e.last = d.last
    PROVE  TypedFile(e)
BY DEF TypedFile

\* A row more keeps the types, ...
LEMMA PutTyped ==
    ASSUME NEW d, TypedFile(d), NEW r \in Refs, NEW c
    PROVE  TypedFile(Put(d, r, c)) /\ TypedFile(PutLinked(d, r, c))
<1>0. Put(d, r, c).rows = [q \in DOMAIN d.rows \cup {r} |-> IF q = r THEN c ELSE d.rows[q]]
  BY PutFields
<1> DEFINE e == Put(d, r, c)
<1>1. PutLinked(d, r, c).rows = e.rows /\ PutLinked(d, r, c).last = e.last
  BY FileFields DEF PutLinked, AppendRow, WithLinks
<1>2. Put(d, r, c).last = IF r[1] = "entry" /\ d.last < r[2] THEN r[2] ELSE d.last
  BY FileFields DEF Put, PutRow
<1>3. r[2] \in 1 .. MaxId BY DEF Refs, Ids
<1>4. Put(d, r, c).last \in 0 .. MaxId BY <1>2, <1>3, BoundsAssumption DEF TypedFile
<1>5. DOMAIN Put(d, r, c).rows \subseteq Refs BY <1>0 DEF TypedFile
<1> HIDE DEF e
<1>6. TypedFile(e) BY <1>4, <1>5 DEF TypedFile, e
<1>7. QED BY <1>1, <1>6 DEF TypedFile, e

\* ... and so does a link.
LEMMA LinksTyped ==
    ASSUME NEW d, TypedFile(d)
    PROVE  /\ \A links : TypedFile(WithLinks(d, links))
           /\ \A kind, ref : TypedFile(AppendRow(d, kind, ref))
           /\ TypedFile(Started(d)) /\ TypedFile(Versioned(d))
<1>1. ASSUME NEW links PROVE TypedFile(WithLinks(d, links))
  BY FileFields, SameRowsTyped DEF WithLinks
<1>2. ASSUME NEW kind, NEW ref PROVE TypedFile(AppendRow(d, kind, ref))
  BY <1>1 DEF AppendRow
<1>3. TypedFile(Started(d)) BY <1>1 DEF Started, AppendNote
<1>4. TypedFile(Versioned(d)) BY FileFields, SameRowsTyped DEF Versioned
<1>5. QED BY <1>1, <1>2, <1>3, <1>4

\* Every store starts so.
LEMMA WriterInit == ASSUME EditedInit PROVE WriterInv
<1>1. \E old \in SUBSET (RowKinds \X LegacyIds) : \E rows \in [old -> Legacy] :
        db = File(rows, EmptyFunction, HighestId(rows, "entry"), 0)
  BY DEF EditedInit, Init
<1>2. PICK old \in SUBSET (RowKinds \X LegacyIds) : \E rows \in [old -> Legacy] :
        db = File(rows, EmptyFunction, HighestId(rows, "entry"), 0)
  BY <1>1
<1>3. PICK rows \in [old -> Legacy] :
        db = File(rows, EmptyFunction, HighestId(rows, "entry"), 0)
  BY <1>2
<1>4. DOMAIN rows \subseteq Refs BY LegacyAssumption DEF Refs
<1>5. TypedFile(db) BY <1>3, <1>4, FileFields, HighestIdFacts DEF TypedFile
<1>6. holder = Nobody /\ work = db /\ stage = [p \in Processes |-> "closed"]
  BY DEF EditedInit, Init
<1>7. stage \in [Processes -> Stages] BY <1>6 DEF Stages
<1>8. QED BY <1>5, <1>6, <1>7 DEF WriterInv, InTurn

\* A step that leaves the transaction alone moves a process that has none.
LEMMA OthersMove ==
    ASSUME WriterInv, NEW p \in Processes, NEW to \in Stages, Move(p, to),
           UNCHANGED <<db, holder, work, todo>>, holder # p
    PROVE  WriterInv'
<1>1. stage' \in [Processes -> Stages] /\ \A q \in Processes : q # p => stage'[q] = stage[q]
  BY DEF WriterInv, Move
<1>2. holder # Nobody => stage'[holder] = stage[holder] BY <1>1 DEF WriterInv
<1>3. InTurn' BY <1>2 DEF WriterInv, InTurn
<1>4. QED BY <1>1, <1>3 DEF WriterInv, TypedFile

\* A step that lets go of the lock leaves nothing to say of a transaction.
LEMMA LockReleased ==
    ASSUME WriterInv, NEW p \in Processes, NEW to \in Stages, Move(p, to), holder' = Nobody,
           TypedFile(db'), TypedFile(work')
    PROVE  WriterInv'
<1>1. stage' \in [Processes -> Stages] BY DEF WriterInv, Move
<1>2. InTurn' BY DEF InTurn
<1>3. QED BY <1>1, <1>2 DEF WriterInv, TypedFile

\* A step that takes the lock begins a transaction of its stage.
LEMMA LockTaken ==
    ASSUME WriterInv, NEW p \in Processes, NEW to \in {"migrating", "writing"}, Move(p, to),
           holder' = p, UNCHANGED db, TypedFile(work'),
           to = "migrating" => ~Journaled(db),
           to = "writing" => Writing(db, todo', work')
    PROVE  WriterInv'
<1>1. stage' \in [Processes -> Stages] /\ stage'[p] = to BY DEF WriterInv, Move, Stages
<1>2. InTurn' BY <1>1 DEF InTurn, Journaled
<1>3. QED BY <1>1, <1>2 DEF WriterInv, TypedFile

\* What stores do keeps the invariant.
LEMMA StoreKeepsWriter ==
    ASSUME WriterInv, NEW p \in Processes, StoreStep(p)
    PROVE  WriterInv'
<1>0. TypedFile(db) /\ TypedFile(work) BY DEF WriterInv
<1>1. CASE Open(p)
  <2>1. stage[p] \in {"closed", "failed"} /\ UNCHANGED <<db, holder, work, todo>>
    BY <1>1 DEF Open, txVars
  <2>2. Move(p, "open") \/ Move(p, "begin") BY <1>1 DEF Open
  <2>3. holder # p BY <2>1, ProcessesAssumption DEF WriterInv, InTurn
  <2>4. QED BY <2>1, <2>2, <2>3, OthersMove DEF Stages
<1>2. CASE BeginMigrate(p)
  <2>1. holder = Nobody /\ UNCHANGED db BY <1>2 DEF BeginMigrate
  <2>2. CASE Journaled(db)
    <3>1. Move(p, "open") /\ UNCHANGED <<db, holder, work, todo>>
      BY <1>2, <2>1, <2>2 DEF BeginMigrate, txVars
    <3>2. holder # p BY <2>1, ProcessesAssumption
    <3>3. QED BY <3>1, <3>2, OthersMove DEF Stages
  <2>3. CASE ~Journaled(db)
    <3>1. Move(p, "migrating") /\ holder' = p /\ work' = Started(db)
      BY <1>2, <2>3 DEF BeginMigrate, Begins
    <3>2. TypedFile(work') BY <1>0, <3>1, LinksTyped
    <3>3. QED BY <2>1, <2>3, <3>1, <3>2, LockTaken
  <2>4. QED BY <2>2, <2>3
<1>3. CASE OpenBusy(p)
  <2>1. stage[p] = "begin" /\ Move(p, "closed") /\ UNCHANGED <<db, holder, work, todo>>
    BY <1>3 DEF OpenBusy, txVars
  <2>2. holder # p BY <2>1, ProcessesAssumption DEF WriterInv, InTurn
  <2>3. QED BY <2>1, <2>2, OthersMove DEF Stages
<1>4. ASSUME NEW kind \in RowKinds, NEW c \in Contents, Write(p, kind, c) PROVE WriterInv'
  <2> DEFINE id == NewId(db, kind)
             r == <<kind, id>>
  <2>1. /\ id <= MaxId /\ Move(p, "writing") /\ UNCHANGED db
        /\ holder' = p /\ work' = PutRow(db, kind, id, c) /\ todo' = {r}
    BY <1>4 DEF Write, Begins
  <2>2. id \in Nat \ {0} /\ r \notin DOMAIN db.rows
    BY <1>0, NewIdFacts DEF TypedFile
  <2>3. r \in Refs
    <3>1. id \in Ids BY <2>1, <2>2, BoundsAssumption DEF Ids
    <3>2. QED BY <3>1 DEF Refs
  <2>4. work' = Put(db, r, c) BY <2>1 DEF Put
  <2> HIDE DEF r, id
  <2>5. TypedFile(work') BY <1>0, <2>3, <2>4, PutTyped
  <2>6. Writing(db, todo', work') BY <2>1, <2>2, <2>3, <2>4 DEF Writing
  <2>7. QED BY <2>1, <2>5, <2>6, LockTaken
<1>5. CASE LinkNext(p)
  <2> DEFINE next == NextRow(todo)
  <2>1. /\ holder = p /\ UNCHANGED <<db, holder, stage>>
        /\ work' = AppendRow(work, next[1], next[2]) /\ todo' = todo \ {next} /\ todo # {}
    BY <1>5 DEF LinkNext
  <2> HIDE DEF next
  <2>2. TypedFile(work') BY <1>0, <2>1, LinksTyped
  <2>3. ASSUME stage[p] = "writing" PROVE Writing(db, todo', work')
    <3>1. Writing(db, todo, work)
      BY <2>1, <2>3, ProcessesAssumption DEF WriterInv, InTurn
    <3>2. PICK r \in Refs \ DOMAIN db.rows, c \in Contents :
            todo = {r} /\ work = Put(db, r, c)
      BY <2>1, <3>1 DEF Writing
    <3>3. next = r
      <4>1. next \in todo BY <3>2, NextRowFacts DEF next
      <4>2. QED BY <3>2, <4>1
    <3>4. todo' = {} /\ work' = PutLinked(db, r, c) BY <2>1, <3>2, <3>3 DEF PutLinked
    <3>5. QED BY <3>4 DEF Writing
  <2>4. InTurn'
    <3>1. stage[p] \in {"migrating", "writing"} /\ (stage[p] = "migrating" => ~Journaled(db))
      BY <2>1, ProcessesAssumption DEF WriterInv, InTurn
    <3>2. QED BY <2>1, <2>3, <3>1 DEF InTurn, Journaled
  <2>5. QED BY <2>1, <2>2, <2>4 DEF WriterInv, TypedFile
<1>6. CASE LinkFails(p)
  <2>1. holder' = Nobody /\ work' = db /\ db' = db BY <1>6 DEF LinkFails, Releases
  <2>2. Move(p, "failed") \/ Move(p, "open") BY <1>6 DEF LinkFails
  <2>3. QED BY <1>0, <2>1, <2>2, LockReleased DEF Stages
<1>7. CASE Commit(p)
  <2>1. /\ holder' = Nobody /\ work' = db' /\ Move(p, "open")
        /\ db' = Versioned(work) \/ db' = work
    BY <1>7 DEF Commit, Releases
  <2>2. TypedFile(db') BY <1>0, <2>1, LinksTyped
  <2>3. QED BY <2>1, <2>2, LockReleased DEF Stages
<1>8. CASE Stop(p)
  <2>1. Move(p, "closed") /\ db' = db BY <1>8 DEF Stop
  <2>2. CASE holder = p
    <3>1. holder' = Nobody /\ work' = db BY <1>8, <2>2 DEF Stop, Releases
    <3>2. QED BY <1>0, <2>1, <3>1, LockReleased DEF Stages
  <2>3. CASE holder # p
    <3>1. UNCHANGED <<db, holder, work, todo>> BY <1>8, <2>1, <2>3 DEF Stop, txVars
    <3>2. QED BY <2>1, <2>3, <3>1, OthersMove DEF Stages
  <2>4. QED BY <2>2, <2>3
<1>9. QED BY <1>1, <1>2, <1>3, <1>4, <1>5, <1>6, <1>7, <1>8 DEF StoreStep

\* An edit is made while nobody holds the lock, and keeps the types.
LEMMA EditKeepsWriter ==
    ASSUME WriterInv, FileEdit
    PROVE  WriterInv'
<1>1. TypedFile(db) BY DEF WriterInv
<1>2. ASSUME NEW r \in Refs, NEW c \in Contents \cup {Garbled}, EditRow(r, c) \/ AddRow(r, c)
      PROVE  TypedFile(db')
  <2>1. CASE EditRow(r, c)
    <3>1. db' = WithRows(db, [db.rows EXCEPT ![r] = c]) BY <2>1 DEF EditRow
    <3>2. QED BY <1>1, <3>1, FileFields, SameRowsTyped DEF WithRows
  <2>2. CASE AddRow(r, c)
    <3>1. db' = Put(db, r, c) BY <2>2 DEF AddRow, Put
    <3>2. QED BY <1>1, <3>1, PutTyped
  <2>3. QED BY <1>2, <2>1, <2>2
<1>3. ASSUME NEW r \in Refs, DropRow(r) PROVE TypedFile(db')
  <2>1. db' = WithRows(db, Only(db.rows, DOMAIN db.rows \ {r})) BY <1>3 DEF DropRow
  <2>2. db'.rows = Only(db.rows, DOMAIN db.rows \ {r}) /\ db'.last = db.last
    BY <2>1, FileFields DEF WithRows
  <2>3. QED BY <1>1, <2>2 DEF TypedFile, Only
<1>4. ASSUME EditChain PROVE TypedFile(db')
  <2>0. ASSUME NEW links, db' = WithLinks(db, links) PROVE TypedFile(db')
    BY <1>1, <2>0, LinksTyped
  <2>1. ASSUME NEW s \in DOMAIN db.links, CutTail(s) PROVE TypedFile(db')
    <3>1. DOMAIN db'.rows \subseteq DOMAIN db.rows /\ db'.last = db.last
      BY <2>1, FileFields DEF CutTail, Only
    <3>2. QED BY <1>1, <3>1 DEF TypedFile
  <2>2. ASSUME NEW s \in DOMAIN db.links, EditLink(s) \/ DropLink(s) PROVE TypedFile(db')
    BY <2>2, <2>0, Zenon DEF EditLink, DropLink
  <2>3. ASSUME NEW s \in 1 .. TailSeq(db) + 1, InsertLink(s) PROVE TypedFile(db')
    BY <2>3, <2>0, Zenon DEF InsertLink
  <2>4. ASSUME NEW s \in DOMAIN db.links, NEW t \in DOMAIN db.links, SwapLinks(s, t)
        PROVE  TypedFile(db')
    BY <2>4, <2>0, Zenon DEF SwapLinks
  <2>5. CASE Wipe BY <2>5, <2>0, Zenon DEF Wipe
  <2>6. CASE Rechain
    <3>1. db' = WithLinks(db, Rechained(db)) BY <2>6 DEF Rechain
    <3>2. PICK links : links = Rechained(db) OBVIOUS
    <3>3. QED BY <2>0, <3>1, <3>2
  <2>7. QED BY <1>4, <2>1, <2>2, <2>3, <2>4, <2>5, <2>6, Zenon DEF EditChain
<1>5. TypedFile(db') BY <1>2, <1>3, <1>4, Zenon DEF FileEdit
<1>6. work' = db' /\ holder' = Nobody /\ stage' = stage BY DEF FileEdit
<1>7. InTurn' BY <1>6 DEF InTurn
<1>8. QED BY <1>5, <1>6, <1>7 DEF WriterInv, TypedFile

\* So it holds of every state of every behaviour, edits included.
THEOREM WriterInductive == EditedSpec => []WriterInv
<1>1. EditedInit => WriterInv BY WriterInit
<1>2. WriterInv /\ [EditedNext]_editedVars => WriterInv'
  <2> SUFFICES ASSUME WriterInv, [EditedNext]_editedVars PROVE WriterInv' OBVIOUS
  <2>1. CASE Next /\ UNCHANGED <<edits, noted>> BY <2>1, StoreKeepsWriter DEF Next
  <2>2. ASSUME UNCHANGED vars PROVE WriterInv'
    <3>1. UNCHANGED <<db, holder, work, todo, stage>> BY <2>2 DEF vars, txVars
    <3>2. InTurn' BY <3>1 DEF WriterInv, InTurn, Journaled
    <3>3. QED BY <3>1, <3>2 DEF WriterInv, TypedFile
  <2>3. CASE NoteHead BY <2>2, <2>3 DEF NoteHead
  <2>4. CASE FileEdit BY <2>4, EditKeepsWriter
  <2>5. CASE UNCHANGED editedVars BY <2>2, <2>5 DEF editedVars
  <2>6. QED BY <2>1, <2>3, <2>4, <2>5 DEF EditedNext
<1>3. QED BY <1>1, <1>2, PTL DEF EditedSpec

\* Only a commit changes the file with no edit made; of a file with a journal it is a write's,
\* and what a write adds mends nothing.
LEMMA StoreMendsNothing ==
    ASSUME HeadInv, WriterInv, NEW p \in Processes, StoreStep(p), db.version = 1, ~Intact(db)
    PROVE  ~Intact(db')
<1>1. CASE Commit(p)
  <2>1. /\ holder = p /\ todo = {}
        /\ db' = IF stage[p] = "migrating" THEN Versioned(work) ELSE work
    BY <1>1 DEF Commit
  <2>2. stage[p] = "writing" /\ Writing(db, todo, work)
    BY <2>1, ProcessesAssumption DEF WriterInv, InTurn, Journaled
  <2>3. PICK r \in Refs \ DOMAIN db.rows, c \in Contents : work = PutLinked(db, r, c)
    BY <2>1, <2>2 DEF Writing
  <2>4. db' = PutLinked(db, r, c) BY <2>1, <2>2, <2>3
  <2>5. QED BY <2>4, WriteMendsNothing DEF HeadInv, WriterInv
<1>2. CASE ~Commit(p)
  <2>1. db' = db
    BY <1>2 DEF StoreStep, Open, BeginMigrate, OpenBusy, Write, LinkNext, LinkFails, Stop
  <2>2. QED BY <2>1
<1>3. QED BY <1>1, <1>2

\* A broken journal stays broken as long as nobody edits the file: nothing a store writes or
\* migrates makes it verify again.
THEOREM BreakStaysHolds == EditedSpec => BreakStays
<1> DEFINE Stays == edits' = edits /\ db.version = 1 /\ ~Intact(db) => ~Intact(db')
<1> DEFINE IsCount == edits \in Nat
<1>1. EditedSpec => []IsCount
  <2>1. EditedInit => IsCount BY DEF EditedInit
  <2>2. IsCount /\ [EditedNext]_editedVars => IsCount'
    BY DEF EditedNext, NoteHead, FileEdit, editedVars
  <2>3. QED BY <2>1, <2>2, PTL DEF EditedSpec
<1>2. IsCount /\ HeadInv /\ WriterInv /\ [EditedNext]_editedVars => [Stays]_editedVars
  <2> SUFFICES ASSUME edits \in Nat, HeadInv, WriterInv, EditedNext, edits' = edits,
                      db.version = 1, ~Intact(db)
               PROVE  ~Intact(db')
    OBVIOUS
  <2>1. CASE Next BY <2>1, StoreMendsNothing DEF Next
  <2>2. CASE NoteHead
    <3>1. db' = db BY <2>2 DEF NoteHead, vars
    <3>2. QED BY <3>1
  <2>3. CASE FileEdit
    <3>1. edits' = edits + 1 BY <2>3 DEF FileEdit
    <3>2. QED BY <3>1
  <2>4. QED BY <2>1, <2>2, <2>3 DEF EditedNext
<1>3. QED BY <1>1, <1>2, HeadInductive, WriterInductive, PTL DEF EditedSpec, BreakStays

-----------------------------------------------------------------------------
(* What an edit of an intact journal is reported as: the walk finds nothing *)
(* before the first link the edit touched, and something there or one on.   *)

\* The links of an intact journal are numbered without a gap, and none is broken.
LEMMA IntactLinks ==
    ASSUME NEW d, LinksOK(d.links), Intact(d)
    PROVE  /\ TailSeq(d) \in Nat
           /\ DOMAIN d.links = 1 .. TailSeq(d)
           /\ \A s \in 1 .. TailSeq(d) : BreakAt(d, s) = "none"
<1>1. TailSeq(d) \in Nat /\ \A m \in DOMAIN d.links : m <= TailSeq(d) BY NoneAfterTail
<1>2. \A s \in 1 .. TailSeq(d) : BreakAt(d, s) = "none" BY DEF Intact, ChainSound
<1>3. \A s \in 1 .. TailSeq(d) : s \in DOMAIN d.links BY <1>2, SoundLink
<1>4. \A m \in DOMAIN d.links : m \in Nat \ {0} BY DEF LinksOK
<1> DEFINE n == TailSeq(d)
           D == DOMAIN d.links
<1>5. n \in Nat /\ (\A m \in D : m \in Nat \ {0} /\ m <= n) /\ \A s \in 1 .. n : s \in D
  BY <1>1, <1>3, <1>4
<1> HIDE DEF n, D
<1>6. D = 1 .. n
  <2>1. D \subseteq 1 .. n BY <1>5
  <2>2. 1 .. n \subseteq D BY <1>5
  <2>3. QED BY <2>1, <2>2
<1>7. QED BY <1>2, <1>5, <1>6 DEF n, D

\* A row is named by one of its links, and there is one note.
LEMMA IntactNames ==
    ASSUME NEW d, LinksOK(d.links), Intact(d),
           NEW s \in 1 .. TailSeq(d), NEW t \in 1 .. TailSeq(d),
           \/ d.links[s].kind = "note" /\ d.links[t].kind = "note"
           \/ /\ d.links[s].kind = d.links[t].kind /\ d.links[s].ref = d.links[t].ref
    PROVE  s = t
<1>1. ASSUME NEW m \in 1 .. TailSeq(d), NEW n \in 1 .. TailSeq(d), m < n,
             \/ d.links[m].kind = "note" /\ d.links[n].kind = "note"
             \/ /\ d.links[m].kind = d.links[n].kind /\ d.links[m].ref = d.links[n].ref
      PROVE  FALSE
  <2>1. BreakAt(d, n) = "none" /\ TailSeq(d) \in Nat BY IntactLinks
  <2>2. m \in 1 .. (n - 1) BY <1>1, <2>1
  <2>3. CASE d.links[n].kind = "note"
    <3>1. d.links[m].kind = "note" BY <1>1, <2>3
    <3>2. QED BY <2>1, <2>2, <2>3, <3>1 DEF BreakAt
  <2>4. CASE d.links[n].kind # "note"
    <3>1. Seen(d, n) BY <1>1, <2>2, <2>4 DEF Seen
    <3>2. QED BY <2>1, <2>4, <3>1 DEF BreakAt
  <2>5. QED BY <2>3, <2>4
<1>2. TailSeq(d) \in Nat BY IntactLinks
<1>3. s < t \/ t < s \/ s = t BY <1>2
<1>4. QED BY <1>1, <1>3

\* Of links that are as they were, only what they refer to can be found changed.
LEMMA SameLinks ==
    ASSUME NEW old, NEW new, NEW s \in Nat \ {0}, BreakAt(old, s) = "none",
           \A t \in 1 .. s : t \in DOMAIN new.links /\ new.links[t] = old.links[t]
    PROVE  BreakAt(new, s) = ContentBreak(new, s)
<1>1. Present(old, s) BY DEF BreakAt
<1>2. Present(new, s) BY DEF Present
<1>3. new.links[s] = old.links[s] /\ \A t \in 1 .. (s - 1) : new.links[t] = old.links[t]
  OBVIOUS
<1>4. PrevHash(new, s) = PrevHash(old, s)
  <2>1. s # 1 => s - 1 \in 1 .. (s - 1) OBVIOUS
  <2>2. QED BY <1>3, <2>1 DEF PrevHash
<1>5. Seen(new, s) <=> Seen(old, s) BY <1>3 DEF Seen
<1>6. (\E t \in 1 .. (s - 1) : new.links[t].kind = "note")
        <=> (\E t \in 1 .. (s - 1) : old.links[t].kind = "note")
  BY <1>3
<1>7. QED BY <1>1, <1>2, <1>3, <1>4, <1>5, <1>6 DEF BreakAt

\* Links untouched up to one leave nothing to find at it.
LEMMA UntouchedIsSound ==
    ASSUME NEW old, NEW new, NEW s \in Nat \ {0}, BreakAt(old, s) = "none",
           \A t \in 1 .. s : Untouched(old, new, t)
    PROVE  BreakAt(new, s) = "none"
<1>1. \A t \in 1 .. s : t \in DOMAIN new.links /\ new.links[t] = old.links[t]
  BY DEF Untouched, Unchanged
<1>2. BreakAt(new, s) = ContentBreak(new, s) BY <1>1, SameLinks
<1>3. s \in 1 .. s OBVIOUS
<1>4. ContentBreak(new, s) = ContentBreak(old, s)
  BY <1>1, <1>3 DEF Untouched, Unchanged, ContentBreak
<1>5. ContentBreak(old, s) = "none" BY DEF BreakAt
<1>6. QED BY <1>2, <1>4, <1>5

\* The first place touched is there: the one past the end if no link is.
LEMMA TouchedFacts ==
    ASSUME NEW old, NEW new, LinksOK(old.links)
    PROVE  /\ Touched(old, new) \in 1 .. TailSeq(old) + 1
           /\ ~Untouched(old, new, Touched(old, new))
           /\ \A m \in 1 .. (Touched(old, new) - 1) : Untouched(old, new, m)
<1> DEFINE Bad == {s \in 1 .. TailSeq(old) + 1 : ~Untouched(old, new, s)}
<1>1. TailSeq(old) \in Nat /\ \A m \in DOMAIN old.links : m <= TailSeq(old)
  BY NoneAfterTail
<1>2. TailSeq(old) + 1 \in Bad BY <1>1 DEF Untouched
<1>3. Bad \in SUBSET Nat BY <1>1
<1>4. PICK s \in Bad : \A m \in Bad : s <= m BY <1>2, <1>3, Least
<1>5. /\ s \in 1 .. TailSeq(old) + 1 /\ ~Untouched(old, new, s)
      /\ \A m \in 1 .. (s - 1) : Untouched(old, new, m)
  BY <1>1, <1>4
<1>6. QED BY <1>5 DEF Touched

\* The break reported is the first of the walk, ...
LEMMA FirstBreakIs ==
    ASSUME NEW d, TailSeq(d) \in Nat, NEW n \in 1 .. TailSeq(d), BreakAt(d, n) # "none",
           \A m \in 1 .. (n - 1) : BreakAt(d, m) = "none"
    PROVE  FirstBreak(d) = [seq |-> n, kind |-> BreakAt(d, n)] /\ ~Intact(d)
<1>1. ~ChainSound(d) BY DEF ChainSound
<1> DEFINE First(m) == BreakAt(d, m) # "none" /\ \A k \in 1 .. (m - 1) : BreakAt(d, k) = "none"
<1>2. \A m \in 1 .. TailSeq(d) : First(m) <=> m = n
  <2> SUFFICES ASSUME NEW m \in 1 .. TailSeq(d), First(m), m # n PROVE FALSE OBVIOUS
  <2>1. m < n \/ n < m OBVIOUS
  <2>2. QED BY <2>1
<1>3. (CHOOSE m \in 1 .. TailSeq(d) : First(m)) = n
  <2> HIDE DEF First
  <2>1. QED BY <1>2
<1>4. QED BY <1>1, <1>3 DEF FirstBreak, Intact

\* ... which is there when one is broken, ...
LEMMA FirstBreakBefore ==
    ASSUME NEW d, TailSeq(d) \in Nat, NEW b \in 1 .. TailSeq(d), BreakAt(d, b) # "none"
    PROVE  \E n \in 1 .. b : /\ BreakAt(d, n) # "none"
                             /\ \A m \in 1 .. (n - 1) : BreakAt(d, m) = "none"
<1> DEFINE Broken == {n \in 1 .. TailSeq(d) : BreakAt(d, n) # "none"}
<1>1. b \in Broken /\ Broken \in SUBSET Nat OBVIOUS
<1>2. PICK n \in Broken : \A m \in Broken : n <= m BY <1>1, Least
<1>3. n \in 1 .. b BY <1>1, <1>2
<1>4. \A m \in 1 .. (n - 1) : BreakAt(d, m) = "none" BY <1>2
<1>5. QED BY <1>2, <1>3, <1>4

\* ... or a row no link names, past the end.
LEMMA UnjournaledIs ==
    ASSUME NEW d, ChainSound(d), Unjournaled(d)
    PROVE  FirstBreak(d) = [seq |-> TailSeq(d) + 1, kind |-> "unjournaled"] /\ ~Intact(d)
BY DEF FirstBreak, Intact

Reported(old, new) ==
    ~Intact(new) /\ FirstBreak(new).seq \in {Touched(old, new), Touched(old, new) + 1}

\* An edit that touches nothing before s, and breaks s or the link after it, is reported so.
LEMMA BreakNearIsReported ==
    ASSUME NEW old, NEW new, LinksOK(old.links), LinksOK(new.links), Intact(old),
           NEW s \in 1 .. TailSeq(old) + 1, \A m \in 1 .. (s - 1) : Untouched(old, new, m),
           \/ \E b \in {s, s + 1} : b \in 1 .. TailSeq(new) /\ BreakAt(new, b) # "none"
           \/ ChainSound(new) /\ Unjournaled(new) /\ TailSeq(new) + 1 \in {s, s + 1}
    PROVE  Reported(old, new)
<1> DEFINE t == Touched(old, new)
<1>1. /\ t \in 1 .. TailSeq(old) + 1 /\ ~Untouched(old, new, t)
      /\ \A m \in 1 .. (t - 1) : Untouched(old, new, m)
  BY TouchedFacts
<1>2. TailSeq(old) \in Nat /\ \A m \in 1 .. TailSeq(old) : BreakAt(old, m) = "none"
  BY IntactLinks
<1>3. TailSeq(new) \in Nat /\ \A m \in DOMAIN new.links : m <= TailSeq(new)
  BY NoneAfterTail
<1> HIDE DEF t
<1>4. s <= t BY <1>1, <1>2
<1>5. CASE \E b \in {s, s + 1} : b \in 1 .. TailSeq(new) /\ BreakAt(new, b) # "none"
  <2>1. PICK b \in {s, s + 1} : b \in 1 .. TailSeq(new) /\ BreakAt(new, b) # "none" BY <1>5
  <2>2. PICK n \in 1 .. b : /\ BreakAt(new, n) # "none"
                            /\ \A m \in 1 .. (n - 1) : BreakAt(new, m) = "none"
    BY <1>3, <2>1, FirstBreakBefore
  <2>3. n \in 1 .. TailSeq(new) BY <1>3, <2>1, <2>2
  <2>4. FirstBreak(new).seq = n /\ ~Intact(new) BY <1>3, <2>2, <2>3, FirstBreakIs
  <2>5. t <= n
    <3> SUFFICES ASSUME n < t PROVE FALSE BY <1>1, <1>2, <2>2, <2>3
    <3>1. n \in 1 .. TailSeq(old) /\ n \in Nat \ {0} BY <1>1, <1>2, <2>3
    <3>2. \A m \in 1 .. n : Untouched(old, new, m) BY <1>1, <1>2, <3>1
    <3>3. BreakAt(new, n) = "none" BY <1>2, <3>1, <3>2, UntouchedIsSound
    <3>4. QED BY <2>2, <3>3
  <2>6. n = t \/ n = t + 1 BY <1>1, <1>2, <1>4, <2>1, <2>2, <2>5
  <2>7. QED BY <2>4, <2>6 DEF Reported, t
<1>6. CASE ChainSound(new) /\ Unjournaled(new) /\ TailSeq(new) + 1 \in {s, s + 1}
  <2> DEFINE n == TailSeq(new) + 1
  <2>1. FirstBreak(new).seq = n /\ ~Intact(new) BY <1>6, UnjournaledIs
  <2>2. t <= n
    <3> SUFFICES ASSUME n < t PROVE FALSE BY <1>1, <1>2, <1>3
    <3>1. Untouched(old, new, n) BY <1>1, <1>2, <1>3
    <3>2. QED BY <1>3, <3>1 DEF Untouched, Unchanged
  <2>3. n = t \/ n = t + 1 BY <1>1, <1>2, <1>3, <1>4, <1>6, <2>2
  <2>4. QED BY <2>1, <2>3 DEF Reported, t
<1>7. QED BY <1>5, <1>6

\* A link with no break refers to a row that is there, unless it is a note.
LEMMA SoundNames ==
    ASSUME NEW d, NEW s \in Nat \ {0}, BreakAt(d, s) = "none", d.links[s].kind # "note"
    PROVE  /\ <<d.links[s].kind, d.links[s].ref>> \in DOMAIN d.rows
           /\ d.links[s].kind \in RowKinds
<1>1. ContentBreak(d, s) = "none" /\ d.links[s].kind \in KINDS BY DEF BreakAt
<1>2. RowContent(d, d.links[s].kind, d.links[s].ref) # NoRow BY <1>1 DEF ContentBreak
<1>3. QED BY <1>1, <1>2 DEF RowContent, KINDS

\* The tail is the number no other is above.
LEMMA TailIs ==
    ASSUME NEW d, NEW n \in Nat, n \in DOMAIN d.links \cup {0},
           \A m \in DOMAIN d.links : m \in Nat /\ m <= n
    PROVE  TailSeq(d) = n
<1>1. \A m \in DOMAIN d.links \cup {0} : (\A k \in DOMAIN d.links : k <= m) <=> m = n
  OBVIOUS
<1>2. QED BY <1>1 DEF TailSeq

\* Before a link that names a row no other link does.
LEMMA OtherNames ==
    ASSUME NEW d, LinksOK(d.links), Intact(d), NEW s \in 1 .. TailSeq(d),
           d.links[s].kind # "note", NEW m \in 1 .. TailSeq(d), m # s
    PROVE  <<d.links[m].kind, d.links[m].ref>> # <<d.links[s].kind, d.links[s].ref>>
BY IntactNames

\* A row that changes under its link is found there, and nowhere else.
LEMMA RowChanged ==
    ASSUME NEW old, NEW new, LinksOK(old.links), Intact(old), new.links = old.links,
           NEW s \in 1 .. TailSeq(old), old.links[s].kind # "note",
           \A kind, ref : <<kind, ref>> # <<old.links[s].kind, old.links[s].ref>> =>
               RowContent(new, kind, ref) = RowContent(old, kind, ref),
           RowContent(new, old.links[s].kind, old.links[s].ref)
             # RowContent(old, old.links[s].kind, old.links[s].ref)
    PROVE  /\ FirstBreak(new) = [seq |-> s, kind |-> ContentBreak(new, s)]
           /\ Reported(old, new)
<1>1. /\ TailSeq(old) \in Nat /\ DOMAIN old.links = 1 .. TailSeq(old)
      /\ \A m \in 1 .. TailSeq(old) : BreakAt(old, m) = "none"
  BY IntactLinks
<1>2. TailSeq(new) = TailSeq(old) BY DEF TailSeq
<1>3. \A m \in 1 .. (s - 1) : Untouched(old, new, m)
  <2> SUFFICES ASSUME NEW m \in 1 .. (s - 1) PROVE Untouched(old, new, m) OBVIOUS
  <2>1. m \in 1 .. TailSeq(old) /\ m # s BY <1>1
  <2>2. <<old.links[m].kind, old.links[m].ref>> # <<old.links[s].kind, old.links[s].ref>>
    BY <2>1, OtherNames
  <2>3. QED BY <1>1, <2>1, <2>2 DEF Untouched, Unchanged
<1>4. \A m \in 1 .. (s - 1) : BreakAt(new, m) = "none"
  <2> SUFFICES ASSUME NEW m \in 1 .. (s - 1) PROVE BreakAt(new, m) = "none" OBVIOUS
  <2>1. m \in Nat \ {0} /\ BreakAt(old, m) = "none" BY <1>1
  <2>2. \A t \in 1 .. m : Untouched(old, new, t) BY <1>3
  <2>3. QED BY <2>1, <2>2, UntouchedIsSound
<1>5. BreakAt(new, s) = ContentBreak(new, s)
  <2>1. s \in Nat \ {0} /\ BreakAt(old, s) = "none" BY <1>1
  <2>2. \A t \in 1 .. s : t \in DOMAIN new.links /\ new.links[t] = old.links[t] BY <1>1
  <2>3. QED BY <2>1, <2>2, SameLinks
<1>6. ContentBreak(new, s) # "none"
  <2>1. RowContent(old, old.links[s].kind, old.links[s].ref) = old.links[s].content
    BY <1>1, SoundLink
  <2>2. RowContent(new, old.links[s].kind, old.links[s].ref) # old.links[s].content
    BY <2>1
  <2>3. QED BY <2>2 DEF ContentBreak, ContentHash
<1>7. FirstBreak(new) = [seq |-> s, kind |-> ContentBreak(new, s)]
  BY <1>1, <1>2, <1>4, <1>5, <1>6, FirstBreakIs
<1>8. s \in 1 .. TailSeq(old) + 1 /\ s \in 1 .. TailSeq(new) /\ BreakAt(new, s) # "none"
  BY <1>1, <1>2, <1>5, <1>6
<1>9. Reported(old, new) BY <1>3, <1>8, BreakNearIsReported
<1>10. QED BY <1>7, <1>9

\* Every row of an intact file has its link.
LEMMA RowHasLink ==
    ASSUME NEW d, LinksOK(d.links), TypedFile(d), Intact(d), NEW r \in DOMAIN d.rows
    PROVE  \E s \in 1 .. TailSeq(d) :
              /\ d.links[s].kind = r[1] /\ d.links[s].ref = r[2] /\ d.links[s].kind # "note"
              /\ r = <<d.links[s].kind, d.links[s].ref>>
<1>1. r \in Refs /\ r = <<r[1], r[2]>> /\ r[1] \in RowKinds BY DEF TypedFile, Refs
<1>2. Linked(d, r[1], r[2]) BY DEF Intact, Unjournaled
<1>3. QED BY <1>1, <1>2, IntactLinks DEF Linked, RowKinds

\* A row changed, ...
LEMMA EditedRow ==
    ASSUME NEW old, NEW new, LinksOK(old.links), TypedFile(old), Intact(old),
           NEW r \in DOMAIN old.rows, NEW c \in Contents \cup {Garbled}, c # old.rows[r],
           new = WithRows(old, [old.rows EXCEPT ![r] = c]),
           NEW s \in 1 .. TailSeq(old), old.links[s].kind # "note",
           r = <<old.links[s].kind, old.links[s].ref>>
    PROVE  /\ FirstBreak(new) = [seq |-> s, kind |-> ContentBreak(new, s)]
           /\ Reported(old, new)
           /\ ContentBreak(new, s) = "content"
<1> DEFINE kind == old.links[s].kind
           ref == old.links[s].ref
<1>1. new.links = old.links /\ new.rows = [old.rows EXCEPT ![r] = c]
  BY FileFields DEF WithRows
<1>2. \A k, i : <<k, i>> # r => RowContent(new, k, i) = RowContent(old, k, i)
  BY <1>1 DEF RowContent
<1>3. BreakAt(old, s) = "none" /\ s \in Nat \ {0} BY IntactLinks
<1>4. RowContent(old, kind, ref) = [id |-> ref, record |-> old.rows[r]] /\ old.rows[r] # Garbled
  <2>1. ContentBreak(old, s) = "none" BY <1>3 DEF BreakAt
  <2>2. RowContent(old, kind, ref) # Garbled BY <2>1 DEF ContentBreak
  <2>3. QED BY <2>2 DEF RowContent
<1>5. RowContent(new, kind, ref) = IF c = Garbled THEN Garbled ELSE [id |-> ref, record |-> c]
  BY <1>1 DEF RowContent
<1>6. RowContent(new, kind, ref) # RowContent(old, kind, ref)
  <2>1. CASE c = Garbled
    <3>1. RowContent(old, kind, ref) # Garbled
      <4>1. ContentBreak(old, s) = "none" BY <1>3 DEF BreakAt
      <4>2. QED BY <4>1 DEF ContentBreak
    <3>2. QED BY <1>5, <2>1, <3>1
  <2>2. CASE c # Garbled
    <3>1. [id |-> ref, record |-> c].record # [id |-> ref, record |-> old.rows[r]].record
      OBVIOUS
    <3>2. QED BY <1>4, <1>5, <2>2, <3>1
  <2>3. QED BY <2>1, <2>2
<1>7. FirstBreak(new) = [seq |-> s, kind |-> ContentBreak(new, s)] /\ Reported(old, new)
  BY <1>1, <1>2, <1>6, RowChanged
<1>8. ref \in Ids
  <2>1. <<kind, ref>> \in DOMAIN old.rows OBVIOUS
  <2>2. QED BY <2>1 DEF TypedFile, Refs
<1>9. RowContent(new, kind, ref) \notin {NoRow, NoNote}
  <2>1. c # Garbled => [id |-> ref, record |-> c] \in [id : Ids, record : Contents] BY <1>8
  <2>2. QED BY <1>5, <2>1, ContentsAssumption
<1>10. RowContent(old, kind, ref) = old.links[s].content BY <1>3, SoundLink
<1>11. ContentBreak(new, s) = "content"
  BY <1>1, <1>6, <1>9, <1>10 DEF ContentBreak, ContentHash
<1>12. QED BY <1>7, <1>11

\* ... removed ...
LEMMA DroppedRow ==
    ASSUME NEW old, NEW new, LinksOK(old.links), Intact(old), NEW r \in DOMAIN old.rows,
           new = WithRows(old, Only(old.rows, DOMAIN old.rows \ {r})),
           NEW s \in 1 .. TailSeq(old), old.links[s].kind # "note",
           r = <<old.links[s].kind, old.links[s].ref>>
    PROVE  /\ FirstBreak(new) = [seq |-> s, kind |-> "missing_row"]
           /\ Reported(old, new)
<1> DEFINE kind == old.links[s].kind
           ref == old.links[s].ref
<1>1. new.links = old.links /\ new.rows = Only(old.rows, DOMAIN old.rows \ {r})
  BY FileFields DEF WithRows
<1>2. \A k, i : <<k, i>> # r => RowContent(new, k, i) = RowContent(old, k, i)
  BY <1>1 DEF RowContent, Only
<1>3. BreakAt(old, s) = "none" /\ s \in Nat \ {0} BY IntactLinks
<1>4. RowContent(old, kind, ref) # NoRow
  <2>1. ContentBreak(old, s) = "none" BY <1>3 DEF BreakAt
  <2>2. QED BY <2>1 DEF ContentBreak
<1>5. RowContent(new, kind, ref) = NoRow BY <1>1 DEF RowContent, Only
<1>6. FirstBreak(new) = [seq |-> s, kind |-> ContentBreak(new, s)] /\ Reported(old, new)
  BY <1>1, <1>2, <1>4, <1>5, RowChanged
<1>7. ContentBreak(new, s) = "missing_row" BY <1>1, <1>5 DEF ContentBreak
<1>8. QED BY <1>6, <1>7

\* ... or put in, which is found past the end.
LEMMA AddedRow ==
    ASSUME NEW old, NEW new, LinksOK(old.links), Intact(old),
           NEW r \in Refs, r \notin DOMAIN old.rows, NEW c, new = Put(old, r, c)
    PROVE  /\ FirstBreak(new) = [seq |-> TailSeq(old) + 1, kind |-> "unjournaled"]
           /\ Reported(old, new)
<1>1. /\ TailSeq(old) \in Nat /\ DOMAIN old.links = 1 .. TailSeq(old)
      /\ \A m \in 1 .. TailSeq(old) : BreakAt(old, m) = "none"
  BY IntactLinks
<1>2. /\ new.links = old.links
      /\ new.rows = [q \in DOMAIN old.rows \cup {r} |-> IF q = r THEN c ELSE old.rows[q]]
  BY PutFields
<1>3. TailSeq(new) = TailSeq(old) BY <1>2 DEF TailSeq
<1>4. \A m \in 1 .. TailSeq(old) : old.links[m].kind = "note"
                                    \/ <<old.links[m].kind, old.links[m].ref>> \in DOMAIN old.rows
  BY <1>1, SoundNames
<1>5. \A m \in 1 .. TailSeq(old) : Untouched(old, new, m)
  BY <1>1, <1>2, <1>4 DEF Untouched, Unchanged, RowContent
<1>6. ChainSound(new)
  <2> SUFFICES ASSUME NEW m \in 1 .. TailSeq(new) PROVE BreakAt(new, m) = "none"
    BY DEF ChainSound
  <2>1. m \in Nat \ {0} /\ BreakAt(old, m) = "none" BY <1>1, <1>3
  <2>2. \A t \in 1 .. m : Untouched(old, new, t) BY <1>1, <1>3, <1>5
  <2>3. QED BY <2>1, <2>2, UntouchedIsSound
<1>7. Unjournaled(new)
  <2>1. r = <<r[1], r[2]>> /\ r[1] # "note" BY DEF Refs, RowKinds
  <2>2. ~Linked(new, r[1], r[2]) BY <1>1, <1>2, <1>4, <2>1 DEF Linked
  <2>3. r \in DOMAIN new.rows BY <1>2
  <2>4. QED BY <2>2, <2>3 DEF Unjournaled
<1>8. FirstBreak(new) = [seq |-> TailSeq(old) + 1, kind |-> "unjournaled"]
  BY <1>3, <1>6, <1>7, UnjournaledIs
<1>9. Reported(old, new)
  <2> DEFINE s == TailSeq(old) + 1
  <2>1. s \in 1 .. TailSeq(old) + 1 /\ \A m \in 1 .. (s - 1) : Untouched(old, new, m)
    BY <1>1, <1>5
  <2>2. TailSeq(new) + 1 \in {s, s + 1} BY <1>3
  <2>3. LinksOK(new.links) BY <1>2
  <2> HIDE DEF s
  <2>4. QED BY <1>6, <1>7, <2>1, <2>2, <2>3, BreakNearIsReported
<1>10. QED BY <1>8, <1>9

\* Links before s left alone, with the rows they name.
LEMMA BelowUntouched ==
    ASSUME NEW old, NEW new, LinksOK(old.links), Intact(old),
           NEW s \in 1 .. TailSeq(old) + 1,
           \A m \in 1 .. (s - 1) : m \in DOMAIN new.links /\ new.links[m] = old.links[m],
           \/ new.rows = old.rows
           \/ \A m \in 1 .. (s - 1) :
                 old.links[m].kind # "note" =>
                    LET q == <<old.links[m].kind, old.links[m].ref>> IN
                    q \in DOMAIN new.rows /\ q \in DOMAIN old.rows /\ new.rows[q] = old.rows[q]
    PROVE  /\ \A m \in 1 .. (s - 1) : Untouched(old, new, m)
           /\ \A m \in 1 .. (s - 1) : BreakAt(new, m) = "none"
<1>1. /\ TailSeq(old) \in Nat /\ DOMAIN old.links = 1 .. TailSeq(old)
      /\ \A m \in 1 .. TailSeq(old) : BreakAt(old, m) = "none"
  BY IntactLinks
<1>2. \A m \in 1 .. (s - 1) : Untouched(old, new, m)
  <2> SUFFICES ASSUME NEW m \in 1 .. (s - 1) PROVE Untouched(old, new, m) OBVIOUS
  <2>1. m \in DOMAIN old.links BY <1>1
  <2>2. old.links[m].kind # "note" =>
          RowContent(new, old.links[m].kind, old.links[m].ref)
            = RowContent(old, old.links[m].kind, old.links[m].ref)
    BY DEF RowContent
  <2>3. QED BY <2>1, <2>2 DEF Untouched, Unchanged
<1>3. ASSUME NEW m \in 1 .. (s - 1) PROVE BreakAt(new, m) = "none"
  <2>1. m \in Nat \ {0} /\ BreakAt(old, m) = "none" BY <1>1
  <2>2. \A t \in 1 .. m : Untouched(old, new, t) BY <1>1, <1>2
  <2>3. QED BY <2>1, <2>2, UntouchedIsSound
<1>4. QED BY <1>2, <1>3

\* One column of a link changed: its hash covers every other, and the hash is its own.
LEMMA AlteredIsBroken ==
    ASSUME NEW old, NEW new, NEW s \in Nat \ {0}, BreakAt(old, s) = "none",
           IsLink(old.links[s]), IsLink(new.links[s]), new.links[s] # old.links[s],
           NEW field \in Columns,
           \A f \in Columns \ {field} : new.links[s][f] = old.links[s][f]
    PROVE  BreakAt(new, s) # "none"
<1> SUFFICES ASSUME BreakAt(new, s) = "none" PROVE FALSE OBVIOUS
<1> DEFINE l == old.links[s]
           m == new.links[s]
<1>1. /\ l.link = <<s, l.kind, l.ref, l.content, l.prev>>
      /\ l.kind = "note" => l.note = l.content
      /\ l.kind # "note" => l.note = NoNote
  BY SoundLink
<1>2. /\ m.link = <<s, m.kind, m.ref, m.content, m.prev>>
      /\ m.kind = "note" => m.note = m.content
      /\ m.kind # "note" => m.note = NoNote
  BY SoundLink
<1>3. field # "kind" => m.kind = l.kind BY DEF Columns
<1>4. field # "ref" => m.ref = l.ref BY DEF Columns
<1>5. field # "content" => m.content = l.content BY DEF Columns
<1>6. field # "prev" => m.prev = l.prev BY DEF Columns
<1>7. field # "link" => m.link = l.link BY DEF Columns
<1> HIDE DEF l, m
<1>8. m.kind = l.kind /\ m.ref = l.ref /\ m.content = l.content /\ m.prev = l.prev
        /\ m.link = l.link
  <2>1. CASE m.link = l.link BY <1>1, <1>2, <2>1
  <2>2. CASE m.link # l.link
    <3>1. field = "link" BY <1>7, <2>2
    <3>2. m.kind = l.kind /\ m.ref = l.ref /\ m.content = l.content /\ m.prev = l.prev
      BY <1>3, <1>4, <1>5, <1>6, <3>1
    <3>3. QED BY <1>1, <1>2, <2>2, <3>2
  <2>3. QED BY <2>1, <2>2
<1>9. m.note = l.note BY <1>1, <1>2, <1>8
<1>10. m = l
  <2>1. IsLink(l) /\ IsLink(m) BY DEF l, m
  <2>2. QED BY <1>8, <1>9, <2>1, SameLink
<1>11. QED BY <1>10 DEF l, m

\* What an altered link keeps.
LEMMA AlteredColumn ==
    ASSUME NEW old, IsLink(old), NEW link \in Altered(old)
    PROVE  \E field \in Columns : \A f \in Columns \ {field} : link[f] = old[f]
<1>1. \/ \E v : link = [old EXCEPT !.kind = v]
      \/ \E v : link = [old EXCEPT !.ref = v]
      \/ \E v : link = [old EXCEPT !.note = v]
      \/ \E v : link = [old EXCEPT !.content = v]
      \/ \E v : link = [old EXCEPT !.prev = v]
      \/ \E v : link = [old EXCEPT !.link = v]
  BY DEF Altered
<1>2. ASSUME NEW field \in Columns, NEW v, link = [old EXCEPT ![field] = v]
      PROVE  \A f \in Columns \ {field} : link[f] = old[f]
  BY <1>2 DEF IsLink
<1>3. \E field \in Columns : \E v : link = [old EXCEPT ![field] = v] BY <1>1 DEF Columns
<1>4. QED BY <1>2, <1>3

\* A link with a column changed is reported where it is.
LEMMA EditedLink ==
    ASSUME LinksOK(db.links), Intact(db), NEW s \in DOMAIN db.links, EditLink(s)
    PROVE  Reported(db, db')
<1>1. PICK link \in Altered(db.links[s]) \ {db.links[s]} :
        db' = WithLinks(db, [db.links EXCEPT ![s] = link])
  BY DEF EditLink
<1> DEFINE links == [db.links EXCEPT ![s] = link]
<1>2. PICK new : new = db' OBVIOUS
<1>3. new.rows = db.rows /\ new.links = links BY <1>1, <1>2, FileFields DEF WithLinks
<1>4. /\ TailSeq(db) \in Nat /\ DOMAIN db.links = 1 .. TailSeq(db)
      /\ \A m \in 1 .. TailSeq(db) : BreakAt(db, m) = "none"
  BY IntactLinks
<1>5. IsLink(db.links[s]) BY DEF LinksOK
<1>6. IsLink(link) BY <1>1, <1>5, AlteredIsLink
<1>7. PICK field \in Columns : \A f \in Columns \ {field} : link[f] = db.links[s][f]
  BY <1>1, <1>5, AlteredColumn
<1>8. /\ DOMAIN new.links = DOMAIN db.links /\ new.links[s] = link
      /\ \A m \in DOMAIN db.links : m # s => new.links[m] = db.links[m]
  BY <1>3
<1>9. TailSeq(new) = TailSeq(db) BY <1>8 DEF TailSeq
<1>10. s \in Nat \ {0} /\ BreakAt(db, s) = "none" /\ s \in 1 .. TailSeq(db) + 1
         /\ s \in 1 .. TailSeq(new)
  BY <1>4, <1>9
<1>11. BreakAt(new, s) # "none" BY <1>1, <1>5, <1>6, <1>7, <1>8, <1>10, AlteredIsBroken
<1>12. \A m \in 1 .. (s - 1) : m \in DOMAIN new.links /\ new.links[m] = db.links[m]
  BY <1>4, <1>8
<1>13. \A m \in 1 .. (s - 1) : Untouched(db, new, m) BY <1>3, <1>10, <1>12, BelowUntouched
<1>14. LinksOK(new.links) BY <1>3, <1>6, SetLinkOK
<1>15. Reported(db, new) BY <1>10, <1>11, <1>13, <1>14, BreakNearIsReported
<1>16. QED BY <1>2, <1>15

\* A link of another number where one was is broken: its hash covers its number.
LEMMA WrongNumber ==
    ASSUME NEW old, NEW new, NEW s \in Nat \ {0}, NEW t \in Nat \ {0}, s # t,
           BreakAt(old, t) = "none", new.links[s] = old.links[t]
    PROVE  BreakAt(new, s) # "none"
<1> SUFFICES ASSUME BreakAt(new, s) = "none" PROVE FALSE OBVIOUS
<1>1. old.links[t].link = <<t, old.links[t].kind, old.links[t].ref, old.links[t].content,
                            old.links[t].prev>>
  BY SoundLink
<1>2. new.links[s].link = <<s, new.links[s].kind, new.links[s].ref, new.links[s].content,
                            new.links[s].prev>>
  BY SoundLink
<1>3. QED BY <1>1, <1>2

\* Two links that trade places.
LEMMA SwappedLinks ==
    ASSUME LinksOK(db.links), LinksOK(db'.links), Intact(db),
           NEW s \in DOMAIN db.links, NEW t \in DOMAIN db.links, SwapLinks(s, t)
    PROVE  Reported(db, db')
<1>1. PICK new : new = db' OBVIOUS
<1>2. /\ new.rows = db.rows /\ s < t
      /\ new.links = [db.links EXCEPT ![s] = db.links[t], ![t] = db.links[s]]
  BY <1>1, FileFields DEF SwapLinks, WithLinks
<1>3. /\ TailSeq(db) \in Nat /\ DOMAIN db.links = 1 .. TailSeq(db)
      /\ \A m \in 1 .. TailSeq(db) : BreakAt(db, m) = "none"
  BY IntactLinks
<1>4. s \in Nat \ {0} /\ t \in Nat \ {0} /\ s # t BY <1>2, <1>3
<1>5. /\ DOMAIN new.links = DOMAIN db.links /\ new.links[s] = db.links[t]
      /\ \A m \in 1 .. (s - 1) : m \in DOMAIN new.links /\ new.links[m] = db.links[m]
  BY <1>2, <1>3
<1>6. TailSeq(new) = TailSeq(db) BY <1>5 DEF TailSeq
<1>7. BreakAt(new, s) # "none" BY <1>3, <1>4, <1>5, WrongNumber
<1>8. s \in 1 .. TailSeq(db) + 1 /\ s \in 1 .. TailSeq(new) BY <1>3, <1>4, <1>6
<1>9. \A m \in 1 .. (s - 1) : Untouched(db, new, m) BY <1>2, <1>5, <1>8, BelowUntouched
<1>10. LinksOK(new.links) BY <1>1
<1>11. Reported(db, new) BY <1>7, <1>8, <1>9, <1>10, BreakNearIsReported
<1>12. QED BY <1>1, <1>11

\* The first links of an intact journal, with the rows they name, are a sound journal.
LEMMA PrefixIsSound ==
    ASSUME NEW old, NEW new, LinksOK(old.links), Intact(old),
           NEW k \in 0 .. TailSeq(old), DOMAIN new.links = 1 .. k,
           \A m \in 1 .. k : new.links[m] = old.links[m],
           \/ new.rows = old.rows
           \/ \A m \in 1 .. k :
                 old.links[m].kind # "note" =>
                    LET q == <<old.links[m].kind, old.links[m].ref>> IN
                    q \in DOMAIN new.rows /\ q \in DOMAIN old.rows /\ new.rows[q] = old.rows[q]
    PROVE  /\ TailSeq(new) = k
           /\ ChainSound(new)
           /\ \A m \in 1 .. k : Untouched(old, new, m)
           /\ Continues(new, old)
<1>1. TailSeq(old) \in Nat /\ DOMAIN old.links = 1 .. TailSeq(old) BY IntactLinks
<1> DEFINE s == k + 1
<1>2. k \in Nat /\ s \in 1 .. TailSeq(old) + 1 /\ s - 1 = k BY <1>1
<1> HIDE DEF s
<1>3. \A m \in 1 .. k : m \in DOMAIN new.links OBVIOUS
<1>4. /\ \A m \in 1 .. (s - 1) : Untouched(old, new, m)
      /\ \A m \in 1 .. (s - 1) : BreakAt(new, m) = "none"
  BY <1>2, <1>3, BelowUntouched
<1>5. TailSeq(new) = k BY <1>2, TailIs
<1>6. ChainSound(new) BY <1>2, <1>4, <1>5 DEF ChainSound
<1>7. Continues(new, old)
  <2> SUFFICES ASSUME NEW m \in DOMAIN new.links PROVE Unchanged(new, old, m)
    BY DEF Continues
  <2>1. Untouched(old, new, m) BY <1>2, <1>4
  <2>2. QED BY <2>1 DEF Untouched, Unchanged
<1>8. QED BY <1>2, <1>4, <1>5, <1>6, <1>7

\* A link removed is a gap where it was, unless it was the last: then it is a row past the
\* end, or a note the chain does not miss.
LEMMA DroppedLink ==
    ASSUME NEW old, NEW new, LinksOK(old.links), LinksOK(new.links), Intact(old),
           NEW s \in DOMAIN old.links, new.rows = old.rows,
           DOMAIN new.links = DOMAIN old.links \ {s},
           \A m \in DOMAIN new.links : new.links[m] = old.links[m]
    PROVE  /\ s < TailSeq(old) => FirstBreak(new) = [seq |-> s, kind |-> "sequence"]
           /\ s = TailSeq(old) /\ Unjournaled(new) =>
                FirstBreak(new) = [seq |-> s, kind |-> "unjournaled"]
           /\ Reported(old, new) \/ Undetectable(old, new)
<1>1. TailSeq(old) \in Nat /\ DOMAIN old.links = 1 .. TailSeq(old) BY IntactLinks
<1>2. \A m : m \in DOMAIN new.links <=> m \in 1 .. TailSeq(old) /\ m # s BY <1>1
<1>3. s \in 1 .. TailSeq(old) + 1 /\ s \in Nat \ {0} BY <1>1
<1>4. \A m \in 1 .. (s - 1) : m \in DOMAIN new.links /\ new.links[m] = old.links[m]
  <2> SUFFICES ASSUME NEW m \in 1 .. (s - 1) PROVE m \in DOMAIN new.links BY <1>2
  <2>1. m \in 1 .. TailSeq(old) /\ m # s BY <1>1
  <2>2. QED BY <1>1, <1>2, <2>1
<1>5. /\ \A m \in 1 .. (s - 1) : Untouched(old, new, m)
      /\ \A m \in 1 .. (s - 1) : BreakAt(new, m) = "none"
  BY <1>2, <1>3, <1>4, BelowUntouched
<1>6. CASE s < TailSeq(old)
  <2>1. TailSeq(old) \in DOMAIN new.links
    <3>1. TailSeq(old) \in 1 .. TailSeq(old) /\ TailSeq(old) # s BY <1>1, <1>6
    <3>2. QED BY <1>1, <1>2, <3>1
  <2>2. TailSeq(new) = TailSeq(old)
    <3>1. \A m \in DOMAIN new.links : m \in 1 .. TailSeq(old) BY <1>1, <1>2
    <3>2. \A m \in DOMAIN new.links : m \in Nat /\ m <= TailSeq(old) BY <1>1, <3>1
    <3>3. QED BY <1>1, <2>1, <3>2, TailIs
  <2>3. s \in 1 .. s /\ s \notin DOMAIN new.links BY <1>2, <1>3
  <2>4. BreakAt(new, s) = "sequence" BY <2>3 DEF BreakAt, Present
  <2>5. s \in 1 .. TailSeq(new) /\ TailSeq(new) \in Nat BY <1>1, <2>2
  <2>6. FirstBreak(new) = [seq |-> s, kind |-> "sequence"]
    BY <1>5, <2>4, <2>5, FirstBreakIs
  <2>7. Reported(old, new) BY <1>3, <1>5, <2>4, <2>5, BreakNearIsReported
  <2>8. QED BY <1>1, <1>3, <1>6, <2>6, <2>7
<1>7. CASE s = TailSeq(old)
  <2> DEFINE k == s - 1
  <2>1. k \in 0 .. TailSeq(old) /\ DOMAIN new.links = 1 .. k
    <3>1. k \in 0 .. TailSeq(old) /\ (1 .. TailSeq(old)) \ {s} = 1 .. k BY <1>1, <1>7
    <3>2. QED BY <1>1, <1>2, <3>1
  <2>2. \A m \in 1 .. k : new.links[m] = old.links[m] BY <1>4
  <2>3. k + 1 = s BY <1>3
  <2> HIDE DEF k
  <2>4. TailSeq(new) = k /\ ChainSound(new) /\ Continues(new, old)
    BY <1>2, <2>1, <2>2, PrefixIsSound
  <2>5. CASE Unjournaled(new)
    <3>1. FirstBreak(new) = [seq |-> s, kind |-> "unjournaled"]
      BY <2>3, <2>4, <2>5, UnjournaledIs
    <3>2. TailSeq(new) + 1 \in {s, s + 1} BY <2>3, <2>4
    <3>3. Reported(old, new) BY <1>3, <1>5, <2>4, <2>5, <3>2, BreakNearIsReported
    <3>4. QED BY <1>1, <1>7, <3>1, <3>3
  <2>6. CASE ~Unjournaled(new)
    <3>1. Undetectable(old, new) BY <2>4, <2>6 DEF Undetectable, Intact
    <3>2. QED BY <1>1, <1>7, <2>6, <3>1
  <2>7. QED BY <2>5, <2>6
<1>8. s <= TailSeq(old) BY <1>1
<1>9. QED BY <1>1, <1>3, <1>6, <1>7, <1>8

\* A tail cut off with the rows it names leaves a journal that verifies.
LEMMA CutIsUnseen ==
    ASSUME NEW old, NEW new, LinksOK(old.links), TypedFile(old), Intact(old),
           NEW s \in DOMAIN old.links,
           \A r : r \in DOMAIN new.rows <=>
              /\ r \in DOMAIN old.rows
              /\ ~ \E n \in s .. TailSeq(old) :
                      old.links[n].kind = r[1] /\ old.links[n].ref = r[2],
           \A r \in DOMAIN new.rows : new.rows[r] = old.rows[r],
           DOMAIN new.links = 1 .. (s - 1),
           \A m \in DOMAIN new.links : new.links[m] = old.links[m]
    PROVE  Undetectable(old, new)
<1> DEFINE cut == s .. TailSeq(old)
           k == s - 1
<1>1. /\ TailSeq(old) \in Nat /\ DOMAIN old.links = 1 .. TailSeq(old)
      /\ \A m \in 1 .. TailSeq(old) : BreakAt(old, m) = "none"
  BY IntactLinks
<1>2. k \in 0 .. TailSeq(old) /\ DOMAIN new.links = 1 .. k BY <1>1
<1>3. ASSUME NEW m \in 1 .. k, old.links[m].kind # "note"
      PROVE  LET q == <<old.links[m].kind, old.links[m].ref>> IN
             q \in DOMAIN new.rows /\ q \in DOMAIN old.rows /\ new.rows[q] = old.rows[q]
  <2> DEFINE q == <<old.links[m].kind, old.links[m].ref>>
  <2>1. m \in 1 .. TailSeq(old) /\ m \in Nat \ {0} /\ \A n \in cut : n # m /\ n \in 1 .. TailSeq(old)
    BY <1>1
  <2>2. q \in DOMAIN old.rows BY <1>1, <1>3, <2>1, SoundNames
  <2>3. ~ \E n \in cut : old.links[n].kind = q[1] /\ old.links[n].ref = q[2]
    <3> SUFFICES ASSUME NEW n \in cut, old.links[n].kind = q[1], old.links[n].ref = q[2]
                 PROVE  FALSE
      OBVIOUS
    <3>1. n = m BY <2>1, IntactNames
    <3>2. QED BY <2>1, <3>1
  <2>4. QED BY <2>2, <2>3
<1>4. \A m \in 1 .. k : new.links[m] = old.links[m] BY <1>2
<1> HIDE DEF k
<1>5. ChainSound(new) /\ Continues(new, old) BY <1>2, <1>3, <1>4, PrefixIsSound
<1>6. ~Unjournaled(new)
  <2> SUFFICES ASSUME NEW r \in DOMAIN new.rows PROVE Linked(new, r[1], r[2])
    BY DEF Unjournaled
  <2>1. /\ r \in DOMAIN old.rows
        /\ ~ \E n \in cut : old.links[n].kind = r[1] /\ old.links[n].ref = r[2]
    OBVIOUS
  <2>2. PICK n \in 1 .. TailSeq(old) : old.links[n].kind = r[1] /\ old.links[n].ref = r[2]
    BY <2>1, RowHasLink
  <2>3. n \notin cut BY <2>1, <2>2
  <2>4. n \in DOMAIN new.links /\ new.links[n] = old.links[n] BY <1>1, <1>2, <2>2, <2>3 DEF k
  <2>5. QED BY <2>2, <2>4 DEF Linked
<1>7. QED BY <1>5, <1>6 DEF Undetectable, Intact

\* A link put in moves the one that was there to a number its hash does not cover; put in
\* past the end it is broken, or it could be the store's own.
LEMMA InsertedLink ==
    ASSUME NEW old, NEW new, LinksOK(old.links), LinksOK(new.links), Intact(old),
           NEW s \in 1 .. TailSeq(old) + 1, new.rows = old.rows,
           DOMAIN new.links = 1 .. TailSeq(old) + 1,
           \A n \in 1 .. TailSeq(old) :
              IF n < s THEN new.links[n] = old.links[n] ELSE new.links[n + 1] = old.links[n]
    PROVE  Reported(old, new) \/ Undetectable(old, new)
<1>1. /\ TailSeq(old) \in Nat /\ DOMAIN old.links = 1 .. TailSeq(old)
      /\ \A m \in 1 .. TailSeq(old) : BreakAt(old, m) = "none"
  BY IntactLinks
<1>2. s \in Nat \ {0} BY <1>1
<1> DEFINE N == TailSeq(old) + 1
<1>3. N \in Nat /\ DOMAIN new.links = 1 .. N /\ N \in DOMAIN new.links BY <1>1
<1> HIDE DEF N
<1>4. TailSeq(new) = N
  <2>1. \A m \in 1 .. N : m \in Nat /\ m <= N BY <1>3
  <2>2. QED BY <1>3, <2>1, TailIs
<1>5. \A m \in 1 .. (s - 1) : m \in DOMAIN new.links /\ new.links[m] = old.links[m]
  BY <1>1, <1>2
<1>6. /\ \A m \in 1 .. (s - 1) : Untouched(old, new, m)
      /\ \A m \in 1 .. (s - 1) : BreakAt(new, m) = "none"
  BY <1>5, BelowUntouched
<1>7. CASE s <= TailSeq(old)
  <2>1. s \in 1 .. TailSeq(old) BY <1>1, <1>7
  <2>2. new.links[s + 1] = old.links[s] BY <2>1
  <2>3. s + 1 \in Nat \ {0} /\ s + 1 # s /\ BreakAt(old, s) = "none" BY <1>1, <1>2, <2>1
  <2>4. BreakAt(new, s + 1) # "none"
    <3> DEFINE b == s + 1
    <3>1. b \in Nat \ {0} /\ b # s /\ new.links[b] = old.links[s] BY <2>2, <2>3
    <3> HIDE DEF b
    <3>2. BreakAt(new, b) # "none" BY <1>2, <2>3, <3>1, WrongNumber
    <3>3. QED BY <3>2 DEF b
  <2>5. s + 1 \in 1 .. TailSeq(new) BY <1>1, <1>4, <2>1 DEF N
  <2>6. Reported(old, new) BY <1>6, <2>4, <2>5, BreakNearIsReported
  <2>7. QED BY <2>6
<1>8. CASE s = TailSeq(old) + 1
  <2>1. s \in 1 .. TailSeq(new) /\ N = s BY <1>2, <1>4, <1>8 DEF N
  <2>2. CASE BreakAt(new, s) # "none"
    <3>1. Reported(old, new) BY <1>6, <2>1, <2>2, BreakNearIsReported
    <3>2. QED BY <3>1
  <2>3. CASE BreakAt(new, s) = "none"
    <3>1. ChainSound(new)
      <4> SUFFICES ASSUME NEW m \in 1 .. TailSeq(new) PROVE BreakAt(new, m) = "none"
        BY DEF ChainSound
      <4>1. m \in 1 .. (s - 1) \/ m = s BY <1>2, <1>4, <2>1
      <4>2. QED BY <1>6, <2>3, <4>1
    <3>2. \A m \in DOMAIN old.links : m \in 1 .. (s - 1) BY <1>1, <1>8
    <3>3. ~Unjournaled(new)
      <4> SUFFICES ASSUME NEW r \in DOMAIN old.rows PROVE Linked(new, r[1], r[2])
        BY DEF Unjournaled
      <4>1. Linked(old, r[1], r[2]) BY DEF Intact, Unjournaled
      <4>2. QED BY <1>5, <3>2, <4>1 DEF Linked
    <3>4. Continues(old, new) BY <1>6, <3>2 DEF Continues, Untouched
    <3>5. QED BY <3>1, <3>3, <3>4 DEF Undetectable, Intact
  <2>4. QED BY <2>2, <2>3
<1>9. QED BY <1>1, <1>2, <1>7, <1>8

\* A journal emptied leaves its rows unjournaled from the first on.
LEMMA WipedChain ==
    ASSUME NEW old, NEW new, LinksOK(old.links), LinksOK(new.links), Intact(old),
           new.rows = old.rows, DOMAIN new.links = {}
    PROVE  /\ Unjournaled(new) => FirstBreak(new) = [seq |-> 1, kind |-> "unjournaled"]
           /\ Reported(old, new) \/ Undetectable(old, new)
<1>1. TailSeq(old) \in Nat BY IntactLinks
<1> DEFINE k == 0
           s == 1
<1>2. k \in 0 .. TailSeq(old) /\ DOMAIN new.links = 1 .. k /\ s = k + 1 BY <1>1
<1>3. s \in 1 .. TailSeq(old) + 1 /\ \A m \in 1 .. (s - 1) : Untouched(old, new, m) BY <1>1
<1>4. \A m \in 1 .. k : new.links[m] = old.links[m] OBVIOUS
<1> HIDE DEF k, s
<1>5. TailSeq(new) = k /\ ChainSound(new) /\ Continues(new, old)
  BY <1>2, <1>4, PrefixIsSound
<1>6. CASE Unjournaled(new)
  <2>1. FirstBreak(new) = [seq |-> s, kind |-> "unjournaled"]
    BY <1>2, <1>5, <1>6, UnjournaledIs
  <2>2. TailSeq(new) + 1 \in {s, s + 1} BY <1>2, <1>5
  <2>3. Reported(old, new) BY <1>3, <1>5, <1>6, <2>2, BreakNearIsReported
  <2>4. QED BY <2>1, <2>3 DEF s
<1>7. CASE ~Unjournaled(new) BY <1>5, <1>7 DEF Undetectable, Intact
<1>8. QED BY <1>6, <1>7

\* A sound chain computed again is what it was.
LEMMA SoundIsRechained ==
    ASSUME NEW d, LinksOK(d.links), Intact(d), NEW chain, IsRechained(d, chain)
    PROVE  \A s \in 1 .. TailSeq(d) : chain[s] = d.links[s]
<1>1. /\ TailSeq(d) \in Nat /\ DOMAIN d.links = 1 .. TailSeq(d)
      /\ \A m \in 1 .. TailSeq(d) : BreakAt(d, m) = "none"
  BY IntactLinks
<1> DEFINE Moved == {s \in 1 .. TailSeq(d) : chain[s] # d.links[s]}
<1> SUFFICES ASSUME Moved # {} PROVE FALSE OBVIOUS
<1>2. Moved \in SUBSET Nat BY <1>1
<1>3. PICK s \in Moved : \A m \in Moved : s <= m BY <1>2, Least
<1>4. s \in 1 .. TailSeq(d) /\ chain[s] # d.links[s] /\ s \in Nat \ {0} BY <1>1, <1>3
<1>5. s # 1 => chain[s - 1] = d.links[s - 1]
  <2> SUFFICES ASSUME s # 1, chain[s - 1] # d.links[s - 1] PROVE FALSE OBVIOUS
  <2>1. s - 1 \in Moved /\ s - 1 < s BY <1>1, <1>4
  <2>2. QED BY <1>3, <1>4, <2>1
<1> HIDE DEF Moved
<1>6. chain[s] = Relinked(d, s, IF s = 1 THEN Genesis ELSE chain[s - 1].link)
  BY <1>4 DEF IsRechained
<1> DEFINE l == d.links[s]
<1>7. chain[s] = Relinked(d, s, l.prev)
  <2>1. l.prev = PrevHash(d, s) BY <1>1, <1>4, SoundLink
  <2>2. QED BY <1>5, <1>6, <2>1 DEF PrevHash
<1>8. /\ l.link = <<s, l.kind, l.ref, l.content, l.prev>>
      /\ l.kind = "note" => l.note = l.content
      /\ l.kind # "note" => RowContent(d, l.kind, l.ref) = l.content
  BY <1>1, <1>4, SoundLink
<1>9. chain[s] = MakeLink(s, l.kind, l.ref, l.note, l.content, l.prev)
  BY <1>7, <1>8 DEF Relinked
<1>10. IsLink(l) /\ IsLink(chain[s]) BY <1>1, <1>4, <1>9, MadeLinkOK DEF LinksOK
<1> DEFINE c == chain[s]
<1>11. /\ c.kind = l.kind /\ c.ref = l.ref /\ c.note = l.note /\ c.content = l.content
       /\ c.prev = l.prev /\ c.link = l.link
  BY <1>8, <1>9 DEF MakeLink, LinkHash, ContentHash
<1> HIDE DEF c, l
<1>12. c = l BY <1>10, <1>11, SameLink DEF c, l
<1>13. QED BY <1>4, <1>12 DEF c, l

\* Links that are as they were, whatever else the file holds, are not reported.
LEMMA SameIsUnseen ==
    ASSUME NEW old, NEW new, LinksOK(old.links), Intact(old), new.rows = old.rows,
           DOMAIN new.links = 1 .. TailSeq(old),
           \A s \in 1 .. TailSeq(old) : new.links[s] = old.links[s]
    PROVE  Undetectable(old, new)
<1>1. TailSeq(old) \in Nat /\ DOMAIN old.links = 1 .. TailSeq(old) BY IntactLinks
<1> DEFINE k == TailSeq(old)
<1>2. k \in 0 .. TailSeq(old) BY <1>1
<1> HIDE DEF k
<1>3. ChainSound(new) /\ Continues(new, old) BY <1>2, PrefixIsSound DEF k
<1>4. ~Unjournaled(new)
  <2> SUFFICES ASSUME NEW r \in DOMAIN old.rows PROVE Linked(new, r[1], r[2])
    BY DEF Unjournaled
  <2>1. Linked(old, r[1], r[2]) BY DEF Intact, Unjournaled
  <2>2. QED BY <1>1, <2>1 DEF Linked
<1>5. QED BY <1>3, <1>4 DEF Undetectable, Intact

\* An edit of a row of an intact journal is reported.
LEMMA RowEditReported ==
    ASSUME LinksOK(db.links), TypedFile(db), Intact(db), NEW r \in Refs,
           \/ \E c \in Contents \cup {Garbled} : EditRow(r, c) \/ AddRow(r, c)
           \/ DropRow(r)
    PROVE  Reported(db, db')
<1>1. PICK new : new = db' OBVIOUS
<1>2. r \in DOMAIN db.rows =>
        \E s \in 1 .. TailSeq(db) :
            db.links[s].kind # "note" /\ r = <<db.links[s].kind, db.links[s].ref>>
  BY RowHasLink
<1>3. ASSUME NEW c \in Contents \cup {Garbled}, EditRow(r, c) PROVE Reported(db, new)
  <2>1. /\ r \in DOMAIN db.rows /\ c # db.rows[r]
        /\ new = WithRows(db, [db.rows EXCEPT ![r] = c])
    BY <1>1, <1>3 DEF EditRow
  <2>2. PICK s \in 1 .. TailSeq(db) :
          db.links[s].kind # "note" /\ r = <<db.links[s].kind, db.links[s].ref>>
    BY <1>2, <2>1
  <2>3. QED BY <2>1, <2>2, EditedRow
<1>4. ASSUME NEW c \in Contents \cup {Garbled}, AddRow(r, c) PROVE Reported(db, new)
  <2>1. r \notin DOMAIN db.rows /\ new = Put(db, r, c) BY <1>1, <1>4 DEF AddRow, Put
  <2>2. QED BY <2>1, AddedRow
<1>5. ASSUME DropRow(r) PROVE Reported(db, new)
  <2>1. r \in DOMAIN db.rows /\ new = WithRows(db, Only(db.rows, DOMAIN db.rows \ {r}))
    BY <1>1, <1>5 DEF DropRow
  <2>2. PICK s \in 1 .. TailSeq(db) :
          db.links[s].kind # "note" /\ r = <<db.links[s].kind, db.links[s].ref>>
    BY <1>2, <2>1
  <2>3. QED BY <2>1, <2>2, DroppedRow, Zenon
<1>6. Reported(db, new) BY <1>3, <1>4, <1>5
<1>7. QED BY <1>1, <1>6

\* So is one of its chain, but for those that leave what the store could have written.
LEMMA ChainEditReported ==
    ASSUME LinksOK(db.links), LinksOK(db'.links), TypedFile(db), Intact(db), EditChain
    PROVE  Reported(db, db') \/ Undetectable(db, db')
<1>1. PICK new : new = db' OBVIOUS
<1>2. LinksOK(new.links) BY <1>1
<1>3. TailSeq(db) \in Nat /\ DOMAIN db.links = 1 .. TailSeq(db) BY IntactLinks
<1>4. ASSUME NEW s \in DOMAIN db.links, EditLink(s) PROVE Reported(db, db')
  BY <1>4, EditedLink
<1>5. ASSUME NEW s \in DOMAIN db.links, DropLink(s)
      PROVE  Reported(db, new) \/ Undetectable(db, new)
  <2>1. /\ new.rows = db.rows /\ DOMAIN new.links = DOMAIN db.links \ {s}
        /\ \A m \in DOMAIN new.links : new.links[m] = db.links[m]
    BY <1>1, <1>5, FileFields DEF DropLink, WithLinks, Only
  <2>2. QED BY <1>2, <2>1, DroppedLink
<1>6. ASSUME NEW s \in DOMAIN db.links, CutTail(s) PROVE Undetectable(db, new)
  <2> DEFINE cut == {n \in DOMAIN db.links : n >= s}
             gone(r) == \E n \in cut : db.links[n].kind = r[1] /\ db.links[n].ref = r[2]
  <2>1. /\ new.rows = Only(db.rows, {r \in DOMAIN db.rows : ~gone(r)})
        /\ new.links = Only(db.links, DOMAIN db.links \ cut)
    BY <1>1, <1>6, FileFields DEF CutTail
  <2>2. /\ DOMAIN new.rows = {r \in DOMAIN db.rows : ~gone(r)}
        /\ \A r \in DOMAIN new.rows : new.rows[r] = db.rows[r]
        /\ DOMAIN new.links = DOMAIN db.links \ cut
        /\ \A m \in DOMAIN new.links : new.links[m] = db.links[m]
    BY <2>1 DEF Only
  <2>3. cut = s .. TailSeq(db) /\ (1 .. TailSeq(db)) \ (s .. TailSeq(db)) = 1 .. (s - 1)
    BY <1>3
  <2>4. DOMAIN new.links = 1 .. (s - 1) BY <1>3, <2>2, <2>3
  <2>5. \A r : r \in DOMAIN new.rows <=>
          /\ r \in DOMAIN db.rows
          /\ ~ \E n \in s .. TailSeq(db) : db.links[n].kind = r[1] /\ db.links[n].ref = r[2]
    BY <2>2, <2>3
  <2> HIDE DEF cut
  <2>6. QED BY <2>2, <2>4, <2>5, CutIsUnseen
<1>7. ASSUME NEW s \in 1 .. TailSeq(db) + 1, InsertLink(s)
      PROVE  Reported(db, new) \/ Undetectable(db, new)
  <2> DEFINE low == {m \in DOMAIN db.links : m < s}
             high == {m + 1 : m \in {k \in DOMAIN db.links : k >= s}}
             moved(link) == [n \in low \cup {s} \cup high |->
                               IF n < s THEN db.links[n]
                               ELSE IF n = s THEN link ELSE db.links[n - 1]]
  <2>1. PICK link \in Made(s) : db' = WithLinks(db, moved(link)) BY <1>7 DEF InsertLink
  <2>2. new.rows = db.rows /\ new.links = moved(link)
    BY <1>1, <2>1, FileFields DEF WithLinks
  <2>3. low \cup {s} \cup high = 1 .. TailSeq(db) + 1
    <3>1. low = {m \in 1 .. TailSeq(db) : m < s} BY <1>3
    <3>2. high = {m + 1 : m \in {k \in 1 .. TailSeq(db) : k >= s}} BY <1>3
    <3> HIDE DEF low, high
    <3>3. ASSUME NEW n \in 1 .. TailSeq(db) + 1 PROVE n \in low \cup {s} \cup high
      <4>1. CASE n > s
        <5>1. n - 1 \in {k \in 1 .. TailSeq(db) : k >= s} /\ n = (n - 1) + 1 BY <1>3, <4>1
        <5>2. QED BY <3>2, <5>1
      <4>2. CASE n < s BY <1>3, <3>1, <4>2
      <4>3. n > s \/ n < s \/ n = s BY <1>3
      <4>4. QED BY <4>1, <4>2, <4>3
    <3>4. low \cup {s} \cup high \subseteq 1 .. TailSeq(db) + 1 BY <1>3, <3>1, <3>2
    <3>5. QED BY <3>3, <3>4
  <2>4. DOMAIN new.links = 1 .. TailSeq(db) + 1 BY <2>2, <2>3
  <2>5. \A n \in 1 .. TailSeq(db) :
          IF n < s THEN new.links[n] = db.links[n] ELSE new.links[n + 1] = db.links[n]
    <3> SUFFICES ASSUME NEW n \in 1 .. TailSeq(db)
                 PROVE  IF n < s THEN new.links[n] = db.links[n]
                        ELSE new.links[n + 1] = db.links[n]
      OBVIOUS
    <3>1. /\ n \in low \cup {s} \cup high /\ n + 1 \in low \cup {s} \cup high
          /\ (n + 1) - 1 = n /\ ~(n < s) => ~(n + 1 < s) /\ n + 1 # s
      BY <1>3, <2>3
    <3> HIDE DEF low, high
    <3>2. QED BY <2>2, <3>1
  <2> HIDE DEF moved
  <2>6. QED BY <1>2, <2>2, <2>4, <2>5, InsertedLink
<1>8. ASSUME NEW s \in DOMAIN db.links, NEW t \in DOMAIN db.links, SwapLinks(s, t)
      PROVE  Reported(db, db')
  BY <1>8, SwappedLinks
<1>9. CASE Wipe
  <2>1. new.rows = db.rows /\ DOMAIN new.links = {}
    BY <1>1, <1>9, FileFields DEF Wipe, WithLinks, EmptyFunction
  <2>2. Reported(db, new) \/ Undetectable(db, new) BY <1>2, <2>1, WipedChain
  <2>3. QED BY <1>1, <2>2
<1>10. CASE Rechain
  <2>1. new.rows = db.rows /\ new.links = Rechained(db)
    BY <1>1, <1>10, FileFields DEF Rechain, WithLinks
  <2>2. IsRechained(db, new.links) BY <1>3, <2>1, RechainedIs
  <2>3. DOMAIN new.links = 1 .. TailSeq(db) BY <2>2 DEF IsRechained
  <2>4. \A s \in 1 .. TailSeq(db) : new.links[s] = db.links[s] BY <2>2, SoundIsRechained
  <2>5. Undetectable(db, new) BY <2>1, <2>3, <2>4, SameIsUnseen
  <2>6. QED BY <1>1, <2>5
<1>11. CASE \E s \in DOMAIN db.links : EditLink(s) \/ DropLink(s) \/ CutTail(s)
  BY <1>1, <1>4, <1>5, <1>6, <1>11
<1>12. CASE \E s \in 1 .. TailSeq(db) + 1 : InsertLink(s) BY <1>1, <1>7, <1>12
<1>13. CASE \E s, t \in DOMAIN db.links : SwapLinks(s, t) BY <1>8, <1>13
<1>14. QED BY <1>9, <1>10, <1>11, <1>12, <1>13 DEF EditChain

\* journal.py: whatever one edit does to an intact journal, verify reports it at the first
\* link it touched or the one after, unless what is left is what the store itself could have
\* written.
THEOREM EditsReportedHolds == EditedSpec => EditsReported
<1>1. HeadInv /\ HeadInv' /\ WriterInv /\ [EditedNext]_editedVars
        => [edits' # edits /\ db.version = 1 /\ Intact(db) =>
              \/ Undetectable(db, db')
              \/ /\ ~Intact(db')
                 /\ FirstBreak(db').seq \in {Touched(db, db'), Touched(db, db') + 1}]_editedVars
  <2> SUFFICES ASSUME HeadInv, HeadInv', WriterInv, EditedNext, edits' # edits, Intact(db)
               PROVE  Undetectable(db, db') \/ Reported(db, db')
    BY DEF Reported
  <2>1. FileEdit BY DEF EditedNext, NoteHead
  <2>2. LinksOK(db.links) /\ LinksOK(db'.links) /\ TypedFile(db) BY DEF HeadInv, WriterInv
  <2>3. CASE \E r \in Refs, c \in Contents \cup {Garbled} : EditRow(r, c) \/ AddRow(r, c)
    BY <2>2, <2>3, RowEditReported
  <2>4. CASE \E r \in Refs : DropRow(r) BY <2>2, <2>4, RowEditReported
  <2>5. CASE EditChain BY <2>2, <2>5, ChainEditReported
  <2>6. QED BY <2>1, <2>3, <2>4, <2>5 DEF FileEdit
<1>2. QED BY <1>1, HeadInductive, WriterInductive, PTL DEF EditedSpec, EditsReported

-----------------------------------------------------------------------------
(* What an edit of a file only stores wrote is reported as: there the note, *)
(* if there is one, is the first link and not the last.                     *)

\* Until the first edit the file is what the stores made of it.
StoresOnly == edits = 0 => IInv /\ NoteInv

THEOREM StoresOnlyHolds == EditedSpec => []StoresOnly
<1> DEFINE IsCount == edits \in Nat
<1>1. EditedSpec => []IsCount
  <2>1. EditedInit => IsCount BY DEF EditedInit
  <2>2. IsCount /\ [EditedNext]_editedVars => IsCount'
    BY DEF EditedNext, NoteHead, FileEdit, editedVars
  <2>3. QED BY <2>1, <2>2, PTL DEF EditedSpec
<1>2. EditedInit => StoresOnly
  BY InitInv, FileFields DEF EditedInit, StoresOnly, NoteInv, Init
<1>3. IsCount /\ StoresOnly /\ [EditedNext]_editedVars => StoresOnly'
  <2> SUFFICES ASSUME edits \in Nat, StoresOnly, [EditedNext]_editedVars, edits' = 0
               PROVE  IInv' /\ NoteInv'
    BY DEF StoresOnly
  <2>1. ~FileEdit BY DEF FileEdit
  <2>2. [Next]_vars /\ edits = 0 BY <2>1 DEF EditedNext, NoteHead, editedVars
  <2>3. IInv /\ NoteInv BY <2>2 DEF StoresOnly
  <2>4. IInv' BY <2>2, <2>3, StepInv
  <2>5. QED BY <2>2, <2>3, <2>4, NoteStep
<1>4. QED BY <1>1, <1>2, <1>3, PTL DEF EditedSpec

\* Such a file is intact and its last link names a row.
LEMMA StoresOnlyFacts ==
    ASSUME IInv, NoteInv, LinksOK(db.links), db.version = 1
    PROVE  /\ Intact(db) /\ TypedFile(db)
           /\ DOMAIN db.links # {} =>
                /\ TailSeq(db) \in 1 .. TailSeq(db)
                /\ db.links[TailSeq(db)].kind # "note"
<1>1. Intact(db) /\ TypedFile(db)
  BY ChainIsSound, TypeFacts DEF IInv, DbInv, TypedFile, RowsOK
<1>2. TailSeq(db) \in Nat /\ DOMAIN db.links = 1 .. TailSeq(db) BY <1>1, IntactLinks
<1>3. ASSUME DOMAIN db.links # {}
      PROVE  /\ TailSeq(db) \in 1 .. TailSeq(db)
             /\ db.links[TailSeq(db)].kind # "note"
  <2>1. TailSeq(db) \in 1 .. TailSeq(db) BY <1>2, <1>3
  <2>2. MigratedOnce BY NoteIsFirst
  <2> DEFINE n == TailSeq(db)
  <2>3. n \in DOMAIN db.links /\ n \in Nat BY <1>2, <2>1
  <2>4. ASSUME db.links[n].kind = "note" PROVE FALSE
    <3>1. n = 1 /\ db.links[n].note.flights + db.links[n].note.entries \in 1 .. n - 1
      BY <2>2, <2>3, <2>4 DEF MigratedOnce
    <3> HIDE DEF n
    <3>2. QED BY <3>1
  <2>5. QED BY <2>1, <2>4
<1>4. QED BY <1>1, <1>3

\* The last link removed leaves the row it named with none, ...
LEMMA LastLinkMissed ==
    ASSUME NEW old, NEW new, LinksOK(old.links), Intact(old),
           NEW s \in 1 .. TailSeq(old), old.links[s].kind # "note", new.rows = old.rows,
           DOMAIN new.links \subseteq DOMAIN old.links \ {s},
           \A m \in DOMAIN new.links : new.links[m] = old.links[m]
    PROVE  Unjournaled(new)
<1>1. /\ TailSeq(old) \in Nat /\ DOMAIN old.links = 1 .. TailSeq(old)
      /\ \A m \in 1 .. TailSeq(old) : BreakAt(old, m) = "none"
  BY IntactLinks
<1> DEFINE q == <<old.links[s].kind, old.links[s].ref>>
<1>2. s \in Nat \ {0} /\ BreakAt(old, s) = "none" BY <1>1
<1>3. q \in DOMAIN new.rows BY <1>2, SoundNames
<1>4. ~Linked(new, q[1], q[2])
  <2> SUFFICES ASSUME NEW m \in DOMAIN new.links, new.links[m].kind = old.links[s].kind,
                      new.links[m].ref = old.links[s].ref
               PROVE  FALSE
    BY DEF Linked
  <2>1. m \in 1 .. TailSeq(old) /\ m # s /\ new.links[m] = old.links[m] BY <1>1
  <2>2. m = s BY <2>1, IntactNames
  <2>3. QED BY <2>1, <2>2
<1> HIDE DEF q
<1>5. QED BY <1>3, <1>4 DEF Unjournaled

\* ... and a link whose own hash alone was changed is reported for that.
LEMMA HashChanged ==
    ASSUME NEW old, NEW new, LinksOK(old.links), Intact(old),
           NEW s \in DOMAIN old.links, NEW h, h # old.links[s].link,
           new.rows = old.rows, new.links = [old.links EXCEPT ![s].link = h]
    PROVE  FirstBreak(new) = [seq |-> s, kind |-> "link_hash"]
<1>1. /\ TailSeq(old) \in Nat /\ DOMAIN old.links = 1 .. TailSeq(old)
      /\ \A m \in 1 .. TailSeq(old) : BreakAt(old, m) = "none"
  BY IntactLinks
<1>2. /\ DOMAIN new.links = DOMAIN old.links
      /\ \A m \in DOMAIN old.links : m # s => new.links[m] = old.links[m]
      /\ new.links[s] = [old.links[s] EXCEPT !.link = h]
  OBVIOUS
<1>3. IsLink(old.links[s]) BY DEF LinksOK
<1>4. /\ new.links[s].kind = old.links[s].kind /\ new.links[s].ref = old.links[s].ref
      /\ new.links[s].note = old.links[s].note
      /\ new.links[s].content = old.links[s].content
      /\ new.links[s].prev = old.links[s].prev /\ new.links[s].link = h
  BY <1>2, <1>3 DEF IsLink, Columns
<1>5. TailSeq(new) = TailSeq(old) BY <1>2 DEF TailSeq
<1>6. s \in 1 .. TailSeq(old) + 1 /\ s \in 1 .. TailSeq(new) /\ s \in Nat \ {0}
         /\ BreakAt(old, s) = "none"
  BY <1>1, <1>5
<1>7. \A m \in 1 .. (s - 1) :
        m \in DOMAIN old.links /\ m \in DOMAIN new.links /\ new.links[m] = old.links[m]
  BY <1>1, <1>2, <1>6
<1>8. \A m \in 1 .. (s - 1) : BreakAt(new, m) = "none"
  BY <1>6, <1>7, BelowUntouched
<1>9. BreakAt(new, s) = "link_hash"
  <2>1. Present(old, s) BY <1>6 DEF BreakAt
  <2>2. Present(new, s) BY <1>2, <2>1 DEF Present
  <2>3. PrevHash(new, s) = PrevHash(old, s)
    <3>1. s # 1 => s - 1 \in 1 .. (s - 1) BY <1>6
    <3>2. QED BY <1>7, <3>1 DEF PrevHash
  <2>4. Seen(new, s) <=> Seen(old, s) BY <1>4, <1>7 DEF Seen
  <2>5. ContentBreak(new, s) = ContentBreak(old, s)
    <3>1. \A kind, ref : RowContent(new, kind, ref) = RowContent(old, kind, ref)
      BY DEF RowContent
    <3>2. QED BY <1>4, <3>1 DEF ContentBreak
  <2>6. old.links[s].link = LinkHash(s, old.links[s].kind, old.links[s].ref,
                                     old.links[s].content, old.links[s].prev)
    BY <1>6 DEF BreakAt
  <2>7. /\ old.links[s].kind \in KINDS /\ ~(old.links[s].kind # "note" /\ Seen(old, s))
        /\ old.links[s].prev = PrevHash(old, s)
        /\ ~(old.links[s].kind # "note" /\ old.links[s].note # NoNote)
        /\ ContentBreak(old, s) = "none"
    BY <1>6 DEF BreakAt
  <2>8. QED BY <1>4, <2>2, <2>3, <2>4, <2>5, <2>6, <2>7 DEF BreakAt
<1>10. QED BY <1>5, <1>6, <1>1, <1>8, <1>9, FirstBreakIs

\* What an edit at link s of such a file is reported as.
LEMMA NamedAtLink ==
    ASSUME IInv, NoteInv, LinksOK(db.links), LinksOK(db'.links), db.version = 1,
           NEW s \in DOMAIN db.links
    PROVE  LET r == <<db.links[s].kind, db.links[s].ref>> IN
           /\ (\E c \in Contents \cup {Garbled} : EditRow(r, c)) =>
                FirstBreak(db') = [seq |-> s, kind |-> "content"]
           /\ DropRow(r) => FirstBreak(db') = [seq |-> s, kind |-> "missing_row"]
           /\ DropLink(s) => FirstBreak(db') =
                [seq |-> s, kind |-> IF s < TailSeq(db) THEN "sequence" ELSE "unjournaled"]
           /\ \A h \in Hashes(db) \ {db.links[s].link} :
                db' = WithLinks(db, [db.links EXCEPT ![s].link = h]) =>
                  FirstBreak(db') = [seq |-> s, kind |-> "link_hash"]
<1> DEFINE r == <<db.links[s].kind, db.links[s].ref>>
<1>1. PICK new : new = db' OBVIOUS
<1>2. LinksOK(new.links) BY <1>1
<1>3. Intact(db) /\ TypedFile(db) BY StoresOnlyFacts
<1>4. TailSeq(db) \in 1 .. TailSeq(db) /\ db.links[TailSeq(db)].kind # "note"
  BY StoresOnlyFacts
<1>5. TailSeq(db) \in Nat /\ DOMAIN db.links = 1 .. TailSeq(db) BY <1>3, IntactLinks
<1>6. s \in 1 .. TailSeq(db) BY <1>5
<1>7. r \in DOMAIN db.rows => db.links[s].kind # "note"
  BY <1>3 DEF TypedFile, Refs, RowKinds
<1>8. ASSUME NEW c \in Contents \cup {Garbled}, EditRow(r, c)
      PROVE  FirstBreak(new) = [seq |-> s, kind |-> "content"]
  <2>1. /\ r \in DOMAIN db.rows /\ c # db.rows[r]
        /\ new = WithRows(db, [db.rows EXCEPT ![r] = c])
    BY <1>1, <1>8 DEF EditRow
  <2>2. /\ FirstBreak(new) = [seq |-> s, kind |-> ContentBreak(new, s)]
        /\ ContentBreak(new, s) = "content"
    BY <1>3, <1>6, <1>7, <2>1, EditedRow
  <2>3. QED BY <2>2
<1>9. ASSUME DropRow(r) PROVE FirstBreak(new) = [seq |-> s, kind |-> "missing_row"]
  <2>1. r \in DOMAIN db.rows /\ new = WithRows(db, Only(db.rows, DOMAIN db.rows \ {r}))
    BY <1>1, <1>9 DEF DropRow
  <2>2. db.links[s].kind # "note" BY <1>7, <2>1
  <2>3. QED BY <1>3, <1>6, <2>1, <2>2, DroppedRow, Zenon
<1>10. ASSUME DropLink(s)
       PROVE  FirstBreak(new) =
                [seq |-> s, kind |-> IF s < TailSeq(db) THEN "sequence" ELSE "unjournaled"]
  <2>1. /\ new.rows = db.rows /\ DOMAIN new.links = DOMAIN db.links \ {s}
        /\ \A m \in DOMAIN new.links : new.links[m] = db.links[m]
    BY <1>1, <1>10, FileFields DEF DropLink, WithLinks, Only
  <2>2. /\ s < TailSeq(db) => FirstBreak(new) = [seq |-> s, kind |-> "sequence"]
        /\ s = TailSeq(db) /\ Unjournaled(new) =>
             FirstBreak(new) = [seq |-> s, kind |-> "unjournaled"]
    BY <1>2, <1>3, <2>1, DroppedLink
  <2>3. s = TailSeq(db) => Unjournaled(new)
    <3> SUFFICES ASSUME s = TailSeq(db) PROVE Unjournaled(new) OBVIOUS
    <3>1. db.links[s].kind # "note" BY <1>4
    <3>2. DOMAIN new.links \subseteq DOMAIN db.links \ {s} BY <2>1
    <3>3. QED BY <1>3, <1>6, <2>1, <3>1, <3>2, LastLinkMissed
  <2>4. s < TailSeq(db) \/ (s = TailSeq(db) /\ ~(s < TailSeq(db))) BY <1>5, <1>6
  <2>5. QED BY <2>2, <2>3, <2>4
<1>11. ASSUME NEW h, h # db.links[s].link,
              db' = WithLinks(db, [db.links EXCEPT ![s].link = h])
       PROVE  FirstBreak(new) = [seq |-> s, kind |-> "link_hash"]
  <2>1. new.rows = db.rows /\ new.links = [db.links EXCEPT ![s].link = h]
    BY <1>1, <1>11, FileFields DEF WithLinks
  <2>2. QED BY <1>3, <1>11, <2>1, HashChanged
<1>12. QED BY <1>1, <1>8, <1>9, <1>10, <1>11

\* LIMITS.md: what each edit of a file only stores wrote is reported as, by name and place.
THEOREM BreaksNamedHolds == EditedSpec => BreaksNamed
<1> DEFINE Named ==
      db.version = 1 /\ edits = 0 /\ edits' = 1 =>
         /\ \A s \in DOMAIN db.links :
              LET r == <<db.links[s].kind, db.links[s].ref>> IN
              /\ (\E c \in Contents \cup {Garbled} : EditRow(r, c)) =>
                   FirstBreak(db') = [seq |-> s, kind |-> "content"]
              /\ DropRow(r) => FirstBreak(db') = [seq |-> s, kind |-> "missing_row"]
              /\ DropLink(s) => FirstBreak(db') =
                   [seq |-> s, kind |-> IF s < TailSeq(db) THEN "sequence"
                                       ELSE "unjournaled"]
              /\ \A h \in Hashes(db) \ {db.links[s].link} :
                   db' = WithLinks(db, [db.links EXCEPT ![s].link = h]) =>
                     FirstBreak(db') = [seq |-> s, kind |-> "link_hash"]
         /\ (\E r \in Refs, c \in Contents \cup {Garbled} : AddRow(r, c)) =>
              FirstBreak(db') = [seq |-> TailSeq(db) + 1, kind |-> "unjournaled"]
         /\ Wipe => FirstBreak(db') = [seq |-> 1, kind |-> "unjournaled"]
<1>1. HeadInv /\ HeadInv' /\ StoresOnly => Named
  <2> SUFFICES ASSUME HeadInv, HeadInv', StoresOnly, db.version = 1, edits = 0
               PROVE  Named
    OBVIOUS
  <2>1. IInv /\ NoteInv /\ LinksOK(db.links) /\ LinksOK(db'.links)
    BY DEF StoresOnly, HeadInv
  <2>2. PICK new : new = db' OBVIOUS
  <2>3. Intact(db) /\ LinksOK(new.links) BY <2>1, <2>2, StoresOnlyFacts
  <2>4. ASSUME NEW r \in Refs, NEW c \in Contents \cup {Garbled}, AddRow(r, c)
        PROVE  FirstBreak(new) = [seq |-> TailSeq(db) + 1, kind |-> "unjournaled"]
    <3>1. r \notin DOMAIN db.rows /\ new = Put(db, r, c) BY <2>2, <2>4 DEF AddRow, Put
    <3>2. QED BY <2>1, <2>3, <3>1, AddedRow
  <2>5. ASSUME Wipe PROVE FirstBreak(new) = [seq |-> 1, kind |-> "unjournaled"]
    <3>1. new.rows = db.rows /\ DOMAIN new.links = {} /\ DOMAIN db.links # {}
      BY <2>2, <2>5, FileFields DEF Wipe, WithLinks, EmptyFunction
    <3>2. TailSeq(db) \in 1 .. TailSeq(db) /\ db.links[TailSeq(db)].kind # "note"
      BY <2>1, <3>1, StoresOnlyFacts
    <3>3. Unjournaled(new) BY <2>1, <2>3, <3>1, <3>2, LastLinkMissed
    <3>4. QED BY <2>1, <2>3, <3>1, <3>3, WipedChain
  <2>6. QED BY <2>1, <2>2, <2>4, <2>5, NamedAtLink
<1>2. HeadInv /\ HeadInv' /\ StoresOnly /\ [EditedNext]_editedVars => [Named]_editedVars
  BY <1>1
<1>3. QED BY <1>2, HeadInductive, StoresOnlyHolds, PTL DEF EditedSpec, BreaksNamed

=============================================================================
