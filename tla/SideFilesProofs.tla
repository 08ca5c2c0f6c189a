-------------------------- MODULE SideFilesProofs --------------------------
(***************************************************************************)
(* Proofs about SideFiles, for every set of processes, set of pages, cap   *)
(* and bound: short of damage nothing committed is lost, whatever commands *)
(* are stopped and however far a fold got; whoever is refused or only      *)
(* reads leaves the file and the -wal it found as they were; and a refusal *)
(* of a damaged store says where the damage is.                            *)
(***************************************************************************)
EXTENDS SideFiles, FiniteSetTheorems, TLAPS

-----------------------------------------------------------------------------
(* The inductive invariant.                                                 *)

\* The last of the first n commits of h that wrote page p, and the pages after them.
Written(h, n, p) == Max({0} \cup {i \in 1..n : p \in h[i]})
StateOf(h, n) == [p \in Pages |-> Written(h, n, p)]

\* What a fold of w into f, up to commit n and by page number up to `last`, leaves in the file.
Folded(f, w, n, last) ==
    [p \in Pages |->
        LET i == Latest(w, ReadableLen(w), p)
        IN  IF p <= last /\ i \in 1..n THEN w[i].version ELSE f[p]]

\* How many commits of h are no longer in w: a fold has put them in the file.
Base(w, h) == Len(h) - Len(w)

\* Where the open reads of a end.
MarksOf(a) == {a[q].mark : q \in Processes} \ {NoRead}

PageValue(n) == (0..n) \cup {Damaged}
Frames == [pages : SUBSET Pages, version : Nat \ {0}, bad : SUBSET Pages]

FilesTyped(f, w, k, h) ==
    /\ h \in Seq(SUBSET Pages) /\ Len(h) <= MaxCommits
    /\ \A i \in 1..Len(h) : h[i] # {}
    /\ f \in [Pages -> PageValue(Len(h))]
    /\ w \in Seq(Frames)
    /\ \A i \in 1..Len(w) : w[i].version <= Len(h)
    /\ k \in 0..Len(w)

\* The -wal holds the last commits, whatever became of their frames.
WalIsCopies(w, h) ==
    /\ Base(w, h) >= 0
    /\ \A i \in 1..Len(w) : w[i].pages = h[Base(w, h) + i] /\ w[i].version = Base(w, h) + i

\* It holds them undamaged.
WalIsTail(w, h) ==
    /\ WalIsCopies(w, h)
    /\ \A i \in 1..Len(w) : w[i].bad = {}

\* A page of the file is as it was when the -wal started, or as a commit in the -wal left it
\* that no read still open is older than.
InFile(f, w, h, marks, p) ==
    \/ f[p] = Written(h, Base(w, h), p)
    \/ \E i \in 1..Len(w) : /\ p \in w[i].pages /\ f[p] = Base(w, h) + i
                            /\ \A m \in marks : i <= m

\* SQLite counts commits as folded only when they are in the file.
FoldedIsInFile(f, w, k, h, p) ==
    Latest(w, Len(w), p) \in 1..k => f[p] = Base(w, h) + Latest(w, Len(w), p)

Clean(f, w, k, h, marks) ==
    /\ WalIsTail(w, h)
    /\ \A p \in Pages : InFile(f, w, h, marks, p)
    /\ \A p \in Pages : FoldedIsInFile(f, w, k, h, p)

\* What integrity_check was asked of are never the pages of one committed state.
Verdicts(v, h) ==
    \A pages \in DOMAIN v :
        /\ \A p \in Pages : pages[p] \in PageValue(Len(h))
        /\ \A n \in 0..Len(h) : pages # StateOf(h, n)

Acts == [at : Places, reads : BOOLEAN, left : BOOLEAN, keepWal : BOOLEAN, found : BOOLEAN,
         mark : Int, state : Int, again : BOOLEAN, tries : Int]

\* Of a process a: its read is of the state its mark in the -wal stands for; a -wal it found is
\* kept; only a damaged store is refused, by a command that looked for its -wal.
Of(a, w, h, s) ==
    /\ a.mark # NoRead => /\ a.at = "using" /\ a.mark \in 0..Len(w)
                          /\ ~s => a.state = Base(w, h) + a.mark
    /\ a.found => a.at \in {"using", "last"} /\ a.reads /\ a.keepWal
    /\ a.at = "refused" => s
    /\ a.at \in {"check", "refused"} /\ s => a.left \/ w = <<>>

Told(t, w, s) == t.refused => s /\ (t.walKept \/ w = <<>>)

SideInv ==
    /\ FilesTyped(file, wal, folded, history)
    /\ act \in [Processes -> Acts] /\ spoilt \in BOOLEAN
    /\ Told(told, wal, spoilt)
    /\ Verdicts(verdict, history)
    /\ \A p \in Processes : Of(act[p], wal, history, spoilt)
    /\ ~spoilt => Clean(file, wal, folded, history, MarksOf(act))

-----------------------------------------------------------------------------
(* Least and greatest numbers.                                              *)

\* Every set of numbers that is not empty has a least one. (The library's induction on
\* numbers takes a predicate; its order on finite sets takes none.)
LEMMA Least ==
    ASSUME NEW T \in SUBSET Nat, T # {}
    PROVE  \E n \in T : \A m \in T : n <= m
<1> DEFINE Below == {0 .. n : n \in T}
<1>1. Below \subseteq FiniteSubsetsOf(Nat)
  <2> SUFFICES ASSUME NEW n \in T PROVE 0 .. n \in FiniteSubsetsOf(Nat)
    OBVIOUS
  <2>1. IsFiniteSet(0 .. n) BY FS_Interval
  <2>2. 0 .. n \subseteq Nat OBVIOUS
  <2>3. QED BY <2>1, <2>2 DEF FiniteSubsetsOf
<1>2. Below # {} OBVIOUS
<1>3. IsWellFoundedOn(StrictSubsetOrdering(Nat), FiniteSubsetsOf(Nat))
  BY FS_StrictSubsetOrderingWellFounded
<1> HIDE DEF Below
<1>4. \E x \in Below : \A y \in Below : ~(<<y, x>> \in StrictSubsetOrdering(Nat))
  BY <1>1, <1>2, <1>3, WFMin, Zenon
<1>5. PICK n \in T : \A m \in T : ~(<<0 .. m, 0 .. n>> \in StrictSubsetOrdering(Nat))
  BY <1>4 DEF Below
<1>6. ASSUME NEW m \in T, m < n PROVE FALSE
  <2>1. 0 .. m \subseteq 0 .. n /\ n \in 0 .. n /\ n \notin 0 .. m
    BY <1>6
  <2>2. <<0 .. m, 0 .. n>> \in StrictSubsetOrdering(Nat)
    BY <2>1 DEF StrictSubsetOrdering
  <2>3. QED BY <2>2, <1>5
<1>7. QED BY <1>6

\* Every set of numbers with a bound, not empty, has a greatest one.
LEMMA Greatest ==
    ASSUME NEW T \in SUBSET Nat, T # {}, NEW N \in Nat, T \subseteq 0 .. N
    PROVE  \E n \in T : \A m \in T : m <= n
<1> DEFINE Bounds == {b \in Nat : \A m \in T : m <= b}
<1>1. Bounds # {} BY DEF Bounds
<1>2. PICK b \in Bounds : \A c \in Bounds : b <= c BY <1>1, Least
<1>3. b \in T
  <2> SUFFICES ASSUME b \notin T PROVE FALSE OBVIOUS
  <2>1. PICK m \in T : TRUE OBVIOUS
  <2>2. \A k \in T : k <= b /\ k # b BY <1>2
  <2>3. b # 0 /\ b - 1 \in Nat BY <2>1, <2>2, <1>2
  <2>4. b - 1 \in Bounds BY <2>2, <2>3, <1>2
  <2>5. QED BY <2>4, <1>2
<1>4. QED BY <1>2, <1>3


\* A finite set of numbers, not empty, has a greatest one.
LEMMA GreatestOfFinite ==
    ASSUME NEW T \in SUBSET Nat, T # {}, IsFiniteSet(T)
    PROVE  \E n \in T : \A m \in T : m <= n
<1> DEFINE Above(n) == {y \in T : y > n}
           All == {Above(n) : n \in T}
<1>1. All \subseteq FiniteSubsetsOf(T)
  <2> SUFFICES ASSUME NEW n \in T PROVE Above(n) \in FiniteSubsetsOf(T)
    OBVIOUS
  <2>1. IsFiniteSet(Above(n)) BY FS_Subset
  <2>2. QED BY <2>1 DEF FiniteSubsetsOf
<1>2. All # {} OBVIOUS
<1>3. IsWellFoundedOn(StrictSubsetOrdering(T), FiniteSubsetsOf(T))
  BY FS_StrictSubsetOrderingWellFounded
<1> HIDE DEF All
<1>4. \E x \in All : \A y \in All : ~(<<y, x>> \in StrictSubsetOrdering(T))
  BY <1>1, <1>2, <1>3, WFMin, Zenon
<1>5. PICK n \in T : \A m \in T : ~(<<Above(m), Above(n)>> \in StrictSubsetOrdering(T))
  BY <1>4 DEF All
<1>6. ASSUME NEW m \in T, m > n PROVE FALSE
  <2>1. \A y \in T : y \in Nat /\ (y > m => y > n) BY <1>6
  <2>4. m \in Above(n) BY <1>6
  <2>5. m \notin Above(m) BY <2>1
  <2>6. Above(m) \subseteq Above(n) BY <2>1
  <2>2. <<Above(m), Above(n)>> \in StrictSubsetOrdering(T)
    BY <2>4, <2>5, <2>6 DEF StrictSubsetOrdering
  <2>3. QED BY <2>2, <1>5
<1>7. QED
  <2>1. \A m \in T : m \in Nat /\ n \in Nat OBVIOUS
  <2>2. QED BY <1>6, <2>1

\* What Max and Min choose, of numbers.
LEMMA MaxFacts ==
    ASSUME NEW T \in SUBSET Nat, T # {}, NEW N \in Nat, T \subseteq 0 .. N
    PROVE  Max(T) \in T /\ \A m \in T : m <= Max(T)
BY Greatest DEF Max

\* The least of a set of numbers is in it, and none is below it.
LEMMA MinFacts ==
    ASSUME NEW T \in SUBSET Nat, T # {}
    PROVE  Min(T) \in T /\ \A m \in T : Min(T) <= m
BY Least DEF Min

\* The highest page number is a page's.
LEMMA TopPage == Max(Pages) \in Pages /\ Max(Pages) \in Nat /\ \A p \in Pages : p <= Max(Pages)
<1>1. \E n \in Pages : \A m \in Pages : m <= n BY GreatestOfFinite, SideFilesAssumption
<1>2. QED BY <1>1, SideFilesAssumption DEF Max

-----------------------------------------------------------------------------
(* What SQLite reads and folds.                                             *)

\* The last commit that wrote a page did, and none after it.
LEMMA LatestFacts ==
    ASSUME NEW w, NEW n \in Nat, NEW p
    PROVE  /\ Latest(w, n, p) \in 0 .. n
           /\ Latest(w, n, p) # 0 => p \in w[Latest(w, n, p)].pages
           /\ \A i \in 1 .. n : p \in w[i].pages => i <= Latest(w, n, p)
<1> DEFINE T == {0} \cup {i \in 1 .. n : p \in w[i].pages}
<1>1. T \in SUBSET Nat /\ T # {} /\ T \subseteq 0 .. n OBVIOUS
<1> HIDE DEF T
<1>2. Max(T) \in T /\ \A m \in T : m <= Max(T) BY <1>1, MaxFacts
<1>3. Latest(w, n, p) = Max(T) BY DEF Latest, T
<1>4. QED BY <1>2, <1>3 DEF T

\* It is the only one like that.
LEMMA LatestIs ==
    ASSUME NEW w, NEW n \in Nat, NEW p, NEW k \in 0 .. n,
           k # 0 => p \in w[k].pages,
           \A i \in 1 .. n : p \in w[i].pages => i <= k
    PROVE  Latest(w, n, p) = k
<1>1. Latest(w, n, p) <= k BY LatestFacts
<1>2. k <= Latest(w, n, p) BY LatestFacts
<1>3. QED BY <1>1, <1>2, LatestFacts

\* The same of the commits themselves.
LEMMA WrittenFacts ==
    ASSUME NEW h, NEW n \in Nat, NEW p
    PROVE  /\ Written(h, n, p) \in 0 .. n
           /\ Written(h, n, p) # 0 => p \in h[Written(h, n, p)]
           /\ \A i \in 1 .. n : p \in h[i] => i <= Written(h, n, p)
<1> DEFINE T == {0} \cup {i \in 1 .. n : p \in h[i]}
<1>1. T \in SUBSET Nat /\ T # {} /\ T \subseteq 0 .. n OBVIOUS
<1> HIDE DEF T
<1>2. Max(T) \in T /\ \A m \in T : m <= Max(T) BY <1>1, MaxFacts
<1>3. Written(h, n, p) = Max(T) BY DEF Written, T
<1>4. QED BY <1>2, <1>3 DEF T

\* A commit that wrote the page, with none after it that did, is the last that did.
LEMMA WrittenIs ==
    ASSUME NEW h, NEW n \in Nat, NEW p, NEW k \in 0 .. n,
           k # 0 => p \in h[k],
           \A i \in 1 .. n : p \in h[i] => i <= k
    PROVE  Written(h, n, p) = k
<1>1. Written(h, n, p) <= k BY WrittenFacts
<1>2. k <= Written(h, n, p) BY WrittenFacts
<1>3. QED BY <1>1, <1>2, WrittenFacts

\* What earlier commits wrote does not change with later ones.
LEMMA WrittenBefore ==
    ASSUME NEW h, NEW g, NEW n \in Nat, \A i \in 1 .. n : h[i] = g[i], NEW p
    PROVE  Written(h, n, p) = Written(g, n, p)
<1>1. /\ Written(g, n, p) \in 0 .. n
      /\ Written(g, n, p) # 0 => p \in h[Written(g, n, p)]
      /\ \A i \in 1 .. n : p \in h[i] => i <= Written(g, n, p)
  BY WrittenFacts
<1>2. QED BY <1>1, WrittenIs

\* A -wal is read from its start, and an undamaged one to its end.
LEMMA ReadableFacts ==
    ASSUME NEW w, Len(w) \in Nat
    PROVE  /\ ReadableLen(w) \in 0 .. Len(w)
           /\ (\A i \in 1 .. Len(w) : w[i].bad = {}) => ReadableLen(w) = Len(w)
<1> DEFINE T == {n \in 0 .. Len(w) : \A i \in 1 .. n : w[i].bad = {}}
<1>1. T \in SUBSET Nat /\ 0 \in T /\ T \subseteq 0 .. Len(w) OBVIOUS
<1>2. (\A i \in 1 .. Len(w) : w[i].bad = {}) => Len(w) \in T OBVIOUS
<1> HIDE DEF T
<1>3. Max(T) \in T /\ \A m \in T : m <= Max(T) BY <1>1, MaxFacts
<1>4. ReadableLen(w) = Max(T) BY DEF ReadableLen, T
<1>5. Max(T) \in 0 .. Len(w) BY <1>1, <1>3
<1>6. ASSUME \A i \in 1 .. Len(w) : w[i].bad = {} PROVE Max(T) = Len(w)
  <2>1. Len(w) <= Max(T) BY <1>2, <1>3, <1>6
  <2>2. QED BY <2>1, <1>5
<1>7. QED BY <1>4, <1>5, <1>6

\* The last commit that wrote a page, counted in the -wal or from the start.
LEMMA WrittenInWal ==
    ASSUME NEW w, NEW h, WalIsCopies(w, h), Len(w) \in Nat, Len(h) \in Nat,
           NEW n \in 0 .. Len(w), NEW p
    PROVE  Written(h, Base(w, h) + n, p) = IF Latest(w, n, p) = 0 THEN Written(h, Base(w, h), p)
                                           ELSE Base(w, h) + Latest(w, n, p)
<1> DEFINE b == Base(w, h)
<1>1. b \in Nat /\ \A i \in 1 .. n : w[i].pages = h[b + i] BY DEF WalIsCopies, Base
<1>2. /\ Latest(w, n, p) \in 0 .. n
      /\ Latest(w, n, p) # 0 => p \in w[Latest(w, n, p)].pages
      /\ \A i \in 1 .. n : p \in w[i].pages => i <= Latest(w, n, p)
  BY LatestFacts
<1>3. /\ Written(h, b, p) \in 0 .. b
      /\ Written(h, b, p) # 0 => p \in h[Written(h, b, p)]
      /\ \A i \in 1 .. b : p \in h[i] => i <= Written(h, b, p)
  BY <1>1, WrittenFacts
<1> HIDE DEF b
<1>0. b \in Nat /\ n \in Nat /\ b + n \in Nat BY <1>1
<1>4. ASSUME NEW i \in (b + 1) .. (b + n), p \in h[i]
      PROVE  i - b \in 1 .. n /\ p \in w[i - b].pages /\ i - b <= Latest(w, n, p)
  <2>1. i - b \in 1 .. n /\ b + (i - b) = i BY <1>1
  <2>2. QED BY <2>1, <1>1, <1>2, <1>4
<1>5. CASE Latest(w, n, p) = 0
  <2>1. \A i \in 1 .. (b + n) : p \in h[i] => i <= Written(h, b, p)
    <3> SUFFICES ASSUME NEW i \in 1 .. (b + n), p \in h[i] PROVE i <= Written(h, b, p)
      OBVIOUS
    <3>0. p \in h[i] OBVIOUS
    <3>1. i <= b
      <4>1. SUFFICES ASSUME i > b PROVE FALSE BY <1>0
      <4>2. i \in (b + 1) .. (b + n) BY <4>1, <1>0
      <4>3. i - b \in 1 .. n /\ i - b <= 0 BY <4>2, <3>0, <1>4, <1>5
      <4>4. QED BY <4>3
    <3>2. QED BY <3>1, <1>3, <1>1
  <2>2a. Written(h, b, p) \in 0 .. (b + n) BY <1>0, <1>3
  <2>2. Written(h, b + n, p) = Written(h, b, p) BY <2>1, <1>0, <1>3, <2>2a, WrittenIs
  <2>3. QED BY <2>2, <1>5 DEF b
<1>6. CASE Latest(w, n, p) # 0
  <2>1. b + Latest(w, n, p) \in 0 .. (b + n) /\ p \in h[b + Latest(w, n, p)]
    BY <1>1, <1>2, <1>6
  <2>2. \A i \in 1 .. (b + n) : p \in h[i] => i <= b + Latest(w, n, p)
    BY <1>1, <1>2, <1>4
  <2>3. Written(h, b + n, p) = b + Latest(w, n, p) BY <2>1, <2>2, <1>1, WrittenIs
  <2>4. QED BY <2>3, <1>6 DEF b
<1>7. QED BY <1>5, <1>6

-----------------------------------------------------------------------------
(* What becomes of the two files.                                           *)

\* The numbers of a typed pair of files.
LEMMA FilesFacts ==
    ASSUME NEW f, NEW w, NEW k, NEW h, FilesTyped(f, w, k, h)
    PROVE  /\ Len(w) \in Nat /\ Len(h) \in Nat /\ k \in 0 .. Len(w)
           /\ ReadableLen(w) \in 0 .. Len(w)
           /\ \A i \in 1 .. Len(w) : w[i] \in Frames /\ w[i].version \in 1 .. Len(h)
           /\ \A p \in Pages : f[p] \in PageValue(Len(h))
<1>1. Len(w) \in Nat /\ Len(h) \in Nat /\ k \in 0 .. Len(w) BY DEF FilesTyped
<1>2. ReadableLen(w) \in 0 .. Len(w) BY <1>1, ReadableFacts
<1>3. ASSUME NEW i \in 1 .. Len(w) PROVE w[i] \in Frames /\ w[i].version \in 1 .. Len(h)
  <2>1. w[i] \in Frames /\ w[i].version <= Len(h) BY DEF FilesTyped
  <2>2. w[i].version \in Nat \ {0} BY <2>1 DEF Frames
  <2>3. QED BY <2>1, <2>2, <1>1
<1>4. \A p \in Pages : f[p] \in PageValue(Len(h)) BY DEF FilesTyped
<1>5. QED BY <1>1, <1>2, <1>3, <1>4

\* A fold writes what commits in the -wal hold.
LEMMA FoldTyped ==
    ASSUME NEW f, NEW w, NEW k, NEW h, FilesTyped(f, w, k, h), NEW n, NEW last,
           NEW j \in 0 .. Len(w), n \in 0 .. Len(w)
    PROVE  FilesTyped(Folded(f, w, n, last), w, j, h)
<1>1. /\ Len(w) \in Nat /\ Len(h) \in Nat
      /\ \A i \in 1 .. Len(w) : w[i] \in Frames /\ w[i].version \in 1 .. Len(h)
      /\ \A p \in Pages : f[p] \in PageValue(Len(h))
  BY FilesFacts
<1>2. ASSUME NEW p \in Pages PROVE Folded(f, w, n, last)[p] \in PageValue(Len(h))
  <2> DEFINE i == Latest(w, ReadableLen(w), p)
  <2>1. i \in 1 .. n => w[i].version \in PageValue(Len(h))
    <3>1. i \in 1 .. n => i \in 1 .. Len(w) BY <1>1
    <3> HIDE DEF i
    <3>2. QED BY <3>1, <1>1 DEF PageValue
  <2>2. Folded(f, w, n, last)[p] = IF p <= last /\ i \in 1 .. n THEN w[i].version ELSE f[p]
    BY DEF Folded
  <2> HIDE DEF i
  <2>3. QED BY <2>1, <2>2, <1>1
<1>3. Folded(f, w, n, last) \in [Pages -> PageValue(Len(h))] BY <1>2 DEF Folded
<1>4. QED BY <1>3 DEF FilesTyped

\* A fold of nothing writes nothing.
LEMMA FoldOfNothing ==
    ASSUME NEW f, NEW S, f \in [Pages -> S], NEW last
    PROVE  Folded(f, <<>>, ReadableLen(<<>>), last) = f
<1>1. Len(<<>>) = 0 OBVIOUS
<1>2. ReadableLen(<<>>) = 0
  <2>1. ReadableLen(<<>>) \in 0 .. Len(<<>>) BY <1>1, ReadableFacts
  <2>2. QED BY <2>1, <1>1
<1>3. \A i : ~(i \in 1 .. 0) OBVIOUS
<1>4. QED BY <1>2, <1>3 DEF Folded

\* An empty -wal.
LEMMA EmptyTyped ==
    ASSUME NEW f, NEW w, NEW k, NEW h, FilesTyped(f, w, k, h)
    PROVE  FilesTyped(f, <<>>, 0, h)
<1>1. <<>> \in Seq(Frames) /\ Len(<<>>) = 0 OBVIOUS
<1>2. \A i : ~(i \in 1 .. 0) OBVIOUS
<1>3. QED BY <1>1, <1>2 DEF FilesTyped

\* What an undamaged -wal leaves to say of a page.
LEMMA CleanFacts ==
    ASSUME NEW f, NEW w, NEW k, NEW h, NEW marks, FilesTyped(f, w, k, h),
           Clean(f, w, k, h, marks)
    PROVE  /\ Len(w) \in Nat /\ Len(h) \in Nat /\ Base(w, h) \in Nat
           /\ Len(h) = Base(w, h) + Len(w)
           /\ ReadableLen(w) = Len(w)
           /\ \A i \in 1 .. Len(w) : /\ w[i].pages = h[Base(w, h) + i]
                                     /\ w[i].version = Base(w, h) + i
           /\ \A p \in Pages : Latest(w, Len(w), p) \in 0 .. Len(w)
<1>1. Len(w) \in Nat /\ Len(h) \in Nat BY FilesFacts
<1>2. WalIsTail(w, h) BY DEF Clean
<1>3. ReadableLen(w) = Len(w) BY <1>1, <1>2, ReadableFacts DEF WalIsTail, WalIsCopies
<1>4. \A p \in Pages : Latest(w, Len(w), p) \in 0 .. Len(w) BY <1>1, LatestFacts
<1>5. Base(w, h) \in Nat /\ Len(h) = Base(w, h) + Len(w) BY <1>1, <1>2 DEF WalIsTail, WalIsCopies, Base
<1>6. \A i \in 1 .. Len(w) : /\ w[i].pages = h[Base(w, h) + i]
                             /\ w[i].version = Base(w, h) + i
  BY <1>2 DEF WalIsTail, WalIsCopies
<1>7. QED BY <1>1, <1>3, <1>4, <1>5, <1>6

\* Up to the mark of every read left, a fold may go, and be stopped anywhere.
LEMMA FoldClean ==
    ASSUME NEW f, NEW w, NEW k, NEW h, NEW marks \in SUBSET Nat, FilesTyped(f, w, k, h),
           Clean(f, w, k, h, marks), NEW left \in SUBSET marks, NEW n \in 0 .. Len(w),
           \A m \in left : n <= m, NEW last
    PROVE  /\ Clean(Folded(f, w, n, last), w, k, h, left)
           /\ last = Max(Pages) => Clean(Folded(f, w, n, last), w, n, h, left)
<1>1. /\ Len(w) \in Nat /\ Base(w, h) \in Nat
      /\ ReadableLen(w) = Len(w)
      /\ \A i \in 1 .. Len(w) : w[i].version = Base(w, h) + i
      /\ \A p \in Pages : Latest(w, Len(w), p) \in 0 .. Len(w)
  BY CleanFacts
<1>2. WalIsTail(w, h) BY DEF Clean
<1> DEFINE i(p) == Latest(w, Len(w), p)
<1>3. \A p \in Pages : i(p) # 0 => p \in w[i(p)].pages BY <1>1, LatestFacts
<1>4. ASSUME NEW p \in Pages
      PROVE  Folded(f, w, n, last)[p] =
                 IF p <= last /\ i(p) \in 1 .. n THEN Base(w, h) + i(p) ELSE f[p]
  <2>1. Folded(f, w, n, last)[p] =
            IF p <= last /\ i(p) \in 1 .. n THEN w[i(p)].version ELSE f[p]
    BY <1>1 DEF Folded
  <2>2. i(p) \in 1 .. n => w[i(p)].version = Base(w, h) + i(p)
    <3>1. i(p) \in 1 .. n => i(p) \in 1 .. Len(w) BY <1>1
    <3> HIDE DEF i
    <3>2. QED BY <3>1, <1>1
  <2> HIDE DEF i
  <2>3. QED BY <2>1, <2>2
<1>5. ASSUME NEW p \in Pages PROVE InFile(Folded(f, w, n, last), w, h, left, p)
  <2>1. CASE p <= last /\ i(p) \in 1 .. n
    <3>1. i(p) \in 1 .. Len(w) /\ p \in w[i(p)].pages /\ \A m \in left : i(p) <= n /\ n <= m
      BY <2>1, <1>1, <1>3
    <3>2. Folded(f, w, n, last)[p] = Base(w, h) + i(p) BY <2>1, <1>4
    <3>3. \A m \in left : i(p) <= m
      <4> SUFFICES ASSUME NEW m \in left PROVE i(p) <= m OBVIOUS
      <4>1. m \in Nat /\ i(p) \in Nat BY <1>1
      <4> HIDE DEF i
      <4>2. QED BY <3>1, <4>1
    <3> HIDE DEF i
    <3>4. QED BY <3>1, <3>2, <3>3 DEF InFile
  <2>2. CASE ~(p <= last /\ i(p) \in 1 .. n)
    <3>1. Folded(f, w, n, last)[p] = f[p] BY <2>2, <1>4
    <3>2. InFile(f, w, h, marks, p) BY DEF Clean
    <3>3. QED BY <3>1, <3>2 DEF InFile
  <2>3. QED BY <2>1, <2>2
<1>6. ASSUME NEW p \in Pages PROVE FoldedIsInFile(Folded(f, w, n, last), w, k, h, p)
  <2>1. FoldedIsInFile(f, w, k, h, p) BY DEF Clean
  <2>2. QED BY <2>1, <1>4 DEF FoldedIsInFile
<1>7. ASSUME last = Max(Pages), NEW p \in Pages
      PROVE  FoldedIsInFile(Folded(f, w, n, last), w, n, h, p)
  <2>1. p <= last BY <1>7, TopPage
  <2>2. QED BY <2>1, <1>4 DEF FoldedIsInFile
<1>8. QED BY <1>2, <1>5, <1>6, <1>7 DEF Clean

\* Whoever reads the file and the -wal up to its mark, or to its end, sees a committed state.
LEMMA CleanIsRead ==
    ASSUME NEW f, NEW w, NEW k, NEW h, NEW marks, FilesTyped(f, w, k, h),
           Clean(f, w, k, h, marks), NEW n \in marks \cup {Len(w)}, n \in 0 .. Len(w)
    PROVE  View(f, w, n) = StateOf(h, Base(w, h) + n)
<1>1. /\ Len(w) \in Nat /\ Base(w, h) \in Nat /\ Len(h) \in Nat
      /\ \A i \in 1 .. Len(w) : w[i].version = Base(w, h) + i
  BY CleanFacts
<1>2. ASSUME NEW p \in Pages PROVE View(f, w, n)[p] = StateOf(h, Base(w, h) + n)[p]
  <2> DEFINE i == Latest(w, n, p)
  <2>1. i \in 0 .. n /\ \A j \in 1 .. n : p \in w[j].pages => j <= i
    BY <1>1, LatestFacts
  <2>2. StateOf(h, Base(w, h) + n)[p] = IF i = 0 THEN Written(h, Base(w, h), p)
                                        ELSE Base(w, h) + i
    BY <1>1, WrittenInWal DEF StateOf, Clean, WalIsTail
  <2>3. View(f, w, n)[p] = IF i = 0 THEN f[p] ELSE w[i].version BY DEF View
  <2>4. i # 0 => w[i].version = Base(w, h) + i
    <3>1. i # 0 => i \in 1 .. Len(w) BY <2>1, <1>1
    <3> HIDE DEF i
    <3>2. QED BY <3>1, <1>1
  <2>5. i = 0 => f[p] = Written(h, Base(w, h), p)
    <3>1. ASSUME i = 0, NEW j \in 1 .. Len(w), p \in w[j].pages, \A m \in marks : j <= m
          PROVE  FALSE
      <4>1. j \in 1 .. n BY <3>1, <1>1
      <4>2. QED BY <4>1, <2>1, <3>1
    <3>2. InFile(f, w, h, marks, p) BY DEF Clean
    <3> HIDE DEF i
    <3>3. QED BY <3>1, <3>2 DEF InFile
  <2> HIDE DEF i
  <2>6. QED BY <2>2, <2>3, <2>4, <2>5
<1>3. QED BY <1>2 DEF View, StateOf

\* With all of the -wal in the file, the file alone is the last state.
LEMMA WholeFileIsLast ==
    ASSUME NEW f, NEW w, NEW h, NEW marks, FilesTyped(f, w, Len(w), h),
           Clean(f, w, Len(w), h, marks)
    PROVE  f = StateOf(h, Len(h))
<1>1. /\ Len(w) \in Nat /\ Base(w, h) \in Nat /\ Len(h) \in Nat
      /\ Len(h) = Base(w, h) + Len(w)
      /\ \A p \in Pages : Latest(w, Len(w), p) \in 0 .. Len(w)
  BY CleanFacts
<1>2. ASSUME NEW p \in Pages PROVE f[p] = StateOf(h, Len(h))[p]
  <2> DEFINE i == Latest(w, Len(w), p)
  <2>1. i \in 0 .. Len(w) /\ \A j \in 1 .. Len(w) : p \in w[j].pages => j <= i
    BY <1>1, LatestFacts
  <2>2. StateOf(h, Len(h))[p] = IF i = 0 THEN Written(h, Base(w, h), p)
                                ELSE Base(w, h) + i
    BY <1>1, WrittenInWal DEF StateOf, Clean, WalIsTail
  <2>3. i # 0 => f[p] = Base(w, h) + i
    <3>1. FoldedIsInFile(f, w, Len(w), h, p) BY DEF Clean
    <3>2. QED BY <3>1, <2>1, <1>1 DEF FoldedIsInFile
  <2>4. i = 0 => f[p] = Written(h, Base(w, h), p)
    <3>1. InFile(f, w, h, marks, p) BY DEF Clean
    <3>2. ASSUME i = 0, NEW j \in 1 .. Len(w), p \in w[j].pages PROVE FALSE
      BY <2>1, <3>2
    <3> HIDE DEF i
    <3>3. QED BY <3>1, <3>2 DEF InFile
  <2> HIDE DEF i
  <2>5. QED BY <2>2, <2>3, <2>4
<1>3. f \in [Pages -> PageValue(Len(h))] BY DEF FilesTyped
<1>4. QED BY <1>2, <1>3 DEF StateOf

\* A file that is the last state needs no -wal.
LEMMA LastStateIsClean ==
    ASSUME NEW h, Len(h) \in Nat
    PROVE  Clean(StateOf(h, Len(h)), <<>>, 0, h, {})
<1>1. Len(<<>>) = 0 /\ Base(<<>>, h) = Len(h) BY DEF Base
<1>2. \A i : ~(i \in 1 .. 0) OBVIOUS
<1>3. WalIsTail(<<>>, h) BY <1>1, <1>2 DEF WalIsTail, WalIsCopies
<1>4. \A p \in Pages : InFile(StateOf(h, Len(h)), <<>>, h, {}, p)
  BY <1>1 DEF InFile, StateOf
<1>5. \A p \in Pages : FoldedIsInFile(StateOf(h, Len(h)), <<>>, 0, h, p)
  BY <1>2 DEF FoldedIsInFile
<1>6. QED BY <1>3, <1>4, <1>5 DEF Clean

\* All folded and the -wal gone: with no read open, nothing is lost.
LEMMA EmptiedClean ==
    ASSUME NEW f, NEW w, NEW k, NEW h, NEW marks \in SUBSET Nat, FilesTyped(f, w, k, h),
           Clean(f, w, k, h, marks)
    PROVE  Clean(Folded(f, w, Len(w), Max(Pages)), <<>>, 0, h, {})
<1>1. Len(w) \in Nat /\ Len(h) \in Nat BY CleanFacts
<1>2. FilesTyped(Folded(f, w, Len(w), Max(Pages)), w, Len(w), h) BY <1>1, FoldTyped
<1>3. Clean(Folded(f, w, Len(w), Max(Pages)), w, Len(w), h, {})
  <2>1. {} \in SUBSET marks /\ Len(w) \in 0 .. Len(w) BY <1>1
  <2>2. \A m \in {} : Len(w) <= m OBVIOUS
  <2>3. \A last : last = Max(Pages) => Clean(Folded(f, w, Len(w), last), w, Len(w), h, {})
    BY <2>1, <2>2, FoldClean
  <2>4. QED BY <2>3
<1>4. Folded(f, w, Len(w), Max(Pages)) = StateOf(h, Len(h)) BY <1>2, <1>3, WholeFileIsLast
<1>5. QED BY <1>1, <1>4, LastStateIsClean

\* Reads come, of all the -wal, and go; the index may be built again.
LEMMA MarksClean ==
    ASSUME NEW f, NEW w, NEW k, NEW h, NEW marks, FilesTyped(f, w, k, h),
           Clean(f, w, k, h, marks), NEW others \in SUBSET (marks \cup {Len(w)}),
           NEW j, j = k \/ j = 0
    PROVE  Clean(f, w, j, h, others)
<1>1. Len(w) \in Nat BY FilesFacts
<1>2. ASSUME NEW p \in Pages PROVE InFile(f, w, h, others, p)
  <2>1. InFile(f, w, h, marks, p) BY DEF Clean
  <2>2. \A i \in 1 .. Len(w) : i <= Len(w) BY <1>1
  <2>3. QED BY <2>1, <2>2 DEF InFile
<1>3. ASSUME NEW p \in Pages PROVE FoldedIsInFile(f, w, j, h, p)
  <2>1. FoldedIsInFile(f, w, k, h, p) BY DEF Clean
  <2>2. \A i : ~(i \in 1 .. 0) OBVIOUS
  <2>3. QED BY <2>1, <2>2 DEF FoldedIsInFile
<1>4. QED BY <1>2, <1>3 DEF Clean

\* A commit adds to the history.
LEMMA HistoryGrows ==
    ASSUME NEW h \in Seq(SUBSET Pages), NEW pages \in SUBSET Pages
    PROVE  /\ Append(h, pages) \in Seq(SUBSET Pages)
           /\ Len(Append(h, pages)) = Len(h) + 1 /\ Len(h) \in Nat
           /\ \A i \in 1 .. Len(h) : Append(h, pages)[i] = h[i]
           /\ Append(h, pages)[Len(h) + 1] = pages
OBVIOUS

\* What was asked of integrity_check is not what a later commit leaves either.
LEMMA VerdictsOfCommit ==
    ASSUME NEW v, NEW h \in Seq(SUBSET Pages), Verdicts(v, h),
           NEW pages \in SUBSET Pages, pages # {}
    PROVE  Verdicts(v, Append(h, pages))
<1> DEFINE g == Append(h, pages)
<1>1. /\ Len(g) = Len(h) + 1 /\ Len(h) \in Nat
      /\ \A i \in 1 .. Len(h) : g[i] = h[i]
      /\ g[Len(h) + 1] = pages
  BY HistoryGrows
<1> HIDE DEF g
<1> SUFFICES ASSUME NEW x \in DOMAIN v
             PROVE  /\ \A p \in Pages : x[p] \in PageValue(Len(g))
                    /\ \A n \in 0 .. Len(g) : x # StateOf(g, n)
  BY DEF Verdicts, g
<1>2. /\ \A p \in Pages : x[p] \in PageValue(Len(h))
      /\ \A n \in 0 .. Len(h) : x # StateOf(h, n)
  BY DEF Verdicts
<1>3. \A p \in Pages : x[p] \in PageValue(Len(g)) BY <1>1, <1>2 DEF PageValue
<1>4. ASSUME NEW n \in 0 .. Len(h) PROVE x # StateOf(g, n)
  <2>1. \A p \in Pages : Written(g, n, p) = Written(h, n, p)
    <3>1. n \in Nat /\ \A i \in 1 .. n : g[i] = h[i] BY <1>1
    <3>2. QED BY <3>1, WrittenBefore
  <2>2. StateOf(g, n) = StateOf(h, n) BY <2>1 DEF StateOf
  <2>3. QED BY <2>2, <1>2
<1>5. x # StateOf(g, Len(h) + 1)
  <2>1. PICK p \in pages : TRUE OBVIOUS
  <2>2. Written(g, Len(h) + 1, p) = Len(h) + 1
    <3>1. Len(h) + 1 \in Nat /\ p \in g[Len(h) + 1] BY <1>1, <2>1
    <3>2. \A i \in 1 .. (Len(h) + 1) : i <= Len(h) + 1 BY <1>1
    <3>3. Len(h) + 1 \in 0 .. (Len(h) + 1) BY <1>1
    <3>4. QED BY <3>1, <3>2, <3>3, WrittenIs
  <2>3. x[p] \in PageValue(Len(h)) BY <1>2
  <2>4. Len(h) + 1 \notin PageValue(Len(h)) BY <1>1, SideFilesAssumption DEF PageValue
  <2>5. StateOf(g, Len(h) + 1)[p] = Len(h) + 1 BY <2>2 DEF StateOf
  <2>6. QED BY <2>3, <2>4, <2>5
<1>6. \A n \in 0 .. Len(g) : n \in 0 .. Len(h) \/ n = Len(h) + 1 BY <1>1
<1>7. QED BY <1>3, <1>4, <1>5, <1>6

\* A commit's record in the -wal.
CommitOf(h, pages) == [pages |-> pages, version |-> Len(h) + 1, bad |-> {}]

\* The pages of the file are still those of a shorter history.
LEMMA FileOfCommit ==
    ASSUME NEW f, NEW w, NEW k, NEW h, FilesTyped(f, w, k, h), Len(h) < MaxCommits,
           NEW pages \in SUBSET Pages, pages # {}
    PROVE  /\ Append(h, pages) \in Seq(SUBSET Pages) /\ Len(Append(h, pages)) <= MaxCommits
           /\ Len(Append(h, pages)) = Len(h) + 1 /\ Len(h) \in Nat
           /\ \A i \in 1 .. Len(Append(h, pages)) : Append(h, pages)[i] # {}
           /\ f \in [Pages -> PageValue(Len(Append(h, pages)))]
           /\ CommitOf(h, pages) \in Frames
<1> DEFINE g == Append(h, pages)
<1>1. h \in Seq(SUBSET Pages) /\ Len(h) <= MaxCommits /\ \A i \in 1 .. Len(h) : h[i] # {}
  BY DEF FilesTyped
<1>2. /\ g \in Seq(SUBSET Pages)
      /\ Len(g) = Len(h) + 1 /\ Len(h) \in Nat
      /\ \A i \in 1 .. Len(h) : g[i] = h[i]
      /\ g[Len(h) + 1] = pages
  BY <1>1, HistoryGrows
<1> HIDE DEF g
<1>3. \A i \in 1 .. Len(g) : g[i] # {}
  <2>1. \A i \in 1 .. Len(g) : i \in 1 .. Len(h) \/ i = Len(h) + 1 BY <1>2
  <2>2. QED BY <2>1, <1>1, <1>2
<1>4. f \in [Pages -> PageValue(Len(g))]
  <2>1. PageValue(Len(h)) \subseteq PageValue(Len(g)) BY <1>2 DEF PageValue
  <2>2. f \in [Pages -> PageValue(Len(h))] BY DEF FilesTyped
  <2>3. QED BY <2>1, <2>2
<1>5. CommitOf(h, pages) \in Frames
  <2>1. Len(h) + 1 \in Nat \ {0} BY <1>2
  <2>2. QED BY <2>1 DEF CommitOf, Frames
<1>6. Len(g) <= MaxCommits BY <1>2, SideFilesAssumption
<1>7. QED BY <1>2, <1>3, <1>4, <1>5, <1>6 DEF g

\* A commit goes to the end of the -wal.
LEMMA AppendTyped ==
    ASSUME NEW f, NEW w, NEW k, NEW h, FilesTyped(f, w, k, h), Len(h) < MaxCommits,
           NEW pages \in SUBSET Pages, pages # {}
    PROVE  FilesTyped(f, Append(w, CommitOf(h, pages)), k, Append(h, pages))
<1> DEFINE g == Append(h, pages)
           x == Append(w, CommitOf(h, pages))
<1>1. /\ g \in Seq(SUBSET Pages) /\ Len(g) <= MaxCommits
      /\ Len(g) = Len(h) + 1 /\ Len(h) \in Nat
      /\ \A i \in 1 .. Len(g) : g[i] # {}
      /\ f \in [Pages -> PageValue(Len(g))]
      /\ CommitOf(h, pages) \in Frames
  BY FileOfCommit
<1>2. w \in Seq(Frames) /\ Len(w) \in Nat /\ \A i \in 1 .. Len(w) : w[i].version <= Len(h)
  BY DEF FilesTyped
<1>3. /\ x \in Seq(Frames) /\ Len(x) = Len(w) + 1
      /\ \A i \in 1 .. Len(w) : x[i] = w[i]
      /\ x[Len(w) + 1] = CommitOf(h, pages)
  BY <1>1, <1>2
<1> HIDE DEF g, x
<1>4. \A i \in 1 .. Len(x) : x[i].version <= Len(g)
  <2>1. ASSUME NEW i \in 1 .. Len(w) PROVE x[i].version <= Len(g)
    <3>1. w[i] \in Frames /\ w[i].version <= Len(h) BY <1>2
    <3>2. w[i].version \in Nat BY <3>1 DEF Frames
    <3>3. QED BY <3>1, <3>2, <1>1, <1>3
  <2>2. x[Len(w) + 1].version <= Len(g) BY <1>1, <1>3 DEF CommitOf
  <2>3. \A i \in 1 .. Len(x) : i \in 1 .. Len(w) \/ i = Len(w) + 1 BY <1>2, <1>3
  <2>4. QED BY <2>1, <2>2, <2>3
<1>5. k \in 0 .. Len(x) BY <1>2, <1>3 DEF FilesTyped
<1>6. FilesTyped(f, x, k, g) BY <1>1, <1>3, <1>4, <1>5 DEF FilesTyped
<1>7. QED BY <1>6 DEF g, x

\* The -wal with one more commit is the end of the history with one more commit, and no
\* read, fold or page of the file is disturbed.
LEMMA AppendClean ==
    ASSUME NEW f, NEW w, NEW k, NEW h, NEW marks, FilesTyped(f, w, k, h),
           Clean(f, w, k, h, marks), NEW pages \in SUBSET Pages
    PROVE  /\ Base(Append(w, CommitOf(h, pages)), Append(h, pages)) = Base(w, h)
           /\ Clean(f, Append(w, CommitOf(h, pages)), k, Append(h, pages), marks)
<1> DEFINE g == Append(h, pages)
           x == Append(w, CommitOf(h, pages))
           b == Base(w, h)
<1>1. /\ Len(w) \in Nat /\ Len(h) \in Nat /\ b \in Nat /\ Len(h) = b + Len(w)
      /\ \A i \in 1 .. Len(w) : w[i].pages = h[b + i] /\ w[i].version = b + i
      /\ \A p \in Pages : Latest(w, Len(w), p) \in 0 .. Len(w)
  BY CleanFacts
<1>2. w \in Seq(Frames) /\ h \in Seq(SUBSET Pages) /\ k \in 0 .. Len(w) BY DEF FilesTyped
<1>3. /\ Len(g) = Len(h) + 1
      /\ \A i \in 1 .. Len(h) : g[i] = h[i]
      /\ g[Len(h) + 1] = pages
  BY <1>2, HistoryGrows
<1>4. /\ Len(x) = Len(w) + 1
      /\ \A i \in 1 .. Len(w) : x[i] = w[i]
      /\ x[Len(w) + 1] = CommitOf(h, pages)
  BY <1>2
<1>5. Base(x, g) = b BY <1>1, <1>3, <1>4 DEF Base
<1> HIDE DEF g, x
<1>6. WalIsTail(x, g)
  <2>1. ASSUME NEW i \in 1 .. Len(w)
        PROVE  x[i].pages = g[b + i] /\ x[i].version = b + i /\ x[i].bad = {}
    <3>1. b + i \in 1 .. Len(h) /\ w[i].bad = {} BY <1>1 DEF Clean, WalIsTail, WalIsCopies
    <3>2. QED BY <3>1, <1>1, <1>3, <1>4
  <2>2. /\ x[Len(w) + 1].pages = g[b + (Len(w) + 1)]
        /\ x[Len(w) + 1].version = b + (Len(w) + 1) /\ x[Len(w) + 1].bad = {}
    <3>1. b + (Len(w) + 1) = Len(h) + 1 BY <1>1
    <3>2. QED BY <3>1, <1>3, <1>4 DEF CommitOf
  <2>3. \A i \in 1 .. Len(x) : i \in 1 .. Len(w) \/ i = Len(w) + 1 BY <1>1, <1>4
  <2>4. b \in Nat BY <1>1
  <2> HIDE DEF b
  <2>5. \A i \in 1 .. Len(x) : x[i].pages = g[b + i] /\ x[i].version = b + i /\ x[i].bad = {}
    BY <2>1, <2>2, <2>3
  <2>6. b >= 0 BY <2>4
  <2>7. QED BY <2>5, <2>6, <1>5 DEF WalIsTail, WalIsCopies
<1>7. ASSUME NEW p \in Pages PROVE InFile(f, x, g, marks, p)
  <2>1. InFile(f, w, h, marks, p) BY DEF Clean
  <2>2. Written(g, b, p) = Written(h, b, p)
    <3>1. b \in Nat /\ \A i \in 1 .. b : g[i] = h[i] BY <1>1, <1>3
    <3> HIDE DEF b
    <3>2. QED BY <3>1, WrittenBefore
  <2>3. \A i \in 1 .. Len(w) : i \in 1 .. Len(x) /\ x[i] = w[i] BY <1>1, <1>4
  <2>4. QED BY <2>1, <2>2, <2>3, <1>5 DEF InFile
<1>8. ASSUME NEW p \in Pages PROVE FoldedIsInFile(f, x, k, g, p)
  <2>1. FoldedIsInFile(f, w, k, h, p) BY DEF Clean
  <2> DEFINE i == Latest(x, Len(x), p)
  <2>2. /\ i \in 0 .. Len(x)
        /\ i # 0 => p \in x[i].pages
        /\ \A j \in 1 .. Len(x) : p \in x[j].pages => j <= i
    BY <1>1, <1>4, LatestFacts
  <2> HIDE DEF i
  <2>3. ASSUME i \in 1 .. k PROVE Latest(w, Len(w), p) = i
    <3>1. i \in 1 .. Len(w) BY <2>3, <1>1, <1>2
    <3>2. p \in w[i].pages BY <3>1, <2>2, <1>4
    <3>3. \A j \in 1 .. Len(w) : p \in w[j].pages => j <= i
      <4> SUFFICES ASSUME NEW j \in 1 .. Len(w), p \in w[j].pages PROVE j <= i OBVIOUS
      <4>1. j \in 1 .. Len(x) /\ p \in x[j].pages BY <1>1, <1>4
      <4>2. QED BY <4>1, <2>2
    <3>4. i \in 0 .. Len(w) BY <3>1
    <3>5. QED BY <3>2, <3>3, <3>4, <1>1, LatestIs
  <2>4. QED BY <2>1, <2>3, <1>5 DEF FoldedIsInFile, i
<1>9. Clean(f, x, k, g, marks) BY <1>6, <1>7, <1>8 DEF Clean
<1>10. QED BY <1>5, <1>9 DEF g, x

\* A commit starts the -wal over when the file holds all of it.
LEMMA RestartTyped ==
    ASSUME NEW f, NEW w, NEW k, NEW h, FilesTyped(f, w, k, h), Len(h) < MaxCommits,
           NEW pages \in SUBSET Pages, pages # {}
    PROVE  FilesTyped(f, <<CommitOf(h, pages)>>, 0, Append(h, pages))
<1>1. FilesTyped(f, <<>>, 0, h) BY EmptyTyped
<1>2. FilesTyped(f, Append(<<>>, CommitOf(h, pages)), 0, Append(h, pages))
  BY <1>1, AppendTyped
<1>3. Append(<<>>, CommitOf(h, pages)) = <<CommitOf(h, pages)>> OBVIOUS
<1>4. QED BY <1>2, <1>3

\* With all of the -wal in the file and no read open, starting it over loses nothing.
LEMMA RestartClean ==
    ASSUME NEW f, NEW w, NEW h, NEW marks, FilesTyped(f, w, Len(w), h),
           Clean(f, w, Len(w), h, marks), NEW pages \in SUBSET Pages
    PROVE  Clean(f, <<CommitOf(h, pages)>>, 0, Append(h, pages), {})
<1>1. f = StateOf(h, Len(h)) BY WholeFileIsLast
<1>2. Len(h) \in Nat BY FilesFacts
<1>3. Clean(f, <<>>, 0, h, {}) BY <1>1, <1>2, LastStateIsClean
<1>4. FilesTyped(f, <<>>, 0, h) BY EmptyTyped
<1>5. Clean(f, Append(<<>>, CommitOf(h, pages)), 0, Append(h, pages), {})
  BY <1>3, <1>4, AppendClean
<1>6. Append(<<>>, CommitOf(h, pages)) = <<CommitOf(h, pages)>> OBVIOUS
<1>7. QED BY <1>5, <1>6

\* A copy of an earlier state is put back, with no -wal beside it.
LEMMA RestoreClean ==
    ASSUME NEW f, NEW w, NEW k, NEW h, FilesTyped(f, w, k, h), NEW n \in 0 .. Len(h)
    PROVE  /\ FilesTyped(StateOf(h, n), <<>>, 0, SubSeq(h, 1, n))
           /\ Clean(StateOf(h, n), <<>>, 0, SubSeq(h, 1, n), {})
<1> DEFINE g == SubSeq(h, 1, n)
<1>1. /\ h \in Seq(SUBSET Pages) /\ Len(h) <= MaxCommits /\ Len(h) \in Nat
      /\ \A i \in 1 .. Len(h) : h[i] # {}
  BY DEF FilesTyped
<1>2. n \in Nat /\ n <= Len(h) BY <1>1
<1>3. g \in Seq(SUBSET Pages) /\ Len(g) = n /\ \A i \in 1 .. n : g[i] = h[i]
  BY <1>1, <1>2
<1> HIDE DEF g
<1>4. Len(g) <= MaxCommits BY <1>1, <1>2, <1>3, SideFilesAssumption
<1>5. \A i \in 1 .. Len(g) : g[i] # {}
  <2>1. \A i \in 1 .. n : i \in 1 .. Len(h) BY <1>1, <1>2
  <2>2. QED BY <2>1, <1>1, <1>3
<1>6. StateOf(h, n) = StateOf(g, n)
  <2>1. \A i \in 1 .. n : h[i] = g[i] BY <1>3
  <2>2. \A p : Written(h, n, p) = Written(g, n, p) BY <1>2, <2>1, WrittenBefore
  <2>3. QED BY <2>2 DEF StateOf
<1>7. StateOf(h, n) \in [Pages -> PageValue(Len(g))]
  <2>1. \A p \in Pages : Written(h, n, p) \in 0 .. n BY <1>2, WrittenFacts
  <2>2. QED BY <2>1, <1>3 DEF StateOf, PageValue
<1>8. /\ <<>> \in Seq(Frames) /\ 0 \in 0 .. Len(<<>>)
      /\ \A i : ~(i \in 1 .. Len(<<>>))
  OBVIOUS
<1>9. FilesTyped(StateOf(h, n), <<>>, 0, g) BY <1>3, <1>4, <1>5, <1>7, <1>8 DEF FilesTyped
<1>10. Clean(StateOf(g, Len(g)), <<>>, 0, g, {}) BY <1>2, <1>3, LastStateIsClean
<1>11. QED BY <1>3, <1>6, <1>9, <1>10 DEF g

\* A damaged page, or frame, is one still.
LEMMA DamageTyped ==
    ASSUME NEW f, NEW w, NEW k, NEW h, FilesTyped(f, w, k, h), NEW p \in Pages
    PROVE  /\ FilesTyped([f EXCEPT ![p] = Damaged], w, k, h)
           /\ \A i \in 1 .. Len(w) : FilesTyped(f, [w EXCEPT ![i].bad = {p}], k, h)
<1>1. [f EXCEPT ![p] = Damaged] \in [Pages -> PageValue(Len(h))]
  <2>1. f \in [Pages -> PageValue(Len(h))] /\ Damaged \in PageValue(Len(h))
    BY DEF FilesTyped, PageValue
  <2>2. QED BY <2>1
<1>2. FilesTyped([f EXCEPT ![p] = Damaged], w, k, h) BY <1>1 DEF FilesTyped
<1>3. ASSUME NEW i \in 1 .. Len(w)
      PROVE  FilesTyped(f, [w EXCEPT ![i].bad = {p}], k, h)
  <2> DEFINE x == [w EXCEPT ![i].bad = {p}]
  <2>1. w \in Seq(Frames) /\ Len(w) \in Nat /\ \A j \in 1 .. Len(w) : w[j].version <= Len(h)
    BY DEF FilesTyped
  <2>2. w[i] \in Frames BY <2>1
  <2>3. [w[i] EXCEPT !.bad = {p}] \in Frames /\ [w[i] EXCEPT !.bad = {p}].version = w[i].version
    BY <2>2 DEF Frames
  <2>4. x = [w EXCEPT ![i] = [w[i] EXCEPT !.bad = {p}]] OBVIOUS
  <2>5. x \in Seq(Frames) /\ Len(x) = Len(w) BY <2>1, <2>3, <2>4
  <2>6. \A j \in 1 .. Len(w) : x[j].version = w[j].version BY <2>1, <2>3, <2>4
  <2> HIDE DEF x
  <2>7. FilesTyped(f, x, k, h) BY <2>1, <2>5, <2>6 DEF FilesTyped
  <2>8. QED BY <2>7 DEF x
<1>4. QED BY <1>2, <1>3

-----------------------------------------------------------------------------
(* The steps, by what they do to the files.                                 *)

\* A process's marks are those of the others and its own.
LEMMA MarksAfter ==
    ASSUME NEW a, NEW b, NEW p \in Processes, \A q \in Processes \ {p} : b[q] = a[q]
    PROVE  /\ MarksOf(b) \subseteq MarksOf(a) \cup ({b[p].mark} \ {NoRead})
           /\ b[p].mark = NoRead =>
                 MarksOf(b) = {a[q].mark : q \in Processes \ {p}} \ {NoRead}
BY DEF MarksOf

\* Marks are places in the -wal, or NoRead.
LEMMA MarksTyped ==
    ASSUME SideInv
    PROVE  MarksOf(act) \in SUBSET Nat /\ \A m \in MarksOf(act) : m \in 0 .. Len(wal)
<1>1. Len(wal) \in Nat BY FilesFacts DEF SideInv
<1>2. \A q \in Processes : act[q].mark # NoRead => act[q].mark \in 0 .. Len(wal)
  BY DEF SideInv, Of
<1>3. \A m \in MarksOf(act) : m \in 0 .. Len(wal) BY <1>2 DEF MarksOf
<1>4. QED BY <1>1, <1>3

\* Only a process in use has a read open.
LEMMA NoMark ==
    ASSUME SideInv, NEW p \in Processes, act[p].at # "using"
    PROVE  act[p].mark = NoRead
BY DEF SideInv, Of

\* What a step leaves of every process but its own.
OthersKept(p) == \A q \in Processes \ {p} : act'[q] = act[q]

\* The files are not written; the index may be built again.
LEMMA QuietStep ==
    ASSUME SideInv, NEW p \in Processes, OthersKept(p), act' \in [Processes -> Acts],
           file' = file, wal' = wal, history' = history, spoilt' = spoilt,
           folded' = folded \/ folded' = 0,
           act'[p].mark # NoRead =>
              act'[p].mark = act[p].mark \/ (~spoilt => act'[p].mark = Len(wal)),
           Of(act'[p], wal, history, spoilt),
           Told(told', wal, spoilt), Verdicts(verdict', history)
    PROVE  SideInv'
<1>1. FilesTyped(file, wal, folded, history) BY DEF SideInv
<1>2. Len(wal) \in Nat BY <1>1, FilesFacts
<1>3. FilesTyped(file, wal, folded', history)
  <2>1. 0 \in 0 .. Len(wal) BY <1>2
  <2>2. QED BY <1>1, <2>1 DEF FilesTyped
<1>4. \A q \in Processes : Of(act'[q], wal, history, spoilt)
  <2> SUFFICES ASSUME NEW q \in Processes PROVE Of(act'[q], wal, history, spoilt) OBVIOUS
  <2>1. CASE q = p BY <2>1
  <2>2. CASE q # p BY <2>2 DEF OthersKept, SideInv
  <2>3. QED BY <2>1, <2>2
<1>5. ~spoilt => Clean(file, wal, folded', history, MarksOf(act'))
  <2> SUFFICES ASSUME ~spoilt PROVE Clean(file, wal, folded', history, MarksOf(act'))
    OBVIOUS
  <2>1. Clean(file, wal, folded, history, MarksOf(act)) BY DEF SideInv
  <2>2. MarksOf(act') \subseteq MarksOf(act) \cup ({act'[p].mark} \ {NoRead})
    BY MarksAfter DEF OthersKept
  <2>3. act'[p].mark # NoRead => act'[p].mark \in MarksOf(act) \cup {Len(wal)}
    BY DEF MarksOf
  <2>4. MarksOf(act') \in SUBSET (MarksOf(act) \cup {Len(wal)}) BY <2>2, <2>3
  <2>5. QED BY <1>1, <2>1, <2>4, MarksClean
<1>6. spoilt' \in BOOLEAN BY Zenon DEF SideInv
<1>7. Told(told', wal', spoilt') BY Zenon
<1>8. FilesTyped(file', wal', folded', history') BY <1>3
<1>9. \A q \in Processes : Of(act'[q], wal', history', spoilt') BY <1>4, Zenon
<1>10. ~spoilt' => Clean(file', wal', folded', history', MarksOf(act')) BY <1>5, Zenon
<1>11. Verdicts(verdict', history') OBVIOUS
<1>12. QED BY <1>6, <1>7, <1>8, <1>9, <1>10, <1>11, Zenon DEF SideInv

\* A fold, done or cut short, up to what every other read may see.
LEMMA FoldStep ==
    ASSUME SideInv, NEW p \in Processes, OthersKept(p), act' \in [Processes -> Acts],
           wal' = wal, history' = history, spoilt' = spoilt, told' = told, verdict' = verdict,
           NEW n, n = FoldsUpTo(p), NEW last,
           file' = Folded(file, wal, n, last),
           folded' = folded \/ (folded' = n /\ last = Max(Pages)),
           act'[p].mark = NoRead,
           Of(act'[p], wal, history, spoilt)
    PROVE  SideInv'
<1>1. FilesTyped(file, wal, folded, history) BY DEF SideInv
<1>2. Len(wal) \in Nat /\ ReadableLen(wal) \in 0 .. Len(wal) /\ folded \in 0 .. Len(wal)
  BY <1>1, FilesFacts
<1> DEFINE left == {act[q].mark : q \in Processes \ {p}} \ {NoRead}
           limits == {ReadableLen(wal)} \cup
                     {act[q].mark : q \in {r \in Processes \ {p} : act[r].mark # NoRead}}
<1>3. left \subseteq MarksOf(act) /\ MarksOf(act') = left
  BY MarksAfter DEF OthersKept, MarksOf
<1>4. n \in 0 .. Len(wal) /\ \A m \in left : n <= m
  <2>1. MarksOf(act) \in SUBSET Nat BY MarksTyped
  <2>2. limits \in SUBSET Nat /\ limits # {} /\ left \subseteq limits
        /\ ReadableLen(wal) \in limits
    BY <1>2, <2>1 DEF MarksOf
  <2>3. n = Min(limits) BY DEF FoldsUpTo
  <2> HIDE DEF limits, left
  <2>4. n \in limits /\ \A m \in limits : n <= m BY <2>2, <2>3, MinFacts
  <2>5. n \in Nat /\ n <= ReadableLen(wal) BY <2>2, <2>4
  <2>6. QED BY <1>2, <2>2, <2>4, <2>5
<1> HIDE DEF left, limits
<1>5. folded' \in 0 .. Len(wal) BY <1>2, <1>4
<1>6. FilesTyped(Folded(file, wal, n, last), wal, folded', history)
  BY <1>1, <1>4, <1>5, FoldTyped
<1>7. ~spoilt => Clean(Folded(file, wal, n, last), wal, folded', history, left)
  <2> SUFFICES ASSUME ~spoilt
               PROVE  Clean(Folded(file, wal, n, last), wal, folded', history, left)
    OBVIOUS
  <2>1. Clean(file, wal, folded, history, MarksOf(act)) BY DEF SideInv
  <2>2. MarksOf(act) \in SUBSET Nat BY MarksTyped
  <2>3. left \in SUBSET MarksOf(act) BY <1>3
  <2>4. /\ Clean(Folded(file, wal, n, last), wal, folded, history, left)
        /\ last = Max(Pages) => Clean(Folded(file, wal, n, last), wal, n, history, left)
    BY <1>1, <1>4, <2>1, <2>2, <2>3, FoldClean
  <2>5. QED BY <2>4
<1>8. \A q \in Processes : Of(act'[q], wal, history, spoilt)
  <2> SUFFICES ASSUME NEW q \in Processes PROVE Of(act'[q], wal, history, spoilt) OBVIOUS
  <2>1. CASE q = p BY <2>1
  <2>2. CASE q # p BY <2>2 DEF OthersKept, SideInv
  <2>3. QED BY <2>1, <2>2
<1>9. spoilt' \in BOOLEAN BY Zenon DEF SideInv
<1>10. Told(told', wal', spoilt') BY Zenon DEF SideInv
<1>11. FilesTyped(file', wal', folded', history') BY <1>6
<1>12. \A q \in Processes : Of(act'[q], wal', history', spoilt') BY <1>8, Zenon
<1>13. ~spoilt' => Clean(file', wal', folded', history', MarksOf(act'))
  BY <1>3, <1>7, Zenon
<1>14. Verdicts(verdict', history') BY DEF SideInv
<1>15. QED BY <1>9, <1>10, <1>11, <1>12, <1>13, <1>14, Zenon DEF SideInv

\* All the -wal is put in the file and it is gone, with no read open.
LEMMA EmptyStep ==
    ASSUME SideInv, NEW p \in Processes, OthersKept(p), act' \in [Processes -> Acts],
           file' = Folded(file, wal, ReadableLen(wal), Max(Pages)), wal' = <<>>, folded' = 0,
           history' = history, spoilt' = spoilt, told' = told, verdict' = verdict,
           \A q \in Processes : act'[q].mark = NoRead,
           Of(act'[p], <<>>, history, spoilt)
    PROVE  SideInv'
<1>1. FilesTyped(file, wal, folded, history) BY DEF SideInv
<1>2. Len(wal) \in Nat /\ ReadableLen(wal) \in 0 .. Len(wal) /\ folded \in 0 .. Len(wal)
  BY <1>1, FilesFacts
<1>3. FilesTyped(file', <<>>, 0, history)
  <2>1. FilesTyped(file', wal, folded, history) BY <1>1, <1>2, FoldTyped
  <2>2. QED BY <2>1, EmptyTyped
<1>4. MarksOf(act') = {} BY DEF MarksOf
<1>5. ~spoilt => Clean(file', <<>>, 0, history, {})
  <2> SUFFICES ASSUME ~spoilt PROVE Clean(file', <<>>, 0, history, {}) OBVIOUS
  <2>1. Clean(file, wal, folded, history, MarksOf(act)) BY DEF SideInv
  <2>2. ReadableLen(wal) = Len(wal) BY <1>1, <2>1, CleanFacts
  <2>3. MarksOf(act) \in SUBSET Nat BY MarksTyped
  <2>4. QED BY <1>1, <2>1, <2>2, <2>3, EmptiedClean
<1>6. \A q \in Processes : Of(act'[q], <<>>, history, spoilt)
  <2> SUFFICES ASSUME NEW q \in Processes PROVE Of(act'[q], <<>>, history, spoilt) OBVIOUS
  <2>1. CASE q = p BY <2>1
  <2>2. CASE q # p
    <3>1. act'[q] = act[q] /\ Of(act[q], wal, history, spoilt)
      BY <2>2 DEF OthersKept, SideInv
    <3>2. act[q].mark = NoRead BY <3>1
    <3>3. QED BY <3>1, <3>2 DEF Of
  <2>3. QED BY <2>1, <2>2
<1>7. spoilt' \in BOOLEAN BY Zenon DEF SideInv
<1>8. Told(told', wal', spoilt') BY Zenon DEF SideInv, Told
<1>9. FilesTyped(file', wal', folded', history') BY <1>3
<1>10. \A q \in Processes : Of(act'[q], wal', history', spoilt') BY <1>6, Zenon
<1>11. ~spoilt' => Clean(file', wal', folded', history', MarksOf(act')) BY <1>4, <1>5, Zenon
<1>12. Verdicts(verdict', history') BY DEF SideInv
<1>13. QED BY <1>7, <1>8, <1>9, <1>10, <1>11, <1>12, Zenon DEF SideInv

-----------------------------------------------------------------------------
(* Each action keeps the invariant.                                         *)

\* A process's record is replaced.
LEMMA ActPut ==
    ASSUME act \in [Processes -> Acts], NEW p \in Processes, NEW r \in Acts,
           act' = [act EXCEPT ![p] = r]
    PROVE  act' \in [Processes -> Acts] /\ OthersKept(p) /\ act'[p] = r
BY DEF OthersKept

\* A process that ended, or was stopped, holds nothing.
LEMMA IdleIsAct ==
    /\ Idle \in Acts /\ Idle.mark = NoRead /\ Idle.found = FALSE
    /\ \A w, h, s : Of(Idle, w, h, s)
<1>1. Idle \in Acts BY DEF Idle, Acts, Places, NoRead
<1>2. /\ Idle.mark = NoRead /\ Idle.at = "idle" /\ Idle.found = FALSE
  BY DEF Idle
<1>3. \A w, h, s : Of(Idle, w, h, s) BY <1>2 DEF Of
<1>4. QED BY <1>1, <1>2, <1>3

\* A process that ends, or is stopped, leaves only its own record.
LEMMA EndsFacts ==
    ASSUME SideInv, NEW p \in Processes, Ends(p)
    PROVE  /\ act' \in [Processes -> Acts] /\ OthersKept(p) /\ act'[p] = Idle
           /\ act'[p].mark = NoRead /\ \A w, h, s : Of(act'[p], w, h, s)
<1>1. act \in [Processes -> Acts] BY DEF SideInv
<1>2. act' \in [Processes -> Acts] /\ OthersKept(p) /\ act'[p] = Idle
  BY <1>1, IdleIsAct, ActPut DEF Ends
<1>3. QED BY <1>2, IdleIsAct

\* Only where the process is changes.
LEMMA GoesFacts ==
    ASSUME SideInv, NEW p \in Processes, NEW place \in Places, Goes(p, place)
    PROVE  /\ act' \in [Processes -> Acts] /\ OthersKept(p)
           /\ act'[p].at = place /\ act'[p].mark = act[p].mark
           /\ act'[p].state = act[p].state /\ act'[p].left = act[p].left
           /\ act'[p].found = act[p].found /\ act'[p].reads = act[p].reads
           /\ act'[p].keepWal = act[p].keepWal
<1>1. act \in [Processes -> Acts] /\ act[p] \in Acts BY DEF SideInv
<1> DEFINE r == [act[p] EXCEPT !.at = place]
<1>2. /\ r \in Acts
      /\ r.at = place /\ r.mark = act[p].mark /\ r.state = act[p].state
      /\ r.left = act[p].left /\ r.found = act[p].found /\ r.reads = act[p].reads
      /\ r.keepWal = act[p].keepWal
  BY <1>1 DEF Acts
<1>3. act' = [act EXCEPT ![p] = r] BY DEF Goes
<1> HIDE DEF r
<1>4. QED BY <1>1, <1>2, <1>3, ActPut

\* On its way to the last close a process changes only where it is and its tries.
LEMMA GoesLastFacts ==
    ASSUME SideInv, NEW p \in Processes, GoesLast(p)
    PROVE  /\ act' \in [Processes -> Acts] /\ OthersKept(p)
           /\ act'[p].at = "last" /\ act'[p].mark = act[p].mark
           /\ act'[p].found = act[p].found
<1>1. act \in [Processes -> Acts] /\ act[p] \in Acts BY DEF SideInv
<1> DEFINE r == [act[p] EXCEPT !.at = "last", !.again = FALSE, !.tries = 0]
<1>2. /\ r \in Acts
      /\ r.at = "last" /\ r.mark = act[p].mark /\ r.found = act[p].found
  <2>1. "last" \in Places BY DEF Places
  <2>2. PICK a \in Acts, no \in BOOLEAN : a = act[p] /\ no = FALSE BY <1>1
  <2>6. PICK place \in Places : place = "last" BY <2>1
  <2>7. PICK none \in Int : none = 0 OBVIOUS
  <2>3. r = [a EXCEPT !.at = place, !.again = no, !.tries = none]
    BY <2>2, <2>6, <2>7, Zenon
  <2> HIDE DEF r
  <2>4. r \in Acts /\ r.at = place /\ r.mark = a.mark /\ r.found = a.found
    BY <2>2, <2>3, <2>6, <2>7 DEF Acts
  <2>5. QED BY <2>2, <2>4, <2>6
<1>3. act' = [act EXCEPT ![p] = r] BY <1>1 DEF GoesLast, Acts
<1> HIDE DEF r
<1>4. QED BY <1>1, <1>2, <1>3, ActPut

\* A process neither reading nor with a -wal it found, nor at a check, has nothing to keep.
LEMMA OfOthers ==
    ASSUME NEW a, NEW w, NEW h, NEW s, a.mark = NoRead, ~a.found,
           a.at \notin {"check", "refused"}
    PROVE  Of(a, w, h, s)
BY DEF Of

\* A record with place, purpose and the look for a -wal set is a record still.
LEMMA CheckOf ==
    ASSUME NEW a \in Acts, NEW place \in Places, NEW reads \in BOOLEAN, NEW left \in BOOLEAN
    PROVE  /\ [a EXCEPT !.at = place, !.reads = reads, !.left = left] \in Acts
           /\ [a EXCEPT !.at = place, !.reads = reads, !.left = left].at = place
           /\ [a EXCEPT !.at = place, !.reads = reads, !.left = left].mark = a.mark
           /\ [a EXCEPT !.at = place, !.reads = reads, !.left = left].found = a.found
           /\ [a EXCEPT !.at = place, !.reads = reads, !.left = left].left = left
BY DEF Acts

\* open_store looks for a -wal; the first connection builds its index again.
LEMMA BeginKeeps ==
    ASSUME SideInv, NEW p \in Processes, NEW reads \in BOOLEAN, Begin(p, reads)
    PROVE  SideInv'
<1> DEFINE r == [Idle EXCEPT !.at = "check", !.reads = reads, !.left = HoldsWal]
<1>1. /\ act' = [act EXCEPT ![p] = r]
      /\ folded' = IF LastOpen(p) THEN 0 ELSE folded
      /\ file' = file /\ wal' = wal /\ history' = history /\ told' = told
      /\ verdict' = verdict /\ spoilt' = spoilt
  BY DEF Begin
<1>2. act \in [Processes -> Acts] BY DEF SideInv
<1>3. /\ r \in Acts /\ r.at = "check" /\ r.mark = NoRead /\ r.found = FALSE
      /\ r.left = HoldsWal
  <2>1. HoldsWal \in BOOLEAN /\ "check" \in Places BY DEF HoldsWal, Places
  <2>2. QED BY <2>1, IdleIsAct, CheckOf, Zenon DEF Idle
<1> HIDE DEF r
<1>4. act' \in [Processes -> Acts] /\ OthersKept(p) /\ act'[p] = r
  BY <1>1, <1>2, <1>3, ActPut
<1>5. Of(act'[p], wal, history, spoilt) BY <1>3, <1>4 DEF Of, HoldsWal
<1>6. folded' = folded \/ folded' = 0 BY <1>1
<1>7. act'[p].mark = NoRead BY <1>3, <1>4
<1>8. Told(told', wal, spoilt) /\ Verdicts(verdict', history) BY <1>1 DEF SideInv
<1>9. QED BY <1>1, <1>4, <1>5, <1>6, <1>7, <1>8, QuietStep

\* What is read of the two files is the value of pages.
LEMMA ViewTyped ==
    ASSUME NEW f, NEW w, NEW k, NEW h, FilesTyped(f, w, k, h), NEW p \in Pages,
           NEW n \in 0 .. Len(w)
    PROVE  View(f, w, n)[p] \in PageValue(Len(h))
<1>1. /\ Len(w) \in Nat /\ Len(h) \in Nat
      /\ \A i \in 1 .. Len(w) : w[i].version \in 1 .. Len(h)
      /\ f[p] \in PageValue(Len(h))
  BY FilesFacts
<1> DEFINE i == Latest(w, n, p)
<1>2. View(f, w, n)[p] = IF i = 0 THEN f[p] ELSE w[i].version BY DEF View
<1>3. i = 0 \/ i \in 1 .. Len(w) BY <1>1, LatestFacts
<1> HIDE DEF i
<1>4. QED BY <1>1, <1>2, <1>3 DEF PageValue

\* What is asked of integrity_check, and remembered, is of pages of several states.
LEMMA AskedFacts ==
    ASSUME SideInv, NEW says, Asked(says),
           DOMAIN says \subseteq {View(file, wal, ReadableLen(wal)), file}
    PROVE  Verdicts(verdict', history)
<1>1. FilesTyped(file, wal, folded, history) /\ Verdicts(verdict, history) BY DEF SideInv
<1>2. ReadableLen(wal) \in 0 .. Len(wal) /\ \A p \in Pages : file[p] \in PageValue(Len(history))
  BY <1>1, FilesFacts
<1>3. DOMAIN verdict' = DOMAIN verdict \cup {q \in DOMAIN says : Mixed(q)} BY DEF Asked
<1>4. \A q \in DOMAIN says : \A p \in Pages : q[p] \in PageValue(Len(history))
  BY <1>1, <1>2, ViewTyped
<1>5. \A q : Mixed(q) => \A n \in 0 .. Len(history) : q # StateOf(history, n)
  BY DEF Mixed, State, StateOf, Written
<1>6. QED BY <1>1, <1>3, <1>4, <1>5 DEF Verdicts

\* A committed state always passes.
LEMMA StatesPass ==
    ASSUME SideInv, NEW pages, NEW n \in 0 .. Len(history), pages = StateOf(history, n)
    PROVE  \A b \in Checks(pages) : b
<1>1. FilesTyped(file, wal, folded, history) /\ Verdicts(verdict, history) BY DEF SideInv
<1>2. n \in Nat BY <1>1, FilesFacts
<1>3. pages \notin DOMAIN verdict BY <1>1 DEF Verdicts
<1>4. ~Mixed(pages)
  <2>1. State(n) = StateOf(history, n) BY DEF State, StateOf, Written
  <2>2. QED BY <2>1 DEF Mixed
<1>5. Damaged \notin Range(pages)
  <2>1. \A p \in Pages : Written(history, n, p) \in Nat BY <1>2, WrittenFacts
  <2>2. DOMAIN pages = Pages /\ \A p \in Pages : pages[p] \in Nat BY <2>1 DEF StateOf
  <2>3. \A p \in Pages : pages[p] # Damaged BY <2>2, SideFilesAssumption
  <2>4. QED BY <2>2, <2>3 DEF Range
<1>6. QED BY <1>3, <1>4, <1>5 DEF Checks

\* A store not damaged passes.
LEMMA CleanPasses ==
    ASSUME SideInv, ~spoilt
    PROVE  \A b \in Checks(View(file, wal, ReadableLen(wal))) : b
<1> DEFINE read == View(file, wal, ReadableLen(wal))
<1>1. FilesTyped(file, wal, folded, history) /\ Verdicts(verdict, history) BY DEF SideInv
<1>2. Clean(file, wal, folded, history, MarksOf(act)) BY DEF SideInv
<1>3. /\ Len(wal) \in Nat /\ Len(history) \in Nat
      /\ Len(history) = Base(wal, history) + Len(wal)
      /\ ReadableLen(wal) = Len(wal)
  BY <1>1, <1>2, CleanFacts
<1>4. read = StateOf(history, Len(history))
  <2>1. Len(wal) \in MarksOf(act) \cup {Len(wal)} /\ Len(wal) \in 0 .. Len(wal) BY <1>3
  <2>2. View(file, wal, Len(wal)) = StateOf(history, Base(wal, history) + Len(wal))
    BY <1>1, <1>2, <2>1, CleanIsRead
  <2>3. QED BY <2>2, <1>3
<1> HIDE DEF read
<1>5. Len(history) \in 0 .. Len(history) BY <1>3
<1>6. \A b \in Checks(read) : b BY <1>4, <1>5, StatesPass
<1>7. QED BY <1>6 DEF read

\* The check: only a damaged store can be refused, and what it was asked is remembered.
LEMMA CheckKeeps ==
    ASSUME SideInv, NEW p \in Processes, Check(p)
    PROVE  SideInv'
<1> DEFINE read == View(file, wal, ReadableLen(wal))
<1>1. /\ act[p].at = "check"
      /\ file' = file /\ wal' = wal /\ folded' = folded /\ history' = history
      /\ spoilt' = spoilt
  BY DEF Check, files
<1>2. PICK says \in [{read, file} -> BOOLEAN] :
         /\ \A pages \in {read, file} : says[pages] \in Checks(pages)
         /\ IF says[read]
            THEN Goes(p, "open") /\ Asked([pages \in {read} |-> TRUE]) /\ UNCHANGED told
            ELSE /\ told' = Report(act[p].left, says[file])
                 /\ Goes(p, "refused") /\ Asked(says)
  BY DEF Check
<1> HIDE DEF read
<1>3. act[p].mark = NoRead /\ ~act[p].found /\ (spoilt => act[p].left \/ wal = <<>>)
  BY <1>1 DEF SideInv, Of
<1>4. CASE says[read]
  <2>1. Goes(p, "open") /\ Asked([pages \in {read} |-> TRUE]) /\ told' = told BY <1>2, <1>4
  <2>2. /\ act' \in [Processes -> Acts] /\ OthersKept(p)
        /\ act'[p].at = "open" /\ act'[p].mark = act[p].mark /\ act'[p].found = act[p].found
    BY <2>1, GoesFacts DEF Places
  <2>3. Of(act'[p], wal, history, spoilt) BY <1>3, <2>2, OfOthers
  <2>4. Verdicts(verdict', history) BY <2>1, AskedFacts DEF read
  <2>5. Told(told', wal, spoilt) BY <2>1 DEF SideInv
  <2>6. QED BY <1>1, <2>2, <2>3, <2>4, <2>5, QuietStep
<1>5. CASE ~says[read]
  <2>1. /\ told' = Report(act[p].left, says[file])
        /\ Goes(p, "refused") /\ Asked(says)
    BY <1>2, <1>5
  <2>2. /\ act' \in [Processes -> Acts] /\ OthersKept(p)
        /\ act'[p].at = "refused" /\ act'[p].mark = act[p].mark /\ act'[p].found = act[p].found
        /\ act'[p].left = act[p].left
    BY <2>1, GoesFacts DEF Places
  <2>3. spoilt
    <3>1. says[read] \in Checks(read) BY <1>2
    <3>2. QED BY <3>1, <1>5, CleanPasses DEF read
  <2>4. Of(act'[p], wal, history, spoilt) BY <1>3, <2>2, <2>3 DEF Of
  <2>5. Verdicts(verdict', history) BY <2>1, AskedFacts DEF read
  <2>6. told'.walKept = act[p].left BY <2>1 DEF Report
  <2>7. Told(told', wal, spoilt) BY <2>3, <2>6, <1>3 DEF Told
  <2>8. QED BY <1>1, <2>2, <2>4, <2>5, <2>7, QuietStep
<1>6. QED BY <1>4, <1>5

\* Store(): a store opened for reads only, that finds a -wal, will keep it.
LEMMA OpenKeeps ==
    ASSUME SideInv, NEW p \in Processes, Open(p)
    PROVE  SideInv'
<1> DEFINE r == [Idle EXCEPT !.at = "using", !.reads = act[p].reads, !.keepWal = KeepsWal(p),
                             !.found = act[p].reads /\ HoldsWal]
<1>1. /\ act' = [act EXCEPT ![p] = r]
      /\ file' = file /\ wal' = wal /\ folded' = folded /\ history' = history
      /\ told' = told /\ verdict' = verdict /\ spoilt' = spoilt
  BY DEF Open, files
<1>2. act \in [Processes -> Acts] /\ act[p] \in Acts BY DEF SideInv
<1>3. /\ r \in Acts /\ r.at = "using" /\ r.mark = NoRead /\ r.reads = act[p].reads
      /\ r.keepWal = KeepsWal(p) /\ r.found = (act[p].reads /\ HoldsWal)
  <2>1. act[p].reads \in BOOLEAN BY <1>2 DEF Acts
  <2>2. KeepsWal(p) \in BOOLEAN /\ (act[p].reads /\ HoldsWal) \in BOOLEAN /\ "using" \in Places
    BY DEF KeepsWal, Places
  <2>3. PICK a \in Acts : a = Idle BY IdleIsAct
  <2>4. PICK place \in Places : place = "using" BY <2>2
  <2>5. PICK reads \in BOOLEAN : reads = act[p].reads BY <2>1
  <2>6. PICK keeps \in BOOLEAN : keeps = KeepsWal(p) BY <2>2
  <2>7. PICK found \in BOOLEAN : found = (act[p].reads /\ HoldsWal) BY <2>2
  <2>8. r = [a EXCEPT !.at = place, !.reads = reads, !.keepWal = keeps, !.found = found]
    BY <2>3, <2>4, <2>5, <2>6, <2>7, Zenon
  <2> HIDE DEF r
  <2>9. /\ r \in Acts /\ r.at = place /\ r.mark = a.mark /\ r.reads = reads
        /\ r.keepWal = keeps /\ r.found = found
    BY <2>3, <2>4, <2>5, <2>6, <2>7, <2>8 DEF Acts
  <2>10. a.mark = NoRead BY <2>3, IdleIsAct
  <2>11. QED BY <2>4, <2>5, <2>6, <2>7, <2>9, <2>10, Zenon
<1> HIDE DEF r
<1>4. act' \in [Processes -> Acts] /\ OthersKept(p) /\ act'[p] = r
  BY <1>1, <1>2, <1>3, ActPut
<1>5. Of(act'[p], wal, history, spoilt) BY <1>3, <1>4 DEF Of, KeepsWal
<1>6. Told(told', wal, spoilt) /\ Verdicts(verdict', history) BY <1>1 DEF SideInv
<1>7. act'[p].mark = NoRead BY <1>3, <1>4
<1>8. QED BY <1>1, <1>4, <1>5, <1>6, <1>7, QuietStep

\* A read opens at the end of the -wal, which is the last commit.
LEMMA ReadKeeps ==
    ASSUME SideInv, NEW p \in Processes, Read(p)
    PROVE  SideInv'
<1> DEFINE r == [act[p] EXCEPT !.mark = ReadableLen(wal), !.state = Len(history)]
<1>1. /\ act[p].at = "using"
      /\ file' = file /\ wal' = wal /\ folded' = folded /\ history' = history
      /\ told' = told /\ verdict' = verdict /\ spoilt' = spoilt
  BY DEF Read, files
<1>2. act' = [act EXCEPT ![p] = r] BY DEF Read
<1>3. act \in [Processes -> Acts] /\ act[p] \in Acts /\ Of(act[p], wal, history, spoilt)
  BY DEF SideInv
<1>4. /\ Len(wal) \in Nat /\ Len(history) \in Nat /\ ReadableLen(wal) \in 0 .. Len(wal)
  BY FilesFacts DEF SideInv
<1>5. /\ r \in Acts /\ r.at = act[p].at /\ r.mark = ReadableLen(wal) /\ r.state = Len(history)
      /\ r.reads = act[p].reads /\ r.keepWal = act[p].keepWal /\ r.found = act[p].found
  <2>1. ReadableLen(wal) \in Int /\ Len(history) \in Int BY <1>4
  <2>2. PICK a \in Acts : a = act[p] BY <1>3
  <2>3. PICK mark \in Int : mark = ReadableLen(wal) BY <2>1
  <2>4. PICK state \in Int : state = Len(history) BY <2>1
  <2>5. r = [a EXCEPT !.mark = mark, !.state = state] BY <2>2, <2>3, <2>4, Zenon
  <2> HIDE DEF r
  <2>6. /\ r \in Acts /\ r.at = a.at /\ r.mark = mark /\ r.state = state
        /\ r.reads = a.reads /\ r.keepWal = a.keepWal /\ r.found = a.found
    BY <2>2, <2>3, <2>4, <2>5 DEF Acts
  <2>7. QED BY <2>2, <2>3, <2>4, <2>6, Zenon
<1> HIDE DEF r
<1>6. act' \in [Processes -> Acts] /\ OthersKept(p) /\ act'[p] = r
  BY <1>2, <1>3, <1>5, ActPut
<1>7. ~spoilt => /\ ReadableLen(wal) = Len(wal)
                 /\ Len(history) = Base(wal, history) + Len(wal)
  BY CleanFacts DEF SideInv
<1>8. Of(act'[p], wal, history, spoilt)
  <2>1. r.mark \in 0 .. Len(wal) /\ r.at = "using" BY <1>1, <1>4, <1>5
  <2>2. ~spoilt => r.state = Base(wal, history) + r.mark BY <1>5, <1>7
  <2>3. r.found => r.at \in {"using", "last"} /\ r.reads /\ r.keepWal
    BY <1>3, <1>5, Zenon DEF Of
  <2>4. QED BY <1>6, <2>1, <2>2, <2>3 DEF Of
<1>9. Told(told', wal, spoilt) /\ Verdicts(verdict', history) BY <1>1 DEF SideInv
<1>10. ~spoilt => act'[p].mark = Len(wal) BY <1>5, <1>6, <1>7
<1>11. QED BY <1>1, <1>6, <1>8, <1>9, <1>10, QuietStep

\* A read ends.
LEMMA EndReadKeeps ==
    ASSUME SideInv, NEW p \in Processes, EndRead(p)
    PROVE  SideInv'
<1> DEFINE r == [act[p] EXCEPT !.mark = NoRead, !.state = 0]
<1>1. /\ act[p].mark # NoRead
      /\ file' = file /\ wal' = wal /\ folded' = folded /\ history' = history
      /\ told' = told /\ verdict' = verdict /\ spoilt' = spoilt
  BY DEF EndRead, files
<1>2. act' = [act EXCEPT ![p] = r] BY DEF EndRead
<1>3. act \in [Processes -> Acts] /\ act[p] \in Acts /\ Of(act[p], wal, history, spoilt)
  BY DEF SideInv
<1>4. /\ r \in Acts /\ r.at = act[p].at /\ r.mark = NoRead
      /\ r.reads = act[p].reads /\ r.keepWal = act[p].keepWal /\ r.found = act[p].found
  <2>1. NoRead \in Int /\ 0 \in Int BY DEF NoRead
  <2>2. PICK a \in Acts : a = act[p] BY <1>3
  <2>3. PICK mark \in Int : mark = NoRead BY <2>1
  <2>4. PICK state \in Int : state = 0 BY <2>1
  <2>5. r = [a EXCEPT !.mark = mark, !.state = state] BY <2>2, <2>3, <2>4, Zenon
  <2> HIDE DEF r
  <2>6. /\ r \in Acts /\ r.at = a.at /\ r.mark = mark
        /\ r.reads = a.reads /\ r.keepWal = a.keepWal /\ r.found = a.found
    BY <2>2, <2>3, <2>4, <2>5 DEF Acts
  <2>7. QED BY <2>2, <2>3, <2>6, Zenon
<1> HIDE DEF r
<1>5. act' \in [Processes -> Acts] /\ OthersKept(p) /\ act'[p] = r
  BY <1>2, <1>3, <1>4, ActPut
<1>6. act[p].at = "using" BY <1>1, <1>3 DEF Of
<1>7. Of(act'[p], wal, history, spoilt)
  <2>1. r.found => r.at \in {"using", "last"} /\ r.reads /\ r.keepWal
    BY <1>3, <1>4, Zenon DEF Of
  <2>2. QED BY <1>4, <1>5, <1>6, <2>1 DEF Of
<1>8. Told(told', wal, spoilt) /\ Verdicts(verdict', history) BY <1>1 DEF SideInv
<1>9. act'[p].mark = NoRead BY <1>4, <1>5
<1>10. QED BY <1>1, <1>5, <1>7, <1>8, <1>9, QuietStep

\* close ends its own reads before anything else.
LEMMA CloseKeeps ==
    ASSUME SideInv, NEW p \in Processes, Close(p)
    PROVE  SideInv'
<1> DEFINE place == IF act[p].reads THEN "last" ELSE "passive"
           r == [[act[p] EXCEPT !.mark = NoRead, !.state = 0] EXCEPT !.at = place]
<1>1. /\ file' = file /\ wal' = wal /\ folded' = folded /\ history' = history
      /\ told' = told /\ verdict' = verdict /\ spoilt' = spoilt
  BY DEF Close, files
<1>2. act \in [Processes -> Acts] /\ act[p] \in Acts /\ Of(act[p], wal, history, spoilt)
  BY DEF SideInv
<1>3. act' = [act EXCEPT ![p] = r] BY DEF Close, ReadsClosed
<1>4. place \in Places /\ (act[p].reads => place = "last") /\ place \in {"last", "passive"}
  BY DEF Places
<1> HIDE DEF place
<1>5. /\ r \in Acts /\ r.at = place /\ r.mark = NoRead
      /\ r.reads = act[p].reads /\ r.keepWal = act[p].keepWal /\ r.found = act[p].found
  <2>1. NoRead \in Int /\ 0 \in Int BY DEF NoRead
  <2>2. PICK a \in Acts : a = act[p] BY <1>2
  <2>3. PICK mark \in Int : mark = NoRead BY <2>1
  <2>4. PICK state \in Int : state = 0 BY <2>1
  <2>5. r = [[a EXCEPT !.mark = mark, !.state = state] EXCEPT !.at = place]
    BY <2>2, <2>3, <2>4, Zenon
  <2> HIDE DEF r
  <2>6. /\ r \in Acts /\ r.at = place /\ r.mark = mark
        /\ r.reads = a.reads /\ r.keepWal = a.keepWal /\ r.found = a.found
    BY <1>4, <2>2, <2>3, <2>4, <2>5 DEF Acts
  <2>7. QED BY <2>2, <2>3, <2>6, Zenon
<1> HIDE DEF r
<1>6. act' \in [Processes -> Acts] /\ OthersKept(p) /\ act'[p] = r
  BY <1>2, <1>3, <1>5, ActPut
<1>7. Of(act'[p], wal, history, spoilt)
  <2>1. r.found => r.reads /\ r.keepWal /\ act[p].reads
    BY <1>2, <1>5, Zenon DEF Of
  <2>2. QED BY <1>4, <1>5, <1>6, <2>1 DEF Of
<1>8. Told(told', wal, spoilt) /\ Verdicts(verdict', history) BY <1>1 DEF SideInv
<1>9. act'[p].mark = NoRead BY <1>5, <1>6
<1>10. QED BY <1>1, <1>6, <1>7, <1>8, <1>9, QuietStep

\* A pause between two tries.
LEMMA PauseKeeps ==
    ASSUME SideInv, NEW p \in Processes, Pause(p)
    PROVE  SideInv'
<1> DEFINE more == IF act[p].tries < MaxTries THEN act[p].tries + 1 ELSE act[p].tries
           r == [act[p] EXCEPT !.at = "truncate", !.tries = more]
<1>1. /\ act[p].at = "pause"
      /\ file' = file /\ wal' = wal /\ folded' = folded /\ history' = history
      /\ told' = told /\ verdict' = verdict /\ spoilt' = spoilt
  BY DEF Pause, files
<1>2. act \in [Processes -> Acts] /\ act[p] \in Acts /\ Of(act[p], wal, history, spoilt)
  BY DEF SideInv
<1>3. act' = [act EXCEPT ![p] = r] BY <1>2 DEF Pause, Acts
<1>4. more \in Int
  <2>1. act[p].tries \in Int BY <1>2 DEF Acts
  <2>2. QED BY <2>1
<1> HIDE DEF more
<1>5. r \in Acts /\ r.at = "truncate" /\ r.mark = act[p].mark /\ r.found = act[p].found
  <2>1. "truncate" \in Places BY DEF Places
  <2>2. PICK a \in Acts : a = act[p] BY <1>2
  <2>3. PICK place \in Places : place = "truncate" BY <2>1
  <2>4. r = [a EXCEPT !.at = place, !.tries = more] BY <2>2, <2>3, Zenon
  <2> HIDE DEF r
  <2>5. r \in Acts /\ r.at = place /\ r.mark = a.mark /\ r.found = a.found
    BY <1>4, <2>2, <2>3, <2>4 DEF Acts
  <2>6. QED BY <2>2, <2>3, <2>5, Zenon
<1> HIDE DEF r
<1>6. act' \in [Processes -> Acts] /\ OthersKept(p) /\ act'[p] = r
  BY <1>2, <1>3, <1>5, ActPut
<1>7. act[p].mark = NoRead /\ ~act[p].found BY <1>1, <1>2 DEF Of
<1>8. Of(act'[p], wal, history, spoilt) BY <1>5, <1>6, <1>7, OfOthers
<1>9. Told(told', wal, spoilt) /\ Verdicts(verdict', history) BY <1>1 DEF SideInv
<1>10. act'[p].mark = NoRead BY <1>5, <1>6, <1>7
<1>11. QED BY <1>1, <1>6, <1>8, <1>9, <1>10, QuietStep

\* The module's fold is the one the lemmas are about.
LEMMA FoldIsFolded == \A n, last : FoldedTo(n, last) = Folded(file, wal, n, last)
BY DEF FoldedTo, Folded

\* The store's own checkpoint folds up to the oldest read of another.
LEMMA CheckpointKeeps ==
    ASSUME SideInv, NEW p \in Processes, Checkpoint(p)
    PROVE  SideInv'
<1>1. /\ act[p].mark = NoRead /\ act' = act
      /\ wal' = wal /\ history' = history /\ told' = told /\ verdict' = verdict
      /\ spoilt' = spoilt /\ folded' = FoldsUpTo(p)
  BY DEF Checkpoint, Fold
<1>2. file' = Folded(file, wal, FoldsUpTo(p), Max(Pages)) BY FoldIsFolded DEF Checkpoint, Fold
<1>3. act \in [Processes -> Acts] /\ Of(act[p], wal, history, spoilt) BY DEF SideInv
<1>4. act' \in [Processes -> Acts] /\ OthersKept(p) BY <1>1, <1>3 DEF OthersKept
<1>5. Of(act'[p], wal, history, spoilt) /\ act'[p].mark = NoRead BY <1>1, <1>3
<1>6. QED BY <1>1, <1>2, <1>4, <1>5, FoldStep

\* The PASSIVE fold of a close does too.
LEMMA PassiveKeeps ==
    ASSUME SideInv, NEW p \in Processes, Passive(p)
    PROVE  SideInv'
<1> DEFINE again == Len(wal) > WalCap
           r == [act[p] EXCEPT !.at = "truncate", !.again = again]
<1>1. /\ act[p].at = "passive"
      /\ wal' = wal /\ history' = history /\ told' = told /\ verdict' = verdict
      /\ spoilt' = spoilt /\ folded' = FoldsUpTo(p)
  BY DEF Passive, Fold
<1>2. file' = Folded(file, wal, FoldsUpTo(p), Max(Pages)) BY FoldIsFolded DEF Passive, Fold
<1>3. act' = [act EXCEPT ![p] = r] BY DEF Passive
<1>4. act \in [Processes -> Acts] /\ act[p] \in Acts /\ Of(act[p], wal, history, spoilt)
  BY DEF SideInv
<1>5. r \in Acts /\ r.at = "truncate" /\ r.mark = act[p].mark /\ r.found = act[p].found
  <2>1. "truncate" \in Places /\ again \in BOOLEAN BY DEF Places
  <2>2. PICK a \in Acts : a = act[p] BY <1>4
  <2>3. PICK place \in Places : place = "truncate" BY <2>1
  <2>4. PICK b \in BOOLEAN : b = again BY <2>1
  <2>5. r = [a EXCEPT !.at = place, !.again = b] BY <2>2, <2>3, <2>4, Zenon
  <2> HIDE DEF r
  <2>6. r \in Acts /\ r.at = place /\ r.mark = a.mark /\ r.found = a.found
    BY <2>2, <2>3, <2>4, <2>5 DEF Acts
  <2>7. QED BY <2>2, <2>3, <2>6, Zenon
<1> HIDE DEF r
<1>6. act' \in [Processes -> Acts] /\ OthersKept(p) /\ act'[p] = r
  BY <1>3, <1>4, <1>5, ActPut
<1>7. act[p].mark = NoRead /\ ~act[p].found BY <1>1, <1>4 DEF Of
<1>8. Of(act'[p], wal, history, spoilt) BY <1>5, <1>6, <1>7, OfOthers
<1>9. act'[p].mark = NoRead BY <1>5, <1>6, <1>7
<1>10. QED BY <1>1, <1>2, <1>6, <1>8, <1>9, FoldStep

\* Nobody else reads: after p's step, which ends or leaves no read of its own, nobody does.
LEMMA NobodyReads ==
    ASSUME SideInv, NEW p \in Processes, OthersKept(p), act'[p].mark = NoRead,
           NoReadBeside(p) \/ LastOpen(p)
    PROVE  \A q \in Processes : act'[q].mark = NoRead
<1> SUFFICES ASSUME NEW q \in Processes PROVE act'[q].mark = NoRead OBVIOUS
<1>1. CASE q = p BY <1>1
<1>2. CASE q # p
  <2>1. act'[q] = act[q] BY <1>2 DEF OthersKept
  <2>2. CASE NoReadBeside(p) BY <1>2, <2>1, <2>2 DEF NoReadBeside
  <2>3. CASE LastOpen(p)
    <3>1. act[q].at # "using" BY <1>2, <2>3 DEF LastOpen
    <3>2. QED BY <2>1, <3>1, NoMark
  <2>4. QED BY <2>2, <2>3
<1>3. QED BY <1>1, <1>2

\* TRUNCATE empties the -wal only when nobody else reads.
LEMMA TruncateKeeps ==
    ASSUME SideInv, NEW p \in Processes, Truncate(p)
    PROVE  SideInv'
<1>1. /\ act[p].at = "truncate" /\ NoReadBeside(p) /\ GoesLast(p)
      /\ wal' = <<>> /\ folded' = 0
      /\ history' = history /\ told' = told /\ verdict' = verdict /\ spoilt' = spoilt
  BY DEF Truncate
<1>2. file' = Folded(file, wal, ReadableLen(wal), Max(Pages)) BY FoldIsFolded DEF Truncate
<1>3. /\ act' \in [Processes -> Acts] /\ OthersKept(p)
      /\ act'[p].at = "last" /\ act'[p].mark = act[p].mark /\ act'[p].found = act[p].found
  BY <1>1, GoesLastFacts
<1>4. act[p].mark = NoRead /\ ~act[p].found BY <1>1 DEF SideInv, Of
<1>5. Of(act'[p], <<>>, history, spoilt) BY <1>3, <1>4, OfOthers
<1>6. \A q \in Processes : act'[q].mark = NoRead BY <1>1, <1>3, <1>4, NobodyReads
<1>7. QED BY <1>1, <1>2, <1>3, <1>5, <1>6, EmptyStep

\* A TRUNCATE that does not get to that may have folded what a PASSIVE one does.
LEMMA TruncateBusyKeeps ==
    ASSUME SideInv, NEW p \in Processes, TruncateBusy(p)
    PROVE  SideInv'
<1>1. /\ act[p].at = "truncate"
      /\ history' = history /\ told' = told /\ verdict' = verdict /\ spoilt' = spoilt
      /\ Goes(p, "pause") \/ GoesLast(p)
  BY DEF TruncateBusy
<1>2. /\ act' \in [Processes -> Acts] /\ OthersKept(p)
      /\ act'[p].at \in {"pause", "last"} /\ act'[p].mark = act[p].mark
      /\ act'[p].found = act[p].found
  <2>1. CASE Goes(p, "pause") BY <2>1, GoesFacts DEF Places
  <2>2. CASE GoesLast(p) BY <2>2, GoesLastFacts
  <2>3. QED BY <1>1, <2>1, <2>2
<1>3. act[p].mark = NoRead /\ ~act[p].found BY <1>1 DEF SideInv, Of
<1>4. Of(act'[p], wal, history, spoilt) BY <1>2, <1>3, OfOthers
<1>5. act'[p].mark = NoRead BY <1>2, <1>3
<1>6. CASE UNCHANGED files
  <2>1. file' = file /\ wal' = wal /\ folded' = folded BY <1>6 DEF files
  <2>2. Told(told', wal, spoilt) /\ Verdicts(verdict', history) BY <1>1 DEF SideInv
  <2>3. QED BY <1>1, <1>2, <1>4, <1>5, <2>1, <2>2, QuietStep
<1>7. CASE Fold(p) /\ wal' = wal
  <2>1. folded' = FoldsUpTo(p) /\ file' = Folded(file, wal, FoldsUpTo(p), Max(Pages))
    BY <1>7, FoldIsFolded DEF Fold
  <2>2. QED BY <1>1, <1>2, <1>4, <1>5, <1>7, <2>1, FoldStep
<1>8. QED BY <1>6, <1>7 DEF TruncateBusy

\* The last close, by whoever ends with it.
LEMMA LastCloseKeeps ==
    ASSUME SideInv, NEW p \in Processes, NEW keeps, LastClose(p, keeps), Ends(p),
           history' = history, told' = told, verdict' = verdict, spoilt' = spoilt
    PROVE  SideInv'
<1>1. /\ act' \in [Processes -> Acts] /\ OthersKept(p)
      /\ act'[p].mark = NoRead /\ \A w, h, s : Of(act'[p], w, h, s)
  BY EndsFacts
<1>2. CASE LastOpen(p) /\ ~keeps
  <2>1. /\ file' = Folded(file, wal, ReadableLen(wal), Max(Pages))
        /\ wal' = <<>> /\ folded' = 0
    BY <1>2, FoldIsFolded DEF LastClose
  <2>2. \A q \in Processes : act'[q].mark = NoRead BY <1>1, <1>2, NobodyReads
  <2>3. Of(act'[p], <<>>, history, spoilt) BY <1>1
  <2>4. QED BY <1>1, <2>1, <2>2, <2>3, EmptyStep
<1>3. CASE ~(LastOpen(p) /\ ~keeps)
  <2>1. file' = file /\ wal' = wal /\ folded' = folded BY <1>3 DEF LastClose, files
  <2>2. Told(told', wal, spoilt) /\ Verdicts(verdict', history) BY DEF SideInv
  <2>3. Of(act'[p], wal, history, spoilt) BY <1>1
  <2>4. QED BY <1>1, <2>1, <2>2, <2>3, QuietStep
<1>4. QED BY <1>2, <1>3

\* A refused check's connection closes.
LEMMA RefusedKeepsInv ==
    ASSUME SideInv, NEW p \in Processes, Refused(p)
    PROVE  SideInv'
<1>1. /\ LastClose(p, RefusedKeeps(p)) /\ Ends(p)
      /\ history' = history /\ told' = told /\ verdict' = verdict /\ spoilt' = spoilt
  BY DEF Refused
<1>2. QED BY <1>1, LastCloseKeeps

\* The writing connection closes.
LEMMA LastKeeps ==
    ASSUME SideInv, NEW p \in Processes, Last(p)
    PROVE  SideInv'
<1>1. /\ LastClose(p, act[p].keepWal) /\ Ends(p)
      /\ history' = history /\ told' = told /\ verdict' = verdict /\ spoilt' = spoilt
  BY DEF Last
<1>2. QED BY <1>1, LastCloseKeeps

\* A process stopped hard, perhaps half way through a fold: a page written is one of a commit
\* that every read still open sees.
LEMMA StopKeeps ==
    ASSUME SideInv, NEW p \in Processes, Stop(p)
    PROVE  SideInv'
<1>1. /\ Ends(p)
      /\ wal' = wal /\ folded' = folded /\ history' = history /\ told' = told
      /\ verdict' = verdict /\ spoilt' = spoilt
  BY DEF Stop
<1>2. /\ act' \in [Processes -> Acts] /\ OthersKept(p)
      /\ act'[p].mark = NoRead /\ Of(act'[p], wal, history, spoilt)
  BY <1>1, EndsFacts
<1>3. CASE file' = file
  <2>1. Told(told', wal, spoilt) /\ Verdicts(verdict', history) BY <1>1 DEF SideInv
  <2>2. QED BY <1>1, <1>2, <1>3, <2>1, QuietStep
<1>4. ASSUME NEW last \in Pages, file' = FoldedTo(FoldsUpTo(p), last) PROVE SideInv'
  <2>1. file' = Folded(file, wal, FoldsUpTo(p), last) BY <1>4, FoldIsFolded
  <2>2. QED BY <1>1, <1>2, <2>1, FoldStep
<1>5. QED BY <1>3, <1>4 DEF Stop

\* A commit starts the -wal over only when no read uses it and all of it is in the file.
LEMMA CommitKeeps ==
    ASSUME SideInv, NEW p \in Processes, NEW pages \in SUBSET Pages, pages # {},
           Commit(p, pages)
    PROVE  SideInv'
<1> DEFINE over == /\ wal # <<>> /\ folded = Len(wal)
                   /\ \A q \in Processes : act[q].mark = NoRead
<1>1. /\ ~spoilt /\ Len(history) < MaxCommits
      /\ history' = Append(history, pages)
      /\ file' = file /\ act' = act /\ told' = told /\ verdict' = verdict /\ spoilt' = spoilt
  BY DEF Commit
<1>2. /\ over => wal' = <<CommitOf(history, pages)>> /\ folded' = 0
      /\ ~over => wal' = Append(wal, CommitOf(history, pages)) /\ folded' = folded
  BY DEF Commit, CommitOf
<1>3. FilesTyped(file, wal, folded, history) /\ Verdicts(verdict, history) BY DEF SideInv
<1>4. Clean(file, wal, folded, history, MarksOf(act)) BY <1>1 DEF SideInv
<1>5. Verdicts(verdict', history')
  <2>1. history \in Seq(SUBSET Pages) BY <1>3 DEF FilesTyped
  <2>2. QED BY <1>1, <1>3, <2>1, VerdictsOfCommit
<1>6. Told(told', wal', spoilt') BY <1>1 DEF SideInv, Told
<1>7. spoilt' \in BOOLEAN BY <1>1, Zenon DEF SideInv
<1>8. act' \in [Processes -> Acts] BY <1>1 DEF SideInv
<1>9. \A q \in Processes : Of(act[q], wal, history, spoilt) BY DEF SideInv
<1> HIDE DEF over
<1>10. CASE over
  <2>1. wal' = <<CommitOf(history, pages)>> /\ folded' = 0 BY <1>2, <1>10
  <2>2. folded = Len(wal) /\ \A q \in Processes : act[q].mark = NoRead BY <1>10 DEF over
  <2>3. FilesTyped(file', wal', folded', history') BY <1>1, <1>3, <2>1, RestartTyped
  <2>4. MarksOf(act') = {} BY <1>1, <2>2 DEF MarksOf
  <2>5. Clean(file', wal', folded', history', MarksOf(act'))
    BY <1>1, <1>3, <1>4, <2>1, <2>2, <2>4, RestartClean
  <2>6. \A q \in Processes : Of(act'[q], wal', history', spoilt')
    BY <1>1, <1>9, <2>2 DEF Of
  <2>7. QED BY <1>5, <1>6, <1>7, <1>8, <2>3, <2>5, <2>6 DEF SideInv
<1>11. CASE ~over
  <2>1. wal' = Append(wal, CommitOf(history, pages)) /\ folded' = folded BY <1>2, <1>11
  <2>2. FilesTyped(file', wal', folded', history') BY <1>1, <1>3, <2>1, AppendTyped
  <2>3. /\ Base(wal', history') = Base(wal, history)
        /\ Clean(file', wal', folded', history', MarksOf(act'))
    BY <1>1, <1>3, <1>4, <2>1, AppendClean
  <2>4. Len(wal) \in Nat /\ Len(wal') = Len(wal) + 1
    <3>1. wal \in Seq(Frames) BY <1>3 DEF FilesTyped
    <3>2. QED BY <2>1, <3>1
  <2>5. ASSUME NEW q \in Processes PROVE Of(act'[q], wal', history', spoilt')
    <3>1. Of(act[q], wal, history, spoilt) BY <1>9
    <3>2. act[q].mark \in 0 .. Len(wal) => act[q].mark \in 0 .. Len(wal') BY <2>4
    <3>3. QED BY <1>1, <2>3, <3>1, <3>2 DEF Of
  <2>6. QED BY <1>5, <1>6, <1>7, <1>8, <2>2, <2>3, <2>5 DEF SideInv
<1>12. QED BY <1>10, <1>11

\* Nobody is at a check, or reads, while the files are at rest.
LEMMA RestFacts ==
    ASSUME SideInv, AtRest, NEW w, NEW h, NEW s
    PROVE  MarksOf(act) = {} /\ \A q \in Processes : Of(act[q], w, h, s)
<1>1. \A q \in Processes : act[q].mark = NoRead BY NoMark DEF AtRest
<1>2. \A q \in Processes : ~act[q].found BY DEF AtRest, SideInv, Of
<1>3. \A q \in Processes : Of(act[q], w, h, s) BY <1>1, <1>2, OfOthers DEF AtRest
<1>4. QED BY <1>1, <1>3 DEF MarksOf

\* Damage is done at rest: what was known of the files as committed is not claimed any more.
LEMMA DamageKeeps ==
    ASSUME SideInv, Damage
    PROVE  SideInv'
<1>1. /\ AtRest /\ spoilt' = TRUE
      /\ folded' = folded /\ history' = history /\ act' = act /\ told' = told
      /\ verdict' = verdict
  BY DEF Damage
<1>2. FilesTyped(file, wal, folded, history) BY DEF SideInv
<1> DEFINE Kept == /\ FilesTyped(file', wal', folded', history')
                   /\ wal = <<>> => wal' = <<>>
<1>3. Kept
  <2>1. ASSUME NEW p \in Pages, file' = [file EXCEPT ![p] = Damaged], wal' = wal
        PROVE  Kept
    BY <1>1, <1>2, <2>1, DamageTyped
  <2>2. ASSUME NEW i \in DOMAIN wal, NEW p \in wal[i].pages,
               wal' = [wal EXCEPT ![i].bad = {p}], file' = file
        PROVE  Kept
    <3>1. wal \in Seq(Frames) BY <1>2 DEF FilesTyped
    <3>2. i \in 1 .. Len(wal) /\ wal[i] \in Frames /\ wal # <<>> BY <3>1
    <3>3. p \in Pages BY <3>2 DEF Frames
    <3>4. QED BY <1>1, <1>2, <2>2, <3>2, <3>3, DamageTyped
  <2>3. QED BY <2>1, <2>2 DEF Damage
<1>4. \A q \in Processes : Of(act'[q], wal', history', spoilt') BY <1>1, RestFacts
<1>5. Told(told', wal', spoilt') BY <1>1, <1>3 DEF SideInv, Told
<1>6. Verdicts(verdict', history') /\ act' \in [Processes -> Acts] BY <1>1 DEF SideInv
<1>7. QED BY <1>1, <1>3, <1>4, <1>5, <1>6 DEF SideInv

\* The copy put back stands alone: the refusal had the -wal moved aside, or there was none.
LEMMA RestoreKeeps ==
    ASSUME SideInv, NEW n \in 0 .. Len(history), Restore(n)
    PROVE  SideInv'
<1>1. /\ AtRest /\ told.refused
      /\ file' = State(n) /\ history' = SubSeq(history, 1, n)
      /\ wal' = IF told.walKept THEN <<>> ELSE wal
      /\ told' = NoReport /\ verdict' = <<>> /\ spoilt' = FALSE
      /\ folded' = 0 /\ act' = act
  BY DEF Restore, MovesWalAside
<1>2. wal' = <<>> BY <1>1 DEF SideInv, Told
<1>3. State(n) = StateOf(history, n) BY DEF State, StateOf, Written
<1>4. FilesTyped(file, wal, folded, history) BY DEF SideInv
<1>5. /\ FilesTyped(file', wal', folded', history')
      /\ Clean(file', wal', folded', history', {})
  BY <1>1, <1>2, <1>3, <1>4, RestoreClean
<1>6. MarksOf(act') = {} /\ \A q \in Processes : Of(act'[q], wal', history', spoilt')
  BY <1>1, RestFacts
<1>7. Told(told', wal', spoilt') BY <1>1 DEF Told, NoReport
<1>8. Verdicts(verdict', history') BY <1>1 DEF Verdicts
<1>9. act' \in [Processes -> Acts] /\ spoilt' \in BOOLEAN BY <1>1 DEF SideInv
<1>10. QED BY <1>5, <1>6, <1>7, <1>8, <1>9 DEF SideInv

\* The invariant holds of a new store.
LEMMA InitHolds ==
    ASSUME Init
    PROVE  SideInv
<1>1. /\ file = [p \in Pages |-> 0] /\ wal = <<>> /\ folded = 0 /\ history = <<>>
      /\ act = [p \in Processes |-> Idle]
      /\ told = NoReport /\ verdict = <<>> /\ spoilt = FALSE
  BY DEF Init
<1>2. /\ <<>> \in Seq(SUBSET Pages) /\ <<>> \in Seq(Frames) /\ Len(<<>>) = 0
      /\ \A i : ~(i \in 1 .. 0)
  OBVIOUS
<1>3. file \in [Pages -> PageValue(0)] BY <1>1 DEF PageValue
<1>4. FilesTyped(file, wal, folded, history)
  <2>1. 0 <= MaxCommits /\ 0 \in 0 .. 0 BY SideFilesAssumption
  <2>2. QED BY <1>1, <1>2, <1>3, <2>1 DEF FilesTyped
<1>5. file = StateOf(history, Len(history))
  <2>1. \A p \in Pages : Written(<<>>, 0, p) = 0
    <3>1. \A p \in Pages : Written(<<>>, 0, p) \in 0 .. 0 BY WrittenFacts
    <3>2. QED BY <3>1
  <2>2. QED BY <1>1, <1>2, <2>1 DEF StateOf
<1>6. Clean(file, wal, folded, history, {})
  <2>1. Len(history) \in Nat BY <1>1, <1>2
  <2>2. QED BY <1>1, <1>5, <2>1, LastStateIsClean
<1>7. act \in [Processes -> Acts] /\ \A q \in Processes : act[q] = Idle BY <1>1, IdleIsAct
<1>8. MarksOf(act) = {} /\ \A q \in Processes : Of(act[q], wal, history, spoilt)
  BY <1>7, IdleIsAct DEF MarksOf
<1>9. Told(told, wal, spoilt) BY <1>1 DEF Told, NoReport
<1>10. Verdicts(verdict, history) BY <1>1 DEF Verdicts
<1>11. QED BY <1>1, <1>4, <1>6, <1>7, <1>8, <1>9, <1>10 DEF SideInv

-----------------------------------------------------------------------------
(* The theorems.                                                            *)

\* Every step keeps the invariant.
LEMMA NextKeeps ==
    ASSUME SideInv, [Next]_vars
    PROVE  SideInv'
<1>1. CASE UNCHANGED vars
  <2>1. /\ file' = file /\ wal' = wal /\ folded' = folded /\ history' = history
        /\ act' = act /\ told' = told /\ verdict' = verdict /\ spoilt' = spoilt
    BY <1>1 DEF vars, files
  <2>2. spoilt' \in BOOLEAN BY <2>1, Zenon DEF SideInv
  <2>3. MarksOf(act') = MarksOf(act) BY <2>1
  <2>4. QED BY <2>1, <2>2, <2>3 DEF SideInv
<1>2. ASSUME NEW p \in Processes,
             \/ \E reads \in BOOLEAN : Begin(p, reads)
             \/ Check(p) \/ Refused(p) \/ Open(p) \/ Read(p) \/ EndRead(p)
             \/ \E pages \in (SUBSET Pages) \ {{}} : Commit(p, pages)
             \/ Checkpoint(p) \/ Close(p) \/ Closing(p) \/ Stop(p)
      PROVE  SideInv'
  <2>1. ASSUME NEW reads \in BOOLEAN, Begin(p, reads) PROVE SideInv' BY <2>1, BeginKeeps
  <2>2. CASE Check(p) BY <2>2, CheckKeeps
  <2>3. CASE Refused(p) BY <2>3, RefusedKeepsInv
  <2>4. CASE Open(p) BY <2>4, OpenKeeps
  <2>5. CASE Read(p) BY <2>5, ReadKeeps
  <2>6. CASE EndRead(p) BY <2>6, EndReadKeeps
  <2>7. ASSUME NEW pages \in (SUBSET Pages) \ {{}}, Commit(p, pages) PROVE SideInv'
    BY <2>7, CommitKeeps
  <2>8. CASE Checkpoint(p) BY <2>8, CheckpointKeeps
  <2>9. CASE Close(p) BY <2>9, CloseKeeps
  <2>10. CASE Passive(p) BY <2>10, PassiveKeeps
  <2>11. CASE Truncate(p) BY <2>11, TruncateKeeps
  <2>12. CASE TruncateBusy(p) BY <2>12, TruncateBusyKeeps
  <2>13. CASE Pause(p) BY <2>13, PauseKeeps
  <2>14. CASE Last(p) BY <2>14, LastKeeps
  <2>15. CASE Stop(p) BY <2>15, StopKeeps
  <2>16. CASE Closing(p) BY <2>10, <2>11, <2>12, <2>13, <2>14, <2>16, Zenon DEF Closing
  <2>17. CASE \E reads \in BOOLEAN : Begin(p, reads) BY <2>1, <2>17, Zenon
  <2>18. CASE \E pages \in (SUBSET Pages) \ {{}} : Commit(p, pages) BY <2>7, <2>18, Zenon
  <2>19. QED
    BY <1>2, <2>2, <2>3, <2>4, <2>5, <2>6, <2>8, <2>9, <2>15, <2>16, <2>17, <2>18, Zenon
<1>3. CASE Damage BY <1>3, DamageKeeps
<1>4. ASSUME NEW n \in 0 .. Len(history), Restore(n) PROVE SideInv' BY <1>4, RestoreKeeps
<1>5. QED BY <1>1, <1>2, <1>3, <1>4 DEF Next

\* The invariant holds of every behaviour, for every set of processes, set of pages and bound:
\* the -wal is the end of what was committed; a page of the file is as the -wal's start or as a
\* commit no open read is older than left it; a read sees the state its mark stands for.
THEOREM SideInductive == Spec => []SideInv
<1>1. Init => SideInv BY InitHolds
<1>2. SideInv /\ [Next]_vars => SideInv' BY NextKeeps
<1>3. QED BY <1>1, <1>2, PTL DEF Spec

\* The type invariant follows.
LEMMA InvIsTyped ==
    ASSUME SideInv
    PROVE  TypeOK
<1>1. FilesTyped(file, wal, folded, history) BY DEF SideInv
<1>2. /\ Len(wal) \in Nat /\ Len(history) \in Nat /\ folded \in 0 .. Len(wal)
      /\ \A i \in 1 .. Len(wal) : wal[i] \in Frames /\ wal[i].version \in 1 .. Len(history)
  BY <1>1, FilesFacts
<1>3. Len(history) <= MaxCommits BY <1>1 DEF FilesTyped
<1>4. file \in [Pages -> 0..MaxCommits \cup {Damaged}]
  <2>1. PageValue(Len(history)) \subseteq 0..MaxCommits \cup {Damaged}
    BY <1>2, <1>3, SideFilesAssumption DEF PageValue
  <2>2. file \in [Pages -> PageValue(Len(history))] BY <1>1 DEF FilesTyped
  <2>3. QED BY <2>1, <2>2
<1>5. wal \in Seq([pages : SUBSET Pages, version : 1..MaxCommits, bad : SUBSET Pages])
  <2> DEFINE S == [pages : SUBSET Pages, version : 1..MaxCommits, bad : SUBSET Pages]
  <2>1. ASSUME NEW i \in 1 .. Len(wal) PROVE wal[i] \in S
    <3>1. wal[i] \in Frames /\ wal[i].version \in 1 .. Len(history) BY <1>2
    <3>2. wal[i].version \in 1 .. MaxCommits BY <3>1, <1>2, <1>3, SideFilesAssumption
    <3>3. QED BY <3>1, <3>2 DEF Frames
  <2> HIDE DEF S
  <2>2. wal \in Seq(Frames) BY <1>1 DEF FilesTyped
  <2>3. wal \in Seq(S) BY <2>1, <2>2
  <2>4. QED BY <2>3 DEF S
<1>6. \A p \in Processes :
         /\ act[p].at \in Places
         /\ act[p].mark # NoRead => act[p].at = "using" /\ act[p].mark \in 0 .. Len(wal)
  BY DEF SideInv, Acts, Of
<1>7. QED BY <1>2, <1>4, <1>5, <1>6 DEF TypeOK

\* Short of damage, what is committed is read by the next command, however far a fold got when
\* a command was stopped, and an open read keeps its state; after damage, once a good copy is
\* put back as the refusal says.
THEOREM NothingIsLostHolds == Spec => []NothingIsLost
<1>1. ASSUME SideInv PROVE NothingIsLost
  <2>1. TypeOK BY <1>1, InvIsTyped
  <2>2. ASSUME ~spoilt
        PROVE  /\ View(file, wal, ReadableLen(wal)) = State(Len(history))
               /\ \A p \in Processes :
                     act[p].mark # NoRead => View(file, wal, act[p].mark) = State(act[p].state)
    <3>1. FilesTyped(file, wal, folded, history) BY <1>1 DEF SideInv
    <3>2. Clean(file, wal, folded, history, MarksOf(act)) BY <1>1, <2>2 DEF SideInv
    <3>3. /\ Len(wal) \in Nat /\ Len(history) = Base(wal, history) + Len(wal)
          /\ ReadableLen(wal) = Len(wal)
      BY <3>1, <3>2, CleanFacts
    <3>4. \A n : State(n) = StateOf(history, n) BY DEF State, StateOf, Written
    <3>5. View(file, wal, Len(wal)) = StateOf(history, Base(wal, history) + Len(wal))
      <4>1. Len(wal) \in MarksOf(act) \cup {Len(wal)} /\ Len(wal) \in 0 .. Len(wal) BY <3>3
      <4>2. QED BY <3>1, <3>2, <4>1, CleanIsRead
    <3>6. ASSUME NEW p \in Processes, act[p].mark # NoRead
          PROVE  View(file, wal, act[p].mark) = State(act[p].state)
      <4>1. act[p].mark \in 0 .. Len(wal) /\ act[p].state = Base(wal, history) + act[p].mark
        BY <1>1, <2>2, <3>6 DEF SideInv, Of
      <4>2. act[p].mark \in MarksOf(act) \cup {Len(wal)} BY <3>6 DEF MarksOf
      <4>3. View(file, wal, act[p].mark) = StateOf(history, Base(wal, history) + act[p].mark)
        BY <3>1, <3>2, <4>1, <4>2, CleanIsRead
      <4>4. QED BY <3>4, <4>1, <4>3
    <3>7. QED BY <3>3, <3>4, <3>5, <3>6
  <2>3. QED BY <2>1, <2>2 DEF NothingIsLost
<1>2. QED BY <1>1, SideInductive, PTL

\* A step of another process leaves p's record alone.
LEMMA OnlyItsOwn ==
    ASSUME SideInv, NEW p \in Processes, act[p] # act'[p], [Next]_vars
    PROVE  \/ \E reads \in BOOLEAN : Begin(p, reads)
           \/ Check(p) \/ Refused(p) \/ Open(p) \/ Read(p) \/ EndRead(p)
           \/ Close(p) \/ Closing(p) \/ Stop(p)
<1>0. act \in [Processes -> Acts] BY DEF SideInv
<1>1. ~ UNCHANGED vars BY DEF vars
<1>2. ~ Damage BY DEF Damage
<1>3. \A n : ~ Restore(n) BY DEF Restore
<1>4. PICK q \in Processes :
         \/ \E reads \in BOOLEAN : Begin(q, reads)
         \/ Check(q) \/ Refused(q) \/ Open(q) \/ Read(q) \/ EndRead(q)
         \/ \E pages \in (SUBSET Pages) \ {{}} : Commit(q, pages)
         \/ Checkpoint(q) \/ Close(q) \/ Closing(q) \/ Stop(q)
  BY <1>1, <1>2, <1>3 DEF Next
<1>5. ~ Checkpoint(q) BY DEF Checkpoint
<1>6. \A pages : ~ Commit(q, pages) BY DEF Commit
<1>7. q = p
  <2> SUFFICES ASSUME q # p PROVE act'[p] = act[p] OBVIOUS
  <2>1. ASSUME NEW r, act' = [act EXCEPT ![q] = r] PROVE act'[p] = act[p]
    BY <1>0, <2>1
  <2>2. ASSUME NEW reads, Begin(q, reads) PROVE act'[p] = act[p] BY <1>0, <2>2 DEF Begin
  <2>3. CASE Check(q) BY <1>0, <2>3 DEF Check, Goes
  <2>4. CASE Refused(q) BY <1>0, <2>4 DEF Refused, Ends
  <2>5. CASE Open(q) BY <1>0, <2>5 DEF Open
  <2>6. CASE Read(q) BY <1>0, <2>6 DEF Read
  <2>7. CASE EndRead(q) BY <1>0, <2>7 DEF EndRead
  <2>8. CASE Close(q) BY <1>0, <2>8 DEF Close
  <2>9. CASE Passive(q) BY <1>0, <2>9 DEF Passive
  <2>10. CASE Truncate(q) BY <1>0, <2>10 DEF Truncate, GoesLast
  <2>11. CASE TruncateBusy(q) BY <1>0, <2>11 DEF TruncateBusy, GoesLast, Goes
  <2>12. CASE Pause(q) BY <1>0, <2>12 DEF Pause
  <2>13. CASE Last(q) BY <1>0, <2>13 DEF Last, Ends
  <2>14. CASE Stop(q) BY <1>0, <2>14 DEF Stop, Ends
  <2>15. QED
    BY <1>4, <1>5, <1>6, <2>2, <2>3, <2>4, <2>5, <2>6, <2>7, <2>8, <2>9, <2>10, <2>11,
       <2>12, <2>13, <2>14 DEF Closing
<1>8. QED BY <1>4, <1>5, <1>6, <1>7

\* Whoever is refused for a damaged file, or only reads, leaves the file and the -wal it found
\* as they were, however it ends and whoever closed meanwhile.
THEOREM LeftAsFoundHolds == Spec => LeftAsFound
<1>1. ASSUME SideInv, [Next]_vars, NEW p \in Processes, act[p].at \in {"check", "refused"},
             act[p] # act'[p]
      PROVE  UNCHANGED <<file, wal>>
  <2>1. \/ \E reads \in BOOLEAN : Begin(p, reads)
        \/ Check(p) \/ Refused(p) \/ Open(p) \/ Read(p) \/ EndRead(p)
        \/ Close(p) \/ Closing(p) \/ Stop(p)
    BY <1>1, OnlyItsOwn
  <2>2. act[p].mark = NoRead BY <1>1, NoMark
  <2>3. Check(p) \/ Refused(p) \/ Stop(p)
    BY <1>1, <2>1, <2>2
    DEF Begin, Open, Read, EndRead, Close, Closing, Passive, Truncate, TruncateBusy, Pause, Last
  <2>4. CASE Check(p) BY <2>4 DEF Check, files
  <2>5. CASE Stop(p) BY <1>1, <2>5 DEF Stop, MayBeFolding
  <2>6. CASE Refused(p)
    <3>1. act[p].at = "refused" /\ LastClose(p, act[p].left) BY <2>6 DEF Refused, RefusedKeeps
    <3>2. act[p].left \/ wal = <<>> BY <1>1, <3>1 DEF SideInv, Of
    <3>3. CASE LastOpen(p) /\ ~act[p].left
      <4>1. wal = <<>> BY <3>2, <3>3
      <4>2. file' = Folded(file, wal, ReadableLen(wal), Max(Pages)) /\ wal' = <<>>
        BY <3>1, <3>3, FoldIsFolded DEF LastClose
      <4>3. file \in [Pages -> PageValue(Len(history))] BY <1>1 DEF SideInv, FilesTyped
      <4>4. file' = file BY <4>1, <4>2, <4>3, FoldOfNothing
      <4>5. QED BY <4>1, <4>2, <4>4
    <3>4. CASE ~(LastOpen(p) /\ ~act[p].left) BY <3>1, <3>4 DEF LastClose, files
    <3>5. QED BY <3>3, <3>4
  <2>7. QED BY <2>3, <2>4, <2>5, <2>6
<1>2. ASSUME SideInv, [Next]_vars, NEW p \in Processes, act[p].found, act[p] # act'[p]
      PROVE  UNCHANGED <<file, wal>>
  <2>1. \/ \E reads \in BOOLEAN : Begin(p, reads)
        \/ Check(p) \/ Refused(p) \/ Open(p) \/ Read(p) \/ EndRead(p)
        \/ Close(p) \/ Closing(p) \/ Stop(p)
    BY <1>2, OnlyItsOwn
  <2>2. act[p].at \in {"using", "last"} /\ act[p].reads /\ act[p].keepWal
    BY <1>2 DEF SideInv, Of
  <2>3. Read(p) \/ EndRead(p) \/ Close(p) \/ Last(p) \/ Stop(p)
    BY <2>1, <2>2
    DEF Begin, Check, Refused, Open, Closing, Passive, Truncate, TruncateBusy, Pause
  <2>4. CASE Read(p) \/ EndRead(p) \/ Close(p)
    BY <2>4 DEF Read, EndRead, Close, files
  <2>5. CASE Last(p)
    <3>1. LastClose(p, act[p].keepWal) BY <2>5 DEF Last
    <3>2. QED BY <2>2, <3>1 DEF LastClose, files
  <2>6. CASE Stop(p) BY <2>2, <2>6 DEF Stop, MayBeFolding
  <2>7. QED BY <2>3, <2>4, <2>5, <2>6
<1>3. SideInv /\ [Next]_vars =>
         [\A p \in Processes : act[p].at \in {"check", "refused"} /\ act[p] # act'[p] =>
             UNCHANGED <<file, wal>>]_vars
  BY <1>1
<1>4. SideInv /\ [Next]_vars =>
         [\A p \in Processes : act[p].found /\ act[p] # act'[p] =>
             UNCHANGED <<file, wal>>]_vars
  BY <1>2
<1>5. Spec => RefusedChangesNothing BY <1>3, SideInductive, PTL DEF Spec, RefusedChangesNothing
<1>6. Spec => ReadsLeaveTheWal BY <1>4, SideInductive, PTL DEF Spec, ReadsLeaveTheWal
<1>7. QED BY <1>5, <1>6, PTL DEF LeftAsFound

-----------------------------------------------------------------------------
(* What a refusal says.                                                     *)

\* A page of the file is damaged, or as it was when the -wal started, or as a commit in the -wal
\* left it.
OfCopies(f, w, h, p) ==
    \/ f[p] = Damaged
    \/ f[p] = Written(h, Base(w, h), p)
    \/ \E i \in 1..Len(w) : p \in w[i].pages /\ f[p] = Base(w, h) + i

\* What of the files outlives damage, until the -wal is gone: there is only a page's own past
\* in them.
CopiesKept(f, w, h) ==
    /\ WalIsCopies(w, h)
    /\ w # <<>> => \A p \in Pages : OfCopies(f, w, h, p)

\* integrity_check never leaves a damaged page open.
AskedOfWhole(v) == \A pages \in DOMAIN v : Damaged \notin Range(pages)

PlacedInv == CopiesKept(file, wal, history) /\ AskedOfWhole(verdict)

\* Short of damage it is part of what is known.
LEMMA CleanIsCopies ==
    ASSUME NEW f, NEW w, NEW k, NEW h, NEW marks, Clean(f, w, k, h, marks)
    PROVE  CopiesKept(f, w, h)
<1>1. WalIsCopies(w, h) BY DEF Clean, WalIsTail
<1>2. ASSUME NEW p \in Pages PROVE OfCopies(f, w, h, p)
  <2>1. InFile(f, w, h, marks, p) BY DEF Clean
  <2>2. QED BY <2>1 DEF InFile, OfCopies
<1>3. QED BY <1>1, <1>2 DEF CopiesKept

\* With the -wal gone there is nothing to say.
LEMMA NoCopies ==
    ASSUME NEW f, NEW h, Len(h) \in Nat
    PROVE  CopiesKept(f, <<>>, h)
<1>1. Len(<<>>) = 0 /\ Base(<<>>, h) >= 0 BY DEF Base
<1>2. \A i : ~(i \in 1 .. 0) OBVIOUS
<1>3. WalIsCopies(<<>>, h) BY <1>1, <1>2 DEF WalIsCopies
<1>4. QED BY <1>3 DEF CopiesKept

\* A fold copies what the -wal holds, damaged frames and later ones aside.
LEMMA FoldOfCopies ==
    ASSUME NEW f, NEW w, NEW k, NEW h, FilesTyped(f, w, k, h), CopiesKept(f, w, h),
           NEW n, NEW last
    PROVE  CopiesKept(Folded(f, w, n, last), w, h)
<1>1. Len(w) \in Nat /\ ReadableLen(w) \in 0 .. Len(w) BY FilesFacts
<1>2. WalIsCopies(w, h) BY DEF CopiesKept
<1>3. ASSUME w # <<>>, NEW p \in Pages PROVE OfCopies(Folded(f, w, n, last), w, h, p)
  <2> DEFINE i == Latest(w, ReadableLen(w), p)
  <2>1. i \in 0 .. ReadableLen(w) /\ (i # 0 => p \in w[i].pages) BY <1>1, LatestFacts
  <2>2. Folded(f, w, n, last)[p] = IF p <= last /\ i \in 1 .. n THEN w[i].version ELSE f[p]
    BY DEF Folded
  <2> HIDE DEF i
  <2>3. CASE p <= last /\ i \in 1 .. n
    <3>1. i \in 1 .. Len(w) /\ p \in w[i].pages BY <1>1, <2>1, <2>3
    <3>2. w[i].version = Base(w, h) + i BY <1>2, <3>1 DEF WalIsCopies
    <3>3. QED BY <2>2, <2>3, <3>1, <3>2 DEF OfCopies
  <2>4. CASE ~(p <= last /\ i \in 1 .. n)
    <3>1. OfCopies(f, w, h, p) BY <1>3 DEF CopiesKept
    <3>2. QED BY <2>2, <2>4, <3>1 DEF OfCopies
  <2>5. QED BY <2>3, <2>4
<1>4. QED BY <1>2, <1>3 DEF CopiesKept

\* Damage changes nothing else of a page or of a commit in the -wal.
LEMMA DamageOfCopies ==
    ASSUME NEW f, NEW w, NEW k, NEW h, FilesTyped(f, w, k, h), CopiesKept(f, w, h),
           NEW p \in Pages
    PROVE  /\ CopiesKept([f EXCEPT ![p] = Damaged], w, h)
           /\ \A i \in 1 .. Len(w) : CopiesKept(f, [w EXCEPT ![i].bad = {p}], h)
<1>0. f \in [Pages -> PageValue(Len(h))] /\ w \in Seq(Frames) /\ Len(w) \in Nat
  BY DEF FilesTyped
<1>1. WalIsCopies(w, h) BY DEF CopiesKept
<1>2. CopiesKept([f EXCEPT ![p] = Damaged], w, h)
  <2>1. ASSUME w # <<>>, NEW q \in Pages PROVE OfCopies([f EXCEPT ![p] = Damaged], w, h, q)
    <3>1. OfCopies(f, w, h, q) BY <2>1 DEF CopiesKept
    <3>2. [f EXCEPT ![p] = Damaged][q] = IF q = p THEN Damaged ELSE f[q] BY <1>0
    <3>3. QED BY <3>1, <3>2 DEF OfCopies
  <2>2. QED BY <1>1, <2>1 DEF CopiesKept
<1>3. ASSUME NEW i \in 1 .. Len(w) PROVE CopiesKept(f, [w EXCEPT ![i].bad = {p}], h)
  <2> DEFINE x == [w EXCEPT ![i].bad = {p}]
  <2>1. w[i] \in Frames BY <1>0
  <2>2. LET r == [w[i] EXCEPT !.bad = {p}] IN r.version = w[i].version /\ r.pages = w[i].pages
    BY <2>1 DEF Frames
  <2>3. x = [w EXCEPT ![i] = [w[i] EXCEPT !.bad = {p}]] OBVIOUS
  <2>4. /\ Len(x) = Len(w)
        /\ \A j \in 1 .. Len(w) : x[j].version = w[j].version /\ x[j].pages = w[j].pages
    BY <1>0, <2>2, <2>3
  <2>5. w # <<>> BY <1>0
  <2> HIDE DEF x
  <2>6. Base(x, h) = Base(w, h) BY <2>4 DEF Base
  <2>7. WalIsCopies(x, h) BY <1>1, <2>4, <2>6 DEF WalIsCopies
  <2>8. ASSUME NEW q \in Pages PROVE OfCopies(f, x, h, q)
    <3>1. OfCopies(f, w, h, q) BY <2>5 DEF CopiesKept
    <3>2. QED BY <2>4, <2>6, <3>1 DEF OfCopies
  <2>9. CopiesKept(f, x, h) BY <2>7, <2>8 DEF CopiesKept
  <2>10. QED BY <2>9 DEF x
<1>4. QED BY <1>2, <1>3

\* What a step does to the files of a damaged store: nothing commits to it.
LEMMA SpoiltStep ==
    ASSUME [Next]_vars, spoilt', ~Damage
    PROVE  /\ history' = history
           /\ \/ wal' = <<>>
              \/ wal' = wal /\ file' = file
              \/ wal' = wal /\ \E n, last : file' = Folded(file, wal, n, last)
<1> DEFINE Kept == wal' = wal /\ file' = file
           Folds == wal' = wal /\ \E n, last : file' = Folded(file, wal, n, last)
           Goal == history' = history /\ (wal' = <<>> \/ Kept \/ Folds)
<1>0. ASSUME NEW n, NEW last, file' = FoldedTo(n, last), wal' = wal PROVE Folds
  BY <1>0, FoldIsFolded
<1>1. CASE UNCHANGED vars BY <1>1 DEF vars, files
<1>2. ASSUME NEW n, Restore(n) PROVE FALSE BY <1>2 DEF Restore
<1>3. ASSUME NEW p \in Processes,
             \/ \E reads \in BOOLEAN : Begin(p, reads)
             \/ Check(p) \/ Refused(p) \/ Open(p) \/ Read(p) \/ EndRead(p)
             \/ \E pages \in (SUBSET Pages) \ {{}} : Commit(p, pages)
             \/ Checkpoint(p) \/ Close(p) \/ Closing(p) \/ Stop(p)
      PROVE  Goal
  <2> HIDE DEF Folds
  <2>0. ASSUME NEW keeps, LastClose(p, keeps) PROVE wal' = <<>> \/ Kept
    BY <2>0 DEF LastClose, files
  <2>1. ASSUME Fold(p), wal' = wal PROVE Folds BY <1>0, <2>1 DEF Fold
  <2>2. ASSUME NEW reads, Begin(p, reads) PROVE Goal BY <2>2 DEF Begin
  <2>3. CASE Check(p) BY <2>3 DEF Check, files
  <2>4. CASE Refused(p) BY <2>0, <2>4 DEF Refused
  <2>5. CASE Open(p) BY <2>5 DEF Open, files
  <2>6. CASE Read(p) BY <2>6 DEF Read, files
  <2>7. CASE EndRead(p) BY <2>7 DEF EndRead, files
  <2>8. ASSUME NEW pages, Commit(p, pages) PROVE FALSE BY <2>8 DEF Commit
  <2>9. CASE Checkpoint(p) BY <2>1, <2>9 DEF Checkpoint
  <2>10. CASE Close(p) BY <2>10 DEF Close, files
  <2>11. CASE Passive(p) BY <2>1, <2>11 DEF Passive
  <2>12. CASE Truncate(p) BY <2>12 DEF Truncate
  <2>13. CASE TruncateBusy(p) BY <2>1, <2>13 DEF TruncateBusy, files
  <2>14. CASE Pause(p) BY <2>14 DEF Pause, files
  <2>15. CASE Last(p) BY <2>0, <2>15 DEF Last
  <2>16. CASE Stop(p)
    <3>1. history' = history /\ wal' = wal BY <2>16 DEF Stop
    <3>2. file' = file \/ \E last \in Pages : file' = FoldedTo(FoldsUpTo(p), last)
      BY <2>16 DEF Stop
    <3>3. QED BY <1>0, <3>1, <3>2
  <2> HIDE DEF Goal
  <2>17. QED
    BY <1>3, <2>2, <2>3, <2>4, <2>5, <2>6, <2>7, <2>8, <2>9, <2>10, <2>11, <2>12, <2>13,
       <2>14, <2>15, <2>16 DEF Closing
<1>4. QED BY <1>1, <1>2, <1>3 DEF Next

\* Only a check asks, and only a copy put back leaves nothing asked.
LEMMA VerdictStep ==
    ASSUME [Next]_vars, verdict' # verdict
    PROVE  verdict' = <<>> \/ \E p \in Processes : Check(p)
<1>1. ~UNCHANGED vars BY DEF vars
<1>2. ~Damage BY DEF Damage
<1>3. ASSUME NEW n, Restore(n) PROVE verdict' = <<>> BY <1>3 DEF Restore
<1>4. ASSUME NEW p \in Processes,
             \/ \E reads \in BOOLEAN : Begin(p, reads)
             \/ Check(p) \/ Refused(p) \/ Open(p) \/ Read(p) \/ EndRead(p)
             \/ \E pages \in (SUBSET Pages) \ {{}} : Commit(p, pages)
             \/ Checkpoint(p) \/ Close(p) \/ Closing(p) \/ Stop(p)
      PROVE  Check(p)
  BY <1>4 DEF Begin, Refused, Open, Read, EndRead, Commit, Checkpoint, Close, Closing, Passive,
     Truncate, TruncateBusy, Pause, Last, Stop
<1>5. QED BY <1>1, <1>2, <1>3, <1>4 DEF Next

\* Every step keeps what outlives damage.
LEMMA PlacedKeeps ==
    ASSUME SideInv, PlacedInv, [Next]_vars
    PROVE  PlacedInv'
<1>1. SideInv' BY NextKeeps
<1>2. FilesTyped(file, wal, folded, history) /\ CopiesKept(file, wal, history)
  BY DEF SideInv, PlacedInv
<1>3. CopiesKept(file', wal', history')
  <2>1. CASE ~spoilt'
    <3>1. Clean(file', wal', folded', history', MarksOf(act')) BY <1>1, <2>1 DEF SideInv
    <3>2. QED BY <3>1, CleanIsCopies
  <2>2. CASE Damage
    <3>1. history' = history BY <2>2 DEF Damage
    <3>2. ASSUME NEW p \in Pages, file' = [file EXCEPT ![p] = Damaged], wal' = wal
          PROVE  CopiesKept(file', wal', history')
      BY <1>2, <3>1, <3>2, DamageOfCopies
    <3>3. ASSUME NEW i \in DOMAIN wal, NEW p \in wal[i].pages,
                 wal' = [wal EXCEPT ![i].bad = {p}], file' = file
          PROVE  CopiesKept(file', wal', history')
      <4>1. wal \in Seq(Frames) BY <1>2 DEF FilesTyped
      <4>2. i \in 1 .. Len(wal) /\ wal[i] \in Frames BY <4>1
      <4>3. p \in Pages BY <4>2 DEF Frames
      <4>4. QED BY <1>2, <3>1, <3>3, <4>2, <4>3, DamageOfCopies
    <3>4. QED BY <2>2, <3>2, <3>3 DEF Damage
  <2>3. CASE spoilt' /\ ~Damage
    <3>1. /\ history' = history
          /\ \/ wal' = <<>>
             \/ wal' = wal /\ file' = file
             \/ wal' = wal /\ \E n, last : file' = Folded(file, wal, n, last)
      BY <2>3, SpoiltStep
    <3>2. CASE wal' = <<>>
      <4>1. Len(history) \in Nat BY <1>2, FilesFacts
      <4>2. QED BY <3>1, <3>2, <4>1, NoCopies
    <3>3. CASE wal' = wal /\ file' = file BY <1>2, <3>1, <3>3
    <3>4. ASSUME NEW n, NEW last, wal' = wal, file' = Folded(file, wal, n, last)
          PROVE  CopiesKept(file', wal', history')
      BY <1>2, <3>1, <3>4, FoldOfCopies
    <3>5. QED BY <3>1, <3>2, <3>3, <3>4
  <2>4. QED BY <2>1, <2>2, <2>3
<1>4. AskedOfWhole(verdict')
  <2>1. AskedOfWhole(verdict) BY DEF PlacedInv
  <2>2. CASE verdict' = verdict BY <2>1, <2>2
  <2>3. CASE verdict' = <<>> BY <2>3 DEF AskedOfWhole
  <2>4. ASSUME NEW p \in Processes, Check(p) PROVE AskedOfWhole(verdict')
    <3>1. \E says : Asked(says) BY <2>4 DEF Check
    <3>2. PICK says : Asked(says) BY <3>1
    <3>3. DOMAIN verdict' = DOMAIN verdict \cup {q \in DOMAIN says : Mixed(q)}
      BY <3>2 DEF Asked
    <3>4. \A q : Mixed(q) => Damaged \notin Range(q) BY DEF Mixed
    <3>5. QED BY <2>1, <3>3, <3>4 DEF AskedOfWhole
  <2>5. QED BY <2>2, <2>3, <2>4, VerdictStep
<1>5. QED BY <1>3, <1>4 DEF PlacedInv

\* Short of a damaged page in the file, the file and all of the -wal make the last state.
LEMMA WholeView ==
    ASSUME NEW f, NEW w, NEW k, NEW h, FilesTyped(f, w, k, h), CopiesKept(f, w, h), w # <<>>,
           Damaged \notin Range(f)
    PROVE  View(f, w, Len(w)) = StateOf(h, Len(h))
<1>1. /\ Len(w) \in Nat /\ Len(h) \in Nat /\ WalIsCopies(w, h)
      /\ f \in [Pages -> PageValue(Len(h))]
  BY FilesFacts DEF CopiesKept, FilesTyped
<1>2. Base(w, h) \in Nat /\ Len(h) = Base(w, h) + Len(w) BY <1>1 DEF WalIsCopies, Base
<1>3. ASSUME NEW p \in Pages PROVE View(f, w, Len(w))[p] = StateOf(h, Len(h))[p]
  <2> DEFINE i == Latest(w, Len(w), p)
  <2>1. i \in 0 .. Len(w) /\ \A j \in 1 .. Len(w) : p \in w[j].pages => j <= i
    BY <1>1, LatestFacts
  <2>2. StateOf(h, Len(h))[p] = IF i = 0 THEN Written(h, Base(w, h), p)
                                ELSE Base(w, h) + i
    BY <1>1, <1>2, WrittenInWal DEF StateOf
  <2>3. View(f, w, Len(w))[p] = IF i = 0 THEN f[p] ELSE w[i].version BY DEF View
  <2>4. i # 0 => w[i].version = Base(w, h) + i
    <3>1. i # 0 => i \in 1 .. Len(w) BY <2>1, <1>1
    <3> HIDE DEF i
    <3>2. QED BY <3>1, <1>1 DEF WalIsCopies
  <2>5. i = 0 => f[p] = Written(h, Base(w, h), p)
    <3>1. OfCopies(f, w, h, p) BY DEF CopiesKept
    <3>2. f[p] # Damaged BY <1>1 DEF Range
    <3>3. ASSUME i = 0, NEW j \in 1 .. Len(w), p \in w[j].pages PROVE FALSE
      BY <2>1, <3>3
    <3> HIDE DEF i
    <3>4. QED BY <3>1, <3>2, <3>3 DEF OfCopies
  <2> HIDE DEF i
  <2>6. QED BY <2>2, <2>3, <2>4, <2>5
<1>4. QED BY <1>3 DEF View, StateOf

\* A file that no fold seems to have been cut short on holds nothing of the -wal, or the last
\* of every page in it: it is a committed state either way.
LEMMA WholeFile ==
    ASSUME NEW f, NEW w, NEW k, NEW h, FilesTyped(f, w, k, h), CopiesKept(f, w, h), w # <<>>,
           Damaged \notin Range(f),
           \A i \in DOMAIN w : \A p \in w[i].bad : f[p] # w[i].version,
           \/ \A p \in Pages : \A i \in DOMAIN w :
                 ~(p \in w[i].pages \ w[i].bad /\ f[p] = w[i].version)
           \/ \A p \in Pages :
                 Latest(w, Len(w), p) = 0 \/ f[p] = w[Latest(w, Len(w), p)].version
    PROVE  \E n \in 0 .. Len(h) : f = StateOf(h, n)
<1>1. /\ Len(w) \in Nat /\ Len(h) \in Nat /\ WalIsCopies(w, h) /\ DOMAIN w = 1 .. Len(w)
      /\ f \in [Pages -> PageValue(Len(h))]
  BY FilesFacts DEF CopiesKept, FilesTyped
<1>2. Base(w, h) \in 0 .. Len(h) BY <1>1 DEF WalIsCopies, Base
<1>3. ASSUME NEW p \in Pages
      PROVE  /\ f[p] # Damaged
             /\ \/ f[p] = Written(h, Base(w, h), p)
                \/ \E i \in 1 .. Len(w) : p \in w[i].pages /\ f[p] = w[i].version
  <2>1. OfCopies(f, w, h, p) BY DEF CopiesKept
  <2>2. f[p] # Damaged BY <1>1 DEF Range
  <2>3. QED BY <1>1, <2>1, <2>2 DEF OfCopies, WalIsCopies
<1>4. CASE \A p \in Pages : \A i \in DOMAIN w :
              ~(p \in w[i].pages \ w[i].bad /\ f[p] = w[i].version)
  <2>1. ASSUME NEW p \in Pages PROVE f[p] = Written(h, Base(w, h), p)
    <3>1. ASSUME NEW i \in 1 .. Len(w), p \in w[i].pages, f[p] = w[i].version PROVE FALSE
      BY <1>1, <1>4, <3>1
    <3>2. QED BY <1>3, <3>1
  <2>2. f = StateOf(h, Base(w, h)) BY <1>1, <2>1 DEF StateOf
  <2>3. QED BY <1>2, <2>2
<1>5. CASE \A p \in Pages :
              Latest(w, Len(w), p) = 0 \/ f[p] = w[Latest(w, Len(w), p)].version
  <2>1. f = View(f, w, Len(w))
    <3>1. \A p \in Pages : f[p] = View(f, w, Len(w))[p] BY <1>5 DEF View
    <3>2. QED BY <1>1, <3>1 DEF View
  <2>2. f = StateOf(h, Len(h)) BY <2>1, WholeView
  <2>3. QED BY <1>1, <2>2
<1>6. QED BY <1>4, <1>5

\* A damaged page never passes.
LEMMA DamagedFails ==
    ASSUME PlacedInv, NEW pages, TRUE \in Checks(pages)
    PROVE  Damaged \notin Range(pages)
BY DEF PlacedInv, AskedOfWhole, Checks, Mixed

\* A check that refuses says where the damage is.
LEMMA RefusalIsRight ==
    ASSUME SideInv, PlacedInv, NEW p \in Processes, Check(p), told' # told
    PROVE  /\ SaysWal(told') => WalIsDamaged /\ ~FileIsDamaged
           /\ SaysFile(told') => FileIsDamaged \/ FoldedCopyIsDamaged
<1> DEFINE read == View(file, wal, ReadableLen(wal))
           whole == View(file, wal, Len(wal))
           left == act[p].left
<1>1. PICK says \in [{read, file} -> BOOLEAN] :
         /\ \A pages \in {read, file} : says[pages] \in Checks(pages)
         /\ IF says[read]
            THEN Goes(p, "open") /\ Asked([pages \in {read} |-> TRUE]) /\ UNCHANGED told
            ELSE /\ told' = Report(act[p].left, says[file])
                 /\ Goes(p, "refused") /\ Asked(says)
  BY DEF Check
<1>2. /\ ~says[read] /\ told' = Report(left, says[file])
      /\ says[read] \in Checks(read) /\ says[file] \in Checks(file)
      /\ says[read] \in BOOLEAN /\ says[file] \in BOOLEAN
  BY <1>1
<1> HIDE DEF read, whole
<1>3. FilesTyped(file, wal, folded, history) /\ CopiesKept(file, wal, history)
  BY DEF SideInv, PlacedInv
<1>4. Len(wal) \in Nat /\ Len(history) \in Nat /\ DOMAIN wal = 1 .. Len(wal)
      /\ file \in [Pages -> PageValue(Len(history))]
  BY <1>3, FilesFacts DEF FilesTyped
<1>5. \A n \in 0 .. Len(history) : read # StateOf(history, n)
  BY <1>2, StatesPass
<1>6. ~says[file] => \A n \in 0 .. Len(history) : file # StateOf(history, n)
  BY <1>2, StatesPass
<1>7. \A n : State(n) = StateOf(history, n) BY DEF State, StateOf, Written
<1>8. wal = <<>> => read = file /\ whole = file
  <2>1. SUFFICES ASSUME wal = <<>> PROVE View(file, wal, 0) = file /\ ReadableLen(wal) = 0
                                         /\ Len(wal) = 0
    BY DEF read, whole
  <2>2. Len(wal) = 0 BY <2>1
  <2>3. ReadableLen(wal) = 0
    <3>1. ReadableLen(wal) \in 0 .. Len(wal) BY <1>4, ReadableFacts
    <3>2. QED BY <2>2, <3>1
  <2>4. \A q \in Pages : Latest(wal, 0, q) = 0
    <3>1. \A q \in Pages : Latest(wal, 0, q) \in 0 .. 0 BY LatestFacts
    <3>2. QED BY <3>1
  <2>5. View(file, wal, 0) = file BY <1>4, <2>4 DEF View
  <2>6. QED BY <2>2, <2>3, <2>5
<1>9. ASSUME SaysWal(told') PROVE WalIsDamaged /\ ~FileIsDamaged
  <2>1. says[file] BY <1>2, <1>9 DEF SaysWal, Report
  <2>2. wal # <<>> BY <1>2, <1>8, <2>1
  <2>3. Damaged \notin Range(file) BY <1>2, <2>1, DamagedFails
  <2>4. whole = StateOf(history, Len(history)) BY <1>3, <2>2, <2>3, WholeView DEF whole
  <2>5. ~FileIsDamaged
    <3>1. Len(history) \in 0 .. Len(history) BY <1>4
    <3>2. QED BY <1>7, <2>3, <2>4, <3>1 DEF FileIsDamaged, whole
  <2>6. WalIsDamaged
    <3>1. SUFFICES ASSUME ~WalIsDamaged PROVE FALSE OBVIOUS
    <3>2. ReadableLen(wal) = Len(wal) BY <1>4, <3>1, ReadableFacts DEF WalIsDamaged
    <3>3. read = StateOf(history, Len(history)) BY <2>4, <3>2 DEF read, whole
    <3>4. Len(history) \in 0 .. Len(history) BY <1>4
    <3>5. QED BY <1>5, <3>3, <3>4
  <2>7. QED BY <2>5, <2>6
<1>10. ASSUME SaysFile(told') PROVE FileIsDamaged \/ FoldedCopyIsDamaged
  <2>1. SUFFICES ASSUME ~FileIsDamaged, ~FoldedCopyIsDamaged PROVE FALSE OBVIOUS
  <2>2. /\ Damaged \notin Range(file)
        /\ \E n \in 0 .. Len(history) : whole = StateOf(history, n)
    BY <1>7, <2>1 DEF FileIsDamaged, whole
  <2>3. wal # <<>> BY <1>5, <1>8, <2>2
  <2>4. left
    <3>1. spoilt BY <1>2, CleanPasses DEF read
    <3>2. act[p].at = "check" BY DEF Check
    <3>3. QED BY <2>3, <3>1, <3>2 DEF SideInv, Of
  <2>5. ~says[file] /\ ~PartlyFolded
    BY <1>2, <1>10, <2>4 DEF SaysFile, SaysWal, CannotTell, Report
  <2>6. \/ \A q \in Pages : \A i \in DOMAIN wal :
              ~(q \in wal[i].pages \ wal[i].bad /\ file[q] = wal[i].version)
        \/ \A q \in Pages :
              Latest(wal, Len(wal), q) = 0 \/ file[q] = wal[Latest(wal, Len(wal), q)].version
    BY <2>5 DEF PartlyFolded
  <2>7. \A i \in DOMAIN wal : \A q \in wal[i].bad : file[q] # wal[i].version
    BY <2>1 DEF FoldedCopyIsDamaged
  <2>8. \E n \in 0 .. Len(history) : file = StateOf(history, n)
    BY <1>3, <2>2, <2>3, <2>6, <2>7, WholeFile
  <2>9. QED BY <1>6, <2>5, <2>8
<1>11. QED BY <1>9, <1>10

\* What outlives damage does so of every behaviour: as long as there is a -wal, a page of the
\* file is damaged, or as the -wal's start or as a commit in the -wal left it.
THEOREM PlacedInductive == Spec => []PlacedInv
<1>1. Init => PlacedInv
  <2>1. SUFFICES ASSUME Init PROVE PlacedInv OBVIOUS
  <2>2. wal = <<>> /\ history = <<>> /\ verdict = <<>> BY <2>1 DEF Init
  <2>3. Len(history) \in Nat BY <2>2
  <2>4. QED BY <2>2, <2>3, NoCopies DEF PlacedInv, AskedOfWhole
<1>2. SideInv /\ PlacedInv /\ [Next]_vars => PlacedInv' BY PlacedKeeps
<1>3. QED BY <1>1, <1>2, SideInductive, PTL DEF Spec

\* A refusal that says where the damage is says it right, wherever folds were cut short or held
\* back by a read, but for a fold cut short whose own copies in the -wal are then damaged.
THEOREM DamageIsPlacedHolds == Spec => DamageIsPlaced
<1> DEFINE Right ==
      /\ told' # told /\ SaysWal(told') => WalIsDamaged /\ ~FileIsDamaged
      /\ told' # told /\ SaysFile(told') => FileIsDamaged \/ FoldedCopyIsDamaged
<1>1. ASSUME SideInv, PlacedInv, Next PROVE Right
  <2>1. ~Damage \/ told' = told BY DEF Damage
  <2>2. ASSUME NEW n, Restore(n) PROVE Right
    <3>1. ~told'.refused BY <2>2 DEF Restore, NoReport
    <3>2. QED BY <3>1 DEF SaysWal, SaysFile
  <2>3. ASSUME NEW p \in Processes, Check(p) PROVE Right BY <1>1, <2>3, RefusalIsRight
  <2>4. ASSUME NEW p \in Processes,
               \/ \E reads \in BOOLEAN : Begin(p, reads)
               \/ Check(p) \/ Refused(p) \/ Open(p) \/ Read(p) \/ EndRead(p)
               \/ \E pages \in (SUBSET Pages) \ {{}} : Commit(p, pages)
               \/ Checkpoint(p) \/ Close(p) \/ Closing(p) \/ Stop(p)
        PROVE  told' = told \/ Check(p)
    BY <2>4 DEF Begin, Refused, Open, Read, EndRead, Commit, Checkpoint, Close, Closing,
       Passive, Truncate, TruncateBusy, Pause, Last, Stop
  <2>5. QED BY <1>1, <2>1, <2>2, <2>3, <2>4 DEF Next
<1>2. SideInv /\ PlacedInv /\ [Next]_vars => [Right]_vars BY <1>1
<1>3. QED BY <1>2, SideInductive, PlacedInductive, PTL DEF Spec, DamageIsPlaced

=============================================================================
