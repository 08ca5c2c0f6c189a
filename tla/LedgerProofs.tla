---------------------------- MODULE LedgerProofs ----------------------------
(***************************************************************************)
(* Proofs about the ledger and what follows from it (ledger/project.py,    *)
(* ledger/validate.py, life/engine.py, life/grounded.py), for any drafts,  *)
(* aircraft, dates, logs and rules and any number of entries.  However     *)
(* entries are corrected, retracted and brought back, there is one live    *)
(* entry of each kind the records allow one of, and undoing a retraction   *)
(* gives back the records as they were without it.  Entries, records and   *)
(* flight records stay typed, so what logs add up to is a number: the      *)
(* intervals of inspections, the limits of parts and the hours stated      *)
(* agree with the flight, and the answer of the board with the entries.    *)
(*                                                                         *)
(* Liveness, the place of an entry in the fold, the records and sums are   *)
(* defined by recursion.  What they are is first shown to exist, then only *)
(* their equations are used.  The first part is about one write: which     *)
(* entries change from live to dead and back is a chain of supersessions,  *)
(* all of it.  The second is about sums over logs, and what a log changes. *)
(***************************************************************************)
EXTENDS LedgerRules, FiniteSetTheorems, SequenceTheorems, TLAPS

\* A set of natural numbers that holds one has a least.
LEMMA Least ==
    ASSUME NEW T \in SUBSET Nat, T # {}
    PROVE  \E n \in T : \A m \in T : n <= m
<1> DEFINE Below == {0 .. n : n \in T}
<1>1. Below \subseteq FiniteSubsetsOf(Nat)
  <2> SUFFICES ASSUME NEW n \in T PROVE 0 .. n \in FiniteSubsetsOf(Nat)
    OBVIOUS
  <2>1. IsFiniteSet(0 .. n) BY FS_Interval
  <2>2. 0 .. n \subseteq Nat OBVIOUS
  <2>3. QED BY <2>1, <2>2 DEF FiniteSubsetsOf
<1>2. Below # {} OBVIOUS
<1>3. IsWellFoundedOn(StrictSubsetOrdering(Nat), FiniteSubsetsOf(Nat))
  BY FS_StrictSubsetOrderingWellFounded
<1> HIDE DEF Below
<1>4. \E x \in Below : \A y \in Below : ~(<<y, x>> \in StrictSubsetOrdering(Nat))
  BY <1>1, <1>2, <1>3, WFMin, Zenon
<1>5. PICK n \in T : \A m \in T : ~(<<0 .. m, 0 .. n>> \in StrictSubsetOrdering(Nat))
  BY <1>4 DEF Below
<1>6. ASSUME NEW m \in T, m < n PROVE FALSE
  <2>1. 0 .. m \subseteq 0 .. n /\ n \in 0 .. n /\ n \notin 0 .. m
    BY <1>6
  <2>2. <<0 .. m, 0 .. n>> \in StrictSubsetOrdering(Nat)
    BY <2>1 DEF StrictSubsetOrdering
  <2>3. QED BY <2>2, <1>5
<1>7. QED BY <1>6

\* A set of natural numbers up to a bound that holds one has a greatest.
LEMMA Greatest ==
    ASSUME NEW len \in Nat, NEW T \in SUBSET (0..len), T # {}
    PROVE  \E n \in T : \A m \in T : n >= m
<1> DEFINE U == {len - n : n \in T}
<1>1. U \in SUBSET Nat /\ U # {}
  <2>1. \A n \in T : n \in 0..len /\ len - n \in Nat
    OBVIOUS
  <2> QED BY <2>1
<1>2. PICK u \in U : \A v \in U : u <= v
  <2> HIDE DEF U
  <2> QED BY <1>1, Least
<1>3. PICK n \in T : u = len - n
  BY <1>2
<1>4. ASSUME NEW m \in T PROVE n >= m
  <2>1. len - m \in U
    OBVIOUS
  <2>2. u <= len - m
    BY <1>2, <2>1
  <2> QED BY <1>3, <2>2
<1> QED BY <1>4

\* What holds of 0, and with each number of the next, holds of every number.
LEMMA Reaches ==
    ASSUME NEW T, 0 \in T, \A k \in Nat : k \in T => k + 1 \in T, NEW n \in Nat
    PROVE  n \in T
<1> SUFFICES ASSUME n \notin T PROVE FALSE
  OBVIOUS
<1> DEFINE U == {k \in Nat : k \notin T}
<1>1. U \in SUBSET Nat /\ U # {}
  OBVIOUS
<1>2. PICK u \in U : \A v \in U : u <= v
  <2> HIDE DEF U
  <2> QED BY <1>1, Least
<1>3. u \in Nat /\ u # 0 /\ u - 1 \in Nat /\ (u - 1) + 1 = u
  OBVIOUS
<1>4. u - 1 \notin U
  <2> HIDE DEF U
  <2> QED BY <1>2, <1>3
<1> QED BY <1>3, <1>4

\* B determines the value at each i of D by the values at those of lower rank.
Grounded(D, V, n, rank, B) ==
    /\ n \in Nat /\ V # {} /\ rank \in [D -> 0..n]
    /\ B \in [D -> [[D -> V] -> V]]
    /\ \A i \in D : \A f, g \in [D -> V] :
          (\A j \in D : rank[j] < rank[i] => f[j] = g[j]) => B[i][f] = B[i][g]

Solved(D, V, B) == \E f \in [D -> V] : \A i \in D : f[i] = B[i][f]

\* A function whose values are each determined by those of lower rank exists.
LEMMA Recursion ==
    ASSUME NEW D, NEW V, NEW n, NEW rank, NEW B, Grounded(D, V, n, rank, B)
    PROVE  Solved(D, V, B)
<1> USE DEF Grounded
<1> DEFINE Settled(k, f) == \A i \in D : rank[i] < k => f[i] = B[i][f]
<1> DEFINE T == {k \in Nat : \E f \in [D -> V] : Settled(k, f)}
<1>1. 0 \in T
  <2>1. PICK v \in V : TRUE
    OBVIOUS
  <2>2. [i \in D |-> v] \in [D -> V] /\ Settled(0, [i \in D |-> v])
    OBVIOUS
  <2> HIDE DEF Settled
  <2> QED BY <2>2
<1>2. ASSUME NEW k \in Nat, k \in T PROVE k + 1 \in T
  <2>1. PICK f \in [D -> V] : Settled(k, f)
    BY <1>2
  <2> DEFINE g == [i \in D |-> B[i][f]]
  <2>2. g \in [D -> V]
    OBVIOUS
  <2>3. \A i \in D : rank[i] < k => g[i] = f[i]
    BY <2>1
  <2>4. ASSUME NEW i \in D, rank[i] < k + 1 PROVE g[i] = B[i][g]
    <3>1. \A j \in D : rank[j] < rank[i] => f[j] = g[j]
      BY <2>3, <2>4
    <3>2. B[i][f] = B[i][g]
      <4> HIDE DEF g
      <4> QED BY <2>2, <3>1
    <3> QED BY <3>2
  <2>5. Settled(k + 1, g)
    BY <2>4
  <2> HIDE DEF g, Settled
  <2> QED BY <2>2, <2>5
<1>3. n + 1 \in T
  <2> HIDE DEF T
  <2> QED BY <1>1, <1>2, Reaches
<1>4. PICK f \in [D -> V] : Settled(n + 1, f)
  BY <1>3
<1>5. \A i \in D : f[i] = B[i][f]
  BY <1>4
<1> QED BY <1>5 DEF Solved

-----------------------------------------------------------------------------
\* Entries, each with an id of its own, that supersede earlier ones or none.
Shaped(E, n) ==
    /\ IsFiniteSet(E)
    /\ \A e \in E : /\ e.id \in 1..n /\ e.at \in Nat
                    /\ e.supersedes \in Nat /\ e.supersedes < e.id
    /\ \A e, x \in E : e.id = x.id => e = x

LEMMA Named ==
    ASSUME NEW n \in Nat, NEW E, Shaped(E, n)
    PROVE  /\ Ids(E) \subseteq 1..n
           /\ \A e \in E : e.id \in Ids(E) /\ ById(E, e.id) = e
           /\ \A i \in Ids(E) : ById(E, i) \in E /\ ById(E, i).id = i
<1>1. ASSUME NEW e \in E PROVE e.id \in Ids(E) /\ e.id \in 1..n
  BY DEF Ids, Shaped
<1>2. ASSUME NEW i \in Ids(E) PROVE ById(E, i) \in E /\ ById(E, i).id = i
  BY DEF Ids, ById
<1>3. ASSUME NEW e \in E PROVE ById(E, e.id) = e
  BY <1>1, <1>2 DEF Shaped
<1>4. Ids(E) \subseteq 1..n
  BY <1>1 DEF Ids
<1> QED BY <1>1, <1>2, <1>3, <1>4

\* What decides liveness in the code, from the newest entry backwards, exists.
LEMMA AliveExists ==
    ASSUME NEW n \in Nat, NEW E, Shaped(E, n)
    PROVE  \E alive : alive = [i \in Ids(E) |->
               ~\E e \in E : e.id > i /\ e.supersedes = i /\ alive[e.id]]
<1> DEFINE D == Ids(E)
<1> DEFINE V == BOOLEAN
<1> DEFINE F == [D -> V]
<1> DEFINE Body(i, f) == ~\E e \in E : e.id > i /\ e.supersedes = i /\ f[e.id]
<1> DEFINE B == [i \in D |-> [f \in F |-> Body(i, f)]]
<1> DEFINE rank == [i \in D |-> n - i]
<1>1. D \subseteq 1..n /\ \A e \in E : e.id \in D
  BY Named
<1>2. rank \in [D -> 0..n]
  BY <1>1
<1>3. B \in [D -> [F -> V]]
  OBVIOUS
<1>4. ASSUME NEW i \in D, NEW f \in F, NEW g \in F,
             \A j \in D : rank[j] < rank[i] => f[j] = g[j]
      PROVE  B[i][f] = B[i][g]
  <2>1. ASSUME NEW e \in E, e.id > i PROVE f[e.id] = g[e.id]
    <3>1. e.id \in D /\ rank[e.id] < rank[i]
      BY <1>1, <2>1
    <3> QED BY <1>4, <3>1
  <2>2. Body(i, f) = Body(i, g)
    BY <2>1
  <2> HIDE DEF Body
  <2> QED BY <2>2
<1> HIDE DEF rank
<1>5. \E f \in F : \A i \in D : f[i] = B[i][f]
  <2>1. Grounded(D, V, n, rank, B)
    <3>1. \A i \in D : \A f, g \in F :
              (\A j \in D : rank[j] < rank[i] => f[j] = g[j]) => B[i][f] = B[i][g]
      BY <1>4, Zenon
    <3> HIDE DEF B, D
    <3> QED BY <1>2, <1>3, <3>1 DEF Grounded
  <2> HIDE DEF B, D, V
  <2> QED BY <2>1, Recursion DEF Solved
<1>6. PICK f \in F : \A i \in D : f[i] = B[i][f]
  BY <1>5
<1>7. \A i \in D : B[i][f] = Body(i, f)
  <2> HIDE DEF Body
  <2> QED OBVIOUS
<1>8. f = [i \in D |-> Body(i, f)]
  <2> HIDE DEF B, Body
  <2> QED BY <1>6, <1>7
<1> QED BY <1>8

\* An entry is live unless a live one supersedes it.
LEMMA LiveIs ==
    ASSUME NEW n \in Nat, NEW E, Shaped(E, n)
    PROVE  /\ Live(E) \subseteq E
           /\ \A e \in E : e \in Live(E) <=> ~\E x \in Live(E) : x.supersedes = e.id
           /\ LiveIds(E) = {e.id : e \in Live(E)}
           /\ \A e \in E : e \in Live(E) <=> e.id \in LiveIds(E)
<1> DEFINE Body(i, f) == ~\E e \in E : e.id > i /\ e.supersedes = i /\ f[e.id]
<1> DEFINE alive == CHOOSE f : f = [i \in Ids(E) |-> Body(i, f)]
<1>1. LiveIds(E) = {i \in Ids(E) : alive[i]}
  BY DEF LiveIds
<1>2. alive = [i \in Ids(E) |-> Body(i, alive)]
  <2>1. \E f : f = [i \in Ids(E) |-> Body(i, f)]
    BY AliveExists
  <2> HIDE DEF Body
  <2> QED BY <2>1, Zenon
<1> HIDE DEF alive
<1>3. \A i \in Ids(E) : alive[i] <=> Body(i, alive)
  BY <1>2, Zenon
<1>4. Live(E) = {e \in E : e.id \in LiveIds(E)}
  BY DEF Live
<1>5. \A e \in E : e.id \in Ids(E) /\ (e \in Live(E) <=> alive[e.id])
  BY <1>1, <1>4, Named
<1>6. ASSUME NEW e \in E
      PROVE  e \in Live(E) <=> ~\E x \in Live(E) : x.supersedes = e.id
  <2>1. \A x \in E : x.supersedes = e.id => x.id > e.id
    BY DEF Shaped
  <2>2. Body(e.id, alive) <=> ~\E x \in Live(E) : x.supersedes = e.id
    BY <2>1, <1>4, <1>5
  <2> QED BY <2>2, <1>3, <1>5
<1>7. LiveIds(E) = {e.id : e \in Live(E)}
  BY <1>1, <1>4 DEF Ids
<1> QED BY <1>4, <1>6, <1>7

\* A set of live entries is known by that equation.
LEMMA LiveUnique ==
    ASSUME NEW n \in Nat, NEW E, Shaped(E, n), NEW L \in SUBSET E,
           \A e \in E : e \in L <=> ~\E x \in L : x.supersedes = e.id
    PROVE  L = Live(E)
<1> DEFINE Differ == {e \in E : ~(e \in L <=> e \in Live(E))}
<1> DEFINE T == {e.id : e \in Differ}
<1> SUFFICES ASSUME Differ # {} PROVE FALSE
  BY LiveIs
<1>1. T \in SUBSET (0..n) /\ T # {}
  BY DEF Shaped
<1>2. PICK t \in T : \A u \in T : t >= u
  <2> HIDE DEF T
  <2> QED BY <1>1, Greatest
<1>3. PICK e \in Differ : t = e.id
  OBVIOUS
<1>4. \A x \in E : x.supersedes = e.id => (x \in L <=> x \in Live(E))
  <2> SUFFICES ASSUME NEW x \in E, x.supersedes = e.id, x \in Differ PROVE FALSE
    OBVIOUS
  <2>1. x.id \in T /\ x.id > e.id /\ x.id \in Nat /\ e.id \in Nat
    BY DEF Shaped
  <2> HIDE DEF T
  <2> QED BY <1>2, <1>3, <2>1
<1>5. Live(E) \subseteq E /\ (e \in Live(E) <=> ~\E x \in Live(E) : x.supersedes = e.id)
  BY LiveIs
<1> QED BY <1>4, <1>5

-----------------------------------------------------------------------------
\* The id that entry i supersedes, and whether i supersedes an entry.
By(E, i) == ById(E, i).supersedes
Supersedes(E, i) == By(E, i) \in Ids(E)

LEMMA ByIs ==
    ASSUME NEW n \in Nat, NEW E, Shaped(E, n), NEW i \in Ids(E)
    PROVE  i \in 1..n /\ By(E, i) \in Nat /\ By(E, i) < i
BY Named DEF By, Shaped

\* The first entry of a chain of corrections, and whether it was written over a retraction:
\* both recursions of the model exist.
LEMMA RootExists ==
    ASSUME NEW n \in Nat, NEW E, Shaped(E, n)
    PROVE  \E f \in [Ids(E) -> Nat] :
              f = [i \in Ids(E) |-> IF Supersedes(E, i) THEN f[By(E, i)] ELSE i]
<1> DEFINE D == Ids(E)
<1> DEFINE V == Nat
<1> DEFINE F == [D -> V]
<1> DEFINE Body(i, f) == IF Supersedes(E, i) THEN f[By(E, i)] ELSE i
<1> DEFINE B == [i \in D |-> [f \in F |-> Body(i, f)]]
<1> DEFINE rank == [i \in D |-> i]
<1>1. D \subseteq 1..n
  BY Named
<1>2. rank \in [D -> 0..n]
  BY <1>1
<1>3. B \in [D -> [F -> V]]
  <2>1. ASSUME NEW i \in D, NEW f \in F PROVE Body(i, f) \in V
    BY <1>1 DEF Supersedes
  <2> HIDE DEF Body, V, F
  <2> QED BY <2>1
<1>4. ASSUME NEW i \in D, NEW f \in F, NEW g \in F,
             \A j \in D : rank[j] < rank[i] => f[j] = g[j]
      PROVE  B[i][f] = B[i][g]
  <2>1. Body(i, f) = Body(i, g)
    BY <1>4, ByIs DEF Supersedes
  <2> HIDE DEF Body
  <2> QED BY <2>1
<1> HIDE DEF rank
<1>5. \E f \in F : \A i \in D : f[i] = B[i][f]
  <2>1. Grounded(D, V, n, rank, B)
    <3>1. \A i \in D : \A f, g \in F :
              (\A j \in D : rank[j] < rank[i] => f[j] = g[j]) => B[i][f] = B[i][g]
      BY <1>4, Zenon
    <3> HIDE DEF B, D
    <3> QED BY <1>2, <1>3, <3>1 DEF Grounded
  <2> HIDE DEF B, D, V
  <2> QED BY <2>1, Recursion DEF Solved
<1>6. PICK f \in F : \A i \in D : f[i] = B[i][f]
  BY <1>5
<1>7. \A i \in D : B[i][f] = Body(i, f)
  <2> HIDE DEF Body
  <2> QED OBVIOUS
<1>8. f = [i \in D |-> Body(i, f)]
  <2> HIDE DEF B, Body
  <2> QED BY <1>6, <1>7
<1> QED BY <1>8

LEMMA RootIs ==
    ASSUME NEW n \in Nat, NEW E, Shaped(E, n), NEW e \in E
    PROVE  /\ RootId(E, e) \in Nat
           /\ e.supersedes \notin Ids(E) => RootId(E, e) = e.id
           /\ e.supersedes \in Ids(E) =>
                 RootId(E, e) = RootId(E, ById(E, e.supersedes))
<1> DEFINE root == CHOOSE f :
        f = [i \in Ids(E) |-> IF Supersedes(E, i) THEN f[By(E, i)] ELSE i]
<1>1. \A x : RootId(E, x) = root[x.id]
  BY DEF RootId, Supersedes, By
<1>2. PICK f \in [Ids(E) -> Nat] :
          f = [i \in Ids(E) |-> IF Supersedes(E, i) THEN f[By(E, i)] ELSE i]
  BY RootExists
<1>3. root = [i \in Ids(E) |-> IF Supersedes(E, i) THEN root[By(E, i)] ELSE i]
  BY <1>2, Zenon
<1> HIDE DEF root
<1>4. \A i \in Ids(E) : root[i] = IF Supersedes(E, i) THEN root[By(E, i)] ELSE i
  BY <1>3, Zenon
<1>5. e.id \in Ids(E) /\ By(E, e.id) = e.supersedes
      /\ (e.supersedes \in Ids(E) => ById(E, e.supersedes).id = e.supersedes)
  BY Named DEF By
<1>6. \A i \in Ids(E) : root[i] \in Nat
  <2> DEFINE T == {i \in Ids(E) : root[i] \notin Nat}
  <2> SUFFICES ASSUME T # {} PROVE FALSE
    OBVIOUS
  <2>1. T \in SUBSET Nat
    BY Named
  <2>2. PICK i \in T : \A j \in T : i <= j
    <3> HIDE DEF T
    <3> QED BY <2>1, Least
  <2>3. i \in Nat /\ By(E, i) \in Nat /\ By(E, i) < i
    BY ByIs
  <2> QED BY <1>4, <2>2, <2>3 DEF Supersedes
<1> QED BY <1>1, <1>4, <1>5, <1>6 DEF Supersedes

\* What i supersedes is a retraction.
Retracts(E, i) == ById(E, By(E, i)).kind = "retraction"

LEMMA OverExists ==
    ASSUME NEW n \in Nat, NEW E, Shaped(E, n)
    PROVE  \E f : f = [i \in Ids(E) |-> Supersedes(E, i) /\ (Retracts(E, i) \/ f[By(E, i)])]
<1> DEFINE D == Ids(E)
<1> DEFINE V == BOOLEAN
<1> DEFINE F == [D -> V]
<1> DEFINE Body(i, f) == Supersedes(E, i) /\ (Retracts(E, i) \/ f[By(E, i)])
<1> DEFINE B == [i \in D |-> [f \in F |-> Body(i, f)]]
<1> DEFINE rank == [i \in D |-> i]
<1>1. rank \in [D -> 0..n]
  BY Named
<1>2. B \in [D -> [F -> V]]
  OBVIOUS
<1>3. ASSUME NEW i \in D, NEW f \in F, NEW g \in F,
             \A j \in D : rank[j] < rank[i] => f[j] = g[j]
      PROVE  B[i][f] = B[i][g]
  <2>1. Supersedes(E, i) => f[By(E, i)] = g[By(E, i)]
    BY <1>3, ByIs DEF Supersedes
  <2>2. Body(i, f) = Body(i, g)
    BY <2>1, Zenon
  <2> HIDE DEF Body
  <2> QED BY <2>2
<1> HIDE DEF rank
<1>4. \E f \in F : \A i \in D : f[i] = B[i][f]
  <2>1. Grounded(D, V, n, rank, B)
    <3>1. \A i \in D : \A f, g \in F :
              (\A j \in D : rank[j] < rank[i] => f[j] = g[j]) => B[i][f] = B[i][g]
      BY <1>3, Zenon
    <3> HIDE DEF B, D
    <3> QED BY <1>1, <1>2, <3>1 DEF Grounded
  <2> HIDE DEF B, D, V
  <2> QED BY <2>1, Recursion DEF Solved
<1>5. PICK f \in F : \A i \in D : f[i] = B[i][f]
  BY <1>4
<1>6. \A i \in D : B[i][f] = Body(i, f)
  <2> HIDE DEF Body
  <2> QED OBVIOUS
<1>7. f = [i \in D |-> Body(i, f)]
  <2> HIDE DEF B, Body
  <2> QED BY <1>5, <1>6
<1> QED BY <1>7

LEMMA OverIs ==
    ASSUME NEW n \in Nat, NEW E, Shaped(E, n), NEW e \in E
    PROVE  OverRetraction(E, e) <=>
              /\ e.supersedes \in Ids(E)
              /\ \/ ById(E, e.supersedes).kind = "retraction"
                 \/ OverRetraction(E, ById(E, e.supersedes))
<1> DEFINE Body(i, f) == Supersedes(E, i) /\ (Retracts(E, i) \/ f[By(E, i)])
<1> DEFINE over == CHOOSE f : f = [i \in Ids(E) |-> Body(i, f)]
<1>1. \A x : OverRetraction(E, x) = over[x.id]
  BY DEF OverRetraction, Supersedes, Retracts, By
<1>2. over = [i \in Ids(E) |-> Body(i, over)]
  <2>1. \E f : f = [i \in Ids(E) |-> Body(i, f)]
    BY OverExists
  <2> HIDE DEF Body
  <2> QED BY <2>1, Zenon
<1> HIDE DEF over
<1>3. \A i \in Ids(E) : over[i] <=> Body(i, over)
  BY <1>2, Zenon
<1>4. e.id \in Ids(E) /\ By(E, e.id) = e.supersedes
      /\ (e.supersedes \in Ids(E) => ById(E, e.supersedes).id = e.supersedes)
  BY Named DEF By
<1>5. OverRetraction(E, e) <=> over[e.id]
  BY <1>1, Zenon
<1>6. OverRetraction(E, ById(E, e.supersedes)) <=> over[ById(E, e.supersedes).id]
  BY <1>1, Zenon
<1>7. over[e.id] <=> Body(e.id, over)
  BY <1>3, <1>4, Zenon
<1> QED BY <1>4, <1>5, <1>6, <1>7 DEF Supersedes, Retracts

-----------------------------------------------------------------------------
\* A set of entries with all that its entries supersede, by id.
Closed(E, K) == K \subseteq Ids(E) /\ \A k \in K : Supersedes(E, k) => By(E, k) \in K

\* Entry i, what it supersedes, what that supersedes and so on.
Chain(E, i) == {j \in Ids(E) : \A K \in SUBSET Ids(E) : Closed(E, K) /\ i \in K => j \in K}

\* A chain is the least closed set with its first entry: that one, and the chain of what it
\* supersedes.
LEMMA ChainIs ==
    ASSUME NEW n \in Nat, NEW E, Shaped(E, n), NEW i \in Ids(E)
    PROVE  /\ i \in Chain(E, i) /\ Closed(E, Chain(E, i))
           /\ \A K : Closed(E, K) /\ i \in K => Chain(E, i) \subseteq K
           /\ \A j \in Chain(E, i) : j <= i
           /\ \A j \in Chain(E, i) :
                 j = i \/ (Supersedes(E, i) /\ j \in Chain(E, By(E, i)))
<1>1. i \in Chain(E, i)
  BY DEF Chain
<1>2. ASSUME NEW K, Closed(E, K), i \in K PROVE Chain(E, i) \subseteq K
  BY <1>2 DEF Chain, Closed
<1>3. ASSUME NEW s \in Ids(E) PROVE Closed(E, Chain(E, s))
  <2>1. ASSUME NEW k \in Chain(E, s), Supersedes(E, k) PROVE By(E, k) \in Chain(E, s)
    <3> SUFFICES ASSUME NEW K \in SUBSET Ids(E), Closed(E, K), s \in K
                 PROVE  By(E, k) \in K
      BY <2>1 DEF Chain, Supersedes
    <3>1. k \in K
      BY DEF Chain
    <3> QED BY <2>1, <3>1 DEF Closed
  <2> QED BY <2>1 DEF Closed, Chain
<1>4. \A j \in Chain(E, i) : j <= i
  <2> DEFINE K == {k \in Ids(E) : k <= i}
  <2>1. Closed(E, K)
    <3> SUFFICES ASSUME NEW k \in K, Supersedes(E, k) PROVE By(E, k) \in K
      BY DEF Closed
    <3>1. k \in Nat /\ i \in Nat /\ By(E, k) \in Nat /\ By(E, k) < k
      BY ByIs
    <3> QED BY <3>1 DEF Supersedes
  <2>2. i \in K
    BY ByIs
  <2>3. Chain(E, i) \subseteq K
    <3> HIDE DEF K
    <3> QED BY <1>2, <2>1, <2>2
  <2> QED BY <2>3
<1>5. ASSUME NEW j \in Chain(E, i)
      PROVE  j = i \/ (Supersedes(E, i) /\ j \in Chain(E, By(E, i)))
  <2>1. CASE Supersedes(E, i)
    <3> DEFINE K == {i} \cup Chain(E, By(E, i))
    <3>1. Closed(E, Chain(E, By(E, i))) /\ By(E, i) \in Chain(E, By(E, i))
      BY <1>3, <2>1 DEF Supersedes, Chain
    <3>2. Closed(E, K) /\ i \in K
      BY <3>1 DEF Closed
    <3>3. j \in K
      <4> HIDE DEF K
      <4> QED BY <1>2, <3>2
    <3> QED BY <2>1, <3>3
  <2>2. CASE ~Supersedes(E, i)
    <3>1. Closed(E, {i})
      BY <2>2 DEF Closed
    <3> QED BY <1>2, <3>1
  <2> QED BY <2>1, <2>2
<1> QED BY <1>1, <1>2, <1>3, <1>4, <1>5

\* A chain does not fork.
LEMMA ChainLinear ==
    ASSUME NEW n \in Nat, NEW E, Shaped(E, n), NEW s \in Ids(E),
           NEW i \in Chain(E, s), NEW j \in Chain(E, s),
           Supersedes(E, i), By(E, i) = By(E, j)
    PROVE  i = j
<1> DEFINE K == {a \in Chain(E, s) : \A k \in Chain(E, s) : k <= a => k \in Chain(E, a)}
<1>1. Chain(E, s) \subseteq Ids(E) /\ Ids(E) \subseteq 1..n
  BY Named DEF Chain
<1>2. Closed(E, K)
  <2> SUFFICES ASSUME NEW a \in K, Supersedes(E, a) PROVE By(E, a) \in K
    BY <1>1 DEF Closed
  <2>1. a \in Ids(E) /\ a \in Nat /\ By(E, a) \in Nat /\ By(E, a) < a
    BY <1>1, ByIs
  <2>2. By(E, a) \in Chain(E, s)
    BY ChainIs DEF Closed
  <2>3. ASSUME NEW k \in Chain(E, s), k <= By(E, a) PROVE k \in Chain(E, By(E, a))
    <3>1. k \in Nat /\ k <= a /\ k # a
      BY <1>1, <2>1, <2>3
    <3>2. k \in Chain(E, a)
      BY <3>1
    <3> QED BY <2>1, <3>1, <3>2, ChainIs
  <2> QED BY <2>2, <2>3
<1>3. s \in K
  BY ChainIs
<1>4. Chain(E, s) \subseteq K
  <2> HIDE DEF K
  <2> QED BY <1>2, <1>3, ChainIs
<1>5. ASSUME NEW a \in Chain(E, s), NEW b \in Chain(E, s), a < b,
             Supersedes(E, b), By(E, a) = By(E, b)
      PROVE  FALSE
  <2>1. a \in Nat /\ b \in Nat /\ a \in Ids(E) /\ b \in Ids(E) /\ a <= b /\ a # b
    BY <1>1, <1>5
  <2>2. a \in Chain(E, b)
    BY <1>4, <2>1
  <2>3. a \in Chain(E, By(E, b)) /\ By(E, b) \in Ids(E)
    BY <1>5, <2>1, <2>2, ChainIs DEF Supersedes
  <2>4. a <= By(E, b) /\ By(E, a) < a /\ By(E, a) \in Nat
    BY <2>1, <2>3, ChainIs, ByIs
  <2> QED BY <1>5, <2>1, <2>4
<1> QED BY <1>1, <1>5 DEF Supersedes

-----------------------------------------------------------------------------
\* Entries that supersede the same in two ledgers have the same place and history in both.
LEMMA SameChains ==
    ASSUME NEW n \in Nat, NEW E, Shaped(E, n), NEW m \in Nat, NEW T, Shaped(T, m),
           NEW S, S \subseteq E, S \subseteq T,
           \A x \in S : /\ x.supersedes \in Ids(E) <=> x.supersedes \in Ids(T)
                        /\ x.supersedes \in Ids(E) =>
                              /\ ById(E, x.supersedes) = ById(T, x.supersedes)
                              /\ ById(E, x.supersedes) \in S
    PROVE  \A x \in S : /\ RootId(E, x) = RootId(T, x)
                        /\ OverRetraction(E, x) <=> OverRetraction(T, x)
<1> DEFINE Same(x) == /\ RootId(E, x) = RootId(T, x)
                      /\ OverRetraction(E, x) <=> OverRetraction(T, x)
<1> DEFINE U == {x \in S : ~Same(x)}
<1> DEFINE W == {x.id : x \in U}
<1> SUFFICES ASSUME U # {} PROVE FALSE
  OBVIOUS
<1>1. W \in SUBSET Nat /\ W # {}
  BY DEF Shaped
<1>2. PICK w \in W : \A v \in W : w <= v
  <2> HIDE DEF W
  <2> QED BY <1>1, Least
<1>3. PICK x \in U : x.id = w
  OBVIOUS
<1>4. x \in E /\ x \in T
  OBVIOUS
<1>5. CASE x.supersedes \notin Ids(E)
  <2>1. RootId(E, x) = x.id /\ RootId(T, x) = x.id
    BY <1>4, <1>5, RootIs
  <2>2. ~OverRetraction(E, x) /\ ~OverRetraction(T, x)
    BY <1>4, <1>5, OverIs
  <2> QED BY <2>1, <2>2
<1>6. CASE x.supersedes \in Ids(E)
  <2> DEFINE y == ById(E, x.supersedes)
  <2>1. y \in S /\ y = ById(T, x.supersedes) /\ x.supersedes \in Ids(T)
    BY <1>6
  <2>2. y.id = x.supersedes /\ y.id < x.id /\ y.id \in Nat /\ x.id \in Nat
    BY <1>4, <1>6, Named DEF Shaped
  <2> HIDE DEF y
  <2>3. Same(y)
    <3> SUFFICES ASSUME y \in U PROVE FALSE
      BY <2>1
    <3>1. y.id \in W
      OBVIOUS
    <3> HIDE DEF W, U
    <3> QED BY <1>2, <1>3, <2>2, <3>1
  <2>4. RootId(E, x) = RootId(E, y) /\ RootId(T, x) = RootId(T, y)
    BY <1>4, <1>6, <2>1, RootIs DEF y
  <2>5. OverRetraction(E, x) <=> y.kind = "retraction" \/ OverRetraction(E, y)
    BY <1>4, <1>6, OverIs DEF y
  <2>6. OverRetraction(T, x) <=> y.kind = "retraction" \/ OverRetraction(T, y)
    BY <1>4, <2>1, OverIs
  <2>7. Same(x)
    BY <2>3, <2>4, <2>5, <2>6, Zenon
  <2> QED BY <2>7
<1> QED BY <1>5, <1>6

\* T is E with one entry more, e, that supersedes an entry of E or none.
Grows(E, n, T, e) ==
    /\ n \in Nat /\ Shaped(E, n)
    /\ T = E \cup {e}
    /\ e.id = n + 1 /\ e.at \in Nat
    /\ e.supersedes = 0 \/ e.supersedes \in Ids(E)

LEMMA Grown ==
    ASSUME NEW E, NEW n, NEW T, NEW e, Grows(E, n, T, e)
    PROVE  /\ n + 1 \in Nat /\ Shaped(T, n + 1)
           /\ e \notin E /\ e.id \notin Ids(E)
           /\ Ids(T) = Ids(E) \cup {e.id}
           /\ \A i \in Ids(E) : ById(T, i) = ById(E, i)
           /\ \A x \in T : x.supersedes # e.id
           /\ e \in Live(T)
<1> USE DEF Grows
<1>1. n \in Nat /\ Shaped(E, n) /\ Ids(E) \subseteq 1..n
  BY Named
<1>2. e.supersedes \in 0..n /\ e.id \notin Ids(E) /\ e \notin E
  <2>1. e.id = n + 1 /\ e.id \notin 1..n
    BY <1>1
  <2>2. e.supersedes \in 0..n
    BY <1>1
  <2>3. \A x \in E : x.id \in 1..n
    BY <1>1 DEF Shaped
  <2> QED BY <1>1, <2>1, <2>2, <2>3
<1>3. IsFiniteSet(T)
  BY <1>1, FS_AddElement DEF Shaped
<1>4. Shaped(T, n + 1)
  <2>1. \A x \in E : x.id \in 1..(n + 1) /\ x.at \in Nat
                     /\ x.supersedes \in Nat /\ x.supersedes < x.id
    BY <1>1 DEF Shaped
  <2>2. e.id \in 1..(n + 1) /\ e.at \in Nat /\ e.supersedes \in Nat /\ e.supersedes < e.id
    BY <1>1, <1>2
  <2>3. \A x \in E : x.id # e.id
    BY <1>2 DEF Ids
  <2> QED BY <1>1, <1>3, <2>1, <2>2, <2>3 DEF Shaped
<1>5. Ids(T) = Ids(E) \cup {e.id}
  BY DEF Ids
<1>6. ASSUME NEW i \in Ids(E) PROVE ById(T, i) = ById(E, i)
  <2>1. ById(E, i) \in E /\ ById(E, i).id = i
    BY <1>1, Named
  <2>2. ById(E, i) \in T /\ ById(T, ById(E, i).id) = ById(E, i)
    BY <1>1, <1>4, <2>1, Named
  <2> QED BY <2>1, <2>2
<1>7. ASSUME NEW x \in T PROVE x.supersedes # e.id
  <2>1. x.id \in 1..(n + 1) /\ x.supersedes \in Nat /\ x.supersedes < x.id
    BY <1>4 DEF Shaped
  <2> QED BY <1>1, <2>1
<1>8. e \in Live(T)
  <2>1. n + 1 \in Nat /\ e \in T
    BY <1>1
  <2>2. /\ Live(T) \subseteq T
        /\ e \in Live(T) <=> ~\E x \in Live(T) : x.supersedes = e.id
    BY <1>4, <2>1, LiveIs
  <2> QED BY <1>7, <2>2
<1> QED BY <1>1, <1>2, <1>4, <1>5, <1>6, <1>7, <1>8

\* What stood keeps its place and history.
LEMMA GrownKeeps ==
    ASSUME NEW E, NEW n, NEW T, NEW e, Grows(E, n, T, e)
    PROVE  \A x \in E : /\ RootId(T, x) = RootId(E, x)
                        /\ OverRetraction(T, x) <=> OverRetraction(E, x)
<1>1. n \in Nat /\ Shaped(E, n) /\ n + 1 \in Nat /\ Shaped(T, n + 1) /\ E \subseteq T
  BY Grown DEF Grows
<1>2. ASSUME NEW x \in E
      PROVE  /\ x.supersedes \in Ids(E) <=> x.supersedes \in Ids(T)
             /\ x.supersedes \in Ids(E) =>
                   /\ ById(E, x.supersedes) = ById(T, x.supersedes)
                   /\ ById(E, x.supersedes) \in E
  BY <1>1, Grown, Named
<1> QED BY <1>1, <1>2, SameChains

-----------------------------------------------------------------------------
\* What one entry more changes: e supersedes a live entry, if any.
Takes(E, n, T, e) ==
    Grows(E, n, T, e) /\ (e.supersedes # 0 => ~Superseded(E, e.supersedes))

LEMMA ShapedWithin ==
    ASSUME NEW n \in Nat, NEW E, Shaped(E, n), NEW S \in SUBSET E
    PROVE  Shaped(S, n)
BY FS_Subset DEF Shaped

\* What is live beside e is what is live without the entry e supersedes.
LEMMA LiveWithout ==
    ASSUME NEW E, NEW n, NEW T, NEW e, Grows(E, n, T, e)
    PROVE  LET without == {x \in E : x.id # e.supersedes}
           IN  Live(T) = {e} \cup Live(without) /\ Live(without) = Live(T) \ {e}
<1> DEFINE W == {x \in E : x.id # e.supersedes}
<1> DEFINE L == Live(T) \ {e}
<1>1. n \in Nat /\ Shaped(E, n) /\ n + 1 \in Nat /\ Shaped(T, n + 1) /\ T = E \cup {e}
      /\ e \notin E /\ e \in Live(T)
  BY Grown DEF Grows
<1>2. Live(T) \subseteq T /\ \A x \in T : x \in Live(T) <=> ~\E y \in Live(T) : y.supersedes = x.id
  BY <1>1, LiveIs
<1>3. L \in SUBSET W
  BY <1>1, <1>2
<1>4. ASSUME NEW x \in W PROVE x \in L <=> ~\E y \in L : y.supersedes = x.id
  <2>1. x \in T /\ x # e /\ e.supersedes # x.id
    BY <1>1
  <2> QED BY <1>2, <2>1
<1>5. Shaped(W, n)
  BY <1>1, ShapedWithin
<1>6. L = Live(W)
  <2> HIDE DEF L, W
  <2> QED BY <1>1, <1>3, <1>4, <1>5, LiveUnique
<1> QED BY <1>1, <1>6

\* The entries that e makes live or dead.
Changed(E, T) == {x \in E : ~(x \in Live(E) <=> x \in Live(T))}

\* The superseded entry is one of them, and each other is superseded by one.
LEMMA ChangedAbove ==
    ASSUME NEW E, NEW n, NEW T, NEW e, Takes(E, n, T, e)
    PROVE  /\ e.supersedes # 0 => /\ ById(E, e.supersedes) \in Changed(E, T)
                                  /\ ById(E, e.supersedes) \in Live(E)
           /\ \A x \in Changed(E, T) :
                 x.id = e.supersedes \/ \E c \in Changed(E, T) : c.supersedes = x.id
<1>1. /\ n \in Nat /\ Shaped(E, n) /\ n + 1 \in Nat /\ Shaped(T, n + 1) /\ T = E \cup {e}
      /\ e \notin E /\ e \in Live(T)
  BY Grown DEF Takes, Grows
<1>2. /\ Live(T) \subseteq T
      /\ \A x \in T : x \in Live(T) <=> ~\E y \in Live(T) : y.supersedes = x.id
  BY <1>1, LiveIs
<1>3. /\ Live(E) \subseteq E
      /\ \A x \in E : x \in Live(E) <=> ~\E y \in Live(E) : y.supersedes = x.id
  BY <1>1, LiveIs
<1>4. ASSUME e.supersedes # 0
      PROVE  /\ ById(E, e.supersedes) \in Changed(E, T)
             /\ ById(E, e.supersedes) \in Live(E)
  <2> DEFINE s == ById(E, e.supersedes)
  <2>1. s \in E /\ s.id = e.supersedes
    BY <1>1, <1>4, Named DEF Takes, Grows
  <2>2. s \in Live(E)
    BY <1>3, <1>4, <2>1 DEF Takes, Superseded
  <2>3. s \notin Live(T)
    BY <1>1, <1>2, <2>1
  <2> QED BY <2>1, <2>2, <2>3 DEF Changed
<1>5. ASSUME NEW x \in Changed(E, T), x.id # e.supersedes
      PROVE  \E c \in Changed(E, T) : c.supersedes = x.id
  <2>1. x \in E /\ x \in T
    BY <1>1 DEF Changed
  <2>2. CASE x \in Live(E)
    <3>1. x \notin Live(T)
      BY <2>2 DEF Changed
    <3>2. PICK y \in Live(T) : y.supersedes = x.id
      BY <1>2, <2>1, <3>1
    <3>3. y \in E /\ y \notin Live(E)
      BY <1>1, <1>2, <1>3, <1>5, <2>1, <2>2, <3>2
    <3> QED BY <3>2, <3>3 DEF Changed
  <2>3. CASE x \notin Live(E)
    <3>1. x \in Live(T)
      BY <2>3 DEF Changed
    <3>2. PICK y \in Live(E) : y.supersedes = x.id
      BY <1>3, <2>1, <2>3
    <3>3. y \in E /\ y \notin Live(T)
      BY <1>2, <1>3, <2>1, <3>1, <3>2
    <3> QED BY <3>2, <3>3 DEF Changed
  <2> QED BY <2>2, <2>3
<1> QED BY <1>4, <1>5

\* They are of the chain of the superseded entry.
LEMMA ChangedInChain ==
    ASSUME NEW E, NEW n, NEW T, NEW e, Takes(E, n, T, e), NEW x \in Changed(E, T)
    PROVE  e.supersedes \in Ids(E) /\ x.id \in Chain(E, e.supersedes)
<1> DEFINE C == Changed(E, T)
<1> DEFINE Out == {c \in C : ~(e.supersedes \in Ids(E) /\ c.id \in Chain(E, e.supersedes))}
<1> DEFINE W == {c.id : c \in Out}
<1> SUFFICES ASSUME Out # {} PROVE FALSE
  OBVIOUS
<1>1. /\ n \in Nat /\ Shaped(E, n) /\ C \subseteq E
      /\ e.supersedes = 0 \/ e.supersedes \in Ids(E)
  BY DEF Takes, Grows, Changed
<1>2. W \in SUBSET (0..n) /\ W # {}
  BY <1>1 DEF Shaped
<1>3. PICK w \in W : \A v \in W : w >= v
  <2> HIDE DEF W
  <2> QED BY <1>1, <1>2, Greatest
<1>4. PICK c \in Out : c.id = w
  OBVIOUS
<1>5. c \in E /\ c.id \in Ids(E) /\ c.id \in 1..n
  BY <1>1, Named
<1>6. c.id # e.supersedes
  <2> SUFFICES ASSUME c.id = e.supersedes PROVE FALSE
    OBVIOUS
  <2>1. e.supersedes \in Ids(E)
    BY <1>5
  <2> QED BY <1>1, <2>1, ChainIs
<1>7. PICK d \in C : d.supersedes = c.id
  BY <1>6, ChangedAbove
<1>8. d \in E /\ d.id \in Ids(E) /\ d.id > c.id /\ d.id \in Nat /\ By(E, d.id) = c.id
  <2>1. d \in E
    BY <1>1
  <2>2. d.id \in Ids(E) /\ ById(E, d.id) = d
    BY <1>1, <2>1, Named
  <2> QED BY <1>1, <1>7, <2>1, <2>2 DEF Shaped, By
<1>9. d.id \notin W
  <2> HIDE DEF W
  <2> QED BY <1>3, <1>4, <1>5, <1>8
<1>10. e.supersedes \in Ids(E) /\ d.id \in Chain(E, e.supersedes)
  BY <1>9
<1>11. c.id \in Chain(E, e.supersedes)
  <2>1. PICK K : K = Chain(E, e.supersedes) /\ Closed(E, K)
    BY <1>1, <1>10, ChainIs
  <2>2. d.id \in K /\ Supersedes(E, d.id)
    BY <1>5, <1>8, <1>10, <2>1 DEF Supersedes
  <2> QED BY <1>8, <2>1, <2>2 DEF Closed
<1> QED BY <1>10, <1>11

\* No two of them supersede the same.
LEMMA ChangedLinear ==
    ASSUME NEW E, NEW n, NEW T, NEW e, Takes(E, n, T, e),
           NEW x \in Changed(E, T), NEW y \in Changed(E, T),
           x.supersedes = y.supersedes, x.supersedes \in Ids(E)
    PROVE  x = y
<1>1. n \in Nat /\ Shaped(E, n) /\ x \in E /\ y \in E
  BY DEF Takes, Grows, Changed
<1>2. /\ e.supersedes \in Ids(E)
      /\ x.id \in Chain(E, e.supersedes) /\ y.id \in Chain(E, e.supersedes)
  BY ChangedInChain
<1>3. /\ x.id \in Ids(E) /\ y.id \in Ids(E)
      /\ ById(E, x.id) = x /\ ById(E, y.id) = y
  BY <1>1, Named
<1>4. By(E, x.id) = By(E, y.id) /\ Supersedes(E, x.id)
  BY <1>3 DEF By, Supersedes
<1>5. x.id = y.id
  BY <1>1, <1>2, <1>4, ChainLinear
<1> QED BY <1>1, <1>5 DEF Shaped

\* One live entry at most supersedes an entry; and what comes back is the only one to.
Single(E) ==
    \A x, y \in Live(E) : x.supersedes # 0 /\ x.supersedes = y.supersedes => x = y
Alone(E, T) ==
    \A x \in Live(T), y \in Live(T) :
        x \in E \ Live(E) /\ x.supersedes # 0 /\ x.supersedes = y.supersedes => x = y

LEMMA SingleKept ==
    ASSUME NEW E, NEW n, NEW T, NEW e, Takes(E, n, T, e), Single(E), Alone(E, T)
    PROVE  Single(T)
<1> SUFFICES ASSUME NEW x \in Live(T), NEW y \in Live(T), x # y,
                    x.supersedes # 0, x.supersedes = y.supersedes
             PROVE  FALSE
  BY DEF Single
<1>1. T = E \cup {e} /\ Live(T) \subseteq T
  <2>1. n + 1 \in Nat /\ Shaped(T, n + 1) /\ T = E \cup {e}
    BY Grown DEF Takes, Grows
  <2> QED BY <2>1, LiveIs
<1>2. ~(x \in E \ Live(E)) /\ ~(y \in E \ Live(E))
  BY DEF Alone
<1>3. CASE x = e \/ y = e
  <2>1. Superseded(E, e.supersedes) /\ e.supersedes # 0
    BY <1>1, <1>2, <1>3 DEF Superseded
  <2> QED BY <2>1 DEF Takes
<1>4. CASE x # e /\ y # e
  BY <1>1, <1>2, <1>4 DEF Single
<1> QED BY <1>3, <1>4

\* With each entry that changes, what it supersedes does: the chain changes to its end.
LEMMA ChangedBelow ==
    ASSUME NEW E, NEW n, NEW T, NEW e, Takes(E, n, T, e), Single(E), Alone(E, T),
           NEW x \in Changed(E, T), x.supersedes \in Ids(E)
    PROVE  ById(E, x.supersedes) \in Changed(E, T)
<1> DEFINE p == ById(E, x.supersedes)
<1>1. /\ n \in Nat /\ Shaped(E, n) /\ n + 1 \in Nat /\ Shaped(T, n + 1) /\ T = E \cup {e}
      /\ e \notin E /\ e \in Live(T)
  BY Grown DEF Takes, Grows
<1>2. /\ Live(T) \subseteq T
      /\ \A y \in T : y \in Live(T) <=> ~\E z \in Live(T) : z.supersedes = y.id
  BY <1>1, LiveIs
<1>3. /\ Live(E) \subseteq E
      /\ \A y \in E : y \in Live(E) <=> ~\E z \in Live(E) : z.supersedes = y.id
  BY <1>1, LiveIs
<1>4. p \in E /\ p \in T /\ p.id = x.supersedes /\ x \in E /\ x \in T
  BY <1>1, Named DEF Changed
<1>5. x.supersedes # 0
  BY <1>1, Named
<1>6. CASE x \in Live(T)
  <2>1. x \notin Live(E) /\ p \notin Live(T)
    BY <1>2, <1>4, <1>6 DEF Changed
  <2> SUFFICES ASSUME p \notin Live(E) PROVE FALSE
    BY <1>4, <2>1 DEF Changed
  <2>2. PICK v \in Live(E) : v.supersedes = p.id
    BY <1>3, <1>4
  <2>3. v # x /\ v \in E
    BY <1>3, <2>1
  <2>4. v \notin Live(T)
    BY <1>4, <1>5, <1>6, <2>1, <2>2, <2>3 DEF Alone
  <2>5. v \in Changed(E, T)
    BY <2>2, <2>3, <2>4 DEF Changed
  <2> QED BY <1>4, <2>2, <2>3, <2>5, ChangedLinear
<1>7. CASE x \notin Live(T)
  <2>1. x \in Live(E)
    BY <1>7 DEF Changed
  <2>2. p \notin Live(E)
    BY <1>3, <1>4, <2>1
  <2> SUFFICES ASSUME p \notin Live(T) PROVE FALSE
    BY <1>4, <2>2 DEF Changed
  <2>3. PICK w \in Live(T) : w.supersedes = p.id
    BY <1>2, <1>4
  <2>4. w # e
    <3>1. e.supersedes # 0 => ById(E, e.supersedes) \in Live(E)
      BY ChangedAbove
    <3> QED BY <1>4, <1>5, <2>2, <2>3, <3>1
  <2>5. w \in E /\ w # x
    BY <1>1, <1>2, <1>7, <2>3, <2>4
  <2>6. w \notin Live(E)
    BY <1>4, <1>5, <2>1, <2>3, <2>5 DEF Single
  <2>7. w \in Changed(E, T)
    BY <2>3, <2>5, <2>6 DEF Changed
  <2> QED BY <1>4, <2>3, <2>5, <2>7, ChangedLinear
<1> QED BY <1>6, <1>7

LEMMA RootChanged ==
    ASSUME NEW E, NEW n, NEW T, NEW e, Takes(E, n, T, e), Single(E), Alone(E, T),
           NEW x \in Changed(E, T)
    PROVE  \E r \in Changed(E, T) : r.id = RootId(E, x)
<1> DEFINE Good(y) == \E r \in Changed(E, T) : r.id = RootId(E, y)
<1> DEFINE U == {y \in Changed(E, T) : ~Good(y)}
<1> DEFINE W == {y.id : y \in U}
<1> SUFFICES ASSUME U # {} PROVE FALSE
  OBVIOUS
<1>1. n \in Nat /\ Shaped(E, n) /\ Changed(E, T) \subseteq E
  BY DEF Takes, Grows, Changed
<1>2. W \in SUBSET Nat /\ W # {}
  BY <1>1 DEF Shaped
<1>3. PICK w \in W : \A v \in W : w <= v
  <2> HIDE DEF W
  <2> QED BY <1>2, Least
<1>4. PICK y \in U : y.id = w
  OBVIOUS
<1>5. CASE y.supersedes \notin Ids(E)
  BY <1>1, <1>5, RootIs
<1>6. CASE y.supersedes \in Ids(E)
  <2> DEFINE p == ById(E, y.supersedes)
  <2>1. p \in Changed(E, T)
    BY <1>6, ChangedBelow
  <2>2. p.id < y.id /\ p.id \in Nat /\ y.id \in Nat
    BY <1>1, <1>6, Named DEF Shaped
  <2>3. RootId(E, y) = RootId(E, p)
    BY <1>1, <1>6, RootIs
  <2> HIDE DEF p
  <2>4. p \in U
    BY <2>1, <2>3
  <2>5. p.id \in W
    BY <2>4
  <2> HIDE DEF W, U
  <2> QED BY <1>3, <1>4, <2>2, <2>5
<1> QED BY <1>5, <1>6

-----------------------------------------------------------------------------
(* The fold: the last entry of a set exists, and the records of the set are *)
(* those of the rest with the last folded in.                              *)

Place(E, e) == <<e.at, RootId(E, e), -e.id>>
Before(E, x, y) == Precedes(Place(E, x), Place(E, y))

LEMMA PrecedesIs ==
    ASSUME NEW a1 \in Int, NEW a2 \in Int, NEW a3 \in Int,
           NEW b1 \in Int, NEW b2 \in Int, NEW b3 \in Int
    PROVE  Precedes(<<a1, a2, a3>>, <<b1, b2, b3>>) <=>
              a1 < b1 \/ (a1 = b1 /\ a2 < b2) \/ (a1 = b1 /\ a2 = b2 /\ a3 < b3)
<1> DEFINE p == <<a1, a2, a3>>
<1> DEFINE q == <<b1, b2, b3>>
<1> DEFINE At(i) == p[i] < q[i] /\ \A j \in 1..(i - 1) : p[j] = q[j]
<1>1. Precedes(p, q) <=> \E i \in DOMAIN p : At(i)
  BY DEF Precedes
<1>2. DOMAIN p = {1, 2, 3}
  OBVIOUS
<1>3. At(1) <=> a1 < b1
  OBVIOUS
<1>4. At(2) <=> a1 = b1 /\ a2 < b2
  <2>1. 1..(2 - 1) = {1}
    OBVIOUS
  <2> QED BY <2>1
<1>5. At(3) <=> a1 = b1 /\ a2 = b2 /\ a3 < b3
  <2>1. 1..(3 - 1) = {1, 2}
    OBVIOUS
  <2> QED BY <2>1
<1> HIDE DEF At
<1> QED BY <1>1, <1>2, <1>3, <1>4, <1>5

\* The order of the fold is total.
LEMMA BeforeTotal ==
    ASSUME NEW n \in Nat, NEW E, Shaped(E, n)
    PROVE  /\ \A x, y \in E : x # y => Before(E, x, y) \/ Before(E, y, x)
           /\ \A x, y \in E : ~(Before(E, x, y) /\ Before(E, y, x))
           /\ \A x, y, z \in E : Before(E, x, y) /\ Before(E, y, z) => Before(E, x, z)
<1>1. ASSUME NEW x \in E
      PROVE  x.at \in Int /\ RootId(E, x) \in Int /\ x.id \in Int /\ -x.id \in Int
  BY RootIs DEF Shaped
<1>2. ASSUME NEW x \in E, NEW y \in E
      PROVE  Before(E, x, y) <=>
                \/ x.at < y.at
                \/ x.at = y.at /\ RootId(E, x) < RootId(E, y)
                \/ x.at = y.at /\ RootId(E, x) = RootId(E, y) /\ -x.id < -y.id
  <2>1. PICK a \in Int : a = -x.id
    BY <1>1
  <2>2. PICK b \in Int : b = -y.id
    BY <1>1
  <2>3. PICK r \in Int : r = RootId(E, x)
    BY <1>1
  <2>4. PICK s \in Int : s = RootId(E, y)
    BY <1>1
  <2>5. PICK c \in Int : c = x.at
    BY <1>1
  <2>6. PICK d \in Int : d = y.at
    BY <1>1
  <2>7. Precedes(<<c, r, a>>, <<d, s, b>>)
            <=> c < d \/ (c = d /\ r < s) \/ (c = d /\ r = s /\ a < b)
    BY PrecedesIs
  <2> QED BY <2>1, <2>2, <2>3, <2>4, <2>5, <2>6, <2>7 DEF Before, Place
<1>3. ASSUME NEW x \in E, NEW y \in E, x # y PROVE Before(E, x, y) \/ Before(E, y, x)
  <2>1. x.id # y.id
    BY <1>3 DEF Shaped
  <2> QED BY <1>1, <1>2, <2>1
<1>4. ASSUME NEW x \in E, NEW y \in E PROVE ~(Before(E, x, y) /\ Before(E, y, x))
  BY <1>1, <1>2
<1>5. ASSUME NEW x \in E, NEW y \in E, NEW z \in E, Before(E, x, y), Before(E, y, z)
      PROVE  Before(E, x, z)
  BY <1>1, <1>2, <1>5
<1> QED BY <1>3, <1>4, <1>5

IsLast(E, S, e) == e \in S /\ \A x \in S \ {e} : Before(E, x, e)

LEMMA LastExists ==
    ASSUME NEW n \in Nat, NEW E, Shaped(E, n), NEW S \in SUBSET E, S # {}
    PROVE  \E e \in S : IsLast(E, S, e)
<1> DEFINE Has(R) == \E e \in R : IsLast(E, R, e)
<1> DEFINE U == {R \in SUBSET E : R # {} /\ ~Has(R)}
<1> DEFINE W == {Cardinality(R) : R \in U}
<1> SUFFICES ASSUME U # {} PROVE FALSE
  OBVIOUS
<1>1. \A R \in SUBSET E : IsFiniteSet(R) /\ Cardinality(R) \in Nat
  BY FS_Subset, FS_CardinalityType DEF Shaped
<1>2. W \in SUBSET Nat /\ W # {}
  BY <1>1
<1>3. PICK w \in W : \A v \in W : w <= v
  <2> HIDE DEF W
  <2> QED BY <1>2, Least
<1>4. PICK R \in U : Cardinality(R) = w
  OBVIOUS
<1>5. PICK x \in R : TRUE
  OBVIOUS
<1> DEFINE Q == R \ {x}
<1>6. Q \in SUBSET E /\ Cardinality(Q) = w - 1 /\ w \in Nat /\ R = Q \cup {x}
  BY <1>1, <1>4, <1>5, FS_RemoveElement
<1>7. Q # {}
  <2> SUFFICES ASSUME Q = {} PROVE FALSE
    OBVIOUS
  <2>1. IsLast(E, R, x)
    BY DEF IsLast
  <2> QED BY <1>4, <2>1
<1>8. Has(Q)
  <2> SUFFICES ASSUME Q \in U PROVE FALSE
    BY <1>6, <1>7
  <2>1. w - 1 \in W
    BY <1>6
  <2> HIDE DEF W
  <2> QED BY <1>3, <1>6, <2>1
<1> HIDE DEF Q
<1>9. PICK y \in Q : IsLast(E, Q, y)
  BY <1>8
<1>10. x \in E /\ y \in E /\ Q \subseteq E
  BY <1>6
<1>11. CASE Before(E, x, y)
  <2>1. IsLast(E, R, y)
    BY <1>6, <1>9, <1>11 DEF IsLast
  <2> QED BY <1>4, <1>6, <2>1
<1>12. CASE ~Before(E, x, y)
  <2>1. \A z \in R \ {x} : Before(E, z, x)
    <3> SUFFICES ASSUME NEW z \in R \ {x} PROVE Before(E, z, x)
      OBVIOUS
    <3>1. CASE z = y
      BY <1>10, <1>12, <3>1, BeforeTotal
    <3>2. CASE z # y
      <4>1. z \in Q /\ z \in E /\ Before(E, z, y)
        BY <1>6, <1>9, <3>2 DEF IsLast
      <4>2. Before(E, y, x)
        <5>1. x # y
          BY <1>9, <1>6 DEF Q
        <5> QED BY <1>10, <1>12, <5>1, BeforeTotal
      <4> QED BY <1>10, <4>1, <4>2, BeforeTotal
    <3> QED BY <3>1, <3>2
  <2>2. IsLast(E, R, x)
    BY <2>1 DEF IsLast
  <2> QED BY <1>4, <2>2
<1> QED BY <1>11, <1>12

LEMMA LastIs ==
    ASSUME NEW n \in Nat, NEW E, Shaped(E, n), NEW S \in SUBSET E, S # {}
    PROVE  /\ LastInFold(E, S) \in S
           /\ \A e \in S : IsLast(E, S, e) <=> e = LastInFold(E, S)
<1> DEFINE Is(e) == \A x \in S \ {e} : Before(E, x, e)
<1>1. LastInFold(E, S) = CHOOSE e \in S : Is(e)
  BY DEF LastInFold, Before, Place
<1>2. \E e \in S : Is(e)
  BY LastExists DEF IsLast
<1>3. LastInFold(E, S) \in S /\ Is(LastInFold(E, S))
  BY <1>1, <1>2
<1>4. ASSUME NEW e \in S, Is(e) PROVE e = LastInFold(E, S)
  <2> SUFFICES ASSUME e # LastInFold(E, S) PROVE FALSE
    OBVIOUS
  <2>1. Before(E, LastInFold(E, S), e) /\ Before(E, e, LastInFold(E, S))
    BY <1>3, <1>4
  <2> QED BY <1>3, <2>1, BeforeTotal
<1> QED BY <1>3, <1>4 DEF IsLast

LEMMA FoldExists ==
    ASSUME NEW n \in Nat, NEW E, Shaped(E, n), NEW S \in SUBSET E
    PROVE  \E f : f = [s \in SUBSET S |->
               IF s = {} THEN NoRecords
               ELSE Folded(f[s \ {LastInFold(E, s)}], LastInFold(E, s))]
<1> DEFINE D == SUBSET S
<1> DEFINE Less(s) == s \ {LastInFold(E, s)}
<1> DEFINE Body(s, f) == IF s = {} THEN NoRecords ELSE Folded(f[Less(s)], LastInFold(E, s))
<1> DEFINE Settled(k, f) == \A s \in D : Cardinality(s) < k => f[s] = Body(s, f)
<1> DEFINE T == {k \in Nat : \E f : Settled(k, f)}
<1>1. ASSUME NEW s \in D
      PROVE  /\ Cardinality(s) \in Nat
             /\ s # {} => Less(s) \in D /\ Cardinality(Less(s)) = Cardinality(s) - 1
  <2>1. IsFiniteSet(S) /\ s \in SUBSET E
    BY FS_Subset DEF Shaped
  <2>2. IsFiniteSet(s) /\ Cardinality(s) \in Nat
    BY <2>1, FS_Subset, FS_CardinalityType
  <2>3. s # {} => LastInFold(E, s) \in s
    BY <2>1, LastIs
  <2>4. ASSUME s # {} PROVE Less(s) \in D /\ Cardinality(Less(s)) = Cardinality(s) - 1
    <3>1. PICK l \in s : l = LastInFold(E, s)
      BY <2>3, <2>4
    <3>2. Cardinality(s \ {l}) = Cardinality(s) - 1
      BY <2>2, FS_RemoveElement
    <3> QED BY <3>1, <3>2
  <2> QED BY <2>2, <2>4
<1> HIDE DEF Less
<1>2. 0 \in T
  <2>1. Settled(0, [s \in D |-> NoRecords])
    BY <1>1
  <2> HIDE DEF Settled
  <2> QED BY <2>1
<1>3. ASSUME NEW k \in Nat, k \in T PROVE k + 1 \in T
  <2>1. PICK f : Settled(k, f)
    BY <1>3
  <2> DEFINE g == [s \in D |-> Body(s, f)]
  <2>2. \A s \in D : Cardinality(s) < k => g[s] = f[s]
    BY <2>1
  <2>3. ASSUME NEW s \in D, Cardinality(s) < k + 1 PROVE g[s] = Body(s, g)
    <3>1. g[s] = Body(s, f)
      OBVIOUS
    <3>2. s # {} => g[Less(s)] = f[Less(s)]
      <4> HIDE DEF g, Body
      <4> QED BY <1>1, <2>2, <2>3
    <3> HIDE DEF g
    <3> QED BY <3>1, <3>2
  <2>4. Settled(k + 1, g)
    <3> HIDE DEF g, Body
    <3> QED BY <2>3
  <2> HIDE DEF g, Settled
  <2> QED BY <2>4
<1>4. Cardinality(S) \in Nat /\ Cardinality(S) + 1 \in T
  <2>1. Cardinality(S) \in Nat
    BY <1>1
  <2> HIDE DEF T
  <2> QED BY <1>2, <1>3, <2>1, Reaches
<1>5. PICK f : Settled(Cardinality(S) + 1, f)
  BY <1>4
<1>6. \A s \in D : Cardinality(s) <= Cardinality(S)
  BY FS_Subset DEF Shaped
<1>7. \A s \in D : f[s] = Body(s, f)
  <2> HIDE DEF Body
  <2> QED BY <1>1, <1>4, <1>5, <1>6
<1> DEFINE h == [s \in D |-> f[s]]
<1>8. ASSUME NEW s \in D PROVE h[s] = Body(s, h)
  <2>1. h[s] = f[s] /\ f[s] = Body(s, f)
    <3> HIDE DEF Body
    <3> QED BY <1>7
  <2>2. s # {} => h[Less(s)] = f[Less(s)]
    BY <1>1
  <2> HIDE DEF h
  <2> QED BY <2>1, <2>2
<1>9. h = [s \in D |-> Body(s, h)]
  <2>1. h = [s \in D |-> h[s]]
    OBVIOUS
  <2> HIDE DEF h, Body
  <2> QED BY <2>1, <1>8
<1> QED BY <1>9 DEF Less

\* The records of some entries, as the model's fold makes them.
FoldIs(E, S, f) ==
    /\ Fold(E, S) = f[S]
    /\ \A s \in SUBSET S :
          f[s] = IF s = {} THEN NoRecords
                 ELSE Folded(f[s \ {LastInFold(E, s)}], LastInFold(E, s))

LEMMA FoldIsSome ==
    ASSUME NEW n \in Nat, NEW E, Shaped(E, n), NEW S \in SUBSET E
    PROVE  \E f : FoldIs(E, S, f)
<1> DEFINE Body(s, f) == IF s = {} THEN NoRecords
                         ELSE Folded(f[s \ {LastInFold(E, s)}], LastInFold(E, s))
<1> DEFINE iter == CHOOSE f : f = [s \in SUBSET S |-> Body(s, f)]
<1>1. Fold(E, S) = iter[S]
  BY DEF Fold, MapThenFoldSet
<1>2. iter = [s \in SUBSET S |-> Body(s, iter)]
  <2>1. \E f : f = [s \in SUBSET S |-> Body(s, f)]
    BY FoldExists
  <2> HIDE DEF Body
  <2> QED BY <2>1, Zenon
<1> HIDE DEF iter
<1>3. \A s \in SUBSET S : iter[s] = Body(s, iter)
  <2> HIDE DEF Body
  <2> QED BY <1>2
<1> QED BY <1>1, <1>3 DEF FoldIs

\* Where entries have the same roots, the same is last,
LEMMA LastSame ==
    ASSUME NEW E, NEW T, NEW S, \A x \in S : RootId(E, x) = RootId(T, x)
    PROVE  LastInFold(E, S) = LastInFold(T, S)
<1> DEFINE place(L) == [e \in S |-> <<e.at, RootId(L, e), -e.id>>]
<1> DEFINE Choice(p) == CHOOSE e \in S : \A x \in S \ {e} : Precedes(p[x], p[e])
<1>1. place(E) = place(T)
  OBVIOUS
<1>2. LastInFold(E, S) = Choice(place(E)) /\ LastInFold(T, S) = Choice(place(T))
  BY DEF LastInFold
<1> HIDE DEF place, Choice
<1> QED BY <1>1, <1>2

\* and they fold to the same records.
LEMMA FoldAgree ==
    ASSUME NEW n \in Nat, NEW E, Shaped(E, n), NEW T,
           NEW S \in SUBSET E, NEW Q, NEW f, NEW g, FoldIs(E, S, f), FoldIs(T, Q, g),
           NEW R, R \subseteq S, R \subseteq Q, \A x \in R : RootId(E, x) = RootId(T, x)
    PROVE  f[R] = g[R]
<1> DEFINE U == {s \in SUBSET R : f[s] # g[s]}
<1> DEFINE W == {Cardinality(s) : s \in U}
<1> SUFFICES ASSUME U # {} PROVE FALSE
  OBVIOUS
<1>1. \A s \in SUBSET R : s \in SUBSET E /\ IsFiniteSet(s) /\ Cardinality(s) \in Nat
  BY FS_Subset, FS_CardinalityType DEF Shaped
<1>2. W \in SUBSET Nat /\ W # {}
  BY <1>1
<1>3. PICK w \in W : \A v \in W : w <= v
  <2> HIDE DEF W
  <2> QED BY <1>2, Least
<1>4. PICK s \in U : Cardinality(s) = w
  OBVIOUS
<1>5. s \in SUBSET S /\ s \in SUBSET Q /\ s \in SUBSET R /\ f[s] # g[s]
  OBVIOUS
<1>6. CASE s = {}
  BY <1>5, <1>6 DEF FoldIs
<1>7. CASE s # {}
  <2> DEFINE l == LastInFold(E, s)
  <2>1. l \in s
    BY <1>1, <1>5, <1>7, LastIs
  <2>2. LastInFold(T, s) = l
    BY <1>5, LastSame
  <2>3. Cardinality(s \ {l}) = Cardinality(s) - 1
    BY <1>1, <1>5, <2>1, FS_RemoveElement
  <2> HIDE DEF l
  <2>4. f[s \ {l}] = g[s \ {l}]
    <3> SUFFICES ASSUME s \ {l} \in U PROVE FALSE
      BY <1>5
    <3>1. Cardinality(s \ {l}) \in W
      OBVIOUS
    <3>2. Cardinality(s) \in Nat
      BY <1>1, <1>5
    <3> HIDE DEF W, U
    <3> QED BY <1>3, <1>4, <2>3, <3>1, <3>2
  <2>5. f[s] = Folded(f[s \ {l}], l) /\ g[s] = Folded(g[s \ {l}], l)
    BY <1>5, <1>7, <2>2 DEF FoldIs, l
  <2> QED BY <1>5, <2>4, <2>5
<1> QED BY <1>6, <1>7

LEMMA FoldSame ==
    ASSUME NEW n \in Nat, NEW E, Shaped(E, n), NEW m \in Nat, NEW T, Shaped(T, m),
           NEW S, S \subseteq E, S \subseteq T, \A x \in S : RootId(E, x) = RootId(T, x)
    PROVE  Fold(E, S) = Fold(T, S)
<1>1. PICK f : FoldIs(E, S, f)
  BY FoldIsSome
<1>2. PICK g : FoldIs(T, S, g)
  BY FoldIsSome
<1>3. f[S] = g[S]
  <2>1. S \in SUBSET E /\ S \subseteq S
    OBVIOUS
  <2> QED BY <1>1, <1>2, <2>1, FoldAgree
<1> QED BY <1>1, <1>2, <1>3 DEF FoldIs

\* The records are those of all but the last, with the last folded in.
LEMMA FoldStep ==
    ASSUME NEW n \in Nat, NEW E, Shaped(E, n), NEW S \in SUBSET E
    PROVE  /\ S = {} => Fold(E, S) = NoRecords
           /\ S # {} => LET last == LastInFold(E, S)
                        IN  last \in S /\ Fold(E, S) = Folded(Fold(E, S \ {last}), last)
<1>1. PICK f : FoldIs(E, S, f)
  BY FoldIsSome
<1>2. CASE S = {}
  BY <1>1, <1>2 DEF FoldIs
<1>3. CASE S # {}
  <2> DEFINE l == LastInFold(E, S)
  <2>1. l \in S
    BY <1>3, LastIs
  <2> HIDE DEF l
  <2> DEFINE R == S \ {l}
  <2>2. PICK g : FoldIs(E, R, g)
    BY FoldIsSome
  <2>3. f[R] = g[R]
    <3>1. R \subseteq S /\ R \subseteq R
      OBVIOUS
    <3> HIDE DEF R
    <3> QED BY <1>1, <2>2, <3>1, FoldAgree
  <2>4. Fold(E, S) = Folded(f[R], l)
    BY <1>1, <1>3 DEF FoldIs, l
  <2>5. Fold(E, R) = g[R]
    BY <2>2 DEF FoldIs
  <2>6. Fold(E, S) = Folded(Fold(E, R), l)
    BY <2>3, <2>4, <2>5
  <2> QED BY <1>3, <2>1, <2>6 DEF l
<1> QED BY <1>2, <1>3

-----------------------------------------------------------------------------
\* What a fold once recorded it keeps: a part registered, a work order opened.
IsAircraft(a) ==
    a = [before |-> a.before, inspections |-> a.inspections, orders |-> a.orders]
AreRecords(r) ==
    /\ r = [aircraft |-> r.aircraft, parts |-> r.parts]
    /\ \A k \in DOMAIN r.aircraft : IsAircraft(r.aircraft[k])

Shows(r, x) ==
    /\ x.kind = "component.register" => x.subject \in DOMAIN r.parts
    /\ x.kind = "work_order.open" =>
          /\ x.subject \in DOMAIN r.aircraft
          /\ x.details.work \in DOMAIN r.aircraft[x.subject].orders

LEMMA WithKeyIs ==
    ASSUME NEW f, NEW k, NEW v
    PROVE  /\ DOMAIN WithKey(f, k, v) = DOMAIN f \cup {k}
           /\ WithKey(f, k, v)[k] = v
           /\ \A x \in DOMAIN f : x # k => WithKey(f, k, v)[x] = f[x]
BY DEF WithKey

LEMMA FoldAircraftKeeps ==
    ASSUME NEW a, IsAircraft(a), NEW e
    PROVE  LET b == FoldAircraft(a, e)
           IN  /\ IsAircraft(b)
               /\ DOMAIN a.orders \subseteq DOMAIN b.orders
               /\ e.kind = "work_order.open" => e.details.work \in DOMAIN b.orders
<1> DEFINE b == FoldAircraft(a, e)
<1> DEFINE d == e.details
<1> DEFINE known == "work" \in DOMAIN d /\ d.work \in DOMAIN a.orders
<1>1. PICK p, q, o : a = [before |-> p, inspections |-> q, orders |-> o]
  BY DEF IsAircraft
<1>2. a.before = p /\ a.inspections = q /\ a.orders = o
  BY <1>1
<1> DEFINE Row(x, y, z) == [before |-> x, inspections |-> y, orders |-> z]
<1> DEFINE Goal == /\ IsAircraft(b) /\ DOMAIN o \subseteq DOMAIN b.orders
                   /\ e.kind = "work_order.open" => d.work \in DOMAIN b.orders
<1>3. ASSUME NEW x, NEW y, NEW z, b = Row(x, y, z), DOMAIN o \subseteq DOMAIN z,
             e.kind = "work_order.open" => d.work \in DOMAIN z
      PROVE  Goal
  BY <1>3 DEF IsAircraft
<1>4. CASE e.kind = "time_in_service.set"
  <2>1. b = Row(d.before, q, o)
    BY <1>1, <1>4 DEF FoldAircraft
  <2> HIDE DEF Goal, b, Row
  <2>2. Goal
    BY <1>3, <1>4, <2>1
  <2> QED BY <1>2, <2>2 DEF Goal, b
<1>5. CASE e.kind = "inspection.done"
  <2>1. \E y : b = Row(p, y, o)
    BY <1>1, <1>5 DEF FoldAircraft
  <2> HIDE DEF Goal, b, Row
  <2>2. Goal
    BY <1>3, <1>5, <2>1
  <2> QED BY <1>2, <2>2 DEF Goal, b
<1>6. CASE e.kind = "work_order.open"
  <2> DEFINE v == [opened |-> e.at, state |-> d.state, closed |-> None]
  <2>1. b = Row(p, q, WithKey(o, d.work, v))
    BY <1>1, <1>6 DEF FoldAircraft
  <2>2. DOMAIN WithKey(o, d.work, v) = DOMAIN o \cup {d.work}
    BY DEF WithKey
  <2> HIDE DEF Goal, b, Row, v
  <2>3. Goal
    BY <1>3, <2>1, <2>2
  <2> QED BY <1>2, <2>3 DEF Goal, b
<1>7. CASE e.kind = "work_order.state" /\ known
  <2>1. b = Row(p, q, [o EXCEPT ![d.work].state = d.state])
    BY <1>1, <1>7 DEF FoldAircraft
  <2>2. DOMAIN [o EXCEPT ![d.work].state = d.state] = DOMAIN o
    OBVIOUS
  <2> HIDE DEF Goal, b, Row
  <2>3. Goal
    BY <1>3, <1>7, <2>1, <2>2
  <2> QED BY <1>2, <2>3 DEF Goal, b
<1>8. CASE e.kind = "work_order.close" /\ known
  <2>1. b = Row(p, q, [o EXCEPT ![d.work].closed = e.at])
    BY <1>1, <1>8 DEF FoldAircraft
  <2>2. DOMAIN [o EXCEPT ![d.work].closed = e.at] = DOMAIN o
    OBVIOUS
  <2> HIDE DEF Goal, b, Row
  <2>3. Goal
    BY <1>3, <1>8, <2>1, <2>2
  <2> QED BY <1>2, <2>3 DEF Goal, b
<1>9. CASE /\ e.kind \notin {"time_in_service.set", "inspection.done", "work_order.open"}
           /\ ~(e.kind = "work_order.state" /\ known) /\ ~(e.kind = "work_order.close" /\ known)
  <2>1. b = a
    BY <1>9 DEF FoldAircraft
  <2> QED BY <1>9, <2>1
<1> QED BY <1>4, <1>5, <1>6, <1>7, <1>8, <1>9

LEMMA FoldPartKeeps ==
    ASSUME NEW parts, NEW e
    PROVE  /\ DOMAIN parts \subseteq DOMAIN FoldPart(parts, e)
           /\ e.kind = "component.register" => e.subject \in DOMAIN FoldPart(parts, e)
<1>1. CASE e.kind = "component.register"
  <2> DEFINE v == [kind |-> e.details.kind, since |-> e.details.since,
                   hours |-> e.details.hours, cycles |-> e.details.cycles,
                   windows |-> <<>>, registered |-> e.at]
  <2>1. FoldPart(parts, e) = WithKey(parts, e.subject, v)
    BY <1>1 DEF FoldPart
  <2>2. DOMAIN WithKey(parts, e.subject, v) = DOMAIN parts \cup {e.subject}
    BY DEF WithKey
  <2> QED BY <2>1, <2>2
<1>2. CASE /\ e.kind # "component.register"
           /\ \/ e.kind \notin {"component.install", "component.remove"}
              \/ e.subject \notin DOMAIN parts
  BY <1>2 DEF FoldPart
<1>3. CASE e.kind = "component.install" /\ e.subject \in DOMAIN parts
  <2>1. DOMAIN FoldPart(parts, e) = DOMAIN parts
    BY <1>3 DEF FoldPart
  <2> QED BY <1>3, <2>1
<1>4. CASE e.kind = "component.remove" /\ e.subject \in DOMAIN parts
  <2>1. DOMAIN FoldPart(parts, e) = DOMAIN parts
    BY <1>4 DEF FoldPart
  <2> QED BY <1>4, <2>1
<1> QED BY <1>1, <1>2, <1>3, <1>4

LEMMA FoldedKeeps ==
    ASSUME NEW r, AreRecords(r), NEW e
    PROVE  /\ AreRecords(Folded(r, e))
           /\ Shows(Folded(r, e), e)
           /\ \A x : Shows(r, x) => Shows(Folded(r, e), x)
<1> DEFINE Pair(x, y) == [aircraft |-> x, parts |-> y]
<1>1. PICK a, p : r = Pair(a, p)
  BY DEF AreRecords
<1>2. r.aircraft = a /\ r.parts = p /\ \A k \in DOMAIN a : IsAircraft(a[k])
  BY <1>1 DEF AreRecords
<1>3. CASE e.kind \in AircraftKinds
  <2> DEFINE old == IF e.subject \in DOMAIN a THEN a[e.subject] ELSE NoAircraft
  <2>1. PICK new : new = FoldAircraft(old, e)
    OBVIOUS
  <2>2. IsAircraft(NoAircraft)
    BY DEF IsAircraft, NoAircraft
  <2>3. IsAircraft(old)
    BY <1>2, <2>2
  <2>4. /\ IsAircraft(new) /\ DOMAIN old.orders \subseteq DOMAIN new.orders
        /\ e.kind = "work_order.open" => e.details.work \in DOMAIN new.orders
    <3> HIDE DEF old
    <3> QED BY <2>1, <2>3, FoldAircraftKeeps
  <2>5. PICK b : b = WithKey(a, e.subject, new)
    OBVIOUS
  <2>6. Folded(r, e) = Pair(b, p)
    <3> DEFINE was == IF e.subject \in DOMAIN r.aircraft THEN r.aircraft[e.subject]
                      ELSE NoAircraft
    <3>1. Folded(r, e) = [r EXCEPT !.aircraft =
                              WithKey(r.aircraft, e.subject, FoldAircraft(was, e))]
      <4>1. e.kind \notin ComponentKinds
        BY <1>3 DEF AircraftKinds, ComponentKinds
      <4> QED BY <1>3, <4>1 DEF Folded
    <3>2. was = old
      BY <1>2
    <3>3. WithKey(r.aircraft, e.subject, FoldAircraft(was, e)) = b
      <4> HIDE DEF was, old
      <4> QED BY <1>2, <2>1, <2>5, <3>2
    <3> HIDE DEF was, old
    <3>4. Folded(r, e) = [r EXCEPT !.aircraft = b]
      BY <3>1, <3>3, Zenon
    <3> QED BY <1>1, <3>4
  <2>7. /\ DOMAIN b = DOMAIN a \cup {e.subject} /\ b[e.subject] = new
        /\ \A x \in DOMAIN a : x # e.subject => b[x] = a[x]
    BY <2>5 DEF WithKey
  <2>8. Folded(r, e).aircraft = b /\ Folded(r, e).parts = p
    BY <2>6
  <2>9. AreRecords(Folded(r, e))
    <3>1. \A k \in DOMAIN b : IsAircraft(b[k])
      BY <1>2, <2>4, <2>7
    <3>2. Folded(r, e) = [aircraft |-> Folded(r, e).aircraft, parts |-> Folded(r, e).parts]
      BY <2>6, <2>8
    <3> QED BY <2>8, <3>1, <3>2 DEF AreRecords
  <2>10. Shows(Folded(r, e), e)
    BY <1>3, <2>4, <2>7, <2>8 DEF Shows, AircraftKinds
  <2>11. ASSUME NEW x, Shows(r, x) PROVE Shows(Folded(r, e), x)
    <3>1. \A k \in DOMAIN a : DOMAIN a[k].orders \subseteq DOMAIN b[k].orders
      BY <2>4, <2>7
    <3> QED BY <1>2, <2>7, <2>8, <2>11, <3>1 DEF Shows
  <2> QED BY <2>9, <2>10, <2>11
<1>4. CASE e.kind \notin AircraftKinds /\ e.kind \in ComponentKinds
  <2>1. PICK q : q = FoldPart(p, e)
    OBVIOUS
  <2>2. DOMAIN p \subseteq DOMAIN q /\ (e.kind = "component.register" => e.subject \in DOMAIN q)
    BY <2>1, FoldPartKeeps
  <2>3. Folded(r, e) = Pair(a, q)
    BY <1>1, <1>4, <2>1 DEF Folded
  <2>4. Folded(r, e).aircraft = a /\ Folded(r, e).parts = q
    BY <2>3
  <2>5. AreRecords(Folded(r, e))
    BY <1>2, <2>3, <2>4 DEF AreRecords
  <2>6. Shows(Folded(r, e), e)
    BY <1>4, <2>2, <2>4 DEF Shows, AircraftKinds
  <2>7. ASSUME NEW x, Shows(r, x) PROVE Shows(Folded(r, e), x)
    BY <1>2, <2>2, <2>4, <2>7 DEF Shows
  <2> QED BY <2>5, <2>6, <2>7
<1>5. CASE e.kind \notin AircraftKinds /\ e.kind \notin ComponentKinds
  <2>1. Folded(r, e) = r
    BY <1>5 DEF Folded
  <2>2. Shows(r, e)
    BY <1>5 DEF Shows, AircraftKinds, ComponentKinds
  <2> QED BY <2>1, <2>2
<1> QED BY <1>3, <1>4, <1>5

\* The records of some entries show each of them.
LEMMA FoldShows ==
    ASSUME NEW n \in Nat, NEW E, Shaped(E, n), NEW S \in SUBSET E
    PROVE  AreRecords(Fold(E, S)) /\ \A x \in S : Shows(Fold(E, S), x)
<1> DEFINE Good(s) == AreRecords(Fold(E, s)) /\ \A x \in s : Shows(Fold(E, s), x)
<1> DEFINE U == {s \in SUBSET S : ~Good(s)}
<1> DEFINE W == {Cardinality(s) : s \in U}
<1> SUFFICES ASSUME U # {} PROVE FALSE
  OBVIOUS
<1>1. \A s \in SUBSET S : s \in SUBSET E /\ IsFiniteSet(s) /\ Cardinality(s) \in Nat
  BY FS_Subset, FS_CardinalityType DEF Shaped
<1>2. W \in SUBSET Nat /\ W # {}
  BY <1>1
<1>3. PICK w \in W : \A v \in W : w <= v
  <2> HIDE DEF W
  <2> QED BY <1>2, Least
<1>4. PICK s \in U : Cardinality(s) = w
  OBVIOUS
<1>5. s \in SUBSET E /\ s \in SUBSET S
  BY <1>1
<1>6. CASE s = {}
  <2>1. AreRecords(NoRecords)
    BY DEF AreRecords, NoRecords
  <2>2. Fold(E, s) = NoRecords
    BY <1>5, <1>6, FoldStep
  <2>3. Good(s)
    BY <1>6, <2>1, <2>2
  <2> QED BY <2>3
<1>7. CASE s # {}
  <2> DEFINE l == LastInFold(E, s)
  <2> DEFINE rest == s \ {l}
  <2>1. l \in s /\ Fold(E, s) = Folded(Fold(E, rest), l)
    BY <1>5, <1>7, FoldStep
  <2> HIDE DEF l
  <2>2. rest \in SUBSET S /\ Cardinality(rest) = Cardinality(s) - 1 /\ Cardinality(s) \in Nat
    BY <1>1, <1>5, <2>1, FS_RemoveElement
  <2>3. Good(rest)
    <3> SUFFICES ASSUME rest \in U PROVE FALSE
      BY <2>2
    <3>1. Cardinality(rest) \in W
      OBVIOUS
    <3> HIDE DEF W, U, rest
    <3> QED BY <1>3, <1>4, <2>2, <3>1
  <2>4. PICK r : r = Fold(E, rest)
    OBVIOUS
  <2>5. AreRecords(r) /\ \A x \in rest : Shows(r, x)
    BY <2>3, <2>4
  <2>6. AreRecords(Folded(r, l)) /\ Shows(Folded(r, l), l)
        /\ \A x : Shows(r, x) => Shows(Folded(r, l), x)
    BY <2>5, FoldedKeeps
  <2>7. Good(s)
    BY <2>1, <2>4, <2>5, <2>6
  <2> QED BY <2>7
<1> QED BY <1>6, <1>7

-----------------------------------------------------------------------------
(* The ledger's invariant.                                                 *)

\* A correction keeps the subject of what it corrects, and unless it retracts, its date.
Linked(E) ==
    \A x \in E : x.supersedes # 0 =>
        /\ x.supersedes \in Ids(E)
        /\ ById(E, x.supersedes).subject = x.subject
        /\ x.kind # "retraction" => ById(E, x.supersedes).at = x.at

\* A chain of corrections without a retraction has two entries at most: what is corrected a
\* second time brings back what the first correction ended, at the same place.
Short(E) ==
    \A x \in E : /\ x.kind # "retraction" /\ ~OverRetraction(E, x)
                 /\ x.supersedes # 0
                 => ById(E, x.supersedes).supersedes = 0

\* Two registrations of a part, or two openings of a work order.
Clash(x, y) ==
    /\ x.subject = y.subject /\ x.kind = y.kind
    /\ \/ x.kind = "component.register"
       \/ x.kind = "work_order.open" /\ x.details.work = y.details.work

NoClash(E) == \A x, y \in Live(E) : x # y => ~Clash(x, y)

\* Two at one place in the fold were both written over retractions.
AtOnePlace(E, x, y) ==
    /\ x # y /\ x.kind # "retraction" /\ y.kind # "retraction"
    /\ x.subject = y.subject /\ FoldKey(E, x) = FoldKey(E, y)

NoTwinsBut(E) == \A x, y \in Live(E) : AtOnePlace(E, x, y) => OverRetraction(E, x)

LedgerHolds(E) ==
    /\ Shaped(E, Cardinality(E))
    /\ Linked(E) /\ Short(E)
    /\ Single(E) /\ NoClash(E) /\ NoTwinsBut(E)
\* e is an entry that the checks pass, written next.
Writes(E, logs, T, e) ==
    /\ T = E \cup {e}
    /\ e.id = Cardinality(E) + 1 /\ e.at \in Nat
    /\ Acceptable(E, logs, e)

LEMMA Taken ==
    ASSUME NEW E, LedgerHolds(E), NEW logs, NEW T, NEW e, Writes(E, logs, T, e)
    PROVE  /\ Cardinality(E) \in Nat /\ Takes(E, Cardinality(E), T, e)
           /\ Linked(T) /\ Alone(E, T)
           /\ \A x \in Live(T) : x \in E \ Live(E) => OnlyOne(T, x)
<1> DEFINE n == Cardinality(E)
<1>1. n \in Nat /\ Shaped(E, n) /\ Linked(E) /\ IsFiniteSet(E)
  BY FS_CardinalityType DEF LedgerHolds, Shaped
<1>2. CorrectionHolds(E, e)
  BY DEF Writes, Acceptable
<1>3. ASSUME e.supersedes # 0
      PROVE  /\ e.supersedes \in Ids(E) /\ ~Superseded(E, e.supersedes)
             /\ ById(E, e.supersedes).subject = e.subject
             /\ e.kind # "retraction" => ById(E, e.supersedes).at = e.at
  <2>1. e.supersedes \in Ids(E)
    BY <1>2, <1>3 DEF CorrectionHolds
  <2>2. ById(E, e.supersedes).id = e.supersedes
    BY <1>1, <2>1, Named
  <2> QED BY <1>2, <1>3, <2>1, <2>2 DEF CorrectionHolds
<1> HIDE DEF n
<1>4. Takes(E, n, T, e)
  BY <1>1, <1>3 DEF Takes, Grows, Writes, n
<1>5. /\ n + 1 \in Nat /\ Shaped(T, n + 1) /\ e \notin E /\ T = E \cup {e}
      /\ Ids(T) = Ids(E) \cup {e.id} /\ \A i \in Ids(E) : ById(T, i) = ById(E, i)
  <2>1. Grows(E, n, T, e)
    BY <1>4 DEF Takes
  <2>2. T = E \cup {e}
    BY <2>1 DEF Grows
  <2>3. n + 1 \in Nat /\ Shaped(T, n + 1) /\ e \notin E
    BY <2>1, Grown
  <2>4. Ids(T) = Ids(E) \cup {e.id}
    BY <2>1, Grown
  <2>5. \A i \in Ids(E) : ById(T, i) = ById(E, i)
    BY <2>1, Grown
  <2> QED BY <2>2, <2>3, <2>4, <2>5
<1>6. Linked(T)
  BY <1>1, <1>3, <1>5 DEF Linked
<1>7. ASSUME NEW x \in Live(T), x \in E \ Live(E) PROVE OnlyOne(T, x)
  <2>1. x.id \notin LiveIds(E)
    BY <1>1, <1>7, LiveIs
  <2>2. x \in Returned(E, T, e)
    BY <1>5, <1>7, <2>1 DEF Returned
  <2>3. RevivedEntriesHold(E, T, logs, e)
    BY DEF Writes, Acceptable
  <2> QED BY <2>2, <2>3 DEF RevivedEntriesHold
<1>8. Alone(E, T)
  <2> SUFFICES ASSUME NEW x \in Live(T), NEW y \in Live(T), x \in E \ Live(E),
                      x.supersedes # 0, x.supersedes = y.supersedes, x # y
               PROVE  FALSE
    BY DEF Alone
  <2>1. OnlyOfItsKind(T, x)
    BY <1>7 DEF OnlyOne
  <2>2. x \in T /\ y \in T /\ Live(T) \subseteq T
    BY <1>5, LiveIs
  <2>3. x.subject = y.subject
    BY <1>6, <2>2 DEF Linked
  <2>4. x.id # y.id
    BY <1>5, <2>2 DEF Shaped
  <2> QED BY <2>1, <2>3, <2>4 DEF OnlyOfItsKind
<1> QED BY <1>1, <1>4, <1>6, <1>7, <1>8 DEF n

LEMMA KeepsSingle ==
    ASSUME NEW E, LedgerHolds(E), NEW logs, NEW T, NEW e, Writes(E, logs, T, e)
    PROVE  Single(T)
<1>1. Cardinality(E) \in Nat /\ Takes(E, Cardinality(E), T, e) /\ Alone(E, T)
  BY Taken
<1>2. Single(E)
  BY DEF LedgerHolds
<1> QED BY <1>1, <1>2, SingleKept

\* What comes back is asked for a clash; what is written is asked against the records.
LEMMA KeepsApart ==
    ASSUME NEW E, LedgerHolds(E), NEW logs, NEW T, NEW e, Writes(E, logs, T, e)
    PROVE  NoClash(T)
<1> DEFINE n == Cardinality(E)
<1>1. /\ n \in Nat /\ Takes(E, n, T, e) /\ Grows(E, n, T, e)
      /\ \A x \in Live(T) : x \in E \ Live(E) => OnlyOne(T, x)
  BY Taken DEF Takes
<1> HIDE DEF n
<1>2. /\ Shaped(E, n) /\ n + 1 \in Nat /\ Shaped(T, n + 1) /\ T = E \cup {e} /\ e \notin E
  BY <1>1, Grown DEF Grows
<1>3. Live(T) \subseteq T /\ Live(E) \subseteq E
  BY <1>1, <1>2, LiveIs
<1>4. ASSUME NEW x \in Live(T), NEW y \in Live(T), x # y, x \in E \ Live(E)
      PROVE  ~Clash(x, y)
  <2>1. OnlyOfItsKind(T, x)
    BY <1>1, <1>4 DEF OnlyOne
  <2>2. x.id # y.id
    BY <1>2, <1>3, <1>4 DEF Shaped
  <2> QED BY <2>1, <2>2 DEF OnlyOfItsKind, Clash
<1>5. ASSUME NEW y \in Live(T), y \in Live(E) PROVE ~Clash(e, y)
  <2>1. y # e /\ y \in E
    BY <1>2, <1>3, <1>5
  <2>2. CASE e.kind = "component.register"
    <3>1. e.subject \notin DOMAIN Project(E).parts
      BY <2>2 DEF Writes, Acceptable, SubjectsHold, ComponentKinds
    <3>2. Shows(Project(E), y)
      <4>1. Live(E) \in SUBSET E
        BY <1>3
      <4> QED BY <1>1, <1>2, <1>5, <4>1, FoldShows DEF Project
    <3> QED BY <2>2, <3>1, <3>2 DEF Shows, Clash
  <2>3. CASE e.kind = "work_order.open"
    <3> DEFINE W == {x \in E : x.id # e.supersedes}
    <3>1. WorkIsNew(Project(W), e)
      BY DEF Writes, Acceptable
    <3>2. y \in Live(W)
      BY <1>1, <1>5, <2>1, LiveWithout
    <3>3. Shaped(W, n)
      BY <1>1, <1>2, ShapedWithin
    <3> HIDE DEF W
    <3>4. Live(W) \in SUBSET W
      BY <1>1, <3>3, LiveIs
    <3>5. Shows(Project(W), y)
      BY <1>1, <3>2, <3>3, <3>4, FoldShows DEF Project
    <3> QED BY <2>3, <3>1, <3>5 DEF WorkIsNew, OrdersOn, Shows, Clash
  <2> QED BY <2>2, <2>3 DEF Clash
<1> SUFFICES ASSUME NEW x \in Live(T), NEW y \in Live(T), x # y, Clash(x, y)
             PROVE  FALSE
  BY DEF NoClash
<1>6. Clash(y, x)
  BY DEF Clash
<1>7. ~(x \in E \ Live(E)) /\ ~(y \in E \ Live(E))
  BY <1>4, <1>6
<1>8. CASE x = e \/ y = e
  BY <1>2, <1>3, <1>5, <1>6, <1>7, <1>8
<1>9. CASE x # e /\ y # e
  <2>1. x \in Live(E) /\ y \in Live(E)
    BY <1>2, <1>3, <1>7, <1>9
  <2> QED BY <2>1 DEF LedgerHolds, NoClash
<1> QED BY <1>8, <1>9

\* The first entry of a chain is one of the ledger.
LEMMA RootIn ==
    ASSUME NEW n \in Nat, NEW E, Shaped(E, n), NEW x \in E
    PROVE  RootId(E, x) \in Ids(E)
<1> DEFINE U == {y \in E : RootId(E, y) \notin Ids(E)}
<1> DEFINE W == {y.id : y \in U}
<1> SUFFICES ASSUME U # {} PROVE FALSE
  OBVIOUS
<1>1. W \in SUBSET Nat /\ W # {}
  BY DEF Shaped
<1>2. PICK w \in W : \A v \in W : w <= v
  <2> HIDE DEF W
  <2> QED BY <1>1, Least
<1>3. PICK y \in U : y.id = w
  OBVIOUS
<1>4. CASE y.supersedes \notin Ids(E)
  BY <1>4, RootIs, Named
<1>5. CASE y.supersedes \in Ids(E)
  <2> DEFINE p == ById(E, y.supersedes)
  <2>1. p \in E /\ p.id < y.id /\ p.id \in Nat /\ y.id \in Nat
    BY <1>5, Named DEF Shaped
  <2>2. RootId(E, y) = RootId(E, p)
    BY <1>5, RootIs
  <2> HIDE DEF p
  <2>3. p \in U
    BY <2>1, <2>2
  <2>4. p.id \in W
    BY <2>3
  <2> HIDE DEF W, U
  <2> QED BY <1>2, <1>3, <2>1, <2>4
<1> QED BY <1>4, <1>5

LEMMA KeepsShort ==
    ASSUME NEW E, LedgerHolds(E), NEW logs, NEW T, NEW e, Writes(E, logs, T, e)
    PROVE  Short(T)
<1> DEFINE n == Cardinality(E)
<1>1. /\ n \in Nat /\ Takes(E, n, T, e) /\ Grows(E, n, T, e) /\ Linked(T) /\ Alone(E, T)
      /\ \A x \in Live(T) : x \in E \ Live(E) => OnlyOne(T, x)
  BY Taken DEF Takes
<1> HIDE DEF n
<1>2. /\ Shaped(E, n) /\ n + 1 \in Nat /\ Shaped(T, n + 1) /\ T = E \cup {e} /\ e \notin E
      /\ e \in Live(T)
  BY <1>1, Grown DEF Grows
<1>3. Ids(T) = Ids(E) \cup {e.id}
  BY <1>1, Grown
<1>4. \A i \in Ids(E) : ById(T, i) = ById(E, i)
  BY <1>1, Grown
<1>5. Single(E) /\ Linked(E) /\ Short(E)
  BY DEF LedgerHolds
<1>6. \A x \in E : OverRetraction(T, x) <=> OverRetraction(E, x)
  BY <1>1, GrownKeeps
<1> SUFFICES ASSUME NEW x \in T, x.kind # "retraction", ~OverRetraction(T, x),
                    x.supersedes # 0, ById(T, x.supersedes).supersedes # 0
             PROVE  FALSE
  BY DEF Short
<1>7. CASE x \in E
  BY <1>4, <1>5, <1>6, <1>7 DEF Short, Linked
<1>8. CASE x = e
  <2> DEFINE q == ById(E, e.supersedes)
  <2>1. /\ e.supersedes \in Ids(E) /\ q \in E /\ q.id = e.supersedes
        /\ q = ById(T, e.supersedes) /\ q.supersedes # 0
    BY <1>1, <1>2, <1>4, <1>8, Named DEF Grows
  <2>2. q \in Changed(E, T) /\ q \in Live(E)
    BY <1>1, <1>8, ChangedAbove
  <2> HIDE DEF q
  <2> DEFINE p == ById(E, q.supersedes)
  <2>3. q.supersedes \in Ids(E) /\ p \in E /\ p.id = q.supersedes /\ p = ById(T, q.supersedes)
    BY <1>1, <1>2, <1>4, <1>5, <2>1, Named DEF Linked
  <2>4. p \in Changed(E, T)
    BY <1>1, <1>5, <2>2, <2>3, ChangedBelow
  <2> HIDE DEF p
  <2>5. p \notin Live(E)
    BY <1>1, <1>2, <2>2, <2>3, LiveIs
  <2>6. p \in Live(T) /\ OnlyOne(T, p)
    BY <1>1, <2>3, <2>4, <2>5 DEF Changed
  <2>7. q.kind # "retraction" /\ ~OverRetraction(T, q)
    BY <1>2, <1>3, <1>8, <2>1, OverIs
  <2>8. p.kind # "retraction"
    <3>1. q \in T /\ q.supersedes \in Ids(T)
      BY <1>2, <1>3, <2>1, <2>3
    <3> QED BY <1>2, <2>3, <2>7, <3>1, OverIs
  <2>9. e.subject = p.subject /\ e.at = p.at
    <3>1. e \in T /\ q \in T /\ e.supersedes # 0 /\ q.supersedes # 0
      BY <1>2, <1>8, <2>1
    <3>2. q.subject = e.subject /\ q.at = e.at
      BY <1>1, <1>8, <2>1, <3>1 DEF Linked
    <3>3. p.subject = q.subject /\ p.at = q.at
      BY <1>1, <2>3, <2>7, <3>1 DEF Linked
    <3> QED BY <3>2, <3>3
  <2>10. RootId(T, e) = RootId(T, p)
    <3>1. PICK m \in Nat : Shaped(T, m)
      BY <1>2
    <3>2. \A y \in T : y.supersedes \in Ids(T) => RootId(T, y) = RootId(T, ById(T, y.supersedes))
      BY <3>1, RootIs
    <3>3. e \in T /\ q \in T /\ e.supersedes \in Ids(T) /\ q.supersedes \in Ids(T)
      BY <1>2, <1>3, <2>1, <2>3
    <3>4. RootId(T, e) = RootId(T, q)
      BY <2>1, <3>2, <3>3
    <3>5. RootId(T, q) = RootId(T, p)
      BY <2>3, <3>2, <3>3
    <3> QED BY <3>4, <3>5
  <2>11. e.id # p.id
    BY <1>2, <2>3 DEF Shaped
  <2>12. e \in Twins(T, p)
    BY <1>2, <1>8, <2>8, <2>9, <2>10, <2>11 DEF Twins, FoldKey
  <2> QED BY <2>6, <2>12 DEF OnlyOne
<1> QED BY <1>2, <1>7, <1>8

\* An entry written where another stands was written over a retraction, and so was that one.
LEMMA Displaces ==
    ASSUME NEW E, LedgerHolds(E), NEW logs, NEW T, NEW e, Writes(E, logs, T, e),
           NEW y, y \in Live(E), y \in Live(T), AtOnePlace(T, e, y)
    PROVE  OverRetraction(T, e) /\ OverRetraction(T, y)
<1> DEFINE n == Cardinality(E)
<1>1. n \in Nat /\ Takes(E, n, T, e) /\ Grows(E, n, T, e) /\ Linked(T) /\ Alone(E, T)
  BY Taken DEF Takes
<1> HIDE DEF n
<1>2. /\ Shaped(E, n) /\ n + 1 \in Nat /\ Shaped(T, n + 1) /\ T = E \cup {e} /\ e \notin E
      /\ e \in Live(T) /\ e.id \notin Ids(E)
  BY <1>1, Grown DEF Grows
<1>3. Ids(T) = Ids(E) \cup {e.id}
  BY <1>1, Grown
<1>4. \A i \in Ids(E) : ById(T, i) = ById(E, i)
  BY <1>1, Grown
<1>5. Single(E) /\ Linked(E) /\ Short(E) /\ NoTwinsBut(E)
  BY DEF LedgerHolds
<1>6. \A x \in E : /\ RootId(T, x) = RootId(E, x)
                   /\ OverRetraction(T, x) <=> OverRetraction(E, x)
  BY <1>1, GrownKeeps
<1>7. y \in E /\ y \in T /\ y.supersedes \in Nat
  BY <1>1, <1>2, LiveIs DEF Shaped
<1>8. /\ e.kind # "retraction" /\ y.kind # "retraction" /\ e.subject = y.subject
      /\ e.at = y.at /\ RootId(T, e) = RootId(E, y)
  BY <1>6, <1>7 DEF AtOnePlace, FoldKey
<1> DEFINE s == ById(E, e.supersedes)
<1>9. e.supersedes # 0
  <2> SUFFICES ASSUME e.supersedes = 0 PROVE FALSE
    OBVIOUS
  <2>1. e.supersedes \notin Ids(T)
    BY <1>2, Named
  <2>2. RootId(T, e) = e.id
    BY <1>2, <2>1, RootIs
  <2>3. RootId(E, y) \in Ids(E)
    BY <1>1, <1>2, <1>7, RootIn
  <2> QED BY <1>2, <1>8, <2>2, <2>3
<1>10. /\ e.supersedes \in Ids(E) /\ e.supersedes \in Ids(T) /\ s \in E
       /\ s = ById(T, e.supersedes)
  BY <1>1, <1>2, <1>3, <1>4, <1>9, Named DEF Grows
<1>11. s \in Changed(E, T) /\ s \in Live(E)
  BY <1>1, <1>9, ChangedAbove
<1>12. /\ RootId(T, e) = RootId(E, s) /\ s.subject = e.subject /\ s.at = e.at /\ s # y
  <2>1. RootId(T, e) = RootId(T, s)
    BY <1>2, <1>10, RootIs
  <2>2. s # y
    BY <1>11 DEF Changed
  <2> HIDE DEF s
  <2>3. s.subject = e.subject /\ s.at = e.at
    BY <1>1, <1>2, <1>8, <1>9, <1>10 DEF Linked
  <2> QED BY <1>6, <1>10, <2>1, <2>2, <2>3
<1>13. OverRetraction(T, e) <=> s.kind = "retraction" \/ OverRetraction(T, s)
  BY <1>2, <1>10, OverIs
<1> HIDE DEF s
<1>14. CASE s.kind # "retraction"
  <2>1. AtOnePlace(E, s, y) /\ AtOnePlace(E, y, s)
    BY <1>8, <1>12, <1>14 DEF AtOnePlace, FoldKey
  <2>2. OverRetraction(E, s) /\ OverRetraction(E, y)
    BY <1>5, <1>11, <2>1 DEF NoTwinsBut
  <2> QED BY <1>6, <1>7, <1>10, <1>13, <2>2
<1>15. CASE s.kind = "retraction"
  <2> SUFFICES ASSUME ~OverRetraction(E, y) PROVE FALSE
    BY <1>6, <1>7, <1>13, <1>15
  <2>1. PICK r \in Changed(E, T) : r.id = RootId(E, s)
    BY <1>1, <1>5, <1>11, RootChanged
  <2>2. r.id = RootId(E, y) /\ r \in E /\ r \in T
    BY <1>2, <1>8, <1>12, <2>1 DEF Changed
  <2>3. CASE y.supersedes = 0
    <3>1. y.supersedes \notin Ids(E)
      BY <1>1, <1>2, <2>3, Named
    <3>2. RootId(E, y) = y.id
      BY <1>1, <1>2, <1>7, <3>1, RootIs
    <3>3. r = y
      BY <1>2, <1>7, <2>2, <3>2 DEF Shaped
    <3> QED BY <2>1, <3>3 DEF Changed
  <2>4. CASE y.supersedes # 0
    <3> DEFINE q == ById(E, y.supersedes)
    <3>1. y.supersedes \in Ids(E) /\ q \in E /\ q.id = y.supersedes /\ q.supersedes = 0
      BY <1>1, <1>2, <1>5, <1>7, <1>8, <2>4, Named DEF Linked, Short
    <3>2. RootId(E, y) = RootId(E, q)
      BY <1>1, <1>2, <1>7, <3>1, RootIs
    <3> HIDE DEF q
    <3>3. q.supersedes \notin Ids(E)
      BY <1>1, <1>2, <3>1, Named
    <3>4. RootId(E, q) = q.id
      BY <1>1, <1>2, <3>1, <3>3, RootIs
    <3>5. r.id = y.supersedes
      BY <2>2, <3>1, <3>2, <3>4
    <3>6. r \notin Live(E)
      BY <1>1, <1>2, <2>2, <3>5, LiveIs
    <3>7. r \notin Live(T)
      BY <1>2, <2>2, <3>5, LiveIs
    <3> QED BY <2>1, <3>6, <3>7 DEF Changed
  <2> QED BY <2>3, <2>4
<1> QED BY <1>14, <1>15

LEMMA KeepsPlaces ==
    ASSUME NEW E, LedgerHolds(E), NEW logs, NEW T, NEW e, Writes(E, logs, T, e)
    PROVE  NoTwinsBut(T)
<1> DEFINE n == Cardinality(E)
<1>1. /\ n \in Nat /\ Takes(E, n, T, e) /\ Grows(E, n, T, e)
      /\ \A x \in Live(T) : x \in E \ Live(E) => OnlyOne(T, x)
  BY Taken DEF Takes
<1> HIDE DEF n
<1>2. /\ Shaped(E, n) /\ n + 1 \in Nat /\ Shaped(T, n + 1) /\ T = E \cup {e} /\ e \notin E
  BY <1>1, Grown DEF Grows
<1>3. Live(T) \subseteq T /\ Live(E) \subseteq E
  BY <1>1, <1>2, LiveIs
<1> SUFFICES ASSUME NEW x \in Live(T), NEW y \in Live(T), AtOnePlace(T, x, y)
             PROVE  OverRetraction(T, x)
  BY DEF NoTwinsBut
<1>4. AtOnePlace(T, y, x) /\ x # y
  BY DEF AtOnePlace
<1>5. x.id # y.id
  BY <1>2, <1>3, <1>4 DEF Shaped
<1>6. ASSUME x \in E \ Live(E) \/ y \in E \ Live(E) PROVE FALSE
  <2>1. y \in Twins(T, x) /\ x \in Twins(T, y)
    BY <1>4, <1>5 DEF AtOnePlace, Twins
  <2> QED BY <1>1, <1>6, <2>1 DEF OnlyOne
<1>7. CASE x = e
  <2>1. y \in Live(E)
    BY <1>2, <1>3, <1>4, <1>6, <1>7
  <2> QED BY <1>7, <2>1, Displaces
<1>8. CASE y = e
  <2>1. x \in Live(E)
    BY <1>2, <1>3, <1>4, <1>6, <1>8
  <2> QED BY <1>4, <1>8, <2>1, Displaces
<1>9. CASE x # e /\ y # e
  <2>1. x \in Live(E) /\ y \in Live(E) /\ x \in E /\ y \in E
    BY <1>2, <1>3, <1>6, <1>9
  <2>2. \A z \in E : /\ RootId(T, z) = RootId(E, z)
                     /\ OverRetraction(T, z) <=> OverRetraction(E, z)
    BY <1>1, GrownKeeps
  <2>3. AtOnePlace(E, x, y)
    BY <2>1, <2>2 DEF AtOnePlace, FoldKey
  <2>4. OverRetraction(E, x)
    BY <2>1, <2>3 DEF LedgerHolds, NoTwinsBut
  <2> QED BY <2>1, <2>2, <2>4
<1> QED BY <1>7, <1>8, <1>9

LEMMA KeepsLedger ==
    ASSUME NEW E, LedgerHolds(E), NEW logs, NEW T, NEW e, Writes(E, logs, T, e)
    PROVE  LedgerHolds(T)
<1> DEFINE n == Cardinality(E)
<1>1. n \in Nat /\ Grows(E, n, T, e) /\ Linked(T)
  BY Taken DEF Takes
<1> HIDE DEF n
<1>2. Shaped(T, n + 1) /\ e \notin E /\ T = E \cup {e} /\ IsFiniteSet(E)
  <2>1. Shaped(T, n + 1) /\ e \notin E
    BY <1>1, Grown
  <2> QED BY <1>1, <2>1 DEF Grows, Shaped
<1>3. Cardinality(T) = n + 1
  BY <1>2, FS_AddElement DEF n
<1>4. Shaped(T, Cardinality(T))
  BY <1>2, <1>3
<1> QED BY <1>1, <1>4, KeepsShort, KeepsSingle, KeepsApart, KeepsPlaces DEF LedgerHolds

\* What is stored of a draft: filling in what it leaves out changes its details only.
LEMMA CandidateIs ==
    ASSUME NEW E, NEW logs, NEW d, NEW s,
           d = [id |-> 0, supersedes |-> s, subject |-> d.subject, kind |-> d.kind,
                at |-> d.at, details |-> d.details]
    PROVE  LET e == Candidate(E, logs, d)
           IN  e.id = NextId(E) /\ e.at = d.at
<1>1. PICK i : i = NextId(E)
  OBVIOUS
<1> DEFINE Stored(x) == [id |-> i, supersedes |-> s, subject |-> d.subject, kind |-> d.kind,
                         at |-> d.at, details |-> x]
<1> DEFINE e == [d EXCEPT !.id = NextId(E)]
<1> DEFINE then == ProjectBefore(E \cup {e}, e)
<1>2. e = Stored(d.details)
  BY <1>1
<1>3. Candidate(E, logs, d) = Filled(logs, then, e)
  BY DEF Candidate
<1> HIDE DEF then, e
<1>4. \A x : Stored(x).id = i /\ Stored(x).at = d.at
  OBVIOUS
<1>5. \E x : Filled(logs, then, e) = Stored(x)
  <2>1. CASE e.kind = "work_order.open" /\ e.details.work = None
    <3>1. Filled(logs, then, e) = [e EXCEPT !.details.work = e.id]
      BY <2>1 DEF Filled
    <3>2. [e EXCEPT !.details.work = e.id] = Stored([e.details EXCEPT !.work = e.id])
      BY <1>2
    <3> HIDE DEF Stored
    <3> QED BY <3>1, <3>2
  <2>2. CASE e.kind = "inspection.done" /\ e.details.hours = None
    <3>1. PICK h : h = DerivedHours(logs, then, e)
      OBVIOUS
    <3>2. Filled(logs, then, e) = [e EXCEPT !.details.hours = h, !.details.derived = TRUE]
      BY <2>2, <3>1 DEF Filled
    <3>3. PICK x : x = [[e.details EXCEPT !.hours = h] EXCEPT !.derived = TRUE]
      OBVIOUS
    <3>4. [e EXCEPT !.details.hours = h, !.details.derived = TRUE] = [e EXCEPT !.details = x]
      BY <1>2, <3>3
    <3>5. [e EXCEPT !.details = x] = Stored(x)
      BY <1>2
    <3> HIDE DEF Stored
    <3> QED BY <3>2, <3>4, <3>5
  <2>3. CASE /\ ~(e.kind = "work_order.open" /\ e.details.work = None)
             /\ ~(e.kind = "inspection.done" /\ e.details.hours = None)
    <3>1. Filled(logs, then, e) = e
      BY <2>3 DEF Filled
    <3> HIDE DEF Stored
    <3> QED BY <1>2, <3>1
  <2> QED BY <2>1, <2>2, <2>3
<1> HIDE DEF Stored
<1> QED BY <1>1, <1>3, <1>4, <1>5

\* The inductive invariant.
LedgerInv == topic \in DOMAIN Topics /\ LedgerHolds(entries)

LEMMA LedgerInit ==
    ASSUME Init
    PROVE  LedgerInv
<1>1. entries = {} /\ topic \in DOMAIN Topics
  BY DEF Init
<1>2. Cardinality({}) = 0 /\ Shaped({}, 0)
  BY FS_EmptySet DEF Shaped
<1>3. Live({}) = {}
  <2>1. Live({}) \subseteq {}
    BY <1>2, LiveIs
  <2> QED BY <2>1
<1>4. LedgerHolds({})
  BY <1>2, <1>3 DEF LedgerHolds, Linked, Short, Single, NoClash, NoTwinsBut
<1> QED BY <1>1, <1>4 DEF LedgerInv

\* A step writes one entry that the checks pass, or leaves the entries.
LEMMA LedgerStep ==
    ASSUME LedgerInv, [Next]_vars
    PROVE  /\ topic' = topic
           /\ \/ entries' = entries
              \/ \E e : Writes(entries, flights, entries', e)
<1>1. ASSUME NEW d \in Topics[topic].drafts, NEW s \in {0} \cup Ids(entries),
             Write([id |-> 0, supersedes |-> s, subject |-> d.subject, kind |-> d.kind,
                    at |-> d.at, details |-> d.details])
      PROVE  topic' = topic /\ \E e : Writes(entries, flights, entries', e)
  <2>1. PICK w : w = [id |-> 0, supersedes |-> s, subject |-> d.subject, kind |-> d.kind,
                      at |-> d.at, details |-> d.details]
    OBVIOUS
  <2>2. PICK e : e = Candidate(entries, flights, w)
    OBVIOUS
  <2>3. w.at = d.at /\ w = [id |-> 0, supersedes |-> s, subject |-> w.subject, kind |-> w.kind,
                            at |-> w.at, details |-> w.details]
    BY <2>1
  <2>4. e.id = NextId(entries) /\ e.at = w.at
    BY <2>2, <2>3, CandidateIs
  <2>5. d.at \in Nat
    BY TopicsAssumption DEF LedgerInv
  <2>6. Write(w)
    BY <1>1, <2>1
  <2>7. topic' = topic /\ entries' = entries \cup {e} /\ Acceptable(entries, flights, e)
    BY <2>2, <2>6 DEF Write
  <2> QED BY <2>3, <2>4, <2>5, <2>7 DEF Writes, NextId
<1>2. ASSUME NEW key, NEW log, Upload(key, log)
      PROVE  topic' = topic /\ entries' = entries
  BY <1>2 DEF Upload
<1>3. CASE UNCHANGED vars
  BY <1>3 DEF vars
<1> QED BY <1>1, <1>2, <1>3 DEF Next

LEMMA LedgerNext ==
    ASSUME LedgerInv, [Next]_vars
    PROVE  LedgerInv'
<1>1. topic' = topic
  BY LedgerStep
<1>2. CASE entries' = entries
  BY <1>1, <1>2 DEF LedgerInv
<1>3. CASE \E e : Writes(entries, flights, entries', e)
  <2>1. LedgerHolds(entries')
    BY <1>3, KeepsLedger DEF LedgerInv
  <2> QED BY <1>1, <2>1 DEF LedgerInv
<1> QED BY <1>2, <1>3, LedgerStep

\* Each entry has an id of its own and stands on an earlier one of its subject and, unless it
\* retracts that, of its date; a chain of corrections without a retraction is never longer
\* than two; and the live entries are one of each kind the records allow one of
\* (validate.py _correction, _revived, _subjects, _work_id).
THEOREM LedgerInductive == Spec => []LedgerInv
<1>1. Init => LedgerInv
  BY LedgerInit
<1>2. LedgerInv /\ [Next]_vars => LedgerInv'
  BY LedgerNext
<1> QED BY <1>1, <1>2, PTL DEF Spec

\* However entries were corrected, retracted and brought back, in whatever order they were
\* written and whatever logs came between, there is one live registration of a part, one live
\* entry superseding another, one opening of a work order, and one entry at a place in the
\* fold but for those written over retractions of entries there (validate.py validate).
THEOREM OnlyOneOfEachHolds == Spec => []OnlyOneOfEach
<1>1. ASSUME LedgerInv PROVE OnlyOneOfEach
  <2> DEFINE n == Cardinality(entries)
  <2>1. /\ IsFiniteSet(entries) /\ n \in Nat /\ Shaped(entries, n)
        /\ Single(entries) /\ NoClash(entries) /\ NoTwinsBut(entries)
    BY <1>1, FS_CardinalityType DEF LedgerInv, LedgerHolds, Shaped
  <2>2. Live(entries) \subseteq entries
    <3> HIDE DEF n
    <3> QED BY <2>1, LiveIs
  <2>3. \A x, y \in Live(entries) : x.id # y.id => x # y
    OBVIOUS
  <2>4. ASSUME NEW e \in Live(entries) PROVE OnlyOfItsKind(entries, e)
    <3> SUFFICES ASSUME NEW y \in Live(entries), y.id # e.id, y.subject = e.subject
                 PROVE  /\ e.kind = "component.register" => y.kind # e.kind
                        /\ e.supersedes # 0 => y.supersedes # e.supersedes
                        /\ e.kind = "work_order.open" =>
                              (y.kind = e.kind => y.details.work # e.details.work)
      BY DEF OnlyOfItsKind
    <3>1. e # y /\ ~Clash(e, y)
      BY <2>1 DEF NoClash
    <3>2. e.supersedes # 0 => y.supersedes # e.supersedes
      BY <2>1, <3>1 DEF Single
    <3> QED BY <3>1, <3>2 DEF Clash
  <2>5. ASSUME NEW e \in Live(entries), NEW x \in Twins(entries, e)
        PROVE  OverRetraction(entries, x)
    <3>1. x \in Live(entries) /\ AtOnePlace(entries, x, e)
      BY DEF Twins, AtOnePlace
    <3> QED BY <2>1, <3>1 DEF NoTwinsBut
  <2> QED BY <2>4, <2>5 DEF OnlyOneOfEach
<1> QED BY <1>1, LedgerInductive, PTL

-----------------------------------------------------------------------------
\* An entry that records nothing, as a retraction, folds away wherever it stands.
LEMMA FoldsAway ==
    ASSUME NEW n \in Nat, NEW T, Shaped(T, n), NEW e, \A r : Folded(r, e) = r,
           NEW S \in SUBSET T
    PROVE  Fold(T, S) = Fold(T, S \ {e})
<1> DEFINE Good(s) == Fold(T, s) = Fold(T, s \ {e})
<1> DEFINE U == {s \in SUBSET S : ~Good(s)}
<1> DEFINE W == {Cardinality(s) : s \in U}
<1> SUFFICES ASSUME U # {} PROVE FALSE
  OBVIOUS
<1>1. \A s \in SUBSET S : s \in SUBSET T /\ IsFiniteSet(s) /\ Cardinality(s) \in Nat
  BY FS_Subset, FS_CardinalityType DEF Shaped
<1>2. W \in SUBSET Nat /\ W # {}
  BY <1>1
<1>3. PICK w \in W : \A v \in W : w <= v
  <2> HIDE DEF W
  <2> QED BY <1>2, Least
<1>4. PICK s \in U : Cardinality(s) = w
  OBVIOUS
<1>5. s \in SUBSET T /\ s \in SUBSET S /\ ~Good(s)
  BY <1>1
<1>6. e \in s
  <2> SUFFICES ASSUME e \notin s PROVE FALSE
    OBVIOUS
  <2>1. s \ {e} = s
    OBVIOUS
  <2> QED BY <1>5, <2>1
<1> DEFINE l == LastInFold(T, s)
<1>7. l \in s /\ Fold(T, s) = Folded(Fold(T, s \ {l}), l)
  BY <1>5, <1>6, FoldStep
<1>8. IsLast(T, s, l)
  BY <1>5, <1>6, LastIs
<1> HIDE DEF l
<1>9. CASE l = e
  BY <1>5, <1>7, <1>9
<1>10. CASE l # e
  <2> DEFINE q == s \ {e}
  <2> DEFINE p == s \ {l}
  <2>1. q \in SUBSET T /\ q # {} /\ l \in q
    BY <1>5, <1>7, <1>10
  <2>2. IsLast(T, q, l)
    BY <1>8, <2>1 DEF IsLast
  <2>3. l = LastInFold(T, q)
    <3> HIDE DEF q
    <3> QED BY <2>1, <2>2, LastIs
  <2>4. Fold(T, q) = Folded(Fold(T, q \ {l}), l)
    <3> HIDE DEF q
    <3> QED BY <2>1, <2>3, FoldStep
  <2>5. p \in SUBSET S /\ Cardinality(p) = Cardinality(s) - 1 /\ Cardinality(s) \in Nat
    BY <1>1, <1>5, <1>7, FS_RemoveElement
  <2>6. Good(p)
    <3> SUFFICES ASSUME p \in U PROVE FALSE
      BY <2>5
    <3>1. Cardinality(p) \in W
      OBVIOUS
    <3> HIDE DEF W, U, p
    <3> QED BY <1>3, <1>4, <2>5, <3>1
  <2>7. p \ {e} = q \ {l}
    OBVIOUS
  <2>8. Fold(T, p) = Fold(T, q \ {l})
    <3> HIDE DEF q
    <3> QED BY <2>6, <2>7
  <2>9. Fold(T, s) = Fold(T, q)
    <3> HIDE DEF q
    <3> QED BY <1>7, <2>4, <2>8
  <2> QED BY <1>5, <2>9
<1> QED BY <1>9, <1>10

\* Where no other entry supersedes the one e does, entries without that one keep their places.
LEMMA PlacesWithout ==
    ASSUME NEW E, NEW n, NEW T, NEW e, Grows(E, n, T, e),
           \A x \in E : x.supersedes # e.supersedes
    PROVE  LET W == {x \in E : x.id # e.supersedes}
           IN  \A x \in W : RootId(T, x) = RootId(W, x)
<1> DEFINE W == {x \in E : x.id # e.supersedes}
<1>0. PICK m \in Nat : Shaped(T, m)
  BY Grown
<1>1. n \in Nat /\ Shaped(E, n) /\ T = E \cup {e}
  BY DEF Grows
<1>2. Shaped(W, n) /\ W \subseteq W /\ W \subseteq T
  <2>1. W \in SUBSET E
    OBVIOUS
  <2> QED BY <1>0, <1>1, <2>1, ShapedWithin
<1>3. ASSUME NEW x \in W
      PROVE  /\ x.supersedes \in Ids(T) <=> x.supersedes \in Ids(W)
             /\ x.supersedes \in Ids(T) =>
                   /\ ById(T, x.supersedes) = ById(W, x.supersedes)
                   /\ ById(T, x.supersedes) \in W
  <2>1. x \in T /\ x.supersedes # e.supersedes
    BY <1>1
  <2>2. x.supersedes # e.id
    BY <2>1, Grown
  <2>3. ASSUME x.supersedes \in Ids(T)
        PROVE  \E y \in W : y.id = x.supersedes
    BY <1>0, <1>1, <2>1, <2>2, <2>3 DEF Ids
  <2>4. ASSUME x.supersedes \in Ids(W)
        PROVE  \E y \in T : y.id = x.supersedes
    BY <1>2, <2>4 DEF Ids
  <2>5. \A y \in W : y.id = x.supersedes =>
            /\ x.supersedes \in Ids(W) /\ x.supersedes \in Ids(T)
            /\ ById(W, x.supersedes) = y /\ ById(T, x.supersedes) = y
    BY <1>0, <1>1, <1>2, Named
  <2>6. \A y \in T : y.id = x.supersedes => x.supersedes \in Ids(T)
    BY DEF Ids
  <2> QED BY <2>3, <2>4, <2>5, <2>6
<1>4. \A x \in W : RootId(T, x) = RootId(W, x)
  <2> HIDE DEF W
  <2>1. n \in Nat /\ m \in Nat /\ Shaped(T, m) /\ Shaped(W, n) /\ W \subseteq W /\ W \subseteq T
    BY <1>0, <1>1, <1>2
  <2> QED BY <2>1, <1>3, SameChains, SMTT(60)
<1> QED BY <1>4

\* A write that undoes a retraction restores what the ledger shows without it.
LEMMA Restores ==
    ASSUME NEW E, NEW n, NEW T, NEW e, Grows(E, n, T, e), e.kind = "retraction"
    PROVE  LET W == {x \in E : x.id # e.supersedes}
           IN  /\ Project(T) = Fold(T, Live(W))
               /\ (\A x \in E : x.supersedes # e.supersedes) => Project(T) = Project(W)
<1> DEFINE W == {x \in E : x.id # e.supersedes}
<1>0. PICK m \in Nat : Shaped(T, m)
  BY Grown
<1>1. n \in Nat /\ Shaped(E, n) /\ T = E \cup {e}
  BY DEF Grows
<1>2. \A r : Folded(r, e) = r
  <2>1. "retraction" \notin AircraftKinds /\ "retraction" \notin ComponentKinds
    BY DEF AircraftKinds, ComponentKinds
  <2> QED BY <2>1 DEF Folded
<1>3. Live(W) = Live(T) \ {e}
  BY LiveWithout
<1>4. Live(T) \in SUBSET T
  BY <1>0, <1>1, LiveIs
<1>5. Project(T) = Fold(T, Live(W))
  <2>1. Fold(T, Live(T)) = Fold(T, Live(T) \ {e})
    <3> HIDE DEF W
    <3> QED BY <1>0, <1>2, <1>4, FoldsAway
  <2> QED BY <1>3, <2>1 DEF Project
<1>6. ASSUME \A x \in E : x.supersedes # e.supersedes
      PROVE  Project(T) = Project(W)
  <2>1. \A x \in W : RootId(T, x) = RootId(W, x)
    BY <1>6, PlacesWithout
  <2>2. Shaped(W, n)
    <3>1. W \in SUBSET E
      OBVIOUS
    <3> QED BY <1>0, <1>1, <3>1, ShapedWithin
  <2>3. Live(W) \subseteq W /\ Live(W) \subseteq T
    BY <1>0, <1>1, <2>2, LiveIs
  <2>4. Fold(T, Live(W)) = Fold(W, Live(W))
    <3>1. \A x \in Live(W) : RootId(T, x) = RootId(W, x)
      BY <2>1, <2>3
    <3> HIDE DEF W
    <3> QED BY <1>0, <1>1, <2>2, <2>3, <3>1, FoldSame
  <2> QED BY <1>5, <2>4 DEF Project
<1> QED BY <1>5, <1>6

\* Undoing a retraction, at any depth of a chain of them, gives back the records of what is
\* live without it, and if no entry was written over it before, exactly the records as they
\* were without it (project.py live_entry_ids, fold_key).
THEOREM UndoRestoresHolds == Spec => UndoRestores
<1>1. ASSUME LedgerInv, [Next]_vars, NEW e \in entries' \ entries,
             e.kind = "retraction"
      PROVE  LET without == {x \in entries : x.id # e.supersedes}
             IN  /\ Project(entries') = Fold(entries', Live(without))
                 /\ (\A x \in entries : x.supersedes # e.supersedes) =>
                       Project(entries') = Project(without)
  <2>1. PICK w : Writes(entries, flights, entries', w)
    BY <1>1, LedgerStep
  <2>2. w = e
    BY <1>1, <2>1 DEF Writes
  <2>3. Grows(entries, Cardinality(entries), entries', e)
    BY <1>1, <2>1, <2>2, Taken DEF LedgerInv, Takes
  <2> QED BY <1>1, <2>3, Restores
<1> DEFINE Undoes(e) ==
        LET without == {x \in entries : x.id # e.supersedes}
        IN  /\ e.kind = "retraction"
            /\ e.supersedes # 0 /\ ById(entries, e.supersedes).kind = "retraction"
            => /\ Project(entries') = Fold(entries', Live(without))
               /\ (\A x \in entries : x.supersedes # e.supersedes) =>
                     Project(entries') = Project(without)
<1>2. LedgerInv /\ [Next]_vars => [\A e \in entries' \ entries : Undoes(e)]_vars
  BY <1>1
<1> QED BY <1>2, LedgerInductive, PTL DEF Spec, UndoRestores

-----------------------------------------------------------------------------
(* What the records of one subject depend on.                              *)

\* What holds of no entries, and of some entries with it of those before their last, holds.
Gathers(E, S, G) ==
    {} \in G /\ \A s \in SUBSET S : s # {} /\ s \ {LastInFold(E, s)} \in G => s \in G

LEMMA FoldInduction ==
    ASSUME NEW n \in Nat, NEW E, Shaped(E, n), NEW S \in SUBSET E, NEW G, Gathers(E, S, G)
    PROVE  S \in G
<1> USE DEF Gathers
<1> DEFINE U == {s \in SUBSET S : s \notin G}
<1> DEFINE W == {Cardinality(s) : s \in U}
<1> SUFFICES ASSUME U # {} PROVE FALSE
  OBVIOUS
<1>1. \A s \in SUBSET S : s \in SUBSET E /\ IsFiniteSet(s) /\ Cardinality(s) \in Nat
  BY FS_Subset, FS_CardinalityType DEF Shaped
<1>2. W \in SUBSET Nat /\ W # {}
  BY <1>1
<1>3. PICK w \in W : \A v \in W : w <= v
  <2> HIDE DEF W
  <2> QED BY <1>2, Least
<1>4. PICK s \in U : Cardinality(s) = w
  OBVIOUS
<1>5. s \in SUBSET E /\ s \in SUBSET S /\ s # {}
  BY <1>1
<1> DEFINE rest == s \ {LastInFold(E, s)}
<1>6. LastInFold(E, s) \in s
  BY <1>5, LastIs
<1>7. rest \in SUBSET S /\ Cardinality(rest) = Cardinality(s) - 1 /\ Cardinality(s) \in Nat
  BY <1>1, <1>5, <1>6, FS_RemoveElement
<1>8. rest \in G
  <2> SUFFICES ASSUME rest \in U PROVE FALSE
    BY <1>7
  <2>1. Cardinality(rest) \in W
    OBVIOUS
  <2> HIDE DEF W, U, rest
  <2> QED BY <1>3, <1>4, <1>7, <2>1
<1> QED BY <1>5, <1>8

\* The record of one aircraft and of one part.
AircraftOn(r, k) == IF k \in DOMAIN r.aircraft THEN r.aircraft[k] ELSE NoAircraft

Alike(r, q, k) ==
    /\ AircraftOn(r, k) = AircraftOn(q, k)
    /\ k \in DOMAIN r.parts <=> k \in DOMAIN q.parts
    /\ k \in DOMAIN r.parts => r.parts[k] = q.parts[k]

\* The entries that record something of k.
Records(e, k) == e.subject = k /\ e.kind \in AircraftKinds \cup ComponentKinds

LEMMA FoldPartIs ==
    ASSUME NEW p, NEW e
    PROVE  /\ DOMAIN FoldPart(p, e) = IF e.kind = "component.register"
                                      THEN DOMAIN p \cup {e.subject} ELSE DOMAIN p
           /\ \A k \in DOMAIN p : k # e.subject => FoldPart(p, e)[k] = p[k]
           /\ \A q : /\ e.subject \in DOMAIN p <=> e.subject \in DOMAIN q
                     /\ e.subject \in DOMAIN p => p[e.subject] = q[e.subject]
                     /\ e.subject \in DOMAIN FoldPart(p, e)
                     => FoldPart(p, e)[e.subject] = FoldPart(q, e)[e.subject]
<1> DEFINE k == e.subject
<1> DEFINE d == e.details
<1> DEFINE new == [kind |-> d.kind, since |-> d.since, hours |-> d.hours,
                   cycles |-> d.cycles, windows |-> <<>>, registered |-> e.at]
<1> DEFINE fitted(c) == [c EXCEPT !.windows =
        Append(c.windows, [aircraft |-> d.aircraft, from |-> e.at, to |-> None])]
<1> DEFINE ended(c) == [c EXCEPT !.windows =
        [i \in DOMAIN c.windows |-> IF i \in FirstOpen(c.windows, d.aircraft)
                                    THEN [c.windows[i] EXCEPT !.to = e.at] ELSE c.windows[i]]]
<1>1. CASE e.kind = "component.register"
  <2>1. \A f : FoldPart(f, e) = WithKey(f, k, new)
    BY <1>1 DEF FoldPart
  <2> HIDE DEF new
  <2>2. \A f : /\ DOMAIN FoldPart(f, e) = DOMAIN f \cup {k} /\ FoldPart(f, e)[k] = new
               /\ \A x \in DOMAIN f : x # k => FoldPart(f, e)[x] = f[x]
    BY <2>1 DEF WithKey
  <2> QED BY <1>1, <2>2
<1>2. CASE e.kind = "component.install"
  <2>1. \A f : /\ k \in DOMAIN f => FoldPart(f, e) = [f EXCEPT ![k] = fitted(f[k])]
               /\ k \notin DOMAIN f => FoldPart(f, e) = f
    BY <1>2 DEF FoldPart
  <2> HIDE DEF fitted
  <2>2. \A f : /\ DOMAIN FoldPart(f, e) = DOMAIN f
               /\ k \in DOMAIN f => FoldPart(f, e)[k] = fitted(f[k])
               /\ \A x \in DOMAIN f : x # k => FoldPart(f, e)[x] = f[x]
    BY <2>1
  <2> QED BY <1>2, <2>2
<1>3. CASE e.kind = "component.remove"
  <2>1. \A f : /\ k \in DOMAIN f => FoldPart(f, e) = [f EXCEPT ![k] = ended(f[k])]
               /\ k \notin DOMAIN f => FoldPart(f, e) = f
    BY <1>3 DEF FoldPart
  <2> HIDE DEF ended
  <2>2. \A f : /\ DOMAIN FoldPart(f, e) = DOMAIN f
               /\ k \in DOMAIN f => FoldPart(f, e)[k] = ended(f[k])
               /\ \A x \in DOMAIN f : x # k => FoldPart(f, e)[x] = f[x]
    BY <2>1
  <2> QED BY <1>3, <2>2
<1>4. CASE e.kind \notin ComponentKinds
  <2>1. \A f : FoldPart(f, e) = f
    BY <1>4 DEF FoldPart, ComponentKinds
  <2> QED BY <1>4, <2>1 DEF ComponentKinds
<1> QED BY <1>1, <1>2, <1>3, <1>4 DEF ComponentKinds

LEMMA FoldedParts ==
    ASSUME NEW r, AreRecords(r), NEW e
    PROVE  LET q == Folded(r, e)
           IN  /\ q.parts = IF e.kind \in ComponentKinds THEN FoldPart(r.parts, e) ELSE r.parts
               /\ \A k : AircraftOn(q, k) = IF e.kind \in AircraftKinds /\ k = e.subject
                                            THEN FoldAircraft(AircraftOn(r, k), e)
                                            ELSE AircraftOn(r, k)
<1> DEFINE Pair(x, y) == [aircraft |-> x, parts |-> y]
<1>1. PICK a, p : r = Pair(a, p)
  BY DEF AreRecords
<1>2. r.aircraft = a /\ r.parts = p
  BY <1>1
<1>3. CASE e.kind \in AircraftKinds
  <2>1. PICK new : new = FoldAircraft(AircraftOn(r, e.subject), e)
    OBVIOUS
  <2>2. PICK b : b = WithKey(a, e.subject, new)
    OBVIOUS
  <2>3. Folded(r, e) = [r EXCEPT !.aircraft = b]
    <3>1. e.kind \notin ComponentKinds
      BY <1>3 DEF AircraftKinds, ComponentKinds
    <3> QED BY <1>2, <1>3, <2>1, <2>2, <3>1 DEF Folded, AircraftOn
  <2>4. Folded(r, e) = Pair(b, p)
    BY <1>1, <2>3
  <2>5. /\ DOMAIN b = DOMAIN a \cup {e.subject} /\ b[e.subject] = new
        /\ \A x \in DOMAIN a : x # e.subject => b[x] = a[x]
    BY <2>2 DEF WithKey
  <2>6. Folded(r, e).parts = r.parts /\ Folded(r, e).aircraft = b
    BY <1>2, <2>4
  <2>7. ASSUME NEW k
        PROVE  AircraftOn(Folded(r, e), k) = IF k = e.subject THEN new ELSE AircraftOn(r, k)
    BY <1>2, <2>5, <2>6 DEF AircraftOn
  <2>8. e.kind \notin ComponentKinds
    BY <1>3 DEF AircraftKinds, ComponentKinds
  <2> QED BY <1>3, <2>1, <2>6, <2>7, <2>8
<1>4. CASE e.kind \notin AircraftKinds /\ e.kind \in ComponentKinds
  <2>1. PICK q : q = FoldPart(p, e)
    OBVIOUS
  <2>2. Folded(r, e) = Pair(a, q)
    BY <1>1, <1>4, <2>1 DEF Folded
  <2>3. Folded(r, e).aircraft = a /\ Folded(r, e).parts = q
    BY <2>2
  <2> QED BY <1>2, <1>4, <2>1, <2>3 DEF AircraftOn
<1>5. CASE e.kind \notin AircraftKinds /\ e.kind \notin ComponentKinds
  <2>1. Folded(r, e) = r
    BY <1>5 DEF Folded
  <2> QED BY <1>5, <2>1
<1> QED BY <1>3, <1>4, <1>5

\* An entry of another subject, or a retraction, leaves k as it was, and one of k makes of two
\* records alike two alike.
LEMMA FoldedAlike ==
    ASSUME NEW r, AreRecords(r), NEW e, NEW k
    PROVE  /\ ~Records(e, k) => Alike(Folded(r, e), r, k)
           /\ \A q : AreRecords(q) /\ Alike(r, q, k) => Alike(Folded(r, e), Folded(q, e), k)
<1> DEFINE Fold1(x) ==
        /\ Folded(x, e).parts = IF e.kind \in ComponentKinds THEN FoldPart(x.parts, e) ELSE x.parts
        /\ \A j : AircraftOn(Folded(x, e), j) = IF e.kind \in AircraftKinds /\ j = e.subject
                                                THEN FoldAircraft(AircraftOn(x, j), e)
                                                ELSE AircraftOn(x, j)
<1>1. \A x : AreRecords(x) => Fold1(x)
  BY FoldedParts
<1>2. ASSUME ~Records(e, k) PROVE Alike(Folded(r, e), r, k)
  <2>1. Fold1(r)
    BY <1>1
  <2>2. AircraftOn(Folded(r, e), k) = AircraftOn(r, k)
    BY <1>2, <2>1 DEF Records
  <2>3. CASE e.kind \in ComponentKinds
    <3>1. k # e.subject
      BY <1>2, <2>3 DEF Records
    <3>2. Folded(r, e).parts = FoldPart(r.parts, e)
      BY <2>1, <2>3
    <3>3. PICK p : p = r.parts
      OBVIOUS
    <3>4. /\ DOMAIN FoldPart(p, e) = IF e.kind = "component.register"
                                     THEN DOMAIN p \cup {e.subject} ELSE DOMAIN p
          /\ \A j \in DOMAIN p : j # e.subject => FoldPart(p, e)[j] = p[j]
      BY FoldPartIs
    <3> QED BY <2>2, <3>1, <3>2, <3>3, <3>4 DEF Alike
  <2>4. CASE e.kind \notin ComponentKinds
    BY <2>1, <2>2, <2>4 DEF Alike
  <2> QED BY <2>3, <2>4
<1>3. ASSUME NEW q, AreRecords(q), Alike(r, q, k) PROVE Alike(Folded(r, e), Folded(q, e), k)
  <2>1. Fold1(r) /\ Fold1(q)
    BY <1>1, <1>3
  <2>2. AircraftOn(Folded(r, e), k) = AircraftOn(Folded(q, e), k)
    BY <1>3, <2>1 DEF Alike
  <2>3. CASE e.kind \in ComponentKinds
    <3>1. Folded(r, e).parts = FoldPart(r.parts, e) /\ Folded(q, e).parts = FoldPart(q.parts, e)
      BY <2>1, <2>3
    <3>2. PICK a : a = r.parts
      OBVIOUS
    <3>3. PICK b : b = q.parts
      OBVIOUS
    <3>4. /\ k \in DOMAIN a <=> k \in DOMAIN b
          /\ k \in DOMAIN a => a[k] = b[k]
      BY <1>3, <3>2, <3>3 DEF Alike
    <3>5. /\ k \in DOMAIN FoldPart(a, e) <=> k \in DOMAIN FoldPart(b, e)
          /\ k \in DOMAIN FoldPart(a, e) => FoldPart(a, e)[k] = FoldPart(b, e)[k]
      <4>1. /\ DOMAIN FoldPart(a, e) = IF e.kind = "component.register"
                                       THEN DOMAIN a \cup {e.subject} ELSE DOMAIN a
            /\ DOMAIN FoldPart(b, e) = IF e.kind = "component.register"
                                       THEN DOMAIN b \cup {e.subject} ELSE DOMAIN b
        BY FoldPartIs
      <4>2. CASE k = e.subject
        <5>1. \A f : /\ e.subject \in DOMAIN a <=> e.subject \in DOMAIN f
                     /\ e.subject \in DOMAIN a => a[e.subject] = f[e.subject]
                     /\ e.subject \in DOMAIN FoldPart(a, e)
                     => FoldPart(a, e)[e.subject] = FoldPart(f, e)[e.subject]
          BY FoldPartIs, Zenon
        <5>2. /\ e.subject \in DOMAIN a <=> e.subject \in DOMAIN b
              /\ e.subject \in DOMAIN a => a[e.subject] = b[e.subject]
          BY <3>4, <4>2
        <5>3. e.subject \in DOMAIN FoldPart(a, e)
                  => FoldPart(a, e)[e.subject] = FoldPart(b, e)[e.subject]
          BY <5>1, <5>2, Zenon
        <5> QED BY <3>4, <4>1, <4>2, <5>3
      <4>3. CASE k # e.subject
        <5>1. /\ \A j \in DOMAIN a : j # e.subject => FoldPart(a, e)[j] = a[j]
              /\ \A j \in DOMAIN b : j # e.subject => FoldPart(b, e)[j] = b[j]
          BY FoldPartIs
        <5> QED BY <3>4, <4>1, <4>3, <5>1
      <4> QED BY <4>2, <4>3
    <3> QED BY <2>2, <3>1, <3>2, <3>3, <3>5 DEF Alike
  <2>4. CASE e.kind \notin ComponentKinds
    BY <1>3, <2>1, <2>2, <2>4 DEF Alike
  <2> QED BY <2>3, <2>4
<1> QED BY <1>2, <1>3

\* The records of k are those of the entries that record something of k.
LEMMA FoldLocal ==
    ASSUME NEW n \in Nat, NEW E, Shaped(E, n), NEW S \in SUBSET E, NEW k
    PROVE  Alike(Fold(E, S), Fold(E, {e \in S : Records(e, k)}), k)
<1> DEFINE Of(s) == {e \in s : Records(e, k)}
<1> DEFINE G == {s \in SUBSET S : Alike(Fold(E, s), Fold(E, Of(s)), k)}
<1>1. {} \in G
  <2>1. Of({}) = {}
    OBVIOUS
  <2> QED BY <2>1 DEF Alike
<1>2. ASSUME NEW s \in SUBSET S, s # {}, s \ {LastInFold(E, s)} \in G PROVE s \in G
  <2> DEFINE l == LastInFold(E, s)
  <2> DEFINE rest == s \ {l}
  <2>1. s \in SUBSET E /\ Of(s) \in SUBSET E /\ rest \in SUBSET E /\ Of(rest) \in SUBSET E
    OBVIOUS
  <2>2. l \in s /\ Fold(E, s) = Folded(Fold(E, rest), l)
    BY <1>2, <2>1, FoldStep
  <2>3. Alike(Fold(E, rest), Fold(E, Of(rest)), k)
    BY <1>2
  <2>4. AreRecords(Fold(E, rest)) /\ AreRecords(Fold(E, Of(rest)))
    <3> HIDE DEF rest, Of
    <3> QED BY <2>1, FoldShows
  <2>5. CASE ~Records(l, k)
    <3>1. Of(rest) = Of(s)
      BY <2>5
    <3>2. Alike(Folded(Fold(E, rest), l), Fold(E, rest), k)
      BY <2>4, <2>5, FoldedAlike
    <3>3. Alike(Fold(E, s), Fold(E, Of(s)), k)
      <4> HIDE DEF rest, Of, l
      <4> QED BY <2>2, <2>3, <3>1, <3>2 DEF Alike
    <3> QED BY <3>3
  <2>6. CASE Records(l, k)
    <3>1. l \in Of(s) /\ Of(rest) = Of(s) \ {l}
      BY <2>2, <2>6
    <3>2. IsLast(E, Of(s), l)
      <4>1. IsLast(E, s, l)
        BY <1>2, <2>1, <2>2, LastIs
      <4> QED BY <3>1, <4>1 DEF IsLast
    <3>3. l = LastInFold(E, Of(s))
      <4> HIDE DEF Of, l
      <4> QED BY <2>1, <3>1, <3>2, LastIs
    <3>4. Fold(E, Of(s)) = Folded(Fold(E, Of(s) \ {l}), l)
      <4> HIDE DEF Of, l
      <4> QED BY <2>1, <3>1, <3>3, FoldStep
    <3>5. Alike(Fold(E, s), Fold(E, Of(s)), k)
      <4> HIDE DEF Of, l, rest
      <4>1. PICK a : a = Fold(E, rest)
        OBVIOUS
      <4>2. PICK b : b = Fold(E, Of(rest))
        OBVIOUS
      <4>3. Alike(Folded(a, l), Folded(b, l), k)
        BY <2>3, <2>4, <4>1, <4>2, FoldedAlike
      <4> QED BY <2>2, <3>1, <3>4, <4>1, <4>2, <4>3
    <3> QED BY <3>5
  <2> QED BY <2>5, <2>6
<1>3. S \in G
  <2> HIDE DEF G
  <2>1. Gathers(E, S, G)
    BY <1>1, <1>2 DEF Gathers
  <2> QED BY <2>1, FoldInduction
<1> QED BY <1>3

\* Two sets of entries with the same entries of k have the same records of k.
LEMMA FoldOnly ==
    ASSUME NEW n \in Nat, NEW E, Shaped(E, n), NEW S \in SUBSET E, NEW Q \in SUBSET E, NEW k,
           \A e \in E : Records(e, k) => (e \in S <=> e \in Q)
    PROVE  Alike(Fold(E, S), Fold(E, Q), k)
<1> DEFINE Of(s) == {e \in s : Records(e, k)}
<1>1. Of(S) = Of(Q)
  OBVIOUS
<1>2. Alike(Fold(E, S), Fold(E, Of(S)), k) /\ Alike(Fold(E, Q), Fold(E, Of(Q)), k)
  BY FoldLocal
<1> HIDE DEF Of
<1> QED BY <1>1, <1>2 DEF Alike

-----------------------------------------------------------------------------
(* The order of the fold, without regard to ids.                           *)

Earlier(E, x, y) == Precedes(FoldKey(E, x), FoldKey(E, y))

LEMMA EarlierIs ==
    ASSUME NEW n \in Nat, NEW E, Shaped(E, n), NEW x \in E, NEW y \in E
    PROVE  /\ x.at \in Nat /\ y.at \in Nat /\ RootId(E, x) \in Nat /\ RootId(E, y) \in Nat
           /\ Earlier(E, x, y) <=>
                 x.at < y.at \/ (x.at = y.at /\ RootId(E, x) < RootId(E, y))
<1>1. x.at \in Nat /\ y.at \in Nat /\ RootId(E, x) \in Nat /\ RootId(E, y) \in Nat
  BY RootIs DEF Shaped
<1>2. ASSUME NEW a1 \in Nat, NEW a2 \in Nat, NEW b1 \in Nat, NEW b2 \in Nat
      PROVE  Precedes(<<a1, a2>>, <<b1, b2>>) <=> a1 < b1 \/ (a1 = b1 /\ a2 < b2)
  <2> DEFINE p == <<a1, a2>>
  <2> DEFINE q == <<b1, b2>>
  <2> DEFINE At(i) == p[i] < q[i] /\ \A j \in 1..(i - 1) : p[j] = q[j]
  <2>1. Precedes(p, q) <=> \E i \in DOMAIN p : At(i)
    BY DEF Precedes
  <2>2. DOMAIN p = {1, 2}
    OBVIOUS
  <2>3. At(1) <=> a1 < b1
    OBVIOUS
  <2>4. At(2) <=> a1 = b1 /\ a2 < b2
    <3>1. 1..(2 - 1) = {1}
      OBVIOUS
    <3> QED BY <3>1
  <2> HIDE DEF At
  <2> QED BY <2>1, <2>2, <2>3, <2>4
<1> QED BY <1>1, <1>2 DEF Earlier, FoldKey

\* A set of entries that holds one has one none is earlier than.
LEMMA FirstIs ==
    ASSUME NEW n \in Nat, NEW E, Shaped(E, n), NEW S \in SUBSET E, S # {}
    PROVE  /\ FirstInFold(E, S) \in S
           /\ \A y \in S : ~Earlier(E, y, FirstInFold(E, S))
<1> DEFINE Dates1 == {x.at : x \in S}
<1>1. Dates1 \in SUBSET Nat /\ Dates1 # {}
  BY DEF Shaped
<1>2. PICK t \in Dates1 : \A u \in Dates1 : t <= u
  <2> HIDE DEF Dates1
  <2> QED BY <1>1, Least
<1> DEFINE Roots == {RootId(E, x) : x \in {y \in S : y.at = t}}
<1>3. Roots \in SUBSET Nat /\ Roots # {}
  <2>1. \A x \in S : RootId(E, x) \in Nat
    BY RootIs
  <2> QED BY <2>1, <1>2
<1>4. PICK r \in Roots : \A u \in Roots : r <= u
  <2> HIDE DEF Roots
  <2> QED BY <1>3, Least
<1>5. PICK x \in S : x.at = t /\ RootId(E, x) = r
  BY <1>4
<1>6. ASSUME NEW y \in S, Earlier(E, y, x) PROVE FALSE
  <2>1. y.at < t \/ (y.at = t /\ RootId(E, y) < r)
    BY <1>5, <1>6, EarlierIs
  <2>2. y.at \in Nat /\ t \in Nat /\ RootId(E, y) \in Nat /\ r \in Nat
    BY <1>5, EarlierIs
  <2>3. t <= y.at
    BY <1>2
  <2>4. y.at = t => r <= RootId(E, y)
    BY <1>4
  <2> QED BY <2>1, <2>2, <2>3, <2>4
<1>7. FirstInFold(E, S) = CHOOSE z \in S : \A y \in S : ~Earlier(E, y, z)
  BY DEF FirstInFold, Earlier
<1> QED BY <1>5, <1>6, <1>7

\* Entries that e makes live or dead are of its subject.
LEMMA ChangedSubject ==
    ASSUME NEW E, NEW n, NEW T, NEW e, Takes(E, n, T, e), Linked(T), NEW x \in Changed(E, T)
    PROVE  x.subject = e.subject
<1> DEFINE C == Changed(E, T)
<1> DEFINE Out == {c \in C : c.subject # e.subject}
<1> DEFINE W == {c.id : c \in Out}
<1> SUFFICES ASSUME Out # {} PROVE FALSE
  OBVIOUS
<1>1. /\ n \in Nat /\ Shaped(E, n) /\ C \subseteq E /\ Grows(E, n, T, e)
  BY DEF Takes, Grows, Changed
<1>2. W \in SUBSET (0..n) /\ W # {}
  <2>1. \A y \in E : y.id \in 0..n
    BY <1>1 DEF Shaped
  <2> HIDE DEF C
  <2> QED BY <1>1, <2>1
<1>3. PICK w \in W : \A v \in W : w >= v
  <2> HIDE DEF W
  <2> QED BY <1>1, <1>2, Greatest
<1>4. PICK c \in Out : c.id = w
  OBVIOUS
<1>5. c \in C /\ c.subject # e.subject
  OBVIOUS
<1> HIDE DEF C
<1>6. c \in E
  BY <1>1, <1>5
<1>7. c.id \in Ids(E) /\ c.id \in 1..n /\ ById(E, c.id) = c
  BY <1>1, <1>6, Named
<1>8. \A i \in Ids(E) : ById(T, i) = ById(E, i)
  BY <1>1, Grown
<1>9. ById(T, c.id) = c
  BY <1>7, <1>8
<1>10. E \subseteq T /\ e \in T
  BY <1>1 DEF Grows
<1>11. c.id # 0
  BY <1>7
<1>12. c.id # e.supersedes
  BY <1>5, <1>9, <1>10, <1>11 DEF Linked
<1>13. PICK d \in C : d.supersedes = c.id
  BY <1>5, <1>12, ChangedAbove DEF C
<1>14. d \in E /\ d.id > c.id /\ d.id \in Nat
  <2>1. d \in E
    BY <1>1
  <2> QED BY <1>1, <1>13, <2>1 DEF Shaped
<1>15. d.subject = c.subject
  BY <1>9, <1>10, <1>11, <1>13, <1>14 DEF Linked
<1>16. d.id \in W
  BY <1>5, <1>13, <1>15
<1> HIDE DEF W
<1> QED BY <1>3, <1>4, <1>7, <1>14, <1>16

-----------------------------------------------------------------------------
(* Every live entry fits the records as they stood when it happened.       *)

Unended(w) == {i \in DOMAIN w : w[i].to = None}

\* What the checks of a transition ask, the limits of the part aside.
Fits(r, e) ==
    /\ e.kind \in {"work_order.state", "work_order.close"} =>
          /\ e.details.work \in DOMAIN AircraftOn(r, e.subject).orders
          /\ AircraftOn(r, e.subject).orders[e.details.work].closed = None
    /\ e.kind = "component.install" =>
          e.subject \in DOMAIN r.parts /\ Unended(r.parts[e.subject].windows) = {}
    /\ e.kind = "component.remove" =>
          /\ e.subject \in DOMAIN r.parts
          /\ LET w == r.parts[e.subject].windows
             IN  Unended(w) # {} /\ w[Min(Unended(w))].aircraft = e.details.aircraft

FitsAll(E) == \A x \in Live(E) : Fits(ProjectBefore(E, x), x)

LEMMA OrdersAre ==
    ASSUME NEW r, NEW k
    PROVE  OrdersOn(r, k) = AircraftOn(r, k).orders
BY DEF OrdersOn, AircraftOn, NoAircraft

LEMMA TransitionFits ==
    ASSUME NEW logs, NEW r, NEW e, TransitionHolds(logs, r, e)
    PROVE  Fits(r, e)
<1>1. PICK o : o = OrdersOn(r, e.subject) /\ o = AircraftOn(r, e.subject).orders
  BY OrdersAre
<1>2. CASE e.kind \in {"work_order.state", "work_order.close"}
  BY <1>1, <1>2 DEF TransitionHolds, Fits
<1>3. CASE e.kind = "component.install"
  BY <1>3 DEF TransitionHolds, Fits, Unended
<1>4. CASE e.kind = "component.remove"
  BY <1>4 DEF TransitionHolds, Fits, Unended
<1>5. CASE e.kind \notin {"work_order.state", "work_order.close",
                          "component.install", "component.remove"}
  BY <1>5 DEF Fits
<1> QED BY <1>2, <1>3, <1>4, <1>5

LEMMA FitsAlike ==
    ASSUME NEW r, NEW q, NEW e, Alike(r, q, e.subject), Fits(r, e)
    PROVE  Fits(q, e)
BY DEF Alike, Fits

\* The entries a projection as e found it folds.
Prior(E, x) == {y \in Live(E) : Earlier(E, y, x)}

\* What an entry found is judged again, or is as it was.
LEMMA KeepsPast ==
    ASSUME NEW E, LedgerHolds(E), NEW logs, NEW T, NEW e, Writes(E, logs, T, e),
           NEW x \in Live(E), x \in Live(T), x.kind # "retraction"
    PROVE  \/ TransitionHolds(logs, ProjectBefore(T, x), x)
           \/ Alike(ProjectBefore(E, x), ProjectBefore(T, x), x.subject)
<1> DEFINE n == Cardinality(E)
<1>1. n \in Nat /\ Takes(E, n, T, e) /\ Grows(E, n, T, e) /\ Linked(T)
  BY Taken DEF Takes
<1> HIDE DEF n
<1>2. /\ Shaped(E, n) /\ n + 1 \in Nat /\ Shaped(T, n + 1) /\ T = E \cup {e} /\ e \notin E
      /\ e \in Live(T)
  BY <1>1, Grown DEF Grows
<1>3. Live(T) \subseteq T /\ Live(E) \subseteq E /\ x \in E /\ x \in T
  BY <1>1, <1>2, LiveIs
<1>4. \A y \in E : RootId(T, y) = RootId(E, y)
  BY <1>1, GrownKeeps
<1> DEFINE corrected == IF e.supersedes = 0 THEN e ELSE ById(E, e.supersedes)
<1> DEFINE C == {corrected} \cup Revived(E, T, e) \cup Ended(E, T)
<1> DEFINE cut == FirstInFold(T, C)
<1>5. corrected \in T
  BY <1>1, <1>2, Named DEF Grows
<1>6. C \in SUBSET T /\ C # {}
  BY <1>2, <1>3, <1>5 DEF Revived, Returned, Ended
<1>7. cut \in T /\ \A y \in C : ~Earlier(T, y, cut)
  <2> HIDE DEF C
  <2> QED BY <1>2, <1>6, FirstIs
<1>8. CASE x.subject = e.subject /\ Earlier(T, cut, x)
  <2>1. LaterEntriesStillHold(E, T, logs, e)
    BY DEF Writes, Acceptable
  <2>2. x \in Live(T) \ {e}
    BY <1>2, <1>3
  <2> QED BY <1>8, <2>1, <2>2 DEF LaterEntriesStillHold, Earlier
<1>9. CASE ~(x.subject = e.subject /\ Earlier(T, cut, x))
  <2>1. ASSUME NEW y \in T, Records(y, x.subject), Earlier(T, y, x),
               y = e \/ y \in Changed(E, T)
        PROVE  FALSE
    <3>1. y.kind # "retraction" /\ y.subject = x.subject
      BY <2>1 DEF Records, AircraftKinds, ComponentKinds
    <3>2. y.subject = e.subject
      BY <1>1, <2>1, ChangedSubject
    <3>3. ~Earlier(T, cut, x)
      BY <1>9, <3>1, <3>2
    <3>4. \E c \in C : FoldKey(T, c) = FoldKey(T, y)
      <4>1. CASE y = e
        <5>1. CASE e.supersedes = 0
          BY <4>1, <5>1
        <5>2. CASE e.supersedes # 0
          <6>1. /\ e.supersedes \in Ids(T) /\ e \in T
                /\ corrected = ById(T, e.supersedes)
            BY <1>1, <1>2, <5>2, Grown DEF Grows
          <6>2. RootId(T, e) = RootId(T, corrected)
            BY <1>2, <6>1, RootIs
          <6>3. corrected.at = e.at
            BY <1>1, <3>1, <4>1, <5>2, <6>1 DEF Linked
          <6> QED BY <4>1, <6>2, <6>3 DEF FoldKey
        <5> QED BY <5>1, <5>2
      <4>2. CASE y \in Changed(E, T)
        <5>1. y \in E /\ y # e
          BY <1>2, <4>2 DEF Changed
        <5>2. y \in Live(E) <=> y.id \in LiveIds(E)
          BY <1>1, <1>2, <5>1, LiveIs
        <5>3. y \in Live(T) <=> y.id \in LiveIds(T)
          BY <1>2, <2>1, LiveIs
        <5>4. y \in Revived(E, T, e) \/ y \in Ended(E, T)
          BY <3>1, <4>2, <5>1, <5>2, <5>3 DEF Changed, Revived, Returned, Ended
        <5> QED BY <5>4
      <4> QED BY <2>1, <4>1, <4>2
    <3>5. PICK c \in C : FoldKey(T, c) = FoldKey(T, y)
      BY <3>4
    <3>6. Earlier(T, c, x) /\ ~Earlier(T, c, cut) /\ c \in T
      BY <1>6, <1>7, <2>1, <3>5 DEF Earlier
    <3> HIDE DEF C, cut
    <3>7. /\ Earlier(T, c, x) <=> c.at < x.at \/ (c.at = x.at /\ RootId(T, c) < RootId(T, x))
          /\ x.at \in Nat /\ c.at \in Nat /\ RootId(T, c) \in Nat /\ RootId(T, x) \in Nat
      BY <1>2, <1>3, <3>6, EarlierIs
    <3>8. /\ Earlier(T, cut, x) <=>
                cut.at < x.at \/ (cut.at = x.at /\ RootId(T, cut) < RootId(T, x))
          /\ cut.at \in Nat /\ RootId(T, cut) \in Nat
      BY <1>2, <1>3, <1>7, EarlierIs
    <3>9. Earlier(T, c, cut) <=> c.at < cut.at \/ (c.at = cut.at /\ RootId(T, c) < RootId(T, cut))
      BY <1>2, <1>7, <3>6, EarlierIs
    <3> QED BY <3>3, <3>6, <3>7, <3>8, <3>9
  <2>2. Prior(E, x) \subseteq E /\ Prior(E, x) \subseteq T /\ Prior(T, x) \subseteq T
    BY <1>2, <1>3 DEF Prior
  <2>3. ASSUME NEW y \in T, Records(y, x.subject) PROVE y \in Prior(E, x) <=> y \in Prior(T, x)
    <3>1. CASE y = e \/ y \in Changed(E, T)
      <4>1. ~Earlier(T, y, x)
        BY <2>1, <2>3, <3>1
      <4>2. y \in E => ~Earlier(E, y, x)
        BY <1>3, <1>4, <4>1 DEF Earlier, FoldKey
      <4> QED BY <1>3, <4>1, <4>2 DEF Prior
    <3>2. CASE y # e /\ y \notin Changed(E, T)
      <4>1. y \in E /\ (y \in Live(E) <=> y \in Live(T))
        BY <1>2, <3>2 DEF Changed
      <4>2. Earlier(E, y, x) <=> Earlier(T, y, x)
        BY <1>3, <1>4, <4>1 DEF Earlier, FoldKey
      <4> QED BY <4>1, <4>2 DEF Prior
    <3> QED BY <3>1, <3>2
  <2>4. Alike(Fold(T, Prior(E, x)), Fold(T, Prior(T, x)), x.subject)
    <3>1. PICK S \in SUBSET T : S = Prior(E, x)
      BY <2>2
    <3>2. PICK Q \in SUBSET T : Q = Prior(T, x)
      BY <2>2
    <3>3. \A y \in T : Records(y, x.subject) => (y \in S <=> y \in Q)
      BY <2>3, <3>1, <3>2
    <3>4. PICK m \in Nat : Shaped(T, m)
      BY <1>2
    <3>5. Alike(Fold(T, S), Fold(T, Q), x.subject)
      BY <3>3, <3>4, FoldOnly
    <3> QED BY <3>1, <3>2, <3>5
  <2>5. Fold(E, Prior(E, x)) = Fold(T, Prior(E, x))
    <3>1. \A y \in Prior(E, x) : RootId(E, y) = RootId(T, y)
      BY <1>4, <2>2
    <3>2. PICK m \in Nat : Shaped(T, m)
      BY <1>2
    <3> QED BY <1>1, <1>2, <2>2, <3>1, <3>2, FoldSame
  <2>6. ProjectBefore(E, x) = Fold(E, Prior(E, x)) /\ ProjectBefore(T, x) = Fold(T, Prior(T, x))
    BY DEF ProjectBefore, Prior, Earlier
  <2> QED BY <2>4, <2>5, <2>6
<1> QED BY <1>8, <1>9

LEMMA KeepsFits ==
    ASSUME NEW E, LedgerHolds(E), FitsAll(E), NEW logs, NEW T, NEW e, Writes(E, logs, T, e)
    PROVE  FitsAll(T)
<1> SUFFICES ASSUME NEW x \in Live(T) PROVE Fits(ProjectBefore(T, x), x)
  BY DEF FitsAll
<1> DEFINE n == Cardinality(E)
<1>1. n \in Nat /\ Grows(E, n, T, e)
  BY Taken DEF Takes
<1> HIDE DEF n
<1>2. /\ Shaped(E, n) /\ n + 1 \in Nat /\ Shaped(T, n + 1) /\ T = E \cup {e} /\ e \notin E
  BY <1>1, Grown DEF Grows
<1>3. Live(T) \subseteq T
  BY <1>2, LiveIs
<1>4. CASE x.kind = "retraction"
  BY <1>4 DEF Fits
<1>5. CASE x = e
  <2>1. TransitionHolds(logs, ProjectBefore(T, e), e)
    BY DEF Writes, Acceptable
  <2> QED BY <1>5, <2>1, TransitionFits
<1>6. CASE x # e /\ x \notin Live(E) /\ x.kind # "retraction"
  <2>1. x \in E
    BY <1>2, <1>3, <1>6
  <2>2. x.id \notin LiveIds(E)
    BY <1>1, <1>2, <1>6, <2>1, LiveIs
  <2>3. x \in Returned(E, T, e)
    BY <1>6, <2>2 DEF Returned
  <2>4. RevivedEntriesHold(E, T, logs, e)
    BY DEF Writes, Acceptable
  <2>5. TransitionHolds(logs, ProjectBefore(T, x), x)
    BY <1>6, <2>3, <2>4 DEF RevivedEntriesHold
  <2> QED BY <2>5, TransitionFits
<1>7. CASE x \in Live(E) /\ x.kind # "retraction"
  <2>1. Fits(ProjectBefore(E, x), x)
    BY <1>7 DEF FitsAll
  <2>2. \/ TransitionHolds(logs, ProjectBefore(T, x), x)
        \/ Alike(ProjectBefore(E, x), ProjectBefore(T, x), x.subject)
    BY <1>7, KeepsPast
  <2> QED BY <2>1, <2>2, TransitionFits, FitsAlike
<1> QED BY <1>4, <1>5, <1>6, <1>7

-----------------------------------------------------------------------------
(* The shape of a part's record, and its windows after an entry.           *)

IsPart(c) ==
    c = [kind |-> c.kind, since |-> c.since, hours |-> c.hours, cycles |-> c.cycles,
         windows |-> c.windows, registered |-> c.registered]

Fitting(e) == [aircraft |-> e.details.aircraft, from |-> e.at, to |-> None]
TakenOff(w, e) ==
    [i \in DOMAIN w |-> IF i \in FirstOpen(w, e.details.aircraft)
                        THEN [w[i] EXCEPT !.to = e.at] ELSE w[i]]

LEMMA PartOf ==
    ASSUME NEW a, NEW b, NEW d, NEW f, NEW g, NEW h
    PROVE  LET c == [kind |-> a, since |-> b, hours |-> d, cycles |-> f,
                     windows |-> g, registered |-> h]
           IN  IsPart(c) /\ c.windows = g
BY DEF IsPart

LEMMA PartWith ==
    ASSUME NEW c, IsPart(c), NEW w
    PROVE  IsPart([c EXCEPT !.windows = w]) /\ [c EXCEPT !.windows = w].windows = w
<1> DEFINE Part(a, b, d, f, g, h) ==
        [kind |-> a, since |-> b, hours |-> d, cycles |-> f, windows |-> g, registered |-> h]
<1>1. PICK a, b, d, f, g, h : c = Part(a, b, d, f, g, h)
  BY DEF IsPart
<1>2. [c EXCEPT !.windows = w] = Part(a, b, d, f, w, h)
  BY <1>1
<1> QED BY <1>2 DEF IsPart

LEMMA FoldPartAt ==
    ASSUME NEW p, NEW e, \A k \in DOMAIN p : IsPart(p[k])
    PROVE  LET q == FoldPart(p, e)
               k == e.subject
           IN  /\ \A j \in DOMAIN q : IsPart(q[j])
               /\ e.kind = "component.register" => q[k].windows = <<>>
               /\ e.kind = "component.install" /\ k \in DOMAIN p =>
                     q[k].windows = Append(p[k].windows, Fitting(e))
               /\ e.kind = "component.remove" /\ k \in DOMAIN p =>
                     q[k].windows = TakenOff(p[k].windows, e)
<1> DEFINE k == e.subject
<1> DEFINE d == e.details
<1> SUFFICES ASSUME NEW q, q = FoldPart(p, e)
             PROVE  /\ \A j \in DOMAIN q : IsPart(q[j])
                    /\ e.kind = "component.register" => q[k].windows = <<>>
                    /\ e.kind = "component.install" /\ k \in DOMAIN p =>
                          q[k].windows = Append(p[k].windows, Fitting(e))
                    /\ e.kind = "component.remove" /\ k \in DOMAIN p =>
                          q[k].windows = TakenOff(p[k].windows, e)
  OBVIOUS
<1>1. /\ DOMAIN q = IF e.kind = "component.register" THEN DOMAIN p \cup {k} ELSE DOMAIN p
      /\ \A j \in DOMAIN p : j # k => q[j] = p[j]
  BY FoldPartIs
<1>2. CASE e.kind = "component.register"
  <2> DEFINE new == [kind |-> d.kind, since |-> d.since, hours |-> d.hours,
                     cycles |-> d.cycles, windows |-> <<>>, registered |-> e.at]
  <2>1. q[k] = new
    <3>1. q = WithKey(p, k, new)
      BY <1>2 DEF FoldPart
    <3> HIDE DEF new
    <3> QED BY <3>1 DEF WithKey
  <2>2. IsPart(new) /\ new.windows = <<>>
    BY PartOf
  <2> HIDE DEF new
  <2> QED BY <1>1, <1>2, <2>1, <2>2
<1>3. CASE e.kind = "component.install" /\ k \in DOMAIN p
  <2>1. PICK c : c = p[k] /\ IsPart(c)
    BY <1>3
  <2>2. PICK w : w = Append(c.windows, Fitting(e))
    OBVIOUS
  <2>3. q[k] = [c EXCEPT !.windows = w]
    <3>1. q = [p EXCEPT ![k] = [c EXCEPT !.windows = w]]
      BY <1>3, <2>1, <2>2 DEF FoldPart, Fitting
    <3> QED BY <1>3, <3>1
  <2>4. IsPart(q[k]) /\ q[k].windows = w
    BY <2>1, <2>3, PartWith
  <2> QED BY <1>1, <1>3, <2>1, <2>2, <2>4
<1>4. CASE e.kind = "component.remove" /\ k \in DOMAIN p
  <2>1. PICK c : c = p[k] /\ IsPart(c)
    BY <1>4
  <2>2. PICK w : w = TakenOff(c.windows, e)
    OBVIOUS
  <2>3. q[k] = [c EXCEPT !.windows = w]
    <3>1. q = [p EXCEPT ![k] = [c EXCEPT !.windows = w]]
      BY <1>4, <2>1, <2>2 DEF FoldPart, TakenOff
    <3> QED BY <1>4, <3>1
  <2>4. IsPart(q[k]) /\ q[k].windows = w
    BY <2>1, <2>3, PartWith
  <2> QED BY <1>1, <1>4, <2>1, <2>2, <2>4
<1>5. CASE e.kind # "component.register"
           /\ ~(e.kind \in {"component.install", "component.remove"} /\ k \in DOMAIN p)
  <2>1. q = p
    <3>1. /\ ~(e.kind = "component.install" /\ k \in DOMAIN p)
          /\ ~(e.kind = "component.remove" /\ k \in DOMAIN p)
      BY <1>5
    <3> QED BY <1>5, <3>1 DEF FoldPart
  <2> QED BY <1>5, <2>1
<1> QED BY <1>2, <1>3, <1>4, <1>5

PartsAre(r) == \A k \in DOMAIN r.parts : IsPart(r.parts[k])

LEMMA FoldedPartsAre ==
    ASSUME NEW r, AreRecords(r), PartsAre(r), NEW e
    PROVE  PartsAre(Folded(r, e))
<1>1. PICK p : p = r.parts
  OBVIOUS
<1>2. \A k \in DOMAIN p : IsPart(p[k])
  BY <1>1 DEF PartsAre
<1>3. Folded(r, e).parts = IF e.kind \in ComponentKinds THEN FoldPart(p, e) ELSE p
  BY <1>1, FoldedParts
<1>4. \A k \in DOMAIN FoldPart(p, e) : IsPart(FoldPart(p, e)[k])
  BY <1>2, FoldPartAt
<1> QED BY <1>2, <1>3, <1>4 DEF PartsAre

LEMMA FoldPartsAre ==
    ASSUME NEW n \in Nat, NEW E, Shaped(E, n), NEW S \in SUBSET E
    PROVE  AreRecords(Fold(E, S)) /\ PartsAre(Fold(E, S))
<1> DEFINE G == {s \in SUBSET S : PartsAre(Fold(E, s))}
<1>1. {} \in G
  <2>1. {} \in SUBSET E
    OBVIOUS
  <2>2. Fold(E, {}) = NoRecords
    BY <2>1, FoldStep
  <2>3. NoRecords.parts = <<>>
    BY DEF NoRecords
  <2>4. PartsAre(NoRecords)
    BY <2>3 DEF PartsAre
  <2> QED BY <2>2, <2>4
<1>2. ASSUME NEW s \in SUBSET S, s # {}, s \ {LastInFold(E, s)} \in G PROVE s \in G
  <2> DEFINE l == LastInFold(E, s)
  <2> DEFINE rest == s \ {l}
  <2>1. s \in SUBSET E /\ rest \in SUBSET E
    OBVIOUS
  <2>2. Fold(E, s) = Folded(Fold(E, rest), l)
    BY <1>2, <2>1, FoldStep
  <2>3. PartsAre(Fold(E, rest))
    BY <1>2
  <2>4. PICK r : r = Fold(E, rest)
    OBVIOUS
  <2>5. AreRecords(r)
    <3> HIDE DEF rest
    <3> QED BY <2>1, <2>4, FoldShows
  <2> HIDE DEF rest, l
  <2>6. PartsAre(Folded(r, l))
    BY <2>3, <2>4, <2>5, FoldedPartsAre
  <2> QED BY <2>2, <2>4, <2>6
<1>3. S \in G
  <2> HIDE DEF G
  <2>1. Gathers(E, S, G)
    BY <1>1, <1>2 DEF Gathers
  <2> QED BY <2>1, FoldInduction
<1> QED BY <1>3, FoldShows

\* An entry that fits the records passes the checks of a transition in them, limits aside.
LEMMA FittingHolds ==
    ASSUME NEW r, AreRecords(r), PartsAre(r), NEW e, Fits(r, e), NEW logs
    PROVE  TransitionHolds(logs, WithoutLimits(r), e)
<1>0. PICK q : q = WithoutLimits(r)
  OBVIOUS
<1> DEFINE Pair(x, y) == [aircraft |-> x, parts |-> y]
<1>1. PICK a, p : r = Pair(a, p)
  BY DEF AreRecords
<1>2. r.aircraft = a /\ r.parts = p
  BY <1>1
<1>3. PICK b : b = [k \in DOMAIN p |-> NoLimits(p[k])]
  OBVIOUS
<1>4. q = Pair(a, b)
  <2>1. q = [r EXCEPT !.parts = b]
    BY <1>0, <1>2, <1>3 DEF WithoutLimits
  <2> QED BY <1>1, <2>1
<1>5. q.aircraft = a /\ q.parts = b
  BY <1>4
<1>6. DOMAIN b = DOMAIN p
  BY <1>3
<1>7. ASSUME NEW k \in DOMAIN p PROVE b[k].kind = None /\ b[k].windows = p[k].windows
  <2>1. b[k] = NoLimits(p[k]) /\ IsPart(p[k])
    BY <1>2, <1>3 DEF PartsAre
  <2>2. PICK c : c = p[k]
    OBVIOUS
  <2> DEFINE Part(s, t, d, f, g, h) ==
          [kind |-> s, since |-> t, hours |-> d, cycles |-> f, windows |-> g, registered |-> h]
  <2>3. PICK s, t, d, f, g, h : c = Part(s, t, d, f, g, h)
    BY <2>1, <2>2 DEF IsPart
  <2>4. b[k] = [c EXCEPT !.kind = None]
    BY <2>1, <2>2 DEF NoLimits
  <2>5. b[k] = Part(None, t, d, f, g, h)
    BY <2>3, <2>4
  <2> QED BY <2>2, <2>3, <2>5
<1>8. ASSUME NEW k \in DOMAIN p PROVE ~LimitReached(logs, b[k], e.at)
  <2>1. None \notin DOMAIN PartRules
    BY LifeAssumption DEF Policy
  <2> QED BY <1>7, <2>1 DEF LimitReached
<1>9. AircraftOn(r, e.subject).orders = OrdersOn(q, e.subject)
  <2>1. AircraftOn(r, e.subject) = AircraftOn(q, e.subject)
    BY <1>2, <1>5 DEF AircraftOn
  <2> QED BY <2>1, OrdersAre
<1>10. ASSUME e.kind \in {"work_order.state", "work_order.close"} PROVE TransitionHolds(logs, q, e)
  <2>1. PICK o : o = OrdersOn(q, e.subject) /\ o = AircraftOn(r, e.subject).orders
    BY <1>9
  <2>2. e.details.work \in DOMAIN o /\ o[e.details.work].closed = None
    BY <1>10, <2>1 DEF Fits
  <2> QED BY <1>10, <2>1, <2>2 DEF TransitionHolds
<1>11. ASSUME e.kind = "component.install" PROVE TransitionHolds(logs, q, e)
  <2>1. e.subject \in DOMAIN p /\ Unended(p[e.subject].windows) = {}
    BY <1>2, <1>11 DEF Fits
  <2>2. /\ e.subject \in DOMAIN b /\ Unended(b[e.subject].windows) = {}
        /\ ~LimitReached(logs, b[e.subject], e.at)
    BY <1>6, <1>7, <1>8, <2>1
  <2> QED BY <1>5, <1>11, <2>2 DEF TransitionHolds, Unended
<1>12. ASSUME e.kind = "component.remove" PROVE TransitionHolds(logs, q, e)
  <2>1. PICK w : w = p[e.subject].windows
    OBVIOUS
  <2>2. /\ e.subject \in DOMAIN p /\ Unended(w) # {}
        /\ w[Min(Unended(w))].aircraft = e.details.aircraft
    BY <1>2, <1>12, <2>1 DEF Fits
  <2>3. e.subject \in DOMAIN b /\ b[e.subject].windows = w
    BY <1>6, <1>7, <2>1, <2>2
  <2> QED BY <1>5, <1>12, <2>2, <2>3 DEF TransitionHolds, Unended
<1>13. ASSUME e.kind \notin {"work_order.state", "work_order.close",
                             "component.install", "component.remove"}
       PROVE  TransitionHolds(logs, q, e)
  BY <1>13 DEF TransitionHolds
<1> QED BY <1>10, <1>11, <1>12, <1>13, <1>0

\* The inductive invariant with it.
RecordsInv == LedgerInv /\ FitsAll(entries)

\* Whatever is written, before or after it, and whatever comes back from a retraction or is
\* ended by one, every live entry fits the records as they stood when it happened (validate.py
\* _transitions, _revived, _later_entries_still_hold).
THEOREM LedgerFits == Spec => []RecordsInv
<1>1. ASSUME Init PROVE RecordsInv
  <2>1. LedgerInv /\ entries = {}
    BY <1>1, LedgerInit DEF Init
  <2>2. Live({}) = {}
    BY DEF Live
  <2> QED BY <2>1, <2>2 DEF RecordsInv, FitsAll
<1>2. ASSUME RecordsInv, [Next]_vars PROVE RecordsInv'
  <2>1. LedgerInv /\ FitsAll(entries) /\ LedgerHolds(entries)
    BY <1>2 DEF RecordsInv, LedgerInv
  <2>2. LedgerInv'
    BY <1>2, <2>1, LedgerNext
  <2>3. entries' = entries \/ \E e : Writes(entries, flights, entries', e)
    BY <1>2, <2>1, LedgerStep
  <2>4. CASE entries' = entries
    BY <2>1, <2>2, <2>4 DEF RecordsInv
  <2>5. CASE \E e : Writes(entries, flights, entries', e)
    <3>1. FitsAll(entries')
      BY <2>1, <2>5, KeepsFits
    <3> QED BY <2>2, <3>1 DEF RecordsInv
  <2> QED BY <2>3, <2>4, <2>5
<1> QED BY <1>1, <1>2, PTL DEF Spec

\* What a projection as an entry found it folds.
LEMMA BeforeIs ==
    ASSUME NEW E, NEW x
    PROVE  ProjectBefore(E, x) = Fold(E, Prior(E, x))
BY DEF ProjectBefore, Prior, Earlier

LEMMA RecordsFit ==
    ASSUME RecordsInv
    PROVE  LiveEntriesHold
<1> DEFINE n == Cardinality(entries)
<1>1. /\ n \in Nat /\ Shaped(entries, n) /\ FitsAll(entries)
  BY FS_CardinalityType DEF RecordsInv, LedgerInv, LedgerHolds, Shaped
<1> HIDE DEF n
<1> SUFFICES ASSUME NEW e \in Live(entries)
             PROVE  TransitionHolds(flights, WithoutLimits(ProjectBefore(entries, e)), e)
  BY DEF LiveEntriesHold
<1>2. PICK r : r = ProjectBefore(entries, e)
  OBVIOUS
<1>3. Prior(entries, e) \in SUBSET entries
  BY <1>1, LiveIs DEF Prior
<1>4. AreRecords(r) /\ PartsAre(r)
  BY <1>1, <1>2, <1>3, BeforeIs, FoldPartsAre
<1>5. Fits(r, e)
  BY <1>1, <1>2 DEF FitsAll
<1> QED BY <1>2, <1>4, <1>5, FittingHolds

-----------------------------------------------------------------------------
(* The windows of a part, entries at places of their own.                  *)

\* One after another, all begun by t, and all but the last ended by then.
InTurn(w, t) ==
    /\ \E S : w \in Seq(S)
    /\ \A i \in DOMAIN w :
          /\ w[i] = [aircraft |-> w[i].aircraft, from |-> w[i].from, to |-> w[i].to]
          /\ w[i].from \in Nat /\ w[i].from <= t
          /\ \/ w[i].to \in Nat /\ w[i].to <= t
             \/ w[i].to = None /\ i = Len(w)
    /\ \A i, j \in DOMAIN w : i < j => w[i].to <= w[j].from

LEMMA InTurnLater ==
    ASSUME NEW t \in Nat, NEW u \in Nat, t <= u, NEW w, InTurn(w, t)
    PROVE  InTurn(w, u)
<1>1. \A a \in Nat : a <= t => a <= u
  OBVIOUS
<1> QED BY <1>1 DEF InTurn

LEMMA InTurnFitted ==
    ASSUME NEW e, e.at \in Nat, NEW w, InTurn(w, e.at), Unended(w) = {}
    PROVE  InTurn(Append(w, Fitting(e)), e.at)
<1> DEFINE v == Append(w, Fitting(e))
<1> DEFINE m == Len(w)
<1>1. PICK S : w \in Seq(S)
  BY DEF InTurn
<1>2. /\ v \in Seq(S \cup {Fitting(e)})
      /\ m \in Nat /\ DOMAIN w = 1..m /\ DOMAIN v = 1..(m + 1) /\ Len(v) = m + 1
      /\ \A i \in 1..m : v[i] = w[i]
      /\ v[m + 1] = Fitting(e)
  BY <1>1
<1> HIDE DEF v, m
<1>3. ASSUME NEW i \in 1..m
      PROVE  /\ w[i] = [aircraft |-> w[i].aircraft, from |-> w[i].from, to |-> w[i].to]
             /\ w[i].from \in Nat /\ w[i].from <= e.at
             /\ w[i].to \in Nat /\ w[i].to <= e.at
  <2>1. w[i].to # None
    BY <1>2 DEF Unended
  <2> QED BY <1>2, <2>1 DEF InTurn
<1>4. /\ Fitting(e) = [aircraft |-> Fitting(e).aircraft, from |-> Fitting(e).from,
                       to |-> Fitting(e).to]
      /\ Fitting(e).from = e.at /\ Fitting(e).to = None
  BY DEF Fitting
<1>5. ASSUME NEW i \in DOMAIN v
      PROVE  /\ v[i] = [aircraft |-> v[i].aircraft, from |-> v[i].from, to |-> v[i].to]
             /\ v[i].from \in Nat /\ v[i].from <= e.at
             /\ \/ v[i].to \in Nat /\ v[i].to <= e.at
                \/ v[i].to = None /\ i = Len(v)
  <2>1. CASE i \in 1..m
    BY <1>2, <1>3, <2>1
  <2>2. CASE i = m + 1
    BY <1>2, <1>4, <2>2
  <2> QED BY <1>2, <2>1, <2>2
<1>6. ASSUME NEW i \in DOMAIN v, NEW j \in DOMAIN v, i < j PROVE v[i].to <= v[j].from
  <2>1. i \in 1..m
    BY <1>2, <1>6
  <2>2. CASE j \in 1..m
    <3>1. w[i].to <= w[j].from
      BY <1>2, <1>6, <2>1, <2>2 DEF InTurn
    <3> QED BY <1>2, <2>1, <2>2, <3>1
  <2>3. CASE j = m + 1
    BY <1>2, <1>3, <1>4, <2>1, <2>3
  <2> QED BY <1>2, <2>2, <2>3
<1>7. \E Q : v \in Seq(Q)
  BY <1>2
<1>8. InTurn(v, e.at)
  BY <1>5, <1>6, <1>7 DEF InTurn
<1> QED BY <1>8 DEF v

LEMMA InTurnTakenOff ==
    ASSUME NEW e, e.at \in Nat, NEW w, InTurn(w, e.at)
    PROVE  InTurn(TakenOff(w, e), e.at)
<1> DEFINE v == TakenOff(w, e)
<1> DEFINE m == Len(w)
<1>1. PICK S : w \in Seq(S)
  BY DEF InTurn
<1>2. m \in Nat /\ DOMAIN w = 1..m
  BY <1>1
<1>3. DOMAIN v = 1..m
  BY <1>2 DEF TakenOff
<1> DEFINE Q == {v[i] : i \in 1..m}
<1>4. v \in Seq(Q) /\ Len(v) = m
  <2>1. v = [i \in 1..m |-> v[i]]
    BY <1>2 DEF TakenOff
  <2> HIDE DEF v
  <2>2. v \in [1..m -> Q]
    BY <2>1
  <2> HIDE DEF Q, m
  <2> QED BY <1>2, <2>2
<1>5. ASSUME NEW i \in 1..m
      PROVE  \/ v[i] = w[i]
             \/ i = m /\ w[i].to = None /\ v[i] = [w[i] EXCEPT !.to = e.at]
  <2>1. v[i] = IF i \in FirstOpen(w, e.details.aircraft) THEN [w[i] EXCEPT !.to = e.at] ELSE w[i]
    BY <1>2 DEF TakenOff
  <2>2. i \in FirstOpen(w, e.details.aircraft) => w[i].to = None
    BY DEF FirstOpen
  <2>3. w[i].to = None => i = m
    <3>1. w[i].to \in Nat \/ i = m
      BY <1>2 DEF InTurn
    <3> QED BY <3>1, LedgerAssumption
  <2> HIDE DEF v, m
  <2> QED BY <2>1, <2>2, <2>3
<1> HIDE DEF v, m, Q
<1>6. ASSUME NEW i \in 1..m
      PROVE  /\ v[i] = [aircraft |-> v[i].aircraft, from |-> v[i].from, to |-> v[i].to]
             /\ v[i].from = w[i].from
             /\ v[i].to = w[i].to \/ (i = m /\ v[i].to = e.at)
  <2>1. w[i] = [aircraft |-> w[i].aircraft, from |-> w[i].from, to |-> w[i].to]
    BY <1>2 DEF InTurn
  <2>2. CASE v[i] = w[i]
    BY <2>1, <2>2
  <2>3. CASE i = m /\ v[i] = [w[i] EXCEPT !.to = e.at]
    <3>1. PICK x : x = w[i]
      OBVIOUS
    <3>2. PICK a, f, t : x = [aircraft |-> a, from |-> f, to |-> t]
      BY <2>1, <3>1
    <3>3. v[i] = [aircraft |-> a, from |-> f, to |-> e.at]
      BY <2>3, <3>1, <3>2
    <3> QED BY <2>3, <3>1, <3>2, <3>3
  <2> QED BY <1>5, <2>2, <2>3
<1>7. ASSUME NEW i \in DOMAIN v
      PROVE  /\ v[i] = [aircraft |-> v[i].aircraft, from |-> v[i].from, to |-> v[i].to]
             /\ v[i].from \in Nat /\ v[i].from <= e.at
             /\ \/ v[i].to \in Nat /\ v[i].to <= e.at
                \/ v[i].to = None /\ i = Len(v)
  <2>1. /\ w[i].from \in Nat /\ w[i].from <= e.at
        /\ \/ w[i].to \in Nat /\ w[i].to <= e.at
           \/ w[i].to = None /\ i = m
    BY <1>2, <1>3 DEF InTurn, m
  <2> QED BY <1>3, <1>4, <1>6, <2>1
<1>8. ASSUME NEW i \in DOMAIN v, NEW j \in DOMAIN v, i < j PROVE v[i].to <= v[j].from
  <2>1. w[i].to <= w[j].from
    BY <1>2, <1>3, <1>8 DEF InTurn
  <2>2. i # m
    BY <1>2, <1>3, <1>8
  <2> QED BY <1>3, <1>6, <2>1, <2>2
<1>9. \E P : v \in Seq(P)
  BY <1>4
<1>10. InTurn(v, e.at)
  BY <1>7, <1>8, <1>9 DEF InTurn
<1> QED BY <1>10 DEF v

\* At one moment a part whose windows are one after another is in one of them at most.
LEMMA OneWindow ==
    ASSUME NEW c, NEW u, InTurn(c.windows, u), NEW t \in Int,
           NEW i \in DOMAIN c.windows, NEW j \in DOMAIN c.windows,
           InWindow(t, c.windows[i]), InWindow(t, c.windows[j])
    PROVE  i = j
<1>1. PICK w : w = c.windows
  OBVIOUS
<1>2. ASSUME NEW a \in DOMAIN w, NEW b \in DOMAIN w, InWindow(t, w[a]), InWindow(t, w[b]), a < b
      PROVE  FALSE
  <2>1. PICK S : w \in Seq(S)
    BY <1>1 DEF InTurn
  <2>2. DOMAIN w = 1..Len(w) /\ Len(w) \in Nat
    BY <2>1
  <2>3. a # Len(w)
    BY <1>2, <2>2
  <2>4. w[a].to \in Nat /\ w[b].from \in Nat /\ w[a].to <= w[b].from
    BY <1>1, <1>2, <2>3 DEF InTurn
  <2>5. t < w[a].to /\ w[b].from <= t
    BY <1>2, <2>4, LedgerAssumption DEF InWindow
  <2> QED BY <2>4, <2>5
<1>3. DOMAIN w \subseteq Int
  <2>1. PICK S : w \in Seq(S)
    BY <1>1 DEF InTurn
  <2> QED BY <2>1
<1>4. i \in Int /\ j \in Int
  BY <1>1, <1>3
<1> QED BY <1>1, <1>2, <1>4

\* Entries of one subject, none a retraction, at places of their own are folded in the order
\* of those.
LEMMA EarlierBefore ==
    ASSUME NEW n \in Nat, NEW E, Shaped(E, n), NEW x \in E, NEW y \in E
    PROVE  /\ Earlier(E, x, y) => x # y /\ Before(E, x, y) /\ ~Before(E, y, x)
           /\ Before(E, x, y) => Earlier(E, x, y) \/ FoldKey(E, x) = FoldKey(E, y)
<1>1. /\ x.at \in Nat /\ y.at \in Nat /\ RootId(E, x) \in Nat /\ RootId(E, y) \in Nat
      /\ Earlier(E, x, y) <=> x.at < y.at \/ (x.at = y.at /\ RootId(E, x) < RootId(E, y))
  BY EarlierIs
<1>2. -x.id \in Int /\ -y.id \in Int
  BY DEF Shaped
<1>3. /\ Before(E, x, y) <=> \/ x.at < y.at
                             \/ x.at = y.at /\ RootId(E, x) < RootId(E, y)
                             \/ x.at = y.at /\ RootId(E, x) = RootId(E, y) /\ -x.id < -y.id
      /\ Before(E, y, x) <=> \/ y.at < x.at
                             \/ y.at = x.at /\ RootId(E, y) < RootId(E, x)
                             \/ y.at = x.at /\ RootId(E, y) = RootId(E, x) /\ -y.id < -x.id
  <2>1. PICK a \in Nat, b \in Nat, c \in Int : a = x.at /\ b = RootId(E, x) /\ c = -x.id
    BY <1>1, <1>2
  <2>2. PICK g \in Nat, h \in Nat, i \in Int : g = y.at /\ h = RootId(E, y) /\ i = -y.id
    BY <1>1, <1>2
  <2>3. /\ Before(E, x, y) <=> Precedes(<<a, b, c>>, <<g, h, i>>)
        /\ Before(E, y, x) <=> Precedes(<<g, h, i>>, <<a, b, c>>)
    BY <2>1, <2>2 DEF Before, Place
  <2>4. /\ Precedes(<<a, b, c>>, <<g, h, i>>) <=>
               a < g \/ (a = g /\ b < h) \/ (a = g /\ b = h /\ c < i)
        /\ Precedes(<<g, h, i>>, <<a, b, c>>) <=>
               g < a \/ (g = a /\ h < b) \/ (g = a /\ h = b /\ i < c)
    BY PrecedesIs
  <2> QED BY <2>1, <2>2, <2>3, <2>4
<1>4. x.at = y.at /\ RootId(E, x) = RootId(E, y) => FoldKey(E, x) = FoldKey(E, y)
  BY DEF FoldKey
<1> QED BY <1>1, <1>3, <1>4

\* The windows of a part, where no two live entries stand at one place.
LEMMA WindowsInTurn ==
    ASSUME NEW n \in Nat, NEW E, Shaped(E, n), FitsAll(E), NoTwins(E), NEW k,
           k \in DOMAIN Project(E).parts
    PROVE  \E t \in Nat : InTurn(Project(E).parts[k].windows, t)
<1> DEFINE R == {y \in Live(E) : Records(y, k)}
<1> DEFINE Lead(s) == \A y \in R, z \in s : Earlier(E, y, z) => y \in s
<1> DEFINE Good(s) == k \in DOMAIN Fold(E, s).parts =>
                          \E y \in s : InTurn(Fold(E, s).parts[k].windows, y.at)
<1> DEFINE G == {s \in SUBSET R : Lead(s) => Good(s)}
<1>1. /\ Live(E) \subseteq E /\ R \in SUBSET E /\ R \subseteq Live(E)
      /\ \A y \in R : y.at \in Nat /\ Records(y, k)
  <2>1. Live(E) \subseteq E
    BY LiveIs
  <2> QED BY <2>1 DEF Shaped
<1>2. ASSUME NEW x \in R, NEW y \in R, FoldKey(E, x) = FoldKey(E, y) PROVE x = y
  <2>1. x \in Live(E) /\ y \in Live(E) /\ x.subject = y.subject
        /\ "retraction" \notin {x.kind, y.kind}
    BY <1>1 DEF Records, AircraftKinds, ComponentKinds
  <2>2. y.id = x.id
    BY <1>2, <2>1 DEF NoTwins, Twins
  <2> QED BY <1>1, <2>2 DEF Shaped
<1>3. {} \in G
  <2>1. {} \in SUBSET E
    OBVIOUS
  <2>2. Fold(E, {}) = NoRecords
    BY <2>1, FoldStep
  <2>3. NoRecords.parts = <<>>
    BY DEF NoRecords
  <2> QED BY <2>2, <2>3
<1>4. ASSUME NEW s \in SUBSET R, s # {}, s \ {LastInFold(E, s)} \in G, Lead(s) PROVE Good(s)
  <2>1. PICK l : l = LastInFold(E, s)
    OBVIOUS
  <2>2. PICK rest : rest = s \ {l}
    OBVIOUS
  <2>3. s \in SUBSET E /\ rest \in SUBSET E /\ rest \in SUBSET R
    BY <1>1, <2>2
  <2>4. IsLast(E, s, l) /\ l \in s /\ l \in R /\ l \in E /\ l \in Live(E) /\ Records(l, k)
    BY <1>1, <1>4, <2>1, <2>3, LastIs
  <2>5. ASSUME NEW y \in rest
        PROVE  /\ Earlier(E, y, l) /\ ~Earlier(E, l, y) /\ y.at \in Nat /\ y.at <= l.at
    <3>1. Before(E, y, l) /\ y \in E /\ y \in R /\ y # l
      BY <2>2, <2>3, <2>4 DEF IsLast
    <3>2. Earlier(E, y, l) \/ FoldKey(E, y) = FoldKey(E, l)
      BY <2>4, <3>1, EarlierBefore
    <3>3. Earlier(E, y, l)
      BY <1>2, <2>4, <3>1, <3>2
    <3>4. Earlier(E, l, y) => ~Before(E, y, l)
      BY <2>4, <3>1, EarlierBefore
    <3>5. /\ Earlier(E, y, l) <=> y.at < l.at \/ (y.at = l.at /\ RootId(E, y) < RootId(E, l))
          /\ y.at \in Nat /\ l.at \in Nat
      BY <2>4, <3>1, EarlierIs
    <3> QED BY <3>1, <3>3, <3>4, <3>5
  <2>6. ~Earlier(E, l, l)
    BY <2>4, EarlierBefore
  <2>7. Lead(rest)
    <3> SUFFICES ASSUME NEW y \in R, NEW z \in rest, Earlier(E, y, z) PROVE y \in rest
      OBVIOUS
    <3>1. y \in s
      BY <1>4, <2>2
    <3>2. y # l
      BY <2>5
    <3> QED BY <2>2, <3>1, <3>2
  <2>8. Good(rest)
    BY <1>4, <2>1, <2>2, <2>7
  <2>9. \A y \in E : Records(y, k) => (y \in Prior(E, l) <=> y \in rest)
    <3> SUFFICES ASSUME NEW y \in E, Records(y, k) PROVE y \in Prior(E, l) <=> y \in rest
      OBVIOUS
    <3>1. ASSUME y \in Prior(E, l) PROVE y \in rest
      <4>1. y \in R /\ Earlier(E, y, l)
        BY <3>1 DEF Prior
      <4>2. y \in s /\ y # l
        BY <1>4, <2>4, <2>6, <4>1
      <4> QED BY <2>2, <4>2
    <3>2. ASSUME y \in rest PROVE y \in Prior(E, l)
      BY <1>1, <2>3, <2>5, <3>2 DEF Prior
    <3> QED BY <3>1, <3>2
  <2> HIDE DEF R, Lead
  <2>10. PICK r : r = Fold(E, rest)
    OBVIOUS
  <2>11. Fits(r, l)
    <3>1. PICK P \in SUBSET E : P = Prior(E, l)
      BY <1>1 DEF Prior
    <3>2. Alike(Fold(E, P), Fold(E, rest), k)
      BY <2>3, <2>9, <3>1, FoldOnly
    <3>3. Fits(ProjectBefore(E, l), l)
      BY <2>4 DEF FitsAll
    <3>4. ProjectBefore(E, l) = Fold(E, P) /\ l.subject = k
      BY <2>4, <3>1, BeforeIs DEF Records
    <3>5. PICK q : q = Fold(E, P)
      OBVIOUS
    <3>6. Alike(q, r, l.subject) /\ Fits(q, l)
      BY <2>10, <3>2, <3>3, <3>4, <3>5
    <3> QED BY <3>6, FitsAlike
  <2>12. AreRecords(r) /\ PartsAre(r)
    BY <2>3, <2>10, FoldPartsAre
  <2>13. Fold(E, s) = Folded(r, l)
    BY <1>4, <2>1, <2>2, <2>3, <2>10, FoldStep
  <2>14. PICK p : p = r.parts
    OBVIOUS
  <2>15. \A j \in DOMAIN p : IsPart(p[j])
    BY <2>12, <2>14 DEF PartsAre
  <2>16. PICK q : q = FoldPart(p, l)
    OBVIOUS
  <2>17. Fold(E, s).parts = IF l.kind \in ComponentKinds THEN q ELSE p
    BY <2>12, <2>13, <2>14, <2>16, FoldedParts
  <2>18. k = l.subject /\ l.at \in Nat
    BY <1>1, <2>4 DEF Records
  <2>19. /\ l.kind = "component.register" => q[k].windows = <<>>
         /\ l.kind = "component.install" /\ k \in DOMAIN p =>
               q[k].windows = Append(p[k].windows, Fitting(l))
         /\ l.kind = "component.remove" /\ k \in DOMAIN p =>
               q[k].windows = TakenOff(p[k].windows, l)
    BY <2>15, <2>16, <2>18, FoldPartAt
  <2>20. DOMAIN q = IF l.kind = "component.register" THEN DOMAIN p \cup {k} ELSE DOMAIN p
    BY <2>16, <2>18, FoldPartIs
  <2>21. ASSUME k \in DOMAIN p PROVE InTurn(p[k].windows, l.at)
    <3>1. PICK y \in rest : InTurn(p[k].windows, y.at)
      BY <2>8, <2>10, <2>14, <2>21
    <3> QED BY <2>5, <2>18, <3>1, InTurnLater
  <2>22. ASSUME k \in DOMAIN Fold(E, s).parts PROVE InTurn(Fold(E, s).parts[k].windows, l.at)
    <3>1. CASE l.kind \notin ComponentKinds
      BY <2>17, <2>21, <2>22, <3>1
    <3>2. CASE l.kind = "component.register"
      <4>1. Fold(E, s).parts[k].windows = <<>>
        BY <2>17, <2>19, <3>2 DEF ComponentKinds
      <4>2. InTurn(<<>>, l.at)
        <5>1. <<>> \in Seq({}) /\ DOMAIN <<>> = {}
          OBVIOUS
        <5> QED BY <5>1 DEF InTurn
      <4> QED BY <4>1, <4>2
    <3>3. CASE l.kind = "component.install"
      <4>1. Fold(E, s).parts = q /\ k \in DOMAIN p
        BY <2>17, <2>20, <2>22, <3>3 DEF ComponentKinds
      <4>2. PICK w : w = p[k].windows
        OBVIOUS
      <4>3. InTurn(w, l.at) /\ Unended(w) = {}
        BY <2>11, <2>14, <2>18, <2>21, <3>3, <4>1, <4>2 DEF Fits
      <4>4. InTurn(Append(w, Fitting(l)), l.at)
        BY <2>18, <4>3, InTurnFitted
      <4> QED BY <2>19, <3>3, <4>1, <4>2, <4>4
    <3>4. CASE l.kind = "component.remove"
      <4>1. Fold(E, s).parts = q /\ k \in DOMAIN p
        BY <2>17, <2>20, <2>22, <3>4 DEF ComponentKinds
      <4>2. PICK w : w = p[k].windows
        OBVIOUS
      <4>3. InTurn(TakenOff(w, l), l.at)
        BY <2>18, <2>21, <4>1, <4>2, InTurnTakenOff
      <4> QED BY <2>19, <3>4, <4>1, <4>2, <4>3
    <3> QED BY <3>1, <3>2, <3>3, <3>4 DEF ComponentKinds
  <2> QED BY <2>4, <2>22
<1>5. R \in G
  <2>1. \A s \in SUBSET R : s # {} /\ s \ {LastInFold(E, s)} \in G => s \in G
    BY <1>4
  <2> HIDE DEF G, R
  <2>2. Gathers(E, R, G)
    BY <1>3, <2>1 DEF Gathers
  <2> QED BY <1>1, <2>2, FoldInduction
<1>6. Good(R)
  BY <1>5
<1>7. Alike(Project(E), Fold(E, R), k)
  <2>1. PICK L \in SUBSET E : L = Live(E)
    BY <1>1
  <2>2. Alike(Fold(E, L), Fold(E, {y \in L : Records(y, k)}), k)
    BY FoldLocal
  <2>3. R = {y \in L : Records(y, k)} /\ Project(E) = Fold(E, L)
    BY <2>1 DEF Project
  <2> QED BY <2>2, <2>3
<1> HIDE DEF R, Lead
<1>8. k \in DOMAIN Fold(E, R).parts /\ Project(E).parts[k] = Fold(E, R).parts[k]
  BY <1>7 DEF Alike
<1> QED BY <1>1, <1>6, <1>8

LEMMA OneAircraft ==
    ASSUME RecordsInv, NoTwins(entries)
    PROVE  OnOneAircraft
<1> DEFINE n == Cardinality(entries)
<1>1. /\ n \in Nat /\ Shaped(entries, n) /\ FitsAll(entries)
  BY FS_CardinalityType DEF RecordsInv, LedgerInv, LedgerHolds, Shaped
<1> HIDE DEF n
<1>2. PICK p : p = Project(entries).parts
  OBVIOUS
<1> SUFFICES ASSUME NEW k \in DOMAIN p, NEW t \in Dates
             PROVE  Cardinality({key \in DOMAIN flights : InstalledOn(p[k], key, t)}) <= 1
  BY <1>2 DEF OnOneAircraft
<1>3. t \in Int
  BY DEF Dates
<1>4. PICK u \in Nat : InTurn(p[k].windows, u)
  BY <1>1, <1>2, WindowsInTurn
<1>5. ASSUME NEW a, NEW b, InstalledOn(p[k], a, t), InstalledOn(p[k], b, t) PROVE a = b
  <2>1. PICK c : c = p[k]
    OBVIOUS
  <2>2. PICK i \in DOMAIN c.windows : c.windows[i].aircraft = a /\ InWindow(t, c.windows[i])
    BY <1>5, <2>1 DEF InstalledOn
  <2>3. PICK j \in DOMAIN c.windows : c.windows[j].aircraft = b /\ InWindow(t, c.windows[j])
    BY <1>5, <2>1 DEF InstalledOn
  <2>4. i = j
    BY <1>3, <1>4, <2>1, <2>2, <2>3, OneWindow
  <2> QED BY <2>2, <2>3, <2>4
<1> SUFFICES ASSUME NEW On, On = {key \in DOMAIN flights : InstalledOn(p[k], key, t)}
             PROVE  Cardinality(On) <= 1
  OBVIOUS
<1>6. CASE On = {}
  BY <1>6, FS_EmptySet
<1>7. CASE On # {}
  <2>1. PICK a : a \in On
    BY <1>7
  <2>2. On = {a}
    BY <1>5, <2>1
  <2>3. Cardinality(On) = 1
    BY <2>2, FS_Singleton
  <2> QED BY <2>3
<1> QED BY <1>6, <1>7

\* The live entries can all have happened: an order is changed or closed while it is open, a
\* part is taken off where it was fitted and fitted when it is on no aircraft; and no part is
\* on two aircraft at any moment, unless two live entries stand at one place in the fold,
\* where neither is judged against the other (validate.py validate).
THEOREM EntriesHoldHolds == Spec => []EntriesHold
<1>1. RecordsInv => EntriesHold
  BY RecordsFit, OneAircraft DEF EntriesHold
<1> QED BY <1>1, LedgerFits, PTL

-----------------------------------------------------------------------------
(* Sums over finite sets, whatever order the elements are taken in.        *)

\* f gives each part of S what taking its elements one by one makes of it, c choosing the next.
Iterates(S, c, op, base, f) ==
    \A s \in SUBSET S : f[s] = IF s = {} THEN base ELSE op[<<c[s], f[s \ {c[s]}]>>]

Chooses(c, S) == \A s \in SUBSET S : s # {} => c[s] \in s

\* What iterates over a finite set exists.
LEMMA IterationExists ==
    ASSUME NEW S, IsFiniteSet(S), NEW c, Chooses(c, S),
           NEW V, NEW base \in V, NEW op \in [S \X V -> V]
    PROVE  \E f \in [SUBSET S -> V] : Iterates(S, c, op, base, f)
<1> DEFINE D == SUBSET S
<1> DEFINE F == [D -> V]
<1> DEFINE Less(s) == s \ {c[s]}
<1> DEFINE Body(s, f) == IF s = {} THEN base ELSE op[<<c[s], f[Less(s)]>>]
<1> DEFINE B == [s \in D |-> [f \in F |-> Body(s, f)]]
<1> DEFINE n == Cardinality(S)
<1> DEFINE rank == [s \in D |-> Cardinality(s)]
<1>1. n \in Nat /\ rank \in [D -> 0..n]
  BY FS_Subset, FS_CardinalityType
<1>2. ASSUME NEW s \in D, s # {}
      PROVE  c[s] \in S /\ Less(s) \in D /\ rank[Less(s)] < rank[s]
  <2>1. c[s] \in s
    BY <1>2 DEF Chooses
  <2>2. IsFiniteSet(s)
    BY FS_Subset
  <2>3. Cardinality(s \ {c[s]}) = Cardinality(s) - 1 /\ Cardinality(s) \in Nat
    BY <2>1, <2>2, FS_RemoveElement, FS_CardinalityType
  <2> QED BY <2>1, <2>3
<1> HIDE DEF Less, rank
<1>3. ASSUME NEW s \in D, NEW f \in F PROVE Body(s, f) \in V
  BY <1>2
<1>4. B \in [D -> [F -> V]]
  <2> HIDE DEF Body
  <2> QED BY <1>3
<1>5. ASSUME NEW s \in D, NEW f \in F, NEW g \in F,
             \A t \in D : rank[t] < rank[s] => f[t] = g[t]
      PROVE  B[s][f] = B[s][g]
  <2>1. Body(s, f) = Body(s, g)
    BY <1>2, <1>5
  <2> HIDE DEF Body
  <2> QED BY <2>1
<1>6. \A s \in D : \A f \in F : B[s][f] = Body(s, f)
  <2> HIDE DEF Body
  <2> QED OBVIOUS
<1>7. Solved(D, V, B)
  <2>1. \A s \in D : \A f, g \in F :
            (\A t \in D : rank[t] < rank[s] => f[t] = g[t]) => B[s][f] = B[s][g]
    <3> HIDE DEF B
    <3> QED BY <1>5, Zenon
  <2>2. V # {}
    OBVIOUS
  <2> HIDE DEF B, D, n
  <2>3. Grounded(D, V, n, rank, B)
    BY <1>1, <1>4, <2>1, <2>2 DEF Grounded
  <2> QED BY <2>3, Recursion
<1> HIDE DEF B
<1>8. PICK f \in F : \A s \in D : f[s] = B[s][f]
  BY <1>7 DEF Solved
<1>9. \A s \in D : f[s] = Body(s, f)
  <2> HIDE DEF Body
  <2> QED BY <1>6, <1>8
<1>10. Iterates(S, c, op, base, f)
  BY <1>9 DEF Iterates, Less
<1> QED BY <1>10

\* There is one such, and its values are those op keeps among.
LEMMA IterationUnique ==
    ASSUME NEW S, IsFiniteSet(S), NEW c, Chooses(c, S), NEW op, NEW base,
           NEW f, Iterates(S, c, op, base, f), NEW T \in SUBSET S,
           NEW g, Iterates(T, c, op, base, g)
    PROVE  f[T] = g[T]
<1> DEFINE Same(k) == \A s \in SUBSET T : Cardinality(s) = k => f[s] = g[s]
<1> DEFINE K == {k \in Nat : Same(k)}
<1>1. ASSUME NEW s \in SUBSET T
      PROVE  /\ IsFiniteSet(s) /\ Cardinality(s) \in Nat
             /\ s = {} <=> Cardinality(s) = 0
             /\ s # {} => c[s] \in s /\ Cardinality(s \ {c[s]}) = Cardinality(s) - 1
  <2>1. IsFiniteSet(s)
    BY FS_Subset
  <2>2. s # {} => c[s] \in s
    BY DEF Chooses
  <2>3. Cardinality(s) \in Nat /\ (s = {} <=> Cardinality(s) = 0)
    BY <2>1, FS_CardinalityType, FS_EmptySet
  <2>4. \A x \in s : Cardinality(s \ {x}) = Cardinality(s) - 1
    BY <2>1, FS_RemoveElement
  <2> QED BY <2>1, <2>2, <2>3, <2>4
<1>2. 0 \in K
  <2>1. ASSUME NEW s \in SUBSET T, Cardinality(s) = 0 PROVE f[s] = g[s]
    <3>1. s = {}
      BY <1>1, <2>1
    <3> QED BY <3>1 DEF Iterates
  <2> QED BY <2>1
<1>3. ASSUME NEW k \in Nat, k \in K PROVE k + 1 \in K
  <2>1. ASSUME NEW s \in SUBSET T, Cardinality(s) = k + 1 PROVE f[s] = g[s]
    <3>1. s # {} /\ s \ {c[s]} \in SUBSET T /\ Cardinality(s \ {c[s]}) = k
      <4>1. /\ s = {} <=> Cardinality(s) = 0
            /\ s # {} => Cardinality(s \ {c[s]}) = Cardinality(s) - 1
        BY <1>1
      <4>2. k + 1 # 0 /\ (k + 1) - 1 = k
        OBVIOUS
      <4> QED BY <4>1, <4>2, <2>1
    <3>2. f[s \ {c[s]}] = g[s \ {c[s]}]
      BY <3>1, <1>3
    <3>3. f[s] = op[<<c[s], f[s \ {c[s]}]>>]
      BY <3>1 DEF Iterates
    <3>4. g[s] = op[<<c[s], g[s \ {c[s]}]>>]
      BY <3>1 DEF Iterates
    <3> QED BY <3>2, <3>3, <3>4
  <2> QED BY <2>1
<1>4. Cardinality(T) \in K
  <2> HIDE DEF K
  <2>1. Cardinality(T) \in Nat
    BY <1>1
  <2> QED BY <2>1, <1>2, <1>3, Reaches
<1> QED BY <1>4

\* f is the sum of v's values over each part of S, whichever element is taken first.
Adds(S, v, f) ==
    /\ f \in [SUBSET S -> Int] /\ f[{}] = 0
    /\ \A s \in SUBSET S : \A x \in s : f[s] = v[x] + f[s \ {x}]

Some(s) == CHOOSE x \in s : TRUE

LEMMA AddsByOne ==
    ASSUME NEW S, IsFiniteSet(S), NEW v, \A x \in S : v[x] \in Int, NEW f \in [SUBSET S -> Int],
           \A s \in SUBSET S : f[s] = IF s = {} THEN 0 ELSE v[Some(s)] + f[s \ {Some(s)}]
    PROVE  Adds(S, v, f)
<1> DEFINE Out(s) == \A x \in s : f[s] = v[x] + f[s \ {x}]
<1> DEFINE K == {k \in Nat : \A s \in SUBSET S : Cardinality(s) = k => Out(s)}
<1>1. ASSUME NEW s \in SUBSET S
      PROVE  /\ IsFiniteSet(s) /\ Cardinality(s) \in Nat
             /\ \A x \in s : Cardinality(s \ {x}) = Cardinality(s) - 1
  <2>1. IsFiniteSet(s)
    BY FS_Subset
  <2> QED BY <2>1, FS_CardinalityType, FS_RemoveElement
<1>2. 0 \in K
  <2>1. ASSUME NEW s \in SUBSET S, Cardinality(s) = 0 PROVE Out(s)
    <3>1. s = {}
      BY <1>1, <2>1, FS_EmptySet
    <3> QED BY <3>1
  <2> QED BY <2>1
<1>3. ASSUME NEW k \in Nat, k \in K PROVE k + 1 \in K
  <2>1. ASSUME NEW s \in SUBSET S, Cardinality(s) = k + 1, NEW x \in s
        PROVE  f[s] = v[x] + f[s \ {x}]
    <3> DEFINE p == Some(s)
    <3>1. p \in s
      BY DEF Some
    <3>2. f[s] = v[p] + f[s \ {p}]
      BY <3>1
    <3> HIDE DEF p
    <3>3. CASE x = p
      BY <3>2, <3>3
    <3>4. CASE x # p
      <4>1. Cardinality(s \ {x}) = k /\ Cardinality(s \ {p}) = k
        <5>1. Cardinality(s \ {x}) = Cardinality(s) - 1
          BY <1>1
        <5>2. Cardinality(s \ {p}) = Cardinality(s) - 1
          BY <1>1, <3>1
        <5> QED BY <5>1, <5>2, <2>1
      <4>2. s \ {x} \in SUBSET S /\ s \ {p} \in SUBSET S
        OBVIOUS
      <4>3. Out(s \ {x}) /\ Out(s \ {p})
        BY <1>3, <4>1, <4>2
      <4>4. f[s \ {p}] = v[x] + f[(s \ {p}) \ {x}]
        BY <4>3, <3>4
      <4>5. f[s \ {x}] = v[p] + f[(s \ {x}) \ {p}]
        BY <4>3, <3>1, <3>4
      <4>6. (s \ {p}) \ {x} = (s \ {x}) \ {p} /\ (s \ {x}) \ {p} \in SUBSET S
        OBVIOUS
      <4>7. PICK i \in Int : i = f[(s \ {x}) \ {p}]
        BY <4>6
      <4>8. v[x] \in Int /\ v[p] \in Int
        BY <3>1
      <4>9. v[p] + (v[x] + i) = v[x] + (v[p] + i)
        BY <4>8
      <4> QED BY <3>2, <4>4, <4>5, <4>6, <4>7, <4>9
    <3> QED BY <3>3, <3>4
  <2> QED BY <2>1
<1>4. \A s \in SUBSET S : Out(s)
  <2> SUFFICES ASSUME NEW s \in SUBSET S PROVE Out(s)
    OBVIOUS
  <2>1. Cardinality(s) \in Nat
    BY <1>1
  <2>2. Cardinality(s) \in K
    <3> HIDE DEF K
    <3> QED BY <2>1, <1>2, <1>3, Reaches
  <2> HIDE DEF Out
  <2> QED BY <2>2
<1>5. f[{}] = 0
  OBVIOUS
<1> QED BY <1>4, <1>5 DEF Adds

LEMMA AddsExists ==
    ASSUME NEW S, IsFiniteSet(S), NEW v, \A x \in S : v[x] \in Int
    PROVE  \E f : Adds(S, v, f)
<1> DEFINE op == [p \in S \X Int |-> v[p[1]] + p[2]]
<1> DEFINE c == [s \in SUBSET S |-> Some(s)]
<1>1. Chooses(c, S)
  BY DEF Chooses, Some
<1>2. op \in [S \X Int -> Int]
  OBVIOUS
<1>3. \A x \in S : \A i \in Int : op[<<x, i>>] = v[x] + i
  OBVIOUS
<1> HIDE DEF op, c
<1>4. PICK f \in [SUBSET S -> Int] : Iterates(S, c, op, 0, f)
  <2>1. 0 \in Int
    OBVIOUS
  <2> QED BY <1>1, <1>2, <2>1, IterationExists
<1>5. ASSUME NEW s \in SUBSET S
      PROVE  f[s] = IF s = {} THEN 0 ELSE v[Some(s)] + f[s \ {Some(s)}]
  <2>1. c[s] = Some(s)
    BY DEF c
  <2>2. CASE s # {}
    <3>1. Some(s) \in S /\ s \ {Some(s)} \in SUBSET S
      BY <1>1, <2>1, <2>2 DEF Chooses
    <3>2. f[s] = op[<<Some(s), f[s \ {Some(s)}]>>]
      BY <1>4, <2>1, <2>2 DEF Iterates
    <3> QED BY <1>3, <2>2, <3>1, <3>2
  <2>3. CASE s = {}
    BY <1>4, <2>3 DEF Iterates
  <2> QED BY <2>2, <2>3
<1>6. Adds(S, v, f)
  BY <1>5, AddsByOne
<1> QED BY <1>6

LEMMA AddsAgree ==
    ASSUME NEW S, IsFiniteSet(S), NEW v, NEW w, \A x \in S : v[x] = w[x],
           NEW f, NEW g, NEW R, NEW T, Adds(R, v, f), Adds(T, w, g), S \subseteq R, S \subseteq T
    PROVE  f[S] = g[S]
<1> DEFINE K == {k \in Nat : \A s \in SUBSET S : Cardinality(s) = k => f[s] = g[s]}
<1>1. ASSUME NEW s \in SUBSET S
      PROVE  /\ IsFiniteSet(s) /\ Cardinality(s) \in Nat
             /\ \A x \in s : Cardinality(s \ {x}) = Cardinality(s) - 1
  <2>1. IsFiniteSet(s)
    BY FS_Subset
  <2> QED BY <2>1, FS_CardinalityType, FS_RemoveElement
<1>2. 0 \in K
  <2>1. ASSUME NEW s \in SUBSET S, Cardinality(s) = 0 PROVE f[s] = g[s]
    <3>1. s = {}
      BY <1>1, <2>1, FS_EmptySet
    <3> QED BY <3>1 DEF Adds
  <2> QED BY <2>1
<1>3. ASSUME NEW k \in Nat, k \in K PROVE k + 1 \in K
  <2>1. ASSUME NEW s \in SUBSET S, Cardinality(s) = k + 1 PROVE f[s] = g[s]
    <3>1. s # {}
      <4> SUFFICES ASSUME s = {} PROVE FALSE
        OBVIOUS
      <4> QED BY <2>1, FS_EmptySet
    <3>2. PICK x \in s : TRUE
      BY <3>1
    <3>3. Cardinality(s \ {x}) = Cardinality(s) - 1
      BY <1>1
    <3>4. f[s \ {x}] = g[s \ {x}]
      BY <1>3, <2>1, <3>3
    <3>5. f[s] = v[x] + f[s \ {x}]
      BY DEF Adds
    <3>6. g[s] = w[x] + g[s \ {x}]
      BY DEF Adds
    <3> QED BY <3>4, <3>5, <3>6
  <2> QED BY <2>1
<1>4. Cardinality(S) \in K
  <2> HIDE DEF K
  <2>1. Cardinality(S) \in Nat
    BY <1>1
  <2> QED BY <2>1, <1>2, <1>3, Reaches
<1> QED BY <1>4

\* The sum of v's values over S.
Total(v, S) == (CHOOSE f : Adds(S, v, f))[S]

Summable(v, S) == IsFiniteSet(S) /\ \A x \in S : v[x] \in Int

LEMMA TotalIs ==
    ASSUME NEW R, NEW v, NEW f, Adds(R, v, f), NEW S \in SUBSET R, Summable(v, S)
    PROVE  Total(v, S) = f[S]
<1>1. Adds(S, v, CHOOSE g : Adds(S, v, g))
  BY AddsExists DEF Summable
<1> QED BY <1>1, AddsAgree DEF Total, Summable

\* One element more or less.
LEMMA TotalOut ==
    ASSUME NEW v, NEW S, Summable(v, S)
    PROVE  /\ Total(v, S) \in Int
           /\ Total(v, {}) = 0
           /\ \A x \in S : Total(v, S) = v[x] + Total(v, S \ {x})
<1>1. PICK f : Adds(S, v, f)
  BY AddsExists DEF Summable
<1>2. \A s \in SUBSET S : Summable(v, s)
  BY FS_Subset DEF Summable
<1>3. \A s \in SUBSET S : Total(v, s) = f[s]
  BY <1>1, <1>2, TotalIs
<1> QED BY <1>1, <1>3 DEF Adds

LEMMA TotalSame ==
    ASSUME NEW v, NEW w, NEW S, Summable(v, S), \A x \in S : v[x] = w[x]
    PROVE  Total(v, S) = Total(w, S)
<1>1. PICK f : Adds(S, v, f)
  BY AddsExists DEF Summable
<1>2. Summable(w, S)
  BY DEF Summable
<1>3. PICK g : Adds(S, w, g)
  BY <1>2, AddsExists DEF Summable
<1> QED BY <1>1, <1>2, <1>3, TotalIs, AddsAgree DEF Summable

\* Of two sets with nothing in common, the sums add up; of numbers none of which is negative,
\* a part has no more than the whole.
LEMMA TotalSplit ==
    ASSUME NEW v, NEW S, NEW T, Summable(v, S), Summable(v, T), S \cap T = {}
    PROVE  Total(v, S \cup T) = Total(v, S) + Total(v, T)
<1> DEFINE K == {k \in Nat : \A s \in SUBSET S : Cardinality(s) = k =>
                                Total(v, s \cup T) = Total(v, s) + Total(v, T)}
<1>1. ASSUME NEW s \in SUBSET S
      PROVE  /\ Summable(v, s) /\ Summable(v, s \cup T) /\ Cardinality(s) \in Nat
             /\ \A x \in s : Cardinality(s \ {x}) = Cardinality(s) - 1
  <2>1. IsFiniteSet(s) /\ IsFiniteSet(s \cup T)
    BY FS_Subset, FS_Union DEF Summable
  <2>2. Summable(v, s) /\ Summable(v, s \cup T)
    BY <2>1 DEF Summable
  <2> QED BY <2>1, <2>2, FS_CardinalityType, FS_RemoveElement
<1>2. 0 \in K
  <2>1. ASSUME NEW s \in SUBSET S, Cardinality(s) = 0
        PROVE  Total(v, s \cup T) = Total(v, s) + Total(v, T)
    <3>1. s = {}
      BY <1>1, <2>1, FS_EmptySet DEF Summable
    <3>2. s \cup T = T
      BY <3>1
    <3>3. Total(v, s) = 0 /\ Total(v, T) \in Int
      BY <3>1, TotalOut
    <3> QED BY <3>2, <3>3
  <2> QED BY <2>1
<1>3. ASSUME NEW k \in Nat, k \in K PROVE k + 1 \in K
  <2>1. ASSUME NEW s \in SUBSET S, Cardinality(s) = k + 1
        PROVE  Total(v, s \cup T) = Total(v, s) + Total(v, T)
    <3>1. s # {}
      <4> SUFFICES ASSUME s = {} PROVE FALSE
        OBVIOUS
      <4> QED BY <2>1, FS_EmptySet
    <3>2. PICK x \in s : TRUE
      BY <3>1
    <3>0. /\ Summable(v, s) /\ Summable(v, s \cup T) /\ s \ {x} \in SUBSET S /\ x \in s \cup T
          /\ \A y \in s : Cardinality(s \ {y}) = Cardinality(s) - 1
      BY <1>1
    <3>3. Cardinality(s \ {x}) = k
      BY <3>0, <2>1
    <3>4. Total(v, (s \ {x}) \cup T) = Total(v, s \ {x}) + Total(v, T)
      BY <1>3, <3>0, <3>3
    <3>5. Total(v, s) = v[x] + Total(v, s \ {x})
      BY <3>0, TotalOut
    <3>6. (s \cup T) \ {x} = (s \ {x}) \cup T
      OBVIOUS
    <3>7. Total(v, s \cup T) = v[x] + Total(v, (s \ {x}) \cup T)
      <4>1. Total(v, s \cup T) = v[x] + Total(v, (s \cup T) \ {x})
        BY <3>0, TotalOut
      <4> QED BY <3>6, <4>1
    <3>8. /\ v[x] \in Int /\ Total(v, s \ {x}) \in Int /\ Total(v, T) \in Int
      BY <1>1, TotalOut DEF Summable
    <3> QED BY <3>4, <3>5, <3>7, <3>8
  <2> QED BY <2>1
<1>4. Cardinality(S) \in K
  <2> HIDE DEF K
  <2>1. Cardinality(S) \in Nat
    BY <1>1
  <2> QED BY <2>1, <1>2, <1>3, Reaches
<1> QED BY <1>4

LEMMA TotalNat ==
    ASSUME NEW v, NEW S, IsFiniteSet(S), \A x \in S : v[x] \in Nat
    PROVE  Total(v, S) \in Nat
<1> DEFINE K == {k \in Nat : \A s \in SUBSET S : Cardinality(s) = k => Total(v, s) \in Nat}
<1>1. ASSUME NEW s \in SUBSET S
      PROVE  /\ Summable(v, s) /\ Cardinality(s) \in Nat
             /\ \A x \in s : Cardinality(s \ {x}) = Cardinality(s) - 1
  <2>1. IsFiniteSet(s)
    BY FS_Subset
  <2>2. Summable(v, s)
    BY <2>1 DEF Summable
  <2> QED BY <2>1, <2>2, FS_CardinalityType, FS_RemoveElement
<1>2. 0 \in K
  <2>1. ASSUME NEW s \in SUBSET S, Cardinality(s) = 0 PROVE Total(v, s) \in Nat
    <3>1. s = {}
      BY <1>1, <2>1, FS_EmptySet DEF Summable
    <3> QED BY <1>1, <3>1, TotalOut
  <2> QED BY <2>1
<1>3. ASSUME NEW k \in Nat, k \in K PROVE k + 1 \in K
  <2>1. ASSUME NEW s \in SUBSET S, Cardinality(s) = k + 1 PROVE Total(v, s) \in Nat
    <3>1. s # {}
      <4> SUFFICES ASSUME s = {} PROVE FALSE
        OBVIOUS
      <4> QED BY <2>1, FS_EmptySet
    <3>2. PICK x \in s : TRUE
      BY <3>1
    <3>3. Cardinality(s \ {x}) = k
      BY <1>1, <2>1
    <3>4. Total(v, s \ {x}) \in Nat
      BY <1>3, <3>3
    <3>5. Total(v, s) = v[x] + Total(v, s \ {x})
      BY <1>1, TotalOut
    <3> QED BY <3>4, <3>5
  <2> QED BY <2>1
<1>4. Cardinality(S) \in K
  <2> HIDE DEF K
  <2>1. Cardinality(S) \in Nat
    BY <1>1
  <2> QED BY <2>1, <1>2, <1>3, Reaches
<1> QED BY <1>4

LEMMA TotalWithin ==
    ASSUME NEW v, NEW S, IsFiniteSet(S), \A x \in S : v[x] \in Nat, NEW T \in SUBSET S
    PROVE  Total(v, T) <= Total(v, S)
<1>1. IsFiniteSet(T) /\ IsFiniteSet(S \ T) /\ S = T \cup (S \ T)
  BY FS_Subset
<1>2. Summable(v, T) /\ Summable(v, S \ T)
  BY <1>1 DEF Summable
<1>3. T \cap (S \ T) = {}
  OBVIOUS
<1>4. Total(v, S) = Total(v, T) + Total(v, S \ T)
  BY <1>1, <1>2, <1>3, TotalSplit
<1>5. Total(v, T) \in Nat /\ Total(v, S \ T) \in Nat
  BY <1>1, TotalNat
<1> QED BY <1>4, <1>5

\* What the model's sums are: of f's values, by one element after another.
Taking(S, v, f) ==
    f = [s \in SUBSET S |-> IF s = {} THEN 0 ELSE v[Some(s)] + f[s \ {Some(s)}]]

LEMMA TakingIs ==
    ASSUME NEW v, NEW S, Summable(v, S)
    PROVE  /\ \E f : Taking(S, v, f)
           /\ \A f : Taking(S, v, f) => f[S] = Total(v, S)
<1> DEFINE Body(s, f) == IF s = {} THEN 0 ELSE v[Some(s)] + f[s \ {Some(s)}]
<1>1. PICK g : Adds(S, v, g)
  BY AddsExists DEF Summable
<1>2. \A s \in SUBSET S : s # {} => Some(s) \in s
  BY DEF Some
<1>3. ASSUME NEW s \in SUBSET S PROVE g[s] = Body(s, g)
  <2>1. CASE s = {}
    BY <1>1, <2>1 DEF Adds
  <2>2. CASE s # {}
    BY <1>1, <1>2, <2>2 DEF Adds
  <2> QED BY <2>1, <2>2
<1>4. Taking(S, v, g)
  <2>1. g = [s \in SUBSET S |-> g[s]]
    BY <1>1 DEF Adds
  <2>2. g = [s \in SUBSET S |-> Body(s, g)]
    <3> HIDE DEF Body
    <3> QED BY <1>3, <2>1
  <2> QED BY <2>2 DEF Taking
<1>5. ASSUME NEW f, Taking(S, v, f) PROVE f[S] = Total(v, S)
  <2>1. f = [s \in SUBSET S |-> Body(s, f)]
    BY <1>5 DEF Taking
  <2>2. \A s \in SUBSET S : f[s] = Body(s, f)
    <3> HIDE DEF Body
    <3> QED BY <2>1
  <2> DEFINE K == {k \in Nat : \A s \in SUBSET S : Cardinality(s) = k => f[s] = g[s]}
  <2>3. ASSUME NEW s \in SUBSET S
        PROVE  /\ Cardinality(s) \in Nat
               /\ s = {} <=> Cardinality(s) = 0
               /\ s # {} => Cardinality(s \ {Some(s)}) = Cardinality(s) - 1
    <3>1. IsFiniteSet(s)
      BY FS_Subset DEF Summable
    <3> QED BY <1>2, <3>1, FS_CardinalityType, FS_EmptySet, FS_RemoveElement
  <2>4. 0 \in K
    <3>1. ASSUME NEW s \in SUBSET S, Cardinality(s) = 0 PROVE f[s] = g[s]
      <4>1. s = {}
        BY <2>3, <3>1
      <4> QED BY <1>3, <2>2, <4>1
    <3> QED BY <3>1
  <2>5. ASSUME NEW k \in Nat, k \in K PROVE k + 1 \in K
    <3>1. ASSUME NEW s \in SUBSET S, Cardinality(s) = k + 1 PROVE f[s] = g[s]
      <4>1. /\ s = {} <=> Cardinality(s) = 0
            /\ s # {} => Cardinality(s \ {Some(s)}) = Cardinality(s) - 1
        BY <2>3
      <4>2. s # {} /\ Cardinality(s \ {Some(s)}) = k
        <5>1. k + 1 # 0 /\ (k + 1) - 1 = k
          OBVIOUS
        <5> QED BY <3>1, <4>1, <5>1
      <4>3. f[s \ {Some(s)}] = g[s \ {Some(s)}]
        BY <2>5, <4>2
      <4> QED BY <1>3, <2>2, <4>2, <4>3
    <3> QED BY <3>1
  <2>6. Cardinality(S) \in K
    <3> HIDE DEF K
    <3>1. Cardinality(S) \in Nat
      BY <2>3
    <3> QED BY <3>1, <2>4, <2>5, Reaches
  <2>7. Total(v, S) = g[S]
    BY <1>1, TotalIs
  <2> QED BY <2>6, <2>7
<1> QED BY <1>4, <1>5

Values(S) == [r \in S |-> Seconds(r)]

LEMMA SecondsAre ==
    ASSUME NEW S, Summable(Values(S), S)
    PROVE  MapThenSumSet(Seconds, S) = Total(Values(S), S)
<1> DEFINE Is(f) == f = [s \in SUBSET S |-> IF s = {} THEN 0
                                            ELSE Seconds(Some(s)) + f[s \ {Some(s)}]]
<1>1. MapThenSumSet(Seconds, S) = (CHOOSE f : Is(f))[S]
  BY DEF MapThenSumSet, MapThenFoldSet, Some
<1>2. \A f : Is(f) <=> Taking(S, Values(S), f)
  <2> SUFFICES ASSUME NEW f PROVE Is(f) <=> Taking(S, Values(S), f)
    OBVIOUS
  <2>1. \A s \in SUBSET S : s # {} => Values(S)[Some(s)] = Seconds(Some(s))
    BY DEF Values, Some
  <2>2. [s \in SUBSET S |-> IF s = {} THEN 0 ELSE Seconds(Some(s)) + f[s \ {Some(s)}]]
        = [s \in SUBSET S |-> IF s = {} THEN 0 ELSE Values(S)[Some(s)] + f[s \ {Some(s)}]]
    BY <2>1
  <2> QED BY <2>2 DEF Taking
<1>3. Is(CHOOSE f : Is(f))
  <2>1. \E f : Is(f)
    BY <1>2, TakingIs
  <2> HIDE DEF Is
  <2> QED BY <2>1, Zenon
<1> HIDE DEF Is
<1> QED BY <1>1, <1>2, <1>3, TakingIs

-----------------------------------------------------------------------------
(* The logs of an autopilot in order, and the pairs of them.               *)

\* R orders S, each element before or after every other.
Orders(R, S) ==
    /\ \A x, y \in S : x # y => R[<<x, y>>] \/ R[<<y, x>>]
    /\ \A x, y \in S : ~(R[<<x, y>>] /\ R[<<y, x>>])
    /\ \A x, y, z \in S : R[<<x, y>>] /\ R[<<y, z>>] => R[<<x, z>>]

LEMMA EndExists ==
    ASSUME NEW S, IsFiniteSet(S), NEW R, Orders(R, S), S # {}
    PROVE  \E m \in S : \A x \in S \ {m} : R[<<x, m>>]
<1> DEFINE Ends(s) == s # {} => \E m \in s : \A x \in s \ {m} : R[<<x, m>>]
<1> DEFINE K == {k \in Nat : \A s \in SUBSET S : Cardinality(s) = k => Ends(s)}
<1>1. ASSUME NEW s \in SUBSET S
      PROVE  /\ IsFiniteSet(s) /\ Cardinality(s) \in Nat
             /\ \A x \in s : Cardinality(s \ {x}) = Cardinality(s) - 1
  <2>1. IsFiniteSet(s)
    BY FS_Subset
  <2> QED BY <2>1, FS_CardinalityType, FS_RemoveElement
<1>2. 0 \in K
  <2>1. ASSUME NEW s \in SUBSET S, Cardinality(s) = 0 PROVE Ends(s)
    <3>1. s = {}
      BY <1>1, <2>1, FS_EmptySet
    <3> QED BY <3>1
  <2> QED BY <2>1
<1>3. ASSUME NEW k \in Nat, k \in K PROVE k + 1 \in K
  <2>1. ASSUME NEW s \in SUBSET S, Cardinality(s) = k + 1, NEW p \in s
        PROVE  \E m \in s : \A x \in s \ {m} : R[<<x, m>>]
    <3>1. Cardinality(s \ {p}) = k /\ s \ {p} \in SUBSET S
      BY <1>1, <2>1
    <3>2. Ends(s \ {p})
      BY <1>3, <3>1
    <3>3. CASE s \ {p} = {}
      BY <3>3
    <3>4. CASE s \ {p} # {}
      <4>1. PICK m \in s \ {p} : \A x \in (s \ {p}) \ {m} : R[<<x, m>>]
        BY <3>2, <3>4
      <4>2. CASE R[<<p, m>>]
        BY <4>1, <4>2
      <4>3. CASE ~R[<<p, m>>]
        <5>1. m \in S /\ p \in S /\ R[<<m, p>>]
          BY <4>1, <4>3 DEF Orders
        <5>2. ASSUME NEW x \in s \ {p} PROVE R[<<x, p>>]
          <6>1. CASE x = m
            BY <5>1, <6>1
          <6>2. CASE x # m
            <7>1. x \in S /\ R[<<x, m>>]
              BY <4>1, <6>2
            <7> QED BY <5>1, <7>1 DEF Orders
          <6> QED BY <6>1, <6>2
        <5> QED BY <5>2
      <4> QED BY <4>2, <4>3
    <3> QED BY <3>3, <3>4
  <2> QED BY <2>1
<1>4. Cardinality(S) \in K
  <2> HIDE DEF K
  <2>1. Cardinality(S) \in Nat
    BY <1>1
  <2> QED BY <2>1, <1>2, <1>3, Reaches
<1> QED BY <1>4

Under(R, S, x) == {y \in S : R[<<y, x>>]}

\* At each place of the order stands one element.
LEMMA RankExists ==
    ASSUME NEW S, IsFiniteSet(S), NEW R, Orders(R, S), NEW n \in 1..Cardinality(S)
    PROVE  \E x \in S : Cardinality(Under(R, S, x)) = n - 1
<1> DEFINE Ranked(s) == \A i \in 1..Cardinality(s) :
                            \E x \in s : Cardinality(Under(R, s, x)) = i - 1
<1> DEFINE K == {k \in Nat : \A s \in SUBSET S : Cardinality(s) = k => Ranked(s)}
<1>1. ASSUME NEW s \in SUBSET S
      PROVE  /\ IsFiniteSet(s) /\ Cardinality(s) \in Nat
             /\ \A x \in s : Cardinality(s \ {x}) = Cardinality(s) - 1
  <2>1. IsFiniteSet(s)
    BY FS_Subset
  <2> QED BY <2>1, FS_CardinalityType, FS_RemoveElement
<1>2. 0 \in K
  OBVIOUS
<1>3. ASSUME NEW k \in Nat, k \in K PROVE k + 1 \in K
  <2>1. ASSUME NEW s \in SUBSET S, Cardinality(s) = k + 1, NEW i \in 1..(k + 1)
        PROVE  \E x \in s : Cardinality(Under(R, s, x)) = i - 1
    <3>1. IsFiniteSet(s) /\ s # {} /\ Orders(R, s)
      <4>1. s # {}
        <5> SUFFICES ASSUME s = {} PROVE FALSE
          OBVIOUS
        <5> QED BY <2>1, FS_EmptySet
      <4>2. Orders(R, s)
        BY DEF Orders
      <4> QED BY <1>1, <4>1, <4>2
    <3>2. PICK m \in s : \A x \in s \ {m} : R[<<x, m>>]
      BY <3>1, EndExists
    <3>3. Cardinality(s \ {m}) = k /\ s \ {m} \in SUBSET S
      BY <1>1, <2>1
    <3>4. \A y \in s : ~R[<<m, y>>]
      BY <3>1, <3>2 DEF Orders
    <3>5. CASE i = k + 1
      <4>1. Under(R, s, m) = s \ {m}
        BY <3>2, <3>4 DEF Under
      <4>2. Cardinality(Under(R, s, m)) = k /\ i - 1 = k
        BY <3>3, <3>5, <4>1
      <4> QED BY <4>2
    <3>6. CASE i # k + 1
      <4>1. i \in 1..Cardinality(s \ {m})
        BY <3>3, <3>6
      <4>2. PICK x \in s \ {m} : Cardinality(Under(R, s \ {m}, x)) = i - 1
        BY <1>3, <3>3, <4>1
      <4>3. Under(R, s \ {m}, x) = Under(R, s, x)
        BY <3>4 DEF Under
      <4> QED BY <4>2, <4>3
    <3> QED BY <3>5, <3>6
  <2>2. ASSUME NEW s \in SUBSET S, Cardinality(s) = k + 1 PROVE Ranked(s)
    BY <2>1, <2>2
  <2> HIDE DEF Ranked
  <2> QED BY <2>2
<1>4. Cardinality(S) \in K
  <2> HIDE DEF K
  <2>1. Cardinality(S) \in Nat
    BY <1>1
  <2> QED BY <2>1, <1>2, <1>3, Reaches
<1> QED BY <1>4

\* Stored logs of an aircraft: what a reader makes of a log, each under a name of its own.
Logged(logs) ==
    /\ IsFiniteSet(logs) /\ logs \subseteq FlightRecords(Nat, STRING, Nat)
    /\ \A r, s \in logs : r.ref = s.ref => r = s

LEMMA RecordIs ==
    ASSUME NEW logs, Logged(logs), NEW r \in logs
    PROVE  /\ r.ref \in Nat /\ r.span \in Nat
           /\ r.start \in Nat \cup {Unknown} /\ r.flight \in Nat \cup {Unknown}
           /\ r.boot \in Nat \cup {Unknown}
           /\ Known(r.lifetime) => r.lifetime.atBoot \in Nat /\ r.lifetime.seen \in Nat
BY DEF Logged, FlightRecords, Known

LEMMA LoggedPart ==
    ASSUME NEW logs, Logged(logs), NEW g \in SUBSET logs
    PROVE  Logged(g)
BY FS_Subset DEF Logged

LEMMA PrecedesByFour ==
    ASSUME NEW p, NEW q, p = <<p[1], p[2], p[3], p[4]>>, q = <<q[1], q[2], q[3], q[4]>>
    PROVE  Precedes(p, q) <=>
              \/ p[1] < q[1]
              \/ p[1] = q[1] /\ p[2] < q[2]
              \/ p[1] = q[1] /\ p[2] = q[2] /\ p[3] < q[3]
              \/ p[1] = q[1] /\ p[2] = q[2] /\ p[3] = q[3] /\ p[4] < q[4]
<1> DEFINE At(i) == p[i] < q[i] /\ \A j \in 1..(i - 1) : p[j] = q[j]
<1>1. Precedes(p, q) <=> \E i \in DOMAIN p : At(i)
  BY DEF Precedes
<1>2. DOMAIN p = {1, 2, 3, 4}
  <2>1. \A a, b, c, d : DOMAIN <<a, b, c, d>> = {1, 2, 3, 4}
    OBVIOUS
  <2> QED BY <2>1
<1>3. At(1) <=> p[1] < q[1]
  OBVIOUS
<1>4. At(2) <=> p[1] = q[1] /\ p[2] < q[2]
  <2>1. 1..(2 - 1) = {1}
    OBVIOUS
  <2> QED BY <2>1
<1>5. At(3) <=> p[1] = q[1] /\ p[2] = q[2] /\ p[3] < q[3]
  <2>1. 1..(3 - 1) = {1, 2}
    OBVIOUS
  <2> QED BY <2>1
<1>6. At(4) <=> p[1] = q[1] /\ p[2] = q[2] /\ p[3] = q[3] /\ p[4] < q[4]
  <2>1. 1..(4 - 1) = {1, 2, 3}
    OBVIOUS
  <2> QED BY <2>1
<1> HIDE DEF At
<1> QED BY <1>1, <1>2, <1>3, <1>4, <1>5, <1>6

LEMMA Joined ==
    ASSUME NEW a, NEW b, NEW c, NEW d
    PROVE  <<a>> \o <<b, c, d>> = <<a, b, c, d>>
<1> DEFINE S == {a, b, c, d}
<1> DEFINE s == <<a>>
<1> DEFINE t == <<b, c, d>>
<1> DEFINE u == <<a, b, c, d>>
<1>1. s \in Seq(S) /\ t \in Seq(S) /\ u \in Seq(S) /\ Len(s) = 1 /\ Len(t) = 3 /\ Len(u) = 4
  OBVIOUS
<1>2. s[1] = a /\ t[1] = b /\ t[2] = c /\ t[3] = d /\ u[1] = a /\ u[2] = b /\ u[3] = c /\ u[4] = d
  OBVIOUS
<1> HIDE DEF S, s, t, u
<1>3. /\ s \o t \in Seq(S) /\ Len(s \o t) = Len(s) + Len(t)
      /\ \A i \in 1..(Len(s) + Len(t)) :
            (s \o t)[i] = IF i <= Len(s) THEN s[i] ELSE t[i - Len(s)]
  BY <1>1, ConcatProperties
<1>4. (s \o t)[1] = a /\ (s \o t)[2] = b /\ (s \o t)[3] = c /\ (s \o t)[4] = d
  BY <1>1, <1>2, <1>3
<1>5. \A i \in 1..4 : (s \o t)[i] = u[i]
  <2>1. \A i \in 1..4 : i = 1 \/ i = 2 \/ i = 3 \/ i = 4
    OBVIOUS
  <2> QED BY <1>2, <1>4, <2>1
<1>6. s \o t = u
  BY <1>1, <1>3, <1>5
<1> QED BY <1>6 DEF s, t, u

\* The place of a log among those of its autopilot.
Placed(g, r) == IF Booted(g) THEN <<r.boot>> \o StorePlace(r) ELSE StorePlace(r)

LEMMA PlacesOrder ==
    ASSUME NEW g, Logged(g)
    PROVE  Orders([p \in g \X g |-> Precedes(Placed(g, p[1]), Placed(g, p[2]))], g)
<1> DEFINE Undated(r) == IF Known(r.start) THEN 0 ELSE 1
<1> DEFINE From(r) == IF Known(r.start) THEN r.start ELSE 0
<1> DEFINE Booting(r) == IF Booted(g) THEN r.boot ELSE 0
<1> DEFINE Ahead(x, y) ==
      \/ Booting(x) < Booting(y)
      \/ (Booting(x) = Booting(y) /\ Undated(x) < Undated(y))
      \/ (Booting(x) = Booting(y) /\ Undated(x) = Undated(y) /\ From(x) < From(y))
      \/ (Booting(x) = Booting(y) /\ Undated(x) = Undated(y) /\ From(x) = From(y) /\ x.ref < y.ref)
<1> DEFINE R == [p \in g \X g |-> Precedes(Placed(g, p[1]), Placed(g, p[2]))]
<1>1. ASSUME NEW r \in g
      PROVE  /\ r.ref \in Int /\ Undated(r) \in Int /\ From(r) \in Int /\ Booting(r) \in Int
             /\ StorePlace(r) = <<Undated(r), From(r), r.ref>>
             /\ Booted(g) => Placed(g, r) = <<Booting(r), Undated(r), From(r), r.ref>>
             /\ ~Booted(g) => Placed(g, r) = <<Undated(r), From(r), r.ref>> /\ Booting(r) = 0
  <2>1. r.ref \in Nat /\ r.start \in Nat \cup {Unknown} /\ r.boot \in Nat \cup {Unknown}
    BY RecordIs
  <2>2. r.ref \in Int /\ Undated(r) \in Int /\ From(r) \in Int
    BY <2>1 DEF Known
  <2>3. Booting(r) \in Int
    BY <2>1 DEF Known, Booted
  <2>4. StorePlace(r) = <<Undated(r), From(r), r.ref>>
    BY DEF StorePlace
  <2> HIDE DEF Undated, From
  <2>5. <<r.boot>> \o <<Undated(r), From(r), r.ref>> = <<r.boot, Undated(r), From(r), r.ref>>
    BY Joined
  <2>6. Booted(g) => Placed(g, r) = <<Booting(r), Undated(r), From(r), r.ref>>
    BY <2>4, <2>5 DEF Placed
  <2>7. ~Booted(g) => Placed(g, r) = <<Undated(r), From(r), r.ref>> /\ Booting(r) = 0
    BY <2>4 DEF Placed
  <2> QED BY <2>2, <2>3, <2>4, <2>6, <2>7
<1> HIDE DEF Undated, From, Booting
<1>2. ASSUME NEW x \in g, NEW y \in g PROVE R[<<x, y>>] <=> Ahead(x, y)
  <2>1. R[<<x, y>>] = Precedes(Placed(g, x), Placed(g, y))
    OBVIOUS
  <2>2. CASE Booted(g)
    <3>1. /\ Placed(g, x) = <<Booting(x), Undated(x), From(x), x.ref>>
          /\ Placed(g, y) = <<Booting(y), Undated(y), From(y), y.ref>>
      BY <1>1, <2>2
    <3>2. PICK p, q : p = Placed(g, x) /\ q = Placed(g, y)
      OBVIOUS
    <3>3. \A a, b, c, d, r : r = <<a, b, c, d>> =>
             r[1] = a /\ r[2] = b /\ r[3] = c /\ r[4] = d /\ r = <<r[1], r[2], r[3], r[4]>>
      OBVIOUS
    <3>4. /\ p[1] = Booting(x) /\ p[2] = Undated(x) /\ p[3] = From(x) /\ p[4] = x.ref
          /\ p = <<p[1], p[2], p[3], p[4]>>
      BY <3>1, <3>2, <3>3
    <3>5. /\ q[1] = Booting(y) /\ q[2] = Undated(y) /\ q[3] = From(y) /\ q[4] = y.ref
          /\ q = <<q[1], q[2], q[3], q[4]>>
      BY <3>1, <3>2, <3>3
    <3>6. Precedes(p, q) <=> \/ p[1] < q[1]
                             \/ p[1] = q[1] /\ p[2] < q[2]
                             \/ p[1] = q[1] /\ p[2] = q[2] /\ p[3] < q[3]
                             \/ p[1] = q[1] /\ p[2] = q[2] /\ p[3] = q[3] /\ p[4] < q[4]
      BY <3>4, <3>5, PrecedesByFour
    <3> QED BY <2>1, <3>2, <3>4, <3>5, <3>6
  <2>3. CASE ~Booted(g)
    <3>1. /\ Placed(g, x) = <<Undated(x), From(x), x.ref>> /\ Booting(x) = 0
          /\ Placed(g, y) = <<Undated(y), From(y), y.ref>> /\ Booting(y) = 0
      BY <1>1, <2>3
    <3>2. /\ x.ref \in Int /\ Undated(x) \in Int /\ From(x) \in Int
          /\ y.ref \in Int /\ Undated(y) \in Int /\ From(y) \in Int
      BY <1>1
    <3>3. PICK a \in Int : a = x.ref
      BY <3>2
    <3>4. PICK b \in Int : b = y.ref
      BY <3>2
    <3>5. Precedes(<<Undated(x), From(x), a>>, <<Undated(y), From(y), b>>)
            <=> \/ Undated(x) < Undated(y)
                \/ (Undated(x) = Undated(y) /\ From(x) < From(y))
                \/ (Undated(x) = Undated(y) /\ From(x) = From(y) /\ a < b)
      BY <3>2, PrecedesIs
    <3> QED BY <2>1, <3>1, <3>3, <3>4, <3>5
  <2> QED BY <2>2, <2>3
<1> HIDE DEF R
<1>3. ASSUME NEW x \in g, NEW y \in g, x # y PROVE R[<<x, y>>] \/ R[<<y, x>>]
  <2>1. x.ref # y.ref
    BY <1>3 DEF Logged
  <2>2. Ahead(x, y) \/ Ahead(y, x)
    BY <1>1, <2>1
  <2> HIDE DEF Ahead
  <2> QED BY <1>2, <2>2
<1>4. ASSUME NEW x \in g, NEW y \in g PROVE ~(R[<<x, y>>] /\ R[<<y, x>>])
  <2>1. ~(Ahead(x, y) /\ Ahead(y, x))
    BY <1>1
  <2> HIDE DEF Ahead
  <2> QED BY <1>2, <2>1
<1>5. ASSUME NEW x \in g, NEW y \in g, NEW z \in g, R[<<x, y>>], R[<<y, z>>] PROVE R[<<x, z>>]
  <2>1. Ahead(x, y) /\ Ahead(y, z) => Ahead(x, z)
    BY <1>1
  <2> HIDE DEF Ahead
  <2> QED BY <1>2, <1>5, <2>1
<1> QED BY <1>3, <1>4, <1>5 DEF Orders, R

\* The logs of an autopilot in order are logs of it.
LEMMA OrderedIs ==
    ASSUME NEW g, Logged(g)
    PROVE  Ordered(g) \in Seq(g) /\ Len(Ordered(g)) = Cardinality(g)
<1> DEFINE R == [p \in g \X g |-> Precedes(Placed(g, p[1]), Placed(g, p[2]))]
<1> DEFINE At(n) == CHOOSE x \in g :
                        Cardinality({y \in g : Precedes(Placed(g, y), Placed(g, x))}) = n - 1
<1>1. Ordered(g) = [n \in 1..Cardinality(g) |-> At(n)]
  BY DEF Ordered, SortedBy, Placed
<1>2. IsFiniteSet(g) /\ Cardinality(g) \in Nat
  BY FS_CardinalityType DEF Logged
<1>3. ASSUME NEW n \in 1..Cardinality(g) PROVE At(n) \in g
  <2>1. Orders(R, g)
    BY PlacesOrder
  <2>2. \A x \in g : Under(R, g, x) = {y \in g : Precedes(Placed(g, y), Placed(g, x))}
    BY DEF Under
  <2> HIDE DEF R
  <2>3. PICK x \in g : Cardinality(Under(R, g, x)) = n - 1
    BY <1>2, <2>1, RankExists
  <2>4. \E z \in g : Cardinality({y \in g : Precedes(Placed(g, y), Placed(g, z))}) = n - 1
    BY <2>2, <2>3
  <2> QED BY <2>4
<1> HIDE DEF At
<1> QED BY <1>1, <1>2, <1>3

LEMMA GroupsIs ==
    ASSUME NEW logs, Logged(logs), NEW g \in Groups(logs)
    PROVE  /\ g \in SUBSET logs /\ Logged(g)
           /\ \A r \in g : r.flight \in Nat /\ r.lifetime.atBoot \in Nat
<1>1. PICK s \in SourcesOf(logs) : g = Group(logs, s)
  BY DEF Groups
<1>2. g \in SUBSET logs
  BY <1>1 DEF Group
<1>3. ASSUME NEW r \in g PROVE r.flight \in Nat /\ r.lifetime.atBoot \in Nat
  <2>1. Known(r.lifetime) /\ Known(r.flight)
    BY <1>1 DEF Group, Checkable
  <2>2. r \in logs
    BY <1>2
  <2>3. r.flight \in Nat \cup {Unknown} /\ (Known(r.lifetime) => r.lifetime.atBoot \in Nat)
    BY <2>2, RecordIs
  <2> QED BY <2>1, <2>3 DEF Known
<1> QED BY <1>2, <1>3, LoggedPart

\* Of logs in order, the next is kept unless it shows a kept one again.
Keep(kept, r) == IF \E k \in ToSet(kept) : SameLog(r, k) THEN kept ELSE Append(kept, r)

\* h gives what is kept of some of them.
KeptUpTo(o, g, h) ==
    /\ FirstUploads(o) = h[DOMAIN o]
    /\ \A s \in SUBSET DOMAIN o :
          /\ h[s] \in Seq(g)
          /\ s = {} => h[s] = <<>>
          /\ s # {} => h[s] = Keep(h[s \ {Max(s)}], o[Max(s)])

LEMMA FirstUploadsSteps ==
    ASSUME NEW g, NEW o \in Seq(g)
    PROVE  \E h : KeptUpTo(o, g, h)
<1> DEFINE D == DOMAIN o
<1> DEFINE Kept(kept, r) == IF \E k \in ToSet(kept) : SameLog(r, k) THEN kept
                            ELSE Append(kept, r)
<1> DEFINE c == [s \in SUBSET D |-> Max(s)]
<1> DEFINE op == [p \in D \X Seq(g) |-> Kept(p[2], o[p[1]])]
<1> DEFINE Body(s, f) == IF s = {} THEN <<>> ELSE Kept(f[s \ {Max(s)}], o[Max(s)])
<1>1. D = 1..Len(o) /\ Len(o) \in Nat /\ IsFiniteSet(D) /\ \A i \in D : o[i] \in g
  <2>1. D = 1..Len(o) /\ Len(o) \in Nat /\ \A i \in D : o[i] \in g
    OBVIOUS
  <2> QED BY <2>1, FS_Interval
<1> HIDE DEF D
<1>2. ASSUME NEW s \in SUBSET D, s # {} PROVE Max(s) \in s
  <2>1. s \in SUBSET (0..Len(o)) /\ Len(o) \in Nat
    BY <1>1
  <2>2. PICK n \in s : \A m \in s : n >= m
    BY <1>2, <2>1, Greatest
  <2> QED BY <2>2 DEF Max
<1>3. Chooses(c, D)
  BY <1>2 DEF Chooses
<1>4. op \in [D \X Seq(g) -> Seq(g)]
  <2>1. ASSUME NEW kept \in Seq(g), NEW r \in g PROVE Kept(kept, r) \in Seq(g)
    OBVIOUS
  <2> HIDE DEF Kept
  <2> QED BY <1>1, <2>1
<1>5. \A i \in D : \A kept \in Seq(g) : op[<<i, kept>>] = Kept(kept, o[i])
  <2> HIDE DEF Kept
  <2> QED OBVIOUS
<1>6. <<>> \in Seq(g)
  OBVIOUS
<1> HIDE DEF c, op
<1>7. PICK f \in [SUBSET D -> Seq(g)] : Iterates(D, c, op, <<>>, f)
  BY <1>1, <1>3, <1>4, <1>6, IterationExists
<1>8. ASSUME NEW s \in SUBSET D PROVE f[s] = Body(s, f)
  <2>1. CASE s = {}
    BY <1>7, <2>1 DEF Iterates
  <2>2. CASE s # {}
    <3>1. c[s] = Max(s) /\ Max(s) \in D /\ s \ {Max(s)} \in SUBSET D
      BY <1>2, <2>2 DEF c
    <3>2. f[s] = op[<<Max(s), f[s \ {Max(s)}]>>]
      BY <1>7, <2>2, <3>1 DEF Iterates
    <3>3. f[s \ {Max(s)}] \in Seq(g)
      BY <3>1
    <3>4. f[s] = Kept(f[s \ {Max(s)}], o[Max(s)])
      BY <1>5, <3>1, <3>2, <3>3
    <3> HIDE DEF Kept
    <3> QED BY <2>2, <3>4
  <2> QED BY <2>1, <2>2
<1>9. \E h : h = [s \in SUBSET D |-> Body(s, h)]
  <2>1. f = [s \in SUBSET D |-> f[s]]
    OBVIOUS
  <2> HIDE DEF Body
  <2>2. f = [s \in SUBSET D |-> Body(s, f)]
    BY <1>8, <2>1
  <2> QED BY <2>2
<1> DEFINE h == CHOOSE h : h = [s \in SUBSET D |-> Body(s, h)]
<1>10. FirstUploads(o) = h[D]
  BY DEF FirstUploads, FoldLeft, MapThenFoldSet, D
<1>11. h = [s \in SUBSET D |-> Body(s, h)]
  <2> HIDE DEF Body
  <2> QED BY <1>9, Zenon
<1> HIDE DEF h
<1>12. \A s \in SUBSET D : h[s] = Body(s, h)
  <2> HIDE DEF Body
  <2> QED BY <1>11
<1> DEFINE K == {k \in Nat : \A s \in SUBSET D : Cardinality(s) = k => h[s] \in Seq(g)}
<1>13. ASSUME NEW s \in SUBSET D
       PROVE  /\ Cardinality(s) \in Nat
              /\ s = {} <=> Cardinality(s) = 0
              /\ s # {} => Cardinality(s \ {Max(s)}) = Cardinality(s) - 1
  <2>1. IsFiniteSet(s)
    BY <1>1, FS_Subset
  <2> QED BY <1>2, <2>1, FS_CardinalityType, FS_EmptySet, FS_RemoveElement
<1>14. 0 \in K
  <2>1. ASSUME NEW s \in SUBSET D, Cardinality(s) = 0 PROVE h[s] \in Seq(g)
    <3>1. s = {}
      BY <1>13, <2>1
    <3> QED BY <1>6, <1>12, <3>1
  <2> QED BY <2>1
<1>15. ASSUME NEW k \in Nat, k \in K PROVE k + 1 \in K
  <2>1. ASSUME NEW s \in SUBSET D, Cardinality(s) = k + 1 PROVE h[s] \in Seq(g)
    <3>1. /\ s = {} <=> Cardinality(s) = 0
          /\ s # {} => Cardinality(s \ {Max(s)}) = Cardinality(s) - 1
      BY <1>13
    <3>2. s # {} /\ Cardinality(s \ {Max(s)}) = k
      <4>1. k + 1 # 0 /\ (k + 1) - 1 = k
        OBVIOUS
      <4> QED BY <2>1, <3>1, <4>1
    <3>3. h[s \ {Max(s)}] \in Seq(g) /\ o[Max(s)] \in g
      BY <1>1, <1>2, <1>15, <3>2
    <3>4. h[s] = Kept(h[s \ {Max(s)}], o[Max(s)])
      BY <1>12, <3>2
    <3> QED BY <3>3, <3>4
  <2> QED BY <2>1
<1>16. ASSUME NEW s \in SUBSET D PROVE h[s] \in Seq(g)
  <2>1. Cardinality(s) \in K
    <3> HIDE DEF K
    <3>1. Cardinality(s) \in Nat
      BY <1>13
    <3> QED BY <3>1, <1>14, <1>15, Reaches
  <2> QED BY <2>1
<1>17. ASSUME NEW s \in SUBSET D
       PROVE  /\ s = {} => h[s] = <<>>
              /\ s # {} => h[s] = Keep(h[s \ {Max(s)}], o[Max(s)])
  BY <1>12 DEF Keep
<1> HIDE DEF K, Kept, Body
<1>18. FirstUploads(o) = h[DOMAIN o]
  BY <1>10 DEF D
<1>19. \A s \in SUBSET DOMAIN o :
          /\ h[s] \in Seq(g)
          /\ s = {} => h[s] = <<>>
          /\ s # {} => h[s] = Keep(h[s \ {Max(s)}], o[Max(s)])
  BY <1>16, <1>17 DEF D
<1> QED BY <1>18, <1>19 DEF KeptUpTo

\* What is kept of logs in order is logs of them.
LEMMA FirstUploadsIs ==
    ASSUME NEW g, NEW o \in Seq(g)
    PROVE  FirstUploads(o) \in Seq(g)
<1>1. PICK h : KeptUpTo(o, g, h)
  BY FirstUploadsSteps
<1>2. DOMAIN o \in SUBSET DOMAIN o
  OBVIOUS
<1> QED BY <1>1, <1>2 DEF KeptUpTo

\* The image of a finite set is finite.
LEMMA Image ==
    ASSUME NEW S, IsFiniteSet(S), NEW f
    PROVE  IsFiniteSet({f[x] : x \in S})
<1> DEFINE T == {f[x] : x \in S}
<1> DEFINE g == [x \in S |-> f[x]]
<1>1. g \in Surjection(S, T)
  BY DEF Surjection
<1> HIDE DEF T, g
<1>2. IsFiniteSet(T)
  BY <1>1, FS_Surjection
<1> QED BY <1>2 DEF T

LEMMA UnloggedIs ==
    ASSUME NEW logs, Logged(logs)
    PROVE  /\ IsFiniteSet(UnloggedFlights(logs))
           /\ \A f \in UnloggedFlights(logs) : f.seconds \in Nat /\ f.after \in logs
<1> DEFINE Steps(g) == LET o == FirstUploads(Ordered(g))
                      IN  {[log |-> o[i], next |-> o[i + 1]] : i \in 1..(Len(o) - 1)}
<1>1. ASSUME NEW g \in Groups(logs)
      PROVE  /\ IsFiniteSet(Steps(g))
             /\ \A p \in Steps(g) : p.log \in g /\ p.next \in g
  <2> DEFINE o == FirstUploads(Ordered(g))
  <2>1. o \in Seq(g)
    BY GroupsIs, OrderedIs, FirstUploadsIs
  <2> HIDE DEF o
  <2>2. Len(o) \in Nat /\ \A i \in 1..Len(o) : o[i] \in g
    BY <2>1
  <2> DEFINE I == 1..(Len(o) - 1)
  <2>3. IsFiniteSet(I)
    BY <2>2, FS_Interval
  <2>4. \A i \in I : i \in 1..Len(o) /\ i + 1 \in 1..Len(o)
    BY <2>2
  <2> HIDE DEF I
  <2>5. Steps(g) = {[log |-> o[i], next |-> o[i + 1]] : i \in I}
    BY DEF o, I
  <2>6. IsFiniteSet({[log |-> o[i], next |-> o[i + 1]] : i \in I})
    <3> DEFINE f == [i \in I |-> [log |-> o[i], next |-> o[i + 1]]]
    <3>1. {[log |-> o[i], next |-> o[i + 1]] : i \in I} = {f[i] : i \in I}
      OBVIOUS
    <3> HIDE DEF f
    <3>2. IsFiniteSet({f[i] : i \in I})
      BY <2>3, Image
    <3> QED BY <3>1, <3>2
  <2>7. \A p \in Steps(g) : p.log \in g /\ p.next \in g
    BY <2>2, <2>4, <2>5
  <2> HIDE DEF Steps
  <2> QED BY <2>5, <2>6, <2>7
<1>2. Pairs(logs) = UNION {Steps(g) : g \in Groups(logs)}
  BY DEF Pairs
<1> HIDE DEF Steps
<1>3. IsFiniteSet(Pairs(logs))
  <2>1. IsFiniteSet(SourcesOf(logs))
    <3> DEFINE f == [r \in logs |-> r.source]
    <3>1. SourcesOf(logs) = {f[r] : r \in logs}
      BY DEF SourcesOf
    <3> HIDE DEF f
    <3>2. IsFiniteSet({f[r] : r \in logs})
      BY Image DEF Logged
    <3> QED BY <3>1, <3>2
  <2>2. IsFiniteSet({Group(logs, s) : s \in SourcesOf(logs)})
    <3> DEFINE f == [s \in SourcesOf(logs) |-> Group(logs, s)]
    <3>1. {Group(logs, s) : s \in SourcesOf(logs)} = {f[s] : s \in SourcesOf(logs)}
      OBVIOUS
    <3> HIDE DEF f
    <3>2. IsFiniteSet({f[s] : s \in SourcesOf(logs)})
      BY <2>1, Image
    <3> QED BY <3>1, <3>2
  <2>3. IsFiniteSet(Groups(logs))
    BY <2>2, FS_Subset DEF Groups
  <2>4. IsFiniteSet({Steps(g) : g \in Groups(logs)})
    <3> DEFINE f == [g \in Groups(logs) |-> Steps(g)]
    <3>1. {Steps(g) : g \in Groups(logs)} = {f[g] : g \in Groups(logs)}
      OBVIOUS
    <3> HIDE DEF f
    <3>2. IsFiniteSet({f[g] : g \in Groups(logs)})
      BY <2>3, Image
    <3> QED BY <3>1, <3>2
  <2> QED BY <1>1, <1>2, <2>4, FS_UNION
<1>4. ASSUME NEW p \in Pairs(logs)
      PROVE  /\ p.log \in logs /\ UnloggedBetween(p) \in Int
  <2>1. PICK g \in Groups(logs) : p \in Steps(g)
    BY <1>2
  <2>2. p.log \in g /\ p.next \in g
    BY <1>1, <2>1
  <2>3. /\ p.log \in logs /\ p.log.flight \in Nat
        /\ p.log.lifetime.atBoot \in Nat /\ p.next.lifetime.atBoot \in Nat
    BY <2>2, GroupsIs
  <2> QED BY <2>3 DEF UnloggedBetween
<1> DEFINE Q == {q \in Pairs(logs) : UnloggedBetween(q) > Tolerance}
<1>5. IsFiniteSet(Q)
  BY <1>3, FS_Subset
<1>6. UnloggedFlights(logs) = {[after |-> p.log, seconds |-> UnloggedBetween(p)] : p \in Q}
  BY DEF UnloggedFlights
<1>7. ASSUME NEW f \in UnloggedFlights(logs) PROVE f.seconds \in Nat /\ f.after \in logs
  <2>1. PICK p \in Q : f = [after |-> p.log, seconds |-> UnloggedBetween(p)]
    BY <1>6
  <2>2. UnloggedBetween(p) \in Int /\ UnloggedBetween(p) > Tolerance /\ p.log \in logs
    BY <1>4
  <2> QED BY <2>1, <2>2, FlightLogsAssumption
<1> HIDE DEF Q
<1>8. IsFiniteSet(UnloggedFlights(logs))
  <2> DEFINE f == [p \in Q |-> [after |-> p.log, seconds |-> UnloggedBetween(p)]]
  <2>1. UnloggedFlights(logs) = {f[p] : p \in Q}
    BY <1>6
  <2> HIDE DEF f
  <2>2. IsFiniteSet({f[p] : p \in Q})
    BY <1>5, Image
  <2> QED BY <2>1, <2>2
<1> QED BY <1>7, <1>8

-----------------------------------------------------------------------------
(* What the flight of an airframe adds up to.                              *)

Spans(S) == [f \in S |-> f.seconds]

LEMMA SpansAre ==
    ASSUME NEW S, Summable(Spans(S), S)
    PROVE  MapThenSumSet(LAMBDA f : f.seconds, S) = Total(Spans(S), S)
<1> DEFINE Is(f) == f = [s \in SUBSET S |-> IF s = {} THEN 0
                                            ELSE Some(s).seconds + f[s \ {Some(s)}]]
<1>1. MapThenSumSet(LAMBDA f : f.seconds, S) = (CHOOSE f : Is(f))[S]
  BY DEF MapThenSumSet, MapThenFoldSet, Some
<1>2. \A f : Is(f) <=> Taking(S, Spans(S), f)
  <2> SUFFICES ASSUME NEW f PROVE Is(f) <=> Taking(S, Spans(S), f)
    OBVIOUS
  <2>1. \A s \in SUBSET S : s # {} => Spans(S)[Some(s)] = Some(s).seconds
    BY DEF Spans, Some
  <2>2. [s \in SUBSET S |-> IF s = {} THEN 0 ELSE Some(s).seconds + f[s \ {Some(s)}]]
        = [s \in SUBSET S |-> IF s = {} THEN 0 ELSE Spans(S)[Some(s)] + f[s \ {Some(s)}]]
    BY <2>1
  <2> QED BY <2>2 DEF Taking
<1>3. Is(CHOOSE f : Is(f))
  <2>1. \E f : Is(f)
    BY <1>2, TakingIs
  <2> HIDE DEF Is
  <2> QED BY <2>1, Zenon
<1> HIDE DEF Is
<1> QED BY <1>1, <1>2, <1>3, TakingIs

Cycles(S) == [r \in S |-> Cycle(r)]

LEMMA CyclesAre ==
    ASSUME NEW S, Summable(Cycles(S), S)
    PROVE  MapThenSumSet(Cycle, S) = Total(Cycles(S), S)
<1> DEFINE Is(f) == f = [s \in SUBSET S |-> IF s = {} THEN 0
                                            ELSE Cycle(Some(s)) + f[s \ {Some(s)}]]
<1>1. MapThenSumSet(Cycle, S) = (CHOOSE f : Is(f))[S]
  BY DEF MapThenSumSet, MapThenFoldSet, Some
<1>2. \A f : Is(f) <=> Taking(S, Cycles(S), f)
  <2> SUFFICES ASSUME NEW f PROVE Is(f) <=> Taking(S, Cycles(S), f)
    OBVIOUS
  <2>1. \A s \in SUBSET S : s # {} => Cycles(S)[Some(s)] = Cycle(Some(s))
    BY DEF Cycles, Some
  <2>2. [s \in SUBSET S |-> IF s = {} THEN 0 ELSE Cycle(Some(s)) + f[s \ {Some(s)}]]
        = [s \in SUBSET S |-> IF s = {} THEN 0 ELSE Cycles(S)[Some(s)] + f[s \ {Some(s)}]]
    BY <2>1
  <2> QED BY <2>2 DEF Taking
<1>3. Is(CHOOSE f : Is(f))
  <2>1. \E f : Is(f)
    BY <1>2, TakingIs
  <2> HIDE DEF Is
  <2> QED BY <2>1, Zenon
<1> HIDE DEF Is
<1> QED BY <1>1, <1>2, <1>3, TakingIs

LEMMA FlownIs ==
    ASSUME NEW logs, Logged(logs), NEW S \in SUBSET logs
    PROVE  /\ IsFiniteSet(S) /\ Summable(Values(S), S) /\ Summable(Cycles(S), S)
           /\ \A r \in S : Values(S)[r] \in Nat /\ Values(S)[r] = Seconds(r)
           /\ \A r \in S : Cycles(S)[r] \in Nat
           /\ MapThenSumSet(Seconds, S) = Total(Values(S), S)
           /\ MapThenSumSet(Cycle, S) = Total(Cycles(S), S)
           /\ MapThenSumSet(Seconds, S) \in Nat /\ MapThenSumSet(Cycle, S) \in Nat
<1>1. IsFiniteSet(S)
  BY FS_Subset DEF Logged
<1>2. ASSUME NEW r \in S
      PROVE  /\ Values(S)[r] \in Nat /\ Values(S)[r] = Seconds(r) /\ Cycles(S)[r] \in Nat
  <2>1. r \in logs
    OBVIOUS
  <2>2. r.flight \in Nat \cup {Unknown}
    BY <2>1, RecordIs
  <2>3. Seconds(r) \in Nat
    BY <2>2 DEF Seconds, Known
  <2> QED BY <2>3 DEF Values, Cycles, Cycle
<1>3. Summable(Values(S), S) /\ Summable(Cycles(S), S)
  BY <1>1, <1>2 DEF Summable
<1>4. MapThenSumSet(Seconds, S) = Total(Values(S), S)
  BY <1>3, SecondsAre
<1>5. MapThenSumSet(Cycle, S) = Total(Cycles(S), S)
  BY <1>3, CyclesAre
<1>6. Total(Values(S), S) \in Nat /\ Total(Cycles(S), S) \in Nat
  BY <1>1, <1>2, TotalNat
<1> QED BY <1>1, <1>2, <1>3, <1>4, <1>5, <1>6

LEMMA UncoveredIs ==
    ASSUME NEW logs, Logged(logs), NEW S \in SUBSET UnloggedFlights(logs)
    PROVE  /\ IsFiniteSet(S) /\ Summable(Spans(S), S)
           /\ \A f \in S : Spans(S)[f] \in Nat /\ Spans(S)[f] = f.seconds
           /\ MapThenSumSet(LAMBDA f : f.seconds, S) = Total(Spans(S), S)
           /\ MapThenSumSet(LAMBDA f : f.seconds, S) \in Nat
<1>1. IsFiniteSet(S)
  BY UnloggedIs, FS_Subset
<1>2. ASSUME NEW f \in S PROVE Spans(S)[f] \in Nat /\ Spans(S)[f] = f.seconds
  BY UnloggedIs DEF Spans
<1>3. Summable(Spans(S), S)
  BY <1>1, <1>2 DEF Summable
<1>4. MapThenSumSet(LAMBDA f : f.seconds, S) = Total(Spans(S), S)
  BY <1>3, SpansAre
<1>5. Total(Spans(S), S) \in Nat
  BY <1>1, <1>2, TotalNat
<1> QED BY <1>1, <1>2, <1>3, <1>4, <1>5

\* A part of the flight is no more than the whole, and two parts with nothing in common no more
\* than both together.
LEMMA SecondsWithin ==
    ASSUME NEW logs, Logged(logs), NEW S \in SUBSET logs, NEW T \in SUBSET S
    PROVE  MapThenSumSet(Seconds, T) <= MapThenSumSet(Seconds, S)
<1>1. \A r \in T : Values(S)[r] = Values(T)[r]
  BY DEF Values
<1>2. Total(Values(S), T) <= Total(Values(S), S)
  BY FlownIs, TotalWithin
<1>3. /\ Summable(Values(T), T) /\ MapThenSumSet(Seconds, T) = Total(Values(T), T)
      /\ MapThenSumSet(Seconds, S) = Total(Values(S), S)
  BY FlownIs
<1>4. Total(Values(S), T) = Total(Values(T), T)
  BY <1>1, <1>3, TotalSame
<1> QED BY <1>2, <1>3, <1>4

LEMMA UncoveredWithin ==
    ASSUME NEW logs, Logged(logs), NEW S \in SUBSET UnloggedFlights(logs), NEW T \in SUBSET S
    PROVE  MapThenSumSet(LAMBDA f : f.seconds, T) <= MapThenSumSet(LAMBDA f : f.seconds, S)
<1>1. \A r \in T : Spans(S)[r] = Spans(T)[r]
  BY DEF Spans
<1>2. Total(Spans(S), T) <= Total(Spans(S), S)
  BY UncoveredIs, TotalWithin
<1>3. /\ Summable(Spans(T), T) /\ MapThenSumSet(LAMBDA f : f.seconds, T) = Total(Spans(T), T)
      /\ MapThenSumSet(LAMBDA f : f.seconds, S) = Total(Spans(S), S)
  BY UncoveredIs
<1>4. Total(Spans(S), T) = Total(Spans(T), T)
  BY <1>1, <1>3, TotalSame
<1> QED BY <1>2, <1>3, <1>4

LEMMA SecondsApart ==
    ASSUME NEW logs, Logged(logs), NEW S \in SUBSET logs, NEW T \in SUBSET logs, S \cap T = {}
    PROVE  MapThenSumSet(Seconds, S \cup T)
              = MapThenSumSet(Seconds, S) + MapThenSumSet(Seconds, T)
<1> DEFINE U == S \cup T
<1>1. U \in SUBSET logs
  OBVIOUS
<1>2. Summable(Values(U), U) /\ MapThenSumSet(Seconds, U) = Total(Values(U), U)
  BY <1>1, FlownIs
<1>3. /\ Summable(Values(S), S) /\ MapThenSumSet(Seconds, S) = Total(Values(S), S)
      /\ Summable(Values(T), T) /\ MapThenSumSet(Seconds, T) = Total(Values(T), T)
  BY FlownIs
<1>4. (\A r \in S : Values(S)[r] = Values(U)[r]) /\ \A r \in T : Values(T)[r] = Values(U)[r]
  BY DEF Values
<1>5. Total(Values(S), S) = Total(Values(U), S) /\ Total(Values(T), T) = Total(Values(U), T)
  BY <1>3, <1>4, TotalSame
<1>6. Summable(Values(U), S) /\ Summable(Values(U), T)
  BY <1>3, <1>4 DEF Summable
<1> HIDE DEF U
<1>7. Total(Values(U), S \cup T) = Total(Values(U), S) + Total(Values(U), T)
  BY <1>6, TotalSplit
<1> QED BY <1>2, <1>3, <1>5, <1>7 DEF U

-----------------------------------------------------------------------------
(* What is kept of an entry, and of the entries in the records.            *)

Entered(e, keys) ==
    /\ e.kind \in Kinds /\ e.subject # None /\ e.at \in Nat /\ e.at <= Today
    /\ e.details \in Form(e.kind)
    /\ e.kind = "work_order.open" => e.details.work \in Nat
    /\ e.kind = "inspection.done" =>
          e.details.name \in DOMAIN InspectionRules /\ e.details.hours \in Nat
    /\ e.kind = "component.register" => e.details.kind \in DOMAIN PartRules /\ LifeEnds(e.details)
    /\ e.kind \in {"component.install", "component.remove"} => e.details.aircraft \in keys

Inspections(t) ==
    [name : DOMAIN InspectionRules, done : 0..t, hours : Nat, carried : Nat, derived : BOOLEAN]

AircraftKept(a, t) == IsAircraft(a) /\ a.before \in Nat /\ a.inspections \in Seq(Inspections(t))

Windows(keys) == [aircraft : keys, from : Nat, to : Nat \cup {None}]

PartKept(c, keys) ==
    /\ IsPart(c) /\ c.hours \in Nat /\ c.cycles \in Nat
    /\ c.kind \in DOMAIN PartRules /\ LifeEnds(c)
    /\ c.windows \in Seq(Windows(keys))

RecordsKept(r, keys, t) ==
    /\ \A k : AircraftKept(AircraftOn(r, k), t)
    /\ \A k \in DOMAIN r.parts : k # None /\ PartKept(r.parts[k], keys)

LEMMA AircraftStaysKept ==
    ASSUME NEW t \in Int, NEW a, AircraftKept(a, t), NEW keys, NEW e, Entered(e, keys), e.at <= t
    PROVE  AircraftKept(FoldAircraft(a, e), t)
<1>0. PICK b : b = FoldAircraft(a, e)
  OBVIOUS
<1> DEFINE d == e.details
<1> DEFINE Row(x, y, z) == [before |-> x, inspections |-> y, orders |-> z]
<1>1. PICK p, q, o : a = Row(p, q, o)
  BY DEF AircraftKept, IsAircraft
<1>2. p \in Nat /\ q \in Seq(Inspections(t)) /\ a.before = p /\ a.inspections = q /\ a.orders = o
  BY <1>1 DEF AircraftKept
<1>3. IsAircraft(b)
  BY <1>0, FoldAircraftKeeps DEF AircraftKept
<1>4. CASE e.kind = "time_in_service.set"
  <2>1. b = Row(d.before, q, o)
    BY <1>0, <1>1, <1>4 DEF FoldAircraft
  <2>2. d.before \in Nat
    BY <1>4 DEF Entered, Form
  <2> QED BY <1>0, <1>2, <1>3, <2>1, <2>2 DEF AircraftKept
<1>5. CASE e.kind = "inspection.done"
  <2> DEFINE i == [name |-> d.name, done |-> e.at, hours |-> d.hours,
                   carried |-> d.carried, derived |-> d.derived]
  <2>1. b = Row(p, Append(q, i), o)
    BY <1>0, <1>1, <1>5 DEF FoldAircraft
  <2>2. d \in [name : STRING, hours : Nat \cup {None}, carried : Nat, derived : BOOLEAN]
    BY <1>5 DEF Entered, Form
  <2>3. d.name \in DOMAIN InspectionRules /\ d.hours \in Nat /\ e.at \in 0..t
    BY <1>5 DEF Entered
  <2>4. i \in Inspections(t)
    BY <2>2, <2>3 DEF Inspections
  <2> HIDE DEF i
  <2>5. Append(q, i) \in Seq(Inspections(t))
    BY <1>2, <2>4
  <2> QED BY <1>0, <1>2, <1>3, <2>1, <2>5 DEF AircraftKept
<1>6. CASE e.kind \notin {"time_in_service.set", "inspection.done"}
  <2>1. \E z : b = Row(p, q, z)
    <3>1. CASE e.kind = "work_order.open"
      BY <1>0, <1>1, <3>1 DEF FoldAircraft
    <3>2. CASE e.kind = "work_order.state" /\ "work" \in DOMAIN d /\ d.work \in DOMAIN a.orders
      BY <1>0, <1>1, <3>2 DEF FoldAircraft
    <3>3. CASE e.kind = "work_order.close" /\ "work" \in DOMAIN d /\ d.work \in DOMAIN a.orders
      BY <1>0, <1>1, <3>3 DEF FoldAircraft
    <3>4. CASE /\ e.kind # "work_order.open"
               /\ ~(e.kind = "work_order.state" /\ "work" \in DOMAIN d /\ d.work \in DOMAIN a.orders)
               /\ ~(e.kind = "work_order.close" /\ "work" \in DOMAIN d /\ d.work \in DOMAIN a.orders)
      <4>1. b = a
        BY <1>0, <1>6, <3>4 DEF FoldAircraft
      <4> QED BY <1>1, <4>1
    <3> QED BY <3>1, <3>2, <3>3, <3>4
  <2> QED BY <1>0, <1>2, <1>3, <2>1 DEF AircraftKept
<1> QED BY <1>4, <1>5, <1>6

LEMMA FitsOn ==
    ASSUME NEW c, NEW keys, PartKept(c, keys), NEW w \in Seq(Windows(keys))
    PROVE  PartKept([c EXCEPT !.windows = w], keys)
<1> DEFINE Part(a, b, d, f, g, h) ==
        [kind |-> a, since |-> b, hours |-> d, cycles |-> f, windows |-> g, registered |-> h]
<1>1. PICK a, b, d, f, g, h : c = Part(a, b, d, f, g, h)
  BY DEF PartKept, IsPart
<1>2. PICK x : x = [c EXCEPT !.windows = w]
  OBVIOUS
<1>3. x = Part(a, b, d, f, w, h)
  BY <1>1, <1>2
<1>4. /\ x.kind = c.kind /\ x.since = c.since /\ x.hours = c.hours /\ x.cycles = c.cycles
      /\ x.windows = w
  BY <1>1, <1>3
<1>5. IsPart(x)
  BY <1>2, PartWith DEF PartKept
<1>6. PartKept(x, keys)
  BY <1>4, <1>5 DEF PartKept, LifeEnds
<1> QED BY <1>2, <1>6

LEMMA PartsStayKept ==
    ASSUME NEW p, NEW keys, \A k \in DOMAIN p : PartKept(p[k], keys),
           NEW e, Entered(e, keys)
    PROVE  \A k \in DOMAIN FoldPart(p, e) : PartKept(FoldPart(p, e)[k], keys)
<1> DEFINE k == e.subject
<1> DEFINE d == e.details
<1>0. PICK q : q = FoldPart(p, e)
  OBVIOUS
<1>1. /\ DOMAIN q = IF e.kind = "component.register" THEN DOMAIN p \cup {k} ELSE DOMAIN p
      /\ \A j \in DOMAIN p : j # k => q[j] = p[j]
  BY <1>0, FoldPartIs
<1>2. CASE e.kind = "component.register"
  <2> DEFINE new == [kind |-> d.kind, since |-> d.since, hours |-> d.hours,
                     cycles |-> d.cycles, windows |-> <<>>, registered |-> e.at]
  <2>1. q[k] = new
    <3>1. q = WithKey(p, k, new)
      BY <1>0, <1>2 DEF FoldPart
    <3> HIDE DEF new
    <3> QED BY <3>1 DEF WithKey
  <2>2. /\ d \in [kind : STRING, since : Nat, hours : Nat, cycles : Nat]
        /\ d.kind \in DOMAIN PartRules /\ LifeEnds(d)
    BY <1>2 DEF Entered, Form
  <2>3. new.kind = d.kind /\ new.since = d.since /\ new.hours \in Nat /\ new.cycles \in Nat
    BY <2>2
  <2>4. IsPart(new) /\ new.windows = <<>>
    BY PartOf
  <2>5. <<>> \in Seq(Windows(keys))
    OBVIOUS
  <2> HIDE DEF new
  <2>6. PartKept(new, keys)
    BY <2>2, <2>3, <2>4, <2>5 DEF PartKept, LifeEnds
  <2> QED BY <1>0, <1>1, <1>2, <2>1, <2>6
<1>3. CASE e.kind = "component.install" /\ k \in DOMAIN p
  <2>1. PICK c : c = p[k] /\ PartKept(c, keys)
    BY <1>3
  <2>2. PICK w : w = Append(c.windows, Fitting(e))
    OBVIOUS
  <2>3. q[k] = [c EXCEPT !.windows = w]
    <3>1. q = [p EXCEPT ![k] = [c EXCEPT !.windows = w]]
      BY <1>0, <1>3, <2>1, <2>2 DEF FoldPart, Fitting
    <3> QED BY <1>3, <3>1
  <2>4. Fitting(e) \in Windows(keys)
    BY <1>3 DEF Fitting, Entered, Windows
  <2>5. w \in Seq(Windows(keys))
    BY <2>1, <2>2, <2>4 DEF PartKept
  <2> QED BY <1>0, <1>1, <1>3, <2>1, <2>3, <2>5, FitsOn
<1>4. CASE e.kind = "component.remove" /\ k \in DOMAIN p
  <2>1. PICK c : c = p[k] /\ PartKept(c, keys)
    BY <1>4
  <2>2. PICK w : w = TakenOff(c.windows, e)
    OBVIOUS
  <2>3. q[k] = [c EXCEPT !.windows = w]
    <3>1. q = [p EXCEPT ![k] = [c EXCEPT !.windows = w]]
      BY <1>0, <1>4, <2>1, <2>2 DEF FoldPart, TakenOff
    <3> QED BY <1>4, <3>1
  <2>4. w \in Seq(Windows(keys))
    <3>1. PICK v : v = c.windows /\ v \in Seq(Windows(keys))
      BY <2>1 DEF PartKept
    <3>2. PICK o : o = FirstOpen(v, d.aircraft)
      OBVIOUS
    <3>3. w = [i \in 1..Len(v) |-> IF i \in o THEN [v[i] EXCEPT !.to = e.at] ELSE v[i]]
      BY <2>2, <3>1, <3>2 DEF TakenOff
    <3>4. ASSUME NEW i \in 1..Len(v)
          PROVE  (IF i \in o THEN [v[i] EXCEPT !.to = e.at] ELSE v[i]) \in Windows(keys)
      <4>1. v[i] \in Windows(keys)
        BY <3>1
      <4>2. e.at \in Nat
        BY DEF Entered
      <4> QED BY <4>1, <4>2 DEF Windows
    <3>5. Len(v) \in Nat
      BY <3>1
    <3> QED BY <3>3, <3>4, <3>5
  <2> QED BY <1>0, <1>1, <1>4, <2>1, <2>3, <2>4, FitsOn
<1>5. CASE e.kind # "component.register"
           /\ ~(e.kind \in {"component.install", "component.remove"} /\ k \in DOMAIN p)
  <2>1. q = p
    <3>1. /\ ~(e.kind = "component.install" /\ k \in DOMAIN p)
          /\ ~(e.kind = "component.remove" /\ k \in DOMAIN p)
      BY <1>5
    <3> QED BY <1>0, <1>5, <3>1 DEF FoldPart
  <2> QED BY <1>0, <2>1
<1> QED BY <1>2, <1>3, <1>4, <1>5

LEMMA FoldKept ==
    ASSUME NEW n \in Nat, NEW E, Shaped(E, n), NEW S \in SUBSET E, NEW keys, NEW t \in Int,
           \A e \in S : Entered(e, keys) /\ e.at <= t
    PROVE  RecordsKept(Fold(E, S), keys, t)
<1> DEFINE G == {s \in SUBSET S : RecordsKept(Fold(E, s), keys, t)}
<1>1. {} \in G
  <2>1. PICK r : r = Fold(E, {}) /\ r = NoRecords
    BY FoldStep
  <2>2. AircraftKept(NoAircraft, t)
    <3>1. <<>> \in Seq(Inspections(t))
      OBVIOUS
    <3> QED BY <3>1 DEF AircraftKept, IsAircraft, NoAircraft
  <2>3. \A k : AircraftOn(r, k) = NoAircraft
    BY <2>1 DEF NoRecords, AircraftOn
  <2>4. DOMAIN r.parts = {}
    BY <2>1 DEF NoRecords
  <2>5. RecordsKept(r, keys, t)
    BY <2>2, <2>3, <2>4 DEF RecordsKept
  <2> QED BY <2>1, <2>5
<1>2. ASSUME NEW s \in SUBSET S, s # {}, s \ {LastInFold(E, s)} \in G PROVE s \in G
  <2>1. PICK l : l = LastInFold(E, s)
    OBVIOUS
  <2>2. PICK rest \in SUBSET E : rest = s \ {l} /\ rest \in G
    BY <1>2, <2>1
  <2>3. s \in SUBSET E
    OBVIOUS
  <2>4. l \in s /\ Fold(E, s) = Folded(Fold(E, rest), l)
    BY <1>2, <2>1, <2>2, <2>3, FoldStep
  <2>5. PICK r : r = Fold(E, rest)
    OBVIOUS
  <2>6. AreRecords(r) /\ RecordsKept(r, keys, t)
    BY <2>2, <2>5, FoldShows
  <2>7. Entered(l, keys) /\ l.at <= t
    BY <2>4
  <2>8. PICK q : q = Folded(r, l)
    OBVIOUS
  <2>9. /\ q.parts = IF l.kind \in ComponentKinds THEN FoldPart(r.parts, l) ELSE r.parts
        /\ \A k : AircraftOn(q, k) = IF l.kind \in AircraftKinds /\ k = l.subject
                                     THEN FoldAircraft(AircraftOn(r, k), l)
                                     ELSE AircraftOn(r, k)
    BY <2>6, <2>8, FoldedParts
  <2>10. \A k : AircraftKept(AircraftOn(q, k), t)
    <3> SUFFICES ASSUME NEW k PROVE AircraftKept(AircraftOn(q, k), t)
      OBVIOUS
    <3>1. PICK a : a = AircraftOn(r, k) /\ AircraftKept(a, t)
      BY <2>6 DEF RecordsKept
    <3>2. AircraftKept(FoldAircraft(a, l), t)
      BY <2>7, <3>1, AircraftStaysKept
    <3> QED BY <2>9, <3>1, <3>2
  <2>11. \A k \in DOMAIN q.parts : k # None /\ PartKept(q.parts[k], keys)
    <3>1. PICK p : p = r.parts /\ \A k \in DOMAIN p : k # None /\ PartKept(p[k], keys)
      BY <2>6 DEF RecordsKept
    <3>2. \A k \in DOMAIN FoldPart(p, l) : PartKept(FoldPart(p, l)[k], keys)
      BY <2>7, <3>1, PartsStayKept
    <3>3. q.parts = FoldPart(p, l) \/ q.parts = p
      BY <2>9, <3>1
    <3>4. DOMAIN FoldPart(p, l) \subseteq DOMAIN p \cup {l.subject} /\ l.subject # None
      BY <2>7, FoldPartIs DEF Entered
    <3> QED BY <3>1, <3>2, <3>3, <3>4
  <2>12. RecordsKept(q, keys, t)
    BY <2>10, <2>11 DEF RecordsKept
  <2> QED BY <2>4, <2>5, <2>8, <2>12
<1>3. Gathers(E, S, G)
  BY <1>1, <1>2 DEF Gathers
<1>4. S \in G
  <2> HIDE DEF G
  <2> QED BY <1>3, FoldInduction
<1> QED BY <1>4

\* The flight time and the time in service of an aircraft are whole numbers.
LEMMA FlightTimeIs ==
    ASSUME NEW logs, Logged(logs), NEW until, NEW undated
    PROVE  /\ FlightTime(logs, until, undated) \in Nat
           /\ \A before \in Nat : /\ MostTimeInService(before, logs, until) \in Nat
                                  /\ TimeInService(before, logs, until, undated)
                                         \in Nat \cup {Unknown}
<1>1. ASSUME NEW d PROVE FlightTime(logs, until, d) \in Nat
  <2>1. PICK a : a = MapThenSumSet(Seconds, Flown(logs, until, d))
    OBVIOUS
  <2>2. PICK b : b = MapThenSumSet(LAMBDA f : f.seconds, Unlogged(logs, until, d))
    OBVIOUS
  <2>3. Flown(logs, until, d) \in SUBSET logs
    BY DEF Flown
  <2>4. Unlogged(logs, until, d) \in SUBSET UnloggedFlights(logs)
    BY DEF Unlogged
  <2>5. a \in Nat
    BY <2>1, <2>3, FlownIs
  <2>6. b \in Nat
    BY <2>2, <2>4, UncoveredIs
  <2>7. FlightTime(logs, until, d) = a + b
    BY <2>1, <2>2 DEF FlightTime
  <2> QED BY <2>5, <2>6, <2>7
<1>2. PICK t, u : t = FlightTime(logs, until, TRUE) /\ u = FlightTime(logs, until, undated)
  OBVIOUS
<1>3. t \in Nat /\ u \in Nat
  BY <1>1, <1>2
<1>4. ASSUME NEW before \in Nat
      PROVE  /\ MostTimeInService(before, logs, until) \in Nat
             /\ TimeInService(before, logs, until, undated) \in Nat \cup {Unknown}
  <2>1. MostTimeInService(before, logs, until) = before + t
    BY <1>2 DEF MostTimeInService
  <2>2. \/ TimeInService(before, logs, until, undated) = Unknown
        \/ TimeInService(before, logs, until, undated) = before + u
    BY <1>2 DEF TimeInService
  <2> QED BY <1>3, <2>1, <2>2
<1> QED BY <1>1, <1>4

\* What is filled in of an entry.
FilledIn(e, d) == [id |-> e.id, supersedes |-> e.supersedes, subject |-> e.subject,
                   kind |-> e.kind, at |-> e.at, details |-> d]

LEMMA FilledIs ==
    ASSUME NEW e, e = FilledIn(e, e.details), e.id \in Nat, e.details \in Form(e.kind),
           NEW logs, NEW then, DerivedHours(logs, then, e) \in Nat \cup {Unknown}
    PROVE  \E d : /\ Filled(logs, then, e) = FilledIn(e, d)
                  /\ e.kind # "inspection.done" => d \in Form(e.kind)
                  /\ e.kind = "work_order.open" => d.work \in Nat
                  /\ e.kind = "inspection.done" =>
                        d \in [name : STRING, hours : Nat \cup {Unknown},
                               carried : Nat, derived : BOOLEAN]
<1>1. PICK d : d = e.details
  OBVIOUS
<1>2. d \in Form(e.kind) /\ e = FilledIn(e, d)
  BY <1>1
<1>3. CASE e.kind = "work_order.open" /\ d.work = None
  <2>1. PICK x : x = [d EXCEPT !.work = e.id]
    OBVIOUS
  <2>2. Filled(logs, then, e) = FilledIn(e, x)
    <3>1. Filled(logs, then, e) = [e EXCEPT !.details.work = e.id]
      BY <1>1, <1>3 DEF Filled
    <3>2. [e EXCEPT !.details.work = e.id] = FilledIn(e, x)
      BY <1>1, <2>1 DEF FilledIn
    <3> QED BY <3>1, <3>2
  <2>3. d \in [work : Nat \cup {None}, state : WorkStates]
    BY <1>2, <1>3 DEF Form
  <2>4. x \in [work : Nat \cup {None}, state : WorkStates] /\ x.work \in Nat
    BY <2>1, <2>3
  <2>5. x \in Form(e.kind)
    BY <1>3, <2>4 DEF Form
  <2> QED BY <1>3, <2>2, <2>4, <2>5
<1>4. CASE e.kind = "inspection.done" /\ d.hours = None
  <2>1. PICK h \in Nat \cup {Unknown} : h = DerivedHours(logs, then, e)
    OBVIOUS
  <2>2. PICK x : x = [[d EXCEPT !.hours = h] EXCEPT !.derived = TRUE]
    OBVIOUS
  <2>3. Filled(logs, then, e) = FilledIn(e, x)
    <3>1. Filled(logs, then, e) = [e EXCEPT !.details.hours = h, !.details.derived = TRUE]
      BY <1>1, <1>4, <2>1 DEF Filled
    <3>2. [e EXCEPT !.details.hours = h, !.details.derived = TRUE] = [e EXCEPT !.details = x]
      BY <1>1, <1>2, <2>2 DEF FilledIn
    <3>3. [e EXCEPT !.details = x] = FilledIn(e, x)
      BY <1>2 DEF FilledIn
    <3> QED BY <3>1, <3>2, <3>3
  <2>4. d \in [name : STRING, hours : Nat \cup {None}, carried : Nat, derived : BOOLEAN]
    BY <1>2, <1>4 DEF Form
  <2>5. x \in [name : STRING, hours : Nat \cup {Unknown}, carried : Nat, derived : BOOLEAN]
    BY <2>2, <2>4
  <2> QED BY <1>4, <2>3, <2>5
<1>5. CASE /\ ~(e.kind = "work_order.open" /\ d.work = None)
           /\ ~(e.kind = "inspection.done" /\ d.hours = None)
  <2>1. Filled(logs, then, e) = FilledIn(e, d)
    BY <1>1, <1>2, <1>5 DEF Filled
  <2>2. e.kind = "work_order.open" => d.work \in Nat
    BY <1>2, <1>5 DEF Form
  <2>3. e.kind = "inspection.done" =>
           d \in [name : STRING, hours : Nat \cup {Unknown}, carried : Nat, derived : BOOLEAN]
    BY <1>2, <1>5 DEF Form
  <2> QED BY <1>2, <2>1, <2>2, <2>3
<1> QED BY <1>3, <1>4, <1>5

\* What is kept of the entries and the logs.
Kept(E, keys) ==
    /\ Ids(E) = 1..Cardinality(E)
    /\ \A e \in E : Entered(e, keys) /\ (e.kind \in AircraftKinds => e.subject \in keys)

LEMMA WrittenIs ==
    ASSUME NEW E, LedgerHolds(E), NEW logs, Kept(E, DOMAIN logs),
           \A key \in DOMAIN logs : Logged(logs[key]), NEW s \in {0} \cup Ids(E), NEW w,
           w = [id |-> 0, supersedes |-> s, subject |-> w.subject, kind |-> w.kind,
                at |-> w.at, details |-> w.details],
           w.kind \in Kinds, w.subject # None, w.at \in Nat, w.details \in Form(w.kind),
           w.kind = "component.register" => LifeEnds(w.details),
           NEW e, e = Candidate(E, logs, w), Acceptable(E, logs, e)
    PROVE  Entered(e, DOMAIN logs) /\ (e.kind \in AircraftKinds => e.subject \in DOMAIN logs)
<1>1. PICK n : n = Cardinality(E)
  OBVIOUS
<1>2. n \in Nat /\ Shaped(E, n)
  BY <1>1, FS_CardinalityType DEF LedgerHolds, Shaped
<1>3. PICK f : f = [w EXCEPT !.id = NextId(E)]
  OBVIOUS
<1>4. /\ f = FilledIn(f, f.details) /\ f.id = n + 1 /\ f.supersedes = s
      /\ f.kind = w.kind /\ f.at = w.at /\ f.details = w.details /\ f.subject = w.subject
  BY <1>1, <1>3 DEF NextId, FilledIn
<1>5. PICK T : T = E \cup {f}
  OBVIOUS
<1>6. Grows(E, n, T, f)
  BY <1>2, <1>4, <1>5 DEF Grows
<1>7. n + 1 \in Nat /\ Shaped(T, n + 1)
  BY <1>6, Grown
<1>8. PICK then : then = ProjectBefore(T, f)
  OBVIOUS
<1>9. e = Filled(logs, then, f)
  BY <1>3, <1>5, <1>8 DEF Candidate
<1>10. SubjectsHold(DOMAIN logs, Project(E), e) /\ ShapeHolds(e) /\ PolicyHolds(e) /\ Derivable(e)
  BY DEF Acceptable
<1>11. PICK m : m = n + 1
  OBVIOUS
<1>12. RecordsKept(then, DOMAIN logs, Today)
  <2>1. Live(T) \subseteq T
    BY <1>7, LiveIs
  <2>2. f \notin Prior(T, f)
    <3>1. ~Earlier(T, f, f)
      <4>1. f \in T
        BY <1>5
      <4> QED BY <1>7, <4>1, EarlierIs
    <3> QED BY <3>1 DEF Prior
  <2>3. Prior(T, f) \in SUBSET T /\ Prior(T, f) \subseteq E
    BY <1>5, <2>1, <2>2 DEF Prior
  <2>4. \A x \in Prior(T, f) : Entered(x, DOMAIN logs) /\ x.at <= Today
    BY <2>3 DEF Kept, Entered
  <2>5. Today \in Int
    BY TopicsAssumption
  <2>6. then = Fold(T, Prior(T, f))
    BY <1>8, BeforeIs
  <2> QED BY <1>7, <2>3, <2>4, <2>5, <2>6, FoldKept
<1>13. CASE f.kind \in AircraftKinds
  <2>1. PICK h : h = DerivedHours(logs, then, f)
    OBVIOUS
  <2>2. f.subject \in DOMAIN logs => h \in Nat \cup {Unknown}
    <3>1. BeforeOn(then, f.subject) \in Nat
      <4>1. BeforeOn(then, f.subject) = AircraftOn(then, f.subject).before
        BY DEF BeforeOn, AircraftOn, NoAircraft
      <4> QED BY <1>12, <4>1 DEF RecordsKept, AircraftKept
    <3> QED BY <2>1, <3>1, FlightTimeIs DEF DerivedHours
  <2>3. e.kind = f.kind /\ e.subject = f.subject
    <3>1. \/ e = f
          \/ e = [f EXCEPT !.details.work = f.id]
          \/ \E x : e = [f EXCEPT !.details.hours = x, !.details.derived = TRUE]
      BY <1>9 DEF Filled
    <3> QED BY <1>4, <3>1 DEF FilledIn
  <2>4. e.subject \in DOMAIN logs
    BY <1>10, <1>13, <2>3 DEF SubjectsHold
  <2>5. h \in Nat \cup {Unknown} /\ f.id \in Nat
    BY <1>4, <1>7, <2>2, <2>3, <2>4
  <2>6. f.details \in Form(f.kind)
    BY <1>4
  <2>7. PICK d : /\ e = FilledIn(f, d)
                 /\ f.kind # "inspection.done" => d \in Form(f.kind)
                 /\ f.kind = "work_order.open" => d.work \in Nat
                 /\ f.kind = "inspection.done" =>
                       d \in [name : STRING, hours : Nat \cup {Unknown},
                              carried : Nat, derived : BOOLEAN]
    BY <1>4, <1>9, <2>1, <2>5, <2>6, FilledIs
  <2>8. e.details = d /\ e.at = f.at /\ e.kind = f.kind /\ e.subject = f.subject
    BY <2>7 DEF FilledIn
  <2>9. e.at \in Nat /\ e.at <= Today /\ e.kind \in Kinds /\ e.subject # None
    BY <1>4, <1>10, <2>8 DEF ShapeHolds
  <2>10. CASE f.kind = "inspection.done"
    <3>1. /\ d \in [name : STRING, hours : Nat, carried : Nat, derived : BOOLEAN]
          /\ d.name \in DOMAIN InspectionRules
      BY <1>10, <2>7, <2>8, <2>10 DEF Derivable, Known, PolicyHolds
    <3>2. d \in Form(e.kind)
      BY <2>8, <2>10, <3>1 DEF Form
    <3> QED BY <2>4, <2>8, <2>9, <2>10, <3>1, <3>2 DEF Entered
  <2>11. CASE f.kind # "inspection.done"
    <3>1. d \in Form(e.kind) /\ e.kind \in AircraftKinds
      BY <1>13, <2>7, <2>8, <2>11
    <3> QED BY <2>4, <2>7, <2>8, <2>9, <2>11, <3>1 DEF Entered, AircraftKinds
  <2> QED BY <2>10, <2>11
<1>14. CASE f.kind \notin AircraftKinds
  <2>1. e = f
    BY <1>9, <1>14 DEF Filled, AircraftKinds
  <2>2. /\ e.details \in Form(e.kind) /\ e.at \in Nat /\ e.at <= Today
        /\ e.kind \in Kinds /\ e.subject # None
    BY <1>4, <1>10, <2>1 DEF ShapeHolds
  <2>3. e.kind = "component.register" => LifeEnds(e.details) /\ e.details.kind \in DOMAIN PartRules
    BY <1>4, <1>10, <2>1 DEF PolicyHolds
  <2>4. e.kind \in {"component.install", "component.remove"} => e.details.aircraft \in DOMAIN logs
    BY <1>10 DEF SubjectsHold
  <2> QED BY <1>14, <2>1, <2>2, <2>3, <2>4 DEF Entered, AircraftKinds
<1> QED BY <1>13, <1>14

\* With it, the records folded from the entries are typed, and so are the logs.
TypedInv ==
    /\ RecordsInv
    /\ DOMAIN flights = Topics[topic].aircraft
    /\ \A key \in DOMAIN flights : Logged(flights[key])
    /\ Kept(entries, DOMAIN flights)

LEMMA TypedInit ==
    ASSUME Init
    PROVE  TypedInv
<1>1. RecordsInv
  <2>1. LedgerInv /\ entries = {}
    BY LedgerInit DEF Init
  <2>2. Live({}) = {}
    BY DEF Live
  <2> QED BY <2>1, <2>2 DEF RecordsInv, FitsAll
<1>2. entries = {} /\ flights = [key \in Topics[topic].aircraft |-> {}]
  BY DEF Init
<1>3. Logged({})
  BY FS_EmptySet DEF Logged
<1>4. Kept({}, DOMAIN flights)
  <2>1. Cardinality({}) = 0
    BY FS_EmptySet
  <2> QED BY <2>1 DEF Kept, Ids
<1>5. DOMAIN flights = Topics[topic].aircraft /\ \A key \in DOMAIN flights : flights[key] = {}
  BY <1>2
<1> QED BY <1>1, <1>2, <1>3, <1>4, <1>5 DEF TypedInv

\* The entry a step writes is one a draft gives.
LEMMA TypedWrite ==
    ASSUME TypedInv, NEW d \in Topics[topic].drafts, NEW s \in {0} \cup Ids(entries),
           Write([id |-> 0, supersedes |-> s, subject |-> d.subject, kind |-> d.kind,
                  at |-> d.at, details |-> d.details])
    PROVE  /\ flights' = flights /\ topic' = topic
           /\ Kept(entries', DOMAIN flights)
           /\ \E e : /\ Writes(entries, flights, entries', e)
                     /\ Entered(e, DOMAIN flights)
                     /\ e.kind \in AircraftKinds => e.subject \in DOMAIN flights
<1>1. PICK w : w = [id |-> 0, supersedes |-> s, subject |-> d.subject, kind |-> d.kind,
                    at |-> d.at, details |-> d.details]
  OBVIOUS
<1>2. w.kind = d.kind /\ w.at = d.at /\ w.details = d.details /\ w.subject = d.subject
  BY <1>1
<1>3. w = [id |-> 0, supersedes |-> s, subject |-> w.subject, kind |-> w.kind,
           at |-> w.at, details |-> w.details]
  BY <1>1
<1>4. PICK e : e = Candidate(entries, flights, w)
  OBVIOUS
<1>5. /\ flights' = flights /\ topic' = topic /\ entries' = entries \cup {e}
      /\ Acceptable(entries, flights, e)
  BY <1>1, <1>4 DEF Write
<1>6. /\ d.kind \in Kinds /\ d.subject # None /\ d.at \in Nat /\ d.details \in Form(d.kind)
      /\ d.kind = "component.register" => LifeEnds(d.details)
  BY TopicsAssumption DEF TypedInv, RecordsInv, LedgerInv
<1>7. /\ LedgerHolds(entries) /\ Kept(entries, DOMAIN flights)
      /\ \A key \in DOMAIN flights : Logged(flights[key])
  BY DEF TypedInv, RecordsInv, LedgerInv
<1>8. Entered(e, DOMAIN flights) /\ (e.kind \in AircraftKinds => e.subject \in DOMAIN flights)
  BY <1>2, <1>3, <1>4, <1>5, <1>6, <1>7, WrittenIs
<1>9. e.id = Cardinality(entries) + 1 /\ e.at = w.at
  BY <1>3, <1>4, CandidateIs DEF NextId
<1>10. Writes(entries, flights, entries', e)
  BY <1>2, <1>5, <1>6, <1>9 DEF Writes
<1>11. Kept(entries', DOMAIN flights)
  <2>1. PICK n : n = Cardinality(entries)
    OBVIOUS
  <2>2. IsFiniteSet(entries) /\ n \in Nat /\ Ids(entries) = 1..n
    BY <1>7, <2>1, FS_CardinalityType DEF LedgerHolds, Shaped, Kept
  <2>3. e \notin entries
    <3>1. e.id \notin Ids(entries)
      BY <1>9, <2>1, <2>2
    <3> QED BY <3>1 DEF Ids
  <2>4. Cardinality(entries') = n + 1
    BY <1>5, <2>1, <2>2, <2>3, FS_AddElement
  <2>5. Ids(entries') = Ids(entries) \cup {n + 1}
    BY <1>5, <1>9, <2>1 DEF Ids
  <2>6. Ids(entries') = 1..(n + 1)
    BY <2>2, <2>5
  <2> QED BY <1>5, <1>7, <1>8, <2>4, <2>6 DEF Kept
<1> QED BY <1>5, <1>8, <1>10, <1>11

LEMMA TypedUpload ==
    ASSUME TypedInv, NEW upload \in Topics[topic].logs, Upload(upload[1], upload[2])
    PROVE  /\ topic' = topic /\ entries' = entries /\ DOMAIN flights' = DOMAIN flights
           /\ \A key \in DOMAIN flights : Logged(flights'[key])
<1>1. PICK k, l : k = upload[1] /\ l = upload[2]
  OBVIOUS
<1>2. /\ topic' = topic /\ entries' = entries
      /\ l.ref \notin {r.ref : r \in flights[k]}
      /\ flights' = [flights EXCEPT ![k] = @ \cup {l}]
  BY <1>1 DEF Upload
<1>3. k \in DOMAIN flights /\ l \in FlightRecords(Nat, STRING, Nat)
  <2>1. Topics[topic].logs \subseteq Topics[topic].aircraft \X FlightRecords(Nat, STRING, Nat)
    BY TopicsAssumption DEF TypedInv, RecordsInv, LedgerInv
  <2> QED BY <1>1, <2>1 DEF TypedInv
<1>4. PICK g : g = flights[k] /\ Logged(g)
  BY <1>3 DEF TypedInv
<1>5. Logged(g \cup {l})
  <2>1. IsFiniteSet(g \cup {l})
    BY <1>4, FS_AddElement DEF Logged
  <2> QED BY <1>2, <1>3, <1>4, <2>1 DEF Logged
<1>6. DOMAIN flights' = DOMAIN flights
  BY <1>2
<1>7. ASSUME NEW key \in DOMAIN flights PROVE Logged(flights'[key])
  <2>1. CASE key = k
    BY <1>2, <1>3, <1>4, <1>5, <2>1
  <2>2. CASE key # k
    BY <1>2, <2>2 DEF TypedInv
  <2> QED BY <2>1, <2>2
<1> QED BY <1>2, <1>6, <1>7

LEMMA RecordsNext ==
    ASSUME RecordsInv, [Next]_vars
    PROVE  RecordsInv'
<1>1. LedgerInv /\ FitsAll(entries) /\ LedgerHolds(entries)
  BY DEF RecordsInv, LedgerInv
<1>2. LedgerInv'
  BY <1>1, LedgerNext
<1>3. entries' = entries \/ \E e : Writes(entries, flights, entries', e)
  BY <1>1, LedgerStep
<1>4. CASE entries' = entries
  BY <1>1, <1>2, <1>4 DEF RecordsInv
<1>5. CASE \E e : Writes(entries, flights, entries', e)
  <2>1. FitsAll(entries')
    BY <1>1, <1>5, KeepsFits
  <2> QED BY <1>2, <2>1 DEF RecordsInv
<1> QED BY <1>3, <1>4, <1>5

LEMMA TypedNext ==
    ASSUME TypedInv, [Next]_vars
    PROVE  TypedInv'
<1>1. RecordsInv'
  BY RecordsNext DEF TypedInv
<1>2. ASSUME NEW d \in Topics[topic].drafts, NEW s \in {0} \cup Ids(entries),
             Write([id |-> 0, supersedes |-> s, subject |-> d.subject, kind |-> d.kind,
                    at |-> d.at, details |-> d.details])
      PROVE  TypedInv'
  <2>1. flights' = flights /\ topic' = topic /\ Kept(entries', DOMAIN flights)
    BY <1>2, TypedWrite
  <2> QED BY <1>1, <2>1 DEF TypedInv
<1>3. ASSUME NEW upload \in Topics[topic].logs, Upload(upload[1], upload[2])
      PROVE  TypedInv'
  <2>1. /\ topic' = topic /\ entries' = entries /\ DOMAIN flights' = DOMAIN flights
        /\ \A key \in DOMAIN flights : Logged(flights'[key])
    BY <1>3, TypedUpload
  <2> QED BY <1>1, <2>1 DEF TypedInv
<1>4. CASE UNCHANGED vars
  BY <1>1, <1>4 DEF TypedInv, vars
<1> QED BY <1>2, <1>3, <1>4 DEF Next

\* The logs of an aircraft are finitely many records, each of a name of its own, and what is
\* stored of an entry is what its kind holds, of parts, inspections and aircraft there are
\* (validate.py validate; store.py add_flight): with the fit of the live entries, the
\* inductive invariant under the due list.
THEOREM LedgerTyped == Spec => []TypedInv
BY TypedInit, TypedNext, PTL DEF Spec

\* Ids run in the order of entry without a gap, an entry supersedes an earlier one or none and
\* has happened by today, and what a person left out is filled in before it is stored, the
\* hours of an inspection by what the logs of its aircraft add up to (validate.py validate,
\* store.py append).
THEOREM LedgerTypeOK == Spec => []TypeOK
<1>1. ASSUME TypedInv PROVE TypeOK
  <2>1. /\ Ids(entries) = 1..Cardinality(entries)
        /\ \A e \in entries : Entered(e, DOMAIN flights)
    BY <1>1 DEF TypedInv, Kept
  <2>2. Shaped(entries, Cardinality(entries))
    BY <1>1 DEF TypedInv, RecordsInv, LedgerInv, LedgerHolds
  <2>3. Today \in Nat
    BY TopicsAssumption
  <2>4. ASSUME NEW e \in entries
        PROVE  /\ e.kind \in Kinds /\ e.at \in 0..Today /\ e.supersedes \in 0..(e.id - 1)
               /\ e.details \in Details
    <3>1. Entered(e, DOMAIN flights)
      BY <2>1
    <3>2. e.kind \in Kinds /\ e.at \in 0..Today
      BY <2>3, <3>1 DEF Entered
    <3>3. e.supersedes \in Nat /\ e.supersedes < e.id /\ e.id \in Int
      BY <2>2 DEF Shaped
    <3>4. e.details \in Details
      <4>1. PICK d : d = e.details /\ d \in Form(e.kind)
        BY <3>1 DEF Entered
      <4>2. CASE e.kind = "work_order.open"
        <5>1. d \in [work : Nat \cup {None}, state : WorkStates] /\ d.work \in Nat
          BY <3>1, <4>1, <4>2 DEF Entered, Form
        <5>2. d \in [work : Nat, state : WorkStates]
          BY <5>1
        <5> QED BY <4>1, <5>2 DEF Details
      <4>3. CASE e.kind = "work_order.state"
        BY <4>1, <4>3 DEF Details, Form
      <4>4. CASE e.kind = "work_order.close"
        BY <4>1, <4>4 DEF Details, Form
      <4>5. CASE e.kind = "inspection.done"
        <5>1. /\ d \in [name : STRING, hours : Nat \cup {None}, carried : Nat, derived : BOOLEAN]
              /\ d.name \in DOMAIN InspectionRules /\ d.hours \in Nat
          BY <3>1, <4>1, <4>5 DEF Entered, Form
        <5>2. d \in [name : DOMAIN InspectionRules, hours : Nat, carried : Nat, derived : BOOLEAN]
          BY <5>1
        <5> QED BY <4>1, <5>2 DEF Details
      <4>6. CASE e.kind = "time_in_service.set"
        BY <4>1, <4>6 DEF Details, Form
      <4>7. CASE e.kind = "component.register"
        <5>1. /\ d \in [kind : STRING, since : Nat, hours : Nat, cycles : Nat]
              /\ d.kind \in DOMAIN PartRules
          BY <3>1, <4>1, <4>7 DEF Entered, Form
        <5>2. d \in [kind : DOMAIN PartRules, since : Nat, hours : Nat, cycles : Nat]
          BY <5>1
        <5> QED BY <4>1, <5>2 DEF Details
      <4>8. CASE e.kind \in {"component.install", "component.remove"}
        <5>1. d \in [aircraft : STRING] /\ d.aircraft \in DOMAIN flights
          BY <3>1, <4>1, <4>8 DEF Entered, Form
        <5>2. d \in [aircraft : DOMAIN flights]
          BY <5>1
        <5> QED BY <4>1, <5>2 DEF Details
      <4>9. CASE e.kind = "retraction"
        BY <4>1, <4>9 DEF Details, Form
      <4> QED BY <3>2, <4>2, <4>3, <4>4, <4>5, <4>6, <4>7, <4>8, <4>9
              DEF Kinds, AircraftKinds, ComponentKinds
    <3> QED BY <3>2, <3>3, <3>4
  <2> QED BY <2>1, <2>4 DEF TypeOK
<1> QED BY <1>1, LedgerTyped, PTL

-----------------------------------------------------------------------------
(* An inspection's interval and the flight since.                          *)

\* The completion an interval starts from is one the records hold.
LEMMA CompletionIs ==
    ASSUME NEW t \in Nat, NEW done \in Seq(Inspections(t)), NEW rule \in DOMAIN InspectionRules
    PROVE  Completion(done, rule) \in {None} \cup Inspections(t)
<1> DEFINE names == <<rule>> \o InspectionRules[rule].satisfiedBy
           found == {n \in DOMAIN names : LatestNamed(done, names[n]) # {}}
           latest(n) == done[CHOOSE i \in LatestNamed(done, names[n]) : TRUE]
           first == {n \in found : \A m \in found :
                        latest(m).done < latest(n).done
                        \/ (latest(m).done = latest(n).done /\ n <= m)}
<1>1. Completion(done, rule) = IF found = {} THEN None ELSE latest(CHOOSE n \in first : TRUE)
  BY DEF Completion
<1>2. found \subseteq Nat
  <2>1. InspectionRules[rule].satisfiedBy \in Seq(DOMAIN InspectionRules \ {rule})
    BY LifeAssumption DEF Policy
  <2>2. names \in Seq(DOMAIN InspectionRules)
    BY <2>1
  <2> QED BY <2>2
<1>3. \A n \in found : latest(n) \in Inspections(t) /\ latest(n).done \in 0..t
  <2> SUFFICES ASSUME NEW n \in found
               PROVE  latest(n) \in Inspections(t) /\ latest(n).done \in 0..t
    OBVIOUS
  <2>1. PICK S : S = LatestNamed(done, names[n]) /\ S # {}
    OBVIOUS
  <2>2. S \subseteq DOMAIN done
    BY <2>1 DEF LatestNamed
  <2>3. PICK i : i = CHOOSE j \in S : TRUE
    OBVIOUS
  <2>4. i \in DOMAIN done
    BY <2>1, <2>2, <2>3
  <2>5. latest(n) = done[i]
    BY <2>1, <2>3
  <2>6. done[i] \in Inspections(t)
    BY <2>4
  <2> QED BY <2>5, <2>6 DEF Inspections
<1> HIDE DEF names, found, latest
<1>4. ASSUME found # {} PROVE first # {}
  <2> DEFINE T == {latest(n).done : n \in found}
  <2>1. T \in SUBSET (0..t) /\ T # {}
    BY <1>3, <1>4
  <2>2. PICK d \in T : \A m \in T : d >= m
    <3> HIDE DEF T
    <3> QED BY <2>1, Greatest
  <2> DEFINE N == {n \in found : latest(n).done = d}
  <2>3. N \in SUBSET Nat /\ N # {}
    BY <1>2, <2>2
  <2>4. PICK n \in N : \A m \in N : n <= m
    <3> HIDE DEF N
    <3> QED BY <2>3, Least
  <2>5. n \in first
    <3> SUFFICES ASSUME NEW m \in found
                 PROVE  latest(m).done < latest(n).done
                        \/ (latest(m).done = latest(n).done /\ n <= m)
      BY <2>4
    <3>1. PICK x, y : x = latest(m).done /\ y = latest(n).done
      OBVIOUS
    <3>2. x \in 0..t /\ y = d /\ d \in 0..t /\ x <= d
      BY <1>3, <2>1, <2>2, <2>4, <3>1
    <3>3. CASE x = d
      BY <2>4, <3>1, <3>2, <3>3
    <3>4. CASE x # d
      BY <3>1, <3>2, <3>4
    <3> QED BY <3>3, <3>4
  <2> QED BY <2>5
<1>5. CASE found = {}
  BY <1>1, <1>5
<1>6. CASE found # {}
  <2>1. PICK n : n = CHOOSE m \in first : TRUE
    OBVIOUS
  <2>2. n \in first
    BY <1>4, <1>6, <2>1
  <2>3. Completion(done, rule) = latest(n)
    BY <1>1, <1>6, <2>1
  <2> QED BY <1>3, <2>2, <2>3
<1> QED BY <1>5, <1>6

\* Flight counted at a date is counted later too, and with the undated as well.
LEMMA CountedLater ==
    ASSUME NEW logs, Logged(logs), NEW r \in logs, NEW u \in Nat, NEW t \in Nat, u <= t
    PROVE  /\ Counted(r, u, TRUE) => Counted(r, t, TRUE)
           /\ Counted(r, u, FALSE) => Counted(r, u, TRUE)
           /\ Counted(r, t, FALSE) => /\ Counted(r, t, TRUE)
                                      /\ LogEnd(r) > u => ~Counted(r, u, TRUE)
<1>1. r.span \in Nat /\ r.start \in Nat \cup {Unknown}
  BY RecordIs
<1>2. PICK e : e = LogEnd(r)
  OBVIOUS
<1>3. e = Unknown \/ e \in Nat
  BY <1>1, <1>2 DEF LogEnd, Known
<1>4. Unknown \notin Int
  BY FlightLogsAssumption
<1>5. ASSUME NEW x \in Nat
      PROVE  /\ Counted(r, x, TRUE) <=> (e # Unknown => e <= x)
             /\ Counted(r, x, FALSE) <=> (e # Unknown /\ e <= x)
  <2>1. x # Unknown
    BY <1>4
  <2>2. CASE e = Unknown
    BY <1>2, <2>1, <2>2 DEF Counted, Known
  <2>3. CASE e # Unknown
    BY <1>2, <2>1, <2>3 DEF Counted, Known
  <2> QED BY <2>2, <2>3
<1>6. /\ Counted(r, u, TRUE) <=> (e # Unknown => e <= u)
      /\ Counted(r, u, FALSE) <=> (e # Unknown /\ e <= u)
      /\ Counted(r, t, TRUE) <=> (e # Unknown => e <= t)
      /\ Counted(r, t, FALSE) <=> (e # Unknown /\ e <= t)
  BY <1>5
<1>7. CASE e = Unknown
  BY <1>2, <1>6, <1>7
<1>8. CASE e \in Nat
  <2>1. e # Unknown
    BY <1>4, <1>8
  <2>2. /\ e <= u => e <= t
        /\ e > u => ~(e <= u)
    BY <1>8
  <2>3. LogEnd(r) > u <=> e > u
    BY <1>2
  <2> QED BY <1>6, <2>1, <2>2, <2>3
<1> QED BY <1>3, <1>7, <1>8

LEMMA FlightTimeGrows ==
    ASSUME NEW logs, Logged(logs), NEW u \in Nat, NEW t \in Nat, u <= t
    PROVE  /\ FlightTime(logs, u, FALSE) <= FlightTime(logs, u, TRUE)
           /\ MapThenSumSet(Seconds, Flown(logs, t, FALSE)) <= FlightTime(logs, t, TRUE)
           /\ MapThenSumSet(Seconds, {r \in Flown(logs, t, FALSE) : LogEnd(r) > u})
                 + FlightTime(logs, u, TRUE) <= FlightTime(logs, t, TRUE)
<1>1. PICK A, B, C, D : /\ A = Flown(logs, u, FALSE) /\ B = Flown(logs, u, TRUE)
                        /\ C = Flown(logs, t, TRUE) /\ D = Flown(logs, t, FALSE)
  OBVIOUS
<1>2. PICK a, b, c : /\ a = Unlogged(logs, u, FALSE) /\ b = Unlogged(logs, u, TRUE)
                     /\ c = Unlogged(logs, t, TRUE)
  OBVIOUS
<1>3. PICK N : N = {r \in D : LogEnd(r) > u}
  OBVIOUS
<1>4. /\ A \in SUBSET B /\ B \in SUBSET C /\ D \in SUBSET C /\ C \in SUBSET logs
      /\ N \in SUBSET D /\ B \cap N = {}
  BY <1>1, <1>3, CountedLater DEF Flown
<1>5. /\ a \in SUBSET b /\ b \in SUBSET c /\ c \in SUBSET UnloggedFlights(logs)
  <2>1. \A f \in UnloggedFlights(logs) : f.after \in logs
    BY UnloggedIs
  <2> QED BY <1>2, <2>1, CountedLater DEF Unlogged
<1>6. PICK sA, sB, sC, sD, sN :
         /\ sA = MapThenSumSet(Seconds, A) /\ sB = MapThenSumSet(Seconds, B)
         /\ sC = MapThenSumSet(Seconds, C) /\ sD = MapThenSumSet(Seconds, D)
         /\ sN = MapThenSumSet(Seconds, N)
  OBVIOUS
<1>7. PICK ta, tb, tc :
         /\ ta = MapThenSumSet(LAMBDA f : f.seconds, a)
         /\ tb = MapThenSumSet(LAMBDA f : f.seconds, b)
         /\ tc = MapThenSumSet(LAMBDA f : f.seconds, c)
  OBVIOUS
<1>8. /\ sA \in Nat /\ sB \in Nat /\ sC \in Nat /\ sD \in Nat /\ sN \in Nat
  BY <1>4, <1>6, FlownIs
<1>9. ta \in Nat /\ tb \in Nat /\ tc \in Nat
  BY <1>5, <1>7, UncoveredIs
<1>10. ta <= tb
  BY <1>5, <1>7, UncoveredWithin
<1>11. tb <= tc
  BY <1>5, <1>7, UncoveredWithin
<1>12. sA <= sB /\ sD <= sC
  BY <1>4, <1>6, SecondsWithin
<1>13. sB + sN <= sC
  <2>1. PICK U : U = B \cup N
    OBVIOUS
  <2>2. MapThenSumSet(Seconds, U) = sB + sN
    BY <1>4, <1>6, <2>1, SecondsApart
  <2>3. MapThenSumSet(Seconds, U) <= sC
    BY <1>4, <1>6, <2>1, SecondsWithin
  <2> QED BY <2>2, <2>3
<1>14. PICK fA, fB, fC : /\ fA = FlightTime(logs, u, FALSE) /\ fB = FlightTime(logs, u, TRUE)
                         /\ fC = FlightTime(logs, t, TRUE)
  OBVIOUS
<1>15. fA = sA + ta /\ fB = sB + tb /\ fC = sC + tc
  BY <1>1, <1>2, <1>6, <1>7, <1>14 DEF FlightTime
<1>16. fA <= fB /\ sD <= fC /\ sN + fB <= fC
  BY <1>8, <1>9, <1>10, <1>11, <1>12, <1>13, <1>15
<1> QED BY <1>1, <1>3, <1>6, <1>14, <1>16

\* The hours limit of an inspection.
LimitOf(rule) == InspectionRules[rule].limits["hours"]

LEMMA LimitIs ==
    ASSUME NEW rule \in DOMAIN InspectionRules, "hours" \in DOMAIN InspectionRules[rule].limits
    PROVE  LimitOf(rule) \in Int
BY LifeAssumption DEF Policy, Rule, Limited, LimitOf

LEMMA HoursItemIs ==
    ASSUME NEW rule, LimitOf(rule) \in Int, NEW done, NEW service \in Int, NEW since \in Int,
           IF done = None THEN since = 0 ELSE since = done.hours - done.carried
    PROVE  LET i == HoursItem(rule, done, service)
           IN  /\ i.part = None /\ i.rule = rule /\ i.basis = "hours" /\ i.remaining \in Int
               /\ LimitOf(rule) - i.remaining = service - since
<1>1. PICK limit \in Int : limit = LimitOf(rule)
  OBVIOUS
<1>2. PICK x \in Int : x = limit - (service - since)
  OBVIOUS
<1>3. PICK i : i = HoursItem(rule, done, service)
  OBVIOUS
<1>4. \E st : i = [part |-> None, rule |-> rule, basis |-> "hours", remaining |-> x, state |-> st]
  <2>1. since = IF done = None THEN 0 ELSE done.hours - done.carried
    OBVIOUS
  <2> QED BY <1>1, <1>2, <1>3, <2>1 DEF HoursItem, Item, LimitOf
<1>5. i.part = None /\ i.rule = rule /\ i.basis = "hours" /\ i.remaining = x
  BY <1>4
<1>6. limit - x = service - since
  BY <1>2
<1> QED BY <1>1, <1>3, <1>5, <1>6

\* What is left of an interval leaves out no flight since the inspection it starts from.
LEMMA IntervalHolds ==
    ASSUME NEW logs, Logged(logs), NEW t \in Nat, NEW before \in Nat,
           NEW rule \in DOMAIN InspectionRules, NEW done \in {None} \cup Inspections(t),
           NEW i \in InspectionItems(rule, done, logs, before,
                                    TimeInService(before, logs, t, TRUE), t),
           i.basis = "hours", i.state # "unknown"
    PROVE  i.rule = rule /\ LimitOf(rule) - i.remaining >= Since(logs, done, t) - HoursSlack
<1>1. PICK A : A = FlightTime(logs, t, TRUE)
  OBVIOUS
<1>0. A \in Nat
  BY <1>1, FlightTimeIs
<1>2. HoursSlack \in Nat /\ Unknown \notin Int /\ None \notin Int
  BY LifeAssumption, FlightLogsAssumption, LedgerAssumption
<1>20. PICK service : service = TimeInService(before, logs, t, TRUE)
  OBVIOUS
<1>3. /\ "hours" \in DOMAIN InspectionRules[rule].limits
      /\ i = CASE ~Known(service) -> NotKnownItem(rule, "hours")
               [] Known(service) /\ done # None /\ Disagree(logs, before, done) ->
                      DisagreeingItem(rule, done, logs, before, service)
               [] OTHER -> HoursItem(rule, done, service)
  <2>1. CalendarItem(rule, done, t).basis = "calendar"
    BY DEF CalendarItem, NotKnownItem, Item
  <2> QED BY <1>20, <2>1 DEF InspectionItems
<1>4. NotKnownItem(rule, "hours").state = "unknown"
  BY DEF NotKnownItem, Item
<1>5. Known(service) /\ service \in Int /\ service = before + A
  <2>1. Known(service)
    BY <1>3, <1>4
  <2>2. service = before + A
    BY <1>1, <1>20, <2>1 DEF TimeInService, Known
  <2>3. service \in Int
    BY <1>0, <2>2
  <2> QED BY <2>1, <2>2, <2>3
<1>6. PICK limit \in Int : limit = LimitOf(rule)
  BY <1>3, LimitIs
<1>7. PICK s : s = Since(logs, done, t)
  OBVIOUS
<1>8. CASE done = None
  <2>1. i = HoursItem(rule, done, service)
    BY <1>3, <1>5, <1>8
  <2>2. i.remaining \in Int /\ limit - i.remaining = service - 0 /\ i.rule = rule
    BY <1>5, <1>6, <1>8, <2>1, HoursItemIs
  <2>3. s = MapThenSumSet(Seconds, Flown(logs, t, FALSE))
    <3>1. {r \in Flown(logs, t, FALSE) : done = None \/ LogEnd(r) > done.done}
             = Flown(logs, t, FALSE)
      BY <1>8
    <3> QED BY <1>7, <3>1 DEF Since
  <2>4. s <= A /\ s \in Nat
    <3>1. Flown(logs, t, FALSE) \in SUBSET logs
      BY DEF Flown
    <3>2. s \in Nat
      BY <2>3, <3>1, FlownIs
    <3>3. t <= t
      OBVIOUS
    <3>4. s <= A
      BY <1>1, <2>3, <3>3, FlightTimeGrows
    <3> QED BY <3>2, <3>4
  <2>5. limit - i.remaining >= s - HoursSlack
    <3>1. service >= s /\ HoursSlack >= 0
      BY <1>0, <1>2, <1>5, <2>4
    <3> QED BY <1>0, <1>2, <1>5, <2>2, <2>4, <3>1
  <2> QED BY <1>6, <1>7, <2>2, <2>5
<1>9. CASE done # None
  <2>1. done \in Inspections(t)
    BY <1>9
  <2>2. PICK u, h, c : u = done.done /\ h = done.hours /\ c = done.carried
    OBVIOUS
  <2>3. u \in Nat /\ u <= t /\ h \in Nat /\ c \in Nat
    BY <2>1, <2>2 DEF Inspections
  <2>4. PICK B : B = FlightTime(logs, u, TRUE)
    OBVIOUS
  <2>0. B \in Nat
    BY <2>4, FlightTimeIs
  <2>5. s = MapThenSumSet(Seconds, {r \in Flown(logs, t, FALSE) : LogEnd(r) > u})
    <3>1. {r \in Flown(logs, t, FALSE) : done = None \/ LogEnd(r) > done.done}
             = {r \in Flown(logs, t, FALSE) : LogEnd(r) > u}
      BY <1>9, <2>2
    <3> QED BY <1>7, <3>1 DEF Since
  <2>6. s \in Nat /\ s + B <= A
    <3>1. {r \in Flown(logs, t, FALSE) : LogEnd(r) > u} \in SUBSET logs
      BY DEF Flown
    <3>2. s \in Nat
      BY <2>5, <3>1, FlownIs
    <3> QED BY <1>1, <2>3, <2>4, <2>5, <3>2, FlightTimeGrows
  <2>7. MostTimeInService(before, logs, u) = before + B
    BY <2>4 DEF MostTimeInService
  <2>8. ASSUME NEW x \in Int, x <= before + B + HoursSlack, i.rule = rule,
               i.remaining \in Int, limit - i.remaining = service - (x - c)
        PROVE  i.rule = rule /\ limit - i.remaining >= s - HoursSlack
    <3>1. PICK y \in Int : y = limit - i.remaining
      BY <2>8
    <3>2. y = before + A - x + c /\ HoursSlack \in Int /\ s \in Int
      BY <1>0, <1>2, <1>5, <2>3, <2>6, <2>8, <3>1
    <3>3. y >= A - B - HoursSlack + c
      BY <1>0, <1>2, <2>0, <2>3, <2>8, <3>2
    <3>4. y >= s - HoursSlack
      BY <1>0, <1>2, <2>0, <2>3, <2>6, <3>1, <3>3
    <3> QED BY <2>8, <3>1, <3>4
  <2>9. CASE ~Disagree(logs, before, done)
    <3>1. i = HoursItem(rule, done, service)
      BY <1>3, <1>5, <2>9
    <3>2. i.remaining \in Int /\ limit - i.remaining = service - (h - c) /\ i.rule = rule
      <4>1. PICK x \in Int : x = h - c
        BY <2>3
      <4>2. IF done = None THEN x = 0 ELSE x = done.hours - done.carried
        BY <1>9, <2>2, <4>1
      <4> QED BY <1>5, <1>6, <3>1, <4>1, <4>2, HoursItemIs
    <3>3. h <= before + B + HoursSlack
      <4>1. ~(h > before + B + HoursSlack)
        BY <2>2, <2>7, <2>9 DEF Disagree
      <4>2. before + B + HoursSlack \in Int /\ h \in Int
        BY <1>2, <2>0, <2>3
      <4> QED BY <4>1, <4>2
    <3> QED BY <1>6, <1>7, <2>3, <2>8, <3>2, <3>3
  <2>10. CASE Disagree(logs, before, done)
    <3>1. PICK least : least = TimeInService(before, logs, u, FALSE)
      OBVIOUS
    <3>2. PICK most : most = before + B
      OBVIOUS
    <3>3. i = DisagreeingItem(rule, done, logs, before, service)
      BY <1>3, <1>5, <1>9, <2>10
    <3> DEFINE read(x) == HoursItem(rule, [done EXCEPT !.hours = x], service)
    <3>4. i = IF Known(least) THEN read(least)
              ELSE IF read(most).state = "overdue" THEN read(most)
              ELSE NotKnownItem(rule, "hours")
      BY <2>2, <2>7, <3>1, <3>2, <3>3 DEF DisagreeingItem
    <3>5. \A x \in Int : /\ read(x).remaining \in Int /\ read(x).rule = rule
                         /\ limit - read(x).remaining = service - (x - c)
      <4> SUFFICES ASSUME NEW x \in Int
                   PROVE  /\ read(x).remaining \in Int /\ read(x).rule = rule
                          /\ limit - read(x).remaining = service - (x - c)
        OBVIOUS
      <4>1. PICK d : d = [done EXCEPT !.hours = x]
        OBVIOUS
      <4>2. d = [name |-> done.name, done |-> done.done, hours |-> x,
                 carried |-> done.carried, derived |-> done.derived]
        BY <2>1, <4>1 DEF Inspections
      <4>3. d.hours = x /\ d.carried = c
        BY <2>2, <4>2
      <4>4. d # None
        <5>1. d \in [name : DOMAIN InspectionRules, done : Int, hours : Int,
                    carried : Int, derived : BOOLEAN]
          BY <2>1, <4>2 DEF Inspections
        <5> QED BY <5>1, LifeAssumption
      <4>5. read(x) = HoursItem(rule, d, service)
        BY <4>1
      <4>6. PICK y \in Int : y = x - c
        BY <2>3
      <4>7. IF d = None THEN y = 0 ELSE y = d.hours - d.carried
        BY <4>3, <4>4, <4>6
      <4>8. PICK z : z = read(x)
        OBVIOUS
      <4>9. /\ z.remaining \in Int /\ z.rule = rule
            /\ limit - z.remaining = service - y
        BY <1>5, <1>6, <4>5, <4>7, <4>8, HoursItemIs
      <4> QED BY <4>6, <4>8, <4>9
    <3> HIDE DEF read
    <3>6. CASE Known(least)
      <4>1. PICK F : F = FlightTime(logs, u, FALSE)
        OBVIOUS
      <4>0. F \in Nat
        BY <4>1, FlightTimeIs
      <4>2. least = before + F
        BY <3>1, <3>6, <4>1 DEF TimeInService, Known
      <4>3. F <= B
        BY <2>3, <2>4, <4>1, FlightTimeGrows
      <4>4. least \in Int /\ least <= before + B + HoursSlack
        <5>1. HoursSlack \in Int /\ HoursSlack >= 0
          BY <1>2
        <5> QED BY <2>0, <4>0, <4>2, <4>3, <5>1
      <4>5. /\ i.remaining \in Int /\ limit - i.remaining = service - (least - c)
            /\ i.rule = rule
        BY <3>4, <3>5, <3>6, <4>4
      <4> QED BY <1>6, <1>7, <2>8, <4>4, <4>5
    <3>7. CASE ~Known(least)
      <4>1. i = read(most)
        BY <1>4, <3>4, <3>7
      <4>2. most \in Int /\ most <= before + B + HoursSlack
        BY <1>2, <2>0, <3>2
      <4>3. /\ i.remaining \in Int /\ limit - i.remaining = service - (most - c)
            /\ i.rule = rule
        BY <3>5, <4>1, <4>2
      <4> QED BY <1>6, <1>7, <2>8, <4>2, <4>3
    <3> QED BY <3>6, <3>7
  <2> QED BY <2>9, <2>10
<1> QED BY <1>8, <1>9

\* The records at a date.
LEMMA RecordsAt ==
    ASSUME TypedInv, NEW t \in Nat
    PROVE  RecordsKept(ProjectAsOf(entries, t), DOMAIN flights, t)
<1>1. PICK n : n = Cardinality(entries)
  OBVIOUS
<1>2. n \in Nat /\ Shaped(entries, n)
  BY <1>1, FS_CardinalityType DEF TypedInv, RecordsInv, LedgerInv, LedgerHolds, Shaped
<1>3. PICK S : S = {e \in Live(entries) : e.at <= t}
  OBVIOUS
<1>4. S \in SUBSET entries
  <2>1. Live(entries) \subseteq entries
    BY <1>2, LiveIs
  <2> QED BY <1>3, <2>1
<1>5. \A e \in S : Entered(e, DOMAIN flights) /\ e.at <= t
  BY <1>3, <1>4 DEF TypedInv, Kept
<1>6. RecordsKept(Fold(entries, S), DOMAIN flights, t)
  BY <1>2, <1>4, <1>5, FoldKept
<1> QED BY <1>3, <1>6 DEF ProjectAsOf

\* An item of the due list is one of a part or of an inspection.
LEMMA DueItems ==
    ASSUME NEW logs, NEW r, NEW key \in DOMAIN r.aircraft, NEW t,
           NEW i \in DueList(logs, r, key, t).items
    PROVE  LET a == r.aircraft[key]
               service == TimeInService(a.before, logs[key], t, TRUE)
           IN  \/ \E c \in DOMAIN r.parts : i \in PartItems(logs, c, r.parts[c], t)
               \/ \E rule \in DOMAIN InspectionRules :
                     i \in InspectionItems(rule, Completion(a.inspections, rule), logs[key],
                                           a.before, service, t)
<1>1. PICK a, service : /\ a = r.aircraft[key]
                        /\ service = TimeInService(a.before, logs[key], t, TRUE)
  OBVIOUS
<1>2. DueList(logs, r, key, t) = DueOf(PartsDue(logs, r, key, t), a, logs[key], t)
  BY <1>1 DEF DueList
<1>3. i \in PartsDue(logs, r, key, t) \cup InspectionsDue(a, logs[key], service, t)
  <2>1. PICK P, l : P = PartsDue(logs, r, key, t) /\ l = logs[key]
    OBVIOUS
  <2>2. PICK D : D = DueList(logs, r, key, t)
    OBVIOUS
  <2>3. D = [hasRecord |-> TRUE, service |-> service, orders |-> OrdersOf(a),
             items |-> P \cup InspectionsDue(a, l, service, t)]
    BY <1>1, <1>2, <2>1, <2>2, Zenon DEF DueOf
  <2>4. D.items = P \cup InspectionsDue(a, l, service, t)
    BY <2>3
  <2> QED BY <2>1, <2>2, <2>4
<1>4. CASE i \in PartsDue(logs, r, key, t)
  BY <1>4 DEF PartsDue, InstalledParts
<1>5. CASE i \in InspectionsDue(a, logs[key], service, t)
  BY <1>1, <1>5 DEF InspectionsDue
<1> QED BY <1>3, <1>4, <1>5

\* Whatever hours were stated for an inspection, changed or derived, whatever inspections,
\* corrections and retractions the ledger holds and whatever was uploaded before or after
\* them, what is left of an inspection's interval at a date has lost at least all the dated
\* flight since the inspection that starts it, but for the slack (life/engine.py due_list,
\* time_in_service, most_time_in_service; validate.py _inspection_hours).
THEOREM IntervalHoldsFlight == Spec => []IntervalHoldsFlightSince
<1>1. ASSUME TypedInv PROVE IntervalHoldsFlightSince
  <2>1. SUFFICES ASSUME NEW key \in DOMAIN flights, NEW t \in Dates,
                        key \in DOMAIN ProjectAsOf(entries, t).aircraft,
                        NEW i \in DueList(flights, ProjectAsOf(entries, t), key, t).items,
                        i.part = None, i.basis = "hours", i.state # "unknown"
                 PROVE  InspectionRules[i.rule].limits["hours"] - i.remaining
                           >= Since(flights[key],
                                    Completion(ProjectAsOf(entries, t).aircraft[key].inspections,
                                               i.rule), t) - HoursSlack
    BY DEF IntervalHoldsFlightSince
  <2>2. t \in Nat
    BY TopicsAssumption DEF Dates
  <2>3. PICK r : r = ProjectAsOf(entries, t)
    OBVIOUS
  <2>4. RecordsKept(r, DOMAIN flights, t)
    BY <1>1, <2>2, <2>3, RecordsAt
  <2>5. PICK a : a = r.aircraft[key]
    OBVIOUS
  <2>6. a.before \in Nat /\ a.inspections \in Seq(Inspections(t))
    <3>1. AircraftOn(r, key) = a
      BY <2>1, <2>3, <2>5 DEF AircraftOn
    <3> QED BY <2>4, <3>1 DEF RecordsKept, AircraftKept
  <2>7. PICK logs : logs = flights[key]
    OBVIOUS
  <2>8. Logged(logs)
    BY <1>1, <2>7 DEF TypedInv
  <2>9. \/ \E c \in DOMAIN r.parts : i \in PartItems(flights, c, r.parts[c], t)
        \/ \E rule \in DOMAIN InspectionRules :
              i \in InspectionItems(rule, Completion(a.inspections, rule), logs, a.before,
                                    TimeInService(a.before, logs, t, TRUE), t)
    <3>1. key \in DOMAIN r.aircraft /\ i \in DueList(flights, r, key, t).items
      BY <2>1, <2>3
    <3> QED BY <2>5, <2>7, <3>1, DueItems
  <2>10. ASSUME NEW c \in DOMAIN r.parts, i \in PartItems(flights, c, r.parts[c], t)
         PROVE  FALSE
    <3>1. \E rule, basis, x, y : i = Item(c, rule, basis, x, y)
      BY <2>10 DEF PartItems, PartItem
    <3>2. i.part = c
      BY <3>1 DEF Item
    <3>3. c # None
      BY <2>4 DEF RecordsKept
    <3> QED BY <2>1, <3>2, <3>3
  <2>11. PICK rule \in DOMAIN InspectionRules :
            i \in InspectionItems(rule, Completion(a.inspections, rule), logs, a.before,
                                  TimeInService(a.before, logs, t, TRUE), t)
    BY <2>9, <2>10
  <2>12. PICK done : done = Completion(a.inspections, rule)
    OBVIOUS
  <2>13. done \in {None} \cup Inspections(t)
    BY <2>2, <2>6, <2>12, CompletionIs
  <2>14. PICK before \in Nat : before = a.before
    BY <2>6
  <2>15. i \in InspectionItems(rule, done, logs, before,
                              TimeInService(before, logs, t, TRUE), t)
    BY <2>11, <2>12, <2>14
  <2>16. i.basis = "hours" /\ i.state # "unknown"
    BY <2>1
  <2>17. i.rule = rule /\ LimitOf(rule) - i.remaining >= Since(logs, done, t) - HoursSlack
    BY <2>2, <2>8, <2>13, <2>15, <2>16, IntervalHolds
  <2> QED BY <2>3, <2>5, <2>7, <2>12, <2>17 DEF LimitOf
<1> QED BY <1>1, LedgerTyped, PTL

-----------------------------------------------------------------------------
(* A part's usage, and the limits that a fitting is judged by.             *)

LEMMA SumIs ==
    ASSUME NEW v, NEW S, S = DOMAIN v, Summable(v, S)
    PROVE  SumFunction(v) = Total(v, S)
<1> DEFINE Is(f) == f = [s \in SUBSET S |-> IF s = {} THEN 0
                                            ELSE v[Some(s)] + f[s \ {Some(s)}]]
<1>1. SumFunction(v) = (CHOOSE f : Is(f))[S]
  BY DEF SumFunction, SumFunctionOnSet, FoldFunctionOnSet, MapThenFoldSet, Some
<1>2. \A f : Is(f) <=> Taking(S, v, f)
  BY DEF Taking
<1>3. Is(CHOOSE f : Is(f))
  <2>1. \E f : Is(f)
    BY <1>2, TakingIs
  <2> HIDE DEF Is
  <2> QED BY <2>1, Zenon
<1> HIDE DEF Is
<1> QED BY <1>1, <1>2, <1>3, TakingIs

LEMMA WindowIs ==
    ASSUME NEW logs, NEW w, Logged(logs[w.aircraft]), NEW t
    PROVE  WindowHours(logs, w, t) \in Nat /\ WindowCycles(logs, w, t) \in Nat
<1>1. PICK l : l = logs[w.aircraft] /\ Logged(l)
  OBVIOUS
<1>2. PICK S : S = {r \in Flown(l, t, TRUE) : InWindow(r.start, w)}
  OBVIOUS
<1>3. PICK U : U = {f \in Unlogged(l, t, TRUE) : InWindow(f.after.start, w)}
  OBVIOUS
<1>4. S \in SUBSET l
  BY <1>2 DEF Flown
<1>5. U \in SUBSET UnloggedFlights(l)
  BY <1>3 DEF Unlogged
<1>6. MapThenSumSet(Seconds, S) \in Nat /\ MapThenSumSet(Cycle, S) \in Nat
  BY <1>1, <1>4, FlownIs
<1>7. MapThenSumSet(LAMBDA f : f.seconds, U) \in Nat
  BY <1>1, <1>5, UncoveredIs
<1>8. PICK a, b : a = MapThenSumSet(Seconds, S) /\ b = MapThenSumSet(LAMBDA f : f.seconds, U)
  OBVIOUS
<1>9. WindowHours(logs, w, t) = a + b
  BY <1>1, <1>2, <1>3, <1>8 DEF WindowHours
<1>10. WindowCycles(logs, w, t) = MapThenSumSet(Cycle, S)
  BY <1>1, <1>2 DEF WindowCycles
<1>11. a + b \in Nat
  BY <1>6, <1>7, <1>8
<1> QED BY <1>6, <1>9, <1>10, <1>11

LEMMA PartUsageIs ==
    ASSUME NEW logs, \A key \in DOMAIN logs : Logged(logs[key]),
           NEW c, PartKept(c, DOMAIN logs), NEW t
    PROVE  PartHours(logs, c, t) \in Nat /\ PartCycles(logs, c, t) \in Nat
<1>1. PICK w \in Seq(Windows(DOMAIN logs)) : w = c.windows
  BY DEF PartKept
<1>2. IsFiniteSet(DOMAIN w) /\ \A i \in DOMAIN w : w[i].aircraft \in DOMAIN logs
  <2>1. DOMAIN w = 1..Len(w) /\ Len(w) \in Nat
    OBVIOUS
  <2>2. \A i \in DOMAIN w : w[i] \in Windows(DOMAIN logs)
    OBVIOUS
  <2> QED BY <2>1, <2>2, FS_Interval DEF Windows
<1>3. PICK h : h = [i \in DOMAIN w |-> WindowHours(logs, w[i], t)]
  OBVIOUS
<1>4. PICK k : k = [i \in DOMAIN w |-> WindowCycles(logs, w[i], t)]
  OBVIOUS
<1>5. \A i \in DOMAIN w : h[i] \in Nat /\ k[i] \in Nat
  BY <1>2, <1>3, <1>4, WindowIs
<1>6. PICK H, K : H = SumFunction(h) /\ K = SumFunction(k)
  OBVIOUS
<1>7. H \in Nat
  <2>1. DOMAIN h = DOMAIN w
    BY <1>3
  <2>2. Summable(h, DOMAIN w)
    BY <1>2, <1>5 DEF Summable
  <2>3. Total(h, DOMAIN w) \in Nat
    BY <1>2, <1>5, TotalNat
  <2> QED BY <1>6, <2>1, <2>2, <2>3, SumIs
<1>8. K \in Nat
  <2>1. DOMAIN k = DOMAIN w
    BY <1>4
  <2>2. Summable(k, DOMAIN w)
    BY <1>2, <1>5 DEF Summable
  <2>3. Total(k, DOMAIN w) \in Nat
    BY <1>2, <1>5, TotalNat
  <2> QED BY <1>6, <2>1, <2>2, <2>3, SumIs
<1>9. PICK a, b : a = c.hours /\ b = c.cycles
  OBVIOUS
<1>10. a \in Nat /\ b \in Nat
  BY <1>9 DEF PartKept
<1>11. PartHours(logs, c, t) = a + H /\ PartCycles(logs, c, t) = b + K
  BY <1>1, <1>3, <1>4, <1>6, <1>9 DEF PartHours, PartCycles
<1> QED BY <1>7, <1>8, <1>10, <1>11

\* The last day of a calendar life, where the calendar reaches to it.
LEMMA EndOfMonthIs ==
    ASSUME NEW day, NEW months, DueDays(day, months) # {}
    PROVE  EndOfMonthAfter(day, months) \in Nat
<1>1. PICK S : S = DueDays(day, months)
  OBVIOUS
<1>2. PICK C \in Nat : C = Cardinality(DOMAIN MonthOf)
  BY LifeAssumption, FS_CardinalityType
<1>8. PICK n \in Int : n = C - 1
  OBVIOUS
<1>3. DOMAIN MonthOf = 0..n
  BY <1>2, <1>8, LifeAssumption
<1>4. S \subseteq 0..n /\ S # {}
  BY <1>1, <1>3 DEF DueDays
<1>5. n \in Nat
  <2>1. PICK y : y \in S
    BY <1>4
  <2>2. y \in Int /\ 0 <= y /\ y <= n
    BY <1>4, <2>1
  <2> QED BY <2>2
<1>6. \E x \in S : \A y \in S : x >= y
  BY <1>4, <1>5, Greatest
<1>7. Max(S) \in S
  BY <1>6 DEF Max
<1> QED BY <1>1, <1>4, <1>5, <1>7 DEF EndOfMonthAfter

LEMMA NotOverdue ==
    ASSUME NEW remaining \in Int, remaining >= 0, NEW scale
    PROVE  State(remaining, scale, 0) # "overdue"
<1>1. ~(remaining < 0)
  OBVIOUS
<1> QED BY <1>1 DEF State

\* A part that has reached no limit shows no limit overdue.
LEMMA NotReached ==
    ASSUME NEW logs, \A key \in DOMAIN logs : Logged(logs[key]),
           NEW c, PartKept(c, DOMAIN logs), NEW at \in Nat, ~LimitReached(logs, c, at),
           NEW id, NEW i \in PartItems(logs, id, c, at)
    PROVE  i.state # "overdue"
<1>1. c.kind \in DOMAIN PartRules
  BY DEF PartKept
<1>2. PICK limits : limits = PartRules[c.kind].limits
  OBVIOUS
<1>3. /\ DOMAIN limits \subseteq {"hours", "cycles", "calendar"}
      /\ \A b \in DOMAIN limits : limits[b] \in Int
  BY <1>1, <1>2, LifeAssumption DEF Policy, Limited
<1>4. PICK b \in DOMAIN limits : i = PartItem(logs, id, c, b, limits[b], at)
  BY <1>1, <1>2 DEF PartItems
<1>5. PICK limit \in Int : limit = limits[b]
  BY <1>3
<1>6. ~ CASE b = "hours" -> PartHours(logs, c, at) >= limit
          [] b = "cycles" -> PartCycles(logs, c, at) >= limit
          [] b = "calendar" -> DayOf(at) > EndOfMonthAfter(c.since, limit)
  BY <1>1, <1>2, <1>5 DEF LimitReached
<1>7. CASE b = "hours"
  <2>1. PICK h \in Nat : h = PartHours(logs, c, at)
    BY PartUsageIs
  <2>2. PICK x \in Int : x = limit - h
    OBVIOUS
  <2>3. ~(h >= limit)
    BY <1>6, <1>7, <2>1
  <2>4. x > 0 /\ x >= 0
    BY <2>2, <2>3
  <2>5. i = Item(id, c.kind, "hours", x, State(x, limit, 0))
    <3>1. i = PartItem(logs, id, c, "hours", limit, at)
      BY <1>4, <1>5, <1>7
    <3>2. x # 0 /\ ~(x <= 0)
      BY <2>4
    <3> QED BY <2>1, <2>2, <3>1, <3>2 DEF PartItem
  <2>6. i.state = State(x, limit, 0)
    BY <2>5 DEF Item
  <2> QED BY <2>4, <2>6, NotOverdue
<1>8. CASE b = "cycles"
  <2>1. PICK h \in Nat : h = PartCycles(logs, c, at)
    BY PartUsageIs
  <2>2. PICK x \in Int : x = limit - h
    OBVIOUS
  <2>3. ~(h >= limit)
    BY <1>6, <1>8, <2>1
  <2>4. x > 0 /\ x >= 0
    BY <2>2, <2>3
  <2>5. i = Item(id, c.kind, "cycles", x, State(x, limit, 0))
    <3>1. i = PartItem(logs, id, c, "cycles", limit, at)
      BY <1>4, <1>5, <1>8
    <3>2. x # 0 /\ ~(x <= 0)
      BY <2>4
    <3> QED BY <2>1, <2>2, <3>1, <3>2 DEF PartItem
  <2>6. i.state = State(x, limit, 0)
    BY <2>5 DEF Item
  <2> QED BY <2>4, <2>6, NotOverdue
<1>9. CASE b = "calendar"
  <2>1. PICK due : due = EndOfMonthAfter(c.since, limit)
    OBVIOUS
  <2>2. due \in Nat
    <3>1. DueDays(c.since, limits["calendar"]) # {}
      BY <1>1, <1>2, <1>9 DEF PartKept, LifeEnds
    <3> QED BY <1>5, <1>9, <2>1, <3>1, EndOfMonthIs
  <2>3. PICK day \in Int : day = DayOf(at)
    <3>1. DayLength \in Nat \ {0}
      BY LifeAssumption
    <3>2. at \div DayLength \in Int
      BY <3>1
    <3> QED BY <3>2 DEF DayOf
  <2>4. PICK x \in Int : x = due - day
    BY <2>2
  <2>5. ~(day > due)
    BY <1>6, <1>9, <2>1, <2>3
  <2>6. x >= 0
    BY <2>2, <2>4, <2>5
  <2>7. i = Item(id, c.kind, "calendar", x, State(x, due - c.since, 0))
    <3>1. i = PartItem(logs, id, c, "calendar", limit, at)
      BY <1>4, <1>5, <1>9
    <3> QED BY <2>1, <2>3, <2>4, <3>1 DEF PartItem
  <2>8. i.state = State(x, due - c.since, 0)
    BY <2>7 DEF Item
  <2> QED BY <2>6, <2>8, NotOverdue
<1> QED BY <1>3, <1>7, <1>8, <1>9

\* A fitting the checks pass, or one as the records had it, shows no limit reached anew.
LEMMA NotFittedOverdue ==
    ASSUME TypedInv, NEW T, NEW e, Writes(entries, flights, T, e), Entered(e, DOMAIN flights),
           NEW x \in FittedOverdue(T, flights)
    PROVE  x \in FittedOverdue(entries, flights)
<1>1. PICK n : n = Cardinality(entries)
  OBVIOUS
<1>2. LedgerHolds(entries) /\ FitsAll(entries)
  BY DEF TypedInv, RecordsInv, LedgerInv
<1>3. n \in Nat /\ Grows(entries, n, T, e)
  BY <1>1, <1>2, Taken DEF Takes
<1>4. PICK m \in Nat : m = n + 1
  BY <1>3
<1>5. /\ Shaped(entries, n) /\ Shaped(T, m) /\ T = entries \cup {e} /\ e \notin entries
  <2>1. Shaped(entries, n) /\ T = entries \cup {e}
    BY <1>3 DEF Grows
  <2>2. Shaped(T, n + 1) /\ e \notin entries
    BY <1>3, Grown
  <2> QED BY <1>4, <2>1, <2>2
<1>6. Live(T) \subseteq T /\ Live(entries) \subseteq entries
  BY <1>3, <1>4, <1>5, LiveIs
<1>7. PICK r, q : r = ProjectBefore(T, x) /\ q = ProjectBefore(entries, x)
  OBVIOUS
<1>8. PICK k, c : k = x.subject /\ c = r.parts[k]
  OBVIOUS
<1>9. /\ x \in Live(T) /\ x.kind = "component.install"
      /\ \E i \in PartItems(flights, k, c, x.at) : i.state = "overdue"
  BY <1>7, <1>8 DEF FittedOverdue
<1>10. ~TransitionHolds(flights, r, x)
  <2> SUFFICES ASSUME TransitionHolds(flights, r, x) PROVE FALSE
    OBVIOUS
  <2>1. k \in DOMAIN r.parts /\ ~LimitReached(flights, c, x.at)
    BY <1>8, <1>9 DEF TransitionHolds
  <2>2. Prior(T, x) \in SUBSET T
    BY <1>6 DEF Prior
  <2>3. \A y \in Prior(T, x) : Entered(y, DOMAIN flights) /\ y.at <= Today
    BY <1>5, <2>2 DEF TypedInv, Kept, Entered
  <2>4. Today \in Int
    BY TopicsAssumption
  <2>5. r = Fold(T, Prior(T, x))
    BY <1>7, BeforeIs
  <2>6. RecordsKept(r, DOMAIN flights, Today)
    BY <1>4, <1>5, <2>2, <2>3, <2>4, <2>5, FoldKept
  <2>7. PartKept(c, DOMAIN flights)
    BY <1>8, <2>1, <2>6 DEF RecordsKept
  <2>8. x.at \in Nat
    BY <1>5, <1>6, <1>9 DEF Shaped
  <2>9. \A key \in DOMAIN flights : Logged(flights[key])
    BY DEF TypedInv
  <2> QED BY <1>9, <2>1, <2>7, <2>8, <2>9, NotReached
<1>11. x # e
  <2>1. TransitionHolds(flights, ProjectBefore(T, e), e)
    BY DEF Writes, Acceptable
  <2> QED BY <1>7, <1>10, <2>1
<1>12. x \in Live(entries)
  <2> SUFFICES ASSUME x \notin Live(entries) PROVE FALSE
    OBVIOUS
  <2>1. x \in entries
    BY <1>5, <1>6, <1>9, <1>11
  <2>2. x.id \notin LiveIds(entries)
    BY <1>3, <1>5, <2>1, LiveIs
  <2>3. x \in Returned(entries, T, e)
    BY <1>9, <1>11, <2>2 DEF Returned
  <2>4. RevivedEntriesHold(entries, T, flights, e)
    BY DEF Writes, Acceptable
  <2>5. x.kind # "retraction"
    BY <1>9
  <2>6. TransitionHolds(flights, ProjectBefore(T, x), x)
    BY <2>3, <2>4, <2>5 DEF RevivedEntriesHold
  <2> QED BY <1>7, <1>10, <2>6
<1>13. Alike(q, r, k)
  <2>1. x.kind # "retraction"
    BY <1>9
  <2>2. \/ TransitionHolds(flights, ProjectBefore(T, x), x)
        \/ Alike(ProjectBefore(entries, x), ProjectBefore(T, x), x.subject)
    BY <1>2, <1>9, <1>12, <2>1, KeepsPast
  <2> QED BY <1>7, <1>8, <1>10, <2>2
<1>14. k \in DOMAIN q.parts
  BY <1>2, <1>7, <1>8, <1>9, <1>12 DEF FitsAll, Fits
<1>15. q.parts[k] = c
  BY <1>8, <1>13, <1>14 DEF Alike
<1> QED BY <1>7, <1>8, <1>9, <1>12, <1>15 DEF FittedOverdue

\* No write, in whatever order entries come, and none that corrects, retracts or brings back
\* an entry, leaves a part fitted that the board would have called overdue as it was fitted,
\* unless it was so before (validate.py _limits_past, _transitions, _revived_entries_hold,
\* _later_entries_still_hold; life/engine.py _component_items).
THEOREM NeverFittedOverdue == Spec => NeverFittedAtItsLimit
<1>1. ASSUME TypedInv, [Next]_vars
      PROVE  [entries' # entries =>
                 FittedOverdue(entries', flights) \subseteq FittedOverdue(entries, flights)]_vars
  <2>1. ASSUME NEW d \in Topics[topic].drafts, NEW s \in {0} \cup Ids(entries),
               Write([id |-> 0, supersedes |-> s, subject |-> d.subject, kind |-> d.kind,
                      at |-> d.at, details |-> d.details])
        PROVE  FittedOverdue(entries', flights) \subseteq FittedOverdue(entries, flights)
    <3>1. PICK e : /\ Writes(entries, flights, entries', e)
                   /\ Entered(e, DOMAIN flights)
      BY <1>1, <2>1, TypedWrite
    <3> QED BY <1>1, <3>1, NotFittedOverdue
  <2>2. ASSUME NEW upload \in Topics[topic].logs, Upload(upload[1], upload[2])
        PROVE  entries' = entries
    BY <1>1, <2>2, TypedUpload
  <2>3. CASE UNCHANGED vars
    BY <2>3
  <2> QED BY <1>1, <2>1, <2>2, <2>3 DEF Next
<1> QED BY <1>1, LedgerTyped, PTL DEF Spec, NeverFittedAtItsLimit

-----------------------------------------------------------------------------
(* The hours before the first log that an inspection is counted with.      *)

Totals(S, k) == {s \in S : s.subject = k /\ s.kind = "time_in_service.set"}

LEMMA MaxIs ==
    ASSUME NEW S \in SUBSET Int, IsFiniteSet(S), S # {}
    PROVE  Max(S) \in S /\ \A y \in S : y <= Max(S)
<1> DEFINE R == [p \in S \X S |-> p[1] < p[2]]
<1>1. \A x, y \in S : R[<<x, y>>] <=> x < y
  OBVIOUS
<1> HIDE DEF R
<1>2. Orders(R, S)
  BY <1>1 DEF Orders
<1>3. PICK m \in S : \A x \in S \ {m} : R[<<x, m>>]
  BY <1>2, EndExists
<1>4. ASSUME NEW y \in S PROVE m >= y
  <2>1. y \in Int /\ m \in Int
    OBVIOUS
  <2>2. CASE y # m
    <3>1. R[<<y, m>>]
      BY <1>3, <2>2
    <3>2. y < m
      BY <1>1, <3>1
    <3> QED BY <2>1, <3>2
  <2> QED BY <2>1, <2>2
<1>5. Max(S) \in S /\ \A y \in S : Max(S) >= y
  BY <1>4 DEF Max
<1> QED BY <1>5

LEMMA MaxOfTwo ==
    ASSUME NEW a \in Int
    PROVE  Max({0, a}) \in Int /\ a <= Max({0, a}) /\ 0 <= Max({0, a})
<1>1. IsFiniteSet({0, a})
  <2>1. IsFiniteSet({0})
    BY FS_Singleton
  <2>2. IsFiniteSet({0} \cup {a})
    BY <2>1, FS_AddElement
  <2>3. {0} \cup {a} = {0, a}
    OBVIOUS
  <2> QED BY <2>2, <2>3
<1> QED BY <1>1, MaxIs

LEMMA FoldAircraftBefore ==
    ASSUME NEW a, IsAircraft(a), NEW e
    PROVE  FoldAircraft(a, e).before = IF e.kind = "time_in_service.set" THEN e.details.before
                                       ELSE a.before
<1> DEFINE Row(x, y, z) == [before |-> x, inspections |-> y, orders |-> z]
<1>1. PICK p, q, o : a = Row(p, q, o)
  BY DEF IsAircraft
<1>2. a.before = p /\ a.inspections = q /\ a.orders = o
  BY <1>1
<1>3. \A x, y, z : Row(x, y, z).before = x
  OBVIOUS
<1>4. CASE e.kind = "time_in_service.set"
  <2>1. FoldAircraft(a, e) = Row(e.details.before, q, o)
    BY <1>1, <1>4 DEF FoldAircraft
  <2> HIDE DEF Row
  <2> QED BY <1>3, <1>4, <2>1
<1>5. CASE e.kind # "time_in_service.set"
  <2>1. \E y, z : FoldAircraft(a, e) = Row(p, y, z)
    BY <1>1, <1>2, <1>5 DEF FoldAircraft
  <2> HIDE DEF Row
  <2> QED BY <1>2, <1>3, <1>5, <2>1
<1> QED BY <1>4, <1>5

\* The hours in force are those of the last entry of them.
LEMMA FoldBefore ==
    ASSUME NEW n \in Nat, NEW E, Shaped(E, n), NEW S \in SUBSET E, NEW k
    PROVE  AircraftOn(Fold(E, S), k).before =
              IF Totals(S, k) = {} THEN 0 ELSE LastInFold(E, Totals(S, k)).details.before
<1> DEFINE Hours(s) == IF Totals(s, k) = {} THEN 0
                       ELSE LastInFold(E, Totals(s, k)).details.before
           G == {s \in SUBSET S : AircraftOn(Fold(E, s), k).before = Hours(s)}
<1>1. {} \in G
  <2>1. PICK r : r = Fold(E, {}) /\ r = NoRecords
    BY FoldStep
  <2>2. AircraftOn(r, k) = NoAircraft
    BY <2>1 DEF NoRecords, AircraftOn
  <2>3. Totals({}, k) = {}
    BY DEF Totals
  <2> QED BY <2>1, <2>2, <2>3 DEF NoAircraft
<1>2. ASSUME NEW s \in SUBSET S, s # {}, s \ {LastInFold(E, s)} \in G PROVE s \in G
  <2>1. PICK l : l = LastInFold(E, s)
    OBVIOUS
  <2>2. PICK rest \in SUBSET E : rest = s \ {l} /\ rest \in G
    BY <1>2, <2>1
  <2>3. s \in SUBSET E
    OBVIOUS
  <2>4. l \in s /\ Fold(E, s) = Folded(Fold(E, rest), l)
    BY <1>2, <2>1, <2>2, <2>3, FoldStep
  <2>5. PICK r : r = Fold(E, rest)
    OBVIOUS
  <2>6. AreRecords(r) /\ AircraftOn(r, k).before = Hours(rest)
    BY <2>2, <2>5, FoldShows
  <2>7. PICK q : q = Folded(r, l)
    OBVIOUS
  <2>8. AircraftOn(q, k) = IF l.kind \in AircraftKinds /\ k = l.subject
                           THEN FoldAircraft(AircraftOn(r, k), l) ELSE AircraftOn(r, k)
    BY <2>6, <2>7, FoldedParts
  <2>9. IsAircraft(AircraftOn(r, k))
    BY <2>6 DEF AreRecords, AircraftOn, IsAircraft, NoAircraft
  <2>10. AircraftOn(q, k).before = IF l \in Totals(s, k) THEN l.details.before
                                   ELSE AircraftOn(r, k).before
    <3>1. l \in Totals(s, k) <=> l.subject = k /\ l.kind = "time_in_service.set"
      BY <2>4 DEF Totals
    <3>2. l.kind = "time_in_service.set" => l.kind \in AircraftKinds
      BY DEF AircraftKinds
    <3> QED BY <2>8, <2>9, <3>1, <3>2, FoldAircraftBefore
  <2>11. CASE l \in Totals(s, k)
    <3>1. PICK P \in SUBSET E : P = Totals(s, k) /\ l \in P
      BY <2>3, <2>11 DEF Totals
    <3>2. IsLast(E, s, l)
      BY <1>2, <2>1, <2>3, LastIs
    <3>3. IsLast(E, P, l)
      BY <3>1, <3>2 DEF IsLast, Totals
    <3>4. l = LastInFold(E, P)
      BY <3>1, <3>3, LastIs
    <3> QED BY <2>4, <2>5, <2>7, <2>10, <2>11, <3>1, <3>4
  <2>12. CASE l \notin Totals(s, k)
    <3>1. Totals(s, k) = Totals(rest, k)
      BY <2>2, <2>12 DEF Totals
    <3> QED BY <2>4, <2>5, <2>6, <2>7, <2>10, <2>12, <3>1
  <2> QED BY <2>11, <2>12
<1>3. Gathers(E, S, G)
  BY <1>1, <1>2 DEF Gathers
<1>4. S \in G
  <2> HIDE DEF G
  <2> QED BY <1>3, FoldInduction
<1> QED BY <1>4

\* Of one aircraft's hours, those entered before an inspection in the fold and those after.
Until(E, x) == {s \in Totals(Live(E), x.subject) : Earlier(E, s, x)}
After(E, x) == {s \in Totals(Live(E), x.subject) : Earlier(E, x, s)}

Figures(S) == {s.details.before : s \in S}

InForce(E, x, s) == s \in Until(E, x) /\ \A y \in Until(E, x) \ {s} : Outlasts(E, s, y)

LEMMA CountedIs ==
    ASSUME NEW n \in Nat, NEW E, Shaped(E, n), NEW x \in E
    PROVE  /\ Until(E, x) = {} => CountedWith(E, x) = {0} \cup Figures(After(E, x))
           /\ Until(E, x) # {} =>
                 \E s : /\ InForce(E, x, s)
                        /\ CountedWith(E, x) = {s.details.before} \cup Figures(After(E, x))
<1>1. PICK U, A, k : U = Until(E, x) /\ A = After(E, x) /\ k = x.subject
  OBVIOUS
<1> DEFINE inForce == CHOOSE s \in U : \A y \in U \ {s} : Outlasts(E, s, y)
<1>2. CountedWith(E, x) = (IF U = {} THEN {0} ELSE {inForce.details.before}) \cup Figures(A)
  <2>1. U = {s \in {s \in Live(E) : s.subject = x.subject /\ s.kind = "time_in_service.set"} :
                Precedes(FoldKey(E, s), FoldKey(E, x))}
    BY <1>1 DEF Until, Totals, Earlier
  <2>2. A = {s \in {s \in Live(E) : s.subject = x.subject /\ s.kind = "time_in_service.set"} :
                Precedes(FoldKey(E, x), FoldKey(E, s))}
    BY <1>1 DEF After, Totals, Earlier
  <2> QED BY <2>1, <2>2, Zenon DEF CountedWith, Figures
<1>3. ASSUME U # {} PROVE \E s \in U : \A y \in U \ {s} : Outlasts(E, s, y)
  <2>1. U \in SUBSET E /\ IsFiniteSet(U)
    BY <1>1, LiveIs, FS_Subset DEF Until, Totals, Shaped
  <2> DEFINE R == [p \in U \X U |-> Outlasts(E, p[2], p[1])]
  <2>2. \A y, s \in U : R[<<y, s>>] <=> Outlasts(E, s, y)
    OBVIOUS
  <2> HIDE DEF R
  <2>3. \A y, s \in U : Outlasts(E, s, y) <=>
           \/ y.at < s.at
           \/ y.at = s.at /\ RootId(E, y) < RootId(E, s)
           \/ y.at = s.at /\ RootId(E, y) = RootId(E, s) /\ y.id < s.id
    <3> SUFFICES ASSUME NEW y \in U, NEW s \in U
                 PROVE  Outlasts(E, s, y) <=>
                           \/ y.at < s.at
                           \/ y.at = s.at /\ RootId(E, y) < RootId(E, s)
                           \/ y.at = s.at /\ RootId(E, y) = RootId(E, s) /\ y.id < s.id
      OBVIOUS
    <3>1. y \in E /\ s \in E
      BY <2>1
    <3>2. Earlier(E, y, s) <=> y.at < s.at \/ (y.at = s.at /\ RootId(E, y) < RootId(E, s))
      BY <3>1, EarlierIs
    <3>3. FoldKey(E, y) = FoldKey(E, s) <=> y.at = s.at /\ RootId(E, y) = RootId(E, s)
      BY DEF FoldKey
    <3> QED BY <3>2, <3>3 DEF Outlasts, Earlier
  <2>4. \A y \in U : /\ y.at \in Nat /\ RootId(E, y) \in Nat /\ y.id \in Nat
    BY <2>1, RootIs DEF Shaped
  <2>5. \A y, s \in U : y # s => y.id # s.id
    BY <2>1 DEF Shaped
  <2>6. Orders(R, U)
    <3>1. \A y, s \in U : y # s => R[<<y, s>>] \/ R[<<s, y>>]
      BY <2>2, <2>3, <2>4, <2>5
    <3>2. ASSUME NEW y \in U, NEW s \in U, Outlasts(E, s, y), Outlasts(E, y, s) PROVE FALSE
      BY <2>3, <2>4, <3>2
    <3>3. \A y, s, z \in U : R[<<y, s>>] /\ R[<<s, z>>] => R[<<y, z>>]
      BY <2>2, <2>3, <2>4
    <3> QED BY <2>2, <3>1, <3>2, <3>3 DEF Orders
  <2>7. PICK m \in U : \A y \in U \ {m} : R[<<y, m>>]
    BY <1>3, <2>1, <2>6, EndExists
  <2> QED BY <2>2, <2>7
<1>4. ASSUME U # {} PROVE inForce \in U /\ \A y \in U \ {inForce} : Outlasts(E, inForce, y)
  BY <1>3, <1>4
<1> HIDE DEF inForce
<1> QED BY <1>1, <1>2, <1>4 DEF InForce

\* No two of them stand at one place in the fold.
Apart(E, k) ==
    \A s, y \in Totals(Live(E), k) : s # y => FoldKey(E, s) # FoldKey(E, y)

LEMMA InForceIs ==
    ASSUME NEW n \in Nat, NEW E, Shaped(E, n), NEW x \in E, Apart(E, x.subject),
           NEW s, InForce(E, x, s)
    PROVE  s = LastInFold(E, Until(E, x))
<1>1. PICK U : U = Until(E, x)
  OBVIOUS
<1>2. U \in SUBSET E /\ U \subseteq Totals(Live(E), x.subject)
  BY <1>1, LiveIs DEF Until, Totals
<1>3. s \in U /\ \A y \in U \ {s} : Outlasts(E, s, y)
  BY <1>1 DEF InForce
<1>4. ASSUME NEW y \in U \ {s} PROVE Before(E, y, s)
  <2>1. FoldKey(E, s) # FoldKey(E, y)
    BY <1>2, <1>3 DEF Apart
  <2>2. Earlier(E, y, s)
    BY <1>3, <2>1 DEF Outlasts, Earlier
  <2> QED BY <1>2, <1>3, <2>2, EarlierBefore
<1>5. IsLast(E, U, s)
  BY <1>3, <1>4 DEF IsLast
<1> QED BY <1>1, <1>2, <1>3, <1>5, LastIs

\* What a dated answer takes the interval from x with is among what it is counted with.
LEMMA CountedCovers ==
    ASSUME NEW n \in Nat, NEW E, Shaped(E, n), NoTwins(E),
           NEW x \in Live(E), x.kind = "inspection.done", NEW t \in Int, x.at <= t
    PROVE  BeforeOn(ProjectAsOf(E, t), x.subject) \in CountedWith(E, x)
<1>1. PICK k : k = x.subject
  OBVIOUS
<1> DEFINE S == {e \in Live(E) : e.at <= t}
<1>2. PICK P : P = Totals(S, k)
  OBVIOUS
<1>3. Live(E) \subseteq E /\ x \in E
  BY LiveIs
<1>4. S \in SUBSET E /\ P \in SUBSET E /\ P \subseteq Totals(Live(E), k)
  BY <1>2, <1>3 DEF Totals
<1>5. \A y, z \in Live(E) : /\ y # z /\ y.subject = z.subject
                            /\ y.kind # "retraction" /\ z.kind # "retraction"
                            => FoldKey(E, y) # FoldKey(E, z)
  <2>1. \A y, z \in Live(E) : y # z => y.id # z.id
    BY <1>3 DEF Shaped
  <2> QED BY <2>1 DEF NoTwins, Twins
<1>6. BeforeOn(ProjectAsOf(E, t), k) = IF P = {} THEN 0 ELSE LastInFold(E, P).details.before
  <2>1. BeforeOn(Fold(E, S), k) = AircraftOn(Fold(E, S), k).before
    BY DEF BeforeOn, AircraftOn, NoAircraft
  <2>2. Fold(E, S) = ProjectAsOf(E, t)
    BY DEF ProjectAsOf
  <2> HIDE DEF S
  <2> QED BY <1>2, <1>4, <2>1, <2>2, FoldBefore
<1>7. Until(E, x) \subseteq P
  <2> SUFFICES ASSUME NEW s \in Until(E, x) PROVE s \in P
    OBVIOUS
  <2>1. s \in Totals(Live(E), k) /\ Earlier(E, s, x) /\ s \in E
    BY <1>1, <1>3 DEF Until, Totals
  <2>2. s.at <= x.at /\ s.at \in Nat /\ x.at \in Nat
    BY <1>3, <2>1, EarlierIs
  <2>3. s.at <= t
    BY <2>2
  <2> QED BY <1>2, <2>1, <2>3 DEF Totals
<1> HIDE DEF S
<1>8. CASE P = {}
  BY <1>1, <1>3, <1>6, <1>7, <1>8, CountedIs
<1>9. CASE P # {}
  <2>1. PICK l : l = LastInFold(E, P)
    OBVIOUS
  <2>2. IsLast(E, P, l) /\ l \in P
    BY <1>4, <1>9, <2>1, LastIs
  <2>3. l \in Totals(Live(E), k) /\ l \in E /\ l \in Live(E)
    BY <1>3, <1>4, <2>2 DEF Totals
  <2>4. l.subject = k /\ l.kind = "time_in_service.set"
    BY <2>3 DEF Totals
  <2>5. l # x /\ FoldKey(E, l) # FoldKey(E, x)
    BY <1>1, <1>5, <2>3, <2>4
  <2>6. Earlier(E, l, x) \/ Earlier(E, x, l)
    <3>1. Before(E, l, x) \/ Before(E, x, l)
      BY <1>3, <2>3, <2>5, BeforeTotal
    <3>2. Before(E, l, x) => Earlier(E, l, x) \/ FoldKey(E, l) = FoldKey(E, x)
      BY <1>3, <2>3, EarlierBefore
    <3>3. Before(E, x, l) => Earlier(E, x, l) \/ FoldKey(E, x) = FoldKey(E, l)
      BY <1>3, <2>3, EarlierBefore
    <3> QED BY <2>5, <3>1, <3>2, <3>3
  <2>7. CASE Earlier(E, x, l)
    <3>1. l \in After(E, x)
      BY <1>1, <2>3, <2>7 DEF After
    <3>2. l.details.before \in Figures(After(E, x))
      BY <3>1 DEF Figures
    <3> QED BY <1>1, <1>3, <1>6, <1>9, <2>1, <3>2, CountedIs
  <2>8. CASE Earlier(E, l, x)
    <3>1. l \in Until(E, x)
      BY <1>1, <2>3, <2>8 DEF Until
    <3>2. PICK s : /\ InForce(E, x, s)
                   /\ CountedWith(E, x) = {s.details.before} \cup Figures(After(E, x))
      BY <1>3, <3>1, CountedIs
    <3>3. Apart(E, x.subject)
      BY <1>5 DEF Apart, Totals
    <3>4. s = LastInFold(E, Until(E, x))
      BY <1>3, <3>2, <3>3, InForceIs
    <3>5. IsLast(E, Until(E, x), l)
      BY <1>7, <2>2, <3>1 DEF IsLast
    <3>6. Until(E, x) \in SUBSET E
      BY <1>4, <1>7
    <3>7. l = LastInFold(E, Until(E, x))
      BY <3>1, <3>5, <3>6, LastIs
    <3> QED BY <1>1, <1>6, <1>9, <2>1, <3>2, <3>4, <3>7
  <2> QED BY <2>6, <2>7, <2>8
<1> QED BY <1>8, <1>9

\* How far an inspection's hours are past what it is counted with is a number, the most of all.
LEMMA ExcessIs ==
    ASSUME NEW n \in Nat, NEW E, Shaped(E, n), NEW keys, \A e \in E : Entered(e, keys),
           NEW logs, NEW x \in E, x.kind = "inspection.done", Logged(logs[x.subject])
    PROVE  /\ Excess(E, logs, x) \in Int
           /\ \A b \in CountedWith(E, x) :
                 /\ b \in Nat
                 /\ x.details.hours - MostTimeInService(b, logs[x.subject], x.at)
                       <= Excess(E, logs, x)
<1>1. PICK C, l, h : C = CountedWith(E, x) /\ l = logs[x.subject] /\ h = x.details.hours
  OBVIOUS
<1>2. h \in Nat /\ Logged(l)
  BY <1>1 DEF Entered
<1>3. \A s \in Totals(Live(E), x.subject) : s \in E /\ s.details.before \in Nat
  <2> SUFFICES ASSUME NEW s \in Totals(Live(E), x.subject)
               PROVE  s \in E /\ s.details.before \in Nat
    OBVIOUS
  <2>1. s \in E /\ s.kind = "time_in_service.set"
    BY LiveIs DEF Totals
  <2>2. s.details \in [before : Nat]
    <3>1. s.details \in Form(s.kind)
      BY <2>1 DEF Entered
    <3> QED BY <2>1, <3>1 DEF Form
  <2> QED BY <2>1, <2>2
<1>4. Figures(After(E, x)) \in SUBSET Nat /\ IsFiniteSet(Figures(After(E, x)))
  <2>1. PICK A : A = After(E, x) /\ A \subseteq Totals(Live(E), x.subject)
    BY DEF After
  <2>2. IsFiniteSet(A)
    <3>1. A \subseteq E /\ IsFiniteSet(E)
      BY <1>3, <2>1 DEF Shaped
    <3> QED BY <3>1, FS_Subset
  <2> DEFINE f == [s \in A |-> s.details.before]
  <2>3. Figures(A) = {f[s] : s \in A}
    BY DEF Figures
  <2> HIDE DEF f
  <2>4. IsFiniteSet(Figures(A))
    BY <2>2, <2>3, Image
  <2> QED BY <1>3, <2>1, <2>4 DEF Figures
<1>5. C \in SUBSET Nat /\ IsFiniteSet(C) /\ C # {}
  <2>1. \E b \in Nat : C = {b} \cup Figures(After(E, x))
    <3>1. CASE Until(E, x) = {}
      BY <1>1, <3>1, CountedIs
    <3>2. CASE Until(E, x) # {}
      <4>1. PICK s : InForce(E, x, s) /\ C = {s.details.before} \cup Figures(After(E, x))
        BY <1>1, <3>2, CountedIs
      <4>2. s \in Totals(Live(E), x.subject)
        BY <4>1 DEF InForce, Until
      <4> QED BY <1>3, <4>1, <4>2
    <3> QED BY <3>1, <3>2
  <2>2. PICK b \in Nat : C = {b} \cup Figures(After(E, x))
    BY <2>1
  <2> QED BY <1>4, <2>2, FS_AddElement
<1>6. \A b \in C : MostTimeInService(b, l, x.at) \in Nat
  BY <1>2, <1>5, FlightTimeIs
<1> DEFINE g == [b \in C |-> h - MostTimeInService(b, l, x.at)]
<1>7. \A b \in C : g[b] = h - MostTimeInService(b, l, x.at) /\ g[b] \in Int
  BY <1>2, <1>6
<1>8. PICK S : S = {g[b] : b \in C}
  OBVIOUS
<1>9. Excess(E, logs, x) = Max(S)
  BY <1>1, <1>8, Zenon DEF Excess
<1> HIDE DEF g
<1>10. S \in SUBSET Int /\ IsFiniteSet(S) /\ S # {}
  <2>1. IsFiniteSet({g[b] : b \in C})
    BY <1>5, Image
  <2> QED BY <1>5, <1>7, <1>8, <2>1
<1>11. Max(S) \in S /\ \A y \in S : y <= Max(S)
  BY <1>10, MaxIs
<1> QED BY <1>1, <1>5, <1>7, <1>8, <1>9, <1>10, <1>11

\* With the same hours before the first log, an inspection is counted with the same.
LEMMA CountedKept ==
    ASSUME NEW n \in Nat, NEW E, Shaped(E, n), NEW m \in Nat, NEW T, Shaped(T, m),
           E \subseteq T, \A y \in E : RootId(T, y) = RootId(E, y),
           NEW x \in E, Totals(Live(T), x.subject) = Totals(Live(E), x.subject),
           Apart(T, x.subject)
    PROVE  CountedWith(T, x) = CountedWith(E, x)
<1>1. PICK P : P = Totals(Live(T), x.subject) /\ P = Totals(Live(E), x.subject)
  OBVIOUS
<1>2. P \subseteq E
  BY <1>1, LiveIs DEF Totals
<1>3. \A y \in E : FoldKey(T, y) = FoldKey(E, y)
  BY DEF FoldKey
<1>4. Until(T, x) = Until(E, x) /\ After(T, x) = After(E, x)
  BY <1>1, <1>2, <1>3 DEF Until, After, Earlier
<1>5. Apart(E, x.subject)
  BY <1>1, <1>2, <1>3 DEF Apart
<1>6. x \in T
  OBVIOUS
<1>7. CASE Until(E, x) = {}
  <2>1. CountedWith(E, x) = {0} \cup Figures(After(E, x))
    BY <1>7, CountedIs
  <2>2. CountedWith(T, x) = {0} \cup Figures(After(T, x))
    BY <1>4, <1>6, <1>7, CountedIs
  <2> QED BY <1>4, <2>1, <2>2
<1>8. CASE Until(E, x) # {}
  <2>1. PICK s : InForce(E, x, s) /\ CountedWith(E, x) = {s.details.before} \cup Figures(After(E, x))
    BY <1>8, CountedIs
  <2>2. PICK u : InForce(T, x, u) /\ CountedWith(T, x) = {u.details.before} \cup Figures(After(T, x))
    BY <1>4, <1>6, <1>8, CountedIs
  <2>3. s = LastInFold(E, Until(E, x)) /\ u = LastInFold(T, Until(T, x))
    BY <1>5, <1>6, <2>1, <2>2, InForceIs
  <2>4. \A y \in Until(E, x) : RootId(E, y) = RootId(T, y)
    BY <1>1, <1>2 DEF Until
  <2>5. s = u
    BY <1>4, <2>3, <2>4, LastSame
  <2> QED BY <1>4, <2>1, <2>2, <2>5
<1> QED BY <1>7, <1>8

\* What an inspection was held to before a write: itself, or the one that it corrects.
HeldTo(E, x) == {y \in Live(E) : /\ y.kind = "inspection.done"
                                 /\ y.id = IF x \in E THEN x.id ELSE x.supersedes}

LEMMA CredibleKept ==
    ASSUME TypedInv, NEW T, NEW e, Writes(entries, flights, T, e), Entered(e, DOMAIN flights),
           e.kind \in AircraftKinds => e.subject \in DOMAIN flights, NoTwins(T),
           NEW x \in Live(T), x.kind = "inspection.done", NEW t \in Int, x.at <= t
    PROVE  \/ Past(T, flights, x, t) <= HoursSlack
           \/ \E y \in HeldTo(entries, x) :
                 Past(T, flights, x, t) <= Max({0, Excess(entries, flights, y)}) + HoursSlack
<1>1. PICK E, n, logs : E = entries /\ n = Cardinality(E) /\ logs = flights
  OBVIOUS
<1>2. LedgerHolds(E) /\ Writes(E, logs, T, e)
  BY <1>1 DEF TypedInv, RecordsInv, LedgerInv
<1>3. n \in Nat /\ Takes(E, n, T, e) /\ Grows(E, n, T, e) /\ Linked(T)
  BY <1>1, <1>2, Taken DEF Takes
<1>4. PICK m \in Nat : m = n + 1
  BY <1>3
<1>5. /\ Shaped(E, n) /\ Shaped(T, m) /\ T = E \cup {e} /\ e \notin E
      /\ \A y \in E : RootId(T, y) = RootId(E, y)
  <2>1. Shaped(E, n) /\ T = E \cup {e}
    BY <1>3 DEF Grows
  <2>2. Shaped(T, m) /\ e \notin E
    BY <1>3, <1>4, Grown
  <2>3. \A y \in E : RootId(T, y) = RootId(E, y)
    BY <1>3, GrownKeeps
  <2> QED BY <2>1, <2>2, <2>3
<1>6. Live(T) \subseteq T /\ Live(E) \subseteq E
  BY <1>3, <1>4, <1>5, LiveIs
<1>7. /\ \A y \in T : Entered(y, DOMAIN logs)
      /\ \A y \in T : y.kind \in AircraftKinds => y.subject \in DOMAIN logs
  BY <1>1, <1>5 DEF TypedInv, Kept
<1>8. \A y \in T : y.kind = "inspection.done" => Logged(logs[y.subject])
  BY <1>1, <1>7 DEF TypedInv, AircraftKinds
<1>9. HoursSlack \in Nat
  BY LifeAssumption
<1>10. \A y \in E : y.kind = "inspection.done" => Excess(E, logs, y) \in Int
  BY <1>3, <1>5, <1>7, <1>8, ExcessIs
<1>11. x \in T
  BY <1>6
<1>12. PICK p : p = Past(T, logs, x, t)
  OBVIOUS
<1>13. p \in Int /\ Excess(T, logs, x) \in Int /\ p <= Excess(T, logs, x)
  <2>1. PICK b \in CountedWith(T, x) : b = BeforeOn(ProjectAsOf(T, t), x.subject)
    BY <1>5, CountedCovers
  <2>2. /\ Excess(T, logs, x) \in Int /\ b \in Nat
        /\ x.details.hours - MostTimeInService(b, logs[x.subject], x.at) <= Excess(T, logs, x)
    BY <1>5, <1>7, <1>8, <1>11, <2>1, ExcessIs
  <2>3. p = x.details.hours - MostTimeInService(b, logs[x.subject], x.at)
    BY <1>12, <2>1 DEF Past
  <2>4. x.details.hours \in Nat /\ MostTimeInService(b, logs[x.subject], x.at) \in Nat
    BY <1>7, <1>8, <1>11, <2>2, FlightTimeIs DEF Entered
  <2> QED BY <2>2, <2>3, <2>4
<1> DEFINE R == Revived(E, T, e)
<1> DEFINE C == {e} \cup R \cup Ended(E, T)
<1> DEFINE totals == \E y \in C : y.kind = "time_in_service.set"
<1> DEFINE Judged == x.subject = e.subject /\ (totals \/ x \in {e} \cup R)
<1>15. CASE Judged
  <2>1. InspectionHoursHold(E, T, logs, e)
    BY <1>2 DEF Writes, Acceptable
  <2>2. \/ Excess(T, logs, x) <= HoursSlack
        \/ \E y \in {y \in Live(E) : /\ y.kind = "inspection.done"
                                     /\ y.id = IF x = e THEN e.supersedes ELSE x.id} :
              Excess(T, logs, x) <= Max({0, Excess(E, logs, y)}) + HoursSlack
    BY <1>15, <2>1, Zenon DEF InspectionHoursHold
  <2>3. CASE Excess(T, logs, x) <= HoursSlack
    BY <1>1, <1>9, <1>12, <1>13, <2>3
  <2>4. ASSUME NEW y \in Live(E), y.kind = "inspection.done",
               y.id = IF x = e THEN e.supersedes ELSE x.id,
               Excess(T, logs, x) <= Max({0, Excess(E, logs, y)}) + HoursSlack
        PROVE  y \in HeldTo(E, x) /\ p <= Max({0, Excess(E, logs, y)}) + HoursSlack
    <3>1. y \in HeldTo(E, x)
      BY <1>5, <1>11, <2>4 DEF HeldTo
    <3>2. PICK a \in Int : a = Excess(E, logs, y)
      BY <1>6, <1>10, <2>4
    <3>3. Max({0, a}) \in Int
      BY MaxOfTwo
    <3> QED BY <1>9, <1>13, <2>4, <3>1, <3>2, <3>3
  <2> QED BY <1>1, <1>12, <2>2, <2>3, <2>4
<1>16. CASE ~Judged
  <2>1. x \in E
    <3>1. x # e
      BY <1>16
    <3> QED BY <1>5, <1>11, <3>1
  <2>2. ASSUME NEW s \in T, s.kind # "retraction", s.subject = x.subject,
               s = e \/ s \in Changed(E, T)
        PROVE  s.subject = e.subject /\ (s \in C) /\ (s \in Live(T) => s \in {e} \cup R)
    <3>1. CASE s = e
      BY <3>1
    <3>2. CASE s # e /\ s \in Changed(E, T)
      <4>1. s.subject = e.subject
        BY <1>3, <3>2, ChangedSubject
      <4>2. s \in E
        BY <3>2 DEF Changed
      <4>3. /\ s \in Live(E) <=> s.id \in LiveIds(E)
            /\ s \in Live(T) <=> s.id \in LiveIds(T)
        BY <1>3, <1>5, <2>2, <4>2, LiveIs
      <4>4. s \in Live(T) => s \in R
        BY <2>2, <3>2, <4>3 DEF Changed, Revived, Returned
      <4>5. s \notin Live(T) => s \in Ended(E, T)
        BY <2>2, <3>2, <4>3 DEF Changed, Ended
      <4> QED BY <4>1, <4>4, <4>5
    <3> QED BY <2>2, <3>1, <3>2
  <2> HIDE DEF C, R
  <2>3. x \in Live(E)
    <3> SUFFICES ASSUME x \notin Live(E) PROVE FALSE
      OBVIOUS
    <3>1. x \in Changed(E, T)
      BY <2>1 DEF Changed
    <3> QED BY <1>11, <1>16, <2>2, <3>1
  <2>4. Totals(Live(T), x.subject) = Totals(Live(E), x.subject)
    <3> SUFFICES ASSUME NEW s \in T, s.subject = x.subject, s.kind = "time_in_service.set"
                 PROVE  s \in Live(T) <=> s \in Live(E)
      BY <1>5, <1>6 DEF Totals
    <3> SUFFICES ASSUME ~(s \in Live(T) <=> s \in Live(E)) PROVE FALSE
      OBVIOUS
    <3>1. s = e \/ s \in Changed(E, T)
      BY <1>5 DEF Changed
    <3> QED BY <1>16, <2>2, <3>1
  <2>5. Apart(T, x.subject)
    <3>1. \A y, z \in Live(T) : y # z => y.id # z.id
      BY <1>5, <1>6 DEF Shaped
    <3> QED BY <3>1 DEF Apart, Totals, NoTwins, Twins
  <2>6. CountedWith(T, x) = CountedWith(E, x)
    BY <1>3, <1>5, <2>1, <2>4, <2>5, CountedKept
  <2>7. PICK a \in Int : a = Excess(E, logs, x) /\ a = Excess(T, logs, x)
    BY <1>13, <2>6 DEF Excess
  <2>8. x \in HeldTo(E, x)
    BY <2>1, <2>3 DEF HeldTo
  <2>9. Max({0, a}) \in Int /\ a <= Max({0, a})
    BY MaxOfTwo
  <2>10. p <= Max({0, a}) + HoursSlack
    BY <1>9, <1>13, <2>7, <2>9
  <2> QED BY <1>1, <1>12, <2>7, <2>8, <2>10
<1> QED BY <1>15, <1>16

\* After a write the board counts no inspection with hours past what the aircraft can have
\* had, beyond what the records already held it to (StatedHoursStayCredible).
THEOREM StatedHoursCredible == Spec => StatedHoursStayCredible
<1>1. ASSUME TypedInv, [Next]_vars,
             entries' # entries, NoTwins(entries'),
             NEW x \in {i \in Live(entries') : i.kind = "inspection.done"},
             NEW t \in x.at..(Today + 2)
      PROVE  \/ Past(entries', flights, x, t) <= HoursSlack
             \/ \E y \in HeldTo(entries, x) :
                   Past(entries', flights, x, t)
                      <= Max({0, Excess(entries, flights, y)}) + HoursSlack
  <2>1. PICK e : /\ Writes(entries, flights, entries', e) /\ Entered(e, DOMAIN flights)
                 /\ e.kind \in AircraftKinds => e.subject \in DOMAIN flights
    BY <1>1, TypedWrite, TypedUpload DEF Next, vars
  <2>2. x \in Live(entries') /\ x.kind = "inspection.done" /\ t \in Int
    OBVIOUS
  <2>3. x.at <= t
    BY <1>1
  <2> QED BY <1>1, <2>1, <2>2, <2>3, CredibleKept
<1>2. TypedInv /\ [Next]_vars => [entries' # entries /\ NoTwins(entries') =>
          \A x \in {i \in Live(entries') : i.kind = "inspection.done"} : \A t \in x.at..(Today + 2) :
              \/ Past(entries', flights, x, t) <= HoursSlack
              \/ \E y \in Live(entries) :
                    /\ y.kind = "inspection.done"
                    /\ y.id = IF x \in entries THEN x.id ELSE x.supersedes
                    /\ Past(entries', flights, x, t)
                          <= Max({0, Excess(entries, flights, y)}) + HoursSlack]_vars
  BY <1>1, Zenon DEF HeldTo
<1> QED BY <1>2, LedgerTyped, PTL DEF Spec, StatedHoursStayCredible

-----------------------------------------------------------------------------
(* What the board answers serviceable on.                                  *)

\* An order on record as open.
Row(x, y, z) == [opened |-> x, state |-> y, closed |-> z]
Stands(a, w) ==
    /\ w \in DOMAIN a.orders
    /\ \E x : \E y \in WorkStates : a.orders[w] = Row(x, y, None)

Opens(e, k, w) == e.subject = k /\ e.kind = "work_order.open" /\ e.details.work = w
Closes(e, k, w) == e.subject = k /\ e.kind = "work_order.close" /\ e.details.work = w

LEMMA OrderStands ==
    ASSUME NEW a, IsAircraft(a), NEW keys, NEW e, Entered(e, keys), NEW w,
           \/ Stands(a, w) /\ ~Closes(e, e.subject, w)
           \/ Opens(e, e.subject, w)
    PROVE  Stands(FoldAircraft(a, e), w)
<1> DEFINE d == e.details
<1> DEFINE Of(x, y, z) == [before |-> x, inspections |-> y, orders |-> z]
<1>1. PICK p, q, o : a = Of(p, q, o)
  BY DEF IsAircraft
<1>2. a.orders = o /\ \A x, y, z : Of(x, y, z).orders = z
  BY <1>1
<1>3. CASE Opens(e, e.subject, w)
  <2>1. FoldAircraft(a, e) = Of(p, q, WithKey(o, w, Row(e.at, d.state, None)))
    BY <1>1, <1>3 DEF Opens, FoldAircraft, Row
  <2>2. d.state \in WorkStates
    BY <1>3 DEF Opens, Entered, Form
  <2>3. w \in DOMAIN WithKey(o, w, Row(e.at, d.state, None))
        /\ WithKey(o, w, Row(e.at, d.state, None))[w] = Row(e.at, d.state, None)
    BY DEF WithKey
  <2> HIDE DEF Of
  <2> QED BY <1>2, <2>1, <2>2, <2>3 DEF Stands
<1>4. CASE Stands(a, w) /\ ~Closes(e, e.subject, w) /\ ~Opens(e, e.subject, w)
  <2>1. PICK x : \E y \in WorkStates : o[w] = Row(x, y, None)
    BY <1>2, <1>4 DEF Stands
  <2>2. w \in DOMAIN o
    BY <1>2, <1>4 DEF Stands
  <2>3. CASE e.kind = "work_order.open"
    <3>1. PICK n : n = WithKey(o, d.work, Row(e.at, d.state, None))
      OBVIOUS
    <3>2. FoldAircraft(a, e) = Of(p, q, n)
      BY <1>1, <2>3, <3>1 DEF FoldAircraft, Row
    <3>3. d.work # w
      BY <1>4, <2>3 DEF Opens
    <3>4. w \in DOMAIN n /\ n[w] = o[w]
      BY <2>2, <3>1, <3>3 DEF WithKey
    <3> HIDE DEF Of
    <3> QED BY <1>2, <2>1, <3>2, <3>4 DEF Stands
  <2>4. CASE e.kind = "work_order.state" /\ "work" \in DOMAIN d /\ d.work \in DOMAIN o
    <3>1. PICK n : n = [o EXCEPT ![d.work].state = d.state]
      OBVIOUS
    <3>2. FoldAircraft(a, e) = Of(p, q, n)
      BY <1>1, <2>4, <3>1 DEF FoldAircraft
    <3>3. d.state \in WorkStates
      BY <2>4 DEF Entered, Form
    <3>4. w \in DOMAIN n /\ \E y \in WorkStates : n[w] = Row(x, y, None)
      <4>1. CASE d.work = w
        <5>1. PICK y \in WorkStates : o[w] = Row(x, y, None)
          BY <2>1
        <5>2. n[w] = [o[w] EXCEPT !.state = d.state]
          BY <2>2, <3>1, <4>1
        <5>3. n[w] = Row(x, d.state, None)
          BY <5>1, <5>2 DEF Row
        <5> QED BY <2>2, <3>1, <3>3, <5>3
      <4>2. CASE d.work # w
        BY <2>1, <2>2, <3>1, <4>2
      <4> QED BY <4>1, <4>2
    <3> HIDE DEF Of
    <3> QED BY <1>2, <3>2, <3>4 DEF Stands
  <2>5. CASE e.kind = "work_order.close" /\ "work" \in DOMAIN d /\ d.work \in DOMAIN o
    <3>1. PICK n : n = [o EXCEPT ![d.work].closed = e.at]
      OBVIOUS
    <3>2. FoldAircraft(a, e) = Of(p, q, n)
      BY <1>1, <2>5, <3>1 DEF FoldAircraft
    <3>3. d.work # w
      BY <1>4, <2>5 DEF Closes
    <3>4. w \in DOMAIN n /\ n[w] = o[w]
      BY <2>2, <3>1, <3>3
    <3> HIDE DEF Of
    <3> QED BY <1>2, <2>1, <3>2, <3>4 DEF Stands
  <2>6. CASE e.kind \in {"time_in_service.set", "inspection.done"}
    <3>1. \E x1, y1 : FoldAircraft(a, e) = Of(x1, y1, o)
      <4>1. CASE e.kind = "time_in_service.set"
        BY <1>1, <4>1 DEF FoldAircraft
      <4>2. CASE e.kind = "inspection.done"
        BY <1>1, <4>2 DEF FoldAircraft
      <4> QED BY <2>6, <4>1, <4>2
    <3> HIDE DEF Of
    <3> QED BY <1>2, <1>4, <3>1 DEF Stands
  <2>7. CASE /\ e.kind \notin {"work_order.open", "time_in_service.set", "inspection.done"}
             /\ ~(e.kind = "work_order.state" /\ "work" \in DOMAIN d /\ d.work \in DOMAIN o)
             /\ ~(e.kind = "work_order.close" /\ "work" \in DOMAIN d /\ d.work \in DOMAIN o)
    <3>1. FoldAircraft(a, e) = a
      BY <1>2, <2>7 DEF FoldAircraft
    <3> QED BY <1>4, <3>1
  <2> QED BY <2>3, <2>4, <2>5, <2>6, <2>7
<1> QED BY <1>3, <1>4

\* A work order opened and not closed is on record as open.
LEMMA FoldStands ==
    ASSUME NEW n \in Nat, NEW E, Shaped(E, n), NEW S \in SUBSET E, NEW keys,
           \A e \in S : Entered(e, keys), NEW k, NEW w,
           \E e \in S : Opens(e, k, w), \A e \in S : ~Closes(e, k, w)
    PROVE  k \in DOMAIN Fold(E, S).aircraft /\ Stands(AircraftOn(Fold(E, S), k), w)
<1> DEFINE Good(s) == (\E e \in s : Opens(e, k, w)) => Stands(AircraftOn(Fold(E, s), k), w)
           G == {s \in SUBSET S : Good(s)}
<1>1. {} \in G
  OBVIOUS
<1>2. ASSUME NEW s \in SUBSET S, s # {}, s \ {LastInFold(E, s)} \in G PROVE s \in G
  <2>1. PICK l : l = LastInFold(E, s)
    OBVIOUS
  <2>2. PICK rest \in SUBSET E : rest = s \ {l} /\ rest \in G
    BY <1>2, <2>1
  <2>3. s \in SUBSET E
    OBVIOUS
  <2>4. l \in s /\ Fold(E, s) = Folded(Fold(E, rest), l)
    BY <1>2, <2>1, <2>2, <2>3, FoldStep
  <2>5. PICK r : r = Fold(E, rest)
    OBVIOUS
  <2>6. AreRecords(r) /\ Good(rest)
    BY <2>2, <2>5, FoldShows
  <2>7. PICK q : q = Folded(r, l)
    OBVIOUS
  <2>8. PICK a : a = AircraftOn(r, k)
    OBVIOUS
  <2>9. IsAircraft(a)
    BY <2>6, <2>8 DEF AreRecords, AircraftOn, IsAircraft, NoAircraft
  <2>10. AircraftOn(q, k) = IF l.kind \in AircraftKinds /\ k = l.subject
                            THEN FoldAircraft(a, l) ELSE a
    BY <2>6, <2>7, <2>8, FoldedParts
  <2>11. Entered(l, keys) /\ ~Closes(l, k, w)
    BY <2>4
  <2>12. ASSUME \E e \in s : Opens(e, k, w) PROVE Stands(AircraftOn(q, k), w)
    <3>1. CASE Opens(l, k, w)
      <4>1. k = l.subject /\ l.kind \in AircraftKinds /\ Opens(l, l.subject, w)
        BY <3>1 DEF Opens, AircraftKinds
      <4>2. Stands(FoldAircraft(a, l), w)
        BY <2>9, <2>11, <4>1, OrderStands
      <4> QED BY <2>10, <4>1, <4>2
    <3>2. CASE ~Opens(l, k, w)
      <4>1. Stands(a, w)
        BY <2>2, <2>5, <2>6, <2>8, <2>12, <3>2
      <4>2. CASE l.kind \in AircraftKinds /\ k = l.subject
        <5>1. ~Closes(l, l.subject, w)
          BY <2>11, <4>2
        <5>2. Stands(FoldAircraft(a, l), w)
          BY <2>9, <2>11, <4>1, <5>1, OrderStands
        <5> QED BY <2>10, <4>2, <5>2
      <4>3. CASE ~(l.kind \in AircraftKinds /\ k = l.subject)
        BY <2>10, <4>1, <4>3
      <4> QED BY <4>2, <4>3
    <3> QED BY <3>1, <3>2
  <2> QED BY <2>4, <2>5, <2>7, <2>12
<1>3. Gathers(E, S, G)
  BY <1>1, <1>2 DEF Gathers
<1>4. S \in G
  <2> HIDE DEF G
  <2> QED BY <1>3, FoldInduction
<1>5. k \in DOMAIN Fold(E, S).aircraft
  <2>1. PICK e \in S : Opens(e, k, w)
    OBVIOUS
  <2>2. Shows(Fold(E, S), e)
    BY FoldShows
  <2> QED BY <2>1, <2>2 DEF Shows, Opens
<1> QED BY <1>4, <1>5

LEMMA ServiceableIs ==
    ASSUME NEW due, due.hasRecord \in BOOLEAN, Board(due) = "serviceable"
    PROVE  /\ due.hasRecord
           /\ OrderStates(due) \cap WorkStates = {}
           /\ "overdue" \notin ItemStates(due)
<1>1. Unknown # "serviceable"
  BY LifeAssumption
<1>2. due.hasRecord
  BY <1>1 DEF Board
<1>3. "awaiting_parts" \notin OrderStates(due)
  BY <1>2 DEF Board
<1>4. "in_work" \notin OrderStates(due)
  BY <1>2, <1>3 DEF Board
<1>5. "overdue" \notin ItemStates(due)
  BY <1>2, <1>3, <1>4 DEF Board
<1>6. "deferred" \notin OrderStates(due)
  BY <1>1, <1>2, <1>3, <1>4, <1>5 DEF Board
<1> QED BY <1>2, <1>3, <1>4, <1>5, <1>6 DEF WorkStates

LEMMA DueIs ==
    ASSUME NEW logs, NEW r, NEW key, NEW t
    PROVE  /\ DueList(logs, r, key, t).hasRecord \in BOOLEAN
           /\ key \in DOMAIN r.aircraft =>
                 DueList(logs, r, key, t).orders = OrdersOf(r.aircraft[key])
           /\ \A c \in InstalledParts(r, key, t) :
                 PartItems(logs, c, r.parts[c], t) \subseteq DueList(logs, r, key, t).items
<1>1. PICK D : D = DueList(logs, r, key, t)
  OBVIOUS
<1>2. PICK P : P = PartsDue(logs, r, key, t)
  OBVIOUS
<1>3. \A c \in InstalledParts(r, key, t) : PartItems(logs, c, r.parts[c], t) \subseteq P
  BY <1>2 DEF PartsDue
<1>4. CASE key \notin DOMAIN r.aircraft /\ InstalledParts(r, key, t) = {}
  <2>1. D = NoRecord
    BY <1>1, <1>4 DEF DueList
  <2>2. NoRecord.hasRecord = FALSE
    BY DEF NoRecord
  <2> QED BY <1>1, <1>4, <2>1, <2>2
<1>5. CASE ~(key \notin DOMAIN r.aircraft /\ InstalledParts(r, key, t) = {})
  <2>1. PICK a : a = IF key \in DOMAIN r.aircraft THEN r.aircraft[key] ELSE NoAircraft
    OBVIOUS
  <2>2. D = DueOf(P, a, logs[key], t)
    BY <1>1, <1>2, <1>5, <2>1 DEF DueList
  <2>3. PICK s : s = TimeInService(a.before, logs[key], t, TRUE)
    OBVIOUS
  <2>4. PICK I : I = InspectionsDue(a, logs[key], s, t)
    OBVIOUS
  <2>5. D = [hasRecord |-> TRUE, service |-> s, orders |-> OrdersOf(a), items |-> P \cup I]
    BY <2>2, <2>3, <2>4, Zenon DEF DueOf
  <2>6. D.hasRecord = TRUE /\ D.orders = OrdersOf(a) /\ D.items = P \cup I
    BY <2>5
  <2> QED BY <1>1, <1>3, <2>1, <2>6
<1> QED BY <1>4, <1>5

\* The particulars of a part are those of its registration.
Particulars(c, g) == c.kind = g.details.kind /\ c.hours = g.details.hours
Registers(g, k) == g.subject = k /\ g.kind = "component.register"

LEMMA PartParticulars ==
    ASSUME NEW p, \A k \in DOMAIN p : IsPart(p[k]), NEW e, NEW k \in DOMAIN FoldPart(p, e)
    PROVE  \/ Registers(e, k) /\ Particulars(FoldPart(p, e)[k], e)
           \/ /\ k \in DOMAIN p
              /\ FoldPart(p, e)[k].kind = p[k].kind /\ FoldPart(p, e)[k].hours = p[k].hours
<1>0. PICK q : q = FoldPart(p, e)
  OBVIOUS
<1> DEFINE d == e.details
<1>1. /\ DOMAIN q = IF e.kind = "component.register" THEN DOMAIN p \cup {e.subject} ELSE DOMAIN p
      /\ \A j \in DOMAIN p : j # e.subject => q[j] = p[j]
  BY <1>0, FoldPartIs
<1>2. CASE k # e.subject
  BY <1>0, <1>1, <1>2
<1>3. CASE k = e.subject /\ e.kind = "component.register"
  <2> DEFINE new == [kind |-> d.kind, since |-> d.since, hours |-> d.hours,
                     cycles |-> d.cycles, windows |-> <<>>, registered |-> e.at]
  <2>1. q[k] = new
    <3>1. q = WithKey(p, k, new)
      BY <1>0, <1>3 DEF FoldPart
    <3> HIDE DEF new
    <3> QED BY <3>1 DEF WithKey
  <2>2. new.kind = d.kind /\ new.hours = d.hours
    OBVIOUS
  <2> HIDE DEF new
  <2> QED BY <1>0, <1>3, <2>1, <2>2 DEF Registers, Particulars
<1>4. CASE k = e.subject /\ e.kind # "component.register"
  <2>1. k \in DOMAIN p /\ IsPart(p[k])
    BY <1>0, <1>1, <1>4
  <2>2. PICK c : c = p[k] /\ IsPart(c)
    BY <2>1
  <2>3. q[k] = c \/ \E w : q[k] = [c EXCEPT !.windows = w]
    <3>1. CASE e.kind = "component.install"
      <4>1. PICK w : w = Append(c.windows, Fitting(e))
        OBVIOUS
      <4>2. q = [p EXCEPT ![k] = [c EXCEPT !.windows = w]]
        BY <1>0, <1>4, <2>1, <2>2, <3>1, <4>1 DEF FoldPart, Fitting
      <4> QED BY <2>1, <4>2
    <3>2. CASE e.kind = "component.remove"
      <4>1. PICK w : w = TakenOff(c.windows, e)
        OBVIOUS
      <4>2. q = [p EXCEPT ![k] = [c EXCEPT !.windows = w]]
        BY <1>0, <1>4, <2>1, <2>2, <3>2, <4>1 DEF FoldPart, TakenOff
      <4> QED BY <2>1, <4>2
    <3>3. CASE e.kind \notin {"component.install", "component.remove"}
      <4>1. q = p
        BY <1>0, <1>4, <3>3 DEF FoldPart
      <4> QED BY <2>2, <4>1
    <3> QED BY <3>1, <3>2, <3>3
  <2>4. \A w : [c EXCEPT !.windows = w].kind = c.kind /\ [c EXCEPT !.windows = w].hours = c.hours
    <3> DEFINE Part(a, b, h, f, g, i) ==
            [kind |-> a, since |-> b, hours |-> h, cycles |-> f, windows |-> g, registered |-> i]
    <3>1. PICK a, b, h, f, g, i : c = Part(a, b, h, f, g, i)
      BY <2>2 DEF IsPart
    <3>2. \A w : [c EXCEPT !.windows = w] = Part(a, b, h, f, w, i)
      BY <3>1
    <3> QED BY <3>1, <3>2
  <2> QED BY <1>0, <2>1, <2>2, <2>3, <2>4
<1> QED BY <1>2, <1>3, <1>4

LEMMA FoldParticulars ==
    ASSUME NEW n \in Nat, NEW E, Shaped(E, n), NEW S \in SUBSET E, NEW k,
           k \in DOMAIN Fold(E, S).parts
    PROVE  \E g \in S : Registers(g, k) /\ Particulars(Fold(E, S).parts[k], g)
<1> DEFINE Good(s) == k \in DOMAIN Fold(E, s).parts =>
                          \E g \in s : Registers(g, k) /\ Particulars(Fold(E, s).parts[k], g)
           G == {s \in SUBSET S : Good(s)}
<1>1. {} \in G
  <2>1. PICK r : r = Fold(E, {}) /\ r = NoRecords
    BY FoldStep
  <2>2. DOMAIN r.parts = {}
    BY <2>1 DEF NoRecords
  <2> QED BY <2>1, <2>2
<1>2. ASSUME NEW s \in SUBSET S, s # {}, s \ {LastInFold(E, s)} \in G PROVE s \in G
  <2>1. PICK l : l = LastInFold(E, s)
    OBVIOUS
  <2>2. PICK rest \in SUBSET E : rest = s \ {l} /\ rest \in G
    BY <1>2, <2>1
  <2>3. s \in SUBSET E
    OBVIOUS
  <2>4. l \in s /\ Fold(E, s) = Folded(Fold(E, rest), l)
    BY <1>2, <2>1, <2>2, <2>3, FoldStep
  <2>5. PICK r : r = Fold(E, rest)
    OBVIOUS
  <2>6. AreRecords(r) /\ PartsAre(r)
    BY <2>2, <2>5, FoldPartsAre
  <2>7. PICK q : q = Folded(r, l)
    OBVIOUS
  <2>8. PICK p : p = r.parts /\ \A j \in DOMAIN p : IsPart(p[j])
    BY <2>6 DEF PartsAre
  <2>9. q.parts = IF l.kind \in ComponentKinds THEN FoldPart(p, l) ELSE p
    BY <2>6, <2>7, <2>8, FoldedParts
  <2>10. ASSUME k \in DOMAIN q.parts
         PROVE  \E g \in s : Registers(g, k) /\ Particulars(q.parts[k], g)
    <3>1. PICK c : c = q.parts[k]
      OBVIOUS
    <3>2. \/ Registers(l, k) /\ Particulars(c, l)
          \/ k \in DOMAIN p /\ c.kind = p[k].kind /\ c.hours = p[k].hours
      BY <2>8, <2>9, <2>10, <3>1, PartParticulars
    <3>3. CASE k \in DOMAIN p /\ c.kind = p[k].kind /\ c.hours = p[k].hours
      <4>1. PICK g \in rest : Registers(g, k) /\ Particulars(p[k], g)
        BY <2>2, <2>5, <2>8, <3>3
      <4> QED BY <2>2, <3>1, <3>3, <4>1 DEF Particulars
    <3> QED BY <2>4, <3>1, <3>2, <3>3
  <2> QED BY <2>4, <2>5, <2>7, <2>10
<1>3. Gathers(E, S, G)
  BY <1>1, <1>2 DEF Gathers
<1>4. S \in G
  <2> HIDE DEF G
  <2> QED BY <1>3, FoldInduction
<1> QED BY <1>4

\* A part fitted and not taken off later is fitted in the records.
LEMMA FoldFitted ==
    ASSUME NEW n \in Nat, NEW E, Shaped(E, n), FitsAll(E), NoClash(E), NEW keys,
           NEW t \in Int, NEW S, S \subseteq Live(E), \A x \in S : Entered(x, keys) /\ x.at <= t,
           NEW e \in S, e.kind = "component.install",
           NEW g \in S, Registers(g, e.subject), Earlier(E, g, e),
           \A x \in S : x.kind = "component.remove" /\ x.subject = e.subject => ~Earlier(E, e, x)
    PROVE  /\ e.subject \in DOMAIN Fold(E, S).parts
           /\ \E i \in DOMAIN Fold(E, S).parts[e.subject].windows :
                 Fold(E, S).parts[e.subject].windows[i] = Fitting(e)
<1> DEFINE k == e.subject
<1> DEFINE Has(r) == \E i \in DOMAIN r.parts[k].windows : r.parts[k].windows[i] = Fitting(e)
<1> DEFINE Good(s) == e \in s /\ g \in s => Has(Fold(E, s))
           G == {s \in SUBSET S : Good(s)}
<1>0. S \in SUBSET E /\ Live(E) \subseteq E
  BY LiveIs
<1>1. {} \in G
  OBVIOUS
<1>2. ASSUME NEW s \in SUBSET S, s # {}, s \ {LastInFold(E, s)} \in G, e \in s, g \in s
      PROVE  Has(Fold(E, s))
  <2>1. PICK l : l = LastInFold(E, s)
    OBVIOUS
  <2>2. PICK rest \in SUBSET E : rest = s \ {l} /\ rest \in G
    BY <1>0, <1>2, <2>1
  <2>3. s \in SUBSET E
    BY <1>0
  <2>4. l \in s /\ Fold(E, s) = Folded(Fold(E, rest), l)
    BY <1>2, <2>1, <2>2, <2>3, FoldStep
  <2>5. PICK r : r = Fold(E, rest)
    OBVIOUS
  <2>6. AreRecords(r) /\ PartsAre(r)
    BY <2>2, <2>5, FoldPartsAre
  <2>7. RecordsKept(r, keys, t)
    <3>1. \A x \in rest : Entered(x, keys) /\ x.at <= t
      BY <2>2
    <3> QED BY <2>2, <2>5, <3>1, FoldKept
  <2>8. PICK q : q = Folded(r, l)
    OBVIOUS
  <2>9. PICK p : p = r.parts /\ \A j \in DOMAIN p : IsPart(p[j])
    BY <2>6 DEF PartsAre
  <2>10. q.parts = IF l.kind \in ComponentKinds THEN FoldPart(p, l) ELSE p
    BY <2>6, <2>8, <2>9, FoldedParts
  <2>11. \A x \in s \ {l} : Before(E, x, l)
    <3>1. IsLast(E, s, l)
      BY <1>2, <2>1, <2>3, LastIs
    <3> QED BY <3>1 DEF IsLast
  <2>12. l # g
    <3>1. e # g
      BY DEF Registers
    <3>2. ~Before(E, e, g)
      BY <1>0, EarlierBefore
    <3> QED BY <1>2, <2>11, <3>1, <3>2
  <2>13. k \in DOMAIN p
    <3>1. Shows(r, g)
      <4>1. g \in rest
        BY <1>2, <2>2, <2>12
      <4> QED BY <2>2, <2>5, <4>1, FoldShows
    <3> QED BY <2>9, <3>1 DEF Shows, Registers
  <2>14. PICK w : w = p[k].windows
    OBVIOUS
  <2>15. w \in Seq(Windows(keys))
    BY <2>7, <2>9, <2>13, <2>14 DEF RecordsKept, PartKept
  <2>16. CASE l = e
    <3>1. l.kind \in ComponentKinds
      BY <2>16 DEF ComponentKinds
    <3>2. PICK v : v = Append(w, Fitting(e))
      OBVIOUS
    <3>3. q.parts[k].windows = v
      <4>1. FoldPart(p, e)[k].windows = v
        BY <2>9, <2>13, <2>14, <3>2, FoldPartAt
      <4> QED BY <2>10, <2>16, <3>1, <4>1
    <3>4. Len(w) + 1 \in DOMAIN v /\ v[Len(w) + 1] = Fitting(e)
      BY <2>15, <3>2
    <3> QED BY <2>4, <2>5, <2>8, <3>3, <3>4
  <2>17. CASE l # e
    <3>1. PICK i \in DOMAIN w : w[i] = Fitting(e)
      <4>1. e \in rest /\ g \in rest
        BY <1>2, <2>2, <2>12, <2>17
      <4> QED BY <2>2, <2>5, <2>9, <2>14, <4>1
    <3>2. CASE l.kind \notin ComponentKinds
      BY <2>4, <2>5, <2>8, <2>9, <2>10, <2>14, <3>1, <3>2
    <3>3. CASE l.kind \in ComponentKinds /\ l.subject # k
      <4>1. FoldPart(p, l)[k] = p[k]
        BY <2>13, <3>3, FoldPartIs
      <4> QED BY <2>4, <2>5, <2>8, <2>10, <2>14, <3>1, <3>3, <4>1
    <3>4. CASE l.kind = "component.register" /\ l.subject = k
      <4>1. l \in Live(E) /\ g \in Live(E)
        BY <2>4
      <4>2. Clash(l, g)
        BY <3>4 DEF Clash, Registers
      <4> QED BY <2>12, <4>1, <4>2 DEF NoClash
    <3>5. CASE l.kind = "component.install" /\ l.subject = k
      <4>1. PICK v : v = Append(w, Fitting(l))
        OBVIOUS
      <4>2. q.parts[k].windows = v
        <5>1. FoldPart(p, l)[k].windows = v
          <6>1. l.subject \in DOMAIN p /\ l.subject = k /\ l.kind = "component.install"
            BY <2>13, <3>5
          <6>2. FoldPart(p, l)[l.subject].windows = Append(p[l.subject].windows, Fitting(l))
            BY <2>9, <6>1, FoldPartAt
          <6> QED BY <2>14, <4>1, <6>1, <6>2
        <5> QED BY <2>10, <3>5, <5>1 DEF ComponentKinds
      <4>3. i \in DOMAIN v /\ v[i] = w[i]
        BY <2>15, <3>1, <4>1
      <4> QED BY <2>4, <2>5, <2>8, <3>1, <4>2, <4>3
    <3>6. CASE l.kind = "component.remove" /\ l.subject = k
      <4>1. l \in Live(E) /\ e \in Live(E) /\ ~Earlier(E, e, l)
        BY <2>4, <3>6
      <4>2. Before(E, e, l)
        BY <1>2, <2>11, <2>17
      <4>3. FoldKey(E, e) = FoldKey(E, l)
        BY <1>0, <4>1, <4>2, EarlierBefore
      <4>4. Prior(E, e) = Prior(E, l)
        BY <4>3 DEF Prior, Earlier
      <4>5. PICK z : z = ProjectBefore(E, e) /\ z = ProjectBefore(E, l)
        BY <4>4, BeforeIs
      <4>6. Fits(z, e) /\ Fits(z, l)
        BY <4>1, <4>5 DEF FitsAll
      <4> QED BY <3>6, <4>6 DEF Fits
    <3> QED BY <3>2, <3>3, <3>4, <3>5, <3>6 DEF ComponentKinds
  <2> QED BY <2>16, <2>17
<1>3. Gathers(E, S, G)
  BY <1>1, <1>2 DEF Gathers
<1>4. S \in G
  <2> HIDE DEF G
  <2> QED BY <1>0, <1>3, FoldInduction
<1>5. k \in DOMAIN Fold(E, S).parts
  <2>1. Shows(Fold(E, S), g)
    BY <1>0, FoldShows
  <2> QED BY <2>1 DEF Shows, Registers
<1> QED BY <1>4, <1>5

\* A part has flown at least its hours at registration and those of any one window.
LEMMA PartHoursCover ==
    ASSUME NEW logs, \A key \in DOMAIN logs : Logged(logs[key]),
           NEW c, PartKept(c, DOMAIN logs), NEW t, NEW i \in DOMAIN c.windows
    PROVE  c.hours + WindowHours(logs, c.windows[i], t) <= PartHours(logs, c, t)
<1>1. PICK w \in Seq(Windows(DOMAIN logs)) : w = c.windows
  BY DEF PartKept
<1>2. IsFiniteSet(DOMAIN w) /\ \A j \in DOMAIN w : w[j].aircraft \in DOMAIN logs
  <2>1. DOMAIN w = 1..Len(w) /\ Len(w) \in Nat
    OBVIOUS
  <2>2. \A j \in DOMAIN w : w[j] \in Windows(DOMAIN logs)
    OBVIOUS
  <2> QED BY <2>1, <2>2, FS_Interval DEF Windows
<1>3. PICK h : h = [j \in DOMAIN w |-> WindowHours(logs, w[j], t)]
  OBVIOUS
<1>4. \A j \in DOMAIN w : h[j] \in Nat
  BY <1>2, <1>3, WindowIs
<1>5. DOMAIN h = DOMAIN w /\ Summable(h, DOMAIN w)
  BY <1>2, <1>3, <1>4 DEF Summable
<1>6. PICK H : H = SumFunction(h) /\ H = Total(h, DOMAIN w)
  BY <1>5, SumIs
<1>7. h[i] <= H /\ H \in Int /\ h[i] \in Nat
  <2>1. i \in DOMAIN w
    BY <1>1
  <2>2. H = h[i] + Total(h, DOMAIN w \ {i}) /\ H \in Int
    BY <1>5, <1>6, <2>1, TotalOut
  <2>3. Total(h, DOMAIN w \ {i}) \in Nat
    <3>1. IsFiniteSet(DOMAIN w \ {i})
      BY <1>2, FS_Subset
    <3> QED BY <1>4, <3>1, TotalNat
  <2>4. PICK T \in Nat : T = Total(h, DOMAIN w \ {i})
    BY <2>3
  <2>5. h[i] \in Nat
    BY <1>4, <2>1
  <2> QED BY <2>2, <2>4, <2>5
<1>8. PICK a \in Nat : a = c.hours
  BY DEF PartKept
<1>9. PartHours(logs, c, t) = a + H
  BY <1>1, <1>3, <1>6, <1>8 DEF PartHours
<1>10. WindowHours(logs, c.windows[i], t) = h[i]
  BY <1>1, <1>3
<1> QED BY <1>7, <1>8, <1>9, <1>10

\* The dated flight since a part was fitted is flown in the window that opened.
LEMMA FittedCover ==
    ASSUME NEW logs, NEW e, Logged(logs[e.details.aircraft]), e.at \in Nat, NEW t
    PROVE  MapThenSumSet(Seconds,
               {r \in Flown(logs[e.details.aircraft], t, FALSE) : r.start >= e.at})
           <= WindowHours(logs, Fitting(e), t)
<1>1. PICK l : l = logs[e.details.aircraft] /\ Logged(l)
  OBVIOUS
<1>2. PICK w : w = Fitting(e)
  OBVIOUS
<1>3. w.aircraft = e.details.aircraft /\ w.from = e.at /\ w.to = None
  BY <1>2 DEF Fitting
<1>4. PICK F : F = {r \in Flown(l, t, FALSE) : r.start >= e.at}
  OBVIOUS
<1>5. PICK S : S = {r \in Flown(l, t, TRUE) : InWindow(r.start, w)}
  OBVIOUS
<1>6. PICK U : U = {f \in Unlogged(l, t, TRUE) : InWindow(f.after.start, w)}
  OBVIOUS
<1>7. F \subseteq S
  <2> SUFFICES ASSUME NEW r \in F PROVE r \in S
    OBVIOUS
  <2>1. r \in l \ Duplicates(l) /\ Counted(r, t, FALSE) /\ r.start >= e.at
    BY <1>4 DEF Flown
  <2>2. Known(r.start)
    BY <2>1 DEF Counted, LogEnd, Known
  <2>3. Counted(r, t, TRUE)
    BY <2>1 DEF Counted
  <2>4. r.start \in Nat
    BY <1>1, <2>1, <2>2, RecordIs DEF Known
  <2>5. InWindow(r.start, w)
    BY <1>3, <2>1, <2>2, <2>4 DEF InWindow
  <2> QED BY <1>5, <2>1, <2>3, <2>5 DEF Flown
<1>8. S \in SUBSET l /\ U \in SUBSET UnloggedFlights(l)
  BY <1>5, <1>6 DEF Flown, Unlogged
<1>9. PICK a, b, f : /\ a = MapThenSumSet(Seconds, S)
                     /\ b = MapThenSumSet(LAMBDA x : x.seconds, U)
                     /\ f = MapThenSumSet(Seconds, F)
  OBVIOUS
<1>10. a \in Nat
  BY <1>1, <1>8, <1>9, FlownIs
<1>11. b \in Nat
  BY <1>1, <1>8, <1>9, UncoveredIs
<1>12. f <= a
  BY <1>1, <1>7, <1>8, <1>9, SecondsWithin
<1>13. f \in Nat
  <2>1. F \in SUBSET l
    BY <1>7, <1>8
  <2> QED BY <1>1, <1>9, <2>1, FlownIs
<1>14. WindowHours(logs, w, t) = a + b
  BY <1>1, <1>3, <1>5, <1>6, <1>9 DEF WindowHours
<1>15. f <= a + b
  BY <1>10, <1>11, <1>12, <1>13
<1> QED BY <1>1, <1>2, <1>4, <1>9, <1>14, <1>15

\* A part past a limit in hours shows it overdue.
LEMMA HoursItemOverdue ==
    ASSUME NEW logs, \A key \in DOMAIN logs : Logged(logs[key]),
           NEW c, PartKept(c, DOMAIN logs), NEW t, NEW id,
           "hours" \in DOMAIN PartRules[c.kind].limits,
           PartHours(logs, c, t) >= PartRules[c.kind].limits["hours"]
    PROVE  \E i \in PartItems(logs, id, c, t) : i.state = "overdue"
<1>1. c.kind \in DOMAIN PartRules
  BY DEF PartKept
<1>2. PICK limits : limits = PartRules[c.kind].limits
  OBVIOUS
<1>3. PICK limit \in Int : limit = limits["hours"]
  BY <1>1, <1>2, LifeAssumption DEF Policy, Limited
<1>4. PICK h \in Nat : h = PartHours(logs, c, t)
  BY PartUsageIs
<1>5. PICK x \in Int : x = limit - h
  OBVIOUS
<1>6. h >= limit
  BY <1>2, <1>3, <1>4
<1>7. x <= 0
  BY <1>5, <1>6
<1>8. PICK i : i = PartItem(logs, id, c, "hours", limit, t)
  OBVIOUS
<1>9. i = Item(id, c.kind, "hours", x, "overdue")
  BY <1>4, <1>5, <1>7, <1>8 DEF PartItem
<1>10. i.state = "overdue"
  BY <1>9 DEF Item
<1>11. i \in PartItems(logs, id, c, t)
  BY <1>1, <1>2, <1>3, <1>8 DEF PartItems
<1> QED BY <1>10, <1>11

LEMMA NothingOpen ==
    ASSUME TypedInv, NEW key, NEW t \in Nat, StatusAt(flights, entries, key, t) = "serviceable"
    PROVE  OpenThen(key, t) = {}
<1>1. PICK n : n = Cardinality(entries)
  OBVIOUS
<1>2. n \in Nat /\ Shaped(entries, n)
  BY <1>1, FS_CardinalityType DEF TypedInv, RecordsInv, LedgerInv, LedgerHolds, Shaped
<1>3. PICK S : S = {e \in Live(entries) : e.at <= t}
  OBVIOUS
<1>4. S \in SUBSET entries
  BY <1>2, <1>3, LiveIs
<1>5. \A e \in S : Entered(e, DOMAIN flights)
  BY <1>4 DEF TypedInv, Kept
<1>6. PICK r : r = Fold(entries, S) /\ r = ProjectAsOf(entries, t)
  BY <1>3 DEF ProjectAsOf
<1>7. PICK D : D = DueList(flights, r, key, t)
  OBVIOUS
<1>8. D.hasRecord \in BOOLEAN
  BY <1>7, DueIs
<1>9. Board(D) = "serviceable"
  BY <1>6, <1>7 DEF StatusAt, DueAt
<1> SUFFICES ASSUME NEW w \in OpenThen(key, t) PROVE FALSE
  OBVIOUS
<1>10. (\E e \in S : Opens(e, key, w)) /\ \A e \in S : ~Closes(e, key, w)
  BY <1>3 DEF OpenThen, Opens, Closes
<1>11. key \in DOMAIN r.aircraft /\ Stands(AircraftOn(r, key), w)
  BY <1>2, <1>4, <1>5, <1>6, <1>10, FoldStands
<1>12. PICK a : a = r.aircraft[key] /\ Stands(a, w)
  BY <1>11 DEF AircraftOn
<1>13. D.orders = OrdersOf(a)
  BY <1>7, <1>11, <1>12, DueIs
<1>14. PICK x, y : y \in WorkStates /\ a.orders[w] = Row(x, y, None)
  BY <1>12 DEF Stands
<1>15. a.orders[w].closed = None /\ a.orders[w].state = y
  BY <1>14 DEF Row
<1>16. w \in DOMAIN D.orders /\ D.orders[w] = y
  <2>1. w \in OpenOrders(a)
    BY <1>12, <1>15 DEF OpenOrders, Stands
  <2> QED BY <1>13, <1>15, <2>1 DEF OrdersOf
<1>17. y \in OrderStates(D)
  BY <1>16 DEF OrderStates
<1> QED BY <1>8, <1>9, <1>14, <1>17, ServiceableIs

LEMMA NothingPastLife ==
    ASSUME TypedInv, NEW key \in DOMAIN flights, NEW t \in Nat,
           StatusAt(flights, entries, key, t) = "serviceable",
           NEW c, NEW e \in FittedThen(c, t), e.details.aircraft = key,
           "hours" \in DOMAIN PartRules[Project(entries).parts[c].kind].limits
    PROVE  Project(entries).parts[c].hours + FlownSinceFitted(e, t)
               < PartRules[Project(entries).parts[c].kind].limits["hours"]
<1>1. PICK n : n = Cardinality(entries)
  OBVIOUS
<1>2. /\ n \in Nat /\ Shaped(entries, n) /\ FitsAll(entries) /\ NoClash(entries)
      /\ Live(entries) \subseteq entries
  <2>1. n \in Nat /\ Shaped(entries, n) /\ FitsAll(entries) /\ NoClash(entries)
    BY <1>1, FS_CardinalityType DEF TypedInv, RecordsInv, LedgerInv, LedgerHolds, Shaped
  <2> QED BY <2>1, LiveIs
<1>3. PICK S : S = {x \in Live(entries) : x.at <= t}
  OBVIOUS
<1>4. S \in SUBSET entries /\ S \subseteq Live(entries)
  BY <1>2, <1>3
<1>5. \A x \in entries : Entered(x, DOMAIN flights)
  BY DEF TypedInv, Kept
<1>6. PICK r : r = Fold(entries, S) /\ r = ProjectAsOf(entries, t)
  BY <1>3 DEF ProjectAsOf
<1>7. /\ e \in Live(entries) /\ e \in entries /\ e.kind = "component.install" /\ e.subject = c
      /\ e.at <= t /\ e \in S /\ e.at \in Nat
      /\ \A x \in S : x.kind = "component.remove" /\ x.subject = c => ~Earlier(entries, e, x)
  <2>1. /\ e \in Live(entries) /\ e.kind = "component.install" /\ e.subject = c /\ e.at <= t
        /\ \A x \in S : x.kind = "component.remove" /\ x.subject = c => ~Earlier(entries, e, x)
    BY <1>3 DEF FittedThen, Earlier
  <2> QED BY <1>2, <1>3, <2>1 DEF Shaped
<1>8. PICK g \in Prior(entries, e) : Registers(g, c)
  <2>1. Prior(entries, e) \in SUBSET entries
    BY <1>2 DEF Prior
  <2>2. c \in DOMAIN Fold(entries, Prior(entries, e)).parts
    BY <1>2, <1>7, BeforeIs DEF FitsAll, Fits
  <2> QED BY <1>2, <2>1, <2>2, FoldParticulars
<1>9. g \in Live(entries) /\ g \in entries /\ Earlier(entries, g, e)
  BY <1>2, <1>8 DEF Prior
<1>10. g \in S
  <2>1. g.at <= e.at /\ g.at \in Nat
    BY <1>2, <1>7, <1>9, EarlierIs
  <2> QED BY <1>3, <1>7, <1>9, <2>1
<1>11. \A x \in Live(entries) : Registers(x, c) => x = g
  BY <1>2, <1>8, <1>9 DEF NoClash, Clash, Registers
<1>12. /\ c \in DOMAIN r.parts
       /\ \E i \in DOMAIN r.parts[c].windows : r.parts[c].windows[i] = Fitting(e)
  <2>1. PICK keys : keys = DOMAIN flights
    OBVIOUS
  <2>2. \A x \in S : Entered(x, keys) /\ x.at <= t
    BY <1>3, <1>4, <1>5, <2>1
  <2>3. Registers(g, e.subject)
    BY <1>7, <1>8
  <2>4. \A x \in S : x.kind = "component.remove" /\ x.subject = e.subject
                        => ~Earlier(entries, e, x)
    BY <1>7
  <2>5. t \in Int /\ S \subseteq Live(entries) /\ e \in S /\ g \in S
        /\ Earlier(entries, g, e) /\ e.kind = "component.install"
    BY <1>4, <1>7, <1>9, <1>10
  <2>6. ASSUME NEW S1, S1 \subseteq Live(entries),
               \A x \in S1 : Entered(x, keys) /\ x.at <= t,
               NEW e1 \in S1, e1.kind = "component.install",
               NEW g1 \in S1, Registers(g1, e1.subject), Earlier(entries, g1, e1),
               \A x \in S1 : x.kind = "component.remove" /\ x.subject = e1.subject
                               => ~Earlier(entries, e1, x)
        PROVE  /\ e1.subject \in DOMAIN Fold(entries, S1).parts
               /\ \E i \in DOMAIN Fold(entries, S1).parts[e1.subject].windows :
                     Fold(entries, S1).parts[e1.subject].windows[i] = Fitting(e1)
    <3>1. n \in Nat /\ Shaped(entries, n) /\ FitsAll(entries) /\ NoClash(entries) /\ t \in Int
      BY <1>2, <2>5
    <3> QED BY <2>6, <3>1, FoldFitted, Z3T(30)
  <2>7. /\ e.subject \in DOMAIN Fold(entries, S).parts
        /\ \E i \in DOMAIN Fold(entries, S).parts[e.subject].windows :
              Fold(entries, S).parts[e.subject].windows[i] = Fitting(e)
    BY <2>2, <2>3, <2>4, <2>5, <2>6
  <2> QED BY <1>6, <1>7, <2>7
<1>13. PICK p : p = r.parts[c]
  OBVIOUS
<1>14. Particulars(p, g)
  BY <1>2, <1>4, <1>6, <1>11, <1>12, <1>13, FoldParticulars
<1>15. PICK whole : whole = Project(entries).parts[c]
  OBVIOUS
<1>16. Particulars(whole, g)
  <2>1. Live(entries) \in SUBSET entries
    BY <1>2
  <2>2. Shows(Fold(entries, Live(entries)), g)
    BY <1>2, <1>9, <2>1, FoldShows
  <2>3. c \in DOMAIN Fold(entries, Live(entries)).parts
    BY <1>8, <2>2 DEF Shows, Registers
  <2> QED BY <1>2, <1>11, <1>15, <2>1, <2>3, FoldParticulars DEF Project
<1>17. p.kind = whole.kind /\ p.hours = whole.hours
  BY <1>14, <1>16 DEF Particulars
<1>18. PartKept(p, DOMAIN flights)
  BY <1>6, <1>12, <1>13, RecordsAt DEF RecordsKept
<1>19. \A k \in DOMAIN flights : Logged(flights[k])
  BY DEF TypedInv
<1>20. PICK i \in DOMAIN p.windows : p.windows[i] = Fitting(e)
  BY <1>12, <1>13
<1>21. c \in InstalledParts(r, key, t)
  <2>1. Known(t)
    BY FlightLogsAssumption DEF Known
  <2>2. Fitting(e).aircraft = key /\ Fitting(e).from = e.at /\ Fitting(e).to = None
    BY DEF Fitting
  <2>3. InWindow(t, Fitting(e))
    BY <1>7, <2>1, <2>2 DEF InWindow
  <2>4. InstalledOn(p, key, t)
    BY <1>20, <2>2, <2>3 DEF InstalledOn
  <2> QED BY <1>12, <1>13, <2>4 DEF InstalledParts
<1>22. PICK D : D = DueList(flights, r, key, t)
  OBVIOUS
<1>23. \A x \in PartItems(flights, c, p, t) : x.state # "overdue"
  <2>1. D.hasRecord \in BOOLEAN /\ PartItems(flights, c, p, t) \subseteq D.items
    BY <1>13, <1>21, <1>22, DueIs
  <2>2. Board(D) = "serviceable"
    BY <1>6, <1>22 DEF StatusAt, DueAt
  <2>3. "overdue" \notin ItemStates(D)
    BY <2>1, <2>2, ServiceableIs
  <2> QED BY <2>1, <2>3 DEF ItemStates
<1>24. PICK limit : limit = PartRules[p.kind].limits["hours"]
  OBVIOUS
<1>25. ~(PartHours(flights, p, t) >= limit)
  <2>1. "hours" \in DOMAIN PartRules[p.kind].limits
    BY <1>15, <1>17
  <2> QED BY <1>18, <1>19, <1>23, <1>24, <2>1, HoursItemOverdue
<1>26. PICK H \in Nat : H = PartHours(flights, p, t)
  BY <1>18, <1>19, PartUsageIs
<1>27. PICK h \in Nat : h = p.hours
  BY <1>18 DEF PartKept
<1>28. PICK W : W = WindowHours(flights, Fitting(e), t)
  OBVIOUS
<1>29. PICK F : F = FlownSinceFitted(e, t)
  OBVIOUS
<1>30. F <= W
  BY <1>7, <1>19, <1>28, <1>29, FittedCover DEF FlownSinceFitted
<1>31. W \in Nat
  <2>1. Fitting(e).aircraft = key
    BY DEF Fitting
  <2> QED BY <1>19, <1>28, <2>1, WindowIs
<1>32. F \in Nat
  <2>1. {x \in Flown(flights[key], t, FALSE) : x.start >= e.at} \in SUBSET flights[key]
    BY DEF Flown
  <2>2. Logged(flights[key])
    BY <1>19
  <2>3. FlownSinceFitted(e, t)
           = MapThenSumSet(Seconds, {x \in Flown(flights[key], t, FALSE) : x.start >= e.at})
    BY DEF FlownSinceFitted
  <2> QED BY <1>29, <2>1, <2>2, <2>3, FlownIs
<1>33. h + W <= H
  BY <1>18, <1>19, <1>20, <1>26, <1>27, <1>28, PartHoursCover
<1>34. limit \in Int
  <2>1. p.kind \in DOMAIN PartRules /\ "hours" \in DOMAIN PartRules[p.kind].limits
    BY <1>15, <1>17, <1>18 DEF PartKept
  <2> QED BY <1>24, <2>1, LifeAssumption DEF Policy, Limited
<1>35. h + F < limit
  BY <1>25, <1>26, <1>27, <1>30, <1>31, <1>32, <1>33, <1>34
<1> QED BY <1>15, <1>17, <1>24, <1>27, <1>29, <1>35

\* Whatever was entered, corrected, retracted and brought back, and whatever was uploaded: at
\* any date the board answers serviceable only when no work order then open is left and no
\* part then fitted has flown its life in hours, both counted from the live entries themselves
\* (life/engine.py board, _component_items, component_usage; ledger/project.py).
LEMMA ServiceableCounted ==
    ASSUME TypedInv
    PROVE  ServiceableMeansCounted
<1> SUFFICES ASSUME NEW key \in DOMAIN flights, NEW t \in Dates,
                    StatusAt(flights, entries, key, t) = "serviceable"
             PROVE  /\ OpenThen(key, t) = {}
                    /\ \A c \in {e.subject : e \in entries} : \A e \in FittedThen(c, t) :
                          e.details.aircraft = key =>
                              LET part == Project(entries).parts[c]
                                  rule == PartRules[part.kind]
                              IN  "hours" \in DOMAIN rule.limits =>
                                      part.hours + FlownSinceFitted(e, t) < rule.limits["hours"]
  BY DEF ServiceableMeansCounted
<1>1. t \in Nat
  BY TopicsAssumption DEF Dates
<1>2. OpenThen(key, t) = {}
  BY <1>1, NothingOpen
<1>3. ASSUME NEW c, NEW e \in FittedThen(c, t), e.details.aircraft = key,
             "hours" \in DOMAIN PartRules[Project(entries).parts[c].kind].limits
      PROVE  Project(entries).parts[c].hours + FlownSinceFitted(e, t)
                 < PartRules[Project(entries).parts[c].kind].limits["hours"]
  BY <1>1, <1>3, NothingPastLife
<1> QED BY <1>2, <1>3

\* h holds the logs of g under m: the same logs, but for how much was flown in them.
Renames(m, g, h) ==
    /\ h = {m[x] : x \in g}
    /\ \A x, y \in g : m[x] = m[y] => x = y
    /\ \A x \in g :
          /\ m[x].ref = x.ref /\ m[x].source = x.source
          /\ m[x].start = x.start /\ m[x].span = x.span
          /\ m[x].boot = x.boot /\ m[x].lifetime = x.lifetime
          /\ Known(m[x].flight) = Known(x.flight)

LEMMA RenamesPart ==
    ASSUME NEW m, NEW g, NEW h, Renames(m, g, h), NEW s \in SUBSET g
    PROVE  Renames(m, s, {m[x] : x \in s})
BY DEF Renames

\* In an order no two places hold as many before them.
LEMMA RankUnique ==
    ASSUME NEW S, IsFiniteSet(S), NEW R, Orders(R, S), NEW x \in S, NEW y \in S,
           Cardinality(Under(R, S, x)) = Cardinality(Under(R, S, y))
    PROVE  x = y
<1>1. ASSUME NEW a \in S, NEW b \in S, R[<<a, b>>]
      PROVE  Cardinality(Under(R, S, a)) < Cardinality(Under(R, S, b))
  <2>1. Under(R, S, a) \subseteq Under(R, S, b) \ {a} /\ a \in Under(R, S, b)
    BY <1>1 DEF Orders, Under
  <2>2. IsFiniteSet(Under(R, S, a)) /\ IsFiniteSet(Under(R, S, b))
    BY FS_Subset DEF Under
  <2>3. /\ Cardinality(Under(R, S, b) \ {a}) = Cardinality(Under(R, S, b)) - 1
        /\ IsFiniteSet(Under(R, S, b) \ {a})
    BY <2>1, <2>2, FS_RemoveElement
  <2>4. Cardinality(Under(R, S, a)) <= Cardinality(Under(R, S, b) \ {a})
    BY <2>1, <2>3, FS_Subset
  <2>5. Cardinality(Under(R, S, a)) \in Nat /\ Cardinality(Under(R, S, b)) \in Nat
    BY <2>2, FS_CardinalityType
  <2> QED BY <2>3, <2>4, <2>5
<1>2. Cardinality(Under(R, S, x)) \in Nat
  <2>1. IsFiniteSet(Under(R, S, x))
    BY FS_Subset DEF Under
  <2> QED BY <2>1, FS_CardinalityType
<1> SUFFICES ASSUME x # y PROVE FALSE
  OBVIOUS
<1>3. R[<<x, y>>] \/ R[<<y, x>>]
  BY DEF Orders
<1> QED BY <1>1, <1>2, <1>3

LEMMA SameSize ==
    ASSUME NEW S, IsFiniteSet(S), NEW m, \A x, y \in S : m[x] = m[y] => x = y
    PROVE  Cardinality({m[x] : x \in S}) = Cardinality(S)
<1> DEFINE T == {m[x] : x \in S}
<1> DEFINE f == [x \in S |-> m[x]]
<1>1. f \in Bijection(S, T)
  BY DEF Bijection, Injection, Surjection, IsInjective
<1> HIDE DEF T, f
<1>2. ExistsBijection(S, T)
  BY <1>1 DEF ExistsBijection
<1>3. Cardinality(T) = Cardinality(S)
  BY <1>2, FS_Bijection
<1> QED BY <1>3 DEF T

\* They come in the same order.
LEMMA OrderedRenamed ==
    ASSUME NEW m, NEW g, NEW h, Logged(g), Logged(h), Renames(m, g, h)
    PROVE  Ordered(h) = [n \in DOMAIN Ordered(g) |-> m[Ordered(g)[n]]]
<1> DEFINE R(s) == [p \in s \X s |-> Precedes(Placed(s, p[1]), Placed(s, p[2]))]
<1> DEFINE Below(s, x) == {y \in s : Precedes(Placed(s, y), Placed(s, x))}
<1> DEFINE At(s, n) == CHOOSE x \in s : Cardinality(Below(s, x)) = n - 1
<1>1. \A s : Ordered(s) = [n \in 1..Cardinality(s) |-> At(s, n)]
  BY DEF Ordered, SortedBy, Placed
<1>2. ASSUME NEW s, Logged(s), NEW n \in 1..Cardinality(s)
      PROVE  At(s, n) \in s /\ Cardinality(Below(s, At(s, n))) = n - 1
  <2>1. Orders(R(s), s) /\ IsFiniteSet(s)
    BY <1>2, PlacesOrder DEF Logged
  <2>2. \A x \in s : Under(R(s), s, x) = Below(s, x)
    BY DEF Under
  <2> HIDE DEF R, Below
  <2>3. PICK x \in s : Cardinality(Under(R(s), s, x)) = n - 1
    BY <2>1, RankExists
  <2>4. Cardinality(Below(s, x)) = n - 1
    BY <2>2, <2>3
  <2> QED BY <2>4
<1>3. ASSUME NEW s, Logged(s), NEW x \in s, NEW y \in s,
             Cardinality(Below(s, x)) = Cardinality(Below(s, y))
      PROVE  x = y
  <2>1. Orders(R(s), s) /\ IsFiniteSet(s)
    BY <1>3, PlacesOrder DEF Logged
  <2>2. \A z \in s : Under(R(s), s, z) = Below(s, z)
    BY DEF Under
  <2> HIDE DEF R, Below
  <2>3. Cardinality(Under(R(s), s, x)) = Cardinality(Under(R(s), s, y))
    BY <1>3, <2>2
  <2> QED BY <2>1, <2>3, RankUnique
<1>4. Cardinality(h) = Cardinality(g) /\ IsFiniteSet(g)
  <2>1. IsFiniteSet(g) /\ h = {m[x] : x \in g} /\ \A x, y \in g : m[x] = m[y] => x = y
    BY DEF Renames, Logged
  <2> QED BY <2>1, SameSize
<1>5. ASSUME NEW x \in g PROVE m[x] \in h /\ Placed(h, m[x]) = Placed(g, x)
  <2>1. Booted(h) = Booted(g)
    BY DEF Renames, Booted
  <2>2. StorePlace(m[x]) = StorePlace(x) /\ m[x].boot = x.boot
    BY DEF Renames, StorePlace
  <2> QED BY <2>1, <2>2 DEF Placed, Renames
<1>6. ASSUME NEW x \in g PROVE Cardinality(Below(h, m[x])) = Cardinality(Below(g, x))
  <2>1. Below(h, m[x]) = {m[y] : y \in Below(g, x)}
    <3>1. h = {m[y] : y \in g}
      BY DEF Renames
    <3>2. \A y \in g : m[y] \in Below(h, m[x]) <=> y \in Below(g, x)
      BY <1>5
    <3> QED BY <3>1, <3>2
  <2>2. IsFiniteSet(Below(g, x)) /\ Below(g, x) \in SUBSET g
    BY <1>4, FS_Subset
  <2> HIDE DEF Below
  <2>3. \A y, z \in Below(g, x) : m[y] = m[z] => y = z
    BY <2>2 DEF Renames
  <2> QED BY <2>1, <2>2, <2>3, SameSize
<1> HIDE DEF R, Below, At
<1>7. ASSUME NEW n \in 1..Cardinality(g) PROVE At(h, n) = m[At(g, n)]
  <2>1. At(g, n) \in g /\ Cardinality(Below(g, At(g, n))) = n - 1
    BY <1>2
  <2>2. m[At(g, n)] \in h /\ Cardinality(Below(h, m[At(g, n)])) = n - 1
    BY <1>5, <1>6, <2>1
  <2>3. At(h, n) \in h /\ Cardinality(Below(h, At(h, n))) = n - 1
    BY <1>2, <1>4
  <2> QED BY <1>3, <2>2, <2>3
<1>8. Ordered(g) = [n \in 1..Cardinality(g) |-> At(g, n)]
  BY <1>1
<1>9. Ordered(h) = [n \in 1..Cardinality(g) |-> At(h, n)]
  BY <1>1, <1>4
<1> QED BY <1>7, <1>8, <1>9

LEMMA KeepRenamed ==
    ASSUME NEW m, NEW g, NEW h, Renames(m, g, h), NEW kept \in Seq(g), NEW r \in g
    PROVE  Keep([n \in DOMAIN kept |-> m[kept[n]]], m[r])
              = [n \in DOMAIN Keep(kept, r) |-> m[Keep(kept, r)[n]]]
<1> DEFINE k == [n \in DOMAIN kept |-> m[kept[n]]]
<1>1. /\ Len(kept) \in Nat /\ DOMAIN kept = 1..Len(kept)
      /\ \A n \in DOMAIN kept : kept[n] \in g /\ m[kept[n]] \in h
  BY DEF Renames
<1>2. k \in Seq(h) /\ DOMAIN k = DOMAIN kept /\ Len(k) = Len(kept)
      /\ \A n \in DOMAIN kept : k[n] = m[kept[n]]
  <2>1. k = [n \in 1..Len(kept) |-> m[kept[n]]] /\ \A n \in 1..Len(kept) : m[kept[n]] \in h
    BY <1>1
  <2> QED BY <1>1, <2>1
<1> HIDE DEF k
<1>3. ASSUME NEW x \in g PROVE SameLog(m[r], m[x]) <=> SameLog(r, x)
  BY DEF Renames, SameLog
<1>4. (\E x \in ToSet(k) : SameLog(m[r], x)) <=> \E x \in ToSet(kept) : SameLog(r, x)
  <2>1. ToSet(k) = {k[n] : n \in DOMAIN k} /\ ToSet(kept) = {kept[n] : n \in DOMAIN kept}
    BY DEF ToSet
  <2>2. \A n \in DOMAIN kept : SameLog(m[r], k[n]) <=> SameLog(r, kept[n])
    BY <1>1, <1>2, <1>3
  <2> HIDE DEF SameLog
  <2> QED BY <1>2, <2>1, <2>2
<1>5. CASE \E x \in ToSet(kept) : SameLog(r, x)
  <2>1. Keep(k, m[r]) = k /\ Keep(kept, r) = kept
    BY <1>4, <1>5 DEF Keep
  <2> QED BY <2>1 DEF k
<1>6. CASE ~\E x \in ToSet(kept) : SameLog(r, x)
  <2>1. Keep(k, m[r]) = Append(k, m[r]) /\ Keep(kept, r) = Append(kept, r)
    BY <1>4, <1>6 DEF Keep
  <2>2. /\ DOMAIN Append(kept, r) = 1..(Len(kept) + 1)
        /\ Append(kept, r)[Len(kept) + 1] = r
        /\ \A n \in 1..Len(kept) : Append(kept, r)[n] = kept[n]
    OBVIOUS
  <2>3. /\ Append(k, m[r]) = [n \in 1..(Len(kept) + 1) |-> Append(k, m[r])[n]]
        /\ Append(k, m[r])[Len(kept) + 1] = m[r]
        /\ \A n \in 1..Len(kept) : Append(k, m[r])[n] = k[n]
    <3>1. m[r] \in h
      BY DEF Renames
    <3> QED BY <1>2, <3>1
  <2>4. \A n \in 1..(Len(kept) + 1) : Append(k, m[r])[n] = m[Append(kept, r)[n]]
    BY <1>1, <1>2, <2>2, <2>3
  <2>5. Append(k, m[r]) = [n \in DOMAIN Append(kept, r) |-> m[Append(kept, r)[n]]]
    BY <2>2, <2>3, <2>4
  <2> QED BY <2>1, <2>5 DEF k
<1> QED BY <1>5, <1>6 DEF k

\* The same of them are kept.
LEMMA FirstUploadsRenamed ==
    ASSUME NEW m, NEW g, NEW h, Renames(m, g, h), NEW o \in Seq(g),
           NEW q, q = [n \in DOMAIN o |-> m[o[n]]]
    PROVE  FirstUploads(q) = [n \in DOMAIN FirstUploads(o) |-> m[FirstUploads(o)[n]]]
<1> DEFINE M(s) == [n \in DOMAIN s |-> m[s[n]]]
<1>1. PICK D : D = DOMAIN o
  OBVIOUS
<1>2. Len(o) \in Nat /\ D = 1..Len(o) /\ \A n \in D : o[n] \in g /\ m[o[n]] \in h
  BY <1>1 DEF Renames
<1>3. q \in Seq(h) /\ DOMAIN q = D /\ \A n \in D : q[n] = m[o[n]]
  <2>1. q = [n \in 1..Len(o) |-> m[o[n]]] /\ \A n \in 1..Len(o) : m[o[n]] \in h
    BY <1>1, <1>2
  <2> QED BY <1>2, <2>1
<1>4. PICK a : KeptUpTo(o, g, a)
  BY FirstUploadsSteps
<1>5. PICK b : KeptUpTo(q, h, b)
  BY <1>3, FirstUploadsSteps
<1>a. /\ FirstUploads(o) = a[D]
      /\ \A s \in SUBSET D :
            /\ a[s] \in Seq(g)
            /\ s = {} => a[s] = <<>>
            /\ s # {} => a[s] = Keep(a[s \ {Max(s)}], o[Max(s)])
  BY <1>1, <1>4 DEF KeptUpTo
<1>b. /\ FirstUploads(q) = b[D]
      /\ \A s \in SUBSET D :
            /\ s = {} => b[s] = <<>>
            /\ s # {} => b[s] = Keep(b[s \ {Max(s)}], q[Max(s)])
  BY <1>3, <1>5 DEF KeptUpTo
<1> DEFINE K == {k \in Nat : \A s \in SUBSET D : Cardinality(s) = k => b[s] = M(a[s])}
<1>6. ASSUME NEW s \in SUBSET D
      PROVE  /\ Cardinality(s) \in Nat
             /\ s = {} <=> Cardinality(s) = 0
             /\ s # {} => /\ Cardinality(s \ {Max(s)}) = Cardinality(s) - 1
                          /\ Max(s) \in s
  <2>1. IsFiniteSet(1..Len(o)) /\ D = 1..Len(o)
    BY <1>2, FS_Interval
  <2>2. IsFiniteSet(s)
    BY <2>1, FS_Subset
  <2>3. s # {} => Max(s) \in s
    <3>1. s \in SUBSET (0..Len(o)) /\ Len(o) \in Nat
      BY <1>2
    <3> SUFFICES ASSUME s # {} PROVE Max(s) \in s
      OBVIOUS
    <3>2. PICK n \in s : \A i \in s : n >= i
      BY <3>1, Greatest
    <3> QED BY <3>2 DEF Max
  <2> QED BY <2>2, <2>3, FS_CardinalityType, FS_EmptySet, FS_RemoveElement
<1>7. 0 \in K
  <2>1. ASSUME NEW s \in SUBSET D, Cardinality(s) = 0 PROVE b[s] = M(a[s])
    <3>1. a[s] = <<>> /\ b[s] = <<>>
      BY <1>a, <1>b, <1>6, <2>1
    <3> QED BY <3>1
  <2> HIDE DEF M
  <2> QED BY <2>1
<1>8. ASSUME NEW k \in Nat, k \in K PROVE k + 1 \in K
  <2>1. ASSUME NEW s \in SUBSET D, Cardinality(s) = k + 1 PROVE b[s] = M(a[s])
    <3>1. s # {} /\ Max(s) \in s /\ Cardinality(s \ {Max(s)}) = k
      BY <1>6, <2>1
    <3>2. PICK x \in g : x = o[Max(s)] /\ q[Max(s)] = m[x]
      BY <1>2, <1>3, <3>1
    <3>3. PICK kept : kept = a[s \ {Max(s)}]
      OBVIOUS
    <3>4. kept \in Seq(g) /\ a[s] = Keep(kept, x)
      BY <1>a, <3>1, <3>2, <3>3
    <3>5. b[s \ {Max(s)}] = M(kept)
      <4> HIDE DEF M
      <4>1. s \ {Max(s)} \in SUBSET D
        OBVIOUS
      <4> QED BY <1>8, <3>1, <3>3, <4>1
    <3>6. b[s] = Keep(M(kept), m[x])
      BY <1>b, <3>1, <3>2, <3>5
    <3>7. Keep(M(kept), m[x]) = M(Keep(kept, x))
      BY <3>4, KeepRenamed
    <3> HIDE DEF M
    <3> QED BY <3>4, <3>6, <3>7
  <2> HIDE DEF M
  <2> QED BY <2>1
<1>9. Cardinality(D) \in K
  <2> HIDE DEF K
  <2>1. Cardinality(D) \in Nat
    BY <1>6
  <2> QED BY <2>1, <1>7, <1>8, Reaches
<1>10. b[D] = M(a[D])
  <2> HIDE DEF M
  <2> QED BY <1>9
<1> QED BY <1>a, <1>b, <1>10

LEMMA GroupsRenamed ==
    ASSUME NEW m, NEW g, NEW h, Renames(m, g, h)
    PROVE  Groups(h) = {{m[x] : x \in k} : k \in Groups(g)}
<1>1. SourcesOf(h) = SourcesOf(g)
  <2>1. h = {m[x] : x \in g} /\ \A x \in g : m[x].source = x.source
    BY DEF Renames
  <2> QED BY <2>1 DEF SourcesOf
<1>2. ASSUME NEW s PROVE Group(h, s) = {m[x] : x \in Group(g, s)}
  <2>1. h = {m[x] : x \in g}
    BY DEF Renames
  <2>2. \A x \in g : m[x] \in Group(h, s) <=> x \in Group(g, s)
    BY DEF Renames, Group, Checkable
  <2>3. Group(h, s) \subseteq h /\ Group(g, s) \subseteq g
    BY DEF Group
  <2> QED BY <2>1, <2>2, <2>3
<1>3. ASSUME NEW k \in SUBSET g PROVE Orderable({m[x] : x \in k}) = Orderable(k)
  BY DEF Renames, Orderable, Booted, Dated
<1>4. \A s : Group(g, s) \in SUBSET g
  BY DEF Group
<1>5. \A s : Group(h, s) # {} <=> Group(g, s) # {}
  BY <1>2
<1>6. \A s : Orderable(Group(h, s)) <=> Orderable(Group(g, s))
  BY <1>2, <1>3, <1>4
<1>7. \A k : k \in Groups(g) <=>
             \E s \in SourcesOf(g) : k = Group(g, s) /\ k # {} /\ Orderable(k)
  BY DEF Groups
<1>8. \A k : k \in Groups(h) <=>
             \E s \in SourcesOf(g) : k = Group(h, s) /\ k # {} /\ Orderable(k)
  BY <1>1 DEF Groups
<1>9. ASSUME NEW k \in Groups(h) PROVE k \in {{m[x] : x \in j} : j \in Groups(g)}
  <2>1. PICK s \in SourcesOf(g) : k = Group(h, s) /\ k # {} /\ Orderable(k)
    BY <1>8
  <2>2. Group(g, s) \in Groups(g)
    BY <1>5, <1>6, <1>7, <2>1
  <2> QED BY <1>2, <2>1, <2>2
<1>10. ASSUME NEW j \in Groups(g) PROVE {m[x] : x \in j} \in Groups(h)
  <2>1. PICK s \in SourcesOf(g) : j = Group(g, s) /\ j # {} /\ Orderable(j)
    BY <1>7
  <2>2. Group(h, s) \in Groups(h)
    BY <1>5, <1>6, <1>8, <2>1
  <2>3. Group(h, s) = {m[x] : x \in j}
    BY <1>2, <2>1
  <2> QED BY <2>2, <2>3
<1> QED BY <1>9, <1>10

LEMMA KeptRenamed ==
    ASSUME NEW m, NEW g, NEW h, Logged(g), Logged(h), Renames(m, g, h), NEW k \in Groups(g),
           NEW j, j = {m[x] : x \in k}
    PROVE  /\ k \in SUBSET g /\ FirstUploads(Ordered(k)) \in Seq(k)
           /\ FirstUploads(Ordered(j))
                 = [n \in DOMAIN FirstUploads(Ordered(k)) |-> m[FirstUploads(Ordered(k))[n]]]
<1>1. k \in SUBSET g /\ Logged(k)
  BY GroupsIs
<1>2. Renames(m, k, j)
  BY <1>1, RenamesPart
<1>3. Logged(j)
  <2>1. j \in SUBSET h
    BY <1>1 DEF Renames
  <2> QED BY <2>1, LoggedPart
<1>4. Ordered(k) \in Seq(k)
  BY <1>1, OrderedIs
<1>5. Ordered(j) = [n \in DOMAIN Ordered(k) |-> m[Ordered(k)[n]]]
  BY <1>1, <1>2, <1>3, OrderedRenamed
<1>6. PICK o \in Seq(k) : o = Ordered(k)
  BY <1>4
<1>7. FirstUploads(o) \in Seq(k)
  BY FirstUploadsIs
<1>8. PICK q : q = Ordered(j) /\ q = [n \in DOMAIN o |-> m[o[n]]]
  BY <1>5, <1>6
<1>9. FirstUploads(q) = [n \in DOMAIN FirstUploads(o) |-> m[FirstUploads(o)[n]]]
  BY <1>2, <1>8, FirstUploadsRenamed
<1> QED BY <1>1, <1>6, <1>7, <1>8, <1>9

LEMMA DuplicatesRenamed ==
    ASSUME NEW m, NEW g, NEW h, Logged(g), Logged(h), Renames(m, g, h)
    PROVE  \A x \in g : m[x] \in Duplicates(h) <=> x \in Duplicates(g)
<1> DEFINE Again(k) == k \ ToSet(FirstUploads(Ordered(k)))
<1>1. ASSUME NEW k \in Groups(g), NEW x \in g
      PROVE  m[x] \in Again({m[y] : y \in k}) <=> x \in Again(k)
  <2>1. PICK o \in Seq(k) : o = FirstUploads(Ordered(k))
    BY KeptRenamed
  <2>2. PICK j : j = {m[y] : y \in k}
    OBVIOUS
  <2>3. PICK q : q = FirstUploads(Ordered(j))
    OBVIOUS
  <2>4. q = [n \in DOMAIN o |-> m[o[n]]] /\ k \in SUBSET g
    BY <2>1, <2>2, <2>3, KeptRenamed
  <2>5. \A n \in DOMAIN o : o[n] \in k
    OBVIOUS
  <2>6. \A y, z \in g : m[y] = m[z] => y = z
    BY DEF Renames
  <2>7. m[x] \in ToSet(q) <=> x \in ToSet(o)
    <3>1. ToSet(q) = {q[n] : n \in DOMAIN q} /\ ToSet(o) = {o[n] : n \in DOMAIN o}
      BY DEF ToSet
    <3> QED BY <2>4, <2>5, <2>6, <3>1
  <2>8. m[x] \in j <=> x \in k
    BY <2>2, <2>4, <2>6
  <2> QED BY <2>1, <2>2, <2>3, <2>7, <2>8
<1>2. Duplicates(g) = UNION {Again(k) : k \in Groups(g)}
      /\ Duplicates(h) = UNION {Again(k) : k \in Groups(h)}
  BY DEF Duplicates
<1> HIDE DEF Again
<1>3. Groups(h) = {{m[y] : y \in k} : k \in Groups(g)}
  BY GroupsRenamed
<1>4. ASSUME NEW x \in g PROVE m[x] \in Duplicates(h) <=> x \in Duplicates(g)
  <2>1. ASSUME m[x] \in Duplicates(h) PROVE x \in Duplicates(g)
    <3>1. PICK j \in Groups(h) : m[x] \in Again(j)
      BY <1>2, <2>1
    <3>2. PICK k \in Groups(g) : j = {m[y] : y \in k}
      BY <1>3
    <3>3. x \in Again(k)
      BY <1>1, <3>1, <3>2
    <3> QED BY <1>2, <3>3
  <2>2. ASSUME x \in Duplicates(g) PROVE m[x] \in Duplicates(h)
    <3>1. PICK k \in Groups(g) : x \in Again(k)
      BY <1>2, <2>2
    <3>2. m[x] \in Again({m[y] : y \in k}) /\ {m[y] : y \in k} \in Groups(h)
      BY <1>1, <1>3, <3>1
    <3> QED BY <1>2, <3>2
  <2> QED BY <2>1, <2>2
<1> QED BY <1>4

LEMMA PairsRenamed ==
    ASSUME NEW m, NEW g, NEW h, Logged(g), Logged(h), Renames(m, g, h)
    PROVE  Pairs(h) = {[log |-> m[p.log], next |-> m[p.next]] : p \in Pairs(g)}
<1> DEFINE Steps(k) == LET o == FirstUploads(Ordered(k))
                       IN  {[log |-> o[i], next |-> o[i + 1]] : i \in 1..(Len(o) - 1)}
<1> DEFINE P(S) == {[log |-> m[p.log], next |-> m[p.next]] : p \in S}
<1>1. ASSUME NEW k \in Groups(g) PROVE Steps({m[y] : y \in k}) = P(Steps(k))
  <2>1. PICK o \in Seq(k) : o = FirstUploads(Ordered(k))
    BY KeptRenamed
  <2>2. PICK j : j = {m[y] : y \in k}
    OBVIOUS
  <2>3. PICK q : q = FirstUploads(Ordered(j))
    OBVIOUS
  <2>4. q = [n \in DOMAIN o |-> m[o[n]]]
    BY <2>1, <2>2, <2>3, KeptRenamed
  <2>5. PICK l \in Nat : l = Len(o) /\ DOMAIN o = 1..l
    OBVIOUS
  <2>6. Len(q) = l
    BY <2>4, <2>5
  <2>7. \A i \in 1..(l - 1) : i \in 1..l /\ i + 1 \in 1..l
    BY <2>5
  <2>8. \A i \in 1..(l - 1) : q[i] = m[o[i]] /\ q[i + 1] = m[o[i + 1]]
    BY <2>4, <2>5, <2>7
  <2>9. Steps(j) = {[log |-> q[i], next |-> q[i + 1]] : i \in 1..(l - 1)}
    BY <2>3, <2>6
  <2>10. Steps(k) = {[log |-> o[i], next |-> o[i + 1]] : i \in 1..(l - 1)}
    BY <2>1, <2>5
  <2> HIDE DEF Steps
  <2>11. P(Steps(k)) = {[log |-> m[o[i]], next |-> m[o[i + 1]]] : i \in 1..(l - 1)}
    <3>1. PICK I : I = 1..(l - 1)
      OBVIOUS
    <3>2. PICK S : S = {[log |-> o[i], next |-> o[i + 1]] : i \in I}
      OBVIOUS
    <3>3. \A i \in I : [log |-> o[i], next |-> o[i + 1]].log = o[i]
                       /\ [log |-> o[i], next |-> o[i + 1]].next = o[i + 1]
      OBVIOUS
    <3>4. ASSUME NEW i \in I
          PROVE  LET p == [log |-> o[i], next |-> o[i + 1]]
                 IN  [log |-> m[p.log], next |-> m[p.next]]
                        = [log |-> m[o[i]], next |-> m[o[i + 1]]]
      BY <3>3
    <3>5. {[log |-> m[p.log], next |-> m[p.next]] : p \in S}
             = {[log |-> m[o[i]], next |-> m[o[i + 1]]] : i \in I}
      <4>1. \A p \in S : \E i \in I : [log |-> m[p.log], next |-> m[p.next]]
                                        = [log |-> m[o[i]], next |-> m[o[i + 1]]]
        BY <3>2, <3>4
      <4>2. \A i \in I : \E p \in S : [log |-> m[p.log], next |-> m[p.next]]
                                        = [log |-> m[o[i]], next |-> m[o[i + 1]]]
        BY <3>2, <3>4
      <4> DEFINE A == {[log |-> m[p.log], next |-> m[p.next]] : p \in S}
                 B == {[log |-> m[o[i]], next |-> m[o[i + 1]]] : i \in I}
      <4>3. A \subseteq B
        <5>1. ASSUME NEW z \in A PROVE z \in B
          <6>1. PICK p \in S : z = [log |-> m[p.log], next |-> m[p.next]]
            OBVIOUS
          <6>2. PICK i \in I : [log |-> m[p.log], next |-> m[p.next]]
                                  = [log |-> m[o[i]], next |-> m[o[i + 1]]]
            BY <4>1
          <6> QED BY <6>1, <6>2
        <5> QED BY <5>1
      <4>4. B \subseteq A
        <5>1. ASSUME NEW z \in B PROVE z \in A
          <6>1. PICK i \in I : z = [log |-> m[o[i]], next |-> m[o[i + 1]]]
            OBVIOUS
          <6>2. PICK p \in S : [log |-> m[p.log], next |-> m[p.next]]
                                  = [log |-> m[o[i]], next |-> m[o[i + 1]]]
            BY <4>2
          <6> QED BY <6>1, <6>2
        <5> QED BY <5>1
      <4> QED BY <4>3, <4>4
    <3> QED BY <2>10, <3>1, <3>2, <3>5
  <2>12. {[log |-> q[i], next |-> q[i + 1]] : i \in 1..(l - 1)}
            = {[log |-> m[o[i]], next |-> m[o[i + 1]]] : i \in 1..(l - 1)}
    BY <2>8
  <2> HIDE DEF P
  <2> QED BY <2>2, <2>9, <2>11, <2>12
<1>2. Pairs(g) = UNION {Steps(k) : k \in Groups(g)} /\ Pairs(h) = UNION {Steps(k) : k \in Groups(h)}
  BY DEF Pairs
<1> HIDE DEF Steps
<1>3. Groups(h) = {{m[y] : y \in k} : k \in Groups(g)}
  BY GroupsRenamed
<1>4. Pairs(h) = UNION {P(Steps(k)) : k \in Groups(g)}
  <2> HIDE DEF P
  <2>1. ASSUME NEW p \in Pairs(h) PROVE p \in UNION {P(Steps(k)) : k \in Groups(g)}
    <3>1. PICK j \in Groups(h) : p \in Steps(j)
      BY <1>2
    <3>2. PICK k \in Groups(g) : j = {m[y] : y \in k}
      BY <1>3
    <3> QED BY <1>1, <3>1, <3>2
  <2>2. ASSUME NEW p \in UNION {P(Steps(k)) : k \in Groups(g)} PROVE p \in Pairs(h)
    <3>1. PICK k \in Groups(g) : p \in P(Steps(k))
      OBVIOUS
    <3>2. p \in Steps({m[y] : y \in k}) /\ {m[y] : y \in k} \in Groups(h)
      BY <1>1, <1>3, <3>1
    <3> QED BY <1>2, <3>2
  <2> QED BY <2>1, <2>2
<1> QED BY <1>2, <1>4

LEMMA PairsIn ==
    ASSUME NEW logs, Logged(logs), NEW p \in Pairs(logs)
    PROVE  p.log \in logs /\ p.next \in logs
<1> DEFINE Steps(g) == LET o == FirstUploads(Ordered(g))
                       IN  {[log |-> o[i], next |-> o[i + 1]] : i \in 1..(Len(o) - 1)}
<1>1. PICK g \in Groups(logs) : p \in Steps(g)
  BY DEF Pairs
<1>2. PICK o \in Seq(g) : o = FirstUploads(Ordered(g))
  BY GroupsIs, OrderedIs, FirstUploadsIs
<1>3. PICK i \in 1..(Len(o) - 1) : p = [log |-> o[i], next |-> o[i + 1]]
  BY <1>1, <1>2
<1>4. o[i] \in g /\ o[i + 1] \in g
  OBVIOUS
<1>5. g \in SUBSET logs
  BY GroupsIs
<1> QED BY <1>3, <1>4, <1>5

LEMMA UnflownRenames ==
    ASSUME NEW logs, Logged(logs), NEW r \in logs, Known(r.flight), r.flight > 0
    PROVE  /\ Logged(Unflown(logs, r))
           /\ \E m : /\ Renames(m, logs, Unflown(logs, r))
                     /\ \A x \in logs \ {r} : m[x] = x
<1>1. PICK s : s = [r EXCEPT !.flight = 0]
  OBVIOUS
<1>2. PICK h : h = Unflown(logs, r) /\ h = (logs \ {r}) \cup {s}
  BY <1>1 DEF Unflown
<1>3. PICK m : m = [x \in logs |-> IF x = r THEN s ELSE x]
  OBVIOUS
<1>4. m[r] = s /\ \A x \in logs \ {r} : m[x] = x
  BY <1>3
<1>5. r \in FlightRecords(Nat, STRING, Nat) /\ Unknown # 0
  BY FlightLogsAssumption DEF Logged
<1>6. /\ s \in FlightRecords(Nat, STRING, Nat)
      /\ s.ref = r.ref /\ s.source = r.source /\ s.start = r.start /\ s.span = r.span
      /\ s.boot = r.boot /\ s.lifetime = r.lifetime /\ s.flight = 0
  BY <1>1, <1>5 DEF FlightRecords
<1>7. \A x \in logs \ {r} : x.ref # s.ref
  BY <1>6 DEF Logged
<1>8. h = {m[x] : x \in logs}
  <2>1. \A x \in logs : m[x] \in h
    BY <1>2, <1>4
  <2>2. ASSUME NEW y \in h PROVE \E x \in logs : m[x] = y
    <3>1. y \in logs \ {r} \/ y = s
      BY <1>2
    <3> QED BY <1>4, <3>1
  <2> QED BY <2>1, <2>2
<1>9. ASSUME NEW x \in logs, NEW y \in logs, m[x] = m[y] PROVE x = y
  BY <1>4, <1>7, <1>9
<1>10. Renames(m, logs, h)
  <2>1. Known(s.flight) = Known(r.flight)
    BY <1>5, <1>6 DEF Known
  <2>2. ASSUME NEW x \in logs
        PROVE  /\ m[x].ref = x.ref /\ m[x].source = x.source
               /\ m[x].start = x.start /\ m[x].span = x.span
               /\ m[x].boot = x.boot /\ m[x].lifetime = x.lifetime
               /\ Known(m[x].flight) = Known(x.flight)
    <3>1. CASE x = r
      BY <1>4, <1>6, <2>1, <3>1
    <3>2. CASE x # r
      BY <1>4, <3>2
    <3> QED BY <3>1, <3>2
  <2> QED BY <1>8, <1>9, <2>2 DEF Renames
<1>11. Logged(h)
  <2>1. IsFiniteSet(h)
    <3>1. IsFiniteSet({m[x] : x \in logs})
      BY Image DEF Logged
    <3> QED BY <1>8, <3>1
  <2>2. h \subseteq FlightRecords(Nat, STRING, Nat)
    BY <1>2, <1>6 DEF Logged
  <2>3. ASSUME NEW x \in h, NEW y \in h, x.ref = y.ref PROVE x = y
    <3>1. (x \in logs \ {r} \/ x = s) /\ (y \in logs \ {r} \/ y = s)
      BY <1>2
    <3> QED BY <1>7, <2>3, <3>1 DEF Logged
  <2> QED BY <2>1, <2>2, <2>3 DEF Logged
<1> QED BY <1>2, <1>4, <1>10, <1>11

\* Until a log ends, what counts is what would count had nothing been flown in it.
LEMMA UnflownCounts ==
    ASSUME NEW logs, Logged(logs), NEW r \in logs, Known(r.start), Known(r.flight), r.flight > 0,
           NEW u \in Nat, u < r.start + r.span, NEW ud
    PROVE  /\ Flown(Unflown(logs, r), u, ud) = Flown(logs, u, ud)
           /\ Unlogged(Unflown(logs, r), u, ud) = Unlogged(logs, u, ud)
           /\ FirstLog(Unflown(logs, r)) = FirstLog(logs)
<1>1. PICK h : h = Unflown(logs, r)
  OBVIOUS
<1>2. Logged(h)
  BY <1>1, UnflownRenames
<1>3. PICK m : Renames(m, logs, h) /\ \A x \in logs \ {r} : m[x] = x
  BY <1>1, UnflownRenames
<1>4. /\ h = {m[x] : x \in logs}
      /\ \A x \in logs : /\ m[x].start = x.start /\ m[x].span = x.span
                         /\ m[x].lifetime = x.lifetime
  BY <1>3 DEF Renames
<1>5. \A x \in logs : Counted(m[x], u, ud) = Counted(x, u, ud)
  BY <1>4 DEF Counted, LogEnd
<1>6. ~Counted(r, u, ud)
  <2>1. PICK e \in Nat : e = r.start + r.span /\ u < e
    <3>1. r.start \in Nat /\ r.span \in Nat
      BY RecordIs DEF Known
    <3> QED BY <3>1
  <2>2. LogEnd(r) = e
    BY <2>1 DEF LogEnd
  <2>3. Known(e) /\ Known(u)
    BY FlightLogsAssumption DEF Known
  <2>4. ~(e <= u)
    BY <2>1
  <2> QED BY <2>2, <2>3, <2>4 DEF Counted
<1>7. \A x \in logs : m[x] \in Duplicates(h) <=> x \in Duplicates(logs)
  BY <1>2, <1>3, DuplicatesRenamed
<1>8. Flown(h, u, ud) = Flown(logs, u, ud)
  <2>1. ASSUME NEW x \in Flown(h, u, ud) PROVE x \in Flown(logs, u, ud)
    <3>1. x \in h /\ x \notin Duplicates(h) /\ Counted(x, u, ud)
      BY DEF Flown
    <3>2. PICK y \in logs : x = m[y]
      BY <1>4, <3>1
    <3>3. y \notin Duplicates(logs) /\ Counted(y, u, ud)
      BY <1>5, <1>7, <3>1, <3>2
    <3>4. x = y
      BY <1>3, <1>6, <3>2, <3>3
    <3> QED BY <3>3, <3>4 DEF Flown
  <2>2. ASSUME NEW x \in Flown(logs, u, ud) PROVE x \in Flown(h, u, ud)
    <3>1. x \in logs /\ x \notin Duplicates(logs) /\ Counted(x, u, ud)
      BY DEF Flown
    <3>2. m[x] = x /\ m[x] \in h /\ m[x] \notin Duplicates(h)
      BY <1>3, <1>4, <1>6, <1>7, <3>1
    <3> QED BY <3>1, <3>2 DEF Flown
  <2> QED BY <2>1, <2>2
<1>9. Unlogged(h, u, ud) = Unlogged(logs, u, ud)
  <2>1. Pairs(h) = {[log |-> m[p.log], next |-> m[p.next]] : p \in Pairs(logs)}
    BY <1>2, <1>3, PairsRenamed
  <2>2. ASSUME NEW p \in Pairs(logs), p.log # r, NEW q, q = [log |-> m[p.log], next |-> m[p.next]]
        PROVE  q.log = p.log /\ UnloggedBetween(q) = UnloggedBetween(p)
    <3>1. p.log \in logs /\ p.next \in logs
      BY PairsIn
    <3>2. q.log = p.log /\ q.next = m[p.next]
      BY <1>3, <2>2, <3>1
    <3>3. q.next.lifetime = p.next.lifetime
      BY <1>4, <3>1, <3>2
    <3> QED BY <3>2, <3>3 DEF UnloggedBetween
  <2>3. \A l, f : f \in Unlogged(l, u, ud) <=>
            \E p \in Pairs(l) : /\ UnloggedBetween(p) > Tolerance /\ Counted(p.log, u, ud)
                                /\ f = [after |-> p.log, seconds |-> UnloggedBetween(p)]
    BY DEF Unlogged, UnloggedFlights
  <2>4. ASSUME NEW f \in Unlogged(h, u, ud) PROVE f \in Unlogged(logs, u, ud)
    <3>1. PICK q \in Pairs(h) : /\ UnloggedBetween(q) > Tolerance /\ Counted(q.log, u, ud)
                                /\ f = [after |-> q.log, seconds |-> UnloggedBetween(q)]
      BY <2>3
    <3>2. PICK p \in Pairs(logs) : q = [log |-> m[p.log], next |-> m[p.next]]
      BY <2>1
    <3>3. p.log \in logs /\ q.log = m[p.log]
      BY <3>2, PairsIn
    <3>4. p.log # r
      BY <1>5, <1>6, <3>1, <3>3
    <3>5. q.log = p.log /\ UnloggedBetween(q) = UnloggedBetween(p)
      BY <2>2, <3>2, <3>4
    <3> QED BY <2>3, <3>1, <3>5
  <2>5. ASSUME NEW f \in Unlogged(logs, u, ud) PROVE f \in Unlogged(h, u, ud)
    <3>1. PICK p \in Pairs(logs) : /\ UnloggedBetween(p) > Tolerance /\ Counted(p.log, u, ud)
                                   /\ f = [after |-> p.log, seconds |-> UnloggedBetween(p)]
      BY <2>3
    <3>2. PICK q : q = [log |-> m[p.log], next |-> m[p.next]]
      OBVIOUS
    <3>3. q.log = p.log /\ UnloggedBetween(q) = UnloggedBetween(p) /\ q \in Pairs(h)
      BY <1>6, <2>1, <2>2, <3>1, <3>2
    <3> QED BY <2>3, <3>1, <3>3
  <2> QED BY <2>4, <2>5
<1>10. FirstLog(h) = FirstLog(logs)
  <2>1. {x.start : x \in {s \in h : Known(s.start)}} = {x.start : x \in {s \in logs : Known(s.start)}}
    BY <1>4
  <2> QED BY <2>1 DEF FirstLog
<1> QED BY <1>1, <1>8, <1>9, <1>10

\* logs and then count alike for every aircraft at t, and for k at every date until then.
CountAlike(logs, then, k, t) ==
    /\ DOMAIN then = DOMAIN logs
    /\ \A a \in DOMAIN logs :
          /\ Flown(then[a], t, TRUE) = Flown(logs[a], t, TRUE)
          /\ Unlogged(then[a], t, TRUE) = Unlogged(logs[a], t, TRUE)
    /\ \A u \in 0..t : \A ud \in BOOLEAN :
          /\ Flown(then[k], u, ud) = Flown(logs[k], u, ud)
          /\ Unlogged(then[k], u, ud) = Unlogged(logs[k], u, ud)
    /\ FirstLog(then[k]) = FirstLog(logs[k])

LEMMA PartAlike ==
    ASSUME NEW logs, NEW then, NEW k, NEW t, CountAlike(logs, then, k, t),
           NEW c, PartKept(c, DOMAIN logs), NEW id
    PROVE  PartItems(then, id, c, t) = PartItems(logs, id, c, t)
<1>1. ASSUME NEW i \in DOMAIN c.windows
      PROVE  /\ WindowHours(then, c.windows[i], t) = WindowHours(logs, c.windows[i], t)
             /\ WindowCycles(then, c.windows[i], t) = WindowCycles(logs, c.windows[i], t)
  <2>1. PICK w : w = c.windows[i]
    OBVIOUS
  <2>2. w.aircraft \in DOMAIN logs
    <3>1. PICK W : W = Windows(DOMAIN logs)
      OBVIOUS
    <3>2. c.windows \in Seq(W)
      BY <3>1 DEF PartKept
    <3>3. w \in W
      BY <2>1, <3>2
    <3> QED BY <3>1, <3>3 DEF Windows
  <2>3. /\ Flown(then[w.aircraft], t, TRUE) = Flown(logs[w.aircraft], t, TRUE)
        /\ Unlogged(then[w.aircraft], t, TRUE) = Unlogged(logs[w.aircraft], t, TRUE)
    BY <2>2 DEF CountAlike
  <2> QED BY <2>1, <2>3 DEF WindowHours, WindowCycles
<1>2. PartHours(then, c, t) = PartHours(logs, c, t)
  <2>1. [i \in DOMAIN c.windows |-> WindowHours(then, c.windows[i], t)]
           = [i \in DOMAIN c.windows |-> WindowHours(logs, c.windows[i], t)]
    BY <1>1
  <2> QED BY <2>1 DEF PartHours
<1>3. PartCycles(then, c, t) = PartCycles(logs, c, t)
  <2>1. [i \in DOMAIN c.windows |-> WindowCycles(then, c.windows[i], t)]
           = [i \in DOMAIN c.windows |-> WindowCycles(logs, c.windows[i], t)]
    BY <1>1
  <2> QED BY <2>1 DEF PartCycles
<1>4. \A b, limit : PartItem(then, id, c, b, limit, t) = PartItem(logs, id, c, b, limit, t)
  BY <1>2, <1>3 DEF PartItem
<1> QED BY <1>4 DEF PartItems

LEMMA ServiceAlike ==
    ASSUME NEW logs, NEW then, NEW k, NEW t, CountAlike(logs, then, k, t)
    PROVE  \A before : \A u \in 0..t :
              /\ \A ud \in BOOLEAN : TimeInService(before, then[k], u, ud)
                                        = TimeInService(before, logs[k], u, ud)
              /\ MostTimeInService(before, then[k], u) = MostTimeInService(before, logs[k], u)
<1>1. \A u \in 0..t : \A ud \in BOOLEAN : FlightTime(then[k], u, ud) = FlightTime(logs[k], u, ud)
  BY DEF CountAlike, FlightTime
<1>2. \A before, u : NotKnownAt(before, then[k], u) <=> NotKnownAt(before, logs[k], u)
  BY DEF CountAlike, NotKnownAt
<1> QED BY <1>1, <1>2 DEF TimeInService, MostTimeInService

LEMMA InspectionAlike ==
    ASSUME NEW logs, NEW then, NEW k, NEW t \in Nat, CountAlike(logs, then, k, t),
           NEW before, NEW service, NEW rule, NEW done \in {None} \cup Inspections(t)
    PROVE  InspectionItems(rule, done, then[k], before, service, t)
              = InspectionItems(rule, done, logs[k], before, service, t)
<1>1. CASE done = None
  BY <1>1 DEF InspectionItems
<1>2. CASE done # None
  <2>1. done.done \in 0..t
    BY <1>2 DEF Inspections
  <2>2. /\ TimeInService(before, then[k], done.done, FALSE)
              = TimeInService(before, logs[k], done.done, FALSE)
        /\ MostTimeInService(before, then[k], done.done)
              = MostTimeInService(before, logs[k], done.done)
    <3>1. \A b : \A u \in 0..t :
             /\ \A ud \in BOOLEAN : TimeInService(b, then[k], u, ud) = TimeInService(b, logs[k], u, ud)
             /\ MostTimeInService(b, then[k], u) = MostTimeInService(b, logs[k], u)
      BY ServiceAlike
    <3>2. PICK u \in 0..t : u = done.done
      BY <2>1
    <3>3. FALSE \in BOOLEAN
      OBVIOUS
    <3>4. /\ TimeInService(before, then[k], u, FALSE) = TimeInService(before, logs[k], u, FALSE)
          /\ MostTimeInService(before, then[k], u) = MostTimeInService(before, logs[k], u)
      BY <3>1, <3>3
    <3> QED BY <3>2, <3>4
  <2>3. Disagree(then[k], before, done) <=> Disagree(logs[k], before, done)
    BY <2>2 DEF Disagree
  <2>4. DisagreeingItem(rule, done, then[k], before, service)
           = DisagreeingItem(rule, done, logs[k], before, service)
    BY <2>2 DEF DisagreeingItem
  <2> QED BY <2>3, <2>4 DEF InspectionItems
<1> QED BY <1>1, <1>2

LEMMA DueAlike ==
    ASSUME NEW logs, NEW then, NEW k, NEW t \in Nat, CountAlike(logs, then, k, t),
           NEW r, RecordsKept(r, DOMAIN logs, t)
    PROVE  DueList(then, r, k, t) = DueList(logs, r, k, t)
<1>1. PartsDue(then, r, k, t) = PartsDue(logs, r, k, t)
  <2>1. \A c \in InstalledParts(r, k, t) :
           PartItems(then, c, r.parts[c], t) = PartItems(logs, c, r.parts[c], t)
    BY PartAlike DEF RecordsKept, InstalledParts
  <2>2. {PartItems(then, c, r.parts[c], t) : c \in InstalledParts(r, k, t)}
           = {PartItems(logs, c, r.parts[c], t) : c \in InstalledParts(r, k, t)}
    BY <2>1
  <2> QED BY <2>2 DEF PartsDue
<1>2. PICK a : a = AircraftOn(r, k)
  OBVIOUS
<1>3. a.inspections \in Seq(Inspections(t))
  BY <1>2 DEF RecordsKept, AircraftKept
<1>4. TimeInService(a.before, then[k], t, TRUE) = TimeInService(a.before, logs[k], t, TRUE)
  <2>1. \A b : \A u \in 0..t :
           /\ \A ud \in BOOLEAN : TimeInService(b, then[k], u, ud) = TimeInService(b, logs[k], u, ud)
           /\ MostTimeInService(b, then[k], u) = MostTimeInService(b, logs[k], u)
    BY ServiceAlike
  <2>2. t \in 0..t /\ TRUE \in BOOLEAN
    OBVIOUS
  <2> QED BY <2>1, <2>2
<1>5. PICK s : s = TimeInService(a.before, logs[k], t, TRUE)
  OBVIOUS
<1>6. InspectionsDue(a, then[k], s, t) = InspectionsDue(a, logs[k], s, t)
  <2>1. ASSUME NEW rule \in DOMAIN InspectionRules
        PROVE  InspectionItems(rule, Completion(a.inspections, rule), then[k], a.before, s, t)
                 = InspectionItems(rule, Completion(a.inspections, rule), logs[k], a.before, s, t)
    <3>1. PICK done : done = Completion(a.inspections, rule)
      OBVIOUS
    <3>2. done \in {None} \cup Inspections(t)
      BY <1>3, <3>1, CompletionIs
    <3>3. InspectionItems(rule, done, then[k], a.before, s, t)
             = InspectionItems(rule, done, logs[k], a.before, s, t)
      BY <3>2, InspectionAlike
    <3> QED BY <3>1, <3>3
  <2>2. {InspectionItems(rule, Completion(a.inspections, rule), then[k], a.before, s, t) :
            rule \in DOMAIN InspectionRules}
          = {InspectionItems(rule, Completion(a.inspections, rule), logs[k], a.before, s, t) :
            rule \in DOMAIN InspectionRules}
    BY <2>1
  <2> QED BY <2>2 DEF InspectionsDue
<1>7. PICK P : P = PartsDue(logs, r, k, t)
  OBVIOUS
<1>8. DueOf(P, a, then[k], t) = DueOf(P, a, logs[k], t)
  <2>1. PICK I : I = InspectionsDue(a, logs[k], s, t)
    OBVIOUS
  <2>2. /\ DueOf(P, a, then[k], t)
              = [hasRecord |-> TRUE, service |-> s, orders |-> OrdersOf(a), items |-> P \cup I]
        /\ DueOf(P, a, logs[k], t)
              = [hasRecord |-> TRUE, service |-> s, orders |-> OrdersOf(a), items |-> P \cup I]
    BY <1>4, <1>5, <1>6, <2>1, Zenon DEF DueOf
  <2> QED BY <2>2
<1>9. \A l : DueList(l, r, k, t) =
               IF k \notin DOMAIN r.aircraft /\ InstalledParts(r, k, t) = {} THEN NoRecord
               ELSE DueOf(PartsDue(l, r, k, t), AircraftOn(r, k), l[k], t)
  BY DEF DueList, AircraftOn
<1> QED BY <1>1, <1>2, <1>7, <1>8, <1>9

\* Whatever was entered, corrected, retracted and brought back, and whatever was uploaded: no
\* log is found to have been flown while the aircraft was grounded on its own flight; with
\* none flown in it, the board says at its start what it said (life/grounded.py
\* grounded_flights, life/engine.py log_end, counted).
LEMMA OwnFlight ==
    ASSUME TypedInv
    PROVE  OwnFlightNotHeld
<1> SUFFICES ASSUME NEW key \in DOMAIN flights,
                    NEW r \in GroundedFlights(flights, entries, key, Unknown), r.span > 0
             PROVE  Grounds(StatusAt([flights EXCEPT ![key] = Unflown(@, r)],
                                     entries, key, r.start))
  BY DEF OwnFlightNotHeld
<1>1. /\ r \in flights[key] /\ Known(r.start) /\ Known(r.flight) /\ r.flight > 0
      /\ Grounds(StatusAt(flights, entries, key, r.start))
  BY DEF GroundedFlights, Judgeable
<1>2. \A k \in DOMAIN flights : Logged(flights[k])
  BY DEF TypedInv
<1>3. r.start \in Nat /\ r.span \in Nat
  BY <1>1, <1>2, RecordIs DEF Known
<1>4. PICK t \in Nat : t = r.start
  BY <1>3
<1>5. PICK then : then = [flights EXCEPT ![key] = Unflown(@, r)]
  OBVIOUS
<1>6. /\ DOMAIN then = DOMAIN flights /\ then[key] = Unflown(flights[key], r)
      /\ \A a \in DOMAIN flights : a # key => then[a] = flights[a]
  BY <1>5
<1>7. ASSUME NEW u \in 0..t, NEW ud
      PROVE  /\ Flown(then[key], u, ud) = Flown(flights[key], u, ud)
             /\ Unlogged(then[key], u, ud) = Unlogged(flights[key], u, ud)
             /\ FirstLog(then[key]) = FirstLog(flights[key])
  <2>1. u \in Nat /\ u < r.start + r.span
    BY <1>3, <1>4
  <2>2. PICK logs : logs = flights[key]
    OBVIOUS
  <2>3. Logged(logs) /\ r \in logs
    BY <1>1, <1>2, <2>2
  <2> QED BY <1>1, <1>6, <2>1, <2>2, <2>3, UnflownCounts
<1>8. CountAlike(flights, then, key, t)
  <2>1. t \in 0..t /\ TRUE \in BOOLEAN
    OBVIOUS
  <2>2. ASSUME NEW a \in DOMAIN flights
        PROVE  /\ Flown(then[a], t, TRUE) = Flown(flights[a], t, TRUE)
               /\ Unlogged(then[a], t, TRUE) = Unlogged(flights[a], t, TRUE)
    BY <1>6, <1>7, <2>1
  <2> QED BY <1>6, <1>7, <2>1, <2>2 DEF CountAlike
<1>9. RecordsKept(ProjectAsOf(entries, t), DOMAIN flights, t)
  BY RecordsAt
<1>10. DueList(then, ProjectAsOf(entries, t), key, t)
          = DueList(flights, ProjectAsOf(entries, t), key, t)
  BY <1>8, <1>9, DueAlike
<1>11. StatusAt(then, entries, key, t) = StatusAt(flights, entries, key, t)
  BY <1>10 DEF StatusAt, DueAt
<1> QED BY <1>1, <1>4, <1>5, <1>11

\* Whatever was entered, corrected, retracted and brought back, and whatever was uploaded, in
\* whatever order: the board's answer agrees with the entries and with the flight.  It is
\* serviceable only with nothing open and life left, and a log is found flown while grounded
\* only if something else than its own flight grounded the aircraft (life/engine.py board,
\* log_end, counted; life/grounded.py grounded_flights).
THEOREM BoardAgreesAlways == Spec => []BoardAgrees
<1>1. TypedInv => BoardAgrees
  BY ServiceableCounted, OwnFlight DEF BoardAgrees
<1> QED BY <1>1, LedgerTyped, PTL

=============================================================================
