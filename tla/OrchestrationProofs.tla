------------------------ MODULE OrchestrationProofs ------------------------
(***************************************************************************)
(* Theorems about Orchestration.  Whatever calls overlap, every queue is   *)
(* one of agents (IInv).  With one call at a time, for any agents, batches *)
(* and restarts, the four copies of the queue agree and no agent is handed *)
(* out twice or forgotten (SerialInv).                                     *)
(***************************************************************************)
EXTENDS Orchestration, FiniteSetTheorems, SequenceTheorems,
        NaturalsInduction, WellFoundedInduction, TLAPS

Statuses == {"queued", "running", "completed"}
StepRecords == [agent : Agents, status : Statuses]

-----------------------------------------------------------------------------
(* How often an element occurs in a sequence.                              *)

Occurrences(q, x) == {i \in DOMAIN q : q[i] = x}

LEMMA CountIsNat ==
    ASSUME NEW S, NEW q \in Seq(S), NEW x
    PROVE  /\ IsFiniteSet(Occurrences(q, x))
           /\ Count(q, x) = Cardinality(Occurrences(q, x))
           /\ Count(q, x) \in Nat
           /\ Count(q, x) = 0 <=> \A i \in DOMAIN q : q[i] # x
<1>1. /\ Len(q) \in Nat /\ DOMAIN q = 1 .. Len(q)
  BY LenProperties
<1>2. IsFiniteSet(DOMAIN q)
  BY <1>1, FS_Interval
<1>3. IsFiniteSet(Occurrences(q, x))
  BY <1>2, FS_Subset DEF Occurrences
<1>4. Count(q, x) = Cardinality(Occurrences(q, x))
  BY DEF Count, Occurrences
<1>5. Count(q, x) \in Nat
  BY <1>3, <1>4, FS_CardinalityType
<1>6. Count(q, x) = 0 <=> Occurrences(q, x) = {}
  BY <1>3, <1>4, FS_EmptySet
<1> QED BY <1>3, <1>4, <1>5, <1>6 DEF Occurrences

LEMMA CountNone == \A x : Count(<<>>, x) = 0
<1>1. ASSUME NEW x PROVE Count(<<>>, x) = 0
  <2>1. {i \in DOMAIN <<>> : <<>>[i] = x} = {}
    OBVIOUS
  <2> QED BY <2>1, FS_EmptySet DEF Count
<1> QED BY <1>1

LEMMA CountOne ==
    ASSUME NEW x, NEW y
    PROVE  Count(<<x>>, y) = IF x = y THEN 1 ELSE 0
<1>1. CASE x = y
  <2>1. {i \in DOMAIN <<x>> : <<x>>[i] = y} = {1}
    BY <1>1
  <2> QED BY <1>1, <2>1, FS_Singleton DEF Count
<1>2. CASE x # y
  <2>1. {i \in DOMAIN <<x>> : <<x>>[i] = y} = {}
    BY <1>2
  <2> QED BY <1>2, <2>1, FS_EmptySet DEF Count
<1> QED BY <1>1, <1>2

LEMMA CountConcat ==
    ASSUME NEW S, NEW q \in Seq(S), NEW r \in Seq(S), NEW x
    PROVE  Count(q \o r, x) = Count(q, x) + Count(r, x)
<1> DEFINE n == Len(q)
           A == Occurrences(q, x)
           B == Occurrences(r, x)
           C == {i \in n + 1 .. n + Len(r) : r[i - n] = x}
           f == [i \in B |-> n + i]
<1>1. /\ n \in Nat /\ DOMAIN q = 1 .. n
      /\ Len(r) \in Nat /\ DOMAIN r = 1 .. Len(r)
  BY LenProperties
<1>2. /\ q \o r \in Seq(S) /\ Len(q \o r) = n + Len(r)
      /\ \A i \in 1 .. n + Len(r) :
            (q \o r)[i] = IF i <= n THEN q[i] ELSE r[i - n]
  BY ConcatProperties
<1>3. DOMAIN (q \o r) = 1 .. n + Len(r)
  BY <1>2, LenProperties
<1>4. Occurrences(q \o r, x) = A \cup C
  BY <1>1, <1>2, <1>3 DEF Occurrences
<1>5. A \cap C = {}
  BY <1>1 DEF Occurrences
<1>6. IsFiniteSet(A) /\ IsFiniteSet(B)
  BY CountIsNat
<1>7. f \in Bijection(B, C)
  <2>1. f \in [B -> C]
    BY <1>1 DEF Occurrences
  <2>2. ASSUME NEW i \in B, NEW j \in B, f[i] = f[j] PROVE i = j
    BY <1>1, <2>2 DEF Occurrences
  <2>3. ASSUME NEW k \in C PROVE \E i \in B : f[i] = k
    <3>1. k - n \in B /\ f[k - n] = k
      BY <1>1 DEF Occurrences
    <3> QED BY <3>1
  <2> QED BY <2>1, <2>2, <2>3 DEF Bijection, Injection, Surjection, IsInjective
<1>8. IsFiniteSet(C) /\ Cardinality(C) = Cardinality(B)
  BY <1>6, <1>7, FS_Bijection DEF ExistsBijection
<1> HIDE DEF A, B, C
<1>9. Cardinality(A \cup C) = Cardinality(A) + Cardinality(C)
  <2>1. Cardinality({}) = 0
    BY FS_EmptySet
  <2>2. Cardinality(A) \in Nat /\ Cardinality(C) \in Nat
    BY <1>6, <1>8, FS_CardinalityType
  <2>3. Cardinality(A \cup C)
        = Cardinality(A) + Cardinality(C) - Cardinality(A \cap C)
    BY <1>6, <1>8, FS_Union
  <2>4. Cardinality(A \cap C) = 0
    BY <1>5, <2>1
  <2> QED BY <2>2, <2>3, <2>4
<1>10. /\ Count(q, x) = Cardinality(A) /\ Count(r, x) = Cardinality(B)
       /\ Count(q \o r, x) = Cardinality(A \cup C)
  BY <1>2, <1>4, CountIsNat DEF A, B
<1> QED BY <1>8, <1>9, <1>10

One(y, x) == IF y = x THEN 1 ELSE 0

\* Another element at one place of a sequence.
ChangedAt(q, r, i, e) ==
    /\ DOMAIN r = DOMAIN q
    /\ \A j \in DOMAIN q : r[j] = IF j = i THEN e ELSE q[j]

LEMMA CountExcept ==
    ASSUME NEW S, NEW q \in Seq(S), NEW i \in 1 .. Len(q), NEW e \in S, NEW x,
           NEW r \in Seq(S), ChangedAt(q, r, i, e)
    PROVE  Count(r, x) + One(q[i], x) = Count(q, x) + One(e, x)
<1> DEFINE R == Occurrences(q, x) \ {i}
<1>1. /\ DOMAIN r = DOMAIN q
      /\ \A j \in DOMAIN q : r[j] = IF j = i THEN e ELSE q[j]
  BY DEF ChangedAt
<1>2. i \in DOMAIN q
  BY LenProperties
<1>3. /\ IsFiniteSet(R) /\ Cardinality(R) \in Nat
  BY CountIsNat, FS_RemoveElement, FS_CardinalityType
<1>4. Count(q, x) = Cardinality(R) + (IF q[i] = x THEN 1 ELSE 0)
  <2>1. CASE q[i] = x
    <3>1. Occurrences(q, x) = R \cup {i} /\ i \notin R
      BY <1>2, <2>1 DEF Occurrences
    <3>2. Cardinality(R \cup {i}) = Cardinality(R) + 1
      BY <1>3, <3>1, FS_AddElement
    <3>3. Count(q, x) = Cardinality(Occurrences(q, x))
      BY CountIsNat
    <3> QED BY <2>1, <3>1, <3>2, <3>3
  <2>2. CASE q[i] # x
    <3>1. Occurrences(q, x) = R
      BY <2>2 DEF Occurrences
    <3>2. Count(q, x) = Cardinality(R)
      BY <3>1, CountIsNat
    <3> HIDE DEF R
    <3> QED BY <1>3, <2>2, <3>2
  <2> QED BY <2>1, <2>2
<1>5. Count(r, x) = Cardinality(R) + (IF e = x THEN 1 ELSE 0)
  <2>1. CASE e = x
    <3>1. Occurrences(r, x) = R \cup {i} /\ i \notin R
      BY <1>1, <1>2, <2>1 DEF Occurrences
    <3>2. Cardinality(R \cup {i}) = Cardinality(R) + 1
      BY <1>3, <3>1, FS_AddElement
    <3>3. Count(r, x) = Cardinality(Occurrences(r, x))
      BY <1>1, CountIsNat
    <3> QED BY <2>1, <3>1, <3>2, <3>3
  <2>2. CASE e # x
    <3>1. Occurrences(r, x) = R
      BY <1>1, <2>2 DEF Occurrences
    <3>2. Count(r, x) = Cardinality(R)
      BY <1>1, <3>1, CountIsNat
    <3> HIDE DEF R
    <3> QED BY <1>3, <2>2, <3>2
  <2> QED BY <2>1, <2>2
<1> HIDE DEF R
<1> QED BY <1>3, <1>4, <1>5 DEF One

\* A sequence cut in two.
LEMMA CountSplit ==
    ASSUME NEW S, NEW q \in Seq(S), NEW k \in 0 .. Len(q), NEW x
    PROVE  /\ SubSeq(q, 1, k) \in Seq(S) /\ SubSeq(q, k + 1, Len(q)) \in Seq(S)
           /\ Len(SubSeq(q, 1, k)) = k
           /\ Count(q, x) = Count(SubSeq(q, 1, k), x)
                            + Count(SubSeq(q, k + 1, Len(q)), x)
<1>1. /\ Len(q) \in Nat /\ k \in Int /\ k + 1 \in Int /\ Len(q) \in Int
      /\ \A i \in 1 .. Len(q) : q[i] \in S
  BY LenProperties, ElementOfSeq
<1>2. SubSeq(q, 1, k) \in Seq(S) /\ Len(SubSeq(q, 1, k)) = k
  BY <1>1, SubSeqProperties
<1>3. SubSeq(q, k + 1, Len(q)) \in Seq(S)
  <2>1. \A i \in k + 1 .. Len(q) : q[i] \in S
    BY <1>1
  <2> QED BY <1>1, <2>1, SubSeqProperties
<1>4. SubSeq(q, 1, k) \o SubSeq(q, k + 1, Len(q)) = q
  <2>1. /\ 1 \in 1 .. Len(q) + 1 /\ k \in 1 - 1 .. Len(q)
        /\ Len(q) \in k .. Len(q)
    BY <1>1
  <2>2. SubSeq(q, 1, k) \o SubSeq(q, k + 1, Len(q)) = SubSeq(q, 1, Len(q))
    BY <2>1, ConcatAdjacentSubSeq
  <2> QED BY <2>2, SubSeqFull
<1>5. Count(SubSeq(q, 1, k) \o SubSeq(q, k + 1, Len(q)), x)
      = Count(SubSeq(q, 1, k), x) + Count(SubSeq(q, k + 1, Len(q)), x)
  BY <1>2, <1>3, CountConcat
<1> QED BY <1>2, <1>3, <1>4, <1>5

\* A sequence and the same without its element i.
LEMMA CountCut ==
    ASSUME NEW S, NEW q \in Seq(S), NEW i \in 1 .. Len(q), NEW x
    PROVE  /\ RemoveAt(q, i) \in Seq(S)
           /\ Count(q, x) = Count(RemoveAt(q, i), x)
                            + (IF q[i] = x THEN 1 ELSE 0)
<1> DEFINE before == SubSeq(q, 1, i - 1)
           after  == SubSeq(q, i + 1, Len(q))
<1>1. /\ Len(q) \in Nat /\ i - 1 \in 0 .. Len(q) /\ i \in 0 .. Len(q)
      /\ i - 1 + 1 = i /\ q[i] \in S
  BY LenProperties, ElementOfSeq
<1>2. /\ before \in Seq(S) /\ SubSeq(q, i, Len(q)) \in Seq(S)
      /\ Count(q, x) = Count(before, x) + Count(SubSeq(q, i, Len(q)), x)
  <2>1. /\ SubSeq(q, 1, i - 1) \in Seq(S)
        /\ SubSeq(q, i - 1 + 1, Len(q)) \in Seq(S)
        /\ Count(q, x) = Count(SubSeq(q, 1, i - 1), x)
                         + Count(SubSeq(q, i - 1 + 1, Len(q)), x)
    BY <1>1, CountSplit
  <2> QED BY <1>1, <2>1
<1>3. after \in Seq(S)
  BY <1>1, CountSplit
<1>4. SubSeq(q, i, Len(q)) = <<q[i]>> \o after
  <2>1. Len(q) \in i .. Len(q)
    BY <1>1
  <2> QED BY <2>1, SubSeqRecursiveFirst
<1>5. <<q[i]>> \in Seq(S)
  BY <1>1
<1> HIDE DEF before, after
<1>6. Count(<<q[i]>> \o after, x) = Count(<<q[i]>>, x) + Count(after, x)
  BY <1>3, <1>5, CountConcat
<1>7. Count(<<q[i]>>, x) = IF q[i] = x THEN 1 ELSE 0
  BY CountOne
<1>8. RemoveAt(q, i) = before \o after
  BY DEF RemoveAt, before, after
<1>9. /\ before \o after \in Seq(S)
      /\ Count(before \o after, x) = Count(before, x) + Count(after, x)
  BY <1>2, <1>3, CountConcat, ConcatProperties
<1>10. Count(before, x) \in Nat /\ Count(after, x) \in Nat
  BY <1>2, <1>3, CountIsNat
<1> QED BY <1>2, <1>4, <1>6, <1>7, <1>8, <1>9, <1>10

-----------------------------------------------------------------------------
(* Least elements, and sets of numbers that go on from each to the next.   *)

LEMMA LeastExists ==
    ASSUME NEW S \in SUBSET Nat, S # {}
    PROVE  \E m \in S : \A n \in S : m <= n
<1>1. PICK m \in S : \A n \in S : ~ (<<n, m>> \in OpToRel(<, Nat))
  BY NatLessThanWellFounded, WFMin
<1>2. \A n \in S : ~ (n < m)
  BY <1>1 DEF OpToRel
<1> QED BY <1>2

LEMMA GoesOn ==
    ASSUME NEW n \in Nat, NEW Good \in SUBSET Nat, 0 \in Good,
           \A k \in 1 .. n : k - 1 \in Good => k \in Good
    PROVE  n \in Good
<1> DEFINE Bad == (0 .. n) \ Good
<1>1. SUFFICES ASSUME Bad # {} PROVE FALSE
  OBVIOUS
<1>2. Bad \in SUBSET Nat
  OBVIOUS
<1>3. PICK m \in Bad : \A k \in Bad : m <= k
  BY <1>1, <1>2, LeastExists
<1>4. m \in 1 .. n /\ m - 1 \in 0 .. n
  BY <1>3
<1>5. m - 1 \notin Bad
  BY <1>3, <1>4
<1> QED BY <1>3, <1>4, <1>5

\* SetStep's index: an element of the set, if there is one.
LEMMA EarliestExists ==
    ASSUME NEW n \in Nat, NEW S \in SUBSET (1 .. n), S # {}
    PROVE  Earliest(S) \in S
<1>1. S \in SUBSET Nat
  OBVIOUS
<1>2. \E i \in S : \A j \in S : i <= j
  BY <1>1, LeastExists
<1> QED BY <1>2 DEF Earliest

LEMMA GreatestExists ==
    ASSUME NEW n \in Nat, NEW S \in SUBSET (1 .. n), S # {}
    PROVE  \E m \in S : \A i \in S : m >= i
<1> DEFINE Bounds == {m \in Nat : \A i \in S : i <= m}
<1>1. n \in Bounds /\ Bounds \in SUBSET Nat
  OBVIOUS
<1>2. PICK m \in Bounds : \A k \in Bounds : m <= k
  BY <1>1, LeastExists
<1>3. m \in S
  <2>1. SUFFICES ASSUME m \notin S PROVE FALSE
    OBVIOUS
  <2>2. \A i \in S : i <= m - 1
    BY <2>1
  <2>3. m - 1 \in Nat
    <3>1. PICK i \in S : i <= m - 1
      BY <2>2
    <3> QED BY <3>1
  <2>4. m - 1 \in Bounds
    BY <2>2, <2>3
  <2> QED BY <1>2, <2>4
<1> QED BY <1>3

LEMMA LatestExists ==
    ASSUME NEW n \in Nat, NEW S \in SUBSET (1 .. n), S # {}
    PROVE  Latest(S) \in S
<1>1. \E i \in S : \A j \in S : i >= j
  BY GreatestExists
<1> QED BY <1>1 DEF Latest

LEMMA MaxInside ==
    ASSUME NEW n \in Nat, NEW s \in SUBSET (1 .. n), s # {}
    PROVE  Max(s) \in s /\ \A j \in s : Max(s) >= j
<1>1. \E i \in s : \A j \in s : i >= j
  BY GreatestExists
<1> QED BY <1>1 DEF Max

LEMMA MaxIs ==
    ASSUME NEW n \in Nat, NEW s \in SUBSET (1 .. n), n \in s
    PROVE  Max(s) = n
<1>1. Max(s) \in 1 .. n /\ Max(s) >= n
  BY MaxInside
<1> QED BY <1>1

-----------------------------------------------------------------------------
(* Folds over a sequence, unrolled from its first element to its last.     *)

\* What FoldLeft computes by, with the step of each index a function.
Unrolls(iter, n, base, G) ==
    \A s \in SUBSET (1 .. n) :
        iter[s] = IF s = {} THEN base ELSE G[Max(s)][iter[s \ {Max(s)}]]

LEMMA FoldExists ==
    ASSUME NEW n \in Nat, NEW X, NEW base \in X, NEW G \in [1 .. n -> [X -> X]]
    PROVE  \E iter \in [SUBSET (1 .. n) -> X] : Unrolls(iter, n, base, G)
<1> DEFINE Good == {k \in 0 .. n :
                       \E iter \in [SUBSET (1 .. k) -> X] : Unrolls(iter, k, base, G)}
<1>1. 0 \in Good
  <2> DEFINE iter == [s \in SUBSET (1 .. 0) |-> base]
  <2>1. 1 .. 0 = {}
    OBVIOUS
  <2>2. iter \in [SUBSET (1 .. 0) -> X]
    OBVIOUS
  <2>3. Unrolls(iter, 0, base, G)
    BY <2>1 DEF Unrolls
  <2> QED BY <2>2, <2>3
<1>2. ASSUME NEW k \in 1 .. n, k - 1 \in Good
      PROVE  k \in Good
  <2>1. PICK iter \in [SUBSET (1 .. k - 1) -> X] : Unrolls(iter, k - 1, base, G)
    BY <1>2
  <2> DEFINE more == [s \in SUBSET (1 .. k) |->
                         IF k \in s THEN G[k][iter[s \ {k}]] ELSE iter[s]]
  <2>2. ASSUME NEW s \in SUBSET (1 .. k)
        PROVE  s \ {k} \in SUBSET (1 .. k - 1) /\ (k \notin s => s \in SUBSET (1 .. k - 1))
    OBVIOUS
  <2>3. more \in [SUBSET (1 .. k) -> X]
    <3>1. ASSUME NEW s \in SUBSET (1 .. k) PROVE more[s] \in X
      BY <2>2
    <3> QED BY <3>1
  <2>4. ASSUME NEW s \in SUBSET (1 .. k)
        PROVE  more[s] = IF s = {} THEN base ELSE G[Max(s)][more[s \ {Max(s)}]]
    <3>1. CASE k \in s
      <4>1. Max(s) = k
        BY <3>1, MaxIs
      <4>2. more[s \ {k}] = iter[s \ {k}]
        BY <2>2
      <4> QED BY <3>1, <4>1, <4>2
    <3>2. CASE k \notin s
      <4>1. s \in SUBSET (1 .. k - 1) /\ s \ {Max(s)} \in SUBSET (1 .. k - 1)
        BY <2>2, <3>2
      <4>2. more[s] = iter[s] /\ more[s \ {Max(s)}] = iter[s \ {Max(s)}]
        BY <3>2, <4>1
      <4> QED BY <2>1, <4>1, <4>2 DEF Unrolls
    <3> QED BY <3>1, <3>2
  <2>5. Unrolls(more, k, base, G)
    BY <2>4 DEF Unrolls
  <2>6. k \in 0 .. n
    OBVIOUS
  <2> HIDE DEF more
  <2> QED BY <2>3, <2>5, <2>6
<1>3. Good \in SUBSET Nat
  OBVIOUS
<1> HIDE DEF Good
<1>4. n \in Good
  BY <1>1, <1>2, <1>3, GoesOn
<1> QED BY <1>4 DEF Good

\* The values on the way, one after each element.
Extends(iter, n, X, G) ==
    \A k \in 1 .. n : iter[1 .. k - 1] \in X =>
                         iter[1 .. k] = G[k][iter[1 .. k - 1]]

LeadsTo(after, n, base, last, G) ==
    /\ after[0] = base /\ after[n] = last
    /\ \A k \in 1 .. n : after[k] = G[k][after[k - 1]]

LEMMA FoldChain ==
    ASSUME NEW n \in Nat, NEW X, NEW base \in X, NEW G \in [1 .. n -> [X -> X]],
           NEW iter, iter[{}] = base, Extends(iter, n, X, G)
    PROVE  \E after \in [0 .. n -> X] : LeadsTo(after, n, base, iter[1 .. n], G)
<1> DEFINE after == [k \in 0 .. n |-> iter[1 .. k]]
           Good  == {k \in 0 .. n : iter[1 .. k] \in X}
<1>1. 1 .. 0 = {}
  OBVIOUS
<1>2. 0 \in Good
  BY <1>1
<1>3. ASSUME NEW k \in 1 .. n, k - 1 \in Good PROVE k \in Good
  BY <1>3 DEF Extends
<1>4. ASSUME NEW m \in 0 .. n PROVE m \in Good
  <2>1. m \in Nat /\ Good \in SUBSET Nat /\ \A k \in 1 .. m : k \in 1 .. n
    OBVIOUS
  <2> HIDE DEF Good
  <2> QED BY <1>2, <1>3, <2>1, GoesOn
<1>5. after \in [0 .. n -> X] /\ after[0] = base /\ after[n] = iter[1 .. n]
  BY <1>1, <1>4
<1>6. ASSUME NEW k \in 1 .. n PROVE after[k] = G[k][after[k - 1]]
  <2>1. k \in 0 .. n /\ k - 1 \in 0 .. n
    OBVIOUS
  <2> QED BY <1>4, <2>1 DEF Extends
<1> HIDE DEF after
<1>7. LeadsTo(after, n, base, iter[1 .. n], G)
  BY <1>5, <1>6 DEF LeadsTo
<1> QED BY <1>5, <1>7

LEMMA MaxOfInterval ==
    ASSUME NEW n \in Nat, NEW k \in 1 .. n
    PROVE  /\ Max(1 .. k) = k /\ 1 .. k # {} /\ 1 .. k \in SUBSET (1 .. n)
           /\ (1 .. k) \ {k} = 1 .. k - 1
<1>1. Max(1 .. k) = k
  BY MaxIs
<1> QED BY <1>1

LEMMA FoldRemoveFirst ==
    ASSUME NEW base \in Seq(Agents), NEW taken \in Seq(Agents),
           \A v \in Seq(Agents), a \in Agents : RemoveFirst(v, a) \in Seq(Agents)
    PROVE  \E after \in [0 .. Len(taken) -> Seq(Agents)] :
              /\ after[0] = base
              /\ \A k \in 1 .. Len(taken) :
                    after[k] = RemoveFirst(after[k - 1], taken[k])
              /\ after[Len(taken)] = FoldLeft(RemoveFirst, base, taken)
<1> DEFINE n == Len(taken)
           X == Seq(Agents)
           G == [k \in 1 .. n |-> [v \in X |-> RemoveFirst(v, taken[k])]]
           Eq(f) == f = [s \in SUBSET (1 .. n) |->
                            IF s = {} THEN base
                            ELSE RemoveFirst(f[s \ {Max(s)}], taken[Max(s)])]
           iter == CHOOSE f : Eq(f)
<1>1. /\ n \in Nat /\ DOMAIN taken = 1 .. n
      /\ \A k \in 1 .. n : taken[k] \in Agents
  BY LenProperties, ElementOfSeq
<1>2. /\ G \in [1 .. n -> [X -> X]]
      /\ \A k \in 1 .. n, v \in X : G[k][v] = RemoveFirst(v, taken[k])
  BY <1>1
<1>3. FoldLeft(RemoveFirst, base, taken) = iter[1 .. n]
  BY <1>1 DEF FoldLeft, MapThenFoldSet
<1>4. base \in X
  OBVIOUS
<1> HIDE DEF G, X, n
<1>5. PICK f \in [SUBSET (1 .. n) -> X] : Unrolls(f, n, base, G)
  BY <1>1, <1>2, <1>4, FoldExists
<1>6. Eq(f)
  <2>1. ASSUME NEW s \in SUBSET (1 .. n)
        PROVE  f[s] = IF s = {} THEN base
                      ELSE RemoveFirst(f[s \ {Max(s)}], taken[Max(s)])
    <3>1. CASE s = {}
      BY <1>5, <3>1 DEF Unrolls
    <3>2. CASE s # {}
      <4>1. Max(s) \in 1 .. n /\ s \ {Max(s)} \in SUBSET (1 .. n)
        BY <1>1, <3>2, MaxInside
      <4>2. f[s \ {Max(s)}] \in X
        BY <4>1
      <4>3. f[s] = G[Max(s)][f[s \ {Max(s)}]]
        BY <1>5, <3>2 DEF Unrolls
      <4> QED BY <1>2, <3>2, <4>1, <4>2, <4>3
    <3> QED BY <3>1, <3>2
  <2> QED BY <2>1
<1>7. Eq(iter)
  <2> HIDE DEF Eq
  <2> QED BY <1>6
<1>8. iter[{}] = base
  BY <1>7
<1> HIDE DEF iter
<1>9. ASSUME NEW k \in 1 .. n
      PROVE  iter[1 .. k] = RemoveFirst(iter[1 .. k - 1], taken[k])
  <2>1. /\ Max(1 .. k) = k /\ 1 .. k # {} /\ 1 .. k \in SUBSET (1 .. n)
        /\ (1 .. k) \ {k} = 1 .. k - 1
    BY <1>1, MaxOfInterval
  <2> QED BY <1>7, <2>1
<1>10. Extends(iter, n, X, G)
  BY <1>2, <1>9 DEF Extends
<1>11. PICK after \in [0 .. n -> X] : LeadsTo(after, n, base, iter[1 .. n], G)
  BY <1>1, <1>2, <1>4, <1>8, <1>10, FoldChain
<1>12. ASSUME NEW k \in 1 .. n
       PROVE  after[k] = RemoveFirst(after[k - 1], taken[k])
  <2>1. k - 1 \in 0 .. n
    BY <1>1
  <2>2. after[k - 1] \in X
    BY <2>1
  <2> QED BY <1>2, <1>11, <2>2 DEF LeadsTo
<1> QED BY <1>3, <1>11, <1>12 DEF X, n, LeadsTo

LEMMA FoldMarkDequeued ==
    ASSUME NEW X, NEW base \in X, NEW taken \in Seq(Agents),
           \A v \in X, a \in Agents : MarkDequeued(v, a) \in X
    PROVE  \E after \in [0 .. Len(taken) -> X] :
              /\ after[0] = base
              /\ \A k \in 1 .. Len(taken) :
                    after[k] = MarkDequeued(after[k - 1], taken[k])
              /\ after[Len(taken)] = FoldLeft(MarkDequeued, base, taken)
<1> DEFINE n == Len(taken)
           G == [k \in 1 .. n |-> [v \in X |-> MarkDequeued(v, taken[k])]]
           Eq(f) == f = [s \in SUBSET (1 .. n) |->
                            IF s = {} THEN base
                            ELSE MarkDequeued(f[s \ {Max(s)}], taken[Max(s)])]
           iter == CHOOSE f : Eq(f)
<1>1. /\ n \in Nat /\ DOMAIN taken = 1 .. n
      /\ \A k \in 1 .. n : taken[k] \in Agents
  BY LenProperties, ElementOfSeq
<1>2. /\ G \in [1 .. n -> [X -> X]]
      /\ \A k \in 1 .. n, v \in X : G[k][v] = MarkDequeued(v, taken[k])
  BY <1>1
<1>3. FoldLeft(MarkDequeued, base, taken) = iter[1 .. n]
  BY <1>1 DEF FoldLeft, MapThenFoldSet
<1>4. base \in X
  OBVIOUS
<1> HIDE DEF G, n
<1>5. PICK f \in [SUBSET (1 .. n) -> X] : Unrolls(f, n, base, G)
  BY <1>1, <1>2, <1>4, FoldExists
<1>6. Eq(f)
  <2>1. ASSUME NEW s \in SUBSET (1 .. n)
        PROVE  f[s] = IF s = {} THEN base
                      ELSE MarkDequeued(f[s \ {Max(s)}], taken[Max(s)])
    <3>1. CASE s = {}
      BY <1>5, <3>1 DEF Unrolls
    <3>2. CASE s # {}
      <4>1. Max(s) \in 1 .. n /\ s \ {Max(s)} \in SUBSET (1 .. n)
        BY <1>1, <3>2, MaxInside
      <4>2. f[s \ {Max(s)}] \in X
        BY <4>1
      <4>3. f[s] = G[Max(s)][f[s \ {Max(s)}]]
        BY <1>5, <3>2 DEF Unrolls
      <4> QED BY <1>2, <3>2, <4>1, <4>2, <4>3
    <3> QED BY <3>1, <3>2
  <2> QED BY <2>1
<1>7. Eq(iter)
  <2> HIDE DEF Eq
  <2> QED BY <1>6
<1>8. iter[{}] = base
  BY <1>7
<1> HIDE DEF iter
<1>9. ASSUME NEW k \in 1 .. n
      PROVE  iter[1 .. k] = MarkDequeued(iter[1 .. k - 1], taken[k])
  <2>1. /\ Max(1 .. k) = k /\ 1 .. k # {} /\ 1 .. k \in SUBSET (1 .. n)
        /\ (1 .. k) \ {k} = 1 .. k - 1
    BY <1>1, MaxOfInterval
  <2> QED BY <1>7, <2>1
<1>10. Extends(iter, n, X, G)
  BY <1>2, <1>9 DEF Extends
<1>11. PICK after \in [0 .. n -> X] : LeadsTo(after, n, base, iter[1 .. n], G)
  BY <1>1, <1>2, <1>4, <1>8, <1>10, FoldChain
<1>12. ASSUME NEW k \in 1 .. n
       PROVE  after[k] = MarkDequeued(after[k - 1], taken[k])
  <2>1. k - 1 \in 0 .. n
    BY <1>1
  <2>2. after[k - 1] \in X
    BY <2>1
  <2> QED BY <1>2, <1>11, <2>2 DEF LeadsTo
<1> QED BY <1>3, <1>11, <1>12 DEF n, LeadsTo

LEMMA FoldCompleteStep ==
    ASSUME NEW X, NEW base \in X, NEW taken \in Seq(Agents),
           \A v \in X, a \in Agents : CompleteStep(v, a) \in X
    PROVE  \E after \in [0 .. Len(taken) -> X] :
              /\ after[0] = base
              /\ \A k \in 1 .. Len(taken) :
                    after[k] = CompleteStep(after[k - 1], taken[k])
              /\ after[Len(taken)] = FoldLeft(CompleteStep, base, taken)
<1> DEFINE n == Len(taken)
           G == [k \in 1 .. n |-> [v \in X |-> CompleteStep(v, taken[k])]]
           Eq(f) == f = [s \in SUBSET (1 .. n) |->
                            IF s = {} THEN base
                            ELSE CompleteStep(f[s \ {Max(s)}], taken[Max(s)])]
           iter == CHOOSE f : Eq(f)
<1>1. /\ n \in Nat /\ DOMAIN taken = 1 .. n
      /\ \A k \in 1 .. n : taken[k] \in Agents
  BY LenProperties, ElementOfSeq
<1>2. /\ G \in [1 .. n -> [X -> X]]
      /\ \A k \in 1 .. n, v \in X : G[k][v] = CompleteStep(v, taken[k])
  BY <1>1
<1>3. FoldLeft(CompleteStep, base, taken) = iter[1 .. n]
  BY <1>1 DEF FoldLeft, MapThenFoldSet
<1>4. base \in X
  OBVIOUS
<1> HIDE DEF G, n
<1>5. PICK f \in [SUBSET (1 .. n) -> X] : Unrolls(f, n, base, G)
  BY <1>1, <1>2, <1>4, FoldExists
<1>6. Eq(f)
  <2>1. ASSUME NEW s \in SUBSET (1 .. n)
        PROVE  f[s] = IF s = {} THEN base
                      ELSE CompleteStep(f[s \ {Max(s)}], taken[Max(s)])
    <3>1. CASE s = {}
      BY <1>5, <3>1 DEF Unrolls
    <3>2. CASE s # {}
      <4>1. Max(s) \in 1 .. n /\ s \ {Max(s)} \in SUBSET (1 .. n)
        BY <1>1, <3>2, MaxInside
      <4>2. f[s \ {Max(s)}] \in X
        BY <4>1
      <4>3. f[s] = G[Max(s)][f[s \ {Max(s)}]]
        BY <1>5, <3>2 DEF Unrolls
      <4> QED BY <1>2, <3>2, <4>1, <4>2, <4>3
    <3> QED BY <3>1, <3>2
  <2> QED BY <2>1
<1>7. Eq(iter)
  <2> HIDE DEF Eq
  <2> QED BY <1>6
<1>8. iter[{}] = base
  BY <1>7
<1> HIDE DEF iter
<1>9. ASSUME NEW k \in 1 .. n
      PROVE  iter[1 .. k] = CompleteStep(iter[1 .. k - 1], taken[k])
  <2>1. /\ Max(1 .. k) = k /\ 1 .. k # {} /\ 1 .. k \in SUBSET (1 .. n)
        /\ (1 .. k) \ {k} = 1 .. k - 1
    BY <1>1, MaxOfInterval
  <2> QED BY <1>7, <2>1
<1>10. Extends(iter, n, X, G)
  BY <1>2, <1>9 DEF Extends
<1>11. PICK after \in [0 .. n -> X] : LeadsTo(after, n, base, iter[1 .. n], G)
  BY <1>1, <1>2, <1>4, <1>8, <1>10, FoldChain
<1>12. ASSUME NEW k \in 1 .. n
       PROVE  after[k] = CompleteStep(after[k - 1], taken[k])
  <2>1. k - 1 \in 0 .. n
    BY <1>1
  <2>2. after[k - 1] \in X
    BY <2>1
  <2> QED BY <1>2, <1>11, <2>2 DEF LeadsTo
<1> QED BY <1>3, <1>11, <1>12 DEF n, LeadsTo

-----------------------------------------------------------------------------
(* What the operations on a queue and on the steps do to the counts.       *)

LEMMA RemoveFirstCounts ==
    ASSUME NEW S, NEW q \in Seq(S), NEW a
    PROVE  /\ RemoveFirst(q, a) \in Seq(S)
           /\ Count(q, a) # 0 =>
                 \A x : Count(q, x) = Count(RemoveFirst(q, a), x)
                                      + (IF a = x THEN 1 ELSE 0)
<1> DEFINE I == {i \in 1 .. Len(q) : q[i] = a}
           first == SelectInSeq(q, LAMBDA v : v = a)
<1>1. Len(q) \in Nat /\ DOMAIN q = 1 .. Len(q)
  BY LenProperties
<1>2. CASE I = {}
  <2>1. RemoveFirst(q, a) = q
    BY <1>2 DEF RemoveFirst
  <2>2. Count(q, a) = 0
    BY <1>1, <1>2, CountIsNat
  <2> QED BY <2>1, <2>2
<1>3. CASE I # {}
  <2>1. first = Min(I)
    BY <1>3 DEF SelectInSeq
  <2>2. first \in I
    <3>1. I \in SUBSET Nat
      OBVIOUS
    <3>2. \E i \in I : \A j \in I : i <= j
      BY <1>3, <3>1, LeastExists
    <3> HIDE DEF I
    <3> QED BY <2>1, <3>2 DEF Min
  <2>3. RemoveFirst(q, a) = RemoveAt(q, first)
    BY <1>3 DEF RemoveFirst
  <2> HIDE DEF first
  <2>4. first \in 1 .. Len(q) /\ q[first] = a
    BY <2>2
  <2>5. RemoveAt(q, first) \in Seq(S)
    BY <2>4, CountCut
  <2>6. ASSUME NEW x
        PROVE  Count(q, x) = Count(RemoveAt(q, first), x)
                             + (IF a = x THEN 1 ELSE 0)
    <3>1. Count(q, x) = Count(RemoveAt(q, first), x)
                        + (IF q[first] = x THEN 1 ELSE 0)
      BY <2>4, CountCut
    <3> QED BY <2>4, <3>1
  <2> QED BY <2>3, <2>5, <2>6
<1> QED BY <1>2, <1>3

\* One more element of a sequence has been gone through.
LEMMA CountNext ==
    ASSUME NEW S, NEW q \in Seq(S), NEW k \in 1 .. Len(q), NEW x
    PROVE  /\ SubSeq(q, 1, k - 1) \in Seq(S)
           /\ Count(SubSeq(q, 1, k), x) = Count(SubSeq(q, 1, k - 1), x)
                                          + (IF q[k] = x THEN 1 ELSE 0)
           /\ Count(SubSeq(q, 1, k), x) <= Count(q, x)
<1> DEFINE before == SubSeq(q, 1, k - 1)
           upto   == SubSeq(q, 1, k)
           rest   == SubSeq(q, k + 1, Len(q))
           one    == <<q[k]>>
<1>1. /\ Len(q) \in Nat /\ k \in 0 .. Len(q) /\ k - 1 \in 0 .. Len(q)
      /\ q[k] \in S
  BY LenProperties, ElementOfSeq
<1>2. /\ upto \in Seq(S) /\ rest \in Seq(S)
      /\ Count(q, x) = Count(upto, x) + Count(rest, x)
  BY <1>1, CountSplit
<1>3. before \in Seq(S)
  BY <1>1, CountSplit
<1>4. upto = before \o one
  <2>1. 1 \in 1 .. Len(q) /\ k \in 1 .. Len(q)
    BY <1>1
  <2> QED BY <2>1, SubSeqRecursiveSecond
<1>5. one \in Seq(S)
  BY <1>1
<1>6. Count(one, x) = IF q[k] = x THEN 1 ELSE 0
  BY CountOne
<1> HIDE DEF before, upto, rest, one
<1>7. Count(before \o one, x) = Count(before, x) + Count(one, x)
  BY <1>3, <1>5, CountConcat
<1>8. Count(upto, x) \in Nat /\ Count(rest, x) \in Nat
  BY <1>2, CountIsNat
<1>9. /\ before \in Seq(S) /\ Count(upto, x) <= Count(q, x)
      /\ Count(upto, x) = Count(before, x) + (IF q[k] = x THEN 1 ELSE 0)
  BY <1>2, <1>3, <1>4, <1>6, <1>7, <1>8
<1> QED BY <1>9 DEF before, upto

\* splice, once for each agent taken
LEMMA WithoutCounts ==
    ASSUME NEW q \in Seq(Agents), NEW taken \in Seq(Agents)
    PROVE  /\ Without(q, taken) \in Seq(Agents)
           /\ (\A a \in Agents : Count(taken, a) <= Count(q, a)) =>
                 \A a \in Agents :
                     Count(q, a) = Count(Without(q, taken), a) + Count(taken, a)
<1> DEFINE n == Len(taken)
<1>1. \A v \in Seq(Agents), a \in Agents : RemoveFirst(v, a) \in Seq(Agents)
  BY RemoveFirstCounts
<1>2. PICK after \in [0 .. n -> Seq(Agents)] :
          /\ after[0] = q
          /\ \A k \in 1 .. n : after[k] = RemoveFirst(after[k - 1], taken[k])
          /\ after[n] = FoldLeft(RemoveFirst, q, taken)
  BY <1>1, FoldRemoveFirst
<1>3. n \in Nat /\ \A k \in 1 .. n : taken[k] \in Agents
  BY LenProperties, ElementOfSeq
<1>4. Without(q, taken) = after[n] /\ after[n] \in Seq(Agents)
  BY <1>2, <1>3 DEF Without
<1>5. ASSUME \A a \in Agents : Count(taken, a) <= Count(q, a),
             NEW b \in Agents
      PROVE  Count(q, b) = Count(Without(q, taken), b) + Count(taken, b)
  <2> DEFINE Upto(k) == SubSeq(taken, 1, k)
             Good == {k \in 0 .. n : \A a \in Agents :
                         Count(q, a) = Count(after[k], a) + Count(Upto(k), a)}
  <2>1. 0 \in Good
    <3>1. Upto(0) = <<>>
      BY SubSeqEmpty
    <3>2. \A a \in Agents : Count(q, a) \in Nat /\ Count(<<>>, a) = 0
      BY CountIsNat, CountNone
    <3> HIDE DEF Upto
    <3> QED BY <1>2, <1>3, <3>1, <3>2
  <2>2. ASSUME NEW k \in 1 .. n, k - 1 \in Good PROVE k \in Good
    <3> DEFINE x == taken[k]
    <3>1. x \in Agents /\ k - 1 \in 0 .. n /\ k \in 0 .. n
      BY <1>3
    <3>2. after[k - 1] \in Seq(Agents) /\ after[k] = RemoveFirst(after[k - 1], x)
      BY <1>2, <3>1
    <3>3. \A a \in Agents : Count(q, a) = Count(after[k - 1], a)
                                          + Count(Upto(k - 1), a)
      BY <2>2
    <3>4. ASSUME NEW a \in Agents
          PROVE  /\ Count(Upto(k), a)
                    = Count(Upto(k - 1), a)
                      + (IF x = a THEN 1 ELSE 0)
                 /\ Count(Upto(k), a) <= Count(taken, a)
                 /\ Count(Upto(k - 1), a) \in Nat
                 /\ Count(taken, a) \in Nat /\ Count(after[k - 1], a) \in Nat
                 /\ Count(after[k], a) \in Nat
      <4>1. /\ Upto(k - 1) \in Seq(Agents)
            /\ Count(Upto(k), a)
               = Count(Upto(k - 1), a) + (IF x = a THEN 1 ELSE 0)
            /\ Count(Upto(k), a) <= Count(taken, a)
        BY CountNext
      <4>2. after[k] \in Seq(Agents)
        BY <3>1
      <4> QED BY <3>2, <4>1, <4>2, CountIsNat
    <3> HIDE DEF x, Upto
    <3>5. Count(after[k - 1], x) # 0
      BY <1>5, <3>1, <3>3, <3>4
    <3>6. \A a : Count(after[k - 1], a) = Count(after[k], a)
                                          + (IF x = a THEN 1 ELSE 0)
      BY <3>2, <3>5, RemoveFirstCounts
    <3>7. ASSUME NEW a \in Agents
          PROVE  Count(q, a) = Count(after[k], a) + Count(Upto(k), a)
      <4>1. Count(after[k - 1], a) = Count(after[k], a) + (IF x = a THEN 1 ELSE 0)
        BY <3>6
      <4>2. /\ Count(Upto(k), a) = Count(Upto(k - 1), a) + (IF x = a THEN 1 ELSE 0)
            /\ Count(Upto(k - 1), a) \in Nat
            /\ Count(after[k - 1], a) \in Nat /\ Count(after[k], a) \in Nat
        BY <3>4
      <4>3. Count(q, a) = Count(after[k - 1], a) + Count(Upto(k - 1), a)
        BY <3>3
      <4> QED BY <4>1, <4>2, <4>3
    <3> QED BY <3>1, <3>7
  <2>3. Good \in SUBSET Nat
    OBVIOUS
  <2> HIDE DEF Good
  <2>4. n \in Good
    BY <1>3, <2>1, <2>2, <2>3, GoesOn
  <2> USE DEF Good
  <2>5. Upto(n) = taken
    BY SubSeqFull
  <2> QED BY <1>4, <2>4, <2>5
<1> QED BY <1>4, <1>5

Record(a, status) == [agent |-> a, status |-> status]

Number(s, a, status) == Cardinality(StepsOf(s, a, status))

LEMMA RecordsDiffer ==
    ASSUME NEW a \in Agents, NEW st \in Statuses
    PROVE  /\ Record(a, st) \in StepRecords
           /\ \A b, other : Record(a, st) = Record(b, other) <=> a = b /\ st = other
<1>1. Record(a, st) \in StepRecords
  BY DEF Record, StepRecords
<1>2. ASSUME NEW b, NEW other
      PROVE  Record(a, st) = Record(b, other) <=> a = b /\ st = other
  <2>1. /\ Record(a, st).agent = a /\ Record(a, st).status = st
        /\ Record(b, other).agent = b /\ Record(b, other).status = other
    BY DEF Record
  <2> QED BY <2>1
<1> QED BY <1>1, <1>2

LEMMA NumberIsCount ==
    ASSUME NEW s \in Seq(StepRecords), NEW a, NEW st
    PROVE  /\ StepsOf(s, a, st) = Occurrences(s, Record(a, st))
           /\ Number(s, a, st) = Count(s, Record(a, st))
           /\ Number(s, a, st) \in Nat
<1>1. StepsOf(s, a, st) = Occurrences(s, Record(a, st))
  BY DEF StepsOf, Occurrences, Record
<1> QED BY <1>1, CountIsNat DEF Number

\* One step of a goes from one status to another.
Moves(s, t, a, from, to) ==
    \A b \in Agents, st \in Statuses :
        Number(t, b, st) + (IF a = b /\ st = from THEN 1 ELSE 0)
        = Number(s, b, st) + (IF a = b /\ st = to THEN 1 ELSE 0)

LEMMA SetStepMoves ==
    ASSUME NEW s \in Seq(StepRecords), NEW a \in Agents,
           NEW from \in Statuses, NEW to \in Statuses,
           NEW i \in StepsOf(s, a, from)
    PROVE  /\ SetStep(s, i, to) \in Seq(StepRecords)
           /\ Len(SetStep(s, i, to)) = Len(s)
           /\ Moves(s, SetStep(s, i, to), a, from, to)
<1> DEFINE t == SetStep(s, i, to)
<1>1. /\ DOMAIN s = 1 .. Len(s) /\ Len(s) \in Nat
      /\ i \in 1 .. Len(s) /\ i # 0 /\ s[i] = Record(a, from)
  BY LenProperties DEF StepsOf, Record
<1>2. t = [s EXCEPT ![i] = Record(a, to)]
  <2>1. [s[i] EXCEPT !.status = to] = Record(a, to)
    BY <1>1 DEF Record
  <2>2. t = [s EXCEPT ![i] = [s[i] EXCEPT !.status = to]]
    BY <1>1 DEF SetStep
  <2> QED BY <2>1, <2>2
<1> HIDE DEF t
<1>3. Record(a, to) \in StepRecords
  BY RecordsDiffer
<1>4. t \in Seq(StepRecords) /\ Len(t) = Len(s) /\ ChangedAt(s, t, i, Record(a, to))
  BY <1>1, <1>2, <1>3, ExceptSeq DEF ChangedAt
<1>5. ASSUME NEW b \in Agents, NEW st \in Statuses
      PROVE  Number(t, b, st) + (IF a = b /\ st = from THEN 1 ELSE 0)
             = Number(s, b, st) + (IF a = b /\ st = to THEN 1 ELSE 0)
  <2>1. Count(t, Record(b, st)) + One(s[i], Record(b, st))
        = Count(s, Record(b, st)) + One(Record(a, to), Record(b, st))
    BY <1>1, <1>3, <1>4, CountExcept
  <2>2. /\ s[i] = Record(b, st) <=> a = b /\ st = from
        /\ Record(a, to) = Record(b, st) <=> a = b /\ st = to
    BY <1>1, RecordsDiffer
  <2>3. /\ Number(t, b, st) = Count(t, Record(b, st))
        /\ Number(s, b, st) = Count(s, Record(b, st))
    BY <1>4, NumberIsCount
  <2> QED BY <2>1, <2>2, <2>3 DEF One
<1>6. Moves(s, t, a, from, to)
  BY <1>5 DEF Moves
<1> QED BY <1>4, <1>6 DEF t

\* markDequeued and completeStep move a step of the agent if there is one.
LEMMA MarkDequeuedMoves ==
    ASSUME NEW s \in Seq(StepRecords), NEW a \in Agents
    PROVE  /\ MarkDequeued(s, a) \in Seq(StepRecords)
           /\ Len(MarkDequeued(s, a)) = Len(s)
           /\ Number(s, a, "queued") # 0 =>
                 Moves(s, MarkDequeued(s, a), a, "queued", "running")
<1> DEFINE Q == StepsOf(s, a, "queued")
<1>1. /\ Q \in SUBSET (1 .. Len(s)) /\ Len(s) \in Nat
      /\ "queued" \in Statuses /\ "running" \in Statuses
  BY LenProperties DEF StepsOf, Statuses
<1>2. CASE Q = {}
  <2>1. MarkDequeued(s, a) = s
    BY <1>2 DEF MarkDequeued, SetStep, Earliest
  <2>2. Number(s, a, "queued") = 0
    BY <1>2, FS_EmptySet DEF Number
  <2> QED BY <2>1, <2>2
<1>3. CASE Q # {}
  <2>1. Earliest(Q) \in Q
    BY <1>1, <1>3, EarliestExists
  <2> QED BY <1>1, <2>1, SetStepMoves DEF MarkDequeued
<1> QED BY <1>2, <1>3

LEMMA CompleteStepMoves ==
    ASSUME NEW s \in Seq(StepRecords), NEW a \in Agents
    PROVE  /\ CompleteStep(s, a) \in Seq(StepRecords)
           /\ Len(CompleteStep(s, a)) = Len(s)
           /\ Number(s, a, "running") # 0 =>
                 Moves(s, CompleteStep(s, a), a, "running", "completed")
<1> DEFINE R == StepsOf(s, a, "running")
<1>1. /\ R \in SUBSET (1 .. Len(s)) /\ Len(s) \in Nat
      /\ "completed" \in Statuses /\ "running" \in Statuses
  BY LenProperties DEF StepsOf, Statuses
<1>2. CASE R = {}
  <2>1. CompleteStep(s, a) = s
    BY <1>2 DEF CompleteStep, SetStep, Latest
  <2>2. Number(s, a, "running") = 0
    BY <1>2, FS_EmptySet DEF Number
  <2> QED BY <2>1, <2>2
<1>3. CASE R # {}
  <2>1. Latest(R) \in R
    BY <1>1, <1>3, LatestExists
  <2> QED BY <1>1, <2>1, SetStepMoves DEF CompleteStep
<1> QED BY <1>2, <1>3

\* A run of such moves, one for each agent taken: the numbers of the two
\* statuses change by as many as were taken, the third one stays.
Moved(s, t, taken, from, to) ==
    \A a \in Agents, st \in Statuses :
        Number(t, a, st) + (IF st = from THEN Count(taken, a) ELSE 0)
        = Number(s, a, st) + (IF st = to THEN Count(taken, a) ELSE 0)

LEMMA ManyMoves ==
    ASSUME NEW taken \in Seq(Agents),
           NEW from \in Statuses, NEW to \in Statuses, from # to,
           NEW after \in [0 .. Len(taken) -> Seq(StepRecords)],
           \A k \in 1 .. Len(taken) :
               Number(after[k - 1], taken[k], from) # 0 =>
                   Moves(after[k - 1], after[k], taken[k], from, to),
           \A a \in Agents : Count(taken, a) <= Number(after[0], a, from)
    PROVE  Moved(after[0], after[Len(taken)], taken, from, to)
<1> DEFINE n == Len(taken)
           Upto(k) == SubSeq(taken, 1, k)
           Good == {k \in 0 .. n : Moved(after[0], after[k], Upto(k), from, to)}
<1>1. n \in Nat /\ \A k \in 1 .. n : taken[k] \in Agents
  BY LenProperties, ElementOfSeq
<1>2. \A k \in 0 .. n : after[k] \in Seq(StepRecords)
  OBVIOUS
<1>3. \A k \in 0 .. n : \A a, st : Number(after[k], a, st) \in Nat
  BY <1>2, NumberIsCount
<1>4. 0 \in Good
  <2>1. Upto(0) = <<>>
    BY SubSeqEmpty
  <2> HIDE DEF Upto
  <2>2. Moved(after[0], after[0], <<>>, from, to)
    BY CountNone DEF Moved
  <2> QED BY <1>1, <2>1, <2>2
<1>5. ASSUME NEW k \in 1 .. n, k - 1 \in Good PROVE k \in Good
  <2> DEFINE x == taken[k]
  <2>1. x \in Agents /\ k - 1 \in 0 .. n /\ k \in 0 .. n /\ 0 \in 0 .. n
    BY <1>1
  <2>2. Moved(after[0], after[k - 1], Upto(k - 1), from, to)
    BY <1>5
  <2>3. ASSUME NEW a \in Agents
        PROVE  /\ Count(Upto(k), a) = Count(Upto(k - 1), a)
                                      + (IF x = a THEN 1 ELSE 0)
               /\ Count(Upto(k), a) <= Count(taken, a)
               /\ Count(Upto(k - 1), a) \in Nat /\ Count(taken, a) \in Nat
    <3>1. /\ Upto(k - 1) \in Seq(Agents)
          /\ Count(Upto(k), a) = Count(Upto(k - 1), a)
                                 + (IF x = a THEN 1 ELSE 0)
          /\ Count(Upto(k), a) <= Count(taken, a)
      BY CountNext
    <3> QED BY <3>1, CountIsNat
  <2> HIDE DEF x, Upto
  <2>4. Number(after[k - 1], x, from) # 0
    <3>1. Number(after[k - 1], x, from) + Count(Upto(k - 1), x)
          = Number(after[0], x, from)
      <4>1. Number(after[k - 1], x, from) + Count(Upto(k - 1), x)
            = Number(after[0], x, from) + 0
        BY <2>1, <2>2 DEF Moved
      <4> QED BY <1>3, <2>1, <4>1
    <3>2. Count(taken, x) <= Number(after[0], x, from)
      BY <2>1
    <3>3. /\ Count(Upto(k), x) = Count(Upto(k - 1), x) + 1
          /\ Count(Upto(k), x) <= Count(taken, x)
          /\ Count(Upto(k - 1), x) \in Nat /\ Count(taken, x) \in Nat
      BY <2>1, <2>3
    <3>4. Number(after[0], x, from) \in Nat /\ Number(after[k - 1], x, from) \in Nat
      BY <1>3, <2>1
    <3> QED BY <3>1, <3>2, <3>3, <3>4
  <2>5. Moves(after[k - 1], after[k], x, from, to)
    BY <2>4 DEF x
  <2>6. ASSUME NEW a \in Agents, NEW st \in Statuses
        PROVE  Number(after[k], a, st) + (IF st = from THEN Count(Upto(k), a) ELSE 0)
               = Number(after[0], a, st) + (IF st = to THEN Count(Upto(k), a) ELSE 0)
    <3>1. Number(after[k], a, st) + (IF x = a /\ st = from THEN 1 ELSE 0)
          = Number(after[k - 1], a, st) + (IF x = a /\ st = to THEN 1 ELSE 0)
      BY <2>5 DEF Moves
    <3>2. Number(after[k - 1], a, st)
          + (IF st = from THEN Count(Upto(k - 1), a) ELSE 0)
          = Number(after[0], a, st)
            + (IF st = to THEN Count(Upto(k - 1), a) ELSE 0)
      BY <2>2 DEF Moved
    <3>3. /\ Count(Upto(k), a) = Count(Upto(k - 1), a) + (IF x = a THEN 1 ELSE 0)
          /\ Count(Upto(k - 1), a) \in Nat
      BY <2>3
    <3>4. /\ Number(after[k], a, st) \in Nat /\ Number(after[k - 1], a, st) \in Nat
          /\ Number(after[0], a, st) \in Nat
      BY <1>3, <2>1
    <3> QED BY <3>1, <3>2, <3>3, <3>4
  <2>7. Moved(after[0], after[k], Upto(k), from, to)
    BY <2>6 DEF Moved
  <2> QED BY <2>1, <2>7
<1>6. Good \in SUBSET Nat
  OBVIOUS
<1> HIDE DEF Good
<1>7. n \in Good
  BY <1>1, <1>4, <1>5, <1>6, GoesOn
<1>8. Upto(n) = taken
  BY SubSeqFull
<1> QED BY <1>7, <1>8 DEF Good

LEMMA MarkAll ==
    ASSUME NEW s \in Seq(StepRecords), NEW taken \in Seq(Agents)
    PROVE  /\ FoldLeft(MarkDequeued, s, taken) \in Seq(StepRecords)
           /\ Len(FoldLeft(MarkDequeued, s, taken)) = Len(s)
           /\ (\A a \in Agents : Count(taken, a) <= Number(s, a, "queued")) =>
                 Moved(s, FoldLeft(MarkDequeued, s, taken), taken,
                       "queued", "running")
<1> DEFINE X == {v \in Seq(StepRecords) : Len(v) = Len(s)}
<1>1. /\ s \in X /\ X \subseteq Seq(StepRecords)
      /\ \A v \in X, a \in Agents : MarkDequeued(v, a) \in X
  BY MarkDequeuedMoves
<1>2. PICK after \in [0 .. Len(taken) -> X] :
          /\ after[0] = s
          /\ \A k \in 1 .. Len(taken) :
                after[k] = MarkDequeued(after[k - 1], taken[k])
          /\ after[Len(taken)] = FoldLeft(MarkDequeued, s, taken)
  BY <1>1, FoldMarkDequeued
<1>3. Len(taken) \in Nat /\ \A k \in 1 .. Len(taken) : taken[k] \in Agents
  BY LenProperties, ElementOfSeq
<1>4. ASSUME NEW k \in 1 .. Len(taken)
      PROVE  Number(after[k - 1], taken[k], "queued") # 0 =>
                 Moves(after[k - 1], after[k], taken[k], "queued", "running")
  <2>1. after[k - 1] \in Seq(StepRecords) /\ taken[k] \in Agents
    BY <1>3
  <2> QED BY <1>2, <2>1, MarkDequeuedMoves
<1>5. "queued" \in Statuses /\ "running" \in Statuses /\ "queued" # "running"
  BY DEF Statuses
<1>6. after \in [0 .. Len(taken) -> Seq(StepRecords)]
  BY <1>1
<1>7. (\A a \in Agents : Count(taken, a) <= Number(s, a, "queued")) =>
          Moved(after[0], after[Len(taken)], taken, "queued", "running")
  BY <1>2, <1>4, <1>5, <1>6, ManyMoves
<1> QED BY <1>2, <1>3, <1>7

LEMMA CompleteAll ==
    ASSUME NEW s \in Seq(StepRecords), NEW taken \in Seq(Agents)
    PROVE  /\ FoldLeft(CompleteStep, s, taken) \in Seq(StepRecords)
           /\ Len(FoldLeft(CompleteStep, s, taken)) = Len(s)
           /\ (\A a \in Agents : Count(taken, a) <= Number(s, a, "running")) =>
                 Moved(s, FoldLeft(CompleteStep, s, taken), taken,
                       "running", "completed")
<1> DEFINE X == {v \in Seq(StepRecords) : Len(v) = Len(s)}
<1>1. /\ s \in X /\ X \subseteq Seq(StepRecords)
      /\ \A v \in X, a \in Agents : CompleteStep(v, a) \in X
  BY CompleteStepMoves
<1>2. PICK after \in [0 .. Len(taken) -> X] :
          /\ after[0] = s
          /\ \A k \in 1 .. Len(taken) :
                after[k] = CompleteStep(after[k - 1], taken[k])
          /\ after[Len(taken)] = FoldLeft(CompleteStep, s, taken)
  BY <1>1, FoldCompleteStep
<1>3. Len(taken) \in Nat /\ \A k \in 1 .. Len(taken) : taken[k] \in Agents
  BY LenProperties, ElementOfSeq
<1>4. ASSUME NEW k \in 1 .. Len(taken)
      PROVE  Number(after[k - 1], taken[k], "running") # 0 =>
                 Moves(after[k - 1], after[k], taken[k], "running", "completed")
  <2>1. after[k - 1] \in Seq(StepRecords) /\ taken[k] \in Agents
    BY <1>3
  <2> QED BY <1>2, <2>1, CompleteStepMoves
<1>5. /\ "running" \in Statuses /\ "completed" \in Statuses
      /\ "running" # "completed"
  BY DEF Statuses
<1>6. after \in [0 .. Len(taken) -> Seq(StepRecords)]
  BY <1>1
<1>7. (\A a \in Agents : Count(taken, a) <= Number(s, a, "running")) =>
          Moved(after[0], after[Len(taken)], taken, "running", "completed")
  BY <1>2, <1>4, <1>5, <1>6, ManyMoves
<1> QED BY <1>2, <1>3, <1>7

\* applyAgentGraphRecommendation and prioritizeQueueByPolicy change the order
\* of a queue, not what is in it.
SameAgents(q, r) == \A a \in Agents : Count(r, a) = Count(q, a)

LEMMA ForemostSame ==
    ASSUME NEW q \in Seq(Agents), NEW a \in Agents
    PROVE  Foremost(q, a) \in Seq(Agents) /\ SameAgents(q, Foremost(q, a))
<1>1. CASE ~ Contains(q, a)
  BY <1>1 DEF Foremost, SameAgents
<1>2. CASE Contains(q, a)
  <2>1. RemoveFirst(q, a) \in Seq(Agents) /\ <<a>> \in Seq(Agents)
    BY RemoveFirstCounts
  <2>2. Count(q, a) # 0
    <3>1. DOMAIN q = 1 .. Len(q)
      BY LenProperties
    <3> QED BY <1>2, <3>1, CountIsNat DEF Contains
  <2>3. Foremost(q, a) = <<a>> \o RemoveFirst(q, a)
    BY <1>2 DEF Foremost
  <2>4. <<a>> \o RemoveFirst(q, a) \in Seq(Agents)
    BY <2>1, ConcatProperties
  <2>5. ASSUME NEW b \in Agents
        PROVE  Count(<<a>> \o RemoveFirst(q, a), b) = Count(q, b)
    <3>1. Count(<<a>> \o RemoveFirst(q, a), b)
          = Count(<<a>>, b) + Count(RemoveFirst(q, a), b)
      BY <2>1, CountConcat
    <3>2. Count(<<a>>, b) = IF a = b THEN 1 ELSE 0
      BY CountOne
    <3>3. Count(q, b) = Count(RemoveFirst(q, a), b) + (IF a = b THEN 1 ELSE 0)
      BY <2>2, RemoveFirstCounts
    <3>4. Count(RemoveFirst(q, a), b) \in Nat
      BY <2>1, CountIsNat
    <3> QED BY <3>1, <3>2, <3>3, <3>4
  <2> QED BY <2>3, <2>4, <2>5 DEF SameAgents
<1> QED BY <1>1, <1>2

LEMMA RankedSame ==
    ASSUME NEW q \in Seq(Agents), NEW rank, NEW r \in Ranked(q, rank)
    PROVE  r \in Seq(Agents) /\ SameAgents(q, r)
<1>1. DOMAIN q = 1 .. Len(q) /\ Len(q) \in Nat
  BY LenProperties
<1>2. r \in [1 .. Len(q) -> Agents]
  BY <1>1 DEF Ranked
<1>3. r \in Seq(Agents)
  BY <1>1, <1>2, SeqDef
<1> QED BY <1>3 DEF Ranked, SameAgents

LEMMA TakenFirst ==
    ASSUME NEW q \in Seq(Agents), NEW n \in Nat, n <= Len(q)
    PROVE  /\ SubSeq(q, 1, n) \in Seq(Agents)
           /\ SubSeq(q, n + 1, Len(q)) \in Seq(Agents)
           /\ \A a \in Agents : Count(SubSeq(q, 1, n), a) <= Count(q, a)
<1> DEFINE before == SubSeq(q, 1, n)
           rest   == SubSeq(q, n + 1, Len(q))
<1>1. n \in 0 .. Len(q)
  BY LenProperties
<1>2. before \in Seq(Agents) /\ rest \in Seq(Agents)
  BY <1>1, CountSplit
<1>3. ASSUME NEW a \in Agents PROVE Count(before, a) <= Count(q, a)
  <2>1. Count(q, a) = Count(before, a) + Count(rest, a)
    BY <1>1, CountSplit
  <2> HIDE DEF before, rest
  <2>2. Count(before, a) \in Nat /\ Count(rest, a) \in Nat
    BY <1>2, CountIsNat
  <2> QED BY <2>1, <2>2
<1> QED BY <1>2, <1>3

\* enqueueStep, once for each agent of a queue: as many queued steps.
StepsFor(q) == [i \in 1 .. Len(q) |-> Step(q[i])]

LEMMA StepsForCounts ==
    ASSUME NEW q \in Seq(Agents)
    PROVE  /\ StepsFor(q) \in Seq(StepRecords)
           /\ \A a \in Agents, st \in Statuses :
                 Count(StepsFor(q), Record(a, st))
                 = IF st = "queued" THEN Count(q, a) ELSE 0
<1>1. /\ Len(q) \in Nat /\ DOMAIN q = 1 .. Len(q)
      /\ \A i \in 1 .. Len(q) : q[i] \in Agents
  BY LenProperties, ElementOfSeq
<1>2. /\ DOMAIN StepsFor(q) = DOMAIN q
      /\ \A i \in DOMAIN q : StepsFor(q)[i] = Record(q[i], "queued")
  BY <1>1 DEF StepsFor, Step, Record
<1>3. \A i \in DOMAIN q : StepsFor(q)[i] \in StepRecords
  BY <1>1, <1>2, RecordsDiffer DEF Statuses
<1>4. StepsFor(q) \in Seq(StepRecords)
  <2>1. StepsFor(q) \in [1 .. Len(q) -> StepRecords]
    BY <1>1, <1>2, <1>3 DEF StepsFor
  <2> QED BY <1>1, <2>1, SeqDef
<1>5. ASSUME NEW a \in Agents, NEW st \in Statuses
      PROVE  Count(StepsFor(q), Record(a, st))
             = IF st = "queued" THEN Count(q, a) ELSE 0
  <2>1. \A i \in DOMAIN q : StepsFor(q)[i] = Record(a, st)
                                <=> q[i] = a /\ st = "queued"
    <3>1. "queued" \in Statuses
      BY DEF Statuses
    <3> QED BY <1>1, <1>2, <3>1, RecordsDiffer
  <2>2. CASE st = "queued"
    <3>1. Occurrences(StepsFor(q), Record(a, st)) = Occurrences(q, a)
      BY <1>2, <2>1, <2>2 DEF Occurrences
    <3> QED BY <2>2, <3>1, <1>4, CountIsNat
  <2>3. CASE st # "queued"
    <3>1. \A i \in DOMAIN StepsFor(q) : StepsFor(q)[i] # Record(a, st)
      BY <1>2, <2>1, <2>3
    <3> QED BY <2>3, <3>1, <1>4, CountIsNat
  <2> QED BY <2>2, <2>3
<1> QED BY <1>4, <1>5

-----------------------------------------------------------------------------
(* Whatever calls overlap: every queue is one of agents, and a call holds  *)
(* what exists.                                                            *)

Ops == {"none", "dequeue", "evaluate", "save", "restore"}

Stages == {"idle", "get", "cache", "revive", "order", "assign", "fetch", "take",
           "store", "complete", "persist", "finish", "push", "enqueue", "steps"}

CallRecords == [at : Stages, op : Ops, obj : Nat, array : Nat,
                agents : Seq(Agents), index : Nat]

\* What call record r relies on, where os are the objects, as the arrays
\* there are, and n is the number of step records.
Sound(r, os, as, n) ==
    /\ r.at # "idle" => r.op # "none"
    /\ r.at \notin {"idle", "get"} => r.obj \in os
    /\ r.at = "assign" => r.array \in as
    /\ r.at = "steps" => r.index <= n

IInv ==
    /\ arrays \in Seq(Seq(Agents)) /\ objects \in Seq(DOMAIN arrays)
    /\ live \in 0 .. Len(objects)
    /\ stored \in Seq(Agents) /\ jobs \in Seq(Agents)
    /\ steps \in Seq(StepRecords)
    /\ call \in [Callers -> CallRecords]
    /\ requested \in [Agents -> Nat] /\ handed \in [Agents -> Nat]
    /\ restarts \in Nat
    /\ \A c \in Callers :
          Sound(call[c], DOMAIN objects, DOMAIN arrays, Len(steps))

LEMMA Lengths ==
    ASSUME IInv
    PROVE  /\ Len(arrays) \in Nat /\ DOMAIN arrays = 1 .. Len(arrays)
           /\ Len(objects) \in Nat /\ DOMAIN objects = 1 .. Len(objects)
           /\ Len(steps) \in Nat /\ DOMAIN steps = 1 .. Len(steps)
           /\ \A i \in DOMAIN arrays : arrays[i] \in Seq(Agents)
           /\ \A i \in DOMAIN objects : objects[i] \in DOMAIN arrays
BY LenProperties, ElementOfSeq DEF IInv

\* The queue of the object a call holds.
LEMMA QueueType ==
    ASSUME IInv, NEW c \in Callers, call[c].at \notin {"idle", "get"}
    PROVE  /\ call[c] \in CallRecords
           /\ call[c].obj \in DOMAIN objects
           /\ objects[call[c].obj] \in DOMAIN arrays
           /\ Queue(c) = arrays[objects[call[c].obj]]
           /\ Queue(c) \in Seq(Agents)
<1>1. call[c] \in CallRecords /\ call[c].obj \in DOMAIN objects
  BY DEF IInv, Sound
<1> QED BY <1>1, Lengths DEF Queue

LEMMA QueueBecomesType ==
    ASSUME IInv, NEW c \in Callers, call[c].at \notin {"idle", "get"},
           NEW q \in Seq(Agents), QueueBecomes(c, q)
    PROVE  /\ arrays' \in Seq(Seq(Agents)) /\ Len(arrays') = Len(arrays)
           /\ DOMAIN arrays' = DOMAIN arrays
           /\ arrays'[objects[call[c].obj]] = q
           /\ \A i \in DOMAIN arrays : i # objects[call[c].obj] => arrays'[i] = arrays[i]
<1> DEFINE i == objects[call[c].obj]
<1>1. arrays \in Seq(Seq(Agents)) /\ i \in 1 .. Len(arrays)
      /\ DOMAIN arrays = 1 .. Len(arrays)
  BY QueueType, Lengths DEF IInv
<1>2. arrays' = [arrays EXCEPT ![i] = q]
  BY DEF QueueBecomes
<1> HIDE DEF i
<1>3. /\ arrays' \in Seq(Seq(Agents)) /\ Len(arrays') = Len(arrays)
      /\ \A j \in 1 .. Len(arrays) : arrays'[j] = IF j = i THEN q ELSE arrays[j]
  BY <1>1, <1>2, ExceptSeq
<1>4. DOMAIN arrays' = 1 .. Len(arrays')
  BY <1>3, LenProperties
<1> QED BY <1>1, <1>3, <1>4 DEF i

LEMMA AfterGetType ==
    ASSUME NEW op \in Ops, op # "none"
    PROVE  /\ AfterGet(op) \in Stages
           /\ AfterGet(op) \in {"order", "push", "store", "revive"}
BY DEF AfterGet, Ops, Stages

\* Nothing a call relies on goes away.
Keeps ==
    /\ DOMAIN objects \subseteq DOMAIN objects'
    /\ DOMAIN arrays \subseteq DOMAIN arrays'
    /\ Len(steps') \in Nat /\ Len(steps) <= Len(steps')

LEMMA CallGoesOn ==
    ASSUME IInv, NEW c \in Callers, NEW r \in CallRecords,
           call' = [call EXCEPT ![c] = r], Keeps,
           Sound(r, DOMAIN objects', DOMAIN arrays', Len(steps'))
    PROVE  /\ call' \in [Callers -> CallRecords]
           /\ \A d \in Callers :
                 Sound(call'[d], DOMAIN objects', DOMAIN arrays', Len(steps'))
<1>1. call' \in [Callers -> CallRecords] /\ call \in [Callers -> CallRecords]
  BY DEF IInv
<1>2. ASSUME NEW d \in Callers
      PROVE  Sound(call'[d], DOMAIN objects', DOMAIN arrays', Len(steps'))
  <2>1. CASE d = c
    BY <1>1, <2>1
  <2>2. CASE d # c
    <3>1. call'[d] = call[d] /\ call[d] \in CallRecords
      BY <1>1, <2>2
    <3>2. Sound(call[d], DOMAIN objects, DOMAIN arrays, Len(steps))
      BY DEF IInv
    <3>3. Len(steps) \in Nat /\ call[d].index \in Nat
      BY <3>1, Lengths DEF CallRecords
    <3> QED BY <3>1, <3>2, <3>3 DEF Sound, Keeps
  <2> QED BY <2>1, <2>2
<1> QED BY <1>1, <1>2

LEMMA NoCallSound ==
    /\ NoCall \in CallRecords
    /\ \A os, as, n : Sound(NoCall, os, as, n)
    /\ NoCall.at = "idle"
<1>1. <<>> \in Seq(Agents)
  OBVIOUS
<1> QED BY <1>1 DEF NoCall, CallRecords, Stages, Ops, Sound

LEMMA InitIInv == Init => IInv
<1> SUFFICES ASSUME Init PROVE IInv
  OBVIOUS
<1>1. Initial \in Seq(Agents)
  BY OrchestrationAssumption
<1>2. /\ arrays \in Seq(Seq(Agents)) /\ DOMAIN arrays = {1} /\ Len(objects) = 1
      /\ objects \in Seq(DOMAIN arrays) /\ live \in 0 .. Len(objects)
  BY <1>1 DEF Init
<1>3. stored \in Seq(Agents) /\ jobs \in Seq(Agents)
  BY <1>1, ConcatProperties DEF Init
<1>4. steps \in Seq(StepRecords)
  <2>1. steps = StepsFor(Initial)
    BY <1>1, LenProperties DEF Init, StepsFor
  <2> QED BY <1>1, <2>1, StepsForCounts
<1>5. call \in [Callers -> CallRecords] /\ \A c \in Callers : call[c] = NoCall
  BY NoCallSound DEF Init
<1>6. requested \in [Agents -> Nat] /\ handed \in [Agents -> Nat] /\ restarts \in Nat
  BY <1>1, CountIsNat DEF Init
<1> QED BY <1>2, <1>3, <1>4, <1>5, <1>6, NoCallSound DEF IInv

\* The same call, at another step.
LEMMA GotoType ==
    ASSUME IInv, NEW c \in Callers, NEW at \in Stages,
           NEW os, NEW as, NEW n, DOMAIN objects \subseteq os,
           at \notin {"idle", "get"} => call[c].at \notin {"idle", "get"},
           at # "idle" => call[c].at # "idle", at \notin {"assign", "steps"}
    PROVE  /\ [call[c] EXCEPT !.at = at] \in CallRecords
           /\ Sound([call[c] EXCEPT !.at = at], os, as, n)
<1> DEFINE r == [call[c] EXCEPT !.at = at]
<1>1. call[c] \in CallRecords
      /\ Sound(call[c], DOMAIN objects, DOMAIN arrays, Len(steps))
  BY DEF IInv
<1>2. /\ r \in CallRecords /\ r.at = at /\ r.op = call[c].op /\ r.obj = call[c].obj
  BY <1>1 DEF CallRecords
<1> QED BY <1>1, <1>2 DEF Sound

\* What is left of IInv when nothing changes but the call and, if at all, the
\* live object, the stored queue and the jobs.
LEMMA CallOnly ==
    ASSUME IInv, NEW c \in Callers, NEW r \in CallRecords,
           call' = [call EXCEPT ![c] = r], UNCHANGED <<arrays, objects, steps>>,
           Sound(r, DOMAIN objects, DOMAIN arrays, Len(steps)),
           live' \in 0 .. Len(objects), stored' \in Seq(Agents),
           jobs' \in Seq(Agents), handed' \in [Agents -> Nat],
           UNCHANGED <<requested, restarts>>
    PROVE  IInv'
<1>1. Keeps /\ Sound(r, DOMAIN objects', DOMAIN arrays', Len(steps'))
  BY Lengths DEF Keeps
<1>2. /\ call' \in [Callers -> CallRecords]
      /\ \A d \in Callers :
            Sound(call'[d], DOMAIN objects', DOMAIN arrays', Len(steps'))
  BY <1>1, CallGoesOn
<1> QED BY <1>2 DEF IInv

LEMMA BeginType ==
    ASSUME IInv, NEW c \in Callers, NEW op \in Ops \ {"none"},
           NEW agents \in Seq(Agents), NEW index \in Nat,
           Begin(c, op, agents, index)
    PROVE  IInv'
<1> DEFINE r == [NoCall EXCEPT !.at = "get", !.op = op,
                               !.agents = agents, !.index = index]
<1>1. call' = [call EXCEPT ![c] = r]
  BY DEF Begin
<1>2. r \in CallRecords /\ r.at = "get" /\ r.op = op
  BY DEF NoCall, CallRecords, Stages, Ops
<1>3. Sound(r, DOMAIN objects, DOMAIN arrays, Len(steps))
  BY <1>2 DEF Sound
<1> HIDE DEF r
<1> QED BY <1>1, <1>2, <1>3, CallOnly DEF Begin, history, IInv

LEMMA SeqMore ==
    ASSUME NEW S, NEW T, S \subseteq T, NEW q \in Seq(S)
    PROVE  q \in Seq(T)
<1>1. PICK n \in Nat : q \in [1 .. n -> S]
  BY SeqDef
<1>2. q \in [1 .. n -> T]
  BY <1>1
<1> QED BY <1>2, SeqDef

LEMMA GetType == ASSUME IInv, NEW c \in Callers, Get(c) PROVE IInv'
<1>1. /\ call[c] \in CallRecords /\ call[c].at = "get" /\ call[c].op # "none"
      /\ Sound(call[c], DOMAIN objects, DOMAIN arrays, Len(steps))
  BY DEF IInv, Get, At, Sound
<1>2. /\ AfterGet(call[c].op) \in Stages
      /\ AfterGet(call[c].op) \in {"order", "push", "store", "revive"}
  BY <1>1, AfterGetType DEF CallRecords
<1>3. CASE live # 0
  <2> DEFINE r == [call[c] EXCEPT !.obj = live, !.at = AfterGet(call[c].op)]
  <2>1. call' = [call EXCEPT ![c] = r]
    BY <1>3 DEF Get
  <2>2. live \in DOMAIN objects
    BY <1>3, Lengths DEF IInv
  <2>3. /\ r \in CallRecords /\ r.op = call[c].op /\ r.obj = live
        /\ r.at \in {"order", "push", "store", "revive"}
    <3>1. live \in Nat
      BY <2>2, Lengths
    <3> QED BY <1>1, <1>2, <3>1 DEF CallRecords
  <2> HIDE DEF r
  <2>4. Sound(r, DOMAIN objects, DOMAIN arrays, Len(steps))
    BY <1>1, <2>2, <2>3 DEF Sound
  <2> QED BY <1>3, <2>1, <2>3, <2>4, CallOnly DEF Get, history, IInv
<1>4. CASE live = 0
  <2> DEFINE r == [call[c] EXCEPT !.obj = Len(objects) + 1, !.at = "cache"]
  <2>1. call' = [call EXCEPT ![c] = r]
    BY <1>4 DEF Get
  <2>2. /\ arrays' = Append(arrays, stored)
        /\ objects' = Append(objects, Len(arrays) + 1)
        /\ UNCHANGED <<live, stored, jobs, steps, history>>
    BY <1>4 DEF Get
  <2>3. /\ arrays' \in Seq(Seq(Agents)) /\ Len(arrays') = Len(arrays) + 1
        /\ DOMAIN arrays' = 1 .. Len(arrays) + 1
    <3>1. arrays \in Seq(Seq(Agents)) /\ stored \in Seq(Agents)
      BY DEF IInv
    <3>2. /\ arrays' \in Seq(Seq(Agents)) /\ Len(arrays') = Len(arrays) + 1
      BY <2>2, <3>1, AppendProperties
    <3> QED BY <3>2, LenProperties
  <2>4. /\ objects' \in Seq(DOMAIN arrays') /\ Len(objects') = Len(objects) + 1
        /\ DOMAIN objects' = 1 .. Len(objects) + 1
    <3>1. objects \in Seq(DOMAIN arrays') /\ Len(arrays) + 1 \in DOMAIN arrays'
      BY <2>3, Lengths, SeqMore DEF IInv
    <3>2. /\ objects' \in Seq(DOMAIN arrays') /\ Len(objects') = Len(objects) + 1
      BY <2>2, <3>1, AppendProperties
    <3> QED BY <3>2, LenProperties
  <2>5. /\ r \in CallRecords /\ r.op = call[c].op /\ r.obj = Len(objects) + 1
        /\ r.at = "cache"
    <3>1. Len(objects) + 1 \in Nat
      BY Lengths
    <3> QED BY <1>1, <3>1 DEF CallRecords, Stages
  <2> HIDE DEF r
  <2>6. Sound(r, DOMAIN objects', DOMAIN arrays', Len(steps'))
    BY <1>1, <2>4, <2>5, Lengths DEF Sound
  <2>7. Keeps
    BY <2>2, <2>3, <2>4, Lengths DEF Keeps
  <2>8. /\ call' \in [Callers -> CallRecords]
        /\ \A d \in Callers :
              Sound(call'[d], DOMAIN objects', DOMAIN arrays', Len(steps'))
    BY <2>1, <2>5, <2>6, <2>7, CallGoesOn
  <2>9. live' \in 0 .. Len(objects')
    BY <2>2, <2>4, Lengths DEF IInv
  <2> QED BY <2>2, <2>3, <2>4, <2>8, <2>9 DEF IInv, history
<1> QED BY <1>3, <1>4

LEMMA CacheType == ASSUME IInv, NEW c \in Callers, Cache(c) PROVE IInv'
<1> DEFINE at == AfterGet(call[c].op)
           r  == [call[c] EXCEPT !.at = at]
<1>1. call[c].at = "cache" /\ call[c] \in CallRecords /\ call[c].op # "none"
  BY DEF IInv, Sound, Cache, At
<1>2. at \in Stages /\ at \in {"order", "push", "store", "revive"}
  BY <1>1, AfterGetType DEF CallRecords
<1>3. call' = [call EXCEPT ![c] = r]
  BY DEF Cache, Goto
<1>4. /\ r \in CallRecords
      /\ Sound(r, DOMAIN objects, DOMAIN arrays, Len(steps))
  BY <1>1, <1>2, GotoType
<1>5. Queue(c) \in Seq(Agents) /\ call[c].obj \in 0 .. Len(objects)
  BY <1>1, QueueType, Lengths
<1> HIDE DEF r
<1> QED BY <1>3, <1>4, <1>5, CallOnly DEF Cache, history, IInv

LEMMA ReviveType == ASSUME IInv, NEW c \in Callers, Revive(c) PROVE IInv'
<1>1. call[c].at = "revive"
  BY DEF Revive, At
<1>2. call[c].obj \in 0 .. Len(objects)
  BY <1>1, QueueType, Lengths
<1> QED BY <1>2, NoCallSound, CallOnly DEF Revive, history, IInv

LEMMA OrderType ==
    ASSUME IInv, NEW c \in Callers,
           NEW favourite \in Recommendations(Queue(c)), Order(c, favourite)
    PROVE  /\ IInv'
           /\ \E q \in Seq(Agents) : QueueBecomes(c, q) /\ SameAgents(Queue(c), q)
<1> DEFINE q == IF favourite = <<>> THEN Queue(c) ELSE Foremost(Queue(c), favourite[1])
           r == [call[c] EXCEPT !.array = objects[call[c].obj], !.at = "assign"]
<1>1. /\ call[c].at = "order" /\ QueueBecomes(c, q)
      /\ call' = [call EXCEPT ![c] = r]
      /\ UNCHANGED <<objects, live, stored, jobs, steps, history>>
  BY DEF Order, At
<1>2. /\ Queue(c) \in Seq(Agents) /\ call[c].obj \in DOMAIN objects
      /\ objects[call[c].obj] \in DOMAIN arrays /\ call[c] \in CallRecords
  BY <1>1, QueueType
<1>3. q \in Seq(Agents) /\ SameAgents(Queue(c), q)
  <2>1. CASE favourite = <<>>
    BY <1>2, <2>1 DEF SameAgents
  <2>2. CASE favourite # <<>>
    <3>1. PICK i \in DOMAIN Queue(c) : favourite = <<Queue(c)[i]>>
      BY <2>2 DEF Recommendations
    <3>2. favourite[1] \in Agents
      BY <1>2, <3>1, ElementOfSeq, LenProperties
    <3> QED BY <1>2, <2>2, <3>2, ForemostSame
  <2> QED BY <2>1, <2>2
<1> HIDE DEF q
<1>4. /\ arrays' \in Seq(Seq(Agents)) /\ DOMAIN arrays' = DOMAIN arrays
  BY <1>1, <1>3, QueueBecomesType
<1>5. /\ r \in CallRecords /\ r.at = "assign" /\ r.op = call[c].op
      /\ r.obj = call[c].obj /\ r.array = objects[call[c].obj]
  <2>1. objects[call[c].obj] \in Nat
    BY <1>2, Lengths
  <2> QED BY <1>2, <2>1 DEF CallRecords, Stages
<1>6. call[c].op # "none"
  BY <1>1 DEF IInv, Sound
<1> HIDE DEF r
<1>7. Sound(r, DOMAIN objects', DOMAIN arrays', Len(steps'))
  BY <1>1, <1>2, <1>4, <1>5, <1>6 DEF Sound
<1>keeps. Keeps
  BY <1>1, <1>4, <1>5, <1>7, Lengths DEF Keeps, history
<1>8. /\ call' \in [Callers -> CallRecords]
      /\ \A d \in Callers :
            Sound(call'[d], DOMAIN objects', DOMAIN arrays', Len(steps'))
  BY <1>1, <1>4, <1>5, <1>7, <1>keeps, CallGoesOn
<1>9. IInv'
  BY <1>1, <1>4, <1>8 DEF IInv, history
<1> QED BY <1>1, <1>3, <1>9

LEMMA AssignType ==
    ASSUME IInv, NEW c \in Callers, NEW rank, Assign(c, rank)
    PROVE  IInv'
<1> DEFINE r == [call[c] EXCEPT !.at = "fetch"]
<1>1. /\ call[c].at = "assign" /\ call' = [call EXCEPT ![c] = r]
      /\ UNCHANGED <<live, stored, steps, history>>
  BY DEF Assign, At, Goto
<1>2. PICK ordered \in Ranked(arrays[call[c].array], rank) :
          /\ arrays' = Append(arrays, ordered)
          /\ objects' = [objects EXCEPT ![call[c].obj] = Len(arrays) + 1]
          /\ jobs' = ordered
  BY DEF Assign
<1>3. /\ call[c].array \in DOMAIN arrays /\ call[c].obj \in DOMAIN objects
  BY <1>1 DEF IInv, Sound
<1>4. ordered \in Seq(Agents)
  BY <1>3, Lengths, RankedSame
<1>5. /\ arrays' \in Seq(Seq(Agents)) /\ Len(arrays') = Len(arrays) + 1
      /\ DOMAIN arrays' = 1 .. Len(arrays) + 1
  <2>1. arrays \in Seq(Seq(Agents))
    BY DEF IInv
  <2>2. /\ arrays' \in Seq(Seq(Agents)) /\ Len(arrays') = Len(arrays) + 1
    BY <1>2, <1>4, <2>1, AppendProperties
  <2> QED BY <2>2, LenProperties
<1>6. /\ objects' \in Seq(DOMAIN arrays') /\ Len(objects') = Len(objects)
      /\ DOMAIN objects' = DOMAIN objects
  <2>1. objects \in Seq(DOMAIN arrays') /\ Len(arrays) + 1 \in DOMAIN arrays'
    BY <1>5, Lengths, SeqMore DEF IInv
  <2>2. call[c].obj \in 1 .. Len(objects)
    BY <1>3, Lengths
  <2>3. /\ objects' \in Seq(DOMAIN arrays') /\ Len(objects') = Len(objects)
    BY <1>2, <2>1, <2>2, ExceptSeq
  <2> QED BY <2>3, Lengths, LenProperties
<1>7. /\ r \in CallRecords
      /\ Sound(r, DOMAIN objects', DOMAIN arrays', Len(steps'))
  BY <1>1, <1>6, GotoType DEF Stages
<1> HIDE DEF r
<1>keeps. Keeps
  BY <1>1, <1>5, <1>6, <1>7, Lengths DEF Keeps, history
<1>8. /\ call' \in [Callers -> CallRecords]
      /\ \A d \in Callers :
            Sound(call'[d], DOMAIN objects', DOMAIN arrays', Len(steps'))
  BY <1>1, <1>5, <1>6, <1>7, <1>keeps, CallGoesOn
<1> QED BY <1>1, <1>2, <1>4, <1>5, <1>6, <1>8 DEF IInv, history

LEMMA FillType == ASSUME IInv, NEW c \in Callers, Fill(c) PROVE IInv'
<1> DEFINE r == [call[c] EXCEPT !.at = "fetch"]
<1>1. call[c].at = "order" /\ call' = [call EXCEPT ![c] = r]
  BY DEF Fill, At, Goto
<1>2. /\ r \in CallRecords
      /\ Sound(r, DOMAIN objects, DOMAIN arrays, Len(steps))
  BY <1>1, GotoType DEF Stages
<1>3. Queue(c) \in Seq(Agents)
  BY <1>1, QueueType
<1> HIDE DEF r
<1> QED BY <1>1, <1>2, <1>3, CallOnly DEF Fill, history, IInv

LEMMA FetchType == ASSUME IInv, NEW c \in Callers, Fetch(c) PROVE IInv'
<1> DEFINE n == SmallerOf(call[c].index, Len(jobs))
           r == [call[c] EXCEPT !.agents = SubSeq(jobs, 1, n), !.at = "take"]
<1>1. /\ call[c].at = "fetch" /\ call' = [call EXCEPT ![c] = r]
      /\ jobs' = SubSeq(jobs, n + 1, Len(jobs))
      /\ UNCHANGED <<arrays, objects, live, stored, steps, history>>
  BY DEF Fetch, At
<1>2. /\ call[c] \in CallRecords /\ jobs \in Seq(Agents)
      /\ Sound(call[c], DOMAIN objects, DOMAIN arrays, Len(steps))
  BY DEF IInv
<1>3. n \in Nat /\ n <= Len(jobs)
  BY <1>2, LenProperties DEF SmallerOf, CallRecords
<1>4. SubSeq(jobs, 1, n) \in Seq(Agents) /\ jobs' \in Seq(Agents)
  BY <1>1, <1>2, <1>3, TakenFirst
<1>5. /\ r \in CallRecords /\ r.at = "take" /\ r.op = call[c].op
      /\ r.obj = call[c].obj
  BY <1>2, <1>4 DEF CallRecords, Stages
<1> HIDE DEF r
<1>6. Sound(r, DOMAIN objects, DOMAIN arrays, Len(steps))
  BY <1>1, <1>2, <1>5 DEF Sound
<1> QED BY <1>1, <1>4, <1>5, <1>6, CallOnly DEF history, IInv

LEMMA TakeType == ASSUME IInv, NEW c \in Callers, Take(c) PROVE IInv'
<1> DEFINE r == [call[c] EXCEPT !.at = "store"]
           q == Without(Queue(c), call[c].agents)
<1>1. /\ call[c].at = "take" /\ call' = [call EXCEPT ![c] = r]
      /\ steps' = FoldLeft(MarkDequeued, steps, call[c].agents)
      /\ QueueBecomes(c, q)
      /\ UNCHANGED <<objects, live, stored, jobs, history>>
  BY DEF Take, At, Goto
<1>2. Queue(c) \in Seq(Agents) /\ call[c].agents \in Seq(Agents)
  BY <1>1, QueueType DEF CallRecords
<1>3. q \in Seq(Agents)
  BY <1>2, WithoutCounts
<1> HIDE DEF q
<1>4. /\ arrays' \in Seq(Seq(Agents)) /\ DOMAIN arrays' = DOMAIN arrays
  BY <1>1, <1>3, QueueBecomesType
<1>5. steps' \in Seq(StepRecords) /\ Len(steps') = Len(steps)
  BY <1>1, <1>2, MarkAll DEF IInv
<1>6. /\ r \in CallRecords
      /\ Sound(r, DOMAIN objects', DOMAIN arrays', Len(steps'))
  BY <1>1, GotoType DEF Stages
<1> HIDE DEF r
<1>keeps. Keeps
  BY <1>1, <1>4, <1>5, <1>6, Lengths DEF Keeps, history
<1>7. /\ call' \in [Callers -> CallRecords]
      /\ \A d \in Callers :
            Sound(call'[d], DOMAIN objects', DOMAIN arrays', Len(steps'))
  BY <1>1, <1>4, <1>5, <1>6, <1>keeps, CallGoesOn
<1> QED BY <1>1, <1>4, <1>5, <1>7 DEF IInv, history

LEMMA StoreType == ASSUME IInv, NEW c \in Callers, Store(c) PROVE IInv'
<1>1. call[c].at = "store" /\ stored' = Queue(c)
  BY DEF Store, At
<1>2. Queue(c) \in Seq(Agents)
  BY <1>1, QueueType
<1>3. CASE call[c].op = "dequeue"
  <2> DEFINE r == [call[c] EXCEPT !.at = "complete"]
  <2>1. call' = [call EXCEPT ![c] = r]
    BY <1>3 DEF Store, Goto
  <2>2. /\ r \in CallRecords
        /\ Sound(r, DOMAIN objects, DOMAIN arrays, Len(steps))
    BY <1>1, GotoType DEF Stages
  <2> HIDE DEF r
  <2> QED BY <1>1, <1>2, <2>1, <2>2, CallOnly DEF Store, history, IInv
<1>4. CASE call[c].op # "dequeue"
  <2>1. call' = [call EXCEPT ![c] = NoCall]
    BY <1>4 DEF Store
  <2> QED BY <1>1, <1>2, <2>1, NoCallSound, CallOnly DEF Store, history, IInv
<1> QED BY <1>3, <1>4

LEMMA HandOverType ==
    ASSUME IInv, NEW c \in Callers, HandOver(c)
    PROVE  /\ handed' \in [Agents -> Nat]
           /\ \A a \in Agents : /\ Count(call[c].agents, a) \in Nat
                                /\ handed'[a] = handed[a] + Count(call[c].agents, a)
<1>1. call[c].agents \in Seq(Agents) /\ handed \in [Agents -> Nat]
  BY DEF IInv, CallRecords
<1>2. \A a \in Agents : Count(call[c].agents, a) \in Nat
  BY <1>1, CountIsNat
<1> QED BY <1>1, <1>2 DEF HandOver

LEMMA CompleteType == ASSUME IInv, NEW c \in Callers, Complete(c) PROVE IInv'
<1>1. /\ call[c].at = "complete"
      /\ steps' = FoldLeft(CompleteStep, steps, call[c].agents)
      /\ UNCHANGED <<arrays, objects, live, stored, jobs, requested, turns, ends,
                     restarts>>
  BY DEF Complete, At
<1>2. steps' \in Seq(StepRecords) /\ Len(steps') = Len(steps)
  BY <1>1, MarkAll, CompleteAll DEF IInv, CallRecords
<1>3. PICK r \in CallRecords :
          /\ call' = [call EXCEPT ![c] = r]
          /\ Sound(r, DOMAIN objects, DOMAIN arrays, Len(steps))
  <2>1. CASE Queue(c) = <<>>
    <3> DEFINE r == [call[c] EXCEPT !.at = "persist"]
    <3>1. call' = [call EXCEPT ![c] = r]
      BY <2>1 DEF Complete, Goto
    <3>2. /\ r \in CallRecords
          /\ Sound(r, DOMAIN objects, DOMAIN arrays, Len(steps))
      BY <1>1, GotoType DEF Stages
    <3> HIDE DEF r
    <3> QED BY <3>1, <3>2
  <2>2. CASE Queue(c) # <<>>
    <3>1. call' = [call EXCEPT ![c] = NoCall]
      BY <2>2 DEF Complete
    <3> QED BY <3>1, NoCallSound
  <2> QED BY <2>1, <2>2
<1>4. handed' \in [Agents -> Nat]
  <2>1. CASE Queue(c) = <<>>
    BY <2>1 DEF Complete, IInv
  <2>2. CASE Queue(c) # <<>>
    BY <2>2, HandOverType DEF Complete
  <2> QED BY <2>1, <2>2
<1>keeps. Keeps
  BY <1>1, <1>2, <1>3, Lengths DEF Keeps, history
<1>5. /\ call' \in [Callers -> CallRecords]
      /\ \A d \in Callers :
            Sound(call'[d], DOMAIN objects', DOMAIN arrays', Len(steps'))
  BY <1>1, <1>2, <1>3, <1>keeps, CallGoesOn
<1> QED BY <1>1, <1>2, <1>4, <1>5 DEF IInv

LEMMA PersistType == ASSUME IInv, NEW c \in Callers, Persist(c) PROVE IInv'
<1> DEFINE r == [call[c] EXCEPT !.at = "finish"]
<1>1. call[c].at = "persist" /\ call' = [call EXCEPT ![c] = r]
  BY DEF Persist, At, Goto
<1>2. /\ r \in CallRecords
      /\ Sound(r, DOMAIN objects, DOMAIN arrays, Len(steps))
  BY <1>1, GotoType DEF Stages
<1>3. Queue(c) \in Seq(Agents)
  BY <1>1, QueueType
<1> HIDE DEF r
<1> QED BY <1>1, <1>2, <1>3, CallOnly DEF Persist, history, IInv

LEMMA FinishType == ASSUME IInv, NEW c \in Callers, Finish(c) PROVE IInv'
<1>1. /\ handed' \in [Agents -> Nat] /\ <<>> \in Seq(Agents)
      /\ live' \in 0 .. Len(objects)
  BY HandOverType, Lengths DEF Finish
<1> QED BY <1>1, NoCallSound, CallOnly DEF Finish, IInv

LEMMA PushType == ASSUME IInv, NEW c \in Callers, Push(c) PROVE IInv'
<1> DEFINE next == call[c].agents
           q == Queue(c) \o next
           at == IF next = <<>> THEN "store" ELSE "enqueue"
           r == [call[c] EXCEPT !.at = at]
<1>1. /\ call[c].at = "push" /\ call' = [call EXCEPT ![c] = r]
      /\ QueueBecomes(c, q) /\ jobs' = q
      /\ requested' = [a \in Agents |-> requested[a] + Count(next, a)]
      /\ UNCHANGED <<objects, live, stored, steps, handed, restarts>>
  BY DEF Push, At, Goto
<1>2. Queue(c) \in Seq(Agents) /\ next \in Seq(Agents)
  BY <1>1, QueueType DEF CallRecords
<1>3. q \in Seq(Agents)
  BY <1>2, ConcatProperties
<1>4. requested' \in [Agents -> Nat]
  <2>1. \A a \in Agents : Count(next, a) \in Nat /\ requested[a] \in Nat
    BY <1>2, CountIsNat DEF IInv
  <2> QED BY <1>1, <2>1
<1>5. at \in {"store", "enqueue"} /\ at \in Stages
  BY DEF Stages
<1> HIDE DEF q, at
<1>6. /\ r \in CallRecords
      /\ Sound(r, DOMAIN objects', DOMAIN arrays', Len(steps'))
  BY <1>1, <1>5, GotoType
<1>7. /\ arrays' \in Seq(Seq(Agents)) /\ DOMAIN arrays' = DOMAIN arrays
  BY <1>1, <1>3, QueueBecomesType
<1> HIDE DEF r
<1>keeps. Keeps
  BY <1>1, <1>6, <1>7, Lengths DEF Keeps, history
<1>8. /\ call' \in [Callers -> CallRecords]
      /\ \A d \in Callers :
            Sound(call'[d], DOMAIN objects', DOMAIN arrays', Len(steps'))
  BY <1>1, <1>6, <1>7, <1>keeps, CallGoesOn
<1> QED BY <1>1, <1>3, <1>4, <1>7, <1>8 DEF IInv

LEMMA EnqueueType == ASSUME IInv, NEW c \in Callers, Enqueue(c) PROVE IInv'
<1> DEFINE r == [call[c] EXCEPT !.index = Len(steps), !.at = "steps"]
<1>1. call[c].at = "enqueue" /\ call' = [call EXCEPT ![c] = r]
  BY DEF Enqueue, At
<1>2. /\ call[c] \in CallRecords /\ jobs \in Seq(Agents)
      /\ Sound(call[c], DOMAIN objects, DOMAIN arrays, Len(steps))
  BY DEF IInv
<1>3. jobs' \in Seq(Agents)
  BY <1>2, ConcatProperties DEF Enqueue, CallRecords
<1>4. /\ r \in CallRecords /\ r.at = "steps" /\ r.op = call[c].op
      /\ r.obj = call[c].obj /\ r.index = Len(steps)
  BY <1>2, Lengths DEF CallRecords, Stages
<1> HIDE DEF r
<1>5. Sound(r, DOMAIN objects, DOMAIN arrays, Len(steps))
  BY <1>1, <1>2, <1>4, Lengths DEF Sound
<1> QED BY <1>1, <1>3, <1>4, <1>5, CallOnly DEF Enqueue, history, IInv

LEMMA EnqueueStepsType ==
    ASSUME IInv, NEW c \in Callers, EnqueueSteps(c)
    PROVE  IInv'
<1> DEFINE next == call[c].agents
           free == Len(steps) - call[c].index
           n    == Len(next) - SmallerOf(free, Len(next))
           more == [i \in 1 .. n |-> Step(next[i + free])]
           r    == [call[c] EXCEPT !.at = "store"]
<1>1. /\ call[c].at = "steps" /\ call' = [call EXCEPT ![c] = r]
      /\ steps' = steps \o more
      /\ UNCHANGED <<arrays, objects, live, stored, jobs, history>>
  BY DEF EnqueueSteps, At, Goto
<1>2. /\ call[c] \in CallRecords /\ call[c].index \in Nat
      /\ call[c].index <= Len(steps) /\ next \in Seq(Agents)
  BY <1>1 DEF IInv, Sound, CallRecords
<1>3. free \in Nat /\ n \in Nat /\ (free < Len(next) => n = Len(next) - free)
      /\ (free >= Len(next) => n = 0) /\ Len(next) \in Nat
  <2>1. free \in Nat /\ Len(next) \in Nat
    BY <1>2, Lengths, LenProperties
  <2> HIDE DEF free, next
  <2> QED BY <2>1 DEF SmallerOf
<1> HIDE DEF n, free
<1>4. more \in Seq(StepRecords) /\ Len(more) \in Nat
  <2>1. ASSUME NEW i \in 1 .. n PROVE Step(next[i + free]) \in StepRecords
    <3>1. i + free \in 1 .. Len(next)
      BY <1>3
    <3>2. next[i + free] \in Agents
      BY <1>2, <3>1, ElementOfSeq
    <3> QED BY <3>2 DEF Step, StepRecords, Statuses
  <2>2. more \in [1 .. n -> StepRecords]
    BY <2>1
  <2>3. more \in Seq(StepRecords)
    BY <1>3, <2>2, SeqDef
  <2> HIDE DEF more
  <2> QED BY <2>3, LenProperties
<1> HIDE DEF more
<1>5. /\ steps' \in Seq(StepRecords) /\ Len(steps') = Len(steps) + Len(more)
  BY <1>1, <1>4, ConcatProperties DEF IInv
<1>6. Len(steps') \in Nat /\ Len(steps) <= Len(steps')
  BY <1>4, <1>5, Lengths
<1>7. /\ r \in CallRecords
      /\ Sound(r, DOMAIN objects', DOMAIN arrays', Len(steps'))
  BY <1>1, GotoType DEF Stages
<1> HIDE DEF r
<1>keeps. Keeps
  BY <1>1, <1>6, <1>7, Lengths DEF Keeps, history
<1>8. /\ call' \in [Callers -> CallRecords]
      /\ \A d \in Callers :
            Sound(call'[d], DOMAIN objects', DOMAIN arrays', Len(steps'))
  BY <1>1, <1>6, <1>7, <1>keeps, CallGoesOn
<1> QED BY <1>1, <1>5, <1>8 DEF IInv, history

LEMMA RestartType == ASSUME IInv, Restart PROVE IInv'
<1>1. /\ arrays' = <<>> /\ objects' = <<>> /\ live' = 0
      /\ call' = [c \in Callers |-> NoCall] /\ restarts' = restarts + 1
      /\ UNCHANGED <<stored, requested, handed>>
  BY DEF Restart
<1>2. jobs' \in Seq(Agents) /\ steps' \in Seq(StepRecords)
  <2>1. CASE Durable
    BY <2>1 DEF Restart, IInv
  <2>2. CASE ~ Durable
    BY <2>2 DEF Restart
  <2> QED BY <2>1, <2>2
<1>3. /\ arrays' \in Seq(Seq(Agents)) /\ objects' \in Seq(DOMAIN arrays')
      /\ live' \in 0 .. Len(objects')
  BY <1>1
<1>4. /\ call' \in [Callers -> CallRecords]
      /\ \A c \in Callers : call'[c] = NoCall
  BY <1>1, NoCallSound
<1>5. restarts' \in Nat
  BY <1>1 DEF IInv
<1> QED BY <1>1, <1>2, <1>3, <1>4, <1>5, NoCallSound DEF IInv

\* The steps of a call, as Next lists them.
CallStep(c) ==
    \/ \E n \in 1 .. MaxBatch : Begin(c, "dequeue", <<>>, n)
    \/ \E next \in {<<>>} \cup {<<a>> : a \in Agents} : Begin(c, "evaluate", next, 0)
    \/ \E op \in {"save", "restore"} : Begin(c, op, <<>>, 0)
    \/ Get(c) \/ Cache(c) \/ Revive(c)
    \/ \E favourite \in Recommendations(Queue(c)) : Order(c, favourite)
    \/ \E rank \in Rankings : Assign(c, rank)
    \/ Fill(c) \/ Fetch(c) \/ Take(c) \/ Store(c) \/ Complete(c)
    \/ Persist(c) \/ Finish(c)
    \/ Push(c) \/ Enqueue(c) \/ EnqueueSteps(c)

LEMMA NextCases == Next => Restart \/ \E c \in Callers : CallStep(c)
BY DEF Next, CallStep

\* What a tool is called with.
LEMMA Arguments ==
    /\ \A next \in {<<>>} \cup {<<a>> : a \in Agents} : next \in Seq(Agents)
    /\ \A n \in 1 .. MaxBatch : n \in Nat
    /\ {"dequeue", "evaluate", "save", "restore"} \subseteq Ops \ {"none"}
<1>1. ASSUME NEW next \in {<<>>} \cup {<<a>> : a \in Agents}
      PROVE  next \in Seq(Agents)
  <2>1. CASE next = <<>>
    BY <2>1
  <2>2. CASE next # <<>>
    <3>1. PICK a \in Agents : next = <<a>>
      BY <2>2
    <3> QED BY <3>1
  <2> QED BY <2>1, <2>2
<1>2. \A n \in 1 .. MaxBatch : n \in Nat
  BY OrchestrationAssumption
<1>3. {"dequeue", "evaluate", "save", "restore"} \subseteq Ops \ {"none"}
  BY DEF Ops
<1> QED BY <1>1, <1>2, <1>3

LEMMA StepIInv == IInv /\ [Next]_vars => IInv'
<1> SUFFICES ASSUME IInv, [Next]_vars PROVE IInv'
  OBVIOUS
<1>1. CASE UNCHANGED vars
  BY <1>1 DEF vars, history, IInv
<1>2. CASE Restart
  BY <1>2, RestartType
<1>3. ASSUME NEW c \in Callers, CallStep(c) PROVE IInv'
  <2>1. ASSUME NEW n \in 1 .. MaxBatch, Begin(c, "dequeue", <<>>, n) PROVE IInv'
    <3>1. n \in Nat /\ <<>> \in Seq(Agents) /\ "dequeue" \in Ops \ {"none"}
      BY Arguments
    <3> QED BY <2>1, <3>1, BeginType
  <2>2. ASSUME NEW next \in {<<>>} \cup {<<a>> : a \in Agents},
               Begin(c, "evaluate", next, 0)
        PROVE  IInv'
    <3>1. next \in Seq(Agents) /\ 0 \in Nat /\ "evaluate" \in Ops \ {"none"}
      BY Arguments
    <3> QED BY <2>2, <3>1, BeginType
  <2>3. ASSUME NEW op \in {"save", "restore"}, Begin(c, op, <<>>, 0) PROVE IInv'
    <3>1. <<>> \in Seq(Agents) /\ 0 \in Nat /\ op \in Ops \ {"none"}
      BY Arguments
    <3> QED BY <2>3, <3>1, BeginType
  <2>4. ASSUME NEW favourite \in Recommendations(Queue(c)), Order(c, favourite)
        PROVE  IInv'
    BY <2>4, OrderType
  <2> QED BY <1>3, <2>1, <2>2, <2>3, <2>4, GetType, CacheType, ReviveType,
             AssignType, FillType, FetchType, TakeType, StoreType, CompleteType,
             PersistType, FinishType, PushType, EnqueueType, EnqueueStepsType
          DEF CallStep
<1> QED BY <1>1, <1>2, <1>3, NextCases

LEMMA Invariance == Spec => []IInv
<1> QED BY InitIInv, StepIInv, PTL DEF Spec

LEMMA IInvTypes == IInv => TypeOK
<1> SUFFICES ASSUME IInv PROVE TypeOK
  OBVIOUS
<1>1. \A i \in DOMAIN steps : steps[i].agent \in Agents
  <2>1. \A i \in DOMAIN steps : steps[i] \in StepRecords
    BY ElementOfSeq, Lengths DEF IInv
  <2> QED BY <2>1 DEF StepRecords
<1>2. \A c \in Callers :
         call[c].at \notin {"idle", "get"} => call[c].obj \in DOMAIN objects
  BY DEF IInv, Sound
<1> QED BY <1>1, <1>2 DEF IInv, TypeOK

\* Whatever calls of dequeue_next_agent, evaluate_triggers, save_ and
\* restore_orchestration_session overlap, and wherever the server restarts:
\* a call only works on a session object that exists, and every queue - of a
\* session, of the session store, of the queue store - is one of agents.
THEOREM WellTyped == Spec => []TypeOK
<1> QED BY Invariance, IInvTypes, PTL

-----------------------------------------------------------------------------
(* One call at a time.                                                     *)

OneCaller == \E c : Callers = {c}

\* The agents call c has taken and not yet handed over, before and after
\* their steps are completed; the agents whose steps it has yet to make.
Running(c) == IF call[c].op = "dequeue" /\ call[c].at \in {"store", "complete"}
              THEN call[c].agents ELSE <<>>
Done(c)    == IF call[c].at \in {"persist", "finish"} THEN call[c].agents ELSE <<>>
In(c)      == IF call[c].at \in {"enqueue", "steps"} THEN call[c].agents ELSE <<>>

\* The queue as call c sees it, or the next call will.
Waiting(c) == IF call[c].at \in {"idle", "get"} THEN SessionQueue ELSE Queue(c)

\* Where a call of each tool may be, and what it has in hand there.
Places(c) ==
    /\ call[c].at \in {"order", "assign", "fetch", "take", "complete",
                       "persist", "finish"} => call[c].op = "dequeue"
    /\ call[c].at \in {"push", "enqueue", "steps"} => call[c].op = "evaluate"
    /\ call[c].at = "cache" => live = 0
    /\ call[c].at \notin {"idle", "get", "cache"} => live = call[c].obj
    /\ call[c].at = "assign" => call[c].array = objects[call[c].obj]
    /\ call[c].at = "fetch" => jobs = Queue(c)
    /\ call[c].at = "take" =>
          \A x \in Agents : Count(call[c].agents, x) <= Count(Queue(c), x)
    /\ call[c].at = "steps" => call[c].index = Len(steps)

\* Where the session store is level with the session.
Stores(c) ==
    /\ call[c].at \in {"idle", "get"} /\ live # 0 => stored = SessionQueue
    /\ call[c].at \in {"cache", "order", "push", "revive", "complete", "finish"} =>
          stored = Queue(c)

\* No agent is handed out, in hand and waiting more often than it was put in
\* the queue, and without a restart not less often either.
Balance(c) ==
    \A x \in Agents :
        /\ handed[x] + Count(stored, x) <= requested[x]
        /\ handed[x] + Count(Running(c), x) + Count(Done(c), x)
           + Count(Waiting(c), x) <= requested[x]
        /\ restarts = 0 =>
              handed[x] + Count(Running(c), x) + Count(Done(c), x)
              + Count(Waiting(c), x) = requested[x]

\* The step records say the same of every agent.
StepsTell(c) ==
    restarts = 0 =>
        \A x \in Agents :
            /\ Number(steps, x, "queued") + Count(In(c), x) = Count(Waiting(c), x)
            /\ Number(steps, x, "running") = Count(Running(c), x)
            /\ Number(steps, x, "completed") = handed[x] + Count(Done(c), x)

Serial(c) == Places(c) /\ Stores(c) /\ Balance(c) /\ StepsTell(c)

SerialInv == IInv /\ \A c \in Callers : Serial(c)

LEMMA TallyTypes ==
    ASSUME IInv, NEW c \in Callers
    PROVE  /\ Running(c) \in Seq(Agents) /\ Done(c) \in Seq(Agents)
           /\ In(c) \in Seq(Agents) /\ Waiting(c) \in Seq(Agents)
           /\ SessionQueue \in Seq(Agents)
<1>1. call[c].agents \in Seq(Agents) /\ <<>> \in Seq(Agents)
  BY DEF IInv, CallRecords
<1>2. SessionQueue \in Seq(Agents)
  <2>1. CASE live = 0
    BY <2>1 DEF SessionQueue, IInv
  <2>2. CASE live # 0
    <3>1. live \in DOMAIN objects
      BY <2>2, Lengths DEF IInv
    <3> QED BY <2>2, <3>1, Lengths DEF SessionQueue
  <2> QED BY <2>1, <2>2
<1>3. Waiting(c) \in Seq(Agents)
  BY <1>2, QueueType DEF Waiting
<1> QED BY <1>1, <1>2, <1>3 DEF Running, Done, In

LEMMA Tallies ==
    ASSUME IInv, NEW c \in Callers, NEW x \in Agents
    PROVE  /\ Count(Running(c), x) \in Nat /\ Count(Done(c), x) \in Nat
           /\ Count(In(c), x) \in Nat /\ Count(Waiting(c), x) \in Nat
           /\ Count(stored, x) \in Nat
           /\ handed[x] \in Nat /\ requested[x] \in Nat
           /\ \A st : Number(steps, x, st) \in Nat
<1>1. stored \in Seq(Agents) /\ steps \in Seq(StepRecords)
  BY DEF IInv
<1>2. handed[x] \in Nat /\ requested[x] \in Nat
  BY DEF IInv
<1> QED BY <1>1, <1>2, TallyTypes, CountIsNat, NumberIsCount

\* A step that moves no agent: the store may have been brought level.
SameTally(c) ==
    /\ Running(c)' = Running(c) /\ Done(c)' = Done(c) /\ In(c)' = In(c)
    /\ SameAgents(Waiting(c), Waiting(c)')
    /\ stored' = stored \/ stored' = Waiting(c)
    /\ UNCHANGED <<handed, requested, steps, restarts>>

LEMMA TallyStays ==
    ASSUME IInv, NEW c \in Callers, Balance(c), StepsTell(c), SameTally(c)
    PROVE  Balance(c)' /\ StepsTell(c)'
<1>1. ASSUME NEW x \in Agents
      PROVE  /\ Count(Running(c)', x) = Count(Running(c), x)
             /\ Count(Done(c)', x) = Count(Done(c), x)
             /\ Count(In(c)', x) = Count(In(c), x)
             /\ Count(Waiting(c)', x) = Count(Waiting(c), x)
             /\ handed'[x] = handed[x] /\ requested'[x] = requested[x]
  BY DEF SameTally, SameAgents
<1>2. Balance(c)'
  <2> SUFFICES ASSUME NEW x \in Agents
               PROVE  /\ handed'[x] + Count(stored', x) <= requested'[x]
                      /\ handed'[x] + Count(Running(c)', x) + Count(Done(c)', x)
                         + Count(Waiting(c)', x) <= requested'[x]
                      /\ restarts' = 0 =>
                            handed'[x] + Count(Running(c)', x) + Count(Done(c)', x)
                            + Count(Waiting(c)', x) = requested'[x]
    BY DEF Balance
  <2>1. /\ handed[x] + Count(stored, x) <= requested[x]
        /\ handed[x] + Count(Running(c), x) + Count(Done(c), x)
           + Count(Waiting(c), x) <= requested[x]
        /\ restarts = 0 =>
              handed[x] + Count(Running(c), x) + Count(Done(c), x)
              + Count(Waiting(c), x) = requested[x]
    BY DEF Balance
  <2>2. Count(stored', x) = Count(stored, x) \/ Count(stored', x) = Count(Waiting(c), x)
    BY DEF SameTally
  <2>3. restarts' = restarts
    BY DEF SameTally
  <2> QED BY <1>1, <2>1, <2>2, <2>3, Tallies
<1>3. StepsTell(c)'
  <2> SUFFICES ASSUME restarts' = 0, NEW x \in Agents
               PROVE  /\ Number(steps', x, "queued") + Count(In(c)', x)
                         = Count(Waiting(c)', x)
                      /\ Number(steps', x, "running") = Count(Running(c)', x)
                      /\ Number(steps', x, "completed") = handed'[x] + Count(Done(c)', x)
    BY DEF StepsTell, Number, StepsOf
  <2>1. restarts = 0 /\ steps' = steps
    BY DEF SameTally
  <2>2. /\ Number(steps, x, "queued") + Count(In(c), x) = Count(Waiting(c), x)
        /\ Number(steps, x, "running") = Count(Running(c), x)
        /\ Number(steps, x, "completed") = handed[x] + Count(Done(c), x)
    BY <2>1 DEF StepsTell
  <2> QED BY <1>1, <2>1, <2>2
<1> QED BY <1>2, <1>3

LEMMA InitSerial == ASSUME Init, NEW c \in Callers PROVE Serial(c)
<1>1. /\ call[c] = NoCall /\ live = 1 /\ arrays = <<Initial>> /\ objects = <<1>>
      /\ stored = Initial /\ restarts = 0 /\ Initial \in Seq(Agents)
      /\ requested = [a \in Agents |-> Count(Initial, a)]
      /\ handed = [a \in Agents |-> 0]
  BY OrchestrationAssumption DEF Init
<1>2. /\ Running(c) = <<>> /\ Done(c) = <<>> /\ In(c) = <<>>
      /\ Waiting(c) = Initial /\ SessionQueue = Initial
  BY <1>1 DEF NoCall, Running, Done, In, Waiting, SessionQueue
<1>3. Places(c) /\ Stores(c)
  BY <1>1, <1>2 DEF NoCall, Places, Stores
<1>4. \A x \in Agents : Count(Initial, x) \in Nat /\ Count(<<>>, x) = 0
  BY <1>1, CountIsNat, CountNone
<1>5. Balance(c)
  BY <1>1, <1>2, <1>4 DEF Balance
<1>6. StepsTell(c)
  <2>1. steps = StepsFor(Initial)
    BY <1>1, LenProperties DEF Init, StepsFor
  <2>2. ASSUME NEW x \in Agents, NEW st \in Statuses
        PROVE  Number(steps, x, st) = IF st = "queued" THEN Count(Initial, x) ELSE 0
    BY <1>1, <2>1, StepsForCounts, NumberIsCount
  <2> QED BY <1>1, <1>2, <1>4, <2>2 DEF StepsTell, Statuses
<1> QED BY <1>3, <1>5, <1>6 DEF Serial

LEMMA BeginSerial ==
    ASSUME IInv, NEW c \in Callers, Serial(c), NEW op, NEW agents, NEW index,
           Begin(c, op, agents, index)
    PROVE  Serial(c)'
<1>1. /\ call[c].at = "idle" /\ call'[c].at = "get"
      /\ UNCHANGED <<arrays, objects, live, stored, jobs, steps, history>>
  BY DEF Begin, At, NoCall, IInv
<1>2. /\ Running(c)' = Running(c) /\ Done(c)' = Done(c) /\ In(c)' = In(c)
  BY <1>1 DEF Running, Done, In
<1>3. Waiting(c)' = Waiting(c) /\ SessionQueue' = SessionQueue
  BY <1>1 DEF Waiting, SessionQueue
<1>4. SameTally(c)
  BY <1>1, <1>2, <1>3 DEF SameTally, SameAgents, history
<1>5. Places(c)' /\ Stores(c)'
  BY <1>1, <1>3 DEF Serial, Places, Stores
<1> QED BY <1>4, <1>5, TallyStays DEF Serial

LEMMA AfterGetPlaces ==
    ASSUME NEW op \in Ops, op # "none"
    PROVE  /\ AfterGet(op) \in {"order", "push", "store", "revive"}
           /\ AfterGet(op) = "order" => op = "dequeue"
           /\ AfterGet(op) = "push" => op = "evaluate"
           /\ AfterGet(op) = "store" => op = "save"
BY DEF AfterGet, Ops

\* A call has its session: what it is for comes next.
LEMMA HasSession ==
    ASSUME NEW c \in Callers, NEW op \in Ops, op # "none",
           call'[c].op = op, call'[c].at = AfterGet(op), live' = call'[c].obj,
           stored' = Queue(c)'
    PROVE  /\ Running(c)' = <<>> /\ Done(c)' = <<>> /\ In(c)' = <<>>
           /\ Waiting(c)' = Queue(c)' /\ Places(c)' /\ Stores(c)'
<1> DEFINE at == AfterGet(op)
<1>1. /\ at \in {"order", "push", "store", "revive"}
      /\ at = "order" => op = "dequeue"
      /\ at = "push" => op = "evaluate"
      /\ at = "store" => op = "save"
  BY AfterGetPlaces
<1>2. call'[c].at = at
  OBVIOUS
<1> HIDE DEF at
<1> QED BY <1>1, <1>2 DEF Running, Done, In, Waiting, Places, Stores

LEMMA NothingInHand ==
    ASSUME NEW c \in Callers,
           call[c].at \in {"idle", "get", "cache", "revive", "order", "assign",
                           "fetch", "take"}
    PROVE  Running(c) = <<>> /\ Done(c) = <<>> /\ In(c) = <<>>
BY DEF Running, Done, In

LEMMA GetSerial == ASSUME IInv, NEW c \in Callers, Serial(c), Get(c) PROVE Serial(c)'
<1>1. /\ call[c].at = "get" /\ call[c] \in CallRecords /\ call[c].op # "none"
      /\ UNCHANGED <<live, stored, jobs, steps, history>>
      /\ call[c].op \in Ops
  BY DEF IInv, Get, At, Sound, CallRecords
<1>2. Running(c) = <<>> /\ Done(c) = <<>> /\ In(c) = <<>> /\ Waiting(c) = SessionQueue
  BY <1>1, NothingInHand DEF Waiting
<1>3. CASE live # 0
  <2>1. /\ call'[c].obj = live /\ call'[c].op = call[c].op
        /\ call'[c].at = AfterGet(call[c].op)
        /\ UNCHANGED <<arrays, objects>>
    BY <1>1, <1>3 DEF Get, IInv, CallRecords
  <2>2. Queue(c)' = SessionQueue /\ stored = SessionQueue
    BY <1>1, <1>3, <2>1 DEF Queue, SessionQueue, Serial, Stores
  <2>3. /\ Running(c)' = <<>> /\ Done(c)' = <<>> /\ In(c)' = <<>>
        /\ Waiting(c)' = Queue(c)' /\ Places(c)' /\ Stores(c)'
    BY <1>1, <2>1, <2>2, HasSession
  <2>4. SameTally(c)
    BY <1>1, <1>2, <2>2, <2>3 DEF SameTally, SameAgents, history
  <2> QED BY <2>3, <2>4, TallyStays DEF Serial
<1>4. CASE live = 0
  <2>1. /\ call'[c].obj = Len(objects) + 1 /\ call'[c].at = "cache"
        /\ arrays' = Append(arrays, stored)
        /\ objects' = Append(objects, Len(arrays) + 1)
    BY <1>1, <1>4 DEF Get, IInv, CallRecords
  <2>2. SessionQueue = stored
    BY <1>4 DEF SessionQueue
  <2>3. Queue(c)' = stored
    <3>1. /\ arrays \in Seq(Seq(Agents)) /\ stored \in Seq(Agents)
          /\ objects \in Seq(Nat) /\ Len(arrays) + 1 \in Nat
      BY Lengths, SeqMore DEF IInv
    <3>2. arrays'[Len(arrays) + 1] = stored
      BY <2>1, <3>1, AppendProperties
    <3>3. objects'[Len(objects) + 1] = Len(arrays) + 1
      BY <2>1, <3>1, AppendProperties
    <3> QED BY <2>1, <3>2, <3>3 DEF Queue
  <2>4. Running(c)' = <<>> /\ Done(c)' = <<>> /\ In(c)' = <<>> /\ Waiting(c)' = stored
    BY <2>1, <2>3 DEF Running, Done, In, Waiting
  <2>5. SameTally(c)
    BY <1>1, <1>2, <2>2, <2>4 DEF SameTally, SameAgents, history
  <2>6. Places(c)' /\ Stores(c)'
    BY <1>1, <1>4, <2>1, <2>3 DEF Places, Stores
  <2> QED BY <2>5, <2>6, TallyStays DEF Serial
<1> QED BY <1>3, <1>4

LEMMA CacheSerial ==
    ASSUME IInv, NEW c \in Callers, Serial(c), Cache(c) PROVE Serial(c)'
<1>1. /\ call[c].at = "cache" /\ call[c] \in CallRecords /\ call[c].op # "none"
      /\ call[c].op \in Ops
      /\ live' = call[c].obj /\ call'[c].obj = call[c].obj
      /\ call'[c].op = call[c].op /\ call'[c].at = AfterGet(call[c].op)
      /\ UNCHANGED <<arrays, objects, stored, steps, history>>
  BY DEF IInv, Cache, Goto, At, Sound, CallRecords
<1>2. Running(c) = <<>> /\ Done(c) = <<>> /\ In(c) = <<>> /\ Waiting(c) = Queue(c)
  BY <1>1, NothingInHand DEF Waiting
<1>3. Queue(c)' = Queue(c) /\ stored = Queue(c)
  BY <1>1 DEF Queue, Serial, Stores
<1>4. /\ Running(c)' = <<>> /\ Done(c)' = <<>> /\ In(c)' = <<>>
      /\ Waiting(c)' = Queue(c)' /\ Places(c)' /\ Stores(c)'
  BY <1>1, <1>3, HasSession
<1>5. SameTally(c)
  BY <1>1, <1>2, <1>3, <1>4 DEF SameTally, SameAgents, history
<1> QED BY <1>4, <1>5, TallyStays DEF Serial

\* A call is over: the session is as the store has it.
LEMMA CallOver ==
    ASSUME NEW c \in Callers, call'[c] = NoCall,
           live' # 0 => stored' = arrays'[objects'[live']]
    PROVE  /\ Running(c)' = <<>> /\ Done(c)' = <<>> /\ In(c)' = <<>>
           /\ Waiting(c)' = stored' /\ Places(c)' /\ Stores(c)'
<1>1. call'[c].at = "idle"
  BY DEF NoCall
<1>2. SessionQueue' = stored'
  BY DEF SessionQueue
<1> QED BY <1>1, <1>2 DEF Running, Done, In, Waiting, Places, Stores

LEMMA ReviveSerial ==
    ASSUME IInv, NEW c \in Callers, Serial(c), Revive(c) PROVE Serial(c)'
<1>1. /\ call[c].at = "revive" /\ call'[c] = NoCall /\ live' = call[c].obj
      /\ UNCHANGED <<arrays, objects, stored, jobs, steps, history>>
  BY DEF Revive, At, IInv
<1>2. Running(c) = <<>> /\ Done(c) = <<>> /\ In(c) = <<>> /\ Waiting(c) = Queue(c)
  BY <1>1, NothingInHand DEF Waiting
<1>3. stored = Queue(c) /\ Queue(c) = arrays[objects[call[c].obj]]
  BY <1>1 DEF Serial, Stores, Queue
<1>4. /\ Running(c)' = <<>> /\ Done(c)' = <<>> /\ In(c)' = <<>>
      /\ Waiting(c)' = stored' /\ Places(c)' /\ Stores(c)'
  BY <1>1, <1>3, CallOver
<1>5. SameTally(c)
  BY <1>1, <1>2, <1>3, <1>4 DEF SameTally, SameAgents, history
<1> QED BY <1>4, <1>5, TallyStays DEF Serial

LEMMA OrderSerial ==
    ASSUME IInv, NEW c \in Callers, Serial(c),
           NEW favourite \in Recommendations(Queue(c)), Order(c, favourite)
    PROVE  Serial(c)'
<1>1. /\ call[c].at = "order" /\ call'[c].at = "assign"
      /\ call'[c].op = call[c].op /\ call'[c].obj = call[c].obj
      /\ call'[c].array = objects[call[c].obj]
      /\ UNCHANGED <<objects, live, stored, jobs, steps, history>>
  BY DEF Order, At, IInv, CallRecords
<1>2. PICK q \in Seq(Agents) : QueueBecomes(c, q) /\ SameAgents(Queue(c), q)
  BY OrderType
<1>3. Queue(c)' = q
  BY <1>1, <1>2, QueueBecomesType DEF Queue
<1>4. Running(c) = <<>> /\ Done(c) = <<>> /\ In(c) = <<>> /\ Waiting(c) = Queue(c)
  BY <1>1, NothingInHand DEF Waiting
<1>5. Running(c)' = <<>> /\ Done(c)' = <<>> /\ In(c)' = <<>> /\ Waiting(c)' = q
  BY <1>1, <1>3 DEF Running, Done, In, Waiting
<1>6. SameTally(c)
  BY <1>1, <1>2, <1>4, <1>5 DEF SameTally, history
<1>7. Places(c)' /\ Stores(c)'
  BY <1>1 DEF Serial, Places, Stores
<1> QED BY <1>6, <1>7, TallyStays DEF Serial

LEMMA AssignSerial ==
    ASSUME IInv, NEW c \in Callers, Serial(c), NEW rank, Assign(c, rank)
    PROVE  Serial(c)'
<1>1. /\ call[c].at = "assign" /\ call'[c].at = "fetch"
      /\ call'[c].op = call[c].op /\ call'[c].obj = call[c].obj
      /\ UNCHANGED <<live, stored, steps, history>>
  BY DEF Assign, Goto, At, IInv, CallRecords
<1>2. PICK ordered \in Ranked(arrays[call[c].array], rank) :
          /\ arrays' = Append(arrays, ordered)
          /\ objects' = [objects EXCEPT ![call[c].obj] = Len(arrays) + 1]
          /\ jobs' = ordered
  BY DEF Assign
<1>3. /\ call[c].obj \in DOMAIN objects /\ objects[call[c].obj] \in DOMAIN arrays
      /\ Queue(c) = arrays[objects[call[c].obj]]
      /\ call[c].array = objects[call[c].obj]
  BY <1>1, QueueType DEF Serial, Places
<1>4. ordered \in Seq(Agents) /\ SameAgents(Queue(c), ordered)
  BY <1>3, Lengths, RankedSame
<1>5. Queue(c)' = ordered
  <2>1. arrays'[Len(arrays) + 1] = ordered
    BY <1>2, <1>4, AppendProperties DEF IInv
  <2>2. objects'[call[c].obj] = Len(arrays) + 1
    BY <1>2, <1>3
  <2> QED BY <1>1, <2>1, <2>2 DEF Queue
<1>6. Running(c) = <<>> /\ Done(c) = <<>> /\ In(c) = <<>> /\ Waiting(c) = Queue(c)
  BY <1>1, NothingInHand DEF Waiting
<1>7. Running(c)' = <<>> /\ Done(c)' = <<>> /\ In(c)' = <<>> /\ Waiting(c)' = ordered
  BY <1>1, <1>5 DEF Running, Done, In, Waiting
<1>8. SameTally(c)
  BY <1>1, <1>4, <1>6, <1>7 DEF SameTally, history
<1>9. Places(c)' /\ Stores(c)'
  BY <1>1, <1>2, <1>5 DEF Serial, Places, Stores
<1> QED BY <1>8, <1>9, TallyStays DEF Serial

LEMMA FillSerial ==
    ASSUME IInv, NEW c \in Callers, Serial(c), Fill(c) PROVE Serial(c)'
<1>1. /\ call[c].at = "order" /\ call'[c].at = "fetch"
      /\ call'[c].op = call[c].op /\ call'[c].obj = call[c].obj
      /\ jobs' = Queue(c)
      /\ UNCHANGED <<arrays, objects, live, stored, steps, history>>
  BY DEF Fill, Goto, At, IInv, CallRecords
<1>2. Queue(c)' = Queue(c)
  BY <1>1 DEF Queue
<1>3. Running(c) = <<>> /\ Done(c) = <<>> /\ In(c) = <<>> /\ Waiting(c) = Queue(c)
  BY <1>1, NothingInHand DEF Waiting
<1>4. Running(c)' = <<>> /\ Done(c)' = <<>> /\ In(c)' = <<>> /\ Waiting(c)' = Queue(c)
  BY <1>1, <1>2 DEF Running, Done, In, Waiting
<1>5. SameTally(c)
  BY <1>1, <1>3, <1>4 DEF SameTally, SameAgents, history
<1>6. Places(c)' /\ Stores(c)'
  BY <1>1, <1>2 DEF Serial, Places, Stores
<1> QED BY <1>5, <1>6, TallyStays DEF Serial

LEMMA FetchSerial ==
    ASSUME IInv, NEW c \in Callers, Serial(c), Fetch(c) PROVE Serial(c)'
<1> DEFINE n == SmallerOf(call[c].index, Len(jobs))
<1>1. /\ call[c].at = "fetch" /\ call'[c].at = "take"
      /\ call'[c].op = call[c].op /\ call'[c].obj = call[c].obj
      /\ call'[c].agents = SubSeq(jobs, 1, n)
      /\ UNCHANGED <<arrays, objects, live, stored, steps, history>>
  BY DEF Fetch, At, IInv, CallRecords
<1>2. jobs \in Seq(Agents) /\ jobs = Queue(c)
  BY <1>1 DEF IInv, Serial, Places
<1>3. n \in Nat /\ n <= Len(jobs)
  BY <1>2, LenProperties DEF IInv, SmallerOf, CallRecords
<1>4. \A x \in Agents : Count(call'[c].agents, x) <= Count(Queue(c), x)
  BY <1>1, <1>2, <1>3, TakenFirst
<1>5. Queue(c)' = Queue(c)
  BY <1>1 DEF Queue
<1>6. Running(c) = <<>> /\ Done(c) = <<>> /\ In(c) = <<>> /\ Waiting(c) = Queue(c)
  BY <1>1, NothingInHand DEF Waiting
<1>7. Running(c)' = <<>> /\ Done(c)' = <<>> /\ In(c)' = <<>> /\ Waiting(c)' = Queue(c)
  BY <1>1, <1>5 DEF Running, Done, In, Waiting
<1>8. SameTally(c)
  BY <1>1, <1>6, <1>7 DEF SameTally, SameAgents, history
<1>9. Places(c)' /\ Stores(c)'
  BY <1>1, <1>4, <1>5 DEF Serial, Places, Stores
<1> QED BY <1>8, <1>9, TallyStays DEF Serial

LEMMA TakeSerial ==
    ASSUME IInv, NEW c \in Callers, Serial(c), Take(c) PROVE Serial(c)'
<1> DEFINE taken == call[c].agents
           q == Without(Queue(c), taken)
<1>1. /\ call[c].at = "take" /\ call[c].op = "dequeue"
      /\ call'[c].at = "store" /\ call'[c].op = call[c].op
      /\ call'[c].obj = call[c].obj /\ call'[c].agents = taken
      /\ steps' = FoldLeft(MarkDequeued, steps, taken)
      /\ QueueBecomes(c, q)
      /\ UNCHANGED <<objects, live, stored, jobs, history>>
  BY DEF Take, Goto, At, IInv, CallRecords, Serial, Places
<1>2. /\ Queue(c) \in Seq(Agents) /\ taken \in Seq(Agents)
      /\ \A x \in Agents : Count(taken, x) <= Count(Queue(c), x)
  BY <1>1, QueueType DEF CallRecords, Serial, Places
<1>3. /\ q \in Seq(Agents)
      /\ \A x \in Agents : Count(Queue(c), x) = Count(q, x) + Count(taken, x)
  BY <1>2, WithoutCounts
<1> HIDE DEF q
<1>4. Queue(c)' = q
  BY <1>1, <1>3, QueueBecomesType DEF Queue
<1>5. Running(c) = <<>> /\ Done(c) = <<>> /\ In(c) = <<>> /\ Waiting(c) = Queue(c)
  BY <1>1, NothingInHand DEF Waiting
<1>6. Running(c)' = taken /\ Done(c)' = <<>> /\ In(c)' = <<>> /\ Waiting(c)' = q
  BY <1>1, <1>4 DEF Running, Done, In, Waiting
<1>7. Places(c)' /\ Stores(c)'
  BY <1>1 DEF Serial, Places, Stores
<1>8. ASSUME NEW x \in Agents
      PROVE  /\ Count(q, x) \in Nat /\ Count(taken, x) \in Nat
             /\ Count(<<>>, x) = 0
             /\ Count(Waiting(c), x) = Count(q, x) + Count(taken, x)
             /\ handed[x] \in Nat /\ requested[x] \in Nat /\ Count(stored, x) \in Nat
  BY <1>2, <1>3, <1>5, CountIsNat, CountNone, Tallies
<1>9. Balance(c)'
  <2> SUFFICES ASSUME NEW x \in Agents
               PROVE  /\ handed[x] + Count(stored, x) <= requested[x]
                      /\ handed[x] + Count(taken, x) + Count(<<>>, x) + Count(q, x)
                         <= requested[x]
                      /\ restarts = 0 =>
                            handed[x] + Count(taken, x) + Count(<<>>, x)
                            + Count(q, x) = requested[x]
    BY <1>1, <1>6 DEF Balance, history
  <2>1. /\ handed[x] + Count(stored, x) <= requested[x]
        /\ handed[x] + Count(<<>>, x) + Count(<<>>, x)
           + Count(Waiting(c), x) <= requested[x]
        /\ restarts = 0 =>
              handed[x] + Count(<<>>, x) + Count(<<>>, x)
              + Count(Waiting(c), x) = requested[x]
    BY <1>5 DEF Serial, Balance
  <2> QED BY <1>8, <2>1
<1>10. StepsTell(c)'
  <2> SUFFICES ASSUME restarts = 0, NEW x \in Agents
               PROVE  /\ Number(steps', x, "queued") + Count(<<>>, x) = Count(q, x)
                      /\ Number(steps', x, "running") = Count(taken, x)
                      /\ Number(steps', x, "completed") = handed[x] + Count(<<>>, x)
    BY <1>1, <1>6 DEF StepsTell, Number, StepsOf, history
  <2>1. \A y \in Agents :
           /\ Number(steps, y, "queued") + Count(<<>>, y) = Count(Waiting(c), y)
           /\ Number(steps, y, "running") = Count(<<>>, y)
           /\ Number(steps, y, "completed") = handed[y] + Count(<<>>, y)
    BY <1>5 DEF Serial, StepsTell
  <2>2. \A y \in Agents : Count(taken, y) <= Number(steps, y, "queued")
    <3> SUFFICES ASSUME NEW y \in Agents
                 PROVE  Count(taken, y) <= Number(steps, y, "queued")
      OBVIOUS
    <3>1. Number(steps, y, "queued") \in Nat
      BY Tallies
    <3>2. Number(steps, y, "queued") + Count(<<>>, y) = Count(Waiting(c), y)
      BY <2>1
    <3> QED BY <1>8, <3>1, <3>2
  <2>3. Moved(steps, steps', taken, "queued", "running")
    BY <1>1, <1>2, <2>2, MarkAll DEF IInv
  <2>4. steps' \in Seq(StepRecords)
    BY <1>1, <1>2, MarkAll DEF IInv
  <2>5. \A st : Number(steps, x, st) \in Nat /\ Number(steps', x, st) \in Nat
    BY <2>4, Tallies, NumberIsCount
  <2>6. /\ Number(steps', x, "queued") + Count(taken, x) = Number(steps, x, "queued") + 0
        /\ Number(steps', x, "running") + 0 = Number(steps, x, "running") + Count(taken, x)
        /\ Number(steps', x, "completed") + 0 = Number(steps, x, "completed") + 0
    BY <2>3 DEF Moved, Statuses
  <2>7. /\ Number(steps, x, "queued") + Count(<<>>, x) = Count(Waiting(c), x)
        /\ Number(steps, x, "running") = Count(<<>>, x)
        /\ Number(steps, x, "completed") = handed[x] + Count(<<>>, x)
    BY <2>1
  <2> QED BY <1>8, <2>5, <2>6, <2>7
<1> QED BY <1>7, <1>9, <1>10 DEF Serial

LEMMA StoreSerial ==
    ASSUME IInv, NEW c \in Callers, Serial(c), Store(c) PROVE Serial(c)'
<1>1. /\ call[c].at = "store" /\ stored' = Queue(c) /\ call[c] \in CallRecords
      /\ call \in [Callers -> CallRecords]
      /\ UNCHANGED <<arrays, objects, live, jobs, steps, history>>
  BY DEF Store, At, IInv
<1>2. /\ Done(c) = <<>> /\ In(c) = <<>> /\ Waiting(c) = Queue(c)
      /\ live = call[c].obj /\ Queue(c) = arrays[objects[call[c].obj]]
  BY <1>1 DEF Done, In, Waiting, Queue, Serial, Places
<1>3. CASE call[c].op = "dequeue"
  <2>1. /\ call'[c].at = "complete" /\ call'[c].op = call[c].op
        /\ call'[c].obj = call[c].obj /\ call'[c].agents = call[c].agents
    BY <1>1, <1>3 DEF Store, Goto, CallRecords
  <2>2. Queue(c)' = Queue(c)
    BY <1>1, <2>1 DEF Queue
  <2>3. /\ Running(c)' = Running(c) /\ Done(c)' = <<>> /\ In(c)' = <<>>
        /\ Waiting(c)' = Queue(c)
    BY <1>1, <1>3, <2>1, <2>2 DEF Running, Done, In, Waiting
  <2>4. SameTally(c)
    BY <1>1, <1>2, <2>3 DEF SameTally, SameAgents, history
  <2>5. Places(c)' /\ Stores(c)'
    BY <1>1, <1>2, <1>3, <2>1, <2>2 DEF Places, Stores
  <2> QED BY <2>4, <2>5, TallyStays DEF Serial
<1>4. CASE call[c].op # "dequeue"
  <2>1. call'[c] = NoCall
    BY <1>1, <1>4 DEF Store
  <2>2. Running(c) = <<>>
    BY <1>4 DEF Running
  <2>3. /\ Running(c)' = <<>> /\ Done(c)' = <<>> /\ In(c)' = <<>>
        /\ Waiting(c)' = stored' /\ Places(c)' /\ Stores(c)'
    BY <1>1, <1>2, <2>1, CallOver
  <2>4. SameTally(c)
    BY <1>1, <1>2, <2>2, <2>3 DEF SameTally, SameAgents, history
  <2> QED BY <2>3, <2>4, TallyStays DEF Serial
<1> QED BY <1>3, <1>4

LEMMA PersistSerial ==
    ASSUME IInv, NEW c \in Callers, Serial(c), Persist(c) PROVE Serial(c)'
<1>1. /\ call[c].at = "persist" /\ call[c].op = "dequeue" /\ stored' = Queue(c)
      /\ call'[c].at = "finish" /\ call'[c].op = call[c].op
      /\ call'[c].obj = call[c].obj /\ call'[c].agents = call[c].agents
      /\ UNCHANGED <<arrays, objects, live, jobs, steps, history>>
  BY DEF Persist, Goto, At, IInv, CallRecords, Serial, Places
<1>2. Queue(c)' = Queue(c) /\ live = call[c].obj
  BY <1>1 DEF Queue, Serial, Places
<1>3. /\ Running(c)' = Running(c) /\ Done(c)' = Done(c) /\ In(c)' = In(c)
      /\ Waiting(c)' = Queue(c) /\ Waiting(c) = Queue(c)
  BY <1>1, <1>2 DEF Running, Done, In, Waiting
<1>4. SameTally(c)
  BY <1>1, <1>3 DEF SameTally, SameAgents, history
<1>5. Places(c)' /\ Stores(c)'
  BY <1>1, <1>2 DEF Places, Stores
<1> QED BY <1>4, <1>5, TallyStays DEF Serial

LEMMA EnqueueSerial ==
    ASSUME IInv, NEW c \in Callers, Serial(c), Enqueue(c) PROVE Serial(c)'
<1>1. /\ call[c].at = "enqueue" /\ call[c].op = "evaluate"
      /\ call'[c].at = "steps" /\ call'[c].op = call[c].op
      /\ call'[c].obj = call[c].obj /\ call'[c].agents = call[c].agents
      /\ call'[c].index = Len(steps)
      /\ UNCHANGED <<arrays, objects, live, stored, steps, history>>
  BY DEF Enqueue, At, IInv, CallRecords, Serial, Places
<1>2. Queue(c)' = Queue(c) /\ live = call[c].obj
  BY <1>1 DEF Queue, Serial, Places
<1>3. /\ Running(c)' = Running(c) /\ Done(c)' = Done(c) /\ In(c)' = In(c)
      /\ Waiting(c)' = Queue(c) /\ Waiting(c) = Queue(c)
  BY <1>1, <1>2 DEF Running, Done, In, Waiting
<1>4. SameTally(c)
  BY <1>1, <1>3 DEF SameTally, SameAgents, history
<1>5. Places(c)' /\ Stores(c)'
  BY <1>1, <1>2 DEF Places, Stores
<1> QED BY <1>4, <1>5, TallyStays DEF Serial

LEMMA CompleteSerial ==
    ASSUME IInv, NEW c \in Callers, Serial(c), Complete(c) PROVE Serial(c)'
<1> DEFINE taken == call[c].agents
<1>1. /\ call[c].at = "complete" /\ call[c].op = "dequeue" /\ taken \in Seq(Agents)
      /\ call \in [Callers -> CallRecords]
      /\ steps' = FoldLeft(CompleteStep, steps, taken)
      /\ UNCHANGED <<arrays, objects, live, stored, jobs, requested, turns, ends,
                     restarts>>
  BY DEF Complete, At, IInv, CallRecords, Serial, Places
<1>2. /\ Running(c) = taken /\ Done(c) = <<>> /\ In(c) = <<>>
      /\ Waiting(c) = Queue(c) /\ stored = Queue(c)
      /\ live = call[c].obj /\ Queue(c) = arrays[objects[call[c].obj]]
  BY <1>1 DEF Running, Done, In, Waiting, Queue, Serial, Places, Stores
<1>3. ASSUME NEW x \in Agents
      PROVE  /\ Count(taken, x) \in Nat /\ Count(Queue(c), x) \in Nat
             /\ Count(<<>>, x) = 0 /\ Count(stored, x) = Count(Queue(c), x)
             /\ handed[x] \in Nat /\ requested[x] \in Nat
             /\ handed[x] + Count(taken, x) + 0 + Count(Queue(c), x) <= requested[x]
             /\ restarts = 0 =>
                   handed[x] + Count(taken, x) + 0 + Count(Queue(c), x) = requested[x]
  BY <1>2, CountNone, Tallies DEF Serial, Balance
<1>4. ASSUME restarts = 0, NEW x \in Agents
      PROVE  /\ Number(steps', x, "queued") = Count(Queue(c), x)
             /\ Number(steps', x, "running") = 0
             /\ Number(steps', x, "completed") = handed[x] + Count(taken, x)
  <2>1. \A y \in Agents :
           /\ Number(steps, y, "queued") + Count(<<>>, y) = Count(Queue(c), y)
           /\ Number(steps, y, "running") = Count(taken, y)
           /\ Number(steps, y, "completed") = handed[y] + Count(<<>>, y)
    BY <1>2, <1>4 DEF Serial, StepsTell
  <2>2. \A y \in Agents : Count(taken, y) <= Number(steps, y, "running")
    <3> SUFFICES ASSUME NEW y \in Agents
                 PROVE  Count(taken, y) <= Number(steps, y, "running")
      OBVIOUS
    <3> QED BY <1>3, <2>1
  <2>3. /\ steps' \in Seq(StepRecords)
        /\ Moved(steps, steps', taken, "running", "completed")
    BY <1>1, <2>2, CompleteAll DEF IInv
  <2>4. \A st : Number(steps, x, st) \in Nat /\ Number(steps', x, st) \in Nat
    BY <2>3, Tallies, NumberIsCount
  <2>5. /\ Number(steps', x, "queued") + 0 = Number(steps, x, "queued") + 0
        /\ Number(steps', x, "running") + Count(taken, x) = Number(steps, x, "running") + 0
        /\ Number(steps', x, "completed") + 0
           = Number(steps, x, "completed") + Count(taken, x)
    BY <2>3 DEF Moved, Statuses
  <2>6. /\ Number(steps, x, "queued") + Count(<<>>, x) = Count(Queue(c), x)
        /\ Number(steps, x, "running") = Count(taken, x)
        /\ Number(steps, x, "completed") = handed[x] + Count(<<>>, x)
    BY <2>1
  <2> QED BY <1>3, <2>4, <2>5, <2>6
<1>5. CASE Queue(c) = <<>>
  <2>1. /\ call'[c].at = "persist" /\ call'[c].op = call[c].op
        /\ call'[c].obj = call[c].obj /\ call'[c].agents = taken
        /\ handed' = handed
    BY <1>1, <1>5 DEF Complete, Goto, CallRecords
  <2>2. Queue(c)' = Queue(c)
    BY <1>1, <2>1 DEF Queue
  <2>3. /\ Running(c)' = <<>> /\ Done(c)' = taken /\ In(c)' = <<>>
        /\ Waiting(c)' = Queue(c)
    BY <2>1, <2>2 DEF Running, Done, In, Waiting
  <2>4. Places(c)' /\ Stores(c)'
    BY <1>1, <1>2, <2>1, <2>2 DEF Places, Stores
  <2>5. Balance(c)'
    <3> SUFFICES ASSUME NEW x \in Agents
                 PROVE  /\ handed[x] + Count(stored, x) <= requested[x]
                        /\ handed[x] + Count(<<>>, x) + Count(taken, x)
                           + Count(Queue(c), x) <= requested[x]
                        /\ restarts = 0 =>
                              handed[x] + Count(<<>>, x) + Count(taken, x)
                              + Count(Queue(c), x) = requested[x]
      BY <1>1, <2>1, <2>3 DEF Balance
    <3> QED BY <1>3
  <2>6. StepsTell(c)'
    <3> SUFFICES ASSUME restarts = 0, NEW x \in Agents
                 PROVE  /\ Number(steps', x, "queued") + Count(<<>>, x)
                           = Count(Queue(c), x)
                        /\ Number(steps', x, "running") = Count(<<>>, x)
                        /\ Number(steps', x, "completed") = handed[x] + Count(taken, x)
      BY <1>1, <2>1, <2>3 DEF StepsTell, Number, StepsOf
    <3> QED BY <1>3, <1>4
  <2> QED BY <2>4, <2>5, <2>6 DEF Serial
<1>6. CASE Queue(c) # <<>>
  <2>1. call'[c] = NoCall /\ HandOver(c)
    BY <1>1, <1>6 DEF Complete
  <2>2. \A x \in Agents : handed'[x] = handed[x] + Count(taken, x)
    BY <2>1, HandOverType
  <2>3. /\ Running(c)' = <<>> /\ Done(c)' = <<>> /\ In(c)' = <<>>
        /\ Waiting(c)' = stored' /\ Places(c)' /\ Stores(c)'
    BY <1>1, <1>2, <2>1, CallOver
  <2>4. stored' = Queue(c)
    BY <1>1, <1>2
  <2>5. Balance(c)'
    <3> SUFFICES ASSUME NEW x \in Agents
                 PROVE  /\ handed'[x] + Count(Queue(c), x) <= requested[x]
                        /\ handed'[x] + Count(<<>>, x) + Count(<<>>, x)
                           + Count(Queue(c), x) <= requested[x]
                        /\ restarts = 0 =>
                              handed'[x] + Count(<<>>, x) + Count(<<>>, x)
                              + Count(Queue(c), x) = requested[x]
      BY <1>1, <2>3, <2>4 DEF Balance
    <3>1. handed'[x] = handed[x] + Count(taken, x)
      BY <2>2
    <3> QED BY <1>3, <3>1
  <2>6. StepsTell(c)'
    <3> SUFFICES ASSUME restarts = 0, NEW x \in Agents
                 PROVE  /\ Number(steps', x, "queued") + Count(<<>>, x)
                           = Count(Queue(c), x)
                        /\ Number(steps', x, "running") = Count(<<>>, x)
                        /\ Number(steps', x, "completed") = handed'[x] + Count(<<>>, x)
      BY <1>1, <2>3, <2>4 DEF StepsTell, Number, StepsOf
    <3>1. handed'[x] = handed[x] + Count(taken, x)
      BY <2>2
    <3> QED BY <1>3, <1>4, <3>1
  <2> QED BY <2>3, <2>5, <2>6 DEF Serial
<1> QED BY <1>5, <1>6

LEMMA FinishSerial ==
    ASSUME IInv, NEW c \in Callers, Serial(c), Finish(c) PROVE Serial(c)'
<1> DEFINE taken == call[c].agents
<1>1. /\ call[c].at = "finish" /\ live' = 0 /\ call'[c] = NoCall /\ HandOver(c)
      /\ UNCHANGED <<arrays, objects, stored, steps, requested, restarts>>
  BY DEF Finish, At, IInv
<1>2. /\ Running(c) = <<>> /\ Done(c) = taken /\ In(c) = <<>>
      /\ Waiting(c) = Queue(c) /\ stored = Queue(c)
  BY <1>1 DEF Running, Done, In, Waiting, Serial, Stores
<1>3. /\ Running(c)' = <<>> /\ Done(c)' = <<>> /\ In(c)' = <<>>
      /\ Waiting(c)' = stored' /\ Places(c)' /\ Stores(c)'
  BY <1>1, CallOver
<1>4. ASSUME NEW x \in Agents
      PROVE  /\ Count(taken, x) \in Nat /\ Count(Queue(c), x) \in Nat
             /\ Count(<<>>, x) = 0 /\ Count(stored, x) = Count(Queue(c), x)
             /\ handed[x] \in Nat /\ requested[x] \in Nat
             /\ handed'[x] = handed[x] + Count(taken, x)
             /\ handed[x] + 0 + Count(taken, x) + Count(Queue(c), x) <= requested[x]
             /\ restarts = 0 =>
                   handed[x] + 0 + Count(taken, x) + Count(Queue(c), x) = requested[x]
  BY <1>1, <1>2, CountNone, Tallies, HandOverType DEF Serial, Balance
<1>5. Balance(c)'
  <2> SUFFICES ASSUME NEW x \in Agents
               PROVE  /\ handed'[x] + Count(stored, x) <= requested[x]
                      /\ handed'[x] + Count(<<>>, x) + Count(<<>>, x)
                         + Count(stored, x) <= requested[x]
                      /\ restarts = 0 =>
                            handed'[x] + Count(<<>>, x) + Count(<<>>, x)
                            + Count(stored, x) = requested[x]
    BY <1>1, <1>3 DEF Balance
  <2> QED BY <1>4
<1>6. StepsTell(c)'
  <2> SUFFICES ASSUME restarts = 0, NEW x \in Agents
               PROVE  /\ Number(steps, x, "queued") + Count(<<>>, x) = Count(stored, x)
                      /\ Number(steps, x, "running") = Count(<<>>, x)
                      /\ Number(steps, x, "completed") = handed'[x] + Count(<<>>, x)
    BY <1>1, <1>3 DEF StepsTell, Number, StepsOf
  <2>1. /\ Number(steps, x, "queued") + Count(<<>>, x) = Count(Queue(c), x)
        /\ Number(steps, x, "running") = Count(<<>>, x)
        /\ Number(steps, x, "completed") = handed[x] + Count(taken, x)
    BY <1>2 DEF Serial, StepsTell
  <2> QED BY <1>4, <2>1
<1> QED BY <1>3, <1>5, <1>6 DEF Serial

LEMMA PushSerial ==
    ASSUME IInv, NEW c \in Callers, Serial(c), Push(c) PROVE Serial(c)'
<1> DEFINE next == call[c].agents
           q == Queue(c) \o next
<1>1. /\ call[c].at = "push" /\ call[c].op = "evaluate"
      /\ call'[c].at = (IF next = <<>> THEN "store" ELSE "enqueue")
      /\ call'[c].op = call[c].op /\ call'[c].obj = call[c].obj
      /\ call'[c].agents = next
      /\ QueueBecomes(c, q)
      /\ requested' = [a \in Agents |-> requested[a] + Count(next, a)]
      /\ UNCHANGED <<objects, live, stored, steps, handed, restarts>>
  BY DEF Push, Goto, At, IInv, CallRecords, Serial, Places
<1>2. Queue(c) \in Seq(Agents) /\ next \in Seq(Agents)
  BY <1>1, QueueType DEF CallRecords
<1>3. /\ q \in Seq(Agents)
      /\ \A x \in Agents : Count(q, x) = Count(Queue(c), x) + Count(next, x)
  BY <1>2, ConcatProperties, CountConcat
<1> HIDE DEF q
<1>4. Queue(c)' = q
  BY <1>1, <1>3, QueueBecomesType DEF Queue
<1>5. /\ Running(c) = <<>> /\ Done(c) = <<>> /\ In(c) = <<>>
      /\ Waiting(c) = Queue(c) /\ live = call[c].obj
  BY <1>1 DEF Running, Done, In, Waiting, Serial, Places
<1>6. /\ Running(c)' = <<>> /\ Done(c)' = <<>> /\ In(c)' = next /\ Waiting(c)' = q
  BY <1>1, <1>4 DEF Running, Done, In, Waiting
<1>7. Places(c)' /\ Stores(c)'
  BY <1>1, <1>5 DEF Places, Stores
<1>8. ASSUME NEW x \in Agents
      PROVE  /\ Count(next, x) \in Nat /\ Count(Queue(c), x) \in Nat
             /\ Count(<<>>, x) = 0 /\ Count(stored, x) \in Nat
             /\ Count(q, x) = Count(Queue(c), x) + Count(next, x)
             /\ handed[x] \in Nat /\ requested[x] \in Nat
             /\ requested'[x] = requested[x] + Count(next, x)
             /\ handed[x] + Count(stored, x) <= requested[x]
             /\ handed[x] + 0 + 0 + Count(Queue(c), x) <= requested[x]
             /\ restarts = 0 => handed[x] + 0 + 0 + Count(Queue(c), x) = requested[x]
  <2>1. Count(next, x) \in Nat /\ Count(Queue(c), x) \in Nat /\ Count(<<>>, x) = 0
    BY <1>2, CountIsNat, CountNone
  <2>2. Count(stored, x) \in Nat /\ handed[x] \in Nat /\ requested[x] \in Nat
    BY Tallies
  <2>3. /\ handed[x] + Count(stored, x) <= requested[x]
        /\ handed[x] + 0 + 0 + Count(Queue(c), x) <= requested[x]
        /\ restarts = 0 => handed[x] + 0 + 0 + Count(Queue(c), x) = requested[x]
    BY <1>5, <2>1 DEF Serial, Balance
  <2> QED BY <1>1, <1>3, <2>1, <2>2, <2>3
<1>9. Balance(c)'
  <2> SUFFICES ASSUME NEW x \in Agents
               PROVE  /\ handed[x] + Count(stored, x) <= requested'[x]
                      /\ handed[x] + Count(<<>>, x) + Count(<<>>, x) + Count(q, x)
                         <= requested'[x]
                      /\ restarts = 0 =>
                            handed[x] + Count(<<>>, x) + Count(<<>>, x)
                            + Count(q, x) = requested'[x]
    BY <1>1, <1>6 DEF Balance
  <2> QED BY <1>8
<1>10. StepsTell(c)'
  <2> SUFFICES ASSUME restarts = 0, NEW x \in Agents
               PROVE  /\ Number(steps, x, "queued") + Count(next, x) = Count(q, x)
                      /\ Number(steps, x, "running") = Count(<<>>, x)
                      /\ Number(steps, x, "completed") = handed[x] + Count(<<>>, x)
    BY <1>1, <1>6 DEF StepsTell, Number, StepsOf
  <2>1. /\ Number(steps, x, "queued") + Count(<<>>, x) = Count(Queue(c), x)
        /\ Number(steps, x, "running") = Count(<<>>, x)
        /\ Number(steps, x, "completed") = handed[x] + Count(<<>>, x)
    BY <1>5 DEF Serial, StepsTell
  <2>2. Number(steps, x, "queued") \in Nat
    BY Tallies
  <2> QED BY <1>8, <2>1, <2>2
<1> QED BY <1>7, <1>9, <1>10 DEF Serial

LEMMA EnqueueStepsSerial ==
    ASSUME IInv, NEW c \in Callers, Serial(c), EnqueueSteps(c) PROVE Serial(c)'
<1> DEFINE next == call[c].agents
<1>1. /\ call[c].at = "steps" /\ call[c].op = "evaluate" /\ next \in Seq(Agents)
      /\ call[c].index = Len(steps) /\ live = call[c].obj
      /\ call'[c].at = "store" /\ call'[c].op = call[c].op
      /\ call'[c].obj = call[c].obj
      /\ UNCHANGED <<arrays, objects, live, stored, jobs, history>>
  BY DEF EnqueueSteps, Goto, At, IInv, CallRecords, Serial, Places
<1>2. steps' = steps \o StepsFor(next)
  <2>1. Len(steps) - call[c].index = 0 /\ Len(next) \in Nat
    BY <1>1, Lengths, LenProperties
  <2>2. SmallerOf(0, Len(next)) = 0 /\ Len(next) - 0 = Len(next)
    BY <2>1 DEF SmallerOf
  <2>3. steps' = steps \o [i \in 1 .. Len(next) |-> Step(next[i + 0])]
    BY <2>1, <2>2 DEF EnqueueSteps
  <2>4. [i \in 1 .. Len(next) |-> Step(next[i + 0])] = StepsFor(next)
    BY <2>1 DEF StepsFor
  <2> QED BY <2>3, <2>4
<1>3. Queue(c)' = Queue(c)
  BY <1>1 DEF Queue
<1>4. /\ Running(c) = <<>> /\ Done(c) = <<>> /\ In(c) = next /\ Waiting(c) = Queue(c)
  BY <1>1 DEF Running, Done, In, Waiting
<1>5. /\ Running(c)' = <<>> /\ Done(c)' = <<>> /\ In(c)' = <<>>
      /\ Waiting(c)' = Queue(c)
  BY <1>1, <1>3 DEF Running, Done, In, Waiting
<1>6. Places(c)' /\ Stores(c)'
  BY <1>1 DEF Places, Stores
<1>7. Balance(c)'
  <2> SUFFICES ASSUME NEW x \in Agents
               PROVE  /\ handed[x] + Count(stored, x) <= requested[x]
                      /\ handed[x] + Count(<<>>, x) + Count(<<>>, x)
                         + Count(Queue(c), x) <= requested[x]
                      /\ restarts = 0 =>
                            handed[x] + Count(<<>>, x) + Count(<<>>, x)
                            + Count(Queue(c), x) = requested[x]
    BY <1>1, <1>5 DEF Balance, history
  <2> QED BY <1>4 DEF Serial, Balance
<1>8. StepsTell(c)'
  <2> SUFFICES ASSUME restarts = 0, NEW x \in Agents
               PROVE  /\ Number(steps', x, "queued") + Count(<<>>, x) = Count(Queue(c), x)
                      /\ Number(steps', x, "running") = Count(<<>>, x)
                      /\ Number(steps', x, "completed") = handed[x] + Count(<<>>, x)
    BY <1>1, <1>5 DEF StepsTell, Number, StepsOf, history
  <2>1. steps \in Seq(StepRecords) /\ StepsFor(next) \in Seq(StepRecords)
    BY <1>1, StepsForCounts DEF IInv
  <2>2. ASSUME NEW st \in Statuses
        PROVE  Number(steps', x, st)
               = Number(steps, x, st) + (IF st = "queued" THEN Count(next, x) ELSE 0)
    <3>1. steps' \in Seq(StepRecords)
      BY <1>2, <2>1, ConcatProperties
    <3>2. Count(steps', Record(x, st))
          = Count(steps, Record(x, st)) + Count(StepsFor(next), Record(x, st))
      BY <1>2, <2>1, CountConcat
    <3>3. Count(StepsFor(next), Record(x, st))
          = IF st = "queued" THEN Count(next, x) ELSE 0
      BY <1>1, StepsForCounts
    <3> QED BY <2>1, <3>1, <3>2, <3>3, NumberIsCount
  <2>3. /\ Number(steps, x, "queued") + Count(next, x) = Count(Queue(c), x)
        /\ Number(steps, x, "running") = Count(<<>>, x)
        /\ Number(steps, x, "completed") = handed[x] + Count(<<>>, x)
    BY <1>4 DEF Serial, StepsTell
  <2>4. /\ Number(steps', x, "queued") = Number(steps, x, "queued") + Count(next, x)
        /\ Number(steps', x, "running") = Number(steps, x, "running") + 0
        /\ Number(steps', x, "completed") = Number(steps, x, "completed") + 0
    BY <2>2 DEF Statuses
  <2>5. /\ Count(<<>>, x) = 0 /\ Count(Queue(c), x) \in Nat
        /\ Count(next, x) \in Nat /\ handed[x] \in Nat
        /\ Number(steps, x, "queued") \in Nat /\ Number(steps, x, "running") \in Nat
        /\ Number(steps, x, "completed") \in Nat
    BY <1>4, CountNone, Tallies
  <2>6. Number(steps', x, "queued") + Count(<<>>, x) = Count(Queue(c), x)
    <3> HIDE DEF next
    <3> QED BY <2>3, <2>4, <2>5
  <2>7. Number(steps', x, "running") = Number(steps, x, "running")
    BY <2>4, <2>5
  <2>8. Number(steps', x, "completed") = Number(steps, x, "completed")
    BY <2>4, <2>5
  <2> QED BY <2>3, <2>6, <2>7, <2>8
<1> QED BY <1>6, <1>7, <1>8 DEF Serial

LEMMA RestartSerial ==
    ASSUME IInv, NEW c \in Callers, Serial(c), Restart PROVE Serial(c)'
<1>1. /\ live' = 0 /\ call'[c] = NoCall /\ restarts' = restarts + 1
      /\ UNCHANGED <<stored, requested, handed>>
  BY DEF Restart
<1>2. restarts' # 0
  BY <1>1 DEF IInv
<1>3. /\ Running(c)' = <<>> /\ Done(c)' = <<>> /\ In(c)' = <<>>
      /\ Waiting(c)' = stored' /\ Places(c)' /\ Stores(c)'
  BY <1>1, CallOver
<1>4. Balance(c)'
  <2> SUFFICES ASSUME NEW x \in Agents
               PROVE  /\ handed[x] + Count(stored, x) <= requested[x]
                      /\ handed[x] + Count(<<>>, x) + Count(<<>>, x)
                         + Count(stored, x) <= requested[x]
    BY <1>1, <1>2, <1>3 DEF Balance
  <2>1. handed[x] + Count(stored, x) <= requested[x]
    BY DEF Serial, Balance
  <2> QED BY <2>1, CountNone, Tallies
<1>5. StepsTell(c)'
  BY <1>2 DEF StepsTell
<1> QED BY <1>3, <1>4, <1>5 DEF Serial

LEMMA UnchangedSerial ==
    ASSUME NEW c \in Callers, Serial(c), UNCHANGED vars PROVE Serial(c)'
<1>1. /\ Running(c)' = Running(c) /\ Done(c)' = Done(c) /\ In(c)' = In(c)
      /\ SessionQueue' = SessionQueue /\ Queue(c)' = Queue(c)
      /\ Waiting(c)' = Waiting(c)
  BY DEF vars, Running, Done, In, SessionQueue, Queue, Waiting
<1>2. Places(c)' /\ Stores(c)'
  BY <1>1 DEF vars, Serial, Places, Stores
<1>3. Balance(c)'
  BY <1>1 DEF vars, history, Serial, Balance
<1>4. StepsTell(c)'
  BY <1>1 DEF vars, history, Serial, StepsTell, Number, StepsOf
<1> QED BY <1>2, <1>3, <1>4 DEF Serial

LEMMA StepSerial ==
    ASSUME OneCaller, SerialInv, [Next]_vars PROVE SerialInv'
<1>1. IInv' /\ IInv /\ \A c \in Callers : Serial(c)
  BY StepIInv DEF SerialInv
<1>2. ASSUME NEW c \in Callers PROVE Serial(c)'
  <2>1. CASE UNCHANGED vars
    BY <1>1, <2>1, UnchangedSerial
  <2>2. CASE Restart
    BY <1>1, <2>2, RestartSerial
  <2>3. CASE \E d \in Callers : CallStep(d)
    <3>1. CallStep(c)
      BY <2>3 DEF OneCaller
    <3>2. Serial(c)
      BY <1>1
    <3>3. ASSUME NEW favourite \in Recommendations(Queue(c)), Order(c, favourite)
          PROVE  Serial(c)'
      BY <1>1, <3>2, <3>3, OrderSerial
    <3>4. ASSUME NEW rank, Assign(c, rank) PROVE Serial(c)'
      BY <1>1, <3>2, <3>4, AssignSerial
    <3>5. ASSUME NEW op, NEW agents, NEW index, Begin(c, op, agents, index)
          PROVE  Serial(c)'
      BY <1>1, <3>2, <3>5, BeginSerial
    <3> QED BY <1>1, <3>1, <3>2, <3>3, <3>4, <3>5, GetSerial, CacheSerial,
               ReviveSerial, FillSerial, FetchSerial, TakeSerial, StoreSerial,
               CompleteSerial, PersistSerial, FinishSerial, PushSerial,
               EnqueueSerial, EnqueueStepsSerial
            DEF CallStep
  <2> QED BY <2>1, <2>2, <2>3, NextCases
<1> QED BY <1>1, <1>2 DEF SerialInv

LEMMA SerialInvariance == ASSUME OneCaller PROVE Spec => []SerialInv
<1>1. Init => SerialInv
  BY InitIInv, InitSerial DEF SerialInv
<1>2. SerialInv /\ [Next]_vars => SerialInv'
  BY StepSerial
<1> QED BY <1>1, <1>2, PTL DEF Spec

LEMMA SerialNeverTwice == ASSUME OneCaller, SerialInv PROVE NeverTwice
<1>1. PICK c \in Callers : Serial(c)
  BY DEF OneCaller, SerialInv
<1>2. ASSUME NEW a \in Agents PROVE handed[a] <= requested[a]
  <2>1. handed[a] + Count(stored, a) <= requested[a]
    BY <1>1 DEF Serial, Balance
  <2>2. /\ Count(stored, a) \in Nat /\ handed[a] \in Nat /\ requested[a] \in Nat
    BY <1>1, Tallies DEF SerialInv
  <2> QED BY <2>1, <2>2
<1> QED BY <1>2 DEF NeverTwice

LEMMA QuietTallies ==
    ASSUME IInv, NEW c \in Callers, Serial(c), Quiet, NEW a \in Agents
    PROVE  /\ live # 0 => stored = SessionQueue
           /\ restarts = 0 =>
                 /\ requested[a] = handed[a] + Count(SessionQueue, a)
                 /\ Number(steps, a, "queued") = Count(SessionQueue, a)
                 /\ Number(steps, a, "completed") = handed[a]
<1>1. call[c].at = "idle"
  BY DEF Quiet
<1>2. /\ Running(c) = <<>> /\ Done(c) = <<>> /\ In(c) = <<>>
      /\ Waiting(c) = SessionQueue
  BY <1>1, NothingInHand DEF Waiting
<1>3. /\ Count(<<>>, a) = 0 /\ Count(SessionQueue, a) \in Nat
      /\ handed[a] \in Nat /\ requested[a] \in Nat
      /\ Number(steps, a, "queued") \in Nat /\ Number(steps, a, "completed") \in Nat
  BY <1>2, CountNone, Tallies
<1>4. live # 0 => stored = SessionQueue
  BY <1>1 DEF Serial, Stores
<1>5. ASSUME restarts = 0
      PROVE  /\ handed[a] + Count(<<>>, a) + Count(<<>>, a)
                + Count(SessionQueue, a) = requested[a]
             /\ Number(steps, a, "queued") + Count(<<>>, a) = Count(SessionQueue, a)
             /\ Number(steps, a, "completed") = handed[a] + Count(<<>>, a)
  BY <1>2, <1>5 DEF Serial, Balance, StepsTell
<1> QED BY <1>3, <1>4, <1>5

LEMMA SerialNoneForgotten == ASSUME OneCaller, SerialInv PROVE NoneForgotten
<1>1. PICK c \in Callers : Serial(c)
  BY DEF OneCaller, SerialInv
<1> QED BY <1>1, QuietTallies DEF SerialInv, NoneForgotten

LEMMA SerialRecordsAgree == ASSUME OneCaller, SerialInv PROVE RecordsAgree
<1>1. PICK c \in Callers : Serial(c)
  BY DEF OneCaller, SerialInv
<1> SUFFICES ASSUME Quiet
             PROVE  /\ live # 0 => stored = SessionQueue
                    /\ restarts = 0 => \A a \in Agents :
                          /\ Number(steps, a, "queued") = Count(SessionQueue, a)
                          /\ Number(steps, a, "completed") = handed[a]
  BY DEF RecordsAgree, Number
<1>2. live # 0 => stored = SessionQueue
  BY <1>1 DEF Quiet, Serial, Stores
<1> QED BY <1>1, <1>2, QuietTallies DEF SerialInv

\* One call at a time, for any agents, batch sizes and number of restarts,
\* and whether queue store and steps outlive the process or not: an agent is
\* handed out at most as often as it was put in the queue.  What dequeue took
\* before a restart is not handed out again after the answer.
THEOREM HandedOutAtMostOnce == ASSUME OneCaller PROVE Spec => []NeverTwice
<1> QED BY SerialInvariance, SerialNeverTwice, PTL

\* One call at a time: between calls, as long as the server has not been
\* restarted, an agent that dequeue_next_agent took out of the queue has been
\* handed out, and any other one still waits in the session's queue.
THEOREM NoAgentForgotten == ASSUME OneCaller PROVE Spec => []NoneForgotten
<1> QED BY SerialInvariance, SerialNoneForgotten, PTL

\* One call at a time: between calls the live session is as the session store
\* has it, restarts or not, and until the first restart the step records
\* count the waiting agents and the ones handed out.
THEOREM CopiesAgree == ASSUME OneCaller PROVE Spec => []RecordsAgree
<1> QED BY SerialInvariance, SerialRecordsAgree, PTL
=============================================================================
