---------------------------- MODULE OfflineProofs ----------------------------
(***************************************************************************)
(* Proofs about Offline: what its folds, sums and selections compute for   *)
(* every table.  Induction over the numbers comes from the library's facts *)
(* on well-founded relations, the property given as the set of the numbers *)
(* that have it.                                                           *)
(***************************************************************************)
EXTENDS Offline, SequenceTheorems, FiniteSetTheorems, TLAPS

LEMMA Least == ASSUME NEW S \in SUBSET Nat, S # {} PROVE \E n \in S : \A m \in S : n <= m
<1> DEFINE R == {p \in Nat \X Nat : p[1] < p[2]}
<1>1. IsWellFoundedOn(R, Nat) BY NatLessThanWellFounded, Zenon DEF OpToRel
<1>2. S \subseteq Nat OBVIOUS
<1> HIDE DEF R
<1>3. PICK n \in S : \A m \in S : ~(<<m, n>> \in R) BY <1>1, <1>2, WFMin
<1>4. \A m \in S : <<m, n>> \in R <=> m < n BY <1>2 DEF R
<1>5. \A m \in S : n \in Nat /\ m \in Nat /\ ~(m < n) BY <1>2, <1>3, <1>4
<1>6. \A m \in S : n <= m BY <1>5
<1> QED BY <1>6

LEMMA Induction ==
  ASSUME NEW S, 0 \in S, \A n \in Nat : n \in S => n + 1 \in S
  PROVE  Nat \subseteq S
<1> DEFINE rest == Nat \ S
<1>1. SUFFICES ASSUME rest # {} PROVE FALSE OBVIOUS
<1>2. PICK n \in rest : \A m \in rest : n <= m
  <2>1. rest \in SUBSET Nat OBVIOUS
  <2> QED BY <1>1, <2>1, Least
<1>3. n \in Nat /\ n # 0 /\ n - 1 \in Nat OBVIOUS
<1>4. n - 1 \in S BY <1>2, <1>3
<1>5. (n - 1) + 1 \in S BY <1>3, <1>4
<1> QED BY <1>3, <1>5

LEMMA FunctionIsSeq ==
  ASSUME NEW n \in Nat, NEW T, NEW f \in [1..n -> T] PROVE f \in Seq(T) /\ Len(f) = n
OBVIOUS

LEMMA SeqOfMore == ASSUME NEW S, NEW T, S \subseteq T, NEW s \in Seq(S) PROVE s \in Seq(T)
<1>1. Len(s) \in Nat /\ s = [k \in 1..Len(s) |-> s[k]] BY LenProperties
<1>2. \A k \in 1..Len(s) : s[k] \in T BY ElementOfSeq
<1>3. s \in [1..Len(s) -> T] BY <1>1, <1>2
<1> QED BY <1>1, <1>3, FunctionIsSeq

(* The least and the greatest member.                                      *)
LEMMA MinOf ==
  ASSUME NEW S \in SUBSET Nat, S # {}
  PROVE  Min(S) \in S /\ \A x \in S : Min(S) <= x
<1>1. \E n \in S : \A m \in S : n <= m BY Least
<1> QED BY <1>1 DEF Min

LEMMA MaxOf ==
  ASSUME NEW S \in SUBSET Nat, S # {}, NEW bound \in Nat, \A x \in S : x <= bound
  PROVE  Max(S) \in S /\ \A x \in S : x <= Max(S)
<1> DEFINE below == {bound - x : x \in S}
<1>1. \A x \in S : x \in Nat /\ x <= bound OBVIOUS
<1>2. \A x \in S : bound - x \in Nat BY <1>1
<1>3. below \in SUBSET Nat /\ below # {} BY <1>2
<1>4. PICK b \in below : \A c \in below : b <= c
  <2> HIDE DEF below
  <2> QED BY <1>3, Least
<1>5. PICK top \in S : b = bound - top OBVIOUS
<1>6. \A x \in S : top >= x
  <2> TAKE x \in S
  <2>1. bound - top <= bound - x BY <1>4, <1>5
  <2>2. x \in Nat /\ top \in Nat OBVIOUS
  <2> QED BY <2>1, <2>2
<1>7. Max(S) \in S /\ \A y \in S : Max(S) >= y
  <2>1. \E x \in S : \A y \in S : x >= y BY <1>6
  <2> QED BY <2>1 DEF Max
<1>8. Max(S) \in Nat BY <1>7
<1> QED BY <1>7, <1>8

LEMMA MaxOfFirst == ASSUME NEW k \in Nat, k > 0 PROVE Max(1..k) = k /\ (1..k) \ {k} = 1..(k - 1)
<1>1. Max(1..k) \in 1..k /\ \A x \in 1..k : x <= Max(1..k)
  <2>1. 1..k \in SUBSET Nat /\ 1..k # {} /\ \A x \in 1..k : x <= k OBVIOUS
  <2> HIDE DEF Max
  <2> QED BY <2>1, MaxOf
<1> QED BY <1>1

-----------------------------------------------------------------------------
(* A fold over the subsets of a finite set, one element taken out at a     *)
(* time: there is one and only one.                                        *)
IsFold(v0, step, pick, domain, F) ==
  F = [s \in domain |-> IF s = {} THEN v0 ELSE step[<<pick[s], F[s \ {pick[s]}]>>]]

LEMMA FoldExists ==
  ASSUME NEW S, IsFiniteSet(S), NEW V, NEW v0 \in V, NEW step \in [S \X V -> V],
         NEW pick, \A s \in SUBSET S : s # {} => pick[s] \in s
  PROVE  \E F \in [SUBSET S -> V] : IsFold(v0, step, pick, SUBSET S, F)
<1> DEFINE upTo(m) == {s \in SUBSET S : Cardinality(s) <= m}
           Good == {m \in Nat : \E F \in [upTo(m) -> V] : IsFold(v0, step, pick, upTo(m), F)}
<1>1. \A s \in SUBSET S : IsFiniteSet(s) /\ Cardinality(s) \in Nat /\ Cardinality(s) <= Cardinality(S)
  BY FS_Subset, FS_CardinalityType
<1>2. 0 \in Good
  <2>1. upTo(0) = {{}}
    <3>1. \A s \in upTo(0) : s = {}
      <4> TAKE s \in upTo(0)
      <4>1. Cardinality(s) = 0 BY <1>1
      <4> QED BY <1>1, <4>1, FS_EmptySet
    <3>2. {} \in upTo(0) BY FS_EmptySet
    <3> QED BY <3>1, <3>2
  <2> HIDE DEF upTo
  <2> DEFINE F == [s \in upTo(0) |-> v0]
  <2>2. F \in [upTo(0) -> V] OBVIOUS
  <2>3. IsFold(v0, step, pick, upTo(0), F) BY <2>1 DEF IsFold
  <2> HIDE DEF F
  <2> QED BY <2>2, <2>3
<1>3. ASSUME NEW m \in Nat, m \in Good PROVE m + 1 \in Good
  <2>1. PICK F \in [upTo(m) -> V] : IsFold(v0, step, pick, upTo(m), F) BY <1>3
  <2> DEFINE G == [s \in upTo(m + 1) |-> IF s = {} THEN v0 ELSE step[<<pick[s], F[s \ {pick[s]}]>>]]
  <2>2. \A s \in upTo(m + 1) : s # {} => pick[s] \in S /\ s \ {pick[s]} \in upTo(m)
    <3> TAKE s \in upTo(m + 1)
    <3> HAVE s # {}
    <3>1. pick[s] \in s OBVIOUS
    <3>2. Cardinality(s \ {pick[s]}) = Cardinality(s) - 1 BY <1>1, <3>1, FS_RemoveElement
    <3> QED BY <1>1, <3>1, <3>2
  <2>3. \A s \in upTo(m) : s \in upTo(m + 1) BY <1>1
  <2> HIDE DEF upTo
  <2>4. G \in [upTo(m + 1) -> V]
    <3> SUFFICES ASSUME NEW s \in upTo(m + 1)
                 PROVE  (IF s = {} THEN v0 ELSE step[<<pick[s], F[s \ {pick[s]}]>>]) \in V
      OBVIOUS
    <3> QED BY <2>2
  <2>5. \A s \in upTo(m) : G[s] = F[s] BY <2>1, <2>3 DEF IsFold
  <2>6. \A s \in upTo(m + 1) : s # {} => G[s \ {pick[s]}] = F[s \ {pick[s]}] BY <2>2, <2>5
  <2>7. IsFold(v0, step, pick, upTo(m + 1), G) BY <2>6 DEF IsFold
  <2> HIDE DEF G
  <2> QED BY <2>4, <2>7
<1>4. Nat \subseteq Good
  <2> HIDE DEF Good
  <2> QED BY <1>2, <1>3, Induction
<1>5. Cardinality(S) \in Good BY <1>1, <1>4
<1>6. upTo(Cardinality(S)) = SUBSET S BY <1>1
<1> HIDE DEF upTo
<1> QED BY <1>5, <1>6, ZenonT(40)

StepsAgree(S, pick, F, G) ==
  /\ F[{}] = G[{}]
  /\ \A s \in SUBSET S : s # {} =>
       pick[s] \in s /\ (F[s \ {pick[s]}] = G[s \ {pick[s]}] => F[s] = G[s])

LEMMA FoldsAgree ==
  ASSUME NEW S, IsFiniteSet(S), NEW pick, NEW F, NEW G, StepsAgree(S, pick, F, G)
  PROVE  \A s \in SUBSET S : F[s] = G[s]
<1> DEFINE Same == {m \in Nat : \A s \in SUBSET S : Cardinality(s) = m => F[s] = G[s]}
<1>1. \A s \in SUBSET S : IsFiniteSet(s) /\ Cardinality(s) \in Nat BY FS_Subset, FS_CardinalityType
<1>2. 0 \in Same
  <2>1. \A s \in SUBSET S : Cardinality(s) = 0 => s = {} BY <1>1, FS_EmptySet
  <2> QED BY <2>1 DEF StepsAgree
<1>3. ASSUME NEW m \in Nat, m \in Same PROVE m + 1 \in Same
  <2> SUFFICES ASSUME NEW s \in SUBSET S, Cardinality(s) = m + 1 PROVE F[s] = G[s] OBVIOUS
  <2>1. s # {}
    <3>1. m + 1 # 0 OBVIOUS
    <3> QED BY <3>1, FS_EmptySet
  <2>2. pick[s] \in s BY <2>1 DEF StepsAgree
  <2>3. Cardinality(s \ {pick[s]}) = m BY <1>1, <2>2, FS_RemoveElement, SMTT(30)
  <2>4. F[s \ {pick[s]}] = G[s \ {pick[s]}] BY <1>3, <2>3
  <2> QED BY <2>1, <2>4 DEF StepsAgree
<1>4. Nat \subseteq Same
  <2> HIDE DEF Same
  <2> QED BY <1>2, <1>3, Induction
<1> QED BY <1>1, <1>4

(* A fold over 1..n that takes the greatest out is a chain of steps from 1 *)
(* to n.                                                                   *)
IsChain(n, v0, step, F) ==
  /\ F = [s \in SUBSET (1..n) |-> IF s = {} THEN v0 ELSE step[<<Max(s), F[s \ {Max(s)}]>>]]
  /\ F[1..0] = v0
  /\ \A k \in 1..n : F[1..k] = step[<<k, F[1..(k - 1)]>>]

LEMMA FoldIsChain ==
  ASSUME NEW n \in Nat, NEW V, NEW v0 \in V, NEW step \in [(1..n) \X V -> V]
  PROVE  \E F \in [SUBSET (1..n) -> V] : IsChain(n, v0, step, F)
<1> DEFINE S == 1..n
           pick == [s \in SUBSET S |-> Max(s)]
<1>1. IsFiniteSet(S) BY FS_Interval
<1>2. \A s \in SUBSET S : s # {} => Max(s) \in s /\ pick[s] = Max(s)
  <2> TAKE s \in SUBSET S
  <2> HAVE s # {}
  <2>1. s \in SUBSET Nat /\ \A x \in s : x <= n OBVIOUS
  <2> HIDE DEF S
  <2>2. Max(s) \in s BY <2>1, MaxOf
  <2> QED BY <2>2
<1> HIDE DEF pick, S
<1>3. PICK F \in [SUBSET S -> V] : IsFold(v0, step, pick, SUBSET S, F)
  <2>1. \A s \in SUBSET S : s # {} => pick[s] \in s BY <1>2
  <2>2. step \in [S \X V -> V] BY DEF S
  <2> QED BY <1>1, <2>1, <2>2, FoldExists
<1>4. F = [s \in SUBSET S |-> IF s = {} THEN v0 ELSE step[<<pick[s], F[s \ {pick[s]}]>>]]
  BY <1>3 DEF IsFold
<1>5. F = [s \in SUBSET S |-> IF s = {} THEN v0 ELSE step[<<Max(s), F[s \ {Max(s)}]>>]]
  BY <1>2, <1>4
<1>6. F[1..0] = v0
  <2>1. 1..0 = {} OBVIOUS
  <2> QED BY <1>4, <2>1
<1>7. \A k \in 1..n : F[1..k] = step[<<k, F[1..(k - 1)]>>]
  <2> TAKE k \in 1..n
  <2>1. Max(1..k) = k /\ (1..k) \ {k} = 1..(k - 1) BY MaxOfFirst
  <2>2. 1..k \in SUBSET S /\ 1..k # {} BY DEF S
  <2> QED BY <1>5, <2>1, <2>2
<1> QED BY <1>5, <1>6, <1>7 DEF S, IsChain

-----------------------------------------------------------------------------
(* The sum of a function over its domain, one element at a time, in any    *)
(* order.                                                                  *)
AnyOf(s) == CHOOSE x \in s : TRUE

LEMMA TotalIsFold ==
  ASSUME NEW S, IsFiniteSet(S), NEW f \in [S -> Int]
  PROVE  \E F \in [SUBSET S -> Int] :
           /\ F[{}] = 0
           /\ \A s \in SUBSET S : s # {} => AnyOf(s) \in s /\ F[s] = f[AnyOf(s)] + F[s \ {AnyOf(s)}]
           /\ Total(f) = F[S]
<1> DEFINE pick == [s \in SUBSET S |-> CHOOSE x \in s : TRUE]
           step == [p \in S \X Int |-> f[p[1]] + p[2]]
           iter == CHOOSE g : g = [s \in SUBSET S |->
                     IF s = {} THEN 0 ELSE f[CHOOSE x \in s : TRUE] + g[s \ {CHOOSE x \in s : TRUE}]]
<1>1. \A s \in SUBSET S : s # {} => pick[s] \in s /\ pick[s] \in S /\ pick[s] = CHOOSE x \in s : TRUE
  OBVIOUS
<1>2. step \in [S \X Int -> Int] /\ \A x \in S, v \in Int : step[<<x, v>>] = f[x] + v OBVIOUS
<1>3. Total(f) = iter[S] BY DEF Total, MapThenSumSet, MapThenFoldSet
<1> HIDE DEF pick, step
<1>4. PICK F \in [SUBSET S -> Int] : IsFold(0, step, pick, SUBSET S, F)
  <2>1. \A s \in SUBSET S : s # {} => pick[s] \in s BY <1>1
  <2>2. step \in [S \X Int -> Int] /\ 0 \in Int BY <1>2
  <2> QED BY <2>1, <2>2, FoldExists
<1>5. F = [s \in SUBSET S |-> IF s = {} THEN 0 ELSE step[<<pick[s], F[s \ {pick[s]}]>>]]
  BY <1>4 DEF IsFold
<1>6. \A s \in SUBSET S : s # {} => step[<<pick[s], F[s \ {pick[s]}]>>] = f[pick[s]] + F[s \ {pick[s]}]
  BY <1>1, <1>2
<1>7. F = [s \in SUBSET S |->
             IF s = {} THEN 0 ELSE f[CHOOSE x \in s : TRUE] + F[s \ {CHOOSE x \in s : TRUE}]]
  BY <1>1, <1>5, <1>6, Zenon
<1>8. iter = [s \in SUBSET S |->
             IF s = {} THEN 0 ELSE f[CHOOSE x \in s : TRUE] + iter[s \ {CHOOSE x \in s : TRUE}]]
  BY <1>7, Zenon
<1> HIDE DEF iter
<1>9. /\ F[{}] = 0 /\ iter[{}] = 0
      /\ \A s \in SUBSET S : s # {} => /\ F[s] = f[pick[s]] + F[s \ {pick[s]}]
                                       /\ iter[s] = f[pick[s]] + iter[s \ {pick[s]}]
  BY <1>1, <1>7, <1>8, ZenonT(40)
<1>10. StepsAgree(S, pick, F, iter) BY <1>1, <1>9 DEF StepsAgree
<1>11. \A s \in SUBSET S : F[s] = iter[s] BY <1>10, FoldsAgree
<1> QED BY <1>1, <1>3, <1>9, <1>11 DEF AnyOf

SumOver(f, T) == Total([y \in T |-> f[y]])

LEMMA SumStep ==
  ASSUME NEW S, IsFiniteSet(S), NEW f \in [S -> Int], NEW T \in SUBSET S
  PROVE  /\ SumOver(f, T) \in Int
         /\ T = {} => SumOver(f, T) = 0
         /\ T # {} => AnyOf(T) \in T /\ SumOver(f, T) = f[AnyOf(T)] + SumOver(f, T \ {AnyOf(T)})
<1> DEFINE p == AnyOf(T)
           g == [y \in T |-> f[y]]
           U == T \ {p}
           h == [y \in U |-> f[y]]
<1>1. IsFiniteSet(T) /\ IsFiniteSet(U) BY FS_Subset
<1>2. g \in [T -> Int] /\ h \in [U -> Int] OBVIOUS
<1>3. \A y \in T : g[y] = f[y] OBVIOUS
<1>4. \A y \in U : h[y] = f[y] OBVIOUS
<1>5. Total(g) = SumOver(f, T) /\ Total(h) = SumOver(f, U) BY DEF SumOver
<1>6. T # {} => p \in T BY DEF AnyOf
<1> HIDE DEF g, h
<1>7. PICK F \in [SUBSET T -> Int] :
        /\ F[{}] = 0
        /\ \A s \in SUBSET T : s # {} => AnyOf(s) \in s /\ F[s] = g[AnyOf(s)] + F[s \ {AnyOf(s)}]
        /\ Total(g) = F[T]
  BY <1>1, <1>2, TotalIsFold
<1>8. PICK G \in [SUBSET U -> Int] :
        /\ G[{}] = 0
        /\ \A s \in SUBSET U : s # {} => AnyOf(s) \in s /\ G[s] = h[AnyOf(s)] + G[s \ {AnyOf(s)}]
        /\ Total(h) = G[U]
  BY <1>1, <1>2, TotalIsFold
<1> DEFINE pick == [s \in SUBSET U |-> AnyOf(s)]
<1>9. \A s \in SUBSET U : s # {} => pick[s] \in s /\ pick[s] = AnyOf(s) BY <1>8
<1> HIDE DEF pick
<1>10. StepsAgree(U, pick, F, G)
  <2>1. \A s \in SUBSET U : s # {} => F[s] = f[pick[s]] + F[s \ {pick[s]}]
    BY <1>3, <1>7, <1>9
  <2>2. \A s \in SUBSET U : s # {} => G[s] = f[pick[s]] + G[s \ {pick[s]}]
    BY <1>4, <1>8, <1>9
  <2>3. F[{}] = G[{}] BY <1>7, <1>8
  <2> QED BY <1>9, <2>1, <2>2, <2>3 DEF StepsAgree
<1>11. F[U] = G[U] BY <1>1, <1>10, FoldsAgree
<1>12. T # {} => F[T] = g[p] + F[U] BY <1>7
<1> HIDE DEF p, U
<1>13. T # {} => SumOver(f, T) = f[p] + SumOver(f, U) 
  BY <1>3, <1>5, <1>6, <1>7, <1>8, <1>11, <1>12 DEF U
<1>14. SumOver(f, T) \in Int /\ (T = {} => SumOver(f, T) = 0) BY <1>5, <1>7
<1> QED BY <1>6, <1>13, <1>14 DEF p, U

LEMMA SumIsInt ==
  ASSUME NEW S, IsFiniteSet(S), NEW f \in [S -> Int], NEW T \in SUBSET S
  PROVE  SumOver(f, T) \in Int
BY SumStep

LEMMA SumOfNone ==
  ASSUME NEW S, IsFiniteSet(S), NEW f \in [S -> Int]
  PROVE  SumOver(f, {}) = 0
BY SumStep

LEMMA SumOfSome ==
  ASSUME NEW S, IsFiniteSet(S), NEW f \in [S -> Int], NEW T \in SUBSET S, T # {}
  PROVE  AnyOf(T) \in T /\ SumOver(f, T) = f[AnyOf(T)] + SumOver(f, T \ {AnyOf(T)})
<1>1. IsFiniteSet(S) /\ f \in [S -> Int] /\ T \in SUBSET S OBVIOUS
<1> QED BY <1>1, SumStep

LEMMA SumWithout ==
  ASSUME NEW S, IsFiniteSet(S), NEW f \in [S -> Int], NEW T \in SUBSET S, NEW x \in T
  PROVE  SumOver(f, T) = f[x] + SumOver(f, T \ {x})
<1> DEFINE AnyOrder ==
             {m \in Nat : \A s \in SUBSET S : Cardinality(s) = m =>
                            \A y \in s : SumOver(f, s) = f[y] + SumOver(f, s \ {y})}
<1>1. \A s \in SUBSET S : IsFiniteSet(s) /\ Cardinality(s) \in Nat BY FS_Subset, FS_CardinalityType
<1>2. 0 \in AnyOrder
  <2>1. \A s \in SUBSET S : Cardinality(s) = 0 => s = {} BY <1>1, FS_EmptySet
  <2> QED BY <2>1
<1>3. ASSUME NEW m \in Nat, m \in AnyOrder PROVE m + 1 \in AnyOrder
  <2> SUFFICES ASSUME NEW s \in SUBSET S, Cardinality(s) = m + 1, NEW y \in s
               PROVE  SumOver(f, s) = f[y] + SumOver(f, s \ {y})
    OBVIOUS
  <2> DEFINE p == AnyOf(s)
  <2>1. p \in s /\ SumOver(f, s) = f[p] + SumOver(f, s \ {p})
    <3>1. s # {} OBVIOUS
    <3> HIDE DEF AnyOrder
    <3> QED BY <3>1, SumOfSome
  <2> HIDE DEF p
  <2>2. CASE y = p BY <2>1, <2>2
  <2>3. CASE y # p
    <3>0. IsFiniteSet(s) /\ (m + 1) - 1 = m BY <1>1
    <3>1. Cardinality(s \ {p}) = m /\ Cardinality(s \ {y}) = m BY <2>1, <3>0, FS_RemoveElement
    <3>2. SumOver(f, s \ {p}) = f[y] + SumOver(f, (s \ {p}) \ {y}) BY <1>3, <2>3, <3>1
    <3>3. SumOver(f, s \ {y}) = f[p] + SumOver(f, (s \ {y}) \ {p}) BY <1>3, <2>1, <2>3, <3>1
    <3>4. (s \ {p}) \ {y} = (s \ {y}) \ {p} OBVIOUS
    <3>5. f[y] \in Int /\ f[p] \in Int /\ SumOver(f, (s \ {y}) \ {p}) \in Int BY <2>1, SumIsInt
    <3> DEFINE others == SumOver(f, (s \ {y}) \ {p})
    <3>6. SumOver(f, s) = f[p] + (f[y] + others) /\ SumOver(f, s \ {y}) = f[p] + others
      BY <2>1, <3>2, <3>3, <3>4
    <3> HIDE DEF AnyOrder, others
    <3> QED BY <3>5, <3>6 DEF others
  <2> QED BY <2>2, <2>3
<1>4. Nat \subseteq AnyOrder
  <2> HIDE DEF AnyOrder
  <2> QED BY <1>2, <1>3, Induction
<1> QED BY <1>1, <1>4

(* Two disjoint sets, and a set cut into numbered blocks.                  *)
LEMMA SumOfUnion ==
  ASSUME NEW S, IsFiniteSet(S), NEW f \in [S -> Int],
         NEW A \in SUBSET S, NEW B \in SUBSET S, A \cap B = {}
  PROVE  SumOver(f, A \cup B) = SumOver(f, A) + SumOver(f, B)
<1> DEFINE Adds ==
             {m \in Nat : \A s \in SUBSET S : Cardinality(s) = m /\ A \cap s = {} =>
                            SumOver(f, A \cup s) = SumOver(f, A) + SumOver(f, s)}
<1>1. \A s \in SUBSET S : IsFiniteSet(s) /\ Cardinality(s) \in Nat BY FS_Subset, FS_CardinalityType
<1>2. \A s \in SUBSET S : SumOver(f, s) \in Int BY SumIsInt
<1>3. 0 \in Adds
  <2>1. \A s \in SUBSET S : Cardinality(s) = 0 => s = {} BY <1>1, FS_EmptySet
  <2>2. SumOver(f, {}) = 0 BY SumOfNone
  <2>3. A \cup {} = A OBVIOUS
  <2> QED BY <1>2, <2>1, <2>2, <2>3
<1>4. ASSUME NEW m \in Nat, m \in Adds PROVE m + 1 \in Adds
  <2> SUFFICES ASSUME NEW s \in SUBSET S, Cardinality(s) = m + 1, A \cap s = {}
               PROVE  SumOver(f, A \cup s) = SumOver(f, A) + SumOver(f, s)
    OBVIOUS
  <2>1. s # {}
    <3>1. m + 1 # 0 OBVIOUS
    <3> QED BY <3>1, FS_EmptySet
  <2>2. PICK y \in s : TRUE BY <2>1
  <2> DEFINE rest == s \ {y}
  <2>3. Cardinality(rest) = m BY <1>1, FS_RemoveElement
  <2>4. SumOver(f, A \cup rest) = SumOver(f, A) + SumOver(f, rest) BY <1>4, <2>3
  <2>5. SumOver(f, s) = f[y] + SumOver(f, rest) BY SumWithout
  <2>6. SumOver(f, A \cup s) = f[y] + SumOver(f, A \cup rest)
    <3>1. A \cup s \in SUBSET S /\ y \in A \cup s /\ (A \cup s) \ {y} = A \cup rest OBVIOUS
    <3> QED BY <3>1, SumWithout
  <2>7. f[y] \in Int /\ SumOver(f, A) \in Int /\ SumOver(f, rest) \in Int BY <1>2
  <2> HIDE DEF Adds
  <2> QED BY <2>4, <2>5, <2>6, <2>7
<1>5. Nat \subseteq Adds
  <2> HIDE DEF Adds
  <2> QED BY <1>3, <1>4, Induction
<1> QED BY <1>1, <1>5

LEMMA TotalIsSum ==
  ASSUME NEW S, NEW f \in [S -> Int] PROVE Total(f) = SumOver(f, S)
<1>1. f = [y \in S |-> f[y]] OBVIOUS
<1> QED BY <1>1 DEF SumOver

SumsBlocks(sums, S, f, T, g) ==
  sums = [b \in T |-> Total([k \in {k \in S : g[k] = b} |-> f[k]])]

LEMMA SumByBlocks ==
  ASSUME NEW S, IsFiniteSet(S), NEW f \in [S -> Int], NEW T, IsFiniteSet(T), NEW g \in [S -> T],
         NEW sums, SumsBlocks(sums, S, f, T, g)
  PROVE  Total(sums) = Total(f)
<1> DEFINE block(b) == {k \in S : g[k] = b}
           within(t) == {k \in S : g[k] \in t}
           Cut == {j \in Nat : \A t \in SUBSET T : Cardinality(t) = j =>
                                 SumOver(sums, t) = SumOver(f, within(t))}
<1>1. \A t : block(t) \in SUBSET S /\ within(t) \in SUBSET S OBVIOUS
<1>2. sums = [b \in T |-> SumOver(f, block(b))] BY DEF SumsBlocks, SumOver
<1>3. within({}) = {} /\ within(T) = S OBVIOUS
<1>4. \A t \in SUBSET T : \A b \in t : /\ within(t) = within(t \ {b}) \cup block(b)
                                       /\ within(t \ {b}) \cap block(b) = {}
  OBVIOUS
<1> HIDE DEF block, within
<1>5. sums \in [T -> Int] /\ \A b \in T : sums[b] = SumOver(f, block(b)) /\ sums[b] \in Int
  <2>1. \A b \in T : SumOver(f, block(b)) \in Int BY <1>1, SumIsInt
  <2> QED BY <1>2, <2>1
<1>6. \A t \in SUBSET T : IsFiniteSet(t) /\ Cardinality(t) \in Nat BY FS_Subset, FS_CardinalityType
<1>7. 0 \in Cut
  <2>1. \A t \in SUBSET T : Cardinality(t) = 0 => t = {} BY <1>6, FS_EmptySet
  <2>2. SumOver(sums, {}) = 0 /\ SumOver(f, {}) = 0 BY <1>5, SumOfNone
  <2> QED BY <1>3, <2>1, <2>2
<1>8. ASSUME NEW j \in Nat, j \in Cut PROVE j + 1 \in Cut
  <2> SUFFICES ASSUME NEW t \in SUBSET T, Cardinality(t) = j + 1
               PROVE  SumOver(sums, t) = SumOver(f, within(t))
    OBVIOUS
  <2>1. t # {}
    <3>1. j + 1 # 0 OBVIOUS
    <3> QED BY <3>1, FS_EmptySet
  <2>2. PICK b \in t : TRUE BY <2>1
  <2>3. Cardinality(t \ {b}) = j
    <3>1. IsFiniteSet(t) /\ (j + 1) - 1 = j BY <1>6
    <3> QED BY <3>1, FS_RemoveElement
  <2>4. SumOver(sums, t \ {b}) = SumOver(f, within(t \ {b})) BY <1>8, <2>3
  <2> HIDE DEF Cut
  <2>5. SumOver(sums, t) = sums[b] + SumOver(sums, t \ {b}) BY <1>5, SumWithout
  <2>6. SumOver(f, within(t)) = SumOver(f, within(t \ {b})) + SumOver(f, block(b))
    <3> DEFINE A == within(t \ {b})
               B == block(b)
    <3>1. A \in SUBSET S /\ B \in SUBSET S /\ A \cap B = {} /\ within(t) = A \cup B BY <1>1, <1>4
    <3> HIDE DEF A, B
    <3>2. SumOver(f, A \cup B) = SumOver(f, A) + SumOver(f, B) BY <3>1, SumOfUnion
    <3> QED BY <3>1, <3>2 DEF A, B
  <2>7. SumOver(f, within(t \ {b})) \in Int /\ sums[b] \in Int /\ sums[b] = SumOver(f, block(b))
    BY <1>1, <1>5, SumIsInt
  <2> QED BY <2>4, <2>5, <2>6, <2>7
<1>9. Cardinality(T) \in Cut
  <2> HIDE DEF Cut
  <2>1. Nat \subseteq Cut BY <1>7, <1>8, Induction
  <2> QED BY <1>6, <2>1
<1>10. SumOver(sums, T) = SumOver(f, S) BY <1>3, <1>9
<1> QED BY <1>5, <1>10, TotalIsSum

LEMMA SumOfOnes ==
  ASSUME NEW S, IsFiniteSet(S) PROVE Total([k \in S |-> 1]) = Cardinality(S)
<1> DEFINE one == [k \in S |-> 1]
           Counts == {m \in Nat : \A s \in SUBSET S : Cardinality(s) = m => SumOver(one, s) = m}
<1>1. one \in [S -> Int] /\ \A k \in S : one[k] = 1 OBVIOUS
<1>2. \A s \in SUBSET S : IsFiniteSet(s) /\ Cardinality(s) \in Nat BY FS_Subset, FS_CardinalityType
<1> HIDE DEF one
<1>3. 0 \in Counts
  <2>1. \A s \in SUBSET S : Cardinality(s) = 0 => s = {} BY <1>2, FS_EmptySet
  <2>2. SumOver(one, {}) = 0 BY <1>1, SumOfNone
  <2> QED BY <2>1, <2>2
<1>4. ASSUME NEW m \in Nat, m \in Counts PROVE m + 1 \in Counts
  <2> SUFFICES ASSUME NEW s \in SUBSET S, Cardinality(s) = m + 1 PROVE SumOver(one, s) = m + 1
    OBVIOUS
  <2>1. s # {}
    <3>1. m + 1 # 0 OBVIOUS
    <3> QED BY <3>1, FS_EmptySet
  <2>2. PICK y \in s : TRUE BY <2>1
  <2>3. Cardinality(s \ {y}) = m BY <1>2, FS_RemoveElement
  <2>4. SumOver(one, s \ {y}) = m BY <1>4, <2>3
  <2>5. SumOver(one, s) = one[y] + SumOver(one, s \ {y}) BY <1>1, SumWithout
  <2> HIDE DEF Counts
  <2> QED BY <1>1, <2>4, <2>5
<1>5. Nat \subseteq Counts
  <2> HIDE DEF Counts
  <2> QED BY <1>3, <1>4, Induction
<1>6. SumOver(one, S) = Cardinality(S) BY <1>2, <1>5
<1> QED BY <1>1, <1>6, TotalIsSum DEF one

(* The sum, and the number, of what a function without repetition takes    *)
(* from a set.                                                             *)
LEMMA SumOfImage ==
  ASSUME NEW A, IsFiniteSet(A), NEW p, \A a, b \in A : p[a] = p[b] => a = b,
         NEW f \in [{p[a] : a \in A} -> Int]
  PROVE  Total([a \in A |-> f[p[a]]]) = Total(f)
<1> DEFINE image(s) == {p[a] : a \in s}
           B == image(A)
           e == [a \in A |-> f[p[a]]]
           Same == {m \in Nat : \A s \in SUBSET A : Cardinality(s) = m =>
                                  SumOver(e, s) = SumOver(f, image(s))}
<1>1. e \in [A -> Int] /\ f \in [B -> Int] /\ \A a \in A : e[a] = f[p[a]] OBVIOUS
<1>2. \A s \in SUBSET A : IsFiniteSet(s) /\ Cardinality(s) \in Nat BY FS_Subset, FS_CardinalityType
<1>3. IsFiniteSet(B)
  <2> DEFINE q == [a \in A |-> p[a]]
  <2>1. q \in Surjection(A, B) BY DEF Surjection
  <2> QED BY <2>1, FS_Surjection
<1>4. \A s \in SUBSET A : image(s) \in SUBSET B OBVIOUS
<1>5. \A s \in SUBSET A : \A y \in s : p[y] \in image(s) /\ image(s) \ {p[y]} = image(s \ {y})
  <2> SUFFICES ASSUME NEW s \in SUBSET A, NEW y \in s
               PROVE  p[y] \in image(s) /\ image(s) \ {p[y]} = image(s \ {y})
    OBVIOUS
  <2>1. \A a \in s : p[a] = p[y] => a = y OBVIOUS
  <2> QED BY <2>1
<1>6. image({}) = {} OBVIOUS
<1> HIDE DEF image, e
<1>7. 0 \in Same
  <2>1. \A s \in SUBSET A : Cardinality(s) = 0 => s = {} BY <1>2, FS_EmptySet
  <2>2. SumOver(e, {}) = 0 /\ SumOver(f, {}) = 0 BY <1>1, <1>3, SumOfNone
  <2> QED BY <1>6, <2>1, <2>2
<1>8. ASSUME NEW m \in Nat, m \in Same PROVE m + 1 \in Same
  <2> SUFFICES ASSUME NEW s \in SUBSET A, Cardinality(s) = m + 1
               PROVE  SumOver(e, s) = SumOver(f, image(s))
    OBVIOUS
  <2>1. s # {}
    <3>1. m + 1 # 0 OBVIOUS
    <3> QED BY <3>1, FS_EmptySet
  <2>2. PICK y \in s : TRUE BY <2>1
  <2>3. Cardinality(s \ {y}) = m BY <1>2, FS_RemoveElement
  <2>4. SumOver(e, s \ {y}) = SumOver(f, image(s \ {y})) BY <1>8, <2>3
  <2>5. SumOver(e, s) = e[y] + SumOver(e, s \ {y}) BY <1>1, SumWithout
  <2>6. SumOver(f, image(s)) = f[p[y]] + SumOver(f, image(s \ {y}))
    <3>1. p[y] \in image(s) /\ image(s) \ {p[y]} = image(s \ {y}) BY <1>5
    <3>2. image(s) \in SUBSET B BY <1>4
    <3>3. SumOver(f, image(s)) = f[p[y]] + SumOver(f, image(s) \ {p[y]})
      BY <1>1, <1>3, <3>1, <3>2, SumWithout
    <3> QED BY <3>1, <3>3
  <2> QED BY <1>1, <2>4, <2>5, <2>6
<1>9. Nat \subseteq Same
  <2> HIDE DEF Same
  <2> QED BY <1>7, <1>8, Induction
<1>10. SumOver(e, A) = SumOver(f, B) BY <1>2, <1>9
<1>11. Total(e) = Total(f) BY <1>1, <1>10, TotalIsSum
<1> QED BY <1>11 DEF e

LEMMA SizeOfImage ==
  ASSUME NEW A, IsFiniteSet(A), NEW p, \A a, b \in A : p[a] = p[b] => a = b
  PROVE  IsFiniteSet({p[a] : a \in A}) /\ Cardinality({p[a] : a \in A}) = Cardinality(A)
<1> DEFINE B == {p[a] : a \in A}
           q == [a \in A |-> p[a]]
<1>1. q \in Bijection(A, B) BY DEF Bijection, Injection, Surjection, IsInjective
<1>2. ExistsBijection(A, B) BY <1>1 DEF ExistsBijection
<1> HIDE DEF B
<1>3. IsFiniteSet(B) /\ Cardinality(B) = Cardinality(A) BY <1>2, FS_Bijection
<1> QED BY <1>3 DEF B

-----------------------------------------------------------------------------
(* The rank of an element in a finite order numbers the elements from 1.   *)
IsOrder(R, A) ==
  /\ \A a \in A : <<a, a>> \in R
  /\ \A a, b \in A : <<a, b>> \in R \/ <<b, a>> \in R
  /\ \A a, b \in A : <<a, b>> \in R /\ <<b, a>> \in R => a = b
  /\ \A a, b, c \in A : <<a, b>> \in R /\ <<b, c>> \in R => <<a, c>> \in R

Rank(R, A) == [a \in A |-> Cardinality({b \in A : <<b, a>> \in R})]

LEMMA Ranks ==
  ASSUME NEW A, IsFiniteSet(A), NEW R, IsOrder(R, A)
  PROVE  /\ Rank(R, A) \in [A -> 1..Cardinality(A)]
         /\ \A a, b \in A : a # b /\ <<a, b>> \in R => Rank(R, A)[a] < Rank(R, A)[b]
         /\ \A j \in 1..Cardinality(A) : \E a \in A : Rank(R, A)[a] = j
<1> DEFINE rank == Rank(R, A)
           upTo(a) == {b \in A : <<b, a>> \in R}
<1>1. /\ Cardinality(A) \in Nat
      /\ \A a \in A : /\ IsFiniteSet(upTo(a)) /\ Cardinality(upTo(a)) \in Nat
                      /\ Cardinality(upTo(a)) <= Cardinality(A)
  <2>1. \A a \in A : upTo(a) \in SUBSET A OBVIOUS
  <2> HIDE DEF upTo
  <2> QED BY <2>1, FS_Subset, FS_CardinalityType
<1>2. \A a \in A : a \in upTo(a) BY DEF IsOrder
<1>3. \A a \in A : Cardinality(upTo(a)) # 0 BY <1>1, <1>2, FS_EmptySet
<1>4. rank = [a \in A |-> Cardinality(upTo(a))] /\ \A a \in A : rank[a] = Cardinality(upTo(a))
  BY DEF Rank
<1> HIDE DEF rank
<1>5. \A a, b \in A : a # b /\ <<a, b>> \in R => rank[a] < rank[b]
  <2> SUFFICES ASSUME NEW a \in A, NEW b \in A, a # b, <<a, b>> \in R PROVE rank[a] < rank[b]
    OBVIOUS
  <2>1. upTo(a) \in SUBSET upTo(b) BY DEF IsOrder
  <2>2. b \in upTo(b) /\ b \notin upTo(a) BY DEF IsOrder
  <2> HIDE DEF upTo
  <2>3. Cardinality(upTo(a)) <= Cardinality(upTo(b)) /\ Cardinality(upTo(a)) # Cardinality(upTo(b))
    BY <1>1, <2>1, <2>2, FS_Subset
  <2>4. rank[a] = Cardinality(upTo(a)) /\ rank[b] = Cardinality(upTo(b)) BY <1>4
  <2> QED BY <1>1, <2>3, <2>4
<1>6. rank \in [A -> 1..Cardinality(A)]
  <2>1. \A a \in A : rank[a] \in 1..Cardinality(A) BY <1>1, <1>3, <1>4
  <2>2. rank = [a \in A |-> rank[a]] BY <1>4
  <2> QED BY <2>1, <2>2
<1>7. \A a, b \in A : rank[a] = rank[b] => a = b
  <2> SUFFICES ASSUME NEW a \in A, NEW b \in A, a # b PROVE rank[a] # rank[b] OBVIOUS
  <2>1. rank[a] \in Nat /\ rank[b] \in Nat BY <1>1, <1>4
  <2>2. rank[a] < rank[b] \/ rank[b] < rank[a] BY <1>5 DEF IsOrder
  <2> QED BY <2>1, <2>2
<1>8. \A j \in 1..Cardinality(A) : \E a \in A : rank[a] = j
  <2> DEFINE N == 1..Cardinality(A)
  <2>1. IsFiniteSet(N) /\ Cardinality(N) = Cardinality(A) BY <1>1, FS_Interval
  <2>2. rank \in Injection(A, N) BY <1>6, <1>7 DEF Injection, IsInjective
  <2> HIDE DEF N
  <2>3. rank \in Surjection(A, N) BY <2>1, <2>2, FS_Injection
  <2> QED BY <2>3 DEF Surjection, N
<1> QED BY <1>5, <1>6, <1>8 DEF rank

(* What At returns: each index of D once, in increasing order.             *)
IsEnumeration(e, D) ==
  /\ Cardinality(D) \in Nat /\ e \in [1..Cardinality(D) -> D]
  /\ \A i, j \in 1..Cardinality(D) : i < j => e[i] < e[j]
  /\ \A d \in D : \E j \in 1..Cardinality(D) : e[j] = d

LEMMA AtEnumerates ==
  ASSUME NEW n \in Nat, NEW D \in SUBSET (1..n)
  PROVE  \E e : IsEnumeration(e, D) /\ \A s : At(s, D) = [j \in 1..Cardinality(D) |-> s[e[j]]]
<1> DEFINE R == {p \in D \X D : p[1] <= p[2]}
           rank == Rank(R, D)
           e == [j \in 1..Cardinality(D) |-> CHOOSE k \in D : Cardinality({i \in D : i <= k}) = j]
<1>1. IsFiniteSet(D) /\ Cardinality(D) \in Nat /\ \A d \in D : d \in Nat
  <2>1. IsFiniteSet(1..n) /\ \A d \in 1..n : d \in Nat BY FS_Interval
  <2>2. IsFiniteSet(D) BY <2>1, FS_Subset
  <2> QED BY <2>1, <2>2, FS_CardinalityType
<1>2. \A a, b \in D : <<a, b>> \in R <=> a <= b OBVIOUS
<1>3. IsOrder(R, D)
  <2> HIDE DEF R
  <2> QED BY <1>1, <1>2 DEF IsOrder
<1>4. \A a \in D : rank[a] = Cardinality({b \in D : b <= a})
  <2>1. \A a \in D : {b \in D : <<b, a>> \in R} = {b \in D : b <= a} BY <1>2
  <2> HIDE DEF R
  <2> QED BY <2>1 DEF Rank
<1>5. /\ rank \in [D -> 1..Cardinality(D)]
      /\ \A a, b \in D : a # b /\ <<a, b>> \in R => rank[a] < rank[b]
      /\ \A j \in 1..Cardinality(D) : \E a \in D : rank[a] = j
  <2> HIDE DEF R
  <2> QED BY <1>1, <1>3, Ranks
<1> HIDE DEF rank, R
<1>6. \A j \in 1..Cardinality(D) : e[j] \in D /\ rank[e[j]] = j
  <2> TAKE j \in 1..Cardinality(D)
  <2>1. \E k \in D : Cardinality({i \in D : i <= k}) = j BY <1>4, <1>5
  <2>2. e[j] \in D /\ Cardinality({i \in D : i <= e[j]}) = j BY <2>1
  <2> HIDE DEF e
  <2> QED BY <1>4, <2>2
<1>7. \A s : At(s, D) = [j \in 1..Cardinality(D) |-> s[e[j]]] BY DEF At
<1> HIDE DEF e
<1>8. \A i, j \in 1..Cardinality(D) : i < j => e[i] < e[j]
  <2> SUFFICES ASSUME NEW i \in 1..Cardinality(D), NEW j \in 1..Cardinality(D), ~(e[i] < e[j])
               PROVE  ~(i < j)
    OBVIOUS
  <2>1. e[i] \in D /\ e[j] \in D /\ rank[e[i]] = i /\ rank[e[j]] = j BY <1>6
  <2>2. e[j] <= e[i]
    <3>1. e[i] \in Nat /\ e[j] \in Nat BY <1>1, <2>1
    <3> QED BY <3>1
  <2>3. e[i] = e[j] \/ rank[e[j]] < rank[e[i]] BY <1>2, <1>5, <2>1, <2>2
  <2> QED BY <2>1, <2>3
<1>9. \A d \in D : \E j \in 1..Cardinality(D) : e[j] = d
  <2> TAKE d \in D
  <2>1. rank[d] \in 1..Cardinality(D) BY <1>5
  <2>2. e[rank[d]] \in D /\ rank[e[rank[d]]] = rank[d] BY <1>6, <2>1
  <2>3. e[rank[d]] = d
    <3>1. d \in Nat /\ e[rank[d]] \in Nat BY <1>1, <2>2
    <3>2. <<d, e[rank[d]]>> \in R \/ <<e[rank[d]], d>> \in R BY <1>2, <2>2, <3>1
    <3>3. ~(rank[d] < rank[e[rank[d]]]) /\ ~(rank[e[rank[d]]] < rank[d])
      <4>1. rank[d] \in Nat BY <2>1
      <4> QED BY <2>2, <4>1
    <3> QED BY <1>5, <2>2, <3>2, <3>3
  <2> QED BY <2>1, <2>3
<1>10. e \in [1..Cardinality(D) -> D]
  <2>1. e = [j \in 1..Cardinality(D) |-> e[j]] BY DEF e
  <2> QED BY <1>6, <2>1
<1> QED BY <1>1, <1>7, <1>8, <1>9, <1>10 DEF IsEnumeration

(* A table can be sorted by any key.                                       *)
LEMMA SortExists ==
  ASSUME NEW n \in Nat, NEW key \in [1..n -> Int]
  PROVE  \E p \in Bijection(1..n, 1..n) : \A i, j \in 1..n : i < j => key[p[i]] <= key[p[j]]
<1> DEFINE N == 1..n
           R == {q \in N \X N : key[q[1]] < key[q[2]] \/ (key[q[1]] = key[q[2]] /\ q[1] <= q[2])}
           rank == Rank(R, N)
           p == [j \in N |-> CHOOSE k \in N : rank[k] = j]
<1>1. IsFiniteSet(N) /\ Cardinality(N) = n BY FS_Interval
<1>2. \A a \in N : a \in Nat /\ key[a] \in Int OBVIOUS
<1>3. \A a, b \in N : <<a, b>> \in R <=> key[a] < key[b] \/ (key[a] = key[b] /\ a <= b) OBVIOUS
<1>4. IsOrder(R, N)
  <2> HIDE DEF R, N
  <2>1. \A a \in N : <<a, a>> \in R BY <1>2, <1>3
  <2>2. \A a, b \in N : <<a, b>> \in R \/ <<b, a>> \in R
    <3> TAKE a, b \in N
    <3>1. a \in Nat /\ b \in Nat /\ key[a] \in Int /\ key[b] \in Int BY <1>2
    <3>2. key[a] < key[b] \/ key[b] < key[a] \/ (key[a] = key[b] /\ (a <= b \/ b <= a)) BY <3>1
    <3> QED BY <1>3, <3>2
  <2>3. \A a, b \in N : <<a, b>> \in R /\ <<b, a>> \in R => a = b BY <1>2, <1>3
  <2>4. \A a, b, c \in N : <<a, b>> \in R /\ <<b, c>> \in R => <<a, c>> \in R
    <3> SUFFICES ASSUME NEW a \in N, NEW b \in N, NEW c \in N, <<a, b>> \in R, <<b, c>> \in R
                 PROVE  <<a, c>> \in R
      OBVIOUS
    <3>1. /\ a \in Nat /\ b \in Nat /\ c \in Nat
          /\ key[a] \in Int /\ key[b] \in Int /\ key[c] \in Int
      BY <1>2
    <3>2. /\ key[a] < key[b] \/ (key[a] = key[b] /\ a <= b)
          /\ key[b] < key[c] \/ (key[b] = key[c] /\ b <= c)
      BY <1>3
    <3>3. key[a] < key[c] \/ (key[a] = key[c] /\ a <= c) BY <3>1, <3>2
    <3> QED BY <1>3, <3>3
  <2> QED BY <2>1, <2>2, <2>3, <2>4 DEF IsOrder
<1>5. /\ rank \in [N -> 1..Cardinality(N)]
      /\ \A a, b \in N : a # b /\ <<a, b>> \in R => rank[a] < rank[b]
      /\ \A j \in 1..Cardinality(N) : \E a \in N : rank[a] = j
  <2> HIDE DEF R, N
  <2> QED BY <1>1, <1>4, Ranks
<1>6. /\ rank \in [N -> N] /\ \A j \in N : \E a \in N : rank[a] = j BY <1>1, <1>5
<1> HIDE DEF rank, R
<1>7. \A j \in N : p[j] \in N /\ rank[p[j]] = j
  <2> TAKE j \in N
  <2>1. \E k \in N : rank[k] = j BY <1>6
  <2> HIDE DEF N
  <2> QED BY <2>1
<1>8. p \in [N -> N]
  <2>1. p = [j \in N |-> p[j]] OBVIOUS
  <2> QED BY <1>7, <2>1
<1> HIDE DEF p
<1>9. p \in Injection(N, N)
  <2>1. \A a, b \in N : p[a] = p[b] => a = b BY <1>7
  <2> HIDE DEF N
  <2> QED BY <1>8, <2>1 DEF Injection, IsInjective
<1>10. p \in Bijection(N, N)
  <2> HIDE DEF N
  <2>1. p \in Surjection(N, N) BY <1>1, <1>9, FS_Injection
  <2> QED BY <1>9, <2>1 DEF Bijection
<1>11. \A i, j \in N : i < j => key[p[i]] <= key[p[j]]
  <2> SUFFICES ASSUME NEW i \in N, NEW j \in N, ~(key[p[i]] <= key[p[j]]) PROVE ~(i < j)
    OBVIOUS
  <2>1. p[i] \in N /\ p[j] \in N /\ rank[p[i]] = i /\ rank[p[j]] = j BY <1>7
  <2>2. key[p[j]] < key[p[i]] BY <1>2, <2>1
  <2>3. <<p[j], p[i]>> \in R /\ p[j] # p[i] BY <1>2, <1>3, <2>1, <2>2
  <2>4. rank[p[j]] < rank[p[i]] BY <1>5, <2>1, <2>3
  <2> QED BY <1>2, <2>1, <2>4
<1> QED BY <1>10, <1>11

(* The extremes of a column.                                               *)
LEMMA ColumnExtremes ==
  ASSUME NEW n \in Nat, n > 0, NEW f \in [1..n -> Nat]
  PROVE  /\ \E k \in 1..n : Min({f[j] : j \in 1..n}) = f[k]
         /\ \E k \in 1..n : Max({f[j] : j \in 1..n}) = f[k]
         /\ \A k \in 1..n : /\ Min({f[j] : j \in 1..n}) <= f[k]
                            /\ f[k] <= Max({f[j] : j \in 1..n})
<1> DEFINE S == {f[j] : j \in 1..n}
<1>1. S \in SUBSET Nat /\ S # {} /\ 1 \in 1..n OBVIOUS
<1>2. PICK p \in Bijection(1..n, 1..n) : \A i, j \in 1..n : i < j => f[p[i]] <= f[p[j]]
  <2>1. f \in [1..n -> Int] OBVIOUS
  <2> QED BY <2>1, SortExists
<1>3. \A k \in 1..n : f[k] <= f[p[n]]
  <2> TAKE k \in 1..n
  <2>1. p \in [1..n -> 1..n] /\ \E j \in 1..n : p[j] = k BY <1>2 DEF Bijection, Injection, Surjection
  <2>2. PICK j \in 1..n : p[j] = k BY <2>1
  <2>3. n \in 1..n /\ p[n] \in 1..n BY <2>1
  <2>4. CASE j = n BY <2>2, <2>3, <2>4
  <2>5. CASE j < n BY <1>2, <2>2, <2>3, <2>5
  <2> QED BY <2>4, <2>5
<1>4. f[p[n]] \in Nat /\ \A x \in S : x <= f[p[n]]
  <2>1. p[n] \in 1..n BY <1>2 DEF Bijection, Injection
  <2> QED BY <1>3, <2>1
<1> HIDE DEF S
<1>5. Min(S) \in S /\ \A x \in S : Min(S) <= x BY <1>1, MinOf
<1>6. Max(S) \in S /\ \A x \in S : x <= Max(S) BY <1>1, <1>4, MaxOf
<1> QED BY <1>5, <1>6 DEF S

LEMMA DivBounds ==
  ASSUME NEW a \in Nat, NEW w \in Nat, w > 0
  PROVE  /\ a \div w \in Nat /\ w * (a \div w) \in Nat
         /\ w * (a \div w) <= a /\ a < w * ((a \div w) + 1)
OBVIOUS

LEMMA DivIsMonotone ==
  ASSUME NEW a \in Nat, NEW b \in Nat, a <= b, NEW w \in Nat, w > 0
  PROVE  a \div w \in Nat /\ b \div w \in Nat /\ a \div w <= b \div w
<1> DEFINE q == a \div w
           r == b \div w
<1>1. q \in Nat /\ r \in Nat OBVIOUS
<1>2. w * q <= a /\ b < w * (r + 1) OBVIOUS
<1> HIDE DEF q, r
<1>3. w * q < w * (r + 1) BY <1>1, <1>2
<1>4. q < r + 1 BY <1>1, <1>3, SMT
<1> QED BY <1>1, <1>4 DEF q, r

-----------------------------------------------------------------------------
(* Unsigned subtraction and the conversions of numbers that are in range.  *)
LEMMA SubOfLater == ASSUME NEW a \in Nat, NEW b \in Nat, a <= b PROVE Sub(b, a) = b - a
BY DEF Sub

LEMMA ToIntOfSmall == ASSUME NEW u \in Nat, 2 * u < IntSize PROVE ToInt(u) = u
<1>1. IntSize \in Nat /\ IntSize > 0 BY TimeSeriesAssumption
<1>2. u % IntSize = u BY <1>1, SMT
<1> QED BY <1>1, <1>2 DEF ToInt

LEMMA WordOfInt ==
  ASSUME NEW u \in Nat
  PROVE  /\ ToWord(ToInt(u)) \in Nat
         /\ u % IntSize # 0 => ToWord(ToInt(u)) > 0
         /\ 2 * u < IntSize => ToWord(ToInt(u)) = u
<1> DEFINE low == u % IntSize
<1>0. IntSize \in Nat /\ IntSize > 0 /\ WordSize \in Nat /\ WordSize >= IntSize
  BY TimeSeriesAssumption
<1>1. low \in 0..(IntSize - 1) BY <1>0
<1>2. ToInt(u) = IF 2 * low >= IntSize THEN low - IntSize ELSE low BY DEF ToInt
<1>3. 2 * u < IntSize => ToInt(u) = u BY ToIntOfSmall
<1> HIDE DEF low
<1>4. ToWord(ToInt(u)) \in Nat /\ (low # 0 => ToWord(ToInt(u)) > 0) BY <1>0, <1>1, <1>2 DEF ToWord
<1> QED BY <1>3, <1>4 DEF ToWord, low

-----------------------------------------------------------------------------
(* A sum of numbers that are not negative is no less than a part of it.    *)
LEMMA SumIsNat ==
  ASSUME NEW S, IsFiniteSet(S), NEW f \in [S -> Nat], NEW T \in SUBSET S
  PROVE  SumOver(f, T) \in Nat
<1> DEFINE Good == {m \in Nat : \A s \in SUBSET S : Cardinality(s) = m => SumOver(f, s) \in Nat}
<1>0. f \in [S -> Int] OBVIOUS
<1>1. \A s \in SUBSET S : IsFiniteSet(s) /\ Cardinality(s) \in Nat BY FS_Subset, FS_CardinalityType
<1>2. 0 \in Good
  <2>1. \A s \in SUBSET S : Cardinality(s) = 0 => s = {} BY <1>1, FS_EmptySet
  <2>2. SumOver(f, {}) = 0 BY <1>0, SumOfNone
  <2> QED BY <2>1, <2>2
<1>3. ASSUME NEW m \in Nat, m \in Good PROVE m + 1 \in Good
  <2> SUFFICES ASSUME NEW s \in SUBSET S, Cardinality(s) = m + 1 PROVE SumOver(f, s) \in Nat
    OBVIOUS
  <2>1. s # {}
    <3>1. m + 1 # 0 OBVIOUS
    <3> QED BY <3>1, FS_EmptySet
  <2>2. PICK y \in s : TRUE BY <2>1
  <2>3. IsFiniteSet(s) /\ (m + 1) - 1 = m BY <1>1
  <2>4. Cardinality(s \ {y}) = m BY <2>3, FS_RemoveElement
  <2>5. SumOver(f, s \ {y}) \in Nat BY <1>3, <2>4
  <2> HIDE DEF Good
  <2>6. SumOver(f, s) = f[y] + SumOver(f, s \ {y}) BY <1>0, SumWithout
  <2> QED BY <2>5, <2>6
<1>4. Nat \subseteq Good
  <2> HIDE DEF Good
  <2> QED BY <1>2, <1>3, Induction
<1> QED BY <1>1, <1>4

LEMMA SumOfPart ==
  ASSUME NEW S, IsFiniteSet(S), NEW f \in [S -> Nat], NEW T \in SUBSET S
  PROVE  SumOver(f, T) \in Nat /\ SumOver(f, T) <= SumOver(f, S)
<1> DEFINE rest == S \ T
<1>1. SumOver(f, T) \in Nat /\ SumOver(f, rest) \in Nat BY SumIsNat
<1>2. f \in [S -> Int] /\ T \cap rest = {} /\ T \cup rest = S /\ rest \in SUBSET S OBVIOUS
<1> HIDE DEF rest
<1>3. SumOver(f, T \cup rest) = SumOver(f, T) + SumOver(f, rest) BY <1>2, SumOfUnion
<1> DEFINE a == SumOver(f, T)
           b == SumOver(f, rest)
           c == SumOver(f, S)
<1>4. c = a + b BY <1>2, <1>3
<1>5. a \in Nat /\ b \in Nat BY <1>1
<1> HIDE DEF a, b, c
<1>6. a <= c BY <1>4, <1>5
<1> QED BY <1>5, <1>6 DEF a, c

-----------------------------------------------------------------------------
(* The heatmap: as long as the width of a bucket is not cut to 0, every    *)
(* sector lies in a bucket; none of the counts is lost if they fit an int, *)
(* and if the width fits one there are no more buckets than parts.         *)
LEMMA HeatmapHoldsAll ==
  ASSUME NEW recv \in Seq([sector : 0..(WordSize \div 2 - 1), stats : Nat]), recv # <<>>,
         NEW partition \in Nat, partition > 0,
         NEW sectors, sectors = {r.sector : r \in Elements(recv)},
         NEW uncut, uncut = (Max(sectors) - Min(sectors)) \div partition + HeatBias,
         uncut % IntSize # 0
  PROVE  LET map == Heatmap(recv, partition)
             stats == Total(Column(recv, LAMBDA r : r.stats))
         IN /\ map.valid
            /\ 2 * stats < IntSize => Total(map.bucket) = stats
            /\ 2 * uncut < IntSize => Cardinality(DOMAIN map.bucket) <= partition
<1> DEFINE n == Len(recv)
           K == 1..n
           top == WordSize \div 2 - 1
           low == Min(sectors \cup {top})
           range == Max(sectors \cup {0}) - low
           width == HeatWidth(range, partition)
           slot(r) == (r.sector - low) \div width
           size == HeatSize(range, width)
           g == [k \in K |-> slot(recv[k])]
           f == [k \in K |-> recv[k].stats]
           stats == Total(Column(recv, LAMBDA r : r.stats))
           bucket == Heatmap(recv, partition).bucket
<1>1. n \in Nat /\ n > 0 /\ \A k \in K : recv[k] \in [sector : 0..top, stats : Nat]
  <2>1. Len(recv) \in Nat /\ Len(recv) # 0 OBVIOUS
  <2>2. \A k \in 1..Len(recv) : recv[k] \in [sector : 0..top, stats : Nat] BY ElementOfSeq
  <2> QED BY <2>1, <2>2
<1>2. \A k \in K : recv[k].sector \in 0..top /\ recv[k].stats \in Nat BY <1>1
<1>3. 1 \in K /\ top \in Nat
  <2>1. WordSize \div 2 \in Int BY TimeSeriesAssumption
  <2>2. 1 \in K BY <1>1
  <2>3. top \in Int /\ recv[1].sector \in 0..top BY <1>2, <2>1, <2>2
  <2> HIDE DEF top
  <2> QED BY <2>2, <2>3
<1> HIDE DEF top
<1>4. /\ \A k \in K : low <= recv[k].sector /\ recv[k].sector <= Max(sectors \cup {0})
      /\ low \in Nat /\ Max(sectors \cup {0}) \in Nat /\ low <= Max(sectors \cup {0})
      /\ low = Min(sectors) /\ Max(sectors \cup {0}) = Max(sectors)
  <2>1. sectors \in SUBSET (0..top) /\ \A k \in K : recv[k].sector \in sectors
    BY <1>2 DEF Elements
  <2> DEFINE below == sectors \cup {top}
             above == sectors \cup {0}
  <2>2. sectors \in SUBSET Nat /\ sectors # {} /\ \A x \in sectors : x <= top
    <3>1. \A x \in 0..top : x \in Nat /\ x <= top BY <1>3
    <3>2. recv[1].sector \in sectors BY <1>3, <2>1
    <3> HIDE DEF K
    <3> QED BY <2>1, <3>1, <3>2
  <2>3. below \in SUBSET Nat /\ below # {} BY <1>3, <2>2
  <2>4. above \in SUBSET Nat /\ above # {} /\ \A x \in above : x <= top BY <1>3, <2>2
  <2>5. Min(sectors) \in sectors /\ \A x \in sectors : Min(sectors) <= x BY <2>2, MinOf
  <2>6. Max(sectors) \in sectors /\ \A x \in sectors : x <= Max(sectors) BY <1>3, <2>2, MaxOf
  <2> HIDE DEF below, above
  <2>7. Min(below) \in below /\ \A x \in below : Min(below) <= x BY <2>3, MinOf
  <2>8. Max(above) \in above /\ \A x \in above : x <= Max(above) BY <1>3, <2>4, MaxOf
  <2>9. Min(below) = Min(sectors)
    <3>1. Min(sectors) \in Nat /\ Min(below) \in Nat /\ Min(sectors) <= top /\ Min(sectors) \in below
      BY <2>2, <2>3, <2>5, <2>7 DEF below
    <3>2. Min(below) <= Min(sectors) BY <2>7, <3>1
    <3>3. CASE Min(below) = top BY <1>3, <3>1, <3>2, <3>3
    <3>4. CASE Min(below) \in sectors
      <4>1. Min(sectors) <= Min(below) BY <2>5, <3>4
      <4> QED BY <3>1, <3>2, <4>1
    <3> QED BY <2>7, <3>3, <3>4 DEF below
  <2>10. Max(above) = Max(sectors)
    <3>1. Max(sectors) \in Nat /\ Max(above) \in Nat /\ Max(sectors) \in above
      BY <2>2, <2>4, <2>6, <2>8 DEF above
    <3>2. Max(sectors) <= Max(above) BY <2>8, <3>1
    <3>3. CASE Max(above) = 0 BY <3>1, <3>2, <3>3
    <3>4. CASE Max(above) \in sectors
      <4>1. Max(above) <= Max(sectors) BY <2>6, <3>4
      <4> QED BY <3>1, <3>2, <4>1
    <3> QED BY <2>8, <3>3, <3>4 DEF above
  <2>11. low = Min(sectors) /\ Max(sectors \cup {0}) = Max(sectors) BY <2>9, <2>10 DEF below, above
  <2>12. Min(sectors) <= Max(sectors) BY <2>5, <2>6
  <2> HIDE DEF low
  <2> QED BY <2>1, <2>2, <2>5, <2>6, <2>11, <2>12
<1>5. /\ range \in Nat /\ uncut = range \div partition + HeatBias
      /\ \A k \in K : recv[k].sector - low \in Nat /\ recv[k].sector - low <= range
  <2> DEFINE high == Max(sectors \cup {0})
  <2>1. range = high - low OBVIOUS
  <2>2. uncut = (high - low) \div partition + HeatBias BY <1>4
  <2>3. /\ high \in Nat /\ low \in Nat /\ low <= high
        /\ \A k \in K : low <= recv[k].sector /\ recv[k].sector <= high
    BY <1>4
  <2>4. \A k \in K : recv[k].sector \in Nat
    <3>1. \A x \in 0..top : x \in Nat BY <1>3
    <3> QED BY <1>2, <3>1
  <2> HIDE DEF low, high, range, K
  <2>5. range \in Nat BY <2>1, <2>3
  <2>6. uncut = range \div partition + HeatBias BY <2>1, <2>2
  <2>7. \A k \in K : recv[k].sector - low \in Nat /\ recv[k].sector - low <= range
    <3> TAKE k \in K
    <3> DEFINE x == recv[k].sector
    <3>1. x \in Nat /\ low <= x /\ x <= high BY <2>3, <2>4
    <3> HIDE DEF x
    <3>2. x - low \in Nat /\ x - low <= range BY <2>1, <2>3, <3>1
    <3> QED BY <3>2 DEF x
  <2> QED BY <2>5, <2>6, <2>7
<1> HIDE DEF low, range
<1>6. range \div partition \in Nat /\ uncut \in Nat /\ uncut > 0
  <2>1. range \div partition \in Nat BY <1>5, DivBounds
  <2> QED BY <1>5, <2>1, OfflineAssumption
<1>7. /\ width \in Nat /\ width > 0
      /\ 2 * uncut < IntSize => width = uncut
  BY <1>5, <1>6, WordOfInt DEF HeatWidth
<1> HIDE DEF width
<1>8. \A k \in K : slot(recv[k]) \in 0..(size - 1) /\ size \in Nat
  <2> TAKE k \in K
  <2>1. recv[k].sector - low \in Nat /\ recv[k].sector - low <= range BY <1>5
  <2>2. /\ slot(recv[k]) \in Nat /\ range \div width \in Nat /\ slot(recv[k]) <= range \div width
    BY <1>5, <1>7, <2>1, DivIsMonotone
  <2>3. size = range \div width + 1 BY DEF HeatSize
  <2> HIDE DEF slot, size
  <2> QED BY <2>2, <2>3
<1>9. size \in Nat BY <1>3, <1>8
<1>10. /\ Heatmap(recv, partition).valid = (\A r \in Elements(recv) : slot(r) < size)
       /\ bucket = [b \in 0..(size - 1) |->
                      ToInt(Total([k \in {k \in K : slot(recv[k]) = b} |-> recv[k].stats]))]
  <2>1. partition # 0 /\ width # 0 BY <1>7
  <2> QED BY <2>1 DEF Heatmap, width, range, low, top
<1>11. Heatmap(recv, partition).valid
  <2> HIDE DEF slot, size
  <2>1. \A r \in Elements(recv) : slot(r) < size BY <1>8 DEF Elements
  <2> QED BY <1>10, <2>1
<1>12. ASSUME 2 * uncut < IntSize PROVE Cardinality(DOMAIN bucket) <= partition
  <2>1. width = range \div partition + HeatBias BY <1>5, <1>7, <1>12
  <2> DEFINE part == range \div partition
             last == range \div width
  <2>2. part \in Nat /\ range < partition * (part + 1) BY <1>5, DivBounds
  <2>3. last \in Nat /\ width * last <= range BY <1>5, <1>7, DivBounds
  <2>4. HeatBias \in Nat /\ HeatBias >= 1 /\ width = part + HeatBias BY <2>1, OfflineAssumption
  <2> HIDE DEF part, last
  <2>5. part + 1 <= width BY <2>2, <2>4
  <2>6. partition * (part + 1) <= partition * width BY <1>7, <2>2, <2>5, SMTT(30)
  <2>7. width * last < width * partition
    <3>1. width * last < partition * (part + 1) /\ width * last \in Nat /\ partition * (part + 1) \in Nat
          /\ partition * width \in Nat
      BY <1>5, <1>7, <2>2, <2>3
    <3>2. width * last < partition * width BY <2>6, <3>1
    <3>3. partition * width = width * partition BY <1>7
    <3> QED BY <3>2, <3>3
  <2>8. last < partition BY <1>7, <2>3, <2>7, SMTT(30)
  <2>9. size = last + 1 BY DEF HeatSize, last
  <2>10. DOMAIN bucket = 0..(size - 1) BY <1>10
  <2> HIDE DEF size, bucket
  <2>11. Cardinality(0..(size - 1)) = (size - 1) - 0 + 1 BY <1>9, <2>3, <2>9, FS_Interval
  <2> QED BY <1>9, <2>3, <2>8, <2>9, <2>10, <2>11
<1> HIDE DEF slot, size
<1>13. g \in [K -> 0..(size - 1)] /\ \A k \in K : g[k] = slot(recv[k]) BY <1>8
<1>14. f \in [K -> Nat] /\ \A k \in K : f[k] = recv[k].stats BY <1>2
<1>15. IsFiniteSet(K) BY <1>1, FS_Interval
<1>16. stats = Total(f) BY DEF Column
<1> DEFINE T == 0..(size - 1)
<1>17. IsFiniteSet(T) /\ g \in [K -> T]
  <2>1. IsFiniteSet(T) BY <1>9, FS_Interval
  <2> QED BY <1>13, <2>1
<1> HIDE DEF g, f, K, T, stats, bucket
<1> DEFINE given(b) == [k \in {k \in K : slot(recv[k]) = b} |-> recv[k].stats]
           block(b) == [k \in {k \in K : g[k] = b} |-> f[k]]
<1>18. \A b : given(b) = block(b)
  <2> TAKE b
  <2>1. {k \in K : slot(recv[k]) = b} = {k \in K : g[k] = b} BY <1>13
  <2> QED BY <1>14, <2>1
<1>19. bucket = [b \in T |-> ToInt(Total(given(b)))] BY <1>10 DEF T
<1>20. ASSUME 2 * stats < IntSize PROVE Total(bucket) = stats
  <2>1. \A b : Total(block(b)) \in Nat /\ 2 * Total(block(b)) < IntSize
    <3> TAKE b
    <3> DEFINE S == {k \in K : g[k] = b}
    <3>1. S \in SUBSET K OBVIOUS
    <3>2. Total(block(b)) = SumOver(f, S) BY DEF SumOver
    <3> HIDE DEF S, block
    <3>3. f \in [K -> Int] BY <1>14
    <3>4. SumOver(f, S) \in Nat /\ SumOver(f, S) <= SumOver(f, K) BY <1>14, <1>15, <3>1, SumOfPart
    <3>5. SumOver(f, K) \in Nat /\ SumOver(f, K) = stats
      <4>1. SumOver(f, K) \in Nat BY <1>14, <1>15, SumIsNat
      <4> QED BY <1>16, <3>3, <4>1, TotalIsSum
    <3>6. IntSize \in Nat BY TimeSeriesAssumption
    <3> QED BY <1>20, <3>2, <3>4, <3>5, <3>6
  <2>2. \A b : ToInt(Total(given(b))) = Total(block(b))
    <3> HIDE DEF given, block
    <3> QED BY <1>18, <2>1, ToIntOfSmall
  <2>3. SumsBlocks(bucket, K, f, T, g)
    <3> SUFFICES bucket = [b \in T |-> Total(block(b))] BY DEF SumsBlocks
    <3> HIDE DEF given, block
    <3> QED BY <1>19, <2>2
  <2>4. f \in [K -> Int] BY <1>14
  <2>5. Total(bucket) = Total(f)
    <3> HIDE DEF given, block
    <3> QED BY <1>15, <1>17, <2>3, <2>4, SumByBlocks, SMTT(60)
  <2> QED BY <1>16, <2>5
<1> QED BY <1>11, <1>12, <1>20 DEF stats, bucket

-----------------------------------------------------------------------------
(* The distribution: every row is in one bucket, and the fastest in the    *)
(* first, as long as the latencies are below the largest signed long.      *)
LEMMA CountByBlocks ==
  ASSUME NEW S, IsFiniteSet(S), NEW T, IsFiniteSet(T), NEW g \in [S -> T],
         NEW counts, counts = [b \in T |-> Cardinality({k \in S : g[k] = b})]
  PROVE  Total(counts) = Cardinality(S)
<1> DEFINE one == [k \in S |-> 1]
           count(b) == Cardinality({k \in S : g[k] = b})
           sum(b) == Total([k \in {k \in S : g[k] = b} |-> one[k]])
<1>1. one \in [S -> Int] OBVIOUS
<1>2. \A b : count(b) = sum(b)
  <2> TAKE b
  <2> DEFINE block == {k \in S : g[k] = b}
  <2>1. IsFiniteSet(block) BY FS_Subset
  <2>2. [k \in block |-> one[k]] = [k \in block |-> 1] OBVIOUS
  <2> HIDE DEF block
  <2>3. Total([k \in block |-> 1]) = Cardinality(block) BY <2>1, SumOfOnes
  <2> QED BY <2>2, <2>3 DEF block
<1>3. counts = [b \in T |-> count(b)] OBVIOUS
<1>4. SumsBlocks(counts, S, one, T, g)
  <2> SUFFICES counts = [b \in T |-> sum(b)] BY DEF SumsBlocks
  <2> HIDE DEF count, sum
  <2> QED BY <1>2, <1>3
<1> HIDE DEF one
<1>5. Total(counts) = Total(one) BY <1>1, <1>4, SumByBlocks
<1> QED BY <1>5, SumOfOnes DEF one

LEMMA DistributionHoldsAll ==
  ASSUME NEW latency \in Seq(Nat), latency # <<>>,
         \A k \in 1..Len(latency) : latency[k] < WordSize \div 2
  PROVE  /\ GetDis(latency).valid
         /\ Total(GetDis(latency).distribution) = Len(latency)
         /\ GetDis(latency).distribution[0] > 0
<1> DEFINE n == Len(latency)
           K == 1..n
           top == WordSize \div 2 - 1
           low == Min(Elements(latency) \cup {top})
           high == Max(Elements(latency) \cup {0})
           hundredth == Sub(high, low) \div Buckets
           step == IF hundredth = 0 THEN 1 ELSE hundredth
           bucket(v) == BucketOf(v, low, step)
           T == 0..Buckets
           g == [k \in K |-> bucket(latency[k])]
<1>1. n \in Nat /\ n > 0 /\ 1 \in K
  <2>1. Len(latency) \in Nat /\ Len(latency) # 0 OBVIOUS
  <2> QED BY <2>1
<1>2. \A k \in K : latency[k] \in Nat /\ latency[k] <= top /\ latency[k] \in Elements(latency)
  <2>1. WordSize \div 2 \in Nat BY TimeSeriesAssumption
  <2>2. \A k \in K : latency[k] \in Nat BY ElementOfSeq
  <2>3. \A k \in K : latency[k] \in Elements(latency) BY DEF Elements
  <2> HIDE DEF K
  <2>4. \A k \in K : latency[k] <= top BY <2>1, <2>2 DEF K
  <2> QED BY <2>2, <2>3, <2>4
<1>3. top \in Nat
  <2>1. WordSize \div 2 \in Nat BY TimeSeriesAssumption
  <2>2. latency[1] \in Nat /\ latency[1] < WordSize \div 2 BY <1>1, <1>2
  <2> QED BY <2>1, <2>2
<1>4. \A v \in Elements(latency) : v \in Nat /\ v <= top BY <1>2 DEF Elements
<1>5. low \in Elements(latency) /\ low \in Nat /\ \A v \in Elements(latency) : low <= v
  <2> HIDE DEF top
  <2> DEFINE S == Elements(latency) \cup {top}
  <2>1. S \in SUBSET Nat /\ S # {} BY <1>3, <1>4
  <2> HIDE DEF S
  <2>2. Min(S) \in S /\ \A v \in S : Min(S) <= v BY <2>1, MinOf
  <2>3. low \in Nat /\ low \in S /\ \A v \in S : low <= v BY <2>1, <2>2 DEF S
  <2>4. latency[1] \in Elements(latency) /\ latency[1] \in Nat /\ latency[1] <= top BY <1>1, <1>2
  <2> HIDE DEF low
  <2>5. latency[1] \in S BY <2>4 DEF S
  <2>6. low <= latency[1] BY <2>3, <2>5
  <2>7. low = top => low = latency[1] BY <2>3, <2>4, <2>6
  <2> QED BY <2>3, <2>4, <2>7 DEF S
<1>6. high \in Nat /\ low <= high
  <2> HIDE DEF top
  <2> DEFINE S == Elements(latency) \cup {0}
  <2>1. S \in SUBSET Nat /\ S # {} /\ \A v \in S : v <= top BY <1>3, <1>4
  <2> HIDE DEF S
  <2>2. Max(S) \in S /\ \A v \in S : v <= Max(S) BY <1>3, <2>1, MaxOf
  <2>3. low \in S BY <1>5 DEF S
  <2> QED BY <2>1, <2>2, <2>3 DEF S
<1> HIDE DEF low, high, top
<1>7. step \in Nat /\ step > 0
  <2>1. Sub(high, low) \in Nat BY <1>5, <1>6 DEF Sub
  <2>2. \A x \in Nat : x \div Buckets \in Nat BY OfflineAssumption
  <2>3. hundredth \in Nat BY <2>1, <2>2
  <2> QED BY <2>3
<1> HIDE DEF step
<1>8. \A v \in Elements(latency) : bucket(v) \in T /\ (v = low => bucket(v) = 0)
  <2> TAKE v \in Elements(latency)
  <2>1. v - low \in Nat BY <1>4, <1>5
  <2>2. (v - low) \div step \in Nat /\ (v = low => (v - low) \div step = 0) BY <1>5, <1>7, <2>1
  <2> QED BY <2>2, OfflineAssumption DEF BucketOf
<1>9. /\ GetDis(latency).valid = (\A v \in Elements(latency) : bucket(v) \in T)
      /\ GetDis(latency).distribution
           = [b \in T |-> Cardinality({k \in K : bucket(latency[k]) = b})]
  BY DEF GetDis, low, high, step, top
<1> HIDE DEF bucket
<1>10. g \in [K -> T] /\ \A k \in K : g[k] = bucket(latency[k]) BY <1>2, <1>8
<1> HIDE DEF g, T
<1>11. GetDis(latency).distribution = [b \in T |-> Cardinality({k \in K : g[k] = b})]
  <2>1. \A b : {k \in K : bucket(latency[k]) = b} = {k \in K : g[k] = b} BY <1>10
  <2> QED BY <1>9, <2>1
<1>12. IsFiniteSet(K) /\ Cardinality(K) = n BY <1>1, FS_Interval
<1>13. IsFiniteSet(T) BY FS_Interval, OfflineAssumption DEF T
<1> HIDE DEF K
<1>14. Total(GetDis(latency).distribution) = n
  <2>1. g \in [K -> T] BY <1>10
  <2> QED BY <1>11, <1>12, <1>13, <2>1, CountByBlocks
<1>15. GetDis(latency).distribution[0] > 0
  <2> DEFINE first == {k \in K : g[k] = 0}
  <2>1. PICK k \in K : latency[k] = low BY <1>5 DEF Elements, K
  <2>2. k \in first BY <1>2, <1>8, <1>10, <2>1
  <2>3. IsFiniteSet(first) /\ first # {} BY <1>12, <2>2, FS_Subset
  <2>4. Cardinality(first) \in Nat /\ Cardinality(first) # 0 BY <2>3, FS_CardinalityType, FS_EmptySet
  <2>5. 0 \in T BY OfflineAssumption DEF T
  <2> QED BY <1>11, <2>4, <2>5
<1> QED BY <1>8, <1>9, <1>14, <1>15

-----------------------------------------------------------------------------
(* A vector with its size, whatever its cells hold.                        *)
IsSeries(s) ==
  /\ s = [started |-> s.started, start |-> s.start, size |-> s.size, valid |-> s.valid,
          data |-> s.data]
  /\ s.started \in BOOLEAN /\ s.start \in Nat /\ s.valid \in BOOLEAN
  /\ s.size \in Nat /\ s.size >= SeriesSize
  /\ DOMAIN s.data = 0..(s.size - 1)

-----------------------------------------------------------------------------
(* The interval the series keep, whatever the conversions make of pmc_inv. *)
LEMMA IntervalIsNat == ASSUME NEW ms \in Nat PROVE IntervalOf(ms) \in Nat
<1> DEFINE u == ms * NsPerMs
           low == u % IntSize
<1>1. u \in Nat BY TimeSeriesAssumption
<1>2. low \in 0..(IntSize - 1) BY <1>1, TimeSeriesAssumption
<1> HIDE DEF u, low
<1>3. ToInt(u) = IF 2 * low >= IntSize THEN low - IntSize ELSE low BY DEF ToInt, low
<1>4. ToInt(u) \in Int /\ ToInt(u) >= -IntSize BY <1>2, <1>3, TimeSeriesAssumption
<1>5. ToWord(ToInt(u)) \in Nat BY <1>4, TimeSeriesAssumption DEF ToWord
<1> QED BY <1>5 DEF IntervalOf, u

LEMMA TrueSlotIsNat ==
  ASSUME NEW interval \in Nat, interval > 0, NEW first \in Nat, NEW tp \in Nat, tp >= first
  PROVE  TrueSlot(interval, first, tp) \in Nat
BY DEF TrueSlot

LEMMA NewSeriesIsSeries == IsSeries(NewSeries)
BY TimeSeriesAssumption DEF NewSeries, IsSeries

(* Put grows a vector to the size given, or leaves it.                     *)
LEMMA PutKeepsSeries ==
  ASSUME NEW s, IsSeries(s), NEW start \in Nat, NEW size \in Nat, size >= s.size, NEW index, NEW cell
  PROVE  /\ IsSeries(Put(s, start, size, index, cell))
         /\ Put(s, start, size, index, cell).size \in Nat
         /\ index \in 0..(size - 1) =>
              LET p == Put(s, start, size, index, cell)
              IN /\ p.valid = s.valid /\ p.started /\ p.start = start /\ p.size = size
<1>0. SeriesSize \in Nat BY TimeSeriesAssumption
<1>1. CASE index \in 0..(size - 1)
  BY <1>0, <1>1 DEF Put, IsSeries
<1>2. CASE index \notin 0..(size - 1)
  BY <1>0, <1>2 DEF Put, IsSeries
<1> QED BY <1>1, <1>2

LEMMA CommitKeepsSeries ==
  ASSUME NEW s, IsSeries(s), NEW interval, NEW tp \in Nat, NEW x
  PROVE  IsSeries(Commit(s, interval, tp, x))
<1>0. SeriesSize \in Nat BY TimeSeriesAssumption
<1>1. CASE interval = 0 BY <1>0, <1>1 DEF Commit, IsSeries
<1>2. CASE interval # 0
  <2>1. StartOf(s, tp) \in Nat BY DEF StartOf, IsSeries
  <2>2. \A index : GrownSize(s, index) \in Nat /\ GrownSize(s, index) >= s.size
    BY DEF GrownSize, Doubled, IsSeries
  <2> QED BY <1>2, <2>1, <2>2, PutKeepsSeries DEF Commit
<1> QED BY <1>1, <1>2

LEMMA HctxCommitKeepsSeries ==
  ASSUME NEW s, IsSeries(s), NEW interval, NEW tp \in Nat
  PROVE  IsSeries(HctxCommit(s, interval, tp, tp, tp))
<1>0. SeriesSize \in Nat BY TimeSeriesAssumption
<1>1. CASE interval = 0 BY <1>0, <1>1 DEF HctxCommit, IsSeries
<1>2. CASE interval # 0
  <2>1. StartOf(s, tp) \in Nat BY DEF StartOf, IsSeries
  <2>2. \A index : HctxGrownSize(s, index) \in Nat /\ HctxGrownSize(s, index) >= s.size
    BY DEF HctxGrownSize, Doubled, IsSeries
  <2> QED BY <1>2, <2>1, <2>2, PutKeepsSeries DEF HctxCommit
<1> QED BY <1>1, <1>2

(* A series with typed cells, for the fold that fills it.                  *)
Cells == [sum : Int, n : Nat]
AllSeries ==
  {s \in [started : BOOLEAN, start : Nat, size : Nat, valid : BOOLEAN,
          data : UNION {[0..(m - 1) -> Cells] : m \in Nat}] :
     s.size >= SeriesSize /\ DOMAIN s.data = 0..(s.size - 1)}

LEMMA SeriesFields ==
  ASSUME NEW s
  PROVE  s \in AllSeries <=> IsSeries(s) /\ s.data \in [0..(s.size - 1) -> Cells]
<1>0. SeriesSize \in Nat BY TimeSeriesAssumption
<1>1. ASSUME s \in AllSeries PROVE IsSeries(s) /\ s.data \in [0..(s.size - 1) -> Cells]
  <2>1. /\ s = [started |-> s.started, start |-> s.start, size |-> s.size, valid |-> s.valid,
                data |-> s.data]
        /\ s.started \in BOOLEAN /\ s.start \in Nat /\ s.valid \in BOOLEAN /\ s.size \in Nat
        /\ s.data \in UNION {[0..(m - 1) -> Cells] : m \in Nat}
        /\ s.size >= SeriesSize /\ DOMAIN s.data = 0..(s.size - 1)
    BY <1>1 DEF AllSeries
  <2>2. PICK m \in Nat : s.data \in [0..(m - 1) -> Cells] BY <2>1
  <2>3. s.data \in [0..(s.size - 1) -> Cells] BY <2>1, <2>2
  <2> QED BY <2>1, <2>3 DEF IsSeries
<1>2. ASSUME IsSeries(s), s.data \in [0..(s.size - 1) -> Cells] PROVE s \in AllSeries
  <2>1. s.size \in Nat BY <1>2 DEF IsSeries
  <2>2. s.data \in UNION {[0..(m - 1) -> Cells] : m \in Nat} BY <1>2, <2>1
  <2> HIDE DEF Cells
  <2> QED BY <1>2, <2>2 DEF IsSeries, AllSeries
<1> QED BY <1>1, <1>2

LEMMA NewIsTyped == NewSeries \in AllSeries
<1>1. SeriesSize \in Nat BY TimeSeriesAssumption
<1>2. NewSeries.data \in [0..(NewSeries.size - 1) -> Cells] BY <1>1 DEF NewSeries, NoCell, Cells
<1> QED BY <1>2, NewSeriesIsSeries, SeriesFields

LEMMA CommitIsTyped ==
  ASSUME NEW s \in AllSeries, NEW interval, NEW tp \in Nat, NEW x \in Int
  PROVE  Commit(s, interval, tp, x) \in AllSeries
<1> DEFINE index == SlotOf(s, interval, tp)
           size == GrownSize(s, index)
           old == CellAt(s, index)
           cell == [sum |-> old.sum + x, n |-> old.n + 1]
           new == Put(s, StartOf(s, tp), size, index, cell)
<1>1. IsSeries(s) /\ s.data \in [0..(s.size - 1) -> Cells] /\ s.size \in Nat
  BY SeriesFields DEF IsSeries
<1>2. IsSeries(Commit(s, interval, tp, x)) BY <1>1, CommitKeepsSeries
<1>3. CASE interval = 0
  <2>1. Commit(s, interval, tp, x).data = s.data /\ Commit(s, interval, tp, x).size = s.size
    BY <1>1, <1>3 DEF Commit, IsSeries
  <2> QED BY <1>1, <1>2, <2>1, SeriesFields
<1>4. CASE interval # 0
  <2>1. Commit(s, interval, tp, x) = new BY <1>4 DEF Commit
  <2>2. old \in Cells BY <1>1 DEF CellAt, NoCell, Cells
  <2>3. cell \in Cells /\ NoCell \in Cells BY <2>2 DEF Cells, NoCell
  <2>4. size \in Nat BY <1>1 DEF GrownSize, Doubled
  <2> HIDE DEF index, size, cell, old
  <2>5. CASE index \in 0..(size - 1)
    <3>1. new.size = size
          /\ new.data = [i \in 0..(size - 1) |->
                           IF i = index THEN cell ELSE IF i < s.size THEN s.data[i] ELSE NoCell]
      BY <2>5 DEF Put
    <3> DEFINE now(i) == IF i = index THEN cell ELSE IF i < s.size THEN s.data[i] ELSE NoCell
    <3>2. \A i \in 0..(size - 1) : now(i) \in Cells
      <4> TAKE i \in 0..(size - 1)
      <4>1. i < s.size => i \in 0..(s.size - 1) BY <1>1, <2>4
      <4>2. i < s.size => s.data[i] \in Cells BY <1>1, <4>1
      <4> QED BY <2>3, <4>2
    <3>3. new.data = [i \in 0..(size - 1) |-> now(i)] BY <3>1
    <3> HIDE DEF now, new
    <3>4. new.data \in [0..(new.size - 1) -> Cells] BY <3>1, <3>2, <3>3
    <3> QED BY <1>2, <2>1, <3>4, SeriesFields
  <2>6. CASE index \notin 0..(size - 1)
    <3>1. new.size = s.size /\ new.data = s.data BY <1>1, <2>6 DEF Put, IsSeries
    <3> QED BY <1>1, <1>2, <2>1, <3>1, SeriesFields
  <2> QED BY <2>5, <2>6
<1> QED BY <1>3, <1>4

(* What a series holds after each commit.                                  *)
LEMMA CommitsOneByOne ==
  ASSUME NEW interval, NEW commits \in Seq([tp : Nat, x : Int])
  PROVE  \E W \in [0..Len(commits) -> AllSeries] :
           /\ W[0] = NewSeries
           /\ \A k \in 1..Len(commits) :
                W[k] = Commit(W[k - 1], interval, commits[k].tp, commits[k].x)
           /\ CommitAll(interval, commits) = W[Len(commits)]
<1> DEFINE n == Len(commits)
           S == 1..n
           op(s, k) == Commit(s, interval, commits[k].tp, commits[k].x)
           step == [p \in S \X AllSeries |-> op(p[2], p[1])]
           pick == [s \in SUBSET S |-> Max(s)]
           iter == CHOOSE g : g = [s \in SUBSET S |-> IF s = {} THEN NewSeries
                                                      ELSE op(g[s \ {Max(s)}], Max(s))]
<1>1. n \in Nat BY LenProperties
<1>2. DOMAIN commits = S BY LenProperties
<1>3. \A k \in S : commits[k].tp \in Nat /\ commits[k].x \in Int
  <2>1. \A k \in S : commits[k] \in [tp : Nat, x : Int] BY ElementOfSeq
  <2> QED BY <2>1
<1>4. CommitAll(interval, commits) = iter[S]
  BY <1>2 DEF CommitAll, FoldLeft, MapThenFoldSet
<1>5. \A k \in S, s \in AllSeries : op(s, k) \in AllSeries BY <1>3, CommitIsTyped
<1> HIDE DEF op
<1>6. step \in [S \X AllSeries -> AllSeries] /\ \A k \in S, s \in AllSeries : step[<<k, s>>] = op(s, k)
  BY <1>5
<1> HIDE DEF step, n
<1>7. PICK F \in [SUBSET (1..n) -> AllSeries] : IsChain(n, NewSeries, step, F)
  <2>1. step \in [(1..n) \X AllSeries -> AllSeries] BY <1>6
  <2> QED BY <1>1, <2>1, NewIsTyped, FoldIsChain
<1>8. /\ F \in [SUBSET S -> AllSeries]
       /\ F = [s \in SUBSET S |-> IF s = {} THEN NewSeries ELSE step[<<Max(s), F[s \ {Max(s)}]>>]]
       /\ F[1..0] = NewSeries
       /\ \A k \in S : F[1..k] = step[<<k, F[1..(k - 1)]>>]
  BY <1>7 DEF IsChain
<1>9. IsFiniteSet(S) BY <1>1, FS_Interval
<1>10. \A s \in SUBSET S : s # {} => Max(s) \in s /\ Max(s) \in S
  <2> TAKE s \in SUBSET S
  <2> HAVE s # {}
  <2>1. s \in SUBSET Nat /\ \A x \in s : x <= n BY <1>1
  <2> HIDE DEF S
  <2>2. Max(s) \in s BY <1>1, <2>1, MaxOf
  <2> QED BY <2>2
<1> HIDE DEF S
<1>11. F = [s \in SUBSET S |-> IF s = {} THEN NewSeries ELSE op(F[s \ {Max(s)}], Max(s))]
  <2>1. \A s \in SUBSET S : s # {} => step[<<Max(s), F[s \ {Max(s)}]>>] = op(F[s \ {Max(s)}], Max(s))
    <3> TAKE s \in SUBSET S
    <3> HAVE s # {}
    <3>1. Max(s) \in S /\ F[s \ {Max(s)}] \in AllSeries BY <1>10, <1>8
    <3> QED BY <1>6, <3>1
  <2> QED BY <1>8, <2>1
<1>12. iter = [s \in SUBSET S |-> IF s = {} THEN NewSeries ELSE op(iter[s \ {Max(s)}], Max(s))]
  BY <1>11, Zenon
<1> HIDE DEF iter
<1>13. StepsAgree(S, pick, F, iter)
  <2>1. F[{}] = iter[{}] BY <1>11, <1>12
  <2>2. \A s \in SUBSET S : s # {} => pick[s] = Max(s) /\ pick[s] \in s BY <1>10
  <2>3. \A s \in SUBSET S : s # {} =>
          /\ F[s] = op(F[s \ {Max(s)}], Max(s)) /\ iter[s] = op(iter[s \ {Max(s)}], Max(s))
    BY <1>11, <1>12
  <2> HIDE DEF pick
  <2> QED BY <2>1, <2>2, <2>3 DEF StepsAgree
<1>14. F[S] = iter[S]
  <2> HIDE DEF pick
  <2> QED BY <1>9, <1>13, FoldsAgree
<1> DEFINE W == [k \in 0..n |-> F[1..k]]
<1>15. \A k \in 0..n : 1..k \in SUBSET S BY <1>1 DEF S
<1>16. W \in [0..n -> AllSeries] /\ W[0] = NewSeries /\ W[n] = F[S]
  <2>1. \A k \in 0..n : F[1..k] \in AllSeries BY <1>15, <1>8
  <2>2. W \in [0..n -> AllSeries] BY <2>1
  <2>3. 0 \in 0..n /\ n \in 0..n BY <1>1
  <2>4. W[0] = F[1..0] /\ W[n] = F[1..n] BY <2>3
  <2> QED BY <1>8, <2>2, <2>4 DEF S
<1>17. \A k \in 1..n : W[k] = op(W[k - 1], k)
  <2> TAKE k \in 1..n
  <2>1. k \in 0..n /\ k - 1 \in 0..n BY <1>1
  <2>2. W[k] = F[1..k] /\ W[k - 1] = F[1..(k - 1)] BY <2>1
  <2>3. F[1..k] = step[<<k, F[1..(k - 1)]>>] BY <1>8 DEF S
  <2>4. F[1..(k - 1)] \in AllSeries BY <1>15, <1>8, <2>1
  <2> QED BY <1>6, <2>2, <2>3, <2>4 DEF S
<1> HIDE DEF W
<1> QED BY <1>4, <1>14, <1>16, <1>17 DEF op, n

-----------------------------------------------------------------------------
(* The sizes a vector goes through: the recursion has a solution, and a    *)
(* size is behind its number.                                              *)
IsDoubling(n, w) ==
  /\ w \in [0..n -> Nat] /\ w[0] = SeriesSize
  /\ \A k \in 1..n : w[k] = 2 * w[k - 1]

LEMMA DoublingExists == ASSUME NEW n \in Nat PROVE \E w : IsDoubling(n, w)
<1> DEFINE step == [p \in (1..n) \X Nat |-> 2 * p[2]]
<1>1. step \in [(1..n) \X Nat -> Nat] /\ \A k \in 1..n, v \in Nat : step[<<k, v>>] = 2 * v OBVIOUS
<1>2. SeriesSize \in Nat BY TimeSeriesAssumption
<1> HIDE DEF step
<1>3. PICK F \in [SUBSET (1..n) -> Nat] : IsChain(n, SeriesSize, step, F)
  BY <1>1, <1>2, FoldIsChain
<1> DEFINE w == [k \in 0..n |-> F[1..k]]
<1>4. \A k \in 0..n : F[1..k] \in Nat
  <2>1. \A k \in 0..n : 1..k \in SUBSET (1..n) OBVIOUS
  <2> QED BY <2>1
<1>5. w \in [0..n -> Nat] BY <1>4
<1>6. w[0] = SeriesSize BY <1>3 DEF IsChain
<1>7. \A k \in 1..n : w[k] = 2 * w[k - 1]
  <2> TAKE k \in 1..n
  <2>1. k \in 0..n /\ k - 1 \in 0..n OBVIOUS
  <2>2. F[1..k] = step[<<k, F[1..(k - 1)]>>] BY <1>3 DEF IsChain
  <2> QED BY <1>1, <1>4, <2>1, <2>2
<1> HIDE DEF w
<1> QED BY <1>5, <1>6, <1>7 DEF IsDoubling

LEMMA DoublingsAgree ==
  ASSUME NEW n \in Nat, NEW w, IsDoubling(n, w), NEW m \in Nat, NEW v, IsDoubling(m, v)
  PROVE  \A j \in Nat : j <= n /\ j <= m => w[j] = v[j]
<1> DEFINE Good == {j \in Nat : j <= n /\ j <= m => w[j] = v[j]}
<1>1. 0 \in Good BY DEF IsDoubling
<1>2. ASSUME NEW j \in Nat, j \in Good PROVE j + 1 \in Good
  <2> SUFFICES ASSUME j + 1 <= n, j + 1 <= m PROVE w[j + 1] = v[j + 1] OBVIOUS
  <2>1. j + 1 \in 1..n /\ j + 1 \in 1..m /\ (j + 1) - 1 = j OBVIOUS
  <2>2. w[j] = v[j] BY <1>2
  <2> HIDE DEF Good
  <2> QED BY <2>1, <2>2 DEF IsDoubling
<1> HIDE DEF Good
<1>3. Nat \subseteq Good BY <1>1, <1>2, Induction
<1> QED BY <1>3 DEF Good

LEMMA SizesDouble ==
  /\ SizeAfter[0] = SeriesSize
  /\ \A j \in Nat : SizeAfter[j] \in Nat /\ SizeAfter[j + 1] = 2 * SizeAfter[j]
<1> DEFINE some(n) == CHOOSE w : IsDoubling(n, w)
           G == [n \in Nat |-> some(n)[n]]
<1>1. \A n \in Nat : IsDoubling(n, some(n)) BY DoublingExists
<1> HIDE DEF some
<1>2. \A n \in Nat : G[n] \in Nat BY <1>1 DEF IsDoubling
<1>3. G[0] = SeriesSize BY <1>1 DEF IsDoubling
<1>4. \A n \in Nat : n # 0 => G[n] = 2 * G[n - 1]
  <2> TAKE n \in Nat
  <2> HAVE n # 0
  <2>1. n - 1 \in Nat /\ n - 1 <= n /\ n \in 1..n OBVIOUS
  <2>2. IsDoubling(n, some(n)) /\ IsDoubling(n - 1, some(n - 1)) BY <1>1, <2>1
  <2>3. some(n)[n - 1] = some(n - 1)[n - 1] BY <2>1, <2>2, DoublingsAgree
  <2>4. some(n)[n] = 2 * some(n)[n - 1] BY <2>1, <2>2 DEF IsDoubling
  <2> QED BY <2>1, <2>3, <2>4
<1>5. G = [j \in Nat |-> IF j = 0 THEN SeriesSize ELSE 2 * G[j - 1]] BY <1>3, <1>4
<1> HIDE DEF G
<1>6. SizeAfter = [j \in Nat |-> IF j = 0 THEN SeriesSize ELSE 2 * SizeAfter[j - 1]]
  BY <1>5, Zenon DEF SizeAfter
<1>7. SizeAfter[0] = SeriesSize BY <1>6
<1>8. \A j \in Nat : SizeAfter[j + 1] = 2 * SizeAfter[j]
  <2> TAKE j \in Nat
  <2>1. j + 1 \in Nat /\ j + 1 # 0 /\ (j + 1) - 1 = j OBVIOUS
  <2> QED BY <1>6, <2>1
<1> DEFINE Good == {j \in Nat : SizeAfter[j] \in Nat}
<1>9. 0 \in Good BY <1>7, TimeSeriesAssumption
<1>10. \A j \in Nat : j \in Good => j + 1 \in Good BY <1>8
<1> HIDE DEF Good
<1>11. Nat \subseteq Good BY <1>9, <1>10, Induction
<1> QED BY <1>7, <1>8, <1>11 DEF Good

LEMMA SizeIsBehind == \A j \in Nat : SizeAfter[j] > j
<1> DEFINE Good == {j \in Nat : SizeAfter[j] > j}
<1>1. 0 \in Good BY SizesDouble, TimeSeriesAssumption
<1>2. \A j \in Nat : j \in Good => j + 1 \in Good BY SizesDouble
<1> HIDE DEF Good
<1>3. Nat \subseteq Good BY <1>1, <1>2, Induction
<1> QED BY <1>3 DEF Good

LEMMA SizesGrow == \A i, j \in Nat : i <= j => SizeAfter[i] <= SizeAfter[j]
<1> TAKE i \in Nat
<1> DEFINE Good == {j \in Nat : i <= j => SizeAfter[i] <= SizeAfter[j]}
<1>1. 0 \in Good BY SizesDouble
<1>2. ASSUME NEW j \in Nat, j \in Good PROVE j + 1 \in Good
  <2>1. SizeAfter[j] \in Nat /\ SizeAfter[i] \in Nat /\ SizeAfter[j + 1] = 2 * SizeAfter[j]
    BY SizesDouble
  <2>2. CASE i <= j BY <1>2, <2>1, <2>2
  <2>3. CASE i = j + 1 BY <2>1, <2>3
  <2>4. CASE i > j + 1 BY <2>4
  <2> QED BY <2>2, <2>3, <2>4
<1> HIDE DEF Good
<1>3. Nat \subseteq Good BY <1>1, <1>2, Induction
<1> QED BY <1>3 DEF Good

-----------------------------------------------------------------------------
(* What a filled series holds: in each slot the commits of its times, and  *)
(* a size that some commit asked for.                                      *)
Commits == [tp : Nat, x : Int]
SlotIn(interval, commits, j) == ToInt(Sub(commits[j].tp, commits[1].tp) \div interval)
SlotsOf(interval, commits) == [j \in 1..Len(commits) |-> SlotIn(interval, commits, j)]
In(slots, k, i) == {j \in 1..k : slots[j] = i}
Values(commits) == [j \in 1..Len(commits) |-> commits[j].x]

Placed(s, interval, commits, k) ==
  /\ interval > 0 /\ s.started /\ s.start = commits[1].tp
  /\ \A j \in 1..k : SlotsOf(interval, commits)[j] \in 0..(s.size - 1)
Filled(s, slots, xs, k) ==
  \A i \in 0..(s.size - 1) :
    s.data[i] = [sum |-> SumOver(xs, In(slots, k, i)), n |-> Cardinality(In(slots, k, i))]
Sized(s, slots, k) ==
  \E p \in Nat : /\ s.size = SizeAfter[p]
                 /\ p > 0 => \E j \in 1..k : slots[j] >= SizeAfter[p - 1]

Holds(s, interval, commits, k) ==
  /\ k = 0 => s = NewSeries
  /\ k > 0 => Placed(s, interval, commits, k)
  /\ Filled(s, SlotsOf(interval, commits), Values(commits), k)
  /\ Sized(s, SlotsOf(interval, commits), k)

(* What one more commit does, if it leaves the series valid.               *)
CellOf(s, i) == IF i < s.size THEN s.data[i] ELSE NoCell
OneMore(cell, x) == [sum |-> cell.sum + x, n |-> cell.n + 1]
Extends(c, s, start, slot, x) ==
  /\ s.valid /\ c.started /\ c.start = start
  /\ c.size = GrownSize(s, slot) /\ slot \in 0..(c.size - 1)
  /\ \A i \in 0..(c.size - 1) :
       c.data[i] = IF i = slot THEN OneMore(CellOf(s, i), x) ELSE CellOf(s, i)

LEMMA ValidCommit ==
  ASSUME NEW s \in AllSeries, NEW interval \in Nat, NEW tp \in Nat, NEW x \in Int,
         Commit(s, interval, tp, x).valid
  PROVE  /\ interval > 0
         /\ Extends(Commit(s, interval, tp, x), s, StartOf(s, tp), SlotOf(s, interval, tp), x)
<1> DEFINE c == Commit(s, interval, tp, x)
           slot == SlotOf(s, interval, tp)
           size == GrownSize(s, slot)
           cell == [sum |-> CellAt(s, slot).sum + x, n |-> CellAt(s, slot).n + 1]
<1>1. IsSeries(s) /\ s.size \in Nat BY SeriesFields DEF IsSeries
<1>2. interval # 0
  <2>1. SUFFICES ASSUME interval = 0 PROVE ~c.valid OBVIOUS
  <2>2. c = [s EXCEPT !.valid = FALSE] BY <2>1 DEF Commit
  <2> QED BY <1>1, <2>2 DEF IsSeries
<1>3. c = Put(s, StartOf(s, tp), size, slot, cell) BY <1>2 DEF Commit
<1> HIDE DEF slot, size, cell
<1>4. slot \in 0..(size - 1)
  <2>1. SUFFICES ASSUME slot \notin 0..(size - 1) PROVE ~c.valid OBVIOUS
  <2>2. c = [s EXCEPT !.valid = FALSE] BY <1>3, <2>1 DEF Put
  <2> QED BY <1>1, <2>2 DEF IsSeries
<1>5. /\ c.started /\ c.start = StartOf(s, tp) /\ c.size = size /\ c.valid = s.valid
      /\ c.data = [i \in 0..(size - 1) |->
                     IF i = slot THEN cell ELSE IF i < s.size THEN s.data[i] ELSE NoCell]
  <2> HIDE DEF c
  <2>1. c = [started |-> TRUE, start |-> StartOf(s, tp), size |-> size, valid |-> s.valid,
             data |-> [i \in 0..(size - 1) |->
                         IF i = slot THEN cell ELSE IF i < s.size THEN s.data[i] ELSE NoCell]]
    BY <1>3, <1>4 DEF Put
  <2> QED BY <2>1
<1>6. slot < s.size => CellAt(s, slot) = s.data[slot]
  <2>1. size \in Nat BY <1>1 DEF size, GrownSize, Doubled
  <2> QED BY <1>1, <1>4, <2>1 DEF CellAt
<1>7. ~(slot < s.size) => CellAt(s, slot) = NoCell BY <1>1 DEF CellAt
<1>8. \A i \in 0..(size - 1) :
        c.data[i] = IF i = slot THEN OneMore(CellOf(s, i), x) ELSE CellOf(s, i)
  <2> HIDE DEF c
  <2> TAKE i \in 0..(size - 1)
  <2>1. CASE i = slot BY <1>5, <1>6, <1>7, <2>1 DEF cell, OneMore, CellOf
  <2>2. CASE i # slot BY <1>5, <2>2 DEF CellOf
  <2> QED BY <2>1, <2>2
<1>9. interval > 0 BY <1>2
<1>10. s.valid BY <1>5
<1> HIDE DEF c
<1>11. Extends(c, s, StartOf(s, tp), slot, x) BY <1>4, <1>5, <1>8, <1>10 DEF Extends, size
<1> QED BY <1>9, <1>11 DEF c, slot

(* The commits of a slot with one more commit.                             *)
CountsOneMore(slots, xs, k, i) ==
  /\ slots[k] = i =>
       /\ SumOver(xs, In(slots, k, i)) = SumOver(xs, In(slots, k - 1, i)) + xs[k]
       /\ Cardinality(In(slots, k, i)) = Cardinality(In(slots, k - 1, i)) + 1
  /\ slots[k] # i => In(slots, k, i) = In(slots, k - 1, i)

LEMMA OneMoreIn ==
  ASSUME NEW S, IsFiniteSet(S), NEW k \in Nat \ {0}, 1..k \subseteq S,
         NEW slots, NEW xs \in [S -> Int], NEW i
  PROVE  CountsOneMore(slots, xs, k, i)
<1> DEFINE old == In(slots, k - 1, i)
           new == In(slots, k, i)
<1>1. 1..k = (1..(k - 1)) \cup {k} /\ k \notin 1..(k - 1) OBVIOUS
<1>2. slots[k] # i => new = old BY <1>1 DEF In
<1>3. ASSUME slots[k] = i
      PROVE  SumOver(xs, new) = SumOver(xs, old) + xs[k] /\ Cardinality(new) = Cardinality(old) + 1
  <2>1. new = old \cup {k} /\ k \notin old BY <1>1, <1>3 DEF In
  <2>2. new \in SUBSET S /\ old \in SUBSET S BY <1>1 DEF In
  <2> HIDE DEF old, new
  <2>3. k \in new /\ new \ {k} = old BY <2>1
  <2>4. SumOver(xs, new) = xs[k] + SumOver(xs, new \ {k})
    <3>1. \A x \in new : SumOver(xs, new) = xs[x] + SumOver(xs, new \ {x}) BY <2>2, SumWithout
    <3> QED BY <2>3, <3>1
  <2>5. SumOver(xs, old) \in Int /\ xs[k] \in Int BY <2>2, <2>3, SumIsInt
  <2>6. IsFiniteSet(old) BY <2>2, FS_Subset
  <2>7. Cardinality(new) = Cardinality(old) + 1 BY <2>1, <2>6, FS_AddElement
  <2> QED BY <2>3, <2>4, <2>5, <2>7
<1> HIDE DEF old, new
<1> QED BY <1>2, <1>3 DEF CountsOneMore, old, new

LEMMA HoldsAtFirst ==
  ASSUME NEW interval, NEW commits \in Seq(Commits) PROVE Holds(NewSeries, interval, commits, 0)
<1> DEFINE slots == SlotsOf(interval, commits)
           xs == Values(commits)
<1>1. Filled(NewSeries, slots, xs, 0)
  <2>1. \A i : In(slots, 0, i) = {} BY DEF In
  <2>2. SumOver(xs, {}) = 0
    <3>1. Len(commits) \in Nat /\ \A k \in 1..Len(commits) : commits[k] \in Commits
      BY LenProperties, ElementOfSeq
    <3> DEFINE S == 1..Len(commits)
    <3>2. xs \in [S -> Int] BY <3>1 DEF Values, Commits
    <3>3. IsFiniteSet(S) BY <3>1, FS_Interval
    <3> HIDE DEF S, xs
    <3> QED BY <3>2, <3>3, SumOfNone
  <2>3. Cardinality({}) = 0 BY FS_EmptySet
  <2>4. NewSeries.data = [i \in 0..(NewSeries.size - 1) |-> NoCell] BY DEF NewSeries
  <2> HIDE DEF slots, xs
  <2> QED BY <2>1, <2>2, <2>3, <2>4 DEF Filled, NoCell
<1>2. Sized(NewSeries, slots, 0)
  <2>1. NewSeries.size = SizeAfter[0] BY SizesDouble DEF NewSeries
  <2> QED BY <2>1 DEF Sized
<1> QED BY <1>1, <1>2 DEF Holds

LEMMA HoldsAfterCommit ==
  ASSUME NEW commits \in Seq(Commits), NEW interval \in Nat, NEW k \in 1..Len(commits),
         NEW s \in AllSeries, s.valid => Holds(s, interval, commits, k - 1),
         NEW c, c = Commit(s, interval, commits[k].tp, commits[k].x), c.valid
  PROVE  Holds(c, interval, commits, k)
<1> DEFINE slots == SlotsOf(interval, commits)
           xs == Values(commits)
           tp == commits[k].tp
           slot == SlotOf(s, interval, tp)
           S == 1..Len(commits)
<1>1. Len(commits) \in Nat /\ \A j \in S : commits[j] \in Commits BY LenProperties, ElementOfSeq
<1>2. k \in Nat \ {0} /\ 1..k \subseteq S /\ k \in S /\ 1 \in S BY <1>1
<1>3. tp \in Nat /\ commits[k].x \in Int /\ xs[k] = commits[k].x BY <1>1, <1>2 DEF Commits, Values
<1>4. interval > 0 /\ Extends(c, s, StartOf(s, tp), slot, commits[k].x)
  <2>1. Commit(s, interval, tp, commits[k].x).valid OBVIOUS
  <2> QED BY <1>3, <2>1, ValidCommit
<1>5. Holds(s, interval, commits, k - 1) BY <1>4 DEF Extends
<1>6. s.size \in Nat BY SeriesFields DEF IsSeries
<1>7. StartOf(s, tp) = commits[1].tp
  <2>1. CASE k = 1
    <3>1. s = NewSeries BY <1>5, <2>1 DEF Holds
    <3> QED BY <2>1, <3>1 DEF StartOf, NewSeries
  <2>2. CASE k # 1
    <3>1. k - 1 > 0 BY <1>2, <2>2
    <3>2. Placed(s, interval, commits, k - 1) BY <1>5, <3>1 DEF Holds
    <3> QED BY <3>2 DEF StartOf, Placed
  <2> QED BY <2>1, <2>2
<1>8. slots[k] = slot BY <1>2, <1>7 DEF SlotsOf, SlotIn, SlotOf
<1>9. \A j \in 1..(k - 1) : slots[j] \in 0..(s.size - 1)
  <2>1. CASE k = 1 BY <2>1
  <2>2. CASE k # 1
    <3>1. k - 1 > 0 BY <1>2, <2>2
    <3>2. Placed(s, interval, commits, k - 1) BY <1>5, <3>1 DEF Holds
    <3> QED BY <3>2 DEF Placed
  <2> QED BY <2>1, <2>2
<1>10. c.size \in Nat /\ c.size >= s.size /\ (c.size # s.size => c.size = 2 * s.size /\ slot >= s.size)
  <2>1. slot \in 0..(c.size - 1) /\ c.size = GrownSize(s, slot) BY <1>4 DEF Extends
  <2> HIDE DEF slot
  <2> QED BY <1>6, <2>1 DEF GrownSize, Doubled
<1>11. xs \in [S -> Int] /\ IsFiniteSet(S)
  <2>1. xs = [j \in S |-> commits[j].x] BY DEF Values
  <2>2. \A j \in S : commits[j].x \in Int BY <1>1 DEF Commits
  <2>3. IsFiniteSet(S) BY <1>1, FS_Interval
  <2> HIDE DEF S, xs
  <2> QED BY <2>1, <2>2, <2>3
<1> HIDE DEF slots, xs, tp, slot, S
<1>12. Placed(c, interval, commits, k)
  <2>1. \A j \in 1..k : j \in 1..(k - 1) \/ j = k BY <1>2
  <2>2. \A j \in 1..k : slots[j] \in 0..(c.size - 1) BY <1>4, <1>6, <1>8, <1>9, <1>10, <2>1 DEF Extends
  <2> QED BY <1>4, <1>7, <2>2 DEF Placed, Extends, slots
<1>13. Filled(c, slots, xs, k)
  <2> SUFFICES ASSUME NEW i \in 0..(c.size - 1)
               PROVE  c.data[i] = [sum |-> SumOver(xs, In(slots, k, i)),
                                   n |-> Cardinality(In(slots, k, i))]
    BY DEF Filled
  <2> DEFINE old == CellOf(s, i)
  <2>1. old = [sum |-> SumOver(xs, In(slots, k - 1, i)), n |-> Cardinality(In(slots, k - 1, i))]
    <3>1. CASE i < s.size
      <4>1. Filled(s, slots, xs, k - 1) BY <1>5 DEF Holds, slots, xs
      <4>2. i \in 0..(s.size - 1) BY <1>6, <1>10, <3>1
      <4> QED BY <3>1, <4>1, <4>2 DEF Filled, CellOf
    <3>2. CASE ~(i < s.size)
      <4>1. In(slots, k - 1, i) = {} BY <1>6, <1>9, <3>2 DEF In
      <4>2. SumOver(xs, {}) = 0 BY <1>11, SumOfNone
      <4> QED BY <3>2, <4>1, <4>2, FS_EmptySet DEF NoCell, CellOf
    <3> QED BY <3>1, <3>2
  <2>2. c.data[i] = IF i = slot THEN [sum |-> old.sum + commits[k].x, n |-> old.n + 1] ELSE old
    BY <1>4 DEF Extends, OneMore
  <2> HIDE DEF old
  <2>3. CountsOneMore(slots, xs, k, i) BY <1>2, <1>11, OneMoreIn
  <2> QED BY <1>3, <1>8, <2>1, <2>2, <2>3 DEF CountsOneMore
<1>14. Sized(c, slots, k)
  <2>1. PICK p \in Nat : /\ s.size = SizeAfter[p]
                         /\ p > 0 => \E j \in 1..(k - 1) : slots[j] >= SizeAfter[p - 1]
    BY <1>5 DEF Holds, Sized, slots
  <2>2. CASE c.size = s.size
    <3>1. p > 0 => \E j \in 1..k : slots[j] >= SizeAfter[p - 1] BY <1>2, <2>1
    <3> QED BY <2>1, <2>2, <3>1 DEF Sized
  <2>3. CASE c.size # s.size
    <3>1. c.size = SizeAfter[p + 1] BY <1>10, <2>1, <2>3, SizesDouble
    <3>2. slots[k] >= SizeAfter[p] /\ k \in 1..k BY <1>2, <1>8, <1>10, <2>1, <2>3
    <3>3. p + 1 \in Nat /\ (p + 1) - 1 = p OBVIOUS
    <3> QED BY <3>1, <3>2, <3>3 DEF Sized
  <2> QED BY <2>2, <2>3
<1> QED BY <1>2, <1>12, <1>13, <1>14 DEF Holds, slots, xs

(* A series that stayed within its vector holds, slot by slot, all that    *)
(* was committed to it (TimeAvgPmc and TimeThroughputPmc).                 *)
THEOREM SeriesHoldsAll ==
  ASSUME NEW interval \in Nat, NEW commits \in Seq(Commits), CommitAll(interval, commits).valid
  PROVE  Holds(CommitAll(interval, commits), interval, commits, Len(commits))
<1> DEFINE n == Len(commits)
<1>1. n \in Nat /\ \A k \in 1..n : commits[k] \in Commits BY LenProperties, ElementOfSeq
<1>2. PICK W \in [0..n -> AllSeries] :
        /\ W[0] = NewSeries
        /\ \A k \in 1..n : W[k] = Commit(W[k - 1], interval, commits[k].tp, commits[k].x)
        /\ CommitAll(interval, commits) = W[n]
  BY CommitsOneByOne DEF Commits
<1> HIDE DEF n
<1> DEFINE Good == {k \in Nat : k <= n /\ W[k].valid => Holds(W[k], interval, commits, k)}
<1>3. 0 \in Good BY <1>2, HoldsAtFirst
<1>4. ASSUME NEW k \in Nat, k \in Good PROVE k + 1 \in Good
  <2> SUFFICES ASSUME k + 1 <= n, W[k + 1].valid PROVE Holds(W[k + 1], interval, commits, k + 1)
    OBVIOUS
  <2>1. k + 1 \in 1..Len(commits) /\ k \in 0..n /\ (k + 1) - 1 = k BY <1>1 DEF n
  <2>2. W[k] \in AllSeries BY <2>1
  <2>3. W[k + 1] = Commit(W[k], interval, commits[k + 1].tp, commits[k + 1].x) BY <1>2, <2>1 DEF n
  <2>4. W[k].valid => Holds(W[k], interval, commits, (k + 1) - 1) BY <1>1, <1>4, <2>1 DEF n
  <2> HIDE DEF Good
  <2> QED BY <2>1, <2>2, <2>3, <2>4, HoldsAfterCommit
<1> HIDE DEF Good
<1>5. n \in Good BY <1>1, <1>3, <1>4, Induction DEF n
<1> QED BY <1>1, <1>2, <1>5 DEF Good, n

-----------------------------------------------------------------------------
(* Steady times keep a series within its vector: the slot of a commit is   *)
(* less than SeriesSize behind the end, and doubling adds as many at least.*)
LEMMA CommitInside ==
  ASSUME NEW s, IsSeries(s), s.valid, NEW interval \in Nat, interval > 0,
         NEW first \in Nat, NEW tp \in Nat, tp >= first, StartOf(s, tp) = first, NEW x,
         2 * TrueSlot(interval, first, tp) < IntSize,
         TrueSlot(interval, first, tp) < s.size + SeriesSize
  PROVE  LET c == Commit(s, interval, tp, x)
         IN c.valid /\ c.started /\ c.start = first /\ TrueSlot(interval, first, tp) < c.size
<1> DEFINE slot == TrueSlot(interval, first, tp)
           size == GrownSize(s, slot)
<1>1. slot \in Nat BY TrueSlotIsNat
<1>2. SlotOf(s, interval, tp) = slot
  <2>1. Sub(tp, first) \div interval = slot BY SubOfLater DEF TrueSlot
  <2>2. ToInt(slot) = slot BY <1>1, ToIntOfSmall
  <2> QED BY <2>1, <2>2 DEF SlotOf
<1>3. slot < s.size + SeriesSize OBVIOUS
<1> HIDE DEF slot
<1>4. size \in Nat /\ size >= s.size /\ slot \in 0..(size - 1)
  BY <1>1, <1>3, TimeSeriesAssumption DEF GrownSize, Doubled, IsSeries
<1> HIDE DEF size
<1>5. \E cell : Commit(s, interval, tp, x) = Put(s, first, size, slot, cell)
  BY <1>2 DEF Commit, size
<1>6. LET c == Commit(s, interval, tp, x)
      IN c.valid = s.valid /\ c.started /\ c.start = first /\ c.size = size
  <2>1. PICK cell : Commit(s, interval, tp, x) = Put(s, first, size, slot, cell) BY <1>5
  <2> DEFINE p == Put(s, first, size, slot, cell)
  <2>2. p.valid = s.valid /\ p.started /\ p.start = first /\ p.size = size
    <3>1. p = [started |-> TRUE, start |-> first, size |-> size, valid |-> s.valid,
               data |-> [i \in 0..(size - 1) |->
                           IF i = slot THEN cell ELSE IF i < s.size THEN s.data[i] ELSE NoCell]]
      BY <1>4 DEF Put
    <3> HIDE DEF p
    <3> QED BY <3>1
  <2> QED BY <2>1, <2>2
<1>7. slot < size BY <1>1, <1>4
<1> QED BY <1>6, <1>7 DEF slot

TimesIn(commits) == [k \in 1..Len(commits) |-> commits[k].tp]

LEMMA TimesAreNat ==
  ASSUME NEW commits \in Seq(Commits)
  PROVE  /\ Len(commits) \in Nat /\ Len(TimesIn(commits)) = Len(commits)
         /\ \A k \in 1..Len(commits) :
              TimesIn(commits)[k] = commits[k].tp /\ commits[k].tp \in Nat /\ commits[k].x \in Int
<1>1. Len(commits) \in Nat /\ \A k \in 1..Len(commits) : commits[k] \in Commits
  BY LenProperties, ElementOfSeq
<1> QED BY <1>1 DEF TimesIn, Commits

LEMMA SteadySlots ==
  ASSUME NEW interval \in Nat, NEW commits \in Seq(Commits), Steady(interval, TimesIn(commits))
  PROVE  /\ interval > 0
         /\ \A k \in 1..Len(commits) :
              /\ commits[1].tp <= commits[k].tp
              /\ TrueSlot(interval, commits[1].tp, commits[k].tp) \in Nat
              /\ 2 * TrueSlot(interval, commits[1].tp, commits[k].tp) < IntSize
              /\ k > 1 => TrueSlot(interval, commits[1].tp, commits[k].tp)
                            <= TrueSlot(interval, commits[1].tp, commits[k - 1].tp) + SeriesSize
              /\ SlotsOf(interval, commits)[k] = TrueSlot(interval, commits[1].tp, commits[k].tp)
<1> DEFINE n == Len(commits)
           times == TimesIn(commits)
           slot(k) == TrueSlot(interval, commits[1].tp, commits[k].tp)
<1>1. n \in Nat /\ Len(times) = n
      /\ \A k \in 1..n : times[k] = commits[k].tp /\ commits[k].tp \in Nat
  BY TimesAreNat
<1> HIDE DEF times
<1>2. interval > 0 /\ \A k \in 1..n :
        /\ times[k] >= times[1]
        /\ 2 * TrueSlot(interval, times[1], times[k]) < IntSize
        /\ k > 1 => TrueSlot(interval, times[1], times[k])
                      <= TrueSlot(interval, times[1], times[k - 1]) + SeriesSize
  BY <1>1 DEF Steady, times
<1>3. \A k \in 1..n : /\ 1 \in 1..n /\ times[1] = commits[1].tp /\ commits[1].tp \in Nat
                      /\ k > 1 => k - 1 \in 1..n /\ times[k - 1] = commits[k - 1].tp
  BY <1>1
<1>4. ASSUME NEW k \in 1..n
      PROVE  /\ commits[1].tp <= commits[k].tp /\ slot(k) \in Nat /\ 2 * slot(k) < IntSize
             /\ k > 1 => slot(k) <= slot(k - 1) + SeriesSize
             /\ SlotsOf(interval, commits)[k] = slot(k)
  <2>1. commits[1].tp \in Nat /\ commits[k].tp \in Nat /\ commits[1].tp <= commits[k].tp
    BY <1>1, <1>2, <1>3
  <2>2. slot(k) \in Nat BY <1>2, <2>1, TrueSlotIsNat
  <2>3. 2 * slot(k) < IntSize /\ (k > 1 => slot(k) <= slot(k - 1) + SeriesSize) BY <1>1, <1>2, <1>3
  <2>4. SlotsOf(interval, commits)[k] = slot(k)
    <3>1. Sub(commits[k].tp, commits[1].tp) \div interval = slot(k)
      BY <2>1, SubOfLater DEF TrueSlot
    <3>2. ToInt(slot(k)) = slot(k) BY <2>2, <2>3, ToIntOfSmall
    <3> QED BY <3>1, <3>2 DEF SlotsOf, SlotIn
  <2> QED BY <2>1, <2>2, <2>3, <2>4
<1> QED BY <1>2, <1>4

(* Steady times never drive a series out of its vector, although a commit  *)
(* doubles it only once (time_aq.hpp 29-37).                               *)
THEOREM SteadyIsValid ==
  ASSUME NEW interval \in Nat, NEW commits \in Seq(Commits), Steady(interval, TimesIn(commits))
  PROVE  CommitAll(interval, commits).valid
<1> DEFINE n == Len(commits)
           slot(k) == TrueSlot(interval, commits[1].tp, commits[k].tp)
<1>1. n \in Nat /\ \A k \in 1..n : commits[k].tp \in Nat /\ commits[k].x \in Int BY TimesAreNat
<1>2. interval > 0 /\ \A k \in 1..n :
        /\ commits[1].tp <= commits[k].tp /\ slot(k) \in Nat /\ 2 * slot(k) < IntSize
        /\ k > 1 => slot(k) <= slot(k - 1) + SeriesSize
  BY SteadySlots
<1>3. PICK W \in [0..n -> AllSeries] :
        /\ W[0] = NewSeries
        /\ \A k \in 1..n : W[k] = Commit(W[k - 1], interval, commits[k].tp, commits[k].x)
        /\ CommitAll(interval, commits) = W[n]
  BY CommitsOneByOne DEF Commits
<1> HIDE DEF n
<1> DEFINE Inside(k) == /\ W[k].valid
                        /\ k = 0 => ~W[k].started
                        /\ k > 0 => /\ W[k].started /\ W[k].start = commits[1].tp
                                    /\ slot(k) < W[k].size
           Good == {k \in Nat : k <= n => Inside(k)}
<1>4. 0 \in Good BY <1>3 DEF NewSeries
<1>5. ASSUME NEW k \in Nat, k \in Good PROVE k + 1 \in Good
  <2> SUFFICES ASSUME k + 1 <= n PROVE Inside(k + 1) OBVIOUS
  <2>1. k + 1 \in 1..n /\ k \in 0..n /\ 1 \in 1..n /\ (k + 1) - 1 = k BY <1>1
  <2> DEFINE s == W[k]
             first == commits[1].tp
             tp == commits[k + 1].tp
  <2>2. s \in AllSeries /\ Inside(k) BY <1>1, <1>5, <2>1
  <2>3. W[k + 1] = Commit(s, interval, tp, commits[k + 1].x) BY <1>3, <2>1
  <2>4. IsSeries(s) BY <2>2, SeriesFields
  <2>5. first \in Nat /\ tp \in Nat /\ tp >= first /\ slot(k + 1) \in Nat /\ 2 * slot(k + 1) < IntSize
    BY <1>1, <1>2, <2>1
  <2>6. SeriesSize \in Nat \ {0} /\ s.size \in Nat /\ s.size >= SeriesSize
    BY <2>4, TimeSeriesAssumption DEF IsSeries
  <2>7. StartOf(s, tp) = first /\ slot(k + 1) < s.size + SeriesSize
    <3>1. CASE k = 0
      <4>1. slot(k + 1) = 0 BY <1>2, <2>5, <3>1 DEF TrueSlot
      <4>2. StartOf(s, tp) = first BY <2>2, <3>1 DEF StartOf
      <4> QED BY <2>6, <4>1, <4>2
    <3>2. CASE k # 0
      <4>1. k + 1 > 1 /\ k \in 1..n /\ k > 0 BY <2>1, <3>2
      <4>2. slot(k + 1) <= slot(k) + SeriesSize /\ slot(k) \in Nat BY <1>2, <2>1, <4>1
      <4>3. s.started /\ s.start = first /\ slot(k) < s.size BY <2>2, <4>1
      <4> QED BY <2>5, <2>6, <4>2, <4>3 DEF StartOf
    <3> QED BY <3>1, <3>2
  <2>8. s.valid BY <2>2
  <2>9. LET c == Commit(s, interval, tp, commits[k + 1].x)
        IN c.valid /\ c.started /\ c.start = first /\ slot(k + 1) < c.size
    BY <1>2, <2>4, <2>5, <2>7, <2>8, CommitInside
  <2>10. k + 1 # 0 OBVIOUS
  <2> QED BY <2>3, <2>9, <2>10
<1> HIDE DEF Good
<1>6. n \in Good BY <1>1, <1>4, <1>5, Induction
<1> QED BY <1>1, <1>3, <1>6 DEF Good

(* The size of a series that was filled steadily.                          *)
SpanOf(interval, times) ==
  LET top == Max({TrueSlot(interval, times[1], times[k]) : k \in 1..Len(times)})
  IN Min({size \in {SizeAfter[j] : j \in 0..top} : size > top})

LEMMA SteadySize ==
  ASSUME NEW interval \in Nat, NEW commits \in Seq(Commits), commits # <<>>,
         Steady(interval, TimesIn(commits))
  PROVE  CommitAll(interval, commits).size = SpanOf(interval, TimesIn(commits))
<1> DEFINE n == Len(commits)
           slots == SlotsOf(interval, commits)
           s == CommitAll(interval, commits)
           top == Max({slots[k] : k \in 1..n})
           sizes == {size \in {SizeAfter[j] : j \in 0..top} : size > top}
<1>1. n \in Nat /\ n > 0 BY TimesAreNat, EmptySeq
<1>2. \A k \in 1..n : slots[k] \in Nat
                      /\ slots[k] = TrueSlot(interval, commits[1].tp, commits[k].tp)
  BY SteadySlots
<1>3. slots \in [1..n -> Nat] BY <1>2 DEF SlotsOf
<1>4. Holds(s, interval, commits, n) BY SteadyIsValid, SeriesHoldsAll
<1>5. SpanOf(interval, TimesIn(commits)) = Min(sizes)
  <2>1. TimesIn(commits)[1] = commits[1].tp BY <1>1, TimesAreNat
  <2>2. {TrueSlot(interval, TimesIn(commits)[1], TimesIn(commits)[k]) : k \in 1..Len(TimesIn(commits))}
          = {slots[k] : k \in 1..n}
    BY <1>2, <2>1, TimesAreNat
  <2> HIDE DEF slots
  <2> QED BY <2>2 DEF SpanOf
<1> HIDE DEF slots, n, s
<1>6. /\ \E k \in 1..n : top = slots[k]
      /\ \A k \in 1..n : slots[k] <= top
  BY <1>1, <1>3, ColumnExtremes
<1> HIDE DEF top
<1>7. top \in Nat BY <1>3, <1>6
<1>8. PICK p \in Nat : /\ s.size = SizeAfter[p]
                       /\ p > 0 => \E j \in 1..n : slots[j] >= SizeAfter[p - 1]
  BY <1>4 DEF Holds, Sized, slots
<1>9. s.size \in Nat /\ s.size > top
  <2>1. Placed(s, interval, commits, n) BY <1>1, <1>4 DEF Holds
  <2>2. \A j \in 1..n : slots[j] \in 0..(s.size - 1) BY <2>1 DEF Placed, slots
  <2>3. s.size \in Nat BY <1>8, SizesDouble
  <2> QED BY <1>3, <1>6, <2>2, <2>3
<1>10. p > 0 => SizeAfter[p - 1] <= top
  <2> HAVE p > 0
  <2>1. p - 1 \in Nat BY <1>8
  <2>2. SizeAfter[p - 1] \in Nat BY <2>1, SizesDouble
  <2> QED BY <1>3, <1>6, <1>7, <1>8, <2>2
<1>11. p \in 0..top
  <2>1. CASE p = 0 BY <1>7, <2>1
  <2>2. CASE p > 0
    <3>1. p - 1 \in Nat BY <2>2
    <3>2. SizeAfter[p - 1] > p - 1 /\ SizeAfter[p - 1] \in Nat BY <3>1, SizeIsBehind, SizesDouble
    <3> QED BY <1>7, <1>10, <2>2, <3>2
  <2> QED BY <2>1, <2>2
<1>12. s.size \in sizes BY <1>8, <1>9, <1>11
<1>13. \A size \in sizes : s.size <= size
  <2> TAKE size \in sizes
  <2>1. PICK q \in 0..top : size = SizeAfter[q] OBVIOUS
  <2>2. size \in Nat /\ size > top /\ q \in Nat BY <2>1, SizesDouble
  <2>3. p <= q
    <3> SUFFICES ASSUME ~(p <= q) PROVE FALSE OBVIOUS
    <3>1. p > 0 /\ p - 1 \in Nat /\ q <= p - 1 BY <2>2
    <3>2. SizeAfter[q] <= SizeAfter[p - 1] /\ SizeAfter[p - 1] \in Nat BY <2>2, <3>1, SizesGrow, SizesDouble
    <3> QED BY <1>7, <1>10, <2>1, <2>2, <3>1, <3>2
  <2> QED BY <1>8, <2>1, <2>2, <2>3, SizesGrow
<1>14. sizes \in SUBSET Nat
  <2>1. \A j \in 0..top : SizeAfter[j] \in Nat BY <1>7, SizesDouble
  <2> QED BY <2>1
<1> HIDE DEF sizes
<1>15. Min(sizes) \in sizes /\ \A size \in sizes : Min(sizes) <= size BY <1>12, <1>14, MinOf
<1>16. Min(sizes) = s.size
  <2>1. Min(sizes) \in Nat /\ Min(sizes) <= s.size /\ s.size <= Min(sizes)
    BY <1>12, <1>13, <1>14, <1>15
  <2> QED BY <1>9, <2>1
<1> QED BY <1>5, <1>16 DEF s

-----------------------------------------------------------------------------
(* The same for HctxState, whose growth test leaves the slot just behind   *)
(* the end outside.                                                        *)
LEMMA HctxCommitInside ==
  ASSUME NEW s, IsSeries(s), s.valid, NEW interval \in Nat, interval > 0,
         NEW first \in Nat, NEW tp \in Nat, tp >= first, StartOf(s, tp) = first,
         NEW slot, slot = TrueSlot(interval, first, tp), 2 * slot < IntSize,
         slot < s.size + SeriesSize, slot # s.size
  PROVE  LET c == HctxCommit(s, interval, tp, tp, tp)
         IN /\ c.valid /\ c.started /\ c.start = first /\ slot < c.size
            /\ c.size = IF slot > s.size THEN 2 * s.size ELSE s.size
<1> DEFINE size == HctxGrownSize(s, slot)
<1>1. slot \in Nat BY TrueSlotIsNat
<1>2. SlotOf(s, interval, tp) = slot
  <2>1. Sub(tp, first) \div interval = slot BY SubOfLater DEF TrueSlot
  <2>2. ToInt(slot) = slot BY <1>1, ToIntOfSmall
  <2> QED BY <2>1, <2>2 DEF SlotOf
<1>3. size = IF slot > s.size THEN 2 * s.size ELSE s.size BY DEF HctxGrownSize, Doubled
<1>4. size \in Nat /\ slot \in 0..(size - 1)
  BY <1>1, <1>3, TimeSeriesAssumption DEF IsSeries
<1> HIDE DEF size
<1>5. PICK cell : HctxCommit(s, interval, tp, tp, tp) = Put(s, first, size, slot, cell)
  BY <1>2 DEF HctxCommit, size
<1> DEFINE p == Put(s, first, size, slot, cell)
<1>6. p.valid /\ p.started /\ p.start = first /\ p.size = size
  <2>1. p = [started |-> TRUE, start |-> first, size |-> size, valid |-> s.valid,
             data |-> [i \in 0..(size - 1) |->
                         IF i = slot THEN cell ELSE IF i < s.size THEN s.data[i] ELSE NoCell]]
    BY <1>4 DEF Put
  <2> HIDE DEF p
  <2> QED BY <2>1
<1>7. slot < size BY <1>1, <1>4
<1> QED BY <1>3, <1>5, <1>6, <1>7

-----------------------------------------------------------------------------
(* The times and rows the analysis of the block layer commits.             *)
LEMMA CountedIsTyped ==
  ASSUME NEW times \in Seq(Nat),
         NEW commits, commits = [k \in 1..Len(times) |-> [tp |-> times[k], x |-> 1]]
  PROVE  commits \in Seq(Commits) /\ Len(commits) = Len(times) /\ TimesIn(commits) = times
<1>1. Len(times) \in Nat /\ times = [k \in 1..Len(times) |-> times[k]]
      /\ \A k \in 1..Len(times) : times[k] \in Nat
  BY LenProperties, ElementOfSeq
<1>2. \A k \in 1..Len(times) : [tp |-> times[k], x |-> 1] \in Commits BY <1>1 DEF Commits
<1>3. commits \in Seq(Commits) /\ Len(commits) = Len(times) BY <1>1, <1>2
<1>4. TimesIn(commits) = [k \in 1..Len(times) |-> times[k]] BY <1>3 DEF TimesIn
<1> QED BY <1>1, <1>3, <1>4

(* The rows in the order of their ends.                                    *)
SortsRows(p, n, key) ==
  /\ p \in [1..n -> 1..n] /\ \A k \in 1..n : \E j \in 1..n : p[j] = k
  /\ \A i, j \in 1..n : p[i] = p[j] => i = j
  /\ \A i, j \in 1..n : i < j => key[p[i]] <= key[p[j]]

LEMMA BlkEndSorts ==
  ASSUME NEW rows, NEW n \in Nat, n = Len(rows), NEW key \in [1..n -> Nat],
         \A k \in 1..n : key[k] = rows[k].bio_enter + rows[k].latency /\ key[k] < WordSize
  PROVE  \E p : /\ SortsRows(p, n, key)
                /\ BlkEnd(rows) = [k \in 1..n |-> [tp |-> key[p[k]], row |-> p[k]]]
<1> DEFINE end(k) == (rows[k].bio_enter + rows[k].latency) % WordSize
           Sorts(p) == \A i, j \in 1..n : i < j => end(p[i]) <= end(p[j])
           order == CHOOSE p \in Bijection(1..n, 1..n) : Sorts(p)
<1>1. \A k \in 1..n : end(k) = key[k]
  <2> TAKE k \in 1..n
  <2>1. key[k] \in Nat /\ key[k] < WordSize /\ WordSize \in Nat BY TimeSeriesAssumption
  <2>2. \A x \in Nat : x < WordSize => x % WordSize = x BY <2>1, SMT
  <2> QED BY <2>1, <2>2
<1>2. BlkEnd(rows) = [k \in 1..n |-> [tp |-> end(order[k]), row |-> order[k]]] BY DEF BlkEnd
<1> HIDE DEF end
<1>3. \A p \in Bijection(1..n, 1..n) :
        /\ p \in [1..n -> 1..n] /\ (\A k \in 1..n : \E j \in 1..n : p[j] = k)
        /\ \A i, j \in 1..n : p[i] = p[j] => i = j
  BY DEF Bijection, Injection, Surjection, IsInjective
<1>4. key \in [1..n -> Int] OBVIOUS
<1>5. PICK q \in Bijection(1..n, 1..n) : \A i, j \in 1..n : i < j => key[q[i]] <= key[q[j]]
  BY <1>4, SortExists
<1>6. Sorts(q)
  <2> SUFFICES ASSUME NEW i \in 1..n, NEW j \in 1..n, i < j PROVE end(q[i]) <= end(q[j]) OBVIOUS
  <2>0. q \in [1..n -> 1..n] BY <1>3
  <2>1. q[i] \in 1..n /\ q[j] \in 1..n BY <2>0
  <2> QED BY <1>1, <1>5, <2>1
<1> HIDE DEF Sorts
<1>7. order \in Bijection(1..n, 1..n) /\ Sorts(order) BY <1>6
<1> HIDE DEF order
<1>8. order \in [1..n -> 1..n] BY <1>3, <1>7
<1>9. SortsRows(order, n, key)
  <2>1. ASSUME NEW i \in 1..n, NEW j \in 1..n, i < j PROVE key[order[i]] <= key[order[j]]
    <3>1. order[i] \in 1..n /\ order[j] \in 1..n BY <1>8
    <3>2. end(order[i]) <= end(order[j]) BY <1>7, <2>1 DEF Sorts
    <3> QED BY <1>1, <3>1, <3>2
  <2>2. (\A k \in 1..n : \E j \in 1..n : order[j] = k)
        /\ \A i, j \in 1..n : order[i] = order[j] => i = j
    BY <1>3, <1>7
  <2> QED BY <1>8, <2>1, <2>2 DEF SortsRows
<1>10. BlkEnd(rows) = [k \in 1..n |-> [tp |-> key[order[k]], row |-> order[k]]] BY <1>1, <1>2, <1>8
<1> QED BY <1>9, <1>10

(* A selection is listed by the enumeration of its places.                 *)
Lists(e, D) == \A s : At(s, D) = [j \in 1..Cardinality(D) |-> s[e[j]]]

LEMMA AtLists ==
  ASSUME NEW n \in Nat, NEW D \in SUBSET (1..n)
  PROVE  \E e : IsEnumeration(e, D) /\ Lists(e, D)
BY AtEnumerates DEF Lists

LEMMA Listed ==
  ASSUME NEW e, NEW D, Lists(e, D), NEW s
  PROVE  At(s, D) = [j \in 1..Cardinality(D) |-> s[e[j]]]
BY Zenon DEF Lists

OfPlaces(D, ends, io_types, type) == D = {k \in 1..Len(ends) : io_types[ends[k].row] = type}

LEMMA OfTypeListed ==
  ASSUME NEW ends, NEW io_types, NEW type, NEW D, OfPlaces(D, ends, io_types, type),
         NEW e, Lists(e, D)
  PROVE  OfType(ends, io_types, type) = [j \in 1..Cardinality(D) |-> ends[e[j]]]
<1>1. OfType(ends, io_types, type) = At(ends, D) BY DEF OfPlaces, OfType
<1>2. At(ends, D) = [j \in 1..Cardinality(D) |-> ends[e[j]]] BY Listed
<1> QED BY <1>1, <1>2

(* The times of one type, behind the first end of all.                     *)
Selects(times, t, e, m) ==
  /\ times \in Seq(Nat) /\ Len(times) = m + 1 /\ times[1] = t[1]
  /\ \A j \in 1..m : times[j + 1] = t[e[j]]

EndsAre(ends, t, p, n) == ends = [k \in 1..n |-> [tp |-> t[k], row |-> p[k]]]
RowsAre(D, p, n, io_types, type) == D = {k \in 1..n : io_types[p[k]] = type}

LEMMA TimesOfOneType ==
  ASSUME NEW n \in Nat, n > 0, NEW t \in [1..n -> Nat], NEW p,
         NEW ends, EndsAre(ends, t, p, n), NEW io_types, NEW type,
         NEW D, RowsAre(D, p, n, io_types, type)
  PROVE  \E e : IsEnumeration(e, D) /\ Selects(TimesOf(ends, io_types, type), t, e, Cardinality(D))
<1> DEFINE m == Cardinality(D)
           times == TimesOf(ends, io_types, type)
<1>1. Len(ends) = n /\ \A k \in 1..n : ends[k].tp = t[k] /\ ends[k].row = p[k] BY DEF EndsAre
<1>2. D \in SUBSET (1..n) BY DEF RowsAre
<1>3. PICK e : IsEnumeration(e, D) /\ Lists(e, D) BY <1>2, AtLists
<1>4. m \in Nat /\ e \in [1..m -> D] BY <1>3 DEF IsEnumeration
<1>5. OfPlaces(D, ends, io_types, type) BY <1>1 DEF OfPlaces, RowsAre
<1>6. OfType(ends, io_types, type) = [j \in 1..m |-> ends[e[j]]] BY <1>3, <1>5, OfTypeListed
<1> HIDE DEF m
<1>7. Len(OfType(ends, io_types, type)) = m BY <1>4, <1>6
<1> DEFINE own == [j \in 1..m |-> t[e[j]]]
<1>8. \A j \in 1..m : e[j] \in 1..n /\ t[e[j]] \in Nat BY <1>2, <1>4
<1>9. times = <<t[1]>> \o own
  <2>1. \A j \in 1..m : ends[e[j]].tp = t[e[j]] BY <1>1, <1>8
  <2> DEFINE of == OfType(ends, io_types, type)
  <2>2. Column(of, LAMBDA x : x.tp) = own
    <3>1. \A j \in 1..m : of[j].tp = t[e[j]] BY <1>6, <2>1
    <3> HIDE DEF of
    <3>2. Column(of, LAMBDA x : x.tp) = [j \in 1..Len(of) |-> of[j].tp] BY DEF Column
    <3> QED BY <1>7, <3>1, <3>2 DEF of
  <2>3. ends[1].tp = t[1] BY <1>1
  <2> QED BY <2>2, <2>3 DEF TimesOf
<1>10. own \in Seq(Nat) /\ Len(own) = m /\ t[1] \in Nat BY <1>4, <1>8
<1> HIDE DEF times
<1>11. \A j \in 1..m : own[j] = t[e[j]] OBVIOUS
<1> HIDE DEF own
<1>12. /\ times \in Seq(Nat) /\ Len(times) = m + 1 /\ times[1] = t[1]
       /\ \A j \in 1..m : times[j + 1] = own[j]
  <2>1. <<t[1]>> \in Seq(Nat) /\ Len(<<t[1]>>) = 1 BY <1>10
  <2>2. times \in Seq(Nat) /\ Len(times) = m + 1 BY <1>4, <1>9, <1>10, <2>1, ConcatProperties
  <2>3. times[1] = t[1] BY <1>4, <1>9, <1>10
  <2>4. \A j \in 1..m : times[j + 1] = own[j] BY <1>4, <1>9, <1>10
  <2> QED BY <2>2, <2>3, <2>4
<1>13. Selects(times, t, e, m) BY <1>11, <1>12 DEF Selects
<1> QED BY <1>3, <1>13 DEF times, m

(* A slot that fits an int is the interval it stands for.                  *)
LEMMA SlotIsInterval ==
  ASSUME NEW interval \in Nat, interval > 0, NEW first \in Nat, NEW tp \in Nat, first <= tp,
         (tp - first) \div interval < IntSize,
         ToInt(Sub(tp, first) \div interval) >= 0
  PROVE  ToInt(Sub(tp, first) \div interval) = (tp - first) \div interval
<1> DEFINE d == (tp - first) \div interval
<1>1. Sub(tp, first) = tp - first BY SubOfLater
<1>2. d \in Nat /\ d < IntSize /\ IntSize \in Nat BY TimeSeriesAssumption
<1>3. ToInt(d) >= 0 BY <1>1
<1> HIDE DEF d
<1>4. d % IntSize = d
  <2>1. \A x \in Nat : x < IntSize => x % IntSize = x BY <1>2, SMT
  <2> QED BY <1>2, <2>1
<1>5. ToInt(d) = d BY <1>2, <1>3, <1>4 DEF ToInt
<1> QED BY <1>1, <1>5 DEF d

(* A set of rows and the places where an order lists them: the values      *)
(* summed over the places are those of the rows.                           *)
PlacesOf(A, B, p, xs, f) ==
  /\ \A a \in A : p[a] \in B /\ xs[a] = f[p[a]]
  /\ \A b \in B : f[b] \in Int /\ \E a \in A : p[a] = b
  /\ \A a, b \in A : p[a] = p[b] => a = b

LEMMA SumOverPlaces ==
  ASSUME NEW A, IsFiniteSet(A), NEW B, NEW p, NEW xs, NEW f, PlacesOf(A, B, p, xs, f)
  PROVE  /\ SumOver(xs, A) = SumOver(f, B)
         /\ IsFiniteSet(B) /\ Cardinality(B) = Cardinality(A)
<1> DEFINE g == [k \in B |-> f[k]]
           C == {p[a] : a \in A}
<1> USE DEF PlacesOf
<1>1. C = B OBVIOUS
<1>2. g \in [C -> Int] BY <1>1
<1>3. \A a \in A : xs[a] = g[p[a]] OBVIOUS
<1>4. IsFiniteSet(C) /\ Cardinality(C) = Cardinality(A) BY SizeOfImage
<1> HIDE DEF g
<1>5. Total([a \in A |-> g[p[a]]]) = Total(g) BY <1>2, SumOfImage
<1>6. [a \in A |-> xs[a]] = [a \in A |-> g[p[a]]] BY <1>3
<1>7. SumOver(xs, A) = Total(g) BY <1>5, <1>6 DEF SumOver
<1>8. Total(g) = SumOver(f, B) BY DEF SumOver, g
<1> QED BY <1>1, <1>4, <1>7, <1>8

(* A series whose first commit comes before those of the rows B.           *)
RestOf(slots, m, q, B, i) ==
  /\ \A j \in 1..m : slots[j + 1] = i => q[j] \in B
  /\ \A b \in B : \E j \in 1..m : slots[j + 1] = i /\ q[j] = b
  /\ \A j, k \in 1..m : q[j] = q[k] => j = k

LEMMA FirstAndRest ==
  ASSUME NEW m \in Nat, NEW slots, slots[1] = 0, NEW q, NEW B, NEW i, RestOf(slots, m, q, B, i)
  PROVE  Cardinality(In(slots, m + 1, i)) = Cardinality(B) + (IF i = 0 THEN 1 ELSE 0)
<1> DEFINE A == In(slots, m + 1, i)
           rest == A \ {1}
           row == [a \in rest |-> q[a - 1]]
           ones == [a \in rest |-> 1]
           one == [b \in B |-> 1]
<1>1. \A a : a \in A <=> a \in 1..(m + 1) /\ slots[a] = i BY DEF In
<1>2. IsFiniteSet(A)
  <2>1. IsFiniteSet(1..(m + 1)) BY FS_Interval
  <2>2. A \in SUBSET (1..(m + 1)) BY <1>1
  <2> QED BY <2>1, <2>2, FS_Subset
<1>3. \A a \in rest : a - 1 \in 1..m /\ slots[(a - 1) + 1] = i
  <2> TAKE a \in rest
  <2>1. a \in 1..(m + 1) /\ slots[a] = i /\ a # 1 BY <1>1
  <2>2. a - 1 \in 1..m /\ (a - 1) + 1 = a BY <2>1
  <2> QED BY <2>1, <2>2
<1>4. \A j \in 1..m : slots[j + 1] = i => j + 1 \in rest /\ (j + 1) - 1 = j BY <1>1
<1>5. 1 \in A <=> i = 0 BY <1>1
<1>6. IsFiniteSet(rest) /\ Cardinality(rest) = IF 1 \in A THEN Cardinality(A) - 1 ELSE Cardinality(A)
  BY <1>2, FS_RemoveElement
<1>7. Cardinality(A) \in Nat BY <1>2, FS_CardinalityType
<1> HIDE DEF A, rest
<1>8. PlacesOf(rest, B, row, ones, one)
  <2>1. \A a \in rest : row[a] \in B /\ ones[a] = one[row[a]]
    <3> TAKE a \in rest
    <3>1. q[a - 1] \in B BY <1>3 DEF RestOf
    <3> QED BY <3>1
  <2>2. \A b \in B : one[b] \in Int /\ \E a \in rest : row[a] = b
    <3> TAKE b \in B
    <3>1. PICK j \in 1..m : slots[j + 1] = i /\ q[j] = b BY DEF RestOf
    <3>2. j + 1 \in rest /\ row[j + 1] = b BY <1>4, <3>1
    <3> QED BY <3>2
  <2>3. \A a, b \in rest : row[a] = row[b] => a = b
    <3> TAKE a, b \in rest
    <3>1. a - 1 \in 1..m /\ b - 1 \in 1..m BY <1>3
    <3>2. q[a - 1] = q[b - 1] => a - 1 = b - 1 BY <3>1 DEF RestOf
    <3>3. a \in Int /\ b \in Int BY <1>1 DEF rest
    <3> QED BY <3>2, <3>3
  <2> HIDE DEF row, ones, one
  <2> QED BY <2>1, <2>2, <2>3 DEF PlacesOf
<1> HIDE DEF row, ones, one
<1>9. Cardinality(B) = Cardinality(rest) BY <1>6, <1>8, SumOverPlaces
<1> QED BY <1>5, <1>6, <1>7, <1>9 DEF A

(* The slots of a series that counts times.                                *)
LEMMA CountedSlots ==
  ASSUME NEW interval \in Nat, NEW times \in Seq(Nat), Counted(interval, times).valid,
         times # <<>>
  PROVE  LET commits == [k \in 1..Len(times) |-> [tp |-> times[k], x |-> 1]]
             slots == SlotsOf(interval, commits)
             s == Counted(interval, times)
         IN /\ interval > 0 /\ s.size \in Nat
            /\ \A k \in 1..Len(times) : /\ slots[k] = ToInt(Sub(times[k], times[1]) \div interval)
                                        /\ slots[k] \in 0..(s.size - 1)
            /\ \A i \in 0..(s.size - 1) : s.data[i].sum = Cardinality(In(slots, Len(times), i))
<1> DEFINE n == Len(times)
           commits == [k \in 1..n |-> [tp |-> times[k], x |-> 1]]
           slots == SlotsOf(interval, commits)
           xs == Values(commits)
           s == Counted(interval, times)
<1>1. commits \in Seq(Commits) /\ Len(commits) = n BY CountedIsTyped
<1>2. n \in Nat /\ n > 0 /\ 1 \in 1..n BY EmptySeq, LenProperties
<1>3. s = CommitAll(interval, commits) /\ s.valid BY DEF Counted
<1>4. \A k \in 1..n : commits[k].tp = times[k] /\ commits[k].x = 1 OBVIOUS
<1> HIDE DEF s, commits, n
<1>5. Holds(s, interval, commits, n)
  <2>1. Holds(CommitAll(interval, commits), interval, commits, Len(commits))
    BY <1>1, <1>3, SeriesHoldsAll
  <2> QED BY <1>1, <1>3, <2>1
<1>6. Placed(s, interval, commits, n) /\ Filled(s, slots, xs, n) /\ Sized(s, slots, n)
  BY <1>2, <1>5 DEF Holds
<1>7. s.size \in Nat
  <2> HIDE DEF slots
  <2> QED BY <1>6, SizesDouble DEF Sized
<1>8. interval > 0 /\ \A k \in 1..n : slots[k] \in 0..(s.size - 1) BY <1>6 DEF Placed
<1>9. \A k \in 1..n : slots[k] = ToInt(Sub(times[k], times[1]) \div interval)
  BY <1>1, <1>2, <1>4 DEF SlotsOf, SlotIn
<1>10. \A k \in 1..n : xs[k] = 1 BY <1>1, <1>4 DEF Values
<1> HIDE DEF slots, xs
<1>11. ASSUME NEW i \in 0..(s.size - 1) PROVE s.data[i].sum = Cardinality(In(slots, n, i))
  <2> DEFINE A == In(slots, n, i)
  <2>1. A \in SUBSET (1..n) BY DEF In
  <2>2. IsFiniteSet(A)
    <3>1. IsFiniteSet(1..n) BY <1>2, FS_Interval
    <3> QED BY <2>1, <3>1, FS_Subset
  <2>3. s.data[i].sum = SumOver(xs, A)
    <3>1. s.data[i] = [sum |-> SumOver(xs, A), n |-> Cardinality(A)] BY <1>6 DEF Filled
    <3> QED BY <3>1
  <2>4. [y \in A |-> xs[y]] = [y \in A |-> 1] BY <1>10, <2>1
  <2>5. Total([y \in A |-> 1]) = Cardinality(A) BY <2>2, SumOfOnes
  <2> QED BY <2>3, <2>4, <2>5 DEF SumOver
<1> HIDE DEF n
<1> QED BY <1>7, <1>8, <1>9, <1>11 DEF s, slots, commits, n

-----------------------------------------------------------------------------
(* The hash join: after each row of B, the pairs found for it.             *)
Pairs == Nat \X Nat
MatchedBy(M, e, D, b) ==
  IsEnumeration(e, D) /\ M \in Seq(Pairs) /\ Len(M) = Cardinality(D)
  /\ \A j \in 1..Cardinality(D) : M[j] = <<e[j], b>>
WithKey(D, A, key) == D = {a \in 1..Len(A) : A[a] = key}

LEMMA MatchesListed ==
  ASSUME NEW A, Len(A) \in Nat, NEW b \in Nat, NEW key, NEW D, WithKey(D, A, key)
  PROVE  \E e : MatchedBy(Matches(A, b, key), e, D, b)
<1> DEFINE f == [a \in 1..Len(A) |-> <<a, b>>]
           m == Cardinality(D)
<1>1. D \in SUBSET (1..Len(A)) BY DEF WithKey
<1>2. PICK e : IsEnumeration(e, D) /\ Lists(e, D) BY <1>1, AtLists
<1>3. m \in Nat /\ e \in [1..m -> D] BY <1>2 DEF IsEnumeration
<1>4. Matches(A, b, key) = At(f, D) BY DEF Matches, WithKey
<1>5. At(f, D) = [j \in 1..m |-> f[e[j]]] BY <1>2 DEF Lists
<1> HIDE DEF m
<1>6. \A j \in 1..m : f[e[j]] = <<e[j], b>> /\ <<e[j], b>> \in Pairs
  <2> TAKE j \in 1..m
  <2>1. e[j] \in 1..Len(A) BY <1>1, <1>3
  <2> QED BY <2>1 DEF Pairs
<1> HIDE DEF f
<1> DEFINE M == Matches(A, b, key)
<1>7. M = [j \in 1..m |-> <<e[j], b>>] BY <1>4, <1>5, <1>6
<1> HIDE DEF M
<1>8. M \in [1..m -> Pairs] BY <1>6, <1>7
<1>9. M \in Seq(Pairs) /\ Len(M) = m BY <1>3, <1>8, FunctionIsSeq
<1>10. \A j \in 1..m : M[j] = <<e[j], b>> BY <1>7
<1> QED BY <1>2, <1>9, <1>10 DEF MatchedBy, M, m

LEMMA JoinsOneByOne ==
  ASSUME NEW A, Len(A) \in Nat, NEW B, Len(B) \in Nat
  PROVE  \E W \in [0..Len(B) -> Seq(Pairs)] :
           /\ W[0] = <<>>
           /\ \A k \in 1..Len(B) : W[k] = W[k - 1] \o Matches(A, k, B[k])
           /\ HashJoin(A, B) = W[Len(B)]
<1> DEFINE n == Len(B)
           S == 1..n
           V == Seq(Pairs)
           op(s, k) == s \o Matches(A, k, B[k])
           step == [p \in S \X V |-> op(p[2], p[1])]
           pick == [s \in SUBSET S |-> Max(s)]
           rows == [b \in S |-> b]
           iter == CHOOSE g : g = [s \in SUBSET S |-> IF s = {} THEN <<>>
                                     ELSE op(g[s \ {Max(s)}], rows[Max(s)])]
<1>1. n \in Nat OBVIOUS
<1>2. HashJoin(A, B) = iter[S]
  <2>1. DOMAIN rows = S OBVIOUS
  <2> QED BY <2>1 DEF HashJoin, FoldLeft, MapThenFoldSet
<1>3. \A k \in S, s \in V : op(s, k) \in V
  <2> TAKE k \in S, s \in V
  <2>1. Matches(A, k, B[k]) \in V
    <3> DEFINE D == {a \in 1..Len(A) : A[a] = B[k]}
    <3>1. WithKey(D, A, B[k]) BY DEF WithKey
    <3> HIDE DEF D
    <3>2. k \in Nat OBVIOUS
    <3> QED BY <3>1, <3>2, MatchesListed DEF MatchedBy
  <2> QED BY <2>1, ConcatProperties
<1> HIDE DEF op
<1>4. step \in [S \X V -> V] /\ \A k \in S, s \in V : step[<<k, s>>] = op(s, k) BY <1>3
<1>5. <<>> \in V OBVIOUS
<1> HIDE DEF step, n, V
<1>6. PICK F \in [SUBSET (1..n) -> V] : IsChain(n, <<>>, step, F)
  <2>1. step \in [(1..n) \X V -> V] BY <1>4
  <2> QED BY <1>1, <1>5, <2>1, FoldIsChain
<1>7. /\ F \in [SUBSET S -> V]
      /\ F = [s \in SUBSET S |-> IF s = {} THEN <<>> ELSE step[<<Max(s), F[s \ {Max(s)}]>>]]
      /\ F[1..0] = <<>>
      /\ \A k \in S : F[1..k] = step[<<k, F[1..(k - 1)]>>]
  BY <1>6 DEF IsChain
<1>8. IsFiniteSet(S) BY <1>1, FS_Interval
<1>9. \A s \in SUBSET S : s # {} => Max(s) \in s /\ Max(s) \in S
  <2> TAKE s \in SUBSET S
  <2> HAVE s # {}
  <2>1. s \in SUBSET Nat /\ \A x \in s : x <= n BY <1>1
  <2> HIDE DEF S
  <2>2. Max(s) \in s BY <1>1, <2>1, MaxOf
  <2> QED BY <2>2
<1>10. \A k \in S : rows[k] = k OBVIOUS
<1> HIDE DEF S, rows
<1>11. F = [s \in SUBSET S |-> IF s = {} THEN <<>> ELSE op(F[s \ {Max(s)}], rows[Max(s)])]
  <2>1. \A s \in SUBSET S : s # {} =>
          step[<<Max(s), F[s \ {Max(s)}]>>] = op(F[s \ {Max(s)}], rows[Max(s)])
    <3> TAKE s \in SUBSET S
    <3> HAVE s # {}
    <3>1. Max(s) \in S /\ F[s \ {Max(s)}] \in V BY <1>9, <1>7
    <3> QED BY <1>4, <1>10, <3>1
  <2> QED BY <1>7, <2>1
<1>12. iter = [s \in SUBSET S |-> IF s = {} THEN <<>> ELSE op(iter[s \ {Max(s)}], rows[Max(s)])]
  BY <1>11, Zenon
<1> HIDE DEF iter
<1>13. StepsAgree(S, pick, F, iter)
  <2>1. F[{}] = iter[{}] BY <1>11, <1>12
  <2>2. \A s \in SUBSET S : s # {} => pick[s] = Max(s) /\ pick[s] \in s BY <1>9
  <2>3. \A s \in SUBSET S : s # {} =>
          /\ F[s] = op(F[s \ {Max(s)}], rows[Max(s)])
          /\ iter[s] = op(iter[s \ {Max(s)}], rows[Max(s)])
    BY <1>11, <1>12
  <2> HIDE DEF pick
  <2> QED BY <2>1, <2>2, <2>3 DEF StepsAgree
<1>14. F[S] = iter[S]
  <2> HIDE DEF pick
  <2> QED BY <1>8, <1>13, FoldsAgree
<1> DEFINE W == [k \in 0..n |-> F[1..k]]
<1>15. \A k \in 0..n : 1..k \in SUBSET S BY <1>1 DEF S
<1>16. W \in [0..n -> V] /\ W[0] = <<>> /\ W[n] = F[S]
  <2>1. \A k \in 0..n : F[1..k] \in V BY <1>15, <1>7
  <2>2. W \in [0..n -> V] BY <2>1
  <2>3. 0 \in 0..n /\ n \in 0..n BY <1>1
  <2> QED BY <1>7, <2>2, <2>3 DEF S
<1>17. \A k \in 1..n : W[k] = W[k - 1] \o Matches(A, k, B[k])
  <2> TAKE k \in 1..n
  <2>1. k - 1 \in 0..n /\ k \in 0..n /\ k \in S BY <1>1 DEF S
  <2>2. W[k] = F[1..k] /\ W[k - 1] = F[1..(k - 1)] /\ W[k - 1] \in V BY <1>16, <2>1
  <2> HIDE DEF W
  <2>3. W[k] = step[<<k, W[k - 1]>>] BY <1>7, <2>1, <2>2
  <2>4. W[k] = op(W[k - 1], k) BY <1>4, <2>1, <2>2, <2>3
  <2> QED BY <2>4 DEF op
<1>18. HashJoin(A, B) = W[n] BY <1>2, <1>14, <1>16
<1> HIDE DEF W
<1> QED BY <1>16, <1>17, <1>18 DEF n, V

(* After k rows of B the join holds each matching pair up to k once, in    *)
(* the order of B and, under a row of B, of A.                             *)
Before(p, q) == p[2] < q[2] \/ (p[2] = q[2] /\ p[1] < q[1])
Joined(J, A, B, k) ==
  /\ J \in Seq(Pairs)
  /\ \A x \in 1..Len(J) : /\ J[x][1] \in 1..Len(A) /\ J[x][2] \in 1..k
                          /\ A[J[x][1]] = B[J[x][2]]
  /\ \A a \in 1..Len(A), b \in 1..k : A[a] = B[b] => \E x \in 1..Len(J) : J[x] = <<a, b>>
  /\ \A x, y \in 1..Len(J) : x < y => Before(J[x], J[y])

LEMMA OneMoreRow ==
  ASSUME NEW A, Len(A) \in Nat, NEW B, NEW k \in Nat, k > 0, NEW J, Joined(J, A, B, k - 1)
  PROVE  Joined(J \o Matches(A, k, B[k]), A, B, k)
<1> DEFINE D == {a \in 1..Len(A) : A[a] = B[k]}
           M == Matches(A, k, B[k])
           l == Len(J)
           m == Cardinality(D)
           K == J \o M
<1>1. WithKey(D, A, B[k]) BY DEF WithKey
<1>2. \A a : a \in D <=> a \in 1..Len(A) /\ A[a] = B[k] OBVIOUS
<1> HIDE DEF D
<1>3. PICK e : MatchedBy(M, e, D, k) BY <1>1, MatchesListed
<1>4. /\ m \in Nat /\ e \in [1..m -> D] /\ \A i, j \in 1..m : i < j => e[i] < e[j]
      /\ \A d \in D : \E j \in 1..m : e[j] = d
      /\ M \in Seq(Pairs) /\ Len(M) = m /\ \A j \in 1..m : M[j] = <<e[j], k>>
  BY <1>3 DEF MatchedBy, IsEnumeration
<1>5. J \in Seq(Pairs) /\ l \in Nat
  BY LenProperties DEF Joined
<1>6. /\ \A x \in 1..l : /\ J[x][1] \in 1..Len(A) /\ J[x][2] \in 1..(k - 1)
                         /\ A[J[x][1]] = B[J[x][2]]
      /\ \A a \in 1..Len(A), b \in 1..(k - 1) : A[a] = B[b] => \E x \in 1..l : J[x] = <<a, b>>
      /\ \A x, y \in 1..l : x < y => Before(J[x], J[y])
  BY DEF Joined
<1> HIDE DEF M, m
<1>7. /\ K \in Seq(Pairs) /\ Len(K) = l + m
      /\ \A x \in 1..(l + m) : K[x] = IF x <= l THEN J[x] ELSE M[x - l]
  BY <1>4, <1>5, ConcatProperties
<1> HIDE DEF K, l
<1>8. \A x \in 1..(l + m) : \/ x \in 1..l /\ K[x] = J[x]
                            \/ x - l \in 1..m /\ x > l /\ K[x] = <<e[x - l], k>>
  <2> TAKE x \in 1..(l + m)
  <2>1. CASE x <= l BY <1>5, <1>7, <2>1
  <2>2. CASE x > l
    <3>1. x - l \in 1..m BY <1>4, <1>5, <2>2
    <3>2. K[x] = M[x - l] BY <1>5, <1>7, <2>2
    <3> QED BY <1>4, <2>2, <3>1, <3>2
  <2> QED BY <1>5, <2>1, <2>2
<1>9. ASSUME NEW x \in 1..Len(K)
      PROVE  K[x][1] \in 1..Len(A) /\ K[x][2] \in 1..k /\ A[K[x][1]] = B[K[x][2]]
  <2>1. CASE x \in 1..l /\ K[x] = J[x] BY <1>6, <2>1
  <2>2. CASE x - l \in 1..m /\ K[x] = <<e[x - l], k>>
    <3>1. e[x - l] \in 1..Len(A) /\ A[e[x - l]] = B[k] BY <1>2, <1>4, <2>2
    <3>2. K[x][1] = e[x - l] /\ K[x][2] = k BY <2>2
    <3> QED BY <3>1, <3>2
  <2> QED BY <1>7, <1>8, <2>1, <2>2
<1>10. ASSUME NEW a \in 1..Len(A), NEW b \in 1..k, A[a] = B[b]
       PROVE  \E x \in 1..Len(K) : K[x] = <<a, b>>
  <2>1. CASE b = k
    <3>1. PICK j \in 1..m : e[j] = a BY <1>2, <1>4, <1>10, <2>1
    <3>2. l + j \in 1..(l + m) /\ (l + j) - l = j /\ ~(l + j <= l) BY <1>4, <1>5
    <3>3. K[l + j] = <<a, b>> BY <1>4, <1>7, <2>1, <3>1, <3>2
    <3> QED BY <1>7, <3>2, <3>3
  <2>2. CASE b # k
    <3>1. b \in 1..(k - 1) BY <2>2
    <3>2. PICK x \in 1..l : J[x] = <<a, b>> BY <1>6, <1>10, <3>1
    <3>3. x \in 1..(l + m) /\ x <= l BY <1>4, <1>5
    <3> QED BY <1>7, <3>2, <3>3
  <2> QED BY <2>1, <2>2
<1>11. ASSUME NEW x \in 1..Len(K), NEW y \in 1..Len(K), x < y PROVE Before(K[x], K[y])
  <2>1. x \in 1..(l + m) /\ y \in 1..(l + m) /\ x \in Int /\ y \in Int BY <1>7
  <2>2. CASE y \in 1..l /\ K[y] = J[y]
    <3>1. x \in 1..l /\ K[x] = J[x] BY <1>5, <1>7, <1>11, <2>1, <2>2
    <3> QED BY <1>6, <1>11, <2>2, <3>1
  <2>3. CASE y - l \in 1..m /\ K[y] = <<e[y - l], k>>
    <3>1. K[y][1] = e[y - l] /\ K[y][2] = k BY <2>3
    <3>2. CASE x \in 1..l /\ K[x] = J[x]
      <4>1. K[x][2] \in 1..(k - 1) BY <1>6, <3>2
      <4> QED BY <3>1, <4>1 DEF Before
    <3>3. CASE x - l \in 1..m /\ K[x] = <<e[x - l], k>>
      <4>1. K[x][1] = e[x - l] /\ K[x][2] = k BY <3>3
      <4>2. x - l < y - l BY <1>5, <1>11, <2>1
      <4>3. e[x - l] < e[y - l] BY <1>4, <2>3, <3>3, <4>2
      <4> QED BY <3>1, <4>1, <4>3 DEF Before
    <3> QED BY <1>8, <2>1, <3>2, <3>3
  <2> QED BY <1>8, <2>1, <2>2, <2>3
<1>12. Joined(K, A, B, k) BY <1>7, <1>9, <1>10, <1>11 DEF Joined
<1> QED BY <1>12 DEF K, M

(* The hash join holds every pair of rows with equal keys once, in order   *)
(* (hashjoin_vector, whose multimap keeps the rows of one key together).   *)
THEOREM JoinHoldsAll ==
  ASSUME NEW A, Len(A) \in Nat, NEW B, Len(B) \in Nat
  PROVE  Joined(HashJoin(A, B), A, B, Len(B))
<1> DEFINE n == Len(B)
<1>1. PICK W \in [0..n -> Seq(Pairs)] :
        /\ W[0] = <<>>
        /\ \A k \in 1..n : W[k] = W[k - 1] \o Matches(A, k, B[k])
        /\ HashJoin(A, B) = W[n]
  BY JoinsOneByOne
<1> DEFINE Good == {k \in Nat : k <= n => Joined(W[k], A, B, k)}
<1>2. 0 \in Good
  <2>1. Len(W[0]) = 0 /\ W[0] \in Seq(Pairs) BY <1>1, EmptySeq
  <2>2. Joined(W[0], A, B, 0) BY <2>1 DEF Joined
  <2> QED BY <2>2
<1>3. ASSUME NEW k \in Nat, k \in Good PROVE k + 1 \in Good
  <2> SUFFICES ASSUME k + 1 <= n PROVE Joined(W[k + 1], A, B, k + 1) OBVIOUS
  <2>1. k <= n /\ k + 1 \in 1..n /\ (k + 1) - 1 = k /\ k + 1 \in Nat /\ k + 1 > 0 OBVIOUS
  <2>2. Joined(W[(k + 1) - 1], A, B, (k + 1) - 1) BY <1>3, <2>1
  <2>3. W[k + 1] = W[(k + 1) - 1] \o Matches(A, k + 1, B[k + 1]) BY <1>1, <2>1
  <2> QED BY <2>1, <2>2, <2>3, OneMoreRow
<1> HIDE DEF Good
<1>4. Nat \subseteq Good BY <1>2, <1>3, Induction
<1> QED BY <1>1, <1>4 DEF Good

(* The requests joined to one row of A.                                    *)
FirstIs(D, J, a) == D = {k \in 1..Len(J) : J[k][1] = a}
JoinedTo(J, a) == Column(At(J, {k \in 1..Len(J) : J[k][1] = a}), LAMBDA p : p[2])

LEMMA JoinedToListed ==
  ASSUME NEW J \in Seq(Pairs), NEW a, NEW D, FirstIs(D, J, a)
  PROVE  \E e : /\ IsEnumeration(e, D)
                /\ JoinedTo(J, a) = [j \in 1..Cardinality(D) |-> J[e[j]][2]]
                /\ Len(JoinedTo(J, a)) = Cardinality(D)
<1> DEFINE of == At(J, D)
           m == Cardinality(D)
<1>1. Len(J) \in Nat /\ D \in SUBSET (1..Len(J)) BY LenProperties DEF FirstIs
<1>2. PICK e : IsEnumeration(e, D) /\ Lists(e, D) BY <1>1, AtLists
<1>3. m \in Nat BY <1>2 DEF IsEnumeration
<1>4. of = [j \in 1..m |-> J[e[j]]] BY <1>2 DEF Lists
<1>5. JoinedTo(J, a) = [j \in 1..Len(of) |-> of[j][2]] BY DEF JoinedTo, Column, FirstIs
<1> HIDE DEF of, m
<1>6. Len(of) = m /\ \A j \in 1..m : of[j] = J[e[j]] BY <1>3, <1>4
<1>7. JoinedTo(J, a) = [j \in 1..m |-> J[e[j]][2]] BY <1>5, <1>6
<1>8. Len(JoinedTo(J, a)) = m BY <1>3, <1>7
<1> QED BY <1>2, <1>7, <1>8 DEF m

RowsWithKey(R, B, key) == R = {b \in 1..Len(B) : B[b] = key}

LEMMA JoinedToHolds ==
  ASSUME NEW A, Len(A) \in Nat, NEW B, Len(B) \in Nat, NEW J, Joined(J, A, B, Len(B)),
         NEW a \in 1..Len(A), NEW R, RowsWithKey(R, B, A[a])
  PROVE  /\ Elements(JoinedTo(J, a)) = R /\ Len(JoinedTo(J, a)) = Cardinality(R)
         /\ \A j \in 2..Len(JoinedTo(J, a)) : JoinedTo(J, a)[j - 1] < JoinedTo(J, a)[j]
<1> DEFINE l == Len(J)
           n == Len(B)
           D == {k \in 1..l : J[k][1] = a}
           m == Cardinality(D)
           rows == JoinedTo(J, a)
<1>1. /\ J \in Seq(Pairs) /\ l \in Nat
      /\ \A x \in 1..l : /\ J[x][1] \in 1..Len(A) /\ J[x][2] \in 1..n /\ A[J[x][1]] = B[J[x][2]]
      /\ \A c \in 1..Len(A), b \in 1..n : A[c] = B[b] => \E x \in 1..l : J[x] = <<c, b>>
      /\ \A x, y \in 1..l : x < y => Before(J[x], J[y])
  BY LenProperties DEF Joined
<1>2. FirstIs(D, J, a) BY DEF FirstIs
<1>3. \A k : k \in D <=> k \in 1..l /\ J[k][1] = a OBVIOUS
<1>4. \A b : b \in R <=> b \in 1..n /\ B[b] = A[a] BY DEF RowsWithKey
<1> HIDE DEF D
<1>5. PICK e : /\ IsEnumeration(e, D) /\ rows = [j \in 1..m |-> J[e[j]][2]] /\ Len(rows) = m
  BY <1>1, <1>2, JoinedToListed
<1>6. /\ m \in Nat /\ e \in [1..m -> D] /\ \A i, j \in 1..m : i < j => e[i] < e[j]
      /\ \A d \in D : \E j \in 1..m : e[j] = d
  BY <1>5 DEF IsEnumeration
<1> HIDE DEF m, rows, l, n
<1>7. \A j \in 1..m : e[j] \in 1..l /\ rows[j] = J[e[j]][2] /\ rows[j] \in R
  <2> TAKE j \in 1..m
  <2>1. e[j] \in 1..l /\ J[e[j]][1] = a BY <1>3, <1>6
  <2>2. rows[j] = J[e[j]][2] BY <1>5
  <2>3. J[e[j]][2] \in R BY <1>1, <1>4, <2>1
  <2> QED BY <2>1, <2>2, <2>3
<1>8. \A b \in R : \E j \in 1..m : rows[j] = b
  <2> TAKE b \in R
  <2>1. b \in 1..n /\ B[b] = A[a] BY <1>4
  <2>2. PICK x \in 1..l : J[x] = <<a, b>> BY <1>1, <2>1
  <2>3. x \in D /\ J[x][2] = b BY <1>3, <2>2
  <2>4. PICK j \in 1..m : e[j] = x BY <1>6, <2>3
  <2> QED BY <1>7, <2>3, <2>4
<1>9. \A i, j \in 1..m : i < j => rows[i] < rows[j]
  <2> SUFFICES ASSUME NEW i \in 1..m, NEW j \in 1..m, i < j PROVE rows[i] < rows[j] OBVIOUS
  <2>1. e[i] < e[j] /\ e[i] \in 1..l /\ e[j] \in 1..l BY <1>6, <1>7
  <2>2. Before(J[e[i]], J[e[j]]) BY <1>1, <2>1
  <2>3. J[e[i]][1] = a /\ J[e[j]][1] = a /\ a \in Nat BY <1>3, <1>6
  <2>4. J[e[i]][2] < J[e[j]][2] BY <2>2, <2>3 DEF Before
  <2> QED BY <1>7, <2>4
<1>10. Elements(rows) = R BY <1>5, <1>7, <1>8 DEF Elements
<1>11. Len(rows) = Cardinality(R)
  <2>1. IsFiniteSet(1..m) /\ Cardinality(1..m) = m BY <1>6, FS_Interval
  <2>2. PlacesOf(1..m, R, rows, [j \in 1..m |-> 0], [b \in R |-> 0])
    <3>1. \A j \in 1..m : rows[j] \in R BY <1>7
    <3>2. \A i, j \in 1..m : rows[i] = rows[j] => i = j
      <4> SUFFICES ASSUME NEW i \in 1..m, NEW j \in 1..m, rows[i] = rows[j] PROVE i = j OBVIOUS
      <4>1. rows[i] \in Int BY <1>4, <1>7
      <4>2. ~(i < j) /\ ~(j < i) BY <1>9, <4>1
      <4> QED BY <4>2
    <3> QED BY <1>8, <3>1, <3>2 DEF PlacesOf
  <2>3. Cardinality(R) = Cardinality(1..m) BY <2>1, <2>2, SumOverPlaces
  <2> QED BY <1>5, <2>1, <2>3
<1>12. \A j \in 2..m : rows[j - 1] < rows[j]
  <2> TAKE j \in 2..m
  <2>1. j - 1 \in 1..m /\ j \in 1..m /\ j - 1 < j BY <1>6
  <2> QED BY <1>9, <2>1
<1> QED BY <1>5, <1>10, <1>11, <1>12 DEF rows
=============================================================================
