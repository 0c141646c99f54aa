-------------------------- MODULE SubsequenceProofs --------------------------
(***************************************************************************)
(* What Subsequence returns, and how it changes when a sequence grows at   *)
(* its end or loses its head.                                              *)
(***************************************************************************)
EXTENDS Subsequence, FiniteSetTheorems, FunctionTheorems, SequenceTheorems, TLAPS

-----------------------------------------------------------------------------
(* Intervals and sequences                                                  *)

\* The positions of a sequence, as a set.
LEMMA IntervalSize ==
    ASSUME NEW n \in Nat
    PROVE  IsFiniteSet(1 .. n) /\ Cardinality(1 .. n) = n /\ 1 .. n \in SUBSET Int
<1>1. IsFiniteSet(1 .. n) /\ Cardinality(1 .. n) = IF 1 > n THEN 0 ELSE n - 1 + 1
      BY FS_Interval
<1>2. 1 .. n \in SUBSET Int
      OBVIOUS
<1>3. (IF 1 > n THEN 0 ELSE n - 1 + 1) = n
      OBVIOUS
<1> QED BY <1>1, <1>2, <1>3

\* A sequence is a function of its positions.
LEMMA SequenceIsFunction ==
    ASSUME NEW S, NEW s \in Seq(S), NEW n, Len(s) = n
    PROVE  s = [k \in 1 .. n |-> s[k]]
OBVIOUS

-----------------------------------------------------------------------------
(* Ranks                                                                    *)

\* A rank is a number between 1 and the number of positions.
LEMMA RankInRange ==
    ASSUME NEW P \in SUBSET Int, IsFiniteSet(P), NEW i \in P
    PROVE  Rank(P, i) \in 1 .. Cardinality(P)
<1> DEFINE B == {j \in P : j <= i}
<1>1. IsFiniteSet(B) /\ Cardinality(B) <= Cardinality(P)
      BY FS_Subset
<1>2. Cardinality(B) \in Nat /\ Cardinality(P) \in Nat
      BY <1>1, FS_CardinalityType
<1>3. i \in B
      OBVIOUS
<1>4. Cardinality(B) # 0
      BY <1>1, <1>3, FS_EmptySet
<1> QED BY <1>1, <1>2, <1>4 DEF Rank

\* A later position has a greater rank.
LEMMA RankMonotone ==
    ASSUME NEW P \in SUBSET Int, IsFiniteSet(P), NEW i \in P, NEW j \in P, i < j
    PROVE  Rank(P, i) < Rank(P, j)
<1> DEFINE A == {k \in P : k <= i}
           B == {k \in P : k <= j}
<1>1. IsFiniteSet(A) /\ IsFiniteSet(B)
      BY FS_Subset
<1>2. A \subseteq B /\ j \in B /\ j \notin A
  <2>1. \A k \in P : k <= i => k <= j
        OBVIOUS
  <2>2. j <= j /\ ~(j <= i)
        OBVIOUS
  <2> QED BY <2>1, <2>2
<1>3. Cardinality(A) <= Cardinality(B) /\ Cardinality(A) # Cardinality(B)
      BY <1>1, <1>2, FS_Subset
<1>4. Cardinality(A) \in Nat /\ Cardinality(B) \in Nat
      BY <1>1, FS_CardinalityType
<1> HIDE DEF A, B
<1>5. Cardinality(A) < Cardinality(B)
      BY <1>3, <1>4
<1> QED BY <1>5 DEF Rank, A, B

\* Two positions never have one rank.
LEMMA RankInjective ==
    ASSUME NEW P \in SUBSET Int, IsFiniteSet(P), NEW i \in P, NEW j \in P,
           Rank(P, i) = Rank(P, j)
    PROVE  i = j
<1>1. Rank(P, i) \in Int /\ Rank(P, j) \in Int
      BY RankInRange
<1>2. CASE i < j
      BY <1>1, <1>2, RankMonotone
<1>3. CASE j < i
      BY <1>1, <1>3, RankMonotone
<1> QED BY <1>2, <1>3

\* Every number up to the number of positions is a rank.
LEMMA RankOnto ==
    ASSUME NEW P \in SUBSET Int, IsFiniteSet(P), NEW k \in 1 .. Cardinality(P)
    PROVE  \E i \in P : Rank(P, i) = k
<1> DEFINE f == [i \in P |-> Rank(P, i)]
           T == 1 .. Cardinality(P)
<1>1. Cardinality(P) \in Nat
      BY FS_CardinalityType
<1>2. IsFiniteSet(T) /\ Cardinality(T) = Cardinality(P)
      BY <1>1, FS_Interval
<1>3. f \in [P -> T]
      BY RankInRange
<1>4. \A i, j \in P : f[i] = f[j] => i = j
      BY RankInjective
<1>5. f \in Injection(P, T)
      BY <1>3, <1>4 DEF Injection, IsInjective
<1>6. f \in Surjection(P, T)
      BY <1>2, <1>5, FS_Injection
<1>7. \E i \in P : f[i] = k
      BY <1>6 DEF Surjection
<1> QED BY <1>7

-----------------------------------------------------------------------------
(* Subsequences                                                             *)

\* A subsequence has the element at position i in the place of i, and no others.
LEMMA SubsequenceAt ==
    ASSUME NEW s, NEW P \in SUBSET Int, IsFiniteSet(P), NEW i \in P
    PROVE  Rank(P, i) \in 1 .. Cardinality(P) /\ Subsequence(s, P)[Rank(P, i)] = s[i]
<1>1. Rank(P, i) \in 1 .. Cardinality(P)
      BY RankInRange
<1>2. (CHOOSE j \in P : Rank(P, j) = Rank(P, i)) = i
      BY RankInjective
<1> QED BY <1>1, <1>2 DEF Subsequence

\* A sequence that has the elements at the positions in P in their places is the
\* subsequence.
LEMMA SubsequenceUnique ==
    ASSUME NEW s, NEW P \in SUBSET Int, IsFiniteSet(P), NEW u,
           u = [k \in 1 .. Cardinality(P) |-> u[k]],
           \A i \in P : u[Rank(P, i)] = s[i]
    PROVE  Subsequence(s, P) = u
<1>1. \A k \in 1 .. Cardinality(P) : Subsequence(s, P)[k] = u[k]
  <2> TAKE k \in 1 .. Cardinality(P)
  <2>1. PICK i \in P : Rank(P, i) = k
        BY RankOnto
  <2> QED BY <2>1, SubsequenceAt
<1>2. Subsequence(s, P) = [k \in 1 .. Cardinality(P) |-> Subsequence(s, P)[k]]
      BY DEF Subsequence
<1> QED BY <1>1, <1>2

\* A subsequence of a sequence over S is one.
LEMMA SubsequenceType ==
    ASSUME NEW S, NEW s \in Seq(S), NEW P \in SUBSET (1 .. Len(s))
    PROVE  /\ IsFiniteSet(P) /\ Cardinality(P) \in Nat
           /\ Subsequence(s, P) \in Seq(S)
           /\ Len(Subsequence(s, P)) = Cardinality(P)
<1>1. IsFiniteSet(1 .. Len(s))
      BY FS_Interval
<1>2. IsFiniteSet(P) /\ Cardinality(P) \in Nat
      BY <1>1, FS_Subset, FS_CardinalityType
<1>3. \A k \in 1 .. Cardinality(P) : Subsequence(s, P)[k] \in S
  <2> TAKE k \in 1 .. Cardinality(P)
  <2>1. PICK i \in P : Rank(P, i) = k
        BY <1>2, RankOnto
  <2>2. s[i] \in S
        OBVIOUS
  <2>3. Subsequence(s, P)[k] = s[i]
        BY <1>2, <2>1, SubsequenceAt
  <2> QED BY <2>2, <2>3
<1>4. Subsequence(s, P) = [k \in 1 .. Cardinality(P) |-> Subsequence(s, P)[k]]
      BY DEF Subsequence
<1> HIDE DEF Subsequence
<1>5. Subsequence(s, P) \in [1 .. Cardinality(P) -> S]
      BY <1>3, <1>4
<1> QED BY <1>2, <1>5

-----------------------------------------------------------------------------
(* A position more or less                                                  *)

\* Without the position e, the later ones have one rank less.
LEMMA RankRemoved ==
    ASSUME NEW P \in SUBSET Int, IsFiniteSet(P), NEW e \in P, NEW i \in P \ {e}
    PROVE  Rank(P \ {e}, i) = IF e < i THEN Rank(P, i) - 1 ELSE Rank(P, i)
<1> DEFINE A == {k \in P : k <= i}
           B == {k \in P \ {e} : k <= i}
<1>1. IsFiniteSet(A)
      BY FS_Subset
<1>2. CASE e < i
  <2>1. e \in A /\ B = A \ {e}
        BY <1>2
  <2>2. Cardinality(A \ {e}) = Cardinality(A) - 1
        BY <1>1, <2>1, FS_RemoveElement
  <2> QED BY <1>2, <2>1, <2>2 DEF Rank
<1>3. CASE ~(e < i)
  <2>1. \A k \in P : k <= i => k # e
        BY <1>3
  <2>2. B = A
        BY <2>1
  <2> QED BY <1>3, <2>2 DEF Rank
<1> QED BY <1>2, <1>3

\* The rank of a position is that of the position before it, when all move down by one.
LEMMA Shifted ==
    ASSUME NEW P \in SUBSET Int, IsFiniteSet(P)
    PROVE  /\ IsFiniteSet({i - 1 : i \in P})
           /\ Cardinality({i - 1 : i \in P}) = Cardinality(P)
<1> DEFINE Q == {i - 1 : i \in P}
           f == [i \in P |-> i - 1]
<1>1. f \in [P -> Q]
      OBVIOUS
<1>2. \A i, j \in P : f[i] = f[j] => i = j
      OBVIOUS
<1>3. \A q \in Q : \E i \in P : f[i] = q
      OBVIOUS
<1> HIDE DEF f, Q
<1>4. f \in Bijection(P, Q)
      BY <1>1, <1>2, <1>3 DEF Bijection, Injection, IsInjective, Surjection
<1>5. ExistsBijection(P, Q)
      BY <1>4 DEF ExistsBijection
<1>6. IsFiniteSet(Q) /\ Cardinality(Q) = Cardinality(P)
      BY <1>5, FS_Bijection
<1> QED BY <1>6 DEF Q

\* Positions that move down by one keep their ranks.
LEMMA RankShifted ==
    ASSUME NEW P \in SUBSET Int, IsFiniteSet(P), NEW i \in P
    PROVE  Rank({k - 1 : k \in P}, i - 1) = Rank(P, i)
<1> DEFINE A == {k \in P : k <= i}
<1>1. IsFiniteSet(A) /\ A \in SUBSET Int
      BY FS_Subset
<1>2. {j \in {k - 1 : k \in P} : j <= i - 1} = {k - 1 : k \in A}
      OBVIOUS
<1>3. Cardinality({k - 1 : k \in A}) = Cardinality(A)
      BY <1>1, Shifted
<1> QED BY <1>2, <1>3 DEF Rank

\* The positions of an interval from 1 are their own ranks.
LEMMA RankInterval ==
    ASSUME NEW n \in Nat, NEW i \in 1 .. n
    PROVE  Rank(1 .. n, i) = i
<1>1. {j \in 1 .. n : j <= i} = 1 .. i
      OBVIOUS
<1>2. Cardinality(1 .. i) = i
      BY FS_Interval
<1> QED BY <1>1, <1>2 DEF Rank

-----------------------------------------------------------------------------
(* Sequences that grow and shrink                                           *)

\* Only the elements at the positions matter.
LEMMA SubsequenceSame ==
    ASSUME NEW s, NEW t, NEW P \in SUBSET Int, IsFiniteSet(P),
           \A i \in P : t[i] = s[i]
    PROVE  Subsequence(t, P) = Subsequence(s, P)
<1>1. ASSUME NEW k \in 1 .. Cardinality(P)
      PROVE  t[CHOOSE i \in P : Rank(P, i) = k] = s[CHOOSE i \in P : Rank(P, i) = k]
  <2>1. \E i \in P : Rank(P, i) = k
        BY RankOnto
  <2> QED BY <2>1
<1> QED BY <1>1 DEF Subsequence

\* All positions: the sequence itself.
LEMMA SubsequenceAll ==
    ASSUME NEW S, NEW s \in Seq(S)
    PROVE  Subsequence(s, 1 .. Len(s)) = s
<1> DEFINE P == 1 .. Len(s)
<1>1. IsFiniteSet(P) /\ Cardinality(P) = Len(s) /\ P \in SUBSET Int
      BY IntervalSize
<1>2. s = [k \in 1 .. Cardinality(P) |-> s[k]]
      BY <1>1
<1>3. \A i \in P : s[Rank(P, i)] = s[i]
      BY RankInterval
<1> QED BY <1>1, <1>2, <1>3, SubsequenceUnique

\* All positions but e: the elements behind it move up.
LEMMA SubsequenceWithout ==
    ASSUME NEW S, NEW s \in Seq(S), NEW e \in 1 .. Len(s)
    PROVE  Subsequence(s, (1 .. Len(s)) \ {e})
               = [k \in 1 .. Len(s) - 1 |-> IF k < e THEN s[k] ELSE s[k + 1]]
<1> DEFINE P == 1 .. Len(s)
           R == P \ {e}
           u == [k \in 1 .. Len(s) - 1 |-> IF k < e THEN s[k] ELSE s[k + 1]]
<1>1. IsFiniteSet(P) /\ Cardinality(P) = Len(s) /\ P \in SUBSET Int
      BY IntervalSize
<1>2. IsFiniteSet(R) /\ Cardinality(R) = Len(s) - 1 /\ R \in SUBSET Int
  <2> HIDE DEF P
  <2>1. e \in P
        BY DEF P
  <2> QED BY <1>1, <2>1, FS_RemoveElement
<1>3. u = [k \in 1 .. Cardinality(R) |-> u[k]]
      BY <1>2
<1>4. \A i \in R : u[Rank(R, i)] = s[i]
  <2> TAKE i \in R
  <2>1. Rank(P, i) = i
        BY RankInterval
  <2>2. Rank(R, i) = IF e < i THEN i - 1 ELSE i
        BY <1>1, <2>1, RankRemoved
  <2> QED BY <2>2
<1> HIDE DEF u, R
<1>5. Subsequence(s, R) = u
      BY <1>2, <1>3, <1>4, SubsequenceUnique
<1> QED BY <1>5 DEF u, R

\* One more position behind all the others: its element is appended.
LEMMA SubsequenceGrows ==
    ASSUME NEW S, NEW s \in Seq(S), NEW e \in S, NEW P \in SUBSET (1 .. Len(s))
    PROVE  /\ Subsequence(Append(s, e), P) = Subsequence(s, P)
           /\ Subsequence(Append(s, e), P \cup {Len(s) + 1}) = Append(Subsequence(s, P), e)
<1> DEFINE m == Len(s) + 1
           t == Append(s, e)
           N == P \cup {m}
           u == Append(Subsequence(s, P), e)
<1>1. IsFiniteSet(P) /\ Cardinality(P) \in Nat /\ Len(Subsequence(s, P)) = Cardinality(P)
        /\ Subsequence(s, P) \in Seq(S)
      BY SubsequenceType
<1>2. m \in Int /\ m \notin P /\ \A i \in P : i < m /\ i \in Int /\ t[i] = s[i]
      OBVIOUS
<1>3. t[m] = e
      OBVIOUS
<1> HIDE DEF m, t
<1>4. Subsequence(t, P) = Subsequence(s, P)
      BY <1>1, <1>2, SubsequenceSame
<1>5. IsFiniteSet(N) /\ Cardinality(N) = Cardinality(P) + 1 /\ N \in SUBSET Int
      BY <1>1, <1>2, FS_AddElement
<1>6. N \ {m} = P
      BY <1>2
<1>7. \A i \in P : Rank(N, i) = Rank(P, i)
      BY <1>2, <1>5, <1>6, RankRemoved
<1>8. Rank(N, m) = Cardinality(P) + 1
  <2>1. {j \in N : j <= m} = N
        BY <1>2
  <2> QED BY <1>5, <2>1 DEF Rank
<1>9. u = [k \in 1 .. Cardinality(N) |-> u[k]]
  <2>1. u \in Seq(S) /\ Len(u) = Cardinality(P) + 1
        BY <1>1, AppendProperties
  <2> HIDE DEF u
  <2> QED BY <1>5, <2>1, SequenceIsFunction
<1>10. \A i \in N : u[Rank(N, i)] = t[i]
  <2>1. ASSUME NEW i \in P PROVE u[Rank(N, i)] = t[i]
    <3>1. Rank(P, i) \in 1 .. Cardinality(P) /\ Subsequence(s, P)[Rank(P, i)] = s[i]
          BY <1>1, <1>2, SubsequenceAt
    <3>2. u[Rank(P, i)] = Subsequence(s, P)[Rank(P, i)]
          BY <1>1, <3>1, AppendProperties
    <3> QED BY <1>2, <1>7, <3>1, <3>2
  <2>2. u[Rank(N, m)] = t[m]
        BY <1>1, <1>3, <1>8
  <2> QED BY <2>1, <2>2
<1> HIDE DEF u, N
<1>11. Subsequence(t, N) = u
      BY <1>5, <1>9, <1>10, SubsequenceUnique
<1> QED BY <1>4, <1>11 DEF t, u, N, m

\* Without its first position a subsequence is its own tail.
LEMMA SubsequenceLosesHead ==
    ASSUME NEW S, NEW s \in Seq(S), NEW P \in SUBSET (1 .. Len(s)), 1 \in P
    PROVE  /\ Subsequence(s, P) # <<>> /\ Head(Subsequence(s, P)) = s[1]
           /\ Subsequence(s, P \ {1}) = Tail(Subsequence(s, P))
<1> DEFINE R == P \ {1}
           v == Subsequence(s, P)
           u == Tail(v)
<1>1. IsFiniteSet(P) /\ Cardinality(P) \in Nat /\ v \in Seq(S) /\ Len(v) = Cardinality(P)
      BY SubsequenceType
<1>2. Rank(P, 1) = 1
  <2>1. \A j \in P : j <= 1 <=> j = 1
        OBVIOUS
  <2>2. {j \in P : j <= 1} = {1}
        BY <2>1
  <2> QED BY <2>2, FS_Singleton DEF Rank
<1>3. 1 \in 1 .. Cardinality(P) /\ v[1] = s[1]
      BY <1>1, <1>2, SubsequenceAt
<1> HIDE DEF v
<1>4. v # <<>> /\ Head(v) = s[1]
      BY <1>1, <1>3
<1>5. u \in Seq(S) /\ Len(u) = Cardinality(P) - 1 /\ \A k \in 1 .. Len(u) : u[k] = v[k + 1]
      BY <1>1, <1>4
<1>6. IsFiniteSet(R) /\ Cardinality(R) = Cardinality(P) - 1 /\ R \in SUBSET Int
      BY <1>1, FS_RemoveElement
<1> HIDE DEF u
<1>7. u = [k \in 1 .. Cardinality(R) |-> u[k]]
      BY <1>5, <1>6, SequenceIsFunction
<1>8. \A i \in R : u[Rank(R, i)] = s[i]
  <2> TAKE i \in R
  <2>1. Rank(R, i) = Rank(P, i) - 1
        BY <1>1, RankRemoved
  <2>2. Rank(R, i) \in 1 .. Cardinality(R)
        BY <1>6, RankInRange
  <2>3. v[Rank(P, i)] = s[i] /\ Rank(P, i) \in 1 .. Cardinality(P)
        BY <1>1, SubsequenceAt DEF v
  <2> QED BY <1>5, <1>6, <2>1, <2>2, <2>3
<1> HIDE DEF R
<1>9. Subsequence(s, R) = u
  <2>1. ASSUME NEW k \in 1 .. Cardinality(R) PROVE Subsequence(s, R)[k] = u[k]
    <3>1. PICK i \in R : Rank(R, i) = k
          BY <1>6, RankOnto
    <3>2. Subsequence(s, R)[k] = s[i]
          BY <1>6, <3>1, SubsequenceAt
    <3> QED BY <1>8, <3>1, <3>2
  <2>2. Subsequence(s, R) = [k \in 1 .. Cardinality(R) |-> Subsequence(s, R)[k]]
        BY DEF Subsequence
  <2> QED BY <1>7, <2>1, <2>2
<1> QED BY <1>4, <1>9 DEF R, u, v

\* When a sequence loses its head every position moves down by one.
LEMMA SubsequenceShifts ==
    ASSUME NEW S, NEW s \in Seq(S), s # <<>>, NEW P \in SUBSET (2 .. Len(s))
    PROVE  Subsequence(Tail(s), {i - 1 : i \in P}) = Subsequence(s, P)
<1> DEFINE Q == {i - 1 : i \in P}
           u == Subsequence(s, P)
<1>1. IsFiniteSet(P)
  <2>1. IsFiniteSet(2 .. Len(s))
        BY FS_Interval
  <2> QED BY <2>1, FS_Subset
<1>2. IsFiniteSet(Q) /\ Cardinality(Q) = Cardinality(P) /\ Q \in SUBSET Int
  <2>1. P \in SUBSET Int
        OBVIOUS
  <2>2. Q \in SUBSET Int
        OBVIOUS
  <2> QED BY <1>1, <2>1, <2>2, Shifted
<1>3. u = [k \in 1 .. Cardinality(Q) |-> u[k]]
      BY <1>2 DEF Subsequence
<1>4. \A q \in Q : u[Rank(Q, q)] = Tail(s)[q]
  <2> SUFFICES ASSUME NEW i \in P PROVE u[Rank(Q, i - 1)] = Tail(s)[i - 1]
      OBVIOUS
  <2>1. Rank(Q, i - 1) = Rank(P, i)
        BY <1>1, RankShifted
  <2>2. u[Rank(P, i)] = s[i]
        BY <1>1, SubsequenceAt
  <2>3. Tail(s)[i - 1] = s[i]
        OBVIOUS
  <2> QED BY <2>1, <2>2, <2>3
<1> HIDE DEF u, Q
<1>5. Subsequence(Tail(s), Q) = u
      BY <1>2, <1>3, <1>4, SubsequenceUnique
<1> QED BY <1>5 DEF u, Q
==============================================================================
