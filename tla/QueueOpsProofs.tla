--------------------------- MODULE QueueOpsProofs ---------------------------
(***************************************************************************)
(* What Erase does to a queue, for every queue and every set of values,    *)
(* and the ranks it rests on.                                              *)
(***************************************************************************)
EXTENDS QueueOps, FiniteSetTheorems, TLAPS

(* In a finite set of integers the elements have the ranks 1 .. n, each    *)
(* rank exactly once: ranking is an injection into a set of the same size. *)
LEMMA RankBijective ==
    ASSUME NEW K \in SUBSET Int, IsFiniteSet(K)
    PROVE  /\ Cardinality(K) \in Nat
           /\ \A i \in K : Rank(K, i) \in 1 .. Cardinality(K)
           /\ \A i, j \in K : i < j => Rank(K, i) < Rank(K, j)
           /\ \A i, j \in K : Rank(K, i) = Rank(K, j) => i = j
           /\ \A k \in 1 .. Cardinality(K) : \E i \in K : Rank(K, i) = k
<1> DEFINE n == Cardinality(K)
           upto(i) == {j \in K : j <= i}
           f == [i \in K |-> Rank(K, i)]
<1>1. n \in Nat
  BY FS_CardinalityType
<1>2. \A i \in K : /\ upto(i) \in SUBSET K
                   /\ IsFiniteSet(upto(i))
                   /\ Cardinality(upto(i)) \in Nat
                   /\ Cardinality(upto(i)) <= n
  BY FS_Subset, FS_CardinalityType
<1>3. \A i \in K : Cardinality(upto(i)) # 0
  <2> SUFFICES ASSUME NEW i \in K PROVE Cardinality(upto(i)) # 0
    OBVIOUS
  <2>1. i \in upto(i)
    OBVIOUS
  <2> QED
    BY <1>2, <2>1, FS_EmptySet
<1>4. \A i \in K : Rank(K, i) \in 1 .. n
  BY <1>1, <1>2, <1>3 DEF Rank
<1>5. ASSUME NEW i \in K, NEW j \in K, i < j
      PROVE  Rank(K, i) < Rank(K, j)
  <2>1. upto(i) \in SUBSET upto(j)
    <3>1. \A x \in K : x \in Int
      OBVIOUS
    <3>2. \A x \in K : x <= i => x <= j
      BY <1>5, <3>1
    <3> QED
      BY <3>2
  <2>2. j \in upto(j) /\ j \notin upto(i)
    BY <1>5
  <2>3. IsFiniteSet(upto(j))
    BY <1>2
  <2>4. Cardinality(upto(i)) <= Cardinality(upto(j))
    BY <2>1, <2>3, FS_Subset
  <2>5. Cardinality(upto(i)) # Cardinality(upto(j))
    BY <2>1, <2>2, <2>3, FS_Subset
  <2> QED
    BY <1>2, <2>4, <2>5 DEF Rank
<1>6. \A i, j \in K : Rank(K, i) = Rank(K, j) => i = j
  <2> SUFFICES ASSUME NEW i \in K, NEW j \in K, Rank(K, i) = Rank(K, j), i # j
               PROVE  FALSE
    OBVIOUS
  <2>1. i < j \/ j < i
    OBVIOUS
  <2> QED
    BY <1>4, <1>1, <1>5, <2>1
<1>7. \A k \in 1 .. n : \E i \in K : Rank(K, i) = k
  <2>1. f \in Injection(K, 1 .. n)
    BY <1>4, <1>6 DEF Injection, IsInjective
  <2>2. IsFiniteSet(1 .. n) /\ Cardinality(1 .. n) = n
    BY <1>1, FS_Interval
  <2>3. f \in Surjection(K, 1 .. n)
    BY <2>1, <2>2, FS_Injection
  <2> QED
    BY <2>3 DEF Surjection
<1> QED
  BY <1>1, <1>4, <1>5, <1>6, <1>7

(* Every finite set of integers that is not empty has a least element.     *)
LEMMA Smallest ==
    ASSUME NEW K \in SUBSET Int, IsFiniteSet(K), K # {}
    PROVE  \E m \in K : \A k \in K : m <= k
<1>1. /\ Cardinality(K) \in Nat
      /\ \A i \in K : Rank(K, i) \in 1 .. Cardinality(K)
      /\ \A i, j \in K : i < j => Rank(K, i) < Rank(K, j)
      /\ \A k \in 1 .. Cardinality(K) : \E i \in K : Rank(K, i) = k
  BY RankBijective
<1>2. PICK m \in K : Rank(K, m) = 1
  <2>1. 1 \in 1 .. Cardinality(K)
    BY <1>1, FS_EmptySet
  <2> QED
    BY <1>1, <2>1
<1>3. \A k \in K : ~(k < m)
  BY <1>1, <1>2
<1> QED
  BY <1>2, <1>3

(* Induction up to a bound, with the property as a set.                    *)
LEMMA InductionUpTo ==
    ASSUME NEW N \in Nat, NEW G, 0 \in G, \A n \in 1 .. N : n - 1 \in G => n \in G
    PROVE  \A n \in 0 .. N : n \in G
<1> DEFINE B == (0 .. N) \ G
<1> SUFFICES ASSUME B # {} PROVE FALSE
  OBVIOUS
<1>1. B \in SUBSET Int /\ IsFiniteSet(B)
  <2>1. IsFiniteSet(0 .. N) /\ B \subseteq 0 .. N /\ 0 .. N \subseteq Int
    BY FS_Interval
  <2> QED
    BY <2>1, FS_Subset
<1>2. \E m \in B : \A k \in B : m <= k
  <2> HIDE DEF B
  <2> QED
    BY <1>1, Smallest
<1>3. PICK m \in B : \A k \in B : m <= k
  BY <1>2
<1>4. m \in 1 .. N /\ m \notin G /\ m - 1 \in 0 .. N /\ ~(m <= m - 1)
  <2>1. m \in 0 .. N /\ m \notin G /\ m # 0
    BY <1>3
  <2> QED
    BY <2>1
<1>5. m - 1 \in G
  BY <1>3, <1>4
<1> QED
  BY <1>4, <1>5

(* KeepAt keeps exactly the given positions, in their order: every entry   *)
(* of the result comes from one of them, and each of them is found at its  *)
(* rank.                                                                   *)
LEMMA KeepAtEntries ==
    ASSUME NEW T, NEW q \in Seq(T), NEW K \in SUBSET DOMAIN q
    PROVE  /\ KeepAt(q, K) \in Seq(T)
           /\ \A k \in 1 .. Len(KeepAt(q, K)) :
                 \E i \in K : Rank(K, i) = k /\ KeepAt(q, K)[k] = q[i]
           /\ \A i \in K : /\ Rank(K, i) \in 1 .. Len(KeepAt(q, K))
                           /\ KeepAt(q, K)[Rank(K, i)] = q[i]
<1> DEFINE n == Cardinality(K)
           pos(k) == CHOOSE i \in K : Rank(K, i) = k
<1>1. K \in SUBSET (1 .. Len(q)) /\ IsFiniteSet(K) /\ K \in SUBSET Int
  <2>1. IsFiniteSet(1 .. Len(q))
    BY FS_Interval
  <2>2. K \in SUBSET (1 .. Len(q))
    OBVIOUS
  <2> QED
    BY <2>1, <2>2, FS_Subset
<1>2. /\ n \in Nat
      /\ \A i \in K : Rank(K, i) \in 1 .. n
      /\ \A i, j \in K : Rank(K, i) = Rank(K, j) => i = j
      /\ \A k \in 1 .. n : \E i \in K : Rank(K, i) = k
  BY <1>1, RankBijective
<1>3. \A k \in 1 .. n : pos(k) \in K /\ Rank(K, pos(k)) = k
  BY <1>2
<1>4. \A i \in K : pos(Rank(K, i)) = i
  BY <1>2, <1>3
<1>5. KeepAt(q, K) = [k \in 1 .. n |-> q[pos(k)]]
  BY DEF KeepAt
<1> HIDE DEF pos, n
<1>6. \A k \in 1 .. n : q[pos(k)] \in T
  <2>1. \A i \in 1 .. Len(q) : q[i] \in T
    OBVIOUS
  <2> QED
    BY <1>1, <1>3, <2>1
<1>7. KeepAt(q, K) \in Seq(T) /\ Len(KeepAt(q, K)) = n
  BY <1>2, <1>5, <1>6
<1>8. \A k \in 1 .. n : KeepAt(q, K)[k] = q[pos(k)]
  BY <1>5
<1> QED
  BY <1>2, <1>3, <1>4, <1>7, <1>8

(* Erase removes exactly the given values.                                 *)
LEMMA EraseRange ==
    ASSUME NEW T, NEW q \in Seq(T), NEW S
    PROVE  Erase(q, S) \in Seq(T) /\ Range(Erase(q, S)) = Range(q) \ S
<1> DEFINE K == Kept(q, S)
<1>1. K \in SUBSET DOMAIN q /\ K = {i \in DOMAIN q : q[i] \notin S}
  BY DEF Kept
<1> HIDE DEF K
<1>2. /\ KeepAt(q, K) \in Seq(T)
      /\ \A k \in DOMAIN KeepAt(q, K) : \E i \in K : KeepAt(q, K)[k] = q[i]
      /\ \A i \in K : \E k \in DOMAIN KeepAt(q, K) : KeepAt(q, K)[k] = q[i]
  <2>1. /\ KeepAt(q, K) \in Seq(T)
        /\ \A k \in 1 .. Len(KeepAt(q, K)) :
                 \E i \in K : Rank(K, i) = k /\ KeepAt(q, K)[k] = q[i]
        /\ \A i \in K : /\ Rank(K, i) \in 1 .. Len(KeepAt(q, K))
                        /\ KeepAt(q, K)[Rank(K, i)] = q[i]
    BY <1>1, KeepAtEntries
  <2>2. DOMAIN KeepAt(q, K) = 1 .. Len(KeepAt(q, K))
    BY <2>1
  <2> QED
    BY <2>1, <2>2
<1>3. Erase(q, S) = KeepAt(q, K)
  BY DEF Erase, K
<1> DEFINE r == KeepAt(q, K)
<1>4. \A i \in K : i \in DOMAIN q /\ q[i] \notin S
  BY <1>1
<1>5. \A i \in DOMAIN q : q[i] \notin S => i \in K
  BY <1>1
<1> HIDE DEF r
<1>6. \A k \in DOMAIN r : \E i \in DOMAIN q : q[i] \notin S /\ r[k] = q[i]
  BY <1>2, <1>4 DEF r
<1>7. \A i \in DOMAIN q : q[i] \notin S => \E k \in DOMAIN r : r[k] = q[i]
  BY <1>2, <1>5 DEF r
<1>8. Range(r) = Range(q) \ S
  BY <1>6, <1>7 DEF Range
<1> QED
  BY <1>2, <1>3, <1>8 DEF r

(* Keeping some positions creates no duplicates, so neither does Erase.    *)
LEMMA KeepAtInjective ==
    ASSUME NEW T, NEW q \in Seq(T), NEW K \in SUBSET DOMAIN q, IsInjective(q)
    PROVE  IsInjective(KeepAt(q, K))
<1> DEFINE r == KeepAt(q, K)
<1>1. /\ DOMAIN r = 1 .. Len(r)
      /\ \A k \in 1 .. Len(r) : \E i \in K : Rank(K, i) = k /\ r[k] = q[i]
  BY KeepAtEntries
<1> HIDE DEF r
<1> SUFFICES ASSUME NEW a \in DOMAIN r, NEW b \in DOMAIN r, r[a] = r[b]
             PROVE  a = b
  BY DEF IsInjective, r
<1>2. PICK i \in K : Rank(K, i) = a /\ r[a] = q[i]
  BY <1>1
<1>3. PICK j \in K : Rank(K, j) = b /\ r[b] = q[j]
  BY <1>1
<1>4. i = j
  BY <1>2, <1>3 DEF IsInjective
<1> QED
  BY <1>2, <1>3, <1>4

(* Erasing values from a queue makes no duplicates.                        *)
LEMMA EraseInjective ==
    ASSUME NEW T, NEW q \in Seq(T), NEW S, IsInjective(q)
    PROVE  IsInjective(Erase(q, S))
<1>1. Kept(q, S) \in SUBSET DOMAIN q
  BY DEF Kept
<1> QED
  BY <1>1, KeepAtInjective DEF Erase

(* Pushing a new value at the back keeps a queue free of duplicates.       *)
LEMMA AppendFacts ==
    ASSUME NEW T, NEW q \in Seq(T), NEW x \in T
    PROVE  /\ Append(q, x) \in Seq(T)
           /\ Range(Append(q, x)) = Range(q) \cup {x}
           /\ IsInjective(q) /\ x \notin Range(q) => IsInjective(Append(q, x))
<1>1. Append(q, x) \in Seq(T) /\ Len(Append(q, x)) = Len(q) + 1
  OBVIOUS
<1>2. \A i \in 1 .. Len(q) : Append(q, x)[i] = q[i]
  OBVIOUS
<1>3. Append(q, x)[Len(q) + 1] = x
  OBVIOUS
<1>4. DOMAIN q = 1 .. Len(q) /\ DOMAIN Append(q, x) = 1 .. (Len(q) + 1) /\ Len(q) \in Nat
  OBVIOUS
<1>5. \A i \in 1 .. (Len(q) + 1) : i \in 1 .. Len(q) \/ i = Len(q) + 1
  BY <1>4
<1>6. \A y : y \in Range(Append(q, x)) <=> y \in Range(q) \/ y = x
  BY <1>2, <1>3, <1>4, <1>5 DEF Range
<1>7. IsInjective(q) /\ x \notin Range(q) => IsInjective(Append(q, x))
  BY <1>2, <1>3, <1>4, <1>5 DEF IsInjective, Range
<1> QED
  BY <1>1, <1>6, <1>7

-----------------------------------------------------------------------------
(* Erasing twice, erasing nothing, and erasing what was just pushed.       *)

(* The ranks, in K, of the elements of M are ranked as the elements are.   *)
LEMMA RanksRanked ==
    ASSUME NEW K \in SUBSET Int, IsFiniteSet(K), NEW M \in SUBSET K,
           NEW L, \A x : x \in L <=> \E i \in M : x = Rank(K, i)
    PROVE  /\ Cardinality(L) = Cardinality(M)
           /\ \A i \in M : Rank(L, Rank(K, i)) = Rank(M, i)
<1>1. /\ \A i \in K : Rank(K, i) \in Nat
      /\ \A i, j \in K : i < j => Rank(K, i) < Rank(K, j)
      /\ \A i, j \in K : Rank(K, i) = Rank(K, j) => i = j
  BY RankBijective
<1>2. ASSUME NEW A \in SUBSET M
      PROVE  Cardinality({Rank(K, i) : i \in A}) = Cardinality(A)
  <2> DEFINE T == {Rank(K, i) : i \in A}
             f == [i \in A |-> Rank(K, i)]
  <2>1. IsFiniteSet(A)
    BY FS_Subset
  <2>2. f \in [A -> T] /\ \A t \in T : \E i \in A : f[i] = t
    OBVIOUS
  <2>3. \A i, j \in A : f[i] = f[j] => i = j
    BY <1>1
  <2> HIDE DEF f, T
  <2>4. f \in Bijection(A, T)
    BY <2>2, <2>3 DEF Bijection, Injection, Surjection, IsInjective
  <2>5. ExistsBijection(A, T)
    BY <2>4 DEF ExistsBijection
  <2> QED
    BY <2>1, <2>5, FS_Bijection DEF T
<1>3. ASSUME NEW i \in M PROVE Rank(L, Rank(K, i)) = Rank(M, i)
  <2> DEFINE A == {j \in M : j <= i}
  <2>1. \A j \in M : j <= i <=> Rank(K, j) <= Rank(K, i)
    <3> SUFFICES ASSUME NEW j \in M PROVE j <= i <=> Rank(K, j) <= Rank(K, i)
      OBVIOUS
    <3>1. /\ i \in Int /\ j \in Int /\ Rank(K, i) \in Nat /\ Rank(K, j) \in Nat
          /\ j < i => Rank(K, j) < Rank(K, i)
          /\ i < j => Rank(K, i) < Rank(K, j)
      BY <1>1
    <3> QED
      BY <3>1
  <2>2. {x \in L : x <= Rank(K, i)} = {Rank(K, j) : j \in A}
    BY <2>1
  <2>3. Cardinality({Rank(K, j) : j \in A}) = Cardinality(A)
    BY <1>2
  <2> QED
    BY <2>2, <2>3 DEF Rank
<1>4. L = {Rank(K, i) : i \in M}
  OBVIOUS
<1> QED
  BY <1>2, <1>3, <1>4

(* Erasing S and then T is erasing both at once.                           *)
LEMMA EraseErase ==
    ASSUME NEW X, NEW q \in Seq(X), NEW S, NEW T
    PROVE  Erase(Erase(q, S), T) = Erase(q, S \cup T)
<1> DEFINE K == Kept(q, S)
           r == KeepAt(q, K)
           M == Kept(q, S \cup T)
           L == Kept(r, T)
           n == Cardinality(M)
<1>1. /\ K \in SUBSET DOMAIN q /\ M \in SUBSET K
      /\ \A i \in K : i \in M <=> q[i] \notin T
  BY DEF Kept
<1>2. K \in SUBSET Int /\ IsFiniteSet(K) /\ K \in SUBSET (1 .. Len(q))
  <2>1. K \in SUBSET (1 .. Len(q))
    BY <1>1
  <2>2. IsFiniteSet(1 .. Len(q))
    BY FS_Interval
  <2> QED
    BY <2>1, <2>2, FS_Subset
<1>3. M \in SUBSET Int /\ IsFiniteSet(M)
  BY <1>1, <1>2, FS_Subset
<1> HIDE DEF K, M
<1>4. /\ DOMAIN r = 1 .. Len(r)
      /\ \A k \in 1 .. Len(r) : \E i \in K : Rank(K, i) = k /\ r[k] = q[i]
      /\ \A i \in K : Rank(K, i) \in 1 .. Len(r) /\ r[Rank(K, i)] = q[i]
  BY <1>1, KeepAtEntries
<1>5. Erase(Erase(q, S), T) = KeepAt(r, L) /\ Erase(q, S \cup T) = KeepAt(q, M)
  BY DEF Erase, K, M
<1> HIDE DEF r
<1>6. \A x : x \in L <=> \E i \in M : x = Rank(K, i)
  <2>1. ASSUME NEW k \in L PROVE \E i \in M : k = Rank(K, i)
    <3>1. k \in 1 .. Len(r) /\ r[k] \notin T
      BY <1>4 DEF Kept
    <3> QED
      BY <1>1, <1>4, <3>1
  <2>2. ASSUME NEW i \in M PROVE Rank(K, i) \in L
    <3>1. i \in K /\ q[i] \notin T
      BY <1>1
    <3> QED
      BY <1>4, <3>1 DEF Kept
  <2> QED
    BY <2>1, <2>2
<1> HIDE DEF L
<1> HIDE DEF n
<1>7. Cardinality(L) = n /\ \A i \in M : Rank(L, Rank(K, i)) = Rank(M, i)
  <2>1. K \in SUBSET Int /\ IsFiniteSet(K) /\ M \in SUBSET K
    BY <1>1, <1>2
  <2>2. /\ Cardinality(L) = Cardinality(M)
        /\ \A i \in M : Rank(L, Rank(K, i)) = Rank(M, i)
    BY ONLY <2>1, <1>6, RanksRanked
  <2> QED
    BY <2>2 DEF n
<1>8. /\ n \in Nat
      /\ \A i, j \in M : Rank(M, i) = Rank(M, j) => i = j
      /\ \A k \in 1 .. n : \E i \in M : Rank(M, i) = k
  BY <1>3, RankBijective DEF n
<1> DEFINE atL(k) == CHOOSE x \in L : Rank(L, x) = k
           atM(k) == CHOOSE i \in M : Rank(M, i) = k
<1>9. ASSUME NEW k \in 1 .. n PROVE r[atL(k)] = q[atM(k)]
  <2>1. PICK i \in M : Rank(M, i) = k
    BY <1>8
  <2>2. atM(k) = i
    BY <1>8, <2>1
  <2>3. Rank(K, i) \in L /\ Rank(L, Rank(K, i)) = k
    BY <1>6, <1>7, <2>1
  <2>4. atL(k) \in L /\ Rank(L, atL(k)) = k
    BY <2>3
  <2> HIDE DEF atL
  <2>5. PICK j \in M : atL(k) = Rank(K, j)
    BY <1>6, <2>4
  <2>6. Rank(M, j) = Rank(M, i)
    BY <1>7, <2>1, <2>4, <2>5
  <2>7. j = i
    BY <1>8, <2>6
  <2>8. r[Rank(K, i)] = q[i]
    BY <1>1, <1>4
  <2> QED
    BY <2>2, <2>5, <2>7, <2>8
<1>10. KeepAt(r, L) = [k \in 1 .. n |-> r[atL(k)]]
  BY <1>7 DEF KeepAt
<1>11. KeepAt(q, M) = [k \in 1 .. n |-> q[atM(k)]]
  BY DEF KeepAt, n
<1> HIDE DEF atL, atM
<1> QED
  BY <1>5, <1>9, <1>10, <1>11

(* Only the values that are in the queue matter.                           *)
LEMMA EraseSame ==
    ASSUME NEW q, NEW S, NEW T, \A x \in Range(q) : x \in S <=> x \in T
    PROVE  Erase(q, S) = Erase(q, T)
<1>1. Kept(q, S) = Kept(q, T)
  BY DEF Kept, Range
<1> QED
  BY <1>1 DEF Erase

LEMMA KeepAll ==
    ASSUME NEW T, NEW q \in Seq(T) PROVE KeepAt(q, DOMAIN q) = q
<1>1. DOMAIN q = 1 .. Len(q) /\ Len(q) \in Nat
  OBVIOUS
<1>2. ASSUME NEW i \in 1 .. Len(q) PROVE Rank(1 .. Len(q), i) = i
  <2>1. {j \in 1 .. Len(q) : j <= i} = 1 .. i
    BY <1>1
  <2>2. Cardinality(1 .. i) = i
    BY <1>1, FS_Interval
  <2> QED
    BY <2>1, <2>2 DEF Rank
<1>3. Cardinality(1 .. Len(q)) = Len(q)
  BY <1>1, FS_Interval
<1> DEFINE pos(k) == CHOOSE i \in 1 .. Len(q) : Rank(1 .. Len(q), i) = k
<1>4. \A k \in 1 .. Len(q) : pos(k) = k
  BY <1>2
<1>5. KeepAt(q, 1 .. Len(q)) = [k \in 1 .. Len(q) |-> q[pos(k)]]
  BY <1>3 DEF KeepAt
<1> HIDE DEF pos
<1>6. KeepAt(q, 1 .. Len(q)) = [k \in 1 .. Len(q) |-> q[k]]
  BY <1>4, <1>5
<1> QED
  BY <1>1, <1>6

LEMMA EraseNothing ==
    ASSUME NEW X, NEW q \in Seq(X), NEW S, \A x \in Range(q) : x \notin S
    PROVE  Erase(q, S) = q
<1>1. Kept(q, S) = DOMAIN q
  BY DEF Kept, Range
<1> QED
  BY <1>1, KeepAll DEF Erase

LEMMA AppendErased ==
    ASSUME NEW X, NEW q \in Seq(X), NEW x \in X, NEW S, x \in S
    PROVE  Erase(Append(q, x), S) = Erase(q, S)
<1> DEFINE r == Append(q, x)
           K == Kept(q, S)
           at(k) == CHOOSE i \in K : Rank(K, i) = k
<1>1. /\ DOMAIN q = 1 .. Len(q) /\ DOMAIN r = 1 .. Len(q) + 1 /\ Len(q) \in Nat
      /\ \A i \in 1 .. Len(q) : r[i] = q[i]
      /\ r[Len(q) + 1] = x
  OBVIOUS
<1> HIDE DEF r
<1>2. \A i \in DOMAIN r : i \in DOMAIN q \/ i = Len(q) + 1
  BY <1>1
<1>3. Kept(r, S) = K
  <2>1. \A i \in DOMAIN q : i \in DOMAIN r /\ r[i] = q[i]
    BY <1>1
  <2>2. \A i : i \in Kept(r, S) <=> i \in K
    BY <1>1, <1>2, <2>1 DEF Kept
  <2> QED
    BY <2>2
<1>4. K \in SUBSET (1 .. Len(q)) /\ IsFiniteSet(K) /\ K \in SUBSET Int
  <2>1. K \in SUBSET (1 .. Len(q))
    BY <1>1 DEF Kept
  <2>2. IsFiniteSet(1 .. Len(q))
    BY FS_Interval
  <2> QED
    BY <2>1, <2>2, FS_Subset
<1> HIDE DEF K
<1>5. \A k \in 1 .. Cardinality(K) : at(k) \in K
  BY <1>4, RankBijective
<1>6. KeepAt(r, K) = [k \in 1 .. Cardinality(K) |-> r[at(k)]]
  BY DEF KeepAt
<1>7. KeepAt(q, K) = [k \in 1 .. Cardinality(K) |-> q[at(k)]]
  BY DEF KeepAt
<1> HIDE DEF at
<1>8. \A k \in 1 .. Cardinality(K) : r[at(k)] = q[at(k)]
  BY <1>1, <1>4, <1>5
<1>9. KeepAt(r, K) = KeepAt(q, K)
  BY <1>6, <1>7, <1>8
<1> QED
  BY <1>3, <1>9 DEF Erase, K, r

(* A value that is not erased stays at the back.                           *)
LEMMA AppendKept ==
    ASSUME NEW T, NEW q \in Seq(T), NEW x \in T, NEW S, x \notin S
    PROVE  Erase(Append(q, x), S) = Append(Erase(q, S), x)
<1> DEFINE r == Append(q, x)
           n == Len(q)
           K == Kept(q, S)
           M == Kept(r, S)
           m == Cardinality(K)
           e == KeepAt(q, K)
           f == KeepAt(r, M)
<1>1. /\ r \in Seq(T) /\ Len(r) = n + 1 /\ r[n + 1] = x /\ n \in Nat
      /\ \A i \in 1 .. n : r[i] = q[i]
  OBVIOUS
<1>2. DOMAIN q = 1 .. n /\ DOMAIN r = 1 .. n + 1
  BY <1>1
<1> HIDE DEF r
<1>3. /\ \A i : i \in K <=> i \in 1 .. n /\ q[i] \notin S
      /\ \A i : i \in M <=> i \in 1 .. n + 1 /\ r[i] \notin S
  BY <1>2 DEF Kept
<1> HIDE DEF K, M, n
<1>4. M = K \cup {n + 1} /\ n + 1 \notin K
  BY <1>1, <1>3
<1>5. /\ K \in SUBSET DOMAIN q /\ M \in SUBSET DOMAIN r
      /\ K \in SUBSET Int /\ IsFiniteSet(K)
  <2>1. K \subseteq 1 .. n /\ IsFiniteSet(1 .. n) /\ 1 .. n \subseteq Int
    BY <1>1, <1>3, FS_Interval
  <2> QED
    BY <1>2, <1>3, <2>1, FS_Subset
<1>6. m \in Nat /\ Cardinality(M) = m + 1
  BY <1>4, <1>5, FS_CardinalityType, FS_AddElement
<1>7. \A i \in K : Rank(M, i) = Rank(K, i)
  <2> SUFFICES ASSUME NEW i \in K PROVE {j \in M : j <= i} = {j \in K : j <= i}
    BY DEF Rank
  <2>1. ~(n + 1 <= i)
    BY <1>1, <1>3
  <2> QED
    BY <1>4, <2>1
<1>8. Rank(M, n + 1) = m + 1
  <2>1. {j \in M : j <= n + 1} = M
    BY <1>1, <1>3
  <2> QED
    BY <1>6, <2>1 DEF Rank
<1>9. /\ e \in Seq(T) /\ \A i \in K : e[Rank(K, i)] = q[i]
      /\ \A i \in K : Rank(K, i) \in 1 .. Len(e)
  BY <1>5, KeepAtEntries
<1>10. /\ f \in Seq(T)
       /\ \A k \in 1 .. Len(f) : \E i \in M : Rank(M, i) = k /\ f[k] = r[i]
  BY <1>1, <1>5, KeepAtEntries
<1>11. Len(e) = m /\ Len(f) = m + 1
  <2>1. DOMAIN e = 1 .. m /\ DOMAIN f = 1 .. m + 1
    BY <1>6 DEF KeepAt
  <2>2. Len(e) \in Nat /\ Len(f) \in Nat /\ DOMAIN e = 1 .. Len(e) /\ DOMAIN f = 1 .. Len(f)
    BY <1>9, <1>10
  <2> HIDE DEF e, f
  <2> QED
    BY <1>6, <2>1, <2>2
<1> HIDE DEF e, f, m
<1> DEFINE g == Append(e, x)
<1>12. /\ g \in Seq(T) /\ Len(g) = m + 1 /\ g[m + 1] = x
       /\ \A k \in 1 .. m : g[k] = e[k]
  BY <1>9, <1>11
<1> HIDE DEF g
<1>13. ASSUME NEW k \in 1 .. m + 1 PROVE f[k] = g[k]
  <2>1. PICK i \in M : Rank(M, i) = k /\ f[k] = r[i]
    BY <1>10, <1>11
  <2>2. CASE i \in K
    <3>1. k = Rank(K, i) /\ k \in 1 .. m /\ e[k] = q[i]
      BY <1>7, <1>9, <1>11, <2>1, <2>2
    <3>2. r[i] = q[i]
      BY <1>1, <1>3, <2>2
    <3> QED
      BY <1>12, <2>1, <3>1, <3>2
  <2>3. CASE i = n + 1
    BY <1>1, <1>8, <1>12, <2>1, <2>3
  <2> QED
    BY <1>4, <2>2, <2>3
<1>14. f = g
  BY <1>10, <1>11, <1>12, <1>13
<1> QED
  BY <1>14 DEF Erase, f, g, e, r, K, M

(* Erase is the filter that std::remove is: it obeys the two equations     *)
(* that define one, from the empty queue and along every push_back.        *)
THEOREM EraseFilters ==
    ASSUME NEW T, NEW q \in Seq(T), NEW x \in T, NEW S
    PROVE  /\ Erase(<<>>, S) = <<>>
           /\ Erase(Append(q, x), S) =
                  IF x \in S THEN Erase(q, S) ELSE Append(Erase(q, S), x)
<1>1. Erase(<<>>, S) = <<>>
  <2>1. <<>> \in Seq(T) /\ \A y \in Range(<<>>) : y \notin S
    BY DEF Range
  <2> QED
    BY <2>1, EraseNothing
<1> QED
  BY <1>1, AppendErased, AppendKept
=============================================================================
