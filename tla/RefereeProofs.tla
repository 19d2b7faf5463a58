---------------------------- MODULE RefereeProofs ----------------------------
(***************************************************************************)
(* Proofs about a match, for every number of bots, builtins and games, any *)
(* stray connection, and whatever is disconnected, reaped, shut down or    *)
(* still joining: everyone who was let in is in one place, and the seats   *)
(* of a game are the ones its players asked for.                           *)
(***************************************************************************)
EXTENDS Referee, FiniteSetTheorems, FunctionTheorems, SequenceTheorems,
        WellFoundedInduction, TLAPS

-----------------------------------------------------------------------------
(* Numbers.                                                                  *)

LEMMA LeastNumber ==
  ASSUME NEW S \in SUBSET Nat, S # {}
  PROVE  \E n \in S : \A m \in S : n <= m
<1>1. PICK n \in S : \A m \in Nat : <<m, n>> \in OpToRel(<, Nat) => m \notin S
  BY NatLessThanWellFounded, WFMin
<1>2. \A m \in S : ~ (m < n)
  BY <1>1 DEF OpToRel
<1> QED
  BY <1>2

LEMMA UpTo ==
  ASSUME NEW N \in Nat, NEW P, 0 \in P, \A n \in 1 .. N : n - 1 \in P => n \in P
  PROVE  \A n \in 0 .. N : n \in P
<1> DEFINE Q == {n \in 0 .. N : n \notin P}
<1> SUFFICES ASSUME Q # {} PROVE FALSE
  OBVIOUS
<1>1. PICK n \in Q : \A m \in Q : n <= m
  <2>1. Q \subseteq Nat
    OBVIOUS
  <2> HIDE DEF Q
  <2> QED
    BY <2>1, LeastNumber
<1>2. n # 0 /\ n \in 1 .. N /\ n - 1 \in 0 .. N
  BY <1>1
<1>3. n - 1 \in P
  BY <1>1, <1>2
<1> QED
  BY <1>1, <1>2, <1>3

LEMMA StageByStage ==
  ASSUME NEW N \in Nat, NEW T, NEW G, G[0] \in T[0],
         \A n \in 1 .. N : G[n - 1] \in T[n - 1] => G[n] \in T[n]
  PROVE  \A n \in 0 .. N : G[n] \in T[n]
<1> DEFINE P == {n \in 0 .. N : G[n] \in T[n]}
<1>1. 0 \in P
  OBVIOUS
<1>2. ASSUME NEW n \in 1 .. N, n - 1 \in P PROVE n \in P
  <2>1. n - 1 \in 0 .. N /\ n \in 0 .. N
    OBVIOUS
  <2>2. G[n - 1] \in T[n - 1]
    BY <1>2
  <2> QED
    BY <2>1, <2>2
<1> HIDE DEF P
<1>3. \A n \in 0 .. N : n \in P
  BY <1>1, <1>2, UpTo
<1> QED
  BY <1>3 DEF P

(* A function that is defined from its value for the number before.          *)
Recursive(G, N, s0, F) == G = [n \in 0 .. N |-> IF n = 0 THEN s0 ELSE F[n][G[n - 1]]]

LEMMA RecursionExists ==
  ASSUME NEW N \in Nat, NEW s0, NEW F
  PROVE  \E G : Recursive(G, N, s0, F)
<1> DEFINE P == {n \in 0 .. N : \E G : Recursive(G, n, s0, F)}
<1>1. 0 \in P
  <2>1. Recursive([n \in 0 .. 0 |-> s0], 0, s0, F)
    BY DEF Recursive
  <2> QED
    BY <2>1
<1>2. ASSUME NEW k \in 1 .. N, k - 1 \in P PROVE k \in P
  <2>1. PICK G : Recursive(G, k - 1, s0, F)
    BY <1>2
  <2> DEFINE H == [n \in 0 .. k |-> IF n = k THEN F[k][G[k - 1]] ELSE G[n]]
             E == [n \in 0 .. k |-> IF n = 0 THEN s0 ELSE F[n][H[n - 1]]]
  <2>2. ASSUME NEW n \in 0 .. k PROVE H[n] = E[n]
    <3>1. CASE n = 0
      <4>1. 0 \in 0 .. k - 1 /\ n # k
        BY <3>1
      <4>2. G[0] = s0
        BY <2>1, <4>1 DEF Recursive
      <4> QED
        BY <3>1, <4>1, <4>2
    <3>2. CASE n = k
      <4>1. k - 1 \in 0 .. k /\ k - 1 # k /\ k # 0
        OBVIOUS
      <4> QED
        BY <3>2, <4>1
    <3>3. CASE n # 0 /\ n # k
      <4>1. n \in 0 .. k - 1 /\ n - 1 \in 0 .. k /\ n - 1 # k
        BY <3>3
      <4>2. G[n] = F[n][G[n - 1]]
        BY <2>1, <3>3, <4>1 DEF Recursive
      <4> QED
        BY <3>3, <4>1, <4>2
    <3> QED
      BY <3>1, <3>2, <3>3
  <2>3. H = E
    BY <2>2
  <2>4. Recursive(H, k, s0, F)
    BY <2>3 DEF Recursive
  <2> QED
    BY <2>4
<1> HIDE DEF P
<1>3. N \in P
  BY <1>1, <1>2, UpTo
<1> QED
  BY <1>3 DEF P

-----------------------------------------------------------------------------
(* Sequences.                                                                *)

LEMMA FunctionIsASeq ==
  ASSUME NEW A, NEW k \in Nat, NEW f \in [1 .. k -> A]
  PROVE  f \in Seq(A) /\ Len(f) = k
BY SeqDef, LenProperties

LEMMA AppendIsSet ==
  ASSUME NEW S, NEW q \in Seq(S), NEW e \in S
  PROVE  LET r == Append(q, e)
         IN  /\ r \in Seq(S) /\ Len(r) = Len(q) + 1 /\ Range(r) = Range(q) \cup {e}
             /\ DOMAIN q = 1 .. Len(q) /\ DOMAIN r = 1 .. Len(q) + 1
             /\ \A i \in 1 .. Len(q) : r[i] = q[i]
             /\ r[Len(q) + 1] = e
             /\ IsInjective(q) /\ e \notin Range(q) => IsInjective(r)
<1> DEFINE r == Append(q, e)
           n == Len(q)
<1>1. /\ n \in Nat /\ DOMAIN q = 1 .. n /\ r \in Seq(S) /\ DOMAIN r = 1 .. n + 1
      /\ Len(r) = n + 1
      /\ \A i \in 1 .. n : r[i] = q[i]
      /\ r[n + 1] = e
  BY AppendProperties, LenProperties
<1> HIDE DEF r, n
<1>2. \A i \in 1 .. n + 1 : i \in 1 .. n \/ i = n + 1
  BY <1>1
<1>3. Range(r) = Range(q) \cup {e}
  BY <1>1, <1>2 DEF Range
<1>4. IsInjective(q) /\ e \notin Range(q) => IsInjective(r)
  BY <1>1, <1>2 DEF IsInjective, Range
<1> QED
  BY <1>1, <1>3, <1>4 DEF r, n

LEMMA OneToN ==
  ASSUME NEW n \in Nat
  PROVE  IsFiniteSet(1 .. n) /\ Cardinality(1 .. n) = n
<1>1. IsFiniteSet(1 .. n) /\ Cardinality(1 .. n) = IF 1 > n THEN 0 ELSE n - 1 + 1
  BY FS_Interval
<1>2. (IF 1 > n THEN 0 ELSE n - 1 + 1) = n
  OBVIOUS
<1> QED
  BY <1>1, <1>2

LEMMA ElementsOfSeq ==
  ASSUME NEW S, NEW q \in Seq(S)
  PROVE  /\ Len(q) \in Nat /\ DOMAIN q = 1 .. Len(q) /\ \A i \in 1 .. Len(q) : q[i] \in S
         /\ Range(q) \subseteq S
         /\ IsFiniteSet(Range(q)) /\ Cardinality(Range(q)) <= Len(q)
         /\ IsInjective(q) => Cardinality(Range(q)) = Len(q)
<1>1. Len(q) \in Nat /\ DOMAIN q = 1 .. Len(q) /\ \A i \in 1 .. Len(q) : q[i] \in S
  BY LenProperties, ElementOfSeq
<1>2. q \in Surjection(1 .. Len(q), Range(q))
  <2>1. q = [i \in 1 .. Len(q) |-> q[i]]
    BY <1>1, SeqDef
  <2>2. q \in [1 .. Len(q) -> Range(q)]
    BY <1>1, <2>1 DEF Range
  <2> QED
    BY <1>1, <2>2 DEF Surjection, Range
<1>3. IsFiniteSet(1 .. Len(q)) /\ Cardinality(1 .. Len(q)) = Len(q)
  BY <1>1, OneToN
<1>4. /\ IsFiniteSet(Range(q)) /\ Cardinality(Range(q)) <= Len(q)
      /\ Cardinality(Range(q)) = Len(q) <=> q \in Injection(1 .. Len(q), Range(q))
  BY <1>2, <1>3, FS_Surjection
<1>5. IsInjective(q) => q \in Injection(1 .. Len(q), Range(q))
  BY <1>1, <1>2 DEF IsInjective, Injection, Surjection
<1>6. Range(q) \subseteq S
  BY <1>1 DEF Range
<1>7. IsInjective(q) => Cardinality(Range(q)) = Len(q)
  BY <1>4, <1>5, Zenon
<1>8. IsFiniteSet(Range(q)) /\ Cardinality(Range(q)) <= Len(q)
  BY <1>4
<1> QED
  BY <1>1, <1>6, <1>7, <1>8, Zenon

(* Those(s, S) lists what s and S have in common.                            *)
LEMMA ThoseAre ==
  ASSUME NEW A, NEW s \in Seq(A), NEW S
  PROVE  /\ Those(s, S) \in Seq(A) /\ Range(Those(s, S)) = Range(s) \cap S
         /\ IsInjective(s) => IsInjective(Those(s, S))
<1> DEFINE N == Len(s)
           T == [n \in 0 .. N |-> {t \in Seq(A) : /\ Range(t) = {s[i] : i \in 1 .. n} \cap S
                                                  /\ IsInjective(s) => IsInjective(t)}]
           K == [n \in 1 .. N |-> [t \in Seq(A) |-> IF s[n] \in S THEN Append(t, s[n]) ELSE t]]
           Body(f) == [n \in 0 .. N |->
                         IF n = 0 THEN <<>>
                         ELSE IF s[n] \in S THEN Append(f[n - 1], s[n]) ELSE f[n - 1]]
           kept == CHOOSE f : f = Body(f)
<1>1. N \in Nat /\ DOMAIN s = 1 .. N /\ \A i \in 1 .. N : s[i] \in A
  BY LenProperties, ElementOfSeq
<1>2. <<>> \in T[0]
  <2>1. <<>> \in Seq(A) /\ Range(<<>>) = {} /\ IsInjective(<<>>)
    BY EmptySeq DEF Range, IsInjective
  <2>2. {s[i] : i \in 1 .. 0} = {} /\ 0 \in 0 .. N
    BY <1>1
  <2> QED
    BY <2>1, <2>2
<1>3. ASSUME NEW n \in 1 .. N, NEW t \in T[n - 1]
      PROVE  (IF s[n] \in S THEN Append(t, s[n]) ELSE t) \in T[n]
  <2>1. n - 1 \in 0 .. N /\ n \in 0 .. N /\ \A i \in 1 .. n : i \in 1 .. n - 1 \/ i = n
    BY <1>1
  <2>2. /\ t \in Seq(A) /\ Range(t) = {s[i] : i \in 1 .. n - 1} \cap S
        /\ IsInjective(s) => IsInjective(t)
    BY <1>3, <2>1
  <2>3. {s[i] : i \in 1 .. n} = {s[i] : i \in 1 .. n - 1} \cup {s[n]}
    BY <1>1, <2>1
  <2>4. IsInjective(s) => s[n] \notin {s[i] : i \in 1 .. n - 1}
    BY <1>1 DEF IsInjective
  <2>5. CASE s[n] \in S
    <3>1. /\ Append(t, s[n]) \in Seq(A) /\ Range(Append(t, s[n])) = Range(t) \cup {s[n]}
          /\ IsInjective(t) /\ s[n] \notin Range(t) => IsInjective(Append(t, s[n]))
      BY <1>1, <2>2, AppendIsSet
    <3>2. Range(Append(t, s[n])) = {s[i] : i \in 1 .. n} \cap S
      BY <2>2, <2>3, <2>5, <3>1
    <3>3. IsInjective(s) => IsInjective(Append(t, s[n]))
      BY <2>2, <2>4, <3>1
    <3> QED
      BY <2>1, <2>5, <3>1, <3>2, <3>3
  <2>6. CASE s[n] \notin S
    BY <2>1, <2>2, <2>3, <2>6
  <2> QED
    BY <2>5, <2>6
<1>4. \A n \in 0 .. N : \A t \in T[n] : t \in Seq(A)
  OBVIOUS
<1>5. /\ T[N] \subseteq {t \in Seq(A) : /\ Range(t) = Range(s) \cap S
                                        /\ IsInjective(s) => IsInjective(t)}
  <2>1. {s[i] : i \in 1 .. N} = Range(s)
    BY <1>1 DEF Range
  <2>2. N \in 0 .. N
    BY <1>1
  <2> HIDE DEF N
  <2> QED
    BY <2>1, <2>2
<1>6. \A n \in 1 .. N : n - 1 \in 0 .. N /\ n \in 0 .. N /\ n # 0
  BY <1>1
<1>7. \A n \in 1 .. N, t \in Seq(A) : K[n][t] = IF s[n] \in S THEN Append(t, s[n]) ELSE t
  OBVIOUS
<1> HIDE DEF T, K
<1>8. PICK G : Recursive(G, N, <<>>, K)
  BY <1>1, RecursionExists
<1>9. G[0] = <<>> /\ \A n \in 1 .. N : G[n] = K[n][G[n - 1]]
  <2>1. 0 \in 0 .. N
    BY <1>1
  <2> QED
    BY <1>6, <1>8, <2>1, Zenon DEF Recursive
<1>10. \A n \in 1 .. N : G[n - 1] \in T[n - 1] => G[n] \in T[n]
  <2> SUFFICES ASSUME NEW n \in 1 .. N, G[n - 1] \in T[n - 1] PROVE G[n] \in T[n]
    OBVIOUS
  <2>1. G[n - 1] \in Seq(A)
    BY <1>4, <1>6
  <2>2. G[n] = IF s[n] \in S THEN Append(G[n - 1], s[n]) ELSE G[n - 1]
    BY <1>7, <1>9, <2>1
  <2> QED
    BY <1>3, <2>2
<1>11. \A n \in 0 .. N : G[n] \in T[n]
  BY <1>1, <1>2, <1>9, <1>10, StageByStage
<1>12. G = Body(G)
  <2>1. G = [n \in 0 .. N |-> G[n]]
    BY <1>8 DEF Recursive
  <2>2. ASSUME NEW n \in 0 .. N PROVE G[n] = Body(G)[n]
    <3>1. CASE n = 0
      BY <1>9, <3>1
    <3>2. CASE n # 0
      <4>1. n \in 1 .. N
        BY <1>1, <3>2
      <4>2. G[n - 1] \in Seq(A)
        BY <1>4, <1>6, <1>11, <4>1
      <4>3. G[n] = IF s[n] \in S THEN Append(G[n - 1], s[n]) ELSE G[n - 1]
        <5>1. G[n] = K[n][G[n - 1]]
          BY <1>9, <4>1, Zenon
        <5> QED
          BY <1>7, <4>1, <4>2, <5>1, Zenon
      <4> QED
        BY <3>2, <4>3
    <3> QED
      BY <3>1, <3>2
  <2> QED
    BY <2>1, <2>2
<1>13. kept = Body(kept)
  BY <1>12
<1>14. Those(s, S) = kept[N]
  BY DEF Those
<1> HIDE DEF kept
<1>15. kept[0] = <<>>
  BY <1>1, <1>13
<1>16. \A n \in 1 .. N :
         kept[n] = IF s[n] \in S THEN Append(kept[n - 1], s[n]) ELSE kept[n - 1]
  BY <1>6, <1>13
<1> HIDE DEF Body
<1>17. \A n \in 1 .. N : kept[n - 1] \in T[n - 1] => kept[n] \in T[n]
  BY <1>3, <1>16
<1>18. \A n \in 0 .. N : kept[n] \in T[n]
  BY <1>1, <1>2, <1>15, <1>17, StageByStage
<1>19. kept[N] \in T[N]
  BY <1>1, <1>18
<1> HIDE DEF N
<1> QED
  BY <1>5, <1>14, <1>19

-----------------------------------------------------------------------------
(* Ranks.  In a finite set with a strict linear order there is, for every    *)
(* number, one element with that many before it.                             *)

LinearOn(R, S) ==
  /\ \A x \in S : <<x, x>> \notin R
  /\ \A x, y, z \in S : <<x, y>> \in R /\ <<y, z>> \in R => <<x, z>> \in R
  /\ \A x, y \in S : x # y => <<x, y>> \in R \/ <<y, x>> \in R
Rank(R, S) == [x \in S |-> Cardinality({y \in S : <<y, x>> \in R})]

LEMMA RankIsABijection ==
  ASSUME NEW S, NEW R, IsFiniteSet(S), LinearOn(R, S)
  PROVE  /\ Rank(R, S) \in Bijection(S, 0 .. Cardinality(S) - 1)
         /\ \A x, y \in S : <<x, y>> \in R => Rank(R, S)[x] < Rank(R, S)[y]
<1> DEFINE Ahead(x) == {y \in S : <<y, x>> \in R}
           n == Cardinality(S)
           rank == Rank(R, S)
<1>1. n \in Nat
  BY FS_CardinalityType
<1>2. \A x \in S : IsFiniteSet(Ahead(x)) /\ Cardinality(Ahead(x)) \in Nat
  BY FS_Subset, FS_CardinalityType
<1>3. \A x \in S : rank[x] = Cardinality(Ahead(x))
  BY DEF Rank
<1>4. ASSUME NEW x \in S PROVE rank[x] \in 0 .. n - 1
  <2>1. Ahead(x) \in SUBSET S /\ x \notin Ahead(x)
    BY DEF LinearOn
  <2>2. Cardinality(Ahead(x)) <= n /\ Cardinality(Ahead(x)) # n
    BY <2>1, FS_Subset
  <2> QED
    BY <1>1, <1>2, <1>3, <2>2
<1>5. ASSUME NEW x \in S, NEW y \in S, <<x, y>> \in R PROVE rank[x] < rank[y]
  <2>1. Ahead(x) \in SUBSET Ahead(y) /\ x \in Ahead(y) /\ x \notin Ahead(x)
    BY <1>5 DEF LinearOn
  <2>2. Cardinality(Ahead(x)) <= Cardinality(Ahead(y))
        /\ Cardinality(Ahead(x)) # Cardinality(Ahead(y))
    BY <1>2, <2>1, FS_Subset
  <2>3. /\ rank[x] = Cardinality(Ahead(x)) /\ Cardinality(Ahead(x)) \in Nat
        /\ rank[y] = Cardinality(Ahead(y)) /\ Cardinality(Ahead(y)) \in Nat
    BY <1>2, <1>3
  <2> HIDE DEF Ahead, rank
  <2> QED
    BY <2>2, <2>3
<1>6. rank \in Injection(S, 0 .. n - 1)
  <2>1. rank \in [S -> 0 .. n - 1]
    BY <1>4 DEF Rank
  <2>2. ASSUME NEW x \in S, NEW y \in S, rank[x] = rank[y] PROVE x = y
    <3>1. rank[x] \in Int
      BY <1>1, <1>4
    <3>2. ~(rank[x] < rank[y]) /\ ~(rank[y] < rank[x])
      BY <2>2, <3>1
    <3> HIDE DEF rank
    <3> QED
      BY <1>5, <3>2 DEF LinearOn
  <2> QED
    BY <2>1, <2>2, Fun_IsInj
<1>7. IsFiniteSet(0 .. n - 1) /\ Cardinality(0 .. n - 1) = n
  <2>1. /\ IsFiniteSet(0 .. n - 1)
        /\ Cardinality(0 .. n - 1) = IF 0 > n - 1 THEN 0 ELSE (n - 1) - 0 + 1
    BY <1>1, FS_Interval
  <2> QED
    BY <1>1, <2>1
<1>8. rank \in Surjection(S, 0 .. n - 1)
  BY <1>6, <1>7, FS_Injection
<1> QED
  BY <1>5, <1>6, <1>8 DEF Bijection

-----------------------------------------------------------------------------
(* Orders of a sequence.                                                     *)

LEMMA PlacesOf ==
  ASSUME NEW n \in Nat
  PROVE  /\ IsFiniteSet(1 .. n)
         /\ Injection(1 .. n, 1 .. n) = Bijection(1 .. n, 1 .. n)
<1>1. IsFiniteSet(1 .. n)
  BY OneToN
<1>2. ASSUME NEW p \in Injection(1 .. n, 1 .. n)
      PROVE  p \in Surjection(1 .. n, 1 .. n)
  BY <1>1, FS_Injection
<1> QED
  BY <1>1, <1>2 DEF Bijection

LEMMA OrdersAre ==
  ASSUME NEW A, NEW q \in Seq(A), NEW r
  PROVE  r \in Orders(q) <=>
           \E p \in Bijection(1 .. Len(q), 1 .. Len(q)) :
             r = [i \in 1 .. Len(q) |-> q[p[i]]]
<1>1. DOMAIN q = 1 .. Len(q) /\ Len(q) \in Nat
  BY LenProperties
<1>2. Injection(1 .. Len(q), 1 .. Len(q)) = Bijection(1 .. Len(q), 1 .. Len(q))
  BY <1>1, PlacesOf
<1>3. Orders(q) = {[i \in 1 .. Len(q) |-> q[p[i]]] : p \in Injection(1 .. Len(q), 1 .. Len(q))}
  BY <1>1 DEF Orders
<1> QED
  BY <1>2, <1>3

LEMMA OrderIsASeq ==
  ASSUME NEW A, NEW q \in Seq(A), NEW r \in Orders(q)
  PROVE  /\ r \in Seq(A) /\ Len(r) = Len(q) /\ Range(r) = Range(q)
         /\ DOMAIN r = 1 .. Len(q) /\ Len(q) \in Nat
<1> DEFINE n == Len(q)
<1>1. DOMAIN q = 1 .. n /\ n \in Nat /\ \A i \in 1 .. n : q[i] \in A
  BY LenProperties, ElementOfSeq
<1>2. PICK p \in Bijection(1 .. n, 1 .. n) : r = [i \in 1 .. n |-> q[p[i]]]
  BY OrdersAre
<1> HIDE DEF n
<1>3. /\ p \in [1 .. n -> 1 .. n]
      /\ \A j \in 1 .. n : \E i \in 1 .. n : p[i] = j
  BY DEF Bijection, Injection, Surjection, IsInjective
<1>4. r \in [1 .. n -> A]
  BY <1>1, <1>2, <1>3
<1>5. r \in Seq(A) /\ Len(r) = n
  BY <1>1, <1>4, SeqDef, LenProperties
<1>6. Range(r) = Range(q)
  <2>1. ASSUME NEW i \in 1 .. n PROVE r[i] \in Range(q)
    BY <1>1, <1>2, <1>3 DEF Range
  <2>2. ASSUME NEW j \in 1 .. n PROVE q[j] \in Range(r)
    BY <1>1, <1>2, <1>3, <1>4 DEF Range
  <2> QED
    BY <1>1, <1>4, <2>1, <2>2 DEF Range
<1> QED
  BY <1>1, <1>4, <1>5, <1>6 DEF n

LEMMA OrderOfItself ==
  ASSUME NEW A, NEW q \in Seq(A)
  PROVE  q \in Orders(q)
<1> DEFINE n == Len(q)
           p == [i \in 1 .. n |-> i]
<1>1. p \in Bijection(1 .. n, 1 .. n)
  BY Fun_IsBij
<1>2. DOMAIN q = 1 .. n
  BY LenProperties
<1>3. q = [i \in 1 .. n |-> q[p[i]]]
  <2>1. q = [i \in 1 .. n |-> q[i]]
    BY <1>2, SeqDef
  <2> QED
    BY <2>1
<1> QED
  BY <1>1, <1>3, OrdersAre

LEMMA OrderOfOrder ==
  ASSUME NEW A, NEW q \in Seq(A), NEW r \in Orders(q), NEW s \in Orders(r)
  PROVE  s \in Orders(q)
<1> DEFINE n == Len(q)
<1>1. r \in Seq(A) /\ Len(r) = n
  BY OrderIsASeq
<1>2. PICK f \in Bijection(1 .. n, 1 .. n) : r = [i \in 1 .. n |-> q[f[i]]]
  BY OrdersAre
<1>3. PICK g \in Bijection(1 .. n, 1 .. n) : s = [i \in 1 .. n |-> r[g[i]]]
  BY <1>1, OrdersAre
<1> DEFINE h == [i \in 1 .. n |-> f[g[i]]]
<1>4. h \in Bijection(1 .. n, 1 .. n)
  BY Fun_BijTransitive
<1>5. g \in [1 .. n -> 1 .. n]
  BY Fun_BijectionProperties
<1>6. s = [i \in 1 .. n |-> q[h[i]]]
  BY <1>2, <1>3, <1>5
<1> HIDE DEF h
<1> QED
  BY <1>4, <1>6, OrdersAre

LEMMA OrderBack ==
  ASSUME NEW A, NEW q \in Seq(A), NEW r \in Orders(q)
  PROVE  q \in Orders(r)
<1> DEFINE n == Len(q)
<1>1. r \in Seq(A) /\ Len(r) = n
  BY OrderIsASeq
<1>2. PICK f \in Bijection(1 .. n, 1 .. n) : r = [i \in 1 .. n |-> q[f[i]]]
  BY OrdersAre
<1>3. /\ f \in [1 .. n -> 1 .. n]
      /\ \A a, b \in 1 .. n : f[a] = f[b] => a = b
      /\ \A j \in 1 .. n : \E i \in 1 .. n : f[i] = j
  BY DEF Bijection, Injection, Surjection, IsInjective
<1> DEFINE g == [j \in 1 .. n |-> CHOOSE i \in 1 .. n : f[i] = j]
<1>4. \A j \in 1 .. n : g[j] \in 1 .. n /\ f[g[j]] = j
  BY <1>3
<1>5. \A i \in 1 .. n : g[f[i]] = i
  BY <1>3, <1>4
<1>6. g \in Bijection(1 .. n, 1 .. n)
  <2>1. g \in [1 .. n -> 1 .. n]
    BY <1>4
  <2>2. \A a, b \in 1 .. n : g[a] = g[b] => a = b
    BY <1>4
  <2>3. \A j \in 1 .. n : \E i \in 1 .. n : g[i] = j
    BY <1>3, <1>5
  <2> HIDE DEF g
  <2> QED
    BY <2>1, <2>2, <2>3, Fun_IsBij
<1>7. q = [i \in 1 .. n |-> r[g[i]]]
  <2>1. q = [i \in 1 .. n |-> q[i]]
    BY LenProperties, SeqDef
  <2>2. \A i \in 1 .. n : r[g[i]] = q[i]
    BY <1>2, <1>4
  <2> HIDE DEF g
  <2> QED
    BY <2>1, <2>2
<1> HIDE DEF g
<1> QED
  BY <1>1, <1>6, <1>7, OrdersAre

LEMMA SameOrders ==
  ASSUME NEW A, NEW q \in Seq(A), NEW r \in Orders(q)
  PROVE  Orders(r) = Orders(q)
<1>1. r \in Seq(A) /\ q \in Orders(r)
  BY OrderIsASeq, OrderBack
<1>2. ASSUME NEW s \in Orders(r) PROVE s \in Orders(q)
  BY OrderOfOrder
<1>3. ASSUME NEW s \in Orders(q) PROVE s \in Orders(r)
  BY <1>1, OrderOfOrder
<1> QED
  BY <1>2, <1>3

LEMMA OrdersAreFinite ==
  ASSUME NEW A, NEW q \in Seq(A)
  PROVE  IsFiniteSet(Orders(q)) /\ Cardinality(Orders(q)) \in Nat \ {0}
<1> DEFINE n == Len(q)
           Graph(r) == {<<i, r[i]>> : i \in 1 .. n}
           G == [r \in Orders(q) |-> Graph(r)]
           all == SUBSET ((1 .. n) \X Range(q))
<1>1. DOMAIN q = 1 .. n /\ n \in Nat /\ IsFiniteSet(Range(q))
  BY ElementsOfSeq
<1>2. IsFiniteSet(all)
  BY <1>1, OneToN, FS_Product, FS_SUBSET
<1>3. ASSUME NEW r \in Orders(q) PROVE r = [i \in 1 .. n |-> r[i]] /\ Graph(r) \in all
  <2>1. r \in Seq(A) /\ DOMAIN r = 1 .. n /\ Range(r) = Range(q)
    BY OrderIsASeq
  <2>2. r = [i \in 1 .. n |-> r[i]]
    BY <2>1, SeqDef
  <2>3. \A i \in 1 .. n : r[i] \in Range(q)
    BY <2>1 DEF Range
  <2> QED
    BY <2>2, <2>3
<1>4. ASSUME NEW r \in Orders(q), NEW s \in Orders(q), G[r] = G[s] PROVE r = s
  <2>1. \A i \in 1 .. n : <<i, r[i]>> \in Graph(s)
    BY <1>4
  <2>2. \A i \in 1 .. n : r[i] = s[i]
    BY <2>1
  <2> QED
    BY <1>3, <2>2
<1>5. G \in Injection(Orders(q), all)
  <2>1. G \in [Orders(q) -> all]
    BY <1>3
  <2> QED
    BY <1>4, <2>1, Fun_IsInj
<1>6. IsFiniteSet(Orders(q))
  BY <1>2, <1>5, FS_Injection
<1>7. q \in Orders(q)
  BY OrderOfItself
<1> QED
  BY <1>6, <1>7, FS_CardinalityType, FS_EmptySet

LEMMA OrderIfPlaced ==
  ASSUME NEW A, NEW q \in Seq(A), NEW r \in Seq(A), NEW n, n = Len(q), n = Len(r),
         NEW p \in [1 .. n -> 1 .. n], \A i, j \in 1 .. n : p[i] = p[j] => i = j,
         \A i \in 1 .. n : r[i] = q[p[i]]
  PROVE  r \in Orders(q)
<1>1. n \in Nat
  BY LenProperties
<1>2. p \in Bijection(1 .. n, 1 .. n)
  BY <1>1, PlacesOf, Fun_IsInj
<1>3. r = [i \in 1 .. n |-> r[i]]
  BY LenProperties, SeqDef
<1>4. r = [i \in 1 .. n |-> q[p[i]]]
  BY <1>3
<1> QED
  BY <1>2, <1>4, OrdersAre

LEMMA Swapped ==
  ASSUME NEW A, NEW a \in Seq(A), NEW b \in Seq(A)
  PROVE  b \o a \in Orders(a \o b)
<1> DEFINE m == Len(a)
           k == Len(b)
           p == [i \in 1 .. m + k |-> IF i <= k THEN m + i ELSE i - k]
<1>1. m \in Nat /\ k \in Nat
  BY LenProperties
<1>2. /\ a \o b \in Seq(A) /\ Len(a \o b) = m + k
      /\ \A i \in 1 .. m + k : (a \o b)[i] = IF i <= m THEN a[i] ELSE b[i - m]
  BY ConcatProperties
<1>0. k + m = m + k
  BY <1>1
<1>3. /\ b \o a \in Seq(A) /\ Len(b \o a) = m + k
      /\ \A i \in 1 .. m + k : (b \o a)[i] = IF i <= k THEN b[i] ELSE a[i - k]
  <2>1. /\ b \o a \in Seq(A) /\ Len(b \o a) = k + m
        /\ \A i \in 1 .. k + m : (b \o a)[i] = IF i <= k THEN b[i] ELSE a[i - k]
    BY ConcatProperties
  <2> HIDE DEF m, k
  <2> QED
    BY <1>0, <2>1
<1> HIDE DEF m, k
<1>4. p \in [1 .. m + k -> 1 .. m + k]
  BY <1>1
<1>5. \A i, j \in 1 .. m + k : p[i] = p[j] => i = j
  BY <1>1
<1>6. ASSUME NEW i \in 1 .. m + k PROVE (b \o a)[i] = (a \o b)[p[i]]
  <2>1. CASE i <= k
    <3>1. p[i] = m + i /\ p[i] \in 1 .. m + k /\ ~(p[i] <= m) /\ p[i] - m = i
      BY <1>1, <2>1
    <3> HIDE DEF p
    <3> QED
      BY <1>2, <1>3, <1>4, <2>1, <3>1
  <2>2. CASE ~(i <= k)
    <3>1. p[i] = i - k /\ p[i] \in 1 .. m + k /\ p[i] <= m
      BY <1>1, <2>2
    <3> HIDE DEF p
    <3> QED
      BY <1>2, <1>3, <1>4, <2>2, <3>1
  <2> QED
    BY <2>1, <2>2
<1> DEFINE ab == a \o b
           ba == b \o a
           n == m + k
<1>7. /\ ab \in Seq(A) /\ ba \in Seq(A) /\ n = Len(ab) /\ n = Len(ba)
      /\ \A i \in 1 .. n : ba[i] = ab[p[i]]
      /\ p \in [1 .. n -> 1 .. n] /\ \A i, j \in 1 .. n : p[i] = p[j] => i = j
  BY <1>2, <1>3, <1>4, <1>5, <1>6
<1>8. ba \in Orders(ab)
  <2> HIDE DEF p, ab, ba, n
  <2> QED
    BY <1>7, OrderIfPlaced
<1> QED
  BY <1>8

LEMMA OrderBehind ==
  ASSUME NEW A, NEW x \in Seq(A), NEW a \in Seq(A), NEW r \in Orders(a)
  PROVE  x \o r \in Orders(x \o a)
<1> DEFINE m == Len(x)
           k == Len(a)
<1>1. m \in Nat /\ k \in Nat /\ r \in Seq(A) /\ Len(r) = k
  BY LenProperties, OrderIsASeq
<1>2. /\ x \o a \in Seq(A) /\ Len(x \o a) = m + k
      /\ \A i \in 1 .. m + k : (x \o a)[i] = IF i <= m THEN x[i] ELSE a[i - m]
  BY ConcatProperties
<1>3. /\ x \o r \in Seq(A) /\ Len(x \o r) = m + k
      /\ \A i \in 1 .. m + k : (x \o r)[i] = IF i <= m THEN x[i] ELSE r[i - m]
  <2>1. /\ x \o r \in Seq(A) /\ Len(x \o r) = m + Len(r)
        /\ \A i \in 1 .. m + Len(r) : (x \o r)[i] = IF i <= m THEN x[i] ELSE r[i - m]
    BY <1>1, ConcatProperties
  <2> HIDE DEF m, k
  <2> QED
    BY <1>1, <2>1
<1>4. PICK f \in Bijection(1 .. k, 1 .. k) : r = [i \in 1 .. k |-> a[f[i]]]
  BY OrdersAre
<1>5. f \in [1 .. k -> 1 .. k] /\ \A i, j \in 1 .. k : f[i] = f[j] => i = j
  BY DEF Bijection, Injection, IsInjective
<1> DEFINE p == [i \in 1 .. m + k |-> IF i <= m THEN i ELSE m + f[i - m]]
<1> HIDE DEF m, k
<1>6. \A i \in 1 .. m + k : ~(i <= m) => i - m \in 1 .. k /\ f[i - m] \in 1 .. k
  BY <1>1, <1>5
<1>7. ASSUME NEW i \in 1 .. m + k
      PROVE  p[i] \in 1 .. m + k /\ (p[i] <= m <=> i <= m)
  BY <1>1, <1>6
<1>8. ASSUME NEW i \in 1 .. m + k, NEW j \in 1 .. m + k, p[i] = p[j] PROVE i = j
  <2>1. CASE i <= m
    BY <1>1, <1>7, <1>8, <2>1
  <2>2. CASE ~(i <= m)
    <3>1. ~(j <= m)
      BY <1>7, <1>8, <2>2
    <3>2. f[i - m] = f[j - m]
      <4>1. p[i] = m + f[i - m] /\ p[j] = m + f[j - m]
        BY <2>2, <3>1
      <4>2. f[i - m] \in Int /\ f[j - m] \in Int
        BY <1>1, <1>6, <2>2, <3>1
      <4>3. \A u, v \in Int : m + u = m + v => u = v
        BY <1>1
      <4> HIDE DEF p
      <4> QED
        BY <1>8, <4>1, <4>2, <4>3, Zenon
    <3>3. i - m = j - m
      BY <1>5, <1>6, <2>2, <3>1, <3>2
    <3> QED
      BY <1>1, <3>3
  <2> QED
    BY <2>1, <2>2
<1>9. ASSUME NEW i \in 1 .. m + k PROVE (x \o r)[i] = (x \o a)[p[i]]
  <2>1. CASE i <= m
    BY <1>2, <1>3, <1>7, <2>1
  <2>2. CASE ~(i <= m)
    <3>1. p[i] = m + f[i - m] /\ p[i] \in 1 .. m + k /\ ~(p[i] <= m)
      BY <1>7, <2>2
    <3>2. p[i] - m = f[i - m]
      BY <1>1, <1>6, <2>2, <3>1
    <3>3. r[i - m] = a[f[i - m]]
      BY <1>4, <1>6, <2>2
    <3> HIDE DEF p
    <3> QED
      BY <1>2, <1>3, <2>2, <3>1, <3>2, <3>3
  <2> QED
    BY <2>1, <2>2
<1>10. p \in [1 .. m + k -> 1 .. m + k]
  BY <1>7
<1> HIDE DEF p
<1> QED
  BY <1>2, <1>3, <1>8, <1>9, <1>10, OrderIfPlaced

(* There is a sorted order, which ByName chooses.                            *)
LEMMA ByNameIsAnOrder ==
  ASSUME NEW q \in Seq(Nat)
  PROVE  ByName(q) \in Orders(q)
<1> DEFINE n == Len(q)
           R == {e \in (1 .. n) \X (1 .. n) :
                   q[e[1]] < q[e[2]] \/ (q[e[1]] = q[e[2]] /\ e[1] < e[2])}
           rank == Rank(R, 1 .. n)
<1>1. n \in Nat /\ DOMAIN q = 1 .. n /\ \A i \in 1 .. n : q[i] \in Nat
  BY ElementsOfSeq
<1>2. IsFiniteSet(1 .. n) /\ Cardinality(1 .. n) = n
  BY <1>1, OneToN
<1>3. \A i, j \in 1 .. n : <<i, j>> \in R <=> q[i] < q[j] \/ (q[i] = q[j] /\ i < j)
  OBVIOUS
<1> HIDE DEF n, R
<1>4. LinearOn(R, 1 .. n)
  <2>1. \A i \in 1 .. n : <<i, i>> \notin R
    BY <1>1, <1>3
  <2>2. \A i, j, k \in 1 .. n : <<i, j>> \in R /\ <<j, k>> \in R => <<i, k>> \in R
    BY <1>1, <1>3
  <2>3. \A i, j \in 1 .. n : i # j => <<i, j>> \in R \/ <<j, i>> \in R
    BY <1>1, <1>3
  <2> QED
    BY <2>1, <2>2, <2>3 DEF LinearOn
<1>5. /\ rank \in Bijection(1 .. n, 0 .. n - 1)
      /\ \A i, j \in 1 .. n : <<i, j>> \in R => rank[i] < rank[j]
  BY <1>2, <1>4, RankIsABijection
<1>6. /\ rank \in [1 .. n -> 0 .. n - 1]
      /\ \A k \in 0 .. n - 1 : \E i \in 1 .. n : rank[i] = k
  BY <1>5 DEF Bijection, Injection, Surjection
<1> HIDE DEF rank
<1> DEFINE p == [k \in 1 .. n |-> CHOOSE i \in 1 .. n : rank[i] = k - 1]
           r == [k \in 1 .. n |-> q[p[k]]]
<1>7. \A k \in 1 .. n : p[k] \in 1 .. n /\ rank[p[k]] = k - 1
  <2>1. \A k \in 1 .. n : k - 1 \in 0 .. n - 1
    BY <1>1
  <2> QED
    BY <1>6, <2>1
<1>8. p \in [1 .. n -> 1 .. n] /\ \A a, b \in 1 .. n : p[a] = p[b] => a = b
  <2>1. p \in [1 .. n -> 1 .. n]
    BY <1>7
  <2>2. \A a, b \in 1 .. n : a - 1 = b - 1 => a = b
    BY <1>1
  <2> HIDE DEF p
  <2> QED
    BY <1>7, <2>1, <2>2
<1>9. \A k \in 1 .. n : r[k] = q[p[k]] /\ r[k] \in Nat
  BY <1>1, <1>7
<1>10. r \in Seq(Nat) /\ Len(r) = n
  <2>1. r \in [1 .. n -> Nat]
    BY <1>1, <1>8
  <2> HIDE DEF r
  <2> QED
    BY <1>1, <2>1, SeqDef, LenProperties
<1>11. r \in Orders(q)
  <2>1. n = Len(q) /\ n = Len(r) /\ r \in Seq(Nat)
    BY <1>10 DEF n
  <2>2. \A i \in 1 .. n : r[i] = q[p[i]]
    BY <1>9
  <2> HIDE DEF p, r
  <2> QED
    BY <1>8, <2>1, <2>2, OrderIfPlaced
<1>12. ASSUME NEW i \in DOMAIN r, NEW j \in DOMAIN r, i < j PROVE r[i] <= r[j]
  <2>0. i \in 1 .. n /\ j \in 1 .. n
    OBVIOUS
  <2>1. rank[p[i]] < rank[p[j]] /\ ~(rank[p[j]] < rank[p[i]])
    BY <1>1, <1>7, <1>12, <2>0
  <2>2. <<p[j], p[i]>> \notin R /\ p[i] # p[j]
    BY <1>5, <1>7, <2>0, <2>1
  <2>3. <<p[i], p[j]>> \in R
    BY <1>4, <1>7, <2>0, <2>2 DEF LinearOn
  <2>4. p[i] \in 1 .. n /\ p[j] \in 1 .. n /\ r[i] = q[p[i]] /\ r[j] = q[p[j]]
    BY <1>7, <1>9, <2>0
  <2> HIDE DEF p, r
  <2>5. q[p[i]] < q[p[j]] \/ q[p[i]] = q[p[j]]
    BY <1>3, <2>3, <2>4
  <2>6. q[p[i]] \in Nat /\ q[p[j]] \in Nat
    BY <1>1, <2>4
  <2> QED
    BY <2>4, <2>5, <2>6
<1> HIDE DEF r
<1> QED
  BY <1>11, <1>12 DEF ByName

(* Below is lexicographic: a strict linear order of the orders of a sequence. *)
LEMMA BelowIsLinear ==
  ASSUME NEW q \in Seq(Nat)
  PROVE  LET all == Orders(q)
         IN  LinearOn({e \in all \X all : Below(e[1], e[2])}, all)
<1> DEFINE n == Len(q)
           all == Orders(q)
           R == {e \in all \X all : Below(e[1], e[2])}
<1>1. \A r \in all : DOMAIN r = 1 .. n /\ n \in Nat /\ \A i \in 1 .. n : r[i] \in Nat
  BY OrderIsASeq, ElementsOfSeq
<1>2. \A r, s \in all : <<r, s>> \in R <=>
        \E i \in 1 .. n : r[i] < s[i] /\ \A j \in 1 .. i - 1 : r[j] = s[j]
  BY <1>1 DEF Below
<1>3. \A r \in all : r \in Seq(Nat) /\ Len(r) = n
  BY OrderIsASeq
<1> HIDE DEF n, all, R
<1>4. ASSUME NEW r \in all PROVE <<r, r>> \notin R
  BY <1>1, <1>2
<1>5. ASSUME NEW r \in all, NEW s \in all, NEW t \in all, <<r, s>> \in R, <<s, t>> \in R
      PROVE  <<r, t>> \in R
  <2>1. PICK i \in 1 .. n : r[i] < s[i] /\ \A j \in 1 .. i - 1 : r[j] = s[j]
    BY <1>2, <1>5
  <2>2. PICK k \in 1 .. n : s[k] < t[k] /\ \A j \in 1 .. k - 1 : s[j] = t[j]
    BY <1>2, <1>5
  <2>3. /\ r[i] \in Nat /\ s[i] \in Nat /\ t[i] \in Nat
        /\ r[k] \in Nat /\ s[k] \in Nat /\ t[k] \in Nat /\ n \in Nat
    BY <1>1
  <2>4. CASE i <= k
    <3>1. \A j \in 1 .. i - 1 : j \in 1 .. k - 1
      BY <2>3, <2>4
    <3>2. \A j \in 1 .. i - 1 : r[j] = t[j]
      BY <2>1, <2>2, <3>1
    <3>3. s[i] <= t[i]
      <4>1. CASE i = k
        BY <2>2, <2>3, <4>1
      <4>2. CASE i # k
        <5>1. i \in 1 .. k - 1
          BY <2>3, <2>4, <4>2
        <5> QED
          BY <2>2, <2>3, <5>1
      <4> QED
        BY <4>1, <4>2
    <3>4. r[i] < t[i]
      BY <2>1, <2>3, <3>3
    <3> QED
      BY <1>2, <3>2, <3>4
  <2>5. CASE k < i
    <3>1. \A j \in 1 .. k - 1 : j \in 1 .. i - 1
      BY <2>3, <2>5
    <3>2. \A j \in 1 .. k - 1 : r[j] = t[j]
      BY <2>1, <2>2, <3>1
    <3>3. k \in 1 .. i - 1
      BY <2>3, <2>5
    <3>4. r[k] < t[k]
      BY <2>1, <2>2, <3>3
    <3> QED
      BY <1>2, <3>2, <3>4
  <2> QED
    BY <2>4, <2>5
<1>6. ASSUME NEW r \in all, NEW s \in all, r # s
      PROVE  <<r, s>> \in R \/ <<s, r>> \in R
  <2> DEFINE D == {i \in 1 .. n : r[i] # s[i]}
  <2>1. D # {}
    <3>1. CASE D = {}
      <4>1. \A i \in 1 .. Len(r) : r[i] = s[i]
        BY <1>3, <3>1
      <4> QED
        BY <1>3, <1>6, <4>1, SeqEqual
    <3> QED
      BY <3>1
  <2>2. PICK i \in D : \A j \in D : i <= j
    <3>1. D \in SUBSET Nat
      OBVIOUS
    <3> HIDE DEF D
    <3> QED
      BY <2>1, <3>1, LeastNumber
  <2>3. \A j \in 1 .. i - 1 : r[j] = s[j]
    <3>1. \A j \in 1 .. i - 1 : j \in 1 .. n /\ ~(i <= j)
      BY <1>1, <2>2
    <3> QED
      BY <2>2, <3>1
  <2>4. r[i] < s[i] \/ s[i] < r[i]
    BY <1>1, <2>2
  <2> QED
    BY <1>2, <2>2, <2>3, <2>4
<1>7. LinearOn(R, all)
  BY <1>4, <1>5, <1>6 DEF LinearOn
<1> QED
  BY <1>7 DEF R, all

LEMMA PermutedIsAnOrder ==
  ASSUME NEW q \in Seq(Nat), NEW times \in Nat
  PROVE  Permuted(q, times) \in Orders(q)
<1> DEFINE all == Orders(q)
           R == {e \in all \X all : Below(e[1], e[2])}
           N == Cardinality(all)
           rank == Rank(R, all)
<1>1. IsFiniteSet(all) /\ N \in Nat \ {0}
  BY OrdersAreFinite
<1>2. LinearOn(R, all)
  BY BelowIsLinear
<1>3. \A x, y \in all : <<x, y>> \in R <=> Below(x, y)
  OBVIOUS
<1> HIDE DEF all, R
<1>4. rank \in Bijection(all, 0 .. N - 1)
  BY <1>1, <1>2, RankIsABijection
<1>5. \A k \in 0 .. N - 1 : \E x \in all : rank[x] = k
  BY <1>4 DEF Bijection, Surjection
<1>6. \A x \in all : rank[x] = Cardinality({y \in all : Below(y, x)})
  <2>1. \A x \in all : {y \in all : Below(y, x)} = {y \in all : <<y, x>> \in R}
    BY <1>3
  <2> QED
    BY <2>1 DEF Rank
<1> HIDE DEF N, rank
<1>7. times % N \in 0 .. N - 1
  BY <1>1
<1>8. \E x \in all : Cardinality({y \in all : Below(y, x)}) = times % N
  BY <1>5, <1>6, <1>7
<1> QED
  BY <1>8 DEF Permuted, all, N

LEMMA RotatedIsAnOrder ==
  ASSUME NEW A, NEW q \in Seq(A), NEW k \in 0 .. Len(q)
  PROVE  Rotated(q, k) \in Orders(q)
<1> DEFINE n == Len(q)
           front == SubSeq(q, 1, k)
           back == SubSeq(q, k + 1, n)
<1>1. n \in Nat /\ k \in Int /\ \A i \in 1 .. n : q[i] \in A
  BY ElementsOfSeq
<1>2. /\ front \in Seq(A) /\ Len(front) = k
      /\ \A i \in 1 .. k : front[i] = q[i]
  <2>1. \A i \in 1 .. k : q[i] \in A
    BY <1>1
  <2>2. /\ front \in Seq(A) /\ Len(front) = IF 1 <= k THEN k - 1 + 1 ELSE 0
        /\ \A i \in 1 .. k - 1 + 1 : front[i] = q[1 + i - 1]
    BY <1>1, <2>1, SubSeqProperties
  <2> HIDE DEF front
  <2> QED
    BY <1>1, <2>2
<1>3. /\ back \in Seq(A) /\ Len(back) = n - k
      /\ \A i \in 1 .. n - k : back[i] = q[k + i]
  <2>1. \A i \in k + 1 .. n : q[i] \in A
    BY <1>1
  <2>2. /\ back \in Seq(A)
        /\ Len(back) = IF k + 1 <= n THEN n - (k + 1) + 1 ELSE 0
        /\ \A i \in 1 .. n - (k + 1) + 1 : back[i] = q[(k + 1) + i - 1]
    BY <1>1, <2>1, SubSeqProperties
  <2> HIDE DEF back, n
  <2>3. \A i \in 1 .. n - k : i \in 1 .. n - (k + 1) + 1 /\ (k + 1) + i - 1 = k + i
    BY <1>1
  <2>4. (IF k + 1 <= n THEN n - (k + 1) + 1 ELSE 0) = n - k
    BY <1>1 DEF n
  <2> QED
    BY <2>2, <2>3, <2>4
<1>4. front \o back = q
  <2>1. /\ front \o back \in Seq(A) /\ Len(front \o back) = Len(front) + Len(back)
        /\ \A i \in 1 .. Len(front) + Len(back) :
             (front \o back)[i] =
               IF i <= Len(front) THEN front[i] ELSE back[i - Len(front)]
    BY <1>2, <1>3, ConcatProperties
  <2> DEFINE w == front \o back
  <2> HIDE DEF front, back, w, n
  <2>2. k + (n - k) = n
    BY <1>1
  <2>3. /\ w \in Seq(A) /\ Len(w) = n
        /\ \A i \in 1 .. n : w[i] = IF i <= k THEN front[i] ELSE back[i - k]
    BY <1>2, <1>3, <2>1, <2>2 DEF w
  <2>4. \A i \in 1 .. n : i <= k => i \in 1 .. k
    BY <1>1
  <2>5. \A i \in 1 .. n : ~(i <= k) => i - k \in 1 .. n - k /\ k + (i - k) = i
    BY <1>1
  <2>6. \A i \in 1 .. n : w[i] = q[i]
    BY <1>2, <1>3, <2>3, <2>4, <2>5
  <2>7. w = q
    BY <2>3, <2>6, SeqEqual DEF n
  <2> QED
    BY <2>7 DEF w
<1>5. back \o front \in Orders(front \o back)
  BY <1>2, <1>3, Swapped
<1> QED
  BY <1>4, <1>5 DEF Rotated

LEMMA FactorialIsPositive ==
  \A n \in Nat : factorial[n] \in Nat \ {0}
<1> DEFINE F == [n \in Nat |-> [x \in Nat |-> n * x]]
           g(N) == CHOOSE G : Recursive(G, N, 1, F)
           Body(f) == [n \in Nat |-> IF n = 0 THEN 1 ELSE n * f[n - 1]]
           H == [n \in Nat |-> g(n)[n]]
           Pos == Nat \ {0}
<1>1. ASSUME NEW N \in Nat PROVE Recursive(g(N), N, 1, F)
  BY RecursionExists
<1>2. \A n \in Nat, x \in Nat : F[n][x] = n * x
  OBVIOUS
<1> HIDE DEF F, g
<1>3. ASSUME NEW N \in Nat
      PROVE  /\ g(N)[0] = 1
             /\ \A n \in 1 .. N : g(N)[n] = F[n][g(N)[n - 1]]
  BY <1>1 DEF Recursive
<1>4. ASSUME NEW N \in Nat PROVE \A n \in 0 .. N : g(N)[n] \in Pos
  <2> DEFINE P == {n \in 0 .. N : g(N)[n] \in Pos}
  <2>1. 0 \in P
    BY <1>3
  <2>2. ASSUME NEW n \in 1 .. N, n - 1 \in P PROVE n \in P
    <3>1. g(N)[n - 1] \in Pos /\ n \in 0 .. N /\ n \in Pos
      BY <2>2
    <3>2. g(N)[n] = n * g(N)[n - 1]
      BY <1>2, <1>3, <3>1
    <3>3. \A x, y \in Pos : x * y \in Pos
      OBVIOUS
    <3> QED
      BY <3>1, <3>2, <3>3
  <2> HIDE DEF P
  <2>3. \A n \in 0 .. N : n \in P
    BY <2>1, <2>2, UpTo
  <2> QED
    BY <2>3 DEF P
<1>5. ASSUME NEW N \in Nat, NEW n \in 1 .. N
      PROVE  g(N)[n] = n * g(N)[n - 1]
  <2>1. n - 1 \in 0 .. N /\ n \in Nat
    OBVIOUS
  <2>2. g(N)[n - 1] \in Nat
    BY <1>4, <2>1
  <2> QED
    BY <1>2, <1>3, <2>1, <2>2
<1>6. ASSUME NEW N \in Nat \ {0} PROVE g(N)[N - 1] = g(N - 1)[N - 1]
  <2> DEFINE M == N - 1
             P == {n \in 0 .. M : g(N)[n] = g(M)[n]}
  <2>1. M \in Nat /\ \A n \in 1 .. M : n \in 1 .. N /\ n \in 0 .. M
    OBVIOUS
  <2> HIDE DEF M
  <2>2. 0 \in P
    BY <1>3, <2>1
  <2>3. ASSUME NEW n \in 1 .. M, n - 1 \in P PROVE n \in P
    BY <1>5, <2>1, <2>3
  <2> HIDE DEF P
  <2>4. \A n \in 0 .. M : n \in P
    BY <2>1, <2>2, <2>3, UpTo
  <2>5. M \in P
    BY <2>1, <2>4
  <2> QED
    BY <2>5 DEF P, M
<1>7. H = Body(H)
  <2>1. ASSUME NEW n \in Nat PROVE H[n] = Body(H)[n]
    <3>1. CASE n = 0
      BY <1>3, <3>1
    <3>2. CASE n # 0
      <4>1. n \in Nat \ {0} /\ n \in 1 .. n /\ n - 1 \in Nat
        BY <3>2
      <4>2. g(n)[n] = n * g(n)[n - 1]
        BY <1>5, <4>1
      <4> QED
        BY <1>6, <3>2, <4>1, <4>2
    <3> QED
      BY <3>1, <3>2
  <2> QED
    BY <2>1
<1>8. factorial = Body(factorial)
  <2>1. factorial = CHOOSE f : f = Body(f)
    BY DEF factorial
  <2> QED
    BY <1>7, <2>1
<1> HIDE DEF H
<1>9. /\ factorial[0] = 1
      /\ \A n \in Nat \ {0} : factorial[n] = n * factorial[n - 1]
  BY <1>8
<1> HIDE DEF Body
<1>10. ASSUME NEW N \in Nat PROVE factorial[N] \in Pos
  <2> DEFINE P == {n \in 0 .. N : factorial[n] \in Pos}
  <2>1. 0 \in P
    BY <1>9
  <2>2. ASSUME NEW n \in 1 .. N, n - 1 \in P PROVE n \in P
    <3>1. factorial[n - 1] \in Pos /\ n \in 0 .. N /\ n \in Pos /\ n \in Nat \ {0}
      BY <2>2
    <3>2. factorial[n] = n * factorial[n - 1]
      BY <1>9, <3>1
    <3>3. \A x, y \in Pos : x * y \in Pos
      OBVIOUS
    <3> QED
      BY <3>1, <3>2, <3>3
  <2> HIDE DEF P
  <2>3. \A n \in 0 .. N : n \in P
    BY <2>1, <2>2, UpTo
  <2>4. N \in P
    BY <2>3
  <2> QED
    BY <2>4 DEF P
<1> QED
  BY <1>10

LEMMA Division ==
  ASSUME NEW a \in Nat, NEW d \in Nat \ {0}
  PROVE  a % d \in Nat /\ a % d \in 0 .. d - 1 /\ a \div d \in Nat
<1>1. a % d \in 0 .. d - 1 /\ a \div d \in Int /\ a = d * (a \div d) + (a % d)
  OBVIOUS
<1>2. a \div d \in Nat
  BY <1>1
<1> QED
  BY <1>1, <1>2

LEMMA SeatingIsAnOrder ==
  ASSUME NEW s \in Seq(Nat), s # <<>>, NEW played \in Nat
  PROVE  Seating(s, played) \in Orders(s)
<1> DEFINE sorted == ByName(s)
           n == Len(s)
           p == played % factorial[n]
           x == <<Head(sorted)>>
           rest == Permuted(Tail(sorted), p \div n)
           order == x \o rest
<1>1. sorted \in Orders(s) /\ sorted \in Seq(Nat) /\ Len(sorted) = n /\ n \in Nat
  BY ByNameIsAnOrder, OrderIsASeq
<1>2. n # 0 /\ sorted # <<>>
  BY <1>1, EmptySeq
<1>3. factorial[n] \in Nat \ {0}
  BY <1>1, FactorialIsPositive
<1>4. p \in Nat /\ p \div n \in Nat /\ p % n \in 0 .. n - 1
  BY <1>1, <1>2, <1>3, Division
<1>5. Head(sorted) \in Nat /\ Tail(sorted) \in Seq(Nat) /\ sorted = x \o Tail(sorted)
  BY <1>1, <1>2
<1> HIDE DEF sorted, n, p
<1>6. rest \in Orders(Tail(sorted))
  BY <1>4, <1>5, PermutedIsAnOrder
<1>7. x \in Seq(Nat)
  BY <1>5
<1> HIDE DEF x, rest
<1>8. order \in Orders(sorted)
  BY <1>5, <1>6, <1>7, OrderBehind
<1>9. order \in Orders(s)
  BY <1>1, <1>8, OrderOfOrder
<1>10. order \in Seq(Nat) /\ Len(order) = n
  BY <1>9, OrderIsASeq DEF n
<1> HIDE DEF order
<1>11. p % n \in 0 .. Len(order)
  BY <1>1, <1>4, <1>10
<1>12. Rotated(order, p % n) \in Orders(order)
  BY <1>10, <1>11, RotatedIsAnOrder
<1>13. Rotated(order, p % n) \in Orders(s)
  BY <1>9, <1>12, OrderOfOrder
<1> QED
  BY <1>13 DEF Seating, order, x, rest, n, p, sorted

LEMMA SameByName ==
  ASSUME NEW a \in Seq(Nat), NEW b \in Orders(a)
  PROVE  ByName(b) = ByName(a)
<1>1. Orders(b) = Orders(a)
  BY SameOrders
<1> QED
  BY <1>1, Zenon DEF ByName

LEMMA SameOrdersByName ==
  ASSUME NEW a \in Seq(Nat), NEW b \in Seq(Nat), ByName(b) = ByName(a)
  PROVE  Range(b) = Range(a)
<1>1. ByName(a) \in Orders(a) /\ ByName(b) \in Orders(b)
  BY ByNameIsAnOrder
<1>2. Range(ByName(a)) = Range(a)
  BY <1>1, OrderIsASeq
<1>3. Range(ByName(b)) = Range(b)
  BY <1>1, OrderIsASeq
<1> QED
  BY <1>2, <1>3

(* As many different things, and no others, are an order of them.            *)
LEMMA OrderIfSame ==
  ASSUME NEW A, NEW a \in Seq(A), NEW b \in Seq(A), IsInjective(a), IsInjective(b),
         Range(a) \subseteq Range(b), Len(b) <= Len(a)
  PROVE  a \in Orders(b)
<1> DEFINE n == Len(a)
           p == [i \in 1 .. n |-> CHOOSE j \in 1 .. n : b[j] = a[i]]
<1>1. /\ n \in Nat /\ DOMAIN a = 1 .. n /\ Cardinality(Range(a)) = n
      /\ Len(b) \in Nat /\ DOMAIN b = 1 .. Len(b) /\ Cardinality(Range(b)) = Len(b)
      /\ IsFiniteSet(Range(b))
  BY ElementsOfSeq
<1>2. Cardinality(Range(a)) <= Cardinality(Range(b))
  BY <1>1, FS_Subset
<1>3. n = Len(b)
  <2>1. n <= Len(b)
    BY <1>1, <1>2
  <2>2. Len(b) <= n
    OBVIOUS
  <2>3. n \in Nat /\ Len(b) \in Nat
    BY <1>1
  <2> HIDE DEF n
  <2> QED
    BY <2>1, <2>2, <2>3
<1>4. \A i \in 1 .. n : \E j \in 1 .. n : b[j] = a[i]
  BY <1>1, <1>3 DEF Range
<1> HIDE DEF n
<1>5. \A i \in 1 .. n : p[i] \in 1 .. n /\ b[p[i]] = a[i]
  BY <1>4
<1>6. p \in [1 .. n -> 1 .. n]
  BY <1>5
<1> HIDE DEF p
<1>7. \A i, j \in 1 .. n : p[i] = p[j] => i = j
  BY <1>1, <1>5 DEF IsInjective
<1>8. \A i \in 1 .. n : a[i] = b[p[i]]
  BY <1>5
<1>9. n = Len(a)
  BY DEF n
<1> QED
  BY <1>3, <1>6, <1>7, <1>8, <1>9, OrderIfPlaced

-----------------------------------------------------------------------------
(* Connections, hellos and members.                                          *)

LEMMA ConnsAre ==
  /\ IsFiniteSet(Conns) /\ MaxGames \in Nat /\ NoConn \notin Conns /\ Main \notin Conns
  /\ Stray \notin Dials /\ Seats \in Nat \ {0}
<1>1. /\ PlayerA \in Players /\ IsFiniteSet(Players) /\ Players \subseteq Nat \ {0}
      /\ Games \in Nat \ {0} /\ Builtins \in Seq(Nat)
  BY RefereeAssumption
<1>2. IsFiniteSet(Dials)
  BY <1>1, OneToN, FS_Product DEF Dials
<1>3. IsFiniteSet(Conns)
  BY <1>2, FS_AddElement DEF Conns
<1>4. MaxGames \in Nat
  BY <1>1, <1>3, FS_CardinalityType DEF MaxGames
<1>5. \A c \in Conns : c = <<c[1], c[2]>> /\ c[1] \in Nat /\ (c[1] = 0 => c[2] = 1)
  <2>1. ASSUME NEW c \in Dials PROVE c = <<c[1], c[2]>> /\ c[1] \in Nat \ {0}
    <3>1. \E p \in Players, g \in 1 .. Games : c = <<p, g>>
      BY DEF Dials
    <3> QED
      BY <1>1, <3>1
  <2> QED
    BY <2>1 DEF Conns, Stray
<1>6. NoConn \notin Conns /\ Main \notin Conns
  BY <1>5 DEF NoConn, Main
<1>7. Stray \notin Dials
  BY <1>1 DEF Stray, Dials
<1>8. Cardinality(Players) \in Nat \ {0}
  BY <1>1, FS_CardinalityType, FS_EmptySet
<1>9. Seats \in Nat \ {0}
  BY <1>1, <1>8 DEF Seats
<1> QED
  BY <1>3, <1>4, <1>6, <1>7, <1>9

AHello == [name : Nat, game : BOOLEAN, opponents : Seq(Opponents)]

LEMMA HellosAre ==
  Hellos \subseteq AHello
<1>1. /\ IsFiniteSet(Players) /\ Players \subseteq Nat \ {0} /\ Builtins \in Seq(Nat)
      /\ Strays \subseteq AHello
  BY RefereeAssumption DEF AHello
<1>2. ASSUME NEW name \in Players PROVE BotHello[name] \in AHello
  <2> DEFINE S == {<<"player", p>> : p \in Players \ {name}}
             others == SetToSeq(S)
             builtins == [i \in DOMAIN Builtins |-> <<"builtin", Builtins[i]>>]
             A == Opponents
  <2>1. S \subseteq A
    BY <1>1 DEF Opponents
  <2>2. IsFiniteSet(S)
    <3>1. IsFiniteSet(Players \ {name})
      BY <1>1, FS_Subset
    <3>2. [p \in Players \ {name} |-> <<"player", p>>] \in Surjection(Players \ {name}, S)
      BY DEF Surjection
    <3> QED
      BY <3>1, <3>2, FS_Surjection
  <2>3. others \in Seq(A)
    <3> HIDE DEF S
    <3>1. Cardinality(S) \in Nat /\ \E f \in [1 .. Cardinality(S) -> S] : IsInjective(f)
      BY <2>2, FS_CardinalityType
         DEF ExistsBijection, Bijection, Injection, Surjection, IsInjective
    <3>2. others \in [1 .. Cardinality(S) -> S]
      BY <3>1 DEF SetToSeq
    <3>3. others \in [1 .. Cardinality(S) -> A]
      BY <2>1, <3>2
    <3> HIDE DEF others, A
    <3> QED
      BY <3>1, <3>3, SeqDef
  <2>4. builtins \in Seq(A)
    <3>1. Len(Builtins) \in Nat /\ DOMAIN Builtins = 1 .. Len(Builtins)
          /\ \A i \in 1 .. Len(Builtins) : Builtins[i] \in Nat
      BY <1>1, ElementsOfSeq
    <3>2. builtins \in [1 .. Len(Builtins) -> A]
      BY <3>1 DEF Opponents
    <3> HIDE DEF builtins, A
    <3> QED
      BY <3>1, <3>2, SeqDef
  <2> HIDE DEF others, builtins
  <2>5. others \o builtins \in Seq(A)
    BY <2>3, <2>4, ConcatProperties
  <2>6. BotHello[name] = [name |-> name, game |-> TRUE, opponents |-> others \o builtins]
    BY DEF BotHello, others, builtins
  <2> QED
    BY <1>1, <2>5, <2>6 DEF AHello
<1>3. DOMAIN BotHello = Players
  BY DEF BotHello
<1> QED
  BY <1>1, <1>2, <1>3 DEF Hellos, Range

LEMMA HelloOfIsAHello ==
  ASSUME stray \in Strays, NEW c \in Conns
  PROVE  HelloOf(c) \in Hellos
<1>1. CASE c = Stray
  BY <1>1 DEF HelloOf, Hellos
<1>2. CASE c # Stray
  <2>1. c[1] \in Players /\ DOMAIN BotHello = Players
    BY <1>2 DEF Conns, Dials, BotHello
  <2> QED
    BY <1>2, <2>1 DEF HelloOf, Hellos, Range
<1> QED
  BY <1>1, <1>2

LEMMA NamedAre ==
  ASSUME NEW h \in AHello, NEW kind
  PROVE  Named(h, kind) \in Seq(Nat)
<1> DEFINE S == {o \in Range(h.opponents) : o[1] = kind}
           theirs == Those(h.opponents, S)
<1>1. h.opponents \in Seq(Opponents)
  BY DEF AHello
<1> HIDE DEF S
<1>2. theirs \in Seq(Opponents)
  BY <1>1, ThoseAre
<1> HIDE DEF theirs
<1>3. Len(theirs) \in Nat /\ DOMAIN theirs = 1 .. Len(theirs)
      /\ \A i \in 1 .. Len(theirs) : theirs[i] \in Opponents
  BY <1>2, ElementsOfSeq
<1>4. [i \in DOMAIN theirs |-> theirs[i][2]] \in [1 .. Len(theirs) -> Nat]
  BY <1>3 DEF Opponents
<1>5. [i \in DOMAIN theirs |-> theirs[i][2]] \in Seq(Nat)
  BY <1>3, <1>4, SeqDef
<1> QED
  BY <1>5 DEF Named, theirs, S

LEMMA WantedAre ==
  ASSUME NEW h \in AHello
  PROVE  /\ Wanted(h) \in Seq(Nat) /\ Len(Wanted(h)) \in Nat \ {0}
         /\ h.name \in Nat /\ h.name \in Range(Wanted(h)) /\ Wanted(h)[1] = h.name
<1> DEFINE players == Named(h, "player")
<1>1. players \in Seq(Nat) /\ Len(players) \in Nat /\ h.name \in Nat
  BY NamedAre, LenProperties DEF AHello
<1> HIDE DEF players
<1>2. /\ <<h.name>> \in Seq(Nat) /\ Len(<<h.name>>) = 1 /\ <<h.name>>[1] = h.name
  BY <1>1
<1>3. /\ <<h.name>> \o players \in Seq(Nat) /\ Len(<<h.name>> \o players) = 1 + Len(players)
      /\ \A i \in 1 .. 1 + Len(players) :
           (<<h.name>> \o players)[i] = IF i <= 1 THEN <<h.name>>[i] ELSE players[i - 1]
  BY <1>1, <1>2, ConcatProperties
<1> DEFINE w == <<h.name>> \o players
<1>4. Wanted(h) = w
  BY DEF Wanted, players
<1>5. w[1] = h.name /\ w \in Seq(Nat) /\ Len(w) = 1 + Len(players)
  BY <1>1, <1>2, <1>3
<1> HIDE DEF w
<1>6. h.name \in Range(w)
  <2>1. 1 \in DOMAIN w
    BY <1>1, <1>5, LenProperties
  <2> QED
    BY <1>5, <2>1 DEF Range
<1> QED
  BY <1>1, <1>4, <1>5, <1>6

(* Equal keys are the same names, bots and builtins together.                *)
LEMMA KeyOfIs ==
  ASSUME stray \in Strays, NEW c \in Conns
  PROVE  LET h == HelloOf(c)
             builtins == Named(h, "builtin")
         IN  /\ h \in AHello /\ builtins \in Seq(Nat) /\ Wanted(h) \in Seq(Nat)
             /\ KeyOf(c) = ByName(Wanted(h) \o builtins)
             /\ Range(KeyOf(c)) = Range(Wanted(h)) \cup Range(builtins)
             /\ \A names \in Orders(Wanted(h)) : ByName(builtins \o names) = KeyOf(c)
<1> DEFINE h == HelloOf(c)
           builtins == Named(h, "builtin")
           wanted == Wanted(h)
<1>1. h \in Hellos /\ h \in AHello
  BY HelloOfIsAHello, HellosAre
<1>2. KeyOf(c) = ByName(wanted \o builtins)
  BY <1>1 DEF KeyOf, Key
<1>3. builtins \in Seq(Nat)
  BY <1>1, NamedAre
<1>4. wanted \in Seq(Nat)
  BY <1>1, WantedAre
<1> HIDE DEF builtins, wanted
<1> DEFINE both == wanted \o builtins
<1>5. /\ both \in Seq(Nat) /\ Len(both) = Len(wanted) + Len(builtins)
      /\ \A i \in 1 .. Len(wanted) + Len(builtins) :
           both[i] = IF i <= Len(wanted) THEN wanted[i] ELSE builtins[i - Len(wanted)]
  BY <1>3, <1>4, ConcatProperties
<1> HIDE DEF both
<1>6. /\ Len(wanted) \in Nat /\ DOMAIN wanted = 1 .. Len(wanted)
      /\ Len(builtins) \in Nat /\ DOMAIN builtins = 1 .. Len(builtins)
      /\ DOMAIN both = 1 .. Len(wanted) + Len(builtins)
  BY <1>3, <1>4, <1>5, LenProperties
<1>7. Range(both) = Range(wanted) \cup Range(builtins)
  <2>1. ASSUME NEW i \in DOMAIN both PROVE both[i] \in Range(wanted) \cup Range(builtins)
    <3>1. CASE i <= Len(wanted)
      BY <1>5, <1>6, <3>1 DEF Range
    <3>2. CASE ~(i <= Len(wanted))
      <4>1. i - Len(wanted) \in 1 .. Len(builtins)
        BY <1>6, <3>2
      <4> QED
        BY <1>5, <1>6, <3>2, <4>1 DEF Range
    <3> QED
      BY <3>1, <3>2
  <2>2. ASSUME NEW i \in DOMAIN wanted PROVE wanted[i] \in Range(both)
    <3>1. i \in 1 .. Len(wanted) + Len(builtins) /\ i <= Len(wanted)
      BY <1>6
    <3> QED
      BY <1>5, <1>6, <3>1 DEF Range
  <2>3. ASSUME NEW i \in DOMAIN builtins PROVE builtins[i] \in Range(both)
    <3>1. /\ i + Len(wanted) \in 1 .. Len(wanted) + Len(builtins)
          /\ ~(i + Len(wanted) <= Len(wanted)) /\ i + Len(wanted) - Len(wanted) = i
      BY <1>6
    <3>2. both[i + Len(wanted)] = builtins[i]
      BY <1>5, <3>1
    <3> QED
      BY <1>6, <3>1, <3>2 DEF Range
  <2> QED
    BY <2>1, <2>2, <2>3 DEF Range
<1>8. Range(ByName(both)) = Range(both)
  BY <1>5, ByNameIsAnOrder, OrderIsASeq
<1>9. ASSUME NEW names \in Orders(wanted) PROVE ByName(builtins \o names) = ByName(both)
  <2>1. builtins \o names \in Orders(builtins \o wanted)
    BY <1>3, <1>4, OrderBehind
  <2>2. builtins \o wanted \in Orders(both)
    BY <1>3, <1>4, Swapped DEF both
  <2>3. builtins \o names \in Orders(both)
    BY <1>5, <2>1, <2>2, OrderOfOrder
  <2> QED
    BY <1>5, <2>3, SameByName
<1> QED
  BY <1>1, <1>2, <1>3, <1>4, <1>7, <1>8, <1>9 DEF both, builtins, wanted

Members == [name : Nat, conn : Conns \cup {NoConn}]

LEMMA NamesAre ==
  ASSUME NEW m \in Seq(Members)
  PROVE  /\ NamesOf(m) \in Seq(Nat) /\ Len(NamesOf(m)) = Len(m)
         /\ ConnsOf(m) = {x.conn : x \in Range(m)} \ {NoConn}
         /\ ConnsOf(m) \subseteq Conns
<1>1. Len(m) \in Nat /\ DOMAIN m = 1 .. Len(m) /\ \A i \in 1 .. Len(m) : m[i] \in Members
  BY ElementsOfSeq
<1>2. NamesOf(m) \in [1 .. Len(m) -> Nat]
  BY <1>1 DEF NamesOf, Members
<1>3. NamesOf(m) \in Seq(Nat) /\ Len(NamesOf(m)) = Len(m)
  <2> DEFINE names == NamesOf(m)
  <2> HIDE DEF names
  <2>1. names \in Seq(Nat) /\ Len(names) = Len(m)
    BY <1>1, <1>2, SeqDef, LenProperties DEF names
  <2> QED
    BY <2>1 DEF names
<1>4. ConnsOf(m) = {x.conn : x \in Range(m)} \ {NoConn}
  BY DEF ConnsOf, Range
<1>5. ConnsOf(m) \subseteq Conns
  BY <1>1 DEF ConnsOf, Members
<1> QED
  BY <1>3, <1>4, <1>5

(* Whatever order of the names a group's games are seated in, there are      *)
(* members who sit so, and they are the same ones.                           *)
LEMMA SeatedByRearranges ==
  ASSUME NEW m \in Seq(Members), NEW names \in Orders(NamesOf(m))
  PROVE  LET q == SeatedBy(m, names)
         IN  /\ q \in Seq(Members) /\ Len(q) = Len(m)
             /\ NamesOf(q) = names /\ ConnsOf(q) = ConnsOf(m)
<1> DEFINE n == Len(m)
           N == NamesOf(m)
           q == SeatedBy(m, names)
<1>1. N \in Seq(Nat) /\ Len(N) = n /\ n \in Nat /\ DOMAIN m = 1 .. n
  BY NamesAre, LenProperties
<1>2. PICK p \in Bijection(1 .. n, 1 .. n) : names = [i \in 1 .. n |-> N[p[i]]]
  BY <1>1, OrdersAre
<1> DEFINE r == [i \in 1 .. n |-> m[p[i]]]
<1>3. r \in Orders(m)
  BY OrdersAre
<1>4. p \in [1 .. n -> 1 .. n]
  BY DEF Bijection, Injection
<1>5. NamesOf(r) = names
  <2>1. \A j \in 1 .. n : N[j] = m[j].name
    BY <1>1 DEF NamesOf
  <2>2. NamesOf(r) = [i \in 1 .. n |-> m[p[i]].name]
    BY DEF NamesOf
  <2> HIDE DEF N, n
  <2> QED
    BY <1>2, <1>4, <2>1, <2>2
<1>6. q \in Orders(m) /\ NamesOf(q) = names
  <2> HIDE DEF r
  <2> QED
    BY <1>3, <1>5 DEF SeatedBy
<1> HIDE DEF q
<1>7. q \in Seq(Members) /\ Len(q) = n /\ Range(q) = Range(m)
  BY <1>6, OrderIsASeq
<1>8. ConnsOf(q) = ConnsOf(m)
  BY <1>7, NamesAre
<1> QED
  BY <1>6, <1>7, <1>8 DEF q

(* The builtins a connection named, and the connections in all.              *)
LEMMA PartyIs ==
  ASSUME stray \in Strays, NEW c \in Conns, NEW all \in Seq(Conns), Len(all) # 0
  PROVE  LET m == BuiltinsOf(c) \o
                    [i \in DOMAIN all |-> Member(HelloOf(all[i]).name, all[i])]
             names == [i \in DOMAIN all |-> HelloOf(all[i]).name]
         IN  /\ m \in Seq(Members) /\ m # <<>>
             /\ NamesOf(m) = Named(HelloOf(c), "builtin") \o names
             /\ names \in Seq(Nat) /\ Len(names) = Len(all)
             /\ ConnsOf(m) = Range(all)
<1> DEFINE bots == [i \in DOMAIN all |-> Member(HelloOf(all[i]).name, all[i])]
           specs == Named(HelloOf(c), "builtin")
           builtins == BuiltinsOf(c)
           names == [i \in DOMAIN all |-> HelloOf(all[i]).name]
           b == Len(builtins)
           k == Len(all)
           m == builtins \o bots
<1>1. /\ k \in Nat \ {0} /\ DOMAIN all = 1 .. k
      /\ \A i \in 1 .. k : all[i] \in Conns
  BY ElementsOfSeq
<1>2. \A i \in 1 .. k : HelloOf(all[i]).name \in Nat
  BY <1>1, HelloOfIsAHello, HellosAre DEF AHello
<1>3. specs \in Seq(Nat) /\ Len(specs) \in Nat /\ DOMAIN specs = 1 .. Len(specs)
      /\ \A i \in 1 .. Len(specs) : specs[i] \in Nat
  BY HelloOfIsAHello, HellosAre, NamedAre, ElementsOfSeq
<1>4. builtins = [i \in 1 .. Len(specs) |-> Member(specs[i], NoConn)]
  BY <1>3 DEF BuiltinsOf
<1>5. builtins \in Seq(Members) /\ b = Len(specs)
  <2> HIDE DEF specs
  <2>1. builtins \in [1 .. Len(specs) -> Members]
    BY <1>3, <1>4 DEF Members, Member
  <2> HIDE DEF builtins
  <2> QED
    BY <1>3, <2>1, FunctionIsASeq
<1>6. bots \in Seq(Members) /\ Len(bots) = k /\ names \in Seq(Nat) /\ Len(names) = k
  <2>1. bots \in [1 .. k -> Members] /\ names \in [1 .. k -> Nat]
    BY <1>1, <1>2 DEF Members, Member
  <2> HIDE DEF bots, names, k
  <2>2. bots \in Seq(Members) /\ Len(bots) = k
    BY <1>1, <2>1, FunctionIsASeq
  <2>3. names \in Seq(Nat) /\ Len(names) = k
    BY <1>1, <2>1, FunctionIsASeq
  <2> QED
    BY <2>2, <2>3
<1>7. \A i \in 1 .. k : /\ bots[i].name = names[i] /\ bots[i].conn = all[i]
                        /\ names[i] \in Nat
  BY <1>1, <1>2 DEF Member
<1>8. \A i \in 1 .. b : builtins[i].name = specs[i] /\ builtins[i].conn = NoConn
  BY <1>3, <1>4, <1>5 DEF Member
<1> HIDE DEF bots, specs, builtins, names, b, k
<1>9. b \in Nat /\ k \in Nat
  BY <1>1, <1>3, <1>5
<1>10. /\ m \in Seq(Members) /\ Len(m) = b + k
       /\ \A i \in 1 .. b + k : m[i] = IF i <= b THEN builtins[i] ELSE bots[i - b]
  BY <1>5, <1>6, ConcatProperties DEF b
<1>11. /\ specs \o names \in Seq(Nat) /\ Len(specs \o names) = b + k
       /\ \A i \in 1 .. b + k : (specs \o names)[i] = IF i <= b THEN specs[i] ELSE names[i - b]
  <2>1. /\ specs \o names \in Seq(Nat) /\ Len(specs \o names) = Len(specs) + Len(names)
        /\ \A i \in 1 .. Len(specs) + Len(names) :
             (specs \o names)[i] = IF i <= Len(specs) THEN specs[i] ELSE names[i - Len(specs)]
    BY <1>3, <1>6, ConcatProperties
  <2>2. Len(specs) = b /\ Len(names) = k
    BY <1>5, <1>6
  <2> QED
    BY <2>1, <2>2
<1> DEFINE w == specs \o names
           N == NamesOf(m)
<1> HIDE DEF m, w
<1>12. DOMAIN m = 1 .. b + k
  BY <1>9, <1>10, LenProperties
<1>13. N \in Seq(Nat) /\ Len(N) = b + k
  BY <1>10, NamesAre
<1>14. \A i \in 1 .. b + k : ~(i <= b) => i - b \in 1 .. k
  BY <1>9
<1>15. \A i \in 1 .. b + k : i <= b => i \in 1 .. b
  BY <1>9
<1>16. \A i \in 1 .. b + k : N[i] = w[i]
  <2>1. \A i \in 1 .. b + k : N[i] = m[i].name
    BY <1>12 DEF NamesOf
  <2> HIDE DEF N
  <2> QED
    BY <1>7, <1>8, <1>10, <1>11, <1>14, <1>15, <2>1 DEF w
<1>17. N = w
  <2>1. w \in Seq(Nat) /\ Len(w) = b + k
    BY <1>11 DEF w
  <2> HIDE DEF N
  <2>2. Len(N) = Len(w) /\ \A i \in 1 .. Len(N) : N[i] = w[i]
    BY <1>13, <1>16, <2>1
  <2> QED
    BY <1>13, <2>1, <2>2, SeqEqual
<1>18. ConnsOf(m) = Range(all)
  <2>1. ASSUME NEW i \in 1 .. b + k, m[i].conn # NoConn PROVE m[i].conn \in Range(all)
    <3>1. ~(i <= b)
      BY <1>8, <1>10, <1>15, <2>1
    <3>2. m[i].conn = all[i - b] /\ i - b \in 1 .. k
      BY <1>7, <1>10, <1>14, <3>1
    <3> QED
      BY <1>1, <3>2 DEF Range, k
  <2>2. ASSUME NEW j \in 1 .. k PROVE all[j] \in ConnsOf(m)
    <3>1. j + b \in 1 .. b + k /\ ~(j + b <= b) /\ j + b - b = j
      BY <1>9
    <3>2. PICK i \in 1 .. b + k : ~(i <= b) /\ i - b = j
      BY <1>9, <3>1
    <3>3. m[i].conn = all[j]
      BY <1>7, <1>10, <3>2
    <3>4. all[j] # NoConn
      BY <1>1, ConnsAre DEF k
    <3> QED
      BY <1>12, <3>3, <3>4 DEF ConnsOf
  <2> QED
    BY <1>1, <1>12, <2>1, <2>2 DEF ConnsOf, Range, k
<1>19. m # <<>>
  <2>1. Len(m) # 0
    BY <1>1, <1>9, <1>10 DEF k
  <2> QED
    BY <1>10, <2>1, EmptySeq
<1> QED
  BY <1>6, <1>10, <1>17, <1>18, <1>19 DEF m, w, bots, builtins, specs, names, k

-----------------------------------------------------------------------------
(* The inductive invariant.                                                  *)

Steps == {"out", "hello", "joining", "grouped", "seated", "counted", "listed"}
Types ==
  /\ stage \in [Conns -> {"off", "in", "refused", "broken"}]
  /\ gone \subseteq Conns /\ ended \subseteq Conns /\ stray \in Strays
  /\ at \in [Threads -> Steps]
  /\ party \in [Threads -> Seq(Members)]
  /\ parked \in Seq(Conns) /\ IsInjective(parked)
  /\ \A k \in DOMAIN groupGames : groupGames[k] \in Nat
  /\ gameCounter \in Nat
  /\ seats \in [Ids -> Seq(Members)]
  /\ phase \in [Ids -> {"none", "made", "playing", "concluded", "unlisted", "over"}]
  /\ expired \subseteq Conns /\ sweep.conns \subseteq Conns

(* When nobody can be where: what makes the places that a step takes people  *)
(* to, or empties, the ones that were empty or are theirs.                   *)
Phases ==
  /\ stopping => parked = <<>>
  /\ main # "sweep" => sweep.conns = {}
  /\ \A g \in Ids : g > gameCounter => phase[g] = "none"
  /\ \A t \in Threads : party[t] = <<>> <=> at[t] \notin {"grouped", "seated"}
  /\ at[Main] \notin {"hello", "joining"}

(* One connection, live or not: at most one place, and what its thread and   *)
(* its stage say of it.                                                      *)
Fits(c) ==
  /\ \A p, q \in Places(c) : p = q
  /\ c \in Live => Places(c) # {}
  /\ stage[c] = "off" /\ at[c] # "hello" => Places(c) = {}
  /\ at[c] = "hello" => stage[c] = "off"
  /\ at[c] = "joining" => stage[c] \in {"in", "broken"}
EveryoneFits == \A c \in Conns : Fits(c)

PlacesInv == Types /\ Phases /\ EveryoneFits

-----------------------------------------------------------------------------
(* Places.                                                                   *)

Calls(c, t) == c \in ConnsOf(party[t]) \/ (t = c /\ at[c] \in {"hello", "joining"})
Plays(c, g) == phase[g] \in {"made", "playing"} /\ c \in ConnsOf(seats[g])
Parks(c) == c \in Range(parked) /\ ~stopping
Reaped(c) == c \in expired
Swept(c) == c \in sweep.conns
Nowhere(c) ==
  /\ \A t \in Threads : ~Calls(c, t)
  /\ \A g \in Ids : ~Plays(c, g)
  /\ ~Parks(c) /\ ~Reaped(c) /\ ~Swept(c)

InPlace(c, p) ==
  \/ \E t \in Threads : p = <<"call", t>> /\ Calls(c, t)
  \/ \E g \in Ids : p = <<"game", g>> /\ Plays(c, g)
  \/ p = <<"parked", 0>> /\ Parks(c)
  \/ p = <<"reaped", 0>> /\ Reaped(c)
  \/ p = <<"swept", 0>> /\ Swept(c)

LEMMA PlacesAre ==
  \A c \in Conns : \A p : p \in Places(c) <=> InPlace(c, p)
<1> SUFFICES ASSUME NEW c \in Conns, NEW p PROVE p \in Places(c) <=> InPlace(c, p)
  OBVIOUS
<1>1. c \in Threads
  BY DEF Threads
<1> QED
  BY <1>1 DEF Places, InPlace, Calls, Plays, Parks, Reaped, Swept, Unfinished

LEMMA PlacesAreNext ==
  (\A c \in Conns : \A p : p \in Places(c) <=> InPlace(c, p))'
BY PlacesAre, PTL

(* A step that takes a connection to no new place, and one that leaves it    *)
(* where it is.                                                              *)
LEMMA PlacesLost ==
  ASSUME NEW c \in Conns,
         \A t \in Threads : Calls(c, t)' => Calls(c, t),
         \A g \in Ids : Plays(c, g)' => Plays(c, g),
         Parks(c)' => Parks(c), Reaped(c)' => Reaped(c), Swept(c)' => Swept(c)
  PROVE  Places(c)' \subseteq Places(c)
<1> SUFFICES ASSUME NEW p \in Places(c)' PROVE p \in Places(c)
  OBVIOUS
<1>1. InPlace(c, p)'
  BY PlacesAreNext
<1>2. InPlace(c, p)
  BY <1>1 DEF InPlace
<1> QED
  BY <1>2, PlacesAre

LEMMA PlacesKept ==
  ASSUME NEW c \in Conns,
         \A t \in Threads : Calls(c, t)' <=> Calls(c, t),
         \A g \in Ids : Plays(c, g)' <=> Plays(c, g),
         Parks(c)' <=> Parks(c), Reaped(c)' <=> Reaped(c), Swept(c)' <=> Swept(c)
  PROVE  Places(c)' = Places(c)
<1>1. Places(c)' \subseteq Places(c)
  BY PlacesLost
<1>2. ASSUME NEW p \in Places(c) PROVE p \in Places(c)'
  <2>1. InPlace(c, p)
    BY PlacesAre
  <2>2. InPlace(c, p)'
    BY <2>1 DEF InPlace
  <2> QED
    BY <2>2, PlacesAreNext
<1> QED
  BY <1>1, <1>2

(* Whoever is in a call, or parked, is nowhere else.                         *)
LEMMA OnlyInCall ==
  ASSUME NEW c \in Conns, Fits(c), NEW t \in Threads, Calls(c, t)
  PROVE  /\ \A u \in Threads : Calls(c, u) => u = t
         /\ \A g \in Ids : ~Plays(c, g)
         /\ ~Parks(c) /\ ~Reaped(c) /\ ~Swept(c)
<1>1. \A p, q : InPlace(c, p) /\ InPlace(c, q) => p = q
  BY PlacesAre DEF Fits
<1>2. InPlace(c, <<"call", t>>)
  BY DEF InPlace
<1>3. \A p : InPlace(c, p) => p = <<"call", t>>
  BY <1>1, <1>2
<1>4. ASSUME NEW u \in Threads, Calls(c, u) PROVE u = t
  <2>1. InPlace(c, <<"call", u>>)
    BY <1>4 DEF InPlace
  <2>2. <<"call", u>> = <<"call", t>>
    BY <1>3, <2>1
  <2> QED
    BY <2>2
<1>5. ASSUME NEW g \in Ids PROVE ~Plays(c, g)
  <2>1. Plays(c, g) => InPlace(c, <<"game", g>>)
    BY DEF InPlace
  <2>2. <<"game", g>> # <<"call", t>>
    OBVIOUS
  <2> QED
    BY <1>3, <2>1, <2>2
<1>6. ~Parks(c)
  <2>1. Parks(c) => InPlace(c, <<"parked", 0>>)
    BY DEF InPlace
  <2> QED
    BY <1>3, <2>1
<1>7. ~Reaped(c)
  <2>1. Reaped(c) => InPlace(c, <<"reaped", 0>>)
    BY DEF InPlace
  <2> QED
    BY <1>3, <2>1
<1>8. ~Swept(c)
  <2>1. Swept(c) => InPlace(c, <<"swept", 0>>)
    BY DEF InPlace
  <2> QED
    BY <1>3, <2>1
<1> QED
  BY <1>4, <1>5, <1>6, <1>7, <1>8

LEMMA OnlyParked ==
  ASSUME NEW c \in Conns, Fits(c), Parks(c)
  PROVE  /\ \A u \in Threads : ~Calls(c, u)
         /\ \A g \in Ids : ~Plays(c, g)
         /\ ~Reaped(c) /\ ~Swept(c)
<1>1. \A u \in Threads : ~Calls(c, u)
  BY OnlyInCall
<1>2. \A p, q : InPlace(c, p) /\ InPlace(c, q) => p = q
  BY PlacesAre DEF Fits
<1>3. InPlace(c, <<"parked", 0>>)
  BY DEF InPlace
<1>4. \A p : InPlace(c, p) => p = <<"parked", 0>>
  BY <1>2, <1>3
<1>5. ASSUME NEW g \in Ids PROVE ~Plays(c, g)
  <2>1. Plays(c, g) => InPlace(c, <<"game", g>>)
    BY DEF InPlace
  <2>2. <<"game", g>> # <<"parked", 0>>
    OBVIOUS
  <2> QED
    BY <1>4, <2>1, <2>2
<1>6. ~Reaped(c)
  <2>1. Reaped(c) => InPlace(c, <<"reaped", 0>>)
    BY DEF InPlace
  <2> QED
    BY <1>4, <2>1
<1>7. ~Swept(c)
  <2>1. Swept(c) => InPlace(c, <<"swept", 0>>)
    BY DEF InPlace
  <2> QED
    BY <1>4, <2>1
<1> QED
  BY <1>1, <1>5, <1>6, <1>7

LEMMA OffIsNowhere ==
  ASSUME NEW c \in Conns, Fits(c), stage[c] = "off", at[c] # "hello"
  PROVE  Nowhere(c)
<1>1. \A p : ~InPlace(c, p)
  BY PlacesAre DEF Fits
<1>2. ASSUME NEW t \in Threads PROVE ~Calls(c, t)
  BY <1>1 DEF InPlace
<1>3. ASSUME NEW g \in Ids PROVE ~Plays(c, g)
  BY <1>1 DEF InPlace
<1>4. ~Parks(c) /\ ~Reaped(c) /\ ~Swept(c)
  BY <1>1 DEF InPlace
<1> QED
  BY <1>2, <1>3, <1>4 DEF Nowhere

-----------------------------------------------------------------------------
(* What a step leaves of a connection's fit.                                 *)

LEMMA OnePlaceNext ==
  ASSUME NEW c \in Conns, NEW p, InPlace(c, p)', \A q : InPlace(c, q)' => q = p
  PROVE  Places(c)' = {p}
BY PlacesAreNext

LEMMA FitsNext ==
  ASSUME NEW c \in Conns, Fits(c),
         Places(c)' \subseteq Places(c) \/ \E p : Places(c)' = {p},
         c \in Live' => Places(c)' # {},
         stage'[c] = "off" /\ at'[c] # "hello" => Places(c)' = {},
         at'[c] = "hello" => stage'[c] = "off",
         at'[c] = "joining" => stage'[c] \in {"in", "broken"}
  PROVE  Fits(c)'
<1>1. \A p, q \in Places(c)' : p = q
  BY DEF Fits
<1> QED
  BY <1>1 DEF Fits

(* It stays where it is; or it is over, whether or not it loses its place.   *)
LEMMA FitsIfKept ==
  ASSUME NEW c \in Conns, Fits(c), Places(c)' = Places(c), c \in Live' => c \in Live,
         stage'[c] = stage[c],
         at'[c] = at[c] \/ (/\ at[c] \notin {"hello", "joining"}
                            /\ at'[c] \notin {"hello", "joining"})
  PROVE  Fits(c)'
<1>1. /\ c \in Live' => Places(c)' # {}
      /\ stage'[c] = "off" /\ at'[c] # "hello" => Places(c)' = {}
      /\ at'[c] = "hello" => stage'[c] = "off"
      /\ at'[c] = "joining" => stage'[c] \in {"in", "broken"}
  BY DEF Fits
<1> QED
  BY <1>1, FitsNext

LEMMA FitsIfLost ==
  ASSUME NEW c \in Conns, Fits(c), Places(c)' \subseteq Places(c), c \notin Live',
         at'[c] = at[c] /\ stage'[c] = stage[c]
  PROVE  Fits(c)'
<1>1. /\ c \in Live' => Places(c)' # {}
      /\ stage'[c] = "off" /\ at'[c] # "hello" => Places(c)' = {}
      /\ at'[c] = "hello" => stage'[c] = "off"
      /\ at'[c] = "joining" => stage'[c] \in {"in", "broken"}
  BY DEF Fits
<1> QED
  BY <1>1, FitsNext

(* Nothing of where people are changes.                                      *)
LEMMA NobodyMoves ==
  ASSUME NEW c \in Conns, Fits(c), c \in Live' => c \in Live,
         \A t \in Threads : ConnsOf(party'[t]) = ConnsOf(party[t]),
         \A g \in Ids : ConnsOf(seats'[g]) = ConnsOf(seats[g]),
         \A g \in Ids : phase'[g] \in {"made", "playing"} <=> phase[g] \in {"made", "playing"},
         parked' = parked, stopping' = stopping, expired' = expired,
         sweep'.conns = sweep.conns, stage'[c] = stage[c],
         at'[c] = at[c] \/ (/\ at[c] \notin {"hello", "joining"}
                            /\ at'[c] \notin {"hello", "joining"})
  PROVE  Fits(c)'
<1>1. \A t \in Threads : Calls(c, t)' <=> Calls(c, t)
  BY DEF Calls, ConnsOf
<1>2. \A g \in Ids : Plays(c, g)' <=> Plays(c, g)
  BY DEF Plays, ConnsOf
<1>3. /\ Parks(c)' <=> Parks(c)
      /\ Reaped(c)' <=> Reaped(c)
      /\ Swept(c)' <=> Swept(c)
  BY DEF Parks, Reaped, Swept
<1>4. Places(c)' = Places(c)
  BY <1>1, <1>2, <1>3, PlacesKept
<1> QED
  BY <1>4, FitsIfKept

LEMMA UnparkedIs ==
  ASSUME parked \in Seq(Conns), IsInjective(parked), NEW cs
  PROVE  /\ Unparked(cs) \in Seq(Conns) /\ IsInjective(Unparked(cs))
         /\ Range(Unparked(cs)) = Range(parked) \ cs
         /\ parked = <<>> => Unparked(cs) = <<>>
<1>1. Range(parked) \subseteq Conns
  BY ElementsOfSeq
<1>2. /\ Unparked(cs) \in Seq(Conns) /\ IsInjective(Unparked(cs))
      /\ Range(Unparked(cs)) = Range(parked) \cap (Conns \ cs)
  BY ThoseAre DEF Unparked
<1>3. parked = <<>> => Unparked(cs) = <<>>
  <2> SUFFICES ASSUME parked = <<>> PROVE Unparked(cs) = <<>>
    OBVIOUS
  <2>1. Range(parked) = {}
    BY DEF Range
  <2> DEFINE u == Unparked(cs)
  <2>2. u \in Seq(Conns) /\ Range(u) = {}
    BY <1>2, <2>1
  <2> HIDE DEF u
  <2>3. Len(u) \in Nat /\ DOMAIN u = 1 .. Len(u)
    BY <2>2, LenProperties
  <2>0. \A i \in DOMAIN u : u[i] \in Range(u)
    BY DEF Range
  <2>4. Len(u) = 0
    BY <2>0, <2>2, <2>3
  <2> QED
    BY <2>2, <2>4, EmptySeq DEF u
<1> QED
  BY <1>1, <1>2, <1>3

-----------------------------------------------------------------------------
(* Every step keeps the invariant.                                           *)

LEMMA DialKeeps ==
  ASSUME PlacesInv, NEW c \in Conns, Dial(c)
  PROVE  PlacesInv'
<1>1. \A d \in Conns : d \in Threads /\ d # Main
  BY ConnsAre DEF Threads
<1>2. /\ stage[c] = "off" /\ at[c] = "out" /\ at' = [at EXCEPT ![c] = "hello"]
      /\ UNCHANGED <<conns, party, game, table, atomics, games, expired, mains>>
  BY DEF Dial
<1>3. UNCHANGED <<stage, gone, ended, stray, party, parked, groupGames, stopping, gameCounter,
                  seats, phase, expired, main, sweep>>
  BY <1>2 DEF conns, table, atomics, games, mains
<1>4. Types'
  BY <1>1, <1>2, <1>3 DEF PlacesInv, Types, Steps
<1>5. at'[Main] = at[Main] /\ \A t \in Threads : t # c => at'[t] = at[t]
  BY <1>1, <1>2 DEF PlacesInv, Types, Threads
<1>6. at'[c] = "hello"
  BY <1>1, <1>2 DEF PlacesInv, Types
<1>7. Phases'
  BY <1>2, <1>3, <1>5, <1>6 DEF PlacesInv, Phases
<1>8. ASSUME NEW d \in Conns PROVE Fits(d)'
  <2>1. Fits(d)
    BY DEF PlacesInv, EveryoneFits
  <2>2. CASE d = c
    <3>1. Nowhere(c)
      BY <1>2, <2>1, <2>2, OffIsNowhere
    <3>2. /\ \A t \in Threads : Calls(c, t)' <=> t = c
          /\ \A g \in Ids : ~Plays(c, g)'
          /\ ~Parks(c)' /\ ~Reaped(c)' /\ ~Swept(c)'
      BY <1>3, <1>6, <3>1 DEF Nowhere, Calls, Plays, Parks, Reaped, Swept, ConnsOf
    <3>3. Places(c)' = {<<"call", c>>}
      <4>1. InPlace(c, <<"call", c>>)' /\ \A q : InPlace(c, q)' => q = <<"call", c>>
        BY <1>1, <3>2 DEF InPlace
      <4> QED
        BY <4>1, OnePlaceNext
    <3>4. stage'[c] = "off"
      BY <1>2, <1>3
    <3> QED
      BY <1>6, <2>1, <2>2, <3>3, <3>4, FitsNext
  <2>3. CASE d # c
    <3>1. at'[d] = at[d]
      BY <1>1, <1>5, <2>3
    <3>2. d \in Live' => d \in Live
      BY <1>3, <3>1 DEF Live
    <3> QED
      BY <1>3, <2>1, <3>1, <3>2, NobodyMoves
  <2> QED
    BY <2>2, <2>3
<1> QED
  BY <1>4, <1>7, <1>8 DEF PlacesInv, EveryoneFits

LEMMA DisconnectKeeps ==
  ASSUME PlacesInv, NEW c \in Conns, Disconnect(c)
  PROVE  PlacesInv'
<1>1. /\ stage[c] = "in" /\ stage' = [stage EXCEPT ![c] = "broken"] /\ gone' = gone \cup {c}
      /\ parked' = Unparked({c})
      /\ UNCHANGED <<ended, stray, at, party, groupGames, stopping, gameCounter, seats, phase,
                     expired, main, sweep>>
  BY DEF Disconnect, joins, atomics, games, mains
<1>2. /\ parked' \in Seq(Conns) /\ IsInjective(parked') /\ Range(parked') = Range(parked) \ {c}
      /\ parked = <<>> => parked' = <<>>
  BY <1>1, UnparkedIs DEF PlacesInv, Types
<1>3. Types'
  BY <1>1, <1>2 DEF PlacesInv, Types
<1>4. Phases'
  BY <1>1, <1>2 DEF PlacesInv, Phases
<1>5. ASSUME NEW d \in Conns PROVE Fits(d)'
  <2>1. Fits(d)
    BY DEF PlacesInv, EveryoneFits
  <2>2. /\ \A t \in Threads : Calls(d, t)' <=> Calls(d, t)
        /\ \A g \in Ids : Plays(d, g)' <=> Plays(d, g)
        /\ Reaped(d)' <=> Reaped(d)
        /\ Swept(d)' <=> Swept(d)
    BY <1>1 DEF Calls, Plays, Reaped, Swept, ConnsOf
  <2>3. CASE d = c
    <3>1. Parks(d)' => Parks(d)
      BY <1>1, <1>2 DEF Parks
    <3>2. Places(d)' \subseteq Places(d)
      BY <2>2, <3>1, PlacesLost
    <3>3. d \notin Live' /\ stage'[d] = "broken" /\ at'[d] = at[d] /\ at[d] # "hello"
      BY <1>1, <2>1, <2>3 DEF Live, PlacesInv, Types, Fits
    <3> QED
      BY <2>1, <3>2, <3>3, FitsNext
  <2>4. CASE d # c
    <3>1. Parks(d)' <=> Parks(d)
      BY <1>1, <1>2, <2>4 DEF Parks
    <3>2. Places(d)' = Places(d)
      BY <2>2, <3>1, PlacesKept
    <3>3. stage'[d] = stage[d] /\ at'[d] = at[d] /\ (d \in Live' => d \in Live)
      BY <1>1, <2>4 DEF Live, PlacesInv, Types
    <3> QED
      BY <2>1, <3>2, <3>3, FitsIfKept
  <2> QED
    BY <2>3, <2>4
<1> QED
  BY <1>3, <1>4, <1>5 DEF PlacesInv, EveryoneFits

(* A Join that is refused is over.                                           *)
LEMMA RefuseKeeps ==
  ASSUME PlacesInv, NEW c \in Conns, at[c] \in {"hello", "joining"}, NEW cs \in SUBSET gone,
         parked' = parked \/ parked' = Unparked(cs),
         stage' = [stage EXCEPT ![c] = "refused"], ended' = ended \cup {c},
         at' = [at EXCEPT ![c] = "out"],
         UNCHANGED <<gone, stray, party, groupGames, stopping, gameCounter, seats, phase,
                     expired, main, sweep>>
  PROVE  PlacesInv'
<1>1. \A d \in Conns : d \in Threads /\ d # Main
  BY ConnsAre DEF Threads
<1>2. /\ parked' \in Seq(Conns) /\ IsInjective(parked')
      /\ Range(parked') \subseteq Range(parked)
      /\ Range(parked) \ gone \subseteq Range(parked')
      /\ parked = <<>> => parked' = <<>>
  BY UnparkedIs DEF PlacesInv, Types
<1>3. Types'
  BY <1>1, <1>2 DEF PlacesInv, Types, Steps
<1>4. at'[Main] = at[Main] /\ at'[c] = "out" /\ \A t \in Threads : t # c => at'[t] = at[t]
  BY <1>1 DEF PlacesInv, Types, Threads
<1>5. Phases'
  BY <1>1, <1>2, <1>4 DEF PlacesInv, Phases
<1>6. ASSUME NEW d \in Conns PROVE Fits(d)'
  <2>1. Fits(d)
    BY DEF PlacesInv, EveryoneFits
  <2>2. /\ \A g \in Ids : Plays(d, g)' <=> Plays(d, g)
        /\ Reaped(d)' <=> Reaped(d)
        /\ Swept(d)' <=> Swept(d)
    BY DEF Plays, Reaped, Swept, ConnsOf
  <2>3. Parks(d)' => Parks(d)
    BY <1>2 DEF Parks
  <2>4. \A t \in Threads : Calls(d, t)' => Calls(d, t)
    BY <1>4 DEF Calls, ConnsOf
  <2>5. Places(d)' \subseteq Places(d)
    BY <2>2, <2>3, <2>4, PlacesLost
  <2>6. CASE d = c
    <3>1. d \notin Live' /\ stage'[d] = "refused" /\ at'[d] = "out"
      BY <1>4, <2>6 DEF Live, PlacesInv, Types
    <3> QED
      BY <2>1, <2>5, <3>1, FitsNext
  <2>7. CASE d # c
    <3>1. stage'[d] = stage[d] /\ at'[d] = at[d]
      BY <1>1, <1>4, <2>7 DEF PlacesInv, Types
    <3>2. CASE d \in gone
      <4>1. d \notin Live'
        BY <3>2 DEF Live
      <4> QED
        BY <2>1, <2>5, <3>1, <4>1, FitsIfLost
    <3>3. CASE d \notin gone
      <4>1. Parks(d)' <=> Parks(d)
        BY <1>2, <3>3 DEF Parks
      <4>2. \A t \in Threads : Calls(d, t)' <=> Calls(d, t)
        BY <2>7, <3>1 DEF Calls, ConnsOf
      <4>3. Places(d)' = Places(d)
        BY <2>2, <4>1, <4>2, PlacesKept
      <4>4. d \in Live' => d \in Live
        BY <3>1, <2>7 DEF Live
      <4> QED
        BY <2>1, <3>1, <4>3, <4>4, FitsIfKept
    <3> QED
      BY <3>2, <3>3
  <2> QED
    BY <2>6, <2>7
<1> QED
  BY <1>3, <1>5, <1>6 DEF PlacesInv, EveryoneFits

LEMMA AloneIs ==
  ASSUME stray \in Strays, NEW c \in Conns
  PROVE  LET m == Append(BuiltinsOf(c), Member(HelloOf(c).name, c))
         IN  /\ m \in Seq(Members) /\ m # <<>> /\ ConnsOf(m) = {c}
             /\ NamesOf(m) = Named(HelloOf(c), "builtin") \o <<HelloOf(c).name>>
             /\ HelloOf(c).name \in Nat
<1> DEFINE specs == Named(HelloOf(c), "builtin")
           builtins == BuiltinsOf(c)
           me == Member(HelloOf(c).name, c)
           all == <<c>>
           bots == [i \in DOMAIN all |-> Member(HelloOf(all[i]).name, all[i])]
           names == [i \in DOMAIN all |-> HelloOf(all[i]).name]
<1>1. HelloOf(c).name \in Nat
  BY HelloOfIsAHello, HellosAre DEF AHello
<1>2. builtins \in Seq(Members)
  <2>1. specs \in Seq(Nat) /\ Len(specs) \in Nat /\ DOMAIN specs = 1 .. Len(specs)
        /\ \A i \in 1 .. Len(specs) : specs[i] \in Nat
    BY HelloOfIsAHello, HellosAre, NamedAre, ElementsOfSeq
  <2>2. builtins = [i \in 1 .. Len(specs) |-> Member(specs[i], NoConn)]
    BY <2>1 DEF BuiltinsOf
  <2> HIDE DEF specs
  <2>3. builtins \in [1 .. Len(specs) -> Members]
    BY <2>1, <2>2 DEF Members, Member
  <2> HIDE DEF builtins
  <2> QED
    BY <2>1, <2>3, FunctionIsASeq
<1>3. me \in Members
  BY <1>1 DEF Members, Member
<1>4. all \in Seq(Conns) /\ Len(all) = 1 /\ DOMAIN all = {1} /\ all[1] = c /\ Range(all) = {c}
  BY DEF Range
<1>5. bots = <<me>>
  OBVIOUS
<1>6. names = <<HelloOf(c).name>>
  OBVIOUS
<1>7. Append(builtins, me) = builtins \o bots
  <2> HIDE DEF builtins, me, bots
  <2> QED
    BY <1>2, <1>3, <1>5, AppendIsConcat
<1>8. /\ builtins \o bots \in Seq(Members) /\ builtins \o bots # <<>>
      /\ NamesOf(builtins \o bots) = specs \o names
      /\ ConnsOf(builtins \o bots) = Range(all)
  <2> HIDE DEF all
  <2>1. Len(all) # 0
    BY <1>4
  <2> QED
    BY <1>4, <2>1, PartyIs
<1> HIDE DEF builtins, me, bots, names, specs, all
<1>9. /\ Append(builtins, me) \in Seq(Members) /\ Append(builtins, me) # <<>>
      /\ NamesOf(Append(builtins, me)) = specs \o <<HelloOf(c).name>>
      /\ ConnsOf(Append(builtins, me)) = {c}
  BY <1>4, <1>6, <1>7, <1>8
<1> QED
  BY <1>1, <1>9 DEF builtins, me, specs

(* A Join that completes a group takes everyone along.                       *)
LEMMA GroupedKeeps ==
  ASSUME PlacesInv, NEW c \in Conns, at[c] \in {"hello", "joining"},
         NEW m \in Seq(Members), m # <<>>, c \in ConnsOf(m),
         \A d \in ConnsOf(m) : d = c \/ Parks(d),
         \/ parked' = parked /\ ConnsOf(m) = {c}
         \/ \E cs : /\ parked' = Unparked(cs) /\ ConnsOf(m) \subseteq cs \cup {c}
                    /\ \A d \in cs \cap Range(parked) : d \in gone \/ d \in ConnsOf(m),
         \/ stage' = [stage EXCEPT ![c] = "in"]
         \/ stage' = stage /\ at[c] = "joining",
         at' = [at EXCEPT ![c] = "grouped"], party' = [party EXCEPT ![c] = m],
         UNCHANGED <<gone, ended, stray, groupGames, stopping, gameCounter, seats, phase,
                     expired, main, sweep>>
  PROVE  PlacesInv'
<1>1. \A d \in Conns : d \in Threads /\ d # Main
  BY ConnsAre DEF Threads
<1>2. /\ parked' \in Seq(Conns) /\ IsInjective(parked')
      /\ Range(parked') \subseteq Range(parked)
      /\ parked = <<>> => parked' = <<>>
      /\ \A d \in ConnsOf(m) : d # c => d \notin Range(parked')
      /\ \A d \in Range(parked) : d \notin gone /\ d \notin ConnsOf(m) => d \in Range(parked')
  <2>1. CASE parked' = parked /\ ConnsOf(m) = {c}
    BY <2>1 DEF PlacesInv, Types
  <2>2. CASE \E cs : /\ parked' = Unparked(cs) /\ ConnsOf(m) \subseteq cs \cup {c}
                     /\ \A d \in cs \cap Range(parked) : d \in gone \/ d \in ConnsOf(m)
    <3>0. PICK cs : /\ parked' = Unparked(cs) /\ ConnsOf(m) \subseteq cs \cup {c}
                    /\ \A d \in cs \cap Range(parked) : d \in gone \/ d \in ConnsOf(m)
      BY <2>2
    <3>1. parked \in Seq(Conns) /\ IsInjective(parked)
      BY DEF PlacesInv, Types
    <3>2. /\ parked' \in Seq(Conns) /\ IsInjective(parked')
          /\ Range(parked') = Range(parked) \ cs
          /\ parked = <<>> => parked' = <<>>
      BY <3>0, <3>1, UnparkedIs
    <3> QED
      BY <3>0, <3>2
  <2> QED
    BY <2>1, <2>2
<1>3. Types'
  BY <1>1, <1>2 DEF PlacesInv, Types, Steps
<1>4. /\ at'[Main] = at[Main] /\ at'[c] = "grouped" /\ party'[c] = m
      /\ \A t \in Threads : t # c => at'[t] = at[t] /\ party'[t] = party[t]
  BY <1>1 DEF PlacesInv, Types, Threads
<1>5. Phases'
  BY <1>1, <1>2, <1>4 DEF PlacesInv, Phases
<1>6. stage'[c] \in {"in", "broken"} /\ \A d \in Conns : d # c => stage'[d] = stage[d]
  BY DEF PlacesInv, Types, EveryoneFits, Fits
<1>7. ConnsOf(party[c]) = {}
  <2>1. party[c] = <<>>
    BY <1>1 DEF PlacesInv, Phases
  <2> QED
    BY <2>1 DEF ConnsOf
<1>8. ASSUME NEW d \in Conns PROVE Fits(d)'
  <2>1. Fits(d)
    BY DEF PlacesInv, EveryoneFits
  <2>2. /\ \A g \in Ids : Plays(d, g)' <=> Plays(d, g)
        /\ Reaped(d)' <=> Reaped(d)
        /\ Swept(d)' <=> Swept(d)
    BY DEF Plays, Reaped, Swept, ConnsOf
  <2>3. Parks(d)' => Parks(d)
    BY <1>2 DEF Parks
  <2>4. \A t \in Threads : t # c => (Calls(d, t)' <=> Calls(d, t))
    BY <1>1, <1>4 DEF Calls, ConnsOf
  <2>5. Calls(d, c)' <=> d \in ConnsOf(m)
    BY <1>4 DEF Calls, ConnsOf
  <2>6. CASE d \in ConnsOf(m)
    <3>1. Nowhere(d) \/ Calls(d, c) \/ Parks(d)
      BY <2>6 DEF Calls
    <3>2. /\ \A t \in Threads : Calls(d, t)' => t = c
          /\ \A g \in Ids : ~Plays(d, g)'
          /\ ~Parks(d)' /\ ~Reaped(d)' /\ ~Swept(d)'
      <4>1. CASE d = c
        <5>1. Calls(d, c)
          BY <4>1 DEF Calls
        <5> QED
          BY <1>1, <2>1, <2>2, <2>3, <2>4, <5>1, OnlyInCall
      <4>2. CASE d # c
        <5>1. Parks(d) /\ ~Parks(d)'
          BY <1>2, <2>6, <4>2 DEF Parks
        <5> QED
          BY <2>1, <2>2, <2>4, <5>1, OnlyParked
      <4> QED
        BY <4>1, <4>2
    <3>3. Places(d)' = {<<"call", c>>}
      <4>1. InPlace(d, <<"call", c>>)' /\ \A q : InPlace(d, q)' => q = <<"call", c>>
        BY <1>1, <2>5, <2>6, <3>2 DEF InPlace
      <4> QED
        BY <4>1, OnePlaceNext
    <3>4. CASE d = c
      BY <1>4, <1>6, <2>1, <3>3, <3>4, FitsNext
    <3>5. CASE d # c
      <4>1. at'[d] = at[d] /\ stage'[d] = stage[d]
        BY <1>1, <1>4, <1>6, <3>5
      <4>2. ~(stage[d] = "off" /\ at[d] # "hello")
        BY <2>1, <2>6, <3>5, OffIsNowhere DEF Nowhere
      <4>3. (at[d] = "hello" => stage[d] = "off")
            /\ (at[d] = "joining" => stage[d] \in {"in", "broken"})
        BY <2>1 DEF Fits
      <4> QED
        BY <2>1, <3>3, <4>1, <4>2, <4>3, FitsNext
    <3> QED
      BY <3>4, <3>5
  <2>7. CASE d \notin ConnsOf(m)
    <3>1. d # c /\ at'[d] = at[d] /\ stage'[d] = stage[d]
      BY <1>1, <1>4, <1>6, <2>7
    <3>2. Calls(d, c)' <=> Calls(d, c)
      BY <1>7, <2>5, <2>7, <3>1 DEF Calls
    <3>3. CASE d \in gone
      <4>1. Places(d)' \subseteq Places(d)
        BY <2>2, <2>3, <2>4, <3>2, PlacesLost
      <4>2. d \notin Live'
        BY <3>3 DEF Live
      <4> QED
        BY <2>1, <3>1, <4>1, <4>2, FitsIfLost
    <3>4. CASE d \notin gone
      <4>1. Parks(d)' <=> Parks(d)
        BY <1>2, <2>7, <3>4 DEF Parks
      <4>2. Places(d)' = Places(d)
        BY <2>2, <2>4, <3>2, <4>1, PlacesKept
      <4>3. d \in Live' => d \in Live
        BY <3>1 DEF Live
      <4> QED
        BY <2>1, <3>1, <4>2, <4>3, FitsIfKept
    <3> QED
      BY <3>3, <3>4
  <2> QED
    BY <2>6, <2>7
<1> QED
  BY <1>3, <1>5, <1>8 DEF PlacesInv, EveryoneFits

LEMMA JoinKeeps ==
  ASSUME PlacesInv, NEW c \in Conns, Join(c)
  PROVE  PlacesInv'
<1>1. at[c] = "hello"
  BY DEF Join
<1>2. CASE Refuse(c)
  <2>1. /\ stage' = [stage EXCEPT ![c] = "refused"] /\ ended' = ended \cup {c}
        /\ at' = [at EXCEPT ![c] = "out"] /\ parked' = parked
        /\ UNCHANGED <<gone, stray, party, groupGames, stopping, gameCounter, seats, phase,
                       expired, main, sweep>>
    BY <1>2 DEF Refuse, table, atomics, games, mains
  <2>2. {} \in SUBSET gone
    OBVIOUS
  <2> QED
    BY <1>1, <2>1, <2>2, RefuseKeeps
<1>3. CASE ~Refuse(c)
  <2>1. /\ \/ Grouped(c, Append(BuiltinsOf(c), Member(HelloOf(c).name, c)))
           \/ at' = [at EXCEPT ![c] = "joining"] /\ UNCHANGED party
        /\ stage' = [stage EXCEPT ![c] = "in"]
        /\ UNCHANGED <<gone, stray, ended, parked, groupGames, stopping, gameCounter, seats,
                       phase, expired, main, sweep>>
    BY <1>3 DEF Join, table, atomics, games, mains
  <2>2. CASE Grouped(c, Append(BuiltinsOf(c), Member(HelloOf(c).name, c)))
    <3> DEFINE m == Append(BuiltinsOf(c), Member(HelloOf(c).name, c))
    <3>1. m \in Seq(Members) /\ m # <<>> /\ ConnsOf(m) = {c}
      BY AloneIs DEF PlacesInv, Types
    <3>2. at' = [at EXCEPT ![c] = "grouped"] /\ party' = [party EXCEPT ![c] = m]
      BY <2>2 DEF Grouped
    <3> HIDE DEF m
    <3>3. /\ c \in ConnsOf(m) /\ \A d \in ConnsOf(m) : d = c \/ Parks(d)
      BY <3>1
    <3> QED
      BY <1>1, <2>1, <3>1, <3>2, <3>3, GroupedKeeps
  <2>3. CASE at' = [at EXCEPT ![c] = "joining"] /\ UNCHANGED party
    <3>1. \A d \in Conns : d \in Threads /\ d # Main
      BY ConnsAre DEF Threads
    <3>2. Types'
      BY <2>1, <2>3, <3>1 DEF PlacesInv, Types, Steps
    <3>3. /\ at'[Main] = at[Main] /\ at'[c] = "joining" /\ stage'[c] = "in"
          /\ \A t \in Threads : t # c => at'[t] = at[t]
          /\ \A d \in Conns : d # c => stage'[d] = stage[d]
      BY <2>1, <2>3, <3>1 DEF PlacesInv, Types, Threads
    <3>4. Phases'
      BY <1>1, <2>1, <2>3, <3>1, <3>3 DEF PlacesInv, Phases
    <3>5. ASSUME NEW d \in Conns PROVE Fits(d)'
      <4>1. Fits(d)
        BY DEF PlacesInv, EveryoneFits
      <4>2. CASE d = c
        <5>1. \A t \in Threads : Calls(d, t)' <=> Calls(d, t)
          BY <1>1, <2>3, <3>3, <4>2 DEF Calls, ConnsOf
        <5>2. /\ \A g \in Ids : Plays(d, g)' <=> Plays(d, g)
              /\ Parks(d)' <=> Parks(d)
              /\ Reaped(d)' <=> Reaped(d)
              /\ Swept(d)' <=> Swept(d)
          BY <2>1 DEF Plays, Parks, Reaped, Swept, ConnsOf
        <5>3. Places(d)' = Places(d)
          BY <5>1, <5>2, PlacesKept
        <5>4. Places(d) # {}
          <6>1. InPlace(d, <<"call", d>>)
            BY <1>1, <3>1, <4>2 DEF InPlace, Calls
          <6> QED
            BY <6>1, PlacesAre
        <5> QED
          BY <3>3, <4>1, <4>2, <5>3, <5>4, FitsNext
      <4>3. CASE d # c
        <5>1. at'[d] = at[d] /\ stage'[d] = stage[d]
          BY <3>1, <3>3, <4>3
        <5>2. d \in Live' => d \in Live
          BY <2>1, <5>1 DEF Live
        <5> QED
          BY <2>1, <2>3, <4>1, <5>1, <5>2, NobodyMoves
      <4> QED
        BY <4>2, <4>3
    <3> QED
      BY <3>2, <3>4, <3>5 DEF PlacesInv, EveryoneFits
  <2> QED
    BY <2>1, <2>2, <2>3
<1> QED
  BY <1>2, <1>3

LEMMA WaitingIs ==
  ASSUME parked \in Seq(Conns), IsInjective(parked), NEW c \in Conns
  PROVE  /\ Waiting(c) \in Seq(Conns) /\ IsInjective(Waiting(c))
         /\ Range(Group(c)) = {d \in Range(parked) : KeyOf(d) = KeyOf(c)}
         /\ Range(Waiting(c)) = Range(Group(c)) \ gone
<1> DEFINE S == {d \in Range(parked) : KeyOf(d) = KeyOf(c)}
<1>1. /\ Group(c) \in Seq(Conns) /\ IsInjective(Group(c))
      /\ Range(Group(c)) = Range(parked) \cap S
  <2> HIDE DEF S
  <2>1. Group(c) = Those(parked, S)
    BY DEF Group, S
  <2> QED
    BY <2>1, ThoseAre
<1>2. Range(Group(c)) \subseteq Conns
  BY <1>1, ElementsOfSeq
<1>3. /\ Waiting(c) \in Seq(Conns) /\ IsInjective(Waiting(c))
      /\ Range(Waiting(c)) = Range(Group(c)) \cap (Conns \ gone)
  BY <1>1, ThoseAre DEF Waiting
<1> QED
  BY <1>1, <1>2, <1>3

LEMMA JoinRendezvousKeeps ==
  ASSUME PlacesInv, NEW c \in Conns, JoinRendezvous(c)
  PROVE  PlacesInv'
<1> DEFINE dead == {d \in gone : KeyOf(d) = KeyOf(c)}
           all == Append(Waiting(c), c)
           m == BuiltinsOf(c) \o [i \in DOMAIN all |-> Member(HelloOf(all[i]).name, all[i])]
<1>1. at[c] = "joining" /\ dead \in SUBSET gone
  BY DEF JoinRendezvous
<1>2. CASE TooLate
  <2>1. Refuse(c)
    BY <1>2 DEF JoinRendezvous
  <2>2. /\ stage' = [stage EXCEPT ![c] = "refused"] /\ ended' = ended \cup {c}
        /\ at' = [at EXCEPT ![c] = "out"] /\ parked' = parked
        /\ UNCHANGED <<gone, stray, party, groupGames, stopping, gameCounter, seats, phase,
                       expired, main, sweep>>
    BY <2>1 DEF Refuse, table, atomics, games, mains
  <2>3. {} \in SUBSET gone
    OBVIOUS
  <2> QED
    BY <1>1, <2>2, <2>3, RefuseKeeps
<1>3. CASE ~TooLate
  <2>1. ~stopping
    BY <1>3 DEF TooLate
  <2>2. UNCHANGED <<gone, stray, groupGames, stopping, gameCounter, seats, phase, expired,
                    main, sweep>>
    BY <1>3 DEF JoinRendezvous, atomics, games, mains
  <2>3. CASE Duplicate(c)
    <3>1. /\ parked' = Unparked(dead)
          /\ stage' = [stage EXCEPT ![c] = "refused"] /\ ended' = ended \cup {c}
          /\ at' = [at EXCEPT ![c] = "out"] /\ UNCHANGED party
      BY <1>3, <2>3 DEF JoinRendezvous
    <3> HIDE DEF dead
    <3> QED
      BY <1>1, <2>2, <3>1, RefuseKeeps
  <2>4. CASE ~Duplicate(c)
    <3>1. /\ UNCHANGED <<stage, ended>>
          /\ \/ /\ parked' = Append(Unparked(dead), c)
                /\ at' = [at EXCEPT ![c] = "out"] /\ UNCHANGED party
             \/ /\ parked' = Unparked(Range(Group(c)))
                /\ at' = [at EXCEPT ![c] = "grouped"] /\ party' = [party EXCEPT ![c] = m]
      BY <1>3, <2>4 DEF JoinRendezvous, Grouped
    <3>2. CASE /\ parked' = Append(Unparked(dead), c)
               /\ at' = [at EXCEPT ![c] = "out"] /\ UNCHANGED party
      <4>1. \A d \in Conns : d \in Threads /\ d # Main
        BY ConnsAre DEF Threads
      <4>2. Calls(c, c) /\ c \notin Range(parked)
        <5>1. Calls(c, c)
          BY <1>1 DEF Calls
        <5> QED
          BY <2>1, <4>1, <5>1, OnlyInCall DEF PlacesInv, EveryoneFits, Parks
      <4>3. /\ Unparked(dead) \in Seq(Conns) /\ IsInjective(Unparked(dead))
            /\ Range(Unparked(dead)) = Range(parked) \ dead
        BY UnparkedIs DEF PlacesInv, Types
      <4> HIDE DEF dead, all, m
      <4>4. /\ parked' \in Seq(Conns) /\ IsInjective(parked')
            /\ Range(parked') = (Range(parked) \ dead) \cup {c}
        <5> DEFINE u == Unparked(dead)
        <5> HIDE DEF u
        <5>1. u \in Seq(Conns) /\ IsInjective(u) /\ c \notin Range(u)
          BY <4>2, <4>3 DEF u
        <5>2. Append(u, c) \in Seq(Conns) /\ Range(Append(u, c)) = Range(u) \cup {c}
              /\ (IsInjective(u) /\ c \notin Range(u) => IsInjective(Append(u, c)))
          BY <5>1, AppendIsSet
        <5> QED
          BY <3>2, <4>3, <5>1, <5>2 DEF u
      <4>5. Types'
        BY <2>2, <3>1, <3>2, <4>1, <4>4 DEF PlacesInv, Types, Steps
      <4>6. /\ at'[Main] = at[Main] /\ at'[c] = "out"
            /\ \A t \in Threads : t # c => at'[t] = at[t]
        BY <3>2, <4>1 DEF PlacesInv, Types, Threads
      <4>7. Phases'
        BY <1>1, <2>1, <2>2, <3>2, <4>1, <4>6 DEF PlacesInv, Phases
      <4>8. ASSUME NEW d \in Conns PROVE Fits(d)'
        <5>1. Fits(d)
          BY DEF PlacesInv, EveryoneFits
        <5>2. /\ \A g \in Ids : Plays(d, g)' <=> Plays(d, g)
              /\ Reaped(d)' <=> Reaped(d)
              /\ Swept(d)' <=> Swept(d)
          BY <2>2 DEF Plays, Reaped, Swept, ConnsOf
        <5>3. CASE d = c
          <6>1. party[c] = <<>> /\ stage[c] \in {"in", "broken"} /\ stage' = stage
            BY <1>1, <3>1, <4>1 DEF PlacesInv, Phases, EveryoneFits, Fits
          <6>2. Parks(d)'
            BY <2>1, <2>2, <4>4, <5>3 DEF Parks
          <6>3. \A t \in Threads : ~Calls(d, t)'
            <7>1. ~Calls(d, c)'
              BY <3>2, <4>6, <5>3, <6>1 DEF Calls, ConnsOf
            <7>2. \A t \in Threads : t # c => ~Calls(d, t)
              BY <4>1, <4>2, <5>1, <5>3, OnlyInCall
            <7>3. \A t \in Threads : t # c => (Calls(d, t)' <=> Calls(d, t))
              BY <3>2, <5>3 DEF Calls, ConnsOf
            <7> QED
              BY <7>1, <7>2, <7>3
          <6>4. /\ \A g \in Ids : ~Plays(d, g)'
                /\ ~Reaped(d)' /\ ~Swept(d)'
            BY <4>1, <4>2, <5>1, <5>2, <5>3, OnlyInCall
          <6>5. Places(d)' = {<<"parked", 0>>}
            <7>1. InPlace(d, <<"parked", 0>>)' /\ \A q : InPlace(d, q)' => q = <<"parked", 0>>
              BY <6>2, <6>3, <6>4 DEF InPlace
            <7> QED
              BY <7>1, OnePlaceNext
          <6> QED
            BY <4>6, <5>1, <5>3, <6>1, <6>5, FitsNext
        <5>4. CASE d # c
          <6>1. at'[d] = at[d] /\ stage'[d] = stage[d]
            BY <3>1, <4>1, <4>6, <5>4
          <6>2. \A t \in Threads : Calls(d, t)' <=> Calls(d, t)
            BY <3>2, <6>1 DEF Calls, ConnsOf
          <6>3. Parks(d)' => Parks(d)
            BY <2>2, <4>4, <5>4 DEF Parks
          <6>4. CASE d \in dead
            <7>1. Places(d)' \subseteq Places(d)
              BY <5>2, <6>2, <6>3, PlacesLost
            <7>2. d \notin Live'
              BY <1>1, <2>2, <6>4 DEF Live
            <7> QED
              BY <5>1, <6>1, <7>1, <7>2, FitsIfLost
          <6>5. CASE d \notin dead
            <7>1. Parks(d)' <=> Parks(d)
              BY <2>2, <4>4, <5>4, <6>5 DEF Parks
            <7>2. Places(d)' = Places(d)
              BY <5>2, <6>2, <7>1, PlacesKept
            <7>3. d \in Live' => d \in Live
              BY <2>2, <3>1, <6>1 DEF Live
            <7> QED
              BY <5>1, <6>1, <7>2, <7>3, FitsIfKept
          <6> QED
            BY <6>4, <6>5
        <5> QED
          BY <5>3, <5>4
      <4> QED
        BY <4>5, <4>7, <4>8 DEF PlacesInv, EveryoneFits
    <3>3. CASE /\ parked' = Unparked(Range(Group(c)))
               /\ at' = [at EXCEPT ![c] = "grouped"] /\ party' = [party EXCEPT ![c] = m]
      <4>1. /\ Waiting(c) \in Seq(Conns)
            /\ Range(Group(c)) = {d \in Range(parked) : KeyOf(d) = KeyOf(c)}
            /\ Range(Waiting(c)) = Range(Group(c)) \ gone
        BY WaitingIs DEF PlacesInv, Types
      <4>2. all \in Seq(Conns) /\ Len(all) # 0 /\ Range(all) = Range(Waiting(c)) \cup {c}
        <5>1. LET r == Append(Waiting(c), c)
              IN  r \in Seq(Conns) /\ Len(r) = Len(Waiting(c)) + 1
                  /\ Range(r) = Range(Waiting(c)) \cup {c}
          BY <4>1, AppendIsSet
        <5> QED
          BY <4>1, <5>1, LenProperties
      <4> HIDE DEF all
      <4>3. m \in Seq(Members) /\ m # <<>> /\ ConnsOf(m) = Range(all)
        BY <4>2, PartyIs DEF PlacesInv, Types
      <4> HIDE DEF m
      <4>4. c \in ConnsOf(m) /\ \A d \in ConnsOf(m) : d = c \/ Parks(d)
        BY <2>1, <4>1, <4>2, <4>3 DEF Parks
      <4>5. /\ ConnsOf(m) \subseteq Range(Group(c)) \cup {c}
            /\ \A d \in Range(Group(c)) \cap Range(parked) : d \in gone \/ d \in ConnsOf(m)
        BY <4>1, <4>2, <4>3
      <4>6. \E cs : /\ parked' = Unparked(cs) /\ ConnsOf(m) \subseteq cs \cup {c}
                    /\ \A d \in cs \cap Range(parked) : d \in gone \/ d \in ConnsOf(m)
        BY <3>3, <4>5
      <4> QED
        BY <1>1, <2>2, <3>1, <3>3, <4>3, <4>4, <4>6, GroupedKeeps
    <3> QED
      BY <3>1, <3>2, <3>3
  <2> QED
    BY <2>3, <2>4
<1> QED
  BY <1>2, <1>3

(* The seats are the party's, in another order.                              *)
LEMMA SeatIs ==
  ASSUME PlacesInv, NEW t \in Threads, Seat(t)
  PROVE  /\ at[t] = "grouped" /\ at' = [at EXCEPT ![t] = "seated"]
         /\ party[t] # <<>>
         /\ \E q \in Seq(Members) :
              /\ party' = [party EXCEPT ![t] = q] /\ q # <<>>
              /\ ConnsOf(q) = ConnsOf(party[t]) /\ GroupKey(q) = GroupKey(party[t])
         /\ \A k \in DOMAIN groupGames' : groupGames'[k] \in Nat
         /\ UNCHANGED <<conns, game, parked, listed, stopping, atomics, games, expired, mains>>
<1> DEFINE m == party[t]
           key == GroupKey(m)
           played == Count(groupGames, key)
           q == SeatedBy(m, Seating(NamesOf(m), played))
<1>1. /\ at[t] = "grouped" /\ at' = [at EXCEPT ![t] = "seated"]
      /\ groupGames' = Counted(groupGames, key)
      /\ party' = [party EXCEPT ![t] = q]
      /\ UNCHANGED <<conns, game, parked, listed, stopping, atomics, games, expired, mains>>
  BY DEF Seat
<1>2. m \in Seq(Members) /\ m # <<>>
  BY <1>1 DEF PlacesInv, Types, Phases
<1>3. \A k : Count(groupGames, k) \in Nat
  BY DEF PlacesInv, Types, Count
<1>4. \A k \in DOMAIN groupGames' : groupGames'[k] \in Nat
  BY <1>1, <1>3 DEF Counted
<1> HIDE DEF m
<1>5. NamesOf(m) \in Seq(Nat) /\ Len(NamesOf(m)) = Len(m) /\ Len(m) # 0
  BY <1>2, NamesAre, EmptySeq
<1>6. NamesOf(m) # <<>>
  BY <1>5
<1>7. Seating(NamesOf(m), played) \in Orders(NamesOf(m))
  BY <1>3, <1>5, <1>6, SeatingIsAnOrder
<1>8. /\ q \in Seq(Members) /\ Len(q) = Len(m) /\ ConnsOf(q) = ConnsOf(m)
      /\ NamesOf(q) = Seating(NamesOf(m), played)
  BY <1>2, <1>7, SeatedByRearranges
<1>9. q # <<>>
  BY <1>5, <1>8
<1>10. GroupKey(q) = GroupKey(m)
  BY <1>5, <1>7, <1>8, SameByName DEF GroupKey
<1> HIDE DEF q, played, key
<1> QED
  BY <1>1, <1>2, <1>4, <1>8, <1>9, <1>10 DEF m

LEMMA SeatKeeps ==
  ASSUME PlacesInv, NEW t \in Threads, Seat(t)
  PROVE  PlacesInv'
<1>1. /\ at[t] = "grouped" /\ at' = [at EXCEPT ![t] = "seated"]
      /\ \A k \in DOMAIN groupGames' : groupGames'[k] \in Nat
      /\ UNCHANGED <<stage, gone, ended, stray, parked, stopping, gameCounter, seats, phase,
                     expired, main, sweep>>
  BY SeatIs DEF conns, atomics, games, mains
<1>2. PICK q \in Seq(Members) :
              /\ party' = [party EXCEPT ![t] = q] /\ q # <<>>
              /\ ConnsOf(q) = ConnsOf(party[t])
  BY SeatIs
<1>3. Types'
  BY <1>1, <1>2 DEF PlacesInv, Types, Steps
<1>4. /\ at'[t] = "seated" /\ party'[t] = q
      /\ \A u \in Threads : u # t => at'[u] = at[u] /\ party'[u] = party[u]
  BY <1>1, <1>2 DEF PlacesInv, Types
<1>5. Phases'
  <2>1. Main \in Threads
    BY DEF Threads
  <2> QED
    BY <1>1, <1>2, <1>4, <2>1 DEF PlacesInv, Phases
<1>6. ASSUME NEW d \in Conns PROVE Fits(d)'
  <2>1. Fits(d) /\ d \in Threads
    BY DEF PlacesInv, EveryoneFits, Threads
  <2>2. \A u \in Threads : ConnsOf(party'[u]) = ConnsOf(party[u])
    BY <1>2, <1>4
  <2>3. d \in Live' => d \in Live
    BY <1>1, <1>4, <2>1 DEF Live
  <2>4. at'[d] = at[d] \/ (/\ at[d] \notin {"hello", "joining"}
                           /\ at'[d] \notin {"hello", "joining"})
    BY <1>1, <1>4, <2>1
  <2> QED
    BY <1>1, <2>1, <2>2, <2>3, <2>4, NobodyMoves
<1> QED
  BY <1>3, <1>5, <1>6 DEF PlacesInv, EveryoneFits

LEMMA CountGameKeeps ==
  ASSUME PlacesInv, NEW t \in Threads, CountGame(t)
  PROVE  PlacesInv'
<1> DEFINE m == party[t]
<1>1. PICK id \in Ids :
      /\ at[t] = "seated" /\ id = gameCounter + 1 /\ gameCounter' = id
      /\ seats' = [seats EXCEPT ![id] = m] /\ phase' = [phase EXCEPT ![id] = "made"]
      /\ party' = [party EXCEPT ![t] = <<>>] /\ at' = [at EXCEPT ![t] = "counted"]
      /\ UNCHANGED <<stage, gone, ended, stray, parked, groupGames, stopping, expired, main,
                     sweep>>
  BY DEF CountGame, conns, table, mains
<1>2. gameCounter \in Nat /\ id \in Nat /\ id > gameCounter
      /\ (\A g \in Ids : g > id => g > gameCounter) /\ Ids \subseteq Nat
  <2>1. Ids \subseteq Nat
    BY ConnsAre DEF Ids
  <2>2. gameCounter \in Nat
    BY DEF PlacesInv, Types
  <2> QED
    BY <1>1, <2>1, <2>2
<1>3. phase[id] = "none"
  BY <1>1, <1>2 DEF PlacesInv, Phases
<1>4. m \in Seq(Members) /\ <<>> \in Seq(Members)
  BY EmptySeq DEF PlacesInv, Types
<1> HIDE DEF m
<1>5. Types'
  BY <1>1, <1>2, <1>4 DEF PlacesInv, Types, Steps
<1>6. /\ at'[t] = "counted" /\ party'[t] = <<>>
      /\ \A u \in Threads : u # t => at'[u] = at[u] /\ party'[u] = party[u]
      /\ phase'[id] = "made" /\ seats'[id] = m
      /\ \A g \in Ids : g # id => phase'[g] = phase[g] /\ seats'[g] = seats[g]
  BY <1>1 DEF PlacesInv, Types
<1>7. Phases'
  <2>1. Main \in Threads
    BY DEF Threads
  <2>2. \A g \in Ids : g > id => g # id
    BY <1>2
  <2>3. \A g \in Ids : g > gameCounter' => phase'[g] = "none"
    BY <1>1, <1>2, <1>6, <2>2 DEF PlacesInv, Phases
  <2>4. \A u \in Threads : party'[u] = <<>> <=> at'[u] \notin {"grouped", "seated"}
    BY <1>6 DEF PlacesInv, Phases
  <2>5. at'[Main] \notin {"hello", "joining"}
    BY <1>6, <2>1 DEF PlacesInv, Phases
  <2> QED
    BY <1>1, <2>3, <2>4, <2>5 DEF PlacesInv, Phases
<1>8. ConnsOf(<<>>) = {}
  BY DEF ConnsOf
<1>9. ASSUME NEW d \in Conns PROVE Fits(d)'
  <2>1. Fits(d) /\ d \in Threads
    BY DEF PlacesInv, EveryoneFits, Threads
  <2>2. /\ Parks(d)' <=> Parks(d)
        /\ Reaped(d)' <=> Reaped(d)
        /\ Swept(d)' <=> Swept(d)
    BY <1>1 DEF Parks, Reaped, Swept
  <2>3. \A u \in Threads : u # t => (Calls(d, u)' <=> Calls(d, u))
    BY <1>6, <2>1 DEF Calls, ConnsOf
  <2>4. ~Calls(d, t)' /\ (Calls(d, t) <=> d \in ConnsOf(m))
    BY <1>1, <1>6, <1>8 DEF Calls, ConnsOf, m
  <2>5. \A g \in Ids : g # id => (Plays(d, g)' <=> Plays(d, g))
    BY <1>6 DEF Plays, ConnsOf
  <2>6. ~Plays(d, id) /\ (Plays(d, id)' <=> d \in ConnsOf(m))
    BY <1>3, <1>6 DEF Plays, ConnsOf
  <2>7. d \in Live' => d \in Live
    BY <1>1, <1>6, <2>1 DEF Live
  <2>8. /\ stage'[d] = stage[d]
        /\ at'[d] = at[d] \/ (/\ at[d] \notin {"hello", "joining"}
                              /\ at'[d] \notin {"hello", "joining"})
    BY <1>1, <1>6, <2>1
  <2>9. CASE d \in ConnsOf(m)
    <3>1. /\ \A u \in Threads : ~Calls(d, u)'
          /\ \A g \in Ids : Plays(d, g)' => g = id
          /\ ~Parks(d)' /\ ~Reaped(d)' /\ ~Swept(d)'
      BY <2>1, <2>2, <2>3, <2>4, <2>5, <2>9, OnlyInCall
    <3>2. Places(d)' = {<<"game", id>>}
      <4>1. InPlace(d, <<"game", id>>)' /\ \A q : InPlace(d, q)' => q = <<"game", id>>
        BY <1>1, <2>6, <2>9, <3>1 DEF InPlace
      <4> QED
        BY <4>1, OnePlaceNext
    <3>3. ~(stage[d] = "off" /\ at[d] # "hello")
      BY <2>1, <2>4, <2>9, OffIsNowhere DEF Nowhere
    <3>4. (at[d] = "hello" => stage[d] = "off")
            /\ (at[d] = "joining" => stage[d] \in {"in", "broken"})
      BY <2>1 DEF Fits
    <3> QED
      BY <2>1, <2>8, <3>2, <3>3, <3>4, FitsNext
  <2>10. CASE d \notin ConnsOf(m)
    <3>1. Places(d)' = Places(d)
      BY <2>2, <2>3, <2>4, <2>5, <2>6, <2>10, PlacesKept
    <3> QED
      BY <2>1, <2>7, <2>8, <3>1, FitsIfKept
  <2> QED
    BY <2>9, <2>10
<1> QED
  BY <1>5, <1>7, <1>9 DEF PlacesInv, EveryoneFits

(* Steps that only take a thread past its seats, a game past its making or   *)
(* main to its next stage.                                                   *)
LEMMA QuietKeeps ==
  ASSUME PlacesInv,
         UNCHANGED <<stage, gone, ended, stray, party, parked, groupGames, stopping,
                     gameCounter, seats, expired, sweep>>,
         at' \in [Threads -> Steps],
         \A t \in Threads : \/ at'[t] = at[t]
                            \/ /\ at[t] \in {"counted", "listed"}
                               /\ at'[t] \in {"counted", "listed", "out"},
         phase' \in [Ids -> {"none", "made", "playing", "concluded", "unlisted", "over"}],
         \A g \in Ids : \/ phase'[g] = phase[g]
                        \/ phase[g] = "made" /\ phase'[g] = "playing"
                        \/ /\ phase[g] \in {"concluded", "unlisted"}
                           /\ phase'[g] \in {"unlisted", "over"},
         main' = main \/ (main' # "sweep" /\ main # "sweep")
  PROVE  PlacesInv'
<1>1. Types'
  BY DEF PlacesInv, Types
<1>2. Phases'
  <2>1. Main \in Threads
    BY DEF Threads
  <2>2. \A t \in Threads : party'[t] = <<>> <=> at'[t] \notin {"grouped", "seated"}
    BY DEF PlacesInv, Phases
  <2>3. \A g \in Ids : g > gameCounter' => phase'[g] = "none"
    BY DEF PlacesInv, Phases
  <2>4. at'[Main] \notin {"hello", "joining"}
    BY <2>1 DEF PlacesInv, Phases
  <2>5. (stopping' => parked' = <<>>) /\ (main' # "sweep" => sweep'.conns = {})
    BY DEF PlacesInv, Phases
  <2> QED
    BY <2>2, <2>3, <2>4, <2>5 DEF Phases
<1>3. ASSUME NEW d \in Conns PROVE Fits(d)'
  <2>1. Fits(d) /\ d \in Threads
    BY DEF PlacesInv, EveryoneFits, Threads
  <2>2. d \in Live' => d \in Live
    BY <2>1 DEF Live
  <2>3. \A g \in Ids : phase'[g] \in {"made", "playing"} <=> phase[g] \in {"made", "playing"}
    OBVIOUS
  <2>4. at'[d] = at[d] \/ (/\ at[d] \notin {"hello", "joining"}
                           /\ at'[d] \notin {"hello", "joining"})
    BY <2>1
  <2> QED
    BY <2>1, <2>2, <2>3, <2>4, NobodyMoves
<1> QED
  BY <1>1, <1>2, <1>3 DEF PlacesInv, EveryoneFits

LEMMA ListGameKeeps ==
  ASSUME PlacesInv, NEW t \in Threads, ListGame(t)
  PROVE  PlacesInv'
<1>1. /\ at[t] = "counted" /\ at' = [at EXCEPT ![t] = "listed"]
      /\ UNCHANGED <<stage, gone, ended, stray, party, parked, groupGames, stopping,
                     gameCounter, seats, phase, expired, main, sweep>>
  BY DEF ListGame, conns, atomics, games, mains
<1>2. at \in [Threads -> Steps]
      /\ phase \in [Ids -> {"none", "made", "playing", "concluded", "unlisted", "over"}]
  BY DEF PlacesInv, Types
<1>3. /\ at' \in [Threads -> Steps]
      /\ \A u \in Threads : at'[u] = IF u = t THEN "listed" ELSE at[u]
  BY <1>1, <1>2 DEF Steps
<1>4. \A u \in Threads : \/ at'[u] = at[u]
                         \/ /\ at[u] \in {"counted", "listed"}
                            /\ at'[u] \in {"counted", "listed", "out"}
  BY <1>1, <1>3
<1>5. /\ phase' \in [Ids -> {"none", "made", "playing", "concluded", "unlisted", "over"}]
      /\ \A g \in Ids : phase'[g] = phase[g]
  BY <1>1, <1>2
<1>6. /\ UNCHANGED <<stage, gone, ended, stray, party, parked, groupGames, stopping,
                     gameCounter, seats, expired, sweep>>
      /\ main' = main
  BY <1>1
<1>7. \A h \in Ids : \/ phase'[h] = phase[h]
                     \/ phase[h] = "made" /\ phase'[h] = "playing"
                     \/ /\ phase[h] \in {"concluded", "unlisted"}
                        /\ phase'[h] \in {"unlisted", "over"}
  BY <1>5
<1> QED
  BY <1>3, <1>4, <1>5, <1>6, <1>7, QuietKeeps

LEMMA StartGameKeeps ==
  ASSUME PlacesInv, NEW t \in Threads, StartGame(t)
  PROVE  PlacesInv'
<1>1. /\ at[t] = "listed" /\ at' = [at EXCEPT ![t] = "out"]
      /\ phase' = [phase EXCEPT ![game[t]] = IF @ = "made" THEN "playing" ELSE @]
      /\ UNCHANGED <<stage, gone, ended, stray, party, parked, groupGames, stopping,
                     gameCounter, seats, expired, main, sweep>>
  BY DEF StartGame, conns, table, atomics, mains
<1>2. at \in [Threads -> Steps]
      /\ phase \in [Ids -> {"none", "made", "playing", "concluded", "unlisted", "over"}]
  BY DEF PlacesInv, Types
<1>3. at' \in [Threads -> Steps] /\ \A u \in Threads : at'[u] = IF u = t THEN "out" ELSE at[u]
  BY <1>1, <1>2 DEF Steps
<1>4. /\ phase' \in [Ids -> {"none", "made", "playing", "concluded", "unlisted", "over"}]
      /\ \A g \in Ids : phase'[g] = phase[g] \/ (phase[g] = "made" /\ phase'[g] = "playing")
  BY <1>1, <1>2
<1>5. \A u \in Threads : \/ at'[u] = at[u]
                         \/ /\ at[u] \in {"counted", "listed"}
                            /\ at'[u] \in {"counted", "listed", "out"}
  BY <1>1, <1>3
<1>6. /\ UNCHANGED <<stage, gone, ended, stray, party, parked, groupGames, stopping,
                     gameCounter, seats, expired, sweep>>
      /\ main' = main
  BY <1>1
<1>7. \A h \in Ids : \/ phase'[h] = phase[h]
                     \/ phase[h] = "made" /\ phase'[h] = "playing"
                     \/ /\ phase[h] \in {"concluded", "unlisted"}
                        /\ phase'[h] \in {"unlisted", "over"}
  BY <1>4
<1> QED
  BY <1>3, <1>4, <1>5, <1>6, <1>7, QuietKeeps

LEMMA CountedOutKeeps ==
  ASSUME PlacesInv, NEW g \in Ids, Unlist(g) \/ Uncount(g)
  PROVE  PlacesInv'
<1>1. /\ phase[g] \in {"concluded", "unlisted"}
      /\ \E p \in {"unlisted", "over"} : phase' = [phase EXCEPT ![g] = p]
      /\ UNCHANGED <<stage, gone, ended, stray, at, party, parked, groupGames, stopping,
                     gameCounter, seats, expired, main, sweep>>
  BY DEF Unlist, Uncount, conns, joins, table, atomics, mains
<1>2. at \in [Threads -> Steps]
      /\ phase \in [Ids -> {"none", "made", "playing", "concluded", "unlisted", "over"}]
  BY DEF PlacesInv, Types
<1>3. /\ phase' \in [Ids -> {"none", "made", "playing", "concluded", "unlisted", "over"}]
      /\ \A h \in Ids : \/ phase'[h] = phase[h]
                        \/ /\ phase[h] \in {"concluded", "unlisted"}
                           /\ phase'[h] \in {"unlisted", "over"}
  BY <1>1, <1>2
<1>4. at' \in [Threads -> Steps] /\ \A t \in Threads : at'[t] = at[t]
  BY <1>1, <1>2
<1>5. /\ UNCHANGED <<stage, gone, ended, stray, party, parked, groupGames, stopping,
                     gameCounter, seats, expired, sweep>>
      /\ main' = main
  BY <1>1
<1>6. \A u \in Threads : \/ at'[u] = at[u]
                         \/ /\ at[u] \in {"counted", "listed"}
                            /\ at'[u] \in {"counted", "listed", "out"}
  BY <1>4
<1>7. \A h \in Ids : \/ phase'[h] = phase[h]
                     \/ phase[h] = "made" /\ phase'[h] = "playing"
                     \/ /\ phase[h] \in {"concluded", "unlisted"}
                        /\ phase'[h] \in {"unlisted", "over"}
  BY <1>3
<1> QED
  BY <1>3, <1>4, <1>5, <1>6, <1>7, QuietKeeps

LEMMA MainKeeps ==
  ASSUME PlacesInv, RefuseBuiltins \/ Await \/ Drain \/ WriteReport
  PROVE  PlacesInv'
<1>1. /\ main' # "sweep" /\ main # "sweep"
      /\ UNCHANGED <<stage, gone, ended, stray, at, party, parked, groupGames, stopping,
                     gameCounter, seats, phase, expired, sweep>>
  BY DEF RefuseBuiltins, Await, Drain, WriteReport, conns, joins, table, atomics, games
<1>2. at \in [Threads -> Steps]
      /\ phase \in [Ids -> {"none", "made", "playing", "concluded", "unlisted", "over"}]
  BY DEF PlacesInv, Types
<1> QED
  BY <1>1, <1>2, QuietKeeps

(* Builtins are on no connection.                                            *)
LEMMA StartBuiltinsIs ==
  ASSUME StartBuiltins
  PROVE  /\ at[Main] = "out" /\ at' = [at EXCEPT ![Main] = "grouped"]
         /\ \E m \in Seq(Members) : party' = [party EXCEPT ![Main] = m]
                                    /\ m # <<>> /\ ConnsOf(m) = {}
         /\ UNCHANGED <<stage, gone, ended, stray, parked, groupGames, stopping, gameCounter,
                        seats, phase, expired, main, sweep>>
<1> DEFINE m == [i \in 1 .. Seats |-> Member(BotlessSeats[i], NoConn)]
<1>1. /\ at[Main] = "out" /\ at' = [at EXCEPT ![Main] = "grouped"]
      /\ party' = [party EXCEPT ![Main] = m]
      /\ UNCHANGED <<stage, gone, ended, stray, parked, groupGames, stopping, gameCounter,
                     seats, phase, expired, main, sweep>>
  BY DEF StartBuiltins, Grouped, conns, table, atomics, games, mains
<1>2. /\ Seats \in Nat \ {0} /\ BotlessSeats \in Seq(Nat) /\ Len(BotlessSeats) = Seats
  BY ConnsAre, RefereeAssumption
<1>3. \A i \in 1 .. Seats : BotlessSeats[i] \in Nat
  BY <1>2, ElementOfSeq
<1>4. m \in [1 .. Seats -> Members] /\ DOMAIN m = 1 .. Seats
  BY <1>3 DEF Member, Members
<1>5. \A i \in 1 .. Seats : m[i].conn = NoConn
  BY DEF Member
<1> HIDE DEF m
<1>6. m \in Seq(Members) /\ Len(m) = Seats
  BY <1>2, <1>4, FunctionIsASeq
<1>7. m # <<>>
  BY <1>2, <1>6, EmptySeq
<1>8. ConnsOf(m) = {}
  BY <1>4, <1>5 DEF ConnsOf
<1> QED
  BY <1>1, <1>6, <1>7, <1>8

LEMMA StartBuiltinsKeeps ==
  ASSUME PlacesInv, StartBuiltins
  PROVE  PlacesInv'
<1>1. /\ at[Main] = "out" /\ at' = [at EXCEPT ![Main] = "grouped"]
      /\ UNCHANGED <<stage, gone, ended, stray, parked, groupGames, stopping, gameCounter,
                     seats, phase, expired, main, sweep>>
  BY StartBuiltinsIs
<1>2. PICK m \in Seq(Members) : /\ party' = [party EXCEPT ![Main] = m]
                                /\ m # <<>> /\ ConnsOf(m) = {}
  BY StartBuiltinsIs
<1>3. Main \in Threads /\ \A d \in Conns : d \in Threads /\ d # Main
  BY ConnsAre DEF Threads
<1>4. Types'
  BY <1>1, <1>2, <1>3 DEF PlacesInv, Types, Steps
<1>5. /\ at'[Main] = "grouped" /\ party'[Main] = m
      /\ \A u \in Threads : u # Main => at'[u] = at[u] /\ party'[u] = party[u]
  BY <1>1, <1>2, <1>3 DEF PlacesInv, Types
<1>6. Phases'
  BY <1>1, <1>2, <1>5 DEF PlacesInv, Phases
<1>7. ConnsOf(party[Main]) = {}
  <2>1. party[Main] = <<>>
    BY <1>1, <1>3 DEF PlacesInv, Phases
  <2> QED
    BY <2>1 DEF ConnsOf
<1>8. ASSUME NEW d \in Conns PROVE Fits(d)'
  <2>1. Fits(d)
    BY DEF PlacesInv, EveryoneFits
  <2>2. \A u \in Threads : ConnsOf(party'[u]) = ConnsOf(party[u])
    BY <1>2, <1>5, <1>7
  <2>3. at'[d] = at[d]
    BY <1>3, <1>5
  <2>4. d \in Live' => d \in Live
    BY <1>1, <2>3 DEF Live
  <2> QED
    BY <1>1, <2>1, <2>2, <2>3, <2>4, NobodyMoves
<1> QED
  BY <1>4, <1>6, <1>8 DEF PlacesInv, EveryoneFits

(* The end of a game is the end of its streams.                              *)
LEMMA ConcludeKeeps ==
  ASSUME PlacesInv, NEW g \in Ids, Play(g) \/ Abort(g)
  PROVE  PlacesInv'
<1>1. /\ phase[g] \in {"made", "playing"}
      /\ phase' = [phase EXCEPT ![g] = "concluded"] /\ ended' = ended \cup ConnsOf(seats[g])
      /\ UNCHANGED <<stage, gone, stray, at, party, parked, groupGames, stopping,
                     gameCounter, seats, expired, main, sweep>>
  BY DEF Play, Abort, Conclude, joins, table, atomics
<1>2. phase'[g] = "concluded" /\ \A h \in Ids : h # g => phase'[h] = phase[h]
  BY <1>1 DEF PlacesInv, Types
<1>3. ConnsOf(seats[g]) \subseteq Conns
  BY NamesAre DEF PlacesInv, Types
<1>4. Types'
  BY <1>1, <1>3 DEF PlacesInv, Types
<1>5. Phases'
  BY <1>1, <1>2 DEF PlacesInv, Phases
<1>6. ASSUME NEW d \in Conns PROVE Fits(d)'
  <2>1. Fits(d)
    BY DEF PlacesInv, EveryoneFits
  <2>2. /\ \A t \in Threads : Calls(d, t)' <=> Calls(d, t)
        /\ Parks(d)' <=> Parks(d)
        /\ Reaped(d)' <=> Reaped(d)
        /\ Swept(d)' <=> Swept(d)
    BY <1>1 DEF Calls, Parks, Reaped, Swept, ConnsOf
  <2>3. /\ \A h \in Ids : h # g => (Plays(d, h)' <=> Plays(d, h))
        /\ ~Plays(d, g)' /\ (Plays(d, g) <=> d \in ConnsOf(seats[g]))
    BY <1>1, <1>2 DEF Plays, ConnsOf
  <2>4. at'[d] = at[d] /\ stage'[d] = stage[d] /\ (d \in Live' => d \in Live)
    BY <1>1 DEF Live
  <2>5. CASE d \in ConnsOf(seats[g])
    <3>1. d \notin Live'
      BY <1>1, <2>5 DEF Live
    <3>2. Places(d)' \subseteq Places(d)
      BY <2>2, <2>3, PlacesLost
    <3> QED
      BY <2>1, <2>4, <3>1, <3>2, FitsIfLost
  <2>6. CASE d \notin ConnsOf(seats[g])
    <3>1. Places(d)' = Places(d)
      BY <2>2, <2>3, <2>6, PlacesKept
    <3> QED
      BY <2>1, <2>4, <3>1, FitsIfKept
  <2> QED
    BY <2>5, <2>6
<1> QED
  BY <1>4, <1>5, <1>6 DEF PlacesInv, EveryoneFits

LEMMA ReapKeeps ==
  ASSUME PlacesInv, Reap
  PROVE  PlacesInv'
<1>1. /\ ~stopping /\ expired = {} /\ parked' = Unparked(expired')
      /\ UNCHANGED <<stage, gone, ended, stray, at, party, groupGames, stopping,
                     gameCounter, seats, phase, main, sweep>>
  BY DEF Reap, conns, joins, atomics, games, mains
<1>2. expired' \subseteq Range(parked) /\ Range(parked) \subseteq Conns
  <2>1. PICK n \in 1 .. Len(parked) :
          expired' = Range(SubSeq(parked, 1, n)) \cup (Range(parked) \cap gone)
    BY DEF Reap
  <2>2. /\ Len(parked) \in Nat /\ DOMAIN parked = 1 .. Len(parked)
        /\ Range(parked) \subseteq Conns
        /\ \A i \in 1 .. Len(parked) : parked[i] \in Conns
    BY ElementsOfSeq DEF PlacesInv, Types
  <2> DEFINE q == SubSeq(parked, 1, n)
  <2>3. Len(q) = n /\ q \in Seq(Conns) /\ \A i \in 1 .. n : q[i] = parked[i]
    <3>1. \A i \in 1 .. n : parked[i] \in Conns
      BY <2>2
    <3>2. /\ q \in Seq(Conns) /\ Len(q) = IF 1 <= n THEN n - 1 + 1 ELSE 0
          /\ \A i \in 1 .. n - 1 + 1 : q[i] = parked[1 + i - 1]
      BY <2>2, <3>1, SubSeqProperties DEF PlacesInv, Types
    <3> HIDE DEF q
    <3> QED
      BY <2>2, <3>2
  <2> HIDE DEF q
  <2>4. DOMAIN q = 1 .. n /\ \A i \in 1 .. n : i \in DOMAIN parked
    BY <2>2, <2>3, LenProperties
  <2>5. Range(q) \subseteq Range(parked)
    BY <2>3, <2>4 DEF Range
  <2> QED
    BY <2>1, <2>2, <2>5 DEF q
<1>3. /\ parked' \in Seq(Conns) /\ IsInjective(parked')
      /\ Range(parked') = Range(parked) \ expired'
  BY <1>1, UnparkedIs DEF PlacesInv, Types
<1>4. Types'
  BY <1>1, <1>2, <1>3 DEF PlacesInv, Types
<1>5. Phases'
  BY <1>1 DEF PlacesInv, Phases
<1>6. ASSUME NEW d \in Conns PROVE Fits(d)'
  <2>1. Fits(d)
    BY DEF PlacesInv, EveryoneFits
  <2>2. /\ \A t \in Threads : Calls(d, t)' <=> Calls(d, t)
        /\ \A g \in Ids : Plays(d, g)' <=> Plays(d, g)
        /\ Swept(d)' <=> Swept(d)
    BY <1>1 DEF Calls, Plays, Swept, ConnsOf
  <2>3. at'[d] = at[d] /\ stage'[d] = stage[d] /\ (d \in Live' => d \in Live)
    BY <1>1 DEF Live
  <2>4. CASE d \in expired'
    <3>1. Parks(d) /\ ~Parks(d)' /\ Reaped(d)'
      BY <1>1, <1>2, <1>3, <2>4 DEF Parks, Reaped
    <3>2. /\ \A t \in Threads : ~Calls(d, t)'
          /\ \A g \in Ids : ~Plays(d, g)'
          /\ ~Swept(d)'
      BY <2>1, <2>2, <3>1, OnlyParked
    <3>3. Places(d)' = {<<"reaped", 0>>}
      <4>1. InPlace(d, <<"reaped", 0>>)' /\ \A q : InPlace(d, q)' => q = <<"reaped", 0>>
        BY <3>1, <3>2 DEF InPlace
      <4> QED
        BY <4>1, OnePlaceNext
    <3>4. ~(stage[d] = "off" /\ at[d] # "hello")
      BY <2>1, <3>1, OffIsNowhere DEF Nowhere
    <3>5. (at[d] = "hello" => stage[d] = "off")
          /\ (at[d] = "joining" => stage[d] \in {"in", "broken"})
      BY <2>1 DEF Fits
    <3> QED
      BY <2>1, <2>3, <3>3, <3>4, <3>5, FitsNext
  <2>5. CASE d \notin expired'
    <3>1. /\ Parks(d)' <=> Parks(d)
          /\ Reaped(d)' <=> Reaped(d)
      BY <1>1, <1>3, <2>5 DEF Parks, Reaped
    <3>2. Places(d)' = Places(d)
      BY <2>2, <3>1, PlacesKept
    <3> QED
      BY <2>1, <2>3, <3>2, FitsIfKept
  <2> QED
    BY <2>4, <2>5
<1> QED
  BY <1>4, <1>5, <1>6 DEF PlacesInv, EveryoneFits

(* The reaper's hands, and Shutdown's, are emptied by closing.               *)
LEMMA CloseKeeps ==
  ASSUME PlacesInv, NEW closed, closed \subseteq Conns,
         gone' = gone \cup closed, ended' = ended \cup closed,
         \/ expired' = {} /\ closed = expired /\ sweep' = sweep /\ main' = main
         \/ /\ expired' = expired /\ closed = sweep.conns /\ sweep'.conns = {}
            /\ main' # "sweep",
         UNCHANGED <<stage, stray, at, party, parked, groupGames, stopping, gameCounter,
                     seats, phase>>
  PROVE  PlacesInv'
<1>1. Types'
  BY DEF PlacesInv, Types
<1>2. Phases'
  BY DEF PlacesInv, Phases
<1>3. ASSUME NEW d \in Conns PROVE Fits(d)'
  <2>1. Fits(d)
    BY DEF PlacesInv, EveryoneFits
  <2>2. /\ \A t \in Threads : Calls(d, t)' <=> Calls(d, t)
        /\ \A g \in Ids : Plays(d, g)' <=> Plays(d, g)
        /\ Parks(d)' <=> Parks(d)
    BY DEF Calls, Plays, Parks, ConnsOf
  <2>3. (Reaped(d)' => Reaped(d)) /\ (Swept(d)' => Swept(d))
    BY DEF Reaped, Swept
  <2>4. at'[d] = at[d] /\ stage'[d] = stage[d] /\ (d \in Live' => d \in Live)
    BY DEF Live
  <2>5. CASE d \in closed
    <3>1. d \notin Live'
      BY <2>5 DEF Live
    <3>2. Places(d)' \subseteq Places(d)
      BY <2>2, <2>3, PlacesLost
    <3> QED
      BY <2>1, <2>4, <3>1, <3>2, FitsIfLost
  <2>6. CASE d \notin closed
    <3>1. /\ Reaped(d)' <=> Reaped(d)
          /\ Swept(d)' <=> Swept(d)
      BY <2>6 DEF Reaped, Swept
    <3>2. Places(d)' = Places(d)
      BY <2>2, <3>1, PlacesKept
    <3> QED
      BY <2>1, <2>4, <3>2, FitsIfKept
  <2> QED
    BY <2>5, <2>6
<1> QED
  BY <1>1, <1>2, <1>3 DEF PlacesInv, EveryoneFits

LEMMA ShutdownKeeps ==
  ASSUME PlacesInv, Shutdown
  PROVE  PlacesInv'
<1>1. /\ main = "shutdown" /\ main' = "sweep" /\ stopping' = TRUE /\ parked' = <<>>
      /\ sweep'.conns = Range(parked)
      /\ UNCHANGED <<stage, gone, ended, stray, at, party, groupGames, gameCounter, seats,
                     phase, expired>>
  BY DEF Shutdown, conns, joins, atomics, games
<1>2. sweep.conns = {} /\ (stopping => parked = <<>>) /\ Range(<<>>) = {}
      /\ Range(parked) \subseteq Conns
  BY <1>1, ElementsOfSeq DEF PlacesInv, Phases, Types, Range
<1>3. Types'
  <2>1. <<>> \in Seq(Conns) /\ IsInjective(<<>>)
    BY EmptySeq DEF IsInjective
  <2> QED
    BY <1>1, <1>2, <2>1 DEF PlacesInv, Types
<1>4. Phases'
  BY <1>1 DEF PlacesInv, Phases
<1>5. ASSUME NEW d \in Conns PROVE Fits(d)'
  <2>1. Fits(d)
    BY DEF PlacesInv, EveryoneFits
  <2>2. /\ \A t \in Threads : Calls(d, t)' <=> Calls(d, t)
        /\ \A g \in Ids : Plays(d, g)' <=> Plays(d, g)
        /\ Reaped(d)' <=> Reaped(d)
        /\ ~Swept(d) /\ ~Parks(d)' /\ (Swept(d)' <=> Parks(d))
    BY <1>1, <1>2 DEF Calls, Plays, Reaped, Parks, Swept, ConnsOf
  <2>3. at'[d] = at[d] /\ stage'[d] = stage[d] /\ (d \in Live' => d \in Live)
    BY <1>1 DEF Live
  <2>4. CASE Parks(d)
    <3>1. /\ \A t \in Threads : ~Calls(d, t)'
          /\ \A g \in Ids : ~Plays(d, g)'
          /\ ~Reaped(d)' /\ ~Parks(d)' /\ Swept(d)'
      BY <2>1, <2>2, <2>4, OnlyParked
    <3>2. Places(d)' = {<<"swept", 0>>}
      <4>1. InPlace(d, <<"swept", 0>>)' /\ \A q : InPlace(d, q)' => q = <<"swept", 0>>
        BY <3>1 DEF InPlace
      <4> QED
        BY <4>1, OnePlaceNext
    <3>3. ~(stage[d] = "off" /\ at[d] # "hello")
      BY <2>1, <2>4, OffIsNowhere DEF Nowhere
    <3>4. (at[d] = "hello" => stage[d] = "off")
          /\ (at[d] = "joining" => stage[d] \in {"in", "broken"})
      BY <2>1 DEF Fits
    <3> QED
      BY <2>1, <2>3, <3>2, <3>3, <3>4, FitsNext
  <2>5. CASE ~Parks(d)
    <3>1. Places(d)' = Places(d)
      BY <2>2, <2>5, PlacesKept
    <3> QED
      BY <2>1, <2>3, <3>1, FitsIfKept
  <2> QED
    BY <2>4, <2>5
<1> QED
  BY <1>3, <1>4, <1>5 DEF PlacesInv, EveryoneFits

LEMMA StopServerKeeps ==
  ASSUME PlacesInv, StopServer
  PROVE  PlacesInv'
<1>1. /\ main = "stop" /\ main' = "report" /\ \A c \in Conns : at[c] = "out"
      /\ stage' = [c \in Conns |-> IF stage[c] = "in" /\ c \notin ended THEN "broken"
                                   ELSE stage[c]]
      /\ gone' = gone \cup {c \in Conns : stage[c] # "off"} /\ parked' = <<>>
      /\ UNCHANGED <<ended, stray, at, party, groupGames, stopping, gameCounter, seats,
                     phase, expired, sweep>>
  BY DEF StopServer, joins, atomics, games
<1>2. Types'
  <2>1. <<>> \in Seq(Conns) /\ IsInjective(<<>>)
    BY EmptySeq DEF IsInjective
  <2> QED
    BY <1>1, <2>1 DEF PlacesInv, Types
<1>3. Phases'
  BY <1>1 DEF PlacesInv, Phases
<1>4. ASSUME NEW d \in Conns PROVE Fits(d)'
  <2>1. Fits(d)
    BY DEF PlacesInv, EveryoneFits
  <2>2. Range(<<>>) = {}
    BY DEF Range
  <2>3. /\ \A t \in Threads : Calls(d, t)' <=> Calls(d, t)
        /\ \A g \in Ids : Plays(d, g)' <=> Plays(d, g)
        /\ Reaped(d)' <=> Reaped(d)
        /\ Swept(d)' <=> Swept(d)
        /\ ~Parks(d)'
    BY <1>1, <2>2 DEF Calls, Plays, Reaped, Swept, Parks, ConnsOf
  <2>4. Places(d)' \subseteq Places(d)
    BY <2>3, PlacesLost
  <2>5. at'[d] = "out" /\ (stage'[d] = "off" <=> stage[d] = "off")
    BY <1>1 DEF PlacesInv, Types
  <2>6. d \notin Live'
    BY <1>1, <2>5 DEF Live
  <2>7. stage'[d] = "off" => Places(d)' = {}
    BY <1>1, <2>1, <2>4, <2>5 DEF Fits
  <2> QED
    BY <2>1, <2>4, <2>5, <2>6, <2>7, FitsNext
<1> QED
  BY <1>2, <1>3, <1>4 DEF PlacesInv, EveryoneFits

LEMMA PlacesInvInit ==
  Init => PlacesInv
<1> SUFFICES ASSUME Init PROVE PlacesInv
  OBVIOUS
<1>1. <<>> \in Seq(Members) /\ <<>> \in Seq(Conns) /\ IsInjective(<<>>) /\ Range(<<>>) = {}
      /\ ConnsOf(<<>>) = {}
  BY EmptySeq DEF IsInjective, Range, ConnsOf
<1>2. Types
  BY <1>1 DEF Init, Types, Steps
<1>3. Main \in Threads /\ \A d \in Conns : d \in Threads
  BY DEF Threads
<1>4. Phases
  BY <1>3 DEF Init, Phases
<1>5. ASSUME NEW d \in Conns PROVE Fits(d)
  <2>1. stage[d] = "off" /\ at[d] = "out"
    BY <1>3 DEF Init
  <2>2. \A p : ~InPlace(d, p)
    BY <1>1, <2>1 DEF Init, InPlace, Calls, Plays, Parks, Reaped, Swept
  <2>3. Places(d) = {}
    BY <2>2, PlacesAre
  <2>4. d \notin Live
    BY <2>1 DEF Live
  <2> QED
    BY <2>1, <2>3, <2>4 DEF Fits
<1> QED
  BY <1>2, <1>4, <1>5 DEF PlacesInv, EveryoneFits

LEMMA PlacesInvStep ==
  PlacesInv /\ [Next]_vars => PlacesInv'
<1> SUFFICES ASSUME PlacesInv, [Next]_vars PROVE PlacesInv'
  OBVIOUS
<1>1. CASE \E c \in Conns : Dial(c) \/ Disconnect(c)
  BY <1>1, DialKeeps, DisconnectKeeps
<1>2. CASE \E c \in Conns : Call(c)
  BY <1>2, JoinKeeps, JoinRendezvousKeeps DEF Call
<1>3. CASE \E t \in Threads : Thread(t)
  BY <1>3, SeatKeeps, CountGameKeeps, ListGameKeeps, StartGameKeeps DEF Thread
<1>4. CASE \E g \in Ids : Strand(g)
  BY <1>4, ConcludeKeeps, CountedOutKeeps DEF Strand
<1>5. CASE Reap
  BY <1>5, ReapKeeps
<1>6. CASE CloseExpired
  <2>1. /\ expired \subseteq Conns
        /\ gone' = gone \cup expired /\ ended' = ended \cup expired /\ expired' = {}
        /\ UNCHANGED <<stage, stray, at, party, parked, groupGames, stopping, gameCounter,
                       seats, phase, main, sweep>>
    BY <1>6 DEF CloseExpired, joins, table, atomics, games, mains, PlacesInv, Types
  <2> QED
    BY <2>1, CloseKeeps
<1>7. CASE StartBuiltins
  BY <1>7, StartBuiltinsKeeps
<1>8. CASE RefuseBuiltins \/ Await \/ Drain \/ WriteReport
  BY <1>8, MainKeeps
<1>9. CASE Shutdown
  BY <1>9, ShutdownKeeps
<1>10. CASE Sweep
  <2>1. /\ sweep.conns \subseteq Conns
        /\ gone' = gone \cup sweep.conns /\ ended' = ended \cup sweep.conns
        /\ sweep' = [conns |-> {}, games |-> {}] /\ main' = "drain"
        /\ UNCHANGED <<stage, stray, at, party, parked, groupGames, stopping, gameCounter,
                       seats, phase, expired>>
    BY <1>10 DEF Sweep, joins, table, atomics, PlacesInv, Types
  <2>2. sweep'.conns = {} /\ main' # "sweep"
    BY <2>1
  <2> QED
    BY <2>1, <2>2, CloseKeeps
<1>11. CASE StopServer
  BY <1>11, StopServerKeeps
<1>12. CASE UNCHANGED vars
  <2>1. UNCHANGED <<stage, gone, ended, stray, at, party, parked, groupGames, stopping,
                    gameCounter, seats, phase, expired, main, sweep>>
    BY <1>12 DEF vars, conns, joins, table, atomics, games, mains
  <2>2. at \in [Threads -> Steps]
        /\ phase \in [Ids -> {"none", "made", "playing", "concluded", "unlisted", "over"}]
    BY DEF PlacesInv, Types
  <2> QED
    BY <2>1, <2>2, QuietKeeps
<1> QED
  BY <1>1, <1>2, <1>3, <1>4, <1>5, <1>6, <1>7, <1>8, <1>9, <1>10, <1>11, <1>12
     DEF Next, Owed, Reaper, MainThread

(* The invariant, which says of every connection, live or not, and of every  *)
(* step of every thread, where the connection can be.                        *)
THEOREM PlacesInvHolds ==
  Spec => []PlacesInv
BY PlacesInvInit, PlacesInvStep, PTL DEF Spec, SafetySpec

(* However bots dial, break off, time out, come twice or alone, and whenever *)
(* the match is shut down: a connection that was let in and is not over is   *)
(* in exactly one place that takes it on.                                    *)
THEOREM EveryoneHasAPlace ==
  Spec => []EveryoneHasOnePlace
<1>1. PlacesInv => EveryoneHasOnePlace
  <2> SUFFICES ASSUME PlacesInv, NEW c \in Live PROVE Cardinality(Places(c)) = 1
    BY DEF EveryoneHasOnePlace
  <2>1. Fits(c)
    BY DEF PlacesInv, EveryoneFits, Live
  <2>2. \E p : Places(c) = {p}
    BY <2>1 DEF Fits
  <2> QED
    BY <2>2, FS_Singleton
<1> QED
  BY <1>1, PlacesInvHolds, PTL

-----------------------------------------------------------------------------
(* Who sits together.  A party's key is each of its connections' key, from   *)
(* the Join that gathered it on; the parked of one key have different names, *)
(* unless they are gone; and who waits named no partner twice.               *)

AsAsked(m) == \A c \in ConnsOf(m) : KeyOf(c) = GroupKey(m)
AskedInv ==
  /\ \A t \in Threads : AsAsked(party[t])
  /\ \A g \in Ids : AsAsked(seats[g])
  /\ \A c, d \in Range(parked) \ gone :
       KeyOf(c) = KeyOf(d) /\ HelloOf(c).name = HelloOf(d).name => c = d
  /\ \A c \in Conns : c \in Range(parked) \/ at[c] = "joining" =>
                        IsInjective(Wanted(HelloOf(c)))

LEMMA HellosStay ==
  ASSUME stray' = stray
  PROVE  \A c : HelloOf(c)' = HelloOf(c) /\ KeyOf(c)' = KeyOf(c)
BY DEF HelloOf, KeyOf

LEMMA AskedNext ==
  ASSUME AskedInv, stray' = stray,
         \A t \in Threads : party'[t] = party[t] \/ AsAsked(party'[t]),
         \A g \in Ids : seats'[g] = seats[g] \/ AsAsked(seats'[g]),
         \A c, d \in Range(parked') \ gone' :
           KeyOf(c) = KeyOf(d) /\ HelloOf(c).name = HelloOf(d).name => c = d,
         \A c \in Conns : c \in Range(parked') \/ at'[c] = "joining" =>
                            IsInjective(Wanted(HelloOf(c)))
  PROVE  AskedInv'
<1>1. \A t \in Threads : AsAsked(party[t])'
  <2> SUFFICES ASSUME NEW t \in Threads PROVE AsAsked(party[t])'
    OBVIOUS
  <2>1. \A c \in ConnsOf(party'[t]) : KeyOf(c) = GroupKey(party'[t])
    BY DEF AskedInv, AsAsked
  <2> QED
    BY <2>1, HellosStay DEF AsAsked, ConnsOf, GroupKey, NamesOf
<1>2. \A g \in Ids : AsAsked(seats[g])'
  <2> SUFFICES ASSUME NEW g \in Ids PROVE AsAsked(seats[g])'
    OBVIOUS
  <2>1. \A c \in ConnsOf(seats'[g]) : KeyOf(c) = GroupKey(seats'[g])
    BY DEF AskedInv, AsAsked
  <2> QED
    BY <2>1, HellosStay DEF AsAsked, ConnsOf, GroupKey, NamesOf
<1>3. (\A c, d \in Range(parked) \ gone :
         KeyOf(c) = KeyOf(d) /\ HelloOf(c).name = HelloOf(d).name => c = d)'
  BY HellosStay DEF Range
<1>4. (\A c \in Conns : c \in Range(parked) \/ at[c] = "joining" =>
                          IsInjective(Wanted(HelloOf(c))))'
  BY HellosStay DEF Range
<1> QED
  BY <1>1, <1>2, <1>3, <1>4 DEF AskedInv

LEMMA AskedKept ==
  ASSUME AskedInv, stray' = stray, party' = party, seats' = seats,
         Range(parked') \subseteq Range(parked), gone \subseteq gone',
         \A c \in Conns : at'[c] = "joining" => at[c] = "joining"
  PROVE  AskedInv'
<1>1. \A c, d \in Range(parked') \ gone' :
        KeyOf(c) = KeyOf(d) /\ HelloOf(c).name = HelloOf(d).name => c = d
  BY DEF AskedInv
<1>2. \A c \in Conns : c \in Range(parked') \/ at'[c] = "joining" =>
                         IsInjective(Wanted(HelloOf(c)))
  BY DEF AskedInv
<1> QED
  BY <1>1, <1>2, AskedNext

LEMMA JoinAsks ==
  ASSUME PlacesInv, AskedInv, NEW c \in Conns, Join(c)
  PROVE  AskedInv'
<1>0. c \in Threads /\ at \in [Threads -> Steps] /\ party \in [Threads -> Seq(Members)]
      /\ \A d \in Conns : d \in Threads
  BY DEF Threads, PlacesInv, Types
<1>1. CASE Refuse(c)
  <2>1. /\ at' = [at EXCEPT ![c] = "out"]
        /\ UNCHANGED <<stray, party, seats, parked, gone>>
    BY <1>1 DEF Refuse, table, games
  <2>2. \A d \in Conns : at'[d] = "joining" => at[d] = "joining"
    BY <1>0, <2>1
  <2>3. Range(parked') \subseteq Range(parked)
    BY <2>1
  <2> QED
    BY <2>1, <2>2, <2>3, AskedKept
<1>2. CASE ~Refuse(c)
  <2>1. /\ ~Unusable(c)
        /\ \/ /\ Len(Wanted(HelloOf(c))) = 1
              /\ Grouped(c, Append(BuiltinsOf(c), Member(HelloOf(c).name, c)))
           \/ at' = [at EXCEPT ![c] = "joining"] /\ UNCHANGED party
        /\ UNCHANGED <<stray, seats, parked, gone>>
    BY <1>2 DEF Join, table, games
  <2>2. IsInjective(Wanted(HelloOf(c)))
    BY <2>1 DEF Unusable
  <2>3. \A d, e \in Range(parked') \ gone' :
          KeyOf(d) = KeyOf(e) /\ HelloOf(d).name = HelloOf(e).name => d = e
    BY <2>1 DEF AskedInv
  <2>4. \A d \in Conns : d \in Range(parked') \/ at'[d] = "joining" =>
                           IsInjective(Wanted(HelloOf(d)))
    <3>1. \A d \in Conns : at'[d] = "joining" => d = c \/ at[d] = "joining"
      BY <1>0, <2>1 DEF Grouped
    <3> QED
      BY <2>1, <2>2, <3>1 DEF AskedInv
  <2>5. \A t \in Threads : party'[t] = party[t] \/ AsAsked(party'[t])
    <3>1. CASE UNCHANGED party
      BY <3>1
    <3>2. CASE /\ Len(Wanted(HelloOf(c))) = 1
               /\ Grouped(c, Append(BuiltinsOf(c), Member(HelloOf(c).name, c)))
      <4> DEFINE m == Append(BuiltinsOf(c), Member(HelloOf(c).name, c))
                 w == Wanted(HelloOf(c))
                 specs == Named(HelloOf(c), "builtin")
      <4>1. party' = [party EXCEPT ![c] = m]
        BY <3>2 DEF Grouped
      <4>2. stray \in Strays
        BY DEF PlacesInv, Types
      <4>3. /\ m \in Seq(Members) /\ ConnsOf(m) = {c}
            /\ NamesOf(m) = specs \o <<HelloOf(c).name>>
        BY <4>2, AloneIs
      <4>4. w = <<HelloOf(c).name>>
        <5>1. w \in Seq(Nat) /\ Len(w) = 1 /\ w[1] = HelloOf(c).name
          BY <3>2, <4>2, HelloOfIsAHello, HellosAre, WantedAre
        <5> HIDE DEF w
        <5> QED
          BY <5>1
      <4>5. w \in Orders(w) /\ ByName(specs \o w) = KeyOf(c)
        <5>1. w \in Seq(Nat)
          BY <4>2, KeyOfIs
        <5>2. w \in Orders(w)
          BY <5>1, OrderOfItself
        <5> QED
          BY <4>2, <5>2, KeyOfIs
      <4> HIDE DEF m, w, specs
      <4>6. GroupKey(m) = KeyOf(c)
        BY <4>3, <4>4, <4>5 DEF GroupKey
      <4>7. AsAsked(m)
        BY <4>3, <4>6 DEF AsAsked
      <4>8. party'[c] = m /\ \A t \in Threads : t # c => party'[t] = party[t]
        BY <1>0, <4>1
      <4> QED
        BY <4>7, <4>8
    <3> QED
      BY <2>1, <3>1, <3>2
  <2>6. \A g \in Ids : seats'[g] = seats[g] \/ AsAsked(seats'[g])
    BY <2>1
  <2> QED
    BY <2>1, <2>3, <2>4, <2>5, <2>6, AskedNext
<1> QED
  BY <1>1, <1>2

(* One key and another's name are a partner's, unless builtins have names    *)
(* that bots have.                                                           *)
LEMMA SameWanted ==
  ASSUME NamesApart, stray \in Strays, NEW c \in Conns, NEW d \in Conns, KeyOf(d) = KeyOf(c)
  PROVE  Range(Wanted(HelloOf(d))) \subseteq Range(Wanted(HelloOf(c)))
<1>1. HelloOf(c) \in Hellos /\ HelloOf(d) \in Hellos
  BY HelloOfIsAHello
<1>2. Range(KeyOf(c)) = Range(Wanted(HelloOf(c))) \cup Range(Named(HelloOf(c), "builtin"))
  BY KeyOfIs
<1>3. Range(KeyOf(d)) = Range(Wanted(HelloOf(d))) \cup Range(Named(HelloOf(d), "builtin"))
  BY KeyOfIs
<1>4. Range(Wanted(HelloOf(d))) \cap Range(Named(HelloOf(c), "builtin")) = {}
  BY <1>1 DEF NamesApart
<1>5. Range(KeyOf(d)) = Range(KeyOf(c))
  OBVIOUS
<1> QED
  BY <1>2, <1>3, <1>4, <1>5

(* The last of a group completes it: those who wait are the ones it wants.   *)
LEMMA WholeGroup ==
  ASSUME NamesApart, PlacesInv, AskedInv, NEW c \in Conns, at[c] = "joining", ~stopping,
         ~Duplicate(c), NEW all, all = Append(Waiting(c), c),
         ~(Len(all) < Len(Wanted(HelloOf(c))))
  PROVE  /\ all \in Seq(Conns) /\ Len(all) # 0
         /\ \A d \in Range(all) : KeyOf(d) = KeyOf(c)
         /\ [i \in DOMAIN all |-> HelloOf(all[i]).name] \in Orders(Wanted(HelloOf(c)))
<1> DEFINE names == [i \in DOMAIN all |-> HelloOf(all[i]).name]
           w == Wanted(HelloOf(c))
<1>1. /\ parked \in Seq(Conns) /\ IsInjective(parked) /\ stray \in Strays
      /\ Range(parked) \subseteq Conns
  BY ElementsOfSeq DEF PlacesInv, Types
<1>2. /\ Waiting(c) \in Seq(Conns) /\ IsInjective(Waiting(c))
      /\ Range(Waiting(c)) = {d \in Range(parked) : KeyOf(d) = KeyOf(c)} \ gone
  BY <1>1, WaitingIs
<1>3. c \notin Range(parked)
  <2>1. Calls(c, c) /\ c \in Threads
    BY DEF Calls, Threads
  <2> QED
    BY <2>1, OnlyInCall DEF PlacesInv, EveryoneFits, Parks
<1>4. /\ all \in Seq(Conns) /\ IsInjective(all) /\ Len(all) = Len(Waiting(c)) + 1
      /\ Range(all) = Range(Waiting(c)) \cup {c}
  <2>1. LET r == Append(Waiting(c), c)
        IN  /\ r \in Seq(Conns) /\ Len(r) = Len(Waiting(c)) + 1
            /\ Range(r) = Range(Waiting(c)) \cup {c}
            /\ (IsInjective(Waiting(c)) /\ c \notin Range(Waiting(c)) => IsInjective(r))
    BY <1>2, AppendIsSet
  <2> QED
    BY <1>2, <1>3, <2>1
<1>5. \A d \in Range(all) : KeyOf(d) = KeyOf(c) /\ d \in Conns
  BY <1>1, <1>2, <1>4
<1>6. Len(all) \in Nat \ {0} /\ DOMAIN all = 1 .. Len(all)
  BY <1>2, <1>4, LenProperties
<1>7. \A i \in DOMAIN all : all[i] \in Range(all)
  BY DEF Range
<1>8. \A d \in Range(all) : HelloOf(d).name \in Nat /\ HelloOf(d).name \in Range(w)
  <2> SUFFICES ASSUME NEW d \in Range(all)
               PROVE  HelloOf(d).name \in Nat /\ HelloOf(d).name \in Range(w)
    OBVIOUS
  <2>1. d \in Conns /\ KeyOf(d) = KeyOf(c)
    BY <1>5
  <2>2. HelloOf(d).name \in Nat /\ HelloOf(d).name \in Range(Wanted(HelloOf(d)))
    BY <1>1, <2>1, HelloOfIsAHello, HellosAre, WantedAre
  <2> QED
    BY <1>1, <2>1, <2>2, SameWanted
<1>9. \A d, e \in Range(all) : HelloOf(d).name = HelloOf(e).name => d = e
  <2>1. \A d \in Range(Waiting(c)) : HelloOf(d).name # HelloOf(c).name
    BY DEF Duplicate, Range
  <2>2. \A d, e \in Range(Waiting(c)) : HelloOf(d).name = HelloOf(e).name => d = e
    BY <1>2 DEF AskedInv
  <2> QED
    BY <1>4, <2>1, <2>2
<1>10. names \in Seq(Nat) /\ Len(names) = Len(all) /\ DOMAIN names = DOMAIN all
  <2>1. names \in [1 .. Len(all) -> Nat]
    BY <1>6, <1>7, <1>8
  <2> HIDE DEF names
  <2> QED
    BY <1>6, <2>1, FunctionIsASeq, LenProperties
<1>11. IsInjective(names)
  BY <1>4, <1>7, <1>9 DEF IsInjective
<1>12. Range(names) \subseteq Range(w)
  BY <1>7, <1>8 DEF Range
<1>13. w \in Seq(Nat) /\ IsInjective(w) /\ Len(w) \in Nat /\ Len(w) <= Len(names)
  <2>1. w \in Seq(Nat)
    BY <1>1, KeyOfIs
  <2>2. IsInjective(w)
    BY DEF AskedInv
  <2>3. Len(w) \in Nat
    BY <2>1, LenProperties
  <2> HIDE DEF names, w
  <2>4. Len(w) <= Len(names)
    BY <1>6, <1>10, <2>3 DEF w
  <2> QED
    BY <2>1, <2>2, <2>3, <2>4
<1>14. names \in Orders(w)
  <2> HIDE DEF names, w
  <2> QED
    BY <1>10, <1>11, <1>12, <1>13, OrderIfSame
<1> QED
  BY <1>4, <1>5, <1>6, <1>14

LEMMA JoinRendezvousAsks ==
  ASSUME NamesApart, PlacesInv, AskedInv, NEW c \in Conns, JoinRendezvous(c)
  PROVE  AskedInv'
<1> DEFINE dead == {d \in gone : KeyOf(d) = KeyOf(c)}
           all == Append(Waiting(c), c)
           m == BuiltinsOf(c) \o [i \in DOMAIN all |-> Member(HelloOf(all[i]).name, all[i])]
<1>0. /\ c \in Threads /\ at \in [Threads -> Steps] /\ party \in [Threads -> Seq(Members)]
      /\ (\A d \in Conns : d \in Threads) /\ stray \in Strays
      /\ parked \in Seq(Conns) /\ IsInjective(parked)
  BY DEF Threads, PlacesInv, Types
<1>1. at[c] = "joining"
  BY DEF JoinRendezvous
<1>2. UNCHANGED <<stray, seats, gone>>
  BY DEF JoinRendezvous, Refuse, games
<1>3. CASE TooLate \/ Duplicate(c)
  <2>1. /\ at' = [at EXCEPT ![c] = "out"] /\ party' = party
        /\ parked' = parked \/ parked' = Unparked(dead)
    BY <1>3 DEF JoinRendezvous, Refuse, table
  <2>2. \A d \in Conns : at'[d] = "joining" => at[d] = "joining"
    BY <1>0, <2>1
  <2>3. Range(parked') \subseteq Range(parked)
    <3> HIDE DEF dead
    <3> QED
      BY <1>0, <2>1, UnparkedIs
  <2> QED
    BY <1>2, <2>1, <2>2, <2>3, AskedKept
<1>4. CASE ~TooLate /\ ~Duplicate(c)
  <2>1. /\ ~stopping
        /\ \/ /\ parked' = Append(Unparked(dead), c)
              /\ at' = [at EXCEPT ![c] = "out"] /\ UNCHANGED party
           \/ /\ ~(Len(all) < Len(Wanted(HelloOf(c))))
              /\ parked' = Unparked(Range(Group(c)))
              /\ at' = [at EXCEPT ![c] = "grouped"] /\ party' = [party EXCEPT ![c] = m]
    BY <1>4 DEF JoinRendezvous, Grouped, TooLate
  <2>2. \A g \in Ids : seats'[g] = seats[g] \/ AsAsked(seats'[g])
    BY <1>2
  <2>3. CASE /\ parked' = Append(Unparked(dead), c)
             /\ at' = [at EXCEPT ![c] = "out"] /\ UNCHANGED party
    <3>1. Range(parked') = (Range(parked) \ dead) \cup {c}
      <4> DEFINE u == Unparked(dead)
      <4> HIDE DEF dead
      <4>1. u \in Seq(Conns) /\ Range(u) = Range(parked) \ dead
        BY <1>0, UnparkedIs
      <4> HIDE DEF u
      <4>2. Range(Append(u, c)) = Range(u) \cup {c}
        BY <4>1, AppendIsSet
      <4> QED
        BY <2>3, <4>1, <4>2 DEF u
    <3>2. \A d \in Range(parked) \ gone : d # c /\ KeyOf(d) = KeyOf(c) =>
                                          HelloOf(d).name # HelloOf(c).name
      <4>1. \A d \in Range(Waiting(c)) : HelloOf(d).name # HelloOf(c).name
        BY <1>4 DEF Duplicate, Range
      <4>2. Range(Waiting(c)) = {d \in Range(parked) : KeyOf(d) = KeyOf(c)} \ gone
        BY <1>0, WaitingIs
      <4> QED
        BY <4>1, <4>2
    <3>3. \A d, e \in Range(parked') \ gone' :
            KeyOf(d) = KeyOf(e) /\ HelloOf(d).name = HelloOf(e).name => d = e
      <4>1. \A d, e \in Range(parked) \ gone :
              KeyOf(d) = KeyOf(e) /\ HelloOf(d).name = HelloOf(e).name => d = e
        BY DEF AskedInv
      <4>2. \A d \in Range(parked') \ gone' : d \in Range(parked) \ gone \/ d = c
        BY <1>2, <3>1
      <4> QED
        BY <3>2, <4>1, <4>2
    <3>4. \A d \in Conns : d \in Range(parked') \/ at'[d] = "joining" =>
                             IsInjective(Wanted(HelloOf(d)))
      <4>1. \A d \in Conns : at'[d] = "joining" => at[d] = "joining"
        BY <1>0, <2>3
      <4> QED
        BY <1>1, <3>1, <4>1 DEF AskedInv
    <3>5. \A t \in Threads : party'[t] = party[t] \/ AsAsked(party'[t])
      BY <2>3
    <3> QED
      BY <1>2, <2>2, <3>3, <3>4, <3>5, AskedNext
  <2>4. CASE /\ ~(Len(all) < Len(Wanted(HelloOf(c))))
             /\ parked' = Unparked(Range(Group(c)))
             /\ at' = [at EXCEPT ![c] = "grouped"] /\ party' = [party EXCEPT ![c] = m]
    <3>1. Range(parked') \subseteq Range(parked)
      BY <1>0, <2>4, UnparkedIs
    <3>2. \A d \in Conns : at'[d] = "joining" => at[d] = "joining"
      BY <1>0, <2>4
    <3>3. AsAsked(m)
      <4> DEFINE names == [i \in DOMAIN all |-> HelloOf(all[i]).name]
                 w == Wanted(HelloOf(c))
                 specs == Named(HelloOf(c), "builtin")
      <4>1. ~Duplicate(c) /\ ~stopping /\ all = Append(Waiting(c), c)
            /\ ~(Len(all) < Len(Wanted(HelloOf(c))))
        BY <1>4, <2>1, <2>4
      <4> HIDE DEF all
      <4>2. /\ all \in Seq(Conns) /\ Len(all) # 0
            /\ \A d \in Range(all) : KeyOf(d) = KeyOf(c)
            /\ names \in Orders(w)
        BY <1>1, <4>1, WholeGroup
      <4>3. NamesOf(m) = specs \o names /\ ConnsOf(m) = Range(all)
        BY <1>0, <4>2, PartyIs
      <4>4. ByName(specs \o names) = KeyOf(c)
        BY <1>0, <4>2, KeyOfIs
      <4> HIDE DEF m, names, w, specs
      <4>5. GroupKey(m) = KeyOf(c)
        BY <4>3, <4>4 DEF GroupKey
      <4> QED
        BY <4>2, <4>3, <4>5 DEF AsAsked
    <3> HIDE DEF m, all
    <3>4. \A t \in Threads : party'[t] = party[t] \/ AsAsked(party'[t])
      <4>1. party'[c] = m /\ \A t \in Threads : t # c => party'[t] = party[t]
        BY <1>0, <2>4
      <4> QED
        BY <3>3, <4>1
    <3>5. \A d, e \in Range(parked') \ gone' :
            KeyOf(d) = KeyOf(e) /\ HelloOf(d).name = HelloOf(e).name => d = e
      BY <1>2, <3>1 DEF AskedInv
    <3>6. \A d \in Conns : d \in Range(parked') \/ at'[d] = "joining" =>
                             IsInjective(Wanted(HelloOf(d)))
      BY <3>1, <3>2 DEF AskedInv
    <3> QED
      BY <1>2, <2>2, <3>4, <3>5, <3>6, AskedNext
  <2> QED
    BY <2>1, <2>3, <2>4
<1> QED
  BY <1>3, <1>4

LEMMA SeatAsks ==
  ASSUME PlacesInv, AskedInv, NEW t \in Threads, Seat(t)
  PROVE  AskedInv'
<1>1. /\ at[t] = "grouped" /\ at' = [at EXCEPT ![t] = "seated"]
      /\ UNCHANGED <<stray, parked, gone, seats>>
  BY SeatIs DEF conns, games
<1>2. PICK q \in Seq(Members) :
        /\ party' = [party EXCEPT ![t] = q]
        /\ ConnsOf(q) = ConnsOf(party[t]) /\ GroupKey(q) = GroupKey(party[t])
  BY SeatIs
<1>3. AsAsked(q)
  BY <1>2 DEF AskedInv, AsAsked
<1>4. at \in [Threads -> Steps] /\ party \in [Threads -> Seq(Members)]
      /\ \A d \in Conns : d \in Threads
  BY DEF PlacesInv, Types, Threads
<1>5. \A u \in Threads : party'[u] = party[u] \/ AsAsked(party'[u])
  <2>1. party'[t] = q /\ \A u \in Threads : u # t => party'[u] = party[u]
    BY <1>2, <1>4
  <2> QED
    BY <1>3, <2>1
<1>6. \A c, d \in Range(parked') \ gone' :
        KeyOf(c) = KeyOf(d) /\ HelloOf(c).name = HelloOf(d).name => c = d
  BY <1>1 DEF AskedInv
<1>7. \A c \in Conns : c \in Range(parked') \/ at'[c] = "joining" =>
                         IsInjective(Wanted(HelloOf(c)))
  BY <1>1, <1>4 DEF AskedInv
<1>8. \A g \in Ids : seats'[g] = seats[g] \/ AsAsked(seats'[g])
  BY <1>1
<1>9. stray' = stray
  BY <1>1
<1> QED
  BY <1>5, <1>6, <1>7, <1>8, <1>9, AskedNext

LEMMA CountGameAsks ==
  ASSUME PlacesInv, AskedInv, NEW t \in Threads, CountGame(t)
  PROVE  AskedInv'
<1>1. /\ at' = [at EXCEPT ![t] = "counted"] /\ party' = [party EXCEPT ![t] = <<>>]
      /\ \E id \in Ids : seats' = [seats EXCEPT ![id] = party[t]]
      /\ UNCHANGED <<stray, parked, gone>>
  BY DEF CountGame, conns, table
<1>2. /\ at \in [Threads -> Steps] /\ party \in [Threads -> Seq(Members)]
      /\ seats \in [Ids -> Seq(Members)] /\ \A d \in Conns : d \in Threads
  BY DEF PlacesInv, Types, Threads
<1>3. AsAsked(<<>>)
  BY DEF AsAsked, ConnsOf
<1>4. \A u \in Threads : party'[u] = party[u] \/ AsAsked(party'[u])
  <2>1. party'[t] = <<>> /\ \A u \in Threads : u # t => party'[u] = party[u]
    BY <1>1, <1>2
  <2> QED
    BY <1>3, <2>1
<1>5. \A g \in Ids : seats'[g] = seats[g] \/ AsAsked(seats'[g])
  <2>1. \A g \in Ids : seats'[g] = seats[g] \/ seats'[g] = party[t]
    BY <1>1, <1>2
  <2>2. AsAsked(party[t])
    BY DEF AskedInv
  <2> QED
    BY <2>1, <2>2
<1>6. \A c, d \in Range(parked') \ gone' :
        KeyOf(c) = KeyOf(d) /\ HelloOf(c).name = HelloOf(d).name => c = d
  BY <1>1 DEF AskedInv
<1>7. \A c \in Conns : c \in Range(parked') \/ at'[c] = "joining" =>
                         IsInjective(Wanted(HelloOf(c)))
  BY <1>1, <1>2 DEF AskedInv
<1>8. stray' = stray
  BY <1>1
<1> QED
  BY <1>4, <1>5, <1>6, <1>7, <1>8, AskedNext

LEMMA StartBuiltinsAsks ==
  ASSUME PlacesInv, AskedInv, StartBuiltins
  PROVE  AskedInv'
<1>1. /\ at' = [at EXCEPT ![Main] = "grouped"] /\ UNCHANGED <<stray, parked, gone, seats>>
  BY StartBuiltinsIs
<1>2. PICK m \in Seq(Members) : party' = [party EXCEPT ![Main] = m] /\ ConnsOf(m) = {}
  BY StartBuiltinsIs
<1>3. /\ at \in [Threads -> Steps] /\ party \in [Threads -> Seq(Members)]
      /\ Main \in Threads /\ \A d \in Conns : d \in Threads
  BY DEF PlacesInv, Types, Threads
<1>4. AsAsked(m)
  BY <1>2 DEF AsAsked
<1>5. \A u \in Threads : party'[u] = party[u] \/ AsAsked(party'[u])
  <2>1. party'[Main] = m /\ \A u \in Threads : u # Main => party'[u] = party[u]
    BY <1>2, <1>3
  <2> QED
    BY <1>4, <2>1
<1>6. \A c, d \in Range(parked') \ gone' :
        KeyOf(c) = KeyOf(d) /\ HelloOf(c).name = HelloOf(d).name => c = d
  BY <1>1 DEF AskedInv
<1>7. \A c \in Conns : c \in Range(parked') \/ at'[c] = "joining" =>
                         IsInjective(Wanted(HelloOf(c)))
  BY <1>1, <1>3 DEF AskedInv
<1>8. \A g \in Ids : seats'[g] = seats[g] \/ AsAsked(seats'[g])
  BY <1>1
<1>9. stray' = stray
  BY <1>1
<1> QED
  BY <1>5, <1>6, <1>7, <1>8, <1>9, AskedNext

(* No other step gathers, seats or parks anyone.                             *)
LEMMA OthersAsk ==
  ASSUME PlacesInv, AskedInv,
         \/ \E c \in Conns : Dial(c) \/ Disconnect(c)
         \/ \E t \in Threads : ListGame(t) \/ StartGame(t)
         \/ \E g \in Ids : Strand(g)
         \/ Reaper \/ RefuseBuiltins \/ Await \/ Shutdown \/ Sweep \/ Drain
         \/ StopServer \/ WriteReport
         \/ UNCHANGED vars
  PROVE  AskedInv'
<1>1. stray' = stray /\ party' = party /\ seats' = seats /\ gone \subseteq gone'
  BY DEF Dial, Disconnect, ListGame, StartGame, Strand, Play, Abort, Conclude, Unlist, Uncount,
         Reaper, Reap, CloseExpired, RefuseBuiltins, Await, Shutdown, Sweep, Drain,
         StopServer, WriteReport,
         vars, conns, joins, table, atomics, games, mains
<1>2. \/ at' = at
      \/ \E t \in Threads, s \in {"hello", "listed", "out"} : at' = [at EXCEPT ![t] = s]
  <2>1. \A c \in Conns : c \in Threads
    BY DEF Threads
  <2> QED
    BY <2>1
       DEF Dial, Disconnect, ListGame, StartGame, Strand, Play, Abort, Conclude, Unlist,
           Uncount, Reaper, Reap, CloseExpired, RefuseBuiltins, Await, Shutdown, Sweep, Drain,
           StopServer, WriteReport, vars, joins
<1>3. \A c \in Conns : at'[c] = "joining" => at[c] = "joining"
  <2>1. at \in [Threads -> Steps] /\ \A c \in Conns : c \in Threads
    BY DEF Threads, PlacesInv, Types
  <2> QED
    BY <1>2, <2>1
<1>4. parked' = parked \/ parked' = <<>> \/ \E cs : parked' = Unparked(cs)
  BY DEF Dial, Disconnect, ListGame, StartGame, Strand, Play, Abort, Conclude, Unlist, Uncount,
         Reaper, Reap, CloseExpired, RefuseBuiltins, Await, Shutdown, Sweep, Drain,
         StopServer, WriteReport,
         vars, table
<1>5. Range(parked') \subseteq Range(parked)
  <2>1. Range(<<>>) = {}
    BY DEF Range
  <2>2. \A cs : Range(Unparked(cs)) \subseteq Range(parked)
    BY UnparkedIs DEF PlacesInv, Types
  <2> QED
    BY <1>4, <2>1, <2>2
<1> QED
  BY <1>1, <1>3, <1>5, AskedKept

LEMMA AskedInvInit ==
  Init => AskedInv
<1> SUFFICES ASSUME Init PROVE AskedInv
  OBVIOUS
<1>1. ConnsOf(<<>>) = {} /\ Range(<<>>) = {}
  BY DEF ConnsOf, Range
<1>2. \A c \in Conns : c \in Threads
  BY DEF Threads
<1> QED
  BY <1>1, <1>2 DEF Init, AskedInv, AsAsked

LEMMA AskedInvStep ==
  ASSUME NamesApart
  PROVE  PlacesInv /\ AskedInv /\ [Next]_vars => AskedInv'
<1> SUFFICES ASSUME PlacesInv, AskedInv, [Next]_vars PROVE AskedInv'
  OBVIOUS
<1>1. CASE \E c \in Conns : Call(c)
  BY <1>1, JoinAsks, JoinRendezvousAsks DEF Call
<1>2. CASE \E t \in Threads : Seat(t) \/ CountGame(t)
  BY <1>2, SeatAsks, CountGameAsks
<1>3. CASE StartBuiltins
  BY <1>3, StartBuiltinsAsks
<1>4. CASE \/ \E c \in Conns : Dial(c) \/ Disconnect(c)
           \/ \E t \in Threads : ListGame(t) \/ StartGame(t)
           \/ \E g \in Ids : Strand(g)
           \/ Reaper \/ RefuseBuiltins \/ Await \/ Shutdown \/ Sweep \/ Drain
           \/ StopServer \/ WriteReport
           \/ UNCHANGED vars
  BY <1>4, OthersAsk
<1> QED
  BY <1>1, <1>2, <1>3, <1>4 DEF Next, Owed, Thread, MainThread

(* Whoever comes in whatever order, and whoever of a group is gone again:    *)
(* everyone in a game sits with everybody they named, once, and with nobody  *)
(* else, as long as no bot has a builtin's name.                             *)
THEOREM GamesAreAsAsked ==
  ASSUME NamesApart
  PROVE  Spec => []SeatsAreAsAsked
<1>1. PlacesInv /\ AskedInv /\ [Next]_vars => AskedInv'
  BY AskedInvStep
<1>2. AskedInv => SeatsAreAsAsked
  BY DEF AskedInv, AsAsked, SeatsAreAsAsked
<1> QED
  BY <1>1, <1>2, AskedInvInit, PlacesInvHolds, PTL DEF Spec, SafetySpec

=============================================================================
