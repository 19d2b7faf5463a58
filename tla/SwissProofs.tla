---------------------------- MODULE SwissProofs -----------------------------
(***************************************************************************)
(* The Swiss run, for any entries, seats, rounds and restarts.  First what *)
(* a draw is: the groups and the byes share out the entries, and nobody    *)
(* meets someone again who need not.  Then the run: nobody plays twice in  *)
(* a round, and no round starts before the one before is over.             *)
(***************************************************************************)
EXTENDS SwissRun, FiniteSetTheorems, SequenceTheorems, WellFoundedInduction, TLAPS

-----------------------------------------------------------------------------
(* Induction and recursion over numbers, with sets and functions in place of *)
(* the operators of the library's theorems.                                  *)

LEMMA LeastNumber ==
  ASSUME NEW S \in SUBSET Nat, S # {}
  PROVE  \E n \in S : \A m \in S : n <= m
<1>1. PICK n \in S : \A m \in Nat : <<m, n>> \in OpToRel(<, Nat) => m \notin S
  BY NatLessThanWellFounded, WFMin
<1>2. \A m \in S : ~ (m < n)
  BY <1>1 DEF OpToRel
<1> QED
  BY <1>2

LEMMA UpTo ==
  ASSUME NEW N \in Nat, NEW P, 0 \in P, \A n \in 1 .. N : n - 1 \in P => n \in P
  PROVE  \A n \in 0 .. N : n \in P
<1> DEFINE Q == {n \in 0 .. N : n \notin P}
<1> SUFFICES ASSUME Q # {} PROVE FALSE
  OBVIOUS
<1>1. PICK n \in Q : \A m \in Q : n <= m
  <2>1. Q \subseteq Nat
    OBVIOUS
  <2> HIDE DEF Q
  <2> QED
    BY <2>1, LeastNumber
<1>2. n # 0 /\ n \in 1 .. N /\ n - 1 \in 0 .. N
  BY <1>1
<1>3. n - 1 \in P
  BY <1>1, <1>2
<1> QED
  BY <1>1, <1>2, <1>3

LEMMA StageByStage ==
  ASSUME NEW N \in Nat, NEW T, NEW G, G[0] \in T[0],
         \A n \in 1 .. N : G[n - 1] \in T[n - 1] => G[n] \in T[n]
  PROVE  \A n \in 0 .. N : G[n] \in T[n]
<1> DEFINE P == {n \in 0 .. N : G[n] \in T[n]}
<1>1. 0 \in P
  OBVIOUS
<1>2. ASSUME NEW n \in 1 .. N, n - 1 \in P PROVE n \in P
  <2>1. n - 1 \in 0 .. N /\ n \in 0 .. N
    OBVIOUS
  <2>2. G[n - 1] \in T[n - 1]
    BY <1>2
  <2> QED
    BY <2>1, <2>2
<1> HIDE DEF P
<1>3. \A n \in 0 .. N : n \in P
  BY <1>1, <1>2, UpTo
<1> QED
  BY <1>3 DEF P

(* A function that is defined from its value for the number before.          *)
Recursive(G, N, s0, F) == G = [n \in 0 .. N |-> IF n = 0 THEN s0 ELSE F[n][G[n - 1]]]

LEMMA RecursionExists ==
  ASSUME NEW N \in Nat, NEW s0, NEW F
  PROVE  \E G : Recursive(G, N, s0, F)
<1> DEFINE P == {n \in 0 .. N : \E G : Recursive(G, n, s0, F)}
<1>1. 0 \in P
  <2>1. Recursive([n \in 0 .. 0 |-> s0], 0, s0, F)
    BY DEF Recursive
  <2> QED
    BY <2>1
<1>2. ASSUME NEW k \in 1 .. N, k - 1 \in P PROVE k \in P
  <2>1. PICK G : Recursive(G, k - 1, s0, F)
    BY <1>2
  <2> DEFINE H == [n \in 0 .. k |-> IF n = k THEN F[k][G[k - 1]] ELSE G[n]]
             E == [n \in 0 .. k |-> IF n = 0 THEN s0 ELSE F[n][H[n - 1]]]
  <2>2. ASSUME NEW n \in 0 .. k PROVE H[n] = E[n]
    <3>1. CASE n = 0
      <4>1. 0 \in 0 .. k - 1 /\ n # k
        BY <3>1
      <4>2. G[0] = s0
        BY <2>1, <4>1 DEF Recursive
      <4> QED
        BY <3>1, <4>1, <4>2
    <3>2. CASE n = k
      <4>1. k - 1 \in 0 .. k /\ k - 1 # k /\ k # 0
        OBVIOUS
      <4> QED
        BY <3>2, <4>1
    <3>3. CASE n # 0 /\ n # k
      <4>1. n \in 0 .. k - 1 /\ n - 1 \in 0 .. k /\ n - 1 # k
        BY <3>3
      <4>2. G[n] = F[n][G[n - 1]]
        BY <2>1, <3>3, <4>1 DEF Recursive
      <4> QED
        BY <3>3, <4>1, <4>2
    <3> QED
      BY <3>1, <3>2, <3>3
  <2>3. H = E
    BY <2>2
  <2>4. Recursive(H, k, s0, F)
    BY <2>3 DEF Recursive
  <2> QED
    BY <2>4
<1> HIDE DEF P
<1>3. N \in P
  BY <1>1, <1>2, UpTo
<1> QED
  BY <1>3 DEF P

(* When every step leads from a set to the next one, the step need not know  *)
(* its number, and whatever is so defined goes through these sets.           *)
Iterated(N, s0, F) == CHOOSE G : G = [n \in 0 .. N |-> IF n = 0 THEN s0 ELSE F[G[n - 1]]]

LEMMA RecursionByStages ==
  ASSUME NEW N \in Nat, NEW T, NEW s0, NEW F, s0 \in T[0],
         \A n \in 1 .. N : \A s \in T[n - 1] : F[s] \in T[n]
  PROVE  /\ \A n \in 0 .. N : Iterated(N, s0, F)[n] \in T[n]
         /\ Iterated(N, s0, F)[0] = s0
         /\ \A n \in 1 .. N : Iterated(N, s0, F)[n] = F[Iterated(N, s0, F)[n - 1]]
<1> DEFINE U == UNION {T[n] : n \in 0 .. N}
           K == [n \in 1 .. N |-> [s \in U |-> F[s]]]
<1>1. \A n \in 1 .. N : n - 1 \in 0 .. N /\ n \in 0 .. N /\ n # 0
  OBVIOUS
<1>2. \A n \in 1 .. N : \A s \in T[n - 1] : K[n][s] = F[s]
  BY <1>1
<1> HIDE DEF K
<1>3. PICK H : Recursive(H, N, s0, K)
  BY RecursionExists
<1>4. H[0] = s0 /\ \A n \in 1 .. N : H[n] = K[n][H[n - 1]]
  <2>1. 0 \in 0 .. N
    OBVIOUS
  <2> QED
    BY <1>1, <1>3, <2>1, Zenon DEF Recursive
<1>5. \A n \in 0 .. N : H[n] \in T[n]
  <2>1. \A n \in 1 .. N : H[n - 1] \in T[n - 1] => H[n] \in T[n]
    BY <1>2, <1>4, ZenonT(30)
  <2>2. H[0] \in T[0]
    BY <1>4
  <2> QED
    BY <2>1, <2>2, StageByStage
<1>6. \A n \in 1 .. N : H[n] = F[H[n - 1]]
  BY <1>1, <1>2, <1>4, <1>5, Zenon
<1>7. H = [n \in 0 .. N |-> IF n = 0 THEN s0 ELSE F[H[n - 1]]]
  <2>1. H = [n \in 0 .. N |-> H[n]]
    BY <1>3 DEF Recursive
  <2>2. \A n \in 0 .. N : H[n] = IF n = 0 THEN s0 ELSE F[H[n - 1]]
    BY <1>1, <1>4, <1>6
  <2> QED
    BY <2>1, <2>2
<1> DEFINE G == Iterated(N, s0, F)
<1>8. G = [n \in 0 .. N |-> IF n = 0 THEN s0 ELSE F[G[n - 1]]]
  BY <1>7 DEF Iterated
<1> HIDE DEF G
<1>9. G[0] = s0 /\ \A n \in 1 .. N : G[n] = F[G[n - 1]]
  BY <1>1, <1>8
<1>10. \A n \in 0 .. N : G[n] \in T[n]
  <2>1. \A n \in 1 .. N : G[n - 1] \in T[n - 1] => G[n] \in T[n]
    BY <1>9, Zenon
  <2>2. G[0] \in T[0]
    BY <1>9
  <2> QED
    BY <2>1, <2>2, StageByStage
<1> QED
  BY <1>9, <1>10 DEF G

-----------------------------------------------------------------------------
(* Sequences as sets.                                                        *)

LEMMA AppendIsSet ==
  ASSUME NEW S, NEW q \in Seq(S), NEW e \in S
  PROVE  LET r == Append(q, e)
         IN  /\ r \in Seq(S) /\ Len(r) = Len(q) + 1 /\ Range(r) = Range(q) \cup {e}
             /\ DOMAIN q = 1 .. Len(q) /\ DOMAIN r = 1 .. Len(q) + 1
             /\ \A i \in 1 .. Len(q) : r[i] = q[i]
             /\ r[Len(q) + 1] = e
             /\ IsInjective(q) /\ e \notin Range(q) => IsInjective(r)
<1> DEFINE r == Append(q, e)
           n == Len(q)
<1>1. /\ n \in Nat /\ DOMAIN q = 1 .. n /\ r \in Seq(S) /\ DOMAIN r = 1 .. n + 1
      /\ Len(r) = n + 1
      /\ \A i \in 1 .. n : r[i] = q[i]
      /\ r[n + 1] = e
  BY AppendProperties, LenProperties
<1> HIDE DEF r, n
<1>2. \A i \in 1 .. n + 1 : i \in 1 .. n \/ i = n + 1
  BY <1>1
<1>3. Range(r) = Range(q) \cup {e}
  BY <1>1, <1>2 DEF Range
<1>4. IsInjective(q) /\ e \notin Range(q) => IsInjective(r)
  BY <1>1, <1>2 DEF IsInjective, Range
<1> QED
  BY <1>1, <1>3, <1>4 DEF r, n

LEMMA OneToN ==
  ASSUME NEW n \in Nat
  PROVE  IsFiniteSet(1 .. n) /\ Cardinality(1 .. n) = n
<1>1. IsFiniteSet(1 .. n) /\ Cardinality(1 .. n) = IF 1 > n THEN 0 ELSE n - 1 + 1
  BY FS_Interval
<1>2. (IF 1 > n THEN 0 ELSE n - 1 + 1) = n
  OBVIOUS
<1> QED
  BY <1>1, <1>2

LEMMA ElementsOfSeq ==
  ASSUME NEW S, NEW q \in Seq(S)
  PROVE  /\ Len(q) \in Nat /\ DOMAIN q = 1 .. Len(q) /\ \A i \in 1 .. Len(q) : q[i] \in S
         /\ Range(q) \subseteq S
         /\ IsFiniteSet(Range(q)) /\ Cardinality(Range(q)) <= Len(q)
         /\ IsInjective(q) => Cardinality(Range(q)) = Len(q)
<1>1. Len(q) \in Nat /\ DOMAIN q = 1 .. Len(q) /\ \A i \in 1 .. Len(q) : q[i] \in S
  BY LenProperties, ElementOfSeq
<1>2. q \in Surjection(1 .. Len(q), Range(q))
  <2>1. q = [i \in 1 .. Len(q) |-> q[i]]
    BY <1>1, SeqDef
  <2>2. q \in [1 .. Len(q) -> Range(q)]
    BY <1>1, <2>1 DEF Range
  <2> QED
    BY <1>1, <2>2 DEF Surjection, Range
<1>3. IsFiniteSet(1 .. Len(q)) /\ Cardinality(1 .. Len(q)) = Len(q)
  BY <1>1, OneToN
<1>4. /\ IsFiniteSet(Range(q)) /\ Cardinality(Range(q)) <= Len(q)
      /\ Cardinality(Range(q)) = Len(q) <=> q \in Injection(1 .. Len(q), Range(q))
  BY <1>2, <1>3, FS_Surjection
<1>5. IsInjective(q) => q \in Injection(1 .. Len(q), Range(q))
  BY <1>1, <1>2 DEF IsInjective, Injection, Surjection
<1>6. Range(q) \subseteq S
  BY <1>1 DEF Range
<1>7. IsInjective(q) => Cardinality(Range(q)) = Len(q)
  BY <1>4, <1>5, Zenon
<1>8. IsFiniteSet(Range(q)) /\ Cardinality(Range(q)) <= Len(q)
  BY <1>4
<1> QED
  BY <1>1, <1>6, <1>7, <1>8, Zenon

(* Those(s, S) lists what s and S have in common.                            *)
LEMMA ThoseAre ==
  ASSUME NEW A, NEW s \in Seq(A), NEW S
  PROVE  /\ Those(s, S) \in Seq(A) /\ Range(Those(s, S)) = Range(s) \cap S
         /\ IsInjective(s) => IsInjective(Those(s, S))
<1> DEFINE N == Len(s)
           T == [n \in 0 .. N |-> {t \in Seq(A) : /\ Range(t) = {s[i] : i \in 1 .. n} \cap S
                                                  /\ IsInjective(s) => IsInjective(t)}]
           K == [n \in 1 .. N |-> [t \in Seq(A) |-> IF s[n] \in S THEN Append(t, s[n]) ELSE t]]
           Body(f) == [n \in 0 .. N |->
                         IF n = 0 THEN <<>>
                         ELSE IF s[n] \in S THEN Append(f[n - 1], s[n]) ELSE f[n - 1]]
           kept == CHOOSE f : f = Body(f)
<1>1. N \in Nat /\ DOMAIN s = 1 .. N /\ \A i \in 1 .. N : s[i] \in A
  BY LenProperties, ElementOfSeq
<1>2. <<>> \in T[0]
  <2>1. <<>> \in Seq(A) /\ Range(<<>>) = {} /\ IsInjective(<<>>)
    BY EmptySeq DEF Range, IsInjective
  <2>2. {s[i] : i \in 1 .. 0} = {} /\ 0 \in 0 .. N
    BY <1>1
  <2> QED
    BY <2>1, <2>2
<1>3. ASSUME NEW n \in 1 .. N, NEW t \in T[n - 1]
      PROVE  (IF s[n] \in S THEN Append(t, s[n]) ELSE t) \in T[n]
  <2>1. n - 1 \in 0 .. N /\ n \in 0 .. N /\ \A i \in 1 .. n : i \in 1 .. n - 1 \/ i = n
    BY <1>1
  <2>2. /\ t \in Seq(A) /\ Range(t) = {s[i] : i \in 1 .. n - 1} \cap S
        /\ IsInjective(s) => IsInjective(t)
    BY <1>3, <2>1
  <2>3. {s[i] : i \in 1 .. n} = {s[i] : i \in 1 .. n - 1} \cup {s[n]}
    BY <1>1, <2>1
  <2>4. IsInjective(s) => s[n] \notin {s[i] : i \in 1 .. n - 1}
    BY <1>1 DEF IsInjective
  <2>5. CASE s[n] \in S
    <3>1. /\ Append(t, s[n]) \in Seq(A) /\ Range(Append(t, s[n])) = Range(t) \cup {s[n]}
          /\ IsInjective(t) /\ s[n] \notin Range(t) => IsInjective(Append(t, s[n]))
      BY <1>1, <2>2, AppendIsSet
    <3>2. Range(Append(t, s[n])) = {s[i] : i \in 1 .. n} \cap S
      BY <2>2, <2>3, <2>5, <3>1
    <3>3. IsInjective(s) => IsInjective(Append(t, s[n]))
      BY <2>2, <2>4, <3>1
    <3> QED
      BY <2>1, <2>5, <3>1, <3>2, <3>3
  <2>6. CASE s[n] \notin S
    BY <2>1, <2>2, <2>3, <2>6
  <2> QED
    BY <2>5, <2>6
<1>4. \A n \in 0 .. N : \A t \in T[n] : t \in Seq(A)
  OBVIOUS
<1>5. /\ T[N] \subseteq {t \in Seq(A) : /\ Range(t) = Range(s) \cap S
                                        /\ IsInjective(s) => IsInjective(t)}
  <2>1. {s[i] : i \in 1 .. N} = Range(s)
    BY <1>1 DEF Range
  <2>2. N \in 0 .. N
    BY <1>1
  <2> HIDE DEF N
  <2> QED
    BY <2>1, <2>2
<1>6. \A n \in 1 .. N : n - 1 \in 0 .. N /\ n \in 0 .. N /\ n # 0
  BY <1>1
<1>7. \A n \in 1 .. N, t \in Seq(A) : K[n][t] = IF s[n] \in S THEN Append(t, s[n]) ELSE t
  OBVIOUS
<1> HIDE DEF T, K
<1>8. PICK G : Recursive(G, N, <<>>, K)
  BY <1>1, RecursionExists
<1>9. G[0] = <<>> /\ \A n \in 1 .. N : G[n] = K[n][G[n - 1]]
  <2>1. 0 \in 0 .. N
    BY <1>1
  <2> QED
    BY <1>6, <1>8, <2>1, Zenon DEF Recursive
<1>10. \A n \in 1 .. N : G[n - 1] \in T[n - 1] => G[n] \in T[n]
  <2> SUFFICES ASSUME NEW n \in 1 .. N, G[n - 1] \in T[n - 1] PROVE G[n] \in T[n]
    OBVIOUS
  <2>1. G[n - 1] \in Seq(A)
    BY <1>4, <1>6
  <2>2. G[n] = IF s[n] \in S THEN Append(G[n - 1], s[n]) ELSE G[n - 1]
    BY <1>7, <1>9, <2>1
  <2> QED
    BY <1>3, <2>2
<1>11. \A n \in 0 .. N : G[n] \in T[n]
  BY <1>1, <1>2, <1>9, <1>10, StageByStage
<1>12. G = Body(G)
  <2>1. G = [n \in 0 .. N |-> G[n]]
    BY <1>8 DEF Recursive
  <2>2. ASSUME NEW n \in 0 .. N PROVE G[n] = Body(G)[n]
    <3>1. CASE n = 0
      BY <1>9, <3>1
    <3>2. CASE n # 0
      <4>1. n \in 1 .. N
        BY <1>1, <3>2
      <4>2. G[n - 1] \in Seq(A)
        BY <1>4, <1>6, <1>11, <4>1
      <4>3. G[n] = IF s[n] \in S THEN Append(G[n - 1], s[n]) ELSE G[n - 1]
        <5>1. G[n] = K[n][G[n - 1]]
          BY <1>9, <4>1, Zenon
        <5> QED
          BY <1>7, <4>1, <4>2, <5>1, Zenon
      <4> QED
        BY <3>2, <4>3
    <3> QED
      BY <3>1, <3>2
  <2> QED
    BY <2>1, <2>2
<1>13. kept = Body(kept)
  BY <1>12
<1>14. Those(s, S) = kept[N]
  BY DEF Those
<1> HIDE DEF kept
<1>15. kept[0] = <<>>
  BY <1>1, <1>13
<1>16. \A n \in 1 .. N :
         kept[n] = IF s[n] \in S THEN Append(kept[n - 1], s[n]) ELSE kept[n - 1]
  BY <1>6, <1>13
<1> HIDE DEF Body
<1>17. \A n \in 1 .. N : kept[n - 1] \in T[n - 1] => kept[n] \in T[n]
  BY <1>3, <1>16
<1>18. \A n \in 0 .. N : kept[n] \in T[n]
  BY <1>1, <1>2, <1>15, <1>17, StageByStage
<1>19. kept[N] \in T[N]
  BY <1>1, <1>18
<1> HIDE DEF N
<1> QED
  BY <1>5, <1>14, <1>19

-----------------------------------------------------------------------------
(* The draw.                                                                 *)

LEMMA MinIsIn ==
  ASSUME NEW S \in SUBSET Nat, S # {}
  PROVE  Min(S) \in S
  BY LeastNumber DEF Min

LEMMA MaxIsIn ==
  ASSUME NEW N \in Nat, NEW S \in SUBSET (0 .. N), S # {}
  PROVE  Max(S) \in S /\ \A y \in S : y <= Max(S)
<1> DEFINE U == {u \in 0 .. N : \A y \in S : y <= u}
<1>1. N \in U /\ U \subseteq Nat
  OBVIOUS
<1>2. PICK u \in U : \A v \in U : u <= v
  BY <1>1, LeastNumber
<1>3. u \in S
  <2> SUFFICES ASSUME u \notin S PROVE FALSE
    OBVIOUS
  <2>1. PICK y \in S : TRUE
    OBVIOUS
  <2>2. \A z \in S : z <= u - 1
    BY <1>2
  <2>3. u - 1 \in 0 .. N
    BY <2>1, <2>2, <1>2
  <2>4. u - 1 \in U
    BY <2>2, <2>3
  <2> QED
    BY <1>2, <2>4
<1> QED
  BY <1>2, <1>3 DEF Max

LEMMA Division ==
  ASSUME NEW a \in Nat, NEW d \in Nat \ {0}
  PROVE  /\ a % d \in 0 .. d - 1 /\ a % d <= a
         /\ a \div d \in Nat /\ a = d * (a \div d) + (a % d)
         /\ a \div d = 0 <=> a < d
<1>1. a % d \in 0 .. d - 1 /\ a \div d \in Int /\ a = d * (a \div d) + (a % d)
  OBVIOUS
<1>2. a \div d \in Nat
  BY <1>1
<1>3. a % d <= a
  BY <1>1, <1>2
<1>4. a \div d = 0 <=> a < d
  BY <1>1, <1>2
<1> QED
  BY <1>1, <1>2, <1>3, <1>4

LEMMA Products ==
  ASSUME NEW n \in Nat, NEW g \in 1 .. n, NEW d \in Nat
  PROVE  (g - 1) * d + d = g * d /\ g * d <= n * d /\ g * d \in Nat
  OBVIOUS

LEMMA TakeAway ==
  ASSUME NEW a \in Nat, NEW b \in Nat, NEW c \in Nat, NEW e \in Nat, NEW d \in Nat,
         a + d = b, b <= e, e <= c
  PROVE  c - a >= d /\ c - a - d = c - b
  OBVIOUS

(* Whoever sits out again does so only when everyone left had sat out.       *)
FairByes(ranked, byesBefore, s) ==
  \A k \in 1 .. Len(s) : ranked[s[k]] \in byesBefore =>
    \A i \in DOMAIN ranked : (\A m \in 1 .. k - 1 : s[m] # i) => ranked[i] \in byesBefore

LEMMA AwayAre ==
  ASSUME SeatsAssumption, NEW A, NEW ranked \in Seq(A), NEW byesBefore
  PROVE  LET away == Away(ranked, byesBefore)
         IN  /\ away \in Seq(DOMAIN ranked) /\ Len(away) = Len(ranked) % Seats
             /\ IsInjective(away) /\ FairByes(ranked, byesBefore, away)
<1> DEFINE D == DOMAIN ranked
           N == Len(ranked) % Seats
           Send == [away \in Seq(D) |->
                      Append(away, SitsOut(ranked, D \ Range(away), byesBefore))]
           T == [k \in 0 .. N |-> {s \in Seq(D) : /\ Len(s) = k /\ IsInjective(s)
                                                  /\ FairByes(ranked, byesBefore, s)}]
           sent == Iterated(N, <<>>, Send)
<1>1. Len(ranked) \in Nat /\ D = 1 .. Len(ranked) /\ N \in Nat /\ N <= Len(ranked)
  <2>1. Len(ranked) \in Nat /\ D = 1 .. Len(ranked)
    BY LenProperties
  <2>2. Seats \in Nat \ {0}
    BY SeatsAssumption
  <2>3. N \in 0 .. Seats - 1 /\ N <= Len(ranked)
    BY <2>1, <2>2, Division
  <2> HIDE DEF N, D
  <2> QED
    BY <2>1, <2>2, <2>3
<1>2. IsFiniteSet(D) /\ Cardinality(D) = Len(ranked)
  BY <1>1, OneToN
<1>3. <<>> \in T[0]
  <2>1. /\ <<>> \in Seq(D) /\ Len(<<>>) = 0 /\ IsInjective(<<>>)
        /\ FairByes(ranked, byesBefore, <<>>)
    BY EmptySeq DEF IsInjective, FairByes
  <2>2. 0 \in 0 .. N
    BY <1>1
  <2> QED
    BY <2>1, <2>2
<1> HIDE DEF N, D
<1>4. ASSUME NEW k \in 1 .. N, NEW s \in T[k - 1]
      PROVE  Send[s] \in T[k]
  <2> DEFINE left == D \ Range(s)
             x == SitsOut(ranked, left, byesBefore)
  <2>1. k - 1 \in 0 .. N /\ k \in 0 .. N
    BY <1>1
  <2>2. s \in Seq(D) /\ Len(s) = k - 1 /\ IsInjective(s) /\ FairByes(ranked, byesBefore, s)
    BY <1>4, <2>1
  <2>3. Range(s) \subseteq D /\ IsFiniteSet(Range(s)) /\ Cardinality(Range(s)) = k - 1
    BY <2>2, ElementsOfSeq
  <2>4. left # {}
    <3> SUFFICES ASSUME left = {} PROVE FALSE
      OBVIOUS
    <3>1. k - 1 # Len(ranked)
      BY <1>1
    <3>2. D = Range(s)
      BY <2>3
    <3> QED
      BY <1>2, <2>3, <3>1, <3>2, Zenon
  <2>5. x \in left /\ (ranked[x] \in byesBefore => \A i \in left : ranked[i] \in byesBefore)
    <3> DEFINE fresh == {i \in left : ranked[i] \notin byesBefore}
    <3>1. left \subseteq 0 .. Len(ranked) /\ fresh \subseteq left
      BY <1>1
    <3>2. x = Max(IF fresh = {} THEN left ELSE fresh)
      BY DEF SitsOut
    <3> HIDE DEF left, fresh, x
    <3>3. CASE fresh = {}
      <4>1. x \in left
        BY <1>1, <2>4, <3>1, <3>2, <3>3, MaxIsIn
      <4> QED
        BY <3>3, <4>1 DEF fresh
    <3>4. CASE fresh # {}
      <4>1. x \in fresh
        BY <1>1, <3>1, <3>2, <3>4, MaxIsIn
      <4> QED
        BY <4>1 DEF fresh
    <3> QED
      BY <3>3, <3>4
  <2>6. Send[s] = Append(s, x)
    BY <2>2
  <2> HIDE DEF x, Send
  <2>7. x \in D /\ x \notin Range(s)
    BY <2>5
  <2> DEFINE r == Append(s, x)
  <2>8. /\ r \in Seq(D) /\ Len(r) = k /\ IsInjective(r)
        /\ \A m \in 1 .. k - 1 : r[m] = s[m]
        /\ r[k] = x
    <3>1. k - 1 + 1 = k
      OBVIOUS
    <3> QED
      BY <2>2, <2>7, <3>1, AppendIsSet
  <2>9. DOMAIN s = 1 .. k - 1
    BY <2>2, ElementsOfSeq
  <2> HIDE DEF r
  <2>10. FairByes(ranked, byesBefore, r)
    <3> SUFFICES ASSUME NEW m \in 1 .. k, ranked[r[m]] \in byesBefore,
                        NEW i \in D, \A l \in 1 .. m - 1 : r[l] # i
                 PROVE  ranked[i] \in byesBefore
      BY <2>8 DEF FairByes, D
    <3>1. CASE m = k
      <4>1. i \notin Range(s)
        BY <2>8, <2>9, <3>1 DEF Range
      <4> QED
        BY <2>5, <2>8, <3>1, <4>1
    <3>2. CASE m \in 1 .. k - 1
      <4>1. ranked[s[m]] \in byesBefore /\ \A l \in 1 .. m - 1 : l \in 1 .. k - 1 /\ s[l] # i
        BY <2>8, <3>2
      <4> QED
        BY <2>2, <3>2, <4>1 DEF FairByes, D
    <3> QED
      BY <3>1, <3>2
  <2> QED
    BY <2>1, <2>6, <2>8, <2>10 DEF r
<1>5. N \in 0 .. N
  BY <1>1
<1>6. T[N] = {s \in Seq(D) : /\ Len(s) = N /\ IsInjective(s)
                             /\ FairByes(ranked, byesBefore, s)}
  BY <1>5
<1> HIDE DEF T, Send
<1>7. \A k \in 0 .. N : sent[k] \in T[k]
  <2>1. \A k \in 1 .. N : \A s \in T[k - 1] : Send[s] \in T[k]
    BY <1>4
  <2> QED
    BY <1>1, <1>3, <2>1, RecursionByStages, Zenon
<1> HIDE DEF sent
<1>8. sent[N] \in T[N]
  BY <1>5, <1>7
<1>9. Away(ranked, byesBefore) = sent[N]
  BY DEF Away, Iterated, sent, Send, N, D
<1> QED
  BY <1>6, <1>8, <1>9 DEF N, D

(* The places before the k-th of a group, and who has them.                  *)
Before(s, k) == {s[m] : m \in 1 .. k - 1}
Whose(ranked, places) == {ranked[m] : m \in places}

(* Whoever meets someone again does so only when everyone left had met one   *)
(* of those already in the group.                                            *)
FairGroup(ranked, left, playedBefore, s) ==
  \A k \in 1 .. Len(s) :
    Met(ranked[s[k]], Whose(ranked, Before(s, k)), playedBefore) =>
      \A i \in left \ Before(s, k) : Met(ranked[i], Whose(ranked, Before(s, k)), playedBefore)

IsGroup(ranked, left, playedBefore, s) ==
  /\ s \in Seq(left) /\ Len(s) = Seats /\ IsInjective(s)
  /\ FairGroup(ranked, left, playedBefore, s)

LEMMA NearestIs ==
  ASSUME NEW ranked, NEW left \in SUBSET Nat, left # {}, NEW group, NEW playedBefore
  PROVE  LET x == Nearest(ranked, left, group, playedBefore)
         IN  /\ x \in left
             /\ Met(ranked[x], Whose(ranked, group), playedBefore) =>
                  \A i \in left : Met(ranked[i], Whose(ranked, group), playedBefore)
<1> DEFINE fresh == {i \in left : ~ Met(ranked[i], Whose(ranked, group), playedBefore)}
           x == Nearest(ranked, left, group, playedBefore)
<1>1. fresh \subseteq left
  OBVIOUS
<1>2. x = Min(IF fresh = {} THEN left ELSE fresh)
  BY DEF Nearest, Whose
<1> HIDE DEF fresh, x
<1>3. CASE fresh = {}
  <2>1. x \in left
    BY <1>2, <1>3, MinIsIn
  <2> QED
    BY <1>3, <2>1 DEF fresh, x
<1>4. CASE fresh # {}
  <2>1. x \in fresh
    BY <1>1, <1>2, <1>4, MinIsIn
  <2> QED
    BY <2>1 DEF fresh, x
<1> QED
  BY <1>3, <1>4

LEMMA GroupFromIs ==
  ASSUME SeatsAssumption, NEW ranked, NEW left \in SUBSET Nat, IsFiniteSet(left),
         Cardinality(left) >= Seats, NEW playedBefore
  PROVE  IsGroup(ranked, left, playedBefore, GroupFrom(ranked, left, playedBefore))
<1> DEFINE Seat == [group \in Seq(left) |->
                      Append(group,
                             Nearest(ranked, left \ Range(group), Range(group), playedBefore))]
           T == [k \in 0 .. Seats |->
                   {s \in Seq(left) : /\ Len(s) = k /\ IsInjective(s)
                                      /\ FairGroup(ranked, left, playedBefore, s)}]
           seated == Iterated(Seats, <<>>, Seat)
<1>1. Seats \in Nat /\ Cardinality(left) \in Nat
  BY SeatsAssumption, FS_CardinalityType
<1>2. <<>> \in T[0]
  <2>1. /\ <<>> \in Seq(left) /\ Len(<<>>) = 0 /\ IsInjective(<<>>)
        /\ FairGroup(ranked, left, playedBefore, <<>>)
    BY EmptySeq DEF IsInjective, FairGroup
  <2>2. 0 \in 0 .. Seats
    BY <1>1
  <2> QED
    BY <2>1, <2>2
<1>3. ASSUME NEW k \in 1 .. Seats, NEW s \in T[k - 1]
      PROVE  Seat[s] \in T[k]
  <2> DEFINE x == Nearest(ranked, left \ Range(s), Range(s), playedBefore)
             r == Append(s, x)
  <2>1. k - 1 \in 0 .. Seats /\ k \in 0 .. Seats
    BY <1>1
  <2>2. /\ s \in Seq(left) /\ Len(s) = k - 1 /\ IsInjective(s)
        /\ FairGroup(ranked, left, playedBefore, s)
    BY <1>3, <2>1
  <2>3. /\ Range(s) \subseteq left /\ IsFiniteSet(Range(s)) /\ Cardinality(Range(s)) = k - 1
        /\ DOMAIN s = 1 .. k - 1
    BY <2>2, ElementsOfSeq
  <2>4. left \ Range(s) # {}
    <3> SUFFICES ASSUME left \ Range(s) = {} PROVE FALSE
      OBVIOUS
    <3>1. Cardinality(left) # k - 1
      BY <1>1
    <3>2. left = Range(s)
      BY <2>3
    <3> QED
      BY <2>3, <3>1, <3>2, Zenon
  <2>5. /\ x \in left \ Range(s)
        /\ Met(ranked[x], Whose(ranked, Range(s)), playedBefore) =>
             \A i \in left \ Range(s) : Met(ranked[i], Whose(ranked, Range(s)), playedBefore)
    BY <2>4, NearestIs
  <2>6. Seat[s] = r
    BY <2>2
  <2> HIDE DEF x, Seat
  <2>7. /\ r \in Seq(left) /\ Len(r) = k /\ IsInjective(r)
        /\ \A m \in 1 .. k - 1 : r[m] = s[m]
        /\ r[k] = x
    <3>1. k - 1 + 1 = k
      OBVIOUS
    <3> QED
      BY <2>2, <2>5, <3>1, AppendIsSet
  <2> HIDE DEF r
  <2>8. \A m \in 1 .. k - 1 : Before(r, m) = Before(s, m)
    <3> SUFFICES ASSUME NEW m \in 1 .. k - 1 PROVE Before(r, m) = Before(s, m)
      OBVIOUS
    <3>1. \A l \in 1 .. m - 1 : l \in 1 .. k - 1
      OBVIOUS
    <3> QED
      BY <2>7, <3>1 DEF Before
  <2>9. Before(r, k) = Range(s)
    BY <2>3, <2>7 DEF Before, Range
  <2>10. FairGroup(ranked, left, playedBefore, r)
    <3> SUFFICES ASSUME NEW m \in 1 .. k,
                        Met(ranked[r[m]], Whose(ranked, Before(r, m)), playedBefore),
                        NEW i \in left \ Before(r, m)
                 PROVE  Met(ranked[i], Whose(ranked, Before(r, m)), playedBefore)
      BY <2>7 DEF FairGroup
    <3>1. CASE m = k
      BY <2>5, <2>7, <2>9, <3>1, Zenon
    <3>2. CASE m \in 1 .. k - 1
      BY <2>2, <2>7, <2>8, <3>2, Zenon DEF FairGroup
    <3> QED
      BY <3>1, <3>2
  <2> QED
    BY <2>1, <2>6, <2>7, <2>10
<1>4. Seats \in 0 .. Seats
  BY <1>1
<1>5. T[Seats] = {s \in Seq(left) : /\ Len(s) = Seats /\ IsInjective(s)
                                    /\ FairGroup(ranked, left, playedBefore, s)}
  BY <1>4
<1> HIDE DEF T, Seat
<1>6. \A k \in 0 .. Seats : seated[k] \in T[k]
  <2>1. \A k \in 1 .. Seats : \A s \in T[k - 1] : Seat[s] \in T[k]
    BY <1>3
  <2> QED
    BY <1>1, <1>2, <2>1, RecursionByStages, Zenon
<1> HIDE DEF seated
<1>7. seated[Seats] \in T[Seats]
  BY <1>4, <1>6
<1>8. GroupFrom(ranked, left, playedBefore) = seated[Seats]
  BY DEF GroupFrom, Iterated, seated, Seat
<1> QED
  BY <1>5, <1>7, <1>8 DEF IsGroup

(* Who is left when the g-th group is drawn.                                 *)
LeftAt(pool, groups, g) == pool \ UNION {Range(groups[h]) : h \in 1 .. g - 1}
AreGroups(ranked, pool, playedBefore, groups) ==
  \A g \in 1 .. Len(groups) : IsGroup(ranked, LeftAt(pool, groups, g), playedBefore, groups[g])

LEMMA GroupsOfAre ==
  ASSUME SeatsAssumption, NEW ranked, NEW pool \in SUBSET Nat, IsFiniteSet(pool),
         NEW playedBefore
  PROVE  LET groups == GroupsOf(ranked, pool, playedBefore)
             n == Cardinality(pool) \div Seats
         IN  /\ groups \in Seq(Seq(pool)) /\ Len(groups) = n
             /\ AreGroups(ranked, pool, playedBefore, groups)
             /\ IsFiniteSet(pool \ UsedBy(groups))
             /\ Cardinality(pool \ UsedBy(groups)) = Cardinality(pool) - n * Seats
<1> DEFINE n == Cardinality(pool) \div Seats
           c == Cardinality(pool)
           Add == [groups \in Seq(Seq(pool)) |->
                     Append(groups, GroupFrom(ranked, pool \ UsedBy(groups), playedBefore))]
           T == [g \in 0 .. n |->
                   {s \in Seq(Seq(pool)) :
                      /\ Len(s) = g /\ AreGroups(ranked, pool, playedBefore, s)
                      /\ Cardinality(pool \ UsedBy(s)) = c - g * Seats}]
           drawn_ == Iterated(n, <<>>, Add)
<1>1. Seats \in Nat \ {0} /\ c \in Nat /\ n \in Nat /\ n * Seats <= c
  <2>1. Seats \in Nat \ {0} /\ c \in Nat
    BY SeatsAssumption, FS_CardinalityType
  <2>2. n \in Nat /\ c = Seats * n + (c % Seats) /\ c % Seats \in 0 .. Seats - 1
    BY <2>1, Division
  <2> HIDE DEF n, c
  <2>3. n * Seats = Seats * n
    BY <2>1, <2>2
  <2> QED
    BY <2>1, <2>2, <2>3
<1> HIDE DEF n
<1>2. <<>> \in T[0]
  <2>1. /\ <<>> \in Seq(Seq(pool)) /\ Len(<<>>) = 0
        /\ AreGroups(ranked, pool, playedBefore, <<>>)
    BY EmptySeq DEF AreGroups
  <2>2. UsedBy(<<>>) = {}
    BY EmptySeq DEF UsedBy
  <2>3. Cardinality(pool \ UsedBy(<<>>)) = c - 0 * Seats
    <3>1. pool \ UsedBy(<<>>) = pool /\ 0 * Seats = 0 /\ c - 0 = c
      BY <1>1, <2>2
    <3> QED
      BY <3>1
  <2>4. 0 \in 0 .. n
    BY <1>1
  <2> QED
    BY <2>1, <2>3, <2>4
<1>3. ASSUME NEW g \in 1 .. n, NEW s \in T[g - 1]
      PROVE  Add[s] \in T[g]
  <2> DEFINE left == pool \ UsedBy(s)
             x == GroupFrom(ranked, left, playedBefore)
             r == Append(s, x)
  <2>1. g - 1 \in 0 .. n /\ g \in 0 .. n
    BY <1>1
  <2>2. /\ s \in Seq(Seq(pool)) /\ Len(s) = g - 1 /\ AreGroups(ranked, pool, playedBefore, s)
        /\ Cardinality(left) = c - (g - 1) * Seats
    BY <1>3, <2>1
  <2>3. DOMAIN s = 1 .. g - 1
    BY <2>2, ElementsOfSeq
  <2>4. c - (g - 1) * Seats >= Seats /\ c - (g - 1) * Seats - Seats = c - g * Seats
    <3>1. (g - 1) * Seats + Seats = g * Seats /\ g * Seats <= n * Seats /\ g * Seats \in Nat
      BY <1>1, Products
    <3>2. (g - 1) * Seats \in Nat /\ n * Seats \in Nat
      <4>1. g - 1 \in Nat
        OBVIOUS
      <4> QED
        BY <1>1, <4>1
    <3> DEFINE a == (g - 1) * Seats
               b == g * Seats
               e == n * Seats
    <3>3. /\ a \in Nat /\ b \in Nat /\ e \in Nat /\ a + Seats = b /\ b <= e /\ e <= c
          /\ c \in Nat /\ Seats \in Nat
      BY <1>1, <3>1, <3>2
    <3> HIDE DEF a, b, e, c
    <3>4. c - a >= Seats /\ c - a - Seats = c - b
      BY <3>3, TakeAway
    <3> QED
      BY <3>4 DEF a, b
  <2>5. left \in SUBSET Nat /\ IsFiniteSet(left) /\ Cardinality(left) >= Seats
    <3>1. left \in SUBSET Nat /\ IsFiniteSet(left)
      BY FS_Subset
    <3>2. Cardinality(left) >= Seats
      BY <2>2, <2>4, Zenon
    <3> QED
      BY <3>1, <3>2
  <2> HIDE DEF left
  <2>6. IsGroup(ranked, left, playedBefore, x)
    BY <2>5, GroupFromIs
  <2>7. Add[s] = r
    BY <2>2 DEF left
  <2> HIDE DEF x, Add
  <2>8. /\ x \in Seq(left) /\ x \in Seq(pool) /\ Range(x) \subseteq left
        /\ IsFiniteSet(Range(x)) /\ Cardinality(Range(x)) = Seats
    <3>1. x \in Seq(left) /\ Len(x) = Seats /\ IsInjective(x)
      BY <2>6 DEF IsGroup
    <3>2. x \in Seq(pool)
      BY <3>1, SeqDef DEF left
    <3> QED
      BY <3>1, <3>2, ElementsOfSeq
  <2>9. /\ r \in Seq(Seq(pool)) /\ Len(r) = g /\ DOMAIN r = 1 .. g
        /\ \A h \in 1 .. g - 1 : r[h] = s[h]
        /\ r[g] = x
    <3>1. g - 1 + 1 = g
      OBVIOUS
    <3> QED
      BY <2>2, <2>8, <3>1, AppendIsSet
  <2> HIDE DEF r
  <2>10. \A h \in 1 .. g : LeftAt(pool, r, h) = LeftAt(pool, s, h)
    <3> SUFFICES ASSUME NEW h \in 1 .. g PROVE LeftAt(pool, r, h) = LeftAt(pool, s, h)
      OBVIOUS
    <3>1. \A l \in 1 .. h - 1 : l \in 1 .. g - 1
      OBVIOUS
    <3> QED
      BY <2>9, <3>1 DEF LeftAt
  <2>11. LeftAt(pool, s, g) = left
    BY <2>3 DEF LeftAt, left, UsedBy
  <2>12. AreGroups(ranked, pool, playedBefore, r)
    <3> SUFFICES ASSUME NEW h \in 1 .. g
                 PROVE  IsGroup(ranked, LeftAt(pool, r, h), playedBefore, r[h])
      BY <2>9 DEF AreGroups
    <3>1. CASE h = g
      BY <2>6, <2>9, <2>10, <2>11, <3>1
    <3>2. CASE h \in 1 .. g - 1
      BY <2>2, <2>9, <2>10, <3>2 DEF AreGroups
    <3> QED
      BY <3>1, <3>2
  <2>13. pool \ UsedBy(r) = left \ Range(x)
    <3>1. UsedBy(r) = UsedBy(s) \cup Range(x)
      <4>1. \A h \in 1 .. g : h \in 1 .. g - 1 \/ h = g
        OBVIOUS
      <4>2. g \in 1 .. g /\ \A h \in 1 .. g - 1 : h \in 1 .. g
        OBVIOUS
      <4> QED
        BY <2>3, <2>9, <4>1, <4>2 DEF UsedBy
    <3> QED
      BY <3>1 DEF left
  <2>14. Cardinality(left \ Range(x)) = c - g * Seats
    <3>1. Cardinality(left \ Range(x)) = Cardinality(left) - Cardinality(left \cap Range(x))
      BY <2>5, <2>8, FS_Difference
    <3>2. left \cap Range(x) = Range(x)
      BY <2>8
    <3>3. Cardinality(left \ Range(x)) = c - (g - 1) * Seats - Seats
      BY <2>2, <2>8, <3>1, <3>2, Zenon
    <3> QED
      BY <2>4, <3>3, Zenon
  <2> QED
    BY <2>1, <2>7, <2>9, <2>12, <2>13, <2>14
<1>4. n \in 0 .. n
  BY <1>1
<1>5. T[n] = {s \in Seq(Seq(pool)) : /\ Len(s) = n /\ AreGroups(ranked, pool, playedBefore, s)
                                     /\ Cardinality(pool \ UsedBy(s)) = c - n * Seats}
  BY <1>4
<1> HIDE DEF T, Add
<1>6. \A g \in 0 .. n : drawn_[g] \in T[g]
  <2>1. \A g \in 1 .. n : \A s \in T[g - 1] : Add[s] \in T[g]
    BY <1>3
  <2> QED
    BY <1>1, <1>2, <2>1, RecursionByStages, Zenon
<1> HIDE DEF drawn_
<1>7. drawn_[n] \in T[n]
  BY <1>4, <1>6
<1>8. GroupsOf(ranked, pool, playedBefore) = drawn_[n]
  BY DEF GroupsOf, Iterated, drawn_, Add, n
<1>9. IsFiniteSet(pool \ UsedBy(drawn_[n]))
  BY FS_Subset
<1> QED
  BY <1>5, <1>7, <1>8, <1>9 DEF n

(* Everything drawn, as entries: the groups and the byes share out those     *)
(* ranked, and nobody is put at a disadvantage without need.                 *)
LeftIn(groups, g, k) ==
  (UNION {Range(groups[h]) : h \in g + 1 .. Len(groups)}) \cup
  {groups[g][n] : n \in k .. Seats}

Shares(d, E) ==
  /\ d.groups \in Seq(Seq(E)) /\ d.byes \in Seq(E)
  /\ DOMAIN d.groups = 1 .. Len(d.groups)
  /\ \A g \in 1 .. Len(d.groups) : DOMAIN d.groups[g] = 1 .. Seats
  /\ Len(d.byes) < Seats
  /\ Len(d.groups) = 0 <=> Cardinality(E) < Seats
  /\ (UNION {Range(d.groups[g]) : g \in DOMAIN d.groups}) \cup Range(d.byes) = E
  /\ \A g, h \in 1 .. Len(d.groups) : g # h => Range(d.groups[g]) \cap Range(d.groups[h]) = {}
  /\ \A g \in 1 .. Len(d.groups) : Range(d.groups[g]) \cap Range(d.byes) = {}

IsFair(d, E, playedBefore, byesBefore) ==
  /\ \A g \in 1 .. Len(d.groups) : \A k \in 2 .. Seats :
       LET before == {d.groups[g][n] : n \in 1 .. k - 1}
       IN  Met(d.groups[g][k], before, playedBefore) =>
             \A x \in LeftIn(d.groups, g, k) : Met(x, before, playedBefore)
  /\ Range(d.byes) \cap byesBefore # {} => E \subseteq byesBefore \cup Range(d.byes)

LEMMA FunctionIsSeq ==
  ASSUME NEW S, NEW n \in Nat, NEW f \in [1 .. n -> S]
  PROVE  f \in Seq(S) /\ Len(f) = n
<1>1. f \in Seq(S)
  BY SeqDef
<1>2. Len(f) \in Nat /\ 1 .. Len(f) = 1 .. n
  BY <1>1, LenProperties
<1> QED
  BY <1>1, <1>2, OneToN, Zenon

LEMMA DrawIsGood ==
  ASSUME SeatsAssumption, NEW E, NEW ranked \in Seq(E), IsInjective(ranked), Range(ranked) = E,
         NEW playedBefore, NEW byesBefore
  PROVE  /\ Shares(Draw(ranked, playedBefore, byesBefore), E)
         /\ IsFair(Draw(ranked, playedBefore, byesBefore), E, playedBefore, byesBefore)
<1> DEFINE D == DOMAIN ranked
           away == Away(ranked, byesBefore)
           pool == D \ Range(away)
           groups == GroupsOf(ranked, pool, playedBefore)
           q == Cardinality(pool) \div Seats
           named == [g \in DOMAIN groups |-> [k \in 1 .. Seats |-> ranked[groups[g][k]]]]
           byes == [i \in DOMAIN away |-> ranked[away[i]]]
           N == Len(ranked)
<1>1. /\ Seats \in Nat \ {0} /\ N \in Nat /\ D = 1 .. N /\ D \subseteq Nat
      /\ \A i \in D : ranked[i] \in E
      /\ IsFiniteSet(D) /\ Cardinality(D) = N
      /\ IsFiniteSet(E) /\ Cardinality(E) = N
  <2>1. N \in Nat /\ D = 1 .. N /\ \A i \in 1 .. N : ranked[i] \in E
    BY ElementsOfSeq
  <2>2. IsFiniteSet(E) /\ Cardinality(E) = N
    BY ElementsOfSeq
  <2>3. IsFiniteSet(1 .. N) /\ Cardinality(1 .. N) = N
    BY <2>1, OneToN
  <2> QED
    BY <2>1, <2>2, <2>3, SeatsAssumption
<1>2. /\ away \in Seq(D) /\ Len(away) = N % Seats /\ IsInjective(away)
      /\ FairByes(ranked, byesBefore, away)
  BY AwayAre
<1> HIDE DEF away, D, N
<1>3. /\ Range(away) \subseteq D /\ Cardinality(Range(away)) = N % Seats
      /\ DOMAIN away = 1 .. Len(away) /\ \A i \in 1 .. Len(away) : away[i] \in D
  BY <1>2, ElementsOfSeq
<1>4. /\ N % Seats \in 0 .. Seats - 1 /\ N \div Seats \in Nat
      /\ N = Seats * (N \div Seats) + (N % Seats)
      /\ N \div Seats = 0 <=> N < Seats
  BY <1>1, Division
<1>5. /\ pool \subseteq D /\ pool \in SUBSET Nat /\ IsFiniteSet(pool)
      /\ Cardinality(pool) = N - (N % Seats)
  <2>1. /\ IsFiniteSet(pool)
        /\ Cardinality(pool) = Cardinality(D) - Cardinality(D \cap Range(away))
    BY <1>1, FS_Difference
  <2>2. D \cap Range(away) = Range(away)
    BY <1>3
  <2> QED
    BY <1>1, <1>3, <2>1, <2>2
<1> HIDE DEF pool
<1>6. /\ groups \in Seq(Seq(pool)) /\ Len(groups) = q
      /\ AreGroups(ranked, pool, playedBefore, groups)
      /\ IsFiniteSet(pool \ UsedBy(groups))
      /\ Cardinality(pool \ UsedBy(groups)) = Cardinality(pool) - q * Seats
  BY <1>5, SeatsAssumption, GroupsOfAre, Zenon
<1>7. q \in Nat /\ q * Seats = Cardinality(pool) /\ (q = 0 <=> N < Seats)
  <2> DEFINE n == N \div Seats
  <2>1. Cardinality(pool) = Seats * n /\ n \in Nat /\ (n = 0 <=> N < Seats)
    BY <1>1, <1>4, <1>5
  <2> HIDE DEF n
  <2>2. (Seats * n) \div Seats = n /\ Seats * n = n * Seats
    BY <1>1, <2>1
  <2>3. q = n
    BY <2>1, <2>2
  <2> HIDE DEF q
  <2> QED
    BY <2>1, <2>2, <2>3
<1> HIDE DEF q, groups
<1>8. pool = UsedBy(groups)
  <2>1. Cardinality(pool) \in Nat
    BY <1>5, FS_CardinalityType
  <2>2. Cardinality(pool \ UsedBy(groups)) = 0
    BY <1>6, <1>7, <2>1
  <2>3. pool \ UsedBy(groups) = {}
    BY <1>6, <2>2, FS_EmptySet
  <2>4. DOMAIN groups = 1 .. q /\ \A g \in 1 .. q : groups[g] \in Seq(pool)
    BY <1>6, ElementsOfSeq
  <2>5. \A g \in DOMAIN groups : Range(groups[g]) \subseteq pool
    BY <2>4, ElementsOfSeq
  <2> QED
    BY <2>3, <2>5 DEF UsedBy
(* What is known of the places of one group.                                 *)
<1>9. /\ DOMAIN groups = 1 .. q
      /\ \A g \in 1 .. q :
           /\ DOMAIN groups[g] = 1 .. Seats /\ IsInjective(groups[g])
           /\ Range(groups[g]) \subseteq LeftAt(pool, groups, g)
           /\ \A k \in 1 .. Seats : groups[g][k] \in D
           /\ FairGroup(ranked, LeftAt(pool, groups, g), playedBefore, groups[g])
           /\ Len(groups[g]) = Seats
  <2>1. DOMAIN groups = 1 .. q
    BY <1>6, ElementsOfSeq
  <2>2. ASSUME NEW g \in 1 .. q
        PROVE  /\ DOMAIN groups[g] = 1 .. Seats /\ IsInjective(groups[g])
               /\ Range(groups[g]) \subseteq LeftAt(pool, groups, g)
               /\ \A k \in 1 .. Seats : groups[g][k] \in D
               /\ FairGroup(ranked, LeftAt(pool, groups, g), playedBefore, groups[g])
               /\ Len(groups[g]) = Seats
    <3>1. IsGroup(ranked, LeftAt(pool, groups, g), playedBefore, groups[g])
      BY <1>6 DEF AreGroups
    <3>2. /\ groups[g] \in Seq(LeftAt(pool, groups, g)) /\ Len(groups[g]) = Seats
          /\ IsInjective(groups[g])
          /\ FairGroup(ranked, LeftAt(pool, groups, g), playedBefore, groups[g])
      BY <3>1 DEF IsGroup
    <3>3. /\ DOMAIN groups[g] = 1 .. Seats
          /\ Range(groups[g]) \subseteq LeftAt(pool, groups, g)
          /\ \A k \in 1 .. Seats : groups[g][k] \in LeftAt(pool, groups, g)
      BY <3>2, ElementsOfSeq
    <3> QED
      BY <1>5, <3>2, <3>3 DEF LeftAt
  <2> QED
    BY <2>1, <2>2
<1>10. /\ \A g \in 1 .. q : named[g] = [k \in 1 .. Seats |-> ranked[groups[g][k]]]
       /\ DOMAIN named = 1 .. q
       /\ named \in Seq(Seq(E)) /\ Len(named) = q
       /\ \A g \in 1 .. q : \A k \in 1 .. Seats : named[g][k] = ranked[groups[g][k]]
       /\ \A g \in 1 .. q : DOMAIN named[g] = 1 .. Seats
       /\ \A g \in 1 .. q : Range(named[g]) = Whose(ranked, Range(groups[g]))
  <2>1. /\ DOMAIN named = 1 .. q
        /\ \A g \in 1 .. q : named[g] = [k \in 1 .. Seats |-> ranked[groups[g][k]]]
    BY <1>9
  <2> HIDE DEF named
  <2>2. \A g \in 1 .. q : named[g] \in Seq(E) /\ DOMAIN named[g] = 1 .. Seats
    <3> SUFFICES ASSUME NEW g \in 1 .. q PROVE named[g] \in [1 .. Seats -> E]
      BY <1>1, FunctionIsSeq
    <3>2. \A k \in 1 .. Seats : ranked[groups[g][k]] \in E
      BY <1>1, <1>9
    <3> QED
      BY <2>1, <3>2
  <2>3. named \in Seq(Seq(E)) /\ Len(named) = q
    <3>1. named = [g \in 1 .. q |-> named[g]]
      BY <2>1 DEF named
    <3>2. named \in [1 .. q -> Seq(E)]
      BY <2>2, <3>1
    <3> QED
      BY <1>7, <2>1, <3>2, FunctionIsSeq
  <2>4. \A g \in 1 .. q : Range(named[g]) = Whose(ranked, Range(groups[g]))
    <3> SUFFICES ASSUME NEW g \in 1 .. q
                 PROVE  Range(named[g]) = Whose(ranked, Range(groups[g]))
      OBVIOUS
    <3>1. DOMAIN groups[g] = 1 .. Seats
      BY <1>9
    <3> DEFINE v == named[g]
               w == groups[g]
    <3>2. DOMAIN v = 1 .. Seats /\ \A k \in 1 .. Seats : v[k] = ranked[w[k]]
      BY <2>1, <2>2
    <3>3. DOMAIN w = 1 .. Seats
      BY <3>1
    <3> HIDE DEF v, w
    <3>4. Range(v) = Whose(ranked, Range(w))
      BY <3>2, <3>3 DEF Range, Whose
    <3> QED
      BY <3>4 DEF v, w
  <2> QED
    BY <2>1, <2>2, <2>3, <2>4
<1>11. /\ DOMAIN byes = DOMAIN away /\ byes \in Seq(E) /\ Len(byes) = N % Seats
       /\ Range(byes) = Whose(ranked, Range(away))
       /\ \A i \in DOMAIN away : byes[i] = ranked[away[i]]
  <2>1. DOMAIN byes = DOMAIN away /\ \A i \in DOMAIN away : byes[i] = ranked[away[i]]
    OBVIOUS
  <2> DEFINE L == N % Seats
  <2>2. DOMAIN away = 1 .. L /\ L \in Nat
    BY <1>2, <1>3, <1>4
  <2>3. byes \in [1 .. L -> E]
    BY <1>1, <1>3, <2>2
  <2> HIDE DEF L, byes
  <2>4. byes \in Seq(E) /\ Len(byes) = L
    BY <2>1, <2>2, <2>3, FunctionIsSeq
  <2>5. Range(byes) = Whose(ranked, Range(away))
    BY <2>1 DEF Range, Whose
  <2> QED
    BY <2>1, <2>4, <2>5 DEF L
<1>12. Draw(ranked, playedBefore, byesBefore) = [groups |-> named, byes |-> byes]
  BY DEF Draw, named, byes, groups, pool, away, D
<1> HIDE DEF named, byes
(* One place, one entry.                                                     *)
<1>13. \A P, Q \in SUBSET D : P \cap Q = {} => Whose(ranked, P) \cap Whose(ranked, Q) = {}
  <2>1. D = DOMAIN ranked
    BY DEF D
  <2> QED
    BY <2>1 DEF Whose, IsInjective
<1>14. \A g \in 1 .. q : Range(groups[g]) \subseteq pool /\ Range(groups[g]) \subseteq D
  BY <1>5, <1>9 DEF LeftAt
<1>15. \A g, h \in 1 .. q : g < h => Range(groups[g]) \cap Range(groups[h]) = {}
  <2> SUFFICES ASSUME NEW g \in 1 .. q, NEW h \in 1 .. q, g < h
               PROVE  Range(groups[g]) \cap Range(groups[h]) = {}
    OBVIOUS
  <2>1. g \in 1 .. h - 1
    BY <1>7
  <2>2. Range(groups[h]) \subseteq LeftAt(pool, groups, h)
    BY <1>9
  <2> QED
    BY <2>1, <2>2 DEF LeftAt
<1>16. \A g, h \in 1 .. q : g # h => Range(named[g]) \cap Range(named[h]) = {}
  <2> SUFFICES ASSUME NEW g \in 1 .. q, NEW h \in 1 .. q, g # h
               PROVE  Range(named[g]) \cap Range(named[h]) = {}
    OBVIOUS
  <2>1. Range(groups[g]) \cap Range(groups[h]) = {}
    <3>1. g < h \/ h < g
      BY <1>7
    <3> QED
      BY <1>15, <3>1
  <2>2. Whose(ranked, Range(groups[g])) \cap Whose(ranked, Range(groups[h])) = {}
    BY <1>13, <1>14, <2>1
  <2> QED
    BY <1>10, <2>2
<1>17. \A g \in 1 .. q : Range(named[g]) \cap Range(byes) = {}
  <2> SUFFICES ASSUME NEW g \in 1 .. q PROVE Range(named[g]) \cap Range(byes) = {}
    OBVIOUS
  <2>1. Range(groups[g]) \cap Range(away) = {}
    BY <1>14 DEF pool
  <2>2. Whose(ranked, Range(groups[g])) \cap Whose(ranked, Range(away)) = {}
    BY <1>3, <1>13, <1>14, <2>1
  <2> QED
    BY <1>10, <1>11, <2>2
<1>18. (UNION {Range(named[g]) : g \in 1 .. q}) \cup Range(byes) = E
  <2>1. E = Whose(ranked, D)
    BY DEF Whose, Range, D
  <2>2. D = pool \cup Range(away)
    BY <1>3 DEF pool
  <2>3. Whose(ranked, D) = Whose(ranked, pool) \cup Whose(ranked, Range(away))
    BY <2>2 DEF Whose
  <2>4. Whose(ranked, pool) = UNION {Whose(ranked, Range(groups[g])) : g \in 1 .. q}
    <3>1. pool = UNION {Range(groups[g]) : g \in 1 .. q}
      BY <1>8, <1>9 DEF UsedBy
    <3> QED
      BY <3>1 DEF Whose
  <2>5. UNION {Whose(ranked, Range(groups[g])) : g \in 1 .. q}
          = UNION {Range(named[g]) : g \in 1 .. q}
    BY <1>10
  <2> QED
    BY <1>11, <2>1, <2>3, <2>4, <2>5
<1> DEFINE FairAt(s, g, k) ==
             LET before == {s[g][n] : n \in 1 .. k - 1}
             IN  Met(s[g][k], before, playedBefore) =>
                   \A x \in LeftIn(s, g, k) : Met(x, before, playedBefore)
<1>19. ASSUME NEW g \in 1 .. q, NEW k \in 2 .. Seats
       PROVE  FairAt(named, g, k)
  <2> DEFINE B == Before(groups[g], k)
             left == LeftAt(pool, groups, g)
  <2>1. k \in 1 .. Seats /\ \A n \in 1 .. k - 1 : n \in 1 .. Seats
    BY <1>1
  <2>2. {named[g][n] : n \in 1 .. k - 1} = Whose(ranked, B)
    <3>1. \A n \in 1 .. k - 1 : named[g][n] = ranked[groups[g][n]]
      BY <1>10, <2>1
    <3> QED
      BY <3>1 DEF Before, Whose
  <2>3. Met(ranked[groups[g][k]], Whose(ranked, B), playedBefore) =>
          \A i \in left \ B : Met(ranked[i], Whose(ranked, B), playedBefore)
    BY <1>9, <2>1 DEF FairGroup
  <2>4. LeftIn(named, g, k) \subseteq Whose(ranked, left \ B)
    <3>1. ASSUME NEW n \in k .. Seats
          PROVE  named[g][n] \in Whose(ranked, left \ B)
      <4>1. n \in 1 .. Seats /\ \A m \in 1 .. k - 1 : m \in 1 .. Seats /\ m # n
        BY <1>1
      <4>2. /\ groups[g][n] \in left
            /\ \A m \in 1 .. k - 1 : groups[g][m] # groups[g][n]
        BY <1>9, <4>1 DEF Range, IsInjective
      <4>3. groups[g][n] \notin B
        BY <4>2 DEF Before
      <4>4. named[g][n] = ranked[groups[g][n]]
        BY <1>10, <4>1
      <4> QED
        BY <4>2, <4>3, <4>4 DEF Whose
    <3>2. ASSUME NEW h \in g + 1 .. q
          PROVE  Range(named[h]) \subseteq Whose(ranked, left \ B)
      <4>1. h \in 1 .. q /\ g \in 1 .. h - 1 /\ \A l \in 1 .. g - 1 : l \in 1 .. h - 1
        BY <1>7
      <4>2. Range(groups[h]) \subseteq LeftAt(pool, groups, h)
        BY <1>9, <4>1
      <4>3. B \subseteq Range(groups[g])
        BY <1>9, <2>1 DEF Before, Range
      <4>4. Range(groups[h]) \subseteq left \ B
        BY <4>1, <4>2, <4>3 DEF LeftAt
      <4> QED
        BY <1>10, <4>1, <4>4 DEF Whose
    <3>3. Len(named) = q
      BY <1>10
    <3> HIDE DEF left, B
    <3> QED
      BY <3>1, <3>2, <3>3 DEF LeftIn
  <2> HIDE DEF B, left
  <2>5. \A x \in Whose(ranked, left \ B) : \E i \in left \ B : x = ranked[i]
    BY DEF Whose
  <2>6. named[g][k] = ranked[groups[g][k]]
    BY <1>10, <2>1
  <2> DEFINE before == {named[g][n] : n \in 1 .. k - 1}
  <2>7. before = Whose(ranked, B)
    BY <2>2
  <2> HIDE DEF before
  <2>8. ASSUME Met(named[g][k], before, playedBefore), NEW x \in LeftIn(named, g, k)
        PROVE  Met(x, before, playedBefore)
    <3>1. PICK i \in left \ B : x = ranked[i]
      BY <2>4, <2>5
    <3>2. Met(ranked[groups[g][k]], Whose(ranked, B), playedBefore)
      BY <2>6, <2>7, <2>8
    <3> QED
      BY <2>3, <2>7, <3>1, <3>2
  <2> QED
    BY <2>8 DEF before
<1> HIDE DEF FairAt
<1>20. Range(byes) \cap byesBefore # {} => E \subseteq byesBefore \cup Range(byes)
  <2> SUFFICES ASSUME NEW i \in DOMAIN away, byes[i] \in byesBefore, NEW x \in E,
                      x \notin byesBefore
               PROVE  x \in Range(byes)
    BY <1>11 DEF Range
  <2>1. PICK p \in D : x = ranked[p]
    BY DEF Range, D
  <2>2. p \in Range(away)
    <3> SUFFICES ASSUME p \notin Range(away) PROVE FALSE
      OBVIOUS
    <3>1. i \in 1 .. Len(away) /\ DOMAIN away = 1 .. Len(away) /\ Len(away) \in Nat
      BY <1>2, <1>3, ElementsOfSeq
    <3>2. \A m \in 1 .. i - 1 : m \in DOMAIN away
      BY <3>1
    <3>3. \A m \in 1 .. i - 1 : away[m] # p
      BY <3>2 DEF Range
    <3>4. ranked[away[i]] \in byesBefore
      BY <1>11
    <3>5. p \in DOMAIN ranked
      BY <2>1 DEF D
    <3> QED
      BY <1>2, <2>1, <3>1, <3>3, <3>4, <3>5, Zenon DEF FairByes
  <2> QED
    BY <1>11, <2>1, <2>2 DEF Whose
<1>21. Len(byes) < Seats /\ (Len(named) = 0 <=> Cardinality(E) < Seats)
  BY <1>1, <1>4, <1>7, <1>10, <1>11
<1> DEFINE d == Draw(ranked, playedBefore, byesBefore)
<1>22. d.groups = named /\ d.byes = byes
  BY <1>12
<1> HIDE DEF d
<1>23. DOMAIN named = 1 .. q /\ Len(named) = q
  BY <1>10
<1>24. /\ d.groups \in Seq(Seq(E)) /\ d.byes \in Seq(E)
       /\ DOMAIN d.groups = 1 .. Len(d.groups)
       /\ \A g \in 1 .. Len(d.groups) : DOMAIN d.groups[g] = 1 .. Seats
       /\ Len(d.byes) < Seats
       /\ Len(d.groups) = 0 <=> Cardinality(E) < Seats
  BY <1>10, <1>11, <1>21, <1>22, <1>23
<1>25. (UNION {Range(d.groups[g]) : g \in DOMAIN d.groups}) \cup Range(d.byes) = E
  BY <1>18, <1>22, <1>23
<1>26. \A g, h \in 1 .. Len(d.groups) : g # h =>
         Range(d.groups[g]) \cap Range(d.groups[h]) = {}
  BY <1>16, <1>22, <1>23
<1>27. \A g \in 1 .. Len(d.groups) : Range(d.groups[g]) \cap Range(d.byes) = {}
  BY <1>17, <1>22, <1>23
<1>28. \A g \in 1 .. Len(d.groups) : \A k \in 2 .. Seats : FairAt(d.groups, g, k)
  BY <1>19, <1>22, <1>23
<1>29. Range(d.byes) \cap byesBefore # {} => E \subseteq byesBefore \cup Range(d.byes)
  BY <1>20, <1>22
<1> HIDE DEF named, byes
<1> QED
  BY <1>24, <1>25, <1>26, <1>27, <1>28, <1>29, Zenon DEF Shares, IsFair, d, FairAt

-----------------------------------------------------------------------------
(* The inductive invariant of the run.                                       *)

Lines == [kind : {"M", "B"}, round : 1 .. Rounds, members : Seq(Ids), job : 0 .. MaxJobs]
ReadyIds == {id \in Ids : Ready(id)}
Drawing == pc \in {"match", "log"}

Types ==
  /\ file \in Seq(Lines)
  /\ \A l \in MatchLines : l.job \in Jobs
  /\ \A l \in ByeLines : \E id \in Ids : l.members = <<id>>
  /\ job \in [Jobs -> JobStates]
  /\ status \in [Ids \ Builtins -> {"PENDING", "READY", "BUILD_FAILED"}]
  /\ placing \subseteq {c \in Ids \ Builtins : status[c] = "PENDING"}
  /\ pc \in {"resume", "settle", "draw", "match", "log", "await", "done"}
  /\ ids \subseteq Ids /\ hadBye \subseteq Ids /\ played \subseteq SUBSET Ids
  /\ round \in 0 .. Rounds /\ (pc \in {"draw", "match", "log", "await"} => round < Rounds)
  /\ next \in Nat /\ matches \subseteq Match
  /\ match \in IF pc = "log" THEN Match ELSE {NoMatch}
  /\ rounds \in Seq([matches : SUBSET Match, byes : Seq(Ids)])
  /\ Len(rounds) = IF pc = "await" THEN round + 1 ELSE round
  /\ concluded \in [Jobs -> JobStates \ {"OPEN"}]
  /\ restarts \in 0 .. MaxRestarts
  /\ ~ Drawing => next = 0 /\ matches = {}

(* What is known of a job, and where the match of a job can be.               *)
JobsAreKnown ==
  /\ pc \in {"resume", "settle"} => \A j \in Jobs : job[j] # "OPEN"
  /\ \A j \in Jobs : concluded[j] # "NONE" => job[j] \notin {"NONE", "OPEN"}
  /\ \A l \in MatchLines : job[l.job] # "NONE"
  /\ pc = "log" => job[match.job] # "NONE"
  /\ pc # "resume" =>
       \A l \in MatchLines :
         \/ l.round <= round /\ job[l.job] # "OPEN"
         \/ l.round = round + 1 /\ Drawing /\ \E m \in matches : m.job = l.job
         \/ /\ l.round = round + 1 /\ pc = "await"
            /\ \E m \in rounds[round + 1].matches : m.job = l.job

(* What the thread remembers is what is on file, but for a match that is not  *)
(* logged yet.                                                                *)
ThreadKnowsTheFile ==
  pc # "resume" =>
    /\ hadBye = ByesInFile
    /\ played = PairsInFile \cup (IF pc = "log" THEN PairsOf(match.members) ELSE {})

(* The draw, and how far it has been dealt with.                              *)
DrawIsKept ==
  /\ Drawing => Shares(drawn, ids)
  /\ pc = "match" /\ next = 0 => IsFair(drawn, ids, PairsInFile, ByesInFile)
  /\ pc = "log" => /\ next < Len(drawn.groups)
                   /\ Range(match.members) = Range(drawn.groups[next + 1])
  /\ Drawing => \A l \in MatchLines : l.round = round + 1 =>
       \E g \in 1 .. Len(drawn.groups) : g <= next /\ Range(l.members) = Range(drawn.groups[g])
  /\ Drawing /\ next > 0 /\ Len(drawn.groups) > 0 => \E l \in MatchLines : l.round = round + 1
  /\ Drawing /\ next < Len(drawn.groups) => \A l \in ByeLines : l.round # round + 1

(* A round that is on file with byes only is one nobody could have played.    *)
ByesAreFinal ==
  /\ pc \notin {"resume", "settle"} => Settled /\ ReadyIds \subseteq ids
  /\ \A l \in ByeLines :
       \/ \E m \in MatchLines : m.round >= l.round
       \/ /\ Settled /\ Cardinality(ReadyIds) < Seats
          /\ pc \notin {"resume", "settle"} => Cardinality(ids) < Seats

SwissInv ==
  /\ Types /\ JobsAreKnown /\ ThreadKnowsTheFile /\ DrawIsKept /\ ByesAreFinal
  /\ NobodyPlaysTwice

(* The file, and what is read from it.                                       *)
LEMMA FileStays ==
  ASSUME file' = file
  PROVE  /\ MatchLines' = MatchLines /\ ByeLines' = ByeLines
         /\ PairsInFile' = PairsInFile /\ ByesInFile' = ByesInFile
         /\ NobodyPlaysTwice' = NobodyPlaysTwice
<1>1. MatchLines' = MatchLines /\ ByeLines' = ByeLines
  BY DEF MatchLines, ByeLines
<1>2. PairsInFile' = PairsInFile /\ ByesInFile' = ByesInFile
  BY <1>1 DEF PairsInFile, ByesInFile
<1>3. NobodyPlaysTwice' = NobodyPlaysTwice
  BY DEF NobodyPlaysTwice
<1> QED
  BY <1>1, <1>2, <1>3

LEMMA LinesAreLines ==
  ASSUME file \in Seq(Lines)
  PROVE  /\ Range(file) \subseteq Lines
         /\ MatchLines \subseteq Lines /\ ByeLines \subseteq Lines
         /\ \A i \in DOMAIN file : file[i] \in Lines /\ file[i] \in Range(file)
<1>1. Range(file) \subseteq Lines /\ DOMAIN file = 1 .. Len(file)
  BY ElementsOfSeq
<1>2. \A i \in DOMAIN file : file[i] \in Range(file)
  BY DEF Range
<1> QED
  BY <1>1, <1>2 DEF MatchLines, ByeLines

LEMMA LastRoundIs ==
  ASSUME SwissAssumption, file \in Seq(Lines)
  PROVE  /\ LastRound \in 0 .. Rounds
         /\ \A l \in MatchLines : l.round <= LastRound
         /\ LastRound = 0 \/ \E l \in MatchLines : l.round = LastRound
<1> DEFINE S == {0} \cup {l.round : l \in MatchLines}
<1>1. Rounds \in Nat /\ S \in SUBSET (0 .. Rounds) /\ S # {}
  <2>1. \A l \in MatchLines : l.round \in 1 .. Rounds
    BY LinesAreLines DEF Lines
  <2> QED
    BY <2>1, SwissAssumption
<1>2. LastRound = Max(S)
  BY DEF LastRound
<1>3. \A l \in MatchLines : l.round \in S
  OBVIOUS
<1> HIDE DEF S
<1>4. LastRound \in S /\ \A y \in S : y <= LastRound
  BY <1>1, <1>2, MaxIsIn
<1> QED
  BY <1>1, <1>3, <1>4 DEF S

LEMMA FileGrows ==
  ASSUME file \in Seq(Lines), NEW x \in Lines, file' = Append(file, x)
  PROVE  /\ file' \in Seq(Lines)
         /\ x.kind = "M" => /\ MatchLines' = MatchLines \cup {x} /\ ByeLines' = ByeLines
                            /\ PairsInFile' = PairsInFile \cup PairsOf(x.members)
                            /\ ByesInFile' = ByesInFile
         /\ x.kind = "B" => /\ MatchLines' = MatchLines /\ ByeLines' = ByeLines \cup {x}
                            /\ PairsInFile' = PairsInFile
                            /\ ByesInFile' = ByesInFile \cup Range(x.members)
<1>1. file' \in Seq(Lines) /\ Range(file') = Range(file) \cup {x}
  BY AppendIsSet
<1>2. x.kind = "M" => MatchLines' = MatchLines \cup {x} /\ ByeLines' = ByeLines
  BY <1>1 DEF MatchLines, ByeLines
<1>3. x.kind = "B" => MatchLines' = MatchLines /\ ByeLines' = ByeLines \cup {x}
  BY <1>1 DEF MatchLines, ByeLines
<1>4. x.kind = "M" => /\ PairsInFile' = PairsInFile \cup PairsOf(x.members)
                      /\ ByesInFile' = ByesInFile
  <2> SUFFICES ASSUME x.kind = "M"
               PROVE  /\ PairsInFile' = PairsInFile \cup PairsOf(x.members)
                      /\ ByesInFile' = ByesInFile
    OBVIOUS
  <2> DEFINE A == MatchLines
  <2>1. MatchLines' = A \cup {x} /\ ByeLines' = ByeLines
    BY <1>2
  <2>2. UNION {PairsOf(l.members) : l \in A \cup {x}}
          = (UNION {PairsOf(l.members) : l \in A}) \cup PairsOf(x.members)
    OBVIOUS
  <2> QED
    BY <2>1, <2>2 DEF PairsInFile, ByesInFile
<1>5. x.kind = "B" => /\ PairsInFile' = PairsInFile
                      /\ ByesInFile' = ByesInFile \cup Range(x.members)
  <2> SUFFICES ASSUME x.kind = "B"
               PROVE  /\ PairsInFile' = PairsInFile
                      /\ ByesInFile' = ByesInFile \cup Range(x.members)
    OBVIOUS
  <2> DEFINE A == ByeLines
  <2>1. ByeLines' = A \cup {x} /\ MatchLines' = MatchLines
    BY <1>3
  <2>2. UNION {Range(l.members) : l \in A \cup {x}}
          = (UNION {Range(l.members) : l \in A}) \cup Range(x.members)
    OBVIOUS
  <2> QED
    BY <2>1, <2>2 DEF PairsInFile, ByesInFile
<1> QED
  BY <1>1, <1>2, <1>3, <1>4, <1>5

(* A line that shares nobody with the lines of its round that it must not     *)
(* share with.                                                                *)
LEMMA StillNobodyPlaysTwice ==
  ASSUME file \in Seq(Lines), NEW x \in Lines, file' = Append(file, x), NobodyPlaysTwice,
         \A l \in Range(file) :
           l.round = x.round /\ "M" \in {l.kind, x.kind} =>
             Range(l.members) \cap Range(x.members) = {}
  PROVE  NobodyPlaysTwice'
<1> DEFINE n == Len(file)
           r == Append(file, x)
<1>1. /\ n \in Nat /\ DOMAIN file = 1 .. n /\ DOMAIN r = 1 .. n + 1
      /\ \A i \in 1 .. n : r[i] = file[i]
      /\ r[n + 1] = x
  BY AppendIsSet, ElementsOfSeq
<1>2. \A i \in 1 .. n : file[i] \in Range(file)
  BY <1>1 DEF Range
<1>3. \A i \in 1 .. n + 1 : i \in 1 .. n \/ i = n + 1
  BY <1>1
<1> HIDE DEF n, r
<1>4. SUFFICES ASSUME NEW i \in 1 .. n + 1, NEW k \in 1 .. n + 1, i # k,
                      r[i].round = r[k].round, "M" \in {r[i].kind, r[k].kind}
               PROVE  Range(r[i].members) \cap Range(r[k].members) = {}
  BY <1>1 DEF NobodyPlaysTwice, r
<1>5. CASE i \in 1 .. n /\ k \in 1 .. n
  BY <1>1, <1>4, <1>5, Zenon DEF NobodyPlaysTwice
<1>6. CASE i = n + 1 /\ k \in 1 .. n
  <2>1. r[i] = x /\ r[k] = file[k] /\ file[k] \in Range(file)
    BY <1>1, <1>2, <1>6
  <2> QED
    BY <1>4, <2>1
<1>7. CASE k = n + 1 /\ i \in 1 .. n
  <2>1. r[k] = x /\ r[i] = file[i] /\ file[i] \in Range(file)
    BY <1>1, <1>2, <1>7
  <2> QED
    BY <1>4, <2>1
<1> QED
  BY <1>3, <1>4, <1>5, <1>6, <1>7

LEMMA StatusStays ==
  ASSUME status' = status
  PROVE  Settled' = Settled /\ ReadyIds' = ReadyIds
  BY DEF Settled, ReadyIds, Ready

(* The order of a group does not matter to who has met.                      *)
LEMMA PairsOfSet ==
  ASSUME NEW s, NEW t, Range(s) = Range(t)
  PROVE  PairsOf(s) = PairsOf(t)
  BY DEF PairsOf

LEMMA IdsAreFinite ==
  ASSUME SwissAssumption
  PROVE  IsFiniteSet(Ids)
  BY SwissAssumption, ElementsOfSeq DEF Ids

LEMMA CodeFirstIs ==
  ASSUME NEW group \in Seq(Ids)
  PROVE  CodeFirst(group) \in Seq(Ids) /\ Range(CodeFirst(group)) = Range(group)
<1> DEFINE s == Those(group, Range(group) \ Builtins)
           t == Those(group, Builtins)
<1>1. /\ s \in Seq(Ids) /\ Range(s) = Range(group) \ Builtins
      /\ t \in Seq(Ids) /\ Range(t) = Range(group) \cap Builtins
  BY ThoseAre
<1>2. CodeFirst(group) = s \o t
  BY DEF CodeFirst
<1> HIDE DEF s, t
<1>3. /\ s \o t \in Seq(Ids) /\ DOMAIN (s \o t) = 1 .. Len(s) + Len(t)
      /\ \A i \in 1 .. Len(s) + Len(t) :
           (s \o t)[i] = IF i <= Len(s) THEN s[i] ELSE t[i - Len(s)]
  BY <1>1, ConcatProperties, ElementsOfSeq
<1>4. /\ Len(s) \in Nat /\ DOMAIN s = 1 .. Len(s) /\ Len(t) \in Nat /\ DOMAIN t = 1 .. Len(t)
  BY <1>1, ElementsOfSeq
<1>5. Range(s \o t) = Range(s) \cup Range(t)
  <2> DEFINE m == Len(s)
             n == Len(t)
             r == s \o t
  <2>1. /\ m \in Nat /\ n \in Nat
        /\ DOMAIN s = 1 .. m /\ DOMAIN t = 1 .. n /\ DOMAIN r = 1 .. m + n
        /\ \A i \in 1 .. m + n : r[i] = IF i <= m THEN s[i] ELSE t[i - m]
    BY <1>3, <1>4
  <2> HIDE DEF m, n, r
  <2>2. \A i \in DOMAIN r : r[i] \in Range(s) \cup Range(t)
    <3> SUFFICES ASSUME NEW i \in 1 .. m + n PROVE r[i] \in Range(s) \cup Range(t)
      BY <2>1
    <3>1. CASE i <= m
      <4>1. i \in 1 .. m /\ r[i] = s[i]
        BY <2>1, <3>1
      <4> QED
        BY <2>1, <4>1 DEF Range
    <3>2. CASE ~ (i <= m)
      <4>1. i - m \in 1 .. n /\ r[i] = t[i - m]
        BY <2>1, <3>2
      <4> QED
        BY <2>1, <4>1 DEF Range
    <3> QED
      BY <3>1, <3>2
  <2>3. \A i \in 1 .. m : i \in 1 .. m + n /\ r[i] = s[i]
    BY <2>1
  <2>4. \A i \in 1 .. n : i + m \in 1 .. m + n /\ r[i + m] = t[i]
    <3> SUFFICES ASSUME NEW i \in 1 .. n PROVE i + m \in 1 .. m + n /\ r[i + m] = t[i]
      OBVIOUS
    <3>1. i + m \in 1 .. m + n /\ ~ (i + m <= m) /\ i + m - m = i
      BY <2>1
    <3> QED
      BY <2>1, <3>1
  <2>5. Range(s) \subseteq Range(r) /\ Range(t) \subseteq Range(r)
    BY <2>1, <2>3, <2>4 DEF Range
  <2>6. Range(r) \subseteq Range(s) \cup Range(t)
    BY <2>2 DEF Range
  <2> QED
    BY <2>5, <2>6 DEF r
<1> QED
  BY <1>1, <1>2, <1>3, <1>5

(* Every ranking a round may be drawn from has each of the entries once.     *)
LEMMA RankingsAre ==
  ASSUME SwissAssumption, ids \subseteq Ids, NEW ranked \in Rankings
  PROVE  ranked \in Seq(ids) /\ IsInjective(ranked) /\ Range(ranked) = ids
<1>1. CASE round = 0
  <2>1. ranked = Those(Entries, ids)
    BY <1>1 DEF Rankings
  <2>2. Entries \in Seq(Ids) /\ Range(Entries) = Ids /\ IsInjective(Entries)
    BY SwissAssumption DEF Ids, IsInjective
  <2>3. ranked \in Seq(Ids) /\ Range(ranked) = ids /\ IsInjective(ranked)
    <3>1. Ids \cap ids = ids
      OBVIOUS
    <3>2. /\ Those(Entries, ids) \in Seq(Ids)
          /\ Range(Those(Entries, ids)) = Range(Entries) \cap ids
          /\ IsInjective(Those(Entries, ids))
      BY <2>2, ThoseAre, Zenon
    <3> QED
      BY <2>1, <2>2, <3>1, <3>2, Zenon
  <2>4. ranked \in [1 .. Len(ranked) -> ids] /\ Len(ranked) \in Nat
    <3>1. Len(ranked) \in Nat /\ ranked \in [1 .. Len(ranked) -> Ids]
      BY <2>3, LenProperties
    <3>2. \A i \in 1 .. Len(ranked) : ranked[i] \in ids
      BY <2>3, <3>1 DEF Range
    <3> QED
      BY <3>1, <3>2
  <2> QED
    BY <2>3, <2>4, FunctionIsSeq
<1>2. CASE round # 0
  <2> DEFINE n == Cardinality(ids)
  <2>1. ranked \in [1 .. n -> ids] /\ Range(ranked) = ids
    BY <1>2 DEF Rankings
  <2>2. IsFiniteSet(ids) /\ n \in Nat
    BY IdsAreFinite, FS_Subset, FS_CardinalityType
  <2>3. IsFiniteSet(1 .. n) /\ Cardinality(1 .. n) = n
    BY <2>2, OneToN
  <2>4. ranked \in Surjection(1 .. n, ids)
    BY <2>1 DEF Surjection, Range
  <2>5. ranked \in Injection(1 .. n, ids)
    BY <2>2, <2>3, <2>4, FS_SurjSameCardinalityImpliesInj
  <2> HIDE DEF n
  <2>6. IsInjective(ranked)
    BY <2>1, <2>5 DEF Injection, IsInjective
  <2> QED
    BY <2>1, <2>2, <2>6, FunctionIsSeq
<1> QED
  BY <1>1, <1>2

LEMMA WhatIsInTheFile ==
  ASSUME Types
  PROVE  /\ PairsInFile \subseteq SUBSET Ids /\ ByesInFile \subseteq Ids
         /\ \A r : ByesOf(r) \in Seq(Ids) /\ MatchesOf(r) \subseteq Match
<1>1. file \in Seq(Lines) /\ MatchLines \subseteq Lines /\ ByeLines \subseteq Lines
  BY LinesAreLines DEF Types
<1>2. \A s \in Seq(Ids) : PairsOf(s) \subseteq SUBSET Ids /\ Range(s) \subseteq Ids
  <2> SUFFICES ASSUME NEW s \in Seq(Ids)
               PROVE  PairsOf(s) \subseteq SUBSET Ids /\ Range(s) \subseteq Ids
    OBVIOUS
  <2>1. Range(s) \subseteq Ids
    BY ElementsOfSeq
  <2> QED
    BY <2>1 DEF PairsOf
<1>3. \A l \in Lines : l.members \in Seq(Ids)
  BY DEF Lines
<1>4. PairsInFile \subseteq SUBSET Ids
  <2>1. \A l \in MatchLines : PairsOf(l.members) \subseteq SUBSET Ids
    BY <1>1, <1>2, <1>3
  <2> QED
    BY <2>1 DEF PairsInFile
<1>5. ByesInFile \subseteq Ids
  <2>1. \A l \in ByeLines : Range(l.members) \subseteq Ids
    BY <1>1, <1>2, <1>3
  <2> QED
    BY <2>1 DEF ByesInFile
<1>6. ASSUME NEW r PROVE ByesOf(r) \in Seq(Ids)
  <2> DEFINE S == {l \in ByeLines : l.round = r}
             lines == Those(file, S)
             n == Len(lines)
  <2>1. lines \in Seq(Lines) /\ Range(lines) \subseteq S
    BY <1>1, ThoseAre
  <2>2. n \in Nat /\ DOMAIN lines = 1 .. n
    BY <2>1, ElementsOfSeq
  <2>3. ByesOf(r) = [i \in DOMAIN lines |-> lines[i].members[1]]
    BY DEF ByesOf
  <2> HIDE DEF lines, n
  <2>4. \A i \in 1 .. n : lines[i].members[1] \in Ids
    <3> SUFFICES ASSUME NEW i \in 1 .. n PROVE lines[i].members[1] \in Ids
      OBVIOUS
    <3>1. lines[i] \in ByeLines
      BY <2>1, <2>2 DEF Range
    <3>2. PICK id \in Ids : lines[i].members = <<id>>
      BY <3>1 DEF Types
    <3> QED
      BY <3>2
  <2> QED
    BY <2>2, <2>3, <2>4, FunctionIsSeq
<1>7. ASSUME NEW r PROVE MatchesOf(r) \subseteq Match
  <2>1. \A l \in MatchLines : l.job \in Jobs /\ l.members \in Seq(Ids)
    BY <1>1, <1>3 DEF Types
  <2> QED
    BY <2>1 DEF MatchesOf, Match
<1> QED
  BY <1>4, <1>5, <1>6, <1>7

LEMMA Start ==
  ASSUME SwissAssumption, Init
  PROVE  SwissInv
<1>1. file = <<>> /\ Range(file) = {} /\ DOMAIN file = {} /\ file \in Seq(Lines)
  BY EmptySeq DEF Init, Range
<1>2. MatchLines = {} /\ ByeLines = {}
  BY <1>1 DEF MatchLines, ByeLines
<1>3. Types
  <2>1. rounds \in Seq([matches : SUBSET Match, byes : Seq(Ids)]) /\ Len(rounds) = 0
    BY EmptySeq DEF Init
  <2>2. Rounds \in Nat /\ MaxRestarts \in Nat
    BY SwissAssumption
  <2> QED
    BY <1>1, <1>2, <2>1, <2>2 DEF Types, Init, JobStates, Drawing
<1>4. JobsAreKnown /\ ThreadKnowsTheFile /\ ByesAreFinal
  BY <1>2 DEF Init, JobsAreKnown, ThreadKnowsTheFile, ByesAreFinal, Jobs
<1>5. DrawIsKept
  BY DEF Init, DrawIsKept, Drawing
<1>6. NobodyPlaysTwice
  BY <1>1 DEF NobodyPlaysTwice
<1> QED
  BY <1>3, <1>4, <1>5, <1>6 DEF SwissInv

LEMMA ResumeKeeps ==
  ASSUME SwissAssumption, SwissInv, Resume
  PROVE  SwissInv'
<1>1. /\ Types /\ JobsAreKnown /\ ByesAreFinal /\ NobodyPlaysTwice
      /\ pc = "resume" /\ pc' = "settle" /\ file' = file /\ job' = job /\ status' = status
      /\ placing' = placing /\ round' = LastRound
      /\ next' = next /\ matches' = matches /\ match' = match /\ ids' = ids
      /\ restarts' = restarts /\ played' = PairsInFile /\ hadBye' = ByesInFile
  BY DEF SwissInv, Resume, ResumeAt, disk, outside
<1>2. /\ MatchLines' = MatchLines /\ ByeLines' = ByeLines
      /\ PairsInFile' = PairsInFile /\ ByesInFile' = ByesInFile
      /\ NobodyPlaysTwice' = NobodyPlaysTwice
  BY <1>1, FileStays
<1>3. Settled' = Settled /\ ReadyIds' = ReadyIds
  BY <1>1, StatusStays
<1>4. /\ LastRound \in 0 .. Rounds /\ LastRound \in Nat
      /\ \A l \in MatchLines : l.round <= LastRound
  <2>1. Rounds \in Nat /\ file \in Seq(Lines)
    BY <1>1, SwissAssumption DEF Types
  <2> QED
    BY <2>1, LastRoundIs
<1>5. /\ rounds' \in Seq([matches : SUBSET Match, byes : Seq(Ids)])
      /\ Len(rounds') = LastRound
  <2> DEFINE R == [matches : SUBSET Match, byes : Seq(Ids)]
  <2>1. rounds' = [n \in 1 .. LastRound |-> [matches |-> MatchesOf(n), byes |-> ByesOf(n)]]
    BY DEF Resume, ResumeAt
  <2>2. \A n : [matches |-> MatchesOf(n), byes |-> ByesOf(n)] \in R
    BY <1>1, WhatIsInTheFile
  <2> HIDE DEF R
  <2>3. rounds' \in [1 .. LastRound -> R]
    BY <2>1, <2>2
  <2> QED
    BY <1>4, <2>3, FunctionIsSeq DEF R
<1>6. /\ concluded' \in [Jobs -> JobStates \ {"OPEN"}]
      /\ \A j \in Jobs : concluded'[j] # "NONE" => job[j] \notin {"NONE", "OPEN"}
  <2>1. concluded' = [j \in Jobs |-> IF Ends[j] = "NONE" THEN concluded[j] ELSE Ends[j]]
    BY DEF Resume, ResumeAt
  <2>2. \A j \in Jobs : /\ Ends[j] \in JobStates \ {"OPEN"}
                        /\ Ends[j] # "NONE" => \E l \in MatchLines : l.job = j
    BY DEF Ends, JobStates
  <2>3. \A j \in Jobs : concluded[j] \in JobStates \ {"OPEN"}
    BY <1>1 DEF Types
  <2>4. \A j \in Jobs : job[j] # "OPEN"
    BY <1>1 DEF JobsAreKnown
  <2>5. \A l \in MatchLines : job[l.job] # "NONE"
    BY <1>1 DEF JobsAreKnown
  <2>6. \A j \in Jobs : concluded[j] # "NONE" => job[j] \notin {"NONE", "OPEN"}
    BY <1>1 DEF JobsAreKnown
  <2> QED
    BY <2>1, <2>2, <2>3, <2>4, <2>5, <2>6
<1>7. Types'
  <2>1. PairsInFile \subseteq SUBSET Ids /\ ByesInFile \subseteq Ids
    BY <1>1, WhatIsInTheFile
  <2> QED
    BY <1>1, <1>2, <1>4, <1>5, <1>6, <2>1 DEF Types, Drawing
<1>8. JobsAreKnown'
  <2>1. \A l \in MatchLines : l.job \in Jobs
    BY <1>1 DEF Types
  <2> QED
    BY <1>1, <1>2, <1>4, <1>6, <2>1 DEF JobsAreKnown
<1>9. ThreadKnowsTheFile'
  BY <1>1, <1>2 DEF ThreadKnowsTheFile
<1>10. DrawIsKept'
  BY <1>1 DEF DrawIsKept, Drawing
<1>11. ByesAreFinal'
  BY <1>1, <1>2, <1>3 DEF ByesAreFinal
<1> QED
  BY <1>1, <1>2, <1>7, <1>8, <1>9, <1>10, <1>11 DEF SwissInv

LEMMA SettleKeeps ==
  ASSUME SwissAssumption, SwissInv, Settle
  PROVE  SwissInv'
<1>1. /\ Types /\ JobsAreKnown /\ ThreadKnowsTheFile /\ ByesAreFinal /\ NobodyPlaysTwice
      /\ pc = "settle" /\ Settled /\ ids' = ReadyIds
      /\ pc' = NextStage(round) /\ file' = file /\ job' = job /\ status' = status
      /\ placing' = placing /\ round' = round
      /\ next' = next /\ matches' = matches /\ match' = match /\ rounds' = rounds
      /\ concluded' = concluded
      /\ restarts' = restarts /\ played' = played /\ hadBye' = hadBye
  BY DEF SwissInv, Settle, disk, outside, ReadyIds
<1>2. /\ MatchLines' = MatchLines /\ ByeLines' = ByeLines
      /\ PairsInFile' = PairsInFile /\ ByesInFile' = ByesInFile
      /\ NobodyPlaysTwice' = NobodyPlaysTwice
  BY <1>1, FileStays
<1>3. Settled' = Settled /\ ReadyIds' = ReadyIds
  BY <1>1, StatusStays
<1>4. pc' \in {"draw", "done"} /\ (pc' = "draw" => round < Rounds)
  BY <1>1 DEF NextStage
<1>5. Types'
  BY <1>1, <1>2, <1>4 DEF Types, Drawing, ReadyIds
<1>6. JobsAreKnown'
  <2>1. \A l \in MatchLines : l.round <= round /\ job[l.job] # "OPEN"
    BY <1>1 DEF JobsAreKnown, Drawing
  <2> QED
    BY <1>1, <1>2, <1>4, <2>1 DEF JobsAreKnown
<1>7. ThreadKnowsTheFile'
  BY <1>1, <1>2, <1>4 DEF ThreadKnowsTheFile
<1>8. DrawIsKept'
  BY <1>4 DEF DrawIsKept, Drawing
<1>9. ByesAreFinal'
  BY <1>1, <1>2, <1>3, <1>4 DEF ByesAreFinal
<1> QED
  BY <1>1, <1>2, <1>5, <1>6, <1>7, <1>8, <1>9 DEF SwissInv

LEMMA DrawRoundKeeps ==
  ASSUME SeatsAssumption, SwissAssumption, SwissInv, DrawRound
  PROVE  SwissInv'
<1>1. /\ Types /\ JobsAreKnown /\ ThreadKnowsTheFile /\ ByesAreFinal /\ NobodyPlaysTwice
      /\ pc = "draw" /\ pc' = "match" /\ ids' = ids
      /\ file' = file /\ job' = job /\ status' = status
      /\ placing' = placing /\ round' = round
      /\ next' = next /\ matches' = matches /\ match' = match /\ rounds' = rounds
      /\ concluded' = concluded
      /\ restarts' = restarts /\ played' = played /\ hadBye' = hadBye
  BY DEF SwissInv, DrawRound, disk, outside
<1>2. /\ MatchLines' = MatchLines /\ ByeLines' = ByeLines
      /\ PairsInFile' = PairsInFile /\ ByesInFile' = ByesInFile
      /\ NobodyPlaysTwice' = NobodyPlaysTwice
  BY <1>1, FileStays
<1>3. Settled' = Settled /\ ReadyIds' = ReadyIds
  BY <1>1, StatusStays
<1>4. played = PairsInFile /\ hadBye = ByesInFile
  BY <1>1 DEF ThreadKnowsTheFile
<1>5. Shares(drawn', ids) /\ IsFair(drawn', ids, PairsInFile, ByesInFile)
  <2>1. PICK ranked \in Rankings : drawn' = Draw(ranked, played, hadBye)
    BY DEF DrawRound
  <2>2. ids \subseteq Ids
    BY <1>1 DEF Types
  <2>3. ranked \in Seq(ids) /\ IsInjective(ranked) /\ Range(ranked) = ids
    BY <2>2, RankingsAre
  <2> QED
    BY <1>4, <2>1, <2>3, DrawIsGood
<1>6. next = 0 /\ matches = {} /\ round \in Nat
  BY <1>1, SwissAssumption DEF Types, Drawing
<1>7. \A l \in MatchLines : l.round <= round /\ l.round \in Nat /\ job[l.job] # "OPEN"
  <2>1. \A l \in MatchLines : l.round \in Nat
    BY <1>1, LinesAreLines, SwissAssumption DEF Types, Lines
  <2> QED
    BY <1>1, <2>1 DEF JobsAreKnown, Drawing
<1>8. Types'
  BY <1>1, <1>2, <1>6 DEF Types
<1>9. JobsAreKnown'
  BY <1>1, <1>2, <1>7 DEF JobsAreKnown
<1>10. ThreadKnowsTheFile'
  BY <1>1, <1>2 DEF ThreadKnowsTheFile
<1>11. DrawIsKept'
  <2>1. \A l \in MatchLines : l.round # round + 1
    BY <1>6, <1>7
  <2>2. 0 < Len(drawn'.groups) => \A l \in ByeLines : l.round # round + 1
    <3> SUFFICES ASSUME NEW l \in ByeLines, l.round = round + 1, 0 < Len(drawn'.groups)
                 PROVE  FALSE
      OBVIOUS
    <3>1. ~ (Cardinality(ids) < Seats)
      BY <1>5 DEF Shares
    <3>2. PICK m \in MatchLines : m.round >= l.round
      BY <1>1, <3>1 DEF ByesAreFinal
    <3> QED
      BY <1>6, <1>7, <3>2
  <2> QED
    BY <1>1, <1>2, <1>5, <1>6, <2>1, <2>2 DEF DrawIsKept, Drawing
<1>12. ByesAreFinal'
  BY <1>1, <1>2, <1>3 DEF ByesAreFinal
<1> QED
  BY <1>1, <1>2, <1>8, <1>9, <1>10, <1>11, <1>12 DEF SwissInv

(* A group that is still to be dealt with.                                   *)
LEMMA GroupIs ==
  ASSUME Types, Shares(drawn, ids), NEW g \in 1 .. Len(drawn.groups)
  PROVE  drawn.groups[g] \in Seq(Ids) /\ Range(drawn.groups[g]) \subseteq ids
<1>1. drawn.groups[g] \in Seq(ids)
  BY ElementsOfSeq DEF Shares
<1>2. Range(drawn.groups[g]) \subseteq ids
  BY <1>1, ElementsOfSeq
<1>3. ids \subseteq Ids
  BY DEF Types
<1> QED
  BY <1>1, <1>2, <1>3, SeqMonotonic

LEMMA EnqueueKeeps ==
  ASSUME SwissAssumption, SwissInv, NEW j \in Jobs, Enqueue(j)
  PROVE  SwissInv'
<1> DEFINE group == drawn.groups[next + 1]
           members == CodeFirst(group)
           starts == \A id \in Range(Tail(members)) : Ready(id)
<1>1. /\ Types /\ JobsAreKnown /\ ThreadKnowsTheFile /\ DrawIsKept /\ ByesAreFinal
      /\ NobodyPlaysTwice
      /\ pc = "match" /\ pc' = "log" /\ next < Len(drawn.groups) /\ job[j] = "NONE"
      /\ played' = played \cup PairsOf(group)
      /\ match' = [members |-> members, job |-> j]
      /\ ids' = ids /\ hadBye' = hadBye /\ round' = round /\ drawn' = drawn /\ next' = next
      /\ file' = file /\ status' = status /\ placing' = placing /\ matches' = matches
      /\ rounds' = rounds /\ restarts' = restarts
  BY DEF SwissInv, Enqueue, disk, NextJob
<1>2. /\ job' = [job EXCEPT ![j] = IF starts THEN "OPEN" ELSE "FAILED"]
      /\ concluded' = IF starts THEN concluded ELSE [concluded EXCEPT ![j] = "FAILED"]
  BY DEF Enqueue
<1> HIDE DEF starts
<1>3. /\ MatchLines' = MatchLines /\ ByeLines' = ByeLines
      /\ PairsInFile' = PairsInFile /\ ByesInFile' = ByesInFile
      /\ NobodyPlaysTwice' = NobodyPlaysTwice
  BY <1>1, FileStays
<1>4. Settled' = Settled /\ ReadyIds' = ReadyIds
  BY <1>1, StatusStays
<1>5. Shares(drawn, ids) /\ next \in Nat /\ Len(drawn.groups) \in Nat
  <2>1. Shares(drawn, ids) /\ next \in Nat
    BY <1>1 DEF DrawIsKept, Drawing, Types
  <2>2. Len(drawn.groups) \in Nat
    BY <2>1, ElementsOfSeq DEF Shares
  <2> QED
    BY <2>1, <2>2
<1>6. next + 1 \in 1 .. Len(drawn.groups)
  BY <1>1, <1>5
<1>7. group \in Seq(Ids) /\ Range(group) \subseteq ids
  BY <1>1, <1>5, <1>6, GroupIs
<1>8. members \in Seq(Ids) /\ Range(members) = Range(group)
  BY <1>7, CodeFirstIs
<1>9. PairsOf(members) = PairsOf(group)
  BY <1>8, PairsOfSet
<1>10. match' \in Match /\ match'.job = j /\ match'.members = members
  BY <1>1, <1>8 DEF Match
<1> HIDE DEF members
<1>11. job \in [Jobs -> JobStates] /\ concluded \in [Jobs -> JobStates \ {"OPEN"}]
  BY <1>1 DEF Types
<1>12. /\ job' \in [Jobs -> JobStates] /\ concluded' \in [Jobs -> JobStates \ {"OPEN"}]
       /\ \A i \in Jobs : i # j => job'[i] = job[i] /\ concluded'[i] = concluded[i]
       /\ job'[j] \in {"OPEN", "FAILED"}
       /\ concluded'[j] # "NONE" => job'[j] # "OPEN"
  <2>1. concluded[j] = "NONE"
    BY <1>1 DEF JobsAreKnown
  <2> QED
    BY <1>2, <1>11, <2>1 DEF JobStates
<1>13. Types'
  <2>1. PairsOf(group) \subseteq SUBSET Ids
    <3>1. Range(group) \subseteq Ids
      BY <1>1, <1>7 DEF Types
    <3> QED
      BY <3>1 DEF PairsOf
  <2> HIDE DEF group
  <2>2. played' \subseteq SUBSET Ids
    BY <1>1, <2>1 DEF Types
  <2> QED
    BY <1>1, <1>3, <1>10, <1>12, <2>2 DEF Types, Drawing
<1>14. \A l \in MatchLines : l.job \in Jobs /\ l.job # j
  BY <1>1 DEF JobsAreKnown, Types
<1>15. JobsAreKnown'
  <2>1. \A i \in Jobs : concluded[i] # "NONE" => job[i] \notin {"NONE", "OPEN"}
    BY <1>1 DEF JobsAreKnown
  <2>2. \A i \in Jobs : concluded'[i] # "NONE" => job'[i] \notin {"NONE", "OPEN"}
    BY <1>12, <2>1
  <2>3. \A l \in MatchLines : job'[l.job] = job[l.job]
    BY <1>12, <1>14
  <2>4. job'[match'.job] # "NONE"
    BY <1>10, <1>12
  <2> QED
    BY <1>1, <1>3, <2>2, <2>3, <2>4 DEF JobsAreKnown, Drawing
<1>16. ThreadKnowsTheFile'
  BY <1>1, <1>3, <1>9, <1>10 DEF ThreadKnowsTheFile
<1>17. DrawIsKept'
  <2>1. Range(match'.members) = Range(drawn.groups[next + 1])
    BY <1>8, <1>10
  <2> HIDE DEF group
  <2> QED
    BY <1>1, <1>3, <2>1 DEF DrawIsKept, Drawing
<1>18. ByesAreFinal'
  BY <1>1, <1>3, <1>4 DEF ByesAreFinal
<1> QED
  BY <1>1, <1>3, <1>13, <1>15, <1>16, <1>17, <1>18 DEF SwissInv

LEMMA LogMatchKeeps ==
  ASSUME SwissAssumption, SwissInv, LogMatch
  PROVE  SwissInv'
<1> DEFINE x == MatchLine(round + 1, match)
<1>1. /\ Types /\ JobsAreKnown /\ ThreadKnowsTheFile /\ DrawIsKept /\ ByesAreFinal
      /\ NobodyPlaysTwice
      /\ pc = "log" /\ pc' = "match" /\ file' = Append(file, x)
      /\ matches' = matches \cup {match} /\ match' = NoMatch /\ next' = next + 1
      /\ job' = job /\ status' = status /\ placing' = placing
      /\ ids' = ids /\ played' = played /\ hadBye' = hadBye /\ round' = round
      /\ drawn' = drawn /\ rounds' = rounds /\ concluded' = concluded /\ restarts' = restarts
  BY DEF SwissInv, LogMatch, outside
<1>2. /\ match \in Match /\ next \in Nat /\ round \in Nat /\ round < Rounds /\ Rounds \in Nat
      /\ file \in Seq(Lines)
  BY <1>1, SwissAssumption DEF Types
<1>3. /\ x.kind = "M" /\ x.round = round + 1 /\ x.members = match.members /\ x.job = match.job
      /\ x \in Lines
  <2>1. round + 1 \in 1 .. Rounds
    BY <1>2
  <2>2. match.members \in Seq(Ids) /\ match.job \in Jobs
    BY <1>2 DEF Match
  <2>3. match.job \in 0 .. MaxJobs
    BY <2>2, SwissAssumption DEF Jobs
  <2> QED
    BY <2>1, <2>2, <2>3 DEF MatchLine, Lines
<1> HIDE DEF x
<1>4. /\ file' \in Seq(Lines)
      /\ MatchLines' = MatchLines \cup {x} /\ ByeLines' = ByeLines
      /\ PairsInFile' = PairsInFile \cup PairsOf(x.members)
      /\ ByesInFile' = ByesInFile
  BY <1>1, <1>2, <1>3, FileGrows
<1>5. Settled' = Settled /\ ReadyIds' = ReadyIds
  BY <1>1, StatusStays
<1>6. /\ Shares(drawn, ids) /\ next < Len(drawn.groups)
      /\ Range(x.members) = Range(drawn.groups[next + 1])
      /\ \A l \in MatchLines : l.round = round + 1 =>
           \E g \in 1 .. Len(drawn.groups) :
             g <= next /\ Range(l.members) = Range(drawn.groups[g])
      /\ \A l \in ByeLines : l.round # round + 1
  BY <1>1, <1>3 DEF DrawIsKept, Drawing
<1>7. Len(drawn.groups) \in Nat /\ next + 1 \in 1 .. Len(drawn.groups)
  <2>1. Len(drawn.groups) \in Nat
    BY <1>6, ElementsOfSeq DEF Shares
  <2> QED
    BY <1>2, <1>6, <2>1
<1>8. NobodyPlaysTwice'
  <2>1. ASSUME NEW l \in Range(file), l.round = round + 1
        PROVE  Range(l.members) \cap Range(x.members) = {}
    <3>1. l \in Lines
      BY <1>2, LinesAreLines
    <3>2. l.kind = "M" \/ l.kind = "B"
      BY <3>1 DEF Lines
    <3>3. l \notin ByeLines
      BY <1>6, <2>1
    <3>4. l \in MatchLines
      BY <3>2, <3>3 DEF MatchLines, ByeLines
    <3>5. PICK g \in 1 .. Len(drawn.groups) :
            g <= next /\ Range(l.members) = Range(drawn.groups[g])
      BY <1>6, <2>1, <3>4
    <3>6. g # next + 1
      BY <1>2, <3>5
    <3> QED
      BY <1>6, <1>7, <3>5, <3>6 DEF Shares
  <2> QED
    BY <1>1, <1>2, <1>3, <2>1, StillNobodyPlaysTwice
<1>9. Types'
  <2>1. matches' \subseteq Match
    BY <1>1, <1>2 DEF Types
  <2>2. x.job \in Jobs /\ next' \in Nat
    BY <1>1, <1>2, <1>3 DEF Match
  <2>3. \A l \in MatchLines' : l.job \in Jobs
    BY <1>1, <1>4, <2>2 DEF Types
  <2> QED
    BY <1>1, <1>4, <2>1, <2>2, <2>3 DEF Types, Drawing
<1>10. JobsAreKnown'
  <2>1. \A l \in MatchLines : \/ l.round <= round /\ job[l.job] # "OPEN"
                              \/ l.round = round + 1 /\ \E m \in matches : m.job = l.job
    BY <1>1 DEF JobsAreKnown
  <2>2. job[x.job] # "NONE"
    BY <1>1, <1>3 DEF JobsAreKnown
  <2>3. \A l \in MatchLines' : \/ l.round <= round /\ job[l.job] # "OPEN"
                               \/ l.round = round + 1 /\ \E m \in matches' : m.job = l.job
    BY <1>1, <1>3, <1>4, <2>1
  <2>4. \A l \in MatchLines' : job[l.job] # "NONE"
    BY <1>1, <1>4, <2>2 DEF JobsAreKnown
  <2> QED
    BY <1>1, <2>3, <2>4 DEF JobsAreKnown, Drawing
<1>11. ThreadKnowsTheFile'
  BY <1>1, <1>3, <1>4 DEF ThreadKnowsTheFile
<1>12. DrawIsKept'
  <2>1. \A l \in MatchLines' : l.round = round + 1 =>
          \E g \in 1 .. Len(drawn.groups) :
            g <= next + 1 /\ Range(l.members) = Range(drawn.groups[g])
    <3> SUFFICES ASSUME NEW l \in MatchLines', l.round = round + 1
                 PROVE  \E g \in 1 .. Len(drawn.groups) :
                          g <= next + 1 /\ Range(l.members) = Range(drawn.groups[g])
      OBVIOUS
    <3>1. CASE l = x
      BY <1>6, <1>7, <3>1
    <3>2. CASE l \in MatchLines
      <4>1. PICK g \in 1 .. Len(drawn.groups) :
              g <= next /\ Range(l.members) = Range(drawn.groups[g])
        BY <1>6, <3>2
      <4>2. g <= next + 1
        BY <1>2, <4>1
      <4> QED
        BY <4>1, <4>2
    <3> QED
      BY <1>4, <3>1, <3>2
  <2>2. \E l \in MatchLines' : l.round = round + 1
    BY <1>3, <1>4
  <2>3. next + 1 # 0
    BY <1>2
  <2> QED
    BY <1>1, <1>4, <1>6, <2>1, <2>2, <2>3 DEF DrawIsKept, Drawing
<1>13. ByesAreFinal'
  BY <1>1, <1>4, <1>5 DEF ByesAreFinal
<1> QED
  BY <1>8, <1>9, <1>10, <1>11, <1>12, <1>13 DEF SwissInv

LEMMA SitOutKeeps ==
  ASSUME SeatsAssumption, SwissAssumption, SwissInv, SitOut
  PROVE  SwissInv'
<1> DEFINE bye == drawn.byes[next + 1 - Len(drawn.groups)]
           x == ByeLine(round + 1, bye)
           n == Len(drawn.groups)
<1>1. /\ Types /\ JobsAreKnown /\ ThreadKnowsTheFile /\ DrawIsKept /\ ByesAreFinal
      /\ NobodyPlaysTwice
      /\ pc = "match" /\ pc' = "match" /\ file' = Append(file, x)
      /\ next \in n .. (n + Len(drawn.byes)) - 1
      /\ hadBye' = hadBye \cup {bye} /\ next' = next + 1
      /\ matches' = matches /\ match' = match
      /\ job' = job /\ status' = status /\ placing' = placing
      /\ ids' = ids /\ played' = played /\ round' = round
      /\ drawn' = drawn /\ rounds' = rounds /\ concluded' = concluded /\ restarts' = restarts
  <2>1. /\ Types /\ JobsAreKnown /\ ThreadKnowsTheFile /\ DrawIsKept /\ ByesAreFinal
        /\ NobodyPlaysTwice
    BY DEF SwissInv
  <2>2. /\ pc = "match" /\ file' = Append(file, x) /\ RememberBye(bye)
        /\ next \in n .. Handled - 1 /\ next' = next + 1
    BY DEF SitOut
  <2>3. hadBye' = hadBye \cup {bye}
    BY <2>2 DEF RememberBye
  <2>4. next \in n .. (n + Len(drawn.byes)) - 1
    BY <2>2 DEF Handled
  <2>5. UNCHANGED <<outside, pc, ids, played, round, drawn, matches, match, rounds,
                    concluded, restarts>>
    BY DEF SitOut
  <2> QED
    BY <2>1, <2>2, <2>3, <2>4, <2>5 DEF outside
<1>2. /\ next \in Nat /\ round \in Nat /\ round < Rounds /\ Rounds \in Nat
      /\ file \in Seq(Lines) /\ ids \subseteq Ids
  BY <1>1, SwissAssumption DEF Types
<1>3. /\ Shares(drawn, ids)
      /\ \A l \in MatchLines : l.round = round + 1 =>
           \E g \in 1 .. n : Range(l.members) = Range(drawn.groups[g])
      /\ next > 0 /\ n > 0 => \E l \in MatchLines : l.round = round + 1
  BY <1>1 DEF DrawIsKept, Drawing
<1>4. n \in Nat /\ n <= next /\ bye \in Range(drawn.byes) /\ bye \in ids
  <2> DEFINE m == Len(drawn.byes)
             i == next + 1 - n
  <2>1. n \in Nat /\ m \in Nat /\ DOMAIN drawn.byes = 1 .. m /\ Range(drawn.byes) \subseteq ids
    BY <1>3, ElementsOfSeq DEF Shares
  <2>2. next \in n .. (n + m) - 1
    BY <1>1
  <2> HIDE DEF m, n
  <2>3. i \in 1 .. m /\ n <= next
    BY <1>2, <2>1, <2>2
  <2>4. drawn.byes[i] \in Range(drawn.byes)
    BY <2>1, <2>3 DEF Range
  <2> QED
    BY <2>1, <2>3, <2>4 DEF n
<1> HIDE DEF bye
<1>5. /\ x.kind = "B" /\ x.round = round + 1 /\ x.members = <<bye>> /\ x \in Lines
      /\ Range(x.members) = {bye}
  <2>1. round + 1 \in 1 .. Rounds
    BY <1>2
  <2>2. bye \in Ids /\ <<bye>> \in Seq(Ids) /\ Range(<<bye>>) = {bye}
    BY <1>2, <1>4 DEF Range
  <2>3. 0 \in 0 .. MaxJobs
    BY SwissAssumption
  <2> QED
    BY <2>1, <2>2, <2>3 DEF ByeLine, Lines
<1> HIDE DEF x, n
<1>6. /\ file' \in Seq(Lines)
      /\ MatchLines' = MatchLines /\ ByeLines' = ByeLines \cup {x}
      /\ PairsInFile' = PairsInFile
      /\ ByesInFile' = ByesInFile \cup {bye}
  BY <1>1, <1>2, <1>5, FileGrows
<1>7. Settled' = Settled /\ ReadyIds' = ReadyIds
  BY <1>1, StatusStays
<1>8. NobodyPlaysTwice'
  <2>1. ASSUME NEW l \in Range(file), l.round = round + 1, l.kind = "M"
        PROVE  Range(l.members) \cap Range(x.members) = {}
    <3>1. l \in MatchLines
      BY <2>1 DEF MatchLines
    <3>2. PICK g \in 1 .. n : Range(l.members) = Range(drawn.groups[g])
      BY <1>3, <2>1, <3>1
    <3>3. Range(drawn.groups[g]) \cap Range(drawn.byes) = {}
      BY <1>3 DEF Shares, n
    <3> QED
      BY <1>4, <1>5, <3>2, <3>3
  <2>2. \A l \in Range(file) : l.round = x.round /\ "M" \in {l.kind, x.kind} =>
          Range(l.members) \cap Range(x.members) = {}
    BY <1>5, <2>1
  <2> QED
    BY <1>1, <1>2, <1>5, <2>2, StillNobodyPlaysTwice
<1>9. Types'
  <2>1. hadBye' \subseteq Ids /\ next' \in Nat
    BY <1>1, <1>2, <1>4 DEF Types
  <2>2. \A l \in ByeLines' : \E id \in Ids : l.members = <<id>>
    <3>1. \A l \in ByeLines : \E id \in Ids : l.members = <<id>>
      BY <1>1 DEF Types
    <3> QED
      BY <1>2, <1>4, <1>5, <1>6, <3>1
  <2> QED
    BY <1>1, <1>6, <2>1, <2>2 DEF Types, Drawing
<1>10. JobsAreKnown'
  BY <1>1, <1>6 DEF JobsAreKnown, Drawing
<1>11. ThreadKnowsTheFile'
  BY <1>1, <1>6 DEF ThreadKnowsTheFile
<1>12. DrawIsKept'
  <2>1. next + 1 # 0 /\ ~ (next + 1 < n) /\ (n > 0 => next > 0)
    BY <1>2, <1>4
  <2>2. \A g \in 1 .. n : g <= next + 1
    BY <1>2, <1>4
  <2> QED
    BY <1>1, <1>3, <1>6, <2>1, <2>2 DEF DrawIsKept, Drawing, n
<1>13. ByesAreFinal'
  <2>1. Settled /\ ReadyIds \subseteq ids
    BY <1>1 DEF ByesAreFinal
  <2>2. \/ \E m \in MatchLines : m.round >= x.round
        \/ Cardinality(ReadyIds) < Seats /\ Cardinality(ids) < Seats
    <3>1. CASE n > 0
      <4>1. PICK m \in MatchLines : m.round = round + 1
        BY <1>2, <1>3, <1>4, <3>1
      <4> QED
        BY <1>2, <1>5, <4>1
    <3>2. CASE ~ (n > 0)
      <4>1. Cardinality(ids) < Seats
        BY <1>3, <1>4, <3>2 DEF Shares, n
      <4>2. Cardinality(ReadyIds) <= Cardinality(ids) /\ IsFiniteSet(ids)
        BY <1>2, <2>1, IdsAreFinite, FS_Subset
      <4>3. Cardinality(ReadyIds) \in Nat /\ Cardinality(ids) \in Nat
        BY <2>1, <4>2, FS_Subset, FS_CardinalityType
      <4> QED
        BY <4>1, <4>2, <4>3, SeatsAssumption
    <3> QED
      BY <3>1, <3>2
  <2> QED
    BY <1>1, <1>6, <1>7, <2>1, <2>2 DEF ByesAreFinal
<1> QED
  BY <1>8, <1>9, <1>10, <1>11, <1>12, <1>13 DEF SwissInv

LEMMA CloseRoundKeeps ==
  ASSUME SwissAssumption, SwissInv, CloseRound
  PROVE  SwissInv'
<1>1. /\ Types /\ JobsAreKnown /\ ThreadKnowsTheFile /\ DrawIsKept /\ ByesAreFinal
      /\ NobodyPlaysTwice
      /\ pc = "match" /\ pc' = "await" /\ file' = file
      /\ rounds' = Append(rounds, [matches |-> matches, byes |-> drawn.byes])
      /\ matches' = {} /\ match' = match /\ next' = 0
      /\ job' = job /\ status' = status /\ placing' = placing
      /\ ids' = ids /\ played' = played /\ hadBye' = hadBye /\ round' = round
      /\ concluded' = concluded /\ restarts' = restarts
  BY DEF SwissInv, CloseRound, disk, outside
<1>2. /\ MatchLines' = MatchLines /\ ByeLines' = ByeLines
      /\ PairsInFile' = PairsInFile /\ ByesInFile' = ByesInFile
      /\ NobodyPlaysTwice' = NobodyPlaysTwice
  BY <1>1, FileStays
<1>3. Settled' = Settled /\ ReadyIds' = ReadyIds
  BY <1>1, StatusStays
<1>4. /\ rounds' \in Seq([matches : SUBSET Match, byes : Seq(Ids)])
      /\ Len(rounds') = round + 1
      /\ rounds'[round + 1].matches = matches
  <2> DEFINE R == [matches : SUBSET Match, byes : Seq(Ids)]
             e == [matches |-> matches, byes |-> drawn.byes]
  <2>1. rounds \in Seq(R) /\ Len(rounds) = round
    BY <1>1 DEF Types
  <2>2. e \in R
    <3>1. drawn.byes \in Seq(ids)
      BY <1>1 DEF DrawIsKept, Drawing, Shares
    <3>2. drawn.byes \in Seq(Ids)
      BY <1>1, <3>1, SeqMonotonic DEF Types
    <3> QED
      BY <1>1, <3>2 DEF Types
  <2> HIDE DEF R
  <2>3. e.matches = matches
    OBVIOUS
  <2> HIDE DEF e
  <2>4. rounds' = Append(rounds, e)
    BY <1>1 DEF e
  <2> QED
    BY <2>1, <2>2, <2>3, <2>4, AppendIsSet DEF R
<1>5. Types'
  BY <1>1, <1>2, <1>4 DEF Types, Drawing
<1>6. JobsAreKnown'
  BY <1>1, <1>2, <1>4 DEF JobsAreKnown
<1>7. ThreadKnowsTheFile'
  BY <1>1, <1>2 DEF ThreadKnowsTheFile
<1>8. DrawIsKept'
  BY <1>1 DEF DrawIsKept, Drawing
<1>9. ByesAreFinal'
  BY <1>1, <1>2, <1>3 DEF ByesAreFinal
<1> QED
  BY <1>1, <1>2, <1>5, <1>6, <1>7, <1>8, <1>9 DEF SwissInv

LEMMA RoundIsOverKeeps ==
  ASSUME SwissAssumption, SwissInv, RoundIsOver
  PROVE  SwissInv'
<1>1. /\ Types /\ JobsAreKnown /\ ThreadKnowsTheFile /\ ByesAreFinal /\ NobodyPlaysTwice
      /\ pc = "await" /\ pc' = NextStage(round + 1) /\ file' = file /\ round' = round + 1
      /\ AllConcluded(rounds[round + 1].matches)
      /\ matches' = matches /\ match' = match /\ next' = next
      /\ job' = job /\ status' = status /\ placing' = placing
      /\ ids' = ids /\ played' = played /\ hadBye' = hadBye /\ rounds' = rounds
      /\ concluded' = concluded /\ restarts' = restarts
  BY DEF SwissInv, RoundIsOver, disk, outside
<1>2. /\ MatchLines' = MatchLines /\ ByeLines' = ByeLines
      /\ PairsInFile' = PairsInFile /\ ByesInFile' = ByesInFile
      /\ NobodyPlaysTwice' = NobodyPlaysTwice
  BY <1>1, FileStays
<1>3. Settled' = Settled /\ ReadyIds' = ReadyIds
  BY <1>1, StatusStays
<1>4. /\ round \in Nat /\ round < Rounds /\ Rounds \in Nat /\ file \in Seq(Lines)
      /\ Len(rounds) = round + 1
  BY <1>1, SwissAssumption DEF Types
<1>5. pc' \in {"draw", "done"} /\ (pc' = "draw" => round + 1 < Rounds)
  BY <1>1 DEF NextStage
<1>6. Types'
  <2>1. round' \in 0 .. Rounds
    BY <1>1, <1>4
  <2> QED
    BY <1>1, <1>2, <1>4, <1>5, <2>1 DEF Types, Drawing
<1>7. JobsAreKnown'
  <2>1. \A l \in MatchLines : l.round <= round + 1 /\ job[l.job] # "OPEN"
    <3> SUFFICES ASSUME NEW l \in MatchLines
                 PROVE  l.round <= round + 1 /\ job[l.job] # "OPEN"
      OBVIOUS
    <3>1. l.round \in Nat /\ l.job \in Jobs
      BY <1>1, <1>4, LinesAreLines DEF Lines, Types
    <3>2. CASE l.round <= round /\ job[l.job] # "OPEN"
      BY <1>4, <3>1, <3>2
    <3>3. CASE l.round = round + 1 /\ \E m \in rounds[round + 1].matches : m.job = l.job
      <4>1. concluded[l.job] # "NONE"
        BY <1>1, <3>3 DEF AllConcluded
      <4>2. job[l.job] # "OPEN"
        BY <1>1, <3>1, <4>1 DEF JobsAreKnown
      <4> QED
        BY <1>4, <3>3, <4>2
    <3> QED
      BY <1>1, <3>2, <3>3 DEF JobsAreKnown, Drawing
  <2> QED
    BY <1>1, <1>2, <1>5, <2>1 DEF JobsAreKnown
<1>8. ThreadKnowsTheFile'
  BY <1>1, <1>2, <1>5 DEF ThreadKnowsTheFile
<1>9. DrawIsKept'
  BY <1>5 DEF DrawIsKept, Drawing
<1>10. ByesAreFinal'
  BY <1>1, <1>2, <1>3, <1>5 DEF ByesAreFinal
<1> QED
  BY <1>1, <1>2, <1>6, <1>7, <1>8, <1>9, <1>10 DEF SwissInv

(* What the scheduler does leaves the file and the thread alone: a job that   *)
(* is open may end, and a seed that is PENDING may be placed.                 *)
EndsOrStays(j) == job'[j] = job[j] \/ (job[j] = "OPEN" /\ job'[j] \notin {"NONE", "OPEN"})

LEMMA OutsideKeeps ==
  ASSUME SeatsAssumption, SwissAssumption, SwissInv,
         UNCHANGED <<disk, thread, rounds, restarts>>,
         job' \in [Jobs -> JobStates],
         \A j \in Jobs : EndsOrStays(j),
         concluded' \in [Jobs -> JobStates \ {"OPEN"}],
         \A j \in Jobs : concluded'[j] = concluded[j] \/ job'[j] \notin {"NONE", "OPEN"},
         status' \in [Ids \ Builtins -> {"PENDING", "READY", "BUILD_FAILED"}],
         placing' \subseteq {c \in Ids \ Builtins : status'[c] = "PENDING"},
         Settled => Settled' /\ ReadyIds' \subseteq ReadyIds
  PROVE  SwissInv'
<1>1. /\ Types /\ JobsAreKnown /\ ThreadKnowsTheFile /\ DrawIsKept /\ ByesAreFinal
      /\ NobodyPlaysTwice
      /\ pc' = pc /\ file' = file /\ ids' = ids /\ played' = played /\ hadBye' = hadBye
      /\ round' = round /\ drawn' = drawn /\ next' = next /\ matches' = matches
      /\ match' = match /\ rounds' = rounds /\ restarts' = restarts
  BY DEF SwissInv, disk, thread
<1>2. /\ MatchLines' = MatchLines /\ ByeLines' = ByeLines
      /\ PairsInFile' = PairsInFile /\ ByesInFile' = ByesInFile
      /\ NobodyPlaysTwice' = NobodyPlaysTwice
  BY <1>1, FileStays
<1>3. Types'
  BY <1>1, <1>2 DEF Types, Drawing
<1>4. \A j \in Jobs : /\ job[j] # "OPEN" => job'[j] # "OPEN"
                      /\ job[j] # "NONE" => job'[j] # "NONE"
                      /\ job[j] \notin {"NONE", "OPEN"} => job'[j] \notin {"NONE", "OPEN"}
  BY DEF EndsOrStays
<1>5. JobsAreKnown'
  <2>1. \A j \in Jobs : concluded'[j] # "NONE" => job'[j] \notin {"NONE", "OPEN"}
    BY <1>1, <1>4 DEF JobsAreKnown
  <2>2. \A l \in MatchLines : l.job \in Jobs
    BY <1>1 DEF Types
  <2>3. pc = "log" => match.job \in Jobs
    BY <1>1 DEF Types, Match
  <2>4. pc \in {"resume", "settle"} => \A j \in Jobs : job'[j] # "OPEN"
    BY <1>1, <1>4 DEF JobsAreKnown
  <2>5. \A l \in MatchLines : job'[l.job] # "NONE"
    BY <1>1, <1>4, <2>2 DEF JobsAreKnown
  <2>6. pc = "log" => job'[match.job] # "NONE"
    BY <1>1, <1>4, <2>3 DEF JobsAreKnown
  <2>7. \A l \in MatchLines : job[l.job] # "OPEN" => job'[l.job] # "OPEN"
    BY <1>4, <2>2
  <2>8. pc # "resume" =>
          \A l \in MatchLines :
            \/ l.round <= round /\ job'[l.job] # "OPEN"
            \/ l.round = round + 1 /\ Drawing /\ \E m \in matches : m.job = l.job
            \/ /\ l.round = round + 1 /\ pc = "await"
               /\ \E m \in rounds[round + 1].matches : m.job = l.job
    BY <1>1, <2>7 DEF JobsAreKnown
  <2>9. Drawing' = Drawing
    BY <1>1 DEF Drawing
  <2> QED
    BY <1>1, <1>2, <2>1, <2>4, <2>5, <2>6, <2>8, <2>9 DEF JobsAreKnown
<1>6. ThreadKnowsTheFile'
  BY <1>1, <1>2 DEF ThreadKnowsTheFile
<1>7. DrawIsKept'
  BY <1>1, <1>2 DEF DrawIsKept, Drawing
<1>8. ByesAreFinal'
  <2>1. ASSUME Settled, Cardinality(ReadyIds) < Seats
        PROVE  Cardinality(ReadyIds') < Seats
    <3>1. ReadyIds \subseteq Ids /\ IsFiniteSet(ReadyIds)
      BY IdsAreFinite, FS_Subset DEF ReadyIds
    <3>2. ReadyIds' \subseteq ReadyIds
      BY <2>1
    <3>3. Cardinality(ReadyIds') <= Cardinality(ReadyIds) /\ IsFiniteSet(ReadyIds')
      BY <3>1, <3>2, FS_Subset
    <3>4. Cardinality(ReadyIds') \in Nat /\ Cardinality(ReadyIds) \in Nat
      BY <3>1, <3>3, FS_CardinalityType
    <3> QED
      BY <2>1, <3>3, <3>4, SeatsAssumption
  <2> QED
    BY <1>1, <1>2, <2>1 DEF ByesAreFinal
<1> QED
  BY <1>1, <1>2, <1>3, <1>5, <1>6, <1>7, <1>8 DEF SwissInv

LEMMA PlacementKeeps ==
  ASSUME SeatsAssumption, SwissAssumption, SwissInv, NEW c \in Ids \ Builtins, Placement(c)
  PROVE  SwissInv'
<1>1. PICK st \in {"PENDING", "READY", "BUILD_FAILED"} : Placed(c, st)
  BY DEF Placement
<1>2. /\ UNCHANGED <<disk, thread, rounds, restarts>> /\ job' = job /\ concluded' = concluded
      /\ c \in placing /\ placing' = placing \ {c} /\ status' = [status EXCEPT ![c] = st]
  BY <1>1 DEF Placed
<1>3. Types
  BY DEF SwissInv
<1>4. ~ Settled
  BY <1>2, <1>3 DEF Types, Settled
<1>5. /\ status' \in [Ids \ Builtins -> {"PENDING", "READY", "BUILD_FAILED"}]
      /\ placing' \subseteq {d \in Ids \ Builtins : status'[d] = "PENDING"}
  BY <1>2, <1>3 DEF Types
<1>6. job' \in [Jobs -> JobStates] /\ concluded' \in [Jobs -> JobStates \ {"OPEN"}]
  BY <1>2, <1>3 DEF Types
<1>7. \A j \in Jobs : job'[j] = job[j] /\ concluded'[j] = concluded[j]
  BY <1>2
<1> QED
  BY <1>2, <1>4, <1>5, <1>6, <1>7, OutsideKeeps DEF EndsOrStays

LEMMA ConcludeKeeps ==
  ASSUME SeatsAssumption, SwissAssumption, SwissInv, NEW j \in Jobs, Conclude(j)
  PROVE  SwissInv'
<1>1. /\ UNCHANGED <<disk, thread, rounds, restarts>> /\ job[j] = "OPEN"
      /\ job' = [job EXCEPT ![j] = "DONE"] /\ concluded' = [concluded EXCEPT ![j] = "DONE"]
      /\ status' = status /\ placing' = placing
  BY DEF Conclude, OnConcluded
<1>2. Types
  BY DEF SwissInv
<1>3. Settled' = Settled /\ ReadyIds' = ReadyIds
  BY <1>1, StatusStays
<1>4. /\ job' \in [Jobs -> JobStates] /\ concluded' \in [Jobs -> JobStates \ {"OPEN"}]
      /\ \A i \in Jobs : EndsOrStays(i)
      /\ \A i \in Jobs : concluded'[i] = concluded[i] \/ job'[i] \notin {"NONE", "OPEN"}
  <2>1. job \in [Jobs -> JobStates] /\ concluded \in [Jobs -> JobStates \ {"OPEN"}]
    BY <1>2 DEF Types
  <2>2. \A i \in Jobs : /\ job'[i] = IF i = j THEN "DONE" ELSE job[i]
                        /\ concluded'[i] = IF i = j THEN "DONE" ELSE concluded[i]
    BY <1>1, <2>1
  <2>3. "DONE" \in JobStates \ {"OPEN"}
    BY DEF JobStates
  <2>4. /\ \A i \in Jobs : EndsOrStays(i)
        /\ \A i \in Jobs : concluded'[i] = concluded[i] \/ job'[i] \notin {"NONE", "OPEN"}
    BY <1>1, <2>2 DEF EndsOrStays
  <2>5. job' \in [Jobs -> JobStates]
    BY <1>1, <2>1, <2>3
  <2>6. concluded' \in [Jobs -> JobStates \ {"OPEN"}]
    BY <1>1, <2>1, <2>3
  <2> QED
    BY <2>4, <2>5, <2>6
<1>5. /\ status' \in [Ids \ Builtins -> {"PENDING", "READY", "BUILD_FAILED"}]
      /\ placing' \subseteq {c \in Ids \ Builtins : status'[c] = "PENDING"}
  BY <1>1, <1>2 DEF Types
<1> QED
  BY <1>1, <1>3, <1>4, <1>5, OutsideKeeps

LEMMA ConcludeBlamingKeeps ==
  ASSUME SeatsAssumption, SwissAssumption, SwissInv, NEW j \in Jobs, NEW c \in Ids,
         ConcludeBlaming(j, c)
  PROVE  SwissInv'
<1>1. /\ UNCHANGED <<disk, thread, rounds, restarts>> /\ job[j] = "OPEN"
      /\ job' = [job EXCEPT ![j] = "FAILED"] /\ concluded' = [concluded EXCEPT ![j] = "FAILED"]
      /\ c \notin Builtins /\ status[c] = "READY"
      /\ status' = [status EXCEPT ![c] = "BUILD_FAILED"] /\ placing' = placing
  BY DEF ConcludeBlaming, OnConcluded
<1>2. Types
  BY DEF SwissInv
<1>3. Settled => Settled' /\ ReadyIds' \subseteq ReadyIds
  <2>1. \A d \in Ids \ Builtins : status'[d] = IF d = c THEN "BUILD_FAILED" ELSE status[d]
    BY <1>1, <1>2 DEF Types
  <2> QED
    BY <1>1, <2>1 DEF Settled, ReadyIds, Ready
<1>4. /\ job' \in [Jobs -> JobStates] /\ concluded' \in [Jobs -> JobStates \ {"OPEN"}]
      /\ \A i \in Jobs : EndsOrStays(i)
      /\ \A i \in Jobs : concluded'[i] = concluded[i] \/ job'[i] \notin {"NONE", "OPEN"}
  <2>1. job \in [Jobs -> JobStates] /\ concluded \in [Jobs -> JobStates \ {"OPEN"}]
    BY <1>2 DEF Types
  <2>2. \A i \in Jobs : /\ job'[i] = IF i = j THEN "FAILED" ELSE job[i]
                        /\ concluded'[i] = IF i = j THEN "FAILED" ELSE concluded[i]
    BY <1>1, <2>1
  <2>3. "FAILED" \in JobStates \ {"OPEN"}
    BY DEF JobStates
  <2>4. /\ \A i \in Jobs : EndsOrStays(i)
        /\ \A i \in Jobs : concluded'[i] = concluded[i] \/ job'[i] \notin {"NONE", "OPEN"}
    BY <1>1, <2>2 DEF EndsOrStays
  <2>5. job' \in [Jobs -> JobStates]
    BY <1>1, <2>1, <2>3
  <2>6. concluded' \in [Jobs -> JobStates \ {"OPEN"}]
    BY <1>1, <2>1, <2>3
  <2> QED
    BY <2>4, <2>5, <2>6
<1>5. /\ status' \in [Ids \ Builtins -> {"PENDING", "READY", "BUILD_FAILED"}]
      /\ placing' \subseteq {d \in Ids \ Builtins : status'[d] = "PENDING"}
  BY <1>1, <1>2 DEF Types
<1> QED
  BY <1>1, <1>3, <1>4, <1>5, OutsideKeeps

LEMMA RestartKeeps ==
  ASSUME SwissAssumption, SwissInv, Restart
  PROVE  SwissInv'
<1>1. /\ Types /\ JobsAreKnown /\ ByesAreFinal /\ NobodyPlaysTwice
      /\ restarts < MaxRestarts /\ restarts' = restarts + 1
      /\ job' = [j \in Jobs |-> IF job[j] = "OPEN" THEN "CANCELLED" ELSE job[j]]
      /\ placing' = {c \in Ids \ Builtins : status[c] = "PENDING"}
      /\ pc' = "resume" /\ ids' = {} /\ played' = {} /\ hadBye' = {} /\ round' = 0
      /\ next' = 0 /\ matches' = {} /\ match' = NoMatch
      /\ rounds' = <<>> /\ concluded' = [j \in Jobs |-> "NONE"]
      /\ file' = file /\ status' = status
  BY DEF SwissInv, Restart, disk
<1>2. /\ MatchLines' = MatchLines /\ ByeLines' = ByeLines
      /\ PairsInFile' = PairsInFile /\ ByesInFile' = ByesInFile
      /\ NobodyPlaysTwice' = NobodyPlaysTwice
  BY <1>1, FileStays
<1>3. Settled' = Settled /\ ReadyIds' = ReadyIds
  BY <1>1, StatusStays
<1>4. /\ job' \in [Jobs -> JobStates] /\ concluded' \in [Jobs -> JobStates \ {"OPEN"}]
      /\ \A j \in Jobs : job'[j] # "OPEN" /\ (job[j] # "NONE" => job'[j] # "NONE")
      /\ \A j \in Jobs : concluded'[j] = "NONE"
  BY <1>1 DEF Types, JobStates
<1>5. Types'
  <2>1. /\ rounds' \in Seq([matches : SUBSET Match, byes : Seq(Ids)]) /\ Len(rounds') = 0
    BY <1>1, EmptySeq
  <2>2. restarts' \in 0 .. MaxRestarts /\ 0 \in 0 .. Rounds
    BY <1>1, SwissAssumption DEF Types
  <2> QED
    BY <1>1, <1>2, <1>4, <2>1, <2>2 DEF Types, Drawing
<1>6. JobsAreKnown'
  <2>1. \A l \in MatchLines : l.job \in Jobs /\ job[l.job] # "NONE"
    BY <1>1 DEF Types, JobsAreKnown
  <2> QED
    BY <1>1, <1>2, <1>4, <2>1 DEF JobsAreKnown
<1>7. ThreadKnowsTheFile' /\ DrawIsKept'
  BY <1>1 DEF ThreadKnowsTheFile, DrawIsKept, Drawing
<1>8. ByesAreFinal'
  BY <1>1, <1>2, <1>3 DEF ByesAreFinal
<1> QED
  BY <1>1, <1>2, <1>5, <1>6, <1>7, <1>8 DEF SwissInv

LEMMA StepKeeps ==
  ASSUME SeatsAssumption, SwissAssumption, SwissInv, [Next]_vars
  PROVE  SwissInv'
<1>1. CASE Run
  BY <1>1, ResumeKeeps, SettleKeeps, DrawRoundKeeps, EnqueueKeeps, LogMatchKeeps, SitOutKeeps,
     CloseRoundKeeps, RoundIsOverKeeps DEF Run
<1>2. CASE Outside
  BY <1>2, PlacementKeeps, ConcludeKeeps, ConcludeBlamingKeeps DEF Outside
<1>3. CASE Restart
  BY <1>3, RestartKeeps
<1>4. CASE UNCHANGED vars
  <2>1. /\ UNCHANGED <<disk, thread, rounds, restarts>> /\ job' = job /\ status' = status
        /\ placing' = placing /\ concluded' = concluded
    BY <1>4 DEF vars, outside
  <2>2. Settled' = Settled /\ ReadyIds' = ReadyIds
    BY <2>1, StatusStays
  <2>3. Types
    BY DEF SwissInv
  <2>4. /\ job' \in [Jobs -> JobStates] /\ concluded' \in [Jobs -> JobStates \ {"OPEN"}]
        /\ status' \in [Ids \ Builtins -> {"PENDING", "READY", "BUILD_FAILED"}]
        /\ placing' \subseteq {c \in Ids \ Builtins : status'[c] = "PENDING"}
    BY <2>1, <2>3 DEF Types
  <2>5. \A j \in Jobs : job'[j] = job[j] /\ concluded'[j] = concluded[j]
    BY <2>1
  <2> QED
    BY <2>1, <2>2, <2>4, <2>5, OutsideKeeps DEF EndsOrStays
<1> QED
  BY <1>1, <1>2, <1>3, <1>4 DEF Next

-----------------------------------------------------------------------------
(* The results.                                                              *)

(* The invariant holds of every run, whatever its entries, its seats and its  *)
(* rounds, and wherever the coordinator is restarted.                         *)
THEOREM SwissRunIsSound == Spec => []SwissInv
<1>1. Init => SwissInv
  BY Start, SwissAssumption
<1>2. SwissInv /\ [Next]_vars => SwissInv'
  BY StepKeeps, SeatsAssumption, SwissAssumption
<1> QED
  BY <1>1, <1>2, PTL DEF Spec

(* Every variable keeps its type.                                            *)
THEOREM SwissRunIsTyped == Spec => []TypeOK
<1>1. SwissInv => TypeOK
  <2> SUFFICES ASSUME SwissInv PROVE TypeOK
    OBVIOUS
  <2>1. Types
    BY DEF SwissInv
  <2>2. \A i \in DOMAIN file :
          /\ file[i].kind \in {"M", "B"} /\ file[i].round \in 1 .. Rounds
          /\ file[i].members \in Seq(Ids) /\ file[i].job \in 0 .. MaxJobs
    <3>1. \A i \in DOMAIN file : file[i] \in Lines
      BY <2>1, LinesAreLines DEF Types
    <3> QED
      BY <3>1 DEF Lines
  <2>3. match.job \in 0 .. MaxJobs /\ {m.job : m \in matches} \subseteq Jobs
    <3>1. \A m \in Match : m.job \in Jobs /\ m.job \in 0 .. MaxJobs
      BY SwissAssumption DEF Match, Jobs
    <3>2. NoMatch.job \in 0 .. MaxJobs
      BY SwissAssumption DEF NoMatch
    <3> QED
      BY <2>1, <3>1, <3>2 DEF Types
  <2>4. Len(rounds) \in 0 .. Rounds
    BY <2>1, SwissAssumption DEF Types
  <2> QED
    BY <2>1, <2>2, <2>3, <2>4 DEF Types, TypeOK
<1> QED
  BY <1>1, SwissRunIsSound, PTL

(* Nobody is in two matches of one round, nor in a match of a round that it   *)
(* sat out, wherever the run was stopped and resumed.                         *)
THEOREM NobodyEverPlaysTwice == Spec => []NobodyPlaysTwice
<1>1. SwissInv => NobodyPlaysTwice
  BY DEF SwissInv
<1> QED
  BY <1>1, SwissRunIsSound, PTL

(* No match of an earlier round is being played while a round is drawn and    *)
(* enqueued.                                                                  *)
THEOREM RoundsNeverOverlap == Spec => []RoundsDoNotOverlap
<1>1. SwissInv => RoundsDoNotOverlap
  <2> SUFFICES ASSUME SwissInv, pc \in {"draw", "match", "log"}, NEW l \in MatchLines,
                      l.round <= round
               PROVE  job[l.job] # "OPEN"
    BY DEF RoundsDoNotOverlap
  <2>1. JobsAreKnown /\ round \in Nat
    BY SwissAssumption DEF SwissInv, Types
  <2>2. l.round # round + 1
    BY <2>1
  <2> QED
    BY <2>1, <2>2 DEF JobsAreKnown
<1> QED
  BY <1>1, SwissRunIsSound, PTL

(* Every draw is fair, measured against the rounds on file.                   *)
THEOREM DrawsAreFair == Spec => []DrawIsFair
<1>1. SwissInv => DrawIsFair
  <2> SUFFICES ASSUME SwissInv, pc = "match", next = 0 PROVE DrawIsFair
    BY DEF DrawIsFair
  <2>1. Shares(drawn, ids) /\ IsFair(drawn, ids, PairsInFile, ByesInFile)
    BY DEF SwissInv, DrawIsKept, Drawing
  <2>2. DOMAIN drawn.groups = 1 .. Len(drawn.groups)
    BY <2>1 DEF Shares
  <2>3. \A g, k : LeftFor(g, k) = LeftIn(drawn.groups, g, k)
    BY DEF LeftFor, LeftIn
  <2>4. \A g \in DOMAIN drawn.groups : \A k \in 2 .. Seats :
          LET before == {drawn.groups[g][n] : n \in 1 .. k - 1}
          IN  Met(drawn.groups[g][k], before, PairsInFile) =>
                \A x \in LeftFor(g, k) : Met(x, before, PairsInFile)
    BY <2>1, <2>2, <2>3 DEF IsFair
  <2> QED
    BY <2>1, <2>4 DEF DrawIsFair, Shares, IsFair
<1> QED
  BY <1>1, SwissRunIsSound, PTL
=============================================================================
