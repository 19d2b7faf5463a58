------------------------- MODULE MatchmakingProofs --------------------------
(***************************************************************************)
(* For any versions, fillers, pool, seats and slots: no order is lost or   *)
(* in two places while workers come and go, running_ lists the matches     *)
(* that are not over, all but the one TopUp has just enqueued, and nobody  *)
(* meets a recent opponent again who could have been spared it.            *)
(***************************************************************************)
EXTENDS Matchmaking, FiniteSetTheorems, SequenceTheorems, WellFoundedInduction, TLAPS

-----------------------------------------------------------------------------
(* The inductive invariant.                                                  *)

(* The queue and the orders at workers: nothing twice.                       *)
Books(q, f) ==
  /\ q \in Seq(Orders) /\ IsInjective(q)
  /\ f \subseteq Orders /\ IsFiniteSet(f)
  /\ Range(q) \cap f = {}

Slotted == slots \in 0 .. MaxSlots /\ Cardinality(flight) <= slots

(* What was given to the scheduler waits, is at a worker, or is over.        *)
Given == {Place(c) : c \in Unbuilt \ waiting} \cup {Match(j) : j \in 1 .. Len(groups)}
OrderIsSomewhere ==
  /\ Range(queue) \cup flight \cup over = Given
  /\ (Range(queue) \cup flight) \cap over = {}

(* What on_concluded was told too early, TopUp has not recorded yet.         *)
Handed ==
  /\ groups \in Seq(Seq(Ids) \ {<<>>}) /\ Len(groups) <= MaxMatches
  /\ pc = "record" => now = Len(groups) /\ now >= 1
  /\ early \subseteq over
  /\ pc = "record" /\ Match(now) \in over => Match(now) \in early

MatchmakingInv ==
  /\ ready \subseteq Versions /\ pool \subseteq Versions /\ waiting \subseteq Unbuilt
  /\ running \in [Matches -> Seq(Ids)]
  /\ Books(queue, flight) /\ Slotted /\ OrderIsSomewhere /\ Handed /\ RunningIsOpen

-----------------------------------------------------------------------------
(* The scheduler's lists.                                                    *)

LEMMA Fewest ==
  ASSUME NEW a \in Nat, NEW b \in Int
  PROVE  /\ Min({a, Max({0, b})}) \in 0 .. a
         /\ Min({a, Max({0, b})}) <= b \/ Min({a, Max({0, b})}) = 0
<1>1. Max({0, b}) = IF b >= 0 THEN b ELSE 0
  BY DEF Max
<1>2. \A m \in Nat : Min({a, m}) = IF a <= m THEN a ELSE m
  BY DEF Min
<1> QED
  BY <1>1, <1>2

LEMMA Shift ==
  ASSUME NEW m \in Nat, NEW n \in 0 .. m
  PROVE  /\ n + 1 <= m => m - (n + 1) + 1 = m - n
         /\ m - (n + 1) + 1 = m - n
         /\ ~ (n + 1 <= m) => m - n = 0
         /\ \A i \in Int : n + 1 + i - 1 = n + i
         /\ \A i \in 1 .. m - n : n + i \in 1 .. m /\ n + i \notin 1 .. n
         /\ \A i \in 1 .. m - n, k \in 1 .. m - n : n + i = n + k => i = k
         /\ \A i \in 1 .. m : i \in 1 .. n \/ \E k \in 1 .. m - n : i = n + k
<1>1. \A i \in 1 .. m : i \in 1 .. n \/ (i - n \in 1 .. m - n /\ i = n + (i - n))
  OBVIOUS
<1>2. \A i \in 1 .. m : i \in 1 .. n \/ \E k \in 1 .. m - n : i = n + k
  BY <1>1, Zenon
<1> QED
  BY <1>2

LEMMA AppendIsSet ==
  ASSUME NEW S, NEW q \in Seq(S), NEW e \in S
  PROVE  /\ Append(q, e) \in Seq(S) /\ Range(Append(q, e)) = Range(q) \cup {e}
         /\ IsInjective(q) /\ e \notin Range(q) => IsInjective(Append(q, e))
<1> DEFINE r == Append(q, e)
           n == Len(q)
<1>1. /\ n \in Nat /\ DOMAIN q = 1 .. n /\ r \in Seq(S) /\ DOMAIN r = 1 .. n + 1
      /\ \A i \in 1 .. n : r[i] = q[i]
      /\ r[n + 1] = e
  BY AppendProperties, LenProperties
<1> HIDE DEF r, n
<1>2. \A i \in 1 .. n + 1 : i \in 1 .. n \/ i = n + 1
  BY <1>1
<1>3. Range(r) = Range(q) \cup {e}
  BY <1>1, <1>2 DEF Range
<1>4. IsInjective(q) /\ e \notin Range(q) => IsInjective(r)
  BY <1>1, <1>2 DEF IsInjective, Range
<1> QED
  BY <1>1, <1>3, <1>4 DEF r

(* A queue is its first n orders and the others.                             *)
LEMMA SplitIsSet ==
  ASSUME NEW S, NEW q \in Seq(S), IsInjective(q), NEW n \in 0 .. Len(q)
  PROVE  LET front == SubSeq(q, 1, n)
             rest == SubSeq(q, n + 1, Len(q))
         IN  /\ rest \in Seq(S) /\ IsInjective(rest)
             /\ Range(front) \cup Range(rest) = Range(q) /\ Range(front) \cap Range(rest) = {}
             /\ IsFiniteSet(Range(front)) /\ Cardinality(Range(front)) <= n
<1> DEFINE front == SubSeq(q, 1, n)
           rest == SubSeq(q, n + 1, Len(q))
           m == Len(q)
<1>1. m \in Nat /\ n \in Nat /\ n <= m /\ DOMAIN q = 1 .. m /\ \A i \in 1 .. m : q[i] \in S
  BY LenProperties, ElementOfSeq
<1>2. /\ front \in Seq(S) /\ DOMAIN front = 1 .. n
      /\ \A i \in 1 .. n : front[i] = q[i]
  <2>1. \A i \in 1 .. n : q[i] \in S
    BY <1>1
  <2>2. /\ front \in Seq(S) /\ Len(front) = (IF 1 <= n THEN n - 1 + 1 ELSE 0)
        /\ \A i \in 1 .. n - 1 + 1 : front[i] = q[1 + i - 1]
    BY <1>1, <2>1, SubSeqProperties
  <2> HIDE DEF front
  <2> QED
    BY <1>1, <2>2, LenProperties
<1> HIDE DEF front, m
<1>3. /\ rest \in Seq(S) /\ DOMAIN rest = 1 .. m - n
      /\ \A i \in 1 .. m - n : rest[i] = q[n + i]
  <2>1. \A i \in n + 1 .. m : q[i] \in S
    BY <1>1
  <2>2. /\ rest \in Seq(S) /\ Len(rest) = (IF n + 1 <= m THEN m - (n + 1) + 1 ELSE 0)
        /\ \A i \in 1 .. m - (n + 1) + 1 : rest[i] = q[n + 1 + i - 1]
    BY <1>1, <2>1, SubSeqProperties DEF m
  <2> HIDE DEF rest
  <2>3. DOMAIN rest = 1 .. Len(rest)
    BY <2>2, LenProperties
  <2>4. (IF n + 1 <= m THEN m - (n + 1) + 1 ELSE 0) = m - n
    BY <1>1, Shift
  <2>5. Len(rest) = m - n
    BY <2>2, <2>4
  <2>6. ASSUME NEW i \in 1 .. m - n PROVE rest[i] = q[n + i]
    <3>1. i \in 1 .. m - (n + 1) + 1 /\ n + 1 + i - 1 = n + i
      BY <1>1, Shift
    <3>2. rest[i] = q[n + 1 + i - 1]
      BY <2>2, <3>1
    <3> QED
      BY <3>1, <3>2, Zenon
  <2> QED
    BY <2>2, <2>3, <2>5, <2>6
<1> HIDE DEF rest
<1>4. \A i \in 1 .. m - n : n + i \in 1 .. m /\ n + i \notin 1 .. n
  BY <1>1, Shift
<1>5. IsInjective(rest)
  <2> SUFFICES ASSUME NEW i \in 1 .. m - n, NEW k \in 1 .. m - n, rest[i] = rest[k]
               PROVE  i = k
    BY <1>3, Zenon DEF IsInjective
  <2>1. q[n + i] = q[n + k] /\ n + i \in DOMAIN q /\ n + k \in DOMAIN q
    BY <1>1, <1>3, <1>4, Zenon
  <2>2. n + i = n + k
    BY <2>1 DEF IsInjective
  <2> QED
    BY <1>1, <2>2
<1>6. Range(front) \cup Range(rest) = Range(q)
  <2>1. \A i \in 1 .. m : i \in 1 .. n \/ \E k \in 1 .. m - n : i = n + k
    BY <1>1, Shift
  <2>2. ASSUME NEW e \in Range(q) PROVE e \in Range(front) \cup Range(rest)
    <3>1. PICK i \in 1 .. m : e = q[i]
      BY <1>1, Zenon DEF Range
    <3>2. CASE i \in 1 .. n
      BY <1>2, <3>1, <3>2, Zenon DEF Range
    <3>3. CASE \E k \in 1 .. m - n : i = n + k
      BY <1>3, <3>1, <3>3, Zenon DEF Range
    <3> QED
      BY <2>1, <3>2, <3>3
  <2>3. \A i \in 1 .. n : i \in 1 .. m
    BY <1>1
  <2>4. Range(front) \subseteq Range(q)
    BY <1>1, <1>2, <2>3, Zenon DEF Range
  <2>5. Range(rest) \subseteq Range(q)
    BY <1>1, <1>3, <1>4, Zenon DEF Range
  <2> QED
    BY <2>2, <2>4, <2>5
<1>7. Range(front) \cap Range(rest) = {}
  <2> SUFFICES ASSUME NEW i \in 1 .. n, NEW k \in 1 .. m - n, front[i] = rest[k]
               PROVE  FALSE
    BY <1>2, <1>3 DEF Range
  <2>1. i \in 1 .. m /\ n + k \in 1 .. m /\ q[i] = q[n + k] /\ i # n + k
    BY <1>1, <1>2, <1>3, <1>4
  <2> QED
    BY <1>1, <2>1 DEF IsInjective
<1>8. IsFiniteSet(Range(front)) /\ Cardinality(Range(front)) <= n
  <2>1. front \in Surjection(1 .. n, Range(front))
    <3>1. front \in [1 .. n -> Range(front)]
      <4>1. front = [i \in 1 .. n |-> front[i]]
        BY <1>2, SeqDef
      <4> QED
        BY <1>2, <4>1 DEF Range
    <3> QED
      BY <1>2, <3>1 DEF Surjection, Range
  <2>2. IsFiniteSet(1 .. n) /\ Cardinality(1 .. n) = n
    BY <1>1, FS_Interval
  <2> QED
    BY <2>1, <2>2, FS_Surjection
<1> QED
  BY <1>3, <1>5, <1>6, <1>7, <1>8 DEF front, rest, m

LEMMA DispatchKeeps ==
  ASSUME NEW q, NEW f, Books(q, f), NEW s \in Int, Dispatch(q, f, s)
  PROVE  /\ Books(queue, flight)' /\ Range(queue') \cup flight' = Range(q) \cup f
         /\ Cardinality(f) <= s => Cardinality(flight') <= s
<1> DEFINE n == Dispatched(q, f, s)
           front == SubSeq(q, 1, n)
<1>1. q \in Seq(Orders) /\ Len(q) \in Nat /\ Cardinality(f) \in Nat /\ IsFiniteSet(f)
  BY FS_CardinalityType, LenProperties DEF Books
<1>2. n \in 0 .. Len(q) /\ (n <= s - Cardinality(f) \/ n = 0)
  <2>1. s - Cardinality(f) \in Int
    BY <1>1
  <2> QED
    BY <1>1, <2>1, Fewest, Zenon DEF Dispatched
<1> HIDE DEF n
<1>3. flight' = f \cup Range(front) /\ queue' = SubSeq(q, n + 1, Len(q))
  BY DEF Dispatch, n
<1>4. /\ queue' \in Seq(Orders) /\ IsInjective(queue')
      /\ Range(front) \cup Range(queue') = Range(q) /\ Range(front) \cap Range(queue') = {}
      /\ IsFiniteSet(Range(front)) /\ Cardinality(Range(front)) <= n
  BY <1>1, <1>2, <1>3, SplitIsSet DEF Books
<1> HIDE DEF front
<1>5. Range(q) \subseteq Orders
  BY <1>1, ElementOfSeq, LenProperties DEF Range
<1>6. IsFiniteSet(flight') /\ Cardinality(flight') <= Cardinality(f) + Cardinality(Range(front))
  <2>1. IsFiniteSet(f \cap Range(front))
    BY <1>1, FS_Subset
  <2>2. Cardinality(f \cap Range(front)) \in Nat /\ Cardinality(Range(front)) \in Nat
    BY <1>4, <2>1, FS_CardinalityType
  <2>3. /\ IsFiniteSet(f \cup Range(front))
        /\ Cardinality(f \cup Range(front))
             = Cardinality(f) + Cardinality(Range(front)) - Cardinality(f \cap Range(front))
    BY <1>1, <1>4, FS_Union
  <2> QED
    BY <1>1, <1>3, <2>2, <2>3
<1>7. Books(queue, flight)' /\ Range(queue') \cup flight' = Range(q) \cup f
  BY <1>3, <1>4, <1>5, <1>6 DEF Books
<1>8. Cardinality(f) <= s => Cardinality(flight') <= s
  <2>1. Cardinality(Range(front)) \in Nat /\ Cardinality(flight') \in Nat
    BY <1>4, <1>6, FS_CardinalityType
  <2> QED
    BY <1>1, <1>2, <1>4, <1>6, <2>1
<1> QED
  BY <1>7, <1>8

LEMMA PrependIsSet ==
  ASSUME NEW S, NEW q \in Seq(S), NEW e \in S
  PROVE  /\ <<e>> \o q \in Seq(S) /\ Range(<<e>> \o q) = Range(q) \cup {e}
         /\ IsInjective(q) /\ e \notin Range(q) => IsInjective(<<e>> \o q)
<1> DEFINE r == <<e>> \o q
           n == Len(q)
<1>1. /\ n \in Nat /\ DOMAIN q = 1 .. n /\ r \in Seq(S) /\ DOMAIN r = 1 .. n + 1
      /\ r[1] = e /\ \A i \in 1 .. n : r[1 + i] = q[i]
  <2>1. <<e>> \in Seq(S) /\ Len(<<e>>) = 1 /\ <<e>>[1] = e
    OBVIOUS
  <2>2. /\ n \in Nat /\ DOMAIN q = 1 .. n /\ r \in Seq(S) /\ Len(r) = 1 + n
        /\ \A i \in 1 .. 1 + n : r[i] = IF i <= 1 THEN <<e>>[i] ELSE q[i - 1]
    BY <2>1, ConcatProperties, LenProperties
  <2>3. r[1] = e
    BY <2>1, <2>2
  <2>4. ASSUME NEW i \in 1 .. n PROVE r[1 + i] = q[i]
    <3>1. 1 + i \in 1 .. 1 + n /\ ~ (1 + i <= 1) /\ 1 + i - 1 = i
      BY <2>2
    <3> QED
      BY <2>2, <3>1
  <2>5. DOMAIN r = 1 .. n + 1
    BY <2>2, LenProperties
  <2> QED
    BY <2>2, <2>3, <2>4, <2>5
<1> HIDE DEF r, n
<1>2. \A i \in 1 .. n + 1 : i = 1 \/ \E k \in 1 .. n : i = 1 + k
  <2>1. \A i \in 1 .. n + 1 : i = 1 \/ (i - 1 \in 1 .. n /\ i = 1 + (i - 1))
    BY <1>1
  <2> QED
    BY <2>1, Zenon
<1>3. 1 \in 1 .. n + 1 /\ \A i \in 1 .. n : 1 + i \in 1 .. n + 1
  BY <1>1
<1>4. Range(r) = Range(q) \cup {e}
  <2>1. Range(r) \subseteq Range(q) \cup {e}
    <3> SUFFICES ASSUME NEW i \in 1 .. n + 1 PROVE r[i] \in Range(q) \cup {e}
      BY <1>1, Zenon DEF Range
    <3>1. CASE i = 1
      BY <1>1, <3>1, Zenon
    <3>2. CASE \E k \in 1 .. n : i = 1 + k
      BY <1>1, <3>2, Zenon DEF Range
    <3> QED
      BY <1>2, <3>1, <3>2
  <2>2. Range(q) \cup {e} \subseteq Range(r)
    BY <1>1, <1>3 DEF Range
  <2> QED
    BY <2>1, <2>2
<1>5. ASSUME IsInjective(q), e \notin Range(q) PROVE IsInjective(r)
  <2> SUFFICES ASSUME NEW i \in 1 .. n + 1, NEW k \in 1 .. n + 1, r[i] = r[k]
               PROVE  i = k
    BY <1>1, Zenon DEF IsInjective
  <2>1. \A a \in 1 .. n : r[1 + a] = q[a] /\ q[a] # e
    BY <1>1, <1>5, Zenon DEF Range
  <2>2. \A a, b \in 1 .. n : r[1 + a] = r[1 + b] => a = b
    BY <1>1, <1>5, Zenon DEF IsInjective
  <2>3. CASE i = 1 /\ k = 1
    BY <2>3
  <2>4. CASE i = 1 /\ \E b \in 1 .. n : k = 1 + b
    BY <1>1, <2>1, <2>4, Zenon
  <2>5. CASE k = 1 /\ \E a \in 1 .. n : i = 1 + a
    BY <1>1, <2>1, <2>5, Zenon
  <2>6. CASE (\E a \in 1 .. n : i = 1 + a) /\ \E b \in 1 .. n : k = 1 + b
    BY <2>2, <2>6, Zenon
  <2> QED
    BY <1>2, <2>3, <2>4, <2>5, <2>6
<1> QED
  BY <1>1, <1>4, <1>5 DEF r

-----------------------------------------------------------------------------
(* The invariant is inductive.                                               *)

LEMMA Names ==
  /\ \A c \in Unbuilt : Place(c) \in Orders /\ Place(c)[1] = "place"
  /\ \A j \in Matches : Match(j) \in Orders /\ Match(j)[1] = "match" /\ Match(j)[2] = j
  /\ \A c, d, j, k : /\ Place(c) # Match(j)
                     /\ Place(c) = Place(d) => c = d
                     /\ Match(j) = Match(k) => j = k
  /\ \A o \in Orders : \/ \E c \in Unbuilt : o = Place(c)
                       \/ \E j \in Matches : o = Match(j)
  BY DEF Place, Match, Orders

LEMMA InitIsSound == Init => MatchmakingInv
<1> SUFFICES ASSUME Init PROVE MatchmakingInv
  OBVIOUS
<1>1. ready \subseteq Versions /\ pool \subseteq Versions /\ waiting \subseteq Unbuilt
  BY DEF Init
<1>2. running \in [Matches -> Seq(Ids)]
  BY DEF Init
<1>3. queue \in Seq(Orders) /\ Range(queue) = {} /\ IsInjective(queue)
  <2>1. <<>> \in Seq(Orders) /\ DOMAIN <<>> = {}
    BY EmptySeq
  <2> QED
    BY <2>1 DEF Init, Range, IsInjective
<1>4. Books(queue, flight) /\ Slotted
  BY <1>3, FS_EmptySet, MatchmakingAssumption DEF Init, Books, Slotted
<1>5. groups \in Seq(Seq(Ids) \ {<<>>}) /\ Len(groups) = 0
  BY EmptySeq DEF Init
<1>6. OrderIsSomewhere
  BY <1>3, <1>5 DEF OrderIsSomewhere, Given, Init
<1>7. Handed
  BY <1>5, MatchmakingAssumption DEF Handed, Init
<1>8. RunningIsOpen
  BY <1>5 DEF RunningIsOpen, Init
<1> QED
  BY <1>1, <1>2, <1>4, <1>6, <1>7, <1>8 DEF MatchmakingInv

(* What a step of the scheduler leaves, when it hands out the queue q.       *)
LEMMA SchedulerStep ==
  ASSUME MatchmakingInv, UNCHANGED <<topUp, groups>>, ready' \subseteq Versions,
         waiting' \subseteq waiting, slots' \in 0 .. MaxSlots,
         NEW q, NEW f, Books(q, f), Cardinality(f) <= slots', Dispatch(q, f, slots'),
         Range(q) \cup f \cup over' = Given', (Range(q) \cup f) \cap over' = {}
  PROVE  /\ ready' \subseteq Versions /\ pool' \subseteq Versions /\ waiting' \subseteq Unbuilt
         /\ Books(queue, flight)' /\ Slotted' /\ OrderIsSomewhere'
<1>1. slots' \in Int
  OBVIOUS
<1>2. /\ Books(queue, flight)' /\ Range(queue') \cup flight' = Range(q) \cup f
      /\ Cardinality(flight') <= slots'
  BY <1>1, DispatchKeeps
<1>3. OrderIsSomewhere'
  BY <1>2 DEF OrderIsSomewhere
<1> QED
  BY <1>2, <1>3 DEF MatchmakingInv, Slotted, topUp

(* Nothing ends, and no match starts.                                        *)
LEMMA NothingEnds ==
  ASSUME MatchmakingInv, UNCHANGED <<over, running, early, pc, now, groups>>
  PROVE  running' \in [Matches -> Seq(Ids)] /\ Handed' /\ RunningIsOpen'
<1>1. Handed'
  BY DEF MatchmakingInv, Handed
<1>2. RunningIsOpen'
  BY DEF MatchmakingInv, RunningIsOpen
<1> QED
  BY <1>1, <1>2 DEF MatchmakingInv

LEMMA EnqueuePlacementKeeps ==
  ASSUME MatchmakingInv, NEW c \in Unbuilt, EnqueuePlacement(c)
  PROVE  MatchmakingInv'
<1> DEFINE q == Append(queue, Place(c))
<1>1. c \in waiting /\ waiting' = waiting \ {c} /\ Dispatch(q, flight, slots')
  BY DEF EnqueuePlacement
<1>2. UNCHANGED <<ready, over, slots, losses, running, early, recent, pc, free, pool, last,
                  now, groups>>
  BY DEF EnqueuePlacement, matchmaker, topUp
<1>3. Place(c) \notin Range(queue) \cup flight \cup over
  BY <1>1, Names DEF MatchmakingInv, OrderIsSomewhere, Given
<1>4. q \in Seq(Orders) /\ Range(q) = Range(queue) \cup {Place(c)} /\ IsInjective(q)
  BY <1>3, AppendIsSet, Names DEF MatchmakingInv, Books
<1> HIDE DEF q
<1>5. Books(q, flight)
  BY <1>3, <1>4 DEF MatchmakingInv, Books
<1>6. Given' = Given \cup {Place(c)}
  BY <1>1, <1>2 DEF Given, MatchmakingInv
<1>7. Range(q) \cup flight \cup over' = Given' /\ (Range(q) \cup flight) \cap over' = {}
  BY <1>2, <1>3, <1>4, <1>6 DEF MatchmakingInv, OrderIsSomewhere
<1>8. UNCHANGED <<topUp, groups>> /\ ready' \subseteq Versions /\ waiting' \subseteq waiting
      /\ slots' \in 0 .. MaxSlots /\ Cardinality(flight) <= slots'
  BY <1>1, <1>2 DEF topUp, MatchmakingInv, Slotted
<1>9. /\ ready' \subseteq Versions /\ pool' \subseteq Versions /\ waiting' \subseteq Unbuilt
      /\ Books(queue, flight)' /\ Slotted' /\ OrderIsSomewhere'
  BY <1>1, <1>5, <1>7, <1>8, SchedulerStep
<1>10. running' \in [Matches -> Seq(Ids)] /\ Handed' /\ RunningIsOpen'
  BY <1>2, NothingEnds
<1> QED
  BY <1>9, <1>10 DEF MatchmakingInv

(* on_concluded of an order that has just ended.                             *)
LEMMA ConcludedKeeps ==
  ASSUME MatchmakingInv, NEW o \in Orders, o \in flight, over' = over \cup {o},
         OnConcluded(o), UNCHANGED <<pc, now, groups>>
  PROVE  running' \in [Matches -> Seq(Ids)] /\ Handed' /\ RunningIsOpen'
<1>1. o \notin over
  BY DEF MatchmakingInv, OrderIsSomewhere
<1>2. Len(groups) \in Nat
  BY LenProperties DEF MatchmakingInv, Handed
<1>3. ASSUME NEW j \in Matches, o = Match(j), running[j] # <<>>
      PROVE  running' \in [Matches -> Seq(Ids)] /\ Handed' /\ RunningIsOpen'
  <2>1. running' = [running EXCEPT ![j] = <<>>] /\ early' = early
    BY <1>3, Names DEF OnConcluded
  <2>2. ~ (pc = "record" /\ j = now)
    BY <1>3 DEF MatchmakingInv, RunningIsOpen
  <2>3. Handed'
    BY <1>3, <2>1, <2>2, Names DEF MatchmakingInv, Handed
  <2>4. running' \in [Matches -> Seq(Ids)]
    BY <2>1 DEF MatchmakingInv
  <2>5. RunningIsOpen'
    <3> SUFFICES ASSUME NEW k \in Matches
                 PROVE  running'[k] # <<>> <=> /\ k \in 1 .. Len(groups') /\ Match(k) \notin over'
                                               /\ ~ (pc' = "record" /\ k = now')
      BY DEF RunningIsOpen
    <3>1. running[k] # <<>> <=> k \in 1 .. Len(groups) /\ Match(k) \notin over
                                /\ ~ (pc = "record" /\ k = now)
      BY DEF MatchmakingInv, RunningIsOpen
    <3>2. running'[k] = IF k = j THEN <<>> ELSE running[k]
      BY <2>1 DEF MatchmakingInv
    <3>3. Match(k) = o <=> k = j
      BY <1>3, Names
    <3> QED
      BY <3>1, <3>2, <3>3
  <2> QED
    BY <2>3, <2>4, <2>5
<1>4. ASSUME \A j \in Matches : o = Match(j) => running[j] = <<>>
      PROVE  running' \in [Matches -> Seq(Ids)] /\ Handed' /\ RunningIsOpen'
  <2>1. running' = running /\ early' = early \cup {o}
    <3>1. CASE \E c \in Unbuilt : o = Place(c)
      BY <3>1, Names DEF OnConcluded
    <3>2. CASE \E j \in Matches : o = Match(j)
      BY <1>4, <3>2, Names DEF OnConcluded
    <3> QED
      BY <3>1, <3>2, Names
  <2>2. Handed'
    BY <2>1 DEF MatchmakingInv, Handed
  <2>3. RunningIsOpen'
    <3> SUFFICES ASSUME NEW k \in Matches
                 PROVE  running'[k] # <<>> <=> /\ k \in 1 .. Len(groups') /\ Match(k) \notin over'
                                               /\ ~ (pc' = "record" /\ k = now')
      BY DEF RunningIsOpen
    <3>1. running[k] # <<>> <=> k \in 1 .. Len(groups) /\ Match(k) \notin over
                                /\ ~ (pc = "record" /\ k = now)
      BY DEF MatchmakingInv, RunningIsOpen
    <3> QED
      BY <1>4, <2>1, <3>1
  <2> QED
    BY <2>1, <2>2, <2>3 DEF MatchmakingInv
<1> QED
  BY <1>3, <1>4

LEMMA AnswerKeeps ==
  ASSUME MatchmakingInv, NEW o \in Orders, NEW blamed \in SUBSET Versions, Answer(o, blamed)
  PROVE  MatchmakingInv'
<1> DEFINE f == flight \ {o}
<1>1. /\ o \in flight /\ over' = over \cup {o} /\ OnConcluded(o)
      /\ Dispatch(queue, f, slots')
  BY DEF Answer, FreeSlot
<1>2. UNCHANGED <<waiting, slots, losses, recent, pc, free, pool, last, now, groups>>
  BY DEF Answer, topUp
<1>3. ready' \subseteq Versions
  <2>1. CASE o[1] = "place"
    <3>1. PICK c \in Unbuilt : o = Place(c)
      BY <2>1, Names
    <3>2. ready' = ready \cup {c}
      BY <2>1, <3>1 DEF Answer, Place
    <3> QED
      BY <3>2, MatchmakingAssumption DEF MatchmakingInv
  <2>2. CASE o[1] # "place"
    BY <2>2 DEF Answer, MatchmakingInv
  <2> QED
    BY <2>1, <2>2
<1>4. IsFiniteSet(flight) /\ Cardinality(flight) <= slots /\ slots \in 0 .. MaxSlots
  BY DEF MatchmakingInv, Books, Slotted
<1>5. IsFiniteSet(f) /\ Cardinality(f) <= slots'
  <2>1. IsFiniteSet(f) /\ Cardinality(f) = Cardinality(flight) - 1 /\ Cardinality(flight) \in Nat
    BY <1>1, <1>4, FS_RemoveElement, FS_CardinalityType
  <2> QED
    BY <1>2, <1>4, <2>1
<1>6. Books(queue, f)
  BY <1>5 DEF MatchmakingInv, Books
<1>7. Given' = Given
  BY <1>2 DEF Given
<1>8. Range(queue) \cup f \cup over' = Given' /\ (Range(queue) \cup f) \cap over' = {}
  BY <1>1, <1>7 DEF MatchmakingInv, OrderIsSomewhere, Books
<1>9. UNCHANGED <<topUp, groups>> /\ waiting' \subseteq waiting /\ slots' \in 0 .. MaxSlots
  BY <1>2, <1>4 DEF topUp
<1> HIDE DEF f
<1>10. /\ ready' \subseteq Versions /\ pool' \subseteq Versions /\ waiting' \subseteq Unbuilt
       /\ Books(queue, flight)' /\ Slotted' /\ OrderIsSomewhere'
  BY <1>1, <1>3, <1>5, <1>6, <1>8, <1>9, SchedulerStep
<1>11. running' \in [Matches -> Seq(Ids)] /\ Handed' /\ RunningIsOpen'
  BY <1>1, <1>2, ConcludedKeeps
<1> QED
  BY <1>10, <1>11 DEF MatchmakingInv

LEMMA LoseWorkerKeeps ==
  ASSUME MatchmakingInv, NEW lost \in {<<>>} \cup {<<o>> : o \in Orders}, LoseWorker(lost)
  PROVE  MatchmakingInv'
<1> DEFINE q == lost \o queue
           f == flight \ Range(lost)
<1>1. slots > 0 /\ slots' = slots - 1 /\ Dispatch(q, f, slots')
  BY DEF LoseWorker
<1>2. UNCHANGED <<ready, waiting, over, running, early, recent, pc, free, pool, last, now,
                  groups>>
  BY DEF LoseWorker, matchmaker, topUp
<1>3. /\ IsFiniteSet(flight) /\ Cardinality(flight) <= slots /\ slots \in 0 .. MaxSlots
      /\ queue \in Seq(Orders) /\ IsInjective(queue)
      /\ Range(queue) \cap flight = {} /\ flight \subseteq Orders
  BY DEF MatchmakingInv, Books, Slotted
<1>4. Cardinality(flight) \in Nat
  BY <1>3, FS_CardinalityType
<1>5. /\ Books(q, f) /\ Cardinality(f) <= slots'
      /\ Range(q) \cup f = Range(queue) \cup flight
  <2>1. CASE Cardinality(flight) < slots /\ lost = <<>>
    <3>1. q = queue
      BY <1>3, <2>1, ConcatEmptySeq
    <3>2. f = flight
      BY <2>1, EmptySeq DEF Range
    <3> HIDE DEF q, f
    <3>3. Books(q, f) /\ Range(q) \cup f = Range(queue) \cup flight
      BY <1>3, <3>1, <3>2 DEF Books
    <3>4. Cardinality(f) <= slots'
      BY <1>1, <1>3, <1>4, <2>1, <3>2
    <3> QED
      BY <3>3, <3>4
  <2>2. ASSUME NEW o \in flight, lost = <<o>>
        PROVE  /\ Books(q, f) /\ Cardinality(f) <= slots'
               /\ Range(q) \cup f = Range(queue) \cup flight
    <3>1. Range(lost) = {o}
      BY <2>2 DEF Range
    <3>2. o \in Orders /\ o \notin Range(queue)
      BY <1>3
    <3>3. q \in Seq(Orders) /\ Range(q) = Range(queue) \cup {o} /\ IsInjective(q)
      BY <1>3, <2>2, <3>2, PrependIsSet
    <3>4. f = flight \ {o}
      BY <3>1
    <3> HIDE DEF q, f
    <3>5. IsFiniteSet(f) /\ Cardinality(f) = Cardinality(flight) - 1
      BY <1>3, <3>4, FS_RemoveElement
    <3>6. Cardinality(f) <= slots'
      BY <1>1, <1>3, <1>4, <3>5
    <3>7. Books(q, f) /\ Range(q) \cup f = Range(queue) \cup flight
      BY <1>3, <3>2, <3>3, <3>4, <3>5 DEF Books
    <3> QED
      BY <3>6, <3>7
  <2>3. \/ Cardinality(flight) < slots /\ lost = <<>>
        \/ \E o \in flight : lost = <<o>>
    BY DEF LoseWorker
  <2> QED
    BY <2>1, <2>2, <2>3
<1> HIDE DEF q, f
<1>6. Range(q) \cup f \cup over' = Given' /\ (Range(q) \cup f) \cap over' = {}
  BY <1>2, <1>5 DEF MatchmakingInv, OrderIsSomewhere, Given
<1>7. UNCHANGED <<topUp, groups>> /\ ready' \subseteq Versions /\ waiting' \subseteq waiting
  BY <1>2 DEF topUp, MatchmakingInv
<1>8. slots' \in 0 .. MaxSlots
  BY <1>1, <1>3, MatchmakingAssumption
<1>9. /\ ready' \subseteq Versions /\ pool' \subseteq Versions /\ waiting' \subseteq Unbuilt
      /\ Books(queue, flight)' /\ Slotted' /\ OrderIsSomewhere'
  BY <1>1, <1>5, <1>6, <1>7, <1>8, SchedulerStep
<1>10. running' \in [Matches -> Seq(Ids)] /\ Handed' /\ RunningIsOpen'
  BY <1>2, NothingEnds
<1> QED
  BY <1>9, <1>10 DEF MatchmakingInv

LEMMA AddWorkerKeeps ==
  ASSUME MatchmakingInv, AddWorker
  PROVE  MatchmakingInv'
<1>1. slots < MaxSlots /\ slots' = slots + 1 /\ Dispatch(queue, flight, slots')
  BY DEF AddWorker
<1>2. UNCHANGED <<ready, waiting, over, losses, running, early, recent, pc, free, pool, last,
                  now, groups>>
  BY DEF AddWorker, matchmaker, topUp
<1>3. Books(queue, flight) /\ Cardinality(flight) <= slots /\ slots \in 0 .. MaxSlots
  BY DEF MatchmakingInv, Slotted
<1>4. Cardinality(flight) \in Nat
  BY <1>3, FS_CardinalityType DEF Books
<1>5. slots' \in 0 .. MaxSlots /\ Cardinality(flight) <= slots'
  BY <1>1, <1>3, <1>4, MatchmakingAssumption
<1>6. Range(queue) \cup flight \cup over' = Given' /\ (Range(queue) \cup flight) \cap over' = {}
  BY <1>2 DEF MatchmakingInv, OrderIsSomewhere, Given
<1>7. UNCHANGED <<topUp, groups>> /\ ready' \subseteq Versions /\ waiting' \subseteq waiting
  BY <1>2 DEF topUp, MatchmakingInv
<1>8. /\ ready' \subseteq Versions /\ pool' \subseteq Versions /\ waiting' \subseteq Unbuilt
      /\ Books(queue, flight)' /\ Slotted' /\ OrderIsSomewhere'
  BY <1>1, <1>3, <1>5, <1>6, <1>7, SchedulerStep
<1>9. running' \in [Matches -> Seq(Ids)] /\ Handed' /\ RunningIsOpen'
  BY <1>2, NothingEnds
<1> QED
  BY <1>8, <1>9 DEF MatchmakingInv

(* TopUp's own steps: no order is touched, and no match is on its way.       *)
LEMMA QuietStep ==
  ASSUME MatchmakingInv, UNCHANGED <<scheduler, matchmaker, groups>>,
         pc # "record", pc' # "record", pool' \subseteq Versions
  PROVE  MatchmakingInv'
<1>1. UNCHANGED <<ready, waiting, queue, flight, over, slots, losses, running, early, recent,
                  groups>>
  BY DEF scheduler, matchmaker
<1>2. Books(queue, flight)' /\ Slotted' /\ OrderIsSomewhere'
  BY <1>1 DEF MatchmakingInv, Books, Slotted, OrderIsSomewhere, Given
<1>3. Handed'
  BY <1>1 DEF MatchmakingInv, Handed
<1>4. RunningIsOpen'
  BY <1>1 DEF MatchmakingInv, RunningIsOpen
<1> QED
  BY <1>1, <1>2, <1>3, <1>4 DEF MatchmakingInv

LEMMA QuietKeeps ==
  ASSUME MatchmakingInv, \/ WhenNothingIsQueued \/ CountSlots \/ CountFree \/ CopyState
                         \/ StopChoosing
  PROVE  MatchmakingInv'
<1>1. UNCHANGED <<scheduler, matchmaker, groups>> /\ pc # "record" /\ pc' # "record"
  <2>1. CASE WhenNothingIsQueued
    BY <2>1 DEF WhenNothingIsQueued
  <2>2. CASE CountSlots
    BY <2>2 DEF CountSlots
  <2>3. CASE CountFree
    BY <2>3 DEF CountFree
  <2>4. CASE CopyState
    BY <2>4 DEF CopyState
  <2>5. CASE StopChoosing
    BY <2>5 DEF StopChoosing
  <2> QED
    BY <2>1, <2>2, <2>3, <2>4, <2>5
<1>2. pool' \subseteq Versions
  <2>1. CASE CopyState
    BY <2>1 DEF CopyState, Pools, MatchmakingInv
  <2>2. CASE StopChoosing
    BY <2>2 DEF StopChoosing
  <2>3. CASE WhenNothingIsQueued \/ CountSlots \/ CountFree
    BY <2>3 DEF WhenNothingIsQueued, CountSlots, CountFree, MatchmakingInv
  <2> QED
    BY <2>1, <2>2, <2>3
<1> QED
  BY <1>1, <1>2, QuietStep

(* A finite set is listed by SetToSeq.                                       *)
LEMMA ListedSet ==
  ASSUME NEW S, IsFiniteSet(S)
  PROVE  SetToSeq(S) \in Seq(S) /\ Range(SetToSeq(S)) = S
<1> DEFINE n == Cardinality(S)
<1>1. n \in Nat /\ ExistsBijection(1 .. n, S)
  BY FS_CardinalityType
<1>2. PICK f : f \in Bijection(1 .. n, S)
  BY <1>1 DEF ExistsBijection
<1>3. f \in [1 .. n -> S] /\ IsInjective(f)
  BY <1>2 DEF Bijection, Injection, IsInjective
<1> DEFINE g == SetToSeq(S)
<1>4. g \in [1 .. n -> S] /\ IsInjective(g)
  BY <1>3 DEF SetToSeq
<1> HIDE DEF g
<1>5. g \in Surjection(1 .. n, S)
  <2>1. g \in Injection(1 .. n, S)
    BY <1>4 DEF Injection, IsInjective
  <2>2. IsFiniteSet(1 .. n) /\ Cardinality(1 .. n) = n
    BY <1>1, FS_Interval
  <2> QED
    BY <2>1, <2>2, FS_Injection DEF n
<1>6. Range(g) = S
  BY <1>4, <1>5 DEF Surjection, Range
<1> HIDE DEF n
<1> QED
  BY <1>1, <1>4, <1>6, SeqDef DEF g

LEMMA RivalsAre ==
  ASSUME MatchmakingInv, NEW a, NEW R \in Rivals(a)
  PROVE  R \subseteq Ids /\ IsFiniteSet(R)
<1>1. R \subseteq Ids
  <2>2. pool \subseteq Versions
    BY DEF MatchmakingInv
  <2>3. CASE R \in kSubset(Seats - 1, pool \ {a})
    BY <2>2, <2>3 DEF kSubset, Ids
  <2>4. CASE \E F \in kSubset(Seats - Cardinality(pool), Fillers) : R = (pool \ {a}) \cup F
    BY <2>2, <2>4 DEF kSubset, Ids
  <2> QED
    BY <2>3, <2>4 DEF Rivals
<1>2. IsFiniteSet(Ids)
  BY MatchmakingAssumption, FS_Union DEF Ids
<1> QED
  BY <1>1, <1>2, FS_Subset

LEMMA GroupIsListed ==
  ASSUME MatchmakingInv, NEW a \in pool, NEW short, NEW R \in Best(a, short)
  PROVE  <<a>> \o SetToSeq(R) \in Seq(Ids) \ {<<>>}
<1>1. R \subseteq Ids /\ IsFiniteSet(R)
  BY RivalsAre DEF Best
<1>2. SetToSeq(R) \in Seq(R)
  BY <1>1, ListedSet
<1> DEFINE s == SetToSeq(R)
<1>3. s \in Seq(Ids)
  BY <1>1, <1>2, SeqDef
<1>4. a \in Ids
  BY DEF MatchmakingInv, Ids
<1> HIDE DEF s
<1>5. <<a>> \in Seq(Ids) /\ Len(<<a>>) = 1
  BY <1>4
<1>6. <<a>> \o s \in Seq(Ids) /\ Len(<<a>> \o s) = 1 + Len(s) /\ Len(s) \in Nat
  BY <1>3, <1>5, ConcatProperties, LenProperties
<1>7. Len(<<a>> \o s) # 0
  BY <1>6
<1> QED
  BY <1>6, <1>7, EmptySeq DEF s

LEMMA ChooseKeeps ==
  ASSUME MatchmakingInv, Choose
  PROVE  MatchmakingInv'
<1>1. /\ pc = "choose" /\ pc' = "record" /\ Len(groups) < MaxMatches
      /\ UNCHANGED <<recent, free, pool>>
  BY DEF Choose
<1>2. PICK group \in Seq(Ids) \ {<<>>} : EnqueueMatch(group)
  BY GroupIsListed DEF Choose
<1> DEFINE j == Len(groups) + 1
           q == Append(queue, Match(j))
<1>3. /\ groups' = Append(groups, group) /\ now' = j
      /\ UNCHANGED <<ready, waiting, slots, losses, running>>
  BY <1>2 DEF EnqueueMatch
<1>4. /\ groups \in Seq(Seq(Ids) \ {<<>>}) /\ Len(groups) \in Nat
      /\ groups' \in Seq(Seq(Ids) \ {<<>>}) /\ Len(groups') = j
  BY <1>3, AppendProperties, LenProperties DEF MatchmakingInv, Handed
<1>5. j \in Nat /\ j >= 1 /\ j <= MaxMatches /\ j \in Matches /\ j \notin 1 .. Len(groups)
  BY <1>1, <1>4, MatchmakingAssumption DEF Matches
<1>6. \A k : k \in 1 .. Len(groups') <=> k \in 1 .. Len(groups) \/ k = j
  BY <1>4
<1>7. Match(j) \notin Range(queue) \cup flight \cup over
  <2> HIDE DEF j
  <2>1. ASSUME Match(j) \in Given PROVE FALSE
    <3>1. PICK k \in 1 .. Len(groups) : Match(j) = Match(k)
      BY <2>1, Names DEF Given
    <3>2. j = k
      BY <3>1, Names
    <3> QED
      BY <1>5, <3>2
  <2> QED
    BY <2>1 DEF MatchmakingInv, OrderIsSomewhere
<1>8. Given' = Given \cup {Match(j)}
  BY <1>3, <1>6 DEF Given
<1>9. \/ /\ Dispatch(q, flight, slots) /\ UNCHANGED <<over, early>>
      \/ /\ over' = over \cup {Match(j)} /\ early' = early \cup {Match(j)}
         /\ UNCHANGED <<queue, flight>>
  BY <1>2 DEF EnqueueMatch
<1> HIDE DEF j
<1>10. Books(queue, flight) /\ Slotted /\ OrderIsSomewhere
  BY DEF MatchmakingInv
<1>11. slots \in 0 .. MaxSlots /\ slots \in Int /\ Cardinality(flight) <= slots
  BY <1>10 DEF Slotted
<1>12. Books(queue, flight)' /\ Slotted' /\ OrderIsSomewhere'
  <2>1. CASE Dispatch(q, flight, slots) /\ UNCHANGED <<over, early>>
    <3>1. q \in Seq(Orders) /\ Range(q) = Range(queue) \cup {Match(j)} /\ IsInjective(q)
      BY <1>5, <1>7, <1>10, AppendIsSet, Names DEF Books
    <3> HIDE DEF q
    <3>2. Books(q, flight)
      BY <1>7, <1>10, <3>1 DEF Books
    <3>3. /\ Books(queue, flight)' /\ Range(queue') \cup flight' = Range(q) \cup flight
          /\ Cardinality(flight') <= slots
      BY <1>11, <2>1, <3>2, DispatchKeeps
    <3>4. OrderIsSomewhere'
      BY <1>7, <1>8, <1>10, <2>1, <3>1, <3>3 DEF OrderIsSomewhere
    <3> QED
      BY <1>3, <1>11, <3>3, <3>4 DEF Slotted
  <2>2. CASE /\ over' = over \cup {Match(j)} /\ UNCHANGED <<queue, flight>>
    <3>1. Books(queue, flight)' /\ Slotted'
      BY <1>3, <1>10, <2>2 DEF Books, Slotted
    <3>2. OrderIsSomewhere'
      BY <1>7, <1>8, <1>10, <2>2 DEF OrderIsSomewhere
    <3> QED
      BY <3>1, <3>2
  <2> QED
    BY <1>9, <2>1, <2>2
<1> HIDE DEF q
<1>13. Handed'
  <2>1. early' \subseteq over' /\ (Match(now') \in over' => Match(now') \in early')
    BY <1>3, <1>7, <1>9 DEF MatchmakingInv, Handed
  <2> QED
    BY <1>3, <1>4, <1>5, <2>1 DEF Handed
<1>14. RunningIsOpen'
  <2> SUFFICES ASSUME NEW k \in Matches
               PROVE  running'[k] # <<>> <=> /\ k \in 1 .. Len(groups') /\ Match(k) \notin over'
                                             /\ ~ (pc' = "record" /\ k = now')
    BY DEF RunningIsOpen
  <2>1. running[k] # <<>> <=> k \in 1 .. Len(groups) /\ Match(k) \notin over
    BY <1>1 DEF MatchmakingInv, RunningIsOpen
  <2>2. k # j => (Match(k) \in over' <=> Match(k) \in over)
    BY <1>9, Names
  <2> QED
    BY <1>1, <1>3, <1>5, <1>6, <2>1, <2>2
<1> QED
  BY <1>1, <1>3, <1>12, <1>13, <1>14 DEF MatchmakingInv

LEMMA RecordKeeps ==
  ASSUME MatchmakingInv, Record
  PROVE  MatchmakingInv'
<1>1. pc = "record" /\ pc' = "choose" /\ RecordMatch
  BY DEF Record
<1>2. UNCHANGED <<ready, waiting, queue, flight, over, slots, losses, pool, now, groups>>
  BY DEF Record, scheduler
<1>3. /\ groups \in Seq(Seq(Ids) \ {<<>>}) /\ Len(groups) \in Nat /\ Len(groups) <= MaxMatches
      /\ now = Len(groups) /\ now >= 1
      /\ early \subseteq over /\ (Match(now) \in over => Match(now) \in early)
  BY <1>1, LenProperties DEF MatchmakingInv, Handed
<1>4. now \in 1 .. Len(groups) /\ now \in Matches
  BY <1>3, MatchmakingAssumption DEF Matches
<1>5. groups[now] \in Seq(Ids) /\ groups[now] # <<>>
  BY <1>3, <1>4, ElementOfSeq
<1>6. Books(queue, flight)' /\ Slotted' /\ OrderIsSomewhere'
  BY <1>2 DEF MatchmakingInv, Books, Slotted, OrderIsSomewhere, Given
<1>7. /\ running' \in [Matches -> Seq(Ids)] /\ early' \subseteq early
      /\ \A k \in Matches : k # now => running'[k] = running[k]
      /\ running'[now] # <<>> <=> Match(now) \notin over
  <2>1. running \in [Matches -> Seq(Ids)] /\ running[now] = <<>>
    BY <1>1, <1>4 DEF MatchmakingInv, RunningIsOpen
  <2>2. CASE Match(now) \in early
    BY <1>1, <1>3, <1>4, <2>1, <2>2 DEF RecordMatch
  <2>3. CASE Match(now) \notin early
    BY <1>1, <1>3, <1>4, <1>5, <2>1, <2>3 DEF RecordMatch
  <2> QED
    BY <2>2, <2>3
<1>8. Handed'
  BY <1>1, <1>2, <1>3, <1>7 DEF Handed
<1>9. RunningIsOpen'
  <2> SUFFICES ASSUME NEW k \in Matches
               PROVE  running'[k] # <<>> <=> k \in 1 .. Len(groups) /\ Match(k) \notin over
    BY <1>1, <1>2 DEF RunningIsOpen
  <2>1. k # now => (running[k] # <<>> <=> k \in 1 .. Len(groups) /\ Match(k) \notin over)
    BY <1>1 DEF MatchmakingInv, RunningIsOpen
  <2> QED
    BY <1>4, <1>7, <2>1
<1> QED
  BY <1>2, <1>6, <1>7, <1>8, <1>9 DEF MatchmakingInv

LEMMA StutterKeeps ==
  ASSUME MatchmakingInv, UNCHANGED vars
  PROVE  MatchmakingInv'
<1>1. UNCHANGED <<ready, waiting, queue, flight, over, slots, losses, running, early, recent,
                  pc, free, pool, last, now, groups>>
  BY DEF vars, scheduler, matchmaker, topUp
<1>2. Books(queue, flight)' /\ Slotted' /\ OrderIsSomewhere'
  BY <1>1 DEF MatchmakingInv, Books, Slotted, OrderIsSomewhere, Given
<1>3. running' \in [Matches -> Seq(Ids)] /\ Handed' /\ RunningIsOpen'
  BY <1>1, NothingEnds
<1> QED
  BY <1>1, <1>2, <1>3 DEF MatchmakingInv

LEMMA NextIsSound == MatchmakingInv /\ [Next]_vars => MatchmakingInv'
<1> SUFFICES ASSUME MatchmakingInv, [Next]_vars PROVE MatchmakingInv'
  OBVIOUS
<1>1. CASE TopUp
  BY <1>1, QuietKeeps, ChooseKeeps, RecordKeeps DEF TopUp
<1>2. CASE Scheduler
  BY <1>2, EnqueuePlacementKeeps, AnswerKeeps, LoseWorkerKeeps, AddWorkerKeeps DEF Scheduler
<1>3. CASE UNCHANGED vars
  BY <1>3, StutterKeeps
<1> QED
  BY <1>1, <1>2, <1>3 DEF Next

THEOREM MatchmakingIsSound == SafetySpec => []MatchmakingInv
<1> QED
  BY InitIsSound, NextIsSound, PTL DEF SafetySpec

-----------------------------------------------------------------------------
(* Functions that are defined by recursion over numbers.                     *)

LEMMA LeastNumber ==
  ASSUME NEW S \in SUBSET Nat, S # {}
  PROVE  \E n \in S : \A m \in S : n <= m
<1>1. PICK n \in S : \A m \in Nat : <<m, n>> \in OpToRel(<, Nat) => m \notin S
  BY NatLessThanWellFounded, WFMin
<1>2. \A m \in S : ~ (m < n)
  BY <1>1 DEF OpToRel
<1> QED
  BY <1>2

LEMMA UpTo ==
  ASSUME NEW N \in Nat, NEW P, 0 \in P, \A n \in 1 .. N : n - 1 \in P => n \in P
  PROVE  \A n \in 0 .. N : n \in P
<1> DEFINE Q == {n \in 0 .. N : n \notin P}
<1> SUFFICES ASSUME Q # {} PROVE FALSE
  OBVIOUS
<1>1. PICK n \in Q : \A m \in Q : n <= m
  <2>1. Q \subseteq Nat
    OBVIOUS
  <2> HIDE DEF Q
  <2> QED
    BY <2>1, LeastNumber
<1>2. n # 0 /\ n \in 1 .. N /\ n - 1 \in 0 .. N
  BY <1>1
<1>3. n - 1 \in P
  BY <1>1, <1>2
<1> QED
  BY <1>1, <1>2, <1>3

(* A function that is defined from its value for the number before.          *)
Recursive(G, N, s0, F) == G = [n \in 0 .. N |-> IF n = 0 THEN s0 ELSE F[n][G[n - 1]]]

LEMMA RecursionExists ==
  ASSUME NEW N \in Nat, NEW s0, NEW F
  PROVE  \E G : Recursive(G, N, s0, F)
<1> DEFINE P == {n \in 0 .. N : \E G : Recursive(G, n, s0, F)}
<1>1. 0 \in P
  <2>1. Recursive([n \in 0 .. 0 |-> s0], 0, s0, F)
    BY DEF Recursive
  <2> QED
    BY <2>1
<1>2. ASSUME NEW k \in 1 .. N, k - 1 \in P PROVE k \in P
  <2>1. PICK G : Recursive(G, k - 1, s0, F)
    BY <1>2
  <2> DEFINE H == [n \in 0 .. k |-> IF n = k THEN F[k][G[k - 1]] ELSE G[n]]
             E == [n \in 0 .. k |-> IF n = 0 THEN s0 ELSE F[n][H[n - 1]]]
  <2>2. ASSUME NEW n \in 0 .. k PROVE H[n] = E[n]
    <3>1. CASE n = 0
      <4>1. 0 \in 0 .. k - 1 /\ n # k
        BY <3>1
      <4>2. G[0] = s0
        BY <2>1, <4>1 DEF Recursive
      <4> QED
        BY <3>1, <4>1, <4>2
    <3>2. CASE n = k
      <4>1. k - 1 \in 0 .. k /\ k - 1 # k /\ k # 0
        OBVIOUS
      <4> QED
        BY <3>2, <4>1
    <3>3. CASE n # 0 /\ n # k
      <4>1. n \in 0 .. k - 1 /\ n - 1 \in 0 .. k /\ n - 1 # k
        BY <3>3
      <4>2. G[n] = F[n][G[n - 1]]
        BY <2>1, <3>3, <4>1 DEF Recursive
      <4> QED
        BY <3>3, <4>1, <4>2
    <3> QED
      BY <3>1, <3>2, <3>3
  <2>3. H = E
    BY <2>2
  <2>4. Recursive(H, k, s0, F)
    BY <2>3 DEF Recursive
  <2> QED
    BY <2>4
<1> HIDE DEF P
<1>3. N \in P
  BY <1>1, <1>2, UpTo
<1> QED
  BY <1>3 DEF P

-----------------------------------------------------------------------------
(* Who met whom.                                                             *)

Kept == kRecent * (Seats - 1)

LEMMA KeptIsNat == Kept \in Nat
<1>1. kRecent \in Nat /\ Seats \in Nat /\ Seats >= 2
  BY MatchmakingAssumption
<1>2. Seats - 1 \in Nat
  BY <1>1
<1>3. \A a, b \in Nat : a * b \in Nat
  OBVIOUS
<1> QED
  BY <1>1, <1>2, <1>3 DEF Kept

LEMMA LastFewIs ==
  ASSUME NEW A, NEW s \in Seq(A)
  PROVE  /\ LastFew(s) \in Seq(A)
         /\ Len(LastFew(s)) = IF Len(s) <= Kept THEN Len(s) ELSE Kept
         /\ \A i \in 1 .. Len(LastFew(s)) : LastFew(s)[i] = s[i]
<1> DEFINE k == Min({Len(s), Kept})
           t == SubSeq(s, 1, k)
<1>1. Len(s) \in Nat /\ Kept \in Nat /\ \A i \in 1 .. Len(s) : s[i] \in A
  BY KeptIsNat, LenProperties, ElementOfSeq
<1>2. k = IF Len(s) <= Kept THEN Len(s) ELSE Kept
  BY <1>1 DEF Min
<1>3. k \in Nat /\ k <= Len(s)
  BY <1>1, <1>2
<1>4. LastFew(s) = t
  BY DEF LastFew, Kept
<1> HIDE DEF k
<1>5. \A i \in 1 .. k : s[i] \in A
  BY <1>1, <1>3
<1>6. /\ t \in Seq(A) /\ Len(t) = IF 1 <= k THEN k - 1 + 1 ELSE 0
      /\ \A i \in 1 .. k - 1 + 1 : t[i] = s[1 + i - 1]
  BY <1>3, <1>5, SubSeqProperties
<1> HIDE DEF t
<1>7. Len(t) = k /\ \A i \in 1 .. k : t[i] = s[i]
  BY <1>3, <1>6
<1> QED
  BY <1>2, <1>4, <1>6, <1>7

(* What has been forgotten is not missed: the last few of those met now and  *)
(* the last few met before are the last few of all.                          *)
LEMMA LastFewSuffice ==
  ASSUME NEW A, NEW m \in Seq(A), NEW s \in Seq(A)
  PROVE  LastFew(m \o LastFew(s)) = LastFew(m \o s)
<1> DEFINE t == LastFew(s)
           a == m \o t
           b == m \o s
           x == LastFew(a)
           y == LastFew(b)
<1>1. Len(m) \in Nat /\ Len(s) \in Nat /\ Kept \in Nat
  BY KeptIsNat, LenProperties
<1>2. /\ t \in Seq(A) /\ Len(t) = IF Len(s) <= Kept THEN Len(s) ELSE Kept
      /\ \A i \in 1 .. Len(t) : t[i] = s[i]
  BY LastFewIs
<1>3. Len(t) \in Nat /\ Len(t) <= Len(s) /\ Len(t) <= Kept
  BY <1>1, <1>2
<1> HIDE DEF t
<1>4. /\ a \in Seq(A) /\ Len(a) = Len(m) + Len(t)
      /\ \A i \in 1 .. Len(m) + Len(t) : a[i] = IF i <= Len(m) THEN m[i] ELSE t[i - Len(m)]
  BY <1>2, ConcatProperties
<1>5. /\ b \in Seq(A) /\ Len(b) = Len(m) + Len(s)
      /\ \A i \in 1 .. Len(m) + Len(s) : b[i] = IF i <= Len(m) THEN m[i] ELSE s[i - Len(m)]
  BY ConcatProperties
<1> HIDE DEF a, b
<1>6. /\ x \in Seq(A) /\ Len(x) = IF Len(a) <= Kept THEN Len(a) ELSE Kept
      /\ \A i \in 1 .. Len(x) : x[i] = a[i]
  BY <1>4, LastFewIs
<1>7. /\ y \in Seq(A) /\ Len(y) = IF Len(b) <= Kept THEN Len(b) ELSE Kept
      /\ \A i \in 1 .. Len(y) : y[i] = b[i]
  BY <1>5, LastFewIs
<1> HIDE DEF x, y
<1>8. Len(x) = Len(y) /\ Len(x) \in Nat /\ Len(x) <= Len(a)
  BY <1>1, <1>2, <1>3, <1>4, <1>5, <1>6, <1>7
<1>9. ASSUME NEW i \in 1 .. Len(x) PROVE x[i] = y[i]
  <2>1. x[i] = a[i] /\ y[i] = b[i]
    BY <1>6, <1>7, <1>8
  <2>2. i \in 1 .. Len(m) + Len(t) /\ i \in 1 .. Len(m) + Len(s)
    BY <1>1, <1>3, <1>4, <1>8
  <2>3. CASE i <= Len(m)
    BY <1>4, <1>5, <2>1, <2>2, <2>3
  <2>4. CASE ~ (i <= Len(m))
    <3>1. i - Len(m) \in 1 .. Len(t)
      BY <1>1, <1>3, <2>2, <2>4
    <3>2. t[i - Len(m)] = s[i - Len(m)]
      BY <1>2, <3>1
    <3> QED
      BY <1>4, <1>5, <2>1, <2>2, <2>4, <3>2
  <2> QED
    BY <2>3, <2>4
<1>10. x = y
  BY <1>6, <1>7, <1>8, <1>9, SeqEqual
<1> QED
  BY <1>10 DEF x, y, a, b, t

LEMMA MetInIsASeq ==
  ASSUME NEW A, NEW g \in Seq(A), NEW x \in Range(g)
  PROVE  MetIn(g, x) \in Seq(A)
<1> DEFINE n == Len(g)
           r == Reverse(g)
           I == {i \in 1 .. Len(r) : r[i] = x}
           k == Min(I)
           front == SubSeq(r, 1, k - 1)
           back == SubSeq(r, k + 1, Len(r))
<1>1. n \in Nat /\ DOMAIN g = 1 .. n /\ \A i \in 1 .. n : g[i] \in A
  BY LenProperties, ElementOfSeq
<1>2. r \in Seq(A) /\ Len(r) = n /\ \A i \in 1 .. n : r[i] = g[n - i + 1] /\ r[i] \in A
  <2>1. \A i \in 1 .. n : n - i + 1 \in 1 .. n
    BY <1>1
  <2>2. r = [i \in 1 .. n |-> g[n - i + 1]]
    BY DEF Reverse
  <2>3. r \in [1 .. n -> A] /\ \A i \in 1 .. n : r[i] = g[n - i + 1]
    BY <1>1, <2>1, <2>2
  <2> HIDE DEF r, n
  <2> QED
    BY <1>1, <2>3, SeqDef, LenProperties
<1> HIDE DEF r
<1>3. \E i \in 1 .. n : r[i] = x
  <2>1. PICK j \in 1 .. n : g[j] = x
    BY <1>1 DEF Range
  <2>2. n - j + 1 \in 1 .. n /\ n - (n - j + 1) + 1 = j
    BY <1>1
  <2> QED
    BY <1>2, <2>1, <2>2
<1>4. k \in I
  <2>1. I # {} /\ I \in SUBSET Nat
    BY <1>1, <1>2, <1>3
  <2> HIDE DEF I
  <2>2. \E i \in I : \A j \in I : i <= j
    BY <2>1, LeastNumber
  <2> QED
    BY <2>2 DEF Min
<1>5. k \in 1 .. n
  BY <1>2, <1>4
<1>6. MetIn(g, x) = front \o back
  <2>1. \E i \in 1 .. Len(r) : r[i] = x
    BY <1>2, <1>3
  <2>2. SelectInSeq(r, LAMBDA v : v = x) = k
    BY <1>4 DEF SelectInSeq
  <2>3. RemoveFirst(r, x) = RemoveAt(r, k)
    BY <2>1, <2>2 DEF RemoveFirst
  <2> QED
    BY <2>3 DEF MetIn, RemoveAt, r
<1> HIDE DEF k
<1>7. front \in Seq(A)
  <2>1. \A i \in 1 .. k - 1 : r[i] \in A
    BY <1>1, <1>2, <1>5
  <2> QED
    BY <1>1, <1>5, <2>1, SubSeqProperties
<1>8. back \in Seq(A)
  <2>1. \A i \in k + 1 .. Len(r) : r[i] \in A
    BY <1>1, <1>2, <1>5
  <2> QED
    BY <1>1, <1>2, <1>5, <2>1, SubSeqProperties
<1> HIDE DEF front, back
<1> QED
  BY <1>6, <1>7, <1>8, ConcatProperties

(* EveryoneMet after one more match.                                         *)
MetBy(x, played) ==
  [n \in 1 .. Len(played) |->
     [t \in Seq(Ids) |-> IF x \in Range(played[n]) THEN MetIn(played[n], x) \o t ELSE t]]

IsEveryoneMet(met, x, played) ==
  /\ EveryoneMet(x, played) = met[Len(played)]
  /\ met[0] = <<>>
  /\ \A n \in 0 .. Len(played) : met[n] \in Seq(Ids)
  /\ \A n \in 1 .. Len(played) :
       met[n] = IF x \in Range(played[n]) THEN MetIn(played[n], x) \o met[n - 1]
                ELSE met[n - 1]

LEMMA EveryoneMetIs ==
  ASSUME NEW x, NEW played \in Seq(Seq(Ids))
  PROVE  \E met : IsEveryoneMet(met, x, played)
<1> DEFINE N == Len(played)
           K == MetBy(x, played)
           Body(f) == [n \in 0 .. N |->
                         IF n = 0 THEN <<>>
                         ELSE IF x \in Range(played[n]) THEN MetIn(played[n], x) \o f[n - 1]
                         ELSE f[n - 1]]
           met == CHOOSE f : f = Body(f)
<1>1. N \in Nat /\ \A n \in 1 .. N : played[n] \in Seq(Ids)
  BY LenProperties, ElementOfSeq
<1>2. \A n \in 1 .. N, t \in Seq(Ids) :
        K[n][t] = IF x \in Range(played[n]) THEN MetIn(played[n], x) \o t ELSE t
  BY DEF MetBy
<1>3. <<>> \in Seq(Ids)
  BY EmptySeq
<1>4. \A n \in 1 .. N, t \in Seq(Ids) :
        (IF x \in Range(played[n]) THEN MetIn(played[n], x) \o t ELSE t) \in Seq(Ids)
  <2> SUFFICES ASSUME NEW n \in 1 .. N, NEW t \in Seq(Ids), x \in Range(played[n])
               PROVE  MetIn(played[n], x) \o t \in Seq(Ids)
    OBVIOUS
  <2>1. MetIn(played[n], x) \in Seq(Ids)
    BY <1>1, MetInIsASeq
  <2> QED
    BY <2>1, ConcatProperties
<1>5. \A n \in 1 .. N : n - 1 \in 0 .. N /\ n \in 0 .. N /\ n # 0
  BY <1>1
<1>6. 0 \in 0 .. N /\ \A n \in 0 .. N : n # 0 => n \in 1 .. N
  BY <1>1
<1> HIDE DEF K, N
<1>7. PICK G : Recursive(G, N, <<>>, K)
  BY <1>1, RecursionExists
<1>8. G[0] = <<>> /\ \A n \in 1 .. N : G[n] = K[n][G[n - 1]]
  BY <1>5, <1>6, <1>7, Zenon DEF Recursive
<1>9. \A n \in 0 .. N : G[n] \in Seq(Ids)
  <2> DEFINE P == {n \in 0 .. N : G[n] \in Seq(Ids)}
  <2>1. 0 \in P
    BY <1>3, <1>6, <1>8
  <2>2. ASSUME NEW n \in 1 .. N, n - 1 \in P PROVE n \in P
    <3>1. G[n - 1] \in Seq(Ids) /\ n \in 0 .. N
      BY <1>5, <2>2
    <3>2. G[n] = IF x \in Range(played[n]) THEN MetIn(played[n], x) \o G[n - 1]
                 ELSE G[n - 1]
      BY <1>2, <1>8, <3>1
    <3>3. G[n] \in Seq(Ids)
      BY <1>4, <3>1, <3>2
    <3> QED
      BY <3>1, <3>3
  <2> HIDE DEF P
  <2>3. \A n \in 0 .. N : n \in P
    BY <1>1, <2>1, <2>2, UpTo
  <2> QED
    BY <2>3 DEF P
<1>10. G = Body(G)
  <2>1. G = [n \in 0 .. N |-> G[n]]
    BY <1>7 DEF Recursive
  <2>2. ASSUME NEW n \in 0 .. N PROVE G[n] = Body(G)[n]
    <3>1. CASE n = 0
      BY <1>8, <3>1
    <3>2. CASE n # 0
      <4>1. n \in 1 .. N
        BY <1>6, <3>2
      <4>2. G[n - 1] \in Seq(Ids)
        BY <1>5, <1>9, <4>1
      <4>3. G[n] = IF x \in Range(played[n]) THEN MetIn(played[n], x) \o G[n - 1]
                   ELSE G[n - 1]
        BY <1>2, <1>8, <4>1, <4>2
      <4> QED
        BY <3>2, <4>3
    <3> QED
      BY <3>1, <3>2
  <2> QED
    BY <2>1, <2>2
<1>11. met = Body(met)
  BY <1>10
<1>12. EveryoneMet(x, played) = met[N]
  BY DEF EveryoneMet, N
<1> HIDE DEF met
<1>13. met[0] = <<>>
  BY <1>6, <1>11
<1>14. \A n \in 1 .. N :
         met[n] = IF x \in Range(played[n]) THEN MetIn(played[n], x) \o met[n - 1]
                  ELSE met[n - 1]
  BY <1>5, <1>11
<1>15. \A n \in 0 .. N : met[n] \in Seq(Ids)
  <2> DEFINE P == {n \in 0 .. N : met[n] \in Seq(Ids)}
  <2>1. 0 \in P
    BY <1>3, <1>6, <1>13
  <2>2. ASSUME NEW n \in 1 .. N, n - 1 \in P PROVE n \in P
    <3>1. met[n - 1] \in Seq(Ids) /\ n \in 0 .. N
      BY <1>5, <2>2
    <3>2. met[n] \in Seq(Ids)
      BY <1>4, <1>14, <3>1
    <3> QED
      BY <3>1, <3>2
  <2> HIDE DEF P
  <2>3. \A n \in 0 .. N : n \in P
    BY <1>1, <2>1, <2>2, UpTo
  <2> QED
    BY <2>3 DEF P
<1> QED
  BY <1>12, <1>13, <1>14, <1>15 DEF N, IsEveryoneMet

LEMMA EveryoneMetNext ==
  ASSUME NEW x, NEW played \in Seq(Seq(Ids)), NEW g \in Seq(Ids)
  PROVE  EveryoneMet(x, Append(played, g)) =
           IF x \in Range(g) THEN MetIn(g, x) \o EveryoneMet(x, played)
           ELSE EveryoneMet(x, played)
<1> DEFINE N == Len(played)
           more == Append(played, g)
<1>1. /\ N \in Nat /\ more \in Seq(Seq(Ids)) /\ Len(more) = N + 1
      /\ \A n \in 1 .. N : more[n] = played[n]
      /\ more[N + 1] = g
  BY AppendProperties, LenProperties
<1> HIDE DEF N, more
<1>2. PICK met : IsEveryoneMet(met, x, played)
  BY EveryoneMetIs
<1>3. PICK met2 : IsEveryoneMet(met2, x, more)
  BY <1>1, EveryoneMetIs
<1>4. \A n \in 0 .. N : met2[n] = met[n]
  <2> DEFINE P == {n \in 0 .. N : met2[n] = met[n]}
  <2>1. 0 \in P
    BY <1>1, <1>2, <1>3 DEF IsEveryoneMet
  <2>2. ASSUME NEW n \in 1 .. N, n - 1 \in P PROVE n \in P
    <3>1. n \in 0 .. N /\ n \in 1 .. N + 1 /\ met2[n - 1] = met[n - 1] /\ more[n] = played[n]
      BY <1>1, <2>2
    <3>2. met2[n] = IF x \in Range(more[n]) THEN MetIn(more[n], x) \o met2[n - 1]
                    ELSE met2[n - 1]
      BY <1>1, <1>3, <3>1 DEF IsEveryoneMet
    <3>3. met[n] = IF x \in Range(played[n]) THEN MetIn(played[n], x) \o met[n - 1]
                   ELSE met[n - 1]
      BY <1>2, <2>2 DEF IsEveryoneMet, N
    <3>4. met2[n] = met[n]
      BY <3>1, <3>2, <3>3
    <3> QED
      BY <3>1, <3>4
  <2> HIDE DEF P
  <2>3. \A n \in 0 .. N : n \in P
    BY <1>1, <2>1, <2>2, UpTo
  <2> QED
    BY <2>3 DEF P
<1>5. N + 1 \in 1 .. N + 1 /\ N + 1 - 1 = N /\ N \in 0 .. N
  BY <1>1
<1>6. met2[N + 1] = IF x \in Range(g) THEN MetIn(g, x) \o met[N] ELSE met[N]
  BY <1>1, <1>3, <1>4, <1>5 DEF IsEveryoneMet
<1> QED
  BY <1>1, <1>2, <1>3, <1>6 DEF IsEveryoneMet, more, N

LEMMA EveryoneMetAtFirst ==
  ASSUME NEW x
  PROVE  EveryoneMet(x, <<>>) = <<>>
<1>1. <<>> \in Seq(Seq(Ids)) /\ Len(<<>>) = 0
  BY EmptySeq
<1>2. PICK met : IsEveryoneMet(met, x, <<>>)
  BY <1>1, EveryoneMetIs
<1> QED
  BY <1>1, <1>2 DEF IsEveryoneMet

-----------------------------------------------------------------------------
(* What recent_ says is true, and so is TopUp's copy of it, which is ahead   *)
(* of recent_ by the match that is not recorded yet.                         *)

RecentIsTrue ==
  /\ pc # "record" => \A x \in Ids : recent[x] = OpponentsOf(x)
  /\ pc \in {"choose", "record"} => \A x \in Ids : last[x] = OpponentsOf(x)

LEMMA RecentIsTrueAtFirst == Init => RecentIsTrue
<1> SUFFICES ASSUME Init PROVE RecentIsTrue
  OBVIOUS
<1>1. pc = "sleep" /\ groups = <<>> /\ \A x \in Ids : recent[x] = <<>>
  BY DEF Init, NoRecent
<1>2. LastFew(<<>>) = <<>>
  <2>1. ASSUME NEW s \in Seq(Ids), Len(s) = 0 PROVE LastFew(s) = <<>>
    <3>1. LastFew(s) \in Seq(Ids) /\ Len(LastFew(s)) = IF 0 <= Kept THEN 0 ELSE Kept
      BY <2>1, LastFewIs
    <3>2. Len(LastFew(s)) = 0
      BY <3>1, KeptIsNat
    <3> QED
      BY <3>1, <3>2, EmptySeq
  <2>2. <<>> \in Seq(Ids) /\ Len(<<>>) = 0
    BY EmptySeq
  <2> QED
    BY <2>1, <2>2, Zenon
<1>3. \A x : OpponentsOf(x) = <<>>
  BY <1>1, <1>2, EveryoneMetAtFirst DEF OpponentsOf
<1> QED
  BY <1>1, <1>3 DEF RecentIsTrue

LEMMA OpponentsKept ==
  ASSUME UNCHANGED groups
  PROVE  \A x : OpponentsOf(x)' = OpponentsOf(x)
BY DEF OpponentsOf

(* The group TopUp has chosen: who it is for comes first, the others are the *)
(* best of the rivals, each once.                                            *)
LEMMA ChosenIs ==
  ASSUME MatchmakingInv, Choose
  PROVE  \E a \in pool : \E short : \E R \in Best(a, short) :
           LET group == <<a>> \o SetToSeq(R)
           IN  /\ groups' = Append(groups, group)
               /\ last' = Remember(last, group)
               /\ group \in Seq(Ids) \ {<<>>} /\ group[1] = a /\ Range(Tail(group)) = R
<1>1. PICK a \in pool : \E short : \E R \in Best(a, short) :
         LET group == <<a>> \o SetToSeq(R)
         IN  groups' = Append(groups, group) /\ last' = Remember(last, group)
  BY DEF Choose, EnqueueMatch
<1>2. PICK short : \E R \in Best(a, short) :
         LET group == <<a>> \o SetToSeq(R)
         IN  groups' = Append(groups, group) /\ last' = Remember(last, group)
  BY <1>1
<1>3. PICK R \in Best(a, short) :
         LET group == <<a>> \o SetToSeq(R)
         IN  groups' = Append(groups, group) /\ last' = Remember(last, group)
  BY <1>2
<1> DEFINE s == SetToSeq(R)
           group == <<a>> \o s
<1>4. group \in Seq(Ids) \ {<<>>}
  BY GroupIsListed
<1>5. s \in Seq(R) /\ Range(s) = R
  BY RivalsAre, ListedSet DEF Best
<1> HIDE DEF s
<1>6. /\ Len(s) \in Nat /\ DOMAIN s = 1 .. Len(s)
      /\ group \in Seq(Ids \cup R) /\ Len(group) = 1 + Len(s)
      /\ group[1] = a /\ \A i \in 1 .. Len(s) : group[i + 1] = s[i]
  <2>1. s \in Seq(Ids \cup R) /\ <<a>> \in Seq(Ids \cup R) /\ Len(<<a>>) = 1 /\ <<a>>[1] = a
    BY <1>4, <1>5, SeqMonotonic DEF MatchmakingInv, Ids
  <2>2. /\ Len(s) \in Nat /\ DOMAIN s = 1 .. Len(s)
        /\ group \in Seq(Ids \cup R) /\ Len(group) = 1 + Len(s)
        /\ \A i \in 1 .. 1 + Len(s) : group[i] = IF i <= 1 THEN <<a>>[i] ELSE s[i - 1]
    BY <2>1, ConcatProperties, LenProperties
  <2>3. group[1] = a
    BY <2>1, <2>2
  <2>4. ASSUME NEW i \in 1 .. Len(s) PROVE group[i + 1] = s[i]
    <3>1. i + 1 \in 1 .. 1 + Len(s) /\ ~ (i + 1 <= 1) /\ i + 1 - 1 = i
      BY <2>2
    <3> QED
      BY <2>2, <3>1
  <2> QED
    BY <2>2, <2>3, <2>4
<1> HIDE DEF group
<1>7. Range(Tail(group)) = R
  <2> DEFINE t == Tail(group)
  <2>1. group # <<>> /\ group \in Seq(Ids)
    BY <1>4
  <2>2. t \in Seq(Ids) /\ Len(t) = Len(group) - 1 /\ \A i \in 1 .. Len(t) : t[i] = group[i + 1]
    BY <2>1, HeadTailProperties
  <2> HIDE DEF t
  <2>3. DOMAIN t = 1 .. Len(s) /\ \A i \in 1 .. Len(s) : t[i] = s[i]
    BY <1>6, <2>2, LenProperties
  <2>4. Range(t) = Range(s)
    BY <1>6, <2>3 DEF Range
  <2> QED
    BY <1>5, <2>4 DEF t
<1> QED
  BY <1>3, <1>4, <1>6, <1>7 DEF group, s

LEMMA ChooseRemembers ==
  ASSUME MatchmakingInv, RecentIsTrue, Choose
  PROVE  RecentIsTrue'
<1>1. pc = "choose" /\ pc' = "record" /\ \A x \in Ids : last[x] = OpponentsOf(x)
  BY DEF Choose, RecentIsTrue
<1>2. PICK group \in Seq(Ids) : groups' = Append(groups, group) /\ last' = Remember(last, group)
  BY ChosenIs
<1>3. groups \in Seq(Seq(Ids))
  BY SeqMonotonic DEF MatchmakingInv, Handed
<1>4. ASSUME NEW x \in Ids PROVE last'[x] = OpponentsOf(x)'
  <2> DEFINE met == EveryoneMet(x, groups)
             now2 == MetIn(group, x)
  <2>1. met \in Seq(Ids) /\ OpponentsOf(x) = LastFew(met)
    <3>1. Len(groups) \in 0 .. Len(groups)
      BY <1>3, LenProperties
    <3>2. PICK met2 : IsEveryoneMet(met2, x, groups)
      BY <1>3, EveryoneMetIs
    <3> QED
      BY <3>1, <3>2 DEF IsEveryoneMet, OpponentsOf
  <2>2. OpponentsOf(x)' = LastFew(IF x \in Range(group) THEN now2 \o met ELSE met)
    BY <1>2, <1>3, EveryoneMetNext DEF OpponentsOf
  <2>3. last'[x] = IF x \in Range(group) THEN LastFew(now2 \o LastFew(met)) ELSE LastFew(met)
    BY <1>1, <1>2, <2>1 DEF Remember
  <2>4. CASE x \in Range(group)
    <3>1. now2 \in Seq(Ids)
      BY <2>4, MetInIsASeq
    <3> HIDE DEF met, now2
    <3>2. LastFew(now2 \o LastFew(met)) = LastFew(now2 \o met)
      BY <2>1, <3>1, LastFewSuffice
    <3> QED
      BY <2>2, <2>3, <2>4, <3>2
  <2>5. CASE x \notin Range(group)
    BY <2>2, <2>3, <2>5
  <2> QED
    BY <2>4, <2>5
<1> QED
  BY <1>1, <1>4 DEF RecentIsTrue

LEMMA RecentIsTrueNext == MatchmakingInv /\ RecentIsTrue /\ [Next]_vars => RecentIsTrue'
<1> SUFFICES ASSUME MatchmakingInv, RecentIsTrue, [Next]_vars PROVE RecentIsTrue'
  OBVIOUS
<1>1. CASE Choose
  BY <1>1, ChooseRemembers
<1>2. CASE UNCHANGED <<groups, recent, last, pc>>
  BY <1>2, OpponentsKept DEF RecentIsTrue
<1>3. CASE WhenNothingIsQueued \/ CountSlots \/ CountFree \/ StopChoosing
  <2>1. /\ UNCHANGED <<groups, recent>>
        /\ pc # "record" /\ pc' \notin {"choose", "record"}
    BY <1>3 DEF WhenNothingIsQueued, CountSlots, CountFree, StopChoosing, matchmaker
  <2> QED
    BY <2>1, OpponentsKept DEF RecentIsTrue
<1>4. CASE CopyState
  <2>1. UNCHANGED <<groups, recent>> /\ pc = "copy" /\ pc' = "choose" /\ last' = recent
    BY <1>4 DEF CopyState, matchmaker
  <2> QED
    BY <2>1, OpponentsKept DEF RecentIsTrue
<1>5. CASE Record
  <2>1. UNCHANGED <<groups, last>> /\ pc = "record" /\ pc' = "choose" /\ recent' = last
    BY <1>5 DEF Record
  <2> QED
    BY <2>1, OpponentsKept DEF RecentIsTrue
<1>6. CASE Scheduler
  <2>1. UNCHANGED <<groups, recent, last, pc>>
    BY <1>6 DEF Scheduler, EnqueuePlacement, Answer, LoseWorker, AddWorker, matchmaker, topUp
  <2> QED
    BY <1>2, <2>1
<1>7. CASE UNCHANGED vars
  <2>1. UNCHANGED <<groups, recent, last, pc>>
    BY <1>7 DEF vars, matchmaker, topUp
  <2> QED
    BY <1>2, <2>1
<1> QED
  BY <1>1, <1>3, <1>4, <1>5, <1>6, <1>7 DEF Next, TopUp

(* Better than another group of the same authors is only one without recent  *)
(* opponents.                                                                *)
LEMMA BestIsFresh ==
  ASSUME NEW a, NEW short, NEW R \in Best(a, short), ~ Fresh(a, R),
         NEW Q \in Rivals(a), Authors(Q) = Authors(R)
  PROVE  ~ Fresh(a, Q)
<1>1. ~ Better(a, short, Q, R)
  BY DEF Best
<1>2. ASSUME NEW S PROVE {Author[x] : x \in S \cup {a}} = Authors(S) \cup {Author[a]}
  BY DEF Authors
<1>3. Mixed(a, Q) = Mixed(a, R)
  BY <1>2 DEF Mixed
<1>4. ShortOf(short, Q) = ShortOf(short, R)
  BY DEF ShortOf, Authors
<1> QED
  BY <1>1, <1>3, <1>4 DEF Better

LEMMA OnlyChooseAdds ==
  ASSUME MatchmakingInv, [Next]_vars, Len(groups') = Len(groups) + 1
  PROVE  Choose
<1>1. Len(groups) \in Nat
  BY LenProperties DEF MatchmakingInv, Handed
<1>2. ~ UNCHANGED groups
  BY <1>1
<1>3. ~ Scheduler
  BY <1>2 DEF Scheduler, EnqueuePlacement, Answer, LoseWorker, AddWorker
<1>4. ~ (WhenNothingIsQueued \/ CountSlots \/ CountFree \/ CopyState \/ StopChoosing \/ Record)
  BY <1>2 DEF WhenNothingIsQueued, CountSlots, CountFree, CopyState, StopChoosing, Record
<1>5. ~ UNCHANGED vars
  BY <1>2 DEF vars
<1> QED
  BY <1>3, <1>4, <1>5 DEF Next, TopUp

LEMMA ChoiceIsFresh ==
  ASSUME MatchmakingInv, RecentIsTrue, Choose, NEW j, j = Len(groups) + 1
  PROVE  LET a == groups'[j][1]
             R == Range(Tail(groups'[j]))
         IN  Met(a, R) => \A Q \in Rivals(a) : Authors(Q) = Authors(R) => Met(a, Q)
<1>1. \A x \in Ids : last[x] = OpponentsOf(x)
  BY DEF Choose, RecentIsTrue
<1>2. PICK a \in pool : \E short : \E R \in Best(a, short) :
         \E group \in Seq(Ids) \ {<<>>} :
           groups' = Append(groups, group) /\ group[1] = a /\ Range(Tail(group)) = R
  BY ChosenIs
<1>3. PICK short : \E R \in Best(a, short) :
         \E group \in Seq(Ids) \ {<<>>} :
           groups' = Append(groups, group) /\ group[1] = a /\ Range(Tail(group)) = R
  BY <1>2
<1>4. PICK R \in Best(a, short), group \in Seq(Ids) \ {<<>>} :
         groups' = Append(groups, group) /\ group[1] = a /\ Range(Tail(group)) = R
  BY <1>3
<1>5. groups'[j] = group
  BY <1>4, AppendProperties DEF MatchmakingInv, Handed
<1>6. \A Q : Met(a, Q) <=> ~ Fresh(a, Q)
  BY <1>1 DEF Met, Fresh, MatchmakingInv, Ids
<1>7. ASSUME Met(a, R), NEW Q \in Rivals(a), Authors(Q) = Authors(R) PROVE Met(a, Q)
  BY <1>6, <1>7, BestIsFresh
<1> QED
  BY <1>4, <1>5, <1>7

-----------------------------------------------------------------------------
(* The results.                                                              *)

(* running_ lists the matches that wait or play, all of them but the one     *)
(* TopUp has just enqueued, however early on_concluded was called.           *)
THEOREM RunningIsAlwaysOpen == SafetySpec => []RunningIsOpen
<1>1. MatchmakingInv => RunningIsOpen
  BY DEF MatchmakingInv
<1> QED
  BY <1>1, MatchmakingIsSound, PTL

(* Whatever was given to the scheduler waits once, is at one worker, or is   *)
(* over, while workers come and go; and no more orders are out than the      *)
(* fleet has slots.                                                          *)
THEOREM OrdersAreSomewhere ==
  SafetySpec => [](OrderIsSomewhere /\ Books(queue, flight) /\ Cardinality(flight) <= slots)
<1>1. MatchmakingInv => OrderIsSomewhere /\ Books(queue, flight) /\ Cardinality(flight) <= slots
  BY DEF MatchmakingInv, Slotted
<1> QED
  BY <1>1, MatchmakingIsSound, PTL

(* Whatever ends or is lost while TopUp works: the books it chooses by say   *)
(* whom a member has met in the matches that were really enqueued, so one    *)
(* meets a recent opponent again only if no group of the same authors, of    *)
(* those the pool allows, would have spared it that.                         *)
THEOREM RematchesAreForced == SafetySpec => NoQuickRematch
<1>1. MatchmakingInv /\ RecentIsTrue /\ [Next]_vars =>
        [\A j \in Matches : j = Len(groups) + 1 /\ Len(groups') = j =>
           LET a == groups'[j][1]
               R == Range(Tail(groups'[j]))
           IN  Met(a, R) => \A Q \in Rivals(a) : Authors(Q) = Authors(R) => Met(a, Q)]_vars
  BY OnlyChooseAdds, ChoiceIsFresh
<1>2. SafetySpec => []RecentIsTrue
  BY RecentIsTrueAtFirst, RecentIsTrueNext, MatchmakingIsSound, PTL DEF SafetySpec
<1> QED
  BY <1>1, <1>2, MatchmakingIsSound, PTL DEF SafetySpec, NoQuickRematch
=============================================================================
