------------------------ MODULE WorkerSessionProofs -------------------------
(***************************************************************************)
(* For any orders, slots, phases and steps: a session of a worker keeps    *)
(* every order it was sent, its books of them agree whatever a cancel or   *)
(* the loss of the stream comes between, and a step that was killed is     *)
(* never taken for one that failed.                                        *)
(***************************************************************************)
EXTENDS WorkerSession, SequenceTheorems, TLAPS

-----------------------------------------------------------------------------
(* The inductive invariant.                                                  *)

IsHeld(o) == \E s \in Slots : order[s] = o
Among(q, o) == \E i \in DOMAIN q : q[i] = o
IsQueued(o) == Among(queue, o)
PastPrepare == InEngine \cup {"leaveRunner", "answer"}
InContainers == {"start", "run", "drain"}

(* Where a slot is, it has an order, a phase and a step; no order has two.    *)
SlotFits(s) ==
  /\ order[s] = NoOrder <=> at[s] \in {"wait", "left"}
  /\ at[s] \in InEngine => phase[s] \in DOMAIN PhasesOf[order[s]]
  /\ at[s] \in {"start", "run"} => step[s] \in DOMAIN StepsNow(s)
SlotsFit ==
  /\ \A s \in Slots : SlotFits(s)
  /\ \A s, t \in Slots : order[s] = order[t] /\ order[s] # NoOrder => s = t

(* An order that was read waits, is held, was answered or was cancelled.      *)
Kept(o) ==
  /\ o \in orders <=> IsQueued(o) \/ IsHeld(o) \/ answers[o] # <<>> \/ o \in cancels
  /\ IsQueued(o) => ~IsHeld(o) /\ answers[o] = <<>> /\ o \notin cancels
  /\ IsHeld(o) => answers[o] = <<>>
  /\ Len(answers[o]) <= 1
OrdersFit == IsInjective(queue) /\ \A o \in Orders : Kept(o)

(* The books, order by order and container by container.                      *)
Booked(o) ==
  /\ o \in running <=> IsHeld(o)
  /\ o \in runner <=> At(o, InRunner)
  /\ o \in inFlight <=> At(o, InEngine)
  /\ o \in cancelled => o \in inFlight
  /\ names[o] \subseteq OfJob(o)
Housed(c) == \E s \in Slots : at[s] \in InContainers /\ c \in OfPhase(s)
BooksFit == \A o \in Orders : Booked(o)
ContainersFit ==
  /\ \A c \in alive : Housed(c)
  /\ \A s \in Slots : at[s] \in InContainers => OfPhase(s) \subseteq names[order[s]]

(* Whose containers were or are being killed is past Fly, marked while the    *)
(* engine has it, and CANCELLED after that.                                  *)
Begun(o) == answers[o] # <<>> \/ At(o, PastPrepare)
KillFits ==
  /\ reader \in {"find", "engine", "kill"} => target \in Orders
  /\ reader = "kill" => /\ kills \subseteq OfJob(target) /\ Begun(target)
                        /\ target \in inFlight => target \in cancelled
Excused(o) ==
  /\ Begun(o) /\ \A i \in DOMAIN answers[o] : answers[o][i] = "cancelled"
  /\ o \in inFlight => o \in cancelled
  /\ \A s \in Slots : order[s] = o /\ at[s] \in {"leaveRunner", "answer"} =>
       verdict[s] = "cancelled"
KilledFit == \A o \in killed : Excused(o)

JoinFits == reader = "joined" => \A s \in Slots : at[s] = "left"

SessionInv ==
  /\ TypeOK /\ SlotsFit /\ OrdersFit /\ BooksFit /\ ContainersFit
  /\ KillFits /\ KilledFit /\ JoinFits

-----------------------------------------------------------------------------
(* The queue, as a set of orders.                                            *)

LEMMA QueueAppended ==
  ASSUME NEW q \in Seq(Orders), IsInjective(q), NEW x \in Orders, ~Among(q, x)
  PROVE  /\ Append(q, x) \in Seq(Orders) /\ IsInjective(Append(q, x))
         /\ \A o : Among(Append(q, x), o) <=> Among(q, o) \/ o = x
<1>1. /\ Append(q, x) \in Seq(Orders) /\ Len(Append(q, x)) = Len(q) + 1
      /\ \A i \in 1 .. Len(q) : Append(q, x)[i] = q[i]
      /\ Append(q, x)[Len(q) + 1] = x
  BY AppendProperties
<1>2. Len(q) \in Nat /\ DOMAIN q = 1 .. Len(q) /\ DOMAIN Append(q, x) = 1 .. Len(q) + 1
  BY <1>1, LenProperties
<1> QED
  BY <1>1, <1>2 DEF Among, IsInjective

LEMMA QueueTaken ==
  ASSUME NEW q \in Seq(Orders), IsInjective(q), q # <<>>
  PROVE  /\ Head(q) \in Orders /\ Tail(q) \in Seq(Orders) /\ IsInjective(Tail(q))
         /\ Among(q, Head(q))
         /\ \A o : Among(Tail(q), o) <=> Among(q, o) /\ o # Head(q)
<1>1. /\ Head(q) \in Orders /\ Tail(q) \in Seq(Orders) /\ Len(Tail(q)) = Len(q) - 1
      /\ Head(q) = q[1] /\ \A i \in 1 .. Len(Tail(q)) : Tail(q)[i] = q[i + 1]
  BY HeadTailProperties
<1>2. /\ Len(q) \in Nat \ {0} /\ DOMAIN q = 1 .. Len(q)
      /\ DOMAIN Tail(q) = 1 .. Len(q) - 1
  BY <1>1, LenProperties, EmptySeq
<1>3. ASSUME NEW o, Among(q, o), o # Head(q)
      PROVE  Among(Tail(q), o)
  <2>1. PICK i \in 1 .. Len(q) : q[i] = o
    BY <1>2, <1>3 DEF Among
  <2>2. i - 1 \in 1 .. Len(Tail(q)) /\ Tail(q)[i - 1] = o
    BY <1>1, <1>2, <1>3, <2>1
  <2> QED
    BY <1>1, <1>2, <2>2 DEF Among
<1>4. ASSUME NEW o, Among(Tail(q), o)
      PROVE  Among(q, o) /\ o # Head(q)
  <2>1. PICK i \in 1 .. Len(q) - 1 : Tail(q)[i] = o
    BY <1>2, <1>4 DEF Among
  <2>2. i + 1 \in DOMAIN q /\ q[i + 1] = o /\ 1 \in DOMAIN q /\ i + 1 # 1
    BY <1>1, <1>2, <2>1
  <2> QED
    BY <1>1, <2>2 DEF Among, IsInjective
<1>5. IsInjective(Tail(q))
  BY <1>1, <1>2 DEF IsInjective
<1> QED
  BY <1>1, <1>2, <1>3, <1>4, <1>5 DEF Among

LEMMA QueueRemoved ==
  ASSUME NEW q \in Seq(Orders), IsInjective(q), NEW k \in DOMAIN q
  PROVE  /\ RemoveAt(q, k) \in Seq(Orders) /\ IsInjective(RemoveAt(q, k))
         /\ \A o : Among(RemoveAt(q, k), o) <=> Among(q, o) /\ o # q[k]
<1> DEFINE a == SubSeq(q, 1, k - 1)
           b == SubSeq(q, k + 1, Len(q))
           r == RemoveAt(q, k)
<1>1. Len(q) \in Nat /\ DOMAIN q = 1 .. Len(q) /\ k \in 1 .. Len(q)
  BY LenProperties
<1>2. /\ a \in Seq(Orders) /\ Len(a) = k - 1 /\ \A i \in 1 .. k - 1 : a[i] = q[i]
  BY <1>1, SubSeqProperties
<1>3. /\ b \in Seq(Orders) /\ Len(b) = Len(q) - k
      /\ \A i \in 1 .. Len(q) - k : b[i] = q[k + i]
  BY <1>1, SubSeqProperties
<1>4. /\ r = a \o b /\ r \in Seq(Orders) /\ Len(r) = Len(q) - 1
      /\ \A i \in 1 .. Len(q) - 1 : r[i] = IF i <= k - 1 THEN a[i] ELSE b[i - (k - 1)]
  <2>1. r = a \o b
    BY DEF RemoveAt
  <2>2. r \in Seq(Orders) /\ Len(r) = Len(a) + Len(b)
    BY <1>2, <1>3, <2>1, ConcatProperties
  <2>3. Len(a) + Len(b) = Len(q) - 1
    BY <1>1, <1>2, <1>3
  <2> HIDE DEF a, b, r
  <2>4. \A i \in 1 .. Len(a) + Len(b) :
          (a \o b)[i] = IF i <= Len(a) THEN a[i] ELSE b[i - Len(a)]
    BY <1>2, <1>3, ConcatProperties
  <2> QED
    BY <1>2, <2>1, <2>2, <2>3, <2>4
<1>5. DOMAIN r = 1 .. Len(q) - 1
  BY <1>4, LenProperties
<1> HIDE DEF a, b, r
<1>6. \A i \in 1 .. Len(q) - 1 : r[i] = IF i < k THEN q[i] ELSE q[i + 1]
  <2> TAKE i \in 1 .. Len(q) - 1
  <2>1. CASE i < k
    BY <1>1, <1>2, <1>4, <2>1
  <2>2. CASE i >= k
    <3>1. i - (k - 1) \in 1 .. Len(q) - k /\ k + (i - (k - 1)) = i + 1
      BY <1>1, <2>2
    <3>2. b[i - (k - 1)] = q[i + 1]
      BY <1>3, <3>1
    <3> QED
      BY <1>1, <1>4, <2>2, <3>2
  <2> QED
    BY <1>1, <2>1, <2>2
<1>7. IsInjective(r)
  <2> SUFFICES ASSUME NEW i \in 1 .. Len(q) - 1, NEW j \in 1 .. Len(q) - 1, r[i] = r[j]
               PROVE  i = j
    BY <1>5 DEF IsInjective
  <2>1. \A m, n \in 1 .. Len(q) : q[m] = q[n] => m = n
    BY <1>1 DEF IsInjective
  <2> QED
    BY <1>1, <1>6, <2>1
<1>8. ASSUME NEW o, Among(r, o)
      PROVE  Among(q, o) /\ o # q[k]
  <2>1. PICK i \in 1 .. Len(q) - 1 : r[i] = o
    BY <1>5, <1>8 DEF Among
  <2>2. PICK n \in 1 .. Len(q) : q[n] = o /\ n # k
    BY <1>1, <1>6, <2>1
  <2> QED
    BY <1>1, <2>2 DEF Among, IsInjective
<1>9. ASSUME NEW o, Among(q, o), o # q[k]
      PROVE  Among(r, o)
  <2>1. PICK n \in 1 .. Len(q) : q[n] = o /\ n # k
    BY <1>1, <1>9 DEF Among
  <2>2. \E i \in 1 .. Len(q) - 1 : r[i] = o
    <3>1. CASE n < k
      BY <1>1, <1>6, <2>1, <3>1
    <3>2. CASE n > k
      <4>1. n - 1 \in 1 .. Len(q) - 1 /\ r[n - 1] = o
        BY <1>1, <1>6, <2>1, <3>2
      <4> QED
        BY <4>1
    <3> QED
      BY <1>1, <2>1, <3>1, <3>2
  <2> QED
    BY <1>5, <2>2 DEF Among
<1> QED
  BY <1>4, <1>7, <1>8, <1>9 DEF r

-----------------------------------------------------------------------------
(* A slot that goes from one stage to the next with its order.               *)

LEMMA Stands ==
  ASSUME SlotsFit, NEW s \in Slots, NEW o, order[s] = o, o # NoOrder, NEW T
  PROVE  At(o, T) <=> at[s] \in T
BY DEF SlotsFit, At

LEMMA Moves ==
  ASSUME SessionInv, NEW s \in Slots, NEW st, at' = [at EXCEPT ![s] = st], order' = order,
         NEW o, o # NoOrder, NEW T
  PROVE  At(o, T)' <=> IF order[s] = o THEN st \in T ELSE At(o, T)
<1>1. at'[s] = st /\ \A t \in Slots : t # s => at'[t] = at[t]
  BY DEF SessionInv, TypeOK
<1>2. \A t \in Slots : order[s] = order[t] /\ order[s] # NoOrder => s = t
  BY DEF SessionInv, SlotsFit
<1> QED
  BY <1>1, <1>2 DEF At

LEMMA BooksMove ==
  ASSUME SessionAssumption, SessionInv, NEW s \in Slots, NEW st,
         at' = [at EXCEPT ![s] = st], order' = order, running' = running,
         order[s] # NoOrder,
         \A o \in Orders : o \in runner' <=> IF o = order[s] THEN st \in InRunner ELSE o \in runner,
         \A o \in Orders : o \in inFlight' <=> IF o = order[s] THEN st \in InEngine ELSE o \in inFlight,
         \A o \in Orders : o \in cancelled' => o \in cancelled /\ o \in inFlight',
         \A o \in Orders : names'[o] \subseteq OfJob(o)
  PROVE  BooksFit'
<1> SUFFICES ASSUME NEW o \in Orders
             PROVE  Booked(o)'
  BY DEF BooksFit
<1>1. o # NoOrder
  BY DEF SessionAssumption
<1>2. Booked(o)
  BY DEF SessionInv, BooksFit
<1>3. /\ At(o, InRunner)' <=> IF order[s] = o THEN st \in InRunner ELSE At(o, InRunner)
      /\ At(o, InEngine)' <=> IF order[s] = o THEN st \in InEngine ELSE At(o, InEngine)
  BY <1>1, Moves
<1>4. IsHeld(o)' <=> IsHeld(o)
  BY DEF IsHeld
<1>5. /\ o \in runner' <=> At(o, InRunner)'
      /\ o \in inFlight' <=> At(o, InEngine)'
  BY <1>2, <1>3 DEF Booked
<1> QED
  BY <1>2, <1>4, <1>5 DEF Booked, OfJob

LEMMA BegunMoves ==
  ASSUME SessionAssumption, SessionInv, NEW s \in Slots, NEW st,
         at' = [at EXCEPT ![s] = st], order' = order, answers' = answers,
         st \in PastPrepare \/ at[s] \notin PastPrepare,
         NEW o \in Orders, Begun(o)
  PROVE  Begun(o)'
<1>1. o # NoOrder
  BY DEF SessionAssumption
<1>2. At(o, PastPrepare)' <=> IF order[s] = o THEN st \in PastPrepare ELSE At(o, PastPrepare)
  BY <1>1, Moves
<1>3. order[s] = o => (At(o, PastPrepare) <=> at[s] \in PastPrepare)
  BY <1>1, Stands DEF SessionInv
<1> QED
  BY <1>2, <1>3 DEF Begun

LEMMA HasOrder ==
  ASSUME SessionInv, NEW s \in Slots, at[s] \notin {"wait", "left"}
  PROVE  order[s] \in Orders /\ order[s] # NoOrder
BY DEF SessionInv, TypeOK, SlotsFit, SlotFits

LEMMA PhaseFits ==
  ASSUME SessionAssumption, SessionInv, NEW s \in Slots, at[s] \in InEngine
  PROVE  /\ StepsNow(s) \in Seq(Steps) \ {<<>>}
         /\ OfPhase(s) \subseteq OfJob(order[s]) /\ OfPhase(s) \subseteq Containers
         /\ step[s] \in DOMAIN StepsNow(s) => Container(s) \in OfPhase(s)
<1>1. order[s] \in Orders
  BY HasOrder DEF InEngine
<1>2. phase[s] \in DOMAIN PhasesOf[order[s]]
  BY DEF SessionInv, SlotsFit, SlotFits
<1>3. PhasesOf[order[s]] \in Seq(DOMAIN StepsOf)
  BY <1>1 DEF SessionAssumption
<1>4. PhasesOf[order[s]][phase[s]] \in DOMAIN StepsOf
  BY <1>2, <1>3, ElementOfSeq, LenProperties
<1>5. StepsNow(s) \in Seq(Steps) \ {<<>>}
  BY <1>4 DEF SessionAssumption, StepsNow
<1>6. \A i \in DOMAIN StepsNow(s) : StepsNow(s)[i] \in Steps
  BY <1>5, ElementOfSeq, LenProperties
<1> QED
  BY <1>1, <1>5, <1>6 DEF OfPhase, OfJob, Container, Containers, Range

(* What is killed stays excused while nothing of it changes but its place.   *)
LEMMA KilledMove ==
  ASSUME SessionAssumption, SessionInv, NEW s \in Slots, NEW st,
         at' = [at EXCEPT ![s] = st], order' = order, answers' = answers, killed' = killed,
         st \in PastPrepare \/ at[s] \notin PastPrepare,
         \A o \in killed : o \in inFlight' => o \in inFlight /\ (o \in cancelled => o \in cancelled'),
         \A t \in Slots : t # s => verdict'[t] = verdict[t],
         order[s] \in killed /\ st \in {"leaveRunner", "answer"} => verdict'[s] = "cancelled"
  PROVE  KilledFit'
<1> SUFFICES ASSUME NEW o \in killed
             PROVE  Excused(o)'
  BY DEF KilledFit
<1>1. Excused(o) /\ o \in Orders
  BY DEF SessionInv, TypeOK, KilledFit
<1>2. Begun(o)'
  BY <1>1, BegunMoves DEF Excused
<1>3. at'[s] = st /\ \A t \in Slots : t # s => at'[t] = at[t]
  BY DEF SessionInv, TypeOK
<1> QED
  BY <1>1, <1>2, <1>3 DEF Excused

LEMMA AnsweredOnce ==
  ASSUME NEW v \in Verdicts
  PROVE  Append(<<>>, v) # <<>> /\ Len(Append(<<>>, v)) = 1
<1>1. <<>> \in Seq(Verdicts) /\ Len(<<>>) = 0
  BY EmptySeq
<1> QED
  BY <1>1, AppendProperties

-----------------------------------------------------------------------------
(* The reader's steps.                                                       *)

LEMMA BreakKeeps ==
  ASSUME SessionAssumption, SessionInv, Break
  PROVE  SessionInv'
<1> USE DEF SessionInv, Break, readerVars, sessionVars, slotVars, engineVars
<1>1. TypeOK'
  BY DEF TypeOK
<1>2. SlotsFit'
  BY DEF SlotsFit, SlotFits, StepsNow
<1>3. OrdersFit'
  BY DEF OrdersFit, Kept, IsQueued, IsHeld
<1>4. BooksFit'
  BY DEF BooksFit, Booked, IsHeld, At
<1>5. ContainersFit'
  BY DEF ContainersFit, Housed, OfPhase, StepsNow
<1>6. KillFits'
  BY DEF KillFits, Begun, At
<1>7. KilledFit'
  BY DEF KilledFit, Excused, Begun, At
<1>8. JoinFits'
  BY DEF JoinFits
<1> QED
  BY <1>1, <1>2, <1>3, <1>4, <1>5, <1>6, <1>7, <1>8

LEMMA NotifyKeeps ==
  ASSUME SessionAssumption, SessionInv, Notify
  PROVE  SessionInv'
<1> USE DEF SessionInv, Notify, readerVars, sessionVars, slotVars, engineVars
<1>1. TypeOK'
  BY DEF TypeOK, ReaderStages
<1>2. SlotsFit'
  BY DEF SlotsFit, SlotFits, StepsNow
<1>3. OrdersFit'
  BY DEF OrdersFit, Kept, IsQueued, IsHeld
<1>4. BooksFit'
  BY DEF BooksFit, Booked, IsHeld, At
<1>5. ContainersFit'
  BY DEF ContainersFit, Housed, OfPhase, StepsNow
<1>6. KillFits'
  BY DEF KillFits, Begun, At
<1>7. KilledFit'
  BY DEF KilledFit, Excused, Begun, At
<1>8. JoinFits'
  BY DEF JoinFits
<1> QED
  BY <1>1, <1>2, <1>3, <1>4, <1>5, <1>6, <1>7, <1>8

LEMMA FindInRunnerKeeps ==
  ASSUME SessionAssumption, SessionInv, FindInRunner
  PROVE  SessionInv'
<1> USE DEF SessionInv, FindInRunner, GoesOn, readerVars, sessionVars, slotVars, engineVars
<1>1. TypeOK'
  BY DEF TypeOK, ReaderStages
<1>2. SlotsFit'
  BY DEF SlotsFit, SlotFits, StepsNow
<1>3. OrdersFit'
  BY DEF OrdersFit, Kept, IsQueued, IsHeld
<1>4. BooksFit'
  BY DEF BooksFit, Booked, IsHeld, At
<1>5. ContainersFit'
  BY DEF ContainersFit, Housed, OfPhase, StepsNow
<1>6. KillFits'
  BY DEF KillFits, Begun, At
<1>7. KilledFit'
  BY DEF KilledFit, Excused, Begun, At
<1>8. JoinFits'
  BY DEF JoinFits
<1> QED
  BY <1>1, <1>2, <1>3, <1>4, <1>5, <1>6, <1>7, <1>8

LEMMA CancelJobKeeps ==
  ASSUME SessionAssumption, SessionInv, CancelJob
  PROVE  SessionInv'
<1> USE DEF SessionInv, CancelJob, GoesOn, readerVars, sessionVars, slotVars, engineVars
<1>1. TypeOK'
  BY DEF TypeOK, ReaderStages
<1>2. SlotsFit'
  BY DEF SlotsFit, SlotFits, StepsNow
<1>3. OrdersFit'
  BY DEF OrdersFit, Kept, IsQueued, IsHeld
<1>4. BooksFit'
  BY DEF BooksFit, Booked, IsHeld, At
<1>5. ContainersFit'
  BY DEF ContainersFit, Housed, OfPhase, StepsNow
<1>6. KillFits'
  BY DEF TypeOK, SlotsFit, SlotFits, BooksFit, Booked, KillFits, Begun, At, InRunner,
     InEngine, PastPrepare, IsHeld
<1>7. KilledFit'
  <2>1. \A x : Begun(x)' <=> Begun(x)
    BY DEF Begun, At
  <2>2. \A x : x \in cancelled => x \in cancelled'
    OBVIOUS
  <2> QED
    BY <2>1, <2>2 DEF KilledFit, Excused
<1>8. JoinFits'
  BY DEF JoinFits
<1> QED
  BY <1>1, <1>2, <1>3, <1>4, <1>5, <1>6, <1>7, <1>8

LEMMA KilledKeeps ==
  ASSUME SessionAssumption, SessionInv, Killed
  PROVE  SessionInv'
<1> USE DEF SessionInv, Killed, GoesOn, readerVars, sessionVars, slotVars, engineVars
<1>1. TypeOK'
  BY DEF TypeOK, ReaderStages
<1>2. SlotsFit'
  BY DEF SlotsFit, SlotFits, StepsNow
<1>3. OrdersFit'
  BY DEF OrdersFit, Kept, IsQueued, IsHeld
<1>4. BooksFit'
  BY DEF BooksFit, Booked, IsHeld, At
<1>5. ContainersFit'
  BY DEF ContainersFit, Housed, OfPhase, StepsNow
<1>6. KillFits'
  BY DEF KillFits, Begun, At
<1>7. KilledFit'
  BY DEF KilledFit, Excused, Begun, At
<1>8. JoinFits'
  BY DEF JoinFits
<1> QED
  BY <1>1, <1>2, <1>3, <1>4, <1>5, <1>6, <1>7, <1>8

LEMMA StopKeeps ==
  ASSUME SessionAssumption, SessionInv, Stop
  PROVE  SessionInv'
<1> USE DEF SessionInv, Stop, readerVars, sessionVars, slotVars, engineVars
<1>1. TypeOK'
  BY DEF TypeOK, ReaderStages
<1>2. SlotsFit'
  BY DEF SlotsFit, SlotFits, StepsNow
<1>3. OrdersFit'
  BY DEF OrdersFit, Kept, IsQueued, IsHeld
<1>4. BooksFit'
  BY DEF BooksFit, Booked, IsHeld, At
<1>5. ContainersFit'
  BY DEF ContainersFit, Housed, OfPhase, StepsNow
<1>6. KillFits'
  BY DEF KillFits, Begun, At
<1>7. KilledFit'
  BY DEF KilledFit, Excused, Begun, At
<1>8. JoinFits'
  BY DEF JoinFits
<1> QED
  BY <1>1, <1>2, <1>3, <1>4, <1>5, <1>6, <1>7, <1>8

LEMMA JoinKeeps ==
  ASSUME SessionAssumption, SessionInv, Join
  PROVE  SessionInv'
<1> USE DEF SessionInv, Join, readerVars, sessionVars, slotVars, engineVars
<1>1. TypeOK'
  BY DEF TypeOK, ReaderStages
<1>2. SlotsFit'
  BY DEF SlotsFit, SlotFits, StepsNow
<1>3. OrdersFit'
  BY DEF OrdersFit, Kept, IsQueued, IsHeld
<1>4. BooksFit'
  BY DEF BooksFit, Booked, IsHeld, At
<1>5. ContainersFit'
  BY DEF ContainersFit, Housed, OfPhase, StepsNow
<1>6. KillFits'
  BY DEF KillFits, Begun, At
<1>7. KilledFit'
  BY DEF KilledFit, Excused, Begun, At
<1>8. JoinFits'
  BY DEF JoinFits
<1> QED
  BY <1>1, <1>2, <1>3, <1>4, <1>5, <1>6, <1>7, <1>8

LEMMA EnqueueKeeps ==
  ASSUME SessionAssumption, SessionInv, NEW o \in Orders, Enqueue(o)
  PROVE  SessionInv'
<1> USE DEF SessionInv, Enqueue, readerVars, sessionVars, slotVars, engineVars
<1>1. TypeOK'
  BY DEF TypeOK, ReaderStages
<1>2. SlotsFit'
  BY DEF SlotsFit, SlotFits, StepsNow
<1>3. OrdersFit'
  <2>1. ~Among(queue, o)
    BY DEF OrdersFit, Kept, IsQueued
  <2>2. IsInjective(queue') /\ \A x : Among(queue', x) <=> Among(queue, x) \/ x = o
    BY <2>1, QueueAppended DEF TypeOK, OrdersFit
  <2>3. \A x \in Orders : IsHeld(x)' <=> IsHeld(x)
    BY DEF IsHeld
  <2>4. \A x \in Orders : Kept(x)'
    BY <2>2, <2>3 DEF TypeOK, OrdersFit, Kept, IsQueued
  <2> QED
    BY <2>2, <2>4 DEF OrdersFit
<1>4. BooksFit'
  BY DEF BooksFit, Booked, IsHeld, At
<1>5. ContainersFit'
  BY DEF ContainersFit, Housed, OfPhase, StepsNow
<1>6. KillFits'
  BY DEF KillFits, Begun, At
<1>7. KilledFit'
  BY DEF KilledFit, Excused, Begun, At
<1>8. JoinFits'
  BY DEF JoinFits
<1> QED
  BY <1>1, <1>2, <1>3, <1>4, <1>5, <1>6, <1>7, <1>8

LEMMA CancelKeeps ==
  ASSUME SessionAssumption, SessionInv, NEW o \in Orders, Cancel(o)
  PROVE  SessionInv'
<1> USE DEF SessionInv, Cancel, readerVars, sessionVars, slotVars, engineVars
<1>0. /\ queue' \in Seq(Orders) /\ IsInjective(queue')
      /\ \A x : Among(queue', x) <=> Among(queue, x) /\ x # o
  <2>1. queue \in Seq(Orders) /\ IsInjective(queue)
    BY DEF TypeOK, OrdersFit
  <2>2. CASE o \in Range(queue)
    <3>1. PICK i \in DOMAIN queue : queue[i] = o /\ queue' = RemoveAt(queue, i)
      BY <2>2
    <3> QED
      BY <2>1, <3>1, QueueRemoved
  <2>3. CASE o \notin Range(queue)
    <3>1. ~Among(queue, o) /\ queue' = queue
      BY <2>3 DEF Among, Range
    <3> QED
      BY <2>1, <3>1
  <2> QED
    BY <2>2, <2>3
<1>1. TypeOK'
  BY <1>0 DEF TypeOK, ReaderStages
<1>2. SlotsFit'
  BY <1>0 DEF SlotsFit, SlotFits, StepsNow
<1>3. OrdersFit'
  <2>1. \A x \in Orders : IsHeld(x)' <=> IsHeld(x)
    BY DEF IsHeld
  <2>2. \A x \in Orders : Kept(x)'
    BY <1>0, <2>1 DEF TypeOK, OrdersFit, Kept, IsQueued
  <2> QED
    BY <1>0, <2>2 DEF OrdersFit
<1>4. BooksFit'
  <2>1. \A x \in Orders : /\ IsHeld(x)' <=> IsHeld(x)
                          /\ At(x, InRunner)' <=> At(x, InRunner)
                          /\ At(x, InEngine)' <=> At(x, InEngine)
    BY DEF IsHeld, At
  <2> QED
    BY <2>1 DEF BooksFit, Booked, OfJob
<1>5. ContainersFit'
  BY <1>0 DEF ContainersFit, Housed, OfPhase, StepsNow
<1>6. KillFits'
  BY <1>0 DEF KillFits, Begun, At
<1>7. KilledFit'
  BY <1>0 DEF KilledFit, Excused, Begun, At
<1>8. JoinFits'
  BY <1>0 DEF JoinFits
<1> QED
  BY <1>1, <1>2, <1>3, <1>4, <1>5, <1>6, <1>7, <1>8

LEMMA SweepOneKeeps ==
  ASSUME SessionAssumption, SessionInv, NEW o \in Orders, SweepOne(o)
  PROVE  SessionInv'
<1> USE DEF SessionInv, SweepOne, readerVars, sessionVars, slotVars, engineVars
<1>1. TypeOK'
  BY DEF TypeOK, ReaderStages
<1>2. SlotsFit'
  BY DEF SlotsFit, SlotFits, StepsNow
<1>3. OrdersFit'
  BY DEF OrdersFit, Kept, IsQueued, IsHeld
<1>4. BooksFit'
  BY DEF BooksFit, Booked, IsHeld, At
<1>5. ContainersFit'
  BY DEF ContainersFit, Housed, OfPhase, StepsNow
<1>6. KillFits'
  BY DEF KillFits, Begun, At
<1>7. KilledFit'
  BY DEF KilledFit, Excused, Begun, At
<1>8. JoinFits'
  BY DEF JoinFits
<1> QED
  BY <1>1, <1>2, <1>3, <1>4, <1>5, <1>6, <1>7, <1>8

LEMMA KillKeeps ==
  ASSUME SessionAssumption, SessionInv, NEW c \in Containers, Kill(c)
  PROVE  SessionInv'
<1> USE DEF SessionInv, Kill, readerVars, sessionVars, slotVars, engineVars
<1>1. TypeOK'
  <2>1. c[1] \in Orders
    BY DEF Containers
  <2> QED
    BY <2>1 DEF TypeOK
<1>2. SlotsFit'
  BY DEF SlotsFit, SlotFits, StepsNow
<1>3. OrdersFit'
  BY DEF OrdersFit, Kept, IsQueued, IsHeld
<1>4. BooksFit'
  BY DEF BooksFit, Booked, IsHeld, At
<1>5. ContainersFit'
  BY DEF ContainersFit, Housed, OfPhase, StepsNow
<1>6. KillFits'
  BY DEF KillFits, Begun, At
<1>7. KilledFit'
  <2>1. \A x : Begun(x)' <=> Begun(x)
    BY DEF Begun, At
  <2>2. ASSUME NEW x \in killed
        PROVE  Excused(x)'
    BY <2>1, <2>2 DEF KilledFit, Excused
  <2>3. ASSUME c \in alive
        PROVE  Excused(c[1])'
    <3>1. PICK s \in Slots : at[s] \in InContainers /\ c \in OfPhase(s)
      BY <2>3 DEF ContainersFit, Housed
    <3>2. c[1] = order[s] /\ c[1] \in Orders /\ c[1] # NoOrder
      BY <3>1, HasOrder DEF OfPhase, InContainers
    <3>3. c[1] = target
      BY DEF KillFits, OfJob
    <3>4. At(c[1], InEngine) /\ ~At(c[1], {"leaveRunner", "answer"})
      <4>1. SlotsFit /\ at[s] \in InEngine /\ at[s] \notin {"leaveRunner", "answer"}
        BY <3>1 DEF InEngine, InContainers
      <4> QED
        BY <3>2, <4>1, Stands
    <3>5. answers[c[1]] = <<>>
      BY <3>2 DEF OrdersFit, Kept, IsHeld
    <3>6. c[1] \in cancelled
      BY <3>2, <3>3, <3>4 DEF BooksFit, Booked, KillFits
    <3> QED
      BY <2>1, <3>3, <3>4, <3>5, <3>6 DEF Excused, KillFits, At
  <2>4. killed' = IF c \in alive THEN killed \cup {c[1]} ELSE killed
    OBVIOUS
  <2> QED
    BY <2>2, <2>3, <2>4 DEF KilledFit
<1>8. JoinFits'
  BY DEF JoinFits
<1> QED
  BY <1>1, <1>2, <1>3, <1>4, <1>5, <1>6, <1>7, <1>8

LEMMA BackgroundEndsKeeps ==
  ASSUME SessionAssumption, SessionInv, NEW c \in Containers, BackgroundEnds(c)
  PROVE  SessionInv'
<1> USE DEF SessionInv, BackgroundEnds, readerVars, sessionVars, slotVars, engineVars
<1>1. TypeOK'
  BY DEF TypeOK
<1>2. SlotsFit'
  BY DEF SlotsFit, SlotFits, StepsNow
<1>3. OrdersFit'
  BY DEF OrdersFit, Kept, IsQueued, IsHeld
<1>4. BooksFit'
  BY DEF BooksFit, Booked, IsHeld, At
<1>5. ContainersFit'
  BY DEF ContainersFit, Housed, OfPhase, StepsNow
<1>6. KillFits'
  BY DEF KillFits, Begun, At
<1>7. KilledFit'
  BY DEF KilledFit, Excused, Begun, At
<1>8. JoinFits'
  BY DEF JoinFits
<1> QED
  BY <1>1, <1>2, <1>3, <1>4, <1>5, <1>6, <1>7, <1>8


-----------------------------------------------------------------------------
(* A slot's steps.                                                           *)

LEMMA LeaveKeeps ==
  ASSUME SessionAssumption, SessionInv, NEW s \in Slots, Leave(s)
  PROVE  SessionInv'
<1> USE DEF SessionInv, Leave, Goes, Awake, readerVars, sessionVars, slotVars, engineVars
<1>1. TypeOK'
  BY DEF TypeOK, Stages
<1>2. SlotsFit'
  BY DEF TypeOK, SlotsFit, SlotFits, StepsNow, InEngine
<1>3. OrdersFit'
  BY DEF OrdersFit, Kept, IsQueued, IsHeld
<1>4. BooksFit'
  BY DEF TypeOK, SlotsFit, SlotFits, BooksFit, Booked, At, InRunner, InEngine,
     IsHeld, OfPhase, StepsNow, OfJob, Steps
<1>5. ContainersFit'
  BY DEF ContainersFit, Housed, OfPhase, StepsNow, InContainers
<1>6. KillFits'
  BY DEF TypeOK, KillFits, Begun, At, PastPrepare, InEngine
<1>7. KilledFit'
  BY DEF TypeOK, SlotsFit, SlotFits, BooksFit, Booked, KilledFit, Excused, Begun, At,
     InRunner, InEngine, PastPrepare, IsHeld
<1>8. JoinFits'
  BY DEF JoinFits
<1> QED
  BY <1>1, <1>2, <1>3, <1>4, <1>5, <1>6, <1>7, <1>8

LEMMA TakeKeeps ==
  ASSUME SessionAssumption, SessionInv, NEW s \in Slots, Take(s)
  PROVE  SessionInv'
<1> USE DEF SessionInv, Take, Goes, Awake, readerVars, sessionVars, slotVars, engineVars
<1> DEFINE o == Head(queue)
<1>0. /\ o \in Orders /\ o # NoOrder /\ queue' \in Seq(Orders) /\ IsInjective(queue')
      /\ Among(queue, o) /\ \A x : Among(queue', x) <=> Among(queue, x) /\ x # o
  <2>1. queue \in Seq(Orders) /\ IsInjective(queue) /\ queue # <<>> /\ queue' = Tail(queue)
    BY DEF TypeOK, OrdersFit
  <2> QED
    BY <2>1, QueueTaken DEF SessionAssumption
<1>a. ~IsHeld(o) /\ answers[o] = <<>> /\ o \notin cancels /\ o \in orders
  BY <1>0 DEF OrdersFit, Kept, IsQueued
<1>b. /\ order[s] = NoOrder /\ order'[s] = o /\ at'[s] = "taken" /\ running' = running \cup {o}
      /\ \A t \in Slots : t # s => order'[t] = order[t] /\ at'[t] = at[t]
  BY DEF TypeOK, SlotsFit, SlotFits
<1> HIDE DEF o
<1>c. \A x \in Orders : IsHeld(x)' <=> IsHeld(x) \/ x = o
  BY <1>0, <1>b DEF IsHeld, SessionAssumption
<1>1. TypeOK'
  BY <1>0 DEF TypeOK, Stages
<1>2. SlotsFit'
  BY <1>0, <1>a, <1>b, SMTT(30) DEF SlotsFit, SlotFits, IsHeld, StepsNow, InEngine
<1>3. OrdersFit'
  <2>1. \A x \in Orders : Kept(x)'
    BY <1>0, <1>a, <1>c DEF TypeOK, OrdersFit, Kept, IsQueued
  <2> QED
    BY <1>0, <2>1 DEF OrdersFit
<1>4. BooksFit'
  <2> SUFFICES ASSUME NEW x \in Orders
               PROVE  Booked(x)'
    BY DEF BooksFit
  <2>1. Booked(x) /\ x # NoOrder
    BY DEF BooksFit, SessionAssumption
  <2>2. At(x, InRunner)' <=> At(x, InRunner)
    BY <1>b, <2>1 DEF At, InRunner, InEngine
  <2>3. At(x, InEngine)' <=> At(x, InEngine)
    BY <1>b, <2>1 DEF At, InEngine
  <2> QED
    BY <1>b, <1>c, <2>1, <2>2, <2>3 DEF Booked, OfJob
<1>5. ContainersFit'
  BY <1>0 DEF TypeOK, ContainersFit, Housed, OfPhase, StepsNow, InContainers
<1>6. KillFits'
  BY <1>0 DEF TypeOK, KillFits, Begun, At, PastPrepare, InEngine
<1>7. KilledFit'
  BY <1>0 DEF TypeOK, SlotsFit, SlotFits, BooksFit, Booked, KilledFit, Excused,
     Begun, At, InRunner, InEngine, PastPrepare, IsHeld
<1>8. JoinFits'
  BY <1>0 DEF JoinFits
<1> QED
  BY <1>1, <1>2, <1>3, <1>4, <1>5, <1>6, <1>7, <1>8

LEMMA SleepKeeps ==
  ASSUME SessionAssumption, SessionInv, NEW s \in Slots, Sleep(s)
  PROVE  SessionInv'
<1> USE DEF SessionInv, Sleep, Goes, Awake, readerVars, sessionVars, slotVars, engineVars
<1>1. TypeOK'
  BY DEF TypeOK
<1>2. SlotsFit'
  BY DEF SlotsFit, SlotFits, StepsNow
<1>3. OrdersFit'
  BY DEF OrdersFit, Kept, IsQueued, IsHeld
<1>4. BooksFit'
  BY DEF BooksFit, Booked, IsHeld, At
<1>5. ContainersFit'
  BY DEF ContainersFit, Housed, OfPhase, StepsNow
<1>6. KillFits'
  BY DEF KillFits, Begun, At
<1>7. KilledFit'
  BY DEF KilledFit, Excused, Begun, At
<1>8. JoinFits'
  BY DEF JoinFits
<1> QED
  BY <1>1, <1>2, <1>3, <1>4, <1>5, <1>6, <1>7, <1>8

LEMMA RefuseOrderKeeps ==
  ASSUME SessionAssumption, SessionInv, NEW s \in Slots, RefuseOrder(s)
  PROVE  SessionInv'
<1> USE DEF SessionInv, RefuseOrder, Goes, Concludes, readerVars, sessionVars, slotVars, engineVars
<1>0. order[s] \in Orders /\ order[s] # NoOrder
  BY HasOrder
<1>a. at' = [at EXCEPT ![s] = "answer"] /\ order' = order /\ killed' = killed /\ answers' = answers
  OBVIOUS
<1>b. ~Begun(order[s])
  <2>1. at[s] \notin PastPrepare
    BY DEF PastPrepare, InEngine
  <2>2. ~At(order[s], PastPrepare)
    BY <1>0, <2>1, Stands
  <2>3. answers[order[s]] = <<>>
    BY <1>0 DEF OrdersFit, Kept, IsHeld
  <2> QED
    BY <2>2, <2>3 DEF Begun
<1>1. TypeOK'
  BY <1>0 DEF TypeOK, Stages, Verdicts
<1>2. SlotsFit'
  BY <1>0 DEF TypeOK, SlotsFit, SlotFits, StepsNow, InEngine
<1>3. OrdersFit'
  BY <1>0 DEF OrdersFit, Kept, IsQueued, IsHeld
<1>4. BooksFit'
  <2>1. \A x \in Orders : /\ x \in runner' <=> IF x = order[s] THEN "answer" \in InRunner ELSE x \in runner
                          /\ x \in inFlight' <=> IF x = order[s] THEN "answer" \in InEngine ELSE x \in inFlight
    BY <1>0, Stands DEF BooksFit, Booked, InRunner, InEngine
  <2>2. \A x \in Orders : x \in cancelled' => x \in cancelled /\ x \in inFlight'
    BY <1>0 DEF BooksFit, Booked
  <2>3. \A x \in Orders : names'[x] \subseteq OfJob(x)
    BY <1>0, PhaseFits DEF TypeOK, BooksFit, Booked, InEngine
  <2> QED
    BY <1>0, <1>a, <2>1, <2>2, <2>3, BooksMove
<1>5. ContainersFit'
  BY <1>0 DEF TypeOK, ContainersFit, Housed, OfPhase, StepsNow, InContainers
<1>6. KillFits'
  <2>1. reader = "kill" => Begun(target)'
    BY <1>a, BegunMoves DEF KillFits, PastPrepare, InEngine
  <2> QED
    BY <2>1 DEF KillFits
<1>7. KilledFit'
  <2>1. \A x \in killed : x \in inFlight' => x \in inFlight /\ (x \in cancelled => x \in cancelled')
    OBVIOUS
  <2>2. \A t \in Slots : t # s => verdict'[t] = verdict[t]
    BY DEF TypeOK
  <2>3. order[s] \in killed /\ "answer" \in {"leaveRunner", "answer"} => verdict'[s] = "cancelled"
    BY <1>b DEF KilledFit, Excused
  <2> QED
    BY <1>a, <2>1, <2>2, <2>3, KilledMove DEF InEngine, PastPrepare
<1>8. JoinFits'
  BY <1>0 DEF JoinFits
<1> QED
  BY <1>1, <1>2, <1>3, <1>4, <1>5, <1>6, <1>7, <1>8

LEMMA RegisterOrderKeeps ==
  ASSUME SessionAssumption, SessionInv, NEW s \in Slots, RegisterOrder(s)
  PROVE  SessionInv'
<1> USE DEF SessionInv, RegisterOrder, Goes, readerVars, sessionVars, slotVars, engineVars
<1>0. order[s] \in Orders /\ order[s] # NoOrder
  BY HasOrder
<1>a. at' = [at EXCEPT ![s] = "prepare"] /\ order' = order /\ killed' = killed /\ answers' = answers
  OBVIOUS
<1>1. TypeOK'
  BY <1>0 DEF TypeOK, Stages
<1>2. SlotsFit'
  BY <1>0 DEF TypeOK, SlotsFit, SlotFits, StepsNow, InEngine
<1>3. OrdersFit'
  BY <1>0 DEF OrdersFit, Kept, IsQueued, IsHeld
<1>4. BooksFit'
  <2>1. \A x \in Orders : /\ x \in runner' <=> IF x = order[s] THEN "prepare" \in InRunner ELSE x \in runner
                          /\ x \in inFlight' <=> IF x = order[s] THEN "prepare" \in InEngine ELSE x \in inFlight
    BY <1>0, Stands DEF BooksFit, Booked, InRunner, InEngine
  <2>2. \A x \in Orders : x \in cancelled' => x \in cancelled /\ x \in inFlight'
    BY <1>0 DEF BooksFit, Booked
  <2>3. \A x \in Orders : names'[x] \subseteq OfJob(x)
    BY <1>0, PhaseFits DEF TypeOK, BooksFit, Booked, InEngine
  <2> QED
    BY <1>0, <1>a, <2>1, <2>2, <2>3, BooksMove
<1>5. ContainersFit'
  BY <1>0 DEF TypeOK, ContainersFit, Housed, OfPhase, StepsNow, InContainers
<1>6. KillFits'
  <2>1. reader = "kill" => Begun(target)'
    BY <1>a, BegunMoves DEF KillFits, PastPrepare, InEngine
  <2> QED
    BY <2>1 DEF KillFits
<1>7. KilledFit'
  <2>1. \A x \in killed : x \in inFlight' => x \in inFlight /\ (x \in cancelled => x \in cancelled')
    OBVIOUS
  <2>2. \A t \in Slots : t # s => verdict'[t] = verdict[t]
    BY DEF TypeOK
  <2>3. order[s] \in killed /\ "prepare" \in {"leaveRunner", "answer"} => verdict'[s] = "cancelled"
    BY Stands, <1>0 DEF KilledFit, Excused, Begun, TypeOK, BooksFit, Booked,
       OrdersFit, Kept, IsHeld, InEngine, PastPrepare
  <2> QED
    BY <1>a, <2>1, <2>2, <2>3, KilledMove DEF InEngine, PastPrepare
<1>8. JoinFits'
  BY <1>0 DEF JoinFits
<1> QED
  BY <1>1, <1>2, <1>3, <1>4, <1>5, <1>6, <1>7, <1>8

LEMMA PrepareFailsKeeps ==
  ASSUME SessionAssumption, SessionInv, NEW s \in Slots, PrepareFails(s)
  PROVE  SessionInv'
<1> USE DEF SessionInv, PrepareFails, Goes, Concludes, readerVars, sessionVars, slotVars, engineVars
<1>0. order[s] \in Orders /\ order[s] # NoOrder
  BY HasOrder
<1>a. at' = [at EXCEPT ![s] = "leaveRunner"] /\ order' = order /\ killed' = killed /\ answers' = answers
  OBVIOUS
<1>b. ~Begun(order[s])
  <2>1. at[s] \notin PastPrepare
    BY DEF PastPrepare, InEngine
  <2>2. ~At(order[s], PastPrepare)
    BY <1>0, <2>1, Stands
  <2>3. answers[order[s]] = <<>>
    BY <1>0 DEF OrdersFit, Kept, IsHeld
  <2> QED
    BY <2>2, <2>3 DEF Begun
<1>1. TypeOK'
  BY <1>0 DEF TypeOK, Stages, Verdicts
<1>2. SlotsFit'
  BY <1>0 DEF TypeOK, SlotsFit, SlotFits, StepsNow, InEngine
<1>3. OrdersFit'
  BY <1>0 DEF OrdersFit, Kept, IsQueued, IsHeld
<1>4. BooksFit'
  <2>1. \A x \in Orders : /\ x \in runner' <=> IF x = order[s] THEN "leaveRunner" \in InRunner ELSE x \in runner
                          /\ x \in inFlight' <=> IF x = order[s] THEN "leaveRunner" \in InEngine ELSE x \in inFlight
    BY <1>0, Stands DEF BooksFit, Booked, InRunner, InEngine
  <2>2. \A x \in Orders : x \in cancelled' => x \in cancelled /\ x \in inFlight'
    BY <1>0 DEF BooksFit, Booked
  <2>3. \A x \in Orders : names'[x] \subseteq OfJob(x)
    BY <1>0, PhaseFits DEF TypeOK, BooksFit, Booked, InEngine
  <2> QED
    BY <1>0, <1>a, <2>1, <2>2, <2>3, BooksMove
<1>5. ContainersFit'
  BY <1>0 DEF TypeOK, ContainersFit, Housed, OfPhase, StepsNow, InContainers
<1>6. KillFits'
  <2>1. reader = "kill" => Begun(target)'
    BY <1>a, BegunMoves DEF KillFits, PastPrepare, InEngine
  <2> QED
    BY <2>1 DEF KillFits
<1>7. KilledFit'
  <2>1. \A x \in killed : x \in inFlight' => x \in inFlight /\ (x \in cancelled => x \in cancelled')
    OBVIOUS
  <2>2. \A t \in Slots : t # s => verdict'[t] = verdict[t]
    BY DEF TypeOK
  <2>3. order[s] \in killed /\ "leaveRunner" \in {"leaveRunner", "answer"} => verdict'[s] = "cancelled"
    BY <1>b DEF KilledFit, Excused
  <2> QED
    BY <1>a, <2>1, <2>2, <2>3, KilledMove DEF InEngine, PastPrepare
<1>8. JoinFits'
  BY <1>0 DEF JoinFits
<1> QED
  BY <1>1, <1>2, <1>3, <1>4, <1>5, <1>6, <1>7, <1>8

LEMMA FlyKeeps ==
  ASSUME SessionAssumption, SessionInv, NEW s \in Slots, Fly(s)
  PROVE  SessionInv'
<1> USE DEF SessionInv, Fly, Goes, readerVars, sessionVars, slotVars, engineVars
<1>0. order[s] \in Orders /\ order[s] # NoOrder
  BY HasOrder
<1>a. at' = [at EXCEPT ![s] = "begin"] /\ order' = order /\ killed' = killed /\ answers' = answers
  OBVIOUS
<1>b. ~Begun(order[s])
  <2>1. at[s] \notin PastPrepare
    BY DEF PastPrepare, InEngine
  <2>2. ~At(order[s], PastPrepare)
    BY <1>0, <2>1, Stands
  <2>3. answers[order[s]] = <<>>
    BY <1>0 DEF OrdersFit, Kept, IsHeld
  <2> QED
    BY <2>2, <2>3 DEF Begun
<1>1. TypeOK'
  BY <1>0 DEF TypeOK, Stages
<1>2. SlotsFit'
  BY <1>0 DEF TypeOK, SlotsFit, SlotFits, StepsNow
<1>3. OrdersFit'
  BY <1>0 DEF OrdersFit, Kept, IsQueued, IsHeld
<1>4. BooksFit'
  <2>1. \A x \in Orders : /\ x \in runner' <=> IF x = order[s] THEN "begin" \in InRunner ELSE x \in runner
                          /\ x \in inFlight' <=> IF x = order[s] THEN "begin" \in InEngine ELSE x \in inFlight
    <3>1. at[s] \in InRunner /\ "begin" \in InRunner /\ "begin" \in InEngine
      BY DEF InRunner, InEngine
    <3>2. At(order[s], InRunner)
      BY <1>0, <3>1, Stands
    <3>3. order[s] \in runner
      BY <1>0, <3>2 DEF BooksFit, Booked
    <3> QED
      BY <1>0, <3>1, <3>3
  <2>2. \A x \in Orders : x \in cancelled' => x \in cancelled /\ x \in inFlight'
    BY <1>0 DEF BooksFit, Booked
  <2>3. \A x \in Orders : names'[x] \subseteq OfJob(x)
    BY <1>0, PhaseFits DEF TypeOK, BooksFit, Booked, InEngine
  <2> QED
    BY <1>0, <1>a, <2>1, <2>2, <2>3, BooksMove
<1>5. ContainersFit'
  <2>1. \A t \in Slots : at'[t] \in InContainers <=> at[t] \in InContainers /\ t # s
    BY DEF TypeOK, InContainers
  <2>2. \A t \in Slots : t # s => OfPhase(t)' = OfPhase(t)
    BY DEF OfPhase, StepsNow, TypeOK
  <2>3. \A t \in Slots : t # s => names'[order[t]] = names[order[t]]
    BY <1>0 DEF TypeOK, SlotsFit
  <2>4. at[s] \notin InContainers
    BY DEF InContainers
  <2> QED
    BY <2>1, <2>2, <2>3, <2>4 DEF ContainersFit, Housed
<1>6. KillFits'
  <2>1. reader = "kill" => Begun(target)'
    BY <1>a, BegunMoves DEF KillFits, PastPrepare, InEngine
  <2>2. reader = "kill" => target # order[s]
    BY <1>b DEF KillFits
  <2>3. target # order[s] => /\ (target \in inFlight' => target \in inFlight)
                             /\ (target \in cancelled => target \in cancelled')
    OBVIOUS
  <2> QED
    BY <2>1, <2>2, <2>3 DEF KillFits
<1>7. KilledFit'
  <2>1. \A x \in killed : x \in inFlight' => x \in inFlight /\ (x \in cancelled => x \in cancelled')
    <3>1. order[s] \notin killed
      BY <1>b DEF KilledFit, Excused
    <3> QED
      BY <3>1
  <2>2. \A t \in Slots : t # s => verdict'[t] = verdict[t]
    OBVIOUS
  <2> QED
    BY <1>a, <2>1, <2>2, KilledMove DEF InEngine, PastPrepare
<1>8. JoinFits'
  BY <1>0 DEF JoinFits
<1> QED
  BY <1>1, <1>2, <1>3, <1>4, <1>5, <1>6, <1>7, <1>8

LEMMA BeginPhaseKeeps ==
  ASSUME SessionAssumption, SessionInv, NEW s \in Slots, BeginPhase(s)
  PROVE  SessionInv'
<1> USE DEF SessionInv, BeginPhase, Goes, readerVars, sessionVars, slotVars, engineVars
<1>0. order[s] \in Orders /\ order[s] # NoOrder
  BY HasOrder
<1>a. at' = [at EXCEPT ![s] = "start"] /\ order' = order /\ killed' = killed /\ answers' = answers
  OBVIOUS
<1>1. TypeOK'
  <2>1. names' \in [Orders -> SUBSET Containers]
    BY <1>0, PhaseFits DEF TypeOK, InEngine
  <2> QED
    BY <2>1 DEF TypeOK, Stages, TornDown
<1>2. SlotsFit'
  BY <1>0 DEF TypeOK, SlotsFit, SlotFits, StepsNow, InEngine
<1>3. OrdersFit'
  BY <1>0 DEF OrdersFit, Kept, IsQueued, IsHeld
<1>4. BooksFit'
  <2>1. \A x \in Orders : /\ x \in runner' <=> IF x = order[s] THEN "start" \in InRunner ELSE x \in runner
                          /\ x \in inFlight' <=> IF x = order[s] THEN "start" \in InEngine ELSE x \in inFlight
    BY <1>0, Stands DEF BooksFit, Booked, InRunner, InEngine
  <2>2. \A x \in Orders : x \in cancelled' => x \in cancelled /\ x \in inFlight'
    BY <1>0 DEF BooksFit, Booked
  <2>3. \A x \in Orders : names'[x] \subseteq OfJob(x)
    BY <1>0, PhaseFits DEF TypeOK, BooksFit, Booked, InEngine
  <2> QED
    BY <1>0, <1>a, <2>1, <2>2, <2>3, BooksMove
<1>5. ContainersFit'
  <2>1. \A t \in Slots : at'[t] \in InContainers <=> at[t] \in InContainers \/ t = s
    BY DEF TypeOK, InContainers
  <2>2. \A t \in Slots : OfPhase(t)' = OfPhase(t)
    BY DEF OfPhase, StepsNow
  <2>3. names[order[s]] \cup OfPhase(s) = names'[order[s]]
    BY <1>0 DEF TypeOK
  <2>4. \A t \in Slots : t # s => names'[order[t]] = names[order[t]]
    BY <1>0 DEF TypeOK, SlotsFit
  <2> QED
    BY <2>1, <2>2, <2>3, <2>4 DEF ContainersFit, Housed, TornDown
<1>6. KillFits'
  <2>1. reader = "kill" => Begun(target)'
    BY <1>a, BegunMoves DEF KillFits, PastPrepare, InEngine
  <2> QED
    BY <2>1 DEF KillFits
<1>7. KilledFit'
  <2>1. \A x \in killed : x \in inFlight' => x \in inFlight /\ (x \in cancelled => x \in cancelled')
    OBVIOUS
  <2>2. \A t \in Slots : t # s => verdict'[t] = verdict[t]
    BY DEF TypeOK
  <2>3. order[s] \in killed /\ "start" \in {"leaveRunner", "answer"} => verdict'[s] = "cancelled"
    BY Stands, <1>0 DEF KilledFit, Excused, Begun, TypeOK, BooksFit, Booked,
       OrdersFit, Kept, IsHeld, InEngine, PastPrepare
  <2> QED
    BY <1>a, <2>1, <2>2, <2>3, KilledMove DEF InEngine, PastPrepare
<1>8. JoinFits'
  BY <1>0 DEF JoinFits
<1> QED
  BY <1>1, <1>2, <1>3, <1>4, <1>5, <1>6, <1>7, <1>8

LEMMA StartStepKeeps ==
  ASSUME SessionAssumption, SessionInv, NEW s \in Slots, StartStep(s)
  PROVE  SessionInv'
<1> USE DEF SessionInv, StartStep, Goes, readerVars, sessionVars
<1>1. order[s] \in Orders /\ order[s] # NoOrder
  BY HasOrder
<1>2. /\ step[s] \in DOMAIN StepsNow(s) /\ Container(s) \in OfPhase(s)
      /\ Container(s) \in Containers
      /\ StepsNow(s) \in Seq(Steps) \ {<<>>}
  BY PhaseFits DEF SlotsFit, SlotFits, InEngine
<1>3. /\ alive' = alive \cup {Container(s)} /\ at[s] = "start"
      /\ \A t \in Slots : t # s => at'[t] = at[t] /\ step'[t] = step[t]
      /\ \A t \in Slots : StepsNow(t)' = StepsNow(t) /\ OfPhase(t)' = OfPhase(t)
  BY DEF TypeOK, StepsNow, OfPhase
<1>4. \/ at' = [at EXCEPT ![s] = "run"] /\ step' = step
      \/ at' = at /\ step'[s] = step[s] + 1 /\ step[s] # Len(StepsNow(s)) /\ step' \in [Slots -> Nat]
  <2>1. CASE InForeground(s)
    BY <2>1
  <2>2. CASE ~InForeground(s)
    <3>1. at' = at /\ step' = [step EXCEPT ![s] = step[s] + 1] /\ step[s] # Len(StepsNow(s))
      BY <2>2 DEF InForeground
    <3>2. step \in [Slots -> Nat]
      BY DEF TypeOK
    <3> HIDE DEF StartStep, SessionInv
    <3> QED
      BY <3>1, <3>2
  <2> QED
    BY <2>1, <2>2
<1>5. TypeOK'
  BY <1>2, <1>3, <1>4 DEF TypeOK, Stages
<1>6. SlotsFit'
  <2>1. Len(StepsNow(s)) \in Nat /\ DOMAIN StepsNow(s) = 1 .. Len(StepsNow(s))
    BY <1>2, LenProperties
  <2>2. step'[s] \in DOMAIN StepsNow(s)
    BY <1>2, <1>4, <2>1
  <2>3. at'[s] \in {"start", "run"}
    BY <1>3, <1>4 DEF TypeOK
  <2> QED
    BY <1>1, <1>3, <2>2, <2>3 DEF SlotsFit, SlotFits, InEngine
<1>7. OrdersFit'
  BY DEF OrdersFit, Kept, IsQueued, IsHeld
<1>8. \A o \in Orders : \A T : ("run" \in T <=> "start" \in T) => (At(o, T)' <=> At(o, T))
  BY <1>3, <1>4 DEF At, TypeOK
<1>9. BooksFit'
  <2>1. \A o \in Orders : (At(o, InRunner)' <=> At(o, InRunner)) /\ (At(o, InEngine)' <=> At(o, InEngine))
    BY <1>8 DEF InRunner, InEngine
  <2> QED
    BY <2>1 DEF BooksFit, Booked, IsHeld, OfJob
<1>10. ContainersFit'
  <2>1. \A t \in Slots : at'[t] \in InContainers <=> at[t] \in InContainers
    BY <1>3, <1>4 DEF TypeOK, InContainers
  <2> QED
    BY <1>2, <1>3, <2>1 DEF ContainersFit, Housed, InContainers
<1>11. \A o \in Orders : Begun(o)' <=> Begun(o)
  <2>1. \A o \in Orders : At(o, PastPrepare)' <=> At(o, PastPrepare)
    BY <1>8 DEF PastPrepare, InEngine
  <2> QED
    BY <2>1 DEF Begun
<1>12. KillFits'
  BY <1>11 DEF KillFits
<1>13. KilledFit'
  <2>1. \A t \in Slots : at'[t] \in {"leaveRunner", "answer"} <=> at[t] \in {"leaveRunner", "answer"}
    BY <1>3, <1>4 DEF TypeOK
  <2> QED
    BY <1>11, <2>1 DEF KilledFit, Excused, TypeOK
<1>14. JoinFits'
  BY <1>3 DEF JoinFits
<1> QED
  BY <1>5, <1>6, <1>7, <1>9, <1>10, <1>12, <1>13, <1>14

LEMMA StartFailsKeeps ==
  ASSUME SessionAssumption, SessionInv, NEW s \in Slots, StartFails(s)
  PROVE  SessionInv'
<1> USE DEF SessionInv, StartFails, Goes, Concludes, readerVars, sessionVars, slotVars, engineVars
<1>0. order[s] \in Orders /\ order[s] # NoOrder
  BY HasOrder
<1>a. at' = [at EXCEPT ![s] = "finish"] /\ order' = order /\ killed' = killed /\ answers' = answers
  OBVIOUS
<1>1. TypeOK'
  BY <1>0 DEF TypeOK, Stages, Verdicts, TornDown
<1>2. SlotsFit'
  BY <1>0 DEF TypeOK, SlotsFit, SlotFits, StepsNow, InEngine
<1>3. OrdersFit'
  BY <1>0 DEF OrdersFit, Kept, IsQueued, IsHeld
<1>4. BooksFit'
  <2>1. \A x \in Orders : /\ x \in runner' <=> IF x = order[s] THEN "finish" \in InRunner ELSE x \in runner
                          /\ x \in inFlight' <=> IF x = order[s] THEN "finish" \in InEngine ELSE x \in inFlight
    BY <1>0, Stands DEF BooksFit, Booked, InRunner, InEngine
  <2>2. \A x \in Orders : x \in cancelled' => x \in cancelled /\ x \in inFlight'
    BY <1>0 DEF BooksFit, Booked
  <2>3. \A x \in Orders : names'[x] \subseteq OfJob(x)
    BY <1>0, PhaseFits DEF TypeOK, BooksFit, Booked, InEngine
  <2> QED
    BY <1>0, <1>a, <2>1, <2>2, <2>3, BooksMove
<1>5. ContainersFit'
  BY <1>0 DEF TypeOK, ContainersFit, Housed, OfPhase, StepsNow, InContainers, TornDown
<1>6. KillFits'
  <2>1. reader = "kill" => Begun(target)'
    BY <1>a, BegunMoves DEF KillFits, PastPrepare, InEngine
  <2> QED
    BY <2>1 DEF KillFits
<1>7. KilledFit'
  <2>1. \A x \in killed : x \in inFlight' => x \in inFlight /\ (x \in cancelled => x \in cancelled')
    OBVIOUS
  <2>2. \A t \in Slots : t # s => verdict'[t] = verdict[t]
    BY DEF TypeOK
  <2>3. order[s] \in killed /\ "finish" \in {"leaveRunner", "answer"} => verdict'[s] = "cancelled"
    BY Stands, <1>0 DEF KilledFit, Excused, Begun, TypeOK, BooksFit, Booked,
       OrdersFit, Kept, IsHeld, InEngine, PastPrepare
  <2> QED
    BY <1>a, <2>1, <2>2, <2>3, KilledMove DEF InEngine, PastPrepare
<1>8. JoinFits'
  BY <1>0 DEF JoinFits
<1> QED
  BY <1>1, <1>2, <1>3, <1>4, <1>5, <1>6, <1>7, <1>8

LEMMA StepEndsKeeps ==
  ASSUME SessionAssumption, SessionInv, NEW s \in Slots, StepEnds(s)
  PROVE  SessionInv'
<1> USE DEF SessionInv, StepEnds, Goes, Concludes, readerVars, sessionVars, slotVars, engineVars
<1>0. order[s] \in Orders /\ order[s] # NoOrder
  BY HasOrder
<1>a. at' = [at EXCEPT ![s] = "drain"] /\ order' = order /\ killed' = killed /\ answers' = answers
  OBVIOUS
<1>1. TypeOK'
  BY <1>0 DEF TypeOK, Stages, Verdicts
<1>2. SlotsFit'
  BY <1>0 DEF TypeOK, SlotsFit, SlotFits, StepsNow, InEngine
<1>3. OrdersFit'
  BY <1>0 DEF OrdersFit, Kept, IsQueued, IsHeld
<1>4. BooksFit'
  <2>1. \A x \in Orders : /\ x \in runner' <=> IF x = order[s] THEN "drain" \in InRunner ELSE x \in runner
                          /\ x \in inFlight' <=> IF x = order[s] THEN "drain" \in InEngine ELSE x \in inFlight
    <3>1. at[s] \in InRunner /\ "drain" \in InRunner /\ "drain" \in InEngine
      BY DEF InRunner, InEngine
    <3>2. At(order[s], InRunner)
      BY <1>0, <3>1, Stands
    <3>3. order[s] \in runner
      BY <1>0, <3>2 DEF BooksFit, Booked
    <3>4. At(order[s], InEngine)
      <4>1. at[s] \in InEngine
        BY DEF InEngine
      <4> QED
        BY <1>0, <4>1, Stands
    <3>5. order[s] \in inFlight
      BY <1>0, <3>4 DEF BooksFit, Booked
    <3> QED
      BY <1>0, <3>1, <3>3, <3>5
  <2>2. \A x \in Orders : x \in cancelled' => x \in cancelled /\ x \in inFlight'
    BY <1>0 DEF BooksFit, Booked
  <2>3. \A x \in Orders : names'[x] \subseteq OfJob(x)
    BY <1>0, PhaseFits DEF TypeOK, BooksFit, Booked, InEngine
  <2> QED
    BY <1>0, <1>a, <2>1, <2>2, <2>3, BooksMove
<1>5. ContainersFit'
  BY <1>0 DEF TypeOK, ContainersFit, Housed, OfPhase, StepsNow, InContainers
<1>6. KillFits'
  <2>1. reader = "kill" => Begun(target)'
    BY <1>a, BegunMoves DEF KillFits, PastPrepare, InEngine
  <2> QED
    BY <2>1 DEF KillFits
<1>7. KilledFit'
  <2>1. \A x \in killed : x \in inFlight' => x \in inFlight /\ (x \in cancelled => x \in cancelled')
    OBVIOUS
  <2>2. \A t \in Slots : t # s => verdict'[t] = verdict[t]
    BY DEF TypeOK
  <2>3. order[s] \in killed /\ "drain" \in {"leaveRunner", "answer"} => verdict'[s] = "cancelled"
    BY Stands, <1>0 DEF KilledFit, Excused, Begun, TypeOK, BooksFit, Booked,
       OrdersFit, Kept, IsHeld, InEngine, PastPrepare
  <2> QED
    BY <1>a, <2>1, <2>2, <2>3, KilledMove DEF InEngine, PastPrepare
<1>8. JoinFits'
  BY <1>0 DEF JoinFits
<1> QED
  BY <1>1, <1>2, <1>3, <1>4, <1>5, <1>6, <1>7, <1>8

LEMMA EndPhaseKeeps ==
  ASSUME SessionAssumption, SessionInv, NEW s \in Slots, EndPhase(s)
  PROVE  SessionInv'
<1> USE DEF SessionInv, EndPhase, Goes, readerVars, sessionVars
<1>1. order[s] \in Orders /\ order[s] # NoOrder
  BY HasOrder
<1>2. PICK st \in {"begin", "finish"} :
        /\ at' = [at EXCEPT ![s] = st]
        /\ phase' \in [Slots -> Nat] /\ phase'[s] \in DOMAIN PhasesOf[order[s]]
        /\ \A t \in Slots : t # s => phase'[t] = phase[t]
  <2>1. phase[s] \in DOMAIN PhasesOf[order[s]] /\ phase[s] \in Nat
    BY DEF TypeOK, SlotsFit, SlotFits, InEngine
  <2>2. CASE verdict[s] = "ok" /\ phase[s] < Len(PhasesOf[order[s]])
    <3>1. at' = [at EXCEPT ![s] = "begin"] /\ phase' = [phase EXCEPT ![s] = @ + 1]
      BY <2>2
    <3>2. PhasesOf[order[s]] \in Seq(DOMAIN StepsOf)
      BY <1>1 DEF SessionAssumption
    <3>3. phase[s] + 1 \in DOMAIN PhasesOf[order[s]]
      BY <2>1, <2>2, <3>2, LenProperties
    <3> QED
      BY <2>1, <3>1, <3>3 DEF TypeOK
  <2>3. CASE ~(verdict[s] = "ok" /\ phase[s] < Len(PhasesOf[order[s]]))
    BY <2>1, <2>3 DEF TypeOK
  <2> QED
    BY <2>2, <2>3
<1>3. /\ alive' = TornDown(s) /\ at[s] = "drain" /\ at'[s] = st
      /\ \A t \in Slots : t # s => at'[t] = at[t]
      /\ \A t \in Slots : t # s => StepsNow(t)' = StepsNow(t) /\ OfPhase(t)' = OfPhase(t)
  BY <1>2 DEF TypeOK, StepsNow, OfPhase
<1>4. TypeOK'
  BY <1>2, <1>3 DEF TypeOK, Stages, TornDown
<1>5. SlotsFit'
  BY <1>1, <1>2, <1>3 DEF SlotsFit, SlotFits, InEngine
<1>6. OrdersFit'
  BY DEF OrdersFit, Kept, IsQueued, IsHeld
<1>7. \A o \in Orders : \A T : {"begin", "drain", "finish"} \subseteq T => (At(o, T)' <=> At(o, T))
  BY <1>3 DEF At
<1>8. BooksFit'
  <2>1. \A o \in Orders : (At(o, InRunner)' <=> At(o, InRunner)) /\ (At(o, InEngine)' <=> At(o, InEngine))
    BY <1>7 DEF InRunner, InEngine
  <2> QED
    BY <2>1 DEF BooksFit, Booked, IsHeld, OfJob
<1>9. ContainersFit'
  <2>1. \A t \in Slots : at'[t] \in InContainers <=> at[t] \in InContainers /\ t # s
    BY <1>3 DEF InContainers
  <2> QED
    BY <1>3, <2>1 DEF ContainersFit, Housed, TornDown
<1>10. \A o \in Orders : Begun(o)' <=> Begun(o)
  <2>1. \A o \in Orders : At(o, PastPrepare)' <=> At(o, PastPrepare)
    BY <1>7 DEF PastPrepare, InEngine
  <2> QED
    BY <2>1 DEF Begun
<1>11. KillFits'
  BY <1>10 DEF KillFits
<1>12. KilledFit'
  <2>1. \A t \in Slots : at'[t] \in {"leaveRunner", "answer"} <=> at[t] \in {"leaveRunner", "answer"}
    BY <1>3
  <2> QED
    BY <1>10, <2>1 DEF KilledFit, Excused, TypeOK
<1>13. JoinFits'
  BY <1>3 DEF JoinFits
<1> QED
  BY <1>4, <1>5, <1>6, <1>8, <1>9, <1>11, <1>12, <1>13

LEMMA FinishKeeps ==
  ASSUME SessionAssumption, SessionInv, NEW s \in Slots, Finish(s)
  PROVE  SessionInv'
<1> USE DEF SessionInv, Finish, Goes, Concludes, readerVars, sessionVars, slotVars, engineVars
<1>0. order[s] \in Orders /\ order[s] # NoOrder
  BY HasOrder
<1>a. at' = [at EXCEPT ![s] = "leaveRunner"] /\ order' = order /\ killed' = killed /\ answers' = answers
  OBVIOUS
<1>1. TypeOK'
  BY <1>0 DEF TypeOK, Stages, Verdicts
<1>2. SlotsFit'
  BY <1>0 DEF TypeOK, SlotsFit, SlotFits, StepsNow, InEngine
<1>3. OrdersFit'
  BY <1>0 DEF OrdersFit, Kept, IsQueued, IsHeld
<1>4. BooksFit'
  <2>1. \A x \in Orders : /\ x \in runner' <=> IF x = order[s] THEN "leaveRunner" \in InRunner ELSE x \in runner
                          /\ x \in inFlight' <=> IF x = order[s] THEN "leaveRunner" \in InEngine ELSE x \in inFlight
    BY <1>0, Stands DEF BooksFit, Booked, InRunner, InEngine
  <2>2. \A x \in Orders : x \in cancelled' => x \in cancelled /\ x \in inFlight'
    BY <1>0 DEF BooksFit, Booked
  <2>3. \A x \in Orders : names'[x] \subseteq OfJob(x)
    BY <1>0, PhaseFits DEF TypeOK, BooksFit, Booked, InEngine
  <2> QED
    BY <1>0, <1>a, <2>1, <2>2, <2>3, BooksMove
<1>5. ContainersFit'
  <2>1. \A t \in Slots : at'[t] \in InContainers <=> at[t] \in InContainers /\ t # s
    BY DEF TypeOK, InContainers
  <2>2. \A t \in Slots : t # s => OfPhase(t)' = OfPhase(t)
    BY DEF OfPhase, StepsNow
  <2>3. \A t \in Slots : t # s => names'[order[t]] = names[order[t]]
    BY <1>0 DEF TypeOK, SlotsFit
  <2>4. at[s] \notin InContainers
    BY DEF InContainers
  <2>5. \A c \in alive' : c \in alive
    OBVIOUS
  <2> HIDE DEF Finish, Goes, Concludes
  <2>6. ASSUME NEW c \in alive'
        PROVE  Housed(c)'
    <3>1. PICK t \in Slots : at[t] \in InContainers /\ c \in OfPhase(t)
      BY <2>5 DEF ContainersFit, Housed
    <3> QED
      BY <2>1, <2>2, <2>4, <3>1 DEF Housed, InContainers
  <2>7. \A t \in Slots : at'[t] \in InContainers => OfPhase(t)' \subseteq names'[order'[t]]
    <3>1. order' = order
      BY <1>a
    <3> QED
      BY <2>1, <2>2, <2>3, <3>1 DEF ContainersFit
  <2> QED
    BY <2>6, <2>7 DEF ContainersFit, InContainers
<1>6. KillFits'
  <2>1. reader = "kill" => Begun(target)'
    BY <1>a, BegunMoves DEF KillFits, PastPrepare, InEngine
  <2>2. target \in inFlight' /\ reader = "kill" => target \in inFlight /\ (target \in cancelled => target \in cancelled')
    BY Stands, <1>0 DEF KillFits, Begun, BooksFit, Booked, OrdersFit, Kept, IsHeld,
       InEngine, PastPrepare
  <2> QED
    BY <2>1, <2>2 DEF KillFits
<1>7. KilledFit'
  <2>1. \A x \in killed : x \in inFlight' => x \in inFlight /\ (x \in cancelled => x \in cancelled')
    BY Stands, <1>0 DEF KilledFit, Excused, Begun, TypeOK, BooksFit, Booked,
       OrdersFit, Kept, IsHeld, InEngine, PastPrepare
  <2>2. \A t \in Slots : t # s => verdict'[t] = verdict[t]
    BY DEF TypeOK
  <2>3. order[s] \in killed /\ "leaveRunner" \in {"leaveRunner", "answer"} => verdict'[s] = "cancelled"
    BY Stands, <1>0 DEF KilledFit, Excused, Begun, TypeOK, BooksFit, Booked,
       OrdersFit, Kept, IsHeld, InEngine, PastPrepare
  <2> QED
    BY <1>a, <2>1, <2>2, <2>3, KilledMove DEF InEngine, PastPrepare
<1>8. JoinFits'
  BY <1>0 DEF JoinFits
<1> QED
  BY <1>1, <1>2, <1>3, <1>4, <1>5, <1>6, <1>7, <1>8

LEMMA LeaveRunnerKeeps ==
  ASSUME SessionAssumption, SessionInv, NEW s \in Slots, LeaveRunner(s)
  PROVE  SessionInv'
<1> USE DEF SessionInv, LeaveRunner, Goes, readerVars, sessionVars, slotVars, engineVars
<1>0. order[s] \in Orders /\ order[s] # NoOrder
  BY HasOrder
<1>a. at' = [at EXCEPT ![s] = "answer"] /\ order' = order /\ killed' = killed /\ answers' = answers
  OBVIOUS
<1>1. TypeOK'
  BY <1>0 DEF TypeOK, Stages
<1>2. SlotsFit'
  BY <1>0 DEF TypeOK, SlotsFit, SlotFits, StepsNow, InEngine
<1>3. OrdersFit'
  BY <1>0 DEF OrdersFit, Kept, IsQueued, IsHeld
<1>4. BooksFit'
  <2>1. \A x \in Orders : /\ x \in runner' <=> IF x = order[s] THEN "answer" \in InRunner ELSE x \in runner
                          /\ x \in inFlight' <=> IF x = order[s] THEN "answer" \in InEngine ELSE x \in inFlight
    BY <1>0, Stands DEF BooksFit, Booked, InRunner, InEngine
  <2>2. \A x \in Orders : x \in cancelled' => x \in cancelled /\ x \in inFlight'
    BY <1>0 DEF BooksFit, Booked
  <2>3. \A x \in Orders : names'[x] \subseteq OfJob(x)
    BY <1>0, PhaseFits DEF TypeOK, BooksFit, Booked, InEngine
  <2> QED
    BY <1>0, <1>a, <2>1, <2>2, <2>3, BooksMove
<1>5. ContainersFit'
  BY <1>0 DEF ContainersFit, Housed, OfPhase, StepsNow, InContainers
<1>6. KillFits'
  <2>1. reader = "kill" => Begun(target)'
    BY <1>a, BegunMoves DEF KillFits, PastPrepare, InEngine
  <2> QED
    BY <2>1 DEF KillFits
<1>7. KilledFit'
  <2>1. \A x \in killed : x \in inFlight' => x \in inFlight /\ (x \in cancelled => x \in cancelled')
    OBVIOUS
  <2>2. \A t \in Slots : t # s => verdict'[t] = verdict[t]
    BY DEF TypeOK
  <2>3. order[s] \in killed /\ "answer" \in {"leaveRunner", "answer"} => verdict'[s] = "cancelled"
    BY Stands, <1>0 DEF KilledFit, Excused, Begun, TypeOK, BooksFit, Booked,
       OrdersFit, Kept, IsHeld, InEngine, PastPrepare
  <2> QED
    BY <1>a, <2>1, <2>2, <2>3, KilledMove DEF InEngine, PastPrepare
<1>8. JoinFits'
  BY <1>0 DEF JoinFits
<1> QED
  BY <1>1, <1>2, <1>3, <1>4, <1>5, <1>6, <1>7, <1>8

LEMMA AnswerKeeps ==
  ASSUME SessionAssumption, SessionInv, NEW s \in Slots, Answer(s)
  PROVE  SessionInv'
<1> USE DEF SessionInv, Answer, Goes, Concludes, readerVars, sessionVars, slotVars, engineVars
<1>0. order[s] \in Orders /\ order[s] # NoOrder
  BY HasOrder
<1>a. /\ order' = [order EXCEPT ![s] = NoOrder] /\ at'[s] = "wait" /\ order'[s] = NoOrder
      /\ \A t \in Slots : t # s => order'[t] = order[t] /\ at'[t] = at[t] /\ verdict'[t] = verdict[t]
  BY DEF TypeOK
<1>b. \A t \in Slots : order[t] = order[s] => t = s
  BY <1>0 DEF SlotsFit
<1>c. \A x \in Orders : IsHeld(x)' <=> IsHeld(x) /\ x # order[s]
  BY <1>0, <1>a, <1>b DEF IsHeld
<1>d. /\ IsHeld(order[s]) /\ answers[order[s]] = <<>>
      /\ answers'[order[s]] = <<verdict[s]>>
      /\ \A x \in Orders : x # order[s] => answers'[x] = answers[x]
  <2>1. IsHeld(order[s]) /\ answers[order[s]] = <<>>
    BY <1>0 DEF IsHeld, OrdersFit, Kept
  <2> QED
    BY <1>0, <2>1 DEF TypeOK
<1>f. answers'[order[s]] # <<>> /\ Len(answers'[order[s]]) = 1
  <2>1. answers'[order[s]] = Append(<<>>, verdict[s]) /\ verdict[s] \in Verdicts
    BY <1>0, <1>d DEF TypeOK
  <2> QED
    BY <2>1, AnsweredOnce
<1>e. \A x \in Orders : \A T : "wait" \notin T => (At(x, T)' <=> At(x, T) /\ x # order[s])
  BY <1>0, <1>a, <1>b DEF At, SessionAssumption
<1>1. TypeOK'
  <2>1. answers' \in [Orders -> Seq(Verdicts)]
    BY <1>0, <1>d DEF TypeOK
  <2> QED
    BY <2>1 DEF TypeOK, Stages, Verdicts
<1>2. SlotsFit'
  BY <1>0 DEF TypeOK, SlotsFit, SlotFits, StepsNow, InEngine
<1>3. OrdersFit'
  <2>1. ASSUME NEW x \in Orders
        PROVE  Kept(x)'
    <3>1. Kept(x) /\ Kept(order[s])
      BY <1>0 DEF OrdersFit
    <3>2. CASE x = order[s]
      <4>1. answers'[x] # <<>> /\ Len(answers'[x]) = 1
        BY <1>f, <3>2
      <4>2. ~IsHeld(x)' /\ IsHeld(x)
        BY <1>c, <1>d, <3>2
      <4> QED
        BY <3>1, <4>1, <4>2 DEF Kept, IsQueued
    <3>3. CASE x # order[s]
      <4>1. (IsHeld(x)' <=> IsHeld(x)) /\ answers'[x] = answers[x]
        BY <1>c, <1>d, <3>3
      <4> QED
        BY <3>1, <4>1 DEF Kept, IsQueued
    <3> QED
      BY <3>2, <3>3
  <2> QED
    BY <2>1 DEF OrdersFit
<1>4. BooksFit'
  <2>1. "wait" \notin InRunner /\ "wait" \notin InEngine
    BY DEF InRunner, InEngine
  <2>2. ~At(order[s], InRunner) /\ ~At(order[s], InEngine)
    BY <1>0, Stands DEF InRunner, InEngine
  <2>3. \A x \in Orders : (At(x, InRunner)' <=> At(x, InRunner)) /\ (At(x, InEngine)' <=> At(x, InEngine))
    BY <1>e, <2>1, <2>2
  <2> QED
    BY <1>c, <2>3 DEF BooksFit, Booked, OfJob
<1>5. ContainersFit'
  BY <1>0 DEF TypeOK, ContainersFit, Housed, OfPhase, StepsNow, InContainers
<1>6. KillFits'
  <2>1. "wait" \notin PastPrepare
    BY DEF PastPrepare, InEngine
  <2>2. \A x \in Orders : Begun(x) => Begun(x)'
    <3> SUFFICES ASSUME NEW x \in Orders, Begun(x)
                 PROVE  Begun(x)'
      OBVIOUS
    <3>1. CASE x = order[s]
      <4>1. answers'[x] # <<>>
        BY <1>f, <3>1
      <4> QED
        BY <4>1 DEF Begun
    <3>2. CASE x # order[s]
      <4>1. answers'[x] = answers[x] /\ (At(x, PastPrepare)' <=> At(x, PastPrepare))
        BY <1>d, <1>e, <2>1, <3>2 DEF PastPrepare
      <4> QED
        BY <4>1 DEF Begun
    <3> QED
      BY <3>1, <3>2
  <2> QED
    BY <2>2 DEF KillFits
<1>7. KilledFit'
  <2>1. "wait" \notin PastPrepare
    BY DEF PastPrepare, InEngine
  <2>2. \A x \in Orders : Begun(x) => Begun(x)'
    <3> SUFFICES ASSUME NEW x \in Orders, Begun(x)
                 PROVE  Begun(x)'
      OBVIOUS
    <3>1. CASE x = order[s]
      <4>1. answers'[x] # <<>>
        BY <1>f, <3>1
      <4> QED
        BY <4>1 DEF Begun
    <3>2. CASE x # order[s]
      <4>1. answers'[x] = answers[x] /\ (At(x, PastPrepare)' <=> At(x, PastPrepare))
        BY <1>d, <1>e, <2>1, <3>2 DEF PastPrepare
      <4> QED
        BY <4>1 DEF Begun
    <3> QED
      BY <3>1, <3>2
  <2>3. order[s] \in killed => verdict[s] = "cancelled"
    BY DEF KilledFit, Excused
  <2>4. ASSUME NEW x \in killed
        PROVE  Excused(x)'
    <3>1. x \in Orders /\ Excused(x)
      BY DEF TypeOK, KilledFit
    <3>2. \A i \in DOMAIN answers'[x] : answers'[x][i] = "cancelled"
      BY <1>d, <2>3, <3>1 DEF Excused
    <3> QED
      BY <1>0, <1>a, <2>2, <3>1, <3>2 DEF Excused, SessionAssumption
  <2> QED
    BY <2>4 DEF KilledFit
<1>8. JoinFits'
  BY <1>0 DEF JoinFits
<1> QED
  BY <1>1, <1>2, <1>3, <1>4, <1>5, <1>6, <1>7, <1>8


-----------------------------------------------------------------------------
(* What holds of every session.                                              *)

LEMMA SessionStarts ==
  ASSUME SessionAssumption, Init
  PROVE  SessionInv
<1> USE DEF Init
<1>1. TypeOK
  <2>1. queue \in Seq(Orders) /\ answers \in [Orders -> Seq(Verdicts)]
    OBVIOUS
  <2>2. at \in [Slots -> Stages] /\ verdict \in [Slots -> Verdicts] /\ reader \in ReaderStages
    BY DEF Stages, Verdicts, ReaderStages
  <2>3. /\ order \in [Slots -> Orders \cup {NoOrder}] /\ phase \in [Slots -> Nat]
        /\ step \in [Slots -> Nat] /\ names \in [Orders -> SUBSET Containers]
    OBVIOUS
  <2>4. stops \in 0 .. 2 /\ stream \in {"up", "down"}
    OBVIOUS
  <2>5. /\ orders \subseteq Orders /\ cancels \subseteq orders /\ target \in Orders \cup {NoOrder}
        /\ kills \subseteq Containers /\ sweep \subseteq Orders /\ running \subseteq Orders
        /\ asleep \subseteq Slots /\ runner \subseteq Orders /\ inFlight \subseteq Orders
        /\ cancelled \subseteq Orders /\ alive \subseteq Containers /\ killed \subseteq Orders
        /\ stopping \in BOOLEAN
    BY Zenon
  <2> HIDE DEF Init
  <2> QED
    BY <2>1, <2>2, <2>3, <2>4, <2>5 DEF TypeOK
<1>2. \A s \in Slots : at[s] = "wait" /\ order[s] = NoOrder
  OBVIOUS
<1>3. SlotsFit
  BY <1>2 DEF SlotsFit, SlotFits, InEngine
<1>4. \A o \in Orders : ~IsQueued(o) /\ ~IsHeld(o) /\ \A T : ~At(o, T)
  BY <1>2 DEF IsQueued, Among, IsHeld, At, SessionAssumption
<1>5. OrdersFit
  BY <1>4 DEF OrdersFit, Kept, IsInjective
<1>6. BooksFit
  BY <1>4 DEF BooksFit, Booked
<1>7. ContainersFit
  BY <1>2 DEF ContainersFit, InContainers
<1>8. KillFits /\ KilledFit /\ JoinFits
  BY DEF KillFits, KilledFit, JoinFits
<1> QED
  BY <1>1, <1>3, <1>5, <1>6, <1>7, <1>8 DEF SessionInv

LEMMA SessionStutters ==
  ASSUME SessionInv, UNCHANGED vars
  PROVE  SessionInv'
<1> USE DEF SessionInv, vars, readerVars, sessionVars, slotVars, engineVars
<1>1. TypeOK' /\ SlotsFit' /\ OrdersFit'
  BY DEF TypeOK, SlotsFit, SlotFits, StepsNow, OrdersFit, Kept, IsQueued, IsHeld
<1>2. \A o : (IsHeld(o)' <=> IsHeld(o)) /\ \A T : At(o, T)' <=> At(o, T)
  BY DEF IsHeld, At
<1>3. BooksFit'
  BY <1>2 DEF BooksFit, Booked
<1>4. ContainersFit'
  BY DEF ContainersFit, Housed, OfPhase, StepsNow
<1>5. KillFits' /\ KilledFit' /\ JoinFits'
  BY <1>2 DEF KillFits, KilledFit, Excused, Begun, JoinFits
<1> QED
  BY <1>1, <1>3, <1>4, <1>5

LEMMA SlotKeeps ==
  ASSUME SessionAssumption, SessionInv, NEW s \in Slots, Slot(s)
  PROVE  SessionInv'
<1>1. CASE Leave(s) \/ Take(s) \/ Sleep(s) \/ RefuseOrder(s) \/ RegisterOrder(s)
  BY <1>1, LeaveKeeps, TakeKeeps, SleepKeeps, RefuseOrderKeeps, RegisterOrderKeeps
<1>2. CASE PrepareFails(s) \/ Fly(s) \/ BeginPhase(s) \/ StartStep(s) \/ StartFails(s)
  BY <1>2, PrepareFailsKeeps, FlyKeeps, BeginPhaseKeeps, StartStepKeeps, StartFailsKeeps
<1>3. CASE StepEnds(s) \/ EndPhase(s) \/ Finish(s) \/ LeaveRunner(s) \/ Answer(s)
  BY <1>3, StepEndsKeeps, EndPhaseKeeps, FinishKeeps, LeaveRunnerKeeps, AnswerKeeps
<1> QED
  BY <1>1, <1>2, <1>3 DEF Slot

LEMMA ReaderKeeps ==
  ASSUME SessionAssumption, SessionInv, Break \/ Reading \/ Reader
  PROVE  SessionInv'
<1>1. CASE Break \/ Notify \/ FindInRunner \/ CancelJob \/ Killed \/ Stop \/ Join
  BY <1>1, BreakKeeps, NotifyKeeps, FindInRunnerKeeps, CancelJobKeeps, KilledKeeps,
     StopKeeps, JoinKeeps
<1>2. CASE \E o \in Orders : Enqueue(o) \/ Cancel(o) \/ SweepOne(o)
  BY <1>2, EnqueueKeeps, CancelKeeps, SweepOneKeeps
<1>3. CASE \E c \in Containers : Kill(c)
  BY <1>3, KillKeeps
<1> QED
  BY <1>1, <1>2, <1>3 DEF Reading, Reader

(* Every session that TLC can reach, and every one it cannot, is as the      *)
(* invariant says: slots, queue, books, docker and cancels agree.            *)
THEOREM SessionIsKept == SafetySpec => []SessionInv
<1>1. Init => SessionInv
  BY SessionStarts, SessionAssumption
<1>2. SessionInv /\ [Next]_vars => SessionInv'
  <2> SUFFICES ASSUME SessionInv, [Next]_vars
               PROVE  SessionInv'
    OBVIOUS
  <2>1. CASE Break \/ Reading \/ Reader
    BY <2>1, ReaderKeeps, SessionAssumption
  <2>2. CASE \E s \in Slots : Slot(s)
    BY <2>2, SlotKeeps, SessionAssumption
  <2>3. CASE \E c \in Containers : BackgroundEnds(c)
    BY <2>3, BackgroundEndsKeeps, SessionAssumption
  <2>4. CASE UNCHANGED vars
    BY <2>4, SessionStutters
  <2> QED
    BY <2>1, <2>2, <2>3, <2>4 DEF Next
<1> QED
  BY <1>1, <1>2, PTL DEF SafetySpec

LEMMA HeldIsHeld ==
  ASSUME SessionInv, NEW o \in Orders, SessionAssumption
  PROVE  o \in Held <=> IsHeld(o)
<1>1. \A s \in Slots : order[s] = o => at[s] \in Stages \ {"wait", "left"}
  BY DEF SessionInv, TypeOK, SlotsFit, SlotFits, SessionAssumption
<1> QED
  BY <1>1 DEF Held, IsHeld

LEMMA HeldIsOrders ==
  ASSUME SessionInv, NEW o \in Held
  PROVE  o \in Orders
BY DEF Held, SessionInv, TypeOK, SlotsFit, SlotFits

(* Whatever a cancel, the loss of the stream and the slots do in between, an *)
(* order that was read waits, is at one slot, was answered once or was       *)
(* cancelled while it waited (WorkerSession, sandbox_worker.cc).             *)
THEOREM OrdersAlwaysKept == SafetySpec => []OrdersAreKept
<1>1. SessionInv => OrdersAreKept
  <2> SUFFICES ASSUME SessionInv
               PROVE  OrdersAreKept
    OBVIOUS
  <2>1. \A o : o \in Range(queue) <=> IsQueued(o)
    BY DEF Range, IsQueued, Among
  <2>2. \A o \in Range(queue) : o \in Orders
    BY ElementOfSeq, LenProperties DEF SessionInv, TypeOK, Range
  <2>3. \A o \in Orders : o \in Held <=> IsHeld(o)
    BY HeldIsHeld, SessionAssumption
  <2>4. Held \subseteq Orders
    BY HeldIsOrders
  <2>5. cancels \subseteq Orders /\ orders \subseteq Orders
    BY DEF SessionInv, TypeOK
  <2>6. \A o \in Orders : Kept(o)
    BY DEF SessionInv, OrdersFit
  <2>7. orders = Range(queue) \cup Held \cup Answered \cup (cancels \ Held)
    <3>1. \A o \in Orders : o \in orders <=>
            o \in Range(queue) \cup Held \cup Answered \cup (cancels \ Held)
      BY <2>1, <2>3, <2>6 DEF Kept, Answered
    <3> QED
      BY <2>2, <2>4, <2>5, <3>1 DEF Answered
  <2>8. Range(queue) \cap (Held \cup Answered \cup cancels) = {}
    BY <2>1, <2>2, <2>3, <2>6 DEF Kept, Answered
  <2>9. Held \cap Answered = {}
    BY <2>3, <2>6 DEF Kept, Answered
  <2>10. \A s, t \in Slots : order[s] = order[t] /\ order[s] # NoOrder => s = t
    BY DEF SessionInv, SlotsFit
  <2> QED
    BY <2>6, <2>7, <2>8, <2>9, <2>10 DEF OrdersAreKept, Kept
<1> QED
  BY <1>1, SessionIsKept, PTL

(* A step one of whose containers was killed is answered CANCELLED or not at *)
(* all: no one is blamed for it (container_engine.cc 176-183).               *)
THEOREM KilledAlwaysCancelled == SafetySpec => []KilledIsCancelled
<1>1. SessionInv => KilledIsCancelled
  BY DEF SessionInv, KilledFit, Excused, KilledIsCancelled, Range
<1> QED
  BY <1>1, SessionIsKept, PTL

(* The session, the runner, the engine and docker know an order just while a *)
(* slot is in the part of its work they stand for.                           *)
THEOREM BooksAlwaysAgree == SafetySpec => []BooksAgree
<1>1. SessionInv => BooksAgree
  <2> SUFFICES ASSUME SessionInv
               PROVE  BooksAgree
    OBVIOUS
  <2>1. \A o \in Orders : o \in Held <=> IsHeld(o)
    BY HeldIsHeld, SessionAssumption
  <2>2. Held \subseteq Orders
    BY HeldIsOrders
  <2>3. running \subseteq Orders /\ runner \subseteq Orders /\ inFlight \subseteq Orders
    BY DEF SessionInv, TypeOK
  <2>4. \A o \in Orders : Booked(o)
    BY DEF SessionInv, BooksFit
  <2>5. \A o : \A T : At(o, T) => IsHeld(o)
    BY DEF At, IsHeld
  <2>6. running = Held
    BY <2>1, <2>2, <2>3, <2>4 DEF Booked
  <2>7. runner = {o \in Held : At(o, InRunner)}
    BY <2>1, <2>2, <2>3, <2>4, <2>5 DEF Booked
  <2>8. inFlight = {o \in Held : At(o, InEngine)}
    BY <2>1, <2>2, <2>3, <2>4, <2>5 DEF Booked
  <2>9. cancelled \subseteq inFlight
    BY <2>4 DEF Booked, SessionInv, TypeOK
  <2>10. ASSUME NEW c \in alive
         PROVE  c \in names[c[1]] /\ At(c[1], {"start", "run", "drain"})
    <3>1. PICK s \in Slots : at[s] \in InContainers /\ c \in OfPhase(s)
      BY DEF SessionInv, ContainersFit, Housed
    <3>2. c[1] = order[s]
      BY <3>1 DEF OfPhase
    <3> QED
      BY <3>1, <3>2 DEF SessionInv, ContainersFit, At, InContainers
  <2> QED
    BY <2>6, <2>7, <2>8, <2>9, <2>10 DEF BooksAgree
<1> QED
  BY <1>1, SessionIsKept, PTL

(* When the destructor has joined the slots, runner and engine know no job   *)
(* and docker runs no container of the session.                              *)
THEOREM NothingIsLeftBehind == SafetySpec => []NothingLeftBehind
<1>1. SessionInv => NothingLeftBehind
  <2> SUFFICES ASSUME SessionInv, reader = "joined"
               PROVE  runner \cup inFlight \cup cancelled = {} /\ alive = {}
    BY DEF NothingLeftBehind
  <2>1. \A s \in Slots : at[s] = "left"
    BY DEF SessionInv, JoinFits
  <2>2. \A o \in Orders : ~At(o, InRunner) /\ ~At(o, InEngine)
    BY <2>1 DEF At, InRunner, InEngine
  <2>3. runner = {} /\ inFlight = {} /\ cancelled = {}
    BY <2>2 DEF SessionInv, TypeOK, BooksFit, Booked
  <2>4. alive = {}
    BY <2>1 DEF SessionInv, ContainersFit, Housed, InContainers
  <2> QED
    BY <2>3, <2>4
<1> QED
  BY <1>1, SessionIsKept, PTL

=============================================================================
