-------------------------- MODULE SchedulerProofs ---------------------------
(***************************************************************************)
(* Proofs about the scheduler, for every set of candidates, workers and    *)
(* streams, every bound, and every fleet: streams may share a worker id    *)
(* and break.  First the types and the reservations, then the jobs: work   *)
(* and state of a job agree, verdicts stand, an end is told once, a result *)
(* counted once; and no worker is given more than it has slots.            *)
(*                                                                         *)
(* Then what needs more of the fleet: the scheduler implements OrderLedger *)
(* in every instance in which a Send to an attached worker does not fail   *)
(* (~ MayBreak): workers may leave, reconnect under an id in use, and      *)
(* answer late.  And when, besides, no worker id is used by two streams,   *)
(* jobs_, order_owner_, workers_ and the workers themselves agree about    *)
(* every order.                                                            *)
(***************************************************************************)
EXTENDS SchedulerProperties, FiniteSetTheorems, SequenceTheorems, TLAPS

-----------------------------------------------------------------------------
(* The inductive invariant.                                                  *)

(* Every stored submission holds a reservation.                              *)
SubmitsOf(cl) == {s \in submits : s.client = cl}
ReservationsCover ==
  /\ IsFiniteSet(submits)
  /\ Metered => \A cl \in Clients : reserved[cl] >= Cardinality(SubmitsOf(cl))

-----------------------------------------------------------------------------
(* Facts about the helpers.                                                  *)

LEMMA RemoveAtType ==
  ASSUME NEW S, NEW q \in Seq(S), NEW i \in 1 .. Len(q)
  PROVE  RemoveAt(q, i) \in Seq(S)
<1>1. Len(q) \in Nat /\ \A k \in 1 .. Len(q) : q[k] \in S
  BY LenProperties, ElementOfSeq
<1>2. SubSeq(q, 1, i - 1) \in Seq(S)
  BY <1>1, SubSeqProperties
<1>3. SubSeq(q, i + 1, Len(q)) \in Seq(S)
  BY <1>1, SubSeqProperties
<1> QED
  BY <1>2, <1>3, ConcatProperties DEF RemoveAt

LEMMA ArrangementType ==
  ASSUME NEW S \in SUBSET Jobs, NEW f \in Arrangements(S), SchedulerAssumption
  PROVE  f \in Seq(S)
<1>1. IsFiniteSet(Jobs)
  BY FS_Interval DEF Jobs, SchedulerAssumption
<1>2. Cardinality(S) \in Nat
  BY <1>1, FS_Subset, FS_CardinalityType
<1> QED
  BY <1>2 DEF Arrangements

LEMMA OrderTypes ==
  ASSUME SchedulerAssumption
  PROVE  /\ \A j \in Jobs, n \in 1 .. MaxAttempts : BuildOrder(j, n) \in Orders
         /\ \A j \in Jobs, g \in Groups : MatchOrder(j, g) \in Orders
         /\ \A o \in Orders : o[2] \in Jobs /\ o[1] \in {"build", "match"}
         /\ \A o \in Orders : o[1] = "match" => o[3] \in Groups
         /\ \A o \in Orders : o # Blank
         /\ \A o \in Orders : Key(o) \in Keys
<1>1. \A j \in Jobs, n \in 1 .. MaxAttempts : BuildOrder(j, n) \in Orders
  BY DEF BuildOrder, Orders
<1>2. \A j \in Jobs, g \in Groups : MatchOrder(j, g) \in Orders
  BY DEF MatchOrder, Orders
<1>3. \A o \in Orders : o[2] \in Jobs /\ o[1] \in {"build", "match"}
  BY DEF Orders
<1>4. \A o \in Orders : o[1] = "match" => o[3] \in Groups
  BY DEF Orders
<1>5. \A o \in Orders : o # Blank
  <2>1. Blank[1] = ""
    BY DEF Blank
  <2> QED
    BY <1>3, <2>1
<1>6. \A o \in Orders : Key(o) \in Keys
  BY DEF Key, Keys
<1> QED
  BY <1>1, <1>2, <1>3, <1>4, <1>5, <1>6

LEMMA StartDispatchType ==
  ASSUME StartDispatch
  PROVE  /\ pc' \in {"idle", "scan"} /\ cursor' \in Nat \ {0}
         /\ progress' \in BOOLEAN
<1>1. cursor' \in Nat \ {0} /\ pc' \in {"idle", "scan"}
  BY DEF StartDispatch
<1>2. progress' \in BOOLEAN
  BY Zenon DEF StartDispatch
<1> QED
  BY <1>1, <1>2

-----------------------------------------------------------------------------
(* Types.                                                                    *)

TypeInv == TypeOK /\ ReservationsCover

USE SchedulerAssumption, StoreAssumption

LEMMA InitType == Init => TypeInv
<1> SUFFICES ASSUME Init PROVE TypeInv
  OBVIOUS
<1>1. StoreTypeOK
  BY DEF Init, StoreInit, StoreTypeOK, Entry, Revs, StoreAssumption
<1>2. JobsTypeOK
  <2>1. NoJob \in [client : ClientIds, cand : Candidates, rev : Revs]
    BY DEF NoJob, ClientIds, Revs, SchedulerAssumption, StoreAssumption
  <2>2. aborted \in [Jobs -> BOOLEAN]
    BY Zenon DEF Init
  <2> QED
    BY <2>1, <2>2 DEF Init, JobsTypeOK, JobStates
<1>3. FleetTypeOK
  BY DEF Init, FleetTypeOK
<1>4. PassTypeOK
  <2>1. queue \in Seq(Jobs)
    BY EmptySeq DEF Init
  <2>2. progress \in BOOLEAN
    BY Zenon DEF Init
  <2> QED
    BY <2>1, <2>2 DEF Init, PassTypeOK
<1>5. SubmitTypeOK
  BY DEF Init, SubmitTypeOK
<1>6. HistoryTypeOK
  BY DEF Init, HistoryTypeOK
<1>7. ReservationsCover
  <2>1. \A cl \in Clients : SubmitsOf(cl) = {}
    BY DEF Init, SubmitsOf
  <2>2. \A cl \in Clients : Cardinality(SubmitsOf(cl)) = 0 /\ reserved[cl] = 0
    BY <2>1, FS_EmptySet DEF Init
  <2>3. IsFiniteSet(submits)
    BY FS_EmptySet DEF Init
  <2> QED
    BY <2>2, <2>3 DEF ReservationsCover
<1> QED
  BY <1>1, <1>2, <1>3, <1>4, <1>5, <1>6, <1>7 DEF TypeInv, TypeOK

LEMMA SendOrderType ==
  ASSUME TypeInv, NEW w \in Workers, NEW o \in Orders, SendOrder(w, o)
  PROVE  TypeInv'
<1>1. Scanned \in Jobs /\ cursor \in 1 .. Len(queue)
  BY LenProperties, ElementOfSeq
  DEF SendOrder, Scanning, Scanned, TypeInv, TypeOK, PassTypeOK
<1>2. StoreTypeOK' /\ SubmitTypeOK' /\ HistoryTypeOK' /\ ReservationsCover'
  BY DEF SendOrder, TypeInv, TypeOK, storeVars, StoreTypeOK, SubmitTypeOK,
         HistoryTypeOK, ReservationsCover, SubmitsOf, history
<1>3. JobsTypeOK'
  <2>1. state' \in [Jobs -> JobStates]
    BY <1>1 DEF SendOrder, TypeInv, TypeOK, JobsTypeOK, JobStates
  <2>3. logged' \in [Jobs -> JobStates]
    <3>1. logged' = logged \/ logged' = [logged EXCEPT ![Scanned] = "RUNNING"]
      BY Zenon DEF SendOrder, Persist
    <3> QED
      BY <1>1, <3>1 DEF TypeInv, TypeOK, JobsTypeOK, JobStates
  <2>2. pending' \in [Jobs -> SUBSET Orders] /\ running' \in [Jobs -> SUBSET Orders]
    BY <1>1 DEF SendOrder, TypeInv, TypeOK, JobsTypeOK
  <2> QED
    BY <2>1, <2>2, <2>3 DEF SendOrder, TypeInv, TypeOK, JobsTypeOK
<1>4. FleetTypeOK'
  <2>1. attached[w] \in Streams /\ Key(o) \in Keys
    BY OrderTypes DEF SendOrder, Emptiest, Attached, TypeInv, TypeOK, FleetTypeOK
  <2> QED
    BY <1>1, <2>1 DEF SendOrder, TypeInv, TypeOK, FleetTypeOK
<1>5. PassTypeOK'
  <2>1. RemoveAt(queue, cursor) \in Seq(Jobs)
    BY <1>1, RemoveAtType DEF TypeInv, TypeOK, PassTypeOK
  <2>2. progress' \in BOOLEAN
    BY Zenon DEF SendOrder
  <2> QED
    BY <2>1, <2>2 DEF SendOrder, TypeInv, TypeOK, PassTypeOK
<1> QED
  BY <1>2, <1>3, <1>4, <1>5 DEF TypeInv, TypeOK

LEMMA DropSpentJobType ==
  ASSUME TypeInv, DropSpentJob
  PROVE  TypeInv'
<1>1. cursor \in 1 .. Len(queue)
  BY LenProperties DEF DropSpentJob, Scanning, TypeInv, TypeOK, PassTypeOK
<1>2. queue' \in Seq(Jobs)
  BY <1>1, RemoveAtType DEF DropSpentJob, TypeInv, TypeOK, PassTypeOK
<1>3. PassTypeOK'
  BY <1>2 DEF DropSpentJob, TypeInv, TypeOK, PassTypeOK, loopVars
<1> QED
  BY <1>3 DEF DropSpentJob, TypeInv, TypeOK, storeVars, jobVars, fleetVars, history,
     StoreTypeOK, JobsTypeOK, FleetTypeOK, SubmitTypeOK, HistoryTypeOK,
     ReservationsCover, SubmitsOf

LEMMA NoRoomType ==
  ASSUME TypeInv, NoRoom
  PROVE  TypeInv'
BY DEF NoRoom, TypeInv, TypeOK, PassTypeOK, storeVars, jobVars, fleetVars, history,
   StoreTypeOK, JobsTypeOK, FleetTypeOK, SubmitTypeOK, HistoryTypeOK,
   ReservationsCover, SubmitsOf

LEMMA SendFailsType ==
  ASSUME TypeInv, NEW w \in Workers, NEW o \in Orders, SendFails(w, o)
  PROVE  TypeInv'
<1>1. PassTypeOK'
  BY DEF SendFails, TypeInv, TypeOK, PassTypeOK
<1>2. HistoryTypeOK'
  BY DEF SendFails, TypeInv, TypeOK, HistoryTypeOK, history
<1>3. StoreTypeOK' /\ JobsTypeOK' /\ FleetTypeOK'
  BY DEF SendFails, TypeInv, TypeOK, storeVars, jobVars, fleetVars, StoreTypeOK,
     JobsTypeOK, FleetTypeOK
<1>4. SubmitTypeOK' /\ ReservationsCover'
  BY DEF SendFails, TypeInv, TypeOK, SubmitTypeOK, ReservationsCover, SubmitsOf
<1> QED
  BY <1>1, <1>2, <1>3, <1>4 DEF TypeInv, TypeOK

LEMMA EndOfPassType ==
  ASSUME TypeInv, EndOfPass
  PROVE  TypeInv'
<1>1. progress' \in BOOLEAN
  BY Zenon DEF EndOfPass, TypeInv, TypeOK, PassTypeOK
<1>2. pc' \in {"idle", "scan"} /\ cursor' \in Nat \ {0} /\ queue' \in Seq(Jobs)
  BY DEF EndOfPass, TypeInv, TypeOK, PassTypeOK
<1> QED
  BY <1>1, <1>2 DEF EndOfPass, TypeInv, TypeOK, PassTypeOK, storeVars, jobVars,
     fleetVars, history, StoreTypeOK, JobsTypeOK, FleetTypeOK, SubmitTypeOK,
     HistoryTypeOK, ReservationsCover, SubmitsOf

(* Aborting jobs keeps the types.                                            *)
LEMMA AbortType ==
  ASSUME TypeInv, NEW A \in SUBSET Jobs
  PROVE  /\ PendingWithout(A) \in [Jobs -> SUBSET Orders]
         /\ RunningWithout(A) \in [Jobs -> SUBSET Orders]
         /\ AbortedWith(A) \in [Jobs -> BOOLEAN]
         /\ \A f \in [Jobs -> JobStates] : Cancelled(f, A) \in [Jobs -> JobStates]
         /\ DropOrders(A) => /\ owner' \in [Keys -> (Jobs \X Workers) \cup {Unowned}]
                             /\ inFlight' \in [Workers -> SUBSET Orders]
<1>1. PendingWithout(A) \in [Jobs -> SUBSET Orders]
  BY DEF PendingWithout, TypeInv, TypeOK, JobsTypeOK
<1>2. RunningWithout(A) \in [Jobs -> SUBSET Orders]
  BY DEF RunningWithout, TypeInv, TypeOK, JobsTypeOK
<1>3. AbortedWith(A) \in [Jobs -> BOOLEAN]
  BY Zenon DEF AbortedWith
<1>4. \A f \in [Jobs -> JobStates] : Cancelled(f, A) \in [Jobs -> JobStates]
  BY DEF Cancelled, JobStates
<1>5. DropOrders(A) => owner' \in [Keys -> (Jobs \X Workers) \cup {Unowned}]
  BY DEF DropOrders, TypeInv, TypeOK, FleetTypeOK
<1>6. DropOrders(A) => inFlight' \in [Workers -> SUBSET Orders]
  BY DEF DropOrders, TypeInv, TypeOK, FleetTypeOK
<1> QED
  BY <1>1, <1>2, <1>3, <1>4, <1>5, <1>6

LEMMA TryReserveType ==
  ASSUME TypeInv, NEW cl \in Clients, NEW cancel \in BOOLEAN, TryReserve(cl, cancel)
  PROVE  TypeInv'
<1> DEFINE A == IF cancel THEN Mine(cl) ELSE {}
<1>1. A \in SUBSET Jobs
  BY DEF Mine
<1>2. reserved' = reserved \/ reserved' = [reserved EXCEPT ![cl] = @ + 1]
  BY Zenon DEF TryReserve
<1>3. JobsTypeOK'
  BY <1>1, AbortType DEF TryReserve, TypeInv, TypeOK, JobsTypeOK
<1>4. FleetTypeOK'
  BY <1>1, AbortType DEF TryReserve, TypeInv, TypeOK, FleetTypeOK
<1>5. SubmitTypeOK'
  BY <1>2 DEF TryReserve, TypeInv, TypeOK, SubmitTypeOK
<1>6. StoreTypeOK' /\ PassTypeOK' /\ HistoryTypeOK'
  BY DEF TryReserve, TypeInv, TypeOK, storeVars, loopVars, history, StoreTypeOK,
     PassTypeOK, HistoryTypeOK
<1>7. ReservationsCover'
  <2>1. submits' = submits /\ \A c \in Clients : SubmitsOf(c)' = SubmitsOf(c)
    BY DEF TryReserve, SubmitsOf
  <2>2. \A c \in Clients : Cardinality(SubmitsOf(c)) \in Nat
    BY FS_Subset, FS_CardinalityType DEF TypeInv, ReservationsCover, SubmitsOf
  <2>3. \A c \in Clients : reserved'[c] >= reserved[c]
    BY <1>2 DEF TypeInv, TypeOK, SubmitTypeOK
  <2> QED
    BY <2>1, <2>2, <2>3, <1>5 DEF TypeInv, TypeOK, SubmitTypeOK, ReservationsCover
<1> QED
  BY <1>3, <1>4, <1>5, <1>6, <1>7 DEF TypeInv, TypeOK

LEMMA SubmitsFinite ==
  ASSUME TypeInv
  PROVE  \A cl \in Clients :
           IsFiniteSet(SubmitsOf(cl)) /\ Cardinality(SubmitsOf(cl)) \in Nat
BY FS_Subset, FS_CardinalityType DEF TypeInv, ReservationsCover, SubmitsOf

LEMMA RejectSubmissionType ==
  ASSUME TypeInv, NEW cl \in Clients, RejectSubmission(cl)
  PROVE  TypeInv'
<1>1. reserved[cl] > Cardinality(SubmitsOf(cl))
  BY DEF RejectSubmission, Holding, SubmitsOf
<1>2. reserved[cl] \in Nat /\ reserved[cl] - 1 >= Cardinality(SubmitsOf(cl))
  BY <1>1, SubmitsFinite DEF TypeInv, TypeOK, SubmitTypeOK
<1>3. SubmitTypeOK'
  BY <1>2, SubmitsFinite DEF RejectSubmission, TypeInv, TypeOK, SubmitTypeOK
<1>4. ReservationsCover'
  BY <1>2 DEF RejectSubmission, TypeInv, TypeOK, SubmitTypeOK, ReservationsCover,
     SubmitsOf
<1> QED
  BY <1>3, <1>4 DEF RejectSubmission, TypeInv, TypeOK, storeVars, jobVars, fleetVars,
     loopVars, history, StoreTypeOK, JobsTypeOK, FleetTypeOK, PassTypeOK, HistoryTypeOK

(* The store.                                                                *)
LEMMA CreateType ==
  ASSUME TypeInv, NEW c \in Candidates, Create(c)
  PROVE  StoreTypeOK' /\ revs[c] + 1 \in Revs
<1>1. revs[c] + 1 \in Revs
  BY DEF Create, TypeInv, TypeOK, StoreTypeOK, Revs
<1>2. revs' \in [Candidates -> Revs]
  BY <1>1 DEF Create, TypeInv, TypeOK, StoreTypeOK
<1>3. CASE live[c].status = "READY"
  BY <1>1, <1>2, <1>3 DEF Create, TypeInv, TypeOK, StoreTypeOK
<1>4. CASE live[c].status # "READY"
  <2>1. [rev |-> revs[c] + 1, status |-> "PENDING", artifact |-> 0] \in Entry
    BY <1>1 DEF Entry, Revs
  <2> QED
    BY <1>2, <1>4, <2>1 DEF Create, TypeInv, TypeOK, StoreTypeOK
<1> QED
  BY <1>1, <1>3, <1>4

LEMMA SetStatusType ==
  ASSUME TypeInv, NEW c \in Candidates, NEW status \in {"READY", "BUILD_FAILED"},
         NEW artifact \in Revs, SetStatus(c, status, artifact)
  PROVE  StoreTypeOK'
<1> DEFINE promoted == [rev |-> staged[c], status |-> "READY", artifact |-> artifact]
           marked == [live[c] EXCEPT !.status = status,
                        !.artifact = IF artifact = 0 THEN @ ELSE artifact]
<1>1. live[c] \in Entry /\ staged[c] \in Revs /\ 0 \in Revs
  BY DEF TypeInv, TypeOK, StoreTypeOK, Revs
<1>2. promoted \in Entry
  BY <1>1 DEF Entry
<1>3. marked \in Entry
  <2> DEFINE art == IF artifact = 0 THEN live[c].artifact ELSE artifact
  <2>1. art \in Revs
    BY <1>1 DEF Entry
  <2> HIDE DEF art
  <2>2. [live[c] EXCEPT !.status = status, !.artifact = art] \in Entry
    BY <1>1, <2>1 DEF Entry
  <2> QED
    BY <2>2 DEF art
<1> HIDE DEF promoted, marked
<1>4. PICK e \in {live[c], promoted, marked} : live' = [live EXCEPT ![c] = e]
  BY Zenon DEF SetStatus, promoted, marked
<1>5. live' \in [Candidates -> Entry]
  BY <1>1, <1>2, <1>3, <1>4 DEF TypeInv, TypeOK, StoreTypeOK
<1>6. staged' \in [Candidates -> Revs] /\ revs' \in [Candidates -> Revs]
  BY <1>1 DEF SetStatus, TypeInv, TypeOK, StoreTypeOK
<1> QED
  BY <1>5, <1>6 DEF StoreTypeOK

LEMMA AddsOneAtMost ==
  ASSUME NEW S, NEW x, IsFiniteSet(S)
  PROVE  Cardinality(S \cup {x}) \in Nat /\ Cardinality(S \cup {x}) <= Cardinality(S) + 1
<1>1. Cardinality(S) \in Nat
  BY FS_CardinalityType
<1>2. Cardinality(S \cup {x}) = IF x \in S THEN Cardinality(S) ELSE Cardinality(S) + 1
  BY FS_AddElement
<1> QED
  BY <1>1, <1>2

LEMMA StoreSubmissionType ==
  ASSUME TypeInv, NEW cl \in Clients, NEW c \in Candidates, StoreSubmission(cl, c)
  PROVE  TypeInv'
<1> DEFINE sub == [client |-> cl, cand |-> c, rev |-> revs[c] + 1]
<1>1. StoreTypeOK' /\ revs[c] + 1 \in Revs
  BY CreateType DEF StoreSubmission
<1>2. SubmitTypeOK'
  BY <1>1 DEF StoreSubmission, TypeInv, TypeOK, SubmitTypeOK
<1>3. ReservationsCover'
  <2>1. IsFiniteSet(submits')
    BY FS_AddElement DEF StoreSubmission, TypeInv, ReservationsCover
  <2>2. ASSUME Metered, NEW d \in Clients
        PROVE  reserved'[d] >= Cardinality(SubmitsOf(d)')
    <3>1. CASE d = cl
      <4>1. reserved[cl] > Cardinality(SubmitsOf(cl))
        BY <2>2 DEF StoreSubmission, Holding, SubmitsOf
      <4>2. SubmitsOf(cl)' = SubmitsOf(cl) \cup {sub}
        BY DEF StoreSubmission, SubmitsOf
      <4>3. Cardinality(SubmitsOf(cl) \cup {sub}) <= Cardinality(SubmitsOf(cl)) + 1
        BY SubmitsFinite, AddsOneAtMost
      <4>4. reserved' = reserved /\ reserved[cl] \in Nat
        BY DEF StoreSubmission, TypeInv, TypeOK, SubmitTypeOK
      <4>5. Cardinality(SubmitsOf(cl)) \in Nat /\ Cardinality(SubmitsOf(cl) \cup {sub}) \in Nat
        BY SubmitsFinite, AddsOneAtMost
      <4> HIDE DEF sub
      <4> QED
        BY <3>1, <4>1, <4>2, <4>3, <4>4, <4>5
    <3>2. CASE d # cl
      <4>1. SubmitsOf(d)' = SubmitsOf(d)
        BY <3>2 DEF StoreSubmission, SubmitsOf
      <4> QED
        BY <2>2, <4>1 DEF StoreSubmission, TypeInv, ReservationsCover
    <3> QED
      BY <3>1, <3>2
  <2> QED
    BY <2>1, <2>2 DEF ReservationsCover
<1>4. JobsTypeOK' /\ FleetTypeOK' /\ PassTypeOK' /\ HistoryTypeOK'
  BY DEF StoreSubmission, TypeInv, TypeOK, jobVars, fleetVars, loopVars, history,
     JobsTypeOK, FleetTypeOK, PassTypeOK, HistoryTypeOK
<1> QED
  BY <1>1, <1>2, <1>3, <1>4 DEF TypeInv, TypeOK

LEMMA EnqueueType ==
  ASSUME TypeInv, NEW j \in Jobs,
         NEW info \in [client : ClientIds, cand : Candidates, rev : Revs],
         NEW groups \in SUBSET Groups, NEW buildFirst \in BOOLEAN,
         NEW A \in SUBSET Jobs, Enqueue(j, info, groups, buildFirst, A)
  PROVE  StoreTypeOK' /\ JobsTypeOK' /\ FleetTypeOK' /\ PassTypeOK' /\ HistoryTypeOK'
<1> DEFINE playable == {g \in groups : Runnable(g)}
           orders == IF buildFirst THEN {BuildOrder(j, 1)}
                     ELSE {MatchOrder(j, g) : g \in playable}
           own == <<info.cand, info.rev>>
<1>1. orders \in SUBSET Orders
  <2>1. BuildOrder(j, 1) \in Orders
    BY OrderTypes DEF MaxAttempts
  <2>2. \A g \in playable : MatchOrder(j, g) \in Orders
    BY OrderTypes
  <2> QED
    BY <2>1, <2>2
<1>2. \A o \in Orders : ~ buildFirst /\ o \in orders => o[3] \in Groups
  <2>1. \A g \in playable : MatchOrder(j, g)[3] = g
    BY DEF MatchOrder
  <2> QED
    BY <2>1
<1>3. JobsTypeOK'
  <2>1. pending' \in [Jobs -> SUBSET Orders]
    <3>1. pending' = [PendingWithout(A) EXCEPT ![j] = orders]
      BY DEF Enqueue
    <3> HIDE DEF orders
    <3> QED
      BY <3>1, <1>1, AbortType
  <2>2. running' \in [Jobs -> SUBSET Orders] /\ aborted' \in [Jobs -> BOOLEAN]
    BY AbortType DEF Enqueue
  <2>3. \E st \in {"FAILED", "QUEUED"} :
          /\ state' = [Cancelled(state, A) EXCEPT ![j] = st]
          /\ logged' = [Cancelled(logged, A) EXCEPT ![j] = st]
    BY Zenon DEF Enqueue
  <2>4. state' \in [Jobs -> JobStates] /\ logged' \in [Jobs -> JobStates]
    <3>1. /\ Cancelled(state, A) \in [Jobs -> JobStates]
          /\ Cancelled(logged, A) \in [Jobs -> JobStates]
      BY AbortType DEF TypeInv, TypeOK, JobsTypeOK
    <3> QED
      BY <2>3, <3>1 DEF JobStates
  <2>5. afterBuild' \in [Jobs -> SUBSET Groups]
    BY DEF Enqueue, TypeInv, TypeOK, JobsTypeOK
  <2>6. job' \in [Jobs -> [client : ClientIds, cand : Candidates, rev : Revs]]
    BY DEF Enqueue, TypeInv, TypeOK, JobsTypeOK
  <2>7. attempts' \in [Jobs -> Nat]
    BY DEF Enqueue, TypeInv, TypeOK, JobsTypeOK
  <2> QED
    BY <2>1, <2>2, <2>4, <2>5, <2>6, <2>7 DEF JobsTypeOK
<1>4. FleetTypeOK'
  <2>1. DropOrders(A) /\ UNCHANGED <<attached, link, sent>>
    BY DEF Enqueue
  <2> QED
    BY <2>1, AbortType DEF TypeInv, TypeOK, FleetTypeOK
<1>5. PassTypeOK'
  <2>1. \/ UNCHANGED <<queue, loopVars>>
        \/ queue' = Append(queue, j) /\ StartDispatch
    BY Zenon DEF Enqueue
  <2>2. CASE UNCHANGED <<queue, loopVars>>
    BY <2>2 DEF TypeInv, TypeOK, PassTypeOK, loopVars
  <2>3. CASE queue' = Append(queue, j) /\ StartDispatch
    BY <2>3, AppendProperties, StartDispatchType DEF TypeInv, TypeOK, PassTypeOK
  <2> QED
    BY <2>1, <2>2, <2>3
<1>6. HistoryTypeOK'
  <2>1. carries' \in [Orders -> SUBSET Copies]
    <3>1. own \in Copies
      BY DEF Copies
    <3>2. \A g \in Groups : CopiesOf(info.cand, info.rev, g) \in SUBSET Copies
      BY DEF CopiesOf, Copies, TypeInv, TypeOK, StoreTypeOK, Entry,
         SchedulerAssumption
    <3>3. carries' = [o \in Orders |->
             IF o \notin orders THEN carries[o]
             ELSE IF buildFirst THEN {own} ELSE CopiesOf(info.cand, info.rev, o[3])]
      BY DEF Enqueue
    <3> HIDE DEF orders, own
    <3> QED
      BY <3>1, <3>2, <3>3, <1>2 DEF TypeInv, TypeOK, HistoryTypeOK
  <2>2. told' = told \/ told' = [told EXCEPT ![j] = @ + 1]
    BY Zenon DEF Enqueue
  <2>3. told' \in [Jobs -> Nat]
    BY <2>2 DEF TypeInv, TypeOK, HistoryTypeOK
  <2> QED
    BY <2>1, <2>3 DEF Enqueue, TypeInv, TypeOK, HistoryTypeOK
<1>7. StoreTypeOK'
  BY DEF Enqueue, TypeInv, TypeOK, StoreTypeOK, storeVars
<1> QED
  BY <1>3, <1>4, <1>5, <1>6, <1>7

LEMMA EnqueuePlacementType ==
  ASSUME TypeInv, NEW sub \in submits, NEW j \in Jobs, NEW ladder \in Ladders(sub.cand),
         EnqueuePlacement(sub, j, ladder)
  PROVE  TypeInv'
<1> DEFINE info == [sub EXCEPT !.client = IF Metered THEN @ ELSE NoClient]
           groups == PlacementGroups \cup ladder
           A == Superseded(sub.cand)
<1>1. sub \in [client : Clients, cand : Candidates, rev : Revs]
  BY DEF TypeInv, TypeOK, SubmitTypeOK
<1>2. info \in [client : ClientIds, cand : Candidates, rev : Revs]
  BY <1>1 DEF ClientIds
<1>3. groups \in SUBSET Groups /\ A \in SUBSET Jobs
  BY DEF Ladders, LadderGroups, Superseded, SchedulerAssumption
<1>4. Enqueue(j, info, groups, Archive, A)
  BY DEF EnqueuePlacement
<1>5. Archive \in BOOLEAN
  BY DEF SchedulerAssumption
<1> HIDE DEF info, groups, A
<1>6. StoreTypeOK' /\ JobsTypeOK' /\ FleetTypeOK' /\ PassTypeOK' /\ HistoryTypeOK'
  BY <1>2, <1>3, <1>4, <1>5, EnqueueType
<1>7. Metered => reserved[sub.client] >= Cardinality(SubmitsOf(sub.client)) /\
                 Cardinality(SubmitsOf(sub.client)) >= 1
  <2>1. sub \in SubmitsOf(sub.client)
    BY DEF SubmitsOf
  <2>2. Cardinality(SubmitsOf(sub.client)) # 0
    BY <1>1, <2>1, SubmitsFinite, FS_EmptySet
  <2> QED
    BY <1>1, <2>2, SubmitsFinite DEF TypeInv, ReservationsCover
<1>8. SubmitTypeOK'
  BY <1>1, <1>7, SubmitsFinite DEF EnqueuePlacement, TypeInv, TypeOK, SubmitTypeOK
<1>9. ReservationsCover'
  <2>1. IsFiniteSet(submits')
    BY FS_RemoveElement DEF EnqueuePlacement, TypeInv, ReservationsCover
  <2>2. ASSUME Metered, NEW d \in Clients
        PROVE  reserved'[d] >= Cardinality(SubmitsOf(d)')
    <3>1. reserved' = [reserved EXCEPT ![sub.client] = @ - 1]
      BY <2>2 DEF EnqueuePlacement
    <3>2. reserved[d] \in Nat /\ reserved[d] >= Cardinality(SubmitsOf(d))
      BY <2>2 DEF TypeInv, TypeOK, SubmitTypeOK, ReservationsCover
    <3>3. CASE d = sub.client
      <4>1. SubmitsOf(d)' = SubmitsOf(d) \ {sub} /\ sub \in SubmitsOf(d)
        BY <3>3 DEF EnqueuePlacement, SubmitsOf
      <4>2. Cardinality(SubmitsOf(d) \ {sub}) = Cardinality(SubmitsOf(d)) - 1
        BY <4>1, SubmitsFinite, FS_RemoveElement
      <4>3. reserved'[d] = reserved[d] - 1
        BY <3>1, <3>3 DEF TypeInv, TypeOK, SubmitTypeOK
      <4> QED
        BY <3>2, <4>1, <4>2, <4>3, SubmitsFinite
    <3>4. CASE d # sub.client
      <4>1. SubmitsOf(d)' = SubmitsOf(d)
        BY <3>4 DEF EnqueuePlacement, SubmitsOf
      <4>2. reserved'[d] = reserved[d]
        BY <1>1, <3>1, <3>4 DEF TypeInv, TypeOK, SubmitTypeOK
      <4> QED
        BY <3>2, <4>1, <4>2
    <3> QED
      BY <3>3, <3>4
  <2> QED
    BY <2>1, <2>2 DEF ReservationsCover
<1> QED
  BY <1>6, <1>8, <1>9 DEF TypeInv, TypeOK

LEMMA ReadIsOld ==
  ASSUME TypeInv, NEW c \in Candidates, NEW rev \in ReadBefore(c)
  PROVE  rev \in Revs
<1>1. live[c].rev \in Revs /\ MaxRev \in Nat
  BY StoreAssumption DEF TypeInv, TypeOK, StoreTypeOK, Entry
<1> QED
  BY <1>1 DEF ReadBefore, Revs

LEMMA EnqueueMatchType ==
  ASSUME TypeInv, NEW c \in Candidates, NEW g \in Groups, NEW j \in Jobs,
         EnqueueMatch(c, g, j)
  PROVE  TypeInv'
<1>0. PICK rev \in ReadBefore(c) :
        Enqueue(j, [client |-> NoClient, cand |-> c, rev |-> rev], {g}, FALSE, {})
  BY DEF EnqueueMatch
<1> DEFINE info == [client |-> NoClient, cand |-> c, rev |-> rev]
<1>1. info \in [client : ClientIds, cand : Candidates, rev : Revs]
  BY ReadIsOld DEF ClientIds
<1>2. Enqueue(j, info, {g}, FALSE, {})
  BY <1>0
<1>5. {g} \in SUBSET Groups /\ FALSE \in BOOLEAN /\ {} \in SUBSET Jobs
  OBVIOUS
<1> HIDE DEF info
<1>3. StoreTypeOK' /\ JobsTypeOK' /\ FleetTypeOK' /\ PassTypeOK' /\ HistoryTypeOK'
  BY <1>1, <1>2, <1>5, EnqueueType
<1>4. SubmitTypeOK' /\ ReservationsCover'
  BY DEF EnqueueMatch, TypeInv, TypeOK, SubmitTypeOK, ReservationsCover, SubmitsOf
<1> QED
  BY <1>3, <1>4 DEF TypeInv, TypeOK

LEMMA AddWorkerType ==
  ASSUME TypeInv, NEW s \in Streams, AddWorker(s)
  PROVE  TypeInv'
<1>1. FleetTypeOK'
  BY DEF AddWorker, TypeInv, TypeOK, FleetTypeOK, SchedulerAssumption
<1>2. PassTypeOK'
  BY StartDispatchType DEF AddWorker, TypeInv, TypeOK, PassTypeOK
<1>3. StoreTypeOK' /\ JobsTypeOK' /\ HistoryTypeOK'
  BY DEF AddWorker, TypeInv, TypeOK, storeVars, jobVars, history, StoreTypeOK,
     JobsTypeOK, HistoryTypeOK
<1>4. SubmitTypeOK' /\ ReservationsCover'
  BY DEF AddWorker, TypeInv, TypeOK, SubmitTypeOK, ReservationsCover, SubmitsOf
<1> QED
  BY <1>1, <1>2, <1>3, <1>4 DEF TypeInv, TypeOK

LEMMA RemoveWorkerType ==
  ASSUME TypeInv, NEW s \in Streams, RemoveWorker(s)
  PROVE  TypeInv'
<1> DEFINE w == WorkerOf[s]
<1>1. w \in Workers
  BY DEF SchedulerAssumption
<1>2. link' \in [Streams -> {"off", "up", "broken"}] /\ sent' \in [Streams -> SUBSET Orders]
  BY DEF RemoveWorker, TypeInv, TypeOK, FleetTypeOK
<1>3. StoreTypeOK' /\ HistoryTypeOK'
  BY DEF RemoveWorker, TypeInv, TypeOK, storeVars, history, StoreTypeOK, HistoryTypeOK
<1>4. SubmitTypeOK' /\ ReservationsCover'
  BY DEF RemoveWorker, TypeInv, TypeOK, SubmitTypeOK, ReservationsCover, SubmitsOf
<1>5. CASE w \notin Attached
  <2>1. UNCHANGED <<pending, running, queue, owner, attached, inFlight, loopVars>>
    BY <1>5 DEF RemoveWorker
  <2>2. JobsTypeOK' /\ FleetTypeOK' /\ PassTypeOK'
    BY <1>2, <2>1 DEF RemoveWorker, TypeInv, TypeOK, JobsTypeOK, FleetTypeOK, PassTypeOK,
       loopVars
  <2> QED
    BY <1>3, <1>4, <2>2 DEF TypeInv, TypeOK
<1>6. CASE w \in Attached
  <2> DEFINE S == {j \in Jobs : OrphansOf(w, j) # {}}
  <2>1. /\ owner' = [k \in Keys |->
              IF \E o \in inFlight[w] : Key(o) = k THEN Unowned ELSE owner[k]]
        /\ running' = [j \in Jobs |-> running[j] \ OrphansOf(w, j)]
        /\ pending' = [j \in Jobs |-> pending[j] \cup OrphansOf(w, j)]
        /\ PushFront(S)
        /\ attached' = [attached EXCEPT ![w] = NoStream]
        /\ inFlight' = [inFlight EXCEPT ![w] = {}]
        /\ StartDispatch
    BY <1>6 DEF RemoveWorker
  <2>2. \A j \in Jobs : OrphansOf(w, j) \subseteq Orders
    BY DEF OrphansOf, TypeInv, TypeOK, JobsTypeOK
  <2>3. JobsTypeOK'
    <3>1. running' \in [Jobs -> SUBSET Orders]
      BY <2>1 DEF TypeInv, TypeOK, JobsTypeOK
    <3>2. pending' \in [Jobs -> SUBSET Orders]
      BY <2>1, <2>2 DEF TypeInv, TypeOK, JobsTypeOK
    <3> QED
      BY <3>1, <3>2 DEF RemoveWorker, TypeInv, TypeOK, JobsTypeOK
  <2>4. FleetTypeOK'
    <3>1. owner' \in [Keys -> (Jobs \X Workers) \cup {Unowned}]
      BY <2>1 DEF TypeInv, TypeOK, FleetTypeOK
    <3> QED
      BY <1>2, <2>1, <3>1 DEF TypeInv, TypeOK, FleetTypeOK
  <2>5. queue' \in Seq(Jobs)
    <3>1. PICK front \in Arrangements(S \ Range(queue)) : queue' = front \o queue
      BY <2>1 DEF PushFront
    <3>2. front \in Seq(S \ Range(queue)) /\ S \ Range(queue) \in SUBSET Jobs
      BY ArrangementType
    <3>3. front \in Seq(Jobs)
      BY <3>2, SeqMonotonic
    <3> QED
      BY <3>1, <3>3, ConcatProperties DEF TypeInv, TypeOK, PassTypeOK
  <2>6. PassTypeOK'
    BY <2>1, <2>5, StartDispatchType DEF PassTypeOK
  <2> QED
    BY <1>3, <1>4, <2>3, <2>4, <2>6 DEF TypeInv, TypeOK
<1> QED
  BY <1>5, <1>6

LEMMA BreakType ==
  ASSUME TypeInv, NEW s \in Streams, Break(s)
  PROVE  TypeInv'
<1>1. FleetTypeOK'
  BY DEF Break, TypeInv, TypeOK, FleetTypeOK
<1>2. StoreTypeOK' /\ JobsTypeOK' /\ PassTypeOK' /\ HistoryTypeOK'
  BY DEF Break, TypeInv, TypeOK, storeVars, jobVars, loopVars, history, StoreTypeOK,
     JobsTypeOK, PassTypeOK, HistoryTypeOK
<1>3. SubmitTypeOK' /\ ReservationsCover'
  BY DEF Break, TypeInv, TypeOK, SubmitTypeOK, ReservationsCover, SubmitsOf
<1> QED
  BY <1>1, <1>2, <1>3 DEF TypeInv, TypeOK

LEMMA LateResultType ==
  ASSUME TypeInv, NEW s \in Streams, NEW o \in Orders, LateResult(s, o)
  PROVE  TypeInv'
<1>1. FleetTypeOK'
  BY DEF LateResult, TypeInv, TypeOK, FleetTypeOK
<1>2. StoreTypeOK' /\ JobsTypeOK' /\ PassTypeOK' /\ HistoryTypeOK'
  BY DEF LateResult, TypeInv, TypeOK, storeVars, jobVars, loopVars, history,
     StoreTypeOK, JobsTypeOK, PassTypeOK, HistoryTypeOK
<1>3. SubmitTypeOK' /\ ReservationsCover'
  BY DEF LateResult, TypeInv, TypeOK, SubmitTypeOK, ReservationsCover, SubmitsOf
<1> QED
  BY <1>1, <1>2, <1>3 DEF TypeInv, TypeOK

(* What an accepted result leaves typed, whatever it says.                   *)
LEMMA SettleType ==
  ASSUME TypeInv, NEW s \in Streams, NEW o \in Orders, NEW j \in Jobs,
         NEW st \in JobStates, NEW more \in SUBSET Orders, NEW abort \in BOOLEAN,
         Settle(s, o, j, st, more, abort),
         afterBuild' \in [Jobs -> SUBSET Groups], attempts' \in [Jobs -> Nat]
  PROVE  /\ JobsTypeOK' /\ FleetTypeOK' /\ PassTypeOK' /\ SubmitTypeOK'
         /\ ReservationsCover' /\ told' \in [Jobs -> Nat] /\ emptied' = emptied
<1> DEFINE left == {r \in running[j] : Key(r) # Key(o)}
           waiting == IF aborted[j] \/ abort THEN {} ELSE pending[j] \cup more
           over == Over(left, waiting)
           final == Verdict(st, over)
<1>1. left \in SUBSET Orders /\ waiting \in SUBSET Orders
  BY DEF TypeInv, TypeOK, JobsTypeOK
<1>2. final \in JobStates
  BY DEF Verdict, JobStates
<1>3. /\ pending' = [pending EXCEPT ![j] = waiting]
      /\ running' = [running EXCEPT ![j] = left]
      /\ state' = [state EXCEPT ![j] = final]
      /\ logged' = [logged EXCEPT ![j] = final]
      /\ aborted' = [aborted EXCEPT ![j] = @ \/ abort]
      /\ told' = IF over THEN [told EXCEPT ![j] = @ + 1] ELSE told
  BY DEF Settle, Persist
<1> HIDE DEF left, waiting, over, final
<1>4. aborted' \in [Jobs -> BOOLEAN]
  BY <1>3, Zenon DEF TypeInv, TypeOK, JobsTypeOK
<1>5. JobsTypeOK'
  <2>1. pending' \in [Jobs -> SUBSET Orders] /\ running' \in [Jobs -> SUBSET Orders]
    BY <1>1, <1>3 DEF TypeInv, TypeOK, JobsTypeOK
  <2>2. state' \in [Jobs -> JobStates] /\ logged' \in [Jobs -> JobStates]
    BY <1>2, <1>3 DEF TypeInv, TypeOK, JobsTypeOK
  <2>3. job' \in [Jobs -> [client : ClientIds, cand : Candidates, rev : Revs]]
    BY DEF Settle, TypeInv, TypeOK, JobsTypeOK
  <2> QED
    BY <1>4, <2>1, <2>2, <2>3 DEF JobsTypeOK
<1>6. FleetTypeOK'
  <2>1. WorkerOf[s] \in Workers /\ Key(o) \in Keys
    BY OrderTypes DEF SchedulerAssumption
  <2>2. owner' \in [Keys -> (Jobs \X Workers) \cup {Unowned}]
    BY <2>1 DEF Settle, Disown, TypeInv, TypeOK, FleetTypeOK
  <2>3. inFlight' \in [Workers -> SUBSET Orders]
    BY <2>1 DEF Settle, TypeInv, TypeOK, FleetTypeOK
  <2> QED
    BY <2>2, <2>3 DEF Settle, TypeInv, TypeOK, FleetTypeOK
<1>7. PassTypeOK'
  <2>1. queue' \in Seq(Jobs)
    BY AppendProperties DEF Settle, PushBack, TypeInv, TypeOK, PassTypeOK
  <2> QED
    BY <2>1, StartDispatchType DEF Settle, PassTypeOK
<1>8. SubmitTypeOK' /\ ReservationsCover' /\ emptied' = emptied
  BY DEF Settle, TypeInv, TypeOK, SubmitTypeOK, ReservationsCover, SubmitsOf
<1>9. told' \in [Jobs -> Nat]
  BY <1>3 DEF TypeInv, TypeOK, HistoryTypeOK
<1> QED
  BY <1>5, <1>6, <1>7, <1>8, <1>9

(* The parts of the type invariant a result leaves to its own branch.        *)
LEMMA ResultType ==
  ASSUME TypeInv, NEW s \in Streams, NEW o \in Orders, NEW j \in Jobs,
         NEW st \in JobStates, NEW more \in SUBSET Orders, NEW abort \in BOOLEAN,
         Settle(s, o, j, st, more, abort), StoreTypeOK',
         afterBuild' \in [Jobs -> SUBSET Groups], attempts' \in [Jobs -> Nat],
         carries' \in [Orders -> SUBSET Copies],
         recorded' \in [Orders -> Nat], proven' \in SUBSET Copies
  PROVE  TypeInv'
<1>1. /\ JobsTypeOK' /\ FleetTypeOK' /\ PassTypeOK' /\ SubmitTypeOK'
      /\ ReservationsCover' /\ told' \in [Jobs -> Nat] /\ emptied' = emptied
  BY SettleType
<1>2. HistoryTypeOK'
  BY <1>1 DEF TypeInv, TypeOK, HistoryTypeOK
<1> QED
  BY <1>1, <1>2 DEF TypeInv, TypeOK

LEMMA BuildSucceededType ==
  ASSUME TypeInv, NEW s \in Streams, NEW o \in Orders, NEW j \in Jobs,
         BuildSucceeded(s, o, j)
  PROVE  TypeInv'
<1> DEFINE c == job[j].cand
           playable == {g \in afterBuild[j] : \A r \in Rivals[g] :
                                                live'[r].status = "READY"}
           matches == {MatchOrder(j, g) : g \in playable}
<1>1. c \in Candidates /\ job[j].rev \in Revs /\ state[j] \in JobStates
  BY DEF TypeInv, TypeOK, JobsTypeOK
<1>2. StoreTypeOK'
  BY <1>1, SetStatusType DEF BuildSucceeded
<1>3. playable \in SUBSET Groups
  BY DEF TypeInv, TypeOK, JobsTypeOK
<1>4. matches \in SUBSET Orders /\ \A m \in matches : m[3] \in Groups
  <2>1. \A g \in Groups : MatchOrder(j, g) \in Orders /\ MatchOrder(j, g)[3] = g
    BY OrderTypes DEF MatchOrder
  <2> QED
    BY <1>3, <2>1
<1>5. carries' \in [Orders -> SUBSET Copies]
  <2>1. carries' = [m \in Orders |->
           IF m \notin matches THEN carries[m]
           ELSE {<<r, live'[r].rev>> : r \in {c} \cup Rivals[m[3]]}]
    BY DEF BuildSucceeded
  <2>2. \A g \in Groups : {<<r, live'[r].rev>> : r \in {c} \cup Rivals[g]} \in SUBSET Copies
    BY <1>1, <1>2 DEF StoreTypeOK, Entry, Copies, SchedulerAssumption
  <2> HIDE DEF matches, c
  <2> QED
    BY <1>4, <2>1, <2>2 DEF TypeInv, TypeOK, HistoryTypeOK
<1>6. afterBuild' \in [Jobs -> SUBSET Groups] /\ attempts' \in [Jobs -> Nat]
  BY DEF BuildSucceeded, TypeInv, TypeOK, JobsTypeOK
<1>7. /\ recorded' \in [Orders -> Nat]
      /\ proven' \in SUBSET Copies
  BY DEF BuildSucceeded, TypeInv, TypeOK, HistoryTypeOK
<1>8. Settle(s, o, j, state[j], matches, FALSE) /\ FALSE \in BOOLEAN
  BY DEF BuildSucceeded
<1> HIDE DEF matches
<1> QED
  BY <1>1, <1>2, <1>4, <1>5, <1>6, <1>7, <1>8, ResultType

LEMMA BuildEngineFailedType ==
  ASSUME TypeInv, NEW s \in Streams, NEW o \in Orders, NEW j \in Jobs,
         BuildEngineFailed(s, o, j)
  PROVE  TypeInv'
<1> DEFINE n == attempts[j] + 1
           again == TryAgain(j, n)
           st == IF again THEN state[j] ELSE "FAILED"
           more == IF again THEN {BuildOrder(j, n + 1)} ELSE {}
<1>1. n \in Nat /\ st \in JobStates
  BY DEF TypeInv, TypeOK, JobsTypeOK, JobStates
<1>2. again => BuildOrder(j, n + 1) \in Orders
  <2> SUFFICES ASSUME again PROVE BuildOrder(j, n + 1) \in Orders
    OBVIOUS
  <2>1. n < MaxAttempts
    BY Zenon DEF TryAgain
  <2> HIDE DEF n
  <2>2. n + 1 \in 1 .. MaxAttempts
    BY <1>1, <2>1 DEF MaxAttempts
  <2> QED
    BY <2>2, OrderTypes
<1>3. more \in SUBSET Orders /\ FALSE \in BOOLEAN
  BY <1>2
<1>4. carries' \in [Orders -> SUBSET Copies]
  <2>1. \/ carries' = carries
        \/ carries' = [carries EXCEPT ![BuildOrder(j, n + 1)] = carries[o]]
    BY Zenon DEF BuildEngineFailed
  <2> QED
    BY <2>1 DEF TypeInv, TypeOK, HistoryTypeOK
<1>5. Settle(s, o, j, st, more, FALSE)
  BY DEF BuildEngineFailed
<1>6. attempts' \in [Jobs -> Nat] /\ afterBuild' \in [Jobs -> SUBSET Groups]
  BY DEF BuildEngineFailed, TypeInv, TypeOK, JobsTypeOK
<1>7. /\ recorded' \in [Orders -> Nat]
      /\ proven' \in SUBSET Copies /\ StoreTypeOK'
  BY DEF BuildEngineFailed, TypeInv, TypeOK, HistoryTypeOK, StoreTypeOK, storeVars
<1> HIDE DEF st, more
<1> QED
  BY <1>1, <1>3, <1>4, <1>5, <1>6, <1>7, ResultType

LEMMA BuildBlamedType ==
  ASSUME TypeInv, NEW s \in Streams, NEW o \in Orders, NEW j \in Jobs,
         BuildBlamed(s, o, j)
  PROVE  TypeInv'
<1>1. job[j].cand \in Candidates /\ 0 \in Revs /\ "FAILED" \in JobStates
  BY DEF TypeInv, TypeOK, JobsTypeOK, JobStates, Revs, StoreAssumption
<1>2. StoreTypeOK'
  BY <1>1, SetStatusType DEF BuildBlamed
<1>3. Settle(s, o, j, "FAILED", {}, TRUE) /\ TRUE \in BOOLEAN /\ {} \in SUBSET Orders
  BY DEF BuildBlamed
<1>4. attempts' \in [Jobs -> Nat] /\ afterBuild' \in [Jobs -> SUBSET Groups]
  BY DEF BuildBlamed, TypeInv, TypeOK, JobsTypeOK
<1>5. /\ recorded' \in [Orders -> Nat]
      /\ proven' \in SUBSET Copies /\ carries' \in [Orders -> SUBSET Copies]
  BY DEF BuildBlamed, TypeInv, TypeOK, HistoryTypeOK
<1> QED
  BY <1>1, <1>2, <1>3, <1>4, <1>5, ResultType

LEMMA MatchBlamedType ==
  ASSUME TypeInv, NEW s \in Streams, NEW o \in Orders, NEW j \in Jobs,
         NEW who \in Candidates, MatchBlamed(s, o, j, who)
  PROVE  TypeInv'
<1>1. 0 \in Revs /\ "FAILED" \in JobStates
  BY DEF JobStates, Revs, StoreAssumption
<1>2. StoreTypeOK'
  BY <1>1, SetStatusType DEF MatchBlamed
<1>3. Settle(s, o, j, "FAILED", {}, TRUE) /\ TRUE \in BOOLEAN /\ {} \in SUBSET Orders
  BY DEF MatchBlamed
<1>4. attempts' \in [Jobs -> Nat] /\ afterBuild' \in [Jobs -> SUBSET Groups]
  BY DEF MatchBlamed, TypeInv, TypeOK, JobsTypeOK
<1>5. /\ recorded' \in [Orders -> Nat]
      /\ proven' \in SUBSET Copies /\ carries' \in [Orders -> SUBSET Copies]
  BY DEF MatchBlamed, TypeInv, TypeOK, HistoryTypeOK
<1> QED
  BY <1>1, <1>2, <1>3, <1>4, <1>5, ResultType

LEMMA MatchErrorType ==
  ASSUME TypeInv, NEW s \in Streams, NEW o \in Orders, NEW j \in Jobs,
         MatchError(s, o, j)
  PROVE  TypeInv'
<1>1. state[j] \in JobStates /\ FALSE \in BOOLEAN /\ {} \in SUBSET Orders
  BY DEF TypeInv, TypeOK, JobsTypeOK
<1>2. Settle(s, o, j, state[j], {}, FALSE)
  BY DEF MatchError
<1>3. attempts' \in [Jobs -> Nat] /\ afterBuild' \in [Jobs -> SUBSET Groups]
  BY DEF MatchError, TypeInv, TypeOK, JobsTypeOK
<1>4. /\ recorded' \in [Orders -> Nat]
      /\ proven' \in SUBSET Copies /\ carries' \in [Orders -> SUBSET Copies]
      /\ StoreTypeOK'
  BY DEF MatchError, TypeInv, TypeOK, HistoryTypeOK, StoreTypeOK, storeVars
<1> QED
  BY <1>1, <1>2, <1>3, <1>4, ResultType

LEMMA MatchPlayedType ==
  ASSUME TypeInv, NEW s \in Streams, NEW o \in Orders, NEW j \in Jobs,
         MatchPlayed(s, o, j)
  PROVE  TypeInv'
<1>1. /\ state[j] \in JobStates /\ FALSE \in BOOLEAN /\ {} \in SUBSET Orders
      /\ job[j].cand \in Candidates /\ 0 \in Revs
  BY DEF TypeInv, TypeOK, JobsTypeOK, Revs, StoreAssumption
<1>2. StoreTypeOK'
  BY <1>1, SetStatusType DEF MatchPlayed
<1>3. Settle(s, o, j, state[j], {}, FALSE)
  BY DEF MatchPlayed
<1>4. attempts' \in [Jobs -> Nat] /\ afterBuild' \in [Jobs -> SUBSET Groups]
  BY DEF MatchPlayed, TypeInv, TypeOK, JobsTypeOK
<1>5. /\ recorded' \in [Orders -> Nat]
      /\ proven' \in SUBSET Copies /\ carries' \in [Orders -> SUBSET Copies]
  BY <1>1 DEF MatchPlayed, TypeInv, TypeOK, HistoryTypeOK
<1> QED
  BY <1>1, <1>2, <1>3, <1>4, <1>5, ResultType

LEMMA StutterType == TypeInv /\ UNCHANGED vars => TypeInv'
<1> SUFFICES ASSUME TypeInv, UNCHANGED vars PROVE TypeInv'
  OBVIOUS
<1>1. StoreTypeOK' /\ JobsTypeOK' /\ FleetTypeOK' /\ PassTypeOK'
  BY DEF vars, storeVars, jobVars, fleetVars, loopVars, TypeInv, TypeOK, StoreTypeOK,
     JobsTypeOK, FleetTypeOK, PassTypeOK
<1>2. HistoryTypeOK' /\ SubmitTypeOK' /\ ReservationsCover'
  BY DEF vars, history, TypeInv, TypeOK, HistoryTypeOK, SubmitTypeOK,
     ReservationsCover, SubmitsOf
<1> QED
  BY <1>1, <1>2 DEF TypeInv, TypeOK

LEMMA NextType == TypeInv /\ [Next]_vars => TypeInv'
<1> SUFFICES ASSUME TypeInv, [Next]_vars PROVE TypeInv'
  OBVIOUS
<1>1. ASSUME NEW cl \in Clients, NEW cancel \in BOOLEAN, TryReserve(cl, cancel)
      PROVE TypeInv'
  BY <1>1, TryReserveType
<1>2. ASSUME NEW cl \in Clients, RejectSubmission(cl) PROVE TypeInv'
  BY <1>2, RejectSubmissionType
<1>3. ASSUME NEW cl \in Clients, NEW c \in Candidates, StoreSubmission(cl, c)
      PROVE TypeInv'
  BY <1>3, StoreSubmissionType
<1>4. ASSUME NEW sub \in submits, NEW j \in Jobs, NEW ladder \in Ladders(sub.cand),
             EnqueuePlacement(sub, j, ladder)
      PROVE TypeInv'
  BY <1>4, EnqueuePlacementType
<1>5. ASSUME NEW c \in Candidates, NEW g \in Groups, NEW j \in Jobs, EnqueueMatch(c, g, j)
      PROVE TypeInv'
  BY <1>5, EnqueueMatchType
<1>6. ASSUME Dispatch PROVE TypeInv'
  BY <1>6, DropSpentJobType, NoRoomType, SendOrderType, SendFailsType, EndOfPassType
  DEF Dispatch
<1>7. ASSUME NEW s \in Streams, AddWorker(s) \/ RemoveWorker(s) \/ Break(s)
      PROVE TypeInv'
  BY <1>7, AddWorkerType, RemoveWorkerType, BreakType
<1>8. ASSUME NEW s \in Streams, NEW o \in Orders, OnResult(s, o) PROVE TypeInv'
  BY <1>8, LateResultType, BuildSucceededType, BuildEngineFailedType, BuildBlamedType,
     MatchBlamedType, MatchErrorType, MatchPlayedType DEF OnResult, AwaitedResult
<1>9. CASE UNCHANGED vars
  BY <1>9, StutterType
<1> QED
  BY <1>1, <1>2, <1>3, <1>4, <1>5, <1>6, <1>7, <1>8, <1>9 DEF Next, Submission, Fleet

(* Type correctness, for every instance of the scheduler: every entry of    *)
(* jobs_, workers_, order_owner_ and reserved_ is of its kind, reserved_     *)
(* never goes below zero, and a job has at most MaxAttempts build orders.    *)
THEOREM TypeCorrect == SafetySpec => []TypeOK
<1>1. SafetySpec => []TypeInv
  BY InitType, NextType, PTL DEF SafetySpec
<1>2. TypeInv => TypeOK
  BY DEF TypeInv
<1> QED
  BY <1>1, <1>2, PTL

-----------------------------------------------------------------------------
(* The inductive invariant, one job at a time.                               *)

Work(j) == pending[j] \cup running[j]

(* A job's orders are its own, and none is waiting and running at once.      *)
OwnOrders(j) ==
  /\ \A o \in Work(j) : o[2] = j
  /\ pending[j] \cap running[j] = {}

(* A build order is alone in its job; with a match order, the groups have    *)
(* been dealt out.                                                           *)
BuildThenPlay(j) ==
  \A o \in Work(j) : /\ o[1] = "build" => Work(j) = {o}
                     /\ o[1] # "build" => afterBuild[j] = {}

(* A job that is open has work, one that is over or not there yet has none;  *)
(* a job that failed may still have some, but only if it was aborted.        *)
WorkWhileOpen(j) ==
  /\ state[j] \in Open => Work(j) # {}
  /\ state[j] \in {"NONE", "DONE", "CANCELLED"} => Work(j) = {}
  /\ state[j] = "FAILED" => aborted[j] \/ Work(j) = {}

(* on_concluded has heard of the job at most once, and only after its end.   *)
ToldAtTheEnd(j) ==
  /\ told[j] \in {0, 1}
  /\ told[j] = 1 => state[j] \in {"DONE", "FAILED"} /\ Work(j) = {}

(* What was counted is no one's work any more and will not be again.         *)
CountedIsGone(j) ==
  \A o \in Orders : o[2] = j /\ recorded[o] > 0 =>
    o[1] = "match" /\ o \notin Work(j) /\ state[j] # "NONE" /\ afterBuild[j] = {}

SoundJob(j) ==
  /\ OwnOrders(j) /\ BuildThenPlay(j) /\ WorkWhileOpen(j) /\ ToldAtTheEnd(j)
  /\ CountedIsGone(j)

JobsInv == (\A j \in Jobs : SoundJob(j)) /\ OwnedIsRunning

USE SchedulerAssumption, StoreAssumption

-----------------------------------------------------------------------------
(* A job a step does not touch.                                              *)

LEMMA SameJob ==
  ASSUME NEW j \in Jobs, SoundJob(j),
         pending'[j] = pending[j], running'[j] = running[j], state'[j] = state[j],
         aborted[j] => aborted'[j], afterBuild'[j] = afterBuild[j], told'[j] = told[j],
         \A o \in Orders : o[2] = j => recorded'[o] = recorded[o]
  PROVE  SoundJob(j)'
<1>1. Work(j)' = Work(j)
  BY DEF Work
<1>2. OwnOrders(j)' /\ BuildThenPlay(j)' /\ ToldAtTheEnd(j)'
  BY <1>1 DEF SoundJob, OwnOrders, BuildThenPlay, ToldAtTheEnd
<1>3. WorkWhileOpen(j)'
  BY <1>1, Zenon DEF SoundJob, WorkWhileOpen
<1>4. CountedIsGone(j)'
  BY <1>1 DEF SoundJob, CountedIsGone
<1> QED
  BY <1>2, <1>3, <1>4 DEF SoundJob

(* A step that touches no job and no owner.                                  *)
LEMMA SameJobs ==
  ASSUME JobsInv,
         UNCHANGED <<pending, running, state, aborted, afterBuild, told, recorded,
                     owner, emptied>>
  PROVE  JobsInv'
<1>1. \A j \in Jobs : SoundJob(j)'
  <2> TAKE j \in Jobs
  <2> QED
    BY SameJob DEF JobsInv
<1>2. OwnedIsRunning'
  BY DEF JobsInv, OwnedIsRunning, Key
<1> QED
  BY <1>1, <1>2 DEF JobsInv

(* A job with work is open, or it failed and was aborted; no one was told.   *)
LEMMA WorkingJob ==
  ASSUME TypeInv, NEW j \in Jobs, SoundJob(j), Work(j) # {}
  PROVE  /\ state[j] \in Open \/ (state[j] = "FAILED" /\ aborted[j])
         /\ told[j] = 0
<1>1. state[j] \in {"NONE", "DONE", "CANCELLED", "FAILED"} \cup Open
  BY DEF TypeInv, TypeOK, JobsTypeOK, JobStates, Open
<1>2. state[j] \in Open \/ (state[j] = "FAILED" /\ aborted[j])
  BY <1>1, Zenon DEF SoundJob, WorkWhileOpen
<1>3. told[j] = 0
  BY DEF SoundJob, ToldAtTheEnd
<1> QED
  BY <1>2, <1>3

(* An order is its own key, or it is empty.                                  *)
LEMMA KeyOfOrder ==
  \A o \in Orders : Key(o) = o \/ (o \in emptied /\ Key(o) = Blank)
BY DEF Key

-----------------------------------------------------------------------------
(* Dispatching.                                                              *)

LEMMA SendOrderJobs ==
  ASSUME TypeInv, JobsInv, NEW w \in Workers, NEW o \in Orders, SendOrder(w, o)
  PROVE  JobsInv'
<1>1. PICK j \in Jobs : j = Scanned
  BY LenProperties, ElementOfSeq
  DEF SendOrder, Scanning, Scanned, TypeInv, TypeOK, PassTypeOK
<1>2. o \in pending[j] /\ o \in Work(j) /\ SoundJob(j)
  BY <1>1 DEF SendOrder, Work, JobsInv
<1>3. state[j] \in Open /\ told[j] = 0
  <2>1. Work(j) # {}
    BY <1>2
  <2>2. ~ aborted[j]
    BY <1>1, Zenon DEF SendOrder, Spent
  <2> QED
    BY <1>1, <1>2, <2>1, <2>2, WorkingJob
<1>4. /\ pending' = [pending EXCEPT ![j] = @ \ {o}]
      /\ running' = [running EXCEPT ![j] = {r \in @ : Key(r) # Key(o)} \cup {o}]
      /\ state' = [state EXCEPT ![j] = "RUNNING"]
      /\ owner' = [owner EXCEPT ![Key(o)] = <<j, w>>]
      /\ UNCHANGED <<aborted, afterBuild, told, recorded, emptied>>
  BY <1>1 DEF SendOrder, history
<1>5. /\ pending \in [Jobs -> SUBSET Orders] /\ running \in [Jobs -> SUBSET Orders]
      /\ state \in [Jobs -> JobStates]
      /\ owner \in [Keys -> (Jobs \X Workers) \cup {Unowned}] /\ Key(o) \in Keys
  <2>1. Key(o) \in Keys
    BY OrderTypes
  <2> QED
    BY <2>1 DEF TypeInv, TypeOK, JobsTypeOK, FleetTypeOK
<1>6. Work(j)' \subseteq Work(j) /\ o \in Work(j)'
  BY <1>1, <1>2, <1>4, <1>5 DEF Work
<1>7. SoundJob(j)'
  <2>1. OwnOrders(j)'
    BY <1>1, <1>2, <1>4, <1>5, <1>6 DEF SoundJob, OwnOrders, Work
  <2>2. BuildThenPlay(j)'
    BY <1>2, <1>4, <1>6 DEF SoundJob, BuildThenPlay
  <2>3. WorkWhileOpen(j)'
    <3>1. state'[j] = "RUNNING" /\ Work(j)' # {}
      BY <1>1, <1>4, <1>5, <1>6
    <3> QED
      BY <3>1 DEF WorkWhileOpen
  <2>4. ToldAtTheEnd(j)'
    BY <1>3, <1>4 DEF ToldAtTheEnd
  <2>5. CountedIsGone(j)'
    <3>1. state'[j] = "RUNNING"
      BY <1>1, <1>4, <1>5
    <3> QED
      BY <1>2, <1>4, <1>6, <3>1 DEF SoundJob, CountedIsGone
  <2> QED
    BY <2>1, <2>2, <2>3, <2>4, <2>5 DEF SoundJob
<1>8. \A i \in Jobs : SoundJob(i)'
  <2> TAKE i \in Jobs
  <2>1. CASE i = j
    BY <1>7, <2>1
  <2>2. CASE i # j
    BY <1>4, <1>5, <2>2, SameJob DEF JobsInv
  <2> QED
    BY <2>1, <2>2
<1>9. OwnedIsRunning'
  <2> SUFFICES ASSUME NEW k \in Keys, owner'[k] # Unowned
               PROVE  \E r \in running'[owner'[k][1]] : Key(r)' = k
    BY DEF OwnedIsRunning
  <2>1. \A r \in Orders : Key(r)' = Key(r)
    BY <1>4 DEF Key
  <2>2. CASE k = Key(o)
    <3>1. owner'[k][1] = j /\ o \in running'[j]
      BY <1>1, <1>4, <1>5, <2>2
    <3> QED
      BY <2>1, <2>2, <3>1
  <2>3. CASE k # Key(o)
    <3>1. owner'[k] = owner[k]
      BY <1>4, <1>5, <2>3
    <3>2. PICK r \in running[owner[k][1]] : Key(r) = k
      BY <3>1 DEF JobsInv, OwnedIsRunning
    <3>3. owner[k][1] \in Jobs /\ r \in Orders
      BY <1>5, <3>1, <3>2
    <3>4. r \in running'[owner[k][1]]
      BY <1>1, <1>4, <1>5, <2>3, <3>2, <3>3
    <3> QED
      BY <2>1, <3>1, <3>2, <3>3, <3>4
  <2> QED
    BY <2>2, <2>3
<1> QED
  BY <1>8, <1>9 DEF JobsInv

(* The emptied order is waiting, so that no running order's key changes.     *)
LEMMA SendFailsJobs ==
  ASSUME TypeInv, JobsInv, NEW w \in Workers, NEW o \in Orders, SendFails(w, o)
  PROVE  JobsInv'
<1>1. Scanned \in Jobs /\ o \in pending[Scanned]
  BY LenProperties, ElementOfSeq
  DEF SendFails, Scanning, Scanned, TypeInv, TypeOK, PassTypeOK
<1>2. UNCHANGED <<pending, running, state, aborted, afterBuild, told, recorded, owner>>
  BY DEF SendFails, jobVars, fleetVars, history
<1>3. emptied' = emptied \cup {o}
  BY DEF SendFails
<1>4. \A i \in Jobs : o \notin running[i]
  <2> TAKE i \in Jobs
  <2>1. o[2] = Scanned
    BY <1>1 DEF JobsInv, SoundJob, OwnOrders, Work
  <2>2. o \in running[i] => o[2] = i
    BY DEF JobsInv, SoundJob, OwnOrders, Work
  <2> QED
    BY <1>1, <2>1, <2>2 DEF JobsInv, SoundJob, OwnOrders
<1>5. \A i \in Jobs : SoundJob(i)'
  <2> TAKE i \in Jobs
  <2> QED
    BY <1>2, SameJob DEF JobsInv
<1>6. OwnedIsRunning'
  <2> SUFFICES ASSUME NEW k \in Keys, owner[k] # Unowned
               PROVE  \E r \in running[owner[k][1]] : Key(r)' = k
    BY <1>2 DEF OwnedIsRunning
  <2>1. PICK r \in running[owner[k][1]] : Key(r) = k
    BY DEF JobsInv, OwnedIsRunning
  <2>2. owner[k][1] \in Jobs
    BY DEF TypeInv, TypeOK, FleetTypeOK
  <2>3. r # o
    BY <1>4, <2>1, <2>2
  <2>4. Key(r)' = Key(r)
    BY <1>3, <2>3 DEF Key
  <2> QED
    BY <2>1, <2>4
<1> QED
  BY <1>5, <1>6 DEF JobsInv

-----------------------------------------------------------------------------
(* A worker leaves: its orders go from running to pending, the work of every *)
(* job stays what it was.                                                    *)

LEMMA RemoveWorkerJobs ==
  ASSUME TypeInv, JobsInv, NEW s \in Streams, RemoveWorker(s)
  PROVE  JobsInv'
<1>1. PICK w \in Workers : w = WorkerOf[s]
  BY DEF SchedulerAssumption
<1>2. UNCHANGED <<state, aborted, afterBuild, told, recorded, emptied>>
  BY DEF RemoveWorker, history
<1>3. CASE w \notin Attached
  <2>1. UNCHANGED <<pending, running, owner>>
    BY <1>1, <1>3 DEF RemoveWorker
  <2> QED
    BY <1>2, <2>1, SameJobs
<1>4. CASE w \in Attached
  <2>1. /\ owner' = [k \in Keys |->
              IF \E o \in inFlight[w] : Key(o) = k THEN Unowned ELSE owner[k]]
        /\ running' = [j \in Jobs |-> running[j] \ OrphansOf(w, j)]
        /\ pending' = [j \in Jobs |-> pending[j] \cup OrphansOf(w, j)]
    BY <1>1, <1>4 DEF RemoveWorker
  <2>2. \A j \in Jobs : Work(j)' = Work(j)
    BY <2>1 DEF Work, OrphansOf
  <2>3. \A j \in Jobs : SoundJob(j)'
    <3> TAKE j \in Jobs
    <3>1. SoundJob(j) /\ Work(j)' = Work(j)
      BY <2>2 DEF JobsInv
    <3>2. OwnOrders(j)'
      BY <2>1, <3>1 DEF SoundJob, OwnOrders, OrphansOf
    <3>3. BuildThenPlay(j)' /\ ToldAtTheEnd(j)' /\ CountedIsGone(j)'
      BY <1>2, <3>1 DEF SoundJob, BuildThenPlay, ToldAtTheEnd, CountedIsGone
    <3>4. WorkWhileOpen(j)'
      BY <1>2, <3>1, Zenon DEF SoundJob, WorkWhileOpen
    <3> QED
      BY <3>2, <3>3, <3>4 DEF SoundJob
  <2>4. OwnedIsRunning'
    <3> SUFFICES ASSUME NEW k \in Keys, owner'[k] # Unowned
                 PROVE  \E r \in running'[owner'[k][1]] : Key(r)' = k
      BY DEF OwnedIsRunning
    <3>1. owner'[k] = owner[k] /\ ~ \E o \in inFlight[w] : Key(o) = k
      BY <2>1
    <3>2. PICK r \in running[owner[k][1]] : Key(r) = k
      BY <3>1 DEF JobsInv, OwnedIsRunning
    <3>3. owner[k][1] \in Jobs
      BY <3>1 DEF TypeInv, TypeOK, FleetTypeOK
    <3>4. r \notin OrphansOf(w, owner[k][1])
      BY <3>1, <3>2 DEF OrphansOf, Orphans
    <3>5. r \in running'[owner[k][1]]
      BY <2>1, <3>2, <3>3, <3>4
    <3>6. Key(r)' = Key(r)
      BY <1>2 DEF Key
    <3> QED
      BY <3>1, <3>2, <3>5, <3>6
  <2> QED
    BY <2>3, <2>4 DEF JobsInv
<1> QED
  BY <1>3, <1>4

-----------------------------------------------------------------------------
(* Aborting jobs that are open.                                              *)

(* No key of an aborted order, and no order of an aborted job, stays owned.  *)
LEMMA AbortOwners ==
  ASSUME TypeInv, JobsInv, NEW A \in SUBSET Jobs, DropOrders(A), emptied' = emptied,
         \A i \in Jobs \ A : running'[i] = running[i]
  PROVE  OwnedIsRunning'
<1> SUFFICES ASSUME NEW k \in Keys, owner'[k] # Unowned
             PROVE  \E r \in running'[owner'[k][1]] : Key(r)' = k
  BY DEF OwnedIsRunning
<1>1. owner'[k] = owner[k] /\ k \notin AbortedKeys(A)
  BY DEF DropOrders
<1>2. PICK r \in running[owner[k][1]] : Key(r) = k
  BY <1>1 DEF JobsInv, OwnedIsRunning
<1>3. owner[k][1] \in Jobs
  BY <1>1 DEF TypeInv, TypeOK, FleetTypeOK
<1>4. owner[k][1] \notin A
  BY <1>1, <1>2 DEF AbortedKeys, AbortedOrders
<1>5. Key(r)' = Key(r)
  BY DEF Key
<1> QED
  BY <1>1, <1>2, <1>3, <1>4, <1>5

(* An aborted job is cancelled, without work.                                *)
LEMMA AbortedJob ==
  ASSUME TypeInv, NEW j \in Jobs, SoundJob(j), state[j] \in Open,
         pending'[j] = {}, running'[j] = {}, state'[j] = "CANCELLED",
         afterBuild'[j] = afterBuild[j], told'[j] = told[j], recorded' = recorded
  PROVE  SoundJob(j)'
<1>1. Work(j)' = {}
  BY DEF Work
<1>2. OwnOrders(j)' /\ BuildThenPlay(j)' /\ WorkWhileOpen(j)'
  BY <1>1 DEF OwnOrders, BuildThenPlay, WorkWhileOpen, Open
<1>3. told[j] = 0
  BY DEF SoundJob, ToldAtTheEnd, Open
<1>4. ToldAtTheEnd(j)'
  BY <1>3 DEF ToldAtTheEnd
<1>5. CountedIsGone(j)'
  BY <1>1 DEF SoundJob, CountedIsGone
<1> QED
  BY <1>2, <1>4, <1>5 DEF SoundJob

LEMMA TryReserveJobs ==
  ASSUME TypeInv, JobsInv, NEW cl \in Clients, NEW cancel \in BOOLEAN,
         TryReserve(cl, cancel)
  PROVE  JobsInv'
<1>1. PICK A \in SUBSET Jobs : /\ A = IF cancel THEN Mine(cl) ELSE {}
                               /\ \A i \in A : state[i] \in Open
  <2> DEFINE B == IF cancel THEN Mine(cl) ELSE {}
  <2>1. B \in SUBSET Jobs /\ \A i \in B : state[i] \in Open
    BY DEF Mine
  <2> QED
    BY <2>1
<1>2. /\ DropOrders(A)
      /\ pending' = PendingWithout(A) /\ running' = RunningWithout(A)
      /\ state' = Cancelled(state, A) /\ aborted' = AbortedWith(A)
      /\ UNCHANGED <<afterBuild, told, recorded, emptied>>
  BY <1>1 DEF TryReserve, history
<1>3. \A i \in Jobs : SoundJob(i)'
  <2> TAKE i \in Jobs
  <2>1. CASE i \in A
    BY <1>1, <1>2, <2>1, AbortedJob DEF JobsInv, PendingWithout, RunningWithout, Cancelled
  <2>2. CASE i \notin A
    <3>1. aborted[i] => aborted'[i]
      BY <1>2, <2>2, Zenon DEF AbortedWith
    <3> QED
      BY <1>2, <2>2, <3>1, SameJob DEF JobsInv, PendingWithout, RunningWithout, Cancelled
  <2> QED
    BY <2>1, <2>2
<1>4. \A i \in Jobs \ A : running'[i] = running[i]
  BY <1>2 DEF RunningWithout
<1> QED
  BY <1>2, <1>3, <1>4, AbortOwners DEF JobsInv

LEMMA EnqueueJobs ==
  ASSUME TypeInv, JobsInv, NEW j \in Jobs, NEW info, NEW groups,
         NEW buildFirst \in BOOLEAN, NEW A \in SUBSET Jobs,
         \A i \in A : state[i] \in Open, Enqueue(j, info, groups, buildFirst, A)
  PROVE  JobsInv'
<1>1. state[j] = "NONE" /\ j \notin A /\ SoundJob(j)
  BY DEF Enqueue, NextJob, Open, JobsInv
<1>2. Work(j) = {} /\ running[j] = {}
  BY <1>1 DEF SoundJob, WorkWhileOpen, Work
<1>3. told[j] = 0
  BY <1>1 DEF SoundJob, ToldAtTheEnd
<1>4. \A o \in Orders : o[2] = j => ~ (recorded[o] > 0)
  BY <1>1 DEF SoundJob, CountedIsGone
<1> DEFINE first == IF buildFirst THEN {BuildOrder(j, 1)}
                    ELSE {MatchOrder(j, g) : g \in {h \in groups : Runnable(h)}}
           st == IF first = {} THEN "FAILED" ELSE "QUEUED"
<1>5. /\ \A o \in first : o[2] = j /\ (o[1] = "build" <=> buildFirst)
      /\ buildFirst => first = {BuildOrder(j, 1)}
  BY DEF BuildOrder, MatchOrder
<1>6. /\ pending' = [PendingWithout(A) EXCEPT ![j] = first]
      /\ running' = RunningWithout(A)
      /\ state' = [Cancelled(state, A) EXCEPT ![j] = st]
      /\ aborted' = AbortedWith(A)
      /\ afterBuild' = [afterBuild EXCEPT ![j] = IF buildFirst THEN groups ELSE {}]
      /\ told' = IF first = {} THEN [told EXCEPT ![j] = @ + 1] ELSE told
      /\ DropOrders(A) /\ UNCHANGED <<recorded, emptied>>
  BY Zenon DEF Enqueue
<1>7. st = IF first = {} THEN "FAILED" ELSE "QUEUED"
  OBVIOUS
<1> HIDE DEF first, st
<1>8. pending'[j] = first /\ running'[j] = {} /\ state'[j] = st /\ Work(j)' = first
  BY <1>1, <1>2, <1>6 DEF PendingWithout, RunningWithout, Cancelled, Work
<1>9. SoundJob(j)'
  <2>1. OwnOrders(j)'
    BY <1>5, <1>8 DEF OwnOrders
  <2>2. BuildThenPlay(j)'
    <3>1. ~ buildFirst => afterBuild'[j] = {}
      BY <1>6 DEF TypeInv, TypeOK, JobsTypeOK
    <3> QED
      BY <1>5, <1>8, <3>1 DEF BuildThenPlay
  <2>3. WorkWhileOpen(j)'
    BY <1>7, <1>8 DEF WorkWhileOpen, Open
  <2>4. ToldAtTheEnd(j)'
    BY <1>3, <1>6, <1>7, <1>8 DEF ToldAtTheEnd, TypeInv, TypeOK, HistoryTypeOK
  <2>5. CountedIsGone(j)'
    BY <1>4, <1>6 DEF CountedIsGone
  <2> QED
    BY <2>1, <2>2, <2>3, <2>4, <2>5 DEF SoundJob
<1>10. \A i \in Jobs : SoundJob(i)'
  <2> TAKE i \in Jobs
  <2>1. CASE i = j
    BY <1>9, <2>1
  <2>2. CASE i # j
    <3>1. /\ pending'[i] = PendingWithout(A)[i] /\ running'[i] = RunningWithout(A)[i]
          /\ state'[i] = Cancelled(state, A)[i] /\ afterBuild'[i] = afterBuild[i]
          /\ told'[i] = told[i] /\ recorded' = recorded
      BY <1>6, <2>2 DEF PendingWithout, Cancelled, TypeInv, TypeOK, JobsTypeOK,
         HistoryTypeOK
    <3>2. CASE i \in A
      BY <3>1, <3>2, AbortedJob DEF JobsInv, PendingWithout, RunningWithout, Cancelled
    <3>3. CASE i \notin A
      <4>1. aborted[i] => aborted'[i]
        BY <1>6, <3>3, Zenon DEF AbortedWith
      <4> QED
        BY <3>1, <3>3, <4>1, SameJob DEF JobsInv, PendingWithout, RunningWithout, Cancelled
    <3> QED
      BY <3>2, <3>3
  <2> QED
    BY <2>1, <2>2
<1>11. \A i \in Jobs \ A : running'[i] = running[i]
  BY <1>6 DEF RunningWithout
<1> QED
  BY <1>6, <1>10, <1>11, AbortOwners DEF JobsInv

LEMMA EnqueuePlacementJobs ==
  ASSUME TypeInv, JobsInv, NEW sub \in submits, NEW j \in Jobs,
         NEW ladder \in Ladders(sub.cand), EnqueuePlacement(sub, j, ladder)
  PROVE  JobsInv'
<1> DEFINE info == [sub EXCEPT !.client = IF Metered THEN @ ELSE NoClient]
           A == Superseded(sub.cand)
<1>1. Enqueue(j, info, PlacementGroups \cup ladder, Archive, A)
  BY DEF EnqueuePlacement
<1>2. A \in SUBSET Jobs /\ \A i \in A : state[i] \in Open
  BY DEF Superseded
<1>3. Archive \in BOOLEAN
  BY DEF SchedulerAssumption
<1> HIDE DEF info, A
<1> QED
  BY <1>1, <1>2, <1>3, EnqueueJobs

LEMMA EnqueueMatchJobs ==
  ASSUME TypeInv, JobsInv, NEW c \in Candidates, NEW g \in Groups, NEW j \in Jobs,
         EnqueueMatch(c, g, j)
  PROVE  JobsInv'
<1>1. PICK info : Enqueue(j, info, {g}, FALSE, {}) /\ FALSE \in BOOLEAN
  BY DEF EnqueueMatch
<1> QED
  BY <1>1, EnqueueJobs

-----------------------------------------------------------------------------
(* Results.                                                                  *)

Left(o, j) == {r \in running[j] : Key(r) # Key(o)}

(* A result that is accepted answers an order its job is running; which one, *)
(* unless the order is empty, is certain.                                    *)
LEMMA AnsweredOrder ==
  ASSUME TypeInv, JobsInv, NEW o \in Orders, NEW j \in Jobs,
         owner[Key(o)] # Unowned, j = owner[Key(o)][1]
  PROVE  /\ \E r \in running[j] : r \in Orders /\ Key(r) = Key(o)
         /\ o \notin emptied => o \in running[j]
         /\ state[j] \in Open \/ (state[j] = "FAILED" /\ aborted[j])
         /\ told[j] = 0
<1>1. Key(o) \in Keys
  BY OrderTypes
<1>2. PICK r \in running[j] : Key(r) = Key(o)
  BY <1>1 DEF JobsInv, OwnedIsRunning
<1>3. r \in Orders
  BY <1>2 DEF TypeInv, TypeOK, JobsTypeOK
<1>4. o \notin emptied => r = o
  BY <1>2, <1>3, OrderTypes DEF Key
<1>5. Work(j) # {}
  BY <1>2 DEF Work
<1> QED
  BY <1>2, <1>3, <1>4, <1>5, WorkingJob DEF JobsInv

(* When the job runs a build order under the answered id, that was all the   *)
(* work it had.                                                              *)
LEMMA AnsweredBuild ==
  ASSUME TypeInv, JobsInv, NEW o \in Orders, NEW j \in Jobs, BuildRuns(o, j)
  PROVE  Left(o, j) = {} /\ pending[j] = {} /\ o[1] = "build"
<1>1. PICK r \in running[j] : Key(r) = Key(o) /\ r[1] = "build" /\ r \notin emptied
  BY DEF BuildRuns, IsBuild
<1>2. Work(j) = {r} /\ pending[j] \cap running[j] = {} /\ r \in Orders
  BY <1>1 DEF JobsInv, SoundJob, BuildThenPlay, OwnOrders, Work, TypeInv, TypeOK,
     JobsTypeOK
<1>3. r = o
  BY <1>1, <1>2, OrderTypes DEF Key
<1> QED
  BY <1>1, <1>2, <1>3 DEF Left, Work

(* Orders that may take the place of an answered one.                        *)
Replaces(o, j, more) ==
  /\ more # {} => Left(o, j) = {} /\ pending[j] = {}
  /\ \A m \in more : /\ m[2] = j /\ ~ (recorded[m] > 0)
                     /\ m[1] = "build" => more = {m}
                     /\ m[1] # "build" => afterBuild'[j] = {}

(* Groups are dealt out for this job at most, and none are added.             *)
DealsOutOnly(j) ==
  /\ \A i \in Jobs : i # j => afterBuild'[i] = afterBuild[i]
  /\ afterBuild[j] = {} => afterBuild'[j] = {}

LEMMA NothingReplaces ==
  /\ \A o, j : Replaces(o, j, {})
  /\ afterBuild' = afterBuild => \A j : DealsOutOnly(j)
BY DEF Replaces, DealsOutOnly

(* An accepted result, whatever it says, keeps the invariant and the verdict *)
(* there may be, if the orders it adds replace a build order.                *)
LEMMA SettleJobs ==
  ASSUME TypeInv, JobsInv, NEW s \in Streams, NEW o \in Orders, NEW j \in Jobs,
         NEW st, NEW more \in SUBSET Orders, NEW abort \in BOOLEAN,
         Settle(s, o, j, st, more, abort),
         st = state[j] \/ (st = "FAILED" /\ (abort \/ (Left(o, j) = {} /\ more = {} /\
                                                       pending[j] = {}))),
         Replaces(o, j, more),
         DealsOutOnly(j),
         \A x \in Orders : \/ recorded'[x] = recorded[x]
                           \/ x = o /\ o[1] = "match" /\ o \in running[j] /\ more = {}
  PROVE  /\ JobsInv'
         /\ \A i \in Jobs : state[i] \in Final => state'[i] = state[i]
<1> DEFINE left == Left(o, j)
           waiting == IF aborted[j] \/ abort THEN {} ELSE pending[j] \cup more
           over == Over(left, waiting)
           final == Verdict(st, over)
<1>0. /\ more # {} => Left(o, j) = {} /\ pending[j] = {}
      /\ \A m \in more : /\ m[2] = j /\ ~ (recorded[m] > 0)
                         /\ m[1] = "build" => more = {m}
                         /\ m[1] # "build" => afterBuild'[j] = {}
  BY DEF Replaces
<1> USE DEF DealsOutOnly
<1>1. /\ owner[Key(o)] # Unowned /\ j = owner[Key(o)][1]
      /\ running' = [running EXCEPT ![j] = left]
      /\ pending' = [pending EXCEPT ![j] = waiting]
      /\ aborted' = [aborted EXCEPT ![j] = @ \/ abort]
      /\ state' = [state EXCEPT ![j] = final]
      /\ told' = IF over THEN [told EXCEPT ![j] = @ + 1] ELSE told
      /\ owner' = [owner EXCEPT ![Key(o)] = Unowned]
      /\ emptied' = emptied
  BY Zenon DEF Settle, Left, Disown
<1>2. SoundJob(j) /\ (state[j] \in Open \/ (state[j] = "FAILED" /\ aborted[j])) /\ told[j] = 0
  BY <1>1, AnsweredOrder DEF JobsInv
<1>3. waiting \in {{}, pending[j] \cup more} /\ (abort => waiting = {})
  BY Zenon
<1>4. final = IF over /\ st # "FAILED" THEN "DONE" ELSE st
  BY DEF Verdict
<1>5. over <=> left = {} /\ waiting = {}
  BY DEF Over
<1>6. left \subseteq running[j] /\ o \notin left
  BY DEF Left
<1>7. left = Left(o, j)
  OBVIOUS
<1> HIDE DEF left, waiting, over, final
<1>8. /\ pending'[j] = waiting /\ running'[j] = left /\ state'[j] = final
      /\ told'[j] = (IF over THEN 1 ELSE 0) /\ Work(j)' = waiting \cup left
  BY <1>1, <1>2 DEF TypeInv, TypeOK, JobsTypeOK, HistoryTypeOK, Work
<1>10. waiting \cup left \subseteq Work(j) \/ waiting \cup left = more
  BY <1>0, <1>3, <1>6, <1>7 DEF Work
<1>11. SoundJob(j)'
  <2>1. OwnOrders(j)'
    <3>1. \A x \in waiting \cup left : x[2] = j
      BY <1>0, <1>2, <1>10 DEF SoundJob, OwnOrders
    <3>2. waiting \cap left = {}
      BY <1>0, <1>2, <1>3, <1>6, <1>7 DEF SoundJob, OwnOrders
    <3> QED
      BY <1>8, <3>1, <3>2 DEF OwnOrders
  <2>2. BuildThenPlay(j)'
    <3>1. CASE waiting \cup left = more
      BY <1>0, <1>8, <3>1 DEF BuildThenPlay
    <3>2. CASE waiting \cup left \subseteq Work(j)
      BY <1>2, <1>8, <3>2 DEF SoundJob, BuildThenPlay
    <3> QED
      BY <1>10, <3>1, <3>2
  <2>3. WorkWhileOpen(j)'
    <3>1. aborted[j] \/ abort => aborted'[j]
      BY <1>1, Zenon DEF TypeInv, TypeOK, JobsTypeOK
    <3>2. final = "FAILED" => aborted'[j] \/ waiting \cup left = {}
      <4>1. CASE st = state[j]
        BY <1>2, <1>4, <3>1, <4>1 DEF Open
      <4>2. CASE st = "FAILED" /\ abort
        BY <3>1, <4>2
      <4>3. CASE Left(o, j) = {} /\ more = {} /\ pending[j] = {}
        BY <1>3, <1>7, <4>3
      <4> QED
        BY <4>1, <4>2, <4>3
    <3>3. final \in Open => waiting \cup left # {}
      BY <1>4, <1>5 DEF Open
    <3>4. final \in {"NONE", "DONE", "CANCELLED"} => waiting \cup left = {}
      BY <1>2, <1>4, <1>5 DEF Open
    <3> QED
      BY <1>8, <3>2, <3>3, <3>4 DEF WorkWhileOpen
  <2>4. ToldAtTheEnd(j)'
    <3>1. over => final \in {"DONE", "FAILED"} /\ waiting \cup left = {}
      BY <1>4, <1>5
    <3> QED
      BY <1>8, <3>1 DEF ToldAtTheEnd
  <2>5. CountedIsGone(j)'
    <3> SUFFICES ASSUME NEW x \in Orders, x[2] = j, recorded'[x] > 0
                 PROVE  x[1] = "match" /\ x \notin waiting \cup left /\ final # "NONE"
                        /\ afterBuild'[j] = {}
      BY <1>8 DEF CountedIsGone
    <3>1. final # "NONE"
      BY <1>2, <1>4 DEF Open
    <3>2. CASE recorded'[x] = recorded[x]
      <4>1. x[1] = "match" /\ x \notin Work(j) /\ afterBuild[j] = {} /\ x \notin more
        BY <1>0, <1>2, <3>2 DEF SoundJob, CountedIsGone
      <4> QED
        BY <1>10, <3>1, <4>1
    <3>3. CASE x = o /\ o[1] = "match" /\ o \in running[j] /\ more = {}
      <4>1. afterBuild'[j] = {}
        BY <1>2, <3>3 DEF SoundJob, BuildThenPlay, Work
      <4>2. o \notin pending[j]
        BY <1>2, <3>3 DEF SoundJob, OwnOrders
      <4>3. o \notin waiting
        BY <1>3, <3>3, <4>2
      <4> QED
        BY <1>6, <3>1, <3>3, <4>1, <4>3
    <3> QED
      BY <3>2, <3>3
  <2> QED
    BY <2>1, <2>2, <2>3, <2>4, <2>5 DEF SoundJob
<1>12. \A i \in Jobs : SoundJob(i)'
  <2> TAKE i \in Jobs
  <2>1. CASE i = j
    BY <1>11, <2>1
  <2>2. CASE i # j
    <3>1. /\ pending'[i] = pending[i] /\ running'[i] = running[i] /\ state'[i] = state[i]
          /\ told'[i] = told[i] /\ afterBuild'[i] = afterBuild[i]
      BY <1>1, <2>2 DEF TypeInv, TypeOK, JobsTypeOK, HistoryTypeOK
    <3>2. aborted[i] => aborted'[i]
      <4>1. aborted \in [Jobs -> BOOLEAN]
        BY DEF TypeInv, TypeOK, JobsTypeOK
      <4> QED
        BY <1>1, <2>2, <4>1
    <3>3. \A x \in Orders : x[2] = i => recorded'[x] = recorded[x]
      BY <2>2 DEF JobsInv, SoundJob, OwnOrders, Work
    <3> QED
      BY <3>1, <3>2, <3>3, SameJob DEF JobsInv
  <2> QED
    BY <2>1, <2>2
<1>13. OwnedIsRunning'
  <2> SUFFICES ASSUME NEW k \in Keys, owner'[k] # Unowned
               PROVE  \E r \in running'[owner'[k][1]] : Key(r)' = k
    BY DEF OwnedIsRunning
  <2>1. owner'[k] = owner[k] /\ k # Key(o)
    BY <1>1 DEF TypeInv, TypeOK, FleetTypeOK
  <2>2. PICK r \in running[owner[k][1]] : Key(r) = k
    BY <2>1 DEF JobsInv, OwnedIsRunning
  <2>3. owner[k][1] \in Jobs
    BY <2>1 DEF TypeInv, TypeOK, FleetTypeOK
  <2>4. r \in running'[owner[k][1]]
    BY <1>1, <1>7, <2>1, <2>2, <2>3 DEF Left, TypeInv, TypeOK, JobsTypeOK
  <2>5. Key(r)' = Key(r)
    BY <1>1 DEF Key
  <2> QED
    BY <2>1, <2>2, <2>4, <2>5
<1>14. \A i \in Jobs : state[i] \in Final => state'[i] = state[i]
  BY <1>1, <1>2, <1>4 DEF Final, Open, TypeInv, TypeOK, JobsTypeOK
<1> QED
  BY <1>12, <1>13, <1>14 DEF JobsInv

(* The verdicts there are stand, and the invariant with them.                *)
KeepsVerdicts ==
  /\ JobsInv'
  /\ \A i \in Jobs : state[i] \in Final => state'[i] = state[i]

LEMMA BuildSucceededJobs ==
  ASSUME TypeInv, JobsInv, NEW s \in Streams, NEW o \in Orders, NEW j \in Jobs,
         BuildSucceeded(s, o, j)
  PROVE  KeepsVerdicts
<1>1. PICK more : /\ Settle(s, o, j, state[j], more, FALSE)
                  /\ \A m \in more : \E g \in afterBuild[j] : m = MatchOrder(j, g)
  <2> DEFINE matches == {MatchOrder(j, g) : g \in
                {h \in afterBuild[j] : \A r \in Rivals[h] : live'[r].status = "READY"}}
  <2>1. Settle(s, o, j, state[j], matches, FALSE)
    BY DEF BuildSucceeded
  <2>2. \A m \in matches : \E g \in afterBuild[j] : m = MatchOrder(j, g)
    OBVIOUS
  <2> HIDE DEF matches
  <2> QED
    BY <2>1, <2>2
<1>2. /\ BuildRuns(o, j) /\ afterBuild' = [afterBuild EXCEPT ![j] = {}]
      /\ recorded' = recorded
  BY DEF BuildSucceeded
<1>3. Left(o, j) = {} /\ pending[j] = {}
  BY <1>2, AnsweredBuild
<1>4. afterBuild \in [Jobs -> SUBSET Groups] /\ SoundJob(j) /\ recorded \in [Orders -> Nat]
  BY DEF TypeInv, TypeOK, JobsTypeOK, HistoryTypeOK, JobsInv
<1>5. \A m \in more : m \in Orders /\ m[2] = j /\ m[1] # "build" /\ afterBuild[j] # {}
  BY <1>1, <1>4, OrderTypes DEF MatchOrder
<1>6. \A m \in more : ~ (recorded[m] > 0)
  BY <1>4, <1>5 DEF SoundJob, CountedIsGone
<1>7. more \in SUBSET Orders
  BY <1>5
<1>8. Settle(s, o, j, state[j], more, FALSE) /\ FALSE \in BOOLEAN
  BY <1>1
<1>9. \A i \in Jobs : afterBuild'[i] = IF i = j THEN {} ELSE afterBuild[i]
  BY <1>2, <1>4
<1>10. Replaces(o, j, more)
  BY <1>3, <1>5, <1>6, <1>9 DEF Replaces
<1>11. DealsOutOnly(j)
  BY <1>9 DEF DealsOutOnly
<1>12. \A x \in Orders : recorded'[x] = recorded[x]
  BY <1>2
<1> QED
  BY <1>7, <1>8, <1>10, <1>11, <1>12, SettleJobs DEF KeepsVerdicts

LEMMA BuildEngineFailedJobs ==
  ASSUME TypeInv, JobsInv, NEW s \in Streams, NEW o \in Orders, NEW j \in Jobs,
         BuildEngineFailed(s, o, j)
  PROVE  KeepsVerdicts
<1> DEFINE n == attempts[j] + 1
           again == TryAgain(j, n)
           st == IF again THEN state[j] ELSE "FAILED"
           more == IF again THEN {BuildOrder(j, n + 1)} ELSE {}
<1>1. /\ BuildRuns(o, j) /\ UNCHANGED <<afterBuild, recorded>>
      /\ Settle(s, o, j, st, more, FALSE) /\ FALSE \in BOOLEAN
  BY DEF BuildEngineFailed
<1>2. Left(o, j) = {} /\ pending[j] = {}
  BY <1>1, AnsweredBuild
<1>3. again => BuildOrder(j, n + 1) \in Orders
  <2> SUFFICES ASSUME again PROVE BuildOrder(j, n + 1) \in Orders
    OBVIOUS
  <2>1. n < MaxAttempts
    BY Zenon DEF TryAgain
  <2>2. n \in Nat /\ n > 0
    BY DEF TypeInv, TypeOK, JobsTypeOK
  <2> HIDE DEF n
  <2>3. n + 1 \in 1 .. MaxAttempts
    BY <2>1, <2>2 DEF MaxAttempts
  <2> QED
    BY <2>3, OrderTypes
<1>4. more \in SUBSET Orders
  BY <1>3
<1>5. \A m \in more : /\ m[2] = j /\ m[1] = "build" /\ more = {m}
  BY DEF BuildOrder
<1>6. \A m \in more : ~ (recorded[m] > 0)
  <2> TAKE m \in more
  <2>1. m \in Orders /\ m[2] = j /\ m[1] = "build"
    BY <1>4, <1>5
  <2> HIDE DEF more
  <2> QED
    BY <2>1 DEF JobsInv, SoundJob, CountedIsGone
<1>7. st = state[j] \/ (st = "FAILED" /\ more = {})
  OBVIOUS
<1> HIDE DEF st, more
<1>8. Replaces(o, j, more)
  BY <1>2, <1>5, <1>6 DEF Replaces
<1>9. st = state[j] \/ (st = "FAILED" /\ Left(o, j) = {} /\ more = {} /\ pending[j] = {})
  BY <1>2, <1>7
<1> QED
  BY <1>1, <1>4, <1>8, <1>9, NothingReplaces, SettleJobs DEF KeepsVerdicts

LEMMA BuildBlamedJobs ==
  ASSUME TypeInv, JobsInv, NEW s \in Streams, NEW o \in Orders, NEW j \in Jobs,
         BuildBlamed(s, o, j)
  PROVE  KeepsVerdicts
<1>1. Settle(s, o, j, "FAILED", {}, TRUE) /\ UNCHANGED <<afterBuild, recorded>>
  BY DEF BuildBlamed
<1> QED
  BY <1>1, NothingReplaces, SettleJobs DEF KeepsVerdicts

LEMMA MatchBlamedJobs ==
  ASSUME TypeInv, JobsInv, NEW s \in Streams, NEW o \in Orders, NEW j \in Jobs,
         NEW who \in Candidates, MatchBlamed(s, o, j, who)
  PROVE  KeepsVerdicts
<1>1. Settle(s, o, j, "FAILED", {}, TRUE) /\ UNCHANGED <<afterBuild, recorded>>
  BY DEF MatchBlamed
<1> QED
  BY <1>1, NothingReplaces, SettleJobs DEF KeepsVerdicts

LEMMA MatchErrorJobs ==
  ASSUME TypeInv, JobsInv, NEW s \in Streams, NEW o \in Orders, NEW j \in Jobs,
         MatchError(s, o, j)
  PROVE  KeepsVerdicts
<1>1. Settle(s, o, j, state[j], {}, FALSE) /\ UNCHANGED <<afterBuild, recorded>>
  BY DEF MatchError
<1> QED
  BY <1>1, NothingReplaces, SettleJobs DEF KeepsVerdicts

LEMMA MatchPlayedJobs ==
  ASSUME TypeInv, JobsInv, NEW s \in Streams, NEW o \in Orders, NEW j \in Jobs,
         MatchPlayed(s, o, j)
  PROVE  /\ KeepsVerdicts
         /\ \A x \in Orders : recorded'[x] # recorded[x] =>
              recorded[x] = 0 /\ state[x[2]] # "CANCELLED" /\ told[x[2]] = 0
<1>1. /\ Settle(s, o, j, state[j], {}, FALSE) /\ afterBuild' = afterBuild
      /\ recorded' = [recorded EXCEPT ![o] = @ + 1]
      /\ ~ BuildRuns(o, j) /\ o \notin emptied
  BY DEF MatchPlayed
<1>2. owner[Key(o)] # Unowned /\ j = owner[Key(o)][1]
  BY <1>1 DEF Settle
<1>3. o \in running[j] /\ (state[j] \in Open \/ state[j] = "FAILED") /\ told[j] = 0
  BY <1>1, <1>2, AnsweredOrder
<1>4. o[1] = "match"
  BY <1>1, <1>3, OrderTypes DEF BuildRuns, IsBuild
<1>5. recorded \in [Orders -> Nat] /\ SoundJob(j)
  BY DEF TypeInv, TypeOK, HistoryTypeOK, JobsInv
<1>6. o[2] = j /\ recorded[o] = 0
  BY <1>3, <1>5 DEF SoundJob, OwnOrders, CountedIsGone, Work
<1>7. \A x \in Orders : x # o => recorded'[x] = recorded[x]
  BY <1>1, <1>5
<1>8. KeepsVerdicts
  BY <1>1, <1>3, <1>4, <1>7, NothingReplaces, SettleJobs DEF KeepsVerdicts
<1> QED
  BY <1>3, <1>6, <1>7, <1>8 DEF Open

-----------------------------------------------------------------------------
(* All steps.                                                                *)

LEMMA InitJobs == Init => JobsInv
<1> SUFFICES ASSUME Init PROVE JobsInv
  OBVIOUS
<1>1. \A j \in Jobs : Work(j) = {} /\ state[j] = "NONE" /\ told[j] = 0
  BY DEF Init, Work
<1>2. \A j \in Jobs : SoundJob(j)
  <2> TAKE j \in Jobs
  <2>1. pending[j] \cap running[j] = {} /\ \A o \in Orders : recorded[o] = 0
    BY DEF Init
  <2> QED
    BY <1>1, <2>1 DEF SoundJob, OwnOrders, BuildThenPlay, WorkWhileOpen, ToldAtTheEnd,
       CountedIsGone, Open
<1>3. OwnedIsRunning
  BY DEF Init, OwnedIsRunning
<1> QED
  BY <1>2, <1>3 DEF JobsInv

(* What a step does to verdicts and to what was counted.                     *)
StepIsFair ==
  /\ JobsInv'
  /\ \A i \in Jobs : state[i] \in Final => state'[i] = state[i]
  /\ \A x \in Orders : recorded'[x] # recorded[x] =>
       recorded[x] = 0 /\ state[x[2]] # "CANCELLED" /\ told[x[2]] = 0

LEMMA QuietStep ==
  ASSUME JobsInv, UNCHANGED <<pending, running, state, aborted, afterBuild, told,
                              recorded, owner, emptied>>
  PROVE  StepIsFair
BY SameJobs DEF StepIsFair

LEMMA CancelKeepsVerdicts ==
  ASSUME NEW A \in SUBSET Jobs, \A i \in A : state[i] \in Open
  PROVE  \A i \in Jobs : state[i] \in Final => Cancelled(state, A)[i] = state[i]
BY DEF Cancelled, Open, Final

LEMMA EnqueueKeepsVerdicts ==
  ASSUME TypeInv, NEW j \in Jobs, NEW info, NEW groups, NEW buildFirst,
         NEW A \in SUBSET Jobs, \A i \in A : state[i] \in Open,
         Enqueue(j, info, groups, buildFirst, A)
  PROVE  \A i \in Jobs : state[i] \in Final => state'[i] = state[i]
<1>1. state[j] = "NONE"
  BY DEF Enqueue, NextJob
<1>2. PICK st : state' = [Cancelled(state, A) EXCEPT ![j] = st]
  BY Zenon DEF Enqueue
<1>3. \A i \in Jobs : i # j => state'[i] = Cancelled(state, A)[i]
  BY <1>2 DEF Cancelled
<1> QED
  BY <1>1, <1>3, CancelKeepsVerdicts DEF Final

LEMMA SubmissionIsFair ==
  ASSUME TypeInv, JobsInv, Submission
  PROVE  StepIsFair
<1>1. ASSUME NEW cl \in Clients, NEW cancel \in BOOLEAN, TryReserve(cl, cancel)
      PROVE  StepIsFair
  <2> DEFINE A == IF cancel THEN Mine(cl) ELSE {}
  <2>1. A \in SUBSET Jobs /\ \A i \in A : state[i] \in Open
    BY DEF Mine
  <2>2. state' = Cancelled(state, A) /\ recorded' = recorded
    BY <1>1 DEF TryReserve, history
  <2> HIDE DEF A
  <2> QED
    BY <1>1, <2>1, <2>2, TryReserveJobs, CancelKeepsVerdicts DEF StepIsFair
<1>2. ASSUME NEW cl \in Clients, RejectSubmission(cl)
      PROVE  StepIsFair
  BY <1>2, QuietStep DEF RejectSubmission, jobVars, fleetVars, history
<1>3. ASSUME NEW cl \in Clients, NEW c \in Candidates, StoreSubmission(cl, c)
      PROVE  StepIsFair
  BY <1>3, QuietStep DEF StoreSubmission, jobVars, fleetVars, history
<1>4. ASSUME NEW sub \in submits, NEW j \in Jobs, NEW ladder \in Ladders(sub.cand),
             EnqueuePlacement(sub, j, ladder)
      PROVE  StepIsFair
  <2> DEFINE info == [sub EXCEPT !.client = IF Metered THEN @ ELSE NoClient]
             A == Superseded(sub.cand)
  <2>1. Enqueue(j, info, PlacementGroups \cup ladder, Archive, A)
    BY <1>4 DEF EnqueuePlacement
  <2>2. A \in SUBSET Jobs /\ \A i \in A : state[i] \in Open
    BY DEF Superseded
  <2>3. recorded' = recorded
    BY <2>1 DEF Enqueue
  <2> HIDE DEF info, A
  <2> QED
    BY <1>4, <2>1, <2>2, <2>3, EnqueuePlacementJobs, EnqueueKeepsVerdicts DEF StepIsFair
<1>5. ASSUME NEW c \in Candidates, NEW g \in Groups, NEW j \in Jobs,
             EnqueueMatch(c, g, j)
      PROVE  StepIsFair
  <2>1. PICK info : Enqueue(j, info, {g}, FALSE, {})
    BY <1>5 DEF EnqueueMatch
  <2>2. recorded' = recorded
    BY <2>1 DEF Enqueue
  <2> QED
    BY <1>5, <2>1, <2>2, EnqueueMatchJobs, EnqueueKeepsVerdicts DEF StepIsFair
<1> QED
  BY <1>1, <1>2, <1>3, <1>4, <1>5 DEF Submission

LEMMA DispatchIsFair ==
  ASSUME TypeInv, JobsInv, Dispatch
  PROVE  StepIsFair
<1>1. ASSUME DropSpentJob PROVE StepIsFair
  BY <1>1, QuietStep DEF DropSpentJob, jobVars, fleetVars, history
<1>2. ASSUME NoRoom PROVE StepIsFair
  BY <1>2, QuietStep DEF NoRoom, jobVars, fleetVars, history
<1>3. ASSUME NEW w \in Workers, NEW o \in Orders, SendOrder(w, o)
      PROVE  StepIsFair
  <2>1. JobsInv' /\ recorded' = recorded
    BY <1>3, SendOrderJobs DEF SendOrder, history
  <2>2. PICK j \in Jobs : j = Scanned
    BY <1>3, LenProperties, ElementOfSeq
    DEF SendOrder, Scanning, Scanned, TypeInv, TypeOK, PassTypeOK
  <2>3. state[j] \in Open
    <3>1. o \in pending[j] /\ ~ aborted[j]
      BY <1>3, <2>2, Zenon DEF SendOrder, Spent
    <3> QED
      BY <3>1, WorkingJob DEF JobsInv, Work
  <2>4. \A i \in Jobs : state[i] \in Final => state'[i] = state[i]
    BY <1>3, <2>2, <2>3 DEF SendOrder, Final, Open, TypeInv, TypeOK, JobsTypeOK
  <2> QED
    BY <2>1, <2>4 DEF StepIsFair
<1>4. ASSUME NEW w \in Workers, NEW o \in Orders, SendFails(w, o)
      PROVE  StepIsFair
  BY <1>4, SendFailsJobs DEF SendFails, jobVars, history, StepIsFair
<1>5. ASSUME EndOfPass PROVE StepIsFair
  BY <1>5, QuietStep DEF EndOfPass, jobVars, fleetVars, history
<1> QED
  BY <1>1, <1>2, <1>3, <1>4, <1>5 DEF Dispatch

LEMMA FleetIsFair ==
  ASSUME TypeInv, JobsInv, Fleet
  PROVE  StepIsFair
<1>1. ASSUME NEW s \in Streams, AddWorker(s) PROVE StepIsFair
  BY <1>1, QuietStep DEF AddWorker, jobVars, history
<1>2. ASSUME NEW s \in Streams, RemoveWorker(s) PROVE StepIsFair
  BY <1>2, RemoveWorkerJobs DEF RemoveWorker, history, StepIsFair
<1>3. ASSUME NEW s \in Streams, Break(s) PROVE StepIsFair
  BY <1>3, QuietStep DEF Break, jobVars, history
<1>4. ASSUME NEW s \in Streams, NEW o \in Orders, LateResult(s, o) PROVE StepIsFair
  BY <1>4, QuietStep DEF LateResult, jobVars, history
<1>5. ASSUME NEW s \in Streams, NEW o \in Orders, NEW j \in Jobs,
             \/ BuildSucceeded(s, o, j) \/ BuildEngineFailed(s, o, j)
             \/ BuildBlamed(s, o, j) \/ MatchError(s, o, j)
      PROVE  StepIsFair
  <2>1. recorded' = recorded
    BY <1>5 DEF BuildSucceeded, BuildEngineFailed, BuildBlamed, MatchError
  <2>2. KeepsVerdicts
    BY <1>5, BuildSucceededJobs, BuildEngineFailedJobs, BuildBlamedJobs, MatchErrorJobs
  <2> QED
    BY <2>1, <2>2 DEF KeepsVerdicts, StepIsFair
<1>6. ASSUME NEW s \in Streams, NEW o \in Orders, NEW j \in Jobs, NEW who \in Candidates,
             MatchBlamed(s, o, j, who)
      PROVE  StepIsFair
  BY <1>6, MatchBlamedJobs DEF MatchBlamed, KeepsVerdicts, StepIsFair
<1>7. ASSUME NEW s \in Streams, NEW o \in Orders, NEW j \in Jobs, MatchPlayed(s, o, j)
      PROVE  StepIsFair
  BY <1>7, MatchPlayedJobs DEF KeepsVerdicts, StepIsFair
<1> QED
  BY <1>1, <1>2, <1>3, <1>4, <1>5, <1>6, <1>7 DEF Fleet, OnResult, AwaitedResult

LEMMA NextIsFair == TypeInv /\ JobsInv /\ [Next]_vars => StepIsFair
<1> SUFFICES ASSUME TypeInv, JobsInv, [Next]_vars PROVE StepIsFair
  OBVIOUS
<1>1. CASE UNCHANGED vars
  BY <1>1, QuietStep DEF vars, jobVars, fleetVars, history
<1> QED
  BY <1>1, SubmissionIsFair, DispatchIsFair, FleetIsFair DEF Next

LEMMA JobsInvariant == SafetySpec => [](TypeInv /\ JobsInv)
<1>1. TypeInv /\ JobsInv /\ [Next]_vars => (TypeInv /\ JobsInv)'
  BY NextType, NextIsFair DEF StepIsFair
<1> QED
  BY <1>1, InitType, InitJobs, PTL DEF SafetySpec

(* on_concluded hears of a job at most once, after its last order, for every *)
(* fleet: also one that answers late, reconnects, or is sent empty orders.   *)
THEOREM ToldOnceAlways == SafetySpec => []ToldOnce
<1>1. TypeInv /\ JobsInv => ToldOnce
  BY DEF JobsInv, SoundJob, ToldAtTheEnd, ToldOnce, Work
<1> QED
  BY <1>1, JobsInvariant, PTL

(* No job is left open without an order to wait for: the answer that takes   *)
(* the last one concludes it, whatever is lost, requeued or aborted.         *)
THEOREM OpenJobsAlwaysHaveWork == SafetySpec => []OpenJobsHaveWork
<1>1. TypeInv /\ JobsInv => OpenJobsHaveWork
  BY DEF JobsInv, SoundJob, WorkWhileOpen, OpenJobsHaveWork, Work
<1> QED
  BY <1>1, JobsInvariant, PTL

(* A job that is done, failed or cancelled stays so.                         *)
THEOREM VerdictsAlwaysStand == SafetySpec => VerdictsStand
<1>1. (TypeInv /\ JobsInv) /\ [Next]_vars =>
        [\A j \in Jobs : state[j] \in Final => state'[j] = state[j]]_vars
  BY NextIsFair DEF StepIsFair
<1> QED
  BY <1>1, JobsInvariant, PTL DEF SafetySpec, VerdictsStand

(* The standings get a match's result once, and none from a job that was     *)
(* cancelled or reported.                                                    *)
THEOREM CountedOnceAlways == SafetySpec => CountedOnce
<1>1. (TypeInv /\ JobsInv) /\ [Next]_vars =>
        [\A o \in Orders : recorded'[o] # recorded[o] =>
           recorded[o] = 0 /\ state[o[2]] # "CANCELLED" /\ told[o[2]] = 0]_vars
  BY NextIsFair DEF StepIsFair
<1> QED
  BY <1>1, JobsInvariant, PTL DEF SafetySpec, CountedOnce

-----------------------------------------------------------------------------
(* The quota on queued jobs.                                                 *)

QueuedOf(cl) == {j \in Jobs : state[j] = "QUEUED" /\ job[j].client = cl}
QuotaOf(cl) == Cardinality(QueuedOf(cl)) + reserved[cl] <= MaxQueued
QuotaInv == \A cl \in Clients : QuotaOf(cl)

LEMMA JobsFinite == IsFiniteSet(Jobs)
BY FS_Interval DEF Jobs, SchedulerAssumption

LEMMA QueuedFinite ==
  ASSUME NEW cl
  PROVE  IsFiniteSet(QueuedOf(cl)) /\ Cardinality(QueuedOf(cl)) \in Nat
BY JobsFinite, FS_Subset, FS_CardinalityType DEF QueuedOf

LEMMA QuotaIsOfQueued ==
  \A cl \in Clients : InState(Mine(cl), "QUEUED") = Cardinality(QueuedOf(cl))
<1> TAKE cl \in Clients
<1>1. {j \in Mine(cl) : state[j] = "QUEUED"} = QueuedOf(cl)
  BY DEF Mine, QueuedOf, Open
<1> QED
  BY <1>1 DEF InState

(* A step that queues no job for the client and grants it nothing.           *)
LEMMA QuotaShrinks ==
  ASSUME TypeInv, NEW cl \in Clients, QuotaOf(cl), reserved'[cl] \in Nat,
         reserved'[cl] <= reserved[cl], QueuedOf(cl)' \subseteq QueuedOf(cl)
  PROVE  QuotaOf(cl)'
<1>1. /\ Cardinality(QueuedOf(cl)') <= Cardinality(QueuedOf(cl))
      /\ Cardinality(QueuedOf(cl)') \in Nat
  BY QueuedFinite, FS_Subset, FS_CardinalityType
<1>2. reserved[cl] \in Nat /\ Cardinality(QueuedOf(cl)) \in Nat /\ MaxQueued \in Nat
  BY QueuedFinite DEF TypeInv, TypeOK, SubmitTypeOK, SchedulerAssumption
<1> QED
  BY <1>1, <1>2 DEF QuotaOf

(* A step that puts no job in the state QUEUED and grants nothing.           *)
LEMMA NothingQueued ==
  ASSUME TypeInv, QuotaInv, job' = job, reserved' = reserved,
         \A j \in Jobs : state'[j] = "QUEUED" => state[j] = "QUEUED"
  PROVE  QuotaInv'
<1> SUFFICES ASSUME NEW cl \in Clients PROVE QuotaOf(cl)'
  BY DEF QuotaInv
<1>1. QueuedOf(cl)' \subseteq QueuedOf(cl)
  BY DEF QueuedOf
<1>2. reserved'[cl] \in Nat /\ reserved'[cl] <= reserved[cl]
  BY DEF TypeInv, TypeOK, SubmitTypeOK
<1> QED
  BY <1>1, <1>2, QuotaShrinks DEF QuotaInv

LEMMA TryReserveQuota ==
  ASSUME TypeInv, QuotaInv, NEW cl \in Clients, NEW cancel \in BOOLEAN,
         TryReserve(cl, cancel)
  PROVE  QuotaInv'
<1> SUFFICES ASSUME NEW d \in Clients PROVE QuotaOf(d)'
  BY DEF QuotaInv
<1> DEFINE A == IF cancel THEN Mine(cl) ELSE {}
<1>1. /\ state' = Cancelled(state, A) /\ job' = job
      /\ reserved' = IF WithinQuota(cl, Mine(cl) \ A)
                     THEN [reserved EXCEPT ![cl] = @ + 1] ELSE reserved
  BY DEF TryReserve
<1>2. QueuedOf(d)' \subseteq QueuedOf(d)
  BY <1>1 DEF QueuedOf, Cancelled
<1>3. reserved \in [Clients -> Nat] /\ MaxQueued \in Nat
  BY DEF TypeInv, TypeOK, SubmitTypeOK, SchedulerAssumption
<1>4. CASE d = cl /\ WithinQuota(cl, Mine(cl) \ A)
  <2>1. QueuedOf(cl)' = {j \in Mine(cl) \ A : state[j] = "QUEUED"}
    BY <1>1 DEF QueuedOf, Cancelled, Mine, Open
  <2>2. Cardinality(QueuedOf(cl)') + reserved[cl] < MaxQueued
    BY <1>4, <2>1 DEF WithinQuota, InState
  <2>3. reserved'[cl] = reserved[cl] + 1
    BY <1>1, <1>3, <1>4
  <2>4. Cardinality(QueuedOf(cl)') \in Nat
    BY <1>2, <1>4, QueuedFinite, FS_Subset, FS_CardinalityType
  <2> QED
    BY <1>3, <1>4, <2>2, <2>3, <2>4 DEF QuotaOf
<1>5. CASE ~ (d = cl /\ WithinQuota(cl, Mine(cl) \ A))
  <2>1. reserved'[d] = reserved[d]
    BY <1>1, <1>3, <1>5
  <2> QED
    BY <1>2, <1>3, <2>1, QuotaShrinks DEF QuotaInv
<1> QED
  BY <1>4, <1>5

(* A job takes its reservation's place; a match is metered against no one.    *)
LEMMA EnqueuePlacementQuota ==
  ASSUME TypeInv, JobsInv, QuotaInv, NEW sub \in submits, NEW j \in Jobs,
         NEW ladder \in Ladders(sub.cand), EnqueuePlacement(sub, j, ladder)
  PROVE  QuotaInv'
<1> SUFFICES ASSUME NEW d \in Clients PROVE QuotaOf(d)'
  BY DEF QuotaInv
<1> DEFINE info == [sub EXCEPT !.client = IF Metered THEN @ ELSE NoClient]
           A == Superseded(sub.cand)
<1>1. Enqueue(j, info, PlacementGroups \cup ladder, Archive, A)
  BY DEF EnqueuePlacement
<1>2. sub.client \in Clients
  BY DEF TypeInv, TypeOK, SubmitTypeOK
<1>3. info.client = IF Metered THEN sub.client ELSE NoClient
  BY <1>2 DEF TypeInv, TypeOK, SubmitTypeOK
<1> HIDE DEF info, A
<1>4. PICK st : state' = [Cancelled(state, A) EXCEPT ![j] = st]
  BY <1>1, Zenon DEF Enqueue
<1>5. \A i \in Jobs : i # j => state'[i] = Cancelled(state, A)[i]
  BY <1>4 DEF Cancelled
<1>6. job' = [job EXCEPT ![j] = info]
  BY <1>1 DEF Enqueue
<1>7. job \in [Jobs -> [client : ClientIds, cand : Candidates, rev : Revs]]
  BY DEF TypeInv, TypeOK, JobsTypeOK
<1>8. QueuedOf(d)' \subseteq QueuedOf(d) \cup {j}
  BY <1>5, <1>6, <1>7 DEF QueuedOf, Cancelled
<1>9. reserved \in [Clients -> Nat] /\ reserved' \in [Clients -> Nat] /\ MaxQueued \in Nat
  BY EnqueuePlacementType DEF TypeInv, TypeOK, SubmitTypeOK, SchedulerAssumption
<1>10. reserved' = IF Metered THEN [reserved EXCEPT ![sub.client] = @ - 1] ELSE reserved
  BY DEF EnqueuePlacement
<1>11. CASE Metered /\ d = sub.client
  <2>1. reserved'[d] = reserved[d] - 1
    BY <1>9, <1>10, <1>11
  <2>2. /\ Cardinality(QueuedOf(d)') \in Nat
        /\ Cardinality(QueuedOf(d)') <= Cardinality(QueuedOf(d)) + 1
    <3>1. /\ Cardinality(QueuedOf(d) \cup {j}) \in Nat
          /\ Cardinality(QueuedOf(d) \cup {j}) <= Cardinality(QueuedOf(d)) + 1
      BY QueuedFinite, AddsOneAtMost
    <3>2. IsFiniteSet(QueuedOf(d) \cup {j})
      BY QueuedFinite, FS_AddElement
    <3>3. /\ Cardinality(QueuedOf(d)') \in Nat
          /\ Cardinality(QueuedOf(d)') <= Cardinality(QueuedOf(d) \cup {j})
      BY <1>8, <3>2, FS_Subset, FS_CardinalityType
    <3> QED
      BY <3>1, <3>3, QueuedFinite
  <2>3. Cardinality(QueuedOf(d)) \in Nat /\ Cardinality(QueuedOf(d)) + reserved[d] <= MaxQueued
    BY QueuedFinite DEF QuotaInv, QuotaOf
  <2> QED
    BY <1>9, <2>1, <2>2, <2>3 DEF QuotaOf
<1>12. CASE ~ (Metered /\ d = sub.client)
  <2>1. d # info.client
    BY <1>3, <1>12 DEF SchedulerAssumption
  <2>2. QueuedOf(d)' \subseteq QueuedOf(d)
    BY <1>5, <1>6, <1>7, <2>1 DEF QueuedOf, Cancelled
  <2>3. reserved'[d] = reserved[d]
    BY <1>9, <1>10, <1>12
  <2> QED
    BY <1>9, <2>2, <2>3, QuotaShrinks DEF QuotaInv
<1> QED
  BY <1>11, <1>12

LEMMA EnqueueMatchQuota ==
  ASSUME TypeInv, QuotaInv, NEW c \in Candidates, NEW g \in Groups, NEW j \in Jobs,
         EnqueueMatch(c, g, j)
  PROVE  QuotaInv'
<1> SUFFICES ASSUME NEW d \in Clients PROVE QuotaOf(d)'
  BY DEF QuotaInv
<1>0. PICK rev \in ReadBefore(c) :
        Enqueue(j, [client |-> NoClient, cand |-> c, rev |-> rev], {g}, FALSE, {})
  BY DEF EnqueueMatch
<1> DEFINE info == [client |-> NoClient, cand |-> c, rev |-> rev]
<1>1. Enqueue(j, info, {g}, FALSE, {})
  BY <1>0
<1>2. info.client = NoClient
  OBVIOUS
<1> HIDE DEF info
<1>3. PICK st : state' = [Cancelled(state, {}) EXCEPT ![j] = st]
  BY <1>1, Zenon DEF Enqueue
<1>4. \A i \in Jobs : i # j => state'[i] = state[i]
  BY <1>3 DEF Cancelled
<1>5. job' = [job EXCEPT ![j] = info]
  BY <1>1 DEF Enqueue
<1>6. job \in [Jobs -> [client : ClientIds, cand : Candidates, rev : Revs]]
  BY DEF TypeInv, TypeOK, JobsTypeOK
<1>7. d # info.client
  BY <1>2 DEF SchedulerAssumption
<1>8. QueuedOf(d)' \subseteq QueuedOf(d)
  BY <1>4, <1>5, <1>6, <1>7 DEF QueuedOf
<1>9. reserved'[d] \in Nat /\ reserved'[d] <= reserved[d]
  BY DEF EnqueueMatch, TypeInv, TypeOK, SubmitTypeOK
<1> QED
  BY <1>8, <1>9, QuotaShrinks DEF QuotaInv

LEMMA RejectSubmissionQuota ==
  ASSUME TypeInv, QuotaInv, NEW cl \in Clients, RejectSubmission(cl)
  PROVE  QuotaInv'
<1> SUFFICES ASSUME NEW d \in Clients PROVE QuotaOf(d)'
  BY DEF QuotaInv
<1>1. QueuedOf(d)' = QueuedOf(d)
  BY DEF RejectSubmission, jobVars, QueuedOf
<1>2. reserved \in [Clients -> Nat] /\ reserved' \in [Clients -> Nat]
  BY RejectSubmissionType DEF TypeInv, TypeOK, SubmitTypeOK
<1>3. reserved'[d] <= reserved[d]
  BY <1>2 DEF RejectSubmission
<1> QED
  BY <1>1, <1>2, <1>3, QuotaShrinks DEF QuotaInv

LEMMA ResultQuota ==
  ASSUME TypeInv, JobsInv, QuotaInv, NEW s \in Streams, NEW o \in Orders,
         AwaitedResult(s, o)
  PROVE  QuotaInv'
<1>1. PICK j \in Jobs : \E st, more, abort :
        (st = state[j] \/ st = "FAILED") /\ Settle(s, o, j, st, more, abort)
  BY Zenon DEF AwaitedResult, BuildSucceeded, BuildEngineFailed, BuildBlamed, MatchBlamed,
     MatchError, MatchPlayed
<1>2. PICK st, over : /\ st = state[j] \/ st = "FAILED"
                      /\ state' = [state EXCEPT ![j] = Verdict(st, over)]
  BY <1>1, Zenon DEF Settle
<1>3. \A i \in Jobs : state'[i] = "QUEUED" => state[i] = "QUEUED"
  BY <1>2 DEF Verdict, TypeInv, TypeOK, JobsTypeOK
<1>4. job' = job /\ reserved' = reserved
  BY <1>1 DEF Settle
<1> QED
  BY <1>3, <1>4, NothingQueued

LEMMA NextQuota == TypeInv /\ JobsInv /\ QuotaInv /\ [Next]_vars => QuotaInv'
<1> SUFFICES ASSUME TypeInv, JobsInv, QuotaInv, [Next]_vars PROVE QuotaInv'
  OBVIOUS
<1>1. CASE Submission
  <2>1. ASSUME NEW cl \in Clients, NEW c \in Candidates, StoreSubmission(cl, c)
        PROVE  QuotaInv'
    BY <2>1, NothingQueued DEF StoreSubmission, jobVars
  <2> QED
    BY <1>1, <2>1, TryReserveQuota, RejectSubmissionQuota, EnqueuePlacementQuota,
       EnqueueMatchQuota DEF Submission
<1>2. CASE Dispatch
  <2>1. job' = job /\ reserved' = reserved
    BY <1>2 DEF Dispatch, DropSpentJob, NoRoom, SendOrder, SendFails, EndOfPass, jobVars
  <2>2. state' = state \/ state' = [state EXCEPT ![Scanned] = "RUNNING"]
    BY <1>2 DEF Dispatch, DropSpentJob, NoRoom, SendOrder, SendFails, EndOfPass, jobVars
  <2>3. \A i \in Jobs : state'[i] = "QUEUED" => state[i] = "QUEUED"
    BY <2>2 DEF TypeInv, TypeOK, JobsTypeOK
  <2> QED
    BY <2>1, <2>3, NothingQueued
<1>3. CASE Fleet
  <2>1. ASSUME NEW s \in Streams, AddWorker(s) \/ RemoveWorker(s) \/ Break(s)
        PROVE  QuotaInv'
    <3>1. UNCHANGED <<job, state, reserved>>
      BY <2>1 DEF AddWorker, RemoveWorker, Break, jobVars
    <3> QED
      BY <3>1, NothingQueued
  <2>2. ASSUME NEW s \in Streams, NEW o \in Orders, LateResult(s, o)
        PROVE  QuotaInv'
    BY <2>2, NothingQueued DEF LateResult, jobVars
  <2> QED
    BY <1>3, <2>1, <2>2, ResultQuota DEF Fleet, OnResult
<1>4. CASE UNCHANGED vars
  BY <1>4, NothingQueued DEF vars, jobVars
<1> QED
  BY <1>1, <1>2, <1>3, <1>4 DEF Next

(* However many Submit calls overlap, a participant's queued jobs and the     *)
(* slots granted to it stay within quota.max_queued_jobs.                    *)
THEOREM QueueQuotaAlways == SafetySpec => []QueueQuota
<1>1. Init => QuotaInv
  <2> SUFFICES ASSUME Init, NEW cl \in Clients PROVE QuotaOf(cl)
    BY DEF QuotaInv
  <2>1. QueuedOf(cl) = {}
    BY DEF Init, QueuedOf
  <2> QED
    BY <2>1, FS_EmptySet DEF Init, QuotaOf, SchedulerAssumption
<1>2. TypeInv /\ QuotaInv => QueueQuota
  BY QuotaIsOfQueued DEF QueueQuota, QuotaInv, QuotaOf
<1>3. (TypeInv /\ JobsInv) /\ QuotaInv /\ [Next]_vars => QuotaInv'
  BY NextQuota
<1>4. SafetySpec => []QuotaInv
  BY <1>1, <1>3, JobsInvariant, PTL DEF SafetySpec
<1> QED
  BY <1>2, <1>4, JobsInvariant, PTL

-----------------------------------------------------------------------------
(* The job log.                                                              *)

LogInv == logged = state

LEMMA NextLog == TypeInv /\ LogInv /\ [Next]_vars => LogInv'
<1> SUFFICES ASSUME TypeInv, LogInv, [Next]_vars PROVE LogInv'
  OBVIOUS
<1>1. CASE UNCHANGED <<state, logged>>
  BY <1>1 DEF LogInv
<1>2. ASSUME NEW cl \in Clients, NEW cancel \in BOOLEAN, TryReserve(cl, cancel)
      PROVE  LogInv'
  <2>1. PICK A : state' = Cancelled(state, A) /\ logged' = Cancelled(logged, A)
    BY <1>2, Zenon DEF TryReserve
  <2> QED
    BY <2>1 DEF LogInv
<1>3. ASSUME NEW j, NEW info, NEW groups, NEW first, NEW A,
             Enqueue(j, info, groups, first, A)
      PROVE  LogInv'
  <2>1. PICK st : /\ state' = [Cancelled(state, A) EXCEPT ![j] = st]
                  /\ logged' = [Cancelled(logged, A) EXCEPT ![j] = st]
    BY <1>3, Zenon DEF Enqueue
  <2> QED
    BY <2>1 DEF LogInv
<1>4. CASE Submission
  <2>1. ASSUME NEW cl \in Clients, RejectSubmission(cl) PROVE LogInv'
    BY <1>1, <2>1 DEF RejectSubmission, jobVars
  <2>2. ASSUME NEW cl \in Clients, NEW c \in Candidates, StoreSubmission(cl, c)
        PROVE  LogInv'
    BY <1>1, <2>2 DEF StoreSubmission, jobVars
  <2>3. ASSUME NEW sub \in submits, NEW j \in Jobs, NEW ladder \in Ladders(sub.cand),
               EnqueuePlacement(sub, j, ladder)
        PROVE  LogInv'
    BY <1>3, <2>3, Zenon DEF EnqueuePlacement
  <2>4. ASSUME NEW c \in Candidates, NEW g \in Groups, NEW j \in Jobs,
               EnqueueMatch(c, g, j)
        PROVE  LogInv'
    BY <1>3, <2>4, Zenon DEF EnqueueMatch
  <2> QED
    BY <1>2, <1>4, <2>1, <2>2, <2>3, <2>4 DEF Submission
<1>5. CASE Dispatch
  <2>1. ASSUME NEW w \in Workers, NEW o \in Orders, SendOrder(w, o) PROVE LogInv'
    <3>1. Scanned \in Jobs
      BY <2>1, LenProperties, ElementOfSeq
      DEF SendOrder, Scanning, Scanned, TypeInv, TypeOK, PassTypeOK
    <3>2. state' = [state EXCEPT ![Scanned] = "RUNNING"]
      BY <2>1 DEF SendOrder
    <3>3. CASE state[Scanned] = "RUNNING"
      <4>1. logged' = logged
        BY <2>1, <3>3 DEF SendOrder
      <4> QED
        BY <3>1, <3>2, <3>3, <4>1 DEF LogInv, TypeInv, TypeOK, JobsTypeOK
    <3>4. CASE state[Scanned] # "RUNNING"
      <4>1. logged' = [logged EXCEPT ![Scanned] = "RUNNING"]
        BY <2>1, <3>4 DEF SendOrder, Persist
      <4> QED
        BY <3>2, <4>1 DEF LogInv
    <3> QED
      BY <3>3, <3>4
  <2>2. CASE ~ \E w \in Workers, o \in Orders : SendOrder(w, o)
    BY <1>1, <1>5, <2>2 DEF Dispatch, DropSpentJob, NoRoom, SendFails, EndOfPass, jobVars
  <2> QED
    BY <2>1, <2>2
<1>6. CASE Fleet
  <2>1. ASSUME NEW s \in Streams, AddWorker(s) \/ RemoveWorker(s) \/ Break(s)
        PROVE  LogInv'
    BY <1>1, <2>1 DEF AddWorker, RemoveWorker, Break, jobVars
  <2>2. ASSUME NEW s \in Streams, NEW o \in Orders, LateResult(s, o) PROVE LogInv'
    BY <1>1, <2>2 DEF LateResult, jobVars
  <2>3. ASSUME NEW s \in Streams, NEW o \in Orders, AwaitedResult(s, o) PROVE LogInv'
    <3>1. PICK j, st, more, abort : Settle(s, o, j, st, more, abort)
      BY <2>3, Zenon DEF AwaitedResult, BuildSucceeded, BuildEngineFailed, BuildBlamed,
         MatchBlamed, MatchError, MatchPlayed
    <3>2. PICK final : state' = [state EXCEPT ![j] = final] /\ Persist(j, final)
      BY <3>1, Zenon DEF Settle
    <3> QED
      BY <3>2 DEF LogInv, Persist
  <2> QED
    BY <1>6, <2>1, <2>2, <2>3 DEF Fleet, OnResult
<1>7. CASE UNCHANGED vars
  BY <1>1, <1>7 DEF vars, jobVars
<1> QED
  BY <1>4, <1>5, <1>6, <1>7 DEF Next

(* Each of the seven calls of PersistLocked comes after the last change of    *)
(* the job's state in its handler: the log never lags behind.                *)
THEOREM LogIsAlwaysCurrent == SafetySpec => []LogIsCurrent
<1>1. Init => LogInv
  BY DEF Init, LogInv
<1>2. LogInv => LogIsCurrent
  BY DEF LogInv, LogIsCurrent
<1>3. SafetySpec => []LogInv
  BY <1>1, NextLog, JobsInvariant, PTL DEF SafetySpec
<1> QED
  BY <1>2, <1>3, PTL

-----------------------------------------------------------------------------
(* Candidates that get an id of their own for every submission (Versions).   *)

(* A copy is stored once under an id, and not beside another.                *)
StoredOnce ==
  \A c \in Candidates :
    /\ staged[c] = 0 /\ live[c].rev = revs[c]
    /\ live[c].status = "ABSENT" <=> revs[c] = 0
    /\ revs[c] \in {0, 1} /\ (c \in Builtins => revs[c] = 0)

(* Jobs and Submit calls are for the copy that is stored, or for a builtin,  *)
(* and an order of a job builds or plays that copy.                          *)
Known(c) == c \in Builtins \/ live[c].status # "ABSENT"
OfStored(c, rev) == Known(c) /\ live[c].rev = rev
JobIsCurrent(j) ==
  /\ state[j] # "NONE" => OfStored(job[j].cand, job[j].rev)
  /\ \A o \in Work(j) : <<job[j].cand, job[j].rev>> \in carries[o]

BuiltInv ==
  /\ StoredOnce /\ ReadyWasBuilt
  /\ \A sub \in submits : OfStored(sub.cand, sub.rev)
  /\ \A j \in Jobs : JobIsCurrent(j)

(* No copy is taken away or exchanged.                                       *)
CopiesStay ==
  \A c \in Candidates : Known(c) => Known(c)' /\ live'[c].rev = live[c].rev

LEMMA SetStatusKeepsCopies ==
  ASSUME TypeInv, StoredOnce, NEW c \in Candidates, NEW status \in {"READY", "BUILD_FAILED"},
         NEW a, SetStatus(c, status, a)
  PROVE  /\ StoredOnce' /\ CopiesStay
         /\ \A d \in Candidates : live'[d].status = "READY" =>
              /\ live'[d].rev = live[d].rev
              /\ live[d].status = "READY" \/ (d = c /\ status = "READY")
<1>1. /\ live \in [Candidates -> Entry] /\ staged \in [Candidates -> Revs]
      /\ staged[c] = 0 /\ staged' = staged /\ revs' = revs
  BY DEF TypeInv, TypeOK, StoreTypeOK, StoredOnce, SetStatus
<1>2. \A d \in Candidates : d # c => live'[d] = live[d]
  BY <1>1 DEF SetStatus
<1>3. CASE live[c].status = "ABSENT"
  <2>1. live'[c] = live[c]
    BY <1>1, <1>3 DEF SetStatus
  <2> QED
    BY <1>1, <1>2, <1>3, <2>1 DEF StoredOnce, CopiesStay, Known
<1>4. CASE live[c].status # "ABSENT"
  <2>1. live'[c] = [live[c] EXCEPT !.status = status, !.artifact = IF a = 0 THEN @ ELSE a]
    BY <1>1, <1>4 DEF SetStatus
  <2>2. live'[c].status = status /\ live'[c].rev = live[c].rev
    BY <1>1, <2>1 DEF Entry
  <2> QED
    BY <1>1, <1>2, <1>4, <2>2 DEF StoredOnce, CopiesStay, Known
<1> QED
  BY <1>3, <1>4

(* A step that stores, promises and proves nothing new.                      *)
LEMMA QuietBuilt ==
  ASSUME BuiltInv, UNCHANGED <<live, staged, revs, job, carries, proven>>,
         \A sub \in submits' : sub \in submits,
         \A j \in Jobs : /\ \A o \in Work(j)' : o \in Work(j)
                         /\ state[j] = "NONE" => state'[j] = "NONE"
  PROVE  BuiltInv'
<1>1. StoredOnce' /\ ReadyWasBuilt'
  BY DEF BuiltInv, StoredOnce, ReadyWasBuilt
<1>2. \A sub \in submits' : OfStored(sub.cand, sub.rev)'
  BY DEF BuiltInv, OfStored, Known
<1>3. \A j \in Jobs : JobIsCurrent(j)'
  BY DEF BuiltInv, JobIsCurrent, OfStored, Known
<1> QED
  BY <1>1, <1>2, <1>3 DEF BuiltInv

LEMMA StoreSubmissionBuilt ==
  ASSUME Versions, TypeInv, BuiltInv, NEW cl \in Clients, NEW c \in Candidates,
         StoreSubmission(cl, c)
  PROVE  BuiltInv'
<1>1. /\ live[c].status = "ABSENT" /\ revs[c] = 0 /\ staged' = staged /\ c \notin Builtins
      /\ revs' = [revs EXCEPT ![c] = 1]
      /\ live' = [live EXCEPT ![c] = [rev |-> 1, status |-> "PENDING", artifact |-> 0]]
      /\ submits' = submits \cup {[client |-> cl, cand |-> c, rev |-> 1]}
  <2>1. Create(c) /\ c \notin Builtins /\ submits' = submits \cup {[client |-> cl, cand |-> c, rev |-> revs[c] + 1]}
    BY DEF StoreSubmission
  <2>2. live[c].status = "ABSENT" /\ revs[c] = 0
    BY <2>1 DEF Create, BuiltInv, StoredOnce
  <2>3. revs[c] + 1 = 1
    BY <2>2
  <2> QED
    BY <2>1, <2>2, <2>3 DEF Create
<1>2. /\ live'[c].rev = 1 /\ live'[c].status = "PENDING" /\ revs'[c] = 1
      /\ \A d \in Candidates : d # c => live'[d] = live[d] /\ revs'[d] = revs[d]
  BY <1>1 DEF TypeInv, TypeOK, StoreTypeOK
<1>3. StoredOnce' /\ CopiesStay
  BY <1>1, <1>2 DEF BuiltInv, StoredOnce, CopiesStay, Known
<1>4. ReadyWasBuilt'
  <2>1. proven' = proven
    BY DEF StoreSubmission, history
  <2> QED
    BY <1>2, <2>1 DEF BuiltInv, ReadyWasBuilt
<1>5. \A sub \in submits' : OfStored(sub.cand, sub.rev)'
  <2>1. ASSUME NEW sub \in submits
        PROVE  OfStored(sub.cand, sub.rev)'
    <3>1. sub.cand \in Candidates
      BY DEF TypeInv, TypeOK, SubmitTypeOK
    <3> QED
      BY <1>3, <3>1 DEF BuiltInv, CopiesStay, OfStored, Known
  <2> QED
    BY <1>1, <1>2, <2>1 DEF OfStored, Known
<1>6. \A j \in Jobs : JobIsCurrent(j)'
  <2> TAKE j \in Jobs
  <2>1. /\ state' = state /\ job' = job /\ carries' = carries
        /\ pending' = pending /\ running' = running /\ job[j].cand \in Candidates
    BY DEF StoreSubmission, jobVars, TypeInv, TypeOK, JobsTypeOK
  <2> QED
    BY <1>3, <2>1 DEF BuiltInv, JobIsCurrent, CopiesStay, OfStored, Known, Work
<1> QED
  BY <1>3, <1>4, <1>5, <1>6 DEF BuiltInv

LEMMA EnqueueBuilt ==
  ASSUME TypeInv, JobsInv, BuiltInv, NEW j \in Jobs,
         NEW info \in [client : ClientIds, cand : Candidates, rev : Revs],
         NEW groups \in SUBSET Groups, NEW buildFirst \in BOOLEAN, NEW A \in SUBSET Jobs,
         \A i \in A : state[i] \in Open, Enqueue(j, info, groups, buildFirst, A),
         OfStored(info.cand, info.rev), \A sub \in submits' : sub \in submits
  PROVE  BuiltInv'
<1> DEFINE first == IF buildFirst THEN {BuildOrder(j, 1)}
                    ELSE {MatchOrder(j, g) : g \in {h \in groups : Runnable(h)}}
           own == <<info.cand, info.rev>>
           st == IF first = {} THEN "FAILED" ELSE "QUEUED"
<1>1. state[j] = "NONE" /\ Work(j) = {} /\ j \notin A
  BY DEF Enqueue, NextJob, JobsInv, SoundJob, WorkWhileOpen, Open
<1>2. /\ UNCHANGED <<live, staged, revs, proven>>
      /\ job' = [job EXCEPT ![j] = info]
      /\ pending' = [PendingWithout(A) EXCEPT ![j] = first]
      /\ running' = RunningWithout(A)
      /\ state' = [Cancelled(state, A) EXCEPT ![j] = st]
  BY Zenon DEF Enqueue, storeVars
<1>3. carries' = [o \in Orders |->
         IF o \notin first THEN carries[o]
         ELSE IF buildFirst THEN {own} ELSE CopiesOf(info.cand, info.rev, o[3])]
  BY Zenon DEF Enqueue
<1>4. \A o \in first : o \in Orders /\ o[2] = j
  <2>1. BuildOrder(j, 1) \in Orders
    BY OrderTypes DEF MaxAttempts
  <2>2. \A g \in groups : MatchOrder(j, g) \in Orders
    BY OrderTypes
  <2>3. BuildOrder(j, 1)[2] = j /\ \A g \in groups : MatchOrder(j, g)[2] = j
    BY DEF BuildOrder, MatchOrder
  <2> QED
    BY <2>1, <2>2, <2>3
<1> HIDE DEF first, st
<1>5. \A o \in first : own \in carries'[o]
  BY <1>3, <1>4 DEF CopiesOf
<1>6. \A o \in Orders : o \notin first => carries'[o] = carries[o]
  BY <1>3
<1>7. job'[j] = info /\ \A i \in Jobs : i # j => job'[i] = job[i]
  BY <1>2 DEF TypeInv, TypeOK, JobsTypeOK
<1>8. Work(j)' = first
  BY <1>1, <1>2 DEF Work, PendingWithout, RunningWithout
<1>9. ASSUME NEW i \in Jobs, i # j
      PROVE  /\ \A o \in Work(i)' : o \in Work(i)
             /\ state[i] = "NONE" => state'[i] = "NONE"
  BY <1>2, <1>9 DEF Work, PendingWithout, RunningWithout, Cancelled, Open
<1>10. JobIsCurrent(j)'
  BY <1>2, <1>5, <1>7, <1>8 DEF JobIsCurrent, OfStored, Known
<1>11. ASSUME NEW i \in Jobs, i # j
       PROVE  JobIsCurrent(i)'
  <2>1. \A o \in Work(i) : o \in Orders /\ o \notin first
    BY <1>4, <1>11 DEF JobsInv, SoundJob, OwnOrders, Work, TypeInv, TypeOK, JobsTypeOK
  <2>2. \A o \in Work(i)' : <<job[i].cand, job[i].rev>> \in carries'[o]
    BY <1>6, <1>9, <1>11, <2>1 DEF BuiltInv, JobIsCurrent
  <2>3. state'[i] # "NONE" => OfStored(job[i].cand, job[i].rev)
    BY <1>9, <1>11 DEF BuiltInv, JobIsCurrent
  <2> QED
    BY <1>2, <1>7, <1>11, <2>2, <2>3 DEF JobIsCurrent, OfStored, Known
<1>12. StoredOnce' /\ ReadyWasBuilt' /\ \A sub \in submits' : OfStored(sub.cand, sub.rev)'
  BY <1>2 DEF BuiltInv, StoredOnce, ReadyWasBuilt, OfStored, Known
<1> QED
  BY <1>10, <1>11, <1>12 DEF BuiltInv

(* An accepted result, if it exchanges no copy and what it adds to the job   *)
(* builds or plays the job's copy.                                           *)
LEMMA SettleBuilt ==
  ASSUME TypeInv, JobsInv, BuiltInv, NEW s \in Streams, NEW o \in Orders, NEW j \in Jobs,
         NEW st, NEW more, NEW abort, Settle(s, o, j, st, more, abort),
         StoredOnce', ReadyWasBuilt', CopiesStay,
         \A m \in more : m[2] = j /\ <<job[j].cand, job[j].rev>> \in carries'[m],
         \A m \in Orders : m \notin more => carries'[m] = carries[m]
  PROVE  BuiltInv'
<1>1. /\ owner[Key(o)] # Unowned /\ j = owner[Key(o)][1]
      /\ job' = job /\ submits' = submits
  BY DEF Settle
<1>2. state[j] # "NONE"
  BY <1>1, AnsweredOrder DEF Open
<1>3. PICK waiting, left, final :
        /\ running' = [running EXCEPT ![j] = left] /\ left \subseteq running[j]
        /\ pending' = [pending EXCEPT ![j] = waiting] /\ waiting \subseteq pending[j] \cup more
        /\ state' = [state EXCEPT ![j] = final]
  <2> DEFINE w == IF aborted[j] \/ abort THEN {} ELSE pending[j] \cup more
             l == {r \in running[j] : Key(r) # Key(o)}
             f == Verdict(st, Over(l, w))
  <2>1. /\ running' = [running EXCEPT ![j] = l] /\ pending' = [pending EXCEPT ![j] = w]
        /\ state' = [state EXCEPT ![j] = f]
    BY DEF Settle
  <2>2. l \subseteq running[j] /\ w \subseteq pending[j] \cup more
    OBVIOUS
  <2> HIDE DEF w, l, f
  <2> QED
    BY <2>1, <2>2
<1>4. /\ \A x \in Work(j)' : x \in Work(j) \/ x \in more
      /\ \A i \in Jobs : i # j => Work(i)' = Work(i) /\ state'[i] = state[i]
  BY <1>3 DEF Work, TypeInv, TypeOK, JobsTypeOK
<1>5. \A i \in Jobs : \A x \in Work(i) : x \in Orders /\ x[2] = i
  BY DEF JobsInv, SoundJob, OwnOrders, Work, TypeInv, TypeOK, JobsTypeOK
<1>6. \A c \in Candidates, r \in Revs : OfStored(c, r) => OfStored(c, r)'
  BY DEF CopiesStay, OfStored, Known
<1>7. ASSUME NEW i \in Jobs
      PROVE  JobIsCurrent(i)'
  <2>1. job[i].cand \in Candidates /\ job[i].rev \in Revs
    BY DEF TypeInv, TypeOK, JobsTypeOK
  <2>2. state'[i] # "NONE" => OfStored(job[i].cand, job[i].rev)
    BY <1>2, <1>4 DEF BuiltInv, JobIsCurrent
  <2>3. \A x \in Work(i)' : <<job[i].cand, job[i].rev>> \in carries'[x]
    BY <1>4, <1>5 DEF BuiltInv, JobIsCurrent
  <2> QED
    BY <1>1, <1>6, <2>1, <2>2, <2>3 DEF JobIsCurrent, OfStored, Known
<1>8. \A sub \in submits' : OfStored(sub.cand, sub.rev)'
  <2>1. \A sub \in submits : sub.cand \in Candidates /\ sub.rev \in Revs
    BY DEF TypeInv, TypeOK, SubmitTypeOK
  <2> QED
    BY <1>1, <1>6, <2>1 DEF BuiltInv, OfStored, Known
<1> QED
  BY <1>7, <1>8 DEF BuiltInv

(* What the answered order builds or plays is the job's copy, if the worker  *)
(* was told.                                                                 *)
LEMMA AnswerProves ==
  ASSUME TypeInv, JobsInv, BuiltInv, NEW o \in Orders, NEW j \in Jobs,
         owner[Key(o)] # Unowned, j = owner[Key(o)][1], o \notin emptied
  PROVE  LET c == job[j].cand IN
         /\ c \in Candidates /\ Known(c) /\ job[j].rev = live[c].rev
         /\ <<c, live[c].rev>> \in carries[o]
<1>1. o \in running[j] /\ state[j] # "NONE"
  BY AnsweredOrder DEF Open
<1>2. job[j].cand \in Candidates
  BY DEF TypeInv, TypeOK, JobsTypeOK
<1>3. OfStored(job[j].cand, job[j].rev)
  BY <1>1 DEF BuiltInv, JobIsCurrent
<1>4. <<job[j].cand, job[j].rev>> \in carries[o]
  BY <1>1 DEF BuiltInv, JobIsCurrent, Work
<1> QED
  BY <1>2, <1>3, <1>4 DEF OfStored, Known

LEMMA BuildAnswersItself ==
  ASSUME TypeInv, NEW o \in Orders, NEW j \in Jobs, BuildRuns(o, j)
  PROVE  o \notin emptied /\ o \in running[j]
<1>1. PICK r \in running[j] : Key(r) = Key(o) /\ r \notin emptied
  BY DEF BuildRuns, IsBuild
<1>2. r \in Orders
  BY <1>1 DEF TypeInv, TypeOK, JobsTypeOK
<1> QED
  BY <1>1, <1>2, OrderTypes DEF Key

(* READY comes with a proof of the copy it is said of.                       *)
LEMMA ReadyIsProven ==
  ASSUME TypeInv, JobsInv, BuiltInv, NEW o \in Orders, NEW j \in Jobs, NEW a,
         owner[Key(o)] # Unowned, j = owner[Key(o)][1], o \notin emptied,
         SetStatus(job[j].cand, "READY", a), proven' = proven \cup carries[o]
  PROVE  StoredOnce' /\ CopiesStay /\ ReadyWasBuilt'
<1> DEFINE c == job[j].cand
<1>1. /\ c \in Candidates
      /\ <<c, live[c].rev>> \in carries[o]
  BY AnswerProves
<1>2. /\ StoredOnce' /\ CopiesStay
      /\ \A d \in Candidates : live'[d].status = "READY" =>
           live'[d].rev = live[d].rev /\ (live[d].status = "READY" \/ d = c)
  BY <1>1, SetStatusKeepsCopies DEF BuiltInv
<1> HIDE DEF c
<1> QED
  BY <1>1, <1>2 DEF BuiltInv, ReadyWasBuilt

LEMMA BuildSucceededBuilt ==
  ASSUME TypeInv, JobsInv, BuiltInv, NEW s \in Streams, NEW o \in Orders, NEW j \in Jobs,
         BuildSucceeded(s, o, j)
  PROVE  BuiltInv'
<1> DEFINE c == job[j].cand
           playable == {g \in afterBuild[j] : \A r \in Rivals[g] : live'[r].status = "READY"}
           matches == {MatchOrder(j, g) : g \in playable}
<1>1. /\ BuildRuns(o, j) /\ SetStatus(c, "READY", job[j].rev)
      /\ proven' = proven \cup carries[o]
      /\ Settle(s, o, j, state[j], matches, FALSE)
      /\ carries' = [m \in Orders |->
           IF m \notin matches THEN carries[m]
           ELSE {<<r, live'[r].rev>> : r \in {c} \cup Rivals[m[3]]}]
  BY DEF BuildSucceeded
<1>2. o \notin emptied /\ owner[Key(o)] # Unowned /\ j = owner[Key(o)][1]
  BY <1>1, BuildAnswersItself DEF Settle
<1>3. StoredOnce' /\ CopiesStay /\ ReadyWasBuilt'
  BY <1>1, <1>2, ReadyIsProven
<1>4. live'[c].rev = job[j].rev
  BY <1>2, <1>3, AnswerProves DEF CopiesStay
<1>5. \A m \in matches : m \in Orders /\ m[2] = j
  BY OrderTypes DEF MatchOrder, TypeInv, TypeOK, JobsTypeOK
<1>6. \A m \in matches : <<c, job[j].rev>> \in carries'[m]
  <2> HIDE DEF matches
  <2> QED
    BY <1>1, <1>4, <1>5
<1>7. \A m \in Orders : m \notin matches => carries'[m] = carries[m]
  <2> HIDE DEF matches
  <2> QED
    BY <1>1
<1>8. \A m \in matches : m[2] = j /\ <<job[j].cand, job[j].rev>> \in carries'[m]
  BY <1>5, <1>6
<1>9. Settle(s, o, j, state[j], matches, FALSE)
  BY <1>1
<1> HIDE DEF matches, playable, c
<1> QED
  BY ONLY TypeInv, JobsInv, BuiltInv, <1>3, <1>7, <1>8, <1>9, SettleBuilt, Zenon

LEMMA BuildEngineFailedBuilt ==
  ASSUME TypeInv, JobsInv, BuiltInv, NEW s \in Streams, NEW o \in Orders, NEW j \in Jobs,
         BuildEngineFailed(s, o, j)
  PROVE  BuiltInv'
<1> DEFINE n == attempts[j] + 1
           again == TryAgain(j, n)
           more == IF again THEN {BuildOrder(j, n + 1)} ELSE {}
           st == IF again THEN state[j] ELSE "FAILED"
<1>1. /\ BuildRuns(o, j) /\ Settle(s, o, j, st, more, FALSE)
      /\ carries' = IF again THEN [carries EXCEPT ![BuildOrder(j, n + 1)] = carries[o]]
                    ELSE carries
      /\ UNCHANGED <<live, staged, revs, proven>>
  BY DEF BuildEngineFailed, storeVars
<1>2. o \notin emptied /\ owner[Key(o)] # Unowned /\ j = owner[Key(o)][1]
  BY <1>1, BuildAnswersItself DEF Settle
<1>3. <<job[j].cand, job[j].rev>> \in carries[o]
  BY <1>2, AnswerProves
<1>4. StoredOnce' /\ CopiesStay /\ ReadyWasBuilt'
  BY <1>1 DEF BuiltInv, StoredOnce, CopiesStay, Known, ReadyWasBuilt
<1>5. again => BuildOrder(j, n + 1) \in Orders
  <2>1. again => n < MaxAttempts
    BY Zenon DEF TryAgain
  <2>2. n \in Nat /\ n > 0
    BY DEF TypeInv, TypeOK, JobsTypeOK
  <2> HIDE DEF n
  <2>3. again => n + 1 \in 1 .. MaxAttempts
    BY <2>1, <2>2 DEF MaxAttempts
  <2> QED
    BY <2>3, OrderTypes
<1>6. carries \in [Orders -> SUBSET Copies]
  BY DEF TypeInv, TypeOK, HistoryTypeOK
<1>7. \A m \in more : m[2] = j /\ <<job[j].cand, job[j].rev>> \in carries'[m]
  BY <1>1, <1>3, <1>5, <1>6 DEF BuildOrder
<1>8. \A m \in Orders : m \notin more => carries'[m] = carries[m]
  BY <1>1, <1>5, <1>6
<1> HIDE DEF more, st, again
<1> QED
  BY <1>1, <1>4, <1>7, <1>8, SettleBuilt

(* A copy that is blamed is not READY any more.                              *)
LEMMA BlamedBuilt ==
  ASSUME TypeInv, JobsInv, BuiltInv, NEW s \in Streams, NEW o \in Orders, NEW j \in Jobs,
         NEW who \in Candidates, SetStatus(who, "BUILD_FAILED", 0),
         Settle(s, o, j, "FAILED", {}, TRUE), UNCHANGED <<carries, proven>>
  PROVE  BuiltInv'
<1>1. /\ StoredOnce' /\ CopiesStay
      /\ \A d \in Candidates : live'[d].status = "READY" =>
           live'[d].rev = live[d].rev /\ live[d].status = "READY"
  BY SetStatusKeepsCopies DEF BuiltInv
<1>2. ReadyWasBuilt'
  BY <1>1 DEF BuiltInv, ReadyWasBuilt
<1> QED
  BY <1>1, <1>2, SettleBuilt

LEMMA ResultBuilt ==
  ASSUME TypeInv, JobsInv, BuiltInv, NEW s \in Streams, NEW o \in Orders, AwaitedResult(s, o)
  PROVE  BuiltInv'
<1>1. PICK j \in Jobs :
        \/ BuildSucceeded(s, o, j) \/ BuildEngineFailed(s, o, j) \/ BuildBlamed(s, o, j)
        \/ \E who \in Candidates : MatchBlamed(s, o, j, who)
        \/ MatchError(s, o, j) \/ MatchPlayed(s, o, j)
  BY DEF AwaitedResult
<1>2. CASE BuildSucceeded(s, o, j) \/ BuildEngineFailed(s, o, j)
  BY <1>2, BuildSucceededBuilt, BuildEngineFailedBuilt
<1>3. CASE BuildBlamed(s, o, j)
  <2>1. job[j].cand \in Candidates
    BY DEF TypeInv, TypeOK, JobsTypeOK
  <2> QED
    BY <1>3, <2>1, BlamedBuilt DEF BuildBlamed
<1>4. ASSUME NEW who \in Candidates, MatchBlamed(s, o, j, who)
      PROVE  BuiltInv'
  BY <1>4, BlamedBuilt DEF MatchBlamed
<1>5. CASE MatchError(s, o, j)
  <2>1. Settle(s, o, j, state[j], {}, FALSE) /\ UNCHANGED <<live, staged, revs, carries, proven>>
    BY <1>5 DEF MatchError, storeVars
  <2>2. StoredOnce' /\ CopiesStay /\ ReadyWasBuilt'
    BY <2>1 DEF BuiltInv, StoredOnce, CopiesStay, Known, ReadyWasBuilt
  <2> QED
    BY <2>1, <2>2, SettleBuilt
<1>6. CASE MatchPlayed(s, o, j)
  <2>1. /\ o \notin emptied /\ SetStatus(job[j].cand, "READY", 0)
        /\ proven' = proven \cup carries[o] /\ carries' = carries
        /\ Settle(s, o, j, state[j], {}, FALSE)
    BY <1>6 DEF MatchPlayed
  <2>2. owner[Key(o)] # Unowned /\ j = owner[Key(o)][1]
    BY <2>1 DEF Settle
  <2>3. StoredOnce' /\ CopiesStay /\ ReadyWasBuilt'
    BY <2>1, <2>2, ReadyIsProven
  <2> QED
    BY <2>1, <2>3, SettleBuilt
<1> QED
  BY <1>1, <1>2, <1>3, <1>4, <1>5, <1>6

(* An id stored once has had one copy: what was read of it is that one.      *)
LEMMA ReadIsStored ==
  ASSUME BuiltInv, NEW c \in Candidates, NEW rev \in ReadBefore(c)
  PROVE  OfStored(c, rev)
<1>1. /\ live[c].rev = revs[c] /\ revs[c] \in {0, 1}
      /\ live[c].status = "ABSENT" <=> revs[c] = 0
      /\ c \in Builtins => revs[c] = 0
  BY DEF BuiltInv, StoredOnce
<1>2. CASE c \in Builtins
  BY <1>1, <1>2 DEF ReadBefore, OfStored, Known
<1>3. CASE c \notin Builtins
  <2>1. rev \in 1 .. revs[c]
    BY <1>1, <1>3 DEF ReadBefore
  <2>2. revs[c] = 1 /\ rev = 1
    BY <1>1, <2>1
  <2> QED
    BY <1>1, <2>2 DEF OfStored, Known
<1> QED
  BY <1>2, <1>3

LEMMA SubmissionBuilt ==
  ASSUME Versions, TypeInv, JobsInv, BuiltInv, Submission
  PROVE  BuiltInv'
<1>1. ASSUME NEW cl \in Clients, NEW cancel \in BOOLEAN, TryReserve(cl, cancel)
      PROVE  BuiltInv'
  <2> DEFINE A == IF cancel THEN Mine(cl) ELSE {}
  <2>1. /\ pending' = PendingWithout(A) /\ running' = RunningWithout(A)
        /\ state' = Cancelled(state, A)
        /\ UNCHANGED <<live, staged, revs, job, carries, proven, submits>>
    BY <1>1 DEF TryReserve, storeVars, history
  <2>2. \A i \in A : state[i] # "NONE"
    BY DEF Mine, Open
  <2> HIDE DEF A
  <2>3. \A j \in Jobs : /\ \A o \in Work(j)' : o \in Work(j)
                        /\ state[j] = "NONE" => state'[j] = "NONE"
    BY <2>1, <2>2 DEF Work, PendingWithout, RunningWithout, Cancelled
  <2> QED
    BY <2>1, <2>3, QuietBuilt
<1>2. ASSUME NEW cl \in Clients, RejectSubmission(cl)
      PROVE  BuiltInv'
  BY <1>2, QuietBuilt DEF RejectSubmission, storeVars, jobVars, history, Work
<1>3. ASSUME NEW sub \in submits, NEW j \in Jobs, NEW ladder \in Ladders(sub.cand),
             EnqueuePlacement(sub, j, ladder)
      PROVE  BuiltInv'
  <2> DEFINE info == [sub EXCEPT !.client = IF Metered THEN @ ELSE NoClient]
             A == Superseded(sub.cand)
  <2>1. Enqueue(j, info, PlacementGroups \cup ladder, Archive, A) /\ submits' = submits \ {sub}
    BY <1>3 DEF EnqueuePlacement
  <2>2. A \in SUBSET Jobs /\ \A i \in A : state[i] \in Open
    BY DEF Superseded
  <2>3. sub \in [client : Clients, cand : Candidates, rev : Revs]
    BY DEF TypeInv, TypeOK, SubmitTypeOK
  <2>4. /\ info \in [client : ClientIds, cand : Candidates, rev : Revs]
        /\ info.cand = sub.cand /\ info.rev = sub.rev
    BY <2>3 DEF ClientIds
  <2>5. PlacementGroups \cup ladder \in SUBSET Groups /\ Archive \in BOOLEAN
    BY DEF Ladders, LadderGroups, SchedulerAssumption
  <2>6. OfStored(info.cand, info.rev)
    BY <2>4 DEF BuiltInv
  <2>7. \A t \in submits' : t \in submits
    BY <2>1
  <2> DEFINE groups == PlacementGroups \cup ladder
  <2>8. Enqueue(j, info, groups, Archive, A) /\ groups \in SUBSET Groups
    BY <2>1, <2>5
  <2> HIDE DEF info, A, groups
  <2> QED
    BY <2>2, <2>4, <2>5, <2>6, <2>7, <2>8, EnqueueBuilt
<1>4. ASSUME NEW c \in Candidates, NEW g \in Groups, NEW j \in Jobs, EnqueueMatch(c, g, j)
      PROVE  BuiltInv'
  <2>1. PICK rev \in ReadBefore(c) :
          Enqueue(j, [client |-> NoClient, cand |-> c, rev |-> rev], {g}, FALSE, {})
    BY <1>4 DEF EnqueueMatch
  <2> DEFINE info == [client |-> NoClient, cand |-> c, rev |-> rev]
  <2>2. /\ info \in [client : ClientIds, cand : Candidates, rev : Revs]
        /\ info.cand = c /\ info.rev = rev /\ FALSE \in BOOLEAN
    BY ReadIsOld DEF ClientIds
  <2>3. OfStored(c, rev)
    BY ReadIsStored
  <2>4. {} \in SUBSET Jobs /\ (\A i \in {} : state[i] \in Open) /\ {g} \in SUBSET Groups
    OBVIOUS
  <2>5. \A t \in submits' : t \in submits
    BY <1>4 DEF EnqueueMatch
  <2>6. Enqueue(j, info, {g}, FALSE, {})
    BY <2>1
  <2> HIDE DEF info
  <2> QED
    BY <2>2, <2>3, <2>4, <2>5, <2>6, EnqueueBuilt
<1> QED
  BY <1>1, <1>2, <1>3, <1>4, StoreSubmissionBuilt DEF Submission

LEMMA DispatchBuilt ==
  ASSUME TypeInv, JobsInv, BuiltInv, Dispatch
  PROVE  BuiltInv'
<1>1. ASSUME NEW w \in Workers, NEW o \in Orders, SendOrder(w, o)
      PROVE  BuiltInv'
  <2>1. PICK j \in Jobs : j = Scanned
    BY <1>1, LenProperties, ElementOfSeq
    DEF SendOrder, Scanning, Scanned, TypeInv, TypeOK, PassTypeOK
  <2>2. /\ o \in pending[j] /\ pending' = [pending EXCEPT ![j] = @ \ {o}]
        /\ running' = [running EXCEPT ![j] = {r \in @ : Key(r) # Key(o)} \cup {o}]
        /\ state' = [state EXCEPT ![j] = "RUNNING"]
        /\ UNCHANGED <<live, staged, revs, job, carries, proven, submits>>
    BY <1>1, <2>1 DEF SendOrder, storeVars, history
  <2>3. state[j] # "NONE"
    BY <2>2 DEF JobsInv, SoundJob, WorkWhileOpen, Work
  <2> QED
    BY <2>2, <2>3, QuietBuilt DEF Work, TypeInv, TypeOK, JobsTypeOK
<1>2. CASE ~ \E w \in Workers, o \in Orders : SendOrder(w, o)
  <2>1. UNCHANGED <<live, staged, revs, job, carries, proven, submits, pending, running, state>>
    BY <1>2 DEF Dispatch, DropSpentJob, NoRoom, SendFails, EndOfPass, storeVars, jobVars, history
  <2> QED
    BY <2>1, QuietBuilt DEF Work
<1> QED
  BY <1>1, <1>2

LEMMA FleetBuilt ==
  ASSUME TypeInv, JobsInv, BuiltInv, Fleet
  PROVE  BuiltInv'
<1>1. ASSUME NEW s \in Streams, AddWorker(s) \/ Break(s)
      PROVE  BuiltInv'
  BY <1>1, QuietBuilt DEF AddWorker, Break, storeVars, jobVars, history, Work
<1>2. ASSUME NEW s \in Streams, RemoveWorker(s)
      PROVE  BuiltInv'
  <2>1. UNCHANGED <<live, staged, revs, job, carries, proven, submits, state>>
    BY <1>2 DEF RemoveWorker, storeVars, history
  <2>2. \A j \in Jobs : \A o \in Work(j)' : o \in Work(j)
    BY <1>2 DEF RemoveWorker, Work, OrphansOf
  <2> QED
    BY <2>1, <2>2, QuietBuilt
<1>3. ASSUME NEW s \in Streams, NEW o \in Orders, LateResult(s, o)
      PROVE  BuiltInv'
  BY <1>3, QuietBuilt DEF LateResult, storeVars, jobVars, history, Work
<1> QED
  BY <1>1, <1>2, <1>3, ResultBuilt DEF Fleet, OnResult

(* Where every submission gets an id of its own, an entry is READY only if   *)
(* some worker has built the very copy that is stored: whatever a Send loses *)
(* and a stream answers late (candidate_store.h 39).                         *)
THEOREM ReadyWasAlwaysBuilt == Versions => (SafetySpec => []ReadyWasBuilt)
<1> SUFFICES ASSUME Versions PROVE SafetySpec => []ReadyWasBuilt
  OBVIOUS
<1>1. Init => BuiltInv
  <2> SUFFICES ASSUME Init PROVE BuiltInv
    OBVIOUS
  <2>1. StoredOnce /\ ReadyWasBuilt
    BY DEF Init, StoreInit, StoredOnce, ReadyWasBuilt
  <2>2. submits = {} /\ \A j \in Jobs : state[j] = "NONE" /\ Work(j) = {}
    BY DEF Init, Work
  <2> QED
    BY <2>1, <2>2 DEF BuiltInv, JobIsCurrent
<1>2. (TypeInv /\ JobsInv) /\ BuiltInv /\ [Next]_vars => BuiltInv'
  <2> SUFFICES ASSUME TypeInv, JobsInv, BuiltInv, [Next]_vars PROVE BuiltInv'
    OBVIOUS
  <2>1. CASE UNCHANGED vars
    BY <2>1, QuietBuilt DEF vars, storeVars, jobVars, history, Work
  <2> QED
    BY <2>1, SubmissionBuilt, DispatchBuilt, FleetBuilt DEF Next
<1>3. BuiltInv => ReadyWasBuilt
  BY DEF BuiltInv
<1> QED
  BY <1>1, <1>2, <1>3, JobsInvariant, PTL DEF SafetySpec

-----------------------------------------------------------------------------
(* A job with an order to dispatch is in queue_, in every pass and for every *)
(* fleet.                                                                    *)

Waits(j) == pending[j] # {} /\ ~ aborted[j]
QueueInv == \A j \in Jobs : Waits(j) => j \in Range(queue)

(* What queue_ holds after each of its edits.                                *)
LEMMA QueueAfterPush ==
  ASSUME NEW q \in Seq(Jobs), NEW j \in Jobs
  PROVE  j \in Range(Append(q, j)) /\ Range(q) \subseteq Range(Append(q, j))
<1>1. /\ Len(Append(q, j)) = Len(q) + 1 /\ Len(q) \in Nat
      /\ DOMAIN q = 1 .. Len(q) /\ DOMAIN Append(q, j) = 1 .. Len(q) + 1
      /\ Append(q, j)[Len(q) + 1] = j
      /\ \A i \in 1 .. Len(q) : Append(q, j)[i] = q[i]
  BY AppendProperties, LenProperties
<1> QED
  BY <1>1 DEF Range

LEMMA QueueAfterPushFront ==
  ASSUME NEW S \in SUBSET Jobs, NEW q \in Seq(Jobs), NEW f \in Arrangements(S)
  PROVE  S \cup Range(q) \subseteq Range(f \o q)
<1>1. f \in Seq(Jobs)
  <2>1. f \in Seq(S)
    BY ArrangementType
  <2> QED
    BY <2>1, ElementOfSeq, LenProperties, SeqDef
<1>2. S \subseteq Range(f)
  BY DEF Arrangements, Range
<1> QED
  BY <1>1, <1>2, RangeConcatenation

LEMMA QueueAfterDrop ==
  ASSUME NEW q \in Seq(Jobs), NEW i \in 1 .. Len(q), NEW j \in Range(q), j # q[i]
  PROVE  j \in Range(RemoveAt(q, i))
<1> DEFINE head == SubSeq(q, 1, i - 1)
           rest == SubSeq(q, i + 1, Len(q))
<1>1. Len(q) \in Nat /\ DOMAIN q = 1 .. Len(q) /\ \A k \in 1 .. Len(q) : q[k] \in Jobs
  BY LenProperties, ElementOfSeq
<1>2. PICK k \in 1 .. Len(q) : q[k] = j
  BY <1>1 DEF Range
<1>3. /\ head \in Seq(Jobs) /\ DOMAIN head = 1 .. i - 1
      /\ \A m \in 1 .. i - 1 : head[m] = q[m]
  BY <1>1, SubSeqProperties
<1>4. /\ rest \in Seq(Jobs) /\ DOMAIN rest = 1 .. Len(q) - i
      /\ \A m \in 1 .. Len(q) - i : rest[m] = q[i + m]
  <2>1. rest \in Seq(Jobs) /\ Len(rest) = Len(q) - i
    <3>1. \A m \in i + 1 .. Len(q) : q[m] \in Jobs
      BY <1>1
    <3>2. rest \in Seq(Jobs)
      BY <1>1, <3>1, SubSeqProperties
    <3>3. Len(rest) = IF i + 1 <= Len(q) THEN Len(q) - (i + 1) + 1 ELSE 0
      BY <1>1, <3>1, SubSeqProperties
    <3>4. ASSUME NEW n \in Nat, NEW m \in 1 .. n
          PROVE  (IF m + 1 <= n THEN n - (m + 1) + 1 ELSE 0) = n - m
      BY ONLY n \in Nat, m \in 1 .. n, SMTT(30)
    <3>5. Len(rest) = Len(q) - i
      BY ONLY <1>1, <3>3, <3>4, i \in 1 .. Len(q)
    <3> QED
      BY <3>2, <3>5
  <2>2. \A m \in 1 .. Len(q) - i : rest[m] = q[i + m]
    BY <1>1, SubSeqProperties
  <2> QED
    BY <2>1, <2>2, LenProperties
<1>5. Range(RemoveAt(q, i)) = Range(head) \cup Range(rest)
  <2>1. RemoveAt(q, i) = head \o rest
    BY DEF RemoveAt
  <2> HIDE DEF head, rest
  <2> QED
    BY <1>3, <1>4, <2>1, RangeConcatenation
<1> HIDE DEF head, rest
<1>6. CASE k < i
  <2>1. k \in DOMAIN head /\ head[k] = j
    BY <1>2, <1>3, <1>6
  <2>2. j \in Range(head)
    BY <2>1 DEF Range
  <2> QED
    BY <2>2, <1>5
<1>7. CASE k > i
  <2>1. k - i \in 1 .. Len(q) - i /\ i + (k - i) = k
    BY <1>1, <1>2, <1>7
  <2>2. k - i \in DOMAIN rest /\ rest[k - i] = j
    BY <1>2, <1>4, <2>1
  <2>3. j \in Range(rest)
    BY <2>2 DEF Range
  <2> QED
    BY <2>3, <1>5
<1> QED
  BY <1>1, <1>2, <1>6, <1>7

(* Where queue_ loses nothing, only a job that has new orders has to be      *)
(* looked at.                                                                *)
LEMMA QueueGrows ==
  ASSUME QueueInv, Range(queue) \subseteq Range(queue'),
         \A j \in Jobs : Waits(j)' => Waits(j) \/ j \in Range(queue')
  PROVE  QueueInv'
BY DEF QueueInv

LEMMA EnqueueQueued ==
  ASSUME TypeInv, QueueInv, NEW j \in Jobs, NEW info, NEW groups, NEW first, NEW A,
         Enqueue(j, info, groups, first, A)
  PROVE  QueueInv'
<1> DEFINE orders == IF first THEN {BuildOrder(j, 1)}
                     ELSE {MatchOrder(j, g) : g \in {g \in groups : Runnable(g)}}
<1>1. /\ pending' = [PendingWithout(A) EXCEPT ![j] = orders]
      /\ aborted' = AbortedWith(A)
      /\ IF orders = {} THEN queue' = queue ELSE queue' = Append(queue, j)
  BY DEF Enqueue
<1> HIDE DEF orders
<1>2. queue \in Seq(Jobs)
  BY DEF TypeInv, TypeOK, PassTypeOK
<1>3. \A i \in Jobs : i # j /\ Waits(i)' => Waits(i)
  BY <1>1 DEF Waits, PendingWithout, AbortedWith
<1>4. Waits(j)' => orders # {}
  BY <1>1 DEF Waits, PendingWithout
<1>5. CASE orders = {}
  BY <1>1, <1>3, <1>4, <1>5, QueueGrows
<1>6. CASE orders # {}
  BY <1>1, <1>2, <1>3, <1>6, QueueAfterPush, QueueGrows
<1> QED
  BY <1>5, <1>6

LEMMA SettleQueued ==
  ASSUME TypeInv, QueueInv, NEW s, NEW o, NEW j \in Jobs, NEW st, NEW more, NEW abort,
         Settle(s, o, j, st, more, abort)
  PROVE  QueueInv'
<1> DEFINE rest == IF aborted[j] \/ abort THEN {} ELSE pending[j] \cup more
<1>1. /\ pending' = [pending EXCEPT ![j] = rest]
      /\ aborted' = [aborted EXCEPT ![j] = @ \/ abort]
      /\ queue' = IF more = {} THEN queue ELSE Append(queue, j)
  BY DEF Settle, PushBack
<1>2. rest = {} \/ (~ aborted[j] /\ rest = pending[j] \cup more)
  OBVIOUS
<1> HIDE DEF rest
<1>3. /\ queue \in Seq(Jobs)
      /\ pending \in [Jobs -> SUBSET Orders] /\ aborted \in [Jobs -> BOOLEAN]
  BY DEF TypeInv, TypeOK, PassTypeOK, JobsTypeOK
<1>4. \A i \in Jobs : i # j /\ Waits(i)' => Waits(i)
  BY <1>1, <1>3 DEF Waits
<1>5. Waits(j)' => Waits(j) \/ more # {}
  BY <1>1, <1>2, <1>3 DEF Waits
<1>6. CASE more = {}
  BY <1>1, <1>4, <1>5, <1>6, QueueGrows
<1>7. CASE more # {}
  BY <1>1, <1>3, <1>4, <1>7, QueueAfterPush, QueueGrows
<1> QED
  BY <1>6, <1>7

LEMMA RemoveWorkerQueued ==
  ASSUME TypeInv, QueueInv, NEW s \in Streams, RemoveWorker(s)
  PROVE  QueueInv'
<1> DEFINE w == WorkerOf[s]
           S == {j \in Jobs : OrphansOf(w, j) # {}}
<1>1. queue \in Seq(Jobs) /\ aborted' = aborted
  BY DEF TypeInv, TypeOK, PassTypeOK, RemoveWorker
<1>2. CASE w \notin Attached
  BY <1>1, <1>2, QueueGrows DEF RemoveWorker, Waits
<1>3. CASE w \in Attached
  <2>1. pending' = [j \in Jobs |-> pending[j] \cup OrphansOf(w, j)] /\ PushFront(S)
    BY <1>3 DEF RemoveWorker
  <2>2. PICK f \in Arrangements(S \ Range(queue)) : queue' = f \o queue
    BY <2>1 DEF PushFront
  <2>3. (S \ Range(queue)) \cup Range(queue) \subseteq Range(queue')
    <3>1. S \ Range(queue) \in SUBSET Jobs
      OBVIOUS
    <3> HIDE DEF S
    <3> QED
      BY <1>1, <2>2, <3>1, QueueAfterPushFront
  <2>4. \A j \in Jobs : Waits(j)' => Waits(j) \/ j \in S
    BY <1>1, <2>1 DEF Waits
  <2> HIDE DEF S
  <2> QED
    BY <2>3, <2>4, QueueGrows
<1> QED
  BY <1>2, <1>3

LEMMA DispatchQueued ==
  ASSUME TypeInv, QueueInv, Dispatch
  PROVE  QueueInv'
<1>1. /\ queue \in Seq(Jobs) /\ cursor \in Nat \ {0}
      /\ pending \in [Jobs -> SUBSET Orders]
  BY DEF TypeInv, TypeOK, PassTypeOK, JobsTypeOK
<1>2. Len(queue) \in Nat /\ (Scanning => cursor \in 1 .. Len(queue))
  BY <1>1, LenProperties DEF Scanning
<1>3. CASE DropSpentJob
  <2>1. /\ Scanning /\ Spent(queue[cursor]) /\ queue' = RemoveAt(queue, cursor)
        /\ pending' = pending /\ aborted' = aborted
    BY <1>3 DEF DropSpentJob, Scanned, jobVars
  <2>2. \A j \in Jobs : Waits(j) => j # queue[cursor]
    BY <2>1 DEF Spent, Waits
  <2> QED
    BY <1>1, <1>2, <2>1, <2>2, QueueAfterDrop DEF QueueInv, Waits
<1>4. ASSUME NEW w \in Workers, NEW o \in Orders, SendOrder(w, o)
      PROVE  QueueInv'
  <2> DEFINE j == queue[cursor]
             last == pending[j] = {o}
  <2>1. /\ Scanning /\ pending' = [pending EXCEPT ![j] = @ \ {o}] /\ aborted' = aborted
        /\ queue' = IF last THEN RemoveAt(queue, cursor) ELSE queue
    BY <1>4 DEF SendOrder, Scanned
  <2>2. \A i \in Jobs : Waits(i)' => Waits(i) /\ (last => i # j)
    BY <1>1, <2>1 DEF Waits
  <2>3. CASE last
    BY <1>1, <1>2, <2>1, <2>2, <2>3, QueueAfterDrop DEF QueueInv
  <2>4. CASE ~ last
    BY <2>1, <2>2, <2>4, QueueGrows
  <2> QED
    BY <2>3, <2>4
<1>5. CASE NoRoom \/ (\E w \in Workers, o \in Orders : SendFails(w, o)) \/ EndOfPass
  BY <1>5, QueueGrows DEF NoRoom, SendFails, EndOfPass, Waits, jobVars
<1> QED
  BY <1>3, <1>4, <1>5 DEF Dispatch

LEMMA QueueIsKept == TypeInv /\ QueueInv /\ [Next]_vars => QueueInv'
<1> SUFFICES ASSUME TypeInv, QueueInv, [Next]_vars PROVE QueueInv'
  OBVIOUS
<1>1. CASE UNCHANGED vars
  BY <1>1, QueueGrows DEF vars, jobVars, Waits
<1>2. CASE Submission
  <2>1. ASSUME NEW cl \in Clients, NEW cancel \in BOOLEAN, TryReserve(cl, cancel)
        PROVE  QueueInv'
    <3>1. PICK A : /\ pending' = PendingWithout(A) /\ aborted' = AbortedWith(A)
                   /\ queue' = queue
      BY <2>1 DEF TryReserve
    <3>2. \A j \in Jobs : Waits(j)' => Waits(j)
      BY <3>1 DEF Waits, PendingWithout, AbortedWith
    <3> QED
      BY <3>1, <3>2, QueueGrows
  <2>2. ASSUME NEW cl \in Clients, NEW c \in Candidates,
               RejectSubmission(cl) \/ StoreSubmission(cl, c)
        PROVE  QueueInv'
    BY <2>2, QueueGrows DEF RejectSubmission, StoreSubmission, jobVars, Waits
  <2>3. ASSUME NEW sub \in submits, NEW j \in Jobs, NEW ladder, EnqueuePlacement(sub, j, ladder)
        PROVE  QueueInv'
    BY <2>3, EnqueueQueued DEF EnqueuePlacement
  <2>4. ASSUME NEW c \in Candidates, NEW g \in Groups, NEW j \in Jobs, EnqueueMatch(c, g, j)
        PROVE  QueueInv'
    BY <2>4, EnqueueQueued DEF EnqueueMatch
  <2>5. CASE \E cl \in Clients : RejectSubmission(cl)
    <3>1. Candidates # {}
      BY DEF SchedulerAssumption
    <3> QED
      BY <2>5, <2>2, <3>1
  <2> QED
    BY <1>2, <2>1, <2>2, <2>3, <2>4, <2>5 DEF Submission
<1>3. CASE Fleet
  <2>1. ASSUME NEW s \in Streams, AddWorker(s) \/ Break(s)
        PROVE  QueueInv'
    BY <2>1, QueueGrows DEF AddWorker, Break, jobVars, Waits
  <2>2. ASSUME NEW s \in Streams, NEW o \in Orders, LateResult(s, o)
        PROVE  QueueInv'
    BY <2>2, QueueGrows DEF LateResult, jobVars, Waits
  <2>3. ASSUME NEW s \in Streams, NEW o \in Orders, AwaitedResult(s, o)
        PROVE  QueueInv'
    <3>1. PICK j \in Jobs : \E st, more, abort : Settle(s, o, j, st, more, abort)
      BY <2>3 DEF AwaitedResult, BuildSucceeded, BuildEngineFailed, BuildBlamed,
         MatchBlamed, MatchError, MatchPlayed
    <3> QED
      BY <3>1, SettleQueued
  <2> QED
    BY <1>3, <2>1, <2>2, <2>3, RemoveWorkerQueued DEF Fleet, OnResult
<1> QED
  BY <1>1, <1>2, <1>3, DispatchQueued DEF Next

-----------------------------------------------------------------------------
(* No job is in queue_ twice.  What is there has an order to dispatch or was *)
(* aborted, and runs no build, so that a build's answer finds its job gone   *)
(* from queue_ when it appends it.                                           *)

Queued(j) == /\ state[j] # "NONE" /\ (pending[j] # {} \/ aborted[j])
             /\ \A r \in running[j] : r[1] # "build"
OnceInv == IsInjective(queue) /\ \A j \in Range(queue) : Queued(j)

LEMMA OnceAfterPush ==
  ASSUME NEW q \in Seq(Jobs), NEW j \in Jobs, IsInjective(q), j \notin Range(q)
  PROVE  IsInjective(Append(q, j)) /\ Range(Append(q, j)) = Range(q) \cup {j}
<1>1. /\ Len(q) \in Nat /\ DOMAIN q = 1 .. Len(q)
      /\ DOMAIN Append(q, j) = 1 .. Len(q) + 1
      /\ Append(q, j)[Len(q) + 1] = j
      /\ \A i \in 1 .. Len(q) : Append(q, j)[i] = q[i]
  BY AppendProperties, LenProperties
<1>2. \A i \in 1 .. Len(q) : q[i] # j
  BY <1>1 DEF Range
<1>3. 1 .. Len(q) + 1 = (1 .. Len(q)) \cup {Len(q) + 1}
  BY <1>1
<1> DEFINE r == Append(q, j)
<1>4. /\ DOMAIN r = (1 .. Len(q)) \cup {Len(q) + 1} /\ r[Len(q) + 1] = j
      /\ \A i \in 1 .. Len(q) : r[i] = q[i]
  BY <1>1, <1>3
<1> HIDE DEF r
<1>5. IsInjective(r)
  BY <1>1, <1>2, <1>4 DEF IsInjective
<1>6. Range(r) = Range(q) \cup {j}
  BY <1>1, <1>4 DEF Range
<1> QED
  BY <1>5, <1>6 DEF r

LEMMA ArrangedOnce ==
  ASSUME NEW S \in SUBSET Jobs, NEW f \in Arrangements(S)
  PROVE  IsInjective(f) /\ Range(f) = S /\ f \in Seq(Jobs)
<1>1. IsFiniteSet(S) /\ Cardinality(S) \in Nat
  BY JobsFinite, FS_Subset, FS_CardinalityType
<1> DEFINE I == 1 .. Cardinality(S)
<1>2. IsFiniteSet(I) /\ Cardinality(I) = Cardinality(S)
  BY <1>1, FS_Interval
<1>3. f \in [I -> S] /\ \A x \in S : \E i \in I : f[i] = x
  BY DEF Arrangements
<1> HIDE DEF I
<1>4. f \in Surjection(I, S)
  BY <1>3 DEF Surjection
<1>5. f \in Injection(I, S)
  BY <1>1, <1>2, <1>4, FS_Surjection
<1>6. f \in Seq(Jobs)
  BY ArrangementType, SeqMonotonic
<1> QED
  BY <1>3, <1>5, <1>6 DEF Injection, Range

LEMMA OnceJoined ==
  ASSUME NEW a \in Seq(Jobs), NEW b \in Seq(Jobs), IsInjective(a), IsInjective(b),
         Range(a) \cap Range(b) = {}
  PROVE  IsInjective(a \o b) /\ Range(a \o b) = Range(a) \cup Range(b)
<1>1. /\ Len(a) \in Nat /\ Len(b) \in Nat
      /\ DOMAIN a = 1 .. Len(a) /\ DOMAIN b = 1 .. Len(b)
  BY LenProperties
<1>2. /\ a \o b \in Seq(Jobs) /\ Len(a \o b) = Len(a) + Len(b)
      /\ \A i \in 1 .. Len(a) + Len(b) :
           (a \o b)[i] = IF i <= Len(a) THEN a[i] ELSE b[i - Len(a)]
  BY ConcatProperties
<1>3. DOMAIN (a \o b) = 1 .. Len(a) + Len(b)
  BY <1>2, LenProperties
<1> DEFINE c == a \o b
<1>4. ASSUME NEW i \in DOMAIN c, NEW k \in DOMAIN c, c[i] = c[k]
      PROVE  i = k
  <2>1. \A m \in DOMAIN c : \/ m <= Len(a) /\ m \in DOMAIN a /\ c[m] = a[m]
                            \/ m > Len(a) /\ m - Len(a) \in DOMAIN b
                               /\ c[m] = b[m - Len(a)]
    BY <1>1, <1>2, <1>3
  <2>2. i \in Nat /\ k \in Nat
    BY <1>1, <1>3
  <2> HIDE DEF c
  <2>3. \A m \in DOMAIN a, n \in DOMAIN b : a[m] # b[n]
    BY DEF Range
  <2>4. CASE i <= Len(a) /\ k <= Len(a)
    BY <1>1, <1>4, <2>1, <2>2, <2>4 DEF IsInjective
  <2>5. CASE i > Len(a) /\ k > Len(a)
    <3>1. i - Len(a) = k - Len(a)
      BY <1>1, <1>4, <2>1, <2>2, <2>5 DEF IsInjective
    <3> QED
      BY <1>1, <2>2, <3>1
  <2> QED
    BY <1>1, <1>4, <2>1, <2>2, <2>3, <2>4, <2>5
<1>5. Range(c) = Range(a) \cup Range(b)
  BY RangeConcatenation
<1> QED
  BY <1>4, <1>5 DEF IsInjective

LEMMA OnceAfterDrop ==
  ASSUME NEW q \in Seq(Jobs), NEW i \in 1 .. Len(q), IsInjective(q)
  PROVE  /\ IsInjective(RemoveAt(q, i))
         /\ Range(RemoveAt(q, i)) \subseteq Range(q) \ {q[i]}
<1> DEFINE head == SubSeq(q, 1, i - 1)
           rest == SubSeq(q, i + 1, Len(q))
<1>1. Len(q) \in Nat /\ DOMAIN q = 1 .. Len(q) /\ \A k \in 1 .. Len(q) : q[k] \in Jobs
  BY LenProperties, ElementOfSeq
<1>2. /\ head \in Seq(Jobs) /\ Len(head) = i - 1
      /\ \A m \in 1 .. i - 1 : head[m] = q[m]
  BY <1>1, SubSeqProperties
<1>3. /\ rest \in Seq(Jobs) /\ Len(rest) = Len(q) - i
      /\ \A m \in 1 .. Len(q) - i : rest[m] = q[i + m]
  <2>1. \A m \in i + 1 .. Len(q) : q[m] \in Jobs
    BY <1>1
  <2>2. Len(rest) = IF i + 1 <= Len(q) THEN Len(q) - (i + 1) + 1 ELSE 0
    BY <1>1, <2>1, SubSeqProperties
  <2>3. ASSUME NEW n \in Nat, NEW m \in 1 .. n
        PROVE  (IF m + 1 <= n THEN n - (m + 1) + 1 ELSE 0) = n - m
    BY ONLY n \in Nat, m \in 1 .. n, SMTT(30)
  <2>4. Len(rest) = Len(q) - i
    <3>1. Len(q) \in Nat
      BY <1>1
    <3> HIDE DEF rest
    <3> QED
      BY ONLY <3>1, <2>2, <2>3, i \in 1 .. Len(q)
  <2>5. rest \in Seq(Jobs) /\ \A m \in 1 .. Len(q) - i : rest[m] = q[i + m]
    BY <1>1, <2>1, SubSeqProperties
  <2> QED
    BY <2>4, <2>5
<1>4. RemoveAt(q, i) = head \o rest
  BY DEF RemoveAt
<1>5. DOMAIN head = 1 .. i - 1 /\ DOMAIN rest = 1 .. Len(q) - i
  BY <1>2, <1>3, LenProperties
<1> HIDE DEF head, rest
<1>6. IsInjective(head)
  BY <1>1, <1>2, <1>5 DEF IsInjective
<1>7. IsInjective(rest)
  <2> SUFFICES ASSUME NEW m \in 1 .. Len(q) - i, NEW n \in 1 .. Len(q) - i,
                      rest[m] = rest[n]
               PROVE  m = n
    BY <1>5 DEF IsInjective
  <2>1. i + m \in 1 .. Len(q) /\ i + n \in 1 .. Len(q)
    BY <1>1
  <2>2. i + m = i + n
    BY <1>1, <1>3, <2>1 DEF IsInjective
  <2> QED
    BY <1>1, <2>2
<1>8. \A m \in 1 .. i - 1 : m \in DOMAIN q /\ m # i
  BY <1>1
<1>9. \A m \in 1 .. Len(q) - i : i + m \in DOMAIN q /\ i + m # i
  BY <1>1
<1>10. Range(head) \cap Range(rest) = {}
  <2> SUFFICES ASSUME NEW m \in 1 .. i - 1, NEW n \in 1 .. Len(q) - i,
                      head[m] = rest[n]
               PROVE  FALSE
    BY <1>5 DEF Range
  <2>1. q[m] = q[i + n]
    BY <1>2, <1>3
  <2>2. m = i + n
    BY <1>8, <1>9, <2>1 DEF IsInjective
  <2> QED
    BY <1>1, <2>2
<1>11. Range(head) \subseteq Range(q) \ {q[i]} /\ Range(rest) \subseteq Range(q) \ {q[i]}
  <2>1. i \in DOMAIN q
    BY <1>1
  <2>2. \A m \in DOMAIN q : m # i => q[m] \in Range(q) \ {q[i]}
    BY <2>1 DEF Range, IsInjective
  <2>3. \A m \in 1 .. i - 1 : head[m] \in Range(q) \ {q[i]}
    BY <1>2, <1>8, <2>2
  <2>4. \A m \in 1 .. Len(q) - i : rest[m] \in Range(q) \ {q[i]}
    BY <1>3, <1>9, <2>2
  <2> QED
    BY <1>5, <2>3, <2>4 DEF Range
<1> QED
  BY <1>2, <1>3, <1>4, <1>6, <1>7, <1>10, <1>11, OnceJoined

(* A job that starts no build stays as it is required to be in queue_.        *)
LEMMA StaysQueued ==
  ASSUME NEW j \in Jobs, Queued(j), state'[j] # "NONE", running'[j] \subseteq running[j],
         pending'[j] # {} \/ aborted'[j]
  PROVE  Queued(j)'
BY DEF Queued

LEMMA QueueStays ==
  ASSUME OnceInv, TypeInv, queue' = queue,
         \A j \in Jobs : Queued(j) => Queued(j)'
  PROVE  OnceInv'
<1>1. Range(queue) \subseteq Jobs
  BY ElementOfSeq, LenProperties DEF Range, TypeInv, TypeOK, PassTypeOK
<1> QED
  BY <1>1 DEF OnceInv

(* A job with a build order running has nothing else, and is not in queue_.   *)
LEMMA BuildingIsOut ==
  ASSUME JobsInv, NEW j \in Jobs, pending[j] # {}
  PROVE  \A r \in running[j] : r[1] # "build"
BY DEF JobsInv, SoundJob, BuildThenPlay, OwnOrders, Work

LEMMA AbortQueued ==
  ASSUME NEW A \in SUBSET Jobs, NEW j \in Jobs, Queued(j),
         pending'[j] = PendingWithout(A)[j], running'[j] = RunningWithout(A)[j],
         aborted'[j] = AbortedWith(A)[j], state'[j] = Cancelled(state, A)[j]
  PROVE  Queued(j)'
BY DEF PendingWithout, RunningWithout, AbortedWith, Cancelled, Queued

LEMMA EnqueueOnce ==
  ASSUME TypeInv, JobsInv, OnceInv, NEW j \in Jobs, NEW info, NEW groups, NEW first,
         NEW A \in SUBSET Jobs, Enqueue(j, info, groups, first, A)
  PROVE  OnceInv'
<1> DEFINE orders == IF first THEN {BuildOrder(j, 1)}
                     ELSE {MatchOrder(j, g) : g \in {g \in groups : Runnable(g)}}
<1>1. /\ state[j] = "NONE"
      /\ pending' = [PendingWithout(A) EXCEPT ![j] = orders]
      /\ running' = RunningWithout(A) /\ aborted' = AbortedWith(A)
      /\ IF orders = {} THEN /\ state' = [Cancelled(state, A) EXCEPT ![j] = "FAILED"]
                             /\ queue' = queue
                        ELSE /\ state' = [Cancelled(state, A) EXCEPT ![j] = "QUEUED"]
                             /\ queue' = Append(queue, j)
  BY DEF Enqueue, NextJob
<1> HIDE DEF orders
<1>2. queue \in Seq(Jobs)
  BY DEF TypeInv, TypeOK, PassTypeOK
<1>3. ~ Queued(j) /\ running[j] = {}
  BY <1>1 DEF Queued, JobsInv, SoundJob, WorkWhileOpen, Work
<1>4. ASSUME NEW i \in Jobs, Queued(i)
      PROVE  Queued(i)'
  <2>1. i # j
    BY <1>3, <1>4
  <2>2. /\ pending'[i] = PendingWithout(A)[i] /\ running'[i] = RunningWithout(A)[i]
        /\ aborted'[i] = AbortedWith(A)[i] /\ state'[i] = Cancelled(state, A)[i]
    BY <1>1, <2>1 DEF PendingWithout, Cancelled
  <2> QED
    BY <1>4, <2>2, AbortQueued
<1>5. CASE orders = {}
  BY <1>1, <1>4, <1>5, QueueStays
<1>6. CASE orders # {}
  <2>1. Queued(j)'
    BY <1>1, <1>3, <1>6 DEF Queued, PendingWithout, RunningWithout, Cancelled
  <2>2. j \notin Range(queue)
    BY <1>3 DEF OnceInv
  <2>3. IsInjective(queue') /\ Range(queue') = Range(queue) \cup {j}
    BY <1>1, <1>2, <1>6, <2>2, OnceAfterPush DEF OnceInv
  <2>4. Range(queue) \subseteq Jobs
    BY <1>2, ElementOfSeq, LenProperties DEF Range
  <2> QED
    BY <1>4, <2>1, <2>3, <2>4 DEF OnceInv
<1> QED
  BY <1>5, <1>6

LEMMA SettleOnce ==
  ASSUME TypeInv, JobsInv, OnceInv, NEW s \in Streams, NEW o \in Orders, NEW j \in Jobs,
         NEW st, NEW more, NEW abort \in BOOLEAN, Settle(s, o, j, st, more, abort),
         st \in {state[j], "FAILED"}, more # {} => BuildRuns(o, j)
  PROVE  OnceInv'
<1> DEFINE left == {r \in running[j] : Key(r) # Key(o)}
           rest == IF aborted[j] \/ abort THEN {} ELSE pending[j] \cup more
           final == Verdict(st, Over(left, rest))
<1>1. /\ running' = [running EXCEPT ![j] = left]
      /\ pending' = [pending EXCEPT ![j] = rest]
      /\ aborted' = [aborted EXCEPT ![j] = @ \/ abort]
      /\ state' = [state EXCEPT ![j] = final]
      /\ queue' = IF more = {} THEN queue ELSE Append(queue, j)
      /\ owner[Key(o)] # Unowned /\ j = owner[Key(o)][1]
  BY DEF Settle, PushBack
<1>2. /\ queue \in Seq(Jobs)
      /\ pending \in [Jobs -> SUBSET Orders] /\ running \in [Jobs -> SUBSET Orders]
      /\ aborted \in [Jobs -> BOOLEAN] /\ state \in [Jobs -> JobStates]
  BY DEF TypeInv, TypeOK, PassTypeOK, JobsTypeOK
<1>3. state[j] # "NONE"
  <2>1. state[j] \in Open \/ state[j] = "FAILED"
    BY <1>1, AnsweredOrder
  <2> QED
    BY <2>1 DEF Open
<1>4. final # "NONE"
  BY <1>3 DEF Verdict
<1>5. /\ rest # {} \/ aborted[j] \/ abort \/ (pending[j] = {} /\ more = {})
      /\ left \subseteq running[j]
  OBVIOUS
<1> HIDE DEF left, rest, final
<1>6. /\ running'[j] = left /\ pending'[j] = rest /\ state'[j] = final
      /\ aborted'[j] <=> aborted[j] \/ abort
  <2>1. aborted'[j] <=> aborted[j] \/ abort
    BY <1>1, <1>2, Zenon
  <2> QED
    BY <1>1, <1>2, <2>1
<1>7. ASSUME NEW i \in Jobs, Queued(i)
      PROVE  Queued(i)'
  <2>1. CASE i = j
    BY <1>4, <1>5, <1>6, <1>7, <2>1, StaysQueued DEF Queued
  <2>2. CASE i # j
    BY <1>1, <1>2, <1>7, <2>2 DEF Queued
  <2> QED
    BY <2>1, <2>2
<1>8. CASE more = {}
  BY <1>1, <1>7, <1>8, QueueStays
<1>9. CASE more # {}
  <2>1. BuildRuns(o, j)
    BY <1>9
  <2>2. Left(o, j) = {} /\ pending[j] = {} /\ \E r \in running[j] : r[1] = "build"
    BY <2>1, AnsweredBuild DEF BuildRuns, IsBuild
  <2>3. j \notin Range(queue)
    BY <2>2 DEF OnceInv, Queued
  <2>4. IsInjective(queue') /\ Range(queue') = Range(queue) \cup {j}
    BY <1>1, <1>2, <1>9, <2>3, OnceAfterPush DEF OnceInv
  <2>5. left = {}
    BY <2>2 DEF Left, left
  <2>6. Queued(j)'
    BY <1>4, <1>5, <1>6, <1>9, <2>5 DEF Queued
  <2>7. Range(queue) \subseteq Jobs
    BY <1>2, ElementOfSeq, LenProperties DEF Range
  <2> QED
    BY <1>7, <2>4, <2>6, <2>7 DEF OnceInv
<1> QED
  BY <1>8, <1>9

LEMMA RemoveWorkerOnce ==
  ASSUME TypeInv, JobsInv, OnceInv, NEW s \in Streams, RemoveWorker(s)
  PROVE  OnceInv'
<1> DEFINE w == WorkerOf[s]
           S == {j \in Jobs : OrphansOf(w, j) # {}}
<1>1. /\ queue \in Seq(Jobs) /\ aborted' = aborted /\ state' = state
      /\ pending \in [Jobs -> SUBSET Orders] /\ running \in [Jobs -> SUBSET Orders]
  BY DEF TypeInv, TypeOK, PassTypeOK, JobsTypeOK, RemoveWorker
<1>2. CASE w \notin Attached
  BY <1>1, <1>2, QueueStays DEF RemoveWorker, Queued
<1>3. CASE w \in Attached
  <2>1. /\ pending' = [j \in Jobs |-> pending[j] \cup OrphansOf(w, j)]
        /\ running' = [j \in Jobs |-> running[j] \ OrphansOf(w, j)]
        /\ PushFront(S)
    BY <1>3 DEF RemoveWorker
  <2>2. \A j \in Jobs : OrphansOf(w, j) \subseteq running[j]
    BY DEF OrphansOf
  <2>3. ASSUME NEW j \in Jobs, Queued(j)
        PROVE  Queued(j)'
    BY <1>1, <2>1, <2>3 DEF Queued
  <2>4. ASSUME NEW j \in S
        PROVE  Queued(j)'
    <3>1. PICK o \in OrphansOf(w, j) : o \in running[j] /\ o \in Work(j)
      BY <2>2 DEF Work
    <3>2. state[j] # "NONE"
      BY <3>1 DEF JobsInv, SoundJob, WorkWhileOpen
    <3>3. pending'[j] # {} /\ running'[j] = running[j] \ OrphansOf(w, j)
      BY <2>1
    <3>4. \A r \in running[j] : r[1] = "build" => r = o
      BY <3>1 DEF JobsInv, SoundJob, BuildThenPlay, Work
    <3> QED
      BY <1>1, <3>1, <3>2, <3>3, <3>4 DEF Queued
  <2>5. PICK f \in Arrangements(S \ Range(queue)) : queue' = f \o queue
    BY <2>1 DEF PushFront
  <2>6. S \ Range(queue) \in SUBSET Jobs
    OBVIOUS
  <2>7. Range(queue) \subseteq Jobs
    BY <1>1, ElementOfSeq, LenProperties DEF Range
  <2> HIDE DEF S
  <2>8. IsInjective(f) /\ Range(f) = S \ Range(queue) /\ f \in Seq(Jobs)
    BY <2>6, ArrangedOnce
  <2>9. IsInjective(queue') /\ Range(queue') \subseteq S \cup Range(queue)
    BY <1>1, <2>5, <2>8, OnceJoined DEF OnceInv
  <2> QED
    BY <2>3, <2>4, <2>7, <2>9 DEF OnceInv
<1> QED
  BY <1>2, <1>3

LEMMA DispatchOnce ==
  ASSUME TypeInv, JobsInv, OnceInv, Dispatch
  PROVE  OnceInv'
<1>1. /\ queue \in Seq(Jobs) /\ cursor \in Nat \ {0}
      /\ pending \in [Jobs -> SUBSET Orders] /\ running \in [Jobs -> SUBSET Orders]
      /\ state \in [Jobs -> JobStates]
  BY DEF TypeInv, TypeOK, PassTypeOK, JobsTypeOK
<1>2. /\ Len(queue) \in Nat /\ (Scanning => cursor \in 1 .. Len(queue))
      /\ DOMAIN queue = 1 .. Len(queue) /\ Range(queue) \subseteq Jobs
  BY <1>1, LenProperties, ElementOfSeq DEF Scanning, Range
<1>3. Scanning => queue[cursor] \in Range(queue)
  BY <1>2 DEF Range
<1>4. CASE DropSpentJob
  <2>1. /\ Scanning /\ queue' = RemoveAt(queue, cursor)
        /\ UNCHANGED <<pending, running, aborted, state>>
    BY <1>4 DEF DropSpentJob, jobVars
  <2>2. IsInjective(queue') /\ Range(queue') \subseteq Range(queue)
    BY <1>1, <1>2, <2>1, OnceAfterDrop DEF OnceInv
  <2> QED
    BY <2>1, <2>2 DEF OnceInv, Queued
<1>5. ASSUME NEW w \in Workers, NEW o \in Orders, SendOrder(w, o)
      PROVE  OnceInv'
  <2> PICK j : j = queue[cursor]
    OBVIOUS
  <2> DEFINE last == pending[j] = {o}
  <2>1. /\ Scanning /\ o \in pending[j] /\ aborted' = aborted
        /\ pending' = [pending EXCEPT ![j] = @ \ {o}]
        /\ running' = [running EXCEPT ![j] = {r \in @ : Key(r) # Key(o)} \cup {o}]
        /\ state' = [state EXCEPT ![j] = "RUNNING"]
        /\ queue' = IF last THEN RemoveAt(queue, cursor) ELSE queue
    BY <1>5 DEF SendOrder, Scanned
  <2>2. j \in Range(queue) /\ j \in Jobs
    BY <1>2, <1>3, <2>1
  <2>3. ASSUME NEW i \in Range(queue), i # j
        PROVE  Queued(i)'
    BY <1>1, <1>2, <2>1, <2>3 DEF Queued, OnceInv
  <2>4. CASE last
    <3>1. IsInjective(queue') /\ Range(queue') \subseteq Range(queue) \ {j}
      BY <1>1, <1>2, <2>1, <2>4, OnceAfterDrop DEF OnceInv
    <3> QED
      BY <2>3, <3>1 DEF OnceInv
  <2>5. CASE ~ last
    <3>1. o[1] # "build"
      BY <2>1, <2>2, <2>5 DEF JobsInv, SoundJob, BuildThenPlay, OwnOrders, Work
    <3>2. \A r \in running[j] : r[1] # "build"
      BY <2>2 DEF OnceInv, Queued
    <3>3. /\ pending'[j] = pending[j] \ {o} /\ state'[j] = "RUNNING"
          /\ running'[j] \subseteq running[j] \cup {o}
      BY <1>1, <2>1, <2>2
    <3>4. pending'[j] # {}
      BY <2>1, <2>5, <3>3
    <3>5. state'[j] # "NONE" /\ \A r \in running'[j] : r[1] # "build"
      BY <3>1, <3>2, <3>3
    <3>6. Queued(j)'
      BY <3>4, <3>5 DEF Queued
    <3>7. queue' = queue
      BY <2>1, <2>5
    <3> QED
      BY <2>3, <3>6, <3>7 DEF OnceInv
  <2> QED
    BY <2>4, <2>5
<1>6. CASE NoRoom \/ (\E w \in Workers, o \in Orders : SendFails(w, o)) \/ EndOfPass
  BY <1>6, QueueStays DEF NoRoom, SendFails, EndOfPass, Queued, jobVars
<1> QED
  BY <1>4, <1>5, <1>6 DEF Dispatch

LEMMA OnceIsKept == TypeInv /\ JobsInv /\ OnceInv /\ [Next]_vars => OnceInv'
<1> SUFFICES ASSUME TypeInv, JobsInv, OnceInv, [Next]_vars PROVE OnceInv'
  OBVIOUS
<1>1. CASE UNCHANGED vars
  BY <1>1, QueueStays DEF vars, jobVars, Queued
<1>2. CASE Submission
  <2>1. ASSUME NEW cl \in Clients, NEW cancel \in BOOLEAN, TryReserve(cl, cancel)
        PROVE  OnceInv'
    <3> DEFINE A == IF cancel THEN Mine(cl) ELSE {}
    <3>1. /\ pending' = PendingWithout(A) /\ running' = RunningWithout(A)
          /\ aborted' = AbortedWith(A) /\ state' = Cancelled(state, A)
          /\ queue' = queue
      BY <2>1 DEF TryReserve
    <3>2. A \in SUBSET Jobs
      BY DEF Mine
    <3> HIDE DEF A
    <3> QED
      BY <3>1, <3>2, AbortQueued, QueueStays
  <2>2. ASSUME NEW cl \in Clients, NEW c \in Candidates,
               RejectSubmission(cl) \/ StoreSubmission(cl, c)
        PROVE  OnceInv'
    BY <2>2, QueueStays DEF RejectSubmission, StoreSubmission, jobVars, Queued
  <2>3. ASSUME NEW sub \in submits, NEW j \in Jobs, NEW ladder, EnqueuePlacement(sub, j, ladder)
        PROVE  OnceInv'
    <3>1. Superseded(sub.cand) \in SUBSET Jobs
      BY DEF Superseded
    <3> QED
      BY <2>3, <3>1, EnqueueOnce DEF EnqueuePlacement
  <2>4. ASSUME NEW c \in Candidates, NEW g \in Groups, NEW j \in Jobs, EnqueueMatch(c, g, j)
        PROVE  OnceInv'
    BY <2>4, EnqueueOnce DEF EnqueueMatch
  <2>5. CASE \E cl \in Clients : RejectSubmission(cl)
    <3>1. Candidates # {}
      BY DEF SchedulerAssumption
    <3> QED
      BY <2>5, <2>2, <3>1
  <2> QED
    BY <1>2, <2>1, <2>2, <2>3, <2>4, <2>5 DEF Submission
<1>3. CASE Fleet
  <2>1. ASSUME NEW s \in Streams, AddWorker(s) \/ Break(s)
        PROVE  OnceInv'
    BY <2>1, QueueStays DEF AddWorker, Break, jobVars, Queued
  <2>2. ASSUME NEW s \in Streams, NEW o \in Orders, LateResult(s, o)
        PROVE  OnceInv'
    BY <2>2, QueueStays DEF LateResult, jobVars, Queued
  <2>3. ASSUME NEW s \in Streams, NEW o \in Orders, AwaitedResult(s, o)
        PROVE  OnceInv'
    <3>1. PICK j \in Jobs :
            \/ BuildSucceeded(s, o, j) \/ BuildEngineFailed(s, o, j)
            \/ Settle(s, o, j, "FAILED", {}, TRUE)
            \/ Settle(s, o, j, state[j], {}, FALSE)
      BY <2>3 DEF AwaitedResult, BuildBlamed, MatchBlamed, MatchError, MatchPlayed
    <3>2. CASE BuildSucceeded(s, o, j)
      <4>1. PICK more : Settle(s, o, j, state[j], more, FALSE) /\ BuildRuns(o, j)
        BY <3>2 DEF BuildSucceeded
      <4> QED
        BY <4>1, SettleOnce
    <3>3. CASE BuildEngineFailed(s, o, j)
      <4>1. PICK st, more : /\ st \in {state[j], "FAILED"}
                              /\ Settle(s, o, j, st, more, FALSE) /\ BuildRuns(o, j)
        BY <3>3 DEF BuildEngineFailed
      <4> QED
        BY <4>1, SettleOnce
    <3> QED
      BY <3>1, <3>2, <3>3, SettleOnce
  <2> QED
    BY <1>3, <2>1, <2>2, <2>3, RemoveWorkerOnce DEF Fleet, OnResult
<1> QED
  BY <1>1, <1>2, <1>3, DispatchOnce DEF Next

(* No job with an order to dispatch is ever missing from queue_, and no job   *)
(* is there twice, whatever workers do: also in the middle of a pass, and     *)
(* after a Send that failed.                                                  *)
THEOREM WaitingIsAlwaysQueued == SafetySpec => []WaitingIsQueued
<1>1. Init => QueueInv /\ OnceInv
  <2>1. Init => queue = <<>> /\ \A j \in Jobs : pending[j] = {}
    BY DEF Init
  <2>2. queue = <<>> => DOMAIN queue = {} /\ Range(queue) = {}
    BY DEF Range
  <2> QED
    BY <2>1, <2>2 DEF QueueInv, OnceInv, Waits, IsInjective
<1>2. QueueInv /\ OnceInv => WaitingIsQueued
  BY DEF QueueInv, OnceInv, Waits, WaitingIsQueued
<1> QED
  BY <1>1, <1>2, QueueIsKept, OnceIsKept, JobsInvariant, PTL DEF SafetySpec

-----------------------------------------------------------------------------
(* A worker's slots, for every fleet.                                        *)

SlotsInv == \A w \in Workers : IsFiniteSet(inFlight[w]) /\ Room(w) >= 0

LEMMA SlotsAreNumbers ==
  ASSUME SlotsInv, NEW w \in Workers
  PROVE  /\ IsFiniteSet(inFlight[w]) /\ Cardinality(inFlight[w]) \in Nat
         /\ Slots[w] \in Nat /\ Room(w) \in Nat
<1>1. IsFiniteSet(inFlight[w]) /\ Cardinality(inFlight[w]) \in Nat /\ Room(w) >= 0
  BY FS_CardinalityType DEF SlotsInv
<1>2. Slots[w] \in Nat
  BY DEF SchedulerAssumption
<1> QED
  BY <1>1, <1>2 DEF Room

(* Only a pass fills a slot; everything else can but free some.              *)
LEMMA SlotsFreed ==
  ASSUME SlotsInv, \A w \in Workers : inFlight'[w] \subseteq inFlight[w]
  PROVE  SlotsInv'
<1> SUFFICES ASSUME NEW w \in Workers
             PROVE  IsFiniteSet(inFlight'[w]) /\ Room(w)' >= 0
  BY DEF SlotsInv
<1>1. /\ IsFiniteSet(inFlight'[w]) /\ Cardinality(inFlight'[w]) \in Nat
      /\ Cardinality(inFlight'[w]) <= Cardinality(inFlight[w])
  BY SlotsAreNumbers, FS_Subset, FS_CardinalityType
<1>2. /\ Slots[w] - Cardinality(inFlight[w]) >= 0
      /\ Slots[w] \in Nat /\ Cardinality(inFlight[w]) \in Nat
  BY SlotsAreNumbers DEF SlotsInv, Room
<1> QED
  BY <1>1, <1>2 DEF Room

LEMMA SendOrderFills ==
  ASSUME TypeInv, SlotsInv, NEW w \in Workers, NEW o \in Orders, SendOrder(w, o)
  PROVE  SlotsInv'
<1> SUFFICES ASSUME NEW v \in Workers
             PROVE  IsFiniteSet(inFlight'[v]) /\ Room(v)' >= 0
  BY DEF SlotsInv
<1>1. inFlight' = [inFlight EXCEPT ![w] = @ \cup {o}] /\ Room(w) > 0
  BY DEF SendOrder
<1>2. inFlight \in [Workers -> SUBSET Orders]
  BY DEF TypeInv, TypeOK, FleetTypeOK
<1>3. CASE v # w
  <2>1. inFlight'[v] = inFlight[v]
    BY <1>1, <1>2, <1>3
  <2> QED
    BY <2>1 DEF SlotsInv, Room
<1>4. CASE v = w
  <2>1. inFlight'[w] = inFlight[w] \cup {o}
    BY <1>1, <1>2
  <2>2. /\ IsFiniteSet(inFlight'[w])
        /\ \/ Cardinality(inFlight'[w]) = Cardinality(inFlight[w])
           \/ Cardinality(inFlight'[w]) = Cardinality(inFlight[w]) + 1
    <3>1. /\ IsFiniteSet(inFlight[w] \cup {o})
          /\ Cardinality(inFlight[w] \cup {o}) =
               IF o \in inFlight[w] THEN Cardinality(inFlight[w]) ELSE Cardinality(inFlight[w]) + 1
      BY SlotsAreNumbers, FS_AddElement
    <3> QED
      BY <2>1, <3>1
  <2>3. /\ Slots[w] - Cardinality(inFlight[w]) > 0
        /\ Slots[w] \in Nat /\ Cardinality(inFlight[w]) \in Nat
    BY <1>1, SlotsAreNumbers DEF Room
  <2> QED
    BY <1>4, <2>2, <2>3 DEF Room
<1> QED
  BY <1>3, <1>4

LEMMA SlotsAreKept == TypeInv /\ SlotsInv /\ [Next]_vars => SlotsInv'
<1> SUFFICES ASSUME TypeInv, SlotsInv, [Next]_vars PROVE SlotsInv'
  OBVIOUS
<1>1. inFlight \in [Workers -> SUBSET Orders]
  BY DEF TypeInv, TypeOK, FleetTypeOK
<1>2. inFlight' = inFlight => SlotsInv'
  BY DEF SlotsInv, Room
<1>3. CASE UNCHANGED vars
  BY <1>2, <1>3 DEF vars, fleetVars
<1>4. ASSUME NEW A, DropOrders(A)
      PROVE  SlotsInv'
  BY <1>4, SlotsFreed DEF DropOrders
<1>5. CASE Submission
  <2>1. ASSUME NEW cl \in Clients, NEW c \in Candidates,
               RejectSubmission(cl) \/ StoreSubmission(cl, c)
        PROVE  SlotsInv'
    BY <1>2, <2>1 DEF RejectSubmission, StoreSubmission, fleetVars
  <2>2. CASE \E cl \in Clients : RejectSubmission(cl)
    BY <2>1, <2>2 DEF SchedulerAssumption
  <2>3. ASSUME NEW cl \in Clients, NEW cancel \in BOOLEAN, TryReserve(cl, cancel)
        PROVE  SlotsInv'
    BY <1>4, <2>3 DEF TryReserve
  <2>4. ASSUME NEW sub \in submits, NEW j \in Jobs, NEW ladder, EnqueuePlacement(sub, j, ladder)
        PROVE  SlotsInv'
    BY <1>4, <2>4 DEF EnqueuePlacement, Enqueue
  <2>5. ASSUME NEW c \in Candidates, NEW g \in Groups, NEW j \in Jobs, EnqueueMatch(c, g, j)
        PROVE  SlotsInv'
    BY <1>4, <2>5 DEF EnqueueMatch, Enqueue
  <2> QED
    BY <1>5, <2>1, <2>2, <2>3, <2>4, <2>5 DEF Submission
<1>6. CASE Dispatch
  <2>1. CASE DropSpentJob \/ NoRoom \/ EndOfPass
    BY <1>2, <2>1 DEF DropSpentJob, NoRoom, EndOfPass, fleetVars
  <2>2. ASSUME NEW w \in Workers, NEW o \in Orders, SendFails(w, o)
        PROVE  SlotsInv'
    BY <1>2, <2>2 DEF SendFails, fleetVars
  <2> QED
    BY <1>6, <2>1, <2>2, SendOrderFills DEF Dispatch
<1>7. CASE Fleet
  <2>1. ASSUME NEW s \in Streams, AddWorker(s) \/ RemoveWorker(s)
        PROVE  SlotsInv'
    <3>1. inFlight' = inFlight \/ inFlight' = [inFlight EXCEPT ![WorkerOf[s]] = {}]
      BY <2>1 DEF AddWorker, RemoveWorker
    <3> QED
      BY <1>1, <3>1, SlotsFreed
  <2>2. ASSUME NEW s \in Streams, Break(s)
        PROVE  SlotsInv'
    BY <1>2, <2>2 DEF Break
  <2>3. ASSUME NEW s \in Streams, NEW o \in Orders, LateResult(s, o)
        PROVE  SlotsInv'
    BY <1>2, <2>3 DEF LateResult
  <2>4. ASSUME NEW s \in Streams, NEW o \in Orders, AwaitedResult(s, o)
        PROVE  SlotsInv'
    <3>1. PICK j \in Jobs : \E st, more, abort : Settle(s, o, j, st, more, abort)
      BY <2>4 DEF AwaitedResult, BuildSucceeded, BuildEngineFailed, BuildBlamed,
         MatchBlamed, MatchError, MatchPlayed
    <3>2. inFlight' = [inFlight EXCEPT ![WorkerOf[s]] = {r \in @ : Key(r) # Key(o)}]
      BY <3>1 DEF Settle
    <3> QED
      BY <1>1, <3>2, SlotsFreed
  <2> QED
    BY <1>7, <2>1, <2>2, <2>3, <2>4 DEF Fleet, OnResult
<1> QED
  BY <1>3, <1>5, <1>6, <1>7 DEF Next

LEMMA InitSlots == Init => SlotsInv
<1> SUFFICES ASSUME Init, NEW w \in Workers
             PROVE  IsFiniteSet(inFlight[w]) /\ Room(w) >= 0
  BY DEF SlotsInv
<1>1. inFlight[w] = {} /\ Slots[w] \in Nat
  BY DEF Init, SchedulerAssumption
<1> QED
  BY <1>1, FS_EmptySet DEF Room

(* No worker is given more orders than it has slots, whatever streams share  *)
(* its id, break, or answer late (DispatchLocked).                           *)
THEOREM WorkersAreNeverOverbooked == SafetySpec => []NeverOverbooked
<1>1. SlotsInv => NeverOverbooked
  <2> SUFFICES ASSUME SlotsInv, NEW w \in Workers
               PROVE  Cardinality(inFlight[w]) <= Slots[w]
    BY DEF NeverOverbooked
  <2> QED
    BY SlotsAreNumbers DEF Room, SlotsInv
<1> QED
  BY <1>1, InitSlots, SlotsAreKept, JobsInvariant, PTL DEF SafetySpec

-----------------------------------------------------------------------------
(* What the simulation needs beyond JobsInv.                                 *)

(* An order in hand was given contents; one that was given contents belongs  *)
(* to a job there is, is one of its build attempts so far, or was dealt out. *)
BornInTurn(j) ==
  /\ \A o \in Work(j) : carries[o] # {}
  /\ \A o \in Orders : o[2] = j /\ carries[o] # {} =>
       /\ state[j] # "NONE"
       /\ o[1] = "build" => o[3] <= attempts[j] + 1
       /\ o[1] # "build" => afterBuild[j] = {}

(* Only a job that is over is aborted, and a failed job builds nothing.      *)
AbortedIsOver(j) ==
  /\ aborted[j] => state[j] \in {"FAILED", "CANCELLED"}
  /\ state[j] = "FAILED" => \A o \in Work(j) : o[1] # "build"

(* A registered stream is its worker's and can be written to; so no Send     *)
(* fails, and no order loses its contents.                                   *)
SendsWork ==
  /\ ~ MayBreak /\ emptied = {}
  /\ \A w \in Workers : attached[w] # NoStream =>
       WorkerOf[attached[w]] = w /\ link[attached[w]] = "up"

LedgerInv == SendsWork /\ \A j \in Jobs : BornInTurn(j) /\ AbortedIsOver(j)

Inv == TypeInv /\ JobsInv /\ LedgerInv

LEMMA KeysAreOrders == SendsWork => \A o \in Orders : Key(o) = o
BY DEF SendsWork, Key

LEMMA NoSendFails ==
  ASSUME SendsWork, NEW w \in Workers, NEW o \in Orders
  PROVE  ~ SendFails(w, o)
BY DEF SendsWork, SendFails, Emptiest, Attached

(* An order accepted from a worker is one its job runs, and waits nowhere.   *)
Awaited(o, j) ==
  /\ o \in running[j] /\ o \notin pending[j] /\ o[2] = j
  /\ state[j] \in Open \/ (state[j] = "FAILED" /\ aborted[j])
  /\ state[j] \in Open => ~ aborted[j]
  /\ Left(o, j) = running[j] \ {o}

LEMMA Accepted ==
  ASSUME Inv, NEW o \in Orders, NEW j \in Jobs,
         owner[Key(o)] # Unowned, j = owner[Key(o)][1]
  PROVE  Awaited(o, j)
<1>1. o \in running[j] /\ (state[j] \in Open \/ (state[j] = "FAILED" /\ aborted[j]))
  BY AnsweredOrder DEF Inv, LedgerInv, SendsWork
<1>2. o \notin pending[j] /\ o[2] = j
  BY <1>1 DEF Inv, JobsInv, SoundJob, OwnOrders, Work
<1>3. state[j] \in Open => ~ aborted[j]
  BY DEF Inv, LedgerInv, AbortedIsOver, Open
<1>4. Left(o, j) = running[j] \ {o}
  BY <1>1, KeysAreOrders DEF Left, Inv, LedgerInv, TypeInv, TypeOK, JobsTypeOK
<1> QED
  BY <1>1, <1>2, <1>3, <1>4 DEF Awaited

-----------------------------------------------------------------------------
(* Where an order is, told from its own job.                                 *)

Spot(o) ==
  IF o \in pending[o[2]] THEN "waiting"
  ELSE IF o \in running[o[2]] THEN "out"
  ELSE IF carries[o] # {} THEN "gone" ELSE "unborn"

OwnWork == \A j \in Jobs : \A o \in pending[j] \cup running[j] : o[2] = j

LEMMA PlaceIsSpot == OwnWork => \A o \in Orders : Place(o) = Spot(o)
<1> SUFFICES ASSUME OwnWork, NEW o \in Orders PROVE Place(o) = Spot(o)
  OBVIOUS
<1>1. o[2] \in Jobs
  BY OrderTypes
<1>2. o \in UNION {pending[j] : j \in Jobs} <=> o \in pending[o[2]]
  BY <1>1 DEF OwnWork
<1>3. o \in UNION {running[j] : j \in Jobs} <=> o \in running[o[2]]
  BY <1>1 DEF OwnWork
<1> QED
  BY <1>2, <1>3 DEF Place, Spot

LEMMA PlaceIsSpotNext == OwnWork' => \A o \in Orders : Place(o)' = Spot(o)'
<1> SUFFICES ASSUME OwnWork', NEW o \in Orders PROVE Place(o)' = Spot(o)'
  OBVIOUS
<1>1. o[2] \in Jobs
  BY OrderTypes
<1>2. o \in UNION {pending'[j] : j \in Jobs} <=> o \in pending'[o[2]]
  BY <1>1 DEF OwnWork
<1>3. o \in UNION {running'[j] : j \in Jobs} <=> o \in running'[o[2]]
  BY <1>1 DEF OwnWork
<1> QED
  BY <1>2, <1>3 DEF Place, Spot

LEMMA JobsOwnWork == (JobsInv => OwnWork) /\ (JobsInv' => OwnWork')
BY DEF JobsInv, SoundJob, OwnOrders, Work, OwnWork

(* Both states, for a step of the invariant.                                 *)
LEMMA Spots ==
  ASSUME Inv, JobsInv'
  PROVE  \A o \in Orders : Place(o) = Spot(o) /\ Place(o)' = Spot(o)'
BY PlaceIsSpot, PlaceIsSpotNext, JobsOwnWork DEF Inv

LEMMA Unborn ==
  ASSUME Inv
  PROVE  \A o \in Orders : (Spot(o) = "unborn") <=> carries[o] = {}
<1> SUFFICES ASSUME NEW o \in Orders PROVE (Spot(o) = "unborn") <=> carries[o] = {}
  OBVIOUS
<1>1. o[2] \in Jobs
  BY OrderTypes
<1>2. o \in Work(o[2]) => carries[o] # {}
  BY <1>1 DEF Inv, LedgerInv, BornInTurn
<1> QED
  BY <1>2 DEF Spot, Work

(* A verdict, from a state that is one.                                      *)
LEMMA Verdicts ==
  \A j \in Jobs :
    /\ state[j] = "NONE" => VerdictOf(j) = "none"
    /\ state[j] \in Open => VerdictOf(j) = "open"
    /\ state[j] = "DONE" => VerdictOf(j) = "done"
    /\ state[j] = "FAILED" => VerdictOf(j) = "failed"
    /\ state[j] = "CANCELLED" => VerdictOf(j) = "cancelled"
BY DEF VerdictOf, Open

LEMMA VerdictsNext ==
  \A j \in Jobs :
    /\ state'[j] = "NONE" => VerdictOf(j)' = "none"
    /\ state'[j] \in Open => VerdictOf(j)' = "open"
    /\ state'[j] = "DONE" => VerdictOf(j)' = "done"
    /\ state'[j] = "FAILED" => VerdictOf(j)' = "failed"
    /\ state'[j] = "CANCELLED" => VerdictOf(j)' = "cancelled"
BY DEF VerdictOf, Open

-----------------------------------------------------------------------------
(* The invariant.                                                            *)

LEMMA InitLedgerInv == ~ MayBreak /\ Init => LedgerInv
<1> SUFFICES ASSUME ~ MayBreak, Init PROVE LedgerInv
  OBVIOUS
<1>1. SendsWork
  BY DEF Init, SendsWork
<1>2. \A j \in Jobs : Work(j) = {} /\ state[j] = "NONE" /\ aborted[j] = FALSE
  BY DEF Init, Work
<1>3. \A o \in Orders : carries[o] = {}
  BY DEF Init
<1>4. \A j \in Jobs : BornInTurn(j) /\ AbortedIsOver(j)
  BY <1>2, <1>3 DEF BornInTurn, AbortedIsOver
<1> QED
  BY <1>1, <1>4 DEF LedgerInv

(* What all results share.                                                   *)
LEMMA ResultSettles ==
  ASSUME NEW s \in Streams, NEW o \in Orders, AwaitedResult(s, o)
  PROVE  \E j \in Jobs : \E st, more, abort : Settle(s, o, j, st, more, abort)
BY Zenon DEF AwaitedResult, BuildSucceeded, BuildEngineFailed, BuildBlamed, MatchBlamed,
   MatchError, MatchPlayed

(* Streams come and go at two places, and no order is emptied.               *)
LEMMA StreamsStay ==
  ASSUME SendsWork, Next
  PROVE  /\ emptied' = emptied
         /\ \/ \E s \in Streams : AddWorker(s) \/ RemoveWorker(s) \/ Break(s)
            \/ UNCHANGED <<attached, link>>
<1>1. CASE Submission
  <2>1. ASSUME NEW cl \in Clients, NEW cancel \in BOOLEAN, TryReserve(cl, cancel)
        PROVE  UNCHANGED <<emptied, attached, link>>
    BY <2>1 DEF TryReserve
  <2>2. ASSUME NEW j, NEW info, NEW groups, NEW first, NEW A,
               Enqueue(j, info, groups, first, A)
        PROVE  UNCHANGED <<emptied, attached, link>>
    BY <2>2 DEF Enqueue
  <2>3. ASSUME NEW sub \in submits, NEW j \in Jobs, NEW ladder \in Ladders(sub.cand),
               EnqueuePlacement(sub, j, ladder)
        PROVE  UNCHANGED <<emptied, attached, link>>
    BY <2>2, <2>3, Zenon DEF EnqueuePlacement
  <2>4. ASSUME NEW c \in Candidates, NEW g \in Groups, NEW j \in Jobs,
               EnqueueMatch(c, g, j)
        PROVE  UNCHANGED <<emptied, attached, link>>
    BY <2>2, <2>4, Zenon DEF EnqueueMatch
  <2>5. ASSUME NEW cl \in Clients, RejectSubmission(cl)
        PROVE  UNCHANGED <<emptied, attached, link>>
    BY <2>5 DEF RejectSubmission, fleetVars
  <2>6. ASSUME NEW cl \in Clients, NEW c \in Candidates, StoreSubmission(cl, c)
        PROVE  UNCHANGED <<emptied, attached, link>>
    BY <2>6 DEF StoreSubmission, fleetVars
  <2> QED
    BY <1>1, <2>1, <2>3, <2>4, <2>5, <2>6 DEF Submission
<1>2. CASE Dispatch
  BY <1>2, NoSendFails DEF Dispatch, DropSpentJob, NoRoom, SendOrder, EndOfPass, fleetVars
<1>3. CASE Fleet
  <2>1. ASSUME NEW s \in Streams, NEW o \in Orders, AwaitedResult(s, o)
        PROVE  UNCHANGED <<emptied, attached, link>>
    <3>1. ASSUME NEW j, NEW st, NEW more, NEW abort, Settle(s, o, j, st, more, abort)
          PROVE  UNCHANGED <<emptied, attached, link>>
      BY <3>1, Zenon DEF Settle
    <3> QED
      BY <2>1, <3>1, ResultSettles
  <2>2. ASSUME NEW s \in Streams, NEW o \in Orders, LateResult(s, o)
        PROVE  UNCHANGED <<emptied, attached, link>>
    BY <2>2 DEF LateResult
  <2>3. ASSUME NEW s \in Streams, AddWorker(s) \/ RemoveWorker(s) \/ Break(s)
        PROVE  emptied' = emptied
    BY <2>3 DEF AddWorker, RemoveWorker, Break
  <2> QED
    BY <1>3, <2>1, <2>2, <2>3 DEF Fleet, OnResult
<1> QED
  BY <1>1, <1>2, <1>3 DEF Next

(* Whatever the fleet does, short of a failing write.                        *)
LEMMA NextSendsWork ==
  ASSUME TypeInv, SendsWork, Next, ~ MayBreak
  PROVE  SendsWork'
<1>1. emptied' = emptied
  BY StreamsStay
<1>2. CASE \E s \in Streams : AddWorker(s)
  <2>1. PICK s \in Streams : AddWorker(s)
    BY <1>2
  <2> QED
    BY <1>1, <2>1 DEF SendsWork, AddWorker, TypeInv, TypeOK, FleetTypeOK, SchedulerAssumption
<1>3. CASE \E s \in Streams : RemoveWorker(s)
  <2>1. PICK s \in Streams : RemoveWorker(s)
    BY <1>3
  <2>2. CASE WorkerOf[s] \in Attached
    <3>1. /\ link' = [link EXCEPT ![s] = "off"]
          /\ attached' = [attached EXCEPT ![WorkerOf[s]] = NoStream]
      BY <2>1, <2>2 DEF RemoveWorker
    <3> QED
      BY <1>1, <3>1 DEF SendsWork, TypeInv, TypeOK, FleetTypeOK, SchedulerAssumption
  <2>3. CASE WorkerOf[s] \notin Attached
    <3>1. link' = [link EXCEPT ![s] = "off"] /\ attached' = attached
      BY <2>1, <2>3 DEF RemoveWorker
    <3>2. attached[WorkerOf[s]] = NoStream
      BY <2>3 DEF Attached, SchedulerAssumption
    <3> QED
      BY <1>1, <3>1, <3>2 DEF SendsWork, TypeInv, TypeOK, FleetTypeOK, SchedulerAssumption
  <2> QED
    BY <2>2, <2>3
<1>4. CASE UNCHANGED <<attached, link>>
  BY <1>1, <1>4 DEF SendsWork
<1> QED
  BY <1>2, <1>3, <1>4, StreamsStay DEF Break

(* A job that gets no order.                                                 *)
LEMMA StaysBorn ==
  ASSUME NEW j \in Jobs, BornInTurn(j), Work(j)' \subseteq Work(j),
         Work(j)' \subseteq Orders, OwnOrders(j)',
         state[j] # "NONE" => state'[j] # "NONE",
         afterBuild[j] = {} => afterBuild'[j] = {},
         attempts[j] \in Nat, attempts'[j] \in Nat, attempts[j] <= attempts'[j],
         \A o \in Orders : o[2] = j => carries'[o] = carries[o]
  PROVE  BornInTurn(j)'
<1>1. \A o \in Work(j)' : carries'[o] # {}
  BY DEF BornInTurn, OwnOrders
<1>2. ASSUME NEW o \in Orders, o[2] = j, carries'[o] # {}
      PROVE  /\ state'[j] # "NONE"
             /\ o[1] = "build" => o[3] <= attempts'[j] + 1
             /\ o[1] # "build" => afterBuild'[j] = {}
  <2>1. /\ state[j] # "NONE"
        /\ o[1] = "build" => o[3] <= attempts[j] + 1
        /\ o[1] # "build" => afterBuild[j] = {}
    BY <1>2 DEF BornInTurn
  <2>2. o[1] = "build" => o[3] \in Nat
    BY DEF Orders, MaxAttempts
  <2> QED
    BY <2>1, <2>2
<1> QED
  BY <1>1, <1>2 DEF BornInTurn

(* A job that keeps its state, and one that is cancelled.                    *)
LEMMA StaysOver ==
  ASSUME NEW j \in Jobs, AbortedIsOver(j), Work(j)' \subseteq Work(j),
         \/ state'[j] = state[j] /\ (aborted'[j] => aborted[j])
         \/ state'[j] = "CANCELLED"
  PROVE  AbortedIsOver(j)'
BY DEF AbortedIsOver

JobsLedgered == \A j \in Jobs : BornInTurn(j) /\ AbortedIsOver(j)

LEMMA WorkIsOrders ==
  /\ TypeInv => \A j \in Jobs : Work(j) \subseteq Orders
  /\ TypeInv' => \A j \in Jobs : Work(j)' \subseteq Orders
BY DEF TypeInv, TypeOK, JobsTypeOK, Work

LEMMA QuietLedger ==
  ASSUME Inv, TypeInv', JobsInv',
         UNCHANGED <<pending, running, state, aborted, afterBuild, attempts, carries>>
  PROVE  JobsLedgered'
<1> SUFFICES ASSUME NEW j \in Jobs PROVE BornInTurn(j)' /\ AbortedIsOver(j)'
  BY DEF JobsLedgered
<1>1. Work(j)' = Work(j)
  BY DEF Work
<1>2. attempts[j] \in Nat
  BY DEF Inv, TypeInv, TypeOK, JobsTypeOK
<1>3. OwnOrders(j)'
  BY DEF JobsInv, SoundJob
<1>4. BornInTurn(j)'
  BY <1>1, <1>2, <1>3, WorkIsOrders, StaysBorn DEF Inv, LedgerInv
<1>5. AbortedIsOver(j)'
  BY <1>1, StaysOver DEF Inv, LedgerInv
<1> QED
  BY <1>4, <1>5

LEMMA TryReserveLedger ==
  ASSUME Inv, TypeInv', JobsInv', NEW cl \in Clients, NEW cancel \in BOOLEAN,
         TryReserve(cl, cancel)
  PROVE  JobsLedgered'
<1> SUFFICES ASSUME NEW j \in Jobs PROVE BornInTurn(j)' /\ AbortedIsOver(j)'
  BY DEF JobsLedgered
<1>1. PICK A \in SUBSET Jobs : A = IF cancel THEN Mine(cl) ELSE {}
  BY DEF Mine
<1>2. /\ pending' = PendingWithout(A) /\ running' = RunningWithout(A)
      /\ state' = Cancelled(state, A) /\ aborted' = AbortedWith(A)
      /\ UNCHANGED <<afterBuild, attempts, carries>>
  BY <1>1 DEF TryReserve
<1>3. Work(j)' \subseteq Work(j)
  BY <1>2 DEF Work, PendingWithout, RunningWithout
<1>4. state'[j] = IF j \in A THEN "CANCELLED" ELSE state[j]
  BY <1>2 DEF Cancelled
<1>5. j \notin A => (aborted'[j] => aborted[j])
  BY <1>2, Zenon DEF AbortedWith
<1>6. attempts[j] \in Nat
  BY DEF Inv, TypeInv, TypeOK, JobsTypeOK
<1>7. OwnOrders(j)'
  BY DEF JobsInv, SoundJob
<1>8. BornInTurn(j)'
  BY <1>2, <1>3, <1>4, <1>6, <1>7, WorkIsOrders, StaysBorn DEF Inv, LedgerInv
<1>9. AbortedIsOver(j)'
  BY <1>3, <1>4, <1>5, StaysOver DEF Inv, LedgerInv
<1> QED
  BY <1>8, <1>9

LEMMA RemoveWorkerLedger ==
  ASSUME Inv, TypeInv', JobsInv', NEW s \in Streams, RemoveWorker(s)
  PROVE  JobsLedgered'
<1> SUFFICES ASSUME NEW j \in Jobs PROVE BornInTurn(j)' /\ AbortedIsOver(j)'
  BY DEF JobsLedgered
<1>1. UNCHANGED <<state, aborted, afterBuild, attempts, carries>>
  BY DEF RemoveWorker
<1>2. Work(j)' \subseteq Work(j)
  <2>1. CASE WorkerOf[s] \notin Attached
    BY <2>1 DEF RemoveWorker, Work
  <2>2. CASE WorkerOf[s] \in Attached
    BY <2>2 DEF RemoveWorker, Work, OrphansOf
  <2> QED
    BY <2>1, <2>2
<1>3. attempts[j] \in Nat
  BY DEF Inv, TypeInv, TypeOK, JobsTypeOK
<1>4. OwnOrders(j)'
  BY DEF JobsInv, SoundJob
<1>5. BornInTurn(j)'
  BY <1>1, <1>2, <1>3, <1>4, WorkIsOrders, StaysBorn DEF Inv, LedgerInv
<1>6. AbortedIsOver(j)'
  BY <1>1, <1>2, StaysOver DEF Inv, LedgerInv
<1> QED
  BY <1>5, <1>6

-----------------------------------------------------------------------------
(* The simulation, for steps that neither start a job nor answer an order.   *)

Simulates == [Ledger!Next]_(Ledger!vars)

LEMMA QuietSimulates ==
  ASSUME UNCHANGED <<pending, running, state, carries, recorded>>
  PROVE  Simulates
BY DEF Simulates, Ledger!vars, Place, VerdictOf

LEMMA CountedStays ==
  recorded' = recorded =>
    {o \in Orders : recorded[o] > 0}' = {o \in Orders : recorded[o] > 0}
OBVIOUS

(* An order that a step keeps, or drops with its job.                        *)
LEMMA DroppedSpot ==
  ASSUME Inv, JobsInv', NEW A \in SUBSET Jobs, NEW o \in Orders,
         pending'[o[2]] = IF o[2] \in A THEN {} ELSE pending[o[2]],
         running'[o[2]] = IF o[2] \in A THEN {} ELSE running[o[2]],
         carries'[o] = carries[o]
  PROVE  Place(o)' = Ledger!Dropped(A)[o]
<1>1. Ledger!Dropped(A)[o] =
        IF o[2] \in A /\ Place(o) # "unborn" THEN "gone" ELSE Place(o)
  BY DEF Ledger!Dropped
<1>2. Place(o) = Spot(o) /\ Place(o)' = Spot(o)'
  BY Spots
<1>3. (Spot(o) = "unborn") <=> carries[o] = {}
  BY Unborn
<1>4. CASE o[2] \in A
  BY <1>1, <1>2, <1>3, <1>4 DEF Spot
<1>5. CASE o[2] \notin A
  BY <1>1, <1>2, <1>5 DEF Spot
<1> QED
  BY <1>4, <1>5

LEMMA CancelledVerdicts ==
  ASSUME NEW A \in SUBSET Jobs, NEW j \in Jobs,
         state'[j] = IF j \in A THEN "CANCELLED" ELSE state[j]
  PROVE  VerdictOf(j)' = Ledger!Cancelled(A)[j]
<1>1. Ledger!Cancelled(A)[j] = IF j \in A THEN "cancelled" ELSE VerdictOf(j)
  BY DEF Ledger!Cancelled
<1>2. CASE j \in A
  BY <1>1, <1>2, VerdictsNext
<1>3. CASE j \notin A
  <2>1. VerdictOf(j)' = VerdictOf(j)
    BY <1>3 DEF VerdictOf
  <2> QED
    BY <1>1, <1>3, <2>1
<1> QED
  BY <1>2, <1>3

LEMMA OpenIsOpen ==
  ASSUME NEW A \in SUBSET Jobs, \A i \in A : state[i] \in Open
  PROVE  A \in SUBSET Ledger!OpenJobs
BY Verdicts DEF Ledger!OpenJobs

LEMMA TryReserveSimulates ==
  ASSUME Inv, JobsInv', NEW cl \in Clients, NEW cancel \in BOOLEAN,
         TryReserve(cl, cancel)
  PROVE  Simulates
<1>1. PICK A \in SUBSET Jobs : A = IF cancel THEN Mine(cl) ELSE {}
  BY DEF Mine
<1>2. /\ pending' = PendingWithout(A) /\ running' = RunningWithout(A)
      /\ state' = Cancelled(state, A) /\ carries' = carries /\ recorded' = recorded
  BY <1>1 DEF TryReserve, history
<1>3. A \in SUBSET Ledger!OpenJobs
  <2>1. \A i \in A : state[i] \in Open
    BY <1>1 DEF Mine
  <2> QED
    BY <2>1, OpenIsOpen
<1>4. [o \in Orders |-> Place(o)]' = Ledger!Dropped(A)
  <2>1. \A o \in Orders : Place(o)' = Ledger!Dropped(A)[o]
    BY <1>2, DroppedSpot, OrderTypes DEF PendingWithout, RunningWithout
  <2> QED
    BY <2>1 DEF Ledger!Dropped
<1>5. [j \in Jobs |-> VerdictOf(j)]' = Ledger!Cancelled(A)
  <2>1. \A j \in Jobs : VerdictOf(j)' = Ledger!Cancelled(A)[j]
    BY <1>2, CancelledVerdicts DEF Cancelled
  <2> QED
    BY <2>1 DEF Ledger!Cancelled
<1>6. Ledger!Cancel(A)
  BY <1>2, <1>4, <1>5 DEF Ledger!Cancel
<1> QED
  BY <1>3, <1>6 DEF Simulates, Ledger!Next

LEMMA RemoveWorkerSimulates ==
  ASSUME Inv, JobsInv', NEW s \in Streams, RemoveWorker(s)
  PROVE  Simulates
<1>1. UNCHANGED <<state, carries, recorded>>
  BY DEF RemoveWorker, history
<1>2. CASE WorkerOf[s] \notin Attached
  <2>1. UNCHANGED <<pending, running>>
    BY <1>2 DEF RemoveWorker
  <2> QED
    BY <1>1, <2>1, QuietSimulates
<1>3. CASE WorkerOf[s] \in Attached
  <2> DEFINE S == {o \in Orders : o \in Orphans(WorkerOf[s])}
  <2>1. /\ running' = [j \in Jobs |-> running[j] \ OrphansOf(WorkerOf[s], j)]
        /\ pending' = [j \in Jobs |-> pending[j] \cup OrphansOf(WorkerOf[s], j)]
    BY <1>3 DEF RemoveWorker
  <2>2. \A o \in S : o \in running[o[2]] /\ o \notin pending[o[2]]
    BY JobsOwnWork, OrderTypes DEF Orphans, OwnWork, Inv, JobsInv, SoundJob, OwnOrders
  <2>3. \A o \in Orders : Place(o)' = IF o \in S THEN "waiting" ELSE Place(o)
    <3> TAKE o \in Orders
    <3>1. Place(o) = Spot(o) /\ Place(o)' = Spot(o)' /\ o[2] \in Jobs
      BY Spots, OrderTypes
    <3>2. CASE o \in S
      <4>1. o \in OrphansOf(WorkerOf[s], o[2])
        BY <2>2, <3>2 DEF OrphansOf
      <4> QED
        BY <2>1, <3>1, <3>2, <4>1 DEF Spot
    <3>3. CASE o \notin S
      <4>1. o \notin OrphansOf(WorkerOf[s], o[2])
        BY <3>3 DEF OrphansOf
      <4>2. (o \in pending'[o[2]] <=> o \in pending[o[2]]) /\
            (o \in running'[o[2]] <=> o \in running[o[2]])
        BY <2>1, <3>1, <4>1
      <4> QED
        BY <1>1, <3>1, <3>3, <4>2 DEF Spot
    <3> QED
      BY <3>2, <3>3
  <2>4. S \in SUBSET Ledger!At("out")
    <3>1. \A o \in S : Place(o) = "out"
      BY <2>2, Spots DEF Spot
    <3> QED
      BY <3>1 DEF Ledger!At
  <2>5. [j \in Jobs |-> VerdictOf(j)]' = [j \in Jobs |-> VerdictOf(j)]
    BY <1>1 DEF VerdictOf
  <2> HIDE DEF S
  <2>6. Ledger!TakeBack(S)
    BY <1>1, <2>3, <2>5 DEF Ledger!TakeBack
  <2> QED
    BY <2>4, <2>6 DEF Simulates, Ledger!Next
<1> QED
  BY <1>2, <1>3

-----------------------------------------------------------------------------
(* An order is handed out.                                                   *)

LEMMA SendOrderLedger ==
  ASSUME Inv, TypeInv', JobsInv', NEW w \in Workers, NEW o \in Orders, SendOrder(w, o)
  PROVE  JobsLedgered' /\ Simulates
<1>1. PICK j \in Jobs : j = Scanned
  BY LenProperties, ElementOfSeq
  DEF SendOrder, Scanning, Scanned, Inv, TypeInv, TypeOK, PassTypeOK
<1>2. o \in pending[j] /\ o[2] = j /\ o \notin running[j]
  BY <1>1 DEF SendOrder, Inv, JobsInv, SoundJob, OwnOrders, Work
<1>3. state[j] \in Open /\ ~ aborted[j]
  <2>1. ~ aborted[j]
    BY <1>1, Zenon DEF SendOrder, Spent
  <2>2. Work(j) # {}
    BY <1>2 DEF Work
  <2> QED
    BY <2>1, <2>2, WorkingJob DEF Inv, JobsInv
<1>4. {r \in running[j] : Key(r) # Key(o)} \cup {o} = running[j] \cup {o}
  BY <1>2, KeysAreOrders DEF Inv, LedgerInv, TypeInv, TypeOK, JobsTypeOK
<1>5. /\ pending' = [pending EXCEPT ![j] = @ \ {o}]
      /\ running' = [running EXCEPT ![j] = {r \in @ : Key(r) # Key(o)} \cup {o}]
      /\ state' = [state EXCEPT ![j] = "RUNNING"]
      /\ UNCHANGED <<aborted, afterBuild, attempts, carries, recorded>>
  BY <1>1 DEF SendOrder, history
<1>6. /\ \A i \in Jobs : pending'[i] = IF i = j THEN pending[j] \ {o} ELSE pending[i]
      /\ \A i \in Jobs : running'[i] = IF i = j THEN running[j] \cup {o} ELSE running[i]
      /\ \A i \in Jobs : state'[i] = IF i = j THEN "RUNNING" ELSE state[i]
  BY <1>4, <1>5 DEF Inv, TypeInv, TypeOK, JobsTypeOK
<1>7. JobsLedgered'
  <2> SUFFICES ASSUME NEW i \in Jobs PROVE BornInTurn(i)' /\ AbortedIsOver(i)'
    BY DEF JobsLedgered
  <2>1. Work(i)' \subseteq Work(i)
    BY <1>2, <1>6 DEF Work
  <2>2. attempts[i] \in Nat /\ OwnOrders(i)'
    BY DEF Inv, TypeInv, TypeOK, JobsTypeOK, JobsInv, SoundJob
  <2>3. state[i] # "NONE" => state'[i] # "NONE"
    BY <1>6
  <2>4. BornInTurn(i)'
    BY <1>5, <2>1, <2>2, <2>3, WorkIsOrders, StaysBorn DEF Inv, LedgerInv
  <2>5. AbortedIsOver(i)'
    <3>1. CASE i = j
      BY <1>3, <1>5, <1>6, <3>1 DEF AbortedIsOver
    <3>2. CASE i # j
      BY <1>5, <1>6, <2>1, <3>2, StaysOver DEF Inv, LedgerInv
    <3> QED
      BY <3>1, <3>2
  <2> QED
    BY <2>4, <2>5
<1>8. Place(o) = "waiting" /\ VerdictOf(o[2]) = "open"
  BY <1>2, <1>3, Spots, Verdicts DEF Spot
<1>9. \A x \in Orders : Place(x)' = IF x = o THEN "out" ELSE Place(x)
  <2> TAKE x \in Orders
  <2>1. Place(x) = Spot(x) /\ Place(x)' = Spot(x)' /\ x[2] \in Jobs
    BY Spots, OrderTypes
  <2>2. CASE x = o
    BY <1>2, <1>6, <2>1, <2>2 DEF Spot
  <2>3. CASE x # o
    <3>1. /\ x \in pending'[x[2]] <=> x \in pending[x[2]]
          /\ x \in running'[x[2]] <=> x \in running[x[2]]
      BY <1>6, <2>1, <2>3
    <3> QED
      BY <1>5, <2>1, <2>3, <3>1 DEF Spot
  <2> QED
    BY <2>2, <2>3
<1>10. \A i \in Jobs : VerdictOf(i)' = VerdictOf(i)
  <2> TAKE i \in Jobs
  <2>1. CASE i = j
    BY <1>3, <1>6, <2>1, Verdicts, VerdictsNext DEF Open
  <2>2. CASE i # j
    BY <1>6, <2>2 DEF VerdictOf
  <2> QED
    BY <2>1, <2>2
<1>11. Ledger!HandOut(o)
  <2>1. [x \in Orders |-> Place(x)]' =
          [[x \in Orders |-> Place(x)] EXCEPT ![o] = "out"]
    BY <1>9
  <2>2. [i \in Jobs |-> VerdictOf(i)]' = [i \in Jobs |-> VerdictOf(i)]
    BY <1>10
  <2>3. [i \in Jobs |-> VerdictOf(i)][[x \in Orders |-> x[2]][o]] = "open"
    BY <1>2, <1>8
  <2> QED
    BY <1>5, <2>1, <2>2, <2>3 DEF Ledger!HandOut
<1>12. o \in Ledger!At("waiting")
  BY <1>8 DEF Ledger!At
<1> QED
  BY <1>7, <1>11, <1>12 DEF Simulates, Ledger!Next

-----------------------------------------------------------------------------
(* A job begins.                                                             *)

LEMMA EnqueueLedger ==
  ASSUME Inv, TypeInv', JobsInv', NEW j \in Jobs, NEW info, NEW groups \in SUBSET Groups,
         NEW buildFirst \in BOOLEAN, NEW A \in SUBSET Jobs,
         \A i \in A : state[i] \in Open, Enqueue(j, info, groups, buildFirst, A)
  PROVE  JobsLedgered' /\ Simulates
<1> DEFINE first == IF buildFirst THEN {BuildOrder(j, 1)}
                    ELSE {MatchOrder(j, g) : g \in {h \in groups : Runnable(h)}}
           st == IF first = {} THEN "FAILED" ELSE "QUEUED"
<1>1. state[j] = "NONE" /\ j \notin A
  BY DEF Enqueue, NextJob, Open
<1>2. Work(j) = {} /\ pending[j] = {} /\ running[j] = {} /\ ~ aborted[j]
  BY <1>1 DEF Inv, JobsInv, SoundJob, WorkWhileOpen, Work, LedgerInv, AbortedIsOver
<1>3. \A o \in Orders : o[2] = j => carries[o] = {}
  BY <1>1 DEF Inv, LedgerInv, BornInTurn
<1>4. /\ pending' = [PendingWithout(A) EXCEPT ![j] = first]
      /\ running' = RunningWithout(A)
      /\ state' = [Cancelled(state, A) EXCEPT ![j] = st]
      /\ aborted' = AbortedWith(A)
      /\ afterBuild' = [afterBuild EXCEPT ![j] = IF buildFirst THEN groups ELSE {}]
      /\ UNCHANGED <<attempts, recorded>>
  BY Zenon DEF Enqueue
<1>5. /\ \A o \in Orders : o \notin first => carries'[o] = carries[o]
      /\ \A o \in Orders : o \in first => carries'[o] # {}
  <2>1. carries' = [o \in Orders |->
          IF o \notin first THEN carries[o]
          ELSE IF buildFirst THEN {<<info.cand, info.rev>>}
               ELSE CopiesOf(info.cand, info.rev, o[3])]
    BY Zenon DEF Enqueue
  <2> HIDE DEF first
  <2> QED
    BY <2>1 DEF CopiesOf
<1>6. /\ first \in SUBSET Orders
      /\ \A o \in first : o[2] = j
      /\ \A o \in first : o[1] = "build" => o[3] = 1
      /\ \A o \in first : o[1] # "build" => ~ buildFirst
  <2>1. /\ BuildOrder(j, 1) \in Orders /\ BuildOrder(j, 1)[1] = "build"
        /\ BuildOrder(j, 1)[2] = j /\ BuildOrder(j, 1)[3] = 1
    <3>1. 1 \in 1 .. MaxAttempts
      BY DEF MaxAttempts
    <3>2. BuildOrder(j, 1) \in Orders
      BY <3>1, OrderTypes
    <3> QED
      BY <3>2 DEF BuildOrder
  <2>2. \A g \in groups : /\ MatchOrder(j, g) \in Orders /\ MatchOrder(j, g)[1] = "match"
                          /\ MatchOrder(j, g)[2] = j
    BY OrderTypes DEF MatchOrder
  <2>3. CASE buildFirst
    BY <2>1, <2>3
  <2>4. CASE ~ buildFirst
    <3>1. \A o \in first : \E g \in groups : o = MatchOrder(j, g)
      BY <2>4
    <3> HIDE DEF first
    <3> QED
      BY <2>2, <2>4, <3>1
  <2> QED
    BY <2>3, <2>4
<1>7. st = IF first = {} THEN "FAILED" ELSE "QUEUED"
  OBVIOUS
<1> HIDE DEF first, st
<1>8. \A i \in Jobs :
        /\ pending'[i] = IF i = j THEN first ELSE IF i \in A THEN {} ELSE pending[i]
        /\ running'[i] = IF i \in A THEN {} ELSE running[i]
        /\ state'[i] = IF i = j THEN st ELSE IF i \in A THEN "CANCELLED" ELSE state[i]
        /\ i # j => afterBuild'[i] = afterBuild[i]
  BY <1>4 DEF PendingWithout, RunningWithout, Cancelled, Inv, TypeInv, TypeOK, JobsTypeOK
<1>9. \A i \in Jobs : i \notin A => (aborted'[i] => aborted[i])
  BY <1>4, Zenon DEF AbortedWith
<1>10. BornInTurn(j)' /\ AbortedIsOver(j)'
  <2>1. Work(j)' = first /\ state'[j] = st
    BY <1>1, <1>2, <1>8 DEF Work
  <2>2. attempts'[j] \in Nat /\ (~ buildFirst => afterBuild'[j] = {})
    BY <1>4 DEF Inv, TypeInv, TypeOK, JobsTypeOK
  <2>3. \A o \in Orders : o[2] = j /\ carries'[o] # {} => o \in first
    BY <1>3, <1>5
  <2>4. BornInTurn(j)'
    BY <1>5, <1>6, <1>7, <2>1, <2>2, <2>3 DEF BornInTurn
  <2>5. AbortedIsOver(j)'
    BY <1>1, <1>2, <1>7, <1>9, <2>1 DEF AbortedIsOver
  <2> QED
    BY <2>4, <2>5
<1>11. JobsLedgered'
  <2> SUFFICES ASSUME NEW i \in Jobs, i # j PROVE BornInTurn(i)' /\ AbortedIsOver(i)'
    BY <1>10 DEF JobsLedgered
  <2>1. Work(i)' \subseteq Work(i)
    BY <1>8 DEF Work
  <2>2. attempts[i] \in Nat /\ OwnOrders(i)'
    BY DEF Inv, TypeInv, TypeOK, JobsTypeOK, JobsInv, SoundJob
  <2>3. \A o \in Orders : o[2] = i => carries'[o] = carries[o]
    BY <1>5, <1>6
  <2>4. BornInTurn(i)'
    BY <1>4, <1>8, <2>1, <2>2, <2>3, WorkIsOrders, StaysBorn DEF Inv, LedgerInv
  <2>5. AbortedIsOver(i)'
    BY <1>8, <1>9, <2>1, StaysOver DEF Inv, LedgerInv
  <2> QED
    BY <2>4, <2>5
<1>12. \A o \in Orders : Place(o)' = IF o \in first THEN "waiting" ELSE Ledger!Dropped(A)[o]
  <2> TAKE o \in Orders
  <2>1. Place(o)' = Spot(o)' /\ o[2] \in Jobs
    BY Spots, OrderTypes
  <2>2. CASE o \in first
    BY <1>6, <1>8, <2>1, <2>2 DEF Spot
  <2>3. CASE o \notin first
    <3>1. /\ pending'[o[2]] = (IF o[2] \in A THEN {} ELSE pending[o[2]])
             \/ (o[2] = j /\ pending'[j] = first)
          /\ running'[o[2]] = IF o[2] \in A THEN {} ELSE running[o[2]]
      BY <1>8, <2>1
    <3>2. CASE o[2] # j
      BY <1>5, <2>3, <3>1, <3>2, DroppedSpot
    <3>3. CASE o[2] = j
      <4>1. Spot(o)' = "unborn"
        BY <1>1, <1>2, <1>3, <1>5, <1>8, <2>3, <3>3 DEF Spot
      <4>2. Place(o) = "unborn"
        BY <1>3, <3>3, Unborn, Spots
      <4> QED
        BY <1>1, <2>1, <2>3, <3>3, <4>1, <4>2 DEF Ledger!Dropped
    <3> QED
      BY <3>2, <3>3
  <2> QED
    BY <2>2, <2>3
<1>13. \A i \in Jobs : VerdictOf(i)' =
         IF i = j THEN IF first = {} THEN "failed" ELSE "open" ELSE Ledger!Cancelled(A)[i]
  <2> TAKE i \in Jobs
  <2>1. CASE i = j
    BY <1>7, <1>8, <2>1, VerdictsNext DEF Open
  <2>2. CASE i # j
    BY <1>8, <2>2, CancelledVerdicts
  <2> QED
    BY <2>1, <2>2
<1>14. Ledger!Begin(j, first, A)
  <2>1. [o \in Orders |-> Place(o)]' =
          [o \in Orders |-> IF o \in first THEN "waiting" ELSE Ledger!Dropped(A)[o]]
    BY <1>12
  <2>2. [i \in Jobs |-> VerdictOf(i)]' =
          [Ledger!Cancelled(A) EXCEPT ![j] = IF first = {} THEN "failed" ELSE "open"]
    BY <1>13 DEF Ledger!Cancelled
  <2>3. [i \in Jobs |-> VerdictOf(i)][j] = "none"
    BY <1>1, Verdicts
  <2> QED
    BY <1>4, <2>1, <2>2, <2>3 DEF Ledger!Begin
<1>15. first \in SUBSET Ledger!OrdersOf(j)
  BY <1>6 DEF Ledger!OrdersOf
<1>16. A \in SUBSET Ledger!OpenJobs
  BY OpenIsOpen
<1> QED
  BY <1>11, <1>14, <1>15, <1>16 DEF Simulates, Ledger!Next

-----------------------------------------------------------------------------
(* An order is answered.                                                     *)

(* What an answer to order o of job j means: whether the job fails by it     *)
(* (and drops what waits), and which orders, new ones, take its place.       *)
AnswersWith(o, j, st, more, abort, fails) ==
  /\ st = IF fails THEN "FAILED" ELSE state[j]
  /\ abort => fails
  /\ fails /\ ~ abort => pending[j] = {}
  /\ fails \/ state[j] = "FAILED" => more = {}

NewOrders(j, more) ==
  /\ \A m \in more : /\ m \in Orders /\ m[2] = j /\ carries[m] = {} /\ carries'[m] # {}
                     /\ m[1] = "build" => m[3] <= attempts'[j] + 1
                     /\ m[1] # "build" => afterBuild'[j] = {}
  /\ \A x \in Orders : x \notin more => carries'[x] = carries[x]
  /\ \A i \in Jobs : /\ attempts'[i] \in Nat /\ attempts[i] <= attempts'[i]
                     /\ afterBuild[i] = {} => afterBuild'[i] = {}

(* The tables after the answer.                                              *)
TablesAfter(o, j, more, failed) ==
  LET waiting == IF failed THEN {} ELSE pending[j] \cup more
      left == running[j] \ {o}
  IN  /\ \A i \in Jobs :
           /\ pending'[i] = IF i = j THEN waiting ELSE pending[i]
           /\ running'[i] = IF i = j THEN left ELSE running[i]
           /\ i # j => state'[i] = state[i]
           /\ i # j => (aborted'[i] => aborted[i])
      /\ state'[j] = IF failed THEN "FAILED"
                     ELSE IF waiting \cup left = {} THEN "DONE" ELSE state[j]
      /\ aborted'[j] => failed
      /\ failed \/ state[j] \in Open

LEMMA AfterAnswer ==
  ASSUME Inv, NEW s \in Streams, NEW o \in Orders, NEW j \in Jobs, NEW st,
         NEW more, NEW abort \in BOOLEAN, NEW fails \in BOOLEAN,
         Settle(s, o, j, st, more, abort), AnswersWith(o, j, st, more, abort, fails),
         NEW failed \in BOOLEAN, failed <=> fails \/ state[j] = "FAILED"
  PROVE  TablesAfter(o, j, more, failed)
<1> DEFINE waiting == IF failed THEN {} ELSE pending[j] \cup more
           left == running[j] \ {o}
           kept == IF aborted[j] \/ abort THEN {} ELSE pending[j] \cup more
           over == Over(left, kept)
<1>1. owner[Key(o)] # Unowned /\ j = owner[Key(o)][1]
  BY Zenon DEF Settle
<1>2. /\ o \in running[j] /\ o \notin pending[j] /\ o[2] = j
      /\ state[j] \in Open \/ (state[j] = "FAILED" /\ aborted[j])
      /\ state[j] \in Open => ~ aborted[j]
      /\ Left(o, j) = left
  <2>1. Awaited(o, j)
    BY <1>1, Accepted
  <2> QED
    BY <2>1 DEF Awaited
<1>3. /\ running' = [running EXCEPT ![j] = left]
      /\ pending' = [pending EXCEPT ![j] = kept]
      /\ aborted' = [aborted EXCEPT ![j] = @ \/ abort]
      /\ state' = [state EXCEPT ![j] = Verdict(st, over)]
  BY <1>2, Zenon DEF Settle, Left
<1>4. kept = waiting
  <2>1. CASE failed
    <3>1. state[j] = "FAILED" => aborted[j]
      BY <1>2 DEF Open
    <3>2. fails /\ ~ abort => pending[j] = {} /\ more = {}
      BY DEF AnswersWith
    <3>3. kept = {}
      BY <2>1, <3>1, <3>2
    <3> QED
      BY <2>1, <3>3
  <2>2. CASE ~ failed
    BY <1>2, <2>2 DEF AnswersWith, Open
  <2> QED
    BY <2>1, <2>2
<1>5. Verdict(st, over) = IF failed THEN "FAILED"
                          ELSE IF waiting \cup left = {} THEN "DONE" ELSE state[j]
  <2>1. over <=> waiting \cup left = {}
    BY <1>4 DEF Over
  <2>2. st = "FAILED" <=> failed
    BY DEF AnswersWith
  <2> HIDE DEF waiting, left, over
  <2> QED
    BY <2>1, <2>2 DEF Verdict, AnswersWith
<1>6. aborted[j] \/ abort => failed
  BY <1>2 DEF AnswersWith, Open
<1> HIDE DEF waiting, left, kept, over
<1>7. (aborted'[j] => aborted[j] \/ abort) /\ \A i \in Jobs : i # j => (aborted'[i] => aborted[i])
  <2>1. aborted \in [Jobs -> BOOLEAN]
    BY DEF Inv, TypeInv, TypeOK, JobsTypeOK
  <2> QED
    BY <1>3, <2>1, Zenon
<1>8. failed \/ state[j] \in Open
  BY <1>2
<1>9. \A i \in Jobs :
        /\ pending'[i] = IF i = j THEN waiting ELSE pending[i]
        /\ running'[i] = IF i = j THEN left ELSE running[i]
        /\ i # j => state'[i] = state[i]
  BY <1>3, <1>4 DEF Inv, TypeInv, TypeOK, JobsTypeOK
<1>10. state'[j] = Verdict(st, over)
  BY <1>3 DEF Inv, TypeInv, TypeOK, JobsTypeOK
<1> QED
  BY <1>5, <1>6, <1>7, <1>8, <1>9, <1>10 DEF waiting, left, TablesAfter

LEMMA AnswerLedger ==
  ASSUME Inv, TypeInv', JobsInv', NEW s \in Streams, NEW o \in Orders, NEW j \in Jobs,
         NEW st, NEW more, NEW abort \in BOOLEAN, NEW fails \in BOOLEAN,
         Settle(s, o, j, st, more, abort), AnswersWith(o, j, st, more, abort, fails),
         NewOrders(j, more)
  PROVE  JobsLedgered'
<1> DEFINE failed == fails \/ state[j] = "FAILED"
           waiting == IF failed THEN {} ELSE pending[j] \cup more
           left == running[j] \ {o}
<1>0. failed \in BOOLEAN
  OBVIOUS
<1> HIDE DEF failed
<1>1. /\ \A i \in Jobs :
           /\ pending'[i] = IF i = j THEN waiting ELSE pending[i]
           /\ running'[i] = IF i = j THEN left ELSE running[i]
           /\ i # j => state'[i] = state[i]
           /\ i # j => (aborted'[i] => aborted[i])
      /\ state'[j] = IF failed THEN "FAILED"
                     ELSE IF waiting \cup left = {} THEN "DONE" ELSE state[j]
      /\ aborted'[j] => failed
      /\ failed \/ state[j] \in Open
  <2>1. failed <=> fails \/ state[j] = "FAILED"
    BY DEF failed
  <2>2. TablesAfter(o, j, more, failed)
    BY <1>0, <2>1, AfterAnswer
  <2> QED
    BY <2>2, Zenon DEF TablesAfter
<1>2. owner[Key(o)] # Unowned /\ j = owner[Key(o)][1]
  BY Zenon DEF Settle
<1>3. o \in running[j] /\ SoundJob(j)
  BY <1>2, Accepted DEF Awaited, Inv, JobsInv
<1>4. waiting \subseteq pending[j] \cup more /\ (failed => waiting = {})
  OBVIOUS
<1> HIDE DEF waiting
<1>5. BornInTurn(j)'
  <2>1. Work(j)' \subseteq Work(j) \cup more
    BY <1>1, <1>4 DEF Work
  <2>2. \A x \in Work(j)' : carries'[x] # {}
    <3> TAKE x \in Work(j)'
    <3>1. x \in Orders
      BY WorkIsOrders
    <3>2. CASE x \in more
      BY <3>2 DEF NewOrders
    <3>3. CASE x \notin more
      <4>1. x \in Work(j) /\ carries'[x] = carries[x]
        BY <2>1, <3>1, <3>3 DEF NewOrders
      <4> QED
        BY <4>1 DEF Inv, LedgerInv, BornInTurn
    <3> QED
      BY <3>2, <3>3
  <2>3. state'[j] # "NONE"
    BY <1>1 DEF Open
  <2>4. ASSUME NEW x \in Orders, x[2] = j, carries'[x] # {}
        PROVE  /\ x[1] = "build" => x[3] <= attempts'[j] + 1
               /\ x[1] # "build" => afterBuild'[j] = {}
    <3>1. CASE x \in more
      BY <3>1 DEF NewOrders
    <3>2. CASE x \notin more
      <4>1. carries[x] # {}
        BY <2>4, <3>2 DEF NewOrders
      <4>2. /\ x[1] = "build" => x[3] <= attempts[j] + 1
            /\ x[1] # "build" => afterBuild[j] = {}
        BY <2>4, <4>1 DEF Inv, LedgerInv, BornInTurn
      <4>3. /\ attempts[j] \in Nat /\ attempts'[j] \in Nat /\ attempts[j] <= attempts'[j]
            /\ afterBuild[j] = {} => afterBuild'[j] = {}
        BY DEF NewOrders, Inv, TypeInv, TypeOK, JobsTypeOK
      <4>4. x[1] = "build" => x[3] \in Nat
        BY DEF Orders, MaxAttempts
      <4> QED
        BY <4>2, <4>3, <4>4
    <3> QED
      BY <3>1, <3>2
  <2> QED
    BY <2>2, <2>3, <2>4 DEF BornInTurn
<1>6. AbortedIsOver(j)'
  <2>1. failed => \A x \in Work(j)' : x[1] # "build"
    <3> SUFFICES ASSUME failed, NEW x \in Work(j)', x[1] = "build" PROVE FALSE
      OBVIOUS
    <3>1. x \in running[j] /\ x # o
      BY <1>1, <1>4 DEF Work
    <3>2. Work(j) = {x}
      BY <1>3, <3>1 DEF SoundJob, BuildThenPlay, Work
    <3> QED
      BY <1>3, <3>1, <3>2 DEF Work
  <2>2. state'[j] = "FAILED" => failed
    BY <1>1 DEF Open
  <2>3. aborted'[j] => state'[j] = "FAILED"
    BY <1>1
  <2> QED
    BY <2>1, <2>2, <2>3 DEF AbortedIsOver
<1>7. ASSUME NEW i \in Jobs, i # j PROVE BornInTurn(i)' /\ AbortedIsOver(i)'
  <2>1. Work(i)' \subseteq Work(i)
    BY <1>1, <1>7 DEF Work
  <2>2. /\ OwnOrders(i)' /\ attempts[i] \in Nat /\ attempts'[i] \in Nat
        /\ attempts[i] <= attempts'[i] /\ (afterBuild[i] = {} => afterBuild'[i] = {})
    BY DEF Inv, TypeInv, TypeOK, JobsTypeOK, JobsInv, SoundJob, NewOrders
  <2>3. \A x \in Orders : x[2] = i => carries'[x] = carries[x]
    BY <1>7 DEF NewOrders
  <2>4. state'[i] = state[i] /\ (aborted'[i] => aborted[i])
    BY <1>1, <1>7
  <2>5. BornInTurn(i)'
    BY <2>1, <2>2, <2>3, <2>4, WorkIsOrders, StaysBorn DEF Inv, LedgerInv
  <2>6. AbortedIsOver(i)'
    BY <2>1, <2>4, StaysOver DEF Inv, LedgerInv
  <2> QED
    BY <2>5, <2>6
<1> QED
  BY <1>5, <1>6, <1>7 DEF JobsLedgered

LEMMA AnswerSimulates ==
  ASSUME Inv, TypeInv', JobsInv', NEW s \in Streams, NEW o \in Orders, NEW j \in Jobs,
         NEW st, NEW more, NEW abort \in BOOLEAN, NEW fails \in BOOLEAN,
         Settle(s, o, j, st, more, abort), AnswersWith(o, j, st, more, abort, fails),
         NewOrders(j, more), NEW counts \in BOOLEAN,
         recorded' = IF counts THEN [recorded EXCEPT ![o] = @ + 1] ELSE recorded
  PROVE  Simulates
<1> DEFINE failed == Ledger!Failed(o, fails)
           waiting == IF failed THEN {} ELSE pending[j] \cup more
           left == running[j] \ {o}
           placed == Ledger!Placed(o, more, failed)
<1>2. owner[Key(o)] # Unowned /\ j = owner[Key(o)][1]
  BY Zenon DEF Settle
<1>3. /\ o \in running[j] /\ o \notin pending[j] /\ o[2] = j
      /\ state[j] \in Open \/ state[j] = "FAILED"
  BY <1>2, Accepted DEF Awaited
<1>0. failed \in BOOLEAN /\ (failed <=> fails \/ state[j] = "FAILED")
  <2>1. failed <=> fails \/ VerdictOf(o[2]) = "failed"
    BY OrderTypes DEF Ledger!Failed
  <2>2. failed \in BOOLEAN
    BY Zenon DEF Ledger!Failed
  <2>3. VerdictOf(j) = "failed" <=> state[j] = "FAILED"
    BY <1>3, Verdicts DEF Open
  <2> QED
    BY <1>3, <2>1, <2>2, <2>3
<1> HIDE DEF failed
<1>1. /\ \A i \in Jobs :
           /\ pending'[i] = IF i = j THEN waiting ELSE pending[i]
           /\ running'[i] = IF i = j THEN left ELSE running[i]
           /\ i # j => state'[i] = state[i]
      /\ state'[j] = IF failed THEN "FAILED"
                     ELSE IF waiting \cup left = {} THEN "DONE" ELSE state[j]
      /\ failed \/ state[j] \in Open
  <2>1. TablesAfter(o, j, more, failed)
    BY <1>0, AfterAnswer
  <2> QED
    BY <2>1, Zenon DEF TablesAfter
<1>4. carries[o] # {} /\ o \notin more
  <2>1. carries[o] # {}
    BY <1>3 DEF Inv, LedgerInv, BornInTurn, Work
  <2> QED
    BY <2>1 DEF NewOrders
<1>5. failed => more = {}
  BY <1>0 DEF AnswersWith
<1>6. \A x \in Orders : x \in Ledger!OrdersOf(j) <=> x[2] = j
  BY DEF Ledger!OrdersOf
<1>7. \A x \in Orders : Place(x) = Spot(x) /\ Place(x)' = Spot(x)' /\ x[2] \in Jobs
  BY Spots, OrderTypes
<1>8. ASSUME NEW x \in Orders
      PROVE  Place(x)' = IF x = o THEN "gone"
                         ELSE IF x \in more THEN "waiting"
                         ELSE IF x[2] = j /\ failed /\ Place(x) = "waiting" THEN "gone"
                         ELSE Place(x)
  <2>1. CASE x = o
    <3>1. x \notin pending'[j] /\ x \notin running'[j] /\ carries'[x] # {}
      BY <1>1, <1>3, <1>4, <2>1 DEF NewOrders
    <3> QED
      BY <1>3, <1>7, <2>1, <3>1 DEF Spot
  <2>2. CASE x # o /\ x \in more
    <3>1. x[2] = j /\ x \in pending'[j]
      BY <1>1, <1>5, <2>2 DEF NewOrders
    <3> QED
      BY <1>7, <2>2, <3>1 DEF Spot
  <2>3. CASE x # o /\ x \notin more /\ x[2] = j /\ failed /\ Place(x) = "waiting"
    <3>1. x \in pending[j]
      BY <1>7, <2>3 DEF Spot
    <3>2. x \notin running[j] /\ carries[x] # {}
      BY <3>1 DEF Inv, LedgerInv, BornInTurn, Work, JobsInv, SoundJob, OwnOrders
    <3>3. x \notin pending'[j] /\ x \notin running'[j] /\ carries'[x] # {}
      BY <1>1, <2>3, <3>2 DEF NewOrders
    <3> QED
      BY <1>7, <2>3, <3>3 DEF Spot
  <2>4. CASE x # o /\ x \notin more /\ ~ (x[2] = j /\ failed /\ Place(x) = "waiting")
    <3>1. carries'[x] = carries[x]
      BY <2>4 DEF NewOrders
    <3>2. /\ x \in pending'[x[2]] <=> x \in pending[x[2]]
          /\ x \in running'[x[2]] <=> x \in running[x[2]]
      <4>1. CASE x[2] # j
        BY <1>1, <1>7, <4>1
      <4>2. CASE x[2] = j /\ ~ failed
        BY <1>1, <2>4, <4>2
      <4>3. CASE x[2] = j /\ failed
        <5>1. x \notin pending[j]
          BY <1>7, <2>4, <4>3 DEF Spot
        <5> QED
          BY <1>1, <2>4, <4>3, <5>1
      <4> QED
        BY <4>1, <4>2, <4>3
    <3> QED
      BY <1>7, <2>4, <3>1, <3>2 DEF Spot
  <2> QED
    BY <2>1, <2>2, <2>3, <2>4
<1>9. \A x \in Orders : placed[x] = Place(x)'
  BY <1>3, <1>8 DEF Ledger!Placed
<1>10. [x \in Orders |-> Place(x)]' = placed
  BY <1>9 DEF Ledger!Placed
<1>11. (\E x \in Ledger!OrdersOf(j) : placed[x] \in {"waiting", "out"})
         <=> waiting \cup left # {}
  <2>1. \A x \in Orders : x[2] = j =>
          (Spot(x)' \in {"waiting", "out"} <=> x \in waiting \cup left)
    BY <1>1 DEF Spot
  <2>2. \A x \in waiting \cup left : x \in Orders /\ x[2] = j
    BY <1>1 DEF JobsInv, SoundJob, OwnOrders, Work, TypeInv, TypeOK, JobsTypeOK
  <2> HIDE DEF waiting, left, placed
  <2>3. \A x \in Orders : x[2] = j =>
          (placed[x] \in {"waiting", "out"} <=> x \in waiting \cup left)
    BY <1>7, <1>9, <2>1
  <2>4. \A x \in Ledger!OrdersOf(j) : x \in Orders /\ x[2] = j
    BY <1>6 DEF Ledger!OrdersOf
  <2> QED
    BY <1>6, <2>2, <2>3, <2>4
<1> HIDE DEF placed, waiting, left
<1>12. VerdictOf(j) = (IF state[j] = "FAILED" THEN "failed" ELSE "open")
  BY <1>3, Verdicts DEF Open
<1>13. VerdictOf(j)' = IF failed THEN "failed"
                       ELSE IF waiting \cup left # {} THEN "open" ELSE "done"
  BY <1>1, VerdictsNext DEF Open
<1>14. \A i \in Jobs : i # j => VerdictOf(i)' = VerdictOf(i)
  BY <1>1 DEF VerdictOf
<1>15. {x \in Orders : recorded[x] > 0}' =
         IF counts THEN {x \in Orders : recorded[x] > 0} \cup {o}
         ELSE {x \in Orders : recorded[x] > 0}
  BY DEF Inv, TypeInv, TypeOK, HistoryTypeOK
<1>17. [i \in Jobs |-> VerdictOf(i)]' =
         [[i \in Jobs |-> VerdictOf(i)] EXCEPT ![j] =
            IF failed THEN "failed"
            ELSE IF \E x \in Ledger!OrdersOf(j) : placed[x] \in {"waiting", "out"}
                 THEN "open" ELSE "done"]
  BY <1>11, <1>13, <1>14
<1>18. o \in Ledger!At("out") /\ more \in SUBSET (Ledger!OrdersOf(j) \cap Ledger!At("unborn"))
  <2>1. Place(o) = "out"
    BY <1>3, <1>7 DEF Spot
  <2>2. \A m \in more : m \in Orders /\ m[2] = j /\ Place(m) = "unborn"
    BY <1>7, Unborn DEF NewOrders
  <2> QED
    BY <1>6, <2>1, <2>2 DEF Ledger!At
<1>19. [x \in Orders |-> x[2]][o] = j
  BY <1>3
<1>20. Ledger!Answer(o, more, fails, counts)
  BY <1>5, <1>10, <1>12, <1>15, <1>17, <1>19 DEF Ledger!Answer, failed, placed
<1> QED
  BY <1>18, <1>19, <1>20 DEF Simulates, Ledger!Next

(* What every accepted result is.                                            *)
AnsweredAs(s, o, j, abort, fails, counts, st, more) ==
  /\ Settle(s, o, j, st, more, abort) /\ AnswersWith(o, j, st, more, abort, fails)
  /\ NewOrders(j, more)
  /\ recorded' = IF counts THEN [recorded EXCEPT ![o] = @ + 1] ELSE recorded

Answered(s, o) ==
  \E j \in Jobs, abort, fails, counts \in BOOLEAN : \E st, more :
    AnsweredAs(s, o, j, abort, fails, counts, st, more)

LEMMA AnsweredSomehow ==
  ASSUME NEW s, NEW o, NEW j \in Jobs, NEW abort \in BOOLEAN, NEW fails \in BOOLEAN,
         NEW counts \in BOOLEAN, NEW st, NEW more,
         AnsweredAs(s, o, j, abort, fails, counts, st, more)
  PROVE  Answered(s, o)
<1> USE DEF Answered
<1> WITNESS j \in Jobs, abort \in BOOLEAN, fails \in BOOLEAN, counts \in BOOLEAN
<1> WITNESS st, more
<1> QED
  OBVIOUS

LEMMA AnswerStep ==
  ASSUME NEW s \in Streams, NEW o \in Orders, NEW j \in Jobs,
         NEW st, NEW more, NEW abort \in BOOLEAN, NEW fails \in BOOLEAN,
         Settle(s, o, j, st, more, abort), AnswersWith(o, j, st, more, abort, fails),
         NewOrders(j, more), NEW counts \in BOOLEAN,
         recorded' = IF counts THEN [recorded EXCEPT ![o] = @ + 1] ELSE recorded
  PROVE  Answered(s, o)
<1>1. AnsweredAs(s, o, j, abort, fails, counts, st, more)
  BY Zenon DEF AnsweredAs
<1> QED
  BY <1>1, AnsweredSomehow

LEMMA NothingNew ==
  ASSUME Inv, UNCHANGED <<carries, attempts, afterBuild>>
  PROVE  \A j \in Jobs : NewOrders(j, {})
<1>1. \A i \in Jobs : attempts[i] \in Nat
  BY DEF Inv, TypeInv, TypeOK, JobsTypeOK
<1> QED
  BY <1>1 DEF NewOrders

LEMMA BuildIsAlone ==
  ASSUME Inv, NEW o \in Orders, NEW j \in Jobs, BuildRuns(o, j)
  PROVE  state[j] # "FAILED" /\ pending[j] = {}
<1>1. pending[j] = {}
  BY AnsweredBuild DEF Inv
<1>2. PICK r \in running[j] : r[1] = "build"
  BY DEF BuildRuns, IsBuild
<1>3. r \in Work(j)
  BY <1>2 DEF Work
<1> QED
  BY <1>1, <1>2, <1>3 DEF Inv, LedgerInv, AbortedIsOver

LEMMA BuildSucceededStep ==
  ASSUME Inv, NEW s \in Streams, NEW o \in Orders, NEW j \in Jobs,
         BuildSucceeded(s, o, j)
  PROVE  Answered(s, o)
<1>1. PICK more :
        /\ Settle(s, o, j, state[j], more, FALSE)
        /\ \A m \in more : \E g \in afterBuild[j] : m = MatchOrder(j, g)
        /\ \A x \in Orders : x \notin more => carries'[x] = carries[x]
        /\ \A x \in Orders : x \in more => carries'[x] # {}
  <2> DEFINE matches == {MatchOrder(j, g) : g \in
                {h \in afterBuild[j] : \A r \in Rivals[h] : live'[r].status = "READY"}}
  <2>1. /\ Settle(s, o, j, state[j], matches, FALSE)
        /\ carries' = [m \in Orders |->
             IF m \notin matches THEN carries[m]
             ELSE {<<r, live'[r].rev>> : r \in {job[j].cand} \cup Rivals[m[3]]}]
    BY DEF BuildSucceeded
  <2>2. \A m \in matches : \E g \in afterBuild[j] : m = MatchOrder(j, g)
    OBVIOUS
  <2> HIDE DEF matches
  <2>3. /\ \A x \in Orders : x \notin matches => carries'[x] = carries[x]
        /\ \A x \in Orders : x \in matches => carries'[x] # {}
    <3>1. \A x \in Orders : x \in matches =>
            <<job[j].cand, live'[job[j].cand].rev>> \in carries'[x]
      BY <2>1
    <3> QED
      BY <2>1, <3>1
  <2> QED
    BY <2>1, <2>2, <2>3
<1>2. /\ BuildRuns(o, j) /\ afterBuild' = [afterBuild EXCEPT ![j] = {}]
      /\ UNCHANGED <<attempts, recorded>>
  BY DEF BuildSucceeded
<1>3. state[j] # "FAILED"
  BY <1>2, BuildIsAlone
<1>4. /\ afterBuild \in [Jobs -> SUBSET Groups] /\ \A i \in Jobs : attempts[i] \in Nat
  BY DEF Inv, TypeInv, TypeOK, JobsTypeOK
<1>5. \A m \in more : /\ m \in Orders /\ m[1] = "match" /\ m[2] = j /\ afterBuild[j] # {}
  <2> TAKE m \in more
  <2>1. PICK g \in afterBuild[j] : m = MatchOrder(j, g)
    BY <1>1
  <2>2. m \in Orders
    BY <1>4, <2>1, OrderTypes
  <2> QED
    BY <2>1, <2>2 DEF MatchOrder
<1>6. \A m \in more : carries[m] = {}
  BY <1>5 DEF Inv, LedgerInv, BornInTurn
<1>7. \A i \in Jobs : afterBuild'[i] = IF i = j THEN {} ELSE afterBuild[i]
  BY <1>2, <1>4
<1>8. NewOrders(j, more)
  BY <1>1, <1>2, <1>4, <1>5, <1>6, <1>7 DEF NewOrders
<1>9. AnswersWith(o, j, state[j], more, FALSE, FALSE)
  BY <1>3 DEF AnswersWith
<1>10. FALSE \in BOOLEAN
  OBVIOUS
<1>11. recorded' = IF FALSE THEN [recorded EXCEPT ![o] = @ + 1] ELSE recorded
  BY <1>2
<1> QED
  BY <1>1, <1>8, <1>9, <1>10, <1>11, AnswerStep

LEMMA BuildEngineFailedStep ==
  ASSUME Inv, NEW s \in Streams, NEW o \in Orders, NEW j \in Jobs,
         BuildEngineFailed(s, o, j)
  PROVE  Answered(s, o)
<1> DEFINE n == attempts[j] + 1
           again == TryAgain(j, n)
           retry == BuildOrder(j, n + 1)
<1>1. /\ BuildRuns(o, j) /\ UNCHANGED <<afterBuild, recorded>>
      /\ attempts' = [attempts EXCEPT ![j] = n]
      /\ carries' = IF again THEN [carries EXCEPT ![retry] = carries[o]] ELSE carries
      /\ Settle(s, o, j, IF again THEN state[j] ELSE "FAILED",
                IF again THEN {retry} ELSE {}, FALSE)
  BY DEF BuildEngineFailed
<1>2. state[j] # "FAILED" /\ pending[j] = {}
  BY <1>1, BuildIsAlone
<1>3. attempts \in [Jobs -> Nat] /\ carries \in [Orders -> SUBSET Copies]
  BY DEF Inv, TypeInv, TypeOK, JobsTypeOK, HistoryTypeOK
<1>4. \A i \in Jobs : attempts'[i] = IF i = j THEN n ELSE attempts[i]
  BY <1>1, <1>3
<1>5. \A i \in Jobs : attempts'[i] \in Nat /\ attempts[i] <= attempts'[i]
  BY <1>3, <1>4
<1>6. TRUE \in BOOLEAN /\ FALSE \in BOOLEAN
  OBVIOUS
<1>7. recorded' = IF FALSE THEN [recorded EXCEPT ![o] = @ + 1] ELSE recorded
  BY <1>1
<1>8. CASE ~ again
  <2>1. Settle(s, o, j, "FAILED", {}, FALSE) /\ carries' = carries
    BY <1>1, <1>8, Zenon
  <2>2. AnswersWith(o, j, "FAILED", {}, FALSE, TRUE)
    BY <1>2 DEF AnswersWith
  <2>3. NewOrders(j, {})
    BY <1>1, <1>5, <2>1 DEF NewOrders
  <2> QED
    BY <1>6, <1>7, <2>1, <2>2, <2>3, AnswerStep
<1>9. CASE again
  <2>1. /\ Settle(s, o, j, state[j], {retry}, FALSE)
        /\ carries' = [carries EXCEPT ![retry] = carries[o]]
    BY <1>1, <1>9, Zenon
  <2>2. n + 1 \in 1 .. MaxAttempts /\ n + 1 \in Nat
    <3>1. n < MaxAttempts
      BY <1>9, Zenon DEF TryAgain
    <3> QED
      BY <1>3, <3>1 DEF MaxAttempts
  <2>3. retry \in Orders /\ retry[1] = "build" /\ retry[2] = j /\ retry[3] = n + 1
    <3>1. retry \in Orders
      BY <2>2, OrderTypes
    <3> QED
      BY <3>1 DEF BuildOrder
  <2> HIDE DEF retry
  <2>4. carries[retry] = {}
    <3>1. ~ (retry[3] <= attempts[j] + 1)
      BY <1>3, <2>3
    <3> QED
      BY <2>3, <3>1 DEF Inv, LedgerInv, BornInTurn
  <2>5. carries[o] # {}
    <3>1. owner[Key(o)] # Unowned /\ j = owner[Key(o)][1]
      BY <2>1, Zenon DEF Settle
    <3>2. o \in Work(j)
      BY <3>1, Accepted DEF Awaited, Work
    <3> QED
      BY <3>2 DEF Inv, LedgerInv, BornInTurn
  <2>6. /\ carries'[retry] # {}
        /\ \A x \in Orders : x # retry => carries'[x] = carries[x]
    BY <1>3, <2>1, <2>3, <2>5
  <2>7. AnswersWith(o, j, state[j], {retry}, FALSE, FALSE)
    BY <1>2 DEF AnswersWith
  <2>8. NewOrders(j, {retry})
    BY <1>1, <1>4, <1>5, <2>3, <2>4, <2>6 DEF NewOrders
  <2> QED
    BY <1>6, <1>7, <2>1, <2>7, <2>8, AnswerStep
<1> QED
  BY <1>8, <1>9

LEMMA BlamedStep ==
  ASSUME Inv, NEW s \in Streams, NEW o \in Orders, NEW j \in Jobs,
         Settle(s, o, j, "FAILED", {}, TRUE),
         UNCHANGED <<afterBuild, attempts, carries, recorded>>
  PROVE  Answered(s, o)
<1>1. AnswersWith(o, j, "FAILED", {}, TRUE, TRUE)
  BY DEF AnswersWith
<1>2. TRUE \in BOOLEAN /\ FALSE \in BOOLEAN
  OBVIOUS
<1>3. recorded' = IF FALSE THEN [recorded EXCEPT ![o] = @ + 1] ELSE recorded
  OBVIOUS
<1> QED
  BY <1>1, <1>2, <1>3, NothingNew, AnswerStep

LEMMA MatchStep ==
  ASSUME Inv, NEW s \in Streams, NEW o \in Orders, NEW j \in Jobs,
         Settle(s, o, j, state[j], {}, FALSE),
         UNCHANGED <<afterBuild, attempts, carries>>, NEW counts \in BOOLEAN,
         recorded' = IF counts THEN [recorded EXCEPT ![o] = @ + 1] ELSE recorded
  PROVE  Answered(s, o)
<1>1. AnswersWith(o, j, state[j], {}, FALSE, FALSE)
  BY DEF AnswersWith
<1>2. FALSE \in BOOLEAN
  OBVIOUS
<1> QED
  BY <1>1, <1>2, NothingNew, AnswerStep

LEMMA ResultAnswers ==
  ASSUME Inv, NEW s \in Streams, NEW o \in Orders, AwaitedResult(s, o)
  PROVE  Answered(s, o)
<1>1. ASSUME NEW j \in Jobs, BuildBlamed(s, o, j)
      PROVE  Answered(s, o)
  BY <1>1, BlamedStep DEF BuildBlamed
<1>2. ASSUME NEW j \in Jobs, NEW who \in Candidates, MatchBlamed(s, o, j, who)
      PROVE  Answered(s, o)
  BY <1>2, BlamedStep DEF MatchBlamed
<1>3. ASSUME NEW j \in Jobs, MatchError(s, o, j)
      PROVE  Answered(s, o)
  <2>1. FALSE \in BOOLEAN
    OBVIOUS
  <2>2. recorded' = IF FALSE THEN [recorded EXCEPT ![o] = @ + 1] ELSE recorded
    BY <1>3 DEF MatchError
  <2> QED
    BY <1>3, <2>1, <2>2, MatchStep DEF MatchError
<1>4. ASSUME NEW j \in Jobs, MatchPlayed(s, o, j)
      PROVE  Answered(s, o)
  <2>1. TRUE \in BOOLEAN
    OBVIOUS
  <2>2. recorded' = IF TRUE THEN [recorded EXCEPT ![o] = @ + 1] ELSE recorded
    BY <1>4 DEF MatchPlayed
  <2> QED
    BY <1>4, <2>1, <2>2, MatchStep DEF MatchPlayed
<1> QED
  BY <1>1, <1>2, <1>3, <1>4, BuildSucceededStep, BuildEngineFailedStep DEF AwaitedResult

LEMMA ResultStep ==
  ASSUME Inv, TypeInv', JobsInv', NEW s \in Streams, NEW o \in Orders, AwaitedResult(s, o)
  PROVE  JobsLedgered' /\ Simulates
<1>1. Answered(s, o)
  BY ResultAnswers
<1> QED
  BY <1>1, AnswerLedger, AnswerSimulates DEF Answered, AnsweredAs

-----------------------------------------------------------------------------
(* All steps.                                                                *)

LEMMA InitSimulates == Init => Ledger!Init
<1> SUFFICES ASSUME Init PROVE Ledger!Init
  OBVIOUS
<1>1. \A o \in Orders : Place(o) = "unborn" /\ recorded[o] = 0
  BY DEF Init, Place
<1>2. \A j \in Jobs : VerdictOf(j) = "none"
  BY Verdicts DEF Init
<1> QED
  BY <1>1, <1>2 DEF Ledger!Init

LEMMA SubmissionStep ==
  ASSUME Inv, TypeInv', JobsInv', Submission
  PROVE  JobsLedgered' /\ Simulates
<1>1. ASSUME NEW cl \in Clients, NEW cancel \in BOOLEAN, TryReserve(cl, cancel)
      PROVE  JobsLedgered' /\ Simulates
  BY <1>1, TryReserveLedger, TryReserveSimulates
<1>2. ASSUME NEW cl \in Clients, RejectSubmission(cl)
      PROVE  JobsLedgered' /\ Simulates
  BY <1>2, QuietLedger, QuietSimulates DEF RejectSubmission, jobVars, history
<1>3. ASSUME NEW cl \in Clients, NEW c \in Candidates, StoreSubmission(cl, c)
      PROVE  JobsLedgered' /\ Simulates
  BY <1>3, QuietLedger, QuietSimulates DEF StoreSubmission, jobVars, history
<1>4. ASSUME NEW sub \in submits, NEW j \in Jobs, NEW ladder \in Ladders(sub.cand),
             EnqueuePlacement(sub, j, ladder)
      PROVE  JobsLedgered' /\ Simulates
  <2> DEFINE info == [sub EXCEPT !.client = IF Metered THEN @ ELSE NoClient]
             A == Superseded(sub.cand)
             groups == PlacementGroups \cup ladder
  <2>1. Enqueue(j, info, groups, Archive, A)
    BY <1>4 DEF EnqueuePlacement
  <2>2. A \in SUBSET Jobs /\ \A i \in A : state[i] \in Open
    BY DEF Superseded
  <2>3. Archive \in BOOLEAN /\ groups \in SUBSET Groups
    BY DEF SchedulerAssumption, Ladders, LadderGroups
  <2> HIDE DEF info, A, groups
  <2> QED
    BY <2>1, <2>2, <2>3, EnqueueLedger
<1>5. ASSUME NEW c \in Candidates, NEW g \in Groups, NEW j \in Jobs,
             EnqueueMatch(c, g, j)
      PROVE  JobsLedgered' /\ Simulates
  <2>1. PICK info : Enqueue(j, info, {g}, FALSE, {}) /\ FALSE \in BOOLEAN /\ {g} \in SUBSET Groups
    BY <1>5 DEF EnqueueMatch
  <2> QED
    BY <2>1, EnqueueLedger
<1> QED
  BY <1>1, <1>2, <1>3, <1>4, <1>5 DEF Submission

LEMMA DispatchStep ==
  ASSUME Inv, TypeInv', JobsInv', Dispatch
  PROVE  JobsLedgered' /\ Simulates
<1>1. CASE DropSpentJob
  BY <1>1, QuietLedger, QuietSimulates DEF DropSpentJob, jobVars, history
<1>2. CASE NoRoom
  BY <1>2, QuietLedger, QuietSimulates DEF NoRoom, jobVars, history
<1>3. CASE EndOfPass
  BY <1>3, QuietLedger, QuietSimulates DEF EndOfPass, jobVars, history
<1> QED
  BY <1>1, <1>2, <1>3, SendOrderLedger, NoSendFails DEF Dispatch, Inv, LedgerInv

LEMMA FleetStep ==
  ASSUME Inv, TypeInv', JobsInv', Fleet
  PROVE  JobsLedgered' /\ Simulates
<1>1. ASSUME NEW s \in Streams, AddWorker(s) PROVE JobsLedgered' /\ Simulates
  BY <1>1, QuietLedger, QuietSimulates DEF AddWorker, jobVars, history
<1>2. ASSUME NEW s \in Streams, RemoveWorker(s) PROVE JobsLedgered' /\ Simulates
  BY <1>2, RemoveWorkerLedger, RemoveWorkerSimulates
<1>3. ASSUME NEW s \in Streams, Break(s) PROVE JobsLedgered' /\ Simulates
  BY <1>3, QuietLedger, QuietSimulates DEF Break, jobVars, history
<1>4. ASSUME NEW s \in Streams, NEW o \in Orders, LateResult(s, o)
      PROVE  JobsLedgered' /\ Simulates
  BY <1>4, QuietLedger, QuietSimulates DEF LateResult, jobVars, history
<1> QED
  BY <1>1, <1>2, <1>3, <1>4, ResultStep DEF Fleet, OnResult

LEMMA NextSimulates ==
  ~ MayBreak => (Inv /\ [Next]_vars => Inv' /\ Simulates)
<1> SUFFICES ASSUME ~ MayBreak, Inv, [Next]_vars PROVE Inv' /\ Simulates
  OBVIOUS
<1>1. TypeInv' /\ JobsInv'
  BY NextType, NextIsFair DEF Inv, StepIsFair
<1>2. CASE UNCHANGED vars
  <2>1. JobsLedgered' /\ Simulates
    BY <1>1, <1>2, QuietLedger, QuietSimulates DEF vars, jobVars, history
  <2>2. SendsWork'
    BY <1>2 DEF vars, fleetVars, Inv, LedgerInv, SendsWork
  <2> QED
    BY <1>1, <2>1, <2>2 DEF Inv, LedgerInv, JobsLedgered
<1>3. CASE Next
  <2>1. JobsLedgered' /\ Simulates
    BY <1>1, <1>3, SubmissionStep, DispatchStep, FleetStep DEF Next
  <2>2. SendsWork'
    BY <1>3, NextSendsWork DEF Inv, LedgerInv
  <2> QED
    BY <1>1, <2>1, <2>2 DEF Inv, LedgerInv, JobsLedgered
<1> QED
  BY <1>2, <1>3

(* The scheduler's four tables, its queue, slots and streams implement the   *)
(* plain ledger of orders: none is lost or given out for a job that is over, *)
(* each is answered at most once, and a verdict follows from the answers.    *)
THEOREM LedgerIsKept == ~ MayBreak => (SafetySpec => KeepsLedger)
<1> SUFFICES ASSUME ~ MayBreak PROVE SafetySpec => KeepsLedger
  OBVIOUS
<1>1. Init => Inv /\ Ledger!Init
  BY InitType, InitJobs, InitLedgerInv, InitSimulates DEF Inv
<1>2. Inv /\ [Next]_vars => Inv' /\ [Ledger!Next]_(Ledger!vars)
  BY NextSimulates DEF Simulates
<1> QED
  BY <1>1, <1>2, PTL DEF SafetySpec, KeepsLedger, Ledger!Spec

(* A worker id belongs to one stream, which may leave and come back.         *)
OneStreamEach == \A s, t \in Streams : WorkerOf[s] = WorkerOf[t] => s = t

-----------------------------------------------------------------------------
(* The books, one order at a time.                                           *)

(* An order its job runs is owned, occupies a slot and is with the worker.   *)
RunsSomewhere(o) ==
  o \in running[o[2]] =>
    /\ owner[o] # Unowned
    /\ o \in inFlight[owner[o][2]]
    /\ attached[owner[o][2]] # NoStream
    /\ o \in sent[attached[owner[o][2]]]

HoldsOwnSlot(o) ==
  \A w \in Workers : o \in inFlight[w] => owner[o] # Unowned /\ owner[o][2] = w

(* What a worker still has was made and waits nowhere, and is its own unless *)
(* it is nobody's.                                                           *)
SentIsKnown(o) ==
  \A s \in Streams : o \in sent[s] =>
    /\ carries[o] # {} /\ o \notin pending[o[2]]
    /\ owner[o] # Unowned => owner[o][2] = WorkerOf[s]

Booked(o) == RunsSomewhere(o) /\ HoldsOwnSlot(o) /\ SentIsKnown(o)
BooksInv == \A o \in Orders : Booked(o)

USE SchedulerAssumption, StoreAssumption

LEMMA OwnedOrders ==
  ASSUME Inv, NEW o \in Orders
  PROVE  /\ Key(o) = o /\ o \in Keys /\ o[2] \in Jobs
         /\ owner[o] # Unowned =>
              /\ owner[o][1] = o[2] /\ owner[o][2] \in Workers
              /\ o \in running[o[2]]
<1>1. Key(o) = o /\ o[2] \in Jobs /\ o \in Keys
  BY KeysAreOrders, OrderTypes DEF Inv, LedgerInv, Keys
<1>2. ASSUME owner[o] # Unowned
      PROVE  owner[o][1] = o[2] /\ owner[o][2] \in Workers /\ o \in running[o[2]]
  <2>1. owner[o] \in Jobs \X Workers
    BY <1>1, <1>2 DEF Inv, TypeInv, TypeOK, FleetTypeOK
  <2>2. owner[o][1] \in Jobs /\ owner[o][2] \in Workers
    BY <2>1
  <2>3. PICK r \in running[owner[o][1]] : Key(r) = o
    BY <1>1, <1>2 DEF Inv, JobsInv, OwnedIsRunning
  <2>4. r \in Orders
    BY <2>2, <2>3 DEF Inv, TypeInv, TypeOK, JobsTypeOK
  <2>5. r = o
    BY <2>3, <2>4, KeysAreOrders DEF Inv, LedgerInv
  <2>6. o[2] = owner[o][1]
    BY <2>2, <2>3, <2>5, JobsOwnWork DEF Inv, OwnWork
  <2> QED
    BY <2>2, <2>3, <2>5, <2>6
<1> QED
  BY <1>1, <1>2

(* The books are what LedgersAgree says, and what the proof needs besides.   *)
LEMMA BooksAgree == Inv /\ BooksInv => LedgersAgree
<1> SUFFICES ASSUME Inv, BooksInv PROVE LedgersAgree
  OBVIOUS
<1>1. RunningIsOwned
  <2> SUFFICES ASSUME NEW j \in Jobs, NEW o \in running[j]
               PROVE  /\ owner[o] # Unowned /\ owner[o][1] = j
                      /\ o \in inFlight[owner[o][2]]
                      /\ owner[o][2] \in Attached /\ o \in sent[attached[owner[o][2]]]
    BY DEF RunningIsOwned
  <2>1. o \in Orders
    BY DEF Inv, TypeInv, TypeOK, JobsTypeOK
  <2>2. o[2] = j
    BY JobsOwnWork DEF Inv, OwnWork
  <2>3. Booked(o)
    BY <2>1 DEF BooksInv
  <2> QED
    BY <2>1, <2>2, <2>3, OwnedOrders DEF Booked, RunsSomewhere, Attached
<1>2. NoSlotLeaks
  <2>1. \A w \in Workers : inFlight[w] \subseteq Orders
    BY DEF Inv, TypeInv, TypeOK, FleetTypeOK
  <2> QED
    BY <2>1 DEF NoSlotLeaks, BooksInv, Booked, HoldsOwnSlot
<1> QED
  BY <1>1, <1>2 DEF LedgersAgree, Inv, JobsInv

LEMMA InitBooks == Init => BooksInv
<1> SUFFICES ASSUME Init, NEW o \in Orders PROVE Booked(o)
  BY DEF BooksInv
<1>1. running[o[2]] = {}
  BY OrderTypes DEF Init
<1> QED
  BY <1>1 DEF Init, Booked, RunsSomewhere, HoldsOwnSlot, SentIsKnown

LEMMA QuietBooks ==
  ASSUME BooksInv,
         UNCHANGED <<pending, running, owner, attached, inFlight, sent, carries>>
  PROVE  BooksInv'
BY DEF BooksInv, Booked, RunsSomewhere, HoldsOwnSlot, SentIsKnown

-----------------------------------------------------------------------------
(* Jobs are aborted.                                                         *)

LEMMA DroppedOrder ==
  ASSUME Inv, NEW A \in SUBSET Jobs, DropOrders(A), NEW o \in Orders
  PROVE  /\ owner'[o] = IF o[2] \in A /\ o \in running[o[2]] THEN Unowned ELSE owner[o]
         /\ \A w \in Workers : owner[o][2] = w \/ o \notin inFlight[w] =>
              (o \in inFlight'[w] <=>
                 o \in inFlight[w] /\ (owner[o] # Unowned => o[2] \notin A))
<1>1. o \in AbortedKeys(A) <=> o[2] \in A /\ o \in running[o[2]]
  <2>1. ASSUME NEW r \in AbortedOrders(A)
        PROVE  r \in Orders /\ Key(r) = r /\ r[2] \in A /\ r \in running[r[2]]
    <3>1. PICK j \in A : r \in running[j]
      BY <2>1 DEF AbortedOrders
    <3>2. r \in Orders /\ r[2] = j
      BY <3>1, JobsOwnWork DEF Inv, OwnWork, TypeInv, TypeOK, JobsTypeOK
    <3> QED
      BY <3>1, <3>2, OwnedOrders
  <2>2. ASSUME o[2] \in A, o \in running[o[2]] PROVE o \in AbortedOrders(A)
    BY <2>2 DEF AbortedOrders
  <2>3. Key(o) = o
    BY OwnedOrders
  <2> QED
    BY <2>1, <2>2, <2>3 DEF AbortedKeys
<1>2. Key(o) = o /\ o \in Keys /\ (owner[o] # Unowned => o \in running[o[2]])
  BY OwnedOrders
<1>3. owner'[o] = IF o[2] \in A /\ o \in running[o[2]] THEN Unowned ELSE owner[o]
  BY <1>1, <1>2 DEF DropOrders
<1>4. ASSUME NEW w \in Workers, owner[o][2] = w \/ o \notin inFlight[w]
      PROVE  o \in inFlight'[w] <=>
               o \in inFlight[w] /\ (owner[o] # Unowned => o[2] \notin A)
  BY <1>1, <1>2, <1>4 DEF DropOrders, Erased
<1> QED
  BY <1>3, <1>4

LEMMA DroppedBooks ==
  ASSUME Inv, NEW A \in SUBSET Jobs, DropOrders(A), NEW o \in Orders, Booked(o),
         running'[o[2]] = IF o[2] \in A THEN {} ELSE running[o[2]],
         UNCHANGED <<attached, sent>>,
         carries[o] # {} => carries'[o] # {},
         \/ pending'[o[2]] \subseteq pending[o[2]]
         \/ carries[o] = {}
  PROVE  Booked(o)'
<1>1. owner'[o] = IF o[2] \in A /\ o \in running[o[2]] THEN Unowned ELSE owner[o]
  BY DroppedOrder
<1>2. \A w \in Workers : o \in inFlight'[w] <=>
        o \in inFlight[w] /\ (owner[o] # Unowned => o[2] \notin A)
  <2> TAKE w \in Workers
  <2>1. owner[o][2] = w \/ o \notin inFlight[w]
    BY DEF Booked, HoldsOwnSlot
  <2> QED
    BY <2>1, DroppedOrder
<1>3. owner[o] # Unowned => owner[o][2] \in Workers
  BY OwnedOrders
<1>4. RunsSomewhere(o)'
  BY <1>1, <1>2, <1>3 DEF Booked, RunsSomewhere
<1>5. HoldsOwnSlot(o)'
  BY <1>1, <1>2 DEF Booked, HoldsOwnSlot
<1>6. SentIsKnown(o)'
  BY <1>1 DEF Booked, SentIsKnown
<1> QED
  BY <1>4, <1>5, <1>6 DEF Booked

LEMMA TryReserveBooks ==
  ASSUME Inv, BooksInv, NEW cl \in Clients, NEW cancel \in BOOLEAN,
         TryReserve(cl, cancel)
  PROVE  BooksInv'
<1>1. PICK A \in SUBSET Jobs : A = IF cancel THEN Mine(cl) ELSE {}
  BY DEF Mine
<1>2. /\ DropOrders(A) /\ pending' = PendingWithout(A) /\ running' = RunningWithout(A)
      /\ UNCHANGED <<attached, sent, carries>>
  BY <1>1 DEF TryReserve
<1>3. ASSUME NEW o \in Orders PROVE Booked(o)'
  BY <1>2, DroppedBooks, OrderTypes DEF PendingWithout, RunningWithout, BooksInv
<1> QED
  BY <1>3 DEF BooksInv

LEMMA EnqueueBooks ==
  ASSUME Inv, BooksInv, NEW j \in Jobs, NEW info, NEW groups \in SUBSET Groups,
         NEW buildFirst \in BOOLEAN, NEW A \in SUBSET Jobs,
         \A i \in A : state[i] \in Open, Enqueue(j, info, groups, buildFirst, A)
  PROVE  BooksInv'
<1> SUFFICES ASSUME NEW o \in Orders PROVE Booked(o)'
  BY DEF BooksInv
<1> DEFINE first == IF buildFirst THEN {BuildOrder(j, 1)}
                    ELSE {MatchOrder(j, g) : g \in {h \in groups : Runnable(h)}}
<1>1. /\ DropOrders(A) /\ pending' = [PendingWithout(A) EXCEPT ![j] = first]
      /\ running' = RunningWithout(A) /\ UNCHANGED <<attached, sent>>
      /\ carries' = [x \in Orders |->
          IF x \notin first THEN carries[x]
          ELSE IF buildFirst THEN {<<info.cand, info.rev>>}
               ELSE CopiesOf(info.cand, info.rev, x[3])]
  BY Zenon DEF Enqueue
<1>2. state[j] = "NONE"
  BY DEF Enqueue, NextJob
<1>3. o[2] = j => carries[o] = {}
  BY <1>2 DEF Inv, LedgerInv, BornInTurn
<1> HIDE DEF first
<1>4. carries[o] # {} => carries'[o] # {}
  BY <1>1 DEF CopiesOf
<1>5. o[2] # j => pending'[o[2]] \subseteq pending[o[2]]
  BY <1>1, OrderTypes DEF PendingWithout
<1>6. running'[o[2]] = IF o[2] \in A THEN {} ELSE running[o[2]]
  BY <1>1, OrderTypes DEF RunningWithout
<1> QED
  BY <1>1, <1>3, <1>4, <1>5, <1>6, DroppedBooks DEF BooksInv

-----------------------------------------------------------------------------
(* An order is handed out.                                                   *)

LEMMA SendOrderBooks ==
  ASSUME Inv, BooksInv, NEW w \in Workers, NEW o \in Orders, SendOrder(w, o)
  PROVE  BooksInv'
<1>1. PICK j \in Jobs : j = Scanned
  BY LenProperties, ElementOfSeq
  DEF SendOrder, Scanning, Scanned, Inv, TypeInv, TypeOK, PassTypeOK
<1>2. o \in pending[j] /\ o[2] = j /\ o \notin running[j]
  BY <1>1 DEF SendOrder, Inv, JobsInv, SoundJob, OwnOrders, Work
<1>3. Key(o) = o /\ o \in Keys
  BY OwnedOrders
<1>4. owner[o] = Unowned
  BY <1>2, OwnedOrders
<1>5. attached[w] # NoStream /\ WorkerOf[attached[w]] = w /\ attached[w] \in Streams
  <2>1. attached[w] # NoStream
    BY DEF SendOrder, Emptiest, Attached
  <2> QED
    BY <2>1 DEF Inv, LedgerInv, SendsWork, TypeInv, TypeOK, FleetTypeOK
<1>6. {r \in running[j] : Key(r) # Key(o)} \cup {o} = running[j] \cup {o}
  BY <1>2, KeysAreOrders DEF Inv, LedgerInv, TypeInv, TypeOK, JobsTypeOK
<1>7. /\ pending' = [pending EXCEPT ![j] = @ \ {o}]
      /\ running' = [running EXCEPT ![j] = {r \in @ : Key(r) # Key(o)} \cup {o}]
      /\ inFlight' = [inFlight EXCEPT ![w] = @ \cup {o}]
      /\ owner' = [owner EXCEPT ![Key(o)] = <<j, w>>]
      /\ sent' = [sent EXCEPT ![attached[w]] = @ \cup {o}]
      /\ UNCHANGED <<attached, carries>>
  BY <1>1 DEF SendOrder
<1>8. /\ \A x \in Orders : x \in pending'[x[2]] => x \in pending[x[2]] /\ x # o
      /\ \A x \in Orders : x # o => (x \in running'[x[2]] => x \in running[x[2]])
  BY <1>2, <1>6, <1>7, OrderTypes DEF Inv, TypeInv, TypeOK, JobsTypeOK
<1>9. /\ \A x \in Orders : x # o => owner'[x] = owner[x]
      /\ owner'[o] = <<j, w>>
  <2>1. \A x \in Orders : x \in Keys
    BY DEF Keys
  <2> QED
    BY <1>3, <1>7, <2>1 DEF Inv, TypeInv, TypeOK, FleetTypeOK
<1>10. \A v \in Workers, x \in Orders :
         x \in inFlight'[v] <=> x \in inFlight[v] \/ (v = w /\ x = o)
  BY <1>7 DEF Inv, TypeInv, TypeOK, FleetTypeOK
<1>11. \A s \in Streams, x \in Orders :
         x \in sent'[s] <=> x \in sent[s] \/ (s = attached[w] /\ x = o)
  BY <1>5, <1>7 DEF Inv, TypeInv, TypeOK, FleetTypeOK
<1>12. ASSUME NEW x \in Orders, x # o PROVE Booked(x)'
  <2>1. owner[x] # Unowned => owner[x][2] \in Workers
    BY OwnedOrders
  <2>2. attached \in [Workers -> Streams \cup {NoStream}]
    BY DEF Inv, TypeInv, TypeOK, FleetTypeOK
  <2>3. Booked(x)
    BY DEF BooksInv
  <2>4. RunsSomewhere(x)'
    BY <1>7, <1>8, <1>9, <1>12, <1>10, <1>11, <2>1, <2>2, <2>3 DEF Booked, RunsSomewhere
  <2>5. HoldsOwnSlot(x)'
    <3>1. owner'[x] = owner[x]
      BY <1>9, <1>12
    <3>2. \A v \in Workers : x \in inFlight'[v] => x \in inFlight[v]
      BY <1>12, <1>10
    <3> QED
      BY <2>3, <3>1, <3>2 DEF Booked, HoldsOwnSlot
  <2>6. SentIsKnown(x)'
    BY <1>7, <1>8, <1>9, <1>12, <1>11, <2>3 DEF Booked, SentIsKnown
  <2> QED
    BY <2>4, <2>5, <2>6 DEF Booked
<1>13. Booked(o)'
  <2>1. owner'[o] # Unowned /\ owner'[o][2] = w
    <3>1. owner'[o][1] = j /\ owner'[o][2] = w /\ j # 0
      BY <1>9 DEF Jobs
    <3> QED
      BY <3>1 DEF Unowned
  <2>2. \A v \in Workers : o \notin inFlight[v]
    BY <1>4 DEF BooksInv, Booked, HoldsOwnSlot
  <2>3. \A s \in Streams : o \notin sent[s]
    BY <1>2 DEF BooksInv, Booked, SentIsKnown
  <2>4. RunsSomewhere(o)'
    <3>1. o \in inFlight'[w] /\ o \in sent'[attached[w]] /\ attached'[w] = attached[w]
      BY <1>5, <1>7, <1>10, <1>11
    <3> QED
      BY <1>5, <2>1, <3>1 DEF RunsSomewhere
  <2>5. HoldsOwnSlot(o)'
    BY <1>10, <2>1, <2>2 DEF HoldsOwnSlot
  <2>6. carries'[o] # {}
    BY <1>2, <1>7 DEF Inv, LedgerInv, BornInTurn, Work
  <2>7. SentIsKnown(o)'
    BY <1>5, <1>8, <1>11, <2>1, <2>3, <2>6 DEF SentIsKnown
  <2> QED
    BY <2>4, <2>5, <2>7 DEF Booked
<1> QED
  BY <1>12, <1>13 DEF BooksInv

-----------------------------------------------------------------------------
(* Workers come and go.                                                      *)

(* Only its own stream is ever registered under a worker id.                 *)
LEMMA RegisteredStream ==
  ASSUME Inv, OneStreamEach, NEW s \in Streams, NEW w \in Workers, attached[w] # NoStream
  PROVE  /\ attached[w] \in Streams /\ link[attached[w]] = "up"
         /\ (attached[w] = s) <=> (w = WorkerOf[s])
<1>1. attached[w] \in Streams
  BY DEF Inv, TypeInv, TypeOK, FleetTypeOK
<1> QED
  BY <1>1 DEF Inv, LedgerInv, SendsWork, OneStreamEach

(* Nothing is kept for a worker that is not registered.                      *)
LEMMA NothingKept ==
  ASSUME Inv, BooksInv, NEW w \in Workers, attached[w] = NoStream, NEW o \in Orders
  PROVE  o \notin inFlight[w] /\ (owner[o] # Unowned => owner[o][2] # w)
BY OwnedOrders DEF BooksInv, Booked, RunsSomewhere, HoldsOwnSlot

LEMMA AddWorkerBooks ==
  ASSUME Inv, BooksInv, OneStreamEach, NEW s \in Streams, AddWorker(s)
  PROVE  BooksInv'
<1> DEFINE w == WorkerOf[s]
<1>1. w \in Workers
  OBVIOUS
<1>2. attached[w] = NoStream
  BY <1>1, RegisteredStream DEF AddWorker
<1>3. /\ UNCHANGED <<pending, running, owner, sent, carries>>
      /\ \A v \in Workers : v # w => attached'[v] = attached[v] /\ inFlight'[v] = inFlight[v]
      /\ inFlight'[w] = {}
  BY DEF AddWorker, jobVars, Inv, TypeInv, TypeOK, FleetTypeOK
<1> HIDE DEF w
<1>4. ASSUME NEW o \in Orders PROVE Booked(o)'
  <2>1. Booked(o) /\ (owner[o] # Unowned => owner[o][2] \in Workers /\ owner[o][2] # w)
    BY <1>1, <1>2, NothingKept, OwnedOrders DEF BooksInv
  <2>2. RunsSomewhere(o)'
    BY <1>3, <2>1 DEF Booked, RunsSomewhere
  <2>3. HoldsOwnSlot(o)'
    BY <1>3, <2>1 DEF Booked, HoldsOwnSlot
  <2>4. SentIsKnown(o)'
    BY <1>3, <2>1 DEF Booked, SentIsKnown
  <2> QED
    BY <2>2, <2>3, <2>4 DEF Booked
<1> QED
  BY <1>4 DEF BooksInv

LEMMA RemoveWorkerBooks ==
  ASSUME Inv, BooksInv, OneStreamEach, NEW s \in Streams, RemoveWorker(s)
  PROVE  BooksInv'
<1> DEFINE w == WorkerOf[s]
<1>1. w \in Workers
  OBVIOUS
<1>2. /\ sent' = [sent EXCEPT ![s] = {}] /\ carries' = carries
  BY DEF RemoveWorker
<1>3. /\ \A t \in Streams : t # s => sent'[t] = sent[t]
      /\ sent'[s] = {}
  BY <1>2 DEF Inv, TypeInv, TypeOK, FleetTypeOK
<1>4. CASE w \notin Attached
  <2>1. UNCHANGED <<pending, running, owner, attached, inFlight>>
    BY <1>4 DEF RemoveWorker
  <2>2. \A v \in Workers : attached[v] # s
    BY <1>4, RegisteredStream DEF Attached
  <2>3. ASSUME NEW o \in Orders PROVE Booked(o)'
    <3>1. Booked(o) /\ (owner[o] # Unowned => owner[o][2] \in Workers)
      BY OwnedOrders DEF BooksInv
    <3>2. owner[o] # Unowned => attached[owner[o][2]] \in Streams \cup {NoStream}
      BY <3>1 DEF Inv, TypeInv, TypeOK, FleetTypeOK
    <3>3. RunsSomewhere(o)'
      BY <1>3, <2>1, <2>2, <3>1, <3>2 DEF Booked, RunsSomewhere
    <3>4. HoldsOwnSlot(o)' /\ SentIsKnown(o)'
      BY <1>2, <1>3, <2>1, <3>1 DEF Booked, HoldsOwnSlot, SentIsKnown
    <3> QED
      BY <3>3, <3>4 DEF Booked
  <2> QED
    BY <2>3 DEF BooksInv
<1>5. CASE w \in Attached
  <2>1. /\ owner' = [k \in Keys |->
               IF \E o \in inFlight[w] : Key(o) = k THEN Unowned ELSE owner[k]]
        /\ running' = [j \in Jobs |-> running[j] \ OrphansOf(w, j)]
        /\ pending' = [j \in Jobs |-> pending[j] \cup OrphansOf(w, j)]
        /\ attached' = [attached EXCEPT ![w] = NoStream]
        /\ inFlight' = [inFlight EXCEPT ![w] = {}]
    BY <1>5 DEF RemoveWorker
  <2>2. /\ \A v \in Workers : v # w => attached'[v] = attached[v] /\ inFlight'[v] = inFlight[v]
        /\ inFlight'[w] = {}
    BY <1>1, <2>1 DEF Inv, TypeInv, TypeOK, FleetTypeOK
  <2>3. /\ inFlight[w] \subseteq Orders
        /\ \A v \in Workers : v # w => attached[v] # s
    BY <1>1, RegisteredStream DEF Inv, TypeInv, TypeOK, FleetTypeOK
  <2> HIDE DEF w
  <2>4. ASSUME NEW o \in Orders PROVE Booked(o)'
    <3>1. /\ Key(o) = o /\ o \in Keys /\ o[2] \in Jobs /\ Booked(o)
          /\ owner[o] # Unowned =>
               owner[o][1] = o[2] /\ owner[o][2] \in Workers /\ o \in running[o[2]]
      BY OwnedOrders DEF BooksInv
    <3>2. o \in inFlight[w] <=> owner[o] # Unowned /\ owner[o][2] = w
      BY <1>1, <3>1 DEF Booked, RunsSomewhere, HoldsOwnSlot
    <3>3. owner'[o] = IF o \in inFlight[w] THEN Unowned ELSE owner[o]
      <4>1. (\E x \in inFlight[w] : Key(x) = o) <=> o \in inFlight[w]
        BY <2>3, OwnedOrders
      <4> QED
        BY <2>1, <3>1, <4>1
    <3>4. o \in OrphansOf(w, o[2]) <=> o \in inFlight[w]
      <4>1. o \in inFlight[w] => o \in Orphans(w) /\ o \in running[o[2]]
        BY <3>1, <3>2 DEF Orphans
      <4>2. o \in Orphans(w) => o \in inFlight[w]
        BY <2>3, <3>1, OwnedOrders DEF Orphans
      <4> QED
        BY <4>1, <4>2 DEF OrphansOf
    <3>5. /\ o \in running'[o[2]] <=> o \in running[o[2]] /\ o \notin inFlight[w]
          /\ o \in pending'[o[2]] <=> o \in pending[o[2]] \/ o \in inFlight[w]
      BY <2>1, <3>1, <3>4
    <3>6. RunsSomewhere(o)'
      <4> SUFFICES ASSUME o \in running'[o[2]]
                   PROVE  /\ owner'[o] # Unowned /\ o \in inFlight'[owner'[o][2]]
                          /\ attached'[owner'[o][2]] # NoStream
                          /\ o \in sent'[attached'[owner'[o][2]]]
        BY DEF RunsSomewhere
      <4>1. /\ owner'[o] = owner[o] /\ owner[o] # Unowned /\ owner[o][2] \in Workers
            /\ owner[o][2] # w
        BY <3>1, <3>2, <3>3, <3>5 DEF Booked, RunsSomewhere
      <4>2. /\ attached'[owner[o][2]] = attached[owner[o][2]]
            /\ inFlight'[owner[o][2]] = inFlight[owner[o][2]]
            /\ attached[owner[o][2]] # s
            /\ attached[owner[o][2]] \in Streams \cup {NoStream}
        BY <2>2, <2>3, <4>1 DEF Inv, TypeInv, TypeOK, FleetTypeOK
      <4> QED
        BY <1>3, <3>1, <3>5, <4>1, <4>2 DEF Booked, RunsSomewhere
    <3>7. HoldsOwnSlot(o)'
      BY <2>2, <3>1, <3>2, <3>3 DEF Booked, HoldsOwnSlot
    <3>8. SentIsKnown(o)'
      <4> SUFFICES ASSUME NEW t \in Streams, o \in sent'[t]
                   PROVE  /\ carries'[o] # {} /\ o \notin pending'[o[2]]
                          /\ owner'[o] # Unowned => owner'[o][2] = WorkerOf[t]
        BY DEF SentIsKnown
      <4>1. t # s /\ o \in sent[t]
        BY <1>3
      <4>2. WorkerOf[t] # WorkerOf[s]
        BY <4>1 DEF OneStreamEach
      <4>3. o \notin inFlight[w]
        BY <3>1, <3>2, <4>1, <4>2 DEF Booked, SentIsKnown, w
      <4> QED
        BY <1>2, <3>1, <3>3, <3>5, <4>1, <4>3 DEF Booked, SentIsKnown
    <3> QED
      BY <3>6, <3>7, <3>8 DEF Booked
  <2> QED
    BY <2>4 DEF BooksInv
<1> QED
  BY <1>4, <1>5

-----------------------------------------------------------------------------
(* Results.                                                                  *)

LEMMA LateResultBooks ==
  ASSUME Inv, BooksInv, NEW s \in Streams, NEW o \in Orders, LateResult(s, o)
  PROVE  BooksInv'
<1>1. /\ owner[o] = Unowned /\ sent' = [sent EXCEPT ![s] = @ \ {o}]
      /\ UNCHANGED <<pending, running, owner, attached, inFlight, carries>>
  BY OwnedOrders DEF LateResult, jobVars
<1>2. \A t \in Streams : \A x \in Orders :
        /\ x \in sent'[t] => x \in sent[t]
        /\ x # o => (x \in sent'[t] <=> x \in sent[t])
  BY <1>1 DEF Inv, TypeInv, TypeOK, FleetTypeOK
<1>3. ASSUME NEW x \in Orders PROVE Booked(x)'
  <2>1. Booked(x) /\ (owner[x] # Unowned => owner[x][2] \in Workers)
    BY OwnedOrders DEF BooksInv
  <2>2. RunsSomewhere(x)'
    <3>1. owner[x] # Unowned => attached[owner[x][2]] \in Streams \cup {NoStream}
      BY <2>1 DEF Inv, TypeInv, TypeOK, FleetTypeOK
    <3> QED
      BY <1>1, <1>2, <2>1, <3>1 DEF Booked, RunsSomewhere
  <2>3. HoldsOwnSlot(x)' /\ SentIsKnown(x)'
    BY <1>1, <1>2, <2>1 DEF Booked, HoldsOwnSlot, SentIsKnown
  <2> QED
    BY <2>2, <2>3 DEF Booked
<1> QED
  BY <1>3 DEF BooksInv

LEMMA AnswerBooks ==
  ASSUME Inv, BooksInv, NEW s \in Streams, NEW o \in Orders, Answered(s, o)
  PROVE  BooksInv'
<1>1. PICK j \in Jobs, abort \in BOOLEAN : \E st, more :
        Settle(s, o, j, st, more, abort) /\ NewOrders(j, more)
  BY Zenon DEF Answered, AnsweredAs
<1>2. PICK st, more : Settle(s, o, j, st, more, abort) /\ NewOrders(j, more)
  BY <1>1
<1>3. /\ Key(o) = o /\ o \in Keys /\ owner[o] # Unowned /\ j = owner[o][1]
      /\ o \in sent[s] /\ o[2] = j
  BY <1>2, OwnedOrders DEF Settle, Answers
<1>4. owner[o][2] = WorkerOf[s] /\ carries[o] # {} /\ o \notin pending[j]
  BY <1>3 DEF BooksInv, Booked, SentIsKnown
<1>5. /\ sent' = [sent EXCEPT ![s] = @ \ {o}]
      /\ owner' = [owner EXCEPT ![Key(o)] = Unowned]
      /\ inFlight' = [inFlight EXCEPT ![WorkerOf[s]] = {r \in @ : Key(r) # Key(o)}]
      /\ running' = [running EXCEPT ![j] = {r \in running[j] : Key(r) # Key(o)}]
      /\ pending' = [pending EXCEPT ![j] = IF aborted[j] \/ abort THEN {}
                                          ELSE pending[j] \cup more]
      /\ attached' = attached
  BY <1>2, Zenon DEF Settle, Disown
<1>6. /\ \A x \in Orders : x # o => owner'[x] = owner[x]
      /\ owner'[o] = Unowned
  <2>1. \A x \in Orders : x \in Keys
    BY DEF Keys
  <2> QED
    BY <1>3, <1>5, <2>1 DEF Inv, TypeInv, TypeOK, FleetTypeOK
<1>7. \A t \in Streams : \A x \in Orders :
        /\ x \in sent'[t] => x \in sent[t]
        /\ x # o => (x \in sent'[t] <=> x \in sent[t])
  BY <1>5 DEF Inv, TypeInv, TypeOK, FleetTypeOK
<1>8. \A w \in Workers : \A x \in Orders :
        x \in inFlight'[w] <=> x \in inFlight[w] /\ (w = WorkerOf[s] => x # o)
  <2>1. \A x \in Orders : Key(x) = x
    BY OwnedOrders
  <2> QED
    BY <1>3, <1>5, <2>1 DEF Inv, TypeInv, TypeOK, FleetTypeOK
<1>9. \A x \in Orders : x \in running'[x[2]] => x \in running[x[2]] /\ x # o
  <2>1. \A x \in Orders : Key(x) = x /\ x[2] \in Jobs
    BY OwnedOrders
  <2> QED
    BY <1>3, <1>5, <2>1 DEF Inv, TypeInv, TypeOK, JobsTypeOK
<1>10. \A x \in Orders : carries[x] # {} =>
         carries'[x] # {} /\ (x \in pending'[x[2]] => x \in pending[x[2]])
  <2> TAKE x \in Orders
  <2> HAVE carries[x] # {}
  <2>1. x \notin more /\ carries'[x] = carries[x]
    BY <1>2 DEF NewOrders
  <2> QED
    BY <1>5, <2>1, OrderTypes DEF Inv, TypeInv, TypeOK, JobsTypeOK
<1>11. ASSUME NEW x \in Orders PROVE Booked(x)'
  <2>1. Booked(x) /\ (owner[x] # Unowned => owner[x][2] \in Workers)
    BY OwnedOrders DEF BooksInv
  <2>2. RunsSomewhere(x)'
    <3>1. owner[x] # Unowned => attached[owner[x][2]] \in Streams \cup {NoStream}
      BY <2>1 DEF Inv, TypeInv, TypeOK, FleetTypeOK
    <3> QED
      BY <1>5, <1>6, <1>7, <1>8, <1>9, <2>1, <3>1 DEF Booked, RunsSomewhere
  <2>3. HoldsOwnSlot(x)'
    <3> SUFFICES ASSUME NEW w \in Workers, x \in inFlight'[w]
                 PROVE  owner'[x] # Unowned /\ owner'[x][2] = w
      BY DEF HoldsOwnSlot
    <3>1. owner[x] # Unowned /\ owner[x][2] = w
      BY <1>8, <2>1 DEF Booked, HoldsOwnSlot
    <3> QED
      BY <1>4, <1>6, <1>8, <3>1
  <2>4. SentIsKnown(x)'
    BY <1>6, <1>7, <1>10, <2>1 DEF Booked, SentIsKnown
  <2> QED
    BY <2>2, <2>3, <2>4 DEF Booked
<1> QED
  BY <1>11 DEF BooksInv

-----------------------------------------------------------------------------
(* All steps.                                                                *)

LEMMA SubmissionBooks == Inv /\ BooksInv /\ Submission => BooksInv'
<1> SUFFICES ASSUME Inv, BooksInv, Submission PROVE BooksInv'
  OBVIOUS
<1>1. ASSUME NEW cl \in Clients, NEW cancel \in BOOLEAN, TryReserve(cl, cancel)
      PROVE  BooksInv'
  BY <1>1, TryReserveBooks
<1>2. ASSUME NEW cl \in Clients, RejectSubmission(cl) PROVE BooksInv'
  BY <1>2, QuietBooks DEF RejectSubmission, jobVars, fleetVars
<1>3. ASSUME NEW cl \in Clients, NEW c \in Candidates, StoreSubmission(cl, c)
      PROVE  BooksInv'
  BY <1>3, QuietBooks DEF StoreSubmission, jobVars, fleetVars
<1>4. ASSUME NEW sub \in submits, NEW j \in Jobs, NEW ladder \in Ladders(sub.cand),
             EnqueuePlacement(sub, j, ladder)
      PROVE  BooksInv'
  <2> DEFINE info == [sub EXCEPT !.client = IF Metered THEN @ ELSE NoClient]
             A == Superseded(sub.cand)
             groups == PlacementGroups \cup ladder
  <2>1. Enqueue(j, info, groups, Archive, A)
    BY <1>4 DEF EnqueuePlacement
  <2>2. A \in SUBSET Jobs /\ \A i \in A : state[i] \in Open
    BY DEF Superseded
  <2>3. Archive \in BOOLEAN /\ groups \in SUBSET Groups
    BY DEF SchedulerAssumption, Ladders, LadderGroups
  <2> HIDE DEF info, A, groups
  <2> QED
    BY <2>1, <2>2, <2>3, EnqueueBooks
<1>5. ASSUME NEW c \in Candidates, NEW g \in Groups, NEW j \in Jobs,
             EnqueueMatch(c, g, j)
      PROVE  BooksInv'
  <2>1. PICK info : Enqueue(j, info, {g}, FALSE, {}) /\ FALSE \in BOOLEAN /\ {g} \in SUBSET Groups
    BY <1>5 DEF EnqueueMatch
  <2> QED
    BY <2>1, EnqueueBooks
<1> QED
  BY <1>1, <1>2, <1>3, <1>4, <1>5 DEF Submission

LEMMA NextBooks ==
  OneStreamEach => (Inv /\ BooksInv /\ [Next]_vars => BooksInv')
<1> SUFFICES ASSUME OneStreamEach, Inv, BooksInv, [Next]_vars PROVE BooksInv'
  OBVIOUS
<1>1. CASE UNCHANGED vars
  BY <1>1, QuietBooks DEF vars, jobVars, fleetVars
<1>2. CASE Dispatch
  <2>1. CASE DropSpentJob \/ NoRoom \/ EndOfPass
    BY <2>1, QuietBooks DEF DropSpentJob, NoRoom, EndOfPass, jobVars, fleetVars
  <2> QED
    BY <1>2, <2>1, SendOrderBooks, NoSendFails DEF Dispatch, Inv, LedgerInv
<1>3. CASE Fleet
  <2>1. ASSUME NEW s \in Streams, Break(s) PROVE BooksInv'
    BY <2>1, QuietBooks DEF Break, jobVars
  <2>2. ASSUME NEW s \in Streams, NEW o \in Orders, AwaitedResult(s, o) PROVE BooksInv'
    BY <2>2, ResultAnswers, AnswerBooks
  <2> QED
    BY <1>3, <2>1, <2>2, AddWorkerBooks, RemoveWorkerBooks, LateResultBooks
    DEF Fleet, OnResult
<1> QED
  BY <1>1, <1>2, <1>3, SubmissionBooks DEF Next

(* Whatever is submitted, answered or cancelled and whichever worker leaves  *)
(* or comes back, every running order is owned by the worker whose slot it   *)
(* occupies and that really has it, and no slot is held by anything else.    *)
THEOREM LedgersAlwaysAgree ==
  ~ MayBreak /\ OneStreamEach => (SafetySpec => []LedgersAgree)
<1> SUFFICES ASSUME ~ MayBreak, OneStreamEach PROVE SafetySpec => []LedgersAgree
  OBVIOUS
<1>1. Init => Inv /\ BooksInv
  BY InitType, InitJobs, InitLedgerInv, InitBooks DEF Inv
<1>2. Inv /\ BooksInv /\ [Next]_vars => Inv' /\ BooksInv'
  BY NextSimulates, NextBooks
<1> QED
  BY <1>1, <1>2, BooksAgree, PTL DEF SafetySpec

-----------------------------------------------------------------------------
(* No order waits while a worker has room.                                   *)

(* A pass that has gone past a job without sending anything found every      *)
(* worker full.                                                              *)
Full == \A w \in Attached : Room(w) <= 0
PassInv == pc = "scan" /\ ~ progress /\ cursor > 1 => Full

(* The handlers that do not dispatch leave the orders and the slots alone.   *)
LEMMA QuietIdle ==
  ASSUME NoIdleSlot, pc' = pc, attached' = attached, inFlight' = inFlight,
         \A j \in Jobs : pending[j] = {} \/ aborted[j] => pending'[j] = {} \/ aborted'[j]
  PROVE  NoIdleSlot'
BY DEF NoIdleSlot, Idle, Attached, Room

LEMMA QuietPass ==
  ASSUME PassInv, UNCHANGED <<attached, inFlight, pc, cursor, progress>>
  PROVE  PassInv'
BY DEF PassInv, Full, Attached, Room

LEMMA EnqueueIdle ==
  ASSUME Inv, PassInv, NoIdleSlot, NEW j \in Jobs, NEW info, NEW groups, NEW first, NEW A,
         Enqueue(j, info, groups, first, A), pc = "idle",
         A = {} \/ first \/ \E g \in groups : Runnable(g)
  PROVE  PassInv' /\ NoIdleSlot'
<1> DEFINE orders == IF first THEN {BuildOrder(j, 1)}
                     ELSE {MatchOrder(j, g) : g \in {g \in groups : Runnable(g)}}
<1>1. /\ DropOrders(A)
      /\ pending' = [PendingWithout(A) EXCEPT ![j] = orders]
      /\ aborted' = AbortedWith(A)
      /\ attached' = attached
      /\ IF orders = {} THEN UNCHANGED loopVars ELSE StartDispatch
  BY DEF Enqueue
<1>2. orders = {} => A = {}
  OBVIOUS
<1> HIDE DEF orders
<1>3. CASE orders = {}
  <2>1. \A i \in Jobs : (pending[i] = {} \/ aborted[i]) => (pending'[i] = {} \/ aborted'[i])
    BY <1>1, <1>3 DEF PendingWithout, AbortedWith
  <2>2. inFlight' = inFlight
    <3>1. inFlight \in [Workers -> SUBSET Orders]
      BY DEF Inv, TypeInv, TypeOK, FleetTypeOK
    <3>2. \A w \in Workers : Erased(w, A) = {}
      BY <1>2, <1>3 DEF Erased, AbortedKeys, AbortedOrders
    <3>3. inFlight' = [w \in Workers |-> inFlight[w] \ Erased(w, A)]
      BY <1>1 DEF DropOrders
    <3> QED
      BY <3>1, <3>2, <3>3
  <2>3. UNCHANGED <<pc, cursor, progress>>
    BY <1>1, <1>3 DEF loopVars
  <2> QED
    BY <1>1, <2>1, <2>2, <2>3, QuietIdle, QuietPass
<1>4. CASE orders # {}
  BY <1>1, <1>4 DEF StartDispatch, PassInv, NoIdleSlot, Idle
<1> QED
  BY <1>3, <1>4

(* The work of a pass.                                                       *)
LEMMA DispatchIdle ==
  ASSUME Inv, QueueInv, SlotsInv, PassInv, NoIdleSlot, Dispatch
  PROVE  PassInv' /\ NoIdleSlot'
<1>1. /\ queue \in Seq(Jobs) /\ cursor \in Nat \ {0} /\ progress \in BOOLEAN
      /\ aborted \in [Jobs -> BOOLEAN]
  BY DEF Inv, TypeInv, TypeOK, PassTypeOK, JobsTypeOK
<1>2. CASE DropSpentJob
  BY <1>2, QuietPass DEF DropSpentJob, Scanning, NoIdleSlot, Idle, fleetVars, loopVars
<1>3. CASE NoRoom
  BY <1>3 DEF NoRoom, Scanning, NoIdleSlot, Idle, fleetVars, PassInv, Full, Attached, Room
<1>4. ASSUME NEW w \in Workers, NEW o \in Orders, SendOrder(w, o)
      PROVE  PassInv' /\ NoIdleSlot'
  BY <1>4 DEF SendOrder, Scanning, NoIdleSlot, Idle, PassInv
<1>5. CASE EndOfPass
  <2>1. /\ pc = "scan" /\ cursor > Len(queue)
        /\ UNCHANGED <<pending, aborted, attached, inFlight>>
    BY <1>5 DEF EndOfPass, jobVars, fleetVars
  <2>2. CASE progress
    <3>1. pc' = pc /\ cursor' = 1
      BY <1>5, <2>2 DEF EndOfPass
    <3> QED
      BY <2>1, <3>1 DEF PassInv, NoIdleSlot, Idle
  <2>3. CASE ~ progress
    <3>1. pc' = "idle"
      BY <1>5, <2>3 DEF EndOfPass
    <3>2. CASE cursor > 1
      <4>1. Full
        BY <2>1, <2>3, <3>2 DEF PassInv
      <4>2. \A w \in Attached : ~ (Room(w) > 0)
        BY <4>1, SlotsAreNumbers DEF Full, Attached
      <4>3. ~ \E w \in Attached : Room(w) > 0
        BY <4>2
      <4>4. Attached' = Attached /\ \A w \in Workers : Room(w)' = Room(w)
        BY <2>1 DEF Attached, Room
      <4> QED
        BY <3>1, <4>3, <4>4 DEF PassInv, NoIdleSlot, Attached
    <3>3. CASE cursor = 1
      <4>1. Range(queue) = {}
        <5>1. Len(queue) \in Nat /\ DOMAIN queue = 1 .. Len(queue)
          BY <1>1, LenProperties
        <5>2. DOMAIN queue = {}
          BY <5>1, <2>1, <3>3
        <5> QED
          BY <5>2 DEF Range
      <4>2. \A j \in Jobs : pending[j] = {} \/ aborted[j]
        BY <4>1 DEF QueueInv, Waits
      <4> QED
        BY <2>1, <3>1, <4>2 DEF PassInv, NoIdleSlot
    <3> QED
      BY <1>1, <3>2, <3>3
  <2> QED
    BY <2>2, <2>3
<1>6. ASSUME NEW w \in Workers, NEW o \in Orders
      PROVE  ~ SendFails(w, o)
  BY NoSendFails DEF Inv, LedgerInv
<1> QED
  BY <1>2, <1>3, <1>4, <1>5, <1>6 DEF Dispatch

(* A new job always has an order to give out: its build, or a match of the   *)
(* problem's own placement, which has no rival to wait for.                  *)
AlwaysWork == Archive \/ PlacementGroups # {}

LEMMA SubmissionIdle ==
  ASSUME ~ MayCancel, AlwaysWork, Inv, PassInv, NoIdleSlot, Submission
  PROVE  PassInv' /\ NoIdleSlot'
<1>1. ASSUME NEW cl \in Clients, NEW cancel \in BOOLEAN, TryReserve(cl, cancel)
      PROVE  PassInv' /\ NoIdleSlot'
  <2>1. /\ DropOrders({}) /\ pending' = PendingWithout({}) /\ aborted' = AbortedWith({})
        /\ attached' = attached /\ UNCHANGED <<pc, cursor, progress>>
    BY <1>1 DEF TryReserve, loopVars
  <2>2. inFlight' = inFlight
    <3>1. inFlight \in [Workers -> SUBSET Orders]
      BY DEF Inv, TypeInv, TypeOK, FleetTypeOK
    <3>2. \A w \in Workers : Erased(w, {}) = {}
      BY DEF Erased, AbortedKeys, AbortedOrders
    <3>3. inFlight' = [w \in Workers |-> inFlight[w] \ Erased(w, {})]
      BY <2>1 DEF DropOrders
    <3> QED
      BY <3>1, <3>2, <3>3
  <2>3. \A j \in Jobs : pending[j] = {} \/ aborted[j] => pending'[j] = {} \/ aborted'[j]
    BY <2>1 DEF PendingWithout, AbortedWith
  <2> QED
    BY <2>1, <2>2, <2>3, QuietIdle, QuietPass
<1>2. ASSUME NEW cl \in Clients, RejectSubmission(cl)
      PROVE  PassInv' /\ NoIdleSlot'
  BY <1>2, QuietIdle, QuietPass DEF RejectSubmission, jobVars, fleetVars, loopVars
<1>3. ASSUME NEW cl \in Clients, NEW c \in Candidates, StoreSubmission(cl, c)
      PROVE  PassInv' /\ NoIdleSlot'
  BY <1>3, QuietIdle, QuietPass DEF StoreSubmission, jobVars, fleetVars, loopVars
<1>4. ASSUME NEW sub \in submits, NEW j \in Jobs, NEW ladder, EnqueuePlacement(sub, j, ladder)
      PROVE  PassInv' /\ NoIdleSlot'
  <2>1. Archive \/ \E g \in PlacementGroups \cup ladder : Runnable(g)
    <3>1. \A g \in PlacementGroups : Runnable(g)
      BY DEF Runnable, SchedulerAssumption
    <3> QED
      BY <3>1 DEF AlwaysWork
  <2>2. PICK info : Enqueue(j, info, PlacementGroups \cup ladder, Archive,
                            Superseded(sub.cand))
    BY <1>4 DEF EnqueuePlacement
  <2>3. pc = "idle"
    BY <1>4 DEF EnqueuePlacement
  <2> QED
    BY <2>1, <2>2, <2>3, EnqueueIdle
<1>5. ASSUME NEW c \in Candidates, NEW g \in Groups, NEW j \in Jobs, EnqueueMatch(c, g, j)
      PROVE  PassInv' /\ NoIdleSlot'
  <2>1. PICK info : Enqueue(j, info, {g}, FALSE, {})
    BY <1>5 DEF EnqueueMatch
  <2>2. pc = "idle"
    BY <1>5 DEF EnqueueMatch
  <2> QED
    BY <2>1, <2>2, EnqueueIdle
<1> QED
  BY <1>1, <1>2, <1>3, <1>4, <1>5 DEF Submission

LEMMA FleetIdle ==
  ASSUME ~ MayBreak, Inv, PassInv, NoIdleSlot, Fleet
  PROVE  PassInv' /\ NoIdleSlot'
<1>1. StartDispatch => PassInv' /\ NoIdleSlot'
  BY DEF StartDispatch, PassInv, NoIdleSlot, Idle
<1>2. ASSUME NEW s \in Streams, RemoveWorker(s)
      PROVE  PassInv' /\ NoIdleSlot'
  <2>1. CASE WorkerOf[s] \in Attached
    BY <1>1, <1>2, <2>1 DEF RemoveWorker
  <2>2. CASE WorkerOf[s] \notin Attached
    BY <1>2, <2>2, QuietIdle, QuietPass DEF RemoveWorker, loopVars
  <2> QED
    BY <2>1, <2>2
<1>3. ASSUME NEW s \in Streams, AddWorker(s)
      PROVE  PassInv' /\ NoIdleSlot'
  BY <1>1, <1>3 DEF AddWorker
<1>4. ASSUME NEW s \in Streams, NEW o \in Orders, LateResult(s, o)
      PROVE  PassInv' /\ NoIdleSlot'
  <2>1. UNCHANGED <<pending, aborted, attached, inFlight, pc, cursor, progress>>
    BY <1>4 DEF LateResult, jobVars, loopVars
  <2> QED
    BY <2>1, QuietIdle, QuietPass
<1>5. ASSUME NEW s \in Streams, NEW o \in Orders, AwaitedResult(s, o)
      PROVE  StartDispatch
  <2>1. \E j \in Jobs : \E st, more, abort : Settle(s, o, j, st, more, abort)
    BY <1>5, ResultSettles
  <2> QED
    BY <2>1 DEF Settle
<1>6. ASSUME NEW s \in Streams
      PROVE  ~ Break(s)
  BY DEF Break
<1> QED
  BY <1>1, <1>2, <1>3, <1>4, <1>5, <1>6 DEF Fleet, OnResult

(* When dispatching is over no order waits beside a free slot, for every     *)
(* fleet of workers that come and go: one pass after another until nothing   *)
(* moves is enough (scheduler.cc 416-467).                                   *)
THEOREM NoSlotIsEverIdle ==
  ~ MayBreak /\ ~ MayCancel /\ AlwaysWork => (SafetySpec => []NoIdleSlot)
<1> SUFFICES ASSUME ~ MayBreak, ~ MayCancel, AlwaysWork
             PROVE  SafetySpec => []NoIdleSlot
  OBVIOUS
<1> DEFINE I == Inv /\ QueueInv /\ SlotsInv /\ PassInv /\ NoIdleSlot
<1>1. Init => I
  <2>1. Init => QueueInv /\ PassInv /\ NoIdleSlot
    BY DEF Init, QueueInv, Waits, PassInv, NoIdleSlot
  <2> QED
    BY <2>1, InitType, InitJobs, InitLedgerInv, InitSlots DEF Inv
<1>2. I /\ [Next]_vars => I'
  <2> SUFFICES ASSUME Inv, QueueInv, SlotsInv, PassInv, NoIdleSlot, [Next]_vars
               PROVE  I'
    OBVIOUS
  <2>1. Inv' /\ QueueInv' /\ SlotsInv'
    BY NextSimulates, QueueIsKept, SlotsAreKept DEF Inv
  <2>2. CASE UNCHANGED vars
    BY <2>1, <2>2, QuietIdle, QuietPass DEF vars, jobVars, fleetVars, loopVars
  <2>3. CASE Next
    BY <2>1, <2>3, SubmissionIdle, DispatchIdle, FleetIdle DEF Next
  <2> QED
    BY <2>1, <2>2, <2>3
<1>3. I => NoIdleSlot
  OBVIOUS
<1> QED
  BY <1>1, <1>2, <1>3, PTL DEF SafetySpec

=============================================================================
