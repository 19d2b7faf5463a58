------------------------------ MODULE Scheduler ------------------------------
(***************************************************************************)
(* The coordinator's scheduler (server/scheduler.cc) with the calls that   *)
(* reach it: submissions (server/arena_service.cc), matches, and the       *)
(* worker streams of server/fleet_service.cc.                              *)
(*                                                                         *)
(* Every public method holds mutex_ from start to end and is one step,     *)
(* except that the loop of DispatchLocked, with which most of them end, is *)
(* one step per queued job: whether a Send works is decided during the     *)
(* loop by the stream's own thread.  pc = "scan" is the mutex held by that *)
(* loop; nothing but the loop and the streams can move until it is         *)
(* "idle" again, so states with pc = "scan" are seen by no one.            *)
(*                                                                         *)
(* An order's contents are abstracted to its name: <<"build", j, n>> is    *)
(* job j's n-th build order, <<"match", j, g>> its match against group g   *)
(* of opponents.  A message moved out of a job's deque by a failed Send is *)
(* an empty order from then on (emptied); its order id is "", here Blank.  *)
(*                                                                         *)
(* A definition marked "slip" is a wrong version of the one after it, kept *)
(* to see that the properties would notice it; no action uses it.          *)
(***************************************************************************)
EXTENDS CandidateStore, Sequences, SequencesExt

CONSTANTS
  Clients,          \* participants; their ids are the candidates' authors
  NoClient,         \* the empty client id: not metered
  Metered,          \* a client registry is configured
  Author,           \* candidate -> the participant it belongs to
  Builtins,         \* candidates the store never holds: a swiss match between
                    \* builtins has one as its first side
  Groups,           \* whom a match order is against: players - 1 opponents
  Rivals,           \* group -> the opponents in it that are candidates, not
                    \* builtins; one at most, the games here have two seats
  PlacementGroups,  \* the groups of config.placement_opponents()
  LadderSize,       \* config.ladder_size()
  Archive,          \* artifacts_ # nullptr: build first, then play
  Matches,          \* the matchmaker or the swiss run calls EnqueueMatch
  MaxActive,        \* quota.max_active_evaluations()
  MaxQueued,        \* quota.max_queued_jobs()
  MayCancel,        \* submissions may set cancel_running
  Workers,          \* worker ids
  Slots,            \* worker id -> FleetWorker::slots()
  Streams,          \* Attach calls that may be in progress
  NoStream,
  WorkerOf,         \* stream -> the worker id in its hello
  MayBreak,         \* a Send may fail on a stream that can still be read: its
                    \* Write did, or its outbox is full
  MaxJobs           \* bound: jobs ever enqueued

Jobs == 1 .. MaxJobs
MaxAttempts == 3
Orders == ({"build"} \X Jobs \X (1 .. MaxAttempts)) \cup
          ({"match"} \X Jobs \X Groups)
BuildOrder(j, n) == <<"build", j, n>>
MatchOrder(j, g) == <<"match", j, g>>

Blank == <<"", 0, 0>>
Keys == Orders \cup {Blank}
Unowned == <<0, 0>>

ASSUME SchedulerAssumption ==
  /\ MaxJobs \in Nat /\ MaxActive \in Nat \ {0} /\ MaxQueued \in Nat \ {0}
  /\ LadderSize \in Nat
  /\ {Metered, Archive, Matches, MayCancel, MayBreak} \subseteq BOOLEAN
  /\ NoClient \notin Clients /\ Candidates # {}
  /\ Author \in [Candidates -> Clients]
  /\ Builtins \subseteq Candidates
  /\ Rivals \in [Groups -> SUBSET (Candidates \ Builtins)]
  /\ PlacementGroups \subseteq Groups
  /\ \A g \in Groups : \A r, q \in Rivals[g] : r = q       \* two seats
  /\ \A g \in PlacementGroups : Rivals[g] = {}
  /\ Slots \in [Workers -> Nat \ {0}]
  /\ WorkerOf \in [Streams -> Workers]
  /\ NoStream \notin Streams

VARIABLES
  \* jobs_
  job,         \* [client, cand, rev]: whom it is metered against, whom it is for
  state,       \* status.state()
  pending,     \* orders not yet dispatched
  running,     \* orders dispatched and not answered, keyed by order id
  aborted,
  afterBuild,  \* after_build: groups to play once the build order succeeded
  attempts,    \* build_attempts
  logged,      \* the state the job log holds
  \* the rest of the scheduler
  queue,       \* queue_: ids of jobs with undispatched orders
  attached,    \* workers_: the stream behind a worker id, or NoStream
  inFlight,    \* workers_[w].in_flight
  owner,       \* order_owner_: order id -> <<job, worker id>>
  reserved,    \* reserved_: slots granted and not yet a job
  pc, cursor, progress,   \* DispatchLocked's loop
  \* around it
  submits,     \* Submit calls between Create and EnqueuePlacement
  link,        \* stream -> "off", "up", or "broken": Send fails
  sent,        \* stream -> orders its worker has been sent and not answered
  emptied,     \* orders a failed Send moved out of their deque
  carries,     \* order -> the <<candidate, revision>> pairs it builds or plays
  \* history
  told,        \* job -> calls of on_concluded
  recorded,    \* order -> results counted into the standings
  proven       \* <<candidate, revision>> pairs some worker has built

jobVars == <<job, state, pending, running, aborted, afterBuild, attempts, logged>>
fleetVars == <<attached, inFlight, owner, link, sent>>
loopVars == <<pc, cursor, progress>>
history == <<told, recorded, proven>>
vars == <<storeVars, jobVars, queue, fleetVars, reserved, loopVars, submits,
          emptied, carries, history>>

JobStates == {"NONE", "QUEUED", "RUNNING", "DONE", "FAILED", "CANCELLED"}
Open == {"QUEUED", "RUNNING"}
ClientIds == Clients \cup {NoClient}
Copies == Candidates \X Revs
NoJob == [client |-> NoClient, cand |-> CHOOSE c \in Candidates : TRUE, rev |-> 0]

JobsTypeOK ==
  /\ job \in [Jobs -> [client : ClientIds, cand : Candidates, rev : Revs]]
  /\ state \in [Jobs -> JobStates]
  /\ pending \in [Jobs -> SUBSET Orders]
  /\ running \in [Jobs -> SUBSET Orders]
  /\ aborted \in [Jobs -> BOOLEAN]
  /\ afterBuild \in [Jobs -> SUBSET Groups]
  /\ attempts \in [Jobs -> Nat]
  /\ logged \in [Jobs -> JobStates]

FleetTypeOK ==
  /\ attached \in [Workers -> Streams \cup {NoStream}]
  /\ inFlight \in [Workers -> SUBSET Orders]
  /\ owner \in [Keys -> (Jobs \X Workers) \cup {Unowned}]
  /\ link \in [Streams -> {"off", "up", "broken"}]
  /\ sent \in [Streams -> SUBSET Orders]

PassTypeOK ==
  /\ queue \in Seq(Jobs)
  /\ pc \in {"idle", "scan"} /\ cursor \in Nat \ {0} /\ progress \in BOOLEAN

SubmitTypeOK ==
  /\ reserved \in [Clients -> Nat]
  /\ submits \in SUBSET [client : Clients, cand : Candidates, rev : Revs]

HistoryTypeOK ==
  /\ emptied \in SUBSET Orders
  /\ carries \in [Orders -> SUBSET Copies]
  /\ told \in [Jobs -> Nat]
  /\ recorded \in [Orders -> Nat]
  /\ proven \in SUBSET Copies

TypeOK ==
  /\ StoreTypeOK /\ JobsTypeOK /\ FleetTypeOK /\ PassTypeOK /\ SubmitTypeOK
  /\ HistoryTypeOK

Init ==
  /\ StoreInit
  /\ job = [j \in Jobs |-> NoJob]
  /\ state = [j \in Jobs |-> "NONE"]
  /\ pending = [j \in Jobs |-> {}]
  /\ running = [j \in Jobs |-> {}]
  /\ aborted = [j \in Jobs |-> FALSE]
  /\ afterBuild = [j \in Jobs |-> {}]
  /\ attempts = [j \in Jobs |-> 0]
  /\ logged = [j \in Jobs |-> "NONE"]
  /\ queue = <<>>
  /\ attached = [w \in Workers |-> NoStream]
  /\ inFlight = [w \in Workers |-> {}]
  /\ owner = [k \in Keys |-> Unowned]
  /\ reserved = [cl \in Clients |-> 0]
  /\ pc = "idle" /\ cursor = 1 /\ progress = FALSE
  /\ submits = {}
  /\ link = [s \in Streams |-> "off"]
  /\ sent = [s \in Streams |-> {}]
  /\ emptied = {}
  /\ carries = [o \in Orders |-> {}]
  /\ told = [j \in Jobs |-> 0]
  /\ recorded = [o \in Orders |-> 0]
  /\ proven = {}

-----------------------------------------------------------------------------
(* Names and small helpers.                                                 *)

Key(o) == IF o \in emptied THEN Blank ELSE o
IsBuild(o) == o[1] = "build" /\ o \notin emptied
NextJob(j) == state[j] = "NONE" /\ \A i \in 1 .. j - 1 : state[i] # "NONE"
Attached == {w \in Workers : attached[w] # NoStream}

Room(w) == Slots[w] - Cardinality(inFlight[w])
Emptiest(w) == w \in Attached /\ \A v \in Attached : Room(v) <= Room(w)

(* PersistLocked, at the end of a handler that leaves job j in state st.      *)
PersistBeforeVerdict(j, st) == logged' = [logged EXCEPT ![j] = state[j]]  \* slip
Persist(j, st) == logged' = [logged EXCEPT ![j] = st]

StartDispatch == pc' = "scan" /\ cursor' = 1 /\ progress' = FALSE

(* MakeOrderLocked's refusal: every rival of the group must be READY.       *)
Runnable(g) == \A r \in Rivals[g] : live[r].status = "READY"
CopiesOf(c, rev, g) == {<<c, rev>>} \cup {<<r, live[r].rev>> : r \in Rivals[g]}

-----------------------------------------------------------------------------
(* AbortJobLocked over a set of jobs, as the values it leaves behind.       *)

AbortedOrders(A) == UNION {running[j] : j \in A}
AbortedKeys(A) == {Key(o) : o \in AbortedOrders(A)}

ErasedNothing(w, A) == {}                                              \* slip
Erased(w, A) == {o \in inFlight[w] : Key(o) \in AbortedKeys(A) /\
                   owner[Key(o)] # Unowned /\ owner[Key(o)][2] = w}

PendingKept(A) == pending                                              \* slip
PendingWithout(A) == [j \in Jobs |-> IF j \in A THEN {} ELSE pending[j]]
RunningWithout(A) == [j \in Jobs |-> IF j \in A THEN {} ELSE running[j]]
AbortedWith(A) == [j \in Jobs |-> aborted[j] \/ j \in A]
CancelledIfQueued(f, A) ==                                             \* slip
  [j \in Jobs |-> IF j \in A /\ f[j] = "QUEUED" THEN "CANCELLED" ELSE f[j]]
Cancelled(f, A) == [j \in Jobs |-> IF j \in A THEN "CANCELLED" ELSE f[j]]
DropOrders(A) ==
  /\ owner' = [k \in Keys |-> IF k \in AbortedKeys(A) THEN Unowned ELSE owner[k]]
  /\ inFlight' = [w \in Workers |-> inFlight[w] \ Erased(w, A)]

-----------------------------------------------------------------------------
(* Submissions: ArenaService::Submit is three steps, each under a lock of   *)
(* its own: reserve, store, enqueue.                                        *)

(* The client's unfinished jobs, and the two counts TryReserve meters.      *)
Mine(cl) == {j \in Jobs : state[j] \in Open /\ job[j].client = cl}
InState(A, st) == Cardinality({j \in A : state[j] = st})

(* The quota, over the jobs that count and the slots granted before.         *)
WithinQuotaOfJobs(cl, counted) ==                                      \* slip
  InState(counted, "RUNNING") < MaxActive /\ InState(counted, "QUEUED") < MaxQueued
WithinQuota(cl, counted) ==
  /\ InState(counted, "RUNNING") < MaxActive
  /\ InState(counted, "QUEUED") + reserved[cl] < MaxQueued

(* TryReserve, for a metered client.  With cancel_running every unfinished   *)
(* job of the client is aborted first, whatever the quota says then.         *)
TryReserve(cl, cancel) ==
  LET A == IF cancel THEN Mine(cl) ELSE {}
  IN  /\ pc = "idle" /\ Metered /\ (cancel => MayCancel)
      /\ DropOrders(A)
      /\ pending' = PendingWithout(A) /\ running' = RunningWithout(A)
      /\ state' = Cancelled(state, A) /\ logged' = Cancelled(logged, A)
      /\ aborted' = AbortedWith(A)
      /\ reserved' = IF WithinQuota(cl, Mine(cl) \ A)
                     THEN [reserved EXCEPT ![cl] = @ + 1] ELSE reserved
      /\ UNCHANGED <<storeVars, job, afterBuild, attempts, queue, attached, link,
                     sent, loopVars, submits, emptied, carries, history>>

(* A Submit call that holds a reservation and has not stored anything yet.   *)
Holding(cl) == reserved[cl] > Cardinality({s \in submits : s.client = cl})

(* The store refuses the submission: the reservation is handed back.         *)
RejectSubmission(cl) ==
  /\ pc = "idle" /\ Metered /\ Holding(cl)
  /\ reserved' = [reserved EXCEPT ![cl] = @ - 1]
  /\ UNCHANGED <<storeVars, jobVars, queue, fleetVars, loopVars, submits,
                 emptied, carries, history>>

(* CandidateStore::Create.  The store has a mutex of its own, so this can    *)
(* happen while the scheduler's is held.                                     *)
StoreSubmission(cl, c) ==
  /\ c \notin Builtins /\ Author[c] = cl /\ (Metered => Holding(cl))
  /\ Create(c)
  /\ submits' = submits \cup {[client |-> cl, cand |-> c, rev |-> revs[c] + 1]}
  /\ UNCHANGED <<jobVars, queue, fleetVars, reserved, loopVars, emptied, carries,
                 history>>

(* EnqueueLocked for job j once the jobs A have been aborted.  Groups that    *)
(* are not runnable are skipped; with nothing left the job fails at once, and *)
(* DispatchLocked is not reached.                                             *)
Enqueue(j, info, groups, buildFirst, A) ==
  LET playable == {g \in groups : Runnable(g)}
      orders == IF buildFirst THEN {BuildOrder(j, 1)}
                ELSE {MatchOrder(j, g) : g \in playable}
      own == <<info.cand, info.rev>>
  IN  /\ NextJob(j)
      /\ DropOrders(A)
      /\ job' = [job EXCEPT ![j] = info]
      /\ pending' = [PendingWithout(A) EXCEPT ![j] = orders]
      /\ running' = RunningWithout(A)
      /\ aborted' = AbortedWith(A)
      /\ afterBuild' = [afterBuild EXCEPT ![j] = IF buildFirst THEN groups ELSE {}]
      /\ carries' = [o \in Orders |->
           IF o \notin orders THEN carries[o]
           ELSE IF buildFirst THEN {own} ELSE CopiesOf(info.cand, info.rev, o[3])]
      /\ IF orders = {}
         THEN /\ state' = [Cancelled(state, A) EXCEPT ![j] = "FAILED"]
              /\ logged' = [Cancelled(logged, A) EXCEPT ![j] = "FAILED"]
              /\ told' = [told EXCEPT ![j] = @ + 1]
              /\ UNCHANGED <<queue, loopVars>>
         ELSE /\ state' = [Cancelled(state, A) EXCEPT ![j] = "QUEUED"]
              /\ logged' = [Cancelled(logged, A) EXCEPT ![j] = "QUEUED"]
              /\ queue' = Append(queue, j)
              /\ StartDispatch
              /\ UNCHANGED told
      /\ UNCHANGED <<storeVars, attempts, attached, link, sent, emptied, recorded,
                     proven>>

(* LadderLocked: LadderSize of the READY rivals by other authors, or all of   *)
(* them if they are fewer; Rank(0) lists an entry whether or not it has       *)
(* played.  Which ranks are picked is left open.                              *)
LadderGroups(c) ==
  {g \in Groups : Rivals[g] # {} /\ Runnable(g) /\
                  \A r \in Rivals[g] : Author[r] # Author[c]}
Ladders(c) == {L \in SUBSET LadderGroups(c) :
  \/ Cardinality(L) = LadderSize
  \/ Cardinality(L) < LadderSize /\ L = LadderGroups(c)}

(* The work a new job of the candidate replaces.                              *)
Superseded(c) == {i \in Jobs : state[i] \in Open /\ job[i].cand = c}

(* EnqueuePlacement: the reservation becomes a job, which supersedes every    *)
(* unfinished job for the same candidate.                                     *)
EnqueuePlacement(sub, j, ladder) ==
  /\ pc = "idle" /\ sub \in submits
  /\ submits' = submits \ {sub}
  /\ reserved' = IF Metered THEN [reserved EXCEPT ![sub.client] = @ - 1]
                 ELSE reserved
  /\ Enqueue(j, [sub EXCEPT !.client = IF Metered THEN @ ELSE NoClient],
             PlacementGroups \cup ladder, Archive,
             Superseded(sub.cand))

(* What a caller of EnqueueMatch may hold for candidate c: a copy that Get     *)
(* returned at some time, replaced since or not; a builtin has none.          *)
ReadBefore(c) == IF c \in Builtins THEN {0} ELSE 1 .. live[c].rev

(* EnqueueMatch, as the matchmaker and the swiss run call it: one group, and  *)
(* metered against no one.  Nothing asks for the candidate's status: it may   *)
(* have been blamed or replaced since it was drawn.                           *)
EnqueueMatch(c, g, j) ==
  /\ pc = "idle" /\ Matches /\ c \notin Rivals[g]
  /\ \E rev \in ReadBefore(c) :
       Enqueue(j, [client |-> NoClient, cand |-> c, rev |-> rev], {g}, FALSE, {})
  /\ UNCHANGED <<reserved, submits>>

-----------------------------------------------------------------------------
(* DispatchLocked.  Each queued job in turn gives one order to the emptiest  *)
(* worker; the pass is repeated while it made progress.  Which order is at   *)
(* the front of a job's deque is left open.                                  *)

Scanned == queue[cursor]
Scanning == pc = "scan" /\ cursor <= Len(queue)
Spent(j) == pending[j] = {} \/ aborted[j]

DropSpentJob ==
  /\ Scanning /\ Spent(Scanned)
  /\ queue' = RemoveAt(queue, cursor)
  /\ UNCHANGED <<storeVars, jobVars, fleetVars, reserved, loopVars, submits,
                 emptied, carries, history>>

NoRoom ==
  /\ Scanning /\ ~ Spent(Scanned)
  /\ \A w \in Attached : Room(w) <= 0
  /\ cursor' = cursor + 1
  /\ UNCHANGED <<storeVars, jobVars, queue, fleetVars, reserved, pc, progress,
                 submits, emptied, carries, history>>

(* The running map is keyed by order id: an empty order replaces another.    *)
SendOrder(w, o) ==
  LET j == Scanned
      last == pending[j] = {o}
  IN  /\ Scanning /\ ~ Spent(j) /\ o \in pending[j]
      /\ Emptiest(w) /\ Room(w) > 0 /\ link[attached[w]] = "up"
      /\ pending' = [pending EXCEPT ![j] = @ \ {o}]
      /\ running' = [running EXCEPT ![j] = {r \in @ : Key(r) # Key(o)} \cup {o}]
      /\ inFlight' = [inFlight EXCEPT ![w] = @ \cup {o}]
      /\ owner' = [owner EXCEPT ![Key(o)] = <<j, w>>]
      /\ sent' = [sent EXCEPT ![attached[w]] = @ \cup {o}]
      /\ state' = [state EXCEPT ![j] = "RUNNING"]
      /\ IF state[j] = "RUNNING" THEN UNCHANGED logged ELSE Persist(j, "RUNNING")
      /\ queue' = IF last THEN RemoveAt(queue, cursor) ELSE queue
      /\ cursor' = IF last THEN cursor ELSE cursor + 1
      /\ progress' = TRUE
      /\ UNCHANGED <<storeVars, job, aborted, afterBuild, attempts, attached, link,
                     reserved, pc, submits, emptied, carries, history>>

(* Send returns false, since the stream is gone or its outbox full: the order *)
(* was moved out of the deque, and an empty message is left in its place.    *)
SendFails(w, o) ==
  /\ Scanning /\ ~ Spent(Scanned) /\ o \in pending[Scanned]
  /\ Emptiest(w) /\ Room(w) > 0 /\ (link[attached[w]] # "up" \/ MayBreak)
  /\ emptied' = emptied \cup {o}
  /\ cursor' = cursor + 1
  /\ UNCHANGED <<storeVars, jobVars, queue, fleetVars, reserved, pc, progress,
                 submits, carries, history>>

EndOfOnlyPass ==                                                       \* slip
  /\ pc = "scan" /\ cursor > Len(queue) /\ pc' = "idle"
  /\ UNCHANGED <<storeVars, jobVars, queue, fleetVars, reserved, cursor, progress,
                 submits, emptied, carries, history>>
EndOfPass ==
  /\ pc = "scan" /\ cursor > Len(queue)
  /\ IF progress THEN cursor' = 1 /\ progress' = FALSE /\ UNCHANGED pc
     ELSE pc' = "idle" /\ UNCHANGED <<cursor, progress>>
  /\ UNCHANGED <<storeVars, jobVars, queue, fleetVars, reserved, submits, emptied,
                 carries, history>>

Dispatch ==
  \/ DropSpentJob
  \/ NoRoom
  \/ \E w \in Workers, o \in Orders : SendOrder(w, o)
  \/ \E w \in Workers, o \in Orders : SendFails(w, o)
  \/ EndOfPass

-----------------------------------------------------------------------------
(* Worker streams: FleetService::Attach registers the worker, reads results  *)
(* until the stream ends, and removes the worker by its id.                  *)

(* AddWorker overwrites whatever is registered under the id.                 *)
AddWorker(s) ==
  /\ pc = "idle" /\ link[s] = "off"
  /\ link' = [link EXCEPT ![s] = "up"]
  /\ attached' = [attached EXCEPT ![WorkerOf[s]] = s]
  /\ inFlight' = [inFlight EXCEPT ![WorkerOf[s]] = {}]
  /\ StartDispatch
  /\ UNCHANGED <<storeVars, jobVars, queue, owner, sent, reserved, submits,
                 emptied, carries, history>>

(* The orders RemoveWorker finds in flight, owned and running.               *)
Orphans(w) ==
  {r \in UNION {running[j] : j \in Jobs} : \E o \in inFlight[w] :
     /\ Key(r) = Key(o) /\ owner[Key(o)] # Unowned
     /\ r \in running[owner[Key(o)][1]]}
OrphansOf(w, j) == Orphans(w) \cap running[j]

Arrangements(S) ==
  {f \in [1 .. Cardinality(S) -> S] : \A x \in S : \E i \in DOMAIN f : f[i] = x}

(* Jobs that are to be dispatched from again and are not in queue_ go to its *)
(* front, in the order of their orders in in_flight, which is left open.     *)
PushFront(S) == \E front \in Arrangements(S \ Range(queue)) : queue' = front \o queue

(* RemoveWorker requeues them at the front.  When nothing is registered      *)
(* under the id it returns early, without dispatching.                       *)
RemoveWorker(s) ==
  LET w == WorkerOf[s]
  IN  /\ pc = "idle" /\ link[s] # "off"
      /\ link' = [link EXCEPT ![s] = "off"]
      /\ sent' = [sent EXCEPT ![s] = {}]
      /\ IF w \notin Attached
         THEN UNCHANGED <<pending, running, queue, owner, attached, inFlight,
                          loopVars>>
         ELSE /\ owner' = [k \in Keys |->
                   IF \E o \in inFlight[w] : Key(o) = k THEN Unowned ELSE owner[k]]
              /\ running' = [j \in Jobs |-> running[j] \ OrphansOf(w, j)]
              /\ pending' = [j \in Jobs |-> pending[j] \cup OrphansOf(w, j)]
              /\ PushFront({j \in Jobs : OrphansOf(w, j) # {}})
              /\ attached' = [attached EXCEPT ![w] = NoStream]
              /\ inFlight' = [inFlight EXCEPT ![w] = {}]
              /\ StartDispatch
      /\ UNCHANGED <<storeVars, job, state, aborted, afterBuild, attempts, logged,
                     reserved, submits, emptied, carries, history>>

(* WriterLoop's Write failed: from then on Send returns false, while the      *)
(* stream can still be read.                                                 *)
Break(s) ==
  /\ MayBreak /\ link[s] = "up"
  /\ link' = [link EXCEPT ![s] = "broken"]
  /\ UNCHANGED <<storeVars, jobVars, queue, attached, inFlight, owner, sent,
                 reserved, loopVars, submits, emptied, carries, history>>

-----------------------------------------------------------------------------
(* OnResult, by what the result says.                                        *)

Answers(s, o) == pc = "idle" /\ link[s] # "off" /\ o \in sent[s]

(* An order nobody owns: a late result is logged and dropped.                *)
LateResult(s, o) ==
  /\ Answers(s, o) /\ owner[Key(o)] = Unowned
  /\ sent' = [sent EXCEPT ![s] = @ \ {o}]
  /\ UNCHANGED <<storeVars, jobVars, queue, attached, inFlight, owner, link,
                 reserved, loopVars, submits, emptied, carries, history>>

(* order_owner_.erase: from now on the answer to order o is a late one.      *)
Disown(o) == owner' = [owner EXCEPT ![Key(o)] = Unowned]

(* OnBuiltLocked pushes the job for the orders it added.                     *)
PushNone(j, more) == UNCHANGED queue                                   \* slip
PushBack(j, more) == queue' = IF more = {} THEN queue ELSE Append(queue, j)

(* ConcludeJobLocked: whether a job with these orders is over, and how.      *)
OverUnlessWaiting(left, waiting) == waiting = {}                       \* slip
Over(left, waiting) == left = {} /\ waiting = {}
VerdictDone(st, over) == IF over THEN "DONE" ELSE st                   \* slip
Verdict(st, over) == IF over /\ st # "FAILED" THEN "DONE" ELSE st

(* What every accepted result does: the order leaves its worker and its job; *)
(* the job, now in state st with the orders more added to it, concludes if   *)
(* that leaves it without orders; it is logged and the next pass starts.     *)
Settle(s, o, j, st, more, abort) ==
  LET left == {r \in running[j] : Key(r) # Key(o)}
      waiting == IF aborted[j] \/ abort THEN {} ELSE pending[j] \cup more
      over == Over(left, waiting)
      final == Verdict(st, over)
  IN  /\ Answers(s, o) /\ owner[Key(o)] # Unowned /\ j = owner[Key(o)][1]
      /\ sent' = [sent EXCEPT ![s] = @ \ {o}]
      /\ Disown(o)
      /\ inFlight' = [inFlight EXCEPT ![WorkerOf[s]] =
                        {r \in @ : Key(r) # Key(o)}]
      /\ running' = [running EXCEPT ![j] = left]
      /\ pending' = [pending EXCEPT ![j] = waiting]
      /\ aborted' = [aborted EXCEPT ![j] = @ \/ abort]
      /\ state' = [state EXCEPT ![j] = final]
      /\ Persist(j, final)
      /\ told' = IF over THEN [told EXCEPT ![j] = @ + 1] ELSE told
      /\ PushBack(j, more)
      /\ StartDispatch
      /\ UNCHANGED <<job, attached, link, reserved, submits, emptied>>

(* The order the job runs under the answered id is a build order.            *)
BuildRuns(o, j) == \E r \in running[j] : Key(r) = Key(o) /\ IsBuild(r)

(* OnBuiltLocked with a bot: the candidate is READY, and its matches follow. *)
BuildSucceeded(s, o, j) ==
  LET c == job[j].cand
      playable == {g \in afterBuild[j] : \A r \in Rivals[g] :
                                           live'[r].status = "READY"}
      matches == {MatchOrder(j, g) : g \in playable}
  IN  /\ BuildRuns(o, j)
      /\ SetStatus(c, "READY", job[j].rev)
      /\ afterBuild' = [afterBuild EXCEPT ![j] = {}]
      /\ carries' = [m \in Orders |->
           IF m \notin matches THEN carries[m]
           ELSE {<<r, live'[r].rev>> : r \in {c} \cup Rivals[m[3]]}]
      /\ proven' = proven \cup carries[o]
      /\ Settle(s, o, j, state[j], matches, FALSE)
      /\ UNCHANGED <<attempts, recorded>>

(* A failure that blames no one: a fresh build order, twice at most.         *)
OneTryTooMany(j, n) == n <= MaxAttempts /\ ~ aborted[j]                \* slip
TryAgain(j, n) == n < MaxAttempts /\ ~ aborted[j]

BuildEngineFailed(s, o, j) ==
  LET n == attempts[j] + 1
      again == TryAgain(j, n)
      retry == {BuildOrder(j, n + 1)}
  IN  /\ BuildRuns(o, j)
      /\ attempts' = [attempts EXCEPT ![j] = n]
      /\ carries' = IF again THEN [carries EXCEPT ![BuildOrder(j, n + 1)] = carries[o]]
                    ELSE carries
      /\ Settle(s, o, j, IF again THEN state[j] ELSE "FAILED",
                IF again THEN retry ELSE {}, FALSE)
      /\ UNCHANGED <<storeVars, afterBuild, recorded, proven>>

BuildBlamed(s, o, j) ==
  /\ BuildRuns(o, j)
  /\ SetStatus(job[j].cand, "BUILD_FAILED", 0)
  /\ Settle(s, o, j, "FAILED", {}, TRUE)
  /\ UNCHANGED <<afterBuild, attempts, carries, recorded, proven>>

(* A match that broke because a side did not build.                          *)
MatchBlamed(s, o, j, who) ==
  /\ ~ BuildRuns(o, j) /\ o \notin emptied
  /\ who \in {copy[1] : copy \in carries[o]}
  /\ SetStatus(who, "BUILD_FAILED", 0)
  /\ Settle(s, o, j, "FAILED", {}, TRUE)
  /\ UNCHANGED <<afterBuild, attempts, carries, recorded, proven>>

(* A match the engine could not run; a worker refuses an empty order.        *)
MatchError(s, o, j) ==
  /\ ~ BuildRuns(o, j)
  /\ Settle(s, o, j, state[j], {}, FALSE)
  /\ UNCHANGED <<storeVars, afterBuild, attempts, carries, recorded, proven>>

MatchPlayed(s, o, j) ==
  /\ ~ BuildRuns(o, j) /\ o \notin emptied
  /\ SetStatus(job[j].cand, "READY", 0)
  /\ recorded' = [recorded EXCEPT ![o] = @ + 1]
  /\ proven' = proven \cup carries[o]
  /\ Settle(s, o, j, state[j], {}, FALSE)
  /\ UNCHANGED <<afterBuild, attempts, carries>>

AwaitedResult(s, o) ==
  \E j \in Jobs :
    \/ BuildSucceeded(s, o, j)
    \/ BuildEngineFailed(s, o, j)
    \/ BuildBlamed(s, o, j)
    \/ \E who \in Candidates : MatchBlamed(s, o, j, who)
    \/ MatchError(s, o, j)
    \/ MatchPlayed(s, o, j)

OnResult(s, o) == LateResult(s, o) \/ AwaitedResult(s, o)

-----------------------------------------------------------------------------
Submission ==
  \/ \E cl \in Clients, cancel \in BOOLEAN : TryReserve(cl, cancel)
  \/ \E cl \in Clients : RejectSubmission(cl)
  \/ \E cl \in Clients, c \in Candidates : StoreSubmission(cl, c)
  \/ \E sub \in submits, j \in Jobs : \E ladder \in Ladders(sub.cand) :
       EnqueuePlacement(sub, j, ladder)
  \/ \E c \in Candidates, g \in Groups, j \in Jobs : EnqueueMatch(c, g, j)

Fleet ==
  \/ \E s \in Streams : AddWorker(s) \/ RemoveWorker(s) \/ Break(s)
  \/ \E s \in Streams, o \in Orders : OnResult(s, o)

Next == Submission \/ Dispatch \/ Fleet

(* The loop is a running thread, and a connected worker answers every order  *)
(* it was sent and not told to cancel (its engine kills a build or a match   *)
(* that exceeds its time limit).  Nobody has to submit anything, and workers *)
(* come and go as they like.                                                 *)
Fairness ==
  /\ WF_vars(Dispatch)
  /\ \A s \in Streams, o \in Orders : WF_vars(AwaitedResult(s, o))

SafetySpec == Init /\ [][Next]_vars
Spec == SafetySpec /\ Fairness

=============================================================================
