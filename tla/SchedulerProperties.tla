------------------------ MODULE SchedulerProperties -------------------------
(***************************************************************************)
(* What the scheduler promises.  Some of it holds whatever the fleet does, *)
(* some only while every worker id has one stream at a time and a Send to  *)
(* an attached worker does not fail; the configurations say which.         *)
(***************************************************************************)
EXTENDS Scheduler

Final == {"DONE", "FAILED", "CANCELLED"}
Idle == pc = "idle"

-----------------------------------------------------------------------------
(* The three ledgers of a dispatched order.                                  *)

(* An order a job counts as running is owned by that job and by a worker     *)
(* that has it in flight and was really sent it (DispatchLocked 449-453).    *)
RunningIsOwned ==
  \A j \in Jobs : \A o \in running[j] :
    /\ owner[o] # Unowned /\ owner[o][1] = j
    /\ o \in inFlight[owner[o][2]]
    /\ owner[o][2] \in Attached /\ o \in sent[attached[owner[o][2]]]

(* order_owner_ names nothing a job is not running.                          *)
OwnedIsRunning ==
  \A k \in Keys : owner[k] # Unowned =>
    \E o \in running[owner[k][1]] : Key(o) = k

(* A slot is occupied only by an order its worker owns: none leaks.          *)
NoSlotLeaks ==
  \A w \in Workers : \A o \in inFlight[w] : owner[o] # Unowned /\ owner[o][2] = w

(* jobs_, order_owner_ and workers_ tell the same story about every order,   *)
(* through aborts, requeues and results (scheduler.cc 71-94, 449-453,        *)
(* 478-513, 553-567).                                                        *)
LedgersAgree == RunningIsOwned /\ OwnedIsRunning /\ NoSlotLeaks

(* A worker is never given more orders than it has slots (DispatchLocked).   *)
NeverOverbooked ==
  \A w \in Workers : Cardinality(inFlight[w]) <= Slots[w]

-----------------------------------------------------------------------------
(* Jobs.                                                                     *)

(* A job that is not finished has work left, waiting or running: otherwise   *)
(* nothing would ever conclude it (ConcludeJobLocked).                       *)
OpenJobsHaveWork ==
  \A j \in Jobs : state[j] \in Open => pending[j] \cup running[j] # {}

(* A job with orders to dispatch is in queue_, in every pass and after it,    *)
(* and no job is there twice: two of the four places that add to queue_       *)
(* append without looking (OnBuiltLocked 668, 697), and a job that is there   *)
(* twice would be given two turns of every pass.                              *)
WaitingIsQueued ==
  /\ \A j \in Jobs : pending[j] # {} /\ ~ aborted[j] => j \in Range(queue)
  /\ IsInjective(queue)

(* When dispatching is over, no order waits while an attached worker has     *)
(* room for it (DispatchLocked repeats its pass while it makes progress).    *)
(* TryReserve does not dispatch into the room its aborts make, so this is    *)
(* said of instances without cancel_running.                                 *)
NoIdleSlot ==
  Idle /\ (\E w \in Attached : Room(w) > 0)
    => \A j \in Jobs : pending[j] = {} \/ aborted[j]

(* on_concluded hears of a job at most once, after its last order, and only  *)
(* of jobs that ran to DONE or FAILED (scheduler.h 31-32).                   *)
ToldOnce ==
  \A j \in Jobs :
    told[j] > 0 => /\ told[j] = 1 /\ state[j] \in {"DONE", "FAILED"}
                   /\ pending[j] \cup running[j] = {}

(* The other half: a job that ran to DONE or FAILED and has no order running *)
(* has been reported.                                                        *)
EveryEndIsTold ==
  Idle => \A j \in Jobs : state[j] \in {"DONE", "FAILED"} /\ running[j] = {}
                            => told[j] = 1

(* A verdict is never taken back: late results, requeues and aborts leave a  *)
(* finished job as it is.                                                    *)
VerdictsStand ==
  [][\A j \in Jobs : state[j] \in Final => state'[j] = state[j]]_vars

(* A result is counted into the standings once, and never for a job that was *)
(* cancelled or is over (OnResult, "Result for unknown order").              *)
CountedOnce ==
  [][\A o \in Orders : recorded'[o] # recorded[o] =>
       recorded[o] = 0 /\ state[o[2]] # "CANCELLED" /\ told[o[2]] = 0]_vars

(* Two submissions of one participant are never under evaluation together:   *)
(* the newer job cancels what is unfinished of the older (EnqueuePlacement). *)
OneOpenJob ==
  \A i, j \in Jobs : {state[i], state[j]} \subseteq Open /\ job[i].cand = job[j].cand
                       => i = j

(* "Older work is for code this replaces; its result would pass for this     *)
(* one's" (scheduler.cc 312): a result counts only for its candidate's       *)
(* newest job.                                                               *)
OnlyNewestCounts ==
  [][\A o \in Orders : recorded'[o] # recorded[o] =>
       \A j \in Jobs : j > o[2] /\ state[j] # "NONE" => job[j].cand # job[o[2]].cand]_vars

(* Whoever reads the job log while the scheduler is not in the middle of a   *)
(* pass finds the state the job is in (PersistLocked's seven calls).         *)
LogIsCurrent == Idle => logged = state

(* The queued jobs and granted reservations of a client stay within          *)
(* quota.max_queued_jobs, whatever submits overlap (scheduler.h 41).         *)
QueueQuota ==
  \A cl \in Clients : InState(Mine(cl), "QUEUED") + reserved[cl] <= MaxQueued

(* An order whose Send failed stays queued as it was (DispatchLocked 445):    *)
(* no worker is ever sent an order without contents.                         *)
NothingSentBlank == \A s \in Streams : sent[s] \cap emptied = {}

(* Whatever a worker had in flight when its stream ended is waiting again     *)
(* (scheduler.h 85): a running order is always at a connected worker.        *)
RequeuedWhenGone ==
  Idle => \A j \in Jobs : \A o \in running[j] :
            \E s \in Streams : link[s] # "off" /\ o \in sent[s]

-----------------------------------------------------------------------------
(* Candidates.                                                               *)

(* A resubmit waits only behind a READY entry (CandidateStore::Create).      *)
StagedBehindReady == \A c \in Candidates : staged[c] # 0 => live[c].status = "READY"

(* An entry that is READY has been built, in the copy that is stored, by     *)
(* some worker (candidate_store.h 39).                                       *)
ReadyWasBuilt ==
  \A c \in Candidates : live[c].status = "READY" => <<c, live[c].rev>> \in proven

-----------------------------------------------------------------------------
(* Refinement.                                                               *)

Place(o) ==
  IF o \in UNION {pending[j] : j \in Jobs} THEN "waiting"
  ELSE IF o \in UNION {running[j] : j \in Jobs} THEN "out"
  ELSE IF carries[o] # {} THEN "gone" ELSE "unborn"

VerdictOf(j) ==
  CASE state[j] = "NONE" -> "none"
    [] state[j] \in Open -> "open"
    [] state[j] = "DONE" -> "done"
    [] state[j] = "FAILED" -> "failed"
    [] state[j] = "CANCELLED" -> "cancelled"

Ledger == INSTANCE OrderLedger WITH
  JobOf <- [o \in Orders |-> o[2]],
  place <- [o \in Orders |-> Place(o)],
  verdict <- [j \in Jobs |-> VerdictOf(j)],
  counted <- {o \in Orders : recorded[o] > 0}

(* The scheduler, with its queue, its slots and its streams, keeps the       *)
(* ledger's promises.                                                        *)
KeepsLedger == Ledger!Spec

-----------------------------------------------------------------------------
(* Progress.                                                                 *)

(* If the fleet stays up from some point on, every submission's job ends,    *)
(* through build retries and requeues.                                       *)
FleetStaysUp == <>[](\A s \in Streams : link[s] = "up")
EveryJobEnds ==
  FleetStaysUp => \A j \in Jobs : state[j] = "QUEUED" ~> state[j] \in Final

(* A Submit call that was granted a slot and stored its submission finds the *)
(* scheduler's lock free again and again: no handler keeps it for ever.      *)
PassesEnd == pc = "scan" ~> Idle

=============================================================================
