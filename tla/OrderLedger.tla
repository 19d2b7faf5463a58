---------------------------- MODULE OrderLedger -----------------------------
(***************************************************************************)
(* What the scheduler promises about work orders, without workers, slots,  *)
(* queues or streams: an order is waiting or in one worker's hands until   *)
(* it is answered or dropped, it is answered at most once, and the verdict *)
(* of its job follows from the answers and is never taken back.            *)
(***************************************************************************)
EXTENDS Integers

CONSTANTS
  Jobs, Orders,
  JobOf       \* the job of an order, a function from Orders to Jobs

VARIABLES
  place,    \* order -> "unborn", "waiting", "out" or "gone"
  verdict,  \* job -> "none", "open", "done", "failed" or "cancelled"
  counted   \* orders whose result counts

vars == <<place, verdict, counted>>

TypeOK ==
  /\ place \in [Orders -> {"unborn", "waiting", "out", "gone"}]
  /\ verdict \in [Jobs -> {"none", "open", "done", "failed", "cancelled"}]
  /\ counted \in SUBSET Orders

Init ==
  /\ place = [o \in Orders |-> "unborn"]
  /\ verdict = [j \in Jobs |-> "none"]
  /\ counted = {}

OrdersOf(j) == {o \in Orders : JobOf[o] = j}

(* Jobs A, which are open, are cancelled and their orders dropped.           *)
Dropped(A) ==
  [o \in Orders |-> IF JobOf[o] \in A /\ place[o] # "unborn" THEN "gone" ELSE place[o]]
Cancelled(A) == [j \in Jobs |-> IF j \in A THEN "cancelled" ELSE verdict[j]]

Cancel(A) ==
  /\ place' = Dropped(A) /\ verdict' = Cancelled(A)
  /\ UNCHANGED counted

(* A new job with its first orders takes the place of the jobs A; without an *)
(* order it has failed already.                                              *)
Begin(j, first, A) ==
  /\ verdict[j] = "none"
  /\ place' = [o \in Orders |-> IF o \in first THEN "waiting" ELSE Dropped(A)[o]]
  /\ verdict' = [Cancelled(A) EXCEPT ![j] = IF first = {} THEN "failed" ELSE "open"]
  /\ UNCHANGED counted

(* An order goes to a worker, never one of a job that is over.               *)
HandOut(o) ==
  /\ verdict[JobOf[o]] = "open"
  /\ place' = [place EXCEPT ![o] = "out"]
  /\ UNCHANGED <<verdict, counted>>

(* A worker is gone: what it had is waiting again.                           *)
TakeBack(S) ==
  /\ place' = [o \in Orders |-> IF o \in S THEN "waiting" ELSE place[o]]
  /\ UNCHANGED <<verdict, counted>>

(* A worker answers.  The job may get more orders, or fail, which drops what *)
(* waits; when nothing waits and nothing is out, it is done if it did not    *)
(* fail.                                                                     *)
Failed(o, fails) == fails \/ verdict[JobOf[o]] = "failed"
Placed(o, more, failed) ==
  [x \in Orders |->
     IF x = o THEN "gone"
     ELSE IF x \in more THEN "waiting"
     ELSE IF JobOf[x] = JobOf[o] /\ failed /\ place[x] = "waiting" THEN "gone"
     ELSE place[x]]

Answer(o, more, fails, counts) ==
  LET failed == Failed(o, fails)
      placed == Placed(o, more, failed)
      open == \E x \in OrdersOf(JobOf[o]) : placed[x] \in {"waiting", "out"}
  IN  /\ verdict[JobOf[o]] \in {"open", "failed"}
      /\ failed => more = {}
      /\ place' = placed
      /\ verdict' = [verdict EXCEPT ![JobOf[o]] =
                       IF failed THEN "failed" ELSE IF open THEN "open" ELSE "done"]
      /\ counted' = IF counts THEN counted \cup {o} ELSE counted

At(p) == {o \in Orders : place[o] = p}
OpenJobs == {j \in Jobs : verdict[j] = "open"}

Next ==
  \/ \E A \in SUBSET OpenJobs :
       \/ Cancel(A)
       \/ \E j \in Jobs : \E first \in SUBSET OrdersOf(j) : Begin(j, first, A)
  \/ \E o \in At("waiting") : HandOut(o)
  \/ \E S \in SUBSET At("out") : TakeBack(S)
  \/ \E o \in At("out") : \E more \in SUBSET (OrdersOf(JobOf[o]) \cap At("unborn")) :
       \E fails, counts \in BOOLEAN : Answer(o, more, fails, counts)

Spec == Init /\ [][Next]_vars

=============================================================================
