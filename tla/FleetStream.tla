---------------------------- MODULE FleetStream -----------------------------
(***************************************************************************)
(* The coordinator's end of one worker stream (server/fleet_service.cc):   *)
(* the RPC handler Attach, which reads; the writer thread of its           *)
(* StreamFleetWorker; and whichever thread calls Send with the scheduler's *)
(* lock.  mutex_ guards outbox_ and stopping_; Write and Read run outside  *)
(* it.  A message is its number.  A definition marked "slip" is a wrong    *)
(* version of the one after it; no action uses it.                         *)
(***************************************************************************)
EXTENDS Integers, Sequences, SequencesExt

CONSTANTS
  kMaxOutbox,
  MaxSends     \* bound: calls of Send

VARIABLES
  up,        \* the connection still takes writes
  outbox,    \* outbox_
  stopping,  \* stopping_
  writer,    \* WriterLoop: "wait", "write", "ended"
  writing,   \* the message it has taken, or 0
  joined,    \* writer_ has been joined
  handler,   \* Attach: "read", "detach", "stop", "join", "leave", "returned";
             \* "terminated" when it has ended the program
  sends,     \* how often Send was called
  accepted,  \* messages for which Send returned true, in order
  written    \* messages whose Write succeeded, in order

vars == <<up, outbox, stopping, writer, writing, joined, handler, sends, accepted,
          written>>

Messages == 1 .. MaxSends

TypeOK ==
  /\ up \in BOOLEAN /\ stopping \in BOOLEAN /\ joined \in BOOLEAN
  /\ outbox \in Seq(Messages) /\ accepted \in Seq(Messages) /\ written \in Seq(Messages)
  /\ writer \in {"wait", "write", "ended"} /\ writing \in 0 .. MaxSends
  /\ handler \in {"read", "detach", "stop", "join", "leave", "returned", "terminated"}
  /\ sends \in 0 .. MaxSends

(* Attach, once the hello is read: Start and AddWorker.                      *)
Init ==
  /\ up = TRUE /\ outbox = <<>> /\ stopping = FALSE
  /\ writer = "wait" /\ writing = 0 /\ joined = FALSE
  /\ handler = "read" /\ sends = 0 /\ accepted = <<>> /\ written = <<>>

(* The scheduler sends until RemoveWorker has returned.                      *)
Send ==
  /\ handler \in {"read", "detach"} /\ sends < MaxSends
  /\ sends' = sends + 1
  /\ IF stopping \/ Len(outbox) >= kMaxOutbox
     THEN UNCHANGED <<outbox, accepted>>
     ELSE outbox' = Append(outbox, sends + 1) /\ accepted' = Append(accepted, sends + 1)
  /\ UNCHANGED <<up, stopping, writer, writing, joined, handler, written>>

ConnectionBreaks ==
  /\ up /\ handler \notin {"returned", "terminated"}
  /\ up' = FALSE
  /\ UNCHANGED <<outbox, stopping, writer, writing, joined, handler, sends, accepted,
                 written>>

-----------------------------------------------------------------------------
(* WriterLoop.                                                               *)

WriterStopsWhenDone ==                                                 \* slip
  /\ writer = "wait" /\ stopping /\ outbox = <<>>
  /\ writer' = "ended"
  /\ UNCHANGED <<up, outbox, stopping, writing, joined, handler, sends, accepted,
                 written>>
WriterStops ==
  /\ writer = "wait" /\ stopping
  /\ writer' = "ended"
  /\ UNCHANGED <<up, outbox, stopping, writing, joined, handler, sends, accepted,
                 written>>

Take ==
  /\ writer = "wait" /\ ~ stopping /\ outbox # <<>>
  /\ writing' = Head(outbox) /\ outbox' = Tail(outbox) /\ writer' = "write"
  /\ UNCHANGED <<up, stopping, joined, handler, sends, accepted, written>>

(* As soon as the worker takes it: while the connection holds, maybe never.  *)
WriteSucceeds ==
  /\ writer = "write" /\ up
  /\ written' = Append(written, writing)
  /\ writing' = 0 /\ writer' = "wait"
  /\ UNCHANGED <<up, outbox, stopping, joined, handler, sends, accepted>>

WriteFails ==
  /\ writer = "write" /\ ~ up
  /\ stopping' = TRUE /\ writing' = 0 /\ writer' = "ended"
  /\ UNCHANGED <<up, outbox, joined, handler, sends, accepted, written>>

Writer == WriterStops \/ Take \/ WriteSucceeds \/ WriteFails
WriterGoesOn == WriterStops \/ Take \/ WriteFails

-----------------------------------------------------------------------------
(* Attach, from the Read that returns false to its end.                      *)

(* The connection broke, or the worker closed its side.                      *)
ReadEnds ==
  /\ handler = "read" /\ handler' = "detach"
  /\ UNCHANGED <<up, outbox, stopping, writer, writing, joined, sends, accepted,
                 written>>

RemoveWorker ==
  /\ handler = "detach" /\ handler' = "stop"
  /\ UNCHANGED <<up, outbox, stopping, writer, writing, joined, sends, accepted,
                 written>>

(* Stop: a worker that is stopping already is not joined again.              *)
Stop ==
  /\ handler = "stop"
  /\ handler' = IF stopping THEN "leave" ELSE "join"
  /\ stopping' = TRUE
  /\ UNCHANGED <<up, outbox, writer, writing, joined, sends, accepted, written>>

Join ==
  /\ handler = "join" /\ writer = "ended"
  /\ joined' = TRUE /\ handler' = "leave"
  /\ UNCHANGED <<up, outbox, stopping, writer, writing, sends, accepted, written>>

(* Attach returns, and with its shared_ptr goes the last reference: the       *)
(* destructor's Stop does nothing, and that of a std::thread nobody joined    *)
(* calls std::terminate.                                                      *)
Return ==
  /\ handler = "leave"
  /\ handler' = IF joined THEN "returned" ELSE "terminated"
  /\ UNCHANGED <<up, outbox, stopping, writer, writing, joined, sends, accepted,
                 written>>

Handler == RemoveWorker \/ Stop \/ Join \/ Return

Next == Send \/ ConnectionBreaks \/ Writer \/ ReadEnds \/ Handler

(* The writer and the handler are threads, and a Write to a connection that   *)
(* has broken returns; one to a worker that reads no more need not.           *)
Spec == Init /\ [][Next]_vars /\ WF_vars(WriterGoesOn) /\ WF_vars(Handler)

-----------------------------------------------------------------------------
(* What Send accepted reaches the worker in order and without gaps, as far   *)
(* as it does (outbox_ is a queue, and one thread empties it).               *)
WrittenInOrder == IsPrefix(written, accepted)

(* stream_ belongs to the RPC: the writer does not use it after Attach has   *)
(* returned (fleet_service.h 47).                                            *)
StreamOutlivesWriter == handler \in {"returned", "terminated"} => writer # "write"

(* Once the worker has gone and its connection is broken, Attach waits for   *)
(* its writer only so long, whatever that was doing and however much was     *)
(* left in the outbox: it gets through Stop and to its end.                  *)
HandlerEnds ==
  handler # "read" /\ ~ up ~> handler \in {"returned", "terminated"}

(* A std::thread that is destroyed must have been joined, else the program   *)
(* terminates: Stop, however often it is called, leaves none (fleet_service.h *)
(* 40, "idempotent").  The code does not keep it: a Write that failed has set *)
(* stopping_, and Stop then returns before it joins.                         *)
WriterIsJoined == handler # "terminated"

=============================================================================
