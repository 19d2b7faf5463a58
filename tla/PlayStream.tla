----------------------------- MODULE PlayStream -----------------------------
(***************************************************************************)
(* One Play stream: the reactor that gRPC calls (play_reactor.cc) and the  *)
(* connection that games and the matchmaker hold (player_connection.cc).   *)
(*                                                                         *)
(* Reactions run on gRPC's threads, Send and CloseAfterFlush on a game's   *)
(* or the reaper's, the hello deadline on the alarm's; each step is one    *)
(* critical section or one call into gRPC.  Messages are counted; what a   *)
(* game reads of them is GameRun's.  gRPC's part is as the code relies on  *)
(* it: one OnCancel, a broken stream completes its reads and writes, a     *)
(* read started after Finish never completes (play_reactor.h 69).          *)
(***************************************************************************)
EXTENDS Naturals, FiniteSets

CONSTANTS
  MaxOutbox,    \* kMaxOutbox
  MaxSends,     \* bound: messages the game sends
  MaxMessages   \* bound: messages the client sends after its hello

Reactions == {"read", "write", "cancel"}
Users == {"game", "reaper"}
Threads == Reactions \cup Users \cup {"alarm"}

ASSUME StreamAssumption ==
  MaxOutbox \in Nat \ {0} /\ MaxSends \in Nat /\ MaxMessages \in Nat

VARIABLES
  pc,
  \* the reactor: conn_ is set, finish_issued_, hello_alarm_
  conn, finishing, alarm,
  \* the connection: transport_, outbox_'s length, and its flags
  transport, outbox, inFlight, finishRequested, finishIssued, disconnected,
  joined,       \* the matchmaker has the connection
  \* gRPC: the read that is out, what it brought; writes out; Finish calls
  reading, got, writes, finishes, cancelled, done,
  \* the client and the game
  actions, sends,
  \* history: conn_ was published on a stream that was finishing; a message
  \* was written after Finish
  preempted, wroteLate

reactor == <<conn, finishing, alarm>>
flags == <<finishRequested, finishIssued, disconnected>>
connection == <<transport, outbox, inFlight, flags>>
rpc == <<reading, got, writes, finishes, cancelled, done>>
peers == <<joined, actions, sends>>
history == <<preempted, wroteLate>>
playVars == <<pc, reactor, connection, rpc, peers, history>>

(* The constructor sets the alarm and starts the first read.                 *)
PlayInit ==
  /\ pc = [t \in Threads |-> "idle"]
  /\ conn = FALSE /\ finishing = FALSE /\ alarm = "set"
  /\ transport = FALSE /\ outbox = 0 /\ inFlight = FALSE
  /\ finishRequested = FALSE /\ finishIssued = FALSE /\ disconnected = FALSE
  /\ joined = FALSE
  /\ reading = "out" /\ got = "nothing" /\ writes = 0 /\ finishes = 0
  /\ cancelled = FALSE /\ done = FALSE
  /\ actions = 0 /\ sends = 0
  /\ preempted = FALSE /\ wroteLate = FALSE

At(t, here) == pc[t] = here
Goes(t, there) == pc' = [pc EXCEPT ![t] = there]

-----------------------------------------------------------------------------
(* Ways to the one finish.                                                   *)

(* FinishWithoutConnection: only before conn_ exists.                        *)
FinishWithoutConnection(t) ==
  /\ At(t, "nohello")
  /\ IF finishing \/ conn THEN Goes(t, "idle") /\ UNCHANGED finishing
     ELSE Goes(t, "finish") /\ finishing' = TRUE
  /\ UNCHANGED <<conn, alarm, connection, rpc, peers, history>>

(* Pump: the next write, or the deferred finish, and only with no write out.  *)
PumpAnyway == TRUE                                                     \* slip
FinishAgain == finishRequested                                         \* slip
MayFinish == finishRequested /\ ~finishIssued
MayPump == transport /\ ~inFlight
Pump(t) ==
  /\ At(t, "pump")
  /\ \/ /\ MayPump /\ outbox > 0
        /\ outbox' = outbox - 1 /\ inFlight' = TRUE
        /\ writes' = writes + 1 /\ wroteLate' = (wroteLate \/ finishes > 0)
        /\ Goes(t, "idle") /\ UNCHANGED finishIssued
     \/ /\ MayPump /\ outbox = 0 /\ MayFinish
        /\ finishIssued' = TRUE
        /\ Goes(t, "endrpc") /\ UNCHANGED <<outbox, inFlight, writes, wroteLate>>
     \/ /\ ~MayPump \/ (outbox = 0 /\ ~MayFinish)
        /\ Goes(t, "idle") /\ UNCHANGED <<finishIssued, outbox, inFlight, writes, wroteLate>>
  /\ UNCHANGED <<reactor, transport, finishRequested, disconnected, reading, got, finishes,
                 cancelled, done, peers, preempted>>

(* EndRpc, outside the connection's lock.                                    *)
EndRpc(t) ==
  /\ At(t, "endrpc") /\ Goes(t, "finish")
  /\ finishing' = TRUE
  /\ UNCHANGED <<conn, alarm, connection, rpc, peers, history>>
Finish(t) ==
  /\ At(t, "finish") /\ Goes(t, "idle")
  /\ finishes' = finishes + 1
  /\ UNCHANGED <<reactor, connection, reading, got, writes, cancelled, done, peers, history>>

Ending(t) == FinishWithoutConnection(t) \/ Pump(t) \/ EndRpc(t) \/ Finish(t)

(* Close: the first status wins.                                             *)
Closed(t) ==
  IF finishRequested THEN Goes(t, "idle") /\ UNCHANGED finishRequested
  ELSE Goes(t, "pump") /\ finishRequested' = TRUE

-----------------------------------------------------------------------------
(* Reads.                                                                    *)

(* gRPC completes the read that is out: with a message while the client       *)
(* sends, without one when it has half-closed or the stream is over.          *)
ReadDone ==
  /\ reading = "out" /\ At("read", "idle") /\ ~done
  /\ \/ got' = "end"
     \/ ~cancelled /\ finishes = 0 /\ ~conn /\ got' \in {"hello", "no hello"}
     \/ ~cancelled /\ finishes = 0 /\ conn /\ actions < MaxMessages /\ got' = "action"
  /\ actions' = IF got' = "action" THEN actions + 1 ELSE actions
  /\ reading' = "none"
  /\ Goes("read", "onread")
  /\ UNCHANGED <<reactor, connection, writes, finishes, cancelled, done, joined, sends, history>>

(* OnReadDone asks whether there is a connection.                            *)
OnReadDone ==
  /\ At("read", "onread")
  /\ CASE got = "end" /\ conn -> Goes("read", "disconnect") /\ UNCHANGED alarm
       [] got = "end" /\ ~conn -> Goes("read", "nohello") /\ UNCHANGED alarm
       [] got # "end" /\ conn -> Goes("read", "again") /\ UNCHANGED alarm
       [] got = "no hello" /\ ~conn -> Goes("read", "nohello") /\ UNCHANGED alarm
       [] got = "hello" /\ ~conn ->
            /\ Goes("read", "publish")
            /\ alarm' = IF alarm = "set" THEN "off" ELSE alarm
  /\ UNCHANGED <<conn, finishing, connection, rpc, peers, history>>

(* The matchmaker's Disconnect marks the handle; then it closes.             *)
DisconnectThenClose ==
  /\ At("read", "disconnect")
  /\ disconnected' = TRUE
  /\ Closed("read")
  /\ UNCHANGED <<reactor, transport, outbox, inFlight, finishIssued, rpc, peers, history>>

(* HandleHello: the connection is published before the matchmaker has it, and *)
(* whether or not the deadline or a cancel has finished the stream by now.    *)
PublishConnection ==
  /\ At("read", "publish") /\ Goes("read", "join")
  /\ conn' = TRUE /\ transport' = TRUE
  /\ preempted' = finishing
  /\ UNCHANGED <<finishing, alarm, outbox, inFlight, flags, rpc, peers, wroteLate>>
JoinIt ==
  /\ At("read", "join")
  /\ \/ joined' = TRUE /\ Goes("read", "again") /\ UNCHANGED finishRequested
     \/ joined' = FALSE /\ Closed("read")
  /\ UNCHANGED <<reactor, transport, outbox, inFlight, finishIssued, disconnected, rpc,
                 actions, sends, history>>

ReadAnyway == TRUE                                                     \* slip
MayRead == ~finishing
StartReadUnlessFinishing ==
  /\ At("read", "again") /\ Goes("read", "idle")
  /\ reading' = (IF ~MayRead THEN "none" ELSE IF finishes = 0 THEN "out" ELSE "never")
  /\ UNCHANGED <<reactor, connection, got, writes, finishes, cancelled, done, peers, history>>

Reader ==
  \/ OnReadDone \/ DisconnectThenClose \/ PublishConnection \/ JoinIt
  \/ StartReadUnlessFinishing

-----------------------------------------------------------------------------
(* Writes and cancellation.                                                  *)

WriteDone ==
  /\ writes > 0 /\ At("write", "idle")
  /\ writes' = writes - 1
  /\ \/ Goes("write", "written")
     \/ (cancelled \/ finishes > 0) /\ Goes("write", "failed")
  /\ UNCHANGED <<reactor, connection, reading, got, finishes, cancelled, done, peers, history>>
OnWriteDone ==
  /\ pc["write"] \in {"written", "failed"} /\ Goes("write", "pump")
  /\ inFlight' = FALSE
  /\ IF At("write", "failed")
     THEN outbox' = 0 /\ finishRequested' = TRUE /\ disconnected' = TRUE
     ELSE UNCHANGED <<outbox, finishRequested, disconnected>>
  /\ UNCHANGED <<reactor, transport, finishIssued, rpc, peers, history>>

(* The client or the server's shutdown cancels the call.                     *)
Cancel ==
  /\ ~cancelled /\ ~done
  /\ cancelled' = TRUE /\ Goes("cancel", "oncancel")
  /\ UNCHANGED <<reactor, connection, reading, got, writes, finishes, done, peers, history>>
OnCancel ==
  /\ At("cancel", "oncancel")
  /\ IF conn THEN disconnected' = TRUE /\ Goes("cancel", "cancelled")
     ELSE Goes("cancel", "nohello") /\ UNCHANGED disconnected
  /\ UNCHANGED <<reactor, transport, outbox, inFlight, finishRequested, finishIssued, rpc,
                 peers, history>>
OnCancelled ==
  /\ At("cancel", "cancelled") /\ Goes("cancel", "pump")
  /\ outbox' = 0 /\ finishRequested' = TRUE
  /\ UNCHANGED <<reactor, transport, inFlight, finishIssued, disconnected, rpc, peers, history>>

(* The hello deadline.                                                       *)
Alarm ==
  /\ alarm = "set" /\ ~done /\ alarm' = "off" /\ Goes("alarm", "onalarm")
  /\ UNCHANGED <<conn, finishing, connection, rpc, peers, history>>
OnHelloDeadline ==
  /\ At("alarm", "onalarm") /\ Goes("alarm", IF conn THEN "idle" ELSE "nohello")
  /\ UNCHANGED <<reactor, connection, rpc, peers, history>>

-----------------------------------------------------------------------------
(* Games and the matchmaker.                                                 *)

(* Send: with the outbox full, the client is dropped.                        *)
Accepts == transport /\ ~disconnected /\ ~finishRequested
Send ==
  /\ joined /\ At("game", "idle") /\ sends < MaxSends
  /\ sends' = sends + 1
  /\ Goes("game", "pump")
  /\ IF Accepts /\ outbox < MaxOutbox THEN outbox' = outbox + 1 /\ UNCHANGED flags
     ELSE IF Accepts THEN /\ disconnected' = TRUE /\ finishRequested' = TRUE
                          /\ UNCHANGED <<outbox, finishIssued>>
     ELSE UNCHANGED <<outbox, flags>>
  /\ UNCHANGED <<reactor, transport, inFlight, rpc, joined, actions, history>>

(* The end of a game, or of the reaper's or Shutdown's patience.             *)
CloseAfterFlush(u) ==
  /\ joined /\ At(u, "idle") /\ ~finishRequested
  /\ Closed(u)
  /\ UNCHANGED <<reactor, transport, outbox, inFlight, finishIssued, disconnected, rpc,
                 peers, history>>

-----------------------------------------------------------------------------
(* OnDone, when a Finish is through, nothing is out and no reaction runs.  It *)
(* waits out the alarm's callback; games see a dead handle.                   *)
OnDone ==
  /\ finishes > 0 /\ reading = "none" /\ writes = 0 /\ ~done
  /\ \A t \in Reactions \cup {"alarm"} : At(t, "idle")
  /\ done' = TRUE /\ alarm' = "off"
  /\ IF conn THEN transport' = FALSE /\ disconnected' = TRUE /\ outbox' = 0
     ELSE UNCHANGED <<transport, disconnected, outbox>>
  /\ UNCHANGED <<pc, conn, finishing, inFlight, finishRequested, finishIssued, reading, got,
                 writes, finishes, cancelled, peers, history>>

Owed ==
  \/ \E t \in Threads : Ending(t)
  \/ Reader \/ OnWriteDone \/ OnCancel \/ OnCancelled \/ OnHelloDeadline
  \/ (cancelled \/ finishes > 0) /\ (ReadDone \/ WriteDone)
  \/ OnDone
PlayNext ==
  \/ Owed
  \/ ReadDone \/ WriteDone \/ Cancel \/ Alarm \/ Send
  \/ \E u \in Users : CloseAfterFlush(u)

(* Threads run, and gRPC completes what is out on a broken stream.           *)
PlaySafetySpec == PlayInit /\ [][PlayNext]_playVars
PlaySpec == PlaySafetySpec /\ WF_playVars(Owed)

-----------------------------------------------------------------------------
(* Properties.                                                               *)

PlayTypeOK ==
  /\ outbox \in 0 .. MaxOutbox /\ writes \in Nat /\ finishes \in Nat
  /\ alarm \in {"set", "off"} /\ reading \in {"out", "none", "never"}

(* player_connection.h: "At most one in flight", though five threads pump.   *)
OneWriteInFlight == writes <= 1

(* Once there is a connection, it alone finishes the stream, once, after the  *)
(* last write, on a reactor that is still there: the pointer Pump took under  *)
(* its lock is used outside it.  Said of streams whose hello was in time.     *)
ConnectionOwnsFinish ==
  ~preempted =>
    /\ finishes <= 1 /\ ~wroteLate
    /\ done => \A t \in Threads : pc[t] \notin {"endrpc", "finish"}

(* "Always finishes: Server::Shutdown() waits for every call to be finished": *)
(* a cancelled call ends, whatever was out or queued.                         *)
CancelledEnds == cancelled ~> (done \/ preempted)

(* play_reactor.h 42: "Only before conn_ exists; after that PlayerConnection  *)
(* owns the one finish".                                                      *)
OneFinish == finishes <= 1

=============================================================================
