----------------------------- MODULE PlayProofs -----------------------------
(***************************************************************************)
(* Proofs about what a player of the referee meets.  The Play stream, for  *)
(* every outbox, every number of messages either way and every order of    *)
(* the reactions: at most one write is out, and a connection whose hello   *)
(* was in time finishes the stream alone.  One game, for every number of   *)
(* seats, clients and moves, every budget, and timers as late as they      *)
(* like: it ends once, keeps its result, forfeits at the deadline of the   *)
(* turn it gave out, and places those who forfeited last.                  *)
(***************************************************************************)
EXTENDS Streams, GameRun, FiniteSetTheorems, SequenceTheorems, TLAPS

-----------------------------------------------------------------------------
(* The inductive invariant.                                                  *)

Places ==
  {"idle", "nohello", "pump", "endrpc", "finish", "onread", "disconnect", "publish",
   "join", "again", "written", "failed", "oncancel", "cancelled", "onalarm"}

StreamTypes ==
  /\ pc \in [Threads -> Places]
  /\ outbox \in 0 .. MaxOutbox /\ writes \in Nat /\ finishes \in Nat
  /\ conn \in BOOLEAN /\ inFlight \in BOOLEAN /\ finishIssued \in BOOLEAN
  /\ finishing \in BOOLEAN /\ finishRequested \in BOOLEAN /\ transport \in BOOLEAN
  /\ preempted \in BOOLEAN /\ wroteLate \in BOOLEAN

(* in_flight_ stands for the one write that is out, or whose completion      *)
(* waits for the connection's lock.                                          *)
Reported == pc["write"] \in {"written", "failed"}
FlagIsTheWrite ==
  /\ inFlight => writes + (IF Reported THEN 1 ELSE 0) = 1
  /\ ~inFlight => writes = 0 /\ ~Reported

(* What a connection's flags say of it.                                      *)
FlagsFit ==
  /\ transport \/ finishIssued \/ preempted => conn
  /\ pc["read"] = "publish" => ~conn
  /\ finishIssued => outbox = 0 /\ finishRequested

(* What OnReadDone is called with: actions come once there is a connection.  *)
ReadIsKnown ==
  pc["read"] = "onread" =>
    got \in {"end", "hello", "no hello"} \/ (got = "action" /\ conn)

(* The cancellation and the alarm each start their thread once.              *)
StartsOnce ==
  /\ ~cancelled => pc["cancel"] = "idle"
  /\ alarm = "set" => pc["alarm"] = "idle"

(* A thread on its way to Finish, past every test of the flags.              *)
Finishing(t) == pc[t] \in {"endrpc", "finish"}

OneFinisher ==
  /\ \A t, u \in Threads : Finishing(t) /\ Finishing(u) => t = u
  /\ finishes > 0 => \A t \in Threads : ~Finishing(t)
  /\ finishes > 0 \/ (\E t \in Threads : Finishing(t)) =>
       IF conn THEN finishIssued ELSE finishing
  /\ finishes <= 1 /\ ~wroteLate
  /\ done => finishes > 0

StreamInv ==
  /\ StreamTypes /\ FlagIsTheWrite /\ FlagsFit /\ StartsOnce /\ ReadIsKnown
  /\ ~preempted => OneFinisher

-----------------------------------------------------------------------------
LEMMA StreamInit ==
  ASSUME StreamAssumption, PlayInit
  PROVE  StreamInv
<1> USE DEF PlayInit, StreamAssumption
<1>1. StreamTypes
  <2>1. pc \in [Threads -> Places]
    BY DEF Places
  <2>2. outbox \in 0 .. MaxOutbox /\ writes \in Nat /\ finishes \in Nat
    OBVIOUS
  <2>3. /\ conn \in BOOLEAN /\ inFlight \in BOOLEAN /\ finishIssued \in BOOLEAN
        /\ finishing \in BOOLEAN /\ finishRequested \in BOOLEAN /\ transport \in BOOLEAN
        /\ preempted \in BOOLEAN /\ wroteLate \in BOOLEAN
    BY Zenon
  <2> QED
    BY <2>1, <2>2, <2>3 DEF StreamTypes
<1>2. FlagIsTheWrite /\ FlagsFit /\ StartsOnce /\ ReadIsKnown
  BY DEF FlagIsTheWrite, Reported, FlagsFit, StartsOnce, ReadIsKnown, Threads, Reactions
<1>3. OneFinisher
  BY DEF OneFinisher, Finishing
<1> QED
  BY <1>1, <1>2, <1>3 DEF StreamInv

(* Steps that neither start a write nor set a flag of the finish: what such  *)
(* a step moves is one thread, between two places off the way to Finish.     *)
Steps(t, here, there) ==
  /\ t \in Threads /\ At(t, here) /\ Goes(t, there)
  /\ {here, there} \subseteq Places \ {"endrpc", "finish", "written", "failed"}

LEMMA MovesKeep ==
  ASSUME StreamInv, NEW t, NEW here, NEW there, Steps(t, here, there),
         there = "publish" => ~conn,
         IF there = "onread" THEN ReadIsKnown' ELSE got' = got,
         t = "cancel" /\ here = "idle" => cancelled',
         t = "alarm" /\ here = "idle" => alarm' # "set",
         cancelled => cancelled', alarm' = "set" => alarm = "set",
         UNCHANGED <<conn, finishing, transport, inFlight, finishIssued, writes, finishes,
                     done, history>>,
         outbox' \in 0 .. MaxOutbox, finishRequested' \in BOOLEAN,
         finishIssued => outbox' = 0, finishRequested => finishRequested'
  PROVE  StreamInv'
<1> USE DEF StreamInv, Steps, At, Goes, history
<1>1. pc' \in [Threads -> Places]
  BY DEF StreamTypes
<1>2. \A u \in Threads : u # t => pc'[u] = pc[u]
  BY DEF StreamTypes
<1>3. pc'[t] = there
  BY DEF StreamTypes
<1>4. StreamTypes'
  BY <1>1 DEF StreamTypes
<1>5. Reported' <=> Reported
  BY <1>2, <1>3 DEF Reported, Threads, Reactions
<1>6. FlagIsTheWrite'
  BY <1>5 DEF FlagIsTheWrite
<1>7. FlagsFit' /\ StartsOnce' /\ ReadIsKnown'
  BY <1>2, <1>3 DEF FlagsFit, StartsOnce, ReadIsKnown, Threads, Reactions
<1>8. \A u \in Threads : Finishing(u)' <=> Finishing(u)
  BY <1>2, <1>3 DEF Finishing
<1>9. ~preempted' => OneFinisher'
  BY <1>8 DEF OneFinisher
<1> QED
  BY <1>4, <1>6, <1>7, <1>9

-----------------------------------------------------------------------------
(* The ways to the one finish.                                               *)

LEMMA FinishWithoutConnectionKeeps ==
  ASSUME StreamInv, NEW t \in Threads, FinishWithoutConnection(t)
  PROVE  StreamInv'
<1> USE DEF FinishWithoutConnection, connection, flags, rpc, peers, history
<1>1. CASE finishing \/ conn
  <2>1. Steps(t, "nohello", "idle")
    BY <1>1 DEF Steps, Places
  <2> QED
    BY <1>1, <2>1, MovesKeep DEF StreamInv, StreamTypes, FlagsFit
<1>2. CASE ~finishing /\ ~conn
  <2> USE <1>2 DEF StreamInv, At, Goes
  <2>1. /\ pc'[t] = "finish" /\ \A u \in Threads : u # t => pc'[u] = pc[u]
        /\ pc' \in [Threads -> Places]
    BY DEF StreamTypes, Places
  <2>2. StreamTypes'
    BY <2>1 DEF StreamTypes
  <2>3. FlagIsTheWrite'
    BY <2>1 DEF FlagIsTheWrite, Reported, Threads, Reactions
  <2>4. FlagsFit' /\ StartsOnce' /\ ReadIsKnown'
    BY <2>1 DEF FlagsFit, StartsOnce, ReadIsKnown, Threads, Reactions
  <2>5. OneFinisher /\ finishes = 0 /\ \A u \in Threads : ~Finishing(u)
    BY DEF OneFinisher, FlagsFit, StreamTypes
  <2>6. OneFinisher'
    BY <2>1, <2>5 DEF OneFinisher, Finishing
  <2> QED
    BY <2>2, <2>3, <2>4, <2>6
<1> QED
  BY <1>1, <1>2

LEMMA PumpKeeps ==
  ASSUME StreamInv, NEW t \in Threads, Pump(t)
  PROVE  StreamInv'
<1> USE DEF reactor, peers
<1>1. CASE Goes(t, "idle") /\ UNCHANGED <<finishIssued, outbox, inFlight, writes, wroteLate>>
  <2>1. Steps(t, "pump", "idle")
    BY <1>1 DEF Steps, Places, Pump
  <2> QED
    BY <1>1, <2>1, MovesKeep DEF Pump, history, StreamInv, StreamTypes, FlagsFit
<1>2. CASE /\ MayPump /\ outbox > 0
           /\ outbox' = outbox - 1 /\ inFlight' = TRUE
           /\ writes' = writes + 1 /\ wroteLate' = (wroteLate \/ finishes > 0)
           /\ Goes(t, "idle") /\ UNCHANGED finishIssued
  <2> USE <1>2 DEF StreamInv, At, Goes, Pump, MayPump
  <2>1. /\ pc'[t] = "idle" /\ \A u \in Threads : u # t => pc'[u] = pc[u]
        /\ pc' \in [Threads -> Places]
    BY DEF StreamTypes, Places
  <2>2. writes' \in Nat /\ outbox' \in 0 .. MaxOutbox
    BY StreamAssumption DEF StreamTypes, StreamAssumption
  <2>3. StreamTypes'
    <3>1. wroteLate' \in BOOLEAN
      BY Zenon DEF StreamTypes
    <3> QED
      BY <2>1, <2>2, <3>1 DEF StreamTypes
  <2>4. ~Reported' /\ writes' = 1
    BY <2>1 DEF FlagIsTheWrite, Reported, Threads, Reactions
  <2>5. FlagIsTheWrite'
    BY <2>4 DEF FlagIsTheWrite
  <2>6. FlagsFit' /\ StartsOnce' /\ ReadIsKnown'
    <3>1. FlagsFit' /\ StartsOnce'
      BY <2>1 DEF FlagsFit, StartsOnce, StreamTypes, Threads, Reactions
    <3>2. ReadIsKnown'
      BY <2>1 DEF ReadIsKnown, Threads, Reactions
    <3> QED
      BY <3>1, <3>2
  <2>7. ~preempted => ~wroteLate'
    <3>1. ~preempted => ~(finishes > 0) /\ ~wroteLate
      BY DEF OneFinisher, FlagsFit, StreamTypes
    <3> QED
      BY <3>1, Zenon
  <2>8. \A u \in Threads : Finishing(u)' <=> Finishing(u)
    BY <2>1 DEF Finishing
  <2>9. ~preempted' => OneFinisher'
    BY <2>7, <2>8 DEF OneFinisher
  <2> QED
    BY <2>3, <2>5, <2>6, <2>9
<1>3. CASE /\ MayPump /\ outbox = 0 /\ MayFinish
           /\ finishIssued' = TRUE
           /\ Goes(t, "endrpc") /\ UNCHANGED <<outbox, inFlight, writes, wroteLate>>
  <2> USE <1>3 DEF StreamInv, At, Goes, Pump, MayPump, MayFinish
  <2>1. /\ pc'[t] = "endrpc" /\ \A u \in Threads : u # t => pc'[u] = pc[u]
        /\ pc' \in [Threads -> Places]
    BY DEF StreamTypes, Places
  <2>2. StreamTypes'
    BY <2>1 DEF StreamTypes
  <2>3. FlagIsTheWrite'
    BY <2>1 DEF FlagIsTheWrite, Reported, Threads, Reactions
  <2>4. FlagsFit' /\ StartsOnce' /\ ReadIsKnown'
    BY <2>1 DEF FlagsFit, StartsOnce, ReadIsKnown, Threads, Reactions
  <2>5. ~preempted => finishes = 0 /\ \A u \in Threads : ~Finishing(u)
    BY DEF OneFinisher, FlagsFit, StreamTypes
  <2>6. ~preempted' => OneFinisher'
    BY <2>1, <2>5 DEF OneFinisher, Finishing, FlagsFit
  <2> QED
    BY <2>2, <2>3, <2>4, <2>6
<1> QED
  BY <1>1, <1>2, <1>3 DEF Pump

LEMMA EndRpcKeeps ==
  ASSUME StreamInv, NEW t \in Threads, EndRpc(t)
  PROVE  StreamInv'
<1> USE DEF StreamInv, EndRpc, At, Goes, connection, flags, rpc, peers, history
<1>1. /\ pc'[t] = "finish" /\ \A u \in Threads : u # t => pc'[u] = pc[u]
      /\ pc' \in [Threads -> Places]
  BY DEF StreamTypes, Places
<1>2. StreamTypes'
  BY <1>1 DEF StreamTypes
<1>3. FlagIsTheWrite'
  BY <1>1 DEF FlagIsTheWrite, Reported, Threads, Reactions
<1>4. FlagsFit' /\ StartsOnce' /\ ReadIsKnown'
  BY <1>1 DEF FlagsFit, StartsOnce, ReadIsKnown, Threads, Reactions
<1>5. \A u \in Threads : Finishing(u)' <=> Finishing(u)
  BY <1>1 DEF Finishing
<1>6. ~preempted' => OneFinisher'
  BY <1>5 DEF OneFinisher
<1> QED
  BY <1>2, <1>3, <1>4, <1>6

LEMMA FinishKeeps ==
  ASSUME StreamInv, NEW t \in Threads, Finish(t)
  PROVE  StreamInv'
<1> USE DEF StreamInv, Finish, At, Goes, reactor, connection, flags, peers, history
<1>1. /\ pc'[t] = "idle" /\ \A u \in Threads : u # t => pc'[u] = pc[u]
      /\ pc' \in [Threads -> Places]
  BY DEF StreamTypes, Places
<1>2. StreamTypes'
  BY <1>1 DEF StreamTypes
<1>3. FlagIsTheWrite'
  BY <1>1 DEF FlagIsTheWrite, Reported, Threads, Reactions
<1>4. FlagsFit' /\ StartsOnce' /\ ReadIsKnown'
  BY <1>1 DEF FlagsFit, StartsOnce, ReadIsKnown, Threads, Reactions
<1>5. Finishing(t) /\ (~preempted => finishes = 0)
  BY DEF OneFinisher, Finishing, StreamTypes
<1>6. \A u \in Threads : Finishing(u)' <=> u # t /\ Finishing(u)
  BY <1>1 DEF Finishing
<1>7. ~preempted' => OneFinisher'
  BY <1>5, <1>6 DEF OneFinisher, StreamTypes
<1> QED
  BY <1>2, <1>3, <1>4, <1>7

-----------------------------------------------------------------------------
(* Reads.                                                                    *)

LEMMA ReaderKeeps ==
  ASSUME StreamInv, ReadDone \/ Reader
  PROVE  StreamInv'
<1> USE DEF reactor, connection, flags, rpc, peers, history
<1>1. CASE ReadDone
  <2>1. Steps("read", "idle", "onread")
    BY <1>1 DEF Steps, Places, ReadDone, Threads, Reactions
  <2> QED
    BY <1>1, <2>1, MovesKeep DEF ReadDone, StreamInv, StreamTypes, FlagsFit, ReadIsKnown
<1>2. CASE OnReadDone
  <2>1. PICK there \in {"disconnect", "nohello", "again", "publish"} :
           /\ Goes("read", there)
           /\ there = "publish" => ~conn
           /\ alarm' = "set" => alarm = "set"
    <3>1. ReadIsKnown /\ At("read", "onread")
      BY <1>2 DEF OnReadDone, StreamInv
    <3>2. CASE got = "end" /\ conn
      BY <1>2, <3>2 DEF OnReadDone
    <3>3. CASE got = "end" /\ ~conn
      BY <1>2, <3>3 DEF OnReadDone
    <3>4. CASE got # "end" /\ conn
      BY <1>2, <3>4 DEF OnReadDone
    <3>5. CASE got = "no hello" /\ ~conn
      BY <1>2, <3>5 DEF OnReadDone
    <3>6. CASE got = "hello" /\ ~conn
      BY <1>2, <3>6 DEF OnReadDone
    <3> QED
      BY <3>1, <3>2, <3>3, <3>4, <3>5, <3>6 DEF ReadIsKnown, At
  <2>2. Steps("read", "onread", there)
    BY <1>2, <2>1 DEF Steps, Places, OnReadDone, Threads, Reactions
  <2> QED
    BY <1>2, <2>1, <2>2, MovesKeep DEF OnReadDone, StreamInv, StreamTypes, FlagsFit
<1>3. CASE DisconnectThenClose
  <2>1. PICK there \in {"idle", "pump"} : Goes("read", there)
    BY <1>3 DEF DisconnectThenClose, Closed
  <2>2. Steps("read", "disconnect", there)
    BY <1>3, <2>1 DEF Steps, Places, DisconnectThenClose, Threads, Reactions
  <2>3. finishRequested' \in BOOLEAN /\ (finishRequested => finishRequested')
    BY <1>3 DEF DisconnectThenClose, Closed, StreamInv, StreamTypes
  <2> QED
    BY <1>3, <2>2, <2>3, MovesKeep
       DEF DisconnectThenClose, StreamInv, StreamTypes, FlagsFit
<1>4. CASE PublishConnection
  <2> USE <1>4 DEF StreamInv, PublishConnection, At, Goes
  <2>1. /\ pc'["read"] = "join" /\ \A u \in Threads : u # "read" => pc'[u] = pc[u]
        /\ pc' \in [Threads -> Places]
    BY DEF StreamTypes, Places, Threads, Reactions
  <2>2. StreamTypes'
    BY <2>1 DEF StreamTypes
  <2>3. FlagIsTheWrite'
    BY <2>1 DEF FlagIsTheWrite, Reported, Threads, Reactions
  <2>4. FlagsFit' /\ StartsOnce' /\ ReadIsKnown'
    BY <2>1 DEF FlagsFit, StartsOnce, ReadIsKnown, Threads, Reactions
  <2>5. \A u \in Threads : Finishing(u)' <=> Finishing(u)
    BY <2>1 DEF Finishing
  <2>6. ~conn /\ ~preempted /\ OneFinisher
    BY DEF FlagsFit
  <2>7. ~preempted' => OneFinisher'
    BY <2>5, <2>6 DEF OneFinisher
  <2> QED
    BY <2>2, <2>3, <2>4, <2>7
<1>5. CASE JoinIt
  <2>1. PICK there \in {"idle", "pump", "again"} : Goes("read", there)
    BY <1>5 DEF JoinIt, Closed
  <2>2. Steps("read", "join", there)
    BY <1>5, <2>1 DEF Steps, Places, JoinIt, Threads, Reactions
  <2>3. finishRequested' \in BOOLEAN /\ (finishRequested => finishRequested')
    BY <1>5 DEF JoinIt, Closed, StreamInv, StreamTypes
  <2> QED
    BY <1>5, <2>2, <2>3, MovesKeep DEF JoinIt, StreamInv, StreamTypes, FlagsFit
<1>6. CASE StartReadUnlessFinishing
  <2>1. Steps("read", "again", "idle")
    BY <1>6 DEF Steps, Places, StartReadUnlessFinishing, Threads, Reactions
  <2> QED
    BY <1>6, <2>1, MovesKeep DEF StartReadUnlessFinishing, StreamInv, StreamTypes, FlagsFit
<1> QED
  BY <1>1, <1>2, <1>3, <1>4, <1>5, <1>6 DEF Reader

-----------------------------------------------------------------------------
(* Writes, cancellation and the hello deadline.                              *)

LEMMA WriteKeeps ==
  ASSUME StreamInv, WriteDone \/ OnWriteDone
  PROVE  StreamInv'
<1> USE DEF StreamInv, At, Goes, reactor, connection, flags, rpc, peers, history
<1>1. CASE WriteDone
  <2> USE <1>1 DEF WriteDone
  <2>1. PICK there \in {"written", "failed"} : Goes("write", there)
    OBVIOUS
  <2>2. /\ pc'["write"] = there /\ \A u \in Threads : u # "write" => pc'[u] = pc[u]
        /\ pc' \in [Threads -> Places]
    BY <2>1 DEF StreamTypes, Places, Threads, Reactions
  <2>3. StreamTypes'
    BY <2>2 DEF StreamTypes
  <2>4. FlagIsTheWrite'
    BY <2>2 DEF FlagIsTheWrite, Reported, StreamTypes
  <2>5. FlagsFit' /\ StartsOnce' /\ ReadIsKnown'
    BY <2>2 DEF FlagsFit, StartsOnce, ReadIsKnown, Threads, Reactions
  <2>6. \A u \in Threads : Finishing(u)' <=> Finishing(u)
    BY <2>2 DEF Finishing
  <2>7. ~preempted' => OneFinisher'
    BY <2>6 DEF OneFinisher
  <2> QED
    BY <2>3, <2>4, <2>5, <2>7
<1>2. CASE OnWriteDone
  <2> USE <1>2 DEF OnWriteDone
  <2>1. /\ pc'["write"] = "pump" /\ \A u \in Threads : u # "write" => pc'[u] = pc[u]
        /\ pc' \in [Threads -> Places]
    BY DEF StreamTypes, Places, Threads, Reactions
  <2>2. /\ outbox' \in 0 .. MaxOutbox /\ finishRequested' \in BOOLEAN
        /\ finishRequested => finishRequested'
        /\ finishIssued => outbox' = 0
    <3>1. CASE At("write", "failed")
      BY <3>1, StreamAssumption DEF StreamTypes, FlagsFit, StreamAssumption
    <3>2. CASE ~At("write", "failed")
      BY <3>2 DEF StreamTypes, FlagsFit
    <3> QED
      BY <3>1, <3>2
  <2>3. StreamTypes'
    BY <2>1, <2>2 DEF StreamTypes
  <2>4. FlagIsTheWrite'
    BY <2>1 DEF FlagIsTheWrite, Reported, StreamTypes
  <2>5. FlagsFit' /\ StartsOnce' /\ ReadIsKnown'
    BY <2>1, <2>2 DEF FlagsFit, StartsOnce, ReadIsKnown, Threads, Reactions
  <2>6. \A u \in Threads : Finishing(u)' <=> Finishing(u)
    BY <2>1 DEF Finishing
  <2>7. ~preempted' => OneFinisher'
    BY <2>6 DEF OneFinisher
  <2> QED
    BY <2>3, <2>4, <2>5, <2>7
<1> QED
  BY <1>1, <1>2

LEMMA CancelKeeps ==
  ASSUME StreamInv, Cancel \/ OnCancel \/ OnCancelled
  PROVE  StreamInv'
<1> USE DEF reactor, connection, flags, rpc, peers, history
<1>1. CASE Cancel
  <2>1. Steps("cancel", "idle", "oncancel")
    BY <1>1 DEF Steps, Places, Cancel, At, StreamInv, StartsOnce, Threads, Reactions
  <2> QED
    BY <1>1, <2>1, MovesKeep DEF Cancel, StreamInv, StreamTypes, FlagsFit
<1>2. CASE OnCancel
  <2>1. PICK there \in {"cancelled", "nohello"} : Goes("cancel", there)
    BY <1>2 DEF OnCancel
  <2>2. Steps("cancel", "oncancel", there)
    BY <1>2, <2>1 DEF Steps, Places, OnCancel, Threads, Reactions
  <2> QED
    BY <1>2, <2>2, MovesKeep DEF OnCancel, StreamInv, StreamTypes, FlagsFit
<1>3. CASE OnCancelled
  <2>1. Steps("cancel", "cancelled", "pump")
    BY <1>3 DEF Steps, Places, OnCancelled, Threads, Reactions
  <2>2. outbox' \in 0 .. MaxOutbox
    BY <1>3, StreamAssumption DEF OnCancelled, StreamAssumption
  <2> QED
    BY <1>3, <2>1, <2>2, MovesKeep DEF OnCancelled, StreamInv, StreamTypes, FlagsFit
<1> QED
  BY <1>1, <1>2, <1>3

LEMMA AlarmKeeps ==
  ASSUME StreamInv, Alarm \/ OnHelloDeadline
  PROVE  StreamInv'
<1> USE DEF reactor, connection, flags, rpc, peers, history
<1>1. CASE Alarm
  <2>1. Steps("alarm", "idle", "onalarm")
    BY <1>1 DEF Steps, Places, Alarm, At, StreamInv, StartsOnce, Threads
  <2> QED
    BY <1>1, <2>1, MovesKeep DEF Alarm, StreamInv, StreamTypes, FlagsFit
<1>2. CASE OnHelloDeadline
  <2>1. PICK there \in {"idle", "nohello"} : Goes("alarm", there)
    BY <1>2 DEF OnHelloDeadline
  <2>2. Steps("alarm", "onalarm", there)
    BY <1>2, <2>1 DEF Steps, Places, OnHelloDeadline, Threads
  <2> QED
    BY <1>2, <2>2, MovesKeep DEF OnHelloDeadline, StreamInv, StreamTypes, FlagsFit
<1> QED
  BY <1>1, <1>2

-----------------------------------------------------------------------------
(* Games and the matchmaker, and the end of the stream.                      *)

LEMMA UserKeeps ==
  ASSUME StreamInv, Send \/ \E u \in Users : CloseAfterFlush(u)
  PROVE  StreamInv'
<1> USE DEF reactor, connection, flags, rpc, peers, history
<1>1. CASE Send
  <2>1. Steps("game", "idle", "pump")
    BY <1>1 DEF Steps, Places, Send, Threads, Users
  <2>2. /\ outbox' \in 0 .. MaxOutbox /\ finishRequested' \in BOOLEAN
        /\ finishRequested => finishRequested'
        /\ finishIssued => outbox' = 0
        /\ finishIssued' = finishIssued
    <3> USE <1>1 DEF Send, Accepts, StreamInv, StreamTypes, FlagsFit
    <3>1. CASE Accepts /\ outbox < MaxOutbox
      BY <3>1, StreamAssumption DEF StreamAssumption
    <3>2. CASE Accepts /\ ~(outbox < MaxOutbox)
      BY <3>2
    <3>3. CASE ~Accepts
      BY <3>3
    <3> QED
      BY <3>1, <3>2, <3>3
  <2>3. UNCHANGED <<conn, finishing, alarm, transport, inFlight, writes, finishes, got,
                    cancelled, done, history>>
    BY <1>1 DEF Send
  <2> QED
    BY <2>1, <2>2, <2>3, MovesKeep
<1>2. ASSUME NEW u \in Users, CloseAfterFlush(u)
      PROVE  StreamInv'
  <2>1. PICK there \in {"idle", "pump"} : Goes(u, there)
    BY <1>2 DEF CloseAfterFlush, Closed
  <2>2. Steps(u, "idle", there)
    BY <1>2, <2>1 DEF Steps, Places, CloseAfterFlush, Threads
  <2>3. finishRequested' \in BOOLEAN /\ (finishRequested => finishRequested')
    BY <1>2 DEF CloseAfterFlush, Closed, StreamInv, StreamTypes
  <2>4. u # "cancel" /\ u # "alarm"
    BY DEF Users
  <2> QED
    BY <1>2, <2>1, <2>2, <2>3, <2>4, MovesKeep
       DEF CloseAfterFlush, StreamInv, StreamTypes, FlagsFit
<1> QED
  BY <1>1, <1>2

LEMMA OnDoneKeeps ==
  ASSUME StreamInv, OnDone
  PROVE  StreamInv'
<1> USE DEF StreamInv, OnDone, peers, history
<1>1. StreamTypes'
  <2>1. outbox' \in 0 .. MaxOutbox /\ transport' \in BOOLEAN
    <3>1. CASE conn
      <4>1. outbox' \in 0 .. MaxOutbox
        BY <3>1, StreamAssumption DEF StreamTypes, StreamAssumption
      <4> QED
        BY <3>1, <4>1, Zenon
    <3>2. CASE ~conn
      BY <3>2 DEF StreamTypes
    <3> QED
      BY <3>1, <3>2
  <2> QED
    BY <2>1 DEF StreamTypes
<1>2. FlagIsTheWrite'
  BY DEF FlagIsTheWrite, Reported
<1>3. FlagsFit' /\ StartsOnce' /\ ReadIsKnown'
  BY DEF FlagsFit, StartsOnce, ReadIsKnown
<1>4. ~preempted' => OneFinisher'
  BY DEF OneFinisher, Finishing
<1> QED
  BY <1>1, <1>2, <1>3, <1>4

-----------------------------------------------------------------------------
LEMMA StreamStep ==
  ASSUME StreamInv, [PlayNext]_playVars
  PROVE  StreamInv'
<1>1. CASE UNCHANGED playVars
  <2>1. /\ pc' = pc /\ conn' = conn /\ finishing' = finishing /\ alarm' = alarm
        /\ transport' = transport /\ outbox' = outbox /\ inFlight' = inFlight
        /\ finishRequested' = finishRequested
        /\ finishIssued' = finishIssued /\ disconnected' = disconnected
        /\ reading' = reading /\ got' = got
        /\ writes' = writes /\ finishes' = finishes /\ cancelled' = cancelled /\ done' = done
        /\ joined' = joined /\ actions' = actions /\ sends' = sends /\ preempted' = preempted
        /\ wroteLate' = wroteLate
    BY <1>1 DEF playVars, reactor, connection, flags, rpc, peers, history
  <2>2. StreamTypes'
    BY <2>1 DEF StreamInv, StreamTypes
  <2>3. FlagIsTheWrite'
    BY <2>1 DEF StreamInv, FlagIsTheWrite, Reported
  <2>4. FlagsFit' /\ StartsOnce' /\ ReadIsKnown'
    BY <2>1 DEF StreamInv, FlagsFit, StartsOnce, ReadIsKnown
  <2>5. ~preempted' => OneFinisher'
    BY <2>1 DEF StreamInv, OneFinisher, Finishing
  <2> QED
    BY <2>2, <2>3, <2>4, <2>5 DEF StreamInv
<1>2. CASE Owed
  <2>1. CASE \E t \in Threads : Ending(t)
    BY <2>1, FinishWithoutConnectionKeeps, PumpKeeps, EndRpcKeeps, FinishKeeps DEF Ending
  <2>2. CASE Reader \/ ReadDone
    BY <2>2, ReaderKeeps
  <2>3. CASE OnWriteDone \/ WriteDone
    BY <2>3, WriteKeeps
  <2>4. CASE OnCancel \/ OnCancelled
    BY <2>4, CancelKeeps
  <2>5. CASE OnHelloDeadline
    BY <2>5, AlarmKeeps
  <2>6. CASE OnDone
    BY <2>6, OnDoneKeeps
  <2> QED
    BY <1>2, <2>1, <2>2, <2>3, <2>4, <2>5, <2>6 DEF Owed
<1>3. CASE ReadDone
  BY <1>3, ReaderKeeps
<1>4. CASE WriteDone
  BY <1>4, WriteKeeps
<1>5. CASE Cancel
  BY <1>5, CancelKeeps
<1>6. CASE Alarm
  BY <1>6, AlarmKeeps
<1>7. CASE Send \/ \E u \in Users : CloseAfterFlush(u)
  BY <1>7, UserKeeps
<1> QED
  BY <1>1, <1>2, <1>3, <1>4, <1>5, <1>6, <1>7 DEF PlayNext

(* The Play stream of the composition takes the Play stream's own steps.     *)
LEMMA PlayInvariant == StreamsSpec => []StreamInv
<1>1. [PlayMoves \/ FleetMoves]_streamVars => [PlayNext]_playVars
  BY DEF PlayMoves, FleetMoves, streamVars
<1>2. StreamInv /\ [PlayMoves \/ FleetMoves]_streamVars => StreamInv'
  BY <1>1, StreamStep
<1>3. StreamsInit => StreamInv
  BY StreamInit, StreamAssumption DEF StreamsInit
<1> QED
  BY <1>2, <1>3, PTL DEF StreamsSpec

(* At most one write is out (player_connection.h), for every outbox and      *)
(* however the reactions, the games and the reaper interleave.               *)
THEOREM StreamsOneWrite == StreamsSpec => []OneWriteInFlight
<1>1. StreamInv => OneWriteInFlight
  BY DEF StreamInv, StreamTypes, FlagIsTheWrite, OneWriteInFlight
<1> QED
  BY <1>1, PlayInvariant, PTL

(* A connection whose hello was in time finishes its stream once, after the  *)
(* last write, and not when the reactor has gone (play_reactor.h 42): every  *)
(* way to Finish passes finish_issued_ under the connection's lock.          *)
THEOREM StreamsOwnFinish == StreamsSpec => []ConnectionOwnsFinish
<1>1. StreamInv => ConnectionOwnsFinish
  BY DEF StreamInv, OneFinisher, Finishing, ConnectionOwnsFinish
<1> QED
  BY <1>1, PlayInvariant, PTL

-----------------------------------------------------------------------------
(* The end.                                                                  *)

(* A step in which the game goes on, or concludes what was not concluded.    *)
LEMMA ConcludeEndsOnce ==
  ASSUME EndsOnce, ~concluded, NEW ranked, NEW time, NEW q, Conclude(ranked, time, q)
  PROVE  EndsOnce'
BY DEF EndsOnce, Conclude

LEMMA ForfeitEndsOnce ==
  ASSUME EndsOnce, ~concluded, NEW s, Forfeit(s)
  PROVE  EndsOnce'
<1>1. CASE Over(forfeited')
  BY <1>1, ConcludeEndsOnce DEF Forfeit
<1>2. CASE ~Over(forfeited')
  BY <1>2 DEF Forfeit, PlaysOn, EndsOnce
<1> QED
  BY <1>1, <1>2

LEMMA AppliedEndsOnce ==
  ASSUME EndsOnce, ~concluded, NEW s, NEW action, Applied(s, action)
  PROVE  EndsOnce'
<1>1. CASE \E ranked \in Rankings : Conclude(ranked, used', forfeited)
  BY <1>1, ConcludeEndsOnce
<1>2. CASE UNCHANGED <<concluded, stored>>
  BY <1>2 DEF EndsOnce
<1> QED
  BY <1>1, <1>2 DEF Applied

LEMMA RoundEndsOnce ==
  ASSUME EndsOnce, Round
  PROVE  EndsOnce'
<1>1. ~concluded
  BY DEF Round, EndsOnce, BuiltinPlays, ClientCannotPlay, Ask, Wait, ClientPlays, Due, ToPlay
<1>2. CASE GameIsDecided
  BY <1>1, <1>2, ConcludeEndsOnce DEF GameIsDecided
<1>3. ASSUME NEW s \in Seat, BuiltinPlays(s)
      PROVE  EndsOnce'
  BY <1>1, <1>3, AppliedEndsOnce, ForfeitEndsOnce DEF BuiltinPlays
<1>4. ASSUME NEW s \in Seat, ClientCannotPlay(s)
      PROVE  EndsOnce'
  BY <1>1, <1>4, ForfeitEndsOnce DEF ClientCannotPlay
<1>5. ASSUME NEW s \in Seat, Ask(s) \/ Wait(s)
      PROVE  EndsOnce'
  BY <1>1, <1>5 DEF Ask, Wait, EndsOnce, game, life
<1>6. ASSUME NEW s \in Seat, ClientPlays(s)
      PROVE  EndsOnce'
  <2>1. CASE Applied(s, Head(inbox[s]))
    BY <1>1, <2>1, AppliedEndsOnce
  <2>2. CASE Conclude(Level, Level, forfeited')
    BY <1>1, <2>2, ConcludeEndsOnce
  <2>3. CASE PlaysOn(s)
    BY <1>1, <2>3 DEF PlaysOn, EndsOnce
  <2> QED
    BY <1>6, <2>1, <2>2, <2>3 DEF ClientPlays
<1> QED
  BY <1>2, <1>3, <1>4, <1>5, <1>6 DEF Round

LEMMA EndsOnceStep ==
  ASSUME EndsOnce, [Next]_vars
  PROVE  EndsOnce'
<1>1. CASE Round
  BY <1>1, RoundEndsOnce
<1>2. CASE Begin \/ Step
  <2>1. UNCHANGED <<concluded, stored>>
    BY <1>2 DEF Begin, Step, game
  <2>2. concluded => ~running'
    BY <1>2, Zenon DEF Begin, Step
  <2> QED
    BY <2>1, <2>2 DEF EndsOnce
<1>3. CASE Abort
  <2>1. CASE ~concluded
    BY <1>3, <2>1, ConcludeEndsOnce DEF Abort, StillPlaying
  <2>2. CASE concluded
    BY <1>3, <2>2 DEF Abort, StillPlaying, EndsOnce
  <2> QED
    BY <2>1, <2>2
<1>4. CASE Deadline
  <2>1. CASE Current(Head(tasks).epoch) /\ waiting # NoSeat
    BY <1>4, <2>1, ForfeitEndsOnce DEF Deadline, Current
  <2>2. CASE ~(Current(Head(tasks).epoch) /\ waiting # NoSeat)
    BY <1>4, <2>2 DEF Deadline, EndsOnce
  <2> QED
    BY <2>1, <2>2
<1>5. CASE Starting \/ Timer \/ Shutdown \/ UNCHANGED vars
  <2>1. UNCHANGED <<running, concluded, stored>>
    BY <1>5 DEF Starting, Own, PostBegin, Timer, PopTimer, PostDeadline, Shutdown, vars, game,
                strand
  <2> QED
    BY <2>1 DEF EndsOnce
<1>6. ASSUME NEW s \in Seat, PushAction(s) \/ Disconnect(s)
      PROVE  EndsOnce'
  BY <1>6 DEF PushAction, Disconnect, EndsOnce, game
<1> QED
  BY <1>1, <1>2, <1>3, <1>4, <1>5, <1>6 DEF Next, Strand

LEMMA EndsOnceInit == Init => EndsOnce
BY DEF Init, EndsOnce

(* A game stores one record, whichever of the last move, the last forfeit, a *)
(* deadline and the shutdown comes first (game_run.cc, Conclude), and its    *)
(* loop does not run after it.                                               *)
THEOREM GameEndsOnce == Spec => []EndsOnce
BY EndsOnceInit, EndsOnceStep, PTL DEF Spec, SafetySpec

LEMMA NothingAfterTheEnd ==
  ASSUME EndsOnce, [Next]_vars, concluded
  PROVE  UNCHANGED <<moves, player, forfeited, places, over, concluded, used>>
<1>1. ~Round
  BY DEF Round, EndsOnce, BuiltinPlays, ClientCannotPlay, Ask, Wait, ClientPlays, Due, ToPlay
<1>2. CASE Begin \/ Step
  BY <1>2 DEF Begin, Step, game, clients
<1>3. CASE Abort \/ Deadline
  BY <1>3 DEF Abort, Deadline, StillPlaying, Current
<1>4. CASE Starting \/ Timer \/ Shutdown \/ UNCHANGED vars
  BY <1>4 DEF Starting, Own, PostBegin, Timer, PopTimer, PostDeadline, Shutdown, vars, game,
              clients
<1>5. CASE \E s \in Seat : PushAction(s) \/ Disconnect(s)
  BY <1>5 DEF PushAction, Disconnect, game
<1> QED
  BY <1>1, <1>2, <1>3, <1>4, <1>5 DEF Next, Strand

(* Nothing of the game changes after its end: neither by a round, which does *)
(* not run, nor by what is still posted to its strand.                       *)
THEOREM GameEndIsFinal == Spec => EndIsFinal
<1>1. EndsOnce /\ [Next]_vars =>
        [concluded => UNCHANGED <<moves, player, forfeited, places, over>>]_vars
  BY NothingAfterTheEnd
<1> QED
  BY <1>1, EndsOnceInit, EndsOnceStep, PTL DEF Spec, SafetySpec, EndIsFinal

-----------------------------------------------------------------------------
(* Deadlines.  While the game waits for a client, the current epoch is the   *)
(* one whose timer was armed for that client at this move: every step that   *)
(* ends the wait or makes a move takes the next epoch or waits for nobody.   *)

TurnTypes == forfeited \in Seq(Seat) /\ waiting \in Seat \cup {NoSeat}
EpochIsOfTheTurn ==
  ~concluded /\ waiting # NoSeat =>
    /\ waiting = player /\ waiting \notin builtin
    /\ epoch \in DOMAIN armed /\ armed[epoch] = <<waiting, moves>>
TurnInv == TurnTypes /\ EpochIsOfTheTurn

LEMMA ForfeitKeepsTurn ==
  ASSUME TurnInv, NEW s \in Seat, Forfeit(s)
  PROVE  TurnInv'
<1>1. forfeited' \in Seq(Seat)
  BY DEF Forfeit, TurnInv, TurnTypes
<1>2. CASE Over(forfeited')
  BY <1>1, <1>2 DEF Forfeit, Conclude, TurnInv, TurnTypes, EpochIsOfTheTurn
<1>3. CASE ~Over(forfeited')
  BY <1>1, <1>3 DEF Forfeit, PlaysOn, TurnInv, TurnTypes, EpochIsOfTheTurn
<1> QED
  BY <1>2, <1>3

LEMMA RoundKeepsTurn ==
  ASSUME TurnInv, Round
  PROVE  TurnInv'
<1> USE DEF TurnInv
<1>1. CASE GameIsDecided
  BY <1>1 DEF GameIsDecided, Conclude, TurnTypes, EpochIsOfTheTurn
<1>2. ASSUME NEW s \in Seat, BuiltinPlays(s)
      PROVE  TurnInv'
  <2>1. CASE Applied(s, "legal") /\ UNCHANGED <<waiting, timers, epoch>>
    <3>1. concluded \/ waiting = NoSeat
      BY <1>2 DEF BuiltinPlays, ToPlay, EpochIsOfTheTurn
    <3> QED
      BY <2>1, <3>1 DEF Applied, TurnTypes, EpochIsOfTheTurn
  <2>2. CASE Applied(s, "illegal") /\ UNCHANGED waiting
    BY <2>2 DEF Applied, Conclude, TurnTypes, EpochIsOfTheTurn
  <2>3. CASE Forfeit(s)
    BY <2>3, ForfeitKeepsTurn
  <2> QED
    BY <1>2, <2>1, <2>2, <2>3 DEF BuiltinPlays
<1>3. ASSUME NEW s \in Seat, ClientCannotPlay(s)
      PROVE  TurnInv'
  BY <1>3, ForfeitKeepsTurn DEF ClientCannotPlay
<1>4. ASSUME NEW s \in Seat, Ask(s)
      PROVE  TurnInv'
  <2>1. waiting' = s /\ player' = s /\ s \notin builtin'
    BY <1>4 DEF Ask, Due, ToPlay
  <2>2. epoch' \in DOMAIN armed' /\ armed'[epoch'] = <<s, moves'>>
    BY <1>4 DEF Ask
  <2> QED
    BY <1>4, <2>1, <2>2 DEF Ask, TurnTypes, EpochIsOfTheTurn
<1>5. ASSUME NEW s \in Seat, Wait(s)
      PROVE  TurnInv'
  BY <1>5 DEF Wait, game, TurnTypes, EpochIsOfTheTurn
<1>6. ASSUME NEW s \in Seat, ClientPlays(s)
      PROVE  TurnInv'
  <2>1. CASE Applied(s, Head(inbox[s])) /\ waiting' = NoSeat
    <3>1. forfeited' = forfeited
      BY <2>1 DEF Applied
    <3> QED
      BY <2>1, <3>1 DEF TurnTypes, EpochIsOfTheTurn
  <2>2. CASE /\ forfeited' = Append(forfeited, s)
             /\ waiting' = NoSeat
    <3>1. forfeited' \in Seq(Seat)
      BY <2>2 DEF TurnTypes
    <3> QED
      BY <2>2, <3>1 DEF TurnTypes, EpochIsOfTheTurn
  <2> QED
    BY <1>6, <2>1, <2>2 DEF ClientPlays, PlaysOn
<1> QED
  BY <1>1, <1>2, <1>3, <1>4, <1>5, <1>6 DEF Round

LEMMA TurnStep ==
  ASSUME TurnInv, [Next]_vars
  PROVE  TurnInv'
<1> USE DEF TurnInv
<1>1. CASE Round
  BY <1>1, RoundKeepsTurn
<1>2. CASE Begin \/ Step
  BY <1>2 DEF Begin, Step, game, TurnTypes, EpochIsOfTheTurn
<1>3. CASE Abort
  <2>1. CASE ~concluded
    BY <1>3, <2>1 DEF Abort, StillPlaying, Conclude, TurnTypes, EpochIsOfTheTurn
  <2>2. CASE concluded
    BY <1>3, <2>2 DEF Abort, StillPlaying, TurnTypes, EpochIsOfTheTurn
  <2> QED
    BY <2>1, <2>2
<1>4. CASE Deadline
  <2>1. CASE Current(Head(tasks).epoch) /\ waiting # NoSeat
    <3>1. waiting \in Seat /\ Forfeit(waiting)
      BY <1>4, <2>1 DEF Deadline, TurnTypes
    <3> QED
      BY <3>1, ForfeitKeepsTurn
  <2>2. CASE ~(Current(Head(tasks).epoch) /\ waiting # NoSeat)
    BY <1>4, <2>2 DEF Deadline, TurnTypes, EpochIsOfTheTurn
  <2> QED
    BY <2>1, <2>2
<1>5. CASE Starting \/ Timer \/ Shutdown \/ UNCHANGED vars
  BY <1>5 DEF Starting, Own, PostBegin, Timer, PopTimer, PostDeadline, Shutdown, vars, game,
              TurnTypes, EpochIsOfTheTurn
<1>6. ASSUME NEW s \in Seat, PushAction(s) \/ Disconnect(s)
      PROVE  TurnInv'
  BY <1>6 DEF PushAction, Disconnect, game, TurnTypes, EpochIsOfTheTurn
<1> QED
  BY <1>1, <1>2, <1>3, <1>4, <1>5, <1>6 DEF Next, Strand

LEMMA TurnInit == Init => TurnInv
BY DEF Init, TurnInv, TurnTypes, EpochIsOfTheTurn

(* A deadline punishes only the very turn its timer was armed for: Cancel is *)
(* best effort, and the epoch a timer carries tells a late one apart         *)
(* (game_run.cc, OnDeadline).                                                *)
THEOREM GameDeadlineIsFair == Spec => DeadlineIsFair
<1>1. TurnInv /\ [Next]_vars =>
        [Deadline /\ forfeited' # forfeited =>
           armed[Head(tasks).epoch] = <<Last(forfeited'), moves>>]_vars
  <2> SUFFICES ASSUME TurnInv, Deadline, forfeited' # forfeited
               PROVE  armed[Head(tasks).epoch] = <<Last(forfeited'), moves>>
    OBVIOUS
  <2>1. Current(Head(tasks).epoch) /\ waiting # NoSeat /\ Forfeit(waiting)
    BY DEF Deadline
  <2>2. armed[Head(tasks).epoch] = <<waiting, moves>>
    BY <2>1 DEF Current, TurnInv, EpochIsOfTheTurn
  <2>3. forfeited' = Append(forfeited, waiting) /\ forfeited \in Seq(Seat)
    BY <2>1 DEF Forfeit, TurnInv, TurnTypes
  <2>4. Last(forfeited') = waiting
    BY <2>3 DEF Last
  <2> QED
    BY <2>2, <2>4
<1> QED
  BY <1>1, TurnInit, TurnStep, PTL DEF Spec, SafetySpec, DeadlineIsFair

-----------------------------------------------------------------------------
(* The final placing.                                                        *)

LEMMA LateIsAPosition ==
  ASSUME NEW q \in Seq(Seat), IsInjective(q)
  PROVE  /\ \A i \in 1 .. Len(q) : Late(q[i], q) = Len(q) + 1 - i
         /\ \A s \in Seat : s \notin Range(q) => Late(s, q) = 0
         /\ \A s \in Seat : s \in Range(q) => \E i \in 1 .. Len(q) : s = q[i]
<1>1. DOMAIN q = 1 .. Len(q) /\ Len(q) \in Nat
  BY LenProperties
<1>2. ASSUME NEW i \in 1 .. Len(q)
      PROVE  Late(q[i], q) = Len(q) + 1 - i
  <2> DEFINE I == {k \in 1 .. Len(q) : q[k] = q[i]}
  <2>1. I = {i}
    BY <1>1 DEF IsInjective
  <2>2. Min(I) = i
    <3>1. i \in I /\ \A y \in I : i <= y
      BY <2>1
    <3> QED
      BY <2>1, <3>1 DEF Min
  <2>3. SelectInSeq(q, LAMBDA x : x = q[i]) = i
    BY <2>1, <2>2 DEF SelectInSeq
  <2>4. q[i] \in Range(q)
    BY <1>1 DEF Range
  <2> QED
    BY <2>3, <2>4 DEF Late
<1> QED
  BY <1>1, <1>2 DEF Late, Range

(* Before is a strict weak order on the triples it compares.                 *)
LEMMA BeforeIsAnOrder ==
  ASSUME NEW a \in Int \X Int \X Int, NEW b \in Int \X Int \X Int, NEW c \in Int \X Int \X Int
  PROVE  /\ ~Before(a, a)
         /\ Before(a, b) /\ Before(b, c) => Before(a, c)
         /\ Before(a, b) => Before(a, c) \/ Before(c, b)
BY DEF Before

IsRankedBy(p, ranked, time, q) ==
  /\ \A s \in Seat : p[s] = Cardinality({t \in Seat : p[t] < p[s]})
  /\ \A s, t \in Seat : p[t] < p[s] <=>
       Before(RankOf(t, ranked, time, q), RankOf(s, ranked, time, q))

(* Placed ranks by Before: a seat's place is how many are placed before it.  *)
LEMMA PlacedByRank ==
  ASSUME NEW ranked \in [Seat -> Nat], NEW time \in [Seat -> Nat],
         NEW q \in Seq(Seat), IsInjective(q), GameAssumption,
         NEW p, p = Placed(ranked, time, q)
  PROVE  IsRankedBy(p, ranked, time, q)
<1> DEFINE Behind(t, s) == Before(RankOf(t, ranked, time, q), RankOf(s, ranked, time, q))
           Ahead(s) == {t \in Seat : Behind(t, s)}
           Place(s) == Cardinality(Ahead(s))
<1>1. \A s \in Seat : Late(s, q) \in Int
  <2>1. Len(q) \in Nat
    BY LenProperties
  <2>2. \A i \in 1 .. Len(q) : Late(q[i], q) \in Int
    <3>1. \A i \in 1 .. Len(q) : Late(q[i], q) = Len(q) + 1 - i
      BY LateIsAPosition
    <3> QED
      BY <2>1, <3>1
  <2>3. ASSUME NEW s \in Seat
        PROVE  Late(s, q) \in Int
    <3>1. CASE s \in Range(q)
      <4>1. PICK i \in 1 .. Len(q) : s = q[i]
        BY <3>1, LateIsAPosition
      <4> QED
        BY <4>1, <2>2
    <3>2. CASE s \notin Range(q)
      <4>1. Late(s, q) = 0
        BY <3>2, LateIsAPosition
      <4> QED
        BY <4>1
    <3> QED
      BY <3>1, <3>2
  <2> QED
    BY <2>3
<1>2. \A s \in Seat : RankOf(s, ranked, time, q) \in Int \X Int \X Int
  BY <1>1 DEF RankOf
<1>3. \A s, t, u \in Seat : /\ ~Behind(s, s)
                            /\ Behind(s, t) /\ Behind(t, u) => Behind(s, u)
                            /\ Behind(s, t) => Behind(s, u) \/ Behind(u, t)
  BY <1>2, BeforeIsAnOrder
<1>4. IsFiniteSet(Seat)
  BY FS_Interval DEF Seat, GameAssumption
<1>5. \A s \in Seat : IsFiniteSet(Ahead(s)) /\ Place(s) \in Nat
  BY <1>4, FS_Subset, FS_CardinalityType
<1>6. \A s \in Seat : p[s] = Place(s)
  BY DEF Placed
<1>7. ASSUME NEW s \in Seat, NEW t \in Seat, Behind(t, s)
      PROVE  p[t] < p[s]
  <2> HIDE DEF Behind
  <2>1. Ahead(t) \in SUBSET Ahead(s) /\ Ahead(t) # Ahead(s)
    BY <1>3, <1>7
  <2>2. Place(t) <= Place(s) /\ Place(s) # Place(t)
    BY <1>5, <2>1, FS_Subset
  <2>3. /\ p[s] = Place(s) /\ Place(s) \in Nat
        /\ p[t] = Place(t) /\ Place(t) \in Nat
    BY <1>5, <1>6
  <2> HIDE DEF Place
  <2> QED
    BY <2>2, <2>3
<1>8. ASSUME NEW s \in Seat, NEW t \in Seat, ~Behind(t, s)
      PROVE  ~(p[t] < p[s])
  <2> HIDE DEF Behind
  <2>1. Ahead(s) \in SUBSET Ahead(t)
    BY <1>3, <1>8
  <2>2. Place(s) <= Place(t)
    BY <1>5, <2>1, FS_Subset
  <2>3. /\ p[s] = Place(s) /\ Place(s) \in Nat
        /\ p[t] = Place(t) /\ Place(t) \in Nat
    BY <1>5, <1>6
  <2> HIDE DEF Place
  <2> QED
    BY <2>2, <2>3
<1>9. \A s, t \in Seat : p[t] < p[s] <=> Behind(t, s)
  BY <1>7, <1>8
<1>10. \A s \in Seat : {t \in Seat : p[t] < p[s]} = Ahead(s)
  <2> HIDE DEF Behind
  <2> QED
    BY <1>9
<1>11. \A s \in Seat : p[s] = Cardinality({t \in Seat : p[t] < p[s]})
  BY <1>6, <1>10
<1> QED
  BY <1>9, <1>11 DEF IsRankedBy

LEMMA PlacedRanksForfeitersLast ==
  ASSUME GameAssumption, NEW ranked \in [Seat -> Nat], NEW time \in [Seat -> Nat],
         forfeited \in Seq(Seat), IsInjective(forfeited),
         places = Placed(ranked, time, forfeited)
  PROVE  ForfeitersRankLast
<1> DEFINE q == forfeited
<1>1. DOMAIN q = 1 .. Len(q) /\ Len(q) \in Nat /\ \A i \in 1 .. Len(q) : q[i] \in Seat
  BY LenProperties, ElementOfSeq
<1>0. IsRankedBy(places, ranked, time, q)
  BY PlacedByRank
<1>2. \A s, t \in Seat : Late(t, q) < Late(s, q) => places[t] < places[s]
  <2>1. \A s, t \in Seat : Late(t, q) < Late(s, q) =>
          Before(RankOf(t, ranked, time, q), RankOf(s, ranked, time, q))
    BY SMTT(30) DEF Before, RankOf
  <2> QED
    BY <1>0, <2>1, SMTT(30) DEF IsRankedBy
<1>3. \A s, t \in Seat : s \notin Range(q) /\ t \in Range(q) => places[s] < places[t]
  <2>1. \A i \in 1 .. Len(q) : 0 < Late(q[i], q)
    BY <1>1, LateIsAPosition
  <2>2. \A s, t \in Seat : s \notin Range(q) /\ t \in Range(q) => Late(s, q) < Late(t, q)
    BY <2>1, LateIsAPosition
  <2> QED
    BY <1>2, <2>2
<1>4. \A i, j \in DOMAIN q : i < j /\ q[i] # q[j] => places[q[j]] < places[q[i]]
  <2>1. \A i \in 1 .. Len(q) : Late(q[i], q) = Len(q) + 1 - i
    BY LateIsAPosition
  <2>2. \A i, j \in 1 .. Len(q) : i < j => Late(q[j], q) < Late(q[i], q)
    BY <1>1, <2>1
  <2> QED
    BY <1>1, <1>2, <2>2
<1> QED
  BY <1>0, <1>3, <1>4, Zenon DEF IsRankedBy, ForfeitersRankLast

(* A seat forfeits at most once: the builtin that took it over does not      *)
(* forfeit it again, a client is asked only in a seat no builtin has.  The   *)
(* record is the placing of those who had forfeited by then.                 *)
Scores == [Seat -> Nat]
ForfeitsOnce ==
  /\ IsInjective(forfeited)
  /\ ~concluded => Range(forfeited) \subseteq builtin
RecordIsAPlacing ==
  /\ used \in Scores
  /\ ~concluded => places = <<>>
  /\ places # <<>> => \E ranked, time \in Scores : places = Placed(ranked, time, forfeited)
RankInv == ForfeitsOnce /\ RecordIsAPlacing

LEMMA AppendIsInjective ==
  ASSUME NEW q \in Seq(Seat), IsInjective(q), NEW s \in Seat, s \notin Range(q)
  PROVE  IsInjective(Append(q, s)) /\ Range(Append(q, s)) = Range(q) \cup {s}
<1>1. /\ DOMAIN q = 1 .. Len(q) /\ Len(q) \in Nat
      /\ DOMAIN Append(q, s) = 1 .. Len(q) + 1
      /\ \A i \in 1 .. Len(q) : Append(q, s)[i] = q[i]
      /\ Append(q, s)[Len(q) + 1] = s
  BY AppendProperties, LenProperties
<1>2. \A i \in 1 .. Len(q) : q[i] # s
  BY <1>1 DEF Range
<1>3. IsInjective(Append(q, s))
  BY <1>1, <1>2 DEF IsInjective
<1>4. Range(Append(q, s)) = Range(q) \cup {s}
  <2>1. \A i \in 1 .. Len(q) : i \in DOMAIN Append(q, s)
    BY <1>1
  <2>2. Len(q) + 1 \in DOMAIN Append(q, s)
    BY <1>1
  <2>3. \A i \in DOMAIN Append(q, s) : i \in 1 .. Len(q) \/ i = Len(q) + 1
    BY <1>1
  <2> QED
    BY <1>1, <2>1, <2>2, <2>3 DEF Range
<1> QED
  BY <1>3, <1>4

LEMMA RankingsAreScores ==
  Level \in Scores /\ Rankings \subseteq Scores
<1>1. Seats \in Nat
  BY GameAssumption DEF GameAssumption
<1>2. 0 .. Seats - 1 \subseteq Nat
  BY <1>1
<1> QED
  BY <1>2 DEF Level, Rankings, Scores

LEMMA ConcludeRanks ==
  ASSUME IsInjective(forfeited'), used' \in Scores, NEW ranked \in Scores, NEW time \in Scores,
         Conclude(ranked, time, forfeited')
  PROVE  RankInv'
BY DEF Conclude, RankInv, ForfeitsOnce, RecordIsAPlacing

LEMMA ForfeitRanks ==
  ASSUME TurnInv, RankInv, ~concluded, used' \in Scores, NEW s \in Seat,
         s \notin Range(forfeited), Forfeit(s)
  PROVE  RankInv'
<1>1. /\ forfeited' = Append(forfeited, s) /\ IsInjective(forfeited')
      /\ Range(forfeited') = Range(forfeited) \cup {s}
  BY AppendIsInjective DEF Forfeit, TurnInv, TurnTypes, RankInv, ForfeitsOnce
<1>2. CASE Over(forfeited')
  BY <1>1, <1>2, ConcludeRanks, RankingsAreScores DEF Forfeit
<1>3. CASE ~Over(forfeited')
  <2>1. PlaysOn(s)
    BY <1>3 DEF Forfeit
  <2> QED
    BY <1>1, <2>1 DEF PlaysOn, RankInv, ForfeitsOnce, RecordIsAPlacing
<1> QED
  BY <1>2, <1>3

LEMMA RoundRanks ==
  ASSUME TurnInv, RankInv, ~concluded, Round
  PROVE  RankInv'
<1>0. /\ used \in Scores /\ IsInjective(forfeited)
      /\ \A s \in Seat : s \notin builtin => s \notin Range(forfeited)
  BY DEF RankInv, ForfeitsOnce, RecordIsAPlacing
<1>1. ASSUME UNCHANGED <<used, forfeited>>,
             NEW ranked \in Rankings, Conclude(ranked, used', forfeited)
      PROVE  RankInv'
  BY <1>0, <1>1, ConcludeRanks, RankingsAreScores
<1>2. CASE GameIsDecided
  BY <1>1, <1>2 DEF GameIsDecided
<1>3. ASSUME NEW s \in Seat, BuiltinPlays(s)
      PROVE  RankInv'
  <2>1. CASE Applied(s, "legal")
    BY <1>3, <2>1 DEF Applied, BuiltinPlays, RankInv, ForfeitsOnce, RecordIsAPlacing
  <2>2. CASE Applied(s, "illegal")
    BY <1>1, <1>3, <2>2 DEF Applied, BuiltinPlays
  <2>3. CASE s \notin Range(forfeited) /\ Forfeit(s)
    BY <1>0, <1>3, <2>3, ForfeitRanks DEF BuiltinPlays
  <2> QED
    BY <1>3, <2>1, <2>2, <2>3 DEF BuiltinPlays
<1>4. ASSUME NEW s \in Seat, ClientCannotPlay(s)
      PROVE  RankInv'
  BY <1>0, <1>4, ForfeitRanks DEF ClientCannotPlay
<1>5. ASSUME NEW s \in Seat, Ask(s) \/ Wait(s)
      PROVE  RankInv'
  BY <1>5 DEF Ask, Wait, game, RankInv, ForfeitsOnce, RecordIsAPlacing
<1>6. ASSUME NEW s \in Seat, ClientPlays(s)
      PROVE  RankInv'
  <2>1. used' \in Scores /\ s \notin Range(forfeited)
    <3>1. s \notin builtin /\ \E t \in {0, 1} : used' = [used EXCEPT ![s] = @ + t]
      BY <1>6 DEF ClientPlays, Due
    <3> QED
      BY <1>0, <3>1 DEF Scores
  <2>2. CASE Applied(s, Head(inbox[s])) /\ Head(inbox[s]) = "legal"
    <3>1. UNCHANGED <<forfeited, builtin, concluded, places>>
      BY <2>2 DEF Applied
    <3> QED
      BY <2>1, <3>1 DEF RankInv, ForfeitsOnce, RecordIsAPlacing
  <2>3. CASE forfeited' = Append(forfeited, s)
    <3>1. IsInjective(forfeited') /\ Range(forfeited') = Range(forfeited) \cup {s}
      BY <1>0, <2>1, <2>3, AppendIsInjective DEF TurnInv, TurnTypes
    <3>2. CASE Conclude(Level, Level, forfeited')
      BY <2>1, <3>1, <3>2, ConcludeRanks, RankingsAreScores
    <3>3. CASE PlaysOn(s)
      BY <2>1, <3>1, <3>3 DEF PlaysOn, RankInv, ForfeitsOnce, RecordIsAPlacing
    <3>4. CASE Applied(s, Head(inbox[s])) /\ Head(inbox[s]) = "legal"
      BY <2>2, <3>4
    <3> QED
      BY <1>6, <3>2, <3>3, <3>4 DEF ClientPlays
  <2> QED
    BY <1>6, <2>2, <2>3 DEF ClientPlays
<1> QED
  BY <1>2, <1>3, <1>4, <1>5, <1>6 DEF Round

LEMMA RankStep ==
  ASSUME EndsOnce, TurnInv, RankInv, [Next]_vars
  PROVE  RankInv'
<1>0. CASE concluded
  <2>1. UNCHANGED <<forfeited, places, concluded, used>>
    BY <1>0, NothingAfterTheEnd
  <2> QED
    BY <1>0, <2>1 DEF RankInv, ForfeitsOnce, RecordIsAPlacing
<1> SUFFICES ASSUME ~concluded
             PROVE  RankInv'
  BY <1>0
<1> USE DEF RankInv
<1>1. CASE Round
  BY <1>1, RoundRanks
<1>2. CASE Begin \/ Step \/ Starting \/ Timer \/ Shutdown \/ UNCHANGED vars
  <2>1. UNCHANGED game
    BY <1>2 DEF Begin, Step, Starting, Own, PostBegin, Timer, PopTimer, PostDeadline, Shutdown,
                vars
  <2> QED
    BY <2>1 DEF game, ForfeitsOnce, RecordIsAPlacing
<1>3. CASE Abort
  BY <1>3, ConcludeRanks, RankingsAreScores
     DEF Abort, StillPlaying, ForfeitsOnce, RecordIsAPlacing
<1>4. CASE Deadline
  <2>1. CASE Current(Head(tasks).epoch) /\ waiting # NoSeat
    <3>1. waiting \in Seat /\ Forfeit(waiting) /\ used' = used
      BY <1>4, <2>1 DEF Deadline, TurnInv, TurnTypes
    <3>2. waiting \notin Range(forfeited)
      BY <2>1 DEF TurnInv, EpochIsOfTheTurn, ForfeitsOnce
    <3> QED
      BY <3>1, <3>2, ForfeitRanks DEF RecordIsAPlacing
  <2>2. CASE ~(Current(Head(tasks).epoch) /\ waiting # NoSeat)
    BY <1>4, <2>2 DEF Deadline, ForfeitsOnce, RecordIsAPlacing
  <2> QED
    BY <2>1, <2>2
<1>5. ASSUME NEW s \in Seat, PushAction(s) \/ Disconnect(s)
      PROVE  RankInv'
  BY <1>5 DEF PushAction, Disconnect, game, ForfeitsOnce, RecordIsAPlacing
<1> QED
  BY <1>1, <1>2, <1>3, <1>4, <1>5 DEF Next, Strand

LEMMA RankInit == Init => RankInv
BY DEF Init, RankInv, ForfeitsOnce, RecordIsAPlacing, Scores, IsInjective, Range

(* Who forfeits is placed below everyone who did not, a later one above an   *)
(* earlier one, and the places are those of a ranking (game_run.cc,          *)
(* Conclude), for every number of seats and every order of forfeits.         *)
THEOREM GameForfeitersRankLast == Spec => []ForfeitersRankLast
<1>1. TurnInv /\ RankInv => ForfeitersRankLast
  <2>1. CASE places = <<>>
    BY <2>1 DEF ForfeitersRankLast
  <2>2. ASSUME TurnInv, RankInv, places # <<>>
        PROVE  ForfeitersRankLast
    <3>1. PICK ranked, time \in Scores : places = Placed(ranked, time, forfeited)
      BY <2>2 DEF RankInv, RecordIsAPlacing
    <3> QED
      BY <2>2, <3>1, GameAssumption, PlacedRanksForfeitersLast
         DEF TurnInv, TurnTypes, RankInv, ForfeitsOnce, Scores
  <2> QED
    BY <2>1, <2>2
<1> QED
  BY <1>1, EndsOnceInit, EndsOnceStep, TurnInit, TurnStep, RankInit, RankStep, PTL
     DEF Spec, SafetySpec

=============================================================================
