------------------------------ MODULE Streams -------------------------------
(***************************************************************************)
(* The two kinds of stream the system serves, side by side: a player's     *)
(* Play stream at a referee and a worker's stream at the coordinator.      *)
(* They share no state and no thread, so a behaviour is of one of them,    *)
(* and the other stays where it starts.                                    *)
(***************************************************************************)
EXTENDS PlayStream

CONSTANTS kMaxOutbox, MaxFleetSends

VARIABLES up, fleetOutbox, stopping, writer, writing, writerJoined, handler, fleetSends,
          accepted, written,
          kind     \* the stream of this behaviour

Fleet == INSTANCE FleetStream WITH
           outbox <- fleetOutbox, joined <- writerJoined, sends <- fleetSends,
           MaxSends <- MaxFleetSends

fleetVars == <<up, fleetOutbox, stopping, writer, writing, writerJoined, handler,
               fleetSends, accepted, written>>

StreamsInit == PlayInit /\ Fleet!Init /\ kind \in {"play", "fleet"}

PlayMoves == kind = "play" /\ PlayNext /\ UNCHANGED <<fleetVars, kind>>
PlayOwes == kind = "play" /\ Owed /\ UNCHANGED <<fleetVars, kind>>
FleetMoves == kind = "fleet" /\ Fleet!Next /\ UNCHANGED <<playVars, kind>>
WriterOwes == kind = "fleet" /\ Fleet!WriterGoesOn /\ UNCHANGED <<playVars, kind>>
HandlerOwes == kind = "fleet" /\ Fleet!Handler /\ UNCHANGED <<playVars, kind>>

streamVars == <<playVars, fleetVars, kind>>

StreamsSpec ==
  /\ StreamsInit /\ [][PlayMoves \/ FleetMoves]_streamVars
  /\ WF_streamVars(PlayOwes) /\ WF_streamVars(WriterOwes) /\ WF_streamVars(HandlerOwes)

(* FleetStream!HandlerEnds: once the worker's connection is broken, Attach    *)
(* does not wait for ever for its writer, whatever that was doing             *)
(* (fleet_service.cc).                                                        *)
AttachEnds == Fleet!HandlerEnds

(* fleet_service.h 40, "idempotent": no Stop leaves the writer unjoined.      *)
WriterIsJoined == Fleet!WriterIsJoined

=============================================================================
