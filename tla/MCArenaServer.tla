--------------------------- MODULE MCArenaServer ---------------------------
(* Instances of ArenaServer.  Every submission builds to the same bytes: a   *)
(* participant that submits its code unchanged, or the referee, which every  *)
(* build order uploads beside its bot.  What the problem is checked for when *)
(* the server starts, and a submission and its caller before any of this,    *)
(* ServerExamples says of small inputs; TLC evaluates its assumptions with   *)
(* this module.                                                              *)
EXTENDS ArenaServer, ServerExamples

CONSTANTS p, w1, w2, none, bits

SameBytes == [r \in 1 .. MaxRev |-> bits]
Symmetry == Permutations(Workers)

=============================================================================
