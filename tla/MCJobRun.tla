------------------------------ MODULE MCJobRun ------------------------------
(***************************************************************************)
(* Small orders for JobRun: a build order, a graded one of two runs, and   *)
(* matches: built or from the archive, against one or two bots, or without.*)
(* What their steps can reach, SandboxExamples says of the jobs laid out in *)
(* full; TLC evaluates its assumptions with this module.                   *)
(***************************************************************************)
EXTENDS JobRun, SandboxExamples

OrdersOfEachKind ==
  {Order("build", FALSE, FALSE, <<>>), Order("grade", FALSE, FALSE, <<>>),
   Order("match", FALSE, FALSE, <<Rivals[1]>>), Order("match", TRUE, FALSE, Rivals),
   Order("match", FALSE, TRUE, <<>>)}

(* A slot that held nothing, and one with what an earlier match, an earlier  *)
(* graded run, and a copy of binaries that was cut short have left in it.    *)
Slots ==
  {[f \in Files |-> "absent"],
   [f \in Files |->
      CASE f = "bot" -> "other" [] f = "referee" -> "junk" [] OTHER -> "good"]}

=============================================================================
