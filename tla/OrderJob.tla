------------------------------ MODULE OrderJob ------------------------------
(***************************************************************************)
(* What a work order becomes on a worker.  JobForOrder (order_job.cc) lays *)
(* it out as a sandbox job: phases of background steps and one foreground  *)
(* step, and the files collected from each.  OutcomeFor (order_outcome.cc) *)
(* reads the job's result back as the order's: an error, a side whose      *)
(* build is to blame, a score, or binaries for the archive.                *)
(*                                                                         *)
(* A step's output is abstracted to what is looked for in it (the sides a  *)
(* build log names, a RESULT line), a file to what can be read from it.    *)
(***************************************************************************)
EXTENDS Naturals, Sequences, FiniteSets, SequencesExt

CONSTANT Repeats    \* GradeOrder.repeats
ASSUME RepeatsAssumption == Repeats \in Nat

(* An order: what it asks for, whether the archive's binaries are run, and   *)
(* whether the candidate is a builtin, which only the referee plays.         *)
Candidate == "candidate"
Rivals == <<"rival", "rival2">>
Order(kind, prebuilt, builtin, rivals) ==
  [kind |-> kind, prebuilt |-> prebuilt, builtin |-> builtin, rivals |-> rivals]

RepeatsOf == IF Repeats > 1 THEN Repeats ELSE 1

(* The phases.  Every foreground step has a limit but the stash's.           *)
Phase(name, background, foreground) ==
  [name |-> name, background |-> background, foreground |-> foreground,
   timed |-> name # "stash"]

OpponentSteps == <<"opponent", "opponent2">>

(* Two builtins: the referee plays the whole match and is its only step.     *)
MatchPhase(o) ==
  IF o.builtin THEN Phase("match", <<>>, "referee")
  ELSE Phase("match", <<"referee">> \o SubSeq(OpponentSteps, 1, Len(o.rivals)), "bot")

JobForOrder(o) ==
  (IF o.prebuilt THEN <<>> ELSE <<Phase("build", <<>>, "build")>>) \o
  [build |-> <<Phase("stash", <<>>, "stash")>>,
   grade |-> [run \in 1 .. RepeatsOf |-> Phase("grade", <<>>, "grade")],
   match |-> <<MatchPhase(o)>>][o.kind]

Steps == {"build", "stash", "grade", "referee", "bot"} \cup Range(OpponentSteps)

(* collect_files, by step.                                                   *)
Files == {"bot", "referee", "report.json", "match.pb"}
CollectFiles(step) ==
  CASE step = "stash" -> {"bot", "referee"}
    [] step = "grade" -> {"report.json"}
    [] step = "referee" -> {"match.pb"}
    [] OTHER -> {}

(* What a file holds for who reads it: nothing, or nothing yet; a part of    *)
(* what was written, or nothing of use; metrics the problem did not ask for, *)
(* a report of too few games, another order's binary; or what was asked for. *)
Contents == {"absent", "junk", "other", "good"}

-----------------------------------------------------------------------------
(* OutcomeFor.  A result is a status and the phases' results in order, each  *)
(* with the results of those of its steps that got that far.                 *)

Outcome == [error |-> "", blame |-> "nobody", scored |-> FALSE, built |-> {}]
Errored(why) == [Outcome EXCEPT !.error = why]

(* The phases of a name, by their numbers: the first of them is the one read.*)
PhasesNamed(result, name) == {k \in DOMAIN result : result[k].name = name}
PhaseNamed(result, name) == result[Min(PhasesNamed(result, name))]
Has(phase, step) == step \in DOMAIN phase.steps

(* "An opponent's broken build must not retire this submission."             *)
BlameForBuild(o, log) ==
  LET named == {i \in DOMAIN o.rivals : o.rivals[i] \in log}
  IN  IF Candidate \in log \/ named = {} THEN Candidate ELSE o.rivals[Min(named)]

(* Parse takes the report when it has metrics, and else a RESULT line.       *)
MetricsOf(step) ==
  IF step.collected["report.json"] \in {"good", "other"} THEN step.collected["report.json"]
  ELSE IF "RESULT" \in step.said THEN "good" ELSE "junk"

(* A run that cannot be scored.                                              *)
RunErrorButExit(step) ==                                               \* slip
  IF step.timedOut THEN "graded run timed out"
  ELSE IF MetricsOf(step) = "junk" THEN "no metrics" ELSE ""
RunError(step) ==
  IF step.timedOut THEN "graded run timed out"
  ELSE IF step.code # 0 THEN "graded command exited"
  ELSE IF MetricsOf(step) = "junk" THEN "no metrics" ELSE ""

(* The first run that cannot be scored speaks for all; else every metric is  *)
(* aggregated over the runs that reported it.                                *)
ReadGrade(o, result) ==
  LET runs == {k \in PhasesNamed(result, "grade") : Has(result[k], "grade")}
      bad == {k \in runs : RunError(result[k].steps["grade"]) # ""}
      metrics == {MetricsOf(result[k].steps["grade"]) : k \in runs}
  IN  IF bad # {} THEN Errored(RunError(result[Min(bad)].steps["grade"]))
      ELSE IF "good" \notin metrics THEN Errored("none of this problem's metrics")
      ELSE [Outcome EXCEPT !.scored = TRUE]

(* A short match is recorded and said to be short.                           *)
ReadMatch(o, match) ==
  LET report == IF Has(match, "referee") THEN match.steps["referee"].collected["match.pb"]
                ELSE "absent"
  IN  IF report \in {"absent", "junk"} THEN Errored("referee produced no result")
      ELSE [Outcome EXCEPT !.scored = TRUE,
                           !.error = IF report = "other" THEN "match was short" ELSE ""]

ReadBots(o, match) ==
  IF Has(match, "bot") /\ ~ match.steps["bot"].started THEN Errored("bot not started")
  ELSE IF Has(match, "bot") /\ match.steps["bot"].timedOut THEN Errored("games timed out")
  ELSE ReadMatch(o, match)

(* A build order's referee_target is named: the arena sets it for all.       *)
ReadStash(o, result) ==
  LET stash == PhaseNamed(result, "stash")
      stashed == IF PhasesNamed(result, "stash") = {} \/ ~ Has(stash, "stash") THEN {}
                 ELSE {f \in {"bot", "referee"} :
                         stash.steps["stash"].collected[f] # "absent"}
  IN  IF stashed # {"bot", "referee"} THEN Errored("stashed nothing")
      ELSE [Outcome EXCEPT !.built = stashed]

ReadRest(o, result) ==
  IF o.kind = "build" THEN ReadStash(o, result)
  ELSE IF o.kind = "grade" THEN ReadGrade(o, result)
  ELSE IF PhasesNamed(result, "match") = {} THEN Errored("no match")
  ELSE ReadBots(o, PhaseNamed(result, "match"))

OutcomeFor(o, status, result) ==
  LET build == PhaseNamed(result, "build")
      step == build.steps["build"]
  IN  IF status # "OK" THEN Errored(status)
      ELSE IF o.prebuilt THEN ReadRest(o, result)
      ELSE IF PhasesNamed(result, "build") = {} \/ ~ Has(build, "build") THEN Errored("no build")
      ELSE IF step.timedOut THEN Errored("build timed out")
      ELSE IF step.code # 0 THEN [Outcome EXCEPT !.blame = BlameForBuild(o, step.said)]
      ELSE ReadRest(o, result)

=============================================================================
