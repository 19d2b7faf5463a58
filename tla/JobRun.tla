------------------------------- MODULE JobRun -------------------------------
(***************************************************************************)
(* One work order on the process engine (process_engine.cc): the thread in *)
(* OrderRunner::RunOrder lays the order out as a job, prepares the         *)
(* workspace, runs the phases, and reads the outcome, while the processes  *)
(* it starts run and end as they like and a second thread calls Cancel.    *)
(*                                                                         *)
(* running_ and cancelled_ are what mutex_ guards.  A process is known by  *)
(* its phase's number and its step's name, as a pid is.  The scratch       *)
(* directory belongs to the slot, and nothing of it is removed before an   *)
(* order: Leftovers is what it may still hold.                             *)
(***************************************************************************)
EXTENDS OrderJob

CONSTANTS
  Orders,     \* the orders a run may be for
  Leftovers   \* what earlier orders may have left of the slot's files

(* Only matches are played from the archive; a match has seats for as many    *)
(* rivals as OpponentSteps names.                                             *)
ASSUME OrdersAssumption ==
  /\ Leftovers \subseteq [Files -> Contents]
  /\ \A o \in Orders :
       /\ o \in [kind : {"build", "grade", "match"}, prebuilt : BOOLEAN, builtin : BOOLEAN,
                 rivals : Seq(Range(Rivals))]
       /\ o.prebuilt => o.kind = "match"
       /\ Len(o.rivals) <= Len(OpponentSteps)

MaxPhases == 1 + RepeatsOf
Processes == (1 .. MaxPhases) \X Steps

VARIABLES
  order,      \* the work order
  pc,         \* where Run stands
  phase,      \* the phase it is in, from 1
  next,       \* the next background step to start or to wait for, from 1
  proc,       \* what became of each process: "none", "alive", "gone"
  end,        \* how it ended: its exit code, what it printed, who ended it
  port,       \* the referee's port file is there
  scratch,    \* the files under {{scratch}}
  running,    \* running_: the processes Cancel may kill
  cancelled,  \* cancelled_: the job is marked
  canceller,  \* the thread in Cancel: "idle", "killing", "done"
  groups,     \* the process groups it still has to kill
  status,     \* the job's status
  result,     \* the phases' results
  outcome     \* the order's outcome, once read

vars == <<order, pc, phase, next, proc, end, port, scratch, running, cancelled,
          canceller, groups, status, result, outcome>>
procVars == <<proc, end, port, scratch>>
cancelVars == <<cancelled, canceller, groups>>
resultVars == <<order, status, result, outcome>>

Job == JobForOrder(order)
Now == Job[phase]
Process(step) == <<phase, step>>
Unended == [code |-> 0, said |-> {}, by |-> "nobody"]

-----------------------------------------------------------------------------
Init ==
  /\ order \in Orders
  /\ pc = "prepare" /\ phase = 0 /\ next = 1
  /\ proc = [p \in Processes |-> "none"]
  /\ end = [p \in Processes |-> Unended]
  /\ port = FALSE
  /\ scratch \in Leftovers
  /\ running = {} /\ cancelled = FALSE /\ canceller = "idle" /\ groups = {}
  /\ status = "OK" /\ result = <<>> /\ outcome = Outcome

(* Run's early returns read the outcome at once.                             *)
PrepareFails ==
  /\ pc = "prepare"
  /\ status' = "WORKSPACE_FAILED"
  /\ outcome' = OutcomeFor(order, status', result)
  /\ pc' = "ended"
  /\ UNCHANGED <<order, phase, next, procVars, running, cancelVars, result>>

Prepare ==
  /\ pc = "prepare"
  /\ cancelled' = FALSE
  /\ pc' = "phase"
  /\ UNCHANGED <<phase, next, procVars, running, canceller, groups, resultVars>>

(* The next phase, with an empty result of its own.                          *)
StartPhase ==
  /\ pc = "phase" /\ phase < Len(Job)
  /\ phase' = phase + 1 /\ next' = 1
  /\ result' = Append(result, [name |-> Job[phase'].name, steps |-> <<>>])
  /\ pc' = "background"
  /\ UNCHANGED <<order, procVars, running, cancelVars, status, outcome>>

(* The destructors of the phase's children stop them; running_ still lists   *)
(* them until Run erases the job.                                            *)
StopChildren ==
  LET alive == {p \in Processes : p[1] = phase /\ proc[p] = "alive"}
  IN  /\ proc' = [p \in Processes |-> IF p \in alive THEN "gone" ELSE proc[p]]
      /\ end' = [p \in Processes |->
                   IF p \in alive THEN [Unended EXCEPT !.code = 143, !.by = "engine"]
                   ELSE end[p]]
      /\ UNCHANGED <<port, scratch>>

FailPhase(why) ==
  /\ StopChildren
  /\ status' = why
  /\ pc' = "finish"
  /\ UNCHANGED <<order, phase, next, running, cancelVars, outcome>>

(* A child is started, and tracked under the lock after that.                *)
Start(step) ==
  /\ proc' = [proc EXCEPT ![Process(step)] = "alive"]
  /\ UNCHANGED <<end, scratch>>

StartBackground ==
  /\ pc = "background" /\ next <= Len(Now.background)
  /\ Start(Now.background[next])
  /\ port' = FALSE
  /\ pc' = "track"
  /\ UNCHANGED <<phase, next, running, cancelVars, resultVars>>

BackgroundFails ==
  /\ pc = "background" /\ next <= Len(Now.background)
  /\ FailPhase("START_FAILED")
  /\ UNCHANGED result

TrackBackground ==
  /\ pc = "track"
  /\ running' = running \cup {Process(Now.background[next])}
  /\ IF Now.background[next] = "referee"
     THEN pc' = "port" /\ UNCHANGED next
     ELSE pc' = "background" /\ next' = next + 1
  /\ UNCHANGED <<phase, procVars, cancelVars, resultVars>>

(* AwaitPort: the port file, or its limit of a minute.                       *)
PortFound ==
  /\ pc = "port" /\ port
  /\ next' = next + 1
  /\ pc' = "background"
  /\ UNCHANGED <<phase, procVars, running, cancelVars, resultVars>>

LimitIfGone == ~ port /\ proc[Process("referee")] = "gone"             \* slip
LimitReached == ~ port
PortNeverCame ==
  /\ pc = "port" /\ LimitReached
  /\ FailPhase("ENDPOINT_FAILED")
  /\ UNCHANGED result

StartForeground ==
  /\ pc = "background" /\ next > Len(Now.background)
  /\ Start(Now.foreground)
  /\ pc' = "trackForeground"
  /\ UNCHANGED <<port, phase, next, running, cancelVars, resultVars>>

(* Its result says it did not start, which nobody reads under this status.   *)
ForegroundFails ==
  /\ pc = "background" /\ next > Len(Now.background)
  /\ FailPhase("START_FAILED")
  /\ UNCHANGED result

TrackForeground ==
  /\ pc = "trackForeground"
  /\ running' = running \cup {Process(Now.foreground)}
  /\ pc' = "foreground"
  /\ UNCHANGED <<phase, next, procVars, cancelVars, resultVars>>

(* Wait returned, or its time, if it has any, ran out and Stop ended the     *)
(* group.                                                                    *)
ForegroundEnded ==
  /\ pc = "foreground" /\ proc[Process(Now.foreground)] = "gone"
  /\ pc' = "untrack"
  /\ UNCHANGED <<phase, next, procVars, running, cancelVars, resultVars>>

ForegroundTimedOut ==
  LET p == Process(Now.foreground)
  IN  /\ pc = "foreground" /\ Now.timed /\ proc[p] = "alive"
      /\ proc' = [proc EXCEPT ![p] = "gone"]
      /\ end' = [end EXCEPT ![p] = [code |-> 124, said |-> {}, by |-> "timeout"]]
      /\ pc' = "untrack"
      /\ UNCHANGED <<port, scratch, phase, next, running, cancelVars, resultVars>>

Untrack ==
  /\ pc = "untrack"
  /\ running' = running \ {Process(Now.foreground)}
  /\ next' = 1
  /\ pc' = "drain"
  /\ UNCHANGED <<phase, procVars, cancelVars, resultVars>>

(* Every background step is waited for, for as long as it takes.             *)
Drain ==
  LET p == Process(Now.background[next])
  IN  /\ pc = "drain" /\ next <= Len(Now.background) /\ proc[p] = "gone"
      /\ running' = running \ {p}
      /\ next' = next + 1
      /\ UNCHANGED <<pc, phase, procVars, cancelVars, resultVars>>

(* The steps' results, with the files found under {{scratch}} whenever they  *)
(* were written; a foreground step that failed ends the job, over OK.        *)
Collected(step) ==
  LET e == end[Process(step)]
  IN  [started |-> TRUE, timedOut |-> e.by = "timeout", code |-> e.code,
       said |-> e.said, collected |-> [f \in CollectFiles(step) |-> scratch[f]]]

Collect ==
  LET steps == Range(Now.background) \cup {Now.foreground}
      passed == end[Process(Now.foreground)].code = 0
  IN  /\ pc = "drain" /\ next > Len(Now.background)
      /\ result' = [result EXCEPT ![phase].steps = [s \in steps |-> Collected(s)]]
      /\ pc' = IF passed /\ phase < Len(Job) THEN "phase" ELSE "finish"
      /\ UNCHANGED <<order, phase, next, procVars, running, cancelVars, status, outcome>>

(* "Even over OK: a killed step just exits nonzero, like a failed one."      *)
FinalStatusIfFailed ==                                                 \* slip
  IF cancelled /\ status # "OK" THEN "CANCELLED" ELSE status
FinalStatus == IF cancelled THEN "CANCELLED" ELSE status

Finish ==
  /\ pc = "finish"
  /\ running' = {} /\ cancelled' = FALSE
  /\ status' = FinalStatus
  /\ outcome' = OutcomeFor(order, status', result)
  /\ pc' = IF outcome'.built = {} THEN "ended" ELSE "archive"
  /\ UNCHANGED <<order, phase, next, procVars, canceller, groups, result>>

(* RunOrder archives what a build order built, all of it or none.            *)
Archive ==
  /\ pc = "archive"
  /\ outcome' \in {outcome, [outcome EXCEPT !.built = {}, !.error = "not archived"]}
  /\ pc' = "ended"
  /\ UNCHANGED <<order, phase, next, procVars, running, cancelVars, status, result>>

Run ==
  \/ PrepareFails \/ Prepare \/ StartPhase
  \/ StartBackground \/ BackgroundFails \/ TrackBackground
  \/ PortFound \/ PortNeverCame
  \/ StartForeground \/ ForegroundFails \/ TrackForeground
  \/ ForegroundEnded \/ ForegroundTimedOut \/ Untrack
  \/ Drain \/ Collect \/ Finish \/ Archive

-----------------------------------------------------------------------------
(* The processes.  One writes a file bit by bit: it may be killed, stopped or *)
(* fail with a part of it there.                                             *)
Writes(p, file, contents) ==
  /\ proc[p] = "alive"
  /\ scratch' = [scratch EXCEPT ![file] = contents]
  /\ UNCHANGED <<proc, end, port, pc, phase, next, running, cancelVars, resultVars>>

(* cp -L of the bot, and of the referee after that: each emptied, filled, and *)
(* whole at last.                                                            *)
Copied == [other |-> "absent", absent |-> "junk", junk |-> "good"]
StashWrites(p) ==
  /\ p[2] = "stash"
  /\ \E file \in {"bot", "referee"} :
       /\ file = "referee" => scratch["bot"] = "good"
       /\ scratch[file] # "good"
       /\ Writes(p, file, Copied[scratch[file]])

(* A graded command is any code, and so is what it does to its report.       *)
GradeWrites(p) ==
  p[2] = "grade" /\ \E contents \in Contents : Writes(p, "report.json", contents)

(* The referee writes a report of all games, or of fewer.                    *)
RefereeWrites(p) ==
  p[2] = "referee" /\ \E contents \in Contents : Writes(p, "match.pb", contents)

ProcessWrites(p) == StashWrites(p) \/ GradeWrites(p) \/ RefereeWrites(p)

(* How one ends, and what it printed by then, is its own.                    *)
Exits(p, code, said) ==
  /\ proc[p] = "alive"
  /\ proc' = [proc EXCEPT ![p] = "gone"]
  /\ end' = [end EXCEPT ![p] = [code |-> code, said |-> said, by |-> "itself"]]
  /\ UNCHANGED <<port, scratch, pc, phase, next, running, cancelVars, resultVars>>

(* A build that fails prints what names any of the sides, or none.           *)
BuildExits(p) ==
  /\ p[2] = "build"
  /\ \/ Exits(p, 0, {})
     \/ \E log \in SUBSET ({Candidate} \cup Range(order.rivals)) : Exits(p, 1, log)

StashExits(p) ==
  /\ p[2] = "stash"
  /\ \/ scratch["bot"] = "good" /\ scratch["referee"] = "good" /\ Exits(p, 0, {})
     \/ Exits(p, 1, {})

GradeExits(p) ==
  /\ p[2] = "grade"
  /\ \E code \in {0, 1}, said \in SUBSET {"RESULT"} : Exits(p, code, said)

(* All games were played, or fewer, or it failed.                            *)
RefereeExits(p) ==
  p[2] = "referee" /\ \E code \in {0, 3, 1} : Exits(p, code, {})

BotExits(p) ==
  /\ p[2] = "bot" \/ p[2] \in Range(OpponentSteps)
  /\ \E code \in {0, 1} : Exits(p, code, {})

(* Written after bind(), by the referee that was started last.               *)
PublishPort ==
  /\ phase > 0 /\ ~ port /\ proc[Process("referee")] = "alive"
  /\ port' = TRUE
  /\ UNCHANGED <<proc, end, scratch, pc, phase, next, running, cancelVars, resultVars>>

ProcessExits(p) ==
  BuildExits(p) \/ StashExits(p) \/ GradeExits(p) \/ RefereeExits(p) \/ BotExits(p)

-----------------------------------------------------------------------------
(* Cancel, once.  Without a tracked process it returns and the job goes on;  *)
(* what it finds it kills after letting go of the lock.                      *)
CancelFindsNone ==
  /\ canceller = "idle" /\ running = {}
  /\ canceller' = "done"
  /\ UNCHANGED <<pc, phase, next, procVars, running, cancelled, groups, resultVars>>

CancelMarks ==
  /\ canceller = "idle" /\ running # {}
  /\ cancelled' = TRUE /\ groups' = running
  /\ canceller' = "killing"
  /\ UNCHANGED <<pc, phase, next, procVars, running, resultVars>>

KillGroup(p) ==
  /\ canceller = "killing" /\ p \in groups
  /\ groups' = groups \ {p}
  /\ IF proc[p] = "alive"
     THEN /\ proc' = [proc EXCEPT ![p] = "gone"]
          /\ end' = [end EXCEPT ![p] = [code |-> 137, said |-> {}, by |-> "cancel"]]
     ELSE UNCHANGED <<proc, end>>
  /\ canceller' = IF groups' = {} THEN "done" ELSE canceller
  /\ UNCHANGED <<port, scratch, pc, phase, next, running, cancelled, resultVars>>

Cancel == CancelFindsNone \/ CancelMarks \/ \E p \in Processes : KillGroup(p)

ProcessSteps == \E p \in Processes : ProcessWrites(p) \/ ProcessExits(p)

Next == Run \/ ProcessSteps \/ PublishPort \/ Cancel

(* The two threads run on; a process need not.                               *)
Fairness == WF_vars(Run) /\ WF_vars(\E p \in Processes : KillGroup(p))

Spec == Init /\ [][Next]_vars /\ Fairness

-----------------------------------------------------------------------------
Ended == pc = "ended"

TypeOK ==
  /\ order \in Orders /\ phase \in 0 .. Len(Job) /\ next \in Nat
  /\ proc \in [Processes -> {"none", "alive", "gone"}]
  /\ scratch \in [Files -> Contents]
  /\ running \subseteq Processes /\ groups \subseteq Processes

(* A side is blamed for a broken build only when the build failed by itself: *)
(* not when a Cancel or the clock killed it, however their steps interleave  *)
(* (order_outcome.cc, process_engine.cc "Even over OK").                     *)
BlameIsEarned ==
  Ended /\ outcome.blame # "nobody" => end[<<1, "build">>].by = "itself"

(* Of a stash and of a match without bots nothing is read but their files.   *)
ReadByFiles(p) == p.name = "stash" \/ p.foreground = "referee"

(* An order that comes back without an error and without blame ran every     *)
(* phase of its job, and every foreground step whose end is read was not cut *)
(* short, and but for a match's, which the referee judges, did not fail      *)
(* (order_outcome.cc: "A number from a failed run would look like a result").*)
CleanResultIsWhole ==
  Ended /\ outcome.error = "" /\ outcome.blame = "nobody" =>
    /\ Len(result) = Len(Job)
    /\ \A k \in DOMAIN Job :
         LET fore == end[<<k, Job[k].foreground>>]
         IN  ~ ReadByFiles(Job[k]) =>
               fore.by = "itself" /\ (Job[k].name # "match" => fore.code = 0)

(* What a build order sends to the archive is the whole of both binaries.    *)
(* The code does not keep it: a copy cut short, by its own failure or by one *)
(* who kills it, leaves a part, and OutcomeFor asks only that the file has   *)
(* something in it (order_outcome.cc).                                       *)
ArchivedIsWhole ==
  Ended /\ outcome.built # {} => scratch["bot"] = "good" /\ scratch["referee"] = "good"

(* When Run has returned nothing it started is alive and Cancel finds        *)
(* nothing of the job, whatever phase failed and wherever.                   *)
NothingOutlivesRun ==
  Ended => running = {} /\ \A p \in Processes : proc[p] # "alive"

(* What Run waits for without a limit: a stash, and what a match started in  *)
(* its background.                                                           *)
WaitsWithoutLimit ==
  \/ pc = "foreground" /\ ~ Now.timed /\ proc[Process(Now.foreground)] = "alive"
  \/ /\ pc = "drain" /\ next <= Len(Now.background)
     /\ proc[Process(Now.background[next])] = "alive"

(* Every order comes to its end, though a referee may never publish its port *)
(* and a step may never exit, unless Run waits for ever for one of the       *)
(* processes it gives no limit (process_engine.cc, Wait); and one that is in *)
(* its last phase ends when a Cancel has found what it runs.                 *)
RunEnds ==
  /\ <>Ended \/ <>[]WaitsWithoutLimit
  /\ (pc = "foreground" /\ phase = Len(Job) /\ groups = running) ~> Ended

(* "A phase per run, so a run that hangs does not hold up the next"          *)
(* (order_job.cc): after a run that was stopped, the next one runs.          *)
HangHoldsUpNothing ==
  Ended /\ status = "OK" =>
    \A k \in 1 .. Len(Job) - 1 :
      end[<<k, "grade">>].by = "timeout" => proc[<<k + 1, "grade">>] # "none"

=============================================================================
