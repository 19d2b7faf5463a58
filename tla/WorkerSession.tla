--------------------------- MODULE WorkerSession ----------------------------
(***************************************************************************)
(* One session of a worker (sandbox/worker/sandbox_worker.cc): a reader    *)
(* that takes orders and cancels off the stream, and slots that run the    *)
(* orders through the runner (order_runner.cc) in the engine's containers  *)
(* (sandbox/exec/container_engine.cc).  Session, runner and engine have a  *)
(* mutex each, held for one lookup or one update: a cancel passes through  *)
(* the three one after the other while the slots run on.                   *)
(*                                                                         *)
(* An order runs once in a session, so a job, named after slot and order   *)
(* in the code (order_job.cc 481), goes by its order's name here.  A phase *)
(* of a job is its steps, each in a container named after job and step,    *)
(* the last in the foreground.                                             *)
(***************************************************************************)
EXTENDS Naturals, FiniteSets, Sequences, SequencesExt

CONSTANTS
  Orders,
  NoOrder,
  Slots,
  PhasesOf,    \* order -> its job's phases, in order; none: no job to run
  StepsOf      \* phase -> its steps; the last is the foreground one

Steps == UNION {Range(StepsOf[p]) : p \in DOMAIN StepsOf}
Containers == Orders \X Steps

(* What a result says, as far as a cancel bears on it: a step that failed and *)
(* an engine that did are told apart later (order_outcome.cc).                *)
Verdicts == {"ok", "failed", "cancelled"}

ASSUME SessionAssumption ==
  /\ NoOrder \notin Orders
  /\ \A p \in DOMAIN StepsOf : StepsOf[p] \in Seq(Steps) \ {<<>>}
  /\ PhasesOf \in [Orders -> Seq(DOMAIN StepsOf)]

VARIABLES
  stream,      \* "up" until the connection breaks
  orders,      \* orders read from it
  cancels,     \* cancels read from it
  reader,      \* where the thread that reads and at the end stops the session is
  target,      \* the order it is cancelling
  kills,       \* the containers Engine::Cancel has still to kill
  sweep,       \* the orders Stop has still to cancel
  stops,       \* calls of Stop: main's, then the destructor's
  \* WorkerSession, under its mutex
  queue, running, stopping,
  asleep,      \* slots in cv_.wait
  \* the slots' threads
  at, order, phase, step, verdict,
  \* OrderRunner and ContainerEngine, each under its mutex
  runner,      \* OrderRunner::running_
  inFlight,    \* jobs in in_flight_
  names,       \* in_flight_[job].container_names
  cancelled,   \* cancelled_
  alive,       \* containers docker has
  \* history
  killed,      \* orders a running container of which was killed
  answers      \* order -> verdicts written to the stream

readerVars == <<stream, orders, cancels, reader, target, kills, sweep, stops>>
sessionVars == <<queue, running, stopping, asleep>>
slotVars == <<at, order, phase, step, verdict>>
engineVars == <<runner, inFlight, names, cancelled, alive>>
vars == <<readerVars, sessionVars, slotVars, engineVars, killed, answers>>

Stages == {"wait", "taken", "prepare", "begin", "start", "run", "drain", "finish",
           "leaveRunner", "answer", "left"}
ReaderStages == {"read", "notify", "find", "engine", "kill", "sweep", "join", "joined"}

TypeOK ==
  /\ stream \in {"up", "down"} /\ orders \subseteq Orders /\ cancels \subseteq orders
  /\ reader \in ReaderStages /\ target \in Orders \cup {NoOrder}
  /\ kills \subseteq Containers /\ sweep \subseteq Orders /\ stops \in 0 .. 2
  /\ queue \in Seq(Orders) /\ running \subseteq Orders
  /\ stopping \in BOOLEAN /\ asleep \subseteq Slots
  /\ at \in [Slots -> Stages] /\ order \in [Slots -> Orders \cup {NoOrder}]
  /\ phase \in [Slots -> Nat] /\ step \in [Slots -> Nat]
  /\ verdict \in [Slots -> Verdicts]
  /\ runner \subseteq Orders /\ inFlight \subseteq Orders
  /\ names \in [Orders -> SUBSET Containers]
  /\ cancelled \subseteq Orders /\ alive \subseteq Containers
  /\ killed \subseteq Orders /\ answers \in [Orders -> Seq(Verdicts)]

Init ==
  /\ stream = "up" /\ orders = {} /\ cancels = {}
  /\ reader = "read" /\ target = NoOrder /\ kills = {} /\ sweep = {} /\ stops = 0
  /\ queue = <<>> /\ running = {} /\ stopping = FALSE /\ asleep = {}
  /\ at = [s \in Slots |-> "wait"] /\ order = [s \in Slots |-> NoOrder]
  /\ phase = [s \in Slots |-> 0] /\ step = [s \in Slots |-> 0]
  /\ verdict = [s \in Slots |-> "ok"]
  /\ runner = {} /\ inFlight = {} /\ names = [o \in Orders |-> {}]
  /\ cancelled = {} /\ alive = {}
  /\ killed = {} /\ answers = [o \in Orders |-> <<>>]

-----------------------------------------------------------------------------
(* The reader: main's loop over the stream, and Stop after it.               *)

Break ==
  /\ stream = "up" /\ stream' = "down"
  /\ UNCHANGED <<orders, cancels, reader, target, kills, sweep, stops, sessionVars,
                 slotVars, engineVars, killed, answers>>

(* Enqueue pushes under the mutex and notifies one slot after it.            *)
EnqueueSilently(o) ==                                                  \* slip
  /\ reader = "read" /\ stream = "up" /\ o \in Orders \ orders
  /\ orders' = orders \cup {o} /\ queue' = Append(queue, o)
  /\ UNCHANGED <<stream, cancels, reader, target, kills, sweep, stops, running,
                 stopping, asleep, slotVars, engineVars, killed, answers>>
Enqueue(o) ==
  /\ reader = "read" /\ stream = "up" /\ o \in Orders \ orders
  /\ orders' = orders \cup {o} /\ queue' = Append(queue, o)
  /\ reader' = "notify"
  /\ UNCHANGED <<stream, cancels, target, kills, sweep, stops, running, stopping,
                 asleep, slotVars, engineVars, killed, answers>>

Notify ==
  /\ reader = "notify" /\ reader' = "read"
  /\ \/ asleep = {} /\ UNCHANGED asleep
     \/ \E s \in asleep : asleep' = asleep \ {s}
  /\ UNCHANGED <<stream, orders, cancels, target, kills, sweep, stops, queue, running,
                 stopping, slotVars, engineVars, killed, answers>>

(* Cancel takes a waiting order out of the queue, where it is once if at all, *)
(* then asks the runner.                                                     *)
Cancel(o) ==
  /\ reader = "read" /\ stream = "up" /\ o \in orders \ cancels
  /\ cancels' = cancels \cup {o}
  /\ IF o \in Range(queue)
     THEN \E i \in DOMAIN queue : queue[i] = o /\ queue' = RemoveAt(queue, i)
     ELSE UNCHANGED queue
  /\ reader' = "find" /\ target' = o
  /\ UNCHANGED <<stream, orders, kills, sweep, stops, running, stopping, asleep,
                 slotVars, engineVars, killed, answers>>

(* One cancel is done: the reader goes on to the next.                       *)
GoesOn == target' = NoOrder /\ reader' = IF stopping THEN "sweep" ELSE "read"

(* OrderRunner::Cancel: an order the runner does not know is left alone.     *)
FindInRunner ==
  /\ reader = "find"
  /\ IF target \in runner THEN reader' = "engine" /\ UNCHANGED target ELSE GoesOn
  /\ UNCHANGED <<stream, orders, cancels, kills, sweep, stops, sessionVars,
                 slotVars, engineVars, killed, answers>>

(* ContainerEngine::Cancel: marks the job and takes a copy of its names.     *)
CancelBlindly ==                                                       \* slip
  /\ reader = "engine"
  /\ cancelled' = cancelled \cup {target} /\ kills' = names[target] /\ reader' = "kill"
  /\ UNCHANGED <<stream, orders, cancels, target, sweep, stops, sessionVars, slotVars,
                 runner, inFlight, names, alive, killed, answers>>
CancelJob ==
  /\ reader = "engine"
  /\ IF target \in inFlight
     THEN /\ cancelled' = cancelled \cup {target}
          /\ kills' = names[target] /\ reader' = "kill" /\ UNCHANGED target
     ELSE GoesOn /\ UNCHANGED <<cancelled, kills>>
  /\ UNCHANGED <<stream, orders, cancels, sweep, stops, sessionVars, slotVars,
                 runner, inFlight, names, alive, killed, answers>>

(* docker kill: nothing happens to a container that is not running.          *)
Kill(c) ==
  /\ reader = "kill" /\ c \in kills
  /\ kills' = kills \ {c} /\ alive' = alive \ {c}
  /\ killed' = IF c \in alive THEN killed \cup {c[1]} ELSE killed
  /\ UNCHANGED <<stream, orders, cancels, reader, target, sweep, stops, sessionVars,
                 slotVars, runner, inFlight, names, cancelled, answers>>

Killed ==
  /\ reader = "kill" /\ kills = {} /\ GoesOn
  /\ UNCHANGED <<stream, orders, cancels, kills, sweep, stops, sessionVars,
                 slotVars, engineVars, killed, answers>>

(* Stop, which main calls when Read fails and the destructor again: wakes    *)
(* every slot and cancels the orders that were running just then.            *)
Stop ==
  /\ \/ reader = "read" /\ stream = "down" /\ stops = 0
     \/ reader = "sweep" /\ sweep = {} /\ stops = 1
  /\ stopping' = TRUE /\ asleep' = {} /\ sweep' = running
  /\ stops' = stops + 1 /\ reader' = "sweep"
  /\ UNCHANGED <<stream, orders, cancels, target, kills, queue, running, slotVars,
                 engineVars, killed, answers>>

SweepOne(o) ==
  /\ reader = "sweep" /\ o \in sweep
  /\ sweep' = sweep \ {o} /\ target' = o /\ reader' = "find"
  /\ UNCHANGED <<stream, orders, cancels, kills, stops, sessionVars, slotVars,
                 engineVars, killed, answers>>

(* The destructor joins the slots' threads.                                  *)
Join ==
  /\ \/ reader = "sweep" /\ sweep = {} /\ stops = 2 /\ reader' = "join"
     \/ reader = "join" /\ (\A s \in Slots : at[s] = "left") /\ reader' = "joined"
  /\ UNCHANGED <<stream, orders, cancels, target, kills, sweep, stops, sessionVars,
                 slotVars, engineVars, killed, answers>>

Reading == \E o \in Orders : Enqueue(o) \/ Cancel(o)
Reader ==
  \/ Notify \/ FindInRunner \/ CancelJob \/ Killed \/ Stop \/ Join
  \/ \E c \in Containers : Kill(c)
  \/ \E o \in Orders : SweepOne(o)

-----------------------------------------------------------------------------
(* A slot: SlotLoop, RunOrder and Run.                                       *)

Goes(s, stage) == at' = [at EXCEPT ![s] = stage]
Concludes(s, v) == verdict' = [verdict EXCEPT ![s] = v]

(* cv_.wait: under the mutex, the slot leaves, takes an order or sleeps.     *)
Awake(s) == at[s] = "wait" /\ s \notin asleep

Leave(s) ==
  /\ Awake(s) /\ stopping /\ Goes(s, "left")
  /\ UNCHANGED <<readerVars, sessionVars, order, phase, step, verdict, engineVars,
                 killed, answers>>

TakeCopy(s) ==                                                         \* slip
  /\ Awake(s) /\ ~ stopping /\ queue # <<>>
  /\ order' = [order EXCEPT ![s] = Head(queue)]
  /\ running' = running \cup {Head(queue)} /\ Goes(s, "taken")
  /\ UNCHANGED <<readerVars, queue, stopping, asleep, phase, step, verdict, engineVars,
                 killed, answers>>
Take(s) ==
  /\ Awake(s) /\ ~ stopping /\ queue # <<>>
  /\ order' = [order EXCEPT ![s] = Head(queue)] /\ queue' = Tail(queue)
  /\ running' = running \cup {Head(queue)} /\ Goes(s, "taken")
  /\ UNCHANGED <<readerVars, stopping, asleep, phase, step, verdict, engineVars, killed,
                 answers>>

Sleep(s) ==
  /\ Awake(s) /\ ~ stopping /\ queue = <<>> /\ asleep' = asleep \cup {s}
  /\ UNCHANGED <<readerVars, queue, running, stopping, slotVars, engineVars, killed,
                 answers>>

(* RunOrder up to Run: an order that is refused, whose artifacts cannot be   *)
(* fetched or that makes no job is an error; the others are registered.      *)
RefuseOrder(s) ==
  /\ at[s] = "taken" /\ Goes(s, "answer") /\ Concludes(s, "failed")
  /\ UNCHANGED <<readerVars, sessionVars, order, phase, step, engineVars, killed, answers>>

RegisterOrder(s) ==
  /\ at[s] = "taken" /\ Goes(s, "prepare") /\ runner' = runner \cup {order[s]}
  /\ UNCHANGED <<readerVars, sessionVars, order, phase, step, verdict, inFlight, names,
                 cancelled, alive, killed, answers>>

(* Run up to its phases: the workspace is prepared before the job is known   *)
(* to the engine.  A job without a phase is invalid.                         *)
PrepareFails(s) ==
  /\ at[s] = "prepare" /\ Goes(s, "leaveRunner") /\ Concludes(s, "failed")
  /\ UNCHANGED <<readerVars, sessionVars, order, phase, step, engineVars, killed, answers>>

Fly(s) ==
  /\ at[s] = "prepare" /\ PhasesOf[order[s]] # <<>> /\ Goes(s, "begin") /\ phase' = [phase EXCEPT ![s] = 1]
  /\ inFlight' = inFlight \cup {order[s]}
  /\ names' = [names EXCEPT ![order[s]] = {}]
  /\ cancelled' = cancelled \ {order[s]}
  /\ UNCHANGED <<readerVars, sessionVars, order, step, verdict, runner, alive, killed,
                 answers>>

-----------------------------------------------------------------------------
(* RunPhase.                                                                 *)

StepsNow(s) == StepsOf[PhasesOf[order[s]][phase[s]]]
Container(s) == <<order[s], StepsNow(s)[step[s]]>>
InForeground(s) == step[s] = Len(StepsNow(s))
OfPhase(s) == {order[s]} \X Range(StepsNow(s))

(* What a phase reaps before it starts, and tears down when it ends.         *)
TornDown(s) == alive \ OfPhase(s)

BeginPhase(s) ==
  /\ at[s] = "begin" /\ Goes(s, "start") /\ step' = [step EXCEPT ![s] = 1]
  /\ alive' = TornDown(s)
  /\ names' = [names EXCEPT ![order[s]] = @ \cup OfPhase(s)]
  /\ UNCHANGED <<readerVars, sessionVars, order, phase, verdict, runner, inFlight,
                 cancelled, killed, answers>>

StartStep(s) ==
  /\ at[s] = "start" /\ alive' = alive \cup {Container(s)}
  /\ IF InForeground(s) THEN Goes(s, "run") /\ UNCHANGED step
                        ELSE step' = [step EXCEPT ![s] = @ + 1] /\ UNCHANGED at
  /\ UNCHANGED <<readerVars, sessionVars, order, phase, verdict, runner, inFlight, names,
                 cancelled, killed, answers>>

StartFails(s) ==
  /\ at[s] = "start" /\ alive' = TornDown(s)
  /\ Goes(s, "finish") /\ Concludes(s, "failed")
  /\ UNCHANGED <<readerVars, sessionVars, order, phase, step, runner, inFlight, names,
                 cancelled, killed, answers>>

(* The foreground container exits, well or not, exceeds its time, or is gone *)
(* because it was killed.                                                    *)
StepEnds(s) ==
  /\ at[s] = "run" /\ Goes(s, "drain") /\ alive' = alive \ {Container(s)}
  /\ \E v \in IF Container(s) \in alive THEN {"ok", "failed"} ELSE {"failed"} :
       Concludes(s, v)
  /\ UNCHANGED <<readerVars, sessionVars, order, phase, step, runner, inFlight, names,
                 cancelled, killed, answers>>

(* A background container exits when it likes.                               *)
BackgroundEnds(c) ==
  /\ c \in alive /\ ~ \E s \in Slots : at[s] = "run" /\ Container(s) = c
  /\ alive' = alive \ {c}
  /\ UNCHANGED <<readerVars, sessionVars, slotVars, runner, inFlight, names, cancelled,
                 killed, answers>>

(* The background steps are waited for, or their time runs out.              *)
EndPhase(s) ==
  /\ at[s] = "drain" /\ alive' = TornDown(s)
  /\ IF verdict[s] = "ok" /\ phase[s] < Len(PhasesOf[order[s]])
     THEN Goes(s, "begin") /\ phase' = [phase EXCEPT ![s] = @ + 1]
     ELSE Goes(s, "finish") /\ UNCHANGED phase
  /\ UNCHANGED <<readerVars, sessionVars, order, step, verdict, runner, inFlight, names,
                 cancelled, killed, answers>>

-----------------------------------------------------------------------------
(* The way back.                                                             *)

OfJob(o) == {o} \X Steps

(* Run's end: a job that was marked is CANCELLED, whatever its steps said.   *)
FinishAsItWent(s) ==                                                   \* slip
  /\ at[s] = "finish" /\ Goes(s, "leaveRunner")
  /\ inFlight' = inFlight \ {order[s]} /\ names' = [names EXCEPT ![order[s]] = {}]
  /\ cancelled' = cancelled \ {order[s]} /\ alive' = alive \ OfJob(order[s])
  /\ UNCHANGED <<readerVars, sessionVars, order, phase, step, verdict, runner, killed,
                 answers>>
Finish(s) ==
  /\ at[s] = "finish" /\ Goes(s, "leaveRunner")
  /\ inFlight' = inFlight \ {order[s]} /\ names' = [names EXCEPT ![order[s]] = {}]
  /\ cancelled' = cancelled \ {order[s]} /\ alive' = alive \ OfJob(order[s])
  /\ Concludes(s, IF order[s] \in cancelled THEN "cancelled" ELSE verdict[s])
  /\ UNCHANGED <<readerVars, sessionVars, order, phase, step, runner, killed, answers>>

LeaveRunner(s) ==
  /\ at[s] = "leaveRunner" /\ Goes(s, "answer") /\ runner' = runner \ {order[s]}
  /\ UNCHANGED <<readerVars, sessionVars, order, phase, step, verdict, inFlight, names,
                 cancelled, alive, killed, answers>>

(* The result is written whether or not the stream still carries it.         *)
Answer(s) ==
  /\ at[s] = "answer" /\ Goes(s, "wait") /\ running' = running \ {order[s]}
  /\ answers' = [answers EXCEPT ![order[s]] = Append(@, verdict[s])]
  /\ order' = [order EXCEPT ![s] = NoOrder]
  /\ phase' = [phase EXCEPT ![s] = 0] /\ step' = [step EXCEPT ![s] = 0]
  /\ Concludes(s, "ok")
  /\ UNCHANGED <<readerVars, queue, stopping, asleep, engineVars, killed>>

Slot(s) ==
  \/ Leave(s) \/ Take(s) \/ Sleep(s)
  \/ RefuseOrder(s) \/ RegisterOrder(s) \/ PrepareFails(s) \/ Fly(s)
  \/ BeginPhase(s) \/ StartStep(s) \/ StartFails(s) \/ StepEnds(s) \/ EndPhase(s)
  \/ Finish(s) \/ LeaveRunner(s) \/ Answer(s)

Next ==
  \/ Break \/ Reading \/ Reader
  \/ \E s \in Slots : Slot(s)
  \/ \E c \in Containers : BackgroundEnds(c)

(* Threads run, docker returns, and a container ends by itself or by its     *)
(* time limit.  Nothing need ever be read, and the stream need not break.    *)
Fairness == WF_vars(Reader) /\ \A s \in Slots : WF_vars(Slot(s))

SafetySpec == Init /\ [][Next]_vars
Spec == SafetySpec /\ Fairness

-----------------------------------------------------------------------------
Held == {order[s] : s \in {t \in Slots : at[t] \in Stages \ {"wait", "left"}}}
Answered == {o \in Orders : answers[o] # <<>>}

(* Every order that was read is waiting, at one slot, answered once, or was  *)
(* cancelled while it waited: none is taken twice, dropped or forgotten.     *)
OrdersAreKept ==
  /\ orders = Range(queue) \cup Held \cup Answered \cup (cancels \ Held)
  /\ \A o \in Orders : Len(answers[o]) <= 1
  /\ Range(queue) \cap (Held \cup Answered \cup cancels) = {}
  /\ Held \cap Answered = {}
  /\ \A s, t \in Slots : order[s] = order[t] /\ order[s] # NoOrder => s = t

(* A step that was killed is never taken for one that failed: what it says   *)
(* of the order is CANCELLED, for which no one is blamed                     *)
(* (container_engine.cc 176-183).                                            *)
KilledIsCancelled ==
  \A o \in killed : Range(answers[o]) \subseteq {"cancelled"}

(* The three books a cancel looks into, and docker itself, know an order     *)
(* just while a slot is in the part of its work they stand for: a cancel     *)
(* cannot reach a job that is gone, nor leave its mark on one.               *)
At(o, stages) == \E s \in Slots : order[s] = o /\ at[s] \in stages
InEngine == {"begin", "start", "run", "drain", "finish"}
InRunner == InEngine \cup {"prepare", "leaveRunner"}
BooksAgree ==
  /\ running = Held
  /\ runner = {o \in Held : At(o, InRunner)}
  /\ inFlight = {o \in Held : At(o, InEngine)}
  /\ cancelled \subseteq inFlight
  /\ \A c \in alive : c \in names[c[1]] /\ At(c[1], {"start", "run", "drain"})

(* When the session is over, runner and engine are as it found them: no job, *)
(* no mark and no container is left for the next one.                        *)
NothingLeftBehind ==
  reader = "joined" => runner \cup inFlight \cup cancelled = {} /\ alive = {}

(* A lost stream ends the session: every slot leaves, whatever it was at.    *)
SessionEnds == stream = "down" ~> reader = "joined"

(* No order is left in the queue beside a sleeping slot.                     *)
OrdersEnd ==
  \A o \in Orders : o \in orders ~> o \in Answered \cup cancels \/ stream = "down"

=============================================================================
