# A verification development of the arena

TLA+ models of the arena's coordinator, the TLC configurations that check them on
small instances, and TLAPS proofs. The reference is the C++ under `src/`; every
definition that stands for code is listed in `PROJECT.json` ("map") with the lines
it translates. Paths below are relative to `src/game_arena/`.

    tlc -workers 2 -config SchedulerResubmit.cfg MCScheduler.tla
    tlc -workers 2 -config Streams.cfg Streams.tla
    tlc -workers 2 -config ArenaServer.cfg MCArenaServer.tla
    tlapm SchedulerProofs.tla
    tlapm SwissProofs.tla

`tlapm` takes from half a minute to ten minutes for each of the eight modules whose name
ends in `Proofs`.

## 1. The system

Participants submit patches to a **coordinator**; it has them built and played by a
fleet of **sandbox workers** and keeps a leaderboard. A worker runs each order in
containers: a build, or a match, in which a **referee** seats the bots and applies
their moves.

    participant --Submit--> ArenaService --> Scheduler <--> FleetService <==stream==> worker
                              |                | |  ^                                   |
                              v                | |  +-- Matchmaker, SwissRun      OrderRunner
                        CandidateStore <-------+ v      (EnqueueMatch)                  |
                                                JobLog, Standings, ArtifactStore  ContainerEngine
                                                                                        |
                                                              bots <--streams--> referee (GameRun)

| component | state | operations | what is hard | what makes it correct |
|---|---|---|---|---|
| Scheduler (`server/scheduler.cc`) | jobs with pending and running orders, `queue_`, `workers_` with `in_flight`, `order_owner_`, `reserved_` | TryReserve, EnqueuePlacement, EnqueueMatch, AddWorker, RemoveWorker, OnResult, OnProgress, OnGame; all end in DispatchLocked | four tables tell of one order and nine functions edit them; workers vanish, reconnect and answer late; Send fails in the middle of dispatching | no order is lost, run for two owners or counted twice; no slot leaks; verdicts stand; every job ends and is reported once; quotas hold |
| CandidateStore (`server/candidate_store.cc`) | live entries, staged resubmits, directories | Create, SetStatus, Load | two copies under one id; the build's result names only the id; a crash between two file operations | READY means built from this copy; a restart finds a READY entry; a version's number is given out once |
| Submission checks (`candidate_store.cc`, `unified_diff.cc`, `generated_build.cc`) | none | Validate, the final patch, the generated BUILD | paths and patches are moved, matched and rewritten | an accepted submission stays in its directory |
| ArenaService (`server/arena_service.cc`), client registry | the token file | Submit: reserve, store, enqueue; the reads | three locks, so Submit calls interleave; a file edited under a running server | a refused submission leaves nothing behind; who sees what is decided alike in every call |
| FleetService (`server/fleet_service.cc`) | per stream: `outbox_`, `stopping_`, writer thread | Attach, Send, WriterLoop, Stop | reader, writer and sender are three threads; connection breaks anywhere | Attach gets through Stop to its end |
| JobLog, ArtifactStore, ArtifactCache | files, written beside and renamed | Put, Get, List; PutArtifact, GetArtifact, Fetch | overlapping writers of one name, a write that fails, a crash between two files | the log is what a restart must believe; what READY names is there, all of it |
| Coordinator process (`server/problem_server.cc`) | all of the above | start, re-place after a restart, serve | what is lost with the process | whatever waited is placed again |
| Matchmaker (`server/matchmaking.cc`) | `running_`, `early_`, `recent_` | TopUp, OnConcluded | a match may end before its id is known; what it reads is old when it acts | its books list what is played; the pool keeps playing |
| SwissRun (`server/swiss.cc`) | rounds played, concluded jobs, state file | Run, OnConcluded, Resume | waits for every match of a round; resumes from a file | nobody plays twice in a round; no pair twice while avoidable; each round ends |
| Worker (`sandbox/worker/`) | order queue, slots, `running_` | Enqueue, Cancel, Stop, SlotLoop, reconnect | a cancel races the slot that takes the order | a lost stream frees every slot |
| OrderRunner, OrderJob, OrderOutcome | orders in the engine | RunOrder, Cancel, JobForOrder, OutcomeFor | whom a failure blames; what a step may reach | no one is blamed for another's build or for the engine |
| Engines (`sandbox/exec/`) | `in_flight_` or `running_`, `cancelled_` | Run, RunPhase, Cancel | cancel between phases or before registration; processes that outlive their step | a cancelled job ends and leaves nothing behind |
| Referee (`referee/`) | parked clients, games, timers, strands, streams | Join, Step, Forfeit, Conclude, Shutdown, Drain; the reactor's callbacks | timers, disconnects, moves and the shutdown on several threads | a game concludes once; a forfeit is the right player's; a client is never stranded; the match ends |
| Standings, history (`standings/`) | rows, game records | Record, RecordGame, Rank | three kinds of standings over one history, replayed after a restart | they count alike, and a replay gives the same rows |
| CLI, tools, pages, test game | none that is shared | | | |

`PROJECT.json` lists the same components with their status, and under "hazards" what
in this code is hard to test, each at its line, with the properties that watch it.

## 2. Modules

State machines:

| module | models | notes |
|---|---|---|
| `CandidateStore` | `Create` and `SetStatus` of the store, with the staged copy | one step each: each runs under the store's mutex |
| `Scheduler` | `scheduler.cc`, `ArenaService::Submit`, the reading half of `FleetService::Attach` | EXTENDS `CandidateStore`, whose actions its own contain |
| `SchedulerProperties` | what the scheduler promises | also the refinement mapping to `OrderLedger` |
| `OrderLedger` | abstract specification: where an order is, what the verdict of its job is, whose results count; no workers, slots, queue or streams | checked and proved as the property `KeepsLedger` |
| `CandidateDisk` | the store again, as the file operations `Create`, `SetStatus` and `Load` consist of | writes, removals and renames that fail, a process that dies between two |
| `ArtifactStore` | blobs of the archive, `PutArtifact`, `GetArtifact`, the workers' caches | overlapping uploads of the same bytes, writes that fail |
| `ArenaServer` | the coordinator over its life: store, archive, job log, a placement's way through them, death and start-up | EXTENDS the two above |
| `FleetStream` | the coordinator's end of one worker stream: `Attach`, `WriterLoop`, `Send`, `Stop` | the thread level that `Scheduler` abstracts to `link[s]` |
| `PlayStream` | a player's stream at the referee: reactor and connection | |
| `Streams` | both kinds of stream, a behaviour being of one of them | one run for the two |
| `Matchmaking` | `TopUp` and `OnConcluded`, beside a scheduler reduced to queue, slots and orders in flight | |
| `SwissRun`, `SwissGroups` | the run's thread, its file and its resume; the draw of a round as operators | |
| `WorkerSession` | one session of a worker: `WorkerSession` of `sandbox_worker.cc`, `OrderRunner`'s `RunOrder` and `Cancel`, the container engine's `Run`, `RunPhase` and `Cancel` | the other end of the stream: `Scheduler` sees only orders going in and results coming out |
| `OrderJob`, `JobRun` | the job an order becomes and the outcome read back from it; the process engine that runs it | |
| `GameRun` | one game of the referee on its strand | |
| `Referee`, `SeatRotation` | the rendezvous, the reaper, `main`; who sits where | a game's own course is `GameRun`'s |

Functions, without state, each with a module of examples that compares it with what
it is for over bounded inputs. The examples are named assumptions; TLC evaluates them
when it starts the run in the last column:

| module | models | examples | evaluated with |
|---|---|---|---|
| `SubmissionCheck` | validation of a submission, globs, diffs, ids, generated BUILD files, the patch | `ServerExamples` | `ArenaServer` |
| `ClientAccess` | the token registry, and what a caller is shown | `ServerExamples` | `ArenaServer` |
| `Ratings` | from results to rows, for the three kinds of standings; metric reports | `RatingExamples` | `Matchmaking` |
| `ProblemConfig` | validation of a problem, option lists, deadlines, placement groups and ladder | `ServerExamples` | `ArenaServer` |
| `JobSandbox` | mounts, isolation, volumes, networks and container arguments of every step of a job, with attempts killed in between | `SandboxExamples` | `JobRun` |

Instances and proofs:

| module | contents |
|---|---|
| `MCScheduler`, `MCArenaServer`, `MCMatchmaking`, `MCSwissRun`, `MCWorkerSession`, `MCJobRun`, `MCReferee` | values of the constants for TLC. All `Scheduler*.cfg` run `MCScheduler`. `GameRun` and `Streams` are run as they are |
| `SchedulerProofs` | of `Scheduler`, for every fleet: types, jobs, quota, job log, queue, slots, what is READY; then that it implements `OrderLedger`, that `jobs_`, `order_owner_` and `workers_` agree, and that no slot is idle |
| `ArenaServerProofs` | what the coordinator keeps over deaths and restarts |
| `WorkerSessionProofs` | a worker's session: orders, cancels, containers |
| `JobRunProofs` | what an order's outcome says is what its processes did |
| `MatchmakingProofs` | the matchmaker's books, beside a scheduler whose workers come and go; that rematches are forced |
| `SwissProofs` | what a draw returns, for every ranking; a Swiss run over any restarts |
| `PlayProofs` | of `Streams`: one write in flight, one finish of a Play stream; of `GameRun`: a game ends once, deadlines are fair, forfeiters rank last |
| `RefereeProofs` | of `Referee`: a client is in one place; a game's players asked for one another; what the rotation of seats returns |

### How `Scheduler` corresponds to the code

*State.* A job's fields are functions over job numbers (`state`, `pending`,
`running`, `aborted`, `afterBuild`, `attempts`); `queue`, `inFlight`, `owner` and
`reserved` are `queue_`, `workers_[w].in_flight`, `order_owner_` and `reserved_`.
`attached[w]` is the stream whose `FleetWorker` is registered under id `w`. An order
is named by its job and what it is for: the `n`-th build, or the match against a
group. `carries` remembers which copies of which candidates were put into it.
`told`, `recorded` and `proven` are history: calls of `on_concluded`, results
recorded, copies some worker has built.

*Steps.* Every public method runs under `mutex_` and is one action, with all it
calls: aborting, the store's `SetStatus`, `ConcludeJobLocked`, `PersistLocked`.
The exception is the loop of `DispatchLocked`. Whether a `Send` works is decided by
the stream's writer thread while the loop runs, and so is a `Create` in the store,
which has a mutex of its own; the loop is one step per queued job, and `pc = "scan"`
is the mutex it holds: only the loop, `StoreSubmission` and `Break` move then. What
`EnqueueMatch` is given was read from the store before, by `TopUp`
(`ReadBefore`), and may be a builtin; `EnqueueMatch` itself looks at nothing. A
property that speaks of what others can see starts with `Idle`.

*Streams.* `link[s]` is `"up"`, `"broken"` (a Write failed, so `Send` returns false,
while `Read` still delivers results: `fleet_service.cc` 64-68) or `"off"`. Where
`MayBreak` allows failing Sends, a Send may also fail on a stream that is up, its outbox
being full (`fleet_service.cc` 41-45). With
`WorkerOf` several streams may have the same worker id, as when a worker reconnects
before its old stream has ended: `AddWorker` then overwrites the registration, and
`RemoveWorker`, which goes by worker id, removes the newer one, as in the code.

*A failed Send.* `scheduler.cc` 441 moves the order out of the deque before `Send`.
The moved-from message stays at the front; it is in `emptied`, its key in the maps
keyed by order id is `Blank` (the empty id), and a worker that is sent it answers
with an error (`order_runner.cc` 101-124).

### How `WorkerSession` corresponds to the code

The reader is `main`'s thread: it reads, and when `Read` fails it stops the session
twice, explicitly and in the destructor, and joins the slots. `queue`, `running` and
`stopping` are the session's fields; `runner` is `OrderRunner::running_`; `inFlight`,
`names` and `cancelled` are the engine's; `alive` is what docker runs. The three
classes have a mutex each, so a cancel is at least three steps: out of the queue
(`Cancel`), up in the runner (`FindInRunner`), marked in the engine (`CancelJob`),
then one `docker kill` per container. A slot's thread is at one of the stages `at[s]`,
which are the stretches of `SlotLoop`, `RunOrder`, `Run` and `RunPhase` between two
locks or two waits. `asleep` are the slots inside `cv_.wait`; the wait releases the
mutex when it sleeps, so testing and sleeping is one step.

A cancel that finds its order in none of the three books is lost, and the order runs
on: `sandbox_worker.cc` 92 says that much. It happens when a slot has taken the order
and `RunOrder` is not yet at line 146, and, longer, while `Run` prepares the workspace
(`container_engine.cc` 151-162) before the job is in `in_flight_`. The same window is
open to `Stop`, whose comment (103-105) wants running orders to end; the session then
waits for the whole order before the worker attaches again. `OrdersEnd` says that it
does end, by the steps' time limits, and says nothing of how soon.

### How the other state machines correspond to the code

`CandidateDisk`. The store's mutex is held throughout a method, so one method is under
way at a time: `op` says which and where it is. Each action is one file operation
(`candidate_store.cc` writes the patch and sources, then the manifest, removes and
renames directories). Any write may fail, which `Create` reports; any removal or rename
may, which nobody looks at (581-583): a directory may then be left in part, or the staged
one stay where it is while memory says otherwise. `Die` may come between any two.
`live` and `staged` are `candidates_` and `staged_`, `dir` is what is on disk; `Load`
reads the second into the first.

`ArtifactStore`. A file is a name for an inode, because two uploads of one digest share
`<digest>.tmp` (`game_history.cc`, `WriteAtomically`): what the slower writer goes on
writing after the faster one's rename lands in the renamed file. The bytes are their
two halves, each of which is a write that may fail: the upload then ends with an error
and a part in `<digest>.tmp`. `contended` is history: the digests which one upload opened
while another was writing them. A worker's cache is written by a stream nobody looks at
(`artifact_cache.cc` 61), so what it keeps may be cut short (`short`).

`ArenaServer`. `phase` runs through main's stages: load, close the log's open jobs,
place again what is PENDING, serve. `lock` is the scheduler's mutex while a result is
worked off, across the store's file operations; Submit stores under one lock and
enqueues under the other. `Die` keeps what is on disk. `log` and `rated` are files.

`FleetStream`, `PlayStream`. One thread each for the reader, the writer and the sender;
for a Play stream gRPC's reactions, the game's and the reaper's threads and the alarm.
A step is one critical section or one call into gRPC, so everything a thread read
under the lock and uses after it (the transport in `Pump`, above all) can be old by
then. `writes` and `finishes` count gRPC's operations. In `FleetStream`, `Stop` returns
before its join when the writer has set `stopping_` already; the handler is then
"terminated" when it leaves, since the last thing it does is to destroy a joinable
`std::thread`.

`Matchmaking`. `TopUp` reads the scheduler three times and copies its own state before
it chooses; each of these is a step, and between them orders end, workers are lost and
versions become READY or fail. `groups` is history: the groups really enqueued.

`SwissRun`. `pc` is where the run's thread stands between two places where another
thread or a crash can come; a line of the state file is one step. `Restart` keeps
`file` and the job log, closes open jobs in the log and loses the rest.

`OrderJob`, `JobRun`. A phase is background steps and one foreground step. The thread in
`RunOrder` starts, waits and collects; processes write their files bit by bit, exit with
any code and having said anything, hang, time out where they have a limit (a stash has
none), or do not start; `Cancel` is one lookup and one kill per process group. What is
under `{{scratch}}` when the phase is over is collected, whoever left it there, and a
part of a file like a whole one. `OutcomeFor` is the code's decision, in its order, applied to the result.

`GameRun`. `tasks` is the strand's queue; one task is a step, and so is one round of
`Step`'s loop. The timer thread pops an entry and posts it as two steps, so an entry
whose cancel came too late is posted all the same; it carries the epoch it was armed
at. The rules of the game are any: a move may be legal or not, and the session may
rank the seats in any way (`Rankings`) once `Length` moves were made. `Conclude` is
modelled without its early return (`game_run.cc` 261), so that `EndsOnce` says that
nobody calls it twice.

`Referee`. A connection's call of `Join` runs on its own thread, one step for each time
it holds `mutex_`. `parked`, `listed` and `stopping` are the matchmaker's fields; a
game is made, started, played and over; `sweep` is what `Shutdown` took out under the
lock and works off after it. `main` waits for the tally or its deadline, shuts down,
drains and reports; a match of builtins it plays itself, and where one of them does not
exist it returns without a report (`RefuseBuiltins`). `Disconnect` marks a client and
unparks it in one step, which are two locks in the code: a client that is marked is
passed over by whoever finds it parked (`matchmaker.cc` 160-169), so nothing is told of
the moment between.

### Abstractions

- Contents: a patch is the number of its submission under an id, an artifact the
  number it was built from. Validation is the choice between storing and rejecting.
- A job's deque is a set: the front order is chosen freely, so the model has every
  dispatch order the code has. The ranks `LadderLocked` picks are left open too.
- Two seats: a match order has at most one rival candidate (`SchedulerAssumption`).
  A graded problem is the instance with `Archive = FALSE` and one builtin group.
- Not in `Scheduler`: `OnProgress` and `OnGame` (they write only a job's phase and
  game list), `referee_ref_`, the outbox itself (in `FleetStream`), files and restarts
  (in `ArenaServer`), and what a result does to the standings: a match is counted, for
  the entry and its rivals alike, in `Ratings`.
- In `ArenaServer`: the scheduler is what a restart can tell apart, which jobs it has
  and whether one is at its build or at its matches; its tables are in `Scheduler`.
- In `Matchmaking`: a placement is one order, ratings are left open, and what a member
  is short of is any set of authors. In `SwissRun`: the order a later round starts
  from is any.
- In `GameRun`: thinking time is whole units; a player's kit sends any action at any
  time. In `Referee`: bots dial, park, break off and dial again as they like.
- In `JobRun`: a step's output is what is looked for in it. In `JobSandbox`: a name
  docker sees is the tuple it is concatenated from.
- In the functions: a text is a sequence of symbols where a part of it matters.
- In `WorkerSession`: an order is read once (the coordinator sends an order to one
  stream once), a cancel comes after its order; artifacts, volumes, networks, logs and
  progress messages are left out (mounts and networks are in `JobSandbox`); a result
  says ok, failed or cancelled, and what it blames is in `JobRun`. One session is
  modelled: the next starts from the same state of runner and engine, by
  `NothingLeftBehind`.
- Bounds: every constant marked "bound" in its module caps an unbounded counter: jobs
  or matches ever enqueued, submissions, messages, actions, losses, write errors,
  restarts. `MaxAttempts` is the code's 3.


*Slips.* A definition marked "slip" is a wrong version of the one that follows it (a
dropped guard, a missing reset, a step left out). No action uses it. It documents
which mistake each property would notice; `PROJECT.json` pairs them ("mutants"), and
with the slip in place TLC finds the property violated.

## 3. Runs

Deadlock is checked in the three passing runs of the scheduler: workers can always come
and go. The others model something that ends (a stream, a session, a game, a match, an
order, a Swiss run) or that stops at a bound on what may happen (`Matchmaking`,
`ArenaServer`), so their runs do not check it.

| run | instance | shows |
|---|---|---|
| `SchedulerVersions` | 2 participants and a builtin, versions, archive, ladder of 1, matches, 2 jobs, 1 slot; a Send may fail | `TypeOK`; `ReadyWasBuilt`: what is READY was built from the stored copy; `LogIsCurrent` |
| `SchedulerResubmit` | 1 participant, 1 id, 2 submissions of 2 orders with or without `cancel_running`, queue of 2, 2 workers (2 slots and 1) that come and go | `LedgersAgree`: jobs, owners and slots tell the same story; `OpenJobsHaveWork`, `QueueQuota`; `ToldOnce`, `VerdictsStand`; `KeepsLedger`: the scheduler implements `OrderLedger` |
| `SchedulerProgress` | 2 jobs of a build, with retries, and 2 matches; a worker of 2 slots; under `Fairness` | `NoIdleSlot`; `EveryJobEnds` once the fleet stays up |
| `ArenaServer` | a participant that submits twice, as one entry or as two versions; 2 workers; one write, removal or rename of the store's that fails; two losses, each a stream or a file of the archive or a cache that is not written whole; two deaths anywhere | `NothingIsForgotten`; `ReadyIsWhole`: what a READY entry names is in the archive, all of it, unless two uploads wrote it at once; `NumbersAreNotReused`, `RestartKeepsReady` |
| `Streams` | a Play stream: a client of 3 messages, a game of 4, outbox of 2; or a worker's: 4 messages, outbox of 2; broken anywhere | `OneWriteInFlight`, `ConnectionOwnsFinish`, `CancelledEnds`; `AttachEnds`: once the connection broke, `Attach` gets through `Stop` to its end |
| `Matchmaking` | 3 versions of 2 authors, one still to be built, a builtin; 2 slots, one loss, 3 matches | `RunningIsOpen`: its books are the matches being played; `NoQuickRematch`; `PoolKeepsPlaying` |
| `SwissRun` | 3 versions and a builtin in pairs, 3 rounds, 1 restart anywhere, builds that fail or are given up | `NobodyPlaysTwice`, `RoundsDoNotOverlap`, `DrawIsFair`, `EveryRoundIsPlayed` |
| `WorkerSession` | 2 slots, an order of two phases (the second with a background step) and one that gets no container; the stream lost anywhere | `OrdersAreKept`: none lost, none run twice; `KilledIsCancelled`: a killed step is not taken for a failure; `NothingLeftBehind`; `OrdersEnd` |
| `JobRun` | a build order, a graded one of 2 runs, matches built or from the archive against one, two or no bots; a slot that is empty or holds what earlier orders left; one Cancel anywhere | `BlameIsEarned`: only a build that failed by itself is blamed; `CleanResultIsWhole`: without error and blame, every phase ran and every step whose end is read went well; `RunEnds`: a run ends, or waits for ever for a step it gives no limit |
| `GameRun` | 2 clients and a builtin, 4 moves, a budget of 1 unit, illegal moves, any final ranking, disconnects, a shutdown | `EndsOnce`, `ForfeitersRankLast`, `DeadlineIsFair`, `GameEnds` |
| `Referee` | 2 bots, 2 games, a stray connection of one of them or of a third; or 2 builtins; or builtins that do not exist | `EveryoneHasOnePlace`: a client is parked, in one game or gone; `SeatsAreAsAsked`; `MatchEnds` |
| `SchedulerOverlap` | 2 overlapping Submit calls of one participant | `ReadyWasBuilt` is violated, see below |

The scheduler's properties that no run lists (`NeverOverbooked`, `OneOpenJob`,
`StagedBehindReady` and `CountedOnce` of the instance of `SchedulerResubmit`,
`WaitingIsQueued` and `PassesEnd` of that of `SchedulerProgress`) hold when they are
added to these configurations; the first of each list is proved, `CountedOnce` too.

Why these bounds are enough to meet the cases: two jobs are what superseding, a late
result and the scan of `queue_` need; two orders per job, so that one is out while
the other waits or fails; two workers of unequal size, so that "emptiest" chooses
and a requeued order finds another worker; a ladder and two participants for an entry
that meets another; two revisions for a staged copy (three where an older copy must be
overtaken); an outbox smaller than the number of messages, so that it is full. Two
slots for one notification, two phases for a cancel between them, and two steps for a
kill that comes between their starts; two orders in the engine at once share nothing
there (its maps are keyed by job id), so one of the two stays outside. In
`ArenaServer`, two submissions for a replacement and for a version's number, two deaths,
each at any of some thousand places, because the second may hit the repair of what the
first left, and a second upload of the same bytes; two losses, so that an upload can both
fail and lose its worker. The two workers are alike, and TLC takes them so (SYMMETRY; the
run has no liveness property). In `JobRun`, what a slot may hold is nothing, or after an
earlier match, grade and stash all there is to be left, a cut copy among it. In
`SwissRun`, three
entries besides the builtin, so that somebody sits out or repeats in three rounds. In
`Matchmaking`, a recent list of one, short enough to run over in three matches. In
`GameRun`, three seats for two forfeits in a row, four moves for a timer that outlives
its turn. In `Referee`, two games for a rotation of seats and a second dial, a stray
for a second connection under one name.

### Where the code does not do what it says

`SchedulerOverlap` is a run of the project: two `Submit` calls of one participant store
in one order and enqueue in the other, and READY goes to code no one built
(`PROJECT.json`, "findings"). The other disagreements below are not runs. Each is a
property in the module, with the text it comes from, that TLC finds violated when it
replaces the properties of the configuration; the passing runs avoid these situations
by their constants (`MayBreak`, `WorkerOf`) or state a property that does not depend on
them.

| configuration | property | what happens |
|---|---|---|
| `SchedulerSendFails` | `NothingSentBlank` | a failed `Send` leaves an empty order in the deque; the next worker is sent it (`scheduler.cc` 441-445) |
| `SchedulerReconnect` | `RequeuedWhenGone` | a reconnect before the old stream ends loses what was in flight: it is never requeued (`scheduler.h` 85) |
| `SchedulerUntold` | `EveryEndIsTold` | a failed job whose last worker goes away is never reported to `on_concluded` |
| `SchedulerStale` | `OnlyNewestCounts` | the last order of a failed job survives a resubmit; its result counts for the new code (`scheduler.cc` 312) |
| `Streams` | `WriterIsJoined` | a failed `Write` makes `Stop` return before it joins the writer, and the destructor of the joinable thread terminates the program (`fleet_service.h` 40) |
| `Streams` | `OneFinish` | a connection published on a stream that the hello deadline or a cancel has finished finishes it again (`play_reactor.h` 42) |
| `Matchmaking` | `PlacementsFirst` | a placement that is requeued, or arrives after the matchmaker looked, waits behind a match (`matchmaking.h` 17) |
| `ArenaServer` | `WorkingEntryStays` | a death, or a write or a rename that fails, while `SetStatus` puts the staged copy in place can cost the working entry (`candidate_store.cc` 429) |
| `ArenaServer` | `NeverHalfAFile` | two uploads of the same bytes write into one temporary file: its half is renamed into place. If the process dies then, it stays: `Put` takes a blob that is there for whole, and a READY entry may name it (`game_history.h` 23) |
| `ArenaServer` | `FetchedIsWhole` | a worker's cache keeps a binary whose write was cut short and gives it to every later order (`artifact_cache.cc` 56-61) |
| `ArenaServer` | `PlacedAgain` | an entry whose build succeeded before the process died is READY, so its matches are not placed again (`problem_server.cc` 251) |
| `GameRun` | `ReleasedInConclude` | a game aborted before `Start` concludes first and keeps itself alive afterwards (`game_run.h` 84) |
| `Referee` | `PartialIsShort` | games cut off by the shutdown are counted, so a cut-off match can report as many games as were asked for (`referee_main.cc` 244) |
| `JobRun` | `HangHoldsUpNothing` | a grade run that hits its limit ends the job: the next run does not start (`order_job.cc` 445) |
| `JobRun` | `ArchivedIsWhole` | a copy of the binaries that failed or was killed midway is archived: `OutcomeFor` reads neither the stash's exit code nor its timeout, only whether files are there, and an earlier order's may be (`order_outcome.cc` 192-212) |

Seen while modelling, and no property:

- `max_active_evaluations` is tested when a slot is reserved (`scheduler.cc` 140) and
  not when a job is dispatched, so jobs that were queued together also run together.
- `TryReserve` with `cancel_running` frees slots and does not dispatch. If that
  submission is then refused, orders of others wait beside a free slot until the next
  call that dispatches; `NoIdleSlot` is checked without `cancel_running`.
- `EnqueuePlacement` returns without dispatching when it finds nothing to run, although it
  has just aborted the jobs it replaces (`scheduler.cc` 290-300): the slots they free wait
  for the next call in the same way.
- `OnGame` stores a game after releasing the lock under which it checked the owner
  (`scheduler.cc` 529-551): games may be stored in another order than they ended, and
  `RatingExamples` shows that the order matters (`OrderMatters`).
- `early_` keeps the ids of placements for ever (`matchmaking.cc` 389).
- A builtin listed twice among the placement opponents leaves short groups in the
  ladder (`TwiceListedFallsShort`); validation does not ask that they differ.
- A `timeout_s` of 0 stands for the worker's default, but gives a match deadline of one
  second (`NoTimeoutIsOneSecond`).
- A replaced token is taken until the registry is read again, which only an unknown
  token brings about (`ReplacedTokenLingers`; `arena_admin.cc` 20-23 says as much).
- A line of a file list that starts with "++ " is read back as a header
  (`PlusPlusIsLost`); a submitter may list the harness's own dependency a second time
  (`LabelsAreListedOnce`).

### Fairness

Always: threads that can run do. What else is assumed of each module:

- `Scheduler`: the dispatch loop runs on, and a connected worker in the end answers each
  order it was sent whose answer is awaited: every phase of an order has a time limit
  after which the engine kills it (`container_engine.cc` 427-459), and a slot then
  writes the result (`sandbox_worker.cc` 157-168). Nothing is assumed of participants,
  of workers coming and going, or of late answers. `EveryJobEnds` has the premise that
  from some point on all streams stay up: a fleet that keeps restarting can requeue an
  order for ever, and the code has no bound on that.
- `FleetStream`: `Write` on a broken connection returns; on one that lives it need not
  (`WriterGoesOn` has `WriteFails` and not `WriteSucceeds`), so `AttachEnds` has the
  premise that the connection has broken.
- `PlayStream`: gRPC completes what is out on a broken or finished stream and calls
  `OnDone`; nobody has to send anything or to break.
- `Matchmaking`: the thread wakes every two seconds, each order is answered, and a lost
  worker is started again. `SwissRun`: a placement and a match end. Both are what the
  scheduler gives by `EveryJobEnds`. A seed whose placement the scheduler gave up stays
  PENDING and is waited for without end; `EveryRoundIsPlayed` says so (`GivenUp`).
- `WorkerSession`: every stage of a slot ends: a docker command returns, and a step that
  does not exit is killed at its time limit. Nothing is assumed of what is read or when
  the stream breaks.
- `JobRun`: the thread in `Run` goes on, which includes the limits it keeps, and so do a
  Cancel's kills. Nothing is assumed of the processes: a foreground step may hang until
  its limit, and a stash, which has none, or a background step once the foreground is over
  (`process_engine.cc` 228), for ever. `RunEnds` says that a run ends or does wait for one
  of these for ever, and that one in its last phase ends once a Cancel has found what it
  runs.
- `GameRun`: the pool's threads run the strand, the timer fires. Clients owe nothing.
- `Referee`: games end (`GameEnds`), the match deadline passes. Bots owe nothing.
- `ArenaServer` has safety properties only.

## 4. Proofs

TLC checks the instances above; what follows holds for every value of the constants
that the modules' named assumptions admit (`SchedulerAssumption`, `StoreAssumption`,
`ServerAssumption`, `SessionAssumption`, `OrdersAssumption`, `RepeatsAssumption`,
`GameAssumption`, `StreamAssumption`, `RefereeAssumption`, `MatchmakingAssumption`, `SeatsAssumption`,
`SwissAssumption`).

`SchedulerProofs`, for every fleet, ids that are shared and streams that break included:

- `TypeCorrect`: `SafetySpec => []TypeOK`. `TypeOK` alone is not inductive: that
  `reserved` stays a natural number when a Submit call hands its slot back needs
  `ReservationsCover` (every stored submission holds a reservation of its client).
  `TypeInv` adds it; there is one lemma per action, and `SettleType` for what all
  results share.

On it rests the inductive invariant `JobsInv`, again for every fleet. For each job, `SoundJob` says: its orders are its own, and none is both waiting and
running (`OwnOrders`); a build order is alone, and match orders mean the groups have
been dealt out (`BuildThenPlay`); an open job has work, a finished one has none unless
it failed on blame and was aborted (`WorkWhileOpen`); who was told was told once, and
no work is left (`ToldAtTheEnd`); an order that was counted is gone for good
(`CountedIsGone`). `OwnedIsRunning` is needed with them: what `order_owner_` names,
some job is running.

- `ToldOnceAlways`, `OpenJobsAlwaysHaveWork`: from `JobsInv`. A result is accepted only
  of an order with an owner; its job then has work, so it is neither over nor told, and
  `ConcludeJobLocked` acts only when this was the last of it.
- `VerdictsAlwaysStand`, `CountedOnceAlways`: every step from a state of `JobsInv` is
  fair (`NextIsFair`): the only writers of a verdict act on jobs with work, and the
  accepted order leaves `running`, where it cannot be accepted again. A failed Send's
  empty order shares the empty id with others, and is answered with an error, which
  counts nothing.
- `QueueQuotaAlways`: `TryReserve` counts what is queued and reserved under one lock,
  and an enqueue turns its reservation into a queued job; a job never goes back to
  QUEUED. The counting uses the library's theorems about cardinalities.
- `LogIsAlwaysCurrent`: `logged = state` is inductive, one lemma per handler that writes
  a verdict. `LogIsCurrent` asks it only of states in which the lock is free; it holds
  in the others too.
- `WaitingIsAlwaysQueued`: a job that has an order to dispatch and was not aborted is in
  `queue_`, and none is there twice, in the middle of a pass too. `RemoveWorker` looks
  before it puts a job back, `OnBuiltLocked` (668, 697) does not: `OnceInv` says that a job
  in `queue_` has an order to dispatch or was aborted, and none of its builds is out; so
  the answer of a build finds its job gone from the queue.
- `WorkersAreNeverOverbooked`: an order is given out only where `Room` is left, and a
  registration starts empty; also where two streams share an id.
- `ReadyWasAlwaysBuilt`, with versions: `BuiltInv` follows a copy from its submission
  through the orders that carry it to the worker's answer. An id has one job then, so
  the answer that makes it READY is about the copy that is stored. Without versions it is
  false, as `SchedulerOverlap` shows.

The second half of `SchedulerProofs`, for fleets in which a Send to an attached worker does not fail
(`~ MayBreak`; with a failing one an order loses its contents and its name, and the
ledger cannot follow it). Streams may share worker ids.

- `LedgerIsKept`: `SafetySpec => KeepsLedger`, the refinement of `OrderLedger`. The
  simulation needs `LedgerInv`: registered streams can be written to and nothing is
  emptied (`SendsWork`); an order in hand has contents, and one that has contents is a
  build attempt made so far or was dealt out (`BornInTurn`), so a new order is unborn;
  only a job that is over is aborted, and a failed one builds nothing (`AbortedIsOver`).
  `Spot` tells an order's place from its own job. The submissions are `Cancel` and `Begin`
  steps of the ledger, `SendOrder` is `HandOut`, `RemoveWorker` is `TakeBack`, a result
  is `Answer` (`Answered` is what all six kinds of results share), everything else
  stutters.

And where moreover a worker id has one stream (`OneStreamEach`; the
run `SchedulerReconnect` shows what happens otherwise):

- `LedgersAlwaysAgree`: `SafetySpec => []LedgersAgree`. The invariant says of each order
  (`Booked`): running, it is owned, holds a slot of its owner and is with the owner's
  stream; who holds its slot owns it; and what a worker still has was made, waits nowhere
  and belongs to that worker or to nobody (`SentIsKnown`). The last part is what
  `LedgersAgree` lacks to be inductive: without it an order could be handed out a second
  time while its first worker's answer is on the way.
- `NoSlotIsEverIdle`: when the lock is free, no open job's order waits beside a free slot.
  `PassInv` says what the pass under way has established: a worker that had room when the
  cursor went by has taken an order since, and a pass ends the dispatching only if
  nothing moved in it. The hypotheses beyond `~ MayBreak` are `~ MayCancel` and that a
  submission has something to run (`AlwaysWork`): where neither a build nor a group is to
  be had, `EnqueuePlacement` aborts the older jobs, which frees slots, and returns without
  dispatching (`scheduler.cc` 290-300).

`WorkerSessionProofs`, for any slots, orders and phases. `SessionInv` ties a slot's stage
to what the session, the runner, the engine and docker know of its order: each of the
four books lists an order exactly while a slot is in the stretch of its work that the
book stands for (`BooksAlwaysAgree`), and a container that was killed belongs to a job
marked cancelled.

- `OrdersAlwaysKept`: an order that was read waits, is at one slot, was answered once or was
  cancelled while it waited. `KilledAlwaysCancelled`: a killed step is answered CANCELLED or not
  at all. `NothingIsLeftBehind`: a session that was joined leaves runner, engine and docker
  empty, which is what lets one session be modelled.

`ArenaServerProofs`, for any participants, workers, revisions, failing writes, lost
streams and deaths:

- `ServerIsSound`, the invariant `ServerInv`: the operation under way stands where its lock
  and phase say (`StoreInv`), a job is at its build or at its matches (`JobsFit`), an entry
  that is READY, or staged behind one that is, has its bot in the archive
  (`EntriesSound`), and in the archive a digest that no two uploads wrote at once has one
  writer, has in it what that writer is past, and is whole under its final name
  (`ArchiveSound`). `ReadyIsAlwaysWhole` follows. The exception cannot be dropped: see
  `NeverHalfAFile` in section 3.
- `NothingIsEverForgotten`: with `Remembered`, that what waits in the store waits in exactly one
  other place too: a Submit call, a job, the operation that stores it, the list that start-up
  works off, or the mark that its job was given up.
- `NumbersAreNeverReused`: with `OneEach`, that an id belongs to one submission's calls and
  jobs. The next number is one above the largest on disk (`MaxOfBounded`: it is the
  largest, by well-foundedness of the naturals, without induction over the set).
- `RestartAlwaysKeepsReady`: with `DiskInv`, which says for each place inside `Create` and
  `SetStatus` what is in the entry's directory, beside it and in the manifest.

`JobRunProofs`, for any orders and any number of graded runs. First what a job can be
(`JobIsLaid`): the build is its first phase, a stash or a match its last, no step of a
phase has another's name. `RunInv` then follows the run: what was started and is not over
belongs to the current phase (`Traces`); how a process ended fits what the thread and the
canceller know: what the engine stopped is of a phase that failed, what a Cancel killed is
of a job that stays marked until its status says so (`Excused`, `Marked`); the results of a
phase are those of its processes, each of which is over (`Results`).

- `BlameIsAlwaysEarned`: under OK nothing was killed, so the build that is read either
  ended by itself or timed out, and one that timed out is not blamed.
- `CleanResultsAreWhole`, whatever the slot holds: by cases of what `OutcomeFor` reads. A
  phase before the last was passed; a build, a grade or a player's step that is read without
  an error ended by itself. Of a stash, and of a match without bots, only the files are
  read; these are left out, and `ArchivedIsWhole` is what one would like to know of them.
- `NothingEverOutlivesRun`: whichever way `Run` returns.

`MatchmakingProofs`, for any versions, groups, slots and losses. `MatchmakingInv` has two
halves. The scheduler's: the queue lists nothing twice and nothing a worker has (`Books`),
no more orders are out than there are slots (`Slotted`), and what was given to it waits,
is out, or is over (`OrderIsSomewhere`). The matchmaker's: `Handed` says what stands
between `EnqueueMatch` and the lock under which its id is noted: an end that comes in
between is in `early_`.

- `RunningIsAlwaysOpen` is a part of the invariant: `OnConcluded` finds its match in
  `running_`, or it is the one just enqueued and goes to `early_`, where `RecordMatch` finds
  it. `OrdersAreSomewhere` is the scheduler's half.
- `RematchesAreForced`, that is `NoQuickRematch`: with `RecentIsTrue`, that `recent_`, and
  `TopUp`'s copy of it while it has one, are the last opponents by the whole list of
  matches enqueued. `recent_` keeps only a few, `Kept`, and what it has dropped is never
  missed (`LastFewSuffice`); the list is read by a recursion (`EveryoneMetNext`). Groups
  of the same authors differ for `ChooseGroup` only in whether they are fresh
  (`BestIsFresh`).

`SwissProofs`, for any entries, seats, rounds, builtins and restarts. The draw first, for
every ranking, set of pairs that met and set of byes had. A stage of the draw is one step
of a recursion over numbers, and what is known of a stage follows by induction over them;
the induction the library offers takes an operator, so `UpTo` and `StageByStage` state it
with a set and a sequence of sets, from the well-foundedness of the naturals, and
`RecursionExists` builds the recursive function as the union of its approximations.

- `AwayAre`: places are sent away one by one, none twice, each fresh or, when all that are
  left have sat out, the lowest. `GroupFromIs`: one group has `Seats` different places,
  each fresh for those before it where one of the left is. `GroupsOfAre`: the groups use up
  the pool, which `Seats` divides. `DrawIsGood` puts them together: `Shares` (everybody is in
  one group once, or has one bye; fewer byes than seats) and `IsFair`.
- `ThoseAre`: what is kept of a sequence, in its order (`CodeFirst`, the first ranking).

Then the run. `SwissInv` relates what a death destroys to what it leaves:
`ThreadKnowsTheFile`: the thread's `played` and `hadBye` are what the file says, plus the one
match that is enqueued and not yet logged; `JobsAreKnown`: until the run has settled no job is
open, the id on a line is one that was given out, and a line of the round being drawn is
among `matches`; `DrawIsKept`: who is on a line of this round is in one of the groups already
dealt with.

- `RoundsNeverOverlap` and `DrawsAreFair` follow. `NobodyEverPlaysTwice` is part of the
  invariant and needs one more, `ByesAreFinal`: the byes of a round are written last, so a
  round on file with byes and no match has a resumed run draw it again, and it must then
  have no match to draw. It has none: the round had fewer entries than a group, and no
  entry becomes READY once the run has settled.
- The match that is enqueued when the process dies, and is not on file, is the reason why
  these speak of the file: its round is drawn again, and no line will name it. If it was
  open, the job log has it CANCELLED by the time the run resumes.

Three attempts failed for a reason in the model, and the model was corrected. A Submit
call could return while the process was down (its guard lacked the phase), which TLC could not tell from
a call that died. `RestartKeepsReady` was too strong once a second death or a second
failed write is allowed: a death between the renames of a replacement, and another during
the start that follows, can leave other files or none. It now says what a second death may
cost, claims nothing once a write, a removal or a rename has failed, and its run has two
deaths. And with no participant, or no revision at
all, the server has nothing to store; both are excluded.

`PlayProofs`, for any outbox and any number of messages: `StreamsOneWrite` and
`StreamsOwnFinish` follow from `StreamInv`, which says which thread is where when a
flag is set: `inFlight` is the one write that is out or about to be started, and
whoever is about to finish has set `finishIssued` under the lock.

It also proves, for any number of seats, moves and clients: `GameEndsOnce` and
`GameEndIsFinal` need no more than themselves; `GameDeadlineIsFair` follows from
`TurnInv`: the epoch counts turns, so a timer armed at an earlier one carries a smaller
number; `GameForfeitersRankLast` from `RankInv`: nobody forfeits twice, and a stored
record is the placing of the scores, in which forfeiters are below all others.

`RefereeProofs`, for any number of bots, builtins and games, any stray connection, and
whatever is disconnected, reaped, shut down or still joining. `PlacesInv` is inductive
where `EveryoneHasOnePlace` is not: that one speaks of the clients who are live, while a
step may pick up one who is gone, out of `rendezvous_`, and seat it. So `EveryoneFits`
says of every connection, live or not, that it is in at most one place (`Fits`), and
`Phases` when a place is empty: nobody is parked once `stopping_` is set, a thread holds a
party only between two of `Join`'s locks, a game that was not made has no seats.

- `EveryoneHasAPlace`: a live client is parked, in one call, in one game, with the reaper
  or with the sweep, and in exactly one of them. A step takes somebody out of one place
  and puts them into another, and everybody else's places stay as they were
  (`PlacesAreNext`); the group of a `Join` leaves `parked` for its party in one step
  (`JoinKeeps`).
- `GamesAreAsAsked`: with `AskedInv`, that parties and games have one key, that of the
  live clients who are parked under a key no two have the same name, and that who is
  parked or about to be named no partner twice. A full group is then as many different
  names as were asked for, out of those asked for: all of them (`WholeGroup`), which
  `SameWanted` needs, since a key alone lists members and builtins together. Its hypothesis
  `NamesApart` says that no Hello has, or asks for a player with, the name of a builtin
  that another asks for. `Join` reads `player_name` as it comes (`play_reactor.cc` 89-118),
  so this is left to whoever starts the bots; TLC evaluates it for the run's (`MCNamesApart`).
- `SeatingIsAnOrder`, which the last step of a group rests on: for every group and every
  count of games before, the sort, the permutations and the rotation give the members of
  the group, each in one seat. `SeatedByRearranges` has the same of who takes the seats.

For this the sort of `SeatRotation` and the seats of `Referee` are a choice among the
rearrangements of a group (`Orders`) instead of library operators of which the prover
knows nothing; what they return is the same, and so are the run's states.

Two other models changed for their proofs. `SwissGroups` had taken the lists themselves
through its recursions; it now speaks of places in the ranking and of the set that is left,
which says the same with less, and recurses over numbers. In `Matchmaking` a worker with an
order could be lost only when none was idle: now any may be lost; the versions and
builtins are finitely many; and whom one met in a group is the group without oneself
(`RemoveFirst`), not a selection the prover cannot see into.

Only model-checked: liveness and fairness (the prover has no ENABLED) in all modules;
that in `SeatRotation` everybody has every seat equally often and every order comes round,
which compares whole series of games; and what the functions' modules say, which is
evaluated over bounded inputs. Every invariant and every action property that a passing
run checks is stated by a theorem; what is left to the runs alone is that things end
(`EveryJobEnds`, `OrdersEnd`, `EveryRoundIsPlayed`, `PoolKeepsPlaying`, `GameEnds`,
`MatchEnds`, `CancelledEnds`, `AttachEnds`, `RunEnds`).

## 5. Not modelled

- `OnProgress` and `OnGame`: they write a job's phase and its list of games, which no
  other handler reads; the order of stored games is noted above.
- The formulas of Elo and TrueSkill, floating point: `Ratings` takes them as parameters.
- Text formats and their parsers (textproto, JSON, the index lines' syntax): a value is
  what is read from it. Diffs and option lists are modelled, because paths and options
  are moved by editing them.
- Pages and charts: read-only rendering.
- The command line, `arena_tournament` and the priming of sandboxes: clients of the
  services, which share no state with the system.
- The pool's threads and the timer's heap: `GameRun` takes a strand as a queue that is
  run while it is not empty, which the flag and the queue under one lock give.
- The worker's loop that attaches again, and the orderly shutdown of the coordinator:
  the next session starts like the one before (`NothingLeftBehind`), and what a shutdown
  leaves is what a death leaves.
- The composition of `Scheduler` with `WorkerSession` and `ArenaServer`: each is run
  against what the other is known to do, since a joint state space is beyond TLC.
