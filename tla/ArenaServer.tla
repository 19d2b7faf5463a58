---------------------------- MODULE ArenaServer ----------------------------
(***************************************************************************)
(* The coordinator process over its life (server/problem_server.cc): the   *)
(* store on disk, the archive and the job log together, a placement's way  *)
(* from Submit to its result through them, and a process that dies at any  *)
(* step, finds what is on disk and starts again.                           *)
(*                                                                         *)
(* The scheduler is reduced to what a restart can tell apart: which jobs   *)
(* it has, and whether one is at its build or at its matches.  Its lock is *)
(* held while a result is worked off (lock), the store's while one of its  *)
(* methods runs (op); Submit stores under one and enqueues under the other.*)
(***************************************************************************)
EXTENDS CandidateDisk, ArtifactStore

CONSTANTS
  BytesOf,      \* the digest of what a submission builds to
  NoWorker,
  MaxJobs,      \* bound: placements ever enqueued
  MaxLosses,    \* bound: streams lost, and files of the archive's not written whole
  MaxRestarts   \* bound: times the process dies

Jobs == 1 .. MaxJobs
MaxAttempts == 3

ASSUME ServerAssumption ==
  /\ MaxRev \in Nat \ {0} /\ {MaxFails, MaxJobs} \subseteq Nat
  /\ Participants # {} /\ MaxLosses \in Nat /\ MaxRestarts \in Nat
  /\ BytesOf \in [1 .. MaxRev -> Digests] /\ IsFiniteSet(Digests)
  /\ NoWorker \notin Workers /\ IsFiniteSet(Workers)

VARIABLES
  phase,       \* "down", the stages of main, "up"
  log,         \* on disk: the job log, job -> [id, rev, state]
  rated,       \* on disk: the ids with a rated row
  stage,       \* the scheduler's jobs: "BUILD", "MATCH", or "NONE" when over
  builder,     \* job -> the worker its build order is at
  attempts,    \* build_attempts
  lock,        \* the job whose result is being worked off, or 0
  entering,    \* submissions stored and not yet enqueued
  toPlace,     \* main: the candidates still to be placed again
  losses, restarts

serverVars == <<phase, log, rated, stage, builder, attempts, lock, entering, toPlace,
                losses, restarts>>
vars == <<storeVars, archiveVars, serverVars>>

JobStates == {"NONE", "OPEN", "DONE", "FAILED", "GAVE_UP", "CANCELLED"}
NoRecord == [id |-> CHOOSE id \in Ids : TRUE, rev |-> 0, state |-> "NONE"]

TypeOK ==
  /\ live \in [Ids -> Entry] /\ staged \in [Ids -> Entry]
  /\ dir \in [Places -> [Ids -> [files : Revs, manifest : Entry]]]
  /\ tmp \in [Digests -> {0} \cup Inodes] /\ blob \in [Digests -> {0} \cup Inodes]
  /\ half \in [Inodes -> SUBSET Halves]
  /\ phase \in {"down", "closing", "placing", "up"}
  /\ log \in [Jobs -> [id : Ids, rev : Revs, state : JobStates]]
  /\ stage \in [Jobs -> {"NONE", "BUILD", "MATCH"}]
  /\ builder \in [Jobs -> Workers \cup {NoWorker}]
  /\ attempts \in [Jobs -> 0 .. MaxAttempts]
  /\ lock \in {0} \cup Jobs /\ rated \subseteq Ids /\ toPlace \subseteq Ids
  /\ entering \subseteq Ids \X Revs

Init ==
  /\ StoreInit /\ ArchiveInit
  /\ phase = "up"
  /\ log = [j \in Jobs |-> NoRecord]
  /\ rated = {} /\ entering = {} /\ toPlace = {}
  /\ stage = [j \in Jobs |-> "NONE"]
  /\ builder = [j \in Jobs |-> NoWorker]
  /\ attempts = [j \in Jobs |-> 0]
  /\ lock = 0 /\ losses = 0 /\ restarts = 0

NextJob(j) == log[j] = NoRecord /\ \A i \in 1 .. j - 1 : log[i] # NoRecord
Ends(j, state) ==
  /\ log' = [log EXCEPT ![j].state = state]
  /\ stage' = [stage EXCEPT ![j] = "NONE"]
  /\ builder' = [builder EXCEPT ![j] = NoWorker]

-----------------------------------------------------------------------------
(* Submit.                                                                   *)

SubmitStores(p) ==
  /\ phase = "up" /\ StartCreate(p)
  /\ UNCHANGED <<archiveVars, serverVars>>

SubmitReturns ==
  /\ phase = "up" /\ op.do = "create" /\ op.at \in {"stored", "refused"}
  /\ entering' = IF op.at = "stored" THEN entering \cup {<<op.id, op.entry.rev>>}
                 ELSE entering
  /\ op' = Idle
  /\ UNCHANGED <<versions, live, staged, dir, revs, fails, archiveVars, phase, log, rated,
                 stage, builder, attempts, lock, toPlace, losses, restarts>>

(* EnqueuePlacement: older jobs of the candidate are cancelled.               *)
Older(id) == {j \in Jobs : log[j].id = id /\ stage[j] # "NONE"}
Place(j, id, rev) ==
  /\ NextJob(j)
  /\ log' = [i \in Jobs |-> IF i = j THEN [id |-> id, rev |-> rev, state |-> "OPEN"]
                            ELSE IF i \in Older(id) THEN [log[i] EXCEPT !.state = "CANCELLED"]
                            ELSE log[i]]
  /\ stage' = [i \in Jobs |-> IF i = j THEN "BUILD"
                              ELSE IF i \in Older(id) THEN "NONE" ELSE stage[i]]
  /\ builder' = [i \in Jobs |-> IF i \in Older(id) THEN NoWorker ELSE builder[i]]

SubmitPlaces(j, id, rev) ==
  /\ phase = "up" /\ lock = 0
  /\ <<id, rev>> \in entering /\ entering' = entering \ {<<id, rev>>}
  /\ Place(j, id, rev)
  /\ UNCHANGED <<storeVars, archiveVars, phase, rated, attempts, lock, toPlace, losses,
                 restarts>>

-----------------------------------------------------------------------------
(* A build: a worker takes the order, uploads what it built and answers.     *)

Upload(j) == upload[builder[j]]
Take(j, w) ==
  /\ phase = "up" /\ lock = 0
  /\ stage[j] = "BUILD" /\ builder[j] = NoWorker
  /\ \A i \in Jobs : builder[i] # w
  /\ StartUpload(w, BytesOf[log[j].rev])
  /\ builder' = [builder EXCEPT ![j] = w]
  /\ UNCHANGED <<storeVars, phase, log, rated, stage, attempts, lock, entering, toPlace,
                 losses, restarts>>

(* The worker's stream ends; its upload, a call of its own, goes on.          *)
LoseWorker(j) ==
  /\ phase = "up" /\ lock = 0 /\ builder[j] # NoWorker /\ losses < MaxLosses
  /\ losses' = losses + 1
  /\ builder' = [builder EXCEPT ![j] = NoWorker]
  /\ UNCHANGED <<storeVars, archiveVars, phase, log, rated, stage, attempts, lock,
                 entering, toPlace, restarts>>

WriteFails(w) ==
  /\ phase # "down" /\ losses < MaxLosses /\ losses' = losses + 1
  /\ FailedWrite(w)
  /\ UNCHANGED <<storeVars, phase, log, rated, stage, builder, attempts, lock, entering,
                 toPlace, restarts>>

(* An upload nobody waits for any more has ended.                             *)
UploadEnds(w) ==
  /\ upload[w].at \in {"ok", "error"} /\ \A j \in Jobs : builder[j] # w
  /\ upload' = [upload EXCEPT ![w] = NoUpload]
  /\ UNCHANGED <<storeVars, tmp, blob, half, short, contended, serverVars>>

Answered(j) ==
  /\ phase = "up" /\ lock = 0 /\ builder[j] # NoWorker
  /\ upload' = [upload EXCEPT ![builder[j]] = NoUpload]
  /\ UNCHANGED <<tmp, blob, half, short, contended>>

Archived(j) == Upload(j).at = "ok" /\ Has(Upload(j).digest)
BuildSucceeds(j) ==
  /\ Answered(j) /\ Archived(j)
  /\ StartSetStatus(log[j].id, "READY", log[j].rev)
  /\ lock' = j
  /\ builder' = [builder EXCEPT ![j] = NoWorker]
  /\ UNCHANGED <<phase, log, rated, stage, attempts, entering, toPlace, losses, restarts>>

(* The code's fault: it never comes to an upload.                             *)
BuildIsBlamed(j) ==
  /\ Answered(j) /\ Upload(j).at = "open"
  /\ StartSetStatus(log[j].id, "BUILD_FAILED", 0)
  /\ lock' = j
  /\ builder' = [builder EXCEPT ![j] = NoWorker]
  /\ UNCHANGED <<phase, log, rated, stage, attempts, entering, toPlace, losses, restarts>>

(* The engine's: again, a few times.                                          *)
BuildErrs(j) ==
  /\ Answered(j) /\ Upload(j).at = "error"
  /\ attempts' = [attempts EXCEPT ![j] = @ + 1]
  /\ IF attempts[j] + 1 < MaxAttempts
     THEN builder' = [builder EXCEPT ![j] = NoWorker] /\ UNCHANGED <<log, stage>>
     ELSE Ends(j, "GAVE_UP")
  /\ UNCHANGED <<storeVars, phase, rated, lock, entering, toPlace, losses, restarts>>

(* SetStatus has returned: the matches follow, or the job is over.            *)
ResultIsIn(j) ==
  /\ lock = j /\ At("status", "marked")
  /\ op' = Idle /\ lock' = 0
  /\ IF op.entry.status = "READY"
     THEN stage' = [stage EXCEPT ![j] = "MATCH"] /\ UNCHANGED <<log, builder>>
     ELSE Ends(j, "FAILED")
  /\ UNCHANGED <<versions, live, staged, dir, revs, fails, archiveVars, phase, rated,
                 attempts, entering, toPlace, losses, restarts>>

(* Players fetch the bot; the standings save the row before the job is DONE.  *)
MatchesEnd(j) ==
  /\ phase = "up" /\ lock = 0 /\ stage[j] = "MATCH"
  /\ rated' = rated \cup {log[j].id}
  /\ Ends(j, "DONE")
  /\ UNCHANGED <<storeVars, archiveVars, phase, attempts, lock, entering, toPlace, losses,
                 restarts>>

FetchBot(j) ==
  /\ phase = "up" /\ stage[j] = "MATCH" /\ Fetch(BytesOf[log[j].rev])
  /\ losses' = losses + Cardinality(short' \ short) /\ losses' <= MaxLosses
  /\ UNCHANGED <<storeVars, phase, log, rated, stage, builder, attempts, lock, entering,
                 toPlace, restarts>>

-----------------------------------------------------------------------------
(* The process dies, and main.                                               *)

Die ==
  /\ phase # "down" /\ restarts < MaxRestarts
  /\ restarts' = restarts + 1
  /\ phase' = "down" /\ lock' = 0 /\ entering' = {} /\ toPlace' = {}
  /\ stage' = [j \in Jobs |-> "NONE"]
  /\ builder' = [j \in Jobs |-> NoWorker]
  /\ attempts' = [j \in Jobs |-> 0]
  /\ ArchiveDies
  /\ UNCHANGED <<storeVars, log, rated, losses>>

Boot ==
  /\ phase = "down" /\ phase' = "closing"
  /\ Load
  /\ UNCHANGED <<archiveVars, log, rated, stage, builder, attempts, lock, entering, toPlace,
                 losses, restarts>>

(* Nothing in flight survives: what the log still has open is closed, ...     *)
CloseRecord(j) ==
  /\ phase = "closing" /\ log[j].state = "OPEN"
  /\ log' = [log EXCEPT ![j].state = "CANCELLED"]
  /\ UNCHANGED <<storeVars, archiveVars, phase, rated, stage, builder, attempts, lock,
                 entering, toPlace, losses, restarts>>

NobodyWaits == {}                                                      \* slip
WaitingIds == {id \in Ids : live[id].status = "PENDING"}
AllClosed ==
  /\ phase = "closing" /\ \A j \in Jobs : log[j].state # "OPEN"
  /\ phase' = "placing" /\ toPlace' = WaitingIds
  /\ UNCHANGED <<storeVars, archiveVars, log, rated, stage, builder, attempts, lock,
                 entering, losses, restarts>>

(* ... and who was waiting on its placement is placed again.                  *)
PlaceAgain(j, id) ==
  /\ phase = "placing" /\ id \in toPlace
  /\ toPlace' = toPlace \ {id}
  /\ Place(j, id, live[id].rev)
  /\ UNCHANGED <<storeVars, archiveVars, phase, rated, attempts, lock, entering, losses,
                 restarts>>

Serve ==
  /\ phase = "placing" /\ toPlace = {} /\ phase' = "up"
  /\ UNCHANGED <<storeVars, archiveVars, log, rated, stage, builder, attempts, lock,
                 entering, toPlace, losses, restarts>>

-----------------------------------------------------------------------------
InStore == phase # "down" /\ StoreStep /\ UNCHANGED <<archiveVars, serverVars>>
InArchive == phase # "down" /\ ArchiveStep /\ UNCHANGED <<storeVars, serverVars>>
Submissions ==
  \/ \E p \in Participants : SubmitStores(p)
  \/ SubmitReturns
  \/ \E j \in Jobs, id \in Ids, rev \in Revs : SubmitPlaces(j, id, rev)
Building ==
  \/ \E j \in Jobs, w \in Workers : Take(j, w)
  \/ \E j \in Jobs : BuildSucceeds(j) \/ BuildIsBlamed(j) \/ BuildErrs(j) \/ ResultIsIn(j)
  \/ \E w \in Workers : UploadEnds(w) \/ WriteFails(w)
Playing ==
  \E j \in Jobs : MatchesEnd(j) \/ FetchBot(j)
Main ==
  \/ Boot \/ AllClosed \/ Serve
  \/ \E j \in Jobs : CloseRecord(j)
  \/ \E j \in Jobs, id \in Ids : PlaceAgain(j, id)
Next ==
  \/ InStore \/ InArchive \/ Submissions \/ Building \/ Playing \/ Main
  \/ \E j \in Jobs : LoseWorker(j)
  \/ Die

Spec == Init /\ [][Next]_vars

-----------------------------------------------------------------------------
(* Properties.                                                               *)

(* What is in the store and not built yet is on its way: being stored, about  *)
(* to be enqueued, being placed or marked, or its last placement was given    *)
(* up as the engine's fault.  Over restarts too: a PENDING entry whose job    *)
(* died with the process has another one before anybody is served.            *)
Unbuilt(id) == live[id].status = "PENDING" \/ staged[id] # Absent
OnItsWay(id) ==
  \/ \E e \in entering : e[1] = id
  \/ \E j \in Jobs : log[j].id = id /\ log[j].state \in {"OPEN", "GAVE_UP"}
  \/ op.id = id /\ op.at # "idle"
NothingIsForgotten ==
  phase = "up" => \A id \in Ids : Unbuilt(id) => OnItsWay(id)

(* The bot a READY entry names is in the archive, all of it, so that a match  *)
(* can fetch it: over restarts, uploads that fail or lose their worker, and   *)
(* what a process that died left half written.  Two uploads of the same bytes *)
(* at once are excepted: see NeverHalfAFile.                                  *)
Fetchable(d) == Has(d) /\ (Whole(d) \/ d \in contended)
ReadyIsWhole ==
  phase # "down" =>
    \A id \in Ids : live[id].status = "READY" => Fetchable(BytesOf[live[id].artifact])

(* A restart finds a READY entry as it was, with the sources that belong to   *)
(* it, wherever the process died, but in one window: while SetStatus is       *)
(* making it, or its replacement, READY.  A death in the window leaves an     *)
(* entry that a later restart finds READY and without sources, but never with *)
(* another submission's.  Where a write, a removal or a rename has failed     *)
(* nothing is claimed: a Create that failed has already removed the sources   *)
(* it was to replace, and the manifest of READY then has no directory to go   *)
(* to, which nobody is told.                                                  *)
BecomingReady(id) == op.id = id /\ op.do = "status" /\ op.place = "live"
RestartKeepsReady ==
  [][Boot => \A id \in Ids : live[id].status = "READY" /\ ~BecomingReady(id) =>
       \/ fails > 0
       \/ /\ live'[id].rev = live[id].rev /\ live'[id].status = "READY"
          /\ \/ dir["live"][id].files = live[id].rev
             \/ dir["live"][id].files = 0 /\ restarts > 1]_vars

(* With versions a number names one submission for good, whatever became of   *)
(* it: no two submissions have jobs and games under one id.                   *)
NumbersAreNotReused ==
  versions => \A i, j \in Jobs :
    NoRecord \notin {log[i], log[j]} /\ log[i].id = log[j].id => log[i].rev = log[j].rev

(* What the comments promise, and the code does not keep.                     *)

(* candidate_store.cc 429: "A working entry stays the entry until its         *)
(* replacement builds."                                                       *)
WorkingEntryStays ==
  [][\A id \in Ids : live[id].status = "READY" => live'[id].status # "ABSENT"]_vars

(* game_history.h 23: "so a reader never sees half a file".                   *)
NeverHalfAFile == \A d \in Digests : Has(d) => Whole(d)

(* artifact_cache.cc 56: "fetched bytes are not <digest>" guards what is      *)
(* fetched, and not what is kept of it.                                       *)
FetchedIsWhole == short = {}

(* problem_server.cc 251: "place again whatever was waiting on its            *)
(* placement": an entry that is in the store and was never rated, nor         *)
(* refused, has a placement when the server is up again.                      *)
PlacedAgain ==
  phase = "up" => \A id \in Ids :
    live[id].status = "READY" /\ id \notin rated =>
      \E j \in Jobs : log[j].id = id /\ log[j].state = "OPEN"

=============================================================================
