----------------------------- MODULE JobSandbox -----------------------------
(* What each step of an order's job can reach: the isolation, mounts and     *)
(* collected files JobForOrder gives it (order_job.cc), and the volumes,     *)
(* containers and networks ContainerEngine makes of them.  A name docker     *)
(* sees is the tuple it is concatenated from; a path is where it is mounted. *)
EXTENDS Integers, FiniteSets, SequencesExt

(* Nothing set: the zero bytes of a message that Merge leaves out.           *)
Unset == [tmpfs |-> FALSE, memory |-> 0, cpus |-> 0, pids |-> 0, user |-> "",
          network |-> "none", space |-> 0]

-----------------------------------------------------------------------------
(* order_job.cc.                                                             *)

IsBuiltin(side) == side = "builtin"
SidesOf(o) == (IF IsBuiltin(o.candidate) THEN <<>> ELSE <<o.candidate>>) \o o.opponents

Isolation(o, container) ==
    IF container
    THEN [Unset EXCEPT !.tmpfs = TRUE, !.memory = o.memory, !.cpus = o.cpus,
                       !.pids = o.pids, !.user = o.user]
    ELSE Unset

(* No cgroups on the process engine: the limit goes on the solution's steps. *)
SolutionIsolation(o, container, base) ==
    IF container THEN base ELSE [base EXCEPT !.space = o.memory]

(* A cache belongs to whoever writes it.  A name starts with the slot and    *)
(* the order it is of, 0 for none.                                           *)
OutputBaseVolume(o) == <<<<o.slot, 0>>, "output_base", o.user>>
DiskCacheVolume(o)  == <<<<0, 0>>, "disk_cache", o.user>>
Mount(volume, target, readonly) == [volume |-> volume, target |-> target, readonly |-> readonly]

(* Writable for the build alone: it outlives the order.                      *)
MountOutputBase(o, container, readonly) ==
    IF container THEN {Mount(OutputBaseVolume(o), "/output_base", readonly)} ELSE {}

Step(name, mounts) ==
    [name |-> name, mounts |-> mounts, isolation |-> Unset, private |-> FALSE,
     collect |-> {}, patches |-> FALSE, solution |-> FALSE]
Phase(name, isolation, background, foreground) ==
    [name |-> name, isolation |-> isolation, background |-> background,
     foreground |-> foreground]

BuildPhase(o, container) ==
    LET base    == Isolation(o, container)
        network == IF o.allowBuildNetwork THEN "egress" ELSE "none"
        isolation == [base EXCEPT !.network = network, !.pids = 0, !.memory = o.buildMemory,
                                  !.cpus = IF container /\ o.buildCpus > 0 THEN o.buildCpus ELSE @]
        cache == IF container THEN {Mount(DiskCacheVolume(o), "/disk_cache", FALSE)} ELSE {}
    IN  Phase("build", isolation, <<>>,
              [Step("build", MountOutputBase(o, container, FALSE) \cup cache)
                  EXCEPT !.patches = TRUE])

(* A build order's binaries, put where the engine collects them from.        *)
StashPhase(o, container) ==
    Phase("stash", [Isolation(o, container) EXCEPT !.network = "none"], <<>>,
          [Step("stash", MountOutputBase(o, container, TRUE))
              EXCEPT !.collect = {"bot"} \cup IF o.referee THEN {"referee"} ELSE {}])

OpponentStep == <<"opponent", "opponent2", "opponent3">>

(* The referee writes the result where no bot can reach; two builtins are    *)
(* played by the referee alone.                                              *)
MatchPhase(o, container) ==
    LET isolation == [Isolation(o, container) EXCEPT !.network = "bridge"]
        mounts    == MountOutputBase(o, container, TRUE)
        referee   == [Step("referee", mounts) EXCEPT !.private = TRUE, !.collect = {"match.pb"}]
        rivals    == [i \in DOMAIN o.opponents |->
                        [Step(OpponentStep[i], mounts) EXCEPT !.solution = TRUE]]
        bot       == [Step("bot", mounts) EXCEPT !.solution = TRUE,
                        !.isolation = SolutionIsolation(o, container, isolation)]
    IN  IF IsBuiltin(o.candidate) THEN Phase("match", isolation, <<>>, referee)
        ELSE Phase("match", isolation, <<referee>> \o rivals, bot)

GradePhase(o, container) ==
    LET isolation == [Isolation(o, container) EXCEPT !.network = "none"] IN
    Phase("grade", isolation, <<>>,
          [Step("grade", MountOutputBase(o, container, TRUE))
              EXCEPT !.collect = {"report.json"}, !.solution = TRUE,
                     !.isolation = SolutionIsolation(o, container, isolation)])

(* Patches are staged by side; without one there is no job.                  *)
WorkspaceFor(o, container) ==
    [patches |-> [i \in DOMAIN SidesOf(o) |-> SidesOf(o)[i]],
     applied |-> IF container THEN "entrypoint" ELSE "host"]

JobForOrder(o, container) ==
    [id |-> <<o.slot, o.id>>,
     isolation |-> Isolation(o, container),
     workspace |-> WorkspaceFor(o, container),
     inputs    |-> IF o.prebuilt /\ container
                   THEN {"referee"} \cup ToSet(SidesOf(o)) ELSE {},
     phases    |-> (IF o.prebuilt THEN <<>> ELSE <<BuildPhase(o, container)>>)
                   \o (CASE o.kind = "build" -> <<StashPhase(o, container)>>
                         [] o.kind = "grade" ->
                                [run \in 1 .. (IF o.repeats > 1 THEN o.repeats ELSE 1) |->
                                    GradePhase(o, container)]
                         [] OTHER -> <<MatchPhase(o, container)>>)]

-----------------------------------------------------------------------------
(* order_runner.cc: what is refused, and what is played without a build.     *)

PlaysFromTheArchive(o) ==
    /\ o.kind = "match" /\ o.refereeArchived
    /\ \A side \in {o.candidate} \cup ToSet(o.opponents) : IsBuiltin(side) \/ side \in o.archived

EngineFor(o, engines) == IF o.image = "" THEN engines.process ELSE engines.container

Refusal(o, engines, machineClass) ==
    \/ ~EngineFor(o, engines)
    \/ o.machineClass # "" /\ o.machineClass # machineClass

-----------------------------------------------------------------------------
(* engine.cc and isolation.cc: an override replaces the whole isolation.     *)

Merge(base, override) == IF override = Unset THEN base ELSE override
IsolationOf(job, phase, step) == Merge(Merge(job.isolation, phase.isolation), step.isolation)

(* The flags of docker run; dropping all capabilities, refusing new ones and *)
(* a read-only root are the defaults.                                        *)
IsolationArgs(isolation) ==
    {"cap-drop ALL", "no-new-privileges", "read-only"}
        \cup (IF isolation.tmpfs      THEN {"tmpfs /tmp"} ELSE {})
        \cup (IF isolation.user # ""  THEN {"user"} ELSE {})
        \cup (IF isolation.memory > 0 THEN {"memory"} ELSE {})
        \cup (IF isolation.cpus > 0   THEN {"cpus"} ELSE {})
        \cup (IF isolation.pids > 0   THEN {"pids-limit"} ELSE {})

NetworkArg(isolation, job) ==
    CASE isolation.network = "bridge" -> <<job.id, "net">>
      [] isolation.network = "egress" -> <<<<0, 0>>, "bridge">>
      [] OTHER -> <<<<0, 0>>, "none">>

-----------------------------------------------------------------------------
(* container_engine.cc.                                                      *)

StepsOf(phase) == ToSet(phase.background) \cup {phase.foreground}
AllSteps(job)  == UNION {StepsOf(phase) : phase \in ToSet(job.phases)}
SandboxName(job, name) == <<job.id, name>>
Loader(job) == SandboxName(job, "load")

ScratchVolume(job, step) ==
    IF step.private THEN <<job.id, step.name, "scratch">> ELSE <<job.id, "scratch">>
JobVolumes(job) ==
    {<<job.id, "ws">>, <<job.id, "patches">>, <<job.id, "scratch">>}
        \cup {ScratchVolume(job, step) : step \in {s \in AllSteps(job) : s.private}}
        \cup (IF job.inputs # {} THEN {<<job.id, "inputs">>} ELSE {})

AppliesStagedFiles(job, step) == step.patches /\ job.workspace.applied = "entrypoint"

WorkspaceMounts(job, step) ==
    {Mount(<<job.id, "ws">>, "/workspace", FALSE),
     Mount(ScratchVolume(job, step), "/scratch", FALSE)}
        \cup (IF job.inputs # {} THEN {Mount(<<job.id, "inputs">>, "/inputs", TRUE)} ELSE {})

(* All that a step's container is given.                                     *)
ContainerArgs(job, phase, step) ==
    [name    |-> SandboxName(job, step.name),
     args    |-> IsolationArgs(IsolationOf(job, phase, step)),
     network |-> NetworkArg(IsolationOf(job, phase, step), job),
     removed |-> step.collect = {} /\ ~step.solution /\ ~step.private,
     mounts  |-> WorkspaceMounts(job, step) \cup step.mounts
                   \cup (IF AppliesStagedFiles(job, step)
                         THEN {Mount(<<job.id, "patches">>, "/patches", TRUE)} ELSE {}),
     script  |-> (IF AppliesStagedFiles(job, step)
                  THEN [i \in DOMAIN job.workspace.patches |->
                            <<"git apply", job.workspace.patches[i]>>] ELSE <<>>)
                 \o <<<<"exec", step.name>>>>]

WantsNetwork(job, phase) ==
    \E step \in StepsOf(phase) : IsolationOf(job, phase, step).network = "bridge"

(* The volumes handed to the steps' user: the job's own but for the inputs,  *)
(* and every named one that some foreground step may write.                  *)
Owned(job) ==
    (JobVolumes(job) \ {<<job.id, "inputs">>})
        \cup {m.volume : m \in UNION {{m \in phase.foreground.mounts : ~m.readonly}
                                      : phase \in ToSet(job.phases)}}

(* The docker commands of LoadWorkspace, after RemoveVolumes; each may fail. *)
LoadCommands(job) ==
    SetToSeq({<<"volume create", v>> : v \in JobVolumes(job)})
        \o <<<<"create", Loader(job)>>>>
        \o (IF job.workspace.patches # <<>> THEN <<<<"cp", "patches">>>> ELSE <<>>)
        \o SetToSeq({<<"cp", input>> : input \in job.inputs})
        \o <<<<"start", Loader(job)>>>>

(* What docker holds, and what RemoveVolumes leaves of it: a container that  *)
(* still exists keeps its volumes.                                           *)
RemoveVolumes(held, job) ==
    LET named == {Loader(job)} \cup {SandboxName(job, step.name) : step \in AllSteps(job)}
        left  == held.containers \ named
    IN  [containers |-> left,
         volumes    |-> held.volumes \ {v \in JobVolumes(job) : \A c \in left : c[1] # job.id},
         networks   |-> held.networks]

(* Docker after the first n commands went well, and then the next one failed *)
(* or none was left, or the worker was killed: fail_load and the end of the  *)
(* load remove the loader, a killed worker does not.                         *)
LoadWorkspace(held, job, n, killed) ==
    LET clean == RemoveVolumes(held, job)
        done  == ToSet(SubSeq(LoadCommands(job), 1, n))
        loader == IF killed /\ <<"create", Loader(job)>> \in done THEN {Loader(job)} ELSE {}
    IN  [clean EXCEPT !.volumes = @ \cup {c[2] : c \in {d \in done : d[1] = "volume create"}},
                      !.containers = @ \cup loader]

(* A phase makes its network and its containers; teardown removes both,      *)
(* before the phase, after it, and on the way out of a failure.              *)
Teardown(held, job, phase) ==
    [held EXCEPT !.containers = @ \ {SandboxName(job, step.name) : step \in StepsOf(phase)},
                 !.networks   = IF WantsNetwork(job, phase) THEN @ \ {<<job.id, "net">>} ELSE @]
StartPhase(held, job, phase, started) ==
    LET clean == Teardown(held, job, phase) IN
    [clean EXCEPT !.containers = @ \cup {SandboxName(job, s) : s \in started},
                  !.networks   = IF WantsNetwork(job, phase) THEN @ \cup {<<job.id, "net">>} ELSE @]

-----------------------------------------------------------------------------
(* workspace.cc: what is prepared on the host, and how it fails.             *)

IsSafeStagedPath(path) ==
    path # <<>> /\ Head(path) # "/" /\ ToSet(path) \cap {".", ".."} = {}

(* "checks" and "applies" say which patches git takes on the slot's tree.    *)
PrepareWorkspace(ws, host, writes, checks, applies) ==
    LET First(S) == CHOOSE i \in S : \A j \in S : i <= j
        refused  == {i \in DOMAIN ws : i \notin checks \/ i \notin applies}
    IN  CASE \E i \in DOMAIN ws : ~IsSafeStagedPath(ws[i]) -> "INVALID_JOB"
          [] ~writes -> "WORKSPACE_FAILED"
          [] host /\ refused # {} -> "WORKSPACE_FAILED"
          [] OTHER -> "OK"

=============================================================================
