-------------------------- MODULE SandboxExamples --------------------------
(* The jobs of every small order, on both engines: who may write what, who   *)
(* reaches which network, and what is left of a job that failed anywhere.    *)
EXTENDS Integers, FiniteSets, SequencesExt

LOCAL S == INSTANCE JobSandbox

(* The orders: the fields that no statement varies keep one value.           *)
LOCAL Plain ==
    [id |-> 1, slot |-> 1, user |-> "", candidate |-> "a", opponents |-> <<"b">>,
     memory |-> 0, cpus |-> 1, pids |-> 0, buildMemory |-> 0, buildCpus |-> 2,
     allowBuildNetwork |-> FALSE, kind |-> "match", prebuilt |-> FALSE, referee |-> TRUE,
     repeats |-> 0, archived |-> {}, refereeArchived |-> FALSE, image |-> "img",
     machineClass |-> ""]

LOCAL Limited(o) ==
    {[o EXCEPT !.memory = m, !.pids = p, !.buildMemory = b, !.allowBuildNetwork = n] :
        m \in {0, 1}, p \in {0, 3}, b \in {0, 2}, n \in BOOLEAN}
LOCAL Matches ==
    {[Plain EXCEPT !.opponents = r, !.prebuilt = p] :
        r \in {<<>>, <<"b">>, <<"b", "c">>, <<"b", "c", "d">>}, p \in BOOLEAN}
    \cup {[Plain EXCEPT !.candidate = "builtin", !.opponents = <<>>]}
LOCAL Builds == {[Plain EXCEPT !.kind = "build", !.opponents = <<>>, !.referee = r] : r \in BOOLEAN}
LOCAL Grades == {[Plain EXCEPT !.kind = "grade", !.opponents = <<>>, !.repeats = n] : n \in {0, 1, 3}}
LOCAL OrdersTried == UNION {Limited(o) : o \in Matches \cup Builds \cup Grades}

(* The steps of a job with what its container is given.                      *)
LOCAL Given(job) ==
    {[phase |-> phase.name, step |-> step, isolation |-> S!IsolationOf(job, phase, step),
      container |-> S!ContainerArgs(job, phase, step)] :
        <<phase, step>> \in {<<p, s>> \in ToSet(job.phases) \X S!AllSteps(job) : s \in S!StepsOf(p)}}
LOCAL Writes(container) == {m.volume : m \in {n \in container.mounts : ~n.readonly}}
LOCAL Reads(container)  == {m.volume : m \in container.mounts}
LOCAL Persistent(job)   == UNION {Reads(g.container) : g \in Given(job)} \ S!JobVolumes(job)

-----------------------------------------------------------------------------
(* What a step writes outside the job's own volumes outlives the order; only *)
(* the build does so.  Nothing that runs a submission can change what the    *)
(* slot's next order is built from.                                          *)
ASSUME OnlyTheBuildOutlivesTheOrder ==
    \A o \in OrdersTried : LET job == S!JobForOrder(o, TRUE) IN
        \A g \in Given(job) :
            Writes(g.container) \ S!JobVolumes(job) # {} => g.phase = "build"

(* The binaries of an archived match, which several orders share, are        *)
(* written by no step, and the patches by none once they are loaded.         *)
ASSUME InputsAreReadOnly ==
    \A o \in OrdersTried : LET job == S!JobForOrder(o, TRUE) IN
        \A g \in Given(job) :
            Writes(g.container) \cap {<<job.id, "inputs">>, <<job.id, "patches">>} = {}

(* The result of a match is where no other step, of any phase, looks.        *)
ASSUME ResultIsTheRefereesAlone ==
    \A o \in OrdersTried : LET job == S!JobForOrder(o, TRUE) IN
        \A g, h \in Given(job) :
            "match.pb" \in g.step.collect /\ h.step.name # g.step.name
                => /\ <<job.id, g.step.name, "scratch">> \in Writes(g.container)
                   /\ <<job.id, g.step.name, "scratch">> \notin Reads(h.container)

(* What is collected is there to be collected: the container is kept.        *)
ASSUME CollectedIsKept ==
    \A o \in OrdersTried : LET job == S!JobForOrder(o, TRUE) IN
        \A g \in Given(job) : g.step.collect # {} => ~g.container.removed

(* Only a build may reach out, and only where the order allows it; a match   *)
(* reaches the network of its own job, the rest none, on whatever level of   *)
(* the job the isolation is stated.                                          *)
ASSUME NetworksAreGranted ==
    \A o \in OrdersTried : LET job == S!JobForOrder(o, TRUE) IN
        \A g \in Given(job) :
            g.container.network =
                CASE g.phase = "match" -> <<job.id, "net">>
                  [] g.phase = "build" /\ o.allowBuildNetwork -> <<<<0, 0>>, "bridge">>
                  [] OTHER -> <<<<0, 0>>, "none">>

(* The network is named per job: at most one phase of a job makes it.        *)
ASSUME OneNetworkPerJob ==
    \A o \in OrdersTried : LET job == S!JobForOrder(o, TRUE) IN
        Cardinality({i \in DOMAIN job.phases : S!WantsNetwork(job, job.phases[i])}) <= 1

(* The limits of a problem hold for every step but the build, whose own they *)
(* are not; on the host, the solution's step has them and bazel has not.     *)
ASSUME LimitsAreTheSolutions ==
    \A o \in OrdersTried :
        /\ \A g \in Given(S!JobForOrder(o, TRUE)) :
              IF g.phase = "build"
              THEN g.isolation.memory = o.buildMemory /\ g.isolation.pids = 0
              ELSE g.isolation.memory = o.memory /\ g.isolation.pids = o.pids
        /\ \A g \in Given(S!JobForOrder(o, FALSE)) :
              g.isolation.space > 0 <=> o.memory > 0 /\ (g.step.name = "bot" \/ g.phase = "grade")

(* Every patch of a job is applied once, in its build and before it builds.  *)
ASSUME PatchedBeforeBuilt ==
    \A o \in OrdersTried : LET job == S!JobForOrder(o, TRUE) IN
        \A g \in Given(job) :
            LET script  == g.container.script
                applied == SelectSeq(script, LAMBDA line : line[1] = "git apply")
            IN  /\ Last(script) = <<"exec", g.step.name>>
                /\ applied = IF g.phase = "build"
                             THEN [i \in DOMAIN S!SidesOf(o) |-> <<"git apply", S!SidesOf(o)[i]>>]
                             ELSE <<>>

(* What some step may write belongs to the user the steps run as.            *)
ASSUME WritableIsOwned ==
    \A o \in OrdersTried : LET job == S!JobForOrder(o, TRUE) IN
        \A g \in Given(job) : Writes(g.container) \subseteq S!Owned(job)

-----------------------------------------------------------------------------
(* Two orders of one machine, each in a slot of its own or after the other.  *)
LOCAL Neighbours ==
    {[o EXCEPT !.id = i, !.slot = s, !.user = u] :
        o \in Matches \cup Builds, i \in {1, 2}, s \in {1, 2}, u \in {"", "bots"}}

(* No name of one job is one of another's: removing what a killed attempt    *)
(* left never takes what a running job has.                                  *)
ASSUME JobsShareNoName ==
    \A o, p \in {n \in Neighbours : n.kind = "match"} :
        LET j == S!JobForOrder(o, TRUE)
            k == S!JobForOrder(p, TRUE)
            Names(job) == {S!Loader(job)} \cup {S!SandboxName(job, s.name) : s \in S!AllSteps(job)}
        IN  <<o.id, o.slot>> # <<p.id, p.slot>>
                => /\ Names(j) \cap Names(k) = {}
                   /\ S!JobVolumes(j) \cap S!JobVolumes(k) = {}

(* The caches of two users are apart, and the output bases of two slots.     *)
ASSUME CachesHaveOneOwner ==
    \A o, p \in {n \in Neighbours : n.id = 1} :
        LET mine   == Persistent(S!JobForOrder(o, TRUE))
            theirs == Persistent(S!JobForOrder(p, TRUE))
        IN  /\ o.user # p.user => mine \cap theirs = {}
            /\ o.slot # p.slot => mine \cap theirs \subseteq {S!DiskCacheVolume(o)}

-----------------------------------------------------------------------------
LOCAL Empty == [containers |-> {}, volumes |-> {}, networks |-> {}]
LOCAL OfTheJob(job, held) ==
    \/ \E c \in held.containers : c[1] = job.id
    \/ \E v \in held.volumes : v \in S!JobVolumes(job)
    \/ \E n \in held.networks : n[1] = job.id

(* A worker may die anywhere in a load or in a phase, and the order comes    *)
(* again: at whatever command, the next attempt's first step is RemoveVolumes*)
(* and it leaves nothing a patch was applied to, and nothing after a failed  *)
(* load either.                                                              *)
ASSUME LoadLeavesNothing ==
    \A o \in Matches \cup Builds \cup Grades : LET job == S!JobForOrder(o, TRUE) IN
        \A n \in 0 .. Len(S!LoadCommands(job)), killed \in BOOLEAN :
            LET held == S!LoadWorkspace(Empty, job, n, killed)
            IN  ~OfTheJob(job, S!RemoveVolumes(held, job))

(* The steps of each phase, and the loader: a killed attempt's containers go *)
(* before its volumes, whichever of them had been started, or the volumes    *)
(* would be kept.  The network of a killed match is left to its next phase.  *)
ASSUME KilledAttemptIsCleared ==
    \A o \in Matches \cup Builds \cup Grades : LET job == S!JobForOrder(o, TRUE) IN
        \A phase \in ToSet(job.phases) :
            \A started \in SUBSET {s.name : s \in S!StepsOf(phase)} :
                LET held == S!StartPhase([Empty EXCEPT !.volumes = S!JobVolumes(job)],
                                         job, phase, started)
                IN  /\ S!RemoveVolumes(held, job).containers = {}
                    /\ S!RemoveVolumes(held, job).volumes = {}
                    /\ S!Teardown(held, job, phase).containers = {}
                    /\ S!Teardown(held, job, phase).networks = {}

-----------------------------------------------------------------------------
(* A match from the archive has every binary it plays with among its inputs, *)
(* builds nothing, and so mounts no cache it could write.                    *)
ASSUME ArchivedMatchesAreComplete ==
    \A o \in Limited([Plain EXCEPT !.opponents = <<"b", "c">>]), have \in SUBSET {"a", "b", "c"},
       referee \in BOOLEAN :
        LET order == [o EXCEPT !.archived = have, !.refereeArchived = referee]
            job   == S!JobForOrder([order EXCEPT !.prebuilt = S!PlaysFromTheArchive(order)], TRUE)
        IN  IF have = {"a", "b", "c"} /\ referee
            THEN /\ job.inputs = {"referee", "a", "b", "c"}
                 /\ \A phase \in ToSet(job.phases) : phase.name = "match"
            ELSE job.inputs = {} /\ job.phases[1].name = "build"

(* An order is refused for want of an engine or of the machine, never for    *)
(* an engine it does not use.                                                *)
ASSUME RefusedForCause ==
    \A image \in {"", "img"}, class \in {"", "big"}, process, container \in BOOLEAN :
        LET order   == [Plain EXCEPT !.image = image, !.machineClass = class]
            engines == [process |-> process, container |-> container]
        IN  S!Refusal(order, engines, "small")
                <=> class = "big" \/ ~(IF image = "" THEN process ELSE container)

(* A workspace of the container engine fails on no patch, as git runs in the *)
(* sandbox; a path that leaves the staging directory is nobody's verdict on  *)
(* the patch, wherever git runs.                                             *)
ASSUME WorkspaceVerdicts ==
    \A first, second \in {<<"a">>, <<"..", "a">>, <<"/", "a">>, <<>>}, host, writes \in BOOLEAN,
       checks, applies \in SUBSET {1, 2} :
        LET verdict == S!PrepareWorkspace(<<first, second>>, host, writes, checks, applies)
            safe    == {first, second} = {<<"a">>}
        IN  /\ verdict = "INVALID_JOB" <=> ~safe
            /\ verdict = "OK" <=> safe /\ writes /\ (host => checks \cap applies = {1, 2})

=============================================================================
