------------------------------ MODULE SwissRun ------------------------------
(***************************************************************************)
(* The Swiss re-rank (server/swiss.cc, SwissRun): one thread that waits    *)
(* until every seed has been built, then draws a round, enqueues its       *)
(* matches and waits for them, round after round; the state file it        *)
(* appends to; and restarts of the coordinator, which lose the thread's    *)
(* memory, close every open job in the job log and resume from the file.   *)
(*                                                                         *)
(* The thread's stages are the places where another thread, or a crash,    *)
(* can come between: EnqueueMatch takes the scheduler's lock, each line is *)
(* written to the file on its own, mutex_ is taken for the two waits.      *)
(* The ratings that order the entries from the second round on are not     *)
(* modelled: any order may come out of them.                               *)
(*                                                                         *)
(* A definition marked "slip" is a wrong version of the one after it, kept *)
(* to see that the properties would notice it; no action uses it.          *)
(***************************************************************************)
EXTENDS SwissGroups

CONSTANTS
  Entries,      \* entries_, in the order it was given: a sequence of ids
  Builtins,     \* the ids among them that are not in the candidate store
  Rounds,       \* rounds_
  MayGiveUp,    \* a placement may end with its candidate still PENDING
  MaxJobs,      \* bound: matches ever enqueued
  MaxRestarts   \* bound: restarts of the coordinator

Jobs == 1 .. MaxJobs
Ids == Range(Entries)

ASSUME SwissAssumption ==
  /\ Rounds \in Nat \ {0} /\ MaxJobs \in Nat /\ MaxRestarts \in Nat
  /\ MayGiveUp \in BOOLEAN
  /\ Builtins \subseteq Ids
  /\ Entries \in Seq(Ids)
  /\ \A i, j \in DOMAIN Entries : Entries[i] = Entries[j] => i = j

VARIABLES
  \* on disk
  file,       \* state_: match lines and bye lines
  \* the scheduler and the candidate store, as the run sees them
  job,        \* job id -> its state in the scheduler and in the job log
  status,     \* id -> Candidate::status
  placing,    \* candidates with an unfinished placement
  \* the run's thread
  pc, ids, played, hadBye, round, drawn,
  next,       \* how many of the drawn groups and byes have been dealt with
  matches,    \* the matches enqueued for them
  match,      \* one that has been enqueued and not been logged
  \* SwissRun
  rounds,     \* played_ and byes_: per round its matches and its byes
  concluded,  \* concluded_: job id -> how it ended
  restarts

disk == <<file>>
outside == <<job, status, placing>>
thread == <<pc, ids, played, hadBye, round, drawn, next, matches, match>>
vars == <<disk, outside, thread, rounds, concluded, restarts>>

JobStates == {"NONE", "OPEN", "DONE", "FAILED", "CANCELLED"}
Match == [members : Seq(Ids), job : Jobs]
MatchLine(r, m) == [kind |-> "M", round |-> r, members |-> m.members, job |-> m.job]
ByeLine(r, id) == [kind |-> "B", round |-> r, members |-> <<id>>, job |-> 0]
NoDraw == [groups |-> <<>>, byes |-> <<>>]
NoMatch == [members |-> <<>>, job |-> 0]

TypeOK ==
  /\ \A i \in DOMAIN file :
       /\ file[i].kind \in {"M", "B"} /\ file[i].round \in 1 .. Rounds
       /\ file[i].members \in Seq(Ids) /\ file[i].job \in 0 .. MaxJobs
  /\ job \in [Jobs -> JobStates]
  /\ status \in [Ids \ Builtins -> {"PENDING", "READY", "BUILD_FAILED"}]
  /\ placing \subseteq Ids \ Builtins
  /\ pc \in {"resume", "settle", "draw", "match", "log", "await", "done"}
  /\ ids \subseteq Ids /\ hadBye \subseteq Ids
  /\ played \subseteq SUBSET Ids /\ round \in 0 .. Rounds
  /\ next \in Nat /\ match.job \in 0 .. MaxJobs
  /\ {m.job : m \in matches} \subseteq Jobs
  /\ Len(rounds) \in 0 .. Rounds
  /\ concluded \in [Jobs -> JobStates \ {"OPEN"}]
  /\ restarts \in 0 .. MaxRestarts

Init ==
  /\ file = <<>>
  /\ job = [j \in Jobs |-> "NONE"]
  /\ status = [c \in Ids \ Builtins |-> "PENDING"]
  /\ placing = Ids \ Builtins
  /\ pc = "resume" /\ ids = {} /\ played = {} /\ hadBye = {} /\ round = 0
  /\ drawn = NoDraw /\ next = 0 /\ matches = {} /\ match = NoMatch
  /\ rounds = <<>> /\ concluded = [j \in Jobs |-> "NONE"]
  /\ restarts = 0

-----------------------------------------------------------------------------
(* Resume: what the file and the job log say of the rounds before.           *)

MatchLines == {l \in Range(file) : l.kind = "M"}
ByeLines == {l \in Range(file) : l.kind = "B"}
LastRound == Max({0} \cup {l.round : l \in MatchLines})
MatchesOf(r) ==
  {[members |-> l.members, job |-> l.job] : l \in {l \in MatchLines : l.round = r}}
PairsInFile == UNION {PairsOf(l.members) : l \in MatchLines}
ByesInFile == UNION {Range(l.members) : l \in ByeLines}

(* A job the log does not have as finished was dropped by the last restart.   *)
Ends ==
  [j \in Jobs |-> IF \A l \in MatchLines : l.job # j THEN "NONE"
                  ELSE IF job[j] \in {"DONE", "FAILED"} THEN job[j]
                  ELSE "CANCELLED"]

(* The elements of s that are in S, in their order.                           *)
Those(s, S) ==
  LET Kept[n \in 0 .. Len(s)] ==
        IF n = 0 THEN <<>>
        ELSE IF s[n] \in S THEN Append(Kept[n - 1], s[n]) ELSE Kept[n - 1]
  IN  Kept[Len(s)]

ByesOf(r) ==
  LET lines == Those(file, {l \in ByeLines : l.round = r})
  IN  [i \in DOMAIN lines |-> lines[i].members[1]]

ResumeAt(r) ==
  /\ pc = "resume" /\ pc' = "settle"
  /\ rounds' = [n \in 1 .. LastRound |-> [matches |-> MatchesOf(n), byes |-> ByesOf(n)]]
  /\ played' = PairsInFile
  /\ hadBye' = ByesInFile
  /\ concluded' = [j \in Jobs |-> IF Ends[j] = "NONE" THEN concluded[j] ELSE Ends[j]]
  /\ round' = r
  /\ UNCHANGED <<disk, outside, ids, drawn, next, matches, match, restarts>>

ResumeInLastRound == ResumeAt(Max({0, LastRound - 1}))                 \* slip
Resume == ResumeAt(LastRound)

-----------------------------------------------------------------------------
(* Run.                                                                      *)

NextStage(r) == IF r < Rounds THEN "draw" ELSE "done"

(* The first wait: no seed is PENDING; whoever is not READY then sits out.   *)
Ready(id) == id \in Builtins \/ status[id] = "READY"
Settled == \A c \in Ids \ Builtins : status[c] # "PENDING"
Settle ==
  /\ pc = "settle" /\ Settled
  /\ ids' = {id \in Ids : Ready(id)}
  /\ pc' = NextStage(round)
  /\ UNCHANGED <<disk, outside, played, hadBye, round, drawn, next, matches, match,
                 rounds, concluded, restarts>>

(* The first round is drawn by lot, the same one every time; later ones by   *)
(* rating.                                                                   *)
Rankings ==
  IF round = 0 THEN {Those(Entries, ids)}
  ELSE {f \in [1 .. Cardinality(ids) -> ids] : Range(f) = ids}

DrawRound ==
  /\ pc = "draw"
  /\ \E ranked \in Rankings : drawn' = Draw(ranked, played, hadBye)
  /\ pc' = "match"
  /\ UNCHANGED <<disk, outside, ids, played, hadBye, round, next, matches, match,
                 rounds, concluded, restarts>>

(* The members, those with code before the builtins: the first is whom the   *)
(* match is for.                                                             *)
CodeFirst(group) ==
  Those(group, Range(group) \ Builtins) \o Those(group, Builtins)

NextJob(j) == job[j] = "NONE" /\ \A i \in 1 .. j - 1 : job[i] # "NONE"

(* EnqueueMatch: with an opponent that is no longer READY the job has failed *)
(* and on_concluded has been called before it returns.                       *)
Enqueue(j) ==
  LET group == drawn.groups[next + 1]
      members == CodeFirst(group)
      starts == \A id \in Range(Tail(members)) : Ready(id)
  IN  /\ pc = "match" /\ next < Len(drawn.groups) /\ NextJob(j)
      /\ played' = played \cup PairsOf(group)
      /\ match' = [members |-> members, job |-> j]
      /\ job' = [job EXCEPT ![j] = IF starts THEN "OPEN" ELSE "FAILED"]
      /\ concluded' = IF starts THEN concluded ELSE [concluded EXCEPT ![j] = "FAILED"]
      /\ pc' = "log"
      /\ UNCHANGED <<disk, status, placing, ids, hadBye, round, drawn, next, matches,
                     rounds, restarts>>

LogMatch ==
  /\ pc = "log" /\ pc' = "match"
  /\ file' = Append(file, MatchLine(round + 1, match))
  /\ matches' = matches \cup {match} /\ match' = NoMatch
  /\ next' = next + 1
  /\ UNCHANGED <<outside, ids, played, hadBye, round, drawn, rounds, concluded,
                 restarts>>

RememberBye(id) == hadBye' = hadBye \cup {id}
Handled == Len(drawn.groups) + Len(drawn.byes)
SitOut ==
  LET bye == drawn.byes[next + 1 - Len(drawn.groups)]
  IN  /\ pc = "match" /\ next \in Len(drawn.groups) .. Handled - 1
      /\ RememberBye(bye)
      /\ file' = Append(file, ByeLine(round + 1, bye))
      /\ next' = next + 1
      /\ UNCHANGED <<outside, pc, ids, played, round, drawn, matches, match, rounds,
                     concluded, restarts>>

(* played_ and byes_ are given the round only once all of it is enqueued.     *)
CloseRound ==
  /\ pc = "match" /\ next = Handled
  /\ rounds' = Append(rounds, [matches |-> matches, byes |-> drawn.byes])
  /\ drawn' = NoDraw /\ next' = 0 /\ matches' = {}
  /\ pc' = "await"
  /\ UNCHANGED <<disk, outside, ids, played, hadBye, round, match, concluded,
                 restarts>>

(* The second wait: every match of the round has concluded.                   *)
AnyConcluded(some) ==                                                  \* slip
  some # {} => \E m \in some : concluded[m.job] # "NONE"
AllConcluded(some) == \A m \in some : concluded[m.job] # "NONE"
RoundIsOver ==
  /\ pc = "await" /\ AllConcluded(rounds[round + 1].matches)
  /\ round' = round + 1
  /\ pc' = NextStage(round + 1)
  /\ UNCHANGED <<disk, outside, ids, played, hadBye, drawn, next, matches, match,
                 rounds, concluded, restarts>>

Run ==
  \/ Resume \/ Settle \/ DrawRound
  \/ \E j \in Jobs : Enqueue(j)
  \/ LogMatch \/ SitOut \/ CloseRound \/ RoundIsOver

-----------------------------------------------------------------------------
(* The scheduler: placements of the seeds, the ends of matches.              *)

(* A placement builds its seed, or finds that it does not build, or gives up *)
(* because the engine failed three times.                                    *)
Placed(c, st) ==
  /\ c \in placing /\ placing' = placing \ {c}
  /\ \/ st \in {"READY", "BUILD_FAILED"}
     \/ st = "PENDING" /\ MayGiveUp
  /\ status' = [status EXCEPT ![c] = st]
  /\ UNCHANGED <<disk, job, thread, rounds, concluded, restarts>>

Placement(c) == \E st \in {"PENDING", "READY", "BUILD_FAILED"} : Placed(c, st)

(* OnConcluded, under the scheduler's lock.  The job may be one whose line    *)
(* has not been written, or whose round is not in played_ yet.               *)
OnConcludedIfListed(j, st) ==                                          \* slip
  concluded' = IF \E r \in DOMAIN rounds : \E m \in rounds[r].matches : m.job = j
               THEN [concluded EXCEPT ![j] = st] ELSE concluded
OnConcluded(j, st) == concluded' = [concluded EXCEPT ![j] = st]

(* Played, or not: the run treats both alike, so one of them stands for both. *)
Conclude(j) ==
  /\ job[j] = "OPEN"
  /\ job' = [job EXCEPT ![j] = "DONE"]
  /\ OnConcluded(j, "DONE")
  /\ UNCHANGED <<disk, status, placing, thread, rounds, restarts>>

(* A match that failed because a side no longer builds.                       *)
ConcludeBlaming(j, c) ==
  /\ job[j] = "OPEN" /\ c \in ids \ Builtins
  /\ status[c] = "READY"
  /\ \/ j = match.job /\ c \in Range(match.members)
     \/ \E i \in DOMAIN file : file[i].job = j /\ c \in Range(file[i].members)
  /\ job' = [job EXCEPT ![j] = "FAILED"]
  /\ status' = [status EXCEPT ![c] = "BUILD_FAILED"]
  /\ OnConcluded(j, "FAILED")
  /\ UNCHANGED <<disk, placing, thread, rounds, restarts>>

Outside ==
  \/ \E c \in Ids \ Builtins : Placement(c)
  \/ \E j \in Jobs : Conclude(j)
  \/ \E j \in Jobs, c \in Ids : ConcludeBlaming(j, c)

(* The coordinator dies anywhere, or is stopped (which ends the thread at one *)
(* of its waits), and is started again: main closes the jobs the log has open *)
(* and places the PENDING candidates again before the run starts.             *)
Restart ==
  /\ restarts < MaxRestarts /\ pc # "done"
  /\ restarts' = restarts + 1
  /\ job' = [j \in Jobs |-> IF job[j] = "OPEN" THEN "CANCELLED" ELSE job[j]]
  /\ placing' = {c \in Ids \ Builtins : status[c] = "PENDING"}
  /\ pc' = "resume" /\ ids' = {} /\ played' = {} /\ hadBye' = {} /\ round' = 0
  /\ drawn' = NoDraw /\ next' = 0 /\ matches' = {} /\ match' = NoMatch
  /\ rounds' = <<>> /\ concluded' = [j \in Jobs |-> "NONE"]
  /\ UNCHANGED <<disk, status>>

Next == Run \/ Outside \/ Restart

(* The run's thread is scheduled; a placement and a match end, because a      *)
(* worker answers every order.  Restarts are bounded.                         *)
Fairness ==
  /\ WF_vars(Run)
  /\ \A c \in Ids \ Builtins : WF_vars(Placement(c))
  /\ \A j \in Jobs : WF_vars(Conclude(j))

Spec == Init /\ [][Next]_vars /\ Fairness

-----------------------------------------------------------------------------
(* Properties.                                                               *)

(* Nobody is in two matches of one round, or in a match of a round that the   *)
(* file says it sat out, wherever the coordinator was restarted.              *)
NobodyPlaysTwice ==
  \A i, k \in DOMAIN file :
    i # k /\ file[i].round = file[k].round /\ "M" \in {file[i].kind, file[k].kind}
      => Range(file[i].members) \cap Range(file[k].members) = {}

(* While a round is being drawn and enqueued, no match of an earlier round is *)
(* still being played, whether its end was reported by on_concluded or found  *)
(* in the job log after a restart.                                            *)
RoundsDoNotOverlap ==
  pc \in {"draw", "match", "log"} =>
    \A l \in MatchLines : l.round <= round => job[l.job] # "OPEN"

(* What swiss.h promises of a draw, measured against the rounds on file (not  *)
(* against what the thread remembers): the groups and the byes share out the  *)
(* entries; a member has met one who is in the group before it only if        *)
(* everyone left to choose from had; and somebody sits out again only if      *)
(* every entry has a bye, on file or in this round.                           *)
LeftFor(g, k) ==
  (UNION {Range(drawn.groups[h]) : h \in g + 1 .. Len(drawn.groups)}) \cup
  {drawn.groups[g][n] : n \in k .. Seats}
DrawIsFair ==
  pc = "match" /\ next = 0 =>
    /\ (UNION {Range(drawn.groups[g]) : g \in DOMAIN drawn.groups})
         \cup Range(drawn.byes) = ids
    /\ Len(drawn.byes) < Seats
    /\ \A g \in DOMAIN drawn.groups : \A k \in 2 .. Seats :
         LET before == {drawn.groups[g][n] : n \in 1 .. k - 1}
         IN  Met(drawn.groups[g][k], before, PairsInFile) =>
               \A x \in LeftFor(g, k) : Met(x, before, PairsInFile)
    /\ Range(drawn.byes) \cap ByesInFile # {} =>
         ids \subseteq ByesInFile \cup Range(drawn.byes)

(* All rounds are played in the end, however often the coordinator was        *)
(* restarted on the way, unless a seed is PENDING for ever because the        *)
(* scheduler gave up its placement: that one is waited for without end.       *)
GivenUp == \E c \in Ids \ Builtins : status[c] = "PENDING" /\ c \notin placing
EveryRoundIsPlayed == <>(GivenUp \/ pc = "done")

=============================================================================
