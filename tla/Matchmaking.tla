---------------------------- MODULE Matchmaking ----------------------------
(***************************************************************************)
(* Continuous matches between versions (server/matchmaking.cc): one thread *)
(* that tops up the fleet whenever nothing is queued and a slot is free,   *)
(* on_concluded, which the scheduler calls under its own lock, and what    *)
(* both see of the scheduler: a queue, the slots, and the orders in flight *)
(* (a match is one order; so is a placement here).                         *)
(*                                                                         *)
(* TopUp reads the scheduler three times, copies its own state under its   *)
(* mutex, and then enqueues matches one by one without holding it: each of *)
(* these is a step, and jobs are submitted, end, and lose their worker     *)
(* between them.  Ratings are not modelled: whose doubt is the largest,    *)
(* and which of the groups equal in everything else has the best quality,  *)
(* is left open; the authors a member is short of are any set.             *)
(*                                                                         *)
(* A definition marked "slip" is a wrong version of the one after it, kept *)
(* to see that the properties would notice it; no action uses it.          *)
(***************************************************************************)
EXTENDS Integers, Sequences, SequencesExt, FiniteSetsExt

CONSTANTS
  Versions,       \* candidate ids that may be READY
  Unbuilt,        \* those that still have to be placed: one placement each
  Fillers,        \* builtins_
  Author,         \* version or builtin -> author
  PoolSize,       \* config_.pool()
  Seats,          \* seats_
  kRecent,
  MaxSlots,       \* slots of the fleet when every worker is attached
  MaxLosses,      \* bound: workers lost
  MaxMatches      \* bound: matches enqueued

Matches == 1 .. MaxMatches
Place(c) == <<"place", c>>
Match(j) == <<"match", j>>
Orders == {Place(c) : c \in Unbuilt} \cup {Match(j) : j \in Matches}
Ids == Versions \cup Fillers

ASSUME MatchmakingAssumption ==
  /\ Unbuilt \subseteq Versions /\ Versions \cap Fillers = {}
  /\ IsFiniteSet(Versions) /\ IsFiniteSet(Fillers)
  /\ Ids \subseteq DOMAIN Author
  /\ \A x \in {PoolSize, Seats} : x \in Nat /\ x >= 2
  /\ \A x \in {kRecent, MaxSlots, MaxLosses, MaxMatches} : x \in Nat

VARIABLES
  \* the scheduler
  ready,      \* versions that are READY
  waiting,    \* versions submitted and not yet READY, or still to be submitted
  queue,      \* queue_: orders that wait for a slot
  flight,     \* orders a worker has
  over,       \* orders that have ended
  slots,      \* total_slots()
  losses,
  \* Matchmaker
  running,    \* running_: job id -> the group that plays, <<>> if not in it
  early,      \* early_: orders here, of which a match's name is its job id
  recent,     \* recent_: id -> its last opponents, newest first
  \* TopUp
  pc, free, pool, last, now,
  \* history
  groups      \* every group enqueued, in order; the job id is its position

scheduler == <<ready, waiting, queue, flight, over, slots, losses>>
matchmaker == <<running, early, recent>>
topUp == <<pc, free, pool, last, now>>
vars == <<scheduler, matchmaker, topUp, groups>>

TypeOK ==
  /\ ready \subseteq Versions /\ waiting \subseteq Unbuilt
  /\ queue \in Seq(Orders) /\ flight \subseteq Orders /\ over \subseteq Orders
  /\ slots \in 0 .. MaxSlots /\ losses \in 0 .. MaxLosses
  /\ running \in [Matches -> Seq(Ids)]
  /\ early \subseteq Orders
  /\ recent \in [Ids -> Seq(Ids)] /\ last \in [Ids -> Seq(Ids)]
  /\ pc \in {"sleep", "slots", "flight", "copy", "choose", "record"}
  /\ free \in Int /\ pool \subseteq Versions /\ now \in 0 .. MaxMatches
  /\ groups \in Seq(Seq(Ids)) /\ Len(groups) <= MaxMatches

NoRecent == [x \in Ids |-> <<>>]
Init ==
  /\ ready = Versions \ Unbuilt /\ waiting = Unbuilt
  /\ queue = <<>> /\ flight = {} /\ over = {}
  /\ slots = MaxSlots /\ losses = 0
  /\ running = [j \in Matches |-> <<>>] /\ early = {} /\ recent = NoRecent
  /\ pc = "sleep" /\ free = 0 /\ pool = {} /\ last = NoRecent /\ now = 0
  /\ groups = <<>>

-----------------------------------------------------------------------------
(* The scheduler.                                                            *)

(* DispatchLocked: the front of the queue gets the slots there are, s, that    *)
(* the orders f do not use.                                                    *)
Dispatched(q, f, s) == Min({Len(q), Max({0, s - Cardinality(f)})})
Dispatch(q, f, s) ==
  LET n == Dispatched(q, f, s)
  IN  /\ flight' = f \cup Range(SubSeq(q, 1, n))
      /\ queue' = SubSeq(q, n + 1, Len(q))

(* EnqueuePlacement for a new version.                                        *)
EnqueuePlacement(c) ==
  /\ c \in waiting /\ waiting' = waiting \ {c}
  /\ Dispatch(Append(queue, Place(c)), flight, slots)
  /\ UNCHANGED <<ready, over, slots, losses, matchmaker, topUp, groups>>

(* OnConcluded: a match TopUp has not recorded yet, or a placement.            *)
OnConcluded(o) ==
  IF o[1] = "match" /\ running[o[2]] # <<>>
  THEN running' = [running EXCEPT ![o[2]] = <<>>] /\ UNCHANGED early
  ELSE early' = early \cup {o} /\ UNCHANGED running

LeaveSlot(o) == flight' = flight \ {o} /\ UNCHANGED queue               \* slip
FreeSlot(o) == Dispatch(queue, flight \ {o}, slots)

(* A result: a placement makes its version READY; a match may find that one    *)
(* of its versions no longer builds.                                           *)
Answer(o, blamed) ==
  /\ o \in flight /\ over' = over \cup {o}
  /\ IF o[1] = "place" THEN ready' = ready \cup {o[2]} /\ blamed = {}
     ELSE /\ blamed \subseteq ready \cap Range(groups[o[2]]) /\ Cardinality(blamed) <= 1
          /\ ready' = ready \ blamed
  /\ OnConcluded(o)
  /\ FreeSlot(o)
  /\ UNCHANGED <<waiting, slots, losses, recent, topUp, groups>>

(* RemoveWorker, for a worker of one slot: its order goes to the front.         *)
LoseWorker(lost) ==
  /\ losses < MaxLosses /\ losses' = losses + 1
  /\ slots > 0 /\ slots' = slots - 1
  /\ \/ Cardinality(flight) < slots /\ lost = <<>>
     \/ \E o \in flight : lost = <<o>>
  /\ Dispatch(lost \o queue, flight \ Range(lost), slots - 1)
  /\ UNCHANGED <<ready, waiting, over, matchmaker, topUp, groups>>

AddWorker ==
  /\ slots < MaxSlots /\ slots' = slots + 1
  /\ Dispatch(queue, flight, slots + 1)
  /\ UNCHANGED <<ready, waiting, over, losses, matchmaker, topUp, groups>>

Scheduler ==
  \/ \E c \in Unbuilt : EnqueuePlacement(c)
  \/ \E o \in Orders, blamed \in SUBSET Versions : Answer(o, blamed)
  \/ \E lost \in {<<>>} \cup {<<o>> : o \in Orders} : LoseWorker(lost)
  \/ AddWorker

-----------------------------------------------------------------------------
(* TopUp.                                                                    *)

WhenNothingIsQueued ==
  /\ pc = "sleep" /\ queue = <<>> /\ Len(groups) < MaxMatches
  /\ pc' = "slots"
  /\ UNCHANGED <<scheduler, matchmaker, free, pool, last, now, groups>>

CountSlots ==
  /\ pc = "slots" /\ pc' = "flight" /\ free' = slots
  /\ UNCHANGED <<scheduler, matchmaker, pool, last, now, groups>>

CountFree ==
  /\ pc = "flight"
  /\ IF free - Cardinality(flight) <= 0 THEN pc' = "sleep" /\ free' = 0
     ELSE pc' = "copy" /\ free' = free - Cardinality(flight)
  /\ UNCHANGED <<scheduler, matchmaker, pool, last, now, groups>>

(* PoolOf: the best PoolSize versions, and whoever could still be one of them. *)
Pools == {P \in SUBSET ready : Cardinality(P) >= Min({PoolSize, Cardinality(ready)})}
CopyState ==
  /\ pc = "copy" /\ pc' = "choose" /\ last' = recent
  /\ pool' \in Pools
  /\ UNCHANGED <<scheduler, matchmaker, free, now, groups>>

(* ChooseGroup, for the member a, short of the authors in short: the best of   *)
(* the groups that fill its seats.  A pool that is too small plays whole, with *)
(* fillers.                                                                    *)
Rivals(a) ==
  IF Cardinality(pool) >= Seats THEN kSubset(Seats - 1, pool \ {a})
  ELSE {(pool \ {a}) \cup F : F \in kSubset(Seats - Cardinality(pool), Fillers)}
Mixed(a, R) == Seats = 2 \/ Cardinality({Author[x] : x \in R \cup {a}}) = Seats
ShortOf(short, R) == Cardinality({Author[x] : x \in R} \cap short)
Fresh(a, R) == R \cap Range(last[a]) = {}
Rank(p) == IF p THEN 1 ELSE 0
BetterIgnoringRecent(a, short, R, Q) ==                                \* slip
  ShortOf(short, R) > ShortOf(short, Q)
Better(a, short, R, Q) ==
  \/ Rank(Mixed(a, R)) > Rank(Mixed(a, Q))
  \/ /\ Mixed(a, R) = Mixed(a, Q)
     /\ \/ ShortOf(short, R) > ShortOf(short, Q)
        \/ /\ ShortOf(short, R) = ShortOf(short, Q)
           /\ Fresh(a, R) /\ ~ Fresh(a, Q)
Best(a, short) == {R \in Rivals(a) : \A Q \in Rivals(a) : ~ Better(a, short, Q, R)}

(* The opponents of everyone in the group, newest first, the last few only.    *)
LastFew(s) == SubSeq(s, 1, Min({Len(s), kRecent * (Seats - 1)}))
MetIn(group, x) == RemoveFirst(Reverse(group), x)
Remember(seen, group) ==
  [x \in Ids |-> IF x \in Range(group) THEN LastFew(MetIn(group, x) \o seen[x])
                 ELSE seen[x]]

(* EnqueueMatch: with an opponent that is no longer READY it fails at once,    *)
(* and on_concluded is called before it returns.                               *)
EnqueueMatch(group) ==
  LET j == Len(groups) + 1
      starts == \A x \in Range(Tail(group)) : x \in ready \cup Fillers
  IN  /\ groups' = Append(groups, group) /\ now' = j
      /\ IF starts
         THEN Dispatch(Append(queue, Match(j)), flight, slots) /\ UNCHANGED <<over, early>>
         ELSE /\ over' = over \cup {Match(j)} /\ early' = early \cup {Match(j)}
              /\ UNCHANGED <<queue, flight>>
      /\ UNCHANGED <<ready, waiting, slots, losses, running>>

Choose ==
  /\ pc = "choose" /\ free > 0 /\ Len(groups) < MaxMatches
  /\ Cardinality(pool) >= 2 /\ Cardinality(pool \cup Fillers) >= Seats
  /\ \E a \in pool : \E short \in SUBSET {Author[x] : x \in pool \ {a}} :
       \E R \in Best(a, short) :
         LET group == <<a>> \o SetToSeq(R)
         IN  EnqueueMatch(group) /\ last' = Remember(last, group)
  /\ pc' = "record"
  /\ UNCHANGED <<recent, free, pool>>

StopChoosing ==
  /\ pc = "choose"
  /\ \/ free = 0 \/ Len(groups) = MaxMatches
     \/ Cardinality(pool) < 2 \/ Cardinality(pool \cup Fillers) < Seats
  /\ pc' = "sleep" /\ free' = 0 /\ pool' = {} /\ last' = NoRecent /\ now' = 0
  /\ UNCHANGED <<scheduler, matchmaker, groups>>

RecordAnyway ==                                                        \* slip
  running' = [running EXCEPT ![now] = groups[now]] /\ UNCHANGED early
RecordMatch ==
  IF Match(now) \in early THEN early' = early \ {Match(now)} /\ UNCHANGED running
  ELSE running' = [running EXCEPT ![now] = groups[now]] /\ UNCHANGED early
Record ==
  /\ pc = "record" /\ pc' = "choose"
  /\ recent' = last
  /\ RecordMatch
  /\ free' = free - 1
  /\ UNCHANGED <<scheduler, pool, last, now, groups>>

TopUp ==
  \/ WhenNothingIsQueued \/ CountSlots \/ CountFree \/ CopyState
  \/ Choose \/ StopChoosing \/ Record

Next == TopUp \/ Scheduler

(* The thread wakes every two seconds, workers answer, and one that was lost   *)
(* is started again.                                                           *)
Fairness ==
  /\ WF_vars(TopUp) /\ WF_vars(AddWorker)
  /\ \A o \in Orders : WF_vars(Answer(o, {}))

SafetySpec == Init /\ [][Next]_vars
Spec == SafetySpec /\ Fairness

-----------------------------------------------------------------------------
(* Properties.                                                               *)

(* running_ holds the matches that wait or play, all of them but the one just *)
(* enqueued, however soon on_concluded is called; what /pool shows as being   *)
(* played is, and a member is not held busy by a match that is over.          *)
RunningIsOpen ==
  \A j \in Matches :
    running[j] # <<>> <=>
      j \in 1 .. Len(groups) /\ Match(j) \notin over /\ ~ (pc = "record" /\ j = now)

(* Everyone x has met in these matches, and the last of them by the matches    *)
(* that were enqueued.                                                         *)
EveryoneMet(x, played) ==
  LET Met[n \in 0 .. Len(played)] ==
        IF n = 0 THEN <<>>
        ELSE IF x \in Range(played[n]) THEN MetIn(played[n], x) \o Met[n - 1]
        ELSE Met[n - 1]
  IN  Met[Len(played)]
OpponentsOf(x) == LastFew(EveryoneMet(x, groups))

(* Between groups of the same authors, the member a match is for meets one of  *)
(* its last opponents only if every such group of the pool has one: by the     *)
(* matches really enqueued, of this TopUp and of the ones before, not by what  *)
(* recent_ says.  (Which authors it is short of comes first.)                  *)
Met(a, R) == R \cap Range(OpponentsOf(a)) # {}
Authors(R) == {Author[x] : x \in R}
NoQuickRematch ==
  [][\A j \in Matches : j = Len(groups) + 1 /\ Len(groups') = j =>
       LET a == groups'[j][1]
           R == Range(Tail(groups'[j]))
       IN  Met(a, R) => \A Q \in Rivals(a) : Authors(Q) = Authors(R) => Met(a, Q)]_vars

(* The pool goes on playing: placements, matches that fail at once, and lost   *)
(* workers delay a match, and never stop the matchmaker for good while two     *)
(* versions are READY.                                                         *)
PoolKeepsPlaying == <>(Len(groups) = MaxMatches \/ Cardinality(ready) < 2)

(* "Placement jobs are queued, so they never wait behind a match."             *)
PlacementsFirst ==
  \A i, k \in DOMAIN queue : i < k /\ queue[k][1] = "place" => queue[i][1] = "place"

=============================================================================
