---------------------------- MODULE SwissGroups ----------------------------
(***************************************************************************)
(* The draw of a Swiss round (server/swiss.cc, SwissGroups): which entries *)
(* sit out and which meet.  Entries are compared for equality only, so a   *)
(* pair that has met is a set of two.                                      *)
(*                                                                         *)
(* Nobody is moved within the ranking: a place in it stands for whoever    *)
(* has it, pool is the set of places not sent away, and left those of them *)
(* that are not used yet.  The recursions are over numbers, so that        *)
(* SwissProofs can reason about them.                                      *)
(***************************************************************************)
EXTENDS Integers, Sequences, SequencesExt, FiniteSetsExt

CONSTANT Seats   \* entries per group

ASSUME SeatsAssumption == Seats \in Nat /\ Seats >= 2

(* AddPairs: everyone in a group has met everyone else in it.               *)
PairsOf(group) ==
  UNION {{{a, b} : b \in Range(group) \ {a}} : a \in Range(group)}

(* Whom a pool that does not fill its groups sends away next: the lowest     *)
(* that has not sat out before, the lowest of all when everyone has.         *)
LowestOfAll(ranked, left, hadBye) == Max(left)                         \* slip
SitsOut(ranked, left, hadBye) ==
  LET fresh == {i \in left : ranked[i] \notin hadBye}
  IN  Max(IF fresh = {} THEN left ELSE fresh)

(* As many are sent away as the groups leave over.                           *)
Away(ranked, hadBye) ==
  LET Send == [away \in Seq(DOMAIN ranked) |->
                 Append(away, SitsOut(ranked, DOMAIN ranked \ Range(away), hadBye))]
      Sent[k \in 0 .. Len(ranked) % Seats] == IF k = 0 THEN <<>> ELSE Send[Sent[k - 1]]
  IN  Sent[Len(ranked) % Seats]

(* Who joins a group: the nearest entry left that has met none of its        *)
(* members, and the nearest of all when there is none.  A group that is      *)
(* empty gets the first of those left.                                       *)
Met(a, group, played) == \E b \in group : {a, b} \in played
Nearest(ranked, left, group, played) ==
  LET fresh == {i \in left : ~ Met(ranked[i], {ranked[m] : m \in group}, played)}
  IN  Min(IF fresh = {} THEN left ELSE fresh)

GroupFrom(ranked, left, played) ==
  LET Seat == [group \in Seq(left) |->
                 Append(group,
                        Nearest(ranked, left \ Range(group), Range(group), played))]
      Seated[k \in 0 .. Seats] == IF k = 0 THEN <<>> ELSE Seat[Seated[k - 1]]
  IN  Seated[Seats]

UsedBy(groups) == UNION {Range(groups[g]) : g \in DOMAIN groups}
GroupsOf(ranked, pool, played) ==
  LET Add == [groups \in Seq(Seq(pool)) |->
                Append(groups, GroupFrom(ranked, pool \ UsedBy(groups), played))]
      n == Cardinality(pool) \div Seats
      Drawn[g \in 0 .. n] == IF g = 0 THEN <<>> ELSE Add[Drawn[g - 1]]
  IN  Drawn[n]

Draw(ranked, played, hadBye) ==
  LET away == Away(ranked, hadBye)
      groups == GroupsOf(ranked, DOMAIN ranked \ Range(away), played)
  IN  [groups |-> [g \in DOMAIN groups |-> [k \in 1 .. Seats |-> ranked[groups[g][k]]]],
       byes |-> [i \in DOMAIN away |-> ranked[away[i]]]]

=============================================================================
