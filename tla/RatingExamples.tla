--------------------------- MODULE RatingExamples ---------------------------
(* Tallies, records and rankings over every short history, against each      *)
(* other and against what they are for.                                      *)
EXTENDS Integers, FiniteSets, SequencesExt

(* Any rating that depends on all that came before will do: here each seat's *)
(* is a number that grows with the ratings it met and with its place.        *)
LOCAL Rate(ratings, places) ==
    [i \in DOMAIN ratings |-> 2 * ratings[i] + places[i] + FoldLeft(+, 0, ratings)]
LOCAL Expected(a, b) == IF a > b THEN 2 ELSE IF a = b THEN 1 ELSE 0

LOCAL R == INSTANCE Ratings WITH KRecentCapacity <- 2, Initial <- 1, InitialElo <- 100, K <- 4

LOCAL Three == <<"a", "b", "c">>
LOCAL Game(players, places) ==
    [players |-> players, places |-> places, result |-> "PLACES", winner |-> 0]
LOCAL Pair(result, winner) ==
    [players |-> <<"a", "b">>, places |-> <<>>, result |-> result, winner |-> winner]

(* Places a game can have: somebody is first, and as many are before a place *)
(* as its number says.                                                       *)
LOCAL RealPlaces(n) ==
    {p \in [1 .. n -> 0 .. n - 1] :
        \A i \in 1 .. n : p[i] = Cardinality({j \in 1 .. n : p[j] < p[i]})}
LOCAL Games == {Game(Three, p) : p \in RealPlaces(3)}
                  \cup {Pair("WIN", 1), Pair("WIN", 2), Pair("DRAW", 0), Pair("ABORTED", 0)}
LOCAL Histories == BoundedSeq(Games, 2)

-----------------------------------------------------------------------------
(* The tally of an order and the record on the board count the same games    *)
(* alike: as many of each place, and the same wins, draws and losses.        *)
ASSUME TallyIsTheRecord ==
    \A games \in Histories, player \in ToSet(Three) :
        LET tally  == R!TallyOf(games, player)
            record == R!RankerGet(R!Replay(games), player)
        IN  /\ <<tally.wins, tally.draws, tally.losses, tally.finishes>>
                 = <<record.wins, record.draws, record.losses, record.finishes>>
            /\ tally.games = tally.wins + tally.draws + tally.losses
            /\ tally.games = FoldLeft(+, 0, tally.finishes)

(* Whoever meets whom, both records say so, and as often.                    *)
ASSUME MeetingsAreMutual ==
    \A games \in Histories :
        LET ranker == R!Replay(games)
            Times(p, q) == IF q \in DOMAIN ranker[p].met THEN ranker[p].met[q] ELSE 0
        IN  \A p, q \in DOMAIN ranker : Times(p, q) = Times(q, p) /\ Times(p, p) = 0

(* A restart replays the ratings it had: an index line keeps all that        *)
(* RecordGame reads, also of a game that was stored without places.          *)
ASSUME RestartReplaysTheRatings ==
    \A games \in Histories :
        R!Replay([i \in DOMAIN games |-> R!IndexLine(games[i])])
            = R!Replay(games)

(* Games in another order are other ratings: the order of RecordGame calls   *)
(* is part of the result.                                                    *)
ASSUME OrderMatters ==
    \E g, h \in Games : R!Replay(<<g, h>>) # R!Replay(<<h, g>>)

(* The tail a restart reads is the one the last process had.                 *)
ASSUME TailIsReadBack ==
    \A lines \in BoundedSeq({"", "g1", "g2"}, 5) :
        LET whole == SelectSeq(lines, LAMBDA l: l # "") IN
        /\ R!SeedTail(lines) = FoldLeft(R!Remember, <<>>, whole)
        /\ \A n \in 0 .. 3 : IsSuffix(R!RecentGames(R!SeedTail(lines), n), whole)

-----------------------------------------------------------------------------
LOCAL Results == [wins : 0 .. 2, draws : 0 .. 1, losses : 0 .. 2]
LOCAL Elo(result, opponent) ==
    R!Record(R!Record(<< >>, "a", "b", [wins |-> 1, draws |-> 0, losses |-> 0]),
             "a", opponent, result)

(* What one side wins the other loses, in points and in games, and a result  *)
(* without an opponent changes nobody.                                       *)
ASSUME EloIsZeroSum ==
    \A result \in Results :
        LET store == Elo(result, "b") IN
        /\ store["a"].elo + store["b"].elo = 200
        /\ store["a"].wins = store["b"].losses /\ store["a"].losses = store["b"].wins
        /\ store["a"].wins = 1 + result.wins /\ store["a"].losses = result.losses
        /\ store["a"].draws = result.draws /\ store["b"].draws = result.draws
        /\ Elo(result, "") = Elo([wins |-> 0, draws |-> 0, losses |-> 0], "b")

-----------------------------------------------------------------------------
LOCAL Runs == BoundedSeq({<< >>, [t |-> 1], [t |-> 4], [t |-> 2, u |-> 1]}, 3)

(* A score lies between the best and the worst run that has it, is there     *)
(* exactly when a run reported it, and does not depend on the order of runs. *)
ASSUME ScoreIsOfItsRuns ==
    \A runs \in Runs, how \in {"MIN", "MEAN", "MEDIAN"} :
        LET score  == R!ScoreGradedRuns(runs, how, {"t"})
            values == {runs[i].t : i \in {i \in DOMAIN runs : "t" \in DOMAIN runs[i]}}
        IN  /\ DOMAIN score = IF values = {} THEN {} ELSE {"t"}
            /\ values # {} => /\ 2 * Min(values) <= score["t"]
                              /\ score["t"] <= 2 * Max(values)
            /\ score = R!ScoreGradedRuns(Reverse(runs), how, {"t"})

LOCAL IdOrder == [a |-> 1, b |-> 2, c |-> 3]
LOCAL Metrics == {<< >>, [t |-> 1], [t |-> 2], [u |-> 1]}

(* The ranking lists whoever has the metric, the best first, whichever way   *)
(* it counts, and a measurement without metrics changes nothing.             *)
ASSUME RankingIsByTheMetric ==
    \A ms \in [{"a", "b", "c"} -> Metrics], lower \in BOOLEAN, n \in 0 .. 2 :
        LET records == FoldLeft(LAMBDA rec, c: R!RecordMetrics(rec, c, ms[c]), << >>, Three)
            all  == R!RankMetric(records, "t", lower, IdOrder, 0)
            some == R!RankMetric(records, "t", lower, IdOrder, n)
        IN  /\ ToSet(all) = {c \in {"a", "b", "c"} : "t" \in DOMAIN ms[c]}
            /\ \A i, j \in DOMAIN all : i < j =>
                   IF lower THEN ms[all[i]].t <= ms[all[j]].t ELSE ms[all[i]].t >= ms[all[j]].t
            /\ IsPrefix(some, all) /\ (n = 0 => some = all)

(* A board with a pool is a permutation of the ranking that keeps the order  *)
(* within the pool and outside it.                                           *)
ASSUME BoardKeepsTheOrder ==
    \A pool \in SUBSET {"a", "b", "c"} :
        LET board == R!Board(Three, pool) IN
        /\ ToSet(board) = ToSet(Three) /\ Len(board) = 3
        /\ \A i, j \in 1 .. 3 : i < j =>
               /\ (board[i] \in pool <=> board[j] \in pool) => IdOrder[board[i]] < IdOrder[board[j]]
               /\ board[j] \in pool => board[i] \in pool

(* A report without metrics is not taken for one: the RESULT lines count.    *)
ASSUME EmptyReportsAreSkipped ==
    \A json \in Metrics, lines \in BoundedSeq(Metrics, 2) :
        (DOMAIN R!ParseMetrics(json, lines) = {})
            <=> \A m \in {json} \cup ToSet(lines) : DOMAIN m = {}

=============================================================================
