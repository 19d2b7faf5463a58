------------------------------- MODULE Ratings ------------------------------
(* From results to rows: the places of a game, the tallies of an order, the  *)
(* records of the three kinds of standings, and the order they are shown in. *)
(* Ratings themselves are the parameters Rate and Expected: their formulas   *)
(* are floating point.                                                       *)
EXTENDS Integers, FiniteSets, SequencesExt

CONSTANTS KRecentCapacity,   (* lines of the history's tail in memory          *)
          Initial,           (* a player's rating before its first game        *)
          Rate(_, _),        (* ratings after a game, from those before and places *)
          InitialElo, K,     (* the Elo update's parameters                    *)
          Expected(_, _)     (* the score one rating expects against another   *)

-----------------------------------------------------------------------------
(* game_history.cc: a game's places, counted from 0, and the tail of the     *)
(* index, which a restart reads back.                                        *)

PlacesOf(game) ==
    IF game.places # <<>> THEN game.places
    ELSE IF game.result # "WIN" THEN [i \in DOMAIN game.players |-> 0]
    ELSE [i \in DOMAIN game.players |-> IF i = game.winner THEN 0 ELSE 1]

Trim(lines) == IF Len(lines) > KRecentCapacity THEN Tail(lines) ELSE lines

(* An empty line is skipped; Remember is the end of Store.                   *)
Remember(recent, line) == Trim(Append(recent, line))
SeedTail(index) == FoldLeft(Remember, <<>>, SelectSeq(index, LAMBDA line: line # ""))

RecentGames(recent, limit) ==
    LET count == IF limit < Len(recent) THEN limit ELSE Len(recent)
    IN  IF limit <= 0 THEN <<>> ELSE SubSeq(recent, Len(recent) - count + 1, Len(recent))

-----------------------------------------------------------------------------
(* match_tally.cc: what a referee's report says of one player.               *)

NoTally == [games |-> 0, wins |-> 0, draws |-> 0, losses |-> 0, finishes |-> <<>>]

(* finishes has one count per place up to the worst one taken.               *)
Finished(finishes, place) ==
    [i \in 1 .. (IF Len(finishes) > place THEN Len(finishes) ELSE place + 1) |->
        (IF i <= Len(finishes) THEN finishes[i] ELSE 0) + (IF i = place + 1 THEN 1 ELSE 0)]

HowMany(places, place) == Cardinality({i \in DOMAIN places : places[i] = place})

(* The first seat of that name counts, and only it.                          *)
AddGame(tally, game, player) ==
    LET seat   == SelectInSeq(game.players, LAMBDA name: name = player)
        places == PlacesOf(game)
        place  == places[seat]
    IN  IF seat = 0 THEN tally
        ELSE [games    |-> tally.games + 1,
              finishes |-> Finished(tally.finishes, place),
              losses   |-> tally.losses + (IF place # 0 THEN 1 ELSE 0),
              draws    |-> tally.draws
                             + (IF place = 0 /\ HowMany(places, 0) > 1 THEN 1 ELSE 0),
              wins     |-> tally.wins
                             + (IF place = 0 /\ HowMany(places, 0) <= 1 THEN 1 ELSE 0)]

TallyOf(games, player) ==
    FoldLeft(LAMBDA tally, game: AddGame(tally, game, player), NoTally, games)

-----------------------------------------------------------------------------
(* trueskill.cc: a ranker is a function from the players it met to records.  *)

NewRecord ==
    [rating |-> Initial, wins |-> 0, draws |-> 0, losses |-> 0, finishes |-> <<>>,
     met |-> << >>]

Meets(met, opponent) ==
    [o \in DOMAIN met \cup {opponent} |->
        (IF o \in DOMAIN met THEN met[o] ELSE 0) + (IF o = opponent THEN 1 ELSE 0)]

RankerGet(ranker, player) ==
    IF player \in DOMAIN ranker THEN ranker[player] ELSE NewRecord

(* Every rating is computed from those before the game, then each seat's     *)
(* record gets its place, its opponents and its win, draw or loss.           *)
RankerAddGame(ranker, players, places) ==
    LET before == [i \in DOMAIN players |-> RankerGet(ranker, players[i])]
        rated  == Rate([i \in DOMAIN players |-> before[i].rating], places)
        first  == Min(ToSet(places))
        After(i) == [rating   |-> rated[i],
                     finishes |-> Finished(before[i].finishes, places[i]),
                     met      |-> FoldLeft(Meets, before[i].met,
                                     SelectSeq(players, LAMBDA p: p # players[i])),
                     losses   |-> before[i].losses + (IF places[i] # first THEN 1 ELSE 0),
                     draws    |-> before[i].draws + (IF places[i] = first
                                     /\ HowMany(places, first) > 1 THEN 1 ELSE 0),
                     wins     |-> before[i].wins + (IF places[i] = first
                                     /\ HowMany(places, first) = 1 THEN 1 ELSE 0)]
        seat(p)  == SelectInSeq(players, LAMBDA name: name = p)
    IN  [p \in DOMAIN ranker \cup ToSet(players) |->
            IF p \in ToSet(players) THEN After(seat(p)) ELSE ranker[p]]

(* TrueSkillStandings: a start replays every line of the index.              *)
RecordGame(ranker, game) ==
    RankerAddGame(ranker, game.players, PlacesOf(game))
IndexLine(game) == [game EXCEPT !.places = PlacesOf(game)]
Replay(index) ==
    FoldLeft(LAMBDA ranker, game: RecordGame(ranker, game), << >>, index)

-----------------------------------------------------------------------------
(* elo_standings.cc and elo_store.cc: one update per game of a tally, the    *)
(* wins first.  A score is in halves: 2 for a win, 1 for a draw.             *)

Scores(result) ==
    [i \in 1 .. result.wins + result.draws + result.losses |->
        IF i <= result.wins THEN 2 ELSE IF i <= result.wins + result.draws THEN 1 ELSE 0]

EloRow(store, player) ==
    IF player \notin DOMAIN store THEN [elo |-> InitialElo, wins |-> 0, draws |-> 0, losses |-> 0]
    ELSE IF store[player].elo = 0 THEN [store[player] EXCEPT !.elo = InitialElo]
    ELSE store[player]

RecordResult(store, a, b, score) ==
    LET rowA   == EloRow(store, a)
        rowB   == EloRow(store, b)
        change == K * (score - Expected(rowA.elo, rowB.elo))
        Won(row)  == [row EXCEPT !.wins = @ + 1]
        Lost(row) == [row EXCEPT !.losses = @ + 1]
        Drew(row) == [row EXCEPT !.draws = @ + 1]
        newA == IF score = 2 THEN Won(rowA) ELSE IF score = 0 THEN Lost(rowA) ELSE Drew(rowA)
        newB == IF score = 2 THEN Lost(rowB) ELSE IF score = 0 THEN Won(rowB) ELSE Drew(rowB)
    IN  [p \in DOMAIN store \cup {a, b} |->
            IF p = a THEN [newA EXCEPT !.elo = @ + change]
            ELSE IF p = b THEN [newB EXCEPT !.elo = @ - change] ELSE store[p]]

(* No opponent, nothing to rate against.                                     *)
Record(store, candidate, opponent, result) ==
    IF opponent = "" THEN store
    ELSE FoldLeft(LAMBDA s, score:
                      RecordResult(s, candidate, opponent, score),
                  store, Scores(result))

-----------------------------------------------------------------------------
(* Graded problems: what the runs of an order come to, and the ranking.      *)

(* grade_policy.cc.  Sums and medians are in halves of the metric's unit.    *)
Aggregate(values, how) ==
    LET sorted == SortSeq(values, LAMBDA a, b: a < b)
        mid    == Len(values) \div 2
    IN  CASE how = "MIN"  -> 2 * sorted[1]
          [] how = "MEAN" -> (2 * FoldLeft(LAMBDA s, v: s + v, 0, values)) \div Len(values)
          [] OTHER        -> IF Len(values) % 2 = 1 THEN 2 * sorted[mid + 1]
                             ELSE sorted[mid] + sorted[mid + 1]

ValuesOf(runs, name) ==
    LET having == SelectSeq(runs, LAMBDA run: name \in DOMAIN run)
    IN  [i \in DOMAIN having |-> having[i][name]]

(* Only the problem's metrics, each over the runs that reported it.          *)
ScoreGradedRuns(runs, how, names) ==
    [n \in {n \in names : ValuesOf(runs, n) # <<>>} |-> Aggregate(ValuesOf(runs, n), how)]

(* metric_report.cc: a report with any metric wins over the RESULT lines, of *)
(* which the last that has any counts.                                       *)
ParseMetrics(json, resultLines) ==
    LET filled == SelectSeq(resultLines, LAMBDA metrics: DOMAIN metrics # {})
    IN  IF DOMAIN json # {} THEN json
        ELSE IF filled # <<>> THEN Last(filled) ELSE << >>

(* metric_standings.cc: a new measurement replaces the whole record; a row   *)
(* without the primary metric has no place.                                  *)
RecordMetrics(records, candidate, metrics) ==
    IF DOMAIN metrics = {} THEN records
    ELSE [c \in DOMAIN records \cup {candidate} |->
             IF c = candidate THEN metrics ELSE records[c]]

RankMetric(records, metric, lowerIsBetter, idOrder, limit) ==
    LET placed == {c \in DOMAIN records : metric \in DOMAIN records[c]}
        Better(a, b) == IF lowerIsBetter THEN records[a][metric] < records[b][metric]
                        ELSE records[a][metric] > records[b][metric]
        rows == SetToSortSeq(placed, LAMBDA a, b:
                    Better(a, b) \/ (records[a][metric] = records[b][metric]
                                       /\ idOrder[a] < idOrder[b]))
    IN  IF limit > 0 /\ Len(rows) > limit THEN SubSeq(rows, 1, limit) ELSE rows

-----------------------------------------------------------------------------
(* http_leaderboard.cc: with a pool, its members come first and the ranks    *)
(* count on through those who dropped out.                                   *)
Board(rows, pool) ==
    SelectSeq(rows, LAMBDA r: r \in pool) \o SelectSeq(rows, LAMBDA r: r \notin pool)

=============================================================================
