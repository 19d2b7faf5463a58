--------------------------- MODULE ProblemConfig ---------------------------
(* What a problem's textproto must satisfy to be served (problem_config.cc), *)
(* what the scheduler makes of it, and the orders it places a newcomer with  *)
(* (scheduler.cc).  A text is a sequence of symbols where a part of it       *)
(* matters, and otherwise one value, "" when unset.                          *)
EXTENDS Integers, FiniteSets, SequencesExt

CONSTANTS LowerAlnum,   (* the symbols a problem id may start with           *)
          MaxIdSize,    (* symbols of a problem id (64 characters)           *)
          Margin,       (* seconds a match ends before its run (30)          *)
          DefaultTimeout (* seconds of a run whose timeout is unset (1800)   *)

-----------------------------------------------------------------------------
(* kv_options.h: options as the one text "k=v,k2=v2" a flag carries.  An     *)
(* entry is a key and a value; the order is that of the keys.                *)

IsValidValue(value) == ToSet(value) \cap {",", "="} = {}
IsValidKey(key)     == key # <<>> /\ IsValidValue(key)

Join(texts) ==
    FoldLeft(LAMBDA out, t: IF out = <<>> THEN t ELSE out \o <<",">> \o t, <<>>, texts)

(* What cannot be carried is left out.                                       *)
Format(entries) ==
    LET carried == SelectSeq(entries, LAMBDA e: IsValidKey(e[1]) /\ IsValidValue(e[2]))
    IN  Join([i \in DOMAIN carried |-> carried[i][1] \o <<"=">> \o carried[i][2]])

(* The entry's first "=" ends its key; without one, or with an empty key, it *)
(* is skipped, and of two with one key the last counts.                      *)
Put(options, entry) ==
    LET at == SelectInSeq(entry, LAMBDA c: c = "=")
        key == SubSeq(entry, 1, at - 1)
    IN  IF at <= 1 THEN options
        ELSE [k \in DOMAIN options \cup {key} |->
                 IF k = key THEN SubSeq(entry, at + 1, Len(entry)) ELSE options[k]]

Parse(text) ==
    LET cut == FoldLeft(LAMBDA s, c:
                    IF c = "," THEN [done |-> Put(s.done, s.open), open |-> <<>>]
                    ELSE [s EXCEPT !.open = Append(@, c)],
                    [done |-> << >>, open |-> <<>>], text)
    IN  Put(cut.done, cut.open)

-----------------------------------------------------------------------------
(* problem_config.cc.                                                        *)

IsValidProblemId(id) ==
    /\ Len(id) \in 1 .. MaxIdSize
    /\ id[1] \in LowerAlnum
    /\ ToSet(id) \subseteq LowerAlnum \cup {"-", "_"}

(* The metric a graded problem ranks by; none is the empty set.              *)
PrimaryMetric(c) ==
    LET named == SelectInSeq(c.grade.metrics, LAMBDA metric:
                     IF c.ranking.metric = "" THEN metric.primary
                     ELSE metric.name = c.ranking.metric)
    IN  IF c.ranking.kind # "METRIC" \/ c.evaluation # "grade" \/ named = 0 THEN {}
        ELSE {c.grade.metrics[named]}

GradeIsFine(grade) ==
    /\ grade.argv # <<>>
    /\ grade.metrics # <<>>
    /\ Cardinality({i \in DOMAIN grade.metrics : grade.metrics[i].primary}) = 1

(* Each side has each seat as often only over whole rotations.               *)
SeatsAreFine(match, kind) ==
    /\ kind = "TRUESKILL"
    /\ match.games % match.players = 0
    /\ match.matchmaking > 0 => match.matchmaking % match.players = 0
    /\ Len(match.placement) + 1 >= match.players

MatchIsFine(match, kind) ==
    /\ match.game # "" /\ match.referee # ""
    /\ \A e \in ToSet(match.options) : IsValidKey(e[1]) /\ IsValidValue(e[2])
    /\ match.players > 2 => SeatsAreFine(match, kind)

RankingIsFine(c) ==
    CASE c.ranking.kind = "METRIC" -> c.evaluation = "grade" /\ PrimaryMetric(c) # {}
      [] OTHER -> c.evaluation = "match"

(* Two versions of one participant can share an order's tree: a version's    *)
(* patch must stay in its own directory.                                     *)
Own(dir) == <<dir, "/", "{submission_id}", "/", "**">>
VersionsAreFine(c) ==
    /\ c.submission.versions =>
           c.submission.dir # "" /\ c.submission.allow = <<Own(c.submission.dir)>>
    /\ c.evaluation = "match" /\ c.match.matchmaking > 0 =>
           c.submission.versions /\ c.ranking.kind = "TRUESKILL"

ValidateProblemConfig(c) ==
    /\ IsValidProblemId(c.id)
    /\ c.targets # <<>>
    /\ c.image # ""
    /\ CASE c.evaluation = "grade" -> GradeIsFine(c.grade)
         [] c.evaluation = "match" -> MatchIsFine(c.match, c.ranking.kind)
         [] OTHER -> FALSE
    /\ RankingIsFine(c)
    /\ VersionsAreFine(c)

Larger(a, b) == IF a > b THEN a ELSE b

(* The target that names the submission, or the first.                       *)
BotTarget(targets) ==
    LET named == SelectInSeq(targets, LAMBDA t: t.templated)
    IN  targets[Larger(1, named)]

(* Every order's template; what one kind of problem has not is left unset.   *)
SchedulerConfigFor(c) ==
    LET unset == [players |-> 2, games |-> 0, placement |-> <<>>, bot |-> "", deadline |-> 0,
                  timeout |-> 0, metrics |-> {}, repeats |-> 0]
    IN  IF c.evaluation = "match"
        THEN [unset EXCEPT !.players = c.match.players, !.games = c.match.games,
                           !.placement = c.match.placement,
                           !.bot = BotTarget(c.targets),
                           !.timeout = c.match.timeout,
                           !.deadline = Larger(1, c.match.timeout - Margin)]
        ELSE [unset EXCEPT !.games = c.grade.repeats, !.repeats = c.grade.repeats,
                           !.timeout = c.grade.timeout,
                           !.metrics = {c.grade.metrics[i].name : i \in DOMAIN c.grade.metrics}]

(* order_job.cc: what the worker makes of an order's two times.              *)
RunTimeout(order) == IF order.timeout > 0 THEN order.timeout ELSE DefaultTimeout
MatchDeadline(order) ==
    IF order.deadline > 0 THEN order.deadline ELSE Larger(1, RunTimeout(order) - Margin)

-----------------------------------------------------------------------------
(* scheduler.cc: the groups a newcomer is placed against.                    *)

(* Every players - 1 of the placement opponents, each by its position.       *)
PlacementGroups(builtins, players) ==
    {group \in SUBSET DOMAIN builtins : Cardinality(group) = players - 1}

(* Rated rivals, evenly spaced from the top of the board to the bottom.      *)
Picks(rated, players, ladderSize) ==
    LET n == Len(rated)
        k == IF n < ladderSize * (players - 1) THEN n ELSE ladderSize * (players - 1)
    IN  [i \in 1 .. k |-> rated[IF k = 1 THEN 1 ELSE ((i - 1) * (n - 1)) \div (k - 1) + 1]]

(* The next in rank from an author not yet in the group, if any is left.     *)
Take(s, author) ==
    LET Met(id) == \E i \in DOMAIN s.group : author[s.group[i]] = author[id]
        apart   == SelectInSeq(s.left, LAMBDA id: ~Met(id))
        next    == Larger(1, apart)
    IN  IF s.left = <<>> THEN s
        ELSE [s EXCEPT !.left = RemoveAt(@, next), !.group = Append(@, s.left[next])]

(* A short last group fills its seats from the placement builtins.           *)
Filled(group, builtins, others) ==
    FoldLeft(LAMBDA g, b: IF Len(g) < others /\ b \notin ToSet(g) THEN Append(g, b) ELSE g,
             group, builtins)

Ladder(rated, author, players, ladderSize, builtins) ==
    LET others == players - 1
        Times(n) == [i \in 1 .. n |-> i]
        Group(s) ==
            LET taken == FoldLeft(LAMBDA t, i: Take(t, author),
                                  [left |-> s.left, group |-> <<>>], Times(others))
            IN  IF s.left = <<>> THEN s
                ELSE [left |-> taken.left,
                      groups |-> Append(s.groups, Filled(taken.group, builtins, others))]
        picks == Picks(rated, players, ladderSize)
    IN  FoldLeft(LAMBDA s, i: Group(s), [left |-> picks, groups |-> <<>>],
                 Times(Len(picks))).groups

=============================================================================
