--------------------------- MODULE ServerExamples ---------------------------
(* What the server's functions answer over small inputs: the submission      *)
(* checks against what they are for, the registry over every short sequence  *)
(* of what operators and callers do, the answers that depend on the caller   *)
(* over small stores, every small problem, the orders of those that          *)
(* validate, and the groups a newcomer is placed with.                       *)
EXTENDS Integers, FiniteSets, SequencesExt

LOCAL Rank == [l \in {":strategy", "//a", "//api", "//b"} |->
                  CASE l = "//a" -> 1 [] l = "//api" -> 2 [] l = "//b" -> 3 [] OTHER -> 0]
LOCAL Before(a, b) == Rank[a] < Rank[b]
LOCAL Header(f) == FALSE

LOCAL Check == INSTANCE SubmissionCheck
                   WITH MaxPathSize <- 6, MaxSlugSize <- 3, IsSource <- Header

LOCAL Upto(S, n) == BoundedSeq(S, n)

-----------------------------------------------------------------------------
(* A glob as a list of pieces, each with the texts it stands for; a path     *)
(* matches when it can be cut into one text per piece.                       *)

RECURSIVE PiecesOf(_)
PiecesOf(pattern) ==
    LET After(n) == SubSeq(pattern, n + 1, Len(pattern)) IN
    CASE pattern = <<>> -> <<>>
      [] IsPrefix(<<"*", "*", "/">>, pattern) -> <<"folders">> \o PiecesOf(After(3))
      [] IsPrefix(<<"*", "*">>, pattern) /\ ~IsPrefix(<<"*", "*", "/">>, pattern) ->
             <<"any">> \o PiecesOf(After(2))
      [] Head(pattern) = "*" /\ ~IsPrefix(<<"*", "*">>, pattern) ->
             <<"name">> \o PiecesOf(After(1))
      [] OTHER -> <<Head(pattern)>> \o PiecesOf(After(1))

StandsFor(piece, text) ==
    CASE piece = "folders" -> text = <<>> \/ Last(text) = "/"
      [] piece = "any"     -> TRUE
      [] piece = "name"    -> "/" \notin ToSet(text)
      [] OTHER             -> text = <<piece>>

CutsInto(path, pieces) ==
    LET n == Len(pieces) IN
    IF n = 0 THEN path = <<>>
    ELSE \E cut \in [1 .. n - 1 -> 0 .. Len(path)] :
             LET From(i) == IF i = 1 THEN 1 ELSE cut[i - 1] + 1
                 To(i)   == IF i = n THEN Len(path) ELSE cut[i]
             IN  \A i \in 1 .. n : /\ From(i) <= To(i) + 1
                                   /\ StandsFor(pieces[i], SubSeq(path, From(i), To(i)))

(* PathMatchesGlob's search finds exactly the paths the patterns describe:   *)
(* its early break at a separator and its shortcut for "a/**/b" lose none.   *)
ASSUME GlobIsItsPieces ==
    \A pattern \in Upto({"a", "/", "*"}, 4), path \in Upto({"a", "/"}, 4) :
        Check!PathMatchesGlob(path, pattern) <=> CutsInto(path, PiecesOf(pattern))

-----------------------------------------------------------------------------
LOCAL Files(texts) ==
    UNION {{<<[path |-> <<"f">>, content |-> t]>>,
            <<[path |-> <<"f">>, content |-> t], [path |-> <<"g">>, content |-> <<"y">>]>>}
           : t \in texts}

LOCAL AddedBack(files) ==
    [i \in DOMAIN files |-> [old |-> <<>>, new |-> files[i].path, isNew |-> TRUE,
                             content |-> files[i].content]]

(* The patch made of a list of files parses to these files: every path, and  *)
(* every content with or without its final newline, and one hunk for each.   *)
ASSUME PatchGivesTheFilesBack ==
    \A files \in Files(Upto({"x", "nl"}, 4)) :
        LET parsed == Check!ParseUnifiedDiff(Check!MakeAddOnlyPatch(files)) IN
        /\ parsed.good
        /\ parsed.files = AddedBack(files)
        /\ parsed.hunks = Len(files)
        /\ Check!TouchedPaths(parsed) = {f.path : f \in ToSet(files)}

(* A line of content that starts with "++ " becomes "+++ " in the patch and  *)
(* is read as a header: such a list, and no other, does not come back.       *)
ASSUME PlusPlusIsLost ==
    \A files \in Files(Upto({"x", "nl", "++ "}, 3)) :
        LET lines == UNION {ToSet(Check!SplitLines(f.content)) : f \in ToSet(files)}
            parsed == Check!ParseUnifiedDiff(Check!MakeAddOnlyPatch(files))
        IN  (parsed.good /\ parsed.files = AddedBack(files))
                <=> \A l \in lines : l = <<>> \/ Head(l) # "++ "

-----------------------------------------------------------------------------
(* A slug is its own slug, has no "-" at either end nor two together, and    *)
(* is never empty: an id read back names the same candidate.                 *)
LOCAL Lower == [c \in {"A", "a", "candidate"} |-> IF c = "A" THEN "a" ELSE c]

ASSUME SlugIsASlug ==
    \A name \in Upto({"A", "?"}, 6) :
        LET slug == Check!Slugify(name, Lower) IN
        /\ slug # <<>> /\ Len(slug) <= 3
        /\ Head(slug) # "-" /\ Last(slug) # "-"
        /\ \A i \in 1 .. Len(slug) - 1 : <<slug[i], slug[i + 1]>> # <<"-", "-">>
        /\ Check!Slugify(slug, Lower) = slug

-----------------------------------------------------------------------------
(* Bazel takes no label twice.  The generated deps list none twice unless    *)
(* the submitter names the harness's own dependency behind an earlier one.   *)
ASSUME LabelsAreListedOnce ==
    \A extra \in Upto({"//a", "//api", "//b"}, 3) :
        LET build == Check!GenerateCandidateBuild(
                         [apiDep |-> "//api", mainSrc |-> "main.cc", botDeps |-> <<"//b">>],
                         {<<"h">>}, <<"h">>, extra)
        IN  /\ IsInjective(build.deps) <=> ~({"//a", "//api"} \subseteq ToSet(extra))
            /\ ToSet(build.deps) = {"//api"} \cup ToSet(extra)
            /\ IsInjective(build.botDeps)

-----------------------------------------------------------------------------
LOCAL Letters == [c \in {"A", "a", "v", "1", "f", "candidate"} |-> IF c = "A" THEN "a" ELSE c]
LOCAL Ext == [c \in {"f", "g"} |-> IF c = "f" THEN ".h" ELSE ".cc"]
LOCAL Policy(versions) ==
    [versions |-> versions, submitDir |-> <<"s">>, maxSourceFiles |-> 2, maxFileSize |-> 3,
     allowedDeps |-> {}, maxPatchSize |-> 0, maxFiles |-> 3, maxHunks |-> 0,
     denyPaths |-> {<<"*", "*", "/", "BUILD", "/", "*", "*">>},
     allowPaths |-> {<<"s", "/", "{submission_id}", "/", "*", "*">>}]
LOCAL Requests ==
    [name : {<<>>, <<"A">>}, author : {<<>>, <<"A">>, <<"a", "?", "1">>}, patch : {<<>>},
     files : {<<>>} \cup Files({<<>>, <<"x", "nl">>, <<"s", "/", "a", "/", "f">>}),
     entry : {<<"f">>, <<"g">>}, deps : {{}}, parent : {<<>>}]
LOCAL Known == {{}, {<<"a", "-", "v", "1">>}, {<<"a", "-", "v", "1">>, <<"a", "-", "v", "3">>},
                {<<"a">>}}

(* With versions every accepted submission gets an id nobody has, and all it *)
(* touches lies in that id's directory, though the files were written under  *)
(* the participant's; without, it keeps the participant's id and directory.  *)
ASSUME SubmissionStaysInItsDirectory ==
    \A versions \in BOOLEAN, request \in Requests, known \in Known :
        Check!Validate(request, Policy(versions), Letters, Ext, known) =>
            LET c == Check!Candidate(request, Policy(versions), Letters, known) IN
            /\ versions => c.id \notin known
            /\ \A path \in c.touched : IsPrefix(<<"s", "/">> \o c.id \o <<"/">>, path)
            /\ c.touched = {<<"s", "/">> \o c.id \o <<"/">> \o f.path : f \in ToSet(request.files)}
                           \cup {<<"s", "/">> \o c.id \o <<"/", "BUILD">>}

(* The path policy refuses no list of files the other checks accept: its     *)
(* allow_paths are matched against the id the patch was moved to.            *)
ASSUME FileListsPassThePolicy ==
    \A versions \in BOOLEAN, request \in Requests, known \in Known :
        /\ request.name # <<>> /\ request.files # <<>>
        /\ Check!FilesAreFine(request, Policy(versions), Ext)
        => Check!Validate(request, Policy(versions), Letters, Ext, known)

-----------------------------------------------------------------------------
(* Who is asking, and what they are shown.                                   *)
LOCAL Access == INSTANCE ClientAccess

LOCAL Defaults == [active |-> 1, queued |-> 2]
LOCAL Tokens   == <<"t1", "t2", "t3", "t4">>

-----------------------------------------------------------------------------
(* The tokens are fresh: the n-th step mints the n-th one.  "issued" is who  *)
(* was given which token last, "asked" what the last caller was told.        *)
LOCAL Steps ==
    [do : {"mint", "overwrite"}, id : {"a", "b"}] \cup [do : {"disable"}, id : {"a"}]
        \cup [do : {"ask"}, token : {"t1", "t2", "t3"}]

LOCAL Start == [file |-> <<>>, registry |-> <<>>, n |-> 0, issued |-> [c \in {"a", "b"} |-> ""],
                disabled |-> FALSE, told |-> Access!None, asked |-> ""]

LOCAL Do(s, step) ==
    LET n == s.n + 1
        given == Access!Mint(s.file, Access!MakeClient(step.id, Tokens[n],
                                 [active |-> 0, queued |-> 0]), step.do = "overwrite")
        answer == Access!Authenticate(s.file, s.registry, step.token, Defaults)
    IN  CASE step.do \in {"mint", "overwrite"} ->
                 [s EXCEPT !.n = n, !.file = given, !.asked = "",
                           !.issued[step.id] = IF given # s.file THEN Tokens[n] ELSE @]
          [] step.do = "disable" ->
                 [s EXCEPT !.n = n, !.asked = "", !.disabled = @ \/ \E i \in DOMAIN s.file : s.file[i].id = step.id,
                           !.file = [i \in DOMAIN @ |-> [@[i] EXCEPT !.disabled = @ \/ s.file[i].id = step.id]]]
          [] OTHER ->
                 [s EXCEPT !.n = n, !.registry = answer.registry, !.told = answer.identity,
                           !.asked = step.token]

LOCAL Runs == {FoldLeft(Do, Start, steps) : steps \in [1 .. 4 -> Steps]}

(* Whatever the operator does, a client has one entry, with the token it was *)
(* given last, and the file loads.                                           *)
ASSUME OneEntryPerClient ==
    \A s \in Runs :
        /\ Access!Loads(s.file)
        /\ \A i, j \in DOMAIN s.file : s.file[i].id = s.file[j].id => i = j
        /\ \A i \in DOMAIN s.file : s.file[i].token = s.issued[s.file[i].id]

(* The token a client was given last works at once, with no restart, unless  *)
(* the entry is disabled; a token is only ever taken for whom it was given   *)
(* to, and one that was replaced or disabled for no longer than the registry *)
(* stays unread.                                                             *)
ASSUME TokensNameTheirClients ==
    \A s \in Runs : s.asked # "" =>
        LET current == {c \in {"a", "b"} : s.issued[c] = s.asked}
            off     == {c \in {"a"} : s.disabled}
            stale   == \E i \in DOMAIN s.registry :
                           /\ s.registry[i].token = s.asked /\ ~s.registry[i].disabled
                           /\ s.registry # s.file
        IN  /\ \A c \in current \ off : s.told.id = c
            /\ s.told # Access!None => s.told.id \in current \ off \/ stale
            /\ s.told # Access!None => s.told.quota = Defaults

(* The file alone says a replaced token is gone; the coordinator still takes *)
(* it until it reads the file again, which only an unknown token makes it do.*)
ASSUME ReplacedTokenLingers ==
    \E s \in Runs : /\ s.asked # "" /\ s.told # Access!None
                    /\ \A c \in {"a", "b"} : s.issued[c] # s.asked

-----------------------------------------------------------------------------
LOCAL Ids == [c \in {"a", "a-v01", "a-v02", "b", "b-v01"} |->
                 CASE c = "a" -> 1 [] c = "a-v01" -> 2 [] c = "a-v02" -> 3 [] c = "b" -> 4
                   [] OTHER -> 5]
LOCAL Score == [c \in DOMAIN Ids |-> IF c = "a-v02" THEN 9 ELSE 3]
LOCAL Version(id, author, n, at, status) ==
    [id |-> id, author |-> author, version |-> n, at |-> at, status |-> status,
     patch |-> <<id>>, files |-> {<<id, "policy.h">>}]
LOCAL Stores ==
    {{Version("a-v01", "a", 1, 1, s1), Version("a-v02", "a", 2, at, s2),
      Version("b-v01", "b", 1, 1, s3)}
     : at \in 1 .. 2, s1, s2, s3 \in {"PENDING", "READY", "BUILD_FAILED"}}
LOCAL Visibilities == {"NONE", "OWN", "ALL"}
LOCAL Readers == {Access!None, [id |-> "a"], [id |-> "b"]}

(* The four calls that show a candidate agree on whether its source is the   *)
(* reader's to see, and with OWN no caller sees another's.                   *)
ASSUME CallsAgreeOnSources ==
    \A store \in Stores, v \in Visibilities, reader \in Readers, c \in {"a-v01", "b-v01"} :
        LET own   == CHOOSE e \in store : e.id = c
            seen  == \E e \in Access!GetCandidate(store, TRUE, v, reader, c) : e.patch # <<>>
            rows  == ToSet(Access!ListCandidates(store, "", "NEWEST", Score, Ids, 5, v, reader))
            board == ToSet(Access!Leaderboard(store, Score, Ids, 0, v, reader))
        IN  /\ seen <=> Access!GetSource(store, TRUE, v, TRUE, reader, c, <<c, "policy.h">>) = "OK"
            /\ \A e \in rows \cup board : e.id = c => (e.patch # <<>> <=> seen)
            /\ v = "OWN" /\ seen => own.author = reader.id

(* What GetCandidate lists under a participant's name GetSource serves: the  *)
(* paths of the newest version that built, moved there and back.             *)
ASSUME NamesServeTheirNewest ==
    \A store \in Stores, name \in {"a", "b"} :
        LET shown == Access!GetCandidate(store, TRUE, "ALL", Access!None, name)
            built == {c \in store : c.author = name /\ c.status = "READY"}
        IN  /\ Cardinality(shown) = IF built = {} THEN 0 ELSE 1
            /\ \A c \in shown : \A f \in c.files :
                   Access!GetSource(store, TRUE, "ALL", TRUE, Access!None, name, f) = "OK"
            /\ \A c \in shown : \A d \in built : d.at <= c.at /\ c.patch # <<>>

(* Listing the best first is the board with the rest behind it, and a limit  *)
(* of n rows shows the first n.                                              *)
ASSUME ListsBeginWithTheBoard ==
    \A store \in Stores, n \in 1 .. 3 :
        LET board == Access!Leaderboard(store, Score, Ids, 0, "ALL", Access!None)
            list  == Access!ListCandidates(store, "", "BEST_FIRST", Score, Ids, 5, "ALL", Access!None)
        IN  /\ IsPrefix(board, list)
            /\ Access!ListCandidates(store, "", "BEST_FIRST", Score, Ids, n, "ALL", Access!None)
                   = SubSeq(list, 1, n)

-----------------------------------------------------------------------------
LOCAL P == INSTANCE ProblemConfig
           WITH LowerAlnum <- {"a", "0"}, MaxIdSize <- 3, Margin <- 2, DefaultTimeout <- 5

-----------------------------------------------------------------------------
LOCAL Texts   == BoundedSeq({"k", "=", ","}, 2)
LOCAL Options == BoundedSeq(Texts \X Texts, 1)
                   \cup {<<d, e>> : d, e \in {<<"k">>, <<"=">>, <<>>} \X {<<"k">>, <<",">>, <<>>}}

(* Options that validate reach the referee as they were written, and what    *)
(* does not validate takes no other option with it.                          *)
ASSUME OptionsArrive ==
    \A options \in Options :
        LET good == {e \in ToSet(options) : P!IsValidKey(e[1]) /\ P!IsValidValue(e[2])}
            read == P!Parse(P!Format(options))
        IN  Cardinality({e[1] : e \in good}) = Cardinality(good)
                => {<<k, read[k]>> : k \in DOMAIN read} = good

-----------------------------------------------------------------------------
LOCAL Metric(name, primary) == [name |-> name, primary |-> primary]
LOCAL AnyGrade == [argv |-> <<"run">>, metrics |-> <<Metric("ms", TRUE)>>, repeats |-> 3, timeout |-> 9]
LOCAL AnyMatch == [game |-> "nim", referee |-> "referee", options |-> <<>>, players |-> 2, games |-> 4,
                   placement |-> <<"random", "mcts">>, timeout |-> 9, matchmaking |-> 0]
LOCAL Plain == [id |-> <<"a">>, targets |-> <<[name |-> "tool", templated |-> FALSE]>>, image |-> "img",
                evaluation |-> "match", grade |-> AnyGrade, match |-> AnyMatch,
                ranking |-> [kind |-> "ELO", metric |-> ""],
                submission |-> [versions |-> FALSE, dir |-> "", allow |-> <<>>]]

LOCAL Targets == {<<>>} \cup
    {<<[name |-> "tool", templated |-> FALSE], [name |-> "bot", templated |-> t]>> : t \in BOOLEAN}
LOCAL Metrics == BoundedSeq({Metric(n, p) : n \in {"ms", "kb"}, p \in BOOLEAN}, 2)
LOCAL Kinds   == {"ELO", "METRIC", "TRUESKILL"}
LOCAL Allows  == {<<>>, <<P!Own("subs")>>, <<P!Own("subs"), <<"**">>>>, <<<<"**">>>>}

LOCAL Graded ==
    {[Plain EXCEPT !.evaluation = e, !.grade.metrics = m, !.ranking = [kind |-> k, metric |-> n],
                   !.targets = t] :
        e \in {"grade", "none"}, m \in Metrics, k \in Kinds, n \in {"", "ms", "no"}, t \in Targets}
LOCAL Played ==
    {[Plain EXCEPT !.match.players = p, !.match.games = g, !.match.matchmaking = mm,
                   !.match.placement = b, !.ranking.kind = k, !.match.timeout = s] :
        p \in 2 .. 4, g \in {2, 3, 4, 6}, mm \in {0, 4, 6}, k \in Kinds, s \in {2, 3, 9},
        b \in {<<>>, <<"random">>, <<"random", "mcts">>, <<"random", "mcts", "greedy">>,
               <<"random", "random", "random">>}}
LOCAL Versioned ==
    {[c EXCEPT !.submission = [versions |-> v, dir |-> d, allow |-> a]] :
        c \in {q \in Played : q.match.timeout = 9 /\ Len(q.match.placement) = 2},
        v \in BOOLEAN, d \in {"", "subs"}, a \in Allows}
LOCAL Served == {c \in Graded \cup Played \cup Versioned : P!ValidateProblemConfig(c)}

(* A graded problem ranks by a metric that its orders keep of a report, and  *)
(* its board knows which end is better.                                      *)
ASSUME RankedMetricIsKept ==
    \A c \in Served : c.evaluation = "grade" =>
        /\ Cardinality(P!PrimaryMetric(c)) = 1
        /\ \A metric \in P!PrimaryMetric(c) : metric.name \in P!SchedulerConfigFor(c).metrics

(* Three players or more have each seat as often, whoever asked for the      *)
(* match, and their game is rated by something that knows more than pairs.   *)
ASSUME RotationsAreWhole ==
    \A c \in Served : c.evaluation = "match" /\ c.match.players > 2 =>
        /\ c.ranking.kind = "TRUESKILL"
        /\ P!SchedulerConfigFor(c).games % c.match.players = 0
        /\ c.match.matchmaking % c.match.players = 0

(* Where the arena makes matches of its own, every submission stays, and in  *)
(* a directory no other version's patch can touch.                           *)
ASSUME MatchmakingNeedsVersions ==
    \A c \in Served : c.match.matchmaking > 0 /\ c.evaluation = "match" =>
        /\ c.submission.versions
        /\ \A pattern \in ToSet(c.submission.allow) :
               IsPrefix(<<c.submission.dir, "/", "{submission_id}", "/">>, pattern)

(* A stuck match comes back as a partial tally: its deadline is under the    *)
(* run's timeout, once that leaves a second.                                 *)
ASSUME DeadlineIsUnderTheTimeout ==
    \A c \in Served : c.evaluation = "match" =>
        LET order == P!SchedulerConfigFor(c) IN P!MatchDeadline(order) < P!RunTimeout(order)

(* A timeout of 0 is no such timeout: the run has the worker's default, the  *)
(* match within it one second.                                               *)
ASSUME NoTimeoutIsOneSecond ==
    LET order == P!SchedulerConfigFor([Plain EXCEPT !.match.timeout = 0])
    IN  P!RunTimeout(order) = 5 /\ P!MatchDeadline(order) = 1

-----------------------------------------------------------------------------
LOCAL Entrants == {"p", "q", "r", "s", "t"}
LOCAL Boards == {<<>>, <<"p">>, <<"p", "q">>, <<"p", "q", "r">>, <<"p", "q", "r", "s">>,
                 <<"p", "q", "r", "s", "t">>}
LOCAL Authors == [Entrants -> {"x", "y", "z"}]
LOCAL Groups(c, board, author) ==
    P!Ladder(board, author, c.match.players, 3, c.match.placement)
LOCAL Tables == {c \in Served : c.evaluation = "match" /\ c.match.timeout = 9
                                  /\ c.match.games % c.match.players = 0 /\ ~c.submission.versions}

(* A placement's order fills the table: every group has players - 1 rivals,  *)
(* none of them twice, when no builtin is listed twice.                      *)
ASSUME TablesAreFull ==
    \A c \in {t \in Tables : Cardinality(ToSet(t.match.placement)) = Len(t.match.placement)},
       board \in Boards, author \in {a \in Authors : a["p"] = "x"} :
        LET groups == Groups(c, board, author)
        IN  \A i \in DOMAIN groups :
                /\ Len(groups[i]) = c.match.players - 1
                /\ Cardinality(ToSet(groups[i])) = Len(groups[i])

(* A config that lists one twice validates, and its last group falls short.  *)
ASSUME TwiceListedFallsShort ==
    \E c \in Tables : \E board \in Boards :
        LET groups == Groups(c, board, [id \in Entrants |-> id])
        IN  \E i \in DOMAIN groups : Len(groups[i]) < c.match.players - 1

(* The ladder goes from the top of the board to the bottom, and no rival is  *)
(* picked for two of its groups.                                             *)
ASSUME LadderSpansTheBoard ==
    \A players \in 2 .. 4, size \in 1 .. 3, board \in Boards \ {<<>>} :
        LET picks == P!Picks(board, players, size)
        IN  /\ Len(picks) = IF Len(board) < size * (players - 1) THEN Len(board)
                            ELSE size * (players - 1)
            /\ Cardinality(ToSet(picks)) = Len(picks)
            /\ picks[1] = board[1]
            /\ Len(picks) > 1 => Last(picks) = Last(board)

(* Two versions of one author share a group only when no other author is     *)
(* left to pick from.                                                        *)
ASSUME AuthorsAreApart ==
    \A players \in {3, 4}, author \in {a \in Authors : a["p"] = "x"} :
        LET board  == <<"p", "q", "r", "s", "t">>
            groups == P!Ladder(board, author, players, 3, <<>>)
            Later(i) == UNION {ToSet(groups[j]) : j \in {k \in DOMAIN groups : k > i}}
        IN  \A i \in DOMAIN groups :
                (\E a, b \in ToSet(groups[i]) : a # b /\ author[a] = author[b])
                    => \A id \in Later(i) : \E member \in ToSet(groups[i]) :
                            author[member] = author[id]

(* Every group of placement opponents is played once, each on its own when   *)
(* there are two seats.                                                      *)
ASSUME PlacedAgainstEach ==
    \A builtins \in BoundedSeq({"random", "mcts"}, 3) :
        /\ Cardinality(P!PlacementGroups(builtins, 2)) = Len(builtins)
        /\ Cardinality(P!PlacementGroups(builtins, 3)) = (Len(builtins) * (Len(builtins) - 1)) \div 2

=============================================================================
