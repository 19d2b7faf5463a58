------------------------------ MODULE Referee -------------------------------
(***************************************************************************)
(* One match: the referee process (referee_main.cc), its matchmaker        *)
(* (matchmaker.cc), and the bots' play loops (client/play_loop.cc) that    *)
(* dial in, a stream for every game.                                       *)
(*                                                                         *)
(* A connection's call of Join runs on a thread of its own, a step for     *)
(* each time it holds mutex_ or changes an atomic; the reaper and main are *)
(* threads too.  A game's own course is GameRun's: here it plays, and is   *)
(* over, by itself or by an abort.  Players and builtins are numbers, in   *)
(* the order of their names.                                               *)
(***************************************************************************)
EXTENDS SeatRotation

CONSTANTS
  Players,      \* the bots of the match; PlayerA among them
  PlayerA,      \* --player_a
  Builtins,     \* --player_b's builtins, as the bots name them
  Specs,        \* builtins make_builtin knows
  BotlessSeats, \* --player_a and --player_b when all are builtins
  Games,        \* --games
  Strays,       \* hellos of a connection that is not of the match's bots
  Modes         \* of Kinds: who --player_a and --player_b are

Dials == Players \X (1 .. Games)
Stray == <<0, 1>>
Conns == Dials \cup {Stray}
MaxGames == Cardinality(Conns) + Games
Ids == 1 .. MaxGames
Main == <<0, 0>>
(* Bots, builtins alone, or builtins of which make_builtin does not know one. *)
Kinds == {"bots", "builtins", "unknown"}
Threads == Conns \cup {Main}
Seats == Cardinality(Players) + Len(Builtins)
Opponents == {"player", "builtin", "neither"} \X Nat

ASSUME RefereeAssumption ==
  /\ PlayerA \in Players /\ IsFiniteSet(Players) /\ Players \subseteq Nat \ {0}
  /\ Games \in Nat \ {0} /\ Modes \subseteq Kinds
  /\ Builtins \in Seq(Nat) /\ BotlessSeats \in Seq(Nat)
  /\ Len(BotlessSeats) = Seats /\ Head(BotlessSeats) = PlayerA
  /\ Strays \subseteq [name : Nat, game : BOOLEAN, opponents : Seq(Opponents)]

VARIABLES
  \* connections: "off", "in", "refused", "broken"; the handles' flags
  stage, gone, ended,
  stray,        \* what the stray connection asks for
  \* the threads in Join and StartBuiltins: where, with whom, for which game
  at, party, game,
  \* mutex_: Parked in order of arrival, games started per group, the games
  \* Shutdown can reach, stopping_
  parked, groupGames, listed, stopping,
  runningGames, gameCounter,
  \* the games: who has which seat, and how far it is
  seats, phase, aborted,
  expired,      \* what the reaper is closing
  \* main and its tally
  botless, main, sweep, complete, report, result

conns == <<stage, gone, ended, stray>>
joins == <<at, party, game>>
table == <<parked, groupGames, listed, stopping>>
atomics == <<runningGames, gameCounter>>
games == <<seats, phase, aborted>>
mains == <<botless, main, sweep, complete, report, result>>
vars == <<conns, joins, table, atomics, games, expired, mains>>

-----------------------------------------------------------------------------
(* Hellos and members.                                                       *)

Member(name, conn) == [name |-> name, conn |-> conn]
NoConn == <<>>
BotHello ==
  [name \in Players |->
     [name |-> name, game |-> TRUE,
      opponents |-> SetToSeq({<<"player", p>> : p \in Players \ {name}}) \o
                    [i \in DOMAIN Builtins |-> <<"builtin", Builtins[i]>>]]]
Hellos == Range(BotHello) \cup Strays
HelloOf(c) == IF c = Stray THEN stray ELSE BotHello[c[1]]

(* The elements of s that are in S, in their order.                           *)
Those(s, S) ==
  LET Kept[n \in 0 .. Len(s)] ==
        IF n = 0 THEN <<>>
        ELSE IF s[n] \in S THEN Append(Kept[n - 1], s[n]) ELSE Kept[n - 1]
  IN  Kept[Len(s)]

Named(hello, kind) ==
  LET theirs == Those(hello.opponents, {o \in Range(hello.opponents) : o[1] = kind})
  IN  [i \in DOMAIN theirs |-> theirs[i][2]]
Wanted(hello) == <<hello.name>> \o Named(hello, "player")
BuiltinsOf(c) ==
  LET specs == Named(HelloOf(c), "builtin")
  IN  [i \in DOMAIN specs |-> Member(specs[i], NoConn)]

(* What Join refuses, whatever is parked: the game, the number of opponents,  *)
(* a builtin's spec, a partner named twice, an opponent that is neither.      *)
Unusable(c) ==
  LET hello == HelloOf(c)
  IN  \/ ~hello.game
      \/ Len(hello.opponents) + 1 # Seats
      \/ \E spec \in Range(Named(hello, "builtin")) : spec \notin Specs
      \/ \E o \in Range(hello.opponents) : o[1] \notin {"builtin", "player"}
      \/ ~IsInjective(Wanted(hello))

NamesOf(members) == [i \in DOMAIN members |-> members[i].name]
ConnsOf(members) == {members[i].conn : i \in DOMAIN members} \ {NoConn}
GroupKey(members) == ByName(NamesOf(members))
Key == [h \in Hellos |-> ByName(Wanted(h) \o Named(h, "builtin"))]
KeyOf(c) == Key[HelloOf(c)]

(* Who has a game's seats, first to move first.  The same names have the same *)
(* seats whoever is behind them.                                              *)
SeatedBy(members, names) == CHOOSE q \in Orders(members) : NamesOf(q) = names

-----------------------------------------------------------------------------
Count(f, k) == IF k \in DOMAIN f THEN f[k] ELSE 0
Counted(f, k) == [x \in DOMAIN f \cup {k} |-> Count(f, x) + (IF x = k THEN 1 ELSE 0)]

Init ==
  /\ stage = [c \in Conns |-> "off"] /\ gone = {} /\ ended = {}
  /\ stray \in Strays
  /\ at = [t \in Threads |-> "out"] /\ party = [t \in Threads |-> <<>>]
  /\ game = [t \in Threads |-> 0]
  /\ parked = <<>> /\ groupGames = [k \in {} |-> 0] /\ listed = {} /\ stopping = FALSE
  /\ runningGames = 0 /\ gameCounter = 0
  /\ seats = [g \in Ids |-> <<>>] /\ phase = [g \in Ids |-> "none"] /\ aborted = {}
  /\ expired = {}
  /\ botless \in Modes /\ main = "await" /\ sweep = [conns |-> {}, games |-> {}]
  /\ complete = TRUE
  /\ report = <<>> /\ result = <<>>

Stopped == {"report", "exit"}

-----------------------------------------------------------------------------
(* Clients.                                                                  *)

(* A bot dials for its next game when the stream of the one before has ended, *)
(* and stops at the first that fails; a stray connection comes when it likes. *)
Before(c) == <<c[1], c[2] - 1>>
Dial(c) ==
  /\ botless = "bots" /\ main \notin Stopped /\ stage[c] = "off" /\ at[c] = "out"
  /\ c \in Dials /\ c[2] > 1 => stage[Before(c)] = "in" /\ Before(c) \in ended
  /\ at' = [at EXCEPT ![c] = "hello"]
  /\ UNCHANGED <<conns, party, game, table, atomics, games, expired, mains>>

(* Disconnect, of a stream that broke or was half-closed: it marks the handle *)
(* and unparks it.  Before Join has parked it, there is nothing to unpark.    *)
Unparked(cs) == Those(parked, Conns \ cs)
Disconnect(c) ==
  /\ stage[c] = "in" /\ c \notin ended
  /\ stage' = [stage EXCEPT ![c] = "broken"]
  /\ gone' = gone \cup {c}
  /\ parked' = Unparked({c})
  /\ UNCHANGED <<ended, stray, joins, groupGames, listed, stopping, atomics, games, expired, mains>>

-----------------------------------------------------------------------------
(* Join.                                                                     *)

Refuse(c) ==
  /\ stage' = [stage EXCEPT ![c] = "refused"] /\ ended' = ended \cup {c}
  /\ at' = [at EXCEPT ![c] = "out"]
  /\ UNCHANGED <<gone, stray, party, game, table, atomics, games, expired, mains>>

(* Everyone in |members| is here: StartGroupGame.                             *)
Grouped(t, members) ==
  /\ at' = [at EXCEPT ![t] = "grouped"]
  /\ party' = [party EXCEPT ![t] = members]

Join(c) ==
  /\ at[c] = "hello"
  /\ IF stopping \/ Unusable(c) THEN Refuse(c)
     ELSE /\ IF Len(Wanted(HelloOf(c))) = 1
             THEN Grouped(c, Append(BuiltinsOf(c), Member(HelloOf(c).name, c)))
             ELSE at' = [at EXCEPT ![c] = "joining"] /\ UNCHANGED party
          /\ stage' = [stage EXCEPT ![c] = "in"]
          /\ UNCHANGED <<gone, stray, ended, game, table, atomics, games, expired, mains>>

(* Under mutex_: the dead make room, a second connection of one name does     *)
(* not get in, the last of a group takes everyone along.                      *)
Group(c) == Those(parked, {d \in Range(parked) : KeyOf(d) = KeyOf(c)})
Waiting(c) == Those(Group(c), Conns \ gone)
TakeAny(c) == FALSE                                                    \* slip
Duplicate(c) ==
  \E i \in DOMAIN Waiting(c) : HelloOf(Waiting(c)[i]).name = HelloOf(c).name
NeverTooLate == FALSE                                                  \* slip
TooLate == stopping
JoinRendezvous(c) ==
  LET dead == {d \in gone : KeyOf(d) = KeyOf(c)}
      all == Append(Waiting(c), c)
  IN  /\ at[c] = "joining"
      /\ IF TooLate THEN Refuse(c)
         ELSE /\ IF Duplicate(c)
                 THEN /\ parked' = Unparked(dead)
                      /\ stage' = [stage EXCEPT ![c] = "refused"] /\ ended' = ended \cup {c}
                      /\ at' = [at EXCEPT ![c] = "out"] /\ UNCHANGED party
                 ELSE /\ UNCHANGED <<stage, ended>>
                      /\ IF Len(all) < Len(Wanted(HelloOf(c)))
                         THEN /\ parked' = Append(Unparked(dead), c)
                              /\ at' = [at EXCEPT ![c] = "out"] /\ UNCHANGED party
                         ELSE /\ parked' = Unparked(Range(Group(c)))
                              /\ Grouped(c, BuiltinsOf(c) \o
                                   [i \in DOMAIN all |-> Member(HelloOf(all[i]).name, all[i])])
              /\ UNCHANGED <<gone, stray, game, groupGames, listed, stopping, atomics, games,
                             expired, mains>>

(* StartGroupGame: the group's games are counted under mutex_.                *)
Seat(t) ==
  LET key == GroupKey(party[t])
  IN  /\ at[t] = "grouped"
      /\ groupGames' = Counted(groupGames, key)
      /\ party' = [party EXCEPT ![t] =
                     SeatedBy(@, Seating(NamesOf(@), Count(groupGames, key)))]
      /\ at' = [at EXCEPT ![t] = "seated"]
      /\ UNCHANGED <<conns, game, parked, listed, stopping, atomics, games, expired, mains>>

(* StartGame: counted, then listed, then started.                            *)
CountGame(t) ==
  LET id == gameCounter + 1
  IN  /\ at[t] = "seated" /\ id \in Ids
      /\ gameCounter' = id /\ runningGames' = runningGames + 1
      /\ game' = [game EXCEPT ![t] = id]
      /\ seats' = [seats EXCEPT ![id] = party[t]]
      /\ phase' = [phase EXCEPT ![id] = "made"]
      /\ party' = [party EXCEPT ![t] = <<>>]
      /\ at' = [at EXCEPT ![t] = "counted"]
      /\ UNCHANGED <<conns, table, aborted, expired, mains>>
ListGame(t) ==
  /\ at[t] = "counted"
  /\ listed' = listed \cup {game[t]}
  /\ at' = [at EXCEPT ![t] = "listed"]
  /\ UNCHANGED <<conns, party, game, parked, groupGames, stopping, atomics, games, expired, mains>>
StartGame(t) ==
  /\ at[t] = "listed"
  /\ phase' = [phase EXCEPT ![game[t]] = IF @ = "made" THEN "playing" ELSE @]
  /\ at' = [at EXCEPT ![t] = "out"] /\ game' = [game EXCEPT ![t] = 0]
  /\ UNCHANGED <<conns, party, table, atomics, seats, aborted, expired, mains>>

Thread(t) == Seat(t) \/ CountGame(t) \/ ListGame(t) \/ StartGame(t)

-----------------------------------------------------------------------------
(* Games.                                                                    *)

(* Tally::Observe takes the record, if player_a has a seat; the clients are   *)
(* told and their streams end.                                                *)
Record(g, reason) == [game |-> g, reason |-> reason]
Observed(g, reason) ==
  IF \E i \in DOMAIN seats[g] : seats[g][i].name = PlayerA
  THEN Append(report, Record(g, reason)) ELSE report
Conclude(g, reason) ==
  /\ phase' = [phase EXCEPT ![g] = "concluded"]
  /\ report' = Observed(g, reason)
  /\ ended' = ended \cup ConnsOf(seats[g])
  /\ UNCHANGED <<stage, stray, gone, joins, table, atomics, seats, aborted, expired,
                 botless, main, sweep, complete, result>>
Play(g) == phase[g] = "playing" /\ Conclude(g, "played")
Abort(g) == g \in aborted /\ phase[g] \in {"made", "playing"} /\ Conclude(g, "server_shutdown")

(* on_finished: off the list, then out of the count that Drain waits for.    *)
Unlist(g) ==
  /\ phase[g] = "concluded"
  /\ listed' = listed \ {g}
  /\ phase' = [phase EXCEPT ![g] = "unlisted"]
  /\ UNCHANGED <<conns, joins, parked, groupGames, stopping, atomics, seats, aborted,
                 expired, mains>>
ForgetToCount == UNCHANGED runningGames                                \* slip
OneLess == runningGames' = runningGames - 1
Uncount(g) ==
  /\ phase[g] = "unlisted"
  /\ OneLess
  /\ phase' = [phase EXCEPT ![g] = "over"]
  /\ UNCHANGED <<conns, joins, table, gameCounter, seats, aborted, expired, mains>>

Strand(g) == Play(g) \/ Abort(g) \/ Unlist(g) \/ Uncount(g)

-----------------------------------------------------------------------------
(* The reaper: whose deadline has passed (they park in the order of their     *)
(* deadlines), and who is gone, leaves under mutex_; streams close after it.  *)

Reap ==
  /\ ~stopping /\ expired = {} /\ parked # <<>>
  /\ \E n \in 1 .. Len(parked) :
       expired' = Range(SubSeq(parked, 1, n)) \cup (Range(parked) \cap gone)
  /\ parked' = Unparked(expired')
  /\ UNCHANGED <<conns, joins, groupGames, listed, stopping, atomics, games, mains>>
CloseExpired ==
  /\ expired # {}
  /\ gone' = gone \cup expired /\ ended' = ended \cup expired /\ expired' = {}
  /\ UNCHANGED <<stage, stray, joins, table, atomics, games, mains>>

-----------------------------------------------------------------------------
(* Main.                                                                     *)

Played == Len(report)
Started == Cardinality({g \in Ids : phase[g] # "none"})

(* Builtins alone have no bot to start their games: the referee does, one at  *)
(* a time.                                                                    *)
StartBuiltins ==
  /\ botless = "builtins" /\ main = "await" /\ at[Main] = "out"
  /\ Started < Games /\ Played = Started
  /\ Grouped(Main, [i \in 1 .. Seats |-> Member(BotlessSeats[i], NoConn)])
  /\ UNCHANGED <<conns, game, table, atomics, games, expired, mains>>

(* A builtin that cannot be made ends the program there: no report.           *)
RefuseBuiltins ==
  /\ botless = "unknown" /\ main = "await" /\ main' = "exit"
  /\ UNCHANGED <<conns, joins, table, atomics, games, expired, botless, sweep, complete,
                 report, result>>

(* Await returns when the games are played, or at the deadline.              *)
Await ==
  /\ botless # "unknown" /\ main = "await" /\ at[Main] = "out" /\ main' = "shutdown"
  /\ complete' = (Played >= Games)
  /\ UNCHANGED <<conns, joins, table, atomics, games, expired, botless, sweep, report, result>>

(* Shutdown: nobody joins from here on.  Who waits and what plays is noted    *)
(* under mutex_, and ended after it.                                          *)
Shutdown ==
  /\ main = "shutdown" /\ main' = "sweep"
  /\ stopping' = TRUE
  /\ sweep' = [conns |-> Range(parked), games |-> listed]
  /\ parked' = <<>>
  /\ UNCHANGED <<conns, joins, groupGames, listed, atomics, games, expired, botless,
                 complete, report, result>>
Sweep ==
  /\ main = "sweep" /\ main' = "drain"
  /\ gone' = gone \cup sweep.conns /\ ended' = ended \cup sweep.conns
  /\ aborted' = sweep.games
  /\ sweep' = [conns |-> {}, games |-> {}]
  /\ UNCHANGED <<stage, stray, joins, table, atomics, seats, phase, expired, botless, complete,
                 report, result>>
Drain ==
  /\ main = "drain" /\ runningGames = 0 /\ main' = "stop"
  /\ UNCHANGED <<conns, joins, table, atomics, games, expired, botless, sweep, complete,
                 report, result>>

(* The server cancels every call that is left and waits for the handlers.    *)
StopServer ==
  /\ main = "stop" /\ \A c \in Conns : at[c] = "out"
  /\ main' = "report"
  /\ stage' = [c \in Conns |-> IF stage[c] = "in" /\ c \notin ended THEN "broken" ELSE stage[c]]
  /\ gone' = gone \cup {c \in Conns : stage[c] # "off"}
  /\ parked' = <<>>
  /\ UNCHANGED <<ended, stray, joins, groupGames, listed, stopping, atomics, games, expired, botless,
                 sweep, complete, report, result>>

(* What has been observed by now is the match's report.                      *)
WriteReport ==
  /\ main = "report" /\ main' = "exit"
  /\ result' = report
  /\ UNCHANGED <<conns, joins, table, atomics, games, expired, botless, sweep, complete, report>>

MainThread ==
  \/ StartBuiltins \/ RefuseBuiltins \/ Await \/ Shutdown \/ Sweep \/ Drain \/ StopServer
  \/ WriteReport
Reaper == Reap \/ CloseExpired
Call(c) == Join(c) \/ JoinRendezvous(c)

(* Threads run, games end (GameRun's GameEnds), deadlines pass; bots owe      *)
(* nothing.  No step is ever taken back, so it is enough that some owed step  *)
(* is taken as long as there is one.                                          *)
Owed ==
  \/ \E c \in Conns : Call(c)
  \/ \E t \in Threads : Thread(t)
  \/ \E g \in Ids : Strand(g)
  \/ Reaper \/ MainThread
Next == Owed \/ \E c \in Conns : Dial(c) \/ Disconnect(c)

Fairness == WF_vars(Owed)
SafetySpec == Init /\ [][Next]_vars
Spec == SafetySpec /\ Fairness

-----------------------------------------------------------------------------
(* Properties.                                                               *)

Unfinished == {g \in Ids : phase[g] \in {"made", "playing"}}
Live == {c \in Conns : (stage[c] = "in" \/ at[c] # "out") /\ c \notin gone \cup ended}
Places(c) ==
  {<<"call", t>> : t \in {t \in Threads : c \in ConnsOf(party[t])}} \cup
  {<<"game", g>> : g \in {g \in Unfinished : c \in ConnsOf(seats[g])}} \cup
  {<<"call", t>> : t \in {t \in {c} : at[c] \in {"hello", "joining"}}} \cup
  {p \in {<<"parked", 0>>} : c \in Range(parked) /\ ~stopping} \cup
  {p \in {<<"reaped", 0>>} : c \in expired} \cup
  {p \in {<<"swept", 0>>} : c \in sweep.conns}

(* A connection that was let in and is not over is in exactly one place that  *)
(* somebody will take it on from: a Join, a group that waits while the reaper *)
(* and Shutdown can still reach it, a game, or the hands of the thread that   *)
(* closes it.                                                                 *)
EveryoneHasOnePlace == \A c \in Live : Cardinality(Places(c)) = 1

(* The seats of a game are the ones its clients asked for: everybody a client *)
(* named, once.                                                               *)
SeatsAreAsAsked ==
  \A g \in Ids : LET key == GroupKey(seats[g])
                IN  \A c \in ConnsOf(seats[g]) : KeyOf(c) = key

(* What SeatsAreAsAsked needs, and Join does not check: that nobody plays, or  *)
(* asks for a player, under the name of a builtin.                            *)
NamesApart ==
  \A h, k \in Hellos : Range(Wanted(h)) \cap Range(Named(k, "builtin")) = {}

(* A match ends by its deadline, whatever the bots do: Drain gets its games.  *)
MatchEnds == <>(main = "exit")

(* referee_main.cc 244: "Even for a partial match: the worker sees fewer      *)
(* games than it asked for": a match that was cut off reports fewer.          *)
CutOff == \E i \in DOMAIN result : result[i].reason = "server_shutdown"
PartialIsShort == main = "exit" /\ CutOff => Len(result) < Games

=============================================================================
