------------------------------ MODULE GameRun ------------------------------
(***************************************************************************)
(* One game of the referee (referee/game_run.cc) on its strand, with the   *)
(* timer thread, the clients' streams and a shutdown around it.            *)
(*                                                                         *)
(* A strand runs its tasks one after the other (worker_pool.cc), so a task *)
(* is one step, except that Step's loop is one step per round: actions and *)
(* disconnects arrive between its rounds.  Posting, popping a due timer    *)
(* and Start are steps of other threads.  What a game is about is left     *)
(* out: it lasts Length moves, in turn, and may rank the seats in any way; *)
(* an action is legal or not.  Thinking time is counted in whole units.    *)
(***************************************************************************)
EXTENDS Integers, Sequences, FiniteSets, SequencesExt

CONSTANTS
  Seats,        \* how many
  Remote,       \* the seats with a client; builtins have the others
  Length,       \* moves until the session has an outcome
  MaxMoves,     \* config_.max_moves_per_game
  Budget,       \* config_.game_time_budget; 0 for none
  BuiltinsErr,  \* a builtin's action may be illegal
  MayShutDown,  \* the matchmaker may abort the game
  MaxInbox,     \* PlayerConnection::kMaxInbox
  MaxActions    \* bound: actions the clients ever send, together

Seat == 1 .. Seats
NoSeat == 0
Moves == 0 .. Length
Epochs == 0 .. 2 * (Length + Seats) + 3

ASSUME GameAssumption ==
  /\ Seats \in Nat \ {0, 1} /\ Remote \subseteq Seat
  /\ Length \in Nat \ {0} /\ MaxMoves \in Nat \ {0} /\ Budget \in Nat
  /\ MaxInbox \in Nat \ {0} /\ MaxActions \in Nat
  /\ BuiltinsErr \in BOOLEAN /\ MayShutDown \in BOOLEAN

VARIABLES
  \* the strand and the timer
  tasks,        \* the strand's queue
  running,      \* Step's loop is running
  timers,       \* Timer::entries_: the epochs armed and not fired
  due,          \* epochs popped by the timer thread, not posted yet
  \* Start, on the matchmaker's thread, and self_
  start,        \* "new", "owned" (self_ is set), "posted"
  self,         \* self_: the game keeps itself alive
  aborted,      \* Abort has been called
  \* the game's own
  moves, player, waiting, epoch, used,
  forfeited,    \* in the order they forfeited
  builtin,      \* the seats a builtin plays for by now
  concluded,
  places,       \* of the record, by seat; <<>> before it is stored
  stored,       \* how many records have been stored
  \* the clients
  inbox, gone, observed, over,
  sent,         \* how many actions were sent
  armed         \* history: what each epoch's timer was armed for

strand == <<tasks, running>>
clock == <<timers, due>>
life == <<start, self, aborted>>
game == <<moves, player, waiting, epoch, used, forfeited, builtin, concluded, places, stored>>
clients == <<inbox, gone, observed, over, sent>>
vars == <<strand, clock, life, game, clients, armed>>

Actions == {"legal", "illegal"}
Task == {[do |-> d, epoch |-> 0] : d \in {"begin", "step", "abort"}} \cup
        [do : {"deadline"}, epoch : Epochs]

TypeOK ==
  /\ tasks \in Seq(Task) /\ running \in BOOLEAN
  /\ timers \subseteq Epochs /\ due \subseteq Epochs
  /\ start \in {"new", "owned", "posted"} /\ self \in BOOLEAN /\ aborted \in BOOLEAN
  /\ moves \in Moves /\ player \in Seat /\ waiting \in Seat \cup {NoSeat}
  /\ epoch \in Epochs /\ used \in [Seat -> 0 .. Budget + 1]
  /\ IsInjective(forfeited) /\ Range(forfeited) \subseteq Seat /\ Seat \ Remote \subseteq builtin
  /\ concluded \in BOOLEAN /\ stored \in Nat
  /\ \A s \in Seat : inbox[s] \in Seq(Actions) /\ Len(inbox[s]) <= MaxInbox
  /\ gone \subseteq Remote /\ observed \subseteq Remote /\ over \subseteq Remote

Init ==
  /\ tasks = <<>> /\ running = FALSE /\ timers = {} /\ due = {}
  /\ start = "new" /\ self = FALSE /\ aborted = FALSE
  /\ moves = 0 /\ player = 1 /\ waiting = NoSeat /\ epoch = 0
  /\ used = [s \in Seat |-> 0]
  /\ forfeited = <<>> /\ builtin = Seat \ Remote
  /\ concluded = FALSE /\ places = <<>> /\ stored = 0
  /\ inbox = [s \in Seat |-> <<>>] /\ gone = {} /\ observed = {} /\ over = {}
  /\ sent = 0
  /\ armed = [e \in {} |-> 0]

-----------------------------------------------------------------------------
(* Posting.  A Step right behind a Step finds nothing the first left over.    *)

Posted(q, do, e) ==
  IF do = "step" /\ q # <<>> /\ Last(q).do = "step" THEN q
  ELSE Append(q, [do |-> do, epoch |-> e])
Woken(q, s) == IF s \in observed THEN Posted(q, "step", 0) ELSE q

-----------------------------------------------------------------------------
(* Conclude: the final placing.  Forfeiters go below everyone else, the       *)
(* latest first, level seats by thinking time where that is to decide.        *)

LatestLast(s, q) == IF s \in Range(q) THEN SelectInSeq(q, LAMBDA x : x = s) ELSE 0 \* slip
Late(s, q) == IF s \in Range(q) THEN Len(q) + 1 - SelectInSeq(q, LAMBDA x : x = s) ELSE 0
RankOf(s, ranked, time, q) == <<Late(s, q), ranked[s], time[s]>>
Before(a, b) ==
  \/ a[1] < b[1]
  \/ a[1] = b[1] /\ a[2] < b[2]
  \/ a[1] = b[1] /\ a[2] = b[2] /\ a[3] < b[3]
Placed(ranked, time, q) ==
  [s \in Seat |-> Cardinality({t \in Seat : Before(RankOf(t, ranked, time, q),
                                                   RankOf(s, ranked, time, q))})]

Level == [s \in Seat |-> 0]
Rankings == [Seat -> 0 .. Seats - 1]

(* The clients get their GameOver and their streams close once it is out;     *)
(* the matchmaker is told; the game lets go of itself.  The code returns when *)
(* the game is concluded already; that is left out here, so that a second     *)
(* call would count, and EndsOnce shows that there is none.                   *)
Conclude(ranked, time, q) ==
  /\ concluded' = TRUE
  /\ timers' = timers \ {epoch} /\ epoch' = epoch + 1
  /\ places' = Placed(ranked, time, q)
  /\ stored' = stored + 1
  /\ observed' = {} /\ over' = Remote
  /\ self' = FALSE
  /\ running' = FALSE

(* Forfeit: TRUE in the code when the game goes on, with a builtin in the     *)
(* seat; with one seat left it is over.                                       *)
Over(q) == Len(q) + 1 = Seats
PlaysOn(s) ==
  /\ timers' = timers \ {epoch} /\ epoch' = epoch + 1
  /\ waiting' = NoSeat
  /\ builtin' = builtin \cup {s}
  /\ UNCHANGED <<concluded, places, stored, observed, over, self>>

StopsThere == running' = FALSE                                         \* slip
GoesOn == running' = TRUE
Forfeit(s) ==
  /\ forfeited' = Append(forfeited, s)
  /\ IF Over(forfeited')
     THEN Conclude(Level, Level, forfeited') /\ UNCHANGED <<waiting, builtin>>
     ELSE PlaysOn(s)

-----------------------------------------------------------------------------
(* Step: one round of its loop.                                              *)

NextPlayer == (player % Seats) + 1

Applied(s, action) ==
  \/ /\ action = "legal"
     /\ moves' = moves + 1 /\ player' = NextPlayer
     /\ running' = TRUE
     /\ UNCHANGED <<forfeited, builtin, concluded, places, stored, observed, over, self>>
  \/ /\ action = "illegal" /\ s \in Range(forfeited)
     /\ \E ranked \in Rankings : Conclude(ranked, used', forfeited)
     /\ UNCHANGED <<moves, player, forfeited, builtin>>

(* The session has an outcome, or the limit of moves is reached.              *)
GameIsDecided ==
  /\ moves = Length \/ moves >= MaxMoves
  /\ UNCHANGED <<moves, player, waiting, used, forfeited, builtin>>
  /\ \E ranked \in Rankings : Conclude(ranked, used', forfeited)
  /\ UNCHANGED <<tasks, due, start, aborted, inbox, gone, sent, armed>>

ToPlay(s) == running /\ moves < Length /\ moves < MaxMoves /\ player = s
Spent(s) == Budget > 0 /\ used[s] >= Budget

BuiltinPlays(s) ==
  /\ ToPlay(s) /\ s \in builtin
  /\ UNCHANGED used
  /\ \/ Applied(s, "legal") /\ UNCHANGED <<waiting, timers, epoch>>
     \/ BuiltinsErr /\ Applied(s, "illegal") /\ UNCHANGED waiting
     \/ /\ BuiltinsErr /\ s \notin Range(forfeited)
        /\ Forfeit(s) /\ (Over(forfeited') \/ GoesOn)
        /\ UNCHANGED <<moves, player>>
  /\ UNCHANGED <<tasks, due, start, aborted, inbox, gone, sent, armed>>

(* A client that is gone, or has used up its time, forfeits at its turn.      *)
ClientCannotPlay(s) ==
  /\ ToPlay(s) /\ s \notin builtin
  /\ s \in gone \/ (waiting # s /\ Spent(s))
  /\ Forfeit(s) /\ (Over(forfeited') \/ GoesOn)
  /\ UNCHANGED <<tasks, due, start, aborted, moves, player, used, inbox, gone, sent, armed>>

(* It is told once per turn, before an action is looked for; the timer of its *)
(* turn is armed.                                                             *)
Due(s) == ToPlay(s) /\ s \notin builtin /\ s \notin gone
Ask(s) ==
  /\ Due(s) /\ waiting # s /\ ~Spent(s)
  /\ waiting' = s
  /\ epoch' = epoch + 1 /\ timers' = timers \cup {epoch + 1}
  /\ armed' = [e \in DOMAIN armed \cup {epoch + 1} |->
                 IF e = epoch + 1 THEN <<s, moves>> ELSE armed[e]]
  /\ UNCHANGED <<strand, due, life, moves, player, used, forfeited, builtin, concluded,
                 places, stored, clients>>

(* Nothing there yet: back when the observer or the deadline wakes the game.  *)
Wait(s) ==
  /\ Due(s) /\ waiting = s /\ inbox[s] = <<>>
  /\ running' = FALSE
  /\ UNCHANGED <<tasks, clock, life, game, clients, armed>>

CancelTurnTimer == timers' = timers \ {epoch} /\ epoch' = epoch + 1
ClientPlays(s) ==
  /\ Due(s) /\ waiting = s /\ inbox[s] # <<>>
  /\ inbox' = [inbox EXCEPT ![s] = Tail(@)]
  /\ \E t \in IF Budget > 0 /\ used[s] <= Budget THEN {0, 1} ELSE {0} :
       used' = [used EXCEPT ![s] = @ + t]
  /\ \/ /\ Applied(s, Head(inbox[s])) /\ Head(inbox[s]) = "legal"
        /\ waiting' = NoSeat
        /\ CancelTurnTimer
     \/ /\ Head(inbox[s]) = "illegal"
        /\ forfeited' = Append(forfeited, s)
        /\ IF Over(forfeited')
           THEN Conclude(Level, Level, forfeited') /\ waiting' = NoSeat /\ UNCHANGED builtin
           ELSE PlaysOn(s) /\ GoesOn
        /\ UNCHANGED <<moves, player>>
  /\ UNCHANGED <<tasks, due, start, aborted, gone, sent, armed>>

Round ==
  \/ running /\ GameIsDecided
  \/ \E s \in Seat : \/ BuiltinPlays(s) \/ ClientCannotPlay(s)
                     \/ Ask(s) \/ Wait(s) \/ ClientPlays(s)

-----------------------------------------------------------------------------
(* The strand takes its next task.                                           *)

Turns(do) == ~running /\ tasks # <<>> /\ Head(tasks).do = do /\ tasks' = Tail(tasks)

(* Begin does not ask whether the game was concluded before it began.  A      *)
(* client that cannot be told of the game is gone.                            *)
Begin ==
  /\ Turns("begin")
  /\ observed' = Remote
  /\ gone' = gone \cup over
  /\ running' = ~concluded
  /\ UNCHANGED <<clock, life, game, inbox, over, sent, armed>>

Step ==
  /\ Turns("step")
  /\ running' = ~concluded
  /\ UNCHANGED <<clock, life, game, clients, armed>>

AbortedTwice == TRUE                                                   \* slip
StillPlaying == ~concluded
Abort ==
  /\ Turns("abort")
  /\ IF StillPlaying
     THEN Conclude(Level, Level, forfeited) /\ UNCHANGED <<used, forfeited>>
     ELSE UNCHANGED <<concluded, timers, epoch, places, stored, observed, over, self,
                      running, used, forfeited>>
  /\ UNCHANGED <<due, start, aborted, moves, player, waiting, builtin, inbox, gone, sent, armed>>

(* Cancel is best effort: the epoch tells a timer that fired anyway.          *)
AnyEpoch(e) == ~concluded                                              \* slip
Current(e) == ~concluded /\ e = epoch
Deadline ==
  LET e == Head(tasks).epoch
  IN  /\ Turns("deadline")
      /\ IF Current(e) /\ waiting # NoSeat
         THEN /\ Forfeit(waiting) /\ (Over(forfeited') \/ GoesOn)
              /\ UNCHANGED used
         ELSE UNCHANGED <<concluded, timers, epoch, places, stored, observed, over, self,
                          running, used, forfeited, waiting, builtin>>
      /\ UNCHANGED <<due, start, aborted, moves, player, inbox, gone, sent, armed>>

Strand == Begin \/ Step \/ Abort \/ Deadline \/ Round

-----------------------------------------------------------------------------
(* The other threads.                                                        *)

(* Start, after the matchmaker has listed the game: first self_, then the     *)
(* task.  Abort reaches a listed game, started or not.                        *)
Own ==
  /\ start = "new" /\ start' = "owned" /\ self' = TRUE
  /\ UNCHANGED <<strand, clock, aborted, game, clients, armed>>
PostBegin ==
  /\ start = "owned" /\ start' = "posted"
  /\ tasks' = Posted(tasks, "begin", 0)
  /\ UNCHANGED <<running, clock, self, aborted, game, clients, armed>>
Shutdown ==
  /\ MayShutDown /\ ~aborted /\ aborted' = TRUE
  /\ tasks' = Posted(tasks, "abort", 0)
  /\ UNCHANGED <<running, clock, start, self, game, clients, armed>>

(* The timer thread pops an entry, and then runs it: it posts.                *)
PopTimer ==
  /\ \E e \in timers : timers' = timers \ {e} /\ due' = due \cup {e}
  /\ UNCHANGED <<strand, life, game, clients, armed>>
PostDeadline ==
  /\ \E e \in due : due' = due \ {e} /\ tasks' = Posted(tasks, "deadline", e)
  /\ UNCHANGED <<running, timers, life, game, clients, armed>>

(* PushAction: the freshest action is the useful one.                         *)
Freshest(q) == IF Len(q) > MaxInbox THEN Tail(q) ELSE q
PushAction(s) ==
  /\ s \in Remote \ gone /\ sent < MaxActions
  /\ sent' = sent + 1
  /\ \E action \in Actions : inbox' = [inbox EXCEPT ![s] = Freshest(Append(@, action))]
  /\ tasks' = Woken(tasks, s)
  /\ UNCHANGED <<running, clock, life, game, gone, observed, over, armed>>
Disconnect(s) ==
  /\ s \in Remote \ gone /\ gone' = gone \cup {s}
  /\ tasks' = Woken(tasks, s)
  /\ UNCHANGED <<running, clock, life, game, inbox, observed, over, sent, armed>>

Starting == Own \/ PostBegin
Timer == PopTimer \/ PostDeadline
Next ==
  \/ Strand \/ Starting \/ Timer \/ Shutdown
  \/ \E s \in Seat : PushAction(s) \/ Disconnect(s)

(* The pool's threads run the strand, the matchmaker's starts the game, the   *)
(* timer fires.  Clients owe nothing.                                         *)
Fairness == WF_vars(Strand) /\ WF_vars(Starting) /\ WF_vars(Timer)
SafetySpec == Init /\ [][Next]_vars
Spec == SafetySpec /\ Fairness

-----------------------------------------------------------------------------
(* Properties.                                                               *)

(* One record per game, whichever of the last move, the last forfeit, a       *)
(* deadline and the shutdown comes first, and nothing moves after it.         *)
EndsOnce ==
  /\ stored = (IF concluded THEN 1 ELSE 0)
  /\ concluded => ~running
EndIsFinal == [][concluded => UNCHANGED <<moves, player, forfeited, places, over>>]_vars

(* A deadline makes a seat forfeit only at the very turn it was armed for: it *)
(* never punishes a seat for the time of an earlier turn that it answered, or *)
(* for another seat's.                                                        *)
DeadlineIsFair ==
  [][Deadline /\ forfeited' # forfeited =>
       armed[Head(tasks).epoch] = <<Last(forfeited'), moves>>]_vars

(* Who forfeits is placed below everyone who did not, a later one above an    *)
(* earlier one, and only level seats share a place: the places are those of a *)
(* ranking, with as many seats before a place as its number says.             *)
ForfeitersRankLast ==
  places # <<>> =>
    /\ \A s, t \in Seat :
         s \notin Range(forfeited) /\ t \in Range(forfeited) => places[s] < places[t]
    /\ \A i, j \in DOMAIN forfeited : i < j /\ forfeited[i] # forfeited[j] =>
         places[forfeited[j]] < places[forfeited[i]]
    /\ \A s \in Seat : places[s] = Cardinality({t \in Seat : places[t] < places[s]})

(* However silent the clients are, a game that was started ends.              *)
GameEnds == <>concluded

(* game_run.h 84: "Keeps the game alive between events; released in           *)
(* Conclude()".                                                               *)
ReleasedInConclude == concluded /\ start = "posted" /\ tasks = <<>> => ~self

=============================================================================
