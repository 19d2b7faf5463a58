---------------------------- MODULE JobRunProofs ----------------------------
(***************************************************************************)
(* For any orders and any number of graded runs: what is read from a job   *)
(* is what its processes really did, so nobody is blamed for a build that  *)
(* a cancel or the clock ended, and an outcome without an error is one of  *)
(* a whole job.                                                            *)
(***************************************************************************)
EXTENDS JobRun, SequenceTheorems, WellFoundedInduction, TLAPS

-----------------------------------------------------------------------------
(* Jobs: what the k-th of n phases of an order can be.                       *)

Kinds == {"build", "grade", "match"}
Bare(p) == p.background = <<>> /\ p.foreground = p.name
Laid(o, k, n, p) ==
  /\ p.name \in {"build", "stash", "grade", "match"}
  /\ p.name = "build" <=> k = 1 /\ ~ o.prebuilt
  /\ p.name = "stash" => k = n /\ o.kind = "build"
  /\ p.name = "grade" => o.kind = "grade"
  /\ p.name = "match" =>
       /\ k = n /\ o.kind = "match"
       /\ p.foreground = (IF o.builtin THEN "referee" ELSE "bot")
  /\ p.name # "match" => Bare(p)
Alone(p) ==
  /\ p.background \in Seq({"referee"} \cup Range(OpponentSteps))
  /\ p.foreground \in Steps /\ \A i \in DOMAIN p.background : p.background[i] # p.foreground
  /\ IsInjective(p.background)

LEMMA OpponentsAre ==
  /\ OpponentSteps \in Seq(Range(OpponentSteps)) /\ Len(OpponentSteps) = 2
  /\ OpponentSteps[1] = "opponent" /\ OpponentSteps[2] = "opponent2"
  /\ Range(OpponentSteps) = {"opponent", "opponent2"}
  BY DEF OpponentSteps, Range

LEMMA MatchIsLaid ==
  ASSUME NEW o \in Orders
  PROVE  /\ MatchPhase(o).name = "match"
         /\ MatchPhase(o).foreground = (IF o.builtin THEN "referee" ELSE "bot")
         /\ Alone(MatchPhase(o))
<1>1. CASE o.builtin
  BY <1>1, OpponentsAre DEF MatchPhase, Phase, Alone, Steps, IsInjective
<1>2. CASE ~ o.builtin
  <2>1. PICK n : n = Len(o.rivals)
    OBVIOUS
  <2>a. n \in Nat /\ n <= 2
    <3>1. o.rivals \in Seq(Range(Rivals)) /\ Len(o.rivals) <= 2
      BY OpponentsAre, OrdersAssumption
    <3> QED
      BY <2>1, <3>1, LenProperties
  <2> DEFINE opponents == SubSeq(OpponentSteps, 1, n)
             all == <<"referee">> \o opponents
             S == {"referee"} \cup Range(OpponentSteps)
  <2>2. /\ opponents \in Seq(S) /\ Len(opponents) = n
        /\ \A i \in 1 .. n : opponents[i] = OpponentSteps[i]
    <3>0. \A i \in 1 .. n : i = 1 \/ i = 2
      BY <2>a
    <3>1. \A i \in 1 .. n : OpponentSteps[i] \in S
      BY <3>0, OpponentsAre
    <3>2. /\ SubSeq(OpponentSteps, 1, n) \in Seq(S)
          /\ Len(SubSeq(OpponentSteps, 1, n)) = IF 1 <= n THEN n - 1 + 1 ELSE 0
          /\ \A i \in 1 .. n - 1 + 1 : SubSeq(OpponentSteps, 1, n)[i] = OpponentSteps[1 + i - 1]
      <4> HIDE DEF S
      <4> QED
        BY <2>a, <3>1, SubSeqProperties
    <3>3. n - 1 + 1 = n /\ \A i \in 1 .. n : 1 + i - 1 = i
      BY <2>a
    <3> QED
      BY <2>a, <3>2, <3>3
  <2>3. /\ all \in Seq(S) /\ Len(all) = n + 1 /\ all[1] = "referee"
        /\ \A i \in 2 .. n + 1 : all[i] = OpponentSteps[i - 1]
    <3>1. <<"referee">> \in Seq(S) /\ Len(<<"referee">>) = 1 /\ <<"referee">>[1] = "referee"
      OBVIOUS
    <3> HIDE DEF S, opponents
    <3>2. /\ all \in Seq(S) /\ Len(all) = 1 + n
          /\ \A i \in 1 .. 1 + n : all[i] = IF i <= 1 THEN <<"referee">>[i] ELSE opponents[i - 1]
      BY <2>2, <3>1, ConcatProperties
    <3> QED
      BY <2>a, <2>2, <3>1, <3>2
  <2>4. DOMAIN all = 1 .. n + 1
    BY <2>3, LenProperties
  <2>5. IsInjective(all) /\ \A i \in DOMAIN all : all[i] # "bot"
    <3> HIDE DEF all
    <3>1. \A i \in DOMAIN all : i = 1 \/ i = 2 \/ i = 3
      BY <2>a, <2>4
    <3>2. /\ all[1] = "referee"
          /\ 2 \in DOMAIN all => all[2] = "opponent"
          /\ 3 \in DOMAIN all => all[3] = "opponent2"
      BY <2>3, <2>4, OpponentsAre
    <3> QED
      BY <3>1, <3>2 DEF IsInjective
  <2>6. MatchPhase(o) = [name |-> "match", background |-> all, foreground |-> "bot",
                        timed |-> "match" # "stash"]
    BY <1>2, <2>1 DEF MatchPhase, Phase
  <2>7. /\ MatchPhase(o).name = "match"
        /\ MatchPhase(o).background = all /\ MatchPhase(o).foreground = "bot"
    <3> HIDE DEF all
    <3> QED
      BY <2>6
  <2> HIDE DEF all
  <2> QED
    BY <1>2, <2>3, <2>5, <2>7 DEF Alone, Steps
<1> QED
  BY <1>1, <1>2

PhaseIsSound(o, k, n, p) == Laid(o, k, n, p) /\ Alone(p)

LEMMA BareIsAlone ==
  ASSUME NEW name \in {"build", "stash", "grade"}
  PROVE  /\ Phase(name, <<>>, name).name = name /\ Bare(Phase(name, <<>>, name))
         /\ Alone(Phase(name, <<>>, name))
  BY DEF Phase, Bare, Alone, Steps, IsInjective

LEMMA JobIsLaid ==
  ASSUME NEW o \in Orders
  PROVE  LET job == JobForOrder(o) IN
         /\ Len(job) \in 1 .. MaxPhases /\ DOMAIN job = 1 .. Len(job)
         /\ \A k \in 1 .. Len(job) : PhaseIsSound(o, k, Len(job), job[k])
<1> DEFINE first == IF o.prebuilt THEN <<>> ELSE <<Phase("build", <<>>, "build")>>
           rest == [build |-> <<Phase("stash", <<>>, "stash")>>,
                    grade |-> [run \in 1 .. RepeatsOf |-> Phase("grade", <<>>, "grade")],
                    match |-> <<MatchPhase(o)>>][o.kind]
           S == Range(first) \cup Range(rest)
           f == Len(first)
           r == Len(rest)
<1>1. o.kind \in Kinds /\ (o.prebuilt => o.kind = "match") /\ o.prebuilt \in BOOLEAN
  BY OrdersAssumption DEF Kinds
<1>2. RepeatsOf \in Nat /\ RepeatsOf >= 1
  BY RepeatsAssumption DEF RepeatsOf
<1>3. /\ f = (IF o.prebuilt THEN 0 ELSE 1) /\ DOMAIN first = 1 .. f
      /\ \A i \in 1 .. f : first[i] = Phase("build", <<>>, "build")
  <2>1. CASE o.prebuilt
    <3>1. first = <<>>
      BY <2>1
    <3> QED
      BY <2>1, <3>1
  <2>2. CASE ~ o.prebuilt
    <3>1. first = <<Phase("build", <<>>, "build")>>
      BY <2>2
    <3> QED
      BY <2>2, <3>1
  <2> QED
    BY <2>1, <2>2
<1>4. /\ r \in Nat \ {0} /\ DOMAIN rest = 1 .. r /\ r <= RepeatsOf
      /\ rest = [i \in 1 .. r |-> rest[i]]
      /\ o.kind = "build" => r = 1 /\ rest[1] = Phase("stash", <<>>, "stash")
      /\ o.kind = "match" => r = 1 /\ rest[1] = MatchPhase(o)
      /\ o.kind = "grade" => \A i \in 1 .. r : rest[i] = Phase("grade", <<>>, "grade")
  <2>1. CASE o.kind = "build"
    <3>1. rest = <<Phase("stash", <<>>, "stash")>>
      BY <2>1
    <3> QED
      BY <1>2, <2>1, <3>1
  <2>2. CASE o.kind = "match"
    <3>1. rest = <<MatchPhase(o)>>
      BY <2>2
    <3> QED
      BY <1>2, <2>2, <3>1
  <2>3. CASE o.kind = "grade"
    <3>1. rest = [run \in 1 .. RepeatsOf |-> Phase("grade", <<>>, "grade")]
      BY <2>3
    <3>2. rest \in Seq({Phase("grade", <<>>, "grade")}) /\ Len(rest) = RepeatsOf
      <4> HIDE DEF rest
      <4>1. Phase("grade", <<>>, "grade") \in {Phase("grade", <<>>, "grade")}
        OBVIOUS
      <4> HIDE DEF Phase
      <4> QED
        BY <1>2, <3>1, IsASeq
    <3>3. \A i \in 1 .. RepeatsOf : rest[i] = Phase("grade", <<>>, "grade")
      BY <3>1
    <3>4. DOMAIN rest = 1 .. RepeatsOf /\ rest = [i \in 1 .. RepeatsOf |-> rest[i]]
      BY <3>1
    <3> HIDE DEF rest
    <3> QED
      BY <1>2, <2>3, <3>2, <3>3, <3>4
  <2> QED
    BY <1>1, <2>1, <2>2, <2>3 DEF Kinds
<1> HIDE DEF first, rest
<1>5. first \in Seq(S) /\ rest \in Seq(S)
  <2>1. first = [i \in 1 .. f |-> first[i]] /\ rest = [i \in 1 .. r |-> rest[i]]
    <3>1. first = <<>> \/ first = <<Phase("build", <<>>, "build")>>
      BY DEF first
    <3>2. first = [i \in 1 .. f |-> first[i]]
      <4>1. CASE first = <<>>
        <5>1. <<>> = [i \in 1 .. 0 |-> <<>>[i]] /\ f = 0
          BY <4>1
        <5> QED
          BY <4>1, <5>1
      <4>2. CASE first = <<Phase("build", <<>>, "build")>>
        <5> DEFINE x == Phase("build", <<>>, "build")
        <5> HIDE DEF x
        <5>1. <<x>> = [i \in 1 .. 1 |-> <<x>>[i]] /\ Len(<<x>>) = 1
          OBVIOUS
        <5> QED
          BY <4>2, <5>1 DEF x
      <4> QED
        BY <3>1, <4>1, <4>2
    <3> QED
      BY <1>4, <3>2
  <2>2. f \in Nat /\ r \in Nat
    BY <1>1, <1>3, <1>4
  <2>3. (\A i \in 1 .. f : first[i] \in S) /\ (\A i \in 1 .. r : rest[i] \in S)
    BY <1>3, <1>4 DEF Range
  <2> HIDE DEF f, r, S
  <2>4. first \in [1 .. f -> S] /\ rest \in [1 .. r -> S]
    BY <2>1, <2>3
  <2> QED
    BY <2>2, <2>4, SeqDef
<1> DEFINE job == first \o rest
<1>6. JobForOrder(o) = job
  BY DEF JobForOrder, first, rest
<1> HIDE DEF S
<1>7. /\ job \in Seq(S) /\ Len(job) = f + r
      /\ \A i \in 1 .. f + r : job[i] = IF i <= f THEN first[i] ELSE rest[i - f]
  BY <1>5, ConcatProperties
<1>8. f \in {0, 1} /\ (f = 0 <=> o.prebuilt)
  BY <1>1, <1>3
<1> HIDE DEF f, r, job
<1>9. Len(job) \in 1 .. MaxPhases /\ DOMAIN job = 1 .. Len(job)
  BY <1>2, <1>4, <1>7, <1>8, LenProperties DEF MaxPhases
<1>10. ASSUME NEW k \in 1 .. Len(job)
       PROVE  PhaseIsSound(o, k, Len(job), job[k])
  <2>1. CASE k <= f
    <3>1. k = 1 /\ ~ o.prebuilt /\ job[k] = Phase("build", <<>>, "build")
      BY <1>3, <1>4, <1>7, <1>8, <2>1
    <3> QED
      BY <3>1, BareIsAlone DEF PhaseIsSound, Laid
  <2>2. CASE k > f
    <3>0. k \in 1 .. f + r /\ f \in Nat /\ r \in Nat
      BY <1>4, <1>7, <1>8
    <3>1. job[k] = rest[k - f] /\ k - f \in 1 .. r /\ (k = 1 => o.prebuilt)
      <4>1. ~ (k <= f) /\ k - f \in 1 .. r
        BY <2>2, <3>0
      <4>2. k = 1 => f = 0
        BY <1>8, <2>2, <3>0
      <4> QED
        BY <1>7, <1>8, <3>0, <4>1, <4>2
    <3>2. CASE o.kind = "build"
      <4>0. r = 1 /\ rest[1] = Phase("stash", <<>>, "stash") /\ ~ o.prebuilt
        BY <1>1, <1>4, <3>2
      <4>1. job[k] = Phase("stash", <<>>, "stash") /\ k = Len(job) /\ ~ o.prebuilt
        BY <1>7, <1>8, <3>0, <3>1, <4>0
      <4> QED
        BY <3>1, <3>2, <4>1, BareIsAlone DEF PhaseIsSound, Laid
    <3>3. CASE o.kind = "match"
      <4>1. job[k] = MatchPhase(o) /\ k = Len(job)
        BY <1>4, <1>7, <1>8, <3>1, <3>3
      <4> QED
        BY <3>1, <3>3, <4>1, MatchIsLaid DEF PhaseIsSound, Laid
    <3>4. CASE o.kind = "grade"
      <4>1. job[k] = Phase("grade", <<>>, "grade")
        BY <1>4, <3>1, <3>4
      <4> QED
        BY <1>1, <3>1, <3>4, <4>1, BareIsAlone DEF PhaseIsSound, Laid
    <3> QED
      BY <1>1, <3>2, <3>3, <3>4 DEF Kinds
  <2> QED
    BY <1>4, <1>8, <2>1, <2>2
<1> QED
  BY <1>6, <1>9, <1>10

-----------------------------------------------------------------------------
(* The inductive invariant.                                                  *)

InPhase == {"background", "track", "port", "trackForeground", "foreground", "untrack", "drain"}
Returned == {"archive", "ended"}
Stages == {"prepare", "phase", "finish"} \cup InPhase \cup Returned
Ends == {"nobody", "itself", "timeout", "engine", "cancel"}
Words == {Candidate, "RESULT"} \cup Range(Rivals)
Failures == {"WORKSPACE_FAILED", "START_FAILED", "ENDPOINT_FAILED", "CANCELLED"}

Background(k) == Job[k].background
Fore(k) == <<k, Job[k].foreground>>
StepsOf(k) == Range(Background(k)) \cup {Job[k].foreground}

Types ==
  /\ order \in Orders /\ pc \in Stages
  /\ phase \in 0 .. Len(Job) /\ next \in Nat \ {0}
  /\ proc \in [Processes -> {"none", "alive", "gone"}]
  /\ end \in [Processes -> [code : Nat, said : SUBSET Words, by : Ends]]
  /\ scratch \in [Files -> Contents]
  /\ running \subseteq Processes /\ groups \subseteq Processes /\ cancelled \in BOOLEAN
  /\ canceller \in {"idle", "killing", "done"}
  /\ status \in {"OK"} \cup Failures

(* Where the thread is, and what of the phase it has started.                *)
Placed ==
  /\ pc = "prepare" => /\ phase = 0 /\ \A p \in Processes : proc[p] = "none"
  /\ pc \in {"prepare"} \cup Returned => running = {}
  /\ pc = "phase" => phase < Len(Job)
  /\ pc \in InPhase \cup {"finish"} => phase >= 1
  /\ status # "OK" => pc \in {"finish"} \cup Returned
  /\ status = "OK" /\ pc \in Returned => phase >= 1
  /\ pc \in {"track", "port"} => next <= Len(Background(phase))
  /\ Len(result) = phase /\ DOMAIN result = 1 .. phase
  /\ \A k \in 1 .. phase : result[k].name = Job[k].name

Waits(i) == \/ pc = "background" /\ i >= next
            \/ pc \in {"track", "port"} /\ i > next
Begun == phase >= 1 =>
  /\ \A i \in DOMAIN Background(phase) :
       /\ pc \in InPhase /\ Waits(i) => proc[<<phase, Background(phase)[i]>>] = "none"
       /\ pc = "drain" /\ i < next => proc[<<phase, Background(phase)[i]>>] = "gone"
  /\ pc \in {"background", "track", "port"} => proc[Fore(phase)] = "none"
  /\ pc \in {"untrack", "drain"} => proc[Fore(phase)] = "gone"

(* What became of a process, and how it ended.                               *)
Code(by) == CASE by = "timeout" -> 124 [] by = "engine" -> 143 [] OTHER -> 137
Traced(p) ==
  /\ proc[p] # "none" => p[1] \in 1 .. phase /\ p[2] \in StepsOf(p[1])
  /\ proc[p] = "alive" => p[1] = phase /\ pc \in InPhase
  /\ proc[p] = "gone" <=> end[p].by # "nobody"
  /\ end[p].by \in {"timeout", "engine", "cancel"} => end[p].code = Code(end[p].by)
(* What a cancel killed is marked until it is reported; what the engine       *)
(* stopped belongs to a phase that failed.                                    *)
Excused(p) ==
  /\ end[p].by = "engine" => status # "OK"
  /\ end[p].by = "cancel" => status # "OK" \/ (cancelled /\ pc \notin Returned)
Traces == \A p \in Processes : Traced(p) /\ Excused(p)
Marked == canceller = "killing" /\ pc \notin Returned => cancelled /\ pc # "prepare"

(* The results of a phase are those of its processes, and these are over.     *)
Tells(p, r) ==
  /\ proc[p] = "gone"
  /\ r.started /\ r.code = end[p].code /\ r.timedOut = (end[p].by = "timeout")
Whole(k) ==
  /\ DOMAIN result[k].steps = StepsOf(k)
  /\ \A s \in StepsOf(k) : Tells(<<k, s>>, result[k].steps[s])
Passed(k) == end[Fore(k)].code = 0
IsOver(k) ==
  \/ k < phase \/ pc = "phase"
  \/ pc \in {"finish"} \cup Returned /\ status = "OK"
Results ==
  /\ \A k \in 1 .. phase : IsOver(k) => Whole(k)
  /\ \A k \in 1 .. phase : k < phase \/ pc = "phase" => Passed(k)
  /\ pc \in {"finish"} \cup Returned /\ status = "OK" /\ phase < Len(Job) => ~ Passed(phase)

(* The outcome, as soon as it is there.                                       *)
BlamesRightly == outcome.blame # "nobody" => end[<<1, "build">>].by = "itself"
ReportsRightly ==
  outcome.error = "" /\ outcome.blame = "nobody" =>
    /\ Len(result) = Len(Job)
    /\ \A k \in 1 .. Len(Job) : ~ ReadByFiles(Job[k]) =>
         end[Fore(k)].by = "itself" /\ (Job[k].name # "match" => Passed(k))
Reports == pc \in Returned =>
  DOMAIN outcome = DOMAIN Outcome /\ BlamesRightly /\ ReportsRightly

RunInv == Types /\ Placed /\ Begun /\ Traces /\ Marked /\ Results
FullInv == RunInv /\ Reports

-----------------------------------------------------------------------------
LEMMA InJob ==
  ASSUME order \in Orders
  PROVE  /\ Len(Job) \in 1 .. MaxPhases /\ DOMAIN Job = 1 .. Len(Job)
         /\ \A k \in 1 .. Len(Job) :
              /\ PhaseIsSound(order, k, Len(Job), Job[k])
              /\ DOMAIN Background(k) = 1 .. Len(Background(k)) /\ Len(Background(k)) \in Nat
              /\ Fore(k) \in Processes /\ StepsOf(k) \subseteq Steps
              /\ \A i \in DOMAIN Background(k) :
                   /\ <<k, Background(k)[i]>> \in Processes /\ Background(k)[i] \in StepsOf(k)
                   /\ <<k, Background(k)[i]>> # Fore(k)
                   /\ \A j \in DOMAIN Background(k) :
                        Background(k)[i] = Background(k)[j] => i = j
<1>1. /\ Len(Job) \in 1 .. MaxPhases /\ DOMAIN Job = 1 .. Len(Job)
      /\ \A k \in 1 .. Len(Job) : PhaseIsSound(order, k, Len(Job), Job[k])
  BY JobIsLaid DEF Job
<1>2. MaxPhases \in Nat
  BY RepeatsAssumption DEF MaxPhases, RepeatsOf
<1>3. ASSUME NEW k \in 1 .. Len(Job)
      PROVE  /\ DOMAIN Background(k) = 1 .. Len(Background(k)) /\ Len(Background(k)) \in Nat
             /\ Fore(k) \in Processes /\ StepsOf(k) \subseteq Steps
             /\ \A i \in DOMAIN Background(k) :
                  /\ <<k, Background(k)[i]>> \in Processes /\ Background(k)[i] \in StepsOf(k)
                  /\ <<k, Background(k)[i]>> # Fore(k)
                  /\ \A j \in DOMAIN Background(k) :
                       Background(k)[i] = Background(k)[j] => i = j
  <2>1. Alone(Job[k]) /\ k \in 1 .. MaxPhases
    BY <1>1, <1>2 DEF PhaseIsSound
  <2>2. {"referee"} \cup Range(OpponentSteps) \subseteq Steps
    BY DEF Steps
  <2>3. /\ DOMAIN Background(k) = 1 .. Len(Background(k)) /\ Len(Background(k)) \in Nat
        /\ \A i \in DOMAIN Background(k) : Background(k)[i] \in Steps
    BY <2>1, <2>2, LenProperties, ElementOfSeq DEF Alone, Background
  <2>4. StepsOf(k) \subseteq Steps
    BY <2>1, <2>3 DEF StepsOf, Range, Alone, Background
  <2> QED
    BY <2>1, <2>3, <2>4 DEF Alone, Background, Fore, StepsOf, Range, Processes,
       IsInjective
<1> QED
  BY <1>1, <1>3

(* What is over stays as it was reported.                                    *)
Kept == \A p \in Processes : proc[p] = "gone" => proc'[p] = "gone" /\ end'[p] = end[p]

LEMMA WholeStays ==
  ASSUME RunInv, Kept, order' = order, result' = result,
         NEW k \in 1 .. Len(Job), Whole(k)
  PROVE  /\ Whole(k)' /\ Passed(k)' = Passed(k) /\ proc[Fore(k)] = "gone"
         /\ end'[Fore(k)] = end[Fore(k)]
<1>1. Job' = Job /\ StepsOf(k)' = StepsOf(k) /\ Fore(k)' = Fore(k)
  BY DEF Job, StepsOf, Background, Fore
<1>2. StepsOf(k) \subseteq Steps /\ Fore(k) \in Processes /\ k \in 1 .. MaxPhases
  <2>1. MaxPhases \in Nat
    BY RepeatsAssumption DEF MaxPhases, RepeatsOf
  <2> QED
    BY <2>1, InJob DEF RunInv, Types
<1>3. ASSUME NEW s \in StepsOf(k)
      PROVE  Tells(<<k, s>>, result[k].steps[s])'
  <2>1. <<k, s>> \in Processes
    BY <1>2 DEF Processes
  <2> DEFINE p == <<k, s>>
             r == result[k].steps[s]
  <2>2. Tells(p, r)
    BY DEF Whole
  <2> HIDE DEF p, r
  <2>3. proc[p] = "gone" /\ proc'[p] = "gone" /\ end'[p] = end[p]
    BY <2>1, <2>2 DEF Kept, Tells, p
  <2>4. Tells(p, r)' <=> Tells(p, r)
    <3>1. r' = r /\ p' = p
      BY DEF r, p
    <3> QED
      BY <2>3, <3>1 DEF Tells
  <2> QED
    BY <2>2, <2>4 DEF p, r
<1>4. proc[Fore(k)] = "gone"
  <2>1. Job[k].foreground \in StepsOf(k)
    BY DEF StepsOf
  <2> QED
    BY <2>1 DEF Whole, Tells, Fore
<1> QED
  BY <1>1, <1>2, <1>3, <1>4 DEF Whole, Passed, Kept

LEMMA ResultsStay ==
  ASSUME RunInv, Kept, order' = order, result' = result, phase' = phase, pc \in InPhase,
         pc' \in InPhase
  PROVE  Results'
<1>1. Job' = Job /\ Len(Job) \in Nat /\ phase \in 0 .. Len(Job)
  BY InJob DEF RunInv, Types, Job
<1>2. \A k \in 1 .. phase : k < phase => Whole(k) /\ Passed(k)
  BY DEF RunInv, Results, IsOver
<1>3. \A k \in 1 .. phase : k < phase => Whole(k)' /\ Passed(k)'
  BY <1>1, <1>2, WholeStays
<1> QED
  BY <1>3 DEF Results, IsOver, InPhase, Returned

LEMMA PrepareKeeps ==
  ASSUME RunInv, Prepare
  PROVE  RunInv'
<1>a. /\ Len(Job) \in 1 .. MaxPhases /\ phase \in 0 .. Len(Job) /\ order \in Orders
      /\ order' = order /\ Job' = Job
  BY InJob DEF RunInv, Types, Prepare, procVars, cancelVars, resultVars, Job
<1>1. Types'
  BY <1>a DEF RunInv, Types, Placed, Stages, InPhase, Returned, Failures, Prepare,
     procVars,
     cancelVars, resultVars
<1>2. Placed'
  BY <1>a DEF RunInv, Types, Placed, InPhase, Returned, Prepare, procVars, cancelVars,
     resultVars
<1>3. Begun'
  BY <1>a DEF RunInv, Types, Placed, Begun, Waits, InPhase, Background, Fore, Prepare,
     procVars, cancelVars, resultVars
<1>4. Traces'
  BY <1>a DEF RunInv, Types, Placed, Traces, Traced, Excused, InPhase, Returned, StepsOf,
     Background, Prepare, procVars, cancelVars, resultVars
<1>5. Marked'
  BY <1>a DEF RunInv, Types, Marked, Placed, Returned, Prepare, procVars, cancelVars,
     resultVars
<1>7. Results'
  BY <1>a DEF RunInv, Types, Placed, Results, IsOver, Whole, Tells, Passed, Fore, StepsOf,
     Background, InPhase, Returned, Prepare, procVars, cancelVars, resultVars
<1> QED
  BY <1>1, <1>2, <1>3, <1>4, <1>5, <1>7 DEF RunInv


LEMMA StartPhaseKeeps ==
  ASSUME RunInv, StartPhase
  PROVE  RunInv'
<1>a. /\ Len(Job) \in 1 .. MaxPhases /\ phase \in 0 .. Len(Job) /\ order \in Orders
      /\ order' = order /\ Job' = Job
  BY InJob DEF RunInv, Types, StartPhase, procVars, cancelVars, resultVars, Job
<1> DEFINE k == phase + 1
<1>b. phase' = k /\ k \in 1 .. Len(Job) /\ k \notin 1 .. phase
  BY <1>a DEF RunInv, Types, Placed, StartPhase
<1> HIDE DEF k
<1>c. \A s \in StepsOf(k) : proc[<<k, s>>] = "none"
  <2>1. \A s \in StepsOf(k) : <<k, s>> \in Processes
    <3>1. StepsOf(k) \subseteq Steps /\ Len(Job) \in 1 .. MaxPhases
      BY <1>a, <1>b, InJob
    <3>2. MaxPhases \in Nat
      BY RepeatsAssumption DEF MaxPhases, RepeatsOf
    <3> QED
      BY <1>b, <3>1, <3>2 DEF Processes
  <2> QED
    BY <1>a, <1>b, <2>1 DEF RunInv, Types, Traces, Traced
<1>1. Types'
  BY <1>a DEF RunInv, Types, Placed, Stages, InPhase, Returned, Failures, StartPhase,
     procVars, cancelVars, resultVars
<1>2. Placed'
  BY <1>a DEF RunInv, Types, Placed, InPhase, Returned, StartPhase, procVars, cancelVars,
     resultVars
<1>3. Begun'
  <2>1. /\ \A i \in DOMAIN Background(k) : Background(k)[i] \in StepsOf(k)
        /\ Job[k].foreground \in StepsOf(k)
    BY DEF StepsOf, Range
  <2>2. /\ proc' = proc /\ pc' = "background"
        /\ Background(phase)' = Background(k) /\ Fore(phase)' = <<k, Job[k].foreground>>
    BY <1>a, <1>b DEF StartPhase, procVars, Background, Fore
  <2> QED
    BY <1>b, <1>c, <2>1, <2>2 DEF Begun
<1>4. Traces'
  BY <1>a DEF RunInv, Types, Placed, Traces, Traced, Excused, InPhase, Returned, StepsOf,
     Background, StartPhase, procVars, cancelVars, resultVars
<1>5. Marked'
  BY <1>a DEF RunInv, Types, Marked, Placed, Returned, StartPhase, procVars, cancelVars,
     resultVars
<1>7. Results'
  BY <1>a DEF RunInv, Types, Placed, Results, IsOver, Whole, Tells, Passed, Fore, StepsOf,
     Background, InPhase, Returned, StartPhase, procVars, cancelVars, resultVars
<1> QED
  BY <1>1, <1>2, <1>3, <1>4, <1>5, <1>7 DEF RunInv


LEMMA StartBackgroundKeeps ==
  ASSUME RunInv, StartBackground
  PROVE  RunInv'
<1>a. /\ Len(Job) \in 1 .. MaxPhases /\ phase \in 0 .. Len(Job) /\ order \in Orders
      /\ order' = order /\ Job' = Job
  BY InJob DEF RunInv, Types, StartBackground, procVars, cancelVars, resultVars, Job
<1>b. /\ phase \in 1 .. Len(Job) /\ Fore(phase) \in Processes
      /\ DOMAIN Background(phase) = 1 .. Len(Background(phase))
      /\ Len(Background(phase)) \in Nat
      /\ \A i \in DOMAIN Background(phase) :
           /\ <<phase, Background(phase)[i]>> \in Processes
           /\ Background(phase)[i] \in StepsOf(phase)
           /\ <<phase, Background(phase)[i]>> # Fore(phase)
           /\ \A j \in DOMAIN Background(phase) :
                Background(phase)[i] = Background(phase)[j] => i = j
  BY <1>a, InJob DEF RunInv, Types, Placed, InPhase, StartBackground
<1> DEFINE c == <<phase, Background(phase)[next]>>
<1>i. next \in DOMAIN Background(phase)
  BY <1>b DEF RunInv, Types, Placed, Now, Background, StartBackground
<1>c. /\ c \in Processes /\ c[1] = phase /\ c[2] \in StepsOf(phase) /\ c # Fore(phase)
      /\ \A i \in DOMAIN Background(phase) : i # next => <<phase, Background(phase)[i]>> # c
  BY <1>b, <1>i
<1>d. proc' = [proc EXCEPT ![c] = "alive"] /\ end' = end /\ scratch' = scratch
  BY DEF StartBackground, Start, Process, Now, Background, Fore
<1>e. proc[c] = "none"
  <2>1. pc = "background" /\ phase >= 1 /\ next >= next
    BY <1>b DEF StartBackground, RunInv, Types
  <2> QED
    BY <1>i, <2>1 DEF RunInv, Begun, Waits, InPhase
<1> HIDE DEF c
<1>f. Len(Now.background) = Len(Background(phase))
  BY DEF Now, Background
<1>j. Background(phase)' = Background(phase) /\ Fore(phase)' = Fore(phase)
  BY <1>a DEF Background, Fore, StartBackground, procVars, cancelVars, resultVars
<1>k. Kept
  BY <1>c, <1>d, <1>e, <1>f DEF Kept, StartBackground, procVars, cancelVars, resultVars
<1>1. Types'
  BY <1>a, <1>b, <1>c, <1>d, <1>e, <1>f, <1>i DEF RunInv, Types, Placed, Stages, InPhase,
     Returned, Failures, StartBackground, procVars, cancelVars, resultVars
<1>2. Placed'
  BY <1>a, <1>j, <1>b, <1>c, <1>d, <1>e, <1>f, <1>i DEF RunInv, Types, Placed, InPhase,
     Returned, StartBackground, procVars, cancelVars, resultVars
<1>3. Begun'
  BY <1>a, <1>j, <1>b, <1>c, <1>d, <1>e, <1>f, <1>i DEF RunInv, Types, Placed, Begun,
     Waits,
     InPhase, StartBackground, procVars, cancelVars, resultVars
<1>4. Traces'
  BY <1>a, <1>b, <1>c, <1>d, <1>e, <1>f, <1>i DEF RunInv, Types, Placed, Traces, Traced,
     Excused, InPhase, Returned, StepsOf, Background, StartBackground, procVars, cancelVars,
     resultVars
<1>5. Marked'
  BY <1>a, <1>b, <1>c, <1>d, <1>e, <1>f, <1>i DEF RunInv, Types, Marked, Placed, Returned,
     StartBackground, procVars, cancelVars, resultVars
<1>7. Results'
  BY <1>k, <1>a, ResultsStay DEF InPhase, StartBackground, procVars, cancelVars,
     resultVars
<1> QED
  BY <1>1, <1>2, <1>3, <1>4, <1>5, <1>7 DEF RunInv


LEMMA TrackBackgroundKeeps ==
  ASSUME RunInv, TrackBackground
  PROVE  RunInv'
<1>a. /\ Len(Job) \in 1 .. MaxPhases /\ phase \in 0 .. Len(Job) /\ order \in Orders
      /\ order' = order /\ Job' = Job
  BY InJob DEF RunInv, Types, TrackBackground, procVars, cancelVars, resultVars, Job
<1>b. /\ phase \in 1 .. Len(Job) /\ Fore(phase) \in Processes
      /\ DOMAIN Background(phase) = 1 .. Len(Background(phase))
      /\ Len(Background(phase)) \in Nat
      /\ \A i \in DOMAIN Background(phase) :
           /\ <<phase, Background(phase)[i]>> \in Processes
           /\ Background(phase)[i] \in StepsOf(phase)
           /\ <<phase, Background(phase)[i]>> # Fore(phase)
           /\ \A j \in DOMAIN Background(phase) :
                Background(phase)[i] = Background(phase)[j] => i = j
  BY <1>a, InJob DEF RunInv, Types, Placed, InPhase, TrackBackground
<1> DEFINE c == <<phase, Background(phase)[next]>>
<1>i. next \in DOMAIN Background(phase)
  BY <1>b DEF RunInv, Types, Placed, Now, Background, TrackBackground
<1>c. /\ c \in Processes /\ c[1] = phase /\ c[2] \in StepsOf(phase) /\ c # Fore(phase)
      /\ \A i \in DOMAIN Background(phase) : i # next => <<phase, Background(phase)[i]>> # c
  BY <1>b, <1>i
<1>d. running' = running \cup {c}
  BY DEF TrackBackground, Process, Now, Background
<1>e. Now.background[next] = Background(phase)[next]
  BY DEF Now, Background
<1> HIDE DEF c
<1>j. Background(phase)' = Background(phase) /\ Fore(phase)' = Fore(phase)
  BY <1>a DEF Background, Fore, TrackBackground, procVars, cancelVars, resultVars
<1>k. Kept
  BY <1>c, <1>d, <1>e DEF Kept, TrackBackground, procVars, cancelVars, resultVars
<1>1. Types'
  BY <1>a, <1>b, <1>c, <1>d, <1>e, <1>i DEF RunInv, Types, Placed, Stages, InPhase,
     Returned, Failures, TrackBackground, procVars, cancelVars, resultVars
<1>2. Placed'
  BY <1>a, <1>j, <1>b, <1>c, <1>d, <1>e, <1>i DEF RunInv, Types, Placed, InPhase,
     Returned,
     TrackBackground, procVars, cancelVars, resultVars
<1>3. Begun'
  BY <1>a, <1>j, <1>b, <1>c, <1>d, <1>e, <1>i DEF RunInv, Types, Placed, Begun, Waits,
     InPhase, TrackBackground, procVars, cancelVars, resultVars
<1>4. Traces'
  BY <1>a, <1>b, <1>c, <1>d, <1>e, <1>i DEF RunInv, Types, Placed, Traces, Traced,
     Excused,
     InPhase, Returned, StepsOf, Background, TrackBackground, procVars, cancelVars,
     resultVars
<1>5. Marked'
  BY <1>a, <1>b, <1>c, <1>d, <1>e, <1>i DEF RunInv, Types, Marked, Placed, Returned,
     TrackBackground, procVars, cancelVars, resultVars
<1>7. Results'
  BY <1>k, <1>a, ResultsStay DEF InPhase, TrackBackground, procVars, cancelVars,
     resultVars
<1> QED
  BY <1>1, <1>2, <1>3, <1>4, <1>5, <1>7 DEF RunInv


LEMMA PortFoundKeeps ==
  ASSUME RunInv, PortFound
  PROVE  RunInv'
<1>a. /\ Len(Job) \in 1 .. MaxPhases /\ phase \in 0 .. Len(Job) /\ order \in Orders
      /\ order' = order /\ Job' = Job
  BY InJob DEF RunInv, Types, PortFound, procVars, cancelVars, resultVars, Job
<1>b. /\ phase \in 1 .. Len(Job) /\ Fore(phase) \in Processes
      /\ DOMAIN Background(phase) = 1 .. Len(Background(phase))
      /\ Len(Background(phase)) \in Nat
      /\ \A i \in DOMAIN Background(phase) :
           /\ <<phase, Background(phase)[i]>> \in Processes
           /\ Background(phase)[i] \in StepsOf(phase)
           /\ <<phase, Background(phase)[i]>> # Fore(phase)
           /\ \A j \in DOMAIN Background(phase) :
                Background(phase)[i] = Background(phase)[j] => i = j
  BY <1>a, InJob DEF RunInv, Types, Placed, InPhase, PortFound
<1>j. Background(phase)' = Background(phase) /\ Fore(phase)' = Fore(phase)
  BY <1>a DEF Background, Fore, PortFound, procVars, cancelVars, resultVars
<1>k. Kept
  BY <1>b DEF Kept, PortFound, procVars, cancelVars, resultVars
<1>1. Types'
  BY <1>a, <1>b DEF RunInv, Types, Placed, Stages, InPhase, Returned, Failures, PortFound,
     procVars, cancelVars, resultVars
<1>2. Placed'
  BY <1>a, <1>j, <1>b DEF RunInv, Types, Placed, InPhase, Returned, PortFound, procVars,
     cancelVars, resultVars
<1>3. Begun'
  BY <1>a, <1>j, <1>b DEF RunInv, Types, Placed, Begun, Waits, InPhase, PortFound,
     procVars,
     cancelVars, resultVars
<1>4. Traces'
  BY <1>a, <1>b DEF RunInv, Types, Placed, Traces, Traced, Excused, InPhase, Returned,
     StepsOf, Background, PortFound, procVars, cancelVars, resultVars
<1>5. Marked'
  BY <1>a, <1>b DEF RunInv, Types, Marked, Placed, Returned, PortFound, procVars,
     cancelVars, resultVars
<1>7. Results'
  BY <1>k, <1>a, ResultsStay DEF InPhase, PortFound, procVars, cancelVars, resultVars
<1> QED
  BY <1>1, <1>2, <1>3, <1>4, <1>5, <1>7 DEF RunInv


LEMMA StartForegroundKeeps ==
  ASSUME RunInv, StartForeground
  PROVE  RunInv'
<1>a. /\ Len(Job) \in 1 .. MaxPhases /\ phase \in 0 .. Len(Job) /\ order \in Orders
      /\ order' = order /\ Job' = Job
  BY InJob DEF RunInv, Types, StartForeground, procVars, cancelVars, resultVars, Job
<1>b. /\ phase \in 1 .. Len(Job) /\ Fore(phase) \in Processes
      /\ DOMAIN Background(phase) = 1 .. Len(Background(phase))
      /\ Len(Background(phase)) \in Nat
      /\ \A i \in DOMAIN Background(phase) :
           /\ <<phase, Background(phase)[i]>> \in Processes
           /\ Background(phase)[i] \in StepsOf(phase)
           /\ <<phase, Background(phase)[i]>> # Fore(phase)
           /\ \A j \in DOMAIN Background(phase) :
                Background(phase)[i] = Background(phase)[j] => i = j
  BY <1>a, InJob DEF RunInv, Types, Placed, InPhase, StartForeground
<1> DEFINE c == Fore(phase)
<1>c. /\ c \in Processes /\ c[1] = phase /\ c[2] \in StepsOf(phase)
      /\ \A i \in DOMAIN Background(phase) : <<phase, Background(phase)[i]>> # c
  BY <1>b DEF Fore, StepsOf
<1>d. proc' = [proc EXCEPT ![c] = "alive"] /\ end' = end /\ scratch' = scratch
  BY DEF StartForeground, Start, Process, Now, Background, Fore
<1>e. proc[c] = "none"
  BY <1>b DEF RunInv, Types, Begun, StartForeground
<1> HIDE DEF c
<1>f. Len(Now.background) = Len(Background(phase))
  BY DEF Now, Background
<1>j. Background(phase)' = Background(phase) /\ Fore(phase)' = Fore(phase)
  BY <1>a DEF Background, Fore, StartForeground, procVars, cancelVars, resultVars
<1>k. Kept
  BY <1>c, <1>d, <1>e, <1>f DEF Kept, StartForeground, procVars, cancelVars, resultVars
<1>1. Types'
  BY <1>a, <1>b, <1>c, <1>d, <1>e, <1>f DEF RunInv, Types, Placed, Stages, InPhase,
     Returned, Failures, StartForeground, procVars, cancelVars, resultVars
<1>2. Placed'
  BY <1>a, <1>j, <1>b, <1>c, <1>d, <1>e, <1>f DEF RunInv, Types, Placed, InPhase,
     Returned,
     StartForeground, procVars, cancelVars, resultVars
<1>3. Begun'
  BY <1>a, <1>j, <1>b, <1>c, <1>d, <1>e, <1>f DEF RunInv, Types, Placed, Begun, Waits,
     InPhase, StartForeground, procVars, cancelVars, resultVars
<1>4. Traces'
  BY <1>a, <1>b, <1>c, <1>d, <1>e, <1>f DEF RunInv, Types, Placed, Traces, Traced,
     Excused,
     InPhase, Returned, StepsOf, Background, StartForeground, procVars, cancelVars,
     resultVars
<1>5. Marked'
  BY <1>a, <1>b, <1>c, <1>d, <1>e, <1>f DEF RunInv, Types, Marked, Placed, Returned,
     StartForeground, procVars, cancelVars, resultVars
<1>7. Results'
  BY <1>k, <1>a, ResultsStay DEF InPhase, StartForeground, procVars, cancelVars,
     resultVars
<1> QED
  BY <1>1, <1>2, <1>3, <1>4, <1>5, <1>7 DEF RunInv


LEMMA TrackForegroundKeeps ==
  ASSUME RunInv, TrackForeground
  PROVE  RunInv'
<1>a. /\ Len(Job) \in 1 .. MaxPhases /\ phase \in 0 .. Len(Job) /\ order \in Orders
      /\ order' = order /\ Job' = Job
  BY InJob DEF RunInv, Types, TrackForeground, procVars, cancelVars, resultVars, Job
<1>b. /\ phase \in 1 .. Len(Job) /\ Fore(phase) \in Processes
      /\ DOMAIN Background(phase) = 1 .. Len(Background(phase))
      /\ Len(Background(phase)) \in Nat
      /\ \A i \in DOMAIN Background(phase) :
           /\ <<phase, Background(phase)[i]>> \in Processes
           /\ Background(phase)[i] \in StepsOf(phase)
           /\ <<phase, Background(phase)[i]>> # Fore(phase)
           /\ \A j \in DOMAIN Background(phase) :
                Background(phase)[i] = Background(phase)[j] => i = j
  BY <1>a, InJob DEF RunInv, Types, Placed, InPhase, TrackForeground
<1> DEFINE c == Fore(phase)
<1>c. /\ c \in Processes /\ c[1] = phase /\ c[2] \in StepsOf(phase)
      /\ \A i \in DOMAIN Background(phase) : <<phase, Background(phase)[i]>> # c
  BY <1>b DEF Fore, StepsOf
<1>d. running' = running \cup {c}
  BY DEF TrackForeground, Process, Now, Fore
<1> HIDE DEF c
<1>j. Background(phase)' = Background(phase) /\ Fore(phase)' = Fore(phase)
  BY <1>a DEF Background, Fore, TrackForeground, procVars, cancelVars, resultVars
<1>k. Kept
  BY <1>c, <1>d DEF Kept, TrackForeground, procVars, cancelVars, resultVars
<1>1. Types'
  BY <1>a, <1>b, <1>c, <1>d DEF RunInv, Types, Placed, Stages, InPhase, Returned,
     Failures,
     TrackForeground, procVars, cancelVars, resultVars
<1>2. Placed'
  BY <1>a, <1>j, <1>b, <1>c, <1>d DEF RunInv, Types, Placed, InPhase, Returned,
     TrackForeground, procVars, cancelVars, resultVars
<1>3. Begun'
  BY <1>a, <1>j, <1>b, <1>c, <1>d DEF RunInv, Types, Placed, Begun, Waits, InPhase,
     TrackForeground, procVars, cancelVars, resultVars
<1>4. Traces'
  BY <1>a, <1>b, <1>c, <1>d DEF RunInv, Types, Placed, Traces, Traced, Excused, InPhase,
     Returned, StepsOf, Background, TrackForeground, procVars, cancelVars, resultVars
<1>5. Marked'
  BY <1>a, <1>b, <1>c, <1>d DEF RunInv, Types, Marked, Placed, Returned, TrackForeground,
     procVars, cancelVars, resultVars
<1>7. Results'
  BY <1>k, <1>a, ResultsStay DEF InPhase, TrackForeground, procVars, cancelVars,
     resultVars
<1> QED
  BY <1>1, <1>2, <1>3, <1>4, <1>5, <1>7 DEF RunInv


LEMMA ForegroundEndedKeeps ==
  ASSUME RunInv, ForegroundEnded
  PROVE  RunInv'
<1>a. /\ Len(Job) \in 1 .. MaxPhases /\ phase \in 0 .. Len(Job) /\ order \in Orders
      /\ order' = order /\ Job' = Job
  BY InJob DEF RunInv, Types, ForegroundEnded, procVars, cancelVars, resultVars, Job
<1>b. /\ phase \in 1 .. Len(Job) /\ Fore(phase) \in Processes
      /\ DOMAIN Background(phase) = 1 .. Len(Background(phase))
      /\ Len(Background(phase)) \in Nat
      /\ \A i \in DOMAIN Background(phase) :
           /\ <<phase, Background(phase)[i]>> \in Processes
           /\ Background(phase)[i] \in StepsOf(phase)
           /\ <<phase, Background(phase)[i]>> # Fore(phase)
           /\ \A j \in DOMAIN Background(phase) :
                Background(phase)[i] = Background(phase)[j] => i = j
  BY <1>a, InJob DEF RunInv, Types, Placed, InPhase, ForegroundEnded
<1>d. proc[Fore(phase)] = "gone"
  BY DEF ForegroundEnded, Process, Now, Fore
<1>j. Background(phase)' = Background(phase) /\ Fore(phase)' = Fore(phase)
  BY <1>a DEF Background, Fore, ForegroundEnded, procVars, cancelVars, resultVars
<1>k. Kept
  BY <1>d DEF Kept, ForegroundEnded, procVars, cancelVars, resultVars
<1>1. Types'
  BY <1>a, <1>b, <1>d DEF RunInv, Types, Placed, Stages, InPhase, Returned, Failures,
     ForegroundEnded, procVars, cancelVars, resultVars
<1>2. Placed'
  BY <1>a, <1>j, <1>b, <1>d DEF RunInv, Types, Placed, InPhase, Returned, ForegroundEnded,
     procVars, cancelVars, resultVars
<1>3. Begun'
  BY <1>a, <1>j, <1>b, <1>d DEF RunInv, Types, Placed, Begun, Waits, InPhase,
     ForegroundEnded, procVars, cancelVars, resultVars
<1>4. Traces'
  BY <1>a, <1>b, <1>d DEF RunInv, Types, Placed, Traces, Traced, Excused, InPhase,
     Returned,
     StepsOf, Background, ForegroundEnded, procVars, cancelVars, resultVars
<1>5. Marked'
  BY <1>a, <1>b, <1>d DEF RunInv, Types, Marked, Placed, Returned, ForegroundEnded,
     procVars, cancelVars, resultVars
<1>7. Results'
  BY <1>k, <1>a, ResultsStay DEF InPhase, ForegroundEnded, procVars, cancelVars,
     resultVars
<1> QED
  BY <1>1, <1>2, <1>3, <1>4, <1>5, <1>7 DEF RunInv


LEMMA ForegroundTimedOutKeeps ==
  ASSUME RunInv, ForegroundTimedOut
  PROVE  RunInv'
<1>a. /\ Len(Job) \in 1 .. MaxPhases /\ phase \in 0 .. Len(Job) /\ order \in Orders
      /\ order' = order /\ Job' = Job
  BY InJob DEF RunInv, Types, ForegroundTimedOut, procVars, cancelVars, resultVars, Job
<1>b. /\ phase \in 1 .. Len(Job) /\ Fore(phase) \in Processes
      /\ DOMAIN Background(phase) = 1 .. Len(Background(phase))
      /\ Len(Background(phase)) \in Nat
      /\ \A i \in DOMAIN Background(phase) :
           /\ <<phase, Background(phase)[i]>> \in Processes
           /\ Background(phase)[i] \in StepsOf(phase)
           /\ <<phase, Background(phase)[i]>> # Fore(phase)
           /\ \A j \in DOMAIN Background(phase) :
                Background(phase)[i] = Background(phase)[j] => i = j
  BY <1>a, InJob DEF RunInv, Types, Placed, InPhase, ForegroundTimedOut
<1> DEFINE c == Fore(phase)
<1>c. /\ c \in Processes /\ c[1] = phase /\ c[2] \in StepsOf(phase)
      /\ \A i \in DOMAIN Background(phase) : <<phase, Background(phase)[i]>> # c
  BY <1>b DEF Fore, StepsOf
<1>d. /\ proc' = [proc EXCEPT ![c] = "gone"] /\ proc[c] = "alive"
      /\ end' = [end EXCEPT ![c] = [code |-> 124, said |-> {}, by |-> "timeout"]]
      /\ scratch' = scratch
  BY DEF ForegroundTimedOut, Process, Now, Fore, procVars
<1>e. end'[c].code = 124 /\ end'[c].by = "timeout" /\ Code("timeout") = 124
  BY <1>c, <1>d DEF RunInv, Types, Code
<1>g. [code |-> 124, said |-> {}, by |-> "timeout"]
        \in [code : Nat, said : SUBSET Words, by : Ends]
  BY DEF Ends
<1>f. end[c].by = "nobody"
  BY <1>c, <1>d DEF RunInv, Types, Traces, Traced
<1> HIDE DEF c
<1>j. Background(phase)' = Background(phase) /\ Fore(phase)' = Fore(phase)
  BY <1>a DEF Background, Fore, ForegroundTimedOut, procVars, cancelVars, resultVars
<1>k. Kept
  BY <1>c, <1>d, <1>e, <1>f, <1>g DEF Kept, ForegroundTimedOut, procVars, cancelVars,
     resultVars
<1>1. Types'
  BY <1>a, <1>b, <1>c, <1>d, <1>e, <1>f, <1>g DEF RunInv, Types, Placed, Stages, InPhase,
     Returned, Failures, ForegroundTimedOut, procVars, cancelVars, resultVars
<1>2. Placed'
  BY <1>a, <1>j, <1>b, <1>c, <1>d, <1>e, <1>f, <1>g DEF RunInv, Types, Placed, InPhase,
     Returned, ForegroundTimedOut, procVars, cancelVars, resultVars
<1>3. Begun'
  BY <1>a, <1>j, <1>b, <1>c, <1>d, <1>e, <1>f, <1>g DEF RunInv, Types, Placed, Begun,
     Waits,
     InPhase, ForegroundTimedOut, procVars, cancelVars, resultVars, c
<1>4. Traces'
  BY <1>a, <1>b, <1>c, <1>d, <1>e, <1>f, <1>g DEF RunInv, Types, Placed, Traces, Traced,
     Excused, InPhase, Returned, StepsOf, Background, ForegroundTimedOut, procVars,
     cancelVars, resultVars
<1>5. Marked'
  BY <1>a, <1>b, <1>c, <1>d, <1>e, <1>f, <1>g DEF RunInv, Types, Marked, Placed, Returned,
     ForegroundTimedOut, procVars, cancelVars, resultVars
<1>7. Results'
  BY <1>k, <1>a, ResultsStay DEF InPhase, ForegroundTimedOut, procVars, cancelVars,
     resultVars
<1> QED
  BY <1>1, <1>2, <1>3, <1>4, <1>5, <1>7 DEF RunInv


LEMMA UntrackKeeps ==
  ASSUME RunInv, Untrack
  PROVE  RunInv'
<1>a. /\ Len(Job) \in 1 .. MaxPhases /\ phase \in 0 .. Len(Job) /\ order \in Orders
      /\ order' = order /\ Job' = Job
  BY InJob DEF RunInv, Types, Untrack, procVars, cancelVars, resultVars, Job
<1>b. /\ phase \in 1 .. Len(Job) /\ Fore(phase) \in Processes
      /\ DOMAIN Background(phase) = 1 .. Len(Background(phase))
      /\ Len(Background(phase)) \in Nat
      /\ \A i \in DOMAIN Background(phase) :
           /\ <<phase, Background(phase)[i]>> \in Processes
           /\ Background(phase)[i] \in StepsOf(phase)
           /\ <<phase, Background(phase)[i]>> # Fore(phase)
           /\ \A j \in DOMAIN Background(phase) :
                Background(phase)[i] = Background(phase)[j] => i = j
  BY <1>a, InJob DEF RunInv, Types, Placed, InPhase, Untrack
<1>j. Background(phase)' = Background(phase) /\ Fore(phase)' = Fore(phase)
  BY <1>a DEF Background, Fore, Untrack, procVars, cancelVars, resultVars
<1>k. Kept
  BY <1>b DEF Kept, Untrack, procVars, cancelVars, resultVars
<1>1. Types'
  BY <1>a, <1>b DEF RunInv, Types, Placed, Stages, InPhase, Returned, Failures, Untrack,
     procVars, cancelVars, resultVars
<1>2. Placed'
  BY <1>a, <1>j, <1>b DEF RunInv, Types, Placed, InPhase, Returned, Untrack, procVars,
     cancelVars, resultVars
<1>3. Begun'
  BY <1>a, <1>j, <1>b DEF RunInv, Types, Placed, Begun, Waits, InPhase, Untrack, procVars,
     cancelVars, resultVars
<1>4. Traces'
  BY <1>a, <1>b DEF RunInv, Types, Placed, Traces, Traced, Excused, InPhase, Returned,
     StepsOf, Background, Untrack, procVars, cancelVars, resultVars
<1>5. Marked'
  BY <1>a, <1>b DEF RunInv, Types, Marked, Placed, Returned, Untrack, procVars,
     cancelVars,
     resultVars
<1>7. Results'
  BY <1>k, <1>a, ResultsStay DEF InPhase, Untrack, procVars, cancelVars, resultVars
<1> QED
  BY <1>1, <1>2, <1>3, <1>4, <1>5, <1>7 DEF RunInv


LEMMA DrainKeeps ==
  ASSUME RunInv, Drain
  PROVE  RunInv'
<1>a. /\ Len(Job) \in 1 .. MaxPhases /\ phase \in 0 .. Len(Job) /\ order \in Orders
      /\ order' = order /\ Job' = Job
  BY InJob DEF RunInv, Types, Drain, procVars, cancelVars, resultVars, Job
<1>b. /\ phase \in 1 .. Len(Job) /\ Fore(phase) \in Processes
      /\ DOMAIN Background(phase) = 1 .. Len(Background(phase))
      /\ Len(Background(phase)) \in Nat
      /\ \A i \in DOMAIN Background(phase) :
           /\ <<phase, Background(phase)[i]>> \in Processes
           /\ Background(phase)[i] \in StepsOf(phase)
           /\ <<phase, Background(phase)[i]>> # Fore(phase)
           /\ \A j \in DOMAIN Background(phase) :
                Background(phase)[i] = Background(phase)[j] => i = j
  BY <1>a, InJob DEF RunInv, Types, Placed, InPhase, Drain
<1> DEFINE c == <<phase, Background(phase)[next]>>
<1>i. next \in DOMAIN Background(phase)
  BY <1>b DEF RunInv, Types, Placed, Now, Background, Drain
<1>c. /\ c \in Processes /\ c[1] = phase /\ c[2] \in StepsOf(phase) /\ c # Fore(phase)
      /\ \A i \in DOMAIN Background(phase) : i # next => <<phase, Background(phase)[i]>> # c
  BY <1>b, <1>i
<1>d. proc[c] = "gone" /\ next <= Len(Background(phase))
  BY DEF Drain, Process, Now, Background
<1> HIDE DEF c
<1>j. Background(phase)' = Background(phase) /\ Fore(phase)' = Fore(phase)
  BY <1>a DEF Background, Fore, Drain, procVars, cancelVars, resultVars
<1>k. Kept
  BY <1>c, <1>d DEF Kept, Drain, procVars, cancelVars, resultVars
<1>1. Types'
  BY <1>a, <1>b, <1>c, <1>d, <1>i DEF RunInv, Types, Placed, Stages, InPhase, Returned,
     Failures, Drain, procVars, cancelVars, resultVars
<1>2. Placed'
  BY <1>a, <1>j, <1>b, <1>c, <1>d, <1>i DEF RunInv, Types, Placed, InPhase, Returned,
     Drain,
     procVars, cancelVars, resultVars
<1>3. Begun'
  <2>1. /\ pc = "drain" /\ pc' = "drain" /\ next' = next + 1 /\ proc' = proc /\ phase' = phase
        /\ phase >= 1
    BY <1>b DEF Drain, procVars
  <2>2. \A i \in DOMAIN Background(phase) :
          i < next => proc[<<phase, Background(phase)[i]>>] = "gone"
    BY <2>1 DEF RunInv, Begun, InPhase
  <2>3. \A i \in DOMAIN Background(phase) : i < next + 1 => i < next \/ i = next
    BY <1>b DEF RunInv, Types
  <2>4. proc[Fore(phase)] = "gone"
    BY <2>1 DEF RunInv, Begun
  <2> QED
    BY <1>j, <1>d, <2>1, <2>2, <2>3, <2>4 DEF Begun, Waits, c
<1>4. Traces'
  BY <1>a, <1>b, <1>c, <1>d, <1>i DEF RunInv, Types, Placed, Traces, Traced, Excused,
     InPhase, Returned, StepsOf, Background, Drain, procVars, cancelVars, resultVars
<1>5. Marked'
  BY <1>a, <1>b, <1>c, <1>d, <1>i DEF RunInv, Types, Marked, Placed, Returned, Drain,
     procVars, cancelVars, resultVars
<1>7. Results'
  BY <1>k, <1>a, ResultsStay DEF InPhase, Drain, procVars, cancelVars, resultVars
<1> QED
  BY <1>1, <1>2, <1>3, <1>4, <1>5, <1>7 DEF RunInv

(* A phase that fails stops its children and ends the job.                   *)
LEMMA FailKeeps ==
  ASSUME RunInv, NEW why \in Failures, pc \in InPhase, FailPhase(why), result' = result
  PROVE  RunInv'
<1>a. /\ Len(Job) \in 1 .. MaxPhases /\ phase \in 1 .. Len(Job) /\ order \in Orders
      /\ order' = order /\ Job' = Job
  BY InJob DEF RunInv, Types, Placed, FailPhase, Job
<1> DEFINE stopped == [code |-> 143, said |-> {}, by |-> "engine"]
<1>b. /\ pc' = "finish" /\ status' = why /\ scratch' = scratch
      /\ UNCHANGED <<phase, next, running, cancelVars>>
  BY DEF FailPhase, StopChildren
<1>c. /\ proc' = [p \in Processes |-> IF proc[p] = "alive" THEN "gone" ELSE proc[p]]
      /\ end' = [p \in Processes |-> IF proc[p] = "alive" THEN stopped ELSE end[p]]
  <2>1. \A p \in Processes : proc[p] = "alive" => p[1] = phase
    BY DEF RunInv, Traces, Traced
  <2>2. [Unended EXCEPT !.code = 143, !.by = "engine"] = stopped
    <3>1. [Unended EXCEPT !.code = 143] = [code |-> 143, said |-> {}, by |-> "nobody"]
      BY DEF Unended
    <3>2. [Unended EXCEPT !.code = 143, !.by = "engine"]
            = [[Unended EXCEPT !.code = 143] EXCEPT !.by = "engine"]
      OBVIOUS
    <3>3. [[code |-> 143, said |-> {}, by |-> "nobody"] EXCEPT !.by = "engine"] = stopped
      OBVIOUS
    <3> HIDE DEF stopped
    <3> QED
      BY <3>1, <3>2, <3>3
  <2> HIDE DEF stopped
  <2> QED
    BY <2>1, <2>2 DEF FailPhase, StopChildren
<1>d. /\ stopped \in [code : Nat, said : SUBSET Words, by : Ends]
      /\ stopped.by = "engine" /\ stopped.code = Code("engine")
  BY DEF Ends, Code
<1> HIDE DEF stopped
<1>k. Kept
  BY <1>c DEF Kept
<1>1. Types'
  BY <1>a, <1>b, <1>c, <1>d DEF RunInv, Types, Stages, cancelVars
<1>2. Placed'
  BY <1>a, <1>b DEF RunInv, Types, Placed, InPhase, Returned, Failures
<1>3. Begun'
  BY <1>a, <1>b DEF Begun, InPhase
<1>4. Traces'
  <2> SUFFICES ASSUME NEW p \in Processes PROVE (Traced(p) /\ Excused(p))'
    BY DEF Traces
  <2>1. Traced(p) /\ Excused(p)
    BY DEF RunInv, Traces
  <2>2. StepsOf(p[1])' = StepsOf(p[1])
    BY <1>a DEF StepsOf, Background
  <2>3. why # "OK"
    BY DEF Failures
  <2>4. CASE proc[p] = "alive"
    <3>1. proc'[p] = "gone" /\ end'[p] = stopped
      BY <1>c, <2>4
    <3> QED
      BY <1>b, <1>d, <2>1, <2>2, <2>3, <2>4, <3>1 DEF Traced, Excused
  <2>5. CASE proc[p] # "alive"
    <3>1. proc'[p] = proc[p] /\ end'[p] = end[p]
      BY <1>c, <2>5
    <3> QED
      BY <1>b, <2>1, <2>2, <2>3, <2>5, <3>1 DEF Traced, Excused
  <2> QED
    BY <2>4, <2>5
<1>5. Marked'
  BY <1>b DEF RunInv, Types, Marked, InPhase, Returned, cancelVars
<1>7. Results'
  <2>1. \A k \in 1 .. phase : k < phase => Whole(k) /\ Passed(k)
    BY DEF RunInv, Results, IsOver
  <2>2. \A k \in 1 .. phase : k < phase => Whole(k)' /\ Passed(k)'
    BY <1>a, <1>k, <2>1, WholeStays DEF RunInv, Types
  <2> QED
    BY <1>b, <2>2 DEF Results, IsOver, Failures, Returned
<1> QED
  BY <1>1, <1>2, <1>3, <1>4, <1>5, <1>7 DEF RunInv

LEMMA FailuresKeep ==
  ASSUME RunInv, BackgroundFails \/ PortNeverCame \/ ForegroundFails
  PROVE  RunInv'
  BY FailKeeps DEF BackgroundFails, PortNeverCame, ForegroundFails, Failures, InPhase

(* Whose step it is says which phase it is of.                               *)
LEMMA LastSteps ==
  ASSUME order \in Orders, NEW k \in 1 .. Len(Job), NEW s \in StepsOf(k)
  PROVE  /\ s \in {"stash", "referee", "bot"} => k = Len(Job)
         /\ s = "build" => k = 1
<1>1. PhaseIsSound(order, k, Len(Job), Job[k])
  BY InJob
<1>2. CASE Job[k].name = "match"
  <2>1. Background(k) \in Seq({"referee"} \cup Range(OpponentSteps))
    BY <1>1 DEF PhaseIsSound, Alone, Background
  <2>2. \A i \in DOMAIN Background(k) : Background(k)[i] \in {"referee", "opponent", "opponent2"}
    BY <2>1, OpponentsAre, ElementOfSeq, LenProperties
  <2> QED
    BY <1>1, <1>2, <2>2 DEF PhaseIsSound, Laid, StepsOf, Range
<1>3. CASE Job[k].name # "match"
  <2>1. Job[k].background = <<>> /\ Job[k].foreground = Job[k].name
    BY <1>1, <1>3 DEF PhaseIsSound, Laid, Bare
  <2>2. StepsOf(k) = {Job[k].name}
    BY <2>1 DEF StepsOf, Background, Range
  <2> QED
    BY <1>1, <1>3, <2>2 DEF PhaseIsSound, Laid
<1> QED
  BY <1>2, <1>3


(* Collect reads every step of the phase, and all of them are over.          *)
LEMMA CollectedTells ==
  ASSUME RunInv, Collect, NEW s \in StepsOf(phase)
  PROVE  Tells(<<phase, s>>, Collected(s))
<1>a. /\ Len(Job) \in 1 .. MaxPhases /\ phase \in 1 .. Len(Job) /\ order \in Orders
      /\ <<phase, s>> \in Processes /\ MaxPhases \in Nat
  <2>1. MaxPhases \in Nat
    BY RepeatsAssumption DEF MaxPhases, RepeatsOf
  <2> QED
    BY <2>1, InJob DEF RunInv, Types, Placed, Collect, InPhase, Processes
<1> DEFINE p == <<phase, s>>
           r == Collected(s)
<1>1. proc[p] = "gone"
  <2>1. next > Len(Background(phase)) /\ pc = "drain" /\ next \in Nat
    BY DEF Collect, Now, Background, RunInv, Types
  <2>2. CASE s = Job[phase].foreground
    BY <1>a, <2>1, <2>2 DEF RunInv, Begun, Fore
  <2>3. CASE s \in Range(Background(phase))
    <3>1. PICK i \in DOMAIN Background(phase) : s = Background(phase)[i]
      BY <2>3 DEF Range
    <3>2. i < next
      <4>1. /\ DOMAIN Background(phase) = 1 .. Len(Background(phase))
            /\ Len(Background(phase)) \in Nat
        BY <1>a, InJob
      <4> QED
        BY <2>1, <3>1, <4>1
    <3>3. phase >= 1 => \A j \in DOMAIN Background(phase) :
            j < next => proc[<<phase, Background(phase)[j]>>] = "gone"
      BY <2>1 DEF RunInv, Begun
    <3>4. phase >= 1
      BY <1>a
    <3>5. proc[<<phase, Background(phase)[i]>>] = "gone"
      BY <3>2, <3>3, <3>4
    <3> QED
      BY <3>1, <3>5
  <2> QED
    BY <2>2, <2>3 DEF StepsOf
<1>2. /\ r.started /\ r.code = end[p].code /\ r.timedOut = (end[p].by = "timeout")
      /\ r.collected = [f \in CollectFiles(s) |-> scratch[f]]
  BY DEF Collected, Process
<1> QED
  BY <1>1, <1>2 DEF Tells

LEMMA CollectKeeps ==
  ASSUME RunInv, Collect
  PROVE  RunInv'
<1>a. /\ Len(Job) \in 1 .. MaxPhases /\ phase \in 0 .. Len(Job) /\ order \in Orders
      /\ order' = order /\ Job' = Job
  BY InJob DEF RunInv, Types, Collect, procVars, cancelVars, resultVars, Job
<1>b. phase \in 1 .. Len(Job) /\ Kept /\ pc = "drain"
  BY <1>a DEF RunInv, Types, Placed, Collect, InPhase, Kept, procVars
<1>c. /\ Len(result) = phase /\ DOMAIN result = 1 .. phase
      /\ \A k \in 1 .. phase : result[k].name = Job[k].name
  BY DEF RunInv, Placed
<1>d. /\ DOMAIN result' = DOMAIN result /\ Len(result') = Len(result)
      /\ \A k \in 1 .. phase : k # phase => result'[k] = result[k]
      /\ result'[phase].name = result[phase].name
      /\ result'[phase].steps = [s \in StepsOf(phase) |-> Collected(s)]
  BY <1>b, <1>c DEF Collect, StepsOf, Now, Background
<1>e. /\ pc' = "phase" => Passed(phase) /\ phase < Len(Job)
      /\ pc' = "finish" => ~ Passed(phase) \/ phase = Len(Job)
      /\ pc' \in {"phase", "finish"} /\ status = "OK" /\ status' = "OK"
  BY <1>a, <1>b DEF Collect, Now, Passed, Fore, Process, RunInv, Placed, resultVars,
     Returned
<1>f. \A p \in Processes : proc[p] # "alive"
  <2> SUFFICES ASSUME NEW p \in Processes, proc[p] = "alive" PROVE FALSE
    OBVIOUS
  <2>1. p = <<phase, p[2]>> /\ p[2] \in StepsOf(phase)
    BY DEF RunInv, Traces, Traced, Processes
  <2> QED
    BY <2>1, CollectedTells DEF Tells
<1>1. Types'
  BY <1>a, <1>e DEF RunInv, Types, Stages, Collect, procVars, cancelVars
<1>2. Placed'
  BY <1>b, <1>a, <1>c, <1>d, <1>e DEF RunInv, Types, Placed, InPhase, Returned, Collect,
     procVars, cancelVars, resultVars
<1>3. Begun'
  BY <1>e DEF Begun, InPhase
<1>4. Traces'
  BY <1>a, <1>e, <1>f DEF RunInv, Traces, Traced, Excused, Returned, StepsOf, Background,
     Collect, procVars, cancelVars
<1>5. Marked'
  BY <1>b, <1>e DEF RunInv, Marked, Returned, Collect, cancelVars
<1>7. Results'
  <2>1. \A k \in 1 .. phase : k # phase => Whole(k) /\ Passed(k)
    BY <1>a, <1>b DEF RunInv, Results, IsOver
  <2>2. ASSUME NEW k \in 1 .. phase, k # phase
        PROVE  Whole(k)' /\ Passed(k)'
    <3>1. /\ result'[k] = result[k] /\ StepsOf(k)' = StepsOf(k) /\ Fore(k)' = Fore(k)
          /\ proc' = proc /\ end' = end
      BY <1>a, <1>d, <2>2 DEF StepsOf, Background, Fore, Collect, procVars
    <3> QED
      BY <2>1, <2>2, <3>1 DEF Whole, Passed, Tells
  <2>3. /\ phase' = phase /\ StepsOf(phase)' = StepsOf(phase) /\ Fore(phase)' = Fore(phase)
        /\ proc' = proc /\ end' = end
    BY <1>a DEF StepsOf, Background, Fore, Collect, procVars
  <2>4. Whole(phase)'
    BY <1>d, <2>3, CollectedTells DEF Whole, Tells
  <2>5. Passed(phase)' = Passed(phase)
    BY <2>3 DEF Passed
  <2>6. \A k \in 1 .. phase : k < phase => k # phase
    BY <1>b
  <2> QED
    BY <1>a, <1>b, <1>e, <2>1, <2>2, <2>3, <2>4, <2>5, <2>6 DEF Results, IsOver, Returned
<1> QED
  BY <1>1, <1>2, <1>3, <1>4, <1>5, <1>7 DEF RunInv

-----------------------------------------------------------------------------
(* The end of Run.                                                           *)
LEMMA PrepareFailsKeeps ==
  ASSUME RunInv, PrepareFails
  PROVE  RunInv'
<1>a. /\ pc = "prepare" /\ pc' = "ended" /\ status' = "WORKSPACE_FAILED"
      /\ phase = 0 /\ running = {}
      /\ \A p \in Processes : proc[p] = "none"
      /\ UNCHANGED <<order, phase, next, proc, end, scratch, running, cancelled, canceller,
                     groups, result>>
  BY DEF RunInv, Placed, PrepareFails, procVars, cancelVars
<1>1. Types'
  BY <1>a DEF RunInv, Types, Stages, Returned, Failures, Job
<1>2. Placed'
  BY <1>a DEF RunInv, Placed, InPhase, Returned, Job
<1>3. Begun'
  BY <1>a DEF Begun
<1>4. Traces'
  BY <1>a DEF RunInv, Traces, Traced, Excused, Returned, StepsOf, Background, Job
<1>5. Marked'
  BY <1>a DEF Marked, Returned
<1>7. Results'
  BY <1>a DEF Results
<1> QED
  BY <1>1, <1>2, <1>3, <1>4, <1>5, <1>7 DEF RunInv

(* Nothing is alive any more, and what cancelled_ said is in the status.     *)
LEMMA FinishKeeps ==
  ASSUME RunInv, Finish
  PROVE  RunInv'
<1>a. /\ pc = "finish" /\ pc' \in Returned /\ status' = FinalStatus
      /\ running' = {} /\ cancelled' = FALSE
      /\ UNCHANGED <<order, phase, next, proc, end, scratch, canceller, groups, result>>
  BY DEF Finish, Returned, procVars
<1>b. /\ status' \in {"OK"} \cup Failures /\ (status' = "OK" => status = "OK" /\ ~ cancelled)
      /\ status # "OK" => status' # "OK"
  BY <1>a DEF RunInv, Types, FinalStatus, Failures
<1>c. /\ Job' = Job /\ Len(Job) \in Nat /\ phase \in 0 .. Len(Job) /\ phase >= 1
  BY <1>a, InJob DEF RunInv, Types, Placed, Job
<1>1. Types'
  BY <1>a, <1>b, <1>c DEF RunInv, Types, Stages
<1>2. Placed'
  BY <1>a, <1>b, <1>c DEF RunInv, Placed, InPhase, Returned
<1>3. Begun'
  BY <1>a DEF Begun, InPhase, Returned
<1>4. Traces'
  BY <1>a, <1>b, <1>c DEF RunInv, Traces, Traced, Excused, InPhase, Returned,
     StepsOf, Background
<1>5. Marked'
  BY <1>a DEF Marked
<1>7. Results'
  <2>1. ASSUME NEW k \in 1 .. phase, k < phase \/ status' = "OK"
        PROVE  Whole(k)' /\ (k < phase => Passed(k)')
    <3>1. Whole(k) /\ (k < phase => Passed(k))
      BY <1>a, <1>b, <2>1 DEF RunInv, Results, IsOver
    <3> QED
      BY <1>a, <1>c, <3>1, WholeStays DEF Kept
  <2>2. status' = "OK" /\ phase < Len(Job) => ~ Passed(phase)'
    <3>1. Passed(phase)' = Passed(phase)
      BY <1>a, <1>c DEF Passed, Fore
    <3> QED
      BY <1>a, <1>b, <3>1 DEF RunInv, Results
  <2> QED
    BY <1>a, <1>c, <2>1, <2>2 DEF Results, IsOver, Returned
<1> QED
  BY <1>1, <1>2, <1>3, <1>4, <1>5, <1>7 DEF RunInv

LEMMA ArchiveKeeps ==
  ASSUME RunInv, Archive
  PROVE  RunInv'
<1>a. /\ pc = "archive" /\ pc' = "ended"
      /\ UNCHANGED <<order, phase, next, proc, end, scratch, running, cancelled, canceller,
                     groups, status, result>>
  BY DEF Archive, procVars, cancelVars
<1>b. Job' = Job
  BY <1>a DEF Job
<1>1. Types'
  BY <1>a, <1>b DEF RunInv, Types, Stages, Returned
<1>2. Placed'
  BY <1>a, <1>b DEF RunInv, Placed, InPhase, Returned
<1>3. Begun'
  BY <1>a DEF Begun, InPhase
<1>4. Traces'
  BY <1>a, <1>b DEF RunInv, Traces, Traced, Excused, InPhase, Returned, StepsOf,
     Background
<1>5. Marked'
  BY <1>a DEF Marked, Returned
<1>7. Results'
  <2>1. \A k \in Nat : Fore(k)' = Fore(k) /\ StepsOf(k)' = StepsOf(k)
    BY <1>b DEF Fore, StepsOf, Background
  <2>2. \A k \in 1 .. phase : /\ Whole(k)' <=> Whole(k)
                              /\ Passed(k)' <=> Passed(k)
                              /\ IsOver(k)' <=> IsOver(k)
    BY <1>a, <2>1 DEF Whole, Tells, Passed, IsOver, Returned
  <2>3. phase \in Nat /\ (phase >= 1 => phase \in 1 .. phase)
    BY InJob DEF RunInv, Types
  <2>4. status = "OK" => phase >= 1
    BY <1>a DEF RunInv, Placed, Returned
  <2> QED
    BY <1>a, <1>b, <2>2, <2>3, <2>4 DEF RunInv, Results, Returned
<1> QED
  BY <1>1, <1>2, <1>3, <1>4, <1>5, <1>7 DEF RunInv

-----------------------------------------------------------------------------
(* A process that ends, by itself or because a marked job is killed.         *)
Records == [code : Nat, said : SUBSET Words, by : Ends]

LEMMA EndingKeeps ==
  ASSUME RunInv, NEW p \in Processes, NEW e \in Records, proc[p] = "alive",
         e.by = "itself" \/ (e.by = "cancel" /\ e.code = 137 /\ cancelled),
         proc' = [proc EXCEPT ![p] = "gone"], end' = [end EXCEPT ![p] = e],
         UNCHANGED <<order, pc, phase, next, running, cancelled, status, result>>
  PROVE  /\ Kept /\ end'[p] = e
         /\ proc' \in [Processes -> {"none", "alive", "gone"}]
         /\ end' \in [Processes -> Records]
         /\ Placed' /\ Begun' /\ Traces' /\ Results'
<1>a. /\ proc \in [Processes -> {"none", "alive", "gone"}]
      /\ end \in [Processes -> Records]
      /\ pc \in InPhase /\ pc' \in InPhase /\ Job' = Job
  BY DEF RunInv, Types, Records, Traces, Traced, Job
<1>b. /\ \A q \in Processes : q # p => proc'[q] = proc[q] /\ end'[q] = end[q]
      /\ proc'[p] = "gone" /\ end'[p] = e
  BY <1>a
<1>c. \A k \in Nat : /\ Background(k)' = Background(k) /\ Fore(k)' = Fore(k)
                     /\ StepsOf(k)' = StepsOf(k)
  BY <1>a DEF Background, Fore, StepsOf
<1>d. /\ phase \in Nat
      /\ phase >= 1 => Fore(phase) \in Processes
                       /\ \A i \in DOMAIN Background(phase) :
                            <<phase, Background(phase)[i]>> \in Processes
  BY InJob DEF RunInv, Types
<1>1. Kept
  BY <1>b DEF Kept
<1>2. proc' \in [Processes -> {"none", "alive", "gone"}] /\ end' \in [Processes -> Records]
  BY <1>a
<1>3. Placed'
  BY <1>a DEF RunInv, Placed, InPhase, Returned, Background
<1>4. Begun'
  <2>1. \A q \in Processes : /\ proc[q] = "none" => proc'[q] = "none"
                             /\ proc[q] = "gone" => proc'[q] = "gone"
    BY <1>b
  <2>2. \A i : Waits(i)' <=> Waits(i)
    BY DEF Waits
  <2>3. Background(phase)' = Background(phase) /\ Fore(phase)' = Fore(phase)
    BY <1>c, <1>d DEF Background, Fore
  <2> QED
    BY <1>d, <2>1, <2>2, <2>3 DEF RunInv, Begun
<1>5. Traces'
  <2> SUFFICES ASSUME NEW q \in Processes PROVE (Traced(q) /\ Excused(q))'
    BY DEF Traces
  <2>1. Traced(q) /\ Excused(q) /\ StepsOf(q[1])' = StepsOf(q[1])
    BY <1>a DEF RunInv, Traces, StepsOf, Background
  <2>2. CASE q # p
    <3>1. proc'[q] = proc[q] /\ end'[q] = end[q]
      BY <1>b, <2>2
    <3> QED
      BY <2>1, <3>1 DEF Traced, Excused
  <2>3. CASE q = p
    <3>1. /\ e.by # "nobody" /\ e.by # "engine"
          /\ (e.by \in {"timeout", "engine", "cancel"} => e.code = Code(e.by))
      BY DEF Code
    <3>2. pc' \notin Returned
      BY <1>a DEF InPhase, Returned
    <3>3. Traced(p) /\ StepsOf(p[1])' = StepsOf(p[1])
      BY <2>1, <2>3
    <3>4. Traced(p)'
      BY <1>b, <3>1, <3>3 DEF Traced
    <3>5. Excused(p)'
      BY <1>b, <3>1, <3>2 DEF Excused
    <3> QED
      BY <2>3, <3>4, <3>5
  <2> QED
    BY <2>2, <2>3
<1>6. Results'
  BY <1>1, <1>a, ResultsStay
<1> QED
  BY <1>1, <1>2, <1>3, <1>4, <1>5, <1>6, <1>b

LEMMA ExitKeeps ==
  ASSUME RunInv, NEW p \in Processes, NEW code \in Nat, NEW said \in SUBSET Words,
         Exits(p, code, said)
  PROVE  RunInv'
<1> DEFINE e == [code |-> code, said |-> said, by |-> "itself"]
<1>a. e \in Records /\ e.by = "itself" /\ e.code = code
  BY DEF Records, Ends
<1>b. /\ proc[p] = "alive"
      /\ proc' = [proc EXCEPT ![p] = "gone"] /\ end' = [end EXCEPT ![p] = e]
      /\ UNCHANGED <<order, pc, phase, next, running, cancelled, canceller, groups, status,
                     result, scratch>>
  BY DEF Exits, cancelVars, resultVars
<1> HIDE DEF e
<1>1. /\ Kept /\ end'[p] = e
      /\ proc' \in [Processes -> {"none", "alive", "gone"}]
      /\ end' \in [Processes -> Records]
      /\ Placed' /\ Begun' /\ Traces' /\ Results'
  BY <1>a, <1>b, EndingKeeps
<1>2. Types'
  BY <1>1, <1>b DEF RunInv, Types, Records, Job
<1>3. Marked'
  BY <1>b DEF RunInv, Marked
<1> QED
  BY <1>1, <1>2, <1>3 DEF RunInv

LEMMA ProcessExitsKeep ==
  ASSUME RunInv, NEW p \in Processes, ProcessExits(p)
  PROVE  RunInv'
<1>a. {} \in SUBSET Words /\ 0 \in Nat /\ 1 \in Nat /\ 3 \in Nat
  OBVIOUS
<1>1. CASE BuildExits(p)
  <2>1. \A log \in SUBSET ({Candidate} \cup Range(order.rivals)) : log \in SUBSET Words
    <3>1. order.rivals \in Seq(Range(Rivals))
      BY OrdersAssumption DEF RunInv, Types
    <3>2. Range(order.rivals) \subseteq Range(Rivals)
      <4>1. \A i \in DOMAIN order.rivals : order.rivals[i] \in Range(Rivals)
        BY <3>1, ElementOfSeq, LenProperties
      <4> QED
        BY <4>1 DEF Range
    <3> QED
      BY <3>2 DEF Words
  <2> QED
    BY <1>a, <1>1, <2>1, ExitKeeps DEF BuildExits
<1>2. CASE StashExits(p)
  BY <1>a, <1>2, ExitKeeps DEF StashExits
<1>3. CASE GradeExits(p)
  <2>1. PICK code \in {0, 1}, said \in SUBSET {"RESULT"} : Exits(p, code, said)
    BY <1>3 DEF GradeExits
  <2>2. code \in Nat /\ said \in SUBSET Words
    BY DEF Words
  <2> QED
    BY <2>1, <2>2, ExitKeeps
<1>4. CASE RefereeExits(p)
  BY <1>a, <1>4, ExitKeeps DEF RefereeExits
<1>5. CASE BotExits(p)
  BY <1>a, <1>5, ExitKeeps DEF BotExits
<1> QED
  BY <1>1, <1>2, <1>3, <1>4, <1>5 DEF ProcessExits

-----------------------------------------------------------------------------
(* Steps that only the canceller, the port or a file see.                    *)
LEMMA QuietKeeps ==
  ASSUME RunInv, Types', Marked', cancelled => cancelled',
         UNCHANGED <<order, pc, phase, next, proc, end, running, status, result>>
  PROVE  RunInv'
<1>a. Job' = Job
  BY DEF Job
<1>b. \A k : Background(k)' = Background(k) /\ Fore(k)' = Fore(k) /\ StepsOf(k)' = StepsOf(k)
  BY <1>a DEF Background, Fore, StepsOf
<1>1. Placed'
  BY <1>a DEF RunInv, Placed, Background
<1>2. Begun'
  BY <1>b DEF RunInv, Begun, Waits, Background, Fore
<1>3. Traces'
  <2>1. \A p \in Processes : StepsOf(p[1])' = StepsOf(p[1])
    BY <1>a DEF StepsOf, Background
  <2> QED
    BY <2>1 DEF RunInv, Traces, Traced, Excused
<1>5. Results'
  <2>1. \A k : /\ Whole(k)' <=> Whole(k)
               /\ Passed(k)' <=> Passed(k)
               /\ IsOver(k)' <=> IsOver(k)
    BY <1>b DEF Whole, Tells, Passed, IsOver
  <2>2. Passed(phase)' <=> Passed(phase)
    BY <1>a DEF Passed, Fore
  <2> QED
    BY <1>a, <2>1, <2>2 DEF RunInv, Results
<1> QED
  BY <1>1, <1>2, <1>3, <1>5 DEF RunInv

LEMMA OthersKeep ==
  ASSUME RunInv, PublishPort \/ CancelFindsNone \/ CancelMarks \/ UNCHANGED vars
  PROVE  RunInv'
<1>1. CASE PublishPort
  BY <1>1, QuietKeeps DEF PublishPort, cancelVars, resultVars, RunInv, Types, Marked, Job
<1>2. CASE CancelFindsNone
  BY <1>2, QuietKeeps DEF CancelFindsNone, procVars, resultVars, RunInv, Types,
     Marked, Job
<1>3. CASE CancelMarks
  <2>1. pc \notin {"prepare"} \cup Returned
    BY <1>3 DEF CancelMarks, RunInv, Placed
  <2> QED
    BY <1>3, <2>1, QuietKeeps DEF CancelMarks, procVars, resultVars, RunInv, Types,
       Marked, Job
<1>4. CASE UNCHANGED vars
  BY <1>4, QuietKeeps DEF vars, RunInv, Types, Marked, Job
<1> QED
  BY <1>1, <1>2, <1>3, <1>4

LEMMA WritesKeep ==
  ASSUME RunInv, NEW p \in Processes, ProcessWrites(p)
  PROVE  RunInv'
<1>1. \E file \in Files, contents \in Contents : Writes(p, file, contents)
  <2>1. \A file \in Files : scratch[file] # "good" => Copied[scratch[file]] \in Contents
    BY DEF Copied, Contents, RunInv, Types
  <2> QED
    BY <2>1 DEF ProcessWrites, StashWrites, GradeWrites, RefereeWrites, Files
<1>2. PICK file \in Files, contents \in Contents : Writes(p, file, contents)
  BY <1>1
<1>3. /\ scratch' = [scratch EXCEPT ![file] = contents]
      /\ UNCHANGED <<order, pc, phase, next, proc, end, running, cancelled, canceller,
                     groups, status, result>>
      /\ Job' = Job
  BY <1>2 DEF Writes, cancelVars, resultVars, Job
<1>4. scratch' \in [Files -> Contents]
  BY <1>3 DEF RunInv, Types
<1>5. Types' /\ Marked'
  BY <1>3, <1>4 DEF RunInv, Types, Marked
<1> QED
  BY <1>3, <1>5, QuietKeeps

LEMMA KillGroupKeeps ==
  ASSUME RunInv, NEW p \in Processes, KillGroup(p)
  PROVE  RunInv'
<1>a. /\ groups' \subseteq Processes
      /\ canceller' \in {"killing", "done"} /\ canceller = "killing"
      /\ UNCHANGED <<order, pc, phase, next, scratch, running, cancelled, status, result>>
      /\ Job' = Job
  BY DEF KillGroup, RunInv, Types, resultVars, Job
<1>b. Marked'
  BY <1>a DEF RunInv, Marked
<1>1. CASE proc[p] = "alive"
  <2> DEFINE e == [code |-> 137, said |-> {}, by |-> "cancel"]
  <2>1. e \in Records /\ e.by = "cancel" /\ e.code = 137
    BY DEF Records, Ends
  <2>2. proc' = [proc EXCEPT ![p] = "gone"] /\ end' = [end EXCEPT ![p] = e]
    BY <1>1 DEF KillGroup
  <2> HIDE DEF e
  <2>3. cancelled
    <3>1. pc \in InPhase
      BY <1>1 DEF RunInv, Traces, Traced
    <3> QED
      BY <1>a, <3>1 DEF RunInv, Marked, InPhase, Returned
  <2>4. /\ Kept
        /\ proc' \in [Processes -> {"none", "alive", "gone"}]
      /\ end' \in [Processes -> Records]
        /\ Placed' /\ Begun' /\ Traces' /\ Results'
    BY <1>1, <1>a, <2>1, <2>2, <2>3, EndingKeeps
  <2>5. Types'
    BY <1>a, <2>4 DEF RunInv, Types, Records
  <2> QED
    BY <1>b, <2>4, <2>5 DEF RunInv
<1>2. CASE proc[p] # "alive"
  <2>1. proc' = proc /\ end' = end
    BY <1>2 DEF KillGroup
  <2>2. Types'
    BY <1>a, <2>1 DEF RunInv, Types
  <2> QED
    BY <1>a, <1>b, <2>1, <2>2, QuietKeeps
<1> QED
  BY <1>1, <1>2

-----------------------------------------------------------------------------
LEMMA InitHolds == Init => RunInv
<1> SUFFICES ASSUME Init PROVE RunInv
  OBVIOUS
<1>a. /\ order \in Orders /\ pc = "prepare" /\ phase = 0 /\ next = 1
      /\ proc = [p \in Processes |-> "none"] /\ end = [p \in Processes |-> Unended]
      /\ running = {} /\ cancelled = FALSE /\ canceller = "idle" /\ groups = {}
      /\ status = "OK" /\ result = <<>>
  BY DEF Init
<1>b. Unended \in [code : Nat, said : SUBSET Words, by : Ends] /\ Unended.by = "nobody"
  BY DEF Unended, Ends
<1>c. Len(Job) \in Nat
  BY <1>a, InJob
<1>3. scratch \in [Files -> Contents]
  BY OrdersAssumption DEF Init
<1>4. Types
  <2>1. /\ proc \in [Processes -> {"none", "alive", "gone"}]
        /\ end \in [Processes -> [code : Nat, said : SUBSET Words, by : Ends]]
    BY <1>a, <1>b
  <2>2. phase \in 0 .. Len(Job) /\ next \in Nat \ {0}
    BY <1>a, <1>c
  <2> QED
    BY <1>a, <1>3, <2>1, <2>2 DEF Types, Stages
<1>5. Placed
  BY <1>a DEF Placed, InPhase, Returned
<1>6. Begun
  BY <1>a DEF Begun
<1>7. Traces
  BY <1>a, <1>b DEF Traces, Traced, Excused
<1>8. Marked
  BY <1>a DEF Marked
<1>10. Results
  BY <1>a DEF Results, Returned
<1> QED
  BY <1>4, <1>5, <1>6, <1>7, <1>8, <1>10 DEF RunInv

LEMMA NextKeeps == RunInv /\ [Next]_vars => RunInv'
<1> SUFFICES ASSUME RunInv, [Next]_vars PROVE RunInv'
  OBVIOUS
<1>1. CASE Run
  BY <1>1, PrepareFailsKeeps, PrepareKeeps, StartPhaseKeeps, StartBackgroundKeeps,
     FailuresKeep, TrackBackgroundKeeps, PortFoundKeeps, StartForegroundKeeps,
     TrackForegroundKeeps, ForegroundEndedKeeps, ForegroundTimedOutKeeps, UntrackKeeps,
     DrainKeeps, CollectKeeps, FinishKeeps, ArchiveKeeps DEF Run
<1>2. CASE ProcessSteps
  BY <1>2, WritesKeep, ProcessExitsKeep DEF ProcessSteps
<1>3. CASE PublishPort \/ CancelFindsNone \/ CancelMarks \/ UNCHANGED vars
  BY <1>3, OthersKeep
<1>4. CASE \E p \in Processes : KillGroup(p)
  BY <1>4, KillGroupKeeps
<1> QED
  BY <1>1, <1>2, <1>3, <1>4 DEF Next, Cancel

-----------------------------------------------------------------------------
(* Reading the result.                                                       *)

LEMMA MinIsIn ==
  ASSUME NEW S \in SUBSET Nat, S # {}
  PROVE  Min(S) \in S
<1>1. PICK m \in S : \A y \in S : ~ (<<y, m>> \in OpToRel(<, Nat))
  BY NatLessThanWellFounded, WFMin
<1>2. \A y \in S : m <= y
  <2>1. \A y \in S : ~ (y < m)
    BY <1>1 DEF OpToRel
  <2>2. \A y \in S : y \in Nat
    OBVIOUS
  <2> QED
    BY <2>1, <2>2
<1> QED
  BY <1>2 DEF Min

(* Under OK nothing was killed, so a step ended by itself or timed out.      *)
AllWell == RunInv /\ pc = "finish" /\ status = "OK" /\ ~ cancelled

LEMMA StepsOfWell ==
  ASSUME AllWell, NEW k \in 1 .. phase, NEW s \in StepsOf(k)
  PROVE  /\ <<k, s>> \in Processes /\ DOMAIN result[k].steps = StepsOf(k)
         /\ Tells(<<k, s>>, result[k].steps[s])
         /\ end[<<k, s>>].by \in {"itself", "timeout"}
         /\ end[<<k, s>>].by = "timeout" => end[<<k, s>>].code = 124
<1>1. Whole(k)
  BY DEF AllWell, RunInv, Results, IsOver
<1>2. <<k, s>> \in Processes
  <2>1. k \in 1 .. Len(Job) /\ Len(Job) \in 1 .. MaxPhases
    BY InJob DEF AllWell, RunInv, Types
  <2>2. MaxPhases \in Nat
    BY RepeatsAssumption DEF MaxPhases, RepeatsOf
  <2>3. s \in Steps
    BY <2>1, InJob DEF AllWell, RunInv, Types
  <2> QED
    BY <2>1, <2>2, <2>3 DEF Processes
<1>3. Tells(<<k, s>>, result[k].steps[s]) /\ DOMAIN result[k].steps = StepsOf(k)
  BY <1>1 DEF Whole
<1> DEFINE p == <<k, s>>
<1>4. proc[p] = "gone" /\ Traced(p) /\ Excused(p) /\ end[p].by \in Ends
  BY <1>2, <1>3 DEF Tells, AllWell, RunInv, Traces, Types
<1> HIDE DEF p
<1>5. end[p].by \in {"itself", "timeout"} /\ (end[p].by = "timeout" => end[p].code = 124)
  BY <1>4 DEF Traced, Excused, AllWell, Ends, Code
<1> QED
  BY <1>2, <1>3, <1>5 DEF p

LEMMA ForesOfWell ==
  ASSUME AllWell, NEW k \in 1 .. phase, Passed(k)
  PROVE  end[Fore(k)].by = "itself"
<1>1. Job[k].foreground \in StepsOf(k)
  BY DEF StepsOf
<1> QED
  BY <1>1, StepsOfWell DEF Passed, Fore

(* The build is the first phase of an order that is not prebuilt.            *)
LEMMA BuildIsRead ==
  ASSUME AllWell, PhasesNamed(result, "build") # {}
  PROVE  LET step == PhaseNamed(result, "build").steps["build"] IN
         /\ PhaseNamed(result, "build") = result[1] /\ 1 \in 1 .. phase
         /\ Fore(1) = <<1, "build">> /\ Job[1].name = "build"
         /\ Tells(<<1, "build">>, step)
         /\ step.code = end[<<1, "build">>].code
         /\ step.timedOut = (end[<<1, "build">>].by = "timeout")
         /\ end[<<1, "build">>].by \in {"itself", "timeout"}
<1>a. /\ DOMAIN result = 1 .. phase /\ phase \in 0 .. Len(Job) /\ Len(Job) \in Nat
      /\ \A k \in 1 .. phase :
           result[k].name = Job[k].name /\ PhaseIsSound(order, k, Len(Job), Job[k])
  BY InJob DEF AllWell, RunInv, Types, Placed
<1>1. PhasesNamed(result, "build") \subseteq {1} /\ PhasesNamed(result, "build") \subseteq 1 .. phase
  BY <1>a DEF PhasesNamed, PhaseIsSound, Laid
<1>2. PhasesNamed(result, "build") = {1} /\ 1 \in 1 .. phase /\ Job[1].name = "build"
  BY <1>1, <1>a DEF PhasesNamed
<1>3. Min({1}) = 1
  BY DEF Min
<1>4. Job[1].foreground = "build" /\ "build" \in StepsOf(1)
  BY <1>a, <1>2 DEF PhaseIsSound, Laid, Bare, StepsOf
<1>5. PhaseNamed(result, "build") = result[1]
  BY <1>2, <1>3 DEF PhaseNamed
<1>6. /\ Tells(<<1, "build">>, result[1].steps["build"])
      /\ end[<<1, "build">>].by \in {"itself", "timeout"}
  BY <1>2, <1>4, StepsOfWell
<1> QED
  BY <1>2, <1>4, <1>5, <1>6 DEF Tells, Fore

ErrorsAre == \A why : Errored(why).error = why /\ Errored(why).blame = "nobody"
LEMMA ErroredIs == ErrorsAre
  BY DEF ErrorsAre, Errored, Outcome

(* Nobody but a build order's or a game order's build is blamed.             *)
LEMMA RestBlamesNobody ==
  ASSUME NEW o, NEW r
  PROVE  ReadRest(o, r).blame = "nobody"
<1>1. Outcome.blame = "nobody" /\ [Outcome EXCEPT !.scored = TRUE].blame = "nobody"
  BY DEF Outcome
<1>2. \A b : [Outcome EXCEPT !.built = b].blame = "nobody"
  BY DEF Outcome
<1>3. \A e : [Outcome EXCEPT !.scored = TRUE, !.error = e].blame = "nobody"
  BY DEF Outcome
<1>4. ReadStash(o, r).blame = "nobody"
  BY <1>2, ErroredIs DEF ReadStash, ErrorsAre
<1>5. ReadGrade(o, r).blame = "nobody"
  BY <1>1, ErroredIs DEF ReadGrade, ErrorsAre
<1>6. \A m : ReadBots(o, m).blame = "nobody"
  BY <1>3, ErroredIs DEF ReadBots, ReadMatch, ErrorsAre
<1> QED
  BY <1>4, <1>5, <1>6, ErroredIs DEF ReadRest, ErrorsAre

LEMMA BlameIsRead ==
  ASSUME AllWell, OutcomeFor(order, "OK", result).blame # "nobody"
  PROVE  end[<<1, "build">>].by = "itself"
<1> DEFINE step == PhaseNamed(result, "build").steps["build"]
<1>1. PhasesNamed(result, "build") # {} /\ ~ step.timedOut
  BY RestBlamesNobody, ErroredIs DEF OutcomeFor, ErrorsAre
<1> QED
  BY <1>1, BuildIsRead

LEMMA Numbers ==
  ASSUME NEW n \in Nat, NEW k \in 1 .. n
  PROVE  /\ k \in Nat /\ k \in 1 .. k /\ 1 .. k \subseteq Nat
         /\ ~ (k < n) => k = n
         /\ \A i \in 1 .. k : i < k \/ i = k
  OBVIOUS

(* The phases of a name are read by their numbers in the job.                *)
LEMMA NamedAre ==
  ASSUME AllWell, NEW name
  PROVE  /\ PhasesNamed(result, name) = {k \in 1 .. phase : Job[k].name = name}
         /\ \A k \in 1 .. phase : PhaseIsSound(order, k, Len(Job), Job[k])
         /\ phase \in 1 .. Len(Job) /\ Len(Job) \in Nat
         /\ \A k \in 1 .. phase : k < phase => Passed(k)
         /\ phase < Len(Job) => ~ Passed(phase)
<1>1. /\ DOMAIN result = 1 .. phase /\ phase \in 0 .. Len(Job) /\ phase >= 1 /\ Len(Job) \in Nat
      /\ \A k \in 1 .. phase : result[k].name = Job[k].name
  BY InJob DEF AllWell, RunInv, Types, Placed
<1>2. \A k \in 1 .. phase : PhaseIsSound(order, k, Len(Job), Job[k])
  BY <1>1, InJob DEF AllWell, RunInv, Types
<1>3. /\ \A k \in 1 .. phase : k < phase => Passed(k)
      /\ phase < Len(Job) => ~ Passed(phase)
  BY DEF AllWell, RunInv, Results
<1> QED
  BY <1>1, <1>2, <1>3 DEF PhasesNamed

Lasts(name) == PhasesNamed(result, name) # {} =>
  /\ phase = Len(Job) /\ PhaseNamed(result, name) = result[phase] /\ Job[phase].name = name
LEMMA LastIsRead ==
  ASSUME AllWell, NEW name \in {"stash", "match"}
  PROVE  Lasts(name)
<1> SUFFICES ASSUME PhasesNamed(result, name) # {}
             PROVE  /\ phase = Len(Job) /\ Job[phase].name = name
                    /\ PhaseNamed(result, name) = result[phase]
  BY DEF Lasts
<1>1. \A k \in PhasesNamed(result, name) :
        k \in 1 .. phase /\ Job[k].name = name /\ k = Len(Job)
  BY NamedAre DEF PhaseIsSound, Laid
<1>2. phase = Len(Job) /\ PhasesNamed(result, name) = {phase} /\ Job[phase].name = name
  BY <1>1, NamedAre
<1>3. Min({phase}) = phase
  BY NamedAre DEF Min
<1> QED
  BY <1>2, <1>3 DEF PhaseNamed

(* A metric is only read where every graded run came to its end.             *)
LEMMA GradeIsRead ==
  ASSUME AllWell, order.kind = "grade", ReadGrade(order, result).error = ""
  PROVE  /\ PhasesNamed(result, "grade") # {}
         /\ \A k \in PhasesNamed(result, "grade") : Passed(k)
<1> DEFINE runs == {k \in PhasesNamed(result, "grade") : Has(result[k], "grade")}
           bad == {k \in runs : RunError(result[k].steps["grade"]) # ""}
           metrics == {MetricsOf(result[k].steps["grade"]) : k \in runs}
<1>1. bad # {} => Min(bad) \in bad
  <2>1. bad \in SUBSET Nat
    <3>1. PhasesNamed(result, "grade") \subseteq Nat
      <4>1. 1 .. phase \subseteq Nat
        BY NamedAre, Numbers
      <4> QED
        BY <4>1, NamedAre
    <3> QED
      BY <3>1
  <2> HIDE DEF bad
  <2> QED
    BY <2>1, MinIsIn
<1>2. bad = {} /\ "good" \in metrics
  <2>1. ReadGrade(order, result) =
          IF bad # {} THEN Errored(RunError(result[Min(bad)].steps["grade"]))
          ELSE IF "good" \notin metrics THEN Errored("none of this problem's metrics")
          ELSE [Outcome EXCEPT !.scored = TRUE]
    BY DEF ReadGrade
  <2>2. bad # {} => RunError(result[Min(bad)].steps["grade"]) # ""
    BY <1>1
  <2> HIDE DEF bad, metrics
  <2> QED
    BY <2>1, <2>2, ErroredIs DEF ErrorsAre
<1>3. ASSUME NEW k \in PhasesNamed(result, "grade")
      PROVE  Passed(k)
  <2>1. k \in 1 .. phase /\ Job[k].foreground = "grade" /\ "grade" \in StepsOf(k)
    <3>1. k \in 1 .. phase /\ Job[k].name = "grade" /\ PhaseIsSound(order, k, Len(Job), Job[k])
      BY NamedAre
    <3> QED
      BY <3>1 DEF PhaseIsSound, Laid, Bare, StepsOf
  <2>2. k \in runs /\ result[k].steps["grade"].code = end[Fore(k)].code
    <3>1. /\ DOMAIN result[k].steps = StepsOf(k)
          /\ Tells(<<k, "grade">>, result[k].steps["grade"])
      BY <2>1, StepsOfWell
    <3> QED
      BY <2>1, <3>1 DEF Has, Tells, Fore
  <2>3. RunError(result[k].steps["grade"]) = ""
    BY <1>2, <2>2
  <2> QED
    BY <2>2, <2>3 DEF RunError, Passed
<1>4. runs # {}
  BY <1>2
<1> QED
  BY <1>3, <1>4

(* Binaries are only read where the stash step left them: cp ended well.     *)
LEMMA StashIsRead ==
  ASSUME AllWell, ReadStash(order, result).error = ""
  PROVE  phase = Len(Job) /\ Job[phase].name = "stash"
<1>1. PhasesNamed(result, "stash") # {}
  BY ErroredIs DEF ReadStash, ErrorsAre
<1> QED
  BY <1>1, LastIsRead DEF Lasts

(* A match with a player is only read in full where that came to its end.    *)
LEMMA MatchIsRead ==
  ASSUME AllWell, order.kind = "match", PhasesNamed(result, "match") # {},
         ReadBots(order, PhaseNamed(result, "match")).error = ""
  PROVE  /\ phase = Len(Job) /\ Job[phase].name = "match"
         /\ ~ ReadByFiles(Job[phase]) => end[Fore(phase)].by = "itself"
<1> DEFINE match == PhaseNamed(result, "match")
<1>1. phase = Len(Job) /\ match = result[phase] /\ Job[phase].name = "match"
  BY LastIsRead DEF Lasts
<1>2. /\ phase \in 1 .. phase
      /\ Job[phase].foreground = (IF order.builtin THEN "referee" ELSE "bot")
      /\ Job[phase].foreground \in StepsOf(phase)
  BY <1>1, NamedAre DEF PhaseIsSound, Laid, StepsOf
<1> HIDE DEF match
<1>3. /\ DOMAIN match.steps = StepsOf(phase)
      /\ \A s \in StepsOf(phase) : Tells(<<phase, s>>, match.steps[s])
      /\ \A s \in StepsOf(phase) : end[<<phase, s>>].by \in {"itself", "timeout"}
  BY <1>1, <1>2, StepsOfWell
<1>4. ReadBots(order, match).error = ""
  BY DEF match
<1>5. CASE Job[phase].foreground = "bot"
  <2>1. Has(match, "bot")
    BY <1>2, <1>3, <1>5 DEF Has
  <2>2. ~ match.steps["bot"].timedOut
    BY <1>4, <2>1, ErroredIs DEF ReadBots, ErrorsAre
  <2>3. /\ Tells(<<phase, "bot">>, match.steps["bot"])
        /\ end[<<phase, "bot">>].by \in {"itself", "timeout"}
    BY <1>2, <1>3, <1>5
  <2>4. end[<<phase, "bot">>].by = "itself"
    BY <2>2, <2>3 DEF Tells
  <2> QED
    BY <1>1, <1>5, <2>4 DEF Fore
<1>6. CASE Job[phase].foreground = "referee"
  BY <1>1, <1>6 DEF ReadByFiles
<1> QED
  BY <1>2, <1>5, <1>6

WholeJob ==
  /\ phase = Len(Job)
  /\ \A k \in 1 .. Len(Job) : ~ ReadByFiles(Job[k]) =>
       end[Fore(k)].by = "itself" /\ (Job[k].name # "match" => Passed(k))

LEMMA RestIsRead ==
  ASSUME AllWell, ReadRest(order, result).error = "",
         ~ order.prebuilt => PhasesNamed(result, "build") # {} /\ Passed(1)
  PROVE  WholeJob
<1>a. \A k \in 1 .. phase : PhaseIsSound(order, k, Len(Job), Job[k])
  BY NamedAre
<1>c. \A k \in 1 .. phase : k < phase => Passed(k)
  BY NamedAre
<1>d. phase < Len(Job) => ~ Passed(phase)
  BY NamedAre
<1>n. Len(Job) \in Nat /\ phase \in 1 .. Len(Job) /\ phase \in 1 .. phase
  <2>1. Len(Job) \in Nat /\ phase \in 1 .. Len(Job)
    BY NamedAre
  <2> QED
    BY <2>1, Numbers
<1>b. order.kind \in Kinds
  BY OrdersAssumption DEF AllWell, RunInv, Types, Kinds
<1>1. /\ phase = Len(Job)
      /\ ~ ReadByFiles(Job[phase]) =>
           end[Fore(phase)].by = "itself" /\ (Job[phase].name # "match" => Passed(phase))
  <2>1. CASE order.kind = "build"
    BY <2>1, StashIsRead DEF ReadRest, ReadByFiles
  <2>2. CASE order.kind = "grade"
    <3>1. /\ PhasesNamed(result, "grade") # {}
          /\ \A k \in PhasesNamed(result, "grade") : Passed(k)
      BY <2>2, GradeIsRead DEF ReadRest
    <3>2. Job[phase].name \in {"build", "grade"}
      <4>1. PhaseIsSound(order, phase, Len(Job), Job[phase])
        BY <1>a, <1>n
      <4> QED
        BY <2>2, <4>1 DEF PhaseIsSound, Laid
    <3>3. Passed(phase)
      <4>1. CASE Job[phase].name = "grade"
        <5>1. phase \in PhasesNamed(result, "grade")
          BY <1>n, <4>1, NamedAre
        <5> QED
          BY <3>1, <5>1
      <4>2. CASE Job[phase].name = "build"
        <5>1. PhaseIsSound(order, phase, Len(Job), Job[phase])
          BY <1>a, <1>n
        <5>2. phase = 1 /\ ~ order.prebuilt
          BY <4>2, <5>1 DEF PhaseIsSound, Laid
        <5> QED
          BY <5>2
      <4> QED
        BY <3>2, <4>1, <4>2
    <3>4. phase \in 1 .. phase /\ phase = Len(Job)
      BY <1>n, <1>d, <3>3, Numbers
    <3> QED
      BY <3>3, <3>4, ForesOfWell
  <2>3. CASE order.kind = "match"
    BY <2>3, MatchIsRead, ErroredIs DEF ReadRest, ErrorsAre
  <2> QED
    BY <1>b, <2>1, <2>2, <2>3 DEF Kinds
<1>2. \A k \in 1 .. phase : k < phase => Passed(k) /\ end[Fore(k)].by = "itself"
  BY <1>c, ForesOfWell
<1>3. \A k \in 1 .. Len(Job) : k \in 1 .. phase /\ (k < phase \/ k = phase)
  BY <1>n, <1>1, Numbers
<1> QED
  BY <1>1, <1>2, <1>3 DEF WholeJob

(* A broken build always has somebody to blame.                              *)
LEMMA SomebodyIsBlamed ==
  ASSUME NEW o \in Orders, NEW log
  PROVE  BlameForBuild(o, log) # "nobody"
<1> DEFINE named == {i \in DOMAIN o.rivals : o.rivals[i] \in log}
<1>1. o.rivals \in Seq(Range(Rivals)) /\ Range(Rivals) = {"rival", "rival2"}
  BY OrdersAssumption DEF Rivals, Range
<1>2. named # {} => Min(named) \in named
  <2>1. DOMAIN o.rivals \subseteq Nat
    BY <1>1, LenProperties
  <2>2. named \in SUBSET Nat
    BY <2>1
  <2> HIDE DEF named
  <2> QED
    BY <2>2, MinIsIn
<1>3. named # {} => o.rivals[Min(named)] \in Range(Rivals)
  <2> SUFFICES ASSUME named # {} PROVE o.rivals[Min(named)] \in Range(Rivals)
    OBVIOUS
  <2>1. Min(named) \in DOMAIN o.rivals
    BY <1>2
  <2> HIDE DEF named
  <2> QED
    BY <1>1, <2>1, ElementOfSeq, LenProperties
<1>4. BlameForBuild(o, log) =
        IF Candidate \in log \/ named = {} THEN Candidate ELSE o.rivals[Min(named)]
  BY DEF BlameForBuild
<1> HIDE DEF named
<1> QED
  BY <1>1, <1>3, <1>4 DEF Candidate

LEMMA CleanIsRead ==
  ASSUME AllWell, OutcomeFor(order, "OK", result).error = "",
         OutcomeFor(order, "OK", result).blame = "nobody"
  PROVE  WholeJob
<1> DEFINE step == PhaseNamed(result, "build").steps["build"]
<1>1. CASE order.prebuilt
  BY <1>1, RestIsRead DEF OutcomeFor
<1>2. CASE ~ order.prebuilt
  <2>1. PhasesNamed(result, "build") # {}
    BY <1>2, ErroredIs DEF OutcomeFor, ErrorsAre
  <2>2. step.code = 0
    <3>1. order \in Orders
      BY DEF AllWell, RunInv, Types
    <3>2. BlameForBuild(order, step.said) # "nobody"
      BY <3>1, SomebodyIsBlamed
    <3>3. \A b : [Outcome EXCEPT !.blame = b].blame = b
      BY DEF Outcome
    <3> QED
      BY <1>2, <3>2, <3>3, ErroredIs DEF OutcomeFor, ErrorsAre
  <2>3. Passed(1)
    BY <2>1, <2>2, BuildIsRead DEF Passed
  <2>4. ReadRest(order, result).error = ""
    BY <1>2, <2>2, ErroredIs DEF OutcomeFor, ErrorsAre
  <2> QED
    BY <2>1, <2>3, <2>4, RestIsRead
<1> QED
  BY <1>1, <1>2

LEMMA OutcomeIsWhole ==
  ASSUME NEW o, NEW s, NEW r
  PROVE  DOMAIN OutcomeFor(o, s, r) = DOMAIN Outcome
<1> DEFINE D == {"error", "blame", "scored", "built"}
<1>1. DOMAIN Outcome = D /\ DOMAIN [Outcome EXCEPT !.scored = TRUE] = D
  BY DEF Outcome
<1>2. \A v : /\ DOMAIN [Outcome EXCEPT !.built = v] = D
             /\ DOMAIN [Outcome EXCEPT !.blame = v] = D
             /\ DOMAIN [Outcome EXCEPT !.scored = TRUE, !.error = v] = D
             /\ DOMAIN Errored(v) = D
  BY DEF Outcome, Errored
<1> HIDE DEF D
<1>3. \A m : DOMAIN ReadBots(o, m) = D
  BY <1>2 DEF ReadBots, ReadMatch
<1>4. DOMAIN ReadGrade(o, r) = D
  BY <1>1, <1>2 DEF ReadGrade
<1>5. DOMAIN ReadStash(o, r) = D
  BY <1>2 DEF ReadStash
<1>6. DOMAIN ReadRest(o, r) = D
  BY <1>2, <1>3, <1>4, <1>5 DEF ReadRest
<1> QED
  BY <1>1, <1>2, <1>6 DEF OutcomeFor

(* The build's process and the phases' last steps are processes.             *)
LEMMA ProcessesRead ==
  ASSUME RunInv
  PROVE  /\ <<1, "build">> \in Processes
         /\ \A k \in 1 .. Len(Job) : Fore(k) \in Processes
<1>1. MaxPhases \in Nat /\ MaxPhases >= 1
  BY RepeatsAssumption DEF MaxPhases, RepeatsOf
<1> QED
  BY <1>1, InJob DEF Processes, Steps, RunInv, Types

(* An outcome that stands is still right after a step that ends no process   *)
(* a second time.                                                            *)
LEMMA ReportStands ==
  ASSUME RunInv, Kept, BlamesRightly, ReportsRightly,
         UNCHANGED <<order, result>>, outcome'.blame = outcome.blame,
         outcome'.error = "" => outcome.error = ""
  PROVE  BlamesRightly' /\ ReportsRightly'
<1>1. Job' = Job
  BY DEF Job
<1>2. \A k : Fore(k)' = Fore(k)
  BY <1>1 DEF Fore
<1>3. \A p \in Processes : end[p].by = "itself" => end'[p] = end[p]
  BY DEF RunInv, Traces, Traced, Kept
<1>4. BlamesRightly'
  BY <1>3, ProcessesRead DEF BlamesRightly
<1>5. ReportsRightly'
  BY <1>1, <1>2, <1>3, ProcessesRead DEF ReportsRightly, Passed
<1> QED
  BY <1>4, <1>5

LEMMA FinishReports ==
  ASSUME RunInv, Finish
  PROVE  DOMAIN outcome' = DOMAIN Outcome /\ BlamesRightly' /\ ReportsRightly'
<1>a. /\ pc = "finish" /\ status' = FinalStatus /\ outcome' = OutcomeFor(order, status', result)
      /\ UNCHANGED <<order, phase, end, result>>
  BY DEF Finish, procVars
<1>1. DOMAIN outcome' = DOMAIN Outcome
  BY <1>a, OutcomeIsWhole
<1>2. CASE status' = "OK"
  <2>1. AllWell
    BY <1>a, <1>2 DEF AllWell, FinalStatus, RunInv, Types
  <2>2. outcome'.blame # "nobody" => end[<<1, "build">>].by = "itself"
    BY <1>a, <1>2, <2>1, BlameIsRead
  <2>3. outcome'.error = "" /\ outcome'.blame = "nobody" => WholeJob
    BY <1>a, <1>2, <2>1, CleanIsRead
  <2>4. Len(result) = phase
    BY DEF RunInv, Placed
  <2>5. Job' = Job /\ \A k : Fore(k)' = Fore(k)
    BY <1>a DEF Job, Fore
  <2> QED
    BY <1>a, <1>1, <2>2, <2>3, <2>4, <2>5 DEF WholeJob, BlamesRightly,
       ReportsRightly, Passed
<1>3. CASE status' # "OK"
  <2>1. outcome' = Errored(status') /\ status' # ""
    BY <1>a, <1>3 DEF OutcomeFor, FinalStatus, RunInv, Types, Failures
  <2> QED
    BY <1>1, <2>1, ErroredIs DEF ErrorsAre, BlamesRightly, ReportsRightly
<1> QED
  BY <1>2, <1>3

LEMMA EarlyReports ==
  ASSUME RunInv, PrepareFails
  PROVE  DOMAIN outcome' = DOMAIN Outcome /\ BlamesRightly' /\ ReportsRightly'
<1>1. outcome' = Errored("WORKSPACE_FAILED")
  BY DEF PrepareFails, OutcomeFor
<1>2. DOMAIN outcome' = DOMAIN Outcome
  BY OutcomeIsWhole DEF PrepareFails
<1> QED
  BY <1>1, <1>2, ErroredIs DEF ErrorsAre, BlamesRightly, ReportsRightly

(* Nothing else of Run returns, and nothing else at all changes an outcome.  *)
LEMMA OthersReportNothing ==
  ASSUME RunInv, [Next]_vars, ~ PrepareFails, ~ Finish, ~ Archive
  PROVE  \/ pc' \notin Returned
         \/ Kept /\ UNCHANGED <<order, result, outcome, pc>>
<1>1. CASE Run
  <2>1. CASE \/ Prepare \/ StartPhase \/ StartBackground \/ TrackBackground
             \/ PortFound \/ Untrack
    BY <2>1 DEF Prepare, StartPhase, StartBackground, TrackBackground, PortFound,
       Untrack, Returned
  <2>2. CASE \/ StartForeground \/ TrackForeground \/ ForegroundEnded \/ ForegroundTimedOut
             \/ Drain \/ Collect
    BY <2>2 DEF StartForeground, TrackForeground, ForegroundEnded,
       ForegroundTimedOut, Drain,
       Collect, Returned
  <2>3. CASE BackgroundFails \/ PortNeverCame \/ ForegroundFails
    BY <2>3 DEF BackgroundFails, PortNeverCame, ForegroundFails, FailPhase, Returned
  <2> QED
    BY <1>1, <2>1, <2>2, <2>3 DEF Run
<1>2. CASE ProcessSteps
  <2>0. PICK p \in Processes : ProcessWrites(p) \/ \E code, said : Exits(p, code, said)
    BY <1>2 DEF ProcessSteps, ProcessExits, BuildExits, StashExits, GradeExits,
       RefereeExits, BotExits
  <2>1. CASE ProcessWrites(p)
    BY <2>1 DEF ProcessWrites, StashWrites, GradeWrites, RefereeWrites, Writes, Kept,
       resultVars
  <2>2. CASE \E code, said : Exits(p, code, said)
    <3>1. PICK code, said : Exits(p, code, said)
      BY <2>2
    <3>2. Kept
      BY <3>1 DEF Exits, Kept, RunInv, Types
    <3> QED
      BY <3>1, <3>2 DEF Exits, resultVars
  <2> QED
    BY <2>0, <2>1, <2>2
<1>3. CASE PublishPort \/ CancelFindsNone \/ CancelMarks \/ UNCHANGED vars
  BY <1>3 DEF PublishPort, CancelFindsNone, CancelMarks, vars, procVars, resultVars, Kept
<1>4. CASE \E p \in Processes : KillGroup(p)
  <2>1. PICK p \in Processes : KillGroup(p)
    BY <1>4
  <2>2. Kept
    BY <2>1 DEF KillGroup, Kept, RunInv, Types
  <2> QED
    BY <2>1, <2>2 DEF KillGroup, resultVars
<1> QED
  BY <1>1, <1>2, <1>3, <1>4 DEF Next, Cancel

LEMMA ReportsKeep == FullInv /\ [Next]_vars => Reports'
<1> SUFFICES ASSUME FullInv, [Next]_vars, pc' \in Returned
             PROVE  DOMAIN outcome' = DOMAIN Outcome /\ BlamesRightly' /\ ReportsRightly'
  BY DEF Reports
<1>1. CASE PrepareFails
  BY <1>1, EarlyReports DEF FullInv
<1>2. CASE Finish
  BY <1>2, FinishReports DEF FullInv
<1>3. CASE Archive
  <2>1. DOMAIN outcome = DOMAIN Outcome /\ BlamesRightly /\ ReportsRightly
    BY <1>3 DEF FullInv, Reports, Archive, Returned
  <2>2. DOMAIN Outcome = {"error", "blame", "scored", "built"}
    BY DEF Outcome
  <2>3. Kept /\ UNCHANGED <<order, result>>
    BY <1>3 DEF Archive, Kept, procVars
  <2>4. \/ outcome' = outcome
        \/ outcome' = [outcome EXCEPT !.built = {}, !.error = "not archived"]
    BY <1>3 DEF Archive
  <2>5. CASE outcome' = outcome
    BY <2>1, <2>3, <2>5, ReportStands DEF FullInv
  <2>6. CASE outcome' = [outcome EXCEPT !.built = {}, !.error = "not archived"]
    <3>1. /\ DOMAIN outcome' = DOMAIN outcome
          /\ outcome'.blame = outcome.blame /\ outcome'.error = "not archived"
      BY <2>1, <2>2, <2>6
    <3> QED
      BY <2>1, <2>3, <3>1, ReportStands DEF FullInv
  <2> QED
    BY <2>4, <2>5, <2>6
<1>4. CASE ~ PrepareFails /\ ~ Finish /\ ~ Archive
  <2>1. Kept /\ UNCHANGED <<order, result, outcome, pc>>
    BY <1>4, OthersReportNothing DEF FullInv
  <2> QED
    BY <2>1, ReportStands DEF FullInv, Reports
<1> QED
  BY <1>1, <1>2, <1>3, <1>4

(* FullInv is inductive.                                                     *)
LEMMA RunIsSound == Spec => []FullInv
<1>1. Init => FullInv
  <2>1. Init => Reports
    BY DEF Init, Reports, Returned
  <2> QED
    BY <2>1, InitHolds DEF FullInv
<1>2. FullInv /\ [Next]_vars => FullInv'
  BY NextKeeps, ReportsKeep DEF FullInv
<1> QED
  BY <1>1, <1>2, PTL DEF Spec

-----------------------------------------------------------------------------
(* A side is blamed for a broken build only when the build failed by itself, *)
(* whatever the clock, the engine and a Cancel do, and whenever: for every   *)
(* set of orders and any number of graded runs (order_outcome.cc).           *)
THEOREM BlameIsAlwaysEarned == Spec => []BlameIsEarned
<1>1. FullInv => BlameIsEarned
  BY DEF FullInv, Reports, BlamesRightly, BlameIsEarned, Ended, Returned
<1> QED
  BY <1>1, RunIsSound, PTL

(* One that comes back without an error and without blame ran all of its     *)
(* job, whatever earlier orders left in the slot: no phase is missing, and   *)
(* where the step's end is read it was not cut short, and but for a match's  *)
(* did not fail (order_outcome.cc, process_engine.cc).                       *)
THEOREM CleanResultsAreWhole == Spec => []CleanResultIsWhole
<1>1. FullInv => CleanResultIsWhole
  <2> SUFFICES ASSUME FullInv, Ended, outcome.error = "", outcome.blame = "nobody"
               PROVE  /\ Len(result) = Len(Job)
                      /\ \A k \in DOMAIN Job : ~ ReadByFiles(Job[k]) =>
                           /\ end[<<k, Job[k].foreground>>].by = "itself"
                           /\ Job[k].name # "match" =>
                                end[<<k, Job[k].foreground>>].code = 0
    BY DEF CleanResultIsWhole
  <2>1. DOMAIN Job = 1 .. Len(Job)
    BY InJob DEF FullInv, RunInv, Types
  <2> QED
    BY <2>1 DEF FullInv, Reports, ReportsRightly, Ended, Returned, Fore, Passed
<1> QED
  BY <1>1, RunIsSound, PTL

(* When Run has returned nothing it started is alive, and Cancel finds       *)
(* nothing of the job, whatever phase failed and wherever (process_engine.cc,*)
(* the children's destructors and the erase of the job).                     *)
THEOREM NothingEverOutlivesRun == Spec => []NothingOutlivesRun
<1>1. FullInv => NothingOutlivesRun
  BY DEF FullInv, RunInv, Placed, Traces, Traced, NothingOutlivesRun, Ended,
     Returned, InPhase
<1> QED
  BY <1>1, RunIsSound, PTL
=============================================================================
