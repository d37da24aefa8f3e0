---------------------------- MODULE ServiceProofs ----------------------------
(***************************************************************************)
(* Proofs about the small services of the backend, each on its own:        *)
(* ProfileRollout, LoopDemand, MeasuredStep and AddressPlan, for any       *)
(* number of requests, stages, slices, solves, steps and deployments.      *)
(***************************************************************************)
EXTENDS ProfileRollout, LoopDemand, MeasuredStep, AddressPlan, SweepLevels, SequenceTheorems,
        FiniteSetTheorems, TLAPS

-----------------------------------------------------------------------------
(***************************************************************************)
(* Rollouts.  OneAttendedRun is inductive with the types.  AnswerEndsScript *)
(* is not: that the script is over when the generator unregisters depends  *)
(* on how it got there, by an end, a stop or the limit (RolloutCourse).    *)
(***************************************************************************)
RolloutPoints == {"idle", "announced", "reading", "killing", "read", "left", "over"}
ScriptStates == {"none", "running", "done", "failed", "killed"}
RolloutResults == {"none", "stopped", "timeout", "completed", "failed"}

RolloutTypeOK ==
    /\ stopped \in [Runs -> BOOLEAN]
    /\ point \in [Runs -> RolloutPoints]
    /\ script \in [Runs -> ScriptStates]
    /\ DOMAIN stage = Runs
    /\ result \in [Runs -> RolloutResults]

(* Where the generator stands says how far the script and the answer are.  *)
RolloutCourse ==
    \A r \in Runs :
        /\ point[r] \in {"idle", "announced", "reading"} => result[r] = "none"
        /\ point[r] = "killing" => result[r] # "completed"
        /\ point[r] = "read" => script[r] # "running"
        /\ script[r] = "done" => stage[r] = Stages
        /\ result[r] = "completed" => script[r] = "done"

RolloutIInv == RolloutTypeOK /\ OneAttendedRun /\ RolloutCourse /\ AnswerEndsScript

-----------------------------------------------------------------------------
LEMMA RolloutInitIInv == RolloutInit => RolloutIInv
BY DEF RolloutInit, RolloutIInv, RolloutTypeOK, OneAttendedRun, RolloutCourse, AnswerEndsScript, Attended,
       RolloutPoints, ScriptStates, RolloutResults

LEMMA RolloutTyping == ASSUME RolloutTypeOK, [RolloutNext]_rolloutVars PROVE RolloutTypeOK'
<1> USE DEF RolloutTypeOK, RolloutPoints, ScriptStates, RolloutResults, Move
<1>1. CASE Stop BY <1>1 DEF Stop
<1>2. ASSUME NEW r \in Runs, Register(r) PROVE RolloutTypeOK'
  BY <1>2 DEF Register
<1>3. ASSUME NEW r \in Runs, Launch(r) PROVE RolloutTypeOK'
  BY <1>3 DEF Launch
<1>4. ASSUME NEW r \in Runs, Poll(r) \/ TimeOut(r) PROVE RolloutTypeOK'
  BY <1>4 DEF Poll, TimeOut
<1>5. ASSUME NEW r \in Runs, Kill(r) PROVE RolloutTypeOK'
  BY <1>5 DEF Kill
<1>6. ASSUME NEW r \in Runs, Collect(r) PROVE RolloutTypeOK'
  BY <1>6 DEF Collect
<1>7. ASSUME NEW r \in Runs, Unregister(r) PROVE RolloutTypeOK'
  BY <1>7 DEF Unregister
<1>8. ASSUME NEW r \in Runs, Disconnect(r) PROVE RolloutTypeOK'
  BY <1>8 DEF Disconnect
<1>9. ASSUME NEW r \in Runs, Advance(r) \/ GiveUp(r) PROVE RolloutTypeOK'
  BY <1>9 DEF Advance, GiveUp
<1>10. CASE UNCHANGED rolloutVars BY <1>10 DEF rolloutVars
<1> QED
  BY <1>1, <1>2, <1>3, <1>4, <1>5, <1>6, <1>7, <1>8, <1>9, <1>10
     DEF RolloutNext, Step

(* The run that registers tells the registered one to stop; the others     *)
(* with a client have been told before.                                    *)
LEMMA AttendedStep ==
    ASSUME RolloutTypeOK, OneAttendedRun, [RolloutNext]_rolloutVars PROVE OneAttendedRun'
<1> USE DEF RolloutTypeOK, RolloutPoints, OneAttendedRun, Attended, Move
<1>1. CASE Stop BY <1>1 DEF Stop
<1>2. ASSUME NEW r \in Runs, Register(r) PROVE OneAttendedRun'
  BY <1>2 DEF Register
<1>3. ASSUME NEW r \in Runs, Step(r) \/ TimeOut(r) PROVE OneAttendedRun'
  BY <1>3 DEF Step, Launch, Poll, Kill, Collect, Unregister, TimeOut
<1>4. ASSUME NEW r \in Runs, Disconnect(r) \/ Advance(r) \/ GiveUp(r)
      PROVE OneAttendedRun'
  BY <1>4 DEF Disconnect, Advance, GiveUp
<1>5. CASE UNCHANGED rolloutVars BY <1>5 DEF rolloutVars
<1> QED
  BY <1>1, <1>2, <1>3, <1>4, <1>5 DEF RolloutNext

LEMMA CourseStep ==
    ASSUME RolloutTypeOK, RolloutCourse, AnswerEndsScript, [RolloutNext]_rolloutVars
    PROVE  RolloutCourse' /\ AnswerEndsScript'
<1> DEFINE Ended == RolloutCourse' /\ AnswerEndsScript'
<1> USE DEF RolloutTypeOK, RolloutPoints, ScriptStates, RolloutResults, RolloutCourse, AnswerEndsScript, Move
<1>1. CASE Stop BY <1>1 DEF Stop
<1>2. ASSUME NEW r \in Runs, Register(r) PROVE Ended
  BY <1>2 DEF Register
<1>3. ASSUME NEW r \in Runs, Launch(r) PROVE Ended
  BY <1>3 DEF Launch
<1>4. ASSUME NEW r \in Runs, Poll(r) \/ TimeOut(r) PROVE Ended
  BY <1>4 DEF Poll, TimeOut
<1>5. ASSUME NEW r \in Runs, Kill(r) PROVE Ended
  BY <1>5 DEF Kill
<1>6. ASSUME NEW r \in Runs, Collect(r) PROVE Ended
  BY <1>6 DEF Collect
<1>7. ASSUME NEW r \in Runs, Unregister(r) PROVE Ended
  BY <1>7 DEF Unregister
<1>8. ASSUME NEW r \in Runs, Disconnect(r) PROVE Ended
  BY <1>8 DEF Disconnect
<1>9. ASSUME NEW r \in Runs, Advance(r) \/ GiveUp(r) PROVE Ended
  BY <1>9 DEF Advance, GiveUp
<1>10. CASE UNCHANGED rolloutVars BY <1>10 DEF rolloutVars
<1> QED
  BY <1>1, <1>2, <1>3, <1>4, <1>5, <1>6, <1>7, <1>8, <1>9, <1>10
     DEF RolloutNext, Step

LEMMA RolloutInvariance == RolloutSpec => []RolloutIInv
<1>1. RolloutIInv /\ [RolloutNext]_rolloutVars => RolloutIInv'
  BY RolloutTyping, AttendedStep, CourseStep DEF RolloutIInv
<1> QED
  BY RolloutInitIInv, <1>1, PTL DEF RolloutSpec

-----------------------------------------------------------------------------
(* Of any number of rollouts of a profile at most one with a client is not *)
(* told to stop, and it is the one a stop request reaches.                 *)
THEOREM OneRollout == RolloutSpec => []OneAttendedRun
BY RolloutInvariance, PTL DEF RolloutIInv

(* No answer of a rollout is given while its script runs, and "completed"  *)
(* is said only of a script that has finished every stage.                 *)
THEOREM AnswersAreFinal == RolloutSpec => []AnswerEndsScript
BY RolloutInvariance, PTL DEF RolloutIInv

-----------------------------------------------------------------------------
(***************************************************************************)
(* Loop demand.  What holds of a demand or a result while solves overlap   *)
(* is said of each solve that has stored its own: what is there now is its *)
(* own or comes from a solve that was not over when it began (Storing,     *)
(* Publishing).  Reads take that over, since the solves that were over at  *)
(* a moment have stored everything (History, Course).                      *)
(***************************************************************************)
SolvePlaces ==
    {"idle", "reading", "solving", "failed", "writing", "solved", "published", "over"}

FromPs == PsSolves \cup {NoSolve}
FromAny == AllSolves \cup {NoSolve}

DemandTypeOK ==
    /\ demand \in [1..Slices -> FromPs]
    /\ \A l \in Layers : /\ lastOf[l] \in SolvesOf[l] \cup {NoSolve}
                         /\ cycleOf[l] \in SolvesOf[l] \cup {NoSolve}
    /\ DOMAIN lastOf = Layers /\ DOMAIN cycleOf = Layers
    /\ place \in [AllSolves -> SolvePlaces]
    /\ used \in [PmSolves -> Seq(FromPs)]
    /\ written \in [PsSolves -> 0..Slices]
    /\ before \in [AllSolves -> SUBSET AllSolves]
    /\ status \in [pc : {"idle", "reading"}, layer : Layers,
                   before : SUBSET AllSolves, cycle : FromAny, last : FromAny]
    /\ status.cycle \in SolvesOf[status.layer] \cup {NoSolve}

(* Only solves that are over were over when something began. *)
History ==
    /\ \A s \in AllSolves : before[s] \subseteq Over
    /\ status.before \subseteq Over

(* Where a solve stands says how much it has read or written.              *)
Course ==
    /\ \A m \in PmSolves :
          /\ place[m] = "idle" => used[m] = <<>>
          /\ Len(used[m]) <= Slices
          /\ place[m] = "reading" => Len(used[m]) < Slices
    /\ \A s \in PsSolves :
          /\ place[s] = "writing" => written[s] < Slices
          /\ place[s] \in {"solved", "published", "over"} => written[s] = Slices
          /\ place[s] \in {"idle", "solving"} => written[s] = 0

(* What is stored or was read comes from a solve that has stored it.       *)
Origins ==
    /\ \A i \in 1..Slices : demand[i] # NoSolve => written[demand[i]] > 0
    /\ \A m \in PmSolves : \A i \in DOMAIN used[m] :
          used[m][i] # NoSolve => written[used[m][i]] > 0
    /\ \A l \in Layers :
          /\ lastOf[l] # NoSolve => place[lastOf[l]] \in {"published", "over"}
          /\ cycleOf[l] # NoSolve => place[cycleOf[l]] = "over"
    /\ status.cycle # NoSolve => place[status.cycle] = "over"

Storing ==
    \A s \in PsSolves, i \in 1..Slices :
        i <= written[s] => ~Outdated(demand[i], {s})

Publishing ==
    \A l \in Layers : \A s \in SolvesOf[l] :
        place[s] \in {"published", "over"} => ~Outdated(lastOf[l], {s})

DemandBase == DemandTypeOK /\ History /\ Course /\ Origins
DemandIInv == DemandBase /\ Storing /\ Publishing /\ ResultsAreRecent

-----------------------------------------------------------------------------
LEMMA SolvesAreApart ==
    /\ SolvesOf["pm"] = PmSolves /\ SolvesOf["ps"] = PsSolves
    /\ \A l \in Layers : SolvesOf[l] \subseteq AllSolves
    /\ \A l, k \in Layers : \A s \in SolvesOf[l] : s \in SolvesOf[k] => l = k
    /\ PmSolves \subseteq AllSolves /\ PsSolves \subseteq AllSolves
    /\ NoSolve \notin AllSolves
BY SolvesAssumption DEF SolvesOf, Layers, AllSolves

LEMMA DemandInitIInv == ASSUME DemandInit PROVE DemandIInv
<1> USE DEF DemandInit
<1>1. DemandTypeOK
  BY SlicesAssumption, SolvesAreApart
  DEF DemandTypeOK, SolvePlaces, FromPs, FromAny, Layers
<1>2. History
  BY DEF History
<1>3. Course
  BY SlicesAssumption, SolvesAreApart DEF Course
<1>4. Origins
  BY DEF Origins
<1>5. Storing
  BY SlicesAssumption DEF Storing
<1>6. Publishing
  BY SolvesAreApart DEF Publishing
<1>7. ResultsAreRecent
  BY SolvesAreApart DEF ResultsAreRecent, Outdated
<1> QED
  BY <1>1, <1>2, <1>3, <1>4, <1>5, <1>6, <1>7 DEF DemandIInv, DemandBase

(* The steps of DemandNext, and what each changes of the histories.        *)
LEMMA DemandSteps ==
    ASSUME DemandNext
    PROVE  \/ \E s \in AllSolves : BeginSolve(s)
           \/ \E m \in PmSolves : ReadDemand(m)
           \/ \E s \in AllSolves : Solved(s) \/ Failed(s)
           \/ \E s \in PsSolves : WriteDemand(s)
           \/ \E l \in Layers : \E s \in SolvesOf[l] :
                 PublishResult(l, s) \/ PublishCycle(l, s)
           \/ \E l \in Layers : ReadCycle(l)
           \/ ReadResult
<1>1. ASSUME NEW l \in Layers, NEW s \in SolvesOf[l], Solve(l, s)
      PROVE  \/ s \in AllSolves /\ (BeginSolve(s) \/ Solved(s) \/ Failed(s))
             \/ PublishResult(l, s) \/ PublishCycle(l, s)
  BY <1>1, SolvesAreApart DEF Solve
<1> QED
  BY <1>1 DEF DemandNext

LEMMA DemandTyping ==
    ASSUME DemandBase, [DemandNext]_demandVars PROVE DemandTypeOK'
<1> USE DEF DemandBase, DemandTypeOK, SolvePlaces, GoOn
<1>1. ASSUME NEW s \in AllSolves, BeginSolve(s) PROVE DemandTypeOK'
  BY <1>1 DEF BeginSolve, Over
<1>2. ASSUME NEW m \in PmSolves, ReadDemand(m) PROVE DemandTypeOK'
  <2>1. Len(used[m]) + 1 \in 1..Slices
    BY <1>2, SlicesAssumption, SolvesAreApart DEF ReadDemand, Course
  <2>2. used' \in [PmSolves -> Seq(FromPs)]
    <3>1. demand[Len(used[m]) + 1] \in FromPs
      BY <2>1
    <3>2. Append(used[m], demand[Len(used[m]) + 1]) \in Seq(FromPs)
      BY <3>1
    <3> QED
      BY <1>2, <3>2 DEF ReadDemand
  <2> QED
    BY <1>2, <2>2 DEF ReadDemand
<1>3. ASSUME NEW s \in AllSolves, Solved(s) \/ Failed(s) PROVE DemandTypeOK'
  BY <1>3 DEF Solved, Failed
<1>4. ASSUME NEW s \in PsSolves, WriteDemand(s) PROVE DemandTypeOK'
  <2>1. written[s] + 1 \in 1..Slices
    BY <1>4, SlicesAssumption DEF WriteDemand, Course
  <2>2. demand' \in [1..Slices -> FromPs] /\ written' \in [PsSolves -> 0..Slices]
    BY <1>4, <2>1 DEF WriteDemand, FromPs
  <2> QED
    BY <1>4, <2>2 DEF WriteDemand
<1>5. ASSUME NEW l \in Layers, NEW s \in SolvesOf[l],
             PublishResult(l, s) \/ PublishCycle(l, s)
      PROVE  DemandTypeOK'
  BY <1>5 DEF PublishResult, PublishCycle
<1>6. ASSUME NEW l \in Layers, ReadCycle(l) PROVE DemandTypeOK'
  <2>1. cycleOf[l] \in SolvesOf[l] \cup {NoSolve} /\ SolvesOf[l] \subseteq AllSolves
    BY SolvesAreApart
  <2>2. /\ status' \in [pc : {"idle", "reading"}, layer : Layers,
                        before : SUBSET AllSolves, cycle : FromAny, last : FromAny]
        /\ status'.cycle = cycleOf[l] /\ status'.layer = l
    BY <1>6, <2>1 DEF ReadCycle, FromAny, Over
  <2> QED
    BY <1>6, <2>1, <2>2 DEF ReadCycle
<1>7. CASE ReadResult
  <2>1. lastOf[status.layer] \in FromAny
    BY SolvesAreApart DEF FromAny
  <2>2. /\ status' \in [pc : {"idle", "reading"}, layer : Layers,
                        before : SUBSET AllSolves, cycle : FromAny, last : FromAny]
        /\ status'.cycle = status.cycle /\ status'.layer = status.layer
    BY <1>7, <2>1 DEF ReadResult
  <2> QED
    BY <1>7, <2>2 DEF ReadResult
<1>8. CASE UNCHANGED demandVars BY <1>8 DEF demandVars
<1> QED
  BY <1>1, <1>2, <1>3, <1>4, <1>5, <1>6, <1>7, <1>8, DemandSteps

(* Solves that are over stay over, and a solve that begins is new.         *)
HistoryStep ==
    /\ Over \subseteq Over'
    /\ \A s \in AllSolves : before'[s] # before[s] =>
          place[s] = "idle" /\ before'[s] = Over
    /\ status'.before = status.before \/ status'.before = Over

LEMMA OverGrows ==
    ASSUME DemandBase, [DemandNext]_demandVars PROVE HistoryStep
<1> USE DEF DemandBase, DemandTypeOK, SolvePlaces, GoOn, Over, HistoryStep
<1>1. ASSUME NEW s \in AllSolves, BeginSolve(s) PROVE HistoryStep
  BY <1>1 DEF BeginSolve
<1>2. ASSUME NEW m \in PmSolves, ReadDemand(m) PROVE HistoryStep
  BY <1>2, SolvesAreApart DEF ReadDemand
<1>3. ASSUME NEW s \in AllSolves, Solved(s) \/ Failed(s) PROVE HistoryStep
  BY <1>3 DEF Solved, Failed
<1>4. ASSUME NEW s \in PsSolves, WriteDemand(s) PROVE HistoryStep
  BY <1>4, SolvesAreApart DEF WriteDemand
<1>5. ASSUME NEW l \in Layers, NEW s \in SolvesOf[l],
             PublishResult(l, s) \/ PublishCycle(l, s)
      PROVE  HistoryStep
  BY <1>5, SolvesAreApart DEF PublishResult, PublishCycle
<1>6. ASSUME NEW l \in Layers, ReadCycle(l) PROVE HistoryStep
  BY <1>6 DEF ReadCycle
<1>7. CASE ReadResult BY <1>7 DEF ReadResult
<1>8. CASE UNCHANGED demandVars BY <1>8 DEF demandVars
<1> QED
  BY <1>1, <1>2, <1>3, <1>4, <1>5, <1>6, <1>7, <1>8, DemandSteps

(* What was over when something that has begun began does not change.      *)
LEMMA BeforeIsFixed ==
    ASSUME DemandBase, HistoryStep, NEW s \in AllSolves, place[s] # "idle"
    PROVE  /\ before'[s] = before[s]
           /\ before[s] \subseteq Over /\ Over \subseteq Over'
           /\ \A t \in Over : t \in AllSolves /\ before'[t] = before[t]
BY DEF HistoryStep, DemandBase, History, Over

LEMMA OverIsFixed ==
    ASSUME HistoryStep, NEW t \in Over
    PROVE  t \in AllSolves /\ place[t] = "over" /\ before'[t] = before[t]
BY DEF HistoryStep, Over

LEMMA HistoryStays ==
    ASSUME DemandBase, [DemandNext]_demandVars PROVE History'
BY OverGrows DEF HistoryStep, History, DemandBase

LEMMA CourseStays ==
    ASSUME DemandBase, [DemandNext]_demandVars PROVE Course'
<1> USE SolvesAreApart, SlicesAssumption DEF DemandBase, DemandTypeOK, SolvePlaces, GoOn, Course
<1>1. ASSUME NEW s \in AllSolves, BeginSolve(s) PROVE Course'
  <2>1. s \in PmSolves => place'[s] = "reading" /\ used[s] = <<>>
    BY <1>1 DEF BeginSolve
  <2>2. s \notin PmSolves => place'[s] = "solving"
    BY <1>1 DEF BeginSolve
  <2>3. \A t \in AllSolves : t # s => place'[t] = place[t]
    BY <1>1 DEF BeginSolve
  <2>4. place[s] = "idle" /\ UNCHANGED <<used, written>>
    BY <1>1 DEF BeginSolve
  <2>5. \A t \in PsSolves : t \notin PmSolves
    BY SolvesAssumption
  <2>6. Len(<<>>) < Slices
    OBVIOUS
  <2> QED
    BY <2>1, <2>2, <2>3, <2>4, <2>5, <2>6
<1>2. ASSUME NEW m \in PmSolves, ReadDemand(m) PROVE Course'
  <2>1. /\ used'[m] = Append(used[m], demand[Len(used[m]) + 1])
        /\ Len(used'[m]) = Len(used[m]) + 1
        /\ Len(used[m]) < Slices
    BY <1>2 DEF ReadDemand
  <2>2. place'[m] = IF Len(used[m]) + 1 = Slices THEN "solving" ELSE "reading"
    BY <1>2 DEF ReadDemand
  <2>3. \A t \in AllSolves : t # m => place'[t] = place[t]
    BY <1>2 DEF ReadDemand
  <2>4. \A t \in PmSolves : t # m => used'[t] = used[t]
    BY <1>2 DEF ReadDemand
  <2>5. \A t \in PsSolves : t # m
    BY SolvesAssumption
  <2>6. written' = written
    BY <1>2 DEF ReadDemand
  <2>7. Len(used[m]) \in Nat
    OBVIOUS
  <2>8. \A t \in PmSolves : /\ place'[t] = "idle" => used'[t] = <<>>
                            /\ Len(used'[t]) <= Slices
                            /\ place'[t] = "reading" => Len(used'[t]) < Slices
    BY <2>1, <2>2, <2>3, <2>4, <2>7
  <2> QED
    BY <2>3, <2>5, <2>6, <2>8
<1>3. ASSUME NEW s \in AllSolves, Solved(s) \/ Failed(s) PROVE Course'
  <2>1. /\ place[s] = "solving" /\ UNCHANGED <<used, written>>
        /\ \A t \in AllSolves : t # s => place'[t] = place[t]
        /\ place'[s] \in {"solved", "writing", "failed"}
        /\ s \notin PmSolves => place'[s] \in {"writing", "failed"}
    BY <1>3 DEF Solved, Failed
  <2>2. \A t \in PsSolves : t \notin PmSolves
    BY SolvesAssumption
  <2> QED
    BY <2>1, <2>2
<1>4. ASSUME NEW s \in PsSolves, WriteDemand(s) PROVE Course'
  <2>1. /\ written'[s] = written[s] + 1 /\ written[s] < Slices
        /\ \A t \in PsSolves : t # s => written'[t] = written[t]
        /\ place'[s] = IF written[s] + 1 = Slices THEN "solved" ELSE "writing"
        /\ \A t \in AllSolves : t # s => place'[t] = place[t]
        /\ used' = used
    BY <1>4 DEF WriteDemand
  <2>2. \A t \in PmSolves : t # s
    BY SolvesAssumption
  <2>3. \A t \in PsSolves :
          /\ place'[t] = "writing" => written'[t] < Slices
          /\ place'[t] \in {"solved", "published", "over"} => written'[t] = Slices
          /\ place'[t] \in {"idle", "solving"} => written'[t] = 0
    BY <2>1
  <2> QED
    BY <2>1, <2>2, <2>3
<1>5. ASSUME NEW l \in Layers, NEW s \in SolvesOf[l],
             PublishResult(l, s) \/ PublishCycle(l, s)
      PROVE  Course'
  BY <1>5 DEF PublishResult, PublishCycle
<1>6. ASSUME NEW l \in Layers, ReadCycle(l) PROVE Course'
  BY <1>6 DEF ReadCycle
<1>7. CASE ReadResult BY <1>7 DEF ReadResult
<1>8. CASE UNCHANGED demandVars BY <1>8 DEF demandVars
<1> QED
  BY <1>1, <1>2, <1>3, <1>4, <1>5, <1>6, <1>7, <1>8, DemandSteps

(* No step takes back what a solve has stored or published.                *)
LEMMA StoredStays ==
    ASSUME DemandBase, [DemandNext]_demandVars
    PROVE  /\ \A s \in PsSolves : written'[s] >= written[s]
           /\ \A s \in AllSolves : /\ place[s] = "over" => place'[s] = "over"
                                   /\ place[s] = "published" =>
                                         place'[s] \in {"published", "over"}
<1> DEFINE Stays == /\ \A s \in PsSolves : written'[s] >= written[s]
                    /\ \A s \in AllSolves :
                          /\ place[s] = "over" => place'[s] = "over"
                          /\ place[s] = "published" =>
                                place'[s] \in {"published", "over"}
<1> SUFFICES Stays
  OBVIOUS
<1> USE SolvesAreApart, SlicesAssumption DEF DemandBase, DemandTypeOK, SolvePlaces, GoOn
<1>1. ASSUME NEW s \in AllSolves, BeginSolve(s) PROVE Stays
  BY <1>1 DEF BeginSolve
<1>2. ASSUME NEW m \in PmSolves, ReadDemand(m) PROVE Stays
  BY <1>2 DEF ReadDemand
<1>3. ASSUME NEW s \in AllSolves, Solved(s) \/ Failed(s) PROVE Stays
  BY <1>3 DEF Solved, Failed
<1>4. ASSUME NEW s \in PsSolves, WriteDemand(s) PROVE Stays
  BY <1>4 DEF WriteDemand
<1>5. ASSUME NEW l \in Layers, NEW s \in SolvesOf[l],
             PublishResult(l, s) \/ PublishCycle(l, s)
      PROVE  Stays
  BY <1>5 DEF PublishResult, PublishCycle
<1>6. ASSUME NEW l \in Layers, ReadCycle(l) PROVE Stays
  BY <1>6 DEF ReadCycle
<1>7. CASE ReadResult BY <1>7 DEF ReadResult
<1>8. CASE UNCHANGED demandVars BY <1>8 DEF demandVars
<1> QED
  BY <1>1, <1>2, <1>3, <1>4, <1>5, <1>6, <1>7, <1>8, DemandSteps

LEMMA OriginsStay ==
    ASSUME DemandBase, [DemandNext]_demandVars PROVE Origins'
<1> USE SolvesAreApart, SlicesAssumption
        DEF DemandBase, DemandTypeOK, SolvePlaces, GoOn, Origins
<1>0. /\ \A s \in PsSolves : written'[s] >= written[s]
      /\ \A s \in PsSolves : written[s] > 0 => written'[s] > 0
      /\ \A s \in AllSolves : /\ place[s] = "over" => place'[s] = "over"
                              /\ place[s] = "published" =>
                                    place'[s] \in {"published", "over"}
  <2>1. \A s \in PsSolves : written'[s] >= written[s]
    BY StoredStays
  <2>2. \A s \in PsSolves : written[s] \in Nat /\ written'[s] \in Nat
    BY DemandTyping
  <2>3. \A s \in PsSolves : written[s] > 0 => written'[s] > 0
    <3> HIDE DEF DemandTypeOK, Origins
    <3> QED BY <2>1, <2>2
  <2> QED
    BY <2>1, <2>3, StoredStays
<1>a. \A i \in 1..Slices : demand[i] # NoSolve => demand[i] \in PsSolves
  BY DEF FromPs
<1>b. \A m \in PmSolves : \A i \in DOMAIN used[m] :
         used[m][i] # NoSolve => used[m][i] \in PsSolves
  BY DEF FromPs
<1>c. \A l \in Layers : /\ lastOf[l] # NoSolve => lastOf[l] \in AllSolves
                        /\ cycleOf[l] # NoSolve => cycleOf[l] \in AllSolves
  OBVIOUS
<1>d. status.cycle # NoSolve => status.cycle \in AllSolves
  BY DEF FromAny
<1> DEFINE A == \A i \in 1..Slices : demand[i] # NoSolve => written[demand[i]] > 0
           B == \A m \in PmSolves : \A i \in DOMAIN used[m] :
                   used[m][i] # NoSolve => written[used[m][i]] > 0
           C == \A l \in Layers :
                   /\ lastOf[l] # NoSolve =>
                         place[lastOf[l]] \in {"published", "over"}
                   /\ cycleOf[l] # NoSolve => place[cycleOf[l]] = "over"
           D == status.cycle # NoSolve => place[status.cycle] = "over"
<1>1. demand' = demand => A'
  BY <1>0, <1>a
<1>2. used' = used => B'
  BY <1>0, <1>b
<1>3. lastOf' = lastOf /\ cycleOf' = cycleOf => C'
  BY <1>0, <1>c
<1>4. status'.cycle = status.cycle => D'
  BY <1>0, <1>d
<1>5. CASE UNCHANGED <<demand, used, lastOf, cycleOf, status>>
  BY <1>1, <1>2, <1>3, <1>4, <1>5
<1>6. ASSUME NEW m \in PmSolves, ReadDemand(m) PROVE Origins'
  <2>1. /\ UNCHANGED <<demand, lastOf, cycleOf, status, written>>
        /\ \A t \in PmSolves : t # m => used'[t] = used[t]
        /\ used'[m] = Append(used[m], demand[Len(used[m]) + 1])
    BY <1>6 DEF ReadDemand
  <2>2. Len(used[m]) + 1 \in 1..Slices
    BY <1>6 DEF ReadDemand, Course
  <2>3. \A i \in DOMAIN used'[m] :
          used'[m][i] = IF i \in DOMAIN used[m] THEN used[m][i]
                        ELSE demand[Len(used[m]) + 1]
    <3>1. used[m] \in Seq(FromPs) /\ demand[Len(used[m]) + 1] \in FromPs
      BY <2>2
    <3> QED
      BY <2>1, <3>1
  <2>4. B'
    <3> SUFFICES ASSUME NEW t \in PmSolves, NEW i \in DOMAIN used'[t],
                        used'[t][i] # NoSolve
                 PROVE  written'[used'[t][i]] > 0
      OBVIOUS
    <3>1. CASE t # m
      BY <2>1, <3>1
    <3>2. CASE t = m
      <4>1. CASE i \in DOMAIN used[m]
        BY <1>b, <2>1, <2>3, <3>2, <4>1
      <4>2. CASE i \notin DOMAIN used[m]
        <5>1. used'[t][i] = demand[Len(used[m]) + 1]
          BY <2>3, <3>2, <4>2
        <5> QED
          BY <2>1, <2>2, <5>1
      <4> QED BY <4>1, <4>2
    <3> QED BY <3>1, <3>2
  <2> QED
    BY <1>1, <1>3, <1>4, <2>1, <2>4
<1>7. ASSUME NEW s \in PsSolves, WriteDemand(s) PROVE Origins'
  <2>1. /\ UNCHANGED <<used, lastOf, cycleOf, status>>
        /\ written'[s] = written[s] + 1 /\ written'[s] > 0
        /\ \A i \in 1..Slices : demand'[i] = s \/ demand'[i] = demand[i]
    BY <1>7 DEF WriteDemand
  <2>2. A'
    BY <1>0, <1>a, <2>1
  <2> QED
    BY <1>2, <1>3, <1>4, <2>1, <2>2
<1>8. ASSUME NEW l \in Layers, NEW s \in SolvesOf[l],
             PublishResult(l, s) \/ PublishCycle(l, s)
      PROVE  Origins'
  <2>1. /\ UNCHANGED <<demand, used, status>>
        /\ place'[s] \in {"published", "over"}
        /\ \A k \in Layers : lastOf'[k] = s \/ lastOf'[k] = lastOf[k]
        /\ \A k \in Layers : \/ cycleOf'[k] = s /\ place'[s] = "over"
                             \/ cycleOf'[k] = cycleOf[k]
    BY <1>8 DEF PublishResult, PublishCycle
  <2>2. C'
    BY <1>0, <1>c, <2>1
  <2> QED
    BY <1>1, <1>2, <1>4, <2>1, <2>2
<1>9. ASSUME NEW l \in Layers, ReadCycle(l) PROVE Origins'
  <2>1. /\ UNCHANGED <<demand, used, lastOf, cycleOf, place>>
        /\ status'.cycle = cycleOf[l]
    BY <1>9 DEF ReadCycle
  <2>2. D'
    BY <2>1
  <2> QED
    BY <1>1, <1>2, <1>3, <2>1, <2>2
<1>10. CASE ReadResult
  <2>1. /\ UNCHANGED <<demand, used, lastOf, cycleOf>>
        /\ status'.cycle = status.cycle
    BY <1>10 DEF ReadResult
  <2> QED
    BY <1>1, <1>2, <1>3, <1>4, <2>1
<1>11. ASSUME NEW s \in AllSolves, BeginSolve(s) \/ Solved(s) \/ Failed(s)
       PROVE  Origins'
  BY <1>5, <1>11 DEF BeginSolve, Solved, Failed
<1>12. CASE UNCHANGED demandVars
  BY <1>5, <1>12 DEF demandVars
<1> QED
  BY <1>6, <1>7, <1>8, <1>9, <1>10, <1>11, <1>12, DemandSteps

LEMMA BaseStays ==
    ASSUME DemandBase, [DemandNext]_demandVars PROVE DemandBase'
BY DemandTyping, HistoryStays, CourseStays, OriginsStay DEF DemandBase

(* A solve that has stored or published has begun.                         *)
LEMMA StoredHasBegun ==
    ASSUME DemandBase
    PROVE  /\ \A s \in PsSolves : written[s] > 0 => place[s] # "idle"
           /\ \A i \in 1..Slices : demand[i] \in PsSolves \cup {NoSolve}
           /\ \A m \in PmSolves : \A i \in DOMAIN used[m] :
                 used[m][i] # NoSolve =>
                    used[m][i] \in PsSolves /\ place[used[m][i]] # "idle"
BY SolvesAreApart DEF DemandBase, DemandTypeOK, Course, Origins, FromPs

LEMMA StoringStays ==
    ASSUME DemandBase, Storing, [DemandNext]_demandVars PROVE Storing'
<1> SUFFICES ASSUME NEW s \in PsSolves, NEW i \in 1..Slices, i <= written'[s]
             PROVE  demand'[i] # NoSolve /\ demand'[i] \notin before'[s]
  BY DEF Storing, Outdated
<1>0. HistoryStep
  BY OverGrows
<1>1. s \in AllSolves
  BY SolvesAreApart
<1>2. CASE \E t \in PsSolves : WriteDemand(t)
  <2> PICK t \in PsSolves : WriteDemand(t)
    BY <1>2
  <2>1. /\ before' = before /\ t \notin Over /\ t # NoSolve
        /\ \A k \in 1..Slices :
              demand'[k] = IF k = written[t] + 1 THEN t ELSE demand[k]
        /\ \A y \in PsSolves :
              written'[y] = IF y = t THEN written[t] + 1 ELSE written[y]
    BY SolvesAreApart DEF WriteDemand, GoOn, Over, DemandBase, DemandTypeOK
  <2>2. before[s] \subseteq Over
    BY <1>1 DEF DemandBase, History
  <2>3. CASE i = written[t] + 1
    BY <2>1, <2>2, <2>3
  <2>4. CASE i # written[t] + 1
    <3>1. i <= written[s]
      BY <2>1, <2>4 DEF DemandBase, DemandTypeOK
    <3> QED
      BY <2>1, <2>4, <3>1 DEF Storing, Outdated
  <2> QED BY <2>3, <2>4
<1>3. CASE ~ \E t \in PsSolves : WriteDemand(t)
  <2>1. demand' = demand /\ written' = written
    BY <1>3, DemandSteps DEF BeginSolve, ReadDemand, Solved, Failed, PublishResult,
       PublishCycle, ReadCycle, ReadResult, demandVars
  <2>2. place[s] # "idle"
    <3>1. written[s] > 0
      BY <2>1 DEF DemandBase, DemandTypeOK
    <3> QED BY <3>1, StoredHasBegun
  <2>3. before'[s] = before[s]
    BY <1>0, <1>1, <2>2, BeforeIsFixed
  <2> QED
    BY <2>1, <2>3 DEF Storing, Outdated
<1> QED BY <1>2, <1>3

LEMMA PublishingStays ==
    ASSUME DemandBase, Publishing, [DemandNext]_demandVars PROVE Publishing'
<1> SUFFICES ASSUME NEW l \in Layers, NEW s \in SolvesOf[l],
                    place'[s] \in {"published", "over"}
             PROVE  lastOf'[l] # NoSolve /\ lastOf'[l] \notin before'[s]
  BY DEF Publishing, Outdated
<1>0. HistoryStep
  BY OverGrows
<1>1. s \in AllSolves
  BY SolvesAreApart
<1>2. CASE \E k \in Layers : \E t \in SolvesOf[k] : PublishResult(k, t)
  <2> PICK k \in Layers : \E t \in SolvesOf[k] : PublishResult(k, t)
    BY <1>2
  <2> PICK t \in SolvesOf[k] : PublishResult(k, t)
    OBVIOUS
  <2>1. /\ before' = before /\ t \notin Over /\ t # NoSolve /\ t \in AllSolves
        /\ \A y \in AllSolves : y # t => place'[y] = place[y]
        /\ lastOf'[l] = IF l = k THEN t ELSE lastOf[l]
    BY SolvesAreApart DEF PublishResult, GoOn, Over, DemandBase, DemandTypeOK
  <2>2. before[s] \subseteq Over
    BY <1>1 DEF DemandBase, History
  <2>3. CASE l = k
    BY <2>1, <2>2, <2>3
  <2>4. CASE l # k
    <3>1. s # t
      BY <2>4, SolvesAreApart
    <3> QED
      BY <1>1, <2>1, <2>4, <3>1 DEF Publishing, Outdated
  <2> QED BY <2>3, <2>4
<1>3. CASE ~ \E k \in Layers : \E t \in SolvesOf[k] : PublishResult(k, t)
  <2> USE SolvesAreApart DEF DemandBase, DemandTypeOK, GoOn
  <2> DEFINE Goal == /\ lastOf' = lastOf
                     /\ place[s] \in {"published", "over"}
  <2>1. ASSUME NEW t \in AllSolves, BeginSolve(t) \/ Solved(t) \/ Failed(t)
        PROVE  Goal
    BY <1>1, <2>1 DEF BeginSolve, Solved, Failed
  <2>2. ASSUME NEW m \in PmSolves, ReadDemand(m) PROVE Goal
    BY <1>1, <2>2 DEF ReadDemand
  <2>3. ASSUME NEW t \in PsSolves, WriteDemand(t) PROVE Goal
    BY <1>1, <2>3 DEF WriteDemand
  <2>4. ASSUME NEW k \in Layers, NEW t \in SolvesOf[k], PublishCycle(k, t)
        PROVE  Goal
    BY <1>1, <2>4 DEF PublishCycle
  <2>5. ASSUME NEW k \in Layers, ReadCycle(k) PROVE Goal
    BY <2>5 DEF ReadCycle
  <2>6. ReadResult => Goal
    BY DEF ReadResult
  <2>7. UNCHANGED demandVars => Goal
    BY DEF demandVars
  <2>8. Goal
    BY <1>3, <2>1, <2>2, <2>3, <2>4, <2>5, <2>6, <2>7, DemandSteps
  <2>9. before'[s] = before[s]
    BY <1>0, <1>1, <2>8, BeforeIsFixed
  <2> QED
    BY <2>8, <2>9 DEF Publishing, Outdated
<1> QED BY <1>2, <1>3

(* What a PM solve has read.                                               *)
ReadsAreRecent ==
    \A m \in PmSolves : \A i \in DOMAIN used[m] :
        ~Outdated(used[m][i], before[m] \cap PsSolves)

ReadsAgree ==
    \A m \in PmSolves : \A i, j \in DOMAIN used[m] :
        i < j /\ used[m][i] # NoSolve =>
          ~Outdated(used[m][j], before[used[m][i]] \cap PsSolves)

StatusIsRecent ==
    status.pc = "idle" =>
      LET mine == SolvesOf[status.layer]
      IN  /\ ~Outdated(status.last, status.before \cap mine)
          /\ status.cycle # NoSolve =>
                ~Outdated(status.last, {status.cycle}
                             \cup (before[status.cycle] \cap mine))

LEMMA RecentParts == ResultsAreRecent <=> ReadsAreRecent /\ ReadsAgree /\ StatusIsRecent
BY DEF ResultsAreRecent, ReadsAreRecent, ReadsAgree, StatusIsRecent

LEMMA ReadsStay ==
    ASSUME DemandBase, Storing, ReadsAreRecent, ReadsAgree, [DemandNext]_demandVars
    PROVE  ReadsAreRecent' /\ ReadsAgree'
<1>0. HistoryStep /\ DemandBase'
  BY OverGrows, BaseStays
<1>1. CASE \E m \in PmSolves : ReadDemand(m)
  <2> PICK m \in PmSolves : ReadDemand(m)
    BY <1>1
  <2> DEFINE n == Len(used[m]) + 1
  <2>1. /\ UNCHANGED <<demand, before, written>>
        /\ \A t \in PmSolves : t # m => used'[t] = used[t]
        /\ used'[m] = Append(used[m], demand[n])
    BY DEF ReadDemand, DemandBase, DemandTypeOK
  <2>2. n \in 1..Slices
    <3>1. place[m] = "reading"
      BY DEF ReadDemand, GoOn
    <3>2. Len(used[m]) \in Nat
      BY DEF DemandBase, DemandTypeOK
    <3>3. Len(used[m]) < Slices
      BY <3>1 DEF DemandBase, Course
    <3> QED
      BY <3>2, <3>3, SlicesAssumption
  <2>3. /\ DOMAIN used[m] = 1..(n - 1) /\ DOMAIN used'[m] = 1..n
        /\ \A i \in 1..n : used'[m][i] = IF i = n THEN demand[n] ELSE used[m][i]
    <3>1. used[m] \in Seq(FromPs) /\ demand[n] \in FromPs
      BY <2>2 DEF DemandBase, DemandTypeOK
    <3> QED
      BY <2>1, <3>1
  <2>4. \A s \in PsSolves : s \in Over =>
           demand[n] # NoSolve /\ demand[n] \notin before[s]
    <3> SUFFICES ASSUME NEW s \in PsSolves, s \in Over
                 PROVE  demand[n] # NoSolve /\ demand[n] \notin before[s]
      OBVIOUS
    <3>1. written[s] = Slices
      BY DEF Over, DemandBase, Course
    <3>2. n <= Slices
      BY <2>2, SlicesAssumption
    <3> QED
      BY <2>2, <3>1, <3>2 DEF Storing, Outdated
  <2>5. \A t \in AllSolves : before[t] \subseteq Over
    BY DEF DemandBase, History
  <2>6. ReadsAreRecent'
    <3> SUFFICES ASSUME NEW t \in PmSolves, NEW i \in DOMAIN used'[t],
                        NEW s \in before[t] \cap PsSolves
                 PROVE  used'[t][i] # NoSolve /\ used'[t][i] \notin before[s]
      BY <2>1 DEF ReadsAreRecent, Outdated
    <3>1. CASE t = m /\ i = n
      BY <2>3, <2>4, <2>5, <3>1, SolvesAreApart
    <3>2. CASE t # m \/ i # n
      <4>1. i \in DOMAIN used[t] /\ used'[t][i] = used[t][i]
        BY <2>1, <2>2, <2>3, <3>2
      <4> QED
        BY <4>1 DEF ReadsAreRecent, Outdated
    <3> QED BY <3>1, <3>2
  <2>7. ReadsAgree'
    <3> SUFFICES ASSUME NEW t \in PmSolves, NEW i \in DOMAIN used'[t],
                        NEW j \in DOMAIN used'[t], i < j,
                        used'[t][i] # NoSolve,
                        NEW s \in before[used'[t][i]] \cap PsSolves
                 PROVE  used'[t][j] # NoSolve /\ used'[t][j] \notin before[s]
      BY <2>1 DEF ReadsAgree, Outdated
    <3>1. i \in DOMAIN used[t] /\ used'[t][i] = used[t][i]
      BY <2>1, <2>2, <2>3
    <3>2. used[t][i] \in AllSolves
      BY <3>1, StoredHasBegun, SolvesAreApart
    <3>3. CASE t = m /\ j = n
      BY <2>3, <2>4, <2>5, <3>1, <3>2, <3>3
    <3>4. CASE t # m \/ j # n
      <4>1. j \in DOMAIN used[t] /\ used'[t][j] = used[t][j]
        BY <2>1, <2>2, <2>3, <3>4
      <4> QED
        BY <3>1, <4>1 DEF ReadsAgree, Outdated
    <3> QED BY <3>3, <3>4
  <2> QED BY <2>6, <2>7
<1>2. CASE ~ \E m \in PmSolves : ReadDemand(m)
  <2>1. used' = used
    BY <1>2, DemandSteps DEF BeginSolve, WriteDemand, Solved, Failed, PublishResult,
       PublishCycle, ReadCycle, ReadResult, demandVars
  <2>2. \A t \in PmSolves : DOMAIN used[t] # {} => place[t] # "idle"
    BY DEF DemandBase, Course
  <2>3. ReadsAreRecent'
    <3> SUFFICES ASSUME NEW t \in PmSolves, NEW i \in DOMAIN used[t]
                 PROVE  ~Outdated(used[t][i], before[t] \cap PsSolves)'
      BY <2>1 DEF ReadsAreRecent
    <3>1. t \in AllSolves /\ place[t] # "idle"
      BY <2>2, SolvesAreApart
    <3>2. before'[t] = before[t] /\ before[t] \subseteq Over
      BY <1>0, <3>1, BeforeIsFixed
    <3>3. \A s \in Over : before'[s] = before[s]
      BY <1>0, OverIsFixed
    <3> QED
      BY <2>1, <3>2, <3>3 DEF ReadsAreRecent, Outdated
  <2>4. ReadsAgree'
    <3> SUFFICES ASSUME NEW t \in PmSolves, NEW i \in DOMAIN used[t],
                        NEW j \in DOMAIN used[t], i < j, used[t][i] # NoSolve
                 PROVE  ~Outdated(used[t][j], before[used[t][i]] \cap PsSolves)'
      BY <2>1 DEF ReadsAgree
    <3>1. used[t][i] \in AllSolves /\ place[used[t][i]] # "idle"
      BY StoredHasBegun, SolvesAreApart
    <3>2. before'[used[t][i]] = before[used[t][i]] /\ before[used[t][i]] \subseteq Over
      BY <1>0, <3>1, BeforeIsFixed
    <3>3. \A s \in Over : before'[s] = before[s]
      BY <1>0, OverIsFixed
    <3> QED
      BY <2>1, <3>2, <3>3 DEF ReadsAgree, Outdated
  <2> QED BY <2>3, <2>4
<1> QED BY <1>1, <1>2

LEMMA StatusStays ==
    ASSUME DemandBase, Publishing, StatusIsRecent, [DemandNext]_demandVars
    PROVE  StatusIsRecent'
<1>0. HistoryStep
  BY OverGrows
<1> DEFINE mine == SolvesOf[status.layer]
<1>1. status.cycle # NoSolve =>
         /\ status.cycle \in mine /\ status.cycle \in AllSolves
         /\ status.cycle \in Over /\ before[status.cycle] \subseteq Over
  BY SolvesAreApart DEF DemandBase, DemandTypeOK, Origins, Over, History
<1>2. status.before \subseteq Over
  BY DEF DemandBase, History
<1>3. \A s \in Over : before'[s] = before[s]
  BY <1>0, OverIsFixed
<1>4. CASE ReadResult
  <2>1. /\ before' = before
        /\ status'.layer = status.layer /\ status'.before = status.before
        /\ status'.cycle = status.cycle /\ status'.last = lastOf[status.layer]
    BY <1>4 DEF ReadResult, DemandBase, DemandTypeOK
  <2>2. status.layer \in Layers
    BY DEF DemandBase, DemandTypeOK
  <2>3. \A s \in mine : s \in Over =>
           lastOf[status.layer] # NoSolve /\ lastOf[status.layer] \notin before[s]
    BY <2>2 DEF Publishing, Outdated, Over
  <2> QED
    BY <1>1, <1>2, <2>1, <2>3 DEF StatusIsRecent, Outdated
<1>5. CASE \E l \in Layers : ReadCycle(l)
  BY <1>5 DEF ReadCycle, StatusIsRecent
<1>6. CASE ~ReadResult /\ ~ \E l \in Layers : ReadCycle(l)
  <2>1. status' = status
    BY <1>6, DemandSteps DEF BeginSolve, WriteDemand, Solved, Failed, PublishResult,
       PublishCycle, ReadDemand, demandVars
  <2> QED
    BY <1>1, <1>2, <1>3, <2>1 DEF StatusIsRecent, Outdated
<1> QED BY <1>4, <1>5, <1>6

-----------------------------------------------------------------------------
(* For any number of slices and of solves that overlap in any way, nothing *)
(* that was replaced when a solve or a status began is used or shown by    *)
(* it, though neither the writes nor the reads are under a lock.           *)
THEOREM RecentResults == DemandSpec => []ResultsAreRecent
<1>1. DemandInit => DemandIInv
  BY DemandInitIInv
<1>2. DemandIInv /\ [DemandNext]_demandVars => DemandIInv'
  BY BaseStays, StoringStays, PublishingStays, ReadsStay, StatusStays, RecentParts
  DEF DemandIInv, ResultsAreRecent, ReadsAreRecent, ReadsAgree, StatusIsRecent
<1>3. DemandIInv => ResultsAreRecent
  BY DEF DemandIInv
<1> QED
  BY <1>1, <1>2, <1>3, PTL DEF DemandSpec

-----------------------------------------------------------------------------
(***************************************************************************)
(* What a step measures.  The values of a set are its generation           *)
(* (Numbered), so that what a target, a frame or the pod holds says how    *)
(* old it is.  Until the interface has crossed a step, every frame of its  *)
(* generation carries its values, every later one only fields the          *)
(* interface has named, and an acknowledgement that counts for the step    *)
(* means that its values are in force (StepCourse).                        *)
(***************************************************************************)
Agents == {"sweep", "interface"}

Frames == [generation : Nat, conf : [Resources -> Nat], changed : SUBSET Resources]

Pushes == {NoPush, Asked} \cup {Holds(frame) : frame \in Frames}

Reports == [generation : Nat, status : {"none", "pending", "ok", "error"}]

StepTypeOK ==
    /\ target \in Frames
    /\ ack \in Reports
    /\ pushing \in [Agents -> Pushes]
    /\ inbox \in Seq(Frames)
    /\ reports \in Seq(Reports)
    /\ live \in [Resources -> Nat]
    /\ seen \in Nat
    /\ worker \in [pc : {"apply", "wait", "measure", "over"}, value : Nat,
                   generation : Nat]
    /\ made \in [Agents -> Nat]
    /\ theirs \in SUBSET Resources
    /\ crossed \in BOOLEAN

(* The target, and every copy of it or an earlier one that is under way.   *)
InTransit ==
    {target} \cup {pushing[a].frame : a \in {b \in Agents : pushing[b].step = "read"}}
             \cup {inbox[i] : i \in 1..Len(inbox)}

Told == {ack} \cup {reports[i] : i \in 1..Len(reports)}

Numbered ==
    /\ target.generation = made["sweep"] + made["interface"]
    /\ \A frame \in InTransit :
         /\ frame.generation <= target.generation
         /\ \A f \in Resources : frame.conf[f] <= frame.generation
    /\ seen <= target.generation
    /\ \A f \in Resources : live[f] <= seen
    /\ \A report \in Told : report.generation <= seen

StepCourse ==
    worker.pc \in {"wait", "measure"} /\ ~crossed =>
        /\ worker.value = worker.generation
        /\ worker.generation \in 1..target.generation
        /\ \A frame \in InTransit :
             /\ frame.generation = worker.generation =>
                  frame.changed = Resources
                  /\ \A f \in Resources : frame.conf[f] = worker.value
             /\ frame.generation > worker.generation =>
                  theirs # {} /\ frame.changed \subseteq theirs
        /\ theirs # {} => InForce /\ seen >= worker.generation
        /\ \A report \in Told :
             report.status = "ok"
               /\ report.generation >= worker.generation => InForce
        /\ worker.pc = "measure" => InForce

StepIInv == StepTypeOK /\ Numbered /\ StepCourse

LEMMA StepInitIInv == StepInit => StepIInv
<1> SUFFICES ASSUME StepInit PROVE StepIInv OBVIOUS
<1> USE DEF StepInit, Agents, NoPush
<1>1. StepTypeOK
  <2>1. target \in Frames /\ ack \in Reports BY DEF Frames, Reports
  <2>2. pushing \in [Agents -> Pushes] BY DEF Pushes
  <2>3. inbox \in Seq(Frames) /\ reports \in Seq(Reports) OBVIOUS
  <2>4. live \in [Resources -> Nat] /\ made \in [Agents -> Nat] OBVIOUS
  <2> QED BY <2>1, <2>2, <2>3, <2>4 DEF StepTypeOK
<1>2. InTransit = {target} /\ Told = {ack}
  BY DEF InTransit, Told
<1> QED BY <1>1, <1>2 DEF StepIInv, Numbered, StepCourse

LEMMA TransitTyping ==
    ASSUME StepTypeOK PROVE InTransit \subseteq Frames /\ Told \subseteq Reports
<1> USE DEF StepTypeOK
<1>1. ASSUME NEW a \in Agents, pushing[a].step = "read"
      PROVE  pushing[a].frame \in Frames
  <2>1. pushing[a] \in Pushes OBVIOUS
  <2>2. pushing[a] # NoPush /\ pushing[a] # Asked BY <1>1 DEF NoPush, Asked
  <2>3. PICK frame \in Frames : pushing[a] = Holds(frame) BY <2>1, <2>2 DEF Pushes
  <2> QED BY <2>3 DEF Holds
<1>2. \A i \in 1..Len(inbox) : inbox[i] \in Frames BY ElementOfSeq
<1>3. \A i \in 1..Len(reports) : reports[i] \in Reports BY ElementOfSeq
<1> QED BY <1>1, <1>2, <1>3 DEF InTransit, Told

(* Only a set makes a new frame; the others move or drop what there is.    *)
LEMMA SetTransit ==
    ASSUME StepTypeOK, NEW a \in Agents, NEW named \in SUBSET Resources,
           SetResources(a, named)
    PROVE  /\ target' \in Frames /\ pushing' \in [Agents -> Pushes]
           /\ made' \in [Agents -> Nat]
           /\ target'.generation = target.generation + 1
           /\ target'.changed = named
           /\ \A f \in Resources :
                target'.conf[f] = IF f \in named THEN Value ELSE target.conf[f]
           /\ made'["sweep"] + made'["interface"] = Value
           /\ InTransit' \subseteq InTransit \cup {target'}
           /\ Told' \subseteq Told \cup {[generation |-> 0, status |-> "pending"]}
           /\ UNCHANGED <<inbox, reports, live, seen>>
<1> USE DEF SetResources, StepTypeOK, Agents
<1>0. made["sweep"] \in Nat /\ made["interface"] \in Nat /\ Value \in Nat
  BY DEF Value
<1>1. made' \in [Agents -> Nat] /\ made'["sweep"] + made'["interface"] = Value
  <2>1. made' = [made EXCEPT ![a] = made[a] + 1] OBVIOUS
  <2>2. CASE a = "sweep" BY <1>0, <2>1, <2>2 DEF Value
  <2>3. CASE a = "interface" BY <1>0, <2>1, <2>3 DEF Value
  <2> QED BY <2>2, <2>3
<1>2. target' \in Frames /\ pushing' \in [Agents -> Pushes]
  <2>1. [f \in Resources |-> IF f \in named THEN Value ELSE target.conf[f]]
          \in [Resources -> Nat]
    BY <1>0 DEF Frames
  <2>2. target.generation + 1 \in Nat BY DEF Frames
  <2>3. target' \in Frames BY <2>1, <2>2 DEF Frames
  <2> QED BY <2>3 DEF Pushes
<1>3. /\ target'.generation = target.generation + 1 /\ target'.changed = named
      /\ \A f \in Resources :
           target'.conf[f] = IF f \in named THEN Value ELSE target.conf[f]
      /\ UNCHANGED <<inbox, reports, live, seen>>
  OBVIOUS
<1>4. Told' \subseteq Told \cup {[generation |-> 0, status |-> "pending"]}
  BY DEF Told
<1>5. \A b \in Agents : pushing'[b].step = "read" => pushing'[b] = pushing[b]
  BY DEF Asked
<1>6. InTransit' \subseteq InTransit \cup {target'}
  BY <1>5 DEF InTransit
<1> QED BY <1>1, <1>2, <1>3, <1>4, <1>6

LEMMA ReadTransit ==
    ASSUME StepTypeOK, NEW a \in Agents, ReadDesired(a)
    PROVE  pushing' \in [Agents -> Pushes] /\ InTransit' \subseteq InTransit
<1> USE DEF ReadDesired, StepTypeOK
<1>1. pushing' \in [Agents -> Pushes] BY DEF Pushes
<1>2. pushing'[a].frame = target BY DEF Holds
<1>3. \A b \in Agents \ {a} : pushing'[b] = pushing[b] OBVIOUS
<1>4. InTransit' \subseteq InTransit
  BY <1>2, <1>3 DEF InTransit
<1> QED BY <1>1, <1>4

LEMMA EnqueueTransit ==
    ASSUME StepTypeOK, NEW a \in Agents, Enqueue(a)
    PROVE  /\ pushing' \in [Agents -> Pushes] /\ inbox' \in Seq(Frames)
           /\ InTransit' \subseteq InTransit
<1> USE DEF Enqueue, StepTypeOK
<1>1. pushing' \in [Agents -> Pushes] BY DEF Pushes
<1>2. pushing[a].step = "read" /\ pushing[a] \in Pushes OBVIOUS
<1>3. pushing[a].frame \in Frames BY <1>2 DEF Pushes, NoPush, Asked, Holds
<1>4. /\ inbox' \in Seq(Frames) /\ Len(inbox') = Len(inbox) + 1
      /\ \A i \in 1..Len(inbox) : inbox'[i] = inbox[i]
      /\ inbox'[Len(inbox) + 1] = pushing[a].frame
  BY <1>3, AppendProperties
<1>5. \A i \in 1..Len(inbox') :
        inbox'[i] \in {inbox[j] : j \in 1..Len(inbox)} \cup {pushing[a].frame}
  BY <1>4
<1>6. \A b \in Agents : pushing'[b].step = "read" =>
        pushing[b].step = "read" /\ pushing'[b].frame = pushing[b].frame
  BY DEF NoPush
<1>7. InTransit' \subseteq InTransit
  BY <1>2, <1>5, <1>6 DEF InTransit
<1> QED BY <1>1, <1>4, <1>7

LEMMA AttemptTransit ==
    ASSUME StepTypeOK, Attempt
    PROVE  /\ Head(inbox) \in Frames /\ Head(inbox) \in InTransit
           /\ inbox' \in Seq(Frames) /\ InTransit' \subseteq InTransit
<1> USE DEF Attempt, StepTypeOK
<1>1. inbox \in Seq(Frames) /\ inbox # <<>> OBVIOUS
<1>2. /\ Head(inbox) \in Frames /\ Head(inbox) = inbox[1] /\ Len(inbox) \in Nat \ {0}
      /\ Tail(inbox) \in Seq(Frames) /\ Len(Tail(inbox)) = Len(inbox) - 1
      /\ \A i \in 1..Len(Tail(inbox)) : Tail(inbox)[i] = inbox[i + 1]
  BY <1>1, HeadTailProperties, EmptySeq
<1>3. Head(inbox) \in InTransit BY <1>2 DEF InTransit
<1>4. \A i \in 1..Len(inbox') : i + 1 \in 1..Len(inbox) /\ inbox'[i] = inbox[i + 1]
  BY <1>2
<1>5. InTransit' \subseteq InTransit
  BY <1>4 DEF InTransit
<1> QED BY <1>2, <1>3, <1>5

LEMMA AttemptTold ==
    ASSUME StepTypeOK, NEW report \in Reports, UNCHANGED ack,
           reports' = Append(reports, report)
    PROVE  reports' \in Seq(Reports) /\ Told' \subseteq Told \cup {report}
<1> USE DEF StepTypeOK
<1>1. /\ reports' \in Seq(Reports) /\ Len(reports') = Len(reports) + 1
      /\ \A i \in 1..Len(reports) : reports'[i] = reports[i]
      /\ reports'[Len(reports) + 1] = report
  BY AppendProperties
<1>2. \A i \in 1..Len(reports') :
        reports'[i] \in {reports[j] : j \in 1..Len(reports)} \cup {report}
  BY <1>1
<1> QED BY <1>1, <1>2 DEF Told

LEMMA ReportTold ==
    ASSUME StepTypeOK, ReportApply
    PROVE  ack' \in Reports /\ reports' \in Seq(Reports) /\ Told' \subseteq Told
<1> USE DEF ReportApply, StepTypeOK
<1>1. reports \in Seq(Reports) /\ reports # <<>> OBVIOUS
<1>2. /\ Head(reports) \in Reports /\ Head(reports) = reports[1]
      /\ Len(reports) \in Nat \ {0}
      /\ Tail(reports) \in Seq(Reports) /\ Len(Tail(reports)) = Len(reports) - 1
      /\ \A i \in 1..Len(Tail(reports)) : Tail(reports)[i] = reports[i + 1]
  BY <1>1, HeadTailProperties, EmptySeq
<1>3. \A i \in 1..Len(reports') :
        i + 1 \in 1..Len(reports) /\ reports'[i] = reports[i + 1]
  BY <1>2
<1>4. Told' \subseteq Told BY <1>2, <1>3 DEF Told
<1> QED BY <1>2, <1>4

LEMMA StepTyping == ASSUME StepTypeOK, [StepNext]_stepVars PROVE StepTypeOK'
<1> USE DEF StepTypeOK
<1>1. ASSUME NEW a \in Agents, ReadDesired(a) PROVE StepTypeOK'
  BY <1>1, ReadTransit DEF ReadDesired
<1>2. ASSUME NEW a \in Agents, Enqueue(a) PROVE StepTypeOK'
  BY <1>2, EnqueueTransit DEF Enqueue
<1>3. CASE Attempt
  <2>1. inbox' \in Seq(Frames) /\ Head(inbox).generation \in Nat
        /\ Head(inbox).conf \in [Resources -> Nat]
    BY <1>3, AttemptTransit DEF Frames
  <2>2. UNCHANGED <<target, ack, pushing, worker, made, theirs, crossed>>
    BY <1>3 DEF Attempt
  <2>3. CASE UNCHANGED <<live, seen, reports>> BY <2>1, <2>2, <2>3
  <2>4. ASSUME NEW outcome \in {"ok", "error"},
               seen' = Head(inbox).generation,
               live' = [f \in Resources |->
                          IF outcome = "ok" /\ f \in Head(inbox).changed
                          THEN Head(inbox).conf[f] ELSE live[f]],
               reports' = Append(reports,
                   [generation |-> Head(inbox).generation, status |-> outcome])
        PROVE StepTypeOK'
    <3>1. [generation |-> Head(inbox).generation, status |-> outcome] \in Reports
      BY <2>1 DEF Reports
    <3>2. reports' \in Seq(Reports) BY <2>2, <2>4, <3>1, AttemptTold
    <3>3. live' \in [Resources -> Nat] BY <2>1, <2>4
    <3> QED BY <2>1, <2>2, <2>4, <3>2, <3>3
  <2> QED BY <1>3, <2>3, <2>4 DEF Attempt
<1>4. CASE ReportApply BY <1>4, ReportTold DEF ReportApply
<1>5. ASSUME NEW named \in SUBSET Resources, SetByInterface(named) PROVE StepTypeOK'
  <2>1. SetResources("interface", named) /\ "interface" \in Agents
    BY <1>5 DEF SetByInterface, Agents
  <2>2. ack' \in Reports BY <2>1 DEF SetResources, Reports
  <2>3. crossed' \in BOOLEAN BY <1>5 DEF SetByInterface
  <2> QED BY <1>5, <2>1, <2>2, <2>3, SetTransit DEF SetByInterface
<1>6. CASE SetLevel
  <2>1. SetResources("sweep", Resources) /\ "sweep" \in Agents
    BY <1>6 DEF SetLevel, Agents
  <2>2. ack' \in Reports BY <2>1 DEF SetResources, Reports
  <2>3. target'.generation \in Nat BY <2>1, SetTransit DEF Frames
  <2>4. Value \in Nat BY DEF Value, Agents
  <2> QED BY <1>6, <2>1, <2>2, <2>3, <2>4, SetTransit DEF SetLevel
<1>7. CASE PushAgain BY <1>7 DEF PushAgain, Pushes, Agents
<1>8. CASE Applied \/ NotApplied \/ NextStep
  BY <1>8 DEF Applied, NotApplied, NextStep, StepTo
<1>9. CASE UNCHANGED stepVars BY <1>9 DEF stepVars
<1> QED
  BY <1>1, <1>2, <1>3, <1>4, <1>5, <1>6, <1>7, <1>8, <1>9 DEF StepNext, Agents

LEMMA PushAgainTransit ==
    ASSUME StepTypeOK, PushAgain PROVE InTransit' \subseteq InTransit
<1>1. \A b \in Agents : pushing'[b].step = "read" => pushing'[b] = pushing[b]
  BY DEF PushAgain, StepTypeOK, Asked
<1> QED BY <1>1 DEF PushAgain, InTransit

LEMMA SetNumbered ==
    ASSUME StepTypeOK, Numbered, NEW a \in Agents, NEW named \in SUBSET Resources,
           SetResources(a, named)
    PROVE  Numbered' /\ Value = target.generation + 1
<1> USE DEF Numbered
<1>0. /\ target \in Frames /\ target \in InTransit /\ seen \in Nat
      /\ target.generation \in Nat /\ Value = target.generation + 1
  BY DEF StepTypeOK, Frames, InTransit, Value
<1>1. target'.generation = made'["sweep"] + made'["interface"]
  BY <1>0, SetTransit
<1>2. \A frame \in InTransit :
        frame.generation <= target.generation
          /\ \A f \in Resources : frame.conf[f] <= frame.generation
  OBVIOUS
<1>3. \A f \in Resources : target.conf[f] \in Nat /\ target.conf[f] <= target.generation
  BY <1>0 DEF Frames
<1>4. \A f \in Resources : target'.conf[f] <= target'.generation
  BY <1>0, <1>3, SetTransit
<1>5. target'.generation = target.generation + 1 BY SetTransit
<1>6. \A frame \in InTransit : frame \in Frames
  BY TransitTyping
<1>7. \A frame \in InTransit' :
        frame.generation <= target'.generation
          /\ \A f \in Resources : frame.conf[f] <= frame.generation
  <2> TAKE frame \in InTransit'
  <2>1. CASE frame = target' BY <2>1, <1>0, <1>4, <1>5
  <2>2. CASE frame \in InTransit
    BY <2>2, <1>0, <1>2, <1>5, <1>6 DEF Frames
  <2> QED BY <2>1, <2>2, SetTransit
<1>8. seen' <= target'.generation /\ \A f \in Resources : live'[f] <= seen'
  BY <1>0, <1>5, SetTransit
<1>9. \A report \in Told' : report.generation <= seen'
  <2> TAKE report \in Told'
  <2>1. report \in Told \/ report.generation = 0 BY SetTransit
  <2> QED BY <1>0, <2>1, SetTransit
<1> QED BY <1>0, <1>1, <1>7, <1>8, <1>9

LEMMA NumberedStep ==
    ASSUME StepTypeOK, Numbered, [StepNext]_stepVars PROVE Numbered'
<1>1. ASSUME InTransit' \subseteq InTransit, Told' \subseteq Told,
             UNCHANGED <<target, made, seen, live>>
      PROVE  Numbered'
  BY <1>1 DEF Numbered
<1>2. ASSUME NEW a \in Agents, ReadDesired(a) PROVE Numbered'
  BY <1>1, <1>2, ReadTransit DEF ReadDesired, Told
<1>3. ASSUME NEW a \in Agents, Enqueue(a) PROVE Numbered'
  BY <1>1, <1>3, EnqueueTransit DEF Enqueue, Told
<1>4. CASE Attempt
  <2> DEFINE frame == Head(inbox)
  <2>1. frame \in Frames /\ frame \in InTransit /\ InTransit' \subseteq InTransit
    BY <1>4, AttemptTransit
  <2>2. UNCHANGED <<target, ack, made>> BY <1>4 DEF Attempt
  <2>3. CASE UNCHANGED <<live, seen, reports>>
    BY <1>1, <2>1, <2>2, <2>3 DEF Told
  <2>4. ASSUME NEW outcome \in {"ok", "error"}, ~(frame.generation <= seen),
               seen' = frame.generation,
               live' = [f \in Resources |->
                          IF outcome = "ok" /\ f \in frame.changed
                          THEN frame.conf[f] ELSE live[f]],
               reports' = Append(reports,
                   [generation |-> frame.generation, status |-> outcome])
        PROVE Numbered'
    <3> DEFINE report == [generation |-> frame.generation, status |-> outcome]
    <3>1. /\ report \in Reports /\ frame.generation \in Nat /\ seen \in Nat
          /\ report.generation = frame.generation
      BY <2>1 DEF Reports, Frames, StepTypeOK
    <3>2. Told' \subseteq Told \cup {report} BY <2>2, <2>4, <3>1, AttemptTold
    <3>3. \A r \in Told : r \in Reports
      BY DEF Told, StepTypeOK
    <3>4. \A r \in Told' : r.generation <= seen'
      <4> HIDE DEF report
      <4> TAKE r \in Told'
      <4>1. CASE r = report BY <2>4, <3>1, <4>1
      <4>2. CASE r \in Told
        BY <2>4, <3>1, <3>3, <4>2 DEF Numbered, Reports
      <4> QED BY <3>2, <4>1, <4>2
    <3>5. \A f \in Resources : live'[f] <= seen'
      <4> TAKE f \in Resources
      <4>1. /\ frame.conf[f] <= frame.generation /\ live[f] <= seen
            /\ frame.conf[f] \in Nat /\ live[f] \in Nat
        BY <2>1 DEF Numbered, Frames, StepTypeOK
      <4>2. live'[f] \in {frame.conf[f], live[f]} BY <2>4
      <4> QED BY <2>4, <3>1, <4>1, <4>2
    <3>6. seen' <= target'.generation BY <2>1, <2>2, <2>4 DEF Numbered
    <3> QED BY <2>1, <2>2, <3>4, <3>5, <3>6 DEF Numbered
  <2> QED BY <1>4, <2>3, <2>4 DEF Attempt
<1>5. CASE ReportApply
  BY <1>1, <1>5, ReportTold DEF ReportApply, InTransit
<1>6. ASSUME NEW named \in SUBSET Resources, SetByInterface(named) PROVE Numbered'
  BY <1>6, SetNumbered DEF SetByInterface, Agents
<1>7. CASE SetLevel BY <1>7, SetNumbered DEF SetLevel, Agents
<1>8. CASE PushAgain
  BY <1>1, <1>8, PushAgainTransit DEF PushAgain, Told
<1>9. CASE Applied \/ NotApplied \/ NextStep
  BY <1>1, <1>9 DEF Applied, NotApplied, NextStep, StepTo, Told, InTransit
<1>10. CASE UNCHANGED stepVars
  BY <1>1, <1>10 DEF stepVars, Told, InTransit
<1> QED
  BY <1>2, <1>3, <1>4, <1>5, <1>6, <1>7, <1>8, <1>9, <1>10 DEF StepNext, Agents

(* An interface that comes after the step's values are in force names the  *)
(* fields that may differ from then on; one that comes before crosses.     *)
LEMMA CourseSetByInterface ==
    ASSUME StepTypeOK, Numbered, StepCourse, NEW named \in (SUBSET Resources) \ {{}},
           SetByInterface(named)
    PROVE  StepCourse'
<1> SUFFICES ASSUME worker'.pc \in {"wait", "measure"}, ~crossed'
             PROVE  StepCourse'
  BY DEF StepCourse
<1> USE TransitTyping DEF StepTypeOK, Frames
<1>1. /\ SetResources("interface", named) /\ UNCHANGED worker
      /\ theirs' = theirs \cup named /\ ~crossed /\ InForce
  BY DEF SetByInterface
<1>2. /\ target'.generation = target.generation + 1 /\ target'.changed = named
      /\ InTransit' \subseteq InTransit \cup {target'}
      /\ Told' \subseteq Told \cup {[generation |-> 0, status |-> "pending"]}
      /\ UNCHANGED <<live, seen>>
  BY <1>1, SetTransit DEF Agents
<1>3. /\ worker.value = worker.generation
      /\ worker.generation \in 1..target.generation
      /\ \A frame \in InTransit :
           /\ frame.generation = worker.generation =>
                frame.changed = Resources
                /\ \A f \in Resources : frame.conf[f] = worker.value
           /\ frame.generation > worker.generation =>
                theirs # {} /\ frame.changed \subseteq theirs
      /\ theirs # {} => seen >= worker.generation
  BY <1>1 DEF StepCourse
<1>4. InForce'
  <2>1. live' = live /\ worker' = worker /\ theirs \subseteq theirs' BY <1>1, <1>2
  <2> QED BY <1>1, <2>1 DEF InForce
<1>5. theirs' # {} /\ theirs \subseteq theirs' /\ named \subseteq theirs' BY <1>1
<1>6. seen' >= worker'.generation
  <2>1. CASE theirs # {} BY <1>1, <1>2, <1>3, <2>1
  <2>2. CASE theirs = {}
    <3>1. live["cpu_limit"] = worker.value BY <1>1, <2>2 DEF InForce, Resources
    <3>2. live["cpu_limit"] <= seen BY DEF Numbered, Resources
    <3> QED BY <1>1, <1>2, <1>3, <3>1, <3>2
  <2> QED BY <2>1, <2>2
<1>7. worker'.generation \in 1..target'.generation BY <1>1, <1>2, <1>3
<1>8. \A frame \in InTransit' :
        /\ frame.generation = worker'.generation =>
             frame.changed = Resources
             /\ \A f \in Resources : frame.conf[f] = worker'.value
        /\ frame.generation > worker'.generation =>
             theirs' # {} /\ frame.changed \subseteq theirs'
  <2> TAKE frame \in InTransit'
  <2>1. CASE frame = target' BY <1>1, <1>2, <1>3, <1>5, <2>1
  <2>2. CASE frame \in InTransit BY <1>1, <1>3, <1>5, <2>2
  <2> QED BY <1>2, <2>1, <2>2
<1> QED BY <1>1, <1>3, <1>4, <1>6, <1>7, <1>8 DEF StepCourse

LEMMA CourseSetLevel ==
    ASSUME StepTypeOK, Numbered, SetLevel PROVE StepCourse'
<1> USE TransitTyping DEF StepTypeOK
<1>1. /\ SetResources("sweep", Resources) /\ theirs' = {}
      /\ worker'.pc = "wait" /\ worker'.value = Value
      /\ worker'.generation = target'.generation
  BY DEF SetLevel
<1>2. Value = target.generation + 1 BY <1>1, SetNumbered DEF Agents
<1>3. /\ target'.generation = target.generation + 1 /\ target'.changed = Resources
      /\ \A f \in Resources : target'.conf[f] = Value
      /\ InTransit' \subseteq InTransit \cup {target'}
      /\ Told' \subseteq Told \cup {[generation |-> 0, status |-> "pending"]}
      /\ target.generation \in Nat
  BY <1>1, SetTransit DEF Agents, Frames
<1>4. \A frame \in InTransit' :
        /\ frame.generation = worker'.generation =>
             frame.changed = Resources
             /\ \A f \in Resources : frame.conf[f] = worker'.value
        /\ ~(frame.generation > worker'.generation)
  <2> TAKE frame \in InTransit'
  <2>1. CASE frame = target' BY <1>1, <1>2, <1>3, <2>1
  <2>2. CASE frame \in InTransit
    <3>1. frame.generation <= target.generation /\ frame.generation \in Nat
      BY <2>2 DEF Numbered, Frames
    <3> QED BY <1>1, <1>3, <3>1
  <2> QED BY <1>3, <2>1, <2>2
<1>5. \A report \in Told' :
        ~(report.status = "ok" /\ report.generation >= worker'.generation)
  <2> TAKE report \in Told'
  <2>1. CASE report.status = "pending" BY <2>1
  <2>2. CASE report \in Told
    <3>1. report.generation <= seen /\ seen <= target.generation
          /\ report.generation \in Nat
      BY <2>2 DEF Numbered, Reports
    <3> QED BY <1>1, <1>3, <3>1
  <2> QED BY <1>3, <2>1, <2>2
<1>6. worker'.generation \in 1..target'.generation BY <1>1, <1>3
<1> QED BY <1>1, <1>2, <1>3, <1>4, <1>5, <1>6 DEF StepCourse

(* What the agent attempts is of the step and sets all it has set, or is   *)
(* later and sets only what the interface has named.                       *)
LEMMA CourseAttempt ==
    ASSUME StepTypeOK, Numbered, StepCourse, Attempt PROVE StepCourse'
<1> SUFFICES ASSUME worker.pc \in {"wait", "measure"}, ~crossed
             PROVE  StepCourse'
  BY DEF StepCourse, Attempt
<1> USE TransitTyping DEF StepTypeOK
<1> DEFINE frame == Head(inbox)
<1>1. frame \in Frames /\ frame \in InTransit /\ InTransit' \subseteq InTransit
  BY AttemptTransit
<1>2. UNCHANGED <<target, ack, pushing, worker, made, theirs, crossed>> BY DEF Attempt
<1>3. CASE UNCHANGED <<live, seen, reports>>
  BY <1>1, <1>2, <1>3 DEF StepCourse, InForce, Told
<1>4. ASSUME NEW outcome \in {"ok", "error"}, ~(frame.generation <= seen),
             seen' = frame.generation,
             live' = [f \in Resources |->
                        IF outcome = "ok" /\ f \in frame.changed
                        THEN frame.conf[f] ELSE live[f]],
             reports' = Append(reports,
                 [generation |-> frame.generation, status |-> outcome])
      PROVE StepCourse'
  <2> DEFINE report == [generation |-> frame.generation, status |-> outcome]
  <2>1. report \in Reports /\ frame.generation \in Nat /\ seen \in Nat
    BY <1>1 DEF Reports, Frames
  <2>2. Told' \subseteq Told \cup {report} BY <1>2, <1>4, <2>1, AttemptTold
  <2>3. report.generation = frame.generation /\ report.status = outcome OBVIOUS
  <2>4. /\ worker.value = worker.generation
        /\ worker.generation \in 1..target.generation
        /\ frame.generation = worker.generation =>
             frame.changed = Resources
             /\ \A f \in Resources : frame.conf[f] = worker.value
        /\ frame.generation > worker.generation =>
             theirs # {} /\ frame.changed \subseteq theirs
        /\ theirs # {} => InForce /\ seen >= worker.generation
    BY <1>1 DEF StepCourse
  <2> HIDE DEF frame, report
  <2>5. InForce => InForce'
    <3>1. CASE theirs # {}
      <4>1. frame.generation > worker.generation BY <1>4, <2>1, <2>4, <3>1
      <4> QED BY <1>2, <1>4, <2>4, <4>1 DEF InForce
    <3>2. CASE theirs = {} /\ InForce
      <4>1. live["cpu_limit"] = worker.value BY <3>2 DEF InForce, Resources
      <4>2. live["cpu_limit"] <= seen BY DEF Numbered, Resources
      <4>3. frame.generation > worker.generation BY <1>4, <2>1, <2>4, <4>1, <4>2
      <4> QED BY <2>4, <3>2, <4>3
    <3> QED BY <3>1, <3>2
  <2>6. outcome = "ok" /\ frame.generation >= worker.generation => InForce'
    <3>1. CASE frame.generation > worker.generation
      BY <2>4, <2>5, <3>1
    <3>2. CASE frame.generation = worker.generation /\ outcome = "ok"
      <4>1. \A f \in Resources : live'[f] = worker.value BY <1>4, <2>4, <3>2
      <4> QED BY <1>2, <4>1 DEF InForce
    <3> QED BY <2>1, <2>4, <3>1, <3>2
  <2>7. \A r \in Told' :
          r.status = "ok" /\ r.generation >= worker'.generation => InForce'
    <3> TAKE r \in Told'
    <3>1. CASE r = report BY <1>2, <2>3, <2>6, <3>1
    <3>2. CASE r \in Told BY <1>2, <2>5, <3>2 DEF StepCourse
    <3> QED BY <2>2, <3>1, <3>2
  <2>8. theirs' # {} => InForce' /\ seen' >= worker'.generation
    BY <1>2, <1>4, <2>1, <2>4, <2>5
  <2>9. worker'.pc = "measure" => InForce'
    BY <1>2, <2>5 DEF StepCourse
  <2>10. \A f \in InTransit' :
          /\ f.generation = worker'.generation =>
               f.changed = Resources
               /\ \A g \in Resources : f.conf[g] = worker'.value
          /\ f.generation > worker'.generation =>
               theirs' # {} /\ f.changed \subseteq theirs'
    BY <1>1, <1>2 DEF StepCourse
  <2> QED BY <1>2, <2>4, <2>7, <2>8, <2>9, <2>10 DEF StepCourse
<1> QED BY <1>3, <1>4 DEF Attempt

LEMMA StepCourseStep ==
    ASSUME StepTypeOK, Numbered, StepCourse, [StepNext]_stepVars PROVE StepCourse'
<1>1. ASSUME InTransit' \subseteq InTransit, Told' \subseteq Told,
             UNCHANGED <<target, live, seen, worker, theirs, crossed>>
      PROVE  StepCourse'
  BY <1>1 DEF StepCourse, InForce
<1>2. ASSUME NEW a \in Agents, ReadDesired(a) PROVE StepCourse'
  BY <1>1, <1>2, ReadTransit DEF ReadDesired, Told
<1>3. ASSUME NEW a \in Agents, Enqueue(a) PROVE StepCourse'
  BY <1>1, <1>3, EnqueueTransit DEF Enqueue, Told
<1>4. CASE Attempt BY <1>4, CourseAttempt
<1>5. CASE ReportApply
  BY <1>1, <1>5, ReportTold DEF ReportApply, InTransit
<1>6. ASSUME NEW named \in (SUBSET Resources) \ {{}}, SetByInterface(named)
      PROVE  StepCourse'
  BY <1>6, CourseSetByInterface
<1>7. CASE SetLevel BY <1>7, CourseSetLevel
<1>8. CASE PushAgain
  BY <1>1, <1>8, PushAgainTransit DEF PushAgain, Told
<1>9. CASE Applied
  <2>1. /\ worker.pc = "wait" /\ worker'.pc = "measure"
        /\ worker'.value = worker.value /\ worker'.generation = worker.generation
        /\ ack.status = "ok" /\ ack.generation >= worker.generation
        /\ UNCHANGED <<target, ack, pushing, inbox, reports, live, seen, theirs, crossed>>
    BY <1>9 DEF Applied, Waiting, StepTo, StepTypeOK
  <2>2. ack \in Told BY DEF Told
  <2>3. ~crossed => InForce BY <2>1, <2>2 DEF StepCourse
  <2>4. InTransit' = InTransit /\ Told' = Told /\ (InForce' <=> InForce)
    BY <2>1 DEF InTransit, Told, InForce
  <2> QED BY <2>1, <2>3, <2>4 DEF StepCourse
<1>10. CASE NotApplied \/ NextStep
  BY <1>10 DEF NotApplied, NextStep, StepTo, StepCourse, StepTypeOK
<1>11. CASE UNCHANGED stepVars
  BY <1>1, <1>11 DEF stepVars, Told, InTransit
<1> QED
  BY <1>2, <1>3, <1>4, <1>5, <1>6, <1>7, <1>8, <1>9, <1>10, <1>11
     DEF StepNext, Agents

(* A step of the sweep measures with the CPU it has set: for any numbers   *)
(* of steps and of sets of the interface, in whatever order their pushes   *)
(* and the agent's reports arrive.                                         *)
THEOREM StepsMeasureTheirLevel == StepSpec => []MeasuresItsLevel
<1>1. StepIInv /\ [StepNext]_stepVars => StepIInv'
  BY StepTyping, NumberedStep, StepCourseStep DEF StepIInv
<1>2. StepIInv => MeasuresItsLevel
  BY DEF StepIInv, StepCourse, MeasuresItsLevel
<1> QED BY StepInitIInv, <1>1, <1>2, PTL DEF StepSpec
-----------------------------------------------------------------------------
(* The addresses of a profile and of its consoles.                         *)

(* The variables of AddressPlan.                                           *)
PlanTypeOK ==
    /\ plan \in [n : 0..32, max : 0..32]
    /\ consoles \in SUBSET [slice : PlanSlices, client : 1..10, octet : Int]
    /\ strayed \in BOOLEAN

(* A plan is only kept when its bases were found valid.                    *)
PlanAccepted == plan.n > 0 => plan.n \in 1..plan.max /\ ValidBases(plan.max)

(* A console has the octet of its slice and client, and the stream of its  *)
(* deployment had been refused none of the clients before it.              *)
ConsolesInOrder ==
    ~strayed => \A k \in consoles :
        /\ k.octet = ConsoleOctet(k.slice, k.client)
        /\ \A d \in 1..k.client : ~Refused(ConsoleOctet(k.slice, d))

PlanIInv == PlanTypeOK /\ PlanAccepted /\ ConsolesInOrder

LEMMA PlanInitially == ASSUME PlanInit PROVE PlanIInv
<1>1. plan = [n |-> 0, max |-> 0] /\ consoles = {} /\ strayed = FALSE
  BY DEF PlanInit
<1>2. plan.n = 0 /\ strayed \in BOOLEAN BY <1>1
<1> QED BY <1>1, <1>2 DEF PlanIInv, PlanTypeOK, PlanAccepted, ConsolesInOrder

LEMMA OctetType ==
    ASSUME NEW s \in Int, NEW c \in Int PROVE ConsoleOctet(s, c) \in Int
BY DEF ConsoleOctet

LEMMA ConsoleSliceType ==
    ASSUME NEW s \in 1..6, NEW type \in Types PROVE ConsoleSlice(type, s) \in 1..6
BY DEF ConsoleSlice

LEMMA AllocateKeeps ==
    ASSUME PlanIInv, NEW n \in 1..32, NEW max \in 1..32, AllocatePlan(n, max)
    PROVE  PlanIInv'
<1>1. /\ n \in 1..max /\ ValidBases(max) /\ plan' = [n |-> n, max |-> max]
      /\ UNCHANGED <<consoles, strayed, deploys>>
  BY DEF AllocatePlan
<1>2. plan'.n = n /\ plan'.max = max BY <1>1
<1>3. PlanTypeOK' BY <1>1 DEF PlanIInv, PlanTypeOK
<1>4. PlanAccepted' BY <1>1, <1>2 DEF PlanAccepted, ValidBases
<1>5. ConsolesInOrder' BY <1>1 DEF PlanIInv, ConsolesInOrder
<1> QED BY <1>3, <1>4, <1>5 DEF PlanIInv

LEMMA DeployKeeps ==
    ASSUME PlanIInv, NEW s \in PlanSlices, NEW type \in Types, NEW count \in Counts,
           DeployClients(s, type, count)
    PROVE  PlanIInv'
<1> DEFINE octet(c) == ConsoleOctet(ConsoleSlice(type, s), c)
           done == {c \in 1..count : \A d \in 1..c : ~Refused(octet(d))}
           kept == {k \in consoles : k.slice # s \/ k.client \notin done}
           fresh == {[slice |-> s, client |-> c, octet |-> octet(c)] : c \in done}
<1>1. /\ strayed' = (strayed \/ ConsoleSlice(type, s) # s)
      /\ consoles' = kept \cup fresh /\ plan' = plan
  BY DEF DeployClients
<1>2. s \in 1..6 /\ count \in 1..10 BY PlanAssumptions
<1>3. ConsoleSlice(type, s) \in 1..6 BY <1>2, ConsoleSliceType
<1>4. ASSUME NEW c \in 1..10 PROVE octet(c) \in Int
  <2>1. ConsoleSlice(type, s) \in Int /\ c \in Int BY <1>3
  <2> QED BY <2>1, OctetType
<1>5. done \subseteq 1..10 BY <1>2
<1>6. fresh \subseteq [slice : PlanSlices, client : 1..10, octet : Int]
  BY <1>4, <1>5
<1>7. PlanTypeOK' BY <1>1, <1>6 DEF PlanIInv, PlanTypeOK
<1>8. PlanAccepted' BY <1>1 DEF PlanIInv, PlanAccepted
<1>9. ConsolesInOrder'
  <2> SUFFICES ASSUME ~strayed', NEW k \in consoles'
               PROVE  /\ k.octet = ConsoleOctet(k.slice, k.client)
                      /\ \A d \in 1..k.client : ~Refused(ConsoleOctet(k.slice, d))
    BY DEF ConsolesInOrder
  <2>1. ~strayed /\ ConsoleSlice(type, s) = s BY <1>1
  <2>2. CASE k \in consoles BY <2>1, <2>2 DEF PlanIInv, ConsolesInOrder
  <2>3. CASE k \in fresh
    <3>1. PICK c \in done : k = [slice |-> s, client |-> c, octet |-> octet(c)]
      BY <2>3
    <3>2. k.slice = s /\ k.client = c /\ k.octet = octet(c) BY <3>1
    <3>3. \A d \in 1..c : ~Refused(octet(d)) BY <3>1
    <3>4. \A d \in 1..c : octet(d) = ConsoleOctet(s, d) BY <2>1
    <3>5. octet(c) = ConsoleOctet(s, c) BY <2>1
    <3> HIDE DEF octet
    <3> QED BY <3>2, <3>3, <3>4, <3>5
  <2> QED BY <1>1, <2>2, <2>3
<1> QED BY <1>7, <1>8, <1>9 DEF PlanIInv

LEMMA PlanInduction == ASSUME PlanIInv, [PlanNext]_planVars PROVE PlanIInv'
<1>1. ASSUME NEW n \in 1..32, NEW max \in 1..32, AllocatePlan(n, max)
      PROVE  PlanIInv'
  BY <1>1, AllocateKeeps
<1>2. ASSUME NEW s \in PlanSlices, NEW type \in Types, NEW count \in Counts,
             DeployClients(s, type, count)
      PROVE  PlanIInv'
  BY <1>2, DeployKeeps
<1>3. ASSUME NEW s \in PlanSlices, RemoveClients(s) PROVE PlanIInv'
  <2>1. /\ consoles' \subseteq consoles /\ plan' = plan /\ strayed' = strayed
    BY <1>3 DEF RemoveClients
  <2> QED BY <2>1 DEF PlanIInv, PlanTypeOK, PlanAccepted, ConsolesInOrder
<1>4. CASE UNCHANGED planVars
  BY <1>4 DEF planVars, PlanIInv, PlanTypeOK, PlanAccepted, ConsolesInOrder
<1> QED BY <1>1, <1>2, <1>3, <1>4 DEF PlanNext

-----------------------------------------------------------------------------
(* Two finite sets without a common element.                               *)
LEMMA DisjointUnion ==
    ASSUME NEW S, NEW T, IsFiniteSet(S), IsFiniteSet(T), S \cap T = {}
    PROVE  /\ IsFiniteSet(S \cup T)
           /\ Cardinality(S \cup T) = Cardinality(S) + Cardinality(T)
<1>1. /\ IsFiniteSet(S \cup T)
      /\ Cardinality(S \cup T) =
            Cardinality(S) + Cardinality(T) - Cardinality(S \cap T)
  BY FS_Union
<1>2. Cardinality(S \cap T) = 0 BY FS_EmptySet
<1>3. Cardinality(S) \in Nat /\ Cardinality(T) \in Nat BY FS_CardinalityType
<1> QED BY <1>1, <1>2, <1>3

LEMMA IntervalSize ==
    ASSUME NEW a \in Int, NEW b \in Int, a <= b
    PROVE  IsFiniteSet(a..b) /\ Cardinality(a..b) = b - a + 1
<1>1. ~(a > b) OBVIOUS
<1>2. /\ IsFiniteSet(a..b)
      /\ Cardinality(a..b) = IF a > b THEN 0 ELSE b - a + 1
  BY FS_Interval
<1> QED BY <1>1, <1>2

LEMMA SharedSize == IsFiniteSet(SharedBases) /\ Cardinality(SharedBases) = 13
<1>1. SharedBases = ((1..3) \cup (10..12)) \cup (200..206)
  <2>1. 1..3 = {1, 2, 3} /\ 10..12 = {10, 11, 12} OBVIOUS
  <2>2. {1, 2, 3, 10, 11, 12} = {1, 2, 3} \cup {10, 11, 12} OBVIOUS
  <2> QED BY <2>1, <2>2 DEF SharedBases
<1> DEFINE Size(a, b, n) == IsFiniteSet(a..b) /\ Cardinality(a..b) = n
<1>2. \A a, b \in Int, n \in Int : a <= b /\ n = b - a + 1 => Size(a, b, n)
  BY IntervalSize
<1> HIDE DEF Size
<1>3. /\ 1 \in Int /\ 3 \in Int /\ 1 <= 3 /\ 3 = 3 - 1 + 1
      /\ 10 \in Int /\ 12 \in Int /\ 10 <= 12 /\ 3 = 12 - 10 + 1
      /\ 200 \in Int /\ 206 \in Int /\ 7 \in Int /\ 200 <= 206 /\ 7 = 206 - 200 + 1
  OBVIOUS
<1>4. Size(1, 3, 3) /\ Size(10, 12, 3) /\ Size(200, 206, 7)
  BY <1>2, <1>3, Zenon
<1>5. (1..3) \cap (10..12) = {} /\ ((1..3) \cup (10..12)) \cap (200..206) = {}
  OBVIOUS
<1>6. IsFiniteSet((1..3) \cup (10..12)) /\ Cardinality((1..3) \cup (10..12)) = 6
  BY <1>4, <1>5, DisjointUnion DEF Size
<1> QED BY <1>1, <1>4, <1>5, <1>6, DisjointUnion DEF Size

(* The octets of the roles up to the k-th.                                 *)
UpTo(k, n) == SharedBases \cup {20 * j + i : j \in 1..k, i \in 1..n}

LEMMA NextRole ==
    ASSUME NEW k \in 0..6, NEW n \in 1..20,
           IsFiniteSet(UpTo(k, n)), Cardinality(UpTo(k, n)) = 13 + k * n
    PROVE  /\ IsFiniteSet(UpTo(k + 1, n))
           /\ Cardinality(UpTo(k + 1, n)) = 13 + (k + 1) * n
<1> DEFINE role == (20 * (k + 1) + 1)..(20 * (k + 1) + n)
<1>1. IsFiniteSet(role) /\ Cardinality(role) = n
  <2> DEFINE a == 20 * (k + 1) + 1
             b == 20 * (k + 1) + n
  <2>1. a \in Int /\ b \in Int /\ a <= b /\ b - a + 1 = n OBVIOUS
  <2> HIDE DEF a, b
  <2>2. IsFiniteSet(a..b) /\ Cardinality(a..b) = n BY <2>1, IntervalSize
  <2> QED BY <2>2 DEF a, b
<1>2. UpTo(k + 1, n) = UpTo(k, n) \cup role
  <2>1. ASSUME NEW octet \in UpTo(k + 1, n) PROVE octet \in UpTo(k, n) \cup role
    <3>1. CASE octet \in SharedBases BY <3>1 DEF UpTo
    <3>2. ASSUME NEW j \in 1..k + 1, NEW i \in 1..n, octet = 20 * j + i
          PROVE  octet \in UpTo(k, n) \cup role
      <4>1. CASE j = k + 1 BY <3>2, <4>1
      <4>2. CASE j \in 1..k BY <3>2, <4>2 DEF UpTo
      <4> QED BY <4>1, <4>2
    <3> QED BY <2>1, <3>1, <3>2 DEF UpTo
  <2>2. ASSUME NEW octet \in role PROVE octet \in UpTo(k + 1, n)
    <3>1. octet - 20 * (k + 1) \in 1..n /\ octet = 20 * (k + 1) + (octet - 20 * (k + 1))
      BY <2>2
    <3>2. k + 1 \in 1..k + 1 OBVIOUS
    <3> QED BY <3>1, <3>2 DEF UpTo
  <2>3. 1..k \subseteq 1..k + 1 OBVIOUS
  <2>4. UpTo(k, n) \subseteq UpTo(k + 1, n) BY <2>3 DEF UpTo
  <2> QED BY <2>1, <2>2, <2>4
<1>3. UpTo(k, n) \cap role = {}
  <2> SUFFICES ASSUME NEW octet \in UpTo(k, n), octet \in role PROVE FALSE
    OBVIOUS
  <2>1. octet > 20 * (k + 1) /\ octet <= 20 * (k + 1) + 20 OBVIOUS
  <2>2. CASE octet \in SharedBases BY <2>1, <2>2 DEF SharedBases
  <2>3. ASSUME NEW j \in 1..k, NEW i \in 1..n, octet = 20 * j + i PROVE FALSE
    BY <2>1, <2>3
  <2> QED BY <2>2, <2>3 DEF UpTo
<1> HIDE DEF role
<1>4. /\ IsFiniteSet(UpTo(k + 1, n))
      /\ Cardinality(UpTo(k + 1, n)) = Cardinality(UpTo(k, n)) + Cardinality(role)
  BY <1>1, <1>2, <1>3, DisjointUnion
<1>5. (13 + k * n) + n = 13 + (k + 1) * n OBVIOUS
<1> QED BY <1>1, <1>4, <1>5

LEMMA PlanSize ==
    ASSUME NEW n \in 1..20 PROVE Cardinality(Octets(n)) = 13 + 7 * n
<1> DEFINE Sized(k) == /\ IsFiniteSet(UpTo(k, n))
                       /\ Cardinality(UpTo(k, n)) = 13 + k * n
<1>1. \A k \in 0..6 : Sized(k) => Sized(k + 1) BY NextRole
<1>2. Sized(0)
  <2>1. UpTo(0, n) = SharedBases BY DEF UpTo
  <2> QED BY <2>1, SharedSize
<1>3. Octets(n) = UpTo(7, n)
  <2>1. ASSUME NEW octet \in Octets(n) PROVE octet \in UpTo(7, n)
    <3>1. ASSUME NEW base \in SliceBases, NEW i \in 1..n, octet = base + i
          PROVE  octet \in UpTo(7, n)
      <4>1. PICK j \in 1..7 : base = 20 * j BY DEF SliceBases
      <4>2. octet = 20 * j + i BY <3>1, <4>1
      <4> QED BY <4>2 DEF UpTo
    <3>2. CASE octet \in SharedBases BY <3>2 DEF UpTo
    <3> QED BY <2>1, <3>1, <3>2 DEF Octets
  <2>2. ASSUME NEW octet \in UpTo(7, n) PROVE octet \in Octets(n)
    <3>1. ASSUME NEW j \in 1..7, NEW i \in 1..n, octet = 20 * j + i
          PROVE  octet \in Octets(n)
      <4>1. 20 * j \in SliceBases BY DEF SliceBases
      <4> QED BY <3>1, <4>1 DEF Octets
    <3>2. CASE octet \in SharedBases BY <3>2 DEF Octets
    <3> QED BY <2>2, <3>1, <3>2 DEF UpTo
  <2> QED BY <2>1, <2>2
<1>4. Sized(7)
  <2> HIDE DEF Sized
  <2>1. /\ Sized(0) => Sized(1) /\ (Sized(1) => Sized(2)) /\ (Sized(2) => Sized(3))
        /\ (Sized(3) => Sized(4)) /\ (Sized(4) => Sized(5))
        /\ (Sized(5) => Sized(6)) /\ (Sized(6) => Sized(7))
    BY <1>1
  <2> QED BY <1>2, <2>1
<1> QED BY <1>3, <1>4

LEMMA PlanRange ==
    ASSUME NEW n \in 1..20 PROVE Octets(n) \subseteq 1..254
BY DEF Octets, SharedBases, SliceBases

LEMMA ValidRoom ==
    ASSUME NEW max \in 1..32, ValidBases(max) PROVE max <= 20
<1>1. 20 \in SliceBases /\ 40 \in SliceBases
  <2>1. 20 = 20 * 1 /\ 40 = 20 * 2 OBVIOUS
  <2> QED BY <2>1 DEF SliceBases
<1> QED BY <1>1 DEF ValidBases

(* The consoles of a slice are in its block, one for each client.          *)
LEMMA OctetInBlock ==
    ASSUME NEW s \in 1..6, NEW c \in 1..10,
           \A d \in 1..c : ~Refused(ConsoleOctet(s, d))
    PROVE  /\ s # 6
           /\ ConsoleOctet(s, c) \in Block(s)
           /\ ConsoleOctet(s, c) =
                 IF s <= 3 \/ (s = 4 /\ c <= 5) THEN 209 + 10 * s + c
                 ELSE IF s = 4 THEN 194 + c ELSE 204 + c
<1>1. ~Refused(ConsoleOctet(s, c)) /\ ~Refused(ConsoleOctet(s, 1)) OBVIOUS
<1>2. CASE s = 1 BY <1>1, <1>2 DEF ConsoleOctet, Refused, Block
<1>3. CASE s = 2 BY <1>1, <1>3 DEF ConsoleOctet, Refused, Block
<1>4. CASE s = 3 BY <1>1, <1>4 DEF ConsoleOctet, Refused, Block
<1>5. CASE s = 4 BY <1>1, <1>5 DEF ConsoleOctet, Refused, Block
<1>6. CASE s = 5 BY <1>1, <1>6 DEF ConsoleOctet, Refused, Block
<1>7. CASE s = 6 BY <1>1, <1>7 DEF ConsoleOctet, Refused
<1> QED BY <1>2, <1>3, <1>4, <1>5, <1>6, <1>7

LEMMA PlanImplies == ASSUME PlanIInv PROVE AddressesApart
<1>1. plan.n > 0 => /\ Cardinality(Octets(plan.n)) = 13 + 7 * plan.n
                    /\ Octets(plan.n) \subseteq 1..254
  <2> SUFFICES ASSUME plan.n > 0
               PROVE  /\ Cardinality(Octets(plan.n)) = 13 + 7 * plan.n
                      /\ Octets(plan.n) \subseteq 1..254
    OBVIOUS
  <2>1. plan.n \in 1..plan.max /\ ValidBases(plan.max) BY DEF PlanIInv, PlanAccepted
  <2>2. plan.max \in 0..32 /\ plan.n \in 0..32 BY DEF PlanIInv, PlanTypeOK
  <2>3. plan.max \in 1..32 BY <2>1, <2>2
  <2>4. plan.n \in 1..20 BY <2>1, <2>3, ValidRoom
  <2> QED BY <2>4, PlanSize, PlanRange
<1> DEFINE Position(slice, client, octet) ==
             /\ slice \in 1..5 /\ client \in 1..10
             /\ octet \in Block(slice)
             /\ octet = IF slice <= 3 \/ (slice = 4 /\ client <= 5)
                        THEN 209 + 10 * slice + client
                        ELSE IF slice = 4 THEN 194 + client ELSE 204 + client
<1>2. ASSUME ~strayed, NEW k \in consoles
      PROVE  /\ k = [slice |-> k.slice, client |-> k.client, octet |-> k.octet]
             /\ Position(k.slice, k.client, k.octet)
  <2>1. k \in [slice : PlanSlices, client : 1..10, octet : Int]
    BY DEF PlanIInv, PlanTypeOK
  <2>2. k.slice \in 1..6 /\ k.client \in 1..10 BY <2>1, PlanAssumptions
  <2>3. /\ k.octet = ConsoleOctet(k.slice, k.client)
        /\ \A d \in 1..k.client : ~Refused(ConsoleOctet(k.slice, d))
    BY <1>2 DEF PlanIInv, ConsolesInOrder
  <2>4. k = [slice |-> k.slice, client |-> k.client, octet |-> k.octet] BY <2>1
  <2>5. /\ k.slice # 6
        /\ k.octet \in Block(k.slice)
        /\ k.octet =
              IF k.slice <= 3 \/ (k.slice = 4 /\ k.client <= 5)
              THEN 209 + 10 * k.slice + k.client
              ELSE IF k.slice = 4 THEN 194 + k.client ELSE 204 + k.client
    BY <2>2, <2>3, OctetInBlock
  <2>6. k.slice \in 1..5 BY <2>2, <2>5
  <2> QED BY <2>2, <2>4, <2>5, <2>6
<1>3. ASSUME NEW s, NEW c, NEW t, NEW d, NEW octet,
             Position(s, c, octet), Position(t, d, octet)
      PROVE  s = t /\ c = d
  <2>1. s = t BY <1>3 DEF Block
  <2>2. c = d BY <1>3, <2>1
  <2> QED BY <2>1, <2>2
<1>4. ASSUME ~strayed, NEW k \in consoles PROVE k.octet \in Block(k.slice)
  BY <1>2, <1>4
<1> HIDE DEF Position
<1>5. ASSUME ~strayed, NEW k \in consoles, NEW l \in consoles, k.octet = l.octet
      PROVE  k = l
  <2>1. Position(k.slice, k.client, k.octet) /\ Position(l.slice, l.client, k.octet)
    BY <1>2, <1>5
  <2>2. k.slice = l.slice /\ k.client = l.client BY <1>3, <2>1
  <2> QED BY <1>2, <1>5, <2>2
<1> QED BY <1>1, <1>4, <1>5 DEF AddressesApart

(* Every accepted plan gives each role of each slice an address of its     *)
(* own, and consoles of different clients are in their slices' own blocks  *)
(* (allocate_profile_ips, ue_console_ip): for every number of slices the   *)
(* code accepts, and every number of clients its form takes.               *)
THEOREM AddressesDoNotClash == PlanSpec => []AddressesApart
<1>1. PlanInit => PlanIInv BY PlanInitially
<1>2. PlanIInv /\ [PlanNext]_planVars => PlanIInv' BY PlanInduction
<1>3. PlanIInv => AddressesApart BY PlanImplies
<1> QED BY <1>1, <1>2, <1>3, PTL DEF PlanSpec

-----------------------------------------------------------------------------
(***************************************************************************)
(* Levels of a sweep.  CoversRange speaks of the finished list only.  Its  *)
(* proof has to know where the loop stands (LadderCourse): behind the last *)
(* level by no more than the step and half the grain, and at a multiple of *)
(* the grain after the first turn, while the last level is not above the   *)
(* rounded maximum.                                                        *)
(***************************************************************************)
Requests == [lo : Nat, hi : Nat, inc : Nat, grain : Nat \ {0}, up : SUBSET Nat]

LadderTypeOK ==
    /\ ask \in Requests
    /\ x \in Nat
    /\ levels \in Seq(Nat)
    /\ ladder \in {"none", "growing", "done"}

Aligned == ask.lo % ask.grain = 0 /\ ask.hi % ask.grain = 0

(* What the levels found so far satisfy. *)
Climbing ==
    /\ \A i \in 2..Len(levels) : levels[i - 1] <= levels[i]
    /\ Aligned =>
          /\ Len(levels) > 0 => levels[1] = ask.lo
          /\ \A i \in 2..Len(levels) :
                /\ levels[i - 1] < levels[i]
                /\ 2 * (levels[i] - levels[i - 1]) <= 2 * ask.inc + ask.grain

(* Where the loop stands after the levels found so far. *)
LadderCourse ==
    /\ ask.lo <= ask.hi
    /\ ladder = "none" => levels = <<>>
    /\ ladder = "growing" /\ 2 * ask.inc > ask.grain =>
          /\ Climbing
          /\ levels = <<>> => x = ask.lo
          /\ levels # <<>> =>
                /\ x % ask.grain = 0
                /\ Last <= x /\ Last <= Rounded(ask.hi)
                /\ Aligned => Last < x /\ 2 * (x - Last) <= 2 * ask.inc + ask.grain

LadderIInv == LadderTypeOK /\ LadderCourse /\ LevelsCover

(* Multiples are a grain apart. *)
LEMMA MultiplesApart ==
    ASSUME NEW g \in Nat \ {0}, NEW a \in Nat, NEW b \in Nat,
           a % g = 0, b % g = 0, a < b
    PROVE  a + g <= b
<1> DEFINE j == a \div g
           k == b \div g
<1>1. j \in Nat /\ a = g * j /\ k \in Nat /\ b = g * k
  OBVIOUS
<1> HIDE DEF j, k
<1>2. \A m, n \in Nat : g * m < g * n => g * m + g <= g * n
  OBVIOUS
<1> QED
  BY <1>1, <1>2

(* What is left after the remainder is taken away is a multiple. *)
LEMMA BelowIsMultiple ==
    ASSUME NEW g \in Nat \ {0}, NEW q \in Nat
    PROVE  /\ q - (q % g) \in Nat /\ (q - (q % g)) % g = 0
           /\ q % g \in Nat /\ q % g < g
           /\ (q - (q % g) + g) % g = 0
<1>1. /\ q \div g \in Nat /\ q = g * (q \div g) + (q % g)
      /\ q % g \in Nat /\ q % g < g
  OBVIOUS
<1>2. \A k \in Nat : g * k \in Nat /\ (g * k) % g = 0
  OBVIOUS
<1>3. \A k \in Nat : g * (k + 1) = g * k + g
  OBVIOUS
<1> DEFINE k == q \div g
<1>4. q - (q % g) = g * k /\ k + 1 \in Nat
  BY <1>1
<1> HIDE DEF k
<1>5. k \in Nat
  BY <1>1 DEF k
<1> QED
  BY <1>1, <1>2, <1>3, <1>4, <1>5

(* Rounding gives the multiple that is nearest, keeps multiples, and keeps *)
(* the order.                                                              *)
LEMMA RoundedIsNear ==
    ASSUME ask \in Requests, NEW q \in Nat
    PROVE  /\ Rounded(q) \in Nat /\ Rounded(q) % ask.grain = 0
           /\ 2 * (Rounded(q) - q) <= ask.grain
           /\ 2 * (q - Rounded(q)) <= ask.grain
           /\ q % ask.grain = 0 => Rounded(q) = q
<1> DEFINE g == ask.grain
<1>1. g \in Nat \ {0}
  BY DEF Requests
<1>2. /\ q - (q % g) \in Nat /\ (q - (q % g)) % g = 0
      /\ q % g \in Nat /\ q % g < g
      /\ (q - (q % g) + g) % g = 0
  BY <1>1, BelowIsMultiple
<1>3. Rounded(q) = q - (q % g) \/ Rounded(q) = q - (q % g) + g
  BY DEF Rounded
<1>4. Rounded(q) = q - (q % g) => 2 * (q % g) <= g
  BY <1>1, <1>2 DEF Rounded
<1>5. Rounded(q) = q - (q % g) + g => 2 * (q % g) >= g
  BY <1>1, <1>2 DEF Rounded
<1> DEFINE rest == q % g
           below == q - (q % g)
<1> HIDE DEF g
<1> QED
  BY <1>1, <1>2, <1>3, <1>4, <1>5 DEF g

LEMMA RoundedIsMonotone ==
    ASSUME ask \in Requests, NEW q \in Nat, NEW r \in Nat, q <= r
    PROVE  Rounded(q) <= Rounded(r)
<1> DEFINE g == ask.grain
           a == q - (q % g)
           b == r - (r % g)
<1>1. g \in Nat \ {0}
  BY DEF Requests
<1>2. /\ a \in Nat /\ a % g = 0 /\ q % g \in Nat /\ q % g < g
      /\ b \in Nat /\ b % g = 0 /\ r % g \in Nat /\ r % g < g
  BY <1>1, BelowIsMultiple
<1>3. /\ Rounded(q) = a \/ Rounded(q) = a + g
      /\ Rounded(r) = b \/ Rounded(r) = b + g
  BY DEF Rounded
<1>4. CASE a = b
  <2>1. q % g <= r % g
    BY <1>1, <1>2, <1>4
  <2> QED
    BY <1>1, <1>2, <1>4, <2>1 DEF Rounded
<1>5. CASE a < b
  <2>1. a + g <= b
    BY <1>1, <1>2, <1>5, MultiplesApart
  <2> HIDE DEF a, b, g
  <2> QED
    BY <1>1, <1>2, <1>3, <2>1
<1>6. ~(b < a)
  <2>1. b < a => b + g <= a
    BY <1>1, <1>2, MultiplesApart
  <2>2. a <= q /\ r < b + g
    BY <1>1, <1>2
  <2> HIDE DEF a, b
  <2> QED
    BY <1>1, <1>2, <2>1, <2>2
<1> QED
  BY <1>2, <1>4, <1>5, <1>6

LEMMA LadderInitIInv == LadderInit => LadderIInv
BY DEF LadderInit, LadderIInv, LadderTypeOK, LadderCourse, LevelsCover, Requests

LEMMA LadderTyping ==
    ASSUME LadderTypeOK, LadderCourse, [LadderNext]_levelVars
    PROVE  LadderTypeOK'
<1> USE DEF LadderTypeOK
<1>1. CASE Grow
  <2>1. x + ask.inc \in Nat
    BY DEF Requests
  <2>2. Rounded(x) \in Nat /\ Rounded(x + ask.inc) \in Nat
    BY <2>1, RoundedIsNear
  <2> QED
    BY <1>1, <2>2, AppendProperties DEF Grow
<1>2. CASE Finish
  <2>1. ask.hi \in Nat
    BY DEF Requests
  <2>2. Rounded(ask.hi) \in Nat
    BY <2>1, RoundedIsNear
  <2> QED
    BY <1>2, <2>2, AppendProperties DEF Finish
<1>3. ASSUME NEW lo \in 0..MaxQuantity, NEW hi \in 0..MaxQuantity,
             NEW inc \in 0..MaxQuantity, NEW grain \in {1, PrbGrain},
             NEW up \in SUBSET HalfWay(grain), BeginSweep(lo, hi, inc, grain, up)
      PROVE  LadderTypeOK'
  <2>1. /\ lo \in Nat /\ hi \in Nat /\ inc \in Nat /\ grain \in Nat \ {0}
        /\ up \in SUBSET Nat
    BY LevelsAssumption DEF HalfWay
  <2> QED
    BY <1>3, <2>1 DEF BeginSweep, Requests
<1>4. CASE UNCHANGED levelVars
  BY <1>4 DEF levelVars
<1> QED
  BY <1>1, <1>2, <1>3, <1>4 DEF LadderNext

(* Appending a level keeps the levels climbing if it follows the last one  *)
(* closely enough, or is the first.                                        *)
LEMMA AppendClimbs ==
    ASSUME LadderTypeOK, Climbing, NEW level \in Nat,
           levels = <<>> => (Aligned => level = ask.lo),
           levels # <<>> =>
              /\ Last <= level
              /\ Aligned => /\ Last < level
                            /\ 2 * (level - Last) <= 2 * ask.inc + ask.grain,
           levels' = Append(levels, level), ask' = ask
    PROVE  Climbing'
<1> DEFINE new == Append(levels, level)
           n == Len(levels)
<1>1. /\ n \in Nat /\ Len(new) = n + 1 /\ new[n + 1] = level
      /\ \A i \in 1..n : new[i] = levels[i]
  BY AppendProperties DEF LadderTypeOK
<1>2. (levels = <<>>) <=> (n = 0)
  BY EmptySeq DEF LadderTypeOK
<1>3. \A i \in 2..n + 1 : \/ i \in 2..n /\ new[i] = levels[i]
                                        /\ new[i - 1] = levels[i - 1]
                          \/ /\ n > 0 /\ i = n + 1 /\ new[i] = level
                             /\ new[i - 1] = Last
  BY <1>1 DEF Last
<1> HIDE DEF new, n
<1>4. \A i \in 2..n + 1 : new[i - 1] <= new[i]
  BY <1>2, <1>3 DEF Climbing, n
<1>5. Aligned => new[1] = ask.lo
  <2>1. CASE n = 0 BY <1>1, <1>2, <2>1
  <2>2. CASE n > 0 BY <1>1, <2>2 DEF Climbing, n
  <2> QED BY <1>1, <2>1, <2>2
<1>6. Aligned => \A i \in 2..n + 1 :
                    /\ new[i - 1] < new[i]
                    /\ 2 * (new[i] - new[i - 1]) <= 2 * ask.inc + ask.grain
  BY <1>2, <1>3 DEF Climbing, n
<1>7. levels' = new /\ Len(new) = n + 1 /\ (Aligned' <=> Aligned)
  BY <1>1 DEF new, Aligned
<1> QED
  BY <1>4, <1>5, <1>6, <1>7 DEF Climbing

(* A turn of the loop appends where it stands, rounded, and moves on.      *)
LEMMA GrowCourse ==
    ASSUME LadderTypeOK, LadderCourse, Grow
    PROVE  LadderCourse' /\ LevelsCover'
<1> DEFINE level == Rounded(x)
           next == Rounded(x + ask.inc)
           top == Rounded(ask.hi)
           g == ask.grain
<1>1. /\ ask \in Requests /\ x \in Nat /\ ask.hi \in Nat /\ ask.inc \in Nat
      /\ ask.lo \in Nat /\ g \in Nat /\ levels \in Seq(Nat)
  BY DEF LadderTypeOK, Requests
<1>2. /\ level \in Nat
      /\ x % g = 0 => level = x
      /\ next \in Nat /\ next % g = 0
      /\ 2 * (next - (x + ask.inc)) <= g /\ 2 * ((x + ask.inc) - next) <= g
  <2>1. x + ask.inc \in Nat BY <1>1
  <2> QED BY <1>1, <2>1, RoundedIsNear
<1>3. level <= next /\ level <= top
  <2>1. x + ask.inc \in Nat /\ x <= x + ask.inc BY <1>1
  <2>2. x <= ask.hi BY DEF Grow
  <2> QED BY <1>1, <2>1, <2>2, RoundedIsMonotone
<1>4. /\ levels' = Append(levels, level) /\ x' = next /\ ask' = ask
      /\ ladder = "growing" /\ ladder' = "growing"
  BY DEF Grow
<1>5. levels' # <<>> /\ Last' = level
  <2> DEFINE n == Len(levels)
  <2> HIDE DEF level
  <2>1. n \in Nat BY <1>1
  <2>2. Len(levels') = n + 1 /\ levels'[n + 1] = level
    BY <1>1, <1>2, <1>4, AppendProperties
  <2>3. Last' = levels'[Len(levels')] BY DEF Last
  <2>4. levels' # <<>> BY <1>1, <1>2, <1>4, AppendProperties
  <2> QED BY <2>2, <2>3, <2>4
<1>6. Rounded(ask.hi)' = top
  BY <1>4 DEF Rounded
<1> HIDE DEF level, next, top
<1>7. ASSUME 2 * ask.inc > g
      PROVE  /\ Climbing'
             /\ Aligned => level < next /\ 2 * (next - level) <= 2 * ask.inc + g
  <2>1. /\ Climbing
        /\ levels = <<>> => x = ask.lo
        /\ levels # <<>> =>
              /\ x % g = 0 /\ Last <= x
              /\ Aligned => Last < x /\ 2 * (x - Last) <= 2 * ask.inc + g
    BY <1>4, <1>7 DEF LadderCourse
  <2>2. Aligned => level = x
    <3>1. CASE levels = <<>> BY <1>2, <2>1, <3>1 DEF Aligned
    <3>2. CASE levels # <<>> BY <1>2, <2>1, <3>2
    <3> QED BY <3>1, <3>2
  <2>3. Climbing'
    <3>1. levels = <<>> => (Aligned => level = ask.lo)
      BY <2>1, <2>2
    <3>2. levels # <<>> =>
            /\ Last <= level
            /\ Aligned => /\ Last < level
                          /\ 2 * (level - Last) <= 2 * ask.inc + ask.grain
      BY <1>2, <2>1
    <3>3. level \in Nat BY <1>2
    <3> QED
      BY <1>4, <2>1, <3>1, <3>2, <3>3, AppendClimbs
  <2> HIDE DEF g
  <2>4. Aligned => level < next /\ 2 * (next - level) <= 2 * ask.inc + g
    BY <1>1, <1>2, <1>7, <2>2
  <2> QED
    BY <2>3, <2>4
<1>8. LadderCourse'
  BY <1>2, <1>3, <1>4, <1>5, <1>6, <1>7 DEF LadderCourse, Aligned
<1> QED
  BY <1>4, <1>8 DEF LevelsCover

(* The loop has passed the maximum: the last level is the maximum, or the  *)
(* maximum is appended and is closer than where the loop stands.           *)
LEMMA FinishCourse ==
    ASSUME LadderTypeOK, LadderCourse, Finish
    PROVE  LadderCourse' /\ LevelsCover'
<1> DEFINE top == Rounded(ask.hi)
           g == ask.grain
<1>1. /\ ask \in Requests /\ x \in Nat /\ ask.hi \in Nat /\ ask.inc \in Nat
      /\ ask.lo \in Nat /\ g \in Nat /\ levels \in Seq(Nat)
  BY DEF LadderTypeOK, Requests
<1>2. top \in Nat /\ (ask.hi % g = 0 => top = ask.hi)
  BY <1>1, RoundedIsNear
<1>3. /\ levels' = IF Last = ask.hi THEN levels ELSE Append(levels, top)
      /\ ask' = ask /\ x > ask.hi /\ ladder = "growing" /\ ladder' = "done"
  BY DEF Finish
<1> HIDE DEF top
<1>4. LadderCourse'
  BY <1>3 DEF LadderCourse
<1>5. ASSUME 2 * ask.inc > g PROVE CoversRange'
  <2>1. /\ Climbing
        /\ levels = <<>> => x = ask.lo
        /\ levels # <<>> =>
              /\ Last <= top
              /\ Aligned => Last < x /\ 2 * (x - Last) <= 2 * ask.inc + g
    BY <1>3, <1>5 DEF LadderCourse, top
  <2>2. levels # <<>>
    BY <1>1, <1>3, <2>1 DEF LadderCourse
  <2>3. Last \in Nat /\ Len(levels) > 0
    BY <1>1, <2>2, EmptySeq DEF Last
  <2>4. Aligned' <=> Aligned
    BY <1>3 DEF Aligned
  <2>5. Climbing' /\ (Aligned => Last' = ask.hi) /\ Len(levels') > 0
    <3>1. CASE Last = ask.hi
      <4>1. levels' = levels /\ ask' = ask BY <1>3, <3>1
      <4> QED BY <2>1, <2>3, <3>1, <4>1 DEF Climbing, Aligned, Last
    <3>2. CASE Last # ask.hi
      <4>1. levels' = Append(levels, top) BY <1>3, <3>2
      <4>2. Aligned => top = ask.hi BY <1>2 DEF Aligned
      <4> HIDE DEF g
      <4>3. Aligned => Last < top /\ 2 * (top - Last) <= 2 * ask.inc + g
        BY <1>1, <1>2, <1>3, <2>1, <2>2, <2>3, <3>2, <4>2
      <4>4. Climbing'
        BY <1>1, <1>2, <1>3, <2>1, <2>2, <4>1, <4>3, AppendClimbs DEF g
      <4>5. Last' = top /\ Len(levels') > 0
        <5>1. Len(levels) \in Nat BY <1>1
        <5> QED BY <1>1, <1>2, <4>1, <5>1, AppendProperties DEF Last
      <4> QED BY <4>2, <4>4, <4>5
    <3> QED BY <3>1, <3>2
  <2> QED
    BY <1>3, <2>4, <2>5 DEF CoversRange, Climbing, Aligned
<1> QED
  BY <1>3, <1>4, <1>5 DEF LevelsCover

LEMMA LadderStep ==
    ASSUME LadderIInv, [LadderNext]_levelVars
    PROVE  LadderIInv'
<1> USE DEF LadderIInv
<1>1. LadderTypeOK'
  BY LadderTyping
<1>2. CASE Grow BY <1>1, <1>2, GrowCourse
<1>3. CASE Finish BY <1>1, <1>3, FinishCourse
<1>4. ASSUME ladder = "none",
             NEW lo \in 0..MaxQuantity, NEW hi \in 0..MaxQuantity,
             NEW inc \in 0..MaxQuantity, NEW grain \in {1, PrbGrain},
             NEW up \in SUBSET HalfWay(grain), BeginSweep(lo, hi, inc, grain, up)
      PROVE  LadderCourse' /\ LevelsCover'
  <2>1. /\ levels' = <<>> /\ x' = lo /\ ladder' = "growing" /\ lo <= hi
        /\ ask'.lo = lo /\ ask'.hi = hi
    BY <1>4 DEF BeginSweep, LadderCourse
  <2>2. Climbing'
    BY <2>1 DEF Climbing
  <2> QED
    BY <2>1, <2>2 DEF LadderCourse, LevelsCover
<1>5. CASE UNCHANGED levelVars
  <2>1. ask' = ask /\ x' = x /\ levels' = levels /\ ladder' = ladder
    BY <1>5 DEF levelVars
  <2> QED
    BY <1>1, <2>1
    DEF LadderCourse, LevelsCover, Climbing, CoversRange, Aligned, Last, Rounded
<1> QED
  BY <1>1, <1>2, <1>3, <1>4, <1>5 DEF LadderNext

(* The levels of a finished sweep go from its minimum to its maximum, for  *)
(* every request and every grain (cpu_steps, prb_steps).                   *)
THEOREM LevelsCoverTheRange == LadderSpec => []LevelsCover
<1>1. LadderIInv /\ [LadderNext]_levelVars => LadderIInv'
  BY LadderStep
<1>2. LadderIInv => LevelsCover
  BY DEF LadderIInv
<1> QED
  BY <1>1, <1>2, LadderInitIInv, PTL DEF LadderSpec
=============================================================================
