------------------------- MODULE BenchmarkSweepProofs ------------------------
(***************************************************************************)
(* Proofs about BenchmarkSweep for runs of any number of steps, any number *)
(* of HTTP threads, runs and accidents, and both kinds of sweep.           *)
(*                                                                         *)
(* The properties speak of rows only; that they hold depends on where the  *)
(* worker stands.  IInv ties the rows of the run in progress to the        *)
(* worker's point, step and verdict (Progress, Outcome), and the step a    *)
(* stop has found to the step the worker is at (StopSeen).                 *)
(***************************************************************************)
EXTENDS BenchmarkSweep, SequenceTheorems, TLAPS

Phases == {"pending", "skipped"} \cup Begun

Statuses == {"running", "done", "stopped", "error"}

(* Points before and after the first row of the current step is written. *)
Before == {"traffic", "top", "index", "applying"}
During == {"apply", "applied", "warmup", "warming", "measuring", "sampling", "done"}
Ending == {"skip", "settle", "failed", "finally"}

(* There is a worker exactly while there is an active run; its row says    *)
(* "running" until it cleans up, and after that only if the database       *)
(* failed the worker twice.                                                *)
WorkerHasRun ==
    /\ active = 0 <=> pc = "none"
    /\ active # 0 /\ pc # "finally" => status[active] = "running"
    /\ pc = "finally" => status[active] # "running" \/ active \in orphans

(* The rows of the run in progress. *)
Progress ==
    active # 0 =>
        /\ \A i \in Step : i < index => phase[active][i] = "done"
        /\ \A i \in Step : i > index => phase[active][i] \in {"pending", "skipped"}
        /\ pc \notin Ending => \A i \in Step : i > index => phase[active][i] = "pending"
        /\ pc \in Before \cap Writing => index \in Step
        /\ index \in Step /\ pc \in Before => phase[active][index] = "pending"
        /\ pc \in During \cup {"leave", "skip"} => index \in Step
        /\ pc \in During => phase[active][index] \in InProgress
        /\ pc = "complete" => index = Steps + 1

(* A worker that leaves a step has a verdict, has marked the step with it, *)
(* and has marked the later steps as far as it has come.                   *)
Outcome ==
    active # 0 =>
        /\ pc \in {"leave", "skip"} => verdict \in {"cancelled", "error"}
        /\ pc = "skip" => /\ skipped >= index
                          /\ phase[active][index] = verdict
                          /\ \A i \in Step :
                                i > index /\ i <= skipped => phase[active][i] = "skipped"
        /\ pc = "settle" /\ verdict = "cancelled" =>
              /\ index \in Step
              /\ phase[active][index] = "cancelled"
              /\ \A i \in Step : i > index => phase[active][i] = "skipped"

(* A stopped run is at the step the stop has found, or has just finished   *)
(* that step and cancels the next one.                                     *)
StopSeen ==
    active # 0 /\ stoppedAt[active] # 0 =>
        /\ cancel
        /\ index \in {stoppedAt[active], stoppedAt[active] + 1}
        /\ index = stoppedAt[active] + 1 =>
              /\ pc \in {"top", "leave", "complete"} \cup Ending
              /\ pc \in {"leave", "skip"} => verdict = "cancelled"
              /\ index \in Step => phase[active][index] \in {"pending", "cancelled"}

IInv ==
    /\ TypeOK
    /\ WorkerHasRun
    /\ Progress
    /\ Outcome
    /\ StopSeen
    /\ StepsInOrder
    /\ OutcomeMatchesSteps
    /\ RunningRowHasWorker
    /\ StopIsKept

-----------------------------------------------------------------------------
(* What the writing operators do to the rows.                              *)
LEMMA SetPhaseRows ==
    ASSUME TypeOK, active # 0, NEW i \in Step, NEW p \in Phases, SetPhase(i, p)
    PROVE  /\ phase' \in Seq([Step -> Phases])
           /\ Len(phase') = Len(phase)
           /\ \A r \in Runs : r # active => phase'[r] = phase[r]
           /\ phase'[active] = [phase[active] EXCEPT ![i] = p]
           /\ phase[active] \in [Step -> Phases]
<1>1. phase \in Seq([Step -> Phases]) /\ active \in 1..Len(phase)
  BY DEF TypeOK, Phases
<1>2. phase[active] \in [Step -> Phases]
  BY <1>1, ElementOfSeq
<1>3. [phase[active] EXCEPT ![i] = p] \in [Step -> Phases]
  BY <1>2
<1>4. phase' = [phase EXCEPT ![active] = [phase[active] EXCEPT ![i] = p]]
  BY DEF SetPhase
<1> QED
  BY <1>1, <1>2, <1>3, <1>4, ExceptSeq DEF Runs, TypeOK

LEMMA StepsOfActive ==
    ASSUME TypeOK, active # 0, NEW i \in Step, NEW p \in Phases, SetPhase(i, p)
    PROVE  \A j \in Step : phase'[active][j] = IF j = i THEN p ELSE phase[active][j]
<1>1. /\ phase'[active] = [phase[active] EXCEPT ![i] = p]
      /\ phase[active] \in [Step -> Phases]
  BY SetPhaseRows
<1> QED
  BY <1>1

LEMMA SetStatusRows ==
    ASSUME TypeOK, active # 0, NEW v \in Statuses, SetStatus(v)
    PROVE  /\ status' \in Seq(Statuses)
           /\ Len(status') = Len(status)
           /\ \A r \in Runs : r # active => status'[r] = status[r]
           /\ status'[active] = v
<1>1. status \in Seq(Statuses) /\ active \in 1..Len(status)
  BY DEF TypeOK, Statuses
<1>2. status' = [status EXCEPT ![active] = v]
  BY DEF SetStatus
<1> QED
  BY <1>1, <1>2, ExceptSeq DEF Runs

(* A start adds one run with pending steps. *)
LEMMA StartRows ==
    ASSUME TypeOK, NEW c, Start(c)
    PROVE  /\ status' \in Seq(Statuses) /\ phase' \in Seq([Step -> Phases])
           /\ stoppedAt' \in Seq(0..Steps + 1)
           /\ Len(status') = Len(status) + 1
           /\ Len(phase') = Len(status') /\ Len(stoppedAt') = Len(status')
           /\ \A r \in Runs : /\ status'[r] = status[r] /\ phase'[r] = phase[r]
                               /\ stoppedAt'[r] = stoppedAt[r]
           /\ active' = Len(status')
           /\ status'[active'] = "running" /\ stoppedAt'[active'] = 0
           /\ \A i \in Step : phase'[active'][i] = "pending"
<1>1. /\ status \in Seq(Statuses) /\ phase \in Seq([Step -> Phases])
      /\ stoppedAt \in Seq(0..Steps + 1)
      /\ Len(phase) = Len(status) /\ Len(stoppedAt) = Len(status)
  BY DEF TypeOK, Statuses, Phases
<1>2. /\ "running" \in Statuses /\ [i \in Step |-> "pending"] \in [Step -> Phases]
      /\ 0 \in 0..Steps + 1
  BY StepsAssumption DEF Statuses, Phases
<1>3. /\ status' = Append(status, "running")
      /\ phase' = Append(phase, [i \in Step |-> "pending"])
      /\ stoppedAt' = Append(stoppedAt, 0)
      /\ active' = Len(status) + 1
  BY DEF Start
<1>4. /\ status' \in Seq(Statuses) /\ Len(status') = Len(status) + 1
      /\ \A r \in Runs : status'[r] = status[r]
      /\ status'[Len(status) + 1] = "running"
  BY <1>1, <1>2, <1>3, AppendProperties DEF Runs
<1>5. /\ phase' \in Seq([Step -> Phases]) /\ Len(phase') = Len(status) + 1
      /\ \A r \in Runs : phase'[r] = phase[r]
      /\ phase'[Len(status) + 1] = [i \in Step |-> "pending"]
  BY <1>1, <1>2, <1>3, AppendProperties DEF Runs
<1>6. /\ stoppedAt' \in Seq(0..Steps + 1) /\ Len(stoppedAt') = Len(status) + 1
      /\ \A r \in Runs : stoppedAt'[r] = stoppedAt[r]
      /\ stoppedAt'[Len(status) + 1] = 0
  BY <1>1, <1>2, <1>3, AppendProperties DEF Runs
<1> QED
  BY <1>3, <1>4, <1>5, <1>6

-----------------------------------------------------------------------------
(* Every step keeps the types.  That the index and the count of skipped    *)
(* steps stay in range needs the worker's progress.                        *)
LEMMA StepTypeOK ==
    TypeOK /\ WorkerHasRun /\ Progress /\ Outcome /\ [Next]_vars => TypeOK'
<1> SUFFICES ASSUME TypeOK, WorkerHasRun, Progress, Outcome, [Next]_vars
             PROVE  TypeOK'
  OBVIOUS
<1>p. Points = {"index", "applying", "warmup", "measuring", "done", "leave",
               "skip", "settle", "complete", "failed", "none", "traffic", "top",
               "apply", "applied", "warming", "sampling", "finally"}
  BY DEF Points, Writing
<1>n. 1 \in 1..Steps + 1 /\ 0 \in 0..Steps
  BY StepsAssumption
<1>s. /\ Len(status) \in Nat
      /\ status \in Seq(Statuses) /\ phase \in Seq([Step -> Phases])
  BY LenProperties DEF TypeOK, Statuses, Phases
<1>1. ASSUME NEW c \in Callers, Start(c) PROVE TypeOK'
  <2>0. Len(status') = Len(status) + 1 /\ active' = Len(status')
    BY <1>1, StartRows
  <2>1. /\ Len(status') <= MaxRuns /\ active' \in 0..Len(status')
        /\ orphans' \subseteq 1..Len(status')
    <3>1. Len(status') <= MaxRuns
      BY <1>1, <1>s, <2>0, BoundsAssumption DEF Start
    <3>2. active' \in 0..Len(status')
      BY <1>s, <2>0
    <3>3. orphans' \subseteq 1..Len(status)
      BY <1>1 DEF Start, TypeOK, Runs
    <3> QED
      BY <1>s, <2>0, <3>1, <3>2, <3>3
  <2>2. /\ index' \in 1..Steps + 1 /\ skipped' \in 0..Steps
        /\ cancel' \in BOOLEAN /\ verdict' \in {"ok", "error", "cancelled"}
        /\ caller' \in [Callers -> {"idle", "polling", "stopping"}]
    BY <1>1, <1>n DEF Start, Query, TypeOK
  <2>5. pc' \in Points
    BY <1>1, <1>p DEF Start
  <2>3. /\ status' \in Seq(Statuses) /\ phase' \in Seq([Step -> Phases])
        /\ stoppedAt' \in Seq(0..Steps + 1)
        /\ Len(phase') = Len(status') /\ Len(stoppedAt') = Len(status')
    BY <1>1, StartRows
  <2>4. UNCHANGED <<lock, accidents>>
    BY <1>1 DEF Start
  <2> QED
    BY <2>1, <2>2, <2>3, <2>4, <2>5 DEF TypeOK, Runs, Statuses, Phases
<1>2. ASSUME NEW c \in Callers, Stop(c) PROVE TypeOK'
  <2>1. /\ stoppedAt' \in Seq(0..Steps + 1)
        /\ Len(stoppedAt') = Len(stoppedAt)
    <3>1. active \in 1..Len(stoppedAt)
      BY <1>2, <1>s DEF Stop, Alive, TypeOK
    <3>2. (IF stoppedAt[active] = 0 THEN index ELSE stoppedAt[active]) \in 0..Steps + 1
      BY <3>1, ElementOfSeq, StepsAssumption DEF TypeOK
    <3> QED
      BY <1>2, <3>1, <3>2, ExceptSeq DEF Stop, TypeOK
  <2> QED
    BY <1>2, <2>1 DEF Stop, Query, TypeOK, Runs, worker, store
<1>3. ASSUME NEW c \in Callers,
             StartFails(c) \/ StopWithoutRun(c) \/ Poll(c) \/ Answer(c)
      PROVE  TypeOK'
  <2>1. accidents' \in 0..MaxAccidents
    BY <1>3, BoundsAssumption
    DEF StartFails, StopWithoutRun, Poll, Answer, Accident, TypeOK
  <2>2. /\ caller' \in [Callers -> {"idle", "polling", "stopping"}]
        /\ lock' \in Callers \cup {NoOne} /\ cancel' \in BOOLEAN
    BY <1>3 DEF StartFails, StopWithoutRun, Poll, Answer, Query, TypeOK
  <2> QED
    BY <1>3, <2>1, <2>2
    DEF StartFails, StopWithoutRun, Poll, Answer, TypeOK, Runs, worker, store,
        history
<1>4. ASSUME Restart PROVE TypeOK'
  <2>1. accidents' \in 0..MaxAccidents
    BY <1>4, BoundsAssumption DEF Restart, Accident, TypeOK
  <2>2. orphans' \subseteq Runs
    BY <1>4, <1>s DEF Restart, Alive, TypeOK, Runs
  <2>3. /\ index' \in 1..Steps + 1 /\ skipped' \in 0..Steps
        /\ cancel' \in BOOLEAN /\ verdict' \in {"ok", "error", "cancelled"}
        /\ caller' \in [Callers -> {"idle", "polling", "stopping"}]
    BY <1>4, <1>n DEF Restart
  <2>5. pc' \in Points /\ active' \in 0..Len(status)
    BY <1>4, <1>p, <1>s DEF Restart
  <2>4. UNCHANGED <<status, phase, stoppedAt>> /\ lock' = NoOne
    BY <1>4 DEF Restart, store
  <2> QED
    BY <2>1, <2>2, <2>3, <2>4, <2>5 DEF TypeOK, Runs
<1>5. ASSUME SetTraffic \/ Top \/ WriteIndex \/ Apply \/ AfterApply \/ Warm \/ Measure
      PROVE  TypeOK'
  <2>1. pc' \in Points /\ verdict' \in {"ok", "error", "cancelled"}
    BY <1>5, <1>p
    DEF SetTraffic, Top, WriteIndex, Apply, AfterApply, Warm, Measure, Goto, Leave,
        TypeOK
  <2> QED
    BY <1>5, <2>1
    DEF SetTraffic, Top, WriteIndex, Apply, AfterApply, Warm, Measure, Private,
        TypeOK, Runs, store, history
<1>6. ASSUME WriteApplying \/ WriteWarmup \/ WriteMeasuring PROVE TypeOK'
  <2>1. active # 0 /\ index \in Step
    BY <1>6 DEF WriteApplying, WriteWarmup, WriteMeasuring, WorkerHasRun, Progress,
                Before, During, Writing
  <2>2. phase' \in Seq([Step -> Phases]) /\ Len(phase') = Len(phase)
    BY <1>6, <2>1, SetPhaseRows
    DEF WriteApplying, WriteWarmup, WriteMeasuring, Phases, Begun
  <2>3. pc' \in Points
    BY <1>6, <1>p DEF WriteApplying, WriteWarmup, WriteMeasuring, Goto
  <2> QED
    BY <1>6, <2>2, <2>3
    DEF WriteApplying, WriteWarmup, WriteMeasuring, Private, TypeOK, Runs, Phases,
        history
<1>7. ASSUME WriteDone PROVE TypeOK'
  <2>1. active # 0 /\ index \in Step
    BY <1>7 DEF WriteDone, WorkerHasRun, Progress, During
  <2>2. phase' \in Seq([Step -> Phases]) /\ Len(phase') = Len(phase)
    BY <1>7, <2>1, SetPhaseRows DEF WriteDone, Phases, Begun
  <2>3. pc' \in Points /\ index' \in 1..Steps + 1
    BY <1>7, <1>p, <2>1, StepsAssumption DEF WriteDone, Goto, Step
  <2> QED
    BY <1>7, <2>2, <2>3 DEF WriteDone, Private, TypeOK, Runs, Phases, history
<1>8. ASSUME WriteVerdict PROVE TypeOK'
  <2>1. active # 0 /\ index \in Step /\ verdict \in {"cancelled", "error"}
    BY <1>8 DEF WriteVerdict, WorkerHasRun, Progress, Outcome
  <2>2. phase' \in Seq([Step -> Phases]) /\ Len(phase') = Len(phase)
    BY <1>8, <2>1, SetPhaseRows DEF WriteVerdict, Phases, Begun
  <2>3. pc' \in Points /\ skipped' \in 0..Steps
    BY <1>8, <1>p, <2>1, StepsAssumption DEF WriteVerdict, Goto, Step
  <2> QED
    BY <1>8, <2>2, <2>3 DEF WriteVerdict, Private, TypeOK, Runs, Phases, history
<1>9. ASSUME Skip PROVE TypeOK'
  <2>1. CASE skipped < Steps
    <3>1. active # 0 /\ skipped + 1 \in Step
      BY <1>9, <2>1, StepsAssumption DEF Skip, WorkerHasRun, TypeOK, Step
    <3>2. phase' \in Seq([Step -> Phases]) /\ Len(phase') = Len(phase)
      BY <1>9, <2>1, <3>1, SetPhaseRows DEF Skip, Phases
    <3>3. skipped' \in 0..Steps
      BY <1>9, <2>1, StepsAssumption DEF Skip, TypeOK
    <3> QED
      BY <1>9, <2>1, <3>2, <3>3 DEF Skip, Private, TypeOK, Runs, Phases, history
  <2>2. CASE ~(skipped < Steps)
    BY <1>9, <1>p, <2>2 DEF Skip, Goto, Private, TypeOK, Runs, history
  <2> QED
    BY <2>1, <2>2
<1>10. ASSUME WriteOutcome PROVE TypeOK'
  <2>1. active # 0
    BY <1>10 DEF WriteOutcome, WorkerHasRun
  <2>2. status' \in Seq(Statuses) /\ Len(status') = Len(status)
    BY <1>10, <2>1, SetStatusRows DEF WriteOutcome, Statuses
  <2> QED
    BY <1>10, <1>p, <2>2
    DEF WriteOutcome, Goto, Private, TypeOK, Runs, Statuses, history
<1>11. ASSUME TransactionFails PROVE TypeOK'
  <2>1. active \in Runs
    BY <1>11, <1>s DEF TransactionFails, WorkerHasRun, Writing, TypeOK, Runs
  <2> QED
    BY <1>11, <1>p, <2>1, BoundsAssumption
    DEF TransactionFails, Accident, Goto, TypeOK, Runs, store
<1>12. ASSUME Finally PROVE TypeOK'
  BY <1>12, <1>p, <1>s DEF Finally, Goto, TypeOK, Runs, store, history
<1>13. CASE UNCHANGED vars
  BY <1>13 DEF vars, TypeOK, Runs, worker, store, history
<1> QED
  BY <1>1, <1>2, <1>3, <1>4, <1>5, <1>6, <1>7, <1>8, <1>9, <1>10, <1>11,
     <1>12, <1>13
  DEF Next, Work

-----------------------------------------------------------------------------
(* The parts of the invariant that speak of all runs.                      *)
RowsInv == StepsInOrder /\ OutcomeMatchesSteps /\ RunningRowHasWorker /\ StopIsKept

(* Elements of the rows. *)
LEMMA RowTypes ==
    ASSUME TypeOK, active # 0
    PROVE  /\ active \in Runs
           /\ phase[active] \in [Step -> Phases]
           /\ status[active] \in Statuses
           /\ stoppedAt[active] \in 0..Steps + 1
<1>1. Len(status) \in Nat
  BY LenProperties DEF TypeOK
<1>2. active \in 1..Len(status)
  BY <1>1 DEF TypeOK
<1> QED
  BY <1>2, ElementOfSeq DEF TypeOK, Runs, Phases, Statuses

(* A step that leaves the rows and the active run alone keeps RowsInv. *)
LEMMA RowsUnchanged ==
    ASSUME IInv, UNCHANGED <<status, phase, stoppedAt>>,
           active' \in {active, 0}, orphans \subseteq orphans',
           active' = 0 /\ active # 0 =>
               status[active] # "running" \/ active \in orphans'
    PROVE  RowsInv'
<1>1. StepsInOrder'
  BY DEF IInv, StepsInOrder, Runs
<1>2. OutcomeMatchesSteps'
  BY DEF IInv, OutcomeMatchesSteps, Runs
<1>3. RunningRowHasWorker'
  BY DEF IInv, RunningRowHasWorker, Runs
<1>4. StopIsKept'
  BY DEF IInv, StopIsKept, Runs
<1> QED
  BY <1>1, <1>2, <1>3, <1>4 DEF RowsInv

(* Writing a phase of the run in progress keeps RowsInv if all earlier     *)
(* steps are done, and a stop allows it.                                   *)
LEMMA RowsWithPhase ==
    ASSUME IInv, active # 0, pc # "finally", NEW i \in Step, NEW p \in Phases,
           SetPhase(i, p),
           UNCHANGED <<status, stoppedAt, active, orphans>>,
           p \in Begun => \A j \in Step : j < i => phase[active][j] = "done",
           p # "done" => \A j \in Step : j > i => phase[active][j] \notin Begun,
           stoppedAt[active] # 0 /\ i > stoppedAt[active] =>
               p \in {"pending", "skipped", "cancelled"}
    PROVE  RowsInv'
<1> USE DEF IInv
<1>0. /\ \A r \in Runs : r # active => phase'[r] = phase[r]
      /\ \A j \in Step : phase'[active][j] = IF j = i THEN p ELSE phase[active][j]
  BY SetPhaseRows
<1>1. StepsInOrder'
  <2> SUFFICES ASSUME NEW r \in Runs, NEW j \in Step, NEW k \in Step,
                      j < k, phase'[r][k] \in Begun
               PROVE  phase'[r][j] = "done"
    BY DEF StepsInOrder, Runs
  <2>1. CASE r # active
    BY <1>0, <2>1 DEF StepsInOrder
  <2>2. CASE r = active /\ k = i
    BY <1>0, <2>2 DEF Step
  <2>3. CASE r = active /\ k # i
    <3>1. phase[active][k] \in Begun
      BY <1>0, <2>3
    <3>2. phase[active][j] = "done"
      BY <2>3, <3>1 DEF StepsInOrder
    <3> QED
      BY <1>0, <2>3, <3>1, <3>2
  <2> QED
    BY <2>1, <2>2, <2>3
<1>2. OutcomeMatchesSteps'
  <2>1. status[active] = "running"
    BY DEF WorkerHasRun
  <2> QED
    BY <1>0, <2>1 DEF OutcomeMatchesSteps, Runs
<1>3. RunningRowHasWorker'
  BY DEF RunningRowHasWorker, Runs
<1>4. StopIsKept'
  BY <1>0 DEF StopIsKept, Runs
<1> QED
  BY <1>1, <1>2, <1>3, <1>4 DEF RowsInv

-----------------------------------------------------------------------------
(* The part that speaks of the worker. *)
WorkerInv == WorkerHasRun /\ Progress /\ Outcome /\ StopSeen

(* The steps of the other threads. *)
LEMMA ThreadSteps ==
    ASSUME IInv, NEW c \in Callers,
           Start(c) \/ StartFails(c) \/ Stop(c) \/ StopWithoutRun(c)
           \/ Poll(c) \/ Answer(c)
    PROVE  RowsInv' /\ WorkerInv'
<1> USE DEF IInv
<1>1. CASE Start(c)
  <2> USE StepsAssumption
  <2>1. active = 0
    BY <1>1 DEF Start, Alive
  <2>2. /\ active' # 0 /\ active' = Len(status') /\ index' = 1
        /\ pc' \in {"traffic", "top"} /\ orphans' = orphans
    BY <1>1, StartRows, LenProperties DEF Start, TypeOK
  <2>3. /\ \A r \in 1..Len(status') : r \in Runs \/ r = active'
        /\ \A r \in Runs : r # active'
    BY <1>1, StartRows, LenProperties DEF Runs, TypeOK
  <2>4. WorkerInv'
    BY <1>1, <2>2, StartRows
    DEF WorkerInv, WorkerHasRun, Progress, Outcome, StopSeen, Before, During, Writing,
        Step
  <2>5. /\ \A r \in Runs : /\ status'[r] = status[r] /\ phase'[r] = phase[r]
                          /\ stoppedAt'[r] = stoppedAt[r]
        /\ status'[active'] = "running" /\ stoppedAt'[active'] = 0
        /\ \A i \in Step : phase'[active'][i] = "pending"
    BY <1>1, StartRows
  <2>6. \A r \in Runs' : r \in Runs \/ r = active'
    BY <2>3 DEF Runs
  <2>7. StepsInOrder'
    <3> SUFFICES ASSUME NEW r \in Runs'
                 PROVE  \A i, j \in Step : i < j /\ phase'[r][j] \in Begun
                                            => phase'[r][i] = "done"
      BY DEF StepsInOrder
    <3>1. CASE r \in Runs
      BY <2>5, <3>1 DEF StepsInOrder
    <3>2. CASE r = active'
      BY <2>5, <3>2 DEF Begun
    <3> QED
      BY <2>6, <3>1, <3>2
  <2>8. OutcomeMatchesSteps'
    BY <2>5, <2>6 DEF OutcomeMatchesSteps
  <2>9. RunningRowHasWorker'
    <3>1. \A r \in Runs : r # active
      BY <2>1 DEF Runs
    <3> QED
      BY <2>2, <2>5, <2>6, <3>1 DEF RunningRowHasWorker
  <2>10. StopIsKept'
    BY <2>5, <2>6 DEF StopIsKept
  <2> QED
    BY <2>4, <2>7, <2>8, <2>9, <2>10 DEF RowsInv
<1>2. CASE Stop(c)
  <2>1. /\ active # 0 /\ cancel' = TRUE
        /\ UNCHANGED <<active, pc, index, skipped, verdict, status, phase, orphans>>
    BY <1>2 DEF Stop, Alive, worker, store
  <2>2. /\ active \in Runs /\ stoppedAt[active] \in 0..Steps + 1
        /\ stoppedAt \in Seq(0..Steps + 1) /\ active \in 1..Len(stoppedAt)
    BY <2>1, RowTypes DEF TypeOK, Runs
  <2>3. /\ \A r \in Runs : r # active => stoppedAt'[r] = stoppedAt[r]
        /\ stoppedAt'[active] = IF stoppedAt[active] = 0 THEN index
                                ELSE stoppedAt[active]
    BY <1>2, <2>2 DEF Stop, TypeOK, Runs
  <2>4. WorkerInv'
    BY <2>1, <2>3
    DEF WorkerInv, WorkerHasRun, Progress, Outcome, StopSeen, TypeOK
  <2>5. StepsInOrder' /\ OutcomeMatchesSteps' /\ RunningRowHasWorker'
    BY <2>1 DEF StepsInOrder, OutcomeMatchesSteps, RunningRowHasWorker, Runs
  <2>6. StopIsKept'
    BY <2>1, <2>3 DEF StopIsKept, Progress, Runs
  <2> QED
    BY <2>4, <2>5, <2>6 DEF RowsInv
<1>3. CASE StartFails(c) \/ StopWithoutRun(c) \/ Poll(c) \/ Answer(c)
  <2>1. /\ UNCHANGED <<active, pc, index, skipped, verdict, status, phase,
                       stoppedAt, orphans>>
        /\ active = 0 \/ UNCHANGED cancel
    BY <1>3 DEF StartFails, StopWithoutRun, Poll, Answer, Alive, worker, store, history
  <2>2. RowsInv'
    BY <2>1, RowsUnchanged
  <2>3. WorkerInv'
    BY <2>1 DEF WorkerInv, WorkerHasRun, Progress, Outcome, StopSeen
  <2> QED
    BY <2>2, <2>3
<1> QED
  BY <1>1, <1>2, <1>3

(* The death of the process. *)
LEMMA RestartStep ==
    ASSUME IInv, Restart
    PROVE  RowsInv' /\ WorkerInv'
<1> USE DEF IInv
<1>1. RowsInv'
  BY RowsUnchanged DEF Restart, Alive, store
<1>2. WorkerInv'
  BY DEF Restart, WorkerInv, WorkerHasRun, Progress, Outcome, StopSeen
<1> QED
  BY <1>1, <1>2

(* The steps of the worker that write no row. *)
LEMMA QuietSteps ==
    ASSUME IInv, SetTraffic \/ Top \/ WriteIndex \/ Apply \/ AfterApply \/ Warm
                 \/ Measure \/ TransactionFails \/ Finally
    PROVE  RowsInv' /\ WorkerInv'
<1> USE DEF IInv
<1>1. UNCHANGED <<status, phase, stoppedAt>> /\ active # 0
  BY DEF SetTraffic, Top, WriteIndex, Apply, AfterApply, Warm, Measure, TransactionFails,
         Finally, Private, store, history, WorkerHasRun, Writing
<1>2. RowsInv'
  BY <1>1, RowsUnchanged
  DEF SetTraffic, Top, WriteIndex, Apply, AfterApply, Warm, Measure, TransactionFails,
      Finally, Private, store, history, WorkerHasRun
<1>3. WorkerInv'
  <2> USE <1>1 DEF WorkerInv, WorkerHasRun, Progress, Outcome, StopSeen, Before, During,
                   Ending, Writing, Goto, Private, history
  <2>1. CASE SetTraffic
    BY <2>1 DEF SetTraffic
  <2>2. CASE Top
    BY <2>2, StepsAssumption DEF Top, Leave, TypeOK, Step
  <2>3. CASE WriteIndex
    BY <2>3 DEF WriteIndex
  <2>4. CASE Apply
    BY <2>4 DEF Apply
  <2>5. CASE AfterApply
    BY <2>5 DEF AfterApply, Leave
  <2>6. CASE Warm
    BY <2>6 DEF Warm, Leave
  <2>7. CASE Measure
    BY <2>7 DEF Measure, Leave
  <2>8. CASE TransactionFails
    BY <2>8 DEF TransactionFails
  <2>9. CASE Finally
    BY <2>9 DEF Finally
  <2> QED
    BY <2>1, <2>2, <2>3, <2>4, <2>5, <2>6, <2>7, <2>8, <2>9
<1> QED
  BY <1>2, <1>3

(* The steps of the worker that write the phase of its step. *)
LEMMA PhaseSteps ==
    ASSUME IInv, WriteApplying \/ WriteWarmup \/ WriteMeasuring \/ WriteDone
                 \/ WriteVerdict
    PROVE  RowsInv' /\ WorkerInv'
<1> USE DEF IInv
<1>1. /\ active # 0 /\ active \in Runs /\ index \in Step /\ pc # "finally"
      /\ stoppedAt[active] \in 0..Steps + 1
      /\ phase[active] \in [Step -> Phases]
  <2>1. active # 0 /\ index \in Step /\ pc # "finally"
    BY DEF WriteApplying, WriteWarmup, WriteMeasuring, WriteDone, WriteVerdict,
           WorkerHasRun, Progress, Before, During, Writing
  <2> QED
    BY <2>1, RowTypes
<1>2. /\ UNCHANGED <<lock, active, cancel, status, stoppedAt, orphans>>
      /\ \A j \in Step : j < index => phase[active][j] = "done"
      /\ \A j \in Step : j > index => phase[active][j] \in {"pending", "skipped"}
  BY <1>1 DEF WriteApplying, WriteWarmup, WriteMeasuring, WriteDone, WriteVerdict,
              Private, history, Progress
<1>3. PICK p \in Begun : SetPhase(index, p) /\ p = IF pc = "leave" THEN verdict ELSE pc
  <2>1. pc = "leave" => verdict \in {"cancelled", "error"}
    BY <1>1 DEF Outcome
  <2> QED
    BY <2>1 DEF WriteApplying, WriteWarmup, WriteMeasuring, WriteDone, WriteVerdict, Begun
<1>4. stoppedAt[active] # 0 /\ index > stoppedAt[active] => p = "cancelled"
  <2> SUFFICES ASSUME stoppedAt[active] # 0, index > stoppedAt[active]
               PROVE  p = "cancelled"
    OBVIOUS
  <2>1. index = stoppedAt[active] + 1
    BY <1>1 DEF StopSeen, Step
  <2>2. pc = "leave" /\ verdict = "cancelled"
    BY <1>1, <2>1
    DEF StopSeen, Ending, WriteApplying, WriteWarmup, WriteMeasuring, WriteDone,
        WriteVerdict
  <2> QED
    BY <1>3, <2>2
<1>5. RowsInv'
  <2>1. \A j \in Step : j > index => phase[active][j] \notin Begun
    BY <1>2 DEF Begun
  <2> QED
    BY <1>1, <1>2, <1>3, <1>4, <2>1, RowsWithPhase DEF Phases
<1>6. \A j \in Step : phase'[active][j] = IF j = index THEN p ELSE phase[active][j]
  BY <1>1, <1>3, StepsOfActive DEF Phases
<1>7. WorkerInv'
  <2> USE <1>1, <1>2, <1>3, <1>6
      DEF WorkerInv, WorkerHasRun, Progress, Outcome, StopSeen, Before, During,
          Ending, Writing, Goto, InProgress, Step
  <2>1. CASE WriteApplying
    BY <2>1 DEF WriteApplying
  <2>2. CASE WriteWarmup
    BY <2>2 DEF WriteWarmup
  <2>3. CASE WriteMeasuring
    BY <2>3 DEF WriteMeasuring
  <2>4. CASE WriteDone
    <3>1. /\ index' = index + 1 /\ pc' = "top" /\ pc = "done"
          /\ \A j \in Step : j < index' => j < index \/ j = index
          /\ \A j \in Step : j >= index' => j > index
          /\ \A j \in Step : j < index' => phase'[active][j] = "done"
          /\ \A j \in Step : j >= index' => phase'[active][j] = "pending"
      BY <2>4 DEF WriteDone
    <3>2. WorkerHasRun' /\ Outcome'
      BY <3>1
    <3>3. Progress'
      BY <3>1
    <3>4. StopSeen'
      <4> SUFFICES ASSUME stoppedAt[active] # 0
                   PROVE  StopSeen'
        OBVIOUS
      <4>1. cancel /\ index = stoppedAt[active]
        BY <3>1
      <4>2. index' \in Step => phase'[active][index'] = "pending"
        BY <2>4, <3>1, <3>3 DEF WriteDone
      <4> QED
        BY <3>1, <4>1, <4>2
    <3> QED
      BY <3>2, <3>3, <3>4
  <2>5. CASE WriteVerdict
    BY <2>5 DEF WriteVerdict
  <2> QED
    BY <2>1, <2>2, <2>3, <2>4, <2>5
<1> QED
  BY <1>5, <1>7

(* Skipping a later step. *)
LEMMA SkipSteps ==
    ASSUME IInv, Skip
    PROVE  RowsInv' /\ WorkerInv'
<1> USE DEF IInv
<1>1. /\ active # 0 /\ active \in Runs /\ index \in Step /\ pc = "skip"
      /\ stoppedAt[active] \in 0..Steps + 1
      /\ skipped \in 0..Steps /\ skipped >= index
      /\ verdict \in {"cancelled", "error"}
      /\ phase[active] \in [Step -> Phases]
  <2>1. active # 0 /\ pc = "skip"
    BY DEF Skip, WorkerHasRun
  <2> QED
    BY <2>1, RowTypes DEF Progress, Outcome, TypeOK
<1>2. UNCHANGED <<lock, active, cancel, status, stoppedAt, orphans, index, verdict>>
  BY DEF Skip, Private, history
<1>3. CASE skipped < Steps
  <2>1. /\ SetPhase(skipped + 1, "skipped") /\ skipped' = skipped + 1 /\ pc' = pc
        /\ skipped + 1 \in Step /\ skipped + 1 > index
    BY <1>1, <1>3, StepsAssumption DEF Skip, Step
  <2>2. RowsInv'
    <3>1. \A j \in Step : j > skipped + 1 => phase[active][j] \notin Begun
      BY <1>1, <2>1 DEF Progress, Begun, Step
    <3> QED
      BY <1>1, <1>2, <2>1, <3>1, RowsWithPhase DEF Phases, Begun
  <2>3. \A j \in Step : phase'[active][j] =
            IF j = skipped + 1 THEN "skipped" ELSE phase[active][j]
    <3>1. PICK i \in Step : i = skipped + 1 /\ SetPhase(i, "skipped")
      BY <2>1
    <3> QED
      BY <1>1, <3>1, StepsOfActive DEF Phases
  <2>4. WorkerHasRun' /\ StopSeen'
    BY <1>1, <1>2, <2>1, <2>3 DEF WorkerHasRun, StopSeen, Step
  <2>5. Progress'
    BY <1>1, <1>2, <2>1, <2>3 DEF Progress, Before, During, Ending, Writing, Step
  <2>6. Outcome'
    BY <1>1, <1>2, <2>1, <2>3 DEF Outcome, Progress, Step
  <2> QED
    BY <2>2, <2>4, <2>5, <2>6 DEF WorkerInv
<1>4. CASE ~(skipped < Steps)
  <2>1. UNCHANGED <<phase, skipped>> /\ pc' = "settle" /\ skipped = Steps
    BY <1>1, <1>4, StepsAssumption DEF Skip, Goto
  <2>2. RowsInv'
    BY <1>1, <1>2, <2>1, RowsUnchanged
  <2>3. WorkerInv'
    BY <1>1, <1>2, <2>1
    DEF WorkerInv, WorkerHasRun, Progress, Outcome, StopSeen, Before, During, Ending,
        Writing, Step
  <2> QED
    BY <2>2, <2>3
<1> QED
  BY <1>3, <1>4

(* The run gets its status. *)
LEMMA OutcomeStep ==
    ASSUME IInv, WriteOutcome
    PROVE  RowsInv' /\ WorkerInv'
<1> USE DEF IInv
<1>1. /\ active # 0 /\ active \in Runs
      /\ UNCHANGED <<active, cancel, phase, stoppedAt, orphans, index, skipped, verdict>>
      /\ pc' = "finally"
  BY RowTypes DEF WriteOutcome, WorkerHasRun, Private, history, Goto
<1>2. PICK v \in Statuses \ {"running"} :
         /\ SetStatus(v)
         /\ v = "done" => pc = "complete"
         /\ v = "stopped" => pc = "settle" /\ verdict = "cancelled"
  BY DEF WriteOutcome, Statuses
<1>3. /\ \A r \in Runs : r # active => status'[r] = status[r]
      /\ status'[active] = v /\ Len(status') = Len(status)
  BY <1>1, <1>2, SetStatusRows
<1>4. StepsInOrder' /\ StopIsKept'
  BY <1>1, <1>3 DEF StepsInOrder, StopIsKept, Runs
<1>5. RunningRowHasWorker'
  BY <1>1, <1>2, <1>3 DEF RunningRowHasWorker, Runs
<1>6. OutcomeMatchesSteps'
  <2>1. v = "done" => \A i \in Step : phase[active][i] = "done"
    BY <1>1, <1>2, StepsAssumption DEF Progress, Step
  <2>2. v = "stopped" =>
            /\ \E i \in Step : phase[active][i] = "cancelled"
            /\ \A i \in Step : phase[active][i] \notin InProgress \cup {"pending"}
    <3> SUFFICES ASSUME v = "stopped"
                 PROVE  /\ \E i \in Step : phase[active][i] = "cancelled"
                        /\ \A i \in Step :
                              phase[active][i] \notin InProgress \cup {"pending"}
      OBVIOUS
    <3>1. /\ index \in Step /\ phase[active][index] = "cancelled"
          /\ \A i \in Step : i > index => phase[active][i] = "skipped"
          /\ \A i \in Step : i < index => phase[active][i] = "done"
      BY <1>1, <1>2 DEF Outcome, Progress
    <3>2. \A i \in Step : i < index \/ i = index \/ i > index
      BY <3>1 DEF Step
    <3> QED
      BY <3>1, <3>2 DEF InProgress
  <2>3. \A r \in Runs' : r \in Runs
    BY <1>3 DEF Runs
  <2> QED
    BY <1>1, <1>3, <2>1, <2>2, <2>3 DEF OutcomeMatchesSteps
<1>7. WorkerInv'
  <2>1. status'[active] # "running"
    BY <1>2, <1>3
  <2> QED
    BY <1>1, <2>1
    DEF WorkerInv, WorkerHasRun, Progress, Outcome, StopSeen, Before, During, Ending,
        Writing, WriteOutcome
<1> QED
  BY <1>4, <1>5, <1>6, <1>7 DEF RowsInv

-----------------------------------------------------------------------------
LEMMA InitIInv == Init => IInv
<1> SUFFICES ASSUME Init PROVE IInv
  OBVIOUS
<1>1. Len(status) = 0 /\ Runs = {}
  BY DEF Init, Runs
<1>2. TypeOK
  <2>1. /\ 0 <= MaxRuns /\ 1 \in 1..Steps + 1 /\ 0 \in 0..Steps
        /\ 0 \in 0..MaxAccidents /\ 0 \in 0..0
    BY StepsAssumption, BoundsAssumption
  <2>2. /\ pc \in Points /\ lock \in Callers \cup {NoOne}
        /\ caller \in [Callers -> {"idle", "polling", "stopping"}]
    BY DEF Init, Points
  <2>3. /\ status \in Seq({"running", "done", "stopped", "error"})
        /\ phase \in Seq([Step -> {"pending", "skipped"} \cup Begun])
        /\ stoppedAt \in Seq(0..Steps + 1)
        /\ Len(phase) = 0 /\ Len(stoppedAt) = 0
    BY EmptySeq DEF Init
  <2> QED
    BY <1>1, <2>1, <2>2, <2>3 DEF Init, TypeOK
<1>3. WorkerHasRun /\ Progress /\ Outcome /\ StopSeen
  BY DEF Init, WorkerHasRun, Progress, Outcome, StopSeen
<1> QED
  BY <1>1, <1>2, <1>3
  DEF IInv, StepsInOrder, OutcomeMatchesSteps, RunningRowHasWorker, StopIsKept

LEMMA StepIInv == IInv /\ [Next]_vars => IInv'
<1> SUFFICES ASSUME IInv, [Next]_vars PROVE IInv'
  OBVIOUS
<1>1. TypeOK'
  BY StepTypeOK DEF IInv
<1>2. RowsInv' /\ WorkerInv'
  <2>1. CASE \E c \in Callers : \/ Start(c) \/ StartFails(c) \/ Stop(c)
                                \/ StopWithoutRun(c) \/ Poll(c) \/ Answer(c)
    BY <2>1, ThreadSteps
  <2>2. CASE Restart
    BY <2>2, RestartStep
  <2>3. CASE Work
    BY <2>3, QuietSteps, PhaseSteps, SkipSteps, OutcomeStep DEF Work
  <2>4. CASE TransactionFails
    BY <2>4, QuietSteps
  <2>5. CASE UNCHANGED vars
    <3>1. RowsInv'
      BY <2>5, RowsUnchanged DEF vars, store, history
    <3>2. WorkerInv'
      BY <2>5 DEF vars, worker, store, history, IInv, WorkerInv, WorkerHasRun,
                  Progress, Outcome, StopSeen
    <3> QED
      BY <3>1, <3>2
  <2> QED
    BY <2>1, <2>2, <2>3, <2>4, <2>5 DEF Next
<1> QED
  BY <1>1, <1>2 DEF IInv, RowsInv, WorkerInv

(* The inductive invariant holds of every run of both sweep runners.       *)
THEOREM Invariance == Spec => []IInv
<1> QED
  BY InitIInv, StepIInv, PTL DEF Spec

(* Every variable of a runner and of its tables keeps its type: the worker *)
(* never indexes a row outside the run, and there is a row of each kind    *)
(* for every run.                                                          *)
THEOREM Typing == Spec => []TypeOK
<1>1. IInv => TypeOK
  BY DEF IInv
<1> QED
  BY <1>1, Invariance, PTL

(* The steps of a run are taken in order, for any number of steps.         *)
THEOREM Order == Spec => []StepsInOrder
<1>1. IInv => StepsInOrder
  BY DEF IInv
<1> QED
  BY <1>1, Invariance, PTL

(* The status of a run agrees with the rows of its steps, though every row *)
(* is written in its own transaction and any of them may fail.             *)
THEOREM Agreement == Spec => []OutcomeMatchesSteps
<1>1. IInv => OutcomeMatchesSteps
  BY DEF IInv
<1> QED
  BY <1>1, Invariance, PTL

(* A run is left "running" in the database only by a restart or by two     *)
(* failing transactions.                                                   *)
THEOREM Ownership == Spec => []RunningRowHasWorker
<1>1. IInv => RunningRowHasWorker
  BY DEF IInv
<1> QED
  BY <1>1, Invariance, PTL

(* A stopped run begins no step after the one the stop has found.          *)
THEOREM Stopping == Spec => []StopIsKept
<1>1. IInv => StopIsKept
  BY DEF IInv
<1> QED
  BY <1>1, Invariance, PTL

-----------------------------------------------------------------------------
(* No step changes the rows of a run that is no longer "running".          *)
LEMMA StepFinal ==
    IInv /\ [Next]_vars =>
        \A r \in Runs : status[r] # "running" =>
            status'[r] = status[r] /\ phase'[r] = phase[r]
<1> SUFFICES ASSUME IInv, [Next]_vars, NEW r \in Runs, status[r] # "running"
             PROVE  status'[r] = status[r] /\ phase'[r] = phase[r]
  OBVIOUS
<1> USE DEF IInv
<1>1. CASE UNCHANGED <<status, phase>>
  BY <1>1
<1>2. ASSUME NEW c \in Callers, Start(c)
      PROVE  status'[r] = status[r] /\ phase'[r] = phase[r]
  BY <1>2, StartRows
<1>3. CASE WriteApplying \/ WriteWarmup \/ WriteMeasuring \/ WriteDone
           \/ WriteVerdict \/ Skip \/ WriteOutcome
  <2>1. r # active
    BY <1>3
    DEF WorkerHasRun, WriteApplying, WriteWarmup, WriteMeasuring, WriteDone,
        WriteVerdict, Skip, WriteOutcome
  <2>2. /\ \/ UNCHANGED status
           \/ \E v : status' = [status EXCEPT ![active] = v]
        /\ \/ UNCHANGED phase
           \/ \E row : phase' = [phase EXCEPT ![active] = row]
    BY <1>3
    DEF WriteApplying, WriteWarmup, WriteMeasuring, WriteDone, WriteVerdict, Skip,
        WriteOutcome, SetPhase, SetStatus
  <2> QED
    BY <2>1, <2>2 DEF TypeOK, Runs
<1> QED
  <2>1. \/ UNCHANGED <<status, phase>>
        \/ \E c \in Callers : Start(c)
        \/ WriteApplying \/ WriteWarmup \/ WriteMeasuring \/ WriteDone
        \/ WriteVerdict \/ Skip \/ WriteOutcome
    BY DEF Next, Work, vars, store, StartFails, Stop, StopWithoutRun, Poll, Answer,
           Restart, TransactionFails, SetTraffic, Top, WriteIndex, Apply, AfterApply,
           Warm, Measure, Finally
  <2> QED
    BY <1>1, <1>2, <1>3, <2>1

(* What a client reads of a run that is no longer "running" is final.      *)
THEOREM Finality == Spec => FinishedIsFinal
<1>1. IInv /\ [Next]_vars =>
         [\A r \in Runs : status[r] # "running" =>
              status'[r] = status[r] /\ phase'[r] = phase[r]]_vars
  BY StepFinal
<1> QED
  BY <1>1, Invariance, PTL DEF Spec, FinishedIsFinal

=============================================================================
