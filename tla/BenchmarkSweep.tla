--------------------------- MODULE BenchmarkSweep ----------------------------
(***************************************************************************)
(* The two sweep runners of the backend: the CPU sweep (benchmark_run.py)  *)
(* and the PRB sweep (benchmark_prb_run.py), and the tables they write     *)
(* (benchmark_store.py).  They are the same program but for the constants  *)
(* below, each with its own lock, cancel event and thread, over one        *)
(* database; an instance of this module is one of the two.                 *)
(*                                                                         *)
(* A start request, with the lock held, clears the event, inserts the run  *)
(* with all its steps pending, and starts the worker.  The worker takes    *)
(* the steps in order: apply, warm up, measure, done.  Each change of a    *)
(* row is a transaction of its own, so that a poll, a stop, a failing      *)
(* transaction or the death of the process falls between any two of them.  *)
(*                                                                         *)
(* How a step is applied (the operator agent, the xApp) is left open: it   *)
(* succeeds, fails or raises.                                              *)
(***************************************************************************)
EXTENDS Naturals, Sequences

CONSTANTS
    Callers,        \* HTTP threads
    NoOne,          \* "nobody holds the lock"
    Steps,          \* steps of every run
    Kind,           \* "cpu" or "prb"
    MaxRuns,        \* bound: runs
    MaxAccidents    \* bound: restarts and failing transactions

ASSUME CallersAssumption == NoOne \notin Callers
ASSUME StepsAssumption == Steps \in Nat \ {0}
ASSUME KindAssumption == Kind \in {"cpu", "prb"}
ASSUME BoundsAssumption == MaxRuns \in Nat /\ MaxAccidents \in Nat

VARIABLES
    lock,       \* who holds _lock for longer than one step
    active,     \* _active_id: the run of the worker, 0 for none
    cancel,     \* _cancel is set
    pc,         \* where the worker stands, "none" if there is none
    index,      \* the step the worker is at
    skipped,    \* the last step the worker has marked as skipped
    verdict,    \* how the worker leaves the current step
    status,     \* status[r]: the status column of run r
    phase,      \* phase[r][i]: the phase column of step i of run r
    caller,     \* caller[c]: what HTTP thread c is doing
    accidents,  \* accidents so far
    stoppedAt,  \* history: the step a stop of run r found, 0 if none
    orphans     \* history: runs whose worker could not write their status

worker == <<pc, index, skipped, verdict>>
store == <<status, phase>>
history == <<stoppedAt, orphans>>
vars == <<lock, active, cancel, worker, store, caller, accidents, history>>

-----------------------------------------------------------------------------
Runs == 1..Len(status)

Step == 1..Steps

Begun == {"applying", "warmup", "measuring", "done", "cancelled", "error"}

InProgress == {"applying", "warmup", "measuring"}

(* Points of the worker where it is about to write to the database. *)
Writing == {"index", "applying", "warmup", "measuring", "done", "leave",
            "skip", "settle", "complete", "failed"}

Points == Writing \cup {"none", "traffic", "top", "apply", "applied",
                        "warming", "sampling", "finally"}

LockIsFree == lock = NoOne

(* _thread is not None and _thread.is_alive() *)
Alive == active # 0

(* The thread goes on to status() and reads the run from the database.     *)
Query(c) == caller' = [caller EXCEPT ![c] = "polling"]

Goto(point) == pc' = point

SetPhase(i, p) == phase' = [phase EXCEPT ![active][i] = p]

SetStatus(s) == status' = [status EXCEPT ![active] = s]

Accident == accidents < MaxAccidents /\ accidents' = accidents + 1

Init ==
    /\ lock = NoOne
    /\ active = 0
    /\ cancel = FALSE
    /\ pc = "none"
    /\ index = 1
    /\ skipped = 0
    /\ verdict = "ok"
    /\ status = <<>>
    /\ phase = <<>>
    /\ caller = [c \in Callers |-> "idle"]
    /\ accidents = 0
    /\ stoppedAt = <<>>
    /\ orphans = {}

-----------------------------------------------------------------------------
(* HTTP threads.                                                           *)

(* Mutant: a start does not look for a run in progress. *)
Start_NoCheck(c) ==
    /\ caller[c] = "idle"
    /\ LockIsFree
    /\ Len(status) < MaxRuns
    /\ cancel' = FALSE
    /\ status' = Append(status, "running")
    /\ phase' = Append(phase, [i \in Step |-> "pending"])
    /\ stoppedAt' = Append(stoppedAt, 0)
    /\ active' = Len(status) + 1
    /\ pc' = IF Kind = "prb" THEN "traffic" ELSE "top"
    /\ index' = 1
    /\ skipped' = 0
    /\ verdict' = "ok"
    /\ Query(c)
    /\ UNCHANGED <<lock, accidents, orphans>>

(* start_run, with the lock held: refused while a run is in progress.  It  *)
(* answers with the status of the run.                                     *)
Start(c) ==
    /\ caller[c] = "idle"
    /\ LockIsFree
    /\ ~Alive
    /\ Len(status) < MaxRuns
    /\ cancel' = FALSE
    /\ status' = Append(status, "running")
    /\ phase' = Append(phase, [i \in Step |-> "pending"])
    /\ stoppedAt' = Append(stoppedAt, 0)
    /\ active' = Len(status) + 1
    /\ pc' = IF Kind = "prb" THEN "traffic" ELSE "top"
    /\ index' = 1
    /\ skipped' = 0
    /\ verdict' = "ok"
    /\ Query(c)
    /\ UNCHANGED <<lock, accidents, orphans>>

(* The insertion of a run fails: only the event has been cleared.          *)
StartFails(c) ==
    /\ caller[c] = "idle"
    /\ LockIsFree
    /\ ~Alive
    /\ Accident
    /\ cancel' = FALSE
    /\ UNCHANGED <<lock, active, worker, store, caller, history>>

(* stop_run while a run is in progress.                                    *)
Stop(c) ==
    /\ caller[c] = "idle"
    /\ LockIsFree
    /\ Alive
    /\ cancel' = TRUE
    /\ stoppedAt' = [stoppedAt EXCEPT ![active] = IF @ = 0 THEN index ELSE @]
    /\ Query(c)
    /\ UNCHANGED <<lock, active, worker, store, accidents, orphans>>

(* stop_run without a run in progress.  The CPU runner reads the latest    *)
(* run; the PRB runner calls status() with the lock held, which waits for  *)
(* the lock, and a threading.Lock is not reentrant.                        *)
StopWithoutRun(c) ==
    /\ caller[c] = "idle"
    /\ LockIsFree
    /\ ~Alive
    /\ Kind = "prb"
    /\ lock' = c
    /\ caller' = [caller EXCEPT ![c] = "stopping"]
    /\ UNCHANGED <<active, cancel, worker, store, accidents, history>>

(* status, first half: the latest run is read from the database ...        *)
Poll(c) ==
    /\ caller[c] = "idle"
    /\ Query(c)
    /\ UNCHANGED <<lock, active, cancel, worker, store, accidents, history>>

(* ... and then, with the lock, whether its worker is alive.  A run whose  *)
(* worker is alive is answered as running.                                 *)
Answer(c) ==
    /\ caller[c] = "polling"
    /\ LockIsFree
    /\ caller' = [caller EXCEPT ![c] = "idle"]
    /\ UNCHANGED <<lock, active, cancel, worker, store, accidents, history>>

(* The process dies and comes back: the worker is gone, the rows stay.     *)
Restart ==
    /\ Accident
    /\ orphans' = IF Alive /\ status[active] = "running"
                  THEN orphans \cup {active} ELSE orphans
    /\ lock' = NoOne
    /\ active' = 0
    /\ cancel' = FALSE
    /\ pc' = "none"
    /\ index' = 1
    /\ skipped' = 0
    /\ verdict' = "ok"
    /\ caller' = [c \in Callers |-> "idle"]
    /\ UNCHANGED <<store, stoppedAt>>

-----------------------------------------------------------------------------
(* The worker.  What it leaves alone: the registry of the run, and what    *)
(* the other threads are doing.                                            *)
Private == UNCHANGED <<lock, active, cancel, caller, accidents, history>>

(* The PRB runner first turns the traffic into the direction of the run.   *)
SetTraffic ==
    /\ pc = "traffic"
    /\ \E ok \in BOOLEAN :
          /\ Goto(IF ok THEN "top" ELSE "settle")
          /\ verdict' = IF ok THEN "ok" ELSE "error"
    /\ UNCHANGED <<index, skipped, store>>
    /\ Private

(* The worker leaves the step it is at with a verdict. *)
Leave(v) ==
    /\ Goto("leave")
    /\ verdict' = v

(* Mutant: a stop is not looked at between steps. *)
Top_NoCancel ==
    /\ pc = "top"
    /\ Goto(IF index > Steps THEN "complete" ELSE "index")
    /\ UNCHANGED <<index, skipped, verdict, store>>
    /\ Private

(* The head of the loop: the run is through, or it is stopped, or the next *)
(* step begins.                                                            *)
Top ==
    /\ pc = "top"
    /\ IF index > Steps THEN Goto("complete") /\ UNCHANGED verdict
       ELSE IF cancel THEN Leave("cancelled")
       ELSE Goto("index") /\ UNCHANGED verdict
    /\ UNCHANGED <<index, skipped, store>>
    /\ Private

(* update_run(current_index): a column no property is about. *)
WriteIndex ==
    /\ pc = "index"
    /\ Goto("applying")
    /\ UNCHANGED <<index, skipped, verdict, store>>
    /\ Private

WriteApplying ==
    /\ pc = "applying"
    /\ SetPhase(index, "applying")
    /\ Goto("apply")
    /\ UNCHANGED <<index, skipped, verdict, status>>
    /\ Private

(* The step is applied, or is not within the time allowed, or the wait     *)
(* sees the event.  It raises if the operator is gone (set_resources), or  *)
(* if the answer of the xApp makes no sense.                               *)
Apply ==
    /\ pc = "apply"
    /\ \/ \E v \in {"ok", "error"} : Goto("applied") /\ verdict' = v
       \/ Goto("failed") /\ UNCHANGED verdict
    /\ UNCHANGED <<index, skipped, store>>
    /\ Private

(* Mutant: a step that failed does not end the run. *)
AfterApply_GoesOn ==
    /\ pc = "applied"
    /\ IF cancel THEN Leave("cancelled") /\ UNCHANGED <<index, phase>>
       ELSE IF verdict = "error"
       THEN /\ SetPhase(index, "error") /\ index' = index + 1
            /\ Goto("top") /\ UNCHANGED verdict
       ELSE Goto("warmup") /\ UNCHANGED <<verdict, index, phase>>
    /\ UNCHANGED <<skipped, status>>
    /\ Private

(* A stop comes before the outcome of the apply. *)
AfterApply ==
    /\ pc = "applied"
    /\ IF cancel THEN Leave("cancelled")
       ELSE IF verdict = "error" THEN Leave("error")
       ELSE Goto("warmup") /\ UNCHANGED verdict
    /\ UNCHANGED <<index, skipped, store>>
    /\ Private

WriteWarmup ==
    /\ pc = "warmup"
    /\ SetPhase(index, "warmup")
    /\ Goto("warming")
    /\ UNCHANGED <<index, skipped, verdict, status>>
    /\ Private

(* _interruptible_sleep is through, and the event was not set before.      *)
Warm ==
    /\ pc = "warming"
    /\ IF cancel THEN Leave("cancelled")
       ELSE Goto("measuring") /\ UNCHANGED verdict
    /\ UNCHANGED <<index, skipped, store>>
    /\ Private

WriteMeasuring ==
    /\ pc = "measuring"
    /\ SetPhase(index, "measuring")
    /\ Goto("sampling")
    /\ UNCHANGED <<index, skipped, verdict, status>>
    /\ Private

Measure ==
    /\ pc = "sampling"
    /\ IF cancel THEN Leave("cancelled")
       ELSE Goto("done") /\ UNCHANGED verdict
    /\ UNCHANGED <<index, skipped, store>>
    /\ Private

WriteDone ==
    /\ pc = "done"
    /\ SetPhase(index, "done")
    /\ index' = index + 1
    /\ Goto("top")
    /\ UNCHANGED <<skipped, verdict, status>>
    /\ Private

(* The current step gets its verdict, the later ones are skipped one by    *)
(* one, and the run gets its status.  Mutant: the status comes first.      *)
WriteVerdict_WithStatus ==
    /\ pc = "leave"
    /\ SetPhase(index, verdict)
    /\ SetStatus(IF verdict = "cancelled" THEN "stopped" ELSE "error")
    /\ skipped' = index
    /\ Goto("skip")
    /\ UNCHANGED <<index, verdict>>
    /\ Private

WriteVerdict ==
    /\ pc = "leave"
    /\ SetPhase(index, verdict)
    /\ skipped' = index
    /\ Goto("skip")
    /\ UNCHANGED <<index, verdict, status>>
    /\ Private

(* Mutant: the loop over the later steps begins one too late. *)
Skip_OffByOne ==
    /\ pc = "skip"
    /\ IF skipped + 1 < Steps
       THEN SetPhase(skipped + 2, "skipped") /\ skipped' = skipped + 1 /\ UNCHANGED pc
       ELSE Goto("settle") /\ UNCHANGED <<phase, skipped>>
    /\ UNCHANGED <<index, verdict, status>>
    /\ Private

Skip ==
    /\ pc = "skip"
    /\ IF skipped < Steps
       THEN SetPhase(skipped + 1, "skipped") /\ skipped' = skipped + 1 /\ UNCHANGED pc
       ELSE Goto("settle") /\ UNCHANGED <<phase, skipped>>
    /\ UNCHANGED <<index, verdict, status>>
    /\ Private

WriteOutcome ==
    /\ pc \in {"settle", "complete", "failed"}
    /\ SetStatus(IF pc = "complete" THEN "done"
                 ELSE IF pc = "settle" /\ verdict = "cancelled" THEN "stopped"
                 ELSE "error")
    /\ Goto("finally")
    /\ UNCHANGED <<index, skipped, verdict, phase>>
    /\ Private

(* A transaction fails (the database is locked or full): the exception is  *)
(* caught and the run marked as failed, in a transaction that may fail too.*)
TransactionFails ==
    /\ pc \in Writing
    /\ Accident
    /\ Goto(IF pc = "failed" THEN "finally" ELSE "failed")
    /\ orphans' = IF pc = "failed" THEN orphans \cup {active} ELSE orphans
    /\ UNCHANGED <<lock, active, cancel, index, skipped, verdict, store,
                   caller, stoppedAt>>

(* Mutant: the clean-up is not in a "finally". *)
Finally_OnlyOnSuccess ==
    /\ pc = "finally"
    /\ LockIsFree
    /\ active' = IF status[active] = "error" THEN active ELSE 0
    /\ Goto("none")
    /\ UNCHANGED <<lock, cancel, index, skipped, verdict, store, caller,
                   accidents, history>>

(* The clean-up takes the lock. *)
Finally ==
    /\ pc = "finally"
    /\ LockIsFree
    /\ active' = 0
    /\ Goto("none")
    /\ UNCHANGED <<lock, cancel, index, skipped, verdict, store, caller,
                   accidents, history>>

-----------------------------------------------------------------------------
Work ==
    \/ SetTraffic \/ Top \/ WriteIndex \/ WriteApplying \/ Apply \/ AfterApply
    \/ WriteWarmup \/ Warm \/ WriteMeasuring \/ Measure \/ WriteDone
    \/ WriteVerdict \/ Skip \/ WriteOutcome \/ Finally

Next ==
    \/ \E c \in Callers : \/ Start(c) \/ StartFails(c) \/ Stop(c)
                          \/ StopWithoutRun(c) \/ Poll(c) \/ Answer(c)
    \/ Restart
    \/ Work
    \/ TransactionFails

(* The worker and the HTTP threads run whenever they can: every wait of    *)
(* the worker has a time limit.  Nobody has to start, stop or poll.        *)
Fairness ==
    /\ WF_vars(Work)
    /\ \A c \in Callers : WF_vars(Answer(c))

Spec == Init /\ [][Next]_vars /\ Fairness

-----------------------------------------------------------------------------
TypeOK ==
    /\ lock \in Callers \cup {NoOne}
    /\ active \in 0..Len(status)
    /\ cancel \in BOOLEAN
    /\ pc \in Points
    /\ index \in 1..Steps + 1
    /\ skipped \in 0..Steps
    /\ verdict \in {"ok", "error", "cancelled"}
    /\ status \in Seq({"running", "done", "stopped", "error"})
    /\ Len(status) <= MaxRuns
    /\ phase \in Seq([Step -> {"pending", "skipped"} \cup Begun])
    /\ Len(phase) = Len(status)
    /\ caller \in [Callers -> {"idle", "polling", "stopping"}]
    /\ accidents \in 0..MaxAccidents
    /\ stoppedAt \in Seq(0..Steps + 1)
    /\ Len(stoppedAt) = Len(status)
    /\ orphans \subseteq Runs

(* The steps of a run are taken in order, whatever is stopped, fails or    *)
(* dies: when a step has begun, all earlier ones are done.                 *)
StepsInOrder ==
    \A r \in Runs : \A i, j \in Step :
        i < j /\ phase[r][j] \in Begun => phase[r][i] = "done"

(* The status of a finished run agrees with the rows of its steps, which   *)
(* are written in other transactions: "done" means that every step is      *)
(* done, and "stopped" that no step is left pending or in progress.        *)
OutcomeMatchesSteps ==
    \A r \in Runs :
        /\ status[r] = "done" => \A i \in Step : phase[r][i] = "done"
        /\ status[r] = "stopped" =>
              /\ \E i \in Step : phase[r][i] = "cancelled"
              /\ \A i \in Step : phase[r][i] \notin InProgress \cup {"pending"}

(* A run stays "running" in the database only while its worker is there,   *)
(* unless the process or the database failed it.  status() answers from    *)
(* this row when no worker is alive.                                       *)
RunningRowHasWorker ==
    \A r \in Runs : status[r] = "running" => active = r \/ r \in orphans

(* The status is the last thing written: what a client reads of a run that *)
(* is no longer "running" is final.                                        *)
FinishedIsFinal ==
    [][\A r \in Runs : status[r] # "running" =>
          status'[r] = status[r] /\ phase'[r] = phase[r]]_vars

(* A stop is not lost: the run it found begins no step after the one it    *)
(* was at.  (A stop after the last check of a step cancels the next one.)  *)
StopIsKept ==
    \A r \in Runs : \A i \in Step :
        stoppedAt[r] # 0 /\ i > stoppedAt[r]
          => phase[r][i] \in {"pending", "skipped", "cancelled"}

(* A run ends, whether it is stopped or not. *)
RunEnds == active # 0 ~> active = 0

(* A stop or a poll gets an answer: benchmark_prb_run.stop_run has one for *)
(* the case without a run, "no active PRB benchmark run".                  *)
CallsAreAnswered == \A c \in Callers : caller[c] # "idle" ~> caller[c] = "idle"

=============================================================================
