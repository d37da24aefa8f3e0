----------------------------- MODULE MeasuredStep -----------------------------
(***************************************************************************)
(* What a step of the CPU sweep measures (benchmark_run.py), while the     *)
(* interface sets resources of the same NF (operators.py).  Both merge the *)
(* fields they name into the NF's target, give it the next generation and  *)
(* push it; the agent applies the fields of the latest set only, and the   *)
(* sweep waits until the generation of its set, or a later one, is         *)
(* acknowledged.                                                           *)
(*                                                                         *)
(* The agent is connected and stays so: sessions and their generations are *)
(* the subject of OperatorControl, stops and the rows of a run that of     *)
(* BenchmarkSweep.  A value is the number of the set it came from.         *)
(***************************************************************************)
EXTENDS Naturals, Sequences

CONSTANTS
    MaxSteps,   \* steps of the sweep
    MaxOthers   \* bound: sets of the interface

VARIABLES
    target,     \* the NF's target: generation, values, changed_fields
    ack,        \* its element of "apply"
    pushing,    \* pushing[a]: where the thread of a is in push_desired
    inbox,      \* targets queued for the agent
    reports,    \* its reports under way
    live,       \* the values of the NF's pod
    seen,       \* the last generation the agent has attempted
    worker,     \* the sweep: its place, the value and generation of its set
    made,       \* sets so far, by who made them
    theirs,     \* ghost: fields the interface has named since the step's set
    crossed     \* ghost: it did so before the step's values were in force

stepVars == <<target, ack, pushing, inbox, reports, live, seen, worker, made,
              theirs, crossed>>

-----------------------------------------------------------------------------
Resources == {"cpu_limit", "cpu_request"}

NoPush == [step |-> "idle"]
Asked == [step |-> "asked"]
Holds(frame) == [step |-> "read", frame |-> frame]

StepInit ==
    /\ target = [generation |-> 0, conf |-> [f \in Resources |-> 0], changed |-> {}]
    /\ ack = [generation |-> 0, status |-> "none"]
    /\ pushing = [a \in {"sweep", "interface"} |-> NoPush]
    /\ inbox = <<>>
    /\ reports = <<>>
    /\ live = [f \in Resources |-> 0]
    /\ seen = 0
    /\ worker = [pc |-> "apply", value |-> 0, generation |-> 0]
    /\ made = [a \in {"sweep", "interface"} |-> 0]
    /\ theirs = {}
    /\ crossed = FALSE

-----------------------------------------------------------------------------
Value == made["sweep"] + made["interface"] + 1

(* set_resources for a, up to its push.                                    *)
SetResources(a, named) ==
    /\ pushing[a] = NoPush
    /\ target' = [generation |-> target.generation + 1,
                  conf |-> [f \in Resources |->
                              IF f \in named THEN Value ELSE target.conf[f]],
                  changed |-> named]
    /\ ack' = [generation |-> 0, status |-> "pending"]
    /\ pushing' = [pushing EXCEPT ![a] = Asked]
    /\ made' = [made EXCEPT ![a] = @ + 1]
    /\ UNCHANGED <<inbox, reports, live, seen>>

(* The two halves of push_desired.                                         *)
ReadDesired(a) ==
    /\ pushing[a] = Asked
    /\ pushing' = [pushing EXCEPT ![a] = Holds(target)]
    /\ UNCHANGED <<target, ack, inbox, reports, live, seen, worker, made,
                   theirs, crossed>>

Enqueue(a) ==
    /\ pushing[a].step = "read"
    /\ inbox' = Append(inbox, pushing[a].frame)
    /\ pushing' = [pushing EXCEPT ![a] = NoPush]
    /\ UNCHANGED <<target, ack, reports, live, seen, worker, made, theirs,
                   crossed>>

(* The agent skips what it has attempted; an attempt can fail.             *)
Attempt ==
    LET frame == Head(inbox) IN
    /\ inbox # <<>>
    /\ inbox' = Tail(inbox)
    /\ IF frame.generation <= seen THEN UNCHANGED <<live, seen, reports>>
       ELSE /\ seen' = frame.generation
            /\ \E status \in {"ok", "error"} :
                 /\ live' = [f \in Resources |->
                       IF status = "ok" /\ f \in frame.changed
                       THEN frame.conf[f] ELSE live[f]]
                 /\ reports' = Append(reports,
                       [generation |-> frame.generation, status |-> status])
    /\ UNCHANGED <<target, ack, pushing, worker, made, theirs, crossed>>

ReportApply ==
    /\ reports # <<>>
    /\ ack' = Head(reports)
    /\ reports' = Tail(reports)
    /\ UNCHANGED <<target, pushing, inbox, live, seen, worker, made, theirs,
                   crossed>>

-----------------------------------------------------------------------------
InForce == \A f \in Resources \ theirs : live[f] = worker.value

SetByInterface(named) ==
    /\ made["interface"] < MaxOthers
    /\ SetResources("interface", named)
    /\ theirs' = theirs \cup named
    /\ crossed' = (crossed \/ ~InForce)
    /\ UNCHANGED worker

(* A step sets both fields to its level, ...                               *)
SetLevel ==
    /\ worker.pc = "apply" /\ made["sweep"] < MaxSteps
    /\ SetResources("sweep", Resources)
    /\ worker' = [pc |-> "wait", value |-> Value,
                  generation |-> target'.generation]
    /\ theirs' = {}
    /\ crossed' = FALSE

(* ... pushes every two seconds, long enough for the agent to read what    *)
(* was pushed, ...                                                         *)
PushAgain ==
    /\ worker.pc = "wait" /\ pushing["sweep"] = NoPush /\ inbox = <<>>
    /\ pushing' = [pushing EXCEPT !["sweep"] = Asked]
    /\ UNCHANGED <<target, ack, inbox, reports, live, seen, worker, made,
                   theirs, crossed>>

StepTo(pc) ==
    /\ worker' = [worker EXCEPT !.pc = pc]
    /\ UNCHANGED <<target, ack, pushing, inbox, reports, live, seen, made,
                   theirs, crossed>>

Waiting == worker.pc = "wait" /\ pushing["sweep"] = NoPush

(* Mutant: any success ends the wait.                                      *)
Applied_Any ==
    Waiting /\ ack.status = "ok" /\ StepTo("measure")

(* ... and measures when its generation or a later one is acknowledged.    *)
Applied ==
    /\ Waiting
    /\ ack.status = "ok" /\ ack.generation >= worker.generation
    /\ StepTo("measure")

(* An error of the agent, or the time limit: the run is over.              *)
NotApplied == Waiting /\ StepTo("over")

NextStep == worker.pc = "measure" /\ StepTo("apply")

StepNext ==
    \/ \E a \in {"sweep", "interface"} : ReadDesired(a) \/ Enqueue(a)
    \/ Attempt \/ ReportApply
    \/ \E named \in (SUBSET Resources) \ {{}} : SetByInterface(named)
    \/ SetLevel \/ PushAgain \/ Applied \/ NotApplied \/ NextStep

StepSpec == StepInit /\ [][StepNext]_stepVars

-----------------------------------------------------------------------------
(* A step measures with the CPU it has set, although pushes are repeated   *)
(* and overtake one another and reports of other sets arrive while it      *)
(* waits; what the interface sets from then on changes only the fields it  *)
(* names.  This ends where the interface sets anything before the agent    *)
(* has applied the step's values: the code then takes the acknowledgement  *)
(* of the later set, which may not have carried them.                      *)
MeasuresItsLevel ==
    worker.pc = "measure" /\ ~crossed => InForce
=============================================================================
