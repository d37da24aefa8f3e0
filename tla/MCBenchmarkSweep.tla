-------------------------- MODULE MCBenchmarkSweep ---------------------------
(* A small instance of BenchmarkSweep for each of the two runners, which   *)
(* share the module's variables here: the first state picks one.  The      *)
(* instance that is extended is the CPU runner.                            *)
EXTENDS BenchmarkSweep

VARIABLE runner

Prb == INSTANCE BenchmarkSweep WITH Kind <- "prb"

RunnerInit == Init /\ runner \in {Kind, "prb"}

CpuRunner == runner = Kind /\ Next /\ UNCHANGED runner

PrbRunner == runner # Kind /\ Prb!Next /\ UNCHANGED runner

RunnerNext == CpuRunner \/ PrbRunner

RunnerSpec ==
    /\ RunnerInit
    /\ [][RunnerNext]_<<runner, vars>>
    /\ WF_vars(runner = Kind /\ Work)
    /\ WF_vars(runner # Kind /\ Prb!Work)
    /\ \A c \in Callers : WF_vars(Answer(c))
=============================================================================
