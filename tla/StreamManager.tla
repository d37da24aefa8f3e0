---------------------------- MODULE StreamManager ----------------------------
(***************************************************************************)
(* StreamManager of the CCTV camera client (src/applications/clients/cctv/ *)
(* backend/backend.py): start makes a worker thread, which launches the    *)
(* GStreamer pipeline again and again until the event stop_requested is    *)
(* set; stop sets it and terminates the pipeline.  start and stop hold a   *)
(* lock the worker does not take, all workers share the event and the      *)
(* field "process", and no one waits for a worker to end.                  *)
(***************************************************************************)
EXTENDS Integers, Sequences

CONSTANTS
    MaxCalls,    \* bound: requests to start, stop or restart
    MaxPipelines \* bound: pipelines launched

VARIABLES
    running,    \* running
    stopSet,    \* stop_requested
    pipeline,   \* the field "process": a pipeline, or 0 for None
    playing,    \* the pipelines that run
    pipelines,  \* pipelines launched so far
    workers,    \* workers[w]: where worker w is
    calls,      \* calls[c]: what request c has left
    crossed     \* ghost: a start found a worker, or a stop one that launches

streamVars ==
    <<running, stopSet, pipeline, playing, pipelines, workers, calls, crossed>>

CallSteps ==
    [start   |-> <<"start">>,
     stop    |-> <<"stop", "terminate">>,
     restart |-> <<"stop", "terminate", "start">>]

CallAt(c, step) == calls[c] # <<>> /\ Head(calls[c]) = step

CallGoesOn(c) == calls' = [calls EXCEPT ![c] = Tail(@)]

(* The lock is held between the two steps of a stop.                       *)
Locked == \E c \in DOMAIN calls : CallAt(c, "terminate")

Ended(w) == workers[w] = "ended"

Move(w, place) == workers' = [workers EXCEPT ![w] = place]

-----------------------------------------------------------------------------
CameraInit ==
    /\ running = FALSE
    /\ stopSet = FALSE
    /\ pipeline = 0
    /\ playing = {}
    /\ pipelines = 0
    /\ workers = <<>>
    /\ calls = <<>>
    /\ crossed = FALSE

Call(action) ==
    /\ Len(calls) < MaxCalls
    /\ calls' = Append(calls, CallSteps[action])
    /\ UNCHANGED <<running, stopSet, pipeline, playing, pipelines, workers,
                   crossed>>

(* A start of what runs does nothing.                                      *)
Start(c) ==
    /\ CallAt(c, "start") /\ ~Locked /\ CallGoesOn(c)
    /\ IF running THEN UNCHANGED <<running, stopSet, workers, crossed>>
       ELSE /\ stopSet' = FALSE
            /\ running' = TRUE
            /\ workers' = Append(workers, "top")
            /\ crossed' = (crossed \/ \E w \in DOMAIN workers : ~Ended(w))
    /\ UNCHANGED <<pipeline, playing, pipelines>>

Stop(c) ==
    /\ CallAt(c, "stop") /\ ~Locked /\ CallGoesOn(c)
    /\ stopSet' = TRUE
    /\ running' = FALSE
    /\ UNCHANGED <<pipeline, playing, pipelines, workers, crossed>>

(* Mutant: a pipeline is left for its worker to end.                       *)
Terminate_Leaves(c) ==
    /\ CallAt(c, "terminate") /\ CallGoesOn(c)
    /\ crossed' = (crossed \/ \E w \in DOMAIN workers : workers[w] = "launch")
    /\ UNCHANGED <<running, stopSet, pipeline, playing, pipelines, workers>>

(* The pipeline, if it runs, is terminated and forgotten; one that has     *)
(* ended by itself stays in the field.                                     *)
Terminate(c) ==
    /\ CallAt(c, "terminate") /\ CallGoesOn(c)
    /\ playing' = playing \ {pipeline}
    /\ pipeline' = IF pipeline \in playing THEN 0 ELSE pipeline
    /\ crossed' = (crossed \/ \E w \in DOMAIN workers : workers[w] = "launch")
    /\ UNCHANGED <<running, stopSet, pipelines, workers>>

-----------------------------------------------------------------------------
(* The outer loop of _stream_worker.                                       *)
WorkerTop(w) ==
    /\ workers[w] = "top"
    /\ Move(w, IF stopSet THEN "ended" ELSE "launch")
    /\ UNCHANGED <<running, stopSet, pipeline, playing, pipelines, calls,
                   crossed>>

(* _build_gst_cmd, which may download the clip, and Popen.                 *)
Launch(w) ==
    /\ workers[w] = "launch" /\ pipelines < MaxPipelines
    /\ pipelines' = pipelines + 1
    /\ playing' = playing \cup {pipelines + 1}
    /\ pipeline' = pipelines + 1
    /\ Move(w, "watch")
    /\ UNCHANGED <<running, stopSet, calls, crossed>>

LaunchFails(w) ==
    /\ workers[w] = "launch"
    /\ Move(w, "top")
    /\ UNCHANGED <<running, stopSet, pipeline, playing, pipelines, calls,
                   crossed>>

(* Mutant: the inner loop is left with the pipeline only.                  *)
Watch_ToTheEnd(w) ==
    /\ workers[w] = "watch"
    /\ pipeline \notin playing
    /\ Move(w, "top")
    /\ UNCHANGED <<running, stopSet, pipeline, playing, pipelines, calls,
                   crossed>>

(* The inner loop is left after a stop, when the pipeline of the field has *)
(* ended, and by an exception when the field is empty.                     *)
Watch(w) ==
    /\ workers[w] = "watch"
    /\ stopSet \/ pipeline \notin playing
    /\ Move(w, "top")
    /\ UNCHANGED <<running, stopSet, pipeline, playing, pipelines, calls,
                   crossed>>

(* A pipeline ends by itself.                                              *)
PipelineEnds ==
    /\ \E p \in playing : playing' = playing \ {p}
    /\ UNCHANGED <<running, stopSet, pipeline, pipelines, workers, calls,
                   crossed>>

Work(w) == WorkerTop(w) \/ Launch(w) \/ LaunchFails(w) \/ Watch(w)

CallStep(c) == Start(c) \/ Stop(c) \/ Terminate(c)

CameraNext ==
    \/ \E action \in {"start", "stop", "restart"} : Call(action)
    \/ \E c \in DOMAIN calls : CallStep(c)
    \/ \E w \in DOMAIN workers : Work(w)
    \/ PipelineEnds

(* The workers go on, one for each call at most.                           *)
CameraFairness ==
    \A w \in 1..MaxCalls : WF_streamVars(w \in DOMAIN workers /\ Work(w))

CameraSpec == CameraInit /\ [][CameraNext]_streamVars /\ CameraFairness

-----------------------------------------------------------------------------
(* A stream that is running has a worker that goes on, however close the   *)
(* start was to the stop before it.  After a stop no pipeline plays on,    *)
(* unless a worker was just launching one, or a worker that had not ended  *)
(* was joined by another one: then they replace each other's pipeline in   *)
(* the field, and the one that was replaced is out of reach.               *)
StreamFollowsRequests ==
    ~Locked =>
        IF running
        THEN ~stopSet /\ \E w \in DOMAIN workers : ~Ended(w)
        ELSE ~crossed => playing = {}

(* After a stop the workers end, unless it is started again.               *)
StopEndsWorkers ==
    []<>(~stopSet \/ \A w \in DOMAIN workers : Ended(w))
=============================================================================
