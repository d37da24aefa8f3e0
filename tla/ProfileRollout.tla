--------------------------- MODULE ProfileRollout ---------------------------
(***************************************************************************)
(* Staged rollouts of a profile (profile_rollout.py): each request runs    *)
(* profile_rollout.sh, which restarts the network functions stage by       *)
(* stage, through stream_cmd (cmd_stream.py), which streams its output,    *)
(* polls the cancel event and the wall-clock limit, and kills the process  *)
(* group of the script.  One profile; others have entries of their own.    *)
(*                                                                         *)
(* The generator stands at a yield when its client leaves.  Closing it     *)
(* runs the "finally" of the rollout, but nothing kills the script: it     *)
(* goes on by itself.                                                      *)
(***************************************************************************)
EXTENDS Naturals

CONSTANTS
    Runs,       \* requests
    NoRun,
    Stages      \* stages of the script: NRF, UPF, SMF, CU-CP, UEs

VARIABLES
    entry,      \* _cancel_events: the run whose event is registered
    stopped,    \* stopped[r]: the cancel event of run r is set
    point,      \* point[r]: where the generator of r stands
    script,     \* script[r]: state of the process
    stage,      \* stage[r]: stages the script has finished
    result      \* result[r]: what the client of r was told

rolloutVars == <<entry, stopped, point, script, stage, result>>

-----------------------------------------------------------------------------
RolloutInit ==
    /\ entry = NoRun
    /\ stopped = [r \in Runs |-> FALSE]
    /\ point = [r \in Runs |-> "idle"]
    /\ script = [r \in Runs |-> "none"]
    /\ stage = [r \in Runs |-> 0]
    /\ result = [r \in Runs |-> "none"]

Move(r, p) == point' = [point EXCEPT ![r] = p]

(* Mutant: the earlier run is forgotten, not cancelled. *)
Register_Forgets(r) ==
    /\ point[r] = "idle"
    /\ entry' = r
    /\ Move(r, "announced")
    /\ UNCHANGED <<stopped, script, stage, result>>

(* _register: an earlier run of the profile is told to stop, and not       *)
(* waited for.                                                             *)
Register(r) ==
    /\ point[r] = "idle"
    /\ stopped' = [s \in Runs |-> stopped[s] \/ s = entry]
    /\ entry' = r
    /\ Move(r, "announced")
    /\ UNCHANGED <<script, stage, result>>

(* After two status lines stream_cmd starts the script. *)
Launch(r) ==
    /\ point[r] = "announced"
    /\ script' = [script EXCEPT ![r] = "running"]
    /\ Move(r, "reading")
    /\ UNCHANGED <<entry, stopped, stage, result>>

(* The script finishes a stage, or gives up at a check that fails. *)
Advance(r) ==
    /\ script[r] = "running" /\ stage[r] < Stages
    /\ stage' = [stage EXCEPT ![r] = @ + 1]
    /\ script' = [script EXCEPT ![r] = IF stage'[r] = Stages THEN "done" ELSE @]
    /\ UNCHANGED <<entry, stopped, point, result>>

GiveUp(r) ==
    /\ script[r] = "running"
    /\ script' = [script EXCEPT ![r] = "failed"]
    /\ UNCHANGED <<entry, stopped, point, stage, result>>

(* Mutant: the event is looked at only when the script has ended. *)
Poll_AtTheEnd(r) ==
    /\ point[r] = "reading" /\ stopped[r] /\ script[r] # "running"
    /\ Move(r, "killing")
    /\ result' = [result EXCEPT ![r] = "stopped"]
    /\ UNCHANGED <<entry, stopped, script, stage>>

(* stream_cmd looks at the event at least every half second. *)
Poll(r) ==
    /\ point[r] = "reading" /\ stopped[r]
    /\ Move(r, "killing")
    /\ result' = [result EXCEPT ![r] = "stopped"]
    /\ UNCHANGED <<entry, stopped, script, stage>>

TimeOut(r) ==
    /\ point[r] = "reading" /\ ~stopped[r]
    /\ Move(r, "killing")
    /\ result' = [result EXCEPT ![r] = "timeout"]
    /\ UNCHANGED <<entry, stopped, script, stage>>

(* Mutant: the result is answered without killing the process group.       *)
Kill_NoKill(r) ==
    /\ point[r] = "killing"
    /\ Move(r, "read")
    /\ UNCHANGED <<entry, stopped, script, stage, result>>

(* kill_process_group: a script that still runs is gone afterwards. *)
Kill(r) ==
    /\ point[r] = "killing"
    /\ script' = [script EXCEPT ![r] = IF @ = "running" THEN "killed" ELSE @]
    /\ Move(r, "read")
    /\ UNCHANGED <<entry, stopped, stage, result>>

(* Both pipes are at their end: the exit code is known. *)
Collect(r) ==
    /\ point[r] = "reading" /\ script[r] \in {"done", "failed"}
    /\ result' = [result EXCEPT ![r] =
                    IF script[r] = "done" THEN "completed" ELSE "failed"]
    /\ Move(r, "read")
    /\ UNCHANGED <<entry, stopped, script, stage>>

(* The "finally" removes the entry if it is the run's own.  A run that was *)
(* told to stop before this point is answered as stopped, even if the      *)
(* script came to its end.                                                 *)
Unregister(r) ==
    /\ point[r] \in {"read", "left"}
    /\ entry' = IF entry = r THEN NoRun ELSE entry
    /\ result' = [result EXCEPT ![r] =
                    IF point[r] = "left" THEN "none"
                    ELSE IF stopped[r] /\ @ # "timeout" THEN "stopped" ELSE @]
    /\ Move(r, "over")
    /\ UNCHANGED <<stopped, script, stage>>

(* stop_profile_rollout. *)
Stop ==
    /\ entry # NoRun
    /\ stopped' = [stopped EXCEPT ![entry] = TRUE]
    /\ UNCHANGED <<entry, point, script, stage, result>>

(* The client leaves while lines are streamed, the last ones of a killed   *)
(* script included, or at the status lines, which are outside of the "try".*)
Disconnect(r) ==
    /\ \/ /\ \/ point[r] = "reading"
             \/ point[r] = "read" /\ script[r] = "killed"
          /\ Move(r, "left")
       \/ point[r] = "announced" /\ Move(r, "over")
    /\ UNCHANGED <<entry, stopped, script, stage, result>>

(* A step of the generator that its server thread will take. *)
Step(r) == Launch(r) \/ Poll(r) \/ Kill(r) \/ Collect(r) \/ Unregister(r)

RolloutNext ==
    \/ Stop
    \/ \E r \in Runs :
          \/ Register(r) \/ Step(r) \/ TimeOut(r) \/ Disconnect(r)
          \/ Advance(r) \/ GiveUp(r)

(* Server threads go on; the wall-clock limit makes sure that an attended  *)
(* generator ends, whatever the script does.                               *)
RolloutFairness == \A r \in Runs : WF_rolloutVars(Step(r)) /\ WF_rolloutVars(TimeOut(r))

RolloutSpec == RolloutInit /\ [][RolloutNext]_rolloutVars /\ RolloutFairness

-----------------------------------------------------------------------------
Attended(r) == point[r] \in {"announced", "reading", "killing", "read"}

(* However requests, stops and departures interleave, of the runs that     *)
(* still have a client at most one is not told to stop, and a stop request *)
(* reaches it.                                                             *)
OneAttendedRun ==
    \A r \in Runs : Attended(r) /\ ~stopped[r] => entry = r

(* The script of a run that was answered is over: a result is never given  *)
(* while the script still restarts network functions; "completed" is only  *)
(* said of a script that has finished every stage.                         *)
AnswerEndsScript ==
    \A r \in Runs :
        point[r] = "over" /\ result[r] # "none" =>
            /\ script[r] # "running"
            /\ result[r] = "completed" => stage[r] = Stages

(* A run that is told to stop while it has a client ends, and its script   *)
(* with it, unless the client leaves: then nobody stops the script.        *)
StopEndsScript ==
    \A r \in Runs :
        stopped[r] /\ point[r] = "reading"
            ~> script[r] # "running" \/ point[r] \in {"left", "over"}
=============================================================================
