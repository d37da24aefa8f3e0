---------------------------- MODULE MCApplications ----------------------------
(* What runs beside the backend, on the UEs and their servers, in one run: *)
(* the runner of the traffic agent, the iperf3 supervisor of the consoles, *)
(* the camera's stream manager and the OTT portal with its UE.  They share *)
(* no state; the first step of a behaviour picks one of them.              *)
EXTENDS TrafficRunner, IperfSupervisor, StreamManager, OttControl

VARIABLE which

appVars == <<which, vars, iperfVars, streamVars, ottVars>>

AppInit ==
    /\ which \in {"runner", "iperf", "camera", "ott"}
    /\ Init /\ IperfInit /\ CameraInit /\ OttInit
    /\ which = "iperf" \/ ~wanted

RunnerPart ==
    /\ which = "runner" /\ Next
    /\ UNCHANGED <<which, iperfVars, streamVars, ottVars>>

IperfPart ==
    /\ which = "iperf" /\ IperfNext
    /\ UNCHANGED <<which, vars, streamVars, ottVars>>

CameraPart ==
    /\ which = "camera" /\ CameraNext
    /\ UNCHANGED <<which, vars, iperfVars, ottVars>>

OttPart ==
    /\ which = "ott" /\ OttNext
    /\ UNCHANGED <<which, vars, iperfVars, streamVars>>

AppNext == RunnerPart \/ IperfPart \/ CameraPart \/ OttPart

(* The fairness of each part, for the one that is picked.  The iperf3      *)
(* supervisor and the camera have nothing to do before their first         *)
(* request.                                                                *)
RunnerPartFairness ==
    /\ WF_vars(which = "runner" /\ (RaiseReload \/ Kill))
    /\ WF_vars(which = "runner" /\ Runner)
    /\ SF_vars(which = "runner" /\ Spawn)

OttPartFairness ==
    /\ WF_ottVars(which = "ott" /\ (BeatSend \/ BeatApply))
    /\ SF_ottVars(which = "ott" /\ BeatUpdate)
    /\ SF_ottVars(which = "ott" /\ BeatAnswer)
    /\ WF_ottVars(which = "ott" /\ (WatchRead \/ WatchOK))
    /\ SF_ottVars(which = "ott" /\ WatchReload)

AppSpec ==
    /\ AppInit /\ [][AppNext]_appVars
    /\ RunnerPartFairness /\ IperfFairness /\ CameraFairness /\ OttPartFairness

(* A change or a stop takes effect; see FollowsConfig.                     *)
ChangeTakesEffect == []<>(which = "runner" => FollowsConfig)
=============================================================================
