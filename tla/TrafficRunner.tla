----------------------------- MODULE TrafficRunner -----------------------------
(***************************************************************************)
(* ClientRunner of the UE traffic agent (src/tools/iperf3-n6/client.py):   *)
(* the thread of run_forever keeps one iperf3 process running with the     *)
(* current configuration; the WebSocket thread changes the configuration,  *)
(* raises "reload" and kills the process, in three steps of which only the *)
(* first is under the lock.                                                *)
(*                                                                         *)
(* A configuration is the number of the change it came from; Timed tells   *)
(* those that have a duration, after which iperf3 ends by itself.          *)
(***************************************************************************)
EXTENDS Naturals

CONSTANTS
    MaxChanges,     \* bound: configurations applied after the first
    Timed,          \* the configurations with a duration
    SpawnMayRaise   \* TRUE: starting iperf3 can raise more than "not found"

ASSUME ChangesAssumption == MaxChanges \in Nat
ASSUME TimedAssumption == Timed \subseteq 0..MaxChanges
ASSUME SpawnAssumption == SpawnMayRaise \in BOOLEAN

VARIABLES
    config,     \* the configuration applied last
    enabled,    \* iperf3 is to run
    reload,     \* the event "reload"
    ws,         \* the WebSocket thread: where it is in apply_desired
    pc,         \* the runner's thread: where it is in run_forever
    command,    \* the configuration _cmd() has read for the next process
    process,    \* the process: its configuration and whether it is alive
    reason      \* fail_reason: why the runner stopped reading

vars == <<config, enabled, reload, ws, pc, command, process, reason>>

NoProcess == [config |-> 0, alive |-> FALSE]

Dead(p) == [p EXCEPT !.alive = FALSE]

Reasons == {"none", "connection", "device"}

Init ==
    /\ config = 0
    /\ enabled = TRUE
    /\ reload = FALSE
    /\ ws = "idle"
    /\ pc = "top"
    /\ command = 0
    /\ process = NoProcess
    /\ reason = "none"

-----------------------------------------------------------------------------
(* apply_desired on the WebSocket thread.                                  *)

(* Another configuration, a start or a stop, under the lock.  Repeating    *)
(* what is applied has no further steps, except for a stop.                *)
Apply(on) ==
    /\ ws = "idle"
    /\ config < MaxChanges
    /\ config' = config + 1
    /\ enabled' = on
    /\ ws' = "applied"
    /\ UNCHANGED <<reload, pc, command, process, reason>>

(* A stop that changes nothing kills again.                                *)
StopAgain ==
    /\ ws = "idle"
    /\ ~enabled
    /\ ws' = "applied"
    /\ UNCHANGED <<config, enabled, reload, pc, command, process, reason>>

(* Mutant: a stop only kills. *)
RaiseReload_OnStart ==
    /\ ws = "applied"
    /\ ws' = "raised"
    /\ reload' = enabled
    /\ UNCHANGED <<config, enabled, pc, command, process, reason>>

RaiseReload ==
    /\ ws = "applied"
    /\ ws' = "raised"
    /\ reload' = TRUE
    /\ UNCHANGED <<config, enabled, pc, command, process, reason>>

(* _kill: the process there is now, if any.                                *)
Kill ==
    /\ ws = "raised"
    /\ ws' = "idle"
    /\ process' = Dead(process)
    /\ UNCHANGED <<config, enabled, reload, pc, command, reason>>

-----------------------------------------------------------------------------
(* run_forever on the runner's thread.                                     *)

Goto(here, there) == pc = here /\ pc' = there

Top ==
    /\ Goto("top", "gate")
    /\ reload' = FALSE
    /\ UNCHANGED <<config, enabled, ws, command, process, reason>>

(* Nothing runs while the agent is stopped.                                *)
Gate ==
    /\ Goto("gate", IF enabled THEN "command" ELSE "stopped")
    /\ UNCHANGED <<config, enabled, reload, ws, command, process, reason>>

(* The wait for a start ends when it sees one; its timeout and the event   *)
(* it clears do not matter, as the loop clears the event again.            *)
WakeUp ==
    /\ enabled
    /\ Goto("stopped", "top")
    /\ UNCHANGED <<config, enabled, reload, ws, command, process, reason>>

(* After the wait for the interface the switch is read again, then _cmd()  *)
(* reads the configuration.                                                *)
ReadCommand ==
    /\ Goto("command", IF enabled THEN "spawn" ELSE "top")
    /\ command' = config
    /\ UNCHANGED <<config, enabled, reload, ws, process, reason>>

(* Mutant: the event is cleared when the process starts. *)
Spawn_ClearsReload ==
    /\ Goto("spawn", "reading")
    /\ process' = [config |-> command, alive |-> TRUE]
    /\ reason' = "none"
    /\ reload' = FALSE
    /\ UNCHANGED <<config, enabled, ws, command>>

Spawn ==
    /\ Goto("spawn", "reading")
    /\ process' = [config |-> command, alive |-> TRUE]
    /\ reason' = "none"
    /\ UNCHANGED <<config, enabled, reload, ws, command>>

(* No binary: try again in five seconds.                                   *)
SpawnFails ==
    /\ Goto("spawn", "top")
    /\ UNCHANGED <<config, enabled, reload, ws, command, process, reason>>

(* Any other error, without an interface to leave out: the thread ends.    *)
SpawnRaises ==
    /\ SpawnMayRaise
    /\ Goto("spawn", "ended")
    /\ UNCHANGED <<config, enabled, reload, ws, command, process, reason>>

(* iperf3 ends by itself: its time is over, or it has lost its server.     *)
Exit ==
    /\ process.alive
    /\ process' = Dead(process)
    /\ UNCHANGED <<config, enabled, reload, ws, pc, command, reason>>

(* The runner leaves the output: at its end, at a line that tells why, or  *)
(* at any line when the event is set; _kill in finally.                    *)
StopReading ==
    /\ Goto("reading", "after")
    /\ process' = NoProcess
    /\ \E r \in Reasons :
        /\ reason' = r
        /\ r = "none" => ~process.alive \/ reload
    /\ UNCHANGED <<config, enabled, reload, ws, command>>

(* A reload goes round again, and so does a failure, on another port or    *)
(* after a wait; the end of a timed run ends the thread.                   *)
After ==
    /\ Goto("after", IF reload \/ reason # "none" THEN "top" ELSE "over")
    /\ UNCHANGED <<config, enabled, reload, ws, command, process, reason>>

Over ==
    /\ Goto("over", IF config \in Timed THEN "ended" ELSE "top")
    /\ UNCHANGED <<config, enabled, reload, ws, command, process, reason>>

Next ==
    \/ \E on \in BOOLEAN : Apply(on)
    \/ StopAgain \/ RaiseReload \/ Kill
    \/ Top \/ Gate \/ WakeUp \/ ReadCommand
    \/ Spawn \/ SpawnFails \/ SpawnRaises \/ Exit \/ StopReading \/ After \/ Over

(* Steps the runner's thread takes without anything failing: it reads on   *)
(* as long as the process runs and the event is not set.                   *)
Runner ==
    \/ Top \/ Gate \/ WakeUp \/ ReadCommand \/ After \/ Over
    \/ StopReading /\ (reload \/ ~process.alive)

(* Both threads go on; iperf3 reports every interval, so that a set event  *)
(* is seen; iperf3 can be started if it is tried again and again.          *)
Fairness ==
    /\ WF_vars(RaiseReload \/ Kill)
    /\ WF_vars(Runner)
    /\ SF_vars(Spawn)

Spec == Init /\ [][Next]_vars
FairSpec == Spec /\ Fairness

-----------------------------------------------------------------------------
(* Properties.                                                             *)

Places == {"top", "gate", "stopped", "command", "spawn", "reading", "after", "over", "ended"}

(* Types of the runner's fields and of the places of its threads.          *)
TypeOK ==
    /\ config \in 0..MaxChanges
    /\ enabled \in BOOLEAN
    /\ reload \in BOOLEAN
    /\ ws \in {"idle", "applied", "raised"}
    /\ pc \in Places
    /\ command \in 0..MaxChanges
    /\ process \in [config : 0..MaxChanges, alive : BOOLEAN]
    /\ reason \in Reasons

(* A process that is not what the user wants now, by its configuration or  *)
(* because of a stop, is about to be replaced: the event is set, or the    *)
(* WebSocket thread is about to set it.  The event is never lost between   *)
(* the clear at the top, the reading of the configuration and the kill.    *)
StaleRunIsFlagged ==
    process.alive /\ (process.config # config \/ ~enabled)
        => reload \/ ws = "applied"

(* "an orphan iperf cannot keep running after a missed earlier stop" and   *)
(* "Changes hot-restart iperf only": again and again, nothing runs if the  *)
(* agent is stopped, and otherwise a process with the configuration        *)
(* applied last, unless the runner's thread has ended, after a timed run   *)
(* or an error.                                                            *)
FollowsConfig ==
    IF enabled
    THEN pc = "ended" \/ process = [config |-> config, alive |-> TRUE]
    ELSE ~process.alive
===============================================================================
