--------------------------- MODULE IperfSupervisor ---------------------------
(***************************************************************************)
(* Iperf3Client of the UE consoles (src/applications/exp4/common/          *)
(* ue_control.py): a supervisor thread keeps one iperf3 process running    *)
(* while it is wanted; requests change the arguments, set "wanted" and     *)
(* kill the process through the handle _proc, in steps of which each is    *)
(* under the lock and the sequence is not.                                 *)
(*                                                                         *)
(* Arguments are numbered by the request they come from, and processes by  *)
(* their launch.  Every wait of the supervisor has a timeout, so the event *)
(* that shortens it is left out, and with it _restart_pending and the      *)
(* change of the port, which only tell how soon and where it tries again.  *)
(***************************************************************************)
EXTENDS Integers, Sequences, FiniteSets

CONSTANTS
    MaxRequests, \* bound: control requests
    MaxLaunches  \* bound: processes

ASSUME RequestsAssumption == MaxRequests \in Nat

VARIABLES
    wanted,     \* _wanted
    args,       \* cfg["args"]
    handle,     \* _proc: the launch, or 0
    launched,   \* launched[p]: the arguments of process p
    alive,      \* the processes that run
    supervisor, \* the supervisor: its place and the arguments of _cmd()
    todo,       \* todo[a]: what thread a has left of its request or _kill
    found,      \* found[a]: the process the _kill of a has found; -1: unused
    missed      \* ghost: launches that a _kill came too early for

iperfVars ==
    <<wanted, args, handle, launched, alive, supervisor, todo, found, missed>>

Supervisor == 0

Requests == 1..MaxRequests

Actions == {"start", "stop", "update", "restart"}

KillSteps == <<"find", "end", "drop">>

(* Mutant: an update takes the new arguments over after the kill.          *)
ControlSteps_ApplyLast ==
    [start   |-> <<"apply", "turn on">> \o KillSteps,
     stop    |-> <<"turn off">> \o KillSteps,
     update  |-> <<"reload">> \o KillSteps \o <<"apply">>,
     restart |-> <<"apply", "turn off">> \o KillSteps \o <<"turn on">>]

(* control(): the steps of a request, with set_wanted and _kill in place.  *)
ControlSteps ==
    [start   |-> <<"apply", "turn on">> \o KillSteps,
     stop    |-> <<"turn off">> \o KillSteps,
     update  |-> <<"apply", "reload">> \o KillSteps,
     restart |-> <<"apply", "turn off">> \o KillSteps \o <<"turn on">>]

Busy(a) == todo[a] # <<>>

AtStep(a, step) == Busy(a) /\ Head(todo[a]) = step

Drop(a, n) == todo' = [todo EXCEPT ![a] = SubSeq(@, n + 1, Len(@))]

-----------------------------------------------------------------------------
(* With IPERF_AUTOSTART it is wanted from the start.                       *)
IperfInit ==
    /\ wanted \in BOOLEAN
    /\ args = 0
    /\ handle = 0
    /\ launched = <<>>
    /\ alive = {}
    /\ supervisor = [pc |-> "top", args |-> 0]
    /\ todo = [a \in {Supervisor} \cup Requests |-> <<>>]
    /\ found = [a \in {Supervisor} \cup Requests |-> -1]
    /\ missed = {}

Send(a, action) ==
    /\ found[a] = -1 /\ (\A b \in 1..a - 1 : found[b] # -1)
    /\ found' = [found EXCEPT ![a] = 0]
    /\ todo' = [todo EXCEPT ![a] = ControlSteps[action]]
    /\ UNCHANGED <<wanted, args, handle, launched, alive, supervisor, missed>>

(* apply_cfg: other arguments, or the same.                                *)
ApplyCfg(a) ==
    /\ AtStep(a, "apply") /\ Drop(a, 1)
    /\ args' \in {args, a}
    /\ UNCHANGED <<wanted, handle, launched, alive, supervisor, found, missed>>

(* A start of what is wanted kills it, for the supervisor to launch anew.  *)
WantRun(a) ==
    /\ AtStep(a, "turn on") /\ Drop(a, IF wanted THEN 1 ELSE 4)
    /\ wanted' = TRUE
    /\ UNCHANGED <<args, handle, launched, alive, supervisor, found, missed>>

WantStop(a) ==
    /\ AtStep(a, "turn off") /\ Drop(a, 1)
    /\ wanted' = FALSE
    /\ UNCHANGED <<args, handle, launched, alive, supervisor, found, missed>>

(* An update kills what is wanted.                                         *)
Reload(a) ==
    /\ AtStep(a, "reload") /\ Drop(a, IF wanted THEN 1 ELSE 4)
    /\ UNCHANGED <<wanted, args, handle, launched, alive, supervisor, found,
                   missed>>

(* The launch that a _kill without a process comes too early for.          *)
Upcoming ==
    CASE supervisor.pc \in {"command", "spawn"} -> {Len(launched) + 1}
      [] supervisor.pc = "publish" -> {Len(launched)}
      [] OTHER -> {}

(* _kill: the process of the handle; without one there is nothing to do.   *)
Find(a) ==
    /\ AtStep(a, "find") /\ Drop(a, IF handle = 0 THEN 3 ELSE 1)
    /\ found' = [found EXCEPT ![a] = handle]
    /\ missed' = IF handle = 0 THEN missed \cup Upcoming ELSE missed
    /\ UNCHANGED <<wanted, args, handle, launched, alive, supervisor>>

(* SIGTERM, and SIGKILL after three seconds.                               *)
End(a) ==
    /\ AtStep(a, "end") /\ Drop(a, 1)
    /\ alive' = alive \ {found[a]}
    /\ UNCHANGED <<wanted, args, handle, launched, supervisor, found, missed>>

DropHandle(a) ==
    /\ AtStep(a, "drop") /\ Drop(a, 1)
    /\ handle' = IF handle = found[a] THEN 0 ELSE handle
    /\ UNCHANGED <<wanted, args, launched, alive, supervisor, found, missed>>

RequestStep(a) ==
    \/ ApplyCfg(a) \/ WantRun(a) \/ WantStop(a) \/ Reload(a)
    \/ Find(a) \/ End(a) \/ DropHandle(a)

-----------------------------------------------------------------------------
Here(pc) == supervisor.pc = pc /\ ~Busy(Supervisor)

SupervisorTo(pc) == supervisor' = [supervisor EXCEPT !.pc = pc]

StartKill == todo' = [todo EXCEPT ![Supervisor] = KillSteps]

(* The top of the loop: without a handle the _kill has nothing to do.      *)
LoopTop ==
    /\ Here("top")
    /\ IF wanted THEN SupervisorTo("command") /\ UNCHANGED todo
       ELSE handle # 0 /\ StartKill /\ UNCHANGED supervisor
    /\ UNCHANGED <<wanted, args, handle, launched, alive, found, missed>>

(* _cmd() *)
Command ==
    /\ Here("command")
    /\ supervisor' = [pc |-> "spawn", args |-> args]
    /\ UNCHANGED <<wanted, args, handle, launched, alive, todo, found, missed>>

(* Popen, which may fail.                                                  *)
StartProcess ==
    /\ Here("spawn") /\ Len(launched) < MaxLaunches
    /\ launched' = Append(launched, supervisor.args)
    /\ alive' = alive \cup {Len(launched) + 1}
    /\ SupervisorTo("publish")
    /\ UNCHANGED <<wanted, args, handle, todo, found, missed>>

StartFails ==
    /\ Here("spawn")
    /\ SupervisorTo("top")
    /\ missed' = missed \ {Len(launched) + 1}
    /\ UNCHANGED <<wanted, args, handle, launched, alive, todo, found>>

Publish ==
    /\ Here("publish")
    /\ handle' = Len(launched)
    /\ SupervisorTo("reading")
    /\ UNCHANGED <<wanted, args, launched, alive, todo, found, missed>>

(* Mutant: the supervisor reads to the end of the output.                  *)
ReadLine_ToTheEnd ==
    /\ Here("reading")
    /\ Len(launched) \notin alive
    /\ SupervisorTo("leaving")
    /\ UNCHANGED <<wanted, args, handle, launched, alive, todo, found, missed>>

(* The loop over the lines of the process ends with the output, or with a  *)
(* line after a stop.  iperf3 prints one in every interval.                *)
ReadLine ==
    /\ Here("reading")
    /\ Len(launched) \notin alive \/ ~wanted
    /\ SupervisorTo("leaving")
    /\ UNCHANGED <<wanted, args, handle, launched, alive, todo, found, missed>>

(* "if not self._wanted", or on to proc.wait().                            *)
Leave ==
    /\ Here("leaving")
    /\ IF wanted THEN SupervisorTo("waiting") /\ UNCHANGED todo
       ELSE SupervisorTo("top") /\ StartKill
    /\ UNCHANGED <<wanted, args, handle, launched, alive, found, missed>>

(* proc.wait() returns.                                                    *)
Reap ==
    /\ Here("waiting") /\ Len(launched) \notin alive
    /\ handle' = 0
    /\ SupervisorTo("top")
    /\ UNCHANGED <<wanted, args, launched, alive, todo, found, missed>>

(* A process ends by itself.                                               *)
ProcessExits ==
    /\ \E p \in alive : alive' = alive \ {p}
    /\ UNCHANGED <<wanted, args, handle, launched, supervisor, todo, found,
                   missed>>

Supervise ==
    \/ LoopTop \/ Command \/ StartProcess \/ StartFails \/ Publish
    \/ ReadLine \/ Leave
    \/ Reap \/ Find(Supervisor) \/ End(Supervisor) \/ DropHandle(Supervisor)

IperfNext ==
    \/ Supervise \/ ProcessExits
    \/ \E a \in Requests :
          RequestStep(a) \/ (\E action \in Actions : Send(a, action))

IperfFairness ==
    /\ WF_iperfVars(Supervise)
    /\ \A a \in Requests : WF_iperfVars(RequestStep(a))

IperfSpec == IperfInit /\ [][IperfNext]_iperfVars /\ IperfFairness

-----------------------------------------------------------------------------
(* There is never a second process beside the one of the supervisor, also  *)
(* not while requests kill processes that it has launched.  Once the       *)
(* requests are answered, a process runs with the arguments of the latest  *)
(* one, unless a kill came while it was being launched: that process keeps *)
(* the arguments that were replaced until something else ends it.          *)
ProcessFollowsArgs ==
    /\ Cardinality(alive) <= 1
    /\ (\A a \in Requests : ~Busy(a)) =>
          \A p \in alive : launched[p] # args => p \in missed

(* A stop ends the process, also one that it came too early for, unless    *)
(* iperf3 is wanted again.                                                 *)
StopEndsProcess == []<>(wanted \/ alive = {})
=============================================================================
