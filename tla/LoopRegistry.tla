---------------------------- MODULE LoopRegistry ----------------------------
(***************************************************************************)
(* The cancel registry of the PM and PS background loops                   *)
(* (loop_state.py) and the server-sent-event streams that run the loops    *)
(* (pm_loop.py, ps_loop.py).  The two layers run the same code on separate *)
(* dictionary entries, and so do two profiles: an element of Loops stands  *)
(* for one (layer, profile) entry.                                         *)
(*                                                                         *)
(* A stream is one POST /pm/loop/start or /ps/loop/start: a generator that *)
(* checks the running flag, registers a cancel event, solves cycle after   *)
(* cycle, and unregisters in its "finally".  The generator gives up the    *)
(* control at every yield; its client may disconnect there, which closes   *)
(* the generator and runs the "finally".                                   *)
(***************************************************************************)
EXTENDS Naturals

CONSTANTS
    Loops,      \* (layer, profile) entries of the registry
    Streams,    \* start requests; each runs the generator at most once
    NoStream,   \* "no cancel event registered"
    MaxLimit    \* largest max_cycles a request asks for

ASSUME NoStreamAssumption == NoStream \notin Streams
ASSUME MaxLimitAssumption == MaxLimit \in Nat

VARIABLES
    registered, \* registered[l]: the stream whose event is in _pm_cancel
    running,    \* running[l]: ProfileLoopState.pm_running
    cancelled,  \* cancelled[s]: the event of stream s is set
    pc,         \* pc[s]: where the generator of stream s stands
    loop,       \* loop[s]: the entry stream s was started for
    limit,      \* limit[s]: params.max_cycles, 0 for no limit
    cycle,      \* cycle[s]: cycles begun, counted up to MaxLimit + 1
    late        \* history: late[s], the solves that s began when cancelled

vars == <<registered, running, cancelled, pc, loop, limit, cycle, late>>

-----------------------------------------------------------------------------
(* Points of the generator: "starting", "reported", "failed", "result" and *)
(* "refused" are yields.                                                   *)
Yields == {"starting", "reported", "failed", "result"}

Inside == Yields \cup {"head", "counting", "solving", "sleeping", "closing"}

Points == Inside \cup {"idle", "refused", "checked", "done"}

(* Stream s has registered and has not yet unregistered. *)
Live(s) == pc[s] \in Inside

(* Mutant: the loop looks for any event in the registry, not at its own.   *)
IsSet_LooksAtRegistry(s) == registered[loop[s]] = NoStream

(* cancel.is_set() of the event stream s got from register. *)
IsSet(s) == cancelled[s]

Goto(s, point) == pc' = [pc EXCEPT ![s] = point]

Init ==
    /\ registered = [l \in Loops |-> NoStream]
    /\ running = [l \in Loops |-> FALSE]
    /\ cancelled = [s \in Streams |-> FALSE]
    /\ pc = [s \in Streams |-> "idle"]
    /\ loop \in [Streams -> Loops]
    /\ limit \in [Streams -> 0..MaxLimit]
    /\ cycle = [s \in Streams |-> 0]
    /\ late = [s \in Streams |-> 0]

(* The request reads the running flag under the lock and releases it. *)
Check(s) ==
    /\ pc[s] = "idle"
    /\ Goto(s, IF running[loop[s]] THEN "refused" ELSE "checked")
    /\ UNCHANGED <<registered, running, cancelled, loop, limit, cycle, late>>

(* Mutant: the key is stored where the event belongs.                      *)
Register_StoresKey(s) ==
    LET l == loop[s]
        old == registered[l]
    IN  /\ pc[s] = "checked"
        /\ cancelled' = [t \in Streams |-> cancelled[t] \/ t = old]
        /\ registered' = [registered EXCEPT ![l] = l]
        /\ running' = [running EXCEPT ![l] = TRUE]
        /\ Goto(s, "starting")
        /\ UNCHANGED <<loop, limit, cycle, late>>

(* register_pm: the event registered before, if any, is set and replaced.  *)
Register(s) ==
    LET l == loop[s]
        old == registered[l]
    IN  /\ pc[s] = "checked"
        /\ cancelled' = [t \in Streams |-> cancelled[t] \/ t = old]
        /\ registered' = [registered EXCEPT ![l] = s]
        /\ running' = [running EXCEPT ![l] = TRUE]
        /\ Goto(s, "starting")
        /\ UNCHANGED <<loop, limit, cycle, late>>

(* The loop head looks at the event: it may be set by now, or be set right *)
(* after.                                                                  *)
Head(s) ==
    /\ pc[s] = "head"
    /\ Goto(s, IF IsSet(s) THEN "result" ELSE "counting")
    /\ UNCHANGED <<registered, running, cancelled, loop, limit, cycle, late>>

(* Mutant: the cycle is not counted. *)
Begin_DoesNotCount(s) ==
    /\ pc[s] = "counting"
    /\ Goto(s, IF limit[s] > 0 /\ cycle[s] > limit[s] THEN "result" ELSE "solving")
    /\ UNCHANGED <<registered, running, cancelled, loop, limit, cycle, late>>

(* The cycle is counted: leave when past max_cycles, else call             *)
(* solve_pm_once.                                                          *)
Begin(s) ==
    LET next == IF cycle[s] > MaxLimit THEN cycle[s] ELSE cycle[s] + 1
        past == limit[s] > 0 /\ next > limit[s]
    IN  /\ pc[s] = "counting"
        /\ cycle' = [cycle EXCEPT ![s] = next]
        /\ Goto(s, IF past THEN "result" ELSE "solving")
        /\ late' = [late EXCEPT ![s] = IF cancelled[s] /\ ~past THEN @ + 1 ELSE @]
        /\ UNCHANGED <<registered, running, cancelled, loop, limit>>

(* solve_pm_once returns: an optimal solution is reported, a failed one    *)
(* ends the loop, and an exception (no PL result) goes to the "finally".   *)
(* What a solve reads and publishes is left out.                           *)
SolveOk(s) ==
    /\ pc[s] = "solving"
    /\ Goto(s, "reported")
    /\ UNCHANGED <<registered, running, cancelled, loop, limit, cycle, late>>

SolveFails(s) ==
    /\ pc[s] = "solving"
    /\ Goto(s, "failed")
    /\ UNCHANGED <<registered, running, cancelled, loop, limit, cycle, late>>

(* Mutant: the exception escapes a loop that has no "finally". *)
SolveRaises_NoFinally(s) ==
    /\ pc[s] = "solving"
    /\ Goto(s, "done")
    /\ UNCHANGED <<registered, running, cancelled, loop, limit, cycle, late>>

SolveRaises(s) ==
    /\ pc[s] = "solving"
    /\ Goto(s, "closing")
    /\ UNCHANGED <<registered, running, cancelled, loop, limit, cycle, late>>

(* _sleep_interval: TRUE, and the loop is left, when cancelled meanwhile.  *)
Sleep(s) ==
    /\ pc[s] = "sleeping"
    /\ Goto(s, IF IsSet(s) THEN "result" ELSE "head")
    /\ UNCHANGED <<registered, running, cancelled, loop, limit, cycle, late>>

(* The client takes what was yielded and the generator goes on.            *)
AfterYield ==
    [starting |-> "head", reported |-> "sleeping", failed |-> "result",
     result |-> "closing", refused |-> "done"]

Resume(s) ==
    /\ pc[s] \in Yields \cup {"refused"}
    /\ Goto(s, AfterYield[pc[s]])
    /\ UNCHANGED <<registered, running, cancelled, loop, limit, cycle, late>>

(* Mutant: closing the generator skips unregister. *)
Disconnect_NoFinally(s) ==
    /\ pc[s] \in Yields
    /\ Goto(s, "done")
    /\ UNCHANGED <<registered, running, cancelled, loop, limit, cycle, late>>

(* The client is gone: the generator is closed at the yield it stands at.  *)
Disconnect(s) ==
    /\ pc[s] \in Yields
    /\ Goto(s, "closing")
    /\ UNCHANGED <<registered, running, cancelled, loop, limit, cycle, late>>

(* Mutant: unregister removes whatever event is registered.                *)
Unregister_PopsAny(s) ==
    /\ pc[s] = "closing"
    /\ registered' = [registered EXCEPT ![loop[s]] = NoStream]
    /\ running' = [running EXCEPT ![loop[s]] = FALSE]
    /\ Goto(s, "done")
    /\ UNCHANGED <<cancelled, loop, limit, cycle, late>>

(* unregister_pm: the entry is removed only by its owner, the running flag *)
(* is cleared by whoever leaves.                                           *)
Unregister(s) ==
    LET l == loop[s]
    IN  /\ pc[s] = "closing"
        /\ registered' = [registered EXCEPT
                            ![l] = IF @ = s THEN NoStream ELSE @]
        /\ running' = [running EXCEPT ![l] = FALSE]
        /\ Goto(s, "done")
        /\ UNCHANGED <<cancelled, loop, limit, cycle, late>>

(* POST /pm/loop/stop on an entry that has an event. *)
Stop(l) ==
    /\ registered[l] # NoStream
    /\ cancelled' = [cancelled EXCEPT ![registered[l]] = TRUE]
    /\ UNCHANGED <<registered, running, pc, loop, limit, cycle, late>>

(* A step of the generator of stream s, once its request is accepted.      *)
Advance(s) ==
    \/ Register(s) \/ Head(s) \/ Begin(s)
    \/ SolveOk(s) \/ SolveFails(s) \/ SolveRaises(s)
    \/ Sleep(s) \/ Resume(s) \/ Unregister(s)

Next ==
    \/ \E s \in Streams : Check(s) \/ Advance(s) \/ Disconnect(s)
    \/ \E l \in Loops : Stop(l)

(* A generator that can run does: its thread is scheduled, the solver      *)
(* returns, and its client reads or disconnects.  Nobody has to start,     *)
(* stop or disconnect anything.                                            *)
Fairness == \A s \in Streams : WF_vars(Advance(s))

Spec == Init /\ [][Next]_vars /\ Fairness

-----------------------------------------------------------------------------
TypeOK ==
    /\ registered \in [Loops -> Streams \cup {NoStream}]
    /\ running \in [Loops -> BOOLEAN]
    /\ cancelled \in [Streams -> BOOLEAN]
    /\ pc \in [Streams -> Points]
    /\ loop \in [Streams -> Loops]
    /\ limit \in [Streams -> 0..MaxLimit]
    /\ cycle \in [Streams -> 0..MaxLimit + 1]
    /\ late \in [Streams -> Nat]

(* Whatever the races between starts, a loop that nobody cancelled is the  *)
(* one in the registry: at most one such loop works on an entry, and a     *)
(* stop request reaches it.  register_pm cancels the event it replaces and *)
(* unregister_pm spares an event that is not its own.                      *)
ActiveLoopIsRegistered ==
    \A s \in Streams : Live(s) /\ ~cancelled[s] => registered[loop[s]] = s

(* A registered event belongs to a generator that has still to run its     *)
(* "finally", so no failure or disconnect leaves an event behind.          *)
RegisteredLoopIsLive ==
    \A l \in Loops, s \in Streams :
        registered[l] = s => loop[s] = l /\ Live(s)

(* An entry reported as running, which refuses new starts, has a loop on   *)
(* it that is going to end the report: no dead loop blocks a profile.      *)
RunningHasLoop ==
    \A l \in Loops :
        running[l] => \E s \in Streams : loop[s] = l /\ Live(s)

(* A loop whose event is set after the look at the loop head still begins  *)
(* the solve it is about to call.  It begins no second one, whoever has    *)
(* the entry by then and whether or not that loop has ended: beside the    *)
(* results of the loop that replaced it, it publishes one at most.         *)
OneLateSolve == \A s \in Streams : late[s] <= 1

(* A loop that is stopped, replaced, or has max_cycles, ends: it notices   *)
(* its own event in whatever it does, also when another loop has the entry *)
(* by then, and counts the cycles that fail.                               *)
LoopsEnd ==
    \A s \in Streams :
        Live(s) /\ (cancelled[s] \/ limit[s] > 0) ~> pc[s] = "done"
=============================================================================
