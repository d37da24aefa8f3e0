----------------------------- MODULE LoopDemand -----------------------------
(***************************************************************************)
(* What the PM and PS solves of one profile share (loop_state.py): the     *)
(* demand of each slice, which a PS solve writes slice by slice            *)
(* (ps_loop.py) and a PM solve reads slice by slice (pm_loop.py), and the  *)
(* result, parameters and cycle number that each layer publishes in this   *)
(* order, without a lock, for the status requests to read.                 *)
(*                                                                         *)
(* A solve is one call of solve_pm_once or solve_ps_once: a cycle of a     *)
(* loop of LoopRegistry, the last one of a loop that was replaced, or a    *)
(* POST /pm/solve or /ps/solve.  Nothing keeps two solves of a layer       *)
(* apart.  A demand, a result and a cycle number are named by the solve    *)
(* they come from.                                                         *)
(***************************************************************************)
EXTENDS Naturals, Sequences

CONSTANTS
    Slices,     \* number of slices; solves go through 1..Slices
    PmSolves,   \* solves of the medium layer
    PsSolves,   \* solves of the short layer
    NoSolve     \* t_bar, which a PM solve takes for a slice without an entry,
                \* no result, and the cycle number 0

ASSUME SlicesAssumption == Slices \in Nat \ {0}
ASSUME SolvesAssumption ==
    PmSolves \cap PsSolves = {} /\ NoSolve \notin PmSolves \cup PsSolves

VARIABLES
    demand,     \* ProfileLoopState.demand
    lastOf,     \* lastOf[l]: last_pm, last_ps
    cycleOf,    \* cycleOf[l]: pm_cycle, ps_cycle
    place,      \* place[s]: where solve s stands
    used,       \* used[m]: the demands PM solve m has read
    written,    \* written[s]: how many demands PS solve s has written
    before,     \* history: before[s], the solves that were over when s began
    status      \* a status request: its layer, and what it has read

demandVars ==
    <<demand, lastOf, cycleOf, place, used, written, before, status>>

-----------------------------------------------------------------------------
Layers == {"pm", "ps"}

SolvesOf == [pm |-> PmSolves, ps |-> PsSolves]

AllSolves == PmSolves \cup PsSolves

DemandInit ==
    /\ demand = [i \in 1..Slices |-> NoSolve]
    /\ lastOf = [l \in Layers |-> NoSolve]
    /\ cycleOf = [l \in Layers |-> NoSolve]
    /\ place = [s \in AllSolves |-> "idle"]
    /\ used = [m \in PmSolves |-> <<>>]
    /\ written = [s \in PsSolves |-> 0]
    /\ before = [s \in AllSolves |-> {}]
    /\ status = [pc |-> "idle", layer |-> "pm", before |-> {},
                 cycle |-> NoSolve, last |-> NoSolve]

GoOn(s, from, to) == place[s] = from /\ place' = [place EXCEPT ![s] = to]

(* The solves that have published all they had to.                         *)
Over == {s \in AllSolves : place[s] = "over"}

(* load_pl_context and the copy of the slices; a PM solve then reads the   *)
(* demands, a PS solve draws the MCS and runs its optimisation.            *)
BeginSolve(s) ==
    /\ GoOn(s, "idle", IF s \in PmSolves THEN "reading" ELSE "solving")
    /\ before' = [before EXCEPT ![s] = Over]
    /\ UNCHANGED <<demand, lastOf, cycleOf, used, written, status>>

(* A PM solve reads the demand of one slice. *)
ReadDemand(m) ==
    LET i == Len(used[m]) + 1
    IN  /\ GoOn(m, "reading", IF i = Slices THEN "solving" ELSE "reading")
        /\ used' = [used EXCEPT ![m] = Append(@, demand[i])]
        /\ UNCHANGED <<demand, lastOf, cycleOf, written, before, status>>

(* The optimisation succeeds, or it does not and nothing is published.     *)
Solved(s) ==
    /\ GoOn(s, "solving", IF s \in PmSolves THEN "solved" ELSE "writing")
    /\ UNCHANGED <<demand, lastOf, cycleOf, used, written, before, status>>

Failed(s) ==
    /\ GoOn(s, "solving", "failed")
    /\ UNCHANGED <<demand, lastOf, cycleOf, used, written, before, status>>

(* Mutant: the cycle number is published with the demands. *)
WriteDemand_CycleFirst(s) ==
    LET i == written[s] + 1
    IN  /\ GoOn(s, "writing", IF i = Slices THEN "solved" ELSE "writing")
        /\ demand' = [demand EXCEPT ![i] = s]
        /\ written' = [written EXCEPT ![s] = i]
        /\ cycleOf' = [cycleOf EXCEPT !["ps"] = s]
        /\ UNCHANGED <<lastOf, used, before, status>>

(* A PS solve writes the demand of one slice. *)
WriteDemand(s) ==
    LET i == written[s] + 1
    IN  /\ GoOn(s, "writing", IF i = Slices THEN "solved" ELSE "writing")
        /\ demand' = [demand EXCEPT ![i] = s]
        /\ written' = [written EXCEPT ![s] = i]
        /\ UNCHANGED <<lastOf, cycleOf, used, before, status>>

(* last_pm, then pm_params, ... *)
PublishResult(l, s) ==
    /\ GoOn(s, "solved", "published")
    /\ lastOf' = [lastOf EXCEPT ![l] = s]
    /\ UNCHANGED <<demand, cycleOf, used, written, before, status>>

(* ... then pm_cycle. *)
PublishCycle(l, s) ==
    /\ GoOn(s, "published", "over")
    /\ cycleOf' = [cycleOf EXCEPT ![l] = s]
    /\ UNCHANGED <<demand, lastOf, used, written, before, status>>

(* pm_loop_status, ps_loop_status: the cycle ... *)
ReadCycle(l) ==
    /\ status.pc = "idle"
    /\ status' = [pc |-> "reading", layer |-> l, before |-> Over,
                  cycle |-> cycleOf[l], last |-> NoSolve]
    /\ UNCHANGED <<demand, lastOf, cycleOf, place, used, written, before>>

(* ... and then the result. *)
ReadResult ==
    /\ status.pc = "reading"
    /\ status' = [status EXCEPT !.pc = "idle", !.last = lastOf[status.layer]]
    /\ UNCHANGED <<demand, lastOf, cycleOf, place, used, written, before>>

Solve(l, s) ==
    BeginSolve(s) \/ Solved(s) \/ Failed(s) \/ PublishResult(l, s) \/ PublishCycle(l, s)

DemandNext ==
    \/ \E m \in PmSolves : ReadDemand(m)
    \/ \E s \in PsSolves : WriteDemand(s)
    \/ \E l \in Layers : ReadCycle(l) \/ \E s \in SolvesOf[l] : Solve(l, s)
    \/ ReadResult

DemandSpec == DemandInit /\ [][DemandNext]_demandVars

-----------------------------------------------------------------------------
(* What comes from solve d is outdated by the solves of the set "over": one *)
(* of them began when d was over, or there was no d.                        *)
Outdated(d, over) == \E s \in over : d = NoSolve \/ d \in before[s]

(* Solves of a layer overlap freely, and an older one may store its result *)
(* over a newer one's.  But nothing comes back that was over when a solve  *)
(* began that is over by now: a PM solve uses no demand that a PS solve    *)
(* has replaced which was over when the PM solve began, and the demand of  *)
(* a later slice is not older than what was over when the solve began that *)
(* an earlier slice's demand comes from.  A status shows a result that was *)
(* not replaced before it began, and one that was not replaced by the      *)
(* solve whose cycle number it shows, nor by one before that.              *)
ResultsAreRecent ==
    /\ \A m \in PmSolves : \A i \in DOMAIN used[m] :
          ~Outdated(used[m][i], before[m] \cap PsSolves)
    /\ \A m \in PmSolves : \A i, j \in DOMAIN used[m] :
          i < j /\ used[m][i] # NoSolve =>
            ~Outdated(used[m][j], before[used[m][i]] \cap PsSolves)
    /\ status.pc = "idle" =>
         LET mine == SolvesOf[status.layer]
         IN  /\ ~Outdated(status.last, status.before \cap mine)
             /\ status.cycle # NoSolve =>
                   ~Outdated(status.last, {status.cycle}
                                \cup (before[status.cycle] \cap mine))
=============================================================================
