----------------------------- MODULE MCServices -----------------------------
(* The services of the backend that share no state with one another, in    *)
(* one run: the first step of a behaviour picks a service, and the others  *)
(* stay in their initial states.                                           *)
EXTENDS ProfileRollout, LoopDemand, ProfileStore, AddressPlan, MeasuredStep,
        SweepLevels

VARIABLES
    which

vars ==
    <<which, rolloutVars, demandVars, storeVars, levelVars, planVars, stepVars>>

Init ==
    /\ which \in {"rollout", "demand", "store", "ladder", "plan", "step"}
    /\ RolloutInit /\ DemandInit /\ StoreInit
    /\ PlanInit /\ StepInit /\ LadderInit
    /\ which # "store" => rows[Builtin].result = None

Rollouts ==
    /\ which = "rollout" /\ RolloutNext
    /\ UNCHANGED <<which, demandVars, storeVars, levelVars, planVars, stepVars>>

Solves ==
    /\ which = "demand" /\ DemandNext
    /\ UNCHANGED <<which, rolloutVars, storeVars, levelVars, planVars, stepVars>>

Saves ==
    /\ which = "store" /\ StoreNext
    /\ UNCHANGED <<which, rolloutVars, demandVars, levelVars, planVars, stepVars>>

Sweeps ==
    /\ which = "ladder" /\ LadderNext
    /\ UNCHANGED <<which, rolloutVars, demandVars, storeVars, planVars, stepVars>>

Plans ==
    /\ which = "plan" /\ PlanNext
    /\ UNCHANGED <<which, rolloutVars, demandVars, storeVars, levelVars, stepVars>>

Steps ==
    /\ which = "step" /\ StepNext
    /\ UNCHANGED <<which, rolloutVars, demandVars, storeVars, levelVars, planVars>>

Next == Rollouts \/ Solves \/ Saves \/ Sweeps \/ Plans \/ Steps

(* A rollout and a sweep are fair from their first step on.                *)
Spec == Init /\ [][Next]_vars /\ RolloutFairness /\ LadderFairness
=============================================================================
