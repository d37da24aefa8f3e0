----------------------------- MODULE SweepLevels -----------------------------
(***************************************************************************)
(* The levels a benchmark sweep goes through: cpu_steps of                 *)
(* benchmark_run.py and prb_steps of benchmark_prb_run.py, which are one   *)
(* loop.  Quantities are counted in the smallest unit a request can tell   *)
(* apart and levels are rounded to the grain: 1 for the CPU sweep, whose   *)
(* quantities are rounded to millicores before the loop, and PrbGrain for  *)
(* the PRB sweep, which takes any number and rounds to 0.01.  A number     *)
(* half way between two multiples always goes to the same one, which its   *)
(* binary form decides.                                                    *)
(***************************************************************************)
EXTENDS Integers, Sequences

CONSTANTS
    PrbGrain,   \* units in 0.01 of a PRB ratio
    MaxQuantity,\* bound on the minimum, the maximum and the step
    MaxLevels   \* bound on the length of a sweep that never ends

ASSUME LevelsAssumption ==
    PrbGrain \in Nat \ {0} /\ MaxQuantity \in Nat /\ MaxLevels \in Nat

VARIABLES
    ask,        \* the request: its minimum, maximum, step and grain
    x,          \* x of the loop
    levels,     \* out
    ladder      \* where the computation stands

levelVars == <<ask, x, levels, ladder>>

-----------------------------------------------------------------------------
Rounded(q) ==
    LET below == q - (q % ask.grain)
        rest == 2 * (q - below)
    IN  IF rest > ask.grain \/ (rest = ask.grain /\ q \in ask.up)
        THEN below + ask.grain ELSE below

HalfWay(grain) == {q \in 1..2 * MaxQuantity : 2 * (q % grain) = grain}

Last == levels[Len(levels)]

LadderInit ==
    /\ ask = [lo |-> 0, hi |-> 0, inc |-> 1, grain |-> 1, up |-> {}]
    /\ x = 0
    /\ levels = <<>>
    /\ ladder = "none"

(* The two refusals are guards: max < min and step <= 0.                   *)
BeginSweep(lo, hi, inc, grain, up) ==
    /\ lo <= hi /\ inc > 0
    /\ ask' = [lo |-> lo, hi |-> hi, inc |-> inc, grain |-> grain, up |-> up]
    /\ x' = lo
    /\ ladder' = "growing"
    /\ UNCHANGED levels

(* Mutant: the place of the loop is cut off to the grain.                  *)
Grow_CutsOff ==
    /\ ladder = "growing" /\ x <= ask.hi /\ Len(levels) < MaxLevels
    /\ levels' = Append(levels, Rounded(x))
    /\ x' = (x + ask.inc) - ((x + ask.inc) % ask.grain)
    /\ UNCHANGED <<ask, ladder>>

(* One turn of the while loop.                                             *)
Grow ==
    /\ ladder = "growing" /\ x <= ask.hi /\ Len(levels) < MaxLevels
    /\ levels' = Append(levels, Rounded(x))
    /\ x' = Rounded(x + ask.inc)
    /\ UNCHANGED <<ask, ladder>>

(* Mutant: the sweep ends where the steps end.                             *)
Finish_NoMax ==
    /\ ladder = "growing" /\ x > ask.hi
    /\ ladder' = "done"
    /\ UNCHANGED <<ask, x, levels>>

(* After the loop: the maximum is the last level.                          *)
Finish ==
    /\ ladder = "growing" /\ x > ask.hi
    /\ levels' = IF Last = ask.hi THEN levels
                 ELSE Append(levels, Rounded(ask.hi))
    /\ ladder' = "done"
    /\ UNCHANGED <<ask, x>>

LadderNext ==
    \/ Grow \/ Finish
    \/ /\ ladder = "none"
       /\ \E lo, hi, inc \in 0..MaxQuantity, grain \in {1, PrbGrain} :
             \E up \in SUBSET HalfWay(grain) : BeginSweep(lo, hi, inc, grain, up)

LadderFairness == WF_levelVars(Grow) /\ WF_levelVars(Finish)

LadderSpec == LadderInit /\ [][LadderNext]_levelVars /\ LadderFairness

-----------------------------------------------------------------------------
(* The levels of a request: from its minimum up to its maximum, each       *)
(* visited once, without a gap wider than the step and the rounding,       *)
(* whether or not the step divides the range.  If the minimum or the       *)
(* maximum is finer than the grain, the levels never go down.              *)
CoversRange ==
    LET aligned == ask.lo % ask.grain = 0 /\ ask.hi % ask.grain = 0 IN
    /\ \A i \in 2..Len(levels) : levels[i - 1] <= levels[i]
    /\ aligned =>
          /\ levels[1] = ask.lo
          /\ Last = ask.hi
          /\ \A i \in 2..Len(levels) :
                /\ levels[i - 1] < levels[i]
                /\ 2 * (levels[i] - levels[i - 1]) <= 2 * ask.inc + ask.grain

(* When the computation ends, its levels cover the range, if the step is   *)
(* more than half the grain.                                               *)
LevelsCover == ladder = "done" /\ 2 * ask.inc > ask.grain => CoversRange

(* It does end, under the same condition.  The code asks for a step above  *)
(* 0 only: with a step of 0.005 of a PRB ratio or less the loop appends    *)
(* its minimum until the memory is used up.                                *)
LevelsEnd == (ladder = "growing" /\ 2 * ask.inc > ask.grain) ~> ladder = "done"
=============================================================================
