------------------------- MODULE LoopRegistryProofs -------------------------
(***************************************************************************)
(* Proofs about LoopRegistry for any number of entries and streams.        *)
(*                                                                         *)
(* ActiveLoopIsRegistered is not inductive alone: that an unregistering    *)
(* stream leaves the event of another one in place helps only if the other *)
(* one is a stream of the same entry, and RunningHasLoop needs that the    *)
(* running flag never outlives the registered event.  OneLateSolve needs   *)
(* that a loop which began a solve when cancelled has looked at its event  *)
(* for the last time.  IInv adds these.                                    *)
(***************************************************************************)
EXTENDS LoopRegistry, TLAPS

(* The running flag is set together with an event and cleared whenever the *)
(* event is removed.                                                       *)
RunningIsRegistered ==
    \A l \in Loops : running[l] => registered[l] # NoStream

(* After a late solve the loop does not get past its head again.           *)
LateIsLast ==
    \A s \in Streams : late[s] > 0 => late[s] = 1 /\ cancelled[s] /\ pc[s] # "counting"

IInv ==
    /\ TypeOK
    /\ ActiveLoopIsRegistered
    /\ RegisteredLoopIsLive
    /\ RunningIsRegistered
    /\ LateIsLast

-----------------------------------------------------------------------------
(* The starting state is well typed and has no event registered. *)
LEMMA InitIInv == Init => IInv
<1> SUFFICES ASSUME Init PROVE IInv
  OBVIOUS
<1> USE DEF Init
<1>1. TypeOK
  BY MaxLimitAssumption DEF TypeOK, Points, Inside, Yields
<1>2. ActiveLoopIsRegistered
  BY DEF ActiveLoopIsRegistered, Live, Inside, Yields
<1>3. RegisteredLoopIsLive /\ RunningIsRegistered /\ LateIsLast
  BY NoStreamAssumption DEF RegisteredLoopIsLive, RunningIsRegistered, LateIsLast
<1> QED
  BY <1>1, <1>2, <1>3 DEF IInv

(* Every step keeps the types: each handler writes an event, a flag or a   *)
(* point of the generator where one belongs.                               *)
LEMMA StepTypeOK == TypeOK /\ [Next]_vars => TypeOK'
<1> SUFFICES ASSUME TypeOK, [Next]_vars PROVE TypeOK'
  OBVIOUS
<1> USE MaxLimitAssumption DEF TypeOK, Goto, Points, Inside, Yields
<1>1. ASSUME NEW s \in Streams, Check(s) PROVE TypeOK'
  BY <1>1 DEF Check
<1>2. ASSUME NEW s \in Streams, Register(s) PROVE TypeOK'
  BY <1>2 DEF Register
<1>3. ASSUME NEW s \in Streams, Head(s) PROVE TypeOK'
  BY <1>3 DEF Head
<1>11. ASSUME NEW s \in Streams, Begin(s) PROVE TypeOK'
  <2>1. cycle' \in [Streams -> 0..MaxLimit + 1]
    BY <1>11 DEF Begin
  <2>2. pc' \in [Streams -> Points] /\ late' \in [Streams -> Nat]
    BY <1>11 DEF Begin
  <2> QED
    BY <1>11, <2>1, <2>2 DEF Begin
<1>4. ASSUME NEW s \in Streams, SolveOk(s) \/ SolveFails(s) \/ SolveRaises(s)
      PROVE TypeOK'
  BY <1>4 DEF SolveOk, SolveFails, SolveRaises
<1>5. ASSUME NEW s \in Streams, Sleep(s) PROVE TypeOK'
  BY <1>5 DEF Sleep
<1>6. ASSUME NEW s \in Streams, Resume(s) PROVE TypeOK'
  <2>1. AfterYield[pc[s]] \in Points
    BY <1>6 DEF Resume, AfterYield
  <2> QED
    BY <1>6, <2>1 DEF Resume
<1>7. ASSUME NEW s \in Streams, Disconnect(s) PROVE TypeOK'
  BY <1>7 DEF Disconnect
<1>8. ASSUME NEW s \in Streams, Unregister(s) PROVE TypeOK'
  BY <1>8 DEF Unregister
<1>9. ASSUME NEW l \in Loops, Stop(l) PROVE TypeOK'
  BY <1>9 DEF Stop
<1>10. CASE UNCHANGED vars
  BY <1>10 DEF vars
<1> QED
  BY <1>1, <1>2, <1>3, <1>4, <1>5, <1>6, <1>7, <1>8, <1>9, <1>10, <1>11
     DEF Next, Advance

(* The steps that leave the registry alone and keep a live stream live,    *)
(* and one that is not live out of it, preserve what IInv says of it.      *)
LEMMA QuietStep ==
    ASSUME IInv, TypeOK',
           UNCHANGED <<registered, running, cancelled, loop>>,
           \A s \in Streams : Live(s)' <=> Live(s),
           LateIsLast'
    PROVE  IInv'
BY DEF IInv, ActiveLoopIsRegistered, RegisteredLoopIsLive,
       RunningIsRegistered, TypeOK

(* Only Begin begins a solve, and a cancelled loop does not get to it but  *)
(* from the look before.                                                   *)
LEMMA StepLate == TypeOK /\ LateIsLast /\ [Next]_vars => LateIsLast'
<1> SUFFICES ASSUME TypeOK, LateIsLast, [Next]_vars PROVE LateIsLast'
  OBVIOUS
<1> USE DEF TypeOK, LateIsLast, Goto
<1>1. ASSUME NEW s \in Streams, Check(s) \/ Register(s) PROVE LateIsLast'
  BY <1>1 DEF Check, Register
<1>2. ASSUME NEW s \in Streams, Head(s) PROVE LateIsLast'
  BY <1>2 DEF Head, IsSet
<1>3. ASSUME NEW s \in Streams, Begin(s) PROVE LateIsLast'
  BY <1>3 DEF Begin
<1>4. ASSUME NEW s \in Streams, SolveOk(s) \/ SolveFails(s) \/ SolveRaises(s)
      PROVE LateIsLast'
  BY <1>4 DEF SolveOk, SolveFails, SolveRaises
<1>5. ASSUME NEW s \in Streams, Sleep(s) PROVE LateIsLast'
  BY <1>5 DEF Sleep
<1>6. ASSUME NEW s \in Streams, Resume(s) PROVE LateIsLast'
  <2>1. AfterYield[pc[s]] # "counting"
    BY <1>6 DEF Resume, AfterYield, Yields
  <2> QED
    BY <1>6, <2>1 DEF Resume
<1>7. ASSUME NEW s \in Streams, Disconnect(s) \/ Unregister(s) PROVE LateIsLast'
  BY <1>7 DEF Disconnect, Unregister
<1>8. ASSUME NEW l \in Loops, Stop(l) PROVE LateIsLast'
  BY <1>8 DEF Stop
<1>9. CASE UNCHANGED vars
  BY <1>9 DEF vars
<1> QED
  BY <1>1, <1>2, <1>3, <1>4, <1>5, <1>6, <1>7, <1>8, <1>9 DEF Next, Advance

(* Every step preserves the inductive invariant. *)
LEMMA StepIInv == IInv /\ [Next]_vars => IInv'
<1> SUFFICES ASSUME IInv, [Next]_vars PROVE IInv'
  OBVIOUS
<1>0. TypeOK /\ TypeOK' /\ LateIsLast'
  BY StepTypeOK, StepLate DEF IInv
<1>1. ASSUME NEW s \in Streams, Check(s) PROVE IInv'
  BY <1>1, <1>0, QuietStep
     DEF Check, Goto, Live, Inside, Yields, TypeOK
<1>2. ASSUME NEW s \in Streams, Register(s) PROVE IInv'
  <2> DEFINE l == loop[s]
  <2> USE DEF Register, Goto, Live, Inside, Yields
  <2>1. ActiveLoopIsRegistered'
    BY <1>2, <1>0, NoStreamAssumption
       DEF IInv, ActiveLoopIsRegistered, TypeOK
  <2>2. RegisteredLoopIsLive'
    BY <1>2, <1>0 DEF IInv, RegisteredLoopIsLive, TypeOK
  <2>3. RunningIsRegistered'
    BY <1>2, <1>0, NoStreamAssumption DEF IInv, RunningIsRegistered, TypeOK
  <2> QED
    BY <2>1, <2>2, <2>3, <1>0 DEF IInv
<1>3. ASSUME NEW s \in Streams, Head(s) \/ Begin(s) PROVE IInv'
  BY <1>3, <1>0, QuietStep DEF Head, Begin, Goto, Live, Inside, Yields, TypeOK
<1>4. ASSUME NEW s \in Streams, SolveOk(s) \/ SolveFails(s) \/ SolveRaises(s)
      PROVE IInv'
  BY <1>4, <1>0, QuietStep
     DEF SolveOk, SolveFails, SolveRaises, Goto, Live, Inside, Yields, TypeOK
<1>5. ASSUME NEW s \in Streams, Sleep(s) PROVE IInv'
  BY <1>5, <1>0, QuietStep DEF Sleep, Goto, Live, Inside, Yields, TypeOK
<1>6. ASSUME NEW s \in Streams, Resume(s) PROVE IInv'
  <2>1. \A t \in Streams : Live(t)' <=> Live(t)
    BY <1>6, <1>0
       DEF Resume, AfterYield, Goto, Live, Inside, Yields, TypeOK
  <2> QED
    BY <1>6, <1>0, <2>1, QuietStep DEF Resume
<1>7. ASSUME NEW s \in Streams, Disconnect(s) PROVE IInv'
  BY <1>7, <1>0, QuietStep DEF Disconnect, Goto, Live, Inside, Yields, TypeOK
<1>8. ASSUME NEW s \in Streams, Unregister(s) PROVE IInv'
  <2> USE DEF Unregister, Goto, Live, Inside, Yields
  <2>1. ActiveLoopIsRegistered'
    BY <1>8, <1>0 DEF IInv, ActiveLoopIsRegistered, TypeOK
  <2>2. RegisteredLoopIsLive'
    BY <1>8, <1>0, NoStreamAssumption DEF IInv, RegisteredLoopIsLive, TypeOK
  <2>3. RunningIsRegistered'
    BY <1>8, <1>0 DEF IInv, RunningIsRegistered, TypeOK
  <2> QED
    BY <2>1, <2>2, <2>3, <1>0 DEF IInv
<1>9. ASSUME NEW l \in Loops, Stop(l) PROVE IInv'
  BY <1>9, <1>0
     DEF Stop, IInv, ActiveLoopIsRegistered, RegisteredLoopIsLive,
         RunningIsRegistered, Live, TypeOK
<1>10. CASE UNCHANGED vars
  BY <1>10, <1>0, QuietStep DEF vars, Live
<1> QED
  BY <1>1, <1>2, <1>3, <1>4, <1>5, <1>6, <1>7, <1>8, <1>9, <1>10
     DEF Next, Advance

-----------------------------------------------------------------------------
(* The inductive invariant holds in every state. *)
THEOREM Invariance == Spec => []IInv
BY InitIInv, StepIInv, PTL DEF Spec

(* The variables keep their types, for any numbers of entries, start       *)
(* requests and cycles.                                                    *)
THEOREM Typing == Spec => []TypeOK
BY Invariance, PTL DEF IInv

(* A loop nobody cancelled is the one in the registry, so there is at most *)
(* one and a stop reaches it (register_pm, unregister_pm).                 *)
THEOREM OneActiveLoop == Spec => []ActiveLoopIsRegistered
BY Invariance, PTL DEF IInv

(* No event stays registered for a stream that has ended. *)
THEOREM NoOrphanEvent == Spec => []RegisteredLoopIsLive
BY Invariance, PTL DEF IInv

(* An entry reported as running has a live loop: a profile is never        *)
(* blocked by a loop that died.                                            *)
THEOREM RunningIsLive == Spec => []RunningHasLoop
<1>1. IInv => RunningHasLoop
  BY DEF IInv, TypeOK, RunningIsRegistered, RegisteredLoopIsLive,
         RunningHasLoop
<1> QED
  BY <1>1, Invariance, PTL

(* A loop that is stopped or replaced begins at most one more solve: it     *)
(* looks at its own event at every loop head, and one look can come too    *)
(* early.                                                                  *)
THEOREM NoSecondLateSolve == Spec => []OneLateSolve
<1>1. IInv => OneLateSolve
  BY DEF IInv, TypeOK, LateIsLast, OneLateSolve
<1> QED
  BY <1>1, Invariance, PTL
=============================================================================
