------------------------ MODULE OperatorControlProofs ------------------------
(***************************************************************************)
(* Proofs about OperatorControl for any numbers of NFs, sessions, threads  *)
(* and requests.                                                           *)
(*                                                                         *)
(* AckNamesTarget speaks of the acknowledgement only.  Its proof has to    *)
(* follow the generation and the value of a target on their way through    *)
(* the push, the queue to the agent, and the reports: whatever of the      *)
(* current epoch is in transit is not ahead of the target, and what        *)
(* carries the target's generation carries its value (Covered).            *)
(***************************************************************************)
EXTENDS OperatorControl, SequenceTheorems, TLAPS

(* A declare waits for a handler that has not declared, whatever else the  *)
(* agent sends after it.                                                   *)
DeclareComesFirst ==
    \A s \in Sessions :
        handler[s] \in {"new", "attached"} =>
            toServer[s] # <<>> /\ Head(toServer[s]).type = "declare"

TypeInv == TypeOK /\ DeclareComesFirst

(* The typing of the registry's variables, which most steps write together *)
(* or not at all.                                                          *)
RegistryOK ==
    /\ known \in BOOLEAN
    /\ connected \in BOOLEAN
    /\ bound \in Sessions \cup {NoSession}
    /\ targets \in [NFs -> Target]
    /\ acks \in [NFs -> Acknowledgement]
    /\ epoch \in [NFs -> Nat]
    /\ settled \in [Sessions -> SUBSET Value]

-----------------------------------------------------------------------------
(* Elements of the record sets, and their fields. *)
LEMMA ZeroValue == 0 \in Value
BY BoundsAssumption DEF Value

LEMMA TargetFields ==
    /\ \A g \in Nat, v \in Value : [generation |-> g, value |-> v] \in Target
    /\ \A t \in Target : t.generation \in Nat /\ t.value \in Value
    /\ NoTarget \in Target
BY ZeroValue DEF Target, NoTarget

LEMMA AckFields ==
    /\ \A g, e \in Nat, v \in Value, st \in {"", "pending", "ok", "error"} :
          [generation |-> g, value |-> v, status |-> st, epoch |-> e]
             \in Acknowledgement
    /\ \A a \in Acknowledgement :
          /\ a.generation \in Nat /\ a.value \in Value /\ a.epoch \in Nat
          /\ a.status \in {"", "pending", "ok", "error"}
    /\ NoAck \in Acknowledgement
BY ZeroValue DEF Acknowledgement, NoAck

LEMMA PayloadFields ==
    /\ \A f \in [NFs -> Target], e \in [NFs -> Nat] :
          [targets |-> f, epoch |-> e] \in Payload
    /\ \A p \in Payload : p.targets \in [NFs -> Target] /\ p.epoch \in [NFs -> Nat]
BY DEF Payload

LEMMA PushStepFields ==
    /\ Idle \in PushStep /\ Asked \in PushStep
    /\ \A p \in Payload : Read(p) \in PushStep
    /\ \A r \in PushStep : r.step = "read" => r.payload \in Payload
BY DEF PushStep, Idle, Asked, Read

LEMMA FrameFields ==
    /\ \A i \in Inventories : Declare(i) \in Frame /\ Declare(i).type = "declare"
    /\ \A f \in Frame : f.type = "declare" => f.nfs \in Inventories
    /\ \A f \in Frame : f.type = "report" =>
          /\ f.nf \in NFs /\ f.ok \in BOOLEAN /\ f.value \in Value
          /\ f.generation \in Nat /\ f.epoch \in Nat
BY DEF Frame, Declare

LEMMA InventoryFields ==
    ASSUME NEW i \in Inventories
    PROVE  DOMAIN i \subseteq NFs /\ \A nf \in DOMAIN i : i[nf] \in Value
BY DEF Inventories

(* What the agent declares is an inventory of its NFs. *)
LEMMA InventoryType == TypeOK => Inventory \in Inventories
BY DEF TypeOK, Inventory, Inventories

(* A report answers a target of the frame the agent has read. *)
LEMMA ReportType ==
    ASSUME NEW nf \in NFs, NEW frame \in Payload, NEW ok \in BOOLEAN
    PROVE  /\ Report(nf, frame, ok) \in Frame
           /\ Report(nf, frame, ok).type = "report"
<1>1. /\ frame.targets[nf].generation \in Nat
      /\ frame.targets[nf].value \in Value
      /\ frame.epoch[nf] \in Nat
  BY PayloadFields, TargetFields
<1> QED
  BY <1>1 DEF Report, Frame

-----------------------------------------------------------------------------
(* The initial state is well typed. *)
LEMMA InitTypeInv == Init => TypeInv
<1> SUFFICES ASSUME Init PROVE TypeInv
  OBVIOUS
<1>1. targets \in [NFs -> Target] /\ acks \in [NFs -> Acknowledgement]
  BY TargetFields, AckFields DEF Init
<1>2. toAgent \in Seq(Payload) /\ toServer \in [Sessions -> Seq(Frame)]
  BY DEF Init
<1>3. pushing \in [Pushers -> PushStep]
  BY PushStepFields DEF Init
<1>4. TypeOK
  <2>1. /\ live \in [NFs -> Value] /\ seen \in [NFs -> Nat]
        /\ epoch \in [NFs -> Nat] /\ tried \in [NFs -> Nat] /\ sets \in Value
    BY ZeroValue DEF Init
  <2>2. accidents \in 0..MaxAccidents
    BY BoundsAssumption DEF Init
  <2> QED
    BY <1>1, <1>2, <1>3, <2>1, <2>2 DEF Init, TypeOK
<1>5. DeclareComesFirst
  BY DEF Init, DeclareComesFirst
<1> QED
  BY <1>4, <1>5 DEF TypeInv

(* A new epoch is a later number. *)
LEMMA NextEpochType ==
    ASSUME RegistryOK, NEW nf \in NFs
    PROVE  NextEpoch(nf) \in Nat
BY DEF RegistryOK, NextEpoch

(* Forgetting the entry leaves well-typed registry variables. *)
LEMMA ForgetType ==
    ASSUME RegistryOK, Forget
    PROVE  RegistryOK'
<1>1. targets' \in [NFs -> Target] /\ acks' \in [NFs -> Acknowledgement]
  BY TargetFields, AckFields DEF Forget
<1>2. epoch' \in [NFs -> Nat]
  BY NextEpochType DEF Forget
<1> QED
  BY <1>1, <1>2 DEF Forget, RegistryOK

(* Seeding writes declared values with generation 0, or nothing. *)
LEMMA SeedType ==
    ASSUME RegistryOK, NEW nfs \in Inventories, SeedFrom(nfs)
    PROVE  /\ targets' \in [NFs -> Target]
           /\ acks' \in [NFs -> Acknowledgement]
           /\ epoch' \in [NFs -> Nat]
<1>1. \A nf \in DOMAIN nfs : [generation |-> 0, value |-> nfs[nf]] \in Target
  BY InventoryFields, TargetFields
<1>2. targets' \in [NFs -> Target]
  BY <1>1, TargetFields DEF SeedFrom, RegistryOK
<1>3. acks' \in [NFs -> Acknowledgement]
  BY AckFields DEF SeedFrom, RegistryOK
<1>4. epoch' \in [NFs -> Nat]
  BY NextEpochType DEF SeedFrom, RegistryOK
<1> QED
  BY <1>2, <1>3, <1>4

(* What is settled was settled before or is acknowledged now. *)
LEMMA SettledElements ==
    ASSUME NEW v \in SettledSoFar
    PROVE  \/ \E s \in Sessions : v \in settled[s]
           \/ \E nf \in Settled : v = targets[nf].value
<1>1. CASE v \in UNION {settled[s] : s \in Sessions}
  BY <1>1
<1>2. CASE v \in {targets[nf].value : nf \in Settled}
  BY <1>2
<1> QED
  BY <1>1, <1>2 DEF SettledSoFar

(* The values acknowledged when a session is seeded are values. *)
LEMMA SettledType ==
    ASSUME TypeOK, NEW s \in Sessions, FirstDeclare(s)
    PROVE  settled' \in [Sessions -> SUBSET Value]
<1>1. ASSUME NEW v \in SettledSoFar PROVE v \in Value
  <2>1. CASE \E u \in Sessions : v \in settled[u]
    BY <2>1 DEF TypeOK
  <2>2. CASE \E nf \in Settled : v = targets[nf].value
    BY <2>2, TargetFields DEF TypeOK, Settled
  <2> QED
    BY <2>1, <2>2, SettledElements
<1>2. SettledSoFar \in SUBSET Value
  BY <1>1
<1> QED
  BY <1>2 DEF TypeOK, FirstDeclare

(* Taking a frame keeps the queues well typed and the other queues as they *)
(* are.                                                                    *)
LEMMA ReceiveType ==
    ASSUME TypeOK, NEW s \in Sessions, NEW type, Receive(s, type)
    PROVE  /\ toServer' \in [Sessions -> Seq(Frame)]
           /\ Head(toServer[s]) \in Frame
           /\ Head(toServer[s]).type = type
           /\ \A u \in Sessions : u # s => toServer'[u] = toServer[u]
BY HeadTailProperties DEF TypeOK, Receive

(* A handler that waits for its first declare finds one at the head of its *)
(* queue.                                                                  *)
LEMMA FirstDeclareType ==
    ASSUME TypeInv, NEW s \in Sessions, handler[s] = "attached"
    PROVE  /\ toServer[s] # <<>>
           /\ Head(toServer[s]).nfs \in Inventories
<1>1. toServer[s] # <<>> /\ Head(toServer[s]).type = "declare"
  BY DEF TypeInv, DeclareComesFirst
<1>2. Head(toServer[s]) \in Frame
  BY <1>1, HeadTailProperties DEF TypeInv, TypeOK
<1> QED
  BY <1>1, <1>2, FrameFields

-----------------------------------------------------------------------------
(* Every step keeps the types, and keeps the declare of a new session at   *)
(* the head of its queue.                                                  *)
LEMMA StepTypeInv == TypeInv /\ [Next]_vars => TypeInv'
<1> SUFFICES ASSUME TypeInv, [Next]_vars PROVE TypeInv'
  OBVIOUS
<1> USE DEF TypeInv
<1>a. RegistryOK
  BY DEF TypeOK, RegistryOK
<1>b. \A t \in Threads : t \in Pushers
  BY DEF Pushers
<1>c. EventLoop \in Pushers
  BY DEF Pushers
<1>1. ASSUME NEW t \in Threads, NEW nf \in NFs, SetResources(t, nf)
      PROVE  TypeInv'
  <2>1. sets + 1 \in Value
    BY <1>1, BoundsAssumption DEF SetResources, TypeOK, Value
  <2>2. targets' \in [NFs -> Target]
    BY <1>1, <2>1, TargetFields DEF SetResources, TypeOK
  <2>3. acks' \in [NFs -> Acknowledgement]
    BY <1>1, <2>1, AckFields DEF SetResources, TypeOK
  <2>4. pushing' \in [Pushers -> PushStep]
    BY <1>1, <1>b, PushStepFields DEF SetResources, AskPush, TypeOK
  <2> QED
    BY <1>1, <2>1, <2>2, <2>3, <2>4
    DEF SetResources, TypeOK, DeclareComesFirst, wires, agent
<1>2. ASSUME NEW t \in Threads, PushAgain(t) PROVE TypeInv'
  <2>1. pushing' \in [Pushers -> PushStep]
    BY <1>2, <1>b, PushStepFields DEF PushAgain, AskPush, TypeOK
  <2> QED
    BY <1>2, <2>1
    DEF PushAgain, TypeOK, DeclareComesFirst, registry, wires, agent, budget
<1>3. ASSUME NEW t \in Pushers, ReadDesired(t) PROVE TypeInv'
  <2>1. pushing' \in [Pushers -> PushStep]
    BY <1>3, PushStepFields, PayloadFields DEF ReadDesired, TypeOK
  <2> QED
    BY <1>3, <2>1
    DEF ReadDesired, TypeOK, DeclareComesFirst, registry, wires, agent, budget
<1>4. ASSUME NEW t \in Pushers, Enqueue(t) PROVE TypeInv'
  <2>1. pushing' \in [Pushers -> PushStep]
    BY <1>4, PushStepFields DEF Enqueue, TypeOK
  <2>2. pushing[t].payload \in Payload
    BY <1>4, PushStepFields DEF Enqueue, TypeOK
  <2>3. toAgent' \in Seq(Payload)
    BY <1>4, <2>2, AppendProperties DEF Enqueue, TypeOK
  <2> QED
    BY <1>4, <2>1, <2>3
    DEF Enqueue, TypeOK, DeclareComesFirst, registry, agent, budget
<1>5. ASSUME Prune \/ DeleteOperator PROVE TypeInv'
  <2>1. RegistryOK'
    BY <1>5, <1>a, ForgetType DEF Prune, DeleteOperator
  <2>2. accidents' \in 0..MaxAccidents
    BY <1>5, BoundsAssumption DEF Prune, DeleteOperator, Accident, budget, TypeOK
  <2> QED
    BY <1>5, <2>1, <2>2
    DEF Prune, DeleteOperator, TypeOK, RegistryOK, DeclareComesFirst, wires,
        agent, budget
<1>6. ASSUME RestartBackend PROVE TypeInv'
  <2>1. RegistryOK'
    BY <1>6, <1>a, ForgetType DEF RestartBackend
  <2>2. accidents' \in 0..MaxAccidents
    BY <1>6, BoundsAssumption DEF RestartBackend, Accident, TypeOK
  <2>3. pushing' \in [Pushers -> PushStep]
    BY <1>6, PushStepFields DEF RestartBackend
  <2>4. toAgent' \in Seq(Payload) /\ toServer' \in [Sessions -> Seq(Frame)]
    BY <1>6 DEF RestartBackend
  <2>5. /\ handler' \in [Sessions ->
               {"unused", "new", "attached", "declared", "closed"}]
        /\ \A s \in Sessions : handler'[s] \notin {"new", "attached"}
    BY <1>6 DEF RestartBackend
  <2> QED
    BY <1>6, <2>1, <2>2, <2>3, <2>4, <2>5
    DEF RestartBackend, TypeOK, RegistryOK, DeclareComesFirst
<1>7. ASSUME NEW s \in Sessions, Attach(s) PROVE TypeInv'
  BY <1>7
  DEF Attach, TypeOK, DeclareComesFirst, wires, agent, budget
<1>8. ASSUME NEW s \in Sessions, FirstDeclare(s) PROVE TypeInv'
  <2>1. /\ targets' \in [NFs -> Target] /\ acks' \in [NFs -> Acknowledgement]
        /\ epoch' \in [NFs -> Nat]
        /\ settled' \in [Sessions -> SUBSET Value]
    BY <1>8, <1>a, FirstDeclareType, SeedType, SettledType DEF FirstDeclare
  <2>2. toServer' \in [Sessions -> Seq(Frame)]
    BY <1>8, FirstDeclareType, HeadTailProperties DEF FirstDeclare, TypeOK
  <2>3. pushing' \in [Pushers -> PushStep]
    BY <1>8, <1>c, PushStepFields DEF FirstDeclare, AskPush, TypeOK
  <2>4. TypeOK'
    BY <1>8, <2>1, <2>2, <2>3 DEF FirstDeclare, TypeOK, agent, budget
  <2>5. DeclareComesFirst'
    BY <1>8 DEF FirstDeclare, DeclareComesFirst, TypeOK
  <2> QED
    BY <2>4, <2>5
<1>9. ASSUME NEW s \in Sessions, DeclareAgain(s) PROVE TypeInv'
  <2>1. pushing' \in [Pushers -> PushStep]
    BY <1>9, <1>c, PushStepFields DEF DeclareAgain, AskPush, TypeOK
  <2>2. TypeOK'
    BY <1>9, <2>1, ReceiveType DEF DeclareAgain, TypeOK, agent, budget
  <2>3. DeclareComesFirst'
    BY <1>9, ReceiveType DEF DeclareAgain, DeclareComesFirst
  <2> QED
    BY <2>2, <2>3
<1>10. ASSUME NEW s \in Sessions, ReportApply(s) PROVE TypeInv'
  <2> DEFINE frame == Head(toServer[s])
  <2>1. /\ frame.nf \in NFs /\ frame.ok \in BOOLEAN /\ frame.value \in Value
        /\ frame.generation \in Nat /\ frame.epoch \in Nat
    BY <1>10, ReceiveType, FrameFields DEF ReportApply
  <2>2. acks' \in [NFs -> Acknowledgement]
    BY <1>10, <2>1, AckFields DEF ReportApply, TypeOK
  <2>3. TypeOK'
    BY <1>10, <2>2, ReceiveType DEF ReportApply, TypeOK, agent, budget
  <2>4. DeclareComesFirst'
    BY <1>10, ReceiveType DEF ReportApply, DeclareComesFirst
  <2> QED
    BY <2>3, <2>4
<1>11. ASSUME NEW s \in Sessions, Detach(s) PROVE TypeInv'
  <2>1. toServer' \in [Sessions -> Seq(Frame)]
    BY <1>11 DEF Detach, TypeOK
  <2>2. TypeOK'
    BY <1>11, <2>1 DEF Detach, TypeOK, agent, budget
  <2>3. DeclareComesFirst'
    BY <1>11 DEF Detach, DeclareComesFirst, TypeOK
  <2> QED
    BY <2>2, <2>3
<1>12. ASSUME NEW s \in Sessions, Connect(s) PROVE TypeInv'
  <2>1. Declare(Inventory) \in Frame /\ Declare(Inventory).type = "declare"
    BY InventoryType, FrameFields
  <2>2. toServer' \in [Sessions -> Seq(Frame)]
    BY <1>12, <2>1 DEF Connect, TypeOK
  <2>3. TypeOK'
    BY <1>12, <2>2 DEF Connect, TypeOK, registry, budget
  <2>4. /\ toServer'[s] # <<>> /\ Head(toServer'[s]) = Declare(Inventory)
        /\ \A u \in Sessions : u # s => toServer'[u] = toServer[u]
    BY <1>12 DEF Connect, TypeOK
  <2>5. DeclareComesFirst'
    BY <1>12, <2>1, <2>4 DEF Connect, DeclareComesFirst, TypeOK
  <2> QED
    BY <2>3, <2>5
<1>13. ASSUME Disconnect PROVE TypeInv'
  <2>1. toAgent' \in Seq(Payload)
    BY <1>13 DEF Disconnect
  <2> QED
    BY <1>13, <2>1 DEF Disconnect, TypeOK, DeclareComesFirst, registry, budget
<1>14. ASSUME Redeclare PROVE TypeInv'
  <2>1. Declare(Inventory) \in Frame /\ Declare(Inventory).type = "declare"
    BY InventoryType, FrameFields
  <2>2. toServer' \in [Sessions -> Seq(Frame)]
    BY <1>14, <2>1 DEF Redeclare, TypeOK
  <2>3. TypeOK'
    BY <1>14, <2>2 DEF Redeclare, TypeOK, registry, agent, budget
  <2>4. DeclareComesFirst'
    BY <1>14 DEF Redeclare, DeclareComesFirst, TypeOK
  <2> QED
    BY <2>3, <2>4
<1>15. ASSUME NEW nf \in NFs, Apply(nf) PROVE TypeInv'
  <2> DEFINE frame == Head(toAgent)
  <2>1. frame \in Payload
    BY <1>15, HeadTailProperties DEF Apply, TypeOK
  <2>2. /\ frame.targets[nf].generation \in Nat
        /\ frame.targets[nf].value \in Value
        /\ frame.epoch[nf] \in Nat
    BY <2>1, PayloadFields, TargetFields
  <2>3. PICK ok \in BOOLEAN :
          /\ live' = IF ok THEN [live EXCEPT ![nf] = frame.targets[nf].value]
                     ELSE live
          /\ toServer' = [toServer EXCEPT ![session] =
                             Append(@, Report(nf, frame, ok))]
    BY <1>15 DEF Apply
  <2>4. session \in Sessions
    BY <1>15 DEF Apply, TypeOK
  <2>5. Report(nf, frame, ok) \in Frame
    BY <2>1, ReportType
  <2>6. /\ toServer' \in [Sessions -> Seq(Frame)]
        /\ \A u \in Sessions :
              toServer[u] # <<>> =>
                toServer'[u] # <<>> /\ Head(toServer'[u]) = Head(toServer[u])
    BY <2>3, <2>4, <2>5, AppendProperties, HeadTailAppend DEF TypeOK
  <2>7. /\ live' \in [NFs -> Value]
        /\ seen' \in [NFs -> Nat] /\ tried' \in [NFs -> Nat]
    BY <1>15, <2>2, <2>3 DEF Apply, TypeOK
  <2>8. TypeOK'
    BY <1>15, <2>6, <2>7 DEF Apply, TypeOK, registry, budget
  <2>9. DeclareComesFirst'
    BY <1>15, <2>6 DEF Apply, DeclareComesFirst
  <2> QED
    BY <2>8, <2>9
<1>16. ASSUME FinishFrame PROVE TypeInv'
  <2>1. toAgent' \in Seq(Payload)
    BY <1>16, HeadTailProperties DEF FinishFrame, TypeOK
  <2> QED
    BY <1>16, <2>1
    DEF FinishFrame, TypeOK, DeclareComesFirst, registry, agent, budget
<1>17. ASSUME NEW nf \in NFs, Redeploy(nf) PROVE TypeInv'
  <2>1. live' \in [NFs -> Value] /\ deployed' \in SUBSET NFs
    BY <1>17, ZeroValue DEF Redeploy, TypeOK
  <2>2. accidents' \in 0..MaxAccidents
    BY <1>17, BoundsAssumption DEF Redeploy, Accident, TypeOK
  <2> QED
    BY <1>17, <2>1, <2>2
    DEF Redeploy, TypeOK, DeclareComesFirst, registry, wires
<1>18. CASE UNCHANGED vars
  BY <1>18
  DEF vars, TypeOK, DeclareComesFirst, registry, wires, agent, budget
<1> QED
  BY <1>1, <1>2, <1>3, <1>4, <1>5, <1>6, <1>7, <1>8, <1>9, <1>10, <1>11,
     <1>12, <1>13, <1>14, <1>15, <1>16, <1>17, <1>18
  DEF Next, Push, Serve, Work

(* Frames, targets, queues and sessions stay what they are named for. *)
THEOREM Typing == Spec => []TypeOK
<1>1. TypeInv => TypeOK
  BY DEF TypeInv
<1> QED
  BY <1>1, InitTypeInv, StepTypeInv, PTL DEF Spec

-----------------------------------------------------------------------------
(* The bookkeeping of connections.  BindingIsConsistent is inductive given *)
(* the types: a session is bound while it is attached, and only its own    *)
(* handler, which unbinds it, leaves the states it is served in.           *)
LEMMA StepBinding ==
    TypeInv /\ BindingIsConsistent /\ [Next]_vars => BindingIsConsistent'
<1> SUFFICES ASSUME TypeInv, BindingIsConsistent, [Next]_vars
             PROVE  BindingIsConsistent'
  OBVIOUS
<1> USE NoSessionAssumption DEF TypeInv, TypeOK, BindingIsConsistent
<1>1. ASSUME Prune \/ DeleteOperator \/ RestartBackend
      PROVE  BindingIsConsistent'
  BY <1>1 DEF Prune, DeleteOperator, RestartBackend, Forget
<1>2. ASSUME NEW s \in Sessions, Attach(s) PROVE BindingIsConsistent'
  BY <1>2 DEF Attach
<1>3. ASSUME NEW s \in Sessions, FirstDeclare(s) \/ DeclareAgain(s)
      PROVE  BindingIsConsistent'
  BY <1>3 DEF FirstDeclare, DeclareAgain
<1>4. ASSUME NEW s \in Sessions, Detach(s) PROVE BindingIsConsistent'
  BY <1>4 DEF Detach
<1>5. ASSUME NEW s \in Sessions, Connect(s) PROVE BindingIsConsistent'
  BY <1>5 DEF Connect, registry
<1>6. ASSUME UNCHANGED <<known, connected, bound, handler>>
      PROVE  BindingIsConsistent'
  BY <1>6
<1>7. ASSUME NEW t \in Threads, NEW nf \in NFs, SetResources(t, nf)
      PROVE  BindingIsConsistent'
  BY <1>7, <1>6 DEF SetResources
<1>8. ASSUME NEW t \in Pushers, PushAgain(t) \/ ReadDesired(t) \/ Enqueue(t)
      PROVE  BindingIsConsistent'
  BY <1>8, <1>6 DEF PushAgain, ReadDesired, Enqueue, registry
<1>9. ASSUME NEW s \in Sessions, ReportApply(s) PROVE BindingIsConsistent'
  BY <1>9, <1>6 DEF ReportApply
<1>10. ASSUME Disconnect \/ Redeclare \/ FinishFrame PROVE BindingIsConsistent'
  BY <1>10, <1>6 DEF Disconnect, Redeclare, FinishFrame, registry
<1>11. ASSUME NEW nf \in NFs, Apply(nf) \/ Redeploy(nf)
       PROVE  BindingIsConsistent'
  BY <1>11, <1>6 DEF Apply, Redeploy, registry
<1>12. CASE UNCHANGED vars
  BY <1>12, <1>6 DEF vars, registry
<1> QED
  BY <1>1, <1>2, <1>3, <1>4, <1>5, <1>7, <1>8, <1>9, <1>10, <1>11, <1>12
  DEF Next, Push, Serve, Work, Pushers

(* _operators and _ws agree on who is connected. *)
THEOREM Binding == Spec => []BindingIsConsistent
<1>1. Init => BindingIsConsistent
  BY DEF Init, BindingIsConsistent
<1> QED
  BY <1>1, InitTypeInv, StepTypeInv, StepBinding, PTL DEF Spec

-----------------------------------------------------------------------------
(* Generations and values on their way.                                    *)

(* A generation g with value v of epoch e agrees with the target tg of     *)
(* epoch ep: it is not ahead of it, and not at odds with it.               *)
Covers(tg, ep, g, v, e) ==
    /\ e <= ep
    /\ e = ep => /\ g <= tg.generation
                 /\ g = tg.generation /\ g > 0 => v = tg.value

PayloadCovered(p, tgs, eps) ==
    \A nf \in NFs : Covers(tgs[nf], eps[nf], p.targets[nf].generation,
                          p.targets[nf].value, p.epoch[nf])

FrameCovered(f, tgs, eps) ==
    f.type = "report" =>
        Covers(tgs[f.nf], eps[f.nf], f.generation, f.value, f.epoch)

(* Everything on its way to the agent and back, and what has come back, is *)
(* covered by the targets.                                                 *)
TransitCovered(tgs, eps) ==
    /\ \A t \in Pushers :
          pushing[t].step = "read" => PayloadCovered(pushing[t].payload, tgs, eps)
    /\ \A i \in 1..Len(toAgent) : PayloadCovered(toAgent[i], tgs, eps)
    /\ \A s \in Sessions : \A i \in 1..Len(toServer[s]) :
          FrameCovered(toServer[s][i], tgs, eps)
    /\ \A nf \in NFs : Covers(tgs[nf], eps[nf], acks[nf].generation,
                              acks[nf].value, acks[nf].epoch)

IInv == TypeInv /\ TransitCovered(targets, epoch)

(* How a target moves: to a new epoch, to a higher generation, or freely   *)
(* while its generation is 0, which no agent acts on.                      *)
Advances(tg, ep, tg2, ep2) ==
    \/ ep2 > ep
    \/ ep2 = ep /\ (tg2 = tg \/ tg2.generation > tg.generation
                              \/ tg.generation = 0)

(* Moving on covers what was covered before. *)
LEMMA AdvanceCovers ==
    ASSUME NEW tg \in Target, NEW tg2 \in Target, NEW ep \in Nat, NEW ep2 \in Nat,
           NEW g \in Nat, NEW v, NEW e \in Nat,
           Advances(tg, ep, tg2, ep2), Covers(tg, ep, g, v, e)
    PROVE  Covers(tg2, ep2, g, v, e)
BY TargetFields DEF Advances, Covers

(* Generation 0 agrees with every target. *)
LEMMA ZeroCovered ==
    ASSUME NEW tg \in Target, NEW ep \in Nat, NEW v, NEW e \in Nat, e <= ep
    PROVE  Covers(tg, ep, 0, v, e)
BY TargetFields DEF Covers

(* The acknowledged value is the target's when everything is covered. *)
LEMMA CoveredAck == IInv => AckNamesTarget
<1> SUFFICES ASSUME IInv, NEW nf \in NFs,
                    targets[nf].generation > 0,
                    acks[nf].epoch = epoch[nf],
                    acks[nf].generation >= targets[nf].generation
             PROVE  acks[nf].value = targets[nf].value
  BY DEF AckNamesTarget
<1>1. targets[nf].generation \in Nat /\ acks[nf].generation \in Nat
  BY TargetFields, AckFields DEF IInv, TypeInv, TypeOK
<1>2. Covers(targets[nf], epoch[nf], acks[nf].generation, acks[nf].value,
             acks[nf].epoch)
  BY DEF IInv, TransitCovered
<1> QED
  BY <1>1, <1>2 DEF Covers

(* Targets only move on. *)
LEMMA StepAdvances ==
    ASSUME TypeInv, [Next]_vars, NEW nf \in NFs
    PROVE  Advances(targets[nf], epoch[nf], targets'[nf], epoch'[nf])
<1> USE TargetFields DEF TypeInv, TypeOK, Advances
<1>1. ASSUME NEW t \in Threads, NEW n \in NFs, SetResources(t, n)
      PROVE  Advances(targets[nf], epoch[nf], targets'[nf], epoch'[nf])
  BY <1>1 DEF SetResources
<1>2. ASSUME Prune \/ DeleteOperator \/ RestartBackend
      PROVE  Advances(targets[nf], epoch[nf], targets'[nf], epoch'[nf])
  <2>1. epoch'[nf] = NextEpoch(nf)
    BY <1>2 DEF Prune, DeleteOperator, RestartBackend, Forget
  <2> QED
    BY <2>1 DEF NextEpoch
<1>3. ASSUME NEW s \in Sessions, FirstDeclare(s)
      PROVE  Advances(targets[nf], epoch[nf], targets'[nf], epoch'[nf])
  BY <1>3 DEF FirstDeclare, SeedFrom, NextEpoch
<1>4. ASSUME UNCHANGED <<targets, epoch>>
      PROVE  Advances(targets[nf], epoch[nf], targets'[nf], epoch'[nf])
  BY <1>4
<1>5. ASSUME NEW t \in Pushers, PushAgain(t) \/ ReadDesired(t) \/ Enqueue(t)
      PROVE  UNCHANGED <<targets, epoch>>
  BY <1>5 DEF PushAgain, ReadDesired, Enqueue, registry
<1>6. ASSUME NEW s \in Sessions, Attach(s) \/ DeclareAgain(s) \/ ReportApply(s)
                                  \/ Detach(s) \/ Connect(s)
      PROVE  UNCHANGED <<targets, epoch>>
  BY <1>6 DEF Attach, DeclareAgain, ReportApply, Detach, Connect, registry
<1>7. ASSUME Disconnect \/ Redeclare \/ FinishFrame \/ UNCHANGED vars
      PROVE  UNCHANGED <<targets, epoch>>
  BY <1>7 DEF Disconnect, Redeclare, FinishFrame, vars, registry
<1>8. ASSUME NEW n \in NFs, Apply(n) \/ Redeploy(n)
      PROVE  UNCHANGED <<targets, epoch>>
  BY <1>8 DEF Apply, Redeploy, registry
<1> QED
  BY <1>1, <1>2, <1>3, <1>4, <1>5, <1>6, <1>7, <1>8
  DEF Next, Push, Serve, Work, Pushers

(* What is in transit when a step begins is covered when it ends. *)
LEMMA StepCovers ==
    ASSUME IInv, [Next]_vars
    PROVE  TransitCovered(targets', epoch')
<1> USE DEF IInv
<1>0. TypeInv'
  BY StepTypeInv
<1> DEFINE Kept(nf, g, v, e) ==
             Covers(targets[nf], epoch[nf], g, v, e)
               => Covers(targets'[nf], epoch'[nf], g, v, e)
<1>1. \A nf \in NFs, g, e \in Nat, v \in Value : Kept(nf, g, v, e)
  <2> SUFFICES ASSUME NEW nf \in NFs, NEW g \in Nat, NEW e \in Nat,
                      NEW v \in Value,
                      Covers(targets[nf], epoch[nf], g, v, e)
               PROVE  Covers(targets'[nf], epoch'[nf], g, v, e)
    OBVIOUS
  <2>1. /\ targets[nf] \in Target /\ targets'[nf] \in Target
        /\ epoch[nf] \in Nat /\ epoch'[nf] \in Nat
    BY <1>0 DEF TypeInv, TypeOK
  <2>2. Advances(targets[nf], epoch[nf], targets'[nf], epoch'[nf])
    BY StepAdvances
  <2> QED
    BY <2>1, <2>2, AdvanceCovers
<1> HIDE DEF Kept
<1>2. \A p \in Payload : PayloadCovered(p, targets, epoch)
                           => PayloadCovered(p, targets', epoch')
  BY <1>1, PayloadFields, TargetFields DEF PayloadCovered, Kept
<1>3. \A f \in Frame : FrameCovered(f, targets, epoch)
                         => FrameCovered(f, targets', epoch')
  BY <1>1, FrameFields DEF FrameCovered, Kept
<1>4. \A nf \in NFs : Covers(targets'[nf], epoch'[nf], acks[nf].generation,
                             acks[nf].value, acks[nf].epoch)
  BY <1>1, AckFields DEF TransitCovered, Kept, TypeInv, TypeOK
<1>5. \A t \in Pushers : pushing[t].step = "read"
        => PayloadCovered(pushing[t].payload, targets', epoch')
  BY <1>2, PushStepFields DEF TransitCovered, TypeInv, TypeOK
<1>6. \A i \in 1..Len(toAgent) : PayloadCovered(toAgent[i], targets', epoch')
  BY <1>2 DEF TransitCovered, TypeInv, TypeOK
<1>7. \A s \in Sessions : \A i \in 1..Len(toServer[s]) :
        FrameCovered(toServer[s][i], targets', epoch')
  BY <1>3 DEF TransitCovered, TypeInv, TypeOK
<1> QED
  BY <1>4, <1>5, <1>6, <1>7 DEF TransitCovered

(* What a step adds to the transit is covered too: a push reads the        *)
(* targets themselves, a request starts its acknowledgement at generation  *)
(* 0, and a report repeats what its frame says of the NF.                  *)
LEMMA StepIInv == IInv /\ [Next]_vars => IInv'
<1> SUFFICES ASSUME IInv, [Next]_vars PROVE IInv'
  OBVIOUS
<1>0. TypeInv /\ TypeInv'
  BY StepTypeInv DEF IInv
<1> USE <1>0 DEF TypeInv, TypeOK
<1>c. TransitCovered(targets', epoch')
  BY StepCovers
<1> DEFINE Pushes == \A t \in Pushers : pushing'[t].step = "read"
                       => PayloadCovered(pushing'[t].payload, targets', epoch')
           Frames == \A i \in 1..Len(toAgent') :
                       PayloadCovered(toAgent'[i], targets', epoch')
           Reports == \A s \in Sessions : \A i \in 1..Len(toServer'[s]) :
                       FrameCovered(toServer'[s][i], targets', epoch')
           Acks == \A nf \in NFs : Covers(targets'[nf], epoch'[nf],
                       acks'[nf].generation, acks'[nf].value, acks'[nf].epoch)
<1>q. ASSUME Pushes, Frames, Reports, Acks PROVE IInv'
  BY <1>q DEF IInv, TransitCovered
<1>p. ASSUME UNCHANGED pushing PROVE Pushes
  BY <1>c, <1>p DEF TransitCovered
<1>f. ASSUME UNCHANGED toAgent PROVE Frames
  BY <1>c, <1>f DEF TransitCovered
<1>r. ASSUME UNCHANGED toServer PROVE Reports
  BY <1>c, <1>r DEF TransitCovered
<1>a. ASSUME UNCHANGED acks PROVE Acks
  BY <1>c, <1>a DEF TransitCovered
<1>z. ASSUME \A t \in Pushers : pushing'[t] \in {pushing[t], Idle, Asked}
      PROVE  Pushes
  <2>1. Idle.step # "read" /\ Asked.step # "read"
    BY DEF Idle, Asked
  <2> QED
    BY <1>c, <1>z, <2>1 DEF TransitCovered
<1>t. ASSUME toAgent # <<>>, toAgent' = Tail(toAgent) PROVE Frames
  <2>1. \A i \in 1..Len(toAgent') : i + 1 \in 1..Len(toAgent)
                                     /\ toAgent'[i] = toAgent[i + 1]
    BY <1>t, HeadTailProperties
  <2> QED
    BY <1>c, <2>1 DEF TransitCovered
<1>u. ASSUME NEW s \in Sessions, toServer[s] # <<>>,
             toServer' = [toServer EXCEPT ![s] = Tail(@)]
      PROVE  Reports
  <2>1. \A i \in 1..Len(toServer'[s]) : i + 1 \in 1..Len(toServer[s])
                                     /\ toServer'[s][i] = toServer[s][i + 1]
    BY <1>u, HeadTailProperties
  <2>2. \A u \in Sessions : u # s => toServer'[u] = toServer[u]
    BY <1>u
  <2> QED
    BY <1>c, <2>1, <2>2 DEF TransitCovered
<1>d. ASSUME NEW s \in Sessions,
             toServer' = [toServer EXCEPT ![s] = <<Declare(Inventory)>>]
      PROVE  Reports
  <2>1. Declare(Inventory).type # "report"
    BY DEF Declare
  <2>2. \A i \in 1..Len(toServer'[s]) :
          FrameCovered(toServer'[s][i], targets', epoch')
    BY <1>d, <2>1 DEF FrameCovered
  <2>3. \A u \in Sessions : u # s => toServer'[u] = toServer[u]
    BY <1>d
  <2> QED
    BY <1>c, <2>2, <2>3 DEF TransitCovered
<1>e. ASSUME \A nf \in NFs : epoch'[nf] >= 0, Forget PROVE Acks
  BY <1>e DEF Forget, NoAck, NoTarget, Covers
<1> HIDE DEF Pushes, Frames, Reports, Acks
<1>1. ASSUME NEW t \in Threads, NEW nf \in NFs, SetResources(t, nf) PROVE IInv'
  <2>1. Covers(targets'[nf], epoch'[nf], acks'[nf].generation,
               acks'[nf].value, acks'[nf].epoch)
    BY <1>1, ZeroCovered DEF SetResources
  <2>2. \A n \in NFs : n # nf => acks'[n] = acks[n]
    BY <1>1 DEF SetResources
  <2>3. Acks
    BY <1>c, <2>1, <2>2 DEF Acks, TransitCovered
  <2>4. Pushes
    BY <1>1, <1>z DEF SetResources, AskPush, Pushers
  <2> QED
    BY <1>1, <2>3, <2>4, <1>f, <1>r, <1>q DEF SetResources, wires
<1>2. ASSUME NEW t \in Threads, PushAgain(t) PROVE IInv'
  <2>1. Pushes
    BY <1>2, <1>z DEF PushAgain, AskPush, Pushers
  <2> QED
    BY <1>2, <2>1, <1>f, <1>r, <1>a, <1>q DEF PushAgain, wires, registry
<1>3. ASSUME NEW t \in Pushers, ReadDesired(t) PROVE IInv'
  <2>1. PayloadCovered([targets |-> targets, epoch |-> epoch], targets', epoch')
    BY <1>3, TargetFields DEF ReadDesired, registry, PayloadCovered, Covers
  <2>2. Pushes
    BY <1>3, <1>c, <2>1 DEF ReadDesired, Pushes, TransitCovered, Read, Idle
  <2> QED
    BY <1>3, <2>2, <1>f, <1>r, <1>a, <1>q DEF ReadDesired, wires, registry
<1>4. ASSUME NEW t \in Pushers, Enqueue(t) PROVE IInv'
  <2>1. /\ pushing[t].payload \in Payload
        /\ PayloadCovered(pushing[t].payload, targets', epoch')
    BY <1>4, <1>c, PushStepFields DEF Enqueue, TransitCovered
  <2>2. \A i \in 1..Len(toAgent') :
          \/ i \in 1..Len(toAgent) /\ toAgent'[i] = toAgent[i]
          \/ toAgent'[i] = pushing[t].payload
    BY <1>4, <2>1, AppendProperties DEF Enqueue
  <2>3. Frames
    BY <1>c, <2>1, <2>2 DEF Frames, TransitCovered
  <2>4. Pushes
    BY <1>4, <1>z DEF Enqueue
  <2> QED
    BY <1>4, <2>3, <2>4, <1>r, <1>a, <1>q DEF Enqueue, registry
<1>5. ASSUME Prune \/ DeleteOperator PROVE IInv'
  BY <1>5, <1>e, <1>p, <1>f, <1>r, <1>q DEF Prune, DeleteOperator, wires
<1>6. ASSUME RestartBackend PROVE IInv'
  <2>1. Pushes
    BY <1>6, <1>z DEF RestartBackend
  <2>2. Frames /\ Reports
    BY <1>6 DEF RestartBackend, Frames, Reports
  <2> QED
    BY <1>6, <2>1, <2>2, <1>e, <1>q DEF RestartBackend
<1>7. ASSUME NEW s \in Sessions, Attach(s) PROVE IInv'
  BY <1>7, <1>p, <1>f, <1>r, <1>a, <1>q DEF Attach, wires
<1>8. ASSUME NEW s \in Sessions, FirstDeclare(s) PROVE IInv'
  <2>1. toServer[s] # <<>>
    BY <1>8, FirstDeclareType DEF FirstDeclare
  <2>2. Acks
    <3>1. \A n \in NFs : acks'[n] = acks[n] \/ acks'[n] = NoAck
      BY <1>8 DEF FirstDeclare, SeedFrom
    <3>2. \A n \in NFs : Covers(targets'[n], epoch'[n], NoAck.generation,
                               NoAck.value, NoAck.epoch)
      BY ZeroCovered DEF NoAck
    <3> QED
      BY <1>c, <3>1, <3>2 DEF Acks, TransitCovered
  <2>3. Pushes
    BY <1>8, <1>z DEF FirstDeclare, AskPush
  <2> QED
    BY <1>8, <2>1, <2>2, <2>3, <1>f, <1>u, <1>q DEF FirstDeclare
<1>9. ASSUME NEW s \in Sessions, DeclareAgain(s) PROVE IInv'
  <2>1. Pushes
    BY <1>9, <1>z DEF DeclareAgain, AskPush
  <2> QED
    BY <1>9, <2>1, <1>f, <1>u, <1>a, <1>q DEF DeclareAgain, Receive
<1>10. ASSUME NEW s \in Sessions, ReportApply(s) PROVE IInv'
  <2> DEFINE frame == Head(toServer[s])
  <2>1. /\ frame \in Frame /\ frame.type = "report" /\ toServer[s] # <<>>
        /\ frame = toServer[s][1] /\ 1 \in 1..Len(toServer[s])
    BY <1>10, ReceiveType DEF ReportApply, Receive
  <2>2. /\ frame.nf \in NFs
        /\ Covers(targets'[frame.nf], epoch'[frame.nf], frame.generation,
                  frame.value, frame.epoch)
    BY <1>c, <2>1, FrameFields DEF TransitCovered, FrameCovered
  <2>3. \A n \in NFs : n # frame.nf => acks'[n] = acks[n]
    BY <1>10, <2>2 DEF ReportApply
  <2>4. \/ acks'[frame.nf] = acks[frame.nf]
        \/ /\ acks'[frame.nf].generation = frame.generation
           /\ acks'[frame.nf].value = frame.value
           /\ acks'[frame.nf].epoch = frame.epoch
    BY <1>10, <2>2 DEF ReportApply
  <2>5. Acks
    <3>1. \A n \in NFs : \/ acks'[n] = acks[n]
                         \/ /\ n = frame.nf
                            /\ acks'[n].generation = frame.generation
                            /\ acks'[n].value = frame.value
                            /\ acks'[n].epoch = frame.epoch
      BY <2>3, <2>4
    <3>2. \A n \in NFs : Covers(targets'[n], epoch'[n], acks[n].generation,
                               acks[n].value, acks[n].epoch)
      BY <1>c DEF TransitCovered
    <3> HIDE DEF frame
    <3> QED
      BY <2>2, <3>1, <3>2 DEF Acks
  <2> QED
    BY <1>10, <2>1, <2>5, <1>p, <1>f, <1>u, <1>q DEF ReportApply, Receive
<1>11. ASSUME NEW s \in Sessions, Detach(s) PROVE IInv'
  <2>1. Reports
    BY <1>11, <1>c DEF Detach, Reports, TransitCovered
  <2> QED
    BY <1>11, <2>1, <1>p, <1>f, <1>a, <1>q DEF Detach
<1>12. ASSUME NEW s \in Sessions, Connect(s) PROVE IInv'
  BY <1>12, <1>d, <1>p, <1>f, <1>a, <1>q DEF Connect, registry
<1>13. ASSUME Disconnect PROVE IInv'
  <2>1. Frames
    BY <1>13 DEF Disconnect, Frames
  <2> QED
    BY <1>13, <2>1, <1>p, <1>r, <1>a, <1>q DEF Disconnect, registry
<1>14. ASSUME Redeclare PROVE IInv'
  <2>1. session \in Sessions
    BY <1>14 DEF Redeclare
  <2> QED
    BY <1>14, <2>1, <1>d, <1>p, <1>f, <1>a, <1>q DEF Redeclare, registry
<1>15. ASSUME NEW nf \in NFs, Apply(nf) PROVE IInv'
  <2> DEFINE frame == Head(toAgent)
  <2>1. /\ frame \in Payload /\ session \in Sessions
        /\ PayloadCovered(frame, targets', epoch')
    BY <1>15, <1>c, HeadTailProperties DEF Apply, TransitCovered
  <2>2. PICK ok \in BOOLEAN :
          toServer' = [toServer EXCEPT ![session] =
                         Append(@, Report(nf, frame, ok))]
    BY <1>15 DEF Apply
  <2>3. /\ Report(nf, frame, ok) \in Frame
        /\ FrameCovered(Report(nf, frame, ok), targets', epoch')
    BY <2>1, ReportType DEF Report, FrameCovered, PayloadCovered
  <2>4. \A i \in 1..Len(toServer'[session]) :
          \/ /\ i \in 1..Len(toServer[session])
             /\ toServer'[session][i] = toServer[session][i]
          \/ toServer'[session][i] = Report(nf, frame, ok)
    BY <2>1, <2>2, <2>3, AppendProperties
  <2>5. \A u \in Sessions : u # session => toServer'[u] = toServer[u]
    BY <2>2
  <2>6. Reports
    BY <1>c, <2>3, <2>4, <2>5 DEF Reports, TransitCovered
  <2> QED
    BY <1>15, <2>6, <1>p, <1>f, <1>a, <1>q DEF Apply, registry
<1>16. ASSUME FinishFrame PROVE IInv'
  BY <1>16, <1>p, <1>t, <1>r, <1>a, <1>q DEF FinishFrame, registry
<1>17. ASSUME NEW nf \in NFs, Redeploy(nf) PROVE IInv'
  BY <1>17, <1>p, <1>f, <1>r, <1>a, <1>q DEF Redeploy, registry, wires
<1>18. CASE UNCHANGED vars
  BY <1>18, <1>p, <1>f, <1>r, <1>a, <1>q DEF vars, registry, wires
<1> QED
  BY <1>1, <1>2, <1>3, <1>4, <1>5, <1>6, <1>7, <1>8, <1>9, <1>10, <1>11,
     <1>12, <1>13, <1>14, <1>15, <1>16, <1>17, <1>18
  DEF Next, Push, Serve, Work

(* IInv holds in every reachable state. *)
THEOREM Invariance == Spec => []IInv
<1>1. Init => IInv
  <2> SUFFICES ASSUME Init PROVE IInv
    OBVIOUS
  <2>1. TypeInv
    BY InitTypeInv
  <2>2. \A nf \in NFs : Covers(targets[nf], epoch[nf], acks[nf].generation,
                              acks[nf].value, acks[nf].epoch)
    <3> TAKE nf \in NFs
    <3>1. targets[nf] \in Target /\ epoch[nf] = 0
      BY <2>1 DEF Init, TypeInv, TypeOK
    <3>2. acks[nf] = NoAck
      BY DEF Init
    <3>3. NoAck.generation = 0 /\ NoAck.epoch = 0
      BY DEF NoAck
    <3> QED
      BY <3>1, <3>2, <3>3, TargetFields DEF Covers
  <2>3. \A t \in Pushers : pushing[t].step # "read"
    BY DEF Init, Idle
  <2>4. toAgent = <<>> /\ \A s \in Sessions : toServer[s] = <<>>
    BY DEF Init
  <2>5. TransitCovered(targets, epoch)
    BY <2>2, <2>3, <2>4 DEF TransitCovered
  <2> QED
    BY <2>1, <2>5 DEF IInv
<1> QED
  BY <1>1, StepIInv, PTL DEF Spec

(* An acknowledgement that is not older than the target carries its value. *)
THEOREM AcksAreHonest == Spec => []AckNamesTarget
BY Invariance, CoveredAck, PTL

-----------------------------------------------------------------------------
(* A target in flight gives way only to a newer request, to the end of the *)
(* entry, or to a first declare that does not name its NF.                 *)
LEMMA StepInFlight ==
    ASSUME TypeInv, [Next]_vars, NEW nf \in NFs,
           InFlight(nf), targets'[nf] # targets[nf]
    PROVE  \/ sets' > sets
           \/ ~known'
           \/ \E s \in Sessions : /\ handler[s] = "attached"
                                  /\ handler'[s] = "declared"
                                  /\ nf \notin DOMAIN Head(toServer[s]).nfs
<1> USE DEF TypeInv, TypeOK
<1>1. ASSUME NEW t \in Threads, NEW n \in NFs, SetResources(t, n)
      PROVE  sets' > sets
  BY <1>1, BoundsAssumption DEF SetResources, Value
<1>2. ASSUME Prune \/ DeleteOperator \/ RestartBackend PROVE ~known'
  BY <1>2 DEF Prune, DeleteOperator, RestartBackend, Forget
<1>3. ASSUME NEW s \in Sessions, FirstDeclare(s)
      PROVE  /\ handler[s] = "attached" /\ handler'[s] = "declared"
             /\ nf \notin DOMAIN Head(toServer[s]).nfs
  BY <1>3 DEF FirstDeclare, SeedFrom
<1>4. targets' # targets
  OBVIOUS
<1>5. ASSUME NEW t \in Pushers, PushAgain(t) \/ ReadDesired(t) \/ Enqueue(t)
      PROVE  UNCHANGED targets
  BY <1>5 DEF PushAgain, ReadDesired, Enqueue, registry
<1>6. ASSUME NEW s \in Sessions, Attach(s) \/ DeclareAgain(s) \/ ReportApply(s)
                                  \/ Detach(s) \/ Connect(s)
      PROVE  UNCHANGED targets
  BY <1>6 DEF Attach, DeclareAgain, ReportApply, Detach, Connect, registry
<1>7. ASSUME Disconnect \/ Redeclare \/ FinishFrame \/ UNCHANGED vars
      PROVE  UNCHANGED targets
  BY <1>7 DEF Disconnect, Redeclare, FinishFrame, vars, registry
<1>8. ASSUME NEW n \in NFs, Apply(n) \/ Redeploy(n) PROVE UNCHANGED targets
  BY <1>8 DEF Apply, Redeploy, registry
<1> QED
  BY <1>1, <1>2, <1>3, <1>4, <1>5, <1>6, <1>7, <1>8
  DEF Next, Push, Serve, Work, Pushers

(* A set request under way survives reconnects. *)
THEOREM InFlightIsKept == Spec => InFlightSurvives
<1>1. TypeInv /\ [Next]_vars =>
        [\A nf \in NFs :
          InFlight(nf) /\ targets'[nf] # targets[nf]
            => \/ sets' > sets
               \/ ~known'
               \/ \E s \in Sessions : /\ handler[s] = "attached"
                                      /\ handler'[s] = "declared"
                                      /\ nf \notin DOMAIN Head(toServer[s]).nfs]_vars
  BY StepInFlight
<1> QED
  BY <1>1, InitTypeInv, StepTypeInv, PTL DEF Spec, InFlightSurvives

-----------------------------------------------------------------------------
(* No replay.  A request is attempted in a session when a frame with its   *)
(* target is there; it was settled for the session when the session was    *)
(* seeded, if it was acknowledged by then.  The invariant says where a     *)
(* settled request is not: in a target, nor, in the present numbering of   *)
(* its NF, in a push that has read the targets or in a frame.              *)

Unsettled(tgs, values) ==
    \A nf \in NFs : tgs[nf].generation > 0 => tgs[nf].value \notin values

(* Requests are numbered: no two NFs have a target of the same one, those  *)
(* that were never made are not settled, and what is settled is no target. *)
RequestsApart ==
    /\ \A nf \in NFs : targets[nf].generation > 0 => targets[nf].value <= sets
    /\ \A n, m \in NFs :
          /\ targets[n].generation > 0 /\ targets[m].generation > 0
          /\ targets[n].value = targets[m].value
          => n = m
    /\ \A s \in Sessions : \A v \in settled[s] : v <= sets
    /\ \A s \in Sessions : Unsettled(targets, settled[s])

(* What a payload says of an NF was asked for that NF alone, and is not    *)
(* settled while the NF keeps its numbering.                               *)
Fresh(p, tgs, eps, last, done) ==
    \A nf \in NFs : p.targets[nf].generation > 0 =>
        /\ p.targets[nf].value <= last
        /\ \A n \in NFs :
              tgs[n].generation > 0 /\ tgs[n].value = p.targets[nf].value
              => n = nf
        /\ p.epoch[nf] = eps[nf] =>
              \A s \in Sessions : p.targets[nf].value \notin done[s]

FreshNow(p) == Fresh(p, targets, epoch, sets, settled)
FreshNext(p) == Fresh(p, targets', epoch', sets', settled')

PayloadsAreFresh ==
    /\ \A t \in Pushers :
          pushing[t].step = "read" => FreshNow(pushing[t].payload)
    /\ \A i \in 1..Len(toAgent) : FreshNow(toAgent[i])

FreshInv == IInv /\ RequestsApart /\ PayloadsAreFresh

(* A request takes a new number, and what is settled when a session is     *)
(* seeded is acknowledged, while the targets that are kept are not.        *)
LEMMA StepApart ==
    ASSUME TypeInv, RequestsApart, [Next]_vars
    PROVE  RequestsApart'
<1> USE TargetFields DEF TypeInv, TypeOK
<1>1. ASSUME NEW t \in Threads, NEW nf \in NFs, SetResources(t, nf)
      PROVE  RequestsApart'
  <2>1. /\ sets \in Nat /\ sets' = sets + 1 /\ settled' = settled
        /\ \A n \in NFs : n # nf => targets'[n] = targets[n]
        /\ targets'[nf].value = sets + 1
    BY <1>1 DEF SetResources, Value
  <2>2. \A n \in NFs : targets[n].value \in Nat /\ targets[n].generation \in Nat
    BY DEF Value
  <2>3. \A s \in Sessions : settled[s] \subseteq Nat
    BY DEF Value
  <2>4. \A n \in NFs : targets'[n].generation > 0 => targets'[n].value <= sets'
    <3> SUFFICES ASSUME NEW n \in NFs, targets'[n].generation > 0
                 PROVE  targets'[n].value <= sets'
      OBVIOUS
    <3>1. CASE n = nf BY <2>1, <3>1
    <3>2. CASE n # nf
      <4>1. targets[n].value <= sets
        BY <2>1, <3>2 DEF RequestsApart
      <4> QED
        BY <2>1, <2>2, <3>2, <4>1
    <3> QED
      BY <3>1, <3>2
  <2>5. ASSUME NEW n \in NFs, NEW m \in NFs,
               targets'[n].generation > 0, targets'[m].generation > 0,
               targets'[n].value = targets'[m].value
        PROVE  n = m
    <3>1. \A k \in NFs : k # nf /\ targets'[k].generation > 0 =>
            targets'[k] = targets[k] /\ targets'[k].value # sets + 1
      BY <2>1, <2>2 DEF RequestsApart
    <3>2. CASE n = nf \/ m = nf BY <2>1, <2>5, <3>1, <3>2
    <3>3. CASE n # nf /\ m # nf BY <2>5, <3>1, <3>3 DEF RequestsApart
    <3> QED
      BY <3>2, <3>3
  <2>6. \A s \in Sessions : \A v \in settled'[s] : v <= sets'
    BY <2>1, <2>3 DEF RequestsApart
  <2>7. \A s \in Sessions : Unsettled(targets', settled'[s])
    <3> SUFFICES ASSUME NEW s \in Sessions, NEW n \in NFs,
                        targets'[n].generation > 0
                 PROVE  targets'[n].value \notin settled[s]
      BY <2>1 DEF Unsettled
    <3>1. CASE n = nf
      <4>1. sets + 1 \notin settled[s]
        BY <2>1, <2>3 DEF RequestsApart
      <4> QED
        BY <2>1, <3>1, <4>1
    <3>2. CASE n # nf
      BY <2>1, <3>2 DEF RequestsApart, Unsettled
    <3> QED
      BY <3>1, <3>2
  <2> QED
    BY <2>4, <2>5, <2>6, <2>7 DEF RequestsApart
<1>2. ASSUME Prune \/ DeleteOperator \/ RestartBackend PROVE RequestsApart'
  <2>1. /\ sets' = sets /\ settled' = settled
        /\ \A nf \in NFs : targets'[nf] = NoTarget
    BY <1>2 DEF Prune, DeleteOperator, RestartBackend, Forget, budget
  <2>2. NoTarget.generation = 0
    BY DEF NoTarget
  <2> QED
    BY <2>1, <2>2 DEF RequestsApart, Unsettled
<1>3. ASSUME NEW s \in Sessions, FirstDeclare(s) PROVE RequestsApart'
  <2>1. /\ sets' = sets
        /\ \A nf \in NFs : targets'[nf].generation > 0 =>
              /\ targets'[nf] = targets[nf]
              /\ InFlight(nf)
    BY <1>3 DEF FirstDeclare, SeedFrom, NoTarget, budget
  <2>2. \A u \in Sessions : \A v \in settled'[u] :
          \/ \E w \in Sessions : v \in settled[w]
          \/ \E nf \in Settled : v = targets[nf].value
    <3> SUFFICES ASSUME NEW u \in Sessions, NEW v \in settled'[u]
                 PROVE  \/ \E w \in Sessions : v \in settled[w]
                        \/ \E nf \in Settled : v = targets[nf].value
      OBVIOUS
    <3>1. v \in settled[u] \/ v \in SettledSoFar
      BY <1>3 DEF FirstDeclare
    <3> QED
      BY <3>1, SettledElements
  <2>3. ASSUME NEW nf \in Settled
        PROVE  nf \in NFs /\ targets[nf].generation > 0 /\ ~InFlight(nf)
    <3>1. nf \in NFs /\ targets[nf].generation \in 1..acks[nf].generation
      BY DEF Settled
    <3>2. targets[nf].generation \in Nat /\ acks[nf].generation \in Nat
      BY <3>1, AckFields
    <3> QED
      BY <3>1, <3>2 DEF InFlight
  <2>4. ASSUME NEW u \in Sessions, NEW v \in settled'[u] PROVE v <= sets'
    <3>1. CASE \E w \in Sessions : v \in settled[w]
      BY <2>1, <3>1 DEF RequestsApart
    <3>2. CASE \E nf \in Settled : v = targets[nf].value
      BY <2>1, <2>3, <3>2 DEF RequestsApart
    <3> QED
      BY <2>2, <3>1, <3>2
  <2>5. ASSUME NEW u \in Sessions, NEW nf \in NFs, targets'[nf].generation > 0,
               targets'[nf].value \in settled'[u]
        PROVE  FALSE
    <3>1. targets[nf].generation > 0 /\ targets'[nf] = targets[nf] /\ InFlight(nf)
      BY <2>1, <2>5
    <3>2. \A w \in Sessions : targets[nf].value \notin settled[w]
      BY <3>1 DEF RequestsApart, Unsettled
    <3>3. PICK n \in Settled : targets[nf].value = targets[n].value
      BY <2>2, <2>5, <3>1, <3>2
    <3>4. n = nf
      BY <2>3, <3>1, <3>3 DEF RequestsApart
    <3> QED
      BY <2>3, <3>1, <3>4
  <2>6. \A n, m \in NFs :
          /\ targets'[n].generation > 0 /\ targets'[m].generation > 0
          /\ targets'[n].value = targets'[m].value
          => n = m
    BY <2>1 DEF RequestsApart
  <2>7. \A nf \in NFs : targets'[nf].generation > 0 => targets'[nf].value <= sets'
    BY <2>1 DEF RequestsApart
  <2> QED
    BY <2>4, <2>5, <2>6, <2>7 DEF RequestsApart, Unsettled
<1>4. ASSUME UNCHANGED <<targets, sets, settled>> PROVE RequestsApart'
  BY <1>4 DEF RequestsApart, Unsettled
<1>5. ASSUME NEW t \in Pushers, PushAgain(t) \/ ReadDesired(t) \/ Enqueue(t)
      PROVE  UNCHANGED <<targets, sets, settled>>
  BY <1>5 DEF PushAgain, ReadDesired, Enqueue, registry, budget
<1>6. ASSUME NEW s \in Sessions, Attach(s) \/ DeclareAgain(s) \/ ReportApply(s)
                                  \/ Detach(s) \/ Connect(s)
      PROVE  UNCHANGED <<targets, sets, settled>>
  BY <1>6 DEF Attach, DeclareAgain, ReportApply, Detach, Connect, registry, budget
<1>7. ASSUME Disconnect \/ Redeclare \/ FinishFrame \/ UNCHANGED vars
      PROVE  UNCHANGED <<targets, sets, settled>>
  BY <1>7 DEF Disconnect, Redeclare, FinishFrame, vars, registry, budget
<1>8. ASSUME NEW n \in NFs, Apply(n) \/ Redeploy(n)
      PROVE  UNCHANGED <<targets, sets, settled>>
  BY <1>8 DEF Apply, Redeploy, registry, budget
<1> QED
  BY <1>1, <1>2, <1>3, <1>4, <1>5, <1>6, <1>7, <1>8
  DEF Next, Push, Serve, Work, Pushers

(* A payload stays fresh: later requests have later numbers, and a seeding *)
(* that settles the request of an NF restarts its numbering.               *)
LEMMA StepFresh ==
    ASSUME IInv, RequestsApart, [Next]_vars, NEW p \in Payload, FreshNow(p),
           PayloadCovered(p, targets, epoch)
    PROVE  FreshNext(p)
<1> USE DEF IInv, TypeInv, TypeOK
<1> SUFFICES ASSUME NEW nf \in NFs, p.targets[nf].generation > 0
             PROVE  /\ p.targets[nf].value <= sets'
                    /\ \A n \in NFs :
                          /\ targets'[n].generation > 0
                          /\ targets'[n].value = p.targets[nf].value
                          => n = nf
                    /\ p.epoch[nf] = epoch'[nf] =>
                          \A s \in Sessions : p.targets[nf].value \notin settled'[s]
  BY DEF Fresh, FreshNext
<1> DEFINE v == p.targets[nf].value
<1>a. /\ v \in Nat /\ sets \in Nat /\ v <= sets
      /\ \A n \in NFs : targets[n].generation > 0 /\ targets[n].value = v => n = nf
      /\ p.epoch[nf] = epoch[nf] => \A s \in Sessions : v \notin settled[s]
  BY PayloadFields, TargetFields DEF Fresh, FreshNow, Value
<1>b. p.epoch[nf] \in Nat /\ epoch[nf] \in Nat /\ epoch'[nf] \in Nat
  BY PayloadFields, StepTypeInv
<1>c. p.epoch[nf] <= epoch[nf] /\ epoch[nf] <= epoch'[nf]
  <2>1. Advances(targets[nf], epoch[nf], targets'[nf], epoch'[nf])
    <3> HIDE DEF TypeInv, TypeOK
    <3> QED
      BY StepAdvances
  <2> QED
    BY <1>b, <2>1 DEF PayloadCovered, Covers, Advances
<1>d. p.epoch[nf] = epoch'[nf] => epoch'[nf] = epoch[nf] /\ p.epoch[nf] = epoch[nf]
  BY <1>b, <1>c
<1> HIDE DEF v
<1> DEFINE Goal == /\ v <= sets'
                   /\ \A n \in NFs :
                         targets'[n].generation > 0 /\ targets'[n].value = v => n = nf
                   /\ p.epoch[nf] = epoch'[nf] =>
                         \A s \in Sessions : v \notin settled'[s]
<1>1. ASSUME NEW t \in Threads, NEW m \in NFs, SetResources(t, m)
      PROVE  Goal
  <2>1. /\ sets' = sets + 1 /\ settled' = settled
        /\ \A n \in NFs : targets'[n].generation > 0 =>
              targets'[n] = targets[n] \/ targets'[n].value = sets + 1
    BY <1>1 DEF SetResources
  <2>2. v <= sets' /\ v # sets + 1
    BY <1>a, <2>1
  <2>3. \A n \in NFs :
          targets'[n].generation > 0 /\ targets'[n].value = v => n = nf
    BY <1>a, <2>1, <2>2
  <2> QED
    BY <1>a, <1>d, <2>1, <2>2, <2>3
<1>2. ASSUME Prune \/ DeleteOperator \/ RestartBackend PROVE Goal
  <2>1. /\ sets' = sets /\ settled' = settled
        /\ \A n \in NFs : targets'[n].generation = 0
    BY <1>2 DEF Prune, DeleteOperator, RestartBackend, Forget, NoTarget, budget
  <2> QED
    BY <1>a, <1>d, <2>1
<1>3. ASSUME NEW u \in Sessions, FirstDeclare(u) PROVE Goal
  <2>1. /\ sets' = sets
        /\ \A n \in NFs : targets'[n].generation > 0 => targets'[n] = targets[n]
    BY <1>3 DEF FirstDeclare, SeedFrom, NoTarget, budget
  <2>2. ASSUME p.epoch[nf] = epoch'[nf], NEW s \in Sessions, v \in settled'[s]
        PROVE  FALSE
    <3>1. v \notin settled[s] /\ \A w \in Sessions : v \notin settled[w]
      BY <1>a, <1>d, <2>2
    <3>2. v \in SettledSoFar
      BY <1>3, <2>2, <3>1 DEF FirstDeclare
    <3>3. PICK n \in Settled : v = targets[n].value
      BY <3>1, <3>2, SettledElements
    <3>4. /\ n \in NFs /\ targets[n].generation \in 1..acks[n].generation
          /\ targets[n].generation \in Nat /\ acks[n].generation \in Nat
      BY TargetFields, AckFields DEF Settled
    <3>5. targets[n].generation > 0 /\ ~InFlight(n)
      BY <3>4 DEF InFlight
    <3>6. n = nf
      BY <1>a, <3>3, <3>4, <3>5
    <3>7. epoch'[nf] = epoch[nf] + 1
      BY <1>3, <3>4, <3>5, <3>6 DEF FirstDeclare, SeedFrom, NextEpoch
    <3> QED
      BY <1>b, <1>d, <2>2, <3>7
  <2> QED
    BY <1>a, <2>1, <2>2
<1>4. ASSUME UNCHANGED <<targets, sets, settled>> PROVE Goal
  BY <1>4, <1>a, <1>d
<1>5. ASSUME NEW t \in Pushers, PushAgain(t) \/ ReadDesired(t) \/ Enqueue(t)
      PROVE  UNCHANGED <<targets, sets, settled>>
  BY <1>5 DEF PushAgain, ReadDesired, Enqueue, registry, budget
<1>6. ASSUME NEW s \in Sessions, Attach(s) \/ DeclareAgain(s) \/ ReportApply(s)
                                  \/ Detach(s) \/ Connect(s)
      PROVE  UNCHANGED <<targets, sets, settled>>
  BY <1>6 DEF Attach, DeclareAgain, ReportApply, Detach, Connect, registry, budget
<1>7. ASSUME Disconnect \/ Redeclare \/ FinishFrame \/ UNCHANGED vars
      PROVE  UNCHANGED <<targets, sets, settled>>
  BY <1>7 DEF Disconnect, Redeclare, FinishFrame, vars, registry, budget
<1>8. ASSUME NEW n \in NFs, Apply(n) \/ Redeploy(n)
      PROVE  UNCHANGED <<targets, sets, settled>>
  BY <1>8 DEF Apply, Redeploy, registry, budget
<1>9. Goal
  <2> HIDE DEF Goal
  <2> QED
    BY <1>1, <1>2, <1>3, <1>4, <1>5, <1>6, <1>7, <1>8
    DEF Next, Push, Serve, Work, Pushers
<1> QED
  BY <1>9 DEF v

(* What a push reads is as fresh as the targets.                           *)
LEMMA ReadIsFresh ==
    ASSUME TypeInv, RequestsApart
    PROVE  FreshNow([targets |-> targets, epoch |-> epoch])
BY DEF RequestsApart, Unsettled, Fresh, FreshNow

(* A push under way is an earlier one or has just read the targets.        *)
LEMMA PushOrigin ==
    ASSUME TypeInv, [Next]_vars, NEW t \in Pushers, pushing'[t].step = "read"
    PROVE  \/ pushing'[t] = pushing[t]
           \/ /\ pushing'[t].payload = [targets |-> targets, epoch |-> epoch]
              /\ UNCHANGED <<targets, epoch, sets, settled>>
<1> USE DEF TypeInv, TypeOK
<1>a. Idle.step # "read" /\ Asked.step # "read"
  BY DEF Idle, Asked
<1>1. ASSUME NEW u \in Pushers, ReadDesired(u)
      PROVE  \/ pushing'[t] = pushing[t]
             \/ /\ pushing'[t].payload = [targets |-> targets, epoch |-> epoch]
                /\ UNCHANGED <<targets, epoch, sets, settled>>
  BY <1>1, <1>a DEF ReadDesired, Read, registry, budget
<1>2. ASSUME NEW u \in Threads, NEW nf \in NFs, SetResources(u, nf)
      PROVE  pushing'[t] = pushing[t]
  BY <1>2, <1>a DEF SetResources, AskPush, Pushers
<1>3. ASSUME NEW u \in Pushers, PushAgain(u) \/ Enqueue(u)
      PROVE  pushing'[t] = pushing[t]
  BY <1>3, <1>a DEF PushAgain, Enqueue, AskPush
<1>4. ASSUME Prune \/ DeleteOperator \/ RestartBackend \/ Disconnect
             \/ Redeclare \/ FinishFrame \/ UNCHANGED vars
      PROVE  pushing'[t] = pushing[t]
  BY <1>4, <1>a DEF Prune, DeleteOperator, RestartBackend, Disconnect, Redeclare,
                    FinishFrame, vars
<1>5. ASSUME NEW s \in Sessions, Attach(s) \/ FirstDeclare(s) \/ DeclareAgain(s)
                                  \/ ReportApply(s) \/ Detach(s) \/ Connect(s)
      PROVE  pushing'[t] = pushing[t]
  BY <1>5, <1>a DEF Attach, FirstDeclare, DeclareAgain, ReportApply, Detach,
                    Connect, AskPush
<1>6. ASSUME NEW n \in NFs, Apply(n) \/ Redeploy(n)
      PROVE  pushing'[t] = pushing[t]
  BY <1>6 DEF Apply, Redeploy
<1> QED
  BY <1>1, <1>2, <1>3, <1>4, <1>5, <1>6 DEF Next, Push, Serve, Work, Pushers

(* A queued frame is an earlier one or was read by the push that ends.     *)
LEMMA FrameOrigin ==
    ASSUME TypeInv, [Next]_vars, NEW i \in 1..Len(toAgent')
    PROVE  \/ \E j \in 1..Len(toAgent) : toAgent'[i] = toAgent[j]
           \/ \E t \in Pushers : /\ pushing[t].step = "read"
                                 /\ toAgent'[i] = pushing[t].payload
<1> USE DEF TypeInv, TypeOK
<1> DEFINE Goal == \/ \E j \in 1..Len(toAgent) : toAgent'[i] = toAgent[j]
                   \/ \E t \in Pushers : /\ pushing[t].step = "read"
                                         /\ toAgent'[i] = pushing[t].payload
<1>a. ASSUME UNCHANGED toAgent PROVE Goal
  BY <1>a
<1>b. ASSUME toAgent' = <<>> PROVE Goal
  BY <1>b
<1>1. ASSUME NEW t \in Pushers, Enqueue(t) PROVE Goal
  <2>1. CASE bound # NoSession /\ bound = session
    <3> DEFINE p == pushing[t].payload
    <3>1. toAgent' = Append(toAgent, p) /\ p \in Payload /\ pushing[t].step = "read"
      BY <1>1, <2>1, PushStepFields DEF Enqueue
    <3>2. toAgent \in Seq(Payload)
      OBVIOUS
    <3> HIDE DEF p
    <3>3. \/ i \in 1..Len(toAgent) /\ toAgent'[i] = toAgent[i]
          \/ toAgent'[i] = p
      BY <3>1, <3>2, AppendProperties
    <3> QED
      BY <3>1, <3>3 DEF p
  <2>2. CASE ~(bound # NoSession /\ bound = session)
    BY <1>1, <2>2, <1>a DEF Enqueue
  <2> QED
    BY <2>1, <2>2
<1>2. ASSUME FinishFrame PROVE Goal
  <2>1. i + 1 \in 1..Len(toAgent) /\ toAgent'[i] = toAgent[i + 1]
    BY <1>2, HeadTailProperties DEF FinishFrame
  <2> QED
    BY <2>1
<1>3. ASSUME RestartBackend \/ Disconnect PROVE Goal
  BY <1>3, <1>b DEF RestartBackend, Disconnect
<1>4. ASSUME NEW t \in Threads, NEW nf \in NFs, SetResources(t, nf)
      PROVE  UNCHANGED toAgent
  BY <1>4 DEF SetResources, wires
<1>5. ASSUME NEW t \in Pushers, PushAgain(t) \/ ReadDesired(t)
      PROVE  UNCHANGED toAgent
  BY <1>5 DEF PushAgain, ReadDesired, wires
<1>6. ASSUME Prune \/ DeleteOperator \/ Redeclare \/ UNCHANGED vars
      PROVE  UNCHANGED toAgent
  BY <1>6 DEF Prune, DeleteOperator, Redeclare, vars, wires
<1>7. ASSUME NEW s \in Sessions, Attach(s) \/ FirstDeclare(s) \/ DeclareAgain(s)
                                  \/ ReportApply(s) \/ Detach(s) \/ Connect(s)
      PROVE  UNCHANGED toAgent
  BY <1>7 DEF Attach, FirstDeclare, DeclareAgain, ReportApply, Detach, Connect, wires
<1>8. ASSUME NEW n \in NFs, Apply(n) \/ Redeploy(n)
      PROVE  UNCHANGED toAgent
  BY <1>8 DEF Apply, Redeploy, wires
<1>9. Goal
  <2> HIDE DEF Goal
  <2> QED
    BY <1>a, <1>1, <1>2, <1>3, <1>4, <1>5, <1>6, <1>7, <1>8
    DEF Next, Push, Serve, Work, Pushers
<1> QED
  BY <1>9

(* Payloads are fresh wherever they are. *)
LEMMA StepPayloads ==
    ASSUME FreshInv, [Next]_vars
    PROVE  PayloadsAreFresh'
<1> USE DEF FreshInv, IInv
<1>1. \A p \in Payload :
        FreshNow(p) /\ PayloadCovered(p, targets, epoch) => FreshNext(p)
  BY StepFresh
<1>2. ASSUME NEW t \in Pushers, pushing[t].step = "read"
      PROVE  FreshNext(pushing[t].payload)
  <2>1. pushing[t].payload \in Payload
    BY <1>2, PushStepFields DEF TypeInv, TypeOK
  <2>2. /\ FreshNow(pushing[t].payload)
        /\ PayloadCovered(pushing[t].payload, targets, epoch)
    BY <1>2 DEF PayloadsAreFresh, TransitCovered
  <2> QED
    BY <2>1, <2>2, <1>1
<1>3. ASSUME NEW i \in 1..Len(toAgent) PROVE FreshNext(toAgent[i])
  <2>1. toAgent[i] \in Payload
    BY DEF TypeInv, TypeOK
  <2>2. FreshNow(toAgent[i]) /\ PayloadCovered(toAgent[i], targets, epoch)
    BY DEF PayloadsAreFresh, TransitCovered
  <2> QED
    BY <2>1, <2>2, <1>1
<1>4. ASSUME NEW t \in Pushers, pushing'[t].step = "read"
      PROVE  FreshNext(pushing'[t].payload)
  <2>1. CASE pushing'[t] = pushing[t]
    BY <1>2, <1>4, <2>1
  <2>2. CASE /\ pushing'[t].payload = [targets |-> targets, epoch |-> epoch]
             /\ UNCHANGED <<targets, epoch, sets, settled>>
    BY <2>2, ReadIsFresh DEF FreshNow, FreshNext
  <2> QED
    BY <1>4, <2>1, <2>2, PushOrigin
<1>5. ASSUME NEW i \in 1..Len(toAgent') PROVE FreshNext(toAgent'[i])
  BY <1>2, <1>3, FrameOrigin
<1> QED
  BY <1>4, <1>5 DEF PayloadsAreFresh, FreshNow, FreshNext

(* Only an attempt raises what the agent has seen, and what it attempts is *)
(* in the frame it reads.                                                  *)
LEMMA StepAttempt ==
    ASSUME FreshInv, [Next]_vars, NEW nf \in NFs, Replays(nf)
    PROVE  Head(toAgent).epoch[nf] # epoch[nf]
<1> USE DEF FreshInv, IInv, TypeInv, TypeOK, Replays
<1>1. ASSUME NEW n \in NFs, Apply(n)
      PROVE  Head(toAgent).epoch[nf] # epoch[nf]
  <2>1. /\ toAgent # <<>> /\ Head(toAgent) \in Payload
        /\ Head(toAgent) = toAgent[1] /\ 1 \in 1..Len(toAgent)
    BY <1>1, HeadTailProperties DEF Apply
  <2>2. seen[nf] \in Nat /\ Head(toAgent).targets[nf].generation \in Nat
    BY <2>1, PayloadFields, TargetFields
  <2>3. Head(toAgent).targets[nf].generation > seen[nf]
    BY <1>1, <2>2 DEF Apply
  <2>4. Head(toAgent).targets[nf].generation > 0 /\ session \in Sessions
    BY <1>1, <2>2, <2>3 DEF Apply
  <2>5. FreshNow(Head(toAgent))
    BY <2>1 DEF PayloadsAreFresh
  <2> QED
    BY <2>4, <2>5 DEF Fresh, FreshNow
<1>2. ASSUME UNCHANGED seen PROVE FALSE
  BY <1>2
<1>3. ASSUME NEW s \in Sessions, Connect(s) PROVE FALSE
  BY <1>3 DEF Connect
<1>4. ASSUME NEW t \in Threads, NEW n \in NFs, SetResources(t, n)
      PROVE  UNCHANGED seen
  BY <1>4 DEF SetResources, agent
<1>5. ASSUME NEW t \in Pushers, PushAgain(t) \/ ReadDesired(t) \/ Enqueue(t)
      PROVE  UNCHANGED seen
  BY <1>5 DEF PushAgain, ReadDesired, Enqueue, agent
<1>6. ASSUME NEW s \in Sessions, Attach(s) \/ FirstDeclare(s) \/ DeclareAgain(s)
                                  \/ ReportApply(s) \/ Detach(s)
      PROVE  UNCHANGED seen
  BY <1>6 DEF Attach, FirstDeclare, DeclareAgain, ReportApply, Detach, agent
<1>7. ASSUME Prune \/ DeleteOperator \/ RestartBackend \/ Disconnect
             \/ Redeclare \/ FinishFrame \/ UNCHANGED vars
      PROVE  UNCHANGED seen
  BY <1>7 DEF Prune, DeleteOperator, RestartBackend, Disconnect, Redeclare,
              FinishFrame, vars, agent
<1>8. ASSUME NEW n \in NFs, Redeploy(n) PROVE UNCHANGED seen
  BY <1>8 DEF Redeploy
<1> QED
  BY <1>1, <1>2, <1>3, <1>4, <1>5, <1>6, <1>7, <1>8
  DEF Next, Push, Serve, Work, Pushers

(* A reconnect replays nothing that was acknowledged when its session was  *)
(* seeded, except from a push that had read the targets before: for any    *)
(* numbers of sessions, NFs and threads.                                   *)
THEOREM NothingIsReplayed == Spec => NoReplay
<1>1. Init => RequestsApart /\ PayloadsAreFresh
  BY DEF Init, RequestsApart, Unsettled, NoTarget, PayloadsAreFresh, Idle
<1>2. FreshInv /\ [Next]_vars => RequestsApart' /\ PayloadsAreFresh'
  BY StepApart, StepPayloads DEF FreshInv, IInv
<1>3. FreshInv /\ [Next]_vars =>
        [\A nf \in NFs : Replays(nf) => Head(toAgent).epoch[nf] # epoch[nf]]_vars
  BY StepAttempt
<1>4. IInv /\ RequestsApart /\ PayloadsAreFresh <=> FreshInv
  BY DEF FreshInv
<1> QED
  BY <1>1, <1>2, <1>3, <1>4, Invariance, PTL DEF Spec, NoReplay
=============================================================================
