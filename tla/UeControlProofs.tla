---------------------------- MODULE UeControlProofs ----------------------------
(* Proofs about UeControl: what the user was answered stays in force, and  *)
(* the registry with its agent implements UeReconciliation.                *)
EXTENDS UeControl, SequenceTheorems, TLAPS

-----------------------------------------------------------------------------
(* The sets the variables range over.                                      *)

LEMMA Configs == Local \in Config /\ Default \in Config
BY DEF Local, Default, Config, Values

LEMMA Bounds == MaxSets \in Nat /\ MaxDeletes \in Nat /\ MaxCrashes \in Nat
BY BoundsAssumption

LEMMA StateFields ==
    /\ NoDesired \in States
    /\ \A d \in States :
        d.generation \in 0..MaxSets /\ d.conf \in Config /\ d.on \in BOOLEAN
    /\ \A g \in 0..MaxSets, c \in Config, on \in BOOLEAN :
        /\ Desired(g, c, on) \in States
        /\ Desired(g, c, on).generation = g
        /\ Desired(g, c, on).conf = c
        /\ Desired(g, c, on).on = on
BY Configs, Bounds DEF States, Desired, NoDesired

LEMMA NoDesiredFields == NoDesired.generation = 0 /\ NoDesired.conf = Default
BY DEF NoDesired, Desired

LEMMA PushFields ==
    /\ Idle \in Pushes /\ Asked \in Pushes
    /\ Idle.step = "idle" /\ Asked.step = "asked" /\ Idle # Asked
    /\ \A frame \in States, to \in Sessions :
        /\ Read(frame, to) \in Pushes
        /\ Read(frame, to).step = "read"
        /\ Read(frame, to).frame = frame
    /\ \A p \in Pushes : p.step = "read" => p.frame \in States /\ p.to \in Sessions
BY DEF Pushes, Idle, Asked, Read

LEMMA DeclarationFields ==
    ASSUME TypeOK
    PROVE  /\ Declaration \in Declarations
           /\ Declaration.conf = config
BY DEF Declaration, Declarations, TypeOK

(* A seed is a state of the declared generation 0, or one already held.    *)
LEMMA SeededType ==
    ASSUME TypeOK, NEW d \in Declarations
    PROVE  /\ Seeded(d) \in States
           /\ desired.generation > 0 => Seeded(d) = desired
           /\ ~(desired.generation > 0) /\ cache.generation > 0 => Seeded(d) = cache
           /\ ~(desired.generation > 0) /\ ~(cache.generation > 0) =>
                Seeded(d).generation = 0 /\ Seeded(d).conf = d.conf
<1>1. /\ desired.generation \in Nat /\ cache.generation \in Nat
      /\ d.conf \in Config /\ d.on \in BOOLEAN /\ 0 \in 0..MaxSets
  <2>1. desired \in States /\ cache \in States
    BY DEF TypeOK
  <2>2. desired.generation \in 0..MaxSets /\ cache.generation \in 0..MaxSets
    BY <2>1, StateFields
  <2>3. d.conf \in Config /\ d.on \in BOOLEAN
    BY DEF Declarations
  <2> QED BY <2>2, <2>3, Bounds
<1>2. desired.generation > 0 => Seeded(d) = desired
  BY <1>1 DEF Seeded
<1>3. ~(desired.generation > 0) /\ cache.generation > 0 => Seeded(d) = cache
  BY <1>1 DEF Seeded
<1>4. ~(desired.generation > 0) /\ ~(cache.generation > 0)
        => Seeded(d) = Desired(0, d.conf, d.on)
  BY <1>1 DEF Seeded
<1>5. /\ Desired(0, d.conf, d.on) \in States
      /\ Desired(0, d.conf, d.on).generation = 0
      /\ Desired(0, d.conf, d.on).conf = d.conf
  BY <1>1, StateFields
<1>6. CASE desired.generation > 0 BY <1>2, <1>6 DEF TypeOK
<1>7. CASE ~(desired.generation > 0) /\ cache.generation > 0
  BY <1>3, <1>7 DEF TypeOK
<1>8. CASE ~(desired.generation > 0) /\ ~(cache.generation > 0)
  BY <1>4, <1>5, <1>8
<1> QED
  BY <1>6, <1>7, <1>8

LEMMA MergedType ==
    ASSUME TypeOK, NEW named, NEW value \in Values
    PROVE  Merged(named, value) \in Config
BY StateFields DEF TypeOK, Merged, Config

-----------------------------------------------------------------------------
(* The inductive invariant.                                                *)

(* A generation counts the requests since its numbering began.             *)
Counted == desired.generation <= sets /\ cache.generation <= sets

(* What is no entry wants nothing, and an entry that is made is blank.     *)
Unknown == ~known => desired = NoDesired

TypeInv == TypeOK /\ Counted /\ Unknown

FrameOf(confs) == {d \in States : d.conf \in confs}
DeclarationOf(confs) == {d \in Declarations : d.conf \in confs}

(* Every configuration that can reach the agent or be merged over is one   *)
(* the agent has of its own or the user was answered, or the defaults when *)
(* a push has read them: in an entry that is not blank, read by a thread,  *)
(* queued, or reported.                                                    *)
Sources ==
    /\ Local \in legitimate
    /\ config \in legitimate
    /\ cache.generation > 0 => cache.conf \in legitimate
    /\ known /\ ~Blank => desired.conf \in legitimate
    /\ \A t \in Pushers : pushing[t].step = "read" => pushing[t].frame.conf \in legitimate
    /\ toAgent \in Seq(FrameOf(legitimate))
    /\ \A s \in Sessions : declares[s] \in Seq(DeclarationOf(legitimate))

(* A request's answer: the next generation, over what was desired.         *)
LEMMA AnswerType ==
    ASSUME TypeInv, NEW t \in Threads, NEW named, NEW action,
           SetDesired(t, named, action), action \in {"set", "start", "stop"}
    PROVE  /\ desired' \in States
           /\ desired'.generation > 0
           /\ desired'.generation <= sets'
           /\ desired'.conf = Merged(named, sets + 1)
           /\ desired'.conf \in Config
           /\ sets + 1 \in Values
           /\ sets' = sets + 1 /\ sets' \in 0..MaxSets
<1>1. PICK n : n = sets + 1
  OBVIOUS
<1>2. PICK g : g = desired.generation + 1
  OBVIOUS
<1>3. /\ n \in 1..MaxSets /\ g \in 0..MaxSets
      /\ g > 0 /\ g <= n
  <2>1. desired.generation \in 0..MaxSets /\ desired.generation <= sets
    BY StateFields DEF TypeInv, TypeOK, Counted
  <2>2. sets \in 0..MaxSets /\ sets < MaxSets
    BY DEF TypeInv, TypeOK, SetDesired
  <2> QED BY <1>1, <1>2, <2>1, <2>2, Bounds
<1>4. n \in Values
  BY <1>3 DEF Values
<1>5. PICK c : c = Merged(named, n)
  OBVIOUS
<1>6. c \in Config
  BY <1>4, <1>5, MergedType DEF TypeInv
<1>7. PICK on : on = On(action, named)
  OBVIOUS
<1>8. on \in BOOLEAN
  BY <1>7, StateFields DEF On, TypeInv, TypeOK
<1>9. desired' = Desired(g, c, on) /\ sets' = n
  BY <1>1, <1>2, <1>5, <1>7 DEF SetDesired
<1> QED
  BY <1>1, <1>3, <1>4, <1>5, <1>6, <1>8, <1>9, StateFields

(* What a declare leaves: the state in force, or a seed.                   *)
LEMMA RegisterType ==
    ASSUME TypeInv, NEW s \in Sessions, Register(s)
    PROVE  /\ Head(declares[s]) \in Declarations
           /\ desired' = Seeded(Head(declares[s]))
           /\ desired' \in States /\ cache' \in States
           /\ desired'.generation <= sets /\ cache'.generation <= sets
           /\ declares' \in [Sessions -> Seq(Declarations)]
<1>1. declares[s] \in Seq(Declarations) /\ declares[s] # <<>>
  BY DEF TypeInv, TypeOK, Register
<1>2. Head(declares[s]) \in Declarations /\ Tail(declares[s]) \in Seq(Declarations)
  BY <1>1, HeadTailProperties
<1>3. PICK d : d = Head(declares[s])
  OBVIOUS
<1>4. PICK x : x = Seeded(d)
  OBVIOUS
<1>5. /\ x \in States
      /\ x.generation <= sets
  <2>1. x = desired \/ x = cache \/ x.generation = 0
    BY <1>2, <1>3, <1>4, SeededType DEF TypeInv
  <2>2. x \in States
    BY <1>2, <1>3, <1>4, SeededType DEF TypeInv
  <2> QED
    BY <2>1, <2>2, Bounds DEF TypeInv, Counted, TypeOK
<1>6. desired' = x /\ cache' = IF x.generation > 0 THEN x ELSE cache
  BY <1>3, <1>4 DEF Register
<1> QED
  BY <1>2, <1>3, <1>4, <1>5, <1>6 DEF TypeInv, TypeOK, Counted, Register

LEMMA InitType == Init => TypeInv
<1> SUFFICES ASSUME Init PROVE TypeInv
  OBVIOUS
<1>1. /\ desired \in States /\ cache \in States
      /\ desired.generation = 0 /\ cache.generation = 0
  BY StateFields, NoDesiredFields DEF Init
<1>2. pushing \in [Pushers -> Pushes]
  BY PushFields DEF Init
<1>3. toAgent \in Seq(States) /\ declares \in [Sessions -> Seq(Declarations)]
  BY DEF Init
<1>4. config \in Config /\ legitimate \subseteq Config
  BY Configs DEF Init
<1>5. applied \in 0..MaxSets /\ sets \in 0..MaxSets /\ deletes \in 0..MaxDeletes
      /\ crashes \in 0..MaxCrashes
  BY Bounds DEF Init
<1>6. Counted
  BY <1>1 DEF Init, Counted
<1> QED
  BY <1>1, <1>2, <1>3, <1>4, <1>5, <1>6 DEF Init, TypeInv, TypeOK, Unknown

-----------------------------------------------------------------------------
(* Types.                                                                  *)

LEMMA TypeStep == TypeInv /\ [Next]_vars => TypeInv'
<1> SUFFICES ASSUME TypeInv, [Next]_vars PROVE TypeInv'
  OBVIOUS
<1> USE DEF TypeInv, Counted, Unknown, budget, agent, registry
<1>1. ASSUME NEW t \in Threads, NEW r \in Requests, SetDesired(t, r[1], r[2])
      PROVE  TypeInv'
  <2>1. PICK named, action : named = r[1] /\ action = r[2]
    OBVIOUS
  <2>2. action \in {"set", "start", "stop"} /\ SetDesired(t, named, action)
    BY <1>1, <2>1, RequestsAssumption
  <2>3. /\ desired' \in States /\ desired'.generation <= sets'
        /\ desired'.conf \in Config /\ sets' \in 0..MaxSets
    BY <2>2, AnswerType
  <2>4. cache' = desired' /\ legitimate' = legitimate \cup {desired'.conf}
    BY <2>2 DEF SetDesired
  <2>5. pushing' \in [Pushers -> Pushes]
    BY <2>2, PushFields DEF SetDesired, TypeOK, Pushers
  <2> QED
    BY <2>2, <2>3, <2>4, <2>5 DEF SetDesired, TypeOK
<1>2. ASSUME NEW t \in Pushers, ReadDesired(t) PROVE TypeInv'
  <2>1. pushing' \in [Pushers -> Pushes]
    BY <1>2, PushFields DEF ReadDesired, TypeOK
  <2>2. legitimate' \subseteq Config
    BY <1>2, Configs DEF ReadDesired, TypeOK
  <2> QED BY <1>2, <2>1, <2>2 DEF ReadDesired, TypeOK
<1>3. ASSUME NEW t \in Pushers, Enqueue(t) PROVE TypeInv'
  <2>1. pushing[t].frame \in States
    BY <1>3, PushFields DEF Enqueue, TypeOK
  <2>2. toAgent' \in Seq(States)
    BY <1>3, <2>1, AppendProperties DEF Enqueue, TypeOK
  <2>3. pushing' \in [Pushers -> Pushes]
    BY <1>3, PushFields DEF Enqueue, TypeOK
  <2> QED BY <1>3, <2>2, <2>3 DEF Enqueue, TypeOK
<1>4. CASE Prune
  <2>1. /\ desired' \in States /\ cache' \in States
        /\ desired'.generation <= sets /\ cache'.generation <= sets
    BY <1>4, StateFields, NoDesiredFields, Bounds DEF Prune, TypeOK
  <2> QED BY <1>4, <2>1 DEF Prune, TypeOK
<1>5. CASE DeleteUe
  <2>1. /\ desired' \in States /\ cache' \in States
        /\ desired'.generation <= sets /\ cache'.generation <= sets
    BY <1>5, StateFields, NoDesiredFields, Bounds DEF DeleteUe, TypeOK
  <2>2. deletes' \in 0..MaxDeletes
    BY <1>5, Bounds DEF DeleteUe, TypeOK
  <2> QED BY <1>5, <2>1, <2>2 DEF DeleteUe, TypeOK
<1>6. CASE RestartBackend
  <2>1. /\ desired' \in States /\ cache' \in States
        /\ desired'.generation <= sets /\ cache'.generation <= sets
    BY <1>6, StateFields, NoDesiredFields, Bounds DEF RestartBackend, TypeOK
  <2>2. crashes' \in 0..MaxCrashes
    BY <1>6, Bounds DEF RestartBackend, TypeOK
  <2>3. pushing' \in [Pushers -> Pushes]
    BY <1>6, PushFields DEF RestartBackend
  <2>4. toAgent' \in Seq(States) /\ declares' \in [Sessions -> Seq(Declarations)]
    BY <1>6 DEF RestartBackend
  <2>5. handler' \in [Sessions -> {"unused", "attached", "serving", "gone"}]
    BY <1>6 DEF RestartBackend
  <2> QED BY <1>6, <2>1, <2>2, <2>3, <2>4, <2>5 DEF RestartBackend, TypeOK
<1>7. ASSUME NEW s \in Sessions, Attach(s) PROVE TypeInv'
  BY <1>7 DEF Attach, TypeOK
<1>8. ASSUME NEW s \in Sessions, Register(s) PROVE TypeInv'
  <2>1. pushing' \in [Pushers -> Pushes]
    BY <1>8, PushFields DEF Register, TypeOK, Pushers
  <2> QED BY <1>8, <2>1, RegisterType DEF Register, TypeOK
<1>9. ASSUME NEW s \in Sessions, Detach(s) PROVE TypeInv'
  <2>1. declares' \in [Sessions -> Seq(Declarations)]
    BY <1>9 DEF Detach, TypeOK
  <2> QED BY <1>9, <2>1 DEF Detach, TypeOK
<1>10. ASSUME NEW s \in Sessions, Connect(s) PROVE TypeInv'
  <2>1. <<Declaration>> \in Seq(Declarations)
    BY DeclarationFields
  <2>2. declares' \in [Sessions -> Seq(Declarations)] /\ toAgent' \in Seq(States)
    BY <1>10, <2>1 DEF Connect, TypeOK
  <2> QED BY <1>10, <2>2 DEF Connect, TypeOK
<1>11. CASE Redeclare
  <2>1. <<Declaration>> \in Seq(Declarations)
    BY DeclarationFields
  <2>2. declares' \in [Sessions -> Seq(Declarations)]
    BY <1>11, <2>1 DEF Redeclare, TypeOK
  <2> QED BY <1>11, <2>2 DEF Redeclare, TypeOK
<1>12. CASE Disconnect
  <2>1. toAgent' \in Seq(States)
    BY <1>12 DEF Disconnect
  <2> QED BY <1>12, <2>1 DEF Disconnect, TypeOK
<1>13. CASE ApplyDesired
  <2>1. /\ Head(toAgent) \in States
        /\ toAgent' \in Seq(States)
    BY <1>13, HeadTailProperties DEF ApplyDesired, TypeOK
  <2>2. /\ config' \in Config /\ enabled' \in BOOLEAN
        /\ launched' \in BOOLEAN /\ applied' \in 0..MaxSets
    BY <1>13, <2>1, StateFields DEF ApplyDesired, TypeOK
  <2> QED BY <1>13, <2>1, <2>2 DEF ApplyDesired, TypeOK
<1>14. CASE Launch BY <1>14 DEF Launch, TypeOK
<1>15. CASE RestartAgent
  <2>1. crashes' \in 0..MaxCrashes /\ applied' \in 0..MaxSets
    BY <1>15, Bounds DEF RestartAgent, TypeOK
  <2>2. toAgent' \in Seq(States) /\ config' \in Config
    BY <1>15, Configs DEF RestartAgent
  <2> QED BY <1>15, <2>1, <2>2 DEF RestartAgent, TypeOK
<1>16. CASE UNCHANGED vars BY <1>16 DEF vars, TypeOK
<1> QED
  BY <1>1, <1>2, <1>3, <1>4, <1>5, <1>6, <1>7, <1>8, <1>9, <1>10, <1>11,
     <1>12, <1>13, <1>14, <1>15, <1>16 DEF Next

(* Type correctness for any fields, sessions, threads and bounds.          *)
THEOREM Typing == Spec => []TypeOK
<1>1. Spec => []TypeInv
  BY InitType, TypeStep, PTL DEF Spec
<1> QED BY <1>1, PTL DEF TypeInv
-----------------------------------------------------------------------------
(* What the user was answered stays in force.                              *)

LEMMA ForceStep == TypeInv /\ AnswerIsInForce /\ [Next]_vars => AnswerIsInForce'
<1> SUFFICES ASSUME TypeInv, AnswerIsInForce, [Next]_vars PROVE AnswerIsInForce'
  OBVIOUS
<1> USE DEF AnswerIsInForce, Blank, NoneAttaching, budget, agent, registry
<1>1. ASSUME NEW t \in Threads, NEW r \in Requests, SetDesired(t, r[1], r[2])
      PROVE  AnswerIsInForce'
  BY <1>1 DEF SetDesired
<1>2. ASSUME NEW t \in Pushers, ReadDesired(t) \/ Enqueue(t) PROVE AnswerIsInForce'
  BY <1>2 DEF ReadDesired, Enqueue
<1>3. CASE Prune
  BY <1>3, NoDesiredFields DEF Prune
<1>4. CASE DeleteUe
  BY <1>4, NoDesiredFields DEF DeleteUe
<1>5. CASE RestartBackend
  BY <1>5, NoDesiredFields DEF RestartBackend
<1>6. ASSUME NEW s \in Sessions, Attach(s) PROVE AnswerIsInForce'
  BY <1>6 DEF Attach, LoopIsFree, TypeInv, TypeOK, Unknown
<1>7. ASSUME NEW s \in Sessions, Register(s) PROVE AnswerIsInForce'
  <2>1. PICK d : d = Head(declares[s]) /\ d \in Declarations
    BY <1>7, RegisterType
  <2>2. desired' = Seeded(d) /\ cache' = IF desired'.generation > 0 THEN desired' ELSE cache
    BY <1>7, <2>1 DEF Register
  <2>3. ~(desired'.generation > 0) => ~(cache.generation > 0)
    BY <2>1, <2>2, SeededType DEF TypeInv
  <2> QED BY <2>2, <2>3
<1>8. ASSUME NEW s \in Sessions, Detach(s) PROVE AnswerIsInForce'
  BY <1>8 DEF Detach, LoopIsFree, TypeInv, TypeOK
<1>9. ASSUME NEW s \in Sessions, Connect(s) PROVE AnswerIsInForce'
  BY <1>9 DEF Connect
<1>10. CASE Redeclare \/ Disconnect \/ ApplyDesired \/ Launch \/ RestartAgent
  BY <1>10 DEF Redeclare, Disconnect, ApplyDesired, Launch, RestartAgent
<1>11. CASE UNCHANGED vars BY <1>11 DEF vars
<1> QED
  BY <1>1, <1>2, <1>3, <1>4, <1>5, <1>6, <1>7, <1>8, <1>9, <1>10, <1>11 DEF Next

(* "reconnect does not wipe UI-applied desired" (ues.py), for any agent,   *)
(* sessions and threads: the invariant needs the types, because a declare  *)
(* asks whether the generations are above 0.                               *)
THEOREM InForce == Spec => []AnswerIsInForce
<1>1. Init => TypeInv /\ AnswerIsInForce
  BY InitType, NoDesiredFields DEF Init, AnswerIsInForce
<1>2. TypeInv /\ AnswerIsInForce /\ [Next]_vars => (TypeInv /\ AnswerIsInForce)'
  BY TypeStep, ForceStep
<1> QED BY <1>1, <1>2, PTL DEF Spec
-----------------------------------------------------------------------------
(* Where the configurations come from.                                     *)

Inv == TypeInv /\ AnswerIsInForce /\ Sources

LEMMA Growing ==
    ASSUME NEW old, NEW new, old \subseteq new
    PROVE  /\ Seq(FrameOf(old)) \subseteq Seq(FrameOf(new))
           /\ Seq(DeclarationOf(old)) \subseteq Seq(DeclarationOf(new))
<1>1. FrameOf(old) \subseteq FrameOf(new) /\ DeclarationOf(old) \subseteq DeclarationOf(new)
  BY DEF FrameOf, DeclarationOf
<1> QED BY <1>1, SeqMonotonic

(* The configuration a declared entry holds is one of them.                *)
LEMMA SeededSource ==
    ASSUME Inv, NEW d \in DeclarationOf(legitimate)
    PROVE  Seeded(d).conf \in legitimate
<1>1. d \in Declarations /\ d.conf \in legitimate
  BY DEF DeclarationOf
<1>2. CASE desired.generation > 0
  BY <1>1, <1>2, SeededType DEF Inv, TypeInv, AnswerIsInForce, Sources
<1>3. CASE ~(desired.generation > 0) /\ cache.generation > 0
  BY <1>1, <1>3, SeededType DEF Inv, TypeInv, Sources
<1>4. CASE ~(desired.generation > 0) /\ ~(cache.generation > 0)
  BY <1>1, <1>4, SeededType DEF Inv, TypeInv
<1> QED BY <1>2, <1>3, <1>4

LEMMA SourcesInit == Init => Sources
<1> SUFFICES ASSUME Init PROVE Sources
  OBVIOUS
<1>1. \A t \in Pushers : pushing[t].step # "read"
  BY PushFields DEF Init
<1>2. ~(cache.generation > 0)
  BY NoDesiredFields DEF Init
<1>3. toAgent \in Seq(FrameOf(legitimate))
  BY DEF Init
<1>4. \A s \in Sessions : declares[s] \in Seq(DeclarationOf(legitimate))
  BY DEF Init
<1> QED BY <1>1, <1>2, <1>3, <1>4 DEF Init, Sources

LEMMA SourcesStep ==
    ASSUME Inv, [Next]_vars
    PROVE  Sources'
<1> USE DEF Sources, Blank, NoneAttaching, budget, agent, registry
<1>1. ASSUME NEW t \in Threads, NEW r \in Requests, SetDesired(t, r[1], r[2])
      PROVE  Sources'
  <2>1. legitimate \subseteq legitimate' /\ desired'.conf \in legitimate' /\ cache' = desired'
    BY <1>1 DEF SetDesired
  <2>2. \A u \in Pushers : pushing'[u].step = "read" => pushing'[u] = pushing[u]
    BY <1>1, PushFields DEF SetDesired, Pushers, Inv, TypeInv, TypeOK
  <2>3. \A u \in Pushers : pushing'[u].step = "read" => pushing'[u].frame.conf \in legitimate'
    BY <2>1, <2>2 DEF Inv
  <2>4. toAgent' \in Seq(FrameOf(legitimate'))
    BY <1>1, <2>1, Growing DEF SetDesired, Inv
  <2>5. \A s \in Sessions : declares'[s] \in Seq(DeclarationOf(legitimate'))
    BY <1>1, <2>1, Growing DEF SetDesired, Inv
  <2>6. Local \in legitimate' /\ config' \in legitimate'
    BY <1>1, <2>1 DEF SetDesired, Inv
  <2>7. FrameOf(legitimate)' = FrameOf(legitimate')
        /\ DeclarationOf(legitimate)' = DeclarationOf(legitimate')
    BY DEF FrameOf, DeclarationOf
  <2> QED BY <2>1, <2>3, <2>4, <2>5, <2>6, <2>7
<1> USE DEF FrameOf, DeclarationOf
<1>2. ASSUME NEW t \in Pushers, ReadDesired(t) PROVE Sources'
  <2>1. /\ legitimate \subseteq legitimate'
        /\ known => desired.conf \in legitimate'
    <3>1. Blank => desired.conf = Default
      BY NoDesiredFields
    <3> QED BY <1>2, <3>1 DEF ReadDesired, Inv
  <2>2. known /\ bound # NoSession => desired \in States /\ bound \in Sessions
    BY DEF Inv, TypeInv, TypeOK
  <2>3. \A u \in Pushers : pushing'[u].step = "read" => pushing'[u].frame.conf \in legitimate'
    BY <1>2, <2>1, <2>2, PushFields DEF ReadDesired, Inv, TypeInv, TypeOK
  <2>4. /\ toAgent' \in Seq(FrameOf(legitimate'))
        /\ \A s \in Sessions : declares'[s] \in Seq(DeclarationOf(legitimate'))
    <3> HIDE DEF FrameOf, DeclarationOf
    <3> QED BY <1>2, <2>1, Growing DEF ReadDesired, Inv
  <2>6. /\ Local \in legitimate' /\ config' \in legitimate'
        /\ cache'.generation > 0 => cache'.conf \in legitimate'
        /\ known' /\ ~Blank' => desired'.conf \in legitimate'
    BY <1>2, <2>1 DEF ReadDesired, Inv
  <2> QED BY <2>3, <2>4, <2>6
<1>3. ASSUME NEW t \in Pushers, Enqueue(t) PROVE Sources'
  <2>1. pushing[t].frame \in FrameOf(legitimate)
    BY <1>3, PushFields DEF Enqueue, Inv, TypeInv, TypeOK
  <2>2. toAgent' \in Seq(FrameOf(legitimate))
    BY <1>3, <2>1, AppendProperties DEF Enqueue, Inv
  <2>3. \A u \in Pushers : pushing'[u].step = "read" => pushing'[u].frame.conf \in legitimate
    BY <1>3, PushFields DEF Enqueue, Inv, TypeInv, TypeOK
  <2> QED BY <1>3, <2>2, <2>3 DEF Enqueue, Inv
<1>4. CASE Prune
  <2>1. cache' = cache
    BY <1>4 DEF Prune, Inv, AnswerIsInForce
  <2> QED BY <1>4, <2>1 DEF Prune, Inv
<1>5. CASE DeleteUe
  BY <1>5, NoDesiredFields DEF DeleteUe, Inv
<1>6. CASE RestartBackend
  <2>1. \A u \in Pushers : pushing'[u].step # "read"
    BY <1>6, PushFields DEF RestartBackend
  <2>2. toAgent' \in Seq(FrameOf(legitimate))
    BY <1>6 DEF RestartBackend
  <2>3. \A s \in Sessions : declares'[s] \in Seq(DeclarationOf(legitimate))
    BY <1>6 DEF RestartBackend
  <2> QED BY <1>6, <2>1, <2>2, <2>3, NoDesiredFields DEF RestartBackend, Inv
<1>7. ASSUME NEW s \in Sessions, Attach(s) PROVE Sources'
  <2>1. known' /\ ~Blank' => desired'.conf \in legitimate
    BY <1>7 DEF Attach, LoopIsFree, Inv, TypeInv, TypeOK, Unknown
  <2> HIDE DEF Blank
  <2> QED BY <1>7, <2>1 DEF Attach, Inv
<1>8. ASSUME NEW s \in Sessions, Register(s) PROVE Sources'
  <2>1. /\ Head(declares[s]) \in DeclarationOf(legitimate)
        /\ Tail(declares[s]) \in Seq(DeclarationOf(legitimate))
    BY <1>8, HeadTailProperties DEF Register, Inv
  <2>2. desired'.conf \in legitimate
    BY <1>8, <2>1, SeededSource DEF Register
  <2>3. cache' = IF desired'.generation > 0 THEN desired' ELSE cache
    BY <1>8 DEF Register
  <2>4. \A u \in Sessions : declares'[u] \in Seq(DeclarationOf(legitimate))
    BY <1>8, <2>1 DEF Register, Inv, TypeInv, TypeOK
  <2>5. \A u \in Pushers : pushing'[u].step = "read" => pushing'[u].frame.conf \in legitimate
    BY <1>8, PushFields DEF Register, Pushers, Inv, TypeInv, TypeOK
  <2>6. Local \in legitimate' /\ config' \in legitimate' /\ legitimate' = legitimate
        /\ toAgent' \in Seq(FrameOf(legitimate))
    BY <1>8 DEF Register, Inv
  <2>7. cache'.generation > 0 => cache'.conf \in legitimate
    BY <2>2, <2>3 DEF Inv
  <2> QED BY <2>2, <2>4, <2>5, <2>6, <2>7
<1>9. ASSUME NEW s \in Sessions, Detach(s) PROVE Sources'
  <2>1. \A u \in Sessions : declares'[u] \in Seq(DeclarationOf(legitimate))
    BY <1>9 DEF Detach, Inv, TypeInv, TypeOK
  <2>2. NoneAttaching
    BY <1>9 DEF Detach, LoopIsFree
  <2> QED BY <1>9, <2>1, <2>2 DEF Detach, Inv
<1>10. ASSUME NEW s \in Sessions, declares' = [declares EXCEPT ![s] = <<Declaration>>],
              toAgent' \in {toAgent, <<>>},
              UNCHANGED <<registry, pushing, handler, agent, legitimate>>
       PROVE  Sources'
  <2>1. Declaration \in DeclarationOf(legitimate)
    BY DeclarationFields DEF Inv, TypeInv
  <2>2. <<Declaration>> \in Seq(DeclarationOf(legitimate))
    BY <2>1
  <2>3. \A u \in Sessions : declares'[u] \in Seq(DeclarationOf(legitimate))
    BY <1>10, <2>2 DEF Inv, TypeInv, TypeOK
  <2>4. toAgent' \in Seq(FrameOf(legitimate))
    <3>1. PICK frames : frames = FrameOf(legitimate)
      OBVIOUS
    <3>2. toAgent \in Seq(frames) /\ <<>> \in Seq(frames)
      BY <3>1, EmptySeq DEF Inv
    <3> QED BY <1>10, <3>1, <3>2
  <2> QED BY <1>10, <2>3, <2>4 DEF Inv
<1>11. ASSUME NEW s \in Sessions, Connect(s) PROVE Sources'
  BY <1>10, <1>11 DEF Connect
<1>12. CASE Redeclare
  BY <1>10, <1>12 DEF Redeclare, Inv, TypeInv, TypeOK
<1>13. CASE Disconnect
  <2>1. toAgent' \in Seq(FrameOf(legitimate))
    BY <1>13 DEF Disconnect
  <2> QED BY <1>13, <2>1 DEF Disconnect, Inv
<1>14. CASE ApplyDesired
  <2>1. /\ Head(toAgent) \in FrameOf(legitimate)
        /\ Tail(toAgent) \in Seq(FrameOf(legitimate))
    BY <1>14, HeadTailProperties DEF ApplyDesired, Inv
  <2>2. config' \in legitimate
    BY <1>14, <2>1 DEF ApplyDesired, Inv
  <2> QED BY <1>14, <2>1, <2>2 DEF ApplyDesired, Inv
<1>15. CASE Launch BY <1>15 DEF Launch, Inv
<1>16. CASE RestartAgent
  <2>1. toAgent' \in Seq(FrameOf(legitimate))
    BY <1>16 DEF RestartAgent
  <2> QED BY <1>16, <2>1 DEF RestartAgent, Inv
<1>17. CASE UNCHANGED vars BY <1>17 DEF vars, Inv
<1> QED
  BY <1>1, <1>2, <1>3, <1>4, <1>5, <1>6, <1>7, <1>8, <1>9, <1>11, <1>12,
     <1>13, <1>14, <1>15, <1>16, <1>17 DEF Next

-----------------------------------------------------------------------------
(* The refinement.                                                         *)

Wanted == IF cache.generation > 0 THEN cache.conf ELSE Nothing

LEMMA WantedIsSet ==
    ASSUME Inv, cache.generation > 0
    PROVE  cache.conf # Nothing
BY StateFields, ValuesAssumption DEF Inv, TypeInv, TypeOK

LEMMA BlankStays ==
    /\ Blank \in BOOLEAN /\ Blank' \in BOOLEAN
    /\ UNCHANGED <<known, desired, handler>> => Blank' = Blank
BY DEF Blank, NoneAttaching

LEMMA RefinedStep ==
    ASSUME Inv, [Next]_vars
    PROVE  [Reconciliation!Next]_(Reconciliation!vars)
<1> USE DEF Reconciliation!vars, budget, agent, registry
<1>1. ASSUME NEW t \in Threads, NEW r \in Requests, SetDesired(t, r[1], r[2])
      PROVE  Reconciliation!Change
  <2>1. PICK named, action : named = r[1] /\ action = r[2]
    OBVIOUS
  <2>2. SetDesired(t, named, action) /\ named \in SUBSET Fields
        /\ action \in {"set", "start", "stop"}
    BY <1>1, <2>1, RequestsAssumption
  <2>3. /\ sets + 1 \in Values
        /\ desired'.conf = Merged(named, sets + 1) /\ desired'.generation > 0
    BY <2>2, AnswerType DEF Inv
  <2>4. PICK base : base = desired.conf
    OBVIOUS
  <2>5. known
    BY <2>2 DEF SetDesired
  <2>6. base \in Reconciliation!Bases
    <3>1. CASE Blank
      BY <2>4, <3>1, NoDesiredFields DEF Reconciliation!Bases, Blank
    <3>2. CASE ~Blank /\ cache.generation > 0
      <4>1. desired = cache
        BY <2>5, <3>2 DEF Inv, AnswerIsInForce
      <4> QED
        BY <2>4, <3>2, <4>1, WantedIsSet DEF Reconciliation!Bases, Inv
    <3>3. CASE ~Blank /\ ~(cache.generation > 0)
      BY <2>4, <2>5, <3>3 DEF Reconciliation!Bases, Inv, Sources
    <3> QED BY <3>1, <3>2, <3>3
  <2>7. Reconciliation!Changed(base, named, sets + 1) = desired'.conf
    BY <2>3, <2>4 DEF Reconciliation!Changed, Merged
  <2>8. cache' = desired' /\ legitimate' = legitimate \cup {desired'.conf} /\ config' = config
    BY <2>2 DEF SetDesired
  <2>10. ~Blank'
    BY <2>3, NoDesiredFields DEF Blank
  <2>9. Wanted' = desired'.conf
    BY <2>3, <2>8 DEF Wanted
  <2> QED
    BY <2>2, <2>3, <2>6, <2>7, <2>8, <2>9, <2>10 DEF Reconciliation!Change, Wanted
<1>2. ASSUME NEW t \in Pushers, ReadDesired(t)
      PROVE  Reconciliation!Show \/ UNCHANGED Reconciliation!vars
  BY <1>2, BlankStays DEF ReadDesired, Reconciliation!Show
<1>3. CASE Prune
  <2>1. cache' = cache /\ config' = config /\ legitimate' = legitimate
    BY <1>3 DEF Prune, Inv, AnswerIsInForce
  <2> QED BY <2>1, BlankStays DEF Reconciliation!Next, Reconciliation!Enter
<1>4. CASE DeleteUe \/ RestartBackend
  <2>1. /\ ~(cache'.generation > 0) /\ ~Blank'
        /\ UNCHANGED <<config, legitimate>>
    BY <1>4, NoDesiredFields DEF DeleteUe, RestartBackend, Blank
  <2> QED BY <2>1, BlankStays DEF Reconciliation!Next, Reconciliation!Forget
<1>5. ASSUME NEW s \in Sessions, Register(s)
      PROVE  Reconciliation!Enter
  <2>1. PICK d : d = Head(declares[s]) /\ d \in Declarations
    BY <1>5, RegisterType DEF Inv
  <2>2. /\ desired' = Seeded(d)
        /\ cache' = IF desired'.generation > 0 THEN desired' ELSE cache
        /\ UNCHANGED <<config, legitimate>>
    BY <1>5, <2>1 DEF Register
  <2>3. cache' = cache
    BY <2>1, <2>2, SeededType DEF Inv, TypeInv, AnswerIsInForce
  <2> QED BY <2>2, <2>3, BlankStays DEF Reconciliation!Enter
<1>6. ASSUME NEW s \in Sessions, Attach(s) \/ Detach(s)
      PROVE  Reconciliation!Enter
  BY <1>6, BlankStays DEF Attach, Detach, Reconciliation!Enter
<1>7. ASSUME \/ \E t \in Pushers : Enqueue(t)
             \/ \E s \in Sessions : Connect(s)
             \/ Redeclare \/ Disconnect \/ Launch
      PROVE  UNCHANGED Reconciliation!vars
  BY <1>7, BlankStays DEF Enqueue, Connect, Redeclare, Disconnect, Launch
<1>8. CASE ApplyDesired
  <2>1. Head(toAgent) \in FrameOf(legitimate)
    BY <1>8, HeadTailProperties DEF ApplyDesired, Inv, Sources
  <2>2. config' \in legitimate /\ UNCHANGED <<cache, legitimate>>
    BY <1>8, <2>1 DEF ApplyDesired, Inv, Sources, FrameOf
  <2>3. Blank' = Blank
    BY <1>8, BlankStays DEF ApplyDesired
  <2> QED BY <2>2, <2>3 DEF Reconciliation!Next, Reconciliation!Adopt
<1>9. CASE RestartAgent
  <2>1. config' \in legitimate /\ UNCHANGED <<cache, legitimate>>
    BY <1>9 DEF RestartAgent, Inv, Sources
  <2>2. Blank' = Blank
    BY <1>9, BlankStays DEF RestartAgent
  <2> QED BY <2>1, <2>2 DEF Reconciliation!Next, Reconciliation!Adopt
<1>10. CASE UNCHANGED vars BY <1>10, BlankStays DEF vars
<1> QED
  BY <1>1, <1>2, <1>3, <1>4, <1>5, <1>6, <1>7, <1>8, <1>9, <1>10
     DEF Next, Reconciliation!Next

(* The registry with any agent, sessions and threads implements            *)
(* UeReconciliation, whatever falls between the halves of a declare: what  *)
(* the agent runs, and what a change is merged over, is its own            *)
(* configuration or one the user was answered (ues.py: "Never invent DL    *)
(* defaults over a live UL/TCP session"), or the defaults where a request  *)
(* or a push has found the entry blank.                                    *)
THEOREM Refinement == Spec => ImplementsReconciliation
<1>1. Init => Inv
  BY InitType, NoDesiredFields, SourcesInit DEF Inv, Init, AnswerIsInForce
<1>2. Inv /\ [Next]_vars => Inv'
  BY TypeStep, ForceStep, SourcesStep DEF Inv
<1>3. Init => Reconciliation!Init
  BY NoDesiredFields DEF Init, Reconciliation!Init, Blank
<1>4. Inv /\ [Next]_vars => [Reconciliation!Next]_(Reconciliation!vars)
  BY RefinedStep
<1> QED
  BY <1>1, <1>2, <1>3, <1>4, PTL DEF Spec, ImplementsReconciliation, Reconciliation!Spec
===============================================================================
