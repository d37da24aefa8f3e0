--------------------------- MODULE ApplicationProofs ---------------------------
(* Proofs about what runs on the UEs and their servers: the runner of the  *)
(* traffic agent loses no change, the camera's workers follow the          *)
(* requests, a stop at an OTT console stands, and the iperf3 supervisor    *)
(* keeps one process, with the arguments of the latest request.            *)
EXTENDS TrafficRunner, IperfSupervisor, StreamManager, OttControl,
        SequenceTheorems, FiniteSetTheorems, TLAPS

(***************************************************************************)
(* What the thread holds between reading the configuration and starting    *)
(* the process is flagged like a process, and there is a live process only *)
(* while it is being read: so the clear at the top loses nothing.          *)
(***************************************************************************)
StaleCommandIsFlagged ==
    pc = "spawn" /\ (command # config \/ ~enabled) => reload \/ ws = "applied"

LiveIsRead == process.alive => pc = "reading"

IInv == TypeOK /\ StaleRunIsFlagged /\ StaleCommandIsFlagged /\ LiveIsRead

(* Types of the runner's fields and of the places of its threads, for any  *)
(* number of changes.                                                      *)
LEMMA TypingStep == ASSUME TypeOK, [Next]_vars PROVE TypeOK'
<1> USE ChangesAssumption DEF TypeOK, Places, Reasons
<1>1. ASSUME NEW on \in BOOLEAN, Apply(on) PROVE TypeOK'
  BY <1>1 DEF Apply
<1>2. CASE StopAgain BY <1>2 DEF StopAgain
<1>3. CASE RaiseReload BY <1>3 DEF RaiseReload
<1>4. CASE Kill BY <1>4 DEF Kill, Dead
<1>5. CASE Top BY <1>5 DEF Top, Goto
<1>6. CASE Gate BY <1>6 DEF Gate, Goto
<1>7. CASE WakeUp BY <1>7 DEF WakeUp, Goto
<1>8. CASE ReadCommand BY <1>8 DEF ReadCommand, Goto
<1>9. CASE Spawn BY <1>9 DEF Spawn, Goto
<1>10. CASE SpawnFails BY <1>10 DEF SpawnFails, Goto
<1>11. CASE SpawnRaises BY <1>11 DEF SpawnRaises, Goto
<1>12. CASE Exit BY <1>12 DEF Exit, Dead
<1>13. CASE StopReading BY <1>13 DEF StopReading, Goto, NoProcess
<1>14. CASE After BY <1>14 DEF After, Goto
<1>15. CASE Over BY <1>15 DEF Over, Goto
<1>16. CASE UNCHANGED vars BY <1>16 DEF vars
<1> QED
  BY <1>1, <1>2, <1>3, <1>4, <1>5, <1>6, <1>7, <1>8, <1>9, <1>10, <1>11,
     <1>12, <1>13, <1>14, <1>15, <1>16 DEF Next

LEMMA FlagStep == ASSUME IInv, [Next]_vars PROVE IInv'
<1> DEFINE Flags == StaleRunIsFlagged /\ StaleCommandIsFlagged /\ LiveIsRead
<1> SUFFICES Flags' BY TypingStep DEF IInv
<1> USE DEF IInv, TypeOK, StaleRunIsFlagged, StaleCommandIsFlagged, LiveIsRead
<1>1. ASSUME NEW on \in BOOLEAN, Apply(on) PROVE Flags'
  BY <1>1 DEF Apply
<1>2. CASE StopAgain BY <1>2 DEF StopAgain
<1>3. CASE RaiseReload BY <1>3 DEF RaiseReload
<1>4. CASE Kill BY <1>4 DEF Kill, Dead
<1>5. CASE Top BY <1>5 DEF Top, Goto
<1>6. CASE Gate BY <1>6 DEF Gate, Goto
<1>7. CASE WakeUp BY <1>7 DEF WakeUp, Goto
<1>8. CASE ReadCommand BY <1>8 DEF ReadCommand, Goto
<1>9. CASE Spawn BY <1>9 DEF Spawn, Goto
<1>10. CASE SpawnFails BY <1>10 DEF SpawnFails, Goto
<1>11. CASE SpawnRaises BY <1>11 DEF SpawnRaises, Goto
<1>12. CASE Exit BY <1>12 DEF Exit, Dead
<1>13. CASE StopReading BY <1>13 DEF StopReading, Goto, NoProcess
<1>14. CASE After BY <1>14 DEF After, Goto
<1>15. CASE Over BY <1>15 DEF Over, Goto
<1>16. CASE UNCHANGED vars BY <1>16 DEF vars
<1> QED
  BY <1>1, <1>2, <1>3, <1>4, <1>5, <1>6, <1>7, <1>8, <1>9, <1>10, <1>11,
     <1>12, <1>13, <1>14, <1>15, <1>16 DEF Next

LEMMA Invariance == Spec => []IInv
<1>1. Init => IInv
  <2> SUFFICES ASSUME Init PROVE IInv
    OBVIOUS
  <2>0. 0 \in 0..MaxChanges
    BY ChangesAssumption
  <2>1. process \in [config : 0..MaxChanges, alive : BOOLEAN]
    BY <2>0 DEF Init, NoProcess
  <2>2. TypeOK
    BY <2>0, <2>1 DEF Init, TypeOK, Places, Reasons
  <2>3. ~process.alive /\ pc = "top"
    BY DEF Init, NoProcess
  <2> QED
    BY <2>2, <2>3 DEF IInv, StaleRunIsFlagged, StaleCommandIsFlagged, LiveIsRead
<1> QED BY <1>1, FlagStep, PTL DEF Spec

(* Type correctness for any number of changes.                             *)
THEOREM Typing == Spec => []TypeOK
BY Invariance, PTL DEF IInv

(* A process that runs what is no longer wanted is always about to be      *)
(* replaced: apply_desired and run_forever need no lock for their event.   *)
THEOREM NoLostReload == Spec => []StaleRunIsFlagged
BY Invariance, PTL DEF IInv
-----------------------------------------------------------------------------
(* The camera: requests, workers and the pipeline.                         *)

WorkerPlaces == {"top", "launch", "watch", "ended"}

(* What a request has left: a stop terminates next and may start after it. *)
CallsLeft ==
    {s \in Seq({"start", "stop", "terminate"}) :
        \A i \in 1..Len(s) :
            /\ s[i] = "stop" => i < Len(s) /\ s[i + 1] = "terminate"
            /\ s[i] = "terminate" => i = Len(s) \/ s[i + 1] = "start"
            /\ s[i] = "start" => i = Len(s)}

CameraTypeOK ==
    /\ running \in BOOLEAN /\ stopSet \in BOOLEAN /\ crossed \in BOOLEAN
    /\ pipeline \in Nat /\ pipelines \in Nat /\ playing \in SUBSET Nat
    /\ workers \in Seq(WorkerPlaces)
    /\ calls \in Seq(CallsLeft)

(* While a stop holds the lock nothing is running; no worker ends while it *)
(* is; and what was stopped stays told to stop.                            *)
StopsHold ==
    /\ Locked => ~running /\ stopSet
    /\ running => ~stopSet /\ \E w \in DOMAIN workers : ~Ended(w)
    /\ ~running => stopSet \/ workers = <<>>

(* Where no start met a worker and no stop a launch: there is one worker   *)
(* at most, what plays is in the field, and a worker on its way to a       *)
(* launch leaves nothing behind that plays.                                *)
OneWorker ==
    ~crossed =>
        /\ \A v, w \in DOMAIN workers : Ended(v) \/ Ended(w) \/ v = w
        /\ playing \subseteq {pipeline}
        /\ \A w \in DOMAIN workers :
              /\ workers[w] = "top" => stopSet \/ playing = {}
              /\ workers[w] = "launch" => playing = {}
        /\ ~running /\ ~Locked =>
              playing = {} /\ \A w \in DOMAIN workers : workers[w] # "launch"

CameraIInv == CameraTypeOK /\ StopsHold /\ OneWorker


LEMMA CallTail ==
    ASSUME NEW s \in CallsLeft, s # <<>>
    PROVE  /\ Tail(s) \in CallsLeft
           /\ Head(s) = "start" => Tail(s) = <<>>
           /\ Head(s) = "stop" => Tail(s) # <<>> /\ Head(Tail(s)) = "terminate"
<1> DEFINE S == {"start", "stop", "terminate"}
           t == Tail(s)
<1>1. s \in Seq(S) BY DEF CallsLeft
<1>2. /\ t \in Seq(S) /\ Len(t) = Len(s) - 1
      /\ \A i \in 1..Len(t) : t[i] = s[i + 1]
  BY <1>1, HeadTailProperties
<1>3. Len(s) \in Nat /\ Len(s) > 0 /\ Head(s) = s[1] /\ 1 \in 1..Len(s)
  BY <1>1, EmptySeq
<1>4. \A i \in 1..Len(s) :
        /\ s[i] = "stop" => i < Len(s) /\ s[i + 1] = "terminate"
        /\ s[i] = "terminate" => i = Len(s) \/ s[i + 1] = "start"
        /\ s[i] = "start" => i = Len(s)
  BY DEF CallsLeft
<1> HIDE DEF t
<1>5. ASSUME NEW i \in 1..Len(t)
      PROVE  /\ t[i] = "stop" => i < Len(t) /\ t[i + 1] = "terminate"
             /\ t[i] = "terminate" => i = Len(t) \/ t[i + 1] = "start"
             /\ t[i] = "start" => i = Len(t)
  <2>1. i + 1 \in 1..Len(s) /\ t[i] = s[i + 1] BY <1>2, <1>3
  <2>2. i < Len(t) => t[i + 1] = s[i + 2] BY <1>2, <1>3
  <2>3. /\ s[i + 1] = "stop" => i + 1 < Len(s) /\ s[(i + 1) + 1] = "terminate"
        /\ s[i + 1] = "terminate" => i + 1 = Len(s) \/ s[(i + 1) + 1] = "start"
        /\ s[i + 1] = "start" => i + 1 = Len(s)
    BY <1>4, <2>1
  <2>4. (i + 1) + 1 = i + 2 OBVIOUS
  <2> QED BY <1>2, <1>3, <2>1, <2>2, <2>3, <2>4
<1>6. t \in CallsLeft BY <1>2, <1>5 DEF CallsLeft
<1>7. Head(s) = "start" => t = <<>>
  <2>1. Head(s) = "start" => Len(t) = 0 BY <1>2, <1>3, <1>4
  <2> QED BY <1>2, <2>1, EmptySeq
<1>8. ASSUME Head(s) = "stop" PROVE t # <<>> /\ Head(t) = "terminate"
  <2>1. Len(t) > 0 /\ s[2] = "terminate" BY <1>2, <1>3, <1>4, <1>8
  <2>2. t[1] = "terminate" BY <1>2, <2>1
  <2>3. t # <<>> BY <2>1, EmptySeq
  <2> QED BY <1>2, <2>2, <2>3
<1> QED BY <1>6, <1>7, <1>8 DEF t

LEMMA CallKinds ==
    ASSUME NEW action \in {"start", "stop", "restart"}
    PROVE  /\ CallSteps[action] \in CallsLeft
           /\ CallSteps[action] # <<>> /\ Head(CallSteps[action]) # "terminate"
<1>1. <<"start">> \in CallsLeft BY DEF CallsLeft
<1>2. <<"stop", "terminate">> \in CallsLeft BY DEF CallsLeft
<1>3. <<"stop", "terminate", "start">> \in CallsLeft BY DEF CallsLeft
<1> QED BY <1>1, <1>2, <1>3 DEF CallSteps

LEMMA CameraInitially == ASSUME CameraInit PROVE CameraIInv
<1>1. workers = <<>> /\ calls = <<>> /\ ~running /\ playing = {} BY DEF CameraInit
<1>2. workers \in Seq(WorkerPlaces) /\ calls \in Seq(CallsLeft) BY <1>1, EmptySeq
<1>3. CameraTypeOK BY <1>2 DEF CameraInit, CameraTypeOK
<1>4. ~Locked /\ DOMAIN workers = {} BY <1>1 DEF Locked, CallAt
<1> QED BY <1>1, <1>3, <1>4 DEF CameraIInv, StopsHold, OneWorker

LEMMA CallMoves ==
    ASSUME CameraTypeOK, NEW c \in DOMAIN calls, calls[c] # <<>>, CallGoesOn(c)
    PROVE  /\ calls' \in Seq(CallsLeft) /\ DOMAIN calls' = DOMAIN calls
           /\ \A d \in DOMAIN calls :
                 calls'[d] = IF d = c THEN Tail(calls[c]) ELSE calls[d]
<1>1. calls \in Seq(CallsLeft) /\ DOMAIN calls = 1..Len(calls)
  BY DEF CameraTypeOK
<1>2. calls[c] \in CallsLeft BY <1>1, ElementOfSeq
<1>3. Tail(calls[c]) \in CallsLeft BY <1>2, CallTail
<1>4. calls' = [calls EXCEPT ![c] = Tail(calls[c])] BY DEF CallGoesOn
<1> DEFINE t == Tail(calls[c])
<1> HIDE DEF t
<1>5. /\ [calls EXCEPT ![c] = t] \in Seq(CallsLeft)
      /\ Len([calls EXCEPT ![c] = t]) = Len(calls)
      /\ \A d \in 1..Len(calls) :
            [calls EXCEPT ![c] = t][d] = IF d = c THEN t ELSE calls[d]
  BY <1>1, <1>3, ExceptSeq DEF t
<1>6. calls' = [calls EXCEPT ![c] = t] BY <1>4 DEF t
<1>7. DOMAIN calls' = 1..Len(calls) BY <1>5, <1>6, LenProperties
<1> QED BY <1>1, <1>5, <1>6, <1>7 DEF t

LEMMA CameraCalls ==
    ASSUME CameraIInv, NEW action \in {"start", "stop", "restart"}, Call(action)
    PROVE  CameraIInv'
<1> DEFINE s == CallSteps[action]
<1>1. calls' = Append(calls, s) /\ calls \in Seq(CallsLeft) /\ s \in CallsLeft
  BY CallKinds DEF Call, CameraIInv, CameraTypeOK
<1>2. s # <<>> /\ Head(s) # "terminate" BY CallKinds
<1> HIDE DEF s
<1>3. /\ calls' \in Seq(CallsLeft) /\ Len(calls') = Len(calls) + 1
      /\ \A d \in 1..Len(calls) : calls'[d] = calls[d]
      /\ calls'[Len(calls) + 1] = s
  BY <1>1, AppendProperties
<1>4. DOMAIN calls' = 1..Len(calls) + 1 /\ DOMAIN calls = 1..Len(calls)
      /\ Len(calls) \in Nat
  BY <1>1, <1>3, LenProperties
<1>5. Locked' <=> Locked BY <1>2, <1>3, <1>4 DEF Locked, CallAt
<1>6. UNCHANGED <<running, stopSet, pipeline, playing, pipelines, workers, crossed>>
  BY DEF Call
<1>7. CameraTypeOK' BY <1>3, <1>6 DEF CameraIInv, CameraTypeOK
<1>8. StopsHold' BY <1>5, <1>6 DEF CameraIInv, StopsHold, Ended
<1>9. OneWorker' BY <1>5, <1>6 DEF CameraIInv, OneWorker, Ended
<1> QED BY <1>7, <1>8, <1>9 DEF CameraIInv

LEMMA CameraStarts ==
    ASSUME CameraIInv, NEW c \in DOMAIN calls, Start(c) PROVE CameraIInv'
<1>1. /\ CallAt(c, "start") /\ ~Locked /\ CallGoesOn(c)
      /\ UNCHANGED <<pipeline, playing, pipelines>>
  BY DEF Start
<1>2. CameraTypeOK /\ calls[c] # <<>> /\ Head(calls[c]) = "start"
  BY <1>1 DEF CameraIInv, CallAt
<1>3. /\ calls' \in Seq(CallsLeft) /\ DOMAIN calls' = DOMAIN calls
      /\ \A d \in DOMAIN calls :
            calls'[d] = IF d = c THEN Tail(calls[c]) ELSE calls[d]
  BY <1>1, <1>2, CallMoves
<1>4. Tail(calls[c]) = <<>>
  <2>1. calls[c] \in CallsLeft BY <1>2, ElementOfSeq DEF CameraTypeOK
  <2> QED BY <1>2, <2>1, CallTail
<1>5. ~Locked' BY <1>1, <1>3, <1>4 DEF Locked, CallAt
<1>6. CASE running
  <2>1. UNCHANGED <<running, stopSet, workers, crossed>> BY <1>6 DEF Start
  <2>2. CameraTypeOK' BY <1>1, <1>3, <2>1 DEF CameraIInv, CameraTypeOK
  <2>3. StopsHold' BY <1>1, <1>5, <2>1 DEF CameraIInv, StopsHold, Ended
  <2>4. OneWorker' BY <1>1, <1>5, <1>6, <2>1 DEF CameraIInv, OneWorker, Ended
  <2> QED BY <2>2, <2>3, <2>4 DEF CameraIInv
<1>7. CASE ~running
  <2>1. /\ stopSet' = FALSE /\ running' = TRUE /\ workers' = Append(workers, "top")
        /\ crossed' = (crossed \/ \E w \in DOMAIN workers : ~Ended(w))
    BY <1>7 DEF Start
  <2>2. workers \in Seq(WorkerPlaces) /\ "top" \in WorkerPlaces
    BY DEF CameraIInv, CameraTypeOK, WorkerPlaces
  <2>3. /\ workers' \in Seq(WorkerPlaces) /\ Len(workers') = Len(workers) + 1
        /\ \A w \in 1..Len(workers) : workers'[w] = workers[w]
        /\ workers'[Len(workers) + 1] = "top"
    BY <2>1, <2>2, AppendProperties
  <2>4. /\ DOMAIN workers' = 1..Len(workers) + 1 /\ DOMAIN workers = 1..Len(workers)
        /\ Len(workers) \in Nat
    BY <2>2, <2>3, LenProperties
  <2>5. crossed' \in BOOLEAN BY <2>1 DEF CameraIInv, CameraTypeOK
  <2>6. CameraTypeOK' BY <1>1, <1>3, <2>1, <2>3, <2>5 DEF CameraIInv, CameraTypeOK
  <2>7. StopsHold'
    <3>1. Len(workers) + 1 \in DOMAIN workers' BY <2>4
    <3>2. workers'[Len(workers) + 1] # "ended" BY <2>3
    <3> QED BY <1>5, <2>1, <3>1, <3>2 DEF StopsHold, Ended
  <2>8. OneWorker'
    <3> SUFFICES ASSUME ~crossed' PROVE OneWorker'
      BY DEF OneWorker
    <3>1. ~crossed /\ \A w \in DOMAIN workers : workers[w] = "ended"
      BY <2>1 DEF Ended
    <3>2. playing' = {} BY <1>1, <1>7, <3>1 DEF CameraIInv, OneWorker
    <3>3. \A w \in DOMAIN workers' : w = Len(workers) + 1 \/ workers'[w] = "ended"
      BY <2>3, <2>4, <3>1
    <3> QED BY <2>1, <2>3, <3>2, <3>3 DEF OneWorker, Ended
  <2> QED BY <2>6, <2>7, <2>8 DEF CameraIInv
<1> QED BY <1>6, <1>7

LEMMA CameraStops ==
    ASSUME CameraIInv, NEW c \in DOMAIN calls, Stop(c) PROVE CameraIInv'
<1>1. /\ CallAt(c, "stop") /\ CallGoesOn(c) /\ stopSet' = TRUE /\ running' = FALSE
      /\ UNCHANGED <<pipeline, playing, pipelines, workers, crossed>>
  BY DEF Stop
<1>2. CameraTypeOK /\ calls[c] # <<>> /\ Head(calls[c]) = "stop"
  BY <1>1 DEF CameraIInv, CallAt
<1>3. /\ calls' \in Seq(CallsLeft) /\ DOMAIN calls' = DOMAIN calls
      /\ \A d \in DOMAIN calls :
            calls'[d] = IF d = c THEN Tail(calls[c]) ELSE calls[d]
  BY <1>1, <1>2, CallMoves
<1>4. Tail(calls[c]) # <<>> /\ Head(Tail(calls[c])) = "terminate"
  <2>1. calls[c] \in CallsLeft BY <1>2, ElementOfSeq DEF CameraTypeOK
  <2> QED BY <1>2, <2>1, CallTail
<1>5. Locked' BY <1>3, <1>4 DEF Locked, CallAt
<1>6. CameraTypeOK' BY <1>1, <1>3 DEF CameraIInv, CameraTypeOK
<1>7. StopsHold' BY <1>1 DEF StopsHold
<1>8. OneWorker' BY <1>1, <1>5 DEF CameraIInv, OneWorker, Ended
<1> QED BY <1>6, <1>7, <1>8 DEF CameraIInv

LEMMA CameraTerminates ==
    ASSUME CameraIInv, NEW c \in DOMAIN calls, Terminate(c) PROVE CameraIInv'
<1>1. /\ CallAt(c, "terminate") /\ CallGoesOn(c)
      /\ playing' = playing \ {pipeline}
      /\ pipeline' = IF pipeline \in playing THEN 0 ELSE pipeline
      /\ crossed' = (crossed \/ \E w \in DOMAIN workers : workers[w] = "launch")
      /\ UNCHANGED <<running, stopSet, pipelines, workers>>
  BY DEF Terminate
<1>2. CameraTypeOK /\ calls[c] # <<>> BY <1>1 DEF CameraIInv, CallAt
<1>3. calls' \in Seq(CallsLeft) BY <1>1, <1>2, CallMoves
<1>4. ~running /\ stopSet
  <2>1. Locked BY <1>1 DEF Locked
  <2> QED BY <2>1 DEF CameraIInv, StopsHold
<1>5. CameraTypeOK'
  <2>1. crossed' \in BOOLEAN BY <1>1, <1>2 DEF CameraTypeOK
  <2>2. pipeline' \in Nat /\ playing' \in SUBSET Nat
    BY <1>1, <1>2 DEF CameraTypeOK
  <2> QED BY <1>1, <1>2, <1>3, <2>1, <2>2 DEF CameraTypeOK
<1>6. StopsHold' BY <1>1, <1>4 DEF StopsHold
<1>7. OneWorker'
  <2> SUFFICES ASSUME ~crossed' PROVE OneWorker'
    BY DEF OneWorker
  <2>1. ~crossed /\ \A w \in DOMAIN workers : workers[w] # "launch" BY <1>1
  <2>2. playing' = {} BY <1>1, <2>1 DEF CameraIInv, OneWorker
  <2>3. \A v, w \in DOMAIN workers : Ended(v) \/ Ended(w) \/ v = w
    BY <2>1 DEF CameraIInv, OneWorker
  <2> QED BY <1>1, <2>1, <2>2, <2>3 DEF OneWorker, Ended
<1> QED BY <1>5, <1>6, <1>7 DEF CameraIInv

LEMMA WorkerMoves ==
    ASSUME CameraTypeOK, NEW w \in DOMAIN workers, NEW place \in WorkerPlaces,
           Move(w, place)
    PROVE  /\ workers' \in Seq(WorkerPlaces) /\ DOMAIN workers' = DOMAIN workers
           /\ \A v \in DOMAIN workers :
                 workers'[v] = IF v = w THEN place ELSE workers[v]
           /\ workers # <<>>
<1>1. /\ workers \in Seq(WorkerPlaces) /\ DOMAIN workers = 1..Len(workers)
      /\ workers' = [workers EXCEPT ![w] = place]
  BY DEF CameraTypeOK, Move
<1>2. /\ workers' \in Seq(WorkerPlaces) /\ Len(workers') = Len(workers)
      /\ \A v \in 1..Len(workers) :
            workers'[v] = IF v = w THEN place ELSE workers[v]
  BY <1>1, ExceptSeq
<1>3. DOMAIN workers' = 1..Len(workers) BY <1>2, LenProperties
<1>4. workers # <<>> BY <1>1, EmptySeq
<1> QED BY <1>1, <1>2, <1>3, <1>4

(* The steps of a worker: what the lock and the requests have stays.       *)
LEMMA WorkerSteps ==
    ASSUME CameraIInv, NEW w \in DOMAIN workers, NEW place \in WorkerPlaces,
           Move(w, place), UNCHANGED <<running, stopSet, calls, crossed>>,
           pipeline' \in Nat, pipelines' \in Nat, playing' \in SUBSET Nat,
           workers[w] # "ended",
           place = "ended" => stopSet,
           ~crossed =>
              /\ playing' \subseteq {pipeline'}
              /\ place = "top" => stopSet \/ playing' = {}
              /\ place = "launch" => playing' = {} /\ ~stopSet
              /\ ~running /\ ~Locked => playing' = {}
    PROVE  CameraIInv'
<1>1. /\ workers' \in Seq(WorkerPlaces) /\ DOMAIN workers' = DOMAIN workers
      /\ \A v \in DOMAIN workers :
            workers'[v] = IF v = w THEN place ELSE workers[v]
      /\ workers # <<>>
  BY WorkerMoves DEF CameraIInv
<1>2. CameraTypeOK' BY <1>1 DEF CameraIInv, CameraTypeOK
<1>3. Locked' <=> Locked BY DEF Locked, CallAt
<1>4. StopsHold'
  <2>1. running => \E v \in DOMAIN workers' : workers'[v] # "ended"
    <3> SUFFICES ASSUME running PROVE workers'[w] # "ended"
      BY <1>1
    <3> QED BY <1>1 DEF CameraIInv, StopsHold
  <2>2. ~running => stopSet BY <1>1 DEF CameraIInv, StopsHold
  <2> QED BY <1>3, <2>1, <2>2 DEF CameraIInv, StopsHold, Ended
<1>5. OneWorker'
  <2> SUFFICES ASSUME ~crossed PROVE OneWorker'
    BY DEF OneWorker
  <2>1. \A v \in DOMAIN workers : v = w \/ workers[v] = "ended"
    BY DEF CameraIInv, OneWorker, Ended
  <2>2. \A v \in DOMAIN workers' : v = w \/ workers'[v] = "ended" BY <1>1, <2>1
  <2>3. workers'[w] = place BY <1>1
  <2>4. ~running => stopSet BY <1>1 DEF CameraIInv, StopsHold
  <2>5. \A u, v \in DOMAIN workers' :
          workers'[u] = "ended" \/ workers'[v] = "ended" \/ u = v
    BY <2>2
  <2>6. \A v \in DOMAIN workers' :
          /\ workers'[v] = "top" => stopSet' \/ playing' = {}
          /\ workers'[v] = "launch" => playing' = {}
          /\ ~running => workers'[v] # "launch"
    BY <2>2, <2>3, <2>4
  <2> QED BY <1>3, <2>5, <2>6 DEF OneWorker, Ended
<1> QED BY <1>2, <1>4, <1>5 DEF CameraIInv

LEMMA CameraWorks ==
    ASSUME CameraIInv, NEW w \in DOMAIN workers, Work(w) PROVE CameraIInv'
<1> USE DEF WorkerPlaces
<1>1. /\ pipeline \in Nat /\ pipelines \in Nat /\ playing \in SUBSET Nat
      /\ ~running /\ ~Locked /\ ~crossed =>
            playing = {} /\ workers[w] # "launch"
      /\ ~crossed => playing \subseteq {pipeline}
      /\ ~crossed /\ workers[w] = "top" => stopSet \/ playing = {}
      /\ ~crossed /\ workers[w] = "launch" => playing = {}
  BY DEF CameraIInv, CameraTypeOK, OneWorker
<1>2. CASE WorkerTop(w)
  <2>1. /\ workers[w] = "top" /\ Move(w, IF stopSet THEN "ended" ELSE "launch")
        /\ UNCHANGED <<running, stopSet, pipeline, playing, pipelines, calls,
                       crossed>>
    BY <1>2 DEF WorkerTop
  <2>2. CASE stopSet
    <3>1. Move(w, "ended") BY <2>1, <2>2
    <3> QED BY <1>1, <2>1, <2>2, <3>1, WorkerSteps
  <2>3. CASE ~stopSet
    <3>1. Move(w, "launch") BY <2>1, <2>3
    <3> QED BY <1>1, <2>1, <2>3, <3>1, WorkerSteps
  <2> QED BY <2>2, <2>3
<1>3. CASE Launch(w)
  <2>1. /\ workers[w] = "launch" /\ Move(w, "watch")
        /\ pipelines' = pipelines + 1 /\ pipeline' = pipelines + 1
        /\ playing' = playing \cup {pipelines + 1}
        /\ UNCHANGED <<running, stopSet, calls, crossed>>
    BY <1>3 DEF Launch
  <2>2. /\ pipeline' \in Nat /\ pipelines' \in Nat /\ playing' \in SUBSET Nat
        /\ ~crossed => playing' \subseteq {pipeline'}
    BY <1>1, <2>1
  <2> QED BY <1>1, <2>1, <2>2, WorkerSteps
<1>4. CASE LaunchFails(w)
  <2>1. /\ workers[w] = "launch" /\ Move(w, "top")
        /\ UNCHANGED <<running, stopSet, pipeline, playing, pipelines, calls,
                       crossed>>
    BY <1>4 DEF LaunchFails
  <2> QED BY <1>1, <2>1, WorkerSteps
<1>5. CASE Watch(w)
  <2>1. /\ workers[w] = "watch" /\ Move(w, "top")
        /\ stopSet \/ pipeline \notin playing
        /\ UNCHANGED <<running, stopSet, pipeline, playing, pipelines, calls,
                       crossed>>
    BY <1>5 DEF Watch
  <2>2. ~crossed => stopSet \/ playing = {} BY <1>1, <2>1
  <2> QED BY <1>1, <2>1, <2>2, WorkerSteps
<1> QED BY <1>2, <1>3, <1>4, <1>5 DEF Work

LEMMA CameraInduction ==
    ASSUME CameraIInv, [CameraNext]_streamVars PROVE CameraIInv'
<1>1. ASSUME NEW action \in {"start", "stop", "restart"}, Call(action)
      PROVE  CameraIInv'
  BY <1>1, CameraCalls
<1>2. ASSUME NEW c \in DOMAIN calls, CallStep(c) PROVE CameraIInv'
  BY <1>2, CameraStarts, CameraStops, CameraTerminates DEF CallStep
<1>3. ASSUME NEW w \in DOMAIN workers, Work(w) PROVE CameraIInv'
  BY <1>3, CameraWorks
<1>4. CASE PipelineEnds
  <2>1. /\ playing' \subseteq playing
        /\ UNCHANGED <<running, stopSet, pipeline, pipelines, workers, calls,
                       crossed>>
    BY <1>4 DEF PipelineEnds
  <2>2. Locked' <=> Locked BY <2>1 DEF Locked, CallAt
  <2>3. CameraTypeOK' BY <2>1 DEF CameraIInv, CameraTypeOK
  <2>4. StopsHold' BY <2>1, <2>2 DEF CameraIInv, StopsHold, Ended
  <2>5. OneWorker' BY <2>1, <2>2 DEF CameraIInv, OneWorker, Ended
  <2> QED BY <2>3, <2>4, <2>5 DEF CameraIInv
<1>5. CASE UNCHANGED streamVars
  <2>1. UNCHANGED <<running, stopSet, pipeline, playing, pipelines, workers,
                    calls, crossed>>
    BY <1>5 DEF streamVars
  <2>2. Locked' <=> Locked BY <2>1 DEF Locked, CallAt
  <2>3. CameraTypeOK' BY <2>1 DEF CameraIInv, CameraTypeOK
  <2>4. StopsHold' BY <2>1, <2>2 DEF CameraIInv, StopsHold, Ended
  <2>5. OneWorker' BY <2>1, <2>2 DEF CameraIInv, OneWorker, Ended
  <2> QED BY <2>3, <2>4, <2>5 DEF CameraIInv
<1> QED BY <1>1, <1>2, <1>3, <1>4, <1>5 DEF CameraNext

(* However requests, workers and pipelines interleave, what runs has a     *)
(* worker that goes on, and after a stop nothing plays on but what a       *)
(* worker was just launching or another worker's launch has hidden         *)
(* (StreamManager.start, stop and _stream_worker): for any number of       *)
(* requests and pipelines.                                                 *)
THEOREM StreamsFollow == CameraSpec => []StreamFollowsRequests
<1>1. CameraInit => CameraIInv BY CameraInitially
<1>2. CameraIInv /\ [CameraNext]_streamVars => CameraIInv' BY CameraInduction
<1>3. CameraIInv => StreamFollowsRequests
  BY DEF CameraIInv, StopsHold, OneWorker, StreamFollowsRequests
<1> QED BY <1>1, <1>2, <1>3, PTL DEF CameraSpec

-----------------------------------------------------------------------------
(* The UE of the OTT portal after a stop at its console.                   *)

(* The fields of the records.                                              *)
OttShape ==
    /\ entry = [state |-> entry.state, video |-> entry.video]
    /\ client = [on |-> client.on, video |-> client.video,
                 started |-> client.started]
    /\ client.on \in BOOLEAN
    /\ beat = [pc |-> beat.pc, state |-> beat.state, video |-> beat.video,
               last |-> beat.last]
    /\ watch = [pc |-> watch.pc, video |-> watch.video]

(* From a console's stop to the next start no thread of the UE, and no     *)
(* heartbeat under way, carries "STREAMING", wherever it is.               *)
NothingTurnsOn ==
    order = "console stop" =>
        /\ ~client.on /\ watch.pc = "idle"
        /\ beat.pc \in {"idle", "sent", "updated", "answered"}
        /\ beat.pc \in {"sent", "answered"} => beat.state # "STREAMING"
        /\ beat.pc = "updated" => entry.state # "STREAMING"

OttIInv == OttShape /\ NothingTurnsOn


LEMMA OttInitially == ASSUME OttInit PROVE OttIInv
BY DEF OttInit, Off, Idle, Asleep, OttIInv, OttShape, NothingTurnsOn

LEMMA OttInduction == ASSUME OttIInv, [OttNext]_ottVars PROVE OttIInv'
<1> USE DEF OttIInv, OttShape, NothingTurnsOn
<1>1. ASSUME NEW kind, NEW v, Request(kind, v) PROVE OttIInv'
  BY <1>1 DEF Request
<1>2. ASSUME NEW j \in DOMAIN jobs, Handle(j) PROVE OttIInv'
  <2>1. ASSUME NEW step, NEW state, NEW o, Tell(j, step, state, o),
               o \in {"start", "portal stop"} \/ (o = order /\ state = "STOPPED")
        PROVE  OttIInv'
    BY <2>1 DEF Tell, Known
  <2>2. CASE TellStart(j) BY <2>1, <2>2 DEF TellStart
  <2>3. CASE TellStop(j) BY <2>1, <2>3 DEF TellStop
  <2>4. CASE PortalStop(j) BY <2>1, <2>4 DEF PortalStop
  <2>5. CASE TellFails(j) BY <2>5 DEF TellFails
  <2>6. CASE Assign(j)
    <3>1. UNCHANGED <<client, beat, watch>> BY <2>6 DEF Assign
    <3>2. CASE Known
      <4>1. /\ entry' = [state |-> "STREAMING", video |-> jobs[j].video]
            /\ order' = "start"
        BY <2>6, <3>2 DEF Assign
      <4> QED BY <3>1, <4>1
    <3>3. CASE ~Known BY <2>6, <3>1, <3>3 DEF Assign
    <3> QED BY <3>2, <3>3
  <2>7. CASE Select(j) BY <2>7 DEF Select
  <2>8. CASE Navigate(j) BY <2>8 DEF Navigate
  <2>9. CASE Adopt(j) BY <2>9 DEF Adopt
  <2>10. CASE PlayFails(j) BY <2>10 DEF PlayFails
  <2>11. CASE TurnOn(j) BY <2>11 DEF TurnOn
  <2>12. CASE TurnOff(j) BY <2>12 DEF TurnOff
  <2>13. CASE BlankPage(j) BY <2>13 DEF BlankPage
  <2> QED
    BY <1>2, <2>2, <2>3, <2>4, <2>5, <2>6, <2>7, <2>8, <2>9, <2>10, <2>11, <2>12,
       <2>13 DEF Handle
<1>3. CASE Autostart BY <1>3 DEF Autostart
<1>4. CASE BeatSend BY <1>4 DEF BeatSend
<1>5. CASE BeatUpdate BY <1>5 DEF BeatUpdate
<1>6. CASE BeatAnswer BY <1>6 DEF BeatAnswer
<1>7. CASE BeatApply BY <1>7 DEF BeatApply, Back, Idle
<1>8. CASE BeatFails BY <1>8 DEF BeatFails, Back, Idle
<1>9. CASE WatchRead BY <1>9 DEF WatchRead
<1>10. CASE WatchOK BY <1>10 DEF WatchOK, Asleep
<1>11. CASE WatchReload BY <1>11 DEF WatchReload, Asleep
<1>12. CASE PortalForgets BY <1>12 DEF PortalForgets, Back, Idle
<1>13. CASE ClientRestarts BY <1>13 DEF ClientRestarts, Off, Idle, Asleep
<1>14. CASE UNCHANGED ottVars BY <1>14 DEF ottVars
<1> QED
  BY <1>1, <1>2, <1>3, <1>4, <1>5, <1>6, <1>7, <1>8, <1>9, <1>10, <1>11, <1>12,
     <1>13, <1>14 DEF OttNext

(* A stop at the console of a UE stands until something starts it again    *)
(* (disable_streaming, _heartbeat_loop and _playback_watchdog_loop of the  *)
(* UE, client_heartbeat of the portal), whatever the portal has on record  *)
(* and however many requests, restarts and heartbeats there are.           *)
THEOREM ConsoleStops == OttSpec => []ConsoleStopStands
<1>1. OttInit => OttIInv BY OttInitially
<1>2. OttIInv /\ [OttNext]_ottVars => OttIInv' BY OttInduction
<1>3. OttIInv => ConsoleStopStands
  BY DEF OttIInv, NothingTurnsOn, ConsoleStopStands
<1> QED BY <1>1, <1>2, <1>3, PTL DEF OttSpec
-----------------------------------------------------------------------------
(* The iperf3 supervisor.                                                  *)

Threads == {Supervisor} \cup Requests

Steps == {"apply", "turn on", "turn off", "reload", "find", "end", "drop"}

(* What may follow the i-th step that is left: a kill is whole.            *)
InPlace(s, i) ==
    /\ s[i] = "apply" =>
          /\ i < Len(s)
          /\ s[i + 1] \in {"turn on", "turn off", "reload"}
          /\ s[i + 1] = "turn on" => i + 1 < Len(s)
    /\ s[i] = "turn on" =>
          i = Len(s) \/ (i + 3 = Len(s) /\ s[i + 1] = "find")
    /\ s[i] = "turn off" => i < Len(s) /\ s[i + 1] = "find"
    /\ s[i] = "reload" => i + 3 = Len(s) /\ s[i + 1] = "find"
    /\ s[i] = "find" =>
          i + 2 <= Len(s) /\ s[i + 1] = "end" /\ s[i + 2] = "drop"
    /\ s[i] = "end" => i < Len(s) /\ s[i + 1] = "drop"
    /\ s[i] = "drop" =>
          i = Len(s) \/ (i + 1 = Len(s) /\ s[i + 1] = "turn on")

(* What a thread has left.                                                 *)
StepsLeft == {s \in Seq(Steps) : \A i \in 1..Len(s) : InPlace(s, i)}

KillsLeft ==
    {s \in StepsLeft :
        \A i \in 1..Len(s) :
            /\ s[i] \in {"find", "end", "drop"}
            /\ s[i] = "drop" => i = Len(s)}

SupervisorPlaces ==
    {"top", "command", "spawn", "publish", "reading", "leaving", "waiting"}

IperfTypeOK ==
    /\ wanted \in BOOLEAN /\ args \in 0..MaxRequests
    /\ launched \in Seq(0..MaxRequests)
    /\ handle \in 0..Len(launched)
    /\ alive \in SUBSET (1..Len(launched))
    /\ supervisor \in [pc : SupervisorPlaces, args : 0..MaxRequests]
    /\ todo \in [Threads -> StepsLeft]
    /\ todo[Supervisor] \in KillsLeft
    /\ found \in [Threads -> -1..Len(launched)]
    /\ missed \in SUBSET Nat

(* Threads that kill: what they have found is a process, which is dead     *)
(* once they are to drop the handle.  A request begins once.               *)
KillsInOrder ==
    \A a \in Threads :
        /\ AtStep(a, "end") \/ AtStep(a, "drop") => found[a] > 0
        /\ AtStep(a, "drop") => found[a] \notin alive
        /\ a \in Requests /\ found[a] = -1 => ~Busy(a)

(* The supervisor and its process.  Only the latest launch is alive, and   *)
(* unless it is about to be published the handle is empty only when it is  *)
(* dead: so there is nothing alive when the supervisor launches.           *)
OneProcess ==
    /\ alive \subseteq {Len(launched)}
    /\ handle \in {0, Len(launched)}
    /\ supervisor.pc # "publish" /\ handle = 0 => alive = {}
    /\ supervisor.pc \in {"command", "spawn", "publish"} => handle = 0
    /\ supervisor.pc = "top" /\ ~Busy(Supervisor) => handle = 0
    /\ Busy(Supervisor) => supervisor.pc = "top"
    /\ AtStep(Supervisor, "end") \/ AtStep(Supervisor, "drop") =>
          found[Supervisor] = Len(launched)

(* A request that is certain to look for a process to kill.                *)
WillFind(a) ==
    \/ AtStep(a, "find")
    \/ /\ wanted
       /\ \/ AtStep(a, "turn off") \/ AtStep(a, "reload")
          \/ AtStep(a, "turn on") /\ Len(todo[a]) > 1

(* A process that a kill missed, or that a request is going to kill.       *)
Doomed(p) ==
    \/ p \in missed
    \/ \E a \in Requests :
          WillFind(a) \/ (AtStep(a, "end") /\ found[a] = p)

(* A process that is not what is wanted, or not wanted, is doomed; and so  *)
(* is one about to be launched.                                            *)
OutdatedEnds ==
    /\ \A p \in alive : launched[p] # args \/ ~wanted => Doomed(p)
    /\ \/ supervisor.pc = "command" /\ ~wanted
       \/ supervisor.pc = "spawn" /\ (supervisor.args # args \/ ~wanted)
       => Doomed(Len(launched) + 1)

IperfIInv == IperfTypeOK /\ KillsInOrder /\ OneProcess /\ OutdatedEnds

(* What is left of s after n steps.                                        *)
Rest(s, n) == SubSeq(s, n + 1, Len(s))

LEMMA RestOfSteps ==
    ASSUME NEW s \in Seq(Steps), NEW n \in 1..4
    PROVE  /\ Rest(s, n) \in Seq(Steps)
           /\ Len(Rest(s, n)) = IF n <= Len(s) THEN Len(s) - n ELSE 0
           /\ \A i \in 1..Len(Rest(s, n)) :
                 i + n \in 1..Len(s) /\ Rest(s, n)[i] = s[i + n]
<1>1. Len(s) \in Nat /\ n \in Nat /\ n + 1 \in Int /\ Len(s) \in Int OBVIOUS
<1>2. \A i \in (n + 1)..Len(s) : s[i] \in Steps
  <2> TAKE i \in (n + 1)..Len(s)
  <2>1. i \in 1..Len(s) BY <1>1
  <2> QED BY <2>1, ElementOfSeq
<1> DEFINE m == n + 1
<1>3. m \in Int /\ \A i \in m..Len(s) : s[i] \in Steps BY <1>1, <1>2
<1> HIDE DEF m
<1>4. /\ SubSeq(s, m, Len(s)) \in Seq(Steps)
      /\ Len(SubSeq(s, m, Len(s))) = IF m <= Len(s) THEN Len(s) - m + 1 ELSE 0
      /\ \A i \in 1..Len(s) - m + 1 : SubSeq(s, m, Len(s))[i] = s[m + i - 1]
  BY <1>1, <1>3, SubSeqProperties
<1>5. Rest(s, n) = SubSeq(s, m, Len(s)) /\ m = n + 1 BY DEF Rest, m
<1>6. Len(Rest(s, n)) = IF n <= Len(s) THEN Len(s) - n ELSE 0 BY <1>1, <1>4, <1>5
<1>7. ASSUME NEW i \in 1..Len(Rest(s, n))
      PROVE  i + n \in 1..Len(s) /\ Rest(s, n)[i] = s[i + n]
  <2>1. i \in 1..Len(s) - m + 1 /\ m + i - 1 = i + n /\ i + n \in 1..Len(s)
    BY <1>1, <1>5, <1>6
  <2> QED BY <1>4, <1>5, <2>1
<1> QED BY <1>4, <1>5, <1>6, <1>7

LEMMA RestIsLeft ==
    ASSUME NEW s \in StepsLeft, NEW n \in 1..4 PROVE Rest(s, n) \in StepsLeft
<1> DEFINE t == Rest(s, n)
<1>1. s \in Seq(Steps) BY DEF StepsLeft
<1>2. /\ t \in Seq(Steps)
      /\ Len(t) = IF n <= Len(s) THEN Len(s) - n ELSE 0
      /\ \A i \in 1..Len(t) : i + n \in 1..Len(s) /\ t[i] = s[i + n]
  BY <1>1, RestOfSteps
<1> HIDE DEF t
<1>3. Len(s) \in Nat /\ Len(t) \in Nat BY <1>1, <1>2
<1>4. ASSUME NEW i \in 1..Len(t) PROVE InPlace(t, i)
  <2> DEFINE k == i + n
  <2>1. k \in 1..Len(s) /\ t[i] = s[k] /\ Len(t) = Len(s) - n BY <1>2, <1>3
  <2>2. i + 1 <= Len(t) => t[i + 1] = s[k + 1]
    <3>1. i + 1 <= Len(t) => i + 1 \in 1..Len(t) BY <1>3
    <3>2. (i + 1) + n = k + 1 OBVIOUS
    <3> QED BY <1>2, <3>1, <3>2
  <2>3. i + 2 <= Len(t) => t[i + 2] = s[k + 2]
    <3>1. i + 2 <= Len(t) => i + 2 \in 1..Len(t) BY <1>3
    <3>2. (i + 2) + n = k + 2 OBVIOUS
    <3> QED BY <1>2, <3>1, <3>2
  <2>4. /\ s[k] = "apply" =>
             /\ k < Len(s)
             /\ s[k + 1] \in {"turn on", "turn off", "reload"}
             /\ s[k + 1] = "turn on" => k + 1 < Len(s)
        /\ s[k] = "turn on" =>
             k = Len(s) \/ (k + 3 = Len(s) /\ s[k + 1] = "find")
        /\ s[k] = "turn off" => k < Len(s) /\ s[k + 1] = "find"
        /\ s[k] = "reload" => k + 3 = Len(s) /\ s[k + 1] = "find"
        /\ s[k] = "find" =>
             k + 2 <= Len(s) /\ s[k + 1] = "end" /\ s[k + 2] = "drop"
        /\ s[k] = "end" => k < Len(s) /\ s[k + 1] = "drop"
        /\ s[k] = "drop" =>
             k = Len(s) \/ (k + 1 = Len(s) /\ s[k + 1] = "turn on")
    BY <2>1 DEF StepsLeft, InPlace
  <2>5. /\ k < Len(s) <=> i + 1 <= Len(t)
        /\ k + 1 < Len(s) <=> i + 1 < Len(t)
        /\ k + 2 <= Len(s) <=> i + 2 <= Len(t)
        /\ k = Len(s) <=> i = Len(t)
        /\ k + 1 = Len(s) <=> i + 1 = Len(t)
        /\ k + 3 = Len(s) <=> i + 3 = Len(t)
        /\ i < Len(t) <=> i + 1 <= Len(t)
        /\ i + 3 = Len(t) => i + 1 <= Len(t)
        /\ i + 1 = Len(t) => i + 1 <= Len(t)
        /\ i + 2 <= Len(t) => i + 1 <= Len(t)
    BY <1>3, <2>1
  <2> HIDE DEF k
  <2> QED BY <2>1, <2>2, <2>3, <2>4, <2>5 DEF InPlace
<1>5. t \in StepsLeft BY <1>2, <1>4 DEF StepsLeft
<1> QED BY <1>5 DEF t

LEMMA RestIsKill ==
    ASSUME NEW s \in KillsLeft, NEW n \in 1..4 PROVE Rest(s, n) \in KillsLeft
<1>1. s \in StepsLeft /\ s \in Seq(Steps) /\ Len(s) \in Nat
  <2>1. s \in StepsLeft BY DEF KillsLeft
  <2>2. s \in Seq(Steps) BY <2>1 DEF StepsLeft
  <2> QED BY <2>1, <2>2, LenProperties
<1>2. Rest(s, n) \in StepsLeft BY <1>1, RestIsLeft
<1>3. /\ Len(Rest(s, n)) = IF n <= Len(s) THEN Len(s) - n ELSE 0
      /\ \A i \in 1..Len(Rest(s, n)) :
            i + n \in 1..Len(s) /\ Rest(s, n)[i] = s[i + n]
  BY <1>1, RestOfSteps
<1>4. ASSUME NEW i \in 1..Len(Rest(s, n))
      PROVE  /\ Rest(s, n)[i] \in {"find", "end", "drop"}
             /\ Rest(s, n)[i] = "drop" => i = Len(Rest(s, n))
  <2>1. i + n \in 1..Len(s) /\ Rest(s, n)[i] = s[i + n] BY <1>3
  <2>2. s[i + n] \in {"find", "end", "drop"} /\ (s[i + n] = "drop" => i + n = Len(s))
    BY <2>1 DEF KillsLeft
  <2> QED BY <1>1, <1>3, <2>1, <2>2
<1> QED BY <1>2, <1>4 DEF KillsLeft

(* Where a thread is after n steps.                                        *)
LEMMA StepAfter ==
    ASSUME NEW s \in StepsLeft, s # <<>>
    PROVE  /\ Head(s) = "apply" =>
                 /\ Rest(s, 1) # <<>>
                 /\ Head(Rest(s, 1)) \in {"turn on", "turn off", "reload"}
                 /\ Head(Rest(s, 1)) = "turn on" => Len(Rest(s, 1)) > 1
           /\ Head(s) = "turn on" =>
                 /\ Rest(s, 1) = <<>> \/ Head(Rest(s, 1)) = "find"
                 /\ Len(s) > 1 => Rest(s, 1) # <<>>
                 /\ Rest(s, 4) = <<>>
           /\ Head(s) \in {"turn off", "reload"} =>
                 Rest(s, 1) # <<>> /\ Head(Rest(s, 1)) = "find"
           /\ Head(s) = "reload" => Rest(s, 4) = <<>>
           /\ Head(s) = "find" =>
                 /\ Rest(s, 1) # <<>> /\ Head(Rest(s, 1)) = "end"
                 /\ Rest(s, 3) = <<>> \/ (Head(Rest(s, 3)) = "turn on" /\ Len(Rest(s, 3)) = 1)
           /\ Head(s) = "end" => Rest(s, 1) # <<>> /\ Head(Rest(s, 1)) = "drop"
           /\ Head(s) = "drop" =>
                 Rest(s, 1) = <<>> \/ (Head(Rest(s, 1)) = "turn on" /\ Len(Rest(s, 1)) = 1)
<1>1. s \in Seq(Steps) BY DEF StepsLeft
<1>2. Len(s) \in Nat /\ Len(s) > 0 /\ Head(s) = s[1] BY <1>1, EmptySeq
<1>3. ASSUME NEW n \in 1..4
      PROVE  /\ Rest(s, n) # <<>> <=> n < Len(s)
             /\ n < Len(s) => /\ Head(Rest(s, n)) = s[n + 1]
                              /\ Len(Rest(s, n)) = Len(s) - n
  <2> DEFINE t == Rest(s, n)
  <2>1. /\ t \in Seq(Steps)
        /\ Len(t) = IF n <= Len(s) THEN Len(s) - n ELSE 0
        /\ \A i \in 1..Len(t) : i + n \in 1..Len(s) /\ t[i] = s[i + n]
    BY <1>1, RestOfSteps
  <2> HIDE DEF t
  <2>2. t # <<>> <=> n < Len(s) BY <1>2, <2>1, EmptySeq
  <2>3. ASSUME n < Len(s) PROVE Head(t) = s[n + 1] /\ Len(t) = Len(s) - n
    <3>1. Len(t) = Len(s) - n /\ 1 \in 1..Len(t) BY <1>2, <2>1, <2>3
    <3>2. t[1] = s[1 + n] /\ 1 + n = n + 1 BY <2>1, <3>1
    <3>3. Head(t) = t[1] BY <2>1, <2>2, <2>3
    <3> QED BY <3>1, <3>2, <3>3
  <2> QED BY <2>2, <2>3 DEF t
<1>4. 1 \in 1..Len(s) BY <1>2
<1>5. /\ s[1] = "apply" =>
           /\ 1 < Len(s)
           /\ s[1 + 1] \in {"turn on", "turn off", "reload"}
           /\ s[1 + 1] = "turn on" => 1 + 1 < Len(s)
      /\ s[1] = "turn on" =>
           1 = Len(s) \/ (1 + 3 = Len(s) /\ s[1 + 1] = "find")
      /\ s[1] = "turn off" => 1 < Len(s) /\ s[1 + 1] = "find"
      /\ s[1] = "reload" => 1 + 3 = Len(s) /\ s[1 + 1] = "find"
      /\ s[1] = "find" =>
           1 + 2 <= Len(s) /\ s[1 + 1] = "end" /\ s[1 + 2] = "drop"
      /\ s[1] = "end" => 1 < Len(s) /\ s[1 + 1] = "drop"
      /\ s[1] = "drop" =>
           1 = Len(s) \/ (1 + 1 = Len(s) /\ s[1 + 1] = "turn on")
  BY <1>4 DEF StepsLeft, InPlace
<1>6. 1 + 1 = 2 /\ 1 + 2 = 3 /\ 1 + 3 = 4 /\ 3 + 1 = 4 /\ 4 + 1 = 5 OBVIOUS
<1>7. s[1] = "find" /\ 3 < Len(s) => 4 = Len(s) /\ s[4] = "turn on"
  <2> SUFFICES ASSUME s[1] = "find", 3 < Len(s) PROVE 4 = Len(s) /\ s[4] = "turn on"
    OBVIOUS
  <2>1. 3 \in 1..Len(s) BY <1>2
  <2>2. s[3] = "drop" BY <1>5, <1>6
  <2>3. \A i \in 1..Len(s) :
          s[i] = "drop" => i = Len(s) \/ (i + 1 = Len(s) /\ s[i + 1] = "turn on")
    BY DEF StepsLeft, InPlace
  <2>4. 3 = Len(s) \/ (3 + 1 = Len(s) /\ s[3 + 1] = "turn on") BY <2>1, <2>2, <2>3
  <2>5. 3 # Len(s)
    <3>1. \A n \in Nat : 3 < n => 3 # n OBVIOUS
    <3> QED BY <1>2, <3>1
  <2>6. 4 = Len(s) /\ s[3 + 1] = "turn on" BY <1>6, <2>4, <2>5
  <2> QED BY <1>6, <2>6
<1>8. /\ Rest(s, 1) # <<>> <=> 1 < Len(s)
      /\ 1 < Len(s) => Head(Rest(s, 1)) = s[2] /\ Len(Rest(s, 1)) = Len(s) - 1
      /\ Rest(s, 3) # <<>> <=> 3 < Len(s)
      /\ 3 < Len(s) => Head(Rest(s, 3)) = s[4] /\ Len(Rest(s, 3)) = Len(s) - 3
      /\ Rest(s, 4) # <<>> <=> 4 < Len(s)
  <2>1. 1 \in 1..4 /\ 3 \in 1..4 /\ 4 \in 1..4 OBVIOUS
  <2> QED BY <1>3, <1>6, <2>1
<1> DEFINE one == Rest(s, 1)
           three == Rest(s, 3)
           four == Rest(s, 4)
           len == Len(s)
<1>9. /\ one # <<>> <=> 1 < len
      /\ 1 < len => Head(one) = s[2] /\ Len(one) = len - 1
      /\ three # <<>> <=> 3 < len
      /\ 3 < len => Head(three) = s[4] /\ Len(three) = len - 3
      /\ four # <<>> <=> 4 < len
      /\ len \in Nat /\ len > 0
  BY <1>2, <1>8
<1>10. /\ s[1] = "apply" =>
            /\ 1 < len /\ s[2] \in {"turn on", "turn off", "reload"}
            /\ s[2] = "turn on" => 2 < len
       /\ s[1] = "turn on" => 1 = len \/ (4 = len /\ s[2] = "find")
       /\ s[1] = "turn off" => 1 < len /\ s[2] = "find"
       /\ s[1] = "reload" => 4 = len /\ s[2] = "find"
       /\ s[1] = "find" => 3 <= len /\ s[2] = "end"
       /\ s[1] = "find" /\ 3 < len => 4 = len /\ s[4] = "turn on"
       /\ s[1] = "end" => 1 < len /\ s[2] = "drop"
       /\ s[1] = "drop" => 1 = len \/ (2 = len /\ s[2] = "turn on")
  BY <1>5, <1>6, <1>7
<1> HIDE DEF one, three, four, len
<1>11. ASSUME s[1] = "apply"
       PROVE  /\ one # <<>> /\ Head(one) \in {"turn on", "turn off", "reload"}
              /\ Head(one) = "turn on" => Len(one) > 1
  <2>1. 1 < len /\ s[2] \in {"turn on", "turn off", "reload"} BY <1>10, <1>11
  <2>2. s[2] = "turn on" => 2 < len BY <1>10, <1>11
  <2>3. one # <<>> /\ Head(one) = s[2] /\ Len(one) = len - 1 BY <1>9, <2>1
  <2>4. 2 < len => len - 1 > 1 BY <1>9
  <2> QED BY <2>1, <2>2, <2>3, <2>4
<1>12. ASSUME s[1] = "turn on"
       PROVE  /\ one = <<>> \/ Head(one) = "find"
              /\ len > 1 => one # <<>>
              /\ four = <<>>
  <2>1. 1 = len \/ (4 = len /\ s[2] = "find") BY <1>10, <1>12
  <2>2. CASE len = 1
    <3>1. ~(1 < len) /\ ~(4 < len) /\ ~(len > 1) BY <2>2
    <3> QED BY <1>9, <3>1
  <2>3. CASE len = 4 /\ s[2] = "find"
    <3>1. 1 < len /\ ~(4 < len) BY <2>3
    <3> QED BY <1>9, <2>3, <3>1
  <2> QED BY <2>1, <2>2, <2>3
<1>13. ASSUME s[1] \in {"turn off", "reload"}
       PROVE  one # <<>> /\ Head(one) = "find" /\ (s[1] = "reload" => four = <<>>)
  <2>1. s[2] = "find" BY <1>10, <1>13
  <2>2. 1 < len
    <3>1. s[1] = "turn off" => 1 < len BY <1>10
    <3>2. s[1] = "reload" => 4 = len BY <1>10
    <3>3. 4 = len => 1 < len OBVIOUS
    <3> QED BY <1>13, <3>1, <3>2, <3>3
  <2>3. s[1] = "reload" => ~(4 < len)
    <3>1. s[1] = "reload" => 4 = len BY <1>10
    <3> QED BY <3>1
  <2> QED BY <1>9, <2>1, <2>2, <2>3
<1>14. ASSUME s[1] = "find"
       PROVE  /\ one # <<>> /\ Head(one) = "end"
              /\ three = <<>> \/ (Head(three) = "turn on" /\ Len(three) = 1)
  <2>1. 3 <= len /\ s[2] = "end" BY <1>10, <1>14
  <2>2. 1 < len BY <1>9, <2>1
  <2>3. one # <<>> /\ Head(one) = "end" BY <1>9, <2>1, <2>2
  <2>4. CASE 3 < len
    <3>1. len = 4 /\ s[4] = "turn on" BY <1>10, <1>14, <2>4
    <3>2. Head(three) = s[4] /\ Len(three) = len - 3 BY <1>9, <2>4
    <3>3. len = 4 BY <3>1
    <3>4. len - 3 = 1 BY <3>3
    <3> QED BY <2>3, <3>1, <3>2, <3>4
  <2>5. CASE ~(3 < len) BY <1>9, <2>3, <2>5
  <2> QED BY <2>4, <2>5
<1>15. ASSUME s[1] = "end" PROVE one # <<>> /\ Head(one) = "drop"
  <2>1. 1 < len /\ s[2] = "drop" BY <1>10, <1>15
  <2> QED BY <1>9, <2>1
<1>16. ASSUME s[1] = "drop"
       PROVE  one = <<>> \/ (Head(one) = "turn on" /\ Len(one) = 1)
  <2>1. 1 = len \/ (2 = len /\ s[2] = "turn on") BY <1>10, <1>16
  <2>2. CASE len = 1
    <3>1. ~(1 < len) BY <2>2
    <3> QED BY <1>9, <3>1
  <2>3. CASE len = 2 /\ s[2] = "turn on"
    <3>1. len = 2 BY <2>3
    <3>2. 1 < len /\ len - 1 = 1 BY <3>1
    <3>3. Len(one) = 1 /\ Head(one) = "turn on" BY <1>9, <2>3, <3>2
    <3> QED BY <3>3
  <2> QED BY <2>1, <2>2, <2>3
<1> QED
  BY <1>2, <1>11, <1>12, <1>13, <1>14, <1>15, <1>16 DEF one, three, four, len

LEMMA KillStepsKind ==
    /\ KillSteps \in Seq(Steps) /\ Len(KillSteps) = 3
    /\ KillSteps[1] = "find" /\ KillSteps[2] = "end" /\ KillSteps[3] = "drop"
BY DEF KillSteps, Steps

(* A sequence of n steps followed by a kill.                               *)
LEMMA WithKill ==
    ASSUME NEW s \in Seq(Steps), NEW n \in Nat, Len(s) = n
    PROVE  /\ s \o KillSteps \in Seq(Steps)
           /\ Len(s \o KillSteps) = n + 3
           /\ \A i \in 1..n : (s \o KillSteps)[i] = s[i]
           /\ (s \o KillSteps)[n + 1] = "find"
           /\ (s \o KillSteps)[n + 2] = "end"
           /\ (s \o KillSteps)[n + 3] = "drop"
<1> DEFINE k == KillSteps
<1>1. k \in Seq(Steps) /\ Len(k) = 3 /\ k[1] = "find" /\ k[2] = "end" /\ k[3] = "drop"
  BY KillStepsKind
<1> HIDE DEF k
<1>2. /\ s \o k \in Seq(Steps) /\ Len(s \o k) = Len(s) + Len(k)
      /\ \A i \in 1..Len(s) + Len(k) :
            (s \o k)[i] = IF i <= Len(s) THEN s[i] ELSE k[i - Len(s)]
  BY <1>1, ConcatProperties
<1>3. /\ Len(s \o k) = n + 3
      /\ \A i \in 1..n + 3 : (s \o k)[i] = IF i <= n THEN s[i] ELSE k[i - n]
  BY <1>1, <1>2
<1>4. ASSUME NEW i \in 1..3 PROVE (s \o k)[n + i] = k[i]
  <2>1. n + i \in 1..n + 3 /\ ~(n + i <= n) /\ (n + i) - n = i OBVIOUS
  <2> QED BY <1>3, <2>1
<1>5. 1 \in 1..3 /\ 2 \in 1..3 /\ 3 \in 1..3 OBVIOUS
<1>6. (s \o k)[n + 1] = k[1] /\ (s \o k)[n + 2] = k[2] /\ (s \o k)[n + 3] = k[3]
  BY <1>4, <1>5
<1>7. \A i \in 1..n : (s \o k)[i] = s[i] BY <1>3
<1> QED BY <1>1, <1>2, <1>3, <1>6, <1>7 DEF k

LEMMA OneBeforeKill ==
    ASSUME NEW step \in Steps
    PROVE  /\ <<step>> \o KillSteps \in Seq(Steps)
           /\ Len(<<step>> \o KillSteps) = 4
           /\ (<<step>> \o KillSteps)[1] = step
           /\ (<<step>> \o KillSteps)[2] = "find"
           /\ (<<step>> \o KillSteps)[3] = "end"
           /\ (<<step>> \o KillSteps)[4] = "drop"
<1> DEFINE u == <<step>>
<1>1. u \in Seq(Steps) /\ Len(u) = 1 /\ u[1] = step OBVIOUS
<1> HIDE DEF u
<1>2. /\ u \o KillSteps \in Seq(Steps)
      /\ Len(u \o KillSteps) = 1 + 3
      /\ \A i \in 1..1 : (u \o KillSteps)[i] = u[i]
      /\ (u \o KillSteps)[1 + 1] = "find"
      /\ (u \o KillSteps)[1 + 2] = "end"
      /\ (u \o KillSteps)[1 + 3] = "drop"
  <2>1. 1 \in Nat OBVIOUS
  <2> QED BY <1>1, <2>1, WithKill
<1>3. 1 + 1 = 2 /\ 1 + 2 = 3 /\ 1 + 3 = 4 /\ 1 \in 1..1 OBVIOUS
<1> QED BY <1>1, <1>2, <1>3 DEF u

TwoThenKill(s, first, second) ==
    /\ s \in Seq(Steps) /\ Len(s) = 5 /\ s[1] = first /\ s[2] = second
    /\ s[3] = "find" /\ s[4] = "end" /\ s[5] = "drop"

LEMMA TwoBeforeKill ==
    ASSUME NEW first \in Steps, NEW second \in Steps
    PROVE  TwoThenKill(<<first, second>> \o KillSteps, first, second)
<1> DEFINE u == <<first, second>>
<1>1. u \in Seq(Steps) /\ Len(u) = 2 /\ u[1] = first /\ u[2] = second OBVIOUS
<1> HIDE DEF u
<1>2. /\ u \o KillSteps \in Seq(Steps)
      /\ Len(u \o KillSteps) = 2 + 3
      /\ \A i \in 1..2 : (u \o KillSteps)[i] = u[i]
      /\ (u \o KillSteps)[2 + 1] = "find"
      /\ (u \o KillSteps)[2 + 2] = "end"
      /\ (u \o KillSteps)[2 + 3] = "drop"
  <2>1. 2 \in Nat OBVIOUS
  <2> QED BY <1>1, <2>1, WithKill
<1>3. 2 + 1 = 3 /\ 2 + 2 = 4 /\ 2 + 3 = 5 /\ 1 \in 1..2 /\ 2 \in 1..2 OBVIOUS
<1> QED BY <1>1, <1>2, <1>3 DEF u, TwoThenKill

(* How each step stands in place.                                          *)
LEMMA Placing ==
    ASSUME NEW s, NEW i
    PROVE  /\ /\ s[i] = "apply" /\ i < Len(s) /\ i + 1 < Len(s)
              /\ s[i + 1] \in {"turn on", "turn off", "reload"}
              => InPlace(s, i)
           /\ s[i] = "turn on" /\ i = Len(s) => InPlace(s, i)
           /\ /\ s[i] \in {"turn on", "turn off", "reload"} /\ i < Len(s)
              /\ i + 3 = Len(s) /\ s[i + 1] = "find"
              => InPlace(s, i)
           /\ s[i] = "turn off" /\ i < Len(s) /\ s[i + 1] = "find" => InPlace(s, i)
           /\ /\ s[i] = "find" /\ i + 2 <= Len(s)
              /\ s[i + 1] = "end" /\ s[i + 2] = "drop"
              => InPlace(s, i)
           /\ s[i] = "end" /\ i < Len(s) /\ s[i + 1] = "drop" => InPlace(s, i)
           /\ s[i] = "drop" /\ i = Len(s) => InPlace(s, i)
           /\ s[i] = "drop" /\ i + 1 = Len(s) /\ s[i + 1] = "turn on" => InPlace(s, i)
BY Zenon DEF InPlace

LEMMA Neighbours ==
    /\ \A s : s[1 + 1] = s[2] /\ s[1 + 2] = s[3]
    /\ \A s : s[2 + 1] = s[3] /\ s[2 + 2] = s[4]
    /\ \A s : s[3 + 1] = s[4] /\ s[3 + 2] = s[5]
    /\ \A s : s[4 + 1] = s[5] /\ s[5 + 1] = s[6]
<1>1. 1 + 1 = 2 /\ 1 + 2 = 3 /\ 2 + 1 = 3 /\ 2 + 2 = 4 /\ 3 + 1 = 4
  OBVIOUS
<1>2. 3 + 2 = 5 /\ 4 + 1 = 5 /\ 5 + 1 = 6 OBVIOUS
<1> QED BY <1>1, <1>2

(* The kinds of requests, and a kill, spelled out.                         *)
IsKill(s) == Len(s) = 3 /\ s[1] = "find" /\ s[2] = "end" /\ s[3] = "drop"

IsStop(s) ==
    /\ Len(s) = 4
    /\ s[1] = "turn off" /\ s[2] = "find" /\ s[3] = "end" /\ s[4] = "drop"

IsChange(s) ==
    /\ Len(s) = 5
    /\ s[1] = "apply" /\ s[2] \in {"turn on", "reload"}
    /\ s[3] = "find" /\ s[4] = "end" /\ s[5] = "drop"

IsRestart(s) ==
    /\ Len(s) = 6
    /\ s[1] = "apply" /\ s[2] = "turn off"
    /\ s[3] = "find" /\ s[4] = "end" /\ s[5] = "drop" /\ s[6] = "turn on"

LEMMA KillIsPlaced ==
    ASSUME NEW s \in Seq(Steps), IsKill(s) PROVE s \in KillsLeft
<1>1. Len(s) = 3 BY DEF IsKill
<1>2. \A i \in 1..Len(s) : i = 1 \/ i = 2 \/ i = 3 BY <1>1
<1>3. 1 + 2 <= Len(s) /\ 2 < Len(s) BY <1>1
<1>4. InPlace(s, 1) BY Zenon, <1>3, Neighbours, Placing DEF IsKill
<1>5. InPlace(s, 2) BY Zenon, <1>3, Neighbours, Placing DEF IsKill
<1>6. InPlace(s, 3) BY Zenon, <1>1, Placing DEF IsKill
<1>7. s \in StepsLeft BY <1>2, <1>4, <1>5, <1>6 DEF StepsLeft
<1>8. \A i \in 1..Len(s) :
         s[i] \in {"find", "end", "drop"} /\ (s[i] = "drop" => i = Len(s))
  BY Zenon, <1>1, <1>2 DEF IsKill
<1> QED BY <1>7, <1>8 DEF KillsLeft

LEMMA StopIsPlaced ==
    ASSUME NEW s \in Seq(Steps), IsStop(s) PROVE s \in StepsLeft
<1>1. Len(s) = 4 BY DEF IsStop
<1>2. \A i \in 1..Len(s) : i = 1 \/ i = 2 \/ i = 3 \/ i = 4 BY <1>1
<1>3. 1 < Len(s) /\ 2 + 2 <= Len(s) /\ 3 < Len(s) BY <1>1
<1>4. InPlace(s, 1) BY Zenon, <1>3, Neighbours, Placing DEF IsStop
<1>5. InPlace(s, 2) BY Zenon, <1>3, Neighbours, Placing DEF IsStop
<1>6. InPlace(s, 3) BY Zenon, <1>3, Neighbours, Placing DEF IsStop
<1>7. InPlace(s, 4) BY Zenon, <1>1, Placing DEF IsStop
<1> QED BY <1>2, <1>4, <1>5, <1>6, <1>7 DEF StepsLeft

LEMMA ChangeIsPlaced ==
    ASSUME NEW s \in Seq(Steps), IsChange(s) PROVE s \in StepsLeft
<1>1. Len(s) = 5 BY DEF IsChange
<1>2. \A i \in 1..Len(s) : i = 1 \/ i = 2 \/ i = 3 \/ i = 4 \/ i = 5 BY <1>1
<1>3. /\ 1 < Len(s) /\ 1 + 1 < Len(s) /\ 2 < Len(s) /\ 2 + 3 = Len(s)
      /\ 3 + 2 <= Len(s) /\ 4 < Len(s)
  BY <1>1
<1>4. InPlace(s, 1) BY Zenon, <1>3, Neighbours, Placing DEF IsChange
<1>5. InPlace(s, 2) BY Zenon, <1>3, Neighbours, Placing DEF IsChange
<1>6. InPlace(s, 3) BY Zenon, <1>3, Neighbours, Placing DEF IsChange
<1>7. InPlace(s, 4) BY Zenon, <1>3, Neighbours, Placing DEF IsChange
<1>8. InPlace(s, 5) BY Zenon, <1>1, Placing DEF IsChange
<1> QED BY <1>2, <1>4, <1>5, <1>6, <1>7, <1>8 DEF StepsLeft

LEMMA RestartIsPlaced ==
    ASSUME NEW s \in Seq(Steps), IsRestart(s) PROVE s \in StepsLeft
<1>1. Len(s) = 6 BY DEF IsRestart
<1>2. \A i \in 1..Len(s) : i = 1 \/ i = 2 \/ i = 3 \/ i = 4 \/ i = 5 \/ i = 6
  BY <1>1
<1>3. /\ 1 < Len(s) /\ 1 + 1 < Len(s) /\ 2 < Len(s)
      /\ 3 + 2 <= Len(s) /\ 4 < Len(s) /\ 5 + 1 = Len(s)
  BY <1>1
<1>4. InPlace(s, 1) BY Zenon, <1>3, Neighbours, Placing DEF IsRestart
<1>5. InPlace(s, 2) BY Zenon, <1>3, Neighbours, Placing DEF IsRestart
<1>6. InPlace(s, 3) BY Zenon, <1>3, Neighbours, Placing DEF IsRestart
<1>7. InPlace(s, 4) BY Zenon, <1>3, Neighbours, Placing DEF IsRestart
<1>8. InPlace(s, 5) BY Zenon, <1>3, Neighbours, Placing DEF IsRestart
<1>9. InPlace(s, 6) BY Zenon, <1>1, Placing DEF IsRestart
<1> QED BY <1>2, <1>4, <1>5, <1>6, <1>7, <1>8, <1>9 DEF StepsLeft

LEMMA HeadIsFirst ==
    ASSUME NEW s \in Seq(Steps), Len(s) > 0 PROVE s # <<>> /\ Head(s) = s[1]
BY EmptySeq

LEMMA KillIsLeft ==
    KillSteps \in KillsLeft /\ KillSteps # <<>> /\ Head(KillSteps) = "find"
<1> DEFINE s == KillSteps
<1>1. s \in Seq(Steps) /\ Len(s) = 3 /\ s[1] = "find" /\ s[2] = "end" /\ s[3] = "drop"
  BY KillStepsKind
<1> HIDE DEF s
<1>2. s \in Seq(Steps) /\ IsKill(s) BY Zenon, <1>1 DEF IsKill
<1>3. s \in KillsLeft BY <1>2, KillIsPlaced
<1>4. Len(s) = 3 BY <1>2 DEF IsKill
<1>5. Len(s) > 0 BY <1>4
<1>6. s # <<>> /\ Head(s) = s[1] BY <1>2, <1>5, HeadIsFirst
<1>7. Head(s) = "find" BY Zenon, <1>1, <1>6
<1> QED BY <1>3, <1>6, <1>7 DEF s

(* One step more, for the restart, which turns it on again.                *)
LEMMA OneMore ==
    ASSUME NEW u \in Seq(Steps), Len(u) = 5, NEW step \in Steps
    PROVE  /\ u \o <<step>> \in Seq(Steps)
           /\ Len(u \o <<step>>) = 6
           /\ \A i \in 1..5 : (u \o <<step>>)[i] = u[i]
           /\ (u \o <<step>>)[6] = step
<1> DEFINE v == <<step>>
<1>1. v \in Seq(Steps) /\ Len(v) = 1 /\ v[1] = step OBVIOUS
<1> HIDE DEF v
<1>2. /\ u \o v \in Seq(Steps) /\ Len(u \o v) = Len(u) + Len(v)
      /\ \A i \in 1..Len(u) + Len(v) :
            (u \o v)[i] = IF i <= Len(u) THEN u[i] ELSE v[i - Len(u)]
  BY <1>1, ConcatProperties
<1>3. 5 + 1 = 6 OBVIOUS
<1>4. /\ u \o v \in Seq(Steps) /\ Len(u \o v) = 6
      /\ \A i \in 1..6 : (u \o v)[i] = IF i <= 5 THEN u[i] ELSE v[i - 5]
  BY Zenon, <1>1, <1>2, <1>3
<1>5. 6 \in 1..6 /\ ~(6 <= 5) /\ 6 - 5 = 1 OBVIOUS
<1>6. \A i \in 1..5 : i \in 1..6 /\ i <= 5 OBVIOUS
<1>7. (u \o v)[6] = v[1] BY Zenon, <1>4, <1>5
<1>8. \A i \in 1..5 : (u \o v)[i] = u[i] BY Zenon, <1>4, <1>6
<1> QED BY Zenon, <1>1, <1>4, <1>7, <1>8 DEF v

(* A request that has begun.                                               *)
Begun(s) ==
    /\ s \in StepsLeft
    /\ s # <<>>
    /\ Head(s) \in {"apply", "turn off"}

LEMMA Beginnings ==
    ASSUME NEW s \in Seq(Steps), IsStop(s) \/ IsChange(s) \/ IsRestart(s)
    PROVE  Begun(s)
<1>1. s \in StepsLeft BY StopIsPlaced, ChangeIsPlaced, RestartIsPlaced
<1>2. Len(s) = 4 \/ Len(s) = 5 \/ Len(s) = 6
  BY Zenon DEF IsStop, IsChange, IsRestart
<1>3. Len(s) > 0 BY <1>2
<1>4. s # <<>> /\ Head(s) = s[1] BY <1>3, HeadIsFirst
<1>5. s[1] \in {"apply", "turn off"} BY Zenon DEF IsStop, IsChange, IsRestart
<1> QED BY Zenon, <1>1, <1>4, <1>5 DEF Begun

LEMMA ControlKinds ==
    ASSUME NEW action \in Actions PROVE Begun(ControlSteps[action])
<1> DEFINE s == ControlSteps[action]
<1>1. "apply" \in Steps /\ "turn on" \in Steps /\ "turn off" \in Steps
      /\ "reload" \in Steps
  BY DEF Steps
<1>2. CASE action = "start"
  <2>1. s = <<"apply", "turn on">> \o KillSteps BY <1>2 DEF ControlSteps
  <2> HIDE DEF s
  <2>2. TwoThenKill(s, "apply", "turn on") BY Zenon, <1>1, <2>1, TwoBeforeKill
  <2>3. s \in Seq(Steps) /\ IsChange(s) BY Zenon, <2>2 DEF TwoThenKill, IsChange
  <2> QED BY <2>3, Beginnings DEF s
<1>3. CASE action = "stop"
  <2>1. s = <<"turn off">> \o KillSteps BY <1>3 DEF ControlSteps
  <2> HIDE DEF s
  <2>2. s \in Seq(Steps) /\ IsStop(s)
    BY Zenon, <1>1, <2>1, OneBeforeKill DEF IsStop
  <2> QED BY <2>2, Beginnings DEF s
<1>4. CASE action = "update"
  <2>1. s = <<"apply", "reload">> \o KillSteps BY <1>4 DEF ControlSteps
  <2> HIDE DEF s
  <2>2. TwoThenKill(s, "apply", "reload") BY Zenon, <1>1, <2>1, TwoBeforeKill
  <2>3. s \in Seq(Steps) /\ IsChange(s) BY Zenon, <2>2 DEF TwoThenKill, IsChange
  <2> QED BY <2>3, Beginnings DEF s
<1>5. CASE action = "restart"
  <2> DEFINE u == <<"apply", "turn off">> \o KillSteps
  <2>1. s = u \o <<"turn on">> BY <1>5 DEF ControlSteps
  <2>2. TwoThenKill(u, "apply", "turn off") BY Zenon, <1>1, TwoBeforeKill
  <2> HIDE DEF s, u
  <2>3. u \in Seq(Steps) /\ Len(u) = 5 BY Zenon, <2>2 DEF TwoThenKill
  <2>4. /\ s \in Seq(Steps) /\ Len(s) = 6 /\ s[6] = "turn on"
        /\ \A i \in 1..5 : s[i] = u[i]
    BY Zenon, <1>1, <2>1, <2>3, OneMore
  <2>5. 1 \in 1..5 /\ 2 \in 1..5 /\ 3 \in 1..5 /\ 4 \in 1..5 /\ 5 \in 1..5
    OBVIOUS
  <2>6. IsRestart(s) BY Zenon, <2>2, <2>4, <2>5 DEF IsRestart, TwoThenKill
  <2> QED BY <2>4, <2>6, Beginnings DEF s
<1> QED BY <1>2, <1>3, <1>4, <1>5 DEF Actions

LEMMA SupervisorApart == Supervisor \in Threads /\ Supervisor \notin Requests
BY RequestsAssumption DEF Supervisor, Requests, Threads

(* A thread takes steps off what it has left.                              *)
LEMMA Dropped ==
    ASSUME IperfTypeOK, NEW a \in Threads, NEW n \in 1..4, Drop(a, n)
    PROVE  /\ todo' \in [Threads -> StepsLeft]
           /\ todo'[Supervisor] \in KillsLeft
           /\ todo'[a] = Rest(todo[a], n)
           /\ \A b \in Threads : b # a => todo'[b] = todo[b]
<1>1. /\ todo \in [Threads -> StepsLeft] /\ todo[Supervisor] \in KillsLeft
      /\ todo' = [todo EXCEPT ![a] = Rest(todo[a], n)]
  BY DEF IperfTypeOK, Drop, Rest
<1>2. Rest(todo[a], n) \in StepsLeft BY <1>1, RestIsLeft
<1>3. todo'[a] = Rest(todo[a], n) /\ \A b \in Threads : b # a => todo'[b] = todo[b]
  BY <1>1
<1>4. todo' \in [Threads -> StepsLeft] BY <1>1, <1>2
<1>5. todo'[Supervisor] \in KillsLeft
  <2>1. CASE a = Supervisor BY <1>1, <1>3, <2>1, RestIsKill
  <2>2. CASE a # Supervisor BY <1>1, <1>3, <2>2, SupervisorApart
  <2> QED BY <2>1, <2>2
<1> QED BY <1>3, <1>4, <1>5

LEMMA IperfInitially == ASSUME IperfInit PROVE IperfIInv
<1>1. /\ alive = {} /\ launched = <<>> /\ handle = 0 /\ args = 0 /\ missed = {}
      /\ supervisor = [pc |-> "top", args |-> 0] /\ wanted \in BOOLEAN
      /\ todo = [a \in Threads |-> <<>>] /\ found = [a \in Threads |-> -1]
  BY DEF IperfInit, Threads
<1>2. <<>> \in KillsLeft /\ <<>> \in StepsLeft
  <2> DEFINE s == <<>>
  <2>1. s \in Seq(Steps) /\ 1..Len(s) = {} BY EmptySeq
  <2> HIDE DEF s
  <2>2. s \in StepsLeft BY <2>1 DEF StepsLeft
  <2>3. s \in KillsLeft BY <2>1, <2>2 DEF KillsLeft
  <2> QED BY <2>2, <2>3 DEF s
<1>3. \A a \in Threads : ~Busy(a) BY <1>1 DEF Busy
<1>4. 0 \in 0..MaxRequests BY RequestsAssumption
<1>5. launched \in Seq(0..MaxRequests) /\ Len(launched) = 0 BY <1>1, EmptySeq
<1>6. IperfTypeOK
  <2>1. handle \in 0..Len(launched) /\ alive \in SUBSET (1..Len(launched))
    BY <1>1, <1>5
  <2>2. todo \in [Threads -> StepsLeft] /\ todo[Supervisor] \in KillsLeft
    BY <1>1, <1>2, SupervisorApart
  <2>3. found \in [Threads -> -1..Len(launched)] BY <1>1, <1>5
  <2>4. supervisor \in [pc : SupervisorPlaces, args : 0..MaxRequests]
    BY <1>1, <1>4 DEF SupervisorPlaces
  <2> QED BY <1>1, <1>4, <1>5, <2>1, <2>2, <2>3, <2>4 DEF IperfTypeOK
<1>7. KillsInOrder BY <1>3 DEF KillsInOrder, AtStep
<1>8. OneProcess BY <1>1, <1>3, SupervisorApart DEF OneProcess, AtStep
<1>9. OutdatedEnds BY <1>1 DEF OutdatedEnds
<1> QED BY <1>6, <1>7, <1>8, <1>9 DEF IperfIInv

LEMMA RequestsApart ==
    ASSUME NEW a \in Requests PROVE a \in Threads /\ a # Supervisor
BY SupervisorApart DEF Threads

(* The other threads stay where they are.                                  *)
Apart(a) == \A b \in Threads : b # a => todo'[b] = todo[b]

LEMMA OthersStay ==
    ASSUME NEW a \in Threads, Apart(a), NEW b \in Threads, b # a
    PROVE  /\ Busy(b)' <=> Busy(b)
           /\ \A step : AtStep(b, step)' <=> AtStep(b, step)
           /\ WillFind(b) /\ (~wanted \/ wanted' = wanted) => WillFind(b)'
<1>1. todo'[b] = todo[b] BY DEF Apart
<1>2. Busy(b)' <=> Busy(b) BY <1>1 DEF Busy
<1>3. \A step : AtStep(b, step)' <=> AtStep(b, step) BY <1>1, <1>2 DEF AtStep
<1>4. ASSUME WillFind(b), ~wanted \/ wanted' = wanted PROVE WillFind(b)'
  BY <1>1, <1>3, <1>4 DEF WillFind
<1> QED BY <1>2, <1>3, <1>4

(* A thread is at one step.                                                *)
LEMMA OneStep ==
    ASSUME NEW a, NEW step, AtStep(a, step)
    PROVE  /\ Busy(a) /\ todo[a] # <<>> /\ Head(todo[a]) = step
           /\ \A other : AtStep(a, other) => other = step
BY DEF AtStep, Busy

(* What thread a does not disturb in the others.                           *)
LEMMA KillsKept ==
    ASSUME KillsInOrder, NEW a \in Threads, Apart(a),
           \A b \in Threads : b # a => found'[b] = found[b],
           alive' \subseteq alive,
           AtStep(a, "end")' \/ AtStep(a, "drop")' => found'[a] > 0,
           AtStep(a, "drop")' => found'[a] \notin alive',
           a \in Requests /\ found'[a] = -1 => ~Busy(a)'
    PROVE  KillsInOrder'
<1> SUFFICES
      ASSUME NEW b \in Threads
      PROVE  /\ AtStep(b, "end")' \/ AtStep(b, "drop")' => found'[b] > 0
             /\ AtStep(b, "drop")' => found'[b] \notin alive'
             /\ b \in Requests /\ found'[b] = -1 => ~Busy(b)'
  BY DEF KillsInOrder, Threads, Requests
<1>1. CASE b = a BY <1>1
<1>2. CASE b # a
  <2>1. found'[b] = found[b] BY <1>2
  <2>2. /\ Busy(b)' <=> Busy(b)
        /\ \A step : AtStep(b, step)' <=> AtStep(b, step)
    BY <1>2, OthersStay
  <2>3. /\ AtStep(b, "end") \/ AtStep(b, "drop") => found[b] > 0
        /\ AtStep(b, "drop") => found[b] \notin alive
        /\ b \in Requests /\ found[b] = -1 => ~Busy(b)
    BY DEF KillsInOrder
  <2> QED BY <2>1, <2>2, <2>3
<1> QED BY <1>1, <1>2

LEMMA ProcessKept ==
    ASSUME OneProcess, NEW a \in Requests, Apart(a),
           found'[Supervisor] = found[Supervisor],
           UNCHANGED <<launched, handle, supervisor>>, alive' \subseteq alive
    PROVE  OneProcess'
<1>1. Supervisor \in Threads /\ a \in Threads /\ a # Supervisor
  BY SupervisorApart, RequestsApart
<1>2. /\ Busy(Supervisor)' <=> Busy(Supervisor)
      /\ \A step : AtStep(Supervisor, step)' <=> AtStep(Supervisor, step)
  BY <1>1, OthersStay
<1> QED BY <1>2 DEF OneProcess

LEMMA DoomKept ==
    ASSUME NEW a \in Threads, Apart(a), NEW p,
           \A b \in Threads : b # a => found'[b] = found[b],
           missed \subseteq missed',
           ~wanted \/ wanted' = wanted,
           a \in Requests => ~WillFind(a),
           a \in Requests /\ AtStep(a, "end") => found[a] # p,
           Doomed(p)
    PROVE  Doomed(p)'
<1>1. CASE p \in missed BY <1>1 DEF Doomed
<1>2. ASSUME NEW b \in Requests, WillFind(b) PROVE Doomed(p)'
  <2>1. b \in Threads /\ b # a BY <1>2, RequestsApart
  <2>2. WillFind(b)' BY <1>2, <2>1, OthersStay
  <2> QED BY <2>2 DEF Doomed, Requests
<1>3. ASSUME NEW b \in Requests, AtStep(b, "end"), found[b] = p PROVE Doomed(p)'
  <2>1. b \in Threads /\ b # a BY <1>3, RequestsApart
  <2>2. AtStep(b, "end")' BY <1>3, <2>1, OthersStay
  <2>3. found'[b] = p BY <1>3, <2>1
  <2> QED BY <2>2, <2>3 DEF Doomed, Requests
<1> QED BY <1>1, <1>2, <1>3 DEF Doomed

LEMMA OutdatedKept ==
    ASSUME IperfTypeOK, OutdatedEnds, NEW a \in Threads, Apart(a),
           \A b \in Threads : b # a => found'[b] = found[b],
           missed \subseteq missed', alive' \subseteq alive,
           UNCHANGED <<launched, supervisor>>,
           ~wanted \/ (wanted' = wanted /\ args' = args),
           a \in Requests => ~WillFind(a),
           a \in Requests /\ AtStep(a, "end") => found[a] \notin alive'
    PROVE  OutdatedEnds'
<1>1. ~wanted \/ wanted' = wanted OBVIOUS
<1>2. ASSUME NEW p \in alive', launched'[p] # args' \/ ~wanted' PROVE Doomed(p)'
  <2>1. p \in alive /\ (launched[p] # args \/ ~wanted) BY <1>2
  <2>2. Doomed(p) BY <2>1 DEF OutdatedEnds
  <2>3. a \in Requests /\ AtStep(a, "end") => found[a] # p BY <1>2
  <2> QED BY <1>1, <2>2, <2>3, DoomKept
<1>3. ASSUME \/ supervisor'.pc = "command" /\ ~wanted'
             \/ supervisor'.pc = "spawn" /\ (supervisor'.args # args' \/ ~wanted')
      PROVE  Doomed(Len(launched) + 1)'
  <2>1. \/ supervisor.pc = "command" /\ ~wanted
        \/ supervisor.pc = "spawn" /\ (supervisor.args # args \/ ~wanted)
    BY <1>3
  <2> DEFINE p == Len(launched) + 1
  <2>2. Doomed(p) BY <2>1 DEF OutdatedEnds
  <2>3. a \in Requests /\ AtStep(a, "end") => found[a] # p
    <3>1. found[a] \in -1..Len(launched) /\ Len(launched) \in Nat BY DEF IperfTypeOK
    <3> QED BY <3>1
  <2>4. p' = p OBVIOUS
  <2> HIDE DEF p
  <2>5. Doomed(p)' BY <1>1, <2>2, <2>3, <2>4, DoomKept DEF Doomed
  <2> QED BY <2>5 DEF p
<1> QED BY <1>2, <1>3 DEF OutdatedEnds

LEMMA OutdatedFound ==
    ASSUME NEW a \in Requests, WillFind(a)' PROVE OutdatedEnds'
<1>1. \A p : Doomed(p)' BY DEF Doomed, Requests
<1> QED BY <1>1 DEF OutdatedEnds

(* Where a step takes a thread.                                            *)
LEMMA StepTakes ==
    ASSUME IperfTypeOK, NEW a \in Threads, NEW n \in 1..4, Drop(a, n)
    PROVE  /\ AtStep(a, "apply") /\ n = 1 =>
                 \/ AtStep(a, "turn on")' /\ Len(todo'[a]) > 1
                 \/ AtStep(a, "turn off")' \/ AtStep(a, "reload")'
           /\ AtStep(a, "turn on") /\ n = 1 => ~Busy(a)' \/ AtStep(a, "find")'
           /\ AtStep(a, "turn on") /\ n = 1 /\ Len(todo[a]) > 1 => AtStep(a, "find")'
           /\ AtStep(a, "turn on") /\ n = 4 => ~Busy(a)'
           /\ AtStep(a, "turn off") /\ n = 1 => AtStep(a, "find")'
           /\ AtStep(a, "reload") /\ n = 1 => AtStep(a, "find")'
           /\ AtStep(a, "reload") /\ n = 4 => ~Busy(a)'
           /\ AtStep(a, "find") /\ n = 1 => AtStep(a, "end")'
           /\ AtStep(a, "find") /\ n = 3 => ~Busy(a)' \/ AtStep(a, "turn on")'
           /\ AtStep(a, "end") /\ n = 1 => AtStep(a, "drop")'
           /\ AtStep(a, "drop") /\ n = 1 => ~Busy(a)' \/ AtStep(a, "turn on")'
<1> DEFINE s == todo[a]
           t == todo'[a]
<1>1. s \in StepsLeft BY DEF IperfTypeOK
<1>2. t = Rest(s, n) BY Dropped
<1>3. \A step : AtStep(a, step) <=> s # <<>> /\ Head(s) = step BY DEF AtStep, Busy
<1>4. \A step : AtStep(a, step)' <=> t # <<>> /\ Head(t) = step BY DEF AtStep, Busy
<1>5. Busy(a)' <=> t # <<>> BY DEF Busy
<1> HIDE DEF s, t
<1>6. CASE s = <<>> BY <1>3, <1>6
<1>7. CASE s # <<>>
  <2> DEFINE h == Head(s)
  <2>1. n = 1 =>
          /\ h = "apply" => /\ t # <<>>
                            /\ Head(t) \in {"turn on", "turn off", "reload"}
                            /\ Head(t) = "turn on" => Len(t) > 1
          /\ h = "turn on" => /\ t = <<>> \/ Head(t) = "find"
                              /\ Len(s) > 1 => t # <<>>
          /\ h \in {"turn off", "reload"} => t # <<>> /\ Head(t) = "find"
          /\ h = "find" => t # <<>> /\ Head(t) = "end"
          /\ h = "end" => t # <<>> /\ Head(t) = "drop"
          /\ h = "drop" => t = <<>> \/ Head(t) = "turn on"
    BY <1>1, <1>2, <1>7, StepAfter
  <2>2. n = 3 => (h = "find" => t = <<>> \/ Head(t) = "turn on")
    BY <1>1, <1>2, <1>7, StepAfter
  <2>3. n = 4 => (h \in {"turn on", "reload"} => t = <<>>)
    BY <1>1, <1>2, <1>7, StepAfter
  <2>4. \A step : AtStep(a, step) => h = step BY <1>3
  <2> HIDE DEF h
  <2>5. n = 1 /\ AtStep(a, "apply") =>
          \/ AtStep(a, "turn on")' /\ Len(t) > 1
          \/ AtStep(a, "turn off")' \/ AtStep(a, "reload")'
    BY <1>4, <2>1, <2>4
  <2>6. n = 1 /\ AtStep(a, "turn on") =>
          /\ ~Busy(a)' \/ AtStep(a, "find")'
          /\ Len(s) > 1 => AtStep(a, "find")'
    BY <1>4, <1>5, <2>1, <2>4
  <2>7. /\ n = 1 /\ AtStep(a, "turn off") => AtStep(a, "find")'
        /\ n = 1 /\ AtStep(a, "reload") => AtStep(a, "find")'
        /\ n = 1 /\ AtStep(a, "find") => AtStep(a, "end")'
        /\ n = 1 /\ AtStep(a, "end") => AtStep(a, "drop")'
        /\ n = 1 /\ AtStep(a, "drop") => ~Busy(a)' \/ AtStep(a, "turn on")'
    BY <1>4, <1>5, <2>1, <2>4
  <2>8. /\ n = 3 /\ AtStep(a, "find") => ~Busy(a)' \/ AtStep(a, "turn on")'
        /\ n = 4 /\ AtStep(a, "turn on") => ~Busy(a)'
        /\ n = 4 /\ AtStep(a, "reload") => ~Busy(a)'
    BY <1>4, <1>5, <2>2, <2>3, <2>4
  <2> QED BY <2>5, <2>6, <2>7, <2>8 DEF s, t
<1> QED BY <1>6, <1>7

LEMMA KillHead ==
    ASSUME NEW s \in KillsLeft, s # <<>> PROVE Head(s) \in {"find", "end", "drop"}
<1>1. s \in Seq(Steps)
  <2>1. s \in StepsLeft BY DEF KillsLeft
  <2> QED BY <2>1 DEF StepsLeft
<1>2. 1 \in 1..Len(s) /\ Head(s) = s[1] BY <1>1, EmptySeq
<1>3. s[1] \in {"find", "end", "drop"} BY <1>2 DEF KillsLeft
<1> QED BY <1>2, <1>3

(* The supervisor turns nothing on.                                        *)
LEMMA SupervisorStays ==
    ASSUME todo'[Supervisor] \in KillsLeft
    PROVE  ~AtStep(Supervisor, "turn on")'
BY KillHead DEF AtStep, Busy

LEMMA DroppedApart ==
    ASSUME IperfTypeOK, NEW a \in Threads, NEW n \in 1..4, Drop(a, n)
    PROVE  /\ Apart(a)
           /\ todo' \in [Threads -> StepsLeft] /\ todo'[Supervisor] \in KillsLeft
BY Dropped DEF Apart

LEMMA IperfApplies ==
    ASSUME IperfIInv, NEW a \in Requests, ApplyCfg(a) PROVE IperfIInv'
<1>1. /\ AtStep(a, "apply") /\ Drop(a, 1) /\ args' \in {args, a}
      /\ UNCHANGED <<wanted, handle, launched, alive, supervisor, found, missed>>
  BY DEF ApplyCfg
<1>2. IperfTypeOK /\ KillsInOrder /\ OneProcess /\ OutdatedEnds BY DEF IperfIInv
<1>3. a \in Threads /\ a # Supervisor /\ Supervisor \in Threads /\ 1 \in 1..4
  BY RequestsApart, SupervisorApart
<1>4. /\ Apart(a)
      /\ todo' \in [Threads -> StepsLeft] /\ todo'[Supervisor] \in KillsLeft
  BY <1>1, <1>2, <1>3, DroppedApart
<1>5. \/ AtStep(a, "turn on")' /\ Len(todo'[a]) > 1
      \/ AtStep(a, "turn off")' \/ AtStep(a, "reload")'
  BY <1>1, <1>2, <1>3, StepTakes
<1>6. IperfTypeOK'
  <2>1. a \in 0..MaxRequests BY RequestsAssumption DEF Requests
  <2>2. args' \in 0..MaxRequests BY <1>1, <1>2, <2>1 DEF IperfTypeOK
  <2> QED BY <1>1, <1>2, <1>4, <2>2 DEF IperfTypeOK, Threads, Requests
<1>7. KillsInOrder'
  <2>1. ~AtStep(a, "end")' /\ ~AtStep(a, "drop")' BY <1>5 DEF AtStep
  <2>2. Busy(a) BY <1>1, OneStep
  <2>3. found'[a] # -1 BY <1>1, <1>2, <1>3, <2>2 DEF KillsInOrder
  <2> QED BY <1>1, <1>2, <1>3, <1>4, <2>1, <2>3, KillsKept
<1>8. OneProcess' BY <1>1, <1>2, <1>4, ProcessKept
<1>9. OutdatedEnds'
  <2>1. CASE wanted
    <3>1. WillFind(a)' BY <1>1, <1>5, <2>1 DEF WillFind
    <3> QED BY <3>1, OutdatedFound
  <2>2. CASE ~wanted
    <3>1. ~WillFind(a) /\ ~AtStep(a, "end") BY <1>1, <2>2 DEF WillFind, AtStep
    <3> QED BY <1>1, <1>2, <1>3, <1>4, <2>2, <3>1, OutdatedKept
  <2> QED BY <2>1, <2>2
<1> QED BY <1>6, <1>7, <1>8, <1>9 DEF IperfIInv

LEMMA IperfWants ==
    ASSUME IperfIInv, NEW a \in Requests, WantRun(a) PROVE IperfIInv'
<1> DEFINE n == IF wanted THEN 1 ELSE 4
<1>1. /\ AtStep(a, "turn on") /\ Drop(a, n) /\ wanted' = TRUE
      /\ UNCHANGED <<args, handle, launched, alive, supervisor, found, missed>>
  BY DEF WantRun
<1>2. IperfTypeOK /\ KillsInOrder /\ OneProcess /\ OutdatedEnds BY DEF IperfIInv
<1>3. a \in Threads /\ a # Supervisor /\ Supervisor \in Threads /\ n \in 1..4
  BY RequestsApart, SupervisorApart
<1>4. (wanted => n = 1) /\ (~wanted => n = 4) OBVIOUS
<1> HIDE DEF n
<1>5. /\ Apart(a)
      /\ todo' \in [Threads -> StepsLeft] /\ todo'[Supervisor] \in KillsLeft
  BY <1>1, <1>2, <1>3, DroppedApart
<1>6. /\ n = 1 => ~Busy(a)' \/ AtStep(a, "find")'
      /\ n = 1 /\ Len(todo[a]) > 1 => AtStep(a, "find")'
      /\ n = 4 => ~Busy(a)'
  BY <1>1, <1>2, <1>3, StepTakes
<1>7. IperfTypeOK' BY <1>1, <1>2, <1>5 DEF IperfTypeOK, Threads, Requests
<1>8. KillsInOrder'
  <2>1. ~AtStep(a, "end")' /\ ~AtStep(a, "drop")' BY <1>4, <1>6 DEF AtStep
  <2>2. Busy(a) BY <1>1, OneStep
  <2>3. found'[a] # -1 BY <1>1, <1>2, <1>3, <2>2 DEF KillsInOrder
  <2> QED BY <1>1, <1>2, <1>3, <1>5, <2>1, <2>3, KillsKept
<1>9. OneProcess' BY <1>1, <1>2, <1>5, ProcessKept
<1>10. OutdatedEnds'
  <2>1. CASE wanted /\ Len(todo[a]) > 1
    <3>1. WillFind(a)' BY <1>4, <1>6, <2>1 DEF WillFind
    <3> QED BY <3>1, OutdatedFound
  <2>2. CASE ~(wanted /\ Len(todo[a]) > 1)
    <3>1. ~WillFind(a) /\ ~AtStep(a, "end") BY <1>1, <2>2 DEF WillFind, AtStep
    <3>2. ~wanted \/ (wanted' = wanted /\ args' = args)
      BY <1>1, <1>2 DEF IperfTypeOK
    <3> QED BY <1>1, <1>2, <1>3, <1>5, <3>1, <3>2, OutdatedKept
  <2> QED BY <2>1, <2>2
<1> QED BY <1>7, <1>8, <1>9, <1>10 DEF IperfIInv

LEMMA IperfTurnsOff ==
    ASSUME IperfIInv, NEW a \in Requests, WantStop(a) PROVE IperfIInv'
<1>1. /\ AtStep(a, "turn off") /\ Drop(a, 1) /\ wanted' = FALSE
      /\ UNCHANGED <<args, handle, launched, alive, supervisor, found, missed>>
  BY DEF WantStop
<1>2. IperfTypeOK /\ KillsInOrder /\ OneProcess /\ OutdatedEnds BY DEF IperfIInv
<1>3. a \in Threads /\ a # Supervisor /\ Supervisor \in Threads /\ 1 \in 1..4
  BY RequestsApart, SupervisorApart
<1>4. /\ Apart(a)
      /\ todo' \in [Threads -> StepsLeft] /\ todo'[Supervisor] \in KillsLeft
  BY <1>1, <1>2, <1>3, DroppedApart
<1>5. AtStep(a, "find")' BY <1>1, <1>2, <1>3, StepTakes
<1>6. IperfTypeOK' BY <1>1, <1>2, <1>4 DEF IperfTypeOK, Threads, Requests
<1>7. KillsInOrder'
  <2>1. ~AtStep(a, "end")' /\ ~AtStep(a, "drop")' BY <1>5 DEF AtStep
  <2>2. Busy(a) BY <1>1, OneStep
  <2>3. found'[a] # -1 BY <1>1, <1>2, <1>3, <2>2 DEF KillsInOrder
  <2> QED BY <1>1, <1>2, <1>3, <1>4, <2>1, <2>3, KillsKept
<1>8. OneProcess' BY <1>1, <1>2, <1>4, ProcessKept
<1>9. OutdatedEnds'
  <2>1. WillFind(a)' BY <1>5 DEF WillFind
  <2> QED BY <2>1, OutdatedFound
<1> QED BY <1>6, <1>7, <1>8, <1>9 DEF IperfIInv

LEMMA IperfReloads ==
    ASSUME IperfIInv, NEW a \in Requests, Reload(a) PROVE IperfIInv'
<1> DEFINE n == IF wanted THEN 1 ELSE 4
<1>1. /\ AtStep(a, "reload") /\ Drop(a, n)
      /\ UNCHANGED <<wanted, args, handle, launched, alive, supervisor, found,
                     missed>>
  BY DEF Reload
<1>2. IperfTypeOK /\ KillsInOrder /\ OneProcess /\ OutdatedEnds BY DEF IperfIInv
<1>3. a \in Threads /\ a # Supervisor /\ Supervisor \in Threads /\ n \in 1..4
  BY RequestsApart, SupervisorApart
<1>4. (wanted => n = 1) /\ (~wanted => n = 4) OBVIOUS
<1> HIDE DEF n
<1>5. /\ Apart(a)
      /\ todo' \in [Threads -> StepsLeft] /\ todo'[Supervisor] \in KillsLeft
  BY <1>1, <1>2, <1>3, DroppedApart
<1>6. (n = 1 => AtStep(a, "find")') /\ (n = 4 => ~Busy(a)')
  BY <1>1, <1>2, <1>3, StepTakes
<1>7. IperfTypeOK' BY <1>1, <1>2, <1>5 DEF IperfTypeOK, Threads, Requests
<1>8. KillsInOrder'
  <2>1. ~AtStep(a, "end")' /\ ~AtStep(a, "drop")' BY <1>4, <1>6 DEF AtStep
  <2>2. Busy(a) BY <1>1, OneStep
  <2>3. found'[a] # -1 BY <1>1, <1>2, <1>3, <2>2 DEF KillsInOrder
  <2> QED BY <1>1, <1>2, <1>3, <1>5, <2>1, <2>3, KillsKept
<1>9. OneProcess' BY <1>1, <1>2, <1>5, ProcessKept
<1>10. OutdatedEnds'
  <2>1. CASE wanted
    <3>1. WillFind(a)' BY <1>4, <1>6, <2>1 DEF WillFind
    <3> QED BY <3>1, OutdatedFound
  <2>2. CASE ~wanted
    <3>1. ~WillFind(a) /\ ~AtStep(a, "end") BY <1>1, <2>2 DEF WillFind, AtStep
    <3> QED BY <1>1, <1>2, <1>3, <1>5, <2>2, <3>1, OutdatedKept
  <2> QED BY <2>1, <2>2
<1> QED BY <1>7, <1>8, <1>9, <1>10 DEF IperfIInv

LEMMA IperfFinds ==
    ASSUME IperfIInv, NEW a \in Threads, Find(a) PROVE IperfIInv'
<1> DEFINE n == IF handle = 0 THEN 3 ELSE 1
<1>1. /\ AtStep(a, "find") /\ Drop(a, n)
      /\ found' = [found EXCEPT ![a] = handle]
      /\ missed' = IF handle = 0 THEN missed \cup Upcoming ELSE missed
      /\ UNCHANGED <<wanted, args, handle, launched, alive, supervisor>>
  BY DEF Find
<1>2. IperfTypeOK /\ KillsInOrder /\ OneProcess /\ OutdatedEnds BY DEF IperfIInv
<1>3. n \in 1..4 /\ (handle = 0 => n = 3) /\ (handle # 0 => n = 1) OBVIOUS
<1> HIDE DEF n
<1>4. /\ Apart(a)
      /\ todo' \in [Threads -> StepsLeft] /\ todo'[Supervisor] \in KillsLeft
  BY <1>1, <1>2, <1>3, DroppedApart
<1>5. /\ n = 1 => AtStep(a, "end")'
      /\ n = 3 => ~Busy(a)' \/ AtStep(a, "turn on")'
  BY <1>1, <1>2, <1>3, StepTakes
<1>6. /\ found \in [Threads -> -1..Len(launched)]
      /\ handle \in 0..Len(launched) /\ Len(launched) \in Nat
  BY <1>2 DEF IperfTypeOK
<1>7. found'[a] = handle /\ \A b \in Threads : b # a => found'[b] = found[b]
  BY <1>1, <1>6
<1>8. Upcoming \subseteq Nat BY <1>6 DEF Upcoming
<1>9. IperfTypeOK'
  <2>1. found' \in [Threads -> -1..Len(launched)] BY <1>1, <1>6
  <2>2. missed' \in SUBSET Nat BY <1>1, <1>2, <1>8 DEF IperfTypeOK
  <2> QED BY <1>1, <1>2, <1>4, <2>1, <2>2 DEF IperfTypeOK, Threads, Requests
<1>10. KillsInOrder'
  <2>1. AtStep(a, "end")' \/ AtStep(a, "drop")' => found'[a] > 0
    <3>1. AtStep(a, "end")' \/ AtStep(a, "drop")' => Busy(a)' /\ ~AtStep(a, "turn on")'
      BY DEF AtStep
    <3>2. CASE handle = 0 BY <1>3, <1>5, <3>1, <3>2
    <3>3. CASE handle # 0 BY <1>6, <1>7, <3>3
    <3> QED BY <3>2, <3>3
  <2>2. ~AtStep(a, "drop")'
    <3>1. CASE handle = 0 BY <1>3, <1>5, <3>1 DEF AtStep
    <3>2. CASE handle # 0 BY <1>3, <1>5, <3>2 DEF AtStep
    <3> QED BY <3>1, <3>2
  <2>3. found'[a] # -1 BY <1>6, <1>7
  <2> QED BY <1>1, <1>2, <1>4, <1>7, <2>1, <2>2, <2>3, KillsKept
<1>11. OneProcess'
  <2>1. CASE a = Supervisor
    <3>1. Busy(Supervisor) BY <1>1, <2>1, OneStep
    <3>2. supervisor.pc = "top" BY <1>2, <3>1 DEF OneProcess
    <3>3. handle # 0 => Busy(Supervisor)' BY <1>3, <1>5, <2>1 DEF AtStep
    <3>4. AtStep(Supervisor, "end")' \/ AtStep(Supervisor, "drop")' =>
             handle # 0
      BY <1>3, <1>4, <1>5, <2>1, SupervisorStays DEF AtStep
    <3>5. found'[Supervisor] = handle BY <1>7, <2>1
    <3> QED BY <1>1, <1>2, <3>2, <3>3, <3>4, <3>5 DEF OneProcess
  <2>2. CASE a # Supervisor
    <3>1. a \in Requests BY <2>2 DEF Threads
    <3>2. found'[Supervisor] = found[Supervisor] BY <1>7, <2>2, SupervisorApart
    <3> QED BY <1>1, <1>2, <1>4, <3>1, <3>2, ProcessKept
  <2> QED BY <2>1, <2>2
<1>12. OutdatedEnds'
  <2>1. CASE handle = 0
    <3>1. \A p : p \in missed' => Doomed(p)' BY DEF Doomed
    <3>2. supervisor.pc # "publish" => alive = {} BY <1>2, <2>1 DEF OneProcess
    <3>3. supervisor.pc = "publish" => Len(launched) \in missed'
      BY <1>1, <2>1 DEF Upcoming
    <3>4. alive \subseteq {Len(launched)} BY <1>2 DEF OneProcess
    <3>5. supervisor.pc \in {"command", "spawn"} => Len(launched) + 1 \in missed'
      BY <1>1, <2>1 DEF Upcoming
    <3>6. \A p \in alive : Doomed(p)' BY <3>1, <3>2, <3>3, <3>4
    <3>7. supervisor.pc \in {"command", "spawn"} => Doomed(Len(launched) + 1)'
      <4>1. SUFFICES ASSUME supervisor.pc \in {"command", "spawn"}
                     PROVE  Doomed(Len(launched) + 1)'
        OBVIOUS
      <4>2. Len(launched') + 1 \in missed' BY <1>1, <3>5, <4>1
      <4> QED BY <4>2 DEF Doomed
    <3> QED BY <1>1, <3>6, <3>7 DEF OutdatedEnds
  <2>2. CASE handle # 0
    <3>1. handle = Len(launched) /\ alive \subseteq {Len(launched)}
      BY <1>2, <2>2 DEF OneProcess
    <3>2. supervisor.pc \notin {"command", "spawn"} BY <1>2, <2>2 DEF OneProcess
    <3>3. CASE a \in Requests
      <4>1. AtStep(a, "end")' /\ found'[a] = handle BY <1>3, <1>5, <1>7, <2>2
      <4>2. Doomed(handle)' BY <1>1, <3>3, <4>1 DEF Doomed, Requests
      <4>3. \A p \in alive : p = handle BY <3>1
      <4>4. \A p \in alive' : Doomed(p)' BY <1>1, <4>2, <4>3
      <4> QED BY <1>1, <3>2, <4>4 DEF OutdatedEnds
    <3>4. CASE a \notin Requests
      BY <1>1, <1>2, <1>4, <1>7, <2>2, <3>4, OutdatedKept DEF IperfTypeOK
    <3> QED BY <3>3, <3>4
  <2> QED BY <2>1, <2>2
<1> QED BY <1>9, <1>10, <1>11, <1>12 DEF IperfIInv

LEMMA IperfEnds ==
    ASSUME IperfIInv, NEW a \in Threads, End(a) PROVE IperfIInv'
<1>1. /\ AtStep(a, "end") /\ Drop(a, 1) /\ alive' = alive \ {found[a]}
      /\ UNCHANGED <<wanted, args, handle, launched, supervisor, found, missed>>
  BY DEF End
<1>2. IperfTypeOK /\ KillsInOrder /\ OneProcess /\ OutdatedEnds BY DEF IperfIInv
<1>3. 1 \in 1..4 OBVIOUS
<1>4. /\ Apart(a)
      /\ todo' \in [Threads -> StepsLeft] /\ todo'[Supervisor] \in KillsLeft
  BY <1>1, <1>2, <1>3, DroppedApart
<1>5. AtStep(a, "drop")' BY <1>1, <1>2, <1>3, StepTakes
<1>6. found[a] > 0 /\ found[a] \notin alive' /\ alive' \subseteq alive
  BY <1>1, <1>2 DEF KillsInOrder
<1>7. IperfTypeOK' BY <1>1, <1>2, <1>4 DEF IperfTypeOK, Threads, Requests
<1>8. KillsInOrder'
  <2>1. found'[a] # -1
    <3>1. \A x \in Int : x > 0 => x # -1 OBVIOUS
    <3>2. found[a] \in Int BY <1>2 DEF IperfTypeOK
    <3> QED BY <1>1, <1>6, <3>1, <3>2
  <2> QED BY <1>1, <1>2, <1>4, <1>6, <2>1, KillsKept
<1>9. OneProcess'
  <2>1. CASE a = Supervisor
    <3>1. Busy(Supervisor) BY <1>1, <2>1, OneStep
    <3>2. Busy(Supervisor)' BY <1>5, <2>1 DEF AtStep
    <3>3. found[Supervisor] = Len(launched) BY <1>1, <1>2, <2>1 DEF OneProcess
    <3> QED BY <1>1, <1>2, <3>1, <3>2, <3>3 DEF OneProcess
  <2>2. CASE a # Supervisor
    <3>1. a \in Requests BY <2>2 DEF Threads
    <3> QED BY <1>1, <1>2, <1>4, <1>6, <3>1, ProcessKept
  <2> QED BY <2>1, <2>2
<1>10. OutdatedEnds'
  <2>1. ~WillFind(a) BY <1>1 DEF WillFind, AtStep
  <2>2. wanted' = wanted /\ args' = args BY <1>1
  <2> QED BY <1>1, <1>2, <1>4, <1>6, <2>1, <2>2, OutdatedKept
<1> QED BY <1>7, <1>8, <1>9, <1>10 DEF IperfIInv

LEMMA IperfDrops ==
    ASSUME IperfIInv, NEW a \in Threads, DropHandle(a) PROVE IperfIInv'
<1>1. /\ AtStep(a, "drop") /\ Drop(a, 1)
      /\ handle' = IF handle = found[a] THEN 0 ELSE handle
      /\ UNCHANGED <<wanted, args, launched, alive, supervisor, found, missed>>
  BY DEF DropHandle
<1>2. IperfTypeOK /\ KillsInOrder /\ OneProcess /\ OutdatedEnds BY DEF IperfIInv
<1>3. 1 \in 1..4 OBVIOUS
<1>4. /\ Apart(a)
      /\ todo' \in [Threads -> StepsLeft] /\ todo'[Supervisor] \in KillsLeft
  BY <1>1, <1>2, <1>3, DroppedApart
<1>5. ~Busy(a)' \/ AtStep(a, "turn on")' BY <1>1, <1>2, <1>3, StepTakes
<1>6. ~AtStep(a, "end")' /\ ~AtStep(a, "drop")' BY <1>5 DEF AtStep
<1>7. found[a] > 0 /\ found[a] \notin alive BY <1>1, <1>2 DEF KillsInOrder
<1>8. IperfTypeOK'
  <2>1. handle' \in 0..Len(launched) BY <1>1, <1>2 DEF IperfTypeOK
  <2> QED BY <1>1, <1>2, <1>4, <2>1 DEF IperfTypeOK, Threads, Requests
<1>9. KillsInOrder'
  <2>1. found'[a] # -1
    <3>1. \A x \in Int : x > 0 => x # -1 OBVIOUS
    <3>2. found[a] \in Int BY <1>2 DEF IperfTypeOK
    <3> QED BY <1>1, <1>7, <3>1, <3>2
  <2> QED BY <1>1, <1>2, <1>4, <1>6, <2>1, KillsKept
<1>10. OneProcess'
  <2>1. handle' \in {0, Len(launched)} /\ (handle = 0 => handle' = 0)
    BY <1>1, <1>2 DEF OneProcess
  <2>2. handle' = 0 => handle = 0 \/ alive = {}
    <3>1. SUFFICES ASSUME handle' = 0, handle # 0 PROVE alive = {} OBVIOUS
    <3>2. found[a] = handle BY <1>1, <3>1
    <3>3. handle = Len(launched) BY <1>2, <3>1 DEF OneProcess
    <3> QED BY <1>2, <1>7, <3>2, <3>3 DEF OneProcess
  <2>3. CASE a = Supervisor
    <3>1. Busy(Supervisor) /\ supervisor.pc = "top"
      BY <1>1, <1>2, <2>3, OneStep DEF OneProcess
    <3>2. ~Busy(Supervisor)' BY <1>4, <1>5, <2>3, SupervisorStays
    <3>3. found[Supervisor] = Len(launched) BY <1>1, <1>2, <2>3 DEF OneProcess
    <3>4. handle' = 0 BY <1>1, <1>2, <2>3, <3>3 DEF OneProcess
    <3>5. ~AtStep(Supervisor, "end")' /\ ~AtStep(Supervisor, "drop")'
      BY <1>6, <2>3
    <3> QED BY <1>1, <1>2, <2>2, <3>1, <3>2, <3>4, <3>5 DEF OneProcess
  <2>4. CASE a # Supervisor
    <3>1. /\ Busy(Supervisor)' <=> Busy(Supervisor)
          /\ \A step : AtStep(Supervisor, step)' <=> AtStep(Supervisor, step)
      BY <1>4, <2>4, SupervisorApart, OthersStay
    <3> QED BY <1>1, <1>2, <2>1, <2>2, <3>1 DEF OneProcess
  <2> QED BY <2>3, <2>4
<1>11. OutdatedEnds'
  <2>1. ~WillFind(a) /\ ~AtStep(a, "end") BY <1>1 DEF WillFind, AtStep
  <2>2. wanted' = wanted /\ args' = args BY <1>1
  <2> QED BY <1>1, <1>2, <1>4, <2>1, <2>2, OutdatedKept
<1> QED BY <1>8, <1>9, <1>10, <1>11 DEF IperfIInv

LEMMA IperfSends ==
    ASSUME IperfIInv, NEW a \in Requests, NEW action \in Actions, Send(a, action)
    PROVE  IperfIInv'
<1>1. /\ found[a] = -1
      /\ found' = [found EXCEPT ![a] = 0]
      /\ todo' = [todo EXCEPT ![a] = ControlSteps[action]]
      /\ UNCHANGED <<wanted, args, handle, launched, alive, supervisor, missed>>
  BY DEF Send
<1>2. IperfTypeOK /\ KillsInOrder /\ OneProcess /\ OutdatedEnds BY DEF IperfIInv
<1>3. a \in Threads /\ a # Supervisor /\ Supervisor \in Threads
  BY RequestsApart, SupervisorApart
<1>4. /\ todo \in [Threads -> StepsLeft] /\ todo[Supervisor] \in KillsLeft
      /\ found \in [Threads -> -1..Len(launched)] /\ Len(launched) \in Nat
  BY <1>2 DEF IperfTypeOK
<1>5. Begun(ControlSteps[action]) BY ControlKinds
<1>6. /\ todo' \in [Threads -> StepsLeft]
      /\ todo'[a] = ControlSteps[action]
      /\ \A b \in Threads : b # a => todo'[b] = todo[b]
  BY <1>1, <1>3, <1>4, <1>5 DEF Begun
<1>7. Apart(a) BY <1>6 DEF Apart
<1>8. /\ found' \in [Threads -> -1..Len(launched)] /\ found'[a] = 0
      /\ \A b \in Threads : b # a => found'[b] = found[b]
  BY <1>1, <1>3, <1>4
<1>9. ~Busy(a) BY <1>1, <1>2, <1>3 DEF KillsInOrder
<1>10. IperfTypeOK'
  <2>1. todo'[Supervisor] \in KillsLeft BY <1>3, <1>4, <1>6
  <2> QED BY <1>1, <1>2, <1>6, <1>8, <2>1 DEF IperfTypeOK, Threads, Requests
<1>11. KillsInOrder'
  <2>1. ~AtStep(a, "end")' /\ ~AtStep(a, "drop")' BY <1>5, <1>6 DEF AtStep, Begun
  <2> QED BY <1>1, <1>2, <1>3, <1>7, <1>8, <2>1, KillsKept
<1>12. OneProcess'
  <2>1. found'[Supervisor] = found[Supervisor] BY <1>3, <1>8
  <2> QED BY <1>1, <1>2, <1>7, <2>1, ProcessKept
<1>13. OutdatedEnds'
  <2>1. ~WillFind(a) /\ ~AtStep(a, "end") BY <1>9 DEF WillFind, AtStep
  <2>2. wanted' = wanted /\ args' = args BY <1>1
  <2> QED BY <1>1, <1>2, <1>3, <1>7, <1>8, <2>1, <2>2, OutdatedKept
<1> QED BY <1>10, <1>11, <1>12, <1>13 DEF IperfIInv

(* The steps of the supervisor between its kills.                          *)
LEMMA StillKilling ==
    ASSUME UNCHANGED <<todo, wanted>>
    PROVE  \A a \in Threads :
              /\ Busy(a)' <=> Busy(a)
              /\ \A step : AtStep(a, step)' <=> AtStep(a, step)
              /\ WillFind(a)' <=> WillFind(a)
<1>1. \A a : Busy(a)' <=> Busy(a) BY DEF Busy
<1>2. \A a, step : AtStep(a, step)' <=> AtStep(a, step) BY <1>1 DEF AtStep
<1>3. \A a : WillFind(a)' <=> WillFind(a) BY <1>2 DEF WillFind
<1> QED BY <1>1, <1>2, <1>3

LEMMA KillsStay ==
    ASSUME KillsInOrder, UNCHANGED <<todo, wanted, found>>, alive' \subseteq alive
    PROVE  KillsInOrder'
<1> SUFFICES
      ASSUME NEW b \in Threads
      PROVE  /\ AtStep(b, "end")' \/ AtStep(b, "drop")' => found'[b] > 0
             /\ AtStep(b, "drop")' => found'[b] \notin alive'
             /\ b \in Requests /\ found'[b] = -1 => ~Busy(b)'
  BY DEF KillsInOrder, Threads, Requests
<1>1. /\ AtStep(b, "end") \/ AtStep(b, "drop") => found[b] > 0
      /\ AtStep(b, "drop") => found[b] \notin alive
      /\ b \in Requests /\ found[b] = -1 => ~Busy(b)
  BY DEF KillsInOrder
<1> QED BY <1>1, StillKilling

LEMMA DoomStays ==
    ASSUME UNCHANGED <<todo, wanted, found>>, NEW p,
           p \in missed => p \in missed', Doomed(p)
    PROVE  Doomed(p)'
<1>1. CASE p \in missed BY <1>1 DEF Doomed
<1>2. ASSUME NEW b \in Requests, WillFind(b) \/ (AtStep(b, "end") /\ found[b] = p)
      PROVE  Doomed(p)'
  <2>1. b \in Threads BY RequestsApart
  <2>2. WillFind(b)' \/ (AtStep(b, "end")' /\ found'[b] = p)
    BY <1>2, <2>1, StillKilling
  <2> QED BY <2>2 DEF Doomed, Requests
<1> QED BY <1>1, <1>2 DEF Doomed

LEMMA IperfLoops ==
    ASSUME IperfIInv, LoopTop PROVE IperfIInv'
<1>1. /\ Here("top")
      /\ UNCHANGED <<wanted, args, handle, launched, alive, found, missed>>
  BY DEF LoopTop
<1>2. IperfTypeOK /\ KillsInOrder /\ OneProcess /\ OutdatedEnds BY DEF IperfIInv
<1>3. supervisor.pc = "top" /\ ~Busy(Supervisor) BY <1>1 DEF Here
<1>4. handle = 0 /\ alive = {} BY <1>2, <1>3 DEF OneProcess
<1>5. /\ wanted /\ UNCHANGED todo
      /\ supervisor' = [supervisor EXCEPT !.pc = "command"]
  BY <1>4 DEF LoopTop, SupervisorTo
<1>6. supervisor \in [pc : SupervisorPlaces, args : 0..MaxRequests]
  BY <1>2 DEF IperfTypeOK
<1>7. /\ supervisor' \in [pc : SupervisorPlaces, args : 0..MaxRequests]
      /\ supervisor'.pc = "command"
  BY <1>5, <1>6 DEF SupervisorPlaces
<1>8. IperfTypeOK' BY <1>1, <1>2, <1>5, <1>7 DEF IperfTypeOK, Threads, Requests
<1>9. KillsInOrder' BY <1>1, <1>2, <1>5, KillsStay
<1>10. OneProcess'
  <2>1. ~Busy(Supervisor)' BY <1>3, <1>5 DEF Busy
  <2>2. ~AtStep(Supervisor, "end")' /\ ~AtStep(Supervisor, "drop")'
    BY <2>1 DEF AtStep
  <2> QED BY <1>1, <1>2, <1>4, <1>7, <2>1, <2>2 DEF OneProcess
<1>11. OutdatedEnds' BY <1>1, <1>4, <1>5, <1>7 DEF OutdatedEnds
<1> QED BY <1>8, <1>9, <1>10, <1>11 DEF IperfIInv

LEMMA IperfCommands ==
    ASSUME IperfIInv, Command PROVE IperfIInv'
<1>1. /\ supervisor.pc = "command" /\ ~Busy(Supervisor)
      /\ supervisor' = [pc |-> "spawn", args |-> args]
      /\ UNCHANGED <<wanted, args, handle, launched, alive, todo, found, missed>>
  BY DEF Command, Here
<1>2. IperfTypeOK /\ KillsInOrder /\ OneProcess /\ OutdatedEnds BY DEF IperfIInv
<1>3. handle = 0 /\ alive = {} BY <1>1, <1>2 DEF OneProcess
<1>4. args \in 0..MaxRequests BY <1>2 DEF IperfTypeOK
<1>5. /\ supervisor' \in [pc : SupervisorPlaces, args : 0..MaxRequests]
      /\ supervisor'.pc = "spawn" /\ supervisor'.args = args
  BY <1>1, <1>4 DEF SupervisorPlaces
<1>6. IperfTypeOK' BY <1>1, <1>2, <1>5 DEF IperfTypeOK, Threads, Requests
<1>7. KillsInOrder' BY <1>1, <1>2, KillsStay
<1>8. OneProcess'
  <2>1. ~Busy(Supervisor)' BY <1>1 DEF Busy
  <2>2. ~AtStep(Supervisor, "end")' /\ ~AtStep(Supervisor, "drop")'
    BY <2>1 DEF AtStep
  <2> QED BY <1>1, <1>2, <1>3, <1>5, <2>1, <2>2 DEF OneProcess
<1>9. OutdatedEnds'
  <2>1. SUFFICES ASSUME ~wanted PROVE Doomed(Len(launched) + 1)'
    BY <1>1, <1>3, <1>5 DEF OutdatedEnds
  <2> DEFINE p == Len(launched) + 1
  <2>2. Doomed(p) BY <1>1, <1>2, <2>1 DEF OutdatedEnds
  <2>3. p' = p BY <1>1
  <2> HIDE DEF p
  <2>4. Doomed(p)' BY <1>1, <2>2, <2>3, DoomStays DEF Doomed
  <2> QED BY <2>4 DEF p
<1> QED BY <1>6, <1>7, <1>8, <1>9 DEF IperfIInv

LEMMA IperfStarts ==
    ASSUME IperfIInv, StartProcess PROVE IperfIInv'
<1> DEFINE p == Len(launched) + 1
<1>1. /\ supervisor.pc = "spawn" /\ ~Busy(Supervisor)
      /\ launched' = Append(launched, supervisor.args)
      /\ alive' = alive \cup {p}
      /\ supervisor' = [supervisor EXCEPT !.pc = "publish"]
      /\ UNCHANGED <<wanted, args, handle, todo, found, missed>>
  BY DEF StartProcess, Here, SupervisorTo
<1>2. IperfTypeOK /\ KillsInOrder /\ OneProcess /\ OutdatedEnds BY DEF IperfIInv
<1>3. handle = 0 /\ alive = {} BY <1>1, <1>2 DEF OneProcess
<1>4. /\ launched \in Seq(0..MaxRequests) /\ Len(launched) \in Nat
      /\ supervisor \in [pc : SupervisorPlaces, args : 0..MaxRequests]
      /\ supervisor.args \in 0..MaxRequests
      /\ found \in [Threads -> -1..Len(launched)]
  BY <1>2 DEF IperfTypeOK
<1>5. /\ launched' \in Seq(0..MaxRequests) /\ Len(launched') = p
      /\ launched'[p] = supervisor.args
  BY <1>1, <1>4, AppendProperties
<1>6. /\ supervisor' \in [pc : SupervisorPlaces, args : 0..MaxRequests]
      /\ supervisor'.pc = "publish"
  BY <1>1, <1>4 DEF SupervisorPlaces
<1>7. p \in Nat /\ p > 0 /\ \A x \in -1..Len(launched) : x \in -1..p /\ x # p
  BY <1>4
<1>8. alive' = {p} BY <1>1, <1>3
<1> HIDE DEF p
<1>9. IperfTypeOK'
  <2>1. handle' \in 0..Len(launched') /\ alive' \in SUBSET (1..Len(launched'))
    BY <1>1, <1>3, <1>5, <1>7, <1>8
  <2>2. found' \in [Threads -> -1..Len(launched')] BY <1>1, <1>4, <1>5, <1>7
  <2> QED BY <1>1, <1>2, <1>5, <1>6, <2>1, <2>2 DEF IperfTypeOK, Threads, Requests
<1>10. KillsInOrder'
  <2> SUFFICES
        ASSUME NEW b \in Threads
        PROVE  /\ AtStep(b, "end")' \/ AtStep(b, "drop")' => found'[b] > 0
               /\ AtStep(b, "drop")' => found'[b] \notin alive'
               /\ b \in Requests /\ found'[b] = -1 => ~Busy(b)'
    BY DEF KillsInOrder, Threads, Requests
  <2>1. /\ AtStep(b, "end") \/ AtStep(b, "drop") => found[b] > 0
        /\ b \in Requests /\ found[b] = -1 => ~Busy(b)
    BY <1>2 DEF KillsInOrder
  <2>2. found'[b] \notin alive' BY <1>1, <1>4, <1>7, <1>8
  <2> QED BY <1>1, <2>1, <2>2, StillKilling
<1>11. OneProcess'
  <2>1. ~Busy(Supervisor)' BY <1>1 DEF Busy
  <2>2. ~AtStep(Supervisor, "end")' /\ ~AtStep(Supervisor, "drop")'
    BY <2>1 DEF AtStep
  <2> QED BY <1>1, <1>3, <1>5, <1>6, <1>8, <2>1, <2>2 DEF OneProcess
<1>12. OutdatedEnds'
  <2>1. SUFFICES ASSUME NEW q \in alive', launched'[q] # args' \/ ~wanted'
                 PROVE  Doomed(q)'
    BY <1>6 DEF OutdatedEnds
  <2>2. q = p BY <1>8
  <2>3. supervisor.args # args \/ ~wanted BY <1>1, <1>5, <2>1, <2>2
  <2>4. Doomed(p) BY <1>1, <1>2, <2>3 DEF OutdatedEnds, p
  <2>5. Doomed(q) BY <2>2, <2>4
  <2> QED BY <1>1, <2>5, DoomStays
<1> QED BY <1>9, <1>10, <1>11, <1>12 DEF IperfIInv

LEMMA IperfFails ==
    ASSUME IperfIInv, StartFails PROVE IperfIInv'
<1>1. /\ supervisor.pc = "spawn" /\ ~Busy(Supervisor)
      /\ supervisor' = [supervisor EXCEPT !.pc = "top"]
      /\ missed' = missed \ {Len(launched) + 1}
      /\ UNCHANGED <<wanted, args, handle, launched, alive, todo, found>>
  BY DEF StartFails, Here, SupervisorTo
<1>2. IperfTypeOK /\ KillsInOrder /\ OneProcess /\ OutdatedEnds BY DEF IperfIInv
<1>3. handle = 0 /\ alive = {} BY <1>1, <1>2 DEF OneProcess
<1>4. /\ supervisor' \in [pc : SupervisorPlaces, args : 0..MaxRequests]
      /\ supervisor'.pc = "top"
  BY <1>1, <1>2 DEF IperfTypeOK, SupervisorPlaces
<1>5. IperfTypeOK' BY <1>1, <1>2, <1>4 DEF IperfTypeOK, Threads, Requests
<1>6. KillsInOrder' BY <1>1, <1>2, KillsStay
<1>7. OneProcess'
  <2>1. ~Busy(Supervisor)' BY <1>1 DEF Busy
  <2>2. ~AtStep(Supervisor, "end")' /\ ~AtStep(Supervisor, "drop")'
    BY <2>1 DEF AtStep
  <2> QED BY <1>1, <1>2, <1>3, <1>4, <2>1, <2>2 DEF OneProcess
<1>8. OutdatedEnds' BY <1>1, <1>3, <1>4 DEF OutdatedEnds
<1> QED BY <1>5, <1>6, <1>7, <1>8 DEF IperfIInv

(* A step of the supervisor, or the end of a process, after which no       *)
(* launch is under way.                                                    *)
LEMMA OutdatedStays ==
    ASSUME OutdatedEnds, UNCHANGED <<wanted, args, launched, todo, found, missed>>,
           alive' \subseteq alive,
           supervisor' = supervisor \/ supervisor'.pc \notin {"command", "spawn"}
    PROVE  OutdatedEnds'
<1>1. ASSUME NEW p \in alive', launched'[p] # args' \/ ~wanted' PROVE Doomed(p)'
  <2>1. p \in alive /\ (launched[p] # args \/ ~wanted) BY <1>1
  <2>2. Doomed(p) BY <2>1 DEF OutdatedEnds
  <2> QED BY <2>2, DoomStays
<1>2. ASSUME \/ supervisor'.pc = "command" /\ ~wanted'
             \/ supervisor'.pc = "spawn" /\ (supervisor'.args # args' \/ ~wanted')
      PROVE  Doomed(Len(launched) + 1)'
  <2> DEFINE p == Len(launched) + 1
  <2>1. supervisor' = supervisor BY <1>2
  <2>2. Doomed(p) BY <1>2, <2>1 DEF OutdatedEnds
  <2>3. p' = p OBVIOUS
  <2> HIDE DEF p
  <2>4. Doomed(p)' BY <2>2, <2>3, DoomStays DEF Doomed
  <2> QED BY <2>4 DEF p
<1> QED BY <1>1, <1>2 DEF OutdatedEnds

LEMMA IperfPublishes ==
    ASSUME IperfIInv, Publish PROVE IperfIInv'
<1>1. /\ supervisor.pc = "publish" /\ ~Busy(Supervisor)
      /\ handle' = Len(launched)
      /\ supervisor' = [supervisor EXCEPT !.pc = "reading"]
      /\ UNCHANGED <<wanted, args, launched, alive, todo, found, missed>>
  BY DEF Publish, Here, SupervisorTo
<1>2. IperfTypeOK /\ KillsInOrder /\ OneProcess /\ OutdatedEnds BY DEF IperfIInv
<1>3. /\ supervisor' \in [pc : SupervisorPlaces, args : 0..MaxRequests]
      /\ supervisor'.pc = "reading"
  BY <1>1, <1>2 DEF IperfTypeOK, SupervisorPlaces
<1>4. Len(launched) \in Nat /\ alive \subseteq 1..Len(launched)
  BY <1>2 DEF IperfTypeOK
<1>5. IperfTypeOK'
  <2>1. handle' \in 0..Len(launched) BY <1>1, <1>4
  <2> QED BY <1>1, <1>2, <1>3, <2>1 DEF IperfTypeOK, Threads, Requests
<1>6. KillsInOrder' BY <1>1, <1>2, KillsStay
<1>7. OneProcess'
  <2>1. ~Busy(Supervisor)' BY <1>1 DEF Busy
  <2>2. ~AtStep(Supervisor, "end")' /\ ~AtStep(Supervisor, "drop")'
    BY <2>1 DEF AtStep
  <2>3. handle' = 0 => alive = {} BY <1>1, <1>4
  <2> QED BY <1>1, <1>2, <1>3, <2>1, <2>2, <2>3 DEF OneProcess
<1>8. OutdatedEnds' BY <1>1, <1>2, <1>3, OutdatedStays
<1> QED BY <1>5, <1>6, <1>7, <1>8 DEF IperfIInv

LEMMA IperfReads ==
    ASSUME IperfIInv, ReadLine PROVE IperfIInv'
<1>1. /\ supervisor.pc = "reading" /\ ~Busy(Supervisor)
      /\ supervisor' = [supervisor EXCEPT !.pc = "leaving"]
      /\ UNCHANGED <<wanted, args, handle, launched, alive, todo, found, missed>>
  BY DEF ReadLine, Here, SupervisorTo
<1>2. IperfTypeOK /\ KillsInOrder /\ OneProcess /\ OutdatedEnds BY DEF IperfIInv
<1>3. /\ supervisor' \in [pc : SupervisorPlaces, args : 0..MaxRequests]
      /\ supervisor'.pc = "leaving"
  BY <1>1, <1>2 DEF IperfTypeOK, SupervisorPlaces
<1>4. IperfTypeOK' BY <1>1, <1>2, <1>3 DEF IperfTypeOK, Threads, Requests
<1>5. KillsInOrder' BY <1>1, <1>2, KillsStay
<1>6. OneProcess'
  <2>1. ~Busy(Supervisor)' BY <1>1 DEF Busy
  <2>2. ~AtStep(Supervisor, "end")' /\ ~AtStep(Supervisor, "drop")'
    BY <2>1 DEF AtStep
  <2> QED BY <1>1, <1>2, <1>3, <2>1, <2>2 DEF OneProcess
<1>7. OutdatedEnds' BY <1>1, <1>2, <1>3, OutdatedStays
<1> QED BY <1>4, <1>5, <1>6, <1>7 DEF IperfIInv

LEMMA IperfLeaves ==
    ASSUME IperfIInv, Leave PROVE IperfIInv'
<1>1. /\ supervisor.pc = "leaving" /\ ~Busy(Supervisor)
      /\ UNCHANGED <<wanted, args, handle, launched, alive, found, missed>>
  BY DEF Leave, Here
<1>2. IperfTypeOK /\ KillsInOrder /\ OneProcess /\ OutdatedEnds BY DEF IperfIInv
<1>3. supervisor \in [pc : SupervisorPlaces, args : 0..MaxRequests]
  BY <1>2 DEF IperfTypeOK
<1>4. CASE wanted
  <2>1. UNCHANGED todo /\ supervisor' = [supervisor EXCEPT !.pc = "waiting"]
    BY <1>4 DEF Leave, SupervisorTo
  <2>2. /\ supervisor' \in [pc : SupervisorPlaces, args : 0..MaxRequests]
        /\ supervisor'.pc = "waiting"
    BY <1>3, <2>1 DEF SupervisorPlaces
  <2>3. IperfTypeOK' BY <1>1, <1>2, <2>1, <2>2 DEF IperfTypeOK, Threads, Requests
  <2>4. KillsInOrder' BY <1>1, <1>2, <2>1, KillsStay
  <2>5. OneProcess'
    <3>1. ~Busy(Supervisor)' BY <1>1, <2>1 DEF Busy
    <3>2. ~AtStep(Supervisor, "end")' /\ ~AtStep(Supervisor, "drop")'
      BY <3>1 DEF AtStep
    <3> QED BY <1>1, <1>2, <2>2, <3>1, <3>2 DEF OneProcess
  <2>6. OutdatedEnds' BY <1>1, <1>2, <2>1, <2>2, OutdatedStays
  <2> QED BY <2>3, <2>4, <2>5, <2>6 DEF IperfIInv
<1>5. CASE ~wanted
  <2>1. /\ todo' = [todo EXCEPT ![Supervisor] = KillSteps]
        /\ supervisor' = [supervisor EXCEPT !.pc = "top"]
    BY <1>5 DEF Leave, SupervisorTo, StartKill
  <2>2. /\ supervisor' \in [pc : SupervisorPlaces, args : 0..MaxRequests]
        /\ supervisor'.pc = "top"
    BY <1>3, <2>1 DEF SupervisorPlaces
  <2>3. /\ KillSteps \in KillsLeft /\ KillSteps \in StepsLeft
        /\ KillSteps # <<>> /\ Head(KillSteps) = "find"
    BY KillIsLeft DEF KillsLeft
  <2>4. todo \in [Threads -> StepsLeft] BY <1>2 DEF IperfTypeOK
  <2>5. /\ todo' \in [Threads -> StepsLeft] /\ todo'[Supervisor] = KillSteps
        /\ \A b \in Threads : b # Supervisor => todo'[b] = todo[b]
    BY <2>1, <2>3, <2>4, SupervisorApart
  <2>6. Apart(Supervisor) BY <2>5 DEF Apart
  <2>7. Busy(Supervisor)' BY <2>3, <2>5 DEF Busy
  <2>8. ~AtStep(Supervisor, "end")' /\ ~AtStep(Supervisor, "drop")'
    BY <2>3, <2>5 DEF AtStep
  <2>9. IperfTypeOK'
    BY <1>1, <1>2, <2>2, <2>3, <2>5 DEF IperfTypeOK, Threads, Requests
  <2>10. KillsInOrder'
    BY <1>1, <1>2, <2>6, <2>8, SupervisorApart, KillsKept
  <2>11. OneProcess' BY <1>1, <1>2, <2>2, <2>7, <2>8 DEF OneProcess
  <2>12. OutdatedEnds'
    <3>1. ASSUME NEW p \in alive' PROVE Doomed(p)'
      <4>1. Doomed(p) BY <1>1, <1>2, <1>5, <3>1 DEF OutdatedEnds
      <4> QED BY <1>1, <2>6, <4>1, SupervisorApart, DoomKept
    <3> QED BY <2>2, <3>1 DEF OutdatedEnds
  <2> QED BY <2>9, <2>10, <2>11, <2>12 DEF IperfIInv
<1> QED BY <1>4, <1>5

LEMMA IperfReaps ==
    ASSUME IperfIInv, Reap PROVE IperfIInv'
<1>1. /\ supervisor.pc = "waiting" /\ ~Busy(Supervisor)
      /\ Len(launched) \notin alive
      /\ handle' = 0
      /\ supervisor' = [supervisor EXCEPT !.pc = "top"]
      /\ UNCHANGED <<wanted, args, launched, alive, todo, found, missed>>
  BY DEF Reap, Here, SupervisorTo
<1>2. IperfTypeOK /\ KillsInOrder /\ OneProcess /\ OutdatedEnds BY DEF IperfIInv
<1>3. /\ supervisor' \in [pc : SupervisorPlaces, args : 0..MaxRequests]
      /\ supervisor'.pc = "top"
  BY <1>1, <1>2 DEF IperfTypeOK, SupervisorPlaces
<1>4. alive = {} BY <1>1, <1>2 DEF OneProcess
<1>5. IperfTypeOK'
  <2>1. handle' \in 0..Len(launched) BY <1>1, <1>2 DEF IperfTypeOK
  <2> QED BY <1>1, <1>2, <1>3, <2>1 DEF IperfTypeOK, Threads, Requests
<1>6. KillsInOrder' BY <1>1, <1>2, KillsStay
<1>7. OneProcess'
  <2>1. ~Busy(Supervisor)' BY <1>1 DEF Busy
  <2>2. ~AtStep(Supervisor, "end")' /\ ~AtStep(Supervisor, "drop")'
    BY <2>1 DEF AtStep
  <2> QED BY <1>1, <1>3, <1>4, <2>1, <2>2 DEF OneProcess
<1>8. OutdatedEnds' BY <1>1, <1>2, <1>3, OutdatedStays
<1> QED BY <1>5, <1>6, <1>7, <1>8 DEF IperfIInv

LEMMA IperfExits ==
    ASSUME IperfIInv, ProcessExits PROVE IperfIInv'
<1>1. /\ alive' \subseteq alive
      /\ UNCHANGED <<wanted, args, handle, launched, supervisor, todo, found,
                     missed>>
  BY DEF ProcessExits
<1>2. IperfTypeOK /\ KillsInOrder /\ OneProcess /\ OutdatedEnds BY DEF IperfIInv
<1>3. IperfTypeOK' BY <1>1, <1>2 DEF IperfTypeOK, Threads, Requests
<1>4. KillsInOrder' BY <1>1, <1>2, KillsStay
<1>5. OneProcess'
  <2>1. /\ Busy(Supervisor)' <=> Busy(Supervisor)
        /\ \A step : AtStep(Supervisor, step)' <=> AtStep(Supervisor, step)
    BY <1>1, StillKilling, SupervisorApart
  <2> QED BY <1>1, <1>2, <2>1 DEF OneProcess
<1>6. OutdatedEnds' BY <1>1, <1>2, OutdatedStays
<1> QED BY <1>3, <1>4, <1>5, <1>6 DEF IperfIInv

LEMMA IperfStutters ==
    ASSUME IperfIInv, UNCHANGED iperfVars PROVE IperfIInv'
<1>1. UNCHANGED <<wanted, args, handle, launched, alive, supervisor, todo, found,
                  missed>>
  BY DEF iperfVars
<1>2. IperfTypeOK /\ KillsInOrder /\ OneProcess /\ OutdatedEnds BY DEF IperfIInv
<1>3. IperfTypeOK' BY <1>1, <1>2 DEF IperfTypeOK, Threads, Requests
<1>4. KillsInOrder' BY <1>1, <1>2, KillsStay
<1>5. OneProcess'
  <2>1. /\ Busy(Supervisor)' <=> Busy(Supervisor)
        /\ \A step : AtStep(Supervisor, step)' <=> AtStep(Supervisor, step)
    BY <1>1, StillKilling, SupervisorApart
  <2> QED BY <1>1, <1>2, <2>1 DEF OneProcess
<1>6. OutdatedEnds' BY <1>1, <1>2, OutdatedStays
<1> QED BY <1>3, <1>4, <1>5, <1>6 DEF IperfIInv

LEMMA IperfInduction == ASSUME IperfIInv, [IperfNext]_iperfVars PROVE IperfIInv'
<1>1. CASE Supervise
  <2>1. Supervisor \in Threads BY SupervisorApart
  <2> QED
    BY <1>1, <2>1, IperfLoops, IperfCommands, IperfStarts, IperfFails,
       IperfPublishes, IperfReads, IperfLeaves, IperfReaps, IperfFinds,
       IperfEnds, IperfDrops
    DEF Supervise
<1>2. CASE ProcessExits BY <1>2, IperfExits
<1>3. ASSUME NEW a \in Requests, RequestStep(a) PROVE IperfIInv'
  <2>1. a \in Threads BY RequestsApart
  <2> QED
    BY <1>3, <2>1, IperfApplies, IperfWants, IperfTurnsOff, IperfReloads,
       IperfFinds, IperfEnds, IperfDrops
    DEF RequestStep
<1>4. ASSUME NEW a \in Requests, NEW action \in Actions, Send(a, action)
      PROVE  IperfIInv'
  BY <1>4, IperfSends
<1>5. CASE UNCHANGED iperfVars BY <1>5, IperfStutters
<1> QED BY <1>1, <1>2, <1>3, <1>4, <1>5 DEF IperfNext

(* However many requests change the arguments, stop, start and restart     *)
(* iperf3 through the supervisor's handle, at whatever steps of its loop,  *)
(* and however often processes end or cannot be started: there is never a  *)
(* second process, and once the requests are answered a process with other *)
(* arguments than the latest is one that a kill came too early for.        *)
THEOREM IperfFollows == IperfSpec => []ProcessFollowsArgs
<1>1. IperfInit => IperfIInv BY IperfInitially
<1>2. IperfIInv /\ [IperfNext]_iperfVars => IperfIInv' BY IperfInduction
<1>3. IperfIInv => ProcessFollowsArgs
  <2> SUFFICES ASSUME IperfIInv PROVE ProcessFollowsArgs OBVIOUS
  <2>1. alive \subseteq {Len(launched)} BY DEF IperfIInv, OneProcess
  <2>2. Cardinality(alive) <= 1
    <3>1. alive = {} \/ alive = {Len(launched)} BY <2>1
    <3>2. CASE alive = {}
      <4>1. Cardinality(alive) = 0 BY <3>2, FS_EmptySet
      <4> QED BY <4>1
    <3>3. CASE alive = {Len(launched)}
      <4>1. Cardinality(alive) = 1 BY <3>3, FS_Singleton
      <4> QED BY <4>1
    <3> QED BY <3>1, <3>2, <3>3
  <2>3. ASSUME \A a \in Requests : ~Busy(a),
               NEW p \in alive, launched[p] # args
        PROVE  p \in missed
    <3>1. Doomed(p) BY <2>3 DEF IperfIInv, OutdatedEnds
    <3>2. \A a \in Requests : ~WillFind(a) /\ ~AtStep(a, "end")
      BY <2>3 DEF WillFind, AtStep
    <3> QED BY <3>1, <3>2 DEF Doomed
  <2> QED BY <2>2, <2>3 DEF ProcessFollowsArgs
<1> QED BY <1>1, <1>2, <1>3, PTL DEF IperfSpec
=============================================================================
