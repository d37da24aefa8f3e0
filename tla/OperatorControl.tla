--------------------------- MODULE OperatorControl ---------------------------
(***************************************************************************)
(* One operator agent and its entry in the registry of operators.py, over  *)
(* the WebSocket sessions of operators_ws (api/routes.py).  Entries of     *)
(* different agents share nothing but a lock, so one agent is enough.      *)
(*                                                                         *)
(* The user sets a resource target for a network function (NF); the        *)
(* registry gives it the next generation and pushes the targets to the     *)
(* bound session; the agent applies what is new and reports the generation *)
(* back.  Handlers of WebSocket frames run one at a time on the event      *)
(* loop; HTTP handlers run on threads, concurrently with it.  A push reads *)
(* the targets under the lock and puts them on the queue of the session    *)
(* after releasing it.                                                     *)
(*                                                                         *)
(* The agent is a program of another repository; its part is modelled from *)
(* what the registry relies on: it declares first, skips generation 0 and  *)
(* what it has applied in this session, and reports every attempt.         *)
(*                                                                         *)
(* The value of a target stands for the resource fields of one set request *)
(* and is the number of that request, so that values tell requests apart.  *)
(***************************************************************************)
EXTENDS Naturals, Sequences, FiniteSets

CONSTANTS
    NFs,            \* network functions of the agent's namespace
    Sessions,       \* WebSocket sessions the agent opens, each once
    Threads,        \* HTTP threads of the backend
    EventLoop,      \* the thread that runs the WebSocket handlers
    NoSession,      \* "no session"
    MaxSets,        \* bound: set requests
    MaxAccidents,   \* bound: deletes, restarts and redeployments
    MaxQueued       \* bound: frames in the queue when a waiter pushes again

ASSUME NoSessionAssumption == NoSession \notin Sessions
ASSUME EventLoopAssumption == EventLoop \notin Threads
ASSUME BoundsAssumption ==
    MaxSets \in Nat /\ MaxAccidents \in Nat /\ MaxQueued \in Nat

VARIABLES
    known,      \* the agent has an entry in _operators
    connected,  \* the entry's ws_connected
    bound,      \* the session whose queue is in _ws
    targets,    \* targets[nf]: generation and value; generation 0 if missing
    acks,       \* acks[nf]: the entry of "apply"; status "" if missing
    pushing,    \* pushing[t]: what thread t still has to push
    handler,    \* handler[s]: the server's side of session s
    toAgent,    \* desired frames queued for the agent's session
    toServer,   \* toServer[s]: declare and report frames under way
    session,    \* the session the agent uses
    deployed,   \* the NFs that have a deployment the agent discovers
    live,       \* live[nf]: the value in the running pod
    seen,       \* seen[nf]: generation the agent last attempted
    sets,       \* set requests so far
    accidents,  \* accidents so far
    epoch,      \* history: epoch[nf] counts the restarts of its generations
    settled,    \* history: settled[s]: values acknowledged when session s, or
                \* one before it, was seeded
    tried       \* history: tried[nf]: the epoch of seen[nf]

registry == <<known, connected, bound, targets, acks, epoch, settled>>
agent == <<session, deployed, live, seen, tried>>
wires == <<toAgent, toServer>>
budget == <<sets, accidents>>
vars == <<registry, pushing, handler, wires, agent, budget>>

-----------------------------------------------------------------------------
Pushers == Threads \cup {EventLoop}

Value == 0..MaxSets

NoTarget == [generation |-> 0, value |-> 0]
NoAck == [generation |-> 0, value |-> 0, status |-> "", epoch |-> 0]

(* Progress of a thread through push_desired. *)
Idle == [step |-> "idle"]
Asked == [step |-> "asked"]
Read(payload) == [step |-> "read", payload |-> payload]

(* Frames of the agent. *)
Declare(nfs) == [type |-> "declare", nfs |-> nfs]
Report(nf, frame, ok) ==
    [type |-> "report", nf |-> nf, ok |-> ok,
     generation |-> frame.targets[nf].generation,
     value |-> frame.targets[nf].value, epoch |-> frame.epoch[nf]]

(* What the agent declares: the NFs it discovers, with their live values.  *)
Inventory == [nf \in deployed |-> live[nf]]

NoneAttaching == \A s \in Sessions : handler[s] # "attached"

LoopIsFree == pushing[EventLoop] = Idle /\ NoneAttaching

(* A WebSocket handler of session s takes its next frame.                  *)
Receive(s, type) ==
    /\ LoopIsFree
    /\ toServer[s] # <<>>
    /\ Head(toServer[s]).type = type
    /\ toServer' = [toServer EXCEPT ![s] = Tail(@)]

AskPush(t) == pushing' = [pushing EXCEPT ![t] = Asked]

Accident == accidents < MaxAccidents /\ accidents' = accidents + 1

Init ==
    /\ known = FALSE
    /\ connected = FALSE
    /\ bound = NoSession
    /\ targets = [nf \in NFs |-> NoTarget]
    /\ acks = [nf \in NFs |-> NoAck]
    /\ pushing = [t \in Pushers |-> Idle]
    /\ handler = [s \in Sessions |-> "unused"]
    /\ toAgent = <<>>
    /\ toServer = [s \in Sessions |-> <<>>]
    /\ session = NoSession
    /\ deployed = NFs
    /\ live = [nf \in NFs |-> 0]
    /\ seen = [nf \in NFs |-> 0]
    /\ sets = 0
    /\ accidents = 0
    /\ epoch = [nf \in NFs |-> 0]
    /\ settled = [s \in Sessions |-> {}]
    /\ tried = [nf \in NFs |-> 0]

-----------------------------------------------------------------------------
(* The registry.                                                           *)

(* The generations of the NF start again from 0: a new epoch, if the       *)
(* current one has given any.                                              *)
NextEpoch(nf) == IF targets[nf].generation = 0 THEN epoch[nf] ELSE epoch[nf] + 1

(* The entry is gone, and with it the generations.                         *)
Forget ==
    /\ known' = FALSE
    /\ connected' = FALSE
    /\ bound' = NoSession
    /\ targets' = [nf \in NFs |-> NoTarget]
    /\ acks' = [nf \in NFs |-> NoAck]
    /\ epoch' = [nf \in NFs |-> NextEpoch(nf)]
    /\ UNCHANGED settled

(* Mutant: only the first request of an NF gets a new generation. *)
SetResources_OneGeneration(t, nf) ==
    /\ known
    /\ sets < MaxSets
    /\ pushing[t] = Idle
    /\ sets' = sets + 1
    /\ targets' = [targets EXCEPT ![nf] = [generation |-> 1, value |-> sets + 1]]
    /\ acks' = [acks EXCEPT ![nf] =
            [generation |-> 0, value |-> sets + 1, status |-> "pending",
             epoch |-> epoch[nf]]]
    /\ AskPush(t)
    /\ UNCHANGED <<known, connected, bound, epoch, settled, handler, wires,
                   agent, accidents>>

(* set_resources on an HTTP thread: the next generation, marked pending.   *)
SetResources(t, nf) ==
    /\ known
    /\ sets < MaxSets
    /\ pushing[t] = Idle
    /\ sets' = sets + 1
    /\ targets' = [targets EXCEPT ![nf] =
            [generation |-> @.generation + 1, value |-> sets + 1]]
    /\ acks' = [acks EXCEPT ![nf] =
            [generation |-> 0, value |-> sets + 1, status |-> "pending",
             epoch |-> epoch[nf]]]
    /\ AskPush(t)
    /\ UNCHANGED <<known, connected, bound, epoch, settled, handler, wires,
                   agent, accidents>>

(* wait_cpu_apply pushes again while it waits for a pending target.        *)
PushAgain(t) ==
    /\ pushing[t] = Idle
    /\ Len(toAgent) < MaxQueued
    /\ \E nf \in NFs : acks[nf].status = "pending"
    /\ AskPush(t)
    /\ UNCHANGED <<registry, handler, wires, agent, budget>>

(* push_desired, first half: desired() under the lock, or KeyError.        *)
ReadDesired(t) ==
    /\ pushing[t] = Asked
    /\ pushing' = [pushing EXCEPT ![t] =
            IF known THEN Read([targets |-> targets, epoch |-> epoch])
                     ELSE Idle]
    /\ UNCHANGED <<registry, handler, wires, agent, budget>>

(* push_desired, second half: the queue of the session bound now, if any.  *)
(* Nobody reads the queue of a session the agent has left.                 *)
Enqueue(t) ==
    /\ pushing[t].step = "read"
    /\ pushing' = [pushing EXCEPT ![t] = Idle]
    /\ toAgent' = IF bound # NoSession /\ bound = session
                  THEN Append(toAgent, pushing[t].payload)
                  ELSE toAgent
    /\ UNCHANGED <<registry, handler, toServer, agent, budget>>

(* list_operators and get_operator drop an entry that has been offline for *)
(* STALE_AFTER_SEC.                                                        *)
Prune ==
    /\ known
    /\ ~connected
    /\ Forget
    /\ UNCHANGED <<pushing, handler, wires, agent, budget>>

(* DELETE /operators/{id}: the session stays open but is bound no longer.  *)
DeleteOperator ==
    /\ known
    /\ Accident
    /\ Forget
    /\ UNCHANGED <<pushing, handler, wires, agent, sets>>

(* The backend restarts: the registry was in memory, the sockets close.    *)
RestartBackend ==
    /\ Accident
    /\ Forget
    /\ pushing' = [t \in Pushers |-> Idle]
    /\ handler' = [s \in Sessions |->
                      IF handler[s] = "unused" THEN "unused" ELSE "closed"]
    /\ toAgent' = <<>>
    /\ toServer' = [s \in Sessions |-> <<>>]
    /\ session' = NoSession
    /\ UNCHANGED <<deployed, live, seen, tried, sets>>

-----------------------------------------------------------------------------
(* The WebSocket handlers.                                                 *)

(* The first declare of a session: attach_ws binds its queue ...           *)
Attach(s) ==
    /\ LoopIsFree
    /\ handler[s] = "new"
    /\ toServer[s] # <<>>
    /\ handler' = [handler EXCEPT ![s] = "attached"]
    /\ known' = TRUE
    /\ connected' = TRUE
    /\ bound' = s
    /\ UNCHANGED <<targets, acks, epoch, settled, pushing, wires, agent,
                   budget>>

(* A target with a generation above the acknowledged one.                  *)
(* Mutant: acknowledged targets count as in flight. *)
InFlight_OrAcked(nf) == targets[nf].generation >= acks[nf].generation

InFlight(nf) == targets[nf].generation > acks[nf].generation

(* ... and register seeds the targets from the declared values: generation *)
(* 0 for what is acknowledged, while a target in flight is kept with its   *)
(* acknowledgement.  NFs that were not declared are dropped.               *)
Settled == {nf \in NFs : targets[nf].generation \in 1..acks[nf].generation}

SettledSoFar == (UNION {settled[s] : s \in Sessions})
                \cup {targets[nf].value : nf \in Settled}

(* Mutant: every target is seeded. *)
SeedFrom_All(nfs) ==
    /\ targets' = [nf \in NFs |->
          IF nf \in DOMAIN nfs THEN [generation |-> 0, value |-> nfs[nf]]
                               ELSE NoTarget]
    /\ acks' = [nf \in NFs |-> NoAck]
    /\ epoch' = [nf \in NFs |-> NextEpoch(nf)]

SeedFrom(nfs) ==
    LET kept == {nf \in DOMAIN nfs : InFlight(nf)}
    IN  /\ targets' = [nf \in NFs |->
              IF nf \in kept THEN targets[nf]
              ELSE IF nf \in DOMAIN nfs
                   THEN [generation |-> 0, value |-> nfs[nf]]
                   ELSE NoTarget]
        /\ acks' = [nf \in NFs |-> IF nf \in kept THEN acks[nf] ELSE NoAck]
        /\ epoch' = [nf \in NFs |->
              IF nf \in kept THEN epoch[nf] ELSE NextEpoch(nf)]

FirstDeclare(s) ==
    /\ handler[s] = "attached"
    /\ handler' = [handler EXCEPT ![s] = "declared"]
    /\ toServer' = [toServer EXCEPT ![s] = Tail(@)]
    /\ known' = TRUE
    /\ SeedFrom(Head(toServer[s]).nfs)
    /\ settled' = [settled EXCEPT ![s] = SettledSoFar]
    /\ AskPush(EventLoop)
    /\ UNCHANGED <<connected, bound, toAgent, agent, budget>>

(* A later declare refreshes the inventory; it makes a new entry if there  *)
(* is none, but does not bind the session again.                           *)
DeclareAgain(s) ==
    /\ handler[s] = "declared"
    /\ Receive(s, "declare")
    /\ known' = TRUE
    /\ AskPush(EventLoop)
    /\ UNCHANGED <<connected, bound, targets, acks, epoch, settled, handler,
                   toAgent, agent, budget>>

(* Mutant: report_apply drops the report of a failure. *)
ReportApply_DropsErrors(s) ==
    LET frame == Head(toServer[s])
    IN  /\ handler[s] = "declared"
        /\ Receive(s, "report")
        /\ acks' = IF known /\ frame.ok
                   THEN [acks EXCEPT ![frame.nf] =
                            [generation |-> frame.generation,
                             value |-> frame.value, status |-> "ok",
                             epoch |-> frame.epoch]]
                   ELSE acks
        /\ UNCHANGED <<known, connected, bound, targets, epoch, settled,
                       pushing, handler, toAgent, agent, budget>>

(* report_apply overwrites the acknowledgement with what is reported.      *)
ReportApply(s) ==
    LET frame == Head(toServer[s])
    IN  /\ handler[s] = "declared"
        /\ Receive(s, "report")
        /\ acks' = IF known
                   THEN [acks EXCEPT ![frame.nf] =
                            [generation |-> frame.generation,
                             value |-> frame.value,
                             status |-> IF frame.ok THEN "ok" ELSE "error",
                             epoch |-> frame.epoch]]
                   ELSE acks
        /\ UNCHANGED <<known, connected, bound, targets, epoch, settled,
                       pushing, handler, toAgent, agent, budget>>

(* Mutant: the connected flag is cleared whatever session is bound. *)
Detach_ClearsFlag(s) ==
    /\ handler[s] \in {"new", "declared"}
    /\ session # s
    /\ LoopIsFree
    /\ handler' = [handler EXCEPT ![s] = "closed"]
    /\ toServer' = [toServer EXCEPT ![s] = <<>>]
    /\ bound' = IF bound = s THEN NoSession ELSE bound
    /\ connected' = FALSE
    /\ UNCHANGED <<known, targets, acks, epoch, settled, pushing, toAgent,
                   agent, budget>>

(* The handler notices that the agent is gone; detach_ws unbinds the       *)
(* session only if it is still the bound one.                              *)
Detach(s) ==
    /\ handler[s] \in {"new", "declared"}
    /\ session # s
    /\ LoopIsFree
    /\ handler' = [handler EXCEPT ![s] = "closed"]
    /\ toServer' = [toServer EXCEPT ![s] = <<>>]
    /\ bound' = IF bound = s THEN NoSession ELSE bound
    /\ connected' = (connected /\ bound # s)
    /\ UNCHANGED <<known, targets, acks, epoch, settled, pushing, toAgent,
                   agent, budget>>

-----------------------------------------------------------------------------
(* The agent (external).                                                   *)

Connect(s) ==
    /\ session = NoSession
    /\ handler[s] = "unused"
    /\ session' = s
    /\ handler' = [handler EXCEPT ![s] = "new"]
    /\ seen' = [nf \in NFs |-> 0]
    /\ tried' = [nf \in NFs |-> 0]
    /\ toServer' = [toServer EXCEPT ![s] = <<Declare(Inventory)>>]
    /\ UNCHANGED <<registry, pushing, toAgent, deployed, live, budget>>

(* The agent loses its connection; frames it sent may still be under way.  *)
Disconnect ==
    /\ session # NoSession
    /\ session' = NoSession
    /\ toAgent' = <<>>
    /\ UNCHANGED <<registry, pushing, handler, toServer, deployed, live, seen,
                   tried, budget>>

(* The periodic declare, when the last one and its push are worked off.    *)
Redeclare ==
    /\ session # NoSession
    /\ toAgent = <<>>
    /\ toServer[session] = <<>>
    /\ toServer' = [toServer EXCEPT ![session] = <<Declare(Inventory)>>]
    /\ UNCHANGED <<registry, pushing, handler, toAgent, agent, budget>>

(* The agent attempts a pushed target that is newer than what it attempted *)
(* before, successfully or not, and reports.                               *)
Apply(nf) ==
    LET frame == Head(toAgent)
    IN  /\ session # NoSession
        /\ toAgent # <<>>
        /\ nf \in deployed
        /\ frame.targets[nf].generation > seen[nf]
        /\ seen' = [seen EXCEPT ![nf] = frame.targets[nf].generation]
        /\ tried' = [tried EXCEPT ![nf] = frame.epoch[nf]]
        /\ \E ok \in BOOLEAN :
              /\ live' = IF ok THEN [live EXCEPT ![nf] = frame.targets[nf].value]
                         ELSE live
              /\ toServer' = [toServer EXCEPT ![session] =
                                 Append(@, Report(nf, frame, ok))]
        /\ UNCHANGED <<registry, pushing, handler, toAgent, session, deployed,
                       budget>>

(* The agent is done with a frame that has nothing new left for it.        *)
FinishFrame ==
    LET frame == Head(toAgent)
    IN  /\ session # NoSession
        /\ toAgent # <<>>
        /\ \A nf \in deployed : frame.targets[nf].generation <= seen[nf]
        /\ toAgent' = Tail(toAgent)
        /\ UNCHANGED <<registry, pushing, handler, toServer, agent, budget>>

(* A deployment disappears or comes back, in place of a new pod that has   *)
(* the resources of its template.                                          *)
Redeploy(nf) ==
    /\ Accident
    /\ deployed' = IF nf \in deployed THEN deployed \ {nf}
                                      ELSE deployed \cup {nf}
    /\ live' = [live EXCEPT ![nf] = 0]
    /\ UNCHANGED <<registry, pushing, handler, wires, session, seen, tried,
                   sets>>

-----------------------------------------------------------------------------
Push(t) == ReadDesired(t) \/ Enqueue(t)

Serve(s) == Attach(s) \/ FirstDeclare(s) \/ DeclareAgain(s)
            \/ ReportApply(s) \/ Detach(s)

Work == (\E nf \in NFs : Apply(nf)) \/ FinishFrame

Next ==
    \/ \E t \in Threads, nf \in NFs : SetResources(t, nf)
    \/ \E t \in Threads : PushAgain(t)
    \/ \E t \in Pushers : Push(t)
    \/ Prune \/ DeleteOperator \/ RestartBackend
    \/ \E s \in Sessions : Serve(s) \/ Connect(s)
    \/ Disconnect \/ Redeclare \/ Work
    \/ \E nf \in NFs : Redeploy(nf)

(* Threads that can run do, and the event loop serves every socket in its  *)
(* turn; an agent that is connected works off its frames and declares      *)
(* every few seconds.  Nobody has to set, delete, connect, disconnect or   *)
(* prune.                                                                  *)
Fairness ==
    /\ \A t \in Pushers : WF_vars(Push(t))
    /\ \A s \in Sessions : SF_vars(Serve(s))
    /\ WF_vars(Work)
    /\ WF_vars(Redeclare)

Spec == Init /\ [][Next]_vars /\ Fairness

-----------------------------------------------------------------------------
Target == [generation : Nat, value : Value]

Acknowledgement == [generation : Nat, value : Value, epoch : Nat,
                    status : {"", "pending", "ok", "error"}]

Payload == [targets : [NFs -> Target], epoch : [NFs -> Nat]]

PushStep == {Idle, Asked} \cup [step : {"read"}, payload : Payload]

Inventories == UNION {[D -> Value] : D \in SUBSET NFs}

Frame ==
    [type : {"declare"}, nfs : Inventories]
    \cup [type : {"report"}, nf : NFs, ok : BOOLEAN, generation : Nat,
          value : Value, epoch : Nat]

TypeOK ==
    /\ known \in BOOLEAN
    /\ connected \in BOOLEAN
    /\ bound \in Sessions \cup {NoSession}
    /\ targets \in [NFs -> Target]
    /\ acks \in [NFs -> Acknowledgement]
    /\ pushing \in [Pushers -> PushStep]
    /\ handler \in [Sessions ->
            {"unused", "new", "attached", "declared", "closed"}]
    /\ toAgent \in Seq(Payload)
    /\ toServer \in [Sessions -> Seq(Frame)]
    /\ session \in Sessions \cup {NoSession}
    /\ deployed \in SUBSET NFs
    /\ live \in [NFs -> Value]
    /\ seen \in [NFs -> Nat]
    /\ sets \in Value
    /\ accidents \in 0..MaxAccidents
    /\ epoch \in [NFs -> Nat]
    /\ settled \in [Sessions -> SUBSET Value]
    /\ tried \in [NFs -> Nat]

(* The two records of a connection agree: an entry is shown as connected   *)
(* exactly when a session is bound, and that session has been attached and *)
(* is served.  attach_ws, detach_ws, delete_operator and the pruning of an *)
(* offline entry have to keep _operators and _ws in step.                  *)
BindingIsConsistent ==
    /\ connected <=> bound # NoSession
    /\ connected => known
    /\ bound # NoSession => handler[bound] \in {"attached", "declared"}

(* What a waiter may rely on (wait_cpu_apply): as long as the generations  *)
(* of the NF have not restarted since the frame was read, an               *)
(* acknowledgement with the generation of the target, or a later one,      *)
(* acknowledges the value of the target and no other set request's.        *)
AckNamesTarget ==
    \A nf \in NFs :
        /\ targets[nf].generation > 0
        /\ acks[nf].status \in {"ok", "error"}
        /\ acks[nf].epoch = epoch[nf]
        /\ acks[nf].generation >= targets[nf].generation
        => acks[nf].value = targets[nf].value

(* A target the user has set and the agent has not acknowledged is not     *)
(* lost: it gives way only to a newer request, to the end of the entry, or *)
(* to the first declare of a session that does not name its NF.            *)
InFlightSurvives ==
    [][\A nf \in NFs :
          InFlight(nf) /\ targets'[nf] # targets[nf]
            => \/ sets' > sets
               \/ ~known'
               \/ \E s \in Sessions : /\ handler[s] = "attached"
                                      /\ handler'[s] = "declared"
                                      /\ nf \notin DOMAIN Head(toServer[s]).nfs]_vars

(* The agent attempts a request that was acknowledged when its session, or *)
(* an earlier one, was seeded.                                             *)
Replays(nf) ==
    seen'[nf] > seen[nf] /\ Head(toAgent).targets[nf].value \in settled[session]

(* The seeding covers what is read after it: a request that was            *)
(* acknowledged when a session was seeded is attempted in it, or in one    *)
(* seeded later, only from a push that had read the targets before the     *)
(* generations of the NF restarted, as the seeding makes them.             *)
NoReplay ==
    [][\A nf \in NFs : Replays(nf) => Head(toAgent).epoch[nf] # epoch[nf]]_vars

(* "Reconnect does not replay stale UI targets" (operators_ws), whatever   *)
(* pushes are under way: attach_ws binds the queue before register seeds   *)
(* the targets, and a push may have read them before either.               *)
ReconnectDoesNotReplay == [][\A nf \in NFs : ~Replays(nf)]_vars

(* In this session the agent has attempted a target of an earlier epoch,   *)
(* with a generation that the present one has yet to pass: the agent skips *)
(* what is pushed.                                                         *)
Shadowed(nf) == tried[nf] < epoch[nf] /\ seen[nf] >= targets[nf].generation

(* A pending target gets an answer, unless the agent's session ends or is  *)
(* not the bound one, the NF is not there, or a push that overlapped the   *)
(* first declare has shadowed it.                                          *)
PendingIsAnswered ==
    \A nf \in NFs :
        targets[nf].generation > 0 /\ acks[nf].status = "pending"
          ~> \/ acks[nf].status # "pending"
             \/ bound = NoSession \/ bound # session
             \/ nf \notin deployed
             \/ Shadowed(nf)

=============================================================================
