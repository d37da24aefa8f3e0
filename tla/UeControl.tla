------------------------------- MODULE UeControl -------------------------------
(***************************************************************************)
(* One UE traffic agent and its entry in the registry of ues.py, over the  *)
(* sessions of ues_ws (api/routes.py), with the client of iperf3-n6 at the *)
(* other end.  Entries of different agents share nothing but a lock.       *)
(*                                                                         *)
(* A user changes some fields of the desired configuration; the registry   *)
(* merges them over what was desired, gives the result the next generation *)
(* and pushes it.  The desired state is also kept in a cache that outlives *)
(* the pruning of the entry.  attach_ws and register, and the two halves   *)
(* of push_desired, are critical sections of their own.                    *)
(*                                                                         *)
(* ws_connected is written wherever the queue table is, so "bound" stands  *)
(* for both.  Status frames and apply reports change what is displayed and *)
(* when the agent was last seen, and are left out; so are duration and     *)
(* interval, the fields a declare does not report.                         *)
(***************************************************************************)
EXTENDS Naturals, Sequences

CONSTANTS
    Fields,         \* the fields of a configuration
    Waking,         \* those that turn "set" into "start" after a stop
    Own,            \* the value a field has in the agent's own settings
    DefaultValue,   \* the value a field has in _DEFAULT_DESIRED
    Nothing,        \* no configuration
    Requests,       \* the requests that are made: fields they name, action
    Sessions,       \* WebSocket sessions the agent opens, each once
    Threads,        \* HTTP threads of the backend
    EventLoop,      \* the thread that runs the WebSocket handlers
    NoSession,      \* "no session"
    MaxSets,        \* bound: set requests
    MaxDeletes,     \* bound: deletions of the entry
    MaxCrashes,     \* bound: restarts of the backend and of the agent
    SessionsInOrder \* TRUE: no declare of a session arrives after the next one's

ASSUME FieldsAssumption == Waking \subseteq Fields
ASSUME RequestsAssumption ==
    Requests \subseteq (SUBSET Fields) \X {"set", "start", "stop"}
ASSUME SessionAssumption == NoSession \notin Sessions
ASSUME ThreadsAssumption == EventLoop \notin Threads
ASSUME BoundsAssumption == MaxSets \in Nat /\ MaxDeletes \in Nat /\ MaxCrashes \in Nat
ASSUME SwitchAssumption == SessionsInOrder \in BOOLEAN

(* A value is the number of the set request it came from, or one of these. *)
Values == (1..MaxSets) \cup {Own, DefaultValue}
Config == [Fields -> Values]

ASSUME ValuesAssumption ==
    Own \notin Nat /\ DefaultValue \notin Nat \cup {Own} /\ Nothing \notin Config

(* What an agent process starts with, and _DEFAULT_DESIRED.                *)
Local == [f \in Fields |-> Own]
Default == [f \in Fields |-> DefaultValue]

VARIABLES
    known,      \* the agent has an entry in _ues
    desired,    \* the entry's desired state
    cache,      \* its element of _desired_cache; generation 0 if none
    bound,      \* the session whose queue is in _ws
    pushing,    \* pushing[t]: what thread t still has to push
    handler,    \* handler[s]: the server's side of session s
    toAgent,    \* desired frames queued for the agent's session
    declares,   \* declares[s]: declare frames under way
    session,    \* the session the agent uses
    config,     \* the configuration the agent runs
    enabled,    \* the agent is to run iperf3 at all
    launched,   \* the agent's status is not "idle"
    applied,    \* the agent's applied_generation
    sets, deletes, crashes,     \* counted against the bounds
    legitimate  \* history: the agent's own configuration, those answered, and
                \* the defaults if a push has read them in a blank entry

registry == <<known, desired, cache, bound>>
agent == <<config, enabled, launched, applied>>
budget == <<sets, deletes, crashes>>
vars == <<registry, pushing, handler, toAgent, declares, session, agent,
          budget, legitimate>>

-----------------------------------------------------------------------------
Desired(generation, conf, on) == [generation |-> generation, conf |-> conf, on |-> on]

(* A new entry's desired state, and an absent cache element.               *)
NoDesired == Desired(0, Default, TRUE)

Idle == [step |-> "idle"]
Asked == [step |-> "asked"]
Read(frame, to) == [step |-> "read", frame |-> frame, to |-> to]

Pushers == Threads \cup {EventLoop}

NoneAttaching == \A s \in Sessions : handler[s] # "attached"

(* The event loop is in no handler.                                        *)
LoopIsFree == pushing[EventLoop] = Idle /\ NoneAttaching

(* The entry is the one attach_ws has made, without what the agent         *)
(* declares or what is cached; attach_ws and register are critical         *)
(* sections of their own, and an HTTP thread may come between them.        *)
Blank == known /\ ~NoneAttaching /\ desired = NoDesired

(* What the agent reports of itself when it declares.                      *)
Declaration == [conf |-> config, on |-> enabled /\ launched]

Init ==
    /\ known = FALSE
    /\ desired = NoDesired
    /\ cache = NoDesired
    /\ bound = NoSession
    /\ pushing = [t \in Pushers |-> Idle]
    /\ handler = [s \in Sessions |-> "unused"]
    /\ toAgent = <<>>
    /\ declares = [s \in Sessions |-> <<>>]
    /\ session = NoSession
    /\ config = Local
    /\ enabled = TRUE
    /\ launched = FALSE
    /\ applied = 0
    /\ sets = 0 /\ deletes = 0 /\ crashes = 0
    /\ legitimate = {Local}

-----------------------------------------------------------------------------
(* The registry.                                                           *)

Merged(named, value) ==
    [f \in Fields |-> IF f \in named THEN value ELSE desired.conf[f]]

(* Whether iperf3 is to run after a request: "set" keeps what was desired, *)
(* but wakes a stopped agent when it names a protocol or a load.           *)
On(action, named) ==
    CASE action = "start" -> TRUE
      [] action = "stop" -> FALSE
      [] action = "set" -> desired.on \/ named \cap Waking # {}

(* set_desired on an HTTP thread, up to its push.                          *)
SetDesired(t, named, action) ==
    /\ known
    /\ sets < MaxSets
    /\ pushing[t] = Idle
    /\ sets' = sets + 1
    /\ desired' = Desired(desired.generation + 1, Merged(named, sets + 1), On(action, named))
    /\ cache' = desired'
    /\ pushing' = [pushing EXCEPT ![t] = Asked]
    /\ legitimate' = legitimate \cup {desired'.conf}
    /\ UNCHANGED <<known, bound, handler, toAgent, declares, session, agent, deletes, crashes>>

(* push_desired, first half: desired state and queue under one lock.       *)
ReadDesired(t) ==
    /\ pushing[t] = Asked
    /\ pushing' = [pushing EXCEPT ![t] =
            IF known /\ bound # NoSession THEN Read(desired, bound) ELSE Idle]
    /\ legitimate' = IF Blank THEN legitimate \cup {Default} ELSE legitimate
    /\ UNCHANGED <<registry, handler, toAgent, declares, session, agent, budget>>

(* push_desired, second half: nobody reads the queue of a session the      *)
(* agent has left.                                                         *)
Enqueue(t) ==
    /\ pushing[t].step = "read"
    /\ pushing' = [pushing EXCEPT ![t] = Idle]
    /\ toAgent' = IF pushing[t].to = session
                  THEN Append(toAgent, pushing[t].frame) ELSE toAgent
    /\ UNCHANGED <<registry, handler, declares, session, agent, budget, legitimate>>

(* _prune_stale_locked: the agent has been offline for 30 seconds.         *)
Prune ==
    /\ known
    /\ bound = NoSession
    /\ session # NoSession => handler[session] = "unused"
    /\ known' = FALSE
    /\ cache' = IF desired.generation > 0 THEN desired ELSE cache
    /\ desired' = NoDesired
    /\ UNCHANGED <<bound, pushing, handler, toAgent, declares, session, agent, budget, legitimate>>

(* delete_ue: the session stays open.                                      *)
DeleteUe ==
    /\ deletes < MaxDeletes
    /\ deletes' = deletes + 1
    /\ known' = FALSE
    /\ bound' = NoSession
    /\ desired' = NoDesired
    /\ cache' = NoDesired
    /\ UNCHANGED <<pushing, handler, toAgent, declares, session, agent, sets, crashes, legitimate>>

(* A new process of the backend: nothing of this is stored.                *)
RestartBackend ==
    /\ crashes < MaxCrashes
    /\ crashes' = crashes + 1
    /\ known' = FALSE
    /\ bound' = NoSession
    /\ desired' = NoDesired
    /\ cache' = NoDesired
    /\ pushing' = [t \in Pushers |-> Idle]
    /\ handler' = [s \in Sessions |-> IF handler[s] = "unused" /\ s # session
                                      THEN "unused" ELSE "gone"]
    /\ toAgent' = <<>>
    /\ declares' = [s \in Sessions |-> <<>>]
    /\ session' = NoSession
    /\ UNCHANGED <<agent, sets, deletes, legitimate>>

-----------------------------------------------------------------------------
(* The WebSocket handler of a session.                                     *)

(* The first declare of a session: attach_ws.                              *)
Attach(s) ==
    /\ LoopIsFree
    /\ handler[s] = "unused"
    /\ declares[s] # <<>>
    /\ handler' = [handler EXCEPT ![s] = "attached"]
    /\ bound' = s
    /\ known' = TRUE
    /\ UNCHANGED <<desired, cache, pushing, toAgent, declares, session, agent, budget, legitimate>>

(* Mutants: the seed is the default state and not the declared one; the *)
(* cache is not asked. *)
Seeded_WithDefaults(declaration) ==
    CASE desired.generation > 0 -> desired
      [] desired.generation = 0 /\ cache.generation > 0 -> cache
      [] OTHER -> Desired(0, Default, declaration.on)

Seeded_IgnoresCache(declaration) ==
    IF desired.generation > 0 THEN desired
    ELSE Desired(0, declaration.conf, declaration.on)

(* The desired state after a declare: the entry's, the cached one, or a    *)
(* seed of generation 0 from what the agent reports.                       *)
Seeded(declaration) ==
    CASE desired.generation > 0 -> desired
      [] desired.generation = 0 /\ cache.generation > 0 -> cache
      [] OTHER -> Desired(0, declaration.conf, declaration.on)

(* Mutant: only the first declare is answered with the desired state. *)
Register_PushesOnce(s) ==
    /\ \/ handler[s] = "attached"
       \/ handler[s] = "serving" /\ LoopIsFree
    /\ declares[s] # <<>>
    /\ declares' = [declares EXCEPT ![s] = Tail(@)]
    /\ handler' = [handler EXCEPT ![s] = "serving"]
    /\ known' = TRUE
    /\ desired' = Seeded(Head(declares[s]))
    /\ cache' = IF desired'.generation > 0 THEN desired' ELSE cache
    /\ pushing' = IF handler[s] = "attached"
                  THEN [pushing EXCEPT ![EventLoop] = Asked] ELSE pushing
    /\ UNCHANGED <<bound, toAgent, session, agent, budget, legitimate>>

(* register, up to its push; every declare comes here.                     *)
Register(s) ==
    /\ \/ handler[s] = "attached"
       \/ handler[s] = "serving" /\ LoopIsFree
    /\ declares[s] # <<>>
    /\ declares' = [declares EXCEPT ![s] = Tail(@)]
    /\ handler' = [handler EXCEPT ![s] = "serving"]
    /\ known' = TRUE
    /\ desired' = Seeded(Head(declares[s]))
    /\ cache' = IF desired'.generation > 0 THEN desired' ELSE cache
    /\ pushing' = [pushing EXCEPT ![EventLoop] = Asked]
    /\ UNCHANGED <<bound, toAgent, session, agent, budget, legitimate>>

(* The end of a session the agent has left, noticed late: detach_ws.       *)
Detach(s) ==
    /\ LoopIsFree
    /\ session # s
    /\ \/ handler[s] = "serving"
       \/ handler[s] = "unused" /\ declares[s] # <<>>
    /\ handler' = [handler EXCEPT ![s] = "gone"]
    /\ bound' = IF bound = s THEN NoSession ELSE bound
    /\ declares' = [declares EXCEPT ![s] = <<>>]
    /\ UNCHANGED <<known, desired, cache, pushing, toAgent, session, agent, budget, legitimate>>

-----------------------------------------------------------------------------
(* The agent: client.py.                                                   *)

(* _ws_loop opens a session and declares.                                  *)
Connect(s) ==
    /\ session = NoSession
    /\ handler[s] = "unused" /\ declares[s] = <<>>
    /\ SessionsInOrder => \A other \in Sessions : declares[other] = <<>>
    /\ session' = s
    /\ declares' = [declares EXCEPT ![s] = <<Declaration>>]
    /\ toAgent' = <<>>
    /\ UNCHANGED <<registry, pushing, handler, agent, budget, legitimate>>

(* It declares again every 15 seconds, when the frames before are handled. *)
Redeclare ==
    /\ session # NoSession
    /\ declares[session] = <<>> /\ toAgent = <<>>
    /\ pushing[EventLoop] = Idle
    /\ declares' = [declares EXCEPT ![session] = <<Declaration>>]
    /\ UNCHANGED <<registry, pushing, handler, toAgent, session, agent, budget, legitimate>>

(* A send or a receive fails.                                              *)
Disconnect ==
    /\ session # NoSession
    /\ session' = NoSession
    /\ toAgent' = <<>>
    /\ UNCHANGED <<registry, pushing, handler, declares, agent, budget, legitimate>>

(* A seed is ignored by an agent that runs what a user asked for, unless   *)
(* it is a stop.                                                           *)
Ignored(frame) == frame.generation = 0 /\ applied > 0 /\ frame.on

(* apply_desired, and the acknowledgement.                                 *)
ApplyDesired ==
    /\ toAgent # <<>>
    /\ toAgent' = Tail(toAgent)
    /\ LET frame == Head(toAgent) IN
       IF Ignored(frame) THEN UNCHANGED agent
       ELSE /\ config' = frame.conf
            /\ enabled' = frame.on
            /\ launched' = (launched /\ frame.on)
            /\ applied' = IF frame.generation > 0 THEN frame.generation ELSE applied
    /\ UNCHANGED <<registry, pushing, handler, declares, session, budget, legitimate>>

(* run_forever gets iperf3, or the wait for its interface, under way.      *)
Launch ==
    /\ enabled /\ ~launched
    /\ launched' = TRUE
    /\ UNCHANGED <<registry, pushing, handler, toAgent, declares, session,
                   config, enabled, applied, budget, legitimate>>

(* The agent's pod starts again.                                           *)
RestartAgent ==
    /\ crashes < MaxCrashes
    /\ crashes' = crashes + 1
    /\ session' = NoSession
    /\ toAgent' = <<>>
    /\ config' = Local
    /\ enabled' = TRUE
    /\ launched' = FALSE
    /\ applied' = 0
    /\ UNCHANGED <<registry, pushing, handler, declares, sets, deletes, legitimate>>

-----------------------------------------------------------------------------
Next ==
    \/ \E t \in Threads, r \in Requests : SetDesired(t, r[1], r[2])
    \/ \E t \in Pushers : ReadDesired(t) \/ Enqueue(t)
    \/ \E s \in Sessions : Attach(s) \/ Register(s) \/ Detach(s) \/ Connect(s)
    \/ Prune \/ DeleteUe \/ RestartBackend
    \/ Redeclare \/ Disconnect \/ ApplyDesired \/ Launch \/ RestartAgent

(* Threads and handlers go on; a connected agent receives and declares.    *)
(* Nobody has to ask, connect, disconnect or prune.                        *)
Fairness ==
    /\ \A t \in Pushers : WF_vars(ReadDesired(t) \/ Enqueue(t))
    /\ \A s \in Sessions : SF_vars(Attach(s) \/ Register(s) \/ Detach(s))
    /\ WF_vars(ApplyDesired)
    /\ SF_vars(Redeclare)
    /\ WF_vars(Launch)

Spec == Init /\ [][Next]_vars
FairSpec == Spec /\ Fairness

-----------------------------------------------------------------------------
(* Properties.                                                             *)

States == [generation : 0..MaxSets, conf : Config, on : BOOLEAN]
Declarations == [conf : Config, on : BOOLEAN]
Pushes == {Idle, Asked} \cup [step : {"read"}, frame : States, to : Sessions]

(* Types of the variables of ues.py and client.py.                         *)
TypeOK ==
    /\ known \in BOOLEAN
    /\ desired \in States /\ cache \in States
    /\ bound \in Sessions \cup {NoSession}
    /\ pushing \in [Pushers -> Pushes]
    /\ handler \in [Sessions -> {"unused", "attached", "serving", "gone"}]
    /\ toAgent \in Seq(States)
    /\ declares \in [Sessions -> Seq(Declarations)]
    /\ session \in Sessions \cup {NoSession}
    /\ config \in Config
    /\ enabled \in BOOLEAN /\ launched \in BOOLEAN
    /\ applied \in 0..MaxSets
    /\ sets \in 0..MaxSets /\ deletes \in 0..MaxDeletes /\ crashes \in 0..MaxCrashes
    /\ legitimate \subseteq Config

(* "Survives prune/offline so reconnect does not wipe UI-applied desired": *)
(* what a user was answered last is the cached state, and it is in force   *)
(* in every entry but one that is blank, until its session has declared or *)
(* a request has set it.                                                   *)
AnswerIsInForce ==
    /\ desired.generation > 0 => desired = cache
    /\ known /\ cache.generation > 0 /\ ~Blank => desired = cache

Reconciliation == INSTANCE UeReconciliation WITH
    Local <- Local,
    Default <- Default,
    wanted <- IF cache.generation > 0 THEN cache.conf ELSE Nothing,
    running <- config,
    blank <- Blank

(* The registry and its agent implement the promise: the agent never runs  *)
(* a configuration nobody asked for, and a change is merged over what was  *)
(* wanted before (_seed_desired_locked: "Never invent DL defaults").  Also *)
(* between the two halves of a declare, where the code breaks its promise: *)
(* the defaults come in there, only there, and only when a request or a    *)
(* push finds the entry blank.                                             *)
ImplementsReconciliation == Reconciliation!Spec

(* A connected agent ends up running what was asked for last, in whatever  *)
(* order pushes overtook each other: "Always re-push desired on declare".  *)
(* Except a delete has left its open session unbound, which only the next  *)
(* reconnect ends, or there is no agent or nothing was asked for.          *)
Converges ==
    []<>(\/ session = NoSession
         \/ deletes > 0 /\ bound = NoSession
         \/ cache.generation = 0
         \/ config = cache.conf /\ enabled = cache.on)
===============================================================================
