# INA-Infra in TLA+

TLA+ models of the INA-Infra control plane (`src/ina-infra/backend`) and of the
programs it drives on UEs and servers, the TLC instances that check them, and TLAPS
proofs about them. The backend is a FastAPI process: HTTP requests run on threads,
WebSocket sessions are coroutines on one event loop, long jobs are threads or
generators behind server-sent events, and almost all state lies in module-level
dictionaries with a lock each, in an SQLite file, or in a git working tree. What is
hard in it is the order in which these actors meet.

Paths are relative to `src/ina-infra/backend/app/services/` unless they start with
`src/`.

1. [Inventory](#inventory)
2. [Plan](#plan)
3. [Modules](#modules)
4. [Runs](#runs)
5. [Fairness](#fairness)
6. [Proofs](#proofs)
7. [Findings and consequences](#findings-and-consequences)
8. [Not modelled](#not-modelled)

## Inventory

| component | state | operations | hard | module |
|---|---|---|---|---|
| PM/PS loops: `loop_state.py`, `pm_loop.py`, `ps_loop.py` | running flags, cancel event per layer and profile; a generator per request | start, stop, status, solve | two starts at once; a replaced loop cleans up after its successor has registered; disconnects at a yield | `LoopRegistry` |
| Loop demand: same files | demand per slice, results, cycle numbers | PS writes it, PM and status read it | nothing of it under a lock | `LoopDemand` |
| Operator agents: `operators.py`, `operators_ws` | targets with generations, acknowledgements, queue of the bound session | attach, declare, report, detach, set, push, prune, delete | reconnects with old frames under way, two-step pushes, generations that restart | `OperatorControl` |
| CPU and PRB sweeps: `benchmark_run.py`, `benchmark_prb_run.py`, `benchmark_store.py` | lock, cancel event, worker; a row per run and step | start, stop, poll; apply, measure, finish | stop, exception or death between any two transactions | `BenchmarkSweep`, `SweepLevels`, `MeasuredStep` |
| UE traffic agents: `ues.py`, `ues_ws`, `src/tools/iperf3-n6/client.py` | desired state, cache, binding; the agent's configuration, thread and process | set, delete, prune, sessions; apply, launch, kill | the cache outlives the entry; halves of a declare; a change during a launch | `UeControl`, `UeReconciliation`, `TrafficRunner` |
| Deployment: `gitea_apply.py`, `benchmark.py`, `push_gitea_gitops.sh` | one working tree per cluster, commit, Gitea, deploy columns | apply, dry run, push, undeploy, clear | one tree for all requests, no lock, clusters one by one, clients that leave | `Deployment` |
| Profile rollouts: `profile_rollout.py`, `cmd_stream.py`, `profile_rollout.sh` | cancel event per profile, generator, child process | start, stop, time limit | registration before yields outside the `try` | `ProfileRollout` |
| Profile store: `profile_store.py`, routes, `pl_solver.py` | a row per profile | create, PUT, restore, delete; saves of applications, results and deploy state | whole records read in one transaction and written in another | `ProfileStore` |
| Addresses: `ip_allocator.py`, `site_ips.py` | plan, consoles of clients | allocate, deploy clients | ranges that wrap around | `AddressPlan` |
| UE consoles: `src/applications/exp4/common/ue_control.py` | wanted, arguments, process | start, stop, update, restart | a kill during a launch | `IperfSupervisor` |
| CCTV camera: `src/applications/clients/cctv/backend/backend.py` | flag, event, workers, pipelines | start, stop, restart | a start before the old worker has ended | `StreamManager` |
| OTT portal and UE: `src/applications/servers/ott`, `src/applications/clients/ott` | the portal's record, the UE's switch, video and page | heartbeat, watchdog, console and portal requests | the two overwrite each other | `OttControl` |

How they interact: the interface calls the HTTP routes; the sweeps set resources
through the operator registry and read its acknowledgements; loops read the PL result
of a profile's row, which solves, deployments and saves of applications write as a
whole; deployments render a profile and write its deploy columns; rollouts restart
what was deployed; agents and consoles run in the pods that result. `PROJECT.json`
lists all components with what is left out of each, and the hazards, each at its line.

## Plan

The order was by what depends on the order of actors and is hardest to test.

1. Done with proofs: `LoopRegistry`, `OperatorControl`, `BenchmarkSweep`, `UeControl`
   with its abstract specification, `TrafficRunner`, `ProfileRollout`, `LoopDemand`,
   `ProfileStore`, `Deployment`, `MeasuredStep` (sweep over operator registry),
   `SweepLevels`, `AddressPlan`, `IperfSupervisor`, `StreamManager`, `OttControl`. Every
   safety property of a passing run is a theorem.
2. Left: the CCTV server's YOLO workers; constraints between the layers (a PM solution is
   feasible for the next PS solve) over bounded integers; type invariants of the parts
   that have one only inside their proof, as theorems.

## Modules

Every action stands for a handler, or for the part of one between two points at which
another actor can come in: a lock that is released, a transaction that ends, a `yield`
or `await`, a wait, a message sent or received. Data are model values or the number of
the request they came from, so that values tell requests apart. Variables the code does
not have are marked as ghost or history in the module. "Mutant" marks a plausible
bug beside the definition it is a bug of; a run checks each property against one.

### LoopRegistry, LoopDemand

One element of `Loops` is one dictionary entry, one of `Streams` one start request.
`registered` and `running` are `_pm_cancel`/`_ps_cancel` and the running flags,
`cancelled[s]` the `threading.Event` of a request, `pc`, `limit` and `cycle` its
generator. `Check` and `Register` are two actions because the code takes the lock twice,
and so are `Head`, the look at the event, and `Begin`, the count of the cycle and the call
of the solver (`pm_loop.py:145`, `:149`): a stop between them is seen one solve later. The
history `late[s]` counts the solves begun with the event set; `OneLateSolve` bounds it by
one.

`LoopDemand` is what goes between the layers: where each solve stands, and a status that
reads field by field. A solve is a cycle of a loop, the last one of a loop that was
replaced, or a POST to `/pm/solve` or `/ps/solve`; nothing in the code keeps two of a
layer apart, so any number of them overlap, and an older one may store its result over a
newer one's. A demand, a result and a cycle number are the name of the solve they came
from; the history `before[s]` is the set of solves that were over when `s` began.
`ResultsAreRecent` says how far back a reader can be sent all the same: to nothing that
was over when a solve began that was itself over when the reader began.

### OperatorControl, MeasuredStep

One agent and its entry; entries of different agents share nothing but a lock.
`targets`, `acks`, `known`, `connected` are the entry, `bound` the session whose queue
is in `_ws`, `pushing[t]` a thread in `push_desired`, `toServer[s]` and `toAgent` the
frames under way. The agent (`session`, `deployed`, `live`, `seen`) is external: it
declares first, skips what it has attempted in this session and reports each attempt.
A push is two actions, as it reads the targets under the lock and enqueues them after it:
a session's attachment and first declare, a prune or other pushes may come between.
`epoch`, `settled` and `tried` are history: restarts of an NF's generations, for each
session the requests acknowledged when it or one before it was seeded, and the numbering
a generation that the agent has attempted belongs to.

The comment at `routes.py:1405` promises that a reconnect replays nothing stale. It does
not hold for a push that read the targets before the seeding and enqueues after it: the
run `operator_replay` shows this. `NoReplay` is what does hold: there is no replay but from
a frame whose targets were read before the NF's generations restarted. The same frames
leave the agent with a generation of the earlier numbering, so that it skips the next
targets until their generations pass it: `Shadowed`, which `PendingIsAnswered` names.

`NoReplay` speaks of the session a request is attempted in. With one set of settled
requests for all sessions it would be false from three sessions on, which two do not
show: session 2 is left before its declare is handled, session 3 gets a target pushed
whose acknowledgement from session 1 then arrives, the late declare of session 2 is
seeded with that target settled, and session 3 attempts what it was rightly sent.

`MeasuredStep` adds the fields of a target: a set names some, the agent applies only
those of the latest set, and a step of the CPU sweep waits for an acknowledged
generation at or above its own, then measures, while the interface sets the same NF.

### BenchmarkSweep, SweepLevels

The two runners are one program but for `Kind`: the PRB runner first turns the traffic,
and its stop without a run calls `status()` with the lock held. The passing instance lets
the initial state choose the runner, the violating one takes `Kind`. `lock`, `active`,
`cancel` are the module's globals, `pc`, `index`, `skipped`, `verdict` the worker,
`status` and `phase` the tables. Each row change is an action, as each is a transaction.
Applying a step succeeds, fails or raises. `stoppedAt` and `orphans` are history.

`SweepLevels` is `cpu_steps` and `prb_steps` as the loop they are, in integer units
with the rounding to the grain, checked against what a sweep over a range has to be.

### UeControl, UeReconciliation, TrafficRunner

`desired` and `cache` are the entry's state and its copy in `_desired_cache`, `bound`
the binding (`ws_connected` is written wherever the queue table is), `handler[s]`,
`toAgent`, `declares[s]` the sessions, `config`, `enabled`, `launched`, `applied` the
agent. `Attach` and `Register` are two actions because the code has two critical
sections. Between them an entry that was not there before is `Blank`: known and bound, with
the default state, although the cache has another; an HTTP set or a push that falls there
merges with the defaults, or sends them. `SessionsInOrder`, TRUE only in `ue_live`: no
declare of a left session is handled after its successor's.

`UeReconciliation` is the promise without sessions, generations and frames: the
configuration the agent runs comes from its own by changes a user was answered, and from
the defaults only where a change or a push found the entry blank. `UeControl` implements
it under the mapping `wanted <- the cached configuration, or Nothing`, `running <- config`,
`blank <- Blank`.

`TrafficRunner` is the agent's inside: the thread of `run_forever`, the WebSocket
thread in `apply_desired`, and the iperf3 process between them.

### Deployment

`tree`, `head` and `gitea` are `namespaces/<profile>/` in a cluster's working tree, its
commit and Gitea; every request goes through all clusters, as a request for a profile does
whatever clusters it names (`gitea_apply.py:228`, `:1090` add the missing ones; those of a
benchmark are taken to name all). A directory is two sets of files (renderer, controllers
script), each named by the request that wrote it. `job[r]` is a request at its place:
render, controllers, list, remove, then the script's commit and push for each cluster,
clean up, save. A push may fail, and the client may leave while the script runs.
`answered[p]` is the request answered last with no other of the profile beside or after
it.

### ProfileRollout

`entry` is the cancel event registered for the profile, `stopped[r]` the event, `point[r]`
the generator, `script[r]` and `stage[r]` the child process and how far it is. The
kubectl commands of a stage are external.

### ProfileStore

A row's `subnet`, `result`, `apps`, `on` (deployed, by which request) and `files`.
`call[c]` is a thread that has read a record and has still to write: `SaveRecord` for
`save_profile_applications`, `update_application_deploy_status` and `save_pl_result`,
`UpdateColumns` for `save_deploy_state` and `restore_profile_defaults`; a create has three
transactions (`Choose`, `Check`, `Insert`), PUT and DELETE one. `Heal` is the write-back
of a result's identity. `held[p]` is external: the results pages may show, of the row, of
a solve, or of one for a profile that is not in the table (`SolveUnsaved`). A deployment
is sent with one of them, or none (`sent`); what it saves is that one, else the one it has
read (`gitea_apply.py:1388`, `:1438`, `:1457`). `meant`, `lost` and `apart` are ghosts:
the row as requests meant it, the fields overlaps may have lost, the pairs of profiles a
create set apart.

### AddressPlan, IperfSupervisor, StreamManager, OttControl

`AddressPlan`: host octets by role for a number of slices, and consoles handed out client
after client. `IperfSupervisor`: the steps of each request with the thread that launches.
`StreamManager`: start, stop and restart over workers that share an event and a process
field. `OttControl`: one UE with its heartbeat, watchdog, autostart and console, and the
portal's record of it; either side may restart. The fallback of the watchdog for a video
without a YouTube id is left out: video and id are always written together.

### MCServices, MCApplications

`MCServices` extends the modules of the six small services of the backend,
`MCApplications` those of the four programs of the UEs, each in one run: `which`, chosen
by the initial state, says whose steps are taken; the others stay as they start. They
share no state, so nothing is lost against runs of their own.

## Runs

| run (cfg) | instance | shows | states |
|---|---|---|---|
| `loop_registry` (MCLoopRegistry) | 1 entry, 3 streams, limits 0 or 1 | `TypeOK`, `ActiveLoopIsRegistered`, `RegisteredLoopIsLive`, `RunningHasLoop`, `OneLateSolve`, `LoopsEnd` | 1,044,375 |
| `operator_control` (MCOperatorControl) | 1 NF, 2 sessions, 1 thread and the event loop, 2 sets, 1 accident, queue of 2 | `BindingIsConsistent`, `AckNamesTarget`, `InFlightSurvives`, `NoReplay`, `PendingIsAnswered` | 1,265,342 |
| `operator_replay` (MCOperatorReplay) | 2 NFs, 2 sessions, 1 thread, 2 sets | violation of `ReconnectDoesNotReplay` | - |
| `sweep` (MCBenchmarkSweep) | either runner, 2 threads, 3 steps, 2 runs, 2 accidents | `StepsInOrder`, `RunningRowHasWorker`, `StopIsKept`, `OutcomeMatchesSteps`, `FinishedIsFinal`, `RunEnds` | 763,032 |
| `sweep_prb_stop` (MCBenchmarkSweepPrbStop) | the PRB runner | violation of `CallsAreAnswered` | - |
| `ue_control` (MCUeControl) | 2 fields, 2 sessions, 2 sets, 1 delete, 1 crash | `AnswerIsInForce`, `ImplementsReconciliation` | 5,259,842 |
| `ue_live` (MCUeControlLive) | 1 field, the same, `SessionsInOrder` | `Converges` | 443,659 |
| `deployment` (MCDeployment) | 3 requests, 2 at a time, a profile and a benchmark namespace, 2 clusters | `AnswerIsInGitea`, `RecordMatchesGitea` | 3,455,469 |
| `deployment_undeploy` (MCDeploymentUndeploy) | 1 profile | violation of `UndeployedIsGone` | - |
| `services` (MCServices) | 3 rollouts of 1 stage; 2 slices, 1 PM and 2 PS solves; quantities to 8 with grain 4; slices 1-5 with 1, 6 or 10 clients, 3 deployments; 2 steps, 2 other sets; 2 profiles, 2 threads, 3 subnets, 3 requests | `OneAttendedRun`, `AnswerEndsScript`, `StopEndsScript`, `ResultsAreRecent`, `LevelsCover`, `LevelsEnd`, `AddressesApart`, `MeasuresItsLevel`, `SavesStand`, `SubnetsApart` | 733,034 |
| `applications` (MCApplications) | 3 changes, one timed; 2 requests, 2 launches; 3 calls, 3 pipelines; 2 videos, 2 jobs, 1 outage | `StaleRunIsFlagged`, `ChangeTakesEffect`, `ProcessFollowsArgs`, `StopEndsProcess`, `StreamFollowsRequests`, `StopEndsWorkers`, `ConsoleStopStands`, `ShowsAssignedVideo` | 268,765 |
| `ott_stop` (MCOttControl) | the OTT part | violation of `PortalStopTakesEffect` | - |

Why the bounds are enough:

- Three streams are a replaced loop, the one that replaces it and a third that profits
  from the cleared flag; their limits are numbered in order, since streams are
  interchangeable. Loops without a limit and with one cycle both occur.
- Two sessions are a connection and a reconnection with the old one's frames under way;
  two sets are one that overtakes another; handlers treat NFs and agents independently. A
  queue of two frames is one that a push of a waiter (`PushAgain`) goes behind; the waiter
  adds none to a longer one, since it repeats what is already queued.
- Three steps are one done, one current, one later; two runs show that the event and the
  rows of one do not leak into the next; two accidents are the least that leave a run
  "running" without a restart.
- Two clusters are one published and one not yet; three requests of which two are served
  at a time are one that failed, one that overlaps, and one that is answered.
- Three rollouts are a replaced, a replacing and a late one. Two slices are one before and
  one behind the place where a PS solve writes. Two PS solves overlap each other and the
  PM solve; with three PS solves (3,380,460 states for this part) or with a second PM solve
  (5,554,304), each run once, nothing changes. Slices 4 and 5 and ten clients reach the
  wrap-around of the console addresses and the end of a block. A grain of 4 with
  quantities to 8 has levels above, below and half-way between multiples.
- In the store, two threads and three requests are a record that is read, another save,
  and a reader of the result, or a solve, another, and a deployment that carries the result
  of the first. `Begin`, `SolveUnsaved`, `Put` and `Delete` count requests, nothing else is
  bounded.
- Two launches, pipelines or jobs are an old one and a new one; the third call of the
  camera is a restart between a stop and a start.

`CHECK_DEADLOCK FALSE` stands where the instance rests: its requests, sessions or runs are
used up, or, with the PRB runner, its threads wait for the lock.

## Fairness

Nobody has to make a request, connect, disconnect, leave, delete or restart. Fair are:

- a generator or worker thread that can go on (`LoopsEnd`, `RunEnds`, `StopEndsScript`): it
  is scheduled, its waits have time limits and its solver or command returns;
- a thread in a push, the agent that works off its frames (weak), and each session's
  handler in its turn (strong, since the event loop is busy for others now and then)
  (`PendingIsAnswered`, `Converges`);
- the runner's and the supervisor's threads (`ChangeTakesEffect`, `StopEndsProcess`,
  `StopEndsWorkers`); launching is strongly fair, since a kill can prevent a launch but
  not each of them;
- the heartbeat and the watchdog of an OTT UE, which run on timers; strong where console
  requests interrupt them (`ShowsAssignedVideo`);
- the loop of `cpu_steps` and `prb_steps` (`LevelsEnd`).

In the composed runs fairness speaks of the part that `which` has chosen: actions of the
others are excluded by it, or not enabled in the states they rest in.

## Proofs

TLAPS proves these for every value of the constants.

| module | theorems | inductive invariant |
|---|---|---|
| `LoopRegistryProofs` | `Typing`, `OneActiveLoop`, `NoOrphanEvent`, `RunningIsLive`, `NoSecondLateSolve` | the properties with `RunningIsRegistered`: a raised flag has an event registered, and `LateIsLast`: a stream that has begun a solve with its event set does not pass the head of its loop again. An unregistering stream spares another's event only because that event belongs to a stream of the same entry |
| `OperatorControlProofs` | `Typing`, `Binding`, `AcksAreHonest`, `InFlightIsKept`, `NothingIsReplayed` | `TransitCovered`: every payload read, frame queued, report under way and acknowledgement is covered by the current target: no later epoch, in the same epoch no higher generation, at the same generation the same value. `AckNamesTarget` alone says nothing of what is under way. For `NoReplay`, `RequestsApart`: a request is the target of one NF at most, and a settled one is no target; `PayloadsAreFresh`: in the present numbering of its NF, a settled request is in no push that has read the targets and in no frame |
| `BenchmarkSweepProofs` | `Typing`, `Order`, `Agreement`, `Ownership`, `Stopping`, `Finality` | `WorkerHasRun`, `Progress`, `Outcome`, `StopSeen` tie the rows of the run in progress to where the worker stands: without them a step that writes "done" knows nothing of the rows before |
| `UeControlProofs` | `Typing`, `InForce`, `Refinement` | `AnswerIsInForce` with `Sources`: every configuration held or under way anywhere is one the agent had or the user was answered, the defaults only since something found the entry blank |
| `DeploymentProofs` | `AnswersAreInGitea`, `RecordsMatchGitea` | `AloneIsAlone`: a request that counts as undisturbed is alone with its profile; `Course`: what tree, commit and Gitea hold of it for each cluster, by where the request stands; `Settlement`: what it left, until the next one of the profile. Both properties speak of requests that have ended, when nothing tells any more how each cluster was reached |
| `ServiceProofs` (rollouts) | `OneRollout`, `AnswersAreFinal` | `RolloutCourse`: what a generator has noted fits where it stands |
| `ServiceProofs` (demand) | `RecentResults` | `History`, `Course`: how much each solve has stored, by where it stands, and that those in a `before` have stored everything; `Storing`, `Publishing`: where a solve has stored its own, there is that or what comes from a solve that was not over when it began; `Origins`: what is there comes from a solve that has stored it. The reads take the rest from these |
| `ServiceProofs` (steps) | `StepsMeasureTheirLevel` | `Numbered`: no copy of a target, no report and no resource is ahead of the target; `StepCourse`: a step's level is in the target, or in force, until another's set comes between |
| `ServiceProofs` (addresses) | `AddressesDoNotClash` | `PlanAccepted`: the bases of a plan were found valid; `ConsolesInOrder`: which clients have a console and with which octet. That the octets of the roles are distinct is a count: thirteen shared and seven per slice, each new block disjoint from those before |
| `ServiceProofs` (levels) | `LevelsCoverTheRange` | `LadderCourse`: the loop is at a multiple of the grain, behind the last level by at most the step and half a grain, and the last level is not above the rounded maximum; with it `RoundedIsNear` and `RoundedIsMonotone` for every grain |
| `ApplicationProofs` (traffic agent) | `Typing`, `NoLostReload` | `StaleCommandIsFlagged` and `LiveIsRead`: what the thread has read and not yet launched is outdated only if the event is, or is about to be, set |
| `ApplicationProofs` (iperf3) | `IperfFollows` | `KillsInOrder`: a thread that ends a process has found one; `OneProcess`: only the latest launch is alive, and nothing is when the next is launched; `OutdatedEnds`: a process that is not the wanted one was missed by a kill, or is going to be found by one |
| `ApplicationProofs` (camera) | `StreamsFollow` | `StopsHold`: while a stop holds the lock nothing runs, and what was stopped stays told to stop; `OneWorker`: where no start met a worker, one worker at most, and what plays is in the field |
| `ApplicationProofs` (OTT) | `ConsoleStops` | `NothingTurnsOn`: from a console's stop to the next start no thread of the UE and no heartbeat under way carries "STREAMING" |
| `ProfileStoreProofs` | `StandingSaves`, `OwnSubnets` | `Readers`: a record that was read and is not late is the row; `Tidy`: rows are healed, what pages hold and requests carry are results, and with a result its subnet is lost; `Choosers`: a chosen subnet is free until some row changes; `PairsLive` |

Assumptions are named in the modules: constants that name different things are distinct,
bounds are natural numbers, there is a cluster and a grain. `PlanAssumptions` takes at
most six slices and ten clients, as the interface does (`ApplicationSettingsBox.tsx:528`
asks for one to ten clients): the consoles of a seventh slice would begin anew at `.225`,
on addresses of the first's. Only in `ProfileStoreProofs` is an assumption a hypothesis of
the theorems, `Assumptions`: the bounds are natural numbers and the builtin is a profile.
`OwnSubnets` needs that a set of naturals has a least element, for the next free subnet:
it takes it from the library's well-foundedness of `<`.

Only model-checked:

- liveness (`LoopsEnd`, `PendingIsAnswered`, `RunEnds`, `Converges`, `StopEndsScript`,
  `LevelsEnd`, `ChangeTakesEffect`, `StopEndsProcess`, `StopEndsWorkers`,
  `ShowsAssignedVideo`): fairness and `ENABLED` are out of the prover's reach;
- the violations, which are counterexamples.

## Findings and consequences

Four runs show the code to do other than it says:

- `operator_replay`: a push that has read the targets before a reconnect and enqueues them
  after it replays acknowledged ones (`operators.py:111`, `routes.py:1405`).
- `sweep_prb_stop`: a stop of the PRB runner without a run waits for the lock it holds
  (`benchmark_prb_run.py:414`), and every later call with it.
- `deployment_undeploy`: an undeploy looks at the working tree to see whether there is
  anything to push (`gitea_apply.py:1264`); after a Clear or a failed push there is not,
  and Gitea keeps the manifests.
- `ott_stop`: a stop at the portal is overwritten by the state the UE reports next
  (`src/applications/servers/ott/backend/state.py:384`).

The properties except what the code does allow; these are the exceptions met on the way.

- Loops: a second start that passed the check together with the first cancels it. A
  cancelled loop begins one more solve if the event is set behind the look at it. Solves of
  a layer overlap, and one that began before another may leave its demand, result and cycle
  number over those of the other (`routes.py:1246`, `:1307`).
- Operators: a frame whose push overlapped the first declare, besides replaying what was
  acknowledged, makes the agent skip the targets of the new numbering up to its
  generation. A first declare without an NF drops the NF's
  request. Generations restart after a seeding, prune, delete or restart, and a late
  report of the earlier numbering can acknowledge a request it never saw. DELETE leaves
  the open session unbound until it reconnects; so for UEs.
- Sweeps: a stop after the last check of the last step is acknowledged and the run ends
  "done". A run orphaned by a restart stays "running". A set by the interface before the
  agent applied the step's set makes the step measure another CPU under an acknowledged
  generation. A reconnect between the acknowledgement and its poll makes the step time
  out. The two runners do not exclude each other. A PRB step of 0.005 or less never ends.
- UEs: a set between attach and register merges with default values. A first declare
  after a restart of the backend seeds the entry from what the agent reports and may stop
  its traffic. A declare of a left session that is handled late takes the binding. After
  a timed run the runner's thread has ended for good.
- Rollouts: a new one does not wait for the script of the prior one, although
  `profile_rollout.py:23` says "one at a time per profile"; a script whose client left
  runs on.
- Store: a save overlapping an undeploy brings "deployed" back; a deployment saved between
  the read of a dry run's record and its save is lost; a PUT wipes the file list of a dry
  run; a subnet edited by PUT after a PL solve is healed back; a deployment attaches the
  result its page holds, so that an older one and its subnet replace a newer one, also
  where nothing overlaps (`gitea_apply.py:1438`, `profile_store.py:691`); a push or an
  undeploy, which carries none, restores the one it read over that of a solve that ended
  meanwhile; a save overlapping a DELETE re-inserts the profile; overlapping creates can
  get one subnet; restore-defaults gives the builtin's subnet although another profile may
  have it. The interface's "Restore default slices" says that it clears the PL result, but
  its PUT keeps it.
- Addresses: slice 6 of UE 6 wraps to .220; more than ten clients of a slice run into the
  next one's; a lowered client count leaves clients behind; physical AI and OTT consoles
  take the default slice (`application_deploy.py:2544`, `:2552`); a failed `kubectl apply`
  is still recorded as deployed.
- Consoles and camera: an iperf3 process launched during a kill keeps its old arguments,
  and with `-i 0` a stop does not reach it until it ends; a camera restart within the poll
  interval leaves two workers and a pipeline out of reach.
- OTT: a stop during a heartbeat or watchdog round is undone; a second STOPPED in a row is
  ignored; a portal that has forgotten its UE replaces the chosen video by the default;
  the watchdog does not blank a YouTube page, though its log says so.

## Not modelled

- Of the modelled components: status and apply reports of UEs (display only), the
  deprecated HTTP register and apply-report routes of operators (nothing calls them), the
  live clusters behind Gitea and the GitHub mirror, the text of manifests, `Thread.start`
  raising, slices, network and nodes of a row (they go the way of its applications).
- `pl_result_store.py` (a new file per solve), `multus_iface.py` (a dictionary that is
  filled once and never cleared): nothing interleaves with them.
- The PL, PM and PS layers: mixed-integer programs over reals for an external solver.
- Thin clients of Kubernetes, Influx, registries, the xApp; views of the cluster; HTTP
  routing and validation; web interfaces and dashboards: no state that several actors
  change.
- The CCTV server's YOLO workers (`src/applications/servers/cctv/backend/cctv.py`), the IoT
  and SFTP workloads and the `exp4` variants of the modelled clients: payload of the
  testbed. Read while surveying the CCTV server: with the default limits a client is stale
  (30 s) before a worker is idle (90 s), so the idle branch is never taken, and a result
  collected after the client was removed makes its context again.
- Network functions with debugging hooks, bring-up scripts, GitOps templates, the paper's
  data and plots: vendored, generated or run once. They are most of the repository's
  lines, so the share of lines the models stand for is small although the control plane's
  own state machines are covered.
