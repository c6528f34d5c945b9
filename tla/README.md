# Potluck in TLA+

Potluck runs one agent per device on a local network. Agents find each other by
mDNS, exchange their state, and serve an OpenAI- and Ollama-compatible API: a
request that arrives anywhere is routed to the node best placed to answer it, and
a model that fits no single node is split over several with llama.cpp's RPC
backend. This directory holds the TLA+ modules that describe the parts of it whose
correctness depends on the order of things, the TLC instances that check them, and
proofs for the TLA+ proof system.

Contents: [the system](#the-system) · [modules and code](#modules-and-code) ·
[runs](#runs) · [fairness and timing](#fairness-and-timing) · [proofs](#proofs) ·
[what the code does not keep](#what-the-code-does-not-keep) ·
[not modelled](#not-modelled) · [plan](#plan)

To use it: `tlc -config PmConcurrent.cfg MCPipelineManager` (any run of the table
below in the same way), and `tlapm PipelineManagerProofs.tla`.

## The system

All components live in one process, the agent; its only children are the
llama.cpp processes it starts.

| component | source | state | operations | interacts with |
|---|---|---|---|---|
| Pipeline manager | `internal/split/pipeline.go` | `pipelines`: model name → process, state, port, last use (`m.mu`) | `Ensure`, `waitReady`, `Touch`, `Port`, `Infos`, `stop`, `StopAll`, `gcLoop`, the goroutine in `cmd.Wait` | starts and kills llama-server; called by the gateway, by `/api/pipeline/ensure` and at shutdown |
| RPC worker | `internal/split/worker.go` | `cmd`, the one rpc-server (`w.mu`) | `Ensure`, `Stop`, `Running`, the goroutine in `cmd.Wait` | starts and kills rpc-server; called by `/api/rpc/start`, `/api/rpc/stop`, `refreshSelf` and at shutdown |
| Agent, splitting | `internal/agent/split.go` | none of its own | `EnsureLocal` (recruit workers over HTTP, then `Manager.Ensure`), the handlers | worker, manager, other agents |
| Agent, lifecycle | `internal/agent/agent.go` `Run` | the context | start, signal, `StopAll`, `worker.Stop`, `srv.Shutdown` | everything |
| Agent, state exchange | `internal/agent/agent.go` | `addrs`: ID → last address hinted | `collectHints`, `pollPeers`, `refreshSelf`, prune loop, `handleState`, `handlePool` | discovery (a channel of hints), registry, other agents' `/api/state` |
| Registry | `internal/registry/registry.go` | ID → `NodeState`, stamped on arrival | `Upsert`, `Prune`, `Snapshot`, `Get`, `HasModel`, `HasLoaded` | read by scheduler, gateway, dashboard |
| Scheduler | `internal/scheduler` | none: functions of a snapshot | `Pick`, `PlanSplit`, `PoolModels`, `PoolModelDetails` | called by the gateway |
| Gateway | `internal/gateway` | counters `active`, `totalServed`; request history | `handleInference`, `forward`, `forwardSplit`, `handleProxy`, `handleLlamaProxy`, listings | scheduler, manager, other agents' proxies |
| Discovery | `internal/discovery` | none of its own (zeroconf keeps it) | `Advertise`, `Browse` | hints to the agent |
| Ollama store | `internal/ollamafs` | files on disk | `ResolveModelBlob` | called by `EnsureLocal` |
| Probes | `internal/resources` | none | RAM, GPUs, Ollama's API | called by `refreshSelf` |
| Dashboard | `internal/dashboard` | none | serves one page | reads `/api/pool` |

**What is hard in each, and what makes it correct.**

- *Pipeline manager.* Concurrent handlers, `gcLoop`, one waiting goroutine per
  process and `StopAll` share a table, and almost every operation is several
  critical sections: `Ensure` unlocks before it waits, `stop` unlocks before it
  kills, `setState` finds its entry by name again. Correct means: every entry is
  on its way to be ready or to be dropped; what is killed is what was forgotten; no
  process escapes; `ready` is said of servers that answer; two pipelines have two
  ports; an idle one is collected, a used one is not; shutdown leaves nothing.
- *RPC worker.* `w.mu` is held while an external program runs, and released
  before the port is open and before the kill. Correct means: one rpc-server at
  most, `cmd` is it, everybody who asks gets an answer, a stop takes effect.
- *State exchange.* Three loops on their own tickers, addresses that are taken
  over by other peers, polls that time out one after the other. Correct means: a
  peer that is there is seen as fresh, one that has left is not believed for long.
- *Agent, own report.* Probes that hang one after the other, a lock held by another
  component, an answer that is published long after it was given. Correct means: a
  belief about a node is bounded in age, a lasting truth becomes known, and a node
  does not drop out of its own pool.
- *Scheduler.* Several criteria, truncated arithmetic, an unstable sort. Correct
  means: a plan is one that can be carried out, and listing and routing agree.
- *Gateway.* Decisions on a snapshot that is stale when used, answers over one hop,
  clients and agents that go away at any moment on either side, counters other nodes
  balance on, a history written in two steps. Correct means: it is known what the
  counters count, the history accounts for every request, nothing works for nobody.
- *Agent, splitting.* A plan made on reports, workers that refuse, time out or
  vanish while it is carried out, two spellings of one model. Correct means: a plan
  that gets its workers has room, memory is given back, and after a failure the next
  attempt can succeed.

`PROJECT.json` lists each hazard at its line, with the properties that cover it or
the reason none does.

## Modules and code

| module | models | lines |
|---|---|---|
| `PipelineManager` | driver side of splitting: the `Manager`, its handlers, llama-server processes and their ports, shutdown, restart | `pipeline.go`, parts of `agent/*.go`, `gateway/*.go` |
| `PipelineLifecycle` | abstract: what a driver advertises of a model, absent → loading → ready or error | `split.go` |
| `RpcWorker` | worker side: the `Worker`, its handlers, rpc-server processes, shutdown, restart | `worker.go`, parts of `agent/*.go` |
| `Scheduler` | the scheduler's functions as operators on a snapshot | `scheduler.go`, `splitplan.go`, `registry.go` |
| `Routing` | `handleInference`'s decision on top of `Scheduler` | `gateway.go` |
| `PoolView` | one agent's hints, polls, registry and pruning, with the peers as environment | `agent.go`, `registry.go`, `discovery.go` |
| `NodeReport` | `refreshSelf` on a node, its probes and its own entry, and one peer that polls it | `agent.go`, `resources.go`, `registry.go` |
| `Gateway` | requests through the gateways of a pool: forwarding, proxies, counters, history | `gateway/*.go` |
| `SplitServing` | from `Scheduler`'s plan over recruitment to a loaded pipeline, and the memory it takes | `agent/split.go`, `ollamafs.go`, parts of `pipeline.go` |
| `MC…` | TLC instances: model values, symmetry, the node kinds of `Routing` | |
| `PipelineManagerProofs`, `RpcWorkerProofs`, `PoolViewProofs`, `NodeReportProofs`, `GatewayProofs`, `RoutingProofs`, `SplitServingProofs` | theorems and proofs about the module of that name | |
| `SchedulerProofs` | lemmas about `Scheduler`'s folds: sums over a set of nodes, what `Recruit` and `PlanSplit` return |

How they fit together: `Routing` decides on a snapshot, `PoolView` and `NodeReport`
say how old and how true a snapshot is, `Gateway` carries a decision out over the
nodes whatever has become of them, `SplitServing` carries out a plan, on top of
what `PipelineManager` and `RpcWorker` advertise. `SplitServing` extends `Scheduler`
and plans with it; the others are separate so that each stays small enough for TLC
to cover all its interleavings.

### PipelineManager

A `Pid` is a `pipeline` struct together with the process it owns; it can be used
again once nothing refers to it. `pipelines` is `Manager.pipelines`, `pipe` the
contents of the structs (`age` counts `time.Since(LastUsed)` in ticks), `proc` the
process: `starting` (exec'd, no port yet), `listening` (answers `/health` with
503), `serving`, `exited` (not yet waited for), `none`. `call[c]` is where handler
`c` is, with its local variables; `own` is the pipeline it launched itself.

One action is one critical section of `m.mu`, or one step between two of them:

| code | actions |
|---|---|
| `Ensure`, table lookup and launch | `EnsureHit`, `EnsureMiss`, `Purge` and `Relaunch` (an entry in `StateError`) |
| `freePort`, `cmd.Start` and the entry | `Launch`, which can also fail and return |
| `waitReady`: one round | `CheckAlive`, `CheckHealth`; `GiveUp` is the deadline or the client's context |
| after `waitReady` | `MarkReady`; or `MarkError` then `StopFailed` |
| `stop` | `Forget` (inside the lock) and `Kill` (after it) |
| `handleLlamaProxy`, `forwardSplit` | `ProxyLookup`, `ProxyTouch`, `Connect`, `EndStream` |
| `gcLoop`, `StopAll` | `GcScan`, `Signal`, `Sweep`, `Kill` |
| `Run`'s shutdown goroutine, exit, next start | `Signal` and `Sweep` (`StopAll`), `CloseServer` (`worker.Stop`, then `srv.Shutdown`), `Exit`, `Restart` |
| the goroutine in `cmd.Wait` | `Reap` |
| llama-server, the clock | `Bind`, `Loaded`, `Crash`, `Tick` |

A health check and a proxied request are answered by whichever process holds the
port, as they are by a TCP connection to `127.0.0.1`. `Exit` forgets the agent's
memory and leaves the processes, which `Restart` finds. Between `StopAll` and
`srv.Shutdown`, `worker.Stop` waits for the worker's lock, for as long as `rpc-server
--device list` takes: `CloseServer` may come at any time after `StopAll`, or never.

### RpcWorker

`mu` is a variable only because `Ensure` keeps `w.mu` while `rpc-server --device
list` runs (`pick`); every other critical section is one action. `mine` tells the
processes of the present agent from those an earlier one left. `Recruit`,
`TestCmd`, `Launch`, `Connected`/`GiveUp` (`waitForPort`), `Reply` are
`handleRPCStart` and `Ensure`; `StopCall` and `Kill` are `handleRPCStop` and
`Stop`; `StopAtExit`, `CloseServer`, `Exit` the shutdown goroutine; `Reap` the
goroutine in `cmd.Wait`, which takes `w.mu`.

### Scheduler and Routing

A snapshot is a sequence of records with what the scheduler reads of a
`NodeState`. A name is `[base, tag]`, so that `HasModel`'s appending of `:latest`
is modelled by what it does. `Need` and `Usable` truncate as the conversions do. As
`sort.Slice` is unstable, `PlanSplit` is a set of results, one for each order the
sort may produce; `Pick` uses `SliceStable` and is a function. `Routing` chooses a
snapshot and a request, and takes one decision: `Split` or `Single`.

### PoolView

Time is counted in ticks. `hint` is the channel from `Browse`, `addrs` what
`collectHints` keeps, `reg` the registry without the agent's own entry. One round
of `pollPeers` is `StartRound` and then, for one address after the other,
`StartFetch` and either `Upsert` or `FetchFails`; `Answer` is `handleState` on the
peer, so that a reply can be older than its arrival. `Prune` is the prune loop.
`Join` and `Leave` let peers come, go, and take any free address, with any pool.
`gone` and `steady` are history variables about one peer, `Watched`: how long it
has been away from where its entry says, and how long it has stayed where it was
hinted. They appear in no guard.

### NodeReport

`probe` is `refreshSelf`: `collect` (`nvidia-smi` under its timeout), `version`,
`tags`, `ps` (the three questions of `ProbeOllama`), `lock` (waiting for `w.mu` in
`Running`), then `Publish`, which replaces the own entry. `Probed` and `ProbeFails`
follow `ProbeOllama`'s early return (no version: nothing else is asked) and its two
tolerated failures (no list: `Models` is empty, `OK` stays true). The first refresh runs
before everything else: `Publish` leads to `advertise`, and only `Advertise` lets the
ticker of the next one begin and the HTTP server answer (`Looping`).

The peer's side is one round of `pollPeers` after the other: `StartRound`, `StartFetch` of
this node, then `Answer`, `Upsert` or `FetchFails`, and `EndRound`. `others` is the time
the round has spent on the other addresses the peer knows, before or after this node, as
a map is ranged over in any order; it may be up to `OthersMax`. Of a report the model keeps
`OllamaOK` and whether one model is listed. `unserved` and `steady` are history
variables: how long ago the node could last serve the model, and how long it has
been able to. Ollama can be up, hang or be down, and models be pulled and removed
at any time (`Change`).

### Gateway

`req[r]` is `handleInference` at the request's entry, `hop[r]` the proxy's handler on
its target, each with steps of its own, so that one can outlive the other.

| code | actions |
|---|---|
| `handleInference`, up to `forward` or `forwardSplit` | `Arrive`, which `Dispatch`es at once or goes to `ensure` |
| `EnsureLocal`, `ensureRemote` | `Ensured`, `EnsureFails` |
| `client.Do`, `flushCopy`, return | `Headers`; `Answered`; `Broken` (502, or a copy cut short) |
| `finish`, `record` | `DrawID`, `Record` |
| `handleProxy`, `handleLlamaProxy` | `Accept` (401, 503 or counted), `Stream`, `Served` |
| `net/http` | `CutOff`, `Drop`, `Unreachable`, `ClientLeaves` |
| an agent's process | `AgentStops`, `AgentStarts` |

The target is any node, as a snapshot can be wrong about all of them; `Routing` says
which it would be on a given one.

### SplitServing

`seen` is the snapshot the entry plans on, `free` the memory there is; `Report` brings
the one up to the other. `Ask` plans with `Scheduler!PlanSplit` and reaches
`EnsureLocal`; `Recruited`, `Refused`, `NoAnswer` are one round of its loop,
`NobodyRecruited` its early return; `Ensure` is the launch or the joining of a
pipeline, under the name as the request wrote it (`Names`), where the store is
asked for the name with its default tag (`StorePath`). `Load`, `LoadFails`, `Fails`,
`Collect` and `Lost` are what becomes of a pipeline; `ServerStops` and `Restart` what
becomes of a worker. Pipelines and rpc-servers have here only the states that
`PipelineLifecycle` and `RpcWorker` advertise. A node has one memory: what
llama-server has put on it is no longer in `MemAvailable`, as without a GPU or with
unified memory; weights on a GPU of its own would leave `MemAvailable` as it is. Of the
model's memory the weights are taken (`Fits`, `Shares`). What the KV cache and the
buffers take is not counted: a load succeeds where there is room for all that `Need`
asks (`Roomy`), and may succeed or fail where there is room for the weights only.

Each module has a section of faulty variants, which no action uses: operators that
differ from the model as a slip in the code would, each named with the property it
violates. `PROJECT.json` pairs them with the definitions they replace.

## Runs

| run | question | instance | distinct states |
|---|---|---|---|
| `PmConcurrent` | what survives when Ensure, requests, collection, failure and crashes overlap freely | 1 model, 2 calls, 2 processes, 2 ports | 552 000 |
| `PmSequential` | what holds in addition when calls do not overlap each other; refinement of `PipelineLifecycle` | 2 models, 1 call, 3 processes, 2 ports | 1 100 000 |
| `PmFair` | do calls end, dead and idle pipelines go, does StopAll kill what it has listed | 1 model, 2 calls, 1 process, with shutdown and restart | 20 600 |
| `PmShutdownLeak` | violation: "agent shutdown kills all child processes" | 1 model, 1 call, 2 processes | |
| `PmGcInUse` | violation: only an unused pipeline is torn down | 1 model, 1 call, 2 processes | |
| `RwServer` | one rpc-server; every recruitment and stop is dealt with | 2 calls, 2 processes, with shutdown and restart | 7 000 |
| `RtRouting` | every decision on every snapshot of 3 nodes | 39³ snapshots that vary what PlanSplit reads, 27³ what Pick reads | 321 000 |
| `PvView` | how fresh a live peer is kept, how long a departed one is believed | 2 peers, 2 addresses, 1 pool | 5 400 000 |
| `NrReport` | how old a belief about a node can be, how soon a truth is known, does a node stay fresh for itself | 1 node, 1 peer, other addresses for up to 1; all timeouts 1, `StaleAfter` 8 | 4 000 000 |
| `GwRequests` | do counters and history account for every request, is what nobody waits for released | 2 nodes, one asking for a token; 2 requests; history of 2; agents stop and start | 398 000 |
| `SpServing` | from plan to pipeline: who lends, does a plan have room, does the next attempt succeed | 3 nodes, 2 calls, 2 spellings, 1 fault | 474 000 |
| `SpWarm` | violation: a model that fits no node is run as a pipeline, which stays warm | 3 nodes, no faults | |

**What the passing runs show.**

- `PmConcurrent`: a loading entry has its launching call in `waitReady`
  (`LoadingHasOwner`), a failed or dead entry has a call about to drop it
  (`DeadEntryIsDropped`), `stop` never kills what the table still names
  (`KillsOnlyForgotten`), the only way to lose a live process is the relaunch
  after a failure (`LostOnlyByRelaunch`), and the only way to one port for two live
  processes is a launch that finds the other started and not yet bound
  (`CollideOnlyBeforeBind`). That the entry dropped and killed after a failure is the
  one that failed is not among them: it may be a newer one.
- `PmSequential`: with one call at a time, no process is lost (`NoOrphan`), `ready`
  is said of a server that has answered (`ReadyIsServing`), live pipelines have
  ports of their own (`PortsDistinct`), and advertised states follow
  `PipelineLifecycle`. TLC violates each of the four within a second or two when two
  calls overlap (the constants of `PmConcurrent`; for the ports with two models,
  two calls, three processes): `setState` and `stop` act on the entry the name stands for by
  then, a health check is answered by whoever holds the port, and `m.mu` is released
  before a relaunch. So these four say nothing of the hazards of overlapping calls;
  what is left of them there is in `PmConcurrent` and in the theorems.
- `PmFair`: a call of `Ensure` ends (`EnsureReturns`), a dead entry and an idle one
  leave the table (`DeadLeavesTable`, `IdleIsCollected`), and what `StopAll` has listed
  is killed, whoever else stops, fails or relaunches meanwhile (`StopAllKills`). That the
  agent then exits is not claimed.
- `RwServer`: the agent's live rpc-server is `cmd` and there is no second
  (`CmdIsTheServer`), whoever recruits gets an answer (`RecruitAnswered`), and a process
  that `Stop` has read leaves `cmd` (`StopTakesEffect`).
- `RtRouting`: a plan can be carried out, has room, and is needed
  (`PlanIsAdequate`), with as few workers as its driver can do with
  (`PlanIsFrugal`); `Pick` follows the documented ranking (`PickFollowsRanking`);
  `x` and `x:latest` are routed alike (`NamesAgree`); a request is refused exactly
  when the listings do not name its model (`ListedIsServed`).
- `PvView`: a peer that stays put is in the registry, no older than `Lag`, unless `Lag`
  exceeds the time an entry lives (`LivePeerIsFresh`; in this run it does not); one
  listed as online was there less than `StaleAfter` and one fetch ago
  (`OnlineWasThere`), and is pruned in bounded time (`DepartedIsPruned`), though its former address goes on being polled. With the code's
  values the two bounds are 23 and 48 seconds.
- `NrReport`: a peer that would route a model to the node is wrong for at most
  `TrustLag` (`BelievedWasTrue`): `StaleAfter` is only one part of it, beside a fetch,
  the rest of one refresh, the first wait for the ticker and the whole of the next. What
  has been true for `SeenLag` is known, by an entry no older than `ViewMax`
  (`TruthIsSeen`), even if every probe before ran into its timeout. A node never
  takes its own entry for stale (`OwnEntryIsFresh`), although a refresh may take
  fifteen seconds and more. TLC violates each with a bound one tick smaller. Whether
  `ViewMax` is below `StaleAfter`, so that what is known is also believed all the time, is
  up to the addresses that do not answer: with the code's values two of them leave it at
  6 + 6 + 3 of 20 seconds, three do not.
- `GwRequests`: `Active` is the number of requests the node has in an engine, Ollama or
  llama-server, less the splits it drives itself, and whoever went away makes no other
  difference (`ActiveLacksSelfDriven`); the history holds each
  request once, and an ID that is missing from it is about to be recorded or was cut
  off at the limit (`HistoryAccounts`); a request whose client, entry or target has
  gone gives back both handlers (`ForsakenIsReleased`).
- `SpServing`: memory is given back once and only workers of the plan lend any
  (`TypeOK`); a plan that gets all its workers, on nodes with at least the memory it
  counted on, has room for all that `Need` asks (`PlannedLaunchFits`), of launches with
  fewer workers nothing is said; and once refusals, timeouts, crashes and restarts are
  over, the model is loaded again and again by whoever asks (`RoomIsUsed`), whatever
  they have left behind.

**Bounds and why they are enough.** Two calls suffice for every pairwise race of
two handlers for one name, since further handlers touch the same entry by the same
critical sections; `gcLoop` and the reaping goroutines come on top. Three processes
are two entries and one that is being killed or replaced. Two ports let both of two
pipelines live and are exhausted by them. `IdleTimeout` 0 or 1 separates fresh,
idle and touched in between; ages stop one past it. Three nodes are the least that
give a driver a choice between two workers, and `Pick` a middle element; the
memories put one, two or three nodes' usable share just below and just above each
need. Two peers and two addresses let peers swap addresses, and two dead
addresses delay a round. In `PvView` the times are scaled down
(`StaleAfter` 2, the rest 1); `Lag` exceeds `StaleAfter` there, as it does in a pool with
some addresses that do not answer. In `NodeReport` a tick is about three seconds, and
the other addresses can take a round one tick before or after this node. Two nodes and two requests in `Gateway` allow for a handler at either
end of a hop, both requests on one node, and nodes that are each other's
targets; a history of two (`Keep`) and at most three requests for each run of an agent
(`MaxRouted`) fill the history, with two different entries, and overflow it. In `SplitServing` the memories are such that the plan takes both workers and
the model does not go in without the first of them, so that a launch can be short of
a worker and load or fail; one fault (`MaxFaults`) at any point, which may cost a call
all its workers at once, is enough: what an attempt leaves behind must go without a
second one.

`Lag`, twice the number of known addresses times the fetch timeout, is tight as the time
a peer that has settled may have to wait: with one tick less in `steady > Lag` TLC finds
it missing or listed at another address. With the program's own values three addresses that
do not answer are enough for a live peer to go stale between two polls (three seconds
each in either round, and three for its own fetch, `ViewMax` of `NodeReport`, against
`StaleAfter` of twenty), and `addrs` never forgets one; docs/ARCHITECTURE.md calls the
polling "fine for the target size" of thirty devices.

Symmetry is used in safety runs only: models, calls and processes in
`PipelineManager`, where nothing chooses between them; addresses and the peers
other than `Watched` in `PoolView`. Ports are numbers, because `freePort` takes the
lowest. Deadlock is checked everywhere but in `Routing`, where a decision is the
end of the behaviour. `Gateway`, `SplitServing` and `NodeReport` are checked without
symmetry, the first two because their runs check liveness.

## Fairness and timing

*PipelineManager.* Goroutines are scheduled: weak fairness on the steps each takes
by itself, per handler, for `gcLoop`, for `StopAll` and for each
goroutine in `cmd.Wait` (an exited child is waited for). `waitReady` tests its
deadline in every round, and after thirty minutes the test holds for good: strong
fairness on `GiveUp`, which is enabled in every other step of the loop. Nothing is
assumed of llama-server, of clients or of the clock: a server may load for ever
and a response stream for ever. Nor is anything assumed of what follows `StopAll`, as
`worker.Stop` waits for a lock that is held without a timeout.

*RpcWorker.* `w.mu` is a Go mutex, which starves no waiter (starvation mode): strong
fairness on the steps that take it, weak on the others. `rpc-server --device list`
is assumed to end; the code sets no timeout (worker.go:102), and without the assumption
`RecruitAnswered` does not hold, `refreshSelf` may hang and the agent may not shut
down. The assumption is `WF_vars(Launch(c))`; no run checks it.

*Gateway.* Handlers are scheduled, and a connection whose other end has gone is
noticed (a reset, or keep-alive, which Go turns on for both sides). Nothing is assumed
of clients and engines: an answer may stream, and a load last, for ever while its
client stays. `finish` and `record` wait for nothing but `histMu`.

*SplitServing.* Each recruitment is answered or given up after fifteen seconds, a load
ends (`waitReady`'s deadline), answers end, reports arrive; and somebody asks again and
again as long as there is a plan. `RoomIsUsed` speaks of behaviours in which every
node takes part from some point on.

*Time.* In `PipelineManager` a tick stands for minutes, so it does not fall into
steps that wait for nothing (`Settled`), and `Loaded` does not happen to a process
whose `Kill` is due, for loading takes seconds where the kill takes microseconds.
In `PoolView`, `Tick` waits for what is due: a loop whose ticker has fired while it
is free, a hint in the channel, a fetch at its timeout. A live peer always answers
within the timeout; a request to an address where nobody listens fails at any time
up to it. In `NodeReport`, `Tick` waits likewise for a stage at its limit, so that a
refresh takes at most `CollectMax + 3 * ProbeTimeout + LockMax`. With the code's
values that is 3 + 3 · 4 seconds and the wait for `w.mu`, after a ticker of three and, for
the second refresh, after `Advertise`: the theorems assume (`FreshAssumption`) that the
sum (`SelfMax`) is below `StaleAfter`, which leaves two seconds for `Advertise` and for
`rpc-server --device list` to run in another handler. Where it takes longer, a node can be stale for itself while its peers, who
stamp its entry on arrival, see it as fresh.

## Proofs

Proved by TLAPS for every value of the constants that meets the named assumptions.
The provers are Z3, Zenon and, for the temporal steps, LS4.

| theorem | states |
|---|---|
| `PipelineManagerProofs!TypeCorrect` | `Spec => []TypeOK` |
| `PipelineManagerProofs!LoadingIsOwned` | `Spec => []LoadingHasOwner` |
| `PipelineManagerProofs!DeadIsDropped` | `Spec => []DeadEntryIsDropped` |
| `PipelineManagerProofs!KillsForgotten` | `Spec => []KillsOnlyForgotten` |
| `PipelineManagerProofs!LossIsRelaunch` | `Spec => LostOnlyByRelaunch` |
| `PipelineManagerProofs!LifecycleUnlessShared` | `Spec /\ []OneEnsurePerModel => RefinesLifecycle` |
| `PipelineManagerProofs!NoOrphanUnlessShared` | `Spec /\ [](OneEnsurePerModel /\ Running) => []NoOrphan` |
| `PipelineManagerProofs!ReadyServesUnlessShared` | `Spec /\ [](OneEnsurePerModel /\ ContendersApart) => []ReadyIsServing` |
| `PipelineManagerProofs!CollisionIsBeforeBind` | `Spec => CollideOnlyBeforeBind` |
| `RpcWorkerProofs!TypeCorrect` | `Spec => []TypeOK` |
| `RpcWorkerProofs!OneServer` | `Spec => []CmdIsTheServer` |
| `RpcWorkerProofs!OneServerUntilExit` | `Spec /\ []Running => [](LivePids \subseteq {cmd})` |
| `SplitServingProofs!TypeCorrect` | `Spec => []TypeOK` |
| `SplitServingProofs!PlannedLaunchAlwaysFits` | `Spec => PlannedLaunchFits` |
| `RoutingProofs!PlanIsAlwaysAdequate` | `Spec => []PlanIsAdequate` |
| `RoutingProofs!PlanIsAlwaysFrugal` | `Spec => []PlanIsFrugal` |
| `RoutingProofs!NamesAlwaysAgree` | `Spec => []NamesAgree` |
| `RoutingProofs!PickAlwaysFollowsRanking` | `Spec => []PickFollowsRanking` |
| `RoutingProofs!ListedIsAlwaysServed` | `Spec => []ListedIsServed` |
| `GatewayProofs!TypeCorrect` | `Spec => []TypeOK` |
| `GatewayProofs!ActiveCounts` | `Spec => []ActiveLacksSelfDriven` |
| `GatewayProofs!HistoryIsComplete` | `Spec => []HistoryAccounts` |
| `NodeReportProofs!TypeCorrect` | `Spec => []TypeOK` |
| `NodeReportProofs!OwnEntryStaysFresh` | `Spec => []OwnEntryIsFresh` |
| `NodeReportProofs!BeliefIsBounded` | `Spec => []BelievedWasTrue` |
| `NodeReportProofs!BeliefArrives` | `Spec => []TruthIsSeen` |
| `PoolViewProofs!TypeCorrect` | `Spec => []TypeOK` |
| `PoolViewProofs!OnlinePeerWasThere` | `Spec => []OnlineWasThere` |
| `PoolViewProofs!DepartedPeerIsPruned` | `Spec => []DepartedIsPruned` |
| `PoolViewProofs!LivePeerStaysFresh` | `Spec => []LivePeerIsFresh` |

**Assumptions.** Most say that nil is not a process, a peer or an entry, that ports are
positive, that timeouts and memories are natural numbers, that nodes are listed in a finite
sequence, that the size of the split model is positive, and that sets of peers and of requests are
finite. Three say more, each about a value the code fixes:

- `NodeReport!FreshAssumption`: `Advertise`, a ticker and a refresh are over before the own
  entry is stale (see above).
- `PoolView!PollAssumption`: the ticker of `pollPeers` is no longer than the timeout of
  a fetch. Both are three seconds.
- `Routing!ViewsAssumption`: a snapshot is a finite sequence of one state per ID, and
  a node lists finitely many models.

*PipelineManager.* `TypeOK` alone is inductive because it also says that an entry
is filed under its own model, has a port of the range, and what the locals of a call
can be at each of its steps (`CallShape`). Without the first, one `Pid` might be in
the table twice, and forgetting one entry would leave the killed process in the
other. Without the second, a call that has recorded its outcome might still count as
the owner of a launch. The inductive invariant is
`Inv == TypeOK /\ LoadingHasOwner /\ DeadEntryIsDropped /\ KillsOnlyForgotten`; the
three need each other: that a reaped process leaves no entry behind rests on the
state of that entry, and the state on the calls still to come. The
proof does not go through the actions three times: `TableSteps` and `StateSteps` say
once what a step can do to the table, the processes and the states, as a handful of
effects (a launch, a forgetting, a kill, a change of one state, nothing), and each
invariant is proved against those. `LostOnlyByRelaunch` follows from `TypeOK` and
`TableSteps`: a tracked process is lost only when its entry is overwritten, and
`Launch` overwrites an entry only from `relaunch`.

*PipelineManager, ports.* `freePort` sees what has bound a port, so a launch can only
double a port whose holder is started and not yet bound; no other step gives a process a
port or brings one to life (`PortSteps`). That is `CollideOnlyBeforeBind`, for any
overlap of calls, and it is how `PortsDistinct` fails.

*PipelineManager, calls for different models.* `NoOrphan`, `ReadyIsServing` and the
refinement fail as soon as two calls of `Ensure` for one model overlap, so three theorems
restrict the behaviours, not the actions: `OneEnsurePerModel` lets any number of calls
run as long as no two wait for the same model. `SerialInv` adds `OwnsEntry`: the
entry of a waiting call's model is the pipeline it has launched, in state `loading`,
or is gone, and no call is about to purge or to relaunch. With it `setState` and
`setError` can only record the outcome of their own launch, which is the step
simulation of `PipelineLifecycle`, and no launch can overwrite an entry, which is
`NoOrphan`. For `ReadyIsServing` this is not enough, as two launches of different models can
be handed one port before either has bound it, and one of the processes then answers the
other's probe. `ServeInv` takes as its second condition that this has not happened: each
serving process, and each one that is alive and not about to be killed, is a
*contender* for its port, and contenders have different ports (`ContendersApart`). Then
whoever answers the probe of a call is the process it has launched. By
`CollisionIsBeforeBind` the condition breaks only at a launch into that window. It is
met by the behaviours of `PmSequential`, where TLC checks it.

*RpcWorker.* `TypeOK` carries the lock discipline: a call is in `pickDevices` if and
only if it holds `w.mu`, and `cmd` is nil meanwhile. `CmdIsTheServer` is inductive
together with it: a launch happens under the lock, where `cmd` is nil and therefore
nothing of the agent's is alive, and `cmd` is cleared only with its process.
Processes of an earlier agent are left out there. `OneServerUntilExit` says where they
come from: only `Exit` makes a stray.

*Routing.* A decision is a function of the snapshot, so the work is in the lemmas
about `Scheduler`'s operators. `SameNames` says that `x` and `x:latest` match the same
names, and `SameCopies` to `SamePlan` carry that through every operator the name is handed
to. For `Pick`, `RankIsOrder` says that the comparison function is irreflexive and transitive,
`BestExists` that among the candidates some is outranked by none (take one that is
outranked by the fewest), and `MinOf` that the least index exists (numbers are well
founded); `PickFollowsRanking` restates the three criteria as three nested choices,
and `PickIsFirst` says that the two agree. The two listings
are unions over the same nodes. The inductive invariant is
`Decided`: the route is one that the snapshot and the request allow.

*Scheduler's folds.* `PlanIsAdequate` and `PlanIsFrugal` are about what `Recruit` computes
by a fold over a sequence and about a sum over a set, which the community modules define by
`CHOOSE` of a recursive function. What is chosen is known once such a function exists, and
it exists for every finite set by a least counterexample (`Inductive`, from `MinOf`):
`FoldExists` and `FoldUnique`, used for sums (`SumsExists`), for the greatest element
(`MaxOf`) and for the loop of recruits (`RecruitsExists`). From there, `SumOf` says that a
sum does not depend on which element comes first, and `SumMonotone` that it grows
with the set and the values. `Recruited` says that a loop over `k` candidates has taken the
first `j` of them, that it stopped because they have room or because there were no more,
and that without the last of them there was no room. `PlanIs` puts this together: a plan's
workers are the first `j` of a sort of the candidates. Room enough and distinct workers are then
`PlanIsAdequate`. `PlanIsFrugal` needs `FirstAreBest`: any `k` candidates can lend at
most what the first `k` of a descending sort can, since one of them is not among the
first `k - 1`, has at most what the `k`-th has, and the others are `k - 1` candidates. So
fewer workers than `j` have at most what the first `j - 1` have, which was not enough.

*SplitServing.* `TypeOK` says that a node's memory is free or held by one of the two
spellings' pipelines (`Balance`). It is inductive with `SharesFollow`: a pipeline that is
loading has nothing yet, so that a load takes no more than it puts into the table, and none
has anything of a node that is neither its worker nor the driver, so that the end of an
rpc-server gives back what is no longer in any pipeline's share, and no more. `ViewIs` says
that the snapshot is one that the lemmas about `PlanSplit` are about, and `PlanHasRoom` draws
from `PlanIs` that workers are nodes other than the driver, and that they and the driver have
room if each has what it reported: each has at least its usable share, those add up to
`Need`, and `Need` is at least the size. `RoomAsPlanned` carries this over the recruiting: as
long as nothing has loaded, memory only grows (`RoomStep`, by `SumMonotone`). A launch with
all of the plan's workers is `PlannedLaunchFits`.

*Gateway.* `ActiveIsCounted` says that `active` is the size of the set of requests for the
node's own Ollama and of those its proxies serve (`CountedAt`). `TypeOK` and it are
inductive together only: that `active` does not fall below zero needs the count, and
that a request is counted once needs `TypeOK`, by which one that is in this node's
engine has no hop. Each action enters, leaves or does not touch `CountedAt(n)`
(`EnterCounts`, `LeaveCounts`, `SameCounts`, from the library's facts on cardinality);
`AgentStops` empties it, for all of a stopped agent's handlers end with it.
`ActiveLacksSelfDriven` speaks of all that is in the node's engines instead, and follows
because what `CountedAt` leaves of it are the splits the node drives (`ActiveFollows`).
`HistoryAccounts` needs `LogInv`, about the IDs
between `finish` and `record`: a request that is to be recorded has an ID that was
drawn and that no other such request has (`Drawn`), the history holds IDs that were
drawn, each once (`Kept`), and an ID is not in both; as long as the history is not
full, every ID that was drawn is in one of them (`Accounted`). Holds for any nodes, any tokens and any finite set of
requests.

*NodeReport.* `EntryAge` ties the age of the own entry to the ticker between two
refreshes and to the stage of the refresh during one, `Advertise` included; with
`FreshAssumption` it gives `OwnEntryIsFresh`. `Trust` follows one positive answer on its
way: when Ollama gave it, it was true; from stage to stage, in the entry, in the reply and
in the peer's view it gets older by what each may take, and a refresh that begins
replaces it. The sum is `TrustLag`. `Seen` is its mirror image: for each place that does
not know of the model (the refresh under way, the entry, a reply, the view), it bounds
how long the node can have been able to serve it by then. A node that answers no fetch,
because it is down or its first refresh is not over, has not been able to for long. The
place of the round (`Unheard`, `ViewAge`) says how long a view without the model can
still stand and how old one with it can be, as the node may be asked first in
one round and last in the next. The sums are `SeenLag` and `ViewMax`. All hold for all
tickers and timeouts and for any `OthersMax`.

*PoolView.* `Ages` says that an entry is no older than the prune limit and the prune
loop's timer, and that what an entry or a reply says was true as long before it was
stamped as the fetch has taken. `OnlineWasThere` and `DepartedIsPruned` follow from it
and the types, for any finite set of peers, any addresses and any pools.
`LivePeerIsFresh` needs to know where the round of `pollPeers` is. `Left` is the most
that the rest of a round can take, a timeout for each address still to be asked;
`Wait` the most until the next one begins. `Rounds` says that the watched peer has settled
only lately, or that its entry is recent (`Within`), or has been pruned since, which
takes longer than `TTL`: by what two rounds have taken so far
if it is still to be asked in this one, or is being asked (`Pending`), and by what one
round has taken if it will be asked in the next. A reply on its way from where the peer was
before (`Belated`) can still undo its entry, but only if it has just moved. The theorem
holds for any number of peers. Where two rounds outlast an entry, which with the code's
values takes more than six addresses, it leaves open that a live peer's entry is missing, and it can be:
with `StaleAfter` 1 in the run `PvView` TLC finds a live peer pruned between two polls.

*Model-checked only.* All liveness, for fairness and `ENABLED` are outside the prover:
`EnsureReturns`, `DeadLeavesTable`, `IdleIsCollected` and `StopAllKills` of
`PipelineManager`, `RecruitAnswered` and `StopTakesEffect` of `RpcWorker`,
`ForsakenIsReleased` of `Gateway` and `RoomIsUsed` of `SplitServing`. And `PortsDistinct`,
for one handler: how it fails when calls overlap is `CollisionIsBeforeBind`.
`NoOrphan`, `ReadyIsServing` and `RefinesLifecycle` are proved under their conditions, the
other invariants and action properties of the passing runs without.

## What the code does not keep

Three statements of the repository's documents and comments that the code does not
keep, each shown by a run of its own:

1. `PmShutdownLeak`: "agent shutdown kills all child processes"
   (docs/ARCHITECTURE.md:82). `Run` calls `StopAll` while handlers still run; a launch
   after `StopAll` has listed the table survives the agent (agent.go:181).
2. `PmGcInUse`: "IdleTimeout is how long an unused pipeline stays warm"
   (pipeline.go:15). `LastUsed` is set when a call arrives; a long load or a long answer
   is collected in use (pipeline.go:248).
3. `SpWarm`: "If a requested model fits no single device, Potluck runs it as a pipeline
   across devices" (README.md:51), and "pipelines then stay warm for 10 minutes"
   (README.md:59). `PlanSplit` looks at free memory and not at the pipelines the nodes
   report (splitplan.go:69): when the first one has loaded, the rest of the pool has
   no room for a second, and the request that should have joined it is left to a
   single node, which the model does not fit.

And others, seen on the way, which have no run:

- "waits until the port accepts connections" (worker.go:45) is true of the call that
  launches, not of one that finds `w.cmd` set (`RpcWorker!TestCmd`).
- "so multiple pipelines (or restarts) don't collide" (pipeline.go:260): the probe
  socket is closed before llama-server binds (`PipelineManager!Launch` and `Bind`).
- "A device that closes its lid simply ages out of the registry within ~20 s"
  (README.md:69). The scheduler stops using it after twenty seconds (`OnlineWasThere`), but the
  registry, which the dashboard and `/api/pool` list, keeps it for forty seconds, a
  round of the prune loop and a fetch, 48 in all: `Run` prunes by `StaleAfter * 2`
  (agent.go:156). `DepartedIsPruned` has the code's bound.
- "the number of in-flight inference requests executing on this node's Ollama"
  (gateway.go:105), "in-flight inference requests" (registry.go:65) and "fewest in-flight
  requests" (scheduler.go:6): `handleLlamaProxy` counts too, and `forwardSplit` counts
  nothing, so that the splits a node drives for its own clients weigh nothing
  (`ActiveLacksSelfDriven`).
- The agent's shutdown may not end: between `StopAll` and `srv.Shutdown`, `worker.Stop`
  waits for `w.mu` (agent.go:182), which is held while `rpc-server --device list` runs
  without a timeout (worker.go:102).
- "splitting is needed but impossible" (splitplan.go:27): only the holder with the most
  free memory is tried as driver (`Scheduler!PlanSplit`).
- "only nodes with the same pool join together" (main.go:31): only `Browse` compares
  pools; `pollPeers` takes whatever answers at a known address (`PoolView!Upsert`).

## Not modelled

- `Manager` and `Worker` without a llama.cpp binary: `Ensure` returns an error at
  once and no state is touched.
- Foreign programs on the ports, and an agent killed with SIGKILL (its children stay,
  as after `Exit` with calls in progress).
- Which devices `pickDevices` names; llama-server's arguments; the layer split.
- A reply lost from a peer that is there; `handlePool`'s sums; `Touch` and `Remove` of
  the registry, which nothing calls.
- The mDNS library (an advertisement it still delivers after its sender has left), the
  ten-second browse windows, and the 32 places of the channel of hints: the model's
  channel holds one hint, and `Browse` waits for it to be taken as the code waits for a
  full channel.
- What the probes read, the manifests of the store and names with a host or a
  namespace, the dashboard, flags and the ID file: I/O and parsing whose results are
  inputs of the modules here.
- The bytes, headers and status codes of answers; requests turned away before they are
  forwarded (400, 404), which touch no state.
- Memory of GPUs apart from a node's own (see SplitServing), and models of which
  several nodes hold the weights: in `SplitServing` there is one driver.

## Plan

Written so far, in this order: `PipelineManager` (the component with the most
interleaving), `PipelineLifecycle`, `PipelineManagerProofs`, `RpcWorker`,
`RpcWorkerProofs`, `Scheduler`, `Routing`, `PoolView`, `Gateway`, `GatewayProofs`,
`SplitServing`, `NodeReport`, `NodeReportProofs`, `PoolViewProofs`, `RoutingProofs`,
`SchedulerProofs`, `SplitServingProofs`.

Theorems still worth proving:

1. The safety half of `ForsakenIsReleased`: that a handler of `Gateway` whose other end has
   gone is at a step from which it can only return, as an invariant on `req` and `hop`.
2. That the listing's sizes and nodes (`PoolModelDetails`) are those of the holders.
