--------------------------- MODULE PipelineManager ---------------------------
(***************************************************************************)
(* The driver side of model splitting: internal/split/pipeline.go.         *)
(*                                                                         *)
(* A Manager keeps a table, keyed by model name, of the llama-server       *)
(* processes it has launched.  Ensure is called by concurrent HTTP         *)
(* handlers; a gcLoop goroutine tears idle pipelines down; one goroutine   *)
(* per process waits for its exit; StopAll runs when the agent is          *)
(* signalled.  m.mu protects the table, so an action below is one critical *)
(* section of m.mu, or one step taken between two of them (a health probe, *)
(* a Process.Kill, a connection).                                          *)
(*                                                                         *)
(* A pipeline struct and the process it owns share an identity, a Pid.  A  *)
(* Pid is used again once nothing refers to it, as the Go runtime reuses   *)
(* the memory of an unreachable struct.  Pids is also the operating        *)
(* system's process limit: exec fails when none is left.                   *)
(***************************************************************************)
EXTENDS Integers, FiniteSets

CONSTANTS
  Models,         \* model names, the keys of Manager.pipelines
  Callers,        \* handler goroutines that can be in a call at one time
  Pids,           \* pipeline structs / llama-server processes
  Ports,          \* basePort .. basePort+99, the range freePort scans
  IdleTimeout,    \* IdleTimeout, in clock ticks
  AllowShutdown,  \* whether the environment signals the agent
  NoPid,          \* the nil *pipeline
  NoModel         \* the model of a handler that is in no call

Sweepers == {"gc", "stopAll"}
Actors   == Callers \cup Sweepers

ASSUME NoPidAssumption    == NoPid \notin Pids
ASSUME NoModelAssumption  == NoModel \notin Models
ASSUME PortsAssumption    == Ports \subseteq Nat \ {0}
ASSUME TimeoutAssumption  == IdleTimeout \in Nat
ASSUME SweepersAssumption == Callers \cap Sweepers = {}
ASSUME ShutdownAssumption == AllowShutdown \in BOOLEAN

VARIABLES
  agent,      \* "up", "stopping" (StopAll), "closing" (srv.Shutdown), "down"
  pipelines,  \* Manager.pipelines: model name -> Pid, NoPid when absent
  pipe,       \* the pipeline structs: model, info.State, port, time.Since(LastUsed)
  proc,       \* the processes; "none" once cmd.Wait has returned
  call,       \* the program counter and locals of each handler
  victim,     \* the process stop() has taken out of the table and not killed yet
  todo        \* the models gcLoop and StopAll have listed and not stopped yet

vars == <<agent, pipelines, pipe, proc, call, victim, todo>>

PidOrNone == Pids \cup {NoPid}
State     == {"loading", "ready", "error"}
Pipeline  == [model: Models \cup {NoModel}, state: State,
              port: Ports \cup {0}, age: 0..IdleTimeout + 1]

(***************************************************************************)
(* Where a handler is.  "alive" and "health" are the two halves of one     *)
(* round of waitReady; "ready" and "fail" are what the call that launched  *)
(* the pipeline does after it; "use" holds the port Ensure returned.       *)
(***************************************************************************)
Waiting == {"alive", "health"}
PC      == {"idle", "purge", "relaunch", "ready", "fail", "stop",
            "touch", "use", "stream"} \cup Waiting
Call    == [pc: PC, model: Models \cup {NoModel}, port: Ports \cup {0},
            own: PidOrNone, conn: PidOrNone]
NoCall  == [pc |-> "idle", model |-> NoModel, port |-> 0,
            own |-> NoPid, conn |-> NoPid]

Present(m) == pipelines[m] # NoPid

\* A call has a model, the one of the pipeline it launched; it counts as the
\* owner until it has recorded the outcome of the launch, and is between its own
\* stop() and Kill only when it is about to return or to launch again.
CallShape(c) ==
  /\ call[c].pc # "idle" => call[c].model \in Models
  /\ call[c].own # NoPid =>
       /\ call[c].pc \in Waiting \cup {"ready", "fail"}
       /\ pipe[call[c].own].model = call[c].model
  /\ victim[c] # NoPid => call[c].pc \in {"idle", "relaunch"}

\* The types; an entry is filed under its own model and has a port of the range.
TypeOK ==
  /\ agent \in {"up", "stopping", "closing", "down"}
  /\ pipelines \in [Models -> PidOrNone]
  /\ pipe \in [Pids -> Pipeline]
  /\ proc \in [Pids -> {"none", "starting", "listening", "serving", "exited"}]
  /\ call \in [Callers -> Call]
  /\ victim \in [Actors -> PidOrNone]
  /\ todo \in [Sweepers -> SUBSET Models]
  /\ \A m \in Models : Present(m) =>
       pipe[pipelines[m]].model = m /\ pipe[pipelines[m]].port \in Ports
  /\ \A c \in Callers : CallShape(c)

-----------------------------------------------------------------------------
Live       == {"starting", "listening", "serving"}
Bound(k)   == {p \in Pids : proc[p] \in {"listening", "serving"} /\ pipe[p].port = k}

Unreferenced(p) ==
  /\ proc[p] = "none"
  /\ \A m \in Models : pipelines[m] # p
  /\ \A c \in Callers : p \notin {call[c].own, call[c].conn}
  /\ \A a \in Actors : victim[a] # p

Goto(c, l) == call' = [call EXCEPT ![c].pc = l]
Return(c)  == call' = [call EXCEPT ![c] = NoCall]

\* A handler can enter a call while the HTTP server accepts connections.
MayBegin(c) == agent \in {"up", "stopping"} /\ call[c].pc = "idle" /\ victim[c] = NoPid
Running     == agent # "down"

Init ==
  /\ agent = "up"
  /\ pipelines = [m \in Models |-> NoPid]
  /\ pipe = [p \in Pids |-> [model |-> NoModel, state |-> "loading", port |-> 0, age |-> 0]]
  /\ proc = [p \in Pids |-> "none"]
  /\ call = [c \in Callers |-> NoCall]
  /\ victim = [a \in Actors |-> NoPid]
  /\ todo = [s \in Sweepers |-> {}]

-----------------------------------------------------------------------------
(***************************************************************************)
(* Faulty variants.  Nothing below uses them: each stands for a slip in    *)
(* the code, and shows that the property named with it would notice.       *)
(***************************************************************************)

\* freePort returns the base port without probing it (PortsDistinct,
\* CollideOnlyBeforeBind), or the error it returns once the range is exhausted is
\* ignored (TypeOK).
FreePortUnprobed(k) == k \in Ports /\ \A j \in Ports : k <= j

LaunchUnchecked(c, m) ==
  LET free == {k \in Ports : Bound(k) = {}} IN
  \E p \in Pids, k \in Ports \cup {0} :
    /\ Unreferenced(p) /\ IF free = {} THEN k = 0 ELSE k \in free
    /\ pipe' = [pipe EXCEPT ![p] = [model |-> m, state |-> "loading", port |-> k, age |-> 0]]
    /\ proc' = [proc EXCEPT ![p] = "starting"]
    /\ pipelines' = [pipelines EXCEPT ![m] = p]
    /\ call' = [call EXCEPT ![c] = [NoCall EXCEPT !.pc = "alive", !.model = m,
                                       !.port = k, !.own = p]]

\* stop() kills and does not forget (KillsOnlyForgotten), or forgets and does
\* not kill (NoOrphan).
ForgetNothing(a, m) == UNCHANGED pipelines /\ victim' = [victim EXCEPT ![a] = pipelines[m]]
ForgetOnly(a, m)    == pipelines' = [pipelines EXCEPT ![m] = NoPid] /\ UNCHANGED victim

\* The launching call returns waitReady's error and cleans nothing up
\* (LoadingHasOwner); waitReady has no deadline (EnsureReturns).
FailedSilently(c) == Return(c)
GiveUpNever(c)    == FALSE /\ UNCHANGED vars

\* waitReady takes any HTTP answer for a healthy one (ReadyIsServing).
CheckHealthAny(c) ==
  /\ Running /\ call[c].pc = "health"
  /\ Goto(c, IF Bound(call[c].port) = {} THEN "alive"
             ELSE IF call[c].own # NoPid THEN "ready" ELSE "use")
  /\ UNCHANGED <<agent, pipelines, pipe, proc, victim, todo>>

\* gcLoop looks for failed pipelines, not for idle ones (IdleIsCollected).
GcScanFailed ==
  /\ Running /\ todo["gc"] = {} /\ victim["gc"] = NoPid
  /\ todo' = [todo EXCEPT !["gc"] =
                {m \in Models : Present(m) /\ pipe[pipelines[m]].state = "error"}]
  /\ UNCHANGED <<agent, pipelines, pipe, proc, call, victim>>

\* The loop leaves a pipeline that is still loading alone (StopAllKills).
SweepReady(s) ==
  /\ Running /\ victim[s] = NoPid
  /\ \E m \in todo[s] :
       /\ todo' = [todo EXCEPT ![s] = @ \ {m}]
       /\ IF Present(m) /\ pipe[pipelines[m]].state = "ready"
          THEN /\ pipelines' = [pipelines EXCEPT ![m] = NoPid]
               /\ victim' = [victim EXCEPT ![s] = pipelines[m]]
          ELSE UNCHANGED <<pipelines, victim>>
  /\ UNCHANGED <<agent, pipe, proc, call>>

\* The goroutine in cmd.Wait leaves the table alone (DeadEntryIsDropped,
\* DeadLeavesTable), deletes the name whatever it stands for by then
\* (LostOnlyByRelaunch), or records a failure (RefinesLifecycle).
ReapExit(p) == proc[p] = "exited" /\ proc' = [proc EXCEPT ![p] = "none"]

ReapKeeps(p)  == ReapExit(p) /\ UNCHANGED <<agent, pipelines, pipe, call, victim, todo>>
ReapByName(p) ==
  /\ ReapExit(p)
  /\ pipelines' = [m \in Models |-> IF m = pipe[p].model THEN NoPid ELSE pipelines[m]]
  /\ UNCHANGED <<agent, pipe, call, victim, todo>>
ReapMarks(p)  ==
  /\ ReapExit(p)
  /\ pipe' = [pipe EXCEPT ![p].state = "error"]
  /\ UNCHANGED <<agent, pipelines, call, victim, todo>>

-----------------------------------------------------------------------------
(***************************************************************************)
(* Ensure                                                                  *)
(***************************************************************************)

\* The ports net.Listen can take now; freePort returns the lowest.
FreePorts   == {k \in Ports : Bound(k) = {}}
FreePort(k) == k \in FreePorts /\ \A j \in FreePorts : k <= j

\* freePort, cmd.Start and the table entry, all under m.mu.  The entry
\* replaces whatever the table holds for m.
Launch(c, m) ==
  \/ \E p \in Pids, k \in Ports :
       /\ Unreferenced(p) /\ FreePort(k)
       /\ pipe' = [pipe EXCEPT ![p] =
                     [model |-> m, state |-> "loading", port |-> k, age |-> 0]]
       /\ proc' = [proc EXCEPT ![p] = "starting"]
       /\ pipelines' = [pipelines EXCEPT ![m] = p]
       /\ call' = [call EXCEPT ![c] = [pc |-> "alive", model |-> m, port |-> k,
                                       own |-> p, conn |-> NoPid]]
  \/ Return(c) /\ UNCHANGED <<pipelines, pipe, proc>>

\* The table has an entry for m: join it, or go and replace a failed one.
EnsureHit(c, m) ==
  /\ MayBegin(c) /\ Present(m)
  /\ LET p == pipelines[m]
         next == [ready |-> "use", loading |-> "alive", error |-> "purge"]
     IN /\ pipe' = [pipe EXCEPT ![p].age = 0]
        /\ call' = [call EXCEPT ![c] = [NoCall EXCEPT !.pc = next[pipe[p].state],
                                          !.model = m, !.port = pipe[p].port]]
  /\ UNCHANGED <<agent, pipelines, proc, victim, todo>>

EnsureMiss(c, m) ==
  /\ MayBegin(c) /\ ~Present(m)
  /\ Launch(c, m)
  /\ UNCHANGED <<agent, victim, todo>>

\* stop(), first half: forget the entry under m.mu, whatever it is by now.
Forget(a, m) ==
  /\ pipelines' = [pipelines EXCEPT ![m] = NoPid]
  /\ victim' = [victim EXCEPT ![a] = pipelines[m]]

\* stop(), second half: Process.Kill after m.mu is released.
Kill(a) ==
  /\ Running /\ victim[a] # NoPid
  /\ proc' = [proc EXCEPT ![victim[a]] = IF @ \in Live THEN "exited" ELSE @]
  /\ victim' = [victim EXCEPT ![a] = NoPid]
  /\ UNCHANGED <<agent, pipelines, pipe, call, todo>>

\* Ensure saw StateError: m.stop(model), then m.mu.Lock and launch again.
Purge(c) ==
  /\ Running /\ call[c].pc = "purge"
  /\ Forget(c, call[c].model) /\ Goto(c, "relaunch")
  /\ UNCHANGED <<agent, pipe, proc, todo>>

Relaunch(c) ==
  /\ Running /\ call[c].pc = "relaunch" /\ victim[c] = NoPid
  /\ Launch(c, call[c].model)
  /\ UNCHANGED <<agent, victim, todo>>

-----------------------------------------------------------------------------
(***************************************************************************)
(* waitReady and what follows it                                           *)
(***************************************************************************)

\* waitReady returned an error: the launching call reports it and tears the
\* pipeline down, a joining call only returns.
Failed(c) == IF call[c].own # NoPid THEN Goto(c, "fail") ELSE Return(c)

\* The deadline has passed or the client's context is done.
GiveUp(c) ==
  /\ Running /\ call[c].pc = "alive"
  /\ Failed(c)
  /\ UNCHANGED <<agent, pipelines, pipe, proc, victim, todo>>

\* alive(model): some pipeline, not necessarily this call's, is in the table.
CheckAlive(c) ==
  /\ Running /\ call[c].pc = "alive"
  /\ IF Present(call[c].model) THEN Goto(c, "health") ELSE Failed(c)
  /\ UNCHANGED <<agent, pipelines, pipe, proc, victim, todo>>

\* GET 127.0.0.1:port/health, answered by whichever process holds the port.
CheckHealth(c) ==
  /\ Running /\ call[c].pc = "health"
  /\ \/ /\ \E p \in Bound(call[c].port) : proc[p] = "serving"
        /\ Goto(c, IF call[c].own # NoPid THEN "ready" ELSE "use")
     \/ /\ ~\E p \in Bound(call[c].port) : proc[p] = "serving"
        /\ Goto(c, "alive")
  /\ UNCHANGED <<agent, pipelines, pipe, proc, victim, todo>>

\* setState and setError act on the entry the table holds for the model now.
SetInfo(m, s) ==
  pipe' = IF Present(m) THEN [pipe EXCEPT ![pipelines[m]].state = s] ELSE pipe

MarkReady(c) ==
  /\ Running /\ call[c].pc = "ready"
  /\ SetInfo(call[c].model, "ready")
  /\ call' = [call EXCEPT ![c].pc = "use", ![c].own = NoPid]
  /\ UNCHANGED <<agent, pipelines, proc, victim, todo>>

MarkError(c) ==
  /\ Running /\ call[c].pc = "fail"
  /\ SetInfo(call[c].model, "error")
  /\ call' = [call EXCEPT ![c].pc = "stop", ![c].own = NoPid]
  /\ UNCHANGED <<agent, pipelines, proc, victim, todo>>

StopFailed(c) ==
  /\ Running /\ call[c].pc = "stop"
  /\ Forget(c, call[c].model) /\ Return(c)
  /\ UNCHANGED <<agent, pipe, proc, todo>>

-----------------------------------------------------------------------------
(***************************************************************************)
(* Requests sent to a pipeline                                             *)
(***************************************************************************)

\* What Port and gcLoop look for.
Ready(m) == Present(m) /\ pipe[pipelines[m]].state = "ready"

\* handleLlamaProxy: Port(model), then Touch(model), then the proxied request.
ProxyLookup(c, m) ==
  /\ MayBegin(c) /\ Ready(m)
  /\ call' = [call EXCEPT ![c] = [NoCall EXCEPT !.pc = "touch", !.model = m,
                                    !.port = pipe[pipelines[m]].port]]
  /\ UNCHANGED <<agent, pipelines, pipe, proc, victim, todo>>

ProxyTouch(c) ==
  /\ Running /\ call[c].pc = "touch"
  /\ pipe' = IF Present(call[c].model)
             THEN [pipe EXCEPT ![pipelines[call[c].model]].age = 0] ELSE pipe
  /\ Goto(c, "use")
  /\ UNCHANGED <<agent, pipelines, proc, victim, todo>>

\* The request reaches the process that holds the port.  A refused connection
\* and the 503 of a server still loading end the call, as does the reply of
\* handlePipelineEnsure, which sends no request itself.
Connect(c) ==
  /\ Running /\ call[c].pc = "use"
  /\ \/ \E p \in Bound(call[c].port) :
          /\ proc[p] = "serving"
          /\ call' = [call EXCEPT ![c].pc = "stream", ![c].conn = p]
     \/ Return(c)
  /\ UNCHANGED <<agent, pipelines, pipe, proc, victim, todo>>

\* The response is complete, or broken off by either side.
EndStream(c) ==
  /\ Running /\ call[c].pc = "stream"
  /\ Return(c)
  /\ UNCHANGED <<agent, pipelines, pipe, proc, victim, todo>>

-----------------------------------------------------------------------------
(***************************************************************************)
(* gcLoop and StopAll                                                      *)
(***************************************************************************)
Idle(m) == Ready(m) /\ pipe[pipelines[m]].age > IdleTimeout

Swept(s) == todo[s] = {} /\ victim[s] = NoPid

\* One tick of gcLoop lists the idle pipelines under m.mu ...
GcScan ==
  /\ Running /\ Swept("gc")
  /\ todo' = [todo EXCEPT !["gc"] = {m \in Models : Idle(m)}]
  /\ UNCHANGED <<agent, pipelines, pipe, proc, call, victim>>

\* ... and then it, or StopAll, calls stop(model) for each name it listed.
Sweep(s) ==
  /\ Running /\ victim[s] = NoPid
  /\ \E m \in todo[s] : /\ Forget(s, m)
                        /\ todo' = [todo EXCEPT ![s] = @ \ {m}]
  /\ UNCHANGED <<agent, pipe, proc, call>>

\* The agent's context is cancelled: StopAll lists every model ...
Signal ==
  /\ AllowShutdown /\ agent = "up"
  /\ agent' = "stopping"
  /\ todo' = [todo EXCEPT !["stopAll"] = {m \in Models : Present(m)}]
  /\ UNCHANGED <<pipelines, pipe, proc, call, victim>>

\* ... then a.worker.Stop() waits for the worker's lock, as long as the program that
\* is run under it takes (StopAtExit in RpcWorker), and srv.Shutdown follows: no
\* handler starts any more.  That may be long after StopAll has ended, or never.
CloseServer ==
  /\ agent = "stopping" /\ Swept("stopAll")
  /\ agent' = "closing"
  /\ UNCHANGED <<pipelines, pipe, proc, call, victim, todo>>

\* ListenAndServe has returned, Run returns and main exits: the memory of the
\* agent is gone, the processes it started are not.
Exit ==
  /\ agent = "closing"
  /\ agent' = "down"
  /\ pipelines' = [m \in Models |-> NoPid]
  /\ call' = [c \in Callers |-> NoCall]
  /\ victim' = [a \in Actors |-> NoPid]
  /\ todo' = [s \in Sweepers |-> {}]
  /\ UNCHANGED <<pipe, proc>>

Restart ==
  /\ agent = "down"
  /\ agent' = "up"
  /\ UNCHANGED <<pipelines, pipe, proc, call, victim, todo>>

-----------------------------------------------------------------------------
(***************************************************************************)
(* The processes and the clock                                             *)
(***************************************************************************)

\* llama-server binds its port some time after exec, and exits if it cannot.
Bind(p) ==
  /\ proc[p] = "starting"
  /\ proc' = [proc EXCEPT ![p] = IF Bound(pipe[p].port) = {} THEN "listening" ELSE "exited"]
  /\ UNCHANGED <<agent, pipelines, pipe, call, victim, todo>>

\* Loading takes seconds at the least: a Kill that is due comes first.
Loaded(p) ==
  /\ proc[p] = "listening" /\ \A a \in Actors : victim[a] # p
  /\ proc' = [proc EXCEPT ![p] = "serving"]
  /\ UNCHANGED <<agent, pipelines, pipe, call, victim, todo>>

\* Out of memory, a lost worker, a crash.
Crash(p) ==
  /\ proc[p] \in Live
  /\ proc' = [proc EXCEPT ![p] = "exited"]
  /\ UNCHANGED <<agent, pipelines, pipe, call, victim, todo>>

\* The goroutine of Ensure that sits in cmd.Wait.
Reap(p) ==
  /\ proc[p] = "exited"
  /\ proc' = [proc EXCEPT ![p] = "none"]
  /\ pipelines' = [m \in Models |->
       IF m = pipe[p].model /\ pipelines[m] = p /\ pipe[p].state # "error"
       THEN NoPid ELSE pipelines[m]]
  /\ UNCHANGED <<agent, pipe, call, victim, todo>>

\* Time passes.  A tick is minutes long, so no tick falls into the steps that
\* wait for nothing: only loading, streaming and idling take time.  Ages stop
\* counting once past the timeout, where they no longer matter.
Settled ==
  /\ \A c \in Callers : call[c].pc \in {"idle", "alive", "health", "stream"}
  /\ \A a \in Actors : victim[a] = NoPid
  /\ \A p \in Pids : proc[p] # "exited"

Tick ==
  /\ Settled
  /\ pipe' = [p \in Pids |->
       IF pipe[p].age <= IdleTimeout /\ \E m \in Models : pipelines[m] = p
       THEN [pipe[p] EXCEPT !.age = @ + 1] ELSE pipe[p]]
  /\ UNCHANGED <<agent, pipelines, proc, call, victim, todo>>

-----------------------------------------------------------------------------
\* The steps the goroutines take on their own: a handler inside Ensure, gcLoop,
\* and StopAll.
EnsureStep(c) ==
  \/ Purge(c) \/ Relaunch(c) \/ CheckAlive(c) \/ CheckHealth(c)
  \/ MarkReady(c) \/ MarkError(c) \/ StopFailed(c) \/ Kill(c)
GcStep   == GcScan \/ Sweep("gc") \/ Kill("gc")
StopStep == Sweep("stopAll") \/ Kill("stopAll")

Next ==
  \/ \E c \in Callers, m \in Models :
       EnsureHit(c, m) \/ EnsureMiss(c, m) \/ ProxyLookup(c, m)
  \/ \E c \in Callers :
       EnsureStep(c) \/ GiveUp(c) \/ ProxyTouch(c) \/ Connect(c) \/ EndStream(c)
  \/ GcStep \/ StopStep \/ Signal \/ CloseServer \/ Exit \/ Restart
  \/ \E p \in Pids : Bind(p) \/ Loaded(p) \/ Crash(p) \/ Reap(p)
  \/ Tick

Spec == Init /\ [][Next]_vars

-----------------------------------------------------------------------------
(***************************************************************************)
(* Properties of every behaviour, however many calls overlap               *)
(***************************************************************************)

\* A pipeline in the table is "loading" only while the call that launched it
\* is still in waitReady, or about to record its outcome.  gcLoop collects
\* ready pipelines only, so a loading entry without such a call would stay for
\* ever and every later Ensure would join it and wait out its deadline.
LoadingHasOwner ==
  \A m \in Models :
    Present(m) /\ pipe[pipelines[m]].state = "loading"
      => \E c \in Callers : call[c].own = pipelines[m]

\* An entry that is failed, or whose process has been waited for, is about to
\* be dropped: some call stands between setError(m) and stop(m).  So a request
\* that arrives after a failure has been dealt with launches a new pipeline.
DeadEntryIsDropped ==
  \A m \in Models :
    Present(m) /\ (pipe[pipelines[m]].state = "error" \/ proc[pipelines[m]] = "none")
      => \E c \in Callers : call[c].pc = "stop" /\ call[c].model = m

\* stop() kills what it has forgotten, never a process the table still names:
\* between the unlock and the Kill nobody can have been handed its port anew.
KillsOnlyForgotten ==
  \A a \in Actors, m \in Models : Present(m) => victim[a] # pipelines[m]

\* While the agent is up, the only way to lose a running llama-server, alive
\* and beyond the reach of any stop(), is the relaunch after a failure: there m.mu
\* is released between the lookup and the launch.
Tracked(p) == \/ \E m \in Models : pipelines[m] = p
              \/ \E a \in Actors : victim[a] = p

LostOnlyByRelaunch ==
  [][\A p \in Pids :
       agent = "up" /\ Tracked(p) /\ (proc[p] \in Live /\ ~Tracked(p))'
         => \E c \in Callers : call[c].pc = "relaunch"]_vars

\* Two live llama-servers come to have one port only by a launch that finds the other
\* started and not yet bound: freePort closes its probe socket, and sees what has
\* bound since, whoever owns it and however often agent and calls have changed.
Sharing(p, q) ==
  p # q /\ {proc[p], proc[q]} \subseteq Live /\ pipe[p].port = pipe[q].port

CollideOnlyBeforeBind ==
  [][\A p, q \in Pids : Sharing(p, q)' /\ ~Sharing(p, q)
       => "starting" \in {proc[p], proc[q]}]_vars

-----------------------------------------------------------------------------
(***************************************************************************)
(* Properties that overlapping calls break, checked one call at a time     *)
(***************************************************************************)

\* Every llama-server the agent runs can be reached by a later stop(): it is in
\* the table under the model it serves, or already on its way to be killed.
NoOrphan == \A p \in Pids : proc[p] \in Live => Tracked(p)

\* StateReady means that llama-server answers: the entry's own process has
\* passed its health check, and has at most died since.
ReadyIsServing ==
  \A m \in Models :
    Ready(m) => proc[pipelines[m]] \in {"serving", "exited", "none"}

\* freePort's promise ("so multiple pipelines (or restarts) don't collide"):
\* no two pipelines of the table with a live process were given the same port.
PortsDistinct ==
  \A m, n \in Models :
    m # n /\ Present(m) /\ Present(n) /\ {proc[pipelines[m]], proc[pipelines[n]]} \subseteq Live
      => pipe[pipelines[m]].port # pipe[pipelines[n]].port

\* What the driver advertises of each model (Infos) goes through the lifecycle
\* of PipelineState: no ready pipeline turns into a failed one or back.
Slot(m) == IF Present(m) THEN pipe[pipelines[m]].state ELSE "absent"

Lifecycle == INSTANCE PipelineLifecycle WITH slot <- [m \in Models |-> Slot(m)]

RefinesLifecycle == Lifecycle!Spec

-----------------------------------------------------------------------------
(***************************************************************************)
(* What the documents say and the code does not do                         *)
(***************************************************************************)

\* "agent shutdown kills all child processes" (docs/ARCHITECTURE.md:82).
ShutdownKillsAll == agent = "down" => \A p \in Pids : proc[p] \notin Live

\* "IdleTimeout is how long an unused pipeline stays warm before teardown"
\* (pipeline.go:15): gcLoop does not take out of the table a pipeline whose
\* launching call is about to use it or that is answering a request.
GcSparesUsed ==
  [][\A m \in todo["gc"] \ todo'["gc"] : \A c \in Callers :
       ~ \/ call[c].pc = "use" /\ call[c].model = m
         \/ call[c].pc = "stream" /\ call[c].conn = pipelines[m]]_vars

-----------------------------------------------------------------------------
(***************************************************************************)
(* Liveness                                                                *)
(*                                                                         *)
(* Goroutines are scheduled (WF on the steps of each).  waitReady's loop   *)
(* passes its deadline test again and again, and after 30 minutes the test *)
(* holds for good: SF on GiveUp.  Nothing is assumed of llama-server, of   *)
(* the clock, or of what follows StopAll, which waits for another lock.    *)
(***************************************************************************)
Fairness ==
  /\ \A c \in Callers : WF_vars(EnsureStep(c)) /\ SF_vars(GiveUp(c))
  /\ \A p \in Pids : WF_vars(Reap(p))
  /\ WF_vars(GcStep) /\ WF_vars(StopStep)

FairSpec == Spec /\ Fairness

InEnsure(c) == call[c].pc \in {"purge", "relaunch", "ready", "fail", "stop"} \cup Waiting

\* Every Ensure call ends, whatever the process and the other calls do.
EnsureReturns == \A c \in Callers : InEnsure(c) ~> ~InEnsure(c)

\* A pipeline whose process has exited leaves the table, so that the next
\* request relaunches it (docs/ARCHITECTURE.md:86).
DeadLeavesTable ==
  \A m \in Models, p \in Pids :
    pipelines[m] = p /\ proc[p] = "exited" ~> pipelines[m] # p

\* StopAll kills what it has listed, in whatever state, even if gcLoop or a failing
\* call forgets it first: but for a process a relaunch (LostOnlyByRelaunch) or the
\* agent's own exit puts out of reach.
StopAllKills ==
  \A m \in Models, p \in Pids :
    m \in todo["stopAll"] /\ pipelines[m] = p ~> proc[p] \notin Live \/ ~Tracked(p)

\* A pipeline that stays unused is torn down: it is touched, or it goes.
IdleIsCollected ==
  \A m \in Models : Idle(m) ~> ~Idle(m)

=============================================================================
