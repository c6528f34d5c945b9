----------------------------- MODULE SplitServing -----------------------------
(***************************************************************************)
(* A model that fits no node, from the plan to the pipeline: PlanSplit on  *)
(* what the nodes have reported, EnsureLocal of internal/agent/split.go on *)
(* the driver, which recruits the plan's workers one after the other,      *)
(* launches with those it gets or joins the pipeline there is, and the     *)
(* memory all this takes.                                                  *)
(*                                                                         *)
(* One node, Driver, holds the model.  Its pipeline table and the nodes'   *)
(* rpc-servers are here what PipelineManager and RpcWorker advertise of    *)
(* them.  llama-server distributes a model by free memory and fails if the *)
(* sum does not hold it.  A node has one memory, as it has without a GPU   *)
(* or with unified memory: what is loaded is no longer MemAvailable.       *)
(* What goes wrong of itself is counted in faults and bounded.             *)
(***************************************************************************)
EXTENDS Scheduler

CONSTANTS
  NodeSeq,    \* the nodes, in the order of a snapshot
  Driver,     \* the one that holds the model and has llama-server
  Total,      \* the memory of each node while it lends none
  Base, Size, \* the model and its size
  Calls,      \* requests in progress at one time
  MaxFaults,  \* bound on what goes wrong
  None

Nodes   == Range(NodeSeq)
Workers == Nodes \ {Driver}

\* A pipeline of the driver's table: share is what it has of each node's memory.
Pipelines == [state : {"loading", "ready", "broken"}, workers : (SUBSET Workers) \ {{}},
              share : [Nodes -> Nat]]

ASSUME NodesAssumption  == NodeSeq \in Seq(Nodes) /\ Driver \in Nodes
ASSUME MemoryAssumption == Size \in Nat \ {0} /\ Total \in [Nodes -> Nat]
ASSUME NoneAssumption   == None \notin Pipelines

VARIABLES
  sharing,  \* a.cfg.Share of each node
  rpc,      \* the nodes whose rpc-server runs
  seen,     \* what the entry's registry has of each node: [mem, sharing]
  pipe,     \* the driver's pipelines, or None
  free,     \* the memory each node has left
  call,     \* the requests
  faults

vars == <<sharing, rpc, seen, pipe, free, call, faults>>

\* A request may name the model with or without ":latest".
Names == {[base |-> Base, tag |-> t] : t \in {"", "latest"}}

\* splitName: the store's path has a tag even if the name has none.
StorePath(name) == [name EXCEPT !.tag = IF @ = "" THEN "latest" ELSE @]
Store == {[base |-> Base, tag |-> "latest"]}

\* "recruit" is EnsureLocal before Manager.Ensure, "wait" is waitReady, in the call
\* that launched (owner) or in one that joined, "serve" the request in llama-server.
NoCall == [pc |-> "idle", name |-> None, plan |-> <<>>, todo |-> <<>>, asSeen |-> FALSE,
           got |-> {}, owner |-> FALSE]
Busy(c) == call[c].pc # "idle"

NoShare == [n \in Nodes |-> 0]

\* Whether the weights go into the free memory of the participants, and whether there
\* is room for what FitFactor adds for the KV cache and the compute buffers too.
\* Without that a load may succeed or fail; what they take of it is not counted.
Fits(workers)  == Sum(free, workers \cup {Driver}) >= Size
Roomy(workers) == Sum(free, workers \cup {Driver}) >= Need(Size)

\* llama-server's splits by free memory, each part rounded down or up.
Shares(workers) ==
  LET used     == workers \cup {Driver}
      part(n)  == (Size * free[n]) \div Sum(free, used)
      split(T) == [n \in Nodes |-> IF n \notin used THEN 0
                                   ELSE IF n \in T THEN part(n) + 1 ELSE part(n)]
  IN {s \in {split(T) : T \in SUBSET used} :
        Sum(s, used) = Size /\ \A n \in used : s[n] <= free[n]}

\* The entry's snapshot, as PlanSplit reads it.
Snapshot(reports) ==
  LET view(n) == [id |-> n, sharing |-> reports[n].sharing, ollamaOK |-> TRUE, age |-> 0,
                  models |-> IF n = Driver THEN {[name |-> p, size |-> Size] : p \in Store}
                                           ELSE {},
                  loaded |-> {}, active |-> 0, mem |-> reports[n].mem,
                  worker |-> TRUE, driver |-> n = Driver]
  IN [i \in DOMAIN NodeSeq |-> view(NodeSeq[i])]

\* The plans PlanSplit can make of each set of reports: tabulated, for TLC's sake.
Reports == [Nodes -> [mem : 0..Max(Range(Total)), sharing : BOOLEAN]]
PlanTable ==
  [v \in Reports |-> [name \in Names |-> {p \in PlanSplit(Snapshot(v), name) : p.kind = "plan"}]]
Plans(name) == PlanTable[seen][name]

Init ==
  /\ sharing = [n \in Nodes |-> TRUE]
  /\ rpc = {}
  /\ seen = [n \in Nodes |-> [mem |-> Total[n], sharing |-> TRUE]]
  /\ pipe = [k \in Names |-> None]
  /\ free = Total
  /\ call = [c \in Calls |-> NoCall]
  /\ faults = 0

Fault == faults < MaxFaults /\ faults' = faults + 1
Return(c) == call' = [call EXCEPT ![c] = NoCall]

-----------------------------------------------------------------------------
(***************************************************************************)
(* Faulty variants.  Nothing below uses them: each stands for a slip in    *)
(* the code, and shows that the property named with it would notice.       *)
(***************************************************************************)

\* EnsureLocal keeps only the last address it was given (PlannedLaunchFits).
ParticipantsLast(c) == call[c].got \cap {Last(call[c].plan)}

\* A call whose load fails returns without stop (RoomIsUsed).
LoadFailsQuietly(k) == FALSE

-----------------------------------------------------------------------------
(***************************************************************************)
(* Recruiting                                                              *)
(***************************************************************************)

\* A node's memory and consent reach the entry: refreshSelf, then pollPeers.
Report(n) ==
  /\ seen[n] # [mem |-> free[n], sharing |-> sharing[n]]
  /\ seen' = [seen EXCEPT ![n] = [mem |-> free[n], sharing |-> sharing[n]]]
  /\ UNCHANGED <<sharing, rpc, pipe, free, call, faults>>

\* A request on /v1/ for which there is a plan reaches EnsureLocal on the driver.
\* Without one it is Pick's.
Ask(c, name) ==
  /\ ~Busy(c)
  /\ \E p \in Plans(name) :
       LET workers == [i \in DOMAIN p.workers |-> p.workers[i].id] IN
       call' = [call EXCEPT ![c] =
                  [NoCall EXCEPT !.pc = "recruit", !.name = name, !.plan = workers,
                                 !.todo = workers,
                                 !.asSeen = \A n \in Range(workers) \cup {Driver} :
                                              free[n] >= seen[n].mem]]
  /\ StorePath(name) \in Store
  /\ UNCHANGED <<sharing, rpc, seen, pipe, free, faults>>

\* recruitWorker: the next worker's rpc-server runs, or is started if it shares.
Recruited(c) ==
  /\ call[c].pc = "recruit" /\ call[c].todo # <<>>
  /\ LET w == Head(call[c].todo) IN
     /\ sharing[w]
     /\ rpc' = rpc \cup {w}
     /\ call' = [call EXCEPT ![c].todo = Tail(@), ![c].got = @ \cup {w}]
  /\ UNCHANGED <<sharing, seen, pipe, free, faults>>

Skip(c) == call' = [call EXCEPT ![c].todo = Tail(@)]

\* It refuses (403).
Refused(c) ==
  /\ call[c].pc = "recruit" /\ call[c].todo # <<>>
  /\ ~sharing[Head(call[c].todo)] /\ Skip(c)
  /\ UNCHANGED <<sharing, rpc, seen, pipe, free, faults>>

\* Fifteen seconds pass, or it cannot be reached.  Its handler may all the same
\* start the rpc-server, which nobody will use or stop.  A call that has lost one
\* worker may lose the others by the same fault.
NoAnswer(c) ==
  /\ call[c].pc = "recruit" /\ call[c].todo # <<>>
  /\ IF Cardinality(call[c].got) + Len(call[c].todo) < Len(call[c].plan)
     THEN UNCHANGED faults ELSE Fault
  /\ Skip(c)
  /\ LET w == Head(call[c].todo) IN
     rpc' \in {rpc, IF sharing[w] THEN rpc \cup {w} ELSE rpc}
  /\ UNCHANGED <<sharing, seen, pipe, free>>

\* "no workers could be recruited".
NobodyRecruited(c) ==
  /\ call[c].pc = "recruit" /\ call[c].todo = <<>> /\ call[c].got = {}
  /\ Return(c)
  /\ UNCHANGED <<sharing, rpc, seen, pipe, free, faults>>

-----------------------------------------------------------------------------
(***************************************************************************)
(* Manager.Ensure                                                          *)
(***************************************************************************)

Participants(c) == call[c].got

\* It looks at the table only now, whomever it has recruited.
Ensure(c) ==
  /\ call[c].pc = "recruit" /\ call[c].todo = <<>> /\ call[c].got # {}
  /\ LET k == call[c].name IN
     IF pipe[k] = None
     THEN /\ pipe' = [pipe EXCEPT ![k] = [state |-> "loading", workers |-> Participants(c),
                                          share |-> NoShare]]
          /\ call' = [call EXCEPT ![c] = [NoCall EXCEPT !.pc = "wait", !.name = k, !.owner = TRUE]]
     ELSE /\ call' = [call EXCEPT ![c] = [NoCall EXCEPT !.name = k,
                        !.pc = IF pipe[k].state = "loading" THEN "wait" ELSE "serve"]]
          /\ UNCHANGED pipe
  /\ UNCHANGED <<sharing, rpc, seen, free, faults>>

\* llama-server has put the layers where there was room.
Load(k) ==
  /\ pipe[k] # None /\ pipe[k].state = "loading"
  /\ pipe[k].workers \subseteq rpc /\ Fits(pipe[k].workers)
  /\ \E s \in Shares(pipe[k].workers) :
       /\ pipe' = [pipe EXCEPT ![k].state = "ready", ![k].share = s]
       /\ free' = [n \in Nodes |-> free[n] - s[n]]
  /\ call' = [c \in Calls |->
                IF call[c].pc = "wait" /\ call[c].name = k
                THEN [NoCall EXCEPT !.pc = "serve", !.name = k]
                ELSE [call[c] EXCEPT !.asSeen = FALSE]]
  /\ UNCHANGED <<sharing, rpc, seen, faults>>

\* The pipeline's process ends and its entry goes; whoever waits for it or is
\* served by it gets an error.
Drop(k) ==
  /\ pipe[k] # None
  /\ pipe' = [pipe EXCEPT ![k] = None]
  /\ free' = [n \in Nodes |-> free[n] + pipe[k].share[n]]
  /\ call' = [c \in Calls |-> IF call[c].pc \in {"wait", "serve"} /\ call[c].name = k
                              THEN NoCall ELSE call[c]]
  /\ UNCHANGED <<sharing, rpc, seen>>

\* "llama-server will fail loudly if what's left is not enough".
LoadFails(k) ==
  /\ pipe[k] # None /\ pipe[k].state = "loading"
  /\ ~(pipe[k].workers \subseteq rpc /\ Roomy(pipe[k].workers))
  /\ Drop(k) /\ UNCHANGED faults

\* A pipeline without one of its workers fails at the next token.
Fails(k) == pipe[k] # None /\ pipe[k].state = "broken" /\ Drop(k) /\ UNCHANGED faults

\* gcLoop collects it while nobody uses it.
Collect(k) ==
  /\ ~\E c \in Calls : call[c].pc \in {"wait", "serve"} /\ call[c].name = k
  /\ Drop(k) /\ UNCHANGED faults

\* It crashes, is collected in use, or the launching call's client leaves.
Lost(k) == Fault /\ Drop(k)

\* The answer has ended.
Answered(c) ==
  /\ call[c].pc = "serve" /\ Return(c)
  /\ UNCHANGED <<sharing, rpc, seen, pipe, free, faults>>

-----------------------------------------------------------------------------
\* What an rpc-server held is free when it ends.
ServerEnds(n) ==
  /\ rpc' = rpc \ {n}
  /\ pipe' = [k \in Names |->
                IF pipe[k] = None \/ n \notin pipe[k].workers \/ pipe[k].state = "loading"
                THEN pipe[k]
                ELSE [pipe[k] EXCEPT !.state = "broken", !.share[n] = 0]]
  /\ free' = [free EXCEPT ![n] = Total[n]]
  /\ UNCHANGED <<seen, call>>

\* The owner restarts the agent with another -share; taking part again is no fault.
Restart(n) ==
  /\ n \in Workers
  /\ IF sharing[n] THEN Fault ELSE UNCHANGED faults
  /\ sharing' = [sharing EXCEPT ![n] = ~@]
  /\ ServerEnds(n)

\* rpc-server crashes, or POST /api/rpc/stop.
ServerStops(n) == n \in rpc /\ Fault /\ ServerEnds(n) /\ UNCHANGED sharing

CallStep(c) == Recruited(c) \/ Refused(c) \/ NobodyRecruited(c) \/ Ensure(c)
LoadStep(k) == Load(k) \/ LoadFails(k) \/ Fails(k)

Next ==
  \/ \E c \in Calls : CallStep(c) \/ NoAnswer(c) \/ Answered(c) \/ \E k \in Names : Ask(c, k)
  \/ \E k \in Names : LoadStep(k) \/ Collect(k) \/ Lost(k)
  \/ \E n \in Nodes : Report(n) \/ Restart(n) \/ ServerStops(n)

Spec == Init /\ [][Next]_vars

(***************************************************************************)
(* A recruitment is answered or given up, a load ends, reports arrive, and *)
(* as long as there is a plan somebody asks again and again.               *)
(***************************************************************************)
Fairness ==
  /\ \A c \in Calls : WF_vars(CallStep(c) \/ Answered(c))
  /\ \A k \in Names : WF_vars(LoadStep(k))
  /\ WF_vars(\E n \in Nodes : Report(n))
  /\ []<>((\A k \in Names : Plans(k) = {}) \/ \E c \in Calls : Busy(c))

FairSpec == Spec /\ Fairness

-----------------------------------------------------------------------------
(***************************************************************************)
(* Properties                                                              *)
(***************************************************************************)

\* The types; only workers of the plan, never the driver, lend memory, and what a
\* pipeline has of a node is given back once, however it ends.
TypeOK ==
  /\ sharing \in [Nodes -> BOOLEAN]
  /\ rpc \subseteq Workers
  /\ seen \in Reports
  /\ call \in [Calls -> [pc : {"idle", "recruit", "wait", "serve"}, name : Names \cup {None},
                          plan : Seq(Workers), todo : Seq(Workers), got : SUBSET Workers,
                          asSeen : BOOLEAN, owner : BOOLEAN]]
  /\ pipe \in [Names -> Pipelines \cup {None}]
  /\ free \in [Nodes -> Nat]
  /\ \A n \in Nodes :
       Total[n] = free[n] + Sum([k \in Names |-> IF pipe[k] = None THEN 0 ELSE pipe[k].share[n]],
                                Names)

\* A launch with every worker of its plan, on nodes that have at least the memory
\* the plan was made on, has room for all that Need asks for the model, its cache and
\* its buffers: the truncations in Need and Usable cost less than WorkerUsableFrac
\* holds back.  Of a launch with fewer workers it says nothing.
PlannedLaunchFits ==
  [][\A c \in Calls :
       /\ ~call[c].owner /\ call'[c].owner
       /\ call[c].got = Range(call[c].plan) /\ call[c].asSeen
       => Roomy(pipe'[call[c].name].workers)]_vars

\* Whatever refused, timed out, crashed or was restarted, once that is over the
\* model is loaded again and again by whoever goes on asking: nothing a failed
\* attempt leaves behind keeps the next one from having it.
RoomIsUsed ==
  <>[](\A n \in Nodes : sharing[n]) => []<>(\E k \in Names : pipe[k] # None /\ pipe[k].state = "ready")

\* "If a requested model fits no single device, Potluck runs it as a pipeline across
\* devices" (README.md:51), and "pipelines then stay warm": once it is loaded, a
\* request for it gets there, on the pool as it has been reported.
WarmIsReused ==
  (\E k \in Names : pipe[k] # None /\ pipe[k].state = "ready") =>
    \A k \in Names : Plans(k) # {}
=============================================================================
