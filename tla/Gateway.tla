-------------------------------- MODULE Gateway --------------------------------
(***************************************************************************)
(* Requests through the gateways of a pool: internal/gateway/gateway.go    *)
(* and internal/gateway/split.go.                                          *)
(*                                                                         *)
(* A request arrives at any node, its entry.  The handler there,           *)
(* handleInference, chooses a target on a snapshot of the pool that may be *)
(* out of date, so here the target is any node, up or not.  It forwards    *)
(* the request to its own Ollama or pipeline, or to the proxy of the       *)
(* target's agent (a hop), copies the answer, and records the request.     *)
(* Handlers of both nodes run in steps of their own; clients leave and     *)
(* agents stop whenever they like.                                         *)
(*                                                                         *)
(* Ollama and llama-server answer or fail when they please.  What an       *)
(* answer says, its status included, is left out.  Requests refused before *)
(* they are forwarded (400, 404) touch no state.                           *)
(***************************************************************************)
EXTENDS Integers, Sequences, FiniteSets

CONSTANTS
  Nodes,      \* the agents
  Requests,   \* requests that can be in progress at one time
  Token,      \* the -token each agent was started with
  NoToken,    \* the empty token: nothing is asked of peers
  NoNode,
  Keep,       \* the length of the history: keep
  MaxRouted   \* bound on the counters of one run of an agent

ASSUME NodesAssumption    == NoNode \notin Nodes
ASSUME RequestsAssumption == IsFiniteSet(Requests)
ASSUME KeepAssumption     == Keep \in Nat \ {0} /\ MaxRouted \in Nat

VARIABLES
  up,       \* the nodes whose agent runs
  req,      \* handleInference of each request, at its entry
  hop,      \* the request the entry has sent to its target's proxy
  active,   \* Gateway.active of each node
  served,   \* Gateway.totalServed
  reqID,    \* Gateway.reqID
  history   \* Gateway.history, the IDs only

vars     == <<up, req, hop, active, served, reqID, history>>
counters == <<active, served, reqID, history>>

\* "ensure" is a pipeline being ensured, here or on its driver, "do" client.Do,
\* "copy" flushCopy, "end" the return from forward, "log" an ID drawn by finish.
PC    == {"idle", "ensure", "do", "copy", "end", "log"}
Kinds == {"ollama", "split"}

NoReq == [pc |-> "idle", entry |-> NoNode, target |-> NoNode, kind |-> "ollama",
          gone |-> FALSE, id |-> 0]

\* "sent" is on its way to the proxy, "run" in it, "stream" has been answered,
\* "done" answered in full, refusals included.
NoHop == [pc |-> "none", from |-> NoNode, to |-> NoNode, kind |-> "ollama"]

Init ==
  /\ up = Nodes
  /\ req = [r \in Requests |-> NoReq]
  /\ hop = [r \in Requests |-> NoHop]
  /\ active = [n \in Nodes |-> 0] /\ served = [n \in Nodes |-> 0]
  /\ reqID = [n \in Nodes |-> 0]
  /\ history = [n \in Nodes |-> <<>>]

Local(r)     == req[r].entry = req[r].target
InForward(r) == req[r].pc \in {"do", "copy"}

\* A node's own requests that forward counts: those for its Ollama.
OwnAt(n) == {r \in Requests : InForward(r) /\ Local(r) /\ req[r].kind = "ollama"
                              /\ req[r].entry = n}

\* The counters wrap nowhere near the bound in the program; here a request that
\* could exceed it does not arrive.
InProgress == {r \in Requests : req[r] # NoReq \/ hop[r] # NoHop}
HasRoom    == \A n \in Nodes : \A k \in {served[n], reqID[n]} :
                 k + Cardinality(InProgress) < MaxRouted

\* Faulty variant: what is deferred is done at the end as well (TypeOK).
LeaveTwice(n) == /\ active' = [active EXCEPT ![n] = @ - 2]
                 /\ served' = [served EXCEPT ![n] = @ + 2]

\* Entering and leaving what is counted, at n: the deferred function of forward and
\* of the proxies.
Enter(n) == active' = [active EXCEPT ![n] = @ + 1] /\ UNCHANGED served
Leave(n) == /\ active' = [active EXCEPT ![n] = @ - 1]
            /\ served' = [served EXCEPT ![n] = @ + 1]

Goto(r, l) == req' = [req EXCEPT ![r].pc = l]

-----------------------------------------------------------------------------
(***************************************************************************)
(* Faulty variants.  Nothing below uses them: each stands for a slip in    *)
(* the code, and shows that the property named with it would notice.       *)
(***************************************************************************)

\* forward decrements at its end, which a failed Do does not reach
\* (ActiveLacksSelfDriven).
ReturnUncounted(r) ==
  /\ Goto(r, "end")
  /\ IF r \in OwnAt(req[r].entry) /\ req[r].pc = "copy"
     THEN Leave(req[r].entry) ELSE UNCHANGED <<active, served>>
  /\ UNCHANGED <<up, hop, reqID, history>>

\* finish numbers a request by the length of the history (HistoryAccounts).
DrawLength(r) ==
  /\ req[r].pc = "end"
  /\ reqID' = [reqID EXCEPT ![req[r].entry] = @ + 1]
  /\ req' = [req EXCEPT ![r] = [@ EXCEPT !.pc = "log",
                                         !.id = Len(history[req[r].entry]) + 1]]
  /\ UNCHANGED <<up, hop, active, served, history>>

\* The proxy's request to Ollama does not carry its client's context
\* (ForsakenIsReleased).
CutOffNever(r) == FALSE

-----------------------------------------------------------------------------
(***************************************************************************)
(* The entry                                                               *)
(***************************************************************************)

\* forward and forwardSplit reach client.Do: straight to the engine, or a hop.
Dispatch(r, q) ==
  /\ req' = [req EXCEPT ![r] = [q EXCEPT !.pc = "do"]]
  /\ IF q.entry # q.target
     THEN /\ hop' = [hop EXCEPT ![r] = [pc |-> "sent", from |-> q.entry,
                                        to |-> q.target, kind |-> q.kind]]
          /\ UNCHANGED <<active, served>>
     ELSE /\ IF q.kind = "ollama" THEN Enter(q.entry) ELSE UNCHANGED <<active, served>>
          /\ UNCHANGED hop
  /\ UNCHANGED <<up, reqID, history>>

\* handleInference has chosen: the target of Pick, or the driver of a plan.
Arrive(r, e, t, k) ==
  /\ e \in up /\ r \notin InProgress /\ HasRoom
  /\ LET q == [NoReq EXCEPT !.entry = e, !.target = t, !.kind = k] IN
     \/ k = "ollama" /\ Dispatch(r, q)
     \/ /\ k = "split"
        /\ req' = [req EXCEPT ![r] = [q EXCEPT !.pc = "ensure"]]
        /\ UNCHANGED <<up, hop, counters>>

\* EnsureLocal or ensureRemote returns ...
Ensured(r) == req[r].pc = "ensure" /\ Dispatch(r, req[r])

\* ... an error: the driver is gone, the client is, or the load fails.
EnsureFails(r) ==
  /\ req[r].pc = "ensure"
  /\ Goto(r, "end")
  /\ UNCHANGED <<up, hop, counters>>

\* client.Do returns an answer: the engine's, the proxy's refusal or its 502.
Headers(r) ==
  /\ req[r].pc = "do"
  /\ Local(r) \/ hop[r].pc \in {"stream", "done"}
  /\ Goto(r, "copy")
  /\ UNCHANGED <<up, hop, counters>>

\* forward returns, and what it has deferred runs.
Return(r) ==
  /\ Goto(r, "end")
  /\ IF r \in OwnAt(req[r].entry) THEN Leave(req[r].entry)
                                  ELSE UNCHANGED <<active, served>>
  /\ UNCHANGED <<up, hop, reqID, history>>

\* Nobody is behind the connection any more: the client has left, or the target.
Severed(r) == req[r].gone \/ (~Local(r) /\ hop[r] = NoHop)

\* Do fails (502): no connection, or it breaks; flushCopy stops at any error.
Broken(r) == InForward(r) /\ Severed(r) /\ Return(r)

\* The engine of this node refuses, ends its answer or dies, or the answer of the
\* proxy has been copied.
Answered(r) ==
  /\ ~Severed(r)
  /\ \/ InForward(r) /\ Local(r)
     \/ req[r].pc = "copy" /\ hop[r].pc = "done"
  /\ Return(r)

\* finish draws an ID, outside histMu ...
DrawID(r) ==
  /\ req[r].pc = "end"
  /\ LET e == req[r].entry IN
     /\ reqID' = [reqID EXCEPT ![e] = @ + 1]
     /\ req' = [req EXCEPT ![r] = [@ EXCEPT !.pc = "log", !.id = reqID[e] + 1]]
  /\ UNCHANGED <<up, hop, active, served, history>>

\* ... and record puts it first and cuts the end.
Record(r) ==
  /\ req[r].pc = "log"
  /\ LET e == req[r].entry
         longer == <<req[r].id>> \o history[e]
     IN history' = [history EXCEPT ![e] = IF Len(longer) > Keep
                                          THEN SubSeq(longer, 1, Keep) ELSE longer]
  /\ req' = [req EXCEPT ![r] = NoReq]
  /\ UNCHANGED <<up, hop, active, served, reqID>>

-----------------------------------------------------------------------------
(***************************************************************************)
(* The target                                                              *)
(***************************************************************************)

Admits(t, e) == Token[t] \in {NoToken, Token[e]}

\* handleProxy and handleLlamaProxy: 401, 503 if there is no ready pipeline, or
\* the request is counted and put to the engine.
Accept(r) ==
  /\ hop[r].pc = "sent"
  /\ \/ /\ Admits(hop[r].to, hop[r].from)
        /\ hop' = [hop EXCEPT ![r].pc = "run"]
        /\ Enter(hop[r].to)
     \/ /\ ~Admits(hop[r].to, hop[r].from) \/ hop[r].kind = "split"
        /\ hop' = [hop EXCEPT ![r].pc = "done"]
        /\ UNCHANGED <<active, served>>
  /\ UNCHANGED <<up, req, reqID, history>>

\* The engine's first bytes, or the proxy's own 502.
Stream(r) ==
  /\ hop[r].pc = "run"
  /\ hop' = [hop EXCEPT ![r].pc = "stream"]
  /\ UNCHANGED <<up, req, counters>>

\* The proxy's handler returns; h is what is left of the hop.
ProxyReturns(r, h) ==
  /\ hop[r].pc \in {"run", "stream"}
  /\ hop' = [hop EXCEPT ![r] = h]
  /\ Leave(hop[r].to)
  /\ UNCHANGED <<up, req, reqID, history>>

\* The answer has ended.
Served(r) == hop[r].pc = "stream" /\ ProxyReturns(r, [hop[r] EXCEPT !.pc = "done"])

\* The entry has closed the connection: the context of the proxy's request is
\* cancelled, and with it the one to the engine.
CutOff(r) == ~InForward(r) /\ ProxyReturns(r, NoHop)

\* The connection is closed with nothing running behind it.
Drop(r) ==
  /\ ~InForward(r) /\ hop[r].pc \in {"sent", "done"}
  /\ hop' = [hop EXCEPT ![r] = NoHop]
  /\ UNCHANGED <<up, req, counters>>

\* A hop to an agent that is down, or has been since, finds nobody.
Unreachable(r) ==
  /\ hop[r].pc = "sent" /\ hop[r].to \notin up
  /\ hop' = [hop EXCEPT ![r] = NoHop]
  /\ UNCHANGED <<up, req, counters>>

-----------------------------------------------------------------------------
(***************************************************************************)
(* Clients and agents                                                      *)
(***************************************************************************)

\* The client closes its connection: r.Context() is cancelled.
ClientLeaves(r) ==
  /\ req[r].pc \in {"ensure", "do", "copy"} /\ ~req[r].gone
  /\ req' = [req EXCEPT ![r].gone = TRUE]
  /\ UNCHANGED <<up, hop, counters>>

\* The agent's process ends: its handlers, counters and connections go.
AgentStops(n) ==
  /\ n \in up /\ up' = up \ {n}
  /\ req' = [r \in Requests |-> IF req[r].entry = n THEN NoReq ELSE req[r]]
  /\ hop' = [r \in Requests |-> IF hop[r].to = n THEN NoHop ELSE hop[r]]
  /\ active' = [active EXCEPT ![n] = 0] /\ served' = [served EXCEPT ![n] = 0]
  /\ reqID' = [reqID EXCEPT ![n] = 0]
  /\ history' = [history EXCEPT ![n] = <<>>]

AgentStarts(n) ==
  /\ n \notin up /\ up' = up \cup {n}
  /\ UNCHANGED <<req, hop, counters>>

EntryStep(r)  == \/ Ensured(r) \/ EnsureFails(r) \/ Headers(r) \/ Broken(r)
                 \/ Answered(r) \/ DrawID(r) \/ Record(r)
TargetStep(r) == \/ hop[r].to \in up /\ Accept(r)
                 \/ Stream(r) \/ Served(r) \/ CutOff(r) \/ Drop(r) \/ Unreachable(r)

Next ==
  \/ \E r \in Requests :
       \/ \E e, t \in Nodes, k \in Kinds : Arrive(r, e, t, k)
       \/ EntryStep(r) \/ TargetStep(r) \/ ClientLeaves(r)
  \/ \E n \in Nodes : AgentStops(n) \/ AgentStarts(n)

Spec == Init /\ [][Next]_vars

(***************************************************************************)
(* Goroutines are scheduled, and a closed connection is noticed, at the    *)
(* latest by TCP's keep-alive.  Nothing is asked of clients and engines:   *)
(* an answer may stream for ever, and a pipeline load for ever while its   *)
(* client waits.                                                           *)
(***************************************************************************)
Fairness ==
  \A r \in Requests :
    /\ WF_vars(req[r].gone /\ EnsureFails(r)) /\ WF_vars(Broken(r))
    /\ WF_vars(DrawID(r)) /\ WF_vars(Record(r))
    /\ WF_vars(CutOff(r)) /\ WF_vars(Drop(r)) /\ WF_vars(Unreachable(r))

FairSpec == Spec /\ Fairness

-----------------------------------------------------------------------------
(***************************************************************************)
(* Properties                                                              *)
(***************************************************************************)

\* The types, and who is behind what: a request that has gone to another node's
\* proxy is there for its own entry and target, a handler runs on an agent that is
\* up, and an agent that is down counts nothing.
TypeOK ==
  /\ up \subseteq Nodes
  /\ req \in [Requests -> [pc : PC, entry : Nodes \cup {NoNode}, kind : Kinds,
                           target : Nodes \cup {NoNode}, gone : BOOLEAN, id : Nat]]
  /\ hop \in [Requests -> [pc : {"none", "sent", "run", "stream", "done"}, kind : Kinds,
                           from : Nodes \cup {NoNode}, to : Nodes \cup {NoNode}]]
  /\ active \in [Nodes -> Nat] /\ served \in [Nodes -> Nat] /\ reqID \in [Nodes -> Nat]
  /\ history \in [Nodes -> Seq(Nat)]
  /\ \A r \in Requests :
       /\ req[r].pc = "idle" <=> req[r] = NoReq
       /\ req[r].pc = "idle" <=> req[r].entry = NoNode
       /\ req[r].entry \in up \cup {NoNode}
       /\ hop[r].pc = "none" <=> hop[r] = NoHop
       /\ hop[r].pc \in {"run", "stream"} => hop[r].to \in up
       /\ req[r].pc = "ensure" => hop[r] = NoHop
       /\ hop[r] # NoHop /\ InForward(r) =>
            ~Local(r) /\ hop[r].from = req[r].entry /\ hop[r].to = req[r].target

\* What n's engines, Ollama and llama-server, work on: its own requests and those its
\* proxies have let in.  Of these, forwardSplit counts none that n drives itself.
InEngine(n) ==
  {r \in Requests : \/ InForward(r) /\ Local(r) /\ req[r].entry = n
                    \/ hop[r].pc \in {"run", "stream"} /\ hop[r].to = n}
SelfDriven(n) ==
  {r \in Requests : InForward(r) /\ Local(r) /\ req[r].entry = n /\ req[r].kind = "split"}

\* Active, by which the other nodes balance, lacks the splits the node drives itself,
\* and nothing else: whoever leaves, fails, is refused or stops.  So it is neither
\* "the number of in-flight inference requests executing on this node's Ollama"
\* (gateway.go:105), for handleLlamaProxy counts too, nor all "in-flight inference
\* requests" (registry.go:65).
ActiveLacksSelfDriven ==
  \A n \in Nodes :
    active[n] + Cardinality(SelfDriven(n)) = Cardinality(InEngine(n))

\* A node's history is of the requests it has routed, each once: an ID that is not
\* in it is still to be recorded, or the history is full.
Numbered(n) == {history[n][i] : i \in DOMAIN history[n]}
Unlogged(n) == {req[r].id : r \in {q \in Requests : req[q].pc = "log" /\ req[q].entry = n}}
HistoryAccounts ==
  \A n \in Nodes :
    /\ Len(history[n]) <= Keep
    /\ Cardinality(Numbered(n)) = Len(history[n])
    /\ Numbered(n) \cap Unlogged(n) = {}
    /\ Numbered(n) \cup Unlogged(n) \subseteq 1..reqID[n]
    /\ Len(history[n]) < Keep => Numbered(n) \cup Unlogged(n) = 1..reqID[n]

\* What nobody waits for any more is released on both nodes: a request whose
\* client has left, or whose target or entry has stopped, gives back its handlers
\* and the engine it keeps busy.
Forsaken(r) ==
  \/ req[r].gone
  \/ InForward(r) /\ Severed(r)
  \/ req[r].pc = "idle" /\ hop[r] # NoHop
ForsakenIsReleased ==
  \A r \in Requests : Forsaken(r) ~> req[r] = NoReq /\ hop[r] = NoHop
=============================================================================
