------------------------------- MODULE Routing -------------------------------
(***************************************************************************)
(* How a gateway routes an inference request: handleInference of           *)
(* internal/gateway/gateway.go on top of the scheduler's decisions.        *)
(***************************************************************************)
EXTENDS Scheduler

CONSTANTS
  Views,   \* the snapshots of the pool a request can find
  Models,  \* the model names a request can carry
  Unset    \* no decision yet

\* Registry.Snapshot: the registry holds one state for each ID.
Snapshot(s) ==
  /\ s \in Seq(ToSet(s))
  /\ \A i \in DOMAIN s : NodeState(s[i])
  /\ \A i, j \in DOMAIN s : s[i].id = s[j].id => i = j

ASSUME ViewsAssumption == (\A s \in Views : Snapshot(s)) /\ (\A x \in Models : Name(x))

VARIABLES
  nodes,    \* g.pool.Nodes(), read once
  request,  \* the model, and whether the path begins with /v1/
  route     \* the decision

vars == <<nodes, request, route>>

Requests == [model : Models, v1 : BOOLEAN]

Init == nodes \in Views /\ request \in Requests /\ route = Unset

\* OpenAI requests are offered to PlanSplit; a plan goes to forwardSplit.
Split ==
  /\ route = Unset /\ request.v1
  /\ \E plan \in PlanSplit(nodes, request.model) :
       plan.kind = "plan" /\ route' = plan
  /\ UNCHANGED <<nodes, request>>

\* Everything else, a failed PlanSplit included, goes to Pick and forward.
Single ==
  /\ route = Unset
  /\ request.v1 => \E plan \in PlanSplit(nodes, request.model) : plan.kind # "plan"
  /\ route' = IF Holders(nodes, request.model) = {} THEN [kind |-> "notFound"]
              ELSE [kind |-> "pick", node |-> Pick(nodes, request.model)]
  /\ UNCHANGED <<nodes, request>>

Next == Split \/ Single
Spec == Init /\ [][Next]_vars

-----------------------------------------------------------------------------
(***************************************************************************)
(* Properties                                                              *)
(***************************************************************************)
need == Need(ModelSize(nodes, request.model))

\* A plan is one that forwardSplit can carry out: a driver that has the weights
\* and llama-server, distinct workers that lend memory, all of them sharing and
\* fresh, room enough between them, and no holder that has room alone.
PlanIsAdequate ==
  route # Unset /\ route.kind = "plan" =>
    LET workers == ToSet(route.workers) IN
    /\ route.driver \in Drivers(nodes, request.model)
    /\ workers \subseteq Candidates(nodes, route.driver)
    /\ Cardinality(workers) = Len(route.workers)
    /\ UsableOf(workers \cup {route.driver}) >= need
    /\ \A n \in Holders(nodes, request.model) : Usable(n.mem) < need

\* "Recruit workers by free memory until the plan fits" involves as few machines
\* as the driver can do with: every worker is another one that can fail.
PlanIsFrugal ==
  route # Unset /\ route.kind = "plan" =>
    \A W \in SUBSET Candidates(nodes, route.driver) :
      UsableOf(W \cup {route.driver}) >= need => Cardinality(W) >= Len(route.workers)

\* The package's ranking: a node with the model in memory if there is one, the
\* fewest requests in flight among those, the most memory among those, and the
\* snapshot's order, self first, to break the tie.
PickFollowsRanking ==
  route # Unset /\ route.kind = "pick" =>
    LET model == request.model
        holders == Holders(nodes, model)
        warm == {n \in holders : HasLoaded(n, model)}
        pool == IF warm # {} THEN warm ELSE holders
        free == {n \in pool : \A o \in pool : n.active <= o.active}
        best == {n \in free : \A o \in free : n.mem >= o.mem}
    IN /\ route.node \in best
       /\ \A i, j \in DOMAIN nodes :
            nodes[j] = route.node /\ nodes[i] \in best => j <= i

\* "x" and "x:latest" are routed alike.
NamesAgree ==
  \A name \in WithLatest(request.model) :
    /\ PlanSplit(nodes, name) = PlanSplit(nodes, request.model)
    /\ Holders(nodes, name) = Holders(nodes, request.model)
    /\ Holders(nodes, name) # {} => Pick(nodes, name) = Pick(nodes, request.model)

\* GET /v1/models and GET /api/tags list the same names, and a request is turned
\* away with "no node in the pool has model" if and only if they do not list it.
ListedIsServed ==
  /\ {d.name : d \in PoolModelDetails(nodes)} = PoolModels(nodes)
  /\ route # Unset =>
       (route.kind = "notFound" <=>
          ~\E name \in PoolModels(nodes) : SameModel(name, request.model))
=============================================================================
