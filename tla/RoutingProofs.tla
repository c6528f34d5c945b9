----------------------------- MODULE RoutingProofs -----------------------------
(***************************************************************************)
(* Proofs about Routing, for any snapshots and any model names.            *)
(***************************************************************************)
EXTENDS Routing, SchedulerProofs

-----------------------------------------------------------------------------
(***************************************************************************)
(* Names                                                                   *)
(***************************************************************************)

\* A name without a tag and the same name with ":latest" are the same model as the
\* same names.
LEMMA SameNames ==
  ASSUME NEW x, Name(x), NEW y \in WithLatest(x), NEW z, Name(z)
  PROVE  SameModel(z, y) <=> SameModel(z, x)
<1>1. x.tag = "" /\ y = [base |-> x.base, tag |-> "latest"]
  <2>1. x.tag = "" /\ y = [x EXCEPT !.tag = "latest"]
    BY DEF WithLatest
  <2> QED
    BY <2>1 DEF Name
<1>2. WithLatest(y) = {}
  BY <1>1 DEF WithLatest
<1>3. y \in WithLatest(z) <=> z = x
  <2>1. ASSUME z.tag = ""
        PROVE  WithLatest(z) = {[base |-> z.base, tag |-> "latest"]}
    <3>1. [z EXCEPT !.tag = "latest"] = [base |-> z.base, tag |-> "latest"]
      BY DEF Name
    <3> QED
      BY <2>1, <3>1 DEF WithLatest
  <2>2. ASSUME y \in WithLatest(z) PROVE z = x
    <3>1. z.tag = ""
      BY <2>2 DEF WithLatest
    <3>2. y = [base |-> z.base, tag |-> "latest"]
      BY <2>1, <2>2, <3>1
    <3>3. z.base = x.base
      <4>1. y.base = x.base
        BY <1>1
      <4>2. y.base = z.base
        BY <3>2
      <4> QED
        BY <4>1, <4>2
    <3> QED
      BY <1>1, <3>1, <3>3 DEF Name
  <2> QED
    BY <2>2
<1>4. x \notin WithLatest(z)
  <2>1. ASSUME x \in WithLatest(z) PROVE x.tag = "latest"
    BY <2>1 DEF WithLatest, Name
  <2> QED
    BY <1>1, <2>1
<1>5. z \in WithLatest(x) <=> z = y
  BY <1>1 DEF WithLatest, Name
<1> QED
  BY <1>2, <1>3, <1>4, <1>5 DEF SameModel

\* So the nodes have the same copies of the two, and the same in memory.
LEMMA SameCopies ==
  ASSUME NEW n, NodeState(n), NEW x, Name(x), NEW y \in WithLatest(x)
  PROVE  /\ Copies(n, y) = Copies(n, x)
         /\ HasModel(n, y) <=> HasModel(n, x)
         /\ HasLoaded(n, y) <=> HasLoaded(n, x)
<1>1. \A m \in n.models : SameModel(m.name, y) <=> SameModel(m.name, x)
  BY SameNames DEF NodeState
<1>2. \A l \in n.loaded : SameModel(l, y) <=> SameModel(l, x)
  BY SameNames DEF NodeState
<1>3. Copies(n, y) = Copies(n, x)
  BY <1>1 DEF Copies
<1> QED
  BY <1>2, <1>3 DEF HasModel, HasLoaded

LEMMA SameHolders ==
  ASSUME NEW s, Snapshot(s), NEW x, Name(x), NEW y \in WithLatest(x)
  PROVE  Holders(s, y) = Holders(s, x)
<1>1. \A n \in Eligible(s) : HasModel(n, y) <=> HasModel(n, x)
  BY SameCopies DEF Eligible, ToSet, Snapshot
<1> QED
  BY <1>1 DEF Holders

\* PlanSplit looks at the name only to find the holders and the model's size.
PlanFor(s, holders, size) ==
  LET limit == Need(size)
      drivers == {n \in holders : n.driver}
      Result(d, candidates) ==
        LET r == Recruit(d, candidates, limit)
        IN IF r.capacity < limit THEN [kind |-> "error"]
           ELSE [kind |-> "plan", driver |-> d, workers |-> r.workers]
  IN IF ~(size > 0 /\ \A n \in holders : Usable(n.mem) < limit) THEN {[kind |-> "none"]}
     ELSE IF drivers = {} THEN {[kind |-> "error"]}
     ELSE UNION {{Result(d, t) : t \in DescendingMem(Candidates(s, d))} :
                   d \in {t[1] : t \in DescendingMem(drivers)}}

LEMMA PlanSplitIs ==
  ASSUME NEW s, NEW x
  PROVE  PlanSplit(s, x) = PlanFor(s, Holders(s, x), ModelSize(s, x))
BY DEF PlanSplit, PlanFor, SplitNeeded, Drivers

LEMMA SameSize ==
  ASSUME NEW s, Snapshot(s), NEW x, Name(x), NEW y \in WithLatest(x)
  PROVE  ModelSize(s, y) = ModelSize(s, x)
<1>1. \A n \in Holders(s, x) : Copies(n, y) = Copies(n, x)
  BY SameCopies DEF Holders, Eligible, ToSet, Snapshot
<1>2. {Copies(n, y) : n \in Holders(s, y)} = {Copies(n, x) : n \in Holders(s, x)}
  BY <1>1, SameHolders
<1> QED
  BY <1>2 DEF ModelSize

LEMMA SamePlan ==
  ASSUME NEW s, Snapshot(s), NEW x, Name(x), NEW y \in WithLatest(x)
  PROVE  PlanSplit(s, y) = PlanSplit(s, x)
BY PlanSplitIs, SameHolders, SameSize

-----------------------------------------------------------------------------
(***************************************************************************)
(* The ranking                                                             *)
(***************************************************************************)

\* The candidates of Pick and the best of them.
Serving(s, x) == {i \in DOMAIN s : eligible(s[i]) /\ HasModel(s[i], x)}
Best(s, x) ==
  {i \in Serving(s, x) : ~\E j \in Serving(s, x) : RanksBefore(s[j], s[i], x)}

LEMMA PickIs == ASSUME NEW s, NEW x PROVE Pick(s, x) = s[Min(Best(s, x))]
BY DEF Pick, Best, Serving

LEMMA ServingType ==
  ASSUME NEW s, Snapshot(s), NEW x
  PROVE  /\ Serving(s, x) \in SUBSET Nat /\ IsFiniteSet(Serving(s, x))
         /\ Best(s, x) \in SUBSET Nat
         /\ Holders(s, x) = {s[i] : i \in Serving(s, x)}
<1>1. s \in Seq(ToSet(s)) /\ DOMAIN s = 1..Len(s) /\ Len(s) \in Nat
  BY DEF Snapshot
<1>2. IsFiniteSet(1..Len(s))
  BY <1>1, FS_Interval
<1>3. Serving(s, x) \in SUBSET (1..Len(s))
  BY <1>1 DEF Serving
<1>4. IsFiniteSet(Serving(s, x))
  BY <1>2, <1>3, FS_Subset
<1>5. Holders(s, x) = {s[i] : i \in Serving(s, x)}
  BY DEF Holders, Eligible, ToSet, Serving
<1> QED
  BY <1>1, <1>3, <1>4, <1>5 DEF Best

\* What Pick's less function compares.
LEMMA RanksBeforeIs ==
  ASSUME NEW x, NEW a, NEW b, {a.active, b.active} \subseteq Nat
  PROVE  RanksBefore(a, b, x) <=>
           \/ HasLoaded(a, x) /\ ~HasLoaded(b, x)
           \/ /\ HasLoaded(a, x) <=> HasLoaded(b, x)
              /\ a.active < b.active \/ (a.active = b.active /\ a.mem > b.mem)
<1>1. CASE HasLoaded(a, x) <=> HasLoaded(b, x)
  <2>1. HasLoaded(a, x) = HasLoaded(b, x)
    BY <1>1 DEF HasLoaded
  <2>2. RanksBefore(a, b, x) <=>
          IF a.active # b.active THEN a.active < b.active ELSE a.mem > b.mem
    BY <2>1 DEF RanksBefore
  <2> QED
    BY <1>1, <2>2
<1>2. CASE ~(HasLoaded(a, x) <=> HasLoaded(b, x))
  <2>1. HasLoaded(a, x) # HasLoaded(b, x)
    BY <1>2
  <2>2. RanksBefore(a, b, x) <=> HasLoaded(a, x)
    BY <2>1 DEF RanksBefore
  <2> QED
    BY <1>2, <2>2
<1> QED
  BY <1>1, <1>2

\* Pick's less function is an order: irreflexive and transitive.
LEMMA RankIsOrder ==
  ASSUME NEW x, NEW a, NodeState(a), NEW b, NodeState(b), NEW c, NodeState(c)
  PROVE  /\ ~RanksBefore(a, a, x)
         /\ RanksBefore(a, b, x) /\ RanksBefore(b, c, x) => RanksBefore(a, c, x)
<1>1. \A n \in {a, b, c} : n.active \in Nat /\ n.mem \in Nat /\ HasLoaded(n, x) \in BOOLEAN
  BY DEF NodeState, HasLoaded
<1> QED
  BY <1>1 DEF RanksBefore

\* Where there is a candidate there is a best one: whoever is outranked by the fewest is
\* outranked by none.
LEMMA BestExists ==
  ASSUME NEW s, Snapshot(s), NEW x, Serving(s, x) # {}
  PROVE  Best(s, x) # {}
<1> DEFINE C == Serving(s, x)
           Above(i) == {j \in C : RanksBefore(s[j], s[i], x)}
           Counts == {Cardinality(Above(i)) : i \in C}
<1>1. \A i \in C : NodeState(s[i])
  BY DEF Serving, Snapshot
<1>2. \A i \in C : /\ Above(i) \in SUBSET C /\ IsFiniteSet(Above(i))
                   /\ Cardinality(Above(i)) \in Nat
  BY ServingType, FS_Subset, FS_CardinalityType
<1>3. Counts \in SUBSET Nat /\ Counts # {}
  BY <1>2
<1> HIDE DEF Counts
<1>4. PICK c \in Counts : \A d \in Counts : c <= d
  BY <1>3, MinOf
<1>5. PICK i \in C : \A j \in C : Cardinality(Above(i)) <= Cardinality(Above(j))
  BY <1>4 DEF Counts
<1>6. ASSUME NEW j \in C, RanksBefore(s[j], s[i], x) PROVE FALSE
  <2>1. NodeState(s[i]) /\ NodeState(s[j])
    BY <1>1
  <2>2. Above(j) \subseteq Above(i)
    BY <1>1, <1>6, RankIsOrder
  <2>3. j \in Above(i) /\ j \notin Above(j)
    BY <1>6, <2>1, RankIsOrder
  <2>4. Cardinality(Above(j)) <= Cardinality(Above(i))
        /\ Cardinality(Above(j)) # Cardinality(Above(i))
    BY <1>2, <2>2, <2>3, FS_Subset
  <2>5. /\ Cardinality(Above(i)) <= Cardinality(Above(j))
        /\ Cardinality(Above(i)) \in Nat /\ Cardinality(Above(j)) \in Nat
    BY <1>2, <1>5, <1>6
  <2> HIDE DEF Above
  <2> QED
    BY <2>4, <2>5
<1> QED
  BY <1>6 DEF Best

\* Pick's node is the first of the best.
LEMMA PickIsFirst ==
  ASSUME NEW s, Snapshot(s), NEW x, Holders(s, x) # {}
  PROVE  \E p \in Best(s, x) : Pick(s, x) = s[p] /\ \A i \in Best(s, x) : p <= i
<1>1. Serving(s, x) # {}
  BY ServingType
<1>2. Min(Best(s, x)) \in Best(s, x) /\ \A i \in Best(s, x) : Min(Best(s, x)) <= i
  BY <1>1, BestExists, ServingType, MinOf
<1> QED
  BY <1>2, PickIs

-----------------------------------------------------------------------------
(***************************************************************************)
(* The decision                                                            *)
(***************************************************************************)

\* A request keeps the snapshot it has read; who has the model is in none of the two
\* cases without a node.
Decided ==
  route # Unset =>
    LET holders == Holders(nodes, request.model) IN
    \/ route.kind = "notFound" /\ holders = {}
    \/ route.kind = "pick" /\ holders # {} /\ route.node = Pick(nodes, request.model)
    \/ route.kind = "plan" /\ holders # {} /\ route \in PlanSplit(nodes, request.model)

Inv == nodes \in Views /\ request \in Requests /\ Decided

LEMMA Read ==
  ASSUME Inv
  PROVE  Snapshot(nodes) /\ Name(request.model)
BY ViewsAssumption DEF Inv, Requests

\* Nobody's model is not split.
LEMMA PlanHasHolder ==
  ASSUME NEW s, NEW x, NEW plan \in PlanSplit(s, x), plan.kind = "plan"
  PROVE  Holders(s, x) # {}
<1> SUFFICES ASSUME Holders(s, x) = {} PROVE FALSE
  OBVIOUS
<1>1. {n \in Holders(s, x) : n.driver} = {}
  OBVIOUS
<1>2. PlanSplit(s, x) \subseteq {[kind |-> "none"], [kind |-> "error"]}
  BY <1>1 DEF PlanSplit, Drivers
<1> QED
  BY <1>2

LEMMA InvStep == Inv /\ [Next]_vars => Inv'
<1> SUFFICES ASSUME Inv, [Next]_vars PROVE Inv'
  OBVIOUS
<1>1. CASE Split
  <2>1. UNCHANGED <<nodes, request>>
    BY <1>1 DEF Split
  <2>2. route' \in PlanSplit(nodes, request.model) /\ route'.kind = "plan"
    BY <1>1 DEF Split
  <2>3. Holders(nodes, request.model) # {}
    BY <2>2, PlanHasHolder
  <2> QED
    BY <2>1, <2>2, <2>3 DEF Inv, Decided
<1>2. CASE Single
  <2>1. UNCHANGED <<nodes, request>>
    BY <1>2 DEF Single
  <2>2. route' = IF Holders(nodes, request.model) = {} THEN [kind |-> "notFound"]
                 ELSE [kind |-> "pick", node |-> Pick(nodes, request.model)]
    BY <1>2 DEF Single
  <2> QED
    BY <2>1, <2>2 DEF Inv, Decided
<1>3. CASE UNCHANGED vars
  BY <1>3 DEF vars, Inv, Decided
<1> QED
  BY <1>1, <1>2, <1>3 DEF Next

LEMMA SpecInv == Spec => []Inv
<1>1. Init => Inv
  BY DEF Init, Inv, Decided
<1> QED
  BY <1>1, InvStep, PTL DEF Spec

\* A name without a tag and the same name with ":latest" get the same plans, the same
\* candidates and the same node, in every snapshot of any pool.
THEOREM NamesAlwaysAgree == Spec => []NamesAgree
<1>1. Inv => NamesAgree
  <2> SUFFICES ASSUME Inv, NEW y \in WithLatest(request.model)
               PROVE  /\ PlanSplit(nodes, y) = PlanSplit(nodes, request.model)
                      /\ Holders(nodes, y) = Holders(nodes, request.model)
                      /\ Pick(nodes, y) = Pick(nodes, request.model)
    BY DEF NamesAgree
  <2>1. Snapshot(nodes) /\ Name(request.model)
    BY Read
  <2>2. \A i \in DOMAIN nodes : /\ HasModel(nodes[i], y) <=> HasModel(nodes[i], request.model)
                                /\ HasLoaded(nodes[i], y) <=> HasLoaded(nodes[i], request.model)
    BY <2>1, SameCopies DEF Snapshot
  <2>3. Serving(nodes, y) = Serving(nodes, request.model)
    BY <2>2 DEF Serving
  <2>4. \A i, j \in DOMAIN nodes : RanksBefore(nodes[i], nodes[j], y)
                                     <=> RanksBefore(nodes[i], nodes[j], request.model)
    BY <2>1, <2>2, RanksBeforeIs DEF Snapshot, NodeState
  <2>5. Best(nodes, y) = Best(nodes, request.model)
    BY <2>3, <2>4 DEF Best, Serving
  <2>6. Pick(nodes, y) = Pick(nodes, request.model)
    BY <2>5, PickIs
  <2> QED
    BY <2>1, <2>6, SamePlan, SameHolders
<1> QED
  BY SpecInv, <1>1, PTL

\* Pick's node has the model in memory if one does, the fewest requests among those, the
\* most memory among those, and nobody as good is listed before it: the sort by a less
\* function of three criteria is the ranking, and the stable sort the tie-break.
THEOREM PickAlwaysFollowsRanking == Spec => []PickFollowsRanking
<1>1. Inv => PickFollowsRanking
  <2> SUFFICES ASSUME Inv, route # Unset, route.kind = "pick" PROVE PickFollowsRanking
    BY DEF PickFollowsRanking
  <2> DEFINE model == request.model
             holders == Holders(nodes, model)
             warm == {n \in holders : HasLoaded(n, model)}
             pool == IF warm # {} THEN warm ELSE holders
             free == {n \in pool : \A o \in pool : n.active <= o.active}
             best == {n \in free : \A o \in free : n.mem >= o.mem}
  <2>1. Snapshot(nodes) /\ holders # {} /\ route.node = Pick(nodes, model)
    BY Read DEF Inv, Decided
  <2>2. PICK p \in Best(nodes, model) : route.node = nodes[p] /\ \A i \in Best(nodes, model) : p <= i
    BY <2>1, PickIsFirst
  <2>3. holders = {nodes[i] : i \in Serving(nodes, model)}
        /\ Best(nodes, model) \in SUBSET Nat
    BY <2>1, ServingType
  <2>4. \A n \in holders : n.active \in Nat /\ n.mem \in Nat
    BY <2>1, <2>3 DEF Serving, Snapshot, NodeState
  <2>5. p \in Serving(nodes, model) /\ nodes[p] \in holders
        /\ \A o \in holders : ~RanksBefore(o, nodes[p], model)
    BY <2>2, <2>3 DEF Best
  <2>6. nodes[p] \in pool
    BY <2>4, <2>5, RanksBeforeIs
  <2>7. nodes[p] \in free
    BY <2>4, <2>5, <2>6, RanksBeforeIs
  <2>8. nodes[p] \in best
    BY <2>4, <2>5, <2>7, RanksBeforeIs
  <2>9. ASSUME NEW i \in DOMAIN nodes, NEW j \in DOMAIN nodes,
               nodes[j] = route.node, nodes[i] \in best
        PROVE  j <= i
    <3>1. j = p
      BY <2>1, <2>2, <2>5, <2>9 DEF Snapshot, Serving
    <3>2. i \in Serving(nodes, model)
      <4>1. nodes[i] \in holders
        BY <2>9
      <4> QED
        BY <2>9, <4>1 DEF Holders, Eligible, Serving
    <3>3. \A o \in holders : ~RanksBefore(o, nodes[i], model)
      BY <2>4, <2>9, RanksBeforeIs
    <3>4. i \in Best(nodes, model)
      BY <2>3, <3>2, <3>3 DEF Best
    <3> QED
      BY <2>2, <3>1, <3>4
  <2> QED
    BY <2>2, <2>8, <2>9 DEF PickFollowsRanking
<1> QED
  BY SpecInv, <1>1, PTL

\* The two listings have the same names, and a name is turned away if and only if no name
\* listed is the same model.
THEOREM ListedIsAlwaysServed == Spec => []ListedIsServed
<1>1. ASSUME NEW s PROVE {d.name : d \in PoolModelDetails(s)} = PoolModels(s)
  <2> DEFINE served == {i \in DOMAIN s : eligible(s[i])}
             At(name) == {i \in served : \E m \in s[i].models : m.name = name}
             First(name) == CHOOSE m \in s[Min(At(name))].models : m.name = name
             Detail(name) == [name |-> name, size |-> First(name).size,
                              nodes |-> {s[i].id : i \in At(name)}]
             Named == UNION {{m.name : m \in s[i].models} : i \in served}
  <2>1. PoolModelDetails(s) = {Detail(name) : name \in Named}
    BY DEF PoolModelDetails
  <2>2. \A name : Detail(name).name = name
    OBVIOUS
  <2>3. Named = PoolModels(s)
    BY DEF PoolModels, Eligible, ToSet
  <2> HIDE DEF Detail, Named
  <2>4. {d.name : d \in {Detail(name) : name \in Named}} = Named
    BY <2>2
  <2> QED
    BY <2>1, <2>3, <2>4
<1>2. ASSUME NEW s, NEW x
      PROVE  Holders(s, x) = {} <=> ~\E name \in PoolModels(s) : SameModel(name, x)
  BY DEF Holders, HasModel, Copies, PoolModels
<1>3. Inv => ListedIsServed
  BY <1>1, <1>2 DEF Inv, Decided, ListedIsServed
<1> QED
  BY SpecInv, <1>3, PTL

\* The states of a snapshot are those PlanSplit expects.
LEMMA ReadStates == ASSUME Inv PROVE States(nodes)
BY Read DEF Snapshot, States, ToSet

LEMMA Planned ==
  ASSUME Inv, route # Unset, route.kind = "plan"
  PROVE  LET d == route.driver
             C == Candidates(nodes, d)
         IN /\ SplitNeeded(nodes, request.model) /\ d \in Drivers(nodes, request.model)
            /\ \E s \in DescendingMem(C), j \in 0..Cardinality(C) :
                 /\ route.workers = [i \in 1..j |-> s[i]]
                 /\ Usable(d.mem) + UsableOf(Team(s, j)) >= need
                 /\ j > 0 => Usable(d.mem) + UsableOf(Team(s, j - 1)) < need
BY ReadStates, PlanIs DEF Inv, Decided, need

\* A driver is not among its candidates, and they are finitely many.
LEMMA WithDriver ==
  ASSUME Inv, NEW d \in Drivers(nodes, request.model),
         NEW W \in SUBSET Candidates(nodes, d)
  PROVE  /\ IsFiniteSet(Candidates(nodes, d)) /\ Sized(Candidates(nodes, d))
         /\ Usable(d.mem) \in Nat /\ UsableOf(W) \in Nat
         /\ UsableOf(W \cup {d}) = Usable(d.mem) + UsableOf(W)
<1>1. /\ IsFiniteSet(Eligible(nodes)) /\ Sized(Eligible(nodes))
      /\ Candidates(nodes, d) \in SUBSET Eligible(nodes) /\ d \in Eligible(nodes)
      /\ W \cup {d} \in SUBSET Eligible(nodes)
  BY ReadStates, EligibleType DEF Candidates, Drivers, Holders
<1>2. d \notin W /\ (W \cup {d}) \ {d} = W
  BY DEF Candidates
<1>3. \A V \in SUBSET Eligible(nodes) : IsFiniteSet(V) /\ Sized(V)
  BY <1>1, FS_Subset DEF Sized
<1>4. UsableOf(W) \in Nat
  BY <1>1, <1>3, UsableSum
<1>5. UsableOf(W \cup {d}) = Usable(d.mem) + UsableOf(W)
  BY <1>1, <1>2, <1>3, UsableSum
<1> QED
  BY <1>1, <1>3, <1>4, <1>5, UsableType DEF Sized

\* On every snapshot: the driver of a plan can load the model and the workers can lend
\* memory, each is there once, there is room enough between them, and no holder has room
\* alone, whatever the order of equals that sort.Slice has produced.
THEOREM PlanIsAlwaysAdequate == Spec => []PlanIsAdequate
<1>1. Inv => PlanIsAdequate
  <2> SUFFICES ASSUME Inv, route # Unset, route.kind = "plan" PROVE PlanIsAdequate
    BY DEF PlanIsAdequate
  <2> DEFINE d == route.driver
             C == Candidates(nodes, d)
             n == Cardinality(C)
  <2>1. d \in Drivers(nodes, request.model) /\ SplitNeeded(nodes, request.model)
    BY Planned
  <2>2. PICK s \in DescendingMem(C), j \in 0..n :
          /\ route.workers = [i \in 1..j |-> s[i]]
          /\ Usable(d.mem) + UsableOf(Team(s, j)) >= need
    BY Planned
  <2>3. IsFiniteSet(C) /\ Sized(C) /\ n \in Nat
    BY <2>1, WithDriver, FS_CardinalityType
  <2>4. Grows(s, n, C)
    BY <2>3, Descending, TeamGrows
  <2>5. ToSet(route.workers) = Team(s, j) /\ Len(route.workers) = j
    BY <2>2, <2>3 DEF ToSet, Team
  <2>6. Team(s, j) \in SUBSET C /\ Cardinality(Team(s, j)) = j
    BY <2>4 DEF Grows
  <2>7. UsableOf(Team(s, j) \cup {d}) >= need
    BY <2>1, <2>2, <2>6, WithDriver
  <2> QED
    BY <2>1, <2>5, <2>6, <2>7 DEF PlanIsAdequate, SplitNeeded, need
<1> QED
  BY SpecInv, <1>1, PTL

\* On every snapshot: no smaller set of candidates would do for the driver of a plan.
THEOREM PlanIsAlwaysFrugal == Spec => []PlanIsFrugal
<1>1. Inv => PlanIsFrugal
  <2> SUFFICES ASSUME Inv, route # Unset, route.kind = "plan",
                      NEW W \in SUBSET Candidates(nodes, route.driver),
                      UsableOf(W \cup {route.driver}) >= need,
                      ~(Cardinality(W) >= Len(route.workers))
               PROVE  FALSE
    BY DEF PlanIsFrugal
  <2> DEFINE d == route.driver
             C == Candidates(nodes, d)
             n == Cardinality(C)
             k == Cardinality(W)
  <2>1. d \in Drivers(nodes, request.model)
    BY Planned
  <2>2. PICK s \in DescendingMem(C), j \in 0..n :
          /\ route.workers = [i \in 1..j |-> s[i]]
          /\ j > 0 => Usable(d.mem) + UsableOf(Team(s, j - 1)) < need
    BY Planned
  <2>3. IsFiniteSet(C) /\ Sized(C) /\ n \in Nat /\ k \in Nat
    BY <2>1, WithDriver, FS_Subset, FS_CardinalityType
  <2>4. Grows(s, n, C)
    BY <2>3, Descending, TeamGrows
  <2>5. Len(route.workers) = j /\ 0 <= k /\ k <= j - 1 /\ j - 1 \in 0..n
    BY <2>2, <2>3
  <2>6. UsableOf(W) <= UsableOf(Team(s, k))
    BY <2>3, FirstAreBest
  <2>7. UsableOf(Team(s, k)) <= UsableOf(Team(s, j - 1))
    <3> HIDE DEF C, n, k
    <3>1. Team(s, k) \in SUBSET Team(s, j - 1)
      BY <2>3, <2>5 DEF Team
    <3>2. IsFiniteSet(Team(s, j - 1)) /\ Sized(Team(s, j - 1))
      BY <2>3, <2>4, <2>5 DEF Grows, Sized
    <3> QED
      BY <3>1, <3>2, UsableGrows
  <2>8. UsableOf(Team(s, k)) \in Nat /\ UsableOf(Team(s, j - 1)) \in Nat
    <3> HIDE DEF C, n, k
    <3> QED
      BY <2>3, <2>4, <2>5 DEF Grows
  <2>9. /\ Usable(d.mem) \in Nat /\ UsableOf(W) \in Nat /\ need \in Nat
        /\ Usable(d.mem) + UsableOf(W) >= need
    <3>1. UsableOf(W \cup {d}) = Usable(d.mem) + UsableOf(W)
      BY <2>1, WithDriver
    <3>2. need \in Nat
      BY ReadStates, ModelSizeType DEF need, Need
    <3> QED
      BY <2>1, <3>1, <3>2, WithDriver
  <2>10. Usable(d.mem) + UsableOf(Team(s, j - 1)) < need
    BY <2>2, <2>5
  <2> HIDE DEF d, C, n, k
  <2> QED
    BY <2>6, <2>7, <2>8, <2>9, <2>10
<1> QED
  BY SpecInv, <1>1, PTL
================================================================================
