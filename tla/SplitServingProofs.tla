-------------------------- MODULE SplitServingProofs --------------------------
(***************************************************************************)
(* Proofs about SplitServing, for any nodes and memories, any size of the  *)
(* model, and any number of requests and of faults.                        *)
(***************************************************************************)
EXTENDS SplitServing, SchedulerProofs, SequenceTheorems

Plain  == [base |-> Base, tag |-> ""]
Tagged == [base |-> Base, tag |-> "latest"]

\* What the pipeline of name k has of node n's memory.
Held(k, n) == IF pipe[k] = None THEN 0 ELSE pipe[k].share[n]

\* The states of a call; in progress it is for one of the names.
CallStates ==
  {r \in [pc : {"idle", "recruit", "wait", "serve"}, name : Names \cup {None},
          plan : Seq(Workers), todo : Seq(Workers), got : SUBSET Workers,
          asSeen : BOOLEAN, owner : BOOLEAN] :
     r.pc # "idle" => r.name \in Names}

\* TypeOK without the memory's balance.
Types ==
  /\ sharing \in [Nodes -> BOOLEAN]
  /\ rpc \subseteq Workers
  /\ seen \in Reports
  /\ call \in [Calls -> CallStates]
  /\ pipe \in [Names -> Pipelines \cup {None}]
  /\ free \in [Nodes -> Nat]

\* What a node has is free or one of the two pipelines has it.
Balance == \A n \in Nodes : Total[n] = free[n] + Held(Plain, n) + Held(Tagged, n)

\* A pipeline has nothing before it has loaded, and nothing of a node that is neither
\* the driver nor one of its workers.
SharesFollow ==
  \A k \in Names : pipe[k] # None =>
    /\ pipe[k].state = "loading" => pipe[k].share = NoShare
    /\ \A n \in Nodes : n \notin pipe[k].workers \cup {Driver} => pipe[k].share[n] = 0

\* As long as no memory has been taken since, the nodes of a plan have room.
RoomAsPlanned ==
  \A c \in Calls : call[c].asSeen => Sum(free, Range(call[c].plan) \cup {Driver}) >= Need(Size)

Inv == Types /\ Balance /\ SharesFollow /\ RoomAsPlanned

-----------------------------------------------------------------------------
(***************************************************************************)
(* Constants                                                               *)
(***************************************************************************)

LEMMA NamesAre == Names = {Plain, Tagged} /\ Plain # Tagged
<1>1. Plain.tag # Tagged.tag
  BY DEF Plain, Tagged
<1> QED
  BY <1>1 DEF Names, Plain, Tagged

LEMMA NodesFinite == IsFiniteSet(Nodes)
<1>1. Len(NodeSeq) \in Nat /\ NodeSeq \in [1..Len(NodeSeq) -> Nodes]
  BY NodesAssumption
<1>2. NodeSeq \in Surjection(1..Len(NodeSeq), Nodes)
  BY <1>1 DEF Surjection, Nodes, Range
<1> QED
  BY <1>1, <1>2, FS_Interval, FS_Surjection

LEMMA TotalBound == \A n \in Nodes : Max(Range(Total)) \in Nat /\ Total[n] <= Max(Range(Total))
<1> DEFINE R == Range(Total)
<1>1. Total \in Surjection(Nodes, R)
  BY MemoryAssumption DEF Surjection, Range
<1>2. IsFiniteSet(R) /\ R \in SUBSET Nat /\ \A n \in Nodes : Total[n] \in R
  BY <1>1, NodesFinite, FS_Surjection, MemoryAssumption DEF Range
<1> HIDE DEF R
<1> SUFFICES ASSUME NEW n \in Nodes PROVE Max(R) \in Nat /\ Total[n] <= Max(R)
  BY DEF R
<1>3. Max(R) \in R /\ Total[n] <= Max(R)
  BY <1>2, MaxOf
<1> QED
  BY <1>2, <1>3

\* A sum over the two names.
LEMMA SumOfTwo ==
  ASSUME NEW f, Numbers(f, Names)
  PROVE  Sum(f, Names) = f[Plain] + f[Tagged]
<1>1. /\ IsFiniteSet({}) /\ IsFiniteSet({Tagged}) /\ IsFiniteSet({Plain, Tagged})
      /\ {Plain, Tagged} \ {Plain} = {Tagged} /\ {Tagged} \ {Tagged} = {}
  BY NamesAre, FS_EmptySet, FS_AddElement
<1>2. Numbers(f, {Plain, Tagged}) /\ Numbers(f, {Tagged})
  BY NamesAre DEF Numbers
<1>3. Sum(f, {Plain, Tagged}) = f[Plain] + Sum(f, {Tagged})
  BY <1>1, <1>2, SumOf
<1>4. Sum(f, {Tagged}) = f[Tagged] + Sum(f, {}) /\ Sum(f, {}) = 0
  BY <1>1, <1>2, SumOf
<1>5. f[Plain] \in Nat /\ f[Tagged] \in Nat
  BY <1>2 DEF Numbers
<1> QED
  BY <1>3, <1>4, <1>5, NamesAre

LEMMA HeldType == ASSUME Types PROVE \A k \in Names, n \in Nodes : Held(k, n) \in Nat
BY DEF Types, Held, Pipelines

LEMMA TypeOKIs == ASSUME Types PROVE TypeOK <=> Balance
<1>1. ASSUME NEW n \in Nodes
      PROVE  Sum([k \in Names |-> IF pipe[k] = None THEN 0 ELSE pipe[k].share[n]], Names)
               = Held(Plain, n) + Held(Tagged, n)
  <2> DEFINE f == [k \in Names |-> IF pipe[k] = None THEN 0 ELSE pipe[k].share[n]]
  <2>1. \A k \in Names : f[k] = Held(k, n)
    BY DEF Held
  <2>2. Numbers(f, Names) /\ f[Plain] = Held(Plain, n) /\ f[Tagged] = Held(Tagged, n)
    BY <2>1, HeldType, NamesAre DEF Numbers
  <2> HIDE DEF f
  <2>3. Sum(f, Names) = f[Plain] + f[Tagged]
    BY <2>2, SumOfTwo
  <2> QED
    BY <2>2, <2>3 DEF f
<1>2. \A n \in Nodes : /\ free[n] \in Nat /\ Held(Plain, n) \in Nat /\ Held(Tagged, n) \in Nat
  BY HeldType, NamesAre DEF Types
<1>3. \A n \in Nodes : free[n] + (Held(Plain, n) + Held(Tagged, n))
                         = free[n] + Held(Plain, n) + Held(Tagged, n)
  BY <1>2
<1> QED
  BY <1>1, <1>3 DEF TypeOK, Types, Balance, CallStates

-----------------------------------------------------------------------------
(***************************************************************************)
(* Plans                                                                   *)
(***************************************************************************)

\* What PlanSplit reads of a node.
View(n) == [id |-> n, sharing |-> seen[n].sharing, ollamaOK |-> TRUE, age |-> 0,
            models |-> IF n = Driver THEN {[name |-> p, size |-> Size] : p \in Store} ELSE {},
            loaded |-> {}, active |-> 0, mem |-> seen[n].mem,
            worker |-> TRUE, driver |-> n = Driver]

LEMMA SeenType ==
  ASSUME Types
  PROVE  \A n \in Nodes : seen[n].sharing \in BOOLEAN /\ seen[n].mem \in Nat
BY DEF Types, Reports

LEMMA ViewIs ==
  ASSUME Types
  PROVE  /\ States(Snapshot(seen))
         /\ \A v \in ToSet(Snapshot(seen)) : v.id \in Nodes /\ v = View(v.id)
<1> DEFINE s == Snapshot(seen)
<1>1. s = [i \in DOMAIN NodeSeq |-> View(NodeSeq[i])]
  BY DEF Snapshot, View
<1>2. Len(NodeSeq) \in Nat /\ NodeSeq \in [1..Len(NodeSeq) -> Nodes]
  BY NodesAssumption
<1> HIDE DEF s
<1>3. ToSet(s) \in SUBSET {View(n) : n \in Nodes} /\ s \in Seq(ToSet(s))
  <2>1. s = [i \in 1..Len(NodeSeq) |-> View(NodeSeq[i])]
    BY <1>1, <1>2
  <2>2. \A i \in 1..Len(NodeSeq) : NodeSeq[i] \in Nodes
    BY <1>2
  <2> QED
    BY <2>1, <2>2, <1>2 DEF ToSet
<1>4. ASSUME NEW n \in Nodes PROVE NodeState(View(n)) /\ View(n).id = n
  <2> DEFINE m == View(n).models
  <2>1. m = {} \/ m = {[name |-> Tagged, size |-> Size]}
    BY DEF View, Store, Tagged
  <2>2. IsFiniteSet(m)
    BY <2>1, FS_EmptySet, FS_Singleton
  <2>3. \A x \in m : x.size \in Nat /\ Name(x.name)
    BY <2>1, MemoryAssumption DEF Tagged, Name
  <2>4. /\ View(n).id = n /\ View(n).loaded = {} /\ View(n).age = 0 /\ View(n).active = 0
        /\ View(n).mem \in Nat /\ View(n).sharing \in BOOLEAN /\ View(n).ollamaOK
        /\ View(n).worker /\ View(n).driver \in BOOLEAN
    BY SeenType DEF View
  <2> HIDE DEF m
  <2>5. /\ {View(n).sharing, View(n).ollamaOK, View(n).worker, View(n).driver} \subseteq BOOLEAN
        /\ {View(n).age, View(n).active, View(n).mem} \cup {x.size : x \in m} \subseteq Nat
    BY <2>3, <2>4
  <2>6. \A x \in View(n).loaded \cup {y.name : y \in m} : Name(x)
    BY <2>3, <2>4
  <2> QED
    BY <2>2, <2>4, <2>5, <2>6 DEF NodeState, m
<1> QED
  BY <1>3, <1>4 DEF States, s

\* The views of some of a plan's workers, taken from the front, and their names.
Ids(s, k) == {s[i].id : i \in 1..k}

\* Nodes that have at least the memory they have reported can lend at least what
\* they were reckoned with.
LEMMA IdsHaveRoom ==
  ASSUME Types, NEW S \in SUBSET ToSet(Snapshot(seen)), Sized(S), NEW n \in Nat,
         NEW s \in [1..n -> S], Distinct(s, n), NEW j \in 0..n,
         \A i \in 1..j : free[s[i].id] >= seen[s[i].id].mem
  PROVE  /\ IsFiniteSet(Ids(s, j)) /\ Ids(s, j) \in SUBSET Nodes
         /\ Sum(free, Ids(s, j)) \in Nat
         /\ Sum(free, Ids(s, j)) >= UsableOf(Team(s, j))
<1>1. Grows(s, n, S)
  BY TeamGrows
<1>2. \A i \in 1..n : /\ s[i].id \in Nodes /\ s[i] = View(s[i].id)
                      /\ s[i].mem = seen[s[i].id].mem /\ s[i].mem \in Nat
  <2>1. \A i \in 1..n : s[i].id \in Nodes /\ s[i] = View(s[i].id) /\ s[i].mem \in Nat
    BY ViewIs DEF Sized
  <2>2. \A m \in Nodes : View(m).mem = seen[m].mem
    BY DEF View
  <2> QED
    BY <2>1, <2>2
<1>3. \A m \in Nodes : free[m] \in Nat
  BY DEF Types
<1>4. \A k \in 0..n : Ids(s, k) \in SUBSET Nodes /\ IsFiniteSet(Ids(s, k)) /\ Numbers(free, Ids(s, k))
  <2>1. \A k \in 0..n : Ids(s, k) \in SUBSET Nodes
    BY <1>2 DEF Ids
  <2> QED
    BY <1>3, <2>1, NodesFinite, FS_Subset DEF Numbers
<1> DEFINE N == {k \in Nat : k <= j => Sum(free, Ids(s, k)) >= UsableOf(Team(s, k))}
<1>5. 0 \in N
  <2>1. Ids(s, 0) = {}
    BY DEF Ids
  <2>2. Sum(free, {}) = 0
    BY <1>4, <2>1, SumOf
  <2>3. UsableOf(Team(s, 0)) = 0
    BY <1>1 DEF Grows
  <2> QED
    BY <2>1, <2>2, <2>3
<1>6. ASSUME NEW k \in Nat, k \in N, k + 1 <= j PROVE Sum(free, Ids(s, k + 1)) >= UsableOf(Team(s, k + 1))
  <2> DEFINE m == s[k + 1].id
  <2>1. Sum(free, Ids(s, k)) >= UsableOf(Team(s, k))
    BY <1>6
  <2>2. k \in 0..n /\ k + 1 \in 0..n /\ k + 1 \in 1..n /\ k + 1 \in 1..j
    BY <1>6
  <2> HIDE DEF N
  <2>3. m \in Ids(s, k + 1) /\ Ids(s, k + 1) \ {m} = Ids(s, k)
    <3>1. Ids(s, k + 1) = Ids(s, k) \cup {m}
      BY <2>2 DEF Ids
    <3>2. m \notin Ids(s, k)
      <4> SUFFICES ASSUME NEW i \in 1..k, s[i].id = m PROVE FALSE
        BY DEF Ids
      <4>1. i \in 1..n /\ i # k + 1
        BY <2>2
      <4>2. s[i] = s[k + 1]
        BY <1>2, <2>2, <4>1
      <4> QED
        BY <2>2, <4>1, <4>2 DEF Distinct
    <3> QED
      BY <3>1, <3>2
  <2>4. Sum(free, Ids(s, k + 1)) = free[m] + Sum(free, Ids(s, k)) /\ Sum(free, Ids(s, k)) \in Nat
    <3>1. /\ IsFiniteSet(Ids(s, k + 1)) /\ Numbers(free, Ids(s, k + 1))
          /\ IsFiniteSet(Ids(s, k)) /\ Numbers(free, Ids(s, k))
      BY <1>4, <2>2
    <3> HIDE DEF m
    <3> QED
      BY <2>3, <3>1, SumOf
  <2>5. UsableOf(Team(s, k + 1)) = Usable(s[k + 1].mem) + UsableOf(Team(s, k))
    <3>1. (k + 1) - 1 = k
      OBVIOUS
    <3> QED
      BY <1>1, <2>2, <3>1 DEF Grows
  <2>6. /\ free[m] \in Nat /\ free[m] >= s[k + 1].mem /\ s[k + 1].mem \in Nat
    BY <1>2, <1>3, <2>2
  <2>7. Usable(s[k + 1].mem) \in Nat /\ Usable(s[k + 1].mem) <= s[k + 1].mem
    BY <2>6, UsableType
  <2>8. UsableOf(Team(s, k)) \in Nat
    BY <1>1, <2>2 DEF Grows
  <2> HIDE DEF m
  <2> QED
    BY <2>1, <2>4, <2>5, <2>6, <2>7, <2>8
<1>7. Nat \subseteq N
  <2>1. \A k \in Nat : k \in N => k + 1 \in N
    BY <1>6
  <2> HIDE DEF N
  <2> QED
    BY <1>5, <2>1, Inductive
<1>8. Sum(free, Ids(s, j)) >= UsableOf(Team(s, j))
  BY <1>7
<1> QED
  BY <1>4, <1>8, SumOf

\* A plan's workers are nodes other than the driver.  If all of them and the driver have
\* the memory they have reported, they have room for the model.
LEMMA PlanHasRoom ==
  ASSUME Types, NEW name \in Names, NEW p \in Plans(name)
  PROVE  LET w == [i \in DOMAIN p.workers |-> p.workers[i].id]
         IN /\ w \in Seq(Workers)
            /\ (\A n \in Range(w) \cup {Driver} : free[n] >= seen[n].mem)
                 => Sum(free, Range(w) \cup {Driver}) >= Need(Size)
<1> DEFINE V == Snapshot(seen)
           d == p.driver
           C == Candidates(V, d)
           n == Cardinality(C)
           w == [i \in DOMAIN p.workers |-> p.workers[i].id]
           limit == Need(ModelSize(V, name))
<1>1. p \in PlanSplit(V, name) /\ p.kind = "plan"
  BY DEF Types, Plans, PlanTable
<1>2. States(V) /\ \A v \in ToSet(V) : v.id \in Nodes /\ v = View(v.id)
  BY ViewIs
<1> HIDE DEF V
<1>3. d \in Drivers(V, name)
  BY <1>1, <1>2, PlanIs
<1>4. PICK s \in DescendingMem(C), j \in 0..n :
        /\ p.workers = [i \in 1..j |-> s[i]]
        /\ Usable(d.mem) + UsableOf(Team(s, j)) >= limit
  BY <1>1, <1>2, PlanIs
<1>5. d \in ToSet(V) /\ d.id = Driver /\ d.mem = seen[Driver].mem
  <2>1. d \in ToSet(V) /\ d.driver
    BY <1>3 DEF Drivers, Holders, Eligible
  <2>2. d = View(d.id)
    BY <1>2, <2>1
  <2>3. View(d.id).driver <=> d.id = Driver
    BY DEF View
  <2>4. d.id = Driver
    BY <2>1, <2>2, <2>3
  <2>5. View(Driver).mem = seen[Driver].mem
    BY DEF View
  <2> QED
    BY <2>1, <2>2, <2>4, <2>5
<1>6. /\ C \in SUBSET ToSet(V) /\ IsFiniteSet(C) /\ Sized(C) /\ n \in Nat
      /\ \A v \in C : v.id # Driver
  <2>1. C \in SUBSET Eligible(V) /\ \A v \in C : v.id # Driver
    BY <1>5 DEF Candidates
  <2>2. IsFiniteSet(Eligible(V)) /\ Sized(Eligible(V)) /\ Eligible(V) \in SUBSET ToSet(V)
    BY <1>2, EligibleType DEF Eligible
  <2> HIDE DEF C
  <2> QED
    BY <2>1, <2>2, FS_Subset, FS_CardinalityType DEF Sized
<1>7. s \in [1..n -> C] /\ Distinct(s, n)
  BY Descending
<1>8. limit \in Nat /\ limit >= Need(Size) /\ Need(Size) \in Nat
  <2>1. d \in Holders(V, name)
    BY <1>3 DEF Drivers
  <2>2. PICK m \in Copies(d, name) : TRUE
    BY <2>1 DEF Holders, HasModel
  <2>3. m.size = Size
    <3>1. m \in View(Driver).models
      BY <1>2, <1>5, <2>2 DEF Copies
    <3> QED
      BY <3>1 DEF View
  <2>4. ModelSize(V, name) \in Nat /\ m.size <= ModelSize(V, name)
    BY <1>2, <2>1, <2>2, ModelSizeType
  <2> QED
    BY <2>3, <2>4, MemoryAssumption DEF Need
<1> HIDE DEF C, n, d
<1>9. /\ w = [i \in 1..j |-> s[i].id] /\ Range(w) = Ids(s, j)
      /\ \A i \in 1..j : s[i] \in C /\ s[i].id \in Workers
  <2>1. w = [i \in 1..j |-> s[i].id]
    BY <1>4
  <2>2. \A i \in 1..j : s[i] \in C
    BY <1>6, <1>7
  <2>3. \A i \in 1..j : s[i].id \in Workers
    BY <1>2, <1>6, <2>2 DEF Workers
  <2> HIDE DEF w
  <2> QED
    BY <2>1, <2>2, <2>3 DEF Range, Ids
<1>10. w \in Seq(Workers)
  BY <1>6, <1>9
<1> HIDE DEF w, limit
<1>11. ASSUME \A m \in Range(w) \cup {Driver} : free[m] >= seen[m].mem
       PROVE  Sum(free, Range(w) \cup {Driver}) >= Need(Size)
  <2> DEFINE R == Ids(s, j)
  <2>1. \A i \in 1..j : free[s[i].id] >= seen[s[i].id].mem
    BY <1>9, <1>11 DEF Ids
  <2>2. IsFiniteSet(R) /\ R \in SUBSET Nodes /\ Sum(free, R) \in Nat /\ Sum(free, R) >= UsableOf(Team(s, j))
    BY <1>6, <1>7, <2>1, IdsHaveRoom DEF V
  <2>3. Driver \notin R /\ Driver \in Nodes
    BY <1>9, NodesAssumption DEF Ids, Workers
  <2> HIDE DEF R
  <2>4. IsFiniteSet(R \cup {Driver}) /\ Numbers(free, R \cup {Driver}) /\ (R \cup {Driver}) \ {Driver} = R
    BY <2>2, <2>3, FS_AddElement DEF Types, Numbers
  <2>5. Sum(free, R \cup {Driver}) = free[Driver] + Sum(free, R)
    BY <2>4, SumOf
  <2>6. free[Driver] \in Nat /\ d.mem \in Nat /\ free[Driver] >= d.mem
    BY <1>5, <1>11, <2>3, SeenType DEF Types
  <2>7. Usable(d.mem) \in Nat /\ Usable(d.mem) <= d.mem
    BY <2>6, UsableType
  <2>8. UsableOf(Team(s, j)) \in Nat
    BY <1>6, <1>7, TeamGrows DEF Grows
  <2>9. Sum(free, R \cup {Driver}) >= Need(Size)
    BY <1>4, <1>8, <2>2, <2>5, <2>6, <2>7, <2>8, MemoryAssumption
  <2> QED
    BY <1>9, <2>9 DEF R
<1> QED
  BY <1>10, <1>11 DEF w

-----------------------------------------------------------------------------
(***************************************************************************)
(* Steps                                                                   *)
(***************************************************************************)

NoNewOwner == \A c \in Calls : call'[c].owner => call[c].owner

LEMMA NoCallType == NoCall \in CallStates /\ ~NoCall.asSeen /\ ~NoCall.owner
BY DEF NoCall, CallStates

LEMMA WaitingType ==
  ASSUME NEW k \in Names, NEW pc \in {"wait", "serve"}
  PROVE  LET x == [NoCall EXCEPT !.name = k, !.pc = pc]
         IN x \in CallStates /\ ~x.asSeen /\ ~x.owner
BY NoCallType DEF CallStates

LEMMA LaunchingType ==
  ASSUME NEW k \in Names
  PROVE  LET x == [NoCall EXCEPT !.pc = "wait", !.name = k, !.owner = TRUE]
         IN x \in CallStates /\ ~x.asSeen
BY NoCallType DEF CallStates

\* A plan's nodes still have room if none of them has less.
LEMMA RoomStep ==
  ASSUME Types, RoomAsPlanned, Types', \A n \in Nodes : free'[n] >= free[n],
         \A c \in Calls : call'[c].asSeen => call[c].asSeen /\ call'[c].plan = call[c].plan
  PROVE  RoomAsPlanned'
<1> SUFFICES ASSUME NEW c \in Calls, call'[c].asSeen
             PROVE  Sum(free', Range(call'[c].plan) \cup {Driver}) >= Need(Size)
  BY DEF RoomAsPlanned
<1> DEFINE R == Range(call[c].plan) \cup {Driver}
<1>1. call[c].asSeen /\ Range(call'[c].plan) \cup {Driver} = R
  OBVIOUS
<1>2. R \in SUBSET Nodes
  <2>1. call[c].plan \in Seq(Workers)
    BY DEF Types, CallStates
  <2>2. Range(call[c].plan) \in SUBSET Workers
    BY <2>1 DEF Range
  <2> QED
    BY <2>2, NodesAssumption DEF Workers
<1> HIDE DEF R
<1>3. IsFiniteSet(R) /\ Numbers(free, R) /\ Numbers(free', R)
  BY <1>2, NodesFinite, FS_Subset DEF Numbers, Types
<1>4. Sum(free, R) <= Sum(free', R)
  <2>1. R \in SUBSET R /\ \A n \in R : free[n] <= free'[n]
    BY <1>2, <1>3 DEF Numbers
  <2> QED
    BY <1>3, <2>1, SumMonotone
<1>5. Sum(free, R) >= Need(Size)
  BY <1>1 DEF RoomAsPlanned, R
<1>6. Sum(free, R) \in Nat /\ Sum(free', R) \in Nat
  BY <1>3, SumOf
<1>7. Sum(free', R) >= Need(Size)
  BY <1>4, <1>5, <1>6, MemoryAssumption DEF Need
<1> QED
  BY <1>1, <1>7, Zenon

\* A step of calls alone.
LEMMA CallsStep ==
  ASSUME Inv, rpc' \in SUBSET Workers, call' \in [Calls -> CallStates],
         UNCHANGED <<sharing, seen, pipe, free>>,
         \A c \in Calls : call'[c].asSeen => call[c].asSeen /\ call'[c].plan = call[c].plan
  PROVE  Inv'
<1>1. Types'
  BY DEF Inv, Types
<1>2. Balance' /\ SharesFollow'
  BY DEF Inv, Balance, SharesFollow, Held
<1>3. RoomAsPlanned'
  BY <1>1, RoomStep DEF Inv, Types
<1> QED
  BY <1>1, <1>2, <1>3 DEF Inv

\* The memory a node reports is within the bounds of TypeOK.
LEMMA ReportStep ==
  ASSUME Inv, NEW n \in Nodes, Report(n)
  PROVE  Inv' /\ NoNewOwner
<1>1. free[n] \in 0..Max(Range(Total))
  <2>1. Total[n] = free[n] + Held(Plain, n) + Held(Tagged, n)
    BY DEF Inv, Balance
  <2>2. free[n] \in Nat /\ Held(Plain, n) \in Nat /\ Held(Tagged, n) \in Nat
    BY HeldType, NamesAre DEF Inv, Types
  <2>3. Max(Range(Total)) \in Nat /\ Total[n] <= Max(Range(Total)) /\ Total[n] \in Nat
    BY TotalBound, MemoryAssumption
  <2> QED
    BY <2>1, <2>2, <2>3
<1>2. seen' \in Reports
  BY <1>1 DEF Report, Reports, Inv, Types
<1>3. Types'
  BY <1>2 DEF Report, Inv, Types
<1>4. Balance' /\ SharesFollow' /\ RoomAsPlanned'
  BY DEF Report, Inv, Balance, SharesFollow, RoomAsPlanned, Held
<1> QED
  BY <1>3, <1>4 DEF Inv, Report, NoNewOwner

LEMMA AskStep ==
  ASSUME Inv, NEW c \in Calls, NEW name \in Names, Ask(c, name)
  PROVE  Inv' /\ NoNewOwner
<1>1. PICK p \in Plans(name) :
        LET w == [i \in DOMAIN p.workers |-> p.workers[i].id]
        IN call' = [call EXCEPT ![c] =
                      [NoCall EXCEPT !.pc = "recruit", !.name = name, !.plan = w, !.todo = w,
                         !.asSeen = \A n \in Range(w) \cup {Driver} : free[n] >= seen[n].mem]]
  BY DEF Ask
<1> DEFINE w == [i \in DOMAIN p.workers |-> p.workers[i].id]
           b == \A n \in Range(w) \cup {Driver} : free[n] >= seen[n].mem
           x == [NoCall EXCEPT !.pc = "recruit", !.name = name, !.plan = w, !.todo = w,
                               !.asSeen = b]
<1>2. w \in Seq(Workers) /\ (b => Sum(free, Range(w) \cup {Driver}) >= Need(Size))
  BY PlanHasRoom DEF Inv
<1>3. call' = [call EXCEPT ![c] = x] /\ b \in BOOLEAN
  BY <1>1
<1> HIDE DEF w, b
<1>4. x \in CallStates /\ x.asSeen = b /\ x.plan = w /\ ~x.owner
  BY <1>2, <1>3 DEF NoCall, CallStates
<1> HIDE DEF x
<1>5. call' \in [Calls -> CallStates] /\ call'[c] = x /\ \A e \in Calls \ {c} : call'[e] = call[e]
  BY <1>3, <1>4 DEF Inv, Types
<1>6. UNCHANGED <<sharing, rpc, seen, pipe, free>>
  BY DEF Ask
<1>7. Types' /\ Balance' /\ SharesFollow'
  BY <1>5, <1>6 DEF Inv, Types, Balance, SharesFollow, Held
<1>8. RoomAsPlanned'
  BY <1>2, <1>4, <1>5, <1>6 DEF Inv, RoomAsPlanned
<1> QED
  BY <1>4, <1>5, <1>7, <1>8 DEF Inv, NoNewOwner

\* What recruiting leaves of a call.
LEMMA CallType ==
  ASSUME Inv, NEW c \in Calls
  PROVE  /\ call[c] \in CallStates
         /\ call[c].todo # <<>> => Head(call[c].todo) \in Workers /\ Tail(call[c].todo) \in Seq(Workers)
<1>1. call[c] \in CallStates /\ call[c].todo \in Seq(Workers)
  BY DEF Inv, Types, CallStates
<1> QED
  BY <1>1, HeadTailProperties

LEMMA UpdateCall ==
  ASSUME Inv, NEW c \in Calls, NEW x \in CallStates, call' = [call EXCEPT ![c] = x],
         x.asSeen => call[c].asSeen /\ x.plan = call[c].plan, x.owner => call[c].owner
  PROVE  /\ call' \in [Calls -> CallStates] /\ NoNewOwner
         /\ \A e \in Calls : call'[e].asSeen => call[e].asSeen /\ call'[e].plan = call[e].plan
<1>1. /\ call' \in [Calls -> CallStates] /\ call'[c] = x
      /\ \A e \in Calls \ {c} : call'[e] = call[e]
  BY DEF Inv, Types
<1> QED
  BY <1>1 DEF NoNewOwner

LEMMA RecruitedStep ==
  ASSUME Inv, NEW c \in Calls, Recruited(c)
  PROVE  Inv' /\ NoNewOwner
<1> DEFINE w == Head(call[c].todo)
           x == [call[c] EXCEPT !.todo = Tail(@), !.got = @ \cup {w}]
<1>1. /\ call[c] \in CallStates /\ w \in Workers /\ Tail(call[c].todo) \in Seq(Workers)
  BY CallType DEF Recruited
<1>2. call' = [call EXCEPT ![c] = x]
  BY DEF Recruited, Inv, Types
<1>3. x \in CallStates /\ x.asSeen = call[c].asSeen /\ x.plan = call[c].plan /\ x.owner = call[c].owner
  BY <1>1 DEF CallStates
<1>4. rpc' \in SUBSET Workers
  BY <1>1 DEF Recruited, Inv, Types
<1> HIDE DEF x
<1> QED
  BY <1>2, <1>3, <1>4, UpdateCall, CallsStep DEF Recruited

LEMMA SkipStep ==
  ASSUME Inv, NEW c \in Calls, call[c].todo # <<>>, Skip(c), rpc' \in SUBSET Workers,
         UNCHANGED <<sharing, seen, pipe, free>>
  PROVE  Inv' /\ NoNewOwner
<1> DEFINE x == [call[c] EXCEPT !.todo = Tail(@)]
<1>1. /\ call[c] \in CallStates /\ Tail(call[c].todo) \in Seq(Workers)
  BY CallType
<1>2. call' = [call EXCEPT ![c] = x]
  BY DEF Skip, Inv, Types
<1>3. x \in CallStates /\ x.asSeen = call[c].asSeen /\ x.plan = call[c].plan /\ x.owner = call[c].owner
  BY <1>1 DEF CallStates
<1> HIDE DEF x
<1> QED
  BY <1>2, <1>3, UpdateCall, CallsStep

LEMMA FailedRecruitStep ==
  ASSUME Inv, NEW c \in Calls, Refused(c) \/ NoAnswer(c)
  PROVE  Inv' /\ NoNewOwner
<1>1. Head(call[c].todo) \in Workers /\ rpc \in SUBSET Workers
  BY CallType DEF Refused, NoAnswer, Inv, Types
<1>2. call[c].todo # <<>> /\ Skip(c) /\ UNCHANGED <<sharing, seen, pipe, free>>
  BY DEF Refused, NoAnswer
<1>3. rpc' \in SUBSET Workers
  BY <1>1 DEF Refused, NoAnswer
<1> QED
  BY <1>2, <1>3, SkipStep

LEMMA ReturnStep ==
  ASSUME Inv, NEW c \in Calls, NobodyRecruited(c) \/ Answered(c)
  PROVE  Inv' /\ NoNewOwner
<1>1. call' = [call EXCEPT ![c] = NoCall] /\ UNCHANGED <<sharing, rpc, seen, pipe, free>>
  BY DEF NobodyRecruited, Answered, Return
<1> QED
  BY <1>1, NoCallType, UpdateCall, CallsStep DEF Inv, Types

\* A launch puts a pipeline into the table that has no memory yet.
LEMMA EnsureStep ==
  ASSUME Inv, NEW c \in Calls, Ensure(c)
  PROVE  /\ Inv'
         /\ \A e \in Calls : ~call[e].owner /\ call'[e].owner =>
              /\ e = c /\ call[c].got \in SUBSET Workers
              /\ pipe'[call[c].name].workers = call[c].got
<1> DEFINE k == call[c].name
<1>1. /\ call[c] \in CallStates /\ k \in Names
      /\ call[c].got \in SUBSET Workers /\ call[c].got # {}
  BY CallType DEF Ensure, CallStates
<1>2. CASE pipe[k] = None
  <2> DEFINE p == [state |-> "loading", workers |-> call[c].got, share |-> NoShare]
             x == [NoCall EXCEPT !.pc = "wait", !.name = k, !.owner = TRUE]
  <2>1. pipe' = [pipe EXCEPT ![k] = p] /\ call' = [call EXCEPT ![c] = x]
    BY <1>2 DEF Ensure, Participants
  <2>2. p \in Pipelines /\ p.share = NoShare /\ p.workers = call[c].got /\ p.state = "loading"
    BY <1>1 DEF Pipelines, NoShare
  <2>3. x \in CallStates /\ ~x.asSeen
    BY <1>1, LaunchingType
  <2> HIDE DEF p, x
  <2>4. /\ pipe' \in [Names -> Pipelines \cup {None}] /\ pipe'[k] = p
        /\ \A l \in Names \ {k} : pipe'[l] = pipe[l]
    BY <1>1, <2>1, <2>2 DEF Inv, Types
  <2>5. /\ call' \in [Calls -> CallStates] /\ call'[c] = x
        /\ \A e \in Calls \ {c} : call'[e] = call[e]
    BY <2>1, <2>3 DEF Inv, Types
  <2>6. UNCHANGED <<sharing, rpc, seen, free>>
    BY DEF Ensure
  <2>7. Types'
    BY <2>4, <2>5, <2>6 DEF Inv, Types
  <2>8. \A l \in Names, n \in Nodes : Held(l, n)' = Held(l, n)
    <3>1. \A n \in Nodes : NoShare[n] = 0
      BY DEF NoShare
    <3> QED
      BY <1>1, <1>2, <2>2, <2>4, <3>1 DEF Held
  <2>9. Balance'
    BY <2>6, <2>8, NamesAre DEF Inv, Balance
  <2>10. SharesFollow'
    <3>1. \A n \in Nodes : NoShare[n] = 0
      BY DEF NoShare
    <3> QED
      BY <2>2, <2>4, <3>1 DEF Inv, SharesFollow
  <2>11. RoomAsPlanned'
    BY <2>3, <2>5, <2>6, <2>7, RoomStep DEF Inv, Types
  <2> QED
    BY <1>1, <2>2, <2>4, <2>5, <2>7, <2>9, <2>10, <2>11 DEF Inv
<1>3. CASE pipe[k] # None
  <2> DEFINE pc == IF pipe[k].state = "loading" THEN "wait" ELSE "serve"
             x == [NoCall EXCEPT !.name = k, !.pc = pc]
  <2>1. /\ call' = [call EXCEPT ![c] = x]
        /\ UNCHANGED <<sharing, rpc, seen, pipe, free>>
    BY <1>3 DEF Ensure
  <2>2. pc \in {"wait", "serve"}
    OBVIOUS
  <2> HIDE DEF pc, k
  <2>3. x \in CallStates /\ ~x.asSeen /\ ~x.owner
    BY <1>1, <2>2, WaitingType
  <2> HIDE DEF x
  <2>4. Inv' /\ NoNewOwner
    BY <2>1, <2>3, UpdateCall, CallsStep DEF Inv, Types
  <2> QED
    BY <2>4 DEF NoNewOwner
<1> QED
  BY <1>2, <1>3

\* Whom a pipeline of the table has memory of.
LEMMA PipelineType ==
  ASSUME Inv, NEW k \in Names, pipe[k] # None
  PROVE  /\ pipe[k] \in Pipelines /\ pipe[k].workers \in SUBSET Workers
         /\ pipe[k].share \in [Nodes -> Nat]
BY DEF Inv, Types, Pipelines

\* What a split takes of each node.
LEMMA SharesType ==
  ASSUME Inv, NEW W \in SUBSET Workers, Fits(W), NEW s \in Shares(W)
  PROVE  /\ s \in [Nodes -> Nat]
         /\ \A n \in Nodes : s[n] <= free[n] /\ (n \notin W \cup {Driver} => s[n] = 0)
<1> DEFINE U == W \cup {Driver}
           t == Sum(free, U)
           part(n) == (Size * free[n]) \div t
<1>1. U \in SUBSET Nodes /\ IsFiniteSet(U) /\ Numbers(free, U)
  <2>1. U \in SUBSET Nodes
    BY NodesAssumption DEF Workers
  <2> HIDE DEF U
  <2> QED
    BY <2>1, NodesFinite, FS_Subset DEF Numbers, Inv, Types
<1>2. t \in Nat /\ t >= Size /\ Size \in Nat \ {0}
  <2> HIDE DEF U
  <2>1. t \in Nat
    BY <1>1, SumOf
  <2> QED
    BY <2>1, MemoryAssumption DEF Fits, U
<1>3. PICK T \in SUBSET U :
        s = [n \in Nodes |-> IF n \notin U THEN 0
                             ELSE IF n \in T THEN part(n) + 1 ELSE part(n)]
  BY DEF Shares
<1>4. \A n \in U : s[n] <= free[n]
  BY DEF Shares
<1> HIDE DEF U, t
<1>5. ASSUME NEW n \in U PROVE part(n) \in Nat
  <2>1. free[n] \in Nat
    BY <1>1 DEF Numbers
  <2>2. Size * free[n] \in Nat
    BY <1>2, <2>1
  <2> QED
    BY <1>2, <2>2
<1> HIDE DEF part
<1>6. \A n \in Nodes : s[n] \in Nat /\ (n \notin U => s[n] = 0)
  BY <1>3, <1>5
<1>7. \A n \in Nodes : free[n] \in Nat
  BY DEF Inv, Types
<1>8. s \in [Nodes -> Nat]
  BY <1>3, <1>6
<1> QED
  BY <1>4, <1>6, <1>7, <1>8 DEF U

LEMMA LoadPreserves ==
  ASSUME Inv, NEW k \in Names, Load(k)
  PROVE  Inv' /\ NoNewOwner
<1>1. /\ pipe[k] # None /\ pipe[k].state = "loading" /\ Fits(pipe[k].workers)
      /\ pipe[k] \in Pipelines /\ pipe[k].workers \in SUBSET Workers /\ pipe[k].share = NoShare
  BY PipelineType DEF Load, Inv, SharesFollow
<1>2. PICK s \in Shares(pipe[k].workers) :
        /\ pipe' = [pipe EXCEPT ![k] = [@ EXCEPT !.state = "ready", !.share = s]]
        /\ free' = [n \in Nodes |-> free[n] - s[n]]
  BY <1>1 DEF Load, Inv, Types, Pipelines
<1>3. /\ s \in [Nodes -> Nat]
      /\ \A n \in Nodes : s[n] <= free[n] /\ (n \notin pipe[k].workers \cup {Driver} => s[n] = 0)
  BY <1>1, SharesType
<1> DEFINE p == [pipe[k] EXCEPT !.state = "ready", !.share = s]
<1>4. p \in Pipelines /\ p.state = "ready" /\ p.share = s /\ p.workers = pipe[k].workers
  BY <1>1, <1>3 DEF Pipelines
<1>5. pipe' = [pipe EXCEPT ![k] = p]
  BY <1>2
<1> HIDE DEF p
<1>6. /\ pipe' \in [Names -> Pipelines \cup {None}] /\ pipe'[k] = p /\ p # None
      /\ \A l \in Names \ {k} : pipe'[l] = pipe[l]
  BY <1>4, <1>5, NoneAssumption DEF Inv, Types
<1>7. \A n \in Nodes : free[n] \in Nat /\ free'[n] = free[n] - s[n] /\ free'[n] \in Nat
  BY <1>2, <1>3 DEF Inv, Types
<1>8. free' \in [Nodes -> Nat]
  BY <1>2, <1>7
<1>9. /\ call' \in [Calls -> CallStates]
      /\ \A c \in Calls : ~call'[c].asSeen /\ (call'[c].owner => call[c].owner)
  <2>1. ASSUME NEW c \in Calls
        PROVE  /\ call'[c] \in CallStates /\ ~call'[c].asSeen
               /\ call'[c].owner => call[c].owner
    <3>1. CASE call[c].pc = "wait" /\ call[c].name = k
      <4>1. call'[c] = [NoCall EXCEPT !.name = k, !.pc = "serve"]
        BY <3>1 DEF Load, NoCall
      <4> QED
        BY <4>1, WaitingType
    <3>2. CASE ~(call[c].pc = "wait" /\ call[c].name = k)
      <4>1. call'[c] = [call[c] EXCEPT !.asSeen = FALSE] /\ call[c] \in CallStates
        BY <3>2 DEF Load, Inv, Types
      <4> QED
        BY <4>1 DEF CallStates
    <3> QED
      BY <3>1, <3>2
  <2>2. call' = [c \in Calls |-> call'[c]]
    BY DEF Load
  <2> QED
    BY <2>1, <2>2
<1>10. UNCHANGED <<sharing, rpc, seen>>
  BY DEF Load
<1>11. Types'
  BY <1>6, <1>8, <1>9, <1>10 DEF Inv, Types
<1>12. Balance'
  <2> SUFFICES ASSUME NEW n \in Nodes
               PROVE  Total[n] = free'[n] + Held(Plain, n)' + Held(Tagged, n)'
    BY DEF Balance
  <2>1. Held(k, n) = 0 /\ Held(k, n)' = s[n]
    BY <1>1, <1>4, <1>6 DEF Held, NoShare
  <2>2. \A l \in Names \ {k} : Held(l, n)' = Held(l, n)
    BY <1>6 DEF Held
  <2>3. Total[n] = free[n] + Held(Plain, n) + Held(Tagged, n)
    BY DEF Inv, Balance
  <2>4. Held(Plain, n) \in Nat /\ Held(Tagged, n) \in Nat /\ s[n] \in Nat
    BY <1>3, HeldType, NamesAre DEF Inv
  <2>5. k = Plain \/ k = Tagged
    BY NamesAre
  <2> QED
    BY <1>7, <2>1, <2>2, <2>3, <2>4, <2>5, NamesAre
<1>13. SharesFollow'
  BY <1>3, <1>4, <1>6 DEF Inv, SharesFollow
<1>14. RoomAsPlanned'
  BY <1>9 DEF RoomAsPlanned
<1> QED
  BY <1>9, <1>11, <1>12, <1>13, <1>14 DEF Inv, NoNewOwner

LEMMA DropPreserves ==
  ASSUME Inv, NEW k \in Names, Drop(k)
  PROVE  Inv' /\ NoNewOwner
<1>1. /\ pipe[k] # None /\ pipe[k].share \in [Nodes -> Nat]
  BY PipelineType DEF Drop
<1>2. /\ pipe' \in [Names -> Pipelines \cup {None}] /\ pipe'[k] = None
      /\ \A l \in Names \ {k} : pipe'[l] = pipe[l]
  BY DEF Drop, Inv, Types
<1>3. /\ free' \in [Nodes -> Nat]
      /\ \A n \in Nodes : /\ free[n] \in Nat /\ free'[n] = free[n] + pipe[k].share[n]
                          /\ free'[n] \in Nat /\ free'[n] >= free[n]
  <2>1. \A n \in Nodes : free[n] \in Nat /\ pipe[k].share[n] \in Nat
    BY <1>1 DEF Inv, Types
  <2> QED
    BY <2>1 DEF Drop
<1>4. /\ call' \in [Calls -> CallStates]
      /\ \A c \in Calls : call'[c] = call[c] \/ call'[c] = NoCall
  BY NoCallType DEF Drop, Inv, Types
<1>5. UNCHANGED <<sharing, rpc, seen>>
  BY DEF Drop
<1>6. Types'
  BY <1>2, <1>3, <1>4, <1>5 DEF Inv, Types
<1>7. Balance'
  <2> SUFFICES ASSUME NEW n \in Nodes
               PROVE  Total[n] = free'[n] + Held(Plain, n)' + Held(Tagged, n)'
    BY DEF Balance
  <2>1. Held(k, n) = pipe[k].share[n] /\ Held(k, n)' = 0
    BY <1>1, <1>2 DEF Held
  <2>2. \A l \in Names \ {k} : Held(l, n)' = Held(l, n)
    BY <1>2 DEF Held
  <2>3. Total[n] = free[n] + Held(Plain, n) + Held(Tagged, n)
    BY DEF Inv, Balance
  <2>4. Held(Plain, n) \in Nat /\ Held(Tagged, n) \in Nat
    BY HeldType, NamesAre DEF Inv
  <2>5. k = Plain \/ k = Tagged
    BY NamesAre
  <2> QED
    BY <1>3, <2>1, <2>2, <2>3, <2>4, <2>5, NamesAre
<1>8. SharesFollow'
  BY <1>2 DEF Inv, SharesFollow
<1>9. RoomAsPlanned'
  BY <1>3, <1>4, <1>6, RoomStep, NoCallType DEF Inv
<1> QED
  BY <1>4, <1>6, <1>7, <1>8, <1>9, NoCallType DEF Inv, NoNewOwner

\* What the pipelines had of the node whose rpc-server ends is free again.
LEMMA EndsPreserves ==
  ASSUME Inv, NEW n \in Workers, ServerEnds(n), sharing' \in [Nodes -> BOOLEAN]
  PROVE  Inv' /\ NoNewOwner
<1>1. n \in Nodes /\ n # Driver
  BY DEF Workers
<1> DEFINE Spared(k) == pipe[k] = None \/ n \notin pipe[k].workers \/ pipe[k].state = "loading"
<1>2. ASSUME NEW k \in Names, Spared(k)
      PROVE  pipe'[k] = pipe[k] /\ (pipe[k] # None => pipe[k].share[n] = 0)
  <2>1. pipe'[k] = pipe[k]
    BY <1>2 DEF ServerEnds
  <2> QED
    BY <1>1, <1>2, <2>1 DEF Inv, SharesFollow, NoShare
<1>3. ASSUME NEW k \in Names, ~Spared(k)
      PROVE  /\ pipe'[k] \in Pipelines /\ pipe'[k].state = "broken"
             /\ pipe[k] # None /\ pipe'[k].workers = pipe[k].workers
             /\ pipe'[k].share = [pipe[k].share EXCEPT ![n] = 0]
  <2>1. pipe'[k] = [pipe[k] EXCEPT !.state = "broken", !.share = [@ EXCEPT ![n] = 0]]
    BY <1>3 DEF ServerEnds
  <2>2. pipe[k] \in Pipelines
    BY <1>3, PipelineType
  <2> HIDE DEF Spared
  <2>3. [pipe[k].share EXCEPT ![n] = 0] \in [Nodes -> Nat]
    BY <2>2 DEF Pipelines
  <2> QED
    BY <1>3, <2>1, <2>2, <2>3 DEF Pipelines, Spared
<1>4. pipe' \in [Names -> Pipelines \cup {None}]
  <2>1. \A k \in Names : pipe'[k] \in Pipelines \cup {None}
    BY <1>2, <1>3 DEF Inv, Types
  <2>2. pipe' = [k \in Names |-> pipe'[k]]
    BY DEF ServerEnds
  <2> QED
    BY <2>1, <2>2
<1>5. \A k \in Names : Held(k, n)' = 0
  <2> SUFFICES ASSUME NEW k \in Names PROVE Held(k, n)' = 0
    OBVIOUS
  <2>1. CASE Spared(k)
    <3> HIDE DEF Spared
    <3> QED
      BY <1>2, <2>1 DEF Held
  <2>2. CASE ~Spared(k)
    <3>1. pipe[k].share \in [Nodes -> Nat]
      BY <1>3, <2>2, PipelineType
    <3> HIDE DEF Spared
    <3> QED
      BY <1>1, <1>3, <2>2, <3>1 DEF Held
  <2> QED
    BY <2>1, <2>2
<1>6. \A k \in Names, m \in Nodes \ {n} : Held(k, m)' = Held(k, m)
  <2> SUFFICES ASSUME NEW k \in Names, NEW m \in Nodes \ {n} PROVE Held(k, m)' = Held(k, m)
    OBVIOUS
  <2>1. CASE Spared(k)
    <3> HIDE DEF Spared
    <3> QED
      BY <1>2, <2>1 DEF Held
  <2>2. CASE ~Spared(k)
    <3>1. pipe[k].share \in [Nodes -> Nat] /\ pipe'[k] # None
      BY <1>3, <2>2, PipelineType, NoneAssumption
    <3> HIDE DEF Spared
    <3> QED
      BY <1>3, <2>2, <3>1 DEF Held
  <2> QED
    BY <2>1, <2>2
<1> HIDE DEF Spared
<1>7. /\ free' = [free EXCEPT ![n] = Total[n]] /\ free' \in [Nodes -> Nat]
      /\ \A m \in Nodes : free'[m] >= free[m]
  <2>1. free' = [free EXCEPT ![n] = Total[n]] /\ free \in [Nodes -> Nat] /\ Total[n] \in Nat
    BY <1>1, MemoryAssumption DEF ServerEnds, Inv, Types
  <2>2. Total[n] >= free[n]
    <3>1. Total[n] = free[n] + Held(Plain, n) + Held(Tagged, n)
      BY <1>1 DEF Inv, Balance
    <3>2. Held(Plain, n) \in Nat /\ Held(Tagged, n) \in Nat
      BY <1>1, HeldType, NamesAre DEF Inv
    <3> QED
      BY <1>1, <2>1, <3>1, <3>2
  <2> QED
    BY <1>1, <2>1, <2>2
<1>8. UNCHANGED <<seen, call>> /\ rpc' \in SUBSET Workers
  BY DEF ServerEnds, Inv, Types
<1>9. Types'
  BY <1>4, <1>7, <1>8 DEF Inv, Types
<1>10. Balance'
  <2> SUFFICES ASSUME NEW m \in Nodes
               PROVE  Total[m] = free'[m] + Held(Plain, m)' + Held(Tagged, m)'
    BY DEF Balance
  <2>1. CASE m = n
    BY <1>5, <1>7, <2>1, NamesAre, MemoryAssumption DEF Inv, Types
  <2>2. CASE m # n
    <3>1. free'[m] = free[m]
      BY <1>7, <2>2 DEF Inv, Types
    <3>2. Held(Plain, m)' = Held(Plain, m) /\ Held(Tagged, m)' = Held(Tagged, m)
      BY <1>6, <2>2, NamesAre
    <3> QED
      BY <3>1, <3>2 DEF Inv, Balance
  <2> QED
    BY <2>1, <2>2
<1>11. SharesFollow'
  <2> SUFFICES ASSUME NEW k \in Names, pipe'[k] # None
               PROVE  /\ pipe'[k].state = "loading" => pipe'[k].share = NoShare
                      /\ \A m \in Nodes : m \notin pipe'[k].workers \cup {Driver}
                                            => pipe'[k].share[m] = 0
    BY DEF SharesFollow
  <2>1. CASE Spared(k)
    BY <1>2, <2>1 DEF Inv, SharesFollow
  <2>2. CASE ~Spared(k)
    <3>1. /\ pipe'[k].state = "broken" /\ pipe'[k].workers = pipe[k].workers
          /\ pipe[k] # None /\ pipe'[k].share = [pipe[k].share EXCEPT ![n] = 0]
      BY <1>3, <2>2
    <3>2. pipe[k].share \in [Nodes -> Nat]
      BY <3>1, PipelineType
    <3> QED
      BY <3>1, <3>2 DEF Inv, SharesFollow
  <2> QED
    BY <2>1, <2>2
<1>12. RoomAsPlanned'
  BY <1>7, <1>8, <1>9, RoomStep DEF Inv
<1> QED
  BY <1>8, <1>9, <1>10, <1>11, <1>12 DEF Inv, NoNewOwner

-----------------------------------------------------------------------------
(***************************************************************************)
(* The theorems                                                            *)
(***************************************************************************)

LEMMA InitInv == Init => Inv
<1> SUFFICES ASSUME Init PROVE Inv
  OBVIOUS
<1>1. \A n \in Nodes : Total[n] \in Nat /\ Max(Range(Total)) \in Nat /\ Total[n] <= Max(Range(Total))
  BY TotalBound, MemoryAssumption
<1>2. seen \in Reports
  BY <1>1 DEF Init, Reports
<1>3. Types
  BY <1>2, NoCallType, MemoryAssumption DEF Init, Types
<1>4. \A k \in Names, n \in Nodes : Held(k, n) = 0
  BY DEF Init, Held
<1>5. Balance
  BY <1>1, <1>4, NamesAre DEF Init, Balance
<1>6. SharesFollow /\ RoomAsPlanned
  BY NoCallType DEF Init, SharesFollow, RoomAsPlanned
<1> QED
  BY <1>3, <1>5, <1>6 DEF Inv

\* Every step but the launch by a call leaves the owners as they are or fewer.
LEMMA StepInv ==
  ASSUME Inv, [Next]_vars
  PROVE  Inv' /\ (NoNewOwner \/ \E c \in Calls : Ensure(c))
<1>1. ASSUME NEW c \in Calls, CallStep(c) \/ NoAnswer(c) \/ Answered(c)
      PROVE  Inv' /\ (NoNewOwner \/ \E e \in Calls : Ensure(e))
  <2>1. CASE Recruited(c)
    BY <2>1, RecruitedStep
  <2>2. CASE Refused(c) \/ NoAnswer(c)
    BY <2>2, FailedRecruitStep
  <2>3. CASE NobodyRecruited(c) \/ Answered(c)
    BY <2>3, ReturnStep
  <2>4. CASE Ensure(c)
    BY <2>4, EnsureStep
  <2> QED
    BY <1>1, <2>1, <2>2, <2>3, <2>4 DEF CallStep
<1>2. ASSUME NEW c \in Calls, NEW k \in Names, Ask(c, k) PROVE Inv' /\ NoNewOwner
  BY <1>2, AskStep
<1>3. ASSUME NEW k \in Names, LoadStep(k) \/ Collect(k) \/ Lost(k) PROVE Inv' /\ NoNewOwner
  <2>1. Load(k) \/ Drop(k)
    BY <1>3 DEF LoadStep, LoadFails, Fails, Collect, Lost
  <2> QED
    BY <2>1, LoadPreserves, DropPreserves
<1>4. ASSUME NEW n \in Nodes, Report(n) PROVE Inv' /\ NoNewOwner
  BY <1>4, ReportStep
<1>5. ASSUME NEW n \in Nodes, Restart(n) \/ ServerStops(n) PROVE Inv' /\ NoNewOwner
  <2>1. n \in Workers /\ ServerEnds(n) /\ sharing' \in [Nodes -> BOOLEAN]
    BY <1>5 DEF Restart, ServerStops, Inv, Types, Workers
  <2> QED
    BY <2>1, EndsPreserves
<1>6. CASE UNCHANGED vars
  <2>1. UNCHANGED <<sharing, rpc, seen, pipe, free, call>>
    BY <1>6 DEF vars
  <2> QED
    BY <2>1, CallsStep DEF Inv, Types, NoNewOwner
<1> QED
  BY <1>1, <1>2, <1>3, <1>4, <1>5, <1>6 DEF Next

LEMMA SpecInv == Spec => []Inv
<1>1. Inv /\ [Next]_vars => Inv'
  BY StepInv
<1> QED
  BY InitInv, <1>1, PTL DEF Spec

\* Whatever is refused, lost, stopped or restarted while a plan is carried out, only
\* workers lend memory, and what a node has is free or is one pipeline's: EnsureLocal,
\* Manager.Ensure and stop leave none behind.
THEOREM TypeCorrect == Spec => []TypeOK
<1>1. Inv => TypeOK
  BY TypeOKIs DEF Inv
<1> QED
  BY SpecInv, <1>1, PTL

\* WorkerUsableFrac holds back enough for any sizes and memories: a launch with the whole
\* plan, on nodes that have what they reported, has room for the model and for what
\* FitFactor estimates its cache and buffers to take.
THEOREM PlannedLaunchAlwaysFits == Spec => PlannedLaunchFits
<1>1. ASSUME Inv, [Next]_vars
      PROVE  [\A c \in Calls :
                /\ ~call[c].owner /\ call'[c].owner
                /\ call[c].got = Range(call[c].plan) /\ call[c].asSeen
                => Roomy(pipe'[call[c].name].workers)]_vars
  <2> SUFFICES ASSUME NEW c \in Calls, ~call[c].owner, call'[c].owner,
                      call[c].got = Range(call[c].plan), call[c].asSeen
               PROVE  Roomy(pipe'[call[c].name].workers)
    OBVIOUS
  <2>1. PICK e \in Calls : Ensure(e)
    BY <1>1, StepInv DEF NoNewOwner
  <2>2. pipe'[call[c].name].workers = call[c].got
    BY <1>1, <2>1, EnsureStep
  <2>3. Sum(free, Range(call[c].plan) \cup {Driver}) >= Need(Size)
    BY <1>1 DEF Inv, RoomAsPlanned
  <2> QED
    BY <2>2, <2>3 DEF Roomy
<1> QED
  BY SpecInv, <1>1, PTL DEF Spec, PlannedLaunchFits

=============================================================================
