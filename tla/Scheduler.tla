------------------------------ MODULE Scheduler ------------------------------
(***************************************************************************)
(* The decisions of internal/scheduler, as operators on a snapshot of the  *)
(* pool: a sequence of node states, self first, then by name.              *)
(*                                                                         *)
(* A node state is a record                                                *)
(*   [id, sharing, ollamaOK, age, models, loaded, active, mem, worker,     *)
(*    driver]                                                              *)
(* where age is the time since UpdatedAt in seconds, models a set of       *)
(* records [name, size], loaded a set of names, and mem, the available     *)
(* memory, counts the same units as a model's size.  A model name is a     *)
(* record [base, tag]; tag is "" when the name is written without one.     *)
(*                                                                         *)
(* PlanSplit sorts with sort.Slice, which promises no order among equals:  *)
(* what it may return is a set.                                            *)
(***************************************************************************)
EXTENDS Integers, Sequences, SequencesExt, FiniteSets, FiniteSetsExt

StaleAfter == 20

Name(x) == x = [base |-> x.base, tag |-> x.tag]

\* The part of registry.NodeState that is read here.
NodeState(n) ==
  /\ {n.sharing, n.ollamaOK, n.worker, n.driver} \subseteq BOOLEAN
  /\ {n.age, n.active, n.mem} \cup {m.size : m \in n.models} \subseteq Nat
  /\ IsFiniteSet(n.models)
  /\ \A x \in n.loaded \cup {m.name : m \in n.models} : Name(x)

eligible(n) == n.sharing /\ n.ollamaOK /\ n.age < StaleAfter

\* Ollama's "x" and "x:latest" are one model.  Nothing carries a doubled tag, so
\* appending ":latest" to a tagged name yields the name of no model.
WithLatest(name) == IF name.tag = "" THEN {[name EXCEPT !.tag = "latest"]} ELSE {}

SameModel(a, b) == a = b \/ a \in WithLatest(b) \/ b \in WithLatest(a)

\* Faulty variant: names are compared as they are written (Routing!NamesAgree).
CopiesByName(n, model) == {m \in n.models : m.name = model}

Copies(n, model)    == {m \in n.models : SameModel(m.name, model)}
HasModel(n, model)  == Copies(n, model) # {}
HasLoaded(n, model) == \E l \in n.loaded : SameModel(l, model)

Eligible(nodes)       == {n \in ToSet(nodes) : eligible(n)}
Holders(nodes, model) == {n \in Eligible(nodes) : HasModel(n, model)}

\* Faulty variant: the listing includes what nodes that are not eligible have
\* (Routing!ListedIsServed).
PoolModelsOfAll(nodes) == UNION {{m.name : m \in n.models} : n \in ToSet(nodes)}

PoolModels(nodes) == UNION {{m.name : m \in n.models} : n \in Eligible(nodes)}

\* The size of a listed model is the one the first node reports.
PoolModelDetails(nodes) ==
  LET served == {i \in DOMAIN nodes : eligible(nodes[i])}
      At(name) == {i \in served : \E m \in nodes[i].models : m.name = name}
      First(name) == CHOOSE m \in nodes[Min(At(name))].models : m.name = name
  IN {[name |-> name, size |-> First(name).size, nodes |-> {nodes[i].id : i \in At(name)}] :
        name \in UNION {{m.name : m \in nodes[i].models} : i \in served}}

-----------------------------------------------------------------------------
(***************************************************************************)
(* Faulty variants, each followed by the property that would notice.       *)
(***************************************************************************)

\* Fewest requests first, a loaded model second (PickFollowsRanking).
RanksBeforeByLoad(a, b, model) ==
  \/ a.active < b.active
  \/ /\ a.active = b.active
     /\ \/ HasLoaded(a, model) /\ ~HasLoaded(b, model)
        \/ /\ HasLoaded(a, model) = HasLoaded(b, model)
           /\ a.mem > b.mem

\* Candidates sorted by ascending memory (PlanIsFrugal).
AscendingMem(S) == {s \in SetToSeqs(S) : \A i, j \in DOMAIN s : i < j => s[i].mem <= s[j].mem}

\* All of a worker's free memory is counted, not the usable part (PlanIsAdequate).
RecruitToTheBrim(driver, candidates, need) ==
  LET Add(acc, n) ==
        IF acc.capacity >= need THEN acc
        ELSE [workers |-> Append(acc.workers, n), capacity |-> acc.capacity + n.mem]
  IN FoldLeft(Add, [workers |-> <<>>, capacity |-> (4 * driver.mem) \div 5], candidates)

\* The driver is not left out of the candidates (SplitServing!TypeOK).
CandidatesAll(nodes, driver) == {n \in Eligible(nodes) : n.worker}

-----------------------------------------------------------------------------
(***************************************************************************)
(* Pick                                                                    *)
(***************************************************************************)

\* The less function of Pick's sort.
RanksBefore(a, b, model) ==
  IF HasLoaded(a, model) # HasLoaded(b, model) THEN HasLoaded(a, model)
  ELSE IF a.active # b.active THEN a.active < b.active
  ELSE a.mem > b.mem

\* sort.SliceStable, then the first: of the best the one the snapshot lists first.
Pick(nodes, model) ==
  LET candidates == {i \in DOMAIN nodes : eligible(nodes[i]) /\ HasModel(nodes[i], model)}
      best == {i \in candidates :
                 ~\E j \in candidates : RanksBefore(nodes[j], nodes[i], model)}
  IN nodes[Min(best)]

-----------------------------------------------------------------------------
(***************************************************************************)
(* PlanSplit                                                               *)
(***************************************************************************)

\* FitFactor is 1.25, WorkerUsableFrac is 0.8; the conversions truncate.
Need(size)  == (5 * size) \div 4
Usable(mem) == (4 * mem) \div 5

\* What a set of nodes can lend together.
Sum(f, S)   == FoldFunctionOnSet(+, 0, f, S)
UsableOf(S) == Sum([n \in S |-> Usable(n.mem)], S)

ModelSize(nodes, model) ==
  Max({0} \cup {m.size : m \in UNION {Copies(n, model) : n \in Holders(nodes, model)}})

\* What sort.Slice by descending memory can produce.
DescendingMem(S) == {s \in SetToSeqs(S) : \A i, j \in DOMAIN s : i < j => s[i].mem >= s[j].mem}

\* Workers are added in that order until the plan fits.
Recruit(driver, candidates, need) ==
  LET Add(acc, n) ==
        IF acc.capacity >= need THEN acc
        ELSE [workers  |-> Append(acc.workers, n),
              capacity |-> acc.capacity + Usable(n.mem)]
  IN FoldLeft(Add, [workers |-> <<>>, capacity |-> Usable(driver.mem)], candidates)

SplitNeeded(nodes, model) ==
  /\ ModelSize(nodes, model) > 0
  /\ \A n \in Holders(nodes, model) : Usable(n.mem) < Need(ModelSize(nodes, model))

Drivers(nodes, model)      == {n \in Holders(nodes, model) : n.driver}
Candidates(nodes, driver)  == {n \in Eligible(nodes) : n.worker /\ n.id # driver.id}

\* The results PlanSplit can have: "none" is (nil, nil), "error" is (nil, err).
PlanSplit(nodes, model) ==
  LET need    == Need(ModelSize(nodes, model))
      drivers == Drivers(nodes, model)
      Result(d, candidates) ==
        LET r == Recruit(d, candidates, need)
        IN IF r.capacity < need THEN [kind |-> "error"]
           ELSE [kind |-> "plan", driver |-> d, workers |-> r.workers]
  IN IF ~SplitNeeded(nodes, model) THEN {[kind |-> "none"]}
     ELSE IF drivers = {} THEN {[kind |-> "error"]}
     ELSE UNION {{Result(d, s) : s \in DescendingMem(Candidates(nodes, d))} :
                   d \in {s[1] : s \in DescendingMem(drivers)}}
=============================================================================
