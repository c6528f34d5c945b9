--------------------------- MODULE NodeReportProofs ---------------------------
(***************************************************************************)
(* Proofs about NodeReport, for any tickers and timeouts.                  *)
(***************************************************************************)
EXTENDS NodeReport, TLAPS

\* How long a refresh can have taken when it reaches a stage.
Before(stage) ==
  CASE stage = "version" -> CollectMax
    [] stage = "tags"    -> CollectMax + ProbeTimeout
    [] stage = "ps"      -> CollectMax + 2 * ProbeTimeout
    [] stage = "lock"    -> CollectMax + 3 * ProbeTimeout
    [] OTHER             -> 0

\* Between two refreshes the own entry is no older than Advertise and the ticker; during
\* one, no older than these and what the refresh has taken.
EntryAge ==
  self # None =>
    self.age <= CASE probe.at = "off"       -> AdvertiseMax + refreshTimer
                  [] probe.at = "advertise" -> probe.age
                  [] OTHER -> AdvertiseMax + RefreshEvery + Before(probe.at) + probe.age

Inv == TypeOK /\ EntryAge

\* The constants are times.
LEMMA Natural ==
  /\ RefreshEvery \in Nat \ {0} /\ PollEvery \in Nat \ {0} /\ CollectMax \in Nat
  /\ ProbeTimeout \in Nat /\ LockMax \in Nat /\ AdvertiseMax \in Nat
  /\ FetchTimeout \in Nat /\ OthersMax \in Nat /\ StaleAfter \in Nat
  /\ SelfMax \in Nat /\ TrustLag + 1 \in Nat /\ SeenLag + 1 \in Nat
  /\ OldAge \in Nat /\ StaleAfter <= OldAge /\ ViewMax < OldAge /\ ViewMax \in Nat
<1>1. {RefreshEvery, CollectMax, ProbeTimeout, LockMax, AdvertiseMax,
       PollEvery, FetchTimeout, OthersMax, StaleAfter}
        \subseteq Nat /\ RefreshEvery > 0 /\ PollEvery > 0
  BY TimesAssumption DEF Times
<1> QED
  BY <1>1 DEF SelfMax, RefreshMax, TrustLag, SeenLag, TwoRefreshes, RoundMax, ViewMax,
              OldAge, Larger

LEMMA LimitType == ASSUME NEW s \in Stages PROVE Limit(s) \in Nat
BY Natural DEF Limit, Stages

LEMMA StageTypes ==
  /\ Idle.at = "off" /\ Begun.at = "collect" /\ At("advertise").at = "advertise"
  /\ Idle.age = 0 /\ Begun.age = 0 /\ At("advertise").age = 0
  /\ ~Idle.has /\ ~Begun.has /\ ~At("advertise").has
  /\ Idle \in [at : Stages, age : 0..Limit("off"), ok : BOOLEAN, has : BOOLEAN]
  /\ Begun \in [at : Stages, age : 0..Limit("collect"), ok : BOOLEAN, has : BOOLEAN]
  /\ At("advertise") \in [at : Stages, age : 0..Limit("advertise"), ok : BOOLEAN, has : BOOLEAN]
<1>1. Limit("off") \in Nat /\ Limit("collect") \in Nat /\ Limit("advertise") \in Nat
  BY LimitType DEF Stages
<1>2. ASSUME NEW stage \in Stages, Limit(stage) \in Nat
      PROVE  /\ At(stage).at = stage /\ At(stage).age = 0 /\ ~At(stage).has
             /\ At(stage) \in [at : Stages, age : 0..Limit(stage), ok : BOOLEAN, has : BOOLEAN]
  BY <1>2 DEF At
<1>3. "off" \in Stages /\ "collect" \in Stages /\ "advertise" \in Stages
  BY DEF Stages
<1> QED
  BY <1>1, <1>2, <1>3 DEF Idle, Begun

LEMMA InitInv == Init => Inv
<1> SUFFICES ASSUME Init PROVE Inv
  OBVIOUS
<1>1. TypeOK
  BY Natural, StageTypes DEF Init, TypeOK, Looping
<1>2. EntryAge
  BY DEF Init, EntryAge
<1> QED
  BY <1>1, <1>2 DEF Inv

\* A clock that stops at a bound, and an entry that ages up to one.
LEMMA LaterType == ASSUME NEW m \in Nat, NEW n \in 0..m PROVE Later(n, m) \in 0..m
BY DEF Later

LEMMA TypeStep == TypeOK /\ [Next]_vars => TypeOK'
<1> SUFFICES ASSUME TypeOK, [Next]_vars PROVE TypeOK'
  OBVIOUS
<1> USE Natural DEF TypeOK
<1>1. CASE Refresh
  BY <1>1, StageTypes DEF Refresh, peer, world, past, Looping
<1>2. ASSUME NEW s \in Stages \ {"off"}, NEW x, probe.at # "off",
             x \in [at : {s}, age : {0}, ok : BOOLEAN, has : BOOLEAN], x.has => x.ok,
             probe' = x, UNCHANGED <<self, refreshTimer, peer, world, past>>,
             s # "advertise", probe.at # "advertise"
      PROVE  TypeOK'
  <2>1. Limit(s) \in Nat
    BY LimitType
  <2>2. probe' \in [at : Stages, age : 0..Limit(probe'.at), ok : BOOLEAN, has : BOOLEAN]
    BY <1>2, <2>1
  <2> QED
    BY <1>2, <2>2, StageTypes DEF peer, world, past, Looping
<1>3. ASSUME NEW s \in Stages \ {"off", "advertise"}, NEW ok \in BOOLEAN, NEW h \in BOOLEAN,
             h => ok, probe.at # "off", probe.at # "advertise", Goto(s, ok, h)
      PROVE  TypeOK'
  BY <1>2, <1>3 DEF Goto
<1>0. /\ probe.has \in BOOLEAN /\ has \in BOOLEAN /\ TRUE \in BOOLEAN
      /\ "ps" \in Stages \ {"off", "advertise"} /\ "lock" \in Stages \ {"off", "advertise"}
  BY DEF Stages
<1>17. ASSUME NEW s \in Stages \ {"off", "advertise"}, NEW h \in BOOLEAN,
              probe.at # "off" /\ probe.at # "advertise" /\ Goto(s, TRUE, h)
       PROVE  TypeOK'
  BY <1>3, <1>17
<1>13. CASE Collected
  BY <1>3, <1>13 DEF Collected, Stages
<1>14. CASE Probed
  <2>1. CASE probe.at = "version" /\ Goto("tags", TRUE, FALSE)
    BY <1>3, <2>1 DEF Stages
  <2>2. CASE probe.at = "tags" /\ Goto("ps", TRUE, has)
    <3>1. probe.at # "off" /\ probe.at # "advertise" /\ Goto("ps", TRUE, has)
      BY <2>2
    <3> HIDE DEF TypeOK
    <3> QED
      BY <1>0, <1>17, <3>1, Zenon
  <2>3. CASE probe.at = "ps" /\ Goto("lock", TRUE, probe.has)
    <3>1. probe.at # "off" /\ probe.at # "advertise" /\ Goto("lock", TRUE, probe.has)
      BY <2>3
    <3> HIDE DEF TypeOK
    <3> QED
      BY <1>0, <1>17, <3>1, Zenon
  <2> QED
    BY <1>14, <2>1, <2>2, <2>3 DEF Probed
<1>15. CASE ProbeFails
  <2>1. CASE probe.at = "version" /\ Goto("lock", FALSE, FALSE)
    BY <1>3, <2>1 DEF Stages
  <2>2. CASE probe.at = "tags" /\ Goto("ps", TRUE, NoModels)
    BY <1>3, <2>2 DEF Stages, NoModels
  <2>3. CASE probe.at = "ps" /\ Goto("lock", TRUE, probe.has)
    <3>1. probe.at # "off" /\ probe.at # "advertise" /\ Goto("lock", TRUE, probe.has)
      BY <2>3
    <3> HIDE DEF TypeOK
    <3> QED
      BY <1>0, <1>17, <3>1, Zenon
  <2> QED
    BY <1>15, <2>1, <2>2, <2>3 DEF ProbeFails
<1>4. CASE Publish
  <2>1. self' = [ok |-> probe.ok, has |-> probe.has, age |-> 0] /\ probe.at = "lock"
        /\ probe' = (IF self = None THEN At("advertise") ELSE Idle)
        /\ UNCHANGED <<refreshTimer, peer, world, past>>
    BY <1>4 DEF Publish
  <2>2. self' \in [ok : BOOLEAN, has : BOOLEAN, age : 0..SelfMax + 1]
        /\ (self'.has => self'.ok) /\ up
    BY <2>1, StageTypes
  <2>3. self' # None
    BY <2>2, NoneAssumption
  <2>4. /\ probe' \in [at : Stages, age : 0..Limit(probe'.at), ok : BOOLEAN, has : BOOLEAN]
        /\ ~probe'.has /\ (self = None => probe'.at = "advertise")
    BY <2>1, StageTypes
  <2>5. ~Looping' => refreshTimer' = 0
    BY <2>1, <2>2, <2>3, <2>4, StageTypes DEF Looping, world
  <2> QED
    BY <2>1, <2>2, <2>3, <2>4, <2>5 DEF peer, world, past
<1>16. CASE Advertise
  BY <1>16, StageTypes DEF Advertise, peer, world, past, Looping
<1>5. CASE StartRound \/ StartFetch \/ EndRound \/ FetchFails
  BY <1>5 DEF StartRound, StartFetch, EndRound, FetchFails, node, world, past, Looping
<1>6. CASE Answer
  <2>1. UNCHANGED <<node, world, past, round, others, pollTimer, view>> /\ Looping' = Looping
    BY <1>6 DEF Answer, Looping, node, world
  <2>2. /\ fetch' \in [age : 0..FetchTimeout, reply : {None} \cup Reports]
        /\ fetch # None
    <3>1. /\ fetch # None /\ self.ok \in BOOLEAN /\ self.has \in BOOLEAN
          /\ self.has => self.ok
      BY <1>6 DEF Answer, Looping
    <3>2. [ok |-> self.ok, has |-> self.has] \in Reports
      BY <3>1 DEF Reports
    <3> QED
      BY <1>6, <3>1, <3>2 DEF Answer
  <2> QED
    BY <2>1, <2>2 DEF node, world, past
<1>7. CASE Upsert
  <2>1. Looping' = Looping
    BY <1>7 DEF Upsert, Looping, node, world
  <2> QED
    BY <1>7, <2>1 DEF Upsert, Reports, node, world, past
<1>8. CASE Stop
  <2>1. probe' \in [at : Stages, age : 0..Limit(probe'.at), ok : BOOLEAN, has : BOOLEAN]
        /\ ~probe'.has
    BY <1>8, StageTypes DEF Stop
  <2>2. \A e \in {self', view'} \ {None} : e.has => e.ok
    BY <1>8 DEF Stop, peer
  <2>3. ~up' => probe' = Idle /\ self' = None
    BY <1>8 DEF Stop
  <2>4. UNCHANGED <<ollama, has, round, others, fetch, pollTimer, view, unserved>>
        /\ up' = FALSE /\ refreshTimer' = 0 /\ steady' = 0 /\ self' = None
    BY <1>8 DEF Stop, peer
  <2>5. ollama' \in {"up", "hung", "down"} /\ has' \in BOOLEAN
    BY <2>4
  <2>6. up' \in BOOLEAN
    BY <2>4
  <2>7. /\ view' = None \/ view' \in [ok : BOOLEAN, has : BOOLEAN, age : 0..OldAge]
        /\ fetch' = None \/ fetch' \in [age : 0..FetchTimeout, reply : {None} \cup Reports]
        /\ refreshTimer' \in 0..RefreshEvery /\ pollTimer' \in 0..PollEvery
        /\ round' \in {"off", "before", "after"} /\ others' \in 0..OthersMax
        /\ (fetch' # None => round' = "after") /\ (round' = "off" => others' = 0)
    BY <2>4
  <2>8. unserved' \in 0..TrustLag + 1 /\ steady' \in 0..SeenLag + 1
    BY <2>4
  <2> QED
    BY <2>1, <2>2, <2>3, <2>4, <2>5, <2>6, <2>7, <2>8
<1>9. CASE Start
  BY <1>9, StageTypes DEF Start, peer, Looping
<1>10. ASSUME NEW state \in {"up", "hung", "down"}, NEW pulled \in BOOLEAN, Change(state, pulled)
       PROVE  TypeOK'
  BY <1>10 DEF Change, node, peer, Looping
<1>11. CASE Tick
  <2>1. probe' \in [at : Stages, age : 0..Limit(probe'.at), ok : BOOLEAN, has : BOOLEAN]
        /\ (probe'.has => probe'.ok)
    <3>1. Limit(probe.at) \in Nat
      BY LimitType
    <3>2. CASE probe.at = "off"
      BY <1>11, <3>2 DEF Tick
    <3>3. CASE probe.at # "off"
      <4>1. probe.age # Limit(probe.at)
        BY <1>11, <3>3 DEF Tick, Due
      <4>2. probe' = [probe EXCEPT !.age = probe.age + 1]
        BY <1>11, <3>3 DEF Tick
      <4> QED
        BY <3>1, <4>1, <4>2
    <3> QED
      BY <3>2, <3>3
  <2>2. self' = None \/ /\ self' \in [ok : BOOLEAN, has : BOOLEAN, age : 0..SelfMax + 1]
                        /\ self # None /\ (self'.has => self'.ok)
    BY <1>11 DEF Tick, Older
  <2>3. view' = None \/ /\ view' \in [ok : BOOLEAN, has : BOOLEAN, age : 0..OldAge]
                        /\ (view'.has => view'.ok)
    BY <1>11 DEF Tick, Older
  <2>4. fetch' = None \/ /\ fetch' \in [age : 0..FetchTimeout, reply : {None} \cup Reports]
                         /\ fetch # None
    BY <1>11 DEF Tick, Older
  <2>7. /\ round' = round /\ (fetch' # None => round' = "after")
        /\ others' \in 0..OthersMax /\ (round' = "off" => others' = 0)
    BY <1>11, <2>4 DEF Tick, Due
  <2>8. self' = None <=> self = None
    <3>1. self # None => self' \in [ok : BOOLEAN, has : BOOLEAN, age : Nat]
      BY <1>11 DEF Tick, Older
    <3> QED
      BY <1>11, <3>1, NoneAssumption DEF Tick, Older
  <2>9. probe'.at = probe.at
    BY <1>11 DEF Tick
  <2>10. /\ ~Looping' => refreshTimer' = 0
         /\ up' /\ self' = None => probe'.at \notin {"off", "advertise"}
    BY <1>11, <2>8, <2>9 DEF Tick, Looping, world
  <2>5. /\ refreshTimer' \in 0..RefreshEvery /\ pollTimer' \in 0..PollEvery
        /\ unserved' \in 0..TrustLag + 1 /\ steady' \in 0..SeenLag + 1
    BY <1>11, LaterType DEF Tick
  <2>6. ~up' => probe' = Idle /\ self' = None
    BY <1>11, StageTypes DEF Tick, Older, world
  <2> QED
    BY <1>11, <2>1, <2>2, <2>3, <2>4, <2>5, <2>6, <2>7, <2>10 DEF Tick, world
<1>12. CASE UNCHANGED vars
  BY <1>12 DEF vars, Looping
<1> QED
  BY <1>1, <1>16, <1>4, <1>5, <1>6, <1>7, <1>8, <1>9, <1>10, <1>11, <1>12, <1>13, <1>14, <1>15 DEF Next

\* A refresh starts when the ticker fires at the latest, and each of its stages has
\* ended at its timeout.
LEMMA AgeStep == Inv /\ [Next]_vars => EntryAge'
<1> SUFFICES ASSUME Inv, [Next]_vars PROVE EntryAge'
  OBVIOUS
<1> USE Natural DEF EntryAge
<1>0. TypeOK /\ EntryAge /\ probe.age \in 0..Limit(probe.at) /\ Limit(probe.at) \in Nat
      /\ (self # None => self.age \in Nat) /\ refreshTimer \in 0..RefreshEvery
  BY LimitType DEF Inv, TypeOK
<1>1. CASE Refresh
  BY <1>0, <1>1, StageTypes DEF Refresh, Before
<1>2. ASSUME NEW s, NEW x, NEW h, Goto(s, x, h), probe.at # "off", s # "off",
             Before(s) >= Before(probe.at) + Limit(probe.at), Before(s) \in Nat,
             Before(probe.at) \in Nat, probe.at # "advertise", s # "advertise"
      PROVE  EntryAge'
  <2>1. probe'.at = s /\ probe'.age = 0 /\ self' = self
    BY <1>2 DEF Goto
  <2> QED
    BY <1>0, <1>2, <2>1
<1>3. CASE Collected \/ Probed \/ ProbeFails
  <2>1. /\ Before("collect") = 0 /\ Before("version") = CollectMax
        /\ Before("tags") = CollectMax + ProbeTimeout
        /\ Before("ps") = CollectMax + 2 * ProbeTimeout
        /\ Before("lock") = CollectMax + 3 * ProbeTimeout
        /\ Limit("collect") = CollectMax /\ Limit("version") = ProbeTimeout
        /\ Limit("tags") = ProbeTimeout /\ Limit("ps") = ProbeTimeout
    BY DEF Before, Limit
  <2>2. ASSUME NEW s, NEW x, NEW h, Goto(s, x, h),
               \/ probe.at = "collect" /\ s = "version"
               \/ probe.at = "version" /\ s \in {"tags", "lock"}
               \/ probe.at = "tags" /\ s = "ps"
               \/ probe.at = "ps" /\ s = "lock"
        PROVE  EntryAge'
    <3>1. /\ probe.at \notin {"off", "advertise"} /\ s \notin {"off", "advertise"}
          /\ Before(s) \in Nat /\ Before(probe.at) \in Nat
          /\ Before(s) >= Before(probe.at) + Limit(probe.at)
      BY <2>1, <2>2
    <3> QED
      BY <1>2, <2>2, <3>1
  <2>3. CASE Collected
    BY <2>2, <2>3 DEF Collected
  <2>4. CASE Probed
    BY <2>2, <2>4 DEF Probed
  <2>5. CASE ProbeFails
    BY <2>2, <2>5 DEF ProbeFails
  <2> QED
    BY <1>3, <2>3, <2>4, <2>5
<1>4. CASE Publish
  <2>1. /\ self' = [ok |-> probe.ok, has |-> probe.has, age |-> 0]
        /\ probe'.at \in {"off", "advertise"} /\ probe'.age = 0 /\ refreshTimer' = refreshTimer
    BY <1>4, StageTypes DEF Publish
  <2> QED
    BY <1>0, <2>1
<1>16. CASE Advertise
  <2>1. Limit("advertise") = AdvertiseMax
    BY DEF Limit
  <2> QED
    BY <1>0, <1>16, <2>1, StageTypes DEF Advertise
<1>5. ASSUME UNCHANGED <<probe, self, refreshTimer>> PROVE EntryAge'
  BY <1>0, <1>5
<1>6. CASE Stop
  BY <1>6 DEF Stop
<1>7. CASE Start
  BY <1>0, <1>7 DEF Start, TypeOK
<1>8. CASE Tick
  <2>3. self' # None => /\ self # None /\ self'.age <= self.age + 1 /\ self'.age \in Nat
    BY <1>0, <1>8 DEF Tick, Older, TypeOK
  <2>1. CASE probe.at = "off"
    <3>1. self # None => refreshTimer' = refreshTimer + 1
      BY <1>0, <1>8, <2>1 DEF Tick, Later, Due, Looping, TypeOK
    <3> QED
      BY <1>0, <1>8, <2>1, <2>3, <3>1 DEF Tick
  <2>2. CASE probe.at # "off"
    <3>1. probe'.at = probe.at /\ probe'.age = probe.age + 1
      BY <1>8, <2>2 DEF Tick, Inv, TypeOK
    <3>2. Before(probe.at) \in Nat
      BY DEF Before
    <3> QED
      BY <1>0, <2>2, <2>3, <3>1, <3>2
  <2> QED
    BY <2>1, <2>2
<1>9. ASSUME StartRound \/ EndRound \/ StartFetch \/ Answer \/ Upsert \/ FetchFails \/ UNCHANGED vars
      PROVE  UNCHANGED <<probe, self, refreshTimer>>
  BY <1>9 DEF StartRound, EndRound, StartFetch, Answer, Upsert, FetchFails, node, vars
<1>10. ASSUME NEW state, NEW pulled, Change(state, pulled)
       PROVE  UNCHANGED <<probe, self, refreshTimer>>
  BY <1>10 DEF Change, node
<1> QED
  BY <1>1, <1>3, <1>4, <1>5, <1>6, <1>7, <1>8, <1>9, <1>10, <1>16 DEF Next

LEMMA SpecInv == Spec => []Inv
<1>1. Inv /\ [Next]_vars => Inv'
  BY TypeStep, AgeStep DEF Inv
<1> QED
  BY InitInv, <1>1, PTL DEF Spec

\* The types of refreshSelf, its node's entry and the peer's: no refresh survives its
\* agent, and no entry lists models of an Ollama that did not give its version.
THEOREM TypeCorrect == Spec => []TypeOK
<1>1. Inv => TypeOK
  BY DEF Inv
<1> QED
  BY SpecInv, <1>1, PTL

\* A node that runs is never stale in its own eyes, whatever Ollama and nvidia-smi do:
\* the ticker and the timeouts of one refreshSelf add up to less than StaleAfter.
THEOREM OwnEntryStaysFresh == Spec => []OwnEntryIsFresh
<1>1. Inv => OwnEntryIsFresh
  <2>1. Limit("off") = 0
    BY DEF Limit
  <2>2. ASSUME Inv, self # None PROVE self.age <= SelfMax
    BY <2>2, Natural, LimitType
       DEF Inv, TypeOK, EntryAge, Before, Limit, Stages, SelfMax, RefreshMax
  <2> QED
    BY <2>2, FreshAssumption, Natural DEF OwnEntryIsFresh, Inv, TypeOK
<1> QED
  BY SpecInv, <1>1, PTL

-----------------------------------------------------------------------------
(***************************************************************************)
(* How old what a peer believes can be                                     *)
(***************************************************************************)

\* How long ago the model may have gone when the list that has it is published, and
\* when the next refresh starts.
Told  == ProbeTimeout + LockMax
Found == Told + AdvertiseMax + RefreshEvery

\* How long the own entry may say what has changed.
Outlived ==
  IF probe.at = "off" THEN Told + AdvertiseMax + refreshTimer
  ELSE IF probe.at = "advertise" THEN Told + probe.age
  ELSE Found + Before(probe.at) + probe.age

\* A list that has the model was true when Ollama gave it, and from stage to stage,
\* from the entry to the reply and from there to the peer's view it gets older.
Trust ==
  /\ Servable => unserved = 0
  /\ probe.has => \/ probe.at = "ps" /\ unserved <= probe.age
                  \/ probe.at = "lock" /\ unserved <= ProbeTimeout + probe.age
  /\ self # None /\ self.has => unserved <= Outlived
  /\ fetch # None /\ fetch.reply # None /\ fetch.reply.has =>
       unserved <= TwoRefreshes + fetch.age
  /\ view # None /\ view.has /\ view.age < StaleAfter =>
       unserved <= TwoRefreshes + FetchTimeout + view.age

\* The numbers of the stages.
LEMMA Stage ==
  /\ Before("collect") = 0 /\ Before("version") = CollectMax
  /\ Before("tags") = CollectMax + ProbeTimeout
  /\ Before("ps") = CollectMax + 2 * ProbeTimeout
  /\ Before("lock") = CollectMax + 3 * ProbeTimeout
  /\ Limit("collect") = CollectMax /\ Limit("version") = ProbeTimeout
  /\ Limit("tags") = ProbeTimeout /\ Limit("ps") = ProbeTimeout /\ Limit("lock") = LockMax
  /\ Before("advertise") = 0 /\ Limit("advertise") = AdvertiseMax /\ Limit("off") = 0
BY DEF Before, Limit

LEMMA Bounds ==
  /\ Told \in Nat /\ Told = ProbeTimeout + LockMax
  /\ Found \in Nat /\ Found = Told + AdvertiseMax + RefreshEvery
  /\ TwoRefreshes \in Nat /\ RefreshMax \in Nat /\ TwoRefreshes = Found + RefreshMax
  /\ RefreshMax = CollectMax + 3 * ProbeTimeout + LockMax
BY Natural DEF Told, Found, TwoRefreshes, RefreshMax, SelfMax

LEMMA TrustInit == Init => Trust
BY StageTypes, Natural DEF Init, Trust, Servable

\* Of the types, what the steps below need.
LEMMA Numbers ==
  ASSUME TypeOK
  PROVE  /\ probe.at \in Stages /\ probe.age \in 0..Limit(probe.at) /\ Limit(probe.at) \in Nat
         /\ refreshTimer \in 0..RefreshEvery /\ unserved \in Nat
         /\ (fetch # None => fetch.age \in 0..FetchTimeout)
         /\ (view # None => view.age \in 0..OldAge)
         /\ (probe.at # "off" => up)
         /\ (~up => self = None /\ probe.at = "off" /\ ~probe.has)
BY LimitType, StageTypes, Natural DEF TypeOK

\* Before the next refresh ends, the own entry has been replaced.
LEMMA OutlivedBound ==
  ASSUME TypeOK
  PROVE  /\ Outlived \in Nat /\ Outlived <= TwoRefreshes
         /\ \A n \in {"collect", "version", "tags", "ps", "lock"} :
              Before(n) \in Nat /\ Before(n) + Limit(n) <= RefreshMax
<1>1. \A n \in {"collect", "version", "tags", "ps", "lock"} :
        Before(n) \in Nat /\ Before(n) + Limit(n) <= RefreshMax
  BY Stage, Natural, Bounds
<1>2. CASE probe.at \in {"off", "advertise"}
  BY <1>2, Stage, Natural, Bounds, Numbers DEF Outlived
<1>3. CASE probe.at \notin {"off", "advertise"}
  <2>1. Before(probe.at) \in Nat /\ Before(probe.at) + Limit(probe.at) <= RefreshMax
        /\ probe.age \in 0..Limit(probe.at) /\ Limit(probe.at) \in Nat
    BY <1>1, <1>3, Numbers DEF Stages
  <2>2. Outlived = Found + Before(probe.at) + probe.age
    BY <1>3 DEF Outlived
  <2> QED
    BY <1>1, <2>1, <2>2, Bounds
<1> QED
  BY <1>1, <1>2, <1>3

\* A stage of refreshSelf follows another, and nothing else changes.
LEMMA StageStep ==
  ASSUME TypeOK, Collected \/ Probed \/ ProbeFails
  PROVE  /\ UNCHANGED <<self, refreshTimer, round, others, fetch, pollTimer, view, unserved,
                        steady, up, ollama, has>>
         /\ probe'.age = 0
         /\ \/ probe.at = "collect" /\ probe'.at = "version" /\ ~probe'.has
            \/ probe.at = "version" /\ probe'.at \in {"tags", "lock"} /\ ~probe'.has
            \/ probe.at = "tags" /\ probe'.at = "ps"
            \/ probe.at = "ps" /\ probe'.at = "lock" /\ probe'.has = probe.has
BY DEF Collected, Probed, ProbeFails, Goto, peer, world, past

\* Until it is replaced, the bound grows with time, and no stage of a refresh lowers it.
LEMMA OutlivedTick ==
  ASSUME TypeOK, Tick, up
  PROVE  Outlived' = Outlived + 1
<1> USE Natural, Bounds, Numbers
<1>1. CASE probe.at = "off"
  <2>1. Looping /\ refreshTimer < RefreshEvery /\ probe' = probe
    BY <1>1 DEF Looping, TypeOK, Tick, Due
  <2>2. refreshTimer' = refreshTimer + 1
    BY <2>1 DEF Tick, Later
  <2> QED
    BY <1>1, <2>1, <2>2 DEF Outlived
<1>2. CASE probe.at # "off"
  <2>1. probe'.at = probe.at /\ probe'.age = probe.age + 1
    BY <1>2 DEF Tick, TypeOK
  <2>2. Before(probe.at) \in Nat
    BY DEF Before
  <2> QED
    BY <1>2, <2>1, <2>2 DEF Outlived
<1> QED
  BY <1>1, <1>2

LEMMA OutlivedStage ==
  ASSUME TypeOK, Refresh \/ Collected \/ Probed \/ ProbeFails \/ Advertise
  PROVE  Outlived' \in Nat /\ Outlived' >= Outlived
<1> USE Natural, Bounds, Numbers, Stage
<1>1. CASE Refresh
  BY <1>1, StageTypes DEF Refresh, Outlived
<1>2. CASE Collected \/ Probed \/ ProbeFails
  <2>1. Outlived = Found + Before(probe.at) + probe.age
    BY <1>2, StageStep DEF Outlived
  <2>2. Outlived' = Found + Before(probe'.at) + 0
    BY <1>2, StageStep DEF Outlived
  <2>3. /\ Before(probe'.at) \in Nat /\ Before(probe.at) \in Nat
        /\ Before(probe'.at) >= Before(probe.at) + Limit(probe.at)
    BY <1>2, StageStep
  <2> QED
    BY <2>1, <2>2, <2>3
<1>3. CASE Advertise
  BY <1>3, StageTypes DEF Advertise, Outlived
<1> QED
  BY <1>1, <1>2, <1>3

LEMMA TrustStep == TypeOK /\ Trust /\ [Next]_vars => Trust'
<1> SUFFICES ASSUME TypeOK, Trust, [Next]_vars PROVE Trust'
  OBVIOUS
<1> USE Natural, Bounds, Numbers
<1>1. CASE Refresh \/ Advertise
  <2>1. UNCHANGED <<self, fetch, view, unserved, up, ollama, has>> /\ ~probe'.has
    BY <1>1, StageTypes DEF Refresh, Advertise, peer, world, past
  <2>2. Outlived' \in Nat /\ Outlived' >= Outlived /\ Outlived \in Nat
    BY <1>1, OutlivedStage, OutlivedBound
  <2> QED
    BY <2>1, <2>2 DEF Trust, Servable
<1>3. CASE Collected \/ Probed \/ ProbeFails
  <2>1. /\ UNCHANGED <<self, fetch, view, unserved, up, ollama, has>>
        /\ Outlived' \in Nat /\ Outlived' >= Outlived /\ Outlived \in Nat
    BY <1>3, StageStep, OutlivedStage, OutlivedBound
  <2>3. probe'.has => \/ probe'.at = "ps" /\ Servable
                      \/ probe'.at = "lock" /\ probe.at = "ps" /\ probe.has
    BY <1>3 DEF Collected, Probed, ProbeFails, Goto, NoModels, Servable
  <2>4. probe'.age = 0
    BY <1>3, StageStep
  <2>5. probe'.has => \/ probe'.at = "ps" /\ unserved <= probe'.age
                      \/ probe'.at = "lock" /\ unserved <= ProbeTimeout + probe'.age
    BY <2>3, <2>4, Stage DEF Trust
  <2> QED
    BY <2>1, <2>5 DEF Trust, Servable
<1>4. CASE Publish
  <2>1. /\ self' = [ok |-> probe.ok, has |-> probe.has, age |-> 0] /\ probe.at = "lock"
        /\ probe'.at \in {"off", "advertise"} /\ probe'.age = 0 /\ ~probe'.has
        /\ UNCHANGED <<refreshTimer, fetch, view, unserved, up, ollama, has>>
    BY <1>4, StageTypes DEF Publish, peer, world, past
  <2>2. probe.has => unserved <= Told
    BY <2>1, Stage DEF Trust
  <2>3. Outlived' \in Nat /\ Outlived' >= Told
    BY <2>1 DEF Outlived
  <2> QED
    BY <2>1, <2>2, <2>3 DEF Trust, Servable
<1>5. CASE StartRound \/ StartFetch \/ EndRound \/ FetchFails
  BY <1>5 DEF Trust, StartRound, StartFetch, EndRound, FetchFails, node, world, past, Servable,
              Outlived
<1>6. CASE Answer
  <2>1. self.has => unserved <= TwoRefreshes
    BY <1>6, OutlivedBound DEF Trust, Answer, Looping
  <2> QED
    BY <1>6, <2>1 DEF Trust, Answer, node, world, past, Servable, Outlived
<1>7. CASE Upsert
  BY <1>7 DEF Trust, Upsert, node, world, past, Servable, Outlived
<1>8. CASE Stop
  BY <1>8, StageTypes DEF Trust, Stop, peer, Servable
<1>9. CASE Start
  BY <1>9, StageTypes DEF Trust, Start, peer, Servable
<1>10. ASSUME NEW state, NEW pulled, Change(state, pulled) PROVE Trust'
  <2>1. /\ UNCHANGED <<probe, self, refreshTimer, fetch, view>>
        /\ unserved' = IF Servable' THEN 0 ELSE unserved
    BY <1>10 DEF Change, node, peer
  <2>2. unserved' \in Nat /\ unserved' <= unserved /\ (Servable' => unserved' = 0)
    BY <2>1
  <2>3. Outlived' = Outlived /\ Outlived \in Nat
    BY <2>1, OutlivedBound DEF Outlived
  <2> QED
    BY <2>1, <2>2, <2>3 DEF Trust
<1>12. CASE UNCHANGED vars
  BY <1>12 DEF Trust, vars, Servable, Outlived
<1>11. CASE Tick
  <2>1. Servable' = Servable
    BY <1>11 DEF Tick, Servable, world
  <2>2. unserved' \in Nat /\ unserved' <= unserved + 1 /\ (Servable => unserved' = 0)
    BY <1>11 DEF Tick, Later
  <2>3. self' # None => self # None /\ self'.has = self.has
    BY <1>11 DEF Tick, Older, TypeOK
  <2>4. fetch' # None /\ fetch'.reply # None =>
          fetch # None /\ fetch'.reply = fetch.reply /\ fetch'.age = fetch.age + 1
    <3>1. ASSUME fetch # None PROVE fetch' = [fetch EXCEPT !.age = fetch.age + 1]
      <4>1. fetch.age # FetchTimeout
        BY <1>11, <3>1 DEF Tick, Due
      <4>2. fetch' = Older(fetch, FetchTimeout)
        BY <1>11 DEF Tick
      <4>3. fetch.age < FetchTimeout
        BY <3>1, <4>1
      <4> QED
        BY <3>1, <4>2, <4>3, Zenon DEF Older
    <3>2. fetch = None => fetch' = None
      BY <1>11 DEF Tick, Older
    <3> QED
      BY <3>1, <3>2 DEF TypeOK
  <2>5. view' # None /\ view'.age < StaleAfter =>
          view # None /\ (view'.has => view.has) /\ view'.age = view.age + 1
    BY <1>11 DEF Tick, Older, TypeOK
  <2>6. fetch' # None /\ fetch'.reply # None /\ fetch'.reply.has =>
          unserved' <= TwoRefreshes + fetch'.age
    BY <2>2, <2>4 DEF Trust
  <2>7. view' # None /\ view'.has /\ view'.age < StaleAfter =>
          unserved' <= TwoRefreshes + FetchTimeout + view'.age
    <3> SUFFICES ASSUME view' # None, view'.has, view'.age < StaleAfter
                 PROVE  unserved' <= TwoRefreshes + FetchTimeout + view'.age
      OBVIOUS
    <3>1. view # None /\ view.has /\ view'.age = view.age + 1 /\ view.age \in Nat
      BY <2>5
    <3>2. view.age < StaleAfter
      BY <3>1
    <3>3. unserved <= TwoRefreshes + FetchTimeout + view.age
      BY <3>1, <3>2 DEF Trust
    <3> QED
      BY <2>2, <3>1, <3>3
  <2>8. self' # None /\ self'.has => unserved' <= Outlived'
    <3> SUFFICES ASSUME self' # None, self'.has PROVE unserved' <= Outlived'
      OBVIOUS
    <3>1. up /\ unserved <= Outlived
      BY <2>3 DEF Trust
    <3> QED
      BY <1>11, <2>2, <3>1, OutlivedTick, OutlivedBound
  <2>9. probe'.at = probe.at /\ probe'.has = probe.has
        /\ (probe.at # "off" => probe'.age = probe.age + 1)
    BY <1>11 DEF Tick, TypeOK
  <2>10. probe'.has => \/ probe'.at = "ps" /\ unserved' <= probe'.age
                       \/ probe'.at = "lock" /\ unserved' <= ProbeTimeout + probe'.age
    BY <2>2, <2>9 DEF Trust
  <2> QED
    BY <2>1, <2>2, <2>6, <2>7, <2>8, <2>10 DEF Trust
<1> QED
  BY <1>1, <1>3, <1>4, <1>5, <1>6, <1>7, <1>8, <1>9, <1>10, <1>11, <1>12 DEF Next

\* A peer that routes a model to the node goes by what was true at most TrustLag ago,
\* for any tickers and timeouts of refreshSelf, pollPeers and eligible.
THEOREM BeliefIsBounded == Spec => []BelievedWasTrue
<1>1. TypeOK /\ Trust => BelievedWasTrue
  <2> SUFFICES ASSUME TypeOK, Trust, Believed PROVE unserved <= TrustLag
    BY DEF BelievedWasTrue
  <2> QED
    BY Natural, Bounds, Numbers DEF Trust, Believed, TrustLag
<1> QED
  BY TrustInit, TrustStep, TypeCorrect, <1>1, PTL DEF Spec

-----------------------------------------------------------------------------
(***************************************************************************)
(* How soon a peer knows                                                   *)
(***************************************************************************)

Missing(entry) == entry = None \/ ~entry.has

\* Two rounds begin no further apart than this, if the node is asked in no time.
QuickRound == Larger(PollEvery, OthersMax)

\* How old the view is at most if it comes from this round or the one before.
ViewAge ==
  IF round = "off" THEN IF pollTimer = PollEvery THEN QuickRound ELSE pollTimer
  ELSE IF round = "before" THEN QuickRound + others
  ELSE IF fetch = None THEN others
  ELSE QuickRound + others + fetch.age

\* The view has the model and comes from this round or the one before.
Polled ==
  /\ ~Missing(view) /\ view.age <= ViewAge
  /\ round = "after" /\ fetch = None => pollTimer = PollEvery \/ view.age <= pollTimer

\* How long an answer without the model can have been heard.
Unheard ==
  IF round = "off" THEN IF pollTimer = PollEvery THEN RoundMax ELSE pollTimer
  ELSE IF round = "before" THEN RoundMax + others
  ELSE IF fetch = None THEN FetchTimeout + others
  ELSE RoundMax + others + fetch.age

\* The mirror of Trust: a list without the model was true when Ollama gave it, or
\* Ollama did not answer, and an entry without it has not outlived the refresh that
\* follows, a reply the fetch, the view the round after.
Seen ==
  /\ ~Servable => steady = 0
  /\ ~probe.has => /\ probe.at = "ps" => steady <= probe.age
                   /\ probe.at = "lock" => steady <= ProbeTimeout + probe.age
  /\ up /\ Missing(self) => steady <= Outlived
  /\ up /\ self = None => steady <= Before(probe.at) + probe.age
  /\ probe.at = "advertise" => steady <= RefreshMax + probe.age
  /\ round # "off" =>
       pollTimer = PollEvery \/ others + (IF fetch = None THEN 0 ELSE fetch.age) <= pollTimer
  /\ fetch # None /\ fetch.reply # None /\ ~fetch.reply.has =>
       steady <= TwoRefreshes + fetch.age
  /\ ~Polled =>
       /\ steady <= TwoRefreshes + Unheard
       /\ round = "after" /\ fetch = None =>
            pollTimer = PollEvery \/ steady <= TwoRefreshes + pollTimer

LEMMA Polls ==
  /\ RoundMax \in Nat /\ PollEvery <= RoundMax /\ OthersMax + FetchTimeout <= RoundMax
  /\ QuickRound \in Nat /\ PollEvery <= QuickRound /\ OthersMax <= QuickRound
  /\ ViewMax = QuickRound + OthersMax + FetchTimeout
  /\ SeenLag = TwoRefreshes + RoundMax + OthersMax + FetchTimeout
BY Natural DEF Larger, RoundMax, QuickRound, ViewMax, SeenLag

\* Of the types, what the steps below need.
LEMMA PollNumbers ==
  ASSUME TypeOK
  PROVE  /\ steady \in Nat /\ pollTimer \in 0..PollEvery /\ others \in 0..OthersMax
         /\ round \in {"off", "before", "after"} /\ (fetch # None => round = "after")
         /\ (round = "off" => others = 0)
         /\ ViewAge \in Nat /\ ViewAge <= ViewMax
         /\ Unheard \in Nat /\ TwoRefreshes + Unheard <= SeenLag
<1>1. /\ steady \in Nat /\ pollTimer \in 0..PollEvery /\ others \in 0..OthersMax
      /\ round \in {"off", "before", "after"} /\ (fetch # None => round = "after")
      /\ (round = "off" => others = 0)
  BY Natural DEF TypeOK
<1>2. ViewAge \in Nat /\ ViewAge <= ViewMax
  BY <1>1, Natural, Bounds, Polls, Numbers DEF ViewAge
<1>3. Unheard \in Nat /\ TwoRefreshes + Unheard <= SeenLag
  BY <1>1, Natural, Bounds, Polls, Numbers DEF Unheard
<1> QED
  BY <1>1, <1>2, <1>3

LEMMA SeenInit == Init => Seen
<1> SUFFICES ASSUME Init PROVE Seen
  OBVIOUS
<1>0. TypeOK
  BY InitInv DEF Inv
<1>1. Outlived \in Nat /\ Unheard \in Nat /\ Before("collect") = 0 /\ TwoRefreshes \in Nat
  BY <1>0, Stage, Bounds, OutlivedBound, PollNumbers
<1> QED
  BY <1>1, StageTypes, Natural DEF Init, Seen, Servable

\* A node that answers no fetch, or without the model, has not been able to serve for
\* long: it is down, or its first refresh is not over, or the second.
LEMMA LongEnough ==
  ASSUME TypeOK, Seen, Missing(self) \/ ~Looping
  PROVE  steady <= TwoRefreshes
<1> USE Natural, Bounds, Numbers, PollNumbers
<1>1. CASE ~up
  BY <1>1 DEF Seen, Servable
<1>2. CASE up /\ Missing(self)
  BY <1>2, OutlivedBound DEF Seen
<1>3. CASE up /\ probe.at = "advertise"
  BY <1>3, Stage DEF Seen, Found
<1> QED
  BY <1>1, <1>2, <1>3 DEF Looping, Missing

\* A bound that held a tick ago still does if it has grown with the time.
LEMMA Carried ==
  ASSUME NEW n \in Nat, NEW m \in Nat, NEW lag \in Nat, NEW a \in Nat, NEW b \in Nat,
         n <= lag + a, m <= n + 1, b >= a + 1
  PROVE  m <= lag + b
OBVIOUS

LEMMA SeenStep == TypeOK /\ Seen /\ [Next]_vars => Seen'
<1> SUFFICES ASSUME TypeOK, Seen, [Next]_vars PROVE Seen'
  OBVIOUS
<1> USE Natural, Bounds, Numbers, Polls, PollNumbers
<1>a. ASSUME UNCHANGED peer PROVE Polled' = Polled /\ Unheard' = Unheard
  BY <1>a DEF peer, Polled, ViewAge, Unheard, Missing
<1>b. ASSUME UNCHANGED node PROVE Outlived' = Outlived
  BY <1>b DEF node, Outlived
<1>1. CASE Refresh \/ Advertise
  <2>1. UNCHANGED <<self, peer, steady, up, ollama, has>>
        /\ probe'.at \in {"off", "collect"} /\ probe'.age = 0 /\ (up => self # None)
    BY <1>1, StageTypes DEF Refresh, Advertise, peer, world, past, TypeOK
  <2>2. Outlived' \in Nat /\ Outlived' >= Outlived /\ Outlived \in Nat
    BY <1>1, OutlivedStage, OutlivedBound
  <2> QED
    BY <1>a, <2>1, <2>2 DEF Seen, Servable, Missing, peer
<1>3. CASE Collected \/ Probed \/ ProbeFails
  <2>1. /\ UNCHANGED <<self, peer, steady, up, ollama, has>> /\ probe'.age = 0
        /\ Outlived' \in Nat /\ Outlived' >= Outlived /\ Outlived \in Nat
    BY <1>3, StageStep, OutlivedStage, OutlivedBound DEF peer
  <2>2. ~probe'.has /\ probe'.at = "ps" => ~Servable
    BY <1>3 DEF Collected, Probed, ProbeFails, Goto, NoModels, Servable
  <2>3. ~Servable \/ (probe.at = "ps" /\ ~probe.has) \/ probe'.at # "lock" \/ probe'.has
    BY <1>3 DEF Collected, Probed, ProbeFails, Goto, NoModels, Servable
  <2>4. ~probe'.has => /\ probe'.at = "ps" => steady <= probe'.age
                       /\ probe'.at = "lock" => steady <= ProbeTimeout + probe'.age
    BY <2>1, <2>2, <2>3, Stage DEF Seen
  <2>5. up /\ self = None => steady <= Before(probe'.at) + probe'.age
    <3>1. /\ Before(probe'.at) \in Nat /\ Before(probe.at) \in Nat
          /\ Before(probe'.at) >= Before(probe.at) + Limit(probe.at)
      BY <1>3, StageStep, Stage
    <3> QED
      BY <2>1, <3>1 DEF Seen
  <2>6. probe'.at # "advertise"
    BY <1>3, StageStep
  <2> QED
    BY <1>a, <2>1, <2>4, <2>5, <2>6 DEF Seen, Servable, Missing, peer
<1>4. CASE Publish
  <2>1. /\ self' = [ok |-> probe.ok, has |-> probe.has, age |-> 0] /\ probe.at = "lock"
        /\ probe'.at = (IF self = None THEN "advertise" ELSE "off") /\ probe'.age = 0
        /\ UNCHANGED <<refreshTimer, peer, up, ollama, has, steady>>
    BY <1>4, StageTypes DEF Publish, world, past
  <2>2. self' # None /\ self'.has = probe.has
    BY <2>1, NoneAssumption DEF TypeOK
  <2>3. ~probe.has => steady <= Told
    BY <2>1, Stage DEF Seen
  <2>4. Outlived' \in Nat /\ Outlived' >= Told
    BY <2>1 DEF Outlived
  <2>5. up /\ self = None => steady <= RefreshMax
    BY <2>1, Stage DEF Seen
  <2> QED
    BY <1>a, <2>1, <2>2, <2>3, <2>4, <2>5 DEF Seen, Missing, Servable, peer
<1>5. CASE StartRound \/ StartFetch \/ EndRound
  <2>1. UNCHANGED <<view, node, world, steady>>
    BY <1>5 DEF StartRound, StartFetch, EndRound, past
  <2>2. fetch' # None => fetch'.age = 0 /\ fetch'.reply = None
    BY <1>5, NoneAssumption DEF StartRound, StartFetch, EndRound
  <2>4. Polled => Polled'
    BY <1>5, <2>1, <2>2, NoneAssumption
       DEF StartRound, StartFetch, EndRound, ViewAge, Polled, Missing
  <2>5. ~Polled' => steady <= TwoRefreshes + Unheard'
    BY <1>5, <2>2, <2>4, NoneAssumption
       DEF StartRound, StartFetch, EndRound, Seen, Unheard
  <2>6. round' = "after" => fetch' # None
    BY <1>5, NoneAssumption DEF StartRound, StartFetch, EndRound
  <2>7. round' # "off" =>
          pollTimer' = PollEvery \/ others' + (IF fetch' = None THEN 0 ELSE fetch'.age) <= pollTimer'
    BY <1>5, <2>2, NoneAssumption DEF StartRound, StartFetch, EndRound, Seen
  <2> QED
    BY <1>b, <2>1, <2>2, <2>4, <2>5, <2>6, <2>7 DEF Seen, node, world, Servable, Missing
<1>6. CASE Answer
  <2>1. Missing(self) => steady <= TwoRefreshes
    BY LongEnough
  <2>2. /\ fetch # None /\ self # None
        /\ fetch' = [fetch EXCEPT !.reply = [ok |-> self.ok, has |-> self.has]]
        /\ UNCHANGED <<round, others, pollTimer, view, node, world, steady>>
    BY <1>6 DEF Answer, Looping, past
  <2>3. fetch' # None /\ fetch'.age = fetch.age /\ fetch'.reply.has = self.has
    <3>1. fetch' = [age |-> fetch.age, reply |-> [ok |-> self.ok, has |-> self.has]]
      BY <2>2 DEF TypeOK
    <3>2. fetch' \in [age : Nat, reply : {None} \cup Reports]
      <4>1. /\ self.ok \in BOOLEAN /\ self.has \in BOOLEAN /\ (self.has => self.ok)
            /\ fetch.age \in Nat
        BY <2>2 DEF TypeOK
      <4>2. [ok |-> self.ok, has |-> self.has] \in Reports
        BY <4>1 DEF Reports
      <4> QED
        BY <3>1, <4>1, <4>2
    <3> QED
      BY <3>1, <3>2, NoneAssumption
  <2>4. Polled' = Polled /\ Unheard' = Unheard
    BY <2>2, <2>3 DEF Polled, ViewAge, Unheard, Missing
  <2>5. ~self.has => steady <= TwoRefreshes + fetch.age
    BY <2>1, <2>2 DEF Missing
  <2> QED
    BY <1>b, <2>2, <2>3, <2>4, <2>5 DEF Seen, node, world, Servable, Missing
<1>7. CASE Upsert
  <2>1. /\ fetch # None /\ fetch.reply # None /\ fetch' = None
        /\ view' = [ok |-> fetch.reply.ok, has |-> fetch.reply.has, age |-> 0]
        /\ UNCHANGED <<round, others, pollTimer, node, world, steady>>
    BY <1>7 DEF Upsert, past
  <2>2. view' # None /\ view'.has = fetch.reply.has /\ view'.age = 0
    BY <2>1, NoneAssumption DEF TypeOK, Reports
  <2>3. round' = "after" /\ ViewAge' = others /\ Unheard' = FetchTimeout + others
    BY <2>1 DEF ViewAge, Unheard
  <2>4. fetch.reply.has => Polled'
    BY <2>2, <2>3, <2>1 DEF Polled, Missing
  <2>5. ~fetch.reply.has => /\ steady <= TwoRefreshes + fetch.age
                            /\ pollTimer = PollEvery \/ others + fetch.age <= pollTimer
    BY <2>1 DEF Seen
  <2>6. ~Polled' => /\ steady <= TwoRefreshes + Unheard'
                    /\ pollTimer = PollEvery \/ steady <= TwoRefreshes + pollTimer
    BY <2>1, <2>3, <2>4, <2>5
  <2>7. round # "off" => pollTimer = PollEvery \/ others <= pollTimer
    BY <2>1 DEF Seen
  <2> QED
    BY <1>b, <2>1, <2>6, <2>7 DEF Seen, node, world, Servable, Missing
<1>8. CASE FetchFails
  <2>1. steady <= TwoRefreshes
    BY <1>8, LongEnough DEF FetchFails
  <2>2. /\ fetch # None /\ fetch' = None
        /\ UNCHANGED <<round, others, pollTimer, view, node, world, steady>>
    BY <1>8 DEF FetchFails, past
  <2>3. Unheard' = FetchTimeout + others /\ round' = "after"
    BY <2>2 DEF Unheard
  <2>4. pollTimer = PollEvery \/ others <= pollTimer
    BY <2>2 DEF Seen
  <2> QED
    BY <1>b, <2>1, <2>2, <2>3, <2>4 DEF Seen, node, world, Servable, Missing
<1>9. CASE Stop
  <2>1. steady' = 0 /\ up' = FALSE /\ probe'.at = "off" /\ UNCHANGED peer
    BY <1>9, StageTypes DEF Stop
  <2> QED
    BY <1>a, <2>1 DEF Seen, peer, Servable
<1>10. CASE Start
  <2>1. steady = 0 /\ steady' = 0 /\ UNCHANGED peer /\ self' = None /\ probe'.at = "collect"
        /\ probe'.age = 0
    BY <1>10, StageTypes DEF Start, Seen, Servable
  <2>2. Outlived' = Found
    BY <2>1, Stage DEF Outlived
  <2> QED
    BY <1>a, <2>1, <2>2, Stage DEF Seen, peer
<1>11. ASSUME NEW state, NEW pulled, Change(state, pulled) PROVE Seen'
  <2>1. UNCHANGED <<up, node, peer>>
    BY <1>11 DEF Change
  <2>2. steady' \in Nat /\ steady' <= steady /\ (~Servable' => steady' = 0)
    BY <1>11 DEF Change, Seen, Servable
  <2>3. Before(probe.at) \in Nat /\ Outlived \in Nat
    BY OutlivedBound DEF Before
  <2> QED
    BY <1>a, <1>b, <2>1, <2>2, <2>3 DEF Seen, node, peer, Missing
<1>12. CASE UNCHANGED vars
  BY <1>a, <1>b, <1>12 DEF Seen, vars, node, peer, Servable, Missing
<1>13. CASE Tick
  <2>1. Servable' = Servable /\ up' = up /\ round' = round
    BY <1>13 DEF Tick, Servable, world
  <2>2. steady' \in Nat /\ steady' <= steady + 1 /\ (~Servable => steady' = 0)
    BY <1>13 DEF Tick, Later
  <2>3. (Missing(self)' => Missing(self)) /\ (self' = None => self = None)
    <3>1. ASSUME self # None PROVE self' # None /\ self'.has = self.has
      <4>1. self' = [self EXCEPT !.age = IF self.age < SelfMax + 1 THEN self.age + 1
                                         ELSE SelfMax + 1]
        BY <1>13, <3>1 DEF Tick, Older
      <4>2. self' \in [ok : BOOLEAN, has : BOOLEAN, age : Nat] /\ self'.has = self.has
        BY <3>1, <4>1 DEF TypeOK
      <4> QED
        BY <4>2, NoneAssumption
    <3> QED
      BY <3>1 DEF Missing
  <2>4. /\ (fetch' = None) = (fetch = None)
        /\ fetch # None => fetch'.reply = fetch.reply /\ fetch'.age = fetch.age + 1
    <3>1. ASSUME fetch # None
          PROVE  fetch' = [fetch EXCEPT !.age = fetch.age + 1] /\ fetch' # None
      <4>1. fetch' = [fetch EXCEPT !.age = fetch.age + 1]
        BY <1>13, <3>1 DEF Tick, Older, Due
      <4>2. fetch' \in [age : Nat, reply : {None} \cup Reports]
        BY <3>1, <4>1 DEF TypeOK
      <4> QED
        BY <4>1, <4>2, NoneAssumption
    <3>2. fetch = None => fetch' = None
      BY <1>13 DEF Tick, Older
    <3> QED
      BY <3>1, <3>2 DEF TypeOK
  <2>5. /\ pollTimer' = IF pollTimer < PollEvery THEN pollTimer + 1 ELSE PollEvery
        /\ round = "off" => pollTimer < PollEvery
        /\ others' = IF round # "off" /\ fetch = None THEN others + 1 ELSE others
    BY <1>13 DEF Tick, Later, Due
  <2>6. /\ ViewAge' \in Nat /\ ViewAge' >= ViewAge + 1
        /\ Unheard' \in Nat /\ Unheard' >= Unheard + 1
    BY <2>1, <2>4, <2>5 DEF ViewAge, Unheard
  <2>7. Polled => Polled'
    <3> SUFFICES ASSUME Polled PROVE Polled'
      OBVIOUS
    <3>1. view # None /\ view.has
      BY DEF Polled, Missing
    <3>2. view' = [view EXCEPT !.age = IF view.age < OldAge THEN view.age + 1 ELSE OldAge]
      BY <1>13, <3>1 DEF Tick, Older
    <3>3. view' \in [ok : BOOLEAN, has : BOOLEAN, age : Nat] /\ view'.has
          /\ view'.age <= view.age + 1 /\ view.age \in Nat /\ view'.age \in Nat
      BY <3>1, <3>2 DEF TypeOK
    <3>4. view' # None
      BY <3>3, NoneAssumption
    <3> QED
      BY <2>1, <2>4, <2>5, <2>6, <3>1, <3>3, <3>4 DEF Polled, Missing
  <2>8. ~Polled' =>
          /\ steady' <= TwoRefreshes + Unheard'
          /\ round' = "after" /\ fetch' = None =>
               pollTimer' = PollEvery \/ steady' <= TwoRefreshes + pollTimer'
    <3> SUFFICES ASSUME ~Polled'
                 PROVE  /\ steady' <= TwoRefreshes + Unheard'
                        /\ round' = "after" /\ fetch' = None =>
                             pollTimer' = PollEvery \/ steady' <= TwoRefreshes + pollTimer'
      OBVIOUS
    <3>1. /\ steady <= TwoRefreshes + Unheard
          /\ round = "after" /\ fetch = None =>
               pollTimer = PollEvery \/ steady <= TwoRefreshes + pollTimer
      BY <2>7 DEF Seen
    <3>2. /\ steady \in Nat /\ Unheard \in Nat /\ TwoRefreshes \in Nat
          /\ PollEvery \in Nat /\ pollTimer \in 0..PollEvery
      BY PollNumbers, Bounds, Natural
    <3>3. steady' <= TwoRefreshes + Unheard'
      BY <2>2, <2>6, <3>1, <3>2, Carried
    <3>4. round' = "after" /\ fetch' = None =>
            pollTimer' = PollEvery \/ steady' <= TwoRefreshes + pollTimer'
      BY ONLY <2>1, <2>2, <2>4, <2>5, <3>1, <3>2
    <3> QED
      BY <3>3, <3>4
  <2>9. fetch' # None /\ fetch'.reply # None /\ ~fetch'.reply.has =>
          steady' <= TwoRefreshes + fetch'.age
    BY <2>2, <2>4 DEF Seen
  <2>10. round' # "off" =>
          pollTimer' = PollEvery \/ others' + (IF fetch' = None THEN 0 ELSE fetch'.age) <= pollTimer'
    BY <2>1, <2>4, <2>5 DEF Seen
  <2>11. up /\ Missing(self)' => steady' <= Outlived'
    BY <1>13, <2>2, <2>3, OutlivedTick, OutlivedBound DEF Seen
  <2>12. /\ probe'.at = probe.at /\ probe'.has = probe.has
         /\ probe.at # "off" => probe'.age = probe.age + 1
         /\ Before(probe.at) \in Nat
    BY <1>13 DEF Tick, TypeOK, Before
  <2>13. up /\ self = None => probe.at # "off"
    BY DEF TypeOK
  <2>14. /\ ~probe'.has => /\ probe'.at = "ps" => steady' <= probe'.age
                           /\ probe'.at = "lock" => steady' <= ProbeTimeout + probe'.age
         /\ up /\ self' = None => steady' <= Before(probe'.at) + probe'.age
         /\ probe'.at = "advertise" => steady' <= RefreshMax + probe'.age
    BY <2>2, <2>3, <2>12, <2>13 DEF Seen
  <2> QED
    BY <2>1, <2>2, <2>8, <2>9, <2>10, <2>11, <2>14 DEF Seen
<1> QED
  BY <1>1, <1>3, <1>4, <1>5, <1>6, <1>7, <1>8, <1>9, <1>10, <1>11, <1>12, <1>13 DEF Next

\* What a node has been able to serve for SeenLag, every peer's entry says, and is no
\* older than ViewMax, for any tickers and timeouts of refreshSelf and pollPeers and
\* however many addresses the peer asks in vain.
THEOREM BeliefArrives == Spec => []TruthIsSeen
<1>1. TypeOK /\ Seen => TruthIsSeen
  <2> SUFFICES ASSUME TypeOK, Seen, steady > SeenLag
               PROVE  view # None /\ view.ok /\ view.has /\ view.age <= ViewMax
    BY DEF TruthIsSeen
  <2>1. Polled
    BY Natural, Bounds, Polls, PollNumbers DEF Seen
  <2>2. view # None /\ view.has /\ view.age \in Nat /\ view.age <= ViewAge
    BY <2>1, Natural, Numbers DEF Polled, Missing
  <2>3. view.ok
    BY <2>2 DEF TypeOK
  <2> QED
    BY <2>2, <2>3, PollNumbers, Natural
<1> QED
  BY SeenInit, SeenStep, TypeCorrect, <1>1, PTL DEF Spec
=============================================================================
