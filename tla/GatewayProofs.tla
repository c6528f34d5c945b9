----------------------------- MODULE GatewayProofs -----------------------------
(***************************************************************************)
(* Proofs about Gateway, for any pool and any finite number of requests.   *)
(***************************************************************************)
EXTENDS Gateway, FiniteSetTheorems, SequenceTheorems, TLAPS

\* What Active counts at n: requests for its own Ollama, and those its proxies serve.
ProxiedAt(n) == {r \in Requests : hop[r].pc \in {"run", "stream"} /\ hop[r].to = n}
CountedAt(n) == OwnAt(n) \cup ProxiedAt(n)

ActiveIsCounted == \A n \in Nodes : active[n] = Cardinality(CountedAt(n))

\* The conjunction is inductive.  That active never falls below zero (TypeOK) needs
\* ActiveIsCounted, and that a request is counted once needs TypeOK: one that is
\* in this node's engine has no hop.
Inv == TypeOK /\ ActiveIsCounted

\* The sets that are counted are finite.
LEMMA CountedFinite ==
  ASSUME NEW n PROVE IsFiniteSet(CountedAt(n)) /\ Cardinality(CountedAt(n)) \in Nat
<1>1. CountedAt(n) \in SUBSET Requests
  BY DEF CountedAt, OwnAt, ProxiedAt
<1> QED
  BY <1>1, RequestsAssumption, FS_Subset, FS_CardinalityType

LEMMA InitInv == Init => Inv
<1> SUFFICES ASSUME Init PROVE Inv
  OBVIOUS
<1>1. TypeOK
  BY NodesAssumption DEF Init, TypeOK, NoReq, NoHop, PC, Kinds, InForward, Local
<1>2. \A n : CountedAt(n) = {}
  BY DEF Init, CountedAt, OwnAt, ProxiedAt, InForward, NoReq, NoHop
<1>3. ActiveIsCounted
  BY <1>2, FS_EmptySet DEF Init, ActiveIsCounted
<1> QED
  BY <1>1, <1>3 DEF Inv

-----------------------------------------------------------------------------
(***************************************************************************)
(* Types                                                                   *)
(***************************************************************************)

\* Leave is called for a node that has a request to leave.
LEMMA ActiveIsPositive ==
  ASSUME Inv, NEW n \in Nodes, CountedAt(n) # {} PROVE active[n] \in Nat \ {0}
BY CountedFinite, FS_EmptySet DEF Inv, TypeOK, ActiveIsCounted

\* The steps that count, and those that do not, keep the counters' types.
CountersOK == active \in [Nodes -> Nat] /\ served \in [Nodes -> Nat]

LEMMA CountersStep == Inv /\ [Next]_vars => CountersOK'
<1> SUFFICES ASSUME Inv, [Next]_vars PROVE CountersOK'
  OBVIOUS
<1>0. CountersOK
  BY DEF Inv, TypeOK, CountersOK
<1>1. ASSUME NEW n \in Nodes, Enter(n) PROVE CountersOK'
  BY <1>0, <1>1 DEF CountersOK, Enter
<1>2. ASSUME NEW n \in Nodes, CountedAt(n) # {}, Leave(n) PROVE CountersOK'
  BY <1>0, <1>2, ActiveIsPositive DEF CountersOK, Leave
<1>3. ASSUME UNCHANGED <<active, served>> PROVE CountersOK'
  BY <1>0, <1>3 DEF CountersOK
<1>4. ASSUME NEW r \in Requests, NEW q, q.entry \in Nodes, Dispatch(r, q) PROVE CountersOK'
  BY <1>1, <1>3, <1>4 DEF Dispatch
<1>5. ASSUME NEW r \in Requests, InForward(r), Return(r) PROVE CountersOK'
  <2>1. req[r].entry \in Nodes
    BY <1>5 DEF Inv, TypeOK, InForward
  <2>2. CASE r \in OwnAt(req[r].entry)
    BY <1>2, <1>5, <2>1, <2>2 DEF Return, CountedAt
  <2>3. CASE r \notin OwnAt(req[r].entry)
    BY <1>3, <1>5, <2>3 DEF Return
  <2> QED
    BY <2>2, <2>3
<1>6. ASSUME NEW r \in Requests, NEW h, ProxyReturns(r, h) PROVE CountersOK'
  <2>1. hop[r].to \in Nodes /\ r \in ProxiedAt(hop[r].to)
    BY <1>6 DEF Inv, TypeOK, ProxyReturns, ProxiedAt
  <2> QED
    BY <1>2, <1>6, <2>1 DEF ProxyReturns, CountedAt
<1>7. ASSUME NEW r \in Requests, EntryStep(r) PROVE CountersOK'
  <2>1. CASE Ensured(r)
    BY <2>1, <1>4 DEF Ensured, Inv, TypeOK
  <2>2. CASE Broken(r) \/ Answered(r)
    BY <2>2, <1>5 DEF Broken, Answered, InForward
  <2>3. CASE EnsureFails(r) \/ Headers(r) \/ DrawID(r) \/ Record(r)
    BY <2>3, <1>3 DEF EnsureFails, Headers, DrawID, Record, counters
  <2> QED
    BY <1>7, <2>1, <2>2, <2>3 DEF EntryStep
<1>8. ASSUME NEW r \in Requests, TargetStep(r) PROVE CountersOK'
  <2>1. CASE hop[r].to \in up /\ Accept(r)
    BY <2>1, <1>1, <1>3 DEF Accept, Inv, TypeOK
  <2>2. CASE Served(r) \/ CutOff(r)
    BY <2>2, <1>6 DEF Served, CutOff
  <2>3. CASE Stream(r) \/ Drop(r) \/ Unreachable(r)
    BY <2>3, <1>3 DEF Stream, Drop, Unreachable, counters
  <2> QED
    BY <1>8, <2>1, <2>2, <2>3 DEF TargetStep
<1>9. ASSUME NEW r \in Requests, NEW e \in Nodes, NEW t \in Nodes, NEW k \in Kinds,
             Arrive(r, e, t, k)
      PROVE CountersOK'
  BY <1>9, <1>3, <1>4 DEF Arrive, NoReq, counters
<1>10. ASSUME NEW r \in Requests, ClientLeaves(r) PROVE CountersOK'
  BY <1>10, <1>3 DEF ClientLeaves, counters
<1>11. ASSUME NEW n \in Nodes, AgentStops(n) \/ AgentStarts(n) PROVE CountersOK'
  BY <1>11, <1>0 DEF AgentStops, AgentStarts, CountersOK, counters
<1>12. CASE UNCHANGED vars
  BY <1>12, <1>3 DEF vars
<1> QED
  BY <1>7, <1>8, <1>9, <1>10, <1>11, <1>12 DEF Next

\* IDs stay numbers.
LogOK == reqID \in [Nodes -> Nat] /\ history \in [Nodes -> Seq(Nat)]

LEMMA LogStep == TypeOK /\ [Next]_vars => LogOK'
<1> SUFFICES ASSUME TypeOK, [Next]_vars PROVE LogOK'
  OBVIOUS
<1>0. LogOK
  BY DEF TypeOK, LogOK
<1>1. ASSUME UNCHANGED <<reqID, history>> PROVE LogOK'
  BY <1>0, <1>1 DEF LogOK
<1>2. ASSUME NEW r \in Requests, DrawID(r) PROVE LogOK'
  <2>1. PICK e \in Nodes : e = req[r].entry
    BY <1>2 DEF TypeOK, DrawID
  <2>2. reqID' = [reqID EXCEPT ![e] = reqID[e] + 1] /\ UNCHANGED history
    BY <1>2, <2>1 DEF DrawID
  <2> QED
    BY <1>0, <2>1, <2>2 DEF LogOK
<1>3. ASSUME NEW r \in Requests, Record(r) PROVE LogOK'
  <2>1. PICK e \in Nodes : e = req[r].entry
    BY <1>3 DEF TypeOK, Record
  <2> DEFINE longer == <<req[r].id>> \o history[e]
  <2>2. longer \in Seq(Nat)
    BY <2>1 DEF TypeOK
  <2>3. Len(longer) > Keep => SubSeq(longer, 1, Keep) \in Seq(Nat)
    <3>1. ASSUME Len(longer) > Keep PROVE \A i \in 1..Keep : longer[i] \in Nat
      BY <2>2, <3>1, KeepAssumption
    <3> HIDE DEF longer
    <3> QED
      BY <2>2, <3>1, KeepAssumption, SubSeqProperties
  <2>4. history' \in [Nodes -> Seq(Nat)]
    BY <1>3, <2>1, <2>2, <2>3 DEF TypeOK, Record
  <2> QED
    BY <1>0, <1>3, <2>4 DEF LogOK, Record
<1>4. ASSUME NEW r \in Requests, EntryStep(r), ~DrawID(r), ~Record(r) PROVE LogOK'
  BY <1>1, <1>4 DEF EntryStep, Ensured, Dispatch, EnsureFails, Headers, Broken, Answered, Return,
                    counters
<1>5. ASSUME NEW r \in Requests, TargetStep(r) PROVE LogOK'
  BY <1>1, <1>5 DEF TargetStep, Accept, Stream, Served, CutOff, ProxyReturns, Drop, Unreachable,
                    counters
<1>6. ASSUME NEW r \in Requests, ClientLeaves(r) PROVE LogOK'
  BY <1>1, <1>6 DEF ClientLeaves, counters
<1>7. ASSUME NEW r \in Requests, NEW e, NEW t, NEW k, Arrive(r, e, t, k) PROVE LogOK'
  BY <1>1, <1>7 DEF Arrive, Dispatch, counters
<1>8. ASSUME NEW n \in Nodes, AgentStops(n) \/ AgentStarts(n) PROVE LogOK'
  <2>1. CASE AgentStops(n)
    <3>1. reqID' \in [Nodes -> Nat]
      BY <1>0, <2>1 DEF LogOK, AgentStops
    <3>2. history' \in [Nodes -> Seq(Nat)]
      BY <1>0, <2>1 DEF LogOK, AgentStops
    <3> QED
      BY <3>1, <3>2 DEF LogOK
  <2>2. CASE AgentStarts(n)
    BY <2>2, <1>1 DEF AgentStarts, counters
  <2> QED
    BY <1>8, <2>1, <2>2
<1>9. CASE UNCHANGED vars
  BY <1>1, <1>9 DEF vars
<1> QED
  BY <1>2, <1>3, <1>4, <1>5, <1>6, <1>7, <1>8, <1>9 DEF Next

\* Where a request and its hop are.
ReqType == [pc : PC, entry : Nodes \cup {NoNode}, kind : Kinds,
            target : Nodes \cup {NoNode}, gone : BOOLEAN, id : Nat]
HopType == [pc : {"none", "sent", "run", "stream", "done"}, kind : Kinds,
            from : Nodes \cup {NoNode}, to : Nodes \cup {NoNode}]
Placed(r) ==
  /\ req[r].pc = "idle" <=> req[r] = NoReq
  /\ req[r].pc = "idle" <=> req[r].entry = NoNode
  /\ req[r].entry \in up \cup {NoNode}
  /\ hop[r].pc = "none" <=> hop[r] = NoHop
  /\ hop[r].pc \in {"run", "stream"} => hop[r].to \in up
  /\ req[r].pc = "ensure" => hop[r] = NoHop
  /\ hop[r] # NoHop /\ InForward(r) =>
       ~Local(r) /\ hop[r].from = req[r].entry /\ hop[r].to = req[r].target
PlacesOK ==
  /\ up \subseteq Nodes
  /\ req \in [Requests -> ReqType] /\ hop \in [Requests -> HopType]
  /\ \A r \in Requests : Placed(r)

LEMMA TypeParts == TypeOK <=> CountersOK /\ LogOK /\ PlacesOK
BY DEF TypeOK, CountersOK, LogOK, PlacesOK, Placed, ReqType, HopType

\* A step of one request and its hop.
LEMMA Move ==
  ASSUME PlacesOK, NEW r \in Requests, NEW x \in ReqType, NEW h \in HopType,
         req' = [req EXCEPT ![r] = x], hop' = [hop EXCEPT ![r] = h], up' = up, Placed(r)'
  PROVE  PlacesOK'
<1>1. req' \in [Requests -> ReqType] /\ hop' \in [Requests -> HopType]
  BY DEF PlacesOK
<1>2. ASSUME NEW q \in Requests, q # r PROVE Placed(q)'
  <2>1. req'[q] = req[q] /\ hop'[q] = hop[q] /\ Placed(q)
    BY <1>2 DEF PlacesOK
  <2> QED
    BY <2>1 DEF Placed, InForward, Local
<1> QED
  BY <1>1, <1>2 DEF PlacesOK

\* ... of the request only, and of the hop only.
LEMMA MoveReq ==
  ASSUME PlacesOK, NEW r \in Requests, NEW x \in ReqType,
         req' = [req EXCEPT ![r] = x], UNCHANGED <<hop, up>>, Placed(r)'
  PROVE  PlacesOK'
<1>1. hop[r] \in HopType /\ hop = [hop EXCEPT ![r] = hop[r]]
  BY DEF PlacesOK
<1> QED
  BY <1>1, Move

LEMMA MoveHop ==
  ASSUME PlacesOK, NEW r \in Requests, NEW h \in HopType,
         hop' = [hop EXCEPT ![r] = h], UNCHANGED <<req, up>>, Placed(r)'
  PROVE  PlacesOK'
<1>1. req[r] \in ReqType /\ req = [req EXCEPT ![r] = req[r]]
  BY DEF PlacesOK
<1> QED
  BY <1>1, Move

LEMMA PlacesStep == TypeOK /\ [Next]_vars => PlacesOK'
<1> SUFFICES ASSUME PlacesOK, LogOK, [Next]_vars PROVE PlacesOK'
  BY TypeParts
<1> USE NodesAssumption DEF ReqType, HopType, PC, Kinds
<1>0. ASSUME NEW r \in Requests
      PROVE  req[r] \in ReqType /\ hop[r] \in HopType /\ Placed(r)
  BY DEF PlacesOK
<1>1. ASSUME NEW r \in Requests, NEW q \in ReqType, q.entry \in up,
             hop[r] = NoHop, Dispatch(r, q)
      PROVE  PlacesOK'
  <2> DEFINE x == [q EXCEPT !.pc = "do"]
             h == [pc |-> "sent", from |-> q.entry, to |-> q.target, kind |-> q.kind]
  <2>1. x \in ReqType /\ x.pc = "do" /\ x.entry = q.entry /\ x.target = q.target
    OBVIOUS
  <2>2. q.entry \in Nodes /\ h \in HopType
    BY <1>1 DEF PlacesOK
  <2>3. req' = [req EXCEPT ![r] = x] /\ req'[r] = x /\ up' = up
    BY <1>1 DEF Dispatch, PlacesOK
  <2>4. CASE q.entry # q.target
    <3>1. hop' = [hop EXCEPT ![r] = h] /\ hop'[r] = h
      BY <1>1, <2>4 DEF Dispatch, PlacesOK
    <3>2. Placed(r)'
      BY <1>1, <2>1, <2>2, <2>3, <2>4, <3>1 DEF Placed, NoReq, NoHop, InForward, Local
    <3> QED
      BY <2>1, <2>2, <2>3, <3>1, <3>2, Move
  <2>5. CASE q.entry = q.target
    <3>1. hop' = hop
      BY <1>1, <2>5 DEF Dispatch
    <3>2. Placed(r)'
      BY <1>1, <2>1, <2>2, <2>3, <2>5, <3>1 DEF Placed, NoReq, NoHop, InForward, Local
    <3> QED
      BY <2>1, <2>3, <3>1, <3>2, MoveReq
  <2> QED
    BY <2>4, <2>5
\* The entry.
<1>2. ASSUME NEW r \in Requests, Ensured(r) PROVE PlacesOK'
  <2>1. req[r].entry \in up /\ hop[r] = NoHop
    BY <1>0, <1>2 DEF Ensured, Placed
  <2> QED
    BY <1>0, <1>1, <1>2, <2>1 DEF Ensured
<1>3. ASSUME NEW r \in Requests, NEW l \in PC, l \in {"copy", "end"}, req[r].pc # "idle",
             l = "copy" => InForward(r), Goto(r, l), UNCHANGED <<up, hop>>
      PROVE  PlacesOK'
  <2> DEFINE x == [req[r] EXCEPT !.pc = l]
  <2>1. x \in ReqType /\ req' = [req EXCEPT ![r] = x] /\ req'[r] = x
    BY <1>0, <1>3 DEF Goto, PlacesOK
  <2>2. Placed(r)'
    BY <1>0, <1>3, <2>1 DEF Placed, NoReq, InForward, Local
  <2> QED
    BY <1>3, <2>1, <2>2, MoveReq
<1>4. ASSUME NEW r \in Requests, EntryStep(r), ~Ensured(r), ~DrawID(r), ~Record(r)
      PROVE  PlacesOK'
  BY <1>3, <1>4 DEF EntryStep, EnsureFails, Headers, Broken, Answered, Return, InForward, counters
<1>5. ASSUME NEW r \in Requests, DrawID(r) PROVE PlacesOK'
  <2>1. PICK e \in Nodes : e = req[r].entry
    BY <1>0, <1>5 DEF DrawID, Placed, PlacesOK
  <2> DEFINE x == [req[r] EXCEPT !.pc = "log", !.id = reqID[e] + 1]
  <2>2. req' = [req EXCEPT ![r] = x] /\ UNCHANGED <<up, hop>> /\ req[r].pc = "end"
    BY <1>5, <2>1 DEF DrawID
  <2>3. reqID[e] + 1 \in Nat
    BY DEF LogOK
  <2>4. x \in ReqType /\ x.pc = "log" /\ x.entry = req[r].entry
    BY <1>0, <2>3
  <2> HIDE DEF x
  <2>5. req'[r] = x
    BY <2>2 DEF PlacesOK
  <2>6. Placed(r)'
    BY <1>0, <2>2, <2>4, <2>5 DEF Placed, NoReq, InForward, Local
  <2> QED
    BY <2>2, <2>4, <2>6, MoveReq
<1>6. ASSUME NEW r \in Requests, Record(r) PROVE PlacesOK'
  <2>1. NoReq \in ReqType /\ req' = [req EXCEPT ![r] = NoReq] /\ req'[r] = NoReq
    BY <1>6 DEF Record, NoReq, PlacesOK
  <2>2. Placed(r)'
    BY <1>0, <1>6, <2>1 DEF Record, Placed, NoReq, InForward, Local
  <2> QED
    BY <1>6, <2>1, <2>2, MoveReq DEF Record
\* The target.
<1>7. ASSUME NEW r \in Requests, TargetStep(r) PROVE PlacesOK'
  <2>1. NoHop \in HopType
    BY DEF NoHop
  <2>2. ASSUME NEW h \in HopType, hop' = [hop EXCEPT ![r] = h], UNCHANGED <<req, up>>,
               \/ h = NoHop /\ ~InForward(r)
               \/ h = NoHop /\ hop[r] # NoHop
               \/ /\ h.pc # "none" /\ hop[r].pc # "none"
                  /\ h.from = hop[r].from /\ h.to = hop[r].to
                  /\ h.pc \in {"run", "stream"} => h.to \in up
        PROVE  PlacesOK'
    <3>1. hop'[r] = h
      BY <2>2 DEF PlacesOK
    <3>2. Placed(r)'
      BY <1>0, <2>2, <3>1 DEF Placed, NoHop, InForward, Local
    <3> QED
      BY <2>2, <3>2, MoveHop
  <2>3. ASSUME NEW l \in {"run", "stream", "done"}, hop' = [hop EXCEPT ![r].pc = l],
               UNCHANGED <<req, up>>, hop[r].pc # "none",
               l # "done" => hop[r].to \in up
        PROVE  PlacesOK'
    BY <1>0, <2>2, <2>3
  <2>4. CASE hop[r].to \in up /\ Accept(r)
    BY <2>3, <2>4 DEF Accept
  <2>5. CASE Stream(r) \/ Served(r)
    BY <1>0, <2>3, <2>5 DEF Stream, Served, ProxyReturns, Placed
  <2>6. CASE CutOff(r) \/ Drop(r) \/ Unreachable(r)
    BY <1>0, <2>1, <2>2, <2>6 DEF CutOff, ProxyReturns, Drop, Unreachable, NoHop
  <2> QED
    BY <1>7, <2>4, <2>5, <2>6 DEF TargetStep
\* Clients and agents.
<1>8. ASSUME NEW r \in Requests, NEW e \in Nodes, NEW t \in Nodes, NEW k \in Kinds,
             Arrive(r, e, t, k)
      PROVE  PlacesOK'
  <2> DEFINE q == [NoReq EXCEPT !.entry = e, !.target = t, !.kind = k]
             x == [q EXCEPT !.pc = "ensure"]
  <2>1. q \in ReqType /\ q.entry = e /\ q.target = t /\ x \in ReqType
        /\ x.pc = "ensure" /\ x.entry = e
    BY DEF NoReq
  <2>2. e \in up /\ hop[r] = NoHop
    BY <1>8 DEF Arrive, InProgress
  <2>3. CASE Dispatch(r, q)
    BY <1>1, <2>1, <2>2, <2>3
  <2>4. CASE req' = [req EXCEPT ![r] = x] /\ UNCHANGED <<up, hop>>
    <3>1. req'[r] = x
      BY <2>4 DEF PlacesOK
    <3> HIDE DEF x
    <3>2. Placed(r)'
      BY <2>1, <2>2, <2>4, <3>1 DEF Placed, NoReq, NoHop, InForward
    <3> QED
      BY <2>1, <2>4, <3>2, MoveReq
  <2> QED
    BY <1>8, <2>3, <2>4 DEF Arrive
<1>9. ASSUME NEW r \in Requests, ClientLeaves(r) PROVE PlacesOK'
  <2> DEFINE x == [req[r] EXCEPT !.gone = TRUE]
  <2>1. x \in ReqType /\ req' = [req EXCEPT ![r] = x] /\ req'[r] = x
    BY <1>0, <1>9 DEF ClientLeaves, PlacesOK
  <2>2. Placed(r)'
    BY <1>0, <1>9, <2>1 DEF ClientLeaves, Placed, NoReq, InForward, Local
  <2> QED
    BY <1>9, <2>1, <2>2, MoveReq DEF ClientLeaves
<1>10. ASSUME NEW n \in Nodes, AgentStops(n) PROVE PlacesOK'
  <2>1. NoReq \in ReqType /\ NoHop \in HopType
    BY DEF NoReq, NoHop
  <2>2. req' \in [Requests -> ReqType] /\ hop' \in [Requests -> HopType] /\ up' \subseteq Nodes
    BY <1>10, <2>1 DEF AgentStops, PlacesOK
  <2>3. ASSUME NEW q \in Requests PROVE Placed(q)'
    <3>1. req'[q] = IF req[q].entry = n THEN NoReq ELSE req[q]
      BY <1>10 DEF AgentStops
    <3>2. hop'[q] = IF hop[q].to = n THEN NoHop ELSE hop[q]
      BY <1>10 DEF AgentStops
    <3>3. up' = up \ {n}
      BY <1>10 DEF AgentStops
    <3>0. NoHop.pc = "none" /\ NoReq.pc = "idle" /\ NoReq.entry = NoNode
      BY DEF NoHop, NoReq
    <3>4. CASE req[q].entry = n
      BY <1>0, <3>0, <3>1, <3>2, <3>3, <3>4 DEF Placed, InForward, Local
    <3>5. CASE req[q].entry # n /\ hop[q].to = n
      BY <1>0, <3>0, <3>1, <3>2, <3>3, <3>5 DEF Placed, InForward, Local
    <3>6. CASE req[q].entry # n /\ hop[q].to # n
      BY <1>0, <3>0, <3>1, <3>2, <3>3, <3>6 DEF Placed, InForward, Local
    <3> QED
      BY <3>4, <3>5, <3>6
  <2> QED
    BY <2>2, <2>3 DEF PlacesOK
<1>11. ASSUME NEW n \in Nodes, AgentStarts(n) PROVE PlacesOK'
  BY <1>11 DEF AgentStarts, PlacesOK, Placed, InForward, Local, counters
<1>12. CASE UNCHANGED vars
  BY <1>12 DEF vars, PlacesOK, Placed, InForward, Local
<1> QED
  BY <1>2, <1>4, <1>5, <1>6, <1>7, <1>8, <1>9, <1>10, <1>11, <1>12 DEF Next, EntryStep

LEMMA TypeStep == Inv /\ [Next]_vars => TypeOK'
<1>1. CountersOK' /\ LogOK' /\ PlacesOK' => TypeOK'
  BY DEF TypeOK, CountersOK, LogOK, PlacesOK, Placed, ReqType, HopType
<1> QED
  BY <1>1, CountersStep, LogStep, PlacesStep DEF Inv

-----------------------------------------------------------------------------
(***************************************************************************)
(* Counting                                                                *)
(***************************************************************************)

\* Only r and its hop move.
Others(r) == \A q \in Requests \ {r} : req'[q] = req[q] /\ hop'[q] = hop[q]

LEMMA OthersCount ==
  ASSUME NEW r \in Requests, Others(r), NEW n
  PROVE  \A q : q # r => (q \in CountedAt(n)' <=> q \in CountedAt(n))
BY DEF Others, CountedAt, OwnAt, ProxiedAt, InForward, Local

\* r is counted at n from now on.
LEMMA EnterCounts ==
  ASSUME Inv, NEW r \in Requests, NEW n \in Nodes, Others(r), Enter(n),
         r \notin CountedAt(n), r \in CountedAt(n)',
         \A m \in Nodes \ {n} : r \in CountedAt(m)' <=> r \in CountedAt(m)
  PROVE  ActiveIsCounted'
<1>1. CountedAt(n)' = CountedAt(n) \cup {r}
  BY OthersCount
<1>2. Cardinality(CountedAt(n)') = Cardinality(CountedAt(n)) + 1
  BY <1>1, CountedFinite, FS_AddElement
<1>3. active'[n] = Cardinality(CountedAt(n)')
  BY <1>2 DEF Inv, TypeOK, ActiveIsCounted, Enter
<1>4. ASSUME NEW m \in Nodes, m # n PROVE active'[m] = Cardinality(CountedAt(m)')
  <2>1. \A q : q \in CountedAt(m)' <=> q \in CountedAt(m)
    BY <1>4, OthersCount
  <2>2. CountedAt(m)' = CountedAt(m)
    BY <2>1
  <2> QED
    BY <1>4, <2>2 DEF Inv, TypeOK, ActiveIsCounted, Enter
<1> QED
  BY <1>3, <1>4 DEF ActiveIsCounted

\* r is no longer counted at n.
LEMMA LeaveCounts ==
  ASSUME Inv, NEW r \in Requests, NEW n \in Nodes, Others(r), Leave(n),
         r \in CountedAt(n), r \notin CountedAt(n)',
         \A m \in Nodes \ {n} : r \in CountedAt(m)' <=> r \in CountedAt(m)
  PROVE  ActiveIsCounted'
<1>1. CountedAt(n)' = CountedAt(n) \ {r}
  BY OthersCount
<1>2. Cardinality(CountedAt(n)') = Cardinality(CountedAt(n)) - 1
  BY <1>1, CountedFinite, FS_RemoveElement
<1>3. active'[n] = Cardinality(CountedAt(n)')
  BY <1>2 DEF Inv, TypeOK, ActiveIsCounted, Leave
<1>4. ASSUME NEW m \in Nodes, m # n PROVE active'[m] = Cardinality(CountedAt(m)')
  <2>1. \A q : q \in CountedAt(m)' <=> q \in CountedAt(m)
    BY <1>4, OthersCount
  <2>2. CountedAt(m)' = CountedAt(m)
    BY <2>1
  <2> QED
    BY <1>4, <2>2 DEF Inv, TypeOK, ActiveIsCounted, Leave
<1> QED
  BY <1>3, <1>4 DEF ActiveIsCounted

\* r is counted where it was.
LEMMA SameCounts ==
  ASSUME Inv, NEW r \in Requests, Others(r), UNCHANGED active,
         \A m \in Nodes : r \in CountedAt(m)' <=> r \in CountedAt(m)
  PROVE  ActiveIsCounted'
<1>1. ASSUME NEW m \in Nodes PROVE CountedAt(m)' = CountedAt(m)
  BY OthersCount
<1> QED
  BY <1>1 DEF Inv, ActiveIsCounted

\* Where r is counted, before and after a step.
Runs(r)    == InForward(r) /\ Local(r) /\ req[r].kind = "ollama"
Proxied(r) == hop[r].pc \in {"run", "stream"}

LEMMA Counted ==
  ASSUME NEW r \in Requests, NEW n
  PROVE  r \in CountedAt(n) <=>
           (Runs(r) /\ req[r].entry = n) \/ (Proxied(r) /\ hop[r].to = n)
BY DEF CountedAt, OwnAt, ProxiedAt, Runs, Proxied

LEMMA CountedNext ==
  ASSUME NEW r \in Requests, NEW n
  PROVE  r \in CountedAt(n)' <=>
           (Runs(r)' /\ req'[r].entry = n) \/ (Proxied(r)' /\ hop'[r].to = n)
<1>1. r \in OwnAt(n)' <=> Runs(r)' /\ req'[r].entry = n
  BY DEF OwnAt, Runs, InForward, Local
<1>2. r \in ProxiedAt(n)' <=> Proxied(r)' /\ hop'[r].to = n
  BY DEF ProxiedAt, Proxied
<1> QED
  BY <1>1, <1>2 DEF CountedAt

\* What is in this node's engine has no hop.
LEMMA CountedOnce ==
  ASSUME TypeOK, NEW r \in Requests, Runs(r) PROVE ~Proxied(r) /\ hop[r] = NoHop
BY DEF TypeOK, Runs, Proxied, NoHop

LEMMA ActiveStep == Inv /\ [Next]_vars => ActiveIsCounted'
<1> SUFFICES ASSUME Inv, [Next]_vars PROVE ActiveIsCounted'
  OBVIOUS
<1>0. /\ TypeOK /\ req \in [Requests -> ReqType] /\ hop \in [Requests -> HopType]
      /\ \A r \in Requests : Placed(r)
      /\ NoHop.pc = "none" /\ NoReq.pc = "idle"
  BY TypeParts DEF Inv, PlacesOK, NoHop, NoReq
\* The entry.
<1>1. ASSUME NEW r \in Requests, NEW q \in ReqType, q.entry \in Nodes, hop[r] = NoHop,
             ~InForward(r), Dispatch(r, q)
      PROVE  ActiveIsCounted'
  <2> DEFINE x == [q EXCEPT !.pc = "do"]
             h == [pc |-> "sent", from |-> q.entry, to |-> q.target, kind |-> q.kind]
  <2>1. x.pc = "do" /\ x.entry = q.entry /\ x.target = q.target /\ x.kind = q.kind
        /\ h.pc = "sent"
    BY DEF ReqType
  <2> HIDE DEF x, h
  <2>2. Others(r) /\ req'[r] = x /\ hop'[r] = IF q.entry # q.target THEN h ELSE hop[r]
    BY <1>0, <1>1 DEF Dispatch, Others, x, h
  <2>3. \A m : r \notin CountedAt(m)
    BY <1>0, <1>1, Counted DEF Runs, Proxied
  <2>4. ~Proxied(r)' /\ InForward(r)'
    BY <1>0, <1>1, <2>1, <2>2 DEF Proxied, InForward
  <2>5. Runs(r)' <=> q.entry = q.target /\ q.kind = "ollama"
    BY <2>1, <2>2, <2>4 DEF Runs, Local
  <2>6. CASE q.entry = q.target /\ q.kind = "ollama"
    <3>1. Enter(q.entry)
      BY <1>1, <2>6 DEF Dispatch
    <3>2. \A m : r \in CountedAt(m)' <=> m = q.entry
      BY <2>1, <2>2, <2>4, <2>5, <2>6, CountedNext
    <3> QED
      BY <1>1, <2>2, <2>3, <3>1, <3>2, EnterCounts
  <2>7. CASE ~(q.entry = q.target /\ q.kind = "ollama")
    BY <1>1, <2>2, <2>3, <2>4, <2>5, <2>7, Counted, CountedNext, SameCounts DEF Dispatch
  <2> QED
    BY <2>6, <2>7
<1>2. ASSUME NEW r \in Requests, Ensured(r) PROVE ActiveIsCounted'
  <2>1. req[r] \in ReqType /\ req[r].entry \in Nodes /\ hop[r] = NoHop /\ ~InForward(r)
    BY <1>0, <1>2 DEF Ensured, TypeOK, InForward
  <2> QED
    BY <1>1, <1>2, <2>1 DEF Ensured
<1>3. ASSUME NEW r \in Requests, InForward(r), Return(r) PROVE ActiveIsCounted'
  <2>1. Others(r) /\ req'[r].pc = "end" /\ hop' = hop /\ req[r].entry \in Nodes
    BY <1>0, <1>3 DEF Return, Goto, Others, InForward, TypeOK, ReqType
  <2>2. ~Runs(r)' /\ Proxied(r)' = Proxied(r)
    BY <2>1 DEF Runs, InForward, Proxied
  <2>3. CASE r \in OwnAt(req[r].entry)
    <3>1. Runs(r) /\ Leave(req[r].entry)
      BY <1>3, <2>3 DEF Runs, OwnAt, Return
    <3>2. \A m : r \in CountedAt(m) <=> m = req[r].entry
      BY <1>0, <3>1, Counted, CountedOnce
    <3>3. \A m : r \notin CountedAt(m)'
      BY <1>0, <2>2, <3>1, CountedNext, CountedOnce
    <3> QED
      BY <2>1, <3>1, <3>2, <3>3, LeaveCounts
  <2>4. CASE r \notin OwnAt(req[r].entry)
    <3>1. ~Runs(r) /\ active' = active
      BY <1>3, <2>4 DEF Runs, OwnAt, Return
    <3> QED
      BY <2>1, <2>2, <3>1, Counted, CountedNext, SameCounts
  <2> QED
    BY <2>3, <2>4
<1>4. ASSUME NEW r \in Requests, req[r].pc = "ensure" \/ InForward(r), Others(r),
             UNCHANGED <<hop, active>>, req'[r].pc \in {"end", "copy"},
             InForward(r) <=> req'[r].pc = "copy",
             Local(r)' = Local(r), req'[r].kind = req[r].kind, req'[r].entry = req[r].entry
      PROVE  ActiveIsCounted'
  <2>1. Runs(r)' = Runs(r) /\ Proxied(r)' = Proxied(r)
    BY <1>4 DEF Runs, InForward, Proxied
  <2> QED
    BY <1>4, <2>1, Counted, CountedNext, SameCounts
<1>5. ASSUME NEW r \in Requests, EnsureFails(r) \/ Headers(r) PROVE ActiveIsCounted'
  BY <1>0, <1>4, <1>5 DEF EnsureFails, Headers, Goto, Others, InForward, Local, ReqType, counters
<1>6. ASSUME NEW r \in Requests, DrawID(r) \/ Record(r) \/ ClientLeaves(r)
      PROVE  ActiveIsCounted'
  <2>1. Others(r) /\ UNCHANGED <<hop, active>>
    BY <1>0, <1>6 DEF DrawID, Record, ClientLeaves, Others, counters
  <2>2. Proxied(r)' = Proxied(r)
    BY <2>1 DEF Proxied
  <2>3. CASE DrawID(r) \/ Record(r)
    <3>1. req[r].pc \in {"end", "log"}
      BY <2>3 DEF DrawID, Record
    <3>2. req'[r].pc \in {"log", "idle"}
      <4>1. CASE DrawID(r)
        <5>1. PICK x \in {[req[r] EXCEPT !.pc = "log", !.id = reqID[req[r].entry] + 1]} :
                req' = [req EXCEPT ![r] = x]
          BY <4>1 DEF DrawID
        <5>2. x.pc = "log"
          BY <1>0 DEF ReqType
        <5> QED
          BY <1>0, <5>1, <5>2
      <4>2. CASE Record(r)
        BY <1>0, <4>2 DEF Record
      <4> QED
        BY <2>3, <4>1, <4>2
    <3>3. ~Runs(r) /\ ~Runs(r)'
      BY <3>1, <3>2 DEF Runs, InForward
    <3> QED
      BY <2>1, <2>2, <3>3, Counted, CountedNext, SameCounts
  <2>4. CASE ClientLeaves(r)
    <3>1. Runs(r)' = Runs(r) /\ req'[r].entry = req[r].entry
      BY <1>0, <2>4 DEF ClientLeaves, Runs, InForward, Local, ReqType
    <3> QED
      BY <2>1, <2>2, <3>1, Counted, CountedNext, SameCounts
  <2> QED
    BY <1>6, <2>3, <2>4
\* The target.
<1>7. ASSUME NEW r \in Requests, NEW h \in HopType, req' = req, hop' = [hop EXCEPT ![r] = h]
      PROVE  /\ Others(r) /\ hop'[r] = h /\ Runs(r)' = Runs(r)
             /\ \A m : r \in CountedAt(m)' <=> (Runs(r) /\ req[r].entry = m)
                                        \/ (h.pc \in {"run", "stream"} /\ h.to = m)
  <2>1. Others(r) /\ hop'[r] = h
    BY <1>0, <1>7 DEF Others
  <2>2. Runs(r)' = Runs(r)
    BY <1>7 DEF Runs, InForward, Local
  <2> QED
    BY <1>7, <2>1, <2>2, CountedNext DEF Proxied
<1>8. ASSUME NEW r \in Requests, NEW h \in HopType, h.pc \notin {"run", "stream"},
             ProxyReturns(r, h)
      PROVE  ActiveIsCounted'
  <2>1. Proxied(r) /\ ~Runs(r) /\ hop[r].to \in Nodes
    BY <1>0, <1>8, CountedOnce DEF ProxyReturns, Proxied, Placed, TypeOK
  <2>2. Leave(hop[r].to) /\ req' = req /\ hop' = [hop EXCEPT ![r] = h]
    BY <1>8 DEF ProxyReturns
  <2>3. \A m : r \in CountedAt(m) <=> m = hop[r].to
    BY <2>1, Counted
  <2>4. Others(r) /\ \A m : r \notin CountedAt(m)'
    BY <1>7, <1>8, <2>1, <2>2
  <2> QED
    BY <2>1, <2>2, <2>3, <2>4, LeaveCounts
<1>9. ASSUME NEW r \in Requests, hop[r].to \in up, Accept(r) PROVE ActiveIsCounted'
  <2> DEFINE run  == [hop[r] EXCEPT !.pc = "run"]
             done == [hop[r] EXCEPT !.pc = "done"]
  <2>1. hop[r].pc = "sent" /\ req' = req /\ ~Runs(r) /\ ~Proxied(r) /\ hop[r].to \in Nodes
    BY <1>0, <1>9, CountedOnce DEF Accept, Proxied, TypeOK, NoHop
  <2>2. \A m : r \notin CountedAt(m)
    BY <2>1, Counted
  <2>3. run \in HopType /\ run.pc = "run" /\ run.to = hop[r].to
        /\ done \in HopType /\ done.pc = "done"
    BY <1>0 DEF HopType
  <2>4. ASSUME NEW h \in HopType, h.pc = "run", h.to = hop[r].to,
               hop' = [hop EXCEPT ![r] = h], Enter(hop[r].to)
        PROVE  ActiveIsCounted'
    <3>0. req' = req /\ hop' = [hop EXCEPT ![r] = h]
      BY <2>1, <2>4
    <3>1. ASSUME NEW m PROVE r \in CountedAt(m)' <=> m = hop[r].to
      <4>1. r \in CountedAt(m)' <=> (Runs(r) /\ req[r].entry = m)
                                   \/ (h.pc \in {"run", "stream"} /\ h.to = m)
        BY <1>7, <3>0
      <4> QED
        BY <2>1, <2>4, <4>1
    <3>2. Others(r)
      BY <1>7, <3>0
    <3> QED
      BY <2>1, <2>2, <2>4, <3>1, <3>2, EnterCounts
  <2>5. CASE hop' = [hop EXCEPT ![r] = done] /\ UNCHANGED active
    <3> HIDE DEF done
    <3>1. Others(r) /\ \A m : r \notin CountedAt(m)'
      BY <1>7, <2>1, <2>3, <2>5
    <3> QED
      BY <2>2, <2>5, <3>1, SameCounts
  <2> QED
    BY <1>9, <2>3, <2>4, <2>5 DEF Accept
<1>10. ASSUME NEW r \in Requests, NEW h \in HopType, req' = req, active' = active,
              hop' = [hop EXCEPT ![r] = h],
              \/ Proxied(r) /\ h.pc \in {"run", "stream"} /\ h.to = hop[r].to
              \/ ~Proxied(r) /\ h.pc \notin {"run", "stream"}
       PROVE  ActiveIsCounted'
  <2>0. ASSUME NEW m PROVE r \in CountedAt(m)' <=> r \in CountedAt(m)
    <3>1. r \in CountedAt(m)' <=> (Runs(r) /\ req[r].entry = m)
                                 \/ (h.pc \in {"run", "stream"} /\ h.to = m)
      BY <1>7, <1>10
    <3> QED
      BY <1>10, <3>1, Counted
  <2>1. Others(r) /\ \A m : r \in CountedAt(m)' <=> r \in CountedAt(m)
    BY <1>7, <1>10, <2>0
  <2> QED
    BY <1>10, <2>1, SameCounts
<1>11. ASSUME NEW r \in Requests, TargetStep(r) PROVE ActiveIsCounted'
  <2>1. NoHop \in HopType
    BY DEF NoHop, HopType, Kinds
  <2>2. CASE Stream(r)
    <3> DEFINE h == [hop[r] EXCEPT !.pc = "stream"]
    <3>1. h \in HopType /\ h.pc = "stream" /\ h.to = hop[r].to
      BY <1>0 DEF HopType
    <3> QED
      BY <1>10, <2>2, <3>1 DEF Stream, Proxied, counters
  <2>3. CASE Served(r)
    <3> DEFINE h == [hop[r] EXCEPT !.pc = "done"]
    <3>1. h \in HopType /\ h.pc = "done"
      BY <1>0 DEF HopType
    <3> QED
      BY <1>8, <2>3, <3>1 DEF Served
  <2>4. CASE CutOff(r)
    BY <1>0, <1>8, <2>1, <2>4 DEF CutOff
  <2>5. CASE Drop(r) \/ Unreachable(r)
    BY <1>0, <1>10, <2>1, <2>5 DEF Drop, Unreachable, Proxied, counters
  <2> QED
    BY <1>9, <1>11, <2>2, <2>3, <2>4, <2>5 DEF TargetStep
\* Clients and agents.
<1>12. ASSUME NEW r \in Requests, NEW e \in Nodes, NEW t \in Nodes, NEW k \in Kinds,
              Arrive(r, e, t, k)
       PROVE  ActiveIsCounted'
  <2> DEFINE q == [NoReq EXCEPT !.entry = e, !.target = t, !.kind = k]
             x == [q EXCEPT !.pc = "ensure"]
  <2>1. q \in ReqType /\ q.entry = e /\ x.pc = "ensure"
    BY DEF NoReq, ReqType, PC, Kinds
  <2>2. hop[r] = NoHop /\ ~InForward(r)
    BY <1>0, <1>12 DEF Arrive, InProgress, InForward
  <2>3. CASE Dispatch(r, q)
    BY <1>1, <2>1, <2>2, <2>3
  <2>4. CASE req' = [req EXCEPT ![r] = x] /\ UNCHANGED <<hop, active>>
    <3> HIDE DEF x
    <3>1. Others(r) /\ req'[r] = x
      BY <1>0, <2>4 DEF Others
    <3>2. ~Runs(r) /\ ~Runs(r)' /\ Proxied(r)' = Proxied(r)
      BY <2>1, <2>2, <2>4, <3>1 DEF Runs, InForward, Proxied
    <3> QED
      BY <2>4, <3>1, <3>2, Counted, CountedNext, SameCounts
  <2> QED
    BY <1>12, <2>3, <2>4 DEF Arrive, counters
<1>13. ASSUME NEW n \in Nodes, AgentStops(n) PROVE ActiveIsCounted'
  <2>1. \A q \in Requests : /\ req'[q] = IF req[q].entry = n THEN NoReq ELSE req[q]
                            /\ hop'[q] = IF hop[q].to = n THEN NoHop ELSE hop[q]
    BY <1>13 DEF AgentStops
  <2>2. ASSUME NEW m \in Nodes \ {n} PROVE active'[m] = Cardinality(CountedAt(m)')
    <3>1. ASSUME NEW q \in Requests PROVE q \in CountedAt(m)' <=> q \in CountedAt(m)
      <4>1. Runs(q)' /\ req'[q].entry = m <=> Runs(q) /\ req[q].entry = m
        BY <1>0, <2>1, NodesAssumption DEF Runs, InForward, Local, NoReq
      <4>2. Proxied(q)' /\ hop'[q].to = m <=> Proxied(q) /\ hop[q].to = m
        BY <1>0, <2>1 DEF Proxied
      <4> QED
        BY <4>1, <4>2, Counted, CountedNext
    <3>2. CountedAt(m)' = CountedAt(m)
      BY <3>1 DEF CountedAt, OwnAt, ProxiedAt
    <3>3. active'[m] = active[m]
      BY <1>13, <2>2 DEF AgentStops, Inv, TypeOK
    <3> QED
      BY <3>2, <3>3 DEF Inv, ActiveIsCounted
  <2>3. active'[n] = Cardinality(CountedAt(n)')
    <3>1. ASSUME NEW q \in Requests PROVE q \notin CountedAt(n)'
      <4>1. ~(Runs(q)' /\ req'[q].entry = n)
        BY <1>0, <2>1 DEF Runs, InForward
      <4>2. ~(Proxied(q)' /\ hop'[q].to = n)
        BY <1>0, <2>1 DEF Proxied
      <4> QED
        BY <4>1, <4>2, CountedNext
    <3>2. CountedAt(n)' = {}
      BY <3>1 DEF CountedAt, OwnAt, ProxiedAt
    <3>3. active'[n] = 0
      BY <1>0, <1>13 DEF AgentStops, TypeOK
    <3> QED
      BY <3>2, <3>3, FS_EmptySet
  <2> QED
    BY <2>2, <2>3 DEF ActiveIsCounted
<1>14. ASSUME UNCHANGED <<req, hop, active>> PROVE ActiveIsCounted'
  BY <1>14 DEF Inv, ActiveIsCounted, CountedAt, OwnAt, ProxiedAt, InForward, Local
<1> QED
  BY <1>2, <1>3, <1>5, <1>6, <1>11, <1>12, <1>13, <1>14
     DEF Next, EntryStep, Broken, Answered, InForward, AgentStarts, counters, vars

-----------------------------------------------------------------------------
(***************************************************************************)
(* The history.  HistoryAccounts is not inductive: two requests that have  *)
(* drawn one ID would be recorded as a repetition.  IDs drawn and not yet  *)
(* recorded are distinct because each is drawn from a counter that only    *)
(* grows, and that no two runs of an agent share.                          *)
(***************************************************************************)
Logging(n) == {r \in Requests : req[r].pc = "log" /\ req[r].entry = n}

Drawn(n) ==
  /\ \A r \in Logging(n) : req[r].id \in 1..reqID[n]
  /\ \A r, q \in Logging(n) : req[r].id = req[q].id => r = q

Kept(n) ==
  /\ Len(history[n]) <= Keep
  /\ \A i \in 1..Len(history[n]) : history[n][i] \in 1..reqID[n]
  /\ \A i, j \in 1..Len(history[n]) : history[n][i] = history[n][j] => i = j

\* An ID is recorded, or still to be, and not both.
Accounted(n) ==
  /\ \A r \in Logging(n), i \in 1..Len(history[n]) : history[n][i] # req[r].id
  /\ Len(history[n]) < Keep =>
       \A k \in 1..reqID[n] : \/ \E i \in 1..Len(history[n]) : history[n][i] = k
                              \/ \E r \in Logging(n) : req[r].id = k

LogInv == \A n \in Nodes : Drawn(n) /\ Kept(n) /\ Accounted(n)

LEMMA InitLog == Init => LogInv
BY KeepAssumption DEF Init, LogInv, Drawn, Kept, Accounted, Logging, NoReq

\* An injective sequence has as many elements as places.
LEMMA DistinctElements ==
  ASSUME NEW s \in Seq(Nat), \A i, j \in 1..Len(s) : s[i] = s[j] => i = j
  PROVE  Cardinality({s[i] : i \in DOMAIN s}) = Len(s)
<1> DEFINE T == {s[i] : i \in DOMAIN s}
<1>1. DOMAIN s = 1..Len(s) /\ Len(s) \in Nat
  OBVIOUS
<1>2. s \in [1..Len(s) -> T]
  BY <1>1
<1>3. s \in Bijection(1..Len(s), T)
  BY <1>1, <1>2 DEF Bijection, Injection, Surjection, IsInjective
<1>4. ExistsBijection(1..Len(s), T)
  BY <1>3 DEF ExistsBijection
<1> QED
  BY <1>1, <1>4, FS_CountingElements

LEMMA LogGivesAccounts == TypeOK /\ LogInv => HistoryAccounts
<1> SUFFICES ASSUME TypeOK, LogInv, NEW n \in Nodes
             PROVE  /\ Len(history[n]) <= Keep
                    /\ Cardinality(Numbered(n)) = Len(history[n])
                    /\ Numbered(n) \cap Unlogged(n) = {}
                    /\ Numbered(n) \cup Unlogged(n) \subseteq 1..reqID[n]
                    /\ Len(history[n]) < Keep => Numbered(n) \cup Unlogged(n) = 1..reqID[n]
  BY DEF HistoryAccounts
<1>1. history[n] \in Seq(Nat) /\ DOMAIN history[n] = 1..Len(history[n])
  BY DEF TypeOK
<1>2. Drawn(n) /\ Kept(n) /\ Accounted(n)
  BY DEF LogInv
<1>3. Unlogged(n) = {req[r].id : r \in Logging(n)}
  BY DEF Unlogged, Logging
<1>4. Numbered(n) = {history[n][i] : i \in 1..Len(history[n])}
  BY <1>1 DEF Numbered
<1>5. Cardinality(Numbered(n)) = Len(history[n])
  BY <1>1, <1>2, DistinctElements DEF Kept, Numbered
<1>6. Numbered(n) \cap Unlogged(n) = {} /\ Numbered(n) \cup Unlogged(n) \subseteq 1..reqID[n]
  BY <1>2, <1>3, <1>4 DEF Drawn, Kept, Accounted
<1>7. Len(history[n]) < Keep => 1..reqID[n] \subseteq Numbered(n) \cup Unlogged(n)
  BY <1>2, <1>3, <1>4 DEF Accounted
<1> QED
  BY <1>2, <1>5, <1>6, <1>7 DEF Kept

\* A step that leaves a node's IDs as they are.
LEMMA SameNode ==
  ASSUME LogInv, NEW n \in Nodes, history'[n] = history[n], reqID'[n] = reqID[n],
         Logging(n)' = Logging(n), \A q \in Logging(n) : req'[q].id = req[q].id
  PROVE  (Drawn(n) /\ Kept(n) /\ Accounted(n))'
<1>1. Drawn(n) /\ Kept(n) /\ Accounted(n)
  BY DEF LogInv
<1>2. Drawn(n)'
  BY <1>1 DEF Drawn
<1>3. Kept(n)'
  BY <1>1 DEF Kept
<1>4. Accounted(n)'
  BY <1>1 DEF Accounted
<1> QED
  BY <1>2, <1>3, <1>4

\* Only finish, record and the end of an agent touch IDs.
SameLog ==
  /\ UNCHANGED <<reqID, history>>
  /\ \A r \in Requests :
       /\ (req'[r].pc = "log") = (req[r].pc = "log")
       /\ req[r].pc = "log" => req'[r].id = req[r].id /\ req'[r].entry = req[r].entry

LEMMA LogCases ==
  ASSUME TypeOK, [Next]_vars
  PROVE  \/ SameLog
         \/ \E r \in Requests : DrawID(r) \/ Record(r)
         \/ \E n \in Nodes : AgentStops(n)
<1>0. req \in [Requests -> ReqType]
  BY DEF TypeOK, ReqType
<1>2. ASSUME NEW r \in Requests, req[r].pc # "log", NEW l \in PC \ {"log"}, Goto(r, l),
             UNCHANGED <<reqID, history>>
      PROVE  SameLog
  BY <1>0, <1>2 DEF SameLog, Goto, ReqType
<1>3. ASSUME NEW r \in Requests, NEW q \in ReqType, req[r].pc # "log", Dispatch(r, q)
      PROVE  SameLog
  <2> DEFINE x == [q EXCEPT !.pc = "do"]
  <2>1. x.pc = "do" /\ req' = [req EXCEPT ![r] = x] /\ UNCHANGED <<reqID, history>>
    BY <1>3 DEF Dispatch, ReqType
  <2> HIDE DEF x
  <2> QED
    BY <1>0, <1>3, <2>1 DEF SameLog
<1>4. ASSUME NEW r \in Requests, EntryStep(r) PROVE SameLog \/ DrawID(r) \/ Record(r)
  BY <1>0, <1>2, <1>3, <1>4
     DEF EntryStep, Ensured, EnsureFails, Headers, Broken, Answered, Return, InForward, PC, counters
<1>5. ASSUME NEW r \in Requests, TargetStep(r) PROVE SameLog
  BY <1>5 DEF TargetStep, Accept, Stream, Served, CutOff, ProxyReturns, Drop, Unreachable, SameLog,
              counters
<1>6. ASSUME NEW r \in Requests, ClientLeaves(r) PROVE SameLog
  BY <1>0, <1>6 DEF ClientLeaves, SameLog, ReqType, counters
<1>7. ASSUME NEW r \in Requests, NEW e \in Nodes, NEW t \in Nodes, NEW k \in Kinds,
             Arrive(r, e, t, k)
      PROVE  SameLog
  <2> DEFINE q == [NoReq EXCEPT !.entry = e, !.target = t, !.kind = k]
  <2>0. q \in ReqType
    BY DEF NoReq, ReqType, PC, Kinds
  <2>1. req[r].pc = "idle"
    BY <1>7 DEF NoReq, Arrive, InProgress
  <2>2. CASE Dispatch(r, q)
    BY <1>3, <2>0, <2>1, <2>2
  <2>3. CASE req' = [req EXCEPT ![r] = [q EXCEPT !.pc = "ensure"]] /\ UNCHANGED <<reqID, history>>
    <3> DEFINE x == [q EXCEPT !.pc = "ensure"]
    <3>1. x.pc = "ensure"
      BY <2>0 DEF ReqType
    <3> HIDE DEF x, q
    <3> QED
      BY <1>0, <2>1, <2>3, <3>1 DEF SameLog, x
  <2> QED
    BY <1>7, <2>2, <2>3 DEF Arrive, counters
<1>8. ASSUME NEW n \in Nodes, AgentStarts(n) PROVE SameLog
  BY <1>8 DEF AgentStarts, SameLog, counters
<1>9. CASE UNCHANGED vars
  BY <1>9 DEF vars, SameLog
<1> QED
  BY <1>4, <1>5, <1>6, <1>7, <1>8, <1>9 DEF Next

\* A drawn ID is a new one.
LEMMA DrawKeeps ==
  ASSUME TypeOK, LogInv, NEW r \in Requests, DrawID(r), NEW n \in Nodes
  PROVE  (Drawn(n) /\ Kept(n) /\ Accounted(n))'
<1>0. /\ req \in [Requests -> ReqType] /\ reqID \in [Nodes -> Nat] /\ req[r].entry \in Nodes
      /\ history \in [Nodes -> Seq(Nat)] /\ Drawn(n) /\ Kept(n) /\ Accounted(n)
  BY DEF TypeOK, ReqType, DrawID, LogInv
<1>1. /\ UNCHANGED history
      /\ \A q \in Requests \ {r} : req'[q] = req[q]
      /\ req'[r].pc = "log" /\ req'[r].entry = req[r].entry
      /\ req'[r].id = reqID[req[r].entry] + 1 /\ req[r].pc = "end"
  BY <1>0 DEF DrawID, ReqType
<1>2. CASE n = req[r].entry
  <2>1. reqID'[n] = reqID[n] + 1 /\ reqID[n] \in Nat
    BY <1>0, <1>2 DEF DrawID
  <2>2. Logging(n)' = Logging(n) \cup {r} /\ r \notin Logging(n)
    BY <1>1, <1>2 DEF Logging
  <2>3. \A q \in Logging(n) : req'[q].id = req[q].id /\ req[q].id \in 1..reqID[n]
    BY <1>0, <1>1, <2>2 DEF Drawn, Logging
  <2>4. Drawn(n)'
    <3>1. req'[r].id = reqID[n] + 1
      BY <1>1, <1>2
    <3>2. \A q \in Logging(n)' : req'[q].id \in 1..reqID'[n]
      BY <2>1, <2>2, <2>3, <3>1
    <3>3. ASSUME NEW q \in Logging(n)', NEW p \in Logging(n)', req'[q].id = req'[p].id
          PROVE  q = p
      <4>1. \A x \in Logging(n) : req'[x].id # req'[r].id
        BY <2>1, <2>3, <3>1
      <4>2. CASE q \in Logging(n) /\ p \in Logging(n)
        BY <1>0, <2>3, <3>3, <4>2 DEF Drawn
      <4> QED
        BY <2>2, <3>3, <4>1, <4>2
    <3> QED
      BY <3>2, <3>3 DEF Drawn
  <2>5. Kept(n)'
    BY <1>0, <1>1, <2>1 DEF Kept
  <2>6. \A i \in 1..Len(history[n]) : history[n][i] \in 1..reqID[n]
    BY <1>0 DEF Kept
  <2>7. \A q \in Logging(n)', i \in 1..Len(history'[n]) : history'[n][i] # req'[q].id
    BY <1>0, <1>1, <1>2, <2>1, <2>2, <2>3, <2>6 DEF Accounted
  <2>8. ASSUME Len(history[n]) < Keep, NEW k \in 1..reqID'[n]
        PROVE  \/ \E i \in 1..Len(history[n]) : history[n][i] = k
               \/ \E q \in Logging(n)' : req'[q].id = k
    <3>1. CASE k = reqID[n] + 1
      BY <1>1, <1>2, <2>2, <3>1
    <3>2. CASE k \in 1..reqID[n]
      BY <1>0, <2>2, <2>3, <2>8, <3>2 DEF Accounted
    <3> QED
      BY <2>1, <3>1, <3>2
  <2> QED
    BY <1>1, <2>4, <2>5, <2>7, <2>8 DEF Accounted
<1>3. CASE n # req[r].entry
  <2>1. reqID'[n] = reqID[n] /\ Logging(n)' = Logging(n)
    BY <1>0, <1>1, <1>3 DEF DrawID, Logging
  <2>2. \A q \in Logging(n) : req'[q].id = req[q].id
    BY <1>1, <1>3, <2>1 DEF Logging
  <2> QED
    BY <1>1, <2>1, <2>2, SameNode
<1> QED
  BY <1>2, <1>3

\* What record does to a history: the ID comes first, the rest moves on, and what
\* is beyond the end is lost.
LEMMA Recorded ==
  ASSUME NEW h \in Seq(Nat), NEW id \in Nat, Len(h) <= Keep
  PROVE  LET longer == <<id>> \o h
             t == IF Len(longer) > Keep THEN SubSeq(longer, 1, Keep) ELSE longer
         IN /\ Len(t) = IF Len(h) = Keep THEN Keep ELSE Len(h) + 1
            /\ t[1] = id
            /\ \A i \in 2..Len(t) : t[i] = h[i - 1]
<1> DEFINE longer == <<id>> \o h
           t == IF Len(longer) > Keep THEN SubSeq(longer, 1, Keep) ELSE longer
<1>1. /\ longer \in Seq(Nat) /\ Len(longer) = Len(h) + 1 /\ Len(h) \in Nat
      /\ \A i \in 1..Len(h) + 1 : longer[i] = IF i = 1 THEN id ELSE h[i - 1]
  BY ConcatProperties
<1> HIDE DEF longer
<1>2. CASE Len(h) = Keep
  <2>1. \A i \in 1..Keep : longer[i] \in Nat
    BY <1>1, <1>2, KeepAssumption
  <2>2. /\ Len(SubSeq(longer, 1, Keep)) = Keep
        /\ \A i \in 1..Keep : SubSeq(longer, 1, Keep)[i] = longer[i]
    BY <2>1, KeepAssumption, SubSeqProperties
  <2> QED
    BY <1>1, <1>2, <2>2, KeepAssumption DEF longer
<1>3. CASE Len(h) # Keep
  BY <1>1, <1>3, KeepAssumption DEF longer
<1> QED
  BY <1>2, <1>3

\* A recorded ID moves from the requests to the history.
LEMMA RecordKeeps ==
  ASSUME TypeOK, LogInv, NEW r \in Requests, Record(r), NEW n \in Nodes
  PROVE  (Drawn(n) /\ Kept(n) /\ Accounted(n))'
<1>0. /\ req \in [Requests -> ReqType] /\ reqID \in [Nodes -> Nat] /\ req[r].entry \in Nodes
      /\ history \in [Nodes -> Seq(Nat)] /\ Drawn(n) /\ Kept(n) /\ Accounted(n)
      /\ history[n] \in Seq(Nat) /\ Len(history[n]) \in Nat
  BY DEF TypeOK, ReqType, Record, LogInv
<1>1. /\ UNCHANGED reqID /\ req[r].pc = "log" /\ req'[r] = NoReq /\ NoReq.pc # "log"
      /\ \A q \in Requests \ {r} : req'[q] = req[q]
  BY <1>0 DEF Record, NoReq
<1>2. Logging(n)' = Logging(n) \ {r} /\ \A q \in Logging(n)' : req'[q] = req[q]
  BY <1>1 DEF Logging
<1>3. Drawn(n)'
  BY <1>0, <1>1, <1>2 DEF Drawn
<1>4. CASE n # req[r].entry
  <2>1. history'[n] = history[n] /\ r \notin Logging(n)
    BY <1>0, <1>4 DEF Record, Logging
  <2> QED
    BY <1>1, <1>2, <2>1, SameNode
<1>5. CASE n = req[r].entry
  <2> DEFINE h == history[n]
             t == history'[n]
             id == req[r].id
  <2>1. r \in Logging(n) /\ id \in 1..reqID[n] /\ reqID[n] \in Nat
    BY <1>0, <1>1, <1>5 DEF Logging, Drawn
  <2>2. /\ Len(t) = IF Len(h) = Keep THEN Keep ELSE Len(h) + 1
        /\ t[1] = id
        /\ \A i \in 2..Len(t) : t[i] = h[i - 1]
    <3>1. t = LET longer == <<id>> \o h IN
              IF Len(longer) > Keep THEN SubSeq(longer, 1, Keep) ELSE longer
      BY <1>0, <1>5 DEF Record
    <3>2. id \in Nat /\ Len(h) <= Keep
      BY <1>0, <2>1 DEF Kept
    <3> HIDE DEF h, t, id
    <3> QED
      BY <1>0, <3>1, <3>2, Recorded DEF h
  <2>3. \A i \in 1..Len(h) : h[i] # id /\ h[i] \in 1..reqID[n]
    BY <1>0, <2>1 DEF Accounted, Kept
  <2>4. \A i, j \in 1..Len(h) : h[i] = h[j] => i = j
    BY <1>0 DEF Kept
  <2>5. \A q \in Logging(n)' : req[q].id # id /\ \A i \in 1..Len(h) : h[i] # req[q].id
    BY <1>0, <1>2, <2>1 DEF Drawn, Accounted
  <2>6. Len(h) \in Nat /\ Len(h) <= Keep /\ Keep \in Nat
    BY <1>0, KeepAssumption DEF Kept
  <2>7. Len(h) < Keep => \A k \in 1..reqID[n] : \/ \E i \in 1..Len(h) : h[i] = k
                                                \/ \E q \in Logging(n) : req[q].id = k
    BY <1>0 DEF Accounted
  <2> HIDE DEF h, t, id
  <2>8. \A i \in 1..Len(t) : \/ i = 1 /\ t[i] = id
                             \/ i - 1 \in 1..Len(h) /\ t[i] = h[i - 1]
    BY <2>2, <2>6
  <2>9. Kept(n)'
    <3>1. Len(t) <= Keep
      BY <2>2, <2>6
    <3>2. \A i \in 1..Len(t) : t[i] \in 1..reqID[n]
      BY <2>1, <2>3, <2>8
    <3>3. \A i, j \in 1..Len(t) : t[i] = t[j] => i = j
      BY <2>3, <2>4, <2>8
    <3> QED
      BY <1>1, <3>1, <3>2, <3>3 DEF Kept, t
  <2>10. Accounted(n)'
    <3>1. \A q \in Logging(n)', i \in 1..Len(t) : t[i] # req'[q].id
      BY <1>2, <2>5, <2>8
    <3>2. ASSUME Len(t) < Keep, NEW k \in 1..reqID[n]
          PROVE  (\E i \in 1..Len(t) : t[i] = k) \/ (\E q \in Logging(n)' : req'[q].id = k)
      <4>1. Len(h) < Keep /\ Len(t) = Len(h) + 1
        BY <2>2, <2>6, <3>2
      <4>2. CASE \E i \in 1..Len(h) : h[i] = k
        <5>1. PICK i \in 1..Len(h) : h[i] = k
          BY <4>2
        <5>2. i + 1 \in 2..Len(t) /\ t[i + 1] = h[(i + 1) - 1] /\ (i + 1) - 1 = i
          BY <2>2, <2>6, <4>1
        <5>3. i + 1 \in 1..Len(t) /\ t[i + 1] = k
          BY <2>6, <4>1, <5>1, <5>2
        <5> QED
          BY <5>3
      <4>3. CASE \E q \in Logging(n) : req[q].id = k
        <5>1. PICK q \in Logging(n) : req[q].id = k
          BY <4>3
        <5>2. CASE q = r
          BY <2>2, <2>6, <4>1, <5>1, <5>2 DEF id
        <5>3. CASE q # r
          BY <1>2, <5>1, <5>3
        <5> QED
          BY <5>2, <5>3
      <4> QED
        BY <2>7, <4>1, <4>2, <4>3
    <3> QED
      BY <1>1, <3>1, <3>2 DEF Accounted, t
  <2> QED
    BY <1>3, <2>9, <2>10
<1> QED
  BY <1>4, <1>5

\* An agent that stops forgets its IDs and the requests that hold them.
LEMMA StopKeeps ==
  ASSUME TypeOK, LogInv, NEW m \in Nodes, AgentStops(m), NEW n \in Nodes
  PROVE  (Drawn(n) /\ Kept(n) /\ Accounted(n))'
<1>0. /\ req \in [Requests -> ReqType] /\ reqID \in [Nodes -> Nat]
      /\ history \in [Nodes -> Seq(Nat)] /\ Drawn(n) /\ Kept(n) /\ Accounted(n)
  BY DEF TypeOK, ReqType, LogInv
<1>1. \A q \in Requests : req'[q] = IF req[q].entry = m THEN NoReq ELSE req[q]
  BY DEF AgentStops
<1>2. CASE n = m
  <2>1. Logging(n)' = {}
    BY <1>1, <1>2, NodesAssumption DEF Logging, NoReq
  <2>2. history'[n] = <<>> /\ reqID'[n] = 0
    BY <1>0, <1>2 DEF AgentStops
  <2> QED
    BY <2>1, <2>2, KeepAssumption DEF Drawn, Kept, Accounted
<1>3. CASE n # m
  <2>1. history'[n] = history[n] /\ reqID'[n] = reqID[n]
    BY <1>0, <1>3 DEF AgentStops
  <2>2. Logging(n)' = Logging(n) /\ \A q \in Logging(n) : req'[q] = req[q]
    BY <1>1, <1>3 DEF Logging, NoReq
  <2> QED
    BY <2>1, <2>2, SameNode
<1> QED
  BY <1>2, <1>3

LEMMA LogInvStep == TypeOK /\ LogInv /\ [Next]_vars => LogInv'
<1> SUFFICES ASSUME TypeOK, LogInv, [Next]_vars, NEW n \in Nodes
             PROVE  (Drawn(n) /\ Kept(n) /\ Accounted(n))'
  BY DEF LogInv
<1>1. CASE SameLog
  <2>1. Logging(n)' = Logging(n)
    <3>1. ASSUME NEW q \in Requests PROVE q \in Logging(n)' <=> q \in Logging(n)
      BY <1>1 DEF SameLog, Logging
    <3> QED
      BY <3>1 DEF Logging
  <2>2. \A q \in Logging(n) : req'[q].id = req[q].id
    BY <1>1 DEF SameLog, Logging
  <2> QED
    BY <1>1, <2>1, <2>2, SameNode DEF SameLog
<1> QED
  BY <1>1, LogCases, DrawKeeps, RecordKeeps, StopKeeps

-----------------------------------------------------------------------------
(***************************************************************************)
(* Theorems                                                                *)
(***************************************************************************)

LEMMA SpecInv == Spec => []Inv
<1>1. Inv /\ [Next]_vars => Inv'
  BY TypeStep, ActiveStep DEF Inv
<1> QED
  BY InitInv, <1>1, PTL DEF Spec

\* The types, and that every hop belongs to the request that made it, whoever
\* leaves or stops between the steps of handleInference and of the proxies.
THEOREM TypeCorrect == Spec => []TypeOK
<1>1. Inv => TypeOK
  BY DEF Inv
<1> QED
  BY SpecInv, <1>1, PTL

LEMMA ActiveFollows == Inv => ActiveLacksSelfDriven
<1> SUFFICES ASSUME Inv, NEW n \in Nodes
             PROVE  active[n] + Cardinality(SelfDriven(n)) = Cardinality(InEngine(n))
  BY DEF ActiveLacksSelfDriven
<1>1. InEngine(n) = CountedAt(n) \cup SelfDriven(n)
  BY DEF InEngine, SelfDriven, CountedAt, OwnAt, ProxiedAt, Inv, TypeOK, Kinds
<1>2. CountedAt(n) \cap SelfDriven(n) = {}
  BY NodesAssumption DEF SelfDriven, CountedAt, OwnAt, ProxiedAt, Inv, TypeOK, NoHop
<1>3. IsFiniteSet(CountedAt(n)) /\ IsFiniteSet(SelfDriven(n))
  <2>1. SelfDriven(n) \in SUBSET Requests
    BY DEF SelfDriven
  <2> QED
    BY <2>1, CountedFinite, RequestsAssumption, FS_Subset
<1>4. Cardinality(InEngine(n)) = Cardinality(CountedAt(n)) + Cardinality(SelfDriven(n)) - 0
  BY <1>1, <1>2, <1>3, FS_Union, FS_EmptySet
<1> QED
  BY <1>3, <1>4, FS_CardinalityType DEF Inv, ActiveIsCounted

\* Gateway.active is the number of requests in an engine of the node, less the splits it
\* drives itself: no error, refusal, broken connection or restart makes any other
\* difference.
THEOREM ActiveCounts == Spec => []ActiveLacksSelfDriven
BY SpecInv, ActiveFollows, PTL

\* A node's history has each request it has routed once: while it is not full it
\* lists every ID drawn, but for those finish has still to record, however the
\* handlers' finish and record interleave and whenever the agent restarts.
THEOREM HistoryIsComplete == Spec => []HistoryAccounts
<1>1. Spec => []LogInv
  BY InitLog, LogInvStep, TypeCorrect, PTL DEF Spec
<1> QED
  BY <1>1, TypeCorrect, LogGivesAccounts, PTL
=============================================================================
