------------------------ MODULE PipelineManagerProofs ------------------------
(***************************************************************************)
(* Proofs about PipelineManager, for any number of models, handlers,       *)
(* processes and ports.                                                    *)
(***************************************************************************)
EXTENDS PipelineManager, TLAPS

\* The steps of Next, one by one, for the case splits below.
CallerStep(c) ==
  \/ \E m \in Models : EnsureHit(c, m) \/ EnsureMiss(c, m) \/ ProxyLookup(c, m)
  \/ Purge(c) \/ Relaunch(c) \/ CheckAlive(c) \/ CheckHealth(c) \/ MarkReady(c)
  \/ MarkError(c) \/ StopFailed(c) \/ GiveUp(c) \/ ProxyTouch(c) \/ Connect(c)
  \/ EndStream(c)
ActorStep   == \E a \in Actors : Kill(a)
SweeperStep == GcScan \/ (\E s \in Sweepers : Sweep(s)) \/ Signal
AgentStep   == CloseServer \/ Exit \/ Restart
ProcessStep == Tick \/ \E p \in Pids : Bind(p) \/ Loaded(p) \/ Crash(p) \/ Reap(p)

LEMMA NextSteps ==
  ASSUME [Next]_vars
  PROVE  \/ \E c \in Callers : CallerStep(c)
         \/ ActorStep \/ SweeperStep \/ AgentStep \/ ProcessStep
         \/ UNCHANGED vars
BY DEF Next, EnsureStep, GcStep, StopStep, CallerStep, ActorStep, SweeperStep, AgentStep,
       ProcessStep, Actors, Sweepers

-----------------------------------------------------------------------------
(***************************************************************************)
(* Types                                                                   *)
(***************************************************************************)
LEMMA InitType == Init => TypeOK
BY NoPidAssumption, TimeoutAssumption
   DEF Init, TypeOK, CallShape, Present, PidOrNone, Pipeline, State, Call, NoCall, PC, Waiting

\* TypeOK in three parts: the sets the variables range over, the entries of the
\* table, and the calls.
Types ==
  /\ agent \in {"up", "stopping", "closing", "down"}
  /\ pipelines \in [Models -> PidOrNone]
  /\ pipe \in [Pids -> Pipeline]
  /\ proc \in [Pids -> {"none", "starting", "listening", "serving", "exited"}]
  /\ call \in [Callers -> Call]
  /\ victim \in [Actors -> PidOrNone]
  /\ todo \in [Sweepers -> SUBSET Models]
Filed(m) ==
  Present(m) => pipe[pipelines[m]].model = m /\ pipe[pipelines[m]].port \in Ports

LEMMA TypeParts ==
  TypeOK <=> Types /\ (\A m \in Models : Filed(m)) /\ (\A c \in Callers : CallShape(c))
BY DEF TypeOK, Types, Filed

\* A step that changes nothing but the local state of one call.
LEMMA OnlyCall ==
  ASSUME TypeOK, NEW c \in Callers, NEW r \in Call, call' = [call EXCEPT ![c] = r],
         UNCHANGED <<agent, pipelines, pipe, proc, victim, todo>>,
         r.pc # "idle" => r.model \in Models,
         r.own # NoPid => /\ r.pc \in Waiting \cup {"ready", "fail"}
                          /\ pipe[r.own].model = r.model,
         victim[c] # NoPid => r.pc \in {"idle", "relaunch"}
  PROVE  TypeOK'
<1> USE TypeParts
<1>1. Types'
  BY DEF Types
<1>2. ASSUME NEW m \in Models PROVE Filed(m)'
  BY DEF Filed, Present
<1>3. ASSUME NEW d \in Callers PROVE CallShape(d)'
  <2>1. CASE d = c
    BY <2>1 DEF Types, CallShape
  <2>2. CASE d # c
    BY <2>2 DEF Types, CallShape
  <2> QED
    BY <2>1, <2>2
<1> QED
  BY <1>1, <1>2, <1>3 DEF TypeOK, Types, Filed, CallShape, Present

\* A step that changes the state or the age of entries, and nothing else of the
\* pipelines.
LEMMA SameIdentity ==
  ASSUME TypeOK, Types',
         \A p \in Pids : pipe'[p].model = pipe[p].model /\ pipe'[p].port = pipe[p].port,
         \A m \in Models : pipelines'[m] \in {pipelines[m], NoPid}
  PROVE  \A m \in Models : Filed(m)'
BY NoPidAssumption DEF TypeOK, Types, Present, Filed, PidOrNone

LEMMA LaunchType ==
  ASSUME TypeOK, NEW c \in Callers, NEW m \in Models, Launch(c, m),
         victim[c] = NoPid, call[c].own = NoPid, UNCHANGED <<agent, victim, todo>>
  PROVE  TypeOK'
<1> USE NoPidAssumption, NoModelAssumption, TimeoutAssumption
<1>1. CASE Return(c) /\ UNCHANGED <<pipelines, pipe, proc>>
  <2>1. NoCall \in Call
    BY DEF NoCall, Call, PC, PidOrNone
  <2> QED
    BY <1>1, <2>1, OnlyCall DEF Return, NoCall
<1>2. ASSUME NEW p \in Pids, NEW k \in Ports,
             Unreferenced(p),
             pipe' = [pipe EXCEPT ![p] =
                        [model |-> m, state |-> "loading", port |-> k, age |-> 0]],
             proc' = [proc EXCEPT ![p] = "starting"],
             pipelines' = [pipelines EXCEPT ![m] = p],
             call' = [call EXCEPT ![c] = [pc |-> "alive", model |-> m, port |-> k,
                                          own |-> p, conn |-> NoPid]]
      PROVE  TypeOK'
  <2>1. Types
    BY TypeParts
  <2>2. /\ [model |-> m, state |-> "loading", port |-> k, age |-> 0] \in Pipeline
        /\ [pc |-> "alive", model |-> m, port |-> k, own |-> p, conn |-> NoPid] \in Call
    BY DEF Pipeline, State, Call, PC, Waiting, PidOrNone
  <2>3. Types'
    BY <1>2, <2>1, <2>2 DEF Types, PidOrNone
  <2>4. ASSUME NEW n \in Models PROVE Filed(n)'
    <3>1. Filed(n) /\ pipelines[n] # p
      BY TypeParts, <1>2 DEF Unreferenced
    <3> QED
      BY <1>2, <2>1, <3>1 DEF Filed, Present, Types, PidOrNone
  <2>5. ASSUME NEW d \in Callers PROVE CallShape(d)'
    <3>1. CallShape(d) /\ call[d].own # p
      BY TypeParts, <1>2 DEF Unreferenced
    <3>2. CASE d = c
      BY <1>2, <2>1, <3>2 DEF CallShape, Types, Waiting
    <3>3. CASE d # c
      <4>1. call'[d] = call[d]
        BY <1>2, <2>1, <3>3 DEF Types
      <4>2. call[d].own \in PidOrNone
        BY <2>1 DEF Types, Call
      <4> QED
        BY <1>2, <2>1, <3>1, <4>1, <4>2 DEF CallShape, Types, PidOrNone
    <3> QED
      BY <3>2, <3>3
  <2> QED
    BY <2>3, <2>4, <2>5 DEF TypeOK, Types, Filed, CallShape, Present
<1> QED
  BY <1>1, <1>2 DEF Launch

\* A step that changes the state or the age of one entry, and the pc of a call
\* that thereby stops being its owner, if it was.
LEMMA UpdateEntry ==
  ASSUME TypeOK, NEW c \in Callers, NEW r \in Call, call' = [call EXCEPT ![c] = r],
         r.model \in Models, r.own = NoPid,
         victim[c] # NoPid => r.pc \in {"idle", "relaunch"},
         pipe' \in [Pids -> Pipeline],
         \A p \in Pids : pipe'[p].model = pipe[p].model /\ pipe'[p].port = pipe[p].port,
         UNCHANGED <<agent, pipelines, proc, victim, todo>>
  PROVE  TypeOK'
<1>1. Types /\ Types'
  BY TypeParts DEF Types
<1>2. \A m \in Models : Filed(m)'
  BY <1>1, SameIdentity
<1>3. ASSUME NEW d \in Callers PROVE CallShape(d)'
  <2>1. CallShape(d) /\ call[d].own \in PidOrNone
    BY TypeParts, <1>1 DEF Types, Call
  <2>2. CASE d = c
    BY <1>1, <2>2 DEF Types, CallShape
  <2>3. CASE d # c
    BY <1>1, <2>1, <2>3 DEF Types, CallShape, PidOrNone
  <2> QED
    BY <2>2, <2>3
<1> QED
  BY <1>1, <1>2, <1>3 DEF TypeOK, Types, Filed, CallShape, Present

LEMMA SetInfoType ==
  ASSUME TypeOK, NEW m \in Models, NEW s \in State, SetInfo(m, s)
  PROVE  /\ pipe' \in [Pids -> Pipeline]
         /\ \A p \in Pids : pipe'[p].model = pipe[p].model /\ pipe'[p].port = pipe[p].port
BY DEF TypeOK, SetInfo, Present, Pipeline, PidOrNone

LEMMA CallerType ==
  ASSUME TypeOK, NEW c \in Callers, CallerStep(c)
  PROVE  TypeOK'
<1>0. /\ call[c] \in Call /\ CallShape(c)
      /\ \A l \in PC : [call[c] EXCEPT !.pc = l] \in Call
      /\ NoCall \in Call
  BY DEF TypeOK, Call, NoCall, PidOrNone, PC
<1> USE NoPidAssumption, NoModelAssumption, TimeoutAssumption
<1>a. ASSUME NEW l \in PC, Goto(c, l) PROVE call' = [call EXCEPT ![c] = [call[c] EXCEPT !.pc = l]]
  BY <1>a DEF Goto
<1>1. ASSUME NEW m \in Models, EnsureHit(c, m) PROVE TypeOK'
  <2> DEFINE p == pipelines[m]
             next == [ready |-> "use", loading |-> "alive", error |-> "purge"]
             r == [NoCall EXCEPT !.pc = next[pipe[p].state], !.model = m, !.port = pipe[p].port]
  <2>1. p \in Pids /\ pipe[p] \in Pipeline
    BY <1>1 DEF EnsureHit, Present, TypeOK, PidOrNone
  <2>2. next[pipe[p].state] \in PC \ {"idle"}
    BY <2>1 DEF Pipeline, State, PC, Waiting
  <2>3. r \in Call /\ r.model = m /\ r.own = NoPid
    BY <2>1, <2>2, <1>0 DEF Pipeline, Call, NoCall, PidOrNone
  <2>4. /\ call' = [call EXCEPT ![c] = r] /\ pipe' = [pipe EXCEPT ![p].age = 0]
        /\ UNCHANGED <<agent, pipelines, proc, victim, todo>> /\ victim[c] = NoPid
    BY <1>1 DEF EnsureHit, MayBegin
  <2>5. /\ pipe' \in [Pids -> Pipeline]
        /\ \A q \in Pids : pipe'[q].model = pipe[q].model /\ pipe'[q].port = pipe[q].port
    BY <2>1, <2>4 DEF TypeOK, Pipeline
  <2> HIDE DEF r, next, p
  <2> QED
    BY <2>3, <2>4, <2>5, UpdateEntry
<1>2. ASSUME NEW m \in Models, EnsureMiss(c, m) PROVE TypeOK'
  BY <1>2, <1>0, LaunchType DEF EnsureMiss, MayBegin, CallShape, Waiting
<1>3. ASSUME NEW m \in Models, ProxyLookup(c, m) PROVE TypeOK'
  BY <1>3 DEF ProxyLookup, Ready, MayBegin, TypeOK, CallShape, Present, PidOrNone, Pipeline, State,
              Call, NoCall, PC, Waiting, Actors
<1>4. CASE Purge(c)
  <2>1. call[c].model \in Models /\ call[c].own = NoPid
    BY <1>0, <1>4 DEF Purge, CallShape, Waiting
  <2>2. Types /\ Types'
    BY <1>4, <2>1, <1>0, <1>a, TypeParts DEF Purge, Forget, Types, PidOrNone, PC, Actors
  <2>3. \A m \in Models : Filed(m)'
    BY <1>4, <2>1, <2>2, SameIdentity DEF Purge, Forget, Types
  <2>4. ASSUME NEW d \in Callers PROVE CallShape(d)'
    BY <1>4, <2>1, <2>2, TypeParts DEF Purge, Forget, Goto, CallShape, Types, Call, Actors
  <2> QED
    BY <2>2, <2>3, <2>4 DEF TypeOK, Types, Filed, CallShape, Present
<1>5. CASE Relaunch(c)
  BY <1>5, <1>0, LaunchType DEF Relaunch, CallShape, Waiting
<1>6. CASE CheckAlive(c)
  BY <1>6 DEF CheckAlive, Failed, TypeOK, CallShape, Present, PidOrNone, Call, NoCall, PC,
              Waiting, Actors, Goto, Return
<1>7. CASE CheckHealth(c)
  <2>1. /\ call[c].pc = "health" /\ UNCHANGED <<agent, pipelines, pipe, proc, victim, todo>>
        /\ Goto(c, "alive") \/ Goto(c, IF call[c].own # NoPid THEN "ready" ELSE "use")
    BY <1>7 DEF CheckHealth
  <2>2. CASE Goto(c, "alive")
    BY <1>0, <1>a, <2>1, <2>2, OnlyCall DEF CallShape, PC, Waiting, Call
  <2>3. CASE call[c].own # NoPid /\ Goto(c, "ready")
    BY <1>0, <1>a, <2>1, <2>3, OnlyCall DEF CallShape, PC, Waiting, Call
  <2>4. CASE call[c].own = NoPid /\ Goto(c, "use")
    BY <1>0, <1>a, <2>1, <2>4, OnlyCall DEF CallShape, PC, Waiting, Call
  <2> QED
    BY <2>1, <2>2, <2>3, <2>4
<1>8. CASE MarkReady(c)
  <2> DEFINE r == [call[c] EXCEPT !.pc = "use", !.own = NoPid]
  <2>1. /\ r \in Call /\ r.model \in Models /\ r.own = NoPid /\ victim[c] = NoPid
        /\ call[c].model \in Models
    BY <1>0, <1>8 DEF MarkReady, CallShape, Call, PC, PidOrNone
  <2>2. /\ call' = [call EXCEPT ![c] = r] /\ SetInfo(call[c].model, "ready")
        /\ UNCHANGED <<agent, pipelines, proc, victim, todo>>
    BY <1>8 DEF MarkReady
  <2>3. "ready" \in State
    BY DEF State
  <2> HIDE DEF r
  <2> QED
    BY <2>1, <2>2, <2>3, SetInfoType, UpdateEntry
<1>9. CASE MarkError(c)
  <2> DEFINE r == [call[c] EXCEPT !.pc = "stop", !.own = NoPid]
  <2>1. /\ r \in Call /\ r.model \in Models /\ r.own = NoPid /\ victim[c] = NoPid
        /\ call[c].model \in Models
    BY <1>0, <1>9 DEF MarkError, CallShape, Call, PC, PidOrNone
  <2>2. /\ call' = [call EXCEPT ![c] = r] /\ SetInfo(call[c].model, "error")
        /\ UNCHANGED <<agent, pipelines, proc, victim, todo>>
    BY <1>9 DEF MarkError
  <2>3. "error" \in State
    BY DEF State
  <2> HIDE DEF r
  <2> QED
    BY <2>1, <2>2, <2>3, SetInfoType, UpdateEntry
<1>10. CASE StopFailed(c)
  BY <1>10 DEF StopFailed, Forget, TypeOK, CallShape, Present, PidOrNone, Call, NoCall, PC,
               Waiting, Actors, Return
<1>11. CASE GiveUp(c)
  BY <1>11 DEF GiveUp, Failed, TypeOK, CallShape, Present, PidOrNone, Call, NoCall, PC,
               Waiting, Actors, Goto, Return
<1>12. CASE ProxyTouch(c)
  <2> DEFINE r == [call[c] EXCEPT !.pc = "use"]
  <2>1. /\ r \in Call /\ r.model \in Models /\ r.own = NoPid /\ victim[c] = NoPid
        /\ call[c].model \in Models
    BY <1>0, <1>12 DEF ProxyTouch, CallShape, Call, PC, Waiting
  <2>2. /\ call' = [call EXCEPT ![c] = r] /\ UNCHANGED <<agent, pipelines, proc, victim, todo>>
        /\ pipe' = IF Present(call[c].model)
                   THEN [pipe EXCEPT ![pipelines[call[c].model]].age = 0] ELSE pipe
    BY <1>12 DEF ProxyTouch, Goto
  <2>3. /\ pipe' \in [Pids -> Pipeline]
        /\ \A p \in Pids : pipe'[p].model = pipe[p].model /\ pipe'[p].port = pipe[p].port
    BY <2>1, <2>2 DEF TypeOK, Present, Pipeline, PidOrNone
  <2> HIDE DEF r
  <2> QED
    BY <2>1, <2>2, <2>3, UpdateEntry
<1>13. CASE Connect(c)
  <2>1. /\ call[c].pc = "use" /\ UNCHANGED <<agent, pipelines, pipe, proc, victim, todo>>
        /\ call[c].own = NoPid /\ victim[c] = NoPid
    BY <1>13, <1>0 DEF Connect, CallShape, Waiting
  <2>2. CASE Return(c)
    BY <1>0, <2>1, <2>2, OnlyCall DEF Return, NoCall
  <2>3. ASSUME NEW p \in Pids, call' = [call EXCEPT ![c].pc = "stream", ![c].conn = p]
        PROVE  TypeOK'
    <3> DEFINE r == [call[c] EXCEPT !.pc = "stream", !.conn = p]
    <3>1. r \in Call /\ r.own = NoPid /\ r.model \in Models /\ call' = [call EXCEPT ![c] = r]
      BY <1>0, <2>1, <2>3 DEF Call, PC, PidOrNone, CallShape
    <3> HIDE DEF r
    <3> QED
      BY <2>1, <3>1, OnlyCall
  <2> QED
    BY <1>13, <2>2, <2>3 DEF Connect, Bound
<1>14. CASE EndStream(c)
  BY <1>14 DEF EndStream, TypeOK, CallShape, Present, PidOrNone, Call, NoCall, PC, Waiting,
               Actors, Return
<1> QED
  BY <1>1, <1>2, <1>3, <1>4, <1>5, <1>6, <1>7, <1>8, <1>9, <1>10, <1>11, <1>12, <1>13, <1>14
     DEF CallerStep

LEMMA OtherType ==
  ASSUME TypeOK, ActorStep \/ SweeperStep \/ AgentStep \/ ProcessStep \/ UNCHANGED vars
  PROVE  TypeOK'
<1> USE NoPidAssumption, TimeoutAssumption, SweepersAssumption
    DEF TypeOK, CallShape, Present, PidOrNone, Actors, Sweepers
<1>1. ASSUME NEW a \in Actors, Kill(a) PROVE TypeOK'
  BY <1>1 DEF Kill
<1>2. CASE GcScan
  BY <1>2 DEF GcScan
<1>3. ASSUME NEW s \in Sweepers, Sweep(s) PROVE TypeOK'
  BY <1>3 DEF Sweep, Forget
<1>4. CASE Signal
  BY <1>4 DEF Signal
<1>5. CASE CloseServer \/ Restart
  BY <1>5 DEF CloseServer, Restart
<1>6. CASE Exit
  BY <1>6 DEF Exit, Call, NoCall, PC, Waiting
<1>7. ASSUME NEW p \in Pids, Bind(p) \/ Loaded(p) \/ Crash(p) PROVE TypeOK'
  BY <1>7 DEF Bind, Loaded, Crash
<1>8. ASSUME NEW p \in Pids, Reap(p) PROVE TypeOK'
  BY <1>8 DEF Reap
<1>9. CASE Tick
  <2>1. /\ UNCHANGED <<agent, pipelines, proc, call, victim, todo>>
        /\ pipe' \in [Pids -> Pipeline]
        /\ \A p \in Pids : pipe'[p].model = pipe[p].model /\ pipe'[p].port = pipe[p].port
    BY <1>9 DEF Tick, Pipeline
  <2>2. Types /\ Types'
    BY <2>1, TypeParts DEF Types
  <2>3. \A m \in Models : Filed(m)'
    BY <2>1, <2>2, SameIdentity DEF Types
  <2> QED
    BY <2>1, <2>2, <2>3 DEF Types, Filed, Call
<1>10. CASE UNCHANGED vars
  BY <1>10 DEF vars
<1> QED
  BY <1>1, <1>2, <1>3, <1>4, <1>5, <1>6, <1>7, <1>8, <1>9, <1>10
     DEF ActorStep, SweeperStep, AgentStep, ProcessStep

LEMMA TypeStep == TypeOK /\ [Next]_vars => TypeOK'
BY NextSteps, CallerType, OtherType

\* Every reachable state is well typed, entries are filed under their own model
\* and calls have the shape CallShape describes.
THEOREM TypeCorrect == Spec => []TypeOK
BY InitType, TypeStep, PTL DEF Spec

-----------------------------------------------------------------------------
(***************************************************************************)
(* Safety.  Each of the three invariants is preserved by every step from a *)
(* well typed state, and none needs the others; the conjunction is what    *)
(* the theorems are drawn from.                                            *)
(***************************************************************************)
Inv == TypeOK /\ LoadingHasOwner /\ DeadEntryIsDropped /\ KillsOnlyForgotten

LEMMA InitInv == Init => Inv
BY InitType DEF Inv, Init, LoadingHasOwner, DeadEntryIsDropped, KillsOnlyForgotten, Present

\* What a step can do to the table and to the processes on their way to be
\* killed: launch, forget, kill, reap, or end with the agent.
LaunchStep == \E c \in Callers, m \in Models :
                /\ Launch(c, m) /\ UNCHANGED <<agent, victim>>
                /\ call[c].pc \in {"idle", "relaunch"}
                /\ Present(m) => call[c].pc = "relaunch"
ForgetStep == \E a \in Actors, m \in Models :
                Forget(a, m) /\ victim[a] = NoPid /\ UNCHANGED <<agent, pipe, proc>>

LEMMA TableSteps ==
  ASSUME TypeOK, [Next]_vars
  PROVE  \/ LaunchStep \/ ForgetStep \/ Exit
         \/ \E a \in Actors : Kill(a)
         \/ \E p \in Pids : Reap(p)
         \/ UNCHANGED <<pipelines, victim>>
<1>1. ASSUME NEW c \in Callers, CallerStep(c)
      PROVE  LaunchStep \/ ForgetStep \/ UNCHANGED <<pipelines, victim>>
  <2>1. c \in Actors /\ CallShape(c)
    BY DEF TypeOK, Actors
  <2>2. ASSUME NEW m \in Models, EnsureMiss(c, m) PROVE LaunchStep
    BY <2>2 DEF EnsureMiss, MayBegin, LaunchStep
  <2>3. CASE Relaunch(c)
    BY <2>1, <2>3 DEF Relaunch, LaunchStep, CallShape
  <2>4. CASE Purge(c) \/ StopFailed(c)
    <3>1. victim[c] = NoPid /\ call[c].model \in Models
      BY <2>1, <2>4 DEF Purge, StopFailed, CallShape
    <3> QED
      BY <2>1, <2>4, <3>1 DEF Purge, StopFailed, ForgetStep
  <2> QED
    BY <1>1, <2>2, <2>3, <2>4
       DEF CallerStep, EnsureHit, ProxyLookup, CheckAlive, CheckHealth, MarkReady, MarkError,
           GiveUp, ProxyTouch, Connect, EndStream
<1>2. ASSUME NEW s \in Sweepers, Sweep(s) PROVE ForgetStep
  BY <1>2 DEF Sweep, ForgetStep, Actors, TypeOK
<1>3. CASE SweeperStep \/ AgentStep \/ ProcessStep \/ UNCHANGED vars
  BY <1>2, <1>3 DEF SweeperStep, AgentStep, ProcessStep, GcScan, Signal, CloseServer, Restart,
                   Tick, Bind, Loaded, Crash, vars
<1> QED
  BY <1>1, <1>3, NextSteps DEF ActorStep

\* Two models never share a process.
LEMMA DistinctEntries ==
  ASSUME TypeOK, NEW m \in Models, NEW n \in Models, Present(m), pipelines[m] = pipelines[n]
  PROVE  m = n
BY DEF TypeOK, Present

LEMMA KillsStep == Inv /\ [Next]_vars => KillsOnlyForgotten'
<1> SUFFICES ASSUME Inv, [Next]_vars PROVE KillsOnlyForgotten'
  OBVIOUS
<1> USE NoPidAssumption DEF KillsOnlyForgotten
<1>0. TypeOK /\ pipelines \in [Models -> PidOrNone] /\ victim \in [Actors -> PidOrNone]
  BY DEF Inv, TypeOK
<1>1. CASE LaunchStep
  BY <1>0, <1>1 DEF LaunchStep, Launch, Unreferenced, Inv, Present
<1>2. CASE ForgetStep
  BY <1>0, <1>2, DistinctEntries DEF ForgetStep, Forget, Inv, Present
<1>3. CASE Exit
  BY <1>3 DEF Exit, Present
<1>4. ASSUME NEW a \in Actors, Kill(a) PROVE KillsOnlyForgotten'
  BY <1>0, <1>4 DEF Kill, Inv, Present
<1>5. ASSUME NEW p \in Pids, Reap(p) PROVE KillsOnlyForgotten'
  BY <1>0, <1>5 DEF Reap, Inv, Present
<1>6. CASE UNCHANGED <<pipelines, victim>>
  BY <1>6 DEF Inv, Present
<1> QED
  BY <1>0, <1>1, <1>2, <1>3, <1>4, <1>5, <1>6, TableSteps

LEMMA LostStep ==
  ASSUME TypeOK, [Next]_vars, agent = "up",
         NEW p \in Pids, Tracked(p), (proc[p] \in Live /\ ~Tracked(p))'
  PROVE  \E c \in Callers : call[c].pc = "relaunch"
<1> USE NoPidAssumption DEF Tracked
<1>0. /\ pipelines \in [Models -> PidOrNone] /\ victim \in [Actors -> PidOrNone]
      /\ proc \in [Pids -> {"none", "starting", "listening", "serving", "exited"}]
  BY DEF TypeOK
<1>1. CASE LaunchStep
  BY <1>0, <1>1 DEF LaunchStep, Launch, Present
<1>2. CASE ForgetStep
  BY <1>0, <1>2 DEF ForgetStep, Forget
<1>3. CASE Exit
  BY <1>3 DEF Exit
<1>4. ASSUME NEW a \in Actors, Kill(a) PROVE FALSE
  BY <1>0, <1>4 DEF Kill, Live
<1>5. ASSUME NEW q \in Pids, Reap(q) PROVE FALSE
  BY <1>0, <1>5 DEF Reap, Live
<1>6. CASE UNCHANGED <<pipelines, victim>>
  BY <1>6
<1> QED
  BY <1>1, <1>2, <1>3, <1>4, <1>5, <1>6, TableSteps

\* What a step can do to the states of the entries and to the calls that answer
\* for them.  A quiet step loads, fails and reaps nothing, and no call gives up
\* its pipeline or its duty to stop one.
Quiet ==
  /\ \A m \in Models : pipelines'[m] \in {pipelines[m], NoPid}
  /\ \A p \in Pids : /\ pipe'[p].state = pipe[p].state
                     /\ proc'[p] = "none" => proc[p] = "none"
  /\ \A c \in Callers : /\ call'[c].own = call[c].own
                        /\ call[c].pc = "stop" => /\ call'[c].pc = "stop"
                                                  /\ call'[c].model = call[c].model

LEMMA StateSteps ==
  ASSUME TypeOK, [Next]_vars
  PROVE  \/ LaunchStep \/ Exit \/ Quiet
         \/ \E c \in Callers : MarkReady(c) \/ MarkError(c) \/ StopFailed(c)
         \/ \E p \in Pids : Reap(p)
<1> USE NoPidAssumption
<1>0. /\ pipelines \in [Models -> PidOrNone] /\ pipe \in [Pids -> Pipeline]
      /\ proc \in [Pids -> {"none", "starting", "listening", "serving", "exited"}]
      /\ call \in [Callers -> Call]
  BY DEF TypeOK
<1>1. ASSUME NEW c \in Callers, CallerStep(c)
      PROVE  LaunchStep \/ Quiet \/ MarkReady(c) \/ MarkError(c) \/ StopFailed(c)
  <2> USE <1>0
  <2>1. CallShape(c) /\ call[c] \in Call
    BY DEF TypeOK
  <2>2. ASSUME NEW m \in Models, EnsureHit(c, m) PROVE Quiet
    <3>1. /\ pipelines[m] \in Pids /\ call[c].own = NoPid /\ call[c].pc = "idle"
          /\ call'[c].own = NoPid
      BY <2>1, <2>2 DEF EnsureHit, MayBegin, Present, PidOrNone, CallShape, Waiting, Call, NoCall
    <3>2. \A d \in Callers : d # c => call'[d] = call[d]
      BY <2>2 DEF EnsureHit
    <3>3. \A p \in Pids : pipe'[p].state = pipe[p].state
      BY <2>2, <3>1 DEF EnsureHit, Pipeline
    <3>4. UNCHANGED <<pipelines, proc>>
      BY <2>2 DEF EnsureHit
    <3> QED
      BY <3>1, <3>2, <3>3, <3>4 DEF Quiet
  <2>3. ASSUME NEW m \in Models, EnsureMiss(c, m) PROVE LaunchStep
    BY <2>3 DEF EnsureMiss, MayBegin, LaunchStep
  <2>4. ASSUME NEW m \in Models, ProxyLookup(c, m) PROVE Quiet
    BY <2>1, <2>4 DEF ProxyLookup, MayBegin, CallShape, Waiting, Call, NoCall, Quiet
  <2>5. CASE Purge(c)
    BY <2>1, <2>5 DEF Purge, Forget, Goto, CallShape, Call, Quiet
  <2>6. CASE Relaunch(c)
    BY <2>1, <2>6 DEF Relaunch, LaunchStep, CallShape
  <2>7. CASE CheckAlive(c) \/ GiveUp(c)
    BY <2>1, <2>7 DEF CheckAlive, GiveUp, Failed, Goto, Return, NoCall, Call, Quiet
  <2>8. CASE CheckHealth(c)
    BY <2>1, <2>8 DEF CheckHealth, Goto, Call, Quiet
  <2>9. CASE ProxyTouch(c)
    <3>1. call[c].model \in Models
      BY <2>1, <2>9 DEF ProxyTouch, CallShape
    <3>2. \A p \in Pids : pipe'[p].state = pipe[p].state
      BY <2>9, <3>1 DEF ProxyTouch, Present, PidOrNone, Pipeline
    <3> QED
      BY <2>1, <2>9, <3>2 DEF ProxyTouch, Goto, Call, Quiet
  <2>10. CASE Connect(c) \/ EndStream(c)
    BY <2>1, <2>10 DEF Connect, EndStream, Return, NoCall, Call, CallShape, Waiting, Quiet
  <2> QED
    BY <1>1, <2>2, <2>3, <2>4, <2>5, <2>6, <2>7, <2>8, <2>9, <2>10 DEF CallerStep
<1>2. ASSUME NEW s \in Sweepers, Sweep(s) PROVE Quiet
  BY <1>0, <1>2 DEF Sweep, Forget, Quiet
<1>3. ASSUME NEW a \in Actors, Kill(a) PROVE Quiet
  BY <1>0, <1>3 DEF Kill, Live, Quiet, PidOrNone, TypeOK
<1>4. CASE GcScan \/ Signal \/ CloseServer \/ Restart \/ UNCHANGED vars
  BY <1>4 DEF GcScan, Signal, CloseServer, Restart, vars, Quiet
<1>5. ASSUME NEW p \in Pids, Bind(p) \/ Loaded(p) \/ Crash(p) PROVE Quiet
  BY <1>0, <1>5 DEF Bind, Loaded, Crash, Quiet
<1>6. CASE Tick
  BY <1>0, <1>6 DEF Tick, Quiet, Pipeline
<1> QED
  BY <1>1, <1>2, <1>3, <1>4, <1>5, <1>6, NextSteps
     DEF ActorStep, SweeperStep, AgentStep, ProcessStep

\* A launch: the new entry is loading, alive and owned by the call; the others
\* are as they were.
LEMMA LaunchEffect ==
  ASSUME TypeOK, NEW c \in Callers, NEW m \in Models, Launch(c, m),
         call[c].pc \in {"idle", "relaunch"}
  PROVE  /\ \A n \in Models : n # m => pipelines'[n] = pipelines[n]
         /\ \/ UNCHANGED <<pipelines, pipe, proc>>
            \/ /\ pipe'[pipelines'[m]].state = "loading" /\ proc'[pipelines'[m]] # "none"
               /\ call'[c].own = pipelines'[m]
               /\ \A n \in Models : n # m /\ Present(n) =>
                    /\ pipe'[pipelines[n]] = pipe[pipelines[n]]
                    /\ proc'[pipelines[n]] = proc[pipelines[n]]
         /\ call[c].own = NoPid
         /\ \A d \in Callers : d # c => call'[d] = call[d]
<1>1. /\ pipelines \in [Models -> PidOrNone] /\ call \in [Callers -> Call]
      /\ pipe \in [Pids -> Pipeline] /\ CallShape(c)
      /\ proc \in [Pids -> {"none", "starting", "listening", "serving", "exited"}]
  BY DEF TypeOK
<1> QED
  BY <1>1, NoPidAssumption DEF Launch, Unreferenced, Present, PidOrNone, CallShape, Waiting, Return

LEMMA OwnerStep == Inv /\ [Next]_vars => LoadingHasOwner'
<1> SUFFICES ASSUME Inv, [Next]_vars, NEW m \in Models, Present(m)',
                    (pipe[pipelines[m]].state = "loading")'
             PROVE  \E c \in Callers : call'[c].own = pipelines'[m]
  BY DEF LoadingHasOwner
<1> USE NoPidAssumption
<1>0. /\ TypeOK /\ TypeOK' /\ pipelines \in [Models -> PidOrNone]
      /\ call \in [Callers -> Call] /\ pipe \in [Pids -> Pipeline]
  BY TypeStep DEF Inv, TypeOK
<1>1. CASE LaunchStep
  <2>1. PICK c \in Callers, n \in Models :
          Launch(c, n) /\ call[c].pc \in {"idle", "relaunch"}
    BY <1>1 DEF LaunchStep
  <2>2. CASE m = n /\ ~UNCHANGED <<pipelines, pipe, proc>>
    BY <1>0, <2>1, <2>2, LaunchEffect
  <2>3. CASE m # n \/ UNCHANGED <<pipelines, pipe, proc>>
    <3>1. Present(m) /\ pipelines'[m] = pipelines[m] /\ pipe[pipelines[m]].state = "loading"
      BY <1>0, <2>1, <2>3, LaunchEffect DEF Present
    <3>2. PICK d \in Callers : call[d].own = pipelines[m]
      BY <3>1 DEF Inv, LoadingHasOwner
    <3> QED
      BY <1>0, <2>1, <3>1, <3>2, LaunchEffect DEF Present
  <2> QED
    BY <2>2, <2>3
<1>2. CASE Exit
  BY <1>2 DEF Exit, Present
<1>3. CASE Quiet
  BY <1>0, <1>3 DEF Quiet, Inv, LoadingHasOwner, Present, PidOrNone
\* The call that records an outcome was the owner of no other model's entry.
<1>4. ASSUME NEW c \in Callers, MarkReady(c) \/ MarkError(c)
      PROVE  \E d \in Callers : call'[d].own = pipelines'[m]
  <2>1. /\ Present(m) /\ UNCHANGED pipelines /\ call[c].model \in Models /\ CallShape(c)
        /\ pipelines[m] \in Pids /\ pipe[pipelines[m]].model = m
    BY <1>0, <1>4 DEF MarkReady, MarkError, TypeOK, CallShape, Present, PidOrNone
  <2>2. m # call[c].model
    BY <1>0, <1>4, <2>1 DEF MarkReady, MarkError, SetInfo, Present, Pipeline
  <2>3. pipe[pipelines[m]].state = "loading"
    BY <1>0, <1>4, <2>1, <2>2, DistinctEntries DEF MarkReady, MarkError, SetInfo, Present, Pipeline, PidOrNone
  <2>4. PICK d \in Callers : call[d].own = pipelines[m]
    BY <2>1, <2>3 DEF Inv, LoadingHasOwner
  <2>5. d # c
    BY <2>1, <2>2, <2>4 DEF CallShape, Present
  <2> QED
    BY <1>0, <1>4, <2>1, <2>4, <2>5 DEF MarkReady, MarkError
<1>5. ASSUME NEW c \in Callers, StopFailed(c)
      PROVE  \E d \in Callers : call'[d].own = pipelines'[m]
  <2>1. Present(m) /\ pipelines'[m] = pipelines[m] /\ pipe[pipelines[m]].state = "loading"
    BY <1>0, <1>5 DEF StopFailed, Forget, Present
  <2>2. PICK d \in Callers : call[d].own = pipelines[m]
    BY <2>1 DEF Inv, LoadingHasOwner
  <2>3. d # c
    BY <1>0, <1>5, <2>1, <2>2 DEF StopFailed, TypeOK, CallShape, Waiting, Present
  <2> QED
    BY <1>0, <1>5, <2>1, <2>2, <2>3 DEF StopFailed, Return
<1>6. ASSUME NEW p \in Pids, Reap(p)
      PROVE  \E d \in Callers : call'[d].own = pipelines'[m]
  BY <1>0, <1>6 DEF Reap, Inv, LoadingHasOwner, Present
<1> QED
  BY <1>0, <1>1, <1>2, <1>3, <1>4, <1>5, <1>6, StateSteps

LEMMA DeadStep == Inv /\ [Next]_vars => DeadEntryIsDropped'
<1> SUFFICES ASSUME Inv, [Next]_vars, NEW m \in Models, Present(m)',
                    \/ (pipe[pipelines[m]].state = "error")'
                    \/ (proc[pipelines[m]] = "none")'
             PROVE  \E c \in Callers : call'[c].pc = "stop" /\ call'[c].model = m
  BY DEF DeadEntryIsDropped
<1> USE NoPidAssumption
<1>0. /\ TypeOK /\ TypeOK' /\ pipelines \in [Models -> PidOrNone]
      /\ call \in [Callers -> Call] /\ pipe \in [Pids -> Pipeline]
      /\ proc \in [Pids -> {"none", "starting", "listening", "serving", "exited"}]
  BY TypeStep DEF Inv, TypeOK
<1> DEFINE Dead(p) == pipe[p].state = "error" \/ proc[p] = "none"
\* The entry was dead before: its call is still there, unless it is c.
<1>a. ASSUME Present(m), Dead(pipelines[m])
      PROVE  \E d \in Callers : call[d].pc = "stop" /\ call[d].model = m
  BY <1>a DEF Inv, DeadEntryIsDropped
<1>1. CASE LaunchStep
  <2>1. PICK c \in Callers, n \in Models :
          Launch(c, n) /\ call[c].pc \in {"idle", "relaunch"}
    BY <1>1 DEF LaunchStep
  <2>2. m # n \/ UNCHANGED <<pipelines, pipe, proc>>
    BY <1>0, <2>1, LaunchEffect
  <2>3. Present(m) /\ Dead(pipelines[m])
    BY <1>0, <2>1, <2>2, LaunchEffect DEF Present
  <2>4. PICK d \in Callers : call[d].pc = "stop" /\ call[d].model = m
    BY <1>a, <2>3
  <2> QED
    BY <1>0, <2>1, <2>4, LaunchEffect
<1>2. CASE Exit
  BY <1>2 DEF Exit, Present
<1>3. CASE Quiet
  <2>1. Present(m) /\ Dead(pipelines[m])
    BY <1>0, <1>3 DEF Quiet, Present, PidOrNone
  <2> QED
    BY <1>a, <1>3, <2>1 DEF Quiet
<1>4. ASSUME NEW c \in Callers, MarkReady(c)
      PROVE  \E d \in Callers : call'[d].pc = "stop" /\ call'[d].model = m
  <2>1. Present(m) /\ Dead(pipelines[m]) /\ call[c].pc = "ready"
    BY <1>0, <1>4 DEF MarkReady, SetInfo, Present, Pipeline, PidOrNone
  <2> QED
    BY <1>0, <1>4, <1>a, <2>1 DEF MarkReady
\* Either the entry has just been marked, by the call that will stop it, or it
\* was dead before.
<1>5. ASSUME NEW c \in Callers, MarkError(c)
      PROVE  \E d \in Callers : call'[d].pc = "stop" /\ call'[d].model = m
  <2>1. CASE m = call[c].model
    BY <1>0, <1>5, <2>1 DEF MarkError, Call
  <2>2. CASE m # call[c].model
    <3>1. /\ Present(m) /\ call[c].pc = "fail" /\ call[c].model \in Models
          /\ UNCHANGED <<pipelines, proc>>
      BY <1>0, <1>5 DEF MarkError, Present, TypeOK, CallShape
    <3>2. Dead(pipelines[m])
      BY <1>0, <1>5, <2>2, <3>1, DistinctEntries DEF MarkError, SetInfo, Present, Pipeline, PidOrNone
    <3> QED
      BY <1>0, <1>5, <1>a, <3>1, <3>2 DEF MarkError
  <2> QED
    BY <2>1, <2>2
\* The call that was to stop an entry does so.
<1>6. ASSUME NEW c \in Callers, StopFailed(c)
      PROVE  \E d \in Callers : call'[d].pc = "stop" /\ call'[d].model = m
  <2>1. Present(m) /\ Dead(pipelines[m]) /\ m # call[c].model
    BY <1>0, <1>6 DEF StopFailed, Forget, Present
  <2> QED
    BY <1>0, <1>6, <1>a, <2>1 DEF StopFailed, Return
\* A reaped entry leaves the table, unless it is failed already.
<1>7. ASSUME NEW p \in Pids, Reap(p)
      PROVE  \E d \in Callers : call'[d].pc = "stop" /\ call'[d].model = m
  <2>1. Present(m) /\ pipelines'[m] = pipelines[m] /\ UNCHANGED <<pipe, call>>
    BY <1>0, <1>7 DEF Reap, Present
  <2>2. pipelines[m] = p => pipe[p].state = "error"
    BY <1>0, <1>7, <2>1 DEF Reap, TypeOK, Present
  <2>3. Dead(pipelines[m])
    BY <1>0, <1>7, <2>1, <2>2 DEF Reap, Present, PidOrNone
  <2> QED
    BY <1>a, <2>1, <2>3
<1> QED
  BY <1>0, <1>1, <1>2, <1>3, <1>4, <1>5, <1>6, <1>7, StateSteps

LEMMA SpecInv == Spec => []Inv
<1>1. Inv /\ [Next]_vars => Inv'
  BY TypeStep, OwnerStep, DeadStep, KillsStep DEF Inv
<1> QED
  BY <1>1, InitInv, PTL DEF Spec

\* A loading entry always has the call that launched it to wait for.
THEOREM LoadingIsOwned == Spec => []LoadingHasOwner
BY SpecInv, PTL DEF Inv

\* A failed or reaped entry always has a call about to drop it.
THEOREM DeadIsDropped == Spec => []DeadEntryIsDropped
BY SpecInv, PTL DEF Inv

\* What stop() is about to kill is never in the table any more.
THEOREM KillsForgotten == Spec => []KillsOnlyForgotten
BY SpecInv, PTL DEF Inv

\* While the agent is up, a running llama-server is lost only by a relaunch.
THEOREM LossIsRelaunch == Spec => LostOnlyByRelaunch
<1>1. TypeOK /\ [Next]_vars =>
        [\A p \in Pids :
           agent = "up" /\ Tracked(p) /\ (proc[p] \in Live /\ ~Tracked(p))'
             => \E c \in Callers : call[c].pc = "relaunch"]_vars
  BY LostStep
<1> QED
  BY <1>1, TypeCorrect, PTL DEF Spec, LostOnlyByRelaunch

-----------------------------------------------------------------------------
(***************************************************************************)
(* What overlapping calls of Ensure can break, proved of the behaviours in *)
(* which no two of them wait for the same model: any number of models,     *)
(* handlers, processes and ports, and any number of calls and requests in  *)
(* flight.                                                                 *)
(***************************************************************************)
OneEnsurePerModel ==
  \A c, d \in Callers :
    InEnsure(c) /\ InEnsure(d) /\ call[c].model = call[d].model => c = d

-----------------------------------------------------------------------------
(***************************************************************************)
(* The call that launched a pipeline answers for its entry: nobody has     *)
(* replaced it, though it may be gone, and its state is the call's to set. *)
(* No call finds a failed entry, so none launches without looking.         *)
(***************************************************************************)
OwnsEntry(c) ==
  /\ call[c].own # NoPid => /\ pipelines[call[c].model] \in {call[c].own, NoPid}
                            /\ pipe[call[c].own].state = "loading"
  /\ call[c].pc \in {"ready", "fail"} => call[c].own # NoPid
  /\ call[c].pc \notin {"purge", "relaunch"}

SerialInv == Inv /\ \A c \in Callers : OwnsEntry(c)

LEMMA InitSerial == Init => SerialInv
BY InitInv DEF SerialInv, OwnsEntry, Init, NoCall

LEMMA SerialTypes ==
  ASSUME SerialInv
  PROVE  /\ TypeOK /\ agent \in {"up", "stopping", "closing", "down"}
         /\ pipelines \in [Models -> PidOrNone] /\ pipe \in [Pids -> Pipeline]
         /\ proc \in [Pids -> {"none", "starting", "listening", "serving", "exited"}]
         /\ call \in [Callers -> Call] /\ victim \in [Actors -> PidOrNone]
         /\ \A c \in Callers : CallShape(c) /\ OwnsEntry(c) /\ call[c] \in Call
BY DEF SerialInv, Inv, TypeOK

\* A launch, seen from the rest of the state.
Launched(c, m, p) ==
  /\ call[c].pc = "idle" /\ ~Present(m) /\ Unreferenced(p) /\ Bound(pipe'[p].port) = {}
  /\ pipe'[p].state = "loading" /\ proc'[p] = "starting" /\ pipelines'[m] = p
  /\ call'[c].pc = "alive" /\ call'[c].own = p
  /\ call'[c].model = m /\ call'[c].port = pipe'[p].port
  /\ \A q \in Pids \ {p} : pipe'[q] = pipe[q] /\ proc'[q] = proc[q]
  /\ \A n \in Models \ {m} : pipelines'[n] = pipelines[n]
  /\ \A d \in Callers \ {c} : call'[d] = call[d]
  /\ UNCHANGED <<agent, victim>>

SomeLaunch == \E c \in Callers, m \in Models, p \in Pids : Launched(c, m, p)

LEMMA LaunchCases ==
  ASSUME SerialInv, LaunchStep
  PROVE  \/ SomeLaunch
         \/ \E c \in Callers :
              /\ Return(c) /\ call[c].pc = "idle"
              /\ UNCHANGED <<agent, pipelines, pipe, proc, victim>>
<1>1. PICK c \in Callers, m \in Models :
        /\ Launch(c, m) /\ call[c].pc = "idle" /\ ~Present(m) /\ UNCHANGED <<agent, victim>>
  BY SerialTypes DEF LaunchStep, OwnsEntry
<1>2. CASE Return(c) /\ UNCHANGED <<pipelines, pipe, proc>>
  BY <1>1, <1>2
<1>3. ASSUME NEW p \in Pids, NEW k \in Ports, Unreferenced(p), FreePort(k),
             pipe' = [pipe EXCEPT ![p] =
                        [model |-> m, state |-> "loading", port |-> k, age |-> 0]],
             proc' = [proc EXCEPT ![p] = "starting"],
             pipelines' = [pipelines EXCEPT ![m] = p],
             call' = [call EXCEPT ![c] = [pc |-> "alive", model |-> m, port |-> k,
                                          own |-> p, conn |-> NoPid]]
      PROVE  Launched(c, m, p)
  <2>1. Bound(k) = {}
    BY <1>3 DEF FreePort, FreePorts
  <2> QED
    BY <1>1, <1>3, <2>1, SerialTypes DEF Launched
<1> QED
  BY <1>1, <1>2, <1>3 DEF Launch, SomeLaunch

\* A step that is not a launch, seen from the calls and from the processes.
Past == {"serving", "exited", "none"}

Calm ==
  /\ \A m \in Models : pipelines'[m] \in {pipelines[m], NoPid}
  /\ \A p \in Pids :
       /\ pipe'[p].port = pipe[p].port
       /\ proc'[p] \in Live => proc[p] \in Live
       /\ proc[p] \in Past => proc'[p] \in Past
  /\ \A c \in Callers : call'[c].own # NoPid =>
       /\ call'[c].own = call[c].own /\ call'[c].model = call[c].model
       /\ call'[c].port = call[c].port
       /\ call'[c].pc = "ready" => call[c].pc = "ready" \/ CheckHealth(c)

LEMMA CalmCaller ==
  ASSUME SerialInv, NEW c \in Callers, CallerStep(c)
  PROVE  SomeLaunch \/ Calm
<1> USE NoPidAssumption, SerialTypes
<1>0. CallShape(c) /\ OwnsEntry(c) /\ call[c] \in Call
  OBVIOUS
<1>a. ASSUME NEW r \in Call, call' = [call EXCEPT ![c] = r],
             r.own # NoPid => /\ r.own = call[c].own /\ r.model = call[c].model
                              /\ r.port = call[c].port
                              /\ r.pc = "ready" => call[c].pc = "ready" \/ CheckHealth(c),
             \A m \in Models : pipelines'[m] \in {pipelines[m], NoPid},
             \A p \in Pids : pipe'[p].port = pipe[p].port, UNCHANGED proc
      PROVE  Calm
  BY <1>a DEF Calm, Past, Live
<1>b. NoCall \in Call /\ NoCall.own = NoPid
  BY DEF NoCall, Call, PidOrNone, PC
<1>c. ASSUME NEW l \in PC, Goto(c, l), l = "ready" => CheckHealth(c),
             \A m \in Models : pipelines'[m] \in {pipelines[m], NoPid},
             \A p \in Pids : pipe'[p].port = pipe[p].port, UNCHANGED proc
      PROVE  Calm
  <2>1. [call[c] EXCEPT !.pc = l] \in Call
    BY <1>0 DEF Call
  <2> QED
    BY <1>a, <1>c, <2>1, <1>0 DEF Goto, Call
<1>d. ASSUME Return(c), \A m \in Models : pipelines'[m] \in {pipelines[m], NoPid},
             UNCHANGED <<pipe, proc>>
      PROVE  Calm
  BY <1>a, <1>b, <1>d DEF Return
<1>1. ASSUME NEW m \in Models, EnsureHit(c, m) PROVE Calm
  <2> DEFINE q == pipelines[m]
             next == [ready |-> "use", loading |-> "alive", error |-> "purge"]
             r == [NoCall EXCEPT !.pc = next[pipe[q].state], !.model = m, !.port = pipe[q].port]
  <2>1. q \in Pids /\ pipe[q] \in Pipeline
    BY <1>1 DEF EnsureHit, Present, PidOrNone
  <2>0. next[pipe[q].state] \in PC
    BY <2>1 DEF Pipeline, State, PC, Waiting
  <2>2. r \in Call /\ r.own = NoPid
    BY <2>0, <2>1, <1>b DEF Pipeline, Call, NoCall, PidOrNone
  <2>3. call' = [call EXCEPT ![c] = r] /\ UNCHANGED <<pipelines, proc>>
    BY <1>1 DEF EnsureHit
  <2>4. \A p \in Pids : pipe'[p].port = pipe[p].port
    BY <1>1, <2>1 DEF EnsureHit, Pipeline
  <2> HIDE DEF r, next, q
  <2> QED
    BY <1>a, <2>2, <2>3, <2>4
<1>2. ASSUME LaunchStep PROVE SomeLaunch \/ Calm
  <2>1. ASSUME NEW d \in Callers, Return(d), UNCHANGED <<pipelines, pipe, proc>> PROVE Calm
    BY <2>1 DEF Return, NoCall, Calm, Past, Live, Call
  <2> QED
    BY <1>2, <2>1, LaunchCases
<1>3. ASSUME NEW m \in Models, EnsureMiss(c, m) PROVE LaunchStep
  BY <1>3 DEF EnsureMiss, MayBegin, LaunchStep
<1>4. ASSUME NEW m \in Models, ProxyLookup(c, m) PROVE Calm
  BY <1>0, <1>4 DEF ProxyLookup, MayBegin, NoCall, Calm, Past, Live, Call
<1>5. ~Purge(c) /\ ~Relaunch(c)
  BY <1>0 DEF Purge, Relaunch, OwnsEntry
<1>6. CASE CheckAlive(c) \/ GiveUp(c)
  BY <1>6, <1>c, <1>d DEF CheckAlive, GiveUp, Failed, PC, Waiting
<1>7. CASE CheckHealth(c)
  BY <1>7, <1>c DEF CheckHealth, PC, Waiting
<1>8. CASE MarkReady(c) \/ MarkError(c)
  <2>1. call[c].model \in Models
    BY <1>0, <1>8 DEF MarkReady, MarkError, CallShape
  <2>2. \A p \in Pids : pipe'[p].port = pipe[p].port
    BY <1>8, <2>1, SetInfoType DEF MarkReady, MarkError, State
  <2>3. UNCHANGED <<pipelines, proc>> /\ \E l \in {"use", "stop"} :
          call' = [call EXCEPT ![c] = [call[c] EXCEPT !.pc = l, !.own = NoPid]]
    BY <1>8 DEF MarkReady, MarkError
  <2>4. \A l \in {"use", "stop"} : LET r == [call[c] EXCEPT !.pc = l, !.own = NoPid] IN
          r \in Call /\ r.own = NoPid
    BY <1>0 DEF Call, PidOrNone, PC
  <2> QED
    BY <1>a, <2>2, <2>3, <2>4
<1>9. CASE StopFailed(c)
  BY <1>0, <1>9, <1>d DEF StopFailed, Forget
<1>10. CASE ProxyTouch(c)
  <2>1. \A p \in Pids : pipe'[p].port = pipe[p].port
    BY <1>0, <1>10 DEF ProxyTouch, CallShape, Present, PidOrNone, Pipeline
  <2> QED
    BY <1>10, <1>c, <2>1 DEF ProxyTouch, PC
<1>11. CASE Connect(c)
  BY <1>0, <1>11, <1>d DEF Connect, CallShape, Waiting, Calm, Past, Live, Call
<1>12. CASE EndStream(c)
  BY <1>12, <1>d DEF EndStream
<1> QED
  BY <1>1, <1>2, <1>3, <1>4, <1>5, <1>6, <1>7, <1>8, <1>9, <1>10, <1>11, <1>12 DEF CallerStep

LEMMA CalmSteps ==
  ASSUME SerialInv, [Next]_vars
  PROVE  SomeLaunch \/ Calm
<1> USE NoPidAssumption, SerialTypes
<1>1. ASSUME NEW a \in Actors, Kill(a) PROVE Calm
  BY <1>1 DEF Kill, Calm, Past, Live, PidOrNone
<1>2. CASE SweeperStep
  BY <1>2 DEF SweeperStep, GcScan, Sweep, Forget, Signal, Calm, Past, Live
<1>3. CASE AgentStep
  BY <1>3 DEF AgentStep, CloseServer, Exit, Restart, NoCall, Calm, Past, Live
<1>4. ASSUME NEW p \in Pids, Bind(p) \/ Loaded(p) \/ Crash(p) \/ Reap(p) PROVE Calm
  BY <1>4 DEF Bind, Loaded, Crash, Reap, Calm, Past, Live
<1>5. CASE Tick
  BY <1>5 DEF Tick, Calm, Past, Live, Pipeline
<1>6. CASE UNCHANGED vars
  BY <1>6 DEF vars, Calm, Past, Live
<1> QED
  BY <1>1, <1>2, <1>3, <1>4, <1>5, <1>6, CalmCaller, NextSteps DEF ActorStep, ProcessStep

-----------------------------------------------------------------------------
(***************************************************************************)
(* The entry and the call that launched it, when no two calls wait for one *)
(* model.                                                                  *)
(***************************************************************************)

\* The states of the entries change by the call that answers for them only.
LEMMA OwnsStep ==
  ASSUME SerialInv, OneEnsurePerModel, OneEnsurePerModel', [Next]_vars, NEW d \in Callers
  PROVE  OwnsEntry(d)'
<1> USE NoPidAssumption
<1>0. /\ TypeOK /\ pipelines \in [Models -> PidOrNone] /\ pipe \in [Pids -> Pipeline]
      /\ call \in [Callers -> Call]
      /\ \A c \in Callers : CallShape(c) /\ OwnsEntry(c) /\ call[c] \in Call
  BY SerialTypes
<1>1. CASE SomeLaunch
  <2>1. PICK c \in Callers, m \in Models, p \in Pids : Launched(c, m, p)
    BY <1>1 DEF SomeLaunch
  <2>2. CASE d = c
    BY <1>0, <2>1, <2>2 DEF Launched, OwnsEntry
  <2>3. CASE d # c
    <3>1. call'[d] = call[d] /\ call[d].own # p
      BY <2>1, <2>3 DEF Launched, Unreferenced
    <3>2. ASSUME call[d].own # NoPid PROVE call[d].model # m
      BY <1>0, <2>1, <2>3, <3>1, <3>2
         DEF Launched, CallShape, OneEnsurePerModel, InEnsure, Waiting
    <3>3. call[d].own # NoPid =>
            call[d].own \in Pids /\ call[d].model \in Models /\ OwnsEntry(d)
      BY <1>0 DEF Call, CallShape, PidOrNone, Waiting
    <3> QED
      BY <2>1, <1>0, <3>1, <3>2, <3>3 DEF Launched, OwnsEntry
  <2> QED
    BY <2>2, <2>3
\* A call that is not launching keeps its entry, and finds no failed one: the
\* failed entry's own call would be waiting for the same model.
<1>2. ASSUME NEW c \in Callers, NEW m \in Models, EnsureHit(c, m)
      PROVE  OwnsEntry(d)'
  <2>1. /\ pipelines[m] \in Pids /\ call[c].pc = "idle" /\ UNCHANGED pipelines
        /\ \A p \in Pids : pipe'[p].state = pipe[p].state
        /\ \A e \in Callers : e # c => call'[e] = call[e]
    BY <1>0, <1>2 DEF EnsureHit, MayBegin, Present, PidOrNone, Pipeline
  <2>2. /\ call'[c].own = NoPid /\ call'[c].model = m
        /\ \/ pipe[pipelines[m]].state = "error" /\ call'[c].pc = "purge"
           \/ call'[c].pc \in {"use", "alive"}
    BY <1>0, <1>2, <2>1 DEF EnsureHit, NoCall, Pipeline, State
  <2>3. pipe[pipelines[m]].state # "error"
    <3>1. SUFFICES ASSUME pipe[pipelines[m]].state = "error" PROVE FALSE
      OBVIOUS
    <3>2. PICK e \in Callers : call[e].pc = "stop" /\ call[e].model = m
      BY <1>2, <3>1 DEF SerialInv, Inv, DeadEntryIsDropped, EnsureHit
    <3>3. e # c /\ call'[e] = call[e] /\ call'[c].pc \in {"purge", "alive", "use"}
      BY <2>1, <2>2, <3>2
    <3>4. call'[c].pc = "purge"
      BY <1>0, <1>2, <2>1, <3>1 DEF EnsureHit, NoCall
    <3> QED
      BY <2>2, <3>2, <3>3, <3>4 DEF OneEnsurePerModel, InEnsure
  <2> QED
    BY <1>0, <2>1, <2>2, <2>3 DEF OwnsEntry, Call, PidOrNone
<1>3. ASSUME NEW c \in Callers, MarkReady(c) \/ MarkError(c)
      PROVE  OwnsEntry(d)'
  <2>1. /\ call[c].model \in Models /\ call[c].pc \in {"ready", "fail"} /\ UNCHANGED pipelines
        /\ \A e \in Callers : e # c => call'[e] = call[e]
    BY <1>0, <1>3 DEF MarkReady, MarkError, CallShape
  <2>2. CASE d = c
    BY <1>0, <1>3, <2>2 DEF MarkReady, MarkError, OwnsEntry, Call
  <2>3. CASE d # c /\ call[d].own # NoPid
    <3>1. pipe[call[d].own].model = call[d].model /\ call[d].own \in Pids /\ call'[d] = call[d]
      BY <1>0, <2>1, <2>3 DEF CallShape, Call, PidOrNone
    <3>2. call[d].model # call[c].model
      BY <1>0, <2>1, <2>3 DEF CallShape, OneEnsurePerModel, InEnsure
    <3>3. pipe'[call[d].own].state = pipe[call[d].own].state
      <4>1. Present(call[c].model) => pipelines[call[c].model] # call[d].own
        BY <1>0, <2>1, <3>1, <3>2 DEF TypeOK
      <4> QED
        BY <1>0, <1>3, <2>1, <3>1, <4>1
           DEF MarkReady, MarkError, SetInfo, Present, PidOrNone, Pipeline
    <3> QED
      BY <1>0, <2>1, <2>3, <3>1, <3>3 DEF OwnsEntry
  <2>4. CASE d # c /\ call[d].own = NoPid
    BY <1>0, <2>1, <2>4 DEF OwnsEntry
  <2> QED
    BY <2>2, <2>3, <2>4
\* Every other step leaves the states alone.
<1>4. ASSUME \A m \in Models : pipelines'[m] \in {pipelines[m], NoPid},
             \A p \in Pids : pipe'[p].state = pipe[p].state,
             call'[d].own # NoPid => /\ call'[d].own = call[d].own
                                     /\ call'[d].model = call[d].model,
             call'[d].pc \in {"ready", "fail"} => call'[d].own # NoPid,
             call'[d].pc \notin {"purge", "relaunch"}
      PROVE  OwnsEntry(d)'
  BY <1>0, <1>4 DEF OwnsEntry, CallShape, Call, PidOrNone, Waiting
<1>5. ASSUME NEW c \in Callers, CallerStep(c)
      PROVE  OwnsEntry(d)'
  <2> USE <1>0
  <2>1. CASE LaunchStep
    <3>1. ASSUME NEW e \in Callers, Return(e), UNCHANGED <<pipelines, pipe>> PROVE OwnsEntry(d)'
      BY <3>1, <1>4 DEF Return, NoCall, OwnsEntry
    <3> QED
      BY <1>1, <2>1, <3>1, LaunchCases
  <2>2. ASSUME NEW m \in Models, EnsureMiss(c, m) PROVE LaunchStep
    BY <2>2 DEF EnsureMiss, MayBegin, LaunchStep
  <2>3. ASSUME NEW m \in Models, ProxyLookup(c, m) PROVE OwnsEntry(d)'
    BY <2>3, <1>4 DEF ProxyLookup, NoCall, OwnsEntry
  <2>4. ~Purge(c) /\ ~Relaunch(c)
    BY DEF Purge, Relaunch, OwnsEntry
  <2>5. CASE CheckAlive(c) \/ GiveUp(c)
    BY <2>5, <1>4 DEF CheckAlive, GiveUp, Failed, Goto, Return, NoCall, Call, OwnsEntry
  <2>6. CASE CheckHealth(c)
    BY <2>6, <1>4 DEF CheckHealth, Goto, Call, OwnsEntry
  <2>7. CASE StopFailed(c)
    BY <2>7, <1>4 DEF StopFailed, Forget, Return, NoCall, Call, OwnsEntry
  <2>8. CASE ProxyTouch(c)
    <3>1. \A p \in Pids : pipe'[p].state = pipe[p].state
      BY <2>8 DEF ProxyTouch, CallShape, Present, PidOrNone, Pipeline
    <3> QED
      BY <2>8, <3>1, <1>4 DEF ProxyTouch, Goto, Call, OwnsEntry
  <2>9. CASE Connect(c) \/ EndStream(c)
    <3>1. \A e \in Callers : \/ call'[e] = call[e]
                              \/ call'[e] = NoCall
                              \/ /\ call'[e].own = call[e].own /\ call'[e].model = call[e].model
                                 /\ call'[e].pc = "stream"
      BY <2>9 DEF Connect, EndStream, Return, Call
    <3>2. UNCHANGED <<pipelines, pipe>>
      BY <2>9 DEF Connect, EndStream
    <3> QED
      BY <3>1, <3>2, <1>4 DEF NoCall, OwnsEntry
  <2> QED
    BY <1>2, <1>3, <1>5, <2>1, <2>2, <2>3, <2>4, <2>5, <2>6, <2>7, <2>8, <2>9 DEF CallerStep
<1>6. CASE Exit
  BY <1>0, <1>6, <1>4 DEF Exit, NoCall
<1>7. CASE ActorStep \/ SweeperStep \/ CloseServer \/ Restart
  BY <1>0, <1>7, <1>4
     DEF ActorStep, SweeperStep, Kill, GcScan, Sweep, Forget, Signal, CloseServer, Restart, OwnsEntry
<1>8. CASE ProcessStep \/ UNCHANGED vars
  BY <1>0, <1>8, <1>4
     DEF ProcessStep, Tick, Bind, Loaded, Crash, Reap, vars, Pipeline, OwnsEntry
<1> QED
  BY <1>5, <1>6, <1>7, <1>8, NextSteps DEF AgentStep

LEMMA SerialStep ==
  SerialInv /\ OneEnsurePerModel /\ OneEnsurePerModel' /\ [Next]_vars => SerialInv'
<1>1. Inv /\ [Next]_vars => Inv'
  BY TypeStep, OwnerStep, DeadStep, KillsStep DEF Inv
<1> QED
  BY <1>1, OwnsStep DEF SerialInv

LEMMA SpecSerial == Spec /\ []OneEnsurePerModel => []SerialInv
BY InitSerial, SerialStep, PTL DEF Spec

-----------------------------------------------------------------------------
(***************************************************************************)
(* The lifecycle.  The abstract slot of a model is a function of the table *)
(* and of the states of its entries, so each step is a move of one slot, a *)
(* set of slots emptied, or a stutter.                                     *)
(***************************************************************************)
slotBar == [m \in Models |-> Slot(m)]

LEMMA InitLifecycle == Init => Lifecycle!Init
BY DEF Init, Lifecycle!Init, Slot, Present

\* Entries that keep their state, or vanish.
LEMMA VanishStep ==
  ASSUME \A m \in Models : Slot(m)' \in {Slot(m), "absent"}
  PROVE  Lifecycle!Next
<1> DEFINE S == {m \in Models : Slot(m)' = "absent"}
<1>1. S \in SUBSET Models
  OBVIOUS
<1>2. Lifecycle!Vanish(S)
  BY DEF Lifecycle!Vanish
<1> QED
  BY <1>1, <1>2 DEF Lifecycle!Next

\* One entry that changes its state; each move is one of the lifecycle's.
LEMMA MoveStep ==
  ASSUME NEW m \in Models, \A n \in Models \ {m} : Slot(n)' = Slot(n),
         \/ Slot(m) = "absent" /\ Slot(m)' = "loading"
         \/ Slot(m) = "loading" /\ Slot(m)' \in {"ready", "error"}
  PROVE  Lifecycle!Next
<1>1. \A t : Slot(m)' = t => slotBar' = [slotBar EXCEPT ![m] = t]
  BY DEF slotBar
<1> QED
  BY <1>1 DEF slotBar, Lifecycle!Next, Lifecycle!Launch, Lifecycle!Succeed, Lifecycle!Fail,
              Lifecycle!Move

LEMMA LifecycleStep ==
  ASSUME SerialInv, [Next]_vars
  PROVE  Lifecycle!Next
<1> USE NoPidAssumption
<1>0. /\ TypeOK /\ pipelines \in [Models -> PidOrNone] /\ pipe \in [Pids -> Pipeline]
      /\ call \in [Callers -> Call]
      /\ \A c \in Callers : CallShape(c) /\ OwnsEntry(c) /\ call[c] \in Call
  BY SerialTypes
<1>a. ASSUME \A m \in Models : pipelines'[m] \in {pipelines[m], NoPid},
             \A p \in Pids : pipe'[p].state = pipe[p].state
      PROVE  Lifecycle!Next
  BY <1>0, <1>a, VanishStep DEF Slot, Present, PidOrNone
<1>1. CASE SomeLaunch
  <2>1. PICK c \in Callers, m \in Models, p \in Pids : Launched(c, m, p)
    BY <1>1 DEF SomeLaunch
  <2>2. Slot(m) = "absent" /\ Slot(m)' = "loading"
    BY <1>0, <2>1 DEF Launched, Slot, Present
  <2>3. ASSUME NEW n \in Models \ {m} PROVE Slot(n)' = Slot(n)
    BY <1>0, <2>1 DEF Launched, Slot, Present, Unreferenced, PidOrNone
  <2> QED
    BY <2>2, <2>3, MoveStep
<1>2. CASE LaunchStep
  BY <1>1, <1>2, <1>a, LaunchCases
<1>3. CASE Exit
  BY <1>0, <1>3, <1>a DEF Exit
<1>4. CASE Quiet
  BY <1>4, <1>a DEF Quiet
\* The outcome of a launch is recorded on the launch's own loading entry.
<1>5. ASSUME NEW c \in Callers, NEW s \in {"ready", "error"}, SetInfo(call[c].model, s),
             UNCHANGED pipelines, call[c].pc \in {"ready", "fail"}
      PROVE  Lifecycle!Next
  <2>0. PICK m \in Models : m = call[c].model
    BY <1>0, <1>5 DEF CallShape
  <2>1. call[c].own \in Pids /\ pipelines[m] \in {call[c].own, NoPid}
        /\ pipe[call[c].own].state = "loading"
    BY <1>0, <1>5, <2>0 DEF OwnsEntry, Call, PidOrNone
  <2>2. CASE ~Present(m)
    BY <1>5, <1>a, <2>0, <2>2 DEF SetInfo
  <2>3. CASE Present(m)
    <3>1. pipelines[m] = call[c].own /\ pipe' = [pipe EXCEPT ![pipelines[m]].state = s]
      BY <1>5, <2>0, <2>1, <2>3 DEF SetInfo, Present
    <3>2. Slot(m) = "loading" /\ Slot(m)' = s
      BY <1>0, <1>5, <2>1, <2>3, <3>1 DEF Slot, Present, Pipeline
    <3>3. ASSUME NEW n \in Models \ {m} PROVE Slot(n)' = Slot(n)
      <4>1. Present(n) => pipelines[n] # pipelines[m]
        BY <1>0, <2>1, DistinctEntries
      <4> QED
        BY <1>0, <1>5, <2>1, <3>1, <4>1 DEF Slot, Present, PidOrNone
    <3> QED
      BY <2>1, <3>2, <3>3, MoveStep
  <2> QED
    BY <2>2, <2>3
<1>6. ASSUME NEW c \in Callers, MarkReady(c) \/ MarkError(c) PROVE Lifecycle!Next
  BY <1>5, <1>6 DEF MarkReady, MarkError
<1>7. ASSUME NEW c \in Callers, StopFailed(c) PROVE Lifecycle!Next
  BY <1>0, <1>7, <1>a DEF StopFailed, Forget, CallShape
<1>8. ASSUME NEW p \in Pids, Reap(p) PROVE Lifecycle!Next
  BY <1>8, <1>0, <1>a DEF Reap
<1> QED
  BY <1>0, <1>2, <1>3, <1>4, <1>6, <1>7, <1>8, StateSteps

\* As long as no two Ensure calls wait for the same model, what a driver
\* advertises goes through the lifecycle of PipelineState: setState and setError
\* record the outcome of the launch the entry still stands for, and no launch
\* replaces an entry.  Shutdowns and restarts are included.
THEOREM LifecycleUnlessShared == Spec /\ []OneEnsurePerModel => RefinesLifecycle
<1>1. SerialInv /\ [Next]_vars => [Lifecycle!Next]_slotBar
  BY LifecycleStep
<1> QED
  BY <1>1, InitLifecycle, SpecSerial, PTL
     DEF Spec, RefinesLifecycle, Lifecycle!Spec, slotBar

-----------------------------------------------------------------------------
(***************************************************************************)
(* No llama-server is lost.                                                *)
(***************************************************************************)
LEMMA OrphanStep ==
  ASSUME SerialInv, NoOrphan, Running', [Next]_vars
  PROVE  NoOrphan'
<1> USE NoPidAssumption DEF Tracked
<1>0. /\ TypeOK /\ pipelines \in [Models -> PidOrNone] /\ victim \in [Actors -> PidOrNone]
      /\ proc \in [Pids -> {"none", "starting", "listening", "serving", "exited"}]
  BY SerialTypes
<1> SUFFICES ASSUME NEW p \in Pids, (proc[p] \in Live)' PROVE Tracked(p)'
  BY DEF NoOrphan
<1>1. CASE SomeLaunch
  BY <1>0, <1>1 DEF SomeLaunch, Launched, NoOrphan, Live, Present
<1>2. CASE Calm /\ ~LaunchStep
  <2>1. Tracked(p)
    BY <1>2 DEF Calm, NoOrphan
  <2>2. CASE ForgetStep
    BY <1>0, <2>1, <2>2 DEF ForgetStep, Forget
  <2>3. ~Exit
    BY DEF Exit, Running
  <2>4. ASSUME NEW a \in Actors, Kill(a) PROVE Tracked(p)'
    BY <1>0, <2>1, <2>4 DEF Kill, Live
  <2>5. ASSUME NEW q \in Pids, Reap(q) PROVE Tracked(p)'
    BY <1>0, <2>1, <2>5 DEF Reap, Live
  <2>6. CASE UNCHANGED <<pipelines, victim>>
    BY <2>1, <2>6
  <2> QED
    BY <1>0, <1>2, <2>2, <2>3, <2>4, <2>5, <2>6, TableSteps
<1>3. CASE LaunchStep
  BY <1>1, <1>3, LaunchCases DEF NoOrphan
<1> QED
  BY <1>1, <1>2, <1>3, CalmSteps

\* As long as no two Ensure calls wait for the same model and the agent has not
\* exited, every llama-server it runs is within reach of a stop().
THEOREM NoOrphanUnlessShared == Spec /\ [](OneEnsurePerModel /\ Running) => []NoOrphan
<1>1. Init => NoOrphan
  BY DEF Init, NoOrphan, Live
<1>2. SerialInv /\ Running' /\ NoOrphan /\ [Next]_vars => NoOrphan'
  BY OrphanStep
<1> QED
  BY <1>1, <1>2, SpecSerial, PTL DEF Spec

-----------------------------------------------------------------------------
(***************************************************************************)
(* Who answers a health probe.  A process that can come to serve, or does, *)
(* contends for its port: it is alive and not on its way to be killed.  If *)
(* contenders have ports of their own, whoever answers on the port of a    *)
(* call that launched is that call's own process, unless the table has     *)
(* dropped it.                                                             *)
(***************************************************************************)
Contender(p) == \/ proc[p] = "serving"
                \/ proc[p] \in Live /\ \A a \in Actors : victim[a] # p

ContendersApart ==
  \A p, q \in Pids : p # q /\ Contender(p) /\ Contender(q) => pipe[p].port # pipe[q].port

Probed(c) ==
  call[c].own # NoPid =>
    /\ call[c].port = pipe[call[c].own].port
    /\ call[c].pc = "ready" /\ Present(call[c].model) => proc[call[c].own] \in Past

ServeInv == SerialInv /\ ReadyIsServing /\ \A c \in Callers : Probed(c)

LEMMA InitServe == Init => ServeInv
BY InitSerial DEF Init, ServeInv, ReadyIsServing, Probed, NoCall, Ready, Present

LEMMA ProbedStep ==
  ASSUME ServeInv, ContendersApart, OneEnsurePerModel', [Next]_vars, NEW c \in Callers
  PROVE  Probed(c)'
<1> USE NoPidAssumption
<1>0. /\ TypeOK /\ SerialInv /\ pipelines \in [Models -> PidOrNone] /\ pipe \in [Pids -> Pipeline]
      /\ proc \in [Pids -> {"none", "starting", "listening", "serving", "exited"}]
      /\ CallShape(c) /\ OwnsEntry(c) /\ Probed(c)
      /\ call \in [Callers -> Call] /\ call[c] \in Call
  BY SerialTypes DEF ServeInv
<1> SUFFICES ASSUME call'[c].own # NoPid PROVE Probed(c)'
  BY DEF Probed
<1>1. CASE SomeLaunch
  <2>1. PICK d \in Callers, m \in Models, p \in Pids : Launched(d, m, p)
    BY <1>1 DEF SomeLaunch
  <2>2. CASE c = d
    BY <2>1, <2>2 DEF Launched, Probed
  <2>3. CASE c # d
    <3>1. call'[c] = call[c] /\ pipelines[call[c].model] \in {call[c].own, NoPid}
      BY <1>0, <2>1, <2>3 DEF Launched, OwnsEntry
    <3>2. call[c].own \in Pids /\ call[c].own # p /\ call[c].model \in Models
      BY <1>0, <2>1, <3>1 DEF Launched, Unreferenced, Call, PidOrNone, CallShape, Waiting
    <3>3. pipe'[call[c].own] = pipe[call[c].own] /\ proc'[call[c].own] = proc[call[c].own]
      BY <2>1, <3>2 DEF Launched
    <3>4. call[c].pc = "ready" /\ Present(call[c].model)' => Present(call[c].model)
      <4>1. call[c].pc = "ready" => call[c].model # m
        BY <2>1, <2>3, <3>1 DEF Launched, OneEnsurePerModel, InEnsure, Waiting
      <4> QED
        BY <2>1, <3>1, <3>2, <4>1 DEF Launched, Present
    <3> QED
      BY <1>0, <3>1, <3>3, <3>4 DEF Probed
  <2> QED
    BY <2>2, <2>3
<1>2. CASE Calm
  <2>1. /\ call'[c].own = call[c].own /\ call'[c].model = call[c].model
        /\ call'[c].port = call[c].port /\ call[c].own \in Pids /\ call[c].model \in Models
    BY <1>0, <1>2 DEF Calm, Call, PidOrNone, CallShape, Waiting
  <2>2. call'[c].port = pipe'[call'[c].own].port
    BY <1>0, <1>2, <2>1 DEF Calm, Probed
  <2>3. ASSUME call'[c].pc = "ready", Present(call[c].model)' PROVE proc'[call[c].own] \in Past
    <3>1. Present(call[c].model)
      BY <1>2, <2>1, <2>3 DEF Present, Calm
    <3>2. CASE call[c].pc = "ready"
      BY <1>0, <1>2, <2>1, <3>1, <3>2 DEF Probed, Calm
    <3>3. CASE CheckHealth(c)
      <4> DEFINE p == call[c].own
      <4>1. PICK q \in Pids : proc[q] = "serving" /\ pipe[q].port = call[c].port
        BY <1>0, <2>3, <3>3 DEF CheckHealth, Goto, Call, Bound
      <4>2. pipelines[call[c].model] = p /\ pipe[p].port = call[c].port /\ UNCHANGED proc
        BY <1>0, <2>1, <3>1, <3>3 DEF OwnsEntry, Present, Probed, CheckHealth
      <4>3. \A a \in Actors : victim[a] # p
        BY <1>0, <2>1, <3>1, <4>2 DEF SerialInv, Inv, KillsOnlyForgotten
      <4>4. proc[p] \in Live => p = q
        BY <2>1, <4>1, <4>2, <4>3 DEF ContendersApart, Contender
      <4> QED
        BY <1>0, <2>1, <4>1, <4>2, <4>4 DEF Live, Past
    <3> QED
      BY <1>2, <2>1, <2>3, <3>2, <3>3 DEF Calm
  <2> QED
    BY <2>1, <2>2, <2>3 DEF Probed
<1> QED
  BY <1>0, <1>1, <1>2, CalmSteps

\* Only the call that launched an entry makes it ready, after its own process has
\* answered.
LEMMA ReadyStep ==
  ASSUME ServeInv, [Next]_vars
  PROVE  ReadyIsServing'
<1> USE NoPidAssumption
<1>0. /\ TypeOK /\ SerialInv /\ pipelines \in [Models -> PidOrNone] /\ pipe \in [Pids -> Pipeline]
      /\ \A c \in Callers : CallShape(c) /\ OwnsEntry(c) /\ Probed(c) /\ call[c] \in Call
  BY SerialTypes DEF ServeInv
<1> SUFFICES ASSUME NEW m \in Models, Ready(m)' PROVE proc'[pipelines'[m]] \in Past
  BY DEF ReadyIsServing, Past
<1>1. CASE SomeLaunch
  <2>1. PICK c \in Callers, n \in Models, p \in Pids : Launched(c, n, p)
    BY <1>1 DEF SomeLaunch
  <2>2. m # n
    BY <2>1 DEF Launched, Ready
  <2>3. Ready(m) /\ pipelines'[m] = pipelines[m] /\ pipelines[m] \in Pids \ {p}
    BY <1>0, <2>1, <2>2 DEF Launched, Ready, Present, Unreferenced, PidOrNone
  <2> QED
    BY <2>1, <2>3 DEF Launched, ServeInv, ReadyIsServing, Past
<1>2. CASE Calm /\ ~SomeLaunch
  <2>1. Present(m) /\ pipelines'[m] = pipelines[m] /\ pipelines[m] \in Pids
    BY <1>0, <1>2 DEF Calm, Ready, Present, PidOrNone
  <2>2. CASE pipe[pipelines[m]].state = "ready"
    BY <1>2, <2>1, <2>2 DEF Calm, ServeInv, ReadyIsServing, Ready, Past
  <2>3. CASE pipe[pipelines[m]].state # "ready"
    <3>1. pipe'[pipelines[m]].state = "ready"
      BY <2>1 DEF Ready
    <3>2. ASSUME LaunchStep PROVE FALSE
      BY <1>0, <1>2, <2>3, <3>1, <3>2, LaunchCases
    <3>3. ~Exit /\ ~Quiet /\ ~\E p \in Pids : Reap(p)
      BY <2>1, <2>3, <3>1 DEF Exit, Quiet, Reap
    <3>4. ~\E c \in Callers : StopFailed(c)
      BY <2>3, <3>1 DEF StopFailed
    <3>5. ~\E c \in Callers : MarkError(c)
      BY <1>0, <2>1, <2>3, <3>1 DEF MarkError, SetInfo, Present, PidOrNone, Pipeline
    <3>6. PICK c \in Callers : MarkReady(c)
      BY <1>0, <3>2, <3>3, <3>4, <3>5, StateSteps
    <3>7. pipelines[m] = pipelines[call[c].model] /\ Present(call[c].model)
      BY <1>0, <2>1, <2>3, <3>1, <3>6 DEF MarkReady, SetInfo, Present, PidOrNone, Pipeline
    <3>8. call[c].pc = "ready" /\ call[c].own = pipelines[m]
      BY <1>0, <3>6, <3>7 DEF MarkReady, OwnsEntry, Present
    <3>9. proc[pipelines[m]] \in Past
      BY <1>0, <2>1, <3>7, <3>8 DEF Probed
    <3> QED
      BY <1>2, <2>1, <3>9 DEF Calm
  <2> QED
    BY <2>2, <2>3
<1> QED
  BY <1>0, <1>1, <1>2, CalmSteps

LEMMA SpecServe == Spec /\ [](OneEnsurePerModel /\ ContendersApart) => []ServeInv
<1>1. /\ ServeInv /\ [Next]_vars
      /\ OneEnsurePerModel /\ OneEnsurePerModel' /\ ContendersApart
      => ServeInv'
  BY SerialStep, ReadyStep, ProbedStep DEF ServeInv
<1> QED
  BY <1>1, InitServe, PTL DEF Spec

\* As long as no two Ensure calls wait for the same model, and no two llama-servers
\* that can come to serve have one port, a pipeline is ready only after its own
\* llama-server has answered the probe: through calls for other models, failures,
\* collection, shutdowns and restarts.
THEOREM ReadyServesUnlessShared ==
  Spec /\ [](OneEnsurePerModel /\ ContendersApart) => []ReadyIsServing
BY SpecServe, PTL DEF ServeInv

-----------------------------------------------------------------------------
(***************************************************************************)
(* How two processes come to share a port, whatever overlaps.              *)
(***************************************************************************)
SamePorts ==
  \A p \in Pids : pipe'[p].port = pipe[p].port /\ (proc'[p] \in Live => proc[p] \in Live)

LEMMA PortSteps ==
  ASSUME TypeOK, [Next]_vars
  PROVE  LaunchStep \/ SamePorts
<1> USE NoPidAssumption
<1>0. /\ pipelines \in [Models -> PidOrNone] /\ pipe \in [Pids -> Pipeline]
      /\ proc \in [Pids -> {"none", "starting", "listening", "serving", "exited"}]
      /\ \A c \in Callers : CallShape(c)
  BY DEF TypeOK
<1>a. UNCHANGED <<pipe, proc>> => SamePorts
  BY DEF SamePorts
<1>1. ASSUME NEW c \in Callers, NEW m \in Models, EnsureHit(c, m) PROVE SamePorts
  <2>1. pipelines[m] \in Pids /\ UNCHANGED proc
    BY <1>0, <1>1 DEF EnsureHit, Present, PidOrNone
  <2> QED
    BY <1>0, <1>1, <2>1 DEF EnsureHit, SamePorts, Pipeline
<1>2. ASSUME NEW c \in Callers, ProxyTouch(c) PROVE SamePorts
  BY <1>0, <1>2 DEF ProxyTouch, CallShape, Present, PidOrNone, Pipeline, SamePorts
<1>3. ASSUME NEW c \in Callers, MarkReady(c) \/ MarkError(c) PROVE SamePorts
  <2>1. call[c].model \in Models /\ UNCHANGED proc
    BY <1>0, <1>3 DEF MarkReady, MarkError, CallShape
  <2> QED
    BY <1>0, <1>3, <2>1 DEF MarkReady, MarkError, SetInfo, Present, PidOrNone, Pipeline, SamePorts
<1>4. ASSUME NEW c \in Callers, CallerStep(c) PROVE LaunchStep \/ SamePorts
  <2>1. ASSUME NEW m \in Models, EnsureMiss(c, m) PROVE LaunchStep
    BY <2>1 DEF EnsureMiss, MayBegin, LaunchStep
  <2>2. CASE Relaunch(c)
    BY <1>0, <2>2 DEF Relaunch, LaunchStep, CallShape
  <2> QED
    BY <1>a, <1>1, <1>2, <1>3, <1>4, <2>1, <2>2
       DEF CallerStep, ProxyLookup, Purge, CheckAlive, CheckHealth, StopFailed, GiveUp, Connect,
           EndStream
<1>5. CASE SweeperStep \/ AgentStep \/ UNCHANGED vars
  BY <1>a, <1>5 DEF SweeperStep, AgentStep, GcScan, Sweep, Signal, CloseServer, Exit, Restart, vars
<1>6. ASSUME NEW a \in Actors, Kill(a) PROVE SamePorts
  BY <1>0, <1>6 DEF Kill, Live, SamePorts
<1>7. ASSUME NEW p \in Pids, Bind(p) \/ Loaded(p) \/ Crash(p) \/ Reap(p) PROVE SamePorts
  BY <1>0, <1>7 DEF Bind, Loaded, Crash, Reap, Live, SamePorts
<1>8. CASE Tick
  BY <1>0, <1>8 DEF Tick, Pipeline, SamePorts
<1> QED
  BY <1>4, <1>5, <1>6, <1>7, <1>8, NextSteps DEF ActorStep, ProcessStep

LEMMA CollideStep ==
  ASSUME TypeOK, [Next]_vars, NEW p \in Pids, NEW q \in Pids, Sharing(p, q)', ~Sharing(p, q)
  PROVE  "starting" \in {proc[p], proc[q]}
<1>0. /\ pipe \in [Pids -> Pipeline]
      /\ proc \in [Pids -> {"none", "starting", "listening", "serving", "exited"}]
  BY DEF TypeOK
<1>1. ~SamePorts
  BY DEF SamePorts, Sharing
<1>2. PICK c \in Callers, m \in Models : Launch(c, m)
  BY <1>1, PortSteps DEF LaunchStep
<1>3. PICK r \in Pids, k \in Ports :
        /\ FreePort(k)
        /\ pipe' = [pipe EXCEPT ![r] =
                      [model |-> m, state |-> "loading", port |-> k, age |-> 0]]
        /\ proc' = [proc EXCEPT ![r] = "starting"]
  BY <1>1, <1>2 DEF Launch, SamePorts
<1>4. ASSUME NEW s \in Pids, s # r, proc[s] \in Live, pipe[s].port = k PROVE proc[s] = "starting"
  BY <1>3, <1>4 DEF FreePort, FreePorts, Bound, Live
<1>5. p = r \/ q = r
  BY <1>0, <1>3 DEF Sharing
<1>6. CASE p = r
  BY <1>0, <1>3, <1>4, <1>6 DEF Sharing
<1>7. CASE q = r
  BY <1>0, <1>3, <1>4, <1>7 DEF Sharing
<1> QED
  BY <1>5, <1>6, <1>7

\* Two live llama-servers come to have one port only if one was launched while the
\* other had not bound it.
THEOREM CollisionIsBeforeBind == Spec => CollideOnlyBeforeBind
<1>1. TypeOK /\ [Next]_vars =>
        [\A p, q \in Pids : Sharing(p, q)' /\ ~Sharing(p, q)
            => "starting" \in {proc[p], proc[q]}]_vars
  BY CollideStep
<1> QED
  BY <1>1, TypeCorrect, PTL DEF Spec, CollideOnlyBeforeBind
=============================================================================
