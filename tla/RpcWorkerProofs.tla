--------------------------- MODULE RpcWorkerProofs ---------------------------
(***************************************************************************)
(* Proofs about RpcWorker, for any number of handlers and processes.       *)
(***************************************************************************)
EXTENDS RpcWorker, TLAPS

\* The conjunction is inductive.  CmdIsTheServer alone is not: that a launch
\* finds no live process needs the lock (TypeOK: while somebody is between the
\* test of w.cmd and the launch, w.cmd is nil).
Inv == TypeOK /\ CmdIsTheServer

LEMMA InitInv == Init => Inv
BY CallersAssumption, NoPidAssumption
   DEF Init, Inv, TypeOK, CmdIsTheServer, LivePids, Live, PidOrNone, PC, NoCall, Actors, Stopper, Free

\* Every step keeps the types and the lock discipline.
LEMMA TypeStep == TypeOK /\ [Next]_vars => TypeOK'
<1> SUFFICES ASSUME TypeOK, [Next]_vars PROVE TypeOK'
  OBVIOUS
<1> USE NoPidAssumption, CallersAssumption
    DEF TypeOK, PidOrNone, PC, NoCall, Actors
<1>1. ASSUME NEW c \in Callers, Recruit(c) \/ EnsureStep(c) \/ StopCall(c) \/ Kill(c)
      PROVE  TypeOK'
  <2>1. CASE Recruit(c)
    BY <2>1 DEF Recruit, Goto, Idle
  <2>2. CASE TestCmd(c)
    BY <2>2 DEF TestCmd, Goto
  <2>3. CASE Launch(c)
    BY <2>3 DEF Launch, Return
  <2>4. CASE Connected(c)
    BY <2>4 DEF Connected, Goto
  <2>5. CASE GiveUp(c)
    BY <2>5 DEF GiveUp, Return
  <2>6. CASE Reply(c)
    BY <2>6 DEF Reply, Return
  <2>7. CASE StopCall(c)
    BY <2>7 DEF StopCall, ReadCmd
  <2>8. CASE Kill(c)
    BY <2>8 DEF Kill
  <2> QED
    BY <1>1, <2>1, <2>2, <2>3, <2>4, <2>5, <2>6, <2>7, <2>8 DEF EnsureStep
<1>2. CASE Signal
  BY <1>2 DEF Signal
<1>3. CASE StopStep
  <2>1. CASE StopAtExit
    BY <2>1 DEF StopAtExit, ReadCmd
  <2>2. CASE Kill(Stopper)
    BY <2>2 DEF Kill
  <2>3. CASE CloseServer
    BY <2>3 DEF CloseServer
  <2>4. CASE Exit
    BY <2>4 DEF Exit, Free
  <2> QED
    BY <1>3, <2>1, <2>2, <2>3, <2>4 DEF StopStep
<1>4. CASE Restart
  BY <1>4 DEF Restart
<1>5. ASSUME NEW p \in Pids, Bind(p) \/ Crash(p) \/ Reap(p)
      PROVE  TypeOK'
  <2>1. CASE Bind(p)
    BY <2>1 DEF Bind
  <2>2. CASE Crash(p)
    BY <2>2 DEF Crash
  <2>3. CASE Reap(p)
    BY <2>3 DEF Reap
  <2> QED
    BY <1>5, <2>1, <2>2, <2>3
<1>6. CASE UNCHANGED vars
  BY <1>6 DEF vars
<1> QED
  BY <1>1, <1>2, <1>3, <1>4, <1>5, <1>6 DEF Next

\* No step starts a second live process or loses the one there is.
LEMMA ServerStep == Inv /\ [Next]_vars => CmdIsTheServer'
<1> SUFFICES ASSUME Inv, [Next]_vars PROVE CmdIsTheServer'
  OBVIOUS
<1> USE NoPidAssumption, CallersAssumption
    DEF Inv, TypeOK, CmdIsTheServer, LivePids, Live, PidOrNone
\* Only Launch makes a process live that was not, and only when none is.
<1>1. ASSUME NEW c \in Callers, Launch(c) PROVE CmdIsTheServer'
  <2>1. mu = c /\ mu # Free /\ cmd = NoPid
    BY <1>1 DEF Launch
  <2>2. LivePids \cap mine = {}
    BY <2>1
  <2> QED
    BY <1>1, <2>2 DEF Launch
<1>2. ASSUME NEW a \in Actors, Kill(a) PROVE CmdIsTheServer'
  BY <1>2 DEF Kill
<1>3. ASSUME NEW p \in Pids, Reap(p) PROVE CmdIsTheServer'
  BY <1>3 DEF Reap
<1>4. ASSUME NEW p \in Pids, Bind(p) \/ Crash(p) PROVE CmdIsTheServer'
  BY <1>4 DEF Bind, Crash
<1>5. CASE Exit
  BY <1>5 DEF Exit
<1>6. ASSUME UNCHANGED <<cmd, proc, mine>> PROVE CmdIsTheServer'
  BY <1>6
<1>7. ASSUME NEW c \in Callers,
             \/ Recruit(c) \/ TestCmd(c) \/ Connected(c) \/ GiveUp(c) \/ Reply(c)
             \/ StopCall(c)
      PROVE  UNCHANGED <<cmd, proc, mine>>
  BY <1>7 DEF Recruit, TestCmd, Connected, GiveUp, Reply, StopCall, ReadCmd
<1>8. ASSUME Signal \/ StopAtExit \/ CloseServer \/ Restart \/ UNCHANGED vars
      PROVE  UNCHANGED <<cmd, proc, mine>>
  BY <1>8 DEF Signal, StopAtExit, ReadCmd, CloseServer, Restart, vars
<1> QED
  BY <1>1, <1>2, <1>3, <1>4, <1>5, <1>6, <1>7, <1>8
     DEF Next, EnsureStep, StopStep, Actors

LEMMA SpecInv == Spec => []Inv
<1>1. Inv /\ [Next]_vars => Inv'
  BY TypeStep, ServerStep DEF Inv
<1> QED
  BY <1>1, InitInv, PTL DEF Spec

\* The types hold, w.mu's holder is in pickDevices, and w.cmd is nil meanwhile.
THEOREM TypeCorrect == Spec => []TypeOK
BY SpecInv, PTL DEF Inv

\* At most one rpc-server of the agent's is alive, and w.cmd is that one.
THEOREM OneServer == Spec => []CmdIsTheServer
BY SpecInv, PTL DEF Inv

-----------------------------------------------------------------------------
(***************************************************************************)
(* What an earlier agent has left behind.                                  *)
(***************************************************************************)

\* Live processes the present agent has not started.
Strays == LivePids \ mine

\* Only the end of an agent leaves a process behind.
LEMMA StraysStep ==
  ASSUME TypeOK, Strays = {}, Running', [Next]_vars
  PROVE  Strays' = {}
<1> USE NoPidAssumption DEF Strays, LivePids, Live, TypeOK, PidOrNone
<1>1. ASSUME NEW c \in Callers, Launch(c) PROVE Strays' = {}
  BY <1>1 DEF Launch
<1>2. ASSUME NEW a \in Actors, Kill(a) PROVE Strays' = {}
  BY <1>2 DEF Kill
<1>3. ASSUME NEW p \in Pids, Bind(p) \/ Crash(p) \/ Reap(p) PROVE Strays' = {}
  BY <1>3 DEF Bind, Crash, Reap
<1>4. ASSUME UNCHANGED <<proc, mine>> PROVE Strays' = {}
  BY <1>4
<1>5. ASSUME NEW c \in Callers,
             \/ Recruit(c) \/ TestCmd(c) \/ Connected(c) \/ GiveUp(c) \/ Reply(c)
             \/ StopCall(c)
      PROVE  UNCHANGED <<proc, mine>>
  BY <1>5 DEF Recruit, TestCmd, Connected, GiveUp, Reply, StopCall
<1>6. ASSUME Signal \/ StopAtExit \/ CloseServer \/ Restart \/ UNCHANGED vars
      PROVE  UNCHANGED <<proc, mine>>
  BY <1>6 DEF Signal, StopAtExit, CloseServer, Restart, vars
<1>7. ~Exit
  BY DEF Exit, Running
<1> QED
  BY <1>1, <1>2, <1>3, <1>4, <1>5, <1>6, <1>7 DEF Next, EnsureStep, StopStep, Actors

\* Until the agent's first exit there is one rpc-server on the machine at most, its
\* own, and whoever answers on the port is that one.
THEOREM OneServerUntilExit == Spec /\ []Running => [](LivePids \subseteq {cmd})
<1>1. Init => Strays = {}
  BY DEF Init, Strays, LivePids, Live
<1>2. TypeOK /\ Strays = {} /\ Running' /\ [Next]_vars => (Strays = {})'
  BY StraysStep
<1>3. Inv /\ Strays = {} => LivePids \subseteq {cmd}
  BY DEF Inv, CmdIsTheServer, Strays
<1> QED
  BY <1>1, <1>2, <1>3, SpecInv, TypeCorrect, PTL DEF Spec

=============================================================================
