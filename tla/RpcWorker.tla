------------------------------ MODULE RpcWorker ------------------------------
(***************************************************************************)
(* The worker side of model splitting: internal/split/worker.go and the    *)
(* handlers of internal/agent/split.go that call it.                       *)
(*                                                                         *)
(* A Worker owns at most one rpc-server.  A driver that recruits this node *)
(* calls POST /api/rpc/start, whose handler calls Ensure; /api/rpc/stop    *)
(* and the agent's shutdown call Stop.  w.mu is held from the test of      *)
(* w.cmd to the launch, across the run of `rpc-server --device list`, so   *)
(* the lock is a variable here; every other critical section is one step.  *)
(*                                                                         *)
(* A Pid stands for an exec.Cmd and its process.  It is used again once    *)
(* nothing refers to it.                                                   *)
(***************************************************************************)
EXTENDS Integers, FiniteSets

CONSTANTS
  Callers,        \* HTTP handlers that can be running at one time
  Pids,           \* exec.Cmds / rpc-server processes
  AllowShutdown,  \* whether the environment signals the agent
  NoPid           \* the nil *exec.Cmd

Stopper == "shutdown"   \* Run's shutdown goroutine
Free    == "free"       \* nobody holds w.mu across steps
Actors  == Callers \cup {Stopper}

ASSUME NoPidAssumption    == NoPid \notin Pids
ASSUME CallersAssumption  == Stopper \notin Callers /\ Free \notin Callers
ASSUME ShutdownAssumption == AllowShutdown \in BOOLEAN

VARIABLES
  agent,   \* "up", "stopping" (signalled), "stopped" (Stop has read w.cmd),
           \* "closing" (srv.Shutdown), "down"
  cmd,     \* Worker.cmd
  mu,      \* the handler that holds w.mu across steps, if any
  proc,    \* the processes; "none" once cmd.Wait has returned
  mine,    \* the processes the present agent started and has not waited for
  call,    \* the program counter and the launched process of each handler
  victim   \* the process Stop has read from w.cmd and not killed yet

vars == <<agent, cmd, mu, proc, mine, call, victim>>

PidOrNone == Pids \cup {NoPid}

\* "start" is the handler of /api/rpc/start before Ensure takes w.mu, "pick" is
\* pickDevices, "wait" is waitForPort, "ok" is a nil error on its way back.
PC     == {"idle", "start", "pick", "wait", "ok"}
NoCall == [pc |-> "idle", own |-> NoPid]

Live       == {"starting", "listening"}
LivePids   == {p \in Pids : proc[p] \in Live}
PortIsOpen == \E p \in Pids : proc[p] = "listening"

\* The types, and what w.mu protects: its holder is in pickDevices, and nobody
\* sets w.cmd meanwhile.
TypeOK ==
  /\ agent \in {"up", "stopping", "stopped", "closing", "down"}
  /\ cmd \in PidOrNone
  /\ mu \in Callers \cup {Free}
  /\ proc \in [Pids -> {"none", "starting", "listening", "exited"}]
  /\ mine \in SUBSET Pids
  /\ call \in [Callers -> [pc : PC, own : PidOrNone]]
  /\ victim \in [Actors -> PidOrNone]
  /\ \A c \in Callers : call[c].pc = "pick" <=> mu = c
  /\ mu # Free => cmd = NoPid

Unreferenced(p) ==
  /\ proc[p] = "none" /\ cmd # p
  /\ \A c \in Callers : call[c].own # p
  /\ \A a \in Actors : victim[a] # p

Accepting == agent \in {"up", "stopping", "stopped"}
Running   == agent # "down"
Idle(c)   == call[c].pc = "idle" /\ victim[c] = NoPid

Goto(c, l) == call' = [call EXCEPT ![c].pc = l]
Return(c)  == call' = [call EXCEPT ![c] = NoCall]

Init ==
  /\ agent = "up"
  /\ cmd = NoPid
  /\ mu = Free
  /\ proc = [p \in Pids |-> "none"]
  /\ mine = {}
  /\ call = [c \in Callers |-> NoCall]
  /\ victim = [a \in Actors |-> NoPid]

-----------------------------------------------------------------------------
(***************************************************************************)
(* Faulty variants.  Nothing below uses them: each stands for a slip in    *)
(* the code, and shows that the property named with it would notice.       *)
(***************************************************************************)

\* Ensure releases w.mu while the devices are listed (TypeOK).
TestCmdUnlocked(c) ==
  /\ Running /\ call[c].pc = "start" /\ mu = Free
  /\ Goto(c, IF cmd # NoPid THEN "ok" ELSE "pick")
  /\ UNCHANGED <<agent, cmd, mu, proc, mine, victim>>

\* Stop clears w.cmd itself, before the process is gone (CmdIsTheServer).
ReadCmdAndClear(a) == victim' = [victim EXCEPT ![a] = cmd] /\ cmd' = NoPid

\* The goroutine in cmd.Wait does not clear w.cmd (StopTakesEffect).
ReapNothing(p) ==
  /\ proc[p] = "exited" /\ mu = Free
  /\ proc' = [proc EXCEPT ![p] = "none"] /\ mine' = mine \ {p}
  /\ UNCHANGED <<agent, cmd, mu, call, victim>>

\* waitForPort retries for ever (RecruitAnswered).
GiveUpNever(c) == FALSE /\ UNCHANGED vars

-----------------------------------------------------------------------------
(***************************************************************************)
(* Ensure                                                                  *)
(***************************************************************************)

\* handleRPCStart has passed its checks and calls Ensure.
Recruit(c) ==
  /\ Accepting /\ Idle(c)
  /\ Goto(c, "start")
  /\ UNCHANGED <<agent, cmd, mu, proc, mine, victim>>

\* w.mu.Lock; a process that is already there is good enough.
TestCmd(c) ==
  /\ Running /\ call[c].pc = "start" /\ mu = Free
  /\ IF cmd # NoPid THEN Goto(c, "ok") /\ UNCHANGED mu
                    ELSE Goto(c, "pick") /\ mu' = c
  /\ UNCHANGED <<agent, cmd, proc, mine, victim>>

\* pickDevices has returned; exec, w.cmd = cmd and w.mu.Unlock.
Launch(c) ==
  /\ Running /\ call[c].pc = "pick"
  /\ mu' = Free
  /\ \/ \E p \in Pids :
          /\ Unreferenced(p)
          /\ proc' = [proc EXCEPT ![p] = "starting"]
          /\ cmd' = p /\ mine' = mine \cup {p}
          /\ call' = [call EXCEPT ![c] = [pc |-> "wait", own |-> p]]
     \/ Return(c) /\ UNCHANGED <<cmd, proc, mine>>
  /\ UNCHANGED <<agent, victim>>

\* waitForPort: a connection to the port is accepted, whoever holds it ...
Connected(c) ==
  /\ Running /\ call[c].pc = "wait" /\ PortIsOpen
  /\ Goto(c, "ok")
  /\ UNCHANGED <<agent, cmd, mu, proc, mine, victim>>

\* ... or ten seconds pass: an error, and the process is left as it is.
GiveUp(c) ==
  /\ Running /\ call[c].pc = "wait" /\ ~PortIsOpen
  /\ Return(c)
  /\ UNCHANGED <<agent, cmd, mu, proc, mine, victim>>

\* handleRPCStart reports the port to the driver.
Reply(c) ==
  /\ Running /\ call[c].pc = "ok"
  /\ Return(c)
  /\ UNCHANGED <<agent, cmd, mu, proc, mine, victim>>

-----------------------------------------------------------------------------
(***************************************************************************)
(* Stop                                                                    *)
(***************************************************************************)

\* First half of Stop: read w.cmd under w.mu.
ReadCmd(a) == victim' = [victim EXCEPT ![a] = cmd] /\ UNCHANGED cmd

\* handleRPCStop.
StopCall(c) ==
  /\ Accepting /\ Idle(c) /\ mu = Free
  /\ ReadCmd(c)
  /\ UNCHANGED <<agent, mu, proc, mine, call>>

\* Second half: Process.Kill, which does nothing to a process already waited for.
Kill(a) ==
  /\ Running /\ victim[a] # NoPid
  /\ proc' = [proc EXCEPT ![victim[a]] = IF @ \in Live THEN "exited" ELSE @]
  /\ victim' = [victim EXCEPT ![a] = NoPid]
  /\ UNCHANGED <<agent, cmd, mu, mine, call>>

\* The agent is signalled.  Run's shutdown goroutine calls worker.Stop ...
Signal ==
  /\ AllowShutdown /\ agent = "up"
  /\ agent' = "stopping"
  /\ UNCHANGED <<cmd, mu, proc, mine, call, victim>>

StopAtExit ==
  /\ agent = "stopping" /\ mu = Free
  /\ agent' = "stopped"
  /\ ReadCmd(Stopper)
  /\ UNCHANGED <<mu, proc, mine, call>>

\* ... and then srv.Shutdown: no handler starts any more.
CloseServer ==
  /\ agent = "stopped" /\ victim[Stopper] = NoPid
  /\ agent' = "closing"
  /\ UNCHANGED <<cmd, mu, proc, mine, call, victim>>

\* main returns.  The agent's memory goes, the processes stay.
Exit ==
  /\ agent = "closing"
  /\ agent' = "down"
  /\ cmd' = NoPid /\ mu' = Free /\ mine' = {}
  /\ call' = [c \in Callers |-> NoCall]
  /\ victim' = [a \in Actors |-> NoPid]
  /\ UNCHANGED proc

Restart ==
  /\ agent = "down"
  /\ agent' = "up"
  /\ UNCHANGED <<cmd, mu, proc, mine, call, victim>>

-----------------------------------------------------------------------------
(***************************************************************************)
(* The processes                                                           *)
(***************************************************************************)

\* rpc-server binds the one port it was given, or exits.
Bind(p) ==
  /\ proc[p] = "starting"
  /\ proc' = [proc EXCEPT ![p] = IF PortIsOpen THEN "exited" ELSE "listening"]
  /\ UNCHANGED <<agent, cmd, mu, mine, call, victim>>

Crash(p) ==
  /\ proc[p] \in Live
  /\ proc' = [proc EXCEPT ![p] = "exited"]
  /\ UNCHANGED <<agent, cmd, mu, mine, call, victim>>

\* The goroutine of Ensure in cmd.Wait clears w.cmd if it still names its own
\* process.  init waits for what an earlier agent has left behind.
Reap(p) ==
  /\ proc[p] = "exited"
  /\ p \in mine => mu = Free
  /\ proc' = [proc EXCEPT ![p] = "none"] /\ mine' = mine \ {p}
  /\ cmd' = IF cmd = p THEN NoPid ELSE cmd
  /\ UNCHANGED <<agent, mu, call, victim>>

-----------------------------------------------------------------------------
EnsureStep(c) == TestCmd(c) \/ Launch(c) \/ Connected(c) \/ GiveUp(c) \/ Reply(c)
StopStep      == StopAtExit \/ Kill(Stopper) \/ CloseServer \/ Exit

Next ==
  \/ \E c \in Callers : Recruit(c) \/ EnsureStep(c) \/ StopCall(c) \/ Kill(c)
  \/ Signal \/ StopStep \/ Restart
  \/ \E p \in Pids : Bind(p) \/ Crash(p) \/ Reap(p)

Spec == Init /\ [][Next]_vars

(***************************************************************************)
(* Goroutines are scheduled, and w.mu is handed to whoever waits for it    *)
(* (Go's mutex starves nobody): SF on what takes the lock.  Running        *)
(* `rpc-server --device list` is assumed to end: Launch.                   *)
(***************************************************************************)
Fairness ==
  /\ \A c \in Callers : /\ SF_vars(TestCmd(c)) /\ WF_vars(Kill(c)) /\ WF_vars(Reply(c))
                        /\ WF_vars(Launch(c)) /\ WF_vars(Connected(c) \/ GiveUp(c))
  /\ \A p \in Pids : SF_vars(Reap(p))
  /\ SF_vars(StopStep)

FairSpec == Spec /\ Fairness

-----------------------------------------------------------------------------
(***************************************************************************)
(* Safety                                                                  *)
(***************************************************************************)

\* w.cmd is the live rpc-server whenever the agent runs one: there is never a
\* second one, however calls of /api/rpc/start, /api/rpc/stop and crashes
\* overlap, Running tells the pool of it, and a later Stop reaches it.
CmdIsTheServer == LivePids \cap mine \subseteq {cmd}

-----------------------------------------------------------------------------
(***************************************************************************)
(* Liveness                                                                *)
(***************************************************************************)

\* A driver that recruits this node gets an answer.
RecruitAnswered == \A c \in Callers : call[c].pc # "idle" ~> call[c].pc = "idle"

\* Stop takes effect: the process it has read leaves w.cmd, so that the next
\* Ensure starts a new one.
StopTakesEffect ==
  \A a \in Actors, p \in Pids : victim[a] = p /\ cmd = p ~> cmd # p
=============================================================================
