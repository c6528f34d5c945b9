------------------------------ MODULE NodeReport ------------------------------
(***************************************************************************)
(* What a pool believes of a node's Ollama: refreshSelf of                 *)
(* internal/agent/agent.go and the probes of internal/resources, on the    *)
(* node, and pollPeers on one of its peers.  Run has refreshed once and    *)
(* advertised the node before the ticker exists and the node is heard.     *)
(*                                                                         *)
(* refreshSelf looks at the hardware, asks Ollama three questions one      *)
(* after the other, each with its own timeout, waits for the RPC worker's  *)
(* lock in Running, and replaces the node's own entry.  A peer fetches     *)
(* that entry, however old it is, and stamps it on arrival; in a round it  *)
(* asks the other addresses it knows one after the other, before or after. *)
(*                                                                         *)
(* Of what is reported the model keeps OllamaOK, and Models as whether one *)
(* model is in it.  Time is counted in ticks, and Tick waits for what is   *)
(* due.  A live Ollama answers in time, a hung one not at all.             *)
(***************************************************************************)
EXTENDS Integers

CONSTANTS
  RefreshEvery,   \* the ticker of refreshSelf
  CollectMax,     \* nvidia-smi's timeout
  ProbeTimeout,   \* the timeout of ProbeOllama's http.Client
  LockMax,        \* how long Running may wait for the worker's lock
  AdvertiseMax,   \* how long Advertise may take
  PollEvery, FetchTimeout,  \* of the peer's pollPeers
  OthersMax,      \* how long a round of it may ask other addresses
  StaleAfter,     \* scheduler.StaleAfter
  None            \* no entry, no fetch

Times == {RefreshEvery, CollectMax, ProbeTimeout, LockMax, AdvertiseMax,
          PollEvery, FetchTimeout, OthersMax, StaleAfter}
ASSUME TimesAssumption == Times \subseteq Nat /\ RefreshEvery > 0 /\ PollEvery > 0

VARIABLES
  up,            \* whether the agent runs
  ollama,        \* "up", "hung" or "down"
  has,           \* whether the model is pulled
  probe,         \* refreshSelf: where it is, for how long, and what it has found
  self,          \* the node's own entry: [ok, has, age], or None
  refreshTimer,  \* ticks since the ticker of refreshSelf fired
  round,         \* pollPeers: "off", or the node is yet to be asked, or has been
  others,        \* ticks the round has asked other addresses
  fetch,         \* the peer's fetch: [age, reply]
  pollTimer,     \* ticks since the ticker of pollPeers fired
  view,          \* what the peer has last heard of the node, and how long ago
  unserved,      \* ticks since the node could serve the model
  steady         \* ticks it has been able to

vars  == <<up, ollama, has, probe, self, refreshTimer, round, others, fetch, pollTimer,
          view, unserved, steady>>
node  == <<probe, self, refreshTimer>>
peer  == <<round, others, fetch, pollTimer, view>>
world == <<up, ollama, has>>
past  == <<unserved, steady>>

\* "off" is loop waiting for the ticker, "lock" the rest of refreshSelf, which
\* waits for the lock; Run is in Advertise after the first refresh.
Stages == {"off", "collect", "version", "tags", "ps", "lock", "advertise"}
At(stage) == [at |-> stage, age |-> 0, ok |-> FALSE, has |-> FALSE]
Idle  == At("off")
Begun == At("collect")
Limit(stage) == CASE stage = "off" -> 0 [] stage = "collect" -> CollectMax
                  [] stage = "lock" -> LockMax
                  [] stage = "advertise" -> AdvertiseMax [] OTHER -> ProbeTimeout

\* What a reply says, as refreshSelf fills it in.
Reports == {r \in [ok : BOOLEAN, has : BOOLEAN] : r.has => r.ok}

\* None is neither an entry, nor a fetch, nor a reply.
ASSUME NoneAssumption ==
  /\ None \notin [ok : BOOLEAN, has : BOOLEAN, age : Nat]
  /\ None \notin [age : Nat, reply : {None} \cup Reports]
  /\ None \notin Reports

Servable == up /\ ollama = "up" /\ has

\* Run is past Advertise: its ticker runs, and its HTTP server answers.
Looping == up /\ self # None /\ probe.at # "advertise"

\* How long a refresh can take, and the node's own entry stand: the first entry has
\* Advertise and a whole period of the ticker to wait for the next.
RefreshMax == CollectMax + 3 * ProbeTimeout + LockMax
SelfMax    == AdvertiseMax + RefreshEvery + RefreshMax

\* The code's ticker and timeouts are eighteen seconds in all and StaleAfter is twenty:
\* Running is assumed to have the lock, and Advertise its sockets, within the other two.
ASSUME FreshAssumption == SelfMax < StaleAfter

\* From the answer to the first model list to the end of the second refresh.
TwoRefreshes == ProbeTimeout + LockMax + SelfMax

\* How long the peer goes without asking the node again, and how old its entry gets:
\* the others may all be asked after the node in one round and before it in the next.
Larger(m, n) == IF m > n THEN m ELSE n
RoundMax == Larger(PollEvery, OthersMax + FetchTimeout)
ViewMax  == Larger(PollEvery, OthersMax) + OthersMax + FetchTimeout

\* The age up to which a peer's entry is told apart.
OldAge == Larger(StaleAfter, ViewMax + 1)

\* What the pool is given to notice a change.
TrustLag == TwoRefreshes + FetchTimeout + StaleAfter - 1
SeenLag  == TwoRefreshes + RoundMax + OthersMax + FetchTimeout

Init ==
  /\ up = TRUE /\ ollama = "up" /\ has = TRUE
  /\ probe = Begun /\ self = None /\ refreshTimer = 0
  /\ round = "off" /\ others = 0 /\ fetch = None /\ pollTimer = 0 /\ view = None
  /\ unserved = 0 /\ steady = 0

-----------------------------------------------------------------------------
(***************************************************************************)
(* Faulty variants.  Nothing below uses them: each stands for a slip in    *)
(* the code, and shows that the property named with it would notice.       *)
(***************************************************************************)

\* When Ollama does not list its models, those known are kept (BelievedWasTrue).
KeepModels == IF self = None THEN FALSE ELSE self.has

\* A refresh that has found no Ollama publishes nothing (OwnEntryIsFresh).
PublishIfOK ==
  /\ probe.at = "lock"
  /\ self' = IF probe.ok THEN [ok |-> TRUE, has |-> probe.has, age |-> 0] ELSE self
  /\ probe' = Idle
  /\ UNCHANGED <<refreshTimer, peer, world, past>>

\* A node whose entry is not stale is not polled (TruthIsSeen).
StartFetchIfStale ==
  /\ round = "before" /\ round' = "after"
  /\ fetch' = IF view = None \/ view.age >= StaleAfter THEN [age |-> 0, reply |-> None] ELSE None
  /\ UNCHANGED <<others, pollTimer, view, node, world, past>>

\* The agent stops and the refresh that runs goes on (TypeOK).
StopUnjoined ==
  /\ up /\ up' = FALSE
  /\ self' = None /\ refreshTimer' = 0
  /\ steady' = 0
  /\ UNCHANGED <<probe, ollama, has, peer, unserved>>

-----------------------------------------------------------------------------
(***************************************************************************)
(* refreshSelf                                                             *)
(***************************************************************************)

\* The ticker fires, and refreshSelf begins with Collect.
Refresh ==
  /\ up /\ probe.at = "off" /\ refreshTimer = RefreshEvery
  /\ probe' = Begun /\ refreshTimer' = 0
  /\ UNCHANGED <<self, peer, world, past>>

Goto(stage, ok, models) ==
  /\ probe' = [at |-> stage, age |-> 0, ok |-> ok, has |-> models]
  /\ UNCHANGED <<self, refreshTimer, peer, world, past>>

\* The hardware is known, or nvidia-smi is killed.
Collected == probe.at = "collect" /\ Goto("version", FALSE, FALSE)

\* A probe gets its answer ...
Probed ==
  /\ ollama = "up"
  /\ \/ probe.at = "version" /\ Goto("tags", TRUE, FALSE)
     \/ probe.at = "tags" /\ Goto("ps", TRUE, has)
     \/ probe.at = "ps" /\ Goto("lock", TRUE, probe.has)

\* ... or none.  Without a version nothing else is asked.
NoModels == FALSE
ProbeFails ==
  /\ ollama = "down" \/ (ollama = "hung" /\ probe.age = ProbeTimeout)
  /\ \/ probe.at = "version" /\ Goto("lock", FALSE, FALSE)
     \/ probe.at = "tags" /\ Goto("ps", TRUE, NoModels)
     \/ probe.at = "ps" /\ Goto("lock", TRUE, probe.has)

\* Running has had the lock: Upsert.
Publish ==
  /\ probe.at = "lock"
  /\ self' = [ok |-> probe.ok, has |-> probe.has, age |-> 0]
  /\ probe' = IF self = None THEN At("advertise") ELSE Idle
  /\ UNCHANGED <<refreshTimer, peer, world, past>>

\* The node is advertised: the loops and the HTTP server start.
Advertise ==
  /\ probe.at = "advertise"
  /\ probe' = Idle
  /\ UNCHANGED <<self, refreshTimer, peer, world, past>>

-----------------------------------------------------------------------------
(***************************************************************************)
(* pollPeers                                                               *)
(***************************************************************************)

\* The ticker fires, and the addresses known are asked in any order.
StartRound ==
  /\ round = "off" /\ pollTimer = PollEvery
  /\ round' = "before" /\ others' = 0 /\ pollTimer' = 0
  /\ UNCHANGED <<fetch, view, node, world, past>>

StartFetch ==
  /\ round = "before" /\ round' = "after"
  /\ fetch' = [age |-> 0, reply |-> None]
  /\ UNCHANGED <<others, pollTimer, view, node, world, past>>

EndRound ==
  /\ round = "after" /\ fetch = None
  /\ round' = "off" /\ others' = 0
  /\ UNCHANGED <<fetch, pollTimer, view, node, world, past>>

\* handleState.
Answer ==
  /\ fetch # None /\ fetch.reply = None /\ Looping
  /\ fetch' = [fetch EXCEPT !.reply = [ok |-> self.ok, has |-> self.has]]
  /\ UNCHANGED <<round, others, pollTimer, view, node, world, past>>

\* Upsert stamps it.
Upsert ==
  /\ fetch # None /\ fetch.reply # None
  /\ view' = [ok |-> fetch.reply.ok, has |-> fetch.reply.has, age |-> 0]
  /\ fetch' = None
  /\ UNCHANGED <<round, others, pollTimer, node, world, past>>

FetchFails ==
  /\ fetch # None /\ fetch.reply = None /\ ~Looping
  /\ fetch' = None
  /\ UNCHANGED <<round, others, pollTimer, view, node, world, past>>

-----------------------------------------------------------------------------
(***************************************************************************)
(* The environment                                                         *)
(***************************************************************************)

\* The agent stops, with its registry, or starts: Run refreshes first.
Stop ==
  /\ up /\ up' = FALSE
  /\ probe' = Idle /\ self' = None /\ refreshTimer' = 0
  /\ steady' = 0
  /\ UNCHANGED <<ollama, has, peer, unserved>>

Start ==
  /\ ~up /\ up' = TRUE
  /\ probe' = Begun
  /\ UNCHANGED <<self, refreshTimer, ollama, has, peer, steady>>
  /\ unserved' = IF Servable' THEN 0 ELSE unserved

\* Ollama starts, hangs or stops; the model is pulled or removed.
Change(state, pulled) ==
  /\ <<state, pulled>> # <<ollama, has>>
  /\ ollama' = state /\ has' = pulled
  /\ steady' = IF state = "up" /\ pulled THEN steady ELSE 0
  /\ UNCHANGED <<up, node, peer>>
  /\ unserved' = IF Servable' THEN 0 ELSE unserved

Older(entry, max) == IF entry = None THEN None
                     ELSE [entry EXCEPT !.age = IF @ < max THEN @ + 1 ELSE max]
Later(n, max)     == IF n < max THEN n + 1 ELSE max

Due ==
  \/ probe.at # "off" /\ probe.age = Limit(probe.at)
  \/ up /\ probe.at = "off" /\ refreshTimer = RefreshEvery
  \/ round = "off" /\ pollTimer = PollEvery
  \/ round # "off" /\ fetch = None /\ others = OthersMax
  \/ fetch # None /\ fetch.age = FetchTimeout

Tick ==
  /\ ~Due
  /\ probe' = IF probe.at = "off" THEN probe ELSE [probe EXCEPT !.age = @ + 1]
  /\ self' = Older(self, SelfMax + 1)
  /\ refreshTimer' = IF Looping THEN Later(refreshTimer, RefreshEvery) ELSE 0
  /\ others' = IF round # "off" /\ fetch = None THEN others + 1 ELSE others
  /\ fetch' = Older(fetch, FetchTimeout)
  /\ pollTimer' = Later(pollTimer, PollEvery)
  /\ view' = Older(view, OldAge)
  /\ unserved' = IF Servable THEN 0 ELSE Later(unserved, TrustLag + 1)
  /\ steady' = IF Servable THEN Later(steady, SeenLag + 1) ELSE 0
  /\ UNCHANGED <<round, world>>

Next ==
  \/ Refresh \/ Collected \/ Probed \/ ProbeFails \/ Publish \/ Advertise
  \/ StartRound \/ StartFetch \/ EndRound \/ Answer \/ Upsert \/ FetchFails
  \/ Stop \/ Start \/ Tick
  \/ \E state \in {"up", "hung", "down"}, pulled \in BOOLEAN : Change(state, pulled)

Spec == Init /\ [][Next]_vars

-----------------------------------------------------------------------------
(***************************************************************************)
(* Properties                                                              *)
(***************************************************************************)

\* The types; refreshSelf runs on an agent that is up only, and it never holds a
\* model list of an Ollama that gave no version.
TypeOK ==
  /\ up \in BOOLEAN /\ ollama \in {"up", "hung", "down"} /\ has \in BOOLEAN
  /\ probe \in [at : Stages, age : 0..Limit(probe.at), ok : BOOLEAN, has : BOOLEAN]
  /\ self = None \/ self \in [ok : BOOLEAN, has : BOOLEAN, age : 0..SelfMax + 1]
  /\ view = None \/ view \in [ok : BOOLEAN, has : BOOLEAN, age : 0..OldAge]
  /\ round \in {"off", "before", "after"} /\ others \in 0..OthersMax
  /\ (fetch # None => round = "after") /\ (round = "off" => others = 0)
  /\ fetch = None \/ fetch \in [age : 0..FetchTimeout, reply : {None} \cup Reports]
  /\ refreshTimer \in 0..RefreshEvery /\ pollTimer \in 0..PollEvery
  /\ unserved \in 0..TrustLag + 1 /\ steady \in 0..SeenLag + 1
  /\ ~up => probe = Idle /\ self = None
  /\ ~Looping => refreshTimer = 0
  /\ up /\ self = None => probe.at \notin {"off", "advertise"}
  /\ probe.has => probe.ok
  /\ \A e \in {self, view} \ {None} : e.has => e.ok

\* eligible and HasModel, on the peer.  Prune, in PoolView, removes only what is older.
Believed == view # None /\ view.age < StaleAfter /\ view.ok /\ view.has

\* A peer routes a model to the node only if the node could serve it at most
\* TrustLag ago.  StaleAfter is but one part of that: the entry may have been true
\* long before it was published, and published long before it was fetched.
BelievedWasTrue == Believed => unserved <= TrustLag

\* What has been true for SeenLag is known, however slow and however often the
\* probes failed before, and known anew in every round.  Whether ViewMax is less than
\* StaleAfter, so that eligible always believes it, is up to the addresses that do
\* not answer.
TruthIsSeen == steady > SeenLag => view # None /\ view.ok /\ view.has /\ view.age <= ViewMax

\* A node never takes itself for stale: a refresh, with every timeout it may run
\* into, ends before its own entry is too old for its own scheduler.
OwnEntryIsFresh == self # None => self.age <= SelfMax /\ self.age < StaleAfter
=============================================================================
