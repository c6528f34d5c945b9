------------------------------- MODULE PoolView -------------------------------
(***************************************************************************)
(* One agent's view of the pool: the loops of internal/agent/agent.go over *)
(* the registry (internal/registry/registry.go), fed by                    *)
(* internal/discovery/discovery.go.                                        *)
(*                                                                         *)
(* Browse sends hints (ID and address) to collectHints, which keeps the    *)
(* last address of every peer for ever.  pollPeers fetches /api/state from *)
(* each of those addresses, one after the other, and upserts what it gets; *)
(* another loop prunes what is older than two StaleAfter.  The agent's own *)
(* entry, which refreshSelf alone writes, is left out.                     *)
(*                                                                         *)
(* Time is counted in ticks, ages and timers are integers, and Tick waits  *)
(* for what is due: a loop whose ticker has fired, a fetch at its timeout. *)
(* The peers come, go and change address and pool as they like.            *)
(***************************************************************************)
EXTENDS Integers, FiniteSets

CONSTANTS
  Peers,         \* the other nodes, by ID
  Watched,       \* the peer the history variables are about, one like any other
  Addrs,         \* host:port pairs peers can have; never the agent's own
  Pool,          \* a.cfg.Pool
  PoolNames,     \* the pools peers can be started with
  None,          \* no address, no entry, no fetch
  StaleAfter,    \* scheduler.StaleAfter, in ticks
  PollEvery,     \* the ticker of pollPeers
  FetchTimeout,  \* the timeout of its http.Client
  PruneEvery     \* the ticker of the prune loop

ASSUME PeersAssumption == IsFiniteSet(Peers) /\ Watched \in Peers
ASSUME PoolAssumption  == None \notin Addrs /\ Pool \in PoolNames
ASSUME TimesAssumption == {StaleAfter, PollEvery, FetchTimeout, PruneEvery} \subseteq Nat \ {0}
\* Both are three seconds.
ASSUME PollAssumption  == PollEvery <= FetchTimeout

TTL    == 2 * StaleAfter
MaxAge == TTL + PruneEvery

VARIABLES
  where,      \* the address each peer listens on, None while it is off
  pool,       \* the pool it was started with
  hint,       \* the hint in the channel, if any
  addrs,      \* Agent.addrs: the last address hinted of each peer
  reg,        \* Registry.nodes of the peers: [addr, pool, age], or None
  todo,       \* what the round of pollPeers has still to fetch: <<id, addr>>
  fetch,      \* the fetch under way: [addr, age, reply]
  pollTimer,  \* ticks since the ticker of pollPeers fired, up to PollEvery
  pruneTimer, \* ticks since the prune loop ran
  gone,       \* ticks since Watched was at the address its entry gives
  steady      \* ticks Watched has spent at the address hinted of it

vars == <<where, pool, hint, addrs, reg, todo, fetch, pollTimer, pruneTimer, gone, steady>>
world == <<where, pool>>

Known == {p \in Peers : addrs[p] # None}

\* pollPeers is sequential: in the worst case a live peer is fetched first in
\* one round and last in the next, behind addresses that do not answer.
Lag == 2 * Cardinality(Peers) * FetchTimeout

\* History counters stop where no property looks any further.
MaxGone   == MaxAge + FetchTimeout + 1
MaxSteady == Lag + 1
Reply     == [id : Peers, pool : PoolNames, gone : 0..FetchTimeout]

\* None is neither an entry, nor a fetch, nor a reply.
ASSUME NoneAssumption ==
  /\ None \notin [addr : Addrs, pool : PoolNames, age : Nat]
  /\ LET replies == [id : Peers, pool : PoolNames, gone : Nat] IN
       None \notin replies \cup [addr : Addrs, age : Nat, reply : {None} \cup replies]

\* The types; a peer's entry never outlives its time to live by more than a round
\* of the prune loop.
TypeOK ==
  /\ where \in [Peers -> Addrs \cup {None}] /\ pool \in [Peers -> PoolNames]
  /\ hint = None \/ hint \in [id : Peers, addr : Addrs]
  /\ addrs \in [Peers -> Addrs \cup {None}]
  /\ reg \in [Peers -> {None} \cup [addr : Addrs, pool : PoolNames, age : 0..MaxAge]]
  /\ todo \subseteq Peers \X Addrs
  /\ fetch \in {None} \cup [addr : Addrs, age : 0..FetchTimeout, reply : {None} \cup Reply]
  /\ pollTimer \in 0..PollEvery /\ pruneTimer \in 0..PruneEvery
  /\ gone \in 0..MaxGone /\ steady \in 0..MaxSteady

Init ==
  /\ where = [p \in Peers |-> None] /\ pool = [p \in Peers |-> Pool]
  /\ hint = None /\ addrs = [p \in Peers |-> None]
  /\ reg = [p \in Peers |-> None]
  /\ todo = {} /\ fetch = None
  /\ pollTimer = 0 /\ pruneTimer = 0
  /\ gone = 0 /\ steady = 0

-----------------------------------------------------------------------------
(***************************************************************************)
(* Faulty variants.  Nothing below uses them: each stands for a slip in    *)
(* the code, and shows that the property named with it would notice.       *)
(***************************************************************************)

\* A round skips the peers the registry already has (LivePeerIsFresh).
StartRoundNew ==
  /\ fetch = None /\ todo = {} /\ pollTimer = PollEvery
  /\ todo' = {<<p, addrs[p]>> : p \in {q \in Known : reg[q] = None}} /\ pollTimer' = 0
  /\ UNCHANGED <<world, hint, addrs, reg, fetch, pruneTimer, gone, steady>>

\* A failed fetch touches the entry of the peer all the same (OnlineWasThere).
FetchFailsTouching ==
  /\ fetch # None /\ ~\E p \in Peers : where[p] = fetch.addr
  /\ fetch' = None
  /\ reg' = [p \in Peers |-> IF reg[p] # None /\ reg[p].addr = fetch.addr
                             THEN [reg[p] EXCEPT !.age = 0] ELSE reg[p]]
  /\ UNCHANGED <<world, hint, addrs, todo, pollTimer, pruneTimer, gone, steady>>

\* Prune keeps what is still in addrs (TypeOK), or what was fetched from an
\* address that still answers (DepartedIsPruned).
PruneExpired(expired) ==
  /\ pruneTimer = PruneEvery /\ pruneTimer' = 0
  /\ reg' = [p \in Peers |-> IF p \in expired THEN None ELSE reg[p]]
  /\ UNCHANGED <<world, hint, addrs, todo, fetch, pollTimer, gone, steady>>

Expired      == {p \in Peers : reg[p] # None /\ reg[p].age > TTL}
PruneUnknown == PruneExpired(Expired \ Known)
PruneSilent  == PruneExpired({p \in Expired : ~\E q \in Peers : where[q] = reg[p].addr})

-----------------------------------------------------------------------------
(***************************************************************************)
(* Discovery                                                               *)
(***************************************************************************)

\* Browse finds a peer that answers mDNS queries and is of this pool.
Browse(p) ==
  /\ hint = None
  /\ where[p] # None /\ pool[p] = Pool
  /\ hint' = [id |-> p, addr |-> where[p]]
  /\ UNCHANGED <<world, addrs, reg, todo, fetch, pollTimer, pruneTimer, gone, steady>>

\* A hint of another address than the one known starts steady again.
collectHints ==
  /\ hint # None
  /\ addrs' = [addrs EXCEPT ![hint.id] = hint.addr]
  /\ steady' = IF hint.id = Watched /\ addrs[Watched] # hint.addr THEN 0 ELSE steady
  /\ hint' = None
  /\ UNCHANGED <<world, reg, todo, fetch, pollTimer, pruneTimer, gone>>

-----------------------------------------------------------------------------
(***************************************************************************)
(* pollPeers                                                               *)
(***************************************************************************)

\* The ticker has fired and the loop is free: copy addrs under addrsMu.
StartRound ==
  /\ fetch = None /\ todo = {} /\ pollTimer = PollEvery
  /\ todo' = {<<p, addrs[p]>> : p \in Known} /\ pollTimer' = 0
  /\ UNCHANGED <<world, hint, addrs, reg, fetch, pruneTimer, gone, steady>>

\* The next GET /api/state; a Go map is ranged over in no particular order.
StartFetch ==
  /\ fetch = None
  /\ \E t \in todo : /\ fetch' = [addr |-> t[2], age |-> 0, reply |-> None]
                     /\ todo' = todo \ {t}
  /\ UNCHANGED <<world, hint, addrs, reg, pollTimer, pruneTimer, gone, steady>>

\* handleState of whichever peer has the address by now.
Answer(p) ==
  /\ fetch # None /\ fetch.reply = None /\ where[p] = fetch.addr
  /\ fetch' = [fetch EXCEPT !.reply = [id |-> p, pool |-> pool[p], gone |-> 0]]
  /\ UNCHANGED <<world, hint, addrs, reg, todo, pollTimer, pruneTimer, gone, steady>>

\* Upsert: stored under the ID in the reply, with the address it came from and
\* the present time.
Upsert ==
  /\ fetch # None /\ fetch.reply # None
  /\ LET st == fetch.reply IN
       /\ reg' = [reg EXCEPT ![st.id] = [addr |-> fetch.addr, pool |-> st.pool, age |-> 0]]
       /\ gone' = IF st.id = Watched THEN st.gone ELSE gone
  /\ fetch' = None
  /\ UNCHANGED <<world, hint, addrs, todo, pollTimer, pruneTimer, steady>>

\* Refused, timed out, or broken off: nobody is at the address (any more).
FetchFails ==
  /\ fetch # None /\ ~\E p \in Peers : where[p] = fetch.addr
  /\ fetch' = None
  /\ UNCHANGED <<world, hint, addrs, reg, todo, pollTimer, pruneTimer, gone, steady>>

-----------------------------------------------------------------------------
(***************************************************************************)
(* The prune loop                                                          *)
(***************************************************************************)
Prune ==
  /\ pruneTimer = PruneEvery /\ pruneTimer' = 0
  /\ reg' = [p \in Peers |-> IF reg[p] # None /\ reg[p].age > TTL THEN None ELSE reg[p]]
  /\ UNCHANGED <<world, hint, addrs, todo, fetch, pollTimer, gone, steady>>

-----------------------------------------------------------------------------
(***************************************************************************)
(* The peers and the clock                                                 *)
(***************************************************************************)

\* A peer appears, or restarts: at an address nobody has, in some pool.
Join(p, a, q) ==
  /\ a \notin {where[n] : n \in Peers}
  /\ where' = [where EXCEPT ![p] = a] /\ pool' = [pool EXCEPT ![p] = q]
  /\ gone' = IF p = Watched /\ reg[p] # None /\ reg[p].addr = a THEN 0 ELSE gone
  /\ steady' = IF p = Watched THEN 0 ELSE steady
  /\ UNCHANGED <<hint, addrs, reg, todo, fetch, pollTimer, pruneTimer>>

\* A lid closes.
Leave(p) ==
  /\ where[p] # None
  /\ where' = [where EXCEPT ![p] = None]
  /\ steady' = IF p = Watched THEN 0 ELSE steady
  /\ UNCHANGED <<pool, hint, addrs, reg, todo, fetch, pollTimer, pruneTimer, gone>>

\* What does not wait for the clock: a hint in the channel, a round that is due
\* or under way, a fetch at its timeout, a pruning that is due.
Due ==
  \/ hint # None
  \/ fetch = None /\ (todo # {} \/ pollTimer = PollEvery)
  \/ fetch # None /\ fetch.age = FetchTimeout
  \/ pruneTimer = PruneEvery

Next1(k, most) == IF k < most THEN k + 1 ELSE k
At(p, a)       == where[p] = a

Tick ==
  /\ ~Due
  /\ reg' = [p \in Peers |-> IF reg[p] = None THEN None ELSE [reg[p] EXCEPT !.age = @ + 1]]
  /\ fetch' = IF fetch = None THEN None
              ELSE IF fetch.reply = None \/ fetch.reply.id # Watched \/ At(Watched, fetch.addr)
                   THEN [fetch EXCEPT !.age = @ + 1]
                   ELSE [fetch EXCEPT !.age = @ + 1, !.reply.gone = @ + 1]
  /\ pollTimer' = Next1(pollTimer, PollEvery) /\ pruneTimer' = pruneTimer + 1
  /\ gone' = IF reg[Watched] = None \/ At(Watched, reg[Watched].addr) THEN 0
             ELSE Next1(gone, MaxGone)
  /\ steady' = IF where[Watched] # None /\ addrs[Watched] = where[Watched]
               THEN Next1(steady, MaxSteady) ELSE 0
  /\ UNCHANGED <<world, hint, addrs, todo>>

Next ==
  \/ collectHints \/ StartRound \/ StartFetch \/ Upsert \/ FetchFails
  \/ Prune \/ Tick
  \/ \E p \in Peers :
       \/ Browse(p) \/ Answer(p) \/ Leave(p)
       \/ \E a \in Addrs, q \in PoolNames : Join(p, a, q)

Spec == Init /\ [][Next]_vars

-----------------------------------------------------------------------------
(***************************************************************************)
(* Properties                                                              *)
(***************************************************************************)

\* time.Since(UpdatedAt) < StaleAfter: what eligible and handlePool go by.
Online(p) == reg[p] # None /\ reg[p].age < StaleAfter

\* A peer that stays at the address hinted of it is in the registry, under that
\* address, and no older than the longest distance between two polls of it.  Only
\* where that is longer than an entry lives may it be missing, pruned in between.
LivePeerIsFresh ==
  steady > Lag =>
    LET entry == reg[Watched] IN
    \/ entry # None /\ entry.addr = where[Watched] /\ entry.age <= Lag
    \/ entry = None /\ TTL < Lag

\* The scheduler forgets a closed lid: a peer listed as online was at the address
\* listed less than StaleAfter and one fetch ago (with the code's values 20 s and
\* 3 s), although Upsert stamps a reply when it arrives, whatever happened to its
\* sender since.
OnlineWasThere ==
  Online(Watched) => gone < StaleAfter + FetchTimeout

\* The registry forgets it too, however many rounds go on polling the address it
\* had: a peer that has gone, or moved to an address nobody polls, is listed no
\* longer than two StaleAfter, a round of the prune loop and a fetch (with the
\* code's values 40 s, 5 s and 3 s, where README.md:69 has "within ~20 s").
DepartedIsPruned ==
  reg[Watched] # None => gone <= MaxAge + FetchTimeout
=============================================================================
