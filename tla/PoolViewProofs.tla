---------------------------- MODULE PoolViewProofs ----------------------------
(***************************************************************************)
(* Proofs about PoolView, for any number of peers and addresses and any    *)
(* tickers and timeouts.                                                   *)
(***************************************************************************)
EXTENDS PoolView, FiniteSetTheorems, TLAPS

\* An entry gets older with the prune loop's timer, and what it says was true as long
\* before it was stamped as the fetch has taken.
Ages ==
  /\ \A p \in Peers : reg[p] # None => reg[p].age <= TTL + pruneTimer
  /\ reg[Watched] # None => gone <= reg[Watched].age + FetchTimeout
  /\ fetch # None /\ fetch.reply # None => fetch.reply.gone <= fetch.age

Inv == TypeOK /\ Ages

LEMMA Natural ==
  /\ StaleAfter \in Nat \ {0} /\ PollEvery \in Nat \ {0} /\ FetchTimeout \in Nat \ {0}
  /\ PruneEvery \in Nat \ {0} /\ TTL \in Nat /\ MaxAge \in Nat /\ MaxGone \in Nat
  /\ MaxAge = TTL + PruneEvery /\ MaxGone = MaxAge + FetchTimeout + 1 /\ MaxSteady \in Nat
<1>1. Cardinality(Peers) \in Nat
  BY PeersAssumption, FS_CardinalityType
<1>2. {StaleAfter, PollEvery, FetchTimeout, PruneEvery} \subseteq Nat \ {0}
  BY TimesAssumption
<1> QED
  BY <1>1, <1>2 DEF TTL, MaxAge, MaxGone, MaxSteady, Lag

LEMMA InitInv == Init => Inv
BY Natural, PoolAssumption, PeersAssumption DEF Init, Inv, TypeOK, Ages

LEMMA Next1Type == ASSUME NEW m \in Nat, NEW k \in 0..m PROVE Next1(k, m) \in 0..m
BY DEF Next1

LEMMA InvStep == Inv /\ [Next]_vars => Inv'
<1> SUFFICES ASSUME Inv, [Next]_vars PROVE Inv'
  OBVIOUS
<1> USE Natural, PoolAssumption, PeersAssumption DEF Inv, TypeOK, Ages
<1>1. CASE collectHints
  BY <1>1 DEF collectHints, world
<1>2. CASE StartRound
  BY <1>2 DEF StartRound, Known, world
<1>3. CASE StartFetch
  BY <1>3 DEF StartFetch, world
<1>4. CASE Upsert
  BY <1>4 DEF Upsert, Reply, world
<1>5. CASE FetchFails
  BY <1>5 DEF FetchFails, world
<1>6. CASE Prune
  BY <1>6 DEF Prune, world
<1>7. CASE Tick
  <2>1. pruneTimer < PruneEvery /\ pruneTimer' = pruneTimer + 1
    BY <1>7 DEF Tick, Due
  <2>2. ASSUME NEW p \in Peers
        PROVE  /\ reg'[p] \in {None} \cup [addr : Addrs, pool : PoolNames, age : 0..MaxAge]
               /\ reg'[p] # None => /\ reg[p] # None /\ reg'[p].age = reg[p].age + 1
                                    /\ reg'[p].age <= TTL + pruneTimer'
    <3>1. reg'[p] = IF reg[p] = None THEN None ELSE [reg[p] EXCEPT !.age = reg[p].age + 1]
      BY <1>7 DEF Tick
    <3>2. reg[p] # None => reg[p].age + 1 \in 0..MaxAge
      BY <2>1
    <3> QED
      BY <2>1, <3>1, <3>2
  <2>3. reg' \in [Peers -> {None} \cup [addr : Addrs, pool : PoolNames, age : 0..MaxAge]]
    BY <1>7, <2>2 DEF Tick
  <2>4. /\ fetch' \in {None} \cup [addr : Addrs, age : 0..FetchTimeout, reply : {None} \cup Reply]
        /\ fetch' # None /\ fetch'.reply # None => fetch'.reply.gone <= fetch'.age
    <3>1. fetch # None => fetch.age + 1 \in 0..FetchTimeout
      BY <1>7 DEF Tick, Due
    <3>2. CASE fetch' = None
      BY <3>2
    <3>3. CASE fetch # None /\ fetch' = [fetch EXCEPT !.age = fetch.age + 1]
      BY <3>1, <3>3 DEF Reply
    <3>4. CASE /\ fetch # None /\ fetch.reply # None
               /\ fetch' = [fetch EXCEPT !.age = @ + 1, !.reply.gone = @ + 1]
      <4> DEFINE reply == [fetch.reply EXCEPT !.gone = fetch.reply.gone + 1]
      <4>1. reply \in Reply /\ reply.gone = fetch.reply.gone + 1
        BY <3>1, <3>4 DEF Reply
      <4>2. fetch' = [addr |-> fetch.addr, age |-> fetch.age + 1, reply |-> reply]
        BY <3>4
      <4> HIDE DEF reply
      <4>3. fetch.addr \in Addrs /\ fetch.reply.gone <= fetch.age
        BY <3>4
      <4>4. fetch' \in [addr : Addrs, age : 0..FetchTimeout, reply : Reply]
        BY <3>1, <3>4, <4>1, <4>2, <4>3
      <4>5. fetch'.reply.gone <= fetch'.age
        BY <3>1, <3>4, <4>1, <4>2, <4>3 DEF Reply
      <4> QED
        BY <4>4, <4>5
    <3> QED
      BY <1>7, <3>2, <3>3, <3>4 DEF Tick
  <2>5. pollTimer' \in 0..PollEvery /\ steady' \in 0..MaxSteady
    BY <1>7, Next1Type DEF Tick
  <2>6. gone' \in 0..MaxGone /\ gone' <= gone + 1 /\ (reg[Watched] = None => gone' = 0)
    BY <1>7 DEF Tick, Next1
  <2>7. reg'[Watched] # None => gone' <= reg'[Watched].age + FetchTimeout
    BY <2>2, <2>6
  <2> QED
    BY <1>7, <2>1, <2>2, <2>3, <2>4, <2>5, <2>6, <2>7 DEF Tick, world
<1>8. ASSUME NEW p \in Peers, Browse(p) PROVE Inv'
  BY <1>8 DEF Browse, world
<1>9. ASSUME NEW p \in Peers, Answer(p) PROVE Inv'
  BY <1>9 DEF Answer, Reply, world
<1>10. ASSUME NEW p \in Peers, Leave(p) PROVE Inv'
  BY <1>10 DEF Leave
<1>11. ASSUME NEW p \in Peers, NEW a \in Addrs, NEW q \in PoolNames, Join(p, a, q) PROVE Inv'
  BY <1>11 DEF Join
<1>12. CASE UNCHANGED vars
  BY <1>12 DEF vars, world
<1> QED
  BY <1>1, <1>2, <1>3, <1>4, <1>5, <1>6, <1>7, <1>8, <1>9, <1>10, <1>11, <1>12 DEF Next

LEMMA SpecInv == Spec => []Inv
BY InitInv, InvStep, PTL DEF Spec

\* The types, and that no entry outlives its time to live by more than a round of the
\* prune loop, for any tickers.
THEOREM TypeCorrect == Spec => []TypeOK
<1>1. Inv => TypeOK
  BY DEF Inv
<1> QED
  BY SpecInv, <1>1, PTL

\* A peer listed as online was at its address less than StaleAfter and one fetch ago,
\* whatever addresses are handed over meanwhile and whoever answers at them.
THEOREM OnlinePeerWasThere == Spec => []OnlineWasThere
<1>1. Inv => OnlineWasThere
  BY Natural, PeersAssumption DEF Inv, TypeOK, Ages, OnlineWasThere, Online
<1> QED
  BY SpecInv, <1>1, PTL

\* A peer that has gone leaves the registry, for any number of peers that take over
\* its address.
THEOREM DepartedPeerIsPruned == Spec => []DepartedIsPruned
<1>1. Inv => DepartedIsPruned
  BY Natural, PeersAssumption DEF Inv, TypeOK, Ages, DepartedIsPruned
<1> QED
  BY SpecInv, <1>1, PTL

-----------------------------------------------------------------------------
(***************************************************************************)
(* How fresh the entry of a live peer is                                   *)
(***************************************************************************)

Larger(m, n) == IF m > n THEN m ELSE n

\* A round of pollPeers takes a FetchTimeout per peer at most.
RoundMax == Cardinality(Peers) * FetchTimeout

\* How long a round with these fetches left can still take, and how long it is until the
\* next starts.
LeftOf(t, f)        == FetchTimeout * Cardinality(t)
                         + (IF f = None THEN 0 ELSE FetchTimeout - f.age)
WaitOf(t, f, timer) == Larger(LeftOf(t, f), PollEvery - timer)
Left == LeftOf(todo, fetch)
Wait == WaitOf(todo, fetch, pollTimer)

\* Watched is where its last hint says.
Settled == where[Watched] # None /\ addrs[Watched] = where[Watched]

\* The round under way will still fetch Watched where it is.
Underway ==
  /\ fetch # None /\ fetch.addr = where[Watched]
  /\ fetch.reply = None \/ fetch.reply.id = Watched
Pending == <<Watched, where[Watched]>> \in todo \/ Underway

\* A reply of Watched that comes from where it was before.
Belated ==
  /\ fetch # None /\ fetch.reply # None
  /\ fetch.reply.id = Watched /\ fetch.addr # where[Watched]

\* Watched has been where it is for no longer than n, or its entry is no older, or has
\* been pruned since, which takes longer than TTL.
Within(n) ==
  \/ steady <= n
  \/ reg[Watched] # None /\ reg[Watched].addr = where[Watched] /\ reg[Watched].age <= n
  \/ reg[Watched] = None /\ TTL < n

\* A peer that has settled is fetched in this round or in the next.
Rounds ==
  /\ IsFiniteSet(todo) /\ Left <= RoundMax /\ Wait <= RoundMax
  /\ \A p, q \in Peers : where[p] = where[q] /\ where[p] # None => p = q
  /\ ~Settled => steady = 0
  /\ Settled => /\ IF Pending THEN Within(2 * RoundMax - Left) ELSE Within(RoundMax - Wait)
                /\ Belated => steady <= RoundMax - Wait

\* Who has just settled has its whole time left.
LEMMA WithinAtOnce == ASSUME NEW n \in Nat, steady = 0 PROVE Within(n)
BY DEF Within

LEMMA RoundType ==
  /\ RoundMax \in Nat /\ FetchTimeout <= RoundMax /\ PollEvery <= RoundMax
  /\ Lag = 2 * RoundMax
<1>1. Cardinality(Peers) \in Nat /\ Cardinality(Peers) # 0
  BY PeersAssumption, FS_CardinalityType, FS_EmptySet
<1>2. \A n \in Nat, f \in Nat : n # 0 => n * f \in Nat /\ f <= n * f
  OBVIOUS
<1>3. RoundMax \in Nat /\ FetchTimeout <= RoundMax
  BY <1>1, <1>2, Natural DEF RoundMax
<1>4. 2 * Cardinality(Peers) * FetchTimeout = 2 * (Cardinality(Peers) * FetchTimeout)
  BY <1>1, Natural
<1> QED
  BY <1>3, <1>4, Natural, PollAssumption DEF Lag, RoundMax

\* What a round has left are numbers, and so is the wait.
LEMMA LeftType ==
  ASSUME NEW t, IsFiniteSet(t), NEW f, f = None \/ f.age \in 0..FetchTimeout,
         NEW timer \in 0..PollEvery
  PROVE  /\ LeftOf(t, f) \in Nat /\ WaitOf(t, f, timer) \in Nat
         /\ LeftOf(t, f) <= WaitOf(t, f, timer) /\ PollEvery - timer <= WaitOf(t, f, timer)
         /\ \/ WaitOf(t, f, timer) = LeftOf(t, f)
            \/ WaitOf(t, f, timer) = PollEvery - timer
<1>1. Cardinality(t) \in Nat
  BY FS_CardinalityType
<1>2. \A n \in Nat, m \in Nat : m * n \in Nat
  OBVIOUS
<1>3. FetchTimeout * Cardinality(t) \in Nat
  BY <1>1, <1>2, Natural
<1> QED
  BY <1>3, Natural DEF LeftOf, WaitOf, Larger

LEMMA RoundsInit == Init => Rounds
<1> SUFFICES ASSUME Init PROVE Rounds
  OBVIOUS
<1>1. todo = {} /\ fetch = None /\ pollTimer = 0 /\ where[Watched] = None /\ steady = 0
      /\ \A p \in Peers : where[p] = None
  BY PeersAssumption DEF Init
<1>2. IsFiniteSet(todo) /\ Cardinality(todo) = 0
  BY <1>1, FS_EmptySet
<1>3. Left = 0
  BY <1>1, <1>2, Natural DEF Left, LeftOf
<1> QED
  BY <1>1, <1>2, <1>3, RoundType, Natural DEF Rounds, Wait, WaitOf, Left, Larger, Settled

\* A step that takes no time, moves nobody and loses nothing of Watched.
LEMMA Kept ==
  ASSUME TypeOK, TypeOK', Rounds, IsFiniteSet(todo'),
         Left' <= Left, pollTimer' = pollTimer,
         \A p, q \in Peers : where'[p] = where'[q] /\ where'[p] # None => p = q,
         Settled' = Settled, steady' = steady,
         \A n \in 0..Lag : Within(n) => Within(n)',
         Settled /\ Pending => Pending',
         Settled /\ Belated' => Belated
  PROVE  Rounds'
<1> USE DEF Left, Wait
<1>1. /\ Left \in Nat /\ Left' \in Nat /\ Wait \in Nat /\ Wait' \in Nat /\ Wait' <= Wait
  <2>1. /\ IsFiniteSet(todo) /\ pollTimer \in 0..PollEvery
        /\ fetch = None \/ fetch.age \in 0..FetchTimeout
        /\ fetch' = None \/ fetch'.age \in 0..FetchTimeout
    BY DEF Rounds, TypeOK
  <2>2. /\ Left \in Nat /\ Wait \in Nat /\ Left <= Wait /\ PollEvery - pollTimer <= Wait
        /\ Left' \in Nat /\ Wait' \in Nat
        /\ Wait' = Left' \/ Wait' = PollEvery - pollTimer
    BY <2>1, LeftType
  <2> QED
    BY <2>1, <2>2, Natural
<1>2. Left <= RoundMax /\ Wait <= RoundMax /\ Left' <= RoundMax /\ Wait' <= RoundMax
  BY <1>1, RoundType DEF Rounds
<1>3. ASSUME Settled
      PROVE  /\ IF Pending' THEN Within(2 * RoundMax - Left)' ELSE Within(RoundMax - Wait)'
             /\ Belated' => steady' <= RoundMax - Wait'
  <2>1. CASE Pending'
    <3>1. Within(2 * RoundMax - Left) \/ Within(RoundMax - Wait)
      BY <1>3 DEF Rounds
    <3>2. PICK n \in 0..Lag : Within(n) /\ n <= 2 * RoundMax - Left'
      <4>1. /\ 2 * RoundMax - Left \in 0..Lag /\ RoundMax - Wait \in 0..Lag
            /\ 2 * RoundMax - Left <= 2 * RoundMax - Left'
            /\ RoundMax - Wait <= 2 * RoundMax - Left'
        BY <1>1, <1>2, RoundType
      <4> QED
        BY <3>1, <4>1, Zenon
    <3>3. Within(n)'
      BY <3>2
    <3>4. steady' \in Int /\ (reg'[Watched] # None => reg'[Watched].age \in Int)
      BY Natural, PeersAssumption DEF TypeOK
    <3>5. Within(2 * RoundMax - Left)'
      BY <1>1, <3>2, <3>3, <3>4, RoundType, Natural DEF Within
    <3> QED
      BY <1>1, <1>2, <1>3, <2>1, <3>5, RoundType DEF Rounds, TypeOK
  <2>2. CASE ~Pending'
    <3>1. Within(RoundMax - Wait)
      BY <1>3, <2>2 DEF Rounds
    <3>2. RoundMax - Wait \in 0..Lag
      BY <1>1, <1>2, RoundType
    <3>3. PICK n \in 0..Lag : n = RoundMax - Wait /\ Within(n)
      BY <3>1, <3>2, Zenon
    <3>4. Within(n)' /\ n <= RoundMax - Wait'
      <4>1. Within(n)'
        BY <3>3
      <4> QED
        BY <1>1, <3>3, <4>1, RoundType
    <3>5. steady' \in Int /\ (reg'[Watched] # None => reg'[Watched].age \in Int)
      BY Natural, PeersAssumption DEF TypeOK
    <3>6. Within(RoundMax - Wait)'
      BY <1>1, <3>4, <3>5, RoundType, Natural DEF Within
    <3> QED
      BY <1>1, <1>2, <1>3, <2>2, <3>6, RoundType, Natural DEF Rounds, TypeOK
  <2> QED
    BY <2>1, <2>2
<1>4. ~Settled' => steady' = 0
  BY DEF Rounds
<1> QED
  BY <1>2, <1>3, <1>4 DEF Rounds

\* A step that takes no time and sends Watched away, or brings it, or its hint.
LEMMA Resettled ==
  ASSUME TypeOK, Rounds, UNCHANGED <<todo, fetch, pollTimer>>, steady' = 0,
         \A p, q \in Peers : where'[p] = where'[q] /\ where'[p] # None => p = q
  PROVE  Rounds'
<1> USE DEF Left, Wait
<1>1. /\ IsFiniteSet(todo) /\ pollTimer \in 0..PollEvery
      /\ fetch = None \/ fetch.age \in 0..FetchTimeout
  BY DEF Rounds, TypeOK
<1>2. Left \in Nat /\ Wait \in Nat /\ Left <= RoundMax /\ Wait <= RoundMax
  BY <1>1, LeftType DEF Rounds
<1>3. Left' = Left /\ Wait' = Wait
  OBVIOUS
<1>4. steady' <= 2 * RoundMax - Left /\ steady' <= RoundMax - Wait
  BY <1>2, RoundType
<1> QED
  BY <1>1, <1>2, <1>3, <1>4 DEF Rounds, Within

\* The ticker's round copies the hints: Watched, if settled, is in it.
LEMMA RoundStarts == TypeOK /\ Rounds /\ StartRound => Rounds'
<1> SUFFICES ASSUME TypeOK, Rounds, StartRound PROVE Rounds'
  OBVIOUS
<1> USE DEF Left, Wait
<1>1. /\ fetch = None /\ todo = {} /\ pollTimer = PollEvery /\ pollTimer' = 0 /\ fetch' = None
      /\ todo' = {<<p, addrs[p]>> : p \in Known}
      /\ UNCHANGED <<where, addrs, reg, steady>>
  BY DEF StartRound, world
<1>2. /\ IsFiniteSet(todo') /\ Cardinality(todo') <= Cardinality(Peers)
      /\ Cardinality(todo') \in Nat /\ Cardinality(Peers) \in Nat
  <2>1. IsFiniteSet(Known) /\ Cardinality(Known) <= Cardinality(Peers)
    BY PeersAssumption, FS_Subset DEF Known
  <2>2. IsFiniteSet(todo') /\ Cardinality(todo') <= Cardinality(Known)
    <3>1. [p \in Known |-> <<p, addrs[p]>>] \in Surjection(Known, todo')
      BY <1>1 DEF Surjection
    <3> QED
      BY <2>1, <3>1, FS_Surjection
  <2> QED
    BY <2>1, <2>2, PeersAssumption, FS_CardinalityType
<1>3. Left' \in Nat /\ Left' <= RoundMax
  <2>1. \A m, n, t \in Nat : m <= n => t * m \in Nat /\ t * m <= n * t
    OBVIOUS
  <2>2. Left' = FetchTimeout * Cardinality(todo')
    BY <1>1, <1>2, <2>1, Natural DEF LeftOf
  <2> QED
    BY <1>2, <2>1, <2>2, Natural DEF RoundMax
<1>4. Wait' \in Nat /\ Wait' <= RoundMax
  BY <1>1, <1>3, RoundType, Natural DEF WaitOf, Larger
<1>5. Left = 0 /\ Wait = 0
  <2>1. Cardinality(todo) = 0
    BY <1>1, FS_EmptySet
  <2> QED
    BY <1>1, <2>1, Natural DEF LeftOf, WaitOf, Larger
<1>6. Settled' = Settled /\ ~Belated' /\ ~Pending
  BY <1>1 DEF Settled, Belated, Pending, Underway
<1>7. ASSUME Settled PROVE Pending' /\ Within(2 * RoundMax - Left)'
  <2>1. Watched \in Known
    BY <1>7, PeersAssumption DEF Settled, Known
  <2>2. <<Watched, where'[Watched]>> \in todo'
    BY <1>1, <1>7, <2>1 DEF Settled
  <2>3. Within(RoundMax - 0)
    BY <1>5, <1>6, <1>7 DEF Rounds
  <2>4. RoundMax <= 2 * RoundMax - Left'
    BY <1>3, RoundType
  <2>5. steady \in Nat /\ (reg[Watched] # None => reg[Watched].age \in Nat)
    BY Natural, PeersAssumption DEF TypeOK
  <2>6. Within(2 * RoundMax - Left)'
    BY <1>1, <1>3, <2>3, <2>4, <2>5, RoundType, Natural DEF Within
  <2> QED
    BY <2>2, <2>6 DEF Pending
<1>8. /\ ~Settled => steady = 0
      /\ \A p, q \in Peers : where[p] = where[q] /\ where[p] # None => p = q
  BY DEF Rounds
<1> QED
  BY <1>1, <1>2, <1>3, <1>4, <1>6, <1>7, <1>8 DEF Rounds

\* A tick brings the end of the round nearer, or the next round.
LEMMA RoundTicks == TypeOK /\ TypeOK' /\ Rounds /\ Tick => Rounds'
<1> SUFFICES ASSUME TypeOK, TypeOK', Rounds, Tick PROVE Rounds'
  OBVIOUS
<1> USE DEF Left, Wait
<1>1. UNCHANGED <<where, addrs, todo>>
  BY DEF Tick, world
<1>2. /\ (fetch' = None) = (fetch = None)
      /\ fetch # None => /\ fetch'.age = fetch.age + 1 /\ fetch'.addr = fetch.addr
                         /\ (fetch'.reply = None) = (fetch.reply = None)
                         /\ fetch.reply # None => fetch'.reply.id = fetch.reply.id
  <2>1. CASE fetch = None
    BY <2>1 DEF Tick
  <2>2. CASE fetch # None /\ fetch' = [fetch EXCEPT !.age = fetch.age + 1]
    <3>1. fetch.reply = None \/ fetch.reply \in [id : Peers, pool : PoolNames, gone : Nat]
      BY <2>2 DEF TypeOK, Reply
    <3>2. fetch' = [addr |-> fetch.addr, age |-> fetch.age + 1, reply |-> fetch.reply]
          /\ fetch.addr \in Addrs /\ fetch.age \in Nat
      BY <2>2 DEF TypeOK
    <3> QED
      BY <2>2, <3>1, <3>2, NoneAssumption
  <2>3. CASE /\ fetch # None /\ fetch.reply # None
             /\ fetch' = [fetch EXCEPT !.age = @ + 1, !.reply.gone = @ + 1]
    <3>1. PICK reply : reply = [fetch.reply EXCEPT !.gone = fetch.reply.gone + 1]
      OBVIOUS
    <3>2. /\ fetch.reply \in Reply /\ fetch.addr \in Addrs /\ fetch.age \in 0..FetchTimeout
          /\ fetch' = [addr |-> fetch.addr, age |-> fetch.age + 1, reply |-> reply]
      BY <2>3, <3>1 DEF TypeOK
    <3>3. reply.id = fetch.reply.id
      BY <3>1, <3>2 DEF Reply
    <3>4. reply \in [id : Peers, pool : PoolNames, gone : Nat]
      BY <3>1, <3>2 DEF Reply
    <3>5. reply = fetch'.reply /\ fetch' # None /\ reply # None
      BY <3>2, <3>4, NoneAssumption
    <3> QED
      BY <2>3, <3>2, <3>3, <3>5
  <2> QED
    BY <2>1, <2>2, <2>3 DEF Tick
<1>3. /\ IsFiniteSet(todo) /\ pollTimer \in 0..PollEvery
      /\ fetch = None \/ fetch.age \in 0..FetchTimeout
      /\ fetch' = None \/ fetch'.age \in 0..FetchTimeout
  BY DEF Rounds, TypeOK
<1>4. /\ fetch = None => todo = {} /\ pollTimer < PollEvery
      /\ fetch # None => fetch.age < FetchTimeout
      /\ pollTimer' = IF pollTimer < PollEvery THEN pollTimer + 1 ELSE pollTimer
  <2>1. ~Due /\ pollTimer' = Next1(pollTimer, PollEvery)
    BY DEF Tick
  <2> QED
    BY <1>3, <2>1, Natural DEF Due, Next1
<1>5. /\ Left \in Nat /\ Left' \in Nat
      /\ Left' = IF fetch = None THEN Left ELSE Left - 1
      /\ fetch = None => Left = 0
  <2>1. /\ Cardinality(todo) \in Nat /\ FetchTimeout * Cardinality(todo) \in Nat
        /\ todo = {} => FetchTimeout * Cardinality(todo) = 0
    <3>1. \A m, n \in Nat : m * n \in Nat /\ m * 0 = 0
      OBVIOUS
    <3> QED
      BY <1>3, <3>1, FS_CardinalityType, FS_EmptySet, Natural
  <2>2. CASE fetch = None
    BY <1>1, <1>2, <1>4, <2>1, <2>2 DEF LeftOf
  <2>3. CASE fetch # None
    BY <1>1, <1>2, <1>3, <1>4, <2>1, <2>3, Natural DEF LeftOf
  <2> QED
    BY <2>2, <2>3
<1>6. Wait \in Nat /\ Wait' \in Nat /\ Wait' <= Wait - 1
  BY <1>3, <1>4, <1>5, Natural DEF WaitOf, Larger
<1>7. /\ Left <= RoundMax /\ Wait <= RoundMax /\ Left' <= RoundMax /\ Wait' <= RoundMax
      /\ steady \in Nat /\ steady' \in Nat /\ steady' <= steady + 1
      /\ ~Settled => steady' = 0
  <2>1. Left <= RoundMax /\ Wait <= RoundMax
    BY DEF Rounds
  <2>2. /\ steady \in Nat /\ steady' \in Nat /\ steady' <= steady + 1
        /\ ~Settled => steady' = 0
    BY Natural DEF Tick, Next1, Settled, TypeOK
  <2> QED
    BY <1>5, <1>6, <2>1, <2>2, RoundType
<1>8. Settled' = Settled /\ (Pending <=> Pending') /\ (Belated <=> Belated')
      /\ (Pending => fetch # None)
  BY <1>1, <1>2, <1>4 DEF Settled, Pending, Underway, Belated
<1>9. ASSUME NEW m \in Int, NEW n \in Int, m + 1 <= n, Within(m)
      PROVE  Within(n)'
  <2>1. CASE steady <= m
    BY <1>7, <1>9, <2>1 DEF Within
  <2>2. CASE reg[Watched] # None /\ reg[Watched].addr = where[Watched] /\ reg[Watched].age <= m
    <3>1. reg'[Watched] = [reg[Watched] EXCEPT !.age = reg[Watched].age + 1]
      BY <2>2, PeersAssumption DEF Tick
    <3>2. reg[Watched] \in [addr : Addrs, pool : PoolNames, age : Nat]
      BY <2>2, PeersAssumption, Natural DEF TypeOK
    <3>3. /\ reg'[Watched].addr = where'[Watched] /\ reg'[Watched].age = reg[Watched].age + 1
          /\ reg'[Watched] # None
      BY <1>1, <2>2, <3>1, <3>2, NoneAssumption
    <3> QED
      BY <1>9, <2>2, <3>2, <3>3 DEF Within
  <2>3. CASE reg[Watched] = None /\ TTL < m
    <3>1. reg'[Watched] = None
      BY <2>3, PeersAssumption DEF Tick
    <3> QED
      BY <1>9, <2>3, <3>1, Natural DEF Within
  <2> QED
    BY <1>9, <2>1, <2>2, <2>3 DEF Within
<1>10. ASSUME Settled
       PROVE  /\ IF Pending' THEN Within(2 * RoundMax - Left)' ELSE Within(RoundMax - Wait)'
              /\ Belated' => steady' <= RoundMax - Wait'
  <2>1. CASE Pending
    <3>1. Within(2 * RoundMax - Left) /\ Left' = Left - 1
      BY <1>5, <1>8, <1>10, <2>1 DEF Rounds
    <3>2. /\ 2 * RoundMax - Left \in Int /\ 2 * RoundMax - Left' \in Int
          /\ (2 * RoundMax - Left) + 1 <= 2 * RoundMax - Left'
      BY <1>5, <3>1, RoundType
    <3>3. Within(2 * RoundMax - Left)'
      BY <1>9, <3>1, <3>2
    <3> QED
      BY <1>6, <1>7, <1>8, <1>10, <2>1, <3>3, RoundType DEF Rounds
  <2>2. CASE ~Pending
    <3>1. Within(RoundMax - Wait)
      BY <1>10, <2>2 DEF Rounds
    <3>2. /\ RoundMax - Wait \in Int /\ RoundMax - Wait' \in Int
          /\ (RoundMax - Wait) + 1 <= RoundMax - Wait'
      BY <1>6, RoundType
    <3>3. Within(RoundMax - Wait)'
      BY <1>9, <3>1, <3>2
    <3> QED
      BY <1>6, <1>7, <1>8, <1>10, <2>2, <3>3, RoundType DEF Rounds
  <2> QED
    BY <2>1, <2>2
<1>11. \A p, q \in Peers : where'[p] = where'[q] /\ where'[p] # None => p = q
  BY <1>1 DEF Rounds
<1> QED
  BY <1>1, <1>3, <1>7, <1>8, <1>10, <1>11 DEF Rounds

\* The end of a fetch, with or without an answer, leaves the round less to do.
LEMMA FetchEnds ==
  ASSUME TypeOK, Rounds, fetch # None, fetch' = None, UNCHANGED <<todo, pollTimer>>
  PROVE  /\ LeftOf(todo', fetch') <= LeftOf(todo, fetch)
         /\ WaitOf(todo', fetch', pollTimer') <= WaitOf(todo, fetch, pollTimer)
<1>1. IsFiniteSet(todo) /\ pollTimer \in 0..PollEvery /\ fetch.age \in 0..FetchTimeout
  BY DEF Rounds, TypeOK
<1>2. FetchTimeout * Cardinality(todo) \in Nat
  <2>1. Cardinality(todo) \in Nat
    BY <1>1, FS_CardinalityType
  <2>2. \A m, n \in Nat : m * n \in Nat
    OBVIOUS
  <2> QED
    BY <2>1, <2>2, Natural
<1>3. LeftOf(todo', fetch') <= LeftOf(todo, fetch)
  BY <1>1, <1>2, Natural DEF LeftOf
<1> QED
  BY <1>1, <1>2, <1>3, Natural DEF WaitOf, LeftOf, Larger

LEMMA RoundUpserts == TypeOK /\ TypeOK' /\ Rounds /\ Upsert => Rounds'
<1> SUFFICES ASSUME TypeOK, TypeOK', Rounds, Upsert PROVE Rounds'
  OBVIOUS
<1> USE DEF Left, Wait
<1>1. /\ fetch # None /\ fetch.reply # None /\ fetch' = None
      /\ UNCHANGED <<where, addrs, todo, pollTimer, steady>>
      /\ reg' = [reg EXCEPT ![fetch.reply.id] =
                   [addr |-> fetch.addr, pool |-> fetch.reply.pool, age |-> 0]]
      /\ fetch.reply \in Reply /\ fetch.addr \in Addrs
  BY DEF Upsert, world, TypeOK
<1>2. Left' <= Left /\ Wait' <= Wait /\ IsFiniteSet(todo')
  BY <1>1, FetchEnds DEF Rounds
<1>3. Settled' = Settled /\ ~Belated' /\ ~Underway'
  BY <1>1 DEF Settled, Belated, Underway
<1>4. /\ \A p, q \in Peers : where'[p] = where'[q] /\ where'[p] # None => p = q
      /\ ~Settled' => steady' = 0
  BY <1>1, <1>3 DEF Rounds
<1>5. CASE fetch.reply.id # Watched
  <2>1. reg'[Watched] = reg[Watched]
    BY <1>1, <1>5, PeersAssumption DEF TypeOK
  <2>2. \A n \in 0..Lag : Within(n) => Within(n)'
    BY <1>1, <2>1 DEF Within
  <2>3. Pending => Pending'
    BY <1>1, <1>5 DEF Pending, Underway
  <2> QED
    BY <1>1, <1>2, <1>3, <1>4, <2>2, <2>3, Kept
<1>6. CASE fetch.reply.id = Watched
  <2>1. /\ pollTimer \in 0..PollEvery /\ fetch.age \in 0..FetchTimeout /\ IsFiniteSet(todo)
    BY <1>1 DEF TypeOK, Rounds
  <2>2. Left \in Nat /\ Left' \in Nat /\ Wait \in Nat /\ Wait' \in Nat
    BY <1>1, <2>1, LeftType
  <2>3. Left <= RoundMax /\ Wait <= RoundMax /\ Left' <= RoundMax /\ Wait' <= RoundMax
    BY <1>2, <2>2, RoundType DEF Rounds
  <2>4. ASSUME Settled, NEW n \in Nat, RoundMax - Wait <= n PROVE Within(n)'
    <3>1. CASE fetch.addr = where[Watched]
      <4>1. reg'[Watched] = [addr |-> fetch.addr, pool |-> fetch.reply.pool, age |-> 0]
        BY <1>1, <1>6, PeersAssumption DEF TypeOK
      <4>2. reg'[Watched] # None
        BY <1>1, <4>1, NoneAssumption DEF Reply
      <4> QED
        BY <1>1, <3>1, <4>1, <4>2 DEF Within
    <3>2. CASE fetch.addr # where[Watched]
      <4>1. steady <= RoundMax - Wait /\ steady \in Nat
        BY <1>1, <1>6, <2>4, <3>2, Natural DEF Belated, Rounds, TypeOK
      <4>2. steady' <= n
        BY <1>1, <2>2, <2>3, <2>4, <4>1, RoundType
      <4> QED
        BY <4>2 DEF Within
    <3> QED
      BY <3>1, <3>2
  <2>5. ASSUME Settled
        PROVE  Within(2 * RoundMax - Left)' /\ Within(RoundMax - Wait)'
    <3>1. /\ 2 * RoundMax - Left' \in Nat /\ RoundMax - Wait' \in Nat
          /\ RoundMax - Wait <= 2 * RoundMax - Left' /\ RoundMax - Wait <= RoundMax - Wait'
      BY <1>2, <2>2, <2>3, RoundType
    <3> QED
      BY <2>4, <2>5, <3>1
  <2> QED
    BY <1>1, <1>2, <1>3, <1>4, <2>3, <2>5 DEF Rounds
<1> QED
  BY <1>5, <1>6

\* The fetch under way is one of the round's.
LEMMA RoundFetches == TypeOK /\ TypeOK' /\ Rounds /\ StartFetch => Rounds'
<1> SUFFICES ASSUME TypeOK, TypeOK', Rounds, StartFetch PROVE Rounds'
  OBVIOUS
<1> USE DEF Left, Wait
<1>1. PICK t \in todo : /\ fetch = None /\ fetch' = [addr |-> t[2], age |-> 0, reply |-> None]
                        /\ todo' = todo \ {t}
                        /\ UNCHANGED <<where, addrs, reg, pollTimer, steady>>
  BY DEF StartFetch, world
<1>2. IsFiniteSet(todo) /\ t[2] \in Addrs
  BY <1>1 DEF Rounds, TypeOK
<1>3. fetch' # None /\ fetch'.age = 0 /\ fetch'.addr = t[2] /\ fetch'.reply = None
  BY <1>1, <1>2, NoneAssumption
<1>4. IsFiniteSet(todo') /\ Left' <= Left
  <2>1. /\ IsFiniteSet(todo') /\ Cardinality(todo') = Cardinality(todo) - 1
        /\ Cardinality(todo) \in Nat /\ Cardinality(todo') \in Nat
    BY <1>1, <1>2, FS_RemoveElement, FS_CardinalityType
  <2>2. \A m \in Nat, n \in Nat : m * (n - 1) + m = m * n
    OBVIOUS
  <2>3. FetchTimeout * Cardinality(todo') + FetchTimeout = FetchTimeout * Cardinality(todo)
    BY <2>1, <2>2, Natural
  <2>4. \A m \in Nat, n \in Nat : m * n \in Nat
    OBVIOUS
  <2>5. /\ FetchTimeout * Cardinality(todo') \in Nat /\ FetchTimeout * Cardinality(todo) \in Nat
    BY <2>1, <2>4, Natural
  <2> QED
    BY <1>1, <1>3, <2>1, <2>3, <2>5, Natural DEF LeftOf
<1>5. Settled' = Settled /\ ~Belated'
  BY <1>1, <1>3 DEF Settled, Belated
<1>6. ASSUME Pending PROVE Pending'
  <2>1. <<Watched, where[Watched]>> \in todo
    BY <1>1, <1>6 DEF Pending, Underway
  <2>2. CASE t = <<Watched, where[Watched]>>
    BY <1>1, <1>3, <2>2 DEF Pending, Underway
  <2>3. CASE t # <<Watched, where[Watched]>>
    BY <1>1, <2>1, <2>3 DEF Pending
  <2> QED
    BY <2>2, <2>3
<1>7. /\ \A n \in 0..Lag : Within(n) => Within(n)'
      /\ \A p, q \in Peers : where'[p] = where'[q] /\ where'[p] # None => p = q
  BY <1>1 DEF Within, Rounds
<1> QED
  BY <1>1, <1>4, <1>5, <1>6, <1>7, Kept

LEMMA RoundsStep == TypeOK /\ TypeOK' /\ Rounds /\ [Next]_vars => Rounds'
<1> SUFFICES ASSUME TypeOK, TypeOK', Rounds, [Next]_vars PROVE Rounds'
  OBVIOUS
<1>0. /\ IsFiniteSet(todo) /\ Watched \in Peers
      /\ fetch = None \/ fetch.age \in 0..FetchTimeout
      /\ pollTimer \in 0..PollEvery
  BY PeersAssumption DEF Rounds, TypeOK
<1>00. Left <= Left
  BY <1>0, LeftType DEF Left
<1>1. ASSUME UNCHANGED <<where, todo, fetch, pollTimer, steady, addrs>>,
             \A n \in 0..Lag : Within(n) => Within(n)'
      PROVE  Rounds'
  <2>1. Settled' = Settled /\ Belated' = Belated /\ Pending' = Pending /\ Left' = Left
    BY <1>1 DEF Settled, Belated, Pending, Underway, Left
  <2>2. \A p, q \in Peers : where'[p] = where'[q] /\ where'[p] # None => p = q
    BY <1>1 DEF Rounds
  <2> QED
    BY <1>0, <1>00, <1>1, <2>1, <2>2, Kept
<1>2. ASSUME NEW p \in Peers, Browse(p) PROVE Rounds'
  BY <1>1, <1>2 DEF Browse, world, Within
<1>3. CASE collectHints
  <2>1. CASE hint.id = Watched /\ addrs[Watched] # hint.addr
    BY <1>3, <2>1, Resettled DEF collectHints, world, Rounds
  <2>2. CASE ~(hint.id = Watched /\ addrs[Watched] # hint.addr)
    <3>1. addrs'[Watched] = addrs[Watched]
      BY <1>0, <1>3, <2>2 DEF collectHints, TypeOK
    <3>2. UNCHANGED <<where, todo, fetch, pollTimer, steady, reg>>
      BY <1>3, <2>2 DEF collectHints, world
    <3>3. Settled' = Settled /\ Belated' = Belated /\ Pending' = Pending /\ Left' = Left
      BY <3>1, <3>2 DEF Settled, Belated, Pending, Underway, Left
    <3>4. /\ \A n \in 0..Lag : Within(n) => Within(n)'
          /\ \A p, q \in Peers : where'[p] = where'[q] /\ where'[p] # None => p = q
      BY <3>2 DEF Within, Rounds
    <3> QED
      BY <1>0, <1>00, <3>2, <3>3, <3>4, Kept
  <2> QED
    BY <2>1, <2>2
<1>4. ASSUME NEW p \in Peers, Answer(p) PROVE Rounds'
  <2>1. /\ fetch # None /\ fetch.reply = None /\ where[p] = fetch.addr /\ fetch.addr \in Addrs
        /\ fetch' = [fetch EXCEPT !.reply = [id |-> p, pool |-> pool[p], gone |-> 0]]
        /\ UNCHANGED <<where, addrs, reg, todo, pollTimer, steady>>
    BY <1>4 DEF Answer, world, TypeOK
  <2>2. /\ fetch' # None /\ fetch'.reply # None /\ fetch'.reply.id = p
        /\ fetch'.age = fetch.age /\ fetch'.addr = fetch.addr
    <3>1. [id |-> p, pool |-> pool[p], gone |-> 0] \in [id : Peers, pool : PoolNames, gone : Nat]
      BY DEF TypeOK
    <3>2. fetch' = [addr |-> fetch.addr, age |-> fetch.age,
                    reply |-> [id |-> p, pool |-> pool[p], gone |-> 0]]
      BY <2>1 DEF TypeOK
    <3>3. fetch.age \in Nat
      BY <1>0, <2>1, Natural
    <3> QED
      BY <2>1, <3>1, <3>2, <3>3, NoneAssumption
  <2>3. Left' = Left /\ Settled' = Settled
    BY <2>1, <2>2 DEF Left, LeftOf, Settled
  <2>4. Belated' => Belated
    BY <2>1, <2>2 DEF Belated
  <2>5. Settled /\ Pending => Pending'
    <3> SUFFICES ASSUME Settled, Underway PROVE Underway'
      BY <2>1 DEF Pending
    <3>1. where[p] = where[Watched] /\ where[p] # None
      BY <2>1 DEF Underway, Settled
    <3>2. p = Watched
      BY <1>0, <3>1 DEF Rounds
    <3> QED
      BY <2>1, <2>2, <3>2 DEF Underway
  <2>6. /\ \A n \in 0..Lag : Within(n) => Within(n)'
        /\ \A m, n \in Peers : where'[m] = where'[n] /\ where'[m] # None => m = n
    BY <2>1 DEF Within, Rounds
  <2> QED
    BY <1>0, <1>00, <2>1, <2>3, <2>4, <2>5, <2>6, Kept
<1>5. CASE FetchFails
  <2>1. /\ fetch # None /\ fetch' = None /\ \A p \in Peers : where[p] # fetch.addr
        /\ UNCHANGED <<where, addrs, reg, todo, pollTimer, steady>>
    BY <1>5 DEF FetchFails, world
  <2>2. Left' <= Left
    BY <2>1, FetchEnds DEF Left
  <2>3. Settled' = Settled /\ ~Belated' /\ (Pending => Pending')
    BY <1>0, <2>1 DEF Settled, Belated, Pending, Underway
  <2>4. /\ \A n \in 0..Lag : Within(n) => Within(n)'
        /\ \A m, n \in Peers : where'[m] = where'[n] /\ where'[m] # None => m = n
    BY <2>1 DEF Within, Rounds
  <2> QED
    BY <1>0, <2>1, <2>2, <2>3, <2>4, Kept
<1>6. CASE Prune
  <2>1. /\ UNCHANGED <<where, todo, fetch, pollTimer, steady, addrs>>
        /\ reg' = [p \in Peers |-> IF reg[p] # None /\ reg[p].age > TTL THEN None ELSE reg[p]]
    BY <1>6 DEF Prune, world
  <2>2. ASSUME NEW n \in 0..Lag, Within(n) PROVE Within(n)'
    <3>1. CASE steady <= n
      BY <2>1, <3>1 DEF Within
    <3>2. CASE reg[Watched] # None /\ reg[Watched].addr = where[Watched] /\ reg[Watched].age <= n
      <4>1. reg[Watched].age \in Nat
        BY <1>0, <3>2, Natural DEF TypeOK
      <4>2. CASE reg[Watched].age > TTL
        <5>1. reg'[Watched] = None
          BY <1>0, <2>1, <3>2, <4>2
        <5>2. TTL < n
          BY <3>2, <4>1, <4>2, RoundType, Natural
        <5> QED
          BY <5>1, <5>2 DEF Within
      <4>3. CASE ~(reg[Watched].age > TTL)
        <5>1. reg'[Watched] = reg[Watched]
          BY <1>0, <2>1, <4>3
        <5> QED
          BY <2>1, <3>2, <5>1 DEF Within
      <4> QED
        BY <4>2, <4>3
    <3>3. CASE reg[Watched] = None /\ TTL < n
      <4>1. reg'[Watched] = None
        BY <1>0, <2>1, <3>3
      <4> QED
        BY <3>3, <4>1 DEF Within
    <3> QED
      BY <2>2, <3>1, <3>2, <3>3 DEF Within
  <2> QED
    BY <1>1, <2>1, <2>2
<1>7. ASSUME NEW p \in Peers, Leave(p) PROVE Rounds'
  <2>1. /\ where' = [where EXCEPT ![p] = None] /\ where \in [Peers -> Addrs \cup {None}]
        /\ UNCHANGED <<addrs, reg, todo, fetch, pollTimer>>
        /\ steady' = IF p = Watched THEN 0 ELSE steady
    BY <1>7 DEF Leave, TypeOK
  <2>2. \A m, n \in Peers : where'[m] = where'[n] /\ where'[m] # None => m = n
    BY <2>1 DEF Rounds
  <2>3. CASE p = Watched
    BY <2>1, <2>2, <2>3, Resettled
  <2>4. CASE p # Watched
    <3>1. where'[Watched] = where[Watched] /\ steady' = steady
      BY <1>0, <2>1, <2>4
    <3>2. Settled' = Settled /\ Belated' = Belated /\ Pending' = Pending /\ Left' = Left
      BY <2>1, <3>1 DEF Settled, Belated, Pending, Underway, Left
    <3>3. \A n \in 0..Lag : Within(n) => Within(n)'
      BY <2>1, <3>1 DEF Within
    <3> QED
      BY <1>0, <1>00, <2>1, <2>2, <3>1, <3>2, <3>3, Kept
  <2> QED
    BY <2>3, <2>4
<1>8. ASSUME NEW p \in Peers, NEW a \in Addrs, NEW q \in PoolNames, Join(p, a, q)
      PROVE  Rounds'
  <2>1. /\ where' = [where EXCEPT ![p] = a] /\ where \in [Peers -> Addrs \cup {None}]
        /\ \A n \in Peers : where[n] # a
        /\ UNCHANGED <<addrs, reg, todo, fetch, pollTimer>>
        /\ steady' = IF p = Watched THEN 0 ELSE steady
    BY <1>8 DEF Join, TypeOK
  <2>2. \A m, n \in Peers : where'[m] = where'[n] /\ where'[m] # None => m = n
    BY <2>1 DEF Rounds
  <2>3. CASE p = Watched
    BY <2>1, <2>2, <2>3, Resettled
  <2>4. CASE p # Watched
    <3>1. where'[Watched] = where[Watched] /\ steady' = steady
      BY <1>0, <2>1, <2>4
    <3>2. Settled' = Settled /\ Belated' = Belated /\ Pending' = Pending /\ Left' = Left
      BY <2>1, <3>1 DEF Settled, Belated, Pending, Underway, Left
    <3>3. \A n \in 0..Lag : Within(n) => Within(n)'
      BY <2>1, <3>1 DEF Within
    <3> QED
      BY <1>0, <1>00, <2>1, <2>2, <3>1, <3>2, <3>3, Kept
  <2> QED
    BY <2>3, <2>4
<1>9. CASE UNCHANGED vars
  BY <1>1, <1>9 DEF vars, world, Within
<1> QED
  BY <1>2, <1>3, <1>4, <1>5, <1>6, <1>7, <1>8, <1>9, RoundStarts, RoundFetches, RoundUpserts,
     RoundTicks DEF Next

\* In a pool of any size a peer that stays where its last hint says is in the registry,
\* under that address, and its entry is no older than two rounds in which every other
\* peer runs into the timeout; its entry is pruned only where that exceeds TTL.
THEOREM LivePeerStaysFresh == Spec => []LivePeerIsFresh
<1>1. TypeOK /\ Rounds => LivePeerIsFresh
  <2> SUFFICES ASSUME TypeOK, Rounds, steady > Lag
               PROVE  \/ /\ reg[Watched] # None /\ reg[Watched].addr = where[Watched]
                         /\ reg[Watched].age <= Lag
                      \/ reg[Watched] = None /\ TTL < Lag
    BY DEF LivePeerIsFresh
  <2> USE DEF Left, Wait
  <2>1. /\ IsFiniteSet(todo) /\ pollTimer \in 0..PollEvery
        /\ fetch = None \/ fetch.age \in 0..FetchTimeout
        /\ steady \in Nat /\ (reg[Watched] # None => reg[Watched].age \in Nat)
    BY PeersAssumption, Natural DEF Rounds, TypeOK
  <2>2. Left \in Nat /\ Wait \in Nat /\ Left <= RoundMax /\ Wait <= RoundMax
    BY <2>1, LeftType DEF Rounds
  <2>3. Settled
    BY <2>1, RoundType DEF Rounds
  <2>4. CASE Within(2 * RoundMax - Left)
    BY <2>1, <2>2, <2>4, RoundType, Natural DEF Within
  <2>5. CASE Within(RoundMax - Wait)
    BY <2>1, <2>2, <2>5, RoundType, Natural DEF Within
  <2> QED
    BY <2>3, <2>4, <2>5 DEF Rounds
<1>2. TypeOK /\ TypeOK' /\ Rounds /\ [Next]_vars => Rounds'
  BY RoundsStep
<1> QED
  BY RoundsInit, <1>1, <1>2, TypeCorrect, PTL DEF Spec
=============================================================================
