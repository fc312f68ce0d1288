------------------------------- MODULE Sporks -------------------------------
(***************************************************************************)
(* CSporkManager (src/src/spork.cpp): signed settings that the spork       *)
(* signers spread over the network.  The newest message of every signer    *)
(* counts as its vote; the value of a spork is the one that nMinSporkKeys   *)
(* of the signers vote for.  Two caches answer most queries: the value,    *)
(* filled under cs, and "active", filled after cs has been released.       *)
(* One spork is modelled, every map being keyed by the spork's id.         *)
(***************************************************************************)
EXTENDS Integers, FiniteSets

CONSTANTS
  Nodes,        \* nodes of a test chain (the main chain hardens every spork)
  Signers,      \* keys that sign, or once signed, spork messages
  KeySets,      \* the sets of spork addresses a node can be started with
  MinKeys,      \* -minsporkkeys that goes with each set
  KeyOf,        \* the -sporkkey of each node, or None
  Readers,      \* threads that ask IsSporkActive
  HomeOf,       \* the node each of them runs on
  Values,       \* values the signers choose
  Default,      \* defaultValue of the spork
  MaxTime,      \* bound: the clock stops there
  MaxMessages,  \* bound: messages signed in a behaviour
  MaxRestarts,  \* bound: restarts in a behaviour
  None

Messages == [signer : Signers, value : Values, time : 0 .. MaxTime]

ASSUME SporkAssumption ==
  /\ Values \subseteq Int /\ Default \in Int
  /\ MaxTime \in Nat /\ MaxMessages \in Nat /\ MaxRestarts \in Nat
  /\ KeyOf \in [Nodes -> Signers \cup {None}] /\ None \notin Signers
  /\ HomeOf \in [Readers -> Nodes]
  /\ KeySets \subseteq SUBSET Signers

\* SetMinSporkKeys: more than half of the signers, or the node does not start.
ASSUME MajorityAssumption ==
  \A K \in KeySets : /\ IsFiniteSet(K)
                     /\ MinKeys[K] \in Nat /\ 2 * MinKeys[K] > Cardinality(K)

VARIABLES
  now,          \* GetAdjustedTime of the nodes
  keys,         \* setSporkPubKeyIDs of each node
  active,       \* mapSporksActive[id]: a message for each signer heard of
  byHash,       \* mapSporksByHash: what the node can send to its peers
  valueCache,   \* mapSporksCachedValues[id], {} when absent
  activeCache,  \* mapSporksCachedActive[id]
  reading,      \* the value a thread holds between GetSporkValue and the cache
  stored,       \* sporks.dat of each node
  restarts,     \* restarts so far
  signed,       \* history: every message signed
  overtaken     \* history: a message was taken while a thread held a value

vars == <<now, keys, active, byHash, valueCache, activeCache, reading, stored,
          restarts, signed, overtaken>>

-----------------------------------------------------------------------------
OfSigner(M, s) == {m \in M : m.signer = s}

\* mapValueCounts: the signers that vote for v.
Voters(n, v) == {s \in Signers : \E m \in active[n] : m.signer = s /\ m.value = v}

Majority(n) == {v \in Values : Cardinality(Voters(n, v)) >= MinKeys[keys[n]]}

\* SporkValueIfActive: nothing, or one value.
SporkValueIfActive(n) ==
  IF active[n] = {} THEN {} ELSE IF valueCache[n] # {} THEN valueCache[n] ELSE Majority(n)

\* Mutant: what was stored is taken as it is.
CheckNothing(M, K) == M

\* CheckAndRemove: what is loaded must be signed by a current signer.
CheckAndRemove(M, K) == {m \in M : m.signer \in K}

\* Mutant: the former message of the signer stays.
ReplaceNothing(M, m) == M \cup {m}

\* mapSporksActive[id][signer] = m: one message for each signer.
Replace(M, m) == (M \ OfSigner(M, m.signer)) \cup {m}

\* Mutants: one of the two caches is forgotten.
ClearOnlyActive(n) ==
  /\ activeCache' = [activeCache EXCEPT ![n] = FALSE]
  /\ UNCHANGED valueCache
ClearOnlyValue(n) ==
  /\ valueCache' = [valueCache EXCEPT ![n] = {}]
  /\ UNCHANGED activeCache

\* What is cached is dropped when a message is entered.
ClearCaches(n) ==
  /\ valueCache' = [valueCache EXCEPT ![n] = {}]
  /\ activeCache' = [activeCache EXCEPT ![n] = FALSE]

\* The tail of ProcessSpork and of UpdateSpork, under cs.
Enter(n, m) ==
  /\ byHash' = [byHash EXCEPT ![n] = @ \cup {m}]
  /\ active' = [active EXCEPT ![n] = Replace(@, m)]
  /\ ClearCaches(n)
  /\ overtaken' = [overtaken EXCEPT ![n] = \E r \in Readers : HomeOf[r] = n /\ reading[r] # {}]
  /\ UNCHANGED <<keys, reading, stored, restarts>>

-----------------------------------------------------------------------------
NothingStored == [active |-> {}, byHash |-> {}]

Init ==
  /\ now = 0
  /\ keys \in [Nodes -> KeySets]
  /\ active = [n \in Nodes |-> {}] /\ byHash = [n \in Nodes |-> {}]
  /\ valueCache = [n \in Nodes |-> {}] /\ activeCache = [n \in Nodes |-> FALSE]
  /\ reading = [r \in Readers |-> {}]
  /\ stored = [n \in Nodes |-> NothingStored]
  /\ restarts = 0 /\ signed = {} /\ overtaken = [n \in Nodes |-> FALSE]

Tick ==
  /\ now < MaxTime /\ now' = now + 1
  /\ UNCHANGED <<keys, active, byHash, valueCache, activeCache, reading, stored,
                 restarts, signed, overtaken>>

\* UpdateSpork, by the sporkupdate command: signed with the present time and
\* entered without a look at the time of the signer's former message.
UpdateSpork(n, v) ==
  LET m == [signer |-> KeyOf[n], value |-> v, time |-> now] IN
  /\ KeyOf[n] \in keys[n]
  /\ Cardinality(signed \cup {m}) <= MaxMessages
  /\ signed' = signed \cup {m}
  /\ Enter(n, m)
  /\ UNCHANGED now

\* Mutant: the first message of a signer is kept for good.
FirstOnly(n, m) == OfSigner(active[n], m.signer) = {}

\* ProcessSpork: a message not newer than the signer's former one is "seen".  None is
\* signed in the future, as nodes share a clock.
Newer(n, m) == \A old \in OfSigner(active[n], m.signer) : old.time < m.time

ProcessSpork(n, m) ==
  /\ m.signer \in keys[n]
  /\ Newer(n, m)
  /\ Enter(n, m)
  /\ UNCHANGED <<now, signed>>

\* A message comes from a peer that has it: announced and fetched by hash, or
\* pushed in answer to GETSPORKS.
Receive(n) == \E k \in Nodes : \E m \in byHash[k] : ProcessSpork(n, m)

\* IsSporkActive finds no cached "active" and calls GetSporkValue, which runs
\* under cs and caches the value of a majority.
GetSporkValue(r) ==
  LET n == HomeOf[r]
      some == SporkValueIfActive(n) IN
  /\ reading[r] = {} /\ ~activeCache[n]
  /\ \E v \in IF some = {} THEN {Default} ELSE some :
       /\ reading' = [reading EXCEPT ![r] = {v}]
       /\ valueCache' = [valueCache EXCEPT ![n] = IF some = {} THEN @ ELSE {v}]
  /\ UNCHANGED <<now, keys, active, byHash, activeCache, stored, restarts, signed, overtaken>>

\* The end of IsSporkActive, under cs_cache: only "active" is cached.
CacheActive(r) ==
  /\ reading[r] # {}
  /\ activeCache' = [activeCache EXCEPT ![HomeOf[r]] = @ \/ \E v \in reading[r] : v < now]
  /\ reading' = [reading EXCEPT ![r] = {}]
  /\ UNCHANGED <<now, keys, active, byHash, valueCache, stored, restarts, signed, overtaken>>

\* A node stops, by shutdown (the destructor writes sporks.dat) or a crash,
\* and starts again, possibly with other -sporkaddr: LoadCache, CheckAndRemove.
Restart(n, K, clean) ==
  LET file == IF clean THEN [active |-> active[n], byHash |-> byHash[n]] ELSE stored[n] IN
  /\ restarts < MaxRestarts /\ restarts' = restarts + 1
  /\ keys' = [keys EXCEPT ![n] = K]
  /\ stored' = [stored EXCEPT ![n] = file]
  /\ active' = [active EXCEPT ![n] = CheckAndRemove(file.active, K)]
  /\ byHash' = [byHash EXCEPT ![n] = CheckAndRemove(file.byHash, K)]
  /\ valueCache' = [valueCache EXCEPT ![n] = {}]
  /\ activeCache' = [activeCache EXCEPT ![n] = FALSE]
  /\ reading' = [r \in Readers |-> IF HomeOf[r] = n THEN {} ELSE reading[r]]
  /\ overtaken' = [overtaken EXCEPT ![n] = FALSE]
  /\ UNCHANGED <<now, signed>>

Next ==
  \/ Tick
  \/ \E n \in Nodes : \/ \E v \in Values : UpdateSpork(n, v)
                      \/ Receive(n)
                      \/ \E K \in KeySets, clean \in BOOLEAN : Restart(n, K, clean)
  \/ \E r \in Readers : GetSporkValue(r) \/ CacheActive(r)

Spec == Init /\ [][Next]_vars

\* Every node sooner or later receives what a peer holds: new messages are
\* announced to all peers, and a starting node asks each peer (GETSPORKS).
Catch(n, s) == \E k \in Nodes : \E m \in OfSigner(active[k], s) : ProcessSpork(n, m)
Fairness == \A n \in Nodes, s \in Signers : WF_vars(Catch(n, s))
FairSpec == Spec /\ Fairness

-----------------------------------------------------------------------------
\* What the node would answer without its caches.
TrueValues(n) == IF active[n] = {} \/ Majority(n) = {} THEN {Default} ELSE Majority(n)

\* Every message is in its place: a signer has one vote on a node, in memory
\* and in sporks.dat, and only signers of the node's own set have one there.
OneEach(M) == \A a, b \in M : a.signer = b.signer => a = b
TypeOK ==
  /\ now \in 0 .. MaxTime /\ restarts \in 0 .. MaxRestarts
  /\ keys \in [Nodes -> KeySets]
  /\ active \in [Nodes -> SUBSET Messages] /\ byHash \in [Nodes -> SUBSET Messages]
  /\ signed \subseteq Messages
  /\ valueCache \in [Nodes -> SUBSET Values]
  /\ activeCache \in [Nodes -> BOOLEAN] /\ overtaken \in [Nodes -> BOOLEAN]
  /\ reading \in [Readers -> SUBSET (Values \cup {Default})]
  /\ stored \in [Nodes -> [active : SUBSET Messages, byHash : SUBSET Messages]]
  /\ \A n \in Nodes : OneEach(active[n]) /\ OneEach(stored[n].active)

\* "there is only one such value and we can stop here" (SporkValueIfActive):
\* also after a restart with other signers at most one value has a majority.
OneMajority ==
  \A n \in Nodes : \A v, w \in Majority(n) : v = w

\* The cached value is the one the votes on the node give, whichever messages,
\* queries and restarts came in between.
CachedValueIsMajority ==
  \A n \in Nodes : valueCache[n] \subseteq Majority(n)

\* A spork that is cached as active is active, unless a message was taken while
\* a thread was between GetSporkValue and the cache of IsSporkActive.
OnlyOvertakenGoStale ==
  \A n \in Nodes : activeCache[n] /\ ~overtaken[n] => \A v \in TrueValues(n) : v < now

\* When nodes have the same signers, and no signer signs twice in a second, all
\* nodes come to the same votes, whatever was lost in crashes or came out of order.
NoTies == \A a, b \in signed : a.signer = b.signer /\ a.time = b.time => a = b
SameKeys == \A n, k \in Nodes : keys[n] = keys[k]
Agree == \A n, k \in Nodes : active[n] = active[k]
EventuallyAgree == []NoTies /\ <>[]SameKeys => <>[]Agree

=============================================================================
