---------------------------- MODULE SporksProofs ----------------------------
(***************************************************************************)
(* For any nodes, signers, key sets with a majority rule, values, threads  *)
(* and bounds: a node never has two majorities, the cached value is the    *)
(* majority's, and only a message taken between the two locks of            *)
(* IsSporkActive can make the cached "active" wrong.                       *)
(***************************************************************************)
EXTENDS Sporks, FiniteSetTheorems, TLAPS

-----------------------------------------------------------------------------
(***************************************************************************)
(* Types.                                                                  *)
(***************************************************************************)

LEMMA OneEachReplaced ==
  ASSUME NEW M \in SUBSET Messages, NEW m \in Messages, OneEach(M)
  PROVE  /\ Replace(M, m) \in SUBSET Messages
         /\ OneEach(Replace(M, m))
  BY DEF OneEach, Replace, OfSigner

LEMMA OneEachSubset ==
  ASSUME NEW M, NEW N \in SUBSET M, OneEach(M)
  PROVE  OneEach(N)
  BY DEF OneEach

LEMMA EnterType ==
  ASSUME TypeOK, NEW n \in Nodes, NEW m \in Messages, Enter(n, m),
         now' = now, signed' \subseteq Messages
  PROVE  TypeOK'
  <1>1. Replace(active[n], m) \in SUBSET Messages /\ OneEach(Replace(active[n], m))
    BY OneEachReplaced DEF TypeOK
  <1>2. active' \in [Nodes -> SUBSET Messages] /\ byHash' \in [Nodes -> SUBSET Messages]
    BY <1>1 DEF TypeOK, Enter
  <1>3. valueCache' \in [Nodes -> SUBSET Values] /\ activeCache' \in [Nodes -> BOOLEAN]
    BY DEF TypeOK, Enter, ClearCaches
  <1>4. overtaken' \in [Nodes -> BOOLEAN]
    BY DEF TypeOK, Enter
  <1>5. \A k \in Nodes : OneEach(active'[k]) /\ OneEach(stored'[k].active)
    BY <1>1 DEF TypeOK, Enter
  <1>. QED  BY <1>2, <1>3, <1>4, <1>5 DEF TypeOK, Enter

LEMMA UpdateSporkMessage ==
  ASSUME TypeOK, NEW n \in Nodes, NEW v \in Values, KeyOf[n] \in keys[n]
  PROVE  [signer |-> KeyOf[n], value |-> v, time |-> now] \in Messages
  BY SporkAssumption DEF TypeOK, Messages

LEMMA RestartType ==
  ASSUME TypeOK, NEW n \in Nodes, NEW K \in KeySets, NEW clean \in BOOLEAN,
         Restart(n, K, clean)
  PROVE  TypeOK'
  <1> DEFINE file == IF clean THEN [active |-> active[n], byHash |-> byHash[n]] ELSE stored[n]
  <1>1. /\ file \in [active : SUBSET Messages, byHash : SUBSET Messages]
        /\ OneEach(file.active)
    BY DEF TypeOK
  <1>2. /\ CheckAndRemove(file.active, K) \in SUBSET file.active
        /\ CheckAndRemove(file.byHash, K) \in SUBSET file.byHash
    BY DEF CheckAndRemove
  <1>3. OneEach(CheckAndRemove(file.active, K))
    BY <1>1, <1>2, OneEachSubset
  <1>4. /\ active' = [active EXCEPT ![n] = CheckAndRemove(file.active, K)]
        /\ byHash' = [byHash EXCEPT ![n] = CheckAndRemove(file.byHash, K)]
        /\ stored' = [stored EXCEPT ![n] = file]
    BY DEF Restart
  <1> HIDE DEF file
  <1>5. /\ active' \in [Nodes -> SUBSET Messages] /\ byHash' \in [Nodes -> SUBSET Messages]
        /\ stored' \in [Nodes -> [active : SUBSET Messages, byHash : SUBSET Messages]]
    BY <1>1, <1>2, <1>4 DEF TypeOK
  <1>6. \A k \in Nodes : OneEach(active'[k]) /\ OneEach(stored'[k].active)
    BY <1>1, <1>3, <1>4 DEF TypeOK
  <1>7. /\ valueCache' \in [Nodes -> SUBSET Values] /\ activeCache' \in [Nodes -> BOOLEAN]
        /\ overtaken' \in [Nodes -> BOOLEAN] /\ keys' \in [Nodes -> KeySets]
        /\ reading' \in [Readers -> SUBSET (Values \cup {Default})]
        /\ restarts' \in 0 .. MaxRestarts /\ now' = now /\ signed' = signed
    BY SporkAssumption DEF TypeOK, Restart
  <1>. QED  BY <1>5, <1>6, <1>7 DEF TypeOK

LEMMA ReadType ==
  ASSUME TypeOK, NEW r \in Readers, GetSporkValue(r) \/ CacheActive(r)
  PROVE  TypeOK'
  <1>0. HomeOf[r] \in Nodes
    BY SporkAssumption
  <1>1. SporkValueIfActive(HomeOf[r]) \subseteq Values
    BY <1>0 DEF TypeOK, SporkValueIfActive, Majority
  <1>2. CASE GetSporkValue(r)
    <2>1. PICK v \in IF SporkValueIfActive(HomeOf[r]) = {} THEN {Default} ELSE SporkValueIfActive(HomeOf[r]) :
            /\ reading' = [reading EXCEPT ![r] = {v}]
            /\ valueCache' = [valueCache EXCEPT ![HomeOf[r]] =
                                IF SporkValueIfActive(HomeOf[r]) = {} THEN @ ELSE {v}]
      BY <1>2 DEF GetSporkValue
    <2>2. v \in Values \cup {Default} /\ (SporkValueIfActive(HomeOf[r]) # {} => v \in Values)
      BY <2>1, <1>1
    <2>3. /\ reading' \in [Readers -> SUBSET (Values \cup {Default})]
          /\ valueCache' \in [Nodes -> SUBSET Values]
      BY <1>0, <2>1, <2>2 DEF TypeOK
    <2>. QED  BY <1>2, <2>3 DEF TypeOK, GetSporkValue
  <1>3. CASE CacheActive(r)
    <2>1. activeCache' \in [Nodes -> BOOLEAN]
      BY <1>3 DEF TypeOK, CacheActive
    <2>2. reading' \in [Readers -> SUBSET (Values \cup {Default})]
      BY <1>3 DEF TypeOK, CacheActive
    <2>. QED  BY <1>3, <2>1, <2>2 DEF TypeOK, CacheActive
  <1>. QED  BY <1>2, <1>3

\* Every step keeps the types.
LEMMA TypeStep == TypeOK /\ [Next]_vars => TypeOK'
  <1> SUFFICES ASSUME TypeOK, [Next]_vars PROVE TypeOK'
    OBVIOUS
  <1>1. CASE Tick
    BY <1>1, SporkAssumption DEF TypeOK, Tick
  <1>2. ASSUME NEW n \in Nodes, NEW v \in Values, UpdateSpork(n, v) PROVE TypeOK'
    <2> DEFINE m == [signer |-> KeyOf[n], value |-> v, time |-> now]
    <2>1. m \in Messages /\ signed' \subseteq Messages /\ Enter(n, m) /\ now' = now
      BY <1>2, UpdateSporkMessage DEF UpdateSpork, TypeOK
    <2> HIDE DEF m
    <2>. QED  BY <2>1, EnterType
  <1>3. ASSUME NEW n \in Nodes, Receive(n) PROVE TypeOK'
    <2>0. PICK k \in Nodes : \E m \in byHash[k] : ProcessSpork(n, m)
      BY <1>3 DEF Receive
    <2>1. PICK m \in byHash[k] : ProcessSpork(n, m)
      BY <2>0
    <2>2. m \in Messages /\ Enter(n, m) /\ now' = now /\ signed' \subseteq Messages
      BY <2>1 DEF TypeOK, ProcessSpork
    <2>. QED  BY <2>2, EnterType
  <1>4. ASSUME NEW r \in Readers, GetSporkValue(r) \/ CacheActive(r) PROVE TypeOK'
    BY <1>4, ReadType
  <1>5. ASSUME NEW n \in Nodes, NEW K \in KeySets, NEW clean \in BOOLEAN, Restart(n, K, clean)
        PROVE TypeOK'
    BY <1>5, RestartType
  <1>6. CASE UNCHANGED vars
    BY <1>6 DEF TypeOK, vars
  <1>. QED  BY <1>1, <1>2, <1>3, <1>4, <1>5, <1>6 DEF Next

\* Clocks, caches, votes and files keep their types, and a signer has one vote
\* on every node and in every file.
THEOREM TypeCorrect == Spec => []TypeOK
  <1>1. Init => TypeOK
    BY SporkAssumption DEF Init, TypeOK, NothingStored, OneEach
  <1>. QED  BY <1>1, TypeStep, PTL DEF Spec

-----------------------------------------------------------------------------
(***************************************************************************)
(* Votes.                                                                  *)
(***************************************************************************)

\* Only current signers vote: ProcessSpork asks, CheckAndRemove asks again.
OnlySigners == \A n \in Nodes : \A m \in active[n] : m.signer \in keys[n]

\* What a thread holds is what the votes give, unless it was overtaken.
ReadingIsTrue ==
  \A r \in Readers : ~overtaken[HomeOf[r]] => reading[r] \subseteq TrueValues(HomeOf[r])

IInv == TypeOK /\ OnlySigners /\ CachedValueIsMajority /\ ReadingIsTrue /\ OnlyOvertakenGoStale

\* Two values cannot both have nMinSporkKeys of the signers: their voters are
\* disjoint, and twice the minimum is more than there are signers.
LEMMA MajorityIsUnique ==
  ASSUME TypeOK, OnlySigners, NEW n \in Nodes, NEW v \in Majority(n), NEW w \in Majority(n)
  PROVE  v = w
  <1> SUFFICES ASSUME v # w PROVE FALSE
    OBVIOUS
  <1> DEFINE K == keys[n]
             V == Voters(n, v)
             W == Voters(n, w)
  <1>1. K \in KeySets
    BY DEF TypeOK
  <1>2. IsFiniteSet(K) /\ MinKeys[K] \in Nat /\ 2 * MinKeys[K] > Cardinality(K)
    BY <1>1, MajorityAssumption
  <1>3. V \subseteq K /\ W \subseteq K
    BY DEF Voters, OnlySigners
  <1>4. V \cap W = {}
    <2> SUFFICES ASSUME NEW s \in V, s \in W PROVE FALSE
      OBVIOUS
    <2>1. PICK a \in active[n] : a.signer = s /\ a.value = v
      BY DEF Voters
    <2>2. PICK b \in active[n] : b.signer = s /\ b.value = w
      BY DEF Voters
    <2>3. OneEach(active[n])
      BY DEF TypeOK
    <2>. QED  BY <2>1, <2>2, <2>3 DEF OneEach
  <1>5. Cardinality(V) >= MinKeys[K] /\ Cardinality(W) >= MinKeys[K]
    BY DEF Majority
  <1> HIDE DEF K, V, W
  <1>6. /\ IsFiniteSet(V) /\ IsFiniteSet(W)
        /\ Cardinality(V) \in Nat /\ Cardinality(W) \in Nat /\ Cardinality(K) \in Nat
    BY <1>2, <1>3, FS_Subset, FS_CardinalityType
  <1>7. Cardinality(V \cup W) = Cardinality(V) + Cardinality(W)
    <2>1. Cardinality(V \cap W) = 0
      BY <1>4, FS_EmptySet
    <2>2. Cardinality(V \cup W) = Cardinality(V) + Cardinality(W) - Cardinality(V \cap W)
      BY <1>6, FS_Union
    <2>. QED  BY <2>1, <2>2, <1>6
  <1>8. Cardinality(V \cup W) <= Cardinality(K)
    BY <1>2, <1>3, FS_Subset
  <1>. QED  BY <1>2, <1>5, <1>6, <1>7, <1>8

LEMMA TrueValueIsUnique ==
  ASSUME TypeOK, OnlySigners, NEW n \in Nodes, NEW v \in TrueValues(n), NEW w \in TrueValues(n)
  PROVE  v = w
  BY MajorityIsUnique DEF TrueValues

\* What GetSporkValue finds is the true value, cached or not.
LEMMA FoundIsTrue ==
  ASSUME IInv, NEW n \in Nodes,
         NEW v \in IF SporkValueIfActive(n) = {} THEN {Default} ELSE SporkValueIfActive(n)
  PROVE  /\ v \in TrueValues(n)
         /\ SporkValueIfActive(n) # {} => v \in Majority(n)
  <1>1. valueCache[n] \subseteq Majority(n)
    BY DEF IInv, CachedValueIsMajority
  <1>. QED  BY <1>1 DEF SporkValueIfActive, TrueValues

\* The same messages and signers give the same values.
LEMMA VotesAlike ==
  ASSUME NEW k \in Nodes, active'[k] = active[k], keys'[k] = keys[k]
  PROVE  Majority(k)' = Majority(k) /\ TrueValues(k)' = TrueValues(k)
  <1>1. \A v \in Values : Voters(k, v)' = Voters(k, v)
    BY DEF Voters
  <1>2. Majority(k)' = Majority(k)
    BY <1>1 DEF Majority
  <1>. QED  BY <1>2 DEF TrueValues

\* The parts that a step which enters a message disturbs.
LEMMA EnterKeeps ==
  ASSUME IInv, TypeOK', NEW n \in Nodes, NEW m \in Messages, Enter(n, m),
         m.signer \in keys[n], now' = now
  PROVE  IInv'
  <1>0. TypeOK /\ keys' = keys /\ reading' = reading
    BY DEF IInv, Enter
  <1>1. OnlySigners'
    BY <1>0 DEF IInv, OnlySigners, Enter, Replace, TypeOK
  <1>2. \A k \in Nodes \ {n} : /\ active'[k] = active[k] /\ valueCache'[k] = valueCache[k]
                               /\ activeCache'[k] = activeCache[k]
                               /\ overtaken'[k] = overtaken[k]
    BY <1>0 DEF Enter, ClearCaches, TypeOK
  <1>3. /\ valueCache'[n] = {} /\ activeCache'[n] = FALSE
        /\ overtaken'[n] = \E r \in Readers : HomeOf[r] = n /\ reading[r] # {}
    BY <1>0 DEF Enter, ClearCaches, TypeOK
  <1>9. \A k \in Nodes : keys'[k] = keys[k]
    BY <1>0
  <1>4. \A k \in Nodes \ {n} : Majority(k)' = Majority(k) /\ TrueValues(k)' = TrueValues(k)
    BY <1>2, <1>9, VotesAlike
  <1>5. CachedValueIsMajority'
    BY <1>2, <1>3, <1>4 DEF IInv, CachedValueIsMajority
  <1>6. ReadingIsTrue'
    <2> SUFFICES ASSUME NEW r \in Readers, ~overtaken'[HomeOf[r]]
                 PROVE  reading'[r] \subseteq TrueValues(HomeOf[r])'
      BY DEF ReadingIsTrue
    <2>1. HomeOf[r] \in Nodes
      BY SporkAssumption
    <2>2. CASE HomeOf[r] = n
      BY <1>0, <1>3, <2>2
    <2>3. CASE HomeOf[r] # n
      BY <1>0, <1>2, <1>4, <2>1, <2>3 DEF IInv, ReadingIsTrue
    <2>. QED  BY <2>2, <2>3
  <1>7. OnlyOvertakenGoStale'
    BY <1>2, <1>3, <1>4 DEF IInv, OnlyOvertakenGoStale
  <1>. QED  BY <1>1, <1>5, <1>6, <1>7 DEF IInv

LEMMA RestartKeeps ==
  ASSUME IInv, TypeOK', NEW n \in Nodes, NEW K \in KeySets, NEW clean \in BOOLEAN,
         Restart(n, K, clean)
  PROVE  IInv'
  <1>0. TypeOK /\ now' = now
    BY DEF IInv, Restart
  <1>2. \A k \in Nodes \ {n} : /\ active'[k] = active[k] /\ valueCache'[k] = valueCache[k]
                               /\ activeCache'[k] = activeCache[k]
                               /\ overtaken'[k] = overtaken[k] /\ keys'[k] = keys[k]
    BY <1>0 DEF Restart, TypeOK
  <1>3. /\ valueCache'[n] = {} /\ activeCache'[n] = FALSE /\ keys'[n] = K
        /\ \A m \in active'[n] : m.signer \in K
    BY <1>0 DEF Restart, TypeOK, CheckAndRemove
  <1>4. \A k \in Nodes \ {n} : Majority(k)' = Majority(k) /\ TrueValues(k)' = TrueValues(k)
    BY <1>2, VotesAlike
  <1>1. OnlySigners'
    BY <1>2, <1>3 DEF IInv, OnlySigners
  <1>5. CachedValueIsMajority'
    BY <1>2, <1>3, <1>4 DEF IInv, CachedValueIsMajority
  <1>6. ReadingIsTrue'
    <2> SUFFICES ASSUME NEW r \in Readers, ~overtaken'[HomeOf[r]]
                 PROVE  reading'[r] \subseteq TrueValues(HomeOf[r])'
      BY DEF ReadingIsTrue
    <2>1. HomeOf[r] \in Nodes
      BY SporkAssumption
    <2>2. reading'[r] = IF HomeOf[r] = n THEN {} ELSE reading[r]
      BY DEF Restart
    <2>. QED  BY <1>2, <1>4, <2>1, <2>2 DEF IInv, ReadingIsTrue
  <1>7. OnlyOvertakenGoStale'
    BY <1>0, <1>2, <1>3, <1>4 DEF IInv, OnlyOvertakenGoStale
  <1>. QED  BY <1>1, <1>5, <1>6, <1>7 DEF IInv

\* Steps that leave the votes alone.
LEMMA ReadKeeps ==
  ASSUME IInv, TypeOK', NEW r \in Readers, GetSporkValue(r) \/ CacheActive(r)
  PROVE  IInv'
  <1>0. /\ TypeOK /\ HomeOf[r] \in Nodes /\ now' = now /\ overtaken' = overtaken
        /\ active' = active /\ keys' = keys
    BY SporkAssumption DEF IInv, GetSporkValue, CacheActive
  <1>1. OnlySigners'
    BY <1>0 DEF IInv, OnlySigners
  <1>2. \A k \in Nodes : Majority(k)' = Majority(k) /\ TrueValues(k)' = TrueValues(k)
    BY <1>0 DEF TrueValues, Majority, Voters
  <1>3. CASE GetSporkValue(r)
    <2>1. PICK v \in IF SporkValueIfActive(HomeOf[r]) = {} THEN {Default} ELSE SporkValueIfActive(HomeOf[r]) :
            /\ reading' = [reading EXCEPT ![r] = {v}]
            /\ valueCache' = [valueCache EXCEPT ![HomeOf[r]] =
                                IF SporkValueIfActive(HomeOf[r]) = {} THEN @ ELSE {v}]
      BY <1>3 DEF GetSporkValue
    <2>2. /\ v \in TrueValues(HomeOf[r])
          /\ SporkValueIfActive(HomeOf[r]) # {} => v \in Majority(HomeOf[r])
      BY <1>0, <2>1, FoundIsTrue
    <2>3. CachedValueIsMajority'
      BY <1>0, <1>2, <2>1, <2>2 DEF IInv, CachedValueIsMajority, TypeOK
    <2>4. ReadingIsTrue'
      <3> SUFFICES ASSUME NEW q \in Readers, ~overtaken'[HomeOf[q]]
                   PROVE  reading'[q] \subseteq TrueValues(HomeOf[q])'
        BY DEF ReadingIsTrue
      <3>1. reading'[q] = IF q = r THEN {v} ELSE reading[q]
        BY <1>0, <2>1 DEF TypeOK
      <3>2. HomeOf[q] \in Nodes /\ TrueValues(HomeOf[q])' = TrueValues(HomeOf[q])
        BY <1>2, SporkAssumption
      <3>3. reading[q] \subseteq TrueValues(HomeOf[q])
        BY <1>0 DEF IInv, ReadingIsTrue
      <3>. QED  BY <2>2, <3>1, <3>2, <3>3
    <2>5. OnlyOvertakenGoStale'
      BY <1>0, <1>2, <1>3 DEF IInv, OnlyOvertakenGoStale, GetSporkValue
    <2>. QED  BY <1>1, <2>3, <2>4, <2>5 DEF IInv
  <1>4. CASE CacheActive(r)
    <2>1. CachedValueIsMajority'
      BY <1>2, <1>4 DEF IInv, CachedValueIsMajority, CacheActive
    <2>2. ReadingIsTrue'
      <3> SUFFICES ASSUME NEW q \in Readers, ~overtaken'[HomeOf[q]]
                   PROVE  reading'[q] \subseteq TrueValues(HomeOf[q])'
        BY DEF ReadingIsTrue
      <3>1. reading'[q] = IF q = r THEN {} ELSE reading[q]
        BY <1>0, <1>4 DEF TypeOK, CacheActive
      <3>2. HomeOf[q] \in Nodes /\ TrueValues(HomeOf[q])' = TrueValues(HomeOf[q])
        BY <1>2, SporkAssumption
      <3>3. reading[q] \subseteq TrueValues(HomeOf[q])
        BY <1>0 DEF IInv, ReadingIsTrue
      <3>. QED  BY <3>1, <3>2, <3>3
    <2>3. OnlyOvertakenGoStale'
      <3> SUFFICES ASSUME NEW k \in Nodes, activeCache'[k], ~overtaken[k], NEW v \in TrueValues(k)
                   PROVE  v < now
        BY <1>0, <1>2 DEF OnlyOvertakenGoStale
      <3>1. CASE activeCache[k]
        BY <3>1 DEF IInv, OnlyOvertakenGoStale
      <3>2. CASE ~activeCache[k]
        <4>1. k = HomeOf[r] /\ \E w \in reading[r] : w < now
          BY <1>0, <1>4, <3>2 DEF CacheActive, TypeOK
        <4>2. PICK w \in TrueValues(k) : w < now
          BY <4>1 DEF IInv, ReadingIsTrue
        <4>3. v = w
          BY <4>2, <1>0, TrueValueIsUnique DEF IInv
        <4>. QED  BY <4>2, <4>3
      <3>. QED  BY <3>1, <3>2
    <2>. QED  BY <1>1, <2>1, <2>2, <2>3 DEF IInv
  <1>. QED  BY <1>3, <1>4

LEMMA TickKeeps ==
  ASSUME IInv, TypeOK', Tick \/ UNCHANGED vars
  PROVE  IInv'
  <1>1. /\ active' = active /\ keys' = keys /\ valueCache' = valueCache /\ reading' = reading
        /\ activeCache' = activeCache /\ overtaken' = overtaken
        /\ now \in Nat /\ now' \in Nat /\ now' >= now
    BY SporkAssumption DEF IInv, TypeOK, Tick, vars
  <1>2. \A k \in Nodes : Majority(k)' = Majority(k) /\ TrueValues(k)' = TrueValues(k)
    BY <1>1 DEF TrueValues, Majority, Voters
  <1>3. \A k \in Nodes : TrueValues(k) \subseteq Int
    BY SporkAssumption DEF TrueValues, Majority
  <1>4. OnlyOvertakenGoStale'
    BY <1>1, <1>2, <1>3 DEF IInv, OnlyOvertakenGoStale
  <1>5. OnlySigners' /\ CachedValueIsMajority'
    BY <1>1, <1>2 DEF IInv, OnlySigners, CachedValueIsMajority
  <1>6. ReadingIsTrue'
    BY <1>1, <1>2, SporkAssumption DEF IInv, ReadingIsTrue
  <1>. QED  BY <1>4, <1>5, <1>6 DEF IInv

\* Only signers of the node vote, the caches and the threads hold what the
\* votes give, unless a message has overtaken a thread.
THEOREM Inductive == Spec => []IInv
  <1>1. Init => IInv
    <2> SUFFICES ASSUME Init PROVE IInv
      OBVIOUS
    <2>1. TypeOK
      BY SporkAssumption DEF Init, TypeOK, NothingStored, OneEach
    <2>2. OnlySigners /\ CachedValueIsMajority
      BY DEF Init, OnlySigners, CachedValueIsMajority
    <2>3. ReadingIsTrue /\ OnlyOvertakenGoStale
      BY SporkAssumption DEF Init, ReadingIsTrue, OnlyOvertakenGoStale
    <2>. QED  BY <2>1, <2>2, <2>3 DEF IInv
  <1>2. IInv /\ [Next]_vars => IInv'
    <2> SUFFICES ASSUME IInv, [Next]_vars PROVE IInv'
      OBVIOUS
    <2>0. TypeOK'
      BY TypeStep DEF IInv
    <2>1. ASSUME NEW n \in Nodes, NEW v \in Values, UpdateSpork(n, v) PROVE IInv'
      <3> DEFINE m == [signer |-> KeyOf[n], value |-> v, time |-> now]
      <3>1. m \in Messages /\ m.signer \in keys[n] /\ Enter(n, m) /\ now' = now
        BY <2>1, UpdateSporkMessage DEF UpdateSpork, IInv
      <3> HIDE DEF m
      <3>. QED  BY <2>0, <3>1, EnterKeeps
    <2>2. ASSUME NEW n \in Nodes, Receive(n) PROVE IInv'
      <3>0. PICK k \in Nodes : \E m \in byHash[k] : ProcessSpork(n, m)
        BY <2>2 DEF Receive
      <3>1. PICK m \in byHash[k] : ProcessSpork(n, m)
        BY <3>0
      <3>2. m \in Messages /\ m.signer \in keys[n] /\ Enter(n, m) /\ now' = now
        BY <3>1 DEF IInv, TypeOK, ProcessSpork
      <3>. QED  BY <2>0, <3>2, EnterKeeps
    <2>. QED  BY <2>0, <2>1, <2>2, RestartKeeps, ReadKeeps, TickKeeps DEF Next
  <1>. QED  BY <1>1, <1>2, PTL DEF Spec

\* At most one value has a majority, also after restarts with other signers and
\* with a file that old signers wrote.
THEOREM NeverTwoMajorities == Spec => []OneMajority
  <1>1. IInv => OneMajority
    BY MajorityIsUnique DEF IInv, OneMajority
  <1>. QED  BY <1>1, Inductive, PTL

\* The value cache is never behind the votes.
THEOREM ValueCacheIsRight == Spec => []CachedValueIsMajority
  <1>1. IInv => CachedValueIsMajority
    BY DEF IInv
  <1>. QED  BY <1>1, Inductive, PTL

\* The cache of IsSporkActive is wrong only after a message was taken between
\* its two locks.
THEOREM ActiveCacheIsRight == Spec => []OnlyOvertakenGoStale
  <1>1. IInv => OnlyOvertakenGoStale
    BY DEF IInv
  <1>. QED  BY <1>1, Inductive, PTL
=============================================================================
