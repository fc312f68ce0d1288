---------------------- MODULE QuorumCommitmentsProofs ----------------------
(***************************************************************************)
(* For any block tree, commitments, mining window and threads: unless the  *)
(* cache was overtaken, a commitment is mined once and every block is      *)
(* judged by the blocks below it; and a commitment that was known can be   *)
(* mined until it is, unless a failed block took it away.                  *)
(***************************************************************************)
EXTENDS QuorumCommitments, TLAPS

-----------------------------------------------------------------------------
(***************************************************************************)
(* The inductive invariant.                                                *)
(***************************************************************************)

Connecting == main.pc \in {"erase", "connect"}

\* the answer on q may be wrong now and is erased by the next step of the thread
Settling(q) == main.pc \in {"erase", "undo"} /\ Mines(main.block, q)

ReaderInv == \A r \in Readers : reader[r] = NoRead \/ reader[r].quorum \in Quorums

\* what the transaction has changed where the thread stands
StageInv ==
  /\ main.pc = "idle" => main = Idle
  /\ Connecting =>
       /\ main.block # Genesis /\ main.block \notin failed /\ Parent[main.block] = tip
       /\ Content[main.block] \in Commitments => Mines(main.block, QuorumOf(main.block))
       /\ view = [q \in Quorums |-> IF Mines(main.block, q) THEN main.block ELSE db[q]]
  /\ main.pc = "erase" => Content[main.block] \in Commitments
  /\ main.pc \in {"undo", "disconnect"} =>
       /\ main.block # Genesis
       /\ ~main.verify => /\ main.block = tip
                          /\ view = [q \in Quorums |-> IF Mines(tip, q) THEN None ELSE db[q]]
  /\ main.pc = "disconnect" => ~main.verify

\* an answer in the cache agrees with the transaction and with what is committed
CacheInv ==
  \A q \in Quorums \ overtaken : ~Settling(q) =>
    /\ q \in cachedYes => view[q] # None /\ db[q] # None
    /\ q \in cachedNo => view[q] = None /\ db[q] = None

\* a block that passed the checks of ProcessBlock
PendingInv == Connecting =>
  /\ \A q \in Quorums \ overtaken : Mines(main.block, q) => db[q] = None
  /\ QuorumOf(main.block) \notin overtaken => Fits(main.block, Content[main.block])

\* the part of BlocksFollowTheChain that is about blocks that were judged
JudgedInv ==
  \A b \in Blocks \ {Genesis} : QuorumOf(b) \notin overtaken =>
    /\ b \in refused => ~Fits(b, Content[b])
    /\ b \in Ancestors[tip] => Fits(b, Content[b])

BestInv == \A q \in Quorums : best[q] # None => best[q] \in minable /\ best[q].quorum = q

KnownInv ==
  /\ \A q \in known : \/ db[q] # None \/ best[q] # None \/ q \in lost
                      \/ main.pc = "connect" /\ Mines(main.block, q)
  /\ main.pc = "disconnect" => \A q \in Quorums : Mines(main.block, q) => best[q] # None

Shape == TypeOK /\ ReaderInv /\ StageInv
ChainInv == CacheInv /\ MinedIsOnChain /\ PendingInv /\ JudgedInv
IInv == Shape /\ ChainInv /\ BestInv /\ KnownInv

-----------------------------------------------------------------------------
(***************************************************************************)
(* The helpers.                                                            *)
(***************************************************************************)

LEMMA QuorumOfType == ASSUME NEW b \in Blocks PROVE QuorumOf(b) \in Quorums \cup {None}
  <1> DEFINE base == {a \in (Ancestors[b] \ {b}) \cap Quorums : Height[b] - Height[a] < DkgInterval}
  <1>1. CASE base = {}
    BY <1>1 DEF QuorumOf
  <1>2. CASE base # {}
    <2>1. PICK a \in base : TRUE
      BY <1>2
    <2>2. (CHOOSE x \in base : TRUE) \in base
      BY <2>1
    <2>3. QuorumOf(b) = CHOOSE x \in base : TRUE
      BY <1>2 DEF QuorumOf
    <2>. QED  BY <2>2, <2>3
  <1>. QED  BY <1>1, <1>2

LEMMA MinesQuorum ==
  ASSUME NEW b \in Blocks, Content[b] \in Commitments
  PROVE  /\ Content[b].quorum \in Quorums
         /\ \A q : Mines(b, q) <=> q = Content[b].quorum
  BY CommitmentAssumption DEF Mines

LEMMA AddType ==
  ASSUME TypeOK, NEW c \in Commitments, AddMineableCommitment(c)
  PROVE  /\ best' \in [Quorums -> Commitments \cup {None}] /\ minable' \subseteq Commitments
         /\ known' \subseteq Quorums /\ lost' \subseteq known'
  BY CommitmentAssumption DEF TypeOK, AddMineableCommitment

LEMMA CacheType ==
  ASSUME TypeOK, NEW q \in Quorums, CacheAnswer(q) \/ EraseAnswer(q)
  PROVE  cachedYes' \subseteq Quorums /\ cachedNo' \subseteq Quorums \ cachedYes'
  BY DEF TypeOK, CacheAnswer, EraseAnswer, HasMinedCommitment

-----------------------------------------------------------------------------
(***************************************************************************)
(* Types and stages.                                                       *)
(***************************************************************************)

LEMMA ShapeInit == Init => Shape
  <1> SUFFICES ASSUME Init PROVE Shape
    OBVIOUS
  <1>1. TypeOK
    BY TreeAssumption DEF Init, TypeOK, Idle, NoRead
  <1>2. ReaderInv /\ StageInv
    BY DEF Init, ReaderInv, StageInv, Connecting, Idle
  <1>. QED  BY <1>1, <1>2 DEF Shape

LEMMA ProcessBlockShape == ASSUME Shape, NEW b \in Blocks, ProcessBlock(b) PROVE Shape'
  <1> USE DEF Shape
  <1> DEFINE q == QuorumOf(b)
             fits == IF IsRequired(b) THEN Content[b] = Null \/ Mines(b, q) ELSE Content[b] = None
  <1>0. /\ main = Idle /\ b \notin failed /\ b # Genesis /\ Parent[b] = tip
        /\ IF IsMiningPhase(b) /\ q # None THEN CacheAnswer(q) ELSE UNCHANGED cache
        /\ UNCHANGED <<db, mining, reader, overtaken>>
    BY DEF ProcessBlock
  <1>1. cachedYes' \subseteq Quorums /\ cachedNo' \subseteq Quorums \ cachedYes'
    BY <1>0, QuorumOfType, CacheType DEF TypeOK, cache
  <1>2. view = db
    BY <1>0 DEF TypeOK
  <1>3. CASE ~fits
    <2>1. failed' = failed \cup {b} /\ refused' = refused \cup {b} /\ UNCHANGED <<tip, main, view>>
      BY <1>3 DEF ProcessBlock
    <2>2. TypeOK'
      BY <1>0, <1>1, <2>1 DEF TypeOK, mining
    <2>. QED  BY <2>1, <2>2, <1>0 DEF ReaderInv, StageInv, Connecting, Idle
  <1>4. CASE fits
    <2>1. /\ main' = [pc |-> IF Mines(b, q) THEN "erase" ELSE "connect", block |-> b, verify |-> FALSE]
          /\ view' = IF Mines(b, q) THEN [view EXCEPT ![q] = b] ELSE view
          /\ UNCHANGED chain
      BY <1>4 DEF ProcessBlock
    <2>2. /\ main'.block = b /\ ~main'.verify
          /\ main'.pc = IF Mines(b, q) THEN "erase" ELSE "connect"
          /\ main' \in [pc : {"erase", "connect"}, block : Blocks, verify : BOOLEAN]
      BY <2>1 DEF Idle
    <2>3. Content[b] \in Commitments => Mines(b, q)
      BY <1>4, CommitmentAssumption DEF Mines
    <2>4. Mines(b, q) => q \in Quorums
      BY MinesQuorum DEF Mines
    <2>5. view' \in [Quorums -> Blocks \cup {None}]
      BY <2>1 DEF TypeOK
    <2>6. view' = [x \in Quorums |-> IF Mines(b, x) THEN b ELSE db[x]]
      <3>1. CASE Mines(b, q)
        BY <3>1, <2>1, <2>4, <1>2, MinesQuorum DEF TypeOK, Mines
      <3>2. CASE ~Mines(b, q)
        <4>1. \A x : ~Mines(b, x)
          BY <3>2, <2>3 DEF Mines
        <4>. QED  BY <3>2, <4>1, <2>1, <1>2 DEF TypeOK
      <3>. QED  BY <3>1, <3>2
    <2>7. main' # Idle
      BY <2>2 DEF Idle
    <2>8. TypeOK'
      BY <1>0, <1>1, <2>1, <2>2, <2>5, <2>7 DEF TypeOK, mining, chain
    <2>9. StageInv'
      BY <1>0, <2>1, <2>2, <2>3, <2>6 DEF StageInv, Connecting, chain, Mines
    <2>. QED  BY <2>8, <2>9, <1>0 DEF ReaderInv
  <1>. QED  BY <1>3, <1>4

LEMMA ForgetShape == ASSUME Shape, ForgetCommitment PROVE Shape'
  <1> USE DEF Shape
  <1>1. /\ main.pc = "erase" /\ Content[main.block] \in Commitments /\ main.block \in Blocks
        /\ main' = [main EXCEPT !.pc = "connect"]
    BY DEF ForgetCommitment, StageInv, TypeOK
  <1>2. /\ main'.pc = "connect" /\ main'.block = main.block /\ main'.verify = main.verify
        /\ main' \in [pc : {"connect"}, block : Blocks, verify : BOOLEAN]
    BY <1>1 DEF TypeOK
  <1>3. cachedYes' \subseteq Quorums /\ cachedNo' \subseteq Quorums \ cachedYes'
    BY <1>1, CacheType, MinesQuorum DEF ForgetCommitment
  <1>4. best' \in [Quorums -> Commitments \cup {None}] /\ minable' \subseteq Commitments
    BY DEF ForgetCommitment, TypeOK
  <1>5. main' # Idle
    BY <1>2 DEF Idle
  <1>6. TypeOK'
    BY <1>2, <1>3, <1>4, <1>5 DEF ForgetCommitment, TypeOK, chain, store
  <1>7. StageInv'
    BY <1>1, <1>2 DEF ForgetCommitment, StageInv, Connecting, chain, store, Mines
  <1>. QED  BY <1>6, <1>7 DEF ForgetCommitment, ReaderInv

LEMMA ConnectTipShape == ASSUME Shape, ConnectTip PROVE Shape'
  <1> USE DEF Shape
  <1>1. /\ main' = Idle /\ main.block \in Blocks
        /\ Idle \in [pc : {"idle"}, block : Blocks, verify : BOOLEAN]
    BY TreeAssumption DEF ConnectTip, TypeOK, Idle
  <1>2. TypeOK'
    BY <1>1 DEF ConnectTip, TypeOK, cache
  <1>3. StageInv'
    BY <1>1 DEF StageInv, Connecting, Idle
  <1>. QED  BY <1>2, <1>3 DEF ConnectTip, ReaderInv

LEMMA EraseShape ==
  ASSUME Shape, NEW b \in Blocks, NEW verify \in BOOLEAN, EraseMined(b, verify),
         verify \/ (b = tip /\ main = Idle)
  PROVE  Shape'
  <1> USE DEF Shape
  <1>1. /\ main' = [pc |-> "undo", block |-> b, verify |-> verify] /\ b # Genesis
        /\ view' = [q \in Quorums |-> IF Mines(b, q) THEN None ELSE view[q]]
    BY DEF EraseMined
  <1>2. TypeOK'
    BY <1>1 DEF EraseMined, TypeOK, chain, cache, mining, Idle
  <1>3. StageInv'
    BY <1>1 DEF EraseMined, StageInv, Connecting, TypeOK, chain, Mines
  <1>. QED  BY <1>2, <1>3 DEF EraseMined, ReaderInv

LEMMA UndoShape == ASSUME Shape, UndoBlock PROVE Shape'
  <1> USE DEF Shape
  <1>1. main.pc = "undo" /\ main.block \in Blocks \ {Genesis} /\ Parent[main.block] \in Blocks
    BY TreeAssumption DEF UndoBlock, StageInv, TypeOK
  <1>2. /\ main'.verify = main.verify
        /\ main.verify => main'.pc = "verify" /\ main'.block = Parent[main.block]
        /\ ~main.verify => main'.pc = "disconnect" /\ main'.block = main.block
        /\ main' \in [pc : {"verify", "disconnect"}, block : Blocks, verify : BOOLEAN]
    BY <1>1 DEF UndoBlock, TypeOK
  <1>3. cachedYes' \subseteq Quorums /\ cachedNo' \subseteq Quorums \ cachedYes'
    BY <1>1, CacheType, MinesQuorum DEF UndoBlock, cache, TypeOK
  <1>4. /\ best' \in [Quorums -> Commitments \cup {None}] /\ minable' \subseteq Commitments
        /\ known' \subseteq Quorums /\ lost' \subseteq known'
    BY <1>1, AddType DEF UndoBlock, mining, TypeOK
  <1>5. main' # Idle
    BY <1>2 DEF Idle
  <1>6. TypeOK'
    BY <1>2, <1>3, <1>4, <1>5 DEF UndoBlock, TypeOK, chain, store
  <1>7. StageInv'
    BY <1>1, <1>2 DEF UndoBlock, StageInv, Connecting, chain, store, Mines
  <1>. QED  BY <1>6, <1>7 DEF UndoBlock, ReaderInv

LEMMA DisconnectTipShape == ASSUME Shape, DisconnectTip PROVE Shape'
  <1> USE DEF Shape
  <1>1. /\ main' = Idle /\ main.block \in Blocks \ {Genesis} /\ Parent[main.block] \in Blocks
        /\ Idle \in [pc : {"idle"}, block : Blocks, verify : BOOLEAN]
    BY TreeAssumption DEF DisconnectTip, StageInv, TypeOK, Idle
  <1>2. TypeOK'
    BY <1>1 DEF DisconnectTip, TypeOK, cache, mining
  <1>3. StageInv'
    BY <1>1 DEF StageInv, Connecting, Idle
  <1>. QED  BY <1>2, <1>3 DEF DisconnectTip, ReaderInv

LEMMA VerifyShape == ASSUME Shape, VerifyDB \/ EndVerifyDB PROVE Shape'
  <1> USE DEF Shape
  <1>1. Idle \in [pc : {"idle"}, block : Blocks, verify : BOOLEAN]
    BY TreeAssumption DEF Idle
  <1>2. CASE VerifyDB
    <2>1. TypeOK'
      BY <1>2 DEF VerifyDB, TypeOK, Idle, chain, store, cache, mining
    <2>. QED  BY <1>2, <2>1 DEF VerifyDB, StageInv, Connecting, ReaderInv
  <1>3. CASE EndVerifyDB
    <2>1. TypeOK'
      BY <1>1, <1>3 DEF EndVerifyDB, TypeOK, chain, cache, mining
    <2>. QED  BY <1>3, <2>1 DEF EndVerifyDB, StageInv, Connecting, ReaderInv, Idle
  <1>. QED  BY <1>2, <1>3

LEMMA InsertShape == ASSUME Shape, NEW r \in Readers, InsertAnswer(r) PROVE Shape'
  <1> USE DEF Shape
  <1>1. reader[r].quorum \in Quorums /\ NoRead \in [quorum : Quorums \cup {None}, mined : BOOLEAN]
    BY DEF InsertAnswer, ReaderInv, NoRead
  <1>2. TypeOK'
    BY <1>1 DEF InsertAnswer, TypeOK, chain, store, mining
  <1>3. StageInv'
    BY DEF InsertAnswer, StageInv, Connecting, Mines, chain, store
  <1>. QED  BY <1>1, <1>2, <1>3 DEF InsertAnswer, ReaderInv, TypeOK

LEMMA ReadShape == ASSUME Shape, NEW r \in Readers, NEW q \in Quorums, ReadMined(r, q) PROVE Shape'
  <1> USE DEF Shape
  <1>1. TypeOK'
    BY DEF ReadMined, TypeOK, chain, store, cache, mining
  <1>2. StageInv'
    BY DEF ReadMined, StageInv, Connecting, Mines, chain, store
  <1>. QED  BY <1>1, <1>2 DEF ReadMined, ReaderInv, TypeOK

LEMMA OtherShape ==
  ASSUME Shape, UNCHANGED <<chain, main, store, reader, overtaken>>,
         \/ \E c \in Commitments : MakeCommitment(c) \/ ReceiveCommitment(c)
         \/ \E q \in Quorums : LookUp(q) \/ Evict(q)
         \/ UNCHANGED vars
  PROVE  Shape'
  <1> USE DEF Shape
  <1>1. cachedYes' \subseteq Quorums /\ cachedNo' \subseteq Quorums \ cachedYes'
    BY CacheType, CommitmentAssumption
       DEF MakeCommitment, ReceiveCommitment, LookUp, Evict, cache, vars, TypeOK
  <1>2. /\ best' \in [Quorums -> Commitments \cup {None}] /\ minable' \subseteq Commitments
        /\ known' \subseteq Quorums /\ lost' \subseteq known'
    BY AddType DEF MakeCommitment, ReceiveCommitment, LookUp, Evict, mining, vars, TypeOK
  <1>3. TypeOK'
    BY <1>1, <1>2 DEF TypeOK, chain, store
  <1>4. StageInv'
    BY DEF StageInv, Connecting, Mines, chain, store
  <1>. QED  BY <1>3, <1>4 DEF ReaderInv

LEMMA OtherUnchanged ==
  ASSUME \/ \E c \in Commitments : MakeCommitment(c) \/ ReceiveCommitment(c)
         \/ \E q \in Quorums : LookUp(q) \/ Evict(q)
         \/ UNCHANGED vars
  PROVE  UNCHANGED <<chain, main, store, reader, overtaken>>
  BY DEF MakeCommitment, ReceiveCommitment, LookUp, Evict, vars

LEMMA ShapeStep == Shape /\ [Next]_vars => Shape'
  <1> SUFFICES ASSUME Shape, [Next]_vars PROVE Shape'
    OBVIOUS
  <1>1. CASE DisconnectBlock
    BY <1>1, EraseShape DEF DisconnectBlock, Shape, TypeOK
  <1>2. CASE VerifyBlock
    BY <1>2, EraseShape DEF VerifyBlock, Shape, TypeOK
  <1>. QED  BY <1>1, <1>2, ProcessBlockShape, ForgetShape, ConnectTipShape, UndoShape,
               DisconnectTipShape, VerifyShape, InsertShape, ReadShape, OtherShape, OtherUnchanged
            DEF Next

-----------------------------------------------------------------------------
(***************************************************************************)
(* The cache.                                                              *)
(***************************************************************************)

\* between two steps of the other threads: the answer is that of the database
LEMMA AnswerRight ==
  ASSUME Shape, CacheInv, main = Idle, NEW q \in Quorums \ overtaken
  PROVE  /\ HasMinedCommitment(q) <=> db[q] # None
         /\ q \in cachedYes => db[q] # None
         /\ q \in cachedNo => db[q] = None
  BY DEF Shape, TypeOK, CacheInv, Settling, Idle, HasMinedCommitment

LEMMA CacheAnswerInv ==
  ASSUME Shape, CacheInv, main = Idle, NEW p \in Quorums, CacheAnswer(p),
         NEW q \in Quorums \ overtaken
  PROVE  /\ q \in cachedYes' => db[q] # None
         /\ q \in cachedNo' => db[q] = None
  BY AnswerRight DEF CacheAnswer

LEMMA ProcessBlockCache ==
  ASSUME Shape, CacheInv, NEW b \in Blocks, ProcessBlock(b), Shape' PROVE CacheInv'
  <1> SUFFICES ASSUME NEW q \in Quorums \ overtaken, ~Settling(q)'
               PROVE  /\ q \in cachedYes' => view'[q] # None /\ db'[q] # None
                      /\ q \in cachedNo' => view'[q] = None /\ db'[q] = None
    BY DEF CacheInv, ProcessBlock
  <1>1. /\ q \in cachedYes' => db[q] # None
        /\ q \in cachedNo' => db[q] = None
    BY CacheAnswerInv, AnswerRight, QuorumOfType DEF ProcessBlock, cache
  <1>2. db' = db /\ view = db
    BY DEF ProcessBlock, Shape, TypeOK
  <1>3. view'[q] = db[q]
    <2>1. CASE main' = main
      <3>1. view' = db'
        BY <2>1 DEF Shape, TypeOK, ProcessBlock
      <3>. QED  BY <3>1, <1>2
    <2>2. CASE main' # main
      <3>1. main'.block = b /\ Connecting' /\ (main'.pc = "connect" => ~Mines(b, QuorumOf(b)))
        BY <2>2 DEF ProcessBlock, Connecting, Idle
      <3>2. view'[q] = IF Mines(b, q) THEN b ELSE db[q]
        BY <3>1, <1>2 DEF Shape, StageInv, Mines
      <3>3. ~Mines(b, q)
        <4>1. CASE main'.pc = "erase"
          BY <4>1, <3>1 DEF Settling, Mines
        <4>2. CASE main'.pc = "connect"
          BY <4>2, <3>1 DEF Shape, StageInv, Mines, Connecting
        <4>. QED  BY <3>1, <4>1, <4>2 DEF Connecting
      <3>. QED  BY <3>2, <3>3
    <2>. QED  BY <2>1, <2>2
  <1>. QED  BY <1>1, <1>2, <1>3

LEMMA ForgetCache == ASSUME Shape, CacheInv, ForgetCommitment PROVE CacheInv'
  <1>1. \A q \in Quorums \ overtaken : Settling(q) => q \notin cachedYes' \cup cachedNo'
    BY DEF ForgetCommitment, Settling, Mines, EraseAnswer
  <1>. QED  BY <1>1 DEF CacheInv, ForgetCommitment, EraseAnswer, store

LEMMA ConnectTipCache == ASSUME Shape, CacheInv, ConnectTip PROVE CacheInv'
  <1>1. \A q : ~Settling(q)
    BY DEF ConnectTip, Settling
  <1>. QED  BY <1>1 DEF ConnectTip, CacheInv, cache

LEMMA EraseCache ==
  ASSUME Shape, CacheInv, NEW b \in Blocks, NEW verify \in BOOLEAN, EraseMined(b, verify),
         main.pc \in {"idle", "verify"}
  PROVE  CacheInv'
  <1>1. \A q : ~Settling(q)
    BY DEF Settling
  <1>2. \A q \in Quorums : ~Settling(q)' => view'[q] = view[q]
    BY DEF EraseMined, Settling, Mines
  <1>. QED  BY <1>1, <1>2 DEF EraseMined, CacheInv, cache

LEMMA UndoCache == ASSUME Shape, CacheInv, UndoBlock PROVE CacheInv'
  <1>1. \A q \in Quorums \ overtaken : Settling(q) => q \notin cachedYes' \cup cachedNo'
    BY DEF UndoBlock, Settling, Mines, EraseAnswer
  <1>2. cachedYes' \subseteq cachedYes /\ cachedNo' \subseteq cachedNo
    BY DEF UndoBlock, EraseAnswer, cache
  <1>. QED  BY <1>1, <1>2 DEF CacheInv, UndoBlock, store

LEMMA OtherCache ==
  ASSUME Shape, CacheInv, UNCHANGED <<chain, main, store, reader, overtaken>>,
         \/ \E c \in Commitments : MakeCommitment(c) \/ ReceiveCommitment(c)
         \/ \E q \in Quorums : LookUp(q) \/ Evict(q)
         \/ UNCHANGED vars
  PROVE  CacheInv'
  <1>1. CASE \E p \in Quorums : CacheAnswer(p) /\ main = Idle
    <2>1. PICK p \in Quorums : CacheAnswer(p) /\ main = Idle
      BY <1>1
    <2>2. view = db
      BY <2>1 DEF Shape, TypeOK
    <2>. QED  BY <2>1, <2>2, CacheAnswerInv DEF CacheInv, store
  <1>2. CASE cachedYes' \subseteq cachedYes /\ cachedNo' \subseteq cachedNo
    BY <1>2 DEF CacheInv, Settling, Mines, store
  <1>. QED  BY <1>1, <1>2, CommitmentAssumption
            DEF MakeCommitment, ReceiveCommitment, LookUp, Evict, EraseAnswer, cache, vars

LEMMA CacheStep == Shape /\ CacheInv /\ [Next]_vars => CacheInv'
  <1> SUFFICES ASSUME Shape, CacheInv, [Next]_vars PROVE CacheInv'
    OBVIOUS
  <1>0. tip \in Blocks /\ main.block \in Blocks
    BY DEF Shape, TypeOK
  <1>1. CASE DisconnectBlock \/ VerifyBlock
    <2>1. CASE DisconnectBlock
      BY <1>0, <2>1, EraseCache DEF DisconnectBlock, Idle
    <2>2. CASE VerifyBlock
      BY <1>0, <2>2, EraseCache DEF VerifyBlock
    <2>. QED  BY <1>1, <2>1, <2>2
  <1>2. CASE DisconnectTip
    BY <1>2 DEF DisconnectTip, CacheInv, Settling, cache
  <1>3. CASE VerifyDB
    BY <1>3 DEF VerifyDB, CacheInv, Settling, Idle, cache, store
  <1>4. CASE EndVerifyDB
    BY <1>4 DEF EndVerifyDB, CacheInv, Settling, cache
  <1>5. ASSUME NEW r \in Readers, InsertAnswer(r) PROVE CacheInv'
    BY <1>5 DEF InsertAnswer, CacheInv, Settling, Mines, store
  <1>6. ASSUME NEW r \in Readers, NEW q \in Quorums, ReadMined(r, q) PROVE CacheInv'
    BY <1>6 DEF ReadMined, CacheInv, Settling, Mines, cache, store
  <1>. QED  BY <1>1, <1>2, <1>3, <1>4, <1>5, <1>6, ShapeStep, ProcessBlockCache, ForgetCache,
               ConnectTipCache, UndoCache, OtherCache, OtherUnchanged
            DEF Next

-----------------------------------------------------------------------------
(***************************************************************************)
(* The chain.                                                              *)
(***************************************************************************)

LEMMA TreeFacts ==
  ASSUME NEW b \in Blocks \ {Genesis}
  PROVE  /\ Parent[b] \in Blocks /\ b \notin Ancestors[Parent[b]]
         /\ Ancestors[b] = Ancestors[Parent[b]] \cup {b}
  BY TreeAssumption

\* the cache says what the blocks of the chain say
LEMMA RequiredRight ==
  ASSUME Shape, CacheInv, MinedIsOnChain, main = Idle,
         NEW b \in Blocks \ {Genesis}, Parent[b] = tip, QuorumOf(b) \notin overtaken
  PROVE  IsRequired(b) <=> /\ IsMiningPhase(b) /\ QuorumOf(b) # None
                           /\ \A a \in Ancestors[Parent[b]] : ~Mines(a, QuorumOf(b))
  <1> DEFINE q == QuorumOf(b)
  <1>1. CASE q = None
    BY <1>1 DEF IsRequired
  <1>2. CASE q # None
    <2>1. q \in Quorums \ overtaken
      BY <1>2, QuorumOfType
    <2>2. HasMinedCommitment(q) <=> db[q] # None
      BY <2>1, AnswerRight
    <2>3. {a \in Ancestors[tip] : Mines(a, q)} = {db[q]} \ {None}
      BY <2>1 DEF MinedIsOnChain
    <2>4. Ancestors[tip] \subseteq Blocks /\ None \notin Blocks
      BY TreeAssumption, CommitmentAssumption DEF Shape, TypeOK
    <2>5. db[q] = None <=> \A a \in Ancestors[tip] : ~Mines(a, q)
      BY <2>3, <2>4
    <2>. QED  BY <2>2, <2>5, <1>2 DEF IsRequired
  <1>. QED  BY <1>1, <1>2

\* the test of ProcessBlock is the rule
LEMMA TestRight ==
  ASSUME Shape, CacheInv, MinedIsOnChain, main = Idle,
         NEW b \in Blocks \ {Genesis}, Parent[b] = tip, QuorumOf(b) \notin overtaken
  PROVE  Fits(b, Content[b]) <=>
           IF IsRequired(b) THEN Content[b] = Null \/ Mines(b, QuorumOf(b)) ELSE Content[b] = None
  BY RequiredRight DEF Fits, Mines

LEMMA ProcessBlockPending ==
  ASSUME Shape, CacheInv, MinedIsOnChain, NEW b \in Blocks, ProcessBlock(b), main' # main
  PROVE  /\ main'.block = b
         /\ QuorumOf(b) \notin overtaken => Fits(b, Content[b])
         /\ \A q \in Quorums \ overtaken : Mines(b, q) => db[q] = None
  <1>1. /\ main = Idle /\ Parent[b] = tip /\ b # Genesis /\ main'.block = b
        /\ IF IsRequired(b) THEN Content[b] = Null \/ Mines(b, QuorumOf(b)) ELSE Content[b] = None
    BY DEF ProcessBlock, Idle
  <1>2. QuorumOf(b) \notin overtaken => Fits(b, Content[b])
    BY <1>1, TestRight
  <1>3. ASSUME NEW q \in Quorums \ overtaken, Mines(b, q) PROVE db[q] = None
    <2>1. IsRequired(b) /\ q = QuorumOf(b)
      BY <1>1, <1>3, CommitmentAssumption DEF Mines
    <2>. QED  BY <2>1, <1>1, AnswerRight DEF IsRequired
  <1>. QED  BY <1>1, <1>2, <1>3

LEMMA ProcessBlockChain ==
  ASSUME Shape, ChainInv, NEW b \in Blocks, ProcessBlock(b)
  PROVE  MinedIsOnChain' /\ PendingInv' /\ JudgedInv'
  <1> USE DEF ChainInv
  <1>1. /\ UNCHANGED <<tip, db, overtaken>> /\ b # Genesis
        /\ main = Idle /\ Parent[b] = tip
    BY DEF ProcessBlock, chain
  <1>2. MinedIsOnChain'
    BY <1>1 DEF MinedIsOnChain
  <1>3. PendingInv'
    <2>1. CASE main' = main
      BY <2>1, <1>1 DEF PendingInv, Connecting, Idle
    <2>2. CASE main' # main
      BY <2>2, <1>1, ProcessBlockPending DEF PendingInv
    <2>. QED  BY <2>1, <2>2
  <1>4. JudgedInv'
    <2>1. CASE refused' = refused
      BY <2>1, <1>1 DEF JudgedInv
    <2>2. CASE refused' # refused
      <3>1. /\ refused' = refused \cup {b}
            /\ ~(IF IsRequired(b) THEN Content[b] = Null \/ Mines(b, QuorumOf(b))
                                  ELSE Content[b] = None)
        BY <2>2 DEF ProcessBlock, chain
      <3>2. QuorumOf(b) \notin overtaken => ~Fits(b, Content[b])
        BY <3>1, <1>1, TestRight
      <3>. QED  BY <3>1, <3>2, <1>1 DEF JudgedInv
    <2>. QED  BY <2>1, <2>2
  <1>. QED  BY <1>2, <1>3, <1>4

LEMMA ConnectTipChain ==
  ASSUME Shape, ChainInv, ConnectTip
  PROVE  MinedIsOnChain' /\ PendingInv' /\ JudgedInv'
  <1> USE DEF ChainInv
  <1> DEFINE b == main.block
  <1>1. /\ b \in Blocks \ {Genesis} /\ Parent[b] = tip /\ Connecting
        /\ view = [q \in Quorums |-> IF Mines(b, q) THEN b ELSE db[q]]
    BY DEF ConnectTip, Shape, TypeOK, StageInv, Connecting
  <1>2. main' = Idle /\ UNCHANGED <<refused, overtaken>>
    BY DEF ConnectTip
  <1>3. PendingInv'
    BY <1>2 DEF PendingInv, Connecting, Idle
  <1>4. CASE b \in Unsound
    <2>1. UNCHANGED <<tip, db>>
      BY <1>4 DEF ConnectTip
    <2>. QED  BY <1>2, <1>3, <2>1 DEF MinedIsOnChain, JudgedInv
  <1>5. CASE b \notin Unsound
    <2>1. db' = view /\ tip' = b
      BY <1>5 DEF ConnectTip
    <2>2. Ancestors[b] = Ancestors[tip] \cup {b} /\ b \notin Ancestors[tip] /\ None \notin Blocks
      BY <1>1, TreeFacts, CommitmentAssumption
    <2>3. ASSUME NEW q \in Quorums \ overtaken
          PROVE  {a \in Ancestors[b] : Mines(a, q)} = {view[q]} \ {None}
      <3>1. {a \in Ancestors[tip] : Mines(a, q)} = {db[q]} \ {None}
        BY <2>3 DEF MinedIsOnChain
      <3>2. Mines(b, q) => db[q] = None
        BY <1>1, <2>3 DEF PendingInv
      <3>3. view[q] = IF Mines(b, q) THEN b ELSE db[q]
        BY <1>1, <2>3
      <3>. QED  BY <3>1, <3>2, <3>3, <2>2, <1>1
    <2>4. MinedIsOnChain'
      BY <1>2, <2>1, <2>3 DEF MinedIsOnChain
    <2>5. QuorumOf(b) \notin overtaken => Fits(b, Content[b])
      BY <1>1 DEF PendingInv
    <2>6. JudgedInv'
      BY <1>1, <1>2, <2>1, <2>2, <2>5 DEF JudgedInv
    <2>. QED  BY <1>3, <2>4, <2>6
  <1>. QED  BY <1>4, <1>5

LEMMA DisconnectTipChain ==
  ASSUME Shape, ChainInv, DisconnectTip
  PROVE  MinedIsOnChain' /\ PendingInv' /\ JudgedInv'
  <1> USE DEF ChainInv
  <1>1. /\ tip \in Blocks \ {Genesis} /\ tip' = Parent[tip] /\ db' = view /\ main' = Idle
        /\ view = [q \in Quorums |-> IF Mines(tip, q) THEN None ELSE db[q]]
        /\ UNCHANGED <<refused, overtaken>>
    BY DEF DisconnectTip, Shape, TypeOK, StageInv
  <1>2. Ancestors[tip] = Ancestors[Parent[tip]] \cup {tip} /\ tip \notin Ancestors[Parent[tip]]
    BY <1>1, TreeFacts
  <1>3. ASSUME NEW q \in Quorums \ overtaken
        PROVE  {a \in Ancestors[Parent[tip]] : Mines(a, q)} = {view[q]} \ {None}
    <2>1. {a \in Ancestors[tip] : Mines(a, q)} = {db[q]} \ {None}
      BY <1>3 DEF MinedIsOnChain
    <2>2. view[q] = IF Mines(tip, q) THEN None ELSE db[q]
      BY <1>1, <1>3
    <2>. QED  BY <2>1, <2>2, <1>2
  <1>4. MinedIsOnChain'
    BY <1>1, <1>3 DEF MinedIsOnChain
  <1>5. PendingInv'
    BY <1>1 DEF PendingInv, Connecting, Idle
  <1>6. JudgedInv'
    BY <1>1, <1>2 DEF JudgedInv
  <1>. QED  BY <1>4, <1>5, <1>6

\* all other steps leave chain and database alone
LEMMA OtherChain ==
  ASSUME ChainInv, UNCHANGED <<tip, refused, db>>, overtaken \subseteq overtaken',
         Connecting' => Connecting /\ main'.block = main.block
  PROVE  MinedIsOnChain' /\ PendingInv' /\ JudgedInv'
  <1> USE DEF ChainInv
  <1>1. MinedIsOnChain'
    BY DEF MinedIsOnChain
  <1>2. PendingInv'
    BY DEF PendingInv
  <1>3. JudgedInv'
    BY DEF JudgedInv
  <1>. QED  BY <1>1, <1>2, <1>3

LEMMA ChainStep == Shape /\ ChainInv /\ [Next]_vars => ChainInv'
  <1> SUFFICES ASSUME Shape, ChainInv, [Next]_vars PROVE MinedIsOnChain' /\ PendingInv' /\ JudgedInv'
    BY CacheStep DEF ChainInv
  <1>1. CASE ForgetCommitment \/ VerifyDB \/ EndVerifyDB \/ UndoBlock
    <2>1. UNCHANGED <<tip, refused, db, overtaken>>
      BY <1>1 DEF ForgetCommitment, VerifyDB, EndVerifyDB, UndoBlock, chain, store
    <2>2. main \in [pc : {"idle", "erase", "connect", "undo", "disconnect", "verify"},
                   block : Blocks, verify : BOOLEAN]
      BY DEF Shape, TypeOK
    <2>3. CASE ForgetCommitment
      <3>1. Connecting' => Connecting /\ main'.block = main.block
        BY <2>2, <2>3 DEF ForgetCommitment, Connecting
      <3>. QED  BY <2>1, <3>1, OtherChain
    <2>4. CASE VerifyDB \/ EndVerifyDB
      <3>1. ~Connecting'
        BY <2>4 DEF VerifyDB, EndVerifyDB, Connecting, Idle
      <3>. QED  BY <2>1, <3>1, OtherChain
    <2>5. CASE UndoBlock
      <3>1. ~Connecting'
        BY <2>2, <2>5 DEF UndoBlock, Connecting
      <3>. QED  BY <2>1, <3>1, OtherChain
    <2>. QED  BY <1>1, <2>3, <2>4, <2>5
  <1>2. CASE DisconnectBlock \/ VerifyBlock
    <2>1. UNCHANGED <<tip, refused, db, overtaken>> /\ ~Connecting'
      BY <1>2 DEF DisconnectBlock, VerifyBlock, EraseMined, Connecting, chain
    <2>. QED  BY <2>1, OtherChain
  <1>3. ASSUME NEW r \in Readers,
               InsertAnswer(r) \/ \E q \in Quorums : ReadMined(r, q)
        PROVE  MinedIsOnChain' /\ PendingInv' /\ JudgedInv'
    <2>1. UNCHANGED <<tip, refused, db, main>> /\ overtaken \subseteq overtaken'
      BY <1>3 DEF InsertAnswer, ReadMined, chain, store
    <2>. QED  BY <2>1, OtherChain DEF Connecting
  <1>4. CASE \/ \E c \in Commitments : MakeCommitment(c) \/ ReceiveCommitment(c)
             \/ \E q \in Quorums : LookUp(q) \/ Evict(q)
             \/ UNCHANGED vars
    <2>1. UNCHANGED <<tip, refused, db, main, overtaken>>
      BY <1>4, OtherUnchanged DEF chain, store
    <2>. QED  BY <2>1, OtherChain DEF Connecting
  <1>. QED  BY <1>1, <1>2, <1>3, <1>4, ProcessBlockChain, ConnectTipChain, DisconnectTipChain DEF Next

-----------------------------------------------------------------------------
(***************************************************************************)
(* The commitments that can be mined.                                      *)
(***************************************************************************)

LEMMA AddKeepsBest ==
  ASSUME TypeOK, BestInv, NEW c \in Commitments, AddMineableCommitment(c)
  PROVE  /\ BestInv'
         /\ best'[c.quorum] # None
         /\ \A q \in Quorums : best[q] # None => best'[q] # None
         /\ known' = known \cup {c.quorum} /\ lost' = lost \ {c.quorum}
  <1>1. c.quorum \in Quorums /\ c # None /\ best \in [Quorums -> Commitments \cup {None}]
    BY CommitmentAssumption DEF TypeOK
  <1>2. known' = known \cup {c.quorum} /\ lost' = lost \ {c.quorum}
    BY DEF AddMineableCommitment
  <1>3. CASE best[c.quorum] = None \/ c.signers > best[c.quorum].signers
    <2>1. best' = [best EXCEPT ![c.quorum] = c] /\ minable' = minable \cup {c}
      BY <1>3 DEF AddMineableCommitment
    <2>. QED  BY <1>1, <1>2, <2>1 DEF BestInv
  <1>4. CASE ~(best[c.quorum] = None \/ c.signers > best[c.quorum].signers)
    <2>1. best' = best /\ minable' = minable
      BY <1>4 DEF AddMineableCommitment
    <2>. QED  BY <1>1, <1>2, <1>4, <2>1 DEF BestInv
  <1>. QED  BY <1>3, <1>4

\* an addition while the thread with cs_main stands where it is
LEMMA AddKnown ==
  ASSUME Shape, BestInv, KnownInv, NEW c \in Commitments, AddMineableCommitment(c),
         UNCHANGED <<main, db>>
  PROVE  BestInv' /\ KnownInv'
  <1>1. /\ BestInv' /\ best'[c.quorum] # None
        /\ \A q \in Quorums : best[q] # None => best'[q] # None
        /\ known' = known \cup {c.quorum} /\ lost' = lost \ {c.quorum}
    BY AddKeepsBest DEF Shape
  <1>2. known \subseteq Quorums
    BY DEF Shape, TypeOK
  <1>. QED  BY <1>1, <1>2 DEF KnownInv, Mines

LEMMA ProcessBlockKnown ==
  ASSUME Shape, BestInv, KnownInv, NEW b \in Blocks, ProcessBlock(b) PROVE BestInv' /\ KnownInv'
  <1>1. main = Idle /\ UNCHANGED <<db, best, minable, known, lost>>
    BY DEF ProcessBlock, mining
  <1>2. main'.pc # "disconnect"
    BY <1>1 DEF ProcessBlock, Idle
  <1>. QED  BY <1>1, <1>2 DEF BestInv, KnownInv, Idle, Mines

LEMMA ForgetKnown ==
  ASSUME Shape, BestInv, KnownInv, ForgetCommitment PROVE BestInv' /\ KnownInv'
  <1> DEFINE c == Content[main.block]
  <1>1. /\ main.pc = "erase" /\ c \in Commitments /\ main.block \in Blocks
        /\ main \in [pc : {"erase"}, block : Blocks, verify : BOOLEAN]
        /\ best \in [Quorums -> Commitments \cup {None}] /\ known \subseteq Quorums
    BY DEF ForgetCommitment, Shape, StageInv, TypeOK
  <1>2. /\ main' = [main EXCEPT !.pc = "connect"] /\ best' = [best EXCEPT ![c.quorum] = None]
        /\ minable' = minable \ {c} /\ UNCHANGED <<db, known, lost>>
    BY DEF ForgetCommitment, store
  <1>3. c.quorum \in Quorums /\ Mines(main.block, c.quorum) /\ main'.pc = "connect"
        /\ main'.block = main.block
    BY <1>1, <1>2, MinesQuorum
  <1>4. BestInv'
    BY <1>1, <1>2, <1>3 DEF BestInv
  <1>5. KnownInv'
    BY <1>1, <1>2, <1>3 DEF KnownInv, Mines
  <1>. QED  BY <1>4, <1>5

LEMMA ConnectTipKnown ==
  ASSUME Shape, BestInv, KnownInv, ConnectTip PROVE BestInv' /\ KnownInv'
  <1> DEFINE b == main.block
  <1>1. /\ main' = Idle /\ UNCHANGED <<best, minable, known>> /\ known \subseteq Quorums
        /\ b \in Blocks /\ None \notin Blocks
        /\ view = [q \in Quorums |-> IF Mines(b, q) THEN b ELSE db[q]]
    BY CommitmentAssumption DEF ConnectTip, Shape, TypeOK, StageInv, Connecting
  <1>2. \A q \in known : db[q] # None \/ best[q] # None \/ q \in lost \/ Mines(b, q)
    BY DEF KnownInv
  <1>3. main'.pc = "idle"
    BY <1>1 DEF Idle
  <1>4. CASE b \in Unsound
    <2>1. db' = db /\ lost' = lost \cup {q \in known : Mines(b, q) /\ best[q] = None}
      BY <1>4 DEF ConnectTip
    <2>. QED  BY <1>1, <1>2, <1>3, <2>1 DEF BestInv, KnownInv
  <1>5. CASE b \notin Unsound
    <2>1. db' = view /\ lost' = lost
      BY <1>5 DEF ConnectTip
    <2>. QED  BY <1>1, <1>2, <1>3, <2>1 DEF BestInv, KnownInv
  <1>. QED  BY <1>4, <1>5

LEMMA UndoKnown ==
  ASSUME Shape, BestInv, KnownInv, UndoBlock PROVE BestInv' /\ KnownInv'
  <1> DEFINE c == Content[main.block]
  <1>1. /\ main.pc = "undo" /\ main.block \in Blocks /\ known \subseteq Quorums
        /\ main \in [pc : {"undo"}, block : Blocks, verify : BOOLEAN] /\ UNCHANGED db
    BY DEF UndoBlock, Shape, TypeOK, store
  <1>2. /\ main'.pc # "connect"
        /\ main'.pc = "disconnect" => main'.block = main.block
    BY <1>1 DEF UndoBlock
  <1>3. CASE c \notin Commitments
    <2>1. UNCHANGED <<best, minable, known, lost>> /\ \A q : ~Mines(main.block, q)
      BY <1>3 DEF UndoBlock, mining, Mines
    <2>. QED  BY <1>1, <1>2, <2>1 DEF BestInv, KnownInv, Mines
  <1>4. CASE c \in Commitments
    <2>1. /\ BestInv' /\ best'[c.quorum] # None
          /\ \A q \in Quorums : best[q] # None => best'[q] # None
          /\ known' = known \cup {c.quorum} /\ lost' = lost \ {c.quorum}
      BY <1>4, AddKeepsBest DEF UndoBlock, Shape
    <2>2. \A q : Mines(main.block, q) => q = c.quorum
      BY DEF Mines
    <2>. QED  BY <1>1, <1>2, <2>1, <2>2 DEF KnownInv, Mines
  <1>. QED  BY <1>3, <1>4

LEMMA DisconnectTipKnown ==
  ASSUME Shape, BestInv, KnownInv, DisconnectTip PROVE BestInv' /\ KnownInv'
  <1>1. /\ main' = Idle /\ db' = view /\ UNCHANGED <<best, minable, known, lost>>
        /\ view = [q \in Quorums |-> IF Mines(main.block, q) THEN None ELSE db[q]]
        /\ known \subseteq Quorums /\ main.pc = "disconnect"
    BY DEF DisconnectTip, mining, Shape, TypeOK, StageInv
  <1>2. main'.pc = "idle"
    BY <1>1 DEF Idle
  <1>. QED  BY <1>1, <1>2 DEF BestInv, KnownInv

LEMMA KnownStep == Shape /\ BestInv /\ KnownInv /\ [Next]_vars => BestInv' /\ KnownInv'
  <1> SUFFICES ASSUME Shape, BestInv, KnownInv, [Next]_vars PROVE BestInv' /\ KnownInv'
    OBVIOUS
  <1>1. CASE DisconnectBlock \/ VerifyDB \/ VerifyBlock \/ EndVerifyDB
    <2>1. /\ UNCHANGED <<db, best, minable, known, lost>>
          /\ main.pc # "connect" /\ main'.pc # "disconnect"
      BY <1>1 DEF DisconnectBlock, VerifyDB, VerifyBlock, EndVerifyDB, EraseMined, Idle, mining, store
    <2>. QED  BY <2>1 DEF BestInv, KnownInv
  <1>2. ASSUME NEW c \in Commitments, MakeCommitment(c) \/ ReceiveCommitment(c)
        PROVE  BestInv' /\ KnownInv'
    BY <1>2, AddKnown DEF MakeCommitment, ReceiveCommitment, store
  <1>3. ASSUME UNCHANGED <<main, db, mining>> PROVE BestInv' /\ KnownInv'
    BY <1>3 DEF BestInv, KnownInv, mining, Mines
  <1>4. ASSUME NEW q \in Quorums, LookUp(q) \/ Evict(q) PROVE BestInv' /\ KnownInv'
    BY <1>4, <1>3 DEF LookUp, Evict, store
  <1>5. ASSUME NEW r \in Readers, InsertAnswer(r) \/ \E q \in Quorums : ReadMined(r, q)
        PROVE  BestInv' /\ KnownInv'
    BY <1>5, <1>3 DEF InsertAnswer, ReadMined, store
  <1>6. CASE UNCHANGED vars
    BY <1>6, <1>3 DEF vars, store
  <1>. QED  BY <1>1, <1>2, <1>4, <1>5, <1>6, ProcessBlockKnown, ForgetKnown, ConnectTipKnown,
               UndoKnown, DisconnectTipKnown
            DEF Next

-----------------------------------------------------------------------------
(***************************************************************************)
(* The theorems.                                                           *)
(***************************************************************************)

LEMMA InitInv == Init => IInv
  <1> SUFFICES ASSUME Init PROVE IInv
    OBVIOUS
  <1>1. /\ cachedYes = {} /\ cachedNo = {} /\ tip = Genesis /\ refused = {} /\ known = {}
        /\ db = [q \in Quorums |-> None] /\ best = [q \in Quorums |-> None] /\ main.pc = "idle"
    BY DEF Init, Idle
  <1>2. Ancestors[Genesis] = {Genesis} /\ \A q : ~Mines(Genesis, q)
    BY TreeAssumption, CommitmentAssumption DEF Mines
  <1>3. CacheInv /\ PendingInv
    BY <1>1 DEF CacheInv, PendingInv, Connecting
  <1>4. MinedIsOnChain
    BY <1>1, <1>2 DEF MinedIsOnChain
  <1>5. JudgedInv
    BY <1>1, <1>2 DEF JudgedInv
  <1>6. BestInv /\ KnownInv
    BY <1>1 DEF BestInv, KnownInv
  <1>. QED  BY <1>3, <1>4, <1>5, <1>6, ShapeInit DEF IInv, ChainInv

\* Chain, database, cache and minable commitments keep their types, and where the thread
\* with cs_main stands tells what its transaction has changed.
THEOREM Inductive == Spec => []IInv
  <1>1. IInv /\ [Next]_vars => IInv'
    BY ShapeStep, ChainStep, KnownStep DEF IInv
  <1>. QED  BY InitInv, <1>1, PTL DEF Spec

\* Nothing but the types, and no open transaction while the thread is idle.
THEOREM TypeCorrect == Spec => []TypeOK
  <1>1. IInv => TypeOK
    BY DEF IInv, Shape
  <1>. QED  BY <1>1, Inductive, PTL

\* ProcessBlock, ConnectTip, DisconnectTip and VerifyDB: the database holds the one
\* commitment of a quorum that is on the chain.
THEOREM MinedOnce == Spec => []MinedIsOnChain
  <1>1. IInv => MinedIsOnChain
    BY DEF IInv, ChainInv
  <1>. QED  BY <1>1, Inductive, PTL

\* HasMinedCommitment: its cache decides nothing that the blocks do not.
THEOREM CacheDecidesNothing == Spec => []BlocksFollowTheChain
  <1>1. ASSUME IInv PROVE BlocksFollowTheChain
    <2>1. JudgedInv /\ Shape /\ CacheInv /\ MinedIsOnChain /\ BestInv
      BY <1>1 DEF IInv, ChainInv
    <2>2. ASSUME NEW b \in Blocks \ {Genesis}, QuorumOf(b) \notin overtaken,
                 main = Idle, Parent[b] = tip
          PROVE  Fits(b, Mineable(b))
      <3> DEFINE q == QuorumOf(b)
      <3>1. IsRequired(b) <=> /\ IsMiningPhase(b) /\ q # None
                              /\ \A a \in Ancestors[Parent[b]] : ~Mines(a, q)
        BY <2>1, <2>2, RequiredRight
      <3>2. CASE ~IsRequired(b)
        BY <3>1, <3>2 DEF Mineable, Fits
      <3>3. CASE IsRequired(b)
        <4>1. q \in Quorums
          BY <3>1, <3>3, QuorumOfType
        <4>2. best[q] # None => best[q] \in Commitments /\ best[q].quorum = q
          BY <2>1, <4>1 DEF BestInv, Shape, TypeOK
        <4>. QED  BY <3>1, <3>3, <4>2 DEF Mineable, Fits
      <3>. QED  BY <3>2, <3>3
    <2>. QED  BY <2>1, <2>2 DEF BlocksFollowTheChain, JudgedInv
  <1>. QED  BY <1>1, Inductive, PTL

\* AddMineableCommitment, ProcessCommitment, UndoBlock: a known commitment can be mined until
\* it is, and again when its block is undone.
THEOREM KnownCanBeMined == Spec => []KnownStaysMineable
  <1>1. ASSUME IInv PROVE KnownStaysMineable
    <2>1. known \subseteq Quorums /\ (main = Idle => main.pc # "connect")
      BY <1>1 DEF IInv, Shape, TypeOK, Idle
    <2>. QED  BY <1>1, <2>1 DEF IInv, BestInv, KnownInv, KnownStaysMineable
  <1>. QED  BY <1>1, Inductive, PTL
=============================================================================
