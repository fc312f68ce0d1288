------------------------- MODULE QuorumCommitments -------------------------
(***************************************************************************)
(* CQuorumBlockProcessor (src/src/llmq/blockprocessor.cpp): the final      *)
(* commitment of a quorum is mined once.  Commitments that can be mined    *)
(* are kept in memory; whether one was mined is kept in the evo database,  *)
(* which is written in a transaction per block, and in a cache of          *)
(* HasMinedCommitment.  Blocks are processed under cs_main.  The cache and  *)
(* the database have locks of their own, and threads that look up a quorum *)
(* (CQuorumManager::GetQuorum) use them without cs_main.                   *)
(* One LLMQ type without rotation: a quorum is the block its DKG starts at. *)
(***************************************************************************)
EXTENDS Integers, FiniteSets

CONSTANTS
  Blocks, Genesis, Parent, Ancestors, Height,   \* the block tree
  Content,       \* the commitment in a block: one of Commitments, Null or None
  Unsound,       \* blocks that break a rule checked after the commitments
  Commitments,   \* final commitments, records with quorum and signers
  DkgInterval, MiningStart, MiningEnd,          \* LLMQParams
  Readers,       \* threads that look up quorums without cs_main
  Null,          \* the null commitment
  None

Quorums == {b \in Blocks : Height[b] % DkgInterval = 0}

ASSUME TreeAssumption ==
  /\ Genesis \in Blocks /\ Parent \in [Blocks \ {Genesis} -> Blocks]
  /\ Height \in [Blocks -> Nat] /\ DkgInterval \in Nat \ {0}
  /\ Ancestors \in [Blocks -> SUBSET Blocks] /\ Ancestors[Genesis] = {Genesis}
  /\ \A b \in Blocks \ {Genesis} :
       b \notin Ancestors[Parent[b]] /\ Ancestors[b] = Ancestors[Parent[b]] \cup {b}

ASSUME CommitmentAssumption ==
  /\ Null \notin Commitments /\ None \notin Commitments /\ None # Null
  /\ None \notin Blocks
  /\ \A c \in Commitments : c.quorum \in Quorums /\ c.signers \in Nat
  /\ Content \in [Blocks -> Commitments \cup {Null, None}] /\ Content[Genesis] = None

VARIABLES
  tip,           \* of the active chain
  failed,        \* blocks with BLOCK_FAILED_VALID
  main,          \* the thread that holds cs_main
  db,            \* DB_MINED_COMMITMENT: the block that mined the quorum's commitment
  view,          \* the same, as the current evo database transaction sees it
  cachedYes, cachedNo,  \* mapHasMinedCommitmentCache: quorums with true, with false
  best,          \* minableCommitmentsByQuorum
  minable,       \* minableCommitments
  reader,        \* what a thread has read in HasMinedCommitment and not cached yet
  refused,       \* history: blocks that failed for their commitment
  known,         \* history: quorums with a commitment received, made or undone
  lost,          \* history: of these, quorums whose commitment a failed block took away
  overtaken      \* history: quorums of which a thread cached what was not so, or not to last

chain == <<tip, failed, refused>>
store == <<db, view>>
cache == <<cachedYes, cachedNo>>
mining == <<best, minable, known, lost>>
vars == <<chain, main, store, cache, mining, reader, overtaken>>

-----------------------------------------------------------------------------

Idle == [pc |-> "idle", block |-> Genesis, verify |-> FALSE]
NoRead == [quorum |-> None, mined |-> FALSE]

\* GetQuorumBlockHash: the block below b, on its branch, that starts the DKG interval of b
QuorumOf(b) ==
  LET base == {a \in (Ancestors[b] \ {b}) \cap Quorums : Height[b] - Height[a] < DkgInterval}
  IN  IF base = {} THEN None ELSE CHOOSE a \in base : TRUE

IsMiningPhase(b) == (Height[b] % DkgInterval) \in MiningStart .. MiningEnd

Mines(b, q) == Content[b] \in Commitments /\ Content[b].quorum = q

\* the answer of HasMinedCommitment, and what it leaves in the cache
HasMinedCommitment(q) == q \in cachedYes \/ (q \notin cachedNo /\ view[q] # None)
CacheAnswer(q) ==
  IF HasMinedCommitment(q) THEN cachedYes' = cachedYes \cup {q} /\ UNCHANGED cachedNo
                           ELSE cachedNo' = cachedNo \cup {q} /\ UNCHANGED cachedYes
EraseAnswer(q) == cachedYes' = cachedYes \ {q} /\ cachedNo' = cachedNo \ {q}

\* GetNumCommitmentsRequired: one, or none
IsRequired(b) == IsMiningPhase(b) /\ QuorumOf(b) # None /\ ~HasMinedCommitment(QuorumOf(b))

\* A commitment with more signers takes the place of the known one, which
\* remains in minableCommitments: the erase comes after the assignment.
AddMineableCommitment(c) ==
  LET q == c.quorum IN
  /\ IF best[q] = None \/ c.signers > best[q].signers
       THEN best' = [best EXCEPT ![q] = c] /\ minable' = minable \cup {c}
       ELSE UNCHANGED <<best, minable>>
  /\ known' = known \cup {q} /\ lost' = lost \ {q}

TypeOK ==
  /\ tip \in Blocks /\ failed \subseteq Blocks /\ refused \subseteq failed
  /\ main \in [pc : {"idle", "erase", "connect", "undo", "disconnect", "verify"},
               block : Blocks, verify : BOOLEAN]
  /\ db \in [Quorums -> Blocks \cup {None}] /\ view \in [Quorums -> Blocks \cup {None}]
  /\ cachedYes \subseteq Quorums /\ cachedNo \subseteq Quorums \ cachedYes
  /\ best \in [Quorums -> Commitments \cup {None}] /\ minable \subseteq Commitments
  /\ reader \in [Readers -> [quorum : Quorums \cup {None}, mined : BOOLEAN]]
  /\ known \subseteq Quorums /\ lost \subseteq known /\ overtaken \subseteq Quorums
  /\ main = Idle => view = db

Init ==
  /\ tip = Genesis /\ failed = {} /\ refused = {} /\ main = Idle
  /\ db = [q \in Quorums |-> None] /\ view = db
  /\ cachedYes = {} /\ cachedNo = {}
  /\ best = [q \in Quorums |-> None] /\ minable = {} /\ known = {} /\ lost = {}
  /\ reader = [r \in Readers |-> NoRead] /\ overtaken = {}

-----------------------------------------------------------------------------
(***************************************************************************)
(* A block is connected: ConnectTip, ConnectBlock, ProcessBlock.           *)
(***************************************************************************)

\* The checks, and the write of ProcessCommitment into the transaction.
ProcessBlock(b) ==
  LET q == QuorumOf(b)
      fits == IF IsRequired(b) THEN Content[b] = Null \/ Mines(b, q) ELSE Content[b] = None
  IN
  /\ main = Idle /\ b \notin failed \cup {Genesis} /\ Parent[b] = tip
  /\ IF IsMiningPhase(b) /\ q # None THEN CacheAnswer(q) ELSE UNCHANGED cache
  /\ IF fits
       THEN /\ main' = [pc |-> IF Mines(b, q) THEN "erase" ELSE "connect", block |-> b, verify |-> FALSE]
            /\ view' = IF Mines(b, q) THEN [view EXCEPT ![q] = b] ELSE view
            /\ UNCHANGED chain
       ELSE /\ failed' = failed \cup {b} /\ refused' = refused \cup {b}
            /\ UNCHANGED <<tip, main, view>>
  /\ UNCHANGED <<db, mining, reader, overtaken>>

\* Mutant: the index keeps the commitment that was mined.
ForgetUnindexed ==
  LET q == Content[main.block].quorum IN
  /\ main.pc = "erase"
  /\ EraseAnswer(q)
  /\ minable' = minable \ {Content[main.block]}
  /\ main' = [main EXCEPT !.pc = "connect"]
  /\ UNCHANGED <<chain, store, best, known, lost, reader, overtaken>>

\* The end of ProcessCommitment, under minableCommitmentsCs.
ForgetCommitment ==
  LET q == Content[main.block].quorum IN
  /\ main.pc = "erase"
  /\ EraseAnswer(q)
  /\ best' = [best EXCEPT ![q] = None]
  /\ minable' = minable \ {Content[main.block]}
  /\ main' = [main EXCEPT !.pc = "connect"]
  /\ UNCHANGED <<chain, store, known, lost, reader, overtaken>>

\* The rest of ConnectBlock; the transaction is committed or rolled back.
ConnectTip ==
  LET b == main.block IN
  /\ main.pc = "connect"
  /\ main' = Idle
  /\ IF b \in Unsound
       THEN /\ view' = db
            /\ failed' = failed \cup {b}
            /\ lost' = lost \cup {q \in known : Mines(b, q) /\ best[q] = None}
            /\ UNCHANGED <<tip, db>>
       ELSE /\ db' = view
            /\ tip' = b
            /\ UNCHANGED <<failed, view, lost>>
  /\ UNCHANGED <<refused, cache, best, minable, known, reader, overtaken>>

-----------------------------------------------------------------------------
(***************************************************************************)
(* A block is disconnected: DisconnectTip, or VerifyDB, which goes down     *)
(* the chain in a transaction that it rolls back.                          *)
(***************************************************************************)

\* Mutant: the entry of a disconnected block stays.
EraseNothing(b, verify) ==
  /\ b # Genesis
  /\ main' = [pc |-> "undo", block |-> b, verify |-> verify]
  /\ UNCHANGED <<chain, store, cache, mining, reader, overtaken>>

\* UndoBlock: the entry is erased in the transaction.
EraseMined(b, verify) ==
  /\ b # Genesis
  /\ main' = [pc |-> "undo", block |-> b, verify |-> verify]
  /\ view' = [q \in Quorums |-> IF Mines(b, q) THEN None ELSE view[q]]
  /\ UNCHANGED <<chain, db, cache, mining, reader, overtaken>>

DisconnectBlock == main = Idle /\ EraseMined(tip, FALSE)
VerifyDB == main = Idle /\ main' = [pc |-> "verify", block |-> tip, verify |-> TRUE]
            /\ UNCHANGED <<chain, store, cache, mining, reader, overtaken>>
VerifyBlock == main.pc = "verify" /\ EraseMined(main.block, TRUE)

\* Mutant: the answer of before stays in the cache.
UndoKeepsAnswer ==
  LET c == Content[main.block] IN
  /\ main.pc = "undo"
  /\ main' = IF main.verify THEN [main EXCEPT !.pc = "verify", !.block = Parent[@]]
                            ELSE [main EXCEPT !.pc = "disconnect"]
  /\ IF c \in Commitments THEN AddMineableCommitment(c) ELSE UNCHANGED mining
  /\ UNCHANGED <<chain, store, cache, reader, overtaken>>

\* The end of UndoBlock: the answer is erased, the commitment can be mined again.
UndoBlock ==
  LET c == Content[main.block] IN
  /\ main.pc = "undo"
  /\ main' = IF main.verify THEN [main EXCEPT !.pc = "verify", !.block = Parent[@]]
                            ELSE [main EXCEPT !.pc = "disconnect"]
  /\ IF c \in Commitments THEN EraseAnswer(c.quorum) /\ AddMineableCommitment(c)
                          ELSE UNCHANGED <<cache, mining>>
  /\ UNCHANGED <<chain, store, reader, overtaken>>

DisconnectTip ==
  /\ main.pc = "disconnect"
  /\ main' = Idle /\ db' = view /\ tip' = Parent[main.block]
  /\ UNCHANGED <<failed, refused, view, cache, mining, reader, overtaken>>

\* Mutant: what was undone for the verification stays undone.
EndUncleanly ==
  /\ main.pc = "verify"
  /\ main' = Idle
  /\ UNCHANGED <<chain, store, cache, mining, reader, overtaken>>

EndVerifyDB ==
  /\ main.pc = "verify"
  /\ main' = Idle /\ view' = db
  /\ UNCHANGED <<chain, db, cache, mining, reader, overtaken>>

-----------------------------------------------------------------------------
(***************************************************************************)
(* Commitments from the DKG and from peers; look-ups.                      *)
(***************************************************************************)

\* HandleDKGRound, with a commitment of FinalizeCommitments
MakeCommitment(c) ==
  /\ AddMineableCommitment(c)
  /\ UNCHANGED <<chain, main, store, cache, reader, overtaken>>

\* ProcessMessage: a commitment of at least as many signers as the known one
\* is dropped here, any other is verified and offered to AddMineableCommitment.
ReceiveCommitment(c) ==
  LET q == c.quorum IN
  /\ main = Idle
  /\ q \in Ancestors[tip] /\ Height[q] >= Height[tip] - DkgInterval
  /\ CacheAnswer(q)
  /\ ~HasMinedCommitment(q)
  /\ best[q] # None => best[q].signers > c.signers
  /\ AddMineableCommitment(c)
  /\ UNCHANGED <<chain, main, store, reader, overtaken>>

\* HasMinedCommitment of a thread with cs_main: GetMineableCommitments
LookUp(q) ==
  /\ main = Idle
  /\ CacheAnswer(q)
  /\ UNCHANGED <<chain, main, store, mining, reader, overtaken>>

\* HasMinedCommitment of another: the look at cache and database
ReadMined(r, q) ==
  /\ reader[r] = NoRead /\ q \notin cachedYes \cup cachedNo
  /\ reader' = [reader EXCEPT ![r] = [quorum |-> q, mined |-> view[q] # None]]
  /\ UNCHANGED <<chain, main, store, cache, mining, overtaken>>

\* and the answer into the cache
InsertAnswer(r) ==
  LET q == reader[r].quorum
      mined == reader[r].mined
  IN
  /\ reader[r] # NoRead
  /\ reader' = [reader EXCEPT ![r] = NoRead]
  /\ cachedYes' = IF mined THEN cachedYes \cup {q} ELSE cachedYes \ {q}
  /\ cachedNo' = IF mined THEN cachedNo \ {q} ELSE cachedNo \cup {q}
  /\ overtaken' = IF mined = (view[q] # None) /\ mined = (db[q] # None)
                    THEN overtaken ELSE overtaken \cup {q}
  /\ UNCHANGED <<chain, main, store, mining>>

\* the cache makes room
Evict(q) ==
  /\ q \in cachedYes \cup cachedNo
  /\ EraseAnswer(q)
  /\ UNCHANGED <<chain, main, store, mining, reader, overtaken>>

Next ==
  \/ \E b \in Blocks : ProcessBlock(b)
  \/ ForgetCommitment \/ ConnectTip
  \/ DisconnectBlock \/ UndoBlock \/ DisconnectTip
  \/ VerifyDB \/ VerifyBlock \/ EndVerifyDB
  \/ \E c \in Commitments : MakeCommitment(c) \/ ReceiveCommitment(c)
  \/ \E q \in Quorums : LookUp(q) \/ Evict(q)
  \/ \E r \in Readers : InsertAnswer(r) \/ \E q \in Quorums : ReadMined(r, q)

Spec == Init /\ [][Next]_vars

-----------------------------------------------------------------------------

\* One commitment of a quorum is on the chain at most, and the database holds that one,
\* through failed and disconnected blocks and verifications, unless the cache was
\* overtaken.  "After the non-null commitment, no other commitments are allowed"
MinedIsOnChain ==
  \A q \in Quorums \ overtaken : {b \in Ancestors[tip] : Mines(b, q)} = {db[q]} \ {None}

\* what the rules want in the place of b, by the chain below it
Fits(b, x) ==
  LET q == QuorumOf(b) IN
  IF IsMiningPhase(b) /\ q # None /\ \A a \in Ancestors[Parent[b]] : ~Mines(a, q)
    THEN x = Null \/ (x \in Commitments /\ x.quorum = q)
    ELSE x = None

\* GetMineableCommitments, for the block that this node would put in the place of b
Mineable(b) ==
  IF ~IsRequired(b) THEN None ELSE IF best[QuorumOf(b)] = None THEN Null ELSE best[QuorumOf(b)]

\* What the cache answers makes no difference to the chain: a block is refused, connected
\* or made as the commitments in the blocks below it demand, unless the cache was overtaken.
BlocksFollowTheChain ==
  \A b \in Blocks \ {Genesis} : QuorumOf(b) \notin overtaken =>
    /\ b \in refused => ~Fits(b, Content[b])
    /\ b \in Ancestors[tip] => Fits(b, Content[b])
    /\ main = Idle /\ Parent[b] = tip => Fits(b, Mineable(b))

\* Of a quorum whose commitment was received, made or undone, one can be mined or was:
\* "if a reorg happened, we should allow to mine this commitment later".  A block that fails
\* after its commitments were processed takes the commitment away.
KnownStaysMineable ==
  \A q \in known : /\ main = Idle => db[q] # None \/ best[q] # None \/ q \in lost
                   /\ best[q] # None => best[q] \in minable /\ best[q].quorum = q

=============================================================================
