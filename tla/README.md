# BabaChain: a verification project in TLA+

BabaChain is a Dash-derived node (`src/src`, C++): a Bitcoin chain with X11
proof of work, masternodes organised in long-living quorums (LLMQ) that sign
with BLS threshold signatures, ChainLocks and InstantSend built on these
signatures, CoinJoin mixing, governance, and a staking layer that BabaChain
adds (`pos.cpp`, parts of `validation.cpp`).  Most of the tree is inherited
(Bitcoin Core's network, wallet and script code) or vendored (leveldb,
secp256k1, the BLS library, mobile wallets).  What makes the node more than a
Bitcoin node, and what is hard to test, is the agreement machinery: how a
quorum comes by its key, who signs what, when a signature counts, what a node
does to its chain and mempool because of it, and which switches (sporks) are
on.  That is what this project models.

## 1. Inventory

### Components that carry the node's own logic

| Component | State | Operations | Who it talks to | What is hard | What makes it correct |
|---|---|---|---|---|---|
| **Quorum signing** `llmq/signing_shares.cpp`, `llmq/signing.cpp` | votes and recovered signatures (disk); pending signs, shares, sessions with attempts (memory) | `AsyncSignIfMember`, `SignPendingSigShares`, `CollectSigSharesToSendConcentrated`, `ProcessSigShare`, `TryRecoverSig`, `Cleanup`, `ProcessRecoveredSig` | called by ChainLocks, InstantSend, EHF, RPC; calls its listeners with every recovered signature | threads without a common lock, crash between vote and share, faulty members, retries, quorum change | a member signs one message per id; two recovered signatures on an id never differ; a signature that honest members ask for is recovered |
| **Recovered-signature database** `CRecoveredSigsDb` in `llmq/signing.cpp` | five key families for signatures, two for votes, three LRU caches | lookups, `WriteRecoveredSig`, `TruncateRecoveredSig`, `CleanupOldRecoveredSigs`, `WriteVoteForId`, `CleanupOldVotes` | used by quorum signing from several threads | the lock covers the caches only: every operation is several steps | key families agree; caches answer what is stored; nothing is dropped early |
| **Distributed key generation** `llmq/dkgsession.cpp`, `dkgsessionhandler.cpp` | phase; contributions, complaints, justifications, commitments seen; secret shares | one start function and one message loop per phase, `FinalizeCommitments` | messages between members; phases follow new tips | members see different messages; faulty members send shares and proofs to some only; a session is aborted by a reorganisation | one key per session; who commits has its share; honest members stay valid; the session succeeds |
| **Quorum commitments** `llmq/blockprocessor.cpp` | mined commitments (evo database), cache of `HasMinedCommitment`, minable commitments | `ProcessBlock`, `ProcessCommitment`, `UndoBlock`, `ProcessMessage`, `AddMineableCommitment`, `GetMineableCommitments` | block connection and disconnection, the DKG, peers, the miner, every look-up of a quorum | look-ups without `cs_main` in the middle of a block; rolled back transactions | one commitment per quorum, undone with its block; a block is judged by the chain below it |
| **ChainLocks** `chainlock/chainlock.cpp`, `chainlock/signing.cpp` | best CLSIG, with and without its block, last announced block, seen CLSIGs, what was signed last | `ProcessNewChainLock`, `AcceptedBlockHeader`, `CheckActiveState`, `EnforceBestChainLock`, `TrySignChainTip`, `HandleNewRecoveredSig`, `Cleanup` | asks quorum signing; steers chain activation; told of headers and tips | CLSIG before or after header or block, three threads, two locks (`cs`, `cs_main`), spork reset | the best lock is tied to its block; a locked block becomes active and stays so |
| **InstantSend** `instantsend/*` | locks by hash, transaction and outpoint, archived locks, pending and parked locks, non-locked transactions | `ProcessInstantSendLock`, `ResolveBlockConflicts`, `RemoveMempoolConflictsForLock`, `TransactionAddedToMempool`, `BlockConnected`/`Disconnected`, `NotifyChainLock`, retry | quorum signing, mempool, validation, ChainLocks | look-up then store with no lock held, notifications that come late, conflicting blocks against ChainLocks | mempool and chain respect the locks; a lock is neither lost nor brought back; a ChainLock prevails |
| **Chain activation** `validation.cpp` | block index with failure and conflict flags, active chain | `AcceptBlockHeader`, `AcceptBlock`, `ActivateBestChain`, `ConnectTip`, `DisconnectTip`, `EnforceBlock`, `MarkConflictingBlock`, `InvalidateBlock`, `ResetBlockFailureFlags`, `VerifyDB` | asks ChainLocks and InstantSend about conflicts | marks against work, lost marks after a restart | no locked block is left for a branch with more work |
| **Sporks** `spork.cpp` | votes by signer and by hash, two caches, `sporks.dat` | `ProcessSpork`, `UpdateSpork`, `IsSporkActive`, `GetSporkValue`, load and store | read everywhere, from all threads | a cache filled after it was cleared; signers changed by `-sporkaddr`; lost messages | one majority; caches that answer it; nodes agree in the end |
| **CoinJoin server and client** `coinjoin/server.cpp`, `client.cpp` | one session: state, entries, collaterals, time; the client's session | `DSACCEPT`, `DSVIN`, `DSSIGNFINALTX`, `CheckPool`, `CheckTimeout`, `ChargeFees` | message handler and scheduler; clients | state read without the lock, late messages of another session | one session per transaction; nobody is charged early; the server is always open again |
| **EHF signalling** `llmq/ehf_signals.cpp` | ids asked for | `trySignEHFSignal`, `HandleNewRecoveredSig` | quorum signing with changing messages | quorum change | a signal is broadcast once per quorum |
| **Governance** `governance/signing.cpp`, `governance.cpp` | triggers and votes (governance.dat), the trigger supported (memory) | `UpdatedBlockTip`, `ProcessVote`, `AddGovernanceObject` | block tips; messages between masternodes; the payments of a superblock | triggers between two lock sections, a memory shorter than the votes, orphan votes | one YES per superblock; what all want is paid |
| **Masternode sync, masternode list, credit pool** | asset state machine; list diffs; pool amounts | ... | chain and network | resets, rollback | functions of the chain |
| **Staking layer, supply and rewards** `pos.cpp`, `validation.cpp` 1575-1840 | stake locks, validators, slashing records (static maps) | register, remove, slash, stake, unstake; reward, distribution | no caller in the build but `CheckProofOfStake` | integer division, no undo | a slashed validator stays out; what is paid is what is earned |

`PROJECT.json` lists all 24 components, those that are not modelled with the
reason, and under "hazards" what in this code is hard to test, at its line.

### How the core interacts

```
  CDKGSession (members' phase threads) --final commitment--> CQuorumBlockProcessor
                                                               | mined, by block
                                                               v
 InstantSend  ChainLockSigner  EHF  RPC     (ask)        quorums of the chain
        \          |          /    /                           |
      CSigSharesManager --shares--> recovery member --> CSigningManager
        |  vote                                             | recovered signature
        v                                                   v
                   CRecoveredSigsDb (leveldb + LRU caches)
                                                            | HandleNewRecoveredSig
   CLSIG message ----> CChainLocksHandler <-----------------+-----> CInstantSendManager <-- ISLOCK
   AcceptedBlockHeader ---^        | EnforceBestChainLock (scheduler)   | ResolveBlockConflicts
                                   v                                    v
              CChainState: EnforceBlock, ActivateBestChain, InvalidateBlock; mempool
                                   |  notifications (scheduler)         ^
                                   +------------------------------------+
   CSporkManager: read by all of them          CCoinJoinServer: mempool, its clients
```

Threads: the message handler ("msghand"), the share worker ("sigshares"), the
signing worker ("recsigs"), the ChainLock scheduler ("cl-schdlr"), the
InstantSend worker ("isman"), one DKG thread per quorum type ("llmq-..."), the
main scheduler, which also delivers the validation notifications, and RPC and
import threads.

## 2. Modules

| Module | What it is |
|---|---|
| `AbstractSigning` | what quorum signing promises: what nodes learn for an id is one message, unlearned only by giving up its records for their age; the promise on an id ends with that, or when a member asks for two messages at once |
| `QuorumSigning`, `MCQuorumSigning`, `QuorumSigningProofs` | the nodes, their databases, threads and the network of `llmq/signing_shares.cpp` and `llmq/signing.cpp`; `Refines` maps it to `AbstractSigning` |
| `RecoveredSigsDb`, `MCRecoveredSigsDb`, `RecoveredSigsDbProofs` | `CRecoveredSigsDb` below it, step by step between lock sections |
| `AbstractKey` | what a DKG session promises: one key is made, once and for good, and a node takes that one or none |
| `DkgSession`, `MCDkgSession`, `DkgSessionProofs` | one DKG session of all members; `MakesOneKey` maps it to `AbstractKey` |
| `QuorumCommitments`, `MCQuorumCommitments`, `QuorumCommitmentsProofs` | `CQuorumBlockProcessor`, the evo database transactions around it and the quorum look-ups |
| `ChainLocks`, `MCChainLocks`, `ChainLocksProofs` | `CChainLocksHandler`, `ChainLockSigner` and the part of `validation.cpp` they steer |
| `InstantSend`, `MCInstantSend`, `InstantSendProofs` | `CInstantSendManager` and its database with the mempool, the chain and the notifications |
| `Sporks`, `MCSporks`, `SporksProofs` | `CSporkManager` on several nodes |
| `CoinJoinServer`, `MCCoinJoinServer`, `CoinJoinServerProofs` | the mixing session of a masternode and its clients |

The modules meet where one assumes what another shows: `ChainLocks` takes its
CLSIGs to be of one branch (`Compatible`) and `InstantSend` has no two locks of
conflicting transactions, which is `NoConflictingRecSigs` of `QuorumSigning`;
`QuorumSigning` takes its quorums as given, of which `DkgSession` shows that they
have one key and the shares for it and `QuorumCommitments` that they are mined
once.

Definitions marked "mutant" or "variant for mutation" are plausible bugs.  They
stand before the definition they replace, and each breaks the property it is
paired with in `PROJECT.json`; none of them is part of a specification.

### QuorumSigning

One state for all honest nodes plus the network.  `vote` is the `rs_v` entry,
`recById` and `recHash` the `rs_r` and `rs_h` entries; these survive a `Crash`,
everything else in a node does not.  A session `[q, id, msg]` stands for its
sign hash.  A recovered signature is the session: BLS threshold signatures are
unique.

| Code | Action |
|---|---|
| `AsyncSignIfMember`, look at the vote | `AsyncSignIfMember` |
| - look at the recovered signatures, write the vote, queue | `CheckRecoveredSig`, `WriteVoteForId`, `AsyncSign`: the code takes no lock between them |
| `SignPendingSigShares`, `CreateSigShare`, `ProcessSigShare`, `TryRecoverSig` | `SignPendingSigShare` |
| `CollectSigSharesToSendConcentrated` | `SendSigShare` |
| `ProcessMessageSigShare`, verification, `ProcessSigShare` | `ReceiveSigShare` |
| `ProcessRecoveredSig`, checks and write | `ProcessRecoveredSig` (or the two share actions), then `WriteRecoveredSig`: two steps, since no lock spans them |
| `Cleanup` | `CleanupSession` |
| `TruncateRecoveredSig` | `TruncateRecoveredSig` |
| `CSigningManager::Cleanup` of signatures and votes past `-maxrecsigsage` | `CleanupOldRecoveredSigs`, `CleanupOldVotes`: at any time, since ages are not modelled here |
| members running other code | a valid share of a faulty member may arrive at any time in `ReceiveSigShare`; `FaultyRecover` |

`CallersOf` says which threads may ask for a signature on an id; `ReSignIds`,
`DiffIds`, `TruncIds` are the ids whose requesters use `allowReSign`,
`allowDiffMsgHashSigning` and truncation.  The threads of a member are inside
`AsyncSignIfMember` at the same time, as InstantSend's are: it asks for the
inputs of a transaction from the validation callbacks and from its worker
(`ProcessPendingRetryLockTxs`).  Two variables are history, of what the code does
not rule out: `loose[n]` are the ids on which a call of n checked for a vote while
another was about to write one for another message, or whose vote was cleaned up
(`Overlaps`, `CleanupOldVotes`); `forgotten` are the ids of which a recovered
signature was cleaned up.  The properties leave these ids open, and nothing else.
`learnedBar` and `releasedBar` map the state to `AbstractSigning`.

### RecoveredSigsDb

One node, one LLMQ type.  A leveldb batch is one step.  `cs_cache` is held only
around the caches, so a lookup is `Lookup` (cache), `ReadDb`, `FillCache`; a
write is `WriteBatch`, `InsertIntoCache`; truncation is `Truncate` (cache),
`TruncateBatch`; the clean-up likewise.  `HasVotedOnId` and `WriteVoteForId` are
two steps of `AsyncSignIfMember`; ids in `DiffIds` may have their vote
overwritten, as `allowDiffMsgHashSigning` permits (`signing_shares.cpp:912`, EHF
signals), and the old key by time stays.  `CleanupOldVotes` reads the old keys,
`CleanupVotesBatch` erases them with the votes of their ids.  `Evict` is the LRU
making room, `Tick` the clock, `Restart` drops caches and calls.

Two variables are history.  `overtaken` are keys of which one thread changed the
database while another had its answer in hand to cache it, or filled the cache
while another was erasing (`DbOvertakes`, `CacheOvertakes`), until the entry is
evicted; `revoted` are ids whose vote was overwritten while a key by time of it
is left.

### DkgSession

All members of one session.  `phase` and `started` say where a node is; `sent`
holds the messages of honest members, `Lies` those a faulty one may send; a
node has `got` some of them, `twice` are senders it caught repeating, `bad` the
members it finds bad, `open` the complaints without an answer, `valid` what it
may sign, `share` the keys it has its share of.

| Code | Action |
|---|---|
| `Contribute` | `SendContributions` |
| `VerifyAndComplain` | `VerifyAndComplain` |
| `VerifyAndJustify` | `VerifyAndJustify` |
| `VerifyAndCommit` | `VerifyAndCommit` |
| `ReceiveMessage` of a phase, for all that arrive in it | `ReceiveContributions`, `ReceiveComplaints`, `ReceiveJustifications`, `ReceiveCommitments` |
| `FinalizeCommitments` | `FinalizeCommitments` |
| `AbortPhaseException` | `Abort` |
| the assertion in `AggregateInsecure` (`bls.cpp:37`) | `died` |

The phase thread of a node is the only one that processes messages, and what a
message does in a phase does not depend on the order of the others, so the
messages of a phase are one step at its end.  What `SleepBeforePhase` processes
before the start function of the next phase is handled there (`Before`):
complaints of a member that repeats itself before `VerifyAndComplain`;
before `VerifyAndJustify`, justifications that are repeated, that nobody asked
for or that are wrong (`MakesBad`), whose sender's complaints are then not
answered.  `Ends` lets each message be missed, and an execution in which nodes are
phases apart is one in lockstep with messages missed, so the run takes `MaxSkew = 0`.  A contribution
carries the members it is `good` for instead of a polynomial and its shares, a
key is the set of contributions it was made of.

### QuorumCommitments

One node, one LLMQ type without rotation: a quorum is the block its DKG starts
at.  `main` is the thread that holds `cs_main`, with the block it works on;
`db` is the mined commitment by quorum as committed, `view` as the evo database
transaction has it, which every thread reads.  `cachedYes` and `cachedNo` are
the two answers in `mapHasMinedCommitmentCache`.

| Code | Action |
|---|---|
| `ConnectTip`, `ProcessBlock`, `ProcessCommitment` up to its write | `ProcessBlock` |
| - the section under `minableCommitmentsCs` | `ForgetCommitment` |
| - the rest of `ConnectBlock`, commit or rollback | `ConnectTip` |
| `DisconnectTip`, `UndoBlock` up to the erase in the cache | `DisconnectBlock` |
| - erase in the cache, `AddMineableCommitment` | `UndoBlock` |
| - commit | `DisconnectTip` |
| `VerifyDB`, which disconnects and rolls back | `VerifyDB`, `VerifyBlock`, `UndoBlock`, `EndVerifyDB` |
| `HandleDKGRound` | `MakeCommitment` |
| `ProcessMessage` of QFCOMMITMENT | `ReceiveCommitment`; one that is added after its long verification is a `MakeCommitment` |
| `HasMinedCommitment` under `cs_main` | part of `ProcessBlock` and `ReceiveCommitment`, `LookUp` |
| - without it (`CQuorumManager::GetQuorum`) | `ReadMined`, `InsertAnswer` |
| LRU cache | `Evict` |

Which block is connected or disconnected next is left open, which covers
reorganisations and `InvalidateBlock`; a failed block is not tried again.

### ChainLocks

One node.  The block tree is a constant and grows into view by
`AcceptBlockHeader` and `AcceptBlock`; the work of a block is its height.
`ProcessNewChainLock` is split where the code releases `cs`: entry with
`CheckActiveState`, `LookupBlockIndex` under `cs_main`, `StoreChainLock` under
`cs`.  `CheckActiveState` is up to three steps: a thread finds that ChainLocks were
off (`wasOff`), stores that they are on, and only then takes `cs` and clears what
is known of ChainLocks (`reset`; `ContinueCheck`).  Another thread may have stored a
CLSIG meanwhile; if the scheduler's job was enforcing it, the history `unlocked`
has its block.  The scheduler's job is split the same way: `StartJob` copies the best
lock, `EnforceBlock`, `ActivateNeeded`, `NotifyChainLock`, `Cleanup`,
`TrySignChainTip`, `AskForSignature` follow as steps.  `ActivateBestChain` is
the outcome of `FindMostWorkChain` and `ActivateBestChainStep` with the flags
they leave behind.  `Restart` keeps the block index and may lose conflict
marks, because `MarkConflictingBlock` does not mark an entry dirty.

### InstantSend

One node that is synced, with the spork on.  The locks are `pending` (not looked
at), with the worker (`work`), `parked` (waiting for their transaction),
`stored` (with their keys by transaction and outpoint), `remembered` (a stored
lock that the caches answer for) or `archived`; `nonLocked` and its outpoints
are the transactions the node watches.  `queue` holds the notifications of
validation and mempool that the scheduler has yet to deliver.

| Thread | Code | Action |
|---|---|---|
| validation, `cs_main` | `AcceptToMemoryPool`, eviction, the conflict check of `ConnectBlock`, the rest of `ConnectTip`, `DisconnectTip`, `EnforceBlock` | `AcceptToMemoryPool`, `EvictFromMempool`, `ConnectBlock`, `ConnectTip`, `Disconnect`, `EnforceBlock` |
| scheduler | `TransactionAddedToMempool`, `TransactionRemovedFromMempool`, `BlockConnected`, `BlockDisconnected`, `NotifyChainLock`, `HandleFullyConfirmedBlock` | the actions of these names, in the order of the queue |
| message handler | `ProcessMessage` of ISLOCK | `ReceiveLock` |
| worker | `ProcessPendingInstantSendLocks`, `ProcessInstantSendLock` | `TakePending`, `Lookup` (transaction and block), `WriteOrPark` |
| worker | `ResolveBlockConflicts`, `RemoveMempoolConflictsForLock` | `ResolveBlockConflicts`, `InvalidateBlock`, `RemoveMempoolConflicts` |

`ConnectBlock` and `ConnectTip` are two steps under one section of `cs_main`
(`connecting` is the block between them): the worker needs only `cs_db` to write
a lock, and the history `late` has those it wrote against the block in between.
`TakePending` takes any part of the pending locks: invalid ones are dropped, and so
is the rest of a batch when a quorum is not found (`instantsend.cpp:288`).  The
worker's steps are what it does between two sections under `cs_main`, the
mempool's or the database's lock.  `WriteOrPark` includes the removal of the
lock's own transaction from `nonLocked`, which follows at once.  A call that
removes several transactions leaves one notification.  The LRU caches of the
database are evicted as one.  Expiry by age leaves locked transactions alone,
so eviction is that of `TrimToSize`.  A block holds one transaction at most.

### Sporks

Several nodes and one spork id.  `active` is `mapSporksActive`, `byHash` is
`mapSporksByHash`, `stored` is `sporks.dat`; `Receive` takes any message that a
node holds, at any time and again.  `IsSporkActive` is `GetSporkValue` (the
value cache, the votes) and `CacheActive` (the second lock section).  `Restart`
loads the file, with or without it being written before, and with any of the
configured signer sets.  The clocks agree, so the rejection of messages from the
future is not modelled; main net ignores sporks that are set, so this is about
the other networks.

### CoinJoinServer

The session of one masternode, two threads inside their handlers (`pc`), and the
clients with their messages.  `raced` is history: a thread changed the session
while the other was inside a handler.

| Code | Action |
|---|---|
| `ProcessDSACCEPT`, `CreateNewSession`, `AddUserToExistingSession` | `ReceiveAccept`, `OpenSession`, `JoinSession` |
| `ProcessDSVIN`, `AddEntry` before and after the validation | `ReceiveEntry`, `AddEntry` |
| `ProcessDSSIGNFINALTX`, `AddScriptSig` | `ReceiveSignature` |
| `CheckPool` and what it calls | `CheckPool`, `ChargeAndGoOn`, `CreateFinalTransaction`, `CommitFinalTransaction`, `ResetAfterCommit` |
| `CheckForCompleteQueue`, `CheckTimeout` | `CheckForCompleteQueue`, `CheckTimeout`, `ChargeAndDrop`, `DropSession` |
| the client's `ProcessPoolStateUpdate`, `SignFinalTransaction`, `CheckTimeout` | `Leave`, `Signs`, `GiveUp` |

Clients are honest; messages may be late or never come.  Validation of inputs
and collaterals succeeds.  What one condition of `CheckPool` reads is read in
one step.

## 3. What the runs show

| Run | Instance | Shows |
|---|---|---|
| `signing` | an honest member that asks from 2 threads and a faulty one, threshold 2, beside an honest node outside the quorum; 2 recovery members, 1 id, 2 messages, re-signing, truncation, clean-up by age, 2 crashes, lost shares, session time-outs | `VoteOnce`: a member signs one message per id, whatever it is asked and wherever it crashes, unless two of its calls overlap or its vote is cleaned up (`loose`); `NoConflictingRecSigs`, likewise; `Refines`: the signing service as its users see it |
| `signing_live` | 4 members, threshold 3, 2 recovery members of which the first is faulty, fair | `EventuallyRecovered`: what the honest members vote for reaches every honest node |
| `recsigdb` | 1 id that may be voted on again, signatures of 2 quorums on it, 2 threads: one processes and cleans up, one looks up, truncates and votes; `MaxAge` 1, `MaxTime` 2 | `Indexed`, `CacheCoherent`, `VoteKeptForMaxAge`, `KeptForMaxAge` |
| `dkg` | 3 honest members and a faulty one that may justify itself early, wrongly or twice, `MinSize` 3, `BadVotes` 2, one message of an honest member missed or one member aborting | `MakesOneKey` (`AbstractKey`), `QuorumCanSign`, `DiesOnlyUnheard`, `HonestStayValid`, `Succeeds` |
| `commitments` | 10 blocks on three branches, 2 quorums, 2 commitments, 1 unsound block, a reader | `MinedIsOnChain`, `BlocksFollowTheChain`, `KnownStaysMineable` |
| `chainlocks_safety` | branches g-a1-a2 and g-b1-b2, CLSIGs for a1 and a2, 2 handler threads, 1 restart | `KnownBestIsIndexed`, `AnnouncedStaysActive`, `NoLockedBlockDisconnected` |
| `chainlocks_live` | the same tree, a CLSIG for a1, 2 handler threads, SPORK_19 changes twice, fair | `EventuallyEnforced` |
| `instantsend` | t1 and t2 spend one coin, t3 spends t1; locks for t1 and t3; blocks a1 with t1, b1 with t2; notifications late by one call, 1 eviction, locks that fail their verification | `MempoolRespectsLocks`, `ConnectedRespectsLocks`, `ChildrenGoToo`, `NoLockLost` |
| `instantsend_live` | a lock for t1, fair | `ChainLockPrevails` |
| `instantsend_conflicts` | as before, without evictions | `CollectsConflicts` does not hold: finding 1 |
| `sporks` | 2 nodes with a key each, 3 signers of which 2 must agree or, after a change, 1 alone; 3 messages, 1 restart, a thread that asks | `OneMajority`, `CachedValueIsMajority`, `OnlyOvertakenGoStale`, `EventuallyAgree` |
| `coinjoin` | 3 clients, 2 sessions, sessions of 2 to 3 clients | `MixesOneSession`, `NobodyChargedEarly`, `Recovers` |

Every module's `TypeOK` is checked in one of its runs.  The passing runs have
from 2·10^4 to 1.8·10^6 distinct states and take up to four minutes each on two
workers of a busy machine.

### Why the bounds are enough

* Signing: one id, because sessions of different ids share no state but the
  worker's time.  Two messages are what a conflict needs.  An honest member and a
  faulty one with threshold two are the smallest quorum in which every recovering
  set has an honest member and the faulty one decides what it completes; with two
  recovery members it also recovers by itself (`FaultyRecover`).  Two threads are
  what an overlap needs.  A crash loses the memory between any two steps, the
  second one what came of the first.  A state in which a vote is loose is checked
  and not continued (`VotesBind`): the properties say nothing of its id any more.
  The theorems hold for any number of all of these.  The live run asks once for
  each signature, since a session signed again starts over (Section 6).
* Database: two signatures (of two quorums) on one id and message is the case
  in which keys of one family are shared; the time bound exceeds `MaxAge` by
  what a clean-up of an old vote or signature beside a rewritten one needs.  Two
  threads share the work as the signing worker and InstantSend do.  States with
  both a vote and a signature, or with two keys overtaken, are checked and not
  continued (`VotesApart`, `FewOvertaken`); votes and signatures share no key.  The
  theorems have neither bound.
* DKG: `OneFault` in `MCDkgSession` bounds how much goes wrong at once: one
  honest member, h1, alone is told the wrong justification or the commitment to
  the key without f1; f1 commits only where no message is missed or repeated; a
  missed message excludes repeats and a wrong justification; if a member aborts,
  f1 only contributes; an objection to a connection is alone.  h2 and h3 are
  symmetric.  The properties are theorems without any of these bounds.
* Commitments: a mining phase of two blocks allows a commitment in its first or
  second block, a null commitment before it, a block that must leave it out and
  one that repeats it; a second branch gives a quorum of its own and a
  reorganisation across the start of the DKG.  A second reader does nothing that
  one cannot do twice.
* ChainLocks: a lock on the first and on the second block of a branch, against
  another branch of the same length, gives every order of CLSIG, header and
  block, a lock that replaces a lock, and a tip above a locked height on the
  other branch.  Two changes of the spork are one off-and-on.  The live run has one
  CLSIG, since a lock that is replaced need not be enforced.
* InstantSend: a conflict needs two transactions, a chain of locks a child; two
  blocks of one height that hold the conflicting transactions meet every path of
  `ResolveBlockConflicts` and of the conflict check in `ConnectBlock`.  With
  `MaxQueue = 1` validation runs ahead of the notifications by one call; a
  longer queue adds states, and the safety theorems hold for any length.  A state
  with an eviction and a lock for the child is checked and not continued
  (`EvictionOrChild`): what an eviction can break is between a transaction, its
  lock and its conflicts.
* Sporks: two of three signers with two nodes that sign is the least in which a
  majority needs two messages and can change; one restart each with a clean and
  an unclean file.
* CoinJoin: two clients make a session, three fill it; a second session is what
  a late message of the first needs.

Deadlock is checked in the ChainLocks and database runs.  In the others the
system may come to rest (everybody has signed, the session is over, nothing is
left to deliver), so they do not check it.

### Fairness

* `QuorumSigning!FairSpec`: every node runs its threads
  (`CSigSharesManager::WorkThreadMain` and the signing manager's worker loop
  until interrupted, `signing_shares.cpp:1578`), asks for a signature if it may,
  and what honest members send arrives.  Faulty members, truncation, clean-up
  and crashes are not fair; session time-outs, losses and crashes are off in
  this run, since a session given up is asked for again by the caller's retry,
  which is not part of it.
* `ChainLocks!FairSpec`: a call of `ProcessNewChainLock` that began goes on, and
  the scheduler thread, which the handler schedules every five seconds, takes
  its steps.  Nothing is assumed of blocks, headers or CLSIGs.
* `InstantSend!FairSpec`: the scheduler delivers, the worker loop works, and the
  ChainLock handler enforces the best ChainLock, every five seconds again.
* `Sporks!FairSpec`: a node that lacks the latest vote of a signer gets it from
  a node that has it.  SPORK messages are announced to all peers, and every node
  asks a new peer with GETSPORKS (`masternode/sync.cpp:185`).
  `EventuallyAgree` requires besides that no signer signs twice in a second and
  that the nodes end with the same `-sporkaddr`.
* `CoinJoinServer!FairSpec`: a handler that began ends, `DoMaintenance` runs
  every second, and time passes.  No client and no message is fair.

### Findings

Finding 1 is a run; the others were met while modelling.  Where one limits a
result, the model has it and the property names it.

1. InstantSend loses conflicts.  `AddNonLockedTx` enters an outpoint with
   `emplace`, which leaves the entry of another transaction in place, and
   `RemoveNonLockedTx` erases the outpoint whoever it belongs to
   (`instantsend.cpp:532`, `594`).  A block with a transaction that conflicts
   with one watched before is then not among the conflicts of the lock, although
   `instantsend.cpp:729` says "Lets first collect all non-locked TXs which
   conflict with the given ISLOCK".
2. `AsyncSignIfMember` reads the vote and writes it 30 lines later with no lock:
   two threads on one id can both sign, with different messages (`loose`).
   InstantSend calls it for an input from the validation callbacks and from its
   worker.
3. Members take the quorum from their own tips; two quorums without enough
   common members may each sign one id (assumption `QuorumIntersection`).
4. A header accepted from RPC or import while a CLSIG is between lookup and
   store is missed by both sides; the lock stays without its block until the
   next CLSIG (assumption `~OtherSubmitters`).
5. `TrySignChainTip` asks `HasConflictingChainLock`, which knows nothing above
   the locked height: a tip above it on the other branch is signed.
6. `RemoveRecoveredSig` erases the cache (`signing.cpp:163`) before its caller
   writes the batch; a lookup of another thread in between caches the signature
   again, and it answers for the truncated one until it is evicted (`overtaken`).
   With truncation, `TruncateRecoveredSig` also leaves the key by time, which then
   removes the next signature on the id early.
7. `IsSporkActive` fills its cache in a second lock section; a spork message in
   between clears the cache first, and the stale "active" stays until the next
   message (`overtaken`; the comment at `spork.cpp:185` is about this cache).
8. CoinJoin entries name no session.  `CheckPool` compares numbers only ("If we
   have an entry for each collateral, then create final tx", `server.cpp:285`):
   a client of a dropped session fills the place of one that was accepted in the
   next, refuses to sign its transaction, and the mix fails.
9. CoinJoin threads change the session under each other (`raced`): a session
   that times out between `CheckPool` and `CheckTimeout` is dropped although it
   was complete, one that a late entry completes is charged and dropped while it
   is signing, an entry checked in one session is added to the next, and `SetNull`
   can come before `RelayCompletedTransaction`.  No transaction mixes
   two sessions for all that, since clients sign for their own only.
10. In the DKG a complaint of a member that is itself found bad counts but is
    not answered (`dkgsession.cpp:671`), so a faulty member that complains about
    all and repeats itself, or sends a wrong or unasked justification before the
    phase starts, can make honest members bad (`NoneIgnored`).
11. The assertion in `AggregateInsecure` (`bls.cpp:37`, from `bls_worker.cpp:305`)
    can be reached by a member that objects to a connection instead of
    complaining, or whose own complaint is not processed before the phase ends.
12. `HasMinedCommitment` caches what it has read in another lock section
    (`blockprocessor.cpp:521`).  `CQuorumManager::GetQuorum` calls it without
    `cs_main`, also while a block or a verification has the transaction open:
    the cache may then keep "mined" or "not mined" against the chain until it is
    evicted, and valid blocks are refused for their commitments (`overtaken`).
13. `ProcessMessage` of a commitment asks "Check if we already got a better one
    locally" (`blockprocessor.cpp:146`) with the comparison the other way round:
    a commitment with at least as many signers as the known one is dropped, and
    one with fewer goes on to the verification.
14. `AddMineableCommitment` assigns the new hash before it erases the old one
    ("new commitment has more signers, so override the known one",
    `blockprocessor.cpp:710`): what it erases is the new entry, which it then
    inserts, and the old one stays.
15. A block that fails after `ProcessCommitment` has taken the minable
    commitment away; the database is rolled back, the commitment is not (`lost`).
16. `signing.h:144` says "votes are removed when the recovered sig is written to
    the db"; they stay until `CleanupOldVotes` finds them older than `maxAge`.
17. A vote that replaces another leaves the old key by time
    (`signing_shares.cpp:937` with `allowDiffMsgHashSigning`, `signing.cpp`,
    `WriteVoteForId`); `CleanupOldVotes` takes the newer vote with it, early
    (`revoted`).
18. `ConnectBlock` checks a block against the locks (`validation.cpp:2926`) under
    `cs_main`; the worker writes locks without it.  A lock written between the
    check and the new tip stays against the connected block until
    `ResolveBlockConflicts` acts on it (`late`).
19. `ProcessPendingInstantSendLocks` returns when it finds no quorum for one lock
    (`instantsend.cpp:288`) and drops all locks it had taken with it; they come back
    only from a peer.
20. `CheckActiveState` turns `isEnabled` on before it takes `cs` to clear what is known
    (`chainlock.cpp:240`).  It erases a CLSIG that another thread stores in between,
    also one that is being enforced (`unlocked`); the CLSIG stays in
    `seenChainLocks`, so that receiving it again does nothing until `Cleanup` drops
    it from there.

## 4. What is proved

Every proof is checked by TLAPS to the last leaf; nothing is assumed but the
`ASSUME`d properties of the constants and what the theorems name.  The
components' `TypeOK` is proved for each of them (`TypeCorrect`).

**Quorum signing** (`QuorumSigningProofs`), for any members, quorums,
thresholds, ids, messages, threads, crashes, losses, time-outs and truncations:

* `Inductive`: `Spec => []IndInv`.  `VoteOnce` is not inductive: a second share
  could come from a queue entry, an attempt to send, or a call in progress.
  `IndInv` says that each of these is backed by the vote on disk (`OwnInv`,
  `CallInv`, `ShareInv`) as long as the vote binds its member, that the calls about
  to write a vote are then for one message (`OverlapInv`), and that every signature,
  accepted, relayed or about to be written, is backed by the votes of a threshold
  of members (`RecInv`).
* `OneVotePerId`: `VoteOnce`, without conditions: its exceptions are those of
  `loose`.
* `RecoveredSigsAgree`: `NoConflictingRecSigs` under `QuorumIntersection`.
* `OneQuorumIntersects`: one quorum of N members, F of them faulty, satisfies
  `QuorumIntersection` if twice its threshold exceeds N + F.
* `Refinement`: `Spec => Refines` under `QuorumIntersection`.  A step that makes a vote
  loose, or cleans records up, maps to `Release` or `Forget`.

**Database** (`RecoveredSigsDbProofs`), for any ids, signatures, threads,
truncations, clean-ups, evictions and restarts: `StoredIsIndexed` (`Indexed`)
and `Inductive`.  `Indexed` is not inductive: a clean-up could take away the
last time key of a signature that it does not remove.  `IndInv` says which time
key belongs to the stored signature, and that a clean-up in progress takes that
key only together with the signature.  It does because a clean-up has read keys
strictly older than the present, and a signature stored since then has a younger
one.  `KeptUnlessLeftOver` (`KeptForMaxAge`) follows from it.

`VotesLast` (`VoteKeptForMaxAge`) rests on `VoteByTime`: an id that is not `revoted`
has at most one key by time and only if it has a vote, so a clean-up that reads
an old key cannot meet a vote that was written later.

`CachesAreRight` (`CacheCoherent`) is for any number of threads: the keys that are not
`overtaken` are answered right.  Its invariant (`InHandRight`) says that what a
thread in the middle of a call is about to insert is what the database holds, and
that what it is erasing is not cached.

**ChainLocks** (`ChainLocksProofs`), for any block tree, CLSIGs, threads, spork
changes and restarts, if the CLSIGs are of one branch (`Compatible`, which is
what quorum signing has to provide) and no header is accepted while the message
handler is inside a CLSIG (`~OtherSubmitters`; finding 4 is why):
`BestIsIndexed` (`KnownBestIsIndexed`) and `Inductive`.  The strengthening says
that a lookup is not outdated when it is stored: the message handler takes no
header meanwhile (`LookedUp`), and the signing worker only handles CLSIGs of
blocks this node signed and therefore knows (`SignedIsKnown`).

`LockedStaysConnected` (`NoLockedBlockDisconnected`) needs besides that the
block a scheduler's job enforces is that of a CLSIG (`JobIsLocked`), so that what
enforcement cuts off is never on the locked branch, and that of two ancestors
of a block the lower is an ancestor of the higher (`HeightAssumption`).

`AnnouncedForGood` (`AnnouncedStaysActive`) holds if the spork does not change
(`MaxSporkChanges = 0`): a change forgets the best ChainLock and, with it, what
was announced.  Even so, two threads that find ChainLocks just turned on may clear
them twice, and the block of a lock erased in between (`unlocked`) is excepted.
`AnnouncedInv` relates what was announced to the job that
announces it and to the lock in force: once the announced block is active, the
lock only ever moves up its branch, and `LockedStaysConnected` keeps it there.

**InstantSend** (`InstantSendProofs`), for any transactions, locks, block tree,
evictions and length of the queue of notifications.  `Inductive` holds together
three facts that need each other: only locks that were stored get archived; the
lock the worker is about to write is in no set; and the lock it is done with
stays where it was put or has moved on.  From these follow `NeverStoredAgain`
(`ArchivedStaysOut`, a part of the invariant), `MempoolClean`
(`MempoolRespectsLocks`, which has to hold of late arrivals and of what a disconnected block returns), `LocksGoWithChildren`
(`ChildrenGoToo`) and `LocksAreKept` (`NoLockLost`).  `ChainRespectsLocks`
(`ConnectedRespectsLocks`) says that a block that becomes the tip has only those
stored locks against it that the worker wrote since the check of `ConnectBlock`;
`ConnectInv` carries this through all that may happen between check and tip.

**Sporks** (`SporksProofs`), for any nodes, signers, values, restarts and
`-sporkaddr`: `NeverTwoMajorities` (`OneMajority`) from `MajorityAssumption`, that
the minimum is above half of the signers, which `SetMinSporkKeys` checks; it has
to hold of votes loaded from a file that other signers wrote, so `Inductive`
says that only signers of the node vote on it.  `ValueCacheIsRight`
(`CachedValueIsMajority`) and `ActiveCacheIsRight` (`OnlyOvertakenGoStale`) need in
addition what a thread between two lock sections holds.

**CoinJoin** (`CoinJoinServerProofs`), for any clients, sessions and interleaving
of the two threads.  `NoSessionsMixed` (`MixesOneSession`) rests on: a signature
belongs to a client with an entry of its session in the transaction it signed.
`ClientsSignWhatFits` and `ChargedAfterTimeout` (`NobodyChargedEarly`) hold unless
the threads have met (`raced`); `QuietInv` says what the session is from where a
thread stands.

**DKG** (`DkgSessionProofs`), for any members, faulty members, messages of
theirs, and anything lost, late or aborted.  The invariant is a conjunction of
parts, each a lemma: `TypeInv`; `KeyInv`, a member has sent one commitment at
most, and behind a final commitment are `MinSize` of them; `ShareInv` and
`WantsShares`, where its shares came from and which it still waits for;
`HonestInv`, what was said of an honest member is true.

* `SessionMakesOneKey`: `MakesOneKey` if twice `MinSize` exceeds the members and
  the faulty ones together: the commitments to two keys then share an honest
  member.  A key is made once `MinSize` members have committed to it, faulty ones
  without anybody hearing of it included; the step from there is that what was
  made stays made (`MadeStay`), that what `FinalizeCommitments` returns has been
  made before (`TakenAreMade`), and that a node takes a key once (`TakenLast`).
* `CommittedMembersCanSign`: `QuorumCanSign`, without conditions.
* `AssertionFailsForTwoReasons`: `DiesOnlyUnheard`; finding 11 is the two reasons.
* `HonestMembersStayValid`: `HonestStayValid` if the faulty members are fewer than
  `BadVotes` and nobody objects to the connection of an honest member.  There are
  four reasons to find a member bad, and the proof refutes each.
* `SessionSucceeds`: `Succeeds` if, besides, the honest members alone are `MinSize`.
  That nodes which saw the same find the same members bad is not inductive: `bad`
  and `open` are the outcome of a history, and the code skips the justifications
  of members it finds bad.  `JudgeInv` says what this history comes to: `bad` is
  exactly those that repeated themselves, did not contribute, were voted out,
  justified themselves unasked or wrongly, in the phase or before it (`EarlyBad`), or
  left a complaint unanswered (`BadExactly`), and for the others the open complaints
  are exactly those without
  a right answer (`OpenExactly`).  `SuccessInv` adds that who could commit has, that
  the valid commitments are those that fit the contributions, and that a key
  without a rival becomes final.

**Quorum commitments** (`QuorumCommitmentsProofs`), for any block tree, commitments
and readers, with failed blocks, reorganisations, verifications and evictions.
The invariant: where the thread with `cs_main` stands tells what its transaction
has changed (`Shape`); an answer in the cache agrees with the transaction and
with what is committed, unless the next step erases it or a reader was overtaken
(`CacheInv`); a block that is being connected passed the checks against what is
committed (`PendingInv`); what was decided about a block is what its branch
holds (`JudgedInv`); what is known can be mined or was mined (`BestInv`,
`KnownInv`). It gives `MinedOnce` (`MinedIsOnChain`), `CacheDecidesNothing`
(`BlocksFollowTheChain`) and `KnownCanBeMined` (`KnownStaysMineable`).

**Only model-checked**: liveness (`EventuallyRecovered`, `EventuallyEnforced`,
`ChainLockPrevails`, `EventuallyAgree`, `Recovers`), which with anything that uses
ENABLED is out of the prover's reach.  Every other property of a passing run is
a theorem under the conditions named above.

## 5. What is not modelled

* Quorum signing without SPORK_21: announcements, share requests and batches
  between all members (the `QSIGSESANN`, `QSIGSHARESINV`, `QGETSIGSHARES` and
  `QBSIGSHARES` messages); the queue and batch verification of incoming
  signatures; banning.
* ChainLocks: the transaction check of `TrySignChainTip` against InstantSend
  (it may refuse a tip; `TrySignChainTip` may refuse any), relay, notification
  to the GUI.
* InstantSend: the masternode that signs locks (`instantsend/signing.cpp`, a user
  of quorum signing with its own retries), the clean-up of the archive 100 blocks
  later, `RejectTransaction`, restarts.
* Sporks: several ids, which share no state but the file; RPC; messages from the
  future.
* CoinJoin: denominations, amounts and the validation of inputs, queue messages
  and their limits, resets inside `RelayStatus`, `ChargeRandomFees`, what a client
  chooses to mix.
* DKG: polynomials and shares as such, relay and bans, quorums of one member,
  the next session and the clean-up of `dkgsessionmgr.cpp`.  The bound on the
  indexes of a justification (`dkgsession.cpp:770`) is `>`, so that an index equal to
  the number of members is not rejected and is used at line 842: what reading
  past the end of `members` gives is not modelled, and `Lies` names members only.
* Quorum commitments: rotation, keys by inversed height and the quorum scan that
  reads them, member selection (a function of a hash), a crash between the flush
  of evodb and that of the coins, `TestBlockValidity`, the reconnection in
  `VerifyDB`.
* Staking: apart from `CheckProofOfStake` the functions of `pos.cpp` have no
  caller, and the reward functions of `validation.cpp` are arithmetic over one
  block without state.  The validator manager, `social/`, wallet synchronisation
  and the network scaler are not listed in `Makefile.am`.
* Cryptography, scripts, coins, the mempool's data structures, wallet,
  peer-to-peer relay, RPC and GUI: inherited, pure functions of large data, or
  I/O.  Most of the repository's lines are these or third-party code, so the
  lines that are modelled are a small share of the tree and a large one of the
  files that the components above name.

## 6. What is left

In order of what matters:

1. Several nodes' ChainLocks on top of `AbstractSigning`, which would discharge
   `Compatible` from one signature per height, and ChainLocks with InstantSend.
2. What of `AnnouncedStaysActive` survives a change of the spork.
3. Signers of InstantSend (`instantsend/signing.cpp`) and EHF signals on quorum
   signing while quorums change.
4. Rotation, and the crash between the two flushes.
5. Governance: the triggers masternodes propose and vote on (the vote that outlives
   a failed superblock, `governance/signing.cpp:293`), then vote replacement and
   orphan votes; masternode synchronisation and the credit pool.
6. A session of quorum signing that is signed again before its back-off is over
   (`signing_shares.cpp:1626`): this needs a clock in `QuorumSigning`.
