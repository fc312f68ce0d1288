--------------------------- MODULE CoinJoinServer ---------------------------
(***************************************************************************)
(* CCoinJoinServer (src/src/coinjoin/server.cpp): the one mixing session    *)
(* of a masternode.  Clients queue up with a collateral (DSACCEPT), submit  *)
(* an entry (DSVIN) when the queue is ready and sign the final transaction  *)
(* (DSSIGNFINALTX).  The message handler runs these; the scheduler runs     *)
(* DoMaintenance every second, which moves the session on, completes it or  *)
(* resets it after a time-out.  Both read and write the session in short    *)
(* critical sections: what one has checked, the other can change.           *)
(*                                                                          *)
(* Clients are honest and stay connected, but any of their messages may     *)
(* come late or never.  A client's inputs, outputs and collateral are the   *)
(* client itself; two outputs of an entry never equal those of another.     *)
(***************************************************************************)
EXTENDS Integers, FiniteSets

CONSTANTS
  Clients,          \* clients of CCoinJoinClientSession, one session each
  MinParticipants,  \* CoinJoin::GetMinPoolParticipants
  MaxParticipants,  \* CoinJoin::GetMaxPoolParticipants
  MaxSessions,      \* bound: sessions in a behaviour
  None              \* no entry

ASSUME ParticipantsAssumption ==
  /\ MinParticipants \in Nat \ {0} /\ MaxParticipants \in Nat /\ MaxSessions \in Nat
  /\ MinParticipants <= MaxParticipants
  /\ IsFiniteSet(Clients) /\ None \notin [client : Clients, session : 0 .. MaxSessions]

VARIABLES
  nState,       \* "idle", "queue", "accepting" or "signing"
  nSessionID,   \* 0 when no session is active
  used,         \* sessions so far; a random number of six digits is taken to be new
  collaterals,  \* vecSessionCollaterals: the clients that were accepted
  vecEntries,   \* entries, each a client and the session the client takes itself to be in
  finalTx,      \* finalMutableTransaction: the entries it was made from, {} when cleared
  signed,       \* fHasSig with the scriptSig: which client has signed which transaction
  expired,      \* GetTime() - nTimeLastSuccessfulStep has reached the time-out
  committed,    \* transactions the mempool has accepted
  stage,        \* a client is "out", "queued", "invited" by a ready queue, or has "sent" its entry
  joined,       \* nSessionID of CCoinJoinClientSession
  asked,        \* DSFINALTX messages
  pc,           \* where the message handler ("msg") and the scheduler ("sched") are
  entry,        \* the client, and its entry, whose DSACCEPT or DSVIN is handled
  raced,        \* history: a thread has changed the session while the other was in a handler
  chargedEarly  \* history: a client was charged before the time-out had passed

session == <<nState, nSessionID, used, collaterals, vecEntries, finalTx, signed, expired>>
network == <<committed, stage, joined, asked>>
threads == <<pc, entry>>
vars    == <<session, network, threads, raced, chargedEarly>>

Threads  == {"msg", "sched"}
States   == {"idle", "queue", "accepting", "signing"}
Stages   == {"out", "queued", "invited", "sent"}
Sessions == 0 .. MaxSessions
Entries  == [client : Clients, session : Sessions]
Txs      == SUBSET Entries

Submitters == {e.client : e \in vecEntries}

\* A step of thread t changes the session; the other thread may be in a handler.
Changes(t) == raced' = (raced \/ \E u \in Threads \ {t} : pc[u] # "idle")

Goto(t, label) == pc' = [pc EXCEPT ![t] = label]

\* HasTimedOut: the same flag for the queue time-out and the signing time-out.
HasTimedOut == nState # "idle" /\ expired

IsSessionReady ==
  \/ nState = "queue" /\ Cardinality(collaterals) >= MaxParticipants
  \/ nState = "queue" /\ HasTimedOut /\ Cardinality(collaterals) >= MinParticipants
  \/ nState = "accepting"

\* SetState, which restarts the clock.
SetState(s) == nState' = s /\ expired' = FALSE

\* Mutant of SetNull: the session number is left standing.
SetNullKeepingNumber ==
  /\ SetState("idle")
  /\ collaterals' = {} /\ vecEntries' = {} /\ finalTx' = {} /\ signed' = {}
  /\ UNCHANGED <<nSessionID, used>>

\* Mutant of SetNull: the server takes the error state, as a client does.
SetNullToError ==
  /\ SetState("error")
  /\ nSessionID' = 0
  /\ collaterals' = {} /\ vecEntries' = {} /\ finalTx' = {} /\ signed' = {}
  /\ UNCHANGED used

\* SetNull of the server, of the session and of the queue manager.
SetNull ==
  /\ SetState("idle")
  /\ nSessionID' = 0
  /\ collaterals' = {} /\ vecEntries' = {} /\ finalTx' = {} /\ signed' = {}
  /\ UNCHANGED used

\* Clients give their session up and ignore what they are asked in it from then on.
Leave(leavers, messages) ==
  /\ stage' = [c \in Clients |-> IF c \in leavers THEN "out" ELSE stage[c]]
  /\ asked' = {m \in messages : m.client \notin leavers}

Init ==
  /\ nState = "idle" /\ nSessionID = 0 /\ used = 0
  /\ collaterals = {} /\ vecEntries = {} /\ finalTx = {} /\ signed = {} /\ expired = FALSE
  /\ committed = {} /\ asked = {} /\ chargedEarly = FALSE /\ raced = FALSE
  /\ stage = [c \in Clients |-> "out"]
  /\ joined = [c \in Clients |-> 0]
  /\ pc = [t \in Threads |-> "idle"]
  /\ entry = None

-----------------------------------------------------------------------------
(* The message handler: DSACCEPT. *)

\* A client in no session sends its collateral; the queue is full or busy and
\* the client is turned away, or the session number is looked at.
ReceiveAccept(c) ==
  /\ pc["msg"] = "idle" /\ stage[c] = "out"
  /\ ~ IsSessionReady
  /\ entry' = [client |-> c, session |-> 0]
  /\ \/ /\ nSessionID = 0 /\ nState = "idle" /\ used < MaxSessions
        /\ used' = used + 1 /\ nSessionID' = used'
        /\ Goto("msg", "opening")
        /\ Changes("msg")
     \/ /\ nSessionID # 0 /\ nState = "queue"
        /\ Goto("msg", "joining")
        /\ UNCHANGED <<used, nSessionID, raced>>
  /\ UNCHANGED <<nState, collaterals, vecEntries, finalTx, signed, expired, network, chargedEarly>>

\* CreateNewSession after the number is drawn: SetState, then sign and relay the queue.
OpenSession ==
  /\ pc["msg"] = "opening"
  /\ SetState("queue")
  /\ Goto("msg", "joining")
  /\ Changes("msg")
  /\ UNCHANGED <<nSessionID, used, collaterals, vecEntries, finalTx, signed, network, entry, chargedEarly>>

\* vecSessionCollaterals.push_back, and STATUS_ACCEPTED with the number and the
\* state of this moment; the client takes the number only while the state is "queue".
JoinSession ==
  /\ pc["msg"] = "joining"
  /\ collaterals' = collaterals \union {entry.client}
  /\ stage' = [stage EXCEPT ![entry.client] = "queued"]
  /\ joined' = [joined EXCEPT ![entry.client] = IF nState = "queue" THEN nSessionID ELSE 0]
  /\ entry' = None
  /\ Goto("msg", "idle")
  /\ Changes("msg")
  /\ UNCHANGED <<nState, nSessionID, used, vecEntries, finalTx, signed, expired,
                 committed, asked, chargedEarly>>

-----------------------------------------------------------------------------
(* The message handler: DSVIN. *)

\* An invited client sends its entry, which is all its message says of the
\* session.  Not ready, full or an input that is there already: STATUS_REJECTED.
\* Otherwise AddEntry validates the entry, outside the lock.
ReceiveEntry(c) ==
  /\ pc["msg"] = "idle" /\ stage[c] = "invited"
  /\ \/ /\ IsSessionReady
        /\ Cardinality(vecEntries) < Cardinality(collaterals)
        /\ c \notin Submitters
        /\ entry' = [client |-> c, session |-> joined[c]]
        /\ stage' = [stage EXCEPT ![c] = "sent"]
        /\ Goto("msg", "adding")
     \/ /\ ~ IsSessionReady \/ Cardinality(vecEntries) >= Cardinality(collaterals) \/ c \in Submitters
        /\ stage' = [stage EXCEPT ![c] = "out"]
        /\ UNCHANGED <<entry, pc>>
  /\ UNCHANGED <<session, committed, joined, asked, raced, chargedEarly>>

\* vecEntries.push_back, then CheckPool.
AddEntry ==
  /\ pc["msg"] = "adding"
  /\ vecEntries' = vecEntries \union {entry}
  /\ entry' = None
  /\ Goto("msg", "pool")
  /\ Changes("msg")
  /\ UNCHANGED <<nState, nSessionID, used, collaterals, finalTx, signed, expired, network, chargedEarly>>

-----------------------------------------------------------------------------
(* The message handler: DSSIGNFINALTX. *)

\* Mutant of Signs: the session of the message is not compared.
SignsForAnySession(m) ==
  stage[m.client] = "sent" /\ [client |-> m.client, session |-> joined[m.client]] \in m.tx

\* SignFinalTransaction of the client: the message is of its session and its own
\* inputs and outputs are in the transaction.
Signs(m) ==
  /\ stage[m.client] = "sent" /\ m.session = joined[m.client]
  /\ [client |-> m.client, session |-> joined[m.client]] \in m.tx

\* AddScriptSig: the signature covers the outputs of all entries of this moment, and
\* the client's entry has none yet.  Otherwise the clients with an entry are told
\* STATUS_REJECTED and give up.
ReceiveSignature(m) ==
  /\ pc["msg"] = "idle" /\ m \in asked /\ Signs(m)
  /\ \/ /\ m.tx = vecEntries /\ m.client \notin {s.client : s \in signed}
        /\ signed' = signed \union {[client |-> m.client, tx |-> m.tx]}
        /\ Goto("msg", "pool")
        /\ Changes("msg")
        /\ asked' = asked \ {m}
        /\ UNCHANGED stage
     \/ /\ m.tx # vecEntries \/ m.client \in {s.client : s \in signed}
        /\ Leave(Submitters, asked \ {m})
        /\ UNCHANGED <<signed, pc, raced>>
  /\ UNCHANGED <<nState, nSessionID, used, collaterals, vecEntries, finalTx, expired,
                 committed, joined, entry, chargedEarly>>

-----------------------------------------------------------------------------
(* CheckPool, which both threads run. *)

\* The handler ends after CheckPool, the scheduler goes on to CheckTimeout.
Return(t) == Goto(t, IF t = "msg" THEN "idle" ELSE "timeout")

EntryForEach == nState = "accepting" /\ Cardinality(vecEntries) = Cardinality(collaterals)

\* Mutant of EnoughInTime: the time-out is not asked for.
EnoughAtOnce == nState = "accepting" /\ Cardinality(vecEntries) >= MinParticipants

EnoughInTime == nState = "accepting" /\ HasTimedOut /\ Cardinality(vecEntries) >= MinParticipants

IsSignaturesComplete == \A e \in vecEntries : \E s \in signed : s.client = e.client

CheckPool(t) ==
  /\ pc[t] = "pool"
  /\ \/ EntryForEach /\ Goto(t, "final")
     \/ ~ EntryForEach /\ EnoughInTime /\ Goto(t, "charge")
     \/ nState = "signing" /\ IsSignaturesComplete /\ Goto(t, "commit")
     \/ /\ ~ EntryForEach /\ ~ EnoughInTime /\ ~ (nState = "signing" /\ IsSignaturesComplete)
        /\ Return(t)
  /\ UNCHANGED <<session, network, entry, raced, chargedEarly>>

\* Who has not sent an entry, or not signed.
Offenders ==
  CASE nState = "accepting" -> collaterals \ Submitters
    [] nState = "signing"   -> Submitters \ {s.client : s \in signed}
    [] OTHER                -> {}

\* ChargeFees: by chance nobody, or one of the offenders unless all are.
ChargeFees(t, next) ==
  /\ \/ UNCHANGED chargedEarly
     \/ /\ Offenders # {} /\ Cardinality(Offenders) < Cardinality(collaterals)
        /\ chargedEarly' = (chargedEarly \/ ~ expired)
  /\ Goto(t, next)
  /\ UNCHANGED <<session, network, entry, raced>>

ChargeAndGoOn(t) == pc[t] = "charge" /\ ChargeFees(t, "final")

\* CreateFinalTransaction: the entries of this moment, and DSFINALTX to their clients.
CreateFinalTransaction(t) ==
  /\ pc[t] = "final"
  /\ finalTx' = vecEntries
  /\ SetState("signing")
  /\ asked' = asked \union
       {[client |-> c, session |-> nSessionID, tx |-> vecEntries] : c \in Submitters}
  /\ Return(t)
  /\ Changes(t)
  /\ UNCHANGED <<nSessionID, used, collaterals, vecEntries, signed,
                 committed, stage, joined, entry, chargedEarly>>

\* Every input carries a signature over the outputs of the transaction.
IsValidTx(tx) ==
  tx # {} /\ tx \notin committed /\ \A e \in tx : [client |-> e.client, tx |-> tx] \in signed

\* CommitFinalTransaction up to its reset: the mempool takes a valid transaction and
\* the clients of the session are told DSCOMPLETE; it is refused when it is not
\* valid or cs_main is busy, and then nobody is told.
CommitFinalTransaction(t) ==
  /\ pc[t] = "commit"
  /\ \/ /\ IsValidTx(finalTx)
        /\ committed' = committed \union {finalTx}
        /\ Leave({c \in Submitters : joined[c] = nSessionID}, asked)
     \/ UNCHANGED <<committed, stage, asked>>
  /\ Goto(t, "reset")
  /\ UNCHANGED <<session, joined, entry, raced, chargedEarly>>

ResetAfterCommit(t) ==
  /\ pc[t] = "reset"
  /\ SetNull
  /\ Return(t)
  /\ Changes(t)
  /\ UNCHANGED <<network, entry, chargedEarly>>

-----------------------------------------------------------------------------
(* The scheduler: DoMaintenance. *)

\* CheckForCompleteQueue, which announces a ready queue to the clients that wait for
\* one of this masternode: a client cannot tell which session is ready.
CheckForCompleteQueue ==
  /\ pc["sched"] = "idle" /\ nState # "idle"
  /\ \/ /\ nState = "queue" /\ IsSessionReady
        /\ SetState("accepting")
        /\ stage' = [c \in Clients |->
             IF stage[c] = "queued" /\ joined[c] # 0 THEN "invited" ELSE stage[c]]
        /\ Changes("sched")
     \/ /\ ~ (nState = "queue" /\ IsSessionReady)
        /\ UNCHANGED <<nState, expired, stage, raced>>
  /\ Goto("sched", "pool")
  /\ UNCHANGED <<nSessionID, used, collaterals, vecEntries, finalTx, signed,
                 committed, joined, asked, entry, chargedEarly>>

CheckTimeout ==
  /\ pc["sched"] = "timeout"
  /\ \/ HasTimedOut /\ Goto("sched", "punish")
     \/ ~ HasTimedOut /\ Goto("sched", "idle")
  /\ UNCHANGED <<session, network, entry, raced, chargedEarly>>

ChargeAndDrop == pc["sched"] = "punish" /\ ChargeFees("sched", "drop")

\* The reset at the end of CheckTimeout.
DropSession ==
  /\ pc["sched"] = "drop"
  /\ SetNull
  /\ Goto("sched", "idle")
  /\ Changes("sched")
  /\ UNCHANGED <<network, entry, chargedEarly>>

-----------------------------------------------------------------------------
(* Time. *)

Expire ==
  /\ nState # "idle" /\ ~ expired
  /\ expired' = TRUE
  /\ UNCHANGED <<nState, nSessionID, used, collaterals, vecEntries, finalTx, signed,
                 network, threads, raced, chargedEarly>>

\* A client waits ten seconds longer than its masternode, then it gives up.
GiveUp(c) ==
  /\ stage[c] # "out" /\ (joined[c] = 0 \/ joined[c] # nSessionID)
  /\ Leave({c}, asked)
  /\ UNCHANGED <<session, committed, joined, threads, raced, chargedEarly>>

Pool(t) ==
  \/ CheckPool(t) \/ ChargeAndGoOn(t) \/ CreateFinalTransaction(t)
  \/ CommitFinalTransaction(t) \/ ResetAfterCommit(t)

\* What the message handler does once it has taken a message.
Handle == OpenSession \/ JoinSession \/ AddEntry \/ Pool("msg")

DoMaintenance ==
  \/ CheckForCompleteQueue \/ Pool("sched") \/ CheckTimeout \/ ChargeAndDrop \/ DropSession

Next ==
  \/ \E c \in Clients : ReceiveAccept(c) \/ ReceiveEntry(c) \/ GiveUp(c)
  \/ \E m \in asked : ReceiveSignature(m)
  \/ Handle
  \/ DoMaintenance
  \/ Expire

Spec == Init /\ [][Next]_vars

\* A handler runs to its end, the scheduler runs DoMaintenance every second and time
\* goes on; clients may fall silent.
Fairness == WF_vars(Handle) /\ WF_vars(DoMaintenance) /\ WF_vars(Expire)

FairSpec == Spec /\ Fairness

-----------------------------------------------------------------------------
(* Properties. *)

TypeOK ==
  /\ nState \in States /\ nSessionID \in Sessions /\ used \in Sessions
  /\ collaterals \subseteq Clients /\ vecEntries \subseteq Entries /\ finalTx \subseteq Entries
  /\ signed \subseteq [client : Clients, tx : Txs]
  /\ expired \in BOOLEAN
  /\ committed \subseteq Txs
  /\ stage \in [Clients -> Stages] /\ joined \in [Clients -> Sessions]
  /\ asked \subseteq [client : Clients, session : Sessions, tx : Txs]
  /\ pc \in [Threads -> {"idle", "opening", "joining", "adding", "pool", "charge", "final",
                         "commit", "reset", "timeout", "punish", "drop"}]
  /\ entry \in Entries \union {None}
  /\ raced \in BOOLEAN
  /\ chargedEarly \in BOOLEAN

\* Unless the two threads have met, the clients are asked to sign the entries the
\* server checks their signatures against, those of at least MinParticipants clients:
\* nobody is mixed with fewer (CheckPool and CreateFinalTransaction).
SigningFits ==
  nState = "signing" /\ ~ raced =>
    finalTx = vecEntries /\ Cardinality(Submitters) >= MinParticipants

\* However late a message comes and whatever the threads do to each other, a
\* transaction the network takes mixes the entries of one session, for its clients
\* sign in their own session only (DSFINALTX of the client, AddScriptSig).
MixesOneSession ==
  \A tx \in committed : \A d, e \in tx : d.session = e.session

\* Unless the two threads have met, no client is charged for an offence before the
\* session's time-out has passed (CheckPool, CheckTimeout, ChargeFees).
NobodyChargedEarly ==
  ~ raced => ~ chargedEarly

\* Whatever the threads do to each other, the server comes back to a state in which
\* a client can open a session (CheckTimeout, CommitFinalTransaction, SetNull).
Recovers == []<>(nState = "idle" /\ nSessionID = 0)
=============================================================================
