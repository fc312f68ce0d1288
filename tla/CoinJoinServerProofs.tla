------------------------ MODULE CoinJoinServerProofs ------------------------
(***************************************************************************)
(* For any finite set of clients and any number of participants and        *)
(* sessions: types; that a transaction the network takes mixes one session *)
(* whatever the threads do; and, while the threads have not met, that      *)
(* clients sign what the server checks and are not charged early.          *)
(***************************************************************************)
EXTENDS CoinJoinServer, FiniteSetTheorems, TLAPS

-----------------------------------------------------------------------------
(* What is invariant. *)

\* The entry of the client of a message, in the session of the message.
Own(r) == [client |-> r.client, session |-> r.session]

OneEach(es) == \A d, e \in es : d.client = e.client => d = e

\* The handler has the client whose message it handles.
HasEntry == pc["msg"] \in {"opening", "joining", "adding"} => entry # None

\* Entries: one for each client, of a session that has begun.
EntriesInv ==
  /\ IsFiniteSet(vecEntries)
  /\ OneEach(vecEntries)
  /\ \A e \in vecEntries : e.session \in 1 .. used
  /\ pc["msg"] = "adding" => entry.session \in 1 .. used /\ entry.client \notin Submitters
  /\ \A m \in asked : OneEach(m.tx)
  /\ \A s \in signed : OneEach(s.tx)

\* A client that may still send an entry for its session has not done so.
Waiting(c, s) == stage[c] \in {"queued", "invited"} /\ joined[c] = s

WaitingInv ==
  /\ \A e \in vecEntries : ~ Waiting(e.client, e.session)
  /\ pc["msg"] = "adding" => ~ Waiting(entry.client, entry.session)
  /\ \A m \in asked : Own(m) \in m.tx => ~ Waiting(m.client, m.session)

\* Sessions begin with a fresh number, and nobody is beyond the queue of a session
\* that is being opened or has its queue open.
SessionInv ==
  /\ nSessionID <= used
  /\ \A c \in Clients : joined[c] <= used
  /\ \A m \in asked : m.session <= used /\ (Own(m) \in m.tx => m.session # 0)
  /\ \A c \in Clients : stage[c] \in {"invited", "sent"} => joined[c] # 0
  /\ pc["msg"] = "opening" => nState \in {"idle", "signing"}
  /\ nSessionID # 0 /\ (nState = "queue" \/ pc["msg"] = "opening") =>
       /\ \A c \in Clients : stage[c] \in {"invited", "sent"} => joined[c] # nSessionID
       /\ \A e \in vecEntries : e.session # nSessionID
       /\ pc["msg"] = "adding" => entry.session # nSessionID
       /\ \A m \in asked : Own(m) \in m.tx => m.session # nSessionID

\* Who can still sign the entries of this moment was asked in this session.
SigningInv ==
  /\ \A m \in asked : Own(m) \in m.tx =>
       /\ Own(m) \in vecEntries => m.session = nSessionID
       /\ pc["msg"] = "adding" => entry # Own(m)
  /\ \A s \in signed : nSessionID # 0 /\ [client |-> s.client, session |-> nSessionID] \in s.tx

\* While the threads have not met, a handler acts on the session it has looked at.
Quiet ==
  /\ pc["msg"] = "joining" => nState = "queue"
  /\ pc["msg"] = "opening" => nState = "idle"
  /\ pc["msg"] = "adding"  => nState \in {"queue", "accepting"}
  /\ nState = "accepting"  => Cardinality(collaterals) >= MinParticipants
  /\ nState = "signing"    => finalTx = vecEntries /\ Cardinality(vecEntries) >= MinParticipants
  /\ \A t \in Threads :
       /\ pc[t] \in {"final", "charge"} =>
            nState = "accepting" /\ Cardinality(vecEntries) >= MinParticipants
       /\ pc[t] \in {"charge", "punish"} => expired
  /\ ~ chargedEarly

QuietInv == ~ raced => Quiet

Inv == EntriesInv /\ WaitingInv /\ SessionInv /\ SigningInv

IInv == TypeOK /\ HasEntry /\ Inv /\ MixesOneSession /\ QuietInv
-----------------------------------------------------------------------------
(* Types. *)

LEMMA NoSession == 0 \in Sessions /\ None \notin Entries
  BY ParticipantsAssumption DEF Sessions, Entries

LEMMA SetNullType ==
  ASSUME TypeOK, SetNull
  PROVE  /\ nState' \in States /\ nSessionID' \in Sessions /\ used' \in Sessions
         /\ collaterals' \subseteq Clients /\ vecEntries' \subseteq Entries
         /\ finalTx' \subseteq Entries /\ signed' \subseteq [client : Clients, tx : Txs]
         /\ expired' \in BOOLEAN
  <1>1. nState' = "idle" /\ expired' = FALSE /\ nSessionID' = 0 /\ used' = used
    BY DEF SetNull, SetState
  <1>2. collaterals' = {} /\ vecEntries' = {} /\ finalTx' = {} /\ signed' = {}
    BY DEF SetNull
  <1>3. used \in Sessions
    BY DEF TypeOK
  <1>. QED  BY <1>1, <1>2, <1>3, NoSession DEF States

LEMMA LeaveType ==
  ASSUME TypeOK, NEW L, NEW M \in SUBSET asked, Leave(L, M)
  PROVE  /\ stage' \in [Clients -> Stages]
         /\ asked' \subseteq [client : Clients, session : Sessions, tx : Txs]
  BY DEF TypeOK, Leave, Stages

LEMMA GotoType ==
  ASSUME TypeOK, NEW t \in Threads,
         NEW label \in {"idle", "opening", "joining", "adding", "pool", "charge", "final",
                        "commit", "reset", "timeout", "punish", "drop"},
         Goto(t, label)
  PROVE  pc' \in [Threads -> {"idle", "opening", "joining", "adding", "pool", "charge", "final",
                              "commit", "reset", "timeout", "punish", "drop"}]
  BY DEF TypeOK, Goto

LEMMA ChangesType ==
  ASSUME TypeOK, NEW t \in Threads, Changes(t)
  PROVE  raced' \in BOOLEAN
  BY DEF TypeOK, Changes

\* What CheckPool and its steps leave alone.
LEMMA PoolType ==
  ASSUME TypeOK, HasEntry, NEW t \in Threads, Pool(t)
  PROVE  TypeOK' /\ HasEntry'
  <1> USE DEF session, network, threads
  <1>1. CASE CheckPool(t)
    BY <1>1, GotoType DEF TypeOK, HasEntry, CheckPool, Return, Goto, Threads
  <1>2. CASE ChargeAndGoOn(t)
    BY <1>2, GotoType DEF TypeOK, HasEntry, ChargeAndGoOn, ChargeFees, Goto, Threads
  <1>3. CASE CreateFinalTransaction(t)
    <2>1. asked' \subseteq [client : Clients, session : Sessions, tx : Txs]
      BY <1>3 DEF TypeOK, CreateFinalTransaction, Submitters, Txs, Entries
    <2>. QED  BY <1>3, <2>1, GotoType, ChangesType
              DEF TypeOK, HasEntry, CreateFinalTransaction, SetState, States, Return, Goto, Threads
  <1>4. CASE CommitFinalTransaction(t)
    <2>1. stage' \in [Clients -> Stages] /\ asked' \subseteq [client : Clients, session : Sessions, tx : Txs]
      BY <1>4, LeaveType DEF TypeOK, CommitFinalTransaction
    <2>2. committed' \subseteq Txs
      BY <1>4 DEF TypeOK, CommitFinalTransaction, Txs
    <2>. QED  BY <1>4, <2>1, <2>2, GotoType DEF TypeOK, HasEntry, CommitFinalTransaction, Goto, Threads
  <1>5. CASE ResetAfterCommit(t)
    BY <1>5, SetNullType, GotoType, ChangesType
       DEF TypeOK, HasEntry, ResetAfterCommit, Return, Goto, Threads
  <1>. QED  BY <1>1, <1>2, <1>3, <1>4, <1>5 DEF Pool

LEMMA TypeStep == TypeOK /\ HasEntry /\ [Next]_vars => TypeOK' /\ HasEntry'
  <1> SUFFICES ASSUME TypeOK, HasEntry, [Next]_vars PROVE TypeOK' /\ HasEntry'
    OBVIOUS
  <1> USE DEF session, network, threads
  <1>0. "msg" \in Threads /\ "sched" \in Threads
    BY DEF Threads
  <1>1. ASSUME NEW c \in Clients, ReceiveAccept(c) PROVE TypeOK' /\ HasEntry'
    <2>1. entry' \in Entries /\ entry' # None
      BY <1>1, ParticipantsAssumption DEF ReceiveAccept, Entries, Sessions
    <2>2. nSessionID' \in Sessions /\ used' \in Sessions
      BY <1>1, ParticipantsAssumption DEF TypeOK, ReceiveAccept, Sessions
    <2>3. raced' \in BOOLEAN
      BY <1>0, <1>1, ChangesType DEF ReceiveAccept, TypeOK
    <2>4. Goto("msg", "opening") \/ Goto("msg", "joining")
      BY <1>1 DEF ReceiveAccept
    <2>. QED  BY <1>0, <1>1, <2>1, <2>2, <2>3, <2>4, GotoType DEF TypeOK, HasEntry, ReceiveAccept
  <1>2. CASE OpenSession
    <2>1. entry' = entry /\ pc["msg"] = "opening" /\ SetState("queue")
      BY <1>2 DEF OpenSession
    <2>2. nState' \in States /\ expired' \in BOOLEAN
      BY <2>1 DEF SetState, States
    <2>3. HasEntry'
      BY <1>2, <2>1 DEF OpenSession, HasEntry
    <2>. QED  BY <1>0, <1>2, <2>2, <2>3, ChangesType, GotoType DEF TypeOK, OpenSession
  <1>3. CASE JoinSession
    <2>1. entry.client \in Clients
      BY <1>3 DEF TypeOK, HasEntry, JoinSession, Entries
    <2>2. joined' \in [Clients -> Sessions] /\ stage' \in [Clients -> Stages]
      BY <1>3, NoSession DEF TypeOK, JoinSession, Stages
    <2>. QED  BY <1>0, <1>3, <2>1, <2>2, ChangesType, GotoType
              DEF TypeOK, HasEntry, JoinSession, Goto
  <1>4. ASSUME NEW c \in Clients, ReceiveEntry(c) PROVE TypeOK' /\ HasEntry'
    <2>1. CASE Goto("msg", "adding") /\ entry' = [client |-> c, session |-> joined[c]]
      <3>1. entry' \in Entries /\ entry' # None
        BY <2>1, ParticipantsAssumption DEF TypeOK, Entries, Sessions
      <3>. QED  BY <1>0, <1>4, <2>1, <3>1, GotoType DEF TypeOK, HasEntry, ReceiveEntry, Stages
    <2>2. CASE UNCHANGED <<entry, pc>>
      BY <1>4, <2>2 DEF TypeOK, HasEntry, ReceiveEntry, Stages
    <2>. QED  BY <1>4, <2>1, <2>2 DEF ReceiveEntry
  <1>5. CASE AddEntry
    <2>1. entry \in Entries
      BY <1>5 DEF TypeOK, HasEntry, AddEntry
    <2>. QED  BY <1>0, <1>5, <2>1, ChangesType, GotoType DEF TypeOK, HasEntry, AddEntry, Goto
  <1>6. ASSUME NEW m \in asked, ReceiveSignature(m) PROVE TypeOK' /\ HasEntry'
    <2>1. m.client \in Clients /\ m.tx \in Txs
      BY DEF TypeOK
    <2>2. signed' \subseteq [client : Clients, tx : Txs]
      BY <1>6, <2>1 DEF TypeOK, ReceiveSignature
    <2>3. stage' \in [Clients -> Stages] /\ asked' \subseteq [client : Clients, session : Sessions, tx : Txs]
      BY <1>6, LeaveType DEF TypeOK, ReceiveSignature
    <2>. QED  BY <1>0, <1>6, <2>2, <2>3, ChangesType, GotoType DEF TypeOK, HasEntry, ReceiveSignature, Goto
  <1>7. CASE Pool("msg") \/ Pool("sched")
    BY <1>0, <1>7, PoolType
  <1>8. CASE CheckForCompleteQueue
    BY <1>0, <1>8, ChangesType, GotoType
       DEF TypeOK, HasEntry, CheckForCompleteQueue, SetState, States, Stages, Goto
  <1>9. CASE CheckTimeout \/ ChargeAndDrop
    BY <1>0, <1>9, GotoType DEF TypeOK, HasEntry, CheckTimeout, ChargeAndDrop, ChargeFees, Goto
  <1>10. CASE DropSession
    BY <1>0, <1>10, SetNullType, GotoType, ChangesType DEF TypeOK, HasEntry, DropSession, Goto
  <1>11. CASE Expire
    BY <1>11 DEF TypeOK, HasEntry, Expire
  <1>12. ASSUME NEW c \in Clients, GiveUp(c) PROVE TypeOK' /\ HasEntry'
    BY <1>12, LeaveType DEF TypeOK, HasEntry, GiveUp
  <1>13. CASE UNCHANGED vars
    BY <1>13 DEF TypeOK, HasEntry, vars
  <1>. QED
    BY <1>1, <1>2, <1>3, <1>4, <1>5, <1>6, <1>7, <1>8, <1>9, <1>10, <1>11, <1>12, <1>13
    DEF Next, Handle, DoMaintenance

\* The session, the clients and the two threads keep their types.
THEOREM TypeCorrect == Spec => []TypeOK
  <1>1. Init => TypeOK /\ HasEntry
    BY NoSession DEF Init, TypeOK, HasEntry, States, Stages, Threads
  <1>. QED  BY <1>1, TypeStep, PTL DEF Spec

-----------------------------------------------------------------------------
(* Entries, clients and requests to sign: one lemma for each action that   *)
(* disturbs them, one for the steps that do not, one for the resets.       *)

LEMMA PcAfter ==
  ASSUME TypeOK, NEW t \in Threads, NEW label, Goto(t, label)
  PROVE  pc'[t] = label /\ \A u \in Threads \ {t} : pc'[u] = pc[u]
  BY DEF TypeOK, Goto

\* A step that opens no session, sends no entry and asks nobody to sign.
Plain ==
  /\ UNCHANGED <<vecEntries, used, nSessionID, joined, signed>>
  /\ asked' \subseteq asked
  /\ pc'["msg"] \in {"opening", "adding"} => pc'["msg"] = pc["msg"] /\ entry' = entry
  /\ \A c \in Clients : stage'[c] # "out" => stage'[c] = stage[c]
  /\ nState' = "queue" => nState = "queue"
  /\ pc'["msg"] = "opening" => nState' \in {"idle", "signing"}

LEMMA PlainStep ==
  ASSUME TypeOK, HasEntry, Inv, Plain
  PROVE  Inv'
  <1>1. /\ asked \subseteq [client : Clients, session : Sessions, tx : Txs]
        /\ vecEntries \subseteq Entries
        /\ pc["msg"] = "adding" => entry \in Entries
    BY DEF TypeOK, HasEntry
  <1>2. \A c \in Clients : \A k : Waiting(c, k)' => Waiting(c, k)
    BY DEF Plain, Waiting
  <1>3. EntriesInv'
    BY DEF Inv, EntriesInv, Plain, Submitters
  <1>4. WaitingInv'
    <2>1. \A e \in vecEntries' : ~ Waiting(e.client, e.session)'
      BY <1>1, <1>2 DEF Inv, WaitingInv, Plain, Entries
    <2>2. pc'["msg"] = "adding" => ~ Waiting(entry.client, entry.session)'
      BY <1>1, <1>2 DEF Inv, WaitingInv, Plain, Entries
    <2>3. \A m \in asked' : Own(m) \in m.tx => ~ Waiting(m.client, m.session)'
      BY <1>1, <1>2 DEF Inv, WaitingInv, Plain
    <2>. QED  BY <2>1, <2>2, <2>3 DEF WaitingInv, Waiting
  <1>5. SessionInv'
    <2>1. nState' = "queue" \/ pc'["msg"] = "opening" => nState = "queue" \/ pc["msg"] = "opening"
      BY DEF Plain
    <2>2. \A c \in Clients : stage'[c] \in {"invited", "sent"} => stage[c] \in {"invited", "sent"}
      BY DEF Plain
    <2>3. pc'["msg"] = "adding" => pc["msg"] = "adding" /\ entry' = entry
      BY DEF Plain
    <2>. QED  BY <2>1, <2>2, <2>3 DEF Inv, SessionInv, Plain
  <1>6. SigningInv'
    BY DEF Inv, SigningInv, Plain
  <1>. QED  BY <1>3, <1>4, <1>5, <1>6 DEF Inv

LEMMA ResetStep ==
  ASSUME TypeOK, HasEntry, Inv, SetNull, UNCHANGED <<stage, joined, asked, entry>>,
         pc'["msg"] \in {"opening", "adding"} => pc'["msg"] = pc["msg"]
  PROVE  Inv'
  <1>1. nState' = "idle" /\ nSessionID' = 0 /\ used' = used /\ vecEntries' = {} /\ signed' = {}
    BY DEF SetNull, SetState
  <1>2. used \in Nat
    BY ParticipantsAssumption DEF TypeOK, Sessions
  <1>3. EntriesInv'
    BY <1>1, FS_EmptySet DEF Inv, EntriesInv, OneEach, Submitters
  <1>4. WaitingInv'
    BY <1>1 DEF Inv, WaitingInv, Waiting
  <1>5. SessionInv'
    BY <1>1, <1>2 DEF Inv, SessionInv
  <1>6. SigningInv'
    BY <1>1 DEF Inv, SigningInv
  <1>. QED  BY <1>3, <1>4, <1>5, <1>6 DEF Inv

LEMMA ReceiveAcceptStep ==
  ASSUME TypeOK, HasEntry, Inv, NEW c \in Clients, ReceiveAccept(c)
  PROVE  Inv'
  <1>1. /\ UNCHANGED <<nState, vecEntries, signed, stage, joined, asked>>
        /\ pc["msg"] = "idle"
        /\ pc'["msg"] \in {"opening", "joining"}
    BY PcAfter DEF ReceiveAccept, network, Threads
  <1>2. CASE UNCHANGED <<used, nSessionID>> /\ pc'["msg"] = "joining"
    BY <1>1, <1>2, PlainStep DEF Plain
  <1>3. CASE nSessionID = 0 /\ nState = "idle" /\ used' = used + 1 /\ nSessionID' = used'
    <2>1. used \in Nat /\ used' > used
      BY <1>3, ParticipantsAssumption DEF TypeOK, Sessions
    <2>2. EntriesInv'
      BY <1>1, <2>1, <1>3 DEF Inv, EntriesInv, Submitters
    <2>3. WaitingInv'
      BY <1>1 DEF Inv, WaitingInv, Waiting
    <2>4. SessionInv'
      <3>1. /\ \A d \in Clients : joined[d] <= used /\ joined[d] \in Nat
            /\ \A m \in asked : m.session <= used /\ m.session \in Nat
            /\ \A e \in vecEntries : e.session <= used /\ e.session \in Nat
        BY ParticipantsAssumption DEF Inv, SessionInv, EntriesInv, TypeOK, Sessions
      <3>. QED  BY <1>1, <1>3, <2>1, <3>1 DEF Inv, SessionInv
    <2>5. SigningInv'
      <3>1. signed = {}
        BY <1>3 DEF Inv, SigningInv
      <3>2. \A m \in asked : Own(m) \in m.tx => Own(m) \notin vecEntries
        BY <1>3 DEF Inv, SigningInv, SessionInv
      <3>. QED  BY <1>1, <3>1, <3>2 DEF SigningInv
    <2>. QED  BY <2>2, <2>3, <2>4, <2>5 DEF Inv
  <1>. QED  BY <1>1, <1>2, <1>3, PcAfter DEF ReceiveAccept, Threads

LEMMA OpenSessionStep ==
  ASSUME TypeOK, HasEntry, Inv, OpenSession
  PROVE  Inv'
  <1>1. /\ UNCHANGED <<nSessionID, used, vecEntries, signed, stage, joined, asked, entry>>
        /\ nState' = "queue" /\ pc["msg"] = "opening" /\ pc'["msg"] = "joining"
    BY PcAfter DEF OpenSession, SetState, network, Threads
  <1>2. EntriesInv' /\ WaitingInv' /\ SigningInv'
    BY <1>1 DEF Inv, EntriesInv, Submitters, WaitingInv, Waiting, SigningInv
  <1>3. SessionInv'
    BY <1>1 DEF Inv, SessionInv
  <1>. QED  BY <1>2, <1>3 DEF Inv

LEMMA JoinSessionStep ==
  ASSUME TypeOK, HasEntry, Inv, JoinSession
  PROVE  Inv'
  <1> DEFINE c == entry.client
  <1>0. c \in Clients
    BY DEF TypeOK, HasEntry, JoinSession, Entries
  <1>1. /\ UNCHANGED <<nState, nSessionID, used, vecEntries, signed, asked>>
        /\ pc'["msg"] = "idle"
        /\ stage' = [stage EXCEPT ![c] = "queued"]
        /\ joined' = [joined EXCEPT ![c] = IF nState = "queue" THEN nSessionID ELSE 0]
    BY PcAfter DEF JoinSession, Threads
  <1>2. /\ used \in Nat /\ nSessionID \in Nat
        /\ \A d \in Clients : joined[d] \in Nat
    BY ParticipantsAssumption DEF TypeOK, Sessions
  <1>3. EntriesInv' /\ SigningInv'
    BY <1>1 DEF Inv, EntriesInv, Submitters, SigningInv
  <1>4. joined'[c] # 0 => nState = "queue" /\ joined'[c] = nSessionID /\ nSessionID # 0
    BY <1>0, <1>1 DEF TypeOK
  <1>5. WaitingInv'
    <2>1. \A d \in Clients \ {c} : \A k : Waiting(d, k)' => Waiting(d, k)
      BY <1>1 DEF Waiting, TypeOK
    <2>2. \A e \in vecEntries : e.client = c => joined'[c] # e.session
      BY <1>4 DEF Inv, SessionInv, EntriesInv
    <2>3. \A m \in asked : Own(m) \in m.tx /\ m.client = c => joined'[c] # m.session
      BY <1>4 DEF Inv, SessionInv
    <2>4. \A e \in vecEntries' : ~ Waiting(e.client, e.session)'
      BY <1>1, <2>1, <2>2 DEF Inv, WaitingInv, Waiting, TypeOK, Entries
    <2>5. \A m \in asked' : Own(m) \in m.tx => ~ Waiting(m.client, m.session)'
      BY <1>1, <2>1, <2>3 DEF Inv, WaitingInv, Waiting, TypeOK
    <2>. QED  BY <1>1, <2>4, <2>5 DEF WaitingInv, Waiting
  <1>6. SessionInv'
    <2>1. \A d \in Clients : stage'[d] \in {"invited", "sent"} => d # c /\ stage[d] = stage'[d] /\ joined'[d] = joined[d]
      BY <1>0, <1>1 DEF TypeOK
    <2>2. \A d \in Clients : joined'[d] <= used
      BY <1>0, <1>1, <1>2 DEF Inv, SessionInv, TypeOK
    <2>. QED  BY <1>1, <2>1, <2>2 DEF Inv, SessionInv
  <1>. QED  BY <1>3, <1>5, <1>6 DEF Inv

LEMMA ReceiveEntryStep ==
  ASSUME TypeOK, HasEntry, Inv, NEW c \in Clients, ReceiveEntry(c)
  PROVE  Inv'
  <1>1. /\ UNCHANGED <<nState, nSessionID, used, vecEntries, signed, joined, asked>>
        /\ pc["msg"] = "idle" /\ stage[c] = "invited"
    BY DEF ReceiveEntry, session
  <1>2. CASE stage' = [stage EXCEPT ![c] = "out"] /\ UNCHANGED <<entry, pc>>
    BY <1>1, <1>2, PlainStep DEF Plain, TypeOK
  <1>3. CASE /\ c \notin Submitters
             /\ entry' = [client |-> c, session |-> joined[c]]
             /\ stage' = [stage EXCEPT ![c] = "sent"]
             /\ Goto("msg", "adding")
    <2>0. pc'["msg"] = "adding"
      BY <1>3, PcAfter DEF Threads
    <2>1. joined[c] \in 1 .. used
      BY <1>1, ParticipantsAssumption DEF Inv, SessionInv, TypeOK, Sessions
    <2>2. EntriesInv'
      BY <1>1, <1>3, <2>1 DEF Inv, EntriesInv, Submitters
    <2>3. WaitingInv'
      <3>1. \A d \in Clients : \A k : Waiting(d, k)' => Waiting(d, k)
        BY <1>1, <1>3 DEF Waiting, TypeOK
      <3>2. ~ Waiting(entry.client, entry.session)'
        BY <1>3 DEF Waiting, TypeOK
      <3>3. \A e \in vecEntries' : ~ Waiting(e.client, e.session)'
        BY <1>1, <3>1 DEF Inv, WaitingInv, TypeOK, Entries
      <3>4. \A m \in asked' : Own(m) \in m.tx => ~ Waiting(m.client, m.session)'
        BY <1>1, <3>1 DEF Inv, WaitingInv, TypeOK
      <3>. QED  BY <3>2, <3>3, <3>4 DEF WaitingInv, Waiting
    <2>4. SessionInv'
      <3>1. \A d \in Clients : stage'[d] \in {"invited", "sent"} => stage[d] \in {"invited", "sent"}
        BY <1>1, <1>3 DEF TypeOK
      <3>2. nState' # "queue" \/ nSessionID = 0 \/ entry'.session # nSessionID
        BY <1>1, <1>3 DEF Inv, SessionInv
      <3>. QED  BY <1>1, <2>0, <3>1, <3>2 DEF Inv, SessionInv
    <2>5. SigningInv'
      <3>1. \A m \in asked : Own(m) \in m.tx => entry' # Own(m)
        <4>1. SUFFICES ASSUME NEW m \in asked, Own(m) \in m.tx, entry' = Own(m) PROVE FALSE
          OBVIOUS
        <4>2. m.client = c /\ m.session = joined[c]
          BY <1>3, <4>1 DEF Own
        <4>3. Waiting(m.client, m.session)
          BY <1>1, <4>2 DEF Waiting
        <4>. QED  BY <4>1, <4>3 DEF Inv, WaitingInv
      <3>. QED  BY <1>1, <3>1 DEF Inv, SigningInv
    <2>. QED  BY <2>2, <2>3, <2>4, <2>5 DEF Inv
  <1>. QED  BY <1>2, <1>3 DEF ReceiveEntry

LEMMA AddEntryStep ==
  ASSUME TypeOK, HasEntry, Inv, AddEntry
  PROVE  Inv'
  <1>1. /\ UNCHANGED <<nState, nSessionID, used, signed, stage, joined, asked>>
        /\ pc["msg"] = "adding" /\ pc'["msg"] = "pool"
        /\ vecEntries' = vecEntries \union {entry}
    BY PcAfter DEF AddEntry, network, Threads
  <1>2. EntriesInv'
    <2>1. IsFiniteSet(vecEntries')
      BY <1>1, FS_AddElement DEF Inv, EntriesInv
    <2>2. OneEach(vecEntries')
      BY <1>1 DEF Inv, EntriesInv, OneEach, Submitters
    <2>. QED  BY <1>1, <2>1, <2>2 DEF Inv, EntriesInv
  <1>3. WaitingInv'
    BY <1>1 DEF Inv, WaitingInv, Waiting
  <1>4. SessionInv'
    BY <1>1 DEF Inv, SessionInv
  <1>5. SigningInv'
    BY <1>1 DEF Inv, SigningInv
  <1>. QED  BY <1>2, <1>3, <1>4, <1>5 DEF Inv

LEMMA ReceiveSignatureStep ==
  ASSUME TypeOK, HasEntry, Inv, NEW m \in asked, ReceiveSignature(m)
  PROVE  Inv'
  <1>1. /\ UNCHANGED <<nState, nSessionID, used, vecEntries, joined, entry>>
        /\ pc["msg"] = "idle" /\ Signs(m)
    BY DEF ReceiveSignature
  <1>2. CASE UNCHANGED <<signed, pc>> /\ Leave(Submitters, asked \ {m})
    BY <1>1, <1>2, PlainStep DEF Plain, Leave, TypeOK
  <1>3. CASE /\ m.tx = vecEntries
             /\ asked' = asked \ {m}
             /\ signed' = signed \union {[client |-> m.client, tx |-> m.tx]}
             /\ Goto("msg", "pool")
             /\ UNCHANGED stage
    <2>0. pc'["msg"] = "pool"
      BY <1>3, PcAfter DEF Threads
    <2>1. EntriesInv'
      BY <1>1, <1>3, <2>0 DEF Inv, EntriesInv, Submitters
    <2>2. WaitingInv'
      BY <1>1, <1>3, <2>0 DEF Inv, WaitingInv, Waiting
    <2>3. SessionInv'
      BY <1>1, <1>3, <2>0 DEF Inv, SessionInv
    <2>4. SigningInv'
      <3>1. Own(m) \in m.tx
        BY <1>1 DEF Signs, Own
      <3>2. m.session = nSessionID /\ nSessionID # 0
        BY <1>3, <3>1 DEF Inv, SigningInv, SessionInv
      <3>3. [client |-> m.client, session |-> nSessionID] \in m.tx
        BY <3>1, <3>2 DEF Own
      <3>. QED  BY <1>1, <1>3, <2>0, <3>2, <3>3 DEF Inv, SigningInv
    <2>. QED  BY <2>1, <2>2, <2>3, <2>4 DEF Inv
  <1>. QED  BY <1>2, <1>3 DEF ReceiveSignature

LEMMA CreateFinalTransactionStep ==
  ASSUME TypeOK, HasEntry, Inv, NEW t \in Threads, CreateFinalTransaction(t)
  PROVE  Inv'
  <1> DEFINE new == {[client |-> c, session |-> nSessionID, tx |-> vecEntries] : c \in Submitters}
  <1>1. /\ UNCHANGED <<nSessionID, used, vecEntries, signed, stage, joined, entry>>
        /\ nState' = "signing"
        /\ asked' = asked \union new
    BY DEF CreateFinalTransaction, SetState
  <1>2. pc'["msg"] \in {"adding", "opening"} => pc["msg"] = pc'["msg"]
    BY PcAfter DEF CreateFinalTransaction, Return, Threads
  <1>3. \A m \in new : m.session = nSessionID /\ m.tx = vecEntries /\ Own(m) = [client |-> m.client, session |-> nSessionID]
    BY DEF Own
  <1> HIDE DEF new
  <1>4. EntriesInv'
    BY <1>1, <1>2, <1>3 DEF Inv, EntriesInv, Submitters
  <1>5. \A m \in new : Own(m) \in m.tx =>
          /\ Own(m) \in vecEntries /\ Own(m).client = m.client /\ Own(m).session = m.session
          /\ m.session \in 1 .. used
    BY <1>3 DEF Inv, EntriesInv, Own
  <1>6. WaitingInv'
    BY <1>1, <1>2, <1>5 DEF Inv, WaitingInv, Waiting
  <1>7. SessionInv'
    BY <1>1, <1>2, <1>3, <1>5 DEF Inv, SessionInv
  <1>8. SigningInv'
    <2>1. pc["msg"] = "adding" => entry \notin vecEntries
      BY DEF Inv, EntriesInv, Submitters
    <2>. QED  BY <1>1, <1>2, <1>3, <1>5, <2>1 DEF Inv, SigningInv
  <1>. QED  BY <1>4, <1>6, <1>7, <1>8 DEF Inv

LEMMA CheckForCompleteQueueStep ==
  ASSUME TypeOK, HasEntry, Inv, CheckForCompleteQueue
  PROVE  Inv'
  <1>1. /\ UNCHANGED <<nSessionID, used, vecEntries, signed, joined, asked, entry>>
        /\ pc'["msg"] = pc["msg"]
    BY PcAfter DEF CheckForCompleteQueue, Threads
  <1>2. CASE UNCHANGED <<nState, stage>>
    BY <1>1, <1>2, PlainStep DEF Plain, Inv, SessionInv
  <1>3. CASE /\ nState = "queue" /\ nState' = "accepting"
             /\ stage' = [c \in Clients |->
                  IF stage[c] = "queued" /\ joined[c] # 0 THEN "invited" ELSE stage[c]]
    <2>1. EntriesInv' /\ SigningInv'
      BY <1>1 DEF Inv, EntriesInv, Submitters, SigningInv
    <2>2. WaitingInv'
      <3>1. \A d \in Clients : \A k : Waiting(d, k)' => Waiting(d, k)
        BY <1>1, <1>3 DEF Waiting
      <3>2. \A e \in vecEntries' : ~ Waiting(e.client, e.session)'
        BY <1>1, <3>1 DEF Inv, WaitingInv, TypeOK, Entries
      <3>3. \A m \in asked' : Own(m) \in m.tx => ~ Waiting(m.client, m.session)'
        BY <1>1, <3>1 DEF Inv, WaitingInv, TypeOK
      <3>4. pc'["msg"] = "adding" => ~ Waiting(entry.client, entry.session)'
        BY <1>1, <3>1 DEF Inv, WaitingInv, TypeOK, HasEntry, Entries
      <3>. QED  BY <3>2, <3>3, <3>4 DEF WaitingInv, Waiting
    <2>3. SessionInv'
      BY <1>1, <1>3 DEF Inv, SessionInv
    <2>. QED  BY <2>1, <2>2, <2>3 DEF Inv
  <1>. QED  BY <1>2, <1>3 DEF CheckForCompleteQueue, SetState

LEMMA PoolStep ==
  ASSUME TypeOK, HasEntry, Inv, NEW t \in Threads, Pool(t)
  PROVE  Inv'
  <1> USE DEF session, network, threads
  <1>1. CASE CheckPool(t)
    <2>1. Plain
      BY <1>1, PcAfter DEF CheckPool, Plain, Return, Threads, Inv, SessionInv
    <2>. QED  BY <2>1, PlainStep
  <1>2. CASE ChargeAndGoOn(t)
    <2>1. Plain
      BY <1>2, PcAfter DEF ChargeAndGoOn, ChargeFees, Plain, Threads, Inv, SessionInv
    <2>. QED  BY <2>1, PlainStep
  <1>3. CASE CreateFinalTransaction(t)
    BY <1>3, CreateFinalTransactionStep
  <1>4. CASE CommitFinalTransaction(t)
    <2>1. asked' \subseteq asked /\ \A c \in Clients : stage'[c] # "out" => stage'[c] = stage[c]
      BY <1>4 DEF CommitFinalTransaction, Leave
    <2>2. Plain
      BY <1>4, <2>1, PcAfter DEF CommitFinalTransaction, Plain, Threads, Inv, SessionInv
    <2>. QED  BY <2>2, PlainStep
  <1>5. CASE ResetAfterCommit(t)
    <2>1. pc'["msg"] \in {"opening", "adding"} => pc'["msg"] = pc["msg"]
      BY <1>5, PcAfter DEF ResetAfterCommit, Return, Threads
    <2>. QED  BY <1>5, <2>1, ResetStep DEF ResetAfterCommit
  <1>. QED  BY <1>1, <1>2, <1>3, <1>4, <1>5 DEF Pool

LEMMA InvStep == TypeOK /\ HasEntry /\ Inv /\ [Next]_vars => Inv'
  <1> SUFFICES ASSUME TypeOK, HasEntry, Inv, [Next]_vars PROVE Inv'
    OBVIOUS
  <1> USE DEF session, network, threads
  <1>1. ASSUME NEW c \in Clients, ReceiveAccept(c) PROVE Inv'
    BY <1>1, ReceiveAcceptStep
  <1>2. CASE OpenSession
    BY <1>2, OpenSessionStep
  <1>3. CASE JoinSession
    BY <1>3, JoinSessionStep
  <1>4. ASSUME NEW c \in Clients, ReceiveEntry(c) PROVE Inv'
    BY <1>4, ReceiveEntryStep
  <1>5. CASE AddEntry
    BY <1>5, AddEntryStep
  <1>6. ASSUME NEW m \in asked, ReceiveSignature(m) PROVE Inv'
    BY <1>6, ReceiveSignatureStep
  <1>7. CASE Pool("msg") \/ Pool("sched")
    BY <1>7, PoolStep DEF Threads
  <1>8. CASE CheckForCompleteQueue
    BY <1>8, CheckForCompleteQueueStep
  <1>9. CASE CheckTimeout \/ ChargeAndDrop
    <2>1. Plain
      BY <1>9, PcAfter DEF CheckTimeout, ChargeAndDrop, ChargeFees, Plain, Threads, Inv, SessionInv
    <2>. QED  BY <2>1, PlainStep
  <1>10. CASE DropSession
    <2>1. pc'["msg"] = pc["msg"]
      BY <1>10, PcAfter DEF DropSession, Threads
    <2>. QED  BY <1>10, <2>1, ResetStep DEF DropSession
  <1>11. CASE Expire
    BY <1>11, PlainStep DEF Expire, Plain, Inv, SessionInv
  <1>12. ASSUME NEW c \in Clients, GiveUp(c) PROVE Inv'
    BY <1>12, PlainStep DEF GiveUp, Leave, Plain, Inv, SessionInv, TypeOK
  <1>13. CASE UNCHANGED vars
    BY <1>13, PlainStep DEF vars, Plain, Inv, SessionInv
  <1>. QED
    BY <1>1, <1>2, <1>3, <1>4, <1>5, <1>6, <1>7, <1>8, <1>9, <1>10, <1>11, <1>12, <1>13
    DEF Next, Handle, DoMaintenance

-----------------------------------------------------------------------------
(* A transaction the network takes mixes one session. *)

\* A valid transaction carries the signatures of its clients, each given in the
\* session of this moment for the client's one entry in it.
LEMMA ValidIsOneSession ==
  ASSUME TypeOK, Inv, NEW tx \in SUBSET Entries, IsValidTx(tx), NEW e \in tx
  PROVE  e.session = nSessionID
  <1>1. [client |-> e.client, tx |-> tx] \in signed
    BY DEF IsValidTx
  <1>2. OneEach(tx) /\ [client |-> e.client, session |-> nSessionID] \in tx
    BY <1>1 DEF Inv, EntriesInv, SigningInv
  <1>. QED  BY <1>2 DEF OneEach

LEMMA MixesStep ==
  ASSUME TypeOK, Inv, MixesOneSession, [Next]_vars
  PROVE  MixesOneSession'
  <1> USE DEF session, network
  <1>1. ASSUME NEW t \in Threads, CommitFinalTransaction(t) PROVE MixesOneSession'
    <2>1. CASE committed' = committed
      BY <2>1 DEF MixesOneSession
    <2>2. CASE IsValidTx(finalTx) /\ committed' = committed \union {finalTx}
      <3>1. \A d, e \in finalTx : d.session = e.session
        BY <2>2, ValidIsOneSession DEF TypeOK
      <3>. QED  BY <2>2, <3>1 DEF MixesOneSession
    <2>. QED  BY <1>1, <2>1, <2>2 DEF CommitFinalTransaction
  <1>2. committed' = committed \/ \E t \in Threads : CommitFinalTransaction(t)
    BY DEF Next, vars, Handle, DoMaintenance, Pool, Threads, ReceiveAccept, OpenSession, JoinSession,
           ReceiveEntry, AddEntry, ReceiveSignature, CheckPool, ChargeAndGoOn, ChargeFees,
           CreateFinalTransaction, ResetAfterCommit, CheckForCompleteQueue, CheckTimeout,
           ChargeAndDrop, DropSession, Expire, GiveUp
  <1>. QED  BY <1>1, <1>2 DEF MixesOneSession

LEMMA InitInv == Init => TypeOK /\ HasEntry /\ Inv /\ MixesOneSession
  <1> SUFFICES ASSUME Init PROVE TypeOK /\ HasEntry /\ Inv /\ MixesOneSession
    OBVIOUS
  <1>1. TypeOK /\ HasEntry
    BY NoSession DEF Init, TypeOK, HasEntry, States, Stages, Threads
  <1>2. EntriesInv
    BY FS_EmptySet DEF Init, EntriesInv, OneEach, Submitters, Threads
  <1>3. WaitingInv /\ SessionInv /\ SigningInv
    BY DEF Init, WaitingInv, SessionInv, SigningInv, Waiting, Threads
  <1>4. MixesOneSession
    BY DEF Init, MixesOneSession
  <1>. QED  BY <1>1, <1>2, <1>3, <1>4 DEF Inv

\* However late messages come and whatever the two threads do to each other, a
\* transaction the network takes mixes the entries of one session.
THEOREM NoSessionsMixed == Spec => []MixesOneSession
  <1>1. TypeOK /\ HasEntry /\ Inv /\ MixesOneSession /\ [Next]_vars
        => TypeOK' /\ HasEntry' /\ Inv' /\ MixesOneSession'
    BY TypeStep, InvStep, MixesStep
  <1>. QED  BY InitInv, <1>1, PTL DEF Spec

-----------------------------------------------------------------------------
(* While the threads have not met. *)

\* A thread that changes the session, and has not met the other, is alone.
LEMMA Alone ==
  ASSUME TypeOK, NEW t \in Threads, Changes(t), ~ raced'
  PROVE  ~ raced /\ \A u \in Threads \ {t} : pc[u] = "idle"
  BY DEF TypeOK, Changes

\* A session that is ready has as many collaterals as it needs.
LEMMA ReadyHasEnough ==
  ASSUME TypeOK, Quiet, IsSessionReady, Cardinality(collaterals) \in Nat
  PROVE  nState \in {"queue", "accepting"} /\ Cardinality(collaterals) >= MinParticipants
  BY ParticipantsAssumption DEF Quiet, IsSessionReady

LEMMA CollateralsFinite == TypeOK => Cardinality(collaterals) \in Nat
  BY ParticipantsAssumption, FS_Subset, FS_CardinalityType DEF TypeOK

LEMMA QuietReset ==
  ASSUME TypeOK, Quiet, NEW t \in Threads, Changes(t), SetNull, UNCHANGED chargedEarly, ~ raced',
         Goto(t, "idle") \/ Goto(t, "timeout")
  PROVE  Quiet'
  <1>1. \A u \in Threads : pc'[u] \in {"idle", "timeout"}
    BY Alone, PcAfter
  <1>2. nState' = "idle"
    BY DEF SetNull, SetState
  <1>. QED  BY <1>1, <1>2 DEF Quiet, Threads

LEMMA QuietPool ==
  ASSUME TypeOK, Quiet, Inv, NEW t \in Threads, Pool(t), ~ raced'
  PROVE  Quiet'
  <1> USE DEF session, network, threads
  <1>0. Cardinality(collaterals) \in Nat /\ Cardinality(vecEntries) \in Nat /\ MinParticipants \in Nat
    BY CollateralsFinite, FS_CardinalityType, ParticipantsAssumption DEF Inv, EntriesInv
  <1>1. CASE CheckPool(t)
    <2>1. \A u \in Threads \ {t} : pc'[u] = pc[u]
      BY <1>1, PcAfter DEF CheckPool, Return
    <2>2. pc'[t] \in {"final", "charge"} =>
            nState = "accepting" /\ Cardinality(vecEntries) >= MinParticipants
      BY <1>0, <1>1, PcAfter DEF CheckPool, Return, EntryForEach, EnoughInTime, Quiet
    <2>3. pc'[t] \in {"charge", "punish"} => expired
      BY <1>1, PcAfter DEF CheckPool, Return, EnoughInTime, HasTimedOut
    <2>4. pc'["msg"] \in {"joining", "opening", "adding"} => pc'["msg"] = pc["msg"]
      BY <1>1, PcAfter DEF CheckPool, Return, Threads
    <2>. QED  BY <1>1, <2>1, <2>2, <2>3, <2>4 DEF CheckPool, Quiet
  <1>2. CASE ChargeAndGoOn(t)
    <2>1. expired
      BY <1>2 DEF ChargeAndGoOn, Quiet
    <2>2. /\ pc'[t] = "final" /\ pc[t] = "charge"
          /\ \A u \in Threads \ {t} : pc'[u] = pc[u]
      BY <1>2, PcAfter DEF ChargeAndGoOn, ChargeFees
    <2>3. ~ chargedEarly'
      BY <1>2, <2>1 DEF ChargeAndGoOn, ChargeFees, Quiet
    <2>. QED  BY <1>2, <2>2, <2>3 DEF ChargeAndGoOn, ChargeFees, Quiet, Threads
  <1>3. CASE CreateFinalTransaction(t)
    <2>1. /\ \A u \in Threads : pc'[u] \in {"idle", "timeout"}
          /\ finalTx' = vecEntries /\ vecEntries' = vecEntries /\ nState' = "signing"
          /\ UNCHANGED chargedEarly
      BY <1>3, Alone, PcAfter DEF CreateFinalTransaction, Return, SetState
    <2>2. Cardinality(vecEntries) >= MinParticipants
      BY <1>3 DEF CreateFinalTransaction, Quiet
    <2>. QED  BY <2>1, <2>2 DEF Quiet, Threads
  <1>4. CASE CommitFinalTransaction(t)
    <2>1. pc'[t] = "reset" /\ \A u \in Threads \ {t} : pc'[u] = pc[u]
      BY <1>4, PcAfter DEF CommitFinalTransaction
    <2>. QED  BY <1>4, <2>1 DEF CommitFinalTransaction, Quiet, Threads
  <1>5. CASE ResetAfterCommit(t)
    BY <1>5, QuietReset DEF ResetAfterCommit, Return
  <1>. QED  BY <1>1, <1>2, <1>3, <1>4, <1>5 DEF Pool

LEMMA QuietHandler ==
  ASSUME TypeOK, Quiet, Inv, ~ raced',
         \/ \E c \in Clients : ReceiveAccept(c) \/ ReceiveEntry(c)
         \/ OpenSession \/ JoinSession \/ AddEntry
         \/ \E m \in asked : ReceiveSignature(m)
  PROVE  Quiet'
  <1> USE DEF session, network, threads
  <1>0. "msg" \in Threads /\ "sched" \in Threads /\ Threads = {"msg", "sched"}
    BY DEF Threads
  <1>1. ASSUME NEW c \in Clients, ReceiveAccept(c) PROVE Quiet'
    <2>1. pc'["sched"] = pc["sched"] /\ pc["msg"] = "idle"
      BY <1>0, <1>1, PcAfter DEF ReceiveAccept
    <2>2. CASE nState = "idle" /\ Goto("msg", "opening") /\ UNCHANGED <<nState, expired>>
      <3>1. pc'["msg"] = "opening"
        BY <1>0, <2>2, PcAfter
      <3>. QED  BY <1>0, <1>1, <2>1, <2>2, <3>1 DEF ReceiveAccept, Quiet
    <2>3. CASE nState = "queue" /\ Goto("msg", "joining") /\ UNCHANGED <<nState, expired>>
      <3>1. pc'["msg"] = "joining"
        BY <1>0, <2>3, PcAfter
      <3>. QED  BY <1>0, <1>1, <2>1, <2>3, <3>1 DEF ReceiveAccept, Quiet
    <2>. QED  BY <1>1, <2>2, <2>3 DEF ReceiveAccept
  <1>2. ASSUME NEW c \in Clients, ReceiveEntry(c) PROVE Quiet'
    <2>1. CASE UNCHANGED <<entry, pc>>
      BY <1>2, <2>1 DEF ReceiveEntry, Quiet
    <2>2. CASE IsSessionReady /\ Goto("msg", "adding")
      <3>1. pc'["msg"] = "adding" /\ pc'["sched"] = pc["sched"]
        BY <1>0, <2>2, PcAfter
      <3>2. nState \in {"queue", "accepting"}
        BY <2>2, ReadyHasEnough, CollateralsFinite
      <3>. QED  BY <1>0, <1>2, <3>1, <3>2 DEF ReceiveEntry, Quiet
    <2>. QED  BY <1>2, <2>1, <2>2 DEF ReceiveEntry
  <1>3. CASE OpenSession
    <2>1. pc'["msg"] = "joining" /\ pc'["sched"] = "idle" /\ nState' = "queue"
      BY <1>0, <1>3, PcAfter, Alone DEF OpenSession, SetState
    <2>. QED  BY <1>0, <1>3, <2>1 DEF OpenSession, Quiet
  <1>4. CASE JoinSession
    <2>1. pc'["msg"] = "idle" /\ pc'["sched"] = "idle" /\ nState = "queue" /\ nState' = nState
      BY <1>0, <1>4, PcAfter, Alone DEF JoinSession, Quiet
    <2>. QED  BY <1>0, <1>4, <2>1 DEF JoinSession, Quiet
  <1>5. CASE AddEntry
    <2>1. /\ pc'["msg"] = "pool" /\ pc'["sched"] = "idle"
          /\ nState \in {"queue", "accepting"} /\ nState' = nState
      BY <1>0, <1>5, PcAfter, Alone DEF AddEntry, Quiet
    <2>. QED  BY <1>0, <1>5, <2>1 DEF AddEntry, Quiet
  <1>6. ASSUME NEW m \in asked, ReceiveSignature(m) PROVE Quiet'
    <2>1. CASE pc' = pc
      BY <1>6, <2>1 DEF ReceiveSignature, Quiet
    <2>2. CASE Goto("msg", "pool")
      <3>1. pc'["msg"] = "pool" /\ pc'["sched"] = pc["sched"]
        BY <1>0, <2>2, PcAfter
      <3>. QED  BY <1>0, <1>6, <3>1 DEF ReceiveSignature, Quiet
    <2>. QED  BY <1>6, <2>1, <2>2 DEF ReceiveSignature
  <1>. QED  BY <1>1, <1>2, <1>3, <1>4, <1>5, <1>6

LEMMA QuietScheduler ==
  ASSUME TypeOK, Quiet, Inv, ~ raced',
         CheckForCompleteQueue \/ CheckTimeout \/ ChargeAndDrop \/ DropSession
  PROVE  Quiet'
  <1> USE DEF session, network, threads
  <1>0. "msg" \in Threads /\ "sched" \in Threads /\ Threads = {"msg", "sched"}
    BY DEF Threads
  <1>1. CASE CheckForCompleteQueue
    <2>1. pc'["sched"] = "pool" /\ pc'["msg"] = pc["msg"]
      BY <1>0, <1>1, PcAfter DEF CheckForCompleteQueue
    <2>2. CASE UNCHANGED <<nState, expired>>
      BY <1>0, <1>1, <2>1, <2>2 DEF CheckForCompleteQueue, Quiet
    <2>3. CASE nState = "queue" /\ IsSessionReady /\ SetState("accepting") /\ Changes("sched")
      <3>1. pc["msg"] = "idle"
        BY <1>0, <2>3, Alone
      <3>2. Cardinality(collaterals) >= MinParticipants
        BY <2>3, ReadyHasEnough, CollateralsFinite
      <3>. QED  BY <1>0, <1>1, <2>1, <2>3, <3>1, <3>2 DEF CheckForCompleteQueue, Quiet, SetState
    <2>. QED  BY <1>1, <2>2, <2>3 DEF CheckForCompleteQueue
  <1>2. CASE CheckTimeout
    <2>1. pc'["msg"] = pc["msg"] /\ (pc'["sched"] = "idle" \/ (pc'["sched"] = "punish" /\ expired))
      BY <1>0, <1>2, PcAfter DEF CheckTimeout, HasTimedOut
    <2>. QED  BY <1>0, <1>2, <2>1 DEF CheckTimeout, Quiet
  <1>3. CASE ChargeAndDrop
    <2>1. pc'["msg"] = pc["msg"] /\ pc'["sched"] = "drop"
      BY <1>0, <1>3, PcAfter DEF ChargeAndDrop, ChargeFees
    <2>2. ~ chargedEarly'
      BY <1>0, <1>3 DEF ChargeAndDrop, ChargeFees, Quiet
    <2>. QED  BY <1>0, <1>3, <2>1, <2>2 DEF ChargeAndDrop, ChargeFees, Quiet
  <1>4. CASE DropSession
    BY <1>0, <1>4, QuietReset DEF DropSession
  <1>. QED  BY <1>1, <1>2, <1>3, <1>4

\* The history only grows.
LEMMA RacedStays == TypeOK /\ [Next]_vars /\ raced => raced'
  BY DEF Next, vars, Handle, DoMaintenance, Pool, Changes, ReceiveAccept, OpenSession, JoinSession,
         ReceiveEntry, AddEntry, ReceiveSignature, CheckPool, ChargeAndGoOn, ChargeFees,
         CreateFinalTransaction, CommitFinalTransaction, ResetAfterCommit, CheckForCompleteQueue,
         CheckTimeout, ChargeAndDrop, DropSession, Expire, GiveUp

LEMMA QuietStep == TypeOK /\ Inv /\ QuietInv /\ [Next]_vars => QuietInv'
  <1> SUFFICES ASSUME TypeOK, Inv, QuietInv, [Next]_vars, ~ raced' PROVE Quiet'
    BY DEF QuietInv
  <1>0. Quiet
    BY RacedStays DEF QuietInv
  <1>1. CASE Pool("msg") \/ Pool("sched")
    BY <1>0, <1>1, QuietPool DEF Threads
  <1>2. CASE Expire
    BY <1>0, <1>2 DEF Expire, Quiet, threads, network
  <1>3. ASSUME NEW c \in Clients, GiveUp(c) PROVE Quiet'
    BY <1>0, <1>3 DEF GiveUp, Quiet, threads, session
  <1>4. CASE UNCHANGED vars
    BY <1>0, <1>4 DEF vars, Quiet, threads, session
  <1>. QED  BY <1>0, <1>1, <1>2, <1>3, <1>4, QuietHandler, QuietScheduler
            DEF Next, Handle, DoMaintenance

\* The number of clients with an entry is the number of entries.
LEMMA OneEntryEach ==
  ASSUME Inv
  PROVE  Cardinality(Submitters) = Cardinality(vecEntries)
  <1> DEFINE f == [e \in vecEntries |-> e.client]
  <1>1. f \in [vecEntries -> Submitters]
    BY DEF Submitters
  <1>2. \A d, e \in vecEntries : f[d] = f[e] => d = e
    BY DEF Inv, EntriesInv, OneEach
  <1>3. \A c \in Submitters : \E e \in vecEntries : f[e] = c
    BY DEF Submitters
  <1>4. f \in Bijection(vecEntries, Submitters)
    BY <1>1, <1>2, <1>3, Zenon DEF Bijection, Injection, Surjection, IsInjective
  <1>. QED  BY <1>4, FS_Bijection DEF Inv, EntriesInv, ExistsBijection

THEOREM Inductive == Spec => []IInv
  <1>1. Init => IInv
    BY InitInv DEF Init, IInv, QuietInv, Quiet, Threads
  <1>2. IInv /\ [Next]_vars => IInv'
    BY TypeStep, InvStep, MixesStep, QuietStep DEF IInv
  <1>. QED  BY <1>1, <1>2, PTL DEF Spec

\* Unless the threads have met, clients are asked to sign what the server checks,
\* and at least MinParticipants of them.
THEOREM ClientsSignWhatFits == Spec => []SigningFits
  <1>1. IInv => SigningFits
    BY OneEntryEach DEF IInv, QuietInv, Quiet, SigningFits
  <1>. QED  BY <1>1, Inductive, PTL

\* Unless the threads have met, nobody is charged before the time-out has passed.
THEOREM ChargedAfterTimeout == Spec => []NobodyChargedEarly
  <1>1. IInv => NobodyChargedEarly
    BY DEF IInv, QuietInv, Quiet, NobodyChargedEarly
  <1>. QED  BY <1>1, Inductive, PTL
=============================================================================
