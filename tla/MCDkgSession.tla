---------------------------- MODULE MCDkgSession ----------------------------
(***************************************************************************)
(* Three honest members and a faulty one, a key needs three.  The faulty   *)
(* one gives h1 a share that does not fit, may complain about all, has a   *)
(* justification that is right and one that is wrong, and commits to the   *)
(* key with itself and to the key without itself.                          *)
(***************************************************************************)
EXTENDS DkgSession, TLC

CONSTANTS h1, h2, h3, f1, vv1

MCVvecs == Honest \cup {vv1}
MCOwn == [h \in Honest |-> h]
Justifies(ks) ==
  [kind |-> "justification", from |-> f1, vvec |-> vv1, for |-> {h1}, good |-> ks]
Commits(ms) ==
  [kind |-> "commitment", from |-> f1, ok |-> TRUE,
   key |-> [m \in ms |-> IF m = f1 THEN vv1 ELSE m]]
MCLies == {
  [kind |-> "contribution", from |-> f1, vvec |-> vv1, good |-> Members \ {h1}],
  [kind |-> "complaint", from |-> f1, bad |-> {}, complain |-> Honest],
  Justifies({h1}), Justifies({}),
  Commits(Honest), Commits(Members) }

\* members that vote against the connection of f1
Objecting ==
  {c \in Of(sent, "complaint") : f1 \in c.bad /\ f1 \in Contributors(c.from)}

\* bound: h1 alone gets the wrong justification and the commitment to the key without
\* the faulty member; this one commits only where no message is missed and none repeated;
\* where a message is missed it repeats none, and justifies itself rightly if at all;
\* where a member aborts it only contributes; and an objection to it is alone
OneFault == \A n \in Honest :
  LET faulty == got[n] \cap Lies
      repeats == \E k \in Honest : twice[k] # {}
  IN  /\ Of(faulty, "commitment") \subseteq {Commits(IF n = h1 THEN Honest ELSE Members)}
      /\ Justifies({}) \in faulty => n = h1 /\ missed = 0
      /\ repeats \/ missed > 0 => Of(faulty, "commitment") = {}
      /\ missed > 0 => ~repeats
      /\ Objecting # {} => missed = 0 /\ faulty \subseteq Of(Lies, "contribution")
      /\ aborted # {} => faulty \subseteq Of(Lies, "contribution")

OthersAlike == Permutations(Honest \ {h1})
=============================================================================
