------------------------------ MODULE MCSporks ------------------------------
(* Two nodes with one signing key each; three signers of which two must     *)
(* agree, or, after a change of -sporkaddr, the second signer alone.        *)
EXTENDS Sporks, TLC

CONSTANTS n1, n2, s1, s2, s3
MCKeySets == {{s1, s2, s3}, {s2}}
MCMinKeys == [K \in MCKeySets |-> IF K = {s2} THEN 1 ELSE 2]
MCHomeOf == 1 :> n1
MCKeyOf == n1 :> s1 @@ n2 :> s2
=============================================================================
