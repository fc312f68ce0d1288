-------------------------- MODULE MCCoinJoinServer --------------------------
(***************************************************************************)
(* Three clients and two sessions: one client too few for a session that    *)
(* is dropped, two for one that goes on after a time-out, three for a full  *)
(* one, and a client of the first session that is late for the second.      *)
(***************************************************************************)
EXTENDS CoinJoinServer, TLC

CONSTANTS c1, c2, c3

ThreeClients == {c1, c2, c3}
=============================================================================
