-------------------------- MODULE MCConcurrentMap --------------------------
(* Three calls contend for one key and a fourth uses another. *)
EXTENDS ConcurrentMap, TLC

CONSTANTS c1, c2, c3, c4, k1, k2

MCCalls == {c1, c2, c3, c4}
MCKeys == {k1, k2}
MCKey == c1 :> k1 @@ c2 :> k1 @@ c3 :> k1 @@ c4 :> k2
=============================================================================
