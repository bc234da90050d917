------------------------------ MODULE MCClient ------------------------------
(* Lists of two clients with a checkpoint onion each and of three, both with *)
(* a repeated signal; of four, with the shuffle; one with a gap in the IDs;  *)
(* and one with no relay.                                                    *)
EXTENDS Client

Signal(ids, n, repeats) ==
  [Clients |-> ids, hasRelays |-> TRUE, checkpoints |-> n, maxRepeats |-> repeats]

MCRuns == {Signal({1, 2}, 1, 1), Signal({1, 3}, 0, 1), Signal(1 .. 3, 0, 1),
           Signal(1 .. 4, 0, 0), [Signal({1, 2}, 0, 1) EXCEPT !.hasRelays = FALSE]}
=============================================================================
