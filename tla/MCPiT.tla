--------------------------------- MODULE MCPiT ---------------------------------
(* A run of two clients that write to each other, and one of a single client  *)
(* with a checkpoint onion besides its message.                                *)
EXTENDS PiT

Signal(ids, n) == [Clients |-> ids, hasRelays |-> TRUE, checkpoints |-> n, maxRepeats |-> 0]

MCRuns == {Signal({1, 2}, 0), Signal({1}, 1)}
=============================================================================
