----------------------------- MODULE StartSignals -----------------------------
(***************************************************************************)
(* What the bulletin board may decide for a run and what each node is to   *)
(* hear of it: the terms in which module RunStart says what the board      *)
(* promises, and in which the promise is handed on to module PiT.          *)
(***************************************************************************)
EXTENDS Integers, FiniteSets

CONSTANTS
  Relays,      \* relay IDs
  Clients,     \* client IDs
  Load,        \* onions that a relay is to process in a round
  PathLength   \* hops of a checkpoint onion

NoRun == [relays |-> {}, clients |-> {}, number |-> 0, checkpoints |-> <<>>]

\* A run: its nodes, and for each client the same number of checkpoint onions,
\* with the relay of each hop, as many as the relays can bear with its message.
IsRun(s) ==
  /\ s.relays \subseteq Relays /\ s.clients \subseteq Clients
  /\ s.number \in Nat
  /\ s.checkpoints \in [s.clients -> [1 .. s.number -> [1 .. PathLength -> s.relays]]]
  /\ s.number > 0 =>
       Cardinality(s.clients) * (s.number + 1) <= Cardinality(s.relays) * Load

Nodes(s) == ({"relay"} \X s.relays) \union ({"client"} \X s.clients)

\* The nonces of relay r: a nonce is fresh for its client, onion and layer, so
\* <<client, number, layer>> stands for it.
Nonces(s, r) ==
  {h \in s.clients \X (1 .. s.number) \X (1 .. PathLength) :
     s.checkpoints[h[1]][h[2]][h[3]] = r}

\* What node n is told.
Told(s, n) ==
  IF n[1] = "relay"
  THEN {[Nonce |-> h, Layer |-> h[3]] : h \in Nonces(s, n[2])}
  ELSE [Clients |-> s.clients, Relays |-> s.relays,
        CheckpointOnions |-> s.checkpoints[n[2]]]
=============================================================================
