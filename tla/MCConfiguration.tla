---------------------------- MODULE MCConfiguration ----------------------------
(* Five deployments of two relays and two clients: all files the same; the    *)
(* board's path longer than relay 1 is made for; no gatekeepers on the board's *)
(* file; a threshold too high for the board's single mixer, on client 1's; and *)
(* no mixers on the board's file, of which client 2's has none either.         *)
EXTENDS Configuration

Cfg(a, b, d) == [L1 |-> a, L2 |-> b, D |-> d]

All(cfg) == [board |-> cfg, relay |-> [r \in Relays |-> cfg], client |-> [c \in Clients |-> cfg]]

Same == All(Cfg(1, 1, 1))

MCDeployments ==
  {Same,
   [Same EXCEPT !.board = Cfg(1, 2, 2), !.relay[2] = Cfg(2, 1, 1)],
   [Same EXCEPT !.board = Cfg(2, 0, 1)],
   [Same EXCEPT !.board = Cfg(1, 1, 0), !.client[1] = Cfg(2, 1, 3)],
   [Same EXCEPT !.board = Cfg(0, 2, 1), !.client[2] = Cfg(0, 1, 1)]}

\* Two mixers more and a higher threshold; one gatekeeper more.
MCUpdates == {Cfg(3, 1, 3), Cfg(1, 2, 0)}

\* All paths along one relay; along both in turn; and with relay 2 at the end.
MCReceiver(w, c, k) ==
  CASE w = 1 -> 1
    [] w = 2 -> 1 + ((c + k) % 2)
    [] w = 3 -> IF k <= 2 THEN 1 ELSE 2

SameDeployment == {Same}
=============================================================================
