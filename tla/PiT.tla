---------------------------------- MODULE PiT ----------------------------------
(***************************************************************************)
(* A run from end to end: the clients of module Client and the relays of   *)
(* module Relay, joined where they meet.  An onion's request to its first  *)
(* mixer is the client's SendOnion on one side and the relay's handler on  *)
(* the other; what the last relay sends on reaches the recipient's Receive.*)
(* Every node gets the bulletin board's start signal at most once, at any  *)
(* time, or never, and the signals agree (BulletinBoard!SignalsAgree): the *)
(* checkpoints the clients are to send are those the relays are to expect. *)
(*                                                                         *)
(* Heartbeats are left out: Relay!StartTakesEffect shows what they can do. *)
(***************************************************************************)
EXTENDS Integers, FiniteSets

CONSTANTS
  Relays,    \* relay IDs
  NoRelay,   \* no relay: the receiver of onions of other runs, never sent
  Runs,      \* the start signals to consider, as in module Client
  L1, L2, D  \* of the configuration

VARIABLES
  start, recipients, client, sent, clientSignals,  \* of module Client
  path, onion, relay, relaySignals                 \* of module Relay

\* An onion has a state on both sides: sent[o] is what its sender knows and
\* whom it is for, onion[o] what it is and where among the relays.
C == INSTANCE Client WITH onion <- sent, signals <- clientSignals

\* The onions of all runs to consider.
Onions == UNION {s.Clients \X (0 .. s.checkpoints) : s \in Runs}

Checkpoints == {o \in Onions : o[2] > 0}

R == INSTANCE Relay WITH Relays <- Relays \union {NoRelay}, Listed <- Checkpoints,
                         MaxStarts <- 1, signals <- relaySignals

clients == <<start, recipients, client, sent, clientSignals>>
relays == <<path, onion, relay, relaySignals>>
vars == <<start, recipients, client, sent, clientSignals, path, onion, relay, relaySignals>>

\* The IDs of the clients are 1 .. n, there are relays and no signal is repeated: so
\* no start of a client or relay fails here (Client!OneStartIsSafe).
ASSUME PiTAssumption ==
  /\ NoRelay \notin Relays
  /\ IsFiniteSet(Runs)
  /\ \A s \in Runs : /\ s \in C!Run /\ IsFiniteSet(s.Clients)
                     /\ s.Clients = 1 .. Cardinality(s.Clients)
                     /\ s.hasRelays /\ s.maxRepeats = 0
  /\ L1 \in Nat \ {0} /\ L2 \in Nat /\ D \in 0 .. L1 + 1

\* DetermineRoutingPath and GetCheckpoints choose among the relays.
Init ==
  /\ C!Init /\ R!Init
  /\ \A o \in Onions : path[o] \in [R!Layers -> IF o \in C!Onions THEN Relays ELSE {NoRelay}]

-----------------------------------------------------------------------------
(* One side alone                                                          *)

RelayHandlesStart(r) == R!HandleStartRun(r) /\ UNCHANGED clients

RelayStarts(r) == R!StartRun(r) /\ UNCHANGED clients

ClientHandlesStart(c) == C!HandleStartRun(c) /\ UNCHANGED relays

ClientStarts(c) == C!StartRun(c) /\ UNCHANGED relays

ClientEnds(c) == C!StartRunEnds(c) /\ UNCHANGED relays

\* Handlers and goroutines of the relays, from wg.Wait on.
Passes(o) == (R!Receive(o) \/ R!ReceiveFails(o) \/ R!SendToNode(o)) /\ UNCHANGED clients

Count(r, k) == R!Count(r, k) /\ UNCHANGED clients

-----------------------------------------------------------------------------
(* Both sides                                                              *)

\* A goroutine of startRun posts its onion.
Posts(o) ==
  /\ sent[o].place = "client"
  /\ R!ClientSends(o) /\ UNCHANGED clients

\* The handler of the first mixer reads the onion.
FirstMixerAccepts(o) ==
  /\ onion[o].layer = 1
  /\ R!HandleReceiveOnion(o) /\ C!Accept(o)

\* The handler of another relay does.
Accepts(o) ==
  /\ onion[o].layer > 1
  /\ R!HandleReceiveOnion(o) /\ UNCHANGED clients

\* The client's SendOnion returns.  If the mixer has not read the request, it
\* never will: it fails with it.  Otherwise the onion goes its own way.
Returns(o) ==
  /\ C!SendOnion(o)
  /\ IF onion[o].place = "net" /\ onion[o].layer = 1 THEN R!Lose(o) ELSE UNCHANGED relays

\* The last relay's request reaches the recipient, whether or not that has had
\* its own start signal.
Delivers(o) ==
  /\ onion[o].place = "arrived"
  /\ C!Receive(o) /\ UNCHANGED relays

\* A request between two relays, or to the recipient, fails.
Fails(o) ==
  \/ /\ onion[o].layer > 1
     /\ R!Lose(o) /\ C!Lose(o)
  \/ /\ onion[o].place = "arrived"
     /\ C!Lose(o) /\ UNCHANGED relays

RelayNext(r) ==
  RelayHandlesStart(r) \/ RelayStarts(r) \/ \E k \in R!Layers : Count(r, k)

ClientNext(c) == ClientHandlesStart(c) \/ ClientStarts(c) \/ ClientEnds(c)

OnionNext(o) ==
  \/ Posts(o) \/ FirstMixerAccepts(o) \/ Accepts(o) \/ Passes(o) \/ Delivers(o)
  \/ Returns(o) \/ Fails(o)

Next ==
  \/ \E r \in Relays : RelayNext(r)
  \/ \E c \in start.Clients : ClientNext(c)
  \/ \E o \in C!Onions : OnionNext(o)

Spec == Init /\ [][Next]_vars

\* Handlers and goroutines are scheduled and requests come to an end.  Nobody
\* has to deliver a start signal.
Fairness ==
  /\ \A r \in Relays : WF_vars(RelayStarts(r)) /\ \A k \in R!Layers : WF_vars(Count(r, k))
  /\ \A c \in UNION {s.Clients : s \in Runs} :
       WF_vars(c \in start.Clients /\ (ClientStarts(c) \/ ClientEnds(c)))
  /\ \A o \in Onions :
       /\ WF_vars(o \in C!Onions /\
                  (Posts(o) \/ FirstMixerAccepts(o) \/ Accepts(o) \/ Passes(o) \/ Delivers(o) \/ Fails(o)))
       /\ WF_vars(o \in C!Onions /\ Returns(o))

FairSpec == Spec /\ Fairness

-----------------------------------------------------------------------------

\* What sender, relays and recipient know of an onion fits together: a relay has
\* it only once it is formed and as long as its sender has not seen the request
\* fail, and what its recipient has received is what the last relay sent.
SidesAgree ==
  \A o \in C!Onions :
    /\ sent[o].place = "none" => onion[o].place = "sender"
    /\ sent[o].place = "client" => onion[o].place \in {"sender", "net"}
    /\ sent[o].place \in {"none", "client"} => onion[o].layer = 1
    /\ sent[o].place = "relays" => onion[o].place \notin {"sender", "lost"}
    /\ sent[o].place = "relays" /\ onion[o].place = "net" => onion[o].layer > 1
    /\ sent[o].place = "arrived" => onion[o].place = "arrived"
    /\ onion[o].place = "lost" => sent[o].place = "lost"

\* The onions of the run lead over its relays.
PathsChosen ==
  \A o \in Onions : path[o] \in [R!Layers -> IF o \in C!Onions THEN Relays ELSE {NoRelay}]

\* Each start signal is in a goroutine that has yet to call wg.Done, or has been
\* used for it: nobody panics.
StartsCounted ==
  /\ \A r \in Relays :
       /\ relay[r].wg \in {0, 1} /\ relaySignals[r] \in {0, 1}
       /\ relaySignals[r] = relay[r].starting + 1 - relay[r].wg
  /\ \A c \in start.Clients :
       /\ client[c].wg \in {0, 1} /\ clientSignals[c] \in {0, 1}
       /\ clientSignals[c] = client[c].starting + 1 - client[c].wg

\* Who has peeled an onion has started.
WayStarted ==
  \A o \in C!Onions, k \in R!Layers : k < onion[o].layer => relay[path[o][k]].wg = 0

\* What has arrived has come all the way and is with its recipient, and nothing
\* is discarded that the last gatekeeper can open.
WayCompleted ==
  \A o \in C!Onions :
    /\ onion[o].place = "arrived" => onion[o].layer = R!Last + 1
    /\ sent[o].place = "arrived" => o \in client[sent[o].to].MessagesReceived
    /\ onion[o].place = "discarded" => D = 0

IInv ==
  /\ C!IInv /\ R!IInv
  /\ SidesAgree /\ PathsChosen /\ StartsCounted /\ WayStarted /\ WayCompleted

\* Nothing is received before every relay on its way has had its start signal and
\* known all nonces it was told: no onion overtakes the start of the run, however
\* early its sender and its recipient start.
NothingOvertakesStart ==
  \A c \in start.Clients : \A o \in client[c].MessagesReceived :
    \A k \in R!Layers :
      /\ relay[path[o][k]].wg = 0
      /\ o \in Checkpoints => o \in relay[path[o][k]].expectedNonces[k]

-----------------------------------------------------------------------------
(* What a run is for                                                       *)

AllStarted ==
  /\ \A r \in Relays : relaySignals[r] = 1
  /\ \A c \in start.Clients : clientSignals[c] = 1

NothingFails == \A o \in C!Onions : sent[o].place # "lost"

\* Every onion has been received by whom its sender chose, and everybody has a message.
Served ==
  /\ \A c \in start.Clients : \E o \in client[c].MessagesReceived : o[2] = 0
  /\ \A o \in C!Onions : o \in client[sent[o].to].MessagesReceived

\* Each relay has counted, layer by layer, all the checkpoints it was told to expect:
\* on that count the paper's relays base the progress of a run.
Counted ==
  \A r \in Relays, k \in R!Layers :
    relay[r].checkpointsReceived[k] = Cardinality({o \in Checkpoints \cap C!Onions : path[o][k] = r})

\* No handler, goroutine or request has anything left to do but to wait.
AtRest ==
  /\ \A r \in Relays : relay[r].starting = 0 /\ \A k \in R!Layers : relay[r].counting[k] = 0
  /\ \A c \in start.Clients : client[c].starting = 0 /\ ~client[c].sending
  /\ \A o \in C!Onions :
       /\ ~sent[o].posting
       /\ onion[o].place \notin {"net", "held"}
       /\ onion[o].place = "waiting" => relay[R!At(o)].wg # 0
       /\ onion[o].place = "arrived" => sent[o].place # "relays"

\* However a run went, when all is told and done each onion has been received by
\* whom it was for, unless a request for it failed: none is stuck, discarded or
\* received by another.  If no request failed, everybody is served and all
\* checkpoints are counted.  (With D = 0 the last gatekeeper opens no onion.)
ServedAtRest ==
  D > 0 /\ AllStarted /\ AtRest =>
    /\ \A o \in C!Onions : sent[o].place = "lost" \/ o \in client[sent[o].to].MessagesReceived
    /\ NothingFails => Served /\ Counted

\* If every node gets its start signal in the end, whenever that is, and no
\* request fails, the run comes to its purpose.
EverybodyServed == (D > 0 /\ <>AllStarted /\ []NothingFails) => <>(Served /\ Counted)
=============================================================================
