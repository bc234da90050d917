-------------------------------- MODULE Relay --------------------------------
(***************************************************************************)
(* The relays during a run: Relay.startRun, Receive and sendToNode         *)
(* (relay.go), the handlers of relay_handler.go, SendOnion and             *)
(* HandleReceiveOnion (api_functions/functions.go), NodeStatus             *)
(* (structs/nodeStatus.go) and the relay's lock, which a heartbeat holds   *)
(* while it waits for the bulletin board.                                  *)
(*                                                                         *)
(* Onions are the abstract onions of module BruiseCounter, which the real  *)
(* ones implement (OnionTransit!ImplementsCounter).  GetAndSet counts in a *)
(* goroutine of its own as AtomicCounters says, which ConcurrentMap        *)
(* implements.  Senders and the bulletin board are the environment.        *)
(*                                                                         *)
(* NodeStatus counts only if config.GetVis(), which no update changes: the *)
(* relays here run with vis: true, as config.yml has it.  With vis: false  *)
(* ExpectedCheckpoints and CheckpointOnionsReceived stay 0, GetStatus      *)
(* returns "", and nothing else is different.                              *)
(***************************************************************************)
EXTENDS Integers, FiniteSets

CONSTANTS
  Relays,       \* relay IDs
  Onions,       \* the onions of the run
  Checkpoints,  \* those with a nonce in every layer
  Listed,       \* those whose nonces the start signals contain
  L1, L2, D,    \* mixers and gatekeepers on a path, key blocks in a sepal
  MaxStarts     \* bound: start signals a relay is ever sent

ASSUME RelayAssumption ==
  /\ IsFiniteSet(Onions)
  /\ Listed \subseteq Checkpoints /\ Checkpoints \subseteq Onions
  /\ L1 \in Nat \ {0} /\ L2 \in Nat /\ D \in 0 .. L1 + 1
  /\ MaxStarts \in Nat

VARIABLES
  path,    \* the receiver of each layer of each onion, chosen by its sender
  onion,   \* each onion: its outermost layer, its bruises, and where it is
  relay,   \* the relay processes
  signals  \* start signals sent to each relay so far

vars == <<path, onion, relay, signals>>

Last == L1 + L2

Layers == 1 .. Last

\* As in OnionTransit: without gatekeepers the last mixer acts as the last
\* gatekeeper.
Mixers == IF L2 = 0 THEN L1 - 1 ELSE L1

\* "sender": not sent yet; "net": in a request to the receiver of its layer;
\* "waiting": that receiver's handler is in wg.Wait; "held": peeled, and the
\* goroutine of sendToNode has yet to send it; "arrived": sent to the recipient.
Places == {"sender", "net", "waiting", "held", "arrived", "discarded", "lost"}

NewOnion == [layer |-> 1, bruises |-> 0, place |-> "sender"]

\* A relay process.  n.wg starts at 1 and is -1 once it has panicked.
NewRelay ==
  [wg |-> 1,
   posting |-> FALSE,                           \* a heartbeat's POST holds n.mu
   starting |-> 0,                              \* goroutines of HandleStartRun
   expectedNonces |-> [k \in Layers |-> {}],
   counting |-> [k \in Layers |-> 0],           \* goroutines of GetAndSet
   checkpointsReceived |-> [k \in Layers |-> 0],
   ExpectedCheckpoints |-> [k \in Layers |-> 0],       \* of n.status
   CheckpointOnionsReceived |-> [k \in Layers |-> 0]]  \* of n.status

Init ==
  /\ path \in [Onions -> [Layers -> Relays]]
  /\ onion = [o \in Onions |-> NewOnion]
  /\ relay = [r \in Relays |-> NewRelay]
  /\ signals = [r \in Relays |-> 0]

Running(r) == relay[r].wg >= 0

\* The relay an onion is on its way to, or that works on it.
At(o) == path[o][onion[o].layer]

\* The relay that has peeled it.
Holder(o) == path[o][onion[o].layer - 1]

\* A nonce is fresh for its onion and layer, so the onion stands for it.
Nonces(r, k) == {o \in Listed : path[o][k] = r}

-----------------------------------------------------------------------------
(* The environment                                                         *)

\* A client's SendOnion to the first mixer.
ClientSends(o) ==
  /\ onion[o].place = "sender"
  /\ onion' = [onion EXCEPT ![o].place = "net"]
  /\ UNCHANGED <<path, relay, signals>>

\* The start signal reaches HandleStartRun, which answers at once.
HandleStartRun(r) ==
  /\ Running(r) /\ signals[r] < MaxStarts
  /\ signals' = [signals EXCEPT ![r] = @ + 1]
  /\ relay' = [relay EXCEPT ![r].starting = @ + 1]
  /\ UNCHANGED <<path, onion>>

-----------------------------------------------------------------------------
(* The lock                                                                *)

\* updateBulletinBoard takes n.mu and posts; nothing bounds how long that lasts.
HeartbeatPosts(r) ==
  /\ Running(r) /\ ~relay[r].posting
  /\ relay' = [relay EXCEPT ![r].posting = TRUE]
  /\ UNCHANGED <<path, onion, signals>>

HeartbeatEnds(r) ==
  /\ Running(r) /\ relay[r].posting
  /\ relay' = [relay EXCEPT ![r].posting = FALSE]
  /\ UNCHANGED <<path, onion, signals>>

-----------------------------------------------------------------------------
(* startRun                                                                *)

\* The loop over start.Checkpoints; AddExpectedCheckpoint counts, as vis is true.
Recorded(r) ==
  [relay[r] EXCEPT
     !.starting = @ - 1,
     !.expectedNonces = [k \in Layers |-> @[k] \union Nonces(r, k)],
     !.ExpectedCheckpoints = [k \in Layers |-> @[k] + Cardinality(Nonces(r, k))]]

StartRunWithoutDone(r) ==
  /\ relay[r].starting > 0 /\ ~relay[r].posting
  /\ relay[r].wg = 1
  /\ relay' = [relay EXCEPT ![r] = Recorded(r)]
  /\ UNCHANGED <<path, onion, signals>>

\* The first start: the nonces are recorded before wg.Done lets Receive go on.
StartRun(r) ==
  /\ relay[r].starting > 0 /\ ~relay[r].posting
  /\ relay[r].wg = 1
  /\ relay' = [relay EXCEPT ![r] = [Recorded(r) EXCEPT !.wg = 0]]
  /\ UNCHANGED <<path, onion, signals>>

\* Onions that go down with the process of relay r.
Inside(r) ==
  {o \in Onions : \/ onion[o].place = "waiting" /\ At(o) = r
                  \/ onion[o].place = "held" /\ Holder(o) = r}

\* A second start: wg.Done makes the counter negative and panics, outside any
\* handler, so the process ends.
StartRunPanics(r) ==
  /\ relay[r].starting > 0 /\ ~relay[r].posting
  /\ relay[r].wg = 0
  /\ relay' = [relay EXCEPT ![r] = [NewRelay EXCEPT !.wg = -1]]
  /\ onion' = [o \in Onions |->
                 IF o \in Inside(r) THEN [onion[o] EXCEPT !.place = "lost"] ELSE onion[o]]
  /\ UNCHANGED <<path, signals>>

-----------------------------------------------------------------------------
(* Receive                                                                 *)

\* HandleReceiveOnion calls Receive, which waits for the start.
HandleReceiveOnion(o) ==
  /\ onion[o].place = "net" /\ onion[o].layer \in Layers /\ Running(At(o))
  /\ onion' = [onion EXCEPT ![o].place = "waiting"]
  /\ UNCHANGED <<path, relay, signals>>

VerifiedOneLayerOff(o) ==
  onion[o].layer > 1 /\ o \in relay[At(o)].expectedNonces[onion[o].layer - 1]

\* The nonce of the onion is in n.expectedNonces[layer].
Verified(o) == o \in relay[At(o)].expectedNonces[onion[o].layer]

\* RemoveBlock or AddBruise: only a mixer changes the sepal.
Bruised(o) == onion[o].layer <= Mixers /\ o \in Checkpoints /\ ~Verified(o)

BookedUnverified(o) ==
  LET k == onion[o].layer
  IN [relay[At(o)] EXCEPT
        !.counting[k] = IF o \in Checkpoints THEN @ + 1 ELSE @,
        !.CheckpointOnionsReceived[k] = IF o \in Checkpoints THEN @ + 1 ELSE @]

\* The relay's books: a verified nonce is counted in a goroutine, and
\* AddCheckpointOnion counts, as vis is true.
Booked(o) ==
  LET k == onion[o].layer
  IN [relay[At(o)] EXCEPT
        !.counting[k] = IF o \in Checkpoints /\ Verified(o) THEN @ + 1 ELSE @,
        !.CheckpointOnionsReceived[k] = IF o \in Checkpoints THEN @ + 1 ELSE @]

PeelSucceedsAtThreshold(o) == onion[o].layer = Last => onion[o].bruises <= D

\* PeelOnion opens the onion, but not at the last gatekeeper once it is bruised
\* too often.
PeelSucceeds(o) == onion[o].layer = Last => onion[o].bruises < D

ReceiveWithoutWait(o) ==
  /\ onion[o].place = "waiting"
  /\ PeelSucceeds(o)
  /\ relay' = [relay EXCEPT ![At(o)] = Booked(o)]
  /\ onion' = [onion EXCEPT ![o] =
                 [layer |-> @.layer + 1,
                  bruises |-> IF Bruised(o) THEN @.bruises + 1 ELSE @.bruises,
                  place |-> "held"]]
  /\ UNCHANGED <<path, signals>>

\* Receive from wg.Wait on: other handlers of the relay touch no more than the
\* counters meanwhile, which are locked or atomic.
Receive(o) ==
  /\ onion[o].place = "waiting" /\ relay[At(o)].wg = 0
  /\ PeelSucceeds(o)
  /\ relay' = [relay EXCEPT ![At(o)] = Booked(o)]
  /\ onion' = [onion EXCEPT ![o] =
                 [layer |-> @.layer + 1,
                  bruises |-> IF Bruised(o) THEN @.bruises + 1 ELSE @.bruises,
                  place |-> "held"]]
  /\ UNCHANGED <<path, signals>>

\* PeelOnion fails: Receive returns the error before it touches the books.
ReceiveFails(o) ==
  /\ onion[o].place = "waiting" /\ relay[At(o)].wg = 0
  /\ ~PeelSucceeds(o)
  /\ onion' = [onion EXCEPT ![o].place = "discarded"]
  /\ UNCHANGED <<path, relay, signals>>

\* The goroutine of GetAndSet ends.
Count(r, k) ==
  /\ relay[r].counting[k] > 0
  /\ relay' = [relay EXCEPT ![r].counting[k] = @ - 1,
                            ![r].checkpointsReceived[k] = @ + 1]
  /\ UNCHANGED <<path, onion, signals>>

SendToNodeButNotToClients(o) ==
  /\ onion[o].place = "held" /\ onion[o].layer \in Layers
  /\ onion' = [onion EXCEPT ![o].place = "net"]
  /\ UNCHANGED <<path, relay, signals>>

\* sendToNode starts the request to the next receiver, the recipient at last.
SendToNode(o) ==
  /\ onion[o].place = "held"
  /\ onion' = [onion EXCEPT ![o].place =
                 IF onion[o].layer \in Layers THEN "net" ELSE "arrived"]
  /\ UNCHANGED <<path, relay, signals>>

\* SendOnion fails before the request is handled: nobody tries again.
Lose(o) ==
  /\ onion[o].place = "net"
  /\ onion' = [onion EXCEPT ![o].place = "lost"]
  /\ UNCHANGED <<path, relay, signals>>

RelayNext(r) ==
  \/ HandleStartRun(r) \/ StartRun(r) \/ StartRunPanics(r)
  \/ HeartbeatPosts(r) \/ HeartbeatEnds(r)
  \/ \E k \in Layers : Count(r, k)

OnionNext(o) ==
  \/ ClientSends(o) \/ HandleReceiveOnion(o) \/ Receive(o) \/ ReceiveFails(o)
  \/ SendToNode(o) \/ Lose(o)

Next == (\E r \in Relays : RelayNext(r)) \/ (\E o \in Onions : OnionNext(o))

Spec == Init /\ [][Next]_vars

\* Goroutines and handlers are scheduled, requests come to an end, and Go's
\* mutex lets nobody starve, however often the heartbeat asks for it.  Senders,
\* the start signal and the loss of requests are up to the environment.
Fairness ==
  /\ \A r \in Relays :
       /\ SF_vars(StartRun(r) \/ StartRunPanics(r))
       /\ WF_vars(HeartbeatEnds(r))
       /\ \A k \in Layers : WF_vars(Count(r, k))
  /\ \A o \in Onions :
       WF_vars(HandleReceiveOnion(o) \/ Receive(o) \/ ReceiveFails(o) \/ SendToNode(o) \/ Lose(o))

FairSpec == Spec /\ Fairness

-----------------------------------------------------------------------------
(* Types and the inductive invariant                                       *)

RelayProcess ==
  [wg : {-1, 0, 1}, posting : BOOLEAN, starting : Nat,
   expectedNonces : [Layers -> SUBSET Listed],
   counting : [Layers -> Nat], checkpointsReceived : [Layers -> Nat],
   ExpectedCheckpoints : [Layers -> Nat], CheckpointOnionsReceived : [Layers -> Nat]]

\* Every variable has its type; only an onion past all relays has the layer
\* after the last.
TypeOK ==
  /\ path \in [Onions -> [Layers -> Relays]]
  /\ onion \in [Onions -> [layer : 1 .. Last + 1, bruises : Nat, place : Places]]
  /\ relay \in [Relays -> RelayProcess]
  /\ signals \in [Relays -> Nat]

\* A relay whose wg.Wait lets handlers pass knows every nonce it was told, and
\* no other relay knows any.
NoncesRecorded ==
  \A r \in Relays : \A k \in Layers :
    /\ relay[r].wg = 0 => relay[r].expectedNonces[k] = Nonces(r, k)
    /\ relay[r].wg # 0 => relay[r].expectedNonces[k] = {}

Passed(o) == onion[o].layer - 1

MixersPassed(o) == IF Passed(o) < Mixers THEN Passed(o) ELSE Mixers

\* An onion is bruised by every mixer if its nonces are in nobody's start
\* signal, and otherwise by none, in whatever order start signals, heartbeats
\* and onions arrive: an early onion is never bruised for being early.
BruisesDeserved ==
  \A o \in Onions :
    onion[o].bruises = IF o \in Checkpoints \ Listed THEN MixersPassed(o) ELSE 0

\* Layers stay in range while a relay works on the onion.
LayersInRange ==
  \A o \in Onions :
    /\ onion[o].place \in {"sender", "net", "waiting", "discarded"} => onion[o].layer \in Layers
    /\ onion[o].place \in {"held", "arrived"} => onion[o].layer > 1

IInv == TypeOK /\ LayersInRange /\ NoncesRecorded /\ BruisesDeserved

-----------------------------------------------------------------------------
(* Safety                                                                  *)

\* The onions of S that relay r has peeled, or is to peel, at layer k.
Here(S, r, k) == {o \in S : path[o][k] = r}
Through(S, r, k) == {o \in S : path[o][k] = r /\ Passed(o) >= k}

Tally(r, k) ==
  /\ relay[r].checkpointsReceived[k] + relay[r].counting[k] = Cardinality(Through(Listed, r, k))
  /\ relay[r].CheckpointOnionsReceived[k] = Cardinality(Through(Checkpoints, r, k))

\* A relay's books balance while it runs: what the start signal announced for a
\* layer is counted, being counted, or still out, and GetStatus reports every
\* checkpoint onion that came through, expected or not.
BooksBalance ==
  \A r \in Relays, k \in Layers :
    relay[r].wg = 0 =>
      Tally(r, k) /\ relay[r].ExpectedCheckpoints[k] = Cardinality(Here(Listed, r, k))

\* What keeps them balanced: the tally is right before the start, too, when
\* nothing can have come through, and startRun only announces.
BooksInv ==
  \A r \in Relays, k \in Layers :
    /\ relay[r].wg # -1 => Tally(r, k)
    /\ relay[r].wg = 0 => relay[r].ExpectedCheckpoints[k] = Cardinality(Here(Listed, r, k))
    /\ relay[r].wg = 1 => relay[r].ExpectedCheckpoints[k] = 0

\* Each onion is the abstract one of BruiseCounter.
Fate(o) == CASE onion[o].place = "arrived" -> "delivered"
             [] onion[o].place \in {"discarded", "lost"} -> onion[o].place
             [] OTHER -> "travelling"

Counter(o) == INSTANCE BruiseCounter
                WITH hop <- onion[o].layer, bruises <- onion[o].bruises, fate <- Fate(o)

ImplementsCounters ==
  /\ \A o \in Onions : Counter(o)!Init
  /\ [][\A o \in Onions : Counter(o)!Next \/ UNCHANGED Counter(o)!vars]_vars

-----------------------------------------------------------------------------
(* Liveness                                                                *)

\* A start signal takes effect though heartbeats keep taking the lock.
StartTakesEffect == \A r \in Relays : relay[r].starting > 0 ~> relay[r].wg # 1

\* An onion that a client sent goes its way to the end, unless it waits for ever at
\* a relay that is never told to start: whenever a start signal comes, no handler
\* is left in wg.Wait after its startRun, and no relay waits for another.
OnionsSettle ==
  \A o \in Onions :
    onion[o].place = "net" ~>
      \/ onion[o].place \in {"arrived", "discarded", "lost"}
      \/ [](onion[o].place = "waiting" /\ signals[At(o)] = 0)
=============================================================================
