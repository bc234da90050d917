----------------------------- MODULE RelayProofs -----------------------------
(***************************************************************************)
(* Proofs about module Relay, for any relays, onions, paths, numbers of    *)
(* layers and of start signals.                                            *)
(***************************************************************************)
EXTENDS Relay, FiniteSetTheorems, TLAPS

\* The parameters that recur in every proof.
LEMMA Parameters ==
  /\ L1 \in Nat /\ L1 > 0 /\ L2 \in Nat /\ D \in Nat
  /\ Last \in Nat /\ Last >= 1 /\ Mixers \in Nat /\ Mixers <= Last
  /\ 1 \in Layers
  /\ \A k \in Layers : k \in Nat /\ k + 1 \in 1 .. Last + 1
BY RelayAssumption DEF Last, Mixers, Layers

\* A relay is told a finite number of nonces.
LEMMA NoncesFinite ==
  ASSUME NEW r \in Relays, NEW k \in Layers
  PROVE  /\ Nonces(r, k) \in SUBSET Listed
         /\ Cardinality(Nonces(r, k)) \in Nat
<1>1. Nonces(r, k) \in SUBSET Listed
  BY DEF Nonces
<1>2. IsFiniteSet(Nonces(r, k))
  BY <1>1, RelayAssumption, FS_Subset
<1> QED
  BY <1>1, <1>2, FS_CardinalityType

\* A new relay process, and a crashed one.
LEMMA NewRelayType ==
  /\ NewRelay \in RelayProcess
  /\ [NewRelay EXCEPT !.wg = -1] \in RelayProcess
BY DEF NewRelay, RelayProcess

LEMMA InitInv == Init => IInv
<1> SUFFICES ASSUME Init PROVE IInv
  OBVIOUS
<1>1. TypeOK
  BY Parameters, NewRelayType DEF Init, TypeOK, NewOnion, Places
<1>2. LayersInRange
  BY Parameters DEF Init, LayersInRange, NewOnion
<1>3. NoncesRecorded
  BY DEF Init, NoncesRecorded, NewRelay
<1>4. BruisesDeserved
  BY Parameters DEF Init, BruisesDeserved, NewOnion, MixersPassed, Passed
<1> QED
  BY <1>1, <1>2, <1>3, <1>4 DEF IInv

-----------------------------------------------------------------------------
(* The steps of an onion                                                   *)

\* A step that moves an onion without peeling it keeps the invariant.
LEMMA MoveInv ==
  ASSUME IInv, NEW o \in Onions, NEW p \in Places,
         onion' = [onion EXCEPT ![o].place = p],
         UNCHANGED <<path, relay, signals>>,
         p \in {"sender", "net", "waiting", "discarded"} => onion[o].layer \in Layers,
         p \in {"held", "arrived"} => onion[o].layer > 1
  PROVE  IInv'
<1> USE DEF IInv
<1>1. TypeOK'
  BY DEF TypeOK
<1>2. \A q \in Onions : /\ onion'[q].layer = onion[q].layer
                        /\ onion'[q].bruises = onion[q].bruises
                        /\ q # o => onion'[q].place = onion[q].place
  BY DEF TypeOK
<1>3. onion'[o].place = p
  BY DEF TypeOK
<1>4. LayersInRange'
  BY <1>2, <1>3 DEF LayersInRange
<1>5. NoncesRecorded'
  BY DEF NoncesRecorded, Nonces
<1>6. BruisesDeserved'
  BY <1>2 DEF BruisesDeserved, MixersPassed, Passed
<1> QED
  BY <1>1, <1>4, <1>5, <1>6

\* Behind wg.Wait an onion is judged by the nonces of the start signal.
LEMMA JudgedBySignal ==
  ASSUME IInv, NEW o \in Onions,
         onion[o].place = "waiting", relay[At(o)].wg = 0
  PROVE  /\ onion[o].layer \in Layers
         /\ At(o) \in Relays
         /\ Bruised(o) <=> onion[o].layer <= Mixers /\ o \in Checkpoints \ Listed
<1> USE DEF IInv
<1>1. onion[o].layer \in Layers
  BY DEF LayersInRange
<1>2. At(o) \in Relays
  BY <1>1 DEF At, TypeOK
<1>3. relay[At(o)].expectedNonces[onion[o].layer] = Nonces(At(o), onion[o].layer)
  BY <1>1, <1>2 DEF NoncesRecorded
<1>4. Verified(o) <=> o \in Listed
  BY <1>1, <1>3 DEF Verified, Nonces, At
<1> QED
  BY <1>1, <1>2, <1>4 DEF Bruised

\* The books of a relay that peels an onion.
LEMMA BookedType ==
  ASSUME TypeOK, NEW o \in Onions, At(o) \in Relays, onion[o].layer \in Layers
  PROVE  /\ Booked(o) \in RelayProcess
         /\ Booked(o).wg = relay[At(o)].wg
         /\ Booked(o).expectedNonces = relay[At(o)].expectedNonces
<1> DEFINE k == onion[o].layer
           n == relay[At(o)]
           counting == IF o \in Checkpoints /\ Verified(o) THEN n.counting[k] + 1
                       ELSE n.counting[k]
           received == IF o \in Checkpoints THEN n.CheckpointOnionsReceived[k] + 1
                       ELSE n.CheckpointOnionsReceived[k]
<1>1. n \in RelayProcess /\ k \in Layers
  BY DEF TypeOK
<1>2. Booked(o) = [n EXCEPT !.counting = [@ EXCEPT ![k] = counting],
                            !.CheckpointOnionsReceived = [@ EXCEPT ![k] = received]]
  BY <1>1 DEF Booked, RelayProcess
<1>3. counting \in Nat /\ received \in Nat
  BY <1>1 DEF RelayProcess
<1> HIDE DEF n, k, counting, received
<1>4. /\ [n.counting EXCEPT ![k] = counting] \in [Layers -> Nat]
      /\ [n.CheckpointOnionsReceived EXCEPT ![k] = received] \in [Layers -> Nat]
  BY <1>1, <1>3 DEF RelayProcess
<1>5. /\ Booked(o) \in RelayProcess
      /\ Booked(o).wg = n.wg
      /\ Booked(o).expectedNonces = n.expectedNonces
  BY <1>1, <1>2, <1>4 DEF RelayProcess
<1> QED
  BY <1>5 DEF n

LEMMA ReceiveInv ==
  ASSUME IInv, NEW o \in Onions, Receive(o)
  PROVE  IInv'
<1> USE DEF IInv
<1>1. /\ onion[o].place = "waiting" /\ relay[At(o)].wg = 0
      /\ relay' = [relay EXCEPT ![At(o)] = Booked(o)]
      /\ path' = path /\ signals' = signals
  BY DEF Receive
<1>2. /\ onion[o].layer \in Layers
      /\ At(o) \in Relays
      /\ Bruised(o) <=> onion[o].layer <= Mixers /\ o \in Checkpoints \ Listed
  BY <1>1, JudgedBySignal
<1> DEFINE b == IF Bruised(o) THEN onion[o].bruises + 1 ELSE onion[o].bruises
<1>3. onion' = [onion EXCEPT ![o] = [layer |-> onion[o].layer + 1, bruises |-> b, place |-> "held"]]
  BY DEF Receive, TypeOK
<1>4. /\ b \in Nat
      /\ o \in Checkpoints \ Listed /\ onion[o].layer <= Mixers => b = onion[o].bruises + 1
      /\ ~(o \in Checkpoints \ Listed /\ onion[o].layer <= Mixers) => b = onion[o].bruises
  BY <1>2 DEF TypeOK
<1> HIDE DEF b
<1>5. /\ onion'[o] = [layer |-> onion[o].layer + 1, bruises |-> b, place |-> "held"]
      /\ \A q \in Onions : q # o => onion'[q] = onion[q]
  BY <1>3 DEF TypeOK
<1>6. TypeOK'
  <2>1. relay' \in [Relays -> RelayProcess]
    BY <1>1, <1>2, BookedType DEF TypeOK
  <2>2. onion' \in [Onions -> [layer : 1 .. Last + 1, bruises : Nat, place : Places]]
    BY <1>2, <1>3, <1>4, Parameters DEF TypeOK, Places
  <2> QED
    BY <1>1, <2>1, <2>2 DEF TypeOK
<1>7. LayersInRange'
  BY <1>2, <1>5, Parameters DEF LayersInRange, Layers
<1>8. NoncesRecorded'
  <2>1. \A r \in Relays : /\ relay'[r].wg = relay[r].wg
                          /\ relay'[r].expectedNonces = relay[r].expectedNonces
    BY <1>1, <1>2, BookedType DEF TypeOK
  <2> QED
    BY <1>1, <2>1 DEF NoncesRecorded, Nonces
<1>9. BruisesDeserved'
  <2>1. onion[o].layer \in Nat /\ onion[o].layer >= 1 /\ onion[o].bruises \in Nat
    BY <1>2, Parameters DEF Layers, TypeOK
  <2>2. onion'[o].bruises = IF o \in Checkpoints \ Listed THEN MixersPassed(o)' ELSE 0
    BY <1>4, <1>5, <2>1, Parameters DEF BruisesDeserved, MixersPassed, Passed
  <2> QED
    BY <1>5, <2>2 DEF BruisesDeserved, MixersPassed, Passed
<1> QED
  BY <1>6, <1>7, <1>8, <1>9

LEMMA OnionInv ==
  ASSUME IInv, NEW o \in Onions, OnionNext(o)
  PROVE  IInv'
<1>1. CASE ClientSends(o)
  BY <1>1, MoveInv DEF ClientSends, IInv, LayersInRange, Places
<1>2. CASE HandleReceiveOnion(o)
  BY <1>2, MoveInv DEF HandleReceiveOnion, Places
<1>3. CASE Receive(o)
  BY <1>3, ReceiveInv
<1>4. CASE ReceiveFails(o)
  BY <1>4, MoveInv, JudgedBySignal DEF ReceiveFails, Places
<1>5. CASE SendToNode(o)
  <2>1. onion[o].layer > 1
    BY <1>5 DEF SendToNode, IInv, LayersInRange
  <2>2. CASE onion[o].layer \in Layers
    BY <1>5, <2>2, MoveInv DEF SendToNode, Places
  <2>3. CASE onion[o].layer \notin Layers
    BY <1>5, <2>1, <2>3, MoveInv DEF SendToNode, Places
  <2> QED
    BY <2>2, <2>3
<1>6. CASE Lose(o)
  BY <1>6, MoveInv DEF Lose, Places
<1> QED
  BY <1>1, <1>2, <1>3, <1>4, <1>5, <1>6 DEF OnionNext

-----------------------------------------------------------------------------
(* The steps of a relay                                                    *)

\* A step that changes a relay's process, but neither its wg nor its nonces.
LEMMA OwnStepInv ==
  ASSUME IInv, NEW r \in Relays, NEW n \in RelayProcess,
         relay' = [relay EXCEPT ![r] = n],
         n.wg = relay[r].wg, n.expectedNonces = relay[r].expectedNonces,
         path' = path, onion' = onion, signals' \in [Relays -> Nat]
  PROVE  IInv'
<1> USE DEF IInv
<1>1. TypeOK'
  BY DEF TypeOK
<1>2. LayersInRange'
  BY DEF LayersInRange
<1>3. NoncesRecorded'
  BY DEF NoncesRecorded, Nonces, TypeOK
<1>4. BruisesDeserved'
  BY DEF BruisesDeserved, MixersPassed, Passed
<1> QED
  BY <1>1, <1>2, <1>3, <1>4

LEMMA StartRunInv ==
  ASSUME IInv, NEW r \in Relays, StartRun(r)
  PROVE  IInv'
<1> USE DEF IInv
<1> DEFINE n == relay[r]
           nonces == [k \in Layers |-> n.expectedNonces[k] \union Nonces(r, k)]
           expected == [k \in Layers |-> n.ExpectedCheckpoints[k] + Cardinality(Nonces(r, k))]
           started == [Recorded(r) EXCEPT !.wg = 0]
<1>1. /\ n \in RelayProcess /\ n.starting > 0
      /\ relay' = [relay EXCEPT ![r] = started]
      /\ path' = path /\ onion' = onion /\ signals' = signals
  BY DEF StartRun, TypeOK
<1>2. /\ nonces = [k \in Layers |-> Nonces(r, k)]
      /\ nonces \in [Layers -> SUBSET Listed]
      /\ expected \in [Layers -> Nat]
  <2>1. \A k \in Layers : n.expectedNonces[k] = {}
    BY DEF StartRun, NoncesRecorded
  <2>2. \A k \in Layers : n.ExpectedCheckpoints[k] + Cardinality(Nonces(r, k)) \in Nat
    BY <1>1, NoncesFinite DEF RelayProcess
  <2> QED
    BY <2>1, <2>2, NoncesFinite
<1>3. Recorded(r) = [n EXCEPT !.starting = @ - 1, !.expectedNonces = nonces,
                              !.ExpectedCheckpoints = expected]
  BY <1>1 DEF Recorded, RelayProcess
<1>4. n.starting - 1 \in Nat
  BY <1>1 DEF RelayProcess
<1> HIDE DEF n, nonces, expected
<1>5. /\ started \in RelayProcess
      /\ started.expectedNonces = nonces
      /\ started.wg = 0
  <2>1. Recorded(r) \in RelayProcess /\ Recorded(r).expectedNonces = nonces
    BY <1>1, <1>2, <1>3, <1>4 DEF RelayProcess
  <2> QED
    BY <2>1 DEF RelayProcess
<1>6. TypeOK'
  BY <1>1, <1>5 DEF TypeOK
<1>7. LayersInRange'
  BY <1>1 DEF LayersInRange
<1>8. NoncesRecorded'
  <2> SUFFICES ASSUME NEW q \in Relays, NEW k \in Layers
               PROVE  /\ relay'[q].wg = 0 => relay'[q].expectedNonces[k] = Nonces(q, k)'
                      /\ relay'[q].wg # 0 => relay'[q].expectedNonces[k] = {}
    BY DEF NoncesRecorded
  <2>1. CASE q = r
    BY <1>1, <1>2, <1>5, <2>1 DEF TypeOK, Nonces
  <2>2. CASE q # r
    BY <1>1, <2>2 DEF TypeOK, Nonces, NoncesRecorded
  <2> QED
    BY <2>1, <2>2
<1>9. BruisesDeserved'
  BY <1>1 DEF BruisesDeserved, MixersPassed, Passed
<1> QED
  BY <1>6, <1>7, <1>8, <1>9

LEMMA StartRunPanicsInv ==
  ASSUME IInv, NEW r \in Relays, StartRunPanics(r)
  PROVE  IInv'
<1> USE DEF IInv
<1>1. /\ relay' = [relay EXCEPT ![r] = [NewRelay EXCEPT !.wg = -1]]
      /\ onion' = [o \in Onions |->
                     IF o \in Inside(r) THEN [onion[o] EXCEPT !.place = "lost"] ELSE onion[o]]
      /\ path' = path /\ signals' = signals
  BY DEF StartRunPanics
<1>2. \A o \in Onions :
        /\ onion'[o] \in [layer : 1 .. Last + 1, bruises : Nat, place : Places]
        /\ onion'[o].layer = onion[o].layer
        /\ onion'[o].bruises = onion[o].bruises
        /\ onion'[o].place \in {onion[o].place, "lost"}
  BY <1>1 DEF TypeOK, Places
<1>3. TypeOK'
  <2>1. onion' \in [Onions -> [layer : 1 .. Last + 1, bruises : Nat, place : Places]]
    BY <1>1, <1>2
  <2>2. relay' \in [Relays -> RelayProcess]
    BY <1>1, NewRelayType DEF TypeOK
  <2> QED
    BY <1>1, <2>1, <2>2 DEF TypeOK
<1>4. LayersInRange'
  BY <1>2 DEF LayersInRange
<1>5. NoncesRecorded'
  <2>1. /\ [NewRelay EXCEPT !.wg = -1].wg = -1
        /\ \A k \in Layers : [NewRelay EXCEPT !.wg = -1].expectedNonces[k] = {}
    BY DEF NewRelay
  <2> SUFFICES ASSUME NEW q \in Relays, NEW k \in Layers
               PROVE  /\ relay'[q].wg = 0 => relay'[q].expectedNonces[k] = Nonces(q, k)'
                      /\ relay'[q].wg # 0 => relay'[q].expectedNonces[k] = {}
    BY DEF NoncesRecorded
  <2>2. CASE q = r
    BY <1>1, <2>1, <2>2 DEF TypeOK
  <2>3. CASE q # r
    BY <1>1, <2>3 DEF TypeOK, Nonces, NoncesRecorded
  <2> QED
    BY <2>2, <2>3
<1>6. BruisesDeserved'
  BY <1>2 DEF BruisesDeserved, MixersPassed, Passed
<1> QED
  BY <1>3, <1>4, <1>5, <1>6

LEMMA RelayInv ==
  ASSUME IInv, NEW r \in Relays, RelayNext(r)
  PROVE  IInv'
<1>0. relay[r] \in RelayProcess /\ signals \in [Relays -> Nat]
  BY DEF IInv, TypeOK
<1>1. CASE HandleStartRun(r)
  <2> DEFINE n == [relay[r] EXCEPT !.starting = @ + 1]
  <2>1. n \in RelayProcess /\ n.wg = relay[r].wg /\ n.expectedNonces = relay[r].expectedNonces
    BY <1>0 DEF RelayProcess
  <2>2. relay' = [relay EXCEPT ![r] = n]
    BY <1>1 DEF HandleStartRun
  <2>3. path' = path /\ onion' = onion /\ signals' \in [Relays -> Nat]
    BY <1>0, <1>1 DEF HandleStartRun
  <2> HIDE DEF n
  <2> QED
    BY <2>1, <2>2, <2>3, OwnStepInv
<1>2. CASE StartRun(r)
  BY <1>2, StartRunInv
<1>3. CASE StartRunPanics(r)
  BY <1>3, StartRunPanicsInv
<1>4. CASE HeartbeatPosts(r) \/ HeartbeatEnds(r)
  <2>1. PICK b \in BOOLEAN : relay' = [relay EXCEPT ![r].posting = b]
    BY <1>4 DEF HeartbeatPosts, HeartbeatEnds
  <2> DEFINE n == [relay[r] EXCEPT !.posting = b]
  <2>2. n \in RelayProcess /\ n.wg = relay[r].wg /\ n.expectedNonces = relay[r].expectedNonces
    BY <1>0 DEF RelayProcess
  <2>3. relay' = [relay EXCEPT ![r] = n]
    BY <2>1
  <2>4. path' = path /\ onion' = onion /\ signals' \in [Relays -> Nat]
    BY <1>0, <1>4 DEF HeartbeatPosts, HeartbeatEnds
  <2> HIDE DEF n
  <2> QED
    BY <2>2, <2>3, <2>4, OwnStepInv
<1>5. ASSUME NEW k \in Layers, Count(r, k) PROVE IInv'
  <2> DEFINE counting == [relay[r].counting EXCEPT ![k] = @ - 1]
             received == [relay[r].checkpointsReceived EXCEPT ![k] = @ + 1]
             n == [relay[r] EXCEPT !.counting = counting, !.checkpointsReceived = received]
  <2>1. /\ counting \in [Layers -> Nat]
        /\ received \in [Layers -> Nat]
    BY <1>0, <1>5 DEF Count, RelayProcess
  <2>3. relay' = [relay EXCEPT ![r] = n]
    BY <1>5, Zenon DEF Count
  <2> HIDE DEF counting, received
  <2>2. n \in RelayProcess /\ n.wg = relay[r].wg /\ n.expectedNonces = relay[r].expectedNonces
    BY <1>0, <2>1 DEF RelayProcess
  <2>4. path' = path /\ onion' = onion /\ signals' \in [Relays -> Nat]
    BY <1>0, <1>5 DEF Count
  <2> HIDE DEF n
  <2> QED
    BY <2>2, <2>3, <2>4, OwnStepInv
<1> QED
  BY <1>1, <1>2, <1>3, <1>4, <1>5 DEF RelayNext

LEMMA NextInv == IInv /\ [Next]_vars => IInv'
<1> SUFFICES ASSUME IInv, [Next]_vars PROVE IInv'
  OBVIOUS
<1>1. ASSUME NEW r \in Relays, RelayNext(r) PROVE IInv'
  BY <1>1, RelayInv
<1>2. ASSUME NEW o \in Onions, OnionNext(o) PROVE IInv'
  BY <1>2, OnionInv
<1>3. CASE UNCHANGED vars
  BY <1>3 DEF vars, IInv, TypeOK, LayersInRange, NoncesRecorded, Nonces,
              BruisesDeserved, MixersPassed, Passed
<1> QED
  BY <1>1, <1>2, <1>3 DEF Next

\* In whatever order start signals, heartbeats and onions reach the relays, the
\* invariant of Relay holds: an onion is bruised by all mixers or by none.
THEOREM Invariance == Spec => []IInv
<1>1. Init => IInv
  BY InitInv
<1>2. IInv /\ [Next]_vars => IInv'
  BY NextInv
<1> QED
  BY <1>1, <1>2, PTL DEF Spec

-----------------------------------------------------------------------------
(* Refinement                                                              *)

LEMMA InitCounter == Init => \A o \in Onions : Counter(o)!Init
BY DEF Init, NewOnion, Counter!Init, Fate

LEMMA ReceiveCounter ==
  ASSUME IInv, NEW o \in Onions, Receive(o)
  PROVE  Counter(o)!Next
<1>1. /\ onion[o].place = "waiting"
      /\ onion[o].layer \in Layers
      /\ Bruised(o) <=> onion[o].layer <= Mixers /\ o \in Checkpoints \ Listed
      /\ onion[o].layer = Last => onion[o].bruises < D
  BY JudgedBySignal DEF Receive, PeelSucceeds
<1>2. /\ onion'[o].layer = onion[o].layer + 1
      /\ onion'[o].bruises = IF Bruised(o) THEN onion[o].bruises + 1 ELSE onion[o].bruises
      /\ onion'[o].place = "held"
  BY DEF Receive, IInv, TypeOK
<1>3. Fate(o) = "travelling" /\ Fate(o)' = "travelling"
  BY <1>1, <1>2 DEF Fate
<1>4. onion[o].layer \in Nat /\ onion[o].layer <= Last
  BY <1>1, Parameters DEF Layers
<1>5. CASE onion[o].layer <= Mixers
  BY <1>1, <1>2, <1>3, <1>5 DEF Counter!Next, Counter!Mix
<1>6. CASE Mixers < onion[o].layer /\ onion[o].layer < Last
  BY <1>1, <1>2, <1>3, <1>4, <1>6, Parameters DEF Counter!Next, Counter!Forward
<1>7. CASE Mixers < onion[o].layer /\ onion[o].layer = Last
  BY <1>1, <1>2, <1>3, <1>4, <1>7, Parameters DEF Counter!Next, Counter!Open
<1> QED
  BY <1>4, <1>5, <1>6, <1>7, Parameters

\* What an onion's own steps do to its abstract counterpart.
LEMMA OnionCounter ==
  ASSUME IInv, NEW o \in Onions, OnionNext(o)
  PROVE  Counter(o)!Next \/ UNCHANGED Counter(o)!vars
<1>1. onion[o] \in [layer : 1 .. Last + 1, bruises : Nat, place : Places]
  BY DEF IInv, TypeOK
<1>2. CASE ClientSends(o) \/ HandleReceiveOnion(o)
  BY <1>1, <1>2 DEF ClientSends, HandleReceiveOnion, Fate, Counter!vars, IInv, TypeOK
<1>3. CASE Receive(o)
  BY <1>3, ReceiveCounter
<1>4. CASE ReceiveFails(o)
  <2>1. onion[o].layer = Last /\ onion[o].bruises >= D
    BY <1>1, <1>4, Parameters DEF ReceiveFails, PeelSucceeds
  <2>2. Fate(o) = "travelling" /\ Fate(o)' = "discarded"
    BY <1>4 DEF ReceiveFails, Fate, IInv, TypeOK
  <2>3. onion'[o].layer = onion[o].layer /\ onion'[o].bruises = onion[o].bruises
    BY <1>4 DEF ReceiveFails, IInv, TypeOK
  <2> QED
    BY <2>1, <2>2, <2>3 DEF Counter!Next, Counter!Discard
<1>5. CASE SendToNode(o)
  <2>1. onion'[o].layer = onion[o].layer /\ onion'[o].bruises = onion[o].bruises
    BY <1>5 DEF SendToNode, IInv, TypeOK
  <2>2. Fate(o) = "travelling"
    BY <1>5 DEF SendToNode, Fate
  <2>3. CASE onion[o].layer \in Layers
    <3>1. Fate(o)' = "travelling"
      BY <1>5, <2>3 DEF SendToNode, Fate, IInv, TypeOK
    <3> QED
      BY <2>1, <2>2, <3>1 DEF Counter!vars
  <2>4. CASE onion[o].layer \notin Layers
    <3>1. Fate(o)' = "delivered"
      BY <1>5, <2>4 DEF SendToNode, Fate, IInv, TypeOK
    <3>2. onion[o].layer = Last + 1
      BY <1>1, <2>4, Parameters DEF Layers
    <3> QED
      BY <2>1, <2>2, <3>1, <3>2 DEF Counter!Next, Counter!Deliver
  <2> QED
    BY <2>3, <2>4
<1>6. CASE Lose(o)
  <2>1. /\ onion'[o].layer = onion[o].layer /\ onion'[o].bruises = onion[o].bruises
        /\ Fate(o) = "travelling" /\ Fate(o)' = "lost"
    BY <1>6 DEF Lose, Fate, IInv, TypeOK
  <2> QED
    BY <2>1 DEF Counter!Next, Counter!Lose
<1> QED
  BY <1>2, <1>3, <1>4, <1>5, <1>6 DEF OnionNext

\* A relay that goes down loses the onions inside it and no others.
LEMMA PanicCounter ==
  ASSUME IInv, NEW r \in Relays, StartRunPanics(r), NEW o \in Onions
  PROVE  Counter(o)!Next \/ UNCHANGED Counter(o)!vars
<1>1. CASE o \in Inside(r)
  <2>1. /\ onion'[o].layer = onion[o].layer /\ onion'[o].bruises = onion[o].bruises
        /\ onion'[o].place = "lost" /\ onion[o].place \in {"waiting", "held"}
    BY <1>1 DEF StartRunPanics, Inside, IInv, TypeOK
  <2>2. Fate(o) = "travelling" /\ Fate(o)' = "lost"
    BY <2>1 DEF Fate
  <2> QED
    BY <2>1, <2>2 DEF Counter!Next, Counter!Lose
<1>2. CASE o \notin Inside(r)
  BY <1>2 DEF StartRunPanics, Fate, Counter!vars
<1> QED
  BY <1>1, <1>2

\* Whatever the relays' schedule, every onion behaves like the abstract onion
\* that OnionTransit shows the real ones to implement.
THEOREM Refinement == Spec => ImplementsCounters
<1>1. Init => \A o \in Onions : Counter(o)!Init
  BY InitCounter
<1>2. IInv /\ [Next]_vars =>
        [\A o \in Onions : Counter(o)!Next \/ UNCHANGED Counter(o)!vars]_vars
  <2> SUFFICES ASSUME IInv, Next, NEW o \in Onions
               PROVE  Counter(o)!Next \/ UNCHANGED Counter(o)!vars
    OBVIOUS
  <2>1. ASSUME NEW q \in Onions, OnionNext(q)
        PROVE  Counter(o)!Next \/ UNCHANGED Counter(o)!vars
    <3>1. CASE q = o
      BY <2>1, <3>1, OnionCounter
    <3>2. CASE q # o
      <4>1. onion'[o] = onion[o]
        BY <2>1, <3>2 DEF OnionNext, ClientSends, HandleReceiveOnion, Receive, ReceiveFails,
                          SendToNode, Lose, IInv, TypeOK
      <4> QED
        BY <4>1 DEF Fate, Counter!vars
    <3> QED
      BY <3>1, <3>2
  <2>2. ASSUME NEW r \in Relays, RelayNext(r)
        PROVE  Counter(o)!Next \/ UNCHANGED Counter(o)!vars
    <3>1. CASE StartRunPanics(r)
      BY <3>1, PanicCounter
    <3>2. CASE ~StartRunPanics(r)
      <4>1. onion' = onion
        BY <2>2, <3>2 DEF RelayNext, HandleStartRun, StartRun, HeartbeatPosts,
                          HeartbeatEnds, Count
      <4> QED
        BY <4>1 DEF Fate, Counter!vars
    <3> QED
      BY <3>1, <3>2
  <2> QED
    BY <2>1, <2>2 DEF Next
<1> QED
  BY <1>1, <1>2, Invariance, PTL DEF Spec, ImplementsCounters

-----------------------------------------------------------------------------
(* The books of a relay                                                    *)

LEMMA ThroughFinite ==
  ASSUME NEW S \in SUBSET Onions, NEW r, NEW k
  PROVE  IsFiniteSet(Through(S, r, k)) /\ Cardinality(Through(S, r, k)) \in Nat
<1>1. Through(S, r, k) \subseteq Onions
  BY DEF Through
<1> QED
  BY <1>1, RelayAssumption, FS_Subset, FS_CardinalityType

LEMMA InitBooks == Init => BooksInv
<1> SUFFICES ASSUME Init, NEW r \in Relays, NEW k \in Layers
             PROVE  /\ Tally(r, k) /\ relay[r].wg = 1
                    /\ relay[r].ExpectedCheckpoints[k] = 0
  BY DEF BooksInv
<1>1. \A S \in SUBSET Onions : Through(S, r, k) = {}
  BY Parameters DEF Init, Through, Passed, NewOnion, Layers
<1>2. Listed \in SUBSET Onions /\ Checkpoints \in SUBSET Onions
  BY RelayAssumption
<1>3. /\ relay[r].wg = 1 /\ relay[r].ExpectedCheckpoints[k] = 0
      /\ relay[r].checkpointsReceived[k] = 0 /\ relay[r].counting[k] = 0
      /\ relay[r].CheckpointOnionsReceived[k] = 0
  BY DEF Init, NewRelay
<1>4. /\ Cardinality(Through(Listed, r, k)) = 0
      /\ Cardinality(Through(Checkpoints, r, k)) = 0
  BY <1>1, <1>2, FS_EmptySet
<1> QED
  BY <1>3, <1>4 DEF Tally

\* Peeling adds the onion to those through at its own relay and layer alone.
LEMMA ReceiveThrough ==
  ASSUME IInv, NEW o \in Onions, Receive(o),
         NEW S \in SUBSET Onions, NEW r \in Relays, NEW k \in Layers
  PROVE  Cardinality(Through(S, r, k)') =
           Cardinality(Through(S, r, k))
             + (IF o \in S /\ r = At(o) /\ k = onion[o].layer THEN 1 ELSE 0)
<1> DEFINE A == Through(S, r, k)
<1>1. /\ onion[o].layer \in Layers /\ onion[o].layer \in Nat /\ k \in Nat
      /\ onion'[o].layer = onion[o].layer + 1
      /\ path' = path
      /\ \A q \in Onions : q # o => onion'[q] = onion[q]
  BY JudgedBySignal, Parameters DEF Receive, IInv, TypeOK
<1>2. CASE o \in S /\ r = At(o) /\ k = onion[o].layer
  <2>1. o \notin A
    BY <1>1, <1>2 DEF Through, Passed
  <2>2. A' = A \union {o}
    BY <1>1, <1>2 DEF Through, Passed, At
  <2>3. IsFiniteSet(A) /\ Cardinality(A) \in Nat
    BY ThroughFinite
  <2>4. Cardinality(A \union {o}) = Cardinality(A) + 1
    <3> HIDE DEF A
    <3> QED
      BY <2>1, <2>3, FS_AddElement
  <2> QED
    BY <1>2, <2>2, <2>4
<1>3. CASE ~(o \in S /\ r = At(o) /\ k = onion[o].layer)
  <2>1. A' = A
    BY <1>1, <1>3 DEF Through, Passed, At
  <2> QED
    BY <1>3, <2>1, ThroughFinite
<1> QED
  BY <1>2, <1>3

\* The tally of a relay that is not peeling.
LEMMA TallyStays ==
  ASSUME IInv, BooksInv, NEW r \in Relays, NEW k \in Layers,
         path' = path, \A o \in Onions : onion'[o].layer = onion[o].layer,
         relay'[r].wg # -1 => relay[r].wg # -1,
         relay'[r].wg # -1 =>
           /\ relay'[r].checkpointsReceived[k] + relay'[r].counting[k]
                = relay[r].checkpointsReceived[k] + relay[r].counting[k]
           /\ relay'[r].CheckpointOnionsReceived[k] = relay[r].CheckpointOnionsReceived[k]
  PROVE  relay'[r].wg # -1 => Tally(r, k)'
<1>1. \A S \in SUBSET Onions : Through(S, r, k)' = Through(S, r, k)
  BY DEF Through, Passed
<1>2. Listed \in SUBSET Onions /\ Checkpoints \in SUBSET Onions
  BY RelayAssumption
<1> QED
  BY <1>1, <1>2 DEF Tally, BooksInv

\* What it takes a step that peels nothing to keep the books.
LEMMA QuietStep ==
  ASSUME IInv, BooksInv,
         path' = path, \A o \in Onions : onion'[o].layer = onion[o].layer,
         \A r \in Relays, k \in Layers : relay'[r].wg # -1 =>
           /\ relay'[r].wg = relay[r].wg
           /\ relay'[r].ExpectedCheckpoints = relay[r].ExpectedCheckpoints
           /\ relay'[r].checkpointsReceived[k] + relay'[r].counting[k]
                = relay[r].checkpointsReceived[k] + relay[r].counting[k]
           /\ relay'[r].CheckpointOnionsReceived = relay[r].CheckpointOnionsReceived
  PROVE  BooksInv'
<1> SUFFICES ASSUME NEW r \in Relays, NEW k \in Layers
             PROVE  /\ relay'[r].wg # -1 => Tally(r, k)'
                    /\ relay'[r].wg = 0 =>
                         relay'[r].ExpectedCheckpoints[k] = Cardinality(Here(Listed, r, k)')
                    /\ relay'[r].wg = 1 => relay'[r].ExpectedCheckpoints[k] = 0
  BY DEF BooksInv
<1>1. relay'[r].wg # -1 => Tally(r, k)'
  BY TallyStays
<1>2. Here(Listed, r, k)' = Here(Listed, r, k)
  BY DEF Here
<1> QED
  BY <1>1, <1>2 DEF BooksInv

LEMMA ReceiveBooks ==
  ASSUME IInv, BooksInv, NEW o \in Onions, Receive(o)
  PROVE  BooksInv'
<1>1. /\ onion[o].layer \in Layers /\ At(o) \in Relays
      /\ relay' = [relay EXCEPT ![At(o)] = Booked(o)]
      /\ path' = path /\ relay[At(o)].wg = 0
      /\ relay[At(o)] \in RelayProcess
  BY JudgedBySignal DEF Receive, IInv, TypeOK
<1>2. Verified(o) <=> o \in Listed
  BY <1>1 DEF Verified, IInv, NoncesRecorded, Nonces, At
<1> SUFFICES ASSUME NEW r \in Relays, NEW k \in Layers
             PROVE  /\ relay'[r].wg # -1 => Tally(r, k)'
                    /\ relay'[r].wg = 0 =>
                         relay'[r].ExpectedCheckpoints[k] = Cardinality(Here(Listed, r, k)')
                    /\ relay'[r].wg = 1 => relay'[r].ExpectedCheckpoints[k] = 0
  BY DEF BooksInv
<1> DEFINE here(S) == IF o \in S /\ r = At(o) /\ k = onion[o].layer THEN 1 ELSE 0
<1>3. Here(Listed, r, k)' = Here(Listed, r, k)
  BY <1>1 DEF Here
<1>4. /\ relay'[r].wg = relay[r].wg
      /\ relay'[r].ExpectedCheckpoints = relay[r].ExpectedCheckpoints
      /\ relay'[r].checkpointsReceived = relay[r].checkpointsReceived
      /\ relay'[r].counting[k] = relay[r].counting[k] + here(Listed)
      /\ relay'[r].CheckpointOnionsReceived[k]
           = relay[r].CheckpointOnionsReceived[k] + here(Checkpoints)
  <2>0. relay[r] \in RelayProcess /\ relay \in [Relays -> RelayProcess]
    BY DEF IInv, TypeOK
  <2>1. CASE r = At(o)
    <3> DEFINE n == relay[r]
               b == IF o \in Listed THEN n.counting[onion[o].layer] + 1
                    ELSE n.counting[onion[o].layer]
               c == IF o \in Checkpoints THEN n.CheckpointOnionsReceived[onion[o].layer] + 1
                    ELSE n.CheckpointOnionsReceived[onion[o].layer]
    <3>1. relay'[r] = Booked(o)
      BY <1>1, <2>1 DEF IInv, TypeOK
    <3>2. Booked(o) = [n EXCEPT !.counting = [@ EXCEPT ![onion[o].layer] = b],
                                !.CheckpointOnionsReceived = [@ EXCEPT ![onion[o].layer] = c]]
      BY <1>2, <2>0, <2>1, RelayAssumption DEF Booked, RelayProcess
    <3>3. /\ b = n.counting[onion[o].layer] + (IF o \in Listed THEN 1 ELSE 0)
          /\ c = n.CheckpointOnionsReceived[onion[o].layer] + (IF o \in Checkpoints THEN 1 ELSE 0)
          /\ n.counting \in [Layers -> Nat] /\ n.CheckpointOnionsReceived \in [Layers -> Nat]
      BY <1>1, <2>0 DEF RelayProcess
    <3> HIDE DEF b, c, n
    <3>4. /\ Booked(o).wg = n.wg
          /\ Booked(o).ExpectedCheckpoints = n.ExpectedCheckpoints
          /\ Booked(o).checkpointsReceived = n.checkpointsReceived
          /\ Booked(o).counting = [n.counting EXCEPT ![onion[o].layer] = b]
          /\ Booked(o).CheckpointOnionsReceived
               = [n.CheckpointOnionsReceived EXCEPT ![onion[o].layer] = c]
      BY <2>0, <3>2 DEF RelayProcess, n
    <3>5. /\ Booked(o).counting[k] = n.counting[k] + here(Listed)
          /\ Booked(o).CheckpointOnionsReceived[k] = n.CheckpointOnionsReceived[k] + here(Checkpoints)
      BY <1>1, <2>1, <3>3, <3>4
    <3> QED
      BY <3>1, <3>4, <3>5 DEF n
  <2>2. CASE r # At(o)
    <3>1. relay'[r] = relay[r]
      BY <1>1, <2>2, <2>0
    <3>2. relay[r].counting[k] \in Nat /\ relay[r].CheckpointOnionsReceived[k] \in Nat
      BY <2>0 DEF RelayProcess
    <3> QED
      BY <2>2, <3>1, <3>2
  <2> QED
    BY <2>1, <2>2
<1>5. /\ Cardinality(Through(Listed, r, k)') = Cardinality(Through(Listed, r, k)) + here(Listed)
      /\ Cardinality(Through(Checkpoints, r, k)')
           = Cardinality(Through(Checkpoints, r, k)) + here(Checkpoints)
  <2>1. Listed \in SUBSET Onions /\ Checkpoints \in SUBSET Onions
    BY RelayAssumption
  <2>2. \A S \in SUBSET Onions :
          Cardinality(Through(S, r, k)') = Cardinality(Through(S, r, k)) + here(S)
    BY ReceiveThrough
  <2> HIDE DEF here
  <2> QED
    BY <2>1, <2>2
<1>6. relay[r].counting[k] \in Nat /\ relay[r].checkpointsReceived[k] \in Nat
  BY DEF IInv, TypeOK, RelayProcess
<1>7. here(Listed) \in Nat
  OBVIOUS
<1>8. relay'[r].wg # -1 => Tally(r, k)'
  <2> HIDE DEF here
  <2> SUFFICES ASSUME relay'[r].wg # -1 PROVE Tally(r, k)'
    OBVIOUS
  <2>1. Tally(r, k)
    BY <1>4 DEF BooksInv
  <2> QED
    BY <1>4, <1>5, <1>6, <1>7, <2>1 DEF Tally
<1> QED
  BY <1>3, <1>4, <1>8 DEF BooksInv

LEMMA OnionBooks ==
  ASSUME IInv, BooksInv, NEW o \in Onions, OnionNext(o)
  PROVE  BooksInv'
<1>1. CASE Receive(o)
  BY <1>1, ReceiveBooks
<1>2. CASE ~Receive(o)
  <2>1. path' = path /\ relay' = relay
    BY <1>2 DEF OnionNext, ClientSends, HandleReceiveOnion, ReceiveFails, SendToNode, Lose
  <2>2. PICK p \in Places : onion' = [onion EXCEPT ![o].place = p]
    <3>1. CASE ClientSends(o) \/ HandleReceiveOnion(o)
      BY <3>1 DEF ClientSends, HandleReceiveOnion, Places
    <3>2. CASE ReceiveFails(o) \/ Lose(o)
      BY <3>2 DEF ReceiveFails, Lose, Places
    <3>3. CASE SendToNode(o)
      BY <3>3 DEF SendToNode, Places
    <3> QED
      BY <1>2, <3>1, <3>2, <3>3 DEF OnionNext
  <2>3. \A q \in Onions : onion'[q].layer = onion[q].layer
    BY <2>2 DEF IInv, TypeOK
  <2> QED
    BY <2>1, <2>3, QuietStep
<1> QED
  BY <1>1, <1>2

LEMMA StartRunBooks ==
  ASSUME IInv, BooksInv, NEW r \in Relays, StartRun(r)
  PROVE  BooksInv'
<1> DEFINE n == relay[r]
           started == [Recorded(r) EXCEPT !.wg = 0]
<1>1. /\ n \in RelayProcess /\ n.wg = 1
      /\ relay' = [relay EXCEPT ![r] = started]
      /\ path' = path /\ onion' = onion
  BY DEF StartRun, IInv, TypeOK
<1>2. /\ started.wg = 0
      /\ started.checkpointsReceived = n.checkpointsReceived
      /\ started.counting = n.counting
      /\ started.CheckpointOnionsReceived = n.CheckpointOnionsReceived
      /\ \A k \in Layers :
           started.ExpectedCheckpoints[k] = n.ExpectedCheckpoints[k] + Cardinality(Nonces(r, k))
  BY <1>1 DEF Recorded, RelayProcess
<1> HIDE DEF n, started
<1> SUFFICES ASSUME NEW q \in Relays, NEW k \in Layers
             PROVE  /\ relay'[q].wg # -1 => Tally(q, k)'
                    /\ relay'[q].wg = 0 =>
                         relay'[q].ExpectedCheckpoints[k] = Cardinality(Here(Listed, q, k)')
                    /\ relay'[q].wg = 1 => relay'[q].ExpectedCheckpoints[k] = 0
  BY DEF BooksInv
<1>3. Here(Listed, q, k)' = Here(Listed, q, k)
  BY <1>1 DEF Here
<1>4. CASE q = r
  <2>1. relay'[r] = started
    BY <1>1 DEF IInv, TypeOK
  <2>2. Tally(r, k)' /\ n.ExpectedCheckpoints[k] = 0
    BY <1>1, <1>2, <2>1, TallyStays DEF BooksInv, n
  <2>3. Nonces(r, k) = Here(Listed, r, k) /\ Cardinality(Nonces(r, k)) \in Nat
    BY NoncesFinite DEF Nonces, Here
  <2>4. started.ExpectedCheckpoints[k] = Cardinality(Here(Listed, r, k))
    BY <1>2, <2>2, <2>3
  <2> QED
    BY <1>2, <1>3, <1>4, <2>1, <2>2, <2>4
<1>5. CASE q # r
  <2>1. relay'[q] = relay[q]
    BY <1>1, <1>5 DEF IInv, TypeOK
  <2>2. relay'[q].wg # -1 => Tally(q, k)'
    BY <1>1, <2>1, TallyStays
  <2> QED
    BY <1>3, <2>1, <2>2 DEF BooksInv
<1> QED
  BY <1>4, <1>5

LEMMA RelayBooks ==
  ASSUME IInv, BooksInv, NEW r \in Relays, RelayNext(r)
  PROVE  BooksInv'
<1>0. relay \in [Relays -> RelayProcess] /\ relay[r] \in RelayProcess
  BY DEF IInv, TypeOK
<1>1. CASE StartRun(r)
  BY <1>1, StartRunBooks
<1>2. CASE StartRunPanics(r)
  <2>1. path' = path /\ \A o \in Onions : onion'[o].layer = onion[o].layer
    BY <1>2 DEF StartRunPanics, IInv, TypeOK
  <2>2. relay'[r].wg = -1 /\ \A q \in Relays : q # r => relay'[q] = relay[q]
    BY <1>0, <1>2 DEF StartRunPanics, NewRelay
  <2> QED
    BY <2>1, <2>2, QuietStep
<1>3. CASE HandleStartRun(r) \/ HeartbeatPosts(r) \/ HeartbeatEnds(r)
  <2>1. path' = path /\ onion' = onion
    BY <1>3 DEF HandleStartRun, HeartbeatPosts, HeartbeatEnds
  <2>2. \A q \in Relays :
          /\ relay'[q].wg = relay[q].wg
          /\ relay'[q].ExpectedCheckpoints = relay[q].ExpectedCheckpoints
          /\ relay'[q].checkpointsReceived = relay[q].checkpointsReceived
          /\ relay'[q].counting = relay[q].counting
          /\ relay'[q].CheckpointOnionsReceived = relay[q].CheckpointOnionsReceived
    <3>1. CASE HandleStartRun(r)
      BY <1>0, <3>1 DEF HandleStartRun, RelayProcess
    <3>2. CASE HeartbeatPosts(r)
      BY <1>0, <3>2 DEF HeartbeatPosts, RelayProcess
    <3>3. CASE HeartbeatEnds(r)
      BY <1>0, <3>3 DEF HeartbeatEnds, RelayProcess
    <3> QED
      BY <1>3, <3>1, <3>2, <3>3
  <2> QED
    BY <2>1, <2>2, QuietStep
<1>4. ASSUME NEW j \in Layers, Count(r, j) PROVE BooksInv'
  <2> DEFINE counting == [relay[r].counting EXCEPT ![j] = @ - 1]
             received == [relay[r].checkpointsReceived EXCEPT ![j] = @ + 1]
  <2>1. /\ path' = path /\ onion' = onion
        /\ relay[r].counting \in [Layers -> Nat] /\ relay[r].checkpointsReceived \in [Layers -> Nat]
    BY <1>0, <1>4 DEF Count, RelayProcess
  <2>2. \A k \in Layers :
          received[k] + counting[k] = relay[r].checkpointsReceived[k] + relay[r].counting[k]
    BY <2>1
  <2>3. relay' = [relay EXCEPT ![r] = [relay[r] EXCEPT !.counting = counting,
                                                       !.checkpointsReceived = received]]
    BY <1>4, Zenon DEF Count
  <2> HIDE DEF counting, received
  <2>4. /\ relay'[r].wg = relay[r].wg
        /\ relay'[r].ExpectedCheckpoints = relay[r].ExpectedCheckpoints
        /\ relay'[r].CheckpointOnionsReceived = relay[r].CheckpointOnionsReceived
        /\ relay'[r].checkpointsReceived = received
        /\ relay'[r].counting = counting
    BY <1>0, <2>3 DEF RelayProcess
  <2>5. \A q \in Relays : q # r => relay'[q] = relay[q]
    BY <1>0, <2>3
  <2> QED
    BY <2>1, <2>2, <2>4, <2>5, QuietStep
<1> QED
  BY <1>1, <1>2, <1>3, <1>4 DEF RelayNext

\* The relays' books balance, however starts, onions and the goroutines of
\* GetAndSet are interleaved: no checkpoint is counted twice or forgotten.
THEOREM Books == Spec => []BooksBalance
<1>1. Init => BooksInv
  BY InitBooks
<1>2. IInv /\ BooksInv /\ [Next]_vars => BooksInv'
  <2> SUFFICES ASSUME IInv, BooksInv, [Next]_vars PROVE BooksInv'
    OBVIOUS
  <2>1. ASSUME NEW r \in Relays, RelayNext(r) PROVE BooksInv'
    BY <2>1, RelayBooks
  <2>2. ASSUME NEW o \in Onions, OnionNext(o) PROVE BooksInv'
    BY <2>2, OnionBooks
  <2>3. CASE UNCHANGED vars
    BY <2>3, QuietStep DEF vars
  <2> QED
    BY <2>1, <2>2, <2>3 DEF Next
<1>3. BooksInv => BooksBalance
  BY DEF BooksInv, BooksBalance
<1> QED
  BY <1>1, <1>2, <1>3, Invariance, PTL DEF Spec

-----------------------------------------------------------------------------
(* Start signals and the handlers that wait for them                       *)

\* Every start signal is a goroutine that waits for the lock, or was the first,
\* which opened wg.Wait, or the second, which ended the process.
SignalsKept ==
  \A r \in Relays :
    /\ relay[r].wg = 1 => relay[r].starting = signals[r]
    /\ relay[r].wg = 0 => relay[r].starting + 1 = signals[r]
    /\ relay[r].wg = -1 => signals[r] > 1

\* Only a process that runs has handlers in wg.Wait.
WaitersAlive == \A o \in Onions : onion[o].place = "waiting" => Running(At(o))

\* The safety half of OnionsSettle, for any number of signals: a handler is in
\* wg.Wait only as long as no start signal has come or startRun is about to take
\* the lock.  And a relay that was told once does not end for it.
WaitsForAReason ==
  /\ \A o \in Onions : onion[o].place = "waiting" /\ relay[At(o)].wg # 0 =>
       relay[At(o)].wg = 1 /\ (signals[At(o)] = 0 \/ relay[At(o)].starting > 0)
  /\ \A r \in Relays : signals[r] <= 1 => Running(r)

\* The steps of an onion touch no start signal, and only a handler of a running
\* process begins to wait.
LEMMA OnionWaits ==
  ASSUME IInv, SignalsKept, WaitersAlive, NEW o \in Onions, OnionNext(o)
  PROVE  SignalsKept' /\ WaitersAlive'
<1>1. /\ signals' = signals /\ path' = path
      /\ \A r \in Relays : relay'[r].wg = relay[r].wg /\ relay'[r].starting = relay[r].starting
  <2>1. ASSUME Receive(o)
        PROVE  \A r \in Relays : /\ relay'[r].wg = relay[r].wg
                                 /\ relay'[r].starting = relay[r].starting
    <3>1. At(o) \in Relays /\ relay' = [relay EXCEPT ![At(o)] = Booked(o)]
      BY <2>1, JudgedBySignal DEF Receive
    <3>2. relay \in [Relays -> RelayProcess] /\ relay[At(o)] \in RelayProcess
      BY <3>1 DEF IInv, TypeOK
    <3>3. Booked(o).wg = relay[At(o)].wg /\ Booked(o).starting = relay[At(o)].starting
      BY <3>2 DEF Booked, RelayProcess
    <3> QED
      BY <3>1, <3>2, <3>3
  <2> QED
    BY <2>1 DEF OnionNext, ClientSends, HandleReceiveOnion, Receive, ReceiveFails, SendToNode, Lose
<1>2. \A q \in Onions : onion'[q].place = "waiting" =>
        /\ onion'[q].layer = onion[q].layer
        /\ onion[q].place = "waiting" \/ Running(At(q))
  <2>1. onion \in [Onions -> [layer : 1 .. Last + 1, bruises : Nat, place : Places]]
    BY DEF IInv, TypeOK
  <2>2. CASE Receive(o)
    BY <2>1, <2>2 DEF Receive
  <2>3. CASE HandleReceiveOnion(o)
    BY <2>1, <2>3 DEF HandleReceiveOnion
  <2>4. CASE ClientSends(o) \/ ReceiveFails(o) \/ SendToNode(o) \/ Lose(o)
    BY <2>1, <2>4 DEF ClientSends, ReceiveFails, SendToNode, Lose
  <2> QED
    BY <2>2, <2>3, <2>4 DEF OnionNext
<1>3. \A q \in Onions : onion'[q].place = "waiting" => At(q) \in Relays
  <2> SUFFICES ASSUME NEW q \in Onions, onion'[q].place = "waiting" PROVE At(q) \in Relays
    OBVIOUS
  <2>1. IInv'
    BY NextInv DEF Next
  <2>2. onion'[q].layer \in Layers
    BY <2>1 DEF IInv, LayersInRange
  <2> QED
    BY <1>2, <2>2 DEF At, IInv, TypeOK
<1>4. SignalsKept'
  BY <1>1 DEF SignalsKept
<1>5. WaitersAlive'
  BY <1>1, <1>2, <1>3 DEF WaitersAlive, Running, At
<1> QED
  BY <1>4, <1>5

\* A start signal is one more goroutine, and each goroutine that gets the lock
\* opens wg.Wait or takes the process down with its handlers.
LEMMA RelayWaits ==
  ASSUME IInv, SignalsKept, WaitersAlive, NEW r \in Relays, RelayNext(r)
  PROVE  SignalsKept' /\ WaitersAlive'
<1>0. /\ relay \in [Relays -> RelayProcess] /\ relay[r] \in RelayProcess
      /\ signals \in [Relays -> Nat] /\ path' = path
      /\ onion \in [Onions -> [layer : 1 .. Last + 1, bruises : Nat, place : Places]]
  BY DEF IInv, TypeOK, RelayNext, HandleStartRun, StartRun, StartRunPanics, HeartbeatPosts,
         HeartbeatEnds, Count
<1>1. \A q \in Relays : q # r => relay'[q] = relay[q] /\ signals'[q] = signals[q]
  BY <1>0 DEF RelayNext, HandleStartRun, StartRun, StartRunPanics, HeartbeatPosts,
              HeartbeatEnds, Count
<1>2. ASSUME relay'[r].wg = 1 => relay'[r].starting = signals'[r],
             relay'[r].wg = 0 => relay'[r].starting + 1 = signals'[r],
             relay'[r].wg = -1 => signals'[r] > 1
      PROVE  SignalsKept'
  BY <1>1, <1>2 DEF SignalsKept
<1>3. ASSUME onion' = onion, relay'[r].wg >= 0 \/ relay'[r].wg = relay[r].wg
      PROVE  WaitersAlive'
  <2> SUFFICES ASSUME NEW o \in Onions, onion[o].place = "waiting" PROVE relay'[At(o)].wg >= 0
    BY <1>0, <1>3 DEF WaitersAlive, Running, At
  <2>1. At(o) \in Relays /\ relay[At(o)].wg >= 0
    BY DEF WaitersAlive, Running, IInv, TypeOK, LayersInRange, At
  <2> QED
    BY <1>1, <1>3, <2>1
<1>4. ASSUME UNCHANGED <<onion, signals>>,
             relay'[r].wg = relay[r].wg, relay'[r].starting = relay[r].starting
      PROVE  SignalsKept' /\ WaitersAlive'
  <2>1. SignalsKept'
    BY <1>2, <1>4 DEF SignalsKept
  <2> QED
    BY <1>3, <1>4, <2>1
<1>5. relay[r].wg \in {-1, 0, 1} /\ relay[r].starting \in Nat /\ signals[r] \in Nat
  BY <1>0 DEF RelayProcess
<1>6. CASE HandleStartRun(r)
  <2>1. /\ onion' = onion /\ relay[r].wg >= 0
        /\ relay'[r].wg = relay[r].wg /\ relay'[r].starting = relay[r].starting + 1
        /\ signals'[r] = signals[r] + 1
    BY <1>0, <1>6 DEF HandleStartRun, RelayProcess, Running
  <2>2. /\ relay[r].wg = 1 => relay[r].starting = signals[r]
        /\ relay[r].wg = 0 => relay[r].starting + 1 = signals[r]
    BY DEF SignalsKept
  <2>3. SignalsKept'
    BY <1>2, <1>5, <2>1, <2>2
  <2> QED
    BY <1>3, <2>1, <2>3
<1>7. CASE StartRun(r)
  <2>1. [Recorded(r) EXCEPT !.wg = 0].wg = 0
        /\ [Recorded(r) EXCEPT !.wg = 0].starting = relay[r].starting - 1
    BY <1>0 DEF Recorded, RelayProcess
  <2>2. /\ relay'[r] = [Recorded(r) EXCEPT !.wg = 0] /\ onion' = onion /\ signals' = signals
        /\ relay[r].wg = 1
    BY <1>0, <1>7 DEF StartRun
  <2>3. relay[r].starting = signals[r]
    BY <2>2 DEF SignalsKept
  <2>4. SignalsKept'
    BY <1>2, <1>5, <2>1, <2>2, <2>3
  <2> QED
    BY <1>3, <2>1, <2>2, <2>4
<1>8. CASE StartRunPanics(r)
  <2>1. [NewRelay EXCEPT !.wg = -1].wg = -1
    BY DEF NewRelay
  <2>2. /\ relay'[r] = [NewRelay EXCEPT !.wg = -1] /\ signals' = signals
        /\ relay[r].wg = 0 /\ relay[r].starting > 0
    BY <1>0, <1>8 DEF StartRunPanics
  <2>3. signals[r] > 1
    BY <1>5, <2>2 DEF SignalsKept
  <2>4. \A o \in Onions : onion'[o].place = "waiting" =>
          onion'[o].layer = onion[o].layer /\ onion[o].place = "waiting" /\ At(o) # r
    BY <1>0, <1>8 DEF StartRunPanics, Inside
  <2>5. SignalsKept'
    BY <1>2, <2>1, <2>2, <2>3
  <2>6. \A o \in Onions : onion[o].place = "waiting" => At(o) \in Relays
    BY DEF IInv, TypeOK, LayersInRange, At
  <2>7. WaitersAlive'
    BY <1>0, <1>1, <2>4, <2>6 DEF WaitersAlive, Running, At
  <2> QED
    BY <2>5, <2>7
<1>9. CASE HeartbeatPosts(r) \/ HeartbeatEnds(r)
  <2>1. PICK b \in BOOLEAN : relay' = [relay EXCEPT ![r].posting = b]
    BY <1>9 DEF HeartbeatPosts, HeartbeatEnds
  <2>2. UNCHANGED <<onion, signals>>
    BY <1>9 DEF HeartbeatPosts, HeartbeatEnds
  <2>3. relay'[r].wg = relay[r].wg /\ relay'[r].starting = relay[r].starting
    BY <1>0, <2>1 DEF RelayProcess
  <2> QED
    BY <1>4, <2>2, <2>3
<1>10. ASSUME NEW k \in Layers, Count(r, k) PROVE SignalsKept' /\ WaitersAlive'
  <2>1. /\ relay'[r].wg = relay[r].wg /\ relay'[r].starting = relay[r].starting
        /\ UNCHANGED <<onion, signals>>
    BY <1>0, <1>10 DEF Count, RelayProcess
  <2> QED
    BY <1>4, <2>1
<1> QED
  BY <1>6, <1>7, <1>8, <1>9, <1>10 DEF RelayNext

\* No start signal is lost on the way to wg.Done, however often heartbeats take the
\* lock in between, and no handler waits for one that has had its effect.
THEOREM NoStartIsLost == Spec => []WaitsForAReason
<1>1. Init => SignalsKept /\ WaitersAlive
  BY DEF Init, SignalsKept, WaitersAlive, NewRelay, NewOnion
<1>2. IInv /\ SignalsKept /\ WaitersAlive /\ [Next]_vars => (SignalsKept /\ WaitersAlive)'
  <2> SUFFICES ASSUME IInv, SignalsKept, WaitersAlive, [Next]_vars
               PROVE  SignalsKept' /\ WaitersAlive'
    OBVIOUS
  <2>1. CASE UNCHANGED vars
    BY <2>1 DEF vars, SignalsKept, WaitersAlive, Running, At
  <2> QED
    BY <2>1, OnionWaits, RelayWaits DEF Next
<1>3. IInv /\ SignalsKept /\ WaitersAlive => WaitsForAReason
  <2> SUFFICES ASSUME IInv, SignalsKept, WaitersAlive PROVE WaitsForAReason
    OBVIOUS
  <2>1. \A r \in Relays : /\ relay[r].wg \in {-1, 0, 1} /\ relay[r].starting \in Nat
                          /\ signals[r] \in Nat
    BY DEF IInv, TypeOK, RelayProcess
  <2>2. ASSUME NEW o \in Onions, onion[o].place = "waiting", relay[At(o)].wg # 0
        PROVE  relay[At(o)].wg = 1 /\ (signals[At(o)] = 0 \/ relay[At(o)].starting > 0)
    <3>1. At(o) \in Relays /\ relay[At(o)].wg >= 0
      BY <2>2 DEF WaitersAlive, Running, IInv, TypeOK, LayersInRange, At
    <3> QED
      BY <2>1, <2>2, <3>1 DEF SignalsKept
  <2>3. \A r \in Relays : signals[r] <= 1 => Running(r)
    BY <2>1 DEF SignalsKept, Running
  <2> QED
    BY <2>2, <2>3 DEF WaitsForAReason
<1> QED
  BY <1>1, <1>2, <1>3, Invariance, PTL DEF Spec
=============================================================================
