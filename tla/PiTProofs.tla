------------------------------- MODULE PiTProofs -------------------------------
(***************************************************************************)
(* Proofs about module PiT, for any start signals, relays, paths and       *)
(* moments at which nodes are told to start.                               *)
(*                                                                         *)
(* A run of PiT is a run of Client and one of Relay (Composition), so what *)
(* ClientProofs and RelayProofs show of these holds here: their theorems   *)
(* are cited through the instances CP and RP.  What is left to prove is    *)
(* what only the two sides together ensure.                                *)
(***************************************************************************)
EXTENDS PiT, FiniteSetTheorems, TLAPS

CONSTANT Load  \* the load of a relay in a round, of the board's configuration

\* What the bulletin board decides and tells, according to module RunStart.
B == INSTANCE StartSignals WITH Clients <- Nat \ {0}, PathLength <- R!Last

AllRelays == Relays \union {NoRelay}

CP == INSTANCE ClientProofs WITH onion <- sent, signals <- clientSignals

RP == INSTANCE RelayProofs WITH Relays <- AllRelays, Listed <- Checkpoints,
                                MaxStarts <- 1, signals <- relaySignals

-----------------------------------------------------------------------------
(* The assumptions of the two modules                                      *)

LEMMA RunsAssumed == CP!RunsAssumption
BY PiTAssumption DEF CP!RunsAssumption, CP!Run, C!Run, CP!IsFiniteSet, IsFiniteSet

LEMMA OnionsFinite == IsFiniteSet(Onions)
<1> DEFINE Of(s) == s.Clients \X (0 .. s.checkpoints)
           f == [s \in Runs |-> Of(s)]
<1>1. ASSUME NEW s \in Runs PROVE IsFiniteSet(Of(s))
  <2>1. IsFiniteSet(s.Clients) /\ s.checkpoints \in Int /\ 0 \in Int
    BY PiTAssumption DEF C!Run
  <2>2. IsFiniteSet(0 .. s.checkpoints)
    BY <2>1, FS_Interval
  <2> QED
    BY <2>1, <2>2, FS_Product
<1>2. IsFiniteSet({Of(s) : s \in Runs})
  <2>1. f \in Surjection(Runs, {Of(s) : s \in Runs})
    BY DEF Surjection
  <2> QED
    BY <2>1, PiTAssumption, FS_Surjection
<1> HIDE DEF Of
<1>3. IsFiniteSet(UNION {Of(s) : s \in Runs})
  BY <1>1, <1>2, FS_UNION
<1> QED
  BY <1>3 DEF Onions, Of

LEMMA RelaysAssumed == RP!RelayAssumption
BY OnionsFinite, PiTAssumption DEF RP!RelayAssumption, RP!IsFiniteSet, IsFiniteSet, Checkpoints

\* The onions of this run are among those of all runs.
LEMMA OnionsOfTheRun ==
  ASSUME start \in Runs
  PROVE  /\ C!Onions \subseteq Onions
         /\ \A o \in C!Onions : o[1] \in start.Clients
         /\ \A c \in start.Clients : \A o \in C!Own(c) : o \in C!Onions /\ o[1] = c
         /\ start.Clients \subseteq Nat \ {0}
<1>1. C!Onions \subseteq Onions
  BY DEF C!Onions, C!Numbers, Onions
<1>2. start \in C!Run
  BY PiTAssumption
<1> QED
  BY <1>1, <1>2 DEF C!Onions, C!Own, C!Run

LEMMA LayersOfPaths ==
  /\ R!Last \in Nat /\ 1 \in R!Layers /\ R!Layers = 1 .. R!Last
  /\ R!Layers \subseteq 1 .. R!Last + 1
BY PiTAssumption DEF R!Last, R!Layers

-----------------------------------------------------------------------------
(* Each side is as its module says                                         *)

\* A step of PiT, by what it is to the two sides.
LEMMA SidesOfStep ==
  ASSUME [Next]_vars
  PROVE  /\ \/ \E c \in start.Clients : C!ClientNext(c)
            \/ \E o \in C!Onions : C!OnionNext(o)
            \/ UNCHANGED clients
         /\ \/ \E r \in Relays : R!RelayNext(r)
            \/ \E o \in C!Onions : R!OnionNext(o)
            \/ UNCHANGED relays
<1>1. ASSUME NEW r \in Relays, RelayNext(r) PROVE R!RelayNext(r) /\ UNCHANGED clients
  BY <1>1 DEF RelayNext, RelayHandlesStart, RelayStarts, Count, R!RelayNext
<1>2. ASSUME NEW c \in start.Clients, ClientNext(c) PROVE C!ClientNext(c) /\ UNCHANGED relays
  BY <1>2 DEF ClientNext, ClientHandlesStart, ClientStarts, ClientEnds, C!ClientNext
<1>3. ASSUME NEW o \in C!Onions, OnionNext(o)
      PROVE  /\ C!OnionNext(o) \/ UNCHANGED clients
             /\ R!OnionNext(o) \/ UNCHANGED relays
  BY <1>3 DEF OnionNext, Posts, FirstMixerAccepts, Accepts, Passes, Delivers, Returns, Fails,
              C!OnionNext, R!OnionNext
<1>4. CASE UNCHANGED vars
  BY <1>4 DEF vars, clients, relays
<1> QED
  BY <1>1, <1>2, <1>3, <1>4 DEF Next

\* Nothing changes which run it is.
LEMMA OneRun == Spec => [](start \in Runs)
<1>1. Init => start \in Runs
  BY DEF Init, C!Init
<1>2. [Next]_vars => UNCHANGED start
  <2> SUFFICES ASSUME [Next]_vars PROVE UNCHANGED start
    OBVIOUS
  <2>1. UNCHANGED clients => UNCHANGED start
    BY DEF clients
  <2>2. ASSUME NEW c, C!ClientNext(c) PROVE UNCHANGED start
    BY <2>2 DEF C!ClientNext, C!HandleStartRun, C!StartRunRefused, C!StartRun, C!StartRunPanics,
                C!StartRunEnds
  <2>3. ASSUME NEW o, C!OnionNext(o) PROVE UNCHANGED start
    BY <2>3 DEF C!OnionNext, C!Accept, C!SendOnion, C!Receive, C!Lose
  <2> QED
    BY <2>1, <2>2, <2>3, SidesOfStep
<1>3. start \in Runs /\ [Next]_vars => (start \in Runs)'
  BY <1>2
<1> QED
  BY <1>1, <1>2, <1>3, PTL DEF Spec

\* A run seen by its clients is one of module Client, and seen by its relays one of
\* module Relay: what ClientProofs and RelayProofs show of all of these is true of
\* the two together.
THEOREM Composition == Spec => C!Spec /\ R!Spec
<1>1. Init => C!Init /\ R!Init
  BY DEF Init
<1>2. start \in Runs /\ [Next]_vars => [C!Next]_C!vars /\ [R!Next]_R!vars
  <2> SUFFICES ASSUME start \in Runs, [Next]_vars PROVE [C!Next]_C!vars /\ [R!Next]_R!vars
    OBVIOUS
  <2>1. (UNCHANGED clients <=> UNCHANGED C!vars) /\ (UNCHANGED relays <=> UNCHANGED R!vars)
    BY DEF C!vars, R!vars, clients, relays
  <2>2. Relays \subseteq Relays \union {NoRelay} /\ C!Onions \subseteq Onions
    BY OnionsOfTheRun
  <2> QED
    BY <2>1, <2>2, SidesOfStep DEF C!Next, R!Next
<1> QED
  BY OneRun, <1>1, <1>2, PTL DEF Spec, C!Spec, R!Spec

LEMMA ClientsAsProved == Spec => CP!Spec
<1>1. C!Init => CP!Init
  BY DEF C!Init, C!Lists, C!Onions, C!Numbers, C!NewClient, C!Unformed, C!Cardinality,
         CP!Init, CP!Lists, CP!Onions, CP!Numbers, CP!NewClient, CP!Unformed, CP!Cardinality
<1>2. [C!Next]_C!vars => [CP!Next]_CP!vars
  BY DEF C!Next, C!vars, C!ClientNext, C!OnionNext, C!HandleStartRun, C!StartRunRefused,
         C!StartRun, C!StartRunPanics, C!StartRunEnds, C!Accept, C!SendOnion, C!Receive, C!Lose,
         C!Locks, C!Running, C!Repeats, C!HasRecipient, C!getRecipient, C!Onions, C!Numbers,
         C!NewClient, C!Own, C!Cardinality,
         CP!Next, CP!vars, CP!ClientNext, CP!OnionNext, CP!HandleStartRun, CP!StartRunRefused,
         CP!StartRun, CP!StartRunPanics, CP!StartRunEnds, CP!Accept, CP!SendOnion, CP!Receive,
         CP!Lose, CP!Locks, CP!Running, CP!Repeats, CP!HasRecipient, CP!getRecipient, CP!Onions,
         CP!Numbers, CP!NewClient, CP!Own, CP!Cardinality
<1> QED
  BY Composition, <1>1, <1>2, PTL DEF C!Spec, CP!Spec

LEMMA RelaysAsProved == Spec => RP!Spec
<1>1. R!Init => RP!Init
  BY DEF R!Init, R!Layers, R!Last, R!NewOnion, R!NewRelay, AllRelays,
         RP!Init, RP!Layers, RP!Last, RP!NewOnion, RP!NewRelay
<1>2. [R!Next]_R!vars => [RP!Next]_RP!vars
  BY DEF R!Next, R!vars, R!RelayNext, R!OnionNext, R!HandleStartRun, R!StartRun,
         R!StartRunPanics, R!HeartbeatPosts, R!HeartbeatEnds, R!Count, R!ClientSends,
         R!HandleReceiveOnion, R!Receive, R!ReceiveFails, R!SendToNode, R!Lose, R!Running,
         R!Recorded, R!Nonces, R!Inside, R!At, R!Holder, R!Verified, R!Bruised, R!Booked,
         R!PeelSucceeds, R!Layers, R!Last, R!Mixers, R!NewRelay, R!Cardinality, AllRelays,
         RP!Next, RP!vars, RP!RelayNext, RP!OnionNext, RP!HandleStartRun, RP!StartRun,
         RP!StartRunPanics, RP!HeartbeatPosts, RP!HeartbeatEnds, RP!Count, RP!ClientSends,
         RP!HandleReceiveOnion, RP!Receive, RP!ReceiveFails, RP!SendToNode, RP!Lose, RP!Running,
         RP!Recorded, RP!Nonces, RP!Inside, RP!At, RP!Holder, RP!Verified, RP!Bruised, RP!Booked,
         RP!PeelSucceeds, RP!Layers, RP!Last, RP!Mixers, RP!NewRelay, RP!Cardinality
<1> QED
  BY Composition, <1>1, <1>2, PTL DEF R!Spec, RP!Spec

LEMMA ClientsInv == Spec => []C!IInv
<1>1. CP!Spec => []CP!IInv
  BY CP!Invariance, RunsAssumed
<1>2. CP!IInv => C!IInv
  BY DEF C!IInv, C!TypeOK, C!StartedFormed, C!ReceivedArrived, C!SignalsCounted, C!Lists,
         C!Onions, C!ClientProcess, C!Places, C!Numbers, C!HasRecipient, C!Cardinality,
         CP!IInv, CP!TypeOK, CP!StartedFormed, CP!ReceivedArrived, CP!SignalsCounted, CP!Lists,
         CP!Onions, CP!ClientProcess, CP!Places, CP!Numbers, CP!HasRecipient, CP!Cardinality
<1> QED
  BY ClientsAsProved, <1>1, <1>2, PTL

LEMMA RelaysInv == Spec => []R!IInv
<1>1. RP!Spec => []RP!IInv
  BY RP!Invariance, RelaysAssumed
<1>2. RP!IInv => R!IInv
  BY DEF R!IInv, R!TypeOK, R!LayersInRange, R!NoncesRecorded, R!BruisesDeserved, R!RelayProcess,
         R!Places, R!Layers, R!Last, R!Nonces, R!MixersPassed, R!Passed, R!Mixers, AllRelays,
         RP!IInv, RP!TypeOK, RP!LayersInRange, RP!NoncesRecorded, RP!BruisesDeserved,
         RP!RelayProcess, RP!Places, RP!Layers, RP!Last, RP!Nonces, RP!MixersPassed, RP!Passed,
         RP!Mixers
<1> QED
  BY RelaysAsProved, <1>1, <1>2, PTL

LEMMA BooksKept == Spec => []R!BooksBalance
<1>1. RP!Spec => []RP!BooksBalance
  BY RP!Books, RelaysAssumed
<1>2. RP!BooksBalance => R!BooksBalance
  BY DEF R!BooksBalance, R!Tally, R!Through, R!Here, R!Passed, R!Layers, R!Last, R!Cardinality,
         RP!BooksBalance, RP!Tally, RP!Through, RP!Here, RP!Passed, RP!Layers, RP!Last,
         RP!Cardinality, AllRelays
<1> QED
  BY RelaysAsProved, <1>1, <1>2, PTL

LEMMA MessagesShared == Spec => []C!WrittenToOnce
<1>1. CP!Spec => []CP!WrittenToOnce
  BY CP!WrittenOnce, RunsAssumed
<1>2. CP!WrittenToOnce => C!WrittenToOnce
  BY DEF C!WrittenToOnce, C!Cardinality, CP!WrittenToOnce, CP!Cardinality
<1> QED
  BY ClientsAsProved, <1>1, <1>2, PTL

-----------------------------------------------------------------------------
(* What a step leaves alone                                                *)

\* What the proofs use of the types.
LEMMA Types ==
  ASSUME C!IInv, R!IInv
  PROVE  /\ start \in Runs /\ C!Onions \subseteq Onions
         /\ client \in [start.Clients -> C!ClientProcess]
         /\ sent \in [C!Onions -> [to : start.Clients \union {0}, place : C!Places, posting : BOOLEAN]]
         /\ clientSignals \in [start.Clients -> Nat]
         /\ path \in [Onions -> [R!Layers -> AllRelays]]
         /\ onion \in [Onions -> [layer : 1 .. R!Last + 1, bruises : Nat, place : R!Places]]
         /\ relay \in [AllRelays -> R!RelayProcess]
         /\ relaySignals \in [AllRelays -> Nat]
         /\ Relays \subseteq AllRelays
BY OnionsOfTheRun DEF C!IInv, C!TypeOK, R!IInv, R!TypeOK, AllRelays

\* Handling an onion starts nobody, and takes nothing from a client again.
LEMMA OnionKeeps ==
  ASSUME C!IInv, R!IInv, NEW o \in C!Onions, OnionNext(o)
  PROVE  /\ UNCHANGED <<start, recipients, clientSignals, path, relaySignals>>
         /\ \A r \in Relays : /\ relay'[r].wg = relay[r].wg
                              /\ relay'[r].starting = relay[r].starting
         /\ \A c \in start.Clients : /\ client'[c].wg = client[c].wg
                                     /\ client'[c].starting = client[c].starting
                                     /\ client[c].MessagesReceived \subseteq client'[c].MessagesReceived
         /\ \A p \in C!Onions \ {o} : sent'[p] = sent[p] /\ onion'[p] = onion[p]
<1>1. /\ C!Accept(o) \/ C!SendOnion(o) \/ C!Receive(o) \/ C!Lose(o) \/ UNCHANGED clients
      /\ \/ R!ClientSends(o) \/ R!HandleReceiveOnion(o) \/ R!Receive(o) \/ R!ReceiveFails(o)
         \/ R!SendToNode(o) \/ R!Lose(o) \/ UNCHANGED relays
  BY DEF OnionNext, Posts, FirstMixerAccepts, Accepts, Passes, Delivers, Returns, Fails
<1>2. /\ UNCHANGED <<start, recipients, clientSignals>>
      /\ \A p \in C!Onions \ {o} : sent'[p] = sent[p]
  BY <1>1, Types DEF C!Accept, C!SendOnion, C!Receive, C!Lose, clients
<1>3. /\ UNCHANGED <<path, relaySignals>>
      /\ \A p \in C!Onions \ {o} : onion'[p] = onion[p]
  BY <1>1, Types DEF R!ClientSends, R!HandleReceiveOnion, R!Receive, R!ReceiveFails, R!SendToNode,
                     R!Lose, relays
<1>4. ASSUME NEW r \in Relays
      PROVE  relay'[r].wg = relay[r].wg /\ relay'[r].starting = relay[r].starting
  <2>1. CASE R!Receive(o)
    <3>1. relay' = [relay EXCEPT ![R!At(o)] = R!Booked(o)]
      BY <2>1 DEF R!Receive
    <3>2. CASE r # R!At(o)
      BY <3>1, <3>2, Types
    <3>3. CASE r = R!At(o)
      <4>1. relay'[r] = R!Booked(o) /\ relay[r] \in R!RelayProcess
        BY <3>1, <3>3, Types
      <4> QED
        BY <3>3, <4>1 DEF R!Booked, R!RelayProcess
    <3> QED
      BY <3>2, <3>3
  <2>2. CASE ~R!Receive(o)
    <3>1. UNCHANGED relay
      BY <1>1, <2>2 DEF R!ClientSends, R!HandleReceiveOnion, R!ReceiveFails, R!SendToNode, R!Lose,
                        relays
    <3> QED
      BY <3>1
  <2> QED
    BY <2>1, <2>2
<1>5. ASSUME NEW c \in start.Clients
      PROVE  /\ client'[c].wg = client[c].wg /\ client'[c].starting = client[c].starting
             /\ client[c].MessagesReceived \subseteq client'[c].MessagesReceived
  <2>1. CASE C!Receive(o)
    BY <2>1, Types DEF C!Receive, C!ClientProcess
  <2>2. CASE ~C!Receive(o)
    <3>1. UNCHANGED client
      BY <1>1, <2>2 DEF C!Accept, C!SendOnion, C!Lose, clients
    <3> QED
      BY <3>1
  <2> QED
    BY <2>1, <2>2
<1> QED
  BY <1>2, <1>3, <1>4, <1>5

\* A start moves no onion among the relays, and no process loses its start.
LEMMA StartKeeps ==
  ASSUME C!IInv, R!IInv, StartsCounted,
         \/ \E r \in Relays : RelayNext(r)
         \/ \E c \in start.Clients : ClientNext(c)
         \/ UNCHANGED vars
  PROVE  /\ UNCHANGED <<start, path, onion>>
         /\ \A r \in Relays : relay[r].wg = 0 => relay'[r].wg = 0
         /\ \A c \in start.Clients : client'[c].MessagesReceived = client[c].MessagesReceived
<1>1. ASSUME NEW r \in Relays, RelayNext(r)
      PROVE  /\ UNCHANGED clients /\ UNCHANGED <<path, onion>>
             /\ \A q \in Relays : relay[q].wg = 0 => relay'[q].wg = 0
  <2>1. CASE RelayHandlesStart(r)
    BY <2>1, Types DEF RelayHandlesStart, R!HandleStartRun, R!RelayProcess
  <2>2. CASE RelayStarts(r)
    <3>1. /\ relay' = [relay EXCEPT ![r] = [R!Recorded(r) EXCEPT !.wg = 0]]
          /\ UNCHANGED clients /\ UNCHANGED <<path, onion>>
      BY <2>2 DEF RelayStarts, R!StartRun
    <3>2. [R!Recorded(r) EXCEPT !.wg = 0].wg = 0
      BY Types DEF R!Recorded, R!RelayProcess
    <3> QED
      BY <3>1, <3>2, Types
  <2>3. ASSUME NEW k \in R!Layers, Count(r, k)
        PROVE  /\ UNCHANGED clients /\ UNCHANGED <<path, onion>>
               /\ \A q \in Relays : relay[q].wg = 0 => relay'[q].wg = 0
    BY <2>3, Types DEF Count, R!Count, R!RelayProcess
  <2> QED
    BY <1>1, <2>1, <2>2, <2>3 DEF RelayNext
<1>2. ASSUME NEW c \in start.Clients, ClientNext(c)
      PROVE  /\ UNCHANGED relays /\ UNCHANGED start
             /\ \A d \in start.Clients : client'[d].MessagesReceived = client[d].MessagesReceived
  <2>1. CASE ClientHandlesStart(c)
    BY <2>1, Types DEF ClientHandlesStart, C!HandleStartRun, C!ClientProcess
  <2>2. CASE ClientStarts(c)
    BY <2>2, Types DEF ClientStarts, C!StartRun, C!ClientProcess
  <2>3. CASE ClientEnds(c)
    BY <2>3, Types DEF ClientEnds, C!StartRunEnds, C!ClientProcess
  <2> QED
    BY <1>2, <2>1, <2>2, <2>3 DEF ClientNext
<1> QED
  BY <1>1, <1>2 DEF clients, relays, vars

-----------------------------------------------------------------------------
(* The inductive invariant, conjunct by conjunct                           *)

LEMMA InitInv == Init /\ C!IInv /\ R!IInv => IInv
<1> SUFFICES ASSUME Init, C!IInv, R!IInv
             PROVE  SidesAgree /\ PathsChosen /\ StartsCounted /\ WayStarted /\ WayCompleted
  BY DEF IInv
<1>1. /\ \A o \in C!Onions : sent[o] = C!Unformed
      /\ \A o \in Onions : onion[o] = R!NewOnion
      /\ \A r \in Relays : relay[r] = R!NewRelay /\ relaySignals[r] = 0
      /\ \A c \in start.Clients : client[c] = C!NewClient /\ clientSignals[c] = 0
      /\ path \in [Onions -> [R!Layers -> AllRelays]]
      /\ C!Onions \subseteq Onions
  BY Types DEF Init, C!Init, R!Init, AllRelays
<1>2. SidesAgree /\ WayCompleted
  BY <1>1 DEF SidesAgree, WayCompleted, C!Unformed, R!NewOnion
<1>3. StartsCounted
  BY <1>1 DEF StartsCounted, R!NewRelay, C!NewClient
<1>4. WayStarted
  <2>1. ASSUME NEW k \in R!Layers, k < 1 PROVE FALSE
    BY <2>1, LayersOfPaths
  <2> QED
    BY <1>1, <2>1 DEF WayStarted, R!NewOnion
<1> QED
  BY <1>1, <1>2, <1>3, <1>4 DEF Init, PathsChosen

LEMMA PathsChosenInv ==
  ASSUME C!IInv, R!IInv, StartsCounted, PathsChosen, [Next]_vars
  PROVE  PathsChosen'
<1>1. UNCHANGED <<start, path>>
  <2>1. ASSUME NEW o \in C!Onions, OnionNext(o) PROVE UNCHANGED <<start, path>>
    BY <2>1, OnionKeeps
  <2> QED
    BY <2>1, StartKeeps DEF Next
<1> QED
  BY <1>1 DEF PathsChosen, C!Onions, C!Numbers, R!Layers, R!Last

LEMMA StartsCountedInv ==
  ASSUME C!IInv, R!IInv, StartsCounted, [Next]_vars
  PROVE  StartsCounted'
<1>1. ASSUME NEW r \in Relays, RelayNext(r) PROVE StartsCounted'
  <2>1. UNCHANGED clients
    BY <1>1 DEF RelayNext, RelayHandlesStart, RelayStarts, Count
  <2>2. /\ relay[r] \in R!RelayProcess /\ r \in AllRelays
        /\ relay[r].wg \in {0, 1} /\ relaySignals[r] \in {0, 1}
        /\ relaySignals[r] = relay[r].starting + 1 - relay[r].wg
    BY Types DEF StartsCounted
  <2>3. /\ \A q \in Relays \ {r} : relay'[q] = relay[q] /\ relaySignals'[q] = relaySignals[q]
        /\ relay'[r].wg \in {0, 1} /\ relaySignals'[r] \in {0, 1}
        /\ relaySignals'[r] = relay'[r].starting + 1 - relay'[r].wg
    <3>1. CASE RelayHandlesStart(r)
      <4>1. /\ relaySignals[r] = 0
            /\ relaySignals' = [relaySignals EXCEPT ![r] = @ + 1]
            /\ relay' = [relay EXCEPT ![r].starting = @ + 1]
        BY <2>2, <3>1 DEF RelayHandlesStart, R!HandleStartRun
      <4>2. relaySignals'[r] = 1 /\ relay'[r].wg = relay[r].wg /\ relay'[r].starting = relay[r].starting + 1
        BY <2>2, <4>1, Types DEF R!RelayProcess
      <4>3. \A q \in Relays \ {r} : relay'[q] = relay[q] /\ relaySignals'[q] = relaySignals[q]
        BY <4>1, Types
      <4> QED
        BY <2>2, <4>1, <4>2, <4>3 DEF R!RelayProcess
    <3>2. CASE RelayStarts(r)
      <4>1. /\ relay[r].wg = 1 /\ UNCHANGED relaySignals
            /\ relay' = [relay EXCEPT ![r] = [R!Recorded(r) EXCEPT !.wg = 0]]
        BY <3>2 DEF RelayStarts, R!StartRun
      <4>2. relay'[r] = [R!Recorded(r) EXCEPT !.wg = 0]
        BY <2>2, <4>1, Types
      <4>3. relay'[r].wg = 0 /\ relay'[r].starting = relay[r].starting - 1
        BY <2>2, <4>2 DEF R!Recorded, R!RelayProcess
      <4>4. \A q \in Relays \ {r} : relay'[q] = relay[q]
        BY <4>1, Types
      <4> QED
        BY <2>2, <4>1, <4>3, <4>4 DEF R!RelayProcess
    <3>3. ASSUME NEW k \in R!Layers, Count(r, k)
          PROVE  /\ UNCHANGED relaySignals
                 /\ \A q \in Relays : relay'[q].wg = relay[q].wg /\ relay'[q].starting = relay[q].starting
                 /\ \A q \in Relays \ {r} : relay'[q] = relay[q]
      BY <3>3, Types DEF Count, R!Count, R!RelayProcess
    <3> QED
      BY <1>1, <2>2, <3>1, <3>2, <3>3 DEF RelayNext
  <2> QED
    BY <2>1, <2>3 DEF StartsCounted, clients
<1>2. ASSUME NEW c \in start.Clients, ClientNext(c) PROVE StartsCounted'
  <2>1. UNCHANGED relays /\ UNCHANGED start
    BY <1>2 DEF ClientNext, ClientHandlesStart, ClientStarts, ClientEnds, C!HandleStartRun,
                C!StartRun, C!StartRunEnds
  <2>2. /\ client[c] \in C!ClientProcess
        /\ client[c].wg \in {0, 1} /\ clientSignals[c] \in {0, 1}
        /\ clientSignals[c] = client[c].starting + 1 - client[c].wg
    BY Types DEF StartsCounted
  <2>3. /\ \A d \in start.Clients \ {c} : client'[d] = client[d] /\ clientSignals'[d] = clientSignals[d]
        /\ client'[c].wg \in {0, 1} /\ clientSignals'[c] \in {0, 1}
        /\ clientSignals'[c] = client'[c].starting + 1 - client'[c].wg
    <3>1. CASE ClientHandlesStart(c)
      <4>1. start.maxRepeats = 0
        BY Types, PiTAssumption
      <4>2. /\ clientSignals[c] = 0
            /\ clientSignals' = [clientSignals EXCEPT ![c] = @ + 1]
            /\ client' = [client EXCEPT ![c].starting = @ + 1]
        BY <2>2, <3>1, <4>1 DEF ClientHandlesStart, C!HandleStartRun
      <4>3. clientSignals'[c] = 1 /\ client'[c].wg = client[c].wg /\ client'[c].starting = client[c].starting + 1
        BY <2>2, <4>2, Types DEF C!ClientProcess
      <4>4. \A d \in start.Clients \ {c} : client'[d] = client[d] /\ clientSignals'[d] = clientSignals[d]
        BY <4>2, Types
      <4> QED
        BY <2>2, <4>2, <4>3, <4>4 DEF C!ClientProcess
    <3>2. CASE ClientStarts(c)
      <4>1. /\ client[c].wg = 1 /\ UNCHANGED clientSignals
            /\ client' = [client EXCEPT ![c].wg = 0, ![c].starting = @ - 1, ![c].sending = TRUE,
                                        ![c].MessagesSent = @ \union C!Own(c)]
        BY <3>2 DEF ClientStarts, C!StartRun
      <4>2. client'[c].wg = 0 /\ client'[c].starting = client[c].starting - 1
        BY <2>2, <4>1, Types DEF C!ClientProcess
      <4>3. \A d \in start.Clients \ {c} : client'[d] = client[d] /\ clientSignals'[d] = clientSignals[d]
        BY <4>1, Types
      <4>4. clientSignals'[c] = client[c].starting /\ client[c].starting \in Nat
        BY <2>2, <4>1 DEF C!ClientProcess
      <4>5. clientSignals'[c] \in {0, 1}
        BY <2>2, <4>1
      <4> QED
        BY <4>2, <4>3, <4>4, <4>5
    <3>3. CASE ClientEnds(c)
      <4>1. /\ UNCHANGED clientSignals
            /\ client' = [client EXCEPT ![c].sending = FALSE]
        BY <3>3 DEF ClientEnds, C!StartRunEnds
      <4> QED
        BY <2>2, <4>1, Types DEF C!ClientProcess
    <3> QED
      BY <1>2, <3>1, <3>2, <3>3 DEF ClientNext
  <2> QED
    BY <2>1, <2>3 DEF StartsCounted, relays
<1>3. ASSUME NEW o \in C!Onions, OnionNext(o) PROVE StartsCounted'
  BY <1>3, OnionKeeps DEF StartsCounted
<1>4. CASE UNCHANGED vars
  BY <1>4 DEF vars, StartsCounted
<1> QED
  BY <1>1, <1>2, <1>3, <1>4 DEF Next

LEMMA WayStartedInv ==
  ASSUME C!IInv, R!IInv, PathsChosen, StartsCounted, WayStarted, [Next]_vars
  PROVE  WayStarted'
<1>0. R!Layers' = R!Layers /\ R!Last' = R!Last
  BY DEF R!Layers, R!Last
<1>1. CASE \/ \E r \in Relays : RelayNext(r)
           \/ \E c \in start.Clients : ClientNext(c)
           \/ UNCHANGED vars
  <2>1. \A o \in C!Onions, k \in R!Layers : path[o][k] \in Relays
    BY Types DEF PathsChosen
  <2> QED
    BY <1>0, <1>1, <2>1, StartKeeps DEF WayStarted, C!Onions, C!Numbers
<1>2. ASSUME NEW o \in C!Onions, OnionNext(o) PROVE WayStarted'
  <2>1. SUFFICES ASSUME NEW p \in C!Onions, NEW k \in R!Layers, k < onion'[p].layer
                 PROVE  relay'[path'[p][k]].wg = 0
    BY <1>0, <1>2, OnionKeeps DEF WayStarted, C!Onions, C!Numbers
  <2>2. path'[p][k] = path[p][k] /\ path[p][k] \in Relays
    BY <1>2, OnionKeeps, Types DEF PathsChosen
  <2>3. CASE k < onion[p].layer
    BY <1>2, <2>2, <2>3, OnionKeeps DEF WayStarted
  <2>4. CASE ~(k < onion[p].layer)
    <3>1. p = o
      BY <1>2, <2>1, <2>4, OnionKeeps
    <3>2. R!Receive(o)
      <4>1. UNCHANGED onion \/ \E q : onion' = [onion EXCEPT ![o].place = q] \/ R!Receive(o)
        BY <1>2 DEF OnionNext, Posts, FirstMixerAccepts, Accepts, Passes, Delivers, Returns, Fails,
                    R!ClientSends, R!HandleReceiveOnion, R!ReceiveFails, R!SendToNode, R!Lose, relays
      <4>2. ASSUME NEW q, onion' = [onion EXCEPT ![o].place = q] PROVE FALSE
        BY <2>1, <2>4, <3>1, <4>2, Types
      <4> QED
        BY <2>1, <2>4, <3>1, <4>1, <4>2
    <3>3. onion[o].layer \in Int /\ onion'[o].layer = onion[o].layer + 1 /\ relay[path[o][onion[o].layer]].wg = 0
      BY <3>2, Types, LayersOfPaths DEF R!Receive, R!At
    <3>4. k = onion[o].layer
      BY <2>1, <2>4, <3>1, <3>3, LayersOfPaths
    <3> QED
      BY <1>2, <2>2, <3>1, <3>3, <3>4, OnionKeeps
  <2> QED
    BY <2>3, <2>4
<1> QED
  BY <1>1, <1>2 DEF Next

LEMMA WayCompletedInv ==
  ASSUME C!IInv, R!IInv, StartsCounted, SidesAgree, WayCompleted, [Next]_vars
  PROVE  WayCompleted'
<1>0. R!Last' = R!Last
  BY DEF R!Last
<1>1. CASE \/ \E r \in Relays : RelayNext(r)
           \/ \E c \in start.Clients : ClientNext(c)
           \/ UNCHANGED vars
  <2>1. UNCHANGED <<start, onion>> /\ C!Onions' = C!Onions
    BY <1>1, StartKeeps DEF C!Onions, C!Numbers
  <2>2. ASSUME NEW o \in C!Onions, sent'[o].place = "arrived"
        PROVE  sent[o].place = "arrived" /\ sent'[o].to = sent[o].to
    <3>1. ASSUME NEW c \in start.Clients, ClientNext(c), sent' # sent
          PROVE  o \in C!Own(c) => sent'[o].place = "client"
      BY <3>1 DEF ClientNext, ClientHandlesStart, ClientStarts, ClientEnds, C!HandleStartRun,
                  C!StartRun, C!StartRunEnds
    <3>2. ASSUME NEW c \in start.Clients, ClientNext(c), o \notin C!Own(c)
          PROVE  sent'[o] = sent[o]
      BY <3>2, Types DEF ClientNext, ClientHandlesStart, ClientStarts, ClientEnds,
                         C!HandleStartRun, C!StartRun, C!StartRunEnds
    <3>3. ASSUME NEW r \in Relays, RelayNext(r) PROVE UNCHANGED sent
      BY <3>3 DEF RelayNext, RelayHandlesStart, RelayStarts, Count, clients
    <3> QED
      BY <1>1, <2>2, <3>1, <3>2, <3>3 DEF vars
  <2>3. \A o \in C!Onions : sent[o].place = "arrived" => sent[o].to \in start.Clients
    BY DEF C!IInv, C!StartedFormed
  <2> QED
    BY <1>0, <1>1, <2>1, <2>2, <2>3, StartKeeps DEF WayCompleted
<1>2. ASSUME NEW o \in C!Onions, OnionNext(o) PROVE WayCompleted'
  <2> DEFINE Completed(p) ==
        /\ onion[p].place = "arrived" => onion[p].layer = R!Last + 1
        /\ sent[p].place = "arrived" => p \in client[sent[p].to].MessagesReceived
        /\ onion[p].place = "discarded" => D = 0
  <2>0. C!Onions' = C!Onions
    BY <1>2, OnionKeeps DEF C!Onions, C!Numbers
  <2>1. ASSUME NEW p \in C!Onions \ {o} PROVE Completed(p)'
    <3>1. Completed(p)
      BY DEF WayCompleted
    <3>2. sent[p].place = "arrived" => sent[p].to \in start.Clients
      BY DEF C!IInv, C!StartedFormed
    <3> QED
      BY <1>0, <1>2, <3>1, <3>2, OnionKeeps
  <2>2. onion'[o].place = "arrived" => onion'[o].layer = R!Last + 1
    <3>1. CASE R!SendToNode(o)
      <4>1. /\ onion[o].layer \in 1 .. R!Last + 1
            /\ onion' = [onion EXCEPT ![o].place = IF onion[o].layer \in R!Layers THEN "net" ELSE "arrived"]
        BY <3>1, Types DEF R!SendToNode
      <4>2. onion'[o].layer = onion[o].layer
        BY <4>1, Types
      <4>3. onion'[o].place = "arrived" => onion[o].layer \notin R!Layers
        BY <4>1, Types
      <4> QED
        BY <4>1, <4>2, <4>3, LayersOfPaths
    <3>2. CASE ~R!SendToNode(o)
      <4>1. onion'[o].place # "arrived" \/ onion'[o] = onion[o]
        BY <1>2, <3>2, Types
        DEF OnionNext, Posts, FirstMixerAccepts, Accepts, Passes, Delivers, Returns, Fails, relays,
            R!ClientSends, R!HandleReceiveOnion, R!Receive, R!ReceiveFails, R!Lose
      <4> QED
        BY <4>1 DEF WayCompleted
    <3> QED
      BY <3>1, <3>2
  <2>3. sent'[o].place = "arrived" => o \in client'[sent'[o].to].MessagesReceived
    <3>1. CASE C!Receive(o)
      <4>1. /\ sent[o].place # "none"
            /\ sent' = [sent EXCEPT ![o].place = "arrived"]
            /\ client' = [client EXCEPT ![sent[o].to].MessagesReceived = @ \union {o}]
        BY <3>1 DEF C!Receive
      <4>2. sent[o].to \in start.Clients /\ sent'[o].to = sent[o].to
        BY <4>1, Types DEF C!IInv, C!StartedFormed
      <4> QED
        BY <4>1, <4>2, Types DEF C!ClientProcess
    <3>2. CASE ~C!Receive(o)
      <4>1. /\ UNCHANGED client
            /\ sent'[o].place = "arrived" => sent[o].place = "arrived" /\ sent'[o].to = sent[o].to
        BY <1>2, <3>2, Types
        DEF OnionNext, Posts, FirstMixerAccepts, Accepts, Passes, Delivers, Returns, Fails, clients,
            C!Accept, C!SendOnion, C!Lose
      <4> QED
        BY <4>1 DEF WayCompleted
    <3> QED
      BY <3>1, <3>2
  <2>4. onion'[o].place = "discarded" => D = 0
    <3>1. CASE R!ReceiveFails(o)
      <4>1. onion[o].bruises = 0
        BY Types DEF R!IInv, R!BruisesDeserved
      <4> QED
        BY <3>1, <4>1, PiTAssumption DEF R!ReceiveFails, R!PeelSucceeds
    <3>2. CASE ~R!ReceiveFails(o)
      <4>1. onion'[o].place # "discarded" \/ onion'[o] = onion[o]
        BY <1>2, <3>2, Types
        DEF OnionNext, Posts, FirstMixerAccepts, Accepts, Passes, Delivers, Returns, Fails, relays,
            R!ClientSends, R!HandleReceiveOnion, R!Receive, R!SendToNode, R!Lose
      <4> QED
        BY <4>1 DEF WayCompleted
    <3> QED
      BY <3>1, <3>2
  <2> QED
    BY <1>0, <2>0, <2>1, <2>2, <2>3, <2>4 DEF WayCompleted
<1> QED
  BY <1>1, <1>2 DEF Next

\* An onion passes from one side to the other.
LEMMA SidesAgreeInv ==
  ASSUME C!IInv, R!IInv, StartsCounted, SidesAgree, [Next]_vars
  PROVE  SidesAgree'
<1>1. ASSUME NEW r \in Relays, RelayNext(r) PROVE SidesAgree'
  BY <1>1 DEF RelayNext, RelayHandlesStart, RelayStarts, Count, R!HandleStartRun, R!StartRun,
              R!Count, clients, SidesAgree, C!Onions, C!Numbers
<1>2. ASSUME NEW c \in start.Clients, ClientNext(c) PROVE SidesAgree'
  <2>1. UNCHANGED <<start, onion>> /\ C!Onions' = C!Onions
    BY <1>2, StartKeeps DEF C!Onions, C!Numbers
  <2>2. CASE ~ClientStarts(c)
    BY <1>2, <2>1, <2>2 DEF ClientNext, ClientHandlesStart, ClientEnds, C!HandleStartRun,
                            C!StartRunEnds, SidesAgree
  <2>3. CASE ClientStarts(c)
    <3>1. /\ client[c].wg = 1
          /\ \A o \in C!Onions : o \in C!Own(c) \/ sent'[o] = sent[o]
      BY <2>3, Types DEF ClientStarts, C!StartRun
    <3>2. \A o \in C!Own(c) : o \in C!Onions /\ o[1] = c /\ sent'[o].place = "client"
      BY <2>3, Types, OnionsOfTheRun DEF ClientStarts, C!StartRun
    <3>3. \A o \in C!Own(c) : sent[o].place = "none"
      BY <3>1, <3>2 DEF C!IInv, C!StartedFormed
    <3>4. \A o \in C!Own(c) : onion[o].place = "sender" /\ onion[o].layer = 1
      BY <3>2, <3>3 DEF SidesAgree
    <3> QED
      BY <2>1, <3>1, <3>2, <3>4 DEF SidesAgree
  <2> QED
    BY <2>2, <2>3
<1>3. ASSUME NEW o \in C!Onions, OnionNext(o) PROVE SidesAgree'
  <2> DEFINE Agrees(p) ==
        /\ sent[p].place = "none" => onion[p].place = "sender"
        /\ sent[p].place = "client" => onion[p].place \in {"sender", "net"}
        /\ sent[p].place \in {"none", "client"} => onion[p].layer = 1
        /\ sent[p].place = "relays" => onion[p].place \notin {"sender", "lost"}
        /\ sent[p].place = "relays" /\ onion[p].place = "net" => onion[p].layer > 1
        /\ sent[p].place = "arrived" => onion[p].place = "arrived"
        /\ onion[p].place = "lost" => sent[p].place = "lost"
  <2>t. /\ onion[o] \in [layer : 1 .. R!Last + 1, bruises : Nat, place : R!Places]
        /\ DOMAIN onion = Onions /\ o \in Onions
        /\ sent[o] \in [to : start.Clients \union {0}, place : C!Places, posting : BOOLEAN]
        /\ DOMAIN sent = C!Onions
    BY Types
  <2>0. Agrees(o) /\ C!Onions' = C!Onions
    BY <1>3, OnionKeeps DEF SidesAgree, C!Onions, C!Numbers
  <2>1. Agrees(o)'
    <3>1. CASE Posts(o)
      BY <2>t, <2>0, <3>1 DEF Posts, R!ClientSends, clients
    <3>2. CASE FirstMixerAccepts(o)
      BY <2>t, <2>0, <3>2 DEF FirstMixerAccepts, R!HandleReceiveOnion, C!Accept
    <3>3. CASE Accepts(o)
      BY <2>t, <2>0, <3>3 DEF Accepts, R!HandleReceiveOnion, clients
    <3>4. CASE Passes(o)
      <4>1. CASE R!Receive(o)
        BY <2>t, <2>0, <3>4, <4>1 DEF Passes, R!Receive, clients
      <4>2. CASE R!ReceiveFails(o)
        BY <2>t, <2>0, <3>4, <4>2 DEF Passes, R!ReceiveFails, clients
      <4>3. CASE R!SendToNode(o)
        <5>1. onion[o].layer > 1
          BY <2>t, <4>3 DEF R!SendToNode, R!IInv, R!LayersInRange
        <5> QED
          BY <2>t, <2>0, <3>4, <4>3, <5>1 DEF Passes, R!SendToNode, clients
      <4> QED
        BY <3>4, <4>1, <4>2, <4>3 DEF Passes
    <3>5. CASE Delivers(o)
      BY <2>t, <2>0, <3>5 DEF Delivers, C!Receive, relays
    <3>6. CASE Returns(o)
      <4>1. sent'[o].place = IF sent[o].place = "client" THEN "lost" ELSE sent[o].place
        BY <2>t, <3>6 DEF Returns, C!SendOnion
      <4>2. CASE onion[o].place = "net" /\ onion[o].layer = 1
        <5>1. onion'[o].place = "lost"
          BY <2>t, <3>6, <4>2 DEF Returns, R!Lose
        <5>2. sent[o].place \in {"client", "lost"}
          BY <2>t, <2>0, <4>2 DEF C!Places
        <5> QED
          BY <4>1, <5>1, <5>2
      <4>3. CASE UNCHANGED onion
        BY <2>0, <4>1, <4>3
      <4> QED
        BY <3>6, <4>2, <4>3 DEF Returns, relays
    <3>7. CASE Fails(o)
      BY <2>t, <2>0, <3>7 DEF Fails, R!Lose, C!Lose, relays
    <3> QED
      BY <1>3, <3>1, <3>2, <3>3, <3>4, <3>5, <3>6, <3>7 DEF OnionNext
  <2> QED
    BY <1>3, <2>0, <2>1, OnionKeeps DEF SidesAgree
<1>4. CASE UNCHANGED vars
  BY <1>4 DEF vars, SidesAgree, C!Onions, C!Numbers
<1> QED
  BY <1>1, <1>2, <1>3, <1>4 DEF Next

-----------------------------------------------------------------------------
(* Theorems                                                                *)

\* The invariant of the composed run: both modules', and what joins them.
THEOREM Invariance == Spec => []IInv
<1>1. Init /\ C!IInv /\ R!IInv => IInv
  BY InitInv
<1>2. IInv /\ C!IInv' /\ R!IInv' /\ [Next]_vars => IInv'
  BY PathsChosenInv, StartsCountedInv, WayStartedInv, WayCompletedInv, SidesAgreeInv DEF IInv
<1> QED
  BY ClientsInv, RelaysInv, <1>1, <1>2, PTL DEF Spec

\* What sender, relays and recipient know of an onion always fits together,
\* whoever is told to start first.
THEOREM OneOnion == Spec => []SidesAgree
<1>1. IInv => SidesAgree
  BY DEF IInv
<1> QED
  BY Invariance, <1>1, PTL

\* Nothing is received before every relay on its way has started and known all
\* nonces it was told: no relay can have bruised it for being early.
THEOREM InOrder == Spec => []NothingOvertakesStart
<1>1. IInv => NothingOvertakesStart
  <2> SUFFICES ASSUME IInv, NEW c \in start.Clients, NEW o \in client[c].MessagesReceived,
                      NEW k \in R!Layers
               PROVE  /\ relay[path[o][k]].wg = 0
                      /\ o \in Checkpoints => o \in relay[path[o][k]].expectedNonces[k]
    BY DEF NothingOvertakesStart
  <2>1. o \in C!Onions /\ o \in Onions /\ sent[o].place = "arrived"
    BY Types DEF IInv, C!IInv, C!ReceivedArrived, C!ClientProcess
  <2>2. onion[o].layer = R!Last + 1
    BY <2>1 DEF IInv, SidesAgree, WayCompleted
  <2>3. relay[path[o][k]].wg = 0 /\ path[o][k] \in AllRelays
    <3>1. k < onion[o].layer
      BY <2>2, LayersOfPaths
    <3>2. path \in [Onions -> [R!Layers -> AllRelays]]
      BY Types DEF IInv
    <3> QED
      BY <2>1, <3>1, <3>2 DEF IInv, WayStarted
  <2>4. o \in Checkpoints => o \in R!Nonces(path[o][k], k)
    BY DEF R!Nonces
  <2> QED
    BY <2>3, <2>4 DEF IInv, R!IInv, R!NoncesRecorded, AllRelays
<1> QED
  BY Invariance, <1>1, PTL

\* When no process has anything left to do, each onion is with its recipient or its
\* request failed: the safety half of EverybodyServed, for runs of any size.
LEMMA OnionsAtRest ==
  ASSUME IInv, D > 0, AllStarted, AtRest, NEW o \in C!Onions
  PROVE  \/ sent[o].place = "lost"
         \/ /\ sent[o].place = "arrived" /\ o \in client[sent[o].to].MessagesReceived
            /\ onion[o].layer = R!Last + 1
<1>0. C!IInv /\ R!IInv /\ SidesAgree /\ PathsChosen /\ StartsCounted /\ WayCompleted
  BY DEF IInv
<1>1. sent[o].place \in C!Places /\ onion[o].place \in R!Places /\ o[1] \in start.Clients
  BY <1>0, Types, OnionsOfTheRun
<1>2. sent[o].place # "none"
  <2>1. client[o[1]].wg = 0
    <3>1. client[o[1]].wg \in {0, 1} /\ 1 = 0 + 1 - client[o[1]].wg
      BY <1>0, <1>1 DEF StartsCounted, AllStarted, AtRest
    <3> QED
      BY <3>1
  <2> QED
    BY <1>0, <2>1 DEF C!IInv, C!StartedFormed
<1>3. sent[o].place # "client"
  BY <1>0 DEF C!IInv, C!StartedFormed, AtRest
<1>4. sent[o].place # "relays"
  <2>1. SUFFICES ASSUME sent[o].place = "relays" PROVE FALSE
    OBVIOUS
  <2>2. onion[o].place = "waiting"
    BY <1>0, <1>1, <2>1 DEF SidesAgree, WayCompleted, AtRest, R!Places
  <2>3. R!At(o) \in Relays
    BY <1>0, <2>2, Types DEF R!IInv, R!LayersInRange, PathsChosen, R!At
  <2>4. relay[R!At(o)].wg \in {0, 1} /\ 1 = 0 + 1 - relay[R!At(o)].wg
    BY <1>0, <2>3 DEF StartsCounted, AllStarted, AtRest
  <2> QED
    BY <2>2, <2>4 DEF AtRest
<1> QED
  BY <1>0, <1>1, <1>2, <1>3, <1>4 DEF C!Places, SidesAgree, WayCompleted

LEMMA CountedAtRest ==
  ASSUME IInv, R!BooksBalance, AllStarted, AtRest, D > 0, NothingFails
  PROVE  Counted
<1> SUFFICES ASSUME NEW r \in Relays, NEW k \in R!Layers
             PROVE  relay[r].checkpointsReceived[k]
                      = Cardinality({o \in Checkpoints \cap C!Onions : path[o][k] = r})
  BY DEF Counted
<1>0. C!IInv /\ R!IInv /\ PathsChosen /\ StartsCounted
  BY DEF IInv
<1>1. relay[r].wg = 0
  <2>1. relay[r].wg \in {0, 1} /\ 1 = 0 + 1 - relay[r].wg
    BY <1>0 DEF StartsCounted, AllStarted, AtRest
  <2> QED
    BY <2>1
<1>2. relay[r].checkpointsReceived[k] + relay[r].counting[k] = R!Cardinality(R!Through(Checkpoints, r, k))
  BY <1>0, <1>1, Types DEF R!BooksBalance, R!Tally, AllRelays
<1>3. relay[r].counting[k] = 0 /\ relay[r].checkpointsReceived[k] \in Nat
  BY <1>0, Types DEF AtRest, R!RelayProcess
<1>4. R!Through(Checkpoints, r, k) = {o \in Checkpoints \cap C!Onions : path[o][k] = r}
  <2>1. ASSUME NEW o \in C!Onions PROVE R!Passed(o) >= k
    <3>1. onion[o].layer = R!Last + 1
      BY OnionsAtRest DEF NothingFails
    <3> QED
      BY <3>1, LayersOfPaths DEF R!Passed
  <2>2. ASSUME NEW o \in Checkpoints, path[o][k] = r PROVE o \in C!Onions
    BY <1>0, <2>2, PiTAssumption DEF PathsChosen, Checkpoints
  <2> QED
    BY <2>1, <2>2 DEF R!Through
<1> QED
  BY <1>2, <1>3, <1>4 DEF R!Cardinality, Cardinality

THEOREM PurposeAtRest == Spec => []ServedAtRest
<1>1. IInv /\ R!BooksBalance /\ C!WrittenToOnce => ServedAtRest
  <2> SUFFICES ASSUME IInv, R!BooksBalance, C!WrittenToOnce, D > 0, AllStarted, AtRest
               PROVE  /\ \A o \in C!Onions :
                           sent[o].place = "lost" \/ o \in client[sent[o].to].MessagesReceived
                      /\ NothingFails => Served /\ Counted
    BY DEF ServedAtRest
  <2>1. \A o \in C!Onions : sent[o].place = "lost" \/ o \in client[sent[o].to].MessagesReceived
    BY OnionsAtRest
  <2>2. ASSUME NothingFails, NEW d \in start.Clients
        PROVE  \E o \in client[d].MessagesReceived : o[2] = 0
    <3>1. \A c \in start.Clients : client[c].wg = 0
      <4>1. ASSUME NEW c \in start.Clients
            PROVE  client[c].wg \in {0, 1} /\ 1 = 0 + 1 - client[c].wg
        BY DEF IInv, StartsCounted, AllStarted, AtRest
      <4> QED
        BY <4>1
    <3>2. PICK c \in start.Clients : sent[<<c, 0>>].to = d
      BY <3>1 DEF C!WrittenToOnce
    <3>3. <<c, 0>> \in C!Onions
      <4>1. start.checkpoints \in Nat
        BY Types, PiTAssumption DEF IInv, C!Run
      <4> QED
        BY <4>1 DEF C!Onions, C!Numbers
    <3> QED
      BY <2>1, <2>2, <3>2, <3>3 DEF NothingFails
  <2> QED
    BY <2>1, <2>2, CountedAtRest DEF NothingFails, Served
<1> QED
  BY Invariance, BooksKept, MessagesShared, <1>1, PTL

\* To its users a run is a mail service, and each of its onions a counter of bruises:
\* what the clients and what the relays implement, they implement together.
THEOREM RunAsPromised == Spec => CP!ImplementsMail /\ RP!ImplementsCounters
<1>1. CP!Spec => CP!ImplementsMail
  BY CP!Refinement, RunsAssumed
<1>2. RP!Spec => RP!ImplementsCounters
  BY RP!Refinement, RelaysAssumed
<1> QED
  BY ClientsAsProved, RelaysAsProved, <1>1, <1>2

\* The steps of modules Client and Relay that PiT leaves out are never due: no relay
\* or client panics, and no client refuses its start.
NobodyFails ==
  /\ start.hasRelays
  /\ \A r \in Relays : ~(relay[r].starting > 0 /\ relay[r].wg = 0)
  /\ \A c \in start.Clients : ~(C!Locks(c) /\ (client[c].wg = 0 \/ ~C!HasRecipient(c)))

THEOREM NothingLeftOut == Spec => []NobodyFails
<1>1. IInv => NobodyFails
  <2> SUFFICES ASSUME IInv PROVE NobodyFails
    OBVIOUS
  <2>1. /\ start \in Runs /\ start.hasRelays
        /\ start.Clients = 1 .. Cardinality(start.Clients)
        /\ Cardinality(start.Clients) \in Nat
        /\ C!Cardinality(start.Clients) = Cardinality(start.Clients)
    BY Types, PiTAssumption, FS_CardinalityType DEF IInv, C!Cardinality, Cardinality
  <2>2. ASSUME NEW c \in start.Clients PROVE C!HasRecipient(c)
    <3>1. recipients \in [start.Clients -> start.Clients]
      BY <2>1 DEF IInv, C!IInv, C!TypeOK, C!Lists
    <3>2. c <= Cardinality(start.Clients)
      BY <2>1
    <3> QED
      BY <2>1, <3>1, <3>2 DEF C!HasRecipient
  <2>3. ASSUME NEW r \in Relays, relay[r].starting > 0, relay[r].wg = 0 PROVE FALSE
    <3>1. relaySignals[r] \in {0, 1} /\ relaySignals[r] = relay[r].starting + 1 - 0
      BY <2>3 DEF IInv, StartsCounted
    <3>2. relay[r].starting \in Nat
      BY Types DEF IInv, R!RelayProcess
    <3> QED
      BY <2>3, <3>1, <3>2
  <2>4. ASSUME NEW c \in start.Clients, client[c].starting > 0, client[c].wg = 0 PROVE FALSE
    <3>1. clientSignals[c] \in {0, 1} /\ clientSignals[c] = client[c].starting + 1 - 0
      BY <2>4 DEF IInv, StartsCounted
    <3>2. client[c].starting \in Nat
      BY Types DEF IInv, C!ClientProcess
    <3> QED
      BY <2>4, <3>1, <3>2
  <2> QED
    BY <2>1, <2>2, <2>3, <2>4 DEF NobodyFails, C!Locks
<1> QED
  BY Invariance, <1>1, PTL

-----------------------------------------------------------------------------
(* The bulletin board starts such runs                                     *)

\* The run s of the board as Client and PiT speak of it.
RunOf(s) ==
  [Clients |-> s.clients, hasRelays |-> s.relays # {}, checkpoints |-> s.number, maxRepeats |-> 0]

\* What module Client takes for granted of start signals is what the board promises
\* of them, whatever it decides: there are no checkpoint onions without relays, since
\* no path could be made for them.
THEOREM BoardStartsRuns ==
  ASSUME NEW s, B!IsRun(s), s.clients # {}
  PROVE  /\ RunOf(s) \in C!Run
         /\ ~RunOf(s).hasRelays => RunOf(s).checkpoints = 0
<1>1. /\ s.relays \subseteq Relays /\ s.clients \subseteq Nat \ {0} /\ s.number \in Nat
      /\ s.checkpoints \in [s.clients -> [1 .. s.number -> [1 .. R!Last -> s.relays]]]
  BY DEF B!IsRun
<1>2. RunOf(s) \in C!Run
  <2>1. (s.relays # {}) \in BOOLEAN
    OBVIOUS
  <2> DEFINE hasRelays == s.relays # {}
  <2>2. RunOf(s) = [Clients |-> s.clients, hasRelays |-> hasRelays,
                    checkpoints |-> s.number, maxRepeats |-> 0]
    BY DEF RunOf
  <2> HIDE DEF hasRelays
  <2>3. s.clients \in (SUBSET (Nat \ {0})) \ {{}} /\ 0 \in Nat
    BY <1>1
  <2>4. hasRelays \in BOOLEAN
    BY <2>1 DEF hasRelays
  <2> QED
    BY <1>1, <2>2, <2>3, <2>4 DEF C!Run
<1>3. ASSUME s.relays = {}, s.number # 0 PROVE FALSE
  <2>1. PICK c \in s.clients : TRUE
    OBVIOUS
  <2>2. 1 \in 1 .. s.number
    BY <1>1, <1>3
  <2>3. s.checkpoints[c][1] \in [1 .. R!Last -> s.relays]
    BY <1>1, <2>1, <2>2
  <2>4. 1 \in 1 .. R!Last
    BY LayersOfPaths
  <2>5. s.checkpoints[c][1][1] \in s.relays
    BY <2>3, <2>4
  <2> QED
    BY <1>3, <2>5
<1> QED
  BY <1>2, <1>3 DEF RunOf

\* The onions whose nonces of layer k the start signal for relay r contains.
ToldOf(s, r, k) ==
  {<<m.Nonce[1], m.Nonce[2]>> : m \in {x \in B!Told(s, <<"relay", r>>) : x.Layer = k}}

\* What module Relay has startRun record is what the board's signal contains, if
\* the checkpoint onions take the paths it decided on: relay r records of layer k
\* the nonces it is told, and none of another run.
THEOREM NoncesAsTold ==
  ASSUME PathsChosen, NEW s, B!IsRun(s), start = RunOf(s), start \in Runs,
         \A c \in s.clients, i \in 1 .. s.number : path[<<c, i>>] = s.checkpoints[c][i],
         NEW r \in Relays, NEW k \in R!Layers
  PROVE  R!Nonces(r, k) = ToldOf(s, r, k)
<1>1. /\ start.Clients = s.clients /\ start.checkpoints = s.number /\ s.number \in Nat
      /\ k \in 1 .. R!Last
  BY LayersOfPaths DEF RunOf, B!IsRun
<1>2. B!Told(s, <<"relay", r>>) = {[Nonce |-> h, Layer |-> h[3]] : h \in B!Nonces(s, r)}
  BY DEF B!Told
<1>3. ToldOf(s, r, k) = {<<h[1], h[2]>> : h \in {x \in B!Nonces(s, r) : x[3] = k}}
  <2> DEFINE told == B!Told(s, <<"relay", r>>)
             nonces == B!Nonces(s, r)
  <2>1. told = {[Nonce |-> h, Layer |-> h[3]] : h \in nonces}
    BY <1>2
  <2> HIDE DEF told, nonces
  <2>2. ToldOf(s, r, k) = {<<m.Nonce[1], m.Nonce[2]>> : m \in {x \in told : x.Layer = k}}
    BY DEF ToldOf, told
  <2>3. ASSUME NEW h \in nonces, h[3] = k PROVE <<h[1], h[2]>> \in ToldOf(s, r, k)
    <3>1. [Nonce |-> h, Layer |-> h[3]] \in {x \in told : x.Layer = k}
      BY <2>1, <2>3
    <3> QED
      BY <2>2, <3>1
  <2>4. ASSUME NEW o \in ToldOf(s, r, k)
        PROVE  \E h \in nonces : h[3] = k /\ o = <<h[1], h[2]>>
    <3>1. PICK m \in told : m.Layer = k /\ o = <<m.Nonce[1], m.Nonce[2]>>
      BY <2>2
    <3>2. PICK h \in nonces : m = [Nonce |-> h, Layer |-> h[3]]
      BY <2>1
    <3> QED
      BY <3>1, <3>2
  <2> QED
    BY <2>3, <2>4 DEF nonces
<1>4. ASSUME NEW o \in R!Nonces(r, k) PROVE o \in ToldOf(s, r, k)
  <2>1. o \in Onions /\ o[2] > 0 /\ path[o][k] = r
    BY <1>4 DEF R!Nonces, Checkpoints
  <2>2. o \in C!Onions
    BY <2>1, PiTAssumption DEF PathsChosen
  <2>3. PICK c \in s.clients, i \in 0 .. s.number : o = <<c, i>>
    BY <1>1, <2>2 DEF C!Onions, C!Numbers
  <2>4. i \in 1 .. s.number
    BY <1>1, <2>1, <2>3
  <2>5. s.checkpoints[c][i][k] = r
    BY <2>1, <2>3, <2>4
  <2>6. <<c, i, k>> \in B!Nonces(s, r)
    BY <1>1, <2>4, <2>5 DEF B!Nonces
  <2> QED
    BY <1>3, <2>3, <2>6
<1>5. ASSUME NEW o \in ToldOf(s, r, k) PROVE o \in R!Nonces(r, k)
  <2>1. PICK h \in B!Nonces(s, r) : h[3] = k /\ o = <<h[1], h[2]>>
    BY <1>3
  <2>2. /\ h[1] \in s.clients /\ h[2] \in 1 .. s.number
        /\ s.checkpoints[h[1]][h[2]][k] = r
    BY <2>1 DEF B!Nonces
  <2>3. path[o][k] = r
    BY <2>1, <2>2
  <2>4. o \in C!Onions /\ o[2] > 0
    BY <1>1, <2>1, <2>2 DEF C!Onions, C!Numbers
  <2>5. o \in Onions
    BY <2>4, OnionsOfTheRun
  <2> QED
    BY <2>3, <2>4, <2>5 DEF R!Nonces, Checkpoints
<1> QED
  BY <1>4, <1>5

===============================================================================
