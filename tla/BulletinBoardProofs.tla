-------------------------- MODULE BulletinBoardProofs --------------------------
(***************************************************************************)
(* Proofs about module BulletinBoard, for any finite sets of relays and    *)
(* clients, any minima, load and path length: what signalNodesToStart      *)
(* makes of lists that change under its hands, and what main may do to it. *)
(***************************************************************************)
EXTENDS BulletinBoard, FiniteSetTheorems, TLAPS

Nodes == {Relay(r) : r \in Relays} \union {Client(c) : c \in Clients}

\* The clients that have not been answered.
Waiting == {c \in activeClients : Client(c) \in posting}

LEMMA Finite ==
  ASSUME TypeOK
  PROVE  /\ IsFiniteSet(activeNodes) /\ Cardinality(activeNodes) \in Nat
         /\ IsFiniteSet(activeClients) /\ Cardinality(activeClients) \in Nat
         /\ IsFiniteSet(registered) /\ Cardinality(registered) \in Nat
         /\ IsFiniteSet(Waiting) /\ Cardinality(Waiting) \in Nat
         /\ IsFiniteSet(activeClients \union unread)
<1>1. IsFiniteSet(Relays) /\ IsFiniteSet(Clients)
  BY ConfigAssumption
<1>2. IsFiniteSet(Relays \union Clients)
  BY <1>1, FS_Union
<1>3. \A T \in SUBSET (Relays \union Clients) : IsFiniteSet(T) /\ Cardinality(T) \in Nat
  BY <1>2, FS_Subset, FS_CardinalityType
<1>4. /\ activeNodes \in SUBSET (Relays \union Clients)
      /\ activeClients \in SUBSET (Relays \union Clients)
      /\ registered \in SUBSET (Relays \union Clients)
      /\ Waiting \in SUBSET (Relays \union Clients)
      /\ activeClients \union unread \in SUBSET (Relays \union Clients)
  BY DEF TypeOK, Waiting
<1> QED
  BY <1>3, <1>4

\* A node is a relay or a client, never both, and its ID is in it.
LEMMA NodesDiffer ==
  /\ \A r, c : Relay(r) # Client(c)
  /\ \A c, d : Client(c) = Client(d) => c = d
  /\ \A r, c : Relay(r)[1] = "relay" /\ Client(c)[1] = "client"
BY DEF Relay, Client

LEMMA SignalledNodes ==
  ASSUME TypeOK PROVE Signalled \subseteq Nodes
BY DEF TypeOK, Signalled, Nodes

-----------------------------------------------------------------------------
(* The parts of the invariant, step by step                                *)

\* The initial states, and what the process forgets when it ends.
LEMMA InitInv == Init => IInv
<1> SUFFICES ASSUME NEW f \in {P!Earlier, P!Torn}, NewBulletinBoard(f) PROVE IInv
  BY DEF Init
<1> USE DEF NewBulletinBoard, P!InitWith
<1>1. TypeOK
  <2>1. file = f
    OBVIOUS
  <2>2. f.holds \in {"nothing", "yaml"} /\ f.targets = {}
    BY DEF P!Earlier, P!Torn
  <2>3. view \in [Relays -> {"absent", "active", "stale"}]
    OBVIOUS
  <2>4. /\ pc \in Stages /\ pc \notin {"prometheus", "wait", "returned"}
        /\ wg \in Int
    BY DEF Stages
  <2>5. early \in BOOLEAN
    BY Zenon
  <2> QED
    BY <2>1, <2>2, <2>3, <2>4, <2>5 DEF TypeOK
<1>2. WaitGroupCounts /\ EnoughClients
  BY DEF WaitGroupCounts, EnoughClients
<1>3. PrometheusInStep /\ PrometheusKnown
  BY DEF PrometheusInStep, PrometheusKnown
<1>4. SignalsLast
  BY DEF SignalsLast
<1> QED
  BY <1>1, <1>2, <1>3, <1>4 DEF IInv

\* Registrations, heartbeats and expiry: any race included.
LEMMA EnvironmentInv ==
  ASSUME IInv, Environment PROVE IInv'
<1> USE DEF IInv, process, prometheus, locals
<1>0. /\ pc' \in {pc, "crashed"}
      /\ pc' # pc => pc \in {"relays", "clients"}
      /\ registered \subseteq registered' /\ registered' \subseteq Clients
      /\ unread \subseteq unread' /\ unread' \subseteq Relays \union Clients
      /\ view' \in [Relays -> {"absent", "active", "stale"}]
      /\ UNCHANGED <<locals, wg, posting, started, process>>
      /\ main # "exited"
  <2> USE DEF TypeOK
  <2>1. CASE \E r \in Relays : RegisterRelay(r)
    BY <2>1 DEF RegisterRelay, Raced, Serving
  <2>2. CASE \E r \in Relays : Heartbeat(r) \/ Expire(r)
    BY <2>2 DEF Heartbeat, Expire, Serving
  <2>3. CASE \E c \in Clients : RegisterClient(c)
    BY <2>3 DEF RegisterClient, Raced, Serving
  <2> QED
    BY <2>1, <2>2, <2>3 DEF Environment
<1> HIDE DEF IInv
<1>1. TypeOK'
  BY <1>0 DEF IInv, TypeOK, Stages, expectedToSend, Paths
<1>2. WaitGroupCounts'
  BY <1>0 DEF IInv, WaitGroupCounts
<1>3. EnoughClients'
  <2>1. Cardinality(registered) <= Cardinality(registered')
    BY <1>0, <1>1, Finite, FS_Subset, ConfigAssumption DEF TypeOK
  <2>2. Cardinality(activeClients \union unread) <= Cardinality((activeClients \union unread)')
    <3>1. IsFiniteSet((activeClients \union unread)')
      BY <1>1, ConfigAssumption, FS_Union, FS_Subset DEF TypeOK
    <3>2. activeClients \union unread \subseteq (activeClients \union unread)'
      BY <1>0
    <3> QED
      BY <3>1, <3>2, FS_Subset
  <2>3. /\ Cardinality(registered) \in Nat /\ Cardinality(registered') \in Nat
        /\ Cardinality(activeClients \union unread) \in Nat
        /\ Cardinality((activeClients \union unread)') \in Nat
    BY <1>1, ConfigAssumption, FS_Union, FS_Subset, FS_CardinalityType DEF IInv, TypeOK
  <2> QED
    BY <1>0, <2>1, <2>2, <2>3, ConfigAssumption DEF IInv, EnoughClients
<1>4. PrometheusInStep' /\ PrometheusKnown'
  BY <1>0 DEF IInv, PrometheusInStep, PrometheusKnown, Signalled
<1>5. SignalsLast'
  BY <1>0 DEF IInv, SignalsLast, Signalled
<1> QED
  BY <1>1, <1>2, <1>3, <1>4, <1>5 DEF IInv

\* The loops over the maps and GetCheckpoints.
LEMMA ReadingInv ==
  ASSUME IInv, Serving,
         \/ Poll \/ RelaysRead \/ ClientsRead \/ GetCheckpoints
         \/ \E r \in Relays : ReadRelay(r)
         \/ \E c \in Clients : ReadClient(c)
  PROVE  IInv'
<1> USE DEF process, prometheus, locals, views
<1>0. /\ <<pc, pc'>> \in {<<"poll", "relays">>, <<"relays", "relays">>, <<"relays", "clients">>,
                         <<"clients", "clients">>, <<"clients", "checkpoints">>,
                         <<"checkpoints", "prometheus">>}
      /\ activeNodes' \subseteq Relays /\ activeClients' \subseteq Clients
      /\ unread' \subseteq Relays \union Clients
      /\ UNCHANGED <<view, registered, wg, posting, started, process>>
      /\ main # "exited"
  <2>1. CASE Poll
    BY <2>1 DEF Poll, Serving, IInv, TypeOK, Present
  <2>2. CASE RelaysRead
    BY <2>2 DEF RelaysRead, Serving, IInv, TypeOK
  <2>3. CASE ClientsRead
    BY <2>3 DEF ClientsRead, Serving, IInv, TypeOK
  <2>4. CASE GetCheckpoints
    BY <2>4 DEF GetCheckpoints, Serving, IInv, TypeOK
  <2>5. CASE \E r \in Relays : ReadRelay(r)
    BY <2>5 DEF ReadRelay, Serving, IInv, TypeOK
  <2>6. CASE \E c \in Clients : ReadClient(c)
    BY <2>6 DEF ReadClient, Serving, IInv, TypeOK
  <2> QED
    BY <2>1, <2>2, <2>3, <2>4, <2>5, <2>6
<1>1. TypeOK'
  <2>1. CASE pc' = "prometheus"
    <3>1. /\ checkpoints' \in [activeClients -> [1 .. expectedToSend -> Paths]]
          /\ activeNodes' = activeNodes /\ activeClients' = activeClients
      BY <1>0, <2>1 DEF Poll, RelaysRead, ClientsRead, GetCheckpoints, ReadRelay, ReadClient
    <3>2. expectedToSend' = expectedToSend /\ Paths' = Paths
      BY <3>1 DEF expectedToSend, Paths
    <3>3. checkpoints' \in [activeClients' -> [1 .. expectedToSend' -> Paths']]
      BY <3>1, <3>2
    <3> QED
      BY <1>0, <3>3 DEF IInv, TypeOK, Stages
  <2>2. CASE pc' # "prometheus"
    BY <1>0, <2>2 DEF IInv, TypeOK, Stages
  <2> QED
    BY <2>1, <2>2
<1>2. WaitGroupCounts'
  BY <1>0 DEF WaitGroupCounts
<1>3. EnoughClients'
  <2>1. CASE Poll
    BY <2>1 DEF Poll, allNodesReady, EnoughClients
  <2>2. CASE RelaysRead
    <3>1. Cardinality(registered) <= Cardinality(activeClients \union registered)
      BY ConfigAssumption, FS_Subset, FS_Union DEF IInv, TypeOK
    <3>2. /\ Cardinality(registered) \in Nat
          /\ Cardinality(activeClients \union registered) \in Nat
      BY ConfigAssumption, FS_Subset, FS_Union, FS_CardinalityType DEF IInv, TypeOK
    <3> QED
      BY <2>2, <3>1, <3>2, ConfigAssumption DEF RelaysRead, IInv, EnoughClients
  <2>3. CASE ClientsRead
    <3>1. activeClients \union unread = activeClients
      BY <2>3 DEF ClientsRead
    <3> QED
      BY <2>3, <3>1 DEF ClientsRead, IInv, EnoughClients
  <2>4. CASE GetCheckpoints
    BY <2>4 DEF GetCheckpoints, IInv, EnoughClients
  <2>5. CASE \E r \in Relays : ReadRelay(r)
    BY <2>5 DEF ReadRelay, IInv, EnoughClients
  <2>6. ASSUME NEW c \in Clients, ReadClient(c) PROVE EnoughClients'
    <3>1. (activeClients \union unread)' = activeClients \union unread
      BY <2>6 DEF ReadClient
    <3> QED
      BY <2>6, <3>1 DEF ReadClient, IInv, EnoughClients
  <2> QED
    BY <2>1, <2>2, <2>3, <2>4, <2>5, <2>6
<1>4. PrometheusInStep' /\ PrometheusKnown'
  BY <1>0 DEF IInv, PrometheusInStep, PrometheusKnown
<1>5. SignalsLast'
  BY <1>0 DEF IInv, SignalsLast
<1> QED
  BY <1>1, <1>2, <1>3, <1>4, <1>5 DEF IInv

\* RestartPrometheus, one system call after the other.
LEMMA RestartInv ==
  ASSUME IInv, Serving, RestartPrometheus \/ PrometheusFails PROVE IInv'
<1> USE DEF process, prometheus, locals, views
<1>0. /\ pc = "prometheus" /\ pc' \in {"prometheus", "failed", "crashed"}
      /\ main # "exited"
      /\ UNCHANGED <<views, unread, locals, wg, posting, started, main, early>>
      /\ Signalled' = Signalled
  BY DEF RestartPrometheus, PrometheusFails, Serving, Signalled
<1>1. \/ UNCHANGED prometheus
      \/ /\ step \in {"read", "open", "write", "stop", "start"}
         /\ P!RestartPrometheus(Signalled)
  BY DEF RestartPrometheus, PrometheusFails, P!RestartPrometheus, P!ReadConfig, P!OpenFile,
         P!Write, P!StopBeforeStart, P!StartPrometheus, P!Exit, P!Fails
<1>2. TypeOK'
  <2>1. /\ step' \in {"read", "open", "write", "stop", "start", "done", "error", "exit"}
        /\ PID' \in {0, 1}
    BY <1>1 DEF IInv, TypeOK, P!RestartPrometheus, P!ReadConfig, P!OpenFile,
         P!Write, P!StopBeforeStart, P!StartPrometheus, P!Exit, P!Fails, P!StopPrometheus
  <2>2. file' \in {file, P!Torn, P!Listing(Signalled)}
    BY <1>1 DEF P!RestartPrometheus, P!ReadConfig, P!OpenFile,
         P!Write, P!StopBeforeStart, P!StartPrometheus, P!Exit, P!Fails, P!StopPrometheus
  <2>3. /\ file'.holds \in {"nothing", "yaml"}
        /\ file'.targets \subseteq Nodes
    <3>1. CASE file' = file
      BY <3>1 DEF IInv, TypeOK, Nodes
    <3>2. CASE file' = P!Torn
      BY <3>2 DEF P!Torn
    <3>3. CASE file' = P!Listing(Signalled)
      BY <3>3, SignalledNodes DEF IInv, P!Listing
    <3> QED
      BY <2>2, <3>1, <3>2, <3>3
  <2> QED
    BY <1>0, <2>1, <2>3 DEF IInv, TypeOK, Stages, Nodes, expectedToSend, Paths
<1>3. WaitGroupCounts' /\ EnoughClients'
  BY <1>0 DEF IInv, WaitGroupCounts, EnoughClients
<1>4. PrometheusInStep'
  BY <1>0, <1>1 DEF IInv, PrometheusInStep, P!RestartPrometheus, P!ReadConfig, P!OpenFile,
     P!Write, P!StopBeforeStart, P!StartPrometheus, P!Exit, P!Fails, P!StopPrometheus
<1>5. PrometheusKnown'
  BY <1>0, <1>1 DEF IInv, PrometheusKnown, P!RestartPrometheus, P!ReadConfig, P!OpenFile,
     P!Write, P!StopBeforeStart, P!StartPrometheus, P!Exit, P!Fails, P!StopPrometheus
<1>6. SignalsLast'
  BY <1>0 DEF IInv, SignalsLast
<1> QED
  BY <1>2, <1>3, <1>4, <1>5, <1>6 DEF IInv

\* The signals go out.
LEMMA SignalNodesInv ==
  ASSUME IInv, Serving, SignalNodes PROVE IInv'
<1> USE DEF process, prometheus, locals, views
<1>0. /\ pc = "prometheus" /\ pc' = "wait" /\ step = "done" /\ main # "exited"
      /\ wg' = Cardinality(activeNodes) + Cardinality(activeClients)
      /\ posting' = Signalled /\ Signalled' = Signalled
      /\ UNCHANGED <<views, unread, locals, started, process>>
  BY DEF SignalNodes, Serving, Signalled
<1>1. TypeOK'
  <2>1. wg' \in Int
    BY <1>0, Finite DEF IInv
  <2> QED
    BY <1>0, <2>1, SignalledNodes DEF IInv, TypeOK, Stages, Nodes, expectedToSend, Paths
<1>2. WaitGroupCounts'
  <2>1. Waiting' = activeClients
    BY <1>0 DEF Waiting, Signalled
  <2> QED
    BY <1>0, <2>1 DEF WaitGroupCounts, Waiting
<1>3. EnoughClients' /\ PrometheusInStep' /\ PrometheusKnown'
  BY <1>0 DEF IInv, EnoughClients, PrometheusInStep, PrometheusKnown
<1>4. SignalsLast'
  BY <1>0 DEF IInv, SignalsLast
<1> QED
  BY <1>1, <1>2, <1>3, <1>4 DEF IInv

\* A POST ends: only for a client does the counter go down, and by that client.
LEMMA PostInv ==
  ASSUME IInv, NEW n \in posting, NEW accepted \in BOOLEAN, PostStart(n, accepted)
  PROVE  IInv'
<1> USE DEF process, prometheus, locals, views
<1>0. /\ posting' = posting \ {n}
      /\ wg' = IF n[1] = "client" THEN wg - 1 ELSE wg
      /\ started' \subseteq started \union {n}
      /\ UNCHANGED <<views, pc, unread, locals, process>>
      /\ Signalled' = Signalled
      /\ n \in Signalled
  BY DEF PostStart, Signalled, IInv, SignalsLast
<1>1. TypeOK'
  <2>1. wg' \in Int
    BY <1>0 DEF IInv, TypeOK
  <2>2. posting' \union started' \subseteq Nodes
    BY <1>0, SignalledNodes DEF IInv, TypeOK, Nodes
  <2>3. expectedToSend' = expectedToSend /\ Paths' = Paths
    BY <1>0 DEF expectedToSend, Paths
  <2> QED
    BY <1>0, <2>1, <2>2, <2>3 DEF IInv, TypeOK, Nodes
<1>2. WaitGroupCounts'
  <2>0. IsFiniteSet(Waiting) /\ Cardinality(Waiting) \in Nat /\ Cardinality(activeNodes) \in Nat
    BY Finite DEF IInv
  <2>1. CASE \E c \in activeClients : n = Client(c)
    <3>1. PICK c \in activeClients : n = Client(c)
      BY <2>1
    <3>2. Waiting' = Waiting \ {c} /\ c \in Waiting
      BY <1>0, <3>1, NodesDiffer DEF Waiting
    <3>3. Cardinality(Waiting') = Cardinality(Waiting) - 1
      BY <2>0, <3>2, FS_RemoveElement
    <3>4. n[1] = "client"
      BY <3>1, NodesDiffer
    <3> QED
      BY <1>0, <2>0, <3>3, <3>4 DEF IInv, WaitGroupCounts, Waiting
  <2>2. CASE \E r \in activeNodes : n = Relay(r)
    <3>1. Waiting' = Waiting
      BY <1>0, <2>2, NodesDiffer DEF Waiting
    <3>2. n[1] # "client"
      BY <2>2, NodesDiffer
    <3> QED
      BY <1>0, <3>1, <3>2 DEF IInv, WaitGroupCounts, Waiting
  <2> QED
    BY <1>0, <2>1, <2>2 DEF Signalled
<1>3. EnoughClients' /\ PrometheusInStep' /\ PrometheusKnown'
  BY <1>0 DEF IInv, EnoughClients, PrometheusInStep, PrometheusKnown
<1>4. SignalsLast'
  BY <1>0 DEF IInv, SignalsLast
<1> QED
  BY <1>1, <1>2, <1>3, <1>4 DEF IInv

LEMMA ReturnInv ==
  ASSUME IInv, Serving, Return PROVE IInv'
<1> USE DEF process, prometheus, locals, views
<1>0. /\ pc = "wait" /\ pc' \in {"returned", "crashed"} /\ main # "exited"
      /\ wg' = wg - Cardinality(activeNodes)
      /\ UNCHANGED <<views, unread, locals, posting, started, process>>
      /\ Signalled' = Signalled
  BY DEF Return, Serving, Signalled
<1>1. TypeOK'
  <2>1. wg' \in Int
    BY <1>0, Finite DEF IInv, TypeOK
  <2> QED
    BY <1>0, <2>1 DEF IInv, TypeOK, Stages, expectedToSend, Paths
<1>2. WaitGroupCounts' /\ EnoughClients' /\ PrometheusInStep' /\ PrometheusKnown' /\ SignalsLast'
  BY <1>0 DEF IInv, WaitGroupCounts, EnoughClients, PrometheusInStep, PrometheusKnown, SignalsLast
<1> QED
  BY <1>1, <1>2 DEF IInv

\* main stops, and another process takes over.
LEMMA ProcessInv ==
  ASSUME IInv, Quit \/ Shutdown \/ Exit \/ Restart PROVE IInv'
<1> USE DEF process, prometheus, locals, views
<1>1. CASE Quit \/ Shutdown
  <2>0. /\ main \in {"serving", "stopping"} /\ main' \in {"stopping", "stopped"}
        /\ UNCHANGED <<views, pc, unread, locals, wg, posting, started, step, file>>
        /\ Signalled' = Signalled
    BY <1>1 DEF Quit, Shutdown, Signalled, P!StopPrometheus
  <2>1. TypeOK'
    <3>1. early' \in BOOLEAN
      <4>1. CASE Quit
        BY <4>1 DEF Quit, IInv, TypeOK
      <4>2. CASE Shutdown
        BY <4>2, Zenon DEF Shutdown
      <4> QED
        BY <1>1, <4>1, <4>2
    <3>2. PID' \in {0, 1}
      BY <1>1 DEF Quit, Shutdown, P!StopPrometheus, IInv, TypeOK
    <3> QED
      BY <2>0, <3>1, <3>2 DEF IInv, TypeOK, Stages, expectedToSend, Paths
  <2>2. WaitGroupCounts' /\ EnoughClients' /\ PrometheusInStep' /\ SignalsLast'
    BY <2>0 DEF IInv, WaitGroupCounts, EnoughClients, PrometheusInStep, SignalsLast
  <2>3. PrometheusKnown'
    <3>1. CASE Quit
      BY <3>1 DEF Quit, IInv, PrometheusKnown
    <3>2. CASE Shutdown
      BY <3>2 DEF Shutdown, P!StopPrometheus, IInv, PrometheusKnown
    <3> QED
      BY <1>1, <3>1, <3>2
  <2> QED
    BY <2>1, <2>2, <2>3 DEF IInv
<1>2. CASE Exit
  <2>0. /\ main = "stopped" /\ main' = "exited"
        /\ Forget /\ UNCHANGED <<early, prometheus>>
    BY <1>2 DEF Exit
  <2>1. TypeOK'
    BY <2>0 DEF Forget, IInv, TypeOK, Stages
  <2>2. WaitGroupCounts' /\ EnoughClients' /\ PrometheusInStep' /\ SignalsLast'
    BY <2>0 DEF Forget, IInv, WaitGroupCounts, EnoughClients, PrometheusInStep, SignalsLast
  <2>3. PrometheusKnown'
    BY <2>0 DEF IInv, PrometheusKnown
  <2> QED
    BY <2>1, <2>2, <2>3 DEF IInv
<1>3. CASE Restart
  <2>0. /\ main' = "serving" /\ Forget
        /\ step' = "read" /\ scraped' = {} /\ PID' = 0
        /\ file' \in {P!Torn, P!Earlier}
    BY <1>3 DEF Restart
  <2>1. TypeOK'
    <3>1. early' \in BOOLEAN
      BY <1>3, Zenon DEF Restart
    <3>2. file'.holds \in {"nothing", "yaml"} /\ file'.targets = {}
      BY <2>0 DEF P!Torn, P!Earlier
    <3> QED
      BY <2>0, <3>1, <3>2 DEF Forget, TypeOK, Stages
  <2>2. /\ WaitGroupCounts' /\ EnoughClients' /\ PrometheusInStep' /\ PrometheusKnown'
        /\ SignalsLast'
    BY <2>0 DEF Forget, WaitGroupCounts, EnoughClients, PrometheusInStep, PrometheusKnown, SignalsLast
  <2> QED
    BY <2>1, <2>2 DEF IInv
<1> QED
  BY <1>1, <1>2, <1>3

-----------------------------------------------------------------------------
(* Theorems                                                                *)

\* However the lists change meanwhile: the wait group's counter stands for the
\* nodes still to be answered, the clients found are enough, prometheus.yml is
\* torn only while it is rewritten, and the board knows the process it started.
THEOREM Invariance == Spec => []IInv
<1>1. IInv /\ [Next]_vars => IInv'
  <2> SUFFICES ASSUME IInv, [Next]_vars PROVE IInv'
    OBVIOUS
  <2>1. CASE Environment
    BY <2>1, EnvironmentInv
  <2>2. CASE StartProtocol
    <3>1. Serving
      BY <2>2 DEF StartProtocol
    <3>2. CASE \/ Poll \/ RelaysRead \/ ClientsRead \/ GetCheckpoints
               \/ \E r \in Relays : ReadRelay(r)
               \/ \E c \in Clients : ReadClient(c)
      BY <3>1, <3>2, ReadingInv
    <3>3. CASE RestartPrometheus \/ PrometheusFails
      BY <3>1, <3>3, RestartInv
    <3>4. CASE SignalNodes
      BY <3>1, <3>4, SignalNodesInv
    <3>5. CASE Return
      BY <3>1, <3>5, ReturnInv
    <3> QED
      BY <2>2, <3>2, <3>3, <3>4, <3>5 DEF StartProtocol
  <2>3. CASE \E n \in posting : Post(n)
    BY <2>3, PostInv DEF Post
  <2>4. CASE Quit \/ Shutdown \/ Exit \/ Restart
    BY <2>4, ProcessInv
  <2>5. CASE UNCHANGED vars
    <3>1. expectedToSend' = expectedToSend /\ Paths' = Paths /\ Signalled' = Signalled
      BY <2>5 DEF vars, expectedToSend, Paths, Signalled
    <3> QED
      BY <2>5, <3>1 DEF vars, IInv, TypeOK, WaitGroupCounts, EnoughClients, PrometheusInStep,
                        PrometheusKnown, SignalsLast
  <2> QED
    BY <2>1, <2>2, <2>3, <2>4, <2>5 DEF Next
<1> QED
  BY InitInv, <1>1, PTL DEF Spec

\* What clients and relays are told about the checkpoint onions fits together, for
\* any lists, load and path length.
THEOREM Agreement == Spec => []SignalsAgree
<1>1. IInv => SignalsAgree
  <2> SUFFICES ASSUME IInv, Signalling PROVE SignalsAgree
    BY DEF SignalsAgree
  <2>1. /\ checkpoints \in [activeClients -> [1 .. expectedToSend -> Paths]]
        /\ pc \notin {"poll", "relays", "clients", "checkpoints"}
    BY DEF IInv, TypeOK, Signalling
  <2>2. ASSUME NEW h \in Hops PROVE checkpoints[h[1]][h[2]][h[3]] \in activeNodes
    <3>1. h[1] \in activeClients /\ h[2] \in 1 .. expectedToSend /\ h[3] \in 1 .. PathLength
      BY DEF Hops
    <3>2. checkpoints[h[1]][h[2]] \in Paths
      BY <2>1, <3>1
    <3> QED
      BY <3>1, <3>2 DEF Paths
  <2>3. ASSUME NEW h \in Hops
        PROVE  checkpoints[h[1]][h[2]][h[3]] \in clientStartSignal(h[1]).Relays
    BY <2>2 DEF clientStartSignal
  <2>4. ASSUME NEW h \in Hops
        PROVE  \E r \in activeNodes :
                 [Nonce |-> NonceOf(h[1], h[2], h[3]), Layer |-> h[3]] \in nodeStartSignal(r)
    <3>1. [Nonce |-> NonceOf(h[1], h[2], h[3]), Layer |-> h[3]]
            \in nodeStartSignal(checkpoints[h[1]][h[2]][h[3]])
      BY DEF nodeStartSignal
    <3> QED
      BY <2>2, <3>1
  <2>5. ASSUME NEW r \in activeNodes, NEW q \in activeNodes, r # q,
               NEW x \in nodeStartSignal(r) \intersect nodeStartSignal(q)
        PROVE  FALSE
    <3>1. PICK h \in Hops : /\ checkpoints[h[1]][h[2]][h[3]] = r
                            /\ x = [Nonce |-> NonceOf(h[1], h[2], h[3]), Layer |-> h[3]]
      BY <2>5 DEF nodeStartSignal
    <3>2. PICK g \in Hops : /\ checkpoints[g[1]][g[2]][g[3]] = q
                            /\ x = [Nonce |-> NonceOf(g[1], g[2], g[3]), Layer |-> g[3]]
      BY <2>5 DEF nodeStartSignal
    <3>3. NonceOf(h[1], h[2], h[3]) = NonceOf(g[1], g[2], g[3])
      BY <3>1, <3>2
    <3>4. h[1] = g[1] /\ h[2] = g[2] /\ h[3] = g[3]
      BY <3>3 DEF NonceOf
    <3> QED
      BY <2>5, <3>1, <3>2, <3>4
  <2> QED
    BY <2>3, <2>4, <2>5 DEF SignalsAgree
<1> QED
  BY Invariance, <1>1, PTL

LEMMA Division ==
  ASSUME NEW a \in Nat, NEW b \in Nat \ {0}
  PROVE  /\ a \div b \in Nat
         /\ b * (a \div b) <= a /\ a < b * (a \div b) + b
         /\ a < b => a \div b = 0
         /\ a >= b => a \div b > 0
OBVIOUS

LEMMA MaxWithZero ==
  ASSUME NEW a \in Int PROVE Max({0, a}) = IF a > 0 THEN a ELSE 0
BY DEF Max

\* Rounding down and the one onion less for the message keep the load within its
\* bounds, for any numbers of nodes.
THEOREM LoadShared == Spec => []LoadBound
<1>1. IInv => LoadBound
  <2> DEFINE load == Cardinality(activeNodes) * ServerLoad
             clients == Cardinality(activeClients)
             share(c) == 1 + Len(clientStartSignal(c).CheckpointOnions)
             q == load \div clients
  <2> SUFFICES ASSUME IInv, Signalling, NEW c \in activeClients
               PROVE  IF load >= clients
                      THEN load - clients < clients * share(c) /\ clients * share(c) <= load
                      ELSE share(c) = 1
    BY DEF LoadBound
  <2>1. load \in Nat /\ clients \in Nat \ {0}
    <3>1. /\ Cardinality(activeNodes) \in Nat /\ clients \in Nat
          /\ IsFiniteSet(activeClients)
      BY Finite DEF IInv
    <3>2. clients # 0
      BY <3>1, FS_EmptySet
    <3> QED
      BY <3>1, <3>2, ConfigAssumption
  <2>2. expectedToSend = IF q > 1 THEN q - 1 ELSE 0
    <3>1. expectedToSend = Max({0, q - 1})
      BY DEF expectedToSend
    <3>2. q \in Int
      <4> HIDE DEF load, clients
      <4> QED
        BY <2>1, Division
    <3> HIDE DEF q
    <3>3. q - 1 \in Int /\ Max({0, q - 1}) = IF q - 1 > 0 THEN q - 1 ELSE 0
      BY <3>2, MaxWithZero
    <3> QED
      BY <3>1, <3>2, <3>3
  <2>3. q \in Nat
    <3> HIDE DEF load, clients
    <3> QED
      BY <2>1, Division
  <2>4. share(c) = 1 + expectedToSend
    <3>1. checkpoints[c] \in [1 .. expectedToSend -> Paths]
      BY DEF IInv, TypeOK, Signalling
    <3>2. expectedToSend \in Nat
      <4> HIDE DEF q
      <4> QED
        BY <2>2, <2>3
    <3>3. Len(checkpoints[c]) = expectedToSend
      BY <3>1, <3>2
    <3> QED
      BY <3>3 DEF clientStartSignal
  <2>5. /\ clients * q <= load /\ load < clients * q + clients
        /\ load < clients => q = 0
        /\ load >= clients => q > 0
    <3> HIDE DEF load, clients
    <3> QED
      BY <2>1, Division
  <2>6. share(c) = IF q > 1 THEN q ELSE 1
    <3> HIDE DEF q, share
    <3> QED
      BY <2>2, <2>3, <2>4
  <2>7. load >= clients => share(c) = q
    <3> HIDE DEF q, load, clients, share
    <3> QED
      BY <2>3, <2>5, <2>6
  <2>8. load < clients => share(c) = 1
    <3> HIDE DEF q, load, clients, share
    <3> QED
      BY <2>3, <2>5, <2>6
  <2>9. load >= clients => load - clients < clients * q /\ clients * q <= load
    <3>1. clients * q \in Int
      <4> HIDE DEF load, clients, q
      <4> QED
        BY <2>1, <2>3
    <3> DEFINE product == clients * q
    <3> HIDE DEF load, clients, q, product
    <3> QED
      BY <2>1, <2>5, <3>1 DEF product
  <2> HIDE DEF load, clients, q, share
  <2> QED
    BY <2>1, <2>7, <2>8, <2>9
<1> QED
  BY Invariance, <1>1, PTL

\* If the board fails, nobody has been told to start; and if somebody has, the
\* Prometheus that was started lists all nodes of the run.
THEOREM AllOrNobody == Spec => []FailureSignalsNobody
<1>1. IInv => FailureSignalsNobody
  <2> SUFFICES ASSUME IInv PROVE FailureSignalsNobody
    OBVIOUS
  <2>1. pc = "failed" => posting = {} /\ started = {}
    BY DEF IInv, SignalsLast
  <2>2. ASSUME posting \union started # {}
        PROVE  /\ file = P!Listing(Signalled)
               /\ scraped = {file} \/ (scraped = {} /\ main \notin {"serving", "stopping"})
    BY <2>2 DEF IInv, SignalsLast, PrometheusInStep, PrometheusKnown
  <2> QED
    BY <2>1, <2>2 DEF FailureSignalsNobody
<1> QED
  BY Invariance, <1>1, PTL

\* A board that ends leaves a Prometheus behind if StartPrometheus ran between its
\* Shutdown and its end, and in no other case.
THEOREM Orderly == Spec => []LeftBehindIfOvertaken
<1>1. IInv => LeftBehindIfOvertaken
  BY DEF IInv, PrometheusKnown, LeftBehindIfOvertaken
<1> QED
  BY Invariance, <1>1, PTL

\* Module BulletinBoard's SignallingEnds, which a run refutes, fails for every
\* number of nodes: signalNodesToStart returns only of a run without relays, for
\* each holds the counter above zero with the wg.Done that is deferred to the
\* return; and the deferred calls, when they run, never take it below zero.
THEOREM NeverReturnsWithRelays ==
  Spec => [][Serving /\ Return => activeNodes = {} /\ pc' = "returned"]_vars
<1>1. IInv /\ Serving /\ Return => activeNodes = {} /\ pc' = "returned"
  <2> SUFFICES ASSUME IInv, Return PROVE activeNodes = {} /\ pc' = "returned"
    OBVIOUS
  <2>1. /\ IsFiniteSet(activeNodes) /\ Cardinality(activeNodes) \in Nat
        /\ Cardinality(Waiting) \in Nat
    BY Finite DEF IInv
  <2>2. Cardinality(activeNodes) + Cardinality(Waiting) = 0
    BY DEF IInv, WaitGroupCounts, Waiting, Return
  <2>3. Cardinality(activeNodes) = 0
    BY <2>1, <2>2
  <2>4. activeNodes = {}
    BY <2>1, <2>3, FS_EmptySet
  <2>5. wg' = 0
    BY <2>3 DEF Return
  <2> QED
    BY <2>4, <2>5 DEF Return
<1> QED
  BY Invariance, <1>1, PTL DEF Spec

-----------------------------------------------------------------------------
(* The board implements RunStart                                           *)

\* Each client's onions, the message among them, are no more than its share.
LEMMA LoadBearable ==
  ASSUME TypeOK
  PROVE  /\ expectedToSend \in Nat
         /\ expectedToSend > 0 =>
              Cardinality(activeClients) * (expectedToSend + 1)
                <= Cardinality(activeNodes) * ServerLoad
<1> DEFINE load == Cardinality(activeNodes) * ServerLoad
           clients == Cardinality(activeClients)
           q == load \div clients
<1>1. load \in Nat /\ clients \in Nat
  BY Finite, ConfigAssumption
<1>2. CASE activeClients = {}
  BY <1>2 DEF expectedToSend
<1>3. CASE activeClients # {}
  <2>1. clients # 0
    BY <1>3, Finite, FS_EmptySet
  <2>2. expectedToSend = Max({0, q - 1})
    BY <1>3 DEF expectedToSend
  <2> HIDE DEF load, clients
  <2>3. q \in Nat /\ clients * q <= load
    BY <1>1, <2>1, Division
  <2> HIDE DEF q
  <2>4. expectedToSend = IF q - 1 > 0 THEN q - 1 ELSE 0
    BY <2>2, <2>3, MaxWithZero
  <2>5. expectedToSend \in Nat /\ (expectedToSend > 0 => expectedToSend + 1 = q)
    BY <2>3, <2>4
  <2>6. expectedToSend > 0 => clients * (expectedToSend + 1) <= load
    BY <2>3, <2>5
  <2> QED
    BY <2>5, <2>6 DEF load, clients
<1> QED
  BY <1>2, <1>3

\* What a node hears is its part of the decision.
LEMMA PartOfDecision ==
  ASSUME Signalling, NEW n PROVE startSignal(n) = S!Told(Decision, n)
<1> DEFINE run == [relays |-> activeNodes, clients |-> activeClients,
                   number |-> expectedToSend, checkpoints |-> checkpoints]
           nonces(r) == {h \in Hops : checkpoints[h[1]][h[2]][h[3]] = r}
<1>1. Decision = run
  BY DEF Decision
<1>2. Hops = activeClients \X (1 .. expectedToSend) \X (1 .. PathLength)
  BY DEF Hops, Signalling
<1>3. \A r : S!Nonces(run, r) = nonces(r)
  BY <1>2 DEF S!Nonces
<1>4. \A h \in Hops : NonceOf(h[1], h[2], h[3]) = h
  BY <1>2 DEF NonceOf
<1>5. ASSUME NEW r
      PROVE  {[Nonce |-> h, Layer |-> h[3]] : h \in S!Nonces(run, r)} = nodeStartSignal(r)
  BY <1>3, <1>4 DEF nodeStartSignal
<1>6. clientStartSignal(n[2])
        = [Clients |-> run.clients, Relays |-> run.relays,
           CheckpointOnions |-> run.checkpoints[n[2]]]
  BY DEF clientStartSignal
<1> QED
  BY <1>1, <1>5, <1>6 DEF startSignal, S!Told

\* Whatever else changes, a decision stands.
LEMMA DecisionStands ==
  ASSUME Signalling, Signalling', UNCHANGED locals
  PROVE  /\ Decision' = Decision
         /\ \A n : startSignal(n)' = startSignal(n)
         /\ UNCHANGED posting => Due' = Due
         /\ UNCHANGED started => Heard' = Heard
<1>1. /\ UNCHANGED <<activeNodes, activeClients, checkpoints>>
      /\ expectedToSend' = expectedToSend
  BY DEF locals, expectedToSend
<1>2. Hops' = Hops
  BY <1>1 DEF Hops, Signalling
<1>3. \A n : startSignal(n)' = startSignal(n)
  BY <1>1, <1>2 DEF startSignal, nodeStartSignal, clientStartSignal
<1> QED
  BY <1>1, <1>3 DEF Decision, Due, Heard

\* The step of RunStart by which a board ends, with or without a run.
LEMMA Ends ==
  ASSUME pc' \in {"poll", "relays", "clients", "checkpoints", "crashed"}
  PROVE  S!End
BY DEF S!End, S!NoRun, Phase, Decision, Due, Heard, Signalling

\* As long as nothing is decided there is nothing to see.
LEMMA NothingSeen ==
  ASSUME pc \in {"poll", "relays", "clients", "checkpoints", "crashed"},
         pc' \in {"poll", "relays", "clients", "checkpoints", "crashed"}
  PROVE  UNCHANGED S!vars
BY DEF S!vars, Phase, Decision, Due, Heard, Signalling

LEMMA SameSeen ==
  ASSUME UNCHANGED <<pc, locals, posting, started>> PROVE UNCHANGED S!vars
<1>1. CASE Signalling
  BY <1>1, DecisionStands DEF Signalling, S!vars, Phase
<1>2. CASE ~Signalling
  BY <1>2 DEF Signalling, S!vars, Phase, Decision, Due, Heard
<1> QED
  BY <1>1, <1>2

LEMMA StartProtocolRefines ==
  ASSUME IInv, IInv', StartProtocol PROVE [S!Next]_(S!vars)
<1> USE DEF S!Next
<1>0. Serving /\ TypeOK /\ SignalsLast
  BY DEF StartProtocol, IInv
<1>1. CASE \/ Poll \/ RelaysRead \/ ClientsRead
           \/ \E r \in Relays : ReadRelay(r)
           \/ \E c \in Clients : ReadClient(c)
  <2>1. /\ pc \in {"poll", "relays", "clients"}
        /\ pc' \in {"relays", "clients", "checkpoints"}
    BY <1>1 DEF Poll, RelaysRead, ClientsRead, ReadRelay, ReadClient
  <2> QED
    BY <2>1, NothingSeen
<1>2. CASE GetCheckpoints
  <2>1. /\ pc = "checkpoints" /\ pc' = "prometheus"
        /\ checkpoints' \in [activeClients -> [1 .. expectedToSend -> Paths]]
        /\ UNCHANGED <<activeNodes, activeClients, posting, started>>
    BY <1>2 DEF GetCheckpoints
  <2>2. posting = {} /\ started = {}
    BY <1>0, <2>1 DEF SignalsLast
  <2>3. Phase = "idle" /\ Phase' = "decided"
    BY <2>1 DEF Phase
  <2>4. Due = {} /\ Due' = {} /\ Heard = {} /\ Heard' = {}
    BY <2>1, <2>2 DEF Due, Heard
  <2>5. Decision' = [relays |-> activeNodes, clients |-> activeClients,
                     number |-> expectedToSend, checkpoints |-> checkpoints']
    BY <2>1 DEF Decision, Signalling, expectedToSend
  <2>6. S!IsRun(Decision')
    <3>1. activeNodes \subseteq Relays /\ activeClients \subseteq Clients
      BY <1>0 DEF TypeOK
    <3>2. \A T : S!Cardinality(T) = Cardinality(T)
      BY DEF S!Cardinality, Cardinality
    <3> QED
      BY <1>0, <2>1, <2>5, <3>1, <3>2, LoadBearable DEF S!IsRun, Paths
  <2>7. S!Decide
    BY <2>3, <2>4, <2>6 DEF S!Decide
  <2> QED
    BY <2>7
<1>3. CASE RestartPrometheus
  <2>1. /\ pc = "prometheus" /\ pc' \in {"prometheus", "crashed"}
        /\ UNCHANGED <<locals, posting, started>>
    BY <1>3 DEF RestartPrometheus
  <2> QED
    BY <2>1, SameSeen, Ends
<1>4. CASE PrometheusFails
  <2>1. /\ pc = "prometheus" /\ pc' = "failed"
        /\ posting = {} /\ started = {}
    BY <1>0, <1>4 DEF PrometheusFails, SignalsLast
  <2>2. S!Fail
    BY <2>1 DEF S!Fail, S!NoRun, Phase, Decision, Due, Heard, Signalling
  <2> QED
    BY <2>2
<1>5. CASE SignalNodes
  <2>1. /\ pc = "prometheus" /\ pc' = "wait"
        /\ posting' = Signalled /\ UNCHANGED <<locals, started>>
        /\ Signalling /\ Signalling'
    BY <1>5 DEF SignalNodes, Signalling
  <2>2. Decision' = Decision /\ Heard' = Heard
    BY <2>1, DecisionStands
  <2>3. Due' = S!Nodes(Decision)
    <3>1. Decision.relays = activeNodes /\ Decision.clients = activeClients
      BY <2>1 DEF Decision
    <3>2. Signalled = S!Nodes(Decision)
      BY <3>1 DEF Signalled, Relay, Client, S!Nodes
    <3> QED
      BY <2>1, <3>2 DEF Due
  <2>4. S!Begin
    BY <2>1, <2>2, <2>3 DEF S!Begin, Phase
  <2> QED
    BY <2>4
<1>6. CASE Return
  <2>1. /\ pc = "wait" /\ pc' \in {"returned", "crashed"}
        /\ UNCHANGED <<locals, posting, started>>
    BY <1>6 DEF Return
  <2>2. CASE pc' = "returned"
    <3>1. Signalling /\ Signalling' /\ Phase' = Phase
      BY <2>1, <2>2 DEF Signalling, Phase
    <3> QED
      BY <2>1, <3>1, DecisionStands DEF S!vars
  <2> QED
    BY <2>1, <2>2, Ends
<1> QED
  BY <1>1, <1>2, <1>3, <1>4, <1>5, <1>6 DEF StartProtocol

LEMMA PostRefines ==
  ASSUME IInv, NEW n \in posting, NEW accepted \in BOOLEAN, PostStart(n, accepted)
  PROVE  S!Tell(n)
<1>1. /\ pc \in {"wait", "returned"} /\ pc' = pc
      /\ posting' = posting \ {n}
      /\ started' \in {started, started \union {n}}
      /\ UNCHANGED locals
      /\ Signalling /\ Signalling'
  BY DEF PostStart, Serving, IInv, SignalsLast, Signalling
<1>2. Decision' = Decision /\ \A m : startSignal(m)' = startSignal(m)
  BY <1>1, DecisionStands
<1>3. Due' = Due \ {n}
  BY <1>1 DEF Due
<1>4. Heard' \in {Heard, Heard \union {<<n, S!Told(Decision, n)>>}}
  <2>1. Heard' = {<<m, startSignal(m)>> : m \in started'}
    BY <1>1, <1>2 DEF Heard
  <2>2. Heard = {<<m, startSignal(m)>> : m \in started}
    BY <1>1 DEF Heard
  <2>3. startSignal(n) = S!Told(Decision, n)
    BY <1>1, PartOfDecision
  <2> QED
    BY <1>1, <2>1, <2>2, <2>3
<1> QED
  BY <1>1, <1>2, <1>3, <1>4 DEF S!Tell, Phase

\* However its lists change under its hands, whatever becomes of Prometheus and
\* whenever the process ends, to the nodes the board decides once, tells each its
\* part at most once, and nobody of a start that fails.
THEOREM Refinement == Spec => ImplementsRunStart
<1>1. Init => S!Init
  <2> SUFFICES ASSUME Init PROVE S!Init
    OBVIOUS
  <2>1. pc = "poll"
    BY DEF Init, NewBulletinBoard
  <2> QED
    BY <2>1 DEF S!Init, S!NoRun, Phase, Decision, Due, Heard, Signalling
<1>2. IInv /\ IInv' /\ [Next]_vars => [S!Next]_(S!vars)
  <2> SUFFICES ASSUME IInv, IInv', [Next]_vars PROVE [S!Next]_(S!vars)
    OBVIOUS
  <2>1. CASE Environment
    <3>1. /\ UNCHANGED <<locals, posting, started>>
          /\ pc' = pc \/ (pc \in {"relays", "clients"} /\ pc' = "crashed")
      BY <2>1 DEF Environment, RegisterRelay, Heartbeat, Expire, RegisterClient, Raced
    <3> QED
      BY <3>1, SameSeen, NothingSeen
  <2>2. CASE StartProtocol
    BY <2>2, StartProtocolRefines
  <2>3. CASE \E n \in posting : Post(n)
    <3>1. PICK n \in posting, accepted \in BOOLEAN : PostStart(n, accepted)
      BY <2>3 DEF Post
    <3>2. S!Tell(n) /\ n \in Due
      <4>1. Signalling
        BY <3>1 DEF PostStart, Serving, IInv, SignalsLast, Signalling
      <4> QED
        BY <3>1, <4>1, PostRefines DEF Due
    <3> QED
      BY <3>2 DEF S!Next
  <2>4. CASE Quit \/ Shutdown
    <3>1. UNCHANGED <<pc, locals, posting, started>>
      BY <2>4 DEF Quit, Shutdown
    <3> QED
      BY <3>1, SameSeen
  <2>5. CASE Exit \/ Restart
    <3>1. pc' = "poll"
      BY <2>5 DEF Exit, Restart, Forget
    <3> QED
      BY <3>1, Ends DEF S!Next
  <2>6. CASE UNCHANGED vars
    BY <2>6, SameSeen DEF vars, locals
  <2> QED
    BY <2>1, <2>2, <2>3, <2>4, <2>5, <2>6 DEF Next
<1> QED
  BY Invariance, <1>1, <1>2, PTL DEF Spec, S!Spec, ImplementsRunStart
=============================================================================
