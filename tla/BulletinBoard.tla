---------------------------- MODULE BulletinBoard ----------------------------
(***************************************************************************)
(* The start of a run: BulletinBoard.StartProtocol, allNodesReady and      *)
(* signalNodesToStart (bulletin_board.go) with GetCheckpoints              *)
(* (calculateCheckpoints.go), while nodes register, send heartbeats and    *)
(* stop sending them.  How a view gets its age is module Registration's    *)
(* matter: here a relay's view is absent, active or stale.                 *)
(*                                                                         *)
(* allNodesReady reads the views under bb.mu.  signalNodesToStart takes no *)
(* lock: it ranges over each map again, asking each view in turn, and a    *)
(* registration that writes the map meanwhile is a data race.              *)
(*                                                                         *)
(* The board's process: cmd/bulletin-board's main waits for a signal,      *)
(* POST /shutdown or the end of StartProtocol in an error, stops           *)
(* Prometheus and returns, whatever StartProtocol is doing.  A new process *)
(* finds nothing of the old one but prometheus.yml (module Prometheus).    *)
(***************************************************************************)
EXTENDS Integers, Sequences, FiniteSets, FiniteSetsExt

CONSTANTS
  Relays,       \* relay IDs
  Clients,      \* client IDs
  MinRelays,    \* config.GetMinimumRelays
  MinClients,   \* config.GetMinimumClients
  ServerLoad,   \* config.GetServerLoad: x
  PathLength    \* config.GetL1() + config.GetL2()

ASSUME ConfigAssumption ==
  /\ IsFiniteSet(Relays) /\ IsFiniteSet(Clients)
  /\ MinRelays \in Nat /\ MinClients \in Nat
  /\ ServerLoad \in Nat /\ PathLength \in Nat \ {0}

VARIABLES
  view,            \* bb.Network: relay ID -> "absent", "active" or "stale"
  registered,      \* keys of bb.Clients: a registered client stays active
  pc,              \* where StartProtocol is
  unread,          \* map keys the range loop of FilterMap has yet to visit
  activeNodes,     \* local variable: IDs of the relays found active
  activeClients,   \* local variable: IDs of the clients found active
  checkpoints,     \* local variable: the checkpoint onions of each client
  wg,              \* local variable: the WaitGroup's counter
  posting,         \* nodes whose start signal a goroutine is posting
  started,         \* history: nodes that accepted their start signal
  main,            \* "serving", "stopping", "stopped" or "exited"
  early,           \* history: Shutdown ran before RestartPrometheus was done
  step, file, scraped, PID  \* of module Prometheus

views == <<view, registered>>
locals == <<activeNodes, activeClients, checkpoints>>
prometheus == <<step, file, scraped, PID>>
process == <<main, early, step, file, scraped, PID>>
vars == <<view, registered, pc, unread, activeNodes, activeClients, checkpoints,
          wg, posting, started, main, early, step, file, scraped, PID>>

P == INSTANCE Prometheus

Relay(r) == <<"relay", r>>
Client(c) == <<"client", c>>

Present == {r \in Relays : view[r] # "absent"}
Active == {r \in Relays : view[r] = "active"}

\* A new board over a file f.
NewBulletinBoard(f) ==
  /\ view = [r \in Relays |-> "absent"]
  /\ registered = {}
  /\ pc = "poll"
  /\ unread = {}
  /\ activeNodes = {} /\ activeClients = {}
  /\ checkpoints = <<>>
  /\ wg = 0
  /\ posting = {}
  /\ started = {}
  /\ main = "serving" /\ early = FALSE
  /\ P!InitWith(f)

Init == \E f \in {P!Earlier, P!Torn} : NewBulletinBoard(f)

-----------------------------------------------------------------------------
(* Handlers and time, at any moment                                        *)

\* The process has not ended.
Serving == main # "exited" /\ pc # "crashed"

\* A map write while the range loop of pc = loop reads that map: the runtime
\* ends the process, or the loop visits the new key, or it does not.
Raced(loop, key, isNew) ==
  IF pc # loop THEN UNCHANGED <<pc, unread>>
  ELSE \/ pc' = "crashed" /\ UNCHANGED unread
       \/ UNCHANGED <<pc, unread>>
       \/ isNew /\ unread' = unread \union {key} /\ UNCHANGED pc

\* UpdateRelay, for a relay that has no view.
RegisterRelay(r) ==
  /\ Serving /\ view[r] = "absent"
  /\ view' = [view EXCEPT ![r] = "active"]
  /\ Raced("relays", r, TRUE)
  /\ UNCHANGED <<registered, locals, wg, posting, started, process>>

\* UpdateRelay, for a relay that has one: the map is not written.
Heartbeat(r) ==
  /\ Serving /\ view[r] = "stale"
  /\ view' = [view EXCEPT ![r] = "active"]
  /\ UNCHANGED <<registered, pc, unread, locals, wg, posting, started, process>>

\* No heartbeat for MaxTimeBetweenHeartbeats.
Expire(r) ==
  /\ Serving /\ view[r] = "active"
  /\ view' = [view EXCEPT ![r] = "stale"]
  /\ UNCHANGED <<registered, pc, unread, locals, wg, posting, started, process>>

\* RegisterClient writes the map for a client it knows, too.
RegisterClient(c) ==
  /\ Serving
  /\ registered' = registered \union {c}
  /\ Raced("clients", c, c \notin registered)
  /\ UNCHANGED <<view, locals, wg, posting, started, process>>

-----------------------------------------------------------------------------
(* StartProtocol                                                           *)

ReadyAboveMinimum ==
  Cardinality(Active) > MinRelays /\ Cardinality(registered) > MinClients

\* allNodesReady
allNodesReady ==
  Cardinality(Active) >= MinRelays /\ Cardinality(registered) >= MinClients

\* The check timeBetweenRuns after the last: if the nodes are ready,
\* signalNodesToStart begins to range over bb.Network.
Poll ==
  /\ pc = "poll" /\ allNodesReady
  /\ pc' = "relays" /\ unread' = Present
  /\ UNCHANGED <<views, locals, wg, posting, started, process>>

\* FilterMap asks the view of relay r.
ReadRelay(r) ==
  /\ pc = "relays" /\ r \in unread
  /\ unread' = unread \ {r}
  /\ activeNodes' = activeNodes \union ({r} \intersect Active)
  /\ UNCHANGED <<views, pc, activeClients, checkpoints, wg, posting, started, process>>

\* The loop over bb.Network ends and the one over bb.Clients begins.
RelaysRead ==
  /\ pc = "relays" /\ unread = {}
  /\ pc' = "clients" /\ unread' = registered
  /\ UNCHANGED <<views, locals, wg, posting, started, process>>

ReadClient(c) ==
  /\ pc = "clients" /\ c \in unread
  /\ unread' = unread \ {c}
  /\ activeClients' = activeClients \union {c}
  /\ UNCHANGED <<views, pc, activeNodes, checkpoints, wg, posting, started, process>>

ClientsRead ==
  /\ pc = "clients" /\ unread = {}
  /\ pc' = "checkpoints"
  /\ UNCHANGED <<views, unread, locals, wg, posting, started, process>>

NotOneLess ==
  IF activeClients = {} THEN 0
  ELSE (Cardinality(activeNodes) * ServerLoad) \div Cardinality(activeClients)

\* GetCheckpoints: checkpoint onions per client, one less than its share of
\* the load, for its message; the loop makes none for a negative number.
expectedToSend ==
  IF activeClients = {} THEN 0
  ELSE Max({0, (Cardinality(activeNodes) * ServerLoad)
                 \div Cardinality(activeClients) - 1})

\* With the receivers drawn from all relays that ever registered.
PathsOverAbsent == [1 .. PathLength -> Relays]

\* The path of a checkpoint onion: the receiver of each layer.  The nonce of
\* client c's i-th onion at layer k is fresh; <<c, i, k>> stands for it.
Paths == [1 .. PathLength -> activeNodes]

GetCheckpoints ==
  /\ pc = "checkpoints"
  /\ checkpoints' \in [activeClients -> [1 .. expectedToSend -> Paths]]
  /\ pc' = "prometheus"
  /\ UNCHANGED <<views, unread, activeNodes, activeClients, wg, posting, started, process>>

\* What the signals carry: to a client its checkpoint onions with the lists
\* of nodes, to a relay the nonces GroupBy finds it is the receiver of.
clientStartSignal(c) ==
  [Clients |-> activeClients, Relays |-> activeNodes,
   CheckpointOnions |-> checkpoints[c]]

NonceOf(c, i, k) == <<c, i, k>>

Hops == {h \in activeClients \X (1 .. expectedToSend) \X (1 .. PathLength) :
           pc \notin {"poll", "relays", "clients", "checkpoints"}}

nodeStartSignalOffByOne(r) ==
  {[Nonce |-> NonceOf(h[1], h[2], h[3]), Layer |-> h[3]] :
     h \in {g \in Hops : g[3] < PathLength /\ checkpoints[g[1]][g[2]][g[3]] = r}}

nodeStartSignal(r) ==
  {[Nonce |-> NonceOf(h[1], h[2], h[3]), Layer |-> h[3]] :
     h \in {g \in Hops : checkpoints[g[1]][g[2]][g[3]] = r}}

Signalled == {Relay(r) : r \in activeNodes} \union {Client(c) : c \in activeClients}

\* A step of RestartPrometheus, with the nodes that are to be signalled.
RestartPrometheus ==
  /\ pc = "prometheus"
  /\ P!RestartPrometheus(Signalled)
  /\ pc' = IF step' = "exit" THEN "crashed" ELSE pc
  /\ UNCHANGED <<views, unread, locals, wg, posting, started, main, early>>

\* RestartPrometheus returns an error: StartProtocol returns it.
PrometheusFails ==
  /\ pc = "prometheus" /\ step = "error"
  /\ pc' = "failed"
  /\ UNCHANGED <<views, unread, locals, wg, posting, started, process>>

\* RestartPrometheus returns and a goroutine per node posts its signal.
SignalNodes ==
  /\ pc = "prometheus" /\ step = "done"
  /\ pc' = "wait"
  /\ wg' = Cardinality(activeNodes) + Cardinality(activeClients)
  /\ posting' = Signalled
  /\ UNCHANGED <<views, unread, locals, started, process>>

PostStartDoneIfAccepted(n, accepted) ==
  /\ Serving /\ n \in posting
  /\ posting' = posting \ {n}
  /\ wg' = IF n[1] = "client" /\ accepted THEN wg - 1 ELSE wg
  /\ started' = IF accepted THEN started \union {n} ELSE started
  /\ UNCHANGED <<views, pc, unread, locals, process>>

\* A POST to /start ends, accepted or not; only a client's goroutine calls
\* wg.Done.  The goroutines outlive StartProtocol, not the process.
PostStart(n, accepted) ==
  /\ Serving /\ n \in posting
  /\ posting' = posting \ {n}
  /\ wg' = IF n[1] = "client" THEN wg - 1 ELSE wg
  /\ started' = IF accepted THEN started \union {n} ELSE started
  /\ UNCHANGED <<views, pc, unread, locals, process>>

\* wg.Wait returns.  Now the wg.Done calls run that the loop over the relays
\* deferred to the end of the function: below zero they panic.
Return ==
  /\ pc = "wait" /\ wg = 0
  /\ wg' = wg - Cardinality(activeNodes)
  /\ pc' = IF wg' < 0 THEN "crashed" ELSE "returned"
  /\ UNCHANGED <<views, unread, locals, posting, started, process>>

-----------------------------------------------------------------------------
(* The process                                                             *)

\* main's select: a signal, POST /shutdown, or GlobalCancel after an error of
\* StartProtocol.  Nothing else looks at the canceled context.
Quit ==
  /\ Serving /\ main = "serving"
  /\ main' = "stopping"
  /\ UNCHANGED <<views, pc, unread, locals, wg, posting, started, early, prometheus>>

\* Shutdown, under mutexes nobody holds for long; its error is ignored.
Shutdown ==
  /\ Serving /\ main = "stopping"
  /\ P!StopPrometheus /\ UNCHANGED step
  /\ main' = "stopped"
  /\ early' = (step # "done")
  /\ UNCHANGED <<views, pc, unread, locals, wg, posting, started>>

\* What is in the process's memory, and its goroutines, are gone.
Forget ==
  /\ view' = [r \in Relays |-> "absent"] /\ registered' = {}
  /\ pc' = "poll" /\ unread' = {}
  /\ activeNodes' = {} /\ activeClients' = {} /\ checkpoints' = <<>>
  /\ wg' = 0 /\ posting' = {} /\ started' = {}

\* main returns.
Exit ==
  /\ Serving /\ main = "stopped"
  /\ main' = "exited"
  /\ Forget /\ UNCHANGED <<early, prometheus>>

\* Another process takes over, from a file that can be read or not.  (A
\* Prometheus left behind is not followed further.)
Restart ==
  /\ ~Serving
  /\ Forget
  /\ main' = "serving" /\ early' = FALSE
  /\ step' = "read" /\ scraped' = {} /\ PID' = 0
  /\ file' = IF file = P!Torn THEN P!Torn ELSE P!Earlier

-----------------------------------------------------------------------------

Environment ==
  \/ \E r \in Relays : RegisterRelay(r) \/ Heartbeat(r) \/ Expire(r)
  \/ \E c \in Clients : RegisterClient(c)

StartProtocol ==
  /\ Serving
  /\ \/ Poll
     \/ \E r \in Relays : ReadRelay(r)
     \/ RelaysRead
     \/ \E c \in Clients : ReadClient(c)
     \/ ClientsRead
     \/ GetCheckpoints
     \/ RestartPrometheus
     \/ PrometheusFails
     \/ SignalNodes
     \/ Return

Post(n) == \E accepted \in BOOLEAN : PostStart(n, accepted)

Next ==
  \/ Environment \/ StartProtocol \/ \E n \in posting : Post(n)
  \/ Quit \/ Shutdown \/ Exit \/ Restart

\* StartProtocol's goroutine and those it starts are scheduled, main is once it is
\* to stop, and a POST comes to an end.
Fairness == /\ WF_vars(StartProtocol)
            /\ WF_vars(pc = "failed" /\ Quit) /\ WF_vars(Shutdown) /\ WF_vars(Exit)
            /\ \A r \in Relays : WF_vars(Post(Relay(r)))
            /\ \A c \in Clients : WF_vars(Post(Client(c)))

Spec == Init /\ [][Next]_vars

FairSpec == Spec /\ Fairness

-----------------------------------------------------------------------------

Stages == {"poll", "relays", "clients", "checkpoints", "prometheus", "wait",
           "returned", "failed", "crashed"}

\* Every variable has its type.
TypeOK ==
  /\ view \in [Relays -> {"absent", "active", "stale"}]
  /\ registered \subseteq Clients
  /\ pc \in Stages
  /\ unread \subseteq Relays \union Clients
  /\ activeNodes \subseteq Relays
  /\ activeClients \subseteq Clients
  /\ pc \in {"prometheus", "wait", "returned"} =>
       checkpoints \in [activeClients -> [1 .. expectedToSend -> Paths]]
  /\ wg \in Int
  /\ posting \union started \subseteq
       {Relay(r) : r \in Relays} \union {Client(c) : c \in Clients}
  /\ main \in {"serving", "stopping", "stopped", "exited"}
  /\ early \in BOOLEAN
  /\ step \in {"read", "open", "write", "stop", "start", "done", "error", "exit"}
  /\ file.holds \in {"nothing", "yaml"}
  /\ file.targets \subseteq {Relay(r) : r \in Relays} \union {Client(c) : c \in Clients}
  /\ PID \in {0, 1}

\* While signalNodesToStart waits, the counter stands for the clients still to
\* be answered and for every relay, answered or not: it is never below zero
\* under the clients' wg.Done, and never zero unless no relay was found active.
WaitGroupCounts ==
  pc = "wait" =>
    wg = Cardinality(activeNodes) + Cardinality({c \in activeClients : Client(c) \in posting})

\* The clients allNodesReady counted are among those the second look at the map
\* finds, for clients do not go away (see EnoughRelays for the relays).
EnoughClients ==
  /\ pc = "relays" => Cardinality(registered) >= MinClients
  /\ pc = "clients" => Cardinality(activeClients \union unread) >= MinClients
  /\ pc \in {"checkpoints", "prometheus", "wait", "returned"} =>
       Cardinality(activeClients) >= MinClients

\* RestartPrometheus is begun once in a life of the board, with checkpoints made,
\* and leaves the file torn only between OpenFile and the end of Write.
PrometheusInStep ==
  \/ main = "exited"
  \/ /\ pc \in {"poll", "relays", "clients", "checkpoints"} => step = "read"
     /\ pc \in {"wait", "returned"} => step = "done"
     /\ step = "read" => file \in {P!Earlier, P!Torn}
     /\ step = "open" => file = P!Earlier
     /\ step = "write" => file = P!Torn
     /\ step \in {"stop", "start", "done"} => file = P!Listing(Signalled)

\* The board knows the PID of the Prometheus it has, which it has from the last
\* step of RestartPrometheus to Shutdown: but whose turn comes first is open.
PrometheusKnown ==
  /\ scraped # {} <=> PID # 0
  /\ scraped # {} => step = "done" /\ scraped = {file}
  /\ step = "done" /\ (main \in {"serving", "stopping"} \/ early) => scraped # {}
  /\ main \in {"stopped", "exited"} /\ ~early => step = "done" /\ scraped = {}

\* Only nodes found active are told to start, and not before Prometheus runs.
SignalsLast ==
  /\ posting \union started \subseteq Signalled
  /\ posting \union started # {} =>
       /\ step = "done" /\ pc \in {"wait", "returned", "crashed"}
       /\ main # "exited"

IInv ==
  /\ TypeOK /\ WaitGroupCounts /\ EnoughClients
  /\ PrometheusInStep /\ PrometheusKnown /\ SignalsLast

\* The signals are computed and about to go out.
Signalling == pc \in {"prometheus", "wait", "returned"}

\* What clients and relays are told fits together, though the views change all
\* along: a checkpoint path only leads over relays that are signalled, whose
\* keys the client is given, and all nonces of all layers are told to one relay
\* each, the receiver of the layer.
SignalsAgree ==
  Signalling =>
    /\ \A h \in Hops : checkpoints[h[1]][h[2]][h[3]] \in clientStartSignal(h[1]).Relays
    /\ \A h \in Hops : \E r \in activeNodes :
         [Nonce |-> NonceOf(h[1], h[2], h[3]), Layer |-> h[3]] \in nodeStartSignal(r)
    /\ \A r, q \in activeNodes : r # q => nodeStartSignal(r) \intersect nodeStartSignal(q) = {}

\* README.md:78: x is the number of onions a relay processes per round.  Each
\* client sends its checkpoint onions and a message.  All clients together, if they
\* all send as many as any one of them, send in a layer at most x per relay, and fall
\* short of that by less than one for each client, for rounding down.  A client
\* always sends its message, be x as small as it may.
LoadBound ==
  Signalling =>
    LET load == Cardinality(activeNodes) * ServerLoad
        clients == Cardinality(activeClients)
        share(c) == 1 + Len(clientStartSignal(c).CheckpointOnions)
    IN \A c \in activeClients :
         IF load >= clients
         THEN load - clients < clients * share(c) /\ clients * share(c) <= load
         ELSE share(c) = 1

\* A run never begins with a part of its nodes, or unobserved, because of the
\* board: if it fails, none has been told to start, and if any has, Prometheus was
\* started on a whole file that lists all of them.  It runs until Shutdown.
FailureSignalsNobody ==
  /\ pc = "failed" => posting = {} /\ started = {}
  /\ posting \union started # {} =>
       /\ file = P!Listing(Signalled)
       /\ scraped = {file} \/ (scraped = {} /\ main \notin {"serving", "stopping"})

\* The board as the nodes see it.  To them the stages of StartProtocol up to
\* GetCheckpoints are one, and nothing that a board has said or meant to say
\* outlives its process.
Phase ==
  CASE pc = "prometheus" -> "decided"
    [] pc \in {"wait", "returned"} -> "begun"
    [] pc = "failed" -> "failed"
    [] OTHER -> "idle"

Decision ==
  IF Signalling
  THEN [relays |-> activeNodes, clients |-> activeClients,
        number |-> expectedToSend, checkpoints |-> checkpoints]
  ELSE [relays |-> {}, clients |-> {}, number |-> 0, checkpoints |-> <<>>]

Due == IF Signalling THEN posting ELSE {}

startSignal(n) == IF n[1] = "relay" THEN nodeStartSignal(n[2]) ELSE clientStartSignal(n[2])

Heard == IF Signalling THEN {<<n, startSignal(n)>> : n \in started} ELSE {}

S == INSTANCE RunStart WITH Load <- ServerLoad, phase <- Phase, run <- Decision,
                            due <- Due, told <- Heard

\* However the lists change while it reads them, whatever becomes of Prometheus and
\* whenever main stops the process: StartProtocol decides once for all nodes, on a
\* load they can bear, tells each its part of that decision at most once, and
\* nobody of a start that fails.
ImplementsRunStart == S!Spec

\* main runs beside StartProtocol.  A board that ends has left its Prometheus behind
\* just if Shutdown found RestartPrometheus unfinished and StartPrometheus ran after
\* it, before main returned: there is no other way to lose the process, and no way to
\* save it then, for main does not look for a PID again.
LeftBehindIfOvertaken == main = "exited" => (scraped # {} <=> early /\ step = "done")

\* When the nodes are ready and remain so, every node found active gets its
\* POST, unless the board fails or is told to stop before that.
ReadyNodesGetSignals ==
  <>[](Cardinality(Active) >= MinRelays /\ Cardinality(registered) >= MinClients) =>
    <>(pc \in {"failed", "crashed"} \/ main # "serving" \/ (pc \in {"wait", "returned"} /\ posting = {}))

-----------------------------------------------------------------------------
(* What the comments and documents say and the code does not do            *)

\* bulletin_board.go:96: StartProtocol "periodically checks if all nodes are
\* ready and, if so, signals them": a run starts with the minimum of relays.
EnoughRelays == Signalling => Cardinality(activeNodes) >= MinRelays

\* bulletin_board.go:106: "If successful, exit the loop": once all the POSTs
\* have ended, signalNodesToStart returns.
SignallingEnds == pc = "wait" ~> (pc = "returned" \/ main # "serving")
=============================================================================
