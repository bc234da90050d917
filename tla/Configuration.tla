----------------------------- MODULE Configuration -----------------------------
(***************************************************************************)
(* The configuration (config.go): each process reads it from a file when   *)
(* it begins, the bulletin board changes its own at POST /updateConfig, at *)
(* any moment, and the start signals carry the board's to the nodes, where *)
(* UpdateConfig merges it into theirs.  What depends on it is modelled as  *)
(* far as it does: the lengths of the checkpoint paths that GetCheckpoints *)
(* generates (calculateCheckpoints.go), the relays' expectedNonces         *)
(* (relay.go) and the onions the clients form (client.go, sepal.go).       *)
(*                                                                         *)
(* One checkpoint onion per client stands for them all.  Only L1, L2 and D *)
(* are kept: no other field can make two parties of a run disagree.        *)
(***************************************************************************)
EXTENDS Integers

CONSTANTS
  Relays,       \* relay IDs
  NumClients,   \* the board's list of clients is 1 .. NumClients
  Deployments,  \* the files the processes of a deployment find, see Deployment
  Updates,      \* what is posted to /updateConfig; a field it lacks is 0
  Draws,        \* ways the calls of RandomElement may turn out, and for each
  Receiver(_, _, _)  \* the relay it draws for client c's path at layer k

Clients == 1 .. NumClients

Config == [L1 : Nat, L2 : Nat, D : Nat]

Deployment == [board : Config, relay : [Relays -> Config], client : [Clients -> Config]]

ASSUME ConfigurationAssumption ==
  /\ NumClients \in Nat
  /\ \A d \in Deployments : d \in Deployment
  /\ \A u \in Updates : u \in Config

VARIABLES
  file,     \* what InitGlobal read: the deployment
  config,   \* globalConfig of every process
  pending,  \* goroutines of HandleUpdateConfig
  pc,       \* the board: "poll", then the next read, "L1" or "L2", "signalled"
  turn,     \* GetCheckpoints: the client whose path is generated
  l1,       \* GetCheckpoints: the value of GetL1() in the loop's condition
  draw,     \* how RandomElement turns out
  length,   \* GetCheckpoints: the length of each client's path so far
  signal,   \* cfg, as all start signals carry it
  torn,     \* history: UpdateConfig ran between Poll and GetConfig
  phase     \* each node: "waiting" for its start signal, "running" or "dead"

vars == <<file, draw, config, pending, pc, turn, l1, length, signal, torn, phase>>

board == <<pc, turn, l1, length, signal>>

Sum(cfg) == cfg.L1 + cfg.L2

NoConfig == [L1 |-> 0, L2 |-> 0, D |-> 0]

Init ==
  /\ file \in Deployments
  /\ config = file
  /\ pending = {}
  /\ pc = "poll" /\ turn = 1 /\ l1 = 0
  /\ length = [c \in Clients |-> 0]
  /\ draw \in Draws
  /\ signal = NoConfig
  /\ torn = FALSE
  /\ phase = [relay |-> [r \in Relays |-> "waiting"],
              client |-> [c \in Clients |-> "waiting"]]

-----------------------------------------------------------------------------
(* The board                                                               *)

MergedButL2(old, new) ==
  [f \in DOMAIN old |-> IF f # "L2" /\ new[f] # 0 THEN new[f] ELSE old[f]]

\* UpdateConfig takes a field over unless it is 0, under a lock of its own.
Merged(old, new) == [f \in DOMAIN old |-> IF new[f] # 0 THEN new[f] ELSE old[f]]

\* The request is answered, and UpdateConfig is left to a goroutine.  Bound: no
\* request after the signals, which are the only ones StartProtocol sends.
HandleUpdateConfig(u) ==
  /\ pc # "signalled"
  /\ pending' = pending \union {u}
  /\ UNCHANGED <<file, draw, config, board, torn, phase>>

\* Goroutines get the lock in any order, not that of their requests.
UpdateConfig(u) ==
  /\ u \in pending
  /\ pending' = pending \ {u}
  /\ config' = [config EXCEPT !.board = Merged(@, u)]
  /\ torn' = (torn \/ pc \in {"L1", "L2"})
  /\ UNCHANGED <<file, draw, board, phase>>

\* The nodes are ready: signalNodesToStart calls GetCheckpoints.
Poll ==
  /\ pc = "poll"
  /\ pc' = "L1"
  /\ UNCHANGED <<file, draw, config, pending, turn, l1, length, signal, torn, phase>>

\* j < config.GetL1() + config.GetL2(), before each hop: two reads, with a lock each.
GetL1 ==
  /\ pc = "L1" /\ turn \in Clients
  /\ l1' = config.board.L1
  /\ pc' = "L2"
  /\ UNCHANGED <<file, draw, config, pending, turn, length, signal, torn, phase>>

HopOneMore ==
  /\ pc = "L2" /\ length[turn] <= l1 + config.board.L2
  /\ length' = [length EXCEPT ![turn] = @ + 1]
  /\ pc' = "L1"
  /\ UNCHANGED <<file, draw, config, pending, turn, l1, signal, torn, phase>>

Hop ==
  /\ pc = "L2" /\ length[turn] < l1 + config.board.L2
  /\ length' = [length EXCEPT ![turn] = @ + 1]
  /\ pc' = "L1"
  /\ UNCHANGED <<file, draw, config, pending, turn, l1, signal, torn, phase>>

PathEndsAtEquality ==
  /\ pc = "L2" /\ length[turn] = l1 + config.board.L2
  /\ turn' = turn + 1
  /\ pc' = "L1"
  /\ UNCHANGED <<file, draw, config, pending, l1, length, signal, torn, phase>>

PathEnds ==
  /\ pc = "L2" /\ length[turn] >= l1 + config.board.L2
  /\ turn' = turn + 1
  /\ pc' = "L1"
  /\ UNCHANGED <<file, draw, config, pending, l1, length, signal, torn, phase>>

\* All paths are generated: the configuration is read again, for the signals.
GetConfig ==
  /\ pc = "L1" /\ turn \notin Clients
  /\ signal' = config.board
  /\ pc' = "signalled"
  /\ UNCHANGED <<file, draw, config, pending, turn, l1, length, torn, phase>>

-----------------------------------------------------------------------------
(* The nodes.  A start signal is delivered once, at any time, or never.    *)

\* The checkpoints of relay r's signal: <<c, k>> for layer k of client c's path.
Hops(r) == {h \in UNION {{c} \X (1 .. length[c]) : c \in Clients} : Receiver(draw, h[1], h[2]) = r}

RoomWithoutRecipient(r) == Sum(file.relay[r]) - 1

\* NewRelay makes expectedNonces for layers 0 .. L1 + L2 of the relay's file.
Room(r) == Sum(file.relay[r])

OverflowsLate(r) == \E h \in Hops(r) : h[2] > Room(r) + 1

\* Recording them, the index runs past the end.
Overflows(r) == \E h \in Hops(r) : h[2] > Room(r)

\* Relay.startRun: a panic ends the process, for this is a goroutine of its
\* own.  (What Receive does in the instant between the deferred wg.Done and the
\* end of the process is not followed.)
RelayStarts(r) ==
  /\ pc = "signalled" /\ phase.relay[r] = "waiting"
  /\ config' = [config EXCEPT !.relay[r] = Merged(@, signal)]
  /\ phase' = [phase EXCEPT !.relay[r] = IF Overflows(r) THEN "dead" ELSE "running"]
  /\ UNCHANGED <<file, draw, pending, board, torn>>

\* D key blocks must fit into L1 + 1 columns, or the slices of null blocks are too short.
FormSepalsPanics(cfg) == cfg.D > cfg.L1 + 1

\* So do processMessage, which sends to the first mixer (o[0][0], mixersAddr[0]), if
\* there is none, and processCheckpoint if L1 mixers cannot be split off the board's path.
CannotForm(cfg, c) == cfg.L1 = 0 \/ FormSepalsPanics(cfg) \/ cfg.L1 > length[c]

\* Client.startRun forms all onions before it sends the first, and panics in
\* goroutines of their own end the process.
ClientStarts(c) ==
  /\ pc = "signalled" /\ phase.client[c] = "waiting"
  /\ config' = [config EXCEPT !.client[c] = Merged(@, signal)]
  /\ phase' = [phase EXCEPT !.client[c] =
                 IF CannotForm(config'.client[c], c) THEN "dead" ELSE "running"]
  /\ UNCHANGED <<file, draw, pending, board, torn>>

signalNodesToStart == GetL1 \/ Hop \/ PathEnds \/ GetConfig

Next ==
  \/ \E u \in Updates : HandleUpdateConfig(u) \/ UpdateConfig(u)
  \/ Poll \/ signalNodesToStart
  \/ \E r \in Relays : RelayStarts(r)
  \/ \E c \in Clients : ClientStarts(c)

Spec == Init /\ [][Next]_vars

\* The board's goroutine is scheduled, and so are those of UpdateConfig.
\* Updates may be posted for ever.
Fairness == WF_vars(signalNodesToStart) /\ \A u \in Updates : WF_vars(UpdateConfig(u))

FairSpec == Spec /\ Fairness

-----------------------------------------------------------------------------
(* Types and the inductive invariant                                       *)

Phases == {"waiting", "running", "dead"}

\* Every variable has its type.
TypeOK ==
  /\ file \in Deployments
  /\ config \in Deployment
  /\ pending \subseteq Updates
  /\ pc \in {"poll", "L1", "L2", "signalled"}
  /\ turn \in 1 .. NumClients + 1
  /\ pc = "L2" => turn \in Clients
  /\ l1 \in Nat
  /\ length \in [Clients -> Nat]
  /\ draw \in Draws
  /\ signal \in Config
  /\ torn \in BOOLEAN
  /\ phase \in [relay : [Relays -> Phases], client : [Clients -> Phases]]

\* As long as no update interferes, what GetCheckpoints has read, and so the
\* paths it has finished and the one it is working on, fit the configuration.
PathsFitSoFar ==
  ~torn =>
    /\ pc = "L2" => l1 = config.board.L1
    /\ pc \in {"L1", "L2"} =>
         /\ \A c \in Clients : c < turn => length[c] = Sum(config.board)
         /\ turn \in Clients => length[turn] <= Sum(config.board)
    /\ pc = "signalled" => \A c \in Clients : length[c] = Sum(signal)

\* A path is begun after the one before it has ended.
PathsInOrder ==
  /\ \A c \in Clients : c > turn \/ pc = "poll" => length[c] = 0
  /\ pc = "poll" => turn = 1
  /\ pc = "signalled" => turn = NumClients + 1

\* A node has the configuration of its file until it starts, and from then on
\* the signal's, where that says something.
OwnConfigs ==
  /\ \A r \in Relays :
       config.relay[r] = IF phase.relay[r] = "waiting" THEN file.relay[r]
                         ELSE Merged(file.relay[r], signal)
  /\ \A c \in Clients :
       config.client[c] = IF phase.client[c] = "waiting" THEN file.client[c]
                          ELSE Merged(file.client[c], signal)

\* A node starts only when the signals are final.
StartedLast ==
  pc # "signalled" =>
    /\ \A r \in Relays : phase.relay[r] = "waiting"
    /\ \A c \in Clients : phase.client[c] = "waiting"

\* A node goes on running just when it can do what the run asks of it: a relay
\* has room for each nonce announced to it, and a client has a first mixer, room for
\* its key blocks, and checkpoint paths no shorter than its mixers.
RunningCan ==
  /\ \A r \in Relays :
       /\ phase.relay[r] = "running" => \A h \in Hops(r) : h[2] <= Sum(file.relay[r])
       /\ phase.relay[r] = "dead" => \E h \in Hops(r) : h[2] > Sum(file.relay[r])
  /\ \A c \in Clients :
       LET cfg == config.client[c]
       IN /\ phase.client[c] = "running" =>
               cfg.L1 > 0 /\ cfg.D <= cfg.L1 + 1 /\ cfg.L1 <= length[c]
          /\ phase.client[c] = "dead" =>
               cfg.L1 = 0 \/ cfg.D > cfg.L1 + 1 \/ cfg.L1 > length[c]

IInv == TypeOK /\ PathsFitSoFar /\ PathsInOrder /\ OwnConfigs /\ StartedLast /\ RunningCan

-----------------------------------------------------------------------------
(* Safety                                                                  *)

\* calculateCheckpoints.go:27: a path "includes L1 mixers and L2 gatekeepers",
\* those of the configuration that goes with it, though the loop reads them anew
\* for each hop: unless an update arrives among these reads.
PathsFitSignal ==
  pc = "signalled" /\ ~torn => \A c \in Clients : length[c] = Sum(signal)

\* What brings a node down at its start, if no update came among the board's reads: a
\* relay, only a run longer than it was made for; a client, only that neither its
\* file nor the signal gives it a mixer, a threshold too high for its mixers, or more
\* mixers than the board's paths have layers.  So if all files are the same and
\* sound, nothing does unless an update came first.
FallsExplained ==
  ~torn =>
    /\ \A r \in Relays : phase.relay[r] = "dead" => Sum(signal) > Sum(file.relay[r])
    /\ \A c \in Clients : phase.client[c] = "dead" =>
         LET own == Merged(file.client[c], signal)
         IN \/ signal.L1 = 0 /\ file.client[c].L1 = 0
            \/ own.D > own.L1 + 1
            \/ own.L1 > Sum(signal)

\* When an onion that carries a message is as long as a checkpoint onion, so that
\* its length does not tell them apart: DetermineRoutingPath takes L1 and L2 from the
\* client's configuration, the checkpoint's path comes from the board.  If no update
\* came among the board's reads, they differ just where UpdateConfig takes a 0 of the
\* signal for absent and the client's own file says something else.
MessagesLookAlike ==
  \A c \in Clients :
    phase.client[c] = "running" /\ ~torn =>
      (Sum(config.client[c]) = length[c]
         <=> \A f \in {"L1", "L2"} : signal[f] = 0 => file.client[c][f] = 0)

-----------------------------------------------------------------------------
(* Liveness                                                                *)

\* However often the configuration is updated meanwhile, GetCheckpoints comes to
\* an end and the signals go out.
SignalsGoOut == pc = "L1" ~> pc = "signalled"

-----------------------------------------------------------------------------
(* What the documents say and the code does not do                         *)

\* README.md:567: /updateConfig updates the "config with new parameters (for next
\* run)": that run starts with the relays there are.
RelaysSurviveUpdate ==
  ~torn => \A r \in Relays : phase.relay[r] # "dead"
=============================================================================
