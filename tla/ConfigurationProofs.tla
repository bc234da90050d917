-------------------------- MODULE ConfigurationProofs --------------------------
(***************************************************************************)
(* Proofs about module Configuration, for any relays, clients and files,   *)
(* any updates, however often they are posted, and any choice of receivers.*)
(***************************************************************************)
EXTENDS Configuration, TLAPS

LEMMA MergedType ==
  ASSUME NEW old \in Config, NEW new \in Config
  PROVE  /\ Merged(old, new) \in Config
         /\ Merged(old, new).L1 = IF new.L1 # 0 THEN new.L1 ELSE old.L1
         /\ Merged(old, new).L2 = IF new.L2 # 0 THEN new.L2 ELSE old.L2
         /\ Merged(old, new).D = IF new.D # 0 THEN new.D ELSE old.D
BY DEF Merged, Config

LEMMA SumType ==
  ASSUME NEW cfg \in Config PROVE Sum(cfg) \in Nat
BY DEF Sum, Config

LEMMA HopsType ==
  ASSUME TypeOK, NEW r \in Relays, NEW h \in Hops(r)
  PROVE  \E c \in Clients : h[2] \in 1 .. length[c]
BY DEF Hops, TypeOK

\* What the deployments and the start signal are made of.
LEMMA FileTypes ==
  ASSUME TypeOK
  PROVE  /\ file \in Deployment
         /\ \A r \in Relays : file.relay[r] \in Config /\ config.relay[r] \in Config
         /\ \A c \in Clients : file.client[c] \in Config /\ config.client[c] \in Config
         /\ config.board \in Config
<1>1. file \in Deployment
  BY ConfigurationAssumption DEF TypeOK
<1>2. config \in Deployment
  BY DEF TypeOK
<1> QED
  BY <1>1, <1>2 DEF Deployment

LEMMA InitInv == Init => IInv
<1> SUFFICES ASSUME Init PROVE IInv
  OBVIOUS
<1>0. NumClients \in Nat
  BY ConfigurationAssumption
<1>1. TypeOK
  <2>1. config \in Deployment
    BY ConfigurationAssumption DEF Init
  <2>2. signal \in Config
    BY DEF Init, NoConfig, Config
  <2>3. phase \in [relay : [Relays -> Phases], client : [Clients -> Phases]]
    BY DEF Init, Phases
  <2>4. turn \in 1 .. NumClients + 1
    BY <1>0 DEF Init
  <2> QED
    BY <2>1, <2>2, <2>3, <2>4 DEF Init, TypeOK
<1>2. PathsFitSoFar /\ PathsInOrder /\ StartedLast
  BY DEF Init, PathsFitSoFar, PathsInOrder, StartedLast
<1>3. OwnConfigs
  BY DEF Init, OwnConfigs
<1>4. RunningCan
  BY DEF Init, RunningCan
<1> QED
  BY <1>1, <1>2, <1>3, <1>4 DEF IInv

LEMMA HandleUpdateConfigInv ==
  ASSUME IInv, NEW u \in Updates, HandleUpdateConfig(u)
  PROVE  IInv'
<1> USE DEF HandleUpdateConfig, board
<1>1. TypeOK'
  BY DEF IInv, TypeOK
<1>2. PathsFitSoFar' /\ PathsInOrder' /\ StartedLast' /\ OwnConfigs'
  BY DEF IInv, PathsFitSoFar, PathsInOrder, StartedLast, OwnConfigs
<1>3. RunningCan'
  BY DEF IInv, RunningCan, Hops
<1> QED
  BY <1>1, <1>2, <1>3 DEF IInv

\* Only the board's configuration changes.
LEMMA UpdateConfigInv ==
  ASSUME IInv, NEW u \in Updates, UpdateConfig(u)
  PROVE  IInv'
<1> USE DEF UpdateConfig, board
<1>1. u \in Config /\ config \in Deployment
  BY ConfigurationAssumption DEF IInv, TypeOK
<1>2. Merged(config.board, u) \in Config
  BY <1>1, MergedType DEF Deployment
<1>3. /\ config' \in Deployment
      /\ config'.relay = config.relay /\ config'.client = config.client
  BY <1>1, <1>2 DEF Deployment
<1>4. TypeOK'
  BY <1>3 DEF IInv, TypeOK
<1>5. PathsFitSoFar'
  BY DEF IInv, TypeOK, PathsFitSoFar
<1>6. PathsInOrder' /\ StartedLast'
  BY DEF IInv, PathsInOrder, StartedLast
<1>7. OwnConfigs'
  BY <1>3 DEF IInv, OwnConfigs
<1>8. RunningCan'
  BY <1>3 DEF IInv, RunningCan, Hops
<1> QED
  BY <1>4, <1>5, <1>6, <1>7, <1>8 DEF IInv

\* The board's own steps leave files, configurations and phases alone, and no
\* node has started.
LEMMA BoardInv ==
  ASSUME IInv, pc # "signalled", UNCHANGED <<file, draw, config, pending, torn, phase>>,
         TypeOK', PathsFitSoFar', PathsInOrder'
  PROVE  IInv'
<1>1. /\ \A r \in Relays : phase.relay[r] = "waiting"
      /\ \A c \in Clients : phase.client[c] = "waiting"
  BY DEF IInv, StartedLast
<1>2. OwnConfigs' /\ StartedLast' /\ RunningCan'
  BY <1>1 DEF IInv, OwnConfigs, StartedLast, RunningCan
<1> QED
  BY <1>2 DEF IInv

LEMMA PollInv ==
  ASSUME IInv, Poll
  PROVE  IInv'
<1>1. NumClients \in Nat /\ Sum(config.board) \in Nat
  BY ConfigurationAssumption, FileTypes, SumType DEF IInv
<1>2. TypeOK'
  BY DEF Poll, IInv, TypeOK
<1>3. PathsFitSoFar'
  BY <1>1 DEF Poll, IInv, TypeOK, PathsFitSoFar, PathsInOrder, Clients
<1>4. PathsInOrder'
  BY DEF Poll, IInv, PathsInOrder
<1> QED
  BY <1>2, <1>3, <1>4, BoardInv DEF Poll

LEMMA GetL1Inv ==
  ASSUME IInv, GetL1
  PROVE  IInv'
<1>1. config.board.L1 \in Nat
  BY FileTypes DEF IInv, Config
<1>2. TypeOK'
  BY <1>1 DEF GetL1, IInv, TypeOK
<1>3. PathsFitSoFar'
  BY DEF GetL1, IInv, PathsFitSoFar
<1>4. PathsInOrder'
  BY DEF GetL1, IInv, PathsInOrder
<1> QED
  BY <1>2, <1>3, <1>4, BoardInv DEF GetL1

LEMMA HopInv ==
  ASSUME IInv, Hop
  PROVE  IInv'
<1>1. /\ turn \in Clients /\ length \in [Clients -> Nat]
      /\ Clients \subseteq Nat
      /\ l1 \in Nat /\ config.board.L1 \in Nat /\ config.board.L2 \in Nat
  BY FileTypes DEF Hop, IInv, TypeOK, Config, Clients
<1>2. length' \in [Clients -> Nat] /\ turn' = turn
  BY <1>1 DEF Hop
<1>3. /\ length'[turn] = length[turn] + 1
      /\ \A c \in Clients : c # turn => length'[c] = length[c]
  BY <1>1 DEF Hop
<1>4. TypeOK'
  BY <1>2 DEF Hop, IInv, TypeOK
<1>5. PathsFitSoFar'
  <2> SUFFICES ASSUME ~torn'
               PROVE  /\ \A c \in Clients : c < turn => length'[c] = Sum(config.board)
                      /\ length'[turn] <= Sum(config.board)
    BY DEF Hop, PathsFitSoFar, Sum
  <2>1. ~torn /\ l1 = config.board.L1 /\ length[turn] < l1 + config.board.L2
    BY DEF Hop, IInv, PathsFitSoFar
  <2>2. \A c \in Clients : c < turn => length[c] = Sum(config.board)
    BY <2>1 DEF Hop, IInv, PathsFitSoFar
  <2> QED
    BY <1>1, <1>3, <2>1, <2>2 DEF Sum
<1>6. PathsInOrder'
  BY <1>1, <1>3 DEF Hop, IInv, PathsInOrder
<1> QED
  BY <1>4, <1>5, <1>6, BoardInv DEF Hop

LEMMA PathEndsInv ==
  ASSUME IInv, PathEnds
  PROVE  IInv'
<1>1. /\ turn \in Clients /\ length \in [Clients -> Nat] /\ NumClients \in Nat
      /\ l1 \in Nat /\ config.board.L1 \in Nat /\ config.board.L2 \in Nat
  BY FileTypes, ConfigurationAssumption DEF PathEnds, IInv, TypeOK, Config
<1>2. turn' = turn + 1 /\ turn' \in 1 .. NumClients + 1
  BY <1>1 DEF PathEnds, Clients
<1>3. TypeOK'
  BY <1>2 DEF PathEnds, IInv, TypeOK
<1>4. PathsFitSoFar'
  <2> SUFFICES ASSUME ~torn'
               PROVE  /\ \A c \in Clients : c < turn + 1 => length[c] = Sum(config.board)
                      /\ turn + 1 \in Clients => length[turn + 1] <= Sum(config.board)
    BY <1>2 DEF PathEnds, PathsFitSoFar, Sum
  <2>1. ~torn /\ l1 = config.board.L1 /\ length[turn] >= l1 + config.board.L2
    BY DEF PathEnds, IInv, PathsFitSoFar
  <2>2. /\ \A c \in Clients : c < turn => length[c] = Sum(config.board)
        /\ length[turn] <= Sum(config.board)
    BY <1>1, <2>1 DEF PathEnds, IInv, PathsFitSoFar
  <2>3. length[turn] = Sum(config.board)
    BY <1>1, <2>1, <2>2 DEF Sum
  <2>4. turn + 1 \in Clients => length[turn + 1] = 0
    BY <1>1 DEF IInv, PathsInOrder, Clients
  <2> QED
    BY <1>1, <2>2, <2>3, <2>4 DEF Sum, Clients
<1>5. PathsInOrder'
  BY <1>1, <1>2 DEF PathEnds, IInv, PathsInOrder, Clients
<1> QED
  BY <1>3, <1>4, <1>5, BoardInv DEF PathEnds

LEMMA GetConfigInv ==
  ASSUME IInv, GetConfig
  PROVE  IInv'
<1>1. config.board \in Config /\ NumClients \in Nat
  BY FileTypes, ConfigurationAssumption DEF IInv
<1>2. turn = NumClients + 1
  BY <1>1 DEF GetConfig, IInv, TypeOK, Clients
<1>3. TypeOK'
  BY <1>1 DEF GetConfig, IInv, TypeOK
<1>4. PathsFitSoFar'
  BY <1>1, <1>2 DEF GetConfig, IInv, PathsFitSoFar, Clients
<1>5. PathsInOrder'
  BY <1>2 DEF GetConfig, IInv, PathsInOrder
<1> QED
  BY <1>3, <1>4, <1>5, BoardInv DEF GetConfig

LEMMA RelayStartsInv ==
  ASSUME IInv, NEW r \in Relays, RelayStarts(r)
  PROVE  IInv'
<1> USE DEF RelayStarts, board
<1>1. /\ config \in Deployment /\ signal \in Config
      /\ config.relay[r] \in Config /\ file.relay[r] \in Config
      /\ phase \in [relay : [Relays -> Phases], client : [Clients -> Phases]]
  BY FileTypes DEF IInv, TypeOK
<1>2. Merged(config.relay[r], signal) \in Config /\ config.relay[r] = file.relay[r]
  BY <1>1, MergedType DEF IInv, OwnConfigs
<1>3. /\ config' \in Deployment /\ config'.client = config.client
      /\ config'.board = config.board
      /\ config'.relay[r] = Merged(file.relay[r], signal)
      /\ \A q \in Relays : q # r => config'.relay[q] = config.relay[q]
  BY <1>1, <1>2 DEF Deployment
<1>4. /\ phase' \in [relay : [Relays -> Phases], client : [Clients -> Phases]]
      /\ phase'.client = phase.client
      /\ phase'.relay[r] = IF Overflows(r) THEN "dead" ELSE "running"
      /\ \A q \in Relays : q # r => phase'.relay[q] = phase.relay[q]
  BY <1>1 DEF Phases
<1>5. TypeOK'
  BY <1>3, <1>4 DEF IInv, TypeOK
<1>6. PathsFitSoFar' /\ PathsInOrder' /\ StartedLast'
  BY <1>3 DEF IInv, PathsFitSoFar, PathsInOrder, StartedLast
<1>7. OwnConfigs'
  BY <1>3, <1>4 DEF IInv, OwnConfigs
<1>8. Hops(r)' = Hops(r) /\ \A q \in Relays : Hops(q)' = Hops(q)
  BY DEF Hops
<1>9. \A h \in Hops(r) : h[2] > Sum(file.relay[r]) \/ h[2] <= Sum(file.relay[r])
  BY <1>1, HopsType, SumType DEF IInv, TypeOK
<1>10. RunningCan'
  <2>1. ASSUME NEW q \in Relays
        PROVE  /\ phase'.relay[q] = "running" => \A h \in Hops(q) : h[2] <= Sum(file.relay[q])
               /\ phase'.relay[q] = "dead" => \E h \in Hops(q) : h[2] > Sum(file.relay[q])
    <3>1. CASE q # r
      BY <3>1, <1>4 DEF IInv, RunningCan
    <3>2. CASE q = r
      BY <3>2, <1>4, <1>9 DEF Overflows, Room
    <3> QED
      BY <3>1, <3>2
  <2> QED
    BY <2>1, <1>3, <1>4, <1>8 DEF IInv, RunningCan
<1> QED
  BY <1>5, <1>6, <1>7, <1>10 DEF IInv

LEMMA ClientStartsInv ==
  ASSUME IInv, NEW c \in Clients, ClientStarts(c)
  PROVE  IInv'
<1> USE DEF ClientStarts, board
<1>1. /\ config \in Deployment /\ signal \in Config
      /\ config.client[c] \in Config /\ file.client[c] \in Config
      /\ phase \in [relay : [Relays -> Phases], client : [Clients -> Phases]]
      /\ length[c] \in Nat
  BY FileTypes DEF IInv, TypeOK
<1>2. Merged(config.client[c], signal) \in Config /\ config.client[c] = file.client[c]
  BY <1>1, MergedType DEF IInv, OwnConfigs
<1>3. /\ config' \in Deployment /\ config'.relay = config.relay
      /\ config'.board = config.board
      /\ config'.client[c] = Merged(file.client[c], signal)
      /\ \A d \in Clients : d # c => config'.client[d] = config.client[d]
  BY <1>1, <1>2 DEF Deployment
<1>4. /\ phase' \in [relay : [Relays -> Phases], client : [Clients -> Phases]]
      /\ phase'.relay = phase.relay
      /\ phase'.client[c] = IF CannotForm(config'.client[c], c) THEN "dead" ELSE "running"
      /\ \A d \in Clients : d # c => phase'.client[d] = phase.client[d]
  BY <1>1 DEF Phases
<1>5. TypeOK'
  BY <1>3, <1>4 DEF IInv, TypeOK
<1>6. PathsFitSoFar' /\ PathsInOrder' /\ StartedLast'
  BY <1>3 DEF IInv, PathsFitSoFar, PathsInOrder, StartedLast
<1>7. OwnConfigs'
  BY <1>3, <1>4 DEF IInv, OwnConfigs
<1>8. \A q \in Relays : Hops(q)' = Hops(q)
  BY DEF Hops
<1>9. config'.client[c].D \in Nat /\ config'.client[c].L1 \in Nat
  BY <1>2, <1>3 DEF Config
<1>10. RunningCan'
  <2>1. ASSUME NEW d \in Clients
        PROVE  LET cfg == config'.client[d]
               IN /\ phase'.client[d] = "running" =>
                       cfg.L1 > 0 /\ cfg.D <= cfg.L1 + 1 /\ cfg.L1 <= length[d]
                  /\ phase'.client[d] = "dead" =>
                       cfg.L1 = 0 \/ cfg.D > cfg.L1 + 1 \/ cfg.L1 > length[d]
    <3>1. CASE d # c
      BY <3>1, <1>3, <1>4 DEF IInv, RunningCan
    <3>2. CASE d = c
      BY <3>2, <1>1, <1>4, <1>9 DEF CannotForm, FormSepalsPanics
    <3> QED
      BY <3>1, <3>2
  <2> QED
    BY <2>1, <1>3, <1>4, <1>8 DEF IInv, RunningCan
<1> QED
  BY <1>5, <1>6, <1>7, <1>10 DEF IInv

LEMMA NextInv == IInv /\ [Next]_vars => IInv'
<1> SUFFICES ASSUME IInv, [Next]_vars PROVE IInv'
  OBVIOUS
<1>1. ASSUME NEW u \in Updates, HandleUpdateConfig(u) \/ UpdateConfig(u) PROVE IInv'
  BY <1>1, HandleUpdateConfigInv, UpdateConfigInv
<1>2. CASE Poll
  BY <1>2, PollInv
<1>3. CASE signalNodesToStart
  BY <1>3, GetL1Inv, HopInv, PathEndsInv, GetConfigInv DEF signalNodesToStart
<1>4. ASSUME NEW r \in Relays, RelayStarts(r) PROVE IInv'
  BY <1>4, RelayStartsInv
<1>5. ASSUME NEW c \in Clients, ClientStarts(c) PROVE IInv'
  BY <1>5, ClientStartsInv
<1>6. CASE UNCHANGED vars
  BY <1>6 DEF vars, IInv, TypeOK, PathsFitSoFar, PathsInOrder, OwnConfigs, StartedLast,
              RunningCan, Hops
<1> QED
  BY <1>1, <1>2, <1>3, <1>4, <1>5, <1>6 DEF Next

\* Files, configurations, paths and starts stay consistent, whatever updates are
\* posted and whenever they are applied; a relay falls at its start just when it has
\* no room for a nonce announced to it, and a client just when it has no mixer, a
\* threshold too high for its mixers, or a checkpoint path shorter than them.
THEOREM Invariance == Spec => []IInv
<1>1. IInv /\ [Next]_vars => IInv'
  BY NextInv
<1> QED
  BY <1>1, InitInv, PTL DEF Spec

\* Unless an update is applied while the paths are generated, they have the
\* length L1 + L2 of the configuration in the signals.
THEOREM PathsFit == Spec => []PathsFitSignal
<1>1. IInv => PathsFitSignal
  BY DEF IInv, PathsFitSoFar, PathsFitSignal
<1> QED
  BY <1>1, Invariance, PTL

\* Unless an update is applied while the paths are generated, a relay falls at its
\* start only if the run is longer than its file says, and a client only if neither
\* its file nor the signal sets L1, or over D or L1.
THEOREM Falls == Spec => []FallsExplained
<1>1. IInv => FallsExplained
  <2> SUFFICES ASSUME IInv, ~torn PROVE FallsExplained
    BY DEF FallsExplained
  <2>1. ASSUME pc = "signalled" PROVE \A c \in Clients : length[c] = Sum(signal)
    BY <2>1 DEF IInv, PathsFitSoFar
  <2>2. ASSUME NEW r \in Relays, phase.relay[r] = "dead"
        PROVE  Sum(signal) > Sum(file.relay[r])
    <3>1. pc = "signalled"
      BY <2>2 DEF IInv, StartedLast
    <3>2. PICK h \in Hops(r) : h[2] > Sum(file.relay[r])
      BY <2>2 DEF IInv, RunningCan
    <3>3. PICK c \in Clients : h[2] \in 1 .. length[c]
      BY HopsType DEF IInv
    <3>4. length[c] = Sum(signal)
      BY <2>1, <3>1
    <3>5. Sum(signal) \in Nat /\ Sum(file.relay[r]) \in Nat
      BY FileTypes, SumType DEF IInv, TypeOK
    <3> QED
      BY <3>2, <3>3, <3>4, <3>5
  <2>3. ASSUME NEW c \in Clients, phase.client[c] = "dead"
        PROVE  LET own == Merged(file.client[c], signal)
               IN \/ signal.L1 = 0 /\ file.client[c].L1 = 0
                  \/ own.D > own.L1 + 1
                  \/ own.L1 > Sum(signal)
    <3>1. pc = "signalled"
      BY <2>3 DEF IInv, StartedLast
    <3>2. config.client[c] = Merged(file.client[c], signal)
      BY <2>3 DEF IInv, OwnConfigs
    <3>3. signal \in Config /\ file.client[c] \in Config
      BY FileTypes DEF IInv, TypeOK
    <3>4. Merged(file.client[c], signal).L1 = IF signal.L1 # 0 THEN signal.L1 ELSE file.client[c].L1
      BY <3>3, MergedType
    <3> QED
      BY <2>1, <2>3, <3>1, <3>2, <3>3, <3>4 DEF IInv, RunningCan
  <2> QED
    BY <2>2, <2>3 DEF FallsExplained
<1> QED
  BY <1>1, Invariance, PTL

\* Unless an update is applied while the paths are generated, a client's message is as
\* long as a checkpoint onion exactly if its file sets neither L1 nor L2 where the
\* signal leaves it 0.
THEOREM Alike == Spec => []MessagesLookAlike
<1>1. IInv => MessagesLookAlike
  <2> SUFFICES ASSUME IInv, NEW c \in Clients, phase.client[c] = "running", ~torn
               PROVE  Sum(config.client[c]) = length[c]
                        <=> \A f \in {"L1", "L2"} : signal[f] = 0 => file.client[c][f] = 0
    BY DEF MessagesLookAlike
  <2>1. pc = "signalled"
    BY DEF IInv, StartedLast
  <2>2. length[c] = Sum(signal)
    BY <2>1 DEF IInv, PathsFitSoFar
  <2>3. config.client[c] = Merged(file.client[c], signal)
    BY DEF IInv, OwnConfigs
  <2>4. signal \in Config /\ file.client[c] \in Config
    BY FileTypes DEF IInv, TypeOK
  <2>5. /\ signal.L1 \in Nat /\ file.client[c].L1 \in Nat
        /\ signal.L2 \in Nat /\ file.client[c].L2 \in Nat
    BY <2>4 DEF Config
  <2>6. /\ config.client[c].L1 = IF signal.L1 # 0 THEN signal.L1 ELSE file.client[c].L1
        /\ config.client[c].L2 = IF signal.L2 # 0 THEN signal.L2 ELSE file.client[c].L2
    BY <2>3, <2>4, MergedType
  <2>7. Sum(config.client[c]) = Sum(signal)
          <=> /\ signal.L1 = 0 => file.client[c].L1 = 0
              /\ signal.L2 = 0 => file.client[c].L2 = 0
    <3> DEFINE extra(a, b) == IF a # 0 THEN 0 ELSE b
    <3>1. /\ config.client[c].L1 = signal.L1 + extra(signal.L1, file.client[c].L1)
          /\ config.client[c].L2 = signal.L2 + extra(signal.L2, file.client[c].L2)
      BY <2>5, <2>6
    <3>2. /\ extra(signal.L1, file.client[c].L1) \in Nat
          /\ extra(signal.L2, file.client[c].L2) \in Nat
      BY <2>5
    <3>3. /\ extra(signal.L1, file.client[c].L1) = 0 <=> (signal.L1 = 0 => file.client[c].L1 = 0)
          /\ extra(signal.L2, file.client[c].L2) = 0 <=> (signal.L2 = 0 => file.client[c].L2 = 0)
      OBVIOUS
    <3> HIDE DEF extra
    <3>4. Sum(config.client[c]) = Sum(signal)
            <=> extra(signal.L1, file.client[c].L1) = 0 /\ extra(signal.L2, file.client[c].L2) = 0
      BY <2>5, <3>1, <3>2 DEF Sum
    <3> QED
      BY <3>3, <3>4
  <2>8. /\ \A f \in {"L1", "L2"} : signal[f] = 0 => file.client[c][f] = 0
        <=> /\ signal.L1 = 0 => file.client[c].L1 = 0
            /\ signal.L2 = 0 => file.client[c].L2 = 0
    OBVIOUS
  <2> QED
    BY <2>2, <2>7, <2>8
<1> QED
  BY <1>1, Invariance, PTL
=============================================================================
