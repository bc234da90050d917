# pi_t-experiment in TLA+

TLA+ modules, TLC configurations and TLAPS proofs for the onion-routing
experiment Π_t: a bulletin board, relays and clients that exchange *bruisable*
onions. Line numbers are those of the repository's Go sources;
`PROJECT.json` lists, for every definition, the lines it stands for.

To check everything:

    tlc -workers 2 -config Relay.cfg Relay.tla        # one run; see "Runs"
    tlapm RelayProofs.tla                             # one proof module

## 1. Inventory

| Component | State | Operations | Talks to |
|---|---|---|---|
| Bruisable onions (`internal/pi_t`) | the onion: header, content, sepal | `FORMONION`, `PeelOnion`, `AddBruise`, `RemoveBlock` | called by client and relay |
| Concurrent map (`pkg/cm`) | one counter per layer | `GetAndSet` (a compare-and-swap loop), `Get` | goroutines of `Relay.Receive` |
| Bulletin board, lists | `Network`, `Clients` | `HandleRegisterRelay`, `HandleUpdateRelayInfo`, `HandleRegisterClient`, `IsActive` | POSTs from relays and clients |
| Bulletin board, start | local variables of `signalNodesToStart` | `StartProtocol`, `allNodesReady`, `signalNodesToStart`, `GetCheckpoints` | reads the lists; POSTs the start signals |
| Relay | `expectedNonces`, `checkpointsReceived`, `status`, `wg`, `mu` | `NewRelay`, heartbeats, `startRun`, `Receive`, `sendToNode` | board (POST), relays and clients (onions) |
| Client | `wg`, `mu`, `status` | `NewClient`, `startRun`, `getRecipient`, `SendOnion`, `Receive` | board (POST), first and last relays |
| Transport (`internal/api`) | none | `SendOnion` (30 s timeout), `HandleReceiveOnion` | between all nodes |
| Configuration (`config`) | `globalConfig` of each process | `InitGlobal`, POST `/updateConfig`, `UpdateConfig`, `GetL1`, `GetL2`, `GetConfig` | the board's travels to the nodes in the start signals |
| Prometheus control (`bulletin_board/metrics`) | `prometheus.yml`, `PID` | `RestartPrometheus`, `StartPrometheus`, `StopPrometheus` | called by board and its main; a process of its own |
| Entry points (`cmd`) | flags | retry loops, the board's `select`, `Shutdown` | start and end the processes |
| Metrics, visualizer, static pages | - | - | - |

How they interact. Nodes register by POST; relays repeat it every three seconds
as a heartbeat. When enough nodes are there, the board computes *checkpoint
onions* (dummies with a nonce for every layer), tells every client which to send
and every relay which nonces to expect, all by POST. Clients form one message
and their checkpoint onions and send them off. A relay lets onions wait until it
has its start signal, then peels each, looks up its nonce, bruises it or not,
books it, and sends it on in a goroutine.

What is hard:

* **Threshold without a count.** No relay knows how many bruises an onion has.
  A relay drops a block from one end of the sepal or the other, and D of them
  must make the last gatekeeper fail, in whatever order they happen. Null blocks
  are encrypted under fewer keys than key blocks, so columns of two lengths are
  sliced by one index.
* **Order of arrival.** Onions outrun start signals; heartbeats, registrations
  and requests given up by their sender reach the board in any order.
* **Locks and waits.** `Receive` waits in `wg.Wait` for a `startRun` that needs
  the mutex a heartbeat holds during a POST without a timeout; the board waits
  on a `WaitGroup` of its own; handlers call other nodes.
* **Unlocked reading.** `signalNodesToStart` ranges over both maps again after
  `allNodesReady` has released the lock.
* **Failures.** POSTs fail, retries follow requests that may have been handled,
  processes crash and come back with a new key, a board that restarts has forgotten
  everybody, a repeated start signal panics.
* **Control beside the run.** The configuration changes while `GetCheckpoints` reads
  it field by field, and is merged into nodes sized for another. `main` may stop
  the board while it rewrites a file in place and replaces a child process.
* **Uncoordinated agreement.** All clients work out recipients alone, and the
  relays' and clients' start signals must describe the same paths.

What makes each part correct:

* onions: a message is readable iff fewer than D mixers bruised it, and nothing
  but the last gatekeeper's decision ever fails;
* map: no increment is lost or made twice, and every call ends;
* board lists: who was answered is listed, who sends heartbeats is active, who
  stopped does not look alive;
* start: the signals fit each other, the load is as configured, all ready nodes
  get theirs, or none if the board fails; a board that stops leaves no Prometheus behind
  but in one window of its shutdown;
* configuration: paths are as long as the configuration sent with them says if no update
  came meanwhile, and then it follows from files and signal which nodes fall and whose
  onions differ in length;
* relay: an onion is bruised iff it was not announced, books agree with what
  passed, every onion gets out;
* client: everybody is written to once, nothing travels unrecorded, every start
  ends;
* the whole: no onion overtakes the start of the run, and if nothing is lost everybody
  gets their message and every checkpoint onion is counted.

## 2. Modules

    Sepal <- Onion <- OnionTransit --implements--> BruiseCounter <--implements-- Relay
    ConcurrentMap --implements--> AtomicCounters       (Relay counts as these do)
    BulletinBoard includes Prometheus  --implements--> RunStart (extends StartSignals)
    Client --implements--> Mail
    PiT = Client + Relay, joined at SendOnion and Receive  --implements--> both
    Registration, Configuration                        (side by side with these)

**Sepal, Onion, OnionTransit, BruiseCounter.** `Sepal` translates `sepal.go`: a
block is its value, its column, and the interval of layer keys still around it.
That is all of an AES-GCM ciphertext that anybody in this program can observe: a
key opens it or not. `T(i)` is the table of `FormSepals`, `AllPossibleSepals(i)`
the sets `S_i` it lists in the header, `PeelSepal`, `AddBruise` and `RemoveBlock`
the operations on the wire. `Onion` adds the roles of `FormHeaders`, the content
keys of `FormContent` and `PeelOnion`. `OnionTransit` takes one onion from the
sender through the relays, each of which may find the nonce unexpected. The
variable `bruises` is history: no guard reads it. `BruiseCounter` is
the promise, a counter and a threshold.

**ConcurrentMap, AtomicCounters.** `GetAndSet` is a `Get` and a
`CompareAndSwap`, repeated until the swap succeeds; `sync.Map`'s own operations
are atomic. The abstract counters add one at once.

**Registration.** The board's two lists, relay and client processes with their
POST in flight, requests given up by their sender that may still arrive
(`strays`, and for clients an entry of `registering`), crashes, and time. The
board may end and start again at any moment (`RestartBoard`) with empty lists;
`lostRelays` and `lostClients` are history: who has not been heard since.
A time stamp is kept as its age in heartbeat intervals, capped at `MaxAge`, where
all ages mean the same to `IsActive`. `Tick` waits for what is due in an
interval. `UpdateNode` is one operator for the registration and the heartbeat, as in
the code, with its test of the time stamp.

**BulletinBoard, Prometheus.** `pc` follows `StartProtocol`. `FilterMap`'s loops ask one view
at a time, so registrations, heartbeats and expiry come between; a map write
during the loop over that map is a data race, so it may end the process, show up in
the loop, or not. `GetCheckpoints` chooses any path for any checkpoint onion,
which is what its random choice can produce. A POST is accepted or not, and
only the clients' goroutines call `wg.Done`: those of the relays defer it to
the end of the function that waits for them. `Prometheus` is `RestartPrometheus`
step by step: read back the file, truncate, write, kill, start, with a failure at
each; the file is torn, whole, or a list of targets. `main` runs beside all
this: `Quit`, `Shutdown` and `Exit` may come at any of these steps, and another
process (`Restart`) finds the file and nothing else. `early` is history:
`Shutdown` ran before there was a process to kill. If `StartPrometheus` runs after
such a `Shutdown`, the process it starts stays behind, a window the code leaves open;
`LeftBehindIfOvertaken` says that it is the only one.

**StartSignals, RunStart.** What the nodes may rely on when the board starts a run, without
lists that change, goroutines or Prometheus: it decides once (`Decide`), on
a run that `StartSignals!IsRun` allows, then tells each node its part of that decision
at most once, or fails and has told nobody. `StartSignals` holds the terms alone, so
that the proofs of `PiT` can take up the promise where the board's leave it.
`BulletinBoard!ImplementsRunStart` is the mapping: the stages up to
`GetCheckpoints` are one to the nodes (`Phase`), and what a board meant to say ends with
its process.

**Relay.** Relays and onions of a run. Onions are abstract (`layer`, `bruises`)
as `OnionTransit` justifies. The lock is there as `posting`: `startRun` is not
enabled while a heartbeat has it. `HandleStartRun` may happen any number of times up
to `MaxStarts`, before or after onions arrive; the second `startRun` panics, and
onions inside the process go with it. `GetAndSet` is the pair
`counting`/`checkpointsReceived`. `Listed` tells the onions announced by
the start signals; the others with a nonce are what would be late, repeated or
made by nobody the board knows.

**Client.** Clients of a run, with the list, the order `getRecipient` makes of
it, and the goroutines of `SendOnion`. A relay accepts an onion without
answering, and may never answer: `place` and `posting` are apart. The constant
`Runs` gives the start signals to look at; the module `MCClient` picks five. The
board sends one list of clients to all clients on it, so the early returns of
`startRun` for an empty list or a client off the list are never taken.

**Mail.** What the clients do for their users: everybody writes letters, of which one is the
message, to someone who gets no other; a letter arrives where it was to go, once, or is lost;
what was sent and received is written down. There the recipients are drawn so that no two messages
meet; in `Client` each works out its own.

**Configuration.** Each process reads its file; the files of a deployment may differ.
`HandleUpdateConfig` answers and leaves `UpdateConfig` to a goroutine. The loop of
`GetCheckpoints` reads `L1` and `L2` apart, before each hop, and `GetConfig` reads
all again for the signals; `Merged` takes a field over unless it is 0.
`RelayStarts` and `ClientStarts` stand for as much of the two `startRun` as
depends on this: whether `expectedNonces` has room, and whether the onions can be
formed (`CannotForm`: without a mixer, client.go:265-266, with a threshold too high for
its mixers, sepal.go:59, or with more mixers than the board's path has layers,
client.go:308, the client panics). `torn` is history: an update ran among the reads.

**PiT.** One run from end to end. An onion has a state on either side: `sent[o]`
for sender and recipient (module `Client`) and `onion[o]` among the relays (module
`Relay`). A request to the first mixer is one step of both, and so is its failure;
the last relay's request is received by the recipient or fails. Each node gets
its start signal at most once, at any time. Start signals agree with each other,
as `BulletinBoard!SignalsAgree` shows they do, and are of the kind on which no start
fails, as `PiTAssumption` says.

`*Proofs` modules hold the theorems. Operators placed before a definition and
named after what they break in it (`AddBruiseFromRight`, `NotOneLess`,
`StartRunWithoutDone`) are not used by the specifications: put in that
definition's place, each makes one property fail, which shows that the property depends
on it.

### What is abstracted

* Cryptography is perfect, keys are never guessed, two encryptions differ.
  JSON, gob, base64 and gzip are faithful and left out.
* The corrupted relay's drop (relay.go:172) is left out: the address it compares
  with is always empty, so the guard is never true. README.md:459 describes the
  adversary this code would implement.
* The hashes in a header's `A` are computed and never compared, so a
  relay's check of the sepal (README.md:339-346) does not exist; `SepalForeseen`
  says it would succeed. formOnion.go:29 counts l1+1 options for a
  gatekeeper; the code makes only those with fewer than d bruises (sepal.go:131),
  so `SepalForeseen` is stated below the threshold.
* peelOnion.go:74 reports a last gatekeeper's failure by wrapping an error that is nil.
  Whether that is an error or a panic the handler recovers from, the onion is
  dropped before it is booked, which is what `ReceiveFails` does.
* Relays and clients run with `vis: true`, config.yml's value, which `UpdateConfig` never
  changes. With `vis: false` the status counts nothing (nodeStatus.go:50 and 58,
  clientStatus.go:47 and 62) and `GetStatus` returns the empty string; onions are bruised,
  sent and received as before. So `BooksBalance`, `ImplementsMail`, `Recorded` and what
  `ServedAtRest` and `EverybodyServed` say of `MessagesReceived` are about `vis: true`.
* There is no local clock: README.md:376 lets a relay process an onion by round and
  time; the code processes each on arrival, whatever its layer.
* A client records the last relay as the receiver of a checkpoint onion in its
  status (client.go:329); the model keeps sender and number only.

## 3. Runs

| Run | Instance | Shows |
|---|---|---|
| `OnionTransit` | all orders of bruises on 6 mixers, 3 gatekeepers, D=3 | `ThresholdDecides`, `OnlyLastGatekeeperFails`, `SepalForeseen`, `BelowThresholdArrives`; implements `BruiseCounter` |
| `ConcurrentMap` | three calls on one key, a fourth on another | implements `AtomicCounters`; `EveryCallCounts` |
| `Registration` | one relay, one client, two keys each, delay 1, limit 4 | `RegisteredIsListed`, `HeartbeatingIsActive`, `NoFresherThanSent`, `LastHeartbeatMonotone`, `HeartbeatsRelist` |
| `BulletinBoard` | two relays, three clients, load 2, any failure of Prometheus, `Quit` at any moment | `SignalsAgree`, `LoadBound`, `LeftBehindIfOvertaken`, `ReadyNodesGetSignals`; implements `RunStart` |
| `Relay` | two relays, two checkpoint onions, one announced, two signals each | `BooksBalance`, `StartTakesEffect`, `OnionsSettle`; implements `BruiseCounter` |
| `Client` | five start signals for two to four clients | `WrittenToOnce`, `OneStartIsSafe`, `StartsEnd`; implements `Mail` |
| `Configuration` | two relays, two clients, five deployments, two updates, three ways to draw the paths | `PathsFitSignal`, `FallsExplained`, `MessagesLookAlike`, `SignalsGoOut` |
| `PiT` | two relays and two clients, or one client with a checkpoint onion | `NothingOvertakesStart`, `ServedAtRest`, `EverybodyServed` |

Every passing run also checks its module's `IInv`, the invariant the module's proofs
show inductive (for `PiT`, the invariants of both its modules and five parts that join them).

Bounds, and why they are enough:

* `OnionTransit`: D lies strictly between 0 and L1+1, L2 > 2 so that there is a
  gatekeeper that is neither first nor last, and L1 is large enough that dropping
  from either end meets both kinds of block. The theorems cover every size.
* `ConcurrentMap`: a swap that fails twice needs three calls; the fourth shows
  that keys are apart.
* `Registration`: `MaxKeys = 2` is one restart or one retry, the first moment an
  old request and a new one coexist. `MaxDelay = 1` lets a POST last a whole
  interval; `MaxAge = 4` is the least value for which 2·MaxDelay+1 < MaxAge.
  Relays do not touch each other's entries, so one is enough for TLC.
  `RestartBoard` is not bounded.
* `BulletinBoard`: with two relays, three clients and load 2 the quotient in
  `GetCheckpoints` is negative after its subtraction, zero, rounded, and exact, as relays and
  clients come and go; paths of two layers have a first and a last. `prometheus.yml` is
  found whole or torn. What a Prometheus that is left behind does to a later board
  is not followed.
* `Relay`: a path of a mixer and a gatekeeper has both roles on the same or on different
  relays; an announced and an unannounced onion on the same relay is the case the
  nonces decide; two signals are the first that panic. `MaxStarts` bounds the
  signals, nothing else is bounded.
* `Client`: two and three clients have even and odd lists, four is the first
  that is shuffled, {1,3} the first with a gap. One client at a time gets its
  signal repeated.
* `Configuration`: the deployments are one in which all files agree, one with a longer path
  than a relay is made for, one without gatekeepers on the board's file, one with a threshold
  too high on a client's, and one without mixers on the board's file, where one client's own
  file has a mixer (its messages are longer than the checkpoint onions) and the other's has none
  (it panics). One update lengthens the paths and raises the threshold, the
  other changes a single field. Paths go over one relay, over both in turn, or
  end at the second, so that the layers beyond a relay's room are its own or not. Each
  update is in flight once at a time, but may be posted again for ever.
* `PiT`: two clients write to each other over every choice of paths; a single client has a
  checkpoint onion besides its message, so that a relay has a nonce to expect. L1=L2=D=1. The
  theorems cover every number of either.

Fairness, and what in the code justifies it. Goroutines and handlers are
scheduled by Go's runtime: weak fairness of the program's own steps. An HTTP
request ends, by an answer, an error or a lost connection: weak fairness of the action that
ends it, never of one outcome. `Relay` needs strong fairness of `startRun` for
the lock: `sync.Mutex` hands itself to the waiter that has starved for 1 ms, while the heartbeat
takes and releases it for ever. In `Client` the 30 s timeout (functions.go:49)
makes `SendOnion` end whatever the relay does. `SignalsGoOut` needs the board's goroutine
and those of `UpdateConfig` to be scheduled; updates may never stop. No fairness is assumed of
registrations, start signals, clients sending, crashes, restarts, updates, or loss; `main`
is not made to quit but by an error. `BelowThresholdArrives` and
`OnionsSettle` allow for loss, since nobody sends an onion twice; the latter excuses an onion
that waits only if it waits *for ever* at a relay that is *never* told to start (a `[]` on the right
of `~>`), so a handler that a later `startRun` left in `wg.Wait` would violate it; `EverybodyServed`
is promised only to a run in which every node is told to start in the end and no request fails;
`ServedAtRest`, its safety half, says of failures which onion each of them costs. `ReadyNodesGetSignals` gives up when the board fails, is told to
stop, or is brought down by the data race.

`CHECK_DEADLOCK FALSE` stands in every configuration because a run really ends:
onions have arrived, calls have returned, a process has stopped.

### Where the code and its words part

Four runs look for a violation and find it; each checks what a comment or the README says.

| Run | Says | Does |
|---|---|---|
| `RegistrationStaleKey` | bulletin_board.go:48: the view has the latest information | only the time stamp is taken over, so a relay that registers again, after a restart or a failed attempt, is listed with a key it no longer has |
| `BulletinBoardStale` | bulletin_board.go:96: signals if all nodes are ready | the list is read again, unlocked; a run may begin with fewer relays than the minimum, even none |
| `BulletinBoardWait` | bulletin_board.go:106: if successful, exit the loop | the relays' `wg.Done` are deferred to the end of the function that waits for them, so with any active relay it never returns |
| `ConfigurationUpdate` | README.md:567: `/updateConfig` sets the parameters for the next run | relays keep `expectedNonces` as long as their file says, so longer paths make them panic at that run's start (relay.go:148) |

Other words the models contradict, seen in a single step of them and so without a run:
README.md:325 has relays send heartbeats periodically, but the goroutine returns after
one that fails (relay.go:110); README.md:443 updates Y_k to exclude a nonce once it is
verified, but relay.go:184 only looks it up; client.go:130 generates "a message to
another client", but with an odd number of clients the middle one of
`getRecipient`'s list is its own recipient (client.go:115).

## 4. Proofs

All theorems are of `Spec`, the specification without fairness, for every value of the
constants that the `ASSUME`s of the modules allow.

**OnionTransitProofs.** `IInv` says which sepal is on the wire: of row `layer` of
the table, the window of length L1+1-*mixers passed* that begins after column
*bruises* (`SepalInv`), and that content and header belong to one layer
(`ProgressInv`). `ThresholdDecides` alone is not inductive, since what the last
gatekeeper finds depends on everything dropped before. The step for `Receive`
rests on lemmas about blocks (`PeelOneBlock`, `PeelWholeSepal`), on dropping
(`DropOneBlock`), and on roles (`RoleOfLayer`). From `IInv` follow
`ThresholdHolds`, `PeelingNeverFailsEarly`, `WireSepalsForeseen`, and
`Refinement`: the onion implements the abstract counter.
Assumed: L1 > 0 and D in 0..L1+1 (`ParamAssumption`); outside, `FormSepals` panics.

**ConcurrentMapProofs.** `IInv`: a counter is the number of calls that have
swapped. `Refinement`: the swap that succeeds is the atomic increment, all else
stutters, under the assumption that there are finitely many calls.

**RegistrationProofs.** `Invariance` for a conjunction of seven parts.
`RegisteredIsListed` needs `AnsweredIsListed`: a reply under way means that the handler
has run. `NoFresherThanSent` needs the same of every request under way
(`StampsHonest`). `HeartbeatsPunctual` bounds the age of the board's time stamp
by where the relay is in its cycle; from it `HeartbeatsKeepActive` follows **if
2·MaxDelay + 1 < MaxAge**: a heartbeat that took MaxDelay, an interval, and one more that takes MaxDelay.
This is an assumption about the network: http.Post has no timeout in this code,
so nothing there enforces MaxDelay. `NeverGoesBack` is the action property that the
board's time stamp never goes back. Two more action properties are about keys:
`FirstKeyStays`, the board never exchanges the key of a relay it lists, and `NoWayBack`, a relay
that is listed under a key it no longer has remains so until the board restarts, which
makes of the counterexample of `RegistrationStaleKey` a statement about any number of keys. They
need `KeysMade`: no key is listed or under way that the relay has not made.

**RelayProofs.** `IInv` has two parts that need each other: a relay whose
`wg.Wait` lets handlers pass knows every nonce it was told (`NoncesRecorded`),
and so an onion has as many bruises as mixers passed, or none
(`BruisesDeserved`). `Refinement` maps each onion to a `BruiseCounter`. `Books`
needs `BooksInv` on top, which holds before the start, too: what came
through a layer is counted or being counted. Its proof goes by cardinalities of the onions
through a layer (`ReceiveThrough`, `TallyStays`). `NoStartIsLost` is the safety half of the two
liveness properties: while a handler is in `wg.Wait`, either no start signal has come or its
goroutine is about to take the lock (`SignalsKept`), for the process that panics takes its handlers
with it (`WaitersAlive`). What is left to TLC is that the lock is obtained in the end.

**BulletinBoardProofs.** `IInv` has a part for each thing that outlives a
step: the wait group's counter stands for who has not been answered
(`WaitGroupCounts`), the clients counted by `allNodesReady` are found again
(`EnoughClients`), `RestartPrometheus` is where `pc` says and leaves the file torn only
between truncating and writing (`PrometheusInStep`), the board knows the PID of the process
it has (`PrometheusKnown`), and nobody is told to start before that process
runs (`SignalsLast`). From it follow `SignalsAgree` (`Agreement`), `FailureSignalsNobody`
(`AllOrNobody`; no run checks it apart, since it is part of what `RunStart` and `IInv` say)
and `LeftBehindIfOvertaken` (`Orderly`: the process is lost exactly if it was started between
`Shutdown` and the end of `main`); `LoadBound` (`LoadShared`) needs of it only
that there are finitely many nodes, and some client, and rests on the lemma `Division`.
`Refinement` shows that the board implements `RunStart`, step by step: reading the lists
stutters, `GetCheckpoints` is `Decide` (`LoadBearable`: the quotient is a load the relays can bear),
`SignalNodes` is `Begin`, each POST a `Tell` of the part that the decision has for that node
(`PartOfDecision`, `DecisionStands`), and a data race, a panic or the end of the process is `End`.
`NeverReturnsWithRelays` is the finding of `BulletinBoardWait` for any number of nodes: from
`WaitGroupCounts`, the counter stays positive while there is a relay, so `signalNodesToStart`
returns only without one, and then its deferred calls do no harm.
Assumed: finitely many nodes, L1+L2 > 0.

**ClientProofs.** `IInv`: who has called `wg.Done` has formed and recorded all its
onions, the message for its own position on the list (`StartedFormed`); what was
received has arrived where it was to go; goroutines are at most the signals.
`WrittenOnce` then counts: two senders of one message would have the same position, and
when all have started the IDs are 1..n, on which an injective list leaves
nobody out (`ListCovers`, by the pigeonhole principle). Of the shuffle nothing is used but that it
permutes. `Recorded`: no onion travels that its sender has not recorded. `Refinement` to `Mail`:
a client's `startRun` is `Write`, and that nobody else writes the message to the same recipient,
which there is a guard, here is a fact about positions (`StartRunWrites`); what the users can
see of sent and received is what is in the status (`Books`). `SafeStart`: with IDs 1..n only a
second start signal ends a client.

**ConfigurationProofs.** `IInv` relates the paths made so far to the configuration as
long as no update has come among the reads (`PathsFitSoFar`), and each node's configuration
to its file and the signal (`OwnConfigs`), and says which nodes fall at their start, torn read or
not (`RunningCan`). From it follow, for any files, updates and choice of receivers, and all three only
**unless an update came among the board's reads**: `PathsFit`; `Falls`, a relay falls only over paths
longer than its file's and a client only without mixers, over D, or over L1; and `Alike`, a message is as
long as a checkpoint onion exactly if the client's file says nothing where the signal has a 0.

**PiTProofs.** `Composition` shows that a run of `PiT` is one of `Client` and one of
`Relay`; the theorems of `ClientProofs` and `RelayProofs` are then cited for the two sides
(`ClientsInv`, `RelaysInv`, `BooksKept`, `MessagesShared`), and not proved again. `IInv` adds
what neither side can say: both agree on where an onion is (`SidesAgree`), on
the paths (`PathsChosen`), who was told to start has started or is about to (`StartsCounted`),
every relay an onion has passed had started (`WayStarted`), and what has left the relays has
passed all of them (`WayCompleted`). From it follow `InOrder`, `OneOnion`, and
`PurposeAtRest`: for any number of nodes, onions and layers, with D > 0, once everybody was told
to start and nothing is left to do, each onion has reached whom it was for unless a request for it
failed; if none failed, everybody has a message and every checkpoint is counted. That is
all of `EverybodyServed` but that the run comes to rest. `NothingLeftOut` shows that the failures of
`Client` and `Relay` which `PiT` has no step for cannot be missed: in no state of it are they
enabled. `RunAsPromised` hands on the refinements: `PiT` implements `Mail` and, for each
onion, `BruiseCounter`.
The board's promise is taken up by two theorems about any decision that `StartSignals!IsRun`
allows, which `BulletinBoardProofs!Refinement` shows the board's to be: it is a run of those
`PiT` is about (`BoardStartsRuns`), and the nonces a relay records are those it is told (`NoncesAsTold`).
Assumed (`PiTAssumption`): finitely many `Runs`, clients with the IDs 1..n, some relay, no start signal
repeated; for `PurposeAtRest` D > 0, since with D = 0 the last relay discards everything.

Only model-checked: the liveness properties, which with ENABLED are out of the
prover's reach: `BelowThresholdArrives`, `EveryCallCounts`, `HeartbeatsRelist`,
`ReadyNodesGetSignals`, `StartTakesEffect`, `OnionsSettle`, `StartsEnd`, `SignalsGoOut`,
`EverybodyServed`. Every invariant, action property and refinement that a passing run checks is
proved. No module declares a RECURSIVE operator.

## 5. Not modelled

* **Configuration** beyond L1, L2 and D: `x`, the minima and the times are constants
  of the modules that use them. An update of them between runs is another
  value of the constant; one during a run changes at most a limit that is read once.
* **A second run.** `StartProtocol` starts one and returns (or waits for ever), and no
  code resets a node, so a node's second start signal panics; that much is modelled.
* **Prometheus** itself, its HTTP port, and one left behind by an earlier board;
  **metrics** are written and never read; the **visualizer**'s Go code is commented out
  entirely; the mains' flags, logging and HTTP set-up have no bearing on the properties.
* **`pkg/utils`**: most of `stream.go` and `utils.go` is not called by any program.
* **ECDH, hashing, key generation**: taken as perfect (see "What is abstracted").
* `GetActiveNodes` of relay and client is never called. `NewIntArray(1, n)` leaves the last
  ID out of those that may be corrupted (relay.go:127), which matters only to the
  unused drop.

## 6. Plan

Done, in order of importance: the onion and its threshold; the concurrent map;
registration, with restarts of nodes and board; the start of a run, with Prometheus and
the board's shutdown; relays; clients; the configuration; the composition of clients
and relays; proofs of the safety of every module with a specification.

Left:

1. The board's signals composed with `PiT` in one run, so that a lost start signal or a stale
   key has its effect end to end. That the signals fit is proved across the modules
   (`BoardStartsRuns`, `NoncesAsTold`).
2. Larger bounds for `Relay` and `PiT` (a third onion, a second mixer) if the liveness
   properties can be stated without one tableau for each onion.
3. Proofs: the safety halves of `StartsEnd` and of `SignalsGoOut`, as `NoStartIsLost` is that of
   `OnionsSettle`; `OnionTransit` as the refinement of an onion of `Relay`, layer by layer, which
   now rests on both implementing `BruiseCounter`.
