------------------------------- MODULE Client -------------------------------
(***************************************************************************)
(* The clients during a run: startRun, getRecipient, generateMessages,     *)
(* formOnions with processMessage and processCheckpoint, and Receive       *)
(* (client.go), HandleStartRun (clientHandler.go), SendOnion               *)
(* (api_functions/functions.go) and ClientStatus (structs/clientStatus.go).*)
(* What the relays do with an onion is module Relay's matter: here it      *)
(* arrives, is lost, or stays with a relay for ever.                       *)
(*                                                                         *)
(* The bulletin board sends one list of clients to all clients on it       *)
(* (BulletinBoard!clientStartSignal), so startRun's returns for an empty   *)
(* list and for a client not on it are never taken.                        *)
(*                                                                         *)
(* ClientStatus records only if config.GetVis(), which no update changes:  *)
(* the clients here run with vis: true, as config.yml has it.  With vis:   *)
(* false both lists stay empty, GetStatus returns "", and onions are sent  *)
(* and received all the same.                                              *)
(***************************************************************************)
EXTENDS Integers, FiniteSets

CONSTANT
  Runs        \* the start signals to consider, see Run

\* What a start signal says: the IDs on its list of clients, whether it lists
\* any relay, and how many checkpoint onions each client is to send.  The bound
\* maxRepeats limits how often the signal is repeated, to one of the clients.
Run == [Clients : (SUBSET (Nat \ {0})) \ {{}}, hasRelays : BOOLEAN,
        checkpoints : Nat, maxRepeats : Nat]

ASSUME RunsAssumption ==
  /\ \A s \in Runs : s \in Run /\ IsFiniteSet(s.Clients)
  /\ \A s \in Runs : ~s.hasRelays => s.checkpoints = 0

VARIABLES
  start,       \* the start signal of this run
  recipients,  \* getRecipient's list, the same for all: the seed is fixed
  client,      \* the client processes
  onion,       \* the onions by <<sender, number>>: 0 is the message
  signals      \* start signals sent to each client so far

vars == <<start, recipients, client, onion, signals>>

\* The list for n clients: n, n-1, ..., 1, of which all but the first two
\* are shuffled if there are more than three.
Lists(n) ==
  {f \in [1 .. n -> 1 .. n] :
     /\ \A i, j \in 1 .. n : f[i] = f[j] => i = j
     /\ \A i \in 1 .. n : n <= 3 \/ i <= 2 => f[i] = n + 1 - i}

Numbers == 0 .. start.checkpoints
Onions == start.Clients \X Numbers
Own(c) == {c} \X Numbers

\* c.wg starts at 1 and is -1 once the process has panicked.
NewClient == [wg |-> 1, starting |-> 0, sending |-> FALSE,
              MessagesSent |-> {}, MessagesReceived |-> {}]

Unformed == [to |-> 0, place |-> "none", posting |-> FALSE]

Init ==
  /\ start \in Runs
  /\ recipients \in Lists(Cardinality(start.Clients))
  /\ client = [c \in start.Clients |-> NewClient]
  /\ onion = [o \in Onions |-> Unformed]
  /\ signals = [c \in start.Clients |-> 0]

Running(c) == client[c].wg >= 0

-----------------------------------------------------------------------------
(* The start of a run                                                      *)

Repeats == {c \in start.Clients : signals[c] > 1}

\* A start signal reaches the handler, which answers and starts a goroutine.
HandleStartRun(c) ==
  /\ Running(c)
  /\ signals[c] = 0 \/ (signals[c] <= start.maxRepeats /\ Repeats \subseteq {c})
  /\ signals' = [signals EXCEPT ![c] = @ + 1]
  /\ client' = [client EXCEPT ![c].starting = @ + 1]
  /\ UNCHANGED <<start, recipients, onion>>

HasRecipientOffByOne(c) ==
  c < Cardinality(start.Clients) /\ recipients[c] \in start.Clients

\* getRecipient takes the client's ID for a position on the list: it panics if
\* there is no such position, or no client with the ID it finds there.
HasRecipient(c) ==
  c <= Cardinality(start.Clients) /\ recipients[c] \in start.Clients

getRecipientOneFurther(c) ==
  recipients[IF c < Cardinality(start.Clients) THEN c + 1 ELSE c]

getRecipient(c) == recipients[c]

\* A goroutine that holds c.mu.
Locks(c) == client[c].starting > 0 /\ ~client[c].sending /\ Running(c)

\* startRun returns an error: the list of relays is empty.
StartRunRefused(c) ==
  /\ Locks(c) /\ ~start.hasRelays
  /\ client' = [client EXCEPT ![c].starting = @ - 1]
  /\ UNCHANGED <<start, recipients, onion, signals>>

StartRunUnrecorded(c) ==
  /\ Locks(c) /\ start.hasRelays
  /\ client[c].wg = 1 /\ HasRecipient(c)
  /\ \E to \in [Own(c) -> start.Clients] :
       /\ to[<<c, 0>>] = getRecipient(c)
       /\ onion' = [o \in Onions |->
                      IF o \in Own(c)
                      THEN [to |-> to[o], place |-> "client", posting |-> TRUE]
                      ELSE onion[o]]
  /\ client' = [client EXCEPT ![c].wg = 0, ![c].starting = @ - 1, ![c].sending = TRUE]
  /\ UNCHANGED <<start, recipients, signals>>

\* startRun up to its wg.Wait, under c.mu: the message goes to the recipient
\* and each checkpoint onion to any client; all are recorded (AddSent, as vis is
\* true) before a goroutine for each begins to send it.
StartRun(c) ==
  /\ Locks(c) /\ start.hasRelays
  /\ client[c].wg = 1 /\ HasRecipient(c)
  /\ \E to \in [Own(c) -> start.Clients] :
       /\ to[<<c, 0>>] = getRecipient(c)
       /\ onion' = [o \in Onions |->
                      IF o \in Own(c)
                      THEN [to |-> to[o], place |-> "client", posting |-> TRUE]
                      ELSE onion[o]]
  /\ client' = [client EXCEPT ![c].wg = 0, ![c].starting = @ - 1, ![c].sending = TRUE,
                              ![c].MessagesSent = @ \union Own(c)]
  /\ UNCHANGED <<start, recipients, signals>>

\* getRecipient panics, or the deferred wg.Done of generateMessages, which a
\* second start calls once too often: no handler, so the process ends.
StartRunPanics(c) ==
  /\ Locks(c) /\ start.hasRelays
  /\ client[c].wg = 0 \/ ~HasRecipient(c)
  /\ client' = [client EXCEPT ![c] = [NewClient EXCEPT !.wg = -1]]
  /\ UNCHANGED <<start, recipients, onion, signals>>

-----------------------------------------------------------------------------
(* Sending and receiving                                                   *)

\* The first mixer reads the request.
Accept(o) ==
  /\ onion[o].place = "client"
  /\ onion' = [onion EXCEPT ![o].place = "relays"]
  /\ UNCHANGED <<start, recipients, client, signals>>

SendOnionWithoutTimeout(o) ==
  /\ onion[o].posting /\ onion[o].place # "client"
  /\ onion' = [onion EXCEPT ![o].posting = FALSE]
  /\ UNCHANGED <<start, recipients, client, signals>>

\* SendOnion returns: the mixer answered, the request failed, or 30 seconds
\* have passed, though the mixer may be holding the onion.  Nobody tries again.
SendOnion(o) ==
  /\ onion[o].posting
  /\ onion' = [onion EXCEPT
       ![o].posting = FALSE,
       ![o].place = IF onion[o].place = "client" THEN "lost" ELSE onion[o].place]
  /\ UNCHANGED <<start, recipients, client, signals>>

\* startRun passes its wg.Wait and releases c.mu.
StartRunEnds(c) ==
  /\ client[c].sending /\ \A o \in Own(c) : ~onion[o].posting
  /\ client' = [client EXCEPT ![c].sending = FALSE]
  /\ UNCHANGED <<start, recipients, onion, signals>>

\* HandleReceive, of an onion that opens: it takes no part in c.mu.  AddReceived
\* records it, as vis is true.
Receive(o) ==
  /\ onion[o].place = "relays" /\ Running(onion[o].to)
  /\ onion' = [onion EXCEPT ![o].place = "arrived"]
  /\ client' = [client EXCEPT ![onion[o].to].MessagesReceived = @ \union {o}]
  /\ UNCHANGED <<start, recipients, signals>>

\* A relay discards the onion or fails to send it, or its recipient is gone.
Lose(o) ==
  /\ onion[o].place = "relays"
  /\ onion' = [onion EXCEPT ![o].place = "lost"]
  /\ UNCHANGED <<start, recipients, client, signals>>

ClientNext(c) ==
  \/ HandleStartRun(c)
  \/ StartRunRefused(c) \/ StartRun(c) \/ StartRunPanics(c) \/ StartRunEnds(c)

OnionNext(o) == Accept(o) \/ SendOnion(o) \/ Receive(o) \/ Lose(o)

Next ==
  \/ \E c \in start.Clients : ClientNext(c)
  \/ \E o \in Onions : OnionNext(o)

Spec == Init /\ [][Next]_vars

\* The goroutines of startRun: they are scheduled, and the timeout ends every
\* SendOnion.  Start signals and relays are the environment: nothing makes a
\* relay pass onions on.
Goroutines(c) ==
  \/ StartRunRefused(c) \/ StartRun(c) \/ StartRunPanics(c) \/ StartRunEnds(c)
  \/ \E o \in Own(c) : SendOnion(o)

Fairness ==
  \A c \in UNION {s.Clients : s \in Runs} : WF_vars(c \in start.Clients /\ Goroutines(c))

FairSpec == Spec /\ Fairness

-----------------------------------------------------------------------------

ClientProcess ==
  [wg : {-1, 0, 1}, starting : Nat, sending : BOOLEAN,
   MessagesSent : SUBSET Onions, MessagesReceived : SUBSET Onions]

Places == {"none", "client", "relays", "arrived", "lost"}

\* Every variable has its type.
TypeOK ==
  /\ start \in Runs
  /\ recipients \in Lists(Cardinality(start.Clients))
  /\ client \in [start.Clients -> ClientProcess]
  /\ onion \in [Onions -> [to : start.Clients \union {0}, place : Places, posting : BOOLEAN]]
  /\ signals \in [start.Clients -> Nat]

\* A client that has called wg.Done has formed its onions, all of them, with
\* its own recipient, and holds its lock as long as one of them is being sent.
StartedFormed ==
  \A o \in Onions :
    /\ onion[o].place # "none" => onion[o].to \in start.Clients
    /\ onion[o].place # "none" /\ o[2] = 0 => onion[o].to = recipients[o[1]]
    /\ onion[o].place # "none" => client[o[1]].wg # 1
    /\ client[o[1]].wg = 0 => onion[o].place # "none" /\ o \in client[o[1]].MessagesSent
    /\ onion[o].place = "none" => onion[o].to = 0
    /\ onion[o].place # "none" => HasRecipient(o[1])
    /\ onion[o].posting => client[o[1]].sending
    /\ onion[o].place = "client" => onion[o].posting

\* What has been received has arrived, where it was to go.
ReceivedArrived ==
  \A d \in start.Clients : \A o \in client[d].MessagesReceived :
    onion[o].place = "arrived" /\ onion[o].to = d

\* Each start signal starts one goroutine at most; the one that called wg.Done
\* was one of them, and so was the one that panicked, on a list without gaps after
\* that one.
SignalsCounted ==
  \A c \in start.Clients :
    /\ client[c].wg = 1 => client[c].starting <= signals[c]
    /\ client[c].wg = 0 => client[c].starting < signals[c]
    /\ client[c].wg = -1 /\ start.Clients = 1 .. Cardinality(start.Clients) => signals[c] > 1

IInv == TypeOK /\ StartedFormed /\ ReceivedArrived /\ SignalsCounted

\* Everybody is written to once: no two messages have the same recipient,
\* although every client works its own out alone; so if all clients of the
\* list start, each is sent a message, and none ever receives two.
WrittenToOnce ==
  LET Senders(d) == {c \in start.Clients : onion[<<c, 0>>].to = d}
  IN \A d \in start.Clients :
       /\ Cardinality(Senders(d)) <= 1
       /\ (\A c \in start.Clients : client[c].wg = 0) => Senders(d) # {}
       /\ Cardinality({o \in client[d].MessagesReceived : o[2] = 0}) <= 1

\* What a client's status reports as received, its sender's status reports as
\* sent, unless the sender has panicked since: no onion travels unrecorded, or
\* reaches a client it was not made for.
ReceivedWasSent ==
  \A d \in start.Clients : \A o \in client[d].MessagesReceived :
    /\ onion[o].to = d
    /\ Running(o[1]) => o \in client[o[1]].MessagesSent

\* The clients as their users see them: between sending and arriving an onion is
\* underway, whoever has it.
Post(o) ==
  [to |-> onion[o].to,
   place |-> CASE onion[o].place = "none" -> "unwritten"
               [] onion[o].place \in {"client", "relays"} -> "underway"
               [] onion[o].place = "arrived" -> "received"
               [] OTHER -> "lost"]

SentBy == [c \in start.Clients |-> client[c].MessagesSent]

ReceivedBy == [c \in start.Clients |-> client[c].MessagesReceived]

M == INSTANCE Mail WITH
  Nobody <- 0, Message <- 0,
  people <- start.Clients, numbers <- Numbers,
  letter <- [o \in Onions |-> Post(o)], sent <- SentBy, received <- ReceivedBy

\* Clients that each work out their recipient alone, and start, send, receive and
\* panic in any order, pass for people who are seen to: all their messages go to
\* different clients, none arrives twice or where it should not, and the status of
\* those who run says what became of them.
ImplementsMail == M!Spec

\* If the IDs on the list are 1 .. n, a client that gets one start signal
\* survives it: only a repeated signal makes it panic.
OneStartIsSafe ==
  start.Clients = 1 .. Cardinality(start.Clients) =>
    \A c \in start.Clients : ~Running(c) => signals[c] > 1

\* Every start comes to an end and the locks are free again, though relays may
\* keep an onion's request, or the onion, for ever.
StartsEnd ==
  []<>(\A c \in start.Clients : client[c].starting = 0 /\ ~client[c].sending)
=============================================================================
