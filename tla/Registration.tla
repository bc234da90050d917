---------------------------- MODULE Registration ----------------------------
(***************************************************************************)
(* Who the bulletin board believes is there: registration and heartbeats.  *)
(* Bulletin board: bulletin_board_handler.go, UpdateRelay, RegisterClient, *)
(* relayView.go, clientView.go.  Relay: NewRelay, StartPeriodicUpdates and *)
(* updateBulletinBoard (relay.go) and the retry loop of cmd/relay/main.go. *)
(* Client: NewClient, RegisterWithBulletinBoard (client.go) and the retry  *)
(* loop of cmd/client/main.go.  Processes may crash and be started again,  *)
(* the bulletin board, whose lists are in memory, like the others.         *)
(*                                                                         *)
(* Time advances in ticks of one heartbeat interval (3 s, relay.go:78).  A *)
(* time stamp is kept as its age, which stops counting at MaxAge.          *)
(***************************************************************************)
EXTENDS Integers

CONSTANTS
  Relays,    \* relay IDs
  Clients,   \* client IDs
  MaxKeys,   \* bound: key pairs a node generates, one per NewRelay/NewClient
  MaxAge,    \* MaxTimeBetweenHeartbeats: active means age < MaxAge
  MaxDelay   \* a POST is answered, or fails, within this many ticks

ASSUME BoundsAssumption ==
  /\ MaxKeys \in Nat \ {0}
  /\ MaxAge \in Nat \ {0}
  /\ MaxDelay \in 0 .. MaxAge

VARIABLES
  Network,      \* bulletin board: relay ID -> view, or NoView
  ClientViews,  \* bulletin board: client ID -> public key, or 0
  registering,  \* bulletin board: RegisterClient goroutines still to run, and
                \*   requests that will start one when they arrive
  relay,        \* the relay processes
  client,       \* the client processes
  strays,       \* relay requests given up by their sender, not yet handled
  sinceSent,    \* history: age of the last time stamp each relay sent
  lostRelays,   \* history: relays no POST of which was handled since the
  lostClients   \*   board last restarted, clients not registered since then

vars == <<Network, ClientViews, registering, relay, client, strays, sinceSent,
          lostRelays, lostClients>>

NoView == [key |-> 0, age |-> -1]
View == [key : 1 .. MaxKeys, age : 0 .. MaxAge]

\* A relay process.  "up" sends heartbeats; "silent" serves onions but its
\* heartbeat goroutine has returned; "sleep" is main waiting to try again.
RelayProcess ==
  [phase : {"off", "sleep", "registering", "up", "silent"},
   key : 0 .. MaxKeys,                      \* its current key pair
   due : BOOLEAN,                           \* the ticker has fired
   post : {"none", "request", "reply"},     \* its POST, under n.mu
   wait : 0 .. MaxDelay]                    \* age of that POST's time stamp

ClientProcess ==
  [phase : {"off", "sleep", "registering", "up"},
   key : 0 .. MaxKeys,
   post : {"none", "request", "reply"}]

Older(age) == IF age < MaxAge THEN age + 1 ELSE age

Init ==
  /\ Network = [r \in Relays |-> NoView]
  /\ ClientViews = [c \in Clients |-> 0]
  /\ registering = {}
  /\ relay = [r \in Relays |-> [phase |-> "off", key |-> 0, due |-> FALSE,
                                post |-> "none", wait |-> 0]]
  /\ client = [c \in Clients |-> [phase |-> "off", key |-> 0, post |-> "none"]]
  /\ strays = {}
  /\ sinceSent = [r \in Relays |-> MaxAge]
  /\ lostRelays = {}
  /\ lostClients = {}

boardVars == <<Network, ClientViews, registering, lostRelays, lostClients>>

-----------------------------------------------------------------------------
(* Bulletin board                                                          *)

\* RelayView.IsActive
IsActive(r) == Network[r] # NoView /\ Network[r].age < MaxAge

UpdateNodeStampsArrival(view, age) == [view EXCEPT !.age = 0]
UpdateNodeTakesAny(view, age) == [view EXCEPT !.age = age]
UpdateNodeSwapped(view, age) ==
  IF view.age >= age THEN view ELSE [view EXCEPT !.age = age]

\* RelayView.UpdateNode: an older time stamp than the last heartbeat's is
\* ignored; nothing but the time stamp is ever taken over.
UpdateNode(view, age) ==
  IF view.age < age THEN view ELSE [view EXCEPT !.age = age]

UpdateRelayOnlyKnown(r, key, age) ==
  IF Network[r] = NoView THEN UNCHANGED Network
  ELSE Network' = [Network EXCEPT ![r] = UpdateNode(@, age)]

\* BulletinBoard.UpdateRelay, for a registration and for a heartbeat alike.
UpdateRelay(r, key, age) ==
  LET view == IF Network[r] = NoView THEN [key |-> key, age |-> age]
              ELSE Network[r]
  IN Network' = [Network EXCEPT ![r] = UpdateNode(view, age)]

\* HandleRegisterRelay, HandleUpdateRelayInfo
HandleRelayPost(r) ==
  /\ relay[r].post = "request"
  /\ UpdateRelay(r, relay[r].key, relay[r].wait)
  /\ relay' = [relay EXCEPT ![r].post = "reply"]
  /\ lostRelays' = lostRelays \ {r}
  /\ UNCHANGED <<ClientViews, registering, client, strays, sinceSent, lostClients>>

\* The same handler, for a request whose sender has given up.
HandleStray(s) ==
  /\ s \in strays
  /\ UpdateRelay(s.relay, s.key, s.age)
  /\ strays' = strays \ {s}
  /\ UNCHANGED <<ClientViews, registering, relay, client, sinceSent, lostRelays,
                 lostClients>>

\* HandleRegisterClient starts RegisterClient and answers without waiting.
HandleRegisterClient(c) ==
  /\ client[c].post = "request"
  /\ registering' = registering \union {[client |-> c, key |-> client[c].key]}
  /\ client' = [client EXCEPT ![c].post = "reply"]
  /\ UNCHANGED <<Network, ClientViews, relay, strays, sinceSent, lostRelays, lostClients>>

RegisterClient(g) ==
  /\ g \in registering
  /\ ClientViews' = [ClientViews EXCEPT ![g.client] = g.key]
  /\ registering' = registering \ {g}
  /\ lostClients' = lostClients \ {g.client}
  /\ UNCHANGED <<Network, relay, client, strays, sinceSent, lostRelays>>

\* The process ends, with its goroutines and the connections on which stray
\* requests would still arrive, and is started again: NewBulletinBoard makes
\* empty maps.  A POST under way fails, or is sent to the new process.
RestartBoard ==
  /\ Network' = [r \in Relays |-> NoView]
  /\ ClientViews' = [c \in Clients |-> 0]
  /\ registering' = {}
  /\ strays' = {}
  /\ lostRelays' = Relays
  /\ lostClients' = Clients
  /\ UNCHANGED <<relay, client, sinceSent>>

-----------------------------------------------------------------------------
(* Relay                                                                   *)

\* NewRelay up to the POST: a new process, or main trying again, makes a new
\* key pair every time.
NewRelay(r) ==
  /\ relay[r].phase \in {"off", "sleep"} /\ relay[r].key < MaxKeys
  /\ relay' = [relay EXCEPT ![r] =
                 [phase |-> "registering", key |-> @.key + 1, due |-> FALSE,
                  post |-> "request", wait |-> 0]]
  /\ sinceSent' = [sinceSent EXCEPT ![r] = 0]
  /\ UNCHANGED <<boardVars, client, strays>>

\* StartPeriodicUpdates: the ticker fired and updateBulletinBoard posts.
Heartbeat(r) ==
  /\ relay[r].phase = "up" /\ relay[r].due /\ relay[r].post = "none"
  /\ relay' = [relay EXCEPT ![r].due = FALSE, ![r].post = "request", ![r].wait = 0]
  /\ sinceSent' = [sinceSent EXCEPT ![r] = 0]
  /\ UNCHANGED <<boardVars, client, strays>>

\* updateBulletinBoard returns nil.
PostSucceeds(r) ==
  /\ relay[r].post = "reply"
  /\ relay' = [relay EXCEPT ![r].post = "none", ![r].wait = 0, ![r].phase = "up"]
  /\ UNCHANGED <<boardVars, client, strays, sinceSent>>

\* An unanswered request may be lost or may still reach its handler.
Abandoned(r) == [relay |-> r, key |-> relay[r].key, age |-> relay[r].wait]
MayStray(r) ==
  \/ UNCHANGED strays
  \/ relay[r].post = "request" /\ strays' = strays \union {Abandoned(r)}

\* updateBulletinBoard returns an error: main tries NewRelay again later, but
\* the heartbeat goroutine returns for good.
PostFails(r) ==
  /\ relay[r].post # "none"
  /\ relay' = [relay EXCEPT ![r].post = "none", ![r].wait = 0, ![r].due = FALSE,
                 ![r].phase = IF @ = "registering" THEN "sleep" ELSE "silent"]
  /\ MayStray(r)
  /\ UNCHANGED <<boardVars, client, sinceSent>>

\* The process ends; a shell starts it again with NewRelay.
CrashRelay(r) ==
  /\ relay[r].phase # "off"
  /\ relay' = [relay EXCEPT ![r].phase = "off", ![r].post = "none",
                 ![r].wait = 0, ![r].due = FALSE]
  /\ MayStray(r)
  /\ UNCHANGED <<boardVars, client, sinceSent>>

-----------------------------------------------------------------------------
(* Client                                                                  *)

NewClient(c) ==
  /\ client[c].phase \in {"off", "sleep"} /\ client[c].key < MaxKeys
  /\ client' = [client EXCEPT ![c] =
                  [phase |-> "registering", key |-> @.key + 1, post |-> "request"]]
  /\ UNCHANGED <<boardVars, relay, strays, sinceSent>>

ClientPostSucceeds(c) ==
  /\ client[c].post = "reply"
  /\ client' = [client EXCEPT ![c].post = "none", ![c].phase = "up"]
  /\ UNCHANGED <<boardVars, relay, strays, sinceSent>>

\* A request given up may be lost or may still reach its handler, which only
\* starts a goroutine.
ClientMayStray(c) ==
  \/ UNCHANGED registering
  \/ /\ client[c].post = "request"
     /\ registering' = registering \union {[client |-> c, key |-> client[c].key]}

ClientPostFails(c) ==
  /\ client[c].post # "none"
  /\ client' = [client EXCEPT ![c].post = "none", ![c].phase = "sleep"]
  /\ ClientMayStray(c)
  /\ UNCHANGED <<Network, ClientViews, relay, strays, sinceSent, lostRelays, lostClients>>

\* The process ends; a shell starts it again with NewClient.
CrashClient(c) ==
  /\ client[c].phase # "off"
  /\ client' = [client EXCEPT ![c].post = "none", ![c].phase = "off"]
  /\ ClientMayStray(c)
  /\ UNCHANGED <<Network, ClientViews, relay, strays, sinceSent, lostRelays, lostClients>>

-----------------------------------------------------------------------------
(* Time                                                                    *)

\* A tick passes once a ticker that fired has been served and no POST is over
\* its delay; goroutines that are ready run within a tick.
Tick ==
  /\ \A r \in Relays :
       /\ ~(relay[r].phase = "up" /\ relay[r].due /\ relay[r].post = "none")
       /\ relay[r].post # "none" => relay[r].wait < MaxDelay
  /\ relay' = [r \in Relays |->
       [relay[r] EXCEPT !.due = relay[r].phase = "up",
                        !.wait = IF relay[r].post = "none" THEN 0 ELSE @ + 1]]
  /\ Network' = [r \in Relays |->
       IF Network[r] = NoView THEN NoView ELSE [Network[r] EXCEPT !.age = Older(@)]]
  /\ strays' = {[s EXCEPT !.age = Older(@)] : s \in strays}
  /\ sinceSent' = [r \in Relays |-> Older(sinceSent[r])]
  /\ UNCHANGED <<ClientViews, registering, client, lostRelays, lostClients>>

RelayNext(r) ==
  \/ NewRelay(r) \/ Heartbeat(r) \/ PostSucceeds(r) \/ PostFails(r)
  \/ CrashRelay(r) \/ HandleRelayPost(r)

ClientNext(c) ==
  \/ NewClient(c) \/ ClientPostSucceeds(c) \/ ClientPostFails(c)
  \/ CrashClient(c) \/ HandleRegisterClient(c)

Next ==
  \/ \E r \in Relays : RelayNext(r)
  \/ \E c \in Clients : ClientNext(c)
  \/ \E s \in strays : HandleStray(s)
  \/ \E g \in registering : RegisterClient(g)
  \/ RestartBoard
  \/ Tick

Spec == Init /\ [][Next]_vars

\* Time passes, a running relay's goroutines and the handlers make progress,
\* and every POST comes to an end one way or the other.
Fairness ==
  /\ WF_vars(Tick)
  /\ \A r \in Relays :
       /\ WF_vars(Heartbeat(r))
       /\ WF_vars(HandleRelayPost(r))
       /\ WF_vars(PostSucceeds(r) \/ PostFails(r))

FairSpec == Spec /\ Fairness

-----------------------------------------------------------------------------

\* Every variable has its type.
TypeOK ==
  /\ Network \in [Relays -> View \union {NoView}]
  /\ ClientViews \in [Clients -> 0 .. MaxKeys]
  /\ registering \subseteq [client : Clients, key : 1 .. MaxKeys]
  /\ relay \in [Relays -> RelayProcess]
  /\ client \in [Clients -> ClientProcess]
  /\ strays \subseteq [relay : Relays, key : 1 .. MaxKeys, age : 0 .. MaxAge]
  /\ sinceSent \in [Relays -> 0 .. MaxAge]
  /\ lostRelays \subseteq Relays
  /\ lostClients \subseteq Clients

\* A process waits for an answer while it registers; only a process that
\* registered once has keys.
PhasesMatchPosts ==
  /\ \A r \in Relays :
       /\ relay[r].phase = "registering" => relay[r].post # "none"
       /\ relay[r].phase \in {"off", "sleep", "silent"} => relay[r].post = "none"
       /\ relay[r].phase # "off" => relay[r].key > 0
  /\ \A c \in Clients :
       /\ client[c].phase # "off" => client[c].key > 0
       /\ client[c].post # "none" => client[c].phase # "off"

\* An answered POST is on the board, with its time stamp or a newer one.
AnsweredIsListed ==
  /\ \A r \in Relays \ lostRelays :
       relay[r].post = "reply" => Network[r] # NoView /\ Network[r].age <= relay[r].wait
  /\ \A c \in Clients \ lostClients :
       client[c].post = "reply" =>
         ClientViews[c] # 0 \/ \E g \in registering : g.client = c

\* How old the board's time stamp can be while heartbeats go on: the last one
\* was answered within MaxDelay, the ticker fires a tick later, and the next
\* one is under way for as long as its own time stamp tells.
HeartbeatsPunctual ==
  \A r \in Relays \ lostRelays : relay[r].phase = "up" =>
    /\ Network[r] # NoView
    /\ relay[r].post = "none" =>
         Network[r].age <= MaxDelay + (IF relay[r].due THEN 1 ELSE 0)
    /\ relay[r].post = "request" => Network[r].age <= MaxDelay + 1 + relay[r].wait

\* Nothing under way is newer than the last time stamp sent.
StampsHonest ==
  /\ \A r \in Relays : relay[r].post # "none" => relay[r].wait >= sinceSent[r]
  /\ \A s \in strays : s.age >= sinceSent[s.relay]

\* A relay whose heartbeat goroutine is alive is listed as active, although a
\* heartbeat may take a whole interval to arrive and old requests straggle in
\* (README.md:325); a board that restarted has to hear from it once.
HeartbeatingIsActive ==
  \A r \in Relays \ lostRelays : relay[r].phase = "up" => IsActive(r)

\* A node whose NewRelay or NewClient returned is on the board, or its
\* registration goroutine is about to put it there, unless the board restarted
\* since.
RegisteredIsListed ==
  /\ \A r \in Relays \ lostRelays :
       relay[r].phase \in {"up", "silent"} => Network[r] # NoView
  /\ \A c \in Clients \ lostClients :
       client[c].phase = "up" =>
         ClientViews[c] # 0 \/ \E g \in registering : g.client = c

\* The board never takes a relay for fresher than the last time stamp the
\* relay sent, so a dead relay leaves the active list after MaxAge.
NoFresherThanSent ==
  \A r \in Relays : Network[r] # NoView => Network[r].age >= sinceSent[r]

IInv == /\ TypeOK
        /\ PhasesMatchPosts
        /\ AnsweredIsListed
        /\ RegisteredIsListed
        /\ HeartbeatsPunctual
        /\ StampsHonest
        /\ NoFresherThanSent

\* LastHeartbeat never goes back, whatever the order in which a retried
\* request, a stray one and a heartbeat are handled.
LastHeartbeatMonotone ==
  [][\A r \in Relays : Network[r] # NoView =>
       Network'[r].age <= Network[r].age \/ Tick \/ RestartBoard]_vars

\* A board that restarted learns again of every relay that goes on sending
\* heartbeats: none stays unlisted while its heartbeat goroutine is alive.
HeartbeatsRelist ==
  \A r \in Relays : relay[r].phase = "up" ~> (IsActive(r) \/ relay[r].phase # "up")

-----------------------------------------------------------------------------
(* What the comments and documents say and the code does not do            *)

\* bulletin_board.go:48: the view has "the latest relay information": the key
\* under which the board lists a registered relay, and which clients get to encrypt
\* for it, is the one that relay can decrypt with.
ListedKeyIsCurrent ==
  \A r \in Relays :
    Network[r] # NoView /\ relay[r].phase \in {"up", "silent"} =>
      Network[r].key = relay[r].key
=============================================================================
