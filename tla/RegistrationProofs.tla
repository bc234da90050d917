------------------------- MODULE RegistrationProofs -------------------------
(***************************************************************************)
(* Proofs about module Registration, for any relays and clients, any       *)
(* number of key pairs, and any delay of the network below the bound that  *)
(* the theorem HeartbeatsKeepActive names.                                 *)
(***************************************************************************)
EXTENDS Registration, TLAPS

LEMMA Views ==
  /\ NoView \notin View
  /\ \A v \in View : v.key \in 1 .. MaxKeys /\ v.age \in 0 .. MaxAge /\ v # NoView
  /\ \A k \in 1 .. MaxKeys, a \in 0 .. MaxAge :
       /\ [key |-> k, age |-> a] \in View
       /\ [key |-> k, age |-> a] # NoView
BY DEF NoView, View

LEMMA OlderType ==
  \A a \in 0 .. MaxAge :
    /\ Older(a) \in 0 .. MaxAge
    /\ a <= Older(a) /\ Older(a) <= a + 1
    /\ \A b \in 0 .. MaxAge : b <= a => Older(b) <= Older(a)
BY BoundsAssumption DEF Older

\* What UpdateRelay does to the view of r: it exists from then on, is no older
\* than the time stamp, and its age is the time stamp's or the one it had.
LEMMA UpdateRelayEffect ==
  ASSUME TypeOK, NEW r \in Relays, NEW k \in 1 .. MaxKeys, NEW a \in 0 .. MaxAge,
         UpdateRelay(r, k, a)
  PROVE  /\ Network' \in [Relays -> View \union {NoView}]
         /\ Network'[r] \in View /\ Network'[r] # NoView
         /\ Network'[r].age <= a
         /\ Network'[r].age = a \/ (Network[r] # NoView /\ Network'[r].age = Network[r].age)
         /\ Network[r] # NoView => Network'[r].age <= Network[r].age
         /\ \A q \in Relays : q # r => Network'[q] = Network[q]
<1> DEFINE v == IF Network[r] = NoView THEN [key |-> k, age |-> a] ELSE Network[r]
<1>1. Network \in [Relays -> View \union {NoView}]
  BY DEF TypeOK
<1>2. v \in View /\ (Network[r] # NoView => v = Network[r]) /\ (Network[r] = NoView => v.age = a)
  BY <1>1, Views
<1>3. Network' = [Network EXCEPT ![r] = UpdateNode(v, a)]
  BY DEF UpdateRelay
<1> HIDE DEF v
<1>4. UpdateNode(v, a) \in View /\ UpdateNode(v, a).age = IF v.age < a THEN v.age ELSE a
  BY <1>2 DEF UpdateNode, View
<1>5. Network'[r] = UpdateNode(v, a) /\ \A q \in Relays : q # r => Network'[q] = Network[q]
  BY <1>1, <1>3
<1>6. Network' \in [Relays -> View \union {NoView}]
  BY <1>1, <1>3, <1>4
<1>7. v.age \in 0 .. MaxAge
  BY <1>2, Views
<1>8. /\ UpdateNode(v, a).age <= a
      /\ UpdateNode(v, a).age <= v.age
      /\ UpdateNode(v, a).age = a \/ UpdateNode(v, a).age = v.age
  BY <1>4, <1>7
<1> QED
  BY <1>2, <1>4, <1>5, <1>6, <1>8, Views

LEMMA InitInv == Init => IInv
<1> SUFFICES ASSUME Init PROVE IInv
  OBVIOUS
<1>1. TypeOK
  BY BoundsAssumption DEF Init, TypeOK, RelayProcess, ClientProcess
<1>2. PhasesMatchPosts /\ AnsweredIsListed /\ RegisteredIsListed
  BY DEF Init, PhasesMatchPosts, AnsweredIsListed, RegisteredIsListed
<1>3. HeartbeatsPunctual /\ StampsHonest /\ NoFresherThanSent
  BY DEF Init, HeartbeatsPunctual, StampsHonest, NoFresherThanSent
<1> QED
  BY <1>1, <1>2, <1>3 DEF IInv

-----------------------------------------------------------------------------
(* Steps of the bulletin board                                             *)

LEMMA HandleRelayPostInv ==
  ASSUME IInv, NEW r \in Relays, HandleRelayPost(r)
  PROVE  IInv'
<1> USE DEF IInv
<1>1. /\ relay[r].post = "request" /\ relay' = [relay EXCEPT ![r].post = "reply"]
      /\ UpdateRelay(r, relay[r].key, relay[r].wait)
      /\ lostRelays' = lostRelays \ {r}
      /\ UNCHANGED <<ClientViews, registering, client, strays, sinceSent, lostClients>>
  BY DEF HandleRelayPost
<1>2. /\ relay[r].wait \in 0 .. MaxDelay /\ relay[r].wait \in 0 .. MaxAge
      /\ relay[r].key \in 1 .. MaxKeys
      /\ relay[r].phase \in {"registering", "up"}
      /\ relay[r] \in RelayProcess
  BY <1>1, BoundsAssumption DEF TypeOK, RelayProcess, PhasesMatchPosts
<1>3. /\ Network' \in [Relays -> View \union {NoView}]
      /\ Network'[r] \in View /\ Network'[r] # NoView
      /\ Network'[r].age <= relay[r].wait
      /\ Network'[r].age = relay[r].wait
           \/ (Network[r] # NoView /\ Network'[r].age = Network[r].age)
      /\ \A q \in Relays : q # r => Network'[q] = Network[q]
  BY <1>1, <1>2, UpdateRelayEffect
<1>4. /\ relay'[r].post = "reply"
      /\ relay'[r].phase = relay[r].phase /\ relay'[r].key = relay[r].key
      /\ relay'[r].wait = relay[r].wait /\ relay'[r].due = relay[r].due
      /\ \A q \in Relays : q # r => relay'[q] = relay[q]
      /\ relay' \in [Relays -> RelayProcess]
  BY <1>1, <1>2 DEF TypeOK, RelayProcess
<1>5. TypeOK'
  BY <1>1, <1>3, <1>4 DEF TypeOK
<1>6. PhasesMatchPosts'
  BY <1>1, <1>2, <1>4 DEF PhasesMatchPosts
<1>7. AnsweredIsListed' /\ RegisteredIsListed'
  BY <1>1, <1>3, <1>4 DEF AnsweredIsListed, RegisteredIsListed
<1>8. HeartbeatsPunctual'
  BY <1>1, <1>3, <1>4 DEF HeartbeatsPunctual
<1>9. StampsHonest' /\ NoFresherThanSent'
  BY <1>1, <1>3, <1>4 DEF StampsHonest, NoFresherThanSent
<1> QED
  BY <1>5, <1>6, <1>7, <1>8, <1>9

LEMMA HandleStrayInv ==
  ASSUME IInv, NEW s \in strays, HandleStray(s)
  PROVE  IInv'
<1> USE DEF IInv
<1>1. /\ UpdateRelay(s.relay, s.key, s.age)
      /\ strays' = strays \ {s}
      /\ UNCHANGED <<ClientViews, registering, relay, client, sinceSent, lostRelays,
                     lostClients>>
  BY DEF HandleStray
<1>2. s.relay \in Relays /\ s.key \in 1 .. MaxKeys /\ s.age \in 0 .. MaxAge
  BY DEF TypeOK
<1> DEFINE r == s.relay
<1>3. /\ Network' \in [Relays -> View \union {NoView}]
      /\ Network'[r] \in View /\ Network'[r] # NoView
      /\ Network'[r].age = s.age
           \/ (Network[r] # NoView /\ Network'[r].age = Network[r].age)
      /\ Network[r] # NoView => Network'[r].age <= Network[r].age
      /\ \A q \in Relays : q # r => Network'[q] = Network[q]
  BY <1>1, <1>2, UpdateRelayEffect
<1>4. \A q \in Relays :
        Network[q] # NoView => /\ Network'[q] # NoView
                               /\ Network'[q].age <= Network[q].age
                               /\ Network[q].age \in Nat /\ Network'[q].age \in Nat
  <2> SUFFICES ASSUME NEW q \in Relays, Network[q] # NoView
               PROVE  /\ Network'[q] # NoView
                      /\ Network'[q].age <= Network[q].age
                      /\ Network[q].age \in Nat /\ Network'[q].age \in Nat
    OBVIOUS
  <2>1. Network[q] \in View /\ Network[q].age \in 0 .. MaxAge
    BY Views DEF TypeOK
  <2>2. CASE q = r
    BY <1>3, <2>1, <2>2, Views
  <2>3. CASE q # r
    BY <1>3, <2>1, <2>3
  <2> QED
    BY <2>2, <2>3
<1>5. TypeOK'
  BY <1>1, <1>3 DEF TypeOK
<1>6. PhasesMatchPosts'
  BY <1>1 DEF PhasesMatchPosts
<1>7. AnsweredIsListed' /\ RegisteredIsListed'
  <2>1. \A q \in Relays : relay[q].wait \in Nat
    BY BoundsAssumption DEF TypeOK, RelayProcess
  <2> QED
    BY <1>1, <1>4, <2>1 DEF AnsweredIsListed, RegisteredIsListed
<1>8. HeartbeatsPunctual'
  <2> SUFFICES ASSUME NEW q \in Relays \ lostRelays, relay[q].phase = "up"
               PROVE  /\ Network'[q] # NoView
                      /\ relay[q].post = "none" =>
                           Network'[q].age <= MaxDelay + (IF relay[q].due THEN 1 ELSE 0)
                      /\ relay[q].post = "request" =>
                           Network'[q].age <= MaxDelay + 1 + relay[q].wait
    BY <1>1 DEF HeartbeatsPunctual
  <2>1. relay[q].wait \in Nat /\ MaxDelay \in Nat
    BY BoundsAssumption DEF TypeOK, RelayProcess
  <2> QED
    BY <1>4, <2>1 DEF HeartbeatsPunctual
<1>9. StampsHonest' /\ NoFresherThanSent'
  BY <1>1, <1>2, <1>3 DEF StampsHonest, NoFresherThanSent
<1> QED
  BY <1>5, <1>6, <1>7, <1>8, <1>9

\* The steps of client registration change nothing for the relays.
LEMMA ClientStepInv ==
  ASSUME IInv, UNCHANGED <<Network, relay, strays, sinceSent, lostRelays>>,
         lostClients' \subseteq Clients,
         ClientViews' \in [Clients -> 0 .. MaxKeys],
         registering' \subseteq [client : Clients, key : 1 .. MaxKeys],
         client' \in [Clients -> ClientProcess],
         \A c \in Clients :
           /\ client'[c].phase # "off" => client'[c].key > 0
           /\ client'[c].post # "none" => client'[c].phase # "off"
           /\ c \notin lostClients' /\ (client'[c].post = "reply" \/ client'[c].phase = "up") =>
                ClientViews'[c] # 0 \/ \E g \in registering' : g.client = c
  PROVE  IInv'
<1> USE DEF IInv
<1>1. TypeOK'
  BY DEF TypeOK
<1>2. PhasesMatchPosts' /\ AnsweredIsListed' /\ RegisteredIsListed'
  BY DEF PhasesMatchPosts, AnsweredIsListed, RegisteredIsListed
<1>3. HeartbeatsPunctual' /\ StampsHonest' /\ NoFresherThanSent'
  BY DEF HeartbeatsPunctual, StampsHonest, NoFresherThanSent
<1> QED
  BY <1>1, <1>2, <1>3

LEMMA ClientInv ==
  ASSUME IInv, NEW c \in Clients, ClientNext(c)
  PROVE  IInv'
<1>0. /\ client \in [Clients -> ClientProcess] /\ client[c] \in ClientProcess
      /\ ClientViews \in [Clients -> 0 .. MaxKeys]
      /\ registering \subseteq [client : Clients, key : 1 .. MaxKeys]
      /\ lostClients \subseteq Clients
      /\ \A d \in Clients : /\ client[d].phase # "off" => client[d].key > 0
                            /\ client[d].post # "none" => client[d].phase # "off"
                            /\ d \notin lostClients
                               /\ (client[d].post = "reply" \/ client[d].phase = "up") =>
                                 ClientViews[d] # 0 \/ \E g \in registering : g.client = d
  BY DEF IInv, TypeOK, PhasesMatchPosts, AnsweredIsListed, RegisteredIsListed
<1>1. CASE NewClient(c)
  <2>1. [phase |-> "registering", key |-> client[c].key + 1, post |-> "request"] \in ClientProcess
    BY <1>0, <1>1, BoundsAssumption DEF NewClient, ClientProcess
  <2>2. client' = [client EXCEPT ![c] = [phase |-> "registering", key |-> client[c].key + 1,
                                         post |-> "request"]]
    BY <1>0, <1>1 DEF NewClient
  <2>3. client[c].key \in Nat
    BY <1>0, BoundsAssumption DEF ClientProcess
  <2> QED
    BY <1>0, <1>1, <2>1, <2>2, <2>3, ClientStepInv DEF NewClient, boardVars
<1>2. CASE ClientPostSucceeds(c) \/ ClientPostFails(c) \/ CrashClient(c)
  <2>1. PICK p \in {"up", "sleep", "off"} :
          /\ client' = [client EXCEPT ![c].post = "none", ![c].phase = p]
          /\ p = "up" => client[c].post = "reply"
          /\ client[c].phase # "off"
    BY <1>0, <1>2 DEF ClientPostSucceeds, ClientPostFails, CrashClient
  <2>2. /\ client' \in [Clients -> ClientProcess]
        /\ client'[c].phase = p /\ client'[c].post = "none" /\ client'[c].key = client[c].key
        /\ \A d \in Clients : d # c => client'[d] = client[d]
    BY <1>0, <2>1 DEF ClientProcess
  <2> DEFINE g == [client |-> c, key |-> client[c].key]
  <2>3. g \in [client : Clients, key : 1 .. MaxKeys]
    BY <1>0, <2>1, BoundsAssumption DEF ClientProcess
  <2>4. registering' = registering \/ registering' = registering \union {g}
    BY <1>2 DEF ClientPostSucceeds, ClientPostFails, CrashClient, ClientMayStray, boardVars
  <2> HIDE DEF g
  <2>5. UNCHANGED <<Network, ClientViews, relay, strays, sinceSent, lostRelays, lostClients>>
    BY <1>2 DEF ClientPostSucceeds, ClientPostFails, CrashClient, boardVars
  <2> QED
    BY <1>0, <2>1, <2>2, <2>3, <2>4, <2>5, ClientStepInv
<1>3. CASE HandleRegisterClient(c)
  <2> DEFINE g == [client |-> c, key |-> client[c].key]
  <2>1. g \in [client : Clients, key : 1 .. MaxKeys]
    BY <1>0, <1>3, BoundsAssumption DEF HandleRegisterClient, ClientProcess
  <2>2. registering' = registering \union {g} /\ g.client = c
    BY <1>3 DEF HandleRegisterClient
  <2>3. /\ client' \in [Clients -> ClientProcess]
        /\ client'[c].phase = client[c].phase /\ client'[c].key = client[c].key
        /\ \A d \in Clients : d # c => client'[d] = client[d]
    BY <1>0, <1>3 DEF HandleRegisterClient, ClientProcess
  <2> HIDE DEF g
  <2> QED
    BY <1>0, <1>3, <2>1, <2>2, <2>3, ClientStepInv DEF HandleRegisterClient
<1> QED
  BY <1>1, <1>2, <1>3 DEF ClientNext

LEMMA RegisterClientInv ==
  ASSUME IInv, NEW g \in registering, RegisterClient(g)
  PROVE  IInv'
<1>1. g.client \in Clients /\ g.key \in 1 .. MaxKeys
  BY DEF IInv, TypeOK
<1>2. /\ ClientViews' \in [Clients -> 0 .. MaxKeys]
      /\ ClientViews'[g.client] # 0
      /\ \A d \in Clients : d # g.client => ClientViews'[d] = ClientViews[d]
  BY <1>1, BoundsAssumption DEF RegisterClient, IInv, TypeOK
<1>3. \A c \in Clients \ lostClients' :
        client[c].post = "reply" \/ client[c].phase = "up" =>
          ClientViews'[c] # 0 \/ \E h \in registering' : h.client = c
  BY <1>2 DEF RegisterClient, IInv, AnsweredIsListed, RegisteredIsListed
<1> QED
  BY <1>2, <1>3, ClientStepInv DEF RegisterClient, IInv, TypeOK, PhasesMatchPosts

-----------------------------------------------------------------------------
(* Steps of a relay                                                        *)

\* What the invariant asks of relay r alone, when n is its process and the age
\* of its last time stamp is sent.
Fits(r, n, sent) ==
  /\ n \in RelayProcess
  /\ n.phase = "registering" => n.post # "none"
  /\ n.phase \in {"off", "sleep", "silent"} => n.post = "none"
  /\ n.phase # "off" => n.key > 0
  /\ n.post # "none" => n.wait >= sent
  /\ r \notin lostRelays =>
       /\ n.post = "reply" => Network[r] # NoView /\ Network[r].age <= n.wait
       /\ n.phase \in {"up", "silent"} => Network[r] # NoView
       /\ n.phase = "up" /\ n.post = "none" =>
            Network[r].age <= MaxDelay + (IF n.due THEN 1 ELSE 0)
       /\ n.phase = "up" /\ n.post = "request" => Network[r].age <= MaxDelay + 1 + n.wait

\* A step of relay r that makes n of its process, may leave a stray behind and
\* may send a new time stamp, keeps the invariant if n alone satisfies it.
LEMMA RelayStepInv ==
  ASSUME IInv, NEW r \in Relays, NEW n,
         relay' = [relay EXCEPT ![r] = n],
         UNCHANGED <<Network, ClientViews, registering, client, lostRelays, lostClients>>,
         \/ strays' = strays
         \/ relay[r].post = "request" /\ strays' = strays \union {Abandoned(r)},
         sinceSent' = sinceSent \/ sinceSent' = [sinceSent EXCEPT ![r] = 0],
         Fits(r, n, sinceSent'[r])
  PROVE  IInv'
<1> USE DEF IInv, Fits
<1>1. /\ relay' \in [Relays -> RelayProcess] /\ relay'[r] = n
      /\ \A q \in Relays : q # r => relay'[q] = relay[q]
  BY DEF TypeOK
<1>2. /\ sinceSent' \in [Relays -> 0 .. MaxAge] /\ sinceSent \in [Relays -> 0 .. MaxAge]
      /\ \A q \in Relays : sinceSent'[q] <= sinceSent[q] /\ (q # r => sinceSent'[q] = sinceSent[q])
  BY BoundsAssumption DEF TypeOK
<1>3. \A s \in strays' \ strays :
        s \in [relay : Relays, key : 1 .. MaxKeys, age : 0 .. MaxAge] /\ s.age >= sinceSent[s.relay]
  <2> SUFFICES ASSUME relay[r].post = "request"
               PROVE  /\ Abandoned(r) \in [relay : Relays, key : 1 .. MaxKeys, age : 0 .. MaxAge]
                      /\ Abandoned(r).age >= sinceSent[Abandoned(r).relay]
    OBVIOUS
  <2>1. relay[r].key \in 1 .. MaxKeys /\ relay[r].wait \in 0 .. MaxAge
    BY BoundsAssumption DEF TypeOK, RelayProcess, PhasesMatchPosts
  <2>2. relay[r].wait >= sinceSent[r]
    BY DEF StampsHonest
  <2> QED
    BY <2>1, <2>2 DEF Abandoned
<1>4. TypeOK'
  BY <1>1, <1>2, <1>3 DEF TypeOK
<1>5. PhasesMatchPosts'
  BY <1>1 DEF PhasesMatchPosts
<1>6. AnsweredIsListed' /\ RegisteredIsListed'
  BY <1>1 DEF AnsweredIsListed, RegisteredIsListed
<1>7. HeartbeatsPunctual'
  BY <1>1 DEF HeartbeatsPunctual
<1>8. StampsHonest'
  <2>1. \A q \in Relays : relay'[q].post # "none" => relay'[q].wait >= sinceSent'[q]
    BY <1>1, <1>2 DEF StampsHonest
  <2>2. \A s \in strays' : s.age >= sinceSent[s.relay] /\ s.relay \in Relays /\ s.age \in Nat
    BY <1>3 DEF StampsHonest, TypeOK
  <2>3. \A s \in strays' : s.age >= sinceSent'[s.relay]
    BY <1>2, <2>2
  <2> QED
    BY <2>1, <2>3 DEF StampsHonest
<1>9. NoFresherThanSent'
  <2> SUFFICES ASSUME NEW q \in Relays, Network[q] # NoView
               PROVE  Network[q].age >= sinceSent'[q]
    BY DEF NoFresherThanSent
  <2>1. Network[q].age \in 0 .. MaxAge /\ Network[q].age >= sinceSent[q]
    BY Views DEF TypeOK, NoFresherThanSent
  <2> QED
    BY <1>2, <2>1
<1> QED
  BY <1>4, <1>5, <1>6, <1>7, <1>8, <1>9

LEMMA RelayInv ==
  ASSUME IInv, NEW r \in Relays, RelayNext(r)
  PROVE  IInv'
<1>0. /\ relay \in [Relays -> RelayProcess] /\ relay[r] \in RelayProcess
      /\ relay[r].phase = "registering" => relay[r].post # "none"
      /\ relay[r].phase \in {"off", "sleep", "silent"} => relay[r].post = "none"
      /\ relay[r].phase # "off" => relay[r].key > 0
      /\ relay[r].post # "none" => relay[r].wait >= sinceSent[r]
      /\ r \notin lostRelays =>
           /\ relay[r].post = "reply" => Network[r] # NoView /\ Network[r].age <= relay[r].wait
           /\ relay[r].phase \in {"up", "silent"} => Network[r] # NoView
      /\ relay[r].wait \in 0 .. MaxDelay /\ relay[r].key \in 0 .. MaxKeys
  BY DEF IInv, TypeOK, RelayProcess, PhasesMatchPosts, StampsHonest, AnsweredIsListed,
         RegisteredIsListed
<1>1. Network[r] # NoView => Network[r].age \in Nat
  BY Views DEF IInv, TypeOK
<1>2. MaxDelay \in Nat /\ sinceSent \in [Relays -> 0 .. MaxAge]
  BY BoundsAssumption DEF IInv, TypeOK
<1>3. CASE NewRelay(r)
  <2> DEFINE n == [phase |-> "registering", key |-> relay[r].key + 1, due |-> FALSE,
                   post |-> "request", wait |-> 0]
  <2>1. n \in RelayProcess /\ n.phase = "registering" /\ n.post = "request" /\ n.key > 0
        /\ n.wait = 0
    BY <1>0, <1>3, BoundsAssumption DEF NewRelay, RelayProcess
  <2>2. relay' = [relay EXCEPT ![r] = n]
    BY <1>0, <1>3 DEF NewRelay
  <2> HIDE DEF n
  <2>3. /\ sinceSent' = [sinceSent EXCEPT ![r] = 0] /\ sinceSent'[r] = 0
        /\ UNCHANGED <<Network, ClientViews, registering, client, strays, lostRelays, lostClients>>
    BY <1>2, <1>3 DEF NewRelay, boardVars
  <2>4. Fits(r, n, sinceSent'[r])
    BY <2>1, <2>3 DEF Fits
  <2> QED
    BY <2>2, <2>3, <2>4, RelayStepInv
<1>4. CASE Heartbeat(r)
  <2> DEFINE n == [relay[r] EXCEPT !.due = FALSE, !.post = "request", !.wait = 0]
  <2>1. n \in RelayProcess /\ n.phase = "up" /\ n.post = "request" /\ n.key > 0 /\ n.wait = 0
    BY <1>0, <1>4, BoundsAssumption DEF Heartbeat, RelayProcess
  <2>2. relay' = [relay EXCEPT ![r] = n]
    BY <1>0, <1>4 DEF Heartbeat, RelayProcess
  <2> HIDE DEF n
  <2>3. /\ sinceSent' = [sinceSent EXCEPT ![r] = 0] /\ sinceSent'[r] = 0
        /\ UNCHANGED <<Network, ClientViews, registering, client, strays, lostRelays, lostClients>>
    BY <1>2, <1>4 DEF Heartbeat, boardVars
  <2>4. r \notin lostRelays => Network[r] # NoView /\ Network[r].age <= MaxDelay + 1
    <3>1. relay[r].phase = "up" /\ relay[r].due /\ relay[r].post = "none"
      BY <1>4 DEF Heartbeat
    <3> QED
      BY <3>1 DEF IInv, HeartbeatsPunctual
  <2>5. Fits(r, n, sinceSent'[r])
    BY <1>1, <1>2, <2>1, <2>3, <2>4 DEF Fits
  <2> QED
    BY <2>2, <2>3, <2>5, RelayStepInv
<1>5. CASE PostSucceeds(r)
  <2> DEFINE n == [relay[r] EXCEPT !.post = "none", !.wait = 0, !.phase = "up"]
  <2>1. 0 \in 0 .. MaxDelay
    BY <1>2
  <2>2. n \in RelayProcess /\ n.phase = "up" /\ n.post = "none" /\ n.key = relay[r].key
        /\ n.due = relay[r].due /\ n.wait = 0
    BY <1>0, <2>1 DEF RelayProcess
  <2>3. relay' = [relay EXCEPT ![r] = n]
    BY <1>0, <1>5 DEF PostSucceeds, RelayProcess
  <2> HIDE DEF n
  <2>4. /\ relay[r].post = "reply"
        /\ UNCHANGED <<Network, ClientViews, registering, client, strays, sinceSent, lostRelays,
                       lostClients>>
    BY <1>5 DEF PostSucceeds, boardVars
  <2>5. r \notin lostRelays => Network[r] # NoView /\ Network[r].age <= MaxDelay
    BY <1>0, <1>1, <1>2, <2>4
  <2>6. r \notin lostRelays => Network[r].age <= MaxDelay + (IF n.due THEN 1 ELSE 0)
    BY <1>1, <1>2, <2>5
  <2>7. Fits(r, n, sinceSent'[r])
    BY <1>0, <2>2, <2>4, <2>5, <2>6 DEF Fits
  <2> QED
    BY <2>3, <2>4, <2>7, RelayStepInv
<1>6. CASE PostFails(r) \/ CrashRelay(r)
  <2> DEFINE p == IF CrashRelay(r) THEN "off"
                  ELSE IF relay[r].phase = "registering" THEN "sleep" ELSE "silent"
             n == [relay[r] EXCEPT !.post = "none", !.wait = 0, !.due = FALSE, !.phase = p]
  <2>1. /\ p \in {"off", "sleep", "silent"}
        /\ p = "silent" => relay[r].phase = "up"
        /\ relay[r].phase # "off"
    BY <1>0, <1>6 DEF PostFails, CrashRelay, RelayProcess
  <2>2. relay' = [relay EXCEPT ![r] = n]
    <3>1. CASE CrashRelay(r)
      BY <1>0, <3>1 DEF CrashRelay, RelayProcess
    <3>2. CASE ~CrashRelay(r)
      <4>1. PostFails(r)
        BY <1>6, <3>2
      <4> QED
        BY <1>0, <3>2, <4>1 DEF PostFails, RelayProcess
    <3> QED
      BY <3>1, <3>2
  <2> HIDE DEF p
  <2>3. 0 \in 0 .. MaxDelay
    BY <1>2
  <2>4. n \in RelayProcess /\ n.phase = p /\ n.post = "none" /\ n.key = relay[r].key
    BY <1>0, <2>1, <2>3 DEF RelayProcess
  <2> HIDE DEF n
  <2>5. /\ UNCHANGED <<Network, ClientViews, registering, client, sinceSent, lostRelays, lostClients>>
        /\ \/ strays' = strays
           \/ relay[r].post = "request" /\ strays' = strays \union {Abandoned(r)}
    BY <1>6 DEF PostFails, CrashRelay, MayStray, boardVars
  <2>6. Fits(r, n, sinceSent'[r])
    BY <1>0, <2>1, <2>4, <2>5 DEF Fits
  <2> QED
    BY <2>2, <2>5, <2>6, RelayStepInv
<1> QED
  BY <1>3, <1>4, <1>5, <1>6, HandleRelayPostInv DEF RelayNext

-----------------------------------------------------------------------------
(* Time passes                                                             *)

LEMMA TickInv == IInv /\ Tick => IInv'
<1> SUFFICES ASSUME IInv, Tick PROVE IInv'
  OBVIOUS
<1> USE DEF IInv
<1>1. \A r \in Relays :
        /\ relay'[r] \in RelayProcess
        /\ relay'[r].phase = relay[r].phase /\ relay'[r].key = relay[r].key
        /\ relay'[r].post = relay[r].post
        /\ relay'[r].due = (relay[r].phase = "up")
        /\ relay'[r].wait = IF relay[r].post = "none" THEN 0 ELSE relay[r].wait + 1
        /\ relay[r].wait \in 0 .. MaxDelay
        /\ relay[r].post # "none" => relay[r].wait < MaxDelay
  <2> SUFFICES ASSUME NEW r \in Relays
               PROVE  /\ relay'[r] \in RelayProcess
                      /\ relay'[r].phase = relay[r].phase /\ relay'[r].key = relay[r].key
                      /\ relay'[r].post = relay[r].post
                      /\ relay'[r].due = (relay[r].phase = "up")
                      /\ relay'[r].wait = IF relay[r].post = "none" THEN 0 ELSE relay[r].wait + 1
                      /\ relay[r].wait \in 0 .. MaxDelay
                      /\ relay[r].post # "none" => relay[r].wait < MaxDelay
    OBVIOUS
  <2> DEFINE w == IF relay[r].post = "none" THEN 0 ELSE relay[r].wait + 1
             d == relay[r].phase = "up"
  <2>1. relay[r] \in RelayProcess /\ (relay[r].post # "none" => relay[r].wait < MaxDelay)
    BY DEF Tick, TypeOK
  <2>2. relay[r].wait \in 0 .. MaxDelay
    BY <2>1 DEF RelayProcess
  <2>3. w \in 0 .. MaxDelay /\ d \in BOOLEAN
    BY <2>1, <2>2, BoundsAssumption
  <2>4. relay'[r] = [relay[r] EXCEPT !.due = d, !.wait = w]
    BY <2>1 DEF Tick, RelayProcess
  <2> HIDE DEF w, d
  <2>5. /\ relay'[r] \in RelayProcess /\ relay'[r].phase = relay[r].phase
        /\ relay'[r].key = relay[r].key /\ relay'[r].post = relay[r].post
        /\ relay'[r].due = d /\ relay'[r].wait = w
    BY <2>1, <2>3, <2>4 DEF RelayProcess
  <2> QED
    BY <2>1, <2>2, <2>5 DEF w, d
<1>2. \A r \in Relays :
        /\ Network[r] = NoView => Network'[r] = NoView
        /\ Network[r] # NoView => /\ Network'[r] \in View /\ Network'[r] # NoView
                                  /\ Network[r].age \in 0 .. MaxAge
                                  /\ Network'[r].age = Older(Network[r].age)
  <2> SUFFICES ASSUME NEW r \in Relays, Network[r] # NoView
               PROVE  /\ Network'[r] \in View /\ Network'[r] # NoView
                      /\ Network[r].age \in 0 .. MaxAge
                      /\ Network'[r].age = Older(Network[r].age)
    BY DEF Tick
  <2>1. Network[r] \in View /\ Network[r].age \in 0 .. MaxAge
    BY Views DEF TypeOK
  <2>2. Network'[r] = [Network[r] EXCEPT !.age = Older(Network[r].age)]
    BY DEF Tick
  <2>3. Older(Network[r].age) \in 0 .. MaxAge
    BY <2>1, OlderType
  <2>4. Network'[r] \in View /\ Network'[r].age = Older(Network[r].age)
    BY <2>1, <2>2, <2>3 DEF View
  <2> QED
    BY <2>1, <2>4, Views
<1>3. /\ sinceSent \in [Relays -> 0 .. MaxAge]
      /\ sinceSent' = [r \in Relays |-> Older(sinceSent[r])]
      /\ UNCHANGED <<ClientViews, registering, client, lostRelays, lostClients>>
  BY DEF Tick, TypeOK
<1>4. \A t \in strays' :
        /\ t \in [relay : Relays, key : 1 .. MaxKeys, age : 0 .. MaxAge]
        /\ t.age >= Older(sinceSent[t.relay])
  <2> SUFFICES ASSUME NEW s \in strays, NEW t, t = [s EXCEPT !.age = Older(s.age)]
               PROVE  /\ t \in [relay : Relays, key : 1 .. MaxKeys, age : 0 .. MaxAge]
                      /\ t.age >= Older(sinceSent[t.relay])
    BY DEF Tick
  <2>1. s \in [relay : Relays, key : 1 .. MaxKeys, age : 0 .. MaxAge] /\ s.age >= sinceSent[s.relay]
    BY DEF TypeOK, StampsHonest
  <2>2. Older(s.age) \in 0 .. MaxAge /\ Older(s.age) >= Older(sinceSent[s.relay])
    BY <1>3, <2>1, OlderType
  <2>3. /\ t \in [relay : Relays, key : 1 .. MaxKeys, age : 0 .. MaxAge]
        /\ t.age = Older(s.age) /\ t.relay = s.relay
    BY <2>1, <2>2
  <2> QED
    BY <2>2, <2>3
<1>5. TypeOK'
  <2>1. relay' \in [Relays -> RelayProcess]
    BY <1>1 DEF Tick
  <2>2. Network' \in [Relays -> View \union {NoView}]
    BY <1>2 DEF Tick
  <2>3. sinceSent' \in [Relays -> 0 .. MaxAge]
    BY <1>3, OlderType
  <2> QED
    BY <1>3, <1>4, <2>1, <2>2, <2>3 DEF TypeOK
<1>6. PhasesMatchPosts'
  BY <1>1, <1>3 DEF PhasesMatchPosts
<1>7. AnsweredIsListed'
  <2>1. \A r \in Relays \ lostRelays : relay'[r].post = "reply" =>
          Network'[r] # NoView /\ Network'[r].age <= relay'[r].wait
    <3> SUFFICES ASSUME NEW r \in Relays \ lostRelays, relay'[r].post = "reply"
                 PROVE  Network'[r] # NoView /\ Network'[r].age <= relay'[r].wait
      OBVIOUS
    <3>1. relay'[r].wait = relay[r].wait + 1 /\ relay[r].wait \in Nat
      BY <1>1, BoundsAssumption
    <3>2. Network[r] # NoView /\ Network[r].age <= relay[r].wait
      BY <1>1 DEF AnsweredIsListed
    <3>3. Older(Network[r].age) <= Network[r].age + 1 /\ Older(Network[r].age) \in Nat
      BY <1>2, <3>2, OlderType, BoundsAssumption
    <3> QED
      BY <1>2, <3>1, <3>2, <3>3
  <2> QED
    BY <1>3, <2>1 DEF AnsweredIsListed
<1>8. RegisteredIsListed'
  BY <1>1, <1>2, <1>3 DEF RegisteredIsListed
<1>9. HeartbeatsPunctual'
  <2> SUFFICES ASSUME NEW r \in Relays \ lostRelays, relay[r].phase = "up"
               PROVE  /\ Network'[r] # NoView
                      /\ relay[r].post = "none" => Network'[r].age <= MaxDelay + 1
                      /\ relay[r].post = "request" =>
                           Network'[r].age <= MaxDelay + 1 + relay'[r].wait
    BY <1>1, <1>3 DEF HeartbeatsPunctual
  <2>1. /\ Network[r] # NoView
        /\ relay[r].post = "none" => Network[r].age <= MaxDelay
        /\ relay[r].post = "request" => Network[r].age <= MaxDelay + 1 + relay[r].wait
    <3>1. relay[r].post = "none" => relay[r].due = FALSE
      BY DEF Tick, TypeOK, RelayProcess
    <3>2. MaxDelay \in Nat
      BY BoundsAssumption
    <3> QED
      BY <3>1, <3>2 DEF HeartbeatsPunctual
  <2>2. Network'[r].age <= Network[r].age + 1 /\ Network'[r].age \in Nat /\ Network[r].age \in Nat
    BY <1>2, <2>1, OlderType, BoundsAssumption
  <2> QED
    BY <1>1, <1>2, <2>1, <2>2, BoundsAssumption
<1>10. StampsHonest'
  <2>1. \A r \in Relays : relay'[r].post # "none" => relay'[r].wait >= sinceSent'[r]
    <3> SUFFICES ASSUME NEW r \in Relays, relay'[r].post # "none"
                 PROVE  relay'[r].wait >= sinceSent'[r]
      OBVIOUS
    <3>1. relay'[r].wait = relay[r].wait + 1 /\ relay[r].wait \in Nat /\ relay[r].wait >= sinceSent[r]
      BY <1>1, BoundsAssumption DEF StampsHonest
    <3>2. sinceSent'[r] <= sinceSent[r] + 1 /\ sinceSent'[r] \in Nat /\ sinceSent[r] \in Nat
      BY <1>3, OlderType, BoundsAssumption
    <3> QED
      BY <3>1, <3>2
  <2> QED
    BY <1>3, <1>4, <2>1 DEF StampsHonest
<1>11. NoFresherThanSent'
  BY <1>2, <1>3, OlderType DEF NoFresherThanSent
<1> QED
  BY <1>5, <1>6, <1>7, <1>8, <1>9, <1>10, <1>11

\* A board that restarts has forgotten everybody and owes nothing to anybody
\* before it hears from them.
LEMMA RestartBoardInv == IInv /\ RestartBoard => IInv'
<1> SUFFICES ASSUME IInv, RestartBoard PROVE IInv'
  OBVIOUS
<1>1. /\ Network' = [r \in Relays |-> NoView] /\ ClientViews' = [c \in Clients |-> 0]
      /\ registering' = {} /\ strays' = {} /\ lostRelays' = Relays /\ lostClients' = Clients
      /\ UNCHANGED <<relay, client, sinceSent>>
  BY DEF RestartBoard
<1>2. TypeOK'
  BY <1>1, BoundsAssumption DEF IInv, TypeOK
<1>3. PhasesMatchPosts' /\ StampsHonest'
  BY <1>1 DEF IInv, PhasesMatchPosts, StampsHonest
<1>4. AnsweredIsListed' /\ RegisteredIsListed' /\ HeartbeatsPunctual' /\ NoFresherThanSent'
  BY <1>1 DEF AnsweredIsListed, RegisteredIsListed, HeartbeatsPunctual, NoFresherThanSent
<1> QED
  BY <1>2, <1>3, <1>4 DEF IInv

-----------------------------------------------------------------------------

LEMMA NextInv == IInv /\ [Next]_vars => IInv'
<1> SUFFICES ASSUME IInv, [Next]_vars PROVE IInv'
  OBVIOUS
<1>1. CASE Next
  BY <1>1, RelayInv, ClientInv, HandleStrayInv, RegisterClientInv, RestartBoardInv, TickInv DEF Next
<1>2. CASE UNCHANGED vars
  BY <1>2 DEF vars, IInv, TypeOK, PhasesMatchPosts, AnsweredIsListed, RegisteredIsListed,
     HeartbeatsPunctual, StampsHonest, NoFresherThanSent
<1> QED
  BY <1>1, <1>2

\* The board, the relays and the clients keep their types, and what the board
\* lists stays in step with what the processes know of their own requests.
THEOREM Invariance == Spec => []IInv
<1> QED
  BY InitInv, NextInv, PTL DEF Spec

\* Whatever is lost, delayed, repeated or crashes, NewRelay and NewClient
\* return only when the board lists the node or is about to.
THEOREM ReturnedIsListed == Spec => []RegisteredIsListed
<1>1. IInv => RegisteredIsListed
  BY DEF IInv
<1> QED
  BY <1>1, Invariance, PTL

\* No old or stray request makes a relay look more recent than its last own
\* time stamp: a relay that died becomes inactive in time.
THEOREM Honest == Spec => []NoFresherThanSent
<1>1. IInv => NoFresherThanSent
  BY DEF IInv
<1> QED
  BY <1>1, Invariance, PTL

\* If two delays and an interval between heartbeats take less time than the
\* board waits for one, a relay that sends heartbeats is always active.
THEOREM HeartbeatsKeepActive ==
  ASSUME 2 * MaxDelay + 1 < MaxAge
  PROVE  Spec => []HeartbeatingIsActive
<1>1. IInv => HeartbeatingIsActive
  <2> SUFFICES ASSUME IInv, NEW r \in Relays \ lostRelays, relay[r].phase = "up"
               PROVE  Network[r] # NoView /\ Network[r].age < MaxAge
    BY DEF HeartbeatingIsActive, IsActive
  <2>1. /\ relay[r].post \in {"none", "request", "reply"}
        /\ relay[r].wait \in 0 .. MaxDelay
    BY DEF IInv, TypeOK, RelayProcess
  <2>2. Network[r] # NoView /\ Network[r].age \in 0 .. MaxAge
    BY Views DEF IInv, TypeOK, RegisteredIsListed
  <2>3. Network[r].age <= 2 * MaxDelay + 1
    BY <2>1, <2>2, BoundsAssumption DEF IInv, HeartbeatsPunctual, AnsweredIsListed
  <2> QED
    BY <2>2, <2>3, BoundsAssumption
<1> QED
  BY <1>1, Invariance, PTL

\* The board's LastHeartbeat of a relay never goes back, in whatever order
\* requests reach their handlers, unless the board itself restarts.
THEOREM NeverGoesBack == Spec => LastHeartbeatMonotone
<1> DEFINE Forward == \A r \in Relays :
             Network[r] # NoView =>
               Network'[r].age <= Network[r].age \/ Tick \/ RestartBoard
<1>1. IInv /\ [Next]_vars => [Forward]_vars
  <2> SUFFICES ASSUME IInv, Next PROVE Forward
    OBVIOUS
  <2>1. \A r \in Relays : Network[r] # NoView => Network[r].age \in Nat
    BY Views DEF IInv, TypeOK
  <2>2. CASE UNCHANGED Network
    BY <2>1, <2>2
  <2>3. ASSUME NEW r \in Relays, NEW k \in 1 .. MaxKeys, NEW a \in 0 .. MaxAge,
               UpdateRelay(r, k, a)
        PROVE  Forward
    <3>1. /\ Network[r] # NoView => Network'[r].age <= Network[r].age
          /\ \A q \in Relays : q # r => Network'[q] = Network[q]
      BY <2>3, UpdateRelayEffect DEF IInv
    <3> QED
      BY <2>1, <3>1
  <2>4. ASSUME NEW r \in Relays, HandleRelayPost(r) PROVE Forward
    <3>1. relay[r].key \in 1 .. MaxKeys /\ relay[r].wait \in 0 .. MaxAge
      BY <2>4, BoundsAssumption
         DEF HandleRelayPost, IInv, TypeOK, RelayProcess, PhasesMatchPosts
    <3>2. UpdateRelay(r, relay[r].key, relay[r].wait)
      BY <2>4 DEF HandleRelayPost
    <3> QED
      BY <2>3, <3>1, <3>2
  <2>5. ASSUME NEW s \in strays, HandleStray(s) PROVE Forward
    <3>1. s.relay \in Relays /\ s.key \in 1 .. MaxKeys /\ s.age \in 0 .. MaxAge
      BY DEF IInv, TypeOK
    <3> QED
      BY <2>3, <2>5, <3>1 DEF HandleStray
  <2>6. CASE Tick \/ RestartBoard
    BY <2>6
  <2>7. ASSUME NEW r \in Relays, RelayNext(r), ~HandleRelayPost(r) PROVE UNCHANGED Network
    BY <2>7 DEF RelayNext, NewRelay, Heartbeat, PostSucceeds, PostFails, CrashRelay, boardVars
  <2>8. ASSUME NEW c \in Clients, ClientNext(c) PROVE UNCHANGED Network
    BY <2>8 DEF ClientNext, NewClient, ClientPostSucceeds, ClientPostFails, CrashClient,
       HandleRegisterClient, boardVars
  <2>9. ASSUME NEW g \in registering, RegisterClient(g) PROVE UNCHANGED Network
    BY <2>9 DEF RegisterClient
  <2> HIDE DEF Forward
  <2> QED
    BY <2>2, <2>4, <2>5, <2>6, <2>7, <2>8, <2>9 DEF Next
<1> QED
  BY <1>1, Invariance, PTL DEF Spec, LastHeartbeatMonotone
-----------------------------------------------------------------------------
(* Keys                                                                    *)

\* No key is listed, or in a request that is under way, that the relay has not
\* made; keys are numbered in the order in which it makes them.
KeysMade ==
  /\ \A r \in Relays : Network[r].key <= relay[r].key
  /\ \A s \in strays : s.key <= relay[s.relay].key

\* UpdateRelay takes the key for a relay it does not list, and only then.
LEMMA UpdateRelayKeys ==
  ASSUME TypeOK, NEW r \in Relays, NEW k \in 1 .. MaxKeys, NEW a \in 0 .. MaxAge,
         UpdateRelay(r, k, a)
  PROVE  /\ Network'[r].key = IF Network[r] = NoView THEN k ELSE Network[r].key
         /\ \A q \in Relays : q # r => Network'[q] = Network[q]
<1> DEFINE v == IF Network[r] = NoView THEN [key |-> k, age |-> a] ELSE Network[r]
<1>1. v \in View /\ v.key = IF Network[r] = NoView THEN k ELSE Network[r].key
  BY Views DEF TypeOK
<1>2. Network' = [Network EXCEPT ![r] = UpdateNode(v, a)]
  BY DEF UpdateRelay
<1> HIDE DEF v
<1>3. UpdateNode(v, a).key = v.key
  BY <1>1 DEF UpdateNode, View
<1> QED
  BY <1>1, <1>2, <1>3 DEF TypeOK

\* What a step may do to keys: the board lists a key of the relay's if it has
\* none, keeps the one it has, or forgets all; a relay only makes new ones.
LEMMA KeySteps ==
  ASSUME IInv, KeysMade, Next
  PROVE  /\ KeysMade'
         /\ \A r \in Relays :
              /\ relay[r].key <= relay'[r].key
              /\ \/ Network[r] = NoView
                 \/ Network'[r].key = Network[r].key
                 \/ Network' = [q \in Relays |-> NoView]
<1> DEFINE Kept == /\ KeysMade'
                   /\ \A r \in Relays : /\ relay[r].key <= relay'[r].key
                                        /\ \/ Network[r] = NoView
                                           \/ Network'[r].key = Network[r].key
                                           \/ Network' = [q \in Relays |-> NoView]
<1> SUFFICES Kept
  OBVIOUS
<1> USE DEF KeysMade
<1>0. /\ \A r \in Relays : relay[r] \in RelayProcess /\ relay[r].key \in 0 .. MaxKeys
      /\ \A r \in Relays : Network[r] \in View \union {NoView} /\ Network[r].key \in 0 .. MaxKeys
      /\ \A s \in strays : s.relay \in Relays /\ s.key \in 1 .. MaxKeys /\ s.age \in 0 .. MaxAge
      /\ relay \in [Relays -> RelayProcess] /\ MaxKeys \in Nat
  BY BoundsAssumption, Views DEF IInv, TypeOK, RelayProcess, NoView
<1>1. ASSUME NEW r \in Relays, NEW k \in 1 .. MaxKeys, NEW a \in 0 .. MaxAge,
             UpdateRelay(r, k, a), k <= relay[r].key,
             \A q \in Relays : relay'[q].key = relay[q].key,
             strays' \subseteq strays
      PROVE  Kept
  <2>1. /\ Network'[r].key = IF Network[r] = NoView THEN k ELSE Network[r].key
        /\ \A q \in Relays : q # r => Network'[q] = Network[q]
    BY <1>1, UpdateRelayKeys DEF IInv
  <2> QED
    BY <1>0, <1>1, <2>1
<1>2. ASSUME NEW r \in Relays, HandleRelayPost(r) PROVE Kept
  <2>1. relay[r].key \in 1 .. MaxKeys /\ relay[r].wait \in 0 .. MaxAge
    BY <1>2, BoundsAssumption DEF HandleRelayPost, IInv, TypeOK, RelayProcess, PhasesMatchPosts
  <2>2. \A q \in Relays : relay'[q].key = relay[q].key
    BY <1>0, <1>2 DEF HandleRelayPost, RelayProcess
  <2> QED
    BY <1>1, <1>2, <2>1, <2>2 DEF HandleRelayPost
<1>3. ASSUME NEW s \in strays, HandleStray(s) PROVE Kept
  BY <1>0, <1>1, <1>3 DEF HandleStray
<1>4. ASSUME NEW r \in Relays, RelayNext(r), ~HandleRelayPost(r) PROVE Kept
  <2>1. UNCHANGED Network
    BY <1>4 DEF RelayNext, NewRelay, Heartbeat, PostSucceeds, PostFails, CrashRelay, boardVars
  <2>2. \A q \in Relays : relay'[q].key \in Nat /\ relay[q].key <= relay'[q].key
    BY <1>0, <1>4 DEF RelayNext, NewRelay, Heartbeat, PostSucceeds, PostFails, CrashRelay,
       RelayProcess
  <2>3. strays' \subseteq strays \union {Abandoned(r)}
    BY <1>4 DEF RelayNext, NewRelay, Heartbeat, PostSucceeds, PostFails, CrashRelay, MayStray
  <2>4. Abandoned(r).relay = r /\ Abandoned(r).key = relay[r].key
    BY DEF Abandoned
  <2> QED
    BY <1>0, <2>1, <2>2, <2>3, <2>4
<1>5. CASE RestartBoard
  BY <1>0, <1>5 DEF RestartBoard, NoView
<1>6. CASE Tick
  <2>1. \A r \in Relays : Network'[r].key = Network[r].key /\ relay'[r].key = relay[r].key
    BY <1>0, <1>6 DEF Tick, View, RelayProcess
  <2>2. \A t \in strays' : \E s \in strays : t.relay = s.relay /\ t.key = s.key
    <3> SUFFICES ASSUME NEW s \in strays
                 PROVE  /\ [s EXCEPT !.age = Older(@)].relay = s.relay
                        /\ [s EXCEPT !.age = Older(@)].key = s.key
      BY <1>6 DEF Tick
    <3> QED
      BY DEF IInv, TypeOK
  <2> QED
    BY <1>0, <2>1, <2>2
<1>7. CASE \/ \E c \in Clients : ClientNext(c)
           \/ \E g \in registering : RegisterClient(g)
  <2>1. UNCHANGED <<Network, relay, strays>>
    BY <1>7 DEF ClientNext, NewClient, ClientPostSucceeds, ClientPostFails, CrashClient,
       HandleRegisterClient, RegisterClient, boardVars
  <2> QED
    BY <1>0, <2>1
<1> HIDE DEF Kept
<1>8. ASSUME NEW r \in Relays, RelayNext(r) PROVE Kept
  BY <1>2, <1>4, <1>8
<1> QED
  BY <1>3, <1>5, <1>6, <1>7, <1>8 DEF Next

LEMMA KeysMadeInv == Spec => []KeysMade
<1>1. Init => KeysMade
  BY DEF Init, KeysMade, NoView
<1>2. IInv /\ KeysMade /\ [Next]_vars => KeysMade'
  <2>1. KeysMade /\ UNCHANGED vars => KeysMade'
    BY DEF vars, KeysMade
  <2> QED
    BY <2>1, KeySteps
<1> QED
  BY <1>1, <1>2, Invariance, PTL DEF Spec

\* The board never learns a new key of a relay it lists, however often the relay
\* registers again.
ListedKeyStays ==
  [][\A r \in Relays : Network[r] # NoView /\ Network'[r] # NoView =>
       Network'[r].key = Network[r].key]_vars

THEOREM FirstKeyStays == Spec => ListedKeyStays
<1> DEFINE Stays == \A r \in Relays : Network[r] # NoView /\ Network'[r] # NoView =>
                      Network'[r].key = Network[r].key
<1>1. IInv /\ KeysMade /\ [Next]_vars => [Stays]_vars
  <2> SUFFICES ASSUME IInv, KeysMade, Next PROVE Stays
    OBVIOUS
  <2> QED
    BY KeySteps
<1> QED
  BY <1>1, Invariance, KeysMadeInv, PTL DEF Spec, ListedKeyStays

\* A relay is listed with a key that is no longer its own: what a client
\* encrypts for it, it cannot open.
ListedUnderOldKey(r) == Network[r] # NoView /\ Network[r].key # relay[r].key

\* RegistrationStaleKey for any relays and any number of keys: there is no way
\* back from it but a restart of the board, whatever the relay does.
OldKeyStays ==
  [][\A r \in Relays : ListedUnderOldKey(r) =>
       ListedUnderOldKey(r)' \/ Network' = [q \in Relays |-> NoView]]_vars

THEOREM NoWayBack == Spec => OldKeyStays
<1> DEFINE Stuck == \A r \in Relays : ListedUnderOldKey(r) =>
                      ListedUnderOldKey(r)' \/ Network' = [q \in Relays |-> NoView]
<1>1. IInv /\ KeysMade /\ [Next]_vars => [Stuck]_vars
  <2> SUFFICES ASSUME IInv, KeysMade, Next, NEW r \in Relays, ListedUnderOldKey(r),
                      Network' # [q \in Relays |-> NoView]
               PROVE  ListedUnderOldKey(r)'
    OBVIOUS
  <2>1. Network'[r].key = Network[r].key /\ relay[r].key <= relay'[r].key
    BY KeySteps DEF ListedUnderOldKey
  <2>2. /\ Network[r].key \in 1 .. MaxKeys /\ relay[r].key \in Nat /\ relay'[r].key \in Nat
        /\ Network[r].key <= relay[r].key
    <3>1. IInv'
      BY NextInv
    <3> QED
      BY <3>1, Views DEF IInv, TypeOK, RelayProcess, KeysMade, ListedUnderOldKey
  <2>3. Network'[r] # NoView
    BY <2>1, <2>2 DEF NoView
  <2> QED
    BY <2>1, <2>2, <2>3, BoundsAssumption DEF ListedUnderOldKey
<1> QED
  BY <1>1, Invariance, KeysMadeInv, PTL DEF Spec, OldKeyStays
=============================================================================
