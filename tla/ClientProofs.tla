------------------------------ MODULE ClientProofs ------------------------------
(***************************************************************************)
(* Proofs about module Client, for any lists of clients, with or without   *)
(* gaps in the IDs, any order that getRecipient may give the list, any     *)
(* number of checkpoint onions and of repeated start signals.              *)
(***************************************************************************)
EXTENDS Client, FiniteSetTheorems, TLAPS

LEMMA OnionsAreOwn ==
  /\ \A o \in Onions : o[1] \in start.Clients /\ o[2] \in Numbers /\ o \in Own(o[1])
  /\ \A c \in start.Clients : \A o \in Own(c) : o \in Onions /\ o[1] = c
  /\ \A c \in start.Clients : \A o \in Onions : o \in Own(c) <=> o[1] = c
BY DEF Onions, Own

\* What the start signal is made of.
LEMMA StartTypes ==
  ASSUME TypeOK
  PROVE  /\ start.Clients \subseteq Nat \ {0} /\ IsFiniteSet(start.Clients)
         /\ Cardinality(start.Clients) \in Nat
         /\ start.checkpoints \in Nat /\ 0 \in Numbers
         /\ recipients \in [1 .. Cardinality(start.Clients) -> 1 .. Cardinality(start.Clients)]
         /\ \A i, j \in 1 .. Cardinality(start.Clients) : recipients[i] = recipients[j] => i = j
<1>1. start \in Run /\ IsFiniteSet(start.Clients)
  BY RunsAssumption DEF TypeOK
<1>2. start.Clients \subseteq Nat \ {0} /\ start.checkpoints \in Nat
  BY <1>1 DEF Run
<1>3. Cardinality(start.Clients) \in Nat
  BY <1>1, FS_CardinalityType
<1> QED
  BY <1>1, <1>2, <1>3 DEF TypeOK, Lists, Numbers

LEMMA InitInv == Init => IInv
<1> SUFFICES ASSUME Init PROVE IInv
  OBVIOUS
<1>1. client \in [start.Clients -> ClientProcess] /\ \A c \in start.Clients : client[c] = NewClient
  BY DEF Init, NewClient, ClientProcess
<1>2. /\ onion \in [Onions -> [to : start.Clients \union {0}, place : Places, posting : BOOLEAN]]
      /\ \A o \in Onions : onion[o] = Unformed
  BY DEF Init, Unformed, Places
<1>3. TypeOK
  BY <1>1, <1>2 DEF Init, TypeOK
<1>4. \A o \in Onions : /\ onion[o].place = "none" /\ onion[o].to = 0 /\ ~onion[o].posting
                        /\ client[o[1]].wg = 1
  BY <1>1, <1>2, OnionsAreOwn DEF Unformed, NewClient
<1>5. StartedFormed
  BY <1>4 DEF StartedFormed
<1>6. ReceivedArrived /\ SignalsCounted
  BY <1>1 DEF Init, NewClient, ReceivedArrived, SignalsCounted
<1> QED
  BY <1>3, <1>5, <1>6 DEF IInv

\* startRun, from the handler to the release of the lock.
LEMMA ClientInv ==
  ASSUME IInv, NEW c \in start.Clients, ClientNext(c) PROVE IInv'
<1>0. /\ UNCHANGED <<start, recipients>> /\ Onions' = Onions
      /\ TypeOK /\ StartedFormed /\ ReceivedArrived /\ SignalsCounted
  BY DEF ClientNext, HandleStartRun, StartRunRefused, StartRun, StartRunPanics, StartRunEnds,
         IInv, Onions, Numbers
<1>t. /\ client[c] \in ClientProcess /\ signals[c] \in Nat
      /\ client \in [start.Clients -> ClientProcess]
      /\ \A d \in start.Clients : client[d] \in ClientProcess
  BY <1>0 DEF TypeOK
<1>1. CASE HandleStartRun(c)
  <2>1. /\ signals' = [signals EXCEPT ![c] = @ + 1]
        /\ client' = [client EXCEPT ![c].starting = @ + 1]
        /\ onion' = onion
    BY <1>1 DEF HandleStartRun
  <2>2. TypeOK'
    BY <1>0, <1>t, <2>1 DEF TypeOK, ClientProcess
  <2>3. \A d \in start.Clients :
          /\ client'[d].wg = client[d].wg /\ client'[d].sending = client[d].sending
          /\ client'[d].MessagesSent = client[d].MessagesSent
          /\ client'[d].MessagesReceived = client[d].MessagesReceived
    BY <1>t, <2>1 DEF ClientProcess
  <2>4. StartedFormed'
    BY <1>0, <2>1, <2>3, OnionsAreOwn DEF StartedFormed, HasRecipient
  <2>5. ReceivedArrived'
    BY <1>0, <2>1, <2>3 DEF ReceivedArrived
  <2>6. SignalsCounted'
    BY <1>0, <1>t, <2>1 DEF SignalsCounted, ClientProcess, TypeOK
  <2> QED
    BY <2>2, <2>4, <2>5, <2>6 DEF IInv
<1>2. CASE StartRunRefused(c)
  <2>1. /\ client' = [client EXCEPT ![c].starting = @ - 1]
        /\ UNCHANGED <<onion, signals>> /\ client[c].starting > 0
    BY <1>2 DEF StartRunRefused, Locks
  <2>2. TypeOK'
    BY <1>0, <1>t, <2>1 DEF TypeOK, ClientProcess
  <2>3. \A d \in start.Clients :
          /\ client'[d].wg = client[d].wg /\ client'[d].sending = client[d].sending
          /\ client'[d].MessagesSent = client[d].MessagesSent
          /\ client'[d].MessagesReceived = client[d].MessagesReceived
    BY <1>t, <2>1 DEF ClientProcess
  <2>4. StartedFormed'
    BY <1>0, <2>1, <2>3, OnionsAreOwn DEF StartedFormed, HasRecipient
  <2>5. ReceivedArrived'
    BY <1>0, <2>1, <2>3 DEF ReceivedArrived
  <2>6. SignalsCounted'
    BY <1>0, <1>t, <2>1 DEF SignalsCounted, ClientProcess, TypeOK
  <2> QED
    BY <2>2, <2>4, <2>5, <2>6 DEF IInv
<1>3. CASE StartRun(c)
  <2>1. PICK to \in [Own(c) -> start.Clients] :
          /\ to[<<c, 0>>] = getRecipient(c)
          /\ onion' = [o \in Onions |->
                         IF o \in Own(c)
                         THEN [to |-> to[o], place |-> "client", posting |-> TRUE]
                         ELSE onion[o]]
    BY <1>3 DEF StartRun
  <2>2. /\ client' = [client EXCEPT ![c].wg = 0, ![c].starting = @ - 1, ![c].sending = TRUE,
                                    ![c].MessagesSent = @ \union Own(c)]
        /\ client[c].starting > 0 /\ client[c].wg = 1 /\ HasRecipient(c)
        /\ signals' = signals
    BY <1>3 DEF StartRun, Locks
  <2>3. /\ client'[c].wg = 0 /\ client'[c].starting = client[c].starting - 1
        /\ client'[c].sending
        /\ client'[c].MessagesSent = client[c].MessagesSent \union Own(c)
        /\ client'[c].MessagesReceived = client[c].MessagesReceived
        /\ \A d \in start.Clients \ {c} : client'[d] = client[d]
    BY <1>t, <2>2 DEF ClientProcess
  <2>4. TypeOK'
    <3>1. client' \in [start.Clients -> ClientProcess']
      BY <1>0, <1>t, <2>2, OnionsAreOwn DEF ClientProcess
    <3>2. onion' \in [Onions -> [to : start.Clients \union {0}, place : Places, posting : BOOLEAN]]
      BY <1>0, <2>1 DEF TypeOK, Places
    <3> QED
      BY <1>0, <2>2, <3>1, <3>2 DEF TypeOK
  <2>5. ASSUME NEW o \in Onions, o[1] = c
        PROVE  /\ onion'[o].place = "client" /\ onion'[o].to \in start.Clients
               /\ o[2] = 0 => onion'[o].to = recipients[c]
               /\ o \in client'[c].MessagesSent
               /\ onion'[o].posting
    <3>1. o \in Own(c) /\ o = <<c, o[2]>>
      BY <2>5, OnionsAreOwn DEF Onions
    <3> QED
      BY <2>1, <2>3, <3>1 DEF getRecipient
  <2>6. \A o \in Onions : o[1] # c => onion'[o] = onion[o] /\ client'[o[1]] = client[o[1]]
    BY <2>1, <2>3, OnionsAreOwn
  <2>7. StartedFormed'
    <3> DEFINE Formed(o) ==
          /\ onion[o].place # "none" => onion[o].to \in start.Clients
          /\ onion[o].place # "none" /\ o[2] = 0 => onion[o].to = recipients[o[1]]
          /\ onion[o].place # "none" => client[o[1]].wg # 1
          /\ client[o[1]].wg = 0 => onion[o].place # "none" /\ o \in client[o[1]].MessagesSent
          /\ onion[o].place = "none" => onion[o].to = 0
          /\ onion[o].place # "none" => HasRecipient(o[1])
          /\ onion[o].posting => client[o[1]].sending
          /\ onion[o].place = "client" => onion[o].posting
    <3>1. HasRecipient(c)'
      BY <1>0, <2>2 DEF HasRecipient
    <3>2. ASSUME NEW o \in Onions, o[1] = c PROVE Formed(o)'
      BY <1>0, <2>3, <2>5, <3>1, <3>2
    <3>3. ASSUME NEW o \in Onions, o[1] # c PROVE Formed(o)'
      <4>1. Formed(o)
        BY <1>0 DEF StartedFormed
      <4>2. HasRecipient(o[1])' = HasRecipient(o[1])
        BY <1>0 DEF HasRecipient
      <4> QED
        BY <1>0, <2>6, <3>3, <4>1, <4>2
    <3> QED
      BY <1>0, <3>2, <3>3 DEF StartedFormed
  <2>8. ReceivedArrived'
    <3>1. ASSUME NEW d \in start.Clients, NEW o \in client[d].MessagesReceived
          PROVE  o \in Onions /\ o[1] # c
      <4>1. o \in Onions /\ onion[o].place = "arrived"
        BY <1>0, <1>t, <3>1 DEF ReceivedArrived, ClientProcess
      <4>2. client[o[1]].wg # 1
        BY <1>0, <4>1 DEF StartedFormed
      <4> QED
        BY <2>2, <4>1, <4>2
    <3>2. \A d \in start.Clients : client'[d].MessagesReceived = client[d].MessagesReceived
      BY <2>3
    <3> QED
      BY <1>0, <2>6, <3>1, <3>2 DEF ReceivedArrived
  <2>9. SignalsCounted'
    BY <1>0, <1>t, <2>2, <2>3 DEF SignalsCounted, ClientProcess, TypeOK
  <2> QED
    BY <2>4, <2>7, <2>8, <2>9 DEF IInv
<1>4. CASE StartRunPanics(c)
  <2>1. /\ client' = [client EXCEPT ![c] = [NewClient EXCEPT !.wg = -1]]
        /\ client[c].wg = 0 \/ ~HasRecipient(c)
        /\ client[c].starting > 0 /\ ~client[c].sending /\ client[c].wg \in {0, 1}
        /\ UNCHANGED <<onion, signals>>
    BY <1>4, <1>t DEF StartRunPanics, Locks, Running, ClientProcess
  <2>2. /\ client'[c].wg = -1 /\ client'[c].MessagesReceived = {}
        /\ client'[c] \in ClientProcess
        /\ \A d \in start.Clients \ {c} : client'[d] = client[d]
    BY <1>t, <2>1 DEF NewClient, ClientProcess
  <2>3. TypeOK'
    BY <1>0, <1>t, <2>1, <2>2 DEF TypeOK, ClientProcess
  <2>4. StartedFormed'
    BY <1>0, <2>1, <2>2, OnionsAreOwn DEF StartedFormed, HasRecipient
  <2>5. ReceivedArrived'
    BY <1>0, <2>1, <2>2 DEF ReceivedArrived
  <2>6. SignalsCounted'
    <3>1. ASSUME start.Clients = 1 .. Cardinality(start.Clients) PROVE HasRecipient(c)
      BY <1>0, <3>1, StartTypes DEF HasRecipient
    <3>2. client[c].wg = 0 => signals[c] > 1
      BY <1>0, <1>t, <2>1 DEF SignalsCounted, ClientProcess
    <3> QED
      BY <1>0, <2>1, <2>2, <3>1, <3>2 DEF SignalsCounted
  <2> QED
    BY <2>3, <2>4, <2>5, <2>6 DEF IInv
<1>5. CASE StartRunEnds(c)
  <2>1. /\ client' = [client EXCEPT ![c].sending = FALSE]
        /\ \A o \in Own(c) : ~onion[o].posting
        /\ UNCHANGED <<onion, signals>>
    BY <1>5 DEF StartRunEnds
  <2>2. TypeOK'
    BY <1>0, <1>t, <2>1 DEF TypeOK, ClientProcess
  <2>3. \A d \in start.Clients :
          /\ client'[d].wg = client[d].wg /\ client'[d].starting = client[d].starting
          /\ d # c => client'[d].sending = client[d].sending
          /\ client'[d].MessagesSent = client[d].MessagesSent
          /\ client'[d].MessagesReceived = client[d].MessagesReceived
    BY <1>t, <2>1 DEF ClientProcess
  <2>4. StartedFormed'
    BY <1>0, <2>1, <2>3, OnionsAreOwn DEF StartedFormed, HasRecipient
  <2>5. ReceivedArrived'
    BY <1>0, <2>1, <2>3 DEF ReceivedArrived
  <2>6. SignalsCounted'
    BY <1>0, <2>1, <2>3 DEF SignalsCounted
  <2> QED
    BY <2>2, <2>4, <2>5, <2>6 DEF IInv
<1> QED
  BY <1>1, <1>2, <1>3, <1>4, <1>5 DEF ClientNext

\* The goroutines of SendOnion, and what comes back.
LEMMA OnionInv ==
  ASSUME IInv, NEW o \in Onions, OnionNext(o) PROVE IInv'
<1>0. /\ UNCHANGED <<start, recipients, signals>> /\ Onions' = Onions
      /\ TypeOK /\ StartedFormed /\ ReceivedArrived /\ SignalsCounted
  BY DEF OnionNext, Accept, SendOnion, Receive, Lose, IInv, Onions, Numbers
<1>t. /\ onion[o] \in [to : start.Clients \union {0}, place : Places, posting : BOOLEAN]
      /\ onion \in [Onions -> [to : start.Clients \union {0}, place : Places, posting : BOOLEAN]]
      /\ client \in [start.Clients -> ClientProcess]
      /\ \A d \in start.Clients : client[d] \in ClientProcess
  BY <1>0 DEF TypeOK
<1>f. /\ onion[o].place # "none" => onion[o].to \in start.Clients
      /\ onion[o].place = "client" => onion[o].posting
  BY <1>0 DEF StartedFormed
<1>1. CASE ~Receive(o)
  <2>0. UNCHANGED client
    BY <1>1 DEF OnionNext, Accept, SendOnion, Lose
  <2>1. /\ onion' \in [Onions -> [to : start.Clients \union {0}, place : Places, posting : BOOLEAN]]
        /\ onion'[o].to = onion[o].to
        /\ onion'[o].posting => onion[o].posting
        /\ \A p \in Onions \ {o} : onion'[p] = onion[p]
    <3>1. CASE onion' = [onion EXCEPT ![o].place = "relays"]
      BY <1>t, <3>1 DEF Places
    <3>2. CASE onion' = [onion EXCEPT ![o].place = "lost"]
      BY <1>t, <3>2 DEF Places
    <3>3. CASE SendOnion(o)
      <4> DEFINE gone == IF onion[o].place = "client" THEN "lost" ELSE onion[o].place
                 answered == [onion EXCEPT ![o].posting = FALSE]
      <4>1. onion' = [answered EXCEPT ![o].place = gone]
        BY <3>3 DEF SendOnion
      <4>2. gone \in Places
        BY <1>t DEF Places
      <4>3. /\ answered \in [Onions -> [to : start.Clients \union {0}, place : Places, posting : BOOLEAN]]
            /\ answered[o].to = onion[o].to /\ ~answered[o].posting
            /\ \A p \in Onions \ {o} : answered[p] = onion[p]
        BY <1>t
      <4> HIDE DEF gone, answered
      <4> QED
        BY <4>1, <4>2, <4>3
    <3> QED
      BY <1>1, <3>1, <3>2, <3>3 DEF OnionNext, Accept, Lose
  <2>2. /\ onion'[o].place = "none" <=> onion[o].place = "none"
        /\ onion'[o].place # "client"  \/ onion'[o] = onion[o]
        /\ onion[o].place = "arrived" => onion'[o].place = "arrived"
    BY <1>1, <1>t, <1>f DEF OnionNext, Accept, SendOnion, Lose
  <2>3. TypeOK'
    BY <1>0, <2>0, <2>1 DEF TypeOK, ClientProcess
  <2>4. StartedFormed'
    BY <1>0, <2>0, <2>1, <2>2 DEF StartedFormed, HasRecipient
  <2>5. ReceivedArrived'
    <3>1. \A d \in start.Clients : client[d].MessagesReceived \subseteq Onions
      BY <1>t DEF ClientProcess
    <3> QED
      BY <1>0, <2>0, <2>1, <2>2, <3>1 DEF ReceivedArrived
  <2>6. SignalsCounted'
    BY <1>0, <2>0 DEF SignalsCounted
  <2> QED
    BY <2>3, <2>4, <2>5, <2>6 DEF IInv
<1>2. CASE Receive(o)
  <2> DEFINE d == onion[o].to
  <2>1. /\ onion' = [onion EXCEPT ![o].place = "arrived"]
        /\ client' = [client EXCEPT ![d].MessagesReceived = @ \union {o}]
        /\ onion[o].place = "relays" /\ d \in start.Clients
    BY <1>2, <1>f DEF Receive
  <2>2. /\ onion'[o].place = "arrived" /\ onion'[o].to = d
        /\ onion'[o].posting = onion[o].posting
        /\ \A p \in Onions \ {o} : onion'[p] = onion[p]
    BY <1>t, <2>1
  <2>3. /\ client'[d].MessagesReceived = client[d].MessagesReceived \union {o}
        /\ \A e \in start.Clients \ {d} : client'[e] = client[e]
        /\ \A e \in start.Clients : /\ client'[e].wg = client[e].wg
                                    /\ client'[e].starting = client[e].starting
                                    /\ client'[e].sending = client[e].sending
                                    /\ client'[e].MessagesSent = client[e].MessagesSent
    BY <1>t, <2>1 DEF ClientProcess
  <2>4. TypeOK'
    <3>1. client' \in [start.Clients -> ClientProcess']
      <4>1. client[d].MessagesReceived \union {o} \subseteq Onions
        BY <1>t, <2>1 DEF ClientProcess
      <4>2. [client[d] EXCEPT !.MessagesReceived = @ \union {o}] \in ClientProcess
        BY <1>t, <2>1, <4>1 DEF ClientProcess
      <4>3. ClientProcess' = ClientProcess
        BY <1>0 DEF ClientProcess
      <4> QED
        BY <1>t, <2>1, <4>2, <4>3
    <3>2. onion' \in [Onions -> [to : start.Clients \union {0}, place : Places, posting : BOOLEAN]]
      BY <1>t, <2>1 DEF Places
    <3> QED
      BY <1>0, <3>1, <3>2 DEF TypeOK
  <2>5. StartedFormed'
    BY <1>0, <2>1, <2>2, <2>3, OnionsAreOwn DEF StartedFormed, HasRecipient
  <2>6. ReceivedArrived'
    <3>1. \A e \in start.Clients : client[e].MessagesReceived \subseteq Onions
      BY <1>t DEF ClientProcess
    <3>2. o \notin client[d].MessagesReceived
      BY <1>0, <2>1 DEF ReceivedArrived
    <3> QED
      BY <1>0, <2>1, <2>2, <2>3, <3>1, <3>2 DEF ReceivedArrived
  <2>7. SignalsCounted'
    BY <1>0, <2>3 DEF SignalsCounted
  <2> QED
    BY <2>4, <2>5, <2>6, <2>7 DEF IInv
<1> QED
  BY <1>1, <1>2

-----------------------------------------------------------------------------
(* Theorems                                                                *)

\* For any start signal: a client that started has formed and recorded its
\* onions for those they are to go to, and what has been received is one of them.
THEOREM Invariance == Spec => []IInv
<1>1. IInv /\ [Next]_vars => IInv'
  <2> SUFFICES ASSUME IInv, [Next]_vars PROVE IInv'
    OBVIOUS
  <2>1. CASE \E c \in start.Clients : ClientNext(c)
    BY <2>1, ClientInv
  <2>2. CASE \E o \in Onions : OnionNext(o)
    BY <2>2, OnionInv
  <2>3. CASE UNCHANGED vars
    BY <2>3 DEF vars, IInv, TypeOK, StartedFormed, ReceivedArrived, SignalsCounted,
                Onions, Numbers, ClientProcess, HasRecipient
  <2> QED
    BY <2>1, <2>2, <2>3 DEF Next
<1> QED
  BY InitInv, <1>1, PTL DEF Spec

\* No onion travels unrecorded, or reaches a client it was not made for.
THEOREM Recorded == Spec => []ReceivedWasSent
<1>1. IInv => ReceivedWasSent
  <2> SUFFICES ASSUME IInv, NEW d \in start.Clients, NEW o \in client[d].MessagesReceived
               PROVE  /\ onion[o].to = d
                      /\ Running(o[1]) => o \in client[o[1]].MessagesSent
    BY DEF ReceivedWasSent
  <2>1. o \in Onions /\ onion[o].place = "arrived" /\ onion[o].to = d
    BY DEF IInv, TypeOK, ClientProcess, ReceivedArrived
  <2>2. /\ client[o[1]].wg # 1
        /\ client[o[1]].wg = 0 => o \in client[o[1]].MessagesSent
    BY <2>1 DEF IInv, StartedFormed
  <2>3. client[o[1]].wg \in {-1, 0, 1}
    BY <2>1, OnionsAreOwn DEF IInv, TypeOK, ClientProcess
  <2> QED
    BY <2>1, <2>2, <2>3 DEF Running
<1> QED
  BY Invariance, <1>1, PTL

\* On a list whose IDs are 1 .. n, only a repeated start signal ends a client.
THEOREM SafeStart == Spec => []OneStartIsSafe
<1>1. IInv => OneStartIsSafe
  <2> SUFFICES ASSUME IInv, start.Clients = 1 .. Cardinality(start.Clients),
                      NEW c \in start.Clients, ~Running(c)
               PROVE  signals[c] > 1
    BY DEF OneStartIsSafe
  <2>1. client[c].wg = -1
    BY DEF IInv, TypeOK, ClientProcess, Running
  <2> QED
    BY <2>1 DEF IInv, SignalsCounted
<1> QED
  BY Invariance, <1>1, PTL

LEMMA Positions ==
  ASSUME NEW n \in Nat PROVE IsFiniteSet(1 .. n) /\ Cardinality(1 .. n) = n
<1>1. 1 \in Int /\ n \in Int
  OBVIOUS
<1>2. Cardinality(1 .. n) = (IF 1 > n THEN 0 ELSE n - 1 + 1) /\ IsFiniteSet(1 .. n)
  BY <1>1, FS_Interval
<1> QED
  BY <1>2

\* Every position of the list is some client's: a list that gives no position
\* twice leaves none out.
LEMMA ListCovers ==
  ASSUME NEW n \in Nat, NEW f \in [1 .. n -> 1 .. n], NEW d \in 1 .. n,
         \A i, j \in 1 .. n : f[i] = f[j] => i = j
  PROVE  \E i \in 1 .. n : f[i] = d
<1> SUFFICES ASSUME \A i \in 1 .. n : f[i] # d PROVE FALSE
  OBVIOUS
<1> DEFINE rest == (1 .. n) \ {d}
<1>1. IsFiniteSet(1 .. n) /\ Cardinality(1 .. n) = n
  BY Positions
<1>2. IsFiniteSet(rest) /\ Cardinality(rest) = n - 1
  BY <1>1, FS_RemoveElement
<1>3. f \in [1 .. n -> rest]
  OBVIOUS
<1>4. Cardinality(rest) < Cardinality(1 .. n)
  BY <1>1, <1>2
<1>5. \E x, y \in 1 .. n : x # y /\ f[x] = f[y]
  <2> HIDE DEF rest
  <2> QED
    BY <1>1, <1>2, <1>3, <1>4, FS_PigeonHole
<1> QED
  BY <1>5

LEMMA AtMostOne ==
  ASSUME NEW S, NEW x, S \subseteq {x} PROVE Cardinality(S) <= 1
<1>1. CASE S = {}
  BY <1>1, FS_EmptySet
<1>2. CASE S = {x}
  BY <1>2, FS_Singleton
<1> QED
  BY <1>1, <1>2

\* Everybody is written to once, by whoever finds them on the list that all
\* clients make for themselves.
THEOREM WrittenOnce == Spec => []WrittenToOnce
<1>1. IInv => WrittenToOnce
  <2> SUFFICES ASSUME IInv, NEW d \in start.Clients
               PROVE  LET Senders == {c \in start.Clients : onion[<<c, 0>>].to = d}
                      IN /\ Cardinality(Senders) <= 1
                         /\ (\A c \in start.Clients : client[c].wg = 0) => Senders # {}
                         /\ Cardinality({o \in client[d].MessagesReceived : o[2] = 0}) <= 1
    BY DEF WrittenToOnce
  <2> DEFINE n == Cardinality(start.Clients)
             Senders == {c \in start.Clients : onion[<<c, 0>>].to = d}
             Messages == {o \in client[d].MessagesReceived : o[2] = 0}
  <2>t. /\ TypeOK /\ StartedFormed /\ ReceivedArrived
        /\ start.Clients \subseteq Nat \ {0} /\ IsFiniteSet(start.Clients)
        /\ n \in Nat /\ 0 \in Numbers
        /\ recipients \in [1 .. n -> 1 .. n]
        /\ \A i, j \in 1 .. n : recipients[i] = recipients[j] => i = j
    BY StartTypes DEF IInv
  <2>1. ASSUME NEW c \in start.Clients, onion[<<c, 0>>].place # "none"
        PROVE  c \in 1 .. n /\ onion[<<c, 0>>].to = recipients[c]
    <3>1. <<c, 0>> \in Onions
      BY <2>t DEF Onions
    <3>2. c <= n /\ onion[<<c, 0>>].to = recipients[c]
      BY <2>t, <2>1, <3>1 DEF StartedFormed, HasRecipient
    <3> QED
      BY <2>t, <3>2
  <2>2. ASSUME NEW c \in Senders PROVE c \in 1 .. n /\ recipients[c] = d
    <3>1. <<c, 0>> \in Onions /\ d # 0 /\ onion[<<c, 0>>].to = d
      BY <2>t, <2>2 DEF Onions
    <3>2. onion[<<c, 0>>].place # "none"
      BY <2>t, <3>1 DEF StartedFormed
    <3> QED
      BY <2>1, <3>1, <3>2
  <2>3. \A b, c \in Senders : b = c
    BY <2>t, <2>2
  <2>4. Cardinality(Senders) <= 1
    <3> HIDE DEF Senders
    <3>1. \E x : Senders \subseteq {x}
      BY <2>3
    <3> QED
      BY <3>1, AtMostOne
  <2>5. ASSUME \A c \in start.Clients : client[c].wg = 0 PROVE Senders # {}
    <3>1. \A c \in start.Clients : onion[<<c, 0>>].place # "none"
      BY <2>t, <2>5 DEF StartedFormed, Onions
    <3>2. start.Clients \subseteq 1 .. n
      BY <2>1, <3>1
    <3>3. IsFiniteSet(1 .. n) /\ Cardinality(1 .. n) = n
      <4>1. n \in Nat
        BY <2>t
      <4> HIDE DEF n
      <4> QED
        BY <4>1, Positions
    <3>4. start.Clients = 1 .. n
      <4>1. start.Clients \in SUBSET (1 .. n) /\ Cardinality(1 .. n) = Cardinality(start.Clients)
        BY <3>2, <3>3
      <4> QED
        BY <3>3, <4>1, FS_Subset
    <3>5. PICK c \in 1 .. n : recipients[c] = d
      <4>1. /\ n \in Nat /\ recipients \in [1 .. n -> 1 .. n] /\ d \in 1 .. n
            /\ \A i, j \in 1 .. n : recipients[i] = recipients[j] => i = j
        BY <2>t, <3>4
      <4> HIDE DEF n
      <4> QED
        BY <4>1, ListCovers
    <3>6. c \in start.Clients /\ onion[<<c, 0>>].to = d
      BY <2>1, <3>1, <3>4, <3>5
    <3> QED
      BY <3>6
  <2>6. Cardinality(Messages) <= 1
    <3>1. \A o \in Messages : o \in Onions /\ o[2] = 0 /\ onion[o].to = d
      BY <2>t DEF ReceivedArrived, TypeOK, ClientProcess
    <3>2. \A o \in Messages : o = <<o[1], 0>> /\ o[1] \in Senders
      BY <3>1 DEF Onions
    <3>3. \A o, p \in Messages : o = p
      BY <2>3, <3>2
    <3> HIDE DEF Messages
    <3>4. \E x : Messages \subseteq {x}
      BY <3>3
    <3> QED
      BY <3>4, AtMostOne
  <2> QED
    BY <2>4, <2>5, <2>6
<1> QED
  BY Invariance, <1>1, PTL

-----------------------------------------------------------------------------
(* The clients implement Mail                                              *)

\* A status changes for one client only.
LEMMA OneEntry ==
  ASSUME NEW S, NEW f, NEW g, f = [x \in S |-> f[x]], g = [x \in S |-> g[x]],
         NEW c \in S, \A d \in S \ {c} : g[d] = f[d]
  PROVE  g = [f EXCEPT ![c] = g[c]]
<1> DEFINE h == [f EXCEPT ![c] = g[c]]
<1>1. h = [x \in S |-> IF x = c THEN g[c] ELSE f[x]]
  OBVIOUS
<1>2. \A x \in S : h[x] = g[x]
  BY <1>1
<1> HIDE DEF h
<1> QED
  BY <1>1, <1>2 DEF h

\* The books are kept by the clients of the run.
LEMMA Books ==
  ASSUME UNCHANGED start
  PROVE  /\ SentBy = [c \in start.Clients |-> SentBy[c]]
         /\ SentBy' = [c \in start.Clients |-> SentBy'[c]]
         /\ ReceivedBy = [c \in start.Clients |-> ReceivedBy[c]]
         /\ ReceivedBy' = [c \in start.Clients |-> ReceivedBy'[c]]
         /\ \A c \in start.Clients :
              /\ SentBy[c] = client[c].MessagesSent
              /\ SentBy'[c] = client'[c].MessagesSent
              /\ ReceivedBy[c] = client[c].MessagesReceived
              /\ ReceivedBy'[c] = client'[c].MessagesReceived
BY DEF SentBy, ReceivedBy

\* Steps in which nobody's status changes.
LEMMA SameBooks ==
  ASSUME UNCHANGED start,
         \A c \in start.Clients :
           /\ client'[c].MessagesSent = client[c].MessagesSent
           /\ client'[c].MessagesReceived = client[c].MessagesReceived
  PROVE  UNCHANGED <<SentBy, ReceivedBy>>
BY DEF SentBy, ReceivedBy

LEMMA NothingSeen ==
  ASSUME UNCHANGED <<start, onion, SentBy, ReceivedBy>> PROVE UNCHANGED M!vars
<1>1. Numbers' = Numbers /\ Onions' = Onions
  BY DEF Numbers, Onions
<1>2. \A o : Post(o)' = Post(o)
  BY DEF Post
<1>3. UNCHANGED [o \in Onions |-> Post(o)]
  BY <1>1, <1>2
<1> QED
  BY <1>1, <1>3 DEF M!vars

\* The start of a client is the writing of its letters: nobody else has its recipient,
\* since nobody else has its position on the list.
LEMMA StartRunWrites ==
  ASSUME IInv, NEW c \in start.Clients, StartRun(c) PROVE M!Write(c)
<1> DEFINE n == Cardinality(start.Clients)
<1>0. /\ TypeOK /\ StartedFormed
      /\ client[c].wg = 1 /\ HasRecipient(c)
      /\ client' = [client EXCEPT ![c].wg = 0, ![c].starting = @ - 1, ![c].sending = TRUE,
                                  ![c].MessagesSent = @ \union Own(c)]
      /\ UNCHANGED <<start, recipients, signals>>
      /\ Onions' = Onions /\ Numbers' = Numbers
  BY DEF IInv, StartRun, Onions, Numbers
<1>1. PICK to \in [Own(c) -> start.Clients] :
        /\ to[<<c, 0>>] = recipients[c]
        /\ onion' = [o \in Onions |->
                       IF o \in Own(c)
                       THEN [to |-> to[o], place |-> "client", posting |-> TRUE]
                       ELSE onion[o]]
  BY DEF StartRun, getRecipient
<1> DEFINE addressee == [i \in Numbers |-> to[<<c, i>>]]
<1>2. /\ start.Clients \subseteq Nat \ {0} /\ 0 \in Numbers /\ n \in Nat
      /\ recipients \in [1 .. n -> 1 .. n]
      /\ \A i, j \in 1 .. n : recipients[i] = recipients[j] => i = j
  BY <1>0, StartTypes
<1>3. \A i \in Numbers : <<c, i>> \in Own(c) /\ <<c, i>> \in Onions
  BY DEF Own, Onions
<1>4. addressee \in [Numbers -> start.Clients] /\ addressee[0] = recipients[c]
  BY <1>1, <1>2, <1>3
<1>5. \A i \in Numbers : onion[<<c, i>>].place = "none"
  BY <1>0, <1>3 DEF StartedFormed
<1>6. \A i \in Numbers : [o \in Onions |-> Post(o)][<<c, i>>].place = "unwritten"
  BY <1>3, <1>5 DEF Post
<1>7. ASSUME NEW q \in start.Clients
      PROVE  [o \in Onions |-> Post(o)][<<q, 0>>].to # addressee[0]
  <2>1. <<q, 0>> \in Onions
    BY <1>2 DEF Onions
  <2>2. Post(<<q, 0>>).to = onion[<<q, 0>>].to
    BY DEF Post
  <2>3. CASE onion[<<q, 0>>].place = "none"
    <3>1. onion[<<q, 0>>].to = 0
      BY <1>0, <2>1, <2>3 DEF StartedFormed
    <3>2. recipients[c] \in start.Clients
      BY <1>0 DEF HasRecipient
    <3> QED
      BY <1>2, <1>4, <2>1, <2>2, <3>1, <3>2
  <2>4. CASE onion[<<q, 0>>].place # "none"
    <3>1. q # c
      BY <1>2, <1>5, <2>4
    <3>2. onion[<<q, 0>>].to = recipients[q] /\ q <= n /\ c <= n
      BY <1>0, <2>1, <2>4 DEF StartedFormed, HasRecipient
    <3>3. recipients[q] # recipients[c]
      BY <1>2, <3>1, <3>2
    <3> QED
      BY <1>4, <2>1, <2>2, <3>2, <3>3
  <2> QED
    BY <2>3, <2>4
<1>8. [o \in Onions |-> Post(o)]'
        = [o \in Onions |-> IF o[1] = c
                            THEN [to |-> addressee[o[2]], place |-> "underway"]
                            ELSE [p \in Onions |-> Post(p)][o]]
  <2>1. ASSUME NEW o \in Onions, o[1] = c
        PROVE  Post(o)' = [to |-> addressee[o[2]], place |-> "underway"]
    <3>1. o \in Own(c) /\ o = <<c, o[2]>> /\ o[2] \in Numbers
      BY <2>1 DEF Onions, Own
    <3>2. onion'[o].to = to[o] /\ onion'[o].place = "client"
      BY <1>1, <3>1
    <3>3. Post(o)' = [to |-> to[o], place |-> "underway"]
      BY <3>2 DEF Post
    <3> QED
      BY <3>1, <3>3
  <2>2. ASSUME NEW o \in Onions, o[1] # c PROVE Post(o)' = Post(o)
    <3>1. onion'[o] = onion[o]
      BY <1>1, <2>2, OnionsAreOwn
    <3> QED
      BY <3>1 DEF Post
  <2> HIDE DEF addressee
  <2> QED
    BY <1>0, <2>1, <2>2
<1>9. /\ SentBy' = [SentBy EXCEPT ![c] = @ \union ({c} \X Numbers)]
      /\ ReceivedBy' = ReceivedBy
  <2>1. client \in [start.Clients -> ClientProcess]
    BY <1>0 DEF TypeOK
  <2>2. /\ client'[c].MessagesSent = client[c].MessagesSent \union Own(c)
        /\ \A d \in start.Clients \ {c} : client'[d] = client[d]
        /\ \A d \in start.Clients : client'[d].MessagesReceived = client[d].MessagesReceived
    BY <1>0, <2>1 DEF ClientProcess
  <2>u. UNCHANGED start
    BY <1>0
  <2>3. /\ SentBy'[c] = SentBy[c] \union ({c} \X Numbers)
        /\ \A d \in start.Clients \ {c} : SentBy'[d] = SentBy[d]
    BY <2>u, <2>2, Books DEF Own
  <2>4. SentBy' = [SentBy EXCEPT ![c] = SentBy'[c]]
    BY <2>u, <2>3, Books, OneEntry
  <2>5. ReceivedBy' = ReceivedBy
    BY <2>u, <2>2, Books
  <2> QED
    BY <2>3, <2>4, <2>5
<1>10. M!Letters = Onions
  BY DEF M!Letters, Onions
<1> HIDE DEF addressee
<1> QED
  BY <1>0, <1>4, <1>6, <1>7, <1>8, <1>9, <1>10 DEF M!Write

LEMMA ClientRefines ==
  ASSUME IInv, NEW c \in start.Clients, ClientNext(c) PROVE M!Write(c) \/ M!Fall(c) \/ UNCHANGED M!vars
<1>0. client \in [start.Clients -> ClientProcess]
  BY DEF IInv, TypeOK
<1>1. CASE HandleStartRun(c) \/ StartRunRefused(c) \/ StartRunEnds(c)
  <2>1. UNCHANGED <<start, onion>>
    BY <1>1 DEF HandleStartRun, StartRunRefused, StartRunEnds
  <2>2. \A d \in start.Clients :
          /\ client'[d].MessagesSent = client[d].MessagesSent
          /\ client'[d].MessagesReceived = client[d].MessagesReceived
    BY <1>0, <1>1 DEF HandleStartRun, StartRunRefused, StartRunEnds, ClientProcess
  <2> QED
    BY <2>1, <2>2, SameBooks, NothingSeen
<1>2. CASE StartRun(c)
  BY <1>2, StartRunWrites
<1>3. CASE StartRunPanics(c)
  <2>1. /\ client' = [client EXCEPT ![c] = [NewClient EXCEPT !.wg = -1]]
        /\ UNCHANGED <<start, recipients, onion>>
    BY <1>3 DEF StartRunPanics
  <2>2. /\ client'[c].MessagesSent = {} /\ client'[c].MessagesReceived = {}
        /\ \A d \in start.Clients \ {c} : client'[d] = client[d]
    BY <1>0, <2>1 DEF NewClient
  <2>3. /\ SentBy' = [SentBy EXCEPT ![c] = {}]
        /\ ReceivedBy' = [ReceivedBy EXCEPT ![c] = {}]
    <3>1. /\ SentBy'[c] = {} /\ ReceivedBy'[c] = {}
          /\ \A d \in start.Clients \ {c} :
               SentBy'[d] = SentBy[d] /\ ReceivedBy'[d] = ReceivedBy[d]
      BY <2>1, <2>2, Books
    <3>2. SentBy' = [SentBy EXCEPT ![c] = SentBy'[c]]
      BY <2>1, <3>1, Books, OneEntry
    <3>3. ReceivedBy' = [ReceivedBy EXCEPT ![c] = ReceivedBy'[c]]
      BY <2>1, <3>1, Books, OneEntry
    <3> QED
      BY <3>1, <3>2, <3>3
  <2>4. Onions' = Onions /\ Numbers' = Numbers
    BY <2>1 DEF Onions, Numbers
  <2>5. [o \in Onions |-> Post(o)]' = [o \in Onions |-> Post(o)]
    BY <2>1, <2>4 DEF Post
  <2> QED
    BY <2>1, <2>3, <2>4, <2>5 DEF M!Fall
<1> QED
  BY <1>1, <1>2, <1>3 DEF ClientNext

LEMMA OnionRefines ==
  ASSUME IInv, NEW o \in Onions, OnionNext(o) PROVE M!Deliver(o) \/ M!Lose(o) \/ UNCHANGED M!vars
<1> DEFINE post == [p \in Onions |-> Post(p)]
<1>0. /\ TypeOK /\ UNCHANGED start
      /\ client \in [start.Clients -> ClientProcess]
      /\ onion \in [Onions -> [to : start.Clients \union {0}, place : Places, posting : BOOLEAN]]
      /\ Onions' = Onions /\ Numbers' = Numbers
  BY DEF IInv, TypeOK, OnionNext, Accept, SendOnion, Receive, Lose, Onions, Numbers
<1>1. ASSUME UNCHANGED client, onion[o].place \in {"client", "relays"},
             onion'[o].place = "lost", onion'[o].to = onion[o].to,
             \A p \in Onions \ {o} : onion'[p] = onion[p]
      PROVE  M!Lose(o)
  <2>1. Post(o).place = "underway" /\ Post(o)' = [Post(o) EXCEPT !.place = "lost"]
    BY <1>1 DEF Post
  <2>2. \A p \in Onions \ {o} : Post(p)' = Post(p)
    BY <1>1 DEF Post
  <2>3. post[o].place = "underway" /\ post' = [post EXCEPT ![o].place = "lost"]
    BY <1>0, <2>1, <2>2
  <2>4. UNCHANGED <<SentBy, ReceivedBy>>
    BY <1>0, <1>1, SameBooks
  <2> QED
    BY <1>0, <2>3, <2>4 DEF M!Lose
<1>2. ASSUME UNCHANGED client, Post(o)' = Post(o),
             \A p \in Onions \ {o} : onion'[p] = onion[p]
      PROVE  UNCHANGED M!vars
  <2>1. \A p \in Onions : Post(p)' = Post(p)
    BY <1>2 DEF Post
  <2>2. post' = post
    BY <1>0, <2>1
  <2>3. UNCHANGED <<SentBy, ReceivedBy>>
    BY <1>0, <1>2, SameBooks
  <2> QED
    BY <1>0, <2>2, <2>3 DEF M!vars
<1>3. CASE Accept(o)
  <2>1. /\ onion[o].place = "client" /\ onion'[o].place = "relays"
        /\ onion'[o].to = onion[o].to /\ UNCHANGED client
        /\ \A p \in Onions \ {o} : onion'[p] = onion[p]
    BY <1>0, <1>3 DEF Accept
  <2>2. Post(o)' = Post(o)
    BY <2>1 DEF Post
  <2> QED
    BY <1>2, <2>1, <2>2
<1>4. CASE SendOnion(o)
  <2> DEFINE gone == IF onion[o].place = "client" THEN "lost" ELSE onion[o].place
             answered == [onion EXCEPT ![o].posting = FALSE]
  <2>1. onion' = [answered EXCEPT ![o].place = gone] /\ UNCHANGED client
    BY <1>4 DEF SendOnion
  <2>2. /\ answered \in [Onions -> [to : start.Clients \union {0}, place : Places, posting : BOOLEAN]]
        /\ answered[o].to = onion[o].to
        /\ \A p \in Onions \ {o} : answered[p] = onion[p]
    BY <1>0
  <2>3. /\ onion'[o].place = gone /\ onion'[o].to = onion[o].to
        /\ \A p \in Onions \ {o} : onion'[p] = onion[p]
    <3> HIDE DEF answered, gone
    <3> QED
      BY <2>1, <2>2
  <2>4. CASE onion[o].place = "client"
    BY <1>1, <2>1, <2>3, <2>4
  <2>5. CASE onion[o].place # "client"
    <3>1. Post(o)' = Post(o)
      BY <2>3, <2>5 DEF Post
    <3> QED
      BY <1>2, <2>1, <2>3, <3>1
  <2> QED
    BY <2>4, <2>5
<1>5. CASE Receive(o)
  <2> DEFINE d == onion[o].to
  <2>1. /\ onion[o].place = "relays" /\ d \in start.Clients
        /\ onion' = [onion EXCEPT ![o].place = "arrived"]
        /\ client' = [client EXCEPT ![d].MessagesReceived = @ \union {o}]
    BY <1>5 DEF Receive, IInv, StartedFormed
  <2>2. /\ onion'[o].place = "arrived" /\ onion'[o].to = d
        /\ \A p \in Onions \ {o} : onion'[p] = onion[p]
    BY <1>0, <2>1
  <2>3. /\ Post(o).to = d /\ Post(o).place = "underway"
        /\ Post(o)' = [Post(o) EXCEPT !.place = "received"]
    BY <2>1, <2>2 DEF Post
  <2>4. \A p \in Onions \ {o} : Post(p)' = Post(p)
    BY <2>2 DEF Post
  <2>5. /\ post[o].place = "underway" /\ post[o].to = d
        /\ post' = [post EXCEPT ![o].place = "received"]
    BY <1>0, <2>3, <2>4
  <2>6. /\ client'[d].MessagesReceived = client[d].MessagesReceived \union {o}
        /\ \A e \in start.Clients \ {d} : client'[e] = client[e]
        /\ \A e \in start.Clients : client'[e].MessagesSent = client[e].MessagesSent
    BY <1>0, <2>1 DEF ClientProcess
  <2>7. /\ SentBy' = SentBy
        /\ ReceivedBy' = [ReceivedBy EXCEPT ![d] = @ \union {o}]
    <3>1. /\ ReceivedBy'[d] = ReceivedBy[d] \union {o}
          /\ \A e \in start.Clients \ {d} : ReceivedBy'[e] = ReceivedBy[e]
          /\ \A e \in start.Clients : SentBy'[e] = SentBy[e]
      BY <1>0, <2>1, <2>6, Books
    <3>2. ReceivedBy' = [ReceivedBy EXCEPT ![d] = ReceivedBy'[d]]
      <4> HIDE DEF d
      <4> QED
        BY <1>0, <2>1, <3>1, Books, OneEntry
    <3>3. SentBy' = SentBy
      BY <1>0, <3>1, Books
    <3> QED
      BY <3>1, <3>2, <3>3
  <2> HIDE DEF post
  <2>8. ReceivedBy' = [ReceivedBy EXCEPT ![post[o].to] = @ \union {o}]
    BY <2>5, <2>7
  <2> QED
    BY <1>0, <2>5, <2>7, <2>8 DEF M!Deliver, post
<1>6. CASE Lose(o)
  <2>1. /\ onion[o].place = "relays" /\ onion'[o].place = "lost"
        /\ onion'[o].to = onion[o].to /\ UNCHANGED client
        /\ \A p \in Onions \ {o} : onion'[p] = onion[p]
    BY <1>0, <1>6 DEF Lose
  <2> QED
    BY <1>1, <2>1
<1> QED
  BY <1>3, <1>4, <1>5, <1>6 DEF OnionNext

\* Clients that each work out their recipient alone, start, send, receive and panic
\* as it comes, do what a mail service does in which somebody sees to the recipients.
THEOREM Refinement == Spec => ImplementsMail
<1>1. Init => M!Init
  <2> SUFFICES ASSUME Init PROVE M!Init
    OBVIOUS
  <2>1. TypeOK
    BY InitInv DEF IInv
  <2>2. 0 \notin start.Clients /\ 0 \in Numbers
    BY <2>1, StartTypes
  <2>3. \A o \in Onions : Post(o) = [to |-> 0, place |-> "unwritten"]
    BY DEF Init, Unformed, Post
  <2>4. /\ SentBy = [c \in start.Clients |-> {}]
        /\ ReceivedBy = [c \in start.Clients |-> {}]
    BY DEF Init, NewClient, SentBy, ReceivedBy
  <2>5. M!Letters = Onions
    BY DEF M!Letters, Onions
  <2>6. [o \in Onions |-> Post(o)] = [o \in M!Letters |-> [to |-> 0, place |-> "unwritten"]]
    BY <2>3, <2>5
  <2> QED
    BY <2>2, <2>4, <2>6 DEF M!Init
<1>2. IInv /\ [Next]_vars => [M!Next]_(M!vars)
  <2> SUFFICES ASSUME IInv, [Next]_vars PROVE M!Next \/ UNCHANGED M!vars
    OBVIOUS
  <2>1. CASE \E c \in start.Clients : ClientNext(c)
    BY <2>1, ClientRefines DEF M!Next
  <2>2. CASE \E o \in Onions : OnionNext(o)
    <3>1. M!Letters = Onions
      BY DEF M!Letters, Onions
    <3> QED
      BY <2>2, <3>1, OnionRefines DEF M!Next
  <2>3. CASE UNCHANGED vars
    BY <2>3, NothingSeen, SameBooks DEF vars
  <2> QED
    BY <2>1, <2>2, <2>3 DEF Next
<1> QED
  BY Invariance, <1>1, <1>2, PTL DEF Spec, M!Spec, ImplementsMail
=============================================================================
