---------------------------- MODULE OnionTransit ----------------------------
(***************************************************************************)
(* One onion on its way from the sending client through the relays of its  *)
(* path to the recipient: FORMONION at the sender, then at each relay      *)
(* Relay.Receive (relay.go) and the sendToNode it starts, and at the end   *)
(* Client.Receive (client.go).  Whether a relay expects the nonce it finds *)
(* depends on its start signal, which is another module's matter: here it  *)
(* may go either way at each hop.                                          *)
(***************************************************************************)
EXTENDS Onion

VARIABLES
  onion,       \* the onion as last sent, or as held by the relay to send next
  place,       \* "held" to be sent, "wire" in a request, or how it ended
  checkpoint,  \* its metadata carries a nonce in every relay layer
  bruises      \* history: AddBruise calls so far

vars == <<onion, place, checkpoint, bruises>>

Places == {"held", "wire", "received", "discarded", "lost"}

Init ==
  /\ onion = FORMONION
  /\ place = "held"
  /\ checkpoint \in BOOLEAN
  /\ bruises = 0

-----------------------------------------------------------------------------

\* SendOnion hands the onion to the receiver of its layer.
SendOnion ==
  /\ place = "held"
  /\ place' = "wire"
  /\ UNCHANGED <<onion, checkpoint, bruises>>

\* SendOnion returns an error before the receiver accepts; nobody sends again.
SendFails ==
  /\ place = "held"
  /\ place' = "lost"
  /\ UNCHANGED <<onion, checkpoint, bruises>>

\* A mixer bruises an onion with a nonce it does not expect, and only that.
Bruises(role, verified) == role = MIXER /\ checkpoint /\ ~verified

MixedAtGatekeepersToo(role, sepal, verified) ==
  IF checkpoint /\ ~verified THEN AddBruise(sepal) ELSE RemoveBlock(sepal)

\* The sepal a relay sends on.
MixedSepal(role, sepal, verified) ==
  CASE Bruises(role, verified) -> AddBruise(sepal)
    [] role = MIXER /\ ~Bruises(role, verified) -> RemoveBlock(sepal)
    [] OTHER -> sepal

\* Relay.Receive, when PeelOnion succeeds.
RelayReceive(verified) ==
  LET role == Role(onion.layer)
      peeled == PeelOnion(onion)
  IN /\ place = "wire" /\ role # RECIPIENT
     /\ PeelSucceeds(onion)
     /\ onion' = [peeled EXCEPT !.sepal = MixedSepal(role, @, verified)]
     /\ bruises' = IF Bruises(role, verified) THEN bruises + 1 ELSE bruises
     /\ place' = "held"
     /\ UNCHANGED checkpoint

\* Relay.Receive, when PeelOnion fails: the onion goes no further.
RelayDiscard ==
  /\ place = "wire" /\ Role(onion.layer) # RECIPIENT
  /\ ~PeelSucceeds(onion)
  /\ place' = "discarded"
  /\ UNCHANGED <<onion, checkpoint, bruises>>

\* Client.Receive, when PeelOnion succeeds.
ClientReceive ==
  /\ place = "wire" /\ Role(onion.layer) = RECIPIENT
  /\ PeelSucceeds(onion)
  /\ place' = "received"
  /\ UNCHANGED <<onion, checkpoint, bruises>>

Process == (\E verified \in BOOLEAN : RelayReceive(verified))
           \/ RelayDiscard \/ ClientReceive

Next == SendOnion \/ SendFails \/ Process

\* sendToNode and the receiving handler are goroutines that run to the end.
Fairness == WF_vars(SendOnion \/ SendFails) /\ WF_vars(Process)

Spec == Init /\ [][Next]_vars

FairSpec == Spec /\ Fairness

-----------------------------------------------------------------------------
(* Types and the inductive invariant                                       *)

\* Every variable has its type.
TypeOK ==
  /\ onion \in Onion
  /\ place \in Places
  /\ checkpoint \in BOOLEAN
  /\ bruises \in 0 .. L1

\* Layers whose header says mixer.  Without gatekeepers the last mixer's says
\* lastGatekeeper, so it is not one of them.
Mixers == IF L2 = 0 THEN L1 - 1 ELSE L1

\* Mixers the onion has passed.
Mixed == IF onion.layer - 1 <= Mixers THEN onion.layer - 1 ELSE Mixers

\* The block of column c as the receiver of layer i gets it: peeled to k_i,
\* but a null block is plain from layer L1 + 2 on and is retained.
BlockAt(i, c) ==
  IF c <= D THEN formKeyBlock("masterKey", l, i, c)
  ELSE formKeyBlock("null", L1 + 2, IF i <= L1 + 2 THEN i ELSE L1 + 2, c)

\* The sepal on the wire is what is left of row i after one drop per mixer
\* passed, from the left for a bruise and from the right otherwise.
SepalInv ==
  onion.layer < l =>
    /\ Len(onion.sepal) = L1 + 1 - Mixed
    /\ \A j \in 1 .. Len(onion.sepal) :
         onion.sepal[j] = BlockAt(onion.layer, bruises + j)

\* No drop happened at a mixer that was not passed, content and header are of
\* the same layer, and the gate has been passed only below D bruises.
ProgressInv ==
  /\ onion.content = onion.layer
  /\ bruises <= Mixed
  /\ onion.layer = l => bruises < D
  /\ ~checkpoint => bruises = 0
  /\ place = "received" => onion.layer = l
  /\ place = "discarded" => onion.layer = l - 1 /\ bruises >= D

IInv == TypeOK /\ SepalInv /\ ProgressInv

-----------------------------------------------------------------------------
(* Safety                                                                  *)

\* README.md:319: the message is readable iff fewer than D mixers bruised the
\* onion.  relay.go never counts bruises; only the ends the blocks are dropped
\* from can decide which block, key or null, the last gatekeeper finds.
ThresholdDecides ==
  /\ place = "received" => bruises < D
  /\ place = "discarded" => bruises >= D

\* PeelOnion fails at the last gatekeeper or not at all: no order of bruises
\* leaves a mixer, an earlier gatekeeper or the recipient with a block or a
\* content that its key does not open, nor the last gatekeeper with no block
\* (Blocks[0] in peelOnion.go:72 would panic).
OnlyLastGatekeeperFails ==
  place = "wire" =>
    /\ PeelSucceeds(onion) \/ Role(onion.layer) = LAST_GATEKEEPER
    /\ Role(onion.layer) = LAST_GATEKEEPER =>
         onion.sepal # <<>> /\ SepalPeels(onion.sepal, onion.layer)

\* Every sepal that relays produce is one FormSepals has listed among the
\* S_i it hashed into the header, as long as the onion is not doomed: the two
\* computations, ahead of time and hop by hop, agree.
SepalForeseen ==
  place = "wire" /\ onion.layer < l /\ (onion.layer <= L1 \/ bruises < D)
    => onion.sepal \in AllPossibleSepals(onion.layer)

\* The onion implements the abstract bruise counter.
Fate == CASE place = "received" -> "delivered"
          [] place \in {"discarded", "lost"} -> place
          [] OTHER -> "travelling"

Counter == INSTANCE BruiseCounter
             WITH hop <- onion.layer, fate <- Fate, Last <- l - 1

ImplementsCounter == Counter!Spec

-----------------------------------------------------------------------------
(* Liveness                                                                *)

\* An onion with fewer than D bruises reaches its recipient unless a send
\* fails; so a message onion, which no mixer ever bruises, always does when
\* D > 0.
BelowThresholdArrives ==
  <>(place \in {"received", "lost"} \/ (bruises >= D /\ (checkpoint \/ D = 0)))
=============================================================================
