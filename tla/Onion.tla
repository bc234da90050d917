------------------------------- MODULE Onion -------------------------------
(***************************************************************************)
(* Onions as FORMONION builds and PeelOnion opens them: formOnion.go,      *)
(* peelOnion.go and onion_model/{header,content}.go in internal/pi_t.      *)
(*                                                                         *)
(* The header of layer i is only used whole: the relay whose private key   *)
(* it was made for learns its role, the layer key k_i and the next header, *)
(* and nobody else learns anything.  The content C_i is known by the layer *)
(* it belongs to.                                                          *)
(***************************************************************************)
EXTENDS Sepal

MIXER == "mixer"
GATEKEEPER == "gatekeeper"
LAST_GATEKEEPER == "lastGatekeeper"
RECIPIENT == "recipient"

MasterKey == 0       \* the key K; layer keys are 1 .. l

Layers == 1 .. l
Roles == {MIXER, GATEKEEPER, LAST_GATEKEEPER, RECIPIENT}

\* FormHeaders: the role sealed in the header of layer i.
Role(i) ==
  CASE i = l                  -> RECIPIENT
    [] i = l - 1              -> LAST_GATEKEEPER
    [] i > L1 /\ i < l - 1    -> GATEKEEPER
    [] OTHER                  -> MIXER

ContentKeyOfTheLayerBefore(i) == IF i = l THEN MasterKey ELSE i

\* FormContent: the key that opens C_i.  Inside is C_(i+1), or the message.
ContentKey(i) == IF i = l - 1 THEN MasterKey ELSE i

\* An onion on the wire: header of a layer, content of a layer, and a sepal.
Onion == [layer : Layers, content : 1 .. l + 1, sepal : Seq(Block)]

\* FORMONION: O_1, the onion for the first relay.
FORMONION == [layer |-> 1, content |-> 1, sepal |-> FirstSepal]

\* DecryptContent with key k: GCM opens C_c under the key it was sealed with.
ContentOpens(c, k) == c \in Layers /\ ContentKey(c) = k

\* The key with which PeelOnion opens the content of o.  At the last gatekeeper
\* it is what the first block of the peeled sepal holds: K, or no key at all.
NoKey == -1
OpeningKey(o) ==
  IF Role(o.layer) # LAST_GATEKEEPER
  THEN o.layer
  ELSE LET b == PeelSepal(o.sepal, o.layer)[1]
       IN  IF b.val = "masterKey" /\ IsPlain(b) THEN MasterKey ELSE NoKey

\* PeelOnion returns without an error (the receiver owns the header's key).
PeelSucceeds(o) ==
  /\ Role(o.layer) # RECIPIENT => SepalPeels(o.sepal, o.layer)
  /\ Role(o.layer) = LAST_GATEKEEPER => o.sepal # <<>>
  /\ ContentOpens(o.content, OpeningKey(o))

\* The onion PeelOnion returns to a mixer or a gatekeeper.
PeelOnion(o) ==
  [layer |-> o.layer + 1,
   content |-> o.content + 1,
   sepal |-> PeelSepal(o.sepal, o.layer)]
=============================================================================
