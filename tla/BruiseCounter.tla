--------------------------- MODULE BruiseCounter ---------------------------
(***************************************************************************)
(* What a bruisable onion promises, with no keys, blocks or ciphertexts: a *)
(* message passes its mixers, each of which may bruise it once, then its   *)
(* gatekeepers, the last of which opens it iff it counts fewer than D      *)
(* bruises; the recipient reads it.  Any hop may lose it.  OnionTransit    *)
(* implements this counter without ever storing a count.                   *)
(***************************************************************************)
EXTENDS Integers

CONSTANTS
  Mixers,   \* hops 1 .. Mixers may bruise
  Last,     \* the hop of the last gatekeeper; Last + 1 is the recipient
  D         \* the number of bruises that destroys the message

VARIABLES
  hop,      \* the next receiver on the path
  bruises,  \* bruises so far
  fate      \* what became of the message

vars == <<hop, bruises, fate>>

Fates == {"travelling", "delivered", "discarded", "lost"}

Init == hop = 1 /\ bruises = 0 /\ fate = "travelling"

Mix ==
  /\ fate = "travelling" /\ hop <= Mixers
  /\ hop' = hop + 1
  /\ bruises' \in {bruises, bruises + 1}
  /\ UNCHANGED fate

Forward ==
  /\ fate = "travelling" /\ Mixers < hop /\ hop < Last
  /\ hop' = hop + 1
  /\ UNCHANGED <<bruises, fate>>

Open ==
  /\ fate = "travelling" /\ hop = Last
  /\ bruises < D
  /\ hop' = hop + 1
  /\ UNCHANGED <<bruises, fate>>

Discard ==
  /\ fate = "travelling" /\ hop = Last
  /\ bruises >= D
  /\ fate' = "discarded"
  /\ UNCHANGED <<hop, bruises>>

Deliver ==
  /\ fate = "travelling" /\ hop = Last + 1
  /\ fate' = "delivered"
  /\ UNCHANGED <<hop, bruises>>

Lose ==
  /\ fate = "travelling"
  /\ fate' = "lost"
  /\ UNCHANGED <<hop, bruises>>

Next == Mix \/ Forward \/ Open \/ Discard \/ Deliver \/ Lose

Spec == Init /\ [][Next]_vars
=============================================================================
