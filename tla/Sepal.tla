------------------------------- MODULE Sepal -------------------------------
(***************************************************************************)
(* The sepal of a bruisable onion: internal/pi_t/onion_model/sepal.go.     *)
(*                                                                         *)
(* A sepal is a sequence of blocks.  A block is a value encrypted under    *)
(* consecutive layer keys.  AES-GCM authenticates, so all that matters of  *)
(* a ciphertext is which key opens it next: a block is its value, the      *)
(* column it was made for (two encryptions of one value are different      *)
(* strings, told apart by the column) and the interval next..last of the   *)
(* layer keys still around it.  It is plain text when the interval is      *)
(* empty.  Layer keys are named by their layer number.                     *)
(***************************************************************************)
EXTENDS Integers, Sequences

CONSTANTS
  L1,     \* number of mixers on a path       (config.go: L1)
  L2,     \* number of gatekeepers on a path  (config.go: L2)
  D       \* number of key blocks             (config.go: D)

\* FormSepals slices a null block list of length L1 - D + 1 and FORMONION
\* addresses the first mixer: it panics outside these bounds.
ASSUME ParamAssumption ==
  /\ L1 \in Nat \ {0}
  /\ L2 \in Nat
  /\ D \in 0 .. L1 + 1

\* Layers of the onion: mixers, gatekeepers and the recipient.
l == L1 + L2 + 1

Values == {"masterKey", "null"}

Block == [val : Values, col : 1 .. L1 + 1, next : Nat \ {0}, last : Nat]

IsPlain(b) == b.next > b.last

-----------------------------------------------------------------------------
(* Building sepals                                                         *)

\* Row i, column c of the table formKeyBlocks(value, _, layerKeys[:n]) makes:
\* under k_i .. k_(n-1), plain in row n.
formKeyBlock(value, n, i, c) ==
  [val |-> value, col |-> c, next |-> i, last |-> n - 1]

TOneKeyTooMany(i) ==
  [c \in 1 .. (IF i <= L1 + 2 THEN L1 + 1 ELSE D) |->
     IF c <= D + 1 THEN formKeyBlock("masterKey", l, i, c)
                   ELSE formKeyBlock("null", L1 + 2, i, c)]

\* Row i of FormSepals' table T: D key blocks, which end in row l, then
\* L1 - D + 1 null blocks, which end in row L1 + 2.
T(i) ==
  [c \in 1 .. (IF i <= L1 + 2 THEN L1 + 1 ELSE D) |->
     IF c <= D THEN formKeyBlock("masterKey", l, i, c)
               ELSE formKeyBlock("null", L1 + 2, i, c)]

\* The sepal of O_1, which the sending client puts on the wire.
FirstSepal == T(1)

SepalsOneDropShort(i) ==
  IF i <= L1
  THEN {SubSeq(T(i), b + 1, L1 + 1 - (i - b)) : b \in 0 .. i - 1}
  ELSE {<<T(i)[b + 1]>> : b \in {x \in 0 .. L1 : x < D}}

\* S_i: the sepals FORMONION prepares for the receiver of layer i.  A mixer's
\* are what i-1 drops from the two ends of a row leave, one for each number of
\* bruises; a gatekeeper's a single block, listed only below D bruises.
AllPossibleSepals(i) ==
  IF i <= L1
  THEN {SubSeq(T(i), b + 1, L1 + 1 - (i - 1 - b)) : b \in 0 .. i - 1}
  ELSE {<<T(i)[b + 1]>> : b \in {x \in 0 .. L1 : x < D}}

-----------------------------------------------------------------------------
(* Processing a sepal on the way                                           *)

\* A plain "null" is retained; any other block must be under the layer key k.
CanPeel(b, k) == (b.val = "null" /\ IsPlain(b)) \/ (~IsPlain(b) /\ b.next = k)

PeelBlock(b, k) == IF IsPlain(b) THEN b ELSE [b EXCEPT !.next = k + 1]

\* PeelSepal fails as a whole when one block does not decrypt.
SepalPeels(s, k) == \A j \in DOMAIN s : CanPeel(s[j], k)
PeelSepal(s, k) == [j \in DOMAIN s |-> PeelBlock(s[j], k)]

AddBruiseFromRight(s) == IF Len(s) <= 1 THEN <<>> ELSE SubSeq(s, 1, Len(s) - 1)
RemoveBlockFromLeft(s) == IF Len(s) <= 1 THEN <<>> ELSE Tail(s)

\* pkg/utils: DropFirstElement and DropLastElement.
AddBruise(s) == IF Len(s) <= 1 THEN <<>> ELSE Tail(s)
RemoveBlock(s) == IF Len(s) <= 1 THEN <<>> ELSE SubSeq(s, 1, Len(s) - 1)
=============================================================================
