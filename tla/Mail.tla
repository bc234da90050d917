--------------------------------- MODULE Mail ---------------------------------
(***************************************************************************)
(* What the clients of a run do for those who use them: everybody writes   *)
(* letters, one of which is a message, the others are there to hide it.    *)
(* The messages are for different people, as if somebody saw to it; a      *)
(* letter is received by whom it is for, once, or it is lost.  What people *)
(* have sent and received they write down.  There is no onion, no relay    *)
(* and no start signal.  Client implements this without anybody to see to  *)
(* the recipients.                                                         *)
(***************************************************************************)
CONSTANTS
  Nobody,   \* the recipient of an unwritten letter
  Message   \* the number of the letter that is the message

VARIABLES
  people,   \* who takes part
  numbers,  \* the numbers of a person's letters
  letter,   \* each letter: whom it is for and where it is
  sent,     \* what each person has written down as sent,
  received  \* and as received

vars == <<people, numbers, letter, sent, received>>

Letters == people \X numbers

Init ==
  /\ Nobody \notin people /\ Message \in numbers
  /\ letter = [l \in Letters |-> [to |-> Nobody, place |-> "unwritten"]]
  /\ sent = [p \in people |-> {}]
  /\ received = [p \in people |-> {}]

\* Person p writes all letters, the message to someone to whom nobody else has.
Write(p) ==
  /\ \A n \in numbers : letter[<<p, n>>].place = "unwritten"
  /\ \E to \in [numbers -> people] :
       /\ \A q \in people : letter[<<q, Message>>].to # to[Message]
       /\ letter' = [l \in Letters |-> IF l[1] = p
                                       THEN [to |-> to[l[2]], place |-> "underway"]
                                       ELSE letter[l]]
  /\ sent' = [sent EXCEPT ![p] = @ \union ({p} \X numbers)]
  /\ UNCHANGED <<people, numbers, received>>

Deliver(l) ==
  /\ letter[l].place = "underway"
  /\ letter' = [letter EXCEPT ![l].place = "received"]
  /\ received' = [received EXCEPT ![letter[l].to] = @ \union {l}]
  /\ UNCHANGED <<people, numbers, sent>>

Lose(l) ==
  /\ letter[l].place = "underway"
  /\ letter' = [letter EXCEPT ![l].place = "lost"]
  /\ UNCHANGED <<people, numbers, sent, received>>

\* Person p is no more, and neither is what it has written down.
Fall(p) ==
  /\ sent' = [sent EXCEPT ![p] = {}]
  /\ received' = [received EXCEPT ![p] = {}]
  /\ UNCHANGED <<people, numbers, letter>>

Next ==
  \/ \E p \in people : Write(p) \/ Fall(p)
  \/ \E l \in Letters : Deliver(l) \/ Lose(l)

Spec == Init /\ [][Next]_vars
=============================================================================
