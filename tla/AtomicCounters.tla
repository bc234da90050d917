--------------------------- MODULE AtomicCounters ---------------------------
(***************************************************************************)
(* What ConcurrentMap promises its one user, Relay.Receive: a family of    *)
(* counters, each call of which adds one to its counter in one step, some  *)
(* time after it was made.                                                 *)
(***************************************************************************)
EXTENDS Integers

CONSTANTS
  Calls,   \* the calls of a run
  Keys,    \* the counters
  Key      \* the counter each call is for

VARIABLES
  count,   \* the counters
  made,    \* the calls made
  applied  \* the calls that have been counted

vars == <<count, made, applied>>

Init ==
  /\ count = [k \in Keys |-> 0]
  /\ made = {}
  /\ applied = {}

Make(c) ==
  /\ c \notin made
  /\ made' = made \union {c}
  /\ UNCHANGED <<count, applied>>

Apply(c) ==
  /\ c \in made \ applied
  /\ applied' = applied \union {c}
  /\ count' = [count EXCEPT ![Key[c]] = @ + 1]
  /\ UNCHANGED made

Next == \E c \in Calls : Make(c) \/ Apply(c)

Spec == Init /\ [][Next]_vars
=============================================================================
