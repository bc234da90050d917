--------------------------- MODULE ConcurrentMap ---------------------------
(***************************************************************************)
(* pkg/cm/concurrentMap.go: a map over sync.Map whose GetAndSet updates a  *)
(* key from a goroutine of its own, in a load / compare-and-swap loop.     *)
(* The operations of sync.Map are atomic.  The one updateFunc of the       *)
(* repository adds one (relay.go:185); nothing calls Set.                  *)
(***************************************************************************)
EXTENDS Integers, FiniteSets

CONSTANTS
  Calls,   \* the GetAndSet calls of a run, each with its goroutine
  Keys,    \* the keys: layers, in Relay.checkpointsReceived
  Key      \* the key of each call

ASSUME CallsAssumption ==
  /\ IsFiniteSet(Calls)
  /\ Key \in [Calls -> Keys]

VARIABLES
  m,             \* the sync.Map
  pc,            \* where the goroutine of each call is
  currentValue   \* its local variable: the value it read last

vars == <<m, pc, currentValue>>

\* No value is stored under the key yet.
Absent == -1

zeroValue == 0

updateFunc(i) == i + 1

Init ==
  /\ m = [k \in Keys |-> Absent]
  /\ pc = [c \in Calls |-> "notCalled"]
  /\ currentValue = [c \in Calls |-> zeroValue]

\* GetAndSet: the caller returns at once, the goroutine has still to run.
GetAndSet(c) ==
  /\ pc[c] = "notCalled"
  /\ pc' = [pc EXCEPT ![c] = "get"]
  /\ UNCHANGED <<m, currentValue>>

\* Get: LoadOrStore of the zero value.
Loaded(k) == IF m[k] = Absent THEN zeroValue ELSE m[k]

Get(c) ==
  /\ pc[c] = "get"
  /\ m' = [m EXCEPT ![Key[c]] = Loaded(Key[c])]
  /\ currentValue' = [currentValue EXCEPT ![c] = Loaded(Key[c])]
  /\ pc' = [pc EXCEPT ![c] = "swap"]

CASDropsTheCompare(c) ==
  /\ pc[c] = "swap"
  /\ m' = [m EXCEPT ![Key[c]] = updateFunc(currentValue[c])]
  /\ pc' = [pc EXCEPT ![c] = "done"]
  /\ UNCHANGED currentValue

CASRetriesWithoutGet(c) ==
  /\ pc[c] = "swap"
  /\ m[Key[c]] = currentValue[c]
  /\ m' = [m EXCEPT ![Key[c]] = updateFunc(currentValue[c])]
  /\ pc' = [pc EXCEPT ![c] = "done"]
  /\ UNCHANGED currentValue

\* CompareAndSwap: the goroutine ends if nobody wrote since it read, and reads
\* again otherwise.
CompareAndSwap(c) ==
  /\ pc[c] = "swap"
  /\ \/ /\ m[Key[c]] = currentValue[c]
        /\ m' = [m EXCEPT ![Key[c]] = updateFunc(currentValue[c])]
        /\ pc' = [pc EXCEPT ![c] = "done"]
     \/ /\ m[Key[c]] # currentValue[c]
        /\ pc' = [pc EXCEPT ![c] = "get"]
        /\ UNCHANGED m
  /\ UNCHANGED currentValue

Next == \E c \in Calls : GetAndSet(c) \/ Get(c) \/ CompareAndSwap(c)

\* A goroutine that was started is scheduled; whether a call is made is the
\* relay's business.
Fairness == \A c \in Calls : WF_vars(Get(c) \/ CompareAndSwap(c))

Spec == Init /\ [][Next]_vars

FairSpec == Spec /\ Fairness

-----------------------------------------------------------------------------

Done(k) == {c \in Calls : Key[c] = k /\ pc[c] = "done"}

\* Every variable has its type.
TypeOK ==
  /\ m \in [Keys -> Nat \union {Absent}]
  /\ pc \in [Calls -> {"notCalled", "get", "swap", "done"}]
  /\ currentValue \in [Calls -> Nat]

\* No update is lost and none is made twice: whatever the interleaving of the
\* loads and swaps, a key holds the number of calls that ended.
NoLostUpdate == \A k \in Keys : Loaded(k) = Cardinality(Done(k))

IInv == TypeOK /\ NoLostUpdate

\* The map implements the atomic counters.
Counters == INSTANCE AtomicCounters
              WITH count <- [k \in Keys |-> Loaded(k)],
                   made <- {c \in Calls : pc[c] # "notCalled"},
                   applied <- {c \in Calls : pc[c] = "done"}

ImplementsCounters == Counters!Spec

\* A call that was made is counted: the loop is not left to spin, since a swap
\* only fails when another call succeeded.
EveryCallCounts == \A c \in Calls : pc[c] # "notCalled" ~> pc[c] = "done"
=============================================================================
