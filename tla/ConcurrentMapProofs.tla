------------------------ MODULE ConcurrentMapProofs ------------------------
(***************************************************************************)
(* Proofs about ConcurrentMap for any finite set of calls on any keys.     *)
(***************************************************************************)
EXTENDS ConcurrentMap, FiniteSetTheorems, TLAPS

\* The calls that ended are finitely many.
LEMMA DoneFinite ==
  ASSUME NEW k
  PROVE  IsFiniteSet(Done(k)) /\ Cardinality(Done(k)) \in Nat
<1>1. Done(k) \subseteq Calls
  BY DEF Done
<1>2. QED
  BY <1>1, CallsAssumption, FS_Subset, FS_CardinalityType

\* A successful swap ends one more call for its key and none for another.
LEMMA SwapAddsOne ==
  ASSUME TypeOK, NEW c \in Calls, pc[c] = "swap",
         pc' = [pc EXCEPT ![c] = "done"], NEW k \in Keys
  PROVE  Cardinality(Done(k)') =
           IF Key[c] = k THEN Cardinality(Done(k)) + 1 ELSE Cardinality(Done(k))
<1>1. CASE Key[c] = k
  <2>1. Done(k)' = Done(k) \union {c} /\ c \notin Done(k)
    BY <1>1 DEF Done, TypeOK
  <2>2. QED
    BY <1>1, <2>1, DoneFinite, FS_AddElement
<1>2. CASE Key[c] # k
  <2>1. Done(k)' = Done(k)
    BY <1>2 DEF Done, TypeOK
  <2>2. QED
    BY <1>2, <2>1
<1>3. QED
  BY <1>1, <1>2

\* The empty map has counted nothing.
LEMMA InitInv == Init => IInv
<1> SUFFICES ASSUME Init PROVE IInv
  OBVIOUS
<1>1. TypeOK
  BY DEF Init, TypeOK, Absent, zeroValue
<1>2. ASSUME NEW k \in Keys PROVE Loaded(k) = Cardinality(Done(k))
  <2>1. Done(k) = {}
    BY DEF Init, Done
  <2>2. Loaded(k) = 0
    BY DEF Init, Loaded, zeroValue
  <2>3. QED
    BY <2>1, <2>2, FS_EmptySet
<1>3. QED
  BY <1>1, <1>2 DEF IInv, NoLostUpdate

\* Each step of a goroutine keeps the count right.
LEMMA NextInv == IInv /\ [Next]_vars => IInv'
<1> SUFFICES ASSUME IInv, [Next]_vars PROVE IInv'
  OBVIOUS
<1> USE CallsAssumption DEF IInv, TypeOK, NoLostUpdate, Absent
<1>1. ASSUME NEW c \in Calls, GetAndSet(c) PROVE IInv'
  BY <1>1 DEF GetAndSet, Loaded, Done
<1>2. ASSUME NEW c \in Calls, Get(c) PROVE IInv'
  <2>1. TypeOK'
    BY <1>2 DEF Get, Loaded, zeroValue
  <2>2. ASSUME NEW k \in Keys PROVE Loaded(k)' = Loaded(k) /\ Done(k)' = Done(k)
    BY <1>2 DEF Get, Loaded, Done, zeroValue
  <2>3. QED
    BY <2>1, <2>2
<1>3. ASSUME NEW c \in Calls, CompareAndSwap(c) PROVE IInv'
  <2>1. CASE m[Key[c]] = currentValue[c] /\ pc' = [pc EXCEPT ![c] = "done"]
             /\ m' = [m EXCEPT ![Key[c]] = updateFunc(currentValue[c])]
    <3>1. TypeOK'
      BY <1>3, <2>1 DEF CompareAndSwap, updateFunc
    <3>2. ASSUME NEW k \in Keys PROVE Loaded(k)' = Cardinality(Done(k)')
      <4>1. Cardinality(Done(k)') =
              IF Key[c] = k THEN Cardinality(Done(k)) + 1 ELSE Cardinality(Done(k))
        BY <1>3, <2>1, SwapAddsOne DEF CompareAndSwap
      <4>2. Loaded(k)' = IF Key[c] = k THEN Loaded(k) + 1 ELSE Loaded(k)
        BY <2>1 DEF Loaded, updateFunc, zeroValue
      <4>3. QED
        BY <4>1, <4>2
    <3>3. QED
      BY <3>1, <3>2
  <2>2. CASE m' = m /\ pc' = [pc EXCEPT ![c] = "get"]
    BY <1>3, <2>2 DEF CompareAndSwap, Loaded, Done
  <2>3. QED
    BY <1>3, <2>1, <2>2 DEF CompareAndSwap
<1>4. CASE UNCHANGED vars
  BY <1>4 DEF vars, Loaded, Done
<1>5. QED
  BY <1>1, <1>2, <1>3, <1>4 DEF Next

-----------------------------------------------------------------------------

\* No interleaving of loads and swaps loses an update or makes one twice.
THEOREM Invariance == Spec => []IInv
<1>1. QED
  BY InitInv, NextInv, PTL DEF Spec

\* The map implements the atomic counters: only a successful swap counts.
THEOREM Refinement == Spec => ImplementsCounters
<1>1. Init => Counters!Init
  BY CallsAssumption DEF Init, Counters!Init, Loaded, zeroValue
<1>2. IInv /\ [Next]_vars => [Counters!Next]_Counters!vars
  <2> SUFFICES ASSUME IInv, [Next]_vars
               PROVE  [Counters!Next]_Counters!vars
    OBVIOUS
  <2> USE CallsAssumption DEF IInv, TypeOK, Absent
  <2>1. ASSUME NEW c \in Calls, GetAndSet(c) PROVE Counters!Make(c)
    BY <2>1 DEF GetAndSet, Counters!Make, Loaded
  <2>2. ASSUME NEW c \in Calls, Get(c) PROVE UNCHANGED Counters!vars
    <3>1. \A k \in Keys : Loaded(k)' = Loaded(k)
      BY <2>2 DEF Get, Loaded, zeroValue
    <3>2. QED
      BY <2>2, <3>1 DEF Get, Counters!vars
  <2>3. ASSUME NEW c \in Calls, CompareAndSwap(c)
        PROVE  Counters!Apply(c) \/ UNCHANGED Counters!vars
    <3>1. CASE m[Key[c]] = currentValue[c] /\ pc' = [pc EXCEPT ![c] = "done"]
               /\ m' = [m EXCEPT ![Key[c]] = updateFunc(currentValue[c])]
      <4>1. \A k \in Keys : Loaded(k)' = IF Key[c] = k THEN Loaded(k) + 1 ELSE Loaded(k)
        BY <3>1 DEF Loaded, updateFunc, zeroValue
      <4>2. [k \in Keys |-> Loaded(k)'] =
              [[k \in Keys |-> Loaded(k)] EXCEPT ![Key[c]] = @ + 1]
        BY <4>1
      <4>3. QED
        BY <2>3, <3>1, <4>2 DEF CompareAndSwap, Counters!Apply
    <3>2. CASE m' = m /\ pc' = [pc EXCEPT ![c] = "get"]
      BY <2>3, <3>2 DEF CompareAndSwap, Counters!vars, Loaded
    <3>3. QED
      BY <2>3, <3>1, <3>2 DEF CompareAndSwap
  <2>4. CASE UNCHANGED vars
    BY <2>4 DEF vars, Counters!vars, Loaded
  <2>5. QED
    BY <2>1, <2>2, <2>3, <2>4 DEF Next, Counters!Next
<1>3. QED
  BY <1>1, <1>2, Invariance, PTL DEF Spec, ImplementsCounters, Counters!Spec
=============================================================================
