--------------------------- MODULE TonicHeapProofs ---------------------------
(***************************************************************************)
(* Proofs about TonicHeap for every heap capacity, every last generation   *)
(* and every set of fields and kinds: no reference ever dangles, the       *)
(* remembered set is complete, a reclaimed value never resolves again, no  *)
(* finalizer is queued twice or skipped, and a full collection leaves no   *)
(* garbage.                                                                *)
(***************************************************************************)
EXTENDS TonicHeap, FiniteSetTheorems, WellFoundedInduction, TLAPS

\* Only a foreign wrapper's payload holds reference handles.
HeldByForeign ==
  \A l \in DOMAIN objects : objects[l].kind # "foreign" => objects[l].held = {}

\* Why a reclaimed value cannot come back: its slot has a later generation, or
\* is retired for good.
ReclaimedGenerations ==
  \A v \in reclaimed :
    /\ v.slot \in DOMAIN slots
    /\ \/ v.generation < slots[v.slot].generation
       \/ /\ v.generation = slots[v.slot].generation
          /\ slots[v.slot].location = 0
          /\ \A i \in DOMAIN free : free[i] # v.slot

\* The inductive invariant.
HeapInv ==
  /\ TypeOK
  /\ StorageConsistent
  /\ NoDanglingReference
  /\ RememberedSetComplete
  /\ HeldByForeign
  /\ ReclaimedGenerations

-----------------------------------------------------------------------------
(* Facts about values, storage and finite sequences.                       *)

\* A function on 1..n is a sequence of length n.
LEMMA FunctionIsSeq ==
  ASSUME NEW S, NEW n \in Nat, NEW f \in [1 .. n -> S]
  PROVE  f \in Seq(S) /\ Len(f) = n /\ DOMAIN f = 1 .. n
  OBVIOUS

\* The elements of a concatenation.
LEMMA ConcatFacts ==
  ASSUME NEW S, NEW p \in Seq(S), NEW q \in Seq(S)
  PROVE  /\ p \o q \in Seq(S)
         /\ DOMAIN (p \o q) = 1 .. (Len(p) + Len(q))
         /\ \A i \in DOMAIN (p \o q) :
              \/ i \in DOMAIN p /\ (p \o q)[i] = p[i]
              \/ i - Len(p) \in DOMAIN q /\ (p \o q)[i] = q[i - Len(p)]
<1>1. /\ p \o q \in Seq(S) /\ Len(p \o q) = Len(p) + Len(q)
      /\ DOMAIN (p \o q) = 1 .. (Len(p) + Len(q))
  OBVIOUS
<1>2. ASSUME NEW i \in 1 .. (Len(p) + Len(q))
      PROVE  \/ i \in DOMAIN p /\ (p \o q)[i] = p[i]
             \/ i - Len(p) \in DOMAIN q /\ (p \o q)[i] = q[i - Len(p)]
  <2>1. CASE i <= Len(p)
    BY <2>1
  <2>2. CASE i > Len(p)
    BY <2>2
  <2> QED
    BY <2>1, <2>2
<1> QED
  BY <1>1, <1>2

\* What holds of the object a resolving value names.
LEMMA ResolvedObject ==
  ASSUME TypeOK, StorageConsistent, NEW v \in Value, Resolves(v)
  PROVE  /\ Location(v) \in DOMAIN objects
         /\ Object(v) \in Entry
         /\ Object(v).slot = v.slot
         /\ ValueAt(Location(v)) = v
<1>1. /\ Location(v) \in DOMAIN objects
      /\ Object(v).slot = v.slot
  BY DEF StorageConsistent, Resolves, Location, Object
<1>2. Object(v) \in Entry
  BY <1>1 DEF TypeOK, Object
<1>3. v = [slot |-> v.slot, generation |-> v.generation]
  BY DEF Value
<1>4. ValueAt(Location(v)) = [slot |-> v.slot, generation |-> slots[v.slot].generation]
  BY <1>1 DEF ValueAt, Object
<1>5. slots[v.slot].generation = v.generation
  BY DEF Resolves
<1> QED
  BY <1>1, <1>2, <1>3, <1>4, <1>5

\* A stored location is the location of the value at it.
LEMMA StoredValue ==
  ASSUME TypeOK, StorageConsistent, NEW l \in DOMAIN objects
  PROVE  /\ objects[l] \in Entry
         /\ ValueAt(l) \in Value
         /\ Resolves(ValueAt(l))
         /\ Location(ValueAt(l)) = l
<1>1. objects[l] \in Entry
  BY DEF TypeOK
<1>2. objects[l].slot \in SlotIds
  BY <1>1 DEF Entry
<1>3. /\ objects[l].slot \in DOMAIN slots /\ slots[objects[l].slot].location = l
      /\ l # 0
  <2>1. l # 0
    BY DEF TypeOK
  <2> QED
    BY <2>1 DEF StorageConsistent
<1>4. slots[objects[l].slot] \in Slot
  BY <1>3 DEF TypeOK
<1>5. ValueAt(l) \in Value
  BY <1>2, <1>4 DEF ValueAt, Value, Slot
<1> QED
  BY <1>1, <1>3, <1>5 DEF Resolves, Location, ValueAt

\* A set of locations is finite, so an enumeration of it is a sequence.
LEMMA IncreasingIsSeq ==
  ASSUME NEW n \in Nat, NEW S \in SUBSET (1 .. n), NEW f \in Increasing(S)
  PROVE  /\ f \in Seq(S)
         /\ DOMAIN f = 1 .. Len(f)
         /\ Len(f) \in Nat
         /\ \A i, j \in DOMAIN f : i < j => f[i] < f[j]
         /\ \A i \in DOMAIN f : f[i] \in S
         /\ \A l \in S : \E i \in DOMAIN f : f[i] = l
<1>0. IsFiniteSet(1 .. n)
  BY FS_Interval
<1>1. IsFiniteSet(S)
  BY <1>0, FS_Subset
<1>2. Cardinality(S) \in Nat
  BY <1>1, FS_CardinalityType
<1>3. f \in [1 .. Cardinality(S) -> S]
  BY DEF Increasing
<1>4. f \in Seq(S) /\ Len(f) = Cardinality(S) /\ DOMAIN f = 1 .. Cardinality(S)
  BY <1>2, <1>3, FunctionIsSeq
<1> QED
  BY <1>2, <1>3, <1>4 DEF Increasing

\* Marking: the marked set contains the start and is closed.
LEMMA ReachFacts ==
  ASSUME NEW store, NEW within, NEW start
  PROVE  /\ Reach(store, within, start) \subseteq within
         /\ start \cap within \subseteq Reach(store, within, start)
         /\ Closed(store, within, Reach(store, within, start))
<1> DEFINE R == Reach(store, within, start)
<1>1. R \subseteq within /\ start \cap within \subseteq R
  BY DEF Reach
<1>2. ASSUME NEW l \in R, NEW v \in Edges(store, l), Location(v) \in within
      PROVE  Location(v) \in R
  <2>1. SUFFICES ASSUME NEW S \in SUBSET within, start \cap within \subseteq S,
                        Closed(store, within, S)
                 PROVE  Location(v) \in S
    BY <1>2 DEF Reach
  <2>2. l \in S
    BY <2>1 DEF Reach
  <2> QED
    BY <1>2, <2>1, <2>2 DEF Closed
<1> QED
  BY <1>1, <1>2 DEF Closed

-----------------------------------------------------------------------------
(* Steps of the mutator.                                                   *)

\* Typing and resolution of what the virtual machine roots in the next state.
RootsKept ==
  /\ roots' \subseteq Value
  /\ pendingGenerators' \in Seq(Value)
  /\ pendingFinalizers' \in Seq(Value)
  /\ pendingForeign' \in Seq(PendingForeign)
  /\ finalizedObjects' \subseteq Value
  /\ ran' \subseteq Value
  /\ \A v \in CollectorRoots' : Resolves(v)

\* A step that only roots resolving values keeps the invariant.
LEMMA RootStep ==
  ASSUME HeapInv, RootsKept,
         UNCHANGED <<objects, slots, free, remembered, external, reclaimed>>
  PROVE  HeapInv'
<1>1. TypeOK'
  BY DEF HeapInv, TypeOK, RootsKept
<1>2. StorageConsistent' /\ RememberedSetComplete' /\ HeldByForeign' /\ ReclaimedGenerations'
  BY DEF HeapInv, StorageConsistent, RememberedSetComplete, HeldByForeign,
         ReclaimedGenerations, Edges, ExternalValues, ValueAt, Object, Location
<1>3. \A v : Resolves(v)' <=> Resolves(v)
  BY DEF Resolves
<1>4. NoDanglingReference'
  BY <1>3 DEF HeapInv, NoDanglingReference, RootsKept
<1> QED
  BY <1>1, <1>2, <1>4 DEF HeapInv

\* A store that hands the values R to an owner through the write barrier keeps
\* the invariant: the owner's new edges are old ones or among R.
LEMMA StoreStep ==
  ASSUME HeapInv, RootsKept,
         NEW o \in Value, Resolves(o),
         NEW R \in SUBSET Value, \A v \in R : Resolves(v),
         NEW entry \in Entry,
         entry.slot = Object(o).slot, entry.young = Object(o).young,
         entry.refs \subseteq Object(o).refs \cup R,
         \A v \in entry.held : Resolves(v),
         entry.kind # "foreign" => entry.held = {},
         objects' = [objects EXCEPT ![Location(o)] = entry],
         remembered' = Barrier(o, R),
         UNCHANGED <<slots, free, external, reclaimed>>
  PROVE  HeapInv'
<1> USE DEF HeapInv
<1> DEFINE lo == Location(o)
<1>1. /\ lo \in DOMAIN objects
      /\ objects[lo] \in Entry
      /\ objects[lo] = Object(o)
      /\ objects[lo].slot = o.slot
      /\ o.slot \in SlotIds
      /\ ValueAt(lo) = o
  BY ResolvedObject DEF Object, Value
<1>2. /\ DOMAIN objects' = DOMAIN objects
      /\ objects' \in Seq(Entry)
      /\ \A l \in DOMAIN objects : objects'[l] = IF l = lo THEN entry ELSE objects[l]
  BY <1>1 DEF TypeOK
<1>3. \A l \in DOMAIN objects : objects'[l].slot = objects[l].slot
                               /\ objects'[l].young = objects[l].young
  BY <1>1, <1>2
<1>4. TypeOK'
  BY <1>1, <1>2 DEF TypeOK, RootsKept, Barrier
<1>5. StorageConsistent'
  BY <1>2, <1>3 DEF StorageConsistent
<1>6. \A v : Resolves(v)' <=> Resolves(v)
  BY DEF Resolves
<1>7. NoDanglingReference'
  <2>1. \A l \in DOMAIN objects : \A v \in objects'[l].refs \cup objects'[l].held : Resolves(v)
    BY <1>1, <1>2 DEF NoDanglingReference
  <2> QED
    BY <1>2, <1>6, <2>1 DEF NoDanglingReference, RootsKept
<1>8. RememberedSetComplete'
  <2>1. SUFFICES ASSUME NEW l \in DOMAIN objects, ~ objects[l].young,
                        NEW v \in Edges(objects, l)', Object(v)'.young
                 PROVE  objects[l].slot \in remembered'
    BY <1>2, <1>3 DEF RememberedSetComplete
  <2>2. remembered \subseteq remembered'
    BY DEF Barrier
  <2>3. Edges(objects, l)' = objects'[l].refs \cup ExternalValues(ValueAt(l))
    BY <1>3 DEF Edges, ExternalValues, ValueAt
  <2>4. v \in Value /\ Resolves(v)
    <3>1. CASE v \in objects'[l].refs
      <4>1. objects'[l] \in Entry
        BY <1>2
      <4> QED
        BY <1>2, <1>6, <1>7, <3>1, <4>1 DEF Entry, NoDanglingReference
    <3>2. CASE v \in ExternalValues(ValueAt(l))
      BY <3>2 DEF ExternalValues, NoDanglingReference, TypeOK, ExternalField
    <3> QED
      BY <2>3, <3>1, <3>2
  <2>5. Location(v) \in DOMAIN objects
    BY <2>4, ResolvedObject
  <2>6. Object(v).young
    BY <1>3, <2>1, <2>5 DEF Object, Location
  <2>7. CASE v \in Edges(objects, l)
    BY <2>1, <2>2, <2>6, <2>7 DEF RememberedSetComplete
  <2>8. CASE v \notin Edges(objects, l)
    <3>1. l = lo /\ v \in R
      BY <1>1, <1>2, <2>3, <2>8 DEF Edges
    <3> QED
      BY <1>1, <2>1, <2>6, <3>1 DEF Barrier
  <2> QED
    BY <2>7, <2>8
<1>9. HeldByForeign'
  BY <1>1, <1>2 DEF HeldByForeign
<1>10. ReclaimedGenerations'
  BY DEF ReclaimedGenerations
<1> QED
  BY <1>4, <1>5, <1>7, <1>8, <1>9, <1>10

\* An external field is an edge of its owner; storing or removing one passes the
\* same barrier.
LEMMA ExternalStep ==
  ASSUME HeapInv,
         NEW o \in Value, Resolves(o),
         NEW R \in SUBSET Value, \A v \in R : Resolves(v),
         NEW added \in SUBSET ExternalField,
         \A e \in added : e.owner = o /\ e.value \in R,
         external' \subseteq external \cup added,
         remembered' = Barrier(o, R),
         UNCHANGED <<objects, slots, free, roots, queues, history>>
  PROVE  HeapInv'
<1> USE DEF HeapInv
<1>1. o.slot \in SlotIds
  BY DEF Value
<1>2. TypeOK'
  BY <1>1 DEF TypeOK, Barrier, queues, history
<1>3. StorageConsistent' /\ HeldByForeign' /\ ReclaimedGenerations'
  BY DEF StorageConsistent, HeldByForeign, ReclaimedGenerations, history
<1>4. \A v : Resolves(v)' <=> Resolves(v)
  BY DEF Resolves
<1>5. NoDanglingReference'
  <2>1. CollectorRoots' = CollectorRoots
    BY DEF CollectorRoots, queues
  <2> QED
    BY <1>4, <2>1 DEF NoDanglingReference
<1>6. RememberedSetComplete'
  <2>1. SUFFICES ASSUME NEW l \in DOMAIN objects, ~ objects[l].young,
                        NEW v \in Edges(objects, l)', Object(v).young
                 PROVE  objects[l].slot \in remembered'
    BY DEF RememberedSetComplete, Object, Location
  <2>2. remembered \subseteq remembered'
    BY DEF Barrier
  <2>3. CASE v \in Edges(objects, l)
    BY <2>1, <2>2, <2>3 DEF RememberedSetComplete
  <2>4. CASE v \notin Edges(objects, l)
    <3>1. PICK e \in external' : e.owner = ValueAt(l) /\ e.value = v
      BY <2>4 DEF Edges, ExternalValues, ValueAt
    <3>2. e \in added
      BY <2>4, <3>1 DEF Edges, ExternalValues
    <3>3. ValueAt(l) = o /\ v \in R
      BY <3>1, <3>2
    <3>4. objects[l] = Object(o) /\ objects[l].slot = o.slot
      BY <3>3, StoredValue DEF Object, ValueAt
    <3> QED
      BY <2>1, <3>3, <3>4 DEF Barrier
  <2> QED
    BY <2>3, <2>4
<1> QED
  BY <1>2, <1>3, <1>5, <1>6

\* Allocation: the new value's slot was vacant, so nothing named it before.
LEMMA AllocStep ==
  ASSUME HeapInv, HeapAssumption, NEW kind \in Kinds, NEW refs \in SUBSET roots,
         Alloc(kind, refs)
  PROVE  HeapInv'
<1> USE DEF HeapInv
<1> DEFINE n == Len(objects)
<1>1. PICK s \in SlotIds :
        /\ IF free # <<>>
           THEN /\ s = free[Len(free)]
                /\ free' = SubSeq(free, 1, Len(free) - 1)
                /\ slots' = [slots EXCEPT ![s].location = n + 1]
           ELSE /\ s = Len(slots) + 1
                /\ slots' = Append(slots, [generation |-> 1, location |-> n + 1])
                /\ UNCHANGED free
        /\ objects' = Append(objects, NewEntry(s, kind, refs))
        /\ roots' = roots \cup {[slot |-> s, generation |-> slots'[s].generation]}
  BY DEF Alloc
<1> DEFINE new == NewEntry(s, kind, refs)
<1>2. n \in Nat /\ DOMAIN objects = 1 .. n
  BY DEF TypeOK
<1>3. new \in Entry
  <2>1. refs \in SUBSET Value
    BY DEF TypeOK
  <2>2. kind \in AllKinds
    BY DEF HeapAssumption
  <2> QED
    BY <2>1, <2>2 DEF NewEntry, Entry, GeneratorStates
<1>4. /\ objects' \in Seq(Entry)
      /\ DOMAIN objects' = 1 .. (n + 1)
      /\ objects'[n + 1] = new
      /\ \A l \in 1 .. n : objects'[l] = objects[l]
  BY <1>1, <1>2, <1>3 DEF TypeOK
<1>5. /\ slots' \in Seq(Slot)
      /\ Len(slots') <= MaxSlots
      /\ s \in DOMAIN slots'
      /\ slots'[s].location = n + 1
      /\ DOMAIN slots \subseteq DOMAIN slots'
      /\ \A t \in DOMAIN slots' : t # s => t \in DOMAIN slots /\ slots'[t] = slots[t]
      /\ s \in DOMAIN slots => /\ slots[s].location = 0
                               /\ slots'[s].generation = slots[s].generation
                               /\ \E i \in DOMAIN free : free[i] = s
  <2>1. CASE free # <<>>
    <3>1. Len(free) \in DOMAIN free /\ free[Len(free)] = s
      BY <1>1, <2>1 DEF TypeOK
    <3>2. s \in DOMAIN slots /\ slots[s].location = 0
      BY <3>1 DEF StorageConsistent
    <3>3. slots[s] \in Slot
      BY <3>2 DEF TypeOK
    <3>4. [slots[s] EXCEPT !.location = n + 1] \in Slot
      BY <1>2, <3>3 DEF Slot
    <3>5. slots' = [slots EXCEPT ![s] = [slots[s] EXCEPT !.location = n + 1]]
      BY <1>1, <2>1
    <3>6. slots' \in Seq(Slot) /\ DOMAIN slots' = DOMAIN slots /\ Len(slots') = Len(slots)
      BY <3>2, <3>4, <3>5 DEF TypeOK
    <3>7. slots'[s] = [slots[s] EXCEPT !.location = n + 1]
      BY <3>2, <3>5
    <3>8. slots'[s].location = n + 1 /\ slots'[s].generation = slots[s].generation
      BY <3>3, <3>7 DEF Slot
    <3> QED
      BY <3>1, <3>2, <3>5, <3>6, <3>8 DEF TypeOK
  <2>2. CASE free = <<>>
    <3>1. [generation |-> 1, location |-> n + 1] \in Slot
      BY <1>2, HeapAssumption DEF Slot, HeapAssumption
    <3>2. /\ s = Len(slots) + 1
          /\ slots' = Append(slots, [generation |-> 1, location |-> n + 1])
      BY <1>1, <2>2
    <3> QED
      BY <3>1, <3>2 DEF TypeOK, SlotIds
  <2> QED
    BY <2>1, <2>2
<1>6. /\ free' \in Seq(SlotIds)
      /\ \A i \in DOMAIN free' : i \in DOMAIN free /\ free'[i] = free[i] /\ free[i] # s
  <2>1. CASE free # <<>>
    <3>1. /\ Len(free) \in DOMAIN free /\ free[Len(free)] = s
          /\ free' = SubSeq(free, 1, Len(free) - 1)
      BY <1>1, <2>1 DEF TypeOK
    <3>2. /\ free' \in Seq(SlotIds)
          /\ DOMAIN free' = 1 .. (Len(free) - 1)
          /\ \A i \in DOMAIN free' : i \in DOMAIN free /\ free'[i] = free[i] /\ i # Len(free)
      BY <2>1, <3>1 DEF TypeOK
    <3> QED
      BY <3>1, <3>2 DEF StorageConsistent
  <2>2. CASE free = <<>>
    BY <1>1, <2>2 DEF TypeOK
  <2> QED
    BY <2>1, <2>2
<1>7. slots'[s] \in Slot
  BY <1>5
<1>8. PICK v0 \in Value : v0 = [slot |-> s, generation |-> slots'[s].generation]
  BY <1>7 DEF Value, Slot
<1>9. TypeOK'
  BY <1>1, <1>4, <1>5, <1>6, <1>8 DEF TypeOK, Alloc, queues, history
<1>10. \A l \in 1 .. n : objects[l].slot # s /\ objects[l].slot \in DOMAIN slots
  <2>1. \A l \in 1 .. n : /\ objects[l].slot \in DOMAIN slots
                          /\ slots[objects[l].slot].location = l
    BY <1>2 DEF StorageConsistent
  <2> QED
    BY <1>2, <1>5, <2>1
<1>11. StorageConsistent'
  <2>1. \A t \in DOMAIN slots' : slots'[t].location # 0 =>
          slots'[t].location \in DOMAIN objects' /\ objects'[slots'[t].location].slot = t
    <3>1. new.slot = s
      BY DEF NewEntry
    <3> QED
      BY <1>2, <1>4, <1>5, <3>1 DEF StorageConsistent
  <2>2. \A l \in DOMAIN objects' : objects'[l].slot \in DOMAIN slots'
                                   /\ slots'[objects'[l].slot].location = l
    <3>1. new.slot = s
      BY DEF NewEntry
    <3>2. \A l \in 1 .. n : objects'[l].slot \in DOMAIN slots'
                            /\ slots'[objects'[l].slot].location = l
      <4>1. \A l \in 1 .. n : slots[objects[l].slot].location = l
        BY <1>2 DEF StorageConsistent
      <4> QED
        BY <1>4, <1>5, <1>10, <4>1
    <3> QED
      BY <1>2, <1>4, <1>5, <3>1, <3>2
  <2>3. \A i \in DOMAIN free' : /\ free'[i] \in DOMAIN slots'
                                /\ slots'[free'[i]].location = 0
                                /\ \A j \in DOMAIN free' : free'[i] = free'[j] => i = j
    BY <1>5, <1>6 DEF StorageConsistent
  <2> QED
    BY <2>1, <2>2, <2>3 DEF StorageConsistent
<1>12. \A v : Resolves(v) => Resolves(v)' /\ v.slot # s /\ Location(v)' = Location(v)
  BY <1>5 DEF Resolves, Location
<1>13. Resolves(v0)'
  BY <1>2, <1>5, <1>8 DEF Resolves
<1>14. NoDanglingReference'
  <2>1. \A v \in refs : Resolves(v)
    BY DEF NoDanglingReference, CollectorRoots
  <2>2. new.refs = refs /\ new.held \subseteq refs
    BY DEF NewEntry
  <2>3. \A l \in DOMAIN objects' : \A v \in objects'[l].refs \cup objects'[l].held : Resolves(v)
    BY <1>2, <1>4, <2>1, <2>2 DEF NoDanglingReference
  <2>4. CollectorRoots' = CollectorRoots \cup {v0}
    BY <1>1, <1>8 DEF CollectorRoots, Alloc, queues
  <2>5. external' = external
    BY DEF Alloc
  <2>6. \A v \in CollectorRoots' : Resolves(v)'
    BY <1>12, <1>13, <2>4 DEF NoDanglingReference
  <2> QED
    BY <1>12, <2>3, <2>5, <2>6 DEF NoDanglingReference
<1>15. RememberedSetComplete'
  <2>1. SUFFICES ASSUME NEW l \in DOMAIN objects', ~ objects'[l].young,
                        NEW v \in Edges(objects, l)', Object(v)'.young
                 PROVE  objects'[l].slot \in remembered'
    BY DEF RememberedSetComplete
  <2>2. new.young
    BY DEF NewEntry
  <2>3. l \in 1 .. n /\ objects'[l] = objects[l]
    BY <1>2, <1>4, <2>1, <2>2
  <2>4. ValueAt(l)' = ValueAt(l)
    BY <1>5, <1>10, <2>3 DEF ValueAt
  <2>5. v \in Edges(objects, l)
    BY <2>1, <2>3, <2>4 DEF Edges, ExternalValues, Alloc
  <2>6. v \in Value /\ Resolves(v)
    <3>1. objects[l] \in Entry
      BY <1>2, <2>3 DEF TypeOK
    <3> QED
      BY <1>2, <2>3, <2>5, <3>1
         DEF Edges, ExternalValues, NoDanglingReference, TypeOK, Entry, ExternalField
  <2>7. Location(v) \in 1 .. n /\ Object(v)' = Object(v)
    BY <1>2, <1>4, <1>12, <2>6, ResolvedObject DEF Object
  <2> QED
    BY <1>2, <2>1, <2>3, <2>5, <2>7 DEF RememberedSetComplete, Alloc
<1>16. HeldByForeign'
  <2>1. new.kind = kind /\ (kind # "foreign" => new.held = {})
    BY DEF NewEntry
  <2> QED
    BY <1>2, <1>4, <2>1 DEF HeldByForeign
<1>17. ReclaimedGenerations'
  <2>1. reclaimed' = reclaimed
    BY DEF Alloc, history
  <2> QED
    BY <1>5, <1>6, <2>1 DEF ReclaimedGenerations
<1> QED
  BY <1>9, <1>11, <1>14, <1>15, <1>16, <1>17

\* Every step of the mutator keeps the invariant.
LEMMA MutateStep ==
  ASSUME HeapInv, HeapAssumption, Mutate
  PROVE  HeapInv'
<1> USE DEF HeapInv
<1>1. \A v \in roots : v \in Value /\ Resolves(v)
  BY DEF TypeOK, NoDanglingReference, CollectorRoots
<1>2. \A v \in roots : Object(v) \in Entry /\ Object(v).slot = v.slot
                       /\ Location(v) \in DOMAIN objects
  BY <1>1, ResolvedObject
<1>3. \A v \in roots : \A w \in Object(v).refs \cup Object(v).held : w \in Value /\ Resolves(w)
  BY <1>2 DEF NoDanglingReference, Object, Entry
<1>4. \A v \in roots : Object(v).kind # "foreign" => Object(v).held = {}
  BY <1>2 DEF HeldByForeign, Object
<1>5. ASSUME UNCHANGED <<queues, history>>, roots' \subseteq Value,
             \A v \in roots' : Resolves(v)
      PROVE  RootsKept /\ reclaimed' = reclaimed
  BY <1>5 DEF RootsKept, queues, history, TypeOK, NoDanglingReference, CollectorRoots
<1>6. ASSUME NEW kind \in Kinds, NEW refs \in SUBSET roots, Alloc(kind, refs)
      PROVE  HeapInv'
  BY <1>6, AllocStep
<1>7. SUFFICES ASSUME NEW o \in roots,
                      \/ \E value \in roots : AppendList(o, value)
                      \/ \E values \in SUBSET (roots \cup Object(o).refs) : ReplaceList(o, values)
                      \/ \E value \in roots : StoreCell(o, value)
                      \/ \E field \in Fields, value \in roots :
                           StoreExternalField(o, field, value)
                      \/ \E field \in Fields : RemoveExternalField(o, field)
                      \/ \E value \in Object(o).refs \cup ExternalValues(o) : Load(o, value)
                      \/ DropRoot(o)
                      \/ ResumeGenerator(o)
                      \/ \E registers \in SUBSET roots : SuspendGenerator(o, registers)
                      \/ \E result \in {{}} \cup {{v} : v \in roots} :
                           CompleteGenerator(o, result)
                      \/ \E values \in SUBSET (roots \cup Object(o).held) :
                           ForeignHold(o, values)
               PROVE  HeapInv'
  BY <1>6 DEF Mutate
<1> DEFINE e0 == Object(o)
<1>8. o \in Value /\ Resolves(o) /\ e0 \in Entry
  BY <1>1, <1>2
<1>9. ASSUME NEW R \in SUBSET Value, \A v \in R : Resolves(v),
             NEW refs \in SUBSET Value, refs \subseteq e0.refs \cup R,
             NEW state \in GeneratorStates \cup {"none"},
             objects' = [objects EXCEPT ![Location(o)] =
                           [e0 EXCEPT !.state = state, !.refs = refs]],
             remembered' = Barrier(o, R), RootsKept,
             UNCHANGED <<slots, free, external, reclaimed>>
      PROVE  HeapInv'
  <2> DEFINE e == [e0 EXCEPT !.state = state, !.refs = refs]
  <2>1. /\ e \in Entry /\ e.slot = e0.slot /\ e.young = e0.young /\ e.kind = e0.kind
        /\ e.refs = refs /\ e.held = e0.held
    BY <1>8 DEF Entry
  <2>2. \A v \in e.held : Resolves(v)
    BY <1>3, <2>1
  <2>3. e.kind # "foreign" => e.held = {}
    BY <1>4, <2>1
  <2> HIDE DEF e
  <2>4. objects' = [objects EXCEPT ![Location(o)] = e]
    BY <1>9 DEF e
  <2> QED
    BY <1>8, <1>9, <2>1, <2>2, <2>3, <2>4, StoreStep
<1>10. ASSUME NEW R \in SUBSET Value, \A v \in R : Resolves(v),
              NEW refs \in SUBSET Value, refs \subseteq e0.refs \cup R,
              objects' = [objects EXCEPT ![Location(o)] = [e0 EXCEPT !.refs = refs]],
              remembered' = Barrier(o, R),
              UNCHANGED <<slots, free, external, roots, queues, history>>
       PROVE  HeapInv'
  <2>1. e0.state \in GeneratorStates \cup {"none"}
        /\ [e0 EXCEPT !.refs = refs] = [e0 EXCEPT !.state = e0.state, !.refs = refs]
    BY <1>8 DEF Entry
  <2>2. RootsKept /\ reclaimed' = reclaimed
    BY <1>1, <1>5, <1>10
  <2> QED
    BY <1>9, <1>10, <2>1, <2>2
<1>11. Barrier(o, {}) = remembered
  BY DEF Barrier
<1>12. ASSUME NEW value \in roots, AppendList(o, value)
       PROVE  HeapInv'
  <2> DEFINE refs == e0.refs \cup {value}
  <2>1. {value} \in SUBSET Value /\ refs \in SUBSET Value
    BY <1>1, <1>3
  <2>2. objects' = [objects EXCEPT ![Location(o)] = [e0 EXCEPT !.refs = refs]]
    BY <1>12 DEF AppendList, SetObject
  <2> QED
    BY <1>1, <1>10, <1>12, <2>1, <2>2 DEF AppendList
<1>13. ASSUME NEW values \in SUBSET (roots \cup Object(o).refs), ReplaceList(o, values)
       PROVE  HeapInv'
  <2>1. values \in SUBSET Value /\ \A v \in values : Resolves(v)
    BY <1>1, <1>3
  <2> QED
    BY <1>10, <1>13, <2>1 DEF ReplaceList, SetObject
<1>14. ASSUME NEW value \in roots, StoreCell(o, value)
       PROVE  HeapInv'
  <2>1. {value} \in SUBSET Value /\ \A v \in {value} : Resolves(v)
    BY <1>1
  <2> QED
    BY <1>10, <1>14, <2>1 DEF StoreCell, SetObject
<1>15. ASSUME NEW field \in Fields, NEW value \in roots, StoreExternalField(o, field, value)
       PROVE  HeapInv'
  <2> DEFINE added == {[owner |-> o, field |-> field, value |-> value]}
  <2>1. added \in SUBSET ExternalField /\ \A e \in added : e.owner = o /\ e.value \in {value}
    BY <1>1, <1>8 DEF ExternalField
  <2>2. external' \subseteq external \cup added
    BY <1>15 DEF StoreExternalField
  <2>3. {value} \in SUBSET Value /\ \A v \in {value} : Resolves(v)
    BY <1>1
  <2> HIDE DEF added
  <2> QED
    BY <1>8, <1>15, <2>1, <2>2, <2>3, ExternalStep DEF StoreExternalField
<1>16. ASSUME NEW field \in Fields, RemoveExternalField(o, field)
       PROVE  HeapInv'
  <2>1. external' \subseteq external \cup {} /\ remembered' = Barrier(o, {})
    BY <1>11, <1>16 DEF RemoveExternalField
  <2> QED
    BY <1>8, <1>16, <2>1, ExternalStep DEF RemoveExternalField
<1>17. ASSUME NEW value \in Object(o).refs \cup ExternalValues(o), Load(o, value)
       PROVE  HeapInv'
  <2>1. value \in Value /\ Resolves(value)
    BY <1>3, <1>17 DEF ExternalValues, NoDanglingReference, TypeOK, ExternalField
  <2>2. roots' \subseteq Value /\ \A v \in roots' : Resolves(v)
    BY <1>1, <1>17, <2>1 DEF Load
  <2>3. RootsKept /\ reclaimed' = reclaimed
    BY <1>5, <1>17, <2>2 DEF Load
  <2> QED
    BY <1>17, <2>3, RootStep DEF Load
<1>18. ASSUME DropRoot(o)
       PROVE  HeapInv'
  <2>1. RootsKept /\ reclaimed' = reclaimed
    BY <1>1, <1>5, <1>18 DEF DropRoot
  <2> QED
    BY <1>18, <2>1, RootStep DEF DropRoot
<1>19. ASSUME ResumeGenerator(o)
       PROVE  HeapInv'
  <2>1. RootsKept /\ reclaimed' = reclaimed
    BY <1>1, <1>3, <1>5, <1>19 DEF ResumeGenerator
  <2>2. "running" \in GeneratorStates \cup {"none"}
    BY DEF GeneratorStates
  <2> QED
    BY <1>9, <1>11, <1>19, <2>1, <2>2 DEF ResumeGenerator, SetObject
<1>20. ASSUME NEW registers \in SUBSET roots, SuspendGenerator(o, registers)
       PROVE  HeapInv'
  <2>1. RootsKept /\ reclaimed' = reclaimed
    BY <1>1, <1>5, <1>20 DEF SuspendGenerator
  <2>2. "suspended" \in GeneratorStates \cup {"none"}
    BY DEF GeneratorStates
  <2>3. registers \in SUBSET Value /\ \A v \in registers : Resolves(v)
    BY <1>1
  <2> QED
    BY <1>9, <1>20, <2>1, <2>2, <2>3 DEF SuspendGenerator, SetObject
<1>21. ASSUME NEW result \in {{}} \cup {{v} : v \in roots}, CompleteGenerator(o, result)
       PROVE  HeapInv'
  <2>1. RootsKept /\ reclaimed' = reclaimed
    BY <1>1, <1>5, <1>21 DEF CompleteGenerator
  <2>2. "completed" \in GeneratorStates \cup {"none"}
    BY DEF GeneratorStates
  <2>3. result \in SUBSET Value /\ \A v \in result : Resolves(v)
    BY <1>1
  <2> QED
    BY <1>9, <1>21, <2>1, <2>2, <2>3 DEF CompleteGenerator, SetObject
<1>22. ASSUME NEW values \in SUBSET (roots \cup Object(o).held), ForeignHold(o, values)
       PROVE  HeapInv'
  <2> DEFINE e == [e0 EXCEPT !.held = values]
  <2>1. RootsKept /\ reclaimed' = reclaimed
    BY <1>1, <1>5, <1>22 DEF ForeignHold
  <2>2. values \in SUBSET Value /\ \A v \in values : Resolves(v)
    BY <1>1, <1>3
  <2>3. /\ e \in Entry /\ e.slot = e0.slot /\ e.young = e0.young /\ e.kind = e0.kind
        /\ e.refs = e0.refs /\ e.held = values
    BY <1>8, <2>2 DEF Entry
  <2>4. e.kind = "foreign"
    BY <1>22, <2>3 DEF ForeignHold
  <2> HIDE DEF e
  <2>5. objects' = [objects EXCEPT ![Location(o)] = e]
    BY <1>22 DEF e, ForeignHold, SetObject
  <2>6. /\ remembered' = Barrier(o, {}) /\ UNCHANGED <<slots, free, external>>
        /\ e.refs \subseteq Object(o).refs \cup {}
    BY <1>11, <1>22, <2>3 DEF ForeignHold
  <2> QED
    BY <1>8, <2>1, <2>2, <2>3, <2>4, <2>5, <2>6, StoreStep
<1> QED
  BY <1>7, <1>12, <1>13, <1>14, <1>15, <1>16, <1>17, <1>18, <1>19, <1>20, <1>21, <1>22

-----------------------------------------------------------------------------
(* Steps that run what collection queued.                                  *)

\* The rest of a non-empty queue, and its last element.
LEMMA PoppedQueue ==
  ASSUME NEW S, NEW q \in Seq(S), q # <<>>
  PROVE  /\ Len(q) \in DOMAIN q
         /\ q[Len(q)] \in S
         /\ SubSeq(q, 1, Len(q) - 1) \in Seq(S)
         /\ Elements(SubSeq(q, 1, Len(q) - 1)) \subseteq Elements(q)
         /\ q[Len(q)] \in Elements(q)
<1>1. Len(q) \in DOMAIN q /\ q[Len(q)] \in S
  OBVIOUS
<1>2. /\ SubSeq(q, 1, Len(q) - 1) \in Seq(S)
      /\ DOMAIN SubSeq(q, 1, Len(q) - 1) = 1 .. (Len(q) - 1)
      /\ \A i \in 1 .. (Len(q) - 1) : /\ SubSeq(q, 1, Len(q) - 1)[i] = q[i]
                                      /\ i \in DOMAIN q
  OBVIOUS
<1> QED
  BY <1>1, <1>2 DEF Elements

\* Closing a queued generator keeps the invariant.
LEMMA FinalizeGeneratorStep ==
  ASSUME HeapInv, FinalizeGenerator
  PROVE  HeapInv'
<1> USE DEF HeapInv
<1> DEFINE v == pendingGenerators[Len(pendingGenerators)]
<1>1. /\ v \in Value
      /\ pendingGenerators' \in Seq(Value)
      /\ Elements(pendingGenerators') \subseteq Elements(pendingGenerators)
      /\ v \in Elements(pendingGenerators)
  BY PoppedQueue DEF FinalizeGenerator, TypeOK
<1>2. Resolves(v)
  BY <1>1 DEF NoDanglingReference, CollectorRoots
<1>3. Object(v) \in Entry /\ Location(v) \in DOMAIN objects
  BY <1>1, <1>2, ResolvedObject
<1>4. \A w \in Object(v).refs \cup Object(v).held : w \in Value /\ Resolves(w)
  BY <1>3 DEF NoDanglingReference, Object, Entry
<1>5. ASSUME roots' \subseteq Value, \A w \in roots' : Resolves(w)
      PROVE  RootsKept /\ reclaimed' = reclaimed
  BY <1>1, <1>5 DEF RootsKept, FinalizeGenerator, history, TypeOK,
                    NoDanglingReference, CollectorRoots
<1>6. CASE Object(v).state = "suspended"
  <2> DEFINE e == [Object(v) EXCEPT !.state = "running", !.refs = {}]
  <2>1. RootsKept /\ reclaimed' = reclaimed
    BY <1>1, <1>2, <1>4, <1>5, <1>6
       DEF FinalizeGenerator, TypeOK, NoDanglingReference, CollectorRoots
  <2>2. /\ e \in Entry /\ e.slot = Object(v).slot /\ e.young = Object(v).young
        /\ e.kind = Object(v).kind /\ e.refs = {} /\ e.held = Object(v).held
    BY <1>3 DEF Entry, GeneratorStates
  <2>3. e.kind # "foreign" => e.held = {}
    BY <1>3, <2>2 DEF HeldByForeign, Object
  <2>4. \A w \in e.held : Resolves(w)
    BY <1>4, <2>2
  <2>5. objects' = [objects EXCEPT ![Location(v)] = e]
    BY <1>6 DEF FinalizeGenerator, SetObject
  <2>6. remembered' = Barrier(v, {}) /\ UNCHANGED <<slots, free, external>>
    BY DEF FinalizeGenerator, Barrier
  <2> HIDE DEF e, v
  <2> QED
    BY <1>1, <1>2, <2>1, <2>2, <2>3, <2>4, <2>5, <2>6, StoreStep
<1>7. CASE Object(v).state # "suspended"
  <2>1. UNCHANGED <<objects, roots>>
    BY <1>7 DEF FinalizeGenerator
  <2>2. RootsKept /\ reclaimed' = reclaimed
    BY <1>5, <2>1 DEF TypeOK, NoDanglingReference, CollectorRoots
  <2> QED
    BY <2>1, <2>2, RootStep DEF FinalizeGenerator
<1> QED
  BY <1>6, <1>7

\* Calling a queued __del__ keeps the invariant.
LEMMA FinalizeObjectStep ==
  ASSUME HeapInv, FinalizeObject
  PROVE  HeapInv'
<1> USE DEF HeapInv
<1> DEFINE v == pendingFinalizers[Len(pendingFinalizers)]
<1>1. /\ v \in Value
      /\ pendingFinalizers' \in Seq(Value)
      /\ Elements(pendingFinalizers') \subseteq Elements(pendingFinalizers)
      /\ v \in Elements(pendingFinalizers)
  BY PoppedQueue DEF FinalizeObject, TypeOK
<1>2. Resolves(v)
  BY <1>1 DEF NoDanglingReference, CollectorRoots
<1>3. RootsKept
  BY <1>1, <1>2 DEF RootsKept, FinalizeObject, TypeOK, NoDanglingReference, CollectorRoots
<1> QED
  BY <1>3, RootStep DEF FinalizeObject

\* Destroying the queued payloads keeps the invariant.
LEMMA DrainForeignStep ==
  ASSUME HeapInv, DrainForeign
  PROVE  HeapInv'
<1>1. RootsKept
  BY DEF HeapInv, RootsKept, DrainForeign, TypeOK, NoDanglingReference, CollectorRoots, history
<1> QED
  BY <1>1, RootStep DEF DrainForeign, history

-----------------------------------------------------------------------------
(* Collection.                                                             *)

\* The refreshed storage differs in the cached edges of foreign wrappers alone.
LEMMA RefreshedStore ==
  ASSUME HeapInv
  PROVE  /\ Refreshed \in Seq(Entry)
         /\ DOMAIN Refreshed = DOMAIN objects
         /\ \A l \in DOMAIN objects :
              /\ Refreshed[l] \in Entry
              /\ Refreshed[l].slot = objects[l].slot
              /\ Refreshed[l].young = objects[l].young
              /\ Refreshed[l].kind = objects[l].kind
              /\ Refreshed[l].state = objects[l].state
              /\ Refreshed[l].held = objects[l].held
              /\ Refreshed[l].kind # "foreign" => Refreshed[l].held = {}
              /\ Refreshed[l].held \subseteq Refreshed[l].refs
              /\ \A v \in Edges(Refreshed, l) : v \in Value /\ Resolves(v)
<1> USE DEF HeapInv
<1>1. Len(objects) \in Nat /\ DOMAIN objects = 1 .. Len(objects)
      /\ \A l \in DOMAIN objects : objects[l] \in Entry
  BY DEF TypeOK
<1>2. ASSUME NEW l \in DOMAIN objects
      PROVE  /\ Refreshed[l] \in Entry
             /\ Refreshed[l].slot = objects[l].slot
             /\ Refreshed[l].young = objects[l].young
             /\ Refreshed[l].kind = objects[l].kind
             /\ Refreshed[l].state = objects[l].state
             /\ Refreshed[l].held = objects[l].held
             /\ Refreshed[l].kind # "foreign" => Refreshed[l].held = {}
             /\ Refreshed[l].held \subseteq Refreshed[l].refs
             /\ Refreshed[l].refs \subseteq objects[l].refs \cup objects[l].held
  <2>1. objects[l] \in Entry
    BY <1>1
  <2>2. CASE objects[l].kind = "foreign"
    <3>1. Refreshed[l] = [objects[l] EXCEPT !.refs = objects[l].held]
      BY <2>2 DEF Refreshed
    <3> QED
      BY <2>1, <2>2, <3>1 DEF Entry
  <2>3. CASE objects[l].kind # "foreign"
    <3>1. Refreshed[l] = objects[l] /\ objects[l].held = {}
      BY <2>3 DEF Refreshed, HeldByForeign
    <3> QED
      BY <2>1, <2>3, <3>1
  <2> QED
    BY <2>2, <2>3
<1>3. ASSUME NEW l \in DOMAIN objects, NEW v \in Edges(Refreshed, l)
      PROVE  v \in Value /\ Resolves(v)
  <2>1. CASE v \in Refreshed[l].refs
    <3>1. objects[l] \in Entry
      BY <1>1
    <3> QED
      BY <1>2, <2>1, <3>1 DEF NoDanglingReference, Entry
  <2>2. CASE v \in ExternalValues(ValueAt(l))
    BY <2>2 DEF ExternalValues, NoDanglingReference, TypeOK, ExternalField
  <2> QED
    BY <1>3, <2>1, <2>2 DEF Edges
<1>4. DOMAIN Refreshed = DOMAIN objects
  BY DEF Refreshed
<1>5. Refreshed \in [1 .. Len(objects) -> Entry]
  BY <1>1, <1>2, <1>4 DEF Refreshed
<1>6. Refreshed \in Seq(Entry)
  BY <1>1, <1>5, FunctionIsSeq
<1> QED
  BY <1>2, <1>3, <1>4, <1>6

\* After the refresh an old object with an edge to a young one is remembered.
LEMMA RefreshedRemembered ==
  ASSUME HeapInv, NEW l \in DOMAIN objects, ~ objects[l].young,
         NEW v \in Edges(Refreshed, l), Object(v).young
  PROVE  objects[l].slot \in RefreshRemembered
<1> USE DEF HeapInv
<1>1. v \in Value /\ Resolves(v)
  BY RefreshedStore
<1>2. CASE v \in Edges(objects, l)
  BY <1>2 DEF RememberedSetComplete, RefreshRemembered
<1>3. CASE v \notin Edges(objects, l)
  <2>1. objects[l].kind = "foreign" /\ v \in objects[l].held
    BY <1>3, RefreshedStore DEF Edges, Refreshed
  <2> QED
    BY <1>1, <2>1 DEF RefreshRemembered
<1> QED
  BY <1>2, <1>3

\* Marked locations and the ones a collection does not touch, together, are
\* closed under edges and contain the roots.
BaseClosed(store, base) ==
  /\ base \subseteq DOMAIN objects
  /\ \A l \in base : \A v \in Edges(store, l) : Location(v) \in base

\* A full mark is closed and contains the collector's roots.
LEMMA MajorBase ==
  ASSUME HeapInv
  PROVE  /\ BaseClosed(Refreshed, MajorMarked(Refreshed))
         /\ Locations(CollectorRoots) \subseteq MajorMarked(Refreshed)
<1> USE DEF HeapInv
<1> DEFINE M == MajorMarked(Refreshed)
<1>1. /\ M \subseteq DOMAIN Refreshed
      /\ Locations(CollectorRoots) \cap DOMAIN Refreshed \subseteq M
      /\ Closed(Refreshed, DOMAIN Refreshed, M)
  BY ReachFacts DEF MajorMarked
<1>2. DOMAIN Refreshed = DOMAIN objects
  BY RefreshedStore
<1>3. \A v \in CollectorRoots : v \in Value /\ Resolves(v)
  BY DEF CollectorRoots, NoDanglingReference, TypeOK, Elements
<1>4. Locations(CollectorRoots) \subseteq DOMAIN objects
  BY <1>3, ResolvedObject DEF Locations
<1>5. \A l \in M : \A v \in Edges(Refreshed, l) : Location(v) \in DOMAIN objects
  BY <1>1, <1>2, RefreshedStore, ResolvedObject
<1> HIDE DEF M
<1>6. BaseClosed(Refreshed, M)
  BY <1>1, <1>2, <1>5 DEF BaseClosed, Closed
<1>7. Locations(CollectorRoots) \subseteq M
  BY <1>1, <1>2, <1>4
<1> QED
  BY <1>6, <1>7 DEF M

\* So is a minor mark together with the old objects: an edge from an old object
\* to a young one starts at a remembered owner, whose edges are marked.
LEMMA MinorBase ==
  ASSUME HeapInv
  PROVE  LET base == MinorMarked(Refreshed, RefreshRemembered)
                       \cup (DOMAIN objects \ YoungLocations)
         IN  /\ BaseClosed(Refreshed, base)
             /\ Locations(CollectorRoots) \subseteq base
<1> USE DEF HeapInv
<1> DEFINE start == CollectorRoots \cup RememberedEdges(Refreshed, RefreshRemembered)
           M == MinorMarked(Refreshed, RefreshRemembered)
           base == M \cup (DOMAIN objects \ YoungLocations)
<1>1. /\ M \subseteq YoungLocations
      /\ Locations(start) \cap YoungLocations \subseteq M
      /\ Closed(Refreshed, YoungLocations, M)
  BY ReachFacts DEF MinorMarked
<1>2. DOMAIN Refreshed = DOMAIN objects /\ YoungLocations \subseteq DOMAIN objects
  BY RefreshedStore DEF YoungLocations
<1>3. \A v \in CollectorRoots : v \in Value /\ Resolves(v)
  BY DEF CollectorRoots, NoDanglingReference, TypeOK, Elements
<1>4. Locations(CollectorRoots) \subseteq DOMAIN objects
  BY <1>3, ResolvedObject DEF Locations
<1>5. Locations(CollectorRoots) \subseteq base
  <2>1. Locations(CollectorRoots) \subseteq Locations(start)
    BY DEF Locations
  <2> HIDE DEF M, start
  <2> QED
    BY <1>1, <1>4, <2>1
<1>6. ASSUME NEW l \in base, NEW v \in Edges(Refreshed, l)
      PROVE  Location(v) \in base
  <2>1. l \in DOMAIN objects
    BY <1>1, <1>2
  <2>2. Location(v) \in DOMAIN objects
    BY <2>1, <1>6, RefreshedStore, ResolvedObject
  <2>3. CASE Location(v) \notin YoungLocations
    BY <2>2, <2>3
  <2>4. CASE Location(v) \in YoungLocations /\ l \in M
    BY <1>1, <1>6, <2>4 DEF Closed
  <2>5. CASE Location(v) \in YoungLocations /\ l \notin YoungLocations
    <3>1. ~ objects[l].young /\ Object(v).young
      BY <2>1, <2>5 DEF YoungLocations, Object
    <3>2. objects[l].slot \in RefreshRemembered
      BY <1>6, <2>1, <3>1, RefreshedRemembered
    <3>3. Refreshed[l].slot = objects[l].slot
      BY <2>1, RefreshedStore
    <3>4. v \in RememberedEdges(Refreshed, RefreshRemembered)
      BY <1>2, <1>6, <2>1, <3>2, <3>3 DEF RememberedEdges
    <3>5. Location(v) \in Locations(start)
      BY <3>4 DEF Locations
    <3> HIDE DEF M, start
    <3> QED
      BY <1>1, <2>5, <3>5
  <2> HIDE DEF M
  <2> QED
    BY <1>1, <1>6, <2>3, <2>4, <2>5
<1> HIDE DEF M
<1>7. base \subseteq DOMAIN objects
  BY <1>1, <1>2
<1>8. BaseClosed(Refreshed, base)
  BY <1>6, <1>7 DEF BaseClosed
<1> QED
  BY <1>5, <1>8 DEF M

\* Queueing more locations keeps a closed set closed.
LEMMA ReviveBase ==
  ASSUME HeapInv, NEW marked, NEW rest, BaseClosed(Refreshed, marked \cup rest),
         NEW Q \in SUBSET (DOMAIN objects \ marked)
  PROVE  /\ BaseClosed(Refreshed, (marked \cup Revived(Refreshed, marked, Q)) \cup rest)
         /\ Q \subseteq Revived(Refreshed, marked, Q)
<1> USE DEF HeapInv
<1> DEFINE W == DOMAIN Refreshed \ marked
           more == Revived(Refreshed, marked, Q)
<1> USE DEF Revived
<1>1. DOMAIN Refreshed = DOMAIN objects
  BY RefreshedStore
<1>2. \A l \in Q : /\ Revive(Refreshed, marked, l) \subseteq W
                   /\ {l} \cap W \subseteq Revive(Refreshed, marked, l)
                   /\ Closed(Refreshed, W, Revive(Refreshed, marked, l))
  BY ReachFacts DEF Revive
<1>3. Q \subseteq more
  BY <1>1, <1>2
<1>4. more \subseteq DOMAIN objects
  BY <1>1, <1>2
<1>5. ASSUME NEW l \in more, NEW v \in Edges(Refreshed, l)
      PROVE  Location(v) \in marked \cup more
  <2>1. PICK k \in Q : l \in Revive(Refreshed, marked, k)
    OBVIOUS
  <2>2. Location(v) \in DOMAIN Refreshed
    BY <1>1, <1>4, <1>5, RefreshedStore, ResolvedObject
  <2>3. CASE Location(v) \in marked
    BY <2>3
  <2>4. CASE Location(v) \in W
    <3>1. Location(v) \in Revive(Refreshed, marked, k)
      BY <1>2, <1>5, <2>1, <2>4 DEF Closed
    <3> QED
      BY <3>1
  <2> QED
    BY <2>2, <2>3, <2>4
<1> HIDE DEF more
<1>6. BaseClosed(Refreshed, (marked \cup more) \cup rest)
  BY <1>4, <1>5 DEF BaseClosed
<1> QED
  BY <1>3, <1>6 DEF more

\* How sweeping changes the slots: a survivor's slot follows it, a dead one's is
\* vacated and moves to its next generation if it has one.
LEMMA SweptSlotFacts ==
  ASSUME HeapInv, HeapAssumption, NEW live \in SUBSET DOMAIN objects,
         NEW order \in Increasing(live), slots' = SweptSlots(live, order)
  PROVE  /\ slots' \in Seq(Slot) /\ Len(slots') = Len(slots) /\ DOMAIN slots' = DOMAIN slots
         /\ \A s \in DOMAIN slots : slots[s].location = 0 => slots'[s] = slots[s]
         /\ \A s \in DOMAIN slots : slots[s].location \in live =>
              /\ slots'[s].generation = slots[s].generation
              /\ slots'[s].location \in DOMAIN order
              /\ order[slots'[s].location] = slots[s].location
              /\ slots'[s].location # 0
         /\ \A s \in DOMAIN slots : slots[s].location # 0 /\ slots[s].location \notin live =>
              /\ slots'[s].location = 0
              /\ slots'[s].generation = IF slots[s].generation < MAX_GENERATION
                                        THEN slots[s].generation + 1
                                        ELSE slots[s].generation
<1> USE DEF HeapInv
<1>1. Len(objects) \in Nat /\ DOMAIN objects = 1 .. Len(objects)
      /\ Len(slots) \in Nat /\ DOMAIN slots = 1 .. Len(slots)
      /\ \A s \in DOMAIN slots : slots[s] \in Slot
  BY DEF TypeOK
<1>2. /\ DOMAIN order = 1 .. Len(order) /\ Len(order) \in Nat
      /\ \A l \in live : \E i \in DOMAIN order : order[i] = l
  BY <1>1, IncreasingIsSeq
<1>3. MAX_GENERATION \in Nat
  BY DEF HeapAssumption
<1>4. ASSUME NEW s \in DOMAIN slots
      PROVE  /\ slots'[s] \in Slot
             /\ slots[s].location = 0 => slots'[s] = slots[s]
             /\ slots[s].location \in live =>
                  /\ slots'[s].generation = slots[s].generation
                  /\ slots'[s].location \in DOMAIN order
                  /\ order[slots'[s].location] = slots[s].location
                  /\ slots'[s].location # 0
             /\ slots[s].location # 0 /\ slots[s].location \notin live =>
                  /\ slots'[s].location = 0
                  /\ slots'[s].generation = IF slots[s].generation < MAX_GENERATION
                                            THEN slots[s].generation + 1
                                            ELSE slots[s].generation
  <2> DEFINE i == CHOOSE k \in DOMAIN order : order[k] = slots[s].location
  <2>1. slots[s] \in Slot
    BY <1>1
  <2>2. CASE slots[s].location = 0
    <3>1. slots'[s] = slots[s] /\ 0 \notin live
      BY <1>1, <2>2 DEF SweptSlots
    <3> QED
      BY <2>1, <2>2, <3>1
  <2>3. CASE slots[s].location \in live
    <3>1. slots[s].location # 0
      BY <1>1, <2>3
    <3>2. i \in DOMAIN order /\ order[i] = slots[s].location
      BY <1>2, <2>3
    <3>3. slots'[s] = [slots[s] EXCEPT !.location = i]
      BY <2>3, <3>1 DEF SweptSlots
    <3>4. i \in Nat /\ i # 0
      BY <1>2, <3>2
    <3> HIDE DEF i
    <3> QED
      BY <2>1, <2>3, <3>1, <3>2, <3>3, <3>4 DEF Slot
  <2>4. CASE slots[s].location # 0 /\ slots[s].location \notin live
    <3> DEFINE g == IF slots[s].generation < MAX_GENERATION
                    THEN slots[s].generation + 1 ELSE slots[s].generation
    <3>1. slots'[s] = [generation |-> g, location |-> 0]
      BY <2>4 DEF SweptSlots
    <3>2. g \in 1 .. MAX_GENERATION
      BY <1>3, <2>1 DEF Slot
    <3> QED
      BY <2>4, <3>1, <3>2 DEF Slot
  <2> QED
    BY <2>2, <2>3, <2>4
<1>5. DOMAIN slots' = DOMAIN slots
  BY DEF SweptSlots
<1>6. slots' \in [1 .. Len(slots) -> Slot]
  BY <1>1, <1>4, <1>5 DEF SweptSlots
<1>7. slots' \in Seq(Slot) /\ Len(slots') = Len(slots)
  BY <1>1, <1>6, FunctionIsSeq
<1> QED
  BY <1>4, <1>5, <1>7

\* Sweeping a closed set of survivors that contains the roots, and whatever was
\* queued, keeps the invariant.
LEMMA SweepStep ==
  ASSUME HeapInv, HeapAssumption, NEW live, BaseClosed(Refreshed, live),
         Locations(CollectorRoots) \subseteq live,
         Sweep(Refreshed, live), roots' = roots,
         pendingGenerators' \in Seq(Value), pendingFinalizers' \in Seq(Value),
         finalizedObjects' \subseteq Value, ran' = ran,
         \A v \in CollectorRoots' : v \in Value /\ Resolves(v) /\ Location(v) \in live
  PROVE  HeapInv'
<1> USE DEF HeapInv
<1> DEFINE store == Refreshed
           dead == DOMAIN store \ live
           gone == {l \in dead : Recyclable(l)}
           lost == {l \in dead : store[l].kind = "foreign"}
<1>1. /\ DOMAIN store = DOMAIN objects /\ live \subseteq DOMAIN objects
      /\ Len(objects) \in Nat /\ DOMAIN objects = 1 .. Len(objects)
      /\ dead \subseteq DOMAIN objects /\ gone \subseteq dead /\ lost \subseteq dead
  BY RefreshedStore DEF BaseClosed, TypeOK
<1>2. PICK order \in Increasing(live) :
        objects' = Compacted(store, order) /\ slots' = SweptSlots(live, order)
  BY DEF Sweep
<1>3. PICK vacated \in Increasing(gone) : free' = free \o SlotsAt(vacated)
  BY DEF Sweep
<1>4. PICK payloads \in Increasing(lost) :
        pendingForeign' = pendingForeign \o PayloadsAt(store, payloads)
  BY DEF Sweep
<1> HIDE DEF dead, gone, lost
<1>5. /\ DOMAIN order = 1 .. Len(order) /\ Len(order) \in Nat
      /\ \A i, j \in DOMAIN order : i < j => order[i] < order[j]
      /\ \A i \in DOMAIN order : order[i] \in live
  BY <1>1, IncreasingIsSeq
<1>6. /\ slots' \in Seq(Slot) /\ Len(slots') = Len(slots) /\ DOMAIN slots' = DOMAIN slots
      /\ \A s \in DOMAIN slots : slots[s].location = 0 => slots'[s] = slots[s]
      /\ \A s \in DOMAIN slots : slots[s].location \in live =>
           /\ slots'[s].generation = slots[s].generation
           /\ slots'[s].location \in DOMAIN order
           /\ order[slots'[s].location] = slots[s].location
           /\ slots'[s].location # 0
      /\ \A s \in DOMAIN slots : slots[s].location # 0 /\ slots[s].location \notin live =>
           /\ slots'[s].location = 0
           /\ slots'[s].generation = IF slots[s].generation < MAX_GENERATION
                                     THEN slots[s].generation + 1
                                     ELSE slots[s].generation
  BY <1>1, <1>2, SweptSlotFacts
<1>7. \A i, j \in DOMAIN order : order[i] = order[j] => i = j
  <2>1. \A i \in DOMAIN order : i \in Int /\ order[i] \in Int
    BY <1>1, <1>5
  <2> QED
    BY <1>5, <2>1
<1>8. /\ DOMAIN objects' = DOMAIN order
      /\ objects' \in Seq(Entry)
      /\ \A i \in DOMAIN order : /\ objects'[i] \in Entry
                                 /\ objects'[i].slot = objects[order[i]].slot
                                 /\ objects'[i].kind = store[order[i]].kind
                                 /\ objects'[i].refs = store[order[i]].refs
                                 /\ objects'[i].held = store[order[i]].held
                                 /\ objects'[i].young = FALSE
  <2>1. DOMAIN objects' = DOMAIN order
    BY <1>2 DEF Compacted
  <2>2. ASSUME NEW i \in DOMAIN order
        PROVE  /\ objects'[i] \in Entry
               /\ objects'[i].slot = objects[order[i]].slot
               /\ objects'[i].kind = store[order[i]].kind
               /\ objects'[i].refs = store[order[i]].refs
               /\ objects'[i].held = store[order[i]].held
               /\ objects'[i].young = FALSE
    <3>1. order[i] \in DOMAIN objects
      BY <1>1, <1>5
    <3>2. store[order[i]] \in Entry /\ store[order[i]].slot = objects[order[i]].slot
      BY <3>1, RefreshedStore
    <3>3. objects'[i] = [store[order[i]] EXCEPT !.young = FALSE]
      BY <1>2 DEF Compacted
    <3> HIDE DEF store
    <3> QED
      BY <3>2, <3>3 DEF Entry
  <2>3. objects' \in [1 .. Len(order) -> Entry]
    BY <1>2, <1>5, <2>1, <2>2 DEF Compacted
  <2> QED
    BY <1>5, <2>1, <2>2, <2>3, FunctionIsSeq
<1>9. \A v : Resolves(v) /\ Location(v) \in live =>
         /\ Resolves(v)'
         /\ Location(v)' \in DOMAIN order
         /\ order[Location(v)'] = Location(v)
  BY <1>6 DEF Resolves, Location
<1>10. \A s \in DOMAIN slots : slots[s] \in Slot
  BY DEF TypeOK
<1>11. \A v : Resolves(v) /\ Resolves(v)' => Location(v) \in live
  <2>1. SUFFICES ASSUME NEW v, Resolves(v), Resolves(v)', Location(v) \notin live
                 PROVE  FALSE
    OBVIOUS
  <2>2. slots'[v.slot].location = 0
    BY <1>6, <2>1 DEF Resolves, Location
  <2> QED
    BY <2>1, <2>2 DEF Resolves
<1>12. \A l \in DOMAIN objects : /\ objects[l].slot \in DOMAIN slots
                                 /\ slots[objects[l].slot].location = l
                                 /\ objects[l].slot \in SlotIds
  <2>1. \A l \in DOMAIN objects : objects[l] \in Entry
    BY DEF TypeOK
  <2> QED
    BY <2>1 DEF StorageConsistent, Entry
<1>13. /\ DOMAIN vacated = 1 .. Len(vacated) /\ Len(vacated) \in Nat
       /\ \A i, j \in DOMAIN vacated : i < j => vacated[i] < vacated[j]
       /\ \A i \in DOMAIN vacated : vacated[i] \in gone
  BY <1>1, IncreasingIsSeq
<1> DEFINE added == SlotsAt(vacated)
<1>14. /\ added \in Seq(SlotIds) /\ DOMAIN added = 1 .. Len(vacated) /\ Len(added) = Len(vacated)
       /\ \A i \in DOMAIN added : added[i] = objects[vacated[i]].slot
       /\ \A i \in DOMAIN added : vacated[i] \in gone /\ vacated[i] \in DOMAIN objects
  <2>1. added \in [1 .. Len(vacated) -> SlotIds]
    BY <1>1, <1>12, <1>13 DEF SlotsAt
  <2> QED
    BY <1>1, <1>13, <2>1, FunctionIsSeq DEF SlotsAt
<1>15. \A i, j \in DOMAIN added : added[i] = added[j] => i = j
  <2>1. \A i \in DOMAIN added : i \in Int /\ vacated[i] \in Int
    BY <1>1, <1>13, <1>14
  <2>2. \A i, j \in DOMAIN added : added[i] = added[j] => vacated[i] = vacated[j]
    BY <1>12, <1>14
  <2> QED
    BY <1>13, <1>14, <2>1, <2>2
<1>16. \A i \in DOMAIN added : /\ added[i] \in DOMAIN slots
                               /\ slots[added[i]].location # 0
                               /\ slots[added[i]].location \notin live
                               /\ slots[added[i]].generation < MAX_GENERATION
  BY <1>1, <1>12, <1>14 DEF gone, dead, Recyclable
<1> HIDE DEF added
<1>17. /\ free' \in Seq(SlotIds)
       /\ DOMAIN free' = 1 .. (Len(free) + Len(added))
       /\ \A i \in DOMAIN free' : \/ i \in DOMAIN free /\ free'[i] = free[i]
                                  \/ /\ i - Len(free) \in DOMAIN added
                                     /\ free'[i] = added[i - Len(free)]
  <2>1. added \in Seq(SlotIds) /\ free \in Seq(SlotIds) /\ free' = free \o added
    BY <1>3, <1>14 DEF TypeOK, added
  <2> QED
    BY <2>1, ConcatFacts
<1>18. TypeOK'
  <2>1. /\ payloads \in Seq(lost) /\ DOMAIN payloads = 1 .. Len(payloads)
        /\ Len(payloads) \in Nat
        /\ \A i \in DOMAIN payloads : payloads[i] \in lost /\ payloads[i] \in DOMAIN objects
    BY <1>1, IncreasingIsSeq
  <2>2. \A l \in DOMAIN objects : ValueAt(l) \in Value
    BY StoredValue
  <2>3. \A l \in DOMAIN objects : store[l].refs \in SUBSET Value
    BY RefreshedStore DEF Entry
  <2>4. PayloadsAt(store, payloads) \in [1 .. Len(payloads) -> PendingForeign]
    <3> HIDE DEF store
    <3> QED
      BY <2>1, <2>2, <2>3 DEF PayloadsAt, PendingForeign
  <2>5. PayloadsAt(store, payloads) \in Seq(PendingForeign)
    BY <2>1, <2>4, FunctionIsSeq
  <2>6. pendingForeign' \in Seq(PendingForeign)
    BY <1>4, <2>5 DEF TypeOK
  <2>7. reclaimed' \subseteq Value
    BY <1>1, <2>2 DEF Sweep, TypeOK, dead
  <2>8. external' \subseteq ExternalField /\ remembered' = {}
    BY DEF Sweep, TypeOK
  <2> QED
    BY <1>6, <1>8, <1>17, <2>6, <2>7, <2>8 DEF TypeOK
<1>19. StorageConsistent'
  <2>1. \A s \in DOMAIN slots' : slots'[s].location # 0 =>
          /\ slots'[s].location \in DOMAIN objects'
          /\ objects'[slots'[s].location].slot = s
    <3>1. SUFFICES ASSUME NEW s \in DOMAIN slots, slots'[s].location # 0
                   PROVE  /\ slots'[s].location \in DOMAIN objects'
                          /\ objects'[slots'[s].location].slot = s
      BY <1>6
    <3>2. slots[s].location \in live /\ slots[s].location # 0
      BY <1>6, <3>1
    <3>3. objects[slots[s].location].slot = s
      BY <3>2 DEF StorageConsistent
    <3> QED
      BY <1>6, <1>8, <3>2, <3>3
  <2>2. \A l \in DOMAIN objects' : /\ objects'[l].slot \in DOMAIN slots'
                                   /\ slots'[objects'[l].slot].location = l
    <3>1. SUFFICES ASSUME NEW l \in DOMAIN order
                   PROVE  /\ objects'[l].slot \in DOMAIN slots'
                          /\ slots'[objects'[l].slot].location = l
      BY <1>8
    <3> DEFINE s == objects[order[l]].slot
    <3>2. objects'[l].slot = s /\ s \in DOMAIN slots /\ slots[s].location = order[l]
          /\ order[l] \in live
      BY <1>1, <1>5, <1>8, <1>12
    <3> HIDE DEF s
    <3> QED
      BY <1>6, <1>7, <3>2
  <2>3. \A i \in DOMAIN free' : free'[i] \in DOMAIN slots' /\ slots'[free'[i]].location = 0
    <3>1. SUFFICES ASSUME NEW i \in DOMAIN free'
                   PROVE  free'[i] \in DOMAIN slots /\ slots'[free'[i]].location = 0
      BY <1>6
    <3>2. CASE i \in DOMAIN free /\ free'[i] = free[i]
      <4>1. free[i] \in DOMAIN slots /\ slots[free[i]].location = 0
        BY <3>2 DEF StorageConsistent
      <4> QED
        BY <1>6, <3>2, <4>1
    <3>3. CASE i - Len(free) \in DOMAIN added /\ free'[i] = added[i - Len(free)]
      BY <1>6, <1>16, <3>3
    <3> QED
      BY <1>17, <3>2, <3>3
  <2>4. \A i, j \in DOMAIN free' : free'[i] = free'[j] => i = j
    <3>1. SUFFICES ASSUME NEW i \in DOMAIN free', NEW j \in DOMAIN free', free'[i] = free'[j]
                   PROVE  i = j
      OBVIOUS
    <3>2. Len(free) \in Nat /\ Len(added) \in Nat /\ i \in Int /\ j \in Int
      BY <1>14, <1>17 DEF TypeOK
    <3>3. \A k \in DOMAIN free : slots[free[k]].location = 0
      BY DEF StorageConsistent
    <3>4. CASE i \in DOMAIN free /\ free'[i] = free[i]
      <4>1. j \in DOMAIN free /\ free'[j] = free[j]
        <5>1. slots[free'[j]].location = 0
          BY <3>1, <3>3, <3>4
        <5> QED
          BY <1>16, <1>17, <5>1
      <4> QED
        BY <3>1, <3>4, <4>1 DEF StorageConsistent
    <3>5. CASE i - Len(free) \in DOMAIN added /\ free'[i] = added[i - Len(free)]
      <4>1. j - Len(free) \in DOMAIN added /\ free'[j] = added[j - Len(free)]
        <5>1. slots[free'[j]].location # 0
          BY <1>16, <3>1, <3>5
        <5> QED
          BY <1>17, <3>3, <5>1
      <4>2. i - Len(free) = j - Len(free)
        BY <1>15, <3>1, <3>5, <4>1
      <4> QED
        BY <3>2, <4>2
    <3> QED
      BY <1>17, <3>4, <3>5
  <2> QED
    BY <2>1, <2>2, <2>3, <2>4 DEF StorageConsistent
<1>20. NoDanglingReference'
  <2>1. ASSUME NEW i \in DOMAIN objects', NEW v \in objects'[i].refs \cup objects'[i].held
        PROVE  Resolves(v)'
    <3>1. i \in DOMAIN order /\ order[i] \in live /\ order[i] \in DOMAIN objects
      BY <1>1, <1>5, <1>8
    <3>2. v \in store[order[i]].refs
      BY <1>8, <2>1, <3>1, RefreshedStore
    <3>3. v \in Edges(store, order[i])
      BY <3>2 DEF Edges
    <3>4. Resolves(v) /\ Location(v) \in live
      BY <3>1, <3>3, RefreshedStore DEF BaseClosed
    <3> QED
      BY <1>9, <3>4
  <2>2. ASSUME NEW e \in external'
        PROVE  Resolves(e.owner)' /\ Resolves(e.value)'
    <3>1. e \in external /\ ResolvesIn(slots', e.owner)
      BY DEF Sweep
    <3>2. Resolves(e.owner) /\ Resolves(e.value) /\ e.owner \in Value
      BY <3>1 DEF NoDanglingReference, TypeOK, ExternalField
    <3>3. Resolves(e.owner)'
      BY <1>6, <3>1, <3>2 DEF Resolves, ResolvesIn
    <3>4. Location(e.owner) \in live
      BY <1>11, <3>2, <3>3
    <3>5. ValueAt(Location(e.owner)) = e.owner
      BY <3>2, ResolvedObject
    <3>6. e.value \in Edges(store, Location(e.owner))
      BY <3>1, <3>5 DEF Edges, ExternalValues
    <3>7. Location(e.value) \in live
      BY <3>4, <3>6 DEF BaseClosed
    <3> QED
      BY <1>9, <3>2, <3>3, <3>7
  <2>3. \A v \in CollectorRoots' : Resolves(v)'
    BY <1>9
  <2> QED
    BY <2>1, <2>2, <2>3 DEF NoDanglingReference
<1>21. RememberedSetComplete'
  <2>1. SUFFICES ASSUME NEW l \in DOMAIN objects', NEW v \in Edges(objects, l)'
                 PROVE  ~ Object(v)'.young
    BY DEF RememberedSetComplete
  <2>2. Resolves(v)'
    BY <1>20, <2>1 DEF Edges, ExternalValues, NoDanglingReference
  <2>3. Location(v)' \in DOMAIN objects'
    BY <1>19, <2>2 DEF StorageConsistent, Resolves, Location
  <2> QED
    BY <1>8, <2>3 DEF Object
<1>22. HeldByForeign'
  <2>1. \A i \in DOMAIN order : order[i] \in DOMAIN objects
    BY <1>1, <1>5
  <2> QED
    BY <1>8, <2>1, RefreshedStore DEF HeldByForeign
<1>23. ReclaimedGenerations'
  <2>1. SUFFICES ASSUME NEW v \in reclaimed'
                 PROVE  /\ v.slot \in DOMAIN slots'
                        /\ \/ v.generation < slots'[v.slot].generation
                           \/ /\ v.generation = slots'[v.slot].generation
                              /\ slots'[v.slot].location = 0
                              /\ \A i \in DOMAIN free' : free'[i] # v.slot
    BY DEF ReclaimedGenerations
  <2>2. \A s \in DOMAIN slots : /\ slots[s].generation \in Nat
                                /\ slots'[s].generation \in Nat
                                /\ slots'[s].generation >= slots[s].generation
    <3>1. \A s \in DOMAIN slots : slots[s].generation \in Nat /\ slots'[s].generation \in Nat
      <4>1. \A s \in DOMAIN slots : slots[s] \in Slot /\ slots'[s] \in Slot
        BY <1>6, <1>10
      <4> QED
        BY <4>1 DEF Slot, HeapAssumption
    <3> QED
      BY <1>6, <3>1
  <2>3. CASE v \in reclaimed
    <3>1. v \in Value /\ v.generation \in Nat
      BY <2>3, HeapAssumption DEF TypeOK, Value, HeapAssumption
    <3>2. v.slot \in DOMAIN slots
      BY <2>3 DEF ReclaimedGenerations
    <3>3. CASE v.generation < slots[v.slot].generation
      BY <1>6, <2>2, <3>1, <3>2, <3>3
    <3>4. CASE /\ v.generation = slots[v.slot].generation
               /\ slots[v.slot].location = 0
               /\ \A i \in DOMAIN free : free[i] # v.slot
      <4>1. \A i \in DOMAIN free' : free'[i] # v.slot
        BY <1>16, <1>17, <3>4
      <4> QED
        BY <1>6, <3>2, <3>4, <4>1
    <3> QED
      BY <2>3, <3>3, <3>4 DEF ReclaimedGenerations
  <2>4. CASE v \notin reclaimed
    <3>1. PICK l \in dead : v = ValueAt(l)
      BY <2>1, <2>4 DEF Sweep, dead
    <3>2. /\ l \in DOMAIN objects /\ l \notin live
          /\ v.slot = objects[l].slot /\ v.generation = slots[v.slot].generation
          /\ v.slot \in DOMAIN slots /\ slots[v.slot].location = l /\ l # 0
      BY <1>1, <1>12, <3>1 DEF ValueAt, dead
    <3>3. CASE slots[v.slot].generation < MAX_GENERATION
      BY <1>6, <2>2, <3>2, <3>3
    <3>4. CASE ~ (slots[v.slot].generation < MAX_GENERATION)
      <4>1. slots'[v.slot].location = 0 /\ slots'[v.slot].generation = v.generation
        BY <1>6, <3>2, <3>4
      <4>2. \A i \in DOMAIN free' : free'[i] # v.slot
        BY <1>16, <1>17, <3>2, <3>4 DEF StorageConsistent
      <4> QED
        BY <1>6, <3>2, <4>1, <4>2
    <3> QED
      BY <3>3, <3>4
  <2> QED
    BY <2>3, <2>4
<1> QED
  BY <1>18, <1>19, <1>20, <1>21, <1>22, <1>23

\* Values at enumerated locations are a queue of values that are stored there.
LEMMA QueuedValues ==
  ASSUME HeapInv, NEW S \in SUBSET DOMAIN objects, NEW order \in Increasing(S),
         NEW q \in Seq(Value)
  PROVE  /\ q \o ValuesAt(order) \in Seq(Value)
         /\ \A v \in Elements(q \o ValuesAt(order)) :
              v \in Elements(q) \/ \E l \in S : v = ValueAt(l)
<1> USE DEF HeapInv
<1>1. Len(objects) \in Nat /\ DOMAIN objects = 1 .. Len(objects)
  BY DEF TypeOK
<1>2. /\ DOMAIN order = 1 .. Len(order) /\ Len(order) \in Nat
      /\ \A i \in DOMAIN order : order[i] \in S
  BY <1>1, IncreasingIsSeq
<1>3. \A l \in DOMAIN objects : ValueAt(l) \in Value
  BY StoredValue
<1> DEFINE w == ValuesAt(order)
<1>4. w \in [1 .. Len(order) -> Value] /\ \A i \in DOMAIN w : \E l \in S : w[i] = ValueAt(l)
  BY <1>2, <1>3 DEF ValuesAt
<1>5. w \in Seq(Value)
  BY <1>2, <1>4, FunctionIsSeq
<1> HIDE DEF w
<1>6. q \o w \in Seq(Value)
      /\ \A i \in DOMAIN (q \o w) : \/ i \in DOMAIN q /\ (q \o w)[i] = q[i]
                                    \/ i - Len(q) \in DOMAIN w /\ (q \o w)[i] = w[i - Len(q)]
  BY <1>5, ConcatFacts
<1> QED
  BY <1>4, <1>6 DEF Elements, w

\* What both collections leave in place: what they mark, what queueing the
\* generators and the objects with __del__ revives, and what a minor one skips.
MarkedWithGenerators(minor) ==
  Marked(minor)
    \cup Revived(Refreshed, Marked(minor), QueuedGenerators(Refreshed, Marked(minor), minor))

Condemned(minor) == QueuedFinalizers(Refreshed, MarkedWithGenerators(minor), minor)

Survivors(minor) ==
  (MarkedWithGenerators(minor)
     \cup Revived(Refreshed, MarkedWithGenerators(minor), Condemned(minor)))
  \cup (DOMAIN objects \ Collected(minor))

\* A collection sweeps all but the survivors, who are closed under edges and
\* include the roots and whatever was queued.
LEMMA CollectFacts ==
  ASSUME HeapInv, HeapAssumption, NEW minor \in BOOLEAN, Collect(minor)
  PROVE  /\ BaseClosed(Refreshed, Survivors(minor))
         /\ Locations(CollectorRoots) \subseteq Survivors(minor)
         /\ QueuedGenerators(Refreshed, Marked(minor), minor) \subseteq Survivors(minor)
         /\ Condemned(minor) \subseteq Survivors(minor)
         /\ \E order \in Increasing(QueuedGenerators(Refreshed, Marked(minor), minor)) :
              pendingGenerators' = pendingGenerators \o ValuesAt(order)
         /\ \E order \in Increasing(Condemned(minor)) :
              pendingFinalizers' = pendingFinalizers \o ValuesAt(order)
         /\ finalizedObjects' = {v \in finalizedObjects : ResolvesIn(slots', v)}
                                  \cup {ValueAt(l) : l \in Condemned(minor)}
         /\ Sweep(Refreshed, Survivors(minor))
         /\ UNCHANGED <<roots, ran>>
<1> DEFINE marked == Marked(minor)
           rest == DOMAIN objects \ Collected(minor)
           gens == QueuedGenerators(Refreshed, marked, minor)
           byGens == MarkedWithGenerators(minor)
           dels == Condemned(minor)
<1>1. /\ BaseClosed(Refreshed, marked \cup rest)
      /\ Locations(CollectorRoots) \subseteq marked \cup rest
  <2>1. CASE minor
    BY <2>1, MinorBase DEF Collected, Marked
  <2>2. CASE ~ minor
    <3>1. rest = {} /\ marked = MajorMarked(Refreshed)
      BY <2>2 DEF Collected, Marked
    <3> HIDE DEF rest, marked
    <3>2. marked \cup rest = MajorMarked(Refreshed)
      BY <3>1
    <3> QED
      BY <3>2, MajorBase
  <2> QED
    BY <2>1, <2>2
<1>2. Collected(minor) \subseteq DOMAIN objects
  BY DEF Collected, YoungLocations
<1>3. gens \in SUBSET (DOMAIN objects \ marked)
  BY <1>2 DEF QueuedGenerators, UnreachableGenerators
<1>4. dels \in SUBSET (DOMAIN objects \ byGens)
  BY <1>2 DEF QueuedFinalizers, Condemned
<1>5. Reclaim(minor, Refreshed, gens, byGens, dels)
  BY DEF Collect, CollectFrom, QueueObjects, MarkedWithGenerators, Condemned
<1>6. byGens = marked \cup Revived(Refreshed, marked, gens)
  BY DEF MarkedWithGenerators
<1> DEFINE live == (byGens \cup Revived(Refreshed, byGens, dels)) \cup rest
<1>7. live = Survivors(minor)
  BY DEF Survivors
<1> HIDE DEF marked, gens, byGens, dels
<1>8. /\ \E order \in Increasing(gens) :
           pendingGenerators' = pendingGenerators \o ValuesAt(order)
      /\ \E order \in Increasing(dels) :
           pendingFinalizers' = pendingFinalizers \o ValuesAt(order)
      /\ finalizedObjects' = {v \in finalizedObjects : ResolvesIn(slots', v)}
                               \cup {ValueAt(l) : l \in dels}
      /\ Sweep(Refreshed, live)
      /\ UNCHANGED <<roots, ran>>
  BY <1>5 DEF Reclaim
<1> HIDE DEF rest
<1>9. BaseClosed(Refreshed, byGens \cup rest) /\ gens \subseteq byGens
  BY <1>1, <1>3, <1>6, ReviveBase
<1>10. BaseClosed(Refreshed, live) /\ dels \subseteq live
  BY <1>4, <1>9, ReviveBase
<1>11. gens \subseteq live /\ Locations(CollectorRoots) \subseteq live
  BY <1>1, <1>6, <1>9
<1> HIDE DEF live
<1> QED
  BY <1>7, <1>8, <1>10, <1>11 DEF dels, gens, marked

\* Both collections keep the invariant.
LEMMA CollectStep ==
  ASSUME HeapInv, HeapAssumption, NEW minor \in BOOLEAN, Collect(minor)
  PROVE  HeapInv'
<1> DEFINE gens == QueuedGenerators(Refreshed, Marked(minor), minor)
           dels == Condemned(minor)
           live == Survivors(minor)
<1>1. /\ BaseClosed(Refreshed, live)
      /\ Locations(CollectorRoots) \subseteq live
      /\ gens \subseteq live /\ dels \subseteq live
      /\ \E order \in Increasing(gens) :
           pendingGenerators' = pendingGenerators \o ValuesAt(order)
      /\ \E order \in Increasing(dels) :
           pendingFinalizers' = pendingFinalizers \o ValuesAt(order)
      /\ finalizedObjects' = {v \in finalizedObjects : ResolvesIn(slots', v)}
                               \cup {ValueAt(l) : l \in dels}
      /\ Sweep(Refreshed, live)
      /\ UNCHANGED <<roots, ran>>
  BY CollectFacts
<1> HIDE DEF gens, dels, live
<1> USE DEF HeapInv
<1>2. live \subseteq DOMAIN objects
  BY <1>1 DEF BaseClosed
<1>3. gens \in SUBSET DOMAIN objects /\ dels \in SUBSET DOMAIN objects
  BY <1>1, <1>2
<1>4. PICK orderGens \in Increasing(gens) :
        pendingGenerators' = pendingGenerators \o ValuesAt(orderGens)
  BY <1>1
<1>5. PICK orderDels \in Increasing(dels) :
        pendingFinalizers' = pendingFinalizers \o ValuesAt(orderDels)
  BY <1>1
<1>6. pendingGenerators \in Seq(Value) /\ pendingFinalizers \in Seq(Value)
  BY DEF TypeOK
<1>7. /\ pendingGenerators' \in Seq(Value)
      /\ \A v \in Elements(pendingGenerators') :
           v \in Elements(pendingGenerators) \/ \E l \in gens : v = ValueAt(l)
  BY <1>3, <1>4, <1>6, QueuedValues
<1>8. /\ pendingFinalizers' \in Seq(Value)
      /\ \A v \in Elements(pendingFinalizers') :
           v \in Elements(pendingFinalizers) \/ \E l \in dels : v = ValueAt(l)
  BY <1>3, <1>5, <1>6, QueuedValues
<1>9. \A l \in DOMAIN objects : /\ ValueAt(l) \in Value /\ Resolves(ValueAt(l))
                                /\ Location(ValueAt(l)) = l
  BY StoredValue
<1>10. finalizedObjects' \subseteq Value
  BY <1>1, <1>3, <1>9 DEF TypeOK
<1>11. \A v \in CollectorRoots : v \in Value /\ Resolves(v) /\ Location(v) \in live
  BY <1>1 DEF CollectorRoots, NoDanglingReference, TypeOK, Elements, Locations
<1>12. \A v \in CollectorRoots' : v \in Value /\ Resolves(v) /\ Location(v) \in live
  <2>1. SUFFICES ASSUME NEW v \in CollectorRoots'
                 PROVE  v \in Value /\ Resolves(v) /\ Location(v) \in live
    OBVIOUS
  <2>2. v \in CollectorRoots \/ \E l \in gens \cup dels : v = ValueAt(l)
    BY <1>1, <1>7, <1>8, <2>1 DEF CollectorRoots
  <2> QED
    BY <1>1, <1>3, <1>9, <1>11, <2>2
<1> QED
  BY <1>1, <1>7, <1>8, <1>10, <1>12, SweepStep

\* Every step of the heap keeps the invariant.
LEMMA HeapNextStep ==
  ASSUME HeapInv, HeapAssumption, [Next]_vars
  PROVE  HeapInv'
<1>1. CASE Mutate
  BY <1>1, MutateStep
<1>2. CASE CollectYoung
  BY <1>2, CollectStep DEF CollectYoung
<1>3. CASE CollectFull
  BY <1>3, CollectStep DEF CollectFull
<1>4. CASE FinalizeGenerator
  BY <1>4, FinalizeGeneratorStep
<1>5. CASE FinalizeObject
  BY <1>5, FinalizeObjectStep
<1>6. CASE DrainForeign
  BY <1>6, DrainForeignStep
<1>7. CASE UNCHANGED vars
  <2>1. RootsKept
    BY <1>7 DEF vars, RootsKept, HeapInv, TypeOK, NoDanglingReference, CollectorRoots
  <2> QED
    BY <1>7, <2>1, RootStep DEF vars
<1> QED
  BY <1>1, <1>2, <1>3, <1>4, <1>5, <1>6, <1>7 DEF Next

\* A value the collector has reclaimed does not resolve.
LEMMA DeadValue ==
  ASSUME HeapInv, HeapAssumption
  PROVE  \A v \in reclaimed : ~ Resolves(v)
<1> SUFFICES ASSUME NEW v \in reclaimed, Resolves(v)
             PROVE  FALSE
  OBVIOUS
<1>1. v.slot \in DOMAIN slots /\ v \in Value /\ slots[v.slot] \in Slot
  BY DEF HeapInv, TypeOK, ReclaimedGenerations
<1>2. v.generation \in Int /\ slots[v.slot].generation \in Int
  BY <1>1 DEF Value, Slot, HeapAssumption
<1> QED
  BY <1>2 DEF HeapInv, ReclaimedGenerations, Resolves

-----------------------------------------------------------------------------
(* Running what collection queued exactly once.                            *)

\* Where a sweep puts the survivors, and what it reclaims.
LEMMA SweptStorage ==
  ASSUME HeapInv, HeapAssumption, NEW live \in SUBSET DOMAIN objects,
         Sweep(Refreshed, live)
  PROVE  \E order \in Increasing(live) :
           /\ DOMAIN objects' = DOMAIN order
           /\ \A i \in DOMAIN order :
                /\ order[i] \in live
                /\ objects'[i] = [Refreshed[order[i]] EXCEPT !.young = FALSE]
                /\ ValueAt(i)' = ValueAt(order[i])
           /\ \A v : Resolves(v) /\ Location(v) \in live =>
                /\ Resolves(v)'
                /\ Location(v)' \in DOMAIN order
                /\ order[Location(v)'] = Location(v)
           /\ \A v \in Value : Resolves(v) /\ Location(v) \notin live => v \in reclaimed'
           /\ \A v \in reclaimed' : v \in reclaimed
                \/ (v \in Value /\ Resolves(v) /\ Location(v) \in DOMAIN objects \ live)
<1> USE DEF HeapInv
<1>1. PICK order \in Increasing(live) :
        objects' = Compacted(Refreshed, order) /\ slots' = SweptSlots(live, order)
  BY DEF Sweep
<1>2. DOMAIN Refreshed = DOMAIN objects
  BY RefreshedStore
<1>3. /\ Len(objects) \in Nat /\ DOMAIN objects = 1 .. Len(objects)
      /\ live \in SUBSET (1 .. Len(objects))
  BY DEF TypeOK
<1>4. /\ DOMAIN order = 1 .. Len(order) /\ Len(order) \in Nat
      /\ \A i \in DOMAIN order : order[i] \in live
  BY <1>3, IncreasingIsSeq
<1>5. /\ DOMAIN slots' = DOMAIN slots
      /\ \A s \in DOMAIN slots : slots[s].location \in live =>
           /\ slots'[s].generation = slots[s].generation
           /\ slots'[s].location \in DOMAIN order
           /\ order[slots'[s].location] = slots[s].location
           /\ slots'[s].location # 0
  BY <1>1, SweptSlotFacts
<1>6. DOMAIN objects' = DOMAIN order
      /\ \A i \in DOMAIN order :
           objects'[i] = [Refreshed[order[i]] EXCEPT !.young = FALSE]
  BY <1>1 DEF Compacted
<1>7. ASSUME NEW i \in DOMAIN order
      PROVE  ValueAt(i)' = ValueAt(order[i])
  <2>1. order[i] \in DOMAIN objects /\ order[i] \in live
    BY <1>4
  <2>2. Refreshed[order[i]] \in Entry /\ Refreshed[order[i]].slot = objects[order[i]].slot
    BY <2>1, RefreshedStore
  <2>3. objects'[i].slot = objects[order[i]].slot
    BY <1>6, <2>2 DEF Entry
  <2>4. objects[order[i]].slot \in DOMAIN slots
        /\ slots[objects[order[i]].slot].location = order[i]
    BY <2>1 DEF StorageConsistent
  <2>5. slots'[objects[order[i]].slot].generation = slots[objects[order[i]].slot].generation
    BY <1>5, <2>1, <2>4
  <2> QED
    BY <2>3, <2>5 DEF ValueAt
<1>8. \A v : Resolves(v) /\ Location(v) \in live =>
         /\ Resolves(v)'
         /\ Location(v)' \in DOMAIN order
         /\ order[Location(v)'] = Location(v)
  BY <1>5 DEF Resolves, Location
<1>9. reclaimed' = reclaimed \cup {ValueAt(l) : l \in DOMAIN objects \ live}
  BY <1>2 DEF Sweep
<1>10. \A v \in Value : Resolves(v) /\ Location(v) \notin live => v \in reclaimed'
  BY <1>9, ResolvedObject
<1>11. \A v \in reclaimed' : v \in reclaimed
         \/ (v \in Value /\ Resolves(v) /\ Location(v) \in DOMAIN objects \ live)
  BY <1>9, StoredValue
<1> QED
  BY <1>4, <1>6, <1>7, <1>8, <1>10, <1>11

\* Why the finalizer queue names nothing twice: what is queued, and what was
\* finalized and can still be named, is marked as finalized, and a value marked
\* so was started or is in the queue.
FinalizersCounted ==
  /\ FinalizerRunsOnce
  /\ Elements(pendingFinalizers) \subseteq finalizedObjects
  /\ finalizedObjects \subseteq ran \cup Elements(pendingFinalizers)
  /\ \A v \in ran : v \in reclaimed \/ (v \in finalizedObjects /\ Resolves(v))

\* The frame of a running generator keeps it rooted.
RunningRooted ==
  \A l \in DOMAIN objects : objects[l].state = "running" => ValueAt(l) \in roots

\* A payload waits for destruction once, after its wrapper was reclaimed.
PayloadsDistinct ==
  /\ \A i, j \in DOMAIN pendingForeign :
       pendingForeign[i].wrapper = pendingForeign[j].wrapper => i = j
  /\ \A i \in DOMAIN pendingForeign : pendingForeign[i].wrapper \in reclaimed

FinalizationInv ==
  /\ FinalizersCounted
  /\ RunningRooted
  /\ PayloadsDistinct

\* A step that leaves the records of finalization alone, and every value that
\* resolved resolving, keeps them.
LEMMA FinalizersKept ==
  ASSUME FinalizersCounted, PayloadsDistinct,
         UNCHANGED <<pendingFinalizers, pendingForeign, finalizedObjects, reclaimed, ran>>,
         \A v \in Value : Resolves(v) => Resolves(v)',
         ran \subseteq Value
  PROVE  FinalizersCounted' /\ PayloadsDistinct'
<1>1. FinalizersCounted'
  BY DEF FinalizersCounted, FinalizerRunsOnce, Elements
<1>2. PayloadsDistinct'
  BY DEF PayloadsDistinct
<1> QED
  BY <1>1, <1>2

\* A store into one object keeps running generators rooted if it starts none
\* that is not.
LEMMA RunningStore ==
  ASSUME HeapInv, RunningRooted, NEW o \in Value, Resolves(o), NEW entry,
         entry.slot = Object(o).slot, entry.state = "running" => o \in roots',
         objects' = [objects EXCEPT ![Location(o)] = entry],
         roots \subseteq roots', slots' = slots
  PROVE  RunningRooted'
<1> USE DEF HeapInv
<1>1. /\ Location(o) \in DOMAIN objects /\ ValueAt(Location(o)) = o
  BY ResolvedObject
<1>2. ASSUME NEW l \in DOMAIN objects, objects'[l].state = "running"
      PROVE  ValueAt(l)' \in roots'
  <2>1. objects'[l].slot = objects[l].slot
    BY <1>1 DEF Object
  <2>2. ValueAt(l)' = ValueAt(l)
    BY <2>1 DEF ValueAt
  <2>3. CASE l = Location(o)
    BY <1>1, <1>2, <2>2, <2>3
  <2>4. CASE l # Location(o)
    BY <1>2, <2>2, <2>4 DEF RunningRooted
  <2> QED
    BY <2>3, <2>4
<1> QED
  BY <1>2 DEF RunningRooted

\* Allocation moves no slot that names an object.
LEMMA AllocKept ==
  ASSUME HeapInv, NEW kind \in Kinds, NEW refs \in SUBSET roots, Alloc(kind, refs)
  PROVE  /\ \A t \in DOMAIN slots : slots[t].location # 0 =>
              t \in DOMAIN slots' /\ slots'[t] = slots[t]
         /\ DOMAIN objects' = 1 .. (Len(objects) + 1)
         /\ \A l \in DOMAIN objects : objects'[l] = objects[l]
         /\ objects'[Len(objects) + 1].state # "running"
         /\ roots \subseteq roots'
<1> USE DEF HeapInv
<1> DEFINE n == Len(objects)
<1>1. PICK s \in SlotIds :
        /\ IF free # <<>>
           THEN /\ s = free[Len(free)]
                /\ free' = SubSeq(free, 1, Len(free) - 1)
                /\ slots' = [slots EXCEPT ![s].location = n + 1]
           ELSE /\ s = Len(slots) + 1
                /\ slots' = Append(slots, [generation |-> 1, location |-> n + 1])
                /\ UNCHANGED free
        /\ objects' = Append(objects, NewEntry(s, kind, refs))
        /\ roots' = roots \cup {[slot |-> s, generation |-> slots'[s].generation]}
  BY DEF Alloc
<1>2. /\ n \in Nat
      /\ DOMAIN objects' = 1 .. (n + 1)
      /\ objects'[n + 1] = NewEntry(s, kind, refs)
      /\ \A l \in DOMAIN objects : objects'[l] = objects[l]
  BY <1>1 DEF TypeOK
<1>3. NewEntry(s, kind, refs).state # "running"
  BY DEF NewEntry
<1>4. \A t \in DOMAIN slots : slots[t].location # 0 =>
         t \in DOMAIN slots' /\ slots'[t] = slots[t]
  <2>1. CASE free # <<>>
    <3>1. Len(free) \in DOMAIN free /\ free[Len(free)] = s
      BY <1>1, <2>1 DEF TypeOK
    <3>2. s \in DOMAIN slots /\ slots[s].location = 0
      BY <3>1 DEF StorageConsistent
    <3> QED
      BY <1>1, <2>1, <3>2
  <2>2. CASE free = <<>>
    <3>1. slots' = Append(slots, [generation |-> 1, location |-> n + 1])
      BY <1>1, <2>2
    <3>2. slots \in Seq(Slot)
      BY DEF TypeOK
    <3>3. \A t \in DOMAIN slots : t \in DOMAIN slots' /\ slots'[t] = slots[t]
      BY <3>1, <3>2
    <3> QED
      BY <3>3
  <2> QED
    BY <2>1, <2>2
<1> QED
  BY <1>1, <1>2, <1>3, <1>4

\* Every step of the mutator keeps the records of finalization.
LEMMA MutateFinalization ==
  ASSUME HeapInv, FinalizationInv, Mutate
  PROVE  FinalizationInv'
<1> USE DEF HeapInv, FinalizationInv
<1>1. \A v \in roots : v \in Value /\ Resolves(v)
  BY DEF TypeOK, NoDanglingReference, CollectorRoots
<1>2. ran \subseteq Value
  BY DEF TypeOK
<1>3. ASSUME NEW kind \in Kinds, NEW refs \in SUBSET roots, Alloc(kind, refs)
      PROVE  FinalizationInv'
  <2>1. /\ \A t \in DOMAIN slots : slots[t].location # 0 =>
             t \in DOMAIN slots' /\ slots'[t] = slots[t]
        /\ DOMAIN objects' = 1 .. (Len(objects) + 1)
        /\ \A l \in DOMAIN objects : objects'[l] = objects[l]
        /\ objects'[Len(objects) + 1].state # "running"
        /\ roots \subseteq roots'
    BY <1>3, AllocKept
  <2>2. UNCHANGED <<pendingFinalizers, pendingForeign, finalizedObjects, reclaimed, ran>>
    BY <1>3 DEF Alloc, queues, history
  <2>3. \A v \in Value : Resolves(v) => Resolves(v)'
    BY <2>1 DEF Resolves
  <2>4. Len(objects) \in Nat /\ DOMAIN objects = 1 .. Len(objects)
    BY DEF TypeOK
  <2>5. ASSUME NEW l \in DOMAIN objects', objects'[l].state = "running"
        PROVE  ValueAt(l)' \in roots'
    <3>1. l # Len(objects) + 1
      BY <2>1, <2>5
    <3>2. l \in DOMAIN objects
      BY <2>1, <2>4, <3>1
    <3>3. objects'[l] = objects[l] /\ ValueAt(l) \in roots
      BY <2>1, <2>5, <3>2 DEF RunningRooted
    <3>4. objects[l].slot \in DOMAIN slots /\ slots[objects[l].slot].location # 0
      BY <2>4, <3>2 DEF StorageConsistent
    <3>5. ValueAt(l)' = ValueAt(l)
      BY <2>1, <3>3, <3>4 DEF ValueAt
    <3> QED
      BY <2>1, <3>3, <3>5
  <2>6. RunningRooted'
    BY <2>5 DEF RunningRooted
  <2> QED
    BY <1>2, <2>2, <2>3, <2>6, FinalizersKept
<1>4. ASSUME NEW o \in roots, NEW entry, entry.slot = Object(o).slot,
             entry.state = "running" => o \in roots',
             SetObject(o, entry), roots \subseteq roots', UNCHANGED <<slots, queues, history>>
      PROVE  FinalizationInv'
  <2>1. UNCHANGED <<pendingFinalizers, pendingForeign, finalizedObjects, reclaimed, ran>>
    BY <1>4 DEF queues, history
  <2>2. \A v \in Value : Resolves(v) => Resolves(v)'
    BY <1>4 DEF Resolves
  <2>3. RunningRooted'
    BY <1>1, <1>4, RunningStore DEF SetObject
  <2> QED
    BY <1>2, <2>1, <2>2, <2>3, FinalizersKept
<1>5. ASSUME UNCHANGED <<objects, slots, queues, history>>,
             \A l \in DOMAIN objects :
               objects[l].state = "running" /\ ValueAt(l) \in roots => ValueAt(l) \in roots'
      PROVE  FinalizationInv'
  <2>1. UNCHANGED <<pendingFinalizers, pendingForeign, finalizedObjects, reclaimed, ran>>
    BY <1>5 DEF queues, history
  <2>2. \A v \in Value : Resolves(v) => Resolves(v)'
    BY <1>5 DEF Resolves
  <2>3. RunningRooted'
    BY <1>5 DEF RunningRooted, ValueAt
  <2> QED
    BY <1>2, <2>1, <2>2, <2>3, FinalizersKept
<1>6. SUFFICES ASSUME NEW o \in roots,
                      \/ \E value \in roots : AppendList(o, value)
                      \/ \E values \in SUBSET (roots \cup Object(o).refs) : ReplaceList(o, values)
                      \/ \E value \in roots : StoreCell(o, value)
                      \/ \E field \in Fields, value \in roots :
                           StoreExternalField(o, field, value)
                      \/ \E field \in Fields : RemoveExternalField(o, field)
                      \/ \E value \in Object(o).refs \cup ExternalValues(o) : Load(o, value)
                      \/ DropRoot(o)
                      \/ ResumeGenerator(o)
                      \/ \E registers \in SUBSET roots : SuspendGenerator(o, registers)
                      \/ \E result \in {{}} \cup {{v} : v \in roots} :
                           CompleteGenerator(o, result)
                      \/ \E values \in SUBSET (roots \cup Object(o).held) :
                           ForeignHold(o, values)
               PROVE  FinalizationInv'
  BY <1>3 DEF Mutate
<1> DEFINE e0 == Object(o)
<1>7. /\ o \in Value /\ Resolves(o) /\ e0 \in Entry /\ ValueAt(Location(o)) = o
      /\ Location(o) \in DOMAIN objects /\ e0 = objects[Location(o)]
  BY <1>1, ResolvedObject DEF Object
<1>8. e0.state = "running" => o \in roots
  BY <1>7
<1>9. ASSUME NEW refs, NEW state,
             SetObject(o, [e0 EXCEPT !.state = state, !.refs = refs]),
             roots \subseteq roots', UNCHANGED <<slots, queues, history>>
      PROVE  FinalizationInv'
  <2> DEFINE e == [e0 EXCEPT !.state = state, !.refs = refs]
  <2>1. e.slot = e0.slot
    BY <1>7 DEF Entry
  <2>2. o \in roots'
    BY <1>9
  <2> HIDE DEF e
  <2> QED
    BY <1>4, <1>9, <2>1, <2>2 DEF e
<1>10. ASSUME NEW refs, SetObject(o, [e0 EXCEPT !.refs = refs]),
              UNCHANGED <<slots, roots, queues, history>>
       PROVE  FinalizationInv'
  <2> DEFINE e == [e0 EXCEPT !.refs = refs]
  <2>1. e.slot = e0.slot
    BY <1>7 DEF Entry
  <2> HIDE DEF e
  <2> QED
    BY <1>4, <1>10, <2>1 DEF e
<1>11. CASE \E value \in roots : AppendList(o, value)
  BY <1>10, <1>11 DEF AppendList
<1>12. CASE \E values \in SUBSET (roots \cup Object(o).refs) : ReplaceList(o, values)
  BY <1>10, <1>12 DEF ReplaceList
<1>13. CASE \E value \in roots : StoreCell(o, value)
  BY <1>10, <1>13 DEF StoreCell
<1>14. CASE \E field \in Fields, value \in roots : StoreExternalField(o, field, value)
  BY <1>5, <1>14 DEF StoreExternalField
<1>15. CASE \E field \in Fields : RemoveExternalField(o, field)
  BY <1>5, <1>15 DEF RemoveExternalField
<1>16. CASE \E value \in Object(o).refs \cup ExternalValues(o) : Load(o, value)
  BY <1>5, <1>16 DEF Load
<1>17. CASE DropRoot(o)
  <2>1. \A l \in DOMAIN objects :
          objects[l].state = "running" /\ ValueAt(l) \in roots => ValueAt(l) \in roots'
    <3>1. SUFFICES ASSUME NEW l \in DOMAIN objects, objects[l].state = "running",
                          ValueAt(l) \in roots
                   PROVE  ValueAt(l) # o
      BY <1>17 DEF DropRoot
    <3>2. Location(ValueAt(l)) = l
      BY StoredValue
    <3> QED
      BY <1>17, <3>1, <3>2 DEF DropRoot, Object
  <2> QED
    BY <1>5, <1>17, <2>1 DEF DropRoot
<1>18. CASE ResumeGenerator(o)
  BY <1>9, <1>18 DEF ResumeGenerator
<1>19. CASE \E registers \in SUBSET roots : SuspendGenerator(o, registers)
  BY <1>9, <1>19 DEF SuspendGenerator
<1>20. CASE \E result \in {{}} \cup {{v} : v \in roots} : CompleteGenerator(o, result)
  BY <1>9, <1>20 DEF CompleteGenerator
<1>21. CASE \E values \in SUBSET (roots \cup Object(o).held) : ForeignHold(o, values)
  <2>1. PICK values \in SUBSET (roots \cup Object(o).held) : ForeignHold(o, values)
    BY <1>21
  <2> DEFINE e == [e0 EXCEPT !.held = values]
  <2>2. e.slot = e0.slot
    BY <1>7 DEF Entry
  <2>3. SetObject(o, e) /\ UNCHANGED <<slots, roots, queues, history>>
    BY <2>1 DEF ForeignHold
  <2> HIDE DEF e
  <2> QED
    BY <1>4, <2>2, <2>3
<1> QED
  BY <1>6, <1>11, <1>12, <1>13, <1>14, <1>15, <1>16, <1>17, <1>18, <1>19, <1>20, <1>21

\* Closing a queued generator keeps the records of finalization.
LEMMA FinalizeGeneratorFinalization ==
  ASSUME HeapInv, FinalizationInv, FinalizeGenerator
  PROVE  FinalizationInv'
<1> USE DEF HeapInv, FinalizationInv
<1> DEFINE v == pendingGenerators[Len(pendingGenerators)]
<1>1. v \in Value /\ v \in Elements(pendingGenerators)
  BY PoppedQueue DEF FinalizeGenerator, TypeOK
<1>2. Resolves(v)
  BY <1>1 DEF NoDanglingReference, CollectorRoots
<1>3. Object(v) \in Entry
  BY <1>1, <1>2, ResolvedObject
<1>4. UNCHANGED <<slots, pendingFinalizers, pendingForeign, finalizedObjects, reclaimed, ran>>
  BY DEF FinalizeGenerator, history
<1>5. \A w \in Value : Resolves(w) => Resolves(w)'
  BY <1>4 DEF Resolves
<1>6. FinalizersCounted' /\ PayloadsDistinct'
  BY <1>4, <1>5, FinalizersKept DEF TypeOK
<1>7. CASE Object(v).state = "suspended"
  <2> DEFINE e == [Object(v) EXCEPT !.state = "running", !.refs = {}]
  <2>1. e.slot = Object(v).slot
    BY <1>3 DEF Entry
  <2>2. /\ objects' = [objects EXCEPT ![Location(v)] = e]
        /\ roots \subseteq roots' /\ v \in roots'
    BY <1>7 DEF FinalizeGenerator, SetObject
  <2> HIDE DEF e, v
  <2>3. RunningRooted'
    BY <1>1, <1>2, <1>4, <2>1, <2>2, RunningStore
  <2> QED
    BY <1>6, <2>3
<1>8. CASE Object(v).state # "suspended"
  <2>1. UNCHANGED <<objects, roots>>
    BY <1>8 DEF FinalizeGenerator
  <2>2. RunningRooted'
    BY <1>4, <2>1 DEF RunningRooted, ValueAt
  <2> QED
    BY <1>6, <2>2
<1> QED
  BY <1>7, <1>8

\* Calling a queued __del__ takes its object out of the queue, which names it
\* once, and records it as started.
LEMMA FinalizeObjectFinalization ==
  ASSUME HeapInv, FinalizationInv, FinalizeObject
  PROVE  FinalizationInv'
<1> USE DEF HeapInv, FinalizationInv
<1> DEFINE q == pendingFinalizers
           v == q[Len(q)]
<1>1. /\ q \in Seq(Value) /\ q # <<>> /\ q' = SubSeq(q, 1, Len(q) - 1)
      /\ ran' = ran \cup {v} /\ roots' = roots \cup {v}
      /\ UNCHANGED <<objects, slots, pendingForeign, finalizedObjects, reclaimed>>
  BY DEF FinalizeObject, TypeOK
<1>2. Len(q) \in DOMAIN q /\ v \in Elements(q)
  BY <1>1, PoppedQueue
<1>3. \A i \in DOMAIN q' : i \in DOMAIN q /\ q'[i] = q[i] /\ i # Len(q)
  BY <1>1
<1>4. \A i \in DOMAIN q : i # Len(q) => i \in DOMAIN q' /\ q'[i] = q[i]
  BY <1>1
<1>5. \A i \in DOMAIN q' : q'[i] # v
  BY <1>2, <1>3 DEF FinalizersCounted, FinalizerRunsOnce
<1>6. Resolves(v)
  BY <1>2 DEF NoDanglingReference, CollectorRoots
<1>7. FinalizerRunsOnce'
  <2>1. \A i, j \in DOMAIN q' : q'[i] = q'[j] => i = j
    BY <1>3 DEF FinalizersCounted, FinalizerRunsOnce
  <2>2. \A i \in DOMAIN q' : q'[i] \notin ran'
    BY <1>1, <1>3, <1>5 DEF FinalizersCounted, FinalizerRunsOnce
  <2> QED
    BY <2>1, <2>2 DEF FinalizerRunsOnce
<1>8. Elements(q)' \subseteq Elements(q) /\ Elements(q) \subseteq Elements(q)' \cup {v}
  BY <1>3, <1>4 DEF Elements
<1>9. \A w : Resolves(w)' <=> Resolves(w)
  BY <1>1 DEF Resolves
<1> HIDE DEF q, v
<1>10. FinalizersCounted'
  <2>1. Elements(q)' \subseteq finalizedObjects' /\ v \in finalizedObjects
    BY <1>1, <1>2, <1>8 DEF FinalizersCounted, q
  <2>2. finalizedObjects' \subseteq ran' \cup Elements(q)'
    BY <1>1, <1>8 DEF FinalizersCounted, q
  <2>3. \A w \in ran' : w \in reclaimed' \/ (w \in finalizedObjects' /\ Resolves(w)')
    BY <1>1, <1>6, <1>9, <2>1 DEF FinalizersCounted
  <2> QED
    BY <1>7, <2>1, <2>2, <2>3 DEF FinalizersCounted, q
<1>11. RunningRooted' /\ PayloadsDistinct'
  BY <1>1 DEF RunningRooted, PayloadsDistinct, ValueAt
<1> QED
  BY <1>10, <1>11

\* Destroying the queued payloads keeps the records of finalization.
LEMMA DrainForeignFinalization ==
  ASSUME FinalizationInv, DrainForeign
  PROVE  FinalizationInv'
<1>1. FinalizersCounted'
  BY DEF FinalizationInv, DrainForeign, history, FinalizersCounted, FinalizerRunsOnce,
         Elements, Resolves
<1>2. RunningRooted'
  BY DEF FinalizationInv, DrainForeign, RunningRooted, ValueAt
<1>3. PayloadsDistinct'
  <2>1. pendingForeign' = <<>>
    BY DEF DrainForeign
  <2>2. DOMAIN pendingForeign' = {}
    BY <2>1
  <2> QED
    BY <2>2 DEF PayloadsDistinct
<1> QED
  BY <1>1, <1>2, <1>3 DEF FinalizationInv

\* The values at the locations of a sweep's enumeration, appended to a queue
\* that names none of them, are each named once.
LEMMA QueuedOnce ==
  ASSUME HeapInv, NEW S \in SUBSET DOMAIN objects, NEW order \in Increasing(S),
         NEW q \in Seq(Value), \A i, j \in DOMAIN q : q[i] = q[j] => i = j,
         \A l \in S : ValueAt(l) \notin Elements(q)
  PROVE  /\ \A i, j \in DOMAIN (q \o ValuesAt(order)) :
              (q \o ValuesAt(order))[i] = (q \o ValuesAt(order))[j] => i = j
         /\ Elements(q) \subseteq Elements(q \o ValuesAt(order))
         /\ \A l \in S : ValueAt(l) \in Elements(q \o ValuesAt(order))
<1> USE DEF HeapInv
<1>1. Len(objects) \in Nat /\ DOMAIN objects = 1 .. Len(objects)
  BY DEF TypeOK
<1>2. /\ DOMAIN order = 1 .. Len(order) /\ Len(order) \in Nat
      /\ \A i, j \in DOMAIN order : i < j => order[i] < order[j]
      /\ \A i \in DOMAIN order : order[i] \in S
      /\ \A l \in S : \E i \in DOMAIN order : order[i] = l
  BY <1>1, IncreasingIsSeq, ZenonT(30)
<1> DEFINE w == ValuesAt(order)
<1>3. \A l \in DOMAIN objects : ValueAt(l) \in Value /\ Location(ValueAt(l)) = l
  BY StoredValue
<1>4. \A i, j \in DOMAIN order : order[i] = order[j] => i = j
  <2>1. \A i \in DOMAIN order : i \in Int /\ order[i] \in Int
    BY <1>1, <1>2
  <2> QED
    BY <1>2, <2>1
<1>5. w \in [1 .. Len(order) -> Value] /\ \A i \in DOMAIN order : w[i] = ValueAt(order[i])
  BY <1>2, <1>3 DEF ValuesAt
<1>6. w \in Seq(Value) /\ DOMAIN w = DOMAIN order /\ Len(w) = Len(order)
  BY <1>2, <1>5, FunctionIsSeq
<1>7. \A i, j \in DOMAIN w : w[i] = w[j] => i = j
  <2>1. \A i \in DOMAIN w : Location(w[i]) = order[i]
    BY <1>2, <1>3, <1>5, <1>6
  <2> QED
    BY <1>4, <1>6, <2>1
<1>8. \A i \in DOMAIN w : w[i] \notin Elements(q)
  BY <1>2, <1>5, <1>6
<1>9. \A l \in S : \E i \in DOMAIN w : w[i] = ValueAt(l)
  BY <1>2, <1>5, <1>6
<1> HIDE DEF w
<1>10. /\ DOMAIN (q \o w) = 1 .. (Len(q) + Len(w))
       /\ \A i \in DOMAIN (q \o w) : \/ i \in DOMAIN q /\ (q \o w)[i] = q[i]
                                     \/ /\ i - Len(q) \in DOMAIN w
                                        /\ (q \o w)[i] = w[i - Len(q)]
  <2>1. q \in Seq(Value) /\ w \in Seq(Value)
    BY <1>6
  <2> HIDE <1>1, <1>2, <1>3, <1>4, <1>5, <1>6, <1>7, <1>8, <1>9
  <2> QED
    BY <2>1, ConcatFacts
<1>11. /\ \A i \in DOMAIN q : i \in DOMAIN (q \o w) /\ (q \o w)[i] = q[i]
       /\ \A i \in DOMAIN w : Len(q) + i \in DOMAIN (q \o w) /\ (q \o w)[Len(q) + i] = w[i]
  BY <1>6
<1>12. \A i, j \in DOMAIN (q \o w) : (q \o w)[i] = (q \o w)[j] => i = j
  <2>1. SUFFICES ASSUME NEW i \in DOMAIN (q \o w), NEW j \in DOMAIN (q \o w),
                        (q \o w)[i] = (q \o w)[j]
                 PROVE  i = j
    OBVIOUS
  <2>2. Len(q) \in Nat /\ i \in Int /\ j \in Int
    BY <1>6, <1>10
  <2>3. CASE i \in DOMAIN q /\ (q \o w)[i] = q[i]
    <3>1. j \in DOMAIN q /\ (q \o w)[j] = q[j]
      BY <1>8, <1>10, <2>1, <2>3, ZenonT(30) DEF Elements
    <3> QED
      BY <2>1, <2>3, <3>1
  <2>4. CASE i - Len(q) \in DOMAIN w /\ (q \o w)[i] = w[i - Len(q)]
    <3>1. j - Len(q) \in DOMAIN w /\ (q \o w)[j] = w[j - Len(q)]
      BY <1>8, <1>10, <2>1, <2>4, ZenonT(30) DEF Elements
    <3>2. i - Len(q) = j - Len(q)
      BY <1>7, <2>1, <2>4, <3>1
    <3> QED
      BY <2>2, <3>2
  <2> QED
    BY <1>10, <2>3, <2>4
<1>13. Elements(q) \subseteq Elements(q \o w)
       /\ \A l \in S : ValueAt(l) \in Elements(q \o w)
  <2>1. Elements(q) \subseteq Elements(q \o w) /\ Elements(w) \subseteq Elements(q \o w)
    <3>1. PICK r : r = q \o w
      OBVIOUS
    <3>2. /\ \A i \in DOMAIN q : i \in DOMAIN r /\ r[i] = q[i]
          /\ \A i \in DOMAIN w : Len(q) + i \in DOMAIN r /\ r[Len(q) + i] = w[i]
      BY <1>11, <3>1
    <3>3. Elements(q) \subseteq Elements(r) /\ Elements(w) \subseteq Elements(r)
      BY <3>2 DEF Elements
    <3> QED
      BY <3>1, <3>3
  <2>2. \A l \in S : ValueAt(l) \in Elements(w)
    BY <1>9 DEF Elements
  <2> QED
    BY <2>1, <2>2
<1> QED
  BY <1>12, <1>13 DEF w

\* A sweep queues the payload of every foreign wrapper it reclaims, once.
LEMMA QueuedPayloads ==
  ASSUME HeapInv, HeapAssumption, PayloadsDistinct, NEW live \in SUBSET DOMAIN objects,
         Sweep(Refreshed, live)
  PROVE  /\ \A i, j \in DOMAIN pendingForeign' :
              pendingForeign'[i].wrapper = pendingForeign'[j].wrapper => i = j
         /\ \A i \in DOMAIN pendingForeign' :
              \/ pendingForeign'[i].wrapper \in reclaimed
              \/ \E l \in DOMAIN objects \ live :
                   objects[l].kind = "foreign" /\ pendingForeign'[i].wrapper = ValueAt(l)
         /\ \A l \in DOMAIN objects \ live : objects[l].kind = "foreign" =>
              \E i \in DOMAIN pendingForeign' : pendingForeign'[i].wrapper = ValueAt(l)
<1> USE DEF HeapInv
<1> DEFINE q == pendingForeign
           lost == {l \in DOMAIN Refreshed \ live : Refreshed[l].kind = "foreign"}
<1>1. PICK order \in Increasing(lost) : q' = q \o PayloadsAt(Refreshed, order)
  BY DEF Sweep
<1>2. lost = {l \in DOMAIN objects \ live : objects[l].kind = "foreign"}
  BY RefreshedStore
<1> HIDE DEF lost
<1>3. /\ Len(objects) \in Nat /\ DOMAIN objects = 1 .. Len(objects)
      /\ lost \in SUBSET (1 .. Len(objects)) /\ lost \subseteq DOMAIN objects
  BY <1>2 DEF TypeOK
<1>4. /\ DOMAIN order = 1 .. Len(order) /\ Len(order) \in Nat
      /\ \A i, j \in DOMAIN order : i < j => order[i] < order[j]
      /\ \A i \in DOMAIN order : order[i] \in lost
      /\ \A l \in lost : \E i \in DOMAIN order : order[i] = l
  <2>1. PICK n : n = Len(objects)
    OBVIOUS
  <2>2. n \in Nat /\ lost \in SUBSET (1 .. n)
    BY <1>3, <2>1
  <2>3. DOMAIN order = 1 .. Len(order) /\ Len(order) \in Nat
    BY <2>2, IncreasingIsSeq
  <2>4. \A i \in DOMAIN order : order[i] \in lost
    BY <2>2, IncreasingIsSeq
  <2> QED
    BY <2>3, <2>4 DEF Increasing
<1> DEFINE w == PayloadsAt(Refreshed, order)
<1>5. \A l \in DOMAIN objects : /\ ValueAt(l) \in Value /\ Location(ValueAt(l)) = l
                                /\ Resolves(ValueAt(l))
  BY StoredValue
<1>6. \A i, j \in DOMAIN order : order[i] = order[j] => i = j
  <2>1. \A i \in DOMAIN order : i \in Int /\ order[i] \in Int
    BY <1>3, <1>4
  <2> QED
    BY <1>4, <2>1
<1>7. \A i \in DOMAIN order : w[i].wrapper = ValueAt(order[i])
  BY DEF PayloadsAt
<1>8. w \in [1 .. Len(order) -> PendingForeign]
  <2>1. \A l \in DOMAIN objects : Refreshed[l].refs \in SUBSET Value
    BY RefreshedStore DEF Entry
  <2> QED
    BY <1>3, <1>4, <1>5, <2>1 DEF PayloadsAt, PendingForeign
<1>9. w \in Seq(PendingForeign) /\ DOMAIN w = DOMAIN order /\ Len(w) = Len(order)
  BY <1>4, <1>8, FunctionIsSeq
<1>10. \A i, j \in DOMAIN w : w[i].wrapper = w[j].wrapper => i = j
  <2>1. \A i \in DOMAIN w : Location(w[i].wrapper) = order[i]
    BY <1>3, <1>4, <1>5, <1>7, <1>9
  <2> QED
    BY <1>6, <1>9, <2>1
<1>11. \A i \in DOMAIN w : \E l \in lost : w[i].wrapper = ValueAt(l)
  BY <1>4, <1>7, <1>9
<1>12. \A l \in lost : \E i \in DOMAIN w : w[i].wrapper = ValueAt(l)
  BY <1>4, <1>7, <1>9
<1>13. \A i \in DOMAIN w : w[i].wrapper \notin reclaimed
  BY <1>3, <1>5, <1>11, DeadValue
<1>14. q \in Seq(PendingForeign) /\ \A i \in DOMAIN q : q[i].wrapper \in reclaimed
  BY DEF TypeOK, PayloadsDistinct
<1> HIDE DEF w
<1>15. q' = q \o w
  BY <1>1 DEF w
<1>16. /\ DOMAIN q' = 1 .. (Len(q) + Len(w))
       /\ \A i \in DOMAIN q' : \/ i \in DOMAIN q /\ q'[i] = q[i]
                               \/ i - Len(q) \in DOMAIN w /\ q'[i] = w[i - Len(q)]
  <2>1. q \in Seq(PendingForeign) /\ w \in Seq(PendingForeign) /\ q' = q \o w
    BY <1>9, <1>14, <1>15
  <2> QED
    BY <2>1, ConcatFacts
<1>17. \A i \in DOMAIN w : Len(q) + i \in DOMAIN q' /\ q'[Len(q) + i] = w[i]
  BY <1>9, <1>14, <1>15
<1> HIDE DEF q
<1>18. \A i, j \in DOMAIN q' : q'[i].wrapper = q'[j].wrapper => i = j
  <2>1. SUFFICES ASSUME NEW i \in DOMAIN q', NEW j \in DOMAIN q',
                        q'[i].wrapper = q'[j].wrapper
                 PROVE  i = j
    OBVIOUS
  <2>2. Len(q) \in Nat /\ i \in Int /\ j \in Int
    BY <1>9, <1>14, <1>16
  <2>3. CASE i \in DOMAIN q /\ q'[i] = q[i]
    <3>1. j \in DOMAIN q /\ q'[j] = q[j]
      BY <1>13, <1>14, <1>16, <2>1, <2>3
    <3> QED
      BY <2>1, <2>3, <3>1 DEF PayloadsDistinct, q
  <2>4. CASE i - Len(q) \in DOMAIN w /\ q'[i] = w[i - Len(q)]
    <3>1. j - Len(q) \in DOMAIN w /\ q'[j] = w[j - Len(q)]
      BY <1>13, <1>14, <1>16, <2>1, <2>4
    <3>2. i - Len(q) = j - Len(q)
      BY <1>10, <2>1, <2>4, <3>1
    <3> QED
      BY <2>2, <3>2
  <2> QED
    BY <1>16, <2>3, <2>4
<1>19. \A i \in DOMAIN q' : q'[i].wrapper \in reclaimed
                            \/ \E l \in lost : q'[i].wrapper = ValueAt(l)
  BY <1>11, <1>14, <1>16
<1>20. \A l \in lost : \E i \in DOMAIN q' : q'[i].wrapper = ValueAt(l)
  BY <1>12, <1>17
<1> QED
  BY <1>2, <1>18, <1>19, <1>20 DEF q

\* Both collections keep the records of finalization.
LEMMA CollectFinalization ==
  ASSUME HeapInv, HeapInv', HeapAssumption, FinalizationInv,
         NEW minor \in BOOLEAN, Collect(minor)
  PROVE  FinalizationInv'
<1> USE DEF FinalizationInv
<1> DEFINE dels == Condemned(minor)
           live == Survivors(minor)
           q == pendingFinalizers
<1>1. /\ live \subseteq DOMAIN objects /\ dels \subseteq live
      /\ \E order \in Increasing(dels) : q' = q \o ValuesAt(order)
      /\ finalizedObjects' = {v \in finalizedObjects : ResolvesIn(slots', v)}
                               \cup {ValueAt(l) : l \in dels}
      /\ Sweep(Refreshed, live)
      /\ UNCHANGED <<roots, ran>>
  BY CollectFacts DEF BaseClosed
<1>2. \A l \in dels : ValueAt(l) \notin finalizedObjects /\ ValueAt(l) \notin Elements(q)
  BY DEF Condemned, QueuedFinalizers
<1> HIDE DEF dels, live
<1>3. PICK moved \in Increasing(live) :
        /\ DOMAIN objects' = DOMAIN moved
        /\ \A i \in DOMAIN moved :
             /\ moved[i] \in live
             /\ objects'[i] = [Refreshed[moved[i]] EXCEPT !.young = FALSE]
             /\ ValueAt(i)' = ValueAt(moved[i])
        /\ \A v : Resolves(v) /\ Location(v) \in live =>
             /\ Resolves(v)'
             /\ Location(v)' \in DOMAIN moved
             /\ moved[Location(v)'] = Location(v)
        /\ \A v \in Value : Resolves(v) /\ Location(v) \notin live => v \in reclaimed'
        /\ \A v \in reclaimed' : v \in reclaimed
             \/ (v \in Value /\ Resolves(v) /\ Location(v) \in DOMAIN objects \ live)
  BY <1>1, SweptStorage
<1>4. PICK order \in Increasing(dels) : q' = q \o ValuesAt(order)
  BY <1>1
<1>5. /\ q \in Seq(Value) /\ \A i, j \in DOMAIN q : q[i] = q[j] => i = j
      /\ dels \in SUBSET DOMAIN objects
  BY <1>1 DEF HeapInv, TypeOK, FinalizersCounted, FinalizerRunsOnce
<1>6. /\ \A i, j \in DOMAIN q' : q'[i] = q'[j] => i = j
      /\ Elements(q) \subseteq Elements(q)'
      /\ \A l \in dels : ValueAt(l) \in Elements(q)'
  BY <1>2, <1>4, <1>5, QueuedOnce
<1>7. \A v \in Elements(q)' : v \in Elements(q) \/ \E l \in dels : v = ValueAt(l)
  BY <1>4, <1>5, QueuedValues
<1>8. \A l \in DOMAIN objects : /\ ValueAt(l) \in Value /\ Resolves(ValueAt(l))
                                /\ ValueAt(l) \notin reclaimed
  BY StoredValue, DeadValue DEF HeapInv
<1>9. \A l \in dels : ValueAt(l) \notin ran
  BY <1>2, <1>5, <1>8 DEF FinalizersCounted
<1>10. \A v \in Elements(q)' : v \notin ran'
  <2>1. \A v \in Elements(q) : v \notin ran
    BY DEF FinalizersCounted, FinalizerRunsOnce, Elements
  <2> QED
    BY <1>1, <1>7, <1>9, <2>1
<1>11. FinalizerRunsOnce'
  BY <1>6, <1>10 DEF FinalizerRunsOnce, Elements
<1>12. \A v : Resolves(v)' => ResolvesIn(slots', v)
  BY DEF Resolves, ResolvesIn
<1>13. Elements(q)' \subseteq finalizedObjects'
  <2>1. SUFFICES ASSUME NEW v \in Elements(q)', v \in Elements(q)
                 PROVE  v \in finalizedObjects'
    BY <1>1, <1>7
  <2>2. Resolves(v)'
    BY DEF HeapInv, NoDanglingReference, CollectorRoots
  <2>3. v \in finalizedObjects
    BY <2>1 DEF FinalizersCounted
  <2> QED
    BY <1>1, <1>12, <2>2, <2>3
<1>14. finalizedObjects' \subseteq ran' \cup Elements(q)'
  BY <1>1, <1>6 DEF FinalizersCounted
<1>15. reclaimed \subseteq reclaimed'
  BY <1>1 DEF Sweep
<1>16. ASSUME NEW v \in ran'
       PROVE  v \in reclaimed' \/ (v \in finalizedObjects' /\ Resolves(v)')
  <2>1. v \in ran /\ v \in Value
    BY <1>1 DEF HeapInv, TypeOK
  <2>2. CASE v \in reclaimed
    BY <1>15, <2>2
  <2>3. CASE v \in finalizedObjects /\ Resolves(v) /\ Location(v) \in live
    BY <1>1, <1>3, <1>12, <2>3
  <2>4. CASE Resolves(v) /\ Location(v) \notin live
    BY <1>3, <2>1, <2>4
  <2> QED
    BY <2>1, <2>2, <2>3, <2>4 DEF FinalizersCounted
<1>17. FinalizersCounted'
  BY <1>11, <1>13, <1>14, <1>16 DEF FinalizersCounted
<1>18. RunningRooted'
  <2>1. SUFFICES ASSUME NEW i \in DOMAIN moved, objects'[i].state = "running"
                 PROVE  ValueAt(i)' \in roots'
    BY <1>3 DEF RunningRooted
  <2>2. moved[i] \in DOMAIN objects
    BY <1>1, <1>3
  <2>3. Refreshed[moved[i]] \in Entry /\ Refreshed[moved[i]].state = objects[moved[i]].state
    BY <2>2, RefreshedStore
  <2>4. objects'[i].state = objects[moved[i]].state
    BY <1>3, <2>3 DEF Entry
  <2> QED
    BY <1>1, <1>3, <2>1, <2>2, <2>4 DEF RunningRooted
<1>19. PayloadsDistinct'
  <2>1. /\ \A i, j \in DOMAIN pendingForeign' :
             pendingForeign'[i].wrapper = pendingForeign'[j].wrapper => i = j
        /\ \A i \in DOMAIN pendingForeign' :
             \/ pendingForeign'[i].wrapper \in reclaimed
             \/ \E l \in DOMAIN objects \ live : pendingForeign'[i].wrapper = ValueAt(l)
    BY <1>1, QueuedPayloads
  <2>2. \A l \in DOMAIN objects \ live : ValueAt(l) \in reclaimed'
    BY <1>3, <1>8, StoredValue DEF HeapInv
  <2> QED
    BY <1>15, <2>1, <2>2 DEF PayloadsDistinct
<1> QED
  BY <1>17, <1>18, <1>19

-----------------------------------------------------------------------------
(* What a collection reclaims.                                             *)

\* A non-empty set of naturals has a least member.
LEMMA LeastMember ==
  ASSUME NEW S \in SUBSET Nat, S # {}
  PROVE  \E m \in S : \A k \in S : ~ (k < m)
<1> DEFINE R == OpToRel(<, Nat)
<1>1. IsWellFoundedOn(R, Nat)
  BY NatLessThanWellFounded
<1>2. \A k, m \in S : k < m => <<k, m>> \in R
  BY DEF OpToRel
<1> HIDE DEF R
<1>3. \E m \in S : \A k \in S : ~ (<<k, m>> \in R)
  BY <1>1, WFMin
<1> QED
  BY <1>2, <1>3

\* As many payloads wait as wrappers are named, if none is named twice.
LEMMA DistinctWrappers ==
  ASSUME NEW q \in Seq(PendingForeign),
         \A i, j \in DOMAIN q : q[i].wrapper = q[j].wrapper => i = j
  PROVE  Cardinality({q[i].wrapper : i \in DOMAIN q}) = Len(q)
<1> DEFINE W == {q[i].wrapper : i \in DOMAIN q}
           f == [i \in 1 .. Len(q) |-> q[i].wrapper]
<1>1. Len(q) \in Nat /\ DOMAIN q = 1 .. Len(q)
  OBVIOUS
<1>2. f \in [1 .. Len(q) -> W] /\ \A i \in 1 .. Len(q) : f[i] = q[i].wrapper
  BY <1>1
<1>3. \A i, j \in 1 .. Len(q) : f[i] = f[j] => i = j
  BY <1>1, <1>2
<1>4. \A x \in W : \E i \in 1 .. Len(q) : f[i] = x
  BY <1>1, <1>2
<1> HIDE DEF W, f
<1>5. f \in Bijection(1 .. Len(q), W)
  BY <1>2, <1>3, <1>4 DEF Bijection, Injection, IsInjective, Surjection
<1>6. ExistsBijection(1 .. Len(q), W)
  BY <1>5 DEF ExistsBijection
<1> QED
  BY <1>1, <1>6, FS_CountingElements DEF W

\* Marking computes the least closed set.
LEMMA ReachLeast ==
  ASSUME NEW store, NEW within, NEW start, NEW S \in SUBSET within,
         start \cap within \subseteq S, Closed(store, within, S)
  PROVE  Reach(store, within, start) \subseteq S
BY DEF Reach

\* Every unreachable suspended generator is revived: it is queued, or reached
\* from one that is, since the walk skips what an earlier one reaches.
LEMMA SuspendedRevived ==
  ASSUME NEW store, DOMAIN store \subseteq Nat, NEW marked, NEW minor,
         Collected(minor) \subseteq DOMAIN store,
         NEW l \in UnreachableGenerators(store, marked, minor)
  PROVE  l \in Revived(store, marked, QueuedGenerators(store, marked, minor))
<1> DEFINE U == UnreachableGenerators(store, marked, minor)
           W == DOMAIN store \ marked
           S == {k \in U : l \in Revive(store, marked, k)}
<1>1. U \subseteq W /\ U \subseteq Nat
  BY DEF UnreachableGenerators
<1>2. \A k \in U : /\ k \in Revive(store, marked, k)
                   /\ Revive(store, marked, k) \subseteq W
                   /\ Closed(store, W, Revive(store, marked, k))
  BY <1>1, ReachFacts DEF Revive
<1>3. \A j \in U : \A k \in U \cap Revive(store, marked, j) :
        Revive(store, marked, k) \subseteq Revive(store, marked, j)
  <2>1. SUFFICES ASSUME NEW j \in U, NEW k \in U \cap Revive(store, marked, j)
                 PROVE  Revive(store, marked, k) \subseteq Revive(store, marked, j)
    OBVIOUS
  <2>2. {k} \cap W \subseteq Revive(store, marked, j)
    OBVIOUS
  <2>3. /\ Revive(store, marked, j) \in SUBSET W
        /\ Closed(store, W, Revive(store, marked, j))
    BY <1>2
  <2>4. Reach(store, W, {k}) \subseteq Revive(store, marked, j)
    BY <2>2, <2>3, ReachLeast
  <2> QED
    BY <2>4 DEF Revive
<1>4. l \in S /\ S \in SUBSET Nat
  BY <1>1, <1>2
<1>5. PICK m \in S : \A k \in S : ~ (k < m)
  BY <1>4, LeastMember
<1>6. ASSUME NEW k \in U, k < m
      PROVE  m \notin Revive(store, marked, k)
  BY <1>3, <1>5, <1>6
<1>7. m \in QueuedGenerators(store, marked, minor)
  BY <1>5, <1>6 DEF QueuedGenerators
<1> QED
  BY <1>5, <1>7 DEF Revived

\* A collection reclaims no object with __del__ that was not started and no
\* generator in the middle of its body, and queues the payloads of exactly the
\* wrappers it reclaims.
LEMMA CollectReclaims ==
  ASSUME HeapInv, HeapInv', HeapAssumption, FinalizationInv, NEW minor \in BOOLEAN,
         Collect(minor), NEW l \in DOMAIN objects
  PROVE  /\ objects[l].kind = "foreign" =>
              (ValueAt(l) \in reclaimed' <=>
                 ValueAt(l) \in {pendingForeign'[i].wrapper : i \in DOMAIN pendingForeign'})
         /\ ValueAt(l) \in reclaimed' =>
              /\ objects[l].kind = "finalizable" => ValueAt(l) \in ran
              /\ objects[l].state \notin {"suspended", "running"}
<1> USE DEF FinalizationInv
<1> DEFINE live == Survivors(minor)
           marked == Marked(minor)
           v == ValueAt(l)
<1>1. /\ live \subseteq DOMAIN objects /\ Sweep(Refreshed, live)
      /\ Locations(CollectorRoots) \subseteq live
  BY CollectFacts DEF BaseClosed
<1>2. v \in Value /\ Resolves(v) /\ Location(v) = l /\ v \notin reclaimed
  BY StoredValue, DeadValue DEF HeapInv
<1>3. /\ Refreshed[l].kind = objects[l].kind /\ Refreshed[l].state = objects[l].state
      /\ DOMAIN Refreshed = DOMAIN objects
  BY RefreshedStore
<1>4. v \in reclaimed' <=> l \notin live
  <2>1. /\ \A w \in Value : Resolves(w) /\ Location(w) \notin live => w \in reclaimed'
        /\ \A w \in reclaimed' : w \in reclaimed
             \/ (w \in Value /\ Resolves(w) /\ Location(w) \in DOMAIN objects \ live)
    BY <1>1, SweptStorage DEF HeapInv
  <2> QED
    BY <1>2, <2>1
<1>5. v \in CollectorRoots => l \in live
  BY <1>1, <1>2 DEF Locations
<1>6. ASSUME l \notin live
      PROVE  /\ l \in Collected(minor)
             /\ l \notin MarkedWithGenerators(minor)
             /\ l \notin Condemned(minor)
  BY <1>6, CollectFacts DEF Survivors
<1>7. ASSUME l \notin live, objects[l].kind = "finalizable"
      PROVE  v \in ran
  <2>1. v \in finalizedObjects \/ v \in Elements(pendingFinalizers)
    BY <1>3, <1>6, <1>7 DEF Condemned, QueuedFinalizers
  <2>2. v \notin Elements(pendingFinalizers)
    BY <1>5, <1>7 DEF CollectorRoots
  <2> QED
    BY <2>1, <2>2 DEF FinalizersCounted
<1>8. ASSUME l \notin live
      PROVE  objects[l].state # "suspended"
  <2>1. l \notin marked
        /\ l \notin Revived(Refreshed, marked, QueuedGenerators(Refreshed, marked, minor))
    BY <1>6, <1>8 DEF MarkedWithGenerators
  <2>2. DOMAIN Refreshed \subseteq Nat /\ Collected(minor) \subseteq DOMAIN Refreshed
    BY <1>3 DEF HeapInv, TypeOK, Collected, YoungLocations
  <2>3. l \notin UnreachableGenerators(Refreshed, marked, minor)
    BY <2>1, <2>2, SuspendedRevived
  <2> QED
    BY <1>3, <1>6, <1>8, <2>1, <2>3 DEF UnreachableGenerators
<1>9. ASSUME l \notin live
      PROVE  objects[l].state # "running"
  BY <1>5, <1>9 DEF RunningRooted, CollectorRoots
<1>10. ASSUME objects[l].kind = "foreign"
       PROVE  v \in reclaimed' <=>
                v \in {pendingForeign'[i].wrapper : i \in DOMAIN pendingForeign'}
  <2>1. /\ \A i \in DOMAIN pendingForeign' :
             \/ pendingForeign'[i].wrapper \in reclaimed
             \/ \E k \in DOMAIN objects \ live : pendingForeign'[i].wrapper = ValueAt(k)
        /\ \A k \in DOMAIN objects \ live : objects[k].kind = "foreign" =>
             \E i \in DOMAIN pendingForeign' : pendingForeign'[i].wrapper = ValueAt(k)
    BY <1>1, QueuedPayloads
  <2>2. \A k \in DOMAIN objects : Location(ValueAt(k)) = k
    BY StoredValue DEF HeapInv
  <2>3. l \notin live => \E i \in DOMAIN pendingForeign' : pendingForeign'[i].wrapper = v
    BY <1>10, <2>1
  <2>4. \A i \in DOMAIN pendingForeign' : pendingForeign'[i].wrapper = v => l \notin live
    BY <1>2, <2>1, <2>2
  <2> QED
    BY <1>4, <2>3, <2>4
<1> QED
  BY <1>4, <1>7, <1>8, <1>9, <1>10

\* Every step of the heap keeps the records of finalization.
LEMMA FinalizationNextStep ==
  ASSUME HeapInv, HeapInv', HeapAssumption, FinalizationInv, [Next]_vars
  PROVE  FinalizationInv'
<1>1. CASE Mutate
  BY <1>1, MutateFinalization
<1>2. CASE CollectYoung
  BY <1>2, CollectFinalization DEF CollectYoung
<1>3. CASE CollectFull
  BY <1>3, CollectFinalization DEF CollectFull
<1>4. CASE FinalizeGenerator
  BY <1>4, FinalizeGeneratorFinalization
<1>5. CASE FinalizeObject
  BY <1>5, FinalizeObjectFinalization
<1>6. CASE DrainForeign
  BY <1>6, DrainForeignFinalization
<1>7. CASE UNCHANGED vars
  <2>1. FinalizersCounted' /\ PayloadsDistinct'
    BY <1>7, FinalizersKept DEF vars, FinalizationInv, HeapInv, TypeOK, Resolves
  <2>2. RunningRooted'
    BY <1>7 DEF vars, FinalizationInv, RunningRooted, ValueAt
  <2> QED
    BY <2>1, <2>2 DEF FinalizationInv
<1> QED
  BY <1>1, <1>2, <1>3, <1>4, <1>5, <1>6, <1>7 DEF Next

\* What a step reclaims is done with: only a collection reclaims anything.
LEMMA ReclaimsFinishedStep ==
  ASSUME HeapInv, HeapInv', HeapAssumption, FinalizationInv, FinalizationInv', Next
  PROVE  ReclaimsFinished
<1> DEFINE queued == {pendingForeign'[i].wrapper : i \in DOMAIN pendingForeign'}
<1>1. Cardinality(queued) = Len(pendingForeign')
  <2>1. pendingForeign' \in Seq(PendingForeign)
    BY DEF HeapInv, TypeOK
  <2>2. \A i, j \in DOMAIN pendingForeign' :
          pendingForeign'[i].wrapper = pendingForeign'[j].wrapper => i = j
    BY DEF FinalizationInv, PayloadsDistinct
  <2>3. PICK q : q = pendingForeign'
    OBVIOUS
  <2>4. Cardinality({q[i].wrapper : i \in DOMAIN q}) = Len(q)
    BY <2>1, <2>2, <2>3, DistinctWrappers
  <2> QED
    BY <2>3, <2>4
<1>2. ASSUME reclaimed' = reclaimed, NEW l \in DOMAIN objects
      PROVE  ValueAt(l) \notin reclaimed' /\ ValueAt(l) \notin queued
  <2>1. ValueAt(l) \notin reclaimed
    BY StoredValue, DeadValue DEF HeapInv
  <2> QED
    BY <1>2, <2>1 DEF FinalizationInv, PayloadsDistinct
<1>3. ASSUME NEW l \in DOMAIN objects
      PROVE  /\ objects[l].kind = "foreign" =>
                  (ValueAt(l) \in reclaimed' <=> ValueAt(l) \in queued)
             /\ ValueAt(l) \in reclaimed' =>
                  /\ objects[l].kind = "finalizable" => ValueAt(l) \in ran
                  /\ objects[l].state \notin {"suspended", "running"}
  <2>1. CASE \E minor \in BOOLEAN : Collect(minor)
    BY <2>1, CollectReclaims
  <2>2. CASE reclaimed' = reclaimed
    BY <1>2, <2>2
  <2>3. (\E minor \in BOOLEAN : Collect(minor)) \/ reclaimed' = reclaimed
    <3>1. Mutate => reclaimed' = reclaimed
      BY DEF Mutate, Alloc, AppendList, ReplaceList, StoreCell, StoreExternalField,
             RemoveExternalField, Load, DropRoot, ResumeGenerator, SuspendGenerator,
             CompleteGenerator, ForeignHold, history
    <3>2. FinalizeGenerator \/ FinalizeObject \/ DrainForeign => reclaimed' = reclaimed
      BY DEF FinalizeGenerator, FinalizeObject, DrainForeign, history
    <3> QED
      BY <3>1, <3>2 DEF Next, CollectYoung, CollectFull
  <2> QED
    BY <2>1, <2>2, <2>3
<1> HIDE DEF queued
<1> QED
  BY <1>1, <1>3 DEF ReclaimsFinished, queued

-----------------------------------------------------------------------------
(* What a full collection leaves.                                          *)

\* A queue that grew by the values at an enumeration names all of them.
LEMMA QueuedAll ==
  ASSUME HeapInv, NEW S \in SUBSET DOMAIN objects, NEW order \in Increasing(S),
         NEW q \in Seq(Value)
  PROVE  /\ Elements(q) \subseteq Elements(q \o ValuesAt(order))
         /\ \A l \in S : ValueAt(l) \in Elements(q \o ValuesAt(order))
<1> USE DEF HeapInv
<1>1. Len(objects) \in Nat /\ DOMAIN objects = 1 .. Len(objects)
  BY DEF TypeOK
<1>2. /\ DOMAIN order = 1 .. Len(order) /\ Len(order) \in Nat
      /\ \A i \in DOMAIN order : order[i] \in S
      /\ \A l \in S : \E i \in DOMAIN order : order[i] = l
  <2>1. DOMAIN order = 1 .. Len(order) /\ Len(order) \in Nat
    BY <1>1, IncreasingIsSeq
  <2>2. \A i \in DOMAIN order : order[i] \in S
    BY <1>1, IncreasingIsSeq
  <2> QED
    BY <2>1, <2>2 DEF Increasing
<1> DEFINE w == ValuesAt(order)
<1>3. \A l \in DOMAIN objects : ValueAt(l) \in Value
  BY StoredValue
<1>4. w \in [1 .. Len(order) -> Value] /\ \A i \in DOMAIN order : w[i] = ValueAt(order[i])
  BY <1>2, <1>3 DEF ValuesAt
<1>5. w \in Seq(Value) /\ DOMAIN w = DOMAIN order
  BY <1>2, <1>4, FunctionIsSeq
<1>6. \A l \in S : ValueAt(l) \in Elements(w)
  BY <1>2, <1>4, <1>5 DEF Elements
<1> HIDE DEF w
<1>7. PICK r : r = q \o w
  OBVIOUS
<1>8. /\ \A i \in DOMAIN q : i \in DOMAIN r /\ r[i] = q[i]
      /\ \A i \in DOMAIN w : Len(q) + i \in DOMAIN r /\ r[Len(q) + i] = w[i]
  BY <1>5, <1>7
<1>9. Elements(q) \subseteq Elements(r) /\ Elements(w) \subseteq Elements(r)
  BY <1>8 DEF Elements
<1> QED
  BY <1>6, <1>7, <1>9 DEF w

\* What queueing marks lies in every closed set that contains what is queued.
LEMMA RevivedLeast ==
  ASSUME NEW store, NEW marked, NEW Q, NEW T \in SUBSET DOMAIN store, Q \subseteq T,
         \A l \in T : \A v \in Edges(store, l) : Location(v) \in T
  PROVE  Revived(store, marked, Q) \subseteq T
<1> DEFINE W == DOMAIN store \ marked
<1>1. ASSUME NEW l \in Q
      PROVE  Revive(store, marked, l) \subseteq T
  <2>1. T \cap W \in SUBSET W /\ {l} \cap W \subseteq T \cap W
    OBVIOUS
  <2>2. Closed(store, W, T \cap W)
    BY DEF Closed
  <2>3. Reach(store, W, {l}) \subseteq T \cap W
    BY <2>1, <2>2, ReachLeast
  <2> QED
    BY <2>3 DEF Revive
<1> QED
  BY <1>1 DEF Revived

\* After a full collection every stored object is reachable.
LEMMA CollectFullReaches ==
  ASSUME HeapInv, HeapInv', HeapAssumption, CollectFull
  PROVE  Reach(objects, DOMAIN objects, Locations(CollectorRoots))' = DOMAIN objects'
<1> DEFINE store == Refreshed
           marked == Marked(FALSE)
           gens == QueuedGenerators(store, marked, FALSE)
           byGens == MarkedWithGenerators(FALSE)
           dels == Condemned(FALSE)
           live == Survivors(FALSE)
<1>1. /\ BaseClosed(store, live)
      /\ gens \subseteq live /\ dels \subseteq live
      /\ \E order \in Increasing(gens) :
           pendingGenerators' = pendingGenerators \o ValuesAt(order)
      /\ \E order \in Increasing(dels) :
           pendingFinalizers' = pendingFinalizers \o ValuesAt(order)
      /\ Sweep(store, live) /\ roots' = roots
      /\ Locations(CollectorRoots) \subseteq live
  BY CollectFacts DEF CollectFull
<1>2. /\ marked = Reach(store, DOMAIN store, Locations(CollectorRoots))
      /\ byGens = marked \cup Revived(store, marked, gens)
      /\ live = byGens \cup Revived(store, byGens, dels)
  <2>1. Collected(FALSE) = DOMAIN objects
    BY DEF Collected
  <2> QED
    BY <2>1 DEF Marked, MajorMarked, MarkedWithGenerators, Survivors
<1> HIDE DEF marked, gens, byGens, dels, live
<1>3. DOMAIN store = DOMAIN objects /\ live \subseteq DOMAIN objects
      /\ Len(objects) \in Nat /\ DOMAIN objects = 1 .. Len(objects)
  BY <1>1, RefreshedStore, SMTT(30) DEF BaseClosed, HeapInv, TypeOK
<1>4. PICK order \in Increasing(live) :
        /\ DOMAIN objects' = DOMAIN order
        /\ \A i \in DOMAIN order :
             /\ order[i] \in live
             /\ objects'[i] = [store[order[i]] EXCEPT !.young = FALSE]
             /\ ValueAt(i)' = ValueAt(order[i])
        /\ \A v : Resolves(v) /\ Location(v) \in live =>
             /\ Resolves(v)'
             /\ Location(v)' \in DOMAIN order
             /\ order[Location(v)'] = Location(v)
        /\ \A v \in Value : Resolves(v) /\ Location(v) \notin live => v \in reclaimed'
        /\ \A v \in reclaimed' : v \in reclaimed
             \/ (v \in Value /\ Resolves(v) /\ Location(v) \in DOMAIN objects \ live)
  <2>1. live \in SUBSET DOMAIN objects
    BY <1>3
  <2> QED
    BY <1>1, <2>1, SweptStorage
<1>5. \A i, j \in DOMAIN order : order[i] = order[j] => i = j
  <2>1. /\ DOMAIN order = 1 .. Len(order) /\ Len(order) \in Nat
        /\ \A i, j \in DOMAIN order : i < j => order[i] < order[j]
    BY <1>3, IncreasingIsSeq
  <2>2. \A i \in DOMAIN order : i \in Int /\ order[i] \in Int
    BY <1>3, <1>4, <2>1
  <2> QED
    BY <2>1, <2>2
<1>6. /\ CollectorRoots \subseteq CollectorRoots'
      /\ \A l \in gens \cup dels : ValueAt(l) \in CollectorRoots'
  <2>1. gens \in SUBSET DOMAIN objects /\ dels \in SUBSET DOMAIN objects
    BY <1>1, <1>3
  <2>2. pendingGenerators \in Seq(Value) /\ pendingFinalizers \in Seq(Value)
    BY DEF HeapInv, TypeOK
  <2>3. /\ Elements(pendingGenerators) \subseteq Elements(pendingGenerators')
        /\ \A l \in gens : ValueAt(l) \in Elements(pendingGenerators')
    BY <1>1, <2>1, <2>2, QueuedAll
  <2>4. /\ Elements(pendingFinalizers) \subseteq Elements(pendingFinalizers')
        /\ \A l \in dels : ValueAt(l) \in Elements(pendingFinalizers')
    BY <1>1, <2>1, <2>2, QueuedAll
  <2> QED
    BY <1>1, <2>3, <2>4 DEF CollectorRoots
<1>7. SUFFICES ASSUME NEW S \in SUBSET DOMAIN objects',
                      Locations(CollectorRoots)' \cap DOMAIN objects' \subseteq S,
                      Closed(objects, DOMAIN objects, S)'
               PROVE  DOMAIN objects' \subseteq S
  BY DEF Reach
<1> DEFINE T == {order[i] : i \in S}
<1>8. T \in SUBSET live
  BY <1>4
<1>9. ASSUME NEW v \in CollectorRoots', Resolves(v), Location(v) \in live
      PROVE  Location(v) \in T
  <2>1. Location(v)' \in Locations(CollectorRoots)'
    BY DEF Locations
  <2>2. Location(v)' \in S /\ order[Location(v)'] = Location(v)
    BY <1>4, <1>7, <1>9, <2>1
  <2> QED
    BY <2>2
<1>10. ASSUME NEW l \in T, NEW v \in Edges(store, l)
       PROVE  Location(v) \in T
  <2>1. PICK i \in S : l = order[i]
    OBVIOUS
  <2>2. i \in DOMAIN order /\ l \in live /\ l \in DOMAIN objects /\ ValueAt(i)' = ValueAt(l)
    BY <1>3, <1>4, <2>1
  <2>3. Resolves(v) /\ Location(v) \in live
    BY <1>1, <1>10, <2>2, RefreshedStore DEF BaseClosed
  <2>4. v \in Edges(objects, i)'
    <3>1. CASE v \in store[l].refs
      <4>1. store[l] \in Entry
        BY <2>2, RefreshedStore
      <4>2. objects'[i].refs = store[l].refs
        BY <1>4, <2>1, <2>2, <4>1 DEF Entry
      <4> QED
        BY <3>1, <4>2 DEF Edges
    <3>2. CASE v \in ExternalValues(ValueAt(l))
      <4>1. PICK e \in external : e.owner = ValueAt(l) /\ e.value = v
        BY <3>2 DEF ExternalValues
      <4>2. Resolves(e.owner) /\ Location(e.owner) = l
        BY <2>2, <4>1, StoredValue DEF HeapInv
      <4>3. Resolves(e.owner)'
        BY <1>4, <2>2, <4>2
      <4>4. ResolvesIn(slots', e.owner)
        BY <4>3 DEF Resolves, ResolvesIn
      <4>5. e \in external'
        BY <1>1, <4>4 DEF Sweep
      <4>6. e.owner = ValueAt(i)'
        BY <2>2, <4>1
      <4> QED
        BY <4>1, <4>5, <4>6 DEF Edges, ExternalValues
    <3> QED
      BY <1>10, <3>1, <3>2 DEF Edges
  <2>5. Location(v)' \in DOMAIN objects' /\ order[Location(v)'] = Location(v)
    BY <1>4, <2>3
  <2>6. Location(v)' \in S
    BY <1>7, <2>1, <2>4, <2>5 DEF Closed
  <2> QED
    BY <2>5, <2>6
<1> HIDE DEF T
<1>11. \A l \in T : \A v \in Edges(store, l) : Location(v) \in T
  BY <1>10
<1>12. Locations(CollectorRoots) \subseteq T
  <2>1. SUFFICES ASSUME NEW v \in CollectorRoots
                 PROVE  Location(v) \in T
    BY DEF Locations
  <2>2. Resolves(v) /\ Location(v) \in live
    BY <1>1 DEF HeapInv, NoDanglingReference, Locations
  <2> QED
    BY <1>6, <1>9, <2>2
<1>13. gens \subseteq T /\ dels \subseteq T
  <2>1. SUFFICES ASSUME NEW l \in gens \cup dels
                 PROVE  l \in T
    OBVIOUS
  <2>2. l \in live /\ l \in DOMAIN objects
    BY <1>1, <1>3
  <2>3. Resolves(ValueAt(l)) /\ Location(ValueAt(l)) = l
    BY <2>2, StoredValue DEF HeapInv
  <2> QED
    BY <1>6, <1>9, <2>2, <2>3
<1>14. T \in SUBSET DOMAIN store
  BY <1>3, <1>8
<1> HIDE DEF store
<1>15. marked \subseteq T
  <2>1. Closed(store, DOMAIN store, T)
    BY <1>11 DEF Closed
  <2>2. Locations(CollectorRoots) \cap DOMAIN store \subseteq T
    BY <1>12
  <2> QED
    BY <1>2, <1>14, <2>1, <2>2, ReachLeast
<1>16. Revived(store, marked, gens) \subseteq T /\ Revived(store, byGens, dels) \subseteq T
  BY <1>11, <1>13, <1>14, RevivedLeast
<1>17. live \subseteq T
  BY <1>2, <1>15, <1>16
<1> QED
  BY <1>4, <1>5, <1>7, <1>17 DEF T

-----------------------------------------------------------------------------
(* The theorems.                                                           *)

\* The invariant holds in every state of the heap.
THEOREM HeapInvariant == Spec => []HeapInv
<1>1. HeapAssumption
  BY HeapAssumption
<1>2. Init => HeapInv
  <2> SUFFICES ASSUME Init PROVE HeapInv
    OBVIOUS
  <2>1. \A S : <<>> \in Seq(S) /\ Len(<<>>) = 0 /\ DOMAIN <<>> = {}
    OBVIOUS
  <2>2. TypeOK
    BY <1>1, <2>1 DEF Init, TypeOK, HeapAssumption
  <2>3. CollectorRoots = {}
    BY <2>1 DEF Init, CollectorRoots, Elements
  <2>4. StorageConsistent /\ NoDanglingReference /\ RememberedSetComplete
        /\ HeldByForeign /\ ReclaimedGenerations
    BY <2>1, <2>3 DEF Init, StorageConsistent, NoDanglingReference, RememberedSetComplete,
                     HeldByForeign, ReclaimedGenerations
  <2> QED
    BY <2>2, <2>4 DEF HeapInv
<1>3. HeapInv /\ [Next]_vars => HeapInv'
  BY <1>1, HeapNextStep
<1> QED
  BY <1>2, <1>3, PTL DEF Spec

\* Type correctness of the heap.
THEOREM HeapTypeCorrect == Spec => []TypeOK
<1>1. HeapInv => TypeOK
  BY DEF HeapInv
<1> QED
  BY <1>1, HeapInvariant, PTL

\* Compaction keeps slots and storage in agreement.
THEOREM HeapStorageConsistent == Spec => []StorageConsistent
<1>1. HeapInv => StorageConsistent
  BY DEF HeapInv
<1> QED
  BY <1>1, HeapInvariant, PTL

\* No collection reclaims what an object, an external field, a root or a queue
\* of the virtual machine refers to.
THEOREM HeapMemorySafety == Spec => []NoDanglingReference
<1>1. HeapInv => NoDanglingReference
  BY DEF HeapInv
<1> QED
  BY <1>1, HeapInvariant, PTL

\* The write barrier and the foreign refresh keep the remembered set complete.
THEOREM HeapBarrierComplete == Spec => []RememberedSetComplete
<1>1. HeapInv => RememberedSetComplete
  BY DEF HeapInv
<1> QED
  BY <1>1, HeapInvariant, PTL

\* A reclaimed value never resolves again.
THEOREM HeapNoRevival == Spec => []ReclaimedStaysDead
<1>1. HeapInv => ReclaimedStaysDead
  BY HeapAssumption, DeadValue DEF ReclaimedStaysDead
<1> QED
  BY <1>1, HeapInvariant, PTL

\* The records of finalization are right in every state of the heap.
THEOREM HeapFinalizationInvariant == Spec => []FinalizationInv
<1>1. HeapAssumption
  BY HeapAssumption
<1>2. Init => FinalizationInv
  <2> SUFFICES ASSUME Init PROVE FinalizationInv
    OBVIOUS
  <2>1. DOMAIN <<>> = {}
    OBVIOUS
  <2> QED
    BY <2>1 DEF Init, FinalizationInv, FinalizersCounted, FinalizerRunsOnce, RunningRooted,
               PayloadsDistinct, Elements
<1>3. HeapInv /\ HeapInv' /\ FinalizationInv /\ [Next]_vars => FinalizationInv'
  BY <1>1, FinalizationNextStep
<1> QED
  BY <1>2, <1>3, HeapInvariant, PTL DEF Spec

\* The finalizer queue names no object twice and none whose __del__ was started,
\* whatever resurrections and collections came between.
THEOREM HeapFinalizesOnce == Spec => []FinalizerRunsOnce
<1>1. FinalizationInv => FinalizerRunsOnce
  BY DEF FinalizationInv, FinalizersCounted
<1> QED
  BY <1>1, HeapFinalizationInvariant, PTL

\* A collection reclaims an object with __del__ only after its __del__ was
\* started, never a generator in the middle of its body, and queues the payload
\* of a wrapper in the collection that reclaims the wrapper, once.
THEOREM HeapFinalizesBeforeReclaiming == Spec => FinalizedBeforeReclaimed
<1>1. HeapAssumption
  BY HeapAssumption
<1>2. HeapInv /\ HeapInv' /\ FinalizationInv /\ FinalizationInv' /\ [Next]_vars
        => [ReclaimsFinished]_vars
  BY <1>1, ReclaimsFinishedStep
<1> QED
  BY <1>2, HeapInvariant, HeapFinalizationInvariant, PTL DEF Spec, FinalizedBeforeReclaimed

\* After a full collection every stored object is reachable from the roots or
\* from the queues: no garbage, cyclic or not, survives one.
THEOREM HeapCollectsGarbage == Spec => MajorCollectionComplete
<1>1. HeapAssumption
  BY HeapAssumption
<1>2. HeapInv /\ HeapInv' /\ [Next]_vars => [CollectsGarbage]_vars
  BY <1>1, CollectFullReaches DEF CollectsGarbage
<1> QED
  BY <1>2, HeapInvariant, PTL DEF Spec, MajorCollectionComplete

=============================================================================
