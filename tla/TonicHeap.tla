------------------------------ MODULE TonicHeap ------------------------------
(***************************************************************************)
(* The managed heap of the Tonic runtime: generational logical slots over  *)
(* compactable object storage, the write barrier and its remembered set,   *)
(* the minor and the major collection, and the three queues of work that   *)
(* collection discovers and the virtual machine runs later (suspended      *)
(* generators, objects with __del__, payloads of foreign wrappers).        *)
(*                                                                         *)
(* Source: crates/tonic-runtime/src/{heap.rs, gc.rs, value.rs, foreign.rs, *)
(* vm.rs}.  Collection happens only at safepoints, so every operation of   *)
(* the mutator and every collection is one step.                           *)
(***************************************************************************)
EXTENDS TonicSequences

CONSTANTS
  MaxSlots,        \* heap handle capacity (2^32 in the code)
  MAX_GENERATION,  \* last generation of a slot (2^29 - 1 in the code)
  Fields,          \* non-zero native field tokens of external fields
  Kinds            \* the kinds of object this instance allocates

AllKinds == {"container", "cell", "finalizable", "generator", "foreign"}

ASSUME HeapAssumption ==
  /\ MaxSlots \in Nat \ {0}
  /\ MAX_GENERATION \in Nat \ {0}
  /\ Kinds \subseteq AllKinds

VARIABLES
  objects,            \* object storage: entries in allocation order
  slots,              \* logical slots: generation and location (0: none)
  free,               \* stack of recyclable slots
  remembered,         \* slots of old owners of young values
  external,           \* external fields: owner, field, value
  roots,              \* what the virtual machine and its handles root
  pendingGenerators,  \* unreachable suspended generators to close
  pendingFinalizers,  \* unreachable objects whose __del__ is to be called
  pendingForeign,     \* payloads of swept foreign wrappers to destroy
  finalizedObjects,   \* objects whose __del__ was queued once
  reclaimed,          \* history: every value the collector has reclaimed
  ran                 \* history: every value whose __del__ was started

vars == <<objects, slots, free, remembered, external, roots, pendingGenerators,
          pendingFinalizers, pendingForeign, finalizedObjects, reclaimed, ran>>

queues == <<pendingGenerators, pendingFinalizers, pendingForeign, finalizedObjects>>

history == <<reclaimed, ran>>

-----------------------------------------------------------------------------
(* Values and the entries they name.                                       *)

SlotIds == 1 .. MaxSlots

\* A heap value is a slot and the generation it was allocated at.
Value == [slot : SlotIds, generation : 1 .. MAX_GENERATION]

\* A logical slot; location 0 stands for none.
Slot == [generation : 1 .. MAX_GENERATION, location : Nat]

GeneratorStates == {"created", "suspended", "running", "completed"}

\* "refs" are the edges Object::trace visits.  For a foreign wrapper they are
\* the references cached by the last trace callback, and "held" is what the
\* callback would report now.
Entry == [slot : SlotIds, young : BOOLEAN, kind : AllKinds,
          state : GeneratorStates \cup {"none"},
          refs : SUBSET Value, held : SUBSET Value]

ExternalField == [owner : Value, field : Fields, value : Value]

\* A payload waiting for destruction, and the values it holds references to.
PendingForeign == [wrapper : Value, held : SUBSET Value]

Resolves(v) ==
  /\ v.slot \in DOMAIN slots
  /\ slots[v.slot].generation = v.generation
  /\ slots[v.slot].location # 0

Location(v) == slots[v.slot].location

ValueAt(l) == [slot |-> objects[l].slot,
               generation |-> slots[objects[l].slot].generation]

Object(v) == objects[Location(v)]

ExternalValues(v) == {e.value : e \in {x \in external : x.owner = v}}

-----------------------------------------------------------------------------
(* The write barrier and the operations of the mutator.                    *)

\* An old owner that is handed a young value is remembered.
Barrier(owner, values) ==
  IF ~ Object(owner).young /\ \E v \in values : Object(v).young
  THEN remembered \cup {owner.slot}
  ELSE remembered

SetObject(v, entry) == objects' = [objects EXCEPT ![Location(v)] = entry]

NewEntry(s, kind, refs) ==
  [slot |-> s, young |-> TRUE, kind |-> kind,
   state |-> IF kind = "generator" THEN "created" ELSE "none",
   refs |-> refs, held |-> IF kind = "foreign" THEN refs ELSE {}]

\* Heap::alloc: the most recently freed slot, or a fresh one of generation 1.
Alloc(kind, refs) ==
  /\ kind = "cell" => Cardinality(refs) <= 1
  /\ \E s \in SlotIds :
       /\ IF free # <<>>
          THEN /\ s = free[Len(free)]
               /\ free' = SubSeq(free, 1, Len(free) - 1)
               /\ slots' = [slots EXCEPT ![s].location = Len(objects) + 1]
          ELSE /\ s = Len(slots) + 1
               /\ slots' = Append(slots, [generation |-> 1,
                                          location |-> Len(objects) + 1])
               /\ UNCHANGED free
       /\ objects' = Append(objects, NewEntry(s, kind, refs))
       /\ roots' = roots \cup {[slot |-> s, generation |-> slots'[s].generation]}
  /\ UNCHANGED <<remembered, external, queues, history>>

\* append_list, add_module_member and the other stores that add an edge.
AppendList(owner, value) ==
  /\ Object(owner).kind \in {"container", "finalizable"}
  /\ remembered' = Barrier(owner, {value})
  /\ SetObject(owner, [Object(owner) EXCEPT !.refs = @ \cup {value}])
  /\ UNCHANGED <<slots, free, external, roots, queues, history>>

\* replace_list, delete_module_member, reset_module_members: the edges that
\* are left are among the old ones, or are handed in and pass the barrier.
ReplaceList(owner, values) ==
  /\ Object(owner).kind \in {"container", "finalizable"}
  /\ remembered' = Barrier(owner, values)
  /\ SetObject(owner, [Object(owner) EXCEPT !.refs = values])
  /\ UNCHANGED <<slots, free, external, roots, queues, history>>

StoreCell(owner, value) ==
  /\ Object(owner).kind = "cell"
  /\ remembered' = Barrier(owner, {value})
  /\ SetObject(owner, [Object(owner) EXCEPT !.refs = {value}])
  /\ UNCHANGED <<slots, free, external, roots, queues, history>>

\* Faulty variant: an external field is stored without the barrier.
ExternalUnbarriered(owner, field, value) ==
  /\ external' = {e \in external : e.owner # owner \/ e.field # field}
                   \cup {[owner |-> owner, field |-> field, value |-> value]}
  /\ UNCHANGED <<objects, slots, free, remembered, roots, queues, history>>

\* A native extension's field of a managed owner, outside the object itself.
StoreExternalField(owner, field, value) ==
  /\ remembered' = Barrier(owner, {value})
  /\ external' = {e \in external : e.owner # owner \/ e.field # field}
                   \cup {[owner |-> owner, field |-> field, value |-> value]}
  /\ UNCHANGED <<objects, slots, free, roots, queues, history>>

RemoveExternalField(owner, field) ==
  /\ external' = {e \in external : e.owner # owner \/ e.field # field}
  /\ UNCHANGED <<objects, slots, free, remembered, roots, queues, history>>

\* Reading a field of a reachable object makes the value a root.
Load(owner, value) ==
  /\ value \in Object(owner).refs \cup ExternalValues(owner)
  /\ roots' = roots \cup {value}
  /\ UNCHANGED <<objects, slots, free, remembered, external, queues, history>>

\* A register, a global or a handle lets go of a value.  The frame of a running
\* generator keeps it rooted.
DropRoot(v) ==
  /\ Object(v).state # "running"
  /\ roots' = roots \ {v}
  /\ UNCHANGED <<objects, slots, free, remembered, external, queues, history>>

-----------------------------------------------------------------------------
(* Generators: the frame's registers move out on resume, back on suspend.  *)

Resumable(v) == /\ Object(v).kind = "generator"
                /\ Object(v).state \in {"created", "suspended"}

ResumeGenerator(v) ==
  /\ Resumable(v)
  /\ SetObject(v, [Object(v) EXCEPT !.state = "running", !.refs = {}])
  /\ roots' = roots \cup Object(v).refs \cup {v}
  /\ UNCHANGED <<slots, free, remembered, external, queues, history>>

SuspendGenerator(v, registers) ==
  /\ Object(v).state = "running"
  /\ remembered' = Barrier(v, registers)
  /\ SetObject(v, [Object(v) EXCEPT !.state = "suspended", !.refs = registers])
  /\ UNCHANGED <<slots, free, external, roots, queues, history>>

\* The frame is dropped; the returned value is the one edge left.
CompleteGenerator(v, result) ==
  /\ Object(v).state = "running"
  /\ remembered' = Barrier(v, result)
  /\ SetObject(v, [Object(v) EXCEPT !.state = "completed", !.refs = result])
  /\ UNCHANGED <<slots, free, external, roots, queues, history>>

-----------------------------------------------------------------------------
(* Foreign wrappers: native code edits its payload with no barrier; the    *)
(* change is seen when the wrapper is next traced.                         *)

ForeignHold(v, values) ==
  /\ Object(v).kind = "foreign"
  /\ SetObject(v, [Object(v) EXCEPT !.held = values])
  /\ UNCHANGED <<slots, free, remembered, external, roots, queues, history>>

\* refresh_foreign_references, which precedes every collection of a running
\* virtual machine: the cached edges become what the payload reports, and old
\* wrappers of young values are remembered.
Refreshed == [l \in DOMAIN objects |->
                IF objects[l].kind = "foreign"
                THEN [objects[l] EXCEPT !.refs = objects[l].held]
                ELSE objects[l]]

\* Faulty variant: refreshed edges do not reach the remembered set.
RefreshForgetsWrappers == remembered

RefreshRemembered ==
  remembered \cup
    {objects[l].slot : l \in {k \in DOMAIN objects :
       /\ objects[k].kind = "foreign"
       /\ ~ objects[k].young
       /\ \E v \in objects[k].held : Resolves(v) /\ Object(v).young}}

-----------------------------------------------------------------------------
(* Marking.  A location set is closed when it holds every location its     *)
(* members' edges name inside "within"; marking from "start" computes the  *)
(* least closed set, as the worklist of gc.rs does.                        *)

Edges(store, l) == store[l].refs \cup ExternalValues(ValueAt(l))

Locations(values) == {Location(v) : v \in values}

Closed(store, within, S) ==
  \A l \in S : \A v \in Edges(store, l) : Location(v) \in within => Location(v) \in S

Reach(store, within, start) ==
  {l \in within : \A S \in SUBSET within :
     (start \cap within \subseteq S /\ Closed(store, within, S)) => l \in S}

CollectorRoots == roots \cup Elements(pendingGenerators) \cup Elements(pendingFinalizers)

YoungLocations == {l \in DOMAIN objects : objects[l].young}

\* What a minor collection adds: the edges of the remembered owners.
RememberedEdges(store, owners) ==
  UNION {Edges(store, l) : l \in {k \in DOMAIN store : store[k].slot \in owners}}

\* Faulty variant: a full collection that spares old objects.
MajorSparesOld(store) ==
  Reach(store, DOMAIN store, Locations(CollectorRoots) \cup (DOMAIN store \ YoungLocations))

MajorMarked(store) == Reach(store, DOMAIN store, Locations(CollectorRoots))

\* Faulty variant: the remembered owners are not traced.
MinorForgetsRemembered(store, owners) ==
  Reach(store, YoungLocations, Locations(CollectorRoots))

MinorMarked(store, owners) ==
  Reach(store, YoungLocations, Locations(CollectorRoots \cup RememberedEdges(store, owners)))

\* What queueing a location marks: all it reaches that is not marked yet.
Revive(store, marked, l) == Reach(store, DOMAIN store \ marked, {l})

Revived(store, marked, queued) == UNION {Revive(store, marked, l) : l \in queued}

Collected(minor) == IF minor THEN YoungLocations ELSE DOMAIN objects

\* queue_unreachable_generators walks the storage in order; a generator that an
\* earlier one of the walk reaches is marked by then and is not queued.
UnreachableGenerators(store, marked, minor) ==
  {l \in Collected(minor) \ marked : store[l].state = "suspended"}

QueuedGenerators(store, marked, minor) ==
  {l \in UnreachableGenerators(store, marked, minor) :
     \A k \in UnreachableGenerators(store, marked, minor) :
       k < l => l \notin Revive(store, marked, k)}

\* Faulty variant: objects that were finalized before are queued again.
RequeuesFinalized(store, marked, minor) ==
  {l \in Collected(minor) \ marked : store[l].kind = "finalizable"}

\* Faulty variant: a minor collection sweeps without queueing finalizers.
MinorSkipsFinalizers(store, marked, minor) ==
  IF minor THEN {} ELSE {l \in DOMAIN store \ marked : store[l].kind = "finalizable"
                             /\ ValueAt(l) \notin finalizedObjects}

\* queue_unreachable_object_finalizers collects its candidates before it marks,
\* so a candidate that another one reaches is queued as well.
QueuedFinalizers(store, marked, minor) ==
  {l \in Collected(minor) \ marked :
     /\ store[l].kind = "finalizable"
     /\ ValueAt(l) \notin finalizedObjects
     /\ ValueAt(l) \notin Elements(pendingFinalizers)}

-----------------------------------------------------------------------------
(* Sweeping, compaction and the whole collection.                          *)

\* The survivors keep their order, move down and are promoted.
Compacted(store, order) ==
  [i \in DOMAIN order |-> [store[order[i]] EXCEPT !.young = FALSE]]

\* Faulty variant: compaction leaves the survivors' slots alone.
SlotsNotMoved(live, order) ==
  [s \in DOMAIN slots |->
     IF slots[s].location = 0 \/ slots[s].location \in live THEN slots[s]
     ELSE [generation |-> IF slots[s].generation < MAX_GENERATION
                          THEN slots[s].generation + 1 ELSE slots[s].generation,
           location |-> 0]]

\* Faulty variant: a dead object's slot keeps its generation.
GenerationKept(live, order) ==
  [s \in DOMAIN slots |->
     IF slots[s].location \in live
     THEN [slots[s] EXCEPT !.location = CHOOSE i \in DOMAIN order : order[i] = slots[s].location]
     ELSE [slots[s] EXCEPT !.location = 0]]

\* A survivor's slot follows it.  A dead one's slot gets its next generation;
\* a slot that has none left is retired and never freed.
SweptSlots(live, order) ==
  [s \in DOMAIN slots |->
     IF slots[s].location = 0 THEN slots[s]
     ELSE IF slots[s].location \in live
     THEN [slots[s] EXCEPT !.location = CHOOSE i \in DOMAIN order : order[i] = slots[s].location]
     ELSE [generation |-> IF slots[s].generation < MAX_GENERATION
                          THEN slots[s].generation + 1 ELSE slots[s].generation,
           location |-> 0]]

Recyclable(l) == slots[objects[l].slot].generation < MAX_GENERATION

SlotsAt(order) == [i \in DOMAIN order |-> objects[order[i]].slot]

ValuesAt(order) == [i \in DOMAIN order |-> ValueAt(order[i])]

PayloadsAt(store, order) ==
  [i \in DOMAIN order |-> [wrapper |-> ValueAt(order[i]), held |-> store[order[i]].refs]]

ResolvesIn(s, v) == s[v.slot].generation = v.generation /\ s[v.slot].location # 0

Sweep(store, live) ==
  LET dead == DOMAIN store \ live IN
  /\ \E order \in Increasing(live) :
       /\ objects' = Compacted(store, order)
       /\ slots' = SweptSlots(live, order)
  /\ \E order \in Increasing({l \in dead : Recyclable(l)}) : free' = free \o SlotsAt(order)
  /\ \E order \in Increasing({l \in dead : store[l].kind = "foreign"}) :
       pendingForeign' = pendingForeign \o PayloadsAt(store, order)
  /\ remembered' = {}
  /\ external' = {e \in external : ResolvesIn(slots', e.owner)}
  /\ reclaimed' = reclaimed \cup {ValueAt(l) : l \in dead}

\* The end of both collections: the queues grow by what was found, everything
\* that neither is marked nor was revived is swept.
Reclaim(minor, store, gens, markedByGens, dels) ==
  /\ \E order \in Increasing(gens) :
       pendingGenerators' = pendingGenerators \o ValuesAt(order)
  /\ \E order \in Increasing(dels) :
       pendingFinalizers' = pendingFinalizers \o ValuesAt(order)
  /\ Sweep(store, (markedByGens \cup Revived(store, markedByGens, dels))
                    \cup (DOMAIN objects \ Collected(minor)))
  /\ finalizedObjects' = {v \in finalizedObjects : ResolvesIn(slots', v)}
                           \cup {ValueAt(l) : l \in dels}
  /\ UNCHANGED <<roots, ran>>

QueueObjects(minor, store, gens, markedByGens) ==
  Reclaim(minor, store, gens, markedByGens,
          QueuedFinalizers(store, markedByGens, minor))

CollectFrom(minor, store, marked, gens) ==
  QueueObjects(minor, store, gens,
               marked \cup Revived(store, marked, gens))

Marked(minor) == IF minor THEN MinorMarked(Refreshed, RefreshRemembered)
                 ELSE MajorMarked(Refreshed)

\* Heap::collect and Heap::collect_young, after the refresh of foreign edges:
\* mark, queue unreachable generators and what they reach, queue unreachable
\* objects with __del__, sweep.  A value that does not resolve fails the
\* collection before it changes a thing; that path is a stuttering step.
Collect(minor) ==
  /\ \A v \in CollectorRoots : Resolves(v)
  /\ CollectFrom(minor, Refreshed, Marked(minor),
                 QueuedGenerators(Refreshed, Marked(minor), minor))

CollectYoung == Collect(TRUE)

CollectFull == Collect(FALSE)

-----------------------------------------------------------------------------
(* Running what collection queued.                                         *)

\* The last queued generator is closed if it is still suspended: it resumes,
\* rooted in finalizer_roots, and runs as any generator does.
FinalizeGenerator ==
  /\ pendingGenerators # <<>>
  /\ LET v == pendingGenerators[Len(pendingGenerators)] IN
       IF Object(v).state = "suspended"
       THEN /\ SetObject(v, [Object(v) EXCEPT !.state = "running", !.refs = {}])
            /\ roots' = roots \cup Object(v).refs \cup {v}
       ELSE UNCHANGED <<objects, roots>>
  /\ pendingGenerators' = SubSeq(pendingGenerators, 1, Len(pendingGenerators) - 1)
  /\ UNCHANGED <<slots, free, remembered, external, pendingFinalizers,
                 pendingForeign, finalizedObjects, history>>

\* __del__ is called with its receiver rooted; the callback may store it
\* anywhere, which resurrects it.
FinalizeObject ==
  /\ pendingFinalizers # <<>>
  /\ LET v == pendingFinalizers[Len(pendingFinalizers)] IN
       /\ roots' = roots \cup {v}
       /\ ran' = ran \cup {v}
  /\ pendingFinalizers' = SubSeq(pendingFinalizers, 1, Len(pendingFinalizers) - 1)
  /\ UNCHANGED <<objects, slots, free, remembered, external, pendingGenerators,
                 pendingForeign, finalizedObjects, reclaimed>>

\* Every queued payload is destroyed, in queue order.
DrainForeign ==
  /\ pendingForeign # <<>>
  /\ pendingForeign' = <<>>
  /\ UNCHANGED <<objects, slots, free, remembered, external, roots, pendingGenerators,
                 pendingFinalizers, finalizedObjects, history>>

-----------------------------------------------------------------------------
Init ==
  /\ objects = <<>>
  /\ slots = <<>>
  /\ free = <<>>
  /\ remembered = {}
  /\ external = {}
  /\ roots = {}
  /\ pendingGenerators = <<>>
  /\ pendingFinalizers = <<>>
  /\ pendingForeign = <<>>
  /\ finalizedObjects = {}
  /\ reclaimed = {}
  /\ ran = {}

Mutate ==
  \/ \E kind \in Kinds, refs \in SUBSET roots : Alloc(kind, refs)
  \/ \E owner \in roots :
       \/ \E value \in roots : AppendList(owner, value)
       \/ \E values \in SUBSET (roots \cup Object(owner).refs) : ReplaceList(owner, values)
       \/ \E value \in roots : StoreCell(owner, value)
       \/ \E field \in Fields, value \in roots : StoreExternalField(owner, field, value)
       \/ \E field \in Fields : RemoveExternalField(owner, field)
       \/ \E value \in Object(owner).refs \cup ExternalValues(owner) : Load(owner, value)
       \/ DropRoot(owner)
       \/ ResumeGenerator(owner)
       \/ \E registers \in SUBSET roots : SuspendGenerator(owner, registers)
       \/ \E result \in {{}} \cup {{v} : v \in roots} : CompleteGenerator(owner, result)
       \/ \E values \in SUBSET (roots \cup Object(owner).held) : ForeignHold(owner, values)

Next ==
  \/ Mutate
  \/ CollectYoung
  \/ CollectFull
  \/ FinalizeGenerator
  \/ FinalizeObject
  \/ DrainForeign

Spec == Init /\ [][Next]_vars

-----------------------------------------------------------------------------
(* Properties.                                                             *)

TypeOK ==
  /\ objects \in Seq(Entry)
  /\ slots \in Seq(Slot)
  /\ Len(slots) <= MaxSlots
  /\ free \in Seq(SlotIds)
  /\ remembered \subseteq SlotIds
  /\ external \subseteq ExternalField
  /\ roots \subseteq Value
  /\ pendingGenerators \in Seq(Value)
  /\ pendingFinalizers \in Seq(Value)
  /\ pendingForeign \in Seq(PendingForeign)
  /\ finalizedObjects \subseteq Value
  /\ reclaimed \subseteq Value
  /\ ran \subseteq Value

\* Slots and storage agree after every compaction: a slot's location holds the
\* entry of that slot, every stored entry is where its slot says, and the free
\* stack names each vacant slot at most once (gc.rs sweep, heap.rs alloc).
StorageConsistent ==
  /\ \A s \in DOMAIN slots : slots[s].location # 0 =>
       /\ slots[s].location \in DOMAIN objects
       /\ objects[slots[s].location].slot = s
  /\ \A l \in DOMAIN objects :
       /\ objects[l].slot \in DOMAIN slots
       /\ slots[objects[l].slot].location = l
  /\ \A i \in DOMAIN free :
       /\ free[i] \in DOMAIN slots
       /\ slots[free[i]].location = 0
       /\ \A j \in DOMAIN free : free[i] = free[j] => i = j

\* Whatever a stored object, an external field, a root or a queue of the virtual
\* machine refers to is still allocated: neither collection reclaims an object
\* that something can still use.
NoDanglingReference ==
  /\ \A l \in DOMAIN objects : \A v \in objects[l].refs \cup objects[l].held : Resolves(v)
  /\ \A e \in external : Resolves(e.owner) /\ Resolves(e.value)
  /\ \A v \in CollectorRoots : Resolves(v)

\* What assert_remembered_set_complete asserts in the heap's tests: an old
\* object with an edge to a young one is in the remembered set.
RememberedSetComplete ==
  \A l \in DOMAIN objects :
    (~ objects[l].young /\ \E v \in Edges(objects, l) : Object(v).young)
       => objects[l].slot \in remembered

\* A value that was reclaimed never resolves again: its slot moved on to a later
\* generation or was retired, so a stale value is an error and never another
\* object ("Generation never wraps", gc.rs).
ReclaimedStaysDead == \A v \in reclaimed : ~ Resolves(v)

\* The finalizer queue names no object twice and none whose __del__ has already
\* been started, whatever resurrections and collections came between.
FinalizerRunsOnce ==
  /\ \A i, j \in DOMAIN pendingFinalizers :
       pendingFinalizers[i] = pendingFinalizers[j] => i = j
  /\ \A i \in DOMAIN pendingFinalizers : pendingFinalizers[i] \notin ran

\* What a step reclaims is done with: the objects with __del__ had it started,
\* no generator is in the middle of its body, and exactly the reclaimed wrappers
\* have their payloads queued for destruction, each once.
ReclaimsFinished ==
  LET queued == {pendingForeign'[i].wrapper : i \in DOMAIN pendingForeign'} IN
  /\ Cardinality(queued) = Len(pendingForeign')
  /\ \A l \in DOMAIN objects :
       /\ objects[l].kind = "foreign" =>
            (ValueAt(l) \in reclaimed' <=> ValueAt(l) \in queued)
       /\ ValueAt(l) \in reclaimed' =>
            /\ objects[l].kind = "finalizable" => ValueAt(l) \in ran
            /\ objects[l].state \notin {"suspended", "running"}

\* A collection reclaims no object with __del__ before its __del__ was started,
\* and no generator that is suspended in the middle of its body.  A wrapper's
\* payload is queued for destruction in the collection that reclaims the
\* wrapper, never while the wrapper lives, and no payload is queued twice.
FinalizedBeforeReclaimed == [][ReclaimsFinished]_vars

\* After a major collection every stored object is reachable from the roots or
\* from the queues.  (A collection leaves no young object and no other root.)
CollectsGarbage ==
  (YoungLocations' = {} /\ UNCHANGED <<roots, ran>> /\ CollectFull)
    => Reach(objects, DOMAIN objects, Locations(CollectorRoots))' = DOMAIN objects'

\* Cycles, also through foreign wrappers and external fields, are reclaimed at
\* the first full collection after they become unreachable.
MajorCollectionComplete == [][CollectsGarbage]_vars

=============================================================================
