---------------------------- MODULE TonicHandles ----------------------------
(***************************************************************************)
(* Native handles of a Tonic runtime: the handle table, the scopes of      *)
(* native calls through the Rust and the C interface, persistent and       *)
(* foreign references, buffer exports, releases that other threads defer   *)
(* to the runtime, and the end of the runtime.                             *)
(*                                                                         *)
(* Source: crates/tonic-runtime/src/{native.rs, c_api.rs, runtime_owner.rs,*)
(* buffer.rs, vm.rs, calls.rs}.  What a value is does not matter here      *)
(* except that some are buffers; which free slot is reused is left open.   *)
(***************************************************************************)
EXTENDS Naturals, Sequences, FiniteSets

CONSTANTS
  Values,       \* managed values
  Buffers,      \* those that are writable buffers
  Threads,      \* other threads that hold an owner of the runtime
  MaxToken,     \* u32::MAX: the tokens are exhausted there
  MaxExports,   \* u32::MAX: the limit of a buffer's writable exports
  Programs,     \* what native code does: for each program, a set of Features
  MaxSlots,     \* bound of the instance: slots of the table
  MaxDepth,     \* bound of the instance: nested guest and native activations
  MaxArguments, \* bound of the instance: arguments of a native call
  MaxDeferred,  \* bound of the instance: releases that are queued
  None

\* Buffer exports, deferred releases, foreign references, another runtime.
Features == {"exports", "deferred", "foreign", "others"}

ASSUME HandlesAssumption ==
  /\ Programs \subseteq SUBSET Features
  /\ Buffers \subseteq Values
  /\ None \notin Values
  /\ MaxToken \in Nat \ {0}
  /\ MaxSlots \in Nat
  /\ MaxExports \in Nat

VARIABLES
  entries,    \* HandleTable.entries
  free,       \* HandleTable.free, as a set
  next,       \* NEXT_TOKEN, shared by all runtimes of the process
  issued,     \* history: the handles of this and of other runtimes
  stack,      \* activations of guest code and of native scopes, innermost last
  exports,    \* the writable exports of each buffer
  queue,      \* RuntimeOwner: the deferred releases of each kind
  threads,    \* what each other thread is about to push, or None
  accepted,   \* history: the deferred releases that were accepted
  broken,     \* history: a drain met a release that was not valid
  alive,      \* RuntimeOwner.alive
  phase,      \* RuntimePhase
  uses        \* the program

table == <<entries, free, next, issued>>
owner == <<queue, threads, accepted, broken, alive>>
vars == <<entries, free, next, issued, stack, exports, queue, threads, accepted, broken,
          alive, phase, uses>>

-----------------------------------------------------------------------------
(* The handle table.                                                       *)

Kinds == {"Local", "Persistent", "ReadOwner", "WriteOwner", "ForeignReference"}

\* The kinds whose references are released in batches.
Deferrable == {"Persistent", "ForeignReference"}

\* Slots count from one here.
Handle(token, slot) == [token |-> token, slot |-> slot]
Entry(token, value, kind) == [token |-> token, value |-> value, kind |-> kind]

\* Mutant: the token is not compared.
ValidSlot(h) == h.slot \in DOMAIN entries /\ entries[h.slot].value # None

\* entry: the slot exists, it has the handle's token and a value.
Valid(h) ==
  /\ h.slot \in DOMAIN entries
  /\ entries[h.slot].token = h.token
  /\ entries[h.slot].value # None

KindOf(h) == entries[h.slot].kind
ValueOf(h) == entries[h.slot].value

\* resolve: buffer owners and foreign references are no ordinary values.
Resolves(h) == Valid(h) /\ KindOf(h) \in {"Local", "Persistent"}

resolve_persistent(h) == Valid(h) /\ KindOf(h) = "Persistent"
resolve_foreign_reference(h) == Valid(h) /\ KindOf(h) = "ForeignReference"

\* A reference gets a token that no handle of any runtime has and a free slot,
\* or a slot of its own if there is none.
insert(value, kind, slot) ==
  /\ next < MaxToken
  /\ slot \in IF free # {} THEN free ELSE {Len(entries) + 1}
  /\ entries' = IF slot \in DOMAIN entries
                THEN [entries EXCEPT ![slot] = Entry(next, value, kind)]
                ELSE Append(entries, Entry(next, value, kind))
  /\ free' = free \ {slot}
  /\ next' = next + 1
  /\ issued' = issued \cup {Handle(next, slot)}

\* The handle that insert makes.
Inserted(slot) == Handle(next, slot)

\* The handles of a set that are valid are released.
release(H) ==
  LET gone == {s \in DOMAIN entries :
                 \E h \in H : h.slot = s /\ Valid(h)}
  IN /\ entries' = [s \in DOMAIN entries |->
                      IF s \in gone THEN [entries[s] EXCEPT !.value = None] ELSE entries[s]]
     /\ free' = free \cup gone
     /\ UNCHANGED <<next, issued>>

invalidate_all ==
  /\ entries' = [s \in DOMAIN entries |-> [entries[s] EXCEPT !.value = None]]
  /\ free' = DOMAIN entries
  /\ UNCHANGED <<next, issued>>

\* Another runtime of the process creates a handle.
OtherRuntime(slot) ==
  /\ "others" \in uses
  /\ next < MaxToken
  /\ next' = next + 1
  /\ issued' = issued \cup {Handle(next, slot)}
  /\ UNCHANGED <<entries, free, stack, exports, owner, phase, uses>>

Init ==
  /\ entries = << >>
  /\ free = {}
  /\ next = 1
  /\ issued = {}
  /\ stack = << >>
  /\ exports = [b \in Buffers |-> 0]
  /\ queue = [k \in Deferrable |-> << >>]
  /\ threads = [t \in Threads |-> None]
  /\ accepted = {}
  /\ broken = FALSE
  /\ alive = TRUE
  /\ phase = "Running"
  /\ uses \in Programs

-----------------------------------------------------------------------------
(* Deferred releases.                                                      *)

\* queue_persistent_release and queue_foreign_reference_release: the owner is
\* seen alive, and the release is pushed later.
QueueCheck(t, h, kind) ==
  /\ "deferred" \in uses
  /\ threads[t] = None
  /\ alive
  /\ Len(queue["Persistent"]) + Len(queue["ForeignReference"]) < MaxDeferred
  /\ threads' = [threads EXCEPT ![t] = [handle |-> h, kind |-> kind]]
  /\ UNCHANGED <<table, stack, exports, queue, accepted, broken, alive, phase, uses>>

QueuePush(t) ==
  /\ threads[t] # None
  /\ queue' = [queue EXCEPT ![threads[t].kind] = Append(@, threads[t].handle)]
  /\ accepted' = accepted \cup {threads[t].handle}
  /\ threads' = [threads EXCEPT ![t] = None]
  /\ UNCHANGED <<table, stack, exports, broken, alive, phase, uses>>

\* The releases of a batch up to the first one that is not valid.
Released(kind) ==
  LET batch == queue[kind]
      Good(i) == Valid(batch[i]) /\ KindOf(batch[i]) = kind /\ \A j \in 1 .. i - 1 : batch[j] # batch[i]
  IN {batch[i] : i \in {j \in DOMAIN batch : \A k \in 1 .. j : Good(k)}}

Completes(kind) == Cardinality(Released(kind)) = Len(queue[kind])

\* drain_deferred_handle_releases.  A batch is taken as a whole; the foreign
\* references are not taken if a persistent release fails.
DrainedHandles ==
  Released("Persistent") \cup
  IF Completes("Persistent") THEN Released("ForeignReference") ELSE {}

QueueAfterDrain ==
  [queue EXCEPT !["Persistent"] = << >>,
                !["ForeignReference"] = IF Completes("Persistent") THEN << >> ELSE @]

DrainSucceeds == Completes("Persistent") /\ Completes("ForeignReference")

\* Mutant: the queue is emptied without a look at a batch that fails.
DrainSkipsForeign ==
  /\ release(Released("Persistent"))
  /\ queue' = [k \in Deferrable |-> << >>]
  /\ broken' = (broken \/ ~Completes("Persistent"))

drain_deferred_handle_releases ==
  /\ release(DrainedHandles)
  /\ queue' = QueueAfterDrain
  /\ broken' = (broken \/ ~DrainSucceeds)

-----------------------------------------------------------------------------
(* Activations: guest code, and scopes of native code.                     *)

\* "persists": the result becomes a persistent reference.
Guest(persists) == [kind |-> "guest", persists |-> persists]

\* "entering" counts the arguments that are still to be passed.
Scope(interface, arguments) ==
  [kind |-> interface, entering |-> arguments, locals |-> {}]

Top == stack[Len(stack)]
Below == SubSeq(stack, 1, Len(stack) - 1)
InGuest == stack # << >> /\ Top.kind = "guest"
InNative == stack # << >> /\ Top.kind # "guest" /\ Top.entering = 0

\* The host's own scope.  A deferred release that fails is the host's error.
context ==
  /\ phase = "Running" /\ stack = << >>
  /\ drain_deferred_handle_releases
  /\ stack' = IF DrainSucceeds THEN <<Scope("host", 0)>> ELSE stack
  /\ UNCHANGED <<exports, threads, accepted, alive, phase, uses>>

\* run and call_persistent; the latter drains nothing and needs valid handles.
run ==
  /\ phase = "Running" /\ stack = << >>
  /\ drain_deferred_handle_releases
  /\ stack' = IF DrainSucceeds THEN <<Guest(FALSE)>> ELSE stack
  /\ UNCHANGED <<exports, threads, accepted, alive, phase, uses>>

call_persistent(h) ==
  /\ phase = "Running" /\ stack = << >>
  /\ resolve_persistent(h)
  /\ stack' = <<Guest(TRUE)>>
  /\ UNCHANGED <<table, exports, owner, phase, uses>>

\* A collection, while guest code runs or between the host's operations.
collect ==
  /\ (phase = "Running" /\ stack = << >>) \/ InGuest
  /\ drain_deferred_handle_releases
  /\ UNCHANGED <<stack, exports, threads, accepted, alive, phase, uses>>

\* A wrapper that was collected, or that stopped to report it, releases a
\* reference that it owned.
drain_foreign_finalizers(h) ==
  /\ (phase \in {"Running", "Finalizing"} /\ stack = << >>) \/ InGuest
  /\ resolve_foreign_reference(h)
  /\ release({h})
  /\ UNCHANGED <<stack, exports, owner, phase, uses>>

\* Guest code calls a native function, which first gets a handle for each
\* argument.
NativeCall(interface, arguments) ==
  /\ InGuest
  /\ Len(stack) < MaxDepth
  /\ stack' = Append(stack, Scope(interface, arguments))
  /\ UNCHANGED <<table, exports, owner, phase, uses>>

\* The top scope has one more local handle.
WithLocal(h) == [stack EXCEPT ![Len(stack)].locals = @ \cup {h}]

PassArgument(value, slot) ==
  /\ stack # << >> /\ Top.kind # "guest" /\ Top.entering > 0
  /\ insert(value, "Local", slot)
  /\ stack' = [stack EXCEPT ![Len(stack)].locals = @ \cup {Inserted(slot)},
                            ![Len(stack)].entering = @ - 1]
  /\ UNCHANGED <<exports, owner, phase, uses>>

\* end_export for the writable owners of a set.
EndExports(H) ==
  exports' = [b \in Buffers |->
                exports[b] - Cardinality({h \in H : /\ Valid(h) /\ KindOf(h) = "WriteOwner"
                                                    /\ ValueOf(h) = b})]

\* Mutant: buffer owners outlive their scope.
LocalHandles == {h \in Top.locals : Valid(h) /\ KindOf(h) = "Local"}

\* Context::drop releases the scope's local handles and buffer owners.
ScopeHandles ==
  {h \in Top.locals : Valid(h) /\ KindOf(h) \in {"Local", "ReadOwner", "WriteOwner"}}

DropScope == release(ScopeHandles) /\ EndExports(ScopeHandles)

\* The tokens are exhausted while arguments are passed: the call fails.
PassArgumentFails ==
  /\ stack # << >> /\ Top.kind # "guest" /\ Top.entering > 0
  /\ next >= MaxToken
  /\ DropScope
  /\ stack' = Below
  /\ UNCHANGED <<owner, phase, uses>>

\* The native function returns: with a handle, with an error, or by a panic
\* that invoke_native contains; the C interface drains before.  Whatever the result is, the scope ends.
NativeReturn ==
  /\ InNative /\ Top.kind # "c"
  /\ DropScope
  /\ stack' = Below
  /\ UNCHANGED <<owner, phase, uses>>

invoke_native ==
  /\ InNative /\ Top.kind = "c"
  /\ release(ScopeHandles \cup DrainedHandles)
  /\ EndExports(ScopeHandles)
  /\ queue' = QueueAfterDrain
  /\ broken' = (broken \/ ~DrainSucceeds)
  /\ stack' = Below
  /\ UNCHANGED <<threads, accepted, alive, phase, uses>>

\* Guest code ends.  If native code has called it, its result becomes a local
\* handle of the caller, or the call has failed.
GuestReturn ==
  /\ InGuest
  /\ stack' = Below
  /\ UNCHANGED <<table, exports, owner, phase, uses>>

GuestResult(value, slot) ==
  /\ InGuest /\ Len(stack) > 1
  /\ insert(value, "Local", slot)
  /\ stack' = [Below EXCEPT ![Len(stack) - 1].locals = @ \cup {Inserted(slot)}]
  /\ UNCHANGED <<exports, owner, phase, uses>>

\* The result of call_persistent.
PersistResult(value, slot) ==
  /\ InGuest /\ Top.persists
  /\ insert(value, "Persistent", slot)
  /\ stack' = Below
  /\ UNCHANGED <<exports, owner, phase, uses>>

-----------------------------------------------------------------------------
(* The interface of a scope.  An operation with a handle that does not     *)
(* resolve, or that fails, changes nothing here.                           *)

\* A value is made, looked up or computed from others: its handle is local.
local(value, slot) ==
  /\ InNative
  /\ insert(value, "Local", slot)
  /\ stack' = WithLocal(Inserted(slot))
  /\ UNCHANGED <<exports, owner, phase, uses>>

\* call, and the operations that call a method of the guest.
call(h) ==
  /\ InNative
  /\ Top.kind # "host"
  /\ Resolves(h)
  /\ Len(stack) < MaxDepth
  /\ stack' = Append(stack, Guest(FALSE))
  /\ UNCHANGED <<table, exports, owner, phase, uses>>

persist(h, slot) ==
  /\ InNative
  /\ Resolves(h)
  /\ insert(ValueOf(h), "Persistent", slot)
  /\ UNCHANGED <<stack, exports, owner, phase, uses>>

borrow_persistent(h, slot) ==
  /\ InNative
  /\ Resolves(h)
  /\ insert(ValueOf(h), "Local", slot)
  /\ stack' = WithLocal(Inserted(slot))
  /\ UNCHANGED <<exports, owner, phase, uses>>

release_persistent(h) ==
  /\ InNative
  /\ resolve_persistent(h)
  /\ release({h})
  /\ UNCHANGED <<stack, exports, owner, phase, uses>>

create_foreign_reference(h, slot) ==
  /\ "foreign" \in uses
  /\ InNative
  /\ Resolves(h)
  /\ insert(ValueOf(h), "ForeignReference", slot)
  /\ UNCHANGED <<stack, exports, owner, phase, uses>>

borrow_foreign_reference(h, slot) ==
  /\ InNative
  /\ resolve_foreign_reference(h)
  /\ insert(ValueOf(h), "Local", slot)
  /\ stack' = WithLocal(Inserted(slot))
  /\ UNCHANGED <<exports, owner, phase, uses>>

release_foreign_reference(h) ==
  /\ InNative
  /\ resolve_foreign_reference(h)
  /\ release({h})
  /\ UNCHANGED <<stack, exports, owner, phase, uses>>

\* The visitor of a payload's trace makes a root of a borrowed reference.
promote_foreign_reference(h, slot) ==
  /\ InGuest
  /\ resolve_foreign_reference(h)
  /\ insert(ValueOf(h), "Persistent", slot)
  /\ UNCHANGED <<stack, exports, owner, phase, uses>>

\* A writable export is counted after its owner has a handle.
export_f64_buffer(h, writable, slot) ==
  /\ "exports" \in uses
  /\ InNative
  /\ Resolves(h) /\ ValueOf(h) \in Buffers
  /\ writable => exports[ValueOf(h)] < MaxExports
  /\ insert(ValueOf(h), IF writable THEN "WriteOwner" ELSE "ReadOwner", slot)
  /\ stack' = WithLocal(Inserted(slot))
  /\ exports' = IF writable THEN [exports EXCEPT ![ValueOf(h)] = @ + 1] ELSE exports
  /\ UNCHANGED <<owner, phase, uses>>

\* The count is exhausted: the handle is released at once.
ExportFails(h, slot) ==
  /\ "exports" \in uses
  /\ InNative
  /\ Resolves(h) /\ ValueOf(h) \in Buffers
  /\ exports[ValueOf(h)] >= MaxExports
  /\ next < MaxToken
  /\ slot \in IF free # {} THEN free ELSE {Len(entries) + 1}
  /\ entries' = IF slot \in DOMAIN entries
                THEN [entries EXCEPT ![slot] = Entry(next, None, "WriteOwner")]
                ELSE Append(entries, Entry(next, None, "WriteOwner"))
  /\ free' = free \cup {slot}
  /\ next' = next + 1
  /\ issued' = issued \cup {Handle(next, slot)}
  /\ UNCHANGED <<stack, exports, owner, phase, uses>>

release_buffer_owner(h) ==
  /\ InNative
  /\ Valid(h) /\ KindOf(h) \in {"ReadOwner", "WriteOwner"}
  /\ EndExports({h})
  /\ release({h})
  /\ UNCHANGED <<stack, owner, phase, uses>>

-----------------------------------------------------------------------------
(* What the two interfaces offer.  Those that only read a value, or that   *)
(* store a value in another one, change no handle.                         *)

rust == InNative /\ Top.kind # "c"

\* Numbers, strings, modules, globals, builtins and fields.
Scalar(value, slot) == rust /\ local(value, slot)
native_global_load(value, slot) == rust /\ local(value, slot)

\* A container of values, or an element of one.
Container(h, value, slot) == rust /\ Resolves(h) /\ local(value, slot)

\* A method of the guest may be behind these; else the value is at hand.
Item(h) == rust /\ call(h)
Attribute(h) == rust /\ call(h)
call_with_keywords(h) == rust /\ call(h)

\* boundary: the C interface works within a native call only.  A panic within
\* an operation is contained, and is one of its failures.
boundary == InNative /\ Top.kind = "c"

bool_from(value, slot) == boundary /\ local(value, slot)
int_from_i64(value, slot) == boundary /\ local(value, slot)
tuple_new(h, value, slot) == boundary /\ Resolves(h) /\ local(value, slot)
call_kw(h) == boundary /\ call(h)
get_attr(h) == boundary /\ call(h)
call_c(h) == boundary /\ call(h)
persistent_create(h, slot) == boundary /\ persist(h, slot)
persistent_borrow(h, slot) == boundary /\ borrow_persistent(h, slot)
persistent_release(h) == boundary /\ release_persistent(h)
foreign_reference_create(h, slot) == boundary /\ create_foreign_reference(h, slot)
foreign_reference_borrow(h, slot) == boundary /\ borrow_foreign_reference(h, slot)
foreign_reference_release(h) == boundary /\ release_foreign_reference(h)
buffer_export(h, writable, slot) ==
  /\ boundary
  /\ export_f64_buffer(h, writable, slot) \/ (writable /\ ExportFails(h, slot))
buffer_release(h) == boundary /\ release_buffer_owner(h)

-----------------------------------------------------------------------------
(* The end of the runtime.                                                 *)

begin_shutdown ==
  /\ phase = "Running" /\ stack = << >>
  /\ drain_deferred_handle_releases
  /\ phase' = IF DrainSucceeds THEN "ShuttingDown" ELSE phase
  /\ UNCHANGED <<stack, exports, threads, accepted, alive, uses>>

\* Finalizers run guest code while the phase is Finalizing already.
finalize_shutdown ==
  /\ phase = "ShuttingDown"
  /\ phase' = "Finalizing"
  /\ stack' = <<Guest(FALSE)>>
  /\ UNCHANGED <<table, exports, owner, uses>>

\* The rest of finalize_shutdown; "Finalized" tells that it has returned.
FinalizeHandles ==
  /\ phase = "Finalizing" /\ stack = << >>
  /\ IF DrainSucceeds THEN invalidate_all ELSE release(DrainedHandles)
  /\ queue' = QueueAfterDrain
  /\ broken' = (broken \/ ~DrainSucceeds)
  /\ phase' = "Finalized"
  /\ UNCHANGED <<stack, exports, threads, accepted, alive, uses>>

\* A finalizer fails, and finalize_shutdown with it.
FinalizeFails ==
  /\ phase = "Finalizing" /\ stack = << >>
  /\ phase' = "Finalized"
  /\ UNCHANGED <<table, stack, exports, owner, uses>>

complete_shutdown ==
  /\ phase = "Finalized"
  /\ alive' = FALSE
  /\ phase' = "Dead"
  /\ UNCHANGED <<table, stack, exports, queue, threads, accepted, broken, uses>>

\* The Vm is dropped, with its table.
DropVm ==
  /\ stack = << >>
  /\ phase \notin {"Dropped"}
  /\ alive' = FALSE
  /\ phase' = "Dropped"
  /\ invalidate_all
  /\ UNCHANGED <<stack, exports, queue, threads, accepted, broken, uses>>

-----------------------------------------------------------------------------
Slots == 1 .. MaxSlots

Interface ==
  \/ \E value \in Values, slot \in Slots :
       \/ Scalar(value, slot) \/ native_global_load(value, slot)
       \/ bool_from(value, slot) \/ int_from_i64(value, slot)
  \/ \E h \in issued, value \in Values, slot \in Slots :
       Container(h, value, slot) \/ tuple_new(h, value, slot)
  \/ \E h \in issued :
       \/ Item(h) \/ Attribute(h) \/ call_with_keywords(h)
       \/ call_kw(h) \/ get_attr(h) \/ call_c(h)
  \/ \E h \in issued, slot \in Slots :
       \/ rust /\ persist(h, slot)
       \/ rust /\ borrow_persistent(h, slot)
       \/ persistent_create(h, slot) \/ persistent_borrow(h, slot)
       \/ foreign_reference_create(h, slot) \/ foreign_reference_borrow(h, slot)
       \/ promote_foreign_reference(h, slot)
       \/ \E writable \in BOOLEAN : buffer_export(h, writable, slot)
  \/ \E h \in issued :
       \/ rust /\ release_persistent(h)
       \/ persistent_release(h) \/ foreign_reference_release(h) \/ buffer_release(h)

Activation ==
  \/ context \/ run \/ collect
  \/ \E h \in issued : drain_foreign_finalizers(h)
  \/ \E h \in issued : call_persistent(h)
  \/ \E interface \in {"rust", "c"}, n \in 0 .. MaxArguments : NativeCall(interface, n)
  \/ \E value \in Values, slot \in Slots : PassArgument(value, slot)
  \/ PassArgumentFails \/ NativeReturn \/ invoke_native \/ GuestReturn
  \/ \E value \in Values, slot \in Slots : GuestResult(value, slot)
  \/ \E value \in Values, slot \in Slots : PersistResult(value, slot)

Shutdown ==
  begin_shutdown \/ finalize_shutdown \/ FinalizeHandles \/ FinalizeFails
  \/ complete_shutdown \/ DropVm

Outside ==
  \/ \E slot \in Slots : OtherRuntime(slot)
  \/ \E t \in Threads, h \in issued, kind \in Deferrable : QueueCheck(t, h, kind)
  \/ \E t \in Threads : QueuePush(t)

Next == Interface \/ Activation \/ Shutdown \/ Outside

Spec == Init /\ [][Next]_vars

-----------------------------------------------------------------------------
(* Properties.                                                             *)

\* What the valid handles stand for.
live == [h \in {g \in issued : Valid(g)} |-> <<ValueOf(h), KindOf(h)>>]

Names ==
  INSTANCE TonicHandleNames WITH
    References <- Values \X Kinds, names <- live, spent <- issued

\* A valid handle stands for the same value with the same kind until it is
\* released, and no stale handle or handle of another runtime ever resolves:
\* the table with its reused slots implements names that are never reused.
NamesSpec == Names!Spec

\* Each local handle and each buffer owner that is valid belongs to exactly one
\* open scope, so that none outlives its native call, however it ends.  A buffer
\* counts as many writable exports as there are owners of them, so that compiled
\* code is kept off while and only while native code may write.
LocalsOwned ==
  /\ \A s \in DOMAIN entries :
       (entries[s].value # None /\ entries[s].kind \in {"Local", "ReadOwner", "WriteOwner"}) =>
         Cardinality({i \in DOMAIN stack :
                        /\ stack[i].kind # "guest"
                        /\ Handle(entries[s].token, s) \in stack[i].locals}) = 1
  /\ phase \notin {"Finalized", "Dead", "Dropped"} =>
       \A b \in Buffers :
         exports[b] = Cardinality({s \in DOMAIN entries :
                                     entries[s].value = b /\ entries[s].kind = "WriteOwner"})

Queued == UNION {{queue[k][i] : i \in DOMAIN queue[k]} : k \in Deferrable}

\* A deferred release that was accepted is queued until its reference is
\* released, as long as native code released each reference once.
DeferredNotLost ==
  ~broken => \A h \in accepted : h \in Queued \/ ~Valid(h)

=============================================================================
