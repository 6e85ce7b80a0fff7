------------------------- MODULE TonicHandlesProofs -------------------------
(***************************************************************************)
(* The handle table implements names that are never reused, whatever the   *)
(* number of tokens, slots, threads, values and nested calls.  The         *)
(* argument: every token of an entry and of a handle is smaller than the   *)
(* next one, so a slot that is reused gets a token that no handle has, and *)
(* every handle of another slot keeps its entry.                           *)
(***************************************************************************)
EXTENDS TonicHandles, FiniteSetTheorems, SequenceTheorems, TLAPS

EntrySet == [token : Nat, value : Values \cup {None}, kind : Kinds]
HandleSet == [token : Nat, slot : Nat]

\* What the table keeps: the types, and that tokens are fresh.
TableInv ==
  /\ next \in Nat
  /\ entries \in Seq(EntrySet)
  /\ free \subseteq DOMAIN entries
  /\ issued \subseteq HandleSet
  /\ \A h \in issued : h.token < next

\* A step of the table that the names allow.
Allowed == TableInv' /\ Names!Change

-----------------------------------------------------------------------------
\* A valid handle stands for a value and a kind.
LEMMA ValidReference ==
  ASSUME TableInv, NEW h, Valid(h)
  PROVE  ValueOf(h) \in Values /\ KindOf(h) \in Kinds
<1>1. h.slot \in DOMAIN entries /\ entries[h.slot].value # None
  BY DEF Valid
<1>2. entries[h.slot] \in EntrySet
  BY <1>1 DEF TableInv
<1> QED
  BY <1>1, <1>2 DEF EntrySet, ValueOf, KindOf

\* Entries that no handle of a later state finds changed, and handles that were
\* not issued before, are what Names!Change asks for.
LEMMA ChangeFromEntries ==
  ASSUME TableInv, TableInv',
         issued \subseteq issued',
         \A h \in issued' : Valid(h)' /\ h \in issued =>
           /\ Valid(h)
           /\ entries'[h.slot] = entries[h.slot]
  PROVE  Names!Change
<1>1. ASSUME NEW h \in DOMAIN live'
      PROVE  /\ live'[h] \in Values \X Kinds
             /\ h \in DOMAIN live => live'[h] = live[h]
             /\ h \notin DOMAIN live => h \notin issued
  <2>1. h \in issued' /\ Valid(h)'
    BY DEF live
  <2>2. ValueOf(h)' \in Values /\ KindOf(h)' \in Kinds
    <3>1. h.slot \in DOMAIN entries' /\ entries'[h.slot].value # None
      BY <2>1 DEF Valid
    <3>2. entries'[h.slot] \in EntrySet
      BY <3>1 DEF TableInv
    <3> QED
      BY <3>1, <3>2 DEF EntrySet, ValueOf, KindOf
  <2>3. ASSUME h \in issued
        PROVE  h \in DOMAIN live /\ live'[h] = live[h]
    BY <2>1, <2>3 DEF live, ValueOf, KindOf
  <2>4. live'[h] = <<ValueOf(h)', KindOf(h)'>>
    BY <2>1 DEF live
  <2>5. h \in DOMAIN live => h \in issued
    BY DEF live
  <2> QED
    BY <2>2, <2>3, <2>4, <2>5
<1>2. issued \cup DOMAIN live' \subseteq issued'
  BY DEF live
<1> QED
  BY <1>1, <1>2 DEF Names!Change

\* Nothing happens to the table.
LEMMA UnchangedAllowed ==
  ASSUME TableInv, UNCHANGED table
  PROVE  Allowed
<1>1. TableInv'
  BY DEF TableInv, table
<1>2. \A h \in issued' : Valid(h)' => Valid(h) /\ entries'[h.slot] = entries[h.slot]
  BY DEF Valid, table
<1>3. issued \subseteq issued'
  BY DEF table
<1> QED
  BY <1>1, <1>2, <1>3, ChangeFromEntries DEF Allowed

\* A slot is filled with a fresh token, by a value or by none: insert, and an
\* export that fails.
LEMMA FilledAllowed ==
  ASSUME TableInv, NEW e \in EntrySet, NEW slot \in Nat,
         e.token = next,
         slot \in IF free # {} THEN free ELSE {Len(entries) + 1},
         entries' = IF slot \in DOMAIN entries THEN [entries EXCEPT ![slot] = e]
                                               ELSE Append(entries, e),
         free' \subseteq free \cup {slot},
         next' = next + 1,
         issued' = issued \cup {Handle(next, slot)}
  PROVE  Allowed
<1>1. entries' \in Seq(EntrySet)
  BY DEF TableInv
<1>2. slot \in DOMAIN entries' /\ entries'[slot] = e
      /\ DOMAIN entries \subseteq DOMAIN entries' /\ DOMAIN entries' = DOMAIN entries \cup {slot}
  <2>1. CASE slot \in DOMAIN entries
    BY <2>1 DEF TableInv
  <2>2. CASE slot \notin DOMAIN entries
    <3>1. slot = Len(entries) + 1
      BY <2>2 DEF TableInv
    <3> QED
      BY <2>2, <3>1 DEF TableInv
  <2> QED
    BY <2>1, <2>2
<1>3. \A s \in DOMAIN entries : s # slot => entries'[s] = entries[s]
  BY DEF TableInv
<1>4. TableInv'
  <2>1. next' \in Nat /\ free' \subseteq DOMAIN entries'
    BY <1>2 DEF TableInv
  <2>2. issued' \subseteq HandleSet /\ \A h \in issued' : h.token < next'
    BY DEF TableInv, Handle, HandleSet
  <2> QED
    BY <1>1, <2>1, <2>2 DEF TableInv
<1>5. ASSUME NEW h \in issued', Valid(h)', h \in issued
      PROVE  Valid(h) /\ entries'[h.slot] = entries[h.slot]
  <2>1. h.slot \in DOMAIN entries' /\ entries'[h.slot].token = h.token
    BY <1>5 DEF Valid
  <2>2. h.token < next /\ h.token \in Nat /\ next \in Nat
    BY <1>5 DEF TableInv, HandleSet
  <2>3. h.slot # slot
    BY <2>1, <2>2, <1>2
  <2>4. h.slot \in DOMAIN entries /\ entries'[h.slot] = entries[h.slot]
    BY <2>1, <2>3, <1>2, <1>3
  <2> QED
    BY <1>5, <2>4 DEF Valid
<1> QED
  BY <1>4, <1>5, ChangeFromEntries DEF Allowed

LEMMA InsertAllowed ==
  ASSUME TableInv, NEW value \in Values, NEW kind \in Kinds, NEW slot \in Nat,
         insert(value, kind, slot)
  PROVE  Allowed
<1>1. Entry(next, value, kind) \in EntrySet /\ Entry(next, value, kind).token = next
  BY DEF Entry, EntrySet, TableInv
<1> QED
  BY <1>1, FilledAllowed DEF insert

\* Values go, and nothing else changes.
LEMMA EmptiedAllowed ==
  ASSUME TableInv, NEW gone, gone \subseteq DOMAIN entries,
         entries' = [s \in DOMAIN entries |->
                       IF s \in gone THEN [entries[s] EXCEPT !.value = None] ELSE entries[s]],
         free' \subseteq DOMAIN entries,
         next' = next, issued' = issued
  PROVE  Allowed
<1>1. DOMAIN entries' = DOMAIN entries
  OBVIOUS
<1>2. entries' \in Seq(EntrySet)
  <2>1. ASSUME NEW s \in DOMAIN entries
        PROVE  entries'[s] \in EntrySet
    <3>1. entries[s] \in EntrySet
      BY DEF TableInv
    <3>2. [entries[s] EXCEPT !.value = None] \in EntrySet
      BY <3>1 DEF EntrySet
    <3> QED
      BY <3>1, <3>2
  <2>2. DOMAIN entries = 1 .. Len(entries) /\ Len(entries) \in Nat
    BY DEF TableInv
  <2> QED
    BY <2>1, <2>2
<1>3. TableInv'
  BY <1>1, <1>2 DEF TableInv
<1>4. ASSUME NEW h \in issued', Valid(h)'
      PROVE  Valid(h) /\ entries'[h.slot] = entries[h.slot]
  <2>1. h.slot \in DOMAIN entries /\ entries'[h.slot].value # None
    BY <1>1, <1>4 DEF Valid
  <2>2. entries[h.slot] \in EntrySet
    BY <2>1 DEF TableInv
  <2>3. h.slot \notin gone
    BY <2>1, <2>2 DEF EntrySet
  <2>4. entries'[h.slot] = entries[h.slot]
    BY <2>1, <2>3
  <2> QED
    BY <1>4, <2>1, <2>4 DEF Valid
<1> QED
  BY <1>3, <1>4, ChangeFromEntries DEF Allowed

LEMMA ReleaseAllowed ==
  ASSUME TableInv, NEW H, release(H)
  PROVE  Allowed
<1> DEFINE gone == {s \in DOMAIN entries : \E h \in H : h.slot = s /\ Valid(h)}
<1>1. gone \subseteq DOMAIN entries
  OBVIOUS
<1>2. free' \subseteq DOMAIN entries
  BY DEF release, TableInv
<1>3. entries' = [s \in DOMAIN entries |->
                    IF s \in gone THEN [entries[s] EXCEPT !.value = None] ELSE entries[s]]
  BY DEF release
<1> HIDE DEF gone
<1> QED
  BY <1>1, <1>2, <1>3, EmptiedAllowed DEF release

LEMMA InvalidateAllowed ==
  ASSUME TableInv, invalidate_all
  PROVE  Allowed
<1>1. entries' = [s \in DOMAIN entries |->
                    IF s \in DOMAIN entries THEN [entries[s] EXCEPT !.value = None]
                                            ELSE entries[s]]
  BY DEF invalidate_all
<1> QED
  BY <1>1, EmptiedAllowed DEF invalidate_all

-----------------------------------------------------------------------------
LEMMA SlotsNat == \A slot \in Slots : slot \in Nat
BY DEF Slots

LEMMA LocalAllowed ==
  ASSUME TableInv, NEW value \in Values, NEW slot \in Slots, local(value, slot)
  PROVE  Allowed
BY SlotsNat, InsertAllowed DEF local, Kinds

LEMMA CallAllowed ==
  ASSUME TableInv, NEW h, call(h)
  PROVE  Allowed
BY UnchangedAllowed DEF call

LEMMA PersistAllowed ==
  ASSUME TableInv, NEW h, NEW slot \in Slots, persist(h, slot)
  PROVE  Allowed
<1>1. ValueOf(h) \in Values
  BY ValidReference DEF persist, Resolves
<1> QED
  BY <1>1, SlotsNat, InsertAllowed DEF persist, Kinds

LEMMA BorrowAllowed ==
  ASSUME TableInv, NEW h, NEW slot \in Slots, borrow_persistent(h, slot)
  PROVE  Allowed
<1>1. ValueOf(h) \in Values
  BY ValidReference DEF borrow_persistent, Resolves
<1> QED
  BY <1>1, SlotsNat, InsertAllowed DEF borrow_persistent, Kinds

LEMMA ForeignAllowed ==
  ASSUME TableInv, NEW h, NEW slot \in Slots,
         \/ create_foreign_reference(h, slot)
         \/ borrow_foreign_reference(h, slot)
         \/ promote_foreign_reference(h, slot)
  PROVE  Allowed
<1>1. ValueOf(h) \in Values
  BY ValidReference
  DEF create_foreign_reference, borrow_foreign_reference, promote_foreign_reference,
      Resolves, resolve_foreign_reference
<1>2. CASE create_foreign_reference(h, slot)
  BY <1>1, <1>2, SlotsNat, InsertAllowed DEF create_foreign_reference, Kinds
<1>3. CASE borrow_foreign_reference(h, slot)
  BY <1>1, <1>3, SlotsNat, InsertAllowed DEF borrow_foreign_reference, Kinds
<1>4. CASE promote_foreign_reference(h, slot)
  BY <1>1, <1>4, SlotsNat, InsertAllowed DEF promote_foreign_reference, Kinds
<1> QED
  BY <1>2, <1>3, <1>4

LEMMA ExportAllowed ==
  ASSUME TableInv, NEW h, NEW writable \in BOOLEAN, NEW slot \in Slots,
         buffer_export(h, writable, slot)
  PROVE  Allowed
<1>1. CASE export_f64_buffer(h, writable, slot)
  <2>1. ValueOf(h) \in Values
    BY <1>1, ValidReference DEF export_f64_buffer, Resolves
  <2>2. (IF writable THEN "WriteOwner" ELSE "ReadOwner") \in Kinds
    BY DEF Kinds
  <2>3. insert(ValueOf(h), IF writable THEN "WriteOwner" ELSE "ReadOwner", slot)
    BY <1>1 DEF export_f64_buffer
  <2> QED
    BY <2>1, <2>2, <2>3, SlotsNat, InsertAllowed
<1>2. CASE ExportFails(h, slot)
  <2>1. /\ Entry(next, None, "WriteOwner") \in EntrySet
        /\ Entry(next, None, "WriteOwner").token = next
    BY DEF Entry, EntrySet, TableInv, Kinds
  <2> QED
    BY <1>2, <2>1, SlotsNat, FilledAllowed DEF ExportFails
<1> QED
  BY <1>1, <1>2 DEF buffer_export

-----------------------------------------------------------------------------
LEMMA InterfaceAllowed ==
  ASSUME TableInv, Interface
  PROVE  Allowed
<1>1. ASSUME NEW value \in Values, NEW slot \in Slots,
             \/ Scalar(value, slot) \/ native_global_load(value, slot)
             \/ bool_from(value, slot) \/ int_from_i64(value, slot)
      PROVE  Allowed
  BY <1>1, LocalAllowed DEF Scalar, native_global_load, bool_from, int_from_i64
<1>2. ASSUME NEW h \in issued, NEW value \in Values, NEW slot \in Slots,
             Container(h, value, slot) \/ tuple_new(h, value, slot)
      PROVE  Allowed
  BY <1>2, LocalAllowed DEF Container, tuple_new
<1>3. ASSUME NEW h \in issued,
             \/ Item(h) \/ Attribute(h) \/ call_with_keywords(h)
             \/ call_kw(h) \/ get_attr(h) \/ call_c(h)
      PROVE  Allowed
  BY <1>3, CallAllowed DEF Item, Attribute, call_with_keywords, call_kw, get_attr, call_c
<1>4. ASSUME NEW h \in issued, NEW slot \in Slots,
             \/ rust /\ persist(h, slot)
             \/ rust /\ borrow_persistent(h, slot)
             \/ persistent_create(h, slot) \/ persistent_borrow(h, slot)
             \/ foreign_reference_create(h, slot) \/ foreign_reference_borrow(h, slot)
             \/ promote_foreign_reference(h, slot)
             \/ \E writable \in BOOLEAN : buffer_export(h, writable, slot)
      PROVE  Allowed
  <2>1. CASE rust /\ persist(h, slot)
    BY <2>1, PersistAllowed
  <2>2. CASE rust /\ borrow_persistent(h, slot)
    BY <2>2, BorrowAllowed
  <2>3. CASE persistent_create(h, slot)
    BY <2>3, PersistAllowed DEF persistent_create
  <2>4. CASE persistent_borrow(h, slot)
    BY <2>4, BorrowAllowed DEF persistent_borrow
  <2>5. CASE foreign_reference_create(h, slot)
    BY <2>5, ForeignAllowed DEF foreign_reference_create
  <2>6. CASE foreign_reference_borrow(h, slot)
    BY <2>6, ForeignAllowed DEF foreign_reference_borrow
  <2>7. CASE promote_foreign_reference(h, slot)
    BY <2>7, ForeignAllowed
  <2>8. CASE \E writable \in BOOLEAN : buffer_export(h, writable, slot)
    BY <2>8, ExportAllowed
  <2> QED
    BY <1>4, <2>1, <2>2, <2>3, <2>4, <2>5, <2>6, <2>7, <2>8
<1>5. ASSUME NEW h \in issued,
             \/ rust /\ release_persistent(h)
             \/ persistent_release(h) \/ foreign_reference_release(h) \/ buffer_release(h)
      PROVE  Allowed
  <2>1. release({h})
    BY <1>5 DEF persistent_release, foreign_reference_release, buffer_release,
                release_persistent, release_foreign_reference, release_buffer_owner
  <2> QED
    BY <2>1, ReleaseAllowed
<1> QED
  BY <1>1, <1>2, <1>3, <1>4, <1>5 DEF Interface

LEMMA DrainAllowed ==
  ASSUME TableInv, drain_deferred_handle_releases
  PROVE  Allowed
BY ReleaseAllowed DEF drain_deferred_handle_releases

LEMMA ActivationAllowed ==
  ASSUME TableInv, Activation
  PROVE  Allowed
<1>1. CASE context
  BY <1>1, DrainAllowed DEF context
<1>2. CASE run
  BY <1>2, DrainAllowed DEF run
<1>3. CASE collect
  BY <1>3, DrainAllowed DEF collect
<1>4. ASSUME NEW h \in issued, drain_foreign_finalizers(h)
      PROVE  Allowed
  BY <1>4, ReleaseAllowed DEF drain_foreign_finalizers
<1>5. ASSUME NEW h \in issued, call_persistent(h)
      PROVE  Allowed
  BY <1>5, UnchangedAllowed DEF call_persistent
<1>6. ASSUME NEW interface \in {"rust", "c"}, NEW n \in 0 .. MaxArguments,
             NativeCall(interface, n)
      PROVE  Allowed
  BY <1>6, UnchangedAllowed DEF NativeCall
<1>7. ASSUME NEW value \in Values, NEW slot \in Slots,
             \/ PassArgument(value, slot)
             \/ GuestResult(value, slot)
             \/ PersistResult(value, slot)
      PROVE  Allowed
  <2>1. insert(value, "Local", slot) \/ insert(value, "Persistent", slot)
    BY <1>7 DEF PassArgument, GuestResult, PersistResult
  <2> QED
    BY <2>1, SlotsNat, InsertAllowed DEF Kinds
<1>8. CASE PassArgumentFails \/ NativeReturn
  BY <1>8, ReleaseAllowed DEF PassArgumentFails, NativeReturn, DropScope
<1>9. CASE invoke_native
  BY <1>9, ReleaseAllowed DEF invoke_native
<1>10. CASE GuestReturn
  BY <1>10, UnchangedAllowed DEF GuestReturn
<1> QED
  BY <1>1, <1>2, <1>3, <1>4, <1>5, <1>6, <1>7, <1>8, <1>9, <1>10 DEF Activation

LEMMA ShutdownAllowed ==
  ASSUME TableInv, Shutdown
  PROVE  Allowed
<1>1. CASE begin_shutdown
  BY <1>1, DrainAllowed DEF begin_shutdown
<1>2. CASE finalize_shutdown
  BY <1>2, UnchangedAllowed DEF finalize_shutdown
<1>3. CASE FinalizeHandles
  <2>1. invalidate_all \/ release(DrainedHandles)
    BY <1>3 DEF FinalizeHandles
  <2> QED
    BY <2>1, InvalidateAllowed, ReleaseAllowed
<1>4. CASE FinalizeFails
  BY <1>4, UnchangedAllowed DEF FinalizeFails
<1>5. CASE complete_shutdown
  BY <1>5, UnchangedAllowed DEF complete_shutdown
<1>6. CASE DropVm
  BY <1>6, InvalidateAllowed DEF DropVm
<1> QED
  BY <1>1, <1>2, <1>3, <1>4, <1>5, <1>6 DEF Shutdown

LEMMA OutsideAllowed ==
  ASSUME TableInv, Outside
  PROVE  Allowed
<1>1. ASSUME NEW slot \in Slots, OtherRuntime(slot)
      PROVE  Allowed
  <2>1. /\ entries' = entries /\ free' = free /\ next' = next + 1
        /\ issued' = issued \cup {Handle(next, slot)}
    BY <1>1 DEF OtherRuntime
  <2>2. TableInv'
    BY <2>1, SlotsNat DEF TableInv, Handle, HandleSet
  <2>3. \A h \in issued' : Valid(h)' => Valid(h) /\ entries'[h.slot] = entries[h.slot]
    BY <2>1 DEF Valid
  <2> QED
    BY <2>1, <2>2, <2>3, ChangeFromEntries DEF Allowed
<1>2. ASSUME NEW t \in Threads, NEW h \in issued, NEW kind \in Deferrable,
             QueueCheck(t, h, kind)
      PROVE  Allowed
  BY <1>2, UnchangedAllowed DEF QueueCheck
<1>3. ASSUME NEW t \in Threads, QueuePush(t)
      PROVE  Allowed
  BY <1>3, UnchangedAllowed DEF QueuePush
<1> QED
  BY <1>1, <1>2, <1>3 DEF Outside

LEMMA StepAllowed ==
  ASSUME TableInv, [Next]_vars
  PROVE  Allowed
<1>1. CASE Next
  BY <1>1, InterfaceAllowed, ActivationAllowed, ShutdownAllowed, OutsideAllowed DEF Next
<1>2. CASE UNCHANGED vars
  BY <1>2, UnchangedAllowed DEF vars, table
<1> QED
  BY <1>1, <1>2

\* The handle table of a runtime (HandleTable, with its reused slots, releases
\* from other threads and the end of the runtime) implements TonicHandleNames:
\* no stale handle and no handle of another runtime ever resolves, and a valid
\* one always stands for the same value with the same kind.
THEOREM HandlesImplementNames == Spec => NamesSpec
<1>1. Init => TableInv /\ Names!Init
  <2> SUFFICES ASSUME Init PROVE TableInv /\ Names!Init
    OBVIOUS
  <2>1. TableInv
    BY DEF Init, TableInv
  <2>2. issued = {} /\ {g \in issued : Valid(g)} = {}
    BY DEF Init
  <2> QED
    BY <2>1, <2>2 DEF Names!Init, live
<1>2. TableInv /\ [Next]_vars => TableInv' /\ [Names!Change]_<<live, issued>>
  BY StepAllowed DEF Allowed
<1> QED
  BY <1>1, <1>2, PTL DEF Spec, NamesSpec, Names!Spec

-----------------------------------------------------------------------------
(* Scopes.  A handle of a scope is valid in that scope only, since scopes   *)
(* end from the inside out and release what is theirs; and a guest's result *)
(* finds a scope below it, since activations of guest and native code       *)
(* alternate.                                                               *)

GuestSet == [kind : {"guest"}, persists : BOOLEAN]
ScopeSet == [kind : {"host", "rust", "c"}, entering : Nat, locals : SUBSET HandleSet]

\* The kinds whose references end with a scope.
ScopeKinds == {"Local", "ReadOwner", "WriteOwner"}

\* The handles that an activation gives back when it ends.
Locals(i) == IF stack[i].kind = "guest" THEN {} ELSE stack[i].locals

\* A slot whose reference ends with a scope, and the handle that is valid for it.
Scoped(s) ==
  s \in DOMAIN entries /\ entries[s].value # None /\ entries[s].kind \in ScopeKinds
HandleOf(s) == Handle(entries[s].token, s)

StackOK ==
  /\ stack \in Seq(GuestSet \cup ScopeSet)
  /\ \A i \in DOMAIN stack : i > 1 =>
       (stack[i].kind = "guest" <=> stack[i - 1].kind # "guest")
  /\ phase \notin {"Running", "Finalizing"} => stack = << >>

\* Every reference of a scope is a handle of one scope.
OwnedOnce ==
  /\ \A i \in DOMAIN stack : Locals(i) \subseteq issued
  /\ \A s \in DOMAIN entries : Scoped(s) =>
       \E i \in DOMAIN stack : HandleOf(s) \in Locals(i)
  /\ \A i, j \in DOMAIN stack : Locals(i) \cap Locals(j) # {} => i = j

Writers(b) == {s \in DOMAIN entries : entries[s].value = b /\ entries[s].kind = "WriteOwner"}

ExportsCounted ==
  phase \notin {"Finalized", "Dead", "Dropped"} =>
    exports = [b \in Buffers |-> Cardinality(Writers(b))]

FreeEmpty == \A s \in free : entries[s].value = None

ScopesInv ==
  /\ TableInv
  /\ FreeEmpty
  /\ StackOK
  /\ OwnedOnce
  /\ ExportsCounted

-----------------------------------------------------------------------------
(* What the changes of the table do to the references of scopes.            *)

LEMMA InsertEffect ==
  ASSUME TableInv, FreeEmpty, NEW value \in Values, NEW kind \in Kinds, NEW slot \in Nat,
         insert(value, kind, slot)
  PROVE  /\ TableInv' /\ FreeEmpty'
         /\ DOMAIN entries' = DOMAIN entries \cup {slot}
         /\ entries'[slot] = Entry(next, value, kind)
         /\ \A s \in DOMAIN entries : s # slot => entries'[s] = entries[s]
         /\ slot \in DOMAIN entries => entries[slot].value = None
         /\ issued' = issued \cup {Inserted(slot)}
         /\ Inserted(slot) \notin issued
         /\ Inserted(slot) \in HandleSet
<1>1. TableInv'
  BY InsertAllowed DEF Allowed
<1>2. slot \in DOMAIN entries => slot \in free /\ entries[slot].value = None
  BY DEF TableInv, insert, FreeEmpty
<1>3. /\ DOMAIN entries' = DOMAIN entries \cup {slot}
      /\ entries'[slot] = Entry(next, value, kind)
      /\ \A s \in DOMAIN entries : s # slot => entries'[s] = entries[s]
  <2>1. CASE slot \in DOMAIN entries
    BY <2>1 DEF insert, TableInv
  <2>2. CASE slot \notin DOMAIN entries
    <3>1. slot = Len(entries) + 1
      BY <2>2 DEF insert, TableInv
    <3>2. entries' = Append(entries, Entry(next, value, kind))
      BY <2>2 DEF insert
    <3> QED
      BY <3>1, <3>2 DEF TableInv
  <2> QED
    BY <2>1, <2>2
<1>4. FreeEmpty'
  BY <1>3 DEF insert, FreeEmpty, TableInv
<1>5. issued' = issued \cup {Inserted(slot)} /\ Inserted(slot) \in HandleSet
  BY DEF insert, Inserted, TableInv, Handle, HandleSet
<1>6. Inserted(slot) \notin issued
  BY DEF Inserted, TableInv, Handle
<1> QED
  BY <1>1, <1>2, <1>3, <1>4, <1>5, <1>6

LEMMA ReleaseEffect ==
  ASSUME TableInv, FreeEmpty, NEW H, release(H)
  PROVE  /\ TableInv' /\ FreeEmpty'
         /\ issued' = issued
         /\ DOMAIN entries' = DOMAIN entries
         /\ \A s \in DOMAIN entries :
              IF \E h \in H : h.slot = s /\ Valid(h)
              THEN entries'[s].value = None
              ELSE entries'[s] = entries[s]
<1>1. TableInv'
  BY ReleaseAllowed DEF Allowed
<1> DEFINE gone == {s \in DOMAIN entries : \E h \in H : h.slot = s /\ Valid(h)}
<1>2. /\ entries' = [s \in DOMAIN entries |->
                      IF s \in gone THEN [entries[s] EXCEPT !.value = None] ELSE entries[s]]
      /\ free' = free \cup gone /\ issued' = issued
  BY DEF release
<1>3. \A s \in DOMAIN entries : entries[s] \in EntrySet
  BY DEF TableInv
<1>4. DOMAIN entries' = DOMAIN entries
  BY <1>2
<1>5. \A s \in DOMAIN entries :
        /\ s \in gone => entries'[s].value = None
        /\ s \notin gone => entries'[s] = entries[s]
  BY <1>2, <1>3 DEF EntrySet
<1>6. FreeEmpty'
  <2> SUFFICES ASSUME NEW s \in free' PROVE entries'[s].value = None
    BY DEF FreeEmpty
  <2>1. s \in DOMAIN entries /\ (s \in gone \/ s \in free)
    BY <1>2 DEF TableInv
  <2> QED
    BY <2>1, <1>5 DEF FreeEmpty
<1> QED
  BY <1>1, <1>2, <1>4, <1>5, <1>6

\* A reference that is there after a step that only releases was there before.
LEMMA ReleaseKeeps ==
  ASSUME TableInv, FreeEmpty, NEW H, release(H), NEW s \in DOMAIN entries,
         entries'[s].value # None
  PROVE  /\ entries'[s] = entries[s]
         /\ ~ \E h \in H : h.slot = s /\ Valid(h)
BY ReleaseEffect

-----------------------------------------------------------------------------
(* The writable exports of a buffer.                                        *)

LEMMA WritersFinite ==
  ASSUME TableInv, NEW b
  PROVE  IsFiniteSet(Writers(b)) /\ Cardinality(Writers(b)) \in Nat
<1>1. IsFiniteSet(DOMAIN entries)
  <2>1. DOMAIN entries = 1 .. Len(entries) /\ Len(entries) \in Nat
    BY DEF TableInv
  <2> QED
    BY <2>1, FS_Interval
<1>2. Writers(b) \in SUBSET DOMAIN entries
  BY DEF Writers
<1> QED
  BY <1>1, <1>2, FS_Subset, FS_CardinalityType

LEMMA WritersInserted ==
  ASSUME TableInv, FreeEmpty, NEW value \in Values, NEW kind \in Kinds, NEW slot \in Nat,
         insert(value, kind, slot), NEW b \in Buffers
  PROVE  /\ kind # "WriteOwner" \/ value # b => Writers(b)' = Writers(b)
         /\ kind = "WriteOwner" /\ value = b =>
              Cardinality(Writers(b)') = Cardinality(Writers(b)) + 1
<1>1. b # None
  BY HandlesAssumption
<1>2. /\ DOMAIN entries' = DOMAIN entries \cup {slot}
      /\ entries'[slot] = Entry(next, value, kind)
      /\ \A s \in DOMAIN entries : s # slot => entries'[s] = entries[s]
      /\ slot \in DOMAIN entries => entries[slot].value = None
  BY InsertEffect
<1>3. /\ slot \notin Writers(b)
      /\ Writers(b)' = IF kind = "WriteOwner" /\ value = b THEN Writers(b) \cup {slot}
                                                           ELSE Writers(b)
  BY <1>1, <1>2 DEF Writers, Entry
<1>4. Cardinality(Writers(b) \cup {slot}) = Cardinality(Writers(b)) + 1
  BY <1>3, WritersFinite, FS_AddElement
<1> QED
  BY <1>3, <1>4

\* The exports that end with the references of G are those that G counts.
LEMMA WritersReleased ==
  ASSUME TableInv, FreeEmpty, NEW H, release(H), NEW G \in SUBSET H, G \subseteq issued,
         \A h \in H : Valid(h) /\ KindOf(h) = "WriteOwner" => h \in G,
         NEW b \in Buffers
  PROVE  Cardinality(Writers(b)') =
           Cardinality(Writers(b))
             - Cardinality({h \in G : /\ Valid(h) /\ KindOf(h) = "WriteOwner"
                                      /\ ValueOf(h) = b})
<1> DEFINE X == {h \in G : Valid(h) /\ KindOf(h) = "WriteOwner" /\ ValueOf(h) = b}
           Y == {s \in Writers(b) : \E h \in H : h.slot = s /\ Valid(h)}
           f == [h \in X |-> h.slot]
<1>1. b # None
  BY HandlesAssumption
<1>2. Writers(b)' = Writers(b) \ Y
  <2>1. ASSUME NEW s \in Writers(b)'
        PROVE  s \in Writers(b) \ Y
    <3>1. s \in DOMAIN entries /\ entries'[s].value # None
      BY <1>1, ReleaseEffect DEF Writers
    <3> QED
      BY <3>1, ReleaseKeeps DEF Writers
  <2>2. ASSUME NEW s \in Writers(b) \ Y
        PROVE  s \in Writers(b)'
    BY ReleaseEffect DEF Writers
  <2> QED
    BY <2>1, <2>2
<1>3. \A g, h \in X : g.slot = h.slot => g = h
  BY DEF Valid, TableInv, HandleSet
<1>4. f \in Injection(X, Y)
  <2>1. \A h \in X : h.slot \in Y
    BY DEF Writers, Valid, KindOf, ValueOf
  <2> QED
    BY <1>3, <2>1 DEF Injection, IsInjective
<1>5. f \in Surjection(X, Y)
  <2>1. ASSUME NEW s \in Y
        PROVE  \E h \in X : h.slot = s
    BY DEF Writers, Valid, KindOf, ValueOf
  <2> QED
    BY <1>4, <2>1 DEF Injection, Surjection
<1>6. IsFiniteSet(Y) /\ IsFiniteSet(Writers(b))
  BY WritersFinite, FS_Subset
<1>7. Cardinality(X) = Cardinality(Y)
  BY <1>4, <1>5, <1>6, FS_Injection
<1>8. Cardinality(Writers(b) \ Y) = Cardinality(Writers(b)) - Cardinality(Y)
  <2>1. Writers(b) \cap Y = Y
    OBVIOUS
  <2> QED
    BY <1>6, <2>1, FS_Difference
<1> QED
  BY <1>2, <1>7, <1>8

-----------------------------------------------------------------------------
(* Who owns the references.                                                 *)

LEMMA ScopedHandle ==
  ASSUME TableInv, NEW s, Scoped(s), HandleOf(s) \in issued
  PROVE  Valid(HandleOf(s)) /\ KindOf(HandleOf(s)) \in ScopeKinds /\ HandleOf(s).slot = s
BY DEF Scoped, HandleOf, Handle, Valid, KindOf

\* A new reference is given to the activation at k, or is none of a scope.
LEMMA OwnedInserted ==
  ASSUME TableInv, FreeEmpty, OwnedOnce,
         NEW value \in Values, NEW kind \in Kinds, NEW slot \in Nat, NEW k,
         insert(value, kind, slot),
         DOMAIN stack' \subseteq DOMAIN stack,
         kind \in ScopeKinds => k \in DOMAIN stack',
         \A i \in DOMAIN stack' :
           Locals(i)' = IF i = k /\ kind \in ScopeKinds
                        THEN Locals(i) \cup {Inserted(slot)} ELSE Locals(i),
         \A i \in DOMAIN stack \ DOMAIN stack' : Locals(i) = {}
  PROVE  OwnedOnce'
<1>0. /\ DOMAIN entries' = DOMAIN entries \cup {slot}
      /\ entries'[slot] = Entry(next, value, kind)
      /\ \A s \in DOMAIN entries : s # slot => entries'[s] = entries[s]
      /\ issued' = issued \cup {Inserted(slot)}
      /\ Inserted(slot) \notin issued
  BY InsertEffect
<1>1. \A i \in DOMAIN stack' : Locals(i)' \subseteq issued'
  BY <1>0 DEF OwnedOnce
<1>2. ASSUME NEW s \in DOMAIN entries', Scoped(s)'
      PROVE  \E i \in DOMAIN stack' : HandleOf(s)' \in Locals(i)'
  <2>1. CASE s = slot
    <3>1. kind \in ScopeKinds /\ HandleOf(s)' = Inserted(slot)
      BY <1>2, <2>1, <1>0 DEF Scoped, Entry, HandleOf, Inserted, Handle
    <3> QED
      BY <3>1
  <2>2. CASE s # slot
    <3>1. s \in DOMAIN entries /\ entries'[s] = entries[s]
      BY <2>2, <1>0
    <3>2. Scoped(s) /\ HandleOf(s)' = HandleOf(s)
      BY <1>2, <3>1 DEF Scoped, HandleOf, Handle
    <3> QED
      BY <3>1, <3>2 DEF OwnedOnce
  <2> QED
    BY <2>1, <2>2
<1>3. ASSUME NEW i \in DOMAIN stack', NEW j \in DOMAIN stack', Locals(i)' \cap Locals(j)' # {}
      PROVE  i = j
  <2>1. Inserted(slot) \notin Locals(i) /\ Inserted(slot) \notin Locals(j)
    BY <1>0 DEF OwnedOnce
  <2>2. CASE Locals(i) \cap Locals(j) # {}
    BY <2>2 DEF OwnedOnce
  <2>3. CASE Locals(i) \cap Locals(j) = {}
    BY <1>3, <2>1, <2>3
  <2> QED
    BY <2>2, <2>3
<1> QED
  BY <1>1, <1>2, <1>3 DEF OwnedOnce

\* References end, and with each activation that ends those that it has.
LEMMA OwnedReleased ==
  ASSUME TableInv, FreeEmpty, OwnedOnce, NEW H, release(H),
         DOMAIN stack' \subseteq DOMAIN stack,
         \A i \in DOMAIN stack' : Locals(i)' = Locals(i),
         \A i \in DOMAIN stack \ DOMAIN stack' : \A h \in Locals(i) :
           Valid(h) /\ KindOf(h) \in ScopeKinds => h \in H
  PROVE  OwnedOnce'
<1>1. \A i \in DOMAIN stack' : Locals(i)' \subseteq issued'
  BY ReleaseEffect DEF OwnedOnce
<1>2. ASSUME NEW s \in DOMAIN entries', Scoped(s)'
      PROVE  \E i \in DOMAIN stack' : HandleOf(s)' \in Locals(i)'
  <2>1. /\ s \in DOMAIN entries /\ entries'[s] = entries[s]
        /\ ~ \E h \in H : h.slot = s /\ Valid(h)
    BY <1>2, ReleaseEffect, ReleaseKeeps DEF Scoped
  <2>2. Scoped(s) /\ HandleOf(s)' = HandleOf(s)
    BY <1>2, <2>1 DEF Scoped, HandleOf, Handle
  <2>3. PICK i \in DOMAIN stack : HandleOf(s) \in Locals(i)
    BY <2>1, <2>2 DEF OwnedOnce
  <2>4. HandleOf(s) \notin H
    BY <2>1, <2>2, <2>3, ScopedHandle DEF OwnedOnce
  <2>5. i \in DOMAIN stack'
    BY <2>2, <2>3, <2>4, ScopedHandle DEF OwnedOnce
  <2> QED
    BY <2>2, <2>3, <2>5
<1> QED
  BY <1>1, <1>2 DEF OwnedOnce

\* Nothing happens to the table; an activation without handles begins or ends.
LEMMA OwnedUnchanged ==
  ASSUME OwnedOnce, UNCHANGED table,
         \A i \in DOMAIN stack \cap DOMAIN stack' : Locals(i)' = Locals(i),
         \A i \in DOMAIN stack \ DOMAIN stack' : Locals(i) = {},
         \A i \in DOMAIN stack' \ DOMAIN stack : Locals(i)' = {}
  PROVE  OwnedOnce'
<1>1. entries' = entries /\ issued' = issued
  BY DEF table
<1>2. \A s : Scoped(s)' = Scoped(s) /\ HandleOf(s)' = HandleOf(s)
  BY <1>1 DEF Scoped, HandleOf, Handle
<1> QED
  BY <1>1, <1>2 DEF OwnedOnce

-----------------------------------------------------------------------------
(* Activations begin and end.                                               *)

\* A sequence without its last element.
LEMMA Shortened ==
  ASSUME NEW S, NEW seq \in Seq(S), seq # << >>
  PROVE  /\ Len(seq) \in Nat \ {0} /\ DOMAIN seq = 1 .. Len(seq)
         /\ SubSeq(seq, 1, Len(seq) - 1) \in Seq(S)
         /\ Len(SubSeq(seq, 1, Len(seq) - 1)) = Len(seq) - 1
         /\ DOMAIN SubSeq(seq, 1, Len(seq) - 1) = 1 .. Len(seq) - 1
         /\ \A i \in 1 .. Len(seq) - 1 : SubSeq(seq, 1, Len(seq) - 1)[i] = seq[i]
<1>1. Len(seq) \in Nat \ {0} /\ DOMAIN seq = 1 .. Len(seq) /\ \A i \in 1 .. Len(seq) : seq[i] \in S
  OBVIOUS
<1> DEFINE n == Len(seq) - 1
           b == SubSeq(seq, 1, n)
<1>2. n \in Nat /\ n + 1 = Len(seq)
  BY <1>1
<1>3. \A i \in 1 .. n : seq[i] \in S
  BY <1>1, <1>2
<1> HIDE DEF n
<1>4. /\ b \in Seq(S) /\ Len(b) = IF 1 <= n THEN n - 1 + 1 ELSE 0
      /\ \A i \in 1 .. n - 1 + 1 : b[i] = seq[1 + i - 1]
  BY <1>2, <1>3, SubSeqProperties
<1>5. Len(b) = n /\ \A i \in 1 .. n : b[i] = seq[i]
  BY <1>2, <1>4
<1>6. DOMAIN b = 1 .. n
  BY <1>4, <1>5
<1> QED
  BY <1>1, <1>4, <1>5, <1>6 DEF n

LEMMA PopStack ==
  ASSUME StackOK, stack # << >>, stack' = Below, phase' = phase
  PROVE  /\ StackOK'
         /\ DOMAIN stack' \subseteq DOMAIN stack
         /\ DOMAIN stack \ DOMAIN stack' = {Len(stack)}
         /\ \A i \in DOMAIN stack' : Locals(i)' = Locals(i)
<1>1. stack \in Seq(GuestSet \cup ScopeSet)
  BY DEF StackOK
<1>2. /\ Len(stack) \in Nat \ {0} /\ DOMAIN stack = 1 .. Len(stack)
      /\ stack' \in Seq(GuestSet \cup ScopeSet)
      /\ DOMAIN stack' = 1 .. Len(stack) - 1
      /\ \A i \in 1 .. Len(stack) - 1 : stack'[i] = stack[i]
  BY <1>1, Shortened DEF Below
<1>3. /\ DOMAIN stack' \subseteq DOMAIN stack
      /\ DOMAIN stack \ DOMAIN stack' = {Len(stack)}
      /\ \A i \in DOMAIN stack' : i > 1 => i - 1 \in DOMAIN stack'
  BY <1>2
<1>4. StackOK'
  BY <1>2, <1>3 DEF StackOK
<1>5. \A i \in DOMAIN stack' : Locals(i)' = Locals(i)
  BY <1>2 DEF Locals
<1> QED
  BY <1>3, <1>4, <1>5

LEMMA PushStack ==
  ASSUME StackOK, NEW a \in GuestSet \cup ScopeSet,
         stack' = Append(stack, a), phase' \in {"Running", "Finalizing"},
         stack # << >> => (a.kind = "guest" <=> Top.kind # "guest"),
         a.kind # "guest" => a.locals = {}
  PROVE  /\ StackOK'
         /\ DOMAIN stack \subseteq DOMAIN stack'
         /\ \A i \in DOMAIN stack : Locals(i)' = Locals(i)
         /\ \A i \in DOMAIN stack' \ DOMAIN stack : Locals(i)' = {}
<1>1. stack \in Seq(GuestSet \cup ScopeSet) /\ Len(stack) \in Nat
  BY DEF StackOK
<1>2. /\ stack' \in Seq(GuestSet \cup ScopeSet)
      /\ Len(stack') = Len(stack) + 1
      /\ \A i \in 1 .. Len(stack) : stack'[i] = stack[i]
      /\ stack'[Len(stack) + 1] = a
  BY <1>1
<1>3. DOMAIN stack = 1 .. Len(stack) /\ DOMAIN stack' = 1 .. Len(stack) + 1
  BY <1>1, <1>2
<1>4. \A i \in DOMAIN stack' : i > 1 =>
        (stack'[i].kind = "guest" <=> stack'[i - 1].kind # "guest")
  <2> SUFFICES ASSUME NEW i \in DOMAIN stack', i > 1
               PROVE  stack'[i].kind = "guest" <=> stack'[i - 1].kind # "guest"
    OBVIOUS
  <2>1. CASE i = Len(stack) + 1
    <3>1. stack # << >> /\ stack'[i - 1] = Top /\ stack'[i] = a
      BY <2>1, <1>1, <1>2 DEF Top
    <3> QED
      BY <3>1
  <2>2. CASE i # Len(stack) + 1
    <3>1. i \in DOMAIN stack /\ stack'[i] = stack[i] /\ stack'[i - 1] = stack[i - 1]
      BY <2>2, <1>1, <1>2, <1>3
    <3> QED
      BY <3>1 DEF StackOK
  <2> QED
    BY <2>1, <2>2
<1>5. StackOK'
  BY <1>2, <1>4 DEF StackOK
<1>6. \A i \in DOMAIN stack' \ DOMAIN stack : i = Len(stack) + 1
  BY <1>1, <1>3
<1>7. \A i \in DOMAIN stack' \ DOMAIN stack : Locals(i)' = {}
  BY <1>2, <1>6 DEF Locals
<1>8. \A i \in DOMAIN stack : Locals(i)' = Locals(i)
  BY <1>2, <1>3 DEF Locals
<1> QED
  BY <1>1, <1>3, <1>5, <1>7, <1>8

\* The innermost of n activations, of which a replaces that at k.
Replaced(n, k, a) == [i \in 1 .. n |-> IF i = k THEN a ELSE stack[i]]

\* The activation at k is a scope that gets a local handle; guests that end are
\* above the first n.
LEMMA LocalStack ==
  ASSUME StackOK, phase' = phase, NEW n \in Nat, NEW k \in 1 .. n, NEW h \in HandleSet,
         1 .. n \subseteq DOMAIN stack,
         \A i \in DOMAIN stack : i \notin 1 .. n => stack[i].kind = "guest",
         stack[k].kind # "guest",
         NEW a \in ScopeSet, a.kind = stack[k].kind, a.locals = stack[k].locals \cup {h},
         stack' = Replaced(n, k, a)
  PROVE  /\ StackOK'
         /\ DOMAIN stack' \subseteq DOMAIN stack
         /\ k \in DOMAIN stack'
         /\ \A i \in DOMAIN stack' : Locals(i)' = IF i = k THEN Locals(i) \cup {h} ELSE Locals(i)
         /\ \A i \in DOMAIN stack \ DOMAIN stack' : Locals(i) = {}
<1>1. stack \in Seq(GuestSet \cup ScopeSet) /\ DOMAIN stack = 1 .. Len(stack)
  BY DEF StackOK
<1>2. /\ DOMAIN stack' = 1 .. n
      /\ \A i \in 1 .. n : stack'[i] = IF i = k THEN a ELSE stack[i]
  BY DEF Replaced
<1>3. stack' \in Seq(GuestSet \cup ScopeSet)
  <2>1. \A i \in DOMAIN stack : stack[i] \in GuestSet \cup ScopeSet
    BY <1>1, ElementOfSeq
  <2>2. \A i \in 1 .. n : (IF i = k THEN a ELSE stack[i]) \in GuestSet \cup ScopeSet
    BY <2>1
  <2> QED
    BY <2>2, IsASeq DEF Replaced
<1>4. \A i \in DOMAIN stack' : i > 1 =>
        (stack'[i].kind = "guest" <=> stack'[i - 1].kind # "guest")
  <2> SUFFICES ASSUME NEW i \in DOMAIN stack', i > 1
               PROVE  stack'[i].kind = "guest" <=> stack'[i - 1].kind # "guest"
    OBVIOUS
  <2>1. stack'[i].kind = stack[i].kind /\ stack'[i - 1].kind = stack[i - 1].kind
    BY <1>2
  <2> QED
    BY <2>1, <1>2 DEF StackOK
<1>5. stack # << >>
  <2>1. k \in DOMAIN stack /\ DOMAIN << >> = {}
    OBVIOUS
  <2> QED
    BY <2>1, Zenon
<1>6. StackOK'
  BY <1>3, <1>4, <1>5 DEF StackOK
<1>7. \A i \in DOMAIN stack' : Locals(i)' = IF i = k THEN Locals(i) \cup {h} ELSE Locals(i)
  BY <1>2 DEF Locals
<1>8. \A i \in DOMAIN stack \ DOMAIN stack' : Locals(i) = {}
  BY <1>2 DEF Locals
<1> QED
  BY <1>2, <1>6, <1>7, <1>8

-----------------------------------------------------------------------------
(* Deferred releases.  They are of handles that this process has made, and  *)
(* what a drain takes without an error is what it releases.                 *)

QueueOK ==
  /\ queue \in [Deferrable -> Seq(issued)]
  /\ threads \in [Threads -> [handle : issued, kind : Deferrable] \cup {None}]
  /\ accepted \subseteq issued

\* What is drained is a persistent or a foreign reference.
LEMMA ReleasedKind ==
  ASSUME QueueOK, NEW kind \in Deferrable
  PROVE  /\ Released(kind) \subseteq issued
         /\ \A h \in Released(kind) : Valid(h) /\ KindOf(h) = kind
<1> DEFINE batch == queue[kind]
           Good(i) == Valid(batch[i]) /\ KindOf(batch[i]) = kind /\ \A j \in 1 .. i - 1 : batch[j] # batch[i]
<1>1. batch \in Seq(issued) /\ DOMAIN batch = 1 .. Len(batch) /\ Len(batch) \in Nat
  BY DEF QueueOK
<1>2. ASSUME NEW h \in Released(kind)
      PROVE  h \in issued /\ Valid(h) /\ KindOf(h) = kind
  <2>1. PICK i \in DOMAIN batch : h = batch[i] /\ \A k \in 1 .. i : Good(k)
    BY <1>2 DEF Released
  <2>2. Good(i)
    BY <1>1, <2>1
  <2> QED
    BY <1>1, <2>1, <2>2
<1> QED
  BY <1>2

LEMMA DrainedKinds ==
  ASSUME QueueOK
  PROVE  /\ DrainedHandles \subseteq issued
         /\ \A h \in DrainedHandles : Valid(h) /\ KindOf(h) \in Deferrable
BY ReleasedKind DEF DrainedHandles, Deferrable

\* A batch without an error is released to the last handle.
LEMMA CompleteBatch ==
  ASSUME QueueOK, NEW kind \in Deferrable, Completes(kind), NEW i \in DOMAIN queue[kind]
  PROVE  queue[kind][i] \in Released(kind)
<1> DEFINE batch == queue[kind]
           Good(j) == Valid(batch[j]) /\ KindOf(batch[j]) = kind /\ \A l \in 1 .. j - 1 : batch[l] # batch[j]
           P == {j \in DOMAIN batch : \A l \in 1 .. j : Good(l)}
           f == [j \in P |-> batch[j]]
<1>1. batch \in Seq(issued) /\ DOMAIN batch = 1 .. Len(batch) /\ Len(batch) \in Nat
  BY DEF QueueOK
<1>2. Released(kind) = {batch[j] : j \in P}
  BY DEF Released
<1>3. IsFiniteSet(1 .. Len(batch)) /\ Cardinality(1 .. Len(batch)) = Len(batch)
  BY <1>1, FS_Interval
<1>4. IsFiniteSet(P) /\ Cardinality(P) <= Len(batch) /\ Cardinality(P) \in Nat
      /\ (Cardinality(P) = Len(batch) => P = 1 .. Len(batch))
  <2>1. P \subseteq 1 .. Len(batch)
    BY <1>1
  <2> HIDE DEF P
  <2> QED
    BY <1>3, <2>1, FS_Subset, FS_CardinalityType
<1>5. Cardinality(Released(kind)) <= Cardinality(P) /\ Cardinality(Released(kind)) \in Nat
  <2>1. f \in Surjection(P, Released(kind))
    BY <1>2 DEF Surjection
  <2> HIDE DEF f, P
  <2> QED
    BY <1>4, <2>1, FS_Surjection, FS_CardinalityType
<1>6. Cardinality(Released(kind)) = Len(batch)
  BY DEF Completes
<1>7. P = 1 .. Len(batch)
  BY <1>1, <1>4, <1>5, <1>6
<1> HIDE DEF P
<1> QED
  BY <1>1, <1>2, <1>7

\* What a step does to the deferred releases.
Drained ==
  /\ queue' = QueueAfterDrain
  /\ broken' = (broken \/ ~DrainSucceeds)
  /\ UNCHANGED <<threads, accepted>>
  /\ \/ \E H : release(H) /\ DrainedHandles \subseteq H
     \/ DrainSucceeds /\ invalidate_all

LEMMA OwnerSteps ==
  ASSUME [Next]_vars
  PROVE  \/ UNCHANGED <<queue, threads, accepted, broken>>
         \/ Drained
         \/ \E t \in Threads, h \in issued, kind \in Deferrable : QueueCheck(t, h, kind)
         \/ \E t \in Threads : QueuePush(t)
<1>1. CASE UNCHANGED vars
  BY <1>1 DEF vars
<1>2. CASE Interface
  <2>1. ASSUME NEW value, NEW slot, local(value, slot)
        PROVE  UNCHANGED <<queue, threads, accepted, broken>>
    BY <2>1 DEF local, owner
  <2>2. ASSUME NEW h, call(h)
        PROVE  UNCHANGED <<queue, threads, accepted, broken>>
    BY <2>2 DEF call, owner
  <2>3. ASSUME NEW h, NEW slot,
               \/ persist(h, slot) \/ borrow_persistent(h, slot)
               \/ create_foreign_reference(h, slot) \/ borrow_foreign_reference(h, slot)
               \/ promote_foreign_reference(h, slot)
        PROVE  UNCHANGED <<queue, threads, accepted, broken>>
    BY <2>3 DEF persist, borrow_persistent, create_foreign_reference, borrow_foreign_reference,
                promote_foreign_reference, owner
  <2>4. ASSUME NEW h, NEW slot, NEW writable, buffer_export(h, writable, slot)
        PROVE  UNCHANGED <<queue, threads, accepted, broken>>
    BY <2>4 DEF buffer_export, export_f64_buffer, ExportFails, owner
  <2>5. ASSUME NEW h,
               \/ release_persistent(h) \/ release_foreign_reference(h)
               \/ release_buffer_owner(h)
        PROVE  UNCHANGED <<queue, threads, accepted, broken>>
    BY <2>5 DEF release_persistent, release_foreign_reference, release_buffer_owner, owner
  <2> QED
    BY <1>2, <2>1, <2>2, <2>3, <2>4, <2>5, Zenon
    DEF Interface, Scalar, native_global_load, bool_from, int_from_i64, Container, tuple_new,
        Item, Attribute, call_with_keywords, call_kw, get_attr, call_c, persistent_create,
        persistent_borrow, foreign_reference_create, foreign_reference_borrow,
        persistent_release, foreign_reference_release, buffer_release
<1>3. CASE Activation
  <2>1. CASE context \/ run \/ collect
    BY <2>1 DEF context, run, collect, drain_deferred_handle_releases, Drained
  <2>2. CASE invoke_native
    <3>1. DrainedHandles \subseteq ScopeHandles \cup DrainedHandles
      OBVIOUS
    <3> QED
      BY <2>2, <3>1 DEF invoke_native, Drained
  <2>3. CASE ~(context \/ run \/ collect \/ invoke_native)
    BY <1>3, <2>3
    DEF Activation, owner, drain_foreign_finalizers, call_persistent, NativeCall, PassArgument,
        PassArgumentFails, NativeReturn, GuestReturn, GuestResult, PersistResult
  <2> QED
    BY <2>1, <2>2, <2>3
<1>4. CASE Shutdown
  <2>1. CASE begin_shutdown
    BY <2>1 DEF begin_shutdown, drain_deferred_handle_releases, Drained
  <2>2. CASE FinalizeHandles
    BY <2>2 DEF FinalizeHandles, Drained
  <2>3. CASE finalize_shutdown \/ FinalizeFails \/ complete_shutdown \/ DropVm
    BY <2>3 DEF finalize_shutdown, FinalizeFails, complete_shutdown, DropVm, owner
  <2> QED
    BY <1>4, <2>1, <2>2, <2>3 DEF Shutdown
<1>5. CASE Outside
  BY <1>5 DEF Outside, OtherRuntime, owner
<1> QED
  BY <1>1, <1>2, <1>3, <1>4, <1>5 DEF Next

\* A step makes no handle valid that was made before.
LEMMA NoRevival ==
  ASSUME TableInv, [Next]_vars, NEW h \in issued, Valid(h)'
  PROVE  h \in issued' /\ Valid(h)
<1>1. Names!Change
  BY StepAllowed DEF Allowed
<1>2. issued \subseteq issued'
  BY <1>1 DEF Names!Change
<1>3. h \in DOMAIN live'
  BY <1>2 DEF live
<1>4. h \in DOMAIN live
  BY <1>1, <1>3 DEF Names!Change
<1> QED
  BY <1>2, <1>4 DEF live

LEMMA QueueStep ==
  ASSUME TableInv, QueueOK, [Next]_vars
  PROVE  QueueOK'
<1>1. issued \subseteq issued'
  BY StepAllowed DEF Allowed, Names!Change
<1>2. Deferrable = {"Persistent", "ForeignReference"}
  BY DEF Deferrable
<1>3. CASE UNCHANGED <<queue, threads, accepted, broken>>
  <2>1. \A k \in Deferrable : queue[k] \in Seq(issued')
    BY <1>1 DEF QueueOK
  <2> QED
    BY <1>1, <1>3, <2>1 DEF QueueOK
<1>4. CASE Drained
  <2>1. \A k \in Deferrable : queue[k] \in Seq(issued') /\ << >> \in Seq(issued')
    BY <1>1 DEF QueueOK
  <2>2. queue' \in [Deferrable -> Seq(issued')]
    BY <1>2, <1>4, <2>1 DEF Drained, QueueAfterDrain, QueueOK
  <2> QED
    BY <1>1, <1>4, <2>2 DEF QueueOK, Drained
<1>5. ASSUME NEW t \in Threads, NEW h \in issued, NEW kind \in Deferrable, QueueCheck(t, h, kind)
      PROVE  QueueOK'
  <2>1. UNCHANGED <<queue, accepted, issued>>
    BY <1>5 DEF QueueCheck, table
  <2>2. threads' = [threads EXCEPT ![t] = [handle |-> h, kind |-> kind]]
    BY <1>5 DEF QueueCheck
  <2> QED
    BY <2>1, <2>2 DEF QueueOK
<1>6. ASSUME NEW t \in Threads, QueuePush(t)
      PROVE  QueueOK'
  <2>1. threads[t].handle \in issued /\ threads[t].kind \in Deferrable
    BY <1>6 DEF QueuePush, QueueOK
  <2>2. issued' = issued
    BY <1>6 DEF QueuePush, table
  <2>3. \A k \in Deferrable :
          queue[k] \in Seq(issued) /\ Append(queue[k], threads[t].handle) \in Seq(issued)
    BY <2>1 DEF QueueOK
  <2>4. queue' \in [Deferrable -> Seq(issued)]
    BY <1>6, <2>3 DEF QueuePush, QueueOK
  <2>5. threads' \in [Threads -> [handle : issued, kind : Deferrable] \cup {None}]
    BY <1>6 DEF QueuePush, QueueOK
  <2>6. accepted' \subseteq issued
    BY <1>6, <2>1 DEF QueuePush, QueueOK
  <2> QED
    BY <2>2, <2>4, <2>5, <2>6 DEF QueueOK
<1> QED
  BY <1>3, <1>4, <1>5, <1>6, OwnerSteps

LEMMA DeferredStep ==
  ASSUME TableInv, QueueOK, DeferredNotLost, [Next]_vars
  PROVE  DeferredNotLost'
<1> SUFFICES ASSUME ~broken', NEW h \in accepted', Valid(h)'
             PROVE  h \in Queued'
  BY DEF DeferredNotLost
<1>1. h \in accepted /\ ~broken => Valid(h) /\ h \in Queued
  BY NoRevival DEF DeferredNotLost, QueueOK
<1>2. CASE UNCHANGED <<queue, threads, accepted, broken>>
  BY <1>1, <1>2 DEF Queued
<1>3. CASE Drained
  <2>1. ~broken /\ DrainSucceeds /\ h \in accepted
    BY <1>3 DEF Drained
  <2>2. PICK k \in Deferrable : \E i \in DOMAIN queue[k] : h = queue[k][i]
    BY <1>1, <2>1 DEF Queued
  <2>3. h \in DrainedHandles
    <3>1. Completes("Persistent") /\ Completes("ForeignReference") /\ Completes(k)
      BY <2>1 DEF DrainSucceeds, Deferrable
    <3>2. h \in Released(k)
      BY <2>2, <3>1, CompleteBatch
    <3> QED
      BY <3>1, <3>2 DEF DrainedHandles, Deferrable
  <2>4. h \in issued /\ Valid(h) /\ h.slot \in DOMAIN entries /\ entries[h.slot] \in EntrySet
    BY <2>3, DrainedKinds DEF Valid, TableInv
  <2>5. CASE invalidate_all
    BY <2>4, <2>5 DEF invalidate_all, Valid, EntrySet
  <2>6. ASSUME NEW H, release(H), DrainedHandles \subseteq H
        PROVE  FALSE
    <3>1. entries'[h.slot] = [entries[h.slot] EXCEPT !.value = None]
      BY <2>3, <2>4, <2>6 DEF release
    <3> QED
      BY <2>4, <3>1 DEF Valid, EntrySet
  <2> QED
    BY <1>3, <2>5, <2>6 DEF Drained
<1>4. ASSUME NEW t \in Threads, NEW g \in issued, NEW kind \in Deferrable, QueueCheck(t, g, kind)
      PROVE  h \in Queued'
  BY <1>1, <1>4 DEF QueueCheck, Queued
<1>5. ASSUME NEW t \in Threads, QueuePush(t)
      PROVE  h \in Queued'
  <2> DEFINE k0 == threads[t].kind
             batch == queue[k0]
             added == Append(batch, threads[t].handle)
  <2>1. k0 \in Deferrable /\ threads[t].handle \in issued
    BY <1>5 DEF QueuePush, QueueOK
  <2>2. batch \in Seq(issued) /\ queue \in [Deferrable -> Seq(issued)]
    BY <2>1 DEF QueueOK
  <2>3. queue' = [queue EXCEPT ![k0] = added]
    BY <1>5, <2>1, <2>2 DEF QueuePush
  <2>4. /\ DOMAIN added = 1 .. Len(batch) + 1 /\ DOMAIN batch = 1 .. Len(batch)
        /\ added[Len(batch) + 1] = threads[t].handle
        /\ \A i \in DOMAIN batch : i \in DOMAIN added /\ added[i] = batch[i]
        /\ Len(batch) + 1 \in DOMAIN added
    BY <2>1, <2>2
  <2>5. queue'[k0] = added /\ \A k \in Deferrable : k # k0 => queue'[k] = queue[k]
    BY <2>1, <2>2, <2>3
  <2>6. \A k \in Deferrable : \A i \in DOMAIN queue[k] :
          i \in DOMAIN queue'[k] /\ queue'[k][i] = queue[k][i]
    BY <2>4, <2>5
  <2>7. Queued \subseteq Queued'
    BY <2>6 DEF Queued
  <2>8. threads[t].handle \in Queued'
    BY <2>1, <2>4, <2>5 DEF Queued
  <2>9. h \in accepted \/ h = threads[t].handle
    BY <1>5 DEF QueuePush
  <2>10. ~broken
    BY <1>5 DEF QueuePush
  <2> QED
    BY <1>1, <2>7, <2>8, <2>9, <2>10
<1> QED
  BY <1>2, <1>3, <1>4, <1>5, OwnerSteps

\* A release that another thread defers (RuntimeOwner::queue_persistent_release
\* and queue_foreign_reference_release) and that the runtime accepts stays queued
\* until the reference is gone, however the threads' pushes interleave with the
\* drains, as long as no drain meets a release that is not valid.
THEOREM HandlesDeferredNotLost == Spec => []DeferredNotLost
<1>1. Init => TableInv /\ QueueOK /\ DeferredNotLost
  BY DEF Init, TableInv, QueueOK, DeferredNotLost
<1>2. TableInv /\ QueueOK /\ DeferredNotLost /\ [Next]_vars
        => TableInv' /\ QueueOK' /\ DeferredNotLost'
  BY StepAllowed, QueueStep, DeferredStep DEF Allowed
<1> QED
  BY <1>1, <1>2, PTL DEF Spec

-----------------------------------------------------------------------------
(* How steps keep the scopes: a reference is made, references are released, *)
(* activations begin and end.                                               *)

Ended == {"Finalized", "Dead", "Dropped"}

LEMMA ScopeTop ==
  ASSUME StackOK, stack # << >>
  PROVE  /\ Len(stack) \in DOMAIN stack /\ Len(stack) \in Nat \ {0}
         /\ DOMAIN stack = 1 .. Len(stack)
         /\ Top \in GuestSet \cup ScopeSet
         /\ Top.kind # "guest" => Top \in ScopeSet
BY DEF StackOK, Top, GuestSet

\* A local handle or a buffer owner is made for the scope at k.
LEMMA LocalScopes ==
  ASSUME ScopesInv, NEW value \in Values, NEW kind \in ScopeKinds, NEW slot \in Nat,
         insert(value, kind, slot), kind = "WriteOwner" => value \in Buffers,
         exports' = IF kind = "WriteOwner" THEN [exports EXCEPT ![value] = @ + 1] ELSE exports,
         phase' = phase, StackOK', NEW k,
         DOMAIN stack' \subseteq DOMAIN stack, k \in DOMAIN stack',
         \A i \in DOMAIN stack' :
           Locals(i)' = IF i = k THEN Locals(i) \cup {Inserted(slot)} ELSE Locals(i),
         \A i \in DOMAIN stack \ DOMAIN stack' : Locals(i) = {}
  PROVE  ScopesInv'
<1>1. /\ TableInv /\ FreeEmpty /\ StackOK /\ OwnedOnce /\ ExportsCounted
      /\ kind \in Kinds
  BY DEF ScopesInv, ScopeKinds, Kinds
<1>2. TableInv' /\ FreeEmpty'
  BY <1>1, InsertEffect
<1>3. OwnedOnce'
  BY <1>1, OwnedInserted
<1>4. ASSUME phase' \notin Ended
      PROVE  exports' = [b \in Buffers |-> Cardinality(Writers(b)')]
  <2>1. exports = [b \in Buffers |-> Cardinality(Writers(b))]
    BY <1>1, <1>4 DEF ExportsCounted, Ended
  <2>2. \A b \in Buffers :
          /\ kind # "WriteOwner" \/ value # b => Writers(b)' = Writers(b)
          /\ kind = "WriteOwner" /\ value = b =>
               Cardinality(Writers(b)') = Cardinality(Writers(b)) + 1
    BY <1>1, WritersInserted
  <2>3. exports' = [b \in Buffers |-> IF kind = "WriteOwner" /\ value = b
                                      THEN exports[b] + 1 ELSE exports[b]]
    BY <2>1
  <2> QED
    BY <2>1, <2>2, <2>3
<1>5. ExportsCounted'
  BY <1>4 DEF ExportsCounted, Ended
<1> QED
  BY <1>2, <1>3, <1>5 DEF ScopesInv

\* A reference is made that no scope ends.
LEMMA ReferenceScopes ==
  ASSUME ScopesInv, NEW value \in Values, NEW kind \in Deferrable, NEW slot \in Nat,
         insert(value, kind, slot), exports' = exports, phase' = phase,
         stack' = stack \/ (InGuest /\ stack' = Below)
  PROVE  ScopesInv'
<1>1. /\ TableInv /\ FreeEmpty /\ StackOK /\ OwnedOnce /\ ExportsCounted
      /\ kind \in Kinds /\ kind \notin ScopeKinds
  BY DEF ScopesInv, ScopeKinds, Deferrable, Kinds
<1>2. TableInv' /\ FreeEmpty'
  BY <1>1, InsertEffect
<1>3. /\ StackOK'
      /\ DOMAIN stack' \subseteq DOMAIN stack
      /\ \A i \in DOMAIN stack' : Locals(i)' = Locals(i)
      /\ \A i \in DOMAIN stack \ DOMAIN stack' : Locals(i) = {}
  <2>1. CASE stack' = stack
    BY <1>1, <2>1 DEF StackOK, Locals
  <2>2. CASE InGuest /\ stack' = Below
    <3>1. stack # << >> /\ Top.kind = "guest"
      BY <2>2 DEF InGuest
    <3>2. Locals(Len(stack)) = {}
      BY <3>1 DEF Locals, Top
    <3> QED
      BY <1>1, <2>2, <3>1, <3>2, PopStack
  <2> QED
    BY <2>1, <2>2
<1>4. OwnedOnce'
  <2>1. \A i \in DOMAIN stack' :
          Locals(i)' = IF i = 0 /\ kind \in ScopeKinds
                       THEN Locals(i) \cup {Inserted(slot)} ELSE Locals(i)
    BY <1>1, <1>3
  <2> QED
    BY <1>1, <1>3, <2>1, OwnedInserted
<1>5. \A b \in Buffers : Writers(b)' = Writers(b)
  BY <1>1, WritersInserted DEF Deferrable
<1>6. ExportsCounted'
  BY <1>1, <1>5 DEF ExportsCounted
<1> QED
  BY <1>2, <1>3, <1>4, <1>6 DEF ScopesInv

\* References are released, those of G with their exports; a scope that ends
\* releases what it has.
LEMMA ReleaseScopes ==
  ASSUME ScopesInv, NEW H, release(H), NEW G \in SUBSET H, G \subseteq issued,
         \A h \in H : Valid(h) /\ KindOf(h) = "WriteOwner" => h \in G,
         phase' \notin Ended =>
           phase \notin Ended /\ EndExports(G),
         StackOK', DOMAIN stack' \subseteq DOMAIN stack,
         \A i \in DOMAIN stack' : Locals(i)' = Locals(i),
         \A i \in DOMAIN stack \ DOMAIN stack' : \A h \in Locals(i) :
           Valid(h) /\ KindOf(h) \in ScopeKinds => h \in H
  PROVE  ScopesInv'
<1>1. TableInv /\ FreeEmpty /\ StackOK /\ OwnedOnce /\ ExportsCounted
  BY DEF ScopesInv
<1>2. TableInv' /\ FreeEmpty'
  BY <1>1, ReleaseEffect
<1>3. OwnedOnce'
  BY <1>1, OwnedReleased
<1>4. ASSUME phase' \notin Ended
      PROVE  exports' = [b \in Buffers |-> Cardinality(Writers(b)')]
  <2>1. exports = [b \in Buffers |-> Cardinality(Writers(b))]
    BY <1>1, <1>4 DEF ExportsCounted, Ended
  <2>2. \A b \in Buffers :
          Cardinality(Writers(b)') =
            Cardinality(Writers(b))
              - Cardinality({h \in G : /\ Valid(h) /\ KindOf(h) = "WriteOwner"
                                       /\ ValueOf(h) = b})
    BY <1>1, WritersReleased
  <2> QED
    BY <1>4, <2>1, <2>2 DEF EndExports
<1>5. ExportsCounted'
  BY <1>4 DEF ExportsCounted, Ended
<1> QED
  BY <1>2, <1>3, <1>5 DEF ScopesInv

\* References are released that are none of a scope, in all.
LEMMA DrainScopes ==
  ASSUME ScopesInv, NEW H, release(H),
         \A h \in H : Valid(h) => KindOf(h) \in Deferrable,
         phase' \notin Ended => phase \notin Ended /\ exports' = exports,
         stack' = stack, StackOK'
  PROVE  ScopesInv'
<1> DEFINE G == {}
<1>1. \A b : {h \in G : Valid(h) /\ KindOf(h) = "WriteOwner" /\ ValueOf(h) = b} = {}
  OBVIOUS
<1>2. ASSUME phase' \notin Ended
      PROVE  EndExports(G)
  <2>1. exports = [b \in Buffers |-> Cardinality(Writers(b))]
    BY <1>2 DEF ExportsCounted, Ended, ScopesInv
  <2>2. \A b \in Buffers : Cardinality(Writers(b)) \in Nat
    BY WritersFinite DEF ScopesInv
  <2>3. Cardinality({}) = 0
    BY FS_EmptySet
  <2>4. \A b \in Buffers : exports[b] - 0 = exports[b]
    BY <2>1, <2>2
  <2> QED
    BY <1>1, <1>2, <2>1, <2>3, <2>4 DEF EndExports
<1>3. \A h \in H : Valid(h) /\ KindOf(h) = "WriteOwner" => h \in G
  BY DEF Deferrable
<1>4. \A i \in DOMAIN stack' : Locals(i)' = Locals(i)
  BY DEF Locals
<1>5. G \in SUBSET H /\ G \subseteq issued
  OBVIOUS
<1> HIDE DEF G
<1> QED
  BY <1>2, <1>3, <1>4, <1>5, ReleaseScopes

\* The table and the exports stay.
LEMMA StackScopes ==
  ASSUME ScopesInv, UNCHANGED table, exports' = exports,
         phase' \notin Ended => phase \notin Ended,
         StackOK',
         \A i \in DOMAIN stack \cap DOMAIN stack' : Locals(i)' = Locals(i),
         \A i \in DOMAIN stack \ DOMAIN stack' : Locals(i) = {},
         \A i \in DOMAIN stack' \ DOMAIN stack : Locals(i)' = {}
  PROVE  ScopesInv'
<1>1. OwnedOnce'
  BY OwnedUnchanged DEF ScopesInv
<1>2. TableInv' /\ FreeEmpty'
  BY DEF ScopesInv, TableInv, FreeEmpty, table
<1>3. \A b : Writers(b)' = Writers(b)
  BY DEF Writers, table
<1>4. ExportsCounted'
  BY <1>3 DEF ExportsCounted, ScopesInv, Ended
<1> QED
  BY <1>1, <1>2, <1>4 DEF ScopesInv

\* Nothing is left in the table, and nothing runs.
LEMMA EndScopes ==
  ASSUME ScopesInv, invalidate_all, phase' \in Ended, stack = << >>, stack' = << >>
  PROVE  ScopesInv'
<1>1. TableInv'
  BY InvalidateAllowed DEF Allowed, ScopesInv
<1>2. /\ DOMAIN entries' = DOMAIN entries
      /\ \A s \in DOMAIN entries : entries'[s].value = None
  <2>1. \A s \in DOMAIN entries : entries[s] \in EntrySet
    BY DEF ScopesInv, TableInv
  <2>2. entries' = [s \in DOMAIN entries |-> [entries[s] EXCEPT !.value = None]]
    BY DEF invalidate_all
  <2> QED
    BY <2>1, <2>2 DEF EntrySet
<1>3. FreeEmpty'
  BY <1>1, <1>2 DEF FreeEmpty, TableInv
<1>4. OwnedOnce'
  BY <1>2 DEF OwnedOnce, Scoped
<1>5. StackOK'
  BY DEF StackOK, Ended
<1>6. ExportsCounted'
  BY DEF ExportsCounted, Ended
<1> QED
  BY <1>1, <1>3, <1>4, <1>5, <1>6 DEF ScopesInv

-----------------------------------------------------------------------------
(* The operations of a scope.                                               *)

LEMMA InNativeTop ==
  ASSUME StackOK, stack # << >>, Top.kind # "guest"
  PROVE  /\ Top \in ScopeSet /\ Len(stack) \in DOMAIN stack /\ Top = stack[Len(stack)]
         /\ Locals(Len(stack)) = Top.locals
BY ScopeTop DEF Locals, Top

LEMMA WithLocalScopes ==
  ASSUME ScopesInv, InNative, NEW value \in Values, NEW kind \in ScopeKinds, NEW slot \in Nat,
         insert(value, kind, slot), kind = "WriteOwner" => value \in Buffers,
         exports' = IF kind = "WriteOwner" THEN [exports EXCEPT ![value] = @ + 1] ELSE exports,
         phase' = phase, stack' = WithLocal(Inserted(slot))
  PROVE  ScopesInv'
<1> DEFINE k == Len(stack)
           a == [stack[k] EXCEPT !.locals = @ \cup {Inserted(slot)}]
<1>1. StackOK /\ TableInv /\ FreeEmpty /\ kind \in Kinds /\ stack # << >> /\ Top.kind # "guest"
  BY DEF ScopesInv, InNative, ScopeKinds, Kinds
<1>2. /\ stack[k] \in ScopeSet /\ k \in DOMAIN stack /\ k \in Nat \ {0}
      /\ DOMAIN stack = 1 .. k /\ stack[k].kind # "guest"
  BY <1>1, ScopeTop DEF Top
<1>3. Inserted(slot) \in HandleSet
  BY <1>1, InsertEffect
<1>4. a \in ScopeSet /\ a.kind = stack[k].kind /\ a.locals = stack[k].locals \cup {Inserted(slot)}
  BY <1>2, <1>3 DEF ScopeSet
<1>5. stack' = Replaced(k, k, a)
  BY <1>2 DEF Replaced, WithLocal
<1> HIDE DEF a, k
<1>6. /\ k \in 1 .. k /\ 1 .. k \subseteq DOMAIN stack
      /\ \A i \in DOMAIN stack : i \notin 1 .. k => stack[i].kind = "guest"
  BY <1>2
<1>7. /\ StackOK' /\ DOMAIN stack' \subseteq DOMAIN stack /\ k \in DOMAIN stack'
      /\ \A i \in DOMAIN stack' :
           Locals(i)' = IF i = k THEN Locals(i) \cup {Inserted(slot)} ELSE Locals(i)
      /\ \A i \in DOMAIN stack \ DOMAIN stack' : Locals(i) = {}
  BY <1>1, <1>2, <1>3, <1>4, <1>5, <1>6, LocalStack
<1> QED
  BY <1>7, LocalScopes

\* A guest is called, by native code or by the host.
LEMMA PushScopes ==
  ASSUME ScopesInv, UNCHANGED <<table, exports>>, phase' = phase,
         stack # << >>, NEW a \in GuestSet \cup ScopeSet, stack' = Append(stack, a),
         a.kind = "guest" <=> Top.kind # "guest",
         a.kind # "guest" => a.locals = {}
  PROVE  ScopesInv'
<1>1. StackOK /\ phase' \in {"Running", "Finalizing"}
  BY DEF ScopesInv, StackOK
<1>2. /\ StackOK' /\ DOMAIN stack \subseteq DOMAIN stack'
      /\ \A i \in DOMAIN stack : Locals(i)' = Locals(i)
      /\ \A i \in DOMAIN stack' \ DOMAIN stack : Locals(i)' = {}
  BY <1>1, PushStack
<1> QED
  BY <1>1, <1>2, StackScopes

LEMMA UnchangedScopes ==
  ASSUME ScopesInv, UNCHANGED <<table, stack, exports>>,
         phase' = phase \/ (stack = << >> /\ (phase \in Ended => phase' \in Ended))
  PROVE  ScopesInv'
<1>1. StackOK'
  BY DEF ScopesInv, StackOK
<1>2. \A i : Locals(i)' = Locals(i)
  BY DEF Locals
<1> QED
  BY <1>1, <1>2, StackScopes

LEMMA GuestSetMember == \A persists \in BOOLEAN :
  Guest(persists) \in GuestSet /\ Guest(persists).kind = "guest"
BY DEF Guest, GuestSet

LEMMA CallScopes ==
  ASSUME ScopesInv, NEW h, call(h)
  PROVE  ScopesInv'
<1>1. /\ stack # << >> /\ Top.kind # "guest" /\ stack' = Append(stack, Guest(FALSE))
      /\ UNCHANGED <<table, exports>> /\ phase' = phase
  BY DEF call, InNative
<1> QED
  BY <1>1, GuestSetMember, PushScopes

LEMMA MakeScopes ==
  ASSUME ScopesInv, NEW slot \in Nat, NEW h,
         \/ \E value \in Values : local(value, slot)
         \/ borrow_persistent(h, slot) \/ borrow_foreign_reference(h, slot)
  PROVE  ScopesInv'
<1>1. PICK value \in Values :
        /\ InNative /\ insert(value, "Local", slot) /\ stack' = WithLocal(Inserted(slot))
        /\ exports' = exports /\ phase' = phase
  <2>1. Valid(h) => ValueOf(h) \in Values
    BY ValidReference DEF ScopesInv
  <2> QED
    BY <2>1 DEF local, borrow_persistent, borrow_foreign_reference, Resolves,
                resolve_foreign_reference
<1>2. "Local" \in ScopeKinds
  BY DEF ScopeKinds
<1> QED
  BY <1>1, <1>2, WithLocalScopes

LEMMA PersistScopes ==
  ASSUME ScopesInv, NEW slot \in Nat, NEW h,
         \/ persist(h, slot) \/ create_foreign_reference(h, slot)
         \/ promote_foreign_reference(h, slot)
  PROVE  ScopesInv'
<1>1. Valid(h) => ValueOf(h) \in Values
  BY ValidReference DEF ScopesInv
<1>2. PICK value \in Values, kind \in Deferrable :
        insert(value, kind, slot) /\ exports' = exports /\ phase' = phase /\ stack' = stack
  BY <1>1 DEF persist, create_foreign_reference, promote_foreign_reference, Resolves,
              resolve_foreign_reference, Deferrable
<1> QED
  BY <1>2, ReferenceScopes

LEMMA ReleaseReferenceScopes ==
  ASSUME ScopesInv, NEW h,
         release_persistent(h) \/ release_foreign_reference(h) \/ drain_foreign_finalizers(h)
  PROVE  ScopesInv'
<1>1. /\ release({h}) /\ KindOf(h) \in Deferrable
      /\ stack' = stack /\ exports' = exports /\ phase' = phase
  BY DEF release_persistent, release_foreign_reference, drain_foreign_finalizers,
         resolve_persistent, resolve_foreign_reference, Deferrable
<1>2. StackOK'
  BY <1>1 DEF ScopesInv, StackOK
<1> QED
  BY <1>1, <1>2, DrainScopes

LEMMA BufferScopes ==
  ASSUME ScopesInv, NEW h \in issued, release_buffer_owner(h)
  PROVE  ScopesInv'
<1> DEFINE H == {h}
<1>1. release(H) /\ EndExports(H) /\ stack' = stack /\ phase' = phase /\ stack # << >>
  BY DEF release_buffer_owner, InNative
<1>2. StackOK' /\ phase \notin Ended
  BY <1>1 DEF ScopesInv, StackOK, Ended
<1>3. \A i : Locals(i)' = Locals(i)
  BY <1>1 DEF Locals
<1>4. \A g \in H : g \in H
  OBVIOUS
<1>5. H \in SUBSET H /\ H \subseteq issued
  OBVIOUS
<1> HIDE DEF H
<1> QED
  BY <1>1, <1>2, <1>3, <1>4, <1>5, ReleaseScopes

LEMMA ExportScopes ==
  ASSUME ScopesInv, NEW h, NEW writable \in BOOLEAN, NEW slot \in Nat,
         export_f64_buffer(h, writable, slot)
  PROVE  ScopesInv'
<1> DEFINE kind == IF writable THEN "WriteOwner" ELSE "ReadOwner"
<1>1. ValueOf(h) \in Buffers /\ ValueOf(h) \in Values
  BY HandlesAssumption DEF export_f64_buffer
<1>2. kind \in ScopeKinds /\ (kind = "WriteOwner" <=> writable)
  BY DEF ScopeKinds
<1>3. /\ InNative /\ insert(ValueOf(h), kind, slot) /\ stack' = WithLocal(Inserted(slot))
      /\ phase' = phase
      /\ exports' = IF writable THEN [exports EXCEPT ![ValueOf(h)] = @ + 1] ELSE exports
  BY DEF export_f64_buffer
<1> HIDE DEF kind
<1>4. exports' = IF kind = "WriteOwner" THEN [exports EXCEPT ![ValueOf(h)] = @ + 1] ELSE exports
  BY <1>2, <1>3
<1> QED
  BY <1>1, <1>2, <1>3, <1>4, WithLocalScopes

\* An export that fails leaves a slot without a value.
LEMMA ExportFailsScopes ==
  ASSUME ScopesInv, NEW h, NEW slot \in Nat, ExportFails(h, slot)
  PROVE  ScopesInv'
<1> DEFINE e == Entry(next, None, "WriteOwner")
<1>1. TableInv /\ FreeEmpty /\ StackOK /\ OwnedOnce /\ ExportsCounted
  BY DEF ScopesInv
<1>2. e \in EntrySet /\ e.token = next /\ e.value = None
  BY <1>1 DEF Entry, EntrySet, TableInv, Kinds
<1>3. /\ slot \in IF free # {} THEN free ELSE {Len(entries) + 1}
      /\ entries' = IF slot \in DOMAIN entries THEN [entries EXCEPT ![slot] = e]
                                               ELSE Append(entries, e)
      /\ free' = free \cup {slot} /\ next' = next + 1
      /\ issued' = issued \cup {Handle(next, slot)}
      /\ UNCHANGED <<stack, exports, phase>>
  BY DEF ExportFails
<1> HIDE DEF e
<1>4. TableInv'
  BY <1>1, <1>2, <1>3, FilledAllowed DEF Allowed
<1>5. /\ DOMAIN entries' = DOMAIN entries \cup {slot}
      /\ entries'[slot] = e
      /\ \A s \in DOMAIN entries : s # slot => entries'[s] = entries[s]
  <2>1. CASE slot \in DOMAIN entries
    BY <1>1, <1>3, <2>1 DEF TableInv
  <2>2. CASE slot \notin DOMAIN entries
    <3>1. slot = Len(entries) + 1
      BY <1>1, <1>3, <2>2 DEF TableInv
    <3> QED
      BY <1>1, <1>3, <2>2, <3>1 DEF TableInv
  <2> QED
    BY <2>1, <2>2
<1>6. slot \in DOMAIN entries => entries[slot].value = None
  BY <1>1, <1>3 DEF FreeEmpty, TableInv
<1>7. FreeEmpty'
  BY <1>1, <1>2, <1>3, <1>5 DEF FreeEmpty, TableInv
<1>8. StackOK' /\ \A i : Locals(i)' = Locals(i)
  BY <1>1, <1>3 DEF StackOK, Locals
<1>9. \A s : Scoped(s)' => Scoped(s) /\ HandleOf(s)' = HandleOf(s)
  BY <1>2, <1>5 DEF Scoped, HandleOf, Handle
<1>10. OwnedOnce'
  <2>1. \A i \in DOMAIN stack' : Locals(i)' \subseteq issued'
    BY <1>1, <1>3, <1>8 DEF OwnedOnce
  <2>2. \A s \in DOMAIN entries' : Scoped(s)' => s \in DOMAIN entries
    BY <1>9 DEF Scoped
  <2> QED
    BY <1>1, <1>3, <1>8, <1>9, <2>1, <2>2 DEF OwnedOnce
<1>11. \A b \in Buffers : Writers(b)' = Writers(b)
  <2>1. \A b \in Buffers : b # None
    BY HandlesAssumption
  <2> QED
    BY <1>2, <1>5, <1>6, <2>1 DEF Writers
<1>12. ExportsCounted'
  BY <1>1, <1>3, <1>11 DEF ExportsCounted
<1> QED
  BY <1>4, <1>7, <1>8, <1>10, <1>12 DEF ScopesInv

LEMMA InterfaceScopes ==
  ASSUME ScopesInv, Interface
  PROVE  ScopesInv'
<1>1. ASSUME NEW value \in Values, NEW slot \in Slots,
             \/ Scalar(value, slot) \/ native_global_load(value, slot)
             \/ bool_from(value, slot) \/ int_from_i64(value, slot)
      PROVE  ScopesInv'
  BY <1>1, SlotsNat, MakeScopes DEF Scalar, native_global_load, bool_from, int_from_i64
<1>2. ASSUME NEW h \in issued, NEW value \in Values, NEW slot \in Slots,
             Container(h, value, slot) \/ tuple_new(h, value, slot)
      PROVE  ScopesInv'
  BY <1>2, SlotsNat, MakeScopes DEF Container, tuple_new
<1>3. ASSUME NEW h \in issued,
             \/ Item(h) \/ Attribute(h) \/ call_with_keywords(h)
             \/ call_kw(h) \/ get_attr(h) \/ call_c(h)
      PROVE  ScopesInv'
  BY <1>3, CallScopes DEF Item, Attribute, call_with_keywords, call_kw, get_attr, call_c
<1>4. ASSUME NEW h \in issued, NEW slot \in Slots,
             \/ rust /\ persist(h, slot)
             \/ rust /\ borrow_persistent(h, slot)
             \/ persistent_create(h, slot) \/ persistent_borrow(h, slot)
             \/ foreign_reference_create(h, slot) \/ foreign_reference_borrow(h, slot)
             \/ promote_foreign_reference(h, slot)
             \/ \E writable \in BOOLEAN : buffer_export(h, writable, slot)
      PROVE  ScopesInv'
  <2>1. CASE \/ rust /\ borrow_persistent(h, slot)
             \/ persistent_borrow(h, slot) \/ foreign_reference_borrow(h, slot)
    BY <2>1, SlotsNat, MakeScopes DEF persistent_borrow, foreign_reference_borrow
  <2>2. CASE \/ rust /\ persist(h, slot)
             \/ persistent_create(h, slot) \/ foreign_reference_create(h, slot)
             \/ promote_foreign_reference(h, slot)
    BY <2>2, SlotsNat, PersistScopes DEF persistent_create, foreign_reference_create
  <2>3. CASE \E writable \in BOOLEAN : buffer_export(h, writable, slot)
    BY <2>3, SlotsNat, ExportScopes, ExportFailsScopes DEF buffer_export
  <2> QED
    BY <1>4, <2>1, <2>2, <2>3
<1>5. ASSUME NEW h \in issued,
             \/ rust /\ release_persistent(h)
             \/ persistent_release(h) \/ foreign_reference_release(h) \/ buffer_release(h)
      PROVE  ScopesInv'
  BY <1>5, ReleaseReferenceScopes, BufferScopes
  DEF persistent_release, foreign_reference_release, buffer_release
<1> QED
  BY <1>1, <1>2, <1>3, <1>4, <1>5 DEF Interface

-----------------------------------------------------------------------------
(* Activations, and the end of the runtime.                                 *)

\* The host drains, and may enter.
LEMMA HostScopes ==
  ASSUME ScopesInv, QueueOK, drain_deferred_handle_releases, exports' = exports,
         phase' \notin Ended => phase \notin Ended,
         stack = << >>, NEW a \in GuestSet \cup ScopeSet,
         a.kind # "guest" => a.locals = {},
         stack' = stack \/ (stack' = <<a>> /\ phase' = "Running")
  PROVE  ScopesInv'
<1>1. release(DrainedHandles) /\ \A h \in DrainedHandles : Valid(h) => KindOf(h) \in Deferrable
  BY DrainedKinds DEF drain_deferred_handle_releases
<1>2. StackOK'
  <2>1. CASE stack' = stack
    BY <2>1 DEF StackOK
  <2>2. CASE stack' = <<a>> /\ phase' = "Running"
    BY <2>2 DEF StackOK
  <2> QED
    BY <2>1, <2>2
<1>3. CASE stack' = stack
  BY <1>1, <1>2, <1>3, DrainScopes
<1>4. CASE stack' # stack
  <2>1. stack' = <<a>> /\ DOMAIN stack' = {1} /\ stack'[1] = a
    BY <1>4
  <2>2. Locals(1)' = {}
    BY <2>1 DEF Locals
  <2>3. OwnedOnce /\ TableInv /\ FreeEmpty /\ DOMAIN stack = {}
    BY DEF ScopesInv
  <2>4. \A s \in DOMAIN entries : ~ Scoped(s)
    BY <2>3 DEF OwnedOnce
  <2>5. /\ TableInv' /\ FreeEmpty' /\ issued' = issued
        /\ \A s \in DOMAIN entries' : Scoped(s)' => s \in DOMAIN entries /\ Scoped(s)
    BY <1>1, <2>3, ReleaseEffect, ReleaseKeeps DEF Scoped
  <2>6. OwnedOnce'
    BY <2>1, <2>2, <2>4, <2>5 DEF OwnedOnce
  <2>7. \A b \in Buffers : Writers(b) = {} /\ Writers(b)' = {}
    <3> SUFFICES ASSUME NEW b \in Buffers PROVE Writers(b) = {} /\ Writers(b)' = {}
      OBVIOUS
    <3>1. b # None
      BY HandlesAssumption
    <3>2. \A s \in DOMAIN entries' : ~ Scoped(s)'
      BY <2>4, <2>5
    <3> QED
      BY <2>4, <3>1, <3>2 DEF Writers, Scoped, ScopeKinds
  <2>8. ExportsCounted'
    BY <2>7 DEF ExportsCounted, Ended, ScopesInv
  <2> QED
    BY <1>2, <2>5, <2>6, <2>8 DEF ScopesInv
<1> QED
  BY <1>3, <1>4

\* A scope ends with what it has, and a drain may come with it.
LEMMA DropScopes ==
  ASSUME ScopesInv, NEW H, ScopeHandles \subseteq H, release(H),
         \A h \in H \ ScopeHandles : Valid(h) => KindOf(h) \in Deferrable,
         EndExports(ScopeHandles), stack # << >>, Top.kind # "guest",
         stack' = Below, phase' = phase
  PROVE  ScopesInv'
<1>1. StackOK /\ OwnedOnce
  BY DEF ScopesInv
<1>2. /\ StackOK' /\ DOMAIN stack' \subseteq DOMAIN stack
      /\ DOMAIN stack \ DOMAIN stack' = {Len(stack)}
      /\ \A i \in DOMAIN stack' : Locals(i)' = Locals(i)
  BY <1>1, PopStack
<1>3. Locals(Len(stack)) = Top.locals /\ Top.locals \subseteq issued
  BY <1>1, InNativeTop DEF OwnedOnce
<1>4. \A h \in Locals(Len(stack)) : Valid(h) /\ KindOf(h) \in ScopeKinds => h \in H
  BY <1>3 DEF ScopeHandles, ScopeKinds
<1>5. ScopeHandles \subseteq issued
  BY <1>3 DEF ScopeHandles
<1>6. \A h \in H : Valid(h) /\ KindOf(h) = "WriteOwner" => h \in ScopeHandles
  BY DEF Deferrable
<1>7. phase \notin Ended
  BY <1>1 DEF StackOK, Ended
<1>8. ScopeHandles \in SUBSET H
  OBVIOUS
<1> QED
  BY <1>2, <1>4, <1>5, <1>6, <1>7, <1>8, ReleaseScopes

LEMMA ReturnScopes ==
  ASSUME ScopesInv, QueueOK, PassArgumentFails \/ NativeReturn \/ invoke_native
  PROVE  ScopesInv'
<1>1. CASE PassArgumentFails \/ NativeReturn
  BY <1>1, DropScopes DEF PassArgumentFails, NativeReturn, DropScope, InNative
<1>2. CASE invoke_native
  <2>1. \A h \in DrainedHandles : KindOf(h) \in Deferrable
    BY DrainedKinds
  <2> QED
    BY <1>2, <2>1, DropScopes DEF invoke_native, InNative
<1> QED
  BY <1>1, <1>2

LEMMA NativeCallScopes ==
  ASSUME ScopesInv, NEW interface \in {"rust", "c"}, NEW n \in 0 .. MaxArguments,
         NativeCall(interface, n)
  PROVE  ScopesInv'
<1>1. /\ stack # << >> /\ Top.kind = "guest" /\ stack' = Append(stack, Scope(interface, n))
      /\ UNCHANGED <<table, exports>> /\ phase' = phase
  BY DEF NativeCall, InGuest
<1>2. /\ Scope(interface, n) \in ScopeSet /\ Scope(interface, n).kind # "guest"
      /\ Scope(interface, n).locals = {}
  BY DEF Scope, ScopeSet
<1> QED
  BY <1>1, <1>2, PushScopes

LEMMA ArgumentScopes ==
  ASSUME ScopesInv, NEW value \in Values, NEW slot \in Nat, PassArgument(value, slot)
  PROVE  ScopesInv'
<1> DEFINE k == Len(stack)
           a == [stack[k] EXCEPT !.locals = @ \cup {Inserted(slot)}, !.entering = @ - 1]
<1>1. /\ StackOK /\ TableInv /\ FreeEmpty /\ stack # << >> /\ Top.kind # "guest"
      /\ Top.entering > 0 /\ insert(value, "Local", slot) /\ exports' = exports /\ phase' = phase
  BY DEF ScopesInv, PassArgument
<1>2. /\ stack[k] \in ScopeSet /\ k \in DOMAIN stack /\ k \in Nat \ {0}
      /\ DOMAIN stack = 1 .. k /\ stack[k].kind # "guest"
  BY <1>1, ScopeTop DEF Top
<1>3. Inserted(slot) \in HandleSet /\ "Local" \in ScopeKinds
  BY <1>1, InsertEffect DEF Kinds, ScopeKinds
<1>4. a \in ScopeSet /\ a.kind = stack[k].kind /\ a.locals = stack[k].locals \cup {Inserted(slot)}
  <2>1. stack[k].entering \in Nat /\ stack[k].entering > 0
    BY <1>1, <1>2 DEF ScopeSet, Top
  <2>2. stack[k].entering - 1 \in Nat
    BY <2>1
  <2> QED
    BY <1>2, <1>3, <2>2 DEF ScopeSet
<1>5. stack' = Replaced(k, k, a)
  BY <1>2 DEF Replaced, PassArgument
<1> HIDE DEF a, k
<1>6. /\ k \in 1 .. k /\ 1 .. k \subseteq DOMAIN stack
      /\ \A i \in DOMAIN stack : i \notin 1 .. k => stack[i].kind = "guest"
  BY <1>2
<1>7. /\ StackOK' /\ DOMAIN stack' \subseteq DOMAIN stack /\ k \in DOMAIN stack'
      /\ \A i \in DOMAIN stack' :
           Locals(i)' = IF i = k THEN Locals(i) \cup {Inserted(slot)} ELSE Locals(i)
      /\ \A i \in DOMAIN stack \ DOMAIN stack' : Locals(i) = {}
  BY <1>1, <1>2, <1>3, <1>4, <1>5, <1>6, LocalStack
<1> QED
  BY <1>1, <1>3, <1>7, LocalScopes

\* What is below a guest is a scope of native code.
LEMMA ResultScopes ==
  ASSUME ScopesInv, NEW value \in Values, NEW slot \in Nat, GuestResult(value, slot)
  PROVE  ScopesInv'
<1>1. /\ StackOK /\ TableInv /\ FreeEmpty /\ stack # << >> /\ Top.kind = "guest" /\ Len(stack) > 1
      /\ insert(value, "Local", slot) /\ exports' = exports /\ phase' = phase
  BY DEF ScopesInv, GuestResult, InGuest
<1>2. PICK k \in Nat \ {0} : Len(stack) = k + 1 /\ Len(stack) - 1 = k
  <2>1. \A m \in Nat : m > 1 => m - 1 \in Nat \ {0} /\ m = m - 1 + 1
    OBVIOUS
  <2> QED
    BY <1>1, <2>1, ScopeTop
<1> DEFINE a == [stack[k] EXCEPT !.locals = @ \cup {Inserted(slot)}]
<1>3. /\ DOMAIN stack = 1 .. k + 1 /\ k \in DOMAIN stack /\ k + 1 \in DOMAIN stack
      /\ stack[k + 1].kind = "guest"
  BY <1>1, <1>2, ScopeTop DEF Top
<1>4. stack[k].kind # "guest" /\ stack[k] \in ScopeSet
  <2>1. stack[k] \in GuestSet \cup ScopeSet
    BY <1>1, <1>2, <1>3, ElementOfSeq DEF StackOK
  <2>2. k + 1 > 1 /\ k + 1 - 1 = k
    OBVIOUS
  <2>3. stack[k].kind # "guest"
    BY <1>1, <1>3, <2>2 DEF StackOK
  <2> QED
    BY <2>1, <2>3 DEF GuestSet
<1>5. Inserted(slot) \in HandleSet /\ "Local" \in ScopeKinds
  BY <1>1, InsertEffect DEF Kinds, ScopeKinds
<1>6. a \in ScopeSet /\ a.kind = stack[k].kind /\ a.locals = stack[k].locals \cup {Inserted(slot)}
  BY <1>4, <1>5 DEF ScopeSet
<1>7. stack' = Replaced(k, k, a)
  <2>1. Below = [i \in 1 .. k |-> stack[i]]
    <3>1. Below \in Seq(GuestSet \cup ScopeSet) /\ DOMAIN Below = 1 .. k
          /\ \A i \in 1 .. k : Below[i] = stack[i]
      BY <1>1, <1>2, Shortened DEF Below, StackOK
    <3> QED
      BY <3>1
  <2>2. stack' = [Below EXCEPT ![k].locals = @ \cup {Inserted(slot)}]
    BY <1>2 DEF GuestResult
  <2> QED
    BY <2>1, <2>2 DEF Replaced
<1> HIDE DEF a
<1>8. /\ k \in 1 .. k /\ 1 .. k \subseteq DOMAIN stack
      /\ \A i \in DOMAIN stack : i \notin 1 .. k => stack[i].kind = "guest"
  <2>1. \A i \in 1 .. k + 1 : i \notin 1 .. k => i = k + 1
    OBVIOUS
  <2>2. k \in 1 .. k /\ 1 .. k \subseteq 1 .. k + 1
    OBVIOUS
  <2> QED
    BY <1>3, <2>1, <2>2, Zenon
<1>9. /\ StackOK' /\ DOMAIN stack' \subseteq DOMAIN stack /\ k \in DOMAIN stack'
      /\ \A i \in DOMAIN stack' :
           Locals(i)' = IF i = k THEN Locals(i) \cup {Inserted(slot)} ELSE Locals(i)
      /\ \A i \in DOMAIN stack \ DOMAIN stack' : Locals(i) = {}
  BY <1>1, <1>4, <1>5, <1>6, <1>7, <1>8, LocalStack
<1> QED
  BY <1>1, <1>5, <1>9, LocalScopes

LEMMA GuestEndScopes ==
  ASSUME ScopesInv, GuestReturn
  PROVE  ScopesInv'
<1>1. /\ stack # << >> /\ Top.kind = "guest" /\ stack' = Below
      /\ UNCHANGED <<table, exports>> /\ phase' = phase
  BY DEF GuestReturn, InGuest
<1>2. StackOK /\ Locals(Len(stack)) = {}
  BY <1>1 DEF ScopesInv, Locals, Top
<1>3. /\ StackOK' /\ DOMAIN stack' \subseteq DOMAIN stack
      /\ DOMAIN stack \ DOMAIN stack' = {Len(stack)}
      /\ \A i \in DOMAIN stack' : Locals(i)' = Locals(i)
  BY <1>1, <1>2, PopStack
<1> QED
  BY <1>1, <1>2, <1>3, StackScopes

\* Guest code begins where nothing runs.
LEMMA EnterScopes ==
  ASSUME ScopesInv, UNCHANGED <<table, exports>>, stack = << >>,
         NEW persists \in BOOLEAN, stack' = <<Guest(persists)>>,
         phase' \in {"Running", "Finalizing"}, phase \notin Ended
  PROVE  ScopesInv'
<1>1. stack' = Append(stack, Guest(persists)) /\ StackOK
  BY DEF ScopesInv
<1>2. /\ StackOK' /\ DOMAIN stack \subseteq DOMAIN stack'
      /\ \A i \in DOMAIN stack : Locals(i)' = Locals(i)
      /\ \A i \in DOMAIN stack' \ DOMAIN stack : Locals(i)' = {}
  BY <1>1, GuestSetMember, PushStack
<1> QED
  BY <1>2, StackScopes

LEMMA ActivationScopes ==
  ASSUME ScopesInv, QueueOK, Activation
  PROVE  ScopesInv'
<1>1. CASE context
  <2>1. Scope("host", 0) \in ScopeSet /\ Scope("host", 0).locals = {}
    BY DEF Scope, ScopeSet
  <2>2. /\ drain_deferred_handle_releases /\ exports' = exports /\ stack = << >>
        /\ phase' = phase /\ phase = "Running"
        /\ stack' = stack \/ stack' = <<Scope("host", 0)>>
    BY <1>1 DEF context
  <2> QED
    BY <2>1, <2>2, HostScopes
<1>2. CASE run
  <2>1. /\ drain_deferred_handle_releases /\ exports' = exports /\ stack = << >>
        /\ phase' = phase /\ phase = "Running"
        /\ stack' = stack \/ stack' = <<Guest(FALSE)>>
    BY <1>2 DEF run
  <2> QED
    BY <2>1, GuestSetMember, HostScopes
<1>3. CASE collect
  <2>1. /\ release(DrainedHandles) /\ exports' = exports /\ phase' = phase /\ stack' = stack
    BY <1>3 DEF collect, drain_deferred_handle_releases
  <2>2. StackOK'
    BY <2>1 DEF ScopesInv, StackOK
  <2> QED
    BY <2>1, <2>2, DrainedKinds, DrainScopes
<1>4. ASSUME NEW h \in issued, drain_foreign_finalizers(h)
      PROVE  ScopesInv'
  BY <1>4, ReleaseReferenceScopes
<1>5. ASSUME NEW h \in issued, call_persistent(h)
      PROVE  ScopesInv'
  BY <1>5, EnterScopes DEF call_persistent, Ended
<1>6. ASSUME NEW interface \in {"rust", "c"}, NEW n \in 0 .. MaxArguments,
             NativeCall(interface, n)
      PROVE  ScopesInv'
  BY <1>6, NativeCallScopes
<1>7. ASSUME NEW value \in Values, NEW slot \in Slots,
             PassArgument(value, slot) \/ GuestResult(value, slot)
      PROVE  ScopesInv'
  BY <1>7, SlotsNat, ArgumentScopes, ResultScopes
<1>8. ASSUME NEW value \in Values, NEW slot \in Slots, PersistResult(value, slot)
      PROVE  ScopesInv'
  <2>1. /\ insert(value, "Persistent", slot) /\ exports' = exports /\ phase' = phase
        /\ InGuest /\ stack' = Below
    BY <1>8 DEF PersistResult
  <2>2. "Persistent" \in Deferrable
    BY DEF Deferrable
  <2> QED
    BY <2>1, <2>2, SlotsNat, ReferenceScopes
<1>9. CASE PassArgumentFails \/ NativeReturn \/ invoke_native
  BY <1>9, ReturnScopes
<1>10. CASE GuestReturn
  BY <1>10, GuestEndScopes
<1> QED
  BY <1>1, <1>2, <1>3, <1>4, <1>5, <1>6, <1>7, <1>8, <1>9, <1>10 DEF Activation

LEMMA ShutdownScopes ==
  ASSUME ScopesInv, QueueOK, Shutdown
  PROVE  ScopesInv'
<1>1. CASE begin_shutdown
  <2>1. /\ drain_deferred_handle_releases /\ exports' = exports /\ stack = << >>
        /\ phase = "Running" /\ stack' = stack
    BY <1>1 DEF begin_shutdown
  <2>2. phase \notin Ended
    BY <2>1 DEF Ended
  <2> QED
    BY <2>1, <2>2, GuestSetMember, HostScopes
<1>2. CASE finalize_shutdown
  <2>1. /\ UNCHANGED <<table, exports>> /\ phase = "ShuttingDown" /\ phase' = "Finalizing"
        /\ stack' = <<Guest(FALSE)>>
    BY <1>2 DEF finalize_shutdown
  <2>2. stack = << >>
    BY <2>1 DEF ScopesInv, StackOK
  <2> QED
    BY <2>1, <2>2, EnterScopes DEF Ended
<1>3. CASE FinalizeHandles
  <2>1. /\ stack = << >> /\ stack' = stack /\ phase' \in Ended
        /\ invalidate_all \/ release(DrainedHandles)
    BY <1>3 DEF FinalizeHandles, Ended
  <2>2. CASE invalidate_all
    BY <2>1, <2>2, EndScopes
  <2>3. CASE release(DrainedHandles)
    <3>1. StackOK'
      BY <2>1 DEF ScopesInv, StackOK
    <3> QED
      BY <2>1, <2>3, <3>1, DrainedKinds, DrainScopes
  <2> QED
    BY <2>1, <2>2, <2>3
<1>4. CASE FinalizeFails
  BY <1>4, UnchangedScopes DEF FinalizeFails, Ended
<1>5. CASE complete_shutdown
  <2>1. phase = "Finalized" /\ phase' = "Dead" /\ UNCHANGED <<table, stack, exports>>
    BY <1>5 DEF complete_shutdown
  <2>2. stack = << >>
    BY <2>1 DEF ScopesInv, StackOK
  <2> QED
    BY <2>1, <2>2, UnchangedScopes DEF Ended
<1>6. CASE DropVm
  BY <1>6, EndScopes DEF DropVm, Ended
<1> QED
  BY <1>1, <1>2, <1>3, <1>4, <1>5, <1>6 DEF Shutdown

LEMMA OutsideScopes ==
  ASSUME ScopesInv, Outside
  PROVE  ScopesInv'
<1>1. ASSUME NEW slot \in Slots, OtherRuntime(slot)
      PROVE  ScopesInv'
  <2>1. /\ entries' = entries /\ free' = free /\ stack' = stack /\ exports' = exports
        /\ phase' = phase /\ issued \subseteq issued'
    BY <1>1 DEF OtherRuntime
  <2>2. TableInv'
    BY <1>1, OutsideAllowed DEF ScopesInv, Allowed, Outside
  <2>3. FreeEmpty' /\ StackOK' /\ ExportsCounted'
    BY <2>1 DEF ScopesInv, FreeEmpty, StackOK, ExportsCounted, Writers
  <2>4. OwnedOnce'
    BY <2>1 DEF ScopesInv, OwnedOnce, Locals, Scoped, HandleOf, Handle
  <2> QED
    BY <2>2, <2>3, <2>4 DEF ScopesInv
<1>2. ASSUME NEW t \in Threads, NEW h \in issued, NEW kind \in Deferrable,
             QueueCheck(t, h, kind)
      PROVE  ScopesInv'
  BY <1>2, UnchangedScopes DEF QueueCheck
<1>3. ASSUME NEW t \in Threads, QueuePush(t)
      PROVE  ScopesInv'
  BY <1>3, UnchangedScopes DEF QueuePush
<1> QED
  BY <1>1, <1>2, <1>3 DEF Outside

\* Each reference of a scope is a handle of exactly one scope.
LEMMA OneOwner ==
  ASSUME ScopesInv
  PROVE  LocalsOwned
<1>1. ASSUME NEW s \in DOMAIN entries, Scoped(s)
      PROVE  Cardinality({i \in DOMAIN stack :
                            /\ stack[i].kind # "guest"
                            /\ Handle(entries[s].token, s) \in stack[i].locals}) = 1
  <2> DEFINE Owners == {i \in DOMAIN stack : /\ stack[i].kind # "guest"
                                             /\ Handle(entries[s].token, s) \in stack[i].locals}
  <2>1. Owners = {i \in DOMAIN stack : HandleOf(s) \in Locals(i)}
    BY DEF HandleOf, Locals
  <2>2. PICK i \in DOMAIN stack : HandleOf(s) \in Locals(i)
    BY <1>1 DEF ScopesInv, OwnedOnce
  <2>3. Owners = {i}
    BY <2>1, <2>2 DEF ScopesInv, OwnedOnce
  <2> QED
    BY <2>3, FS_Singleton
<1>2. phase \notin Ended =>
        \A b \in Buffers :
          exports[b] = Cardinality({s \in DOMAIN entries :
                                      entries[s].value = b /\ entries[s].kind = "WriteOwner"})
  BY DEF ScopesInv, ExportsCounted, Writers, Ended
<1> QED
  BY <1>1, <1>2 DEF LocalsOwned, Scoped, ScopeKinds, Ended

\* No local handle and no buffer owner outlives its native call, whether the call
\* returns, fails or panics (Context::drop, invoke_native), and compiled code is
\* kept off a buffer while and only while native code may write it (end_export),
\* for any nesting of guest and native activations.
THEOREM HandlesLocalsOwned == Spec => []LocalsOwned
<1>1. Init => ScopesInv /\ QueueOK
  <2> SUFFICES ASSUME Init PROVE ScopesInv /\ QueueOK
    OBVIOUS
  <2>1. TableInv /\ FreeEmpty /\ StackOK /\ QueueOK
    BY DEF Init, TableInv, FreeEmpty, StackOK, QueueOK
  <2>2. OwnedOnce
    BY DEF Init, OwnedOnce, Scoped
  <2>3. \A b : Writers(b) = {}
    BY DEF Init, Writers
  <2>4. exports = [b \in Buffers |-> Cardinality(Writers(b))]
    BY <2>3, FS_EmptySet DEF Init
  <2> QED
    BY <2>1, <2>2, <2>4 DEF ScopesInv, ExportsCounted
<1>2. ScopesInv /\ QueueOK /\ [Next]_vars => ScopesInv' /\ QueueOK'
  <2> SUFFICES ASSUME ScopesInv, QueueOK, [Next]_vars PROVE ScopesInv' /\ QueueOK'
    OBVIOUS
  <2>1. QueueOK'
    BY QueueStep DEF ScopesInv
  <2>2. CASE UNCHANGED vars
    <3>1. UNCHANGED <<table, stack, exports>> /\ phase' = phase
      BY <2>2 DEF vars, table
    <3> QED
      BY <2>1, <3>1, UnchangedScopes
  <2>3. CASE Interface
    BY <2>1, <2>3, InterfaceScopes
  <2>4. CASE Activation
    BY <2>1, <2>4, ActivationScopes
  <2>5. CASE Shutdown
    BY <2>1, <2>5, ShutdownScopes
  <2>6. CASE Outside
    BY <2>1, <2>6, OutsideScopes
  <2> QED
    BY <2>1, <2>2, <2>3, <2>4, <2>5, <2>6 DEF Next
<1> QED
  BY <1>1, <1>2, OneOwner, PTL DEF Spec

=============================================================================
