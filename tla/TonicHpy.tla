------------------------------ MODULE TonicHpy ------------------------------
(***************************************************************************)
(* The HPy Universal host: modules that several runtimes share, each       *)
(* runtime on a thread of its own; calls of their native methods with the  *)
(* local handles, builders, trackers and the exception of each call;       *)
(* guest code that native code runs; and the globals and fields that       *)
(* outlive a call.                                                         *)
(*                                                                         *)
(* Source: crates/tonic-hpy/src/host.rs, with the operations of            *)
(* crates/tonic-runtime/src/{native.rs, heap.rs, vm.rs} that it uses.      *)
(* What a scalar, a text or a container holds does not matter here; that   *)
(* converting it may fail does.                                            *)
(***************************************************************************)
EXTENDS Integers, Sequences, FiniteSets, Functions

CONSTANTS
  Threads,      \* threads, each with the one runtime that it runs
  Modules,      \* loaded Universal modules
  Values,       \* managed values
  Programs,     \* what the programs do: Features, and how many runtimes load modules
  MaxToken,     \* isize::MAX: where each space of tokens is exhausted
  MaxItems,     \* MAX_CONTAINER_ITEMS
  MaxDepth,     \* bound of the instance: nested guest and native activations
  None

\* What a program of native code may use, to split the instance.
Features == {"guests", "builders", "trackers", "storage", "text", "errors"}

ASSUME HpyAssumption ==
  /\ Programs \subseteq [features : SUBSET Features, runtimes : Nat]
  /\ None \notin Values \cup Threads \cup Modules \cup {"host", "extension"}
  /\ MaxToken \in [{"local", "builder", "tracker", "field"} -> Nat \ {0}]
  /\ MaxItems \in Nat

VARIABLES
  registered,  \* Vm.modules: the modules of each runtime
  lock,        \* ModuleState.call_lock: the thread that holds it
  stack,       \* per thread: activations of guest and native code
  call,        \* per thread: the call that ACTIVE_CALL points to, or NoCall
  next,        \* NEXT_LOCAL_HANDLE, NEXT_BUILDER, NEXT_TRACKER, NEXT_FIELD
  globals,     \* Vm.native_globals of each runtime
  edges,       \* Heap.external_fields of each runtime
  field,       \* the bits of the HPyField that each runtime's object holds
  named,       \* history: the value that each local token was issued for
  dead,        \* history: tokens that were closed or whose call ended
  intended,    \* history: what was put into each slot of a builder
  owed,        \* history: a failure that the call has not cleared
  last,        \* history: how each thread's latest call ended
  uses         \* the program

tokens == <<next, named, dead>>
storage == <<globals, edges, field>>
vars == <<registered, lock, stack, call, next, globals, edges, field, named, dead,
          intended, owed, last, uses>>

-----------------------------------------------------------------------------
(* The state of a call.                                                    *)

\* HPy_NULL; a handle of the context, such as h_None, is Special, and so is its value.
Null == 0
Special == -1

Empty == << >>
Domain(f) == DOMAIN f
Put(f, k, v) == [x \in DOMAIN f \cup {k} |-> IF x = k THEN v ELSE f[x]]
Without(f, k) == Restrict(f, DOMAIN f \ {k})

NoCall == [module |-> None]

\* CallState::new.
NewCall(m) ==
  [module |-> m, handles |-> Empty, utf8 |-> {}, builders |-> Empty, trackers |-> Empty,
   exception |-> None]

\* fail: the first error stays.  Which error the host reports does not matter
\* here, only that it is not one that the extension set.
fail(c) == IF c.exception = None THEN [c EXCEPT !.exception = "host"] ELSE c

\* resolve: a context handle makes a value of the runtime.
Resolves(c, h) == h = Special \/ (h # Null /\ h \in Domain(c.handles))
resolve(c, h) == IF h = Special THEN Special ELSE c.handles[h]

\* Mutant: a closed handle leaves its token to the next one.
ReusedToken(c) ==
  LET unused == (1..MaxToken.local) \ Domain(c.handles)
  IN IF unused = {} THEN 0 ELSE CHOOSE n \in unused : \A k \in unused : n <= k

\* insert: the token that the process issues next, or zero when it has none.
\* The counter itself never passes isize::MAX, so that token is never issued.
NewToken(c) == IF next.local < MaxToken.local THEN next.local ELSE 0

\* close.
Close(c, h) ==
  IF h \in {Null, Special} THEN c
  ELSE IF h \in Domain(c.handles)
         THEN [c EXCEPT !.utf8 = @ \ {h}, !.handles = Without(@, h)]
         ELSE fail(c)

\* Handles closed in turn: one that is not open, or no longer, is a failure, and
\* the rest are closed all the same.
CloseEach(c, hs) ==
  LET closing == Range(hs) \ {Null, Special}
      again == \E i, j \in DOMAIN hs : i # j /\ hs[i] = hs[j] /\ hs[i] \in closing
      d == IF again \/ ~ (closing \subseteq Domain(c.handles)) THEN fail(c) ELSE c
  IN [d EXCEPT !.utf8 = @ \ closing, !.handles = Restrict(@, DOMAIN @ \ closing)]

Closed(c, d) == Domain(c.handles) \ Domain(d.handles)

-----------------------------------------------------------------------------
(* Activations.                                                            *)

Guest(op) == [kind |-> "guest", op |-> op]
Wait(m) == [kind |-> "wait", module |-> m]
Native(m) == [kind |-> "native", module |-> m]

Top(t) == stack[t][Len(stack[t])]
Pop(s) == SubSeq(s, 1, Len(s) - 1)
InGuest(t) == Top(t).kind = "guest"

\* active_call: native code runs with the context of its own module.
Active(t) == Top(t).kind = "native" /\ call[t] # NoCall

\* The handles that the extension passes: its open ones, and one stale one.
Passed(t) ==
  LET open == Domain(call[t].handles)
      stale == DOMAIN named \ open
  IN open \cup {Special, Null} \cup
     (IF "errors" \in uses.features /\ stale # {} THEN {CHOOSE h \in stale : TRUE} ELSE {})

Init ==
  /\ registered = [t \in Threads |-> {}]
  /\ lock = [m \in Modules |-> None]
  /\ stack = [t \in Threads |-> <<Guest("run")>>]
  /\ call = [t \in Threads |-> NoCall]
  /\ next = [local |-> 1, builder |-> 1, tracker |-> 1, field |-> 1]
  /\ globals = [t \in Threads |-> [m \in Modules |-> None]]
  /\ edges = [t \in Threads |-> Empty]
  /\ field = [t \in Threads |-> 0]
  /\ named = Empty
  /\ dead = {}
  /\ intended = [t \in Threads |-> Empty]
  /\ owed = [t \in Threads |-> FALSE]
  /\ last = [t \in Threads |-> None]
  /\ uses \in Programs

\* register: a module enters a runtime once.
register(t, m) ==
  /\ InGuest(t) /\ m \notin registered[t]
  /\ Cardinality({u \in Threads : registered[u] # {}} \cup {t}) <= uses.runtimes
  /\ registered' = [registered EXCEPT ![t] = @ \cup {m}]
  /\ UNCHANGED <<lock, stack, call, tokens, storage, intended, owed, last, uses>>

\* Guest code calls a method; invoke_method first locks the module.
invoke_method(t, m) ==
  /\ InGuest(t) /\ m \in registered[t] /\ Len(stack[t]) < MaxDepth
  /\ Len(stack[t]) > 1 => "guests" \in uses.features
  /\ stack' = [stack EXCEPT ![t] = Append(@, Wait(m))]
  /\ UNCHANGED <<registered, lock, call, tokens, storage, intended, owed, last, uses>>

\* The module's own value, and that of an argument if there is one.
ArgumentLists == {<<v>> : v \in Values} \cup {<<v, w>> : v, w \in Values}

\* The tokens of the module and of the arguments.
Arguments(vs) == [i \in next.local .. next.local + Len(vs) - 1 |-> vs[i - next.local + 1]]

LockKept(m, t) == [lock EXCEPT ![m] = t]

\* What is left of a call that does not start: the lock is free again.
NotStarted(t) ==
  /\ stack' = [stack EXCEPT ![t] = Pop(@)]
  /\ last' = [last EXCEPT ![t] = "host"]
  /\ UNCHANGED <<lock, call, named, dead, intended, owed>>

\* The tokens of the arguments vs run out.
Exhausted(t, vs) ==
  /\ next.local + Len(vs) > MaxToken.local
  /\ next' = [next EXCEPT !.local = MaxToken.local]
  /\ NotStarted(t)

\* The native method starts with the state of its call installed.
Starts(t, m, vs) ==
  /\ next.local + Len(vs) <= MaxToken.local
  /\ lock' = LockKept(m, t)
  /\ stack' = [stack EXCEPT ![t] = Append(Pop(@), Native(m))]
  /\ call' = [call EXCEPT ![t] = [NewCall(m) EXCEPT !.handles = Arguments(vs)]]
  /\ named' = [i \in DOMAIN named \cup DOMAIN Arguments(vs) |->
                 IF i \in DOMAIN named THEN named[i] ELSE Arguments(vs)[i]]
  /\ next' = [next EXCEPT !.local = @ + Len(vs)]
  /\ intended' = [intended EXCEPT ![t] = Empty]
  /\ owed' = [owed EXCEPT ![t] = FALSE]
  /\ last' = [last EXCEPT ![t] = None]
  /\ UNCHANGED dead

\* The lock is there; a nested call is refused, the tokens may run out, or the
\* native method starts.
Locked(t) ==
  /\ Top(t).kind = "wait" /\ lock[Top(t).module] = None
  /\ \/ call[t] # NoCall /\ NotStarted(t) /\ UNCHANGED next
     \/ /\ call[t] = NoCall
        /\ \E vs \in ArgumentLists : Starts(t, Top(t).module, vs) \/ Exhausted(t, vs)
  /\ UNCHANGED <<registered, storage, uses>>

\* Mutant: the result of the method wins over its exception.
ResultFirst(c, h) ==
  IF h # Null THEN (IF Resolves(c, h) THEN "value" ELSE "host")
  ELSE IF c.exception # None THEN c.exception ELSE "host"

\* finish: what the call gives to the guest code.
Finish(c, h) ==
  IF c.exception = None /\ (c.builders # Empty \/ c.trackers # Empty) THEN "host"
  ELSE IF h = Null THEN (IF c.exception # None THEN c.exception ELSE "host")
  ELSE IF c.exception # None THEN "host"
  ELSE IF Resolves(c, h) THEN "value" ELSE "host"

\* The native method returns: the state of the call and the lock are dropped.
MethodReturns(t) ==
  /\ Active(t)
  /\ \E h \in Passed(t) :
       /\ last' = [last EXCEPT ![t] = Finish(call[t], h)]
       /\ stack' = [stack EXCEPT ![t] = Pop(@)]
       /\ lock' = [lock EXCEPT ![Top(t).module] = None]
       /\ dead' = dead \cup Domain(call[t].handles)
       /\ call' = [call EXCEPT ![t] = NoCall]
  /\ UNCHANGED <<registered, next, named, storage, intended, owed, uses>>

-----------------------------------------------------------------------------
(* What native code does in a call.  Becomes says what the operation made  *)
(* of the call, and whether it failed.                                     *)

Becomes(t, c) ==
  /\ call' = [call EXCEPT ![t] = c]
  /\ dead' = dead \cup Closed(call[t], c)
  /\ UNCHANGED <<registered, lock, last, uses>>

Fails(t, c) ==
  /\ Becomes(t, fail(c))
  /\ owed' = [owed EXCEPT ![t] = TRUE]
  /\ UNCHANGED <<next, named>>

\* The call with a handle for a value, or the failure of insert.
Inserts(t, c, v) ==
  LET n == NewToken(c) IN
  IF n = 0 THEN Fails(t, c)
  ELSE /\ Becomes(t, [c EXCEPT !.handles = Put(@, n, v)])
       /\ named' = IF n \in DOMAIN named THEN named ELSE Put(named, n, v)
       /\ next' = [next EXCEPT !.local = IF @ < MaxToken.local THEN @ + 1 ELSE @]
       /\ UNCHANGED owed

Stays(t) == UNCHANGED <<stack, storage, intended>>

\* active_call with the context of another module.
WrongContext(t) ==
  /\ Active(t) /\ "errors" \in uses.features
  /\ Fails(t, call[t]) /\ Stays(t)

hpy_dup(t, h) ==
  /\ Active(t)
  /\ IF Resolves(call[t], h) THEN Inserts(t, call[t], resolve(call[t], h))
     ELSE Fails(t, call[t])
  /\ Stays(t)

hpy_close(t, h) ==
  /\ Active(t)
  /\ Becomes(t, Close(call[t], h))
  /\ owed' = [owed EXCEPT ![t] = @ \/ ~ (h \in {Null, Special} \cup Domain(call[t].handles))]
  /\ UNCHANGED <<next, named>> /\ Stays(t)

\* An integer becomes a value with a handle.
hpy_long_from(t) ==
  /\ Active(t) /\ "errors" \in uses.features
  /\ \/ \E v \in Values : Inserts(t, call[t], v)
     \/ Fails(t, call[t])
  /\ Stays(t)

\* A value becomes an integer of some width; it may be the wrong one.
hpy_long_as(t, h) ==
  /\ Active(t) /\ "errors" \in uses.features
  /\ IF Resolves(call[t], h) THEN Fails(t, call[t])
     ELSE Fails(t, call[t])
  /\ Stays(t)

\* Floats and booleans.
hpy_float(t, h) ==
  /\ Active(t) /\ "errors" \in uses.features
  /\ \/ \E v \in Values : Inserts(t, call[t], v)
     \/ /\ Resolves(call[t], h)
        /\ Fails(t, call[t])
  /\ Stays(t)

hpy_unicode_from_string(t) ==
  /\ Active(t) /\ "text" \in uses.features
  /\ \/ \E v \in Values : Inserts(t, call[t], v)
     \/ Fails(t, call[t])
  /\ Stays(t)

\* The bytes are kept under the handle; an earlier copy is replaced.
hpy_unicode_as_utf8_and_size(t, h) ==
  /\ Active(t) /\ "text" \in uses.features
  /\ \/ /\ Resolves(call[t], h) /\ h # Special
        /\ Becomes(t, [call[t] EXCEPT !.utf8 = @ \cup {h}])
        /\ UNCHANGED <<next, named, owed>>
     \/ Fails(t, call[t])
  /\ Stays(t)

\* resolve_name and read_call_string: the names that attributes and items take.
BadName(t) ==
  /\ Active(t) /\ "text" \in uses.features
  /\ Fails(t, call[t])
  /\ Stays(t)

-----------------------------------------------------------------------------
(* Operations that run guest code.  The result is a new handle, a status,  *)
(* or for HasAttr an answer for which AttributeError is no failure.        *)

\* Native code asks the runtime for something about the handles hs.
Enters(t, op, hs) ==
  /\ Active(t) /\ "guests" \in uses.features
  /\ IF \A h \in hs : Resolves(call[t], h)
       THEN /\ Len(stack[t]) < MaxDepth
            /\ stack' = [stack EXCEPT ![t] = Append(@, Guest(op))]
            /\ UNCHANGED <<call, tokens, owed>>
       ELSE Fails(t, call[t]) /\ UNCHANGED stack
  /\ UNCHANGED <<registered, lock, storage, intended, last, uses>>

\* The same for an item that is named by an index or a text: the key gets a
\* handle first, which stays open until the call ends.
EntersWithKey(t, op, h) ==
  LET c == call[t]
      n == NewToken(c)
      enters == n # 0 /\ Resolves(c, h)
  IN
  /\ Active(t) /\ "guests" \in uses.features /\ Len(stack[t]) < MaxDepth
  /\ \E v \in Values :
       IF enters THEN Inserts(t, c, v)
       ELSE IF n = 0 THEN Fails(t, c)
       ELSE /\ Becomes(t, fail([c EXCEPT !.handles = Put(@, n, v)]))
            /\ named' = Put(named, n, v)
            /\ next' = [next EXCEPT !.local = @ + 1]
            /\ owed' = [owed EXCEPT ![t] = TRUE]
  /\ stack' = [stack EXCEPT ![t] = IF enters THEN Append(@, Guest(op)) ELSE @]
  /\ UNCHANGED <<storage, intended>>

hpy_length(t, h) == Enters(t, "status", {h})
hpy_get_attr(t, h) == Enters(t, "handle", {h})
hpy_has_attr(t, h) == Enters(t, "attribute", {h})
hpy_set_attr(t, h, k) == Enters(t, "status", {h, k})
hpy_get_item(t, h, k) == Enters(t, "handle", {h, k}) \/ EntersWithKey(t, "handle", h)
hpy_set_item(t, h, k) == Enters(t, "status", {h, k}) \/ EntersWithKey(t, "status", h)
hpy_del_item(t, h, k) == Enters(t, "status", {h, k}) \/ EntersWithKey(t, "status", h)
hpy_repr(t, h) == Enters(t, "handle", {h})
hpy_call_tuple_dict(t, h, k) == Enters(t, "handle", {h, k})
hpy_call(t, h, k) == Enters(t, "handle", {h, k})
hpy_call_method(t, h) == Enters(t, "handle", {h})

\* The guest code that native code ran ends with a value or an exception.
GuestReturns(t) ==
  LET op == Top(t).op
      c == call[t]
  IN
  /\ InGuest(t) /\ Len(stack[t]) > 1
  /\ stack' = [stack EXCEPT ![t] = Pop(@)]
  /\ \/ op \in {"handle", "attribute"} /\ \E v \in Values : Inserts(t, c, v)
     \/ op = "status" /\ Becomes(t, c) /\ UNCHANGED <<next, named, owed>>
     \/ op = "attribute" /\ Becomes(t, c) /\ UNCHANGED <<next, named, owed>>
     \/ Fails(t, c)
  /\ UNCHANGED <<storage, intended>>

-----------------------------------------------------------------------------
(* The exception of the call.                                              *)

\* Whether a handle is that of a built-in exception type, or, to match against,
\* of a tuple of them; special handles and values may or may not be.
resolve_exception_type(c, h) == IF Resolves(c, h) THEN BOOLEAN ELSE {FALSE}
exception_expected_matches(c, h) == resolve_exception_type(c, h)

\* HPyErr_SetString, HPyErr_SetObject and HPyErr_NoMemory replace the exception.
hpy_err_set(t, h) ==
  /\ Active(t) /\ "errors" \in uses.features
  /\ \E ok \in resolve_exception_type(call[t], h) :
       IF ok THEN /\ Becomes(t, [call[t] EXCEPT !.exception = "extension"])
                  /\ owed' = [owed EXCEPT ![t] = TRUE]
                  /\ UNCHANGED <<next, named>>
             ELSE Fails(t, call[t])
  /\ Stays(t)

\* HPyErr_ExceptionMatches answers no when nothing is set.
hpy_err_exception_matches(t, h) ==
  /\ Active(t) /\ "errors" \in uses.features
  /\ call[t].exception # None
  /\ FALSE \in exception_expected_matches(call[t], h)
  /\ Fails(t, call[t])
  /\ Stays(t)

hpy_err_clear(t) ==
  /\ Active(t) /\ "errors" \in uses.features
  /\ Becomes(t, [call[t] EXCEPT !.exception = None])
  /\ owed' = [owed EXCEPT ![t] = FALSE]
  /\ UNCHANGED <<next, named>> /\ Stays(t)

-----------------------------------------------------------------------------
(* Containers and builders.                                                *)

\* HPyList_New, HPyDict_New and HPyTuple_FromArray.
hpy_container(t, h) ==
  /\ Active(t) /\ "builders" \in uses.features
  /\ IF Resolves(call[t], h)
       THEN \/ \E v \in Values : Inserts(t, call[t], v)
            \/ Fails(t, call[t])
       ELSE Fails(t, call[t])
  /\ Stays(t)

new_builder(t, kind, size) ==
  /\ Active(t) /\ "builders" \in uses.features
  /\ IF size > MaxItems THEN Fails(t, call[t]) /\ UNCHANGED intended
     ELSE IF next.builder >= MaxToken.builder
            THEN Fails(t, call[t]) /\ UNCHANGED intended
     ELSE LET b == next.builder IN
          /\ Becomes(t, [call[t] EXCEPT !.builders =
                 Put(@, b, [kind |-> kind, items |-> [i \in 1..size |-> None]])])
          /\ intended' = [intended EXCEPT ![t] = Put(@, b, [i \in 1..size |-> None])]
          /\ next' = [next EXCEPT !.builder = b + 1]
          /\ UNCHANGED <<named, owed>>
  /\ UNCHANGED <<stack, storage>>

\* Mutant: the builder keeps the handle, which is resolved when it is built.
ItemHandle(c, h) == [handle |-> h]

\* What set_builder_item keeps: the value, as a handle of the runtime.
Item(c, h) == [value |-> resolve(c, h)]

\* What an item stands for when the container is made.
ItemValue(c, item) ==
  IF "value" \in DOMAIN item THEN item.value
  ELSE IF Resolves(c, item.handle) THEN resolve(c, item.handle) ELSE None

set_builder_item(t, b, kind, i, h) ==
  LET c == call[t]
      known == Resolves(c, h) /\ b \in {x \in Domain(c.builders) : c.builders[x].kind = kind}
  IN
  /\ Active(t) /\ "builders" \in uses.features
  /\ IF known /\ i \in 1..(IF known THEN Len(c.builders[b].items) ELSE 0)
       THEN /\ Becomes(t, [c EXCEPT !.builders[b].items[i] = Item(c, h)])
            /\ intended' = [intended EXCEPT ![t][b][i] = [value |-> resolve(c, h)]]
            /\ UNCHANGED <<next, named, owed>>
       ELSE /\ Fails(t, c)
            /\ UNCHANGED intended
  /\ UNCHANGED <<stack, storage>>

\* take_builder takes the builder out before it looks at it.
build(t, b, kind) ==
  LET c == call[t]
      d == [c EXCEPT !.builders = Without(@, b)]
  IN
  /\ Active(t) /\ "builders" \in uses.features
  /\ IF b \notin Domain(c.builders) THEN Fails(t, c) /\ UNCHANGED intended
     ELSE IF c.builders[b].kind # kind
            THEN Fails(t, d) /\ UNCHANGED intended
     ELSE IF \E i \in DOMAIN c.builders[b].items : c.builders[b].items[i] = None
            THEN Fails(t, d) /\ UNCHANGED intended
     ELSE /\ \E v \in Values : Inserts(t, d, v)
          /\ intended' = [intended EXCEPT ![t] = Without(@, b)]
  /\ UNCHANGED <<stack, storage>>

cancel(t, b) ==
  LET c == call[t] IN
  /\ Active(t) /\ "builders" \in uses.features
  /\ IF b \in Domain(c.builders)
       THEN /\ Becomes(t, [c EXCEPT !.builders = Without(@, b)])
            /\ UNCHANGED <<next, named, owed>>
       ELSE Fails(t, c)
  /\ Stays(t)

-----------------------------------------------------------------------------
(* Trackers.                                                               *)

hpy_tracker_new(t, size) ==
  /\ Active(t) /\ "trackers" \in uses.features
  /\ IF size > MaxItems THEN Fails(t, call[t])
     ELSE IF next.tracker >= MaxToken.tracker THEN Fails(t, call[t])
     ELSE /\ Becomes(t, [call[t] EXCEPT !.trackers = Put(@, next.tracker, << >>)])
          /\ next' = [next EXCEPT !.tracker = @ + 1]
          /\ UNCHANGED <<named, owed>>
  /\ Stays(t)

hpy_tracker_add(t, k, h) ==
  LET c == call[t] IN
  /\ Active(t) /\ "trackers" \in uses.features
  /\ IF (h = Null \/ Resolves(c, h)) /\ k \in Domain(c.trackers)
       THEN IF Len(c.trackers[k]) >= MaxItems THEN Fails(t, c)
            ELSE /\ Becomes(t, [c EXCEPT !.trackers[k] = Append(@, h)])
                 /\ UNCHANGED <<next, named, owed>>
       ELSE Fails(t, c)
  /\ Stays(t)

hpy_tracker_forget_all(t, k) ==
  LET c == call[t] IN
  /\ Active(t) /\ "trackers" \in uses.features
  /\ IF k \in Domain(c.trackers)
       THEN /\ Becomes(t, [c EXCEPT !.trackers = Without(@, k)])
            /\ UNCHANGED <<next, named, owed>>
       ELSE Fails(t, c)
  /\ Stays(t)

\* Every handle of the tracker is closed, those that were closed before included.
hpy_tracker_close(t, k) ==
  LET c == call[t] IN
  /\ Active(t) /\ "trackers" \in uses.features
  /\ IF k \in Domain(c.trackers)
       THEN LET d == CloseEach([c EXCEPT !.trackers = Without(@, k)], c.trackers[k])
            IN /\ Becomes(t, d)
               /\ owed' = [owed EXCEPT ![t] = @ \/ d.exception # c.exception]
               /\ UNCHANGED <<next, named>>
       ELSE Fails(t, c)
  /\ Stays(t)

-----------------------------------------------------------------------------
(* What outlives a call: a global per module and runtime, a field per      *)
(* runtime whose owner is one object.  Both are one of several.            *)

\* global_slot refuses a slot that the module did not declare.
hpy_global_store(t, declared, h) ==
  LET c == call[t] IN
  /\ Active(t) /\ "storage" \in uses.features
  /\ IF declared /\ (h = Null \/ Resolves(c, h))
       THEN /\ globals' = [globals EXCEPT ![t][c.module] =
                             IF h = Null THEN None ELSE resolve(c, h)]
            /\ Becomes(t, c) /\ UNCHANGED <<next, named, owed>>
       ELSE Fails(t, c) /\ UNCHANGED globals
  /\ UNCHANGED <<stack, edges, field, intended>>

hpy_global_load(t, declared) ==
  LET c == call[t] IN
  /\ Active(t) /\ "storage" \in uses.features
  /\ IF ~ declared THEN Fails(t, c)
     ELSE IF globals[t][c.module] = None
            THEN Becomes(t, c) /\ UNCHANGED <<next, named, owed>>
            ELSE Inserts(t, c, globals[t][c.module])
  /\ Stays(t)

\* The bits that the field gets: a new token for the first value.
FieldToken(t, value) == IF field[t] = 0 /\ value # None THEN next.field ELSE field[t]

\* Mutant: clearing the field leaves the edge.
EdgeStays(t, token, value) ==
  IF token = 0 \/ value = None THEN edges[t] ELSE Put(edges[t], token, value)

\* native_field_store: the edge is put or taken away.
Edge(t, token, value) ==
  IF token = 0 THEN edges[t]
  ELSE IF value = None THEN Without(edges[t], token)
  ELSE Put(edges[t], token, value)

hpy_field_store(t, h) ==
  LET c == call[t]
      value == IF h = Null THEN None ELSE resolve(c, h)
      token == FieldToken(t, value)
      fresh == field[t] = 0 /\ value # None
  IN
  /\ Active(t) /\ "storage" \in uses.features
  /\ IF h = Null \/ Resolves(c, h)
       THEN IF fresh /\ next.field >= MaxToken.field
              THEN Fails(t, c) /\ UNCHANGED <<edges, field>>
              ELSE \/ /\ edges' = [edges EXCEPT ![t] = Edge(t, token, value)]
                      /\ field' = [field EXCEPT ![t] = IF value = None THEN 0 ELSE token]
                      /\ next' = [next EXCEPT !.field = IF fresh THEN @ + 1 ELSE @]
                      /\ Becomes(t, c) /\ UNCHANGED <<named, owed>>
                   \* The owner is not an object of the heap.
                   \/ /\ token # 0
                      /\ Becomes(t, fail(c))
                      /\ next' = [next EXCEPT !.field = IF fresh THEN @ + 1 ELSE @]
                      /\ owed' = [owed EXCEPT ![t] = TRUE]
                      /\ UNCHANGED <<named, edges, field>>
       ELSE Fails(t, c) /\ UNCHANGED <<edges, field>>
  /\ UNCHANGED <<stack, globals, intended>>

hpy_field_load(t) ==
  /\ Active(t) /\ "storage" \in uses.features
  /\ field[t] # 0
  /\ IF field[t] \in Domain(edges[t]) THEN Inserts(t, call[t], edges[t][field[t]])
     ELSE Becomes(t, call[t]) /\ UNCHANGED <<next, named, owed>>
  /\ Stays(t)

-----------------------------------------------------------------------------

\* An operation on one or two handles.
HandleOperation(t, h) ==
  \/ hpy_dup(t, h) \/ hpy_close(t, h)
  \/ hpy_long_as(t, h) \/ hpy_float(t, h)
  \/ hpy_unicode_as_utf8_and_size(t, h)
  \/ hpy_length(t, h) \/ hpy_get_attr(t, h) \/ hpy_has_attr(t, h)
  \/ hpy_repr(t, h) \/ hpy_call_method(t, h)
  \/ hpy_err_set(t, h) \/ hpy_err_exception_matches(t, h) \/ hpy_container(t, h)
  \/ \E k \in 1..next.tracker : hpy_tracker_add(t, k, h)
  \/ \E b \in 1..next.builder, kind \in {"list", "tuple"}, i \in 0..MaxItems :
       set_builder_item(t, b, kind, i, h)
  \/ \E declared \in BOOLEAN : hpy_global_store(t, declared, h)
  \/ hpy_field_store(t, h)

PairOperation(t, h, k) ==
  \/ hpy_set_attr(t, h, k)
  \/ hpy_get_item(t, h, k) \/ hpy_set_item(t, h, k) \/ hpy_del_item(t, h, k)
  \/ hpy_call_tuple_dict(t, h, k) \/ hpy_call(t, h, k)

OtherOperation(t) ==
  \/ WrongContext(t) \/ hpy_long_from(t) \/ hpy_unicode_from_string(t) \/ BadName(t)
  \/ hpy_err_clear(t) \/ hpy_field_load(t)
  \/ \E kind \in {"list", "tuple"}, size \in 0..MaxItems + 1 : new_builder(t, kind, size)
  \/ \E b \in 1..next.builder : cancel(t, b) \/ \E kind \in {"list", "tuple"} : build(t, b, kind)
  \/ \E size \in {0, MaxItems + 1} : hpy_tracker_new(t, size)
  \/ \E k \in 1..next.tracker : hpy_tracker_forget_all(t, k) \/ hpy_tracker_close(t, k)
  \/ \E declared \in BOOLEAN : hpy_global_load(t, declared)

Next ==
  \E t \in Threads :
    \/ \E m \in Modules : register(t, m) \/ invoke_method(t, m)
    \/ Locked(t) \/ MethodReturns(t) \/ GuestReturns(t)
    \/ Active(t) /\ \E h \in Passed(t) : HandleOperation(t, h)
    \/ Active(t) /\ \E h, k \in Passed(t) : PairOperation(t, h, k)
    \/ Active(t) /\ OtherOperation(t)

Spec == Init /\ [][Next]_vars

-----------------------------------------------------------------------------
(* Properties.                                                             *)

\* A local handle means the value it was made for, in the call that it was made
\* for: a token that was closed, or whose call ended, names nothing again, in no
\* runtime (NEXT_LOCAL_HANDLE and the table of each CallState).
TokensNameOneValue ==
  \A t \in Threads : call[t] # NoCall =>
    \A h \in Domain(call[t].handles) :
      /\ h \notin dead
      /\ call[t].handles[h] = named[h]
      /\ \A u \in Threads \ {t} : call[u] = NoCall \/ h \notin Domain(call[u].handles)

\* A builder holds the values that were put into it, whatever became of their
\* handles since (set_builder_item resolves them).
BuildersKeepItems ==
  \A t \in Threads : call[t] # NoCall =>
    \A b \in Domain(call[t].builders) :
      \A i \in DOMAIN call[t].builders[b].items :
        LET item == call[t].builders[b].items[i] IN
        item # None => ItemValue(call[t], item) = intended[t][b][i].value

\* A field with bits has its edge in the heap, and the heap has no edge that
\* no field names: the object behind it could never be let go (hpy_field_store,
\* whatever failed on the way).
FieldsMatchEdges ==
  \A t \in Threads : Domain(edges[t]) = {field[t]} \ {0}

\* Guest code gets a value only from a call in which nothing is left to report
\* or to finish (CallState::fail and finish).
ValuesAreClean ==
  [][\A t \in Threads :
       (call[t] # NoCall /\ call'[t] = NoCall /\ last'[t] = "value") =>
         /\ ~ owed[t]
         /\ call[t].builders = Empty /\ call[t].trackers = Empty]_vars

\* A thread is never kept from going on by a lock that it holds itself, or that
\* is held by a thread that it keeps waiting: a call within a call is refused
\* (the check of ACTIVE_CALL in invoke_method).
Holder(t) == IF Top(t).kind = "wait" THEN lock[Top(t).module] ELSE None
NestedCallsRefused ==
  \A t \in Threads :
    LET h == Holder(t) IN h # None => h # t /\ Holder(h) # t

=============================================================================
