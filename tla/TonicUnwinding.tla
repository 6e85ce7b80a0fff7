--------------------------- MODULE TonicUnwinding ---------------------------
(***************************************************************************)
(* Calls, generators, imports and exception unwinding in the Tonic         *)
(* interpreter.  Each frame keeps the continuation of its caller's         *)
(* instruction (ReturnAction); Return and Yield hand it a value, and       *)
(* dispatch_exception walks down the frames until one of them handles,     *)
(* converts or consumes the exception.  Native code that calls back into   *)
(* the guest (finalizers, the event loop, native functions) is a boundary  *)
(* that an exception does not cross by itself.                             *)
(*                                                                         *)
(* Source: crates/tonic-runtime/src/{vm.rs, calls.rs, heap.rs}.  Values    *)
(* are left out; what a guest instruction does next is open.  An           *)
(* instruction is inside of a region of its code or is not ("at").         *)
(***************************************************************************)
EXTENDS TonicSequences

CONSTANTS
  Functions,     \* the code of plain functions
  Generators,    \* the generator objects a program may create
  KindOf,        \* the GeneratorKind of each
  CodeOf,        \* the code of each
  Modules,       \* the source modules
  Awaitables,    \* the async-generator awaitables a program may create
  Programs,      \* the guest programs: for each one, the set of what it uses
  MaxFrames,     \* limits.frames
  None

Exceptions ==
  {"StopIteration", "StopAsyncIteration", "GeneratorExit", "KeyError",
   "AttributeError", "Other"}

\* The continuations that only store the value.
Plain == {"Value", "Next", "NextDefault", "Close", "IteratorNext", "NamespaceLookup",
          "AttributeGet"}

\* The continuations whose Next call ends with the StopIteration of an iterator.
Consumers == {"CollectIterableNext", "DictIterableNext", "DictPairNext",
              "MembershipNext", "SumNext", "BoolReduceNext", "ExtremumNext",
              "ExpandIterableNext"}

\* The continuations that go on computing: they store a value, call the guest
\* again or fail.
Protocols == Consumers \cup {"Initializer", "Iterator"}

\* What follows when an async generator has handed its value to what drives it.
Completions == {"Direct", "CloseMethod", "YieldFrom", "YieldFromClose"}

\* What the guest may do that a program of this instance need not do.
AllFeatures == {"failing_next", "failing_finish", "recursion", "native", "finalizers",
                "athrow_stop", "delegation"}

\* What the code of a frame is called.
Codes == Functions \cup Modules \cup {CodeOf[g] : g \in Generators} \cup {"main", None}

\* Where an instruction of a frame is: in a region of its code, out of all of
\* them, or at the entry of a handler.
Sites == {"plain", "try"}
Places == Sites \cup {"handler"}

Errors == [exc : Exceptions, code : Codes, at : Places, direct : BOOLEAN]

ASSUME UnwindingAssumption ==
  /\ None \notin Functions \cup Generators \cup Modules \cup Awaitables \cup Exceptions
                  \cup Errors \cup Completions
  /\ KindOf \in [Generators -> {"generator", "coroutine", "async"}]
  /\ DOMAIN CodeOf = Generators
  /\ \A program \in Programs :
       program \subseteq Functions \cup Generators \cup Modules \cup Awaitables
                          \cup Plain \cup Protocols \cup Exceptions \cup AllFeatures
  /\ MaxFrames \in Nat \ {0}

VARIABLES
  frames,     \* the guest frames, the active one last
  bases,      \* the depths at which native code called the guest, innermost last
  gens,       \* generator objects
  awaits,     \* async-generator awaitables
  modules,    \* source modules
  raised,     \* the exception that dispatch_exception is called for, or None
  uses,       \* the program
  abandoned   \* history: modules whose failure was consumed as an end of iteration

vars == <<frames, bases, gens, awaits, modules, raised, uses, abandoned>>

-----------------------------------------------------------------------------
(* Frames, generators and modules.                                         *)

\* "ref" is the module of an import or the awaitable of an async drive,
\* "iterator" what a yield-from delegates to.
ReturnAction(kind) ==
  [kind |-> kind, ref |-> None, closing |-> FALSE, completion |-> None,
   iterator |-> None]

Drive(a, closing, completion) ==
  [ReturnAction("AsyncGeneratorDrive") EXCEPT
     !.ref = a, !.closing = closing, !.completion = completion]

\* "op" is the frame's last instruction: "Item" after yield-from has produced an
\* item, "Resumed" when the frame continues behind its Yield.  A frame strays
\* when an instruction of another frame sets its instruction pointer.
NewFrame(code, action) ==
  [code |-> code, at |-> "plain", op |-> "none", action |-> action, gen |-> None,
   delegate |-> None, injected |-> None, strayed |-> FALSE]

Last(s) == s[Len(s)]
Top == Last(frames)
Base == Last(bases)
Below(fs) == SubSeq(fs, 1, Len(fs) - 1)

\* An instruction of the active frame may run: no exception is in flight.
Running == raised = None /\ Len(frames) > Base

\* A frame that has just been resumed behind a Yield of a yield-from, or that
\* has an item of it, is inside of that expression; any other is free.
Free == Running /\ Top.delegate = None

\* The active frame runs an instruction at a site of its code.
Executing(op, at) ==
  [frames EXCEPT ![Len(frames)].op = op, ![Len(frames)].at = at]

\* The instruction of the active frame is done; where it was matters no more.
Done(fs) ==
  IF fs = <<>> THEN fs ELSE [fs EXCEPT ![Len(fs)].op = "none", ![Len(fs)].at = "plain"]

\* An error and the instruction that dispatch_exception is told about.  A
\* direct one leaves execute_until_depth without a search for a handler.
Error(exc, code, at) == [exc |-> exc, code |-> code, at |-> at, direct |-> FALSE]

\* The error of an instruction of the active frame.
FailHere(exc, at) == raised' = Error(exc, Top.code, at)

OnStack(code) == \E i \in DOMAIN frames : frames[i].code = code

Alive(f) == f.gen # None => gens[f.gen].state # "Completed"

set_yield_from_completion(action, d) ==
  IF action.kind = "AsyncGeneratorDrive"
  THEN [action EXCEPT !.completion = "YieldFrom", !.iterator = d]
  ELSE [ReturnAction("YieldFrom") EXCEPT !.iterator = d]

set_yield_from_close_completion(action) ==
  IF action.kind = "AsyncGeneratorDrive"
  THEN [action EXCEPT !.completion = "YieldFromClose"]
  ELSE ReturnAction("YieldFromClose")

complete_generators(G) ==
  [g \in Generators |->
     IF g \in G
     THEN [gens[g] EXCEPT !.state = "Completed", !.delegate = None, !.driver = None]
     ELSE gens[g]]

complete_generator(g) == complete_generators({g})

set_await_completed(A) ==
  [a \in Awaitables |->
     IF a \in A THEN [awaits[a] EXCEPT !.state = "Completed"] ELSE awaits[a]]

\* Mutant: the import of the first frame that is left is not reset.
ResetAboveFirst(start) ==
  LET failed == {frames[i].action.ref : i \in {j \in start + 1 .. Len(frames) :
                                                frames[j].action.kind = "Import"}}
  IN [m \in Modules |->
        IF m \in failed THEN [state |-> "Uninitialized", dirty |-> FALSE]
                        ELSE modules[m]]

\* The frames of a set of positions reset the modules they import.
reset_import_frames(start) ==
  LET failed == {frames[i].action.ref : i \in {j \in start .. Len(frames) :
                                                frames[j].action.kind = "Import"}}
  IN [m \in Modules |->
        IF m \in failed THEN [state |-> "Uninitialized", dirty |-> FALSE]
                        ELSE modules[m]]

Init ==
  /\ frames = <<NewFrame("main", ReturnAction("Value"))>>
  /\ bases = <<0>>
  /\ gens = [g \in Generators |->
               [state |-> "free", at |-> "plain", delegate |-> None, driver |-> None]]
  /\ awaits = [a \in Awaitables |-> [state |-> "free", gen |-> None, op |-> None]]
  /\ modules = [m \in Modules |-> [state |-> "Uninitialized", dirty |-> FALSE]]
  /\ raised = None
  /\ uses \in Programs
  /\ abandoned = {}

-----------------------------------------------------------------------------
(* Resuming a generator.                                                   *)

\* What resume_generator fails with, None when it does not.
resume_error(g) ==
  IF Len(frames) >= MaxFrames THEN "Other"
  ELSE CASE gens[g].state = "Completed" ->
              (CASE KindOf[g] = "generator" -> "StopIteration"
                 [] KindOf[g] = "coroutine" -> "Other"
                 [] KindOf[g] = "async" -> "StopAsyncIteration")
         [] gens[g].state = "Running" -> "Other"
         [] OTHER -> None

\* The frames and the generator once resume_generator has succeeded.
resume_frames(fs, g, action) ==
  Append(fs, [NewFrame(CodeOf[g], action) EXCEPT
                !.at = gens[g].at, !.op = "Resumed", !.gen = g,
                !.delegate = gens[g].delegate])

resume_state(g) == [gens EXCEPT ![g].state = "Running", ![g].delegate = None]

\* An exception for a resumed generator: a delegating one keeps it for its
\* yield-from, any other one gets it at once.  The instruction that resumed
\* the generator is the one dispatch_exception is told about.
inject(fs, delegated, exc, code, at) ==
  IF delegated
  THEN /\ frames' = [fs EXCEPT ![Len(fs)].injected = exc]
       /\ raised' = None
  ELSE /\ frames' = fs
       /\ raised' = Error(exc, code, at)

-----------------------------------------------------------------------------
(* Instructions of the active frame that call, create or resume.           *)

\* A call of a guest function whose result continues an instruction.
Call(f, kind, at) ==
  /\ Free
  /\ "recursion" \in uses \/ ~OnStack(f)
  /\ IF Len(frames) >= MaxFrames
     THEN frames' = Executing("Call", at) /\ FailHere("Other", at)
     ELSE /\ frames' = Append(Executing(IF kind = "IteratorNext" THEN "Next" ELSE "Call", at),
                              NewFrame(f, ReturnAction(kind)))
          /\ raised' = None
  /\ UNCHANGED <<bases, gens, awaits, modules, uses, abandoned>>

\* A call of a generator function freezes its frame into a new object.
freeze_generator_call(g) ==
  /\ Free
  /\ gens[g].state = "free"
  /\ gens' = [gens EXCEPT ![g].state = "Created"]
  /\ UNCHANGED <<frames, bases, awaits, modules, raised, uses, abandoned>>

\* The instruction of a for loop.  An error other than StopIteration replaces
\* the continuation of the active frame: the depth its length is compared with
\* is the one of the native caller.
OpNext(g, at) ==
  /\ Free
  /\ gens[g].state # "free" /\ KindOf[g] # "async"
  /\ LET error == resume_error(g)
         fs == Executing("Next", at)
     IN CASE error = None ->
               /\ frames' = resume_frames(fs, g, ReturnAction("IteratorNext"))
               /\ gens' = resume_state(g)
               /\ raised' = None
          [] error = "StopIteration" ->
               /\ frames' = Done(fs)
               /\ UNCHANGED <<gens, raised>>
          [] OTHER ->
               /\ "failing_next" \in uses
               /\ frames' = [fs EXCEPT ![Len(fs)].action = set_yield_from_completion(@, g)]
               /\ FailHere(error, at)
               /\ UNCHANGED gens
  /\ UNCHANGED <<bases, awaits, modules, uses, abandoned>>

\* next(g), next(g, default), send and the builtins that consume an iterable.
ResumeCall(g, kind, at) ==
  /\ Free
  /\ gens[g].state # "free"
  /\ KindOf[g] = "generator" \/ (KindOf[g] = "coroutine" /\ kind = "Next")
  /\ LET error == resume_error(g)
         fs == Executing("Call", at)
     IN IF error = None
        THEN /\ frames' = resume_frames(fs, g, ReturnAction(kind))
             /\ gens' = resume_state(g)
             /\ raised' = None
        ELSE /\ IF error = "StopIteration" /\ kind # "Next"
                THEN frames' = Done(fs) /\ raised' = None
                ELSE frames' = fs /\ FailHere(error, at)
             /\ UNCHANGED gens
  /\ UNCHANGED <<bases, awaits, modules, uses, abandoned>>

\* A completed generator raises the exception in the caller.
finish_generator_throw(g, exc, at) ==
  /\ LET error == resume_error(g)
         fs == Executing("Call", at)
     IN IF error = None
        THEN /\ inject(resume_frames(fs, g, ReturnAction("Next")),
                       gens[g].delegate # None, exc, Top.code, at)
             /\ gens' = resume_state(g)
        ELSE /\ frames' = fs
             /\ FailHere(IF error = "StopIteration" THEN exc ELSE error, at)
             /\ UNCHANGED gens
  /\ UNCHANGED <<bases, awaits, modules, uses, abandoned>>

\* generator.throw: the exception is made of the arguments.
GeneratorThrow(g, exc, at) ==
  /\ Free
  /\ gens[g].state # "free" /\ KindOf[g] # "async"
  /\ finish_generator_throw(g, exc, at)

\* generator.close()
GeneratorClose(g, at) ==
  /\ Free
  /\ gens[g].state # "free" /\ KindOf[g] # "async"
  /\ LET fs == Executing("Call", at)
     IN CASE gens[g].state \in {"Completed", "Created"} ->
               /\ frames' = Done(fs)
               /\ gens' = complete_generator(g)
               /\ UNCHANGED raised
          [] gens[g].state = "Suspended" /\ resume_error(g) = None ->
               /\ inject(resume_frames(fs, g, ReturnAction("Close")),
                         gens[g].delegate # None, "GeneratorExit", Top.code, at)
               /\ gens' = resume_state(g)
          [] OTHER ->
               /\ frames' = fs
               /\ FailHere("Other", at)
               /\ UNCHANGED gens
  /\ UNCHANGED <<bases, awaits, modules, uses, abandoned>>

\* raise, and any instruction that fails by itself.
OpRaise(exc, at) ==
  /\ Free
  /\ frames' = Executing("Call", at)
  /\ FailHere(exc, at)
  /\ UNCHANGED <<bases, gens, awaits, modules, uses, abandoned>>

\* A module that is initializing or loaded is returned as it is.
invoke_import(m, at) ==
  /\ Free
  /\ IF modules[m].state # "Uninitialized"
     THEN /\ frames' = Done(frames)
          /\ UNCHANGED <<modules, raised>>
     ELSE IF Len(frames) >= MaxFrames
     THEN /\ frames' = Executing("Call", at)
          /\ FailHere("Other", at)
          /\ UNCHANGED modules
     ELSE /\ frames' = Append(Executing("Import", at),
                              NewFrame(m, [ReturnAction("Import") EXCEPT !.ref = m]))
          /\ modules' = [modules EXCEPT ![m].state = "Initializing"]
          /\ UNCHANGED raised
  /\ UNCHANGED <<bases, gens, awaits, uses, abandoned>>

\* The body of a module binds its names.
StoreGlobal ==
  /\ Free
  /\ Top.action.kind = "Import"
  /\ modules' = [modules EXCEPT ![Top.action.ref].dirty = TRUE]
  /\ UNCHANGED <<frames, bases, gens, awaits, raised, uses, abandoned>>

-----------------------------------------------------------------------------
(* yield from and await.                                                   *)
\* The active frame begins a yield-from, or is back in one after its Yield.
InYieldFrom(d, at) ==
  /\ Running
  /\ "delegation" \in uses
  /\ Top.gen # None
  /\ \/ Top.delegate = None
     \/ Top.delegate = d /\ Top.op = "Resumed" /\ Top.at = at

YieldFromFrames(at) ==
  [Executing("YieldFrom", at) EXCEPT
     ![Len(frames)].delegate = None, ![Len(frames)].injected = None]

WithItem(fs, d) == [fs EXCEPT ![Len(fs)].delegate = d, ![Len(fs)].op = "Item"]

Delegation(d) == [ReturnAction("YieldFrom") EXCEPT !.iterator = d]

\* The delegate is a generator or a coroutine.
YieldFromGenerator(g, at) ==
  /\ InYieldFrom(g, at)
  /\ gens[g].state # "free" /\ KindOf[g] # "async"
  /\ LET error == resume_error(g)
         fs == YieldFromFrames(at)
         exc == Top.injected
         action == IF exc = "GeneratorExit" THEN ReturnAction("YieldFromClose")
                                            ELSE Delegation(g)
     IN CASE error = None ->
               /\ frames' = resume_frames(fs, g, action)
               /\ gens' = resume_state(g)
               /\ raised' = IF exc = None THEN None ELSE Error(exc, Top.code, at)
          [] error = "StopIteration" /\ exc = None ->
               /\ frames' = Done(fs)
               /\ UNCHANGED <<gens, raised>>
          [] OTHER ->
               /\ frames' = fs
               /\ FailHere(error, at)
               /\ UNCHANGED gens
  /\ UNCHANGED <<bases, awaits, modules, uses, abandoned>>

\* The delegate is another iterator: a native one has an item or none; a method
\* of a class is called, and a missing one leaves the exception to this frame.
YieldFromObject(f, at) ==
  /\ InYieldFrom("object", at)
  /\ LET fs == YieldFromFrames(at)
         exc == Top.injected
         action == IF exc = "GeneratorExit" THEN ReturnAction("YieldFromClose")
                                            ELSE Delegation("object")
     IN \/ /\ exc = None
           /\ frames' \in {Done(fs), WithItem(fs, "object")}
           /\ UNCHANGED raised
        \/ /\ frames' = fs
           /\ FailHere(IF exc = None THEN "AttributeError" ELSE exc, at)
        \/ /\ "recursion" \in uses \/ ~OnStack(f)
           /\ Len(frames) < MaxFrames
           /\ frames' = Append(fs, NewFrame(f, action))
           /\ UNCHANGED raised
  /\ UNCHANGED <<bases, gens, awaits, modules, uses, abandoned>>

-----------------------------------------------------------------------------
(* Awaitables of async generators.                                         *)

\* asend, athrow and aclose create an awaitable that does not run yet.
alloc_async_generator_awaitable(a, g, op) ==
  /\ Free
  /\ KindOf[g] = "async" /\ gens[g].state # "free"
  /\ awaits[a].state = "free"
  /\ awaits' = [awaits EXCEPT ![a] = [state |-> "Created", gen |-> g, op |-> op]]
  /\ UNCHANGED <<frames, bases, gens, modules, raised, uses, abandoned>>

\* What driving an awaitable leaves: the frames, generators and awaitables, and
\* the error, which an injected exception is even if a frame was entered.
Outcome(fs, gs, as, error) == [fs |-> fs, gens |-> gs, awaits |-> as, error |-> error]

\* The generator is claimed for the awaitable and resumed.  "accepts" is false
\* for a value that a generator which has not started cannot take.
claim_and_resume(fs, a, action, exc, accepts) ==
  LET g == awaits[a].gen
      error == IF gens[g].state = "Created" /\ ~accepts THEN "Other" ELSE resume_error(g)
      delegated == gens[g].delegate # None
      entered == resume_frames(fs, g, action)
  IN CASE gens[g].driver \notin {None, a} ->
            Outcome(fs, gens, awaits, "Other")
       [] gens[g].driver \in {None, a} /\ error # None ->
            Outcome(fs, [gens EXCEPT ![g].driver = None], set_await_completed({a}), error)
       [] OTHER ->
            Outcome(IF delegated /\ exc # None
                    THEN [entered EXCEPT ![Len(entered)].injected = exc] ELSE entered,
                    [resume_state(g) EXCEPT ![g].driver = a],
                    [awaits EXCEPT ![a].state = "Running"],
                    IF delegated THEN None ELSE exc)

drive_async_generator_awaitable(fs, a, exc, accepts) ==
  LET g == awaits[a].gen
      closing == awaits[a].op = "close"
      injected == CASE awaits[a].state # "Created" -> None
                    [] awaits[a].op = "throw" -> exc
                    [] closing -> "GeneratorExit"
                    [] OTHER -> None
  IN CASE awaits[a].state = "Completed" ->
            Outcome(fs, gens, awaits, "Other")
       [] awaits[a].state # "Completed" /\ gens[g].state = "Completed" ->
            Outcome(fs, gens, set_await_completed({a}),
                    IF closing THEN "StopIteration" ELSE "StopAsyncIteration")
       [] awaits[a].state # "Completed" /\ gens[g].state = "Created" /\ closing ->
            Outcome(fs, complete_generator(g), set_await_completed({a}), "StopIteration")
       [] OTHER -> claim_and_resume(fs, a, Drive(a, closing, "Direct"), injected, accepts)

\* awaitable.close() and awaitable.throw(exc)
inject_async_generator_awaitable(fs, a, exc, closing) ==
  LET g == awaits[a].gen
  IN CASE awaits[a].state = "Completed" ->
            Outcome(fs, gens, awaits, IF closing THEN None ELSE exc)
       [] awaits[a].state # "Completed" /\ closing /\ gens[g].state = "Created" ->
            Outcome(fs, complete_generator(g), set_await_completed({a}), None)
       [] OTHER ->
            claim_and_resume(fs, a, Drive(a, closing, IF closing THEN "CloseMethod" ELSE "Direct"),
                             exc, TRUE)

\* The exception is made of the arguments first; a class is instantiated.
AwaitThrow(fs, a, exc) == inject_async_generator_awaitable(fs, a, exc, FALSE)

AwaitClose(fs, a) == inject_async_generator_awaitable(fs, a, "GeneratorExit", TRUE)

\* A method of an awaitable is called from guest code.
AwaitableCall(a, method, exc, accepts, at) ==
  /\ Free
  /\ awaits[a].state # "free"
  /\ LET fs == Executing("Call", at)
         r == CASE method = "send" -> drive_async_generator_awaitable(fs, a, exc, accepts)
                [] method = "throw" -> AwaitThrow(fs, a, exc)
                [] method = "close" -> AwaitClose(fs, a)
     IN /\ frames' = r.fs
        /\ gens' = r.gens
        /\ awaits' = r.awaits
        /\ raised' = IF r.error = None THEN None ELSE Error(r.error, Top.code, at)
  /\ UNCHANGED <<bases, modules, uses, abandoned>>

\* Mutant: the completion is set on the active frame whether or not the
\* awaitable has entered one.
CompletionAlways(a, exc, accepts, at) ==
  /\ InYieldFrom(a, at)
  /\ awaits[a].state # "free" /\ Top.injected = None
  /\ LET r == drive_async_generator_awaitable(YieldFromFrames(at), a, exc, accepts)
     IN /\ frames' = [r.fs EXCEPT ![Len(r.fs)].action = set_yield_from_completion(@, a)]
        /\ gens' = r.gens
        /\ awaits' = r.awaits
        /\ raised' = IF r.error = None THEN None ELSE Error(r.error, Top.code, at)
  /\ UNCHANGED <<bases, modules, uses, abandoned>>

\* The delegate of an await is an awaitable.  A StopIteration ends the await
\* with a jump of the active frame, whichever frame that is by now.
YieldFromAwaitable(a, exc, accepts, at) ==
  /\ InYieldFrom(a, at)
  /\ awaits[a].state # "free"
  /\ "StopIteration" \in {exc, Top.injected} => "athrow_stop" \in uses
  /\ LET fs == YieldFromFrames(at)
         closing == Top.injected = "GeneratorExit"
         r == CASE Top.injected = None -> drive_async_generator_awaitable(fs, a, exc, accepts)
                [] closing -> inject_async_generator_awaitable(fs, a, Top.injected, TRUE)
                [] OTHER -> inject_async_generator_awaitable(fs, a, Top.injected, FALSE)
         entered == Len(r.fs) > Len(fs)
         ended == ~closing /\ r.error = "StopIteration"
         error == IF closing /\ ~entered /\ r.error = None THEN Top.injected ELSE r.error
     IN /\ frames' = IF entered
                     THEN [r.fs EXCEPT
                             ![Len(r.fs)].action = IF closing
                                                   THEN set_yield_from_close_completion(@)
                                                   ELSE set_yield_from_completion(@, a),
                             ![Len(r.fs)].strayed = ended]
                     ELSE r.fs
        /\ gens' = r.gens
        /\ awaits' = r.awaits
        /\ raised' = IF ended \/ error = None THEN None ELSE Error(error, Top.code, at)
  /\ UNCHANGED <<bases, modules, uses, abandoned>>
-----------------------------------------------------------------------------
(* Return and Yield: the continuation of the caller's instruction.         *)

\* A continuation that computes has a value or fails.  (One that calls __next__
\* of a class again leaves the frames as they are.)
ContinueProtocol(f) ==
  /\ UNCHANGED modules
  /\ \/ frames' = Done(Below(frames)) /\ UNCHANGED raised
     \/ frames' = Below(frames) /\ raised' = Error("Other", f.code, f.at)

\* Frame f has been popped with a value.  What the continuation raises is
\* dispatched with the instruction of f.
Continue(f) ==
  LET cs == Below(frames)
      kind == f.action.kind
  IN CASE kind \in Plain \/ (kind = "AsyncGeneratorDrive" /\ f.action.completion # "YieldFrom") ->
            frames' = Done(cs) /\ UNCHANGED <<modules, raised>>
       [] kind = "YieldFrom" \/ (kind = "AsyncGeneratorDrive" /\ f.action.completion = "YieldFrom") ->
            frames' = WithItem(cs, f.action.iterator) /\ UNCHANGED <<modules, raised>>
       [] kind = "YieldFromClose" ->
            /\ frames' = cs
            /\ raised' = Error("GeneratorExit", f.code, f.at)
            /\ UNCHANGED modules
       [] kind = "Import" ->
            /\ frames' = Done(cs)
            /\ modules' = [modules EXCEPT ![f.action.ref].state = "Loaded"]
            /\ UNCHANGED raised
       [] kind \in Protocols -> ContinueProtocol(f)

\* The end of a frame that is not a generator's.
OpReturn(at) ==
  /\ Free
  /\ Top.gen = None
  /\ Continue([Top EXCEPT !.at = at])
  /\ UNCHANGED <<bases, gens, awaits, uses, abandoned>>

\* The end of a generator or a coroutine: it is completed first, and its frame
\* raises the exception that ends an iteration.
ReturnGenerator(at) ==
  /\ Free
  /\ Top.gen # None
  /\ KindOf[Top.gen] # "async" \/ Top.action.kind = "Close"
  /\ gens' = complete_generator(Top.gen)
  /\ frames' = Executing("Call", at)
  /\ FailHere("StopIteration", at)
  /\ UNCHANGED <<bases, awaits, modules, uses, abandoned>>

\* The end of an async generator that an awaitable drives.  One that has lost
\* its driver fails.
ReturnAsync(at) ==
  /\ Free
  /\ Top.gen # None /\ KindOf[Top.gen] = "async"
  /\ Top.action.kind # "Close"
  /\ gens' = complete_generator(Top.gen)
  /\ awaits' = IF Top.action.kind = "AsyncGeneratorDrive"
               THEN set_await_completed({Top.action.ref}) ELSE awaits
  /\ LET cs == Below(frames)
     IN IF Top.action.kind # "AsyncGeneratorDrive"
        THEN /\ frames' = Executing("Call", at)
             /\ FailHere("Other", at)
        ELSE IF Top.action.closing /\ Top.action.completion # "Direct"
        THEN /\ frames' = cs
             /\ raised' = IF Top.action.completion = "YieldFromClose"
                          THEN Error("GeneratorExit", Top.code, at) ELSE None
        ELSE /\ frames' = Executing("Call", at)
             /\ FailHere(IF Top.action.closing THEN "StopIteration" ELSE "StopAsyncIteration", at)
  /\ UNCHANGED <<bases, modules, uses, abandoned>>

\* A frame may yield, at its yield-from when it has an item of it.
Yielding(at) ==
  /\ Running
  /\ Top.gen # None
  /\ \/ Top.delegate = None /\ Top.injected = None
     \/ Top.op = "Item" /\ Top.at = at

suspend_active_generator(at) ==
  [gens EXCEPT ![Top.gen].state = "Suspended", ![Top.gen].at = at,
               ![Top.gen].delegate = Top.delegate]

\* Yield, and the Yield of an await in an async generator.  A generator that is
\* being closed may not yield.
OpYield(at) ==
  /\ Yielding(at)
  /\ KindOf[Top.gen] = "generator" \/ Top.delegate # None
  /\ LET refused == \/ Top.action.kind \in {"Close", "YieldFromClose"}
                    \/ /\ Top.action.kind = "AsyncGeneratorDrive" /\ Top.action.closing
                       /\ Top.action.completion \in {"CloseMethod", "YieldFromClose"}
     IN IF refused
        THEN /\ gens' = complete_generator(Top.gen)
             /\ awaits' = set_await_completed({Top.action.ref})
             /\ frames' = Executing("Call", at)
             /\ FailHere("Other", at)
             /\ UNCHANGED modules
        ELSE /\ gens' = suspend_active_generator(at)
             /\ Continue([Top EXCEPT !.at = at])
             /\ UNCHANGED awaits
  /\ UNCHANGED <<bases, uses, abandoned>>

\* A consumer resumes the generator it has just got an item from.
YieldAgain(at) ==
  /\ Yielding(at)
  /\ KindOf[Top.gen] = "generator"
  /\ Top.action.kind \in Consumers
  /\ frames' = Executing("Resumed", at)
  /\ UNCHANGED <<bases, gens, awaits, modules, raised, uses, abandoned>>

\* An async generator yields a value to the awaitable that drives it.
OpAsyncYield(at) ==
  /\ Yielding(at)
  /\ KindOf[Top.gen] = "async" /\ Top.delegate = None
  /\ IF Top.action.kind # "AsyncGeneratorDrive"
     THEN /\ gens' = IF Top.action.kind = "Close" THEN complete_generator(Top.gen)
                                                ELSE suspend_active_generator(at)
          /\ frames' = Executing("Call", at)
          /\ FailHere("Other", at)
          /\ UNCHANGED awaits
     ELSE /\ awaits' = set_await_completed({Top.action.ref})
          /\ IF Top.action.closing
             THEN /\ frames' = Below(frames)
                  /\ gens' = complete_generator(Top.gen)
                  /\ raised' = Error("Other", Top.code, at)
             ELSE /\ gens' = [suspend_active_generator(at) EXCEPT ![Top.gen].driver =
                                IF @ = Top.action.ref THEN None ELSE @]
                  /\ IF Top.action.completion = "YieldFrom"
                     THEN /\ frames' = Done([Below(frames) EXCEPT ![Len(frames) - 1].delegate = None])
                          /\ UNCHANGED raised
                     ELSE /\ frames' = Below(frames)
                          /\ raised' = Error("StopIteration", Top.code, at)
  /\ UNCHANGED <<bases, modules, uses, abandoned>>

-----------------------------------------------------------------------------
(* Native code that calls the guest.                                       *)

\* reenter_from_native and the other callers of execute_until_depth.
NativeCall(f, at) ==
  /\ Free
  /\ "native" \in uses
  /\ "recursion" \in uses \/ ~OnStack(f)
  /\ Len(frames) < MaxFrames
  /\ bases' = Append(bases, Len(frames))
  /\ frames' = Append(Executing("Call", at), NewFrame(f, ReturnAction("Value")))
  /\ UNCHANGED <<gens, awaits, modules, raised, uses, abandoned>>

NativeReturn ==
  /\ raised = None
  /\ Len(bases) > 1 /\ Len(frames) = Base
  /\ bases' = Below(bases)
  /\ UNCHANGED <<frames, gens, awaits, modules, raised, uses, abandoned>>

\* finalize_one_generator closes a suspended generator that nothing refers to.
finalize_one_generator(g) ==
  /\ Running
  /\ "finalizers" \in uses
  /\ gens[g].state = "Suspended" /\ resume_error(g) = None
  /\ \A i \in DOMAIN frames : frames[i].delegate # g
  /\ \A h \in Generators : gens[h].delegate # g
  /\ \A a \in Awaitables : awaits[a].gen # g \/ awaits[a].state = "Completed"
  /\ bases' = Append(bases, Len(frames))
  /\ inject(resume_frames(frames, g, ReturnAction("Close")), gens[g].delegate # None,
            "GeneratorExit", CodeOf[g], gens[g].at)
  /\ gens' = resume_state(g)
  /\ UNCHANGED <<awaits, modules, uses, abandoned>>

-----------------------------------------------------------------------------
(* dispatch_exception: one call of it.  The frames are searched from the   *)
(* active one down to the native boundary; the first that stops the        *)
(* exception decides, and every one above it is left.                      *)

Raised == raised # None /\ ~raised.direct

fault_pc(i) ==
  IF i = Len(frames) /\ frames[i].code = raised.code THEN raised.at ELSE frames[i].at

InRegion(i) == Alive(frames[i]) /\ fault_pc(i) = "try"

Converts(i) ==
  /\ frames[i].gen # None /\ Alive(frames[i])
  /\ \/ raised.exc = "StopIteration"
     \/ raised.exc = "StopAsyncIteration" /\ KindOf[frames[i].gen] = "async"

ClosesDriven(i) ==
  /\ frames[i].action.kind = "AsyncGeneratorDrive"
  /\ frames[i].action.closing /\ raised.exc = "GeneratorExit"

\* The continuations that take an exception for a result.
Consumes(i) ==
  LET kind == frames[i].action.kind
  IN \/ raised.exc = "KeyError" /\ kind = "NamespaceLookup"
     \/ raised.exc = "AttributeError" /\ kind = "AttributeGet"
     \/ raised.exc \in {"StopIteration", "GeneratorExit"} /\ kind \in {"YieldFromClose", "Close"}
     \/ /\ raised.exc = "StopIteration"
        /\ kind \in Consumers \cup {"NextDefault", "IteratorNext", "YieldFrom"}

Stops(i) == InRegion(i) \/ Converts(i) \/ ClosesDriven(i) \/ Consumes(i)

\* Mutant: the search begins at the bottom of the stack.
StopOutermost ==
  LET S == {i \in Base + 1 .. Len(frames) : Stops(i)}
  IN IF S = {} THEN Base ELSE CHOOSE i \in S : \A j \in S : i <= j

\* The position of the frame that stops the exception, Base if there is none.
Stop ==
  LET S == {i \in Base + 1 .. Len(frames) : Stops(i)}
  IN IF S = {} THEN Base ELSE CHOOSE i \in S : \A j \in S : j <= i

GensFrom(i) == {frames[j].gen : j \in i .. Len(frames)} \ {None}

AwaitsFrom(i) ==
  {frames[j].action.ref : j \in {k \in i .. Len(frames) :
                                  frames[k].action.kind = "AsyncGeneratorDrive"}}

ImportsFrom(i) ==
  {frames[j].action.ref : j \in {k \in i .. Len(frames) : frames[k].action.kind = "Import"}}

\* Mutant: the generators of the frames that are left stay as they are.
HandlerKeepsGenerators ==
  /\ Raised
  /\ Stop > Base /\ InRegion(Stop)
  /\ frames' = [SubSeq(frames, 1, Stop) EXCEPT
                   ![Stop].at = "handler", ![Stop].op = "none"]
  /\ awaits' = set_await_completed(AwaitsFrom(Stop + 1))
  /\ modules' = reset_import_frames(Stop + 1)
  /\ raised' = None
  /\ UNCHANGED <<bases, gens, uses, abandoned>>

\* A region of a frame: the frame goes on at its handler.
EnterHandler ==
  /\ Raised
  /\ Stop > Base /\ InRegion(Stop)
  /\ frames' = [SubSeq(frames, 1, Stop) EXCEPT
                   ![Stop].at = "handler", ![Stop].op = "none"]
  /\ gens' = complete_generators(GensFrom(Stop + 1))
  /\ awaits' = set_await_completed(AwaitsFrom(Stop + 1))
  /\ modules' = reset_import_frames(Stop + 1)
  /\ raised' = None
  /\ UNCHANGED <<bases, uses, abandoned>>

\* Mutant: the generator stays as it is while its exception is converted.
ConvertOnly ==
  /\ Raised
  /\ Stop > Base /\ ~InRegion(Stop) /\ Converts(Stop)
  /\ raised' = [raised EXCEPT !.exc = "Other"]
  /\ UNCHANGED <<frames, bases, gens, awaits, modules, uses, abandoned>>

\* PEP 479: the end of an iteration may not leave a generator that is running.
ConvertStopIteration ==
  /\ Raised
  /\ Stop > Base /\ ~InRegion(Stop) /\ Converts(Stop)
  /\ gens' = complete_generators(GensFrom(Stop))
  /\ awaits' = set_await_completed(AwaitsFrom(Stop + 1))
  /\ raised' = [raised EXCEPT !.exc = "Other"]
  /\ UNCHANGED <<frames, bases, modules, uses, abandoned>>

\* Frames from position i on are dropped without a look at their imports; the
\* caller's instruction is the one a new exception is dispatched with.
Dropped(i) == abandoned' = abandoned \cup ImportsFrom(i)

AtCaller(i, exc) ==
  IF i = 1 THEN Error(exc, None, "plain") ELSE Error(exc, frames[i - 1].code, frames[i - 1].at)

\* An async generator that is being closed ends with the GeneratorExit.
CloseDriven ==
  /\ Raised
  /\ Stop > Base
  /\ ~InRegion(Stop) /\ ~Converts(Stop) /\ ClosesDriven(Stop)
  /\ gens' = complete_generators(GensFrom(Stop))
  /\ awaits' = set_await_completed(AwaitsFrom(Stop))
  /\ Dropped(Stop)
  /\ LET fs == SubSeq(frames, 1, Stop - 1)
         completion == frames[Stop].action.completion
     IN CASE completion = "YieldFrom" ->
               frames' = Done([fs EXCEPT ![Stop - 1].delegate = None]) /\ raised' = None
          [] completion = "CloseMethod" -> frames' = Done(fs) /\ raised' = None
          [] completion = "YieldFromClose" ->
               frames' = fs /\ raised' = AtCaller(Stop, "GeneratorExit")
          [] completion = "Direct" ->
               frames' = fs /\ raised' = AtCaller(Stop, "StopIteration")
  /\ UNCHANGED <<bases, modules, uses>>

\* The arms of a consumed exception leave the caller's frames fs with a value,
\* with a frame of the guest, or with an exception raised in the caller.
Ends(fs) == frames' = Done(fs) /\ raised' = None
FailsInCaller(fs, exc) == frames' = fs /\ raised' = AtCaller(Stop, exc)
CallsGuest(fs) ==
  /\ frames' \in {Append(fs, NewFrame(f, ReturnAction("Value"))) :
                   f \in (uses \cap Functions) \ {fs[i].code : i \in DOMAIN fs}}
  /\ raised' = None

\* The name is looked up in the globals and the builtins instead.
NamespaceMissing(fs) ==
  \/ frames' = fs /\ raised' = None
  \/ FailsInCaller(fs, "Other")

\* continue_attribute_missing: __getattr__, or the default of getattr.
MissingAttribute(fs) ==
  \/ frames' = fs /\ raised' = None
  \/ FailsInCaller(fs, "Other")
  \/ CallsGuest(fs)

\* close() of the delegate has ended: the GeneratorExit goes on in the caller.
DelegateClosed(fs) == FailsInCaller(fs, "GeneratorExit")

\* The delegate has ended, and so has the yield-from.
DelegateEnded(fs) == Ends([fs EXCEPT ![Stop - 1].delegate = None])

\* What was collected is made into the collection, which may call the guest.
CollectionEnds(fs) ==
  \/ frames' = fs /\ raised' = None
  \/ FailsInCaller(fs, "Other")
  \/ CallsGuest(fs)

\* finish_extremum and materialize_sum_total fail in dispatch_exception itself.
ReductionEnds(fs) ==
  \/ Ends(fs)
  \/ /\ "failing_finish" \in uses
     /\ frames' = fs
     /\ raised' = [AtCaller(Stop, "Other") EXCEPT !.direct = TRUE]

\* The continuation at Stop takes the exception for a result.
Consume ==
  /\ Raised
  /\ Stop > Base
  /\ ~InRegion(Stop) /\ ~Converts(Stop) /\ ~ClosesDriven(Stop) /\ Consumes(Stop)
  /\ gens' = complete_generators(GensFrom(Stop))
  /\ awaits' = set_await_completed(AwaitsFrom(Stop))
  /\ Dropped(Stop)
  /\ LET fs == SubSeq(frames, 1, Stop - 1)
         kind == frames[Stop].action.kind
     IN CASE kind = "YieldFromClose" -> DelegateClosed(fs)
          [] kind = "YieldFrom" -> DelegateEnded(fs)
          [] kind \in {"NextDefault", "IteratorNext", "Close", "MembershipNext",
                       "BoolReduceNext", "ExpandIterableNext"} -> Ends(fs)
          [] kind = "NamespaceLookup" -> NamespaceMissing(fs)
          [] kind = "AttributeGet" -> MissingAttribute(fs)
          [] kind \in {"DictIterableNext", "DictPairNext", "CollectIterableNext"} ->
               CollectionEnds(fs)
          [] kind \in {"SumNext", "ExtremumNext"} -> ReductionEnds(fs)
  /\ UNCHANGED <<bases, modules, uses>>

\* Execution ends with the error, and so does the native call or the program.
\* Native code passes it on, or keeps it (a finalizer, a task).
Escape ==
  /\ raised # None
  /\ raised.direct \/ Stop = Base
  /\ IF raised.direct
     THEN UNCHANGED <<gens, awaits, modules>>
     ELSE /\ gens' = complete_generators(GensFrom(Base + 1))
          /\ awaits' = set_await_completed(AwaitsFrom(Base + 1))
          /\ modules' = reset_import_frames(Base + 1)
  /\ frames' = SubSeq(frames, 1, Base)
  /\ IF Len(bases) = 1
     THEN raised' = None /\ UNCHANGED bases
     ELSE /\ bases' = Below(bases)
          /\ raised' \in {None, Error(raised.exc, Last(frames').code, Last(frames').at)}
  /\ UNCHANGED <<uses, abandoned>>

dispatch_exception ==
  EnterHandler \/ ConvertStopIteration \/ CloseDriven \/ Consume \/ Escape
-----------------------------------------------------------------------------
Instruction ==
  \/ \E f \in uses \cap Functions, kind \in uses \cap (Plain \cup Protocols), at \in Sites : Call(f, kind, at)
  \/ \E g \in uses \cap Generators : freeze_generator_call(g)
  \/ \E g \in uses \cap Generators, at \in Sites : OpNext(g, at)
  \/ \E g \in uses \cap Generators, kind \in uses \cap (Consumers \cup {"Next", "NextDefault"}), at \in Sites :
       ResumeCall(g, kind, at)
  \/ \E g \in uses \cap Generators, exc \in uses \cap Exceptions, at \in Sites : GeneratorThrow(g, exc, at)
  \/ \E g \in uses \cap Generators, at \in Sites : GeneratorClose(g, at)
  \/ \E exc \in uses \cap Exceptions, at \in Sites : OpRaise(exc, at)
  \/ \E m \in uses \cap Modules, at \in Sites : invoke_import(m, at)
  \/ StoreGlobal
  \/ \E g \in uses \cap Generators, at \in Sites : YieldFromGenerator(g, at)
  \/ \E f \in uses \cap Functions, at \in Sites : YieldFromObject(f, at)
  \/ \E a \in uses \cap Awaitables, g \in uses \cap Generators, op \in {"send", "throw", "close"} :
       alloc_async_generator_awaitable(a, g, op)
  \/ \E a \in uses \cap Awaitables, method \in {"send", "throw", "close"}, exc \in uses \cap Exceptions,
        accepts \in BOOLEAN, at \in Sites : AwaitableCall(a, method, exc, accepts, at)
  \/ \E a \in uses \cap Awaitables, exc \in uses \cap Exceptions, accepts \in BOOLEAN, at \in Sites :
       YieldFromAwaitable(a, exc, accepts, at)
  \/ \E at \in Sites : OpReturn(at)
  \/ \E at \in Sites : ReturnGenerator(at)
  \/ \E at \in Sites : ReturnAsync(at)
  \/ \E at \in Sites : OpYield(at)
  \/ \E at \in Sites : YieldAgain(at)
  \/ \E at \in Sites : OpAsyncYield(at)
  \/ \E f \in uses \cap Functions, at \in Sites : NativeCall(f, at)
  \/ \E g \in uses \cap Generators : finalize_one_generator(g)

Next == Instruction \/ NativeReturn \/ dispatch_exception

Spec == Init /\ [][Next]_vars

-----------------------------------------------------------------------------
(* Properties.                                                             *)

\* Two paths lose what is on the stack.  A reduction that fails as it ends leaves
\* execute_until_depth without a search: the frames are cut off, and nothing
\* completes their generators or resets their imports.  An Op::Next whose
\* resumption fails replaces the continuation of its own frame: that of an import,
\* or that of an async generator which a finalizer closes.
CutOff == "failing_finish" \in uses
Replaced == "failing_next" \in uses
Accounted == ~CutOff /\ ~(Replaced /\ "finalizers" \in uses)

\* A generator is Running exactly while one frame of the stack is its frame; a
\* completed one has a frame only while an exception unwinds it.  Unwinding
\* that forgets a generator would leave it "already executing" for ever.  And
\* while an awaitable drives an async generator no other one does, until the
\* generator yields a value, ends or fails.
RunningOnStack ==
  Accounted =>
  /\ \A g \in Generators :
       gens[g].state = "Running" =>
         Cardinality({i \in DOMAIN frames : frames[i].gen = g}) = 1
  /\ \A i \in DOMAIN frames :
       frames[i].gen # None =>
         \/ gens[frames[i].gen].state = "Running"
         \/ gens[frames[i].gen].state = "Completed" /\ raised # None
  /\ \A a, b \in Awaitables :
       (a # b /\ awaits[a].gen = awaits[b].gen) =>
         ~ (awaits[a].state = "Running" /\ awaits[b].state = "Running")

\* A module that is being initialized has its import on the stack, or its
\* failure was taken for the end of an iteration; a module that can be imported
\* again has no bindings of an earlier attempt.
ImportsReset ==
  \A m \in Modules :
    /\ (modules[m].state = "Initializing" /\ ~CutOff /\ ~Replaced) =>
         m \in ImportsFrom(1) \cup abandoned
    /\ modules[m].state = "Uninitialized" => ~modules[m].dirty

\* The continuation that a frame keeps belongs to the instruction its caller is
\* at: only a for loop is continued by a jump out of the loop, only yield-from
\* by an item or the end of its delegate, only an import by its module; and no
\* instruction of another frame moves its instruction pointer.  An Op::Next whose
\* resumption fails and an athrow of StopIteration do mistake the frame.
ContinuationOfCaller ==
  uses \cap {"failing_next", "athrow_stop"} = {} =>
  \A i \in 2 .. Len(frames) :
    LET kind == frames[i].action.kind
        op == frames[i - 1].op
    IN /\ kind = "IteratorNext" => op = "Next"
       /\ kind \in {"YieldFrom", "YieldFromClose"} => op = "YieldFrom"
       /\ kind = "Import" => op = "Import"
       /\ ~frames[i].strayed

\* An exception never drops a frame that has a handler for its instruction, and
\* a handler is entered only by a frame whose own instruction it covers.  In
\* recursive code the faulting instruction is mistaken for the callee's (a
\* generator that is not accounted for may be resumed while it is on the stack),
\* and a reduction that fails as it ends passes the handlers by.
NoHandlerSkipped ==
  [][(raised # None /\ Accounted /\ "recursion" \notin uses) =>
       /\ \A i \in Len(frames') + 1 .. Len(frames) :
            ~(Alive(frames[i]) /\ frames[i].at = "try")
       /\ \A i \in DOMAIN frames \cap DOMAIN frames' :
            frames'[i].at = "handler" => frames[i].at \in {"try", "handler"}]_vars

\* Unwinding ends: a call of dispatch_exception that raises another exception
\* has dropped frames or has completed a generator for good, so conversions and
\* consumed exceptions that raise others cannot go on for ever.
UnwindingAdvances ==
  [][(raised # None /\ raised' # None) =>
       \/ Len(frames') < Len(frames)
       \/ /\ frames' = frames
          /\ \E g \in Generators :
               gens[g].state # "Completed" /\ gens'[g].state = "Completed"]_vars

=============================================================================
