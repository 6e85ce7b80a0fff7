-------------------------- MODULE TonicFinalization --------------------------
(***************************************************************************)
(* When the Tonic virtual machine runs finalizers: the drains of suspended *)
(* generators, of objects with __del__ and of foreign payloads, at the     *)
(* safepoints of running code, at the end of a run, after an explicit      *)
(* collection and during shutdown, and how they nest in one another.       *)
(*                                                                         *)
(* Source: crates/tonic-runtime/src/{vm.rs, heap.rs}.  Objects are counted *)
(* and not named: TonicHeap has their identities.  What guest code         *)
(* computes is open; it may create finalizable objects and finish          *)
(* generators, and memory pressure may collect at any of its safepoints,   *)
(* also inside a finalizer.                                                *)
(***************************************************************************)
EXTENDS Integers, Sequences

CONSTANTS
  GENERATOR_FINALIZERS_PER_SAFEPOINT,
  OBJECT_FINALIZERS_PER_SAFEPOINT,
  MaxGenerators,   \* bounds: suspended generators, objects with __del__ and
  MaxObjects,      \* foreign wrappers that the program creates
  MaxForeign

ASSUME FinalizationAssumption ==
  /\ GENERATOR_FINALIZERS_PER_SAFEPOINT \in Nat \ {0}
  /\ OBJECT_FINALIZERS_PER_SAFEPOINT \in Nat \ {0}
  /\ MaxGenerators \in Nat
  /\ MaxObjects \in Nat
  /\ MaxForeign \in Nat

VARIABLES
  created,    \* objects created so far, by category
  alive,      \* those that were not queued for finalization yet
  pending,    \* those in the queue of their category
  allocated,  \* something may have been allocated since the last collection
  draining,   \* the categories whose draining flag is set
  stack,      \* activations of code and of drains, the innermost last
  host,       \* what the embedder asked for last: operation, place, outcome
  phase,      \* RuntimePhase
  cleared     \* finalize_shutdown has given up the runtime's roots

vars == <<created, alive, pending, allocated, draining, stack, host, phase, cleared>>

-----------------------------------------------------------------------------
(* Activations and queues.                                                 *)

Categories == {"generator", "object", "foreign"}

Bound == [generator |-> MaxGenerators, object |-> MaxObjects, foreign |-> MaxForeign]

Counts == [Categories -> Nat]

\* execute_until_depth, with its local generators_pending.
Code(at, generatorsPending) ==
  [kind |-> "code", at |-> at, generatorsPending |-> generatorsPending]

CodePlaces == {"safepoint", "drained", "objects", "foreign", "collect", "instruction",
               "side_exit", "raise"}

\* A drain that may take "left" more entries.
Drain(category, at, left) == [kind |-> category, at |-> at, left |-> left]

DrainPlaces == {"pop", "finalizing", "reporting", "raise"}

Activation ==
  [kind : {"code"}, at : CodePlaces, generatorsPending : BOOLEAN]
    \cup [kind : {"generator", "object"}, at : DrainPlaces, left : Nat]

NewCode == Code("safepoint", FALSE)

\* A drain with limit usize::MAX takes all there can be.
Unlimited(category) == Bound[category]

Depth == Len(stack)

Innermost == stack[Depth]

Caller == stack[Depth - 1]

InCode(at) == stack # <<>> /\ Innermost.kind = "code" /\ Innermost.at = at

InDrain(category, at) == stack # <<>> /\ Innermost.kind = category /\ Innermost.at = at

\* The innermost activation goes on at another place, or returns.
Goto(at) == stack' = [stack EXCEPT ![Depth].at = at]

Outer == SubSeq(stack, 1, Depth - 1)

Idle == host.at = "idle"

HostAt(at) == [host EXCEPT !.at = at]

Finished(ok) == [host EXCEPT !.at = "idle", !.ok = ok]

-----------------------------------------------------------------------------
(* Collections.  Any object that was not queued yet may be unreachable.    *)

Queue(found) ==
  /\ \A c \in Categories : found[c] <= alive[c]
  /\ alive' = [c \in Categories |-> alive[c] - found[c]]
  /\ pending' = [c \in Categories |-> pending[c] + found[c]]

Collection ==
  /\ allocated' = FALSE
  /\ \E g \in 0 .. alive["generator"], o \in 0 .. alive["object"], f \in 0 .. alive["foreign"] :
       Queue([generator |-> g, object |-> o, foreign |-> f])

\* A collection without roots: what it does not queue, something it queued
\* keeps alive.
CollectionWithoutRoots ==
  \E g \in 0 .. alive["generator"], o \in 0 .. alive["object"], f \in 0 .. alive["foreign"] :
    /\ g = 0 => alive["generator"] = 0
    /\ g = 0 /\ o = 0 => alive["object"] = 0 /\ f = alive["foreign"]
    /\ Queue([generator |-> g, object |-> o, foreign |-> f])

\* drain_foreign_finalizers: all of the queue; destructors run no guest code.
ForeignDrained == [pending EXCEPT !["foreign"] = 0]

-----------------------------------------------------------------------------
(* drain_generator_finalizers and drain_object_finalizers.                 *)

\* A call with the given limit from the activations "callers".  A drain of the
\* category that is under way makes it return at once.
CallDrain(category, limit, callers) ==
  IF category \in draining
  THEN stack' = callers /\ UNCHANGED draining
  ELSE /\ stack' = Append(callers, Drain(category, "pop", limit))
       /\ draining' = draining \cup {category}

\* An entry is taken and finalized, unless it needs no finalization any more or
\* its finalizer cannot be looked up.
PopFinalizer(category) ==
  /\ InDrain(category, "pop")
  /\ Innermost.left > 0
  /\ pending[category] > 0
  /\ pending' = [pending EXCEPT ![category] = @ - 1]
  /\ LET taken == [Innermost EXCEPT !.left = @ - 1] IN
       \/ \E at \in {"pop", "raise"} : stack' = Append(Outer, [taken EXCEPT !.at = at])
       \/ stack' = Append(Append(Outer, [taken EXCEPT !.at = "finalizing"]), NewCode)
  /\ allocated' = TRUE
  /\ UNCHANGED <<created, alive, draining, host, phase, cleared>>

\* The exception of a finalizer is handed to sys.unraisablehook, which is code,
\* unless there is no hook or its arguments cannot be made.
ReportUnraisable(category) ==
  /\ InDrain(category, "reporting")
  /\ \/ stack' = Append(stack, NewCode)
     \/ \E at \in {"pop", "raise"} : Goto(at)
  /\ UNCHANGED <<created, allocated, alive, pending, draining, host, phase, cleared>>

\* Faulty variant: an error leaves the drain before the flag is reset.
FlagKept(category) ==
  /\ \/ InDrain(category, "pop") /\ (Innermost.left = 0 \/ pending[category] = 0)
     \/ InDrain(category, "raise")
  /\ draining' = IF Innermost.at = "raise" THEN draining ELSE draining \ {category}
  /\ IF Depth = 1
     THEN stack' = <<>> /\ host' = IF Innermost.at = "raise" THEN Finished(FALSE) ELSE host
     ELSE /\ stack' = IF Innermost.at = "raise"
                      THEN [Outer EXCEPT ![Depth - 1].at = "raise"] ELSE Outer
          /\ UNCHANGED host
  /\ UNCHANGED <<created, allocated, alive, pending, phase, cleared>>

\* The queue is empty, the limit is reached, or an error that is not the
\* guest's own ends the drain; its caller fails as well then.
ReturnFromDrain(category) ==
  /\ \/ InDrain(category, "pop") /\ (Innermost.left = 0 \/ pending[category] = 0)
     \/ InDrain(category, "raise")
  /\ draining' = draining \ {category}
  /\ IF Depth = 1
     THEN stack' = <<>> /\ host' = IF Innermost.at = "raise" THEN Finished(FALSE) ELSE host
     ELSE /\ stack' = IF Innermost.at = "raise"
                      THEN [Outer EXCEPT ![Depth - 1].at = "raise"] ELSE Outer
          /\ UNCHANGED host
  /\ UNCHANGED <<created, allocated, alive, pending, phase, cleared>>

DrainStep ==
  \E category \in {"generator", "object"} :
    PopFinalizer(category) \/ ReportUnraisable(category) \/ ReturnFromDrain(category)

-----------------------------------------------------------------------------
(* execute_until_depth: the safepoint before every instruction.            *)

SafepointGenerators ==
  /\ InCode("safepoint")
  /\ LET next == [stack EXCEPT ![Depth].at = "drained"] IN
       IF pending["generator"] > 0 /\ "generator" \notin draining
       THEN CallDrain("generator", GENERATOR_FINALIZERS_PER_SAFEPOINT, next)
       ELSE stack' = next /\ UNCHANGED draining
  /\ UNCHANGED <<created, allocated, alive, pending, host, phase, cleared>>

\* generators_pending is read here, and is not read again in this safepoint.
SafepointReads ==
  /\ InCode("drained")
  /\ stack' = [stack EXCEPT ![Depth] = Code("objects", pending["generator"] > 0)]
  /\ UNCHANGED <<created, allocated, alive, pending, draining, host, phase, cleared>>

\* Faulty variant: objects are finalized inside the finalizer of a generator.
ObjectsAnywhere ==
  /\ InCode("objects")
  /\ LET next == [stack EXCEPT ![Depth].at = "foreign"] IN
       IF /\ pending["object"] > 0
          /\ ~ Innermost.generatorsPending
          /\ "object" \notin draining
       THEN CallDrain("object", OBJECT_FINALIZERS_PER_SAFEPOINT, next)
       ELSE stack' = next /\ UNCHANGED draining
  /\ UNCHANGED <<created, allocated, alive, pending, host, phase, cleared>>

SafepointObjects ==
  /\ InCode("objects")
  /\ LET next == [stack EXCEPT ![Depth].at = "foreign"] IN
       IF pending["object"] > 0 /\ ~ Innermost.generatorsPending /\ draining = {}
       THEN CallDrain("object", OBJECT_FINALIZERS_PER_SAFEPOINT, next)
       ELSE stack' = next /\ UNCHANGED draining
  /\ UNCHANGED <<created, allocated, alive, pending, host, phase, cleared>>

\* Faulty variant: destructors run in the middle of a finalizer.
ForeignAnywhere ==
  /\ InCode("foreign")
  /\ pending' = IF ~ Innermost.generatorsPending /\ pending["object"] = 0
                THEN ForeignDrained ELSE pending
  /\ Goto("collect")
  /\ UNCHANGED <<created, allocated, alive, draining, host, phase, cleared>>

SafepointForeign ==
  /\ InCode("foreign")
  /\ IF ~ Innermost.generatorsPending /\ pending["object"] = 0 /\ draining = {}
     THEN pending' = ForeignDrained /\ \E at \in {"collect", "raise"} : Goto(at)
     ELSE Goto("collect") /\ UNCHANGED pending
  /\ UNCHANGED <<created, allocated, alive, draining, host, phase, cleared>>

\* collect_automatic, if enough was allocated; the safepoint starts again then.
SafepointCollect ==
  /\ InCode("collect")
  /\ \/ allocated /\ Collection /\ Goto("safepoint")
     \/ \E at \in {"instruction", "raise"} : Goto(at) /\ UNCHANGED <<alive, pending, allocated>>
  /\ UNCHANGED <<created, draining, host, phase, cleared>>

Safepoint ==
  SafepointGenerators \/ SafepointReads \/ SafepointObjects \/ SafepointForeign \/ SafepointCollect

-----------------------------------------------------------------------------
(* Guest code between two safepoints.                                      *)

\* After a side exit of compiled code the interpreter runs the instruction.
AtInstruction == InCode("instruction") \/ InCode("side_exit")

NextInstruction ==
  /\ AtInstruction
  /\ Goto("safepoint")
  /\ allocated' = TRUE
  /\ UNCHANGED <<created, alive, pending, draining, host, phase, cleared>>

Create(category) ==
  /\ AtInstruction
  /\ created[category] < Bound[category]
  /\ created' = [created EXCEPT ![category] = @ + 1]
  /\ alive' = [alive EXCEPT ![category] = @ + 1]
  /\ Goto("safepoint")
  /\ allocated' = TRUE
  /\ UNCHANGED <<pending, draining, host, phase, cleared>>

\* A suspended generator is run to its end and needs no finalization.
CompleteGenerator ==
  /\ AtInstruction
  /\ alive["generator"] > 0
  /\ alive' = [alive EXCEPT !["generator"] = @ - 1]
  /\ Goto("safepoint")
  /\ allocated' = TRUE
  /\ UNCHANGED <<created, pending, draining, host, phase, cleared>>

\* Compiled code collects at its own safepoint and drains nothing.  It goes on
\* to the interpreter's next safepoint (before a return, too), or it leaves an
\* instruction that it does not support to the interpreter, with no safepoint.
JitSafepoint ==
  /\ InCode("instruction")
  /\ allocated
  /\ Collection
  /\ \E at \in {"safepoint", "side_exit"} : Goto(at)
  /\ UNCHANGED <<created, draining, host, phase, cleared>>

GuestStep ==
  \/ NextInstruction
  \/ \E category \in Categories : Create(category)
  \/ CompleteGenerator
  \/ JitSafepoint

\* The activation is over.  A drain looks at how its finalizer ended; it fails
\* itself if the exception of the finalizer cannot be created.  Whatever the
\* hook does is dropped.
AfterFinalizer(ok) ==
  IF Caller.at = "reporting" \/ ok THEN {"pop"} ELSE {"reporting", "raise"}

EndCode(ok) ==
  /\ \/ InCode("instruction")
     \/ (InCode("side_exit") \/ InCode("raise")) /\ ~ ok
  /\ IF Depth = 1
     THEN /\ stack' = <<>>
          /\ host' = IF ok THEN HostAt("generators") ELSE Finished(FALSE)
     ELSE /\ \E at \in AfterFinalizer(ok) : stack' = [Outer EXCEPT ![Depth - 1].at = at]
          /\ UNCHANGED host
  /\ UNCHANGED <<created, allocated, alive, pending, draining, phase, cleared>>

CodeEnds == \E ok \in BOOLEAN : EndCode(ok)

-----------------------------------------------------------------------------
(* Operations of the embedder.                                             *)

\* run and call: code is entered; execute then drains what is left.
HostRun ==
  /\ Idle
  /\ phase = "Running"
  /\ host' = [op |-> "run", at |-> "code", ok |-> TRUE]
  /\ stack' = <<NewCode>>
  /\ allocated' = TRUE
  /\ UNCHANGED <<created, alive, pending, draining, phase, cleared>>

CollectGarbage ==
  /\ Idle
  /\ phase = "Running"
  /\ Collection
  /\ host' = [op |-> "collect", at |-> "generators", ok |-> TRUE]
  /\ UNCHANGED <<created, draining, stack, phase, cleared>>

BeginShutdown ==
  /\ Idle
  /\ phase = "Running"
  /\ phase' = "ShuttingDown"
  /\ UNCHANGED <<created, allocated, alive, pending, draining, stack, host, cleared>>

\* Faulty variant: the roots are cleared before the finalizers run.
RootsClearedFirst ==
  /\ Idle
  /\ phase = "ShuttingDown"
  /\ phase' = "Finalizing"
  /\ Queue([alive EXCEPT !["foreign"] = 0])
  /\ host' = [op |-> "shutdown", at |-> "generators", ok |-> TRUE]
  /\ cleared' = TRUE
  /\ UNCHANGED <<created, allocated, draining, stack>>

\* finalize_shutdown queues every generator and every object with __del__.
FinalizeShutdown ==
  /\ Idle
  /\ phase = "ShuttingDown"
  /\ phase' = "Finalizing"
  /\ Queue([alive EXCEPT !["foreign"] = 0])
  /\ host' = [op |-> "shutdown", at |-> "generators", ok |-> TRUE]
  /\ UNCHANGED <<created, allocated, draining, stack, cleared>>

\* Queueing the objects fails half way; the phase has changed by then.
FinalizeShutdownFails ==
  /\ Idle
  /\ phase = "ShuttingDown"
  /\ phase' = "Finalizing"
  /\ \E o \in 0 .. alive["object"] :
       Queue([alive EXCEPT !["object"] = o, !["foreign"] = 0])
  /\ host' = [op |-> "shutdown", at |-> "idle", ok |-> FALSE]
  /\ UNCHANGED <<created, allocated, draining, stack, cleared>>

\* while has_pending: drain.  The loops are the same for run, collect, shutdown.
HostGenerators ==
  /\ host.at = "generators"
  /\ stack = <<>>
  /\ IF pending["generator"] > 0
     THEN CallDrain("generator", Unlimited("generator"), <<>>) /\ UNCHANGED host
     ELSE host' = HostAt("objects") /\ UNCHANGED <<stack, draining>>
  /\ UNCHANGED <<created, allocated, alive, pending, phase, cleared>>

HostObjects ==
  /\ host.at = "objects"
  /\ stack = <<>>
  /\ IF pending["object"] > 0
     THEN CallDrain("object", Unlimited("object"), <<>>) /\ UNCHANGED host
     ELSE /\ host' = HostAt(IF host.op = "shutdown" THEN "clear" ELSE "foreign")
          /\ UNCHANGED <<stack, draining>>
  /\ UNCHANGED <<created, allocated, alive, pending, phase, cleared>>

\* finalize_shutdown gives up the roots and collects without any.
ClearRoots ==
  /\ host.at = "clear"
  /\ cleared' = TRUE
  /\ CollectionWithoutRoots
  /\ host' = HostAt("foreign")
  /\ UNCHANGED <<created, allocated, draining, stack, phase>>

\* Destructors, then the deferred releases, one of which may be invalid.
HostForeign ==
  /\ host.at = "foreign"
  /\ pending' = ForeignDrained
  /\ \E ok \in BOOLEAN : host' = Finished(ok)
  /\ UNCHANGED <<created, allocated, alive, draining, stack, phase, cleared>>

\* complete_shutdown asks for the phase only.
CompleteShutdown ==
  /\ Idle
  /\ phase = "Finalizing"
  /\ phase' = "Dead"
  /\ UNCHANGED <<created, allocated, alive, pending, draining, stack, host, cleared>>

HostOperation ==
  HostRun \/ CollectGarbage \/ BeginShutdown \/ FinalizeShutdown \/ FinalizeShutdownFails
    \/ CompleteShutdown

HostStep == HostGenerators \/ HostObjects \/ ClearRoots \/ HostForeign

-----------------------------------------------------------------------------
Init ==
  /\ created = [c \in Categories |-> 0]
  /\ alive = [c \in Categories |-> 0]
  /\ pending = [c \in Categories |-> 0]
  /\ allocated = FALSE
  /\ draining = {}
  /\ stack = <<>>
  /\ host = [op |-> "none", at |-> "idle", ok |-> TRUE]
  /\ phase = "Running"
  /\ cleared = FALSE

\* Nothing is left to do for a dead runtime.
Stopped == phase = "Dead" /\ UNCHANGED vars

Next == HostOperation \/ HostStep \/ DrainStep \/ Safepoint \/ GuestStep \/ CodeEnds \/ Stopped

Spec == Init /\ [][Next]_vars

\* The machine does not rest inside an operation, and guest code that is not
\* kept from its instructions ends.
FairSpec == Spec /\ WF_vars(HostStep \/ DrainStep \/ Safepoint \/ CodeEnds) /\ SF_vars(CodeEnds)
-----------------------------------------------------------------------------
(* Properties.                                                             *)

TypeOK ==
  /\ created \in Counts
  /\ alive \in Counts
  /\ pending \in Counts
  /\ allocated \in BOOLEAN
  /\ draining \subseteq {"generator", "object"}
  /\ stack \in Seq(Activation)
  /\ host \in [op : {"none", "run", "collect", "shutdown"},
               at : {"idle", "code", "generators", "objects", "clear", "foreign"}, ok : BOOLEAN]
  /\ phase \in {"Running", "ShuttingDown", "Finalizing", "Dead"}
  /\ cleared \in BOOLEAN

Drains == {i \in DOMAIN stack : stack[i].kind # "code"}

\* Finalizers are not re-entered: the draining flags tell what is on the stack,
\* through errors as well, no category is drained inside itself, and the only
\* finalizers inside another are generators closed while a __del__ runs, so
\* the native stack is bounded however much the finalizers allocate.
FinalizersNest ==
  /\ draining = {stack[i].kind : i \in Drains}
  /\ \A i, j \in Drains : i < j => stack[i].kind = "object" /\ stack[j].kind = "generator"

\* Once finalize_shutdown has cleared globals, constants and modules, no guest
\* code runs any more (ADR 0078: "Shutdown queues all remaining generator and
\* user finalizers before runtime roots are cleared").
NoCodeWithoutRoots == cleared => stack = <<>>

\* Foreign destructors run only when no guest finalizer is active, at whatever
\* depth the safepoint is.
DestructorsOutsideFinalizers ==
  [][pending'["foreign"] < pending["foreign"] => Drains = {}]_vars

\* A run, an explicit collection and a shutdown come to an end when the guest's
\* code does: the loops that drain until a queue is empty make progress, even
\* after finalizers that failed.
OperationsEnd == ~ Idle ~> Idle

=============================================================================
