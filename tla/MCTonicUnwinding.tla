-------------------------- MODULE MCTonicUnwinding --------------------------
(* Instances of TonicUnwinding for TLC: generators and programs.           *)
EXTENDS TonicUnwinding

MCKindOf == [g \in Generators |-> IF g = "agen" THEN "async" ELSE "generator"]

\* Every generator function has code of its own.
MCCodeOf == [g \in Generators |-> g]

\* Imports that fail below calls and iterations, some of them from native code.
Imports == {"f", "m", "native", "NextDefault", "IteratorNext", "CollectIterableNext",
            "AttributeGet", "StopIteration", "AttributeError"}

\* Generators that delegate to each other, closed, thrown into and finalized.
Delegations == {"f", "gen", "sub", "delegation", "finalizers", "CollectIterableNext",
                "Next", "StopIteration"}

\* An async generator that awaits and that two awaitables compete for, driven by
\* hand.
AsyncGenerators == {"f", "agen", "a", "b", "delegation", "Other"}

\* An async generator that is awaited in a generator, which is thrown into.
Awaits == {"gen", "agen", "a", "delegation", "Next", "GeneratorExit", "Other"}

\* The paths on which a frame or an instruction is mistaken for another.
Recursions == {"f", "NextDefault", "ExtremumNext", "recursion", "failing_finish",
               "StopIteration"}

SelfIterations == {"f", "gen", "agen", "a", "Next", "failing_next", "athrow_stop",
                   "StopIteration"}

\* Async generators that are finalized while a for loop of theirs fails.
Finalizations == {"gen", "agen", "a", "delegation", "finalizers", "failing_next", "Next",
                  "StopIteration", "Other"}

MCPrograms ==
  {Imports, Delegations, AsyncGenerators, Awaits, Recursions, SelfIterations, Finalizations}
=============================================================================
