----------------------------- MODULE MCTonicHpy -----------------------------
(***************************************************************************)
(* An instance of TonicHpy: the programs of native code it explores.  Each *)
(* uses one part of the interface next to the handles.                     *)
(***************************************************************************)
EXTENDS TonicHpy, TLC

MCPrograms ==
  {[features |-> {f}, runtimes |-> 1] : f \in {"builders", "storage"}} \cup
  {[features |-> {f}, runtimes |-> 2] : f \in Features \ {"builders", "storage"}}

\* Guest code that calls back into a module.
NestedPrograms == {[features |-> {"guests"}, runtimes |-> 1]}

\* Three local tokens, a builder, a tracker and two fields.
MCMaxToken == [local |-> 4, builder |-> 2, tracker |-> 2, field |-> 3]

\* Threads, modules and values are interchangeable.
Alike == Permutations(Threads) \cup Permutations(Modules) \cup Permutations(Values)

=============================================================================
