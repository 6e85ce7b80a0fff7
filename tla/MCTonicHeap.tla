---------------------------- MODULE MCTonicHeap ----------------------------
(* Small instances of the heap for TLC. *)
EXTENDS TonicHeap

CONSTANTS
  MaxRefs,      \* bound: edges of one object
  MaxEdges,     \* bound: objects with an edge, and external fields, together
  MaxRoots      \* bound: values the program holds

\* Bound on the object graphs a run explores.
SmallGraph ==
  /\ \A l \in DOMAIN objects : Cardinality(objects[l].refs \cup objects[l].held) <= MaxRefs
  /\ Cardinality({l \in DOMAIN objects : objects[l].refs \cup objects[l].held # {}})
       + Cardinality(external) <= MaxEdges
  /\ Cardinality(roots) <= MaxRoots
=============================================================================
