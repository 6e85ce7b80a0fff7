--------------------------- MODULE TonicSequences ---------------------------
(* What the modules share about the vectors and queues of the runtime.     *)
EXTENDS Integers, Sequences, FiniteSets

Elements(q) == {q[i] : i \in DOMAIN q}

\* The increasing enumerations of a finite set of positions (there is one).
Increasing(S) ==
  {f \in [1 .. Cardinality(S) -> S] :
     /\ \A i, j \in DOMAIN f : i < j => f[i] < f[j]
     /\ \A l \in S : \E i \in DOMAIN f : f[i] = l}

\* The members of a vector at the chosen positions, in that order.
At(q, order) == [i \in DOMAIN order |-> q[order[i]]]

\* What retain leaves of a vector: the members at the positions in S, in order
\* (a singleton set).
Retained(q, S) == {At(q, order) : order \in Increasing(S)}
=============================================================================
