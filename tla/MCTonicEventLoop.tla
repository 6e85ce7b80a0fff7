-------------------------- MODULE MCTonicEventLoop --------------------------
(* Small programs of the event loop for TLC. *)
EXTENDS TonicEventLoop

CONSTANT c1   \* a done callback

\* Four futures and tasks, with completions and cancellations in
\* every order: enough for a task that is cancelled out of one await and is in
\* another one when the first source is done.
Scheduling ==
  [objects |-> 4, delay |-> 1, ready |-> 4, callbacks |-> {}, uses |-> {"future", "cancel"},
   outcomes |-> {"value"}, once |-> FALSE]

\* Every operation, with two different delays.
Operations ==
  [objects |-> 3, delay |-> 2, ready |-> 3, callbacks |-> {}, uses |-> AllUses,
   outcomes |-> {"value"}, once |-> TRUE]

\* Every outcome: None is yielded again by a pending await, an error is not.  A
\* callback may be added to any source at any time.
Failures ==
  [objects |-> 3, delay |-> 1, ready |-> 3, callbacks |-> {c1},
   uses |-> {"future", "cancel", "custom_await"}, outcomes |-> Terminal, once |-> TRUE]

\* Sleepers among tasks that yield for ever.
Sleepers ==
  [objects |-> 3, delay |-> 2, ready |-> 3, callbacks |-> {},
   uses |-> {"sleep", "cancel", "custom_await"}, outcomes |-> {"value"}, once |-> TRUE]

MCPrograms == {Scheduling, Operations, Failures}

MCSleepers == {Sleepers}
=============================================================================
