--------------------------- MODULE MCTonicHandles ---------------------------
(* An instance of TonicHandles for TLC.                                    *)
EXTENDS TonicHandles

\* Deferred releases meet every way a reference may be released; exports meet
\* handles of another runtime.
MCPrograms == {{"exports", "others"}, {"deferred", "foreign"}}

=============================================================================
