-------------------------- MODULE TonicHandleNames --------------------------
(***************************************************************************)
(* What native code is promised about handles.  A handle is a name for one *)
(* reference: from its creation until its release it stands for the same   *)
(* value with the same kind, and a name that was ever handed out, by this  *)
(* runtime or by another one, is never handed out again.                   *)
(***************************************************************************)
CONSTANTS References   \* the values a handle may stand for, with their kinds

VARIABLES
  names,   \* the references of the handles that are valid
  spent    \* every handle that was ever created

Init == names = << >> /\ spent = {}

\* Handles are created and released; the others keep what they stand for.
Change ==
  /\ \A h \in DOMAIN names' :
       /\ names'[h] \in References
       /\ h \in DOMAIN names => names'[h] = names[h]
       /\ h \notin DOMAIN names => h \notin spent
  /\ spent \cup DOMAIN names' \subseteq spent'

Spec == Init /\ [][Change]_<<names, spent>>

=============================================================================
