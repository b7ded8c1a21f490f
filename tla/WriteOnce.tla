------------------------------ MODULE WriteOnce ------------------------------
(***************************************************************************)
(* What a generated secret promises.  A key without a value may be given a *)
(* new one; a value, once stored, is only ever lost to its user; and what  *)
(* is handed to a caller is a value that was really stored, never one that *)
(* a caller made up and failed to store.                                   *)
(***************************************************************************)
CONSTANTS OnceKeys, NoValue

VARIABLES
  stored,  \* key |-> its value, or NoValue
  ever,    \* key |-> the values it has had
  handed   \* key |-> the values callers have been given

onceVars == <<stored, ever, handed>>

OnceInit ==
  /\ stored = [k \in OnceKeys |-> NoValue]
  /\ ever   = [k \in OnceKeys |-> {}]
  /\ handed = [k \in OnceKeys |-> {}]

\* Absent keys may be given values they never had, and callers may be given
\* values that have been stored.
Ensure ==
  \A k \in OnceKeys :
    /\ IF stored'[k] = stored[k]
       THEN ever'[k] = ever[k]
       ELSE stored[k] = NoValue /\ stored'[k] \notin ever[k]
            /\ ever'[k] = ever[k] \cup {stored'[k]}
    /\ handed[k] \subseteq handed'[k] /\ handed'[k] \subseteq handed[k] \cup ever'[k]

\* The user loses values, or puts an earlier one back where there is none.
Tamper ==
  /\ \A k \in OnceKeys :
       stored'[k] \in {stored[k], NoValue} \cup (IF stored[k] = NoValue THEN ever[k] ELSE {})
  /\ UNCHANGED <<ever, handed>>

OnceNext == Ensure \/ Tamper

OnceSpec == OnceInit /\ [][OnceNext]_onceVars
=============================================================================
