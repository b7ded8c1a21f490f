----------------------------- MODULE ErrorWalks -----------------------------
(***************************************************************************)
(* How a tree of errors is judged: WaitingErrors (common/errors.go), which *)
(* decides whether it is waits all the way down, and errors.As for a       *)
(* RateLimitError.                                                         *)
(***************************************************************************)
EXTENDS ErrorTrees

\* Whether every leaf waits, and the delay of the leaf with the shortest one
\* (the first of several) as its author wrote it.
RECURSIVE WaitingErrors(_)
WaitingErrors(e) ==
  IF e.kind = "wait" THEN [waiting |-> TRUE, after |-> e.after]
  ELSE IF e.kind \notin {"join", "wrap"} \/ e.members = << >> THEN NotWaiting
  ELSE LET inner == [i \in DOMAIN e.members |-> WaitingErrors(e.members[i])]
       IN IF \E i \in DOMAIN inner : ~inner[i].waiting THEN NotWaiting
          ELSE inner[CHOOSE i \in DOMAIN inner :
                       \A j \in DOMAIN inner :
                         \/ Delay(inner[i]) < Delay(inner[j])
                         \/ Delay(inner[i]) = Delay(inner[j]) /\ i <= j]

\* errors.As for a RateLimitError.
RECURSIVE IsRateLimitError(_)
IsRateLimitError(e) ==
  \/ e.kind = "throttle"
  \/ e.kind \in {"join", "wrap"} /\ \E i \in DOMAIN e.members : IsRateLimitError(e.members[i])

-----------------------------------------------------------------------------
(* What the trees mean, without the walk.                                   *)

RECURSIVE LeafErrors(_)
LeafErrors(e) ==
  IF e.kind \in {"join", "wrap"} /\ e.members # << >>
  THEN UNION {LeafErrors(e.members[i]) : i \in DOMAIN e.members}
  ELSE {e} \ {NoError}
=============================================================================
