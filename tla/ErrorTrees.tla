----------------------------- MODULE ErrorTrees -----------------------------
(***************************************************************************)
(* The errors of a pass: common/errors.go and reconciler/errors.go.  An    *)
(* error is a tree: leaves that wait or fail, wrappers (ExtensionError,    *)
(* ReconcileError, ConfigError, ValidationError, ...) and errors.Join.     *)
(* The waits of several sites merge into the one the pass requeues for;    *)
(* ErrorWalks decides what a tree waits for.  Delays are in half seconds,  *)
(* so that one lies between zero and the smallest delay allowed.           *)
(***************************************************************************)
EXTENDS Integers, Sequences, FiniteSets

MinRequeueAfter == 2
DefaultRequeueAfter == 20

NoError == [kind |-> "nil"]
Wait(after) == [kind |-> "wait", after |-> after]
Failure == [kind |-> "fail"]
RateLimit == [kind |-> "throttle"]

\* A wrapper that carries its cause, and one whose Unwrap returns nil.
Wrapped(e) == [kind |-> "wrap", members |-> <<e>>]
Opaque == [kind |-> "wrap", members |-> << >>]

\* errors.Join drops nil members and is nil when none is left.
Joined(es) ==
  LET some == SelectSeq(es, LAMBDA e : e # NoError)
  IN IF some = << >> THEN NoError ELSE [kind |-> "join", members |-> some]

\* An error type of the product's own, whose Unwrap() []error is empty.
EmptyJoin == [kind |-> "join", members |-> << >>]

\* Mutant: a delay below the floor is taken for one that is missing.
DefaultBelowFloor(after) == IF after < MinRequeueAfter THEN DefaultRequeueAfter ELSE after

ClampRequeueAfter(after) ==
  IF after <= 0 THEN DefaultRequeueAfter ELSE IF after < MinRequeueAfter THEN MinRequeueAfter ELSE after

\* Neither a wait nor a tree of waits.
NotWaiting == [waiting |-> FALSE, after |-> 0]

\* The delay a wait is compared by.
Delay(verdict) == ClampRequeueAfter(verdict.after)

-----------------------------------------------------------------------------
(* The wait of a pass: its delay, or NoWait.                                *)

NoWait == 0

newWaitState(verdict) == IF verdict.waiting THEN ClampRequeueAfter(verdict.after) ELSE NoWait

mergeWait(existing, next) ==
  IF existing = NoWait \/ (next # NoWait /\ next < existing) THEN next ELSE existing

\* Non-positive candidates have nothing pending.
earliestRequeue(candidates) ==
  LET pending == {d \in candidates : d > 0}
  IN IF pending = {} THEN 0 ELSE CHOOSE d \in pending : \A e \in pending : d <= e
=============================================================================
