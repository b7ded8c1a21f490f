-------------------------- MODULE ExtensionRegistry --------------------------
(***************************************************************************)
(* The hooks of a pass: extension_registry.go, and the places of           *)
(* generic_reconciler.go that run them and judge what they return.         *)
(* Extensions are registered, under a lock, at three levels and in any     *)
(* order, also while a pass runs; a hook runs over a snapshot of its       *)
(* level, one extension per step.  The pass is that of a cluster with one  *)
(* role of NGroups groups; what lies between the hooks is left out here.   *)
(***************************************************************************)
EXTENDS ErrorTrees

CONSTANTS
  Levels,           \* the levels extensions are registered at
  Priorities,       \* the priorities they are registered with
  StopOptions,      \* the WithStopOnError they may be registered with: "stop",
                    \* "go", or "default" when there is none
  HookErrors,       \* what a hook may return besides nil
  WaitVerdict(_),   \* WaitingErrors: whether an error waits, and how long
  Throttled(_),     \* whether a throttled request is behind an error
  Leafs(_),         \* the leaves of an error
  NGroups,          \* the groups of the role
  HealthInterval,   \* the interval of health checks, 0 when there is none
  MaxRegistrations, \* bound on registrations
  MaxTroubles       \* bound on the errors of hooks in a pass

VARIABLES
  extensions,    \* level |-> its entries, in execution order
  nextSeq,       \* the next registration number
  run,           \* the hook that is running
  stage,         \* where the pass is
  locals,        \* the pass: the group reconciled, the errors of the role's
                 \* groups, the role's error and the wait
  result,        \* how the last pass ended
  seen,          \* history: the leaves of the errors its hooks returned
  registrations, \* the registrations so far
  troubles       \* the errors so far in this pass

hookVars == <<extensions, nextSeq, run, stage, locals, result, seen, registrations, troubles>>

ASSUME HooksAssumption ==
  /\ Levels \subseteq {"cluster", "role", "group"} /\ Priorities \subseteq Int
  /\ StopOptions \subseteq {"default", "stop", "go"}
  /\ NGroups \in Nat /\ HealthInterval \in Nat /\ MaxRegistrations \in Nat /\ MaxTroubles \in Nat

\* The hooks, and the level whose extensions each runs.
Hooks == {"clusterPre", "rolePre", "groupPre", "groupPost", "rolePost", "clusterPost", "onError"}
LevelOf(h) == CASE h \in {"rolePre", "rolePost"}   -> "role"
                [] h \in {"groupPre", "groupPost"} -> "group"
                [] OTHER                           -> "cluster"

\* hookPolicy: OnReconcileError tolerates failures and keeps them to itself.
stopOnErrorDefault(h) == h # "onError"
aggregate(h) == h # "onError"

NoRun == [entries |-> << >>, at |-> 0, errs |-> << >>, ran |-> << >>, stopped |-> FALSE]
NoLocals == [group |-> 0, groupErrs |-> << >>, roleErr |-> NoError, waitFor |-> NoWait]
Unfinished == [kind |-> "none", after |-> 0]

HooksInit ==
  /\ extensions = [l \in {"cluster", "role", "group"} |-> << >>] /\ nextSeq = 0
  /\ run = NoRun /\ stage = "idle" /\ locals = NoLocals
  /\ result = Unfinished /\ seen = {} /\ registrations = 0 /\ troubles = 0

-----------------------------------------------------------------------------
(* The registry.                                                            *)

\* Priority descending, then registration ascending.
Before(a, b) == a.priority > b.priority \/ (a.priority = b.priority /\ a.seq < b.seq)

\* The first entry that e goes before, or the end: the entries are sorted, so
\* this is where sorting puts the one appended.
Place(entries, e) ==
  CHOOSE k \in 1..(Len(entries) + 1) :
    /\ k <= Len(entries) => Before(e, entries[k])
    /\ \A i \in 1..(k - 1) : ~Before(e, entries[i])

addEntry(entries, e) ==
  LET k == Place(entries, e)
  IN [i \in 1..(Len(entries) + 1) |->
        CASE i < k -> entries[i]
          [] i = k -> e
          [] i > k -> entries[i - 1]]

Register(l, priority, stop) ==
  /\ registrations < MaxRegistrations
  /\ extensions' = [extensions EXCEPT ![l] =
                      addEntry(@, [priority |-> priority, seq |-> nextSeq, stopOnError |-> stop])]
  /\ nextSeq' = nextSeq + 1
  /\ registrations' = registrations + 1
  /\ UNCHANGED <<run, stage, locals, result, seen, troubles>>

Clear ==
  /\ \E l \in Levels : extensions[l] # << >>
  /\ registrations < MaxRegistrations
  /\ extensions' = [l \in DOMAIN extensions |-> << >>] /\ nextSeq' = 0
  /\ registrations' = registrations + 1
  /\ UNCHANGED <<run, stage, locals, result, seen, troubles>>

stopsOnError(entry, h) ==
  IF entry.stopOnError = "default" THEN stopOnErrorDefault(h) ELSE entry.stopOnError = "stop"

-----------------------------------------------------------------------------
(* executeHooks.                                                            *)

\* Mutant: the snapshot shares its array with the registry.
LiveEntry == IF run.at \in DOMAIN extensions[LevelOf(stage)]
             THEN extensions[LevelOf(stage)][run.at] ELSE run.entries[run.at]

\* The entry whose turn it is, of the snapshot.
Entry == run.entries[run.at]

\* Enter hook h: the entries are cloned under the lock.
Begin(h) ==
  /\ stage' = h
  /\ run' = [NoRun EXCEPT !.entries = extensions[LevelOf(h)], !.at = 1]

\* What the loop does with the error e of the current extension.
AfterHook(e) ==
  LET err     == Wrapped(e)
      waiting == WaitVerdict(e).waiting
      stops   == e # NoError /\ ~waiting /\ stopsOnError(Entry, stage)
      kept    == e # NoError /\ (waiting \/ stops \/ aggregate(stage))
  IN [run EXCEPT !.at = @ + 1,
                 !.ran = Append(@, Entry),
                 !.stopped = stops,
                 !.errs = IF kept THEN Append(@, err) ELSE @]

\* One extension of the running hook.
RunHook ==
  /\ stage \in Hooks /\ run.at <= Len(run.entries) /\ ~run.stopped
  /\ \E e \in HookErrors \cup {NoError} :
       /\ e # NoError => troubles < MaxTroubles
       /\ run' = AfterHook(e)
       /\ seen' = IF stage = "onError" THEN seen ELSE seen \cup Leafs(e)
       /\ troubles' = IF e = NoError THEN troubles ELSE troubles + 1
  /\ UNCHANGED <<extensions, nextSeq, stage, locals, result, registrations>>

Done(h) == stage = h /\ (run.at > Len(run.entries) \/ run.stopped)

\* Mutant: whoever waits is returned at once, without its siblings.
FirstToWait ==
  LET waits == {i \in DOMAIN run.errs : WaitVerdict(run.errs[i]).waiting}
  IN IF waits = {} THEN Joined(run.errs) ELSE run.errs[CHOOSE i \in waits : TRUE]

\* What executeHooks returns: a single stopping error bare, else the join.
HookError == IF run.stopped /\ Len(run.errs) = 1 THEN run.errs[1] ELSE Joined(run.errs)

-----------------------------------------------------------------------------
(* The pass.                                                                *)

Finish(kind, after) ==
  /\ stage' = "idle" /\ run' = NoRun /\ locals' = NoLocals
  /\ result' = [kind |-> kind, after |-> after]

\* reconcile returned err: throttling backs off, anything else runs the error
\* hooks and degrades.
Abort(err) ==
  IF Throttled(err)
  THEN Finish("throttled", 0)
  ELSE Begin("onError") /\ locals' = NoLocals /\ UNCHANGED result

\* The pass goes on with hook h.
Continue(h, l) == Begin(h) /\ locals' = l /\ UNCHANGED result

Registered == UNCHANGED <<extensions, nextSeq, registrations, seen, troubles>>

StartPass ==
  /\ stage = "idle"
  /\ Begin("clusterPre")
  /\ result' = Unfinished /\ seen' = {} /\ troubles' = 0
  /\ UNCHANGED <<extensions, nextSeq, locals, registrations>>

\* A cluster-level wait skips the roles; a failure ends the pass.
EndClusterPre ==
  /\ Done("clusterPre") /\ Registered
  /\ LET verdict == WaitVerdict(HookError)
     IN IF HookError # NoError /\ ~verdict.waiting
        THEN Abort(Wrapped(HookError))
        ELSE Continue(IF verdict.waiting THEN "clusterPost" ELSE "rolePre",
                      [locals EXCEPT !.waitFor = mergeWait(@, newWaitState(verdict))])

\* reconcileRole returns err.
RoleReturns(err) ==
  IF Throttled(err) THEN Abort(err)
  ELSE Continue("clusterPost", [locals EXCEPT !.roleErr = err])

EndRolePre ==
  /\ Done("rolePre") /\ Registered
  /\ IF HookError # NoError THEN RoleReturns(Wrapped(HookError))
     ELSE Continue(IF NGroups = 0 THEN "rolePost" ELSE "groupPre", [locals EXCEPT !.group = 1])

\* The next group of the loop, whatever became of the last one.
NextGroup(errs) ==
  Continue(IF locals.group = NGroups THEN "rolePost" ELSE "groupPre",
           [locals EXCEPT !.group = @ + 1, !.groupErrs = @ \o errs])

\* A group's hook is through: its error ends the group, not the role.
EndGroupHook ==
  /\ Done("groupPre") \/ Done("groupPost")
  /\ Registered
  /\ \/ HookError = NoError /\ stage = "groupPre" /\ Continue("groupPost", locals)
     \/ HookError = NoError /\ stage = "groupPost" /\ NextGroup(<< >>)
     \/ HookError # NoError /\ Throttled(HookError) /\ RoleReturns(Wrapped(HookError))
     \/ HookError # NoError /\ ~Throttled(HookError) /\ NextGroup(<<Wrapped(HookError)>>)

\* A failing PostReconcile of the role joins the errors of its groups.
EndRolePost ==
  /\ Done("rolePost") /\ Registered
  /\ RoleReturns(Joined(Append(locals.groupErrs,
                               IF HookError = NoError THEN NoError ELSE Wrapped(HookError))))

\* PostReconcile, then the roles' errors are reported: waits all the way down
\* are a wait, anything else an error.
EndClusterPost ==
  /\ Done("clusterPost") /\ Registered
  /\ LET joined  == Joined(<<locals.roleErr>>)
         verdict == WaitVerdict(joined)
         wait    == mergeWait(locals.waitFor, newWaitState(verdict))
     IN CASE HookError # NoError                       -> Abort(Wrapped(HookError))
          [] HookError = NoError /\ joined # NoError
                                /\ ~verdict.waiting    -> Abort(joined)
          [] OTHER -> Finish(IF wait = NoWait THEN "complete" ELSE "waiting",
                             earliestRequeue({HealthInterval, wait}))

\* executeErrorHooks logs what the handlers return; the pass is degraded.
EndOnError == Done("onError") /\ Registered /\ Finish("failed", 0)

HookPass ==
  \/ StartPass \/ RunHook
  \/ EndClusterPre \/ EndRolePre \/ EndGroupHook \/ EndRolePost \/ EndClusterPost \/ EndOnError

HooksNext ==
  \/ HookPass
  \/ \E l \in Levels, p \in Priorities, s \in StopOptions : Register(l, p, s)
  \/ Clear

\* What executeHooks and the pass rely on of the judgements of an error e ...
JudgesError(e) ==
  /\ Leafs(Wrapped(e)) = Leafs(e)
  /\ Throttled(e) => Throttled(Wrapped(e))
  /\ WaitVerdict(e).waiting =>
       /\ Leafs(e) # {}
       /\ \A x \in Leafs(e) :
            /\ x.kind = "wait" /\ x.after \in Int
            /\ WaitVerdict(e).after \in Int
            /\ ClampRequeueAfter(WaitVerdict(e).after) <= ClampRequeueAfter(x.after)

\* ... and of the errors es that are joined.
JudgesJoin(es) == Leafs(Joined(es)) = UNION {Leafs(es[i]) : i \in DOMAIN es}

HooksSpec == HooksInit /\ [][HooksNext]_hookVars

-----------------------------------------------------------------------------
(* Properties.                                                              *)

\* Each extension registered when a hook starts runs once, those of higher
\* priority first and those of one priority as they were registered, whatever
\* is registered or cleared meanwhile; only a failing extension that stops its
\* hook cuts the rest off (the snapshot of clusterEntries and addEntry's order).
HooksInOrder ==
  /\ \A i, j \in DOMAIN run.ran : i < j => Before(run.ran[i], run.ran[j])
  /\ stage \in Hooks /\ Done(stage) /\ ~run.stopped => run.ran = run.entries

\* A pass reports completion only when no hook returned an error, and a wait
\* only when every leaf of every error was a wait: a failure joined to a wait,
\* wrapped around one, or raised by a sibling or tolerated extension is never
\* laundered (WaitingErrors and its three callers).
FailureOutranksWaits ==
  /\ result.kind = "complete" => seen = {}
  /\ result.kind = "waiting" => seen # {} /\ \A e \in seen : e.kind = "wait"

\* A waiting pass comes back when the shortest of its waits is over, at the
\* latest, and never sooner than the floor or the health check: no wait
\* anywhere in the trees is slept through or starves the queue
\* (ClampRequeueAfter, mergeWait).
ShortestWaitWins ==
  result.kind = "waiting" =>
    /\ result.after >= MinRequeueAfter \/ result.after = HealthInterval
    /\ \A e \in seen : result.after <= IF e.after <= 0 THEN DefaultRequeueAfter
                                        ELSE IF e.after < MinRequeueAfter THEN MinRequeueAfter
                                        ELSE e.after
=============================================================================
