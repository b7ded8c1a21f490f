----------------------- MODULE ExtensionRegistryProofs -----------------------
(***************************************************************************)
(* Extensions run in order, for every set of priorities, every number of   *)
(* registrations and groups, whatever the hooks return and however their   *)
(* errors are judged.                                                      *)
(***************************************************************************)
EXTENDS ExtensionRegistry, WellFoundedInduction, TLAPS

AllLevels == {"cluster", "role", "group"}
Entries == [priority : Priorities, seq : Nat, stopOnError : StopOptions]

\* A list of entries in execution order.
Sorted(s) == s \in Seq(Entries) /\ \A i, j \in DOMAIN s : i < j => Before(s[i], s[j])

\* What is registered is sorted, and older than what is registered next.
RegistryOK(exts, seq) ==
  /\ seq \in Nat
  /\ exts \in [AllLevels -> Seq(Entries)]
  /\ \A l \in AllLevels : Sorted(exts[l]) /\ \A i \in DOMAIN exts[l] : exts[l][i].seq < seq

\* The hook has run the first entries of its snapshot.
RunOK(r) ==
  /\ r = [entries |-> r.entries, at |-> r.at, errs |-> r.errs, ran |-> r.ran, stopped |-> r.stopped]
  /\ Sorted(r.entries)
  /\ r.ran \in Seq(Entries) /\ Len(r.ran) <= Len(r.entries)
  /\ \A i \in DOMAIN r.ran : r.ran[i] = r.entries[i]
  /\ r.at = Len(r.ran) + 1 \/ r.at = 0

HookInv ==
  /\ RegistryOK(extensions, nextSeq)
  /\ RunOK(run)
  /\ stage \in Hooks => run.at = Len(run.ran) + 1

-----------------------------------------------------------------------------
(* Registering.                                                             *)

LEMMA NothingSorted == Sorted(<< >>)
BY DEF Sorted

\* A set of numbers has a least one.
LEMMA LeastOf ==
  ASSUME NEW S, S \subseteq Nat, S # {}
  PROVE  \E k \in S : \A j \in S : k <= j
<1>1. PICK x \in S : \A y \in S : ~ (<<y, x>> \in OpToRel(<, Nat))
  BY NatLessThanWellFounded, WFMin
<1>2. \A y \in S : x <= y
  <2> TAKE y \in S
  <2>1. x \in Nat /\ y \in Nat  OBVIOUS
  <2>2. ~ (y < x)  BY <1>1, <2>1 DEF OpToRel
  <2> QED BY <2>1, <2>2
<1> QED BY <1>2

\* There is a place for every entry, before the first one it goes before.
LEMMA PlaceIs ==
  ASSUME NEW s \in Seq(Entries), NEW e
  PROVE  /\ Place(s, e) \in 1..(Len(s) + 1)
         /\ Place(s, e) <= Len(s) => Before(e, s[Place(s, e)])
         /\ \A i \in 1..(Place(s, e) - 1) : ~Before(e, s[i])
<1> DEFINE S == {k \in 1..(Len(s) + 1) : k <= Len(s) => Before(e, s[k])}
<1>1. Len(s) \in Nat
  OBVIOUS
<1>2. Len(s) + 1 \in S
  BY <1>1
<1>3. S \subseteq Nat /\ S # {}
  BY <1>1, <1>2
<1>4. PICK k \in S : \A j \in S : k <= j
  <2> HIDE DEF S
  <2> QED BY <1>3, LeastOf
<1>5. ASSUME NEW i \in 1..(k - 1) PROVE ~Before(e, s[i])
  <2>1. i \in 1..(Len(s) + 1) /\ i < k /\ i \in Nat /\ k \in Nat
    BY <1>1, <1>4
  <2>2. i \notin S
    <3> HIDE DEF S
    <3> QED BY <1>4, <2>1
  <2> QED BY <2>1, <2>2
<1>6. \E n \in 1..(Len(s) + 1) :
        (n <= Len(s) => Before(e, s[n])) /\ \A i \in 1..(n - 1) : ~Before(e, s[i])
  BY <1>4, <1>5
<1> QED BY <1>6 DEF Place

LEMMA BeforeTransitive ==
  ASSUME Priorities \subseteq Int, NEW a \in Entries, NEW b \in Entries, NEW c \in Entries,
         Before(a, b), Before(b, c)
  PROVE  Before(a, c)
<1>1. /\ a.priority \in Int /\ b.priority \in Int /\ c.priority \in Int
      /\ a.seq \in Nat /\ b.seq \in Nat /\ c.seq \in Nat
  BY DEF Entries
<1> QED BY <1>1 DEF Before

\* The list stays sorted, and older than the next number.
LEMMA AddedInOrder ==
  ASSUME Priorities \subseteq Int,
         NEW s, Sorted(s), NEW seq \in Nat, \A i \in DOMAIN s : s[i].seq < seq,
         NEW e \in Entries, e.seq = seq
  PROVE  /\ Sorted(addEntry(s, e))
         /\ \A i \in DOMAIN addEntry(s, e) : addEntry(s, e)[i].seq < seq + 1
<1> DEFINE k == Place(s, e)
           n == Len(s)
           t == addEntry(s, e)
<1>1. s \in Seq(Entries) /\ n \in Nat /\ DOMAIN s = 1..n /\ \A i \in 1..n : s[i] \in Entries
  BY DEF Sorted
<1>2. /\ k \in 1..(n + 1)
      /\ k <= n => Before(e, s[k])
      /\ \A i \in 1..(k - 1) : ~Before(e, s[i])
  BY <1>1, PlaceIs
<1> HIDE DEF k, n
<1>3. t = [i \in 1..(n + 1) |-> CASE i < k -> s[i] [] i = k -> e [] i > k -> s[i - 1]]
  BY DEF addEntry, k, n
<1> HIDE DEF t
<1>4. k \in Nat
  BY <1>1, <1>2
<1>5. DOMAIN t = 1..(n + 1)
  BY <1>3
<1>6. ASSUME NEW i \in 1..(n + 1), i < k PROVE t[i] = s[i] /\ i \in 1..n /\ s[i] \in Entries
  <2>1. i \in 1..n
    BY <1>1, <1>2, <1>4, <1>6
  <2>2. t[i] = s[i]
    BY <1>3, <1>4, <1>6
  <2> QED BY <1>1, <2>1, <2>2
<1>7. t[k] = e
  BY <1>2, <1>3, <1>4
<1>8. ASSUME NEW i \in 1..(n + 1), i > k
      PROVE  t[i] = s[i - 1] /\ i - 1 \in 1..n /\ i - 1 >= k /\ s[i - 1] \in Entries
  <2>1. i - 1 \in 1..n /\ i - 1 >= k
    BY <1>1, <1>2, <1>4, <1>8
  <2>2. t[i] = s[i - 1]
    BY <1>3, <1>4, <1>8
  <2> QED BY <1>1, <2>1, <2>2
<1>9. \A i \in 1..(n + 1) : t[i] \in Entries
  <2> TAKE i \in 1..(n + 1)
  <2>1. i < k \/ i = k \/ i > k
    BY <1>4
  <2> QED BY <1>6, <1>7, <1>8, <2>1
<1>10. t \in Seq(Entries)
  <2> DEFINE F(i) == CASE i < k -> s[i] [] i = k -> e [] i > k -> s[i - 1]
  <2>1. t = [i \in 1..(n + 1) |-> t[i]]
    <3>1. t = [i \in 1..(n + 1) |-> F(i)]
      BY <1>3
    <3> HIDE DEF F
    <3> QED BY <3>1
  <2>2. n + 1 \in Nat
    BY <1>1
  <2> QED BY <1>9, <2>1, <2>2
\* Those before the place go before e, and those from it on after e.
<1>11. ASSUME NEW i \in 1..n, i < k PROVE Before(s[i], e)
  <2>1. ~Before(e, s[i]) /\ s[i].seq < seq
    BY <1>1, <1>2, <1>4, <1>11
  <2>2. /\ s[i].priority \in Int /\ e.priority \in Int /\ s[i].seq \in Nat /\ e.seq = seq
    BY <1>1 DEF Entries
  <2> QED BY <2>1, <2>2 DEF Before
<1>12. ASSUME NEW i \in 1..n, i >= k PROVE Before(e, s[i])
  <2>1. k \in 1..n /\ Before(e, s[k])
    BY <1>1, <1>2, <1>4, <1>12
  <2>2. CASE i = k
    BY <2>1, <2>2
  <2>3. CASE i > k
    <3>1. Before(s[k], s[i])
      BY <1>1, <2>1, <2>3 DEF Sorted
    <3>2. s[k] \in Entries /\ s[i] \in Entries
      BY <1>1, <2>1
    <3> QED BY <2>1, <3>1, <3>2, BeforeTransitive
  <2> QED BY <1>4, <1>12, <2>2, <2>3
<1>13. ASSUME NEW i \in 1..(n + 1), NEW j \in 1..(n + 1), i < j PROVE Before(t[i], t[j])
  <2>0. i \in Nat /\ j \in Nat
    BY <1>1
  <2>1. CASE j < k
    <3>1. i < k
      BY <1>4, <1>13, <2>0, <2>1
    <3>2. t[i] = s[i] /\ t[j] = s[j] /\ i \in DOMAIN s /\ j \in DOMAIN s
      BY <1>1, <1>6, <2>1, <3>1
    <3> QED BY <1>13, <3>2 DEF Sorted
  <2>2. CASE j = k
    <3>1. i < k
      BY <1>13, <2>2
    <3> QED BY <1>6, <1>7, <1>11, <2>2, <3>1
  <2>3. CASE j > k /\ i < k
    <3>1. t[i] = s[i] /\ i \in 1..n
      BY <1>6, <2>3
    <3>2. t[j] = s[j - 1] /\ j - 1 \in 1..n /\ j - 1 >= k
      BY <1>8, <2>3
    <3>3. i < j - 1
      BY <1>4, <2>0, <2>3, <3>2
    <3>4. i \in DOMAIN s /\ j - 1 \in DOMAIN s
      BY <1>1, <3>1, <3>2
    <3> QED BY <3>1, <3>2, <3>3, <3>4 DEF Sorted
  <2>4. CASE j > k /\ i = k
    BY <1>7, <1>8, <1>12, <2>4
  <2>5. CASE j > k /\ i > k
    <3>1. t[i] = s[i - 1] /\ i - 1 \in DOMAIN s
      BY <1>1, <1>8, <2>5
    <3>2. t[j] = s[j - 1] /\ j - 1 \in DOMAIN s
      BY <1>1, <1>8, <2>5
    <3>3. i - 1 < j - 1
      BY <1>13, <2>0
    <3> QED BY <3>1, <3>2, <3>3 DEF Sorted
  <2> QED BY <1>4, <2>0, <2>1, <2>2, <2>3, <2>4, <2>5
<1>14. Sorted(t)
  BY <1>5, <1>10, <1>13 DEF Sorted
<1>15. \A i \in 1..(n + 1) : t[i].seq < seq + 1
  <2> TAKE i \in 1..(n + 1)
  <2>1. \A j \in 1..n : s[j].seq < seq + 1
    <3> TAKE j \in 1..n
    <3>1. s[j].seq \in Nat /\ s[j].seq < seq
      BY <1>1 DEF Entries
    <3> QED BY <3>1
  <2>2. i < k \/ i = k \/ i > k
    BY <1>4
  <2> QED BY <1>6, <1>7, <1>8, <2>1, <2>2
<1> QED BY <1>5, <1>14, <1>15 DEF t

-----------------------------------------------------------------------------
(* The run of a hook.                                                       *)

LEMMA NoRunOK == RunOK(NoRun)
BY NothingSorted DEF RunOK, NoRun

\* Nothing is registered, and the run is left alone, started or dropped.
Turns == (\E h \in Hooks : Begin(h)) \/ (stage' = "idle" /\ run' = NoRun)

LEMMA LevelIs == ASSUME NEW h PROVE LevelOf(h) \in AllLevels
BY DEF LevelOf, AllLevels

LEMMA TurnKeeps ==
  ASSUME HookInv, Turns, UNCHANGED <<extensions, nextSeq>>
  PROVE  HookInv'
<1>1. RegistryOK(extensions, nextSeq)'
  BY DEF HookInv
<1>2. CASE \E h \in Hooks : Begin(h)
  <2>1. PICK h \in Hooks : Begin(h)
    BY <1>2
  <2> DEFINE s == extensions[LevelOf(h)]
  <2>2. Sorted(s)
    BY LevelIs DEF HookInv, RegistryOK
  <2>3. run' = [entries |-> s, at |-> 1, errs |-> << >>, ran |-> << >>, stopped |-> FALSE]
    BY <2>1 DEF Begin, NoRun
  <2> HIDE DEF s
  <2>4. RunOK(run') /\ run'.at = Len(run'.ran) + 1
    BY <2>2, <2>3 DEF RunOK, Sorted
  <2> QED BY <1>1, <2>4 DEF HookInv
<1>3. CASE stage' = "idle" /\ run' = NoRun
  <2>1. stage' \notin Hooks
    BY <1>3 DEF Hooks
  <2> QED BY <1>1, <1>3, <2>1, NoRunOK DEF HookInv
<1> QED BY <1>2, <1>3 DEF Turns

LEMMA FinishTurns == ASSUME NEW kind, NEW after, Finish(kind, after) PROVE Turns
BY DEF Finish, Turns

LEMMA ContinueTurns == ASSUME NEW h \in Hooks, NEW l, Continue(h, l) PROVE Turns
BY DEF Continue, Turns

LEMMA AbortTurns == ASSUME NEW err, Abort(err) PROVE Turns
<1>1. CASE Throttled(err)
  BY <1>1, FinishTurns DEF Abort
<1>2. CASE ~Throttled(err)
  <2>1. Begin("onError") /\ "onError" \in Hooks
    BY <1>2 DEF Abort, Hooks
  <2> QED BY <2>1 DEF Turns
<1> QED BY <1>1, <1>2

LEMMA RoleReturnsTurns == ASSUME NEW err, RoleReturns(err) PROVE Turns
<1>1. CASE Throttled(err)
  BY <1>1, AbortTurns DEF RoleReturns
<1>2. CASE ~Throttled(err)
  BY <1>2, ContinueTurns DEF RoleReturns, Hooks
<1> QED BY <1>1, <1>2

LEMMA NextGroupTurns == ASSUME NEW errs, NextGroup(errs) PROVE Turns
<1>1. (IF locals.group = NGroups THEN "rolePost" ELSE "groupPre") \in Hooks
  BY DEF Hooks
<1> QED BY <1>1, ContinueTurns DEF NextGroup

\* The end of a hook decides where the pass goes, and touches no registry.
LEMMA EndTurns ==
  ASSUME StartPass \/ EndClusterPre \/ EndRolePre \/ EndGroupHook \/ EndRolePost
         \/ EndClusterPost \/ EndOnError
  PROVE  Turns /\ UNCHANGED <<extensions, nextSeq>>
<1>1. CASE StartPass
  BY <1>1 DEF StartPass, Turns, Hooks
<1>2. CASE EndClusterPre
  <2>1. (IF WaitVerdict(HookError).waiting THEN "clusterPost" ELSE "rolePre") \in Hooks
    BY DEF Hooks
  <2> QED BY <1>2, <2>1, AbortTurns, ContinueTurns DEF EndClusterPre, Registered
<1>3. CASE EndRolePre
  <2>1. (IF NGroups = 0 THEN "rolePost" ELSE "groupPre") \in Hooks
    BY DEF Hooks
  <2> QED BY <1>3, <2>1, RoleReturnsTurns, ContinueTurns DEF EndRolePre, Registered
<1>4. CASE EndGroupHook
  <2>1. "groupPost" \in Hooks
    BY DEF Hooks
  <2> QED BY <1>4, <2>1, RoleReturnsTurns, NextGroupTurns, ContinueTurns DEF EndGroupHook, Registered
<1>5. CASE EndRolePost
  BY <1>5, RoleReturnsTurns DEF EndRolePost, Registered
<1>6. CASE EndClusterPost
  <2>1. Registered
    BY <1>6 DEF EndClusterPost
  <2>2. (\E err : Abort(err)) \/ (\E kind, after : Finish(kind, after))
    BY <1>6 DEF EndClusterPost
  <2> QED BY <2>1, <2>2, AbortTurns, FinishTurns DEF Registered
<1>7. CASE EndOnError
  BY <1>7, FinishTurns DEF EndOnError, Registered
<1> QED BY <1>1, <1>2, <1>3, <1>4, <1>5, <1>6, <1>7

LEMMA RunHookKeeps ==
  ASSUME HookInv, RunHook
  PROVE  HookInv'
<1> DEFINE entry == run.entries[run.at]
<1>1. /\ run.at <= Len(run.entries) /\ stage \in Hooks /\ stage' = stage
      /\ UNCHANGED <<extensions, nextSeq>>
  BY DEF RunHook
<1>2. RunOK(run) /\ run.at = Len(run.ran) + 1
  BY <1>1 DEF HookInv
<1>3. PICK errs, stopped :
        run' = [entries |-> run.entries, at |-> run.at + 1, errs |-> errs,
                ran |-> Append(run.ran, entry), stopped |-> stopped]
  <2>1. PICK e : run' = AfterHook(e)
    BY DEF RunHook
  <2> QED BY <1>2, <2>1 DEF AfterHook, Entry, RunOK
<1>4. /\ run.entries \in Seq(Entries) /\ run.ran \in Seq(Entries)
      /\ Len(run.ran) \in Nat /\ run.at \in DOMAIN run.entries
  BY <1>1, <1>2 DEF RunOK, Sorted
<1>5. entry \in Entries
  BY <1>4
<1> HIDE DEF entry
<1>6. /\ run'.ran \in Seq(Entries) /\ Len(run'.ran) = Len(run.ran) + 1
      /\ run'.ran[run.at] = entry
      /\ \A i \in DOMAIN run.ran : run'.ran[i] = run.ran[i]
      /\ DOMAIN run'.ran = DOMAIN run.ran \cup {run.at}
  BY <1>2, <1>3, <1>4, <1>5
<1>7. \A i \in DOMAIN run'.ran : run'.ran[i] = run'.entries[i]
  BY <1>2, <1>3, <1>6 DEF RunOK, entry
<1>8. run'.at = Len(run'.ran) + 1 /\ Len(run'.ran) <= Len(run'.entries) /\ Sorted(run'.entries)
  BY <1>1, <1>2, <1>3, <1>4, <1>6 DEF RunOK
<1>9. RunOK(run')
  BY <1>3, <1>6, <1>7, <1>8 DEF RunOK
<1>10. RegistryOK(extensions, nextSeq)'
  BY <1>1 DEF HookInv
<1> QED BY <1>8, <1>9, <1>10 DEF HookInv

LEMMA RegisterKeeps ==
  ASSUME HookInv, NEW l \in Levels, NEW p \in Priorities, NEW s \in StopOptions, Register(l, p, s)
  PROVE  HookInv'
<1> DEFINE e == [priority |-> p, seq |-> nextSeq, stopOnError |-> s]
           added == addEntry(extensions[l], e)
<1>1. RegistryOK(extensions, nextSeq) /\ Priorities \subseteq Int /\ l \in AllLevels
  BY HooksAssumption DEF HookInv, AllLevels
<1>2. nextSeq \in Nat /\ e \in Entries /\ e.seq = nextSeq
  BY <1>1 DEF RegistryOK, Entries
<1>3. /\ extensions' = [extensions EXCEPT ![l] = added] /\ nextSeq' = nextSeq + 1
      /\ UNCHANGED <<run, stage>>
  BY DEF Register
<1>4. Sorted(extensions[l]) /\ \A i \in DOMAIN extensions[l] : extensions[l][i].seq < nextSeq
  BY <1>1 DEF RegistryOK
<1> HIDE DEF e
<1>5. Sorted(added) /\ \A i \in DOMAIN added : added[i].seq < nextSeq + 1
  BY <1>1, <1>2, <1>4, AddedInOrder
<1> HIDE DEF added
<1>6. ASSUME NEW m \in AllLevels
      PROVE  /\ extensions'[m] \in Seq(Entries) /\ Sorted(extensions'[m])
             /\ \A i \in DOMAIN extensions'[m] : extensions'[m][i].seq < nextSeq'
  <2>1. extensions \in [AllLevels -> Seq(Entries)]
    BY <1>1 DEF RegistryOK
  <2>2. CASE m = l
    <3>1. extensions'[m] = added
      BY <1>3, <2>1, <2>2
    <3> QED BY <1>3, <1>5, <3>1 DEF Sorted
  <2>3. CASE m # l
    <3>1. extensions'[m] = extensions[m]
      BY <1>3, <2>1, <2>3
    <3>2. extensions[m] \in Seq(Entries) /\ Sorted(extensions[m])
      BY <1>1 DEF RegistryOK
    <3>3. \A i \in DOMAIN extensions[m] : extensions[m][i].seq \in Nat /\ extensions[m][i].seq < nextSeq
      <4>1. \A i \in DOMAIN extensions[m] : extensions[m][i] \in Entries
        BY <3>2
      <4>2. \A i \in DOMAIN extensions[m] : extensions[m][i].seq \in Nat
        BY <4>1 DEF Entries
      <4> QED BY <1>1, <4>2 DEF RegistryOK
    <3> QED BY <1>2, <1>3, <3>1, <3>2, <3>3
  <2> QED BY <2>2, <2>3
<1>7. extensions' \in [AllLevels -> Seq(Entries)]
  BY <1>1, <1>3, <1>6 DEF RegistryOK
<1>8. nextSeq' \in Nat
  BY <1>2, <1>3
<1>9. RegistryOK(extensions, nextSeq)'
  BY <1>6, <1>7, <1>8 DEF RegistryOK
<1> QED BY <1>3, <1>9 DEF HookInv

LEMMA ClearKeeps == ASSUME HookInv, Clear PROVE HookInv'
<1>1. extensions' = [l \in AllLevels |-> << >>] /\ nextSeq' = 0 /\ UNCHANGED <<run, stage>>
  BY DEF Clear, HookInv, RegistryOK
<1>2. RegistryOK(extensions, nextSeq)'
  BY <1>1, NothingSorted DEF RegistryOK
<1> QED BY <1>1, <1>2 DEF HookInv

\* Every step of a pass, and of whoever registers meanwhile, keeps the lists
\* in order and the run on its snapshot (addEntry, executeHooks).
THEOREM HooksInvariant == HooksSpec => []HookInv
<1>1. HooksInit => HookInv
  <2> SUFFICES ASSUME HooksInit PROVE HookInv
    OBVIOUS
  <2>1. RegistryOK(extensions, nextSeq)
    BY NothingSorted DEF HooksInit, RegistryOK, AllLevels
  <2>2. stage \notin Hooks /\ run = NoRun
    BY DEF HooksInit, Hooks
  <2> QED BY <2>1, <2>2, NoRunOK DEF HookInv
<1>2. HookInv /\ [HooksNext]_hookVars => HookInv'
  <2> SUFFICES ASSUME HookInv, [HooksNext]_hookVars PROVE HookInv'
    OBVIOUS
  <2>1. CASE RunHook
    BY <2>1, RunHookKeeps
  <2>2. CASE StartPass \/ EndClusterPre \/ EndRolePre \/ EndGroupHook \/ EndRolePost
             \/ EndClusterPost \/ EndOnError
    BY <2>2, EndTurns, TurnKeeps
  <2>3. CASE \E l \in Levels, p \in Priorities, s \in StopOptions : Register(l, p, s)
    BY <2>3, RegisterKeeps
  <2>4. CASE Clear
    BY <2>4, ClearKeeps
  <2>5. CASE UNCHANGED hookVars
    BY <2>5 DEF hookVars, HookInv
  <2> QED BY <2>1, <2>2, <2>3, <2>4, <2>5 DEF HooksNext, HookPass
<1> QED BY <1>1, <1>2, PTL DEF HooksSpec

LEMMA InvInOrder == HookInv => HooksInOrder
<1> SUFFICES ASSUME HookInv PROVE HooksInOrder
  OBVIOUS
<1>1. /\ run.entries \in Seq(Entries) /\ run.ran \in Seq(Entries)
      /\ Len(run.ran) <= Len(run.entries)
      /\ \A i \in DOMAIN run.ran : i \in DOMAIN run.entries /\ run.ran[i] = run.entries[i]
  BY DEF HookInv, RunOK, Sorted
<1>2. \A i, j \in DOMAIN run.ran : i < j => Before(run.ran[i], run.ran[j])
  BY <1>1 DEF HookInv, RunOK, Sorted
<1>3. ASSUME stage \in Hooks, Done(stage), ~run.stopped PROVE run.ran = run.entries
  <2>1. run.at = Len(run.ran) + 1 /\ run.at > Len(run.entries)
    BY <1>3 DEF HookInv, Done
  <2>2. Len(run.ran) = Len(run.entries)
    BY <1>1, <2>1
  <2>3. DOMAIN run.ran = DOMAIN run.entries
    BY <1>1, <2>2
  <2> QED BY <1>1, <2>3
<1> QED BY <1>2, <1>3 DEF HooksInOrder

\* Each extension registered when a hook starts runs once, by priority and then
\* by registration, unless a failing one stops the hook, whatever is
\* registered or cleared meanwhile (clusterEntries, roleEntries,
\* roleGroupEntries, addEntry, executeHooks).
THEOREM HooksOrdered == HooksSpec => []HooksInOrder
BY HooksInvariant, InvInOrder, PTL

-----------------------------------------------------------------------------
(* What a pass makes of the errors.  T holds the errors the pass meets: what *)
(* hooks return, wrapped and joined in any way; they are judged soundly.     *)

LeavesOf(es) == UNION {Leafs(es[i]) : i \in DOMAIN es}

Judged(T) ==
  /\ HookErrors \cup {NoError} \subseteq T
  /\ \A e \in T : Wrapped(e) \in T /\ JudgesError(e)
  /\ \A es \in Seq(T) : Joined(es) \in T /\ JudgesJoin(es)
  /\ Leafs(NoError) = {}

\* The errors not yet judged: those of the running hook, and those of the
\* groups until the role has joined them.
CarriedBy(errs, st, l) ==
  LeavesOf(errs) \cup IF st = "clusterPost" THEN Leafs(l.roleErr) ELSE LeavesOf(l.groupErrs)

WaitedFor(x, wait) ==
  x.kind = "wait" /\ x.after \in Int /\ wait # NoWait /\ wait <= ClampRequeueAfter(x.after)

LocalsOK(T, l) ==
  /\ l = [group |-> l.group, groupErrs |-> l.groupErrs, roleErr |-> l.roleErr, waitFor |-> l.waitFor]
  /\ l.groupErrs \in Seq(T) /\ l.roleErr \in T
  /\ l.waitFor \in Nat /\ (l.waitFor # NoWait => l.waitFor >= MinRequeueAfter)

\* In stage st, with the errors errs of its hook and the locals l: what hooks
\* returned so far, sn, is carried on or waited for.
PassAt(T, errs, st, l, sn) ==
  /\ errs \in Seq(T) /\ LocalsOK(T, l)
  /\ CarriedBy(errs, st, l) \subseteq sn
  /\ \A x \in sn : x \in CarriedBy(errs, st, l) \/ WaitedFor(x, l.waitFor)
  /\ l.waitFor # NoWait => sn # {}
  /\ st \in {"clusterPre", "rolePre"} => l.groupErrs = << >>
  /\ st = "clusterPre" => l.roleErr = NoError

PassHooks == Hooks \ {"onError"}

PassInv(T) ==
  /\ stage \in PassHooks => PassAt(T, run.errs, stage, locals, seen)
  /\ stage = "idle" => locals = NoLocals /\ FailureOutranksWaits /\ ShortestWaitWins
  /\ stage # "idle" => result = Unfinished

LEMMA ClampIs ==
  ASSUME NEW after \in Int
  PROVE  ClampRequeueAfter(after) \in Nat /\ ClampRequeueAfter(after) >= MinRequeueAfter
BY DEF ClampRequeueAfter, MinRequeueAfter, DefaultRequeueAfter

LEMMA MergeIs ==
  ASSUME NEW a \in Nat, NEW b \in Nat
  PROVE  /\ mergeWait(a, b) \in {a, b}
         /\ a # NoWait => mergeWait(a, b) # NoWait /\ mergeWait(a, b) <= a
         /\ b # NoWait => mergeWait(a, b) # NoWait /\ mergeWait(a, b) <= b
BY DEF mergeWait, NoWait

\* An error that waits: so does each of its leaves, and none for less.
LEMMA VerdictIs ==
  ASSUME NEW T, Judged(T), NEW e \in T
  PROVE  /\ newWaitState(WaitVerdict(e)) \in Nat
         /\ WaitVerdict(e).waiting =>
              /\ newWaitState(WaitVerdict(e)) >= MinRequeueAfter /\ Leafs(e) # {}
              /\ \A x \in Leafs(e) : WaitedFor(x, newWaitState(WaitVerdict(e)))
         /\ ~WaitVerdict(e).waiting => newWaitState(WaitVerdict(e)) = NoWait
<1>1. JudgesError(e)
  BY DEF Judged
<1>2. CASE WaitVerdict(e).waiting
  <2> DEFINE d == WaitVerdict(e).after
             w == ClampRequeueAfter(d)
  <2>1. /\ Leafs(e) # {} /\ newWaitState(WaitVerdict(e)) = w
        /\ \A x \in Leafs(e) : x.kind = "wait" /\ x.after \in Int /\ w <= ClampRequeueAfter(x.after)
    BY <1>1, <1>2 DEF JudgesError, newWaitState
  <2>2. d \in Int
    BY <1>1, <1>2, <2>1 DEF JudgesError
  <2> HIDE DEF d
  <2>3. w \in Nat /\ w >= MinRequeueAfter
    BY <2>2, ClampIs
  <2> HIDE DEF w
  <2>4. w # NoWait
    BY <2>3 DEF NoWait, MinRequeueAfter
  <2> QED BY <1>2, <2>1, <2>3, <2>4 DEF WaitedFor
<1>3. CASE ~WaitVerdict(e).waiting
  BY <1>3 DEF newWaitState, NoWait
<1> QED BY <1>2, <1>3

LEMMA NothingLeaves == LeavesOf(<< >>) = {}
BY DEF LeavesOf

LEMMA LeavesAppend ==
  ASSUME NEW T, NEW es \in Seq(T), NEW e \in T
  PROVE  LeavesOf(Append(es, e)) = LeavesOf(es) \cup Leafs(e) /\ Append(es, e) \in Seq(T)
<1> DEFINE s == Append(es, e)
           n == Len(es) + 1
<1>1. /\ s \in Seq(T) /\ DOMAIN s = DOMAIN es \cup {n}
      /\ s[n] = e /\ \A i \in DOMAIN es : s[i] = es[i]
  OBVIOUS
<1> HIDE DEF s, n
<1>2. LeavesOf(s) = LeavesOf(es) \cup Leafs(e)
  BY <1>1 DEF LeavesOf
<1> QED BY <1>1, <1>2 DEF s

\* What executeHooks returns carries every leaf of its errors.
LEMMA HookErrorIs ==
  ASSUME NEW T, Judged(T), run.errs \in Seq(T)
  PROVE  HookError \in T /\ Leafs(HookError) = LeavesOf(run.errs)
<1>1. CASE run.stopped /\ Len(run.errs) = 1
  <2>1. HookError = run.errs[1] /\ DOMAIN run.errs = {1}
    BY <1>1 DEF HookError
  <2> QED BY <2>1 DEF LeavesOf
<1>2. CASE ~(run.stopped /\ Len(run.errs) = 1)
  <2>1. HookError = Joined(run.errs)
    BY <1>2 DEF HookError
  <2>2. Joined(run.errs) \in T /\ JudgesJoin(run.errs)
    BY DEF Judged
  <2> QED BY <2>1, <2>2 DEF JudgesJoin, LeavesOf
<1> QED BY <1>1, <1>2

LEMMA WrappedIs ==
  ASSUME NEW T, Judged(T), NEW e \in T
  PROVE  Wrapped(e) \in T /\ Leafs(Wrapped(e)) = Leafs(e)
BY DEF Judged, JudgesError

\* The pass moves on to a later hook, and carries as much as before.
LEMMA Moves ==
  ASSUME NEW T, NEW errs, NEW st, NEW l, NEW sn, PassAt(T, errs, st, l, sn),
         NEW h, NEW m, h \notin {"clusterPre", "rolePre"} \/ (h = "rolePre" /\ m.groupErrs = << >>),
         LocalsOK(T, m), m.waitFor = l.waitFor,
         CarriedBy(<< >>, h, m) = CarriedBy(errs, st, l)
  PROVE  PassAt(T, << >>, h, m, sn)
BY DEF PassAt

LEMMA Begun ==
  ASSUME NEW T, NEW h \in PassHooks, NEW m, NEW sn, PassAt(T, << >>, h, m, sn),
         Begin(h), locals' = m, seen' = sn, result' = Unfinished
  PROVE  PassInv(T)'
<1>1. run'.errs = << >> /\ stage' = h
  BY DEF Begin, NoRun
<1>2. stage' # "idle"
  BY <1>1 DEF PassHooks, Hooks
<1> QED BY <1>1, <1>2 DEF PassInv

\* A pass that fails or is throttled reports neither completion nor a wait.
LEMMA Aborted ==
  ASSUME NEW T, PassInv(T), stage # "idle", NEW err, Abort(err)
  PROVE  PassInv(T)'
<1>1. CASE Throttled(err)
  <2>1. stage' = "idle" /\ locals' = NoLocals /\ result'.kind = "throttled"
    BY <1>1 DEF Abort, Finish
  <2> QED BY <2>1 DEF PassInv, PassHooks, Hooks, FailureOutranksWaits, ShortestWaitWins
<1>2. CASE ~Throttled(err)
  <2>1. stage' = "onError" /\ result' = Unfinished
    BY <1>2 DEF Abort, Begin, PassInv
  <2> QED BY <2>1 DEF PassInv, PassHooks
<1> QED BY <1>1, <1>2

\* The role returns what it carried.
LEMMA RoleReturned ==
  ASSUME NEW T, Judged(T), PassInv(T), stage \in PassHooks, stage # "clusterPost",
         NEW err \in T, RoleReturns(err), UNCHANGED seen,
         Leafs(err) = CarriedBy(run.errs, stage, locals) \/ Throttled(err)
  PROVE  PassInv(T)'
<1>1. stage # "idle"
  BY DEF PassHooks, Hooks
<1>2. CASE Throttled(err)
  BY <1>1, <1>2, Aborted DEF RoleReturns
<1>3. CASE ~Throttled(err)
  <2> DEFINE m == [locals EXCEPT !.roleErr = err]
  <2>1. PassAt(T, run.errs, stage, locals, seen) /\ result = Unfinished
    BY <1>1 DEF PassInv
  <2>2. Begin("clusterPost") /\ locals' = m /\ result' = Unfinished
    BY <1>3, <2>1 DEF RoleReturns, Continue
  <2>3. LocalsOK(T, locals)
    BY <2>1 DEF PassAt
  <2>4. m = [group |-> locals.group, groupErrs |-> locals.groupErrs, roleErr |-> err, waitFor |-> locals.waitFor]
    BY <2>3 DEF LocalsOK
  <2> HIDE DEF m
  <2>5. LocalsOK(T, m) /\ m.waitFor = locals.waitFor
    BY <2>3, <2>4 DEF LocalsOK
  <2>6. CarriedBy(<< >>, "clusterPost", m) = CarriedBy(run.errs, stage, locals)
    BY <1>3, <2>4, NothingLeaves DEF CarriedBy
  <2>7. PassAt(T, << >>, "clusterPost", m, seen)
    BY <2>1, <2>5, <2>6, Moves
  <2> QED BY <2>2, <2>7, Begun DEF PassHooks, Hooks
<1> QED BY <1>2, <1>3

LEMMA StartKeepsPass ==
  ASSUME NEW T, Judged(T), PassInv(T), StartPass
  PROVE  PassInv(T)'
<1>1. locals = NoLocals /\ Begin("clusterPre") /\ locals' = locals /\ seen' = {} /\ result' = Unfinished
  BY DEF StartPass, PassInv
<1>2. NoError \in T /\ Leafs(NoError) = {}
  BY DEF Judged
<1>3. PassAt(T, << >>, "clusterPre", NoLocals, {})
  BY <1>2, NothingLeaves DEF PassAt, LocalsOK, NoLocals, CarriedBy, NoWait
<1> QED BY <1>1, <1>3, Begun DEF PassHooks, Hooks

LEMMA RunHookKeepsPass ==
  ASSUME NEW T, Judged(T), HookInv, PassInv(T), RunHook
  PROVE  PassInv(T)'
<1>1. stage \in Hooks /\ stage # "idle" /\ UNCHANGED <<stage, locals, result>>
  BY DEF RunHook, Hooks
<1>2. CASE stage = "onError"
  BY <1>1, <1>2 DEF PassInv, PassHooks
<1>3. CASE stage # "onError"
  <2>1. PassAt(T, run.errs, stage, locals, seen) /\ result = Unfinished
    BY <1>1, <1>3 DEF PassInv, PassHooks
  <2>2. PICK e \in HookErrors \cup {NoError} : run' = AfterHook(e) /\ seen' = seen \cup Leafs(e)
    BY <1>3 DEF RunHook
  <2>3. e \in T /\ run.errs \in Seq(T)
    BY <2>1 DEF Judged, PassAt
  <2>4. run'.errs = IF e = NoError THEN run.errs ELSE Append(run.errs, Wrapped(e))
    <3>1. run = [entries |-> run.entries, at |-> run.at, errs |-> run.errs, ran |-> run.ran,
                 stopped |-> run.stopped]
      BY DEF HookInv, RunOK
    <3>2. aggregate(stage)
      BY <1>3 DEF aggregate
    <3>3. run'.errs = IF e # NoError THEN Append(run.errs, Wrapped(e)) ELSE run.errs
      BY <2>2, <3>1, <3>2 DEF AfterHook
    <3> QED BY <3>3
  <2>5. run'.errs \in Seq(T) /\ LeavesOf(run'.errs) = LeavesOf(run.errs) \cup Leafs(e)
    <3>1. CASE e = NoError
      BY <2>3, <2>4, <3>1 DEF Judged
    <3>2. CASE e # NoError
      BY <2>3, <2>4, <3>2, WrappedIs, LeavesAppend
    <3> QED BY <3>1, <3>2
  <2>6. CarriedBy(run'.errs, stage, locals) = CarriedBy(run.errs, stage, locals) \cup Leafs(e)
    BY <2>5 DEF CarriedBy
  <2>7. PassAt(T, run'.errs, stage, locals, seen')
    BY <2>1, <2>2, <2>5, <2>6 DEF PassAt
  <2> QED BY <1>1, <2>1, <2>7 DEF PassInv
<1> QED BY <1>2, <1>3

\* A wait at the level of the cluster takes all that its hook returned.
LEMMA ClusterPreKeepsPass ==
  ASSUME NEW T, Judged(T), PassInv(T), EndClusterPre
  PROVE  PassInv(T)'
<1> DEFINE verdict == WaitVerdict(HookError)
           next == newWaitState(verdict)
           wait == mergeWait(locals.waitFor, next)
           m == [locals EXCEPT !.waitFor = wait]
<1>1. stage = "clusterPre" /\ stage # "idle" /\ stage \in PassHooks /\ UNCHANGED seen
  BY DEF EndClusterPre, Done, PassHooks, Hooks, Registered
<1>2. PassAt(T, run.errs, "clusterPre", locals, seen) /\ result = Unfinished
  BY <1>1 DEF PassInv
<1>3. HookError \in T /\ Leafs(HookError) = LeavesOf(run.errs)
  BY <1>2, HookErrorIs DEF PassAt
<1>4. LocalsOK(T, locals) /\ locals.groupErrs = << >> /\ locals.roleErr = NoError /\ Leafs(NoError) = {}
  BY <1>2 DEF PassAt, Judged
<1>5. m = [group |-> locals.group, groupErrs |-> << >>, roleErr |-> NoError, waitFor |-> wait]
  BY <1>4 DEF LocalsOK
<1>6. CarriedBy(run.errs, "clusterPre", locals) = Leafs(HookError)
  BY <1>3, <1>4, NothingLeaves DEF CarriedBy
<1>7. CASE HookError # NoError /\ ~verdict.waiting
  <2>1. Abort(Wrapped(HookError))
    BY <1>7 DEF EndClusterPre
  <2> QED BY <1>1, <2>1, Aborted
<1>8. CASE verdict.waiting
  <2>1. Begin("clusterPost") /\ locals' = m /\ result' = Unfinished
    BY <1>2, <1>8 DEF EndClusterPre, Continue
  <2>2. /\ next \in Nat /\ next >= MinRequeueAfter /\ Leafs(HookError) # {}
        /\ \A x \in Leafs(HookError) : WaitedFor(x, next)
    BY <1>3, <1>8, VerdictIs
  <2>3. locals.waitFor \in Nat /\ (locals.waitFor # NoWait => locals.waitFor >= MinRequeueAfter)
    BY <1>4 DEF LocalsOK
  <2> HIDE DEF verdict, next
  <2>4. next # NoWait
    BY <2>2 DEF NoWait, MinRequeueAfter
  <2>5. /\ wait \in {locals.waitFor, next} /\ wait # NoWait /\ wait <= next
        /\ locals.waitFor # NoWait => wait <= locals.waitFor
    BY <2>2, <2>3, <2>4, MergeIs
  <2> HIDE DEF wait, m
  <2>6. wait \in Nat /\ wait >= MinRequeueAfter
    BY <2>2, <2>3, <2>5
  <2>7. ASSUME NEW x, NEW w \in Nat, WaitedFor(x, w), wait <= w PROVE WaitedFor(x, wait)
    <3>1. x.after \in Int /\ w <= ClampRequeueAfter(x.after) /\ x.kind = "wait"
      BY <2>7 DEF WaitedFor
    <3>2. ClampRequeueAfter(x.after) \in Nat
      BY <3>1, ClampIs
    <3> QED BY <2>5, <2>6, <2>7, <3>1, <3>2 DEF WaitedFor
  <2>8. ASSUME NEW x \in seen PROVE WaitedFor(x, wait)
    <3>1. x \in Leafs(HookError) \/ WaitedFor(x, locals.waitFor)
      BY <1>2, <1>6 DEF PassAt
    <3>2. CASE x \in Leafs(HookError)
      BY <2>2, <2>5, <2>7, <3>2
    <3>3. CASE WaitedFor(x, locals.waitFor)
      <4>1. wait <= locals.waitFor
        BY <2>5, <3>3 DEF WaitedFor
      <4> QED BY <2>3, <2>7, <3>3, <4>1
    <3> QED BY <3>1, <3>2, <3>3
  <2>9. seen # {}
    BY <1>2, <1>6, <2>2 DEF PassAt
  <2>10. NoError \in T
    BY DEF Judged
  <2>11. LocalsOK(T, m)
    BY <1>5, <2>6, <2>10 DEF LocalsOK
  <2>12. CarriedBy(<< >>, "clusterPost", m) = {}
    BY <1>4, <1>5, NothingLeaves DEF CarriedBy
  <2>13. PassAt(T, << >>, "clusterPost", m, seen)
    BY <1>5, <2>8, <2>9, <2>11, <2>12 DEF PassAt
  <2> QED BY <1>1, <2>1, <2>13, Begun DEF PassHooks, Hooks
<1>9. CASE HookError = NoError /\ ~verdict.waiting
  <2>1. Begin("rolePre") /\ locals' = m /\ result' = Unfinished
    BY <1>2, <1>9 DEF EndClusterPre, Continue
  <2>2. next = NoWait
    BY <1>3, <1>9, VerdictIs
  <2>3. wait = locals.waitFor
    BY <2>2 DEF mergeWait
  <2> HIDE DEF verdict, next, wait, m
  <2>4. LocalsOK(T, m) /\ m.waitFor = locals.waitFor /\ m.groupErrs = << >>
    BY <1>4, <1>5, <2>3 DEF LocalsOK
  <2>5. CarriedBy(<< >>, "rolePre", m) = CarriedBy(run.errs, "clusterPre", locals)
    BY <1>4, <1>5, <1>6, <1>9, NothingLeaves DEF CarriedBy
  <2>6. PassAt(T, << >>, "rolePre", m, seen)
    BY <1>2, <2>4, <2>5, Moves
  <2> QED BY <1>1, <2>1, <2>6, Begun DEF PassHooks, Hooks
<1> QED BY <1>7, <1>8, <1>9

\* The hook of a role or a group came through, and the pass goes on with h.
LEMMA Continued ==
  ASSUME NEW T, Judged(T), PassInv(T), stage \in {"rolePre", "groupPre", "groupPost"},
         NEW h \in {"groupPre", "groupPost", "rolePost"}, NEW m, Continue(h, m), UNCHANGED seen,
         LocalsOK(T, m), m.waitFor = locals.waitFor,
         LeavesOf(m.groupErrs) = LeavesOf(locals.groupErrs) \cup LeavesOf(run.errs)
  PROVE  PassInv(T)'
<1>1. PassAt(T, run.errs, stage, locals, seen) /\ result = Unfinished
  BY DEF PassInv, PassHooks, Hooks
<1>2. Begin(h) /\ locals' = m /\ result' = Unfinished
  BY <1>1 DEF Continue
<1>3. CarriedBy(<< >>, h, m) = CarriedBy(run.errs, stage, locals)
  BY NothingLeaves DEF CarriedBy
<1>4. PassAt(T, << >>, h, m, seen)
  BY <1>1, <1>3, Moves
<1> QED BY <1>2, <1>4, Begun DEF PassHooks, Hooks

LEMMA RolePreKeepsPass ==
  ASSUME NEW T, Judged(T), PassInv(T), EndRolePre
  PROVE  PassInv(T)'
<1>1. stage = "rolePre" /\ stage \in PassHooks /\ UNCHANGED seen
  BY DEF EndRolePre, Done, PassHooks, Hooks, Registered
<1>2. PassAt(T, run.errs, "rolePre", locals, seen) /\ LocalsOK(T, locals) /\ locals.groupErrs = << >>
  BY <1>1 DEF PassInv, PassAt
<1>3. HookError \in T /\ Leafs(HookError) = LeavesOf(run.errs)
  BY <1>2, HookErrorIs DEF PassAt
<1>4. CASE HookError # NoError
  <2>1. RoleReturns(Wrapped(HookError))
    BY <1>4 DEF EndRolePre
  <2>2. Wrapped(HookError) \in T /\ Leafs(Wrapped(HookError)) = CarriedBy(run.errs, stage, locals)
    BY <1>1, <1>2, <1>3, WrappedIs, NothingLeaves DEF CarriedBy
  <2> QED BY <1>1, <2>1, <2>2, RoleReturned
<1>5. CASE HookError = NoError
  <2> DEFINE m == [locals EXCEPT !.group = 1]
             h == IF NGroups = 0 THEN "rolePost" ELSE "groupPre"
  <2>1. Continue(h, m)
    BY <1>5 DEF EndRolePre
  <2>2. m = [group |-> 1, groupErrs |-> locals.groupErrs, roleErr |-> locals.roleErr,
             waitFor |-> locals.waitFor]
    BY <1>2 DEF LocalsOK
  <2> HIDE DEF m
  <2>3. LocalsOK(T, m) /\ m.waitFor = locals.waitFor /\ m.groupErrs = locals.groupErrs
    BY <1>2, <2>2 DEF LocalsOK
  <2>4. LeavesOf(run.errs) = {}
    BY <1>3, <1>5 DEF Judged
  <2>5. h \in {"groupPre", "groupPost", "rolePost"}
    OBVIOUS
  <2> HIDE DEF h
  <2> QED BY <1>1, <2>1, <2>3, <2>4, <2>5, Continued
<1> QED BY <1>4, <1>5

LEMMA GroupKeepsPass ==
  ASSUME NEW T, Judged(T), PassInv(T), EndGroupHook
  PROVE  PassInv(T)'
<1>1. /\ stage \in {"groupPre", "groupPost"} /\ stage \in {"rolePre", "groupPre", "groupPost"}
      /\ stage \in PassHooks /\ stage # "clusterPost" /\ UNCHANGED seen
  BY DEF EndGroupHook, Done, PassHooks, Hooks, Registered
<1>2. PassAt(T, run.errs, stage, locals, seen) /\ LocalsOK(T, locals)
  BY <1>1 DEF PassInv, PassAt
<1>3. HookError \in T /\ Leafs(HookError) = LeavesOf(run.errs)
  BY <1>2, HookErrorIs DEF PassAt
<1>4. Wrapped(HookError) \in T /\ Leafs(Wrapped(HookError)) = LeavesOf(run.errs)
  BY <1>3, WrappedIs
<1>5. HookError = NoError => LeavesOf(run.errs) = {}
  BY <1>3 DEF Judged
\* The loop goes on, with the error of this group or none.
<1>6. ASSUME NEW errs, (errs = << >> /\ LeavesOf(run.errs) = {}) \/ errs = <<Wrapped(HookError)>>,
             NextGroup(errs)
      PROVE  PassInv(T)'
  <2> DEFINE es == locals.groupErrs
             m == [locals EXCEPT !.group = @ + 1, !.groupErrs = @ \o errs]
             h == IF locals.group = NGroups THEN "rolePost" ELSE "groupPre"
  <2>1. Continue(h, m)
    BY <1>6 DEF NextGroup
  <2>2. h \in {"groupPre", "groupPost", "rolePost"}
    OBVIOUS
  <2> HIDE DEF h
  <2>3. m = [group |-> locals.group + 1, groupErrs |-> es \o errs, roleErr |-> locals.roleErr,
             waitFor |-> locals.waitFor]
    <3> DEFINE b == [locals EXCEPT !.group = @ + 1]
    <3>1. b = [group |-> locals.group + 1, groupErrs |-> es, roleErr |-> locals.roleErr,
               waitFor |-> locals.waitFor]
      BY <1>2 DEF LocalsOK
    <3>2. m = [b EXCEPT !.groupErrs = es \o errs]
      BY <1>2 DEF LocalsOK
    <3> HIDE DEF b, m
    <3> QED BY <3>1, <3>2
  <2> HIDE DEF m
  <2>4. es \in Seq(T)
    BY <1>2 DEF LocalsOK
  <2>5. es \o errs \in Seq(T) /\ LeavesOf(es \o errs) = LeavesOf(es) \cup LeavesOf(run.errs)
    <3>1. CASE errs = << >> /\ LeavesOf(run.errs) = {}
      <4>1. es \o errs = es
        BY <2>4, <3>1
      <4> QED BY <2>4, <3>1, <4>1
    <3>2. CASE errs = <<Wrapped(HookError)>>
      <4>1. es \o errs = Append(es, Wrapped(HookError))
        BY <1>4, <2>4, <3>2
      <4> QED BY <1>4, <2>4, <4>1, LeavesAppend
    <3> QED BY <1>6, <3>1, <3>2
  <2>6. LocalsOK(T, m) /\ m.waitFor = locals.waitFor
    BY <1>2, <2>3, <2>5 DEF LocalsOK
  <2>7. LeavesOf(m.groupErrs) = LeavesOf(es) \cup LeavesOf(run.errs)
    BY <2>3, <2>5
  <2> QED BY <1>1, <2>1, <2>2, <2>6, <2>7, Continued
<1>7. CASE HookError = NoError /\ Continue("groupPost", locals)
  BY <1>1, <1>2, <1>5, <1>7, Continued
<1>8. CASE HookError = NoError /\ NextGroup(<< >>)
  BY <1>5, <1>6, <1>8
<1>9. CASE Throttled(HookError) /\ RoleReturns(Wrapped(HookError))
  <2>1. Throttled(Wrapped(HookError))
    BY <1>3, <1>9 DEF Judged, JudgesError
  <2> QED BY <1>1, <1>4, <1>9, <2>1, RoleReturned
<1>10. CASE NextGroup(<<Wrapped(HookError)>>)
  BY <1>6, <1>10
<1> QED BY <1>7, <1>8, <1>9, <1>10 DEF EndGroupHook

LEMMA RolePostKeepsPass ==
  ASSUME NEW T, Judged(T), PassInv(T), EndRolePost
  PROVE  PassInv(T)'
<1> DEFINE last == IF HookError = NoError THEN NoError ELSE Wrapped(HookError)
           es == Append(locals.groupErrs, last)
<1>1. stage = "rolePost" /\ stage \in PassHooks /\ UNCHANGED seen /\ RoleReturns(Joined(es))
  BY DEF EndRolePost, Done, PassHooks, Hooks, Registered
<1>2. PassAt(T, run.errs, "rolePost", locals, seen) /\ LocalsOK(T, locals)
  BY <1>1 DEF PassInv, PassAt
<1>3. HookError \in T /\ Leafs(HookError) = LeavesOf(run.errs)
  BY <1>2, HookErrorIs DEF PassAt
<1>4. last \in T /\ Leafs(last) = LeavesOf(run.errs)
  BY <1>3, WrappedIs
<1> HIDE DEF last
<1>5. es \in Seq(T) /\ LeavesOf(es) = LeavesOf(locals.groupErrs) \cup LeavesOf(run.errs)
  BY <1>2, <1>4, LeavesAppend DEF LocalsOK
<1> HIDE DEF es
<1>6. Joined(es) \in T /\ Leafs(Joined(es)) = LeavesOf(es)
  BY <1>5 DEF Judged, JudgesJoin, LeavesOf
<1>7. Leafs(Joined(es)) = CarriedBy(run.errs, stage, locals)
  BY <1>1, <1>5, <1>6 DEF CarriedBy
<1> QED BY <1>1, <1>6, <1>7, RoleReturned

LEMMA EarliestIs ==
  ASSUME NEW a \in Nat, NEW b \in Nat, b > 0
  PROVE  earliestRequeue({a, b}) \in {a, b} /\ earliestRequeue({a, b}) <= b
<1> DEFINE pending == {d \in {a, b} : d > 0}
<1>1. b \in pending
  OBVIOUS
<1>2. \E d \in pending : \A e \in pending : d <= e
  <2>1. CASE a > 0 /\ a < b
    <3>1. a \in pending /\ \A e \in pending : a <= e
      BY <2>1
    <3> QED BY <3>1
  <2>2. CASE ~(a > 0 /\ a < b)
    <3>1. \A e \in pending : b <= e
      BY <2>2
    <3> QED BY <1>1, <3>1
  <2> QED BY <2>1, <2>2
<1>3. earliestRequeue({a, b}) = CHOOSE d \in pending : \A e \in pending : d <= e
  BY <1>1 DEF earliestRequeue
<1>4. /\ earliestRequeue({a, b}) \in pending
      /\ \A e \in pending : earliestRequeue({a, b}) <= e
  <2> HIDE DEF pending
  <2> QED BY <1>2, <1>3
<1> QED BY <1>1, <1>4

\* The end of a pass that nothing failed: what is left is waited for.
LEMMA ClusterPostKeepsPass ==
  ASSUME NEW T, Judged(T), PassInv(T), EndClusterPost
  PROVE  PassInv(T)'
<1> DEFINE es == <<locals.roleErr>>
           joined == Joined(es)
           verdict == WaitVerdict(joined)
           next == newWaitState(verdict)
           wait == mergeWait(locals.waitFor, next)
<1>1. stage = "clusterPost" /\ stage # "idle" /\ stage \in PassHooks /\ UNCHANGED seen
  BY DEF EndClusterPost, Done, PassHooks, Hooks, Registered
<1>2. PassAt(T, run.errs, "clusterPost", locals, seen) /\ LocalsOK(T, locals)
  BY <1>1 DEF PassInv, PassAt
<1>3. HookError \in T /\ Leafs(HookError) = LeavesOf(run.errs)
  BY <1>2, HookErrorIs DEF PassAt
<1>4. CASE \E err : Abort(err)
  BY <1>1, <1>4, Aborted
<1>5. CASE /\ HookError = NoError /\ (joined = NoError \/ verdict.waiting)
           /\ Finish(IF wait = NoWait THEN "complete" ELSE "waiting",
                     earliestRequeue({HealthInterval, wait}))
  <2>1. es \in Seq(T) /\ LeavesOf(es) = Leafs(locals.roleErr)
    BY <1>2 DEF LocalsOK, LeavesOf
  <2>2. joined \in T /\ Leafs(joined) = Leafs(locals.roleErr)
    <3> HIDE DEF es
    <3> QED BY <2>1 DEF Judged, JudgesJoin, LeavesOf
  <2>3. CarriedBy(run.errs, "clusterPost", locals) = Leafs(joined)
    BY <1>3, <1>5, <2>2 DEF CarriedBy, Judged
  <2>4. /\ next \in Nat
        /\ verdict.waiting => /\ next >= MinRequeueAfter /\ Leafs(joined) # {}
                              /\ \A x \in Leafs(joined) : WaitedFor(x, next)
        /\ ~verdict.waiting => next = NoWait
    <3> HIDE DEF joined
    <3> QED BY <2>2, VerdictIs
  <2>5. ~verdict.waiting => Leafs(joined) = {}
    BY <1>5 DEF Judged
  <2>6. locals.waitFor \in Nat /\ (locals.waitFor # NoWait => locals.waitFor >= MinRequeueAfter)
    BY <1>2 DEF LocalsOK
  <2>7. /\ Leafs(joined) \subseteq seen
        /\ \A x \in seen : x \in Leafs(joined) \/ WaitedFor(x, locals.waitFor)
        /\ locals.waitFor # NoWait => seen # {}
    BY <1>2, <2>3 DEF PassAt
  <2>8. /\ stage' = "idle" /\ locals' = NoLocals
        /\ result' = [kind |-> IF wait = NoWait THEN "complete" ELSE "waiting",
                      after |-> earliestRequeue({HealthInterval, wait})]
    BY <1>5 DEF Finish
  <2> HIDE DEF joined, verdict, next
  <2>9. /\ wait \in {locals.waitFor, next}
        /\ locals.waitFor # NoWait => wait # NoWait /\ wait <= locals.waitFor
        /\ next # NoWait => wait # NoWait /\ wait <= next
    BY <2>4, <2>6, MergeIs
  <2> HIDE DEF wait
  <2>10. wait = NoWait => seen = {}
    BY <2>4, <2>5, <2>7, <2>9 DEF WaitedFor, NoWait, MinRequeueAfter
  <2>11. ASSUME wait # NoWait
         PROVE  /\ wait \in Nat /\ wait >= MinRequeueAfter /\ seen # {}
                /\ \A x \in seen : x.kind = "wait" /\ x.after \in Int /\ wait <= ClampRequeueAfter(x.after)
    <3>1. wait \in Nat /\ wait >= MinRequeueAfter
      BY <2>4, <2>6, <2>9, <2>11
    <3>2. seen # {}
      BY <2>4, <2>7, <2>9, <2>11
    <3>3. ASSUME NEW x, NEW w \in Nat, WaitedFor(x, w), wait <= w
          PROVE  x.kind = "wait" /\ x.after \in Int /\ wait <= ClampRequeueAfter(x.after)
      <4>1. x.kind = "wait" /\ x.after \in Int /\ w <= ClampRequeueAfter(x.after)
        BY <3>3 DEF WaitedFor
      <4>2. ClampRequeueAfter(x.after) \in Nat
        BY <4>1, ClampIs
      <4> QED BY <3>1, <3>3, <4>1, <4>2
    <3>4. ASSUME NEW x \in seen
          PROVE  x.kind = "wait" /\ x.after \in Int /\ wait <= ClampRequeueAfter(x.after)
      <4>1. CASE x \in Leafs(joined)
        <5>1. WaitedFor(x, next)
          BY <2>4, <2>5, <4>1
        <5>2. wait <= next
          BY <2>9, <5>1 DEF WaitedFor
        <5> QED BY <2>4, <3>3, <5>1, <5>2
      <4>2. CASE WaitedFor(x, locals.waitFor)
        <5>1. wait <= locals.waitFor
          BY <2>9, <4>2 DEF WaitedFor
        <5> QED BY <2>6, <3>3, <4>2, <5>1
      <4> QED BY <2>7, <4>1, <4>2
    <3> QED BY <3>1, <3>2, <3>4
  <2>12. CASE wait = NoWait
    <3>1. result'.kind = "complete" /\ seen' = {}
      BY <1>1, <2>8, <2>10, <2>12
    <3> QED BY <2>8, <3>1 DEF PassInv, PassHooks, Hooks, FailureOutranksWaits, ShortestWaitWins
  <2>13. CASE wait # NoWait
    <3> DEFINE after == earliestRequeue({HealthInterval, wait})
    <3>1. wait \in Nat /\ wait >= MinRequeueAfter /\ wait > 0
      BY <2>11, <2>13 DEF MinRequeueAfter
    <3>2. after \in {HealthInterval, wait} /\ after <= wait /\ after \in Nat
      BY <3>1, EarliestIs, HooksAssumption
    <3>3. result' = [kind |-> "waiting", after |-> after]
      BY <2>8, <2>13
    <3> HIDE DEF after
    <3>4. after >= MinRequeueAfter \/ after = HealthInterval
      BY <3>1, <3>2
    <3>5. ASSUME NEW x \in seen
          PROVE  after <= IF x.after <= 0 THEN DefaultRequeueAfter
                          ELSE IF x.after < MinRequeueAfter THEN MinRequeueAfter ELSE x.after
      <4>1. x.after \in Int /\ wait <= ClampRequeueAfter(x.after)
        BY <2>11, <2>13
      <4>2. ClampRequeueAfter(x.after) \in Nat
        BY <4>1, ClampIs
      <4>3. after <= ClampRequeueAfter(x.after)
        BY <3>1, <3>2, <4>1, <4>2
      <4> QED BY <4>3 DEF ClampRequeueAfter
    <3>6. FailureOutranksWaits'
      BY <1>1, <2>11, <2>13, <3>3 DEF FailureOutranksWaits
    <3>7. ShortestWaitWins'
      BY <1>1, <3>3, <3>4, <3>5 DEF ShortestWaitWins
    <3> QED BY <2>8, <3>6, <3>7 DEF PassInv, PassHooks, Hooks
  <2> QED BY <2>12, <2>13
<1> QED BY <1>4, <1>5, Zenon DEF EndClusterPost

LEMMA OnErrorKeepsPass ==
  ASSUME NEW T, PassInv(T), EndOnError
  PROVE  PassInv(T)'
<1>1. stage' = "idle" /\ locals' = NoLocals /\ result'.kind = "failed"
  BY DEF EndOnError, Finish
<1> QED BY <1>1 DEF PassInv, PassHooks, Hooks, FailureOutranksWaits, ShortestWaitWins

\* What hooks return is carried on or waited for, whatever is registered while
\* the pass runs (executeHooks, reconcile, reconcileRole).
THEOREM PassInvariant ==
  ASSUME NEW CONSTANT T, Judged(T)
  PROVE  HooksSpec => []PassInv(T)
<1>1. HooksInit => PassInv(T)
  BY DEF HooksInit, PassInv, PassHooks, Hooks, Unfinished, FailureOutranksWaits, ShortestWaitWins
<1>2. HookInv /\ PassInv(T) /\ [HooksNext]_hookVars => PassInv(T)'
  <2> SUFFICES ASSUME HookInv, PassInv(T), [HooksNext]_hookVars PROVE PassInv(T)'
    OBVIOUS
  <2>1. CASE StartPass
    BY <2>1, StartKeepsPass
  <2>2. CASE RunHook
    BY <2>2, RunHookKeepsPass
  <2>3. CASE EndClusterPre
    BY <2>3, ClusterPreKeepsPass
  <2>4. CASE EndRolePre
    BY <2>4, RolePreKeepsPass
  <2>5. CASE EndGroupHook
    BY <2>5, GroupKeepsPass
  <2>6. CASE EndRolePost
    BY <2>6, RolePostKeepsPass
  <2>7. CASE EndClusterPost
    BY <2>7, ClusterPostKeepsPass
  <2>8. CASE EndOnError
    BY <2>8, OnErrorKeepsPass
  <2>9. CASE \/ \E l \in Levels, p \in Priorities, s \in StopOptions : Register(l, p, s)
             \/ Clear \/ UNCHANGED hookVars
    <3>1. UNCHANGED <<run, stage, locals, result, seen>>
      BY <2>9 DEF Register, Clear, hookVars
    <3> QED BY <3>1 DEF PassInv, FailureOutranksWaits, ShortestWaitWins
  <2> QED BY <2>1, <2>2, <2>3, <2>4, <2>5, <2>6, <2>7, <2>8, <2>9 DEF HooksNext, HookPass
<1> QED BY <1>1, <1>2, HooksInvariant, PTL DEF HooksSpec

LEMMA PassHonest ==
  ASSUME NEW T, PassInv(T) PROVE FailureOutranksWaits /\ ShortestWaitWins
BY DEF PassInv, Unfinished, FailureOutranksWaits, ShortestWaitWins

\* No failure is laundered into completion or a wait: not one joined to a wait,
\* wrapped around one, or raised by a sibling (executeHooks, WaitingErrors and
\* its callers), when the errors a pass meets are judged soundly.
THEOREM FailuresOutrank ==
  ASSUME NEW CONSTANT T, Judged(T)
  PROVE  HooksSpec => []FailureOutranksWaits
<1>1. PassInv(T) => FailureOutranksWaits
  BY PassHonest
<1> QED BY <1>1, PassInvariant, PTL

\* A waiting pass comes back for the shortest of all its waits
\* (ClampRequeueAfter, mergeWait, earliestRequeue), likewise.
THEOREM ShortestWins ==
  ASSUME NEW CONSTANT T, Judged(T)
  PROVE  HooksSpec => []ShortestWaitWins
<1>1. PassInv(T) => ShortestWaitWins
  BY PassHonest
<1> QED BY <1>1, PassInvariant, PTL

=============================================================================
