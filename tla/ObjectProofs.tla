---------------------------- MODULE ObjectProofs ----------------------------
(***************************************************************************)
(* Proofs about the objects the operator writes one by one.                *)
(*                                                                         *)
(* GeneratedSecret implements WriteOnce, for any keys, any number of       *)
(* workers and any number of failed calls and interferences.  A stored     *)
(* value survives because a write is accepted only over what it was        *)
(* derived from; a new value is one no worker and no Secret has had.       *)
(*                                                                         *)
(* WorkloadRBAC: whatever rules are declared and held, and however many    *)
(* events there are, the pods' ServiceAccount is bound to this cluster's   *)
(* Role or to nothing, and a resourceVersion read is enough to keep        *)
(* another controller's objects out of a write.                            *)
(*                                                                         *)
(* DesiredState, for any objects the handlers may build and any sequence   *)
(* of edits, squatters, stamps and restarts: an Update is refused only as  *)
(* known, what others wrote is kept, and mounted data stays mounted.  A    *)
(* step of applyResource writes one object over another, so the invariant  *)
(* says what both look like and the rest is the algebra of                 *)
(* copyDesiredState.                                                       *)
(***************************************************************************)
EXTENDS GeneratedSecret, WorkloadRBAC, DesiredState, FiniteSetTheorems, TLAPS

-----------------------------------------------------------------------------
(* GeneratedSecret.                                                         *)

Secrets ==
  [rv : Nat, data : [SecretKeys -> Nat], owner : {"none", "cr", "other"},
   labels : {"foreign", "canonical"}, type : {"none", "wanted", "other"}]

Calls == [pc : {"idle", "write", "reread"}, read : Secrets, obj : Secrets]

\* Every variable has its type.
SecretTypeOK ==
  /\ secret \in Secrets /\ secretCache \in Secrets /\ rev \in Nat
  /\ worker \in [SecretWorkers -> Calls]
  /\ ever \in [SecretKeys -> SUBSET Nat] /\ handed \in [SecretKeys -> SUBSET Nat]
  /\ tampers \in 0 .. MaxTampers

\* What obj holds has been stored before, and an absent Secret holds nothing.
Known(obj) ==
  /\ \A k \in SecretKeys : obj.data[k] # NoValue => obj.data[k] \in ever[k]
  /\ ~Exists(obj) => obj = NoSecret

\* The Secret, the cache and what the workers have read of it.
AllKnown ==
  /\ Known(secret) /\ Known(secretCache)
  /\ \A w \in SecretWorkers : Known(worker[w].read)

\* Worker w is in a call: what it read it keeps, and what was missing it has
\* filled with values that no one else has.
Prepared(w) ==
  \A k \in SecretKeys :
    /\ worker[w].obj.data[k] # NoValue
    /\ worker[w].read.data[k] # NoValue => worker[w].obj.data[k] = worker[w].read.data[k]
    /\ worker[w].read.data[k] = NoValue =>
         /\ worker[w].obj.data[k] \notin ever[k]
         /\ \A x \in SecretWorkers \ {w} : worker[x].obj.data[k] # worker[w].obj.data[k]

AllPrepared == \A w \in SecretWorkers : worker[w].pc # "idle" => Prepared(w)

\* A key has had one value for each interference, and the one it has.
Counted ==
  \A k \in SecretKeys :
    /\ IsFiniteSet(ever[k])
    /\ Cardinality(ever[k]) <= tampers + (IF secret.data[k] = NoValue THEN 0 ELSE 1)

SecretInv == SecretTypeOK /\ AllKnown /\ AllPrepared /\ Counted

-----------------------------------------------------------------------------
(* Generators.                                                              *)

\* There is always a value left that neither the Secret nor a worker has had.
LEMMA GeneratedFresh ==
  ASSUME SecretInv, NEW k \in SecretKeys
  PROVE  /\ Generated(k) \in Nat \ {0}
         /\ Generated(k) \notin ever[k]
         /\ \A w \in SecretWorkers : worker[w].obj.data[k] # Generated(k)
<1> DEFINE N == MaxTampers + Cardinality(SecretWorkers) + 2
           inflight == {worker[w].obj.data[k] : w \in SecretWorkers}
           used == ever[k] \cup inflight
<1>1. IsFiniteSet(SecretWorkers) /\ Cardinality(SecretWorkers) \in Nat /\ MaxTampers \in Nat
  BY SecretAssumption, FS_CardinalityType
<1>2. IsFiniteSet(inflight) /\ Cardinality(inflight) <= Cardinality(SecretWorkers)
  <2> DEFINE f == [w \in SecretWorkers |-> worker[w].obj.data[k]]
  <2>1. f \in Surjection(SecretWorkers, inflight)  BY DEF Surjection
  <2> HIDE DEF f, inflight
  <2> QED BY <1>1, <2>1, FS_Surjection
<1>3. /\ IsFiniteSet(ever[k]) /\ Cardinality(ever[k]) <= MaxTampers + 1
      /\ Cardinality(ever[k]) \in Nat
  <2>1. IsFiniteSet(ever[k]) /\ Cardinality(ever[k]) <= tampers + (IF secret.data[k] = NoValue THEN 0 ELSE 1)
    BY DEF SecretInv, Counted
  <2>2. tampers \in Nat /\ tampers <= MaxTampers  BY <1>1 DEF SecretInv, SecretTypeOK
  <2>3. Cardinality(ever[k]) \in Nat  BY <2>1, FS_CardinalityType
  <2> QED BY <1>1, <2>1, <2>2, <2>3
<1>4. IsFiniteSet(used) /\ Cardinality(used) <= MaxTampers + 1 + Cardinality(SecretWorkers)
  <2> HIDE DEF inflight
  <2>1. IsFiniteSet(used) /\ Cardinality(used)
          = Cardinality(ever[k]) + Cardinality(inflight) - Cardinality(ever[k] \cap inflight)
    BY <1>2, <1>3, FS_Union
  <2>2. Cardinality(ever[k] \cap inflight) \in Nat /\ Cardinality(inflight) \in Nat
    BY <1>2, <1>3, FS_Intersection, FS_CardinalityType
  <2> QED BY <1>1, <1>2, <1>3, <2>1, <2>2
<1>5. N \in Nat /\ Cardinality(1..N) = N
  <2>1. N \in Nat /\ N >= 1  BY <1>1
  <2> HIDE DEF N
  <2>2. Cardinality(1..N) = IF 1 > N THEN 0 ELSE N - 1 + 1  BY <2>1, FS_Interval
  <2> QED BY <2>1, <2>2
<1>6. \E v \in 1..N : v \notin used
  <2> HIDE DEF used
  <2> SUFFICES ASSUME 1..N \subseteq used PROVE FALSE  OBVIOUS
  <2>1. Cardinality(1..N) <= Cardinality(used)  BY <1>4, FS_Subset
  <2> QED BY <1>1, <1>4, <1>5, <2>1, FS_CardinalityType
<1>7. Generated(k) \in 1..N /\ Generated(k) \notin used
  BY <1>6 DEF Generated
<1> QED BY <1>5, <1>7

\* The mutate function keeps what is there and fills what is missing.
LEMMA MutatedFacts ==
  ASSUME SecretInv, NEW obj \in Secrets
  PROVE  /\ Mutated(obj) \in Secrets
         /\ \A k \in SecretKeys :
              /\ Mutated(obj).data[k] # NoValue
              /\ obj.data[k] # NoValue => Mutated(obj).data[k] = obj.data[k]
              /\ obj.data[k] = NoValue =>
                   /\ Mutated(obj).data[k] \notin ever[k]
                   /\ \A w \in SecretWorkers : worker[w].obj.data[k] # Mutated(obj).data[k]
<1>1. obj.data \in [SecretKeys -> Nat]  BY DEF Secrets
<1>2. \A k \in SecretKeys : Generated(k) \in Nat  BY GeneratedFresh
<1>3. Fill(obj) \in [SecretKeys -> Nat]
  BY <1>1, <1>2 DEF Fill
<1>4. TypeFor(obj) \in {"none", "wanted", "other"}
  BY DEF TypeFor, Secrets
<1>5. Mutated(obj) \in Secrets /\ Mutated(obj).data = Fill(obj)
  BY <1>3, <1>4 DEF Mutated, Secrets
<1>6. ASSUME NEW k \in SecretKeys
      PROVE  Fill(obj)[k] = IF obj.data[k] = NoValue THEN Generated(k) ELSE obj.data[k]
  BY DEF Fill, Missing
<1> QED BY <1>5, <1>6, GeneratedFresh DEF NoValue

-----------------------------------------------------------------------------
(* The ways a step may change the state.                                    *)

LEMMA NoSecretFacts == NoSecret \in Secrets /\ Known(NoSecret) /\ \A k \in SecretKeys : NoSecret.data[k] = NoValue
BY DEF NoSecret, Secrets, Known, NoValue, Exists

\* Worker w ends its call, and what callers have been given has its type.
LEMMA IdleKeepsInv ==
  ASSUME SecretInv, NEW w \in SecretWorkers, Idle(w),
         UNCHANGED <<secret, rev, secretCache, ever>>,
         handed' \in [SecretKeys -> SUBSET Nat], tampers' \in {tampers, tampers + 1} \cap 0 .. MaxTampers
  PROVE  SecretInv'
<1>1. \A x \in SecretWorkers :
        worker'[x] = IF x = w THEN [pc |-> "idle", read |-> NoSecret, obj |-> NoSecret] ELSE worker[x]
  BY DEF Idle, SecretInv, SecretTypeOK
<1>2. worker' \in [SecretWorkers -> Calls]
  BY NoSecretFacts DEF Idle, SecretInv, SecretTypeOK, Calls
<1>3. SecretTypeOK'  BY <1>2 DEF SecretInv, SecretTypeOK
<1>4. AllKnown'
  <2>1. \A x \in SecretWorkers : Known(worker'[x].read)
    BY <1>1, NoSecretFacts DEF SecretInv, AllKnown
  <2> QED BY <2>1 DEF SecretInv, AllKnown, Known
<1>5. AllPrepared'
  <2> SUFFICES ASSUME NEW x \in SecretWorkers, worker'[x].pc # "idle"
               PROVE  Prepared(x)'
    BY DEF AllPrepared
  <2>1. x # w /\ worker'[x] = worker[x]  BY <1>1
  <2>2. Prepared(x)  BY <2>1 DEF SecretInv, AllPrepared
  <2> QED BY <1>1, <2>1, <2>2, NoSecretFacts DEF Prepared
<1>6. Counted'
  <2>1. tampers \in Nat /\ tampers' \in Nat /\ tampers <= tampers'
    BY SecretAssumption DEF SecretInv, SecretTypeOK
  <2>2. \A k \in SecretKeys : IsFiniteSet(ever[k]) /\ Cardinality(ever[k]) \in Nat
    BY FS_CardinalityType DEF SecretInv, Counted
  <2> QED BY <2>1, <2>2 DEF SecretInv, Counted
<1> QED BY <1>3, <1>4, <1>5, <1>6 DEF SecretInv

\* Worker w stores what it prepared over the Secret it has read, and ends its
\* call.  Only absent keys change, and to values they never had.
LEMMA StoreKeepsInv ==
  ASSUME SecretInv, NEW w \in SecretWorkers, worker[w].pc # "idle", worker[w].read = secret,
         Store(worker[w].obj), Idle(w), UNCHANGED secretCache,
         handed' \in [SecretKeys -> SUBSET Nat], tampers' \in {tampers, tampers + 1} \cap 0 .. MaxTampers
  PROVE  /\ SecretInv'
         /\ \A k \in SecretKeys :
              /\ secret'.data[k] \in ever'[k]
              /\ IF secret'.data[k] = secret.data[k] THEN ever'[k] = ever[k]
                 ELSE /\ secret.data[k] = NoValue /\ secret'.data[k] \notin ever[k]
                      /\ ever'[k] = ever[k] \cup {secret'.data[k]}
<1> DEFINE obj == worker[w].obj
<1>0. obj \in Secrets /\ rev \in Nat /\ Prepared(w)
  BY DEF SecretInv, SecretTypeOK, Calls, AllPrepared
<1>1. \A x \in SecretWorkers :
        worker'[x] = IF x = w THEN [pc |-> "idle", read |-> NoSecret, obj |-> NoSecret] ELSE worker[x]
  BY DEF Idle, SecretInv, SecretTypeOK
<1>2. worker' \in [SecretWorkers -> Calls]
  BY NoSecretFacts DEF Idle, SecretInv, SecretTypeOK, Calls
<1>3. /\ rev' = rev + 1 /\ secret' \in Secrets /\ secret'.data = obj.data /\ Exists(secret')
      /\ ever' = [k \in SecretKeys |-> ever[k] \cup ({obj.data[k]} \ {NoValue})]
  BY <1>0 DEF Store, Secrets, Exists
<1>4. ASSUME NEW k \in SecretKeys
      PROVE  /\ obj.data[k] \in Nat /\ obj.data[k] # NoValue
             /\ ever'[k] = ever[k] \cup {obj.data[k]}
             /\ secret.data[k] # NoValue => obj.data[k] = secret.data[k] /\ secret.data[k] \in ever[k]
             /\ secret.data[k] = NoValue => obj.data[k] \notin ever[k]
  <2>1. obj.data[k] \in Nat  BY <1>0 DEF Secrets
  <2>2. obj.data[k] # NoValue /\ (secret.data[k] # NoValue => obj.data[k] = secret.data[k])
        /\ (secret.data[k] = NoValue => obj.data[k] \notin ever[k])
    BY <1>0 DEF Prepared
  <2>3. secret.data[k] # NoValue => secret.data[k] \in ever[k]
    BY DEF SecretInv, AllKnown, Known
  <2> QED BY <1>3, <2>1, <2>2, <2>3
<1> HIDE DEF obj
<1>5. ever' \in [SecretKeys -> SUBSET Nat]
  <2>1. \A k \in SecretKeys : ever[k] \in SUBSET Nat /\ obj.data[k] \in Nat
    BY <1>4 DEF SecretInv, SecretTypeOK
  <2> QED BY <1>3, <2>1
<1>6. SecretTypeOK'  BY <1>0, <1>2, <1>3, <1>5 DEF SecretInv, SecretTypeOK
<1>7. AllKnown'
  <2>1. ASSUME NEW s \in Secrets, Known(s) PROVE Known(s)'
    BY <2>1, <1>4 DEF Known
  <2>2. Known(secret)'  BY <1>3, <1>4 DEF Known
  <2>3. Known(secretCache)'
    BY <2>1 DEF SecretInv, AllKnown, SecretTypeOK, Known
  <2>4. ASSUME NEW x \in SecretWorkers PROVE Known(worker[x].read)'
    <3>1. CASE x = w  BY <3>1, <1>1, <2>1, NoSecretFacts DEF Known
    <3>2. CASE x # w
      <4>1. worker[x].read \in Secrets /\ Known(worker[x].read)
        BY DEF SecretInv, AllKnown, SecretTypeOK, Calls
      <4> QED BY <3>2, <1>1, <4>1, <1>4 DEF Known
    <3> QED BY <3>1, <3>2
  <2> QED BY <2>2, <2>3, <2>4 DEF AllKnown
<1>8. AllPrepared'
  <2> SUFFICES ASSUME NEW x \in SecretWorkers, worker'[x].pc # "idle"
               PROVE  Prepared(x)'
    BY DEF AllPrepared
  <2>1. x # w /\ worker'[x] = worker[x]  BY <1>1
  <2>2. Prepared(x)  BY <2>1 DEF SecretInv, AllPrepared
  <2>3. \A k \in SecretKeys :
          worker[x].read.data[k] = NoValue => worker[x].obj.data[k] \notin ever'[k]
    BY <2>1, <2>2, <1>4 DEF Prepared, obj
  <2> QED BY <1>1, <2>1, <2>2, <2>3, NoSecretFacts DEF Prepared
<1>9. Counted'
  <2> SUFFICES ASSUME NEW k \in SecretKeys
               PROVE  /\ IsFiniteSet(ever'[k])
                      /\ Cardinality(ever'[k]) <= tampers' + (IF secret'.data[k] = NoValue THEN 0 ELSE 1)
    BY DEF Counted
  <2>1. tampers \in Nat /\ tampers' \in Nat /\ tampers <= tampers'
    BY SecretAssumption DEF SecretInv, SecretTypeOK
  <2>2. /\ IsFiniteSet(ever[k]) /\ Cardinality(ever[k]) \in Nat
        /\ Cardinality(ever[k]) <= tampers + (IF secret.data[k] = NoValue THEN 0 ELSE 1)
    BY FS_CardinalityType DEF SecretInv, Counted
  <2>3. /\ IsFiniteSet(ever'[k])
        /\ Cardinality(ever'[k]) = IF obj.data[k] \in ever[k] THEN Cardinality(ever[k])
                                   ELSE Cardinality(ever[k]) + 1
    BY <1>4, <2>2, FS_AddElement
  <2>4. secret'.data[k] # NoValue  BY <1>3, <1>4
  <2> QED BY <1>4, <2>1, <2>2, <2>3, <2>4
<1>10. ASSUME NEW k \in SecretKeys
       PROVE  /\ secret'.data[k] \in ever'[k]
              /\ IF secret'.data[k] = secret.data[k] THEN ever'[k] = ever[k]
                 ELSE /\ secret.data[k] = NoValue /\ secret'.data[k] \notin ever[k]
                      /\ ever'[k] = ever[k] \cup {secret'.data[k]}
  BY <1>3, <1>4
<1> QED BY <1>6, <1>7, <1>8, <1>9, <1>10 DEF SecretInv

\* What callers are given has its type.
LEMMA HandOutType ==
  ASSUME SecretInv, NEW obj \in Secrets, HandOut(obj)
  PROVE  /\ handed' \in [SecretKeys -> SUBSET Nat]
         /\ \A k \in SecretKeys : handed'[k] = handed[k] \cup ({obj.data[k]} \ {NoValue})
<1>1. \A k \in SecretKeys : handed[k] \in SUBSET Nat /\ obj.data[k] \in Nat
  BY DEF SecretInv, SecretTypeOK, Secrets
<1>2. handed' = [k \in SecretKeys |-> handed[k] \cup ({obj.data[k]} \ {NoValue})]
  BY DEF HandOut
<1> QED BY <1>1, <1>2

-----------------------------------------------------------------------------
(* The actions: each keeps the invariant, and is a step of WriteOnce.       *)

OnceStep == [Once!OnceNext]_(Once!onceVars)

\* A step that leaves the Secret's values alone and hands out known ones.
LEMMA HandsOutKnown ==
  ASSUME SecretInv, secret'.data = secret.data, ever' = ever,
         NEW obj \in Secrets, Known(obj), HandOut(obj)
  PROVE  OnceStep
<1>1. ASSUME NEW k \in SecretKeys
      PROVE  handed[k] \subseteq handed'[k] /\ handed'[k] \subseteq handed[k] \cup ever'[k]
  BY HandOutType DEF Known
<1>2. Once!Ensure  BY <1>1 DEF Once!Ensure
<1> QED BY <1>2 DEF OnceStep, Once!OnceNext

\* A step that leaves all of it alone.
LEMMA Stutters ==
  ASSUME secret'.data = secret.data, ever' = ever, handed' = handed
  PROVE  OnceStep
BY DEF OnceStep, Once!onceVars

\* A worker's write is a step of the store, whether its caller hears of it or not.
LEMMA StoreImplements ==
  ASSUME SecretInv, NEW w \in SecretWorkers, worker[w].pc # "idle", worker[w].read = secret,
         Store(worker[w].obj), Idle(w), UNCHANGED secretCache,
         handed' = handed \/ HandOut(worker[w].obj),
         tampers' \in {tampers, tampers + 1} \cap 0 .. MaxTampers
  PROVE  SecretInv' /\ OnceStep
<1>1. worker[w].obj \in Secrets /\ handed \in [SecretKeys -> SUBSET Nat]
  BY DEF SecretInv, SecretTypeOK, Calls
<1>2. handed' \in [SecretKeys -> SUBSET Nat]
  BY <1>1, HandOutType
<1>3. SecretInv' /\ \A k \in SecretKeys :
              /\ secret'.data[k] \in ever'[k]
              /\ IF secret'.data[k] = secret.data[k] THEN ever'[k] = ever[k]
                 ELSE /\ secret.data[k] = NoValue /\ secret'.data[k] \notin ever[k]
                      /\ ever'[k] = ever[k] \cup {secret'.data[k]}
  BY <1>2, StoreKeepsInv
<1>4. \A k \in SecretKeys : secret'.data[k] = worker[w].obj.data[k]
  BY <1>1 DEF Store, Secrets
<1>5. ASSUME NEW k \in SecretKeys
      PROVE  handed[k] \subseteq handed'[k] /\ handed'[k] \subseteq handed[k] \cup ever'[k]
  BY <1>1, <1>3, <1>4, HandOutType
<1>6. Once!Ensure  BY <1>3, <1>5 DEF Once!Ensure
<1> QED BY <1>3, <1>6 DEF OnceStep, Once!OnceNext

LEMMA ReadStep ==
  ASSUME SecretInv, NEW w \in SecretWorkers, ReadSecret(w)
  PROVE  SecretInv' /\ OnceStep
<1> DEFINE new == Mutated(secretCache)
<1>0. secretCache \in Secrets /\ Known(secretCache)
  BY DEF SecretInv, SecretTypeOK, AllKnown
<1>1. /\ new \in Secrets
      /\ \A k \in SecretKeys :
           /\ new.data[k] # NoValue
           /\ secretCache.data[k] # NoValue => new.data[k] = secretCache.data[k]
           /\ secretCache.data[k] = NoValue =>
                /\ new.data[k] \notin ever[k]
                /\ \A x \in SecretWorkers : worker[x].obj.data[k] # new.data[k]
  BY <1>0, MutatedFacts
<1> HIDE DEF new
<1>2. /\ \A x \in SecretWorkers :
           worker'[x] = IF x = w THEN [pc |-> "write", read |-> secretCache, obj |-> new] ELSE worker[x]
      /\ UNCHANGED <<secret, rev, secretCache, ever, handed, tampers>>
  BY DEF ReadSecret, SecretInv, SecretTypeOK, new
<1>3. SecretTypeOK'
  <2>1. worker' \in [SecretWorkers -> Calls]
    BY <1>0, <1>1 DEF ReadSecret, SecretInv, SecretTypeOK, Calls, new
  <2> QED BY <1>2, <2>1 DEF SecretInv, SecretTypeOK
<1>4. AllKnown'
  <2>1. ASSUME NEW x \in SecretWorkers PROVE Known(worker[x].read)'
    BY <1>0, <1>2 DEF SecretInv, AllKnown, Known
  <2> QED BY <1>2, <2>1 DEF SecretInv, AllKnown, Known
<1>5. AllPrepared'
  <2> SUFFICES ASSUME NEW x \in SecretWorkers, worker'[x].pc # "idle", NEW k \in SecretKeys
               PROVE  /\ worker'[x].obj.data[k] # NoValue
                      /\ worker'[x].read.data[k] # NoValue =>
                           worker'[x].obj.data[k] = worker'[x].read.data[k]
                      /\ worker'[x].read.data[k] = NoValue =>
                           /\ worker'[x].obj.data[k] \notin ever'[k]
                           /\ \A y \in SecretWorkers \ {x} :
                                worker'[y].obj.data[k] # worker'[x].obj.data[k]
    BY DEF AllPrepared, Prepared
  <2>1. CASE x = w
    <3>1. \A y \in SecretWorkers \ {x} : worker'[y] = worker[y]  BY <1>2, <2>1
    <3> QED BY <1>1, <1>2, <2>1, <3>1
  <2>2. CASE x # w
    <3>1. worker'[x] = worker[x] /\ Prepared(x)
      BY <1>2, <2>2 DEF SecretInv, AllPrepared
    <3>2. secretCache.data[k] # NoValue => secretCache.data[k] \in ever[k]
      BY <1>0 DEF Known
    <3>3. ASSUME worker[x].read.data[k] = NoValue, NEW y \in SecretWorkers \ {x}
          PROVE  worker'[y].obj.data[k] # worker'[x].obj.data[k]
      <4>1. CASE y = w
        BY <4>1, <3>1, <3>2, <3>3, <1>1, <1>2 DEF Prepared
      <4>2. CASE y # w
        BY <4>2, <3>1, <3>3, <1>2 DEF Prepared
      <4> QED BY <4>1, <4>2
    <3> QED BY <3>1, <3>3, <1>2 DEF Prepared
  <2> QED BY <2>1, <2>2
<1>6. Counted'  BY <1>2 DEF SecretInv, Counted
<1>7. OnceStep  BY <1>2, Stutters
<1> QED BY <1>3, <1>4, <1>5, <1>6, <1>7 DEF SecretInv

LEMMA CreateStep ==
  ASSUME SecretInv, NEW w \in SecretWorkers, CreateSecret(w)
  PROVE  SecretInv' /\ OnceStep
<1>0. tampers' = tampers /\ tampers \in 0 .. MaxTampers /\ secretCache' = secretCache
  BY DEF CreateSecret, SecretInv, SecretTypeOK
<1>1. CASE Exists(secret)
  <2>1. /\ worker' = [worker EXCEPT ![w].pc = "reread"]
        /\ UNCHANGED <<secret, rev, secretCache, ever, handed, tampers>>
    BY <1>1 DEF CreateSecret
  <2>2. worker' \in [SecretWorkers -> Calls]
    BY <2>1 DEF SecretInv, SecretTypeOK, Calls
  <2>3. \A x \in SecretWorkers :
          /\ worker'[x].read = worker[x].read /\ worker'[x].obj = worker[x].obj
          /\ worker'[x].pc # "idle" => worker[x].pc # "idle"
    BY <2>1 DEF SecretInv, SecretTypeOK, Calls, CreateSecret
  <2>4. SecretTypeOK' /\ Counted'
    BY <2>1, <2>2 DEF SecretInv, SecretTypeOK, Counted
  <2>5. AllKnown'  BY <2>1, <2>3 DEF SecretInv, AllKnown, Known
  <2>6. AllPrepared'  BY <2>1, <2>3 DEF SecretInv, AllPrepared, Prepared
  <2> QED BY <2>1, <2>4, <2>5, <2>6, Stutters DEF SecretInv
<1>2. CASE ~Exists(secret)
  <2>1. worker[w].read = NoSecret /\ secret = NoSecret
    BY <1>2 DEF CreateSecret, SecretInv, AllKnown, Known
  <2>2. worker[w].pc # "idle" /\ Store(worker[w].obj) /\ HandOut(worker[w].obj) /\ Idle(w)
    BY <1>2 DEF CreateSecret
  <2> QED BY <1>0, <2>1, <2>2, StoreImplements
<1> QED BY <1>1, <1>2

LEMMA UpdateStep ==
  ASSUME SecretInv, NEW w \in SecretWorkers, UpdateSecret(w)
  PROVE  SecretInv' /\ OnceStep
<1>0. /\ tampers' = tampers /\ tampers \in 0 .. MaxTampers /\ secretCache' = secretCache
      /\ worker[w].pc # "idle" /\ Idle(w)
      /\ worker[w].obj \in Secrets /\ handed \in [SecretKeys -> SUBSET Nat]
  BY DEF UpdateSecret, SecretInv, SecretTypeOK, Calls
<1>1. CASE worker[w].obj = worker[w].read /\ HandOut(worker[w].obj) /\ UNCHANGED <<secret, rev, ever>>
  <2>1. Known(worker[w].obj)  BY <1>1 DEF SecretInv, AllKnown
  <2>2. handed' \in [SecretKeys -> SUBSET Nat]  BY <1>0, <1>1, HandOutType
  <2> QED BY <1>0, <1>1, <2>1, <2>2, IdleKeepsInv, HandsOutKnown
<1>2. CASE worker[w].read = secret /\ Store(worker[w].obj) /\ HandOut(worker[w].obj)
  BY <1>0, <1>2, StoreImplements
<1>3. CASE UNCHANGED <<secret, rev, ever, handed>>
  BY <1>0, <1>3, IdleKeepsInv, Stutters
<1> QED BY <1>1, <1>2, <1>3 DEF UpdateSecret

LEMMA ReReadStep ==
  ASSUME SecretInv, NEW w \in SecretWorkers, ReReadSecret(w)
  PROVE  SecretInv' /\ OnceStep
<1>0. /\ tampers' = tampers /\ tampers \in 0 .. MaxTampers
      /\ UNCHANGED <<secret, rev, secretCache, ever>> /\ Idle(w)
      /\ secretCache \in Secrets /\ Known(secretCache) /\ handed \in [SecretKeys -> SUBSET Nat]
  BY DEF ReReadSecret, SecretInv, SecretTypeOK, AllKnown
<1>1. CASE HandOut(secretCache)
  <2>1. handed' \in [SecretKeys -> SUBSET Nat]  BY <1>0, <1>1, HandOutType
  <2> QED BY <1>0, <1>1, <2>1, IdleKeepsInv, HandsOutKnown
<1>2. CASE handed' = handed
  BY <1>0, <1>2, IdleKeepsInv, Stutters
<1> QED BY <1>1, <1>2 DEF ReReadSecret

LEMMA FailStep ==
  ASSUME SecretInv, NEW w \in SecretWorkers, FailCall(w)
  PROVE  SecretInv' /\ OnceStep
<1>0. /\ tampers' \in {tampers, tampers + 1} \cap 0 .. MaxTampers
      /\ UNCHANGED <<secretCache, handed>> /\ Idle(w) /\ worker[w].pc # "idle"
      /\ handed \in [SecretKeys -> SUBSET Nat]
  BY SecretAssumption DEF FailCall, SecretInv, SecretTypeOK
<1>1. CASE UNCHANGED <<secret, rev, ever>>
  BY <1>0, <1>1, IdleKeepsInv, Stutters
<1>2. CASE worker[w].read = secret /\ Store(worker[w].obj)
  BY <1>0, <1>2, StoreImplements
<1> QED BY <1>1, <1>2 DEF FailCall

LEMMA SyncStep ==
  ASSUME SecretInv, SyncSecret
  PROVE  SecretInv' /\ OnceStep
<1>1. /\ secretCache' = secret
      /\ UNCHANGED <<secret, rev, worker, ever, handed, tampers>>
  BY DEF SyncSecret
<1>2. SecretTypeOK' /\ Counted' /\ AllPrepared'
  BY <1>1 DEF SecretInv, SecretTypeOK, Counted, AllPrepared, Prepared
<1>3. AllKnown'  BY <1>1 DEF SecretInv, AllKnown, Known
<1> QED BY <1>1, <1>2, <1>3, Stutters DEF SecretInv

\* A Secret with a new version and other labels.
LEMMA Relabelled ==
  ASSUME NEW s \in Secrets, NEW r \in Nat \ {0}, NEW l \in {"foreign", "canonical"},
         NEW t, t = [s EXCEPT !.rv = r, !.labels = l]
  PROVE  t \in Secrets /\ t.rv # 0 /\ t.data = s.data
BY DEF Secrets

LEMMA TamperStep ==
  ASSUME SecretInv, TamperSecret
  PROVE  SecretInv' /\ OnceStep
<1>0. /\ tampers' = tampers + 1 /\ tampers' \in 0 .. MaxTampers /\ tampers \in Nat
      /\ UNCHANGED <<secretCache, worker, ever, handed>>
  <2>1. tampers \in 0 .. MaxTampers /\ MaxTampers \in Nat
    BY SecretAssumption DEF SecretInv, SecretTypeOK
  <2>2. tampers < MaxTampers /\ tampers' = tampers + 1 /\ UNCHANGED <<secretCache, worker, ever, handed>>
    BY DEF TamperSecret
  <2> QED BY <2>1, <2>2
<1>s. /\ secret \in Secrets /\ rev \in Nat /\ Known(secret)
      /\ \A k \in SecretKeys : ever[k] \in SUBSET Nat
  BY DEF SecretInv, SecretTypeOK, AllKnown
<1>r. secret \in Secrets /\ rev \in Nat  BY <1>s
<1> DEFINE Tampered ==
      /\ secret' \in Secrets /\ rev' \in Nat
      /\ ~Exists(secret') => secret' = NoSecret
      /\ \A k \in SecretKeys :
           secret'.data[k] \in {secret.data[k], NoValue} \cup (IF secret.data[k] = NoValue THEN ever[k] ELSE {})
<1>1. Tampered
  <2>1. CASE secret' = NoSecret /\ UNCHANGED rev
    BY <2>1, <1>s, NoSecretFacts
  <2>2. ASSUME NEW k \in SecretKeys \ Missing(secret), rev' = rev + 1,
               secret' = [secret EXCEPT !.rv = rev + 1, !.data[k] = NoValue]
        PROVE  Tampered
    <3>0. secret.data \in [SecretKeys -> Nat]  BY <1>r DEF Secrets
    <3>d. PICK d \in [SecretKeys -> Nat] : d = [secret.data EXCEPT ![k] = NoValue]
      BY <3>0 DEF NoValue
    <3>1. PICK r \in Nat \ {0} : r = rev + 1  BY <1>r
    <3>2. secret' = [secret EXCEPT !.rv = r, !.data = d]  BY <2>2, <3>1, <3>d, Zenon
    <3>3. secret' \in Secrets /\ Exists(secret') /\ secret'.data = d
      <4> DEFINE t == secret'
      <4>1. t = [secret EXCEPT !.rv = r, !.data = d] /\ secret \in Secrets  BY <3>2, <1>r
      <4> HIDE DEF t
      <4>2. t \in Secrets /\ t.rv # 0 /\ t.data = d  BY <4>1 DEF Secrets
      <4> QED BY <4>2 DEF t, Exists
    <3>4. \A j \in SecretKeys : secret'.data[j] = IF j = k THEN NoValue ELSE secret.data[j]
      BY <3>d, <3>3, <3>0
    <3> QED BY <2>2, <1>r, <3>3, <3>4
  <2>3. CASE rev' = rev + 1 /\ secret' = [secret EXCEPT !.rv = rev + 1, !.labels = "foreign"]
    <3>1. PICK r \in Nat \ {0} : r = rev + 1  BY <1>r
    <3>2. secret' = [secret EXCEPT !.rv = r, !.labels = "foreign"]  BY <2>3, <3>1
    <3>3. secret' \in Secrets /\ Exists(secret') /\ secret'.data = secret.data
      BY <3>2, <1>r, Relabelled DEF Exists
    <3> QED BY <2>3, <3>1, <3>3
  <2>4. ASSUME ~Exists(secret), rev' = rev + 1,
               NEW data \in [SecretKeys -> {NoValue} \cup UNION {ever[k] : k \in SecretKeys}],
               NEW owner \in {"none", "other"},
               \A k \in SecretKeys : data[k] \in ever[k] \cup {NoValue},
               secret' = [rv |-> rev + 1, data |-> data, owner |-> owner,
                          labels |-> "foreign", type |-> "other"]
        PROVE  Tampered
    <3>1. data \in [SecretKeys -> Nat]  BY <2>4, <1>s DEF NoValue
    <3>2. secret = NoSecret  BY <2>4, <1>s DEF Known
    <3> QED BY <2>4, <3>1, <3>2, <1>s, NoSecretFacts DEF Secrets, Exists
  <2> HIDE DEF Tampered
  <2> QED BY <2>1, <2>2, <2>3, <2>4 DEF TamperSecret
<1>2. SecretTypeOK'  BY <1>0, <1>1 DEF SecretInv, SecretTypeOK
<1>3. AllKnown'
  <2>1. Known(secret)'  BY <1>0, <1>1, <1>s DEF Known
  <2> QED BY <1>0, <2>1 DEF SecretInv, AllKnown, Known
<1>4. AllPrepared'  BY <1>0 DEF SecretInv, AllPrepared, Prepared
<1>5. Counted'
  <2>1. \A k \in SecretKeys : IsFiniteSet(ever[k]) /\ Cardinality(ever[k]) \in Nat
    BY FS_CardinalityType DEF SecretInv, Counted
  <2> QED BY <1>0, <2>1 DEF SecretInv, Counted
<1>6. OnceStep
  <2>1. Once!Tamper  BY <1>0, <1>1 DEF Once!Tamper
  <2> QED BY <2>1 DEF OnceStep, Once!OnceNext
<1> QED BY <1>2, <1>3, <1>4, <1>5, <1>6 DEF SecretInv

-----------------------------------------------------------------------------
(* The refinement.                                                          *)

LEMMA SecretInitInv == SecretInit => SecretInv /\ Once!OnceInit
<1> SUFFICES ASSUME SecretInit PROVE SecretInv /\ Once!OnceInit  OBVIOUS
<1>1. SecretTypeOK
  BY SecretAssumption, NoSecretFacts DEF SecretInit, SecretTypeOK, Calls
<1>2. AllKnown /\ AllPrepared
  BY NoSecretFacts DEF SecretInit, AllKnown, AllPrepared
<1>3. Counted
  BY SecretAssumption, FS_EmptySet, NoSecretFacts DEF SecretInit, Counted
<1>4. Once!OnceInit  BY DEF SecretInit, Once!OnceInit, NoSecret
<1> QED BY <1>1, <1>2, <1>3, <1>4 DEF SecretInv

LEMMA SecretStep == SecretInv /\ [SecretNext]_secretVars => SecretInv' /\ OnceStep
<1> SUFFICES ASSUME SecretInv, [SecretNext]_secretVars PROVE SecretInv' /\ OnceStep  OBVIOUS
<1>1. CASE UNCHANGED secretVars
  BY <1>1, Stutters DEF secretVars, SecretInv, SecretTypeOK, AllKnown, Known, AllPrepared,
                        Prepared, Counted
<1>2. ASSUME NEW w \in SecretWorkers, RejectSecret(w) PROVE SecretInv' /\ OnceStep
  BY <1>1, <1>2 DEF RejectSecret
<1> QED
  BY <1>1, <1>2, ReadStep, CreateStep, UpdateStep, ReReadStep, FailStep, SyncStep, TamperStep
  DEF SecretNext

\* The invariant the refinement rests on: whatever anybody holds of the Secret
\* was stored once, and what a worker has generated nobody else has.
THEOREM SecretInvariant == SecretSpec => []SecretInv
BY SecretInitInv, SecretStep, PTL DEF SecretSpec

\* EnsureGeneratedSecret implements a write-once store: with any number of
\* workers, stale caches, lost answers, concurrent creates and a user who deletes
\* and restores, a stored value is never replaced and none is handed out that was
\* not stored.
THEOREM SecretImplementsOnce == SecretSpec => ValuesWrittenOnce
<1>1. SecretInit => Once!OnceInit  BY SecretInitInv
<1>2. SecretInv /\ [SecretNext]_secretVars => [Once!OnceNext]_(Once!onceVars)
  BY SecretStep DEF OnceStep
<1> QED BY <1>1, <1>2, SecretInvariant, PTL DEF SecretSpec, ValuesWrittenOnce, Once!OnceSpec

-----------------------------------------------------------------------------
(* WorkloadRBAC.                                                            *)

Verbs == UNION (RuleSets \cup {NoHook})

RBACRecords ==
  [rv : Nat, owner : {"none", "cr", "other"}, rules : SUBSET Verbs,
   ref : {"none", "role", "elsewhere"}, subject : {"none", "sa"}]

RBACStages == {"idle", "check", "role", "binding", "unbind", "unrole"}

\* Every variable has its type.
RBACTypeOK ==
  /\ rbac \in [RBACObjects -> RBACRecords] /\ rbacCache \in [RBACObjects -> RBACRecords]
  /\ rbacRev \in Nat /\ declared \in RuleSets \cup {NoHook}
  /\ powers \in SUBSET {"escalate", "bind"} /\ rbacPc \in RBACStages

\* A resourceVersion is given out once: what has the version of the stored
\* object is the stored object, and none is newer than the last one given out.
Versioned ==
  \A o \in RBACObjects :
    /\ rbac[o].rv <= rbacRev /\ rbacCache[o].rv <= rbacRev
    /\ rbac[o].rv = 0 => rbac[o] = NoObject
    /\ rbacCache[o].rv = 0 => rbacCache[o] = NoObject
    /\ rbacCache[o].rv = rbac[o].rv => rbacCache[o] = rbac[o]

RBACInv == RBACTypeOK /\ Versioned

-----------------------------------------------------------------------------
(* The objects that are written.                                            *)

\* What a pass wants is an object, with a version it has read.
LEMMA WantedType ==
  ASSUME RBACTypeOK, NEW o \in RBACObjects
  PROVE  /\ WantedObject(o) \in RBACRecords
         /\ WantedObject(o).rv = rbacCache[o].rv
<1>1. rbacCache[o] \in RBACRecords  BY DEF RBACTypeOK
<1>0. declared \in SUBSET Verbs  BY DEF RBACTypeOK, Verbs
<1> USE <1>0 DEF RBACRecords, RBACObjects
<1>2. CASE o = "sa"       BY <1>1, <1>2 DEF WantedObject
<1>3. CASE o = "role"     BY <1>1, <1>3 DEF WantedObject
<1>4. CASE o = "binding"  BY <1>1, <1>4 DEF WantedObject
<1> QED BY <1>2, <1>3, <1>4

LEMMA NoObjectType == NoObject \in RBACRecords /\ NoObject.rv = 0
BY DEF NoObject, RBACRecords

\* A newly stored object, or none, in the place of o keeps the versions apart.
LEMMA StoredKeepsInv ==
  ASSUME RBACInv, NEW o \in RBACObjects, NEW obj \in RBACRecords,
         \/ obj.rv = rbacRev + 1 /\ rbacRev' = rbacRev + 1
         \/ obj = NoObject /\ rbacRev' = rbacRev,
         rbac' = [rbac EXCEPT ![o] = obj], rbacCache' = rbacCache
  PROVE  Versioned' /\ rbac' \in [RBACObjects -> RBACRecords] /\ rbacRev' \in Nat
<1>1. rbac' \in [RBACObjects -> RBACRecords]  BY DEF RBACInv, RBACTypeOK
<1>2. rbacRev' \in Nat /\ rbacRev <= rbacRev'  BY DEF RBACInv, RBACTypeOK
<1>3. ASSUME NEW p \in RBACObjects
      PROVE  /\ rbac'[p].rv <= rbacRev' /\ rbacCache'[p].rv <= rbacRev'
             /\ rbac'[p].rv = 0 => rbac'[p] = NoObject
             /\ rbacCache'[p].rv = 0 => rbacCache'[p] = NoObject
             /\ rbacCache'[p].rv = rbac'[p].rv => rbacCache'[p] = rbac'[p]
  <2>1. /\ rbacCache'[p] = rbacCache[p] /\ rbacCache[p].rv \in Nat /\ rbac[p].rv \in Nat
        /\ rbac'[p] = IF p = o THEN obj ELSE rbac[p]
    BY DEF RBACInv, RBACTypeOK, RBACRecords
  <2>2. /\ rbac[p].rv <= rbacRev /\ rbacCache[p].rv <= rbacRev
        /\ rbac[p].rv = 0 => rbac[p] = NoObject
        /\ rbacCache[p].rv = 0 => rbacCache[p] = NoObject
        /\ rbacCache[p].rv = rbac[p].rv => rbacCache[p] = rbac[p]
    BY DEF RBACInv, Versioned
  <2>3. rbacRev \in Nat  BY DEF RBACInv, RBACTypeOK
  <2> QED BY <1>2, <2>1, <2>2, <2>3, NoObjectType
<1> QED BY <1>1, <1>2, <1>3 DEF Versioned

-----------------------------------------------------------------------------
(* Every step keeps the types and the versions.                             *)

LEMMA EnsureKeepsInv ==
  ASSUME RBACInv, NEW o \in RBACObjects, NEW at, NEW next \in RBACStages,
         EnsureObject(o, at, next)
  PROVE  RBACInv'
<1>1. rbacPc' \in RBACStages  BY DEF EnsureObject, RBACStages
<1>2. /\ rbacCache' = rbacCache /\ declared' = declared /\ powers' = powers
      /\ rbacCache \in [RBACObjects -> RBACRecords] /\ declared \in RuleSets \cup {NoHook}
      /\ powers \in SUBSET {"escalate", "bind"}
  BY DEF EnsureObject, RBACInv, RBACTypeOK
<1>3. Versioned' /\ rbac' \in [RBACObjects -> RBACRecords] /\ rbacRev' \in Nat
  <2>1. CASE UNCHANGED <<rbac, rbacRev>>
    BY <2>1, <1>2 DEF RBACInv, RBACTypeOK, Versioned
  <2>2. CASE ~UNCHANGED <<rbac, rbacRev>>
    <3> DEFINE obj == [WantedObject(o) EXCEPT !.rv = rbacRev + 1]
    <3>1. rbacRev' = rbacRev + 1 /\ rbac' = [rbac EXCEPT ![o] = obj]
      BY <2>2 DEF EnsureObject, Ensured
    <3>2. obj \in RBACRecords /\ obj.rv = rbacRev + 1
      BY WantedType DEF RBACInv, RBACTypeOK, RBACRecords
    <3> HIDE DEF obj
    <3> QED BY <3>1, <3>2, <1>2, StoredKeepsInv
  <2> QED BY <2>1, <2>2
<1> QED BY <1>1, <1>2, <1>3 DEF RBACInv, RBACTypeOK

LEMMA RevokeKeepsInv ==
  ASSUME RBACInv, NEW o \in RBACObjects, NEW at, NEW next \in RBACStages,
         deleteWorkloadRBACIfOwned(o, at, next)
  PROVE  RBACInv'
<1>1. /\ rbacPc' \in RBACStages /\ rbacCache' = rbacCache /\ declared' = declared
      /\ powers' = powers /\ rbacRev' = rbacRev
  BY DEF deleteWorkloadRBACIfOwned
<1>2. Versioned' /\ rbac' \in [RBACObjects -> RBACRecords]
  <2>1. CASE rbac' = rbac
    BY <2>1, <1>1 DEF RBACInv, RBACTypeOK, Versioned
  <2>2. CASE rbac' = [rbac EXCEPT ![o] = NoObject]
    BY <2>2, <1>1, NoObjectType, StoredKeepsInv
  <2> QED BY <2>1, <2>2 DEF deleteWorkloadRBACIfOwned
<1> QED BY <1>1, <1>2 DEF RBACInv, RBACTypeOK

LEMMA IntrudeKeepsInv ==
  ASSUME RBACInv, RBACIntrude
  PROVE  RBACInv'
<1>1. rbacCache' = rbacCache /\ declared' = declared /\ powers' = powers /\ rbacPc' = rbacPc
  BY DEF RBACIntrude
<1>2. Versioned' /\ rbac' \in [RBACObjects -> RBACRecords] /\ rbacRev' \in Nat
  <2>1. PICK o \in RBACObjects :
          \/ Found(rbac[o]) /\ rbac' = [rbac EXCEPT ![o] = NoObject] /\ UNCHANGED rbacRev
          \/ /\ ~Found(rbac[o])
             /\ rbacRev' = rbacRev + 1
             /\ \E owner \in {"none", "other"}, ref \in {"role", "elsewhere"} :
                  rbac' = [rbac EXCEPT ![o] =
                             [rv |-> rbacRev + 1, owner |-> owner,
                              rules |-> {}, ref |-> IF o = "binding" THEN ref ELSE "none",
                              subject |-> "none"]]
    BY DEF RBACIntrude
  <2>2. CASE rbac' = [rbac EXCEPT ![o] = NoObject] /\ UNCHANGED rbacRev
    BY <2>2, <1>1, NoObjectType, StoredKeepsInv
  <2>3. ASSUME rbacRev' = rbacRev + 1,
               NEW owner \in {"none", "other"}, NEW ref \in {"role", "elsewhere"},
               rbac' = [rbac EXCEPT ![o] =
                          [rv |-> rbacRev + 1, owner |-> owner,
                           rules |-> {}, ref |-> IF o = "binding" THEN ref ELSE "none",
                           subject |-> "none"]]
        PROVE  Versioned' /\ rbac' \in [RBACObjects -> RBACRecords] /\ rbacRev' \in Nat
    <3> DEFINE obj == [rv |-> rbacRev + 1, owner |-> owner,
                       rules |-> {}, ref |-> IF o = "binding" THEN ref ELSE "none",
                       subject |-> "none"]
    <3>1. obj \in RBACRecords /\ obj.rv = rbacRev + 1
      BY DEF RBACInv, RBACTypeOK, RBACRecords
    <3>2. rbac' = [rbac EXCEPT ![o] = obj]  BY <2>3
    <3> HIDE DEF obj
    <3> QED BY <2>3, <3>1, <3>2, <1>1, StoredKeepsInv
  <2> QED BY <2>1, <2>2, <2>3
<1> QED BY <1>1, <1>2 DEF RBACInv, RBACTypeOK

LEMMA SyncKeepsInv ==
  ASSUME RBACInv, NEW o \in RBACObjects, SyncRBAC(o)
  PROVE  RBACInv'
<1>1. /\ rbac' = rbac /\ rbacRev' = rbacRev /\ declared' = declared /\ powers' = powers
      /\ rbacPc' = rbacPc /\ rbacCache' = [rbacCache EXCEPT ![o] = rbac[o]]
  BY DEF SyncRBAC
<1>2. RBACTypeOK'  BY <1>1 DEF RBACInv, RBACTypeOK
<1>3. Versioned'
  <2>1. \A p \in RBACObjects : rbacCache'[p] = IF p = o THEN rbac[o] ELSE rbacCache[p]
    BY <1>1 DEF RBACInv, RBACTypeOK
  <2> QED BY <1>1, <2>1 DEF RBACInv, Versioned
<1> QED BY <1>2, <1>3 DEF RBACInv

LEMMA StepKeepsInv == RBACInv /\ [RBACNext]_rbacVars => RBACInv'
<1> SUFFICES ASSUME RBACInv, [RBACNext]_rbacVars PROVE RBACInv'  OBVIOUS
<1> USE DEF RBACObjects, RBACStages
<1>1. CASE ensureServiceAccount
  BY <1>1, EnsureKeepsInv DEF ensureServiceAccount, RBACStart
<1>2. CASE checkWorkloadRoleRef
  BY <1>2 DEF checkWorkloadRoleRef, RBACInv, RBACTypeOK, Versioned
<1>3. CASE EnsureRole     BY <1>3, EnsureKeepsInv DEF EnsureRole
<1>4. CASE EnsureBinding  BY <1>4, EnsureKeepsInv DEF EnsureBinding
<1>5. CASE RevokeBinding  BY <1>5, RevokeKeepsInv DEF RevokeBinding
<1>6. CASE RevokeRole     BY <1>6, RevokeKeepsInv DEF RevokeRole
<1>7. CASE \E o \in RBACObjects : SyncRBAC(o)  BY <1>7, SyncKeepsInv
<1>8. CASE Declare   BY <1>8 DEF Declare, RBACInv, RBACTypeOK, Versioned
<1>9. CASE Empower   BY <1>9 DEF Empower, RBACInv, RBACTypeOK, Versioned
<1>10. CASE RBACFail BY <1>10 DEF RBACFail, RBACInv, RBACTypeOK, Versioned
<1>11. CASE RBACIntrude  BY <1>11, IntrudeKeepsInv
<1>12. CASE UNCHANGED rbacVars
  BY <1>12 DEF rbacVars, RBACInv, RBACTypeOK, Versioned
<1> QED BY <1>1, <1>2, <1>3, <1>4, <1>5, <1>6, <1>7, <1>8, <1>9, <1>10, <1>11, <1>12 DEF RBACNext

LEMMA InitInv == RBACInit => RBACInv
BY DEF RBACInit, RBACInv, RBACTypeOK, Versioned, NoObject, RBACRecords, RBACObjects, RBACStages

\* Every variable keeps its type and resourceVersions stay unique, for any rules
\* and any number of events (the optimistic locking CreateOrUpdate relies on).
THEOREM VersionsUnique == RBACSpec => []RBACInv
BY InitInv, StepKeepsInv, PTL DEF RBACSpec

-----------------------------------------------------------------------------
(* NoForeignGrant: the mutate function looks at the roleRef it writes over. *)

\* A pre-existing RoleBinding is never re-pointed and never given the pods'
\* ServiceAccount (EnsureWorkloadRBAC, checkWorkloadRoleRef).
THEOREM GrantSafe == RBACSpec => []NoForeignGrant
<1>1. RBACInit => NoForeignGrant
  BY DEF RBACInit, NoForeignGrant, NoObject, RBACObjects
<1>2. RBACInv /\ NoForeignGrant /\ [RBACNext]_rbacVars => NoForeignGrant'
  <2> SUFFICES ASSUME RBACInv, NoForeignGrant, [RBACNext]_rbacVars
               PROVE  NoForeignGrant'
    OBVIOUS
  <2>0. "binding" \in RBACObjects /\ rbac \in [RBACObjects -> RBACRecords]
    BY DEF RBACInv, RBACTypeOK, RBACObjects
  <2>1. ASSUME NEW o \in RBACObjects, NEW at, NEW next, EnsureObject(o, at, next)
        PROVE  NoForeignGrant'
    <3>1. CASE rbac' = rbac  BY <3>1 DEF NoForeignGrant
    <3>2. CASE rbac' # rbac
      <4>1. /\ Writable(o)
            /\ rbac' = [rbac EXCEPT ![o] = [WantedObject(o) EXCEPT !.rv = rbacRev + 1]]
        BY <2>1, <3>2 DEF EnsureObject, Ensured
      <4>2. CASE o # "binding"  BY <4>1, <4>2, <2>0 DEF NoForeignGrant
      <4>3. CASE o = "binding"
        <5>1. rbac'["binding"] = [WantedObject("binding") EXCEPT !.rv = rbacRev + 1]
          BY <4>1, <4>3, <2>0
        <5>2. rbacCache["binding"] \in RBACRecords /\ rbacCache["binding"].ref \in {"none", "role"}
          BY <4>1, <4>3, <2>0 DEF Writable, RefAgrees, RBACInv, RBACTypeOK
        <5>3. WantedObject("binding").ref = "role"
          BY <5>2 DEF WantedObject, RBACRecords
        <5>4. WantedObject("binding") \in RBACRecords
          BY <2>0, WantedType DEF RBACInv
        <5> QED BY <5>1, <5>3, <5>4 DEF NoForeignGrant, RBACRecords
      <4> QED BY <4>2, <4>3
    <3> QED BY <3>1, <3>2
  <2>2. ASSUME NEW o \in RBACObjects, NEW at, NEW next, deleteWorkloadRBACIfOwned(o, at, next)
        PROVE  NoForeignGrant'
    BY <2>2, <2>0 DEF deleteWorkloadRBACIfOwned, NoForeignGrant, NoObject
  <2>3. CASE RBACIntrude
    BY <2>3, <2>0 DEF RBACIntrude, NoForeignGrant, NoObject
  <2>4. CASE rbac' = rbac  BY <2>4 DEF NoForeignGrant
  <2> USE DEF RBACObjects
  <2>5. CASE ensureServiceAccount  BY <2>5, <2>1 DEF ensureServiceAccount
  <2>6. CASE EnsureRole            BY <2>6, <2>1 DEF EnsureRole
  <2>7. CASE EnsureBinding         BY <2>7, <2>1 DEF EnsureBinding
  <2>8. CASE RevokeBinding         BY <2>8, <2>2 DEF RevokeBinding
  <2>9. CASE RevokeRole            BY <2>9, <2>2 DEF RevokeRole
  <2> QED
    BY <2>3, <2>4, <2>5, <2>6, <2>7, <2>8, <2>9
    DEF RBACNext, rbacVars, checkWorkloadRoleRef, SyncRBAC, Declare, Empower, RBACFail
<1> QED BY <1>1, <1>2, VersionsUnique, PTL DEF RBACSpec

-----------------------------------------------------------------------------
(* ForeignUntouched: the version that was read is that of the object.       *)

\* An object of another controller is rewritten by no pass, and deleted only by
\* one whose cache still shows the CR's own (controllerutil.SetControllerReference
\* and the resourceVersion of the Update, deleteWorkloadRBACIfOwned).
THEOREM ForeignSafe == RBACSpec => ForeignUntouched
<1> DEFINE Untouched ==
      \A o \in RBACObjects :
        RBACPass /\ Found(rbac[o]) /\ rbac[o].owner = "other" /\ rbac'[o] # rbac[o]
          => rbacCache[o].owner = "cr"
<1>1. RBACInv /\ [RBACNext]_rbacVars => [Untouched]_rbacVars
  <2> SUFFICES ASSUME RBACInv, NEW o \in RBACObjects, RBACPass,
                      rbac[o].owner = "other", rbac'[o] # rbac[o]
               PROVE  rbacCache[o].owner = "cr"
    OBVIOUS
  <2>1. rbac \in [RBACObjects -> RBACRecords]  BY DEF RBACInv, RBACTypeOK
  <2>2. ASSUME NEW p \in RBACObjects, NEW at, NEW next, EnsureObject(p, at, next)
        PROVE  FALSE
    <3>1. rbac' # rbac  OBVIOUS
    <3>2. /\ Writable(p)
          /\ rbac' = [rbac EXCEPT ![p] = [WantedObject(p) EXCEPT !.rv = rbacRev + 1]]
      BY <2>2, <3>1 DEF EnsureObject, Ensured
    <3>3. p = o  BY <3>2, <2>1
    <3>4. rbacCache[o].owner # "other" /\ rbacCache[o].rv = rbac[o].rv
      BY <3>2, <3>3 DEF Writable
    <3>5. rbacCache[o] = rbac[o]  BY <3>4 DEF RBACInv, Versioned
    <3> QED BY <3>4, <3>5
  <2>3. ASSUME NEW p \in RBACObjects, NEW at, NEW next, deleteWorkloadRBACIfOwned(p, at, next)
        PROVE  rbacCache[o].owner = "cr"
    BY <2>3, <2>1 DEF deleteWorkloadRBACIfOwned, Revocable
  <2> USE DEF RBACObjects
  <2>4. CASE ensureServiceAccount  BY <2>4, <2>2 DEF ensureServiceAccount
  <2>5. CASE EnsureRole            BY <2>5, <2>2 DEF EnsureRole
  <2>6. CASE EnsureBinding         BY <2>6, <2>2 DEF EnsureBinding
  <2>7. CASE RevokeBinding         BY <2>7, <2>3 DEF RevokeBinding
  <2>8. CASE RevokeRole            BY <2>8, <2>3 DEF RevokeRole
  <2>9. CASE checkWorkloadRoleRef  BY <2>9 DEF checkWorkloadRoleRef
  <2> QED BY <2>4, <2>5, <2>6, <2>7, <2>8, <2>9 DEF RBACPass
<1> QED BY <1>1, VersionsUnique, PTL DEF RBACSpec, ForeignUntouched

-----------------------------------------------------------------------------
(* DesiredState.                                                            *)

\* Two mounts of one path of one container are one.
PathsDistinct(mounts) ==
  \A m, n \in mounts : m.container = n.container /\ m.path = n.path => m = n

\* What is stored has the fields of its kind, whoever made it, and is consistent.
ObjectOK(k, o) ==
  /\ DOMAIN o = FieldsOf(k)
  /\ k = "sts" => IsClaims(o.claims) /\ PathsDistinct(o.mounts)
  /\ k = "svc" => IsPorts(o.ports) /\ PortsDistinct(o.ports)

LiveOK == live # Absent => ObjectOK(kind, live)

\* The object that is applied is one the handler builds for its kind.
ApplyInv ==
  /\ kind \in ApplyKinds \cup {"none"}
  /\ kind = "none" => live = Absent
  /\ kind # "none" => desired \in Shapes[kind]
  /\ LiveOK

-----------------------------------------------------------------------------
(* The operators.                                                           *)

LEMMA Fields ==
  /\ FieldsOf("sts") = {"owner", "labels", "annotations", "selector", "serviceName", "policy", "claims",
                        "containers", "volumes", "mounts", "templateLabels", "templateAnnotations"}
  /\ FieldsOf("svc") = {"owner", "labels", "annotations", "type", "clusterIP", "loadBalancerClass", "ports"}
  /\ FieldsOf("job") = {"owner", "labels", "annotations", "selector", "template", "completions", "parallelism"}
  /\ \A k \in ApplyKinds \ {"sts", "svc", "job"} : FieldsOf(k) = {"owner", "labels", "annotations", "fields"}
  /\ \A k \in ApplyKinds : {"owner", "labels", "annotations"} \subseteq FieldsOf(k)
<1>1. FieldsOf("sts") = {"owner", "labels", "annotations", "selector", "serviceName", "policy", "claims",
                         "containers", "volumes", "mounts", "templateLabels", "templateAnnotations"}
  BY DEF FieldsOf
<1>2. FieldsOf("svc") = {"owner", "labels", "annotations", "type", "clusterIP", "loadBalancerClass", "ports"}
  BY DEF FieldsOf
<1>3. FieldsOf("job") = {"owner", "labels", "annotations", "selector", "template", "completions", "parallelism"}
  BY DEF FieldsOf
<1>4. \A k \in ApplyKinds \ {"sts", "svc", "job"} : FieldsOf(k) = {"owner", "labels", "annotations", "fields"}
  BY DEF FieldsOf
<1>5. \A k \in ApplyKinds : {"owner", "labels", "annotations"} \subseteq FieldsOf(k)
  BY DEF FieldsOf
<1> QED BY <1>1, <1>2, <1>3, <1>4, <1>5

LEMMA StoredSts ==
  ASSUME NEW old, NEW new, DOMAIN new = FieldsOf("sts"), IsClaims(new.claims)
  PROVE  LET o == Stored("sts", old, new)
         IN /\ DOMAIN o = FieldsOf("sts") /\ IsClaims(o.claims)
            /\ o.mounts = new.mounts /\ o.annotations = new.annotations
<1> DEFINE cs == [i \in DOMAIN new.claims |-> ClaimFilled(new.claims[i])]
           p == IF new.policy = "" THEN "ordered" ELSE new.policy
<1>1. Stored("sts", old, new) = [new EXCEPT !.claims = cs, !.policy = p]
  BY DEF Stored
<1>2. ASSUME NEW i \in DOMAIN new.claims
      PROVE  LET c == ClaimFilled(new.claims[i])
             IN  c = [f \in {"name", "size", "mode", "phase"} |-> c[f]]
  BY <1>2 DEF ClaimFilled, IsClaims, IsList
<1>3. IsClaims(cs)
  <2>1. DOMAIN cs = 1 .. Len(new.claims) /\ Len(new.claims) \in Nat
    BY DEF IsClaims, IsList
  <2>2. cs \in Seq(SeqElems(cs))  BY <2>1 DEF SeqElems
  <2> QED BY <1>2, <2>2 DEF IsClaims, IsList
<1> HIDE DEF cs, p
<1> QED BY <1>1, <1>3, Fields

LEMMA StoredSvc ==
  ASSUME NEW old, NEW new, DOMAIN new = FieldsOf("svc"),
         IsPorts(new.ports)
  PROVE  LET o == Stored("svc", old, new)
         IN /\ DOMAIN o = FieldsOf("svc") /\ o.annotations = new.annotations /\ o.type = new.type
            /\ IsPorts(o.ports) /\ DOMAIN o.ports = DOMAIN new.ports
            /\ \A i \in DOMAIN new.ports :
                 /\ o.ports[i].name = new.ports[i].name /\ o.ports[i].port = new.ports[i].port
                 /\ NodePorted(new) /\ new.ports[i].nodePort # 0
                    => o.ports[i].nodePort = new.ports[i].nodePort
<1> DEFINE ps == IF NodePorted(new) THEN Allocated(old, new)
                 ELSE [i \in DOMAIN new.ports |-> [new.ports[i] EXCEPT !.nodePort = 0]]
           ip == IF new.clusterIP = "" THEN "allocated" ELSE new.clusterIP
           lb == IF new.type = "LoadBalancer" THEN new.loadBalancerClass ELSE ""
<1>1. Stored("svc", old, new) = [new EXCEPT !.clusterIP = ip, !.loadBalancerClass = lb, !.ports = ps]
  BY DEF Stored
<1>2. DOMAIN ps = DOMAIN new.ports  BY DEF Allocated
<1>3. ASSUME NEW i \in DOMAIN new.ports
      PROVE  /\ ps[i] = new.ports[i] \/ \E n : ps[i] = [new.ports[i] EXCEPT !.nodePort = n]
             /\ NodePorted(new) /\ new.ports[i].nodePort # 0 => ps[i] = new.ports[i]
  BY <1>3 DEF Allocated
<1> HIDE DEF ps, ip, lb
<1>4. ASSUME NEW i \in DOMAIN new.ports
      PROVE  /\ ps[i] = [f \in {"name", "port", "nodePort"} |-> ps[i][f]]
             /\ ps[i].name = new.ports[i].name /\ ps[i].port = new.ports[i].port
             /\ NodePorted(new) /\ new.ports[i].nodePort # 0 => ps[i].nodePort = new.ports[i].nodePort
  <2> DEFINE p == new.ports[i]
  <2>1. DOMAIN p = {"name", "port", "nodePort"} /\ p = [f \in {"name", "port", "nodePort"} |-> p[f]]
    BY DEF IsPorts, IsList
  <2> HIDE DEF p
  <2>2. CASE ps[i] = new.ports[i]
    BY <2>1, <2>2 DEF p
  <2>3. ASSUME NEW n, ps[i] = [p EXCEPT !.nodePort = n]
        PROVE  /\ ps[i] = [f \in {"name", "port", "nodePort"} |-> ps[i][f]]
               /\ ps[i].name = p.name /\ ps[i].port = p.port
    BY <2>1, <2>3
  <2> QED BY <1>3, <2>2, <2>3 DEF p
<1>7. IsPorts(ps)
  <2>1. DOMAIN ps = 1 .. Len(new.ports) /\ Len(new.ports) \in Nat
    BY <1>2 DEF IsPorts, IsList
  <2>2. ps = [i \in DOMAIN ps |-> ps[i]]
    <3>1. CASE NodePorted(new)
      <4>1. ps = Allocated(old, new)  BY <3>1 DEF ps
      <4>2. Allocated(old, new) = [i \in DOMAIN Allocated(old, new) |-> Allocated(old, new)[i]]
        BY DEF Allocated
      <4> QED BY <4>1, <4>2
    <3>2. CASE ~NodePorted(new)
      BY <3>2 DEF ps
    <3> QED BY <3>1, <3>2
  <2>3. ps \in Seq(SeqElems(ps))  BY <2>1, <2>2 DEF SeqElems
  <2> QED BY <1>2, <1>4, <2>3 DEF IsPorts, IsList
<1> DEFINE o == [new EXCEPT !.clusterIP = ip, !.loadBalancerClass = lb, !.ports = ps]
<1>5. DOMAIN o = DOMAIN new /\ o.annotations = new.annotations /\ o.type = new.type /\ o.ports = ps
  BY Fields
<1>6. Stored("svc", old, new) = o  BY <1>1
<1> HIDE DEF o
<1> QED BY <1>2, <1>4, <1>5, <1>6, <1>7

LEMMA StoredOther ==
  ASSUME NEW k \in ApplyKinds \ {"sts", "svc"}, NEW old, NEW new, DOMAIN new = FieldsOf(k)
  PROVE  LET o == Stored(k, old, new)
         IN /\ DOMAIN o = FieldsOf(k) /\ o.annotations = new.annotations
            /\ k # "job" => o.fields = new.fields
<1>1. CASE k = "job"
  <2> DEFINE s == IF new.selector = "" THEN "generated" ELSE new.selector
             t == [new.template EXCEPT !.defaulted = TRUE]
             c == IF new.completions = 0 THEN 1 ELSE new.completions
  <2>1. Stored(k, old, new) = [new EXCEPT !.selector = s, !.template = t, !.completions = c]
    BY <1>1 DEF Stored
  <2> HIDE DEF s, t, c
  <2> QED BY <1>1, <2>1, Fields
<1>2. CASE k # "job"
  BY <1>2 DEF Stored
<1> QED BY <1>1, <1>2

-----------------------------------------------------------------------------
(* copyDesiredState.                                                        *)

\* Every kind: the annotations are merged, and the fields are those of the kind.
LEMMA CopiedFields ==
  ASSUME NEW k \in ApplyKinds, NEW want, NEW have, DOMAIN want = FieldsOf(k)
  PROVE  LET c == copyDesiredState(k, want, have)
         IN /\ DOMAIN c = FieldsOf(k)
            /\ c.annotations = Overlay(want.annotations, have.annotations)
            /\ \A f \in FieldsOf(k) \ {"owner", "annotations"} : c[f] = CopiedSpec(k, want, have)[f]
<1> DEFINE s == CopiedSpec(k, want, have)
           a == Overlay(want.annotations, have.annotations)
<1>1. copyDesiredState(k, want, have) = [s EXCEPT !.owner = "cr", !.annotations = a]
  BY DEF copyDesiredState, mergeAnnotations
<1>2. DOMAIN s = DOMAIN want
  <2>1. CASE k = "sts"  BY <2>1 DEF CopiedSpec, copyStatefulSetState
  <2>2. CASE k = "svc"  BY <2>2 DEF CopiedSpec, copyServiceState
  <2>3. CASE k = "job"  BY <2>3 DEF CopiedSpec, copyJobState
  <2>4. CASE k \in {"cm", "pdb", "discovery"}
    BY <2>4 DEF CopiedSpec, EnsureDiscoveryConfigMap
  <2>5. CASE k = "sa"  BY <2>5 DEF CopiedSpec
  <2>6. CASE k = "extra"  BY <2>6 DEF CopiedSpec
  <2> QED BY <2>1, <2>2, <2>3, <2>4, <2>5, <2>6 DEF ApplyKinds
<1> HIDE DEF s, a
<1>3. {"owner", "annotations"} \subseteq DOMAIN s  BY <1>2, Fields
<1> DEFINE c == [s EXCEPT !.owner = "cr", !.annotations = a]
<1>4. DOMAIN c = DOMAIN s /\ c.annotations = a
  BY <1>3
<1>5. \A f \in DOMAIN s \ {"owner", "annotations"} : c[f] = s[f]
  OBVIOUS
<1> HIDE DEF c
<1>6. copyDesiredState(k, want, have) = c  BY <1>1 DEF c
<1> QED BY <1>2, <1>4, <1>5, <1>6 DEF s, a

\* A StatefulSet keeps what is immutable.
LEMMA CopiedSts ==
  ASSUME NEW want, NEW have, DOMAIN want = FieldsOf("sts")
  PROVE  LET c == copyDesiredState("sts", want, have)
         IN /\ \A f \in {"selector", "serviceName", "claims", "policy"} : c[f] = have[f]
            /\ c.volumes = want.volumes /\ c.templateLabels = want.templateLabels
            /\ c.mounts = IF claimTemplatesDiffer(want.claims, have.claims)
                          THEN reconcileClaimVolumeMounts(want, have) ELSE want.mounts
<1> DEFINE m == IF claimTemplatesDiffer(want.claims, have.claims)
                THEN reconcileClaimVolumeMounts(want, have) ELSE want.mounts
           t == TemplateAnnotations(want, have)
           s == [want EXCEPT !.selector = have.selector, !.serviceName = have.serviceName,
                             !.claims = have.claims, !.policy = have.policy,
                             !.mounts = m, !.templateAnnotations = t]
<1>1. CopiedSpec("sts", want, have) = s
  BY DEF CopiedSpec, copyStatefulSetState
<1> HIDE DEF m, t
<1>2. /\ s.selector = have.selector /\ s.serviceName = have.serviceName
      /\ s.claims = have.claims /\ s.policy = have.policy
      /\ s.volumes = want.volumes /\ s.templateLabels = want.templateLabels /\ s.mounts = m
  BY Fields
<1> HIDE DEF s
<1> DEFINE c == copyDesiredState("sts", want, have)
<1>3. \A f \in FieldsOf("sts") \ {"owner", "annotations"} : c[f] = s[f]
  <2>1. "sts" \in ApplyKinds  BY DEF ApplyKinds
  <2> QED BY <1>1, <2>1, CopiedFields
<1> HIDE DEF c
<1>4. c.selector = s.selector /\ c.serviceName = s.serviceName /\ c.claims = s.claims
      /\ c.policy = s.policy /\ c.volumes = s.volumes /\ c.templateLabels = s.templateLabels
      /\ c.mounts = s.mounts
  BY <1>3, Fields
<1> QED BY <1>2, <1>4 DEF c, m

\* A Service keeps its addresses, and a port its node port.
LEMMA CopiedSvc ==
  ASSUME NEW want, NEW have, DOMAIN want = FieldsOf("svc"), IsPorts(want.ports)
  PROVE  LET c == copyDesiredState("svc", want, have)
         IN /\ \A f \in {"clusterIP", "loadBalancerClass"} : c[f] = have[f]
            /\ c.type = want.type /\ IsPorts(c.ports) /\ DOMAIN c.ports = DOMAIN want.ports
            /\ \A i \in DOMAIN want.ports :
                 /\ c.ports[i] = CarriedPort(have.ports, want.ports[i])
                 /\ c.ports[i].name = want.ports[i].name /\ c.ports[i].port = want.ports[i].port
<1> DEFINE ps == [i \in DOMAIN want.ports |-> CarriedPort(have.ports, want.ports[i])]
           s == [want EXCEPT !.clusterIP = have.clusterIP, !.loadBalancerClass = have.loadBalancerClass,
                             !.ports = ps]
           c == copyDesiredState("svc", want, have)
<1>1. CopiedSpec("svc", want, have) = s
  BY DEF CopiedSpec, copyServiceState
<1>2. ASSUME NEW i \in DOMAIN want.ports
      PROVE  /\ ps[i] = [f \in {"name", "port", "nodePort"} |-> ps[i][f]]
             /\ ps[i].name = want.ports[i].name /\ ps[i].port = want.ports[i].port
  <2> DEFINE p == want.ports[i]
  <2>1. DOMAIN p = {"name", "port", "nodePort"} /\ p = [f \in {"name", "port", "nodePort"} |-> p[f]]
    BY DEF IsPorts, IsList
  <2>2. ps[i] = p \/ \E n : ps[i] = [p EXCEPT !.nodePort = n]
    BY DEF CarriedPort
  <2> HIDE DEF p, ps
  <2>3. ASSUME NEW n, ps[i] = [p EXCEPT !.nodePort = n]
        PROVE  /\ ps[i] = [f \in {"name", "port", "nodePort"} |-> ps[i][f]]
               /\ ps[i].name = p.name /\ ps[i].port = p.port
    BY <2>1, <2>3
  <2> QED BY <2>1, <2>2, <2>3 DEF p
<1>3. IsPorts(ps) /\ DOMAIN ps = DOMAIN want.ports
  <2>1. DOMAIN ps = 1 .. Len(want.ports) /\ Len(want.ports) \in Nat
    BY DEF IsPorts, IsList
  <2>2. ps \in Seq(SeqElems(ps))  BY <2>1 DEF SeqElems
  <2> QED BY <1>2, <2>2 DEF IsPorts, IsList
<1>4. \A i \in DOMAIN want.ports : ps[i] = CarriedPort(have.ports, want.ports[i])
  OBVIOUS
<1> HIDE DEF ps
<1>5. /\ s.clusterIP = have.clusterIP /\ s.loadBalancerClass = have.loadBalancerClass
      /\ s.type = want.type /\ s.ports = ps
  BY Fields
<1> HIDE DEF s
<1>6. \A f \in FieldsOf("svc") \ {"owner", "annotations"} : c[f] = s[f]
  <2>1. "svc" \in ApplyKinds  BY DEF ApplyKinds
  <2> QED BY <1>1, <2>1, CopiedFields
<1> HIDE DEF c
<1>7. c.clusterIP = s.clusterIP /\ c.loadBalancerClass = s.loadBalancerClass
      /\ c.type = s.type /\ c.ports = s.ports
  BY <1>6, Fields
<1>8. c.ports = ps /\ c.type = want.type /\ c.clusterIP = have.clusterIP
      /\ c.loadBalancerClass = have.loadBalancerClass
  BY <1>5, <1>7
<1> QED BY <1>2, <1>3, <1>4, <1>8 DEF c

LEMMA CopiedJob ==
  ASSUME NEW want, NEW have, DOMAIN want = FieldsOf("job")
  PROVE  \A f \in {"selector", "template", "completions"} :
           copyDesiredState("job", want, have)[f] = have[f]
<1> DEFINE s == [want EXCEPT !.selector = have.selector, !.template = have.template,
                             !.completions = have.completions]
           c == copyDesiredState("job", want, have)
<1>1. CopiedSpec("job", want, have) = s
  BY DEF CopiedSpec, copyJobState
<1>2. s.selector = have.selector /\ s.template = have.template /\ s.completions = have.completions
  BY Fields
<1> HIDE DEF s
<1>3. \A f \in FieldsOf("job") \ {"owner", "annotations"} : c[f] = s[f]
  <2>1. "job" \in ApplyKinds  BY DEF ApplyKinds
  <2> QED BY <1>1, <2>1, CopiedFields
<1> HIDE DEF c
<1>4. c.selector = s.selector /\ c.template = s.template /\ c.completions = s.completions
  BY <1>3, Fields
<1> QED BY <1>2, <1>4 DEF c

\* What others write into the fields of a ServiceAccount or an extra resource.
LEMMA CopiedStatus ==
  ASSUME NEW k \in {"sa", "extra"}, NEW want, NEW have, DOMAIN want = FieldsOf(k),
         "status" \in DOMAIN have.fields
  PROVE  copyDesiredState(k, want, have).fields["status"] = have.fields["status"]
<1> DEFINE g == Overlay([f \in DOMAIN want.fields \ {"status"} |-> want.fields[f]], have.fields)
<1>0. k \in ApplyKinds \ {"sts", "svc", "job"} /\ "fields" \in FieldsOf(k)
  BY Fields DEF ApplyKinds
<1>1. copyDesiredState(k, want, have).fields = CopiedSpec(k, want, have).fields
  BY <1>0, CopiedFields
<1>2. CASE k = "sa"
  <2>1. CopiedSpec(k, want, have) = [want EXCEPT !.fields = have.fields]
    BY <1>2 DEF CopiedSpec
  <2> QED BY <1>0, <1>1, <2>1
<1>3. CASE k = "extra"
  <2>1. CopiedSpec(k, want, have) = [want EXCEPT !.fields = g]
    BY <1>3 DEF CopiedSpec, copyGenericFields
  <2>2. g["status"] = have.fields["status"]  BY DEF Overlay
  <2> HIDE DEF g
  <2>3. CopiedSpec(k, want, have).fields = g  BY <1>0, <2>1
  <2> QED BY <1>1, <2>2, <2>3
<1> QED BY <1>2, <1>3

-----------------------------------------------------------------------------
(* StatefulSets: the mounts after an Update.                                *)

ClaimNames(o) == {c.name : c \in SeqElems(o.claims)}

\* Claim templates that do not differ have the same names.
LEMMA SameNames ==
  ASSUME NEW want, NEW have, IsClaims(want.claims), IsClaims(have.claims),
         ~claimTemplatesDiffer(want.claims, have.claims)
  PROVE  ClaimNames(want) = ClaimNames(have)
<1>1. DOMAIN want.claims = DOMAIN have.claims
  BY DEF claimTemplatesDiffer, IsClaims, IsList
<1>2. ASSUME NEW i \in DOMAIN want.claims
      PROVE  want.claims[i].name = have.claims[i].name
  <2> DEFINE h == have.claims[i]
             m == IF want.claims[i].mode = "" THEN "" ELSE h.mode
             f == IF want.claims[i].phase = "" THEN "" ELSE h.phase
  <2>1. DOMAIN h = {"name", "size", "mode", "phase"}  BY <1>1 DEF IsClaims, IsList
  <2>2. want.claims[i] = [h EXCEPT !.mode = m, !.phase = f]
    BY DEF claimTemplatesDiffer, claimTemplateAsRequested
  <2> HIDE DEF h, m, f
  <2>3. [h EXCEPT !.mode = m, !.phase = f].name = h.name  BY <2>1
  <2> QED BY <2>2, <2>3 DEF h
<1> QED BY <1>1, <1>2 DEF ClaimNames, SeqElems

\* An Update leaves no mount dangling and no path mounted twice.
LEMMA MountsAfter ==
  ASSUME NEW want, NEW have,
         DOMAIN want = FieldsOf("sts"), IsClaims(want.claims), MountsBacked(want),
         IsClaims(have.claims), PathsDistinct(have.mounts)
  PROVE  MountsBacked(copyDesiredState("sts", want, have))
<1> DEFINE c == copyDesiredState("sts", want, have)
<1>1. c.claims = have.claims /\ c.volumes = want.volumes
      /\ c.mounts = IF claimTemplatesDiffer(want.claims, have.claims)
                    THEN reconcileClaimVolumeMounts(want, have) ELSE want.mounts
  BY CopiedSts
<1> HIDE DEF c
<1>2. ClaimNames(c) = ClaimNames(have)  BY <1>1 DEF ClaimNames
<1>3. /\ \A m \in want.mounts : m.volume \in want.volumes \cup ClaimNames(want)
      /\ PathsDistinct(want.mounts)
  BY DEF MountsBacked, ClaimNames, PathsDistinct
<1>4. SUFFICES /\ \A m \in c.mounts : m.volume \in want.volumes \cup ClaimNames(have)
               /\ PathsDistinct(c.mounts)
  BY <1>1, <1>2 DEF MountsBacked, ClaimNames, PathsDistinct, c
<1>5. CASE ~claimTemplatesDiffer(want.claims, have.claims)
  BY <1>1, <1>3, <1>5, SameNames
<1>6. CASE claimTemplatesDiffer(want.claims, have.claims)
  <2> DEFINE kept == {m \in want.mounts :
                        m.volume \notin (ClaimNames(want) \ ClaimNames(have)) \ want.volumes}
             back == {m \in have.mounts :
                        /\ m.volume \in ClaimNames(have) \ ClaimNames(want)
                        /\ m.container \in want.containers
                        /\ ~\E n \in kept : n.container = m.container /\ n.path = m.path}
  <2>1. c.mounts = kept \cup back
    BY <1>1, <1>6 DEF reconcileClaimVolumeMounts, ClaimNames
  <2>2. \A m \in kept \cup back : m.volume \in want.volumes \cup ClaimNames(have)
    BY <1>3
  <2>3. PathsDistinct(kept \cup back)
    BY <1>3 DEF PathsDistinct
  <2> QED BY <2>1, <2>2, <2>3
<1> QED BY <1>5, <1>6

-----------------------------------------------------------------------------
(* What the handlers build.                                                 *)

LEMMA Handlers ==
  ASSUME NEW k \in ApplyKinds, NEW d \in Shapes[k]
  PROVE  /\ DOMAIN d = FieldsOf(k)
         /\ k = "sts" => IsClaims(d.claims) /\ MountsBacked(d)
         /\ k = "svc" => /\ IsPorts(d.ports) /\ PortsDistinct(d.ports) /\ NodePortsUnique(d)
                         /\ NodePorted(d) \/ NodePortsOf(d) = {}
BY HandlersAssumption DEF Accepts, ServiceAccepted

\* Ports that keep their names and numbers stay distinct.
LEMMA DistinctAsBefore ==
  ASSUME NEW ports, NEW before, DOMAIN ports = DOMAIN before, PortsDistinct(before),
         \A i \in DOMAIN before : ports[i].name = before[i].name /\ ports[i].port = before[i].port
  PROVE  PortsDistinct(ports)
<1> SUFFICES ASSUME NEW i \in DOMAIN ports, NEW j \in DOMAIN ports, i # j
             PROVE  /\ ports[i].port # ports[j].port
                    /\ ports[i].name = "" \/ ports[i].name # ports[j].name
  BY DEF PortsDistinct
<1>1. /\ ports[i].name = before[i].name /\ ports[i].port = before[i].port
      /\ ports[j].name = before[j].name /\ ports[j].port = before[j].port
  OBVIOUS
<1>2. before[i].port # before[j].port /\ (before[i].name = "" \/ before[i].name # before[j].name)
  BY DEF PortsDistinct
<1> QED BY <1>1, <1>2

LEMMA StoredOK ==
  ASSUME NEW k \in ApplyKinds, NEW old, NEW new, ObjectOK(k, new)
  PROVE  ObjectOK(k, Stored(k, old, new))
<1>1. CASE k = "sts"
  BY <1>1, StoredSts DEF ObjectOK
<1>2. CASE k = "svc"
  <2> DEFINE o == Stored("svc", old, new)
  <2>1. /\ DOMAIN o = FieldsOf("svc") /\ IsPorts(o.ports) /\ DOMAIN o.ports = DOMAIN new.ports
        /\ \A i \in DOMAIN new.ports :
             o.ports[i].name = new.ports[i].name /\ o.ports[i].port = new.ports[i].port
    BY <1>2, StoredSvc DEF ObjectOK
  <2> HIDE DEF o
  <2>2. PortsDistinct(new.ports)  BY <1>2 DEF ObjectOK
  <2>3. PortsDistinct(o.ports)  BY <2>1, <2>2, DistinctAsBefore
  <2> QED BY <1>2, <2>1, <2>3 DEF ObjectOK, o
<1>3. CASE k \notin {"sts", "svc"}
  BY <1>3, StoredOther DEF ObjectOK
<1> QED BY <1>1, <1>2, <1>3

\* An object a handler builds, whoever it is made to belong to.
LEMMA BuiltOK ==
  ASSUME NEW k \in ApplyKinds, NEW d \in Shapes[k], NEW who
  PROVE  ObjectOK(k, [d EXCEPT !.owner = who])
<1> DEFINE o == [d EXCEPT !.owner = who]
<1>1. DOMAIN o = DOMAIN d /\ \A f \in DOMAIN d \ {"owner"} : o[f] = d[f]
  OBVIOUS
<1> HIDE DEF o
<1>2. DOMAIN o = FieldsOf(k)  BY <1>1, Handlers
<1>3. CASE k = "sts"
  <2>1. o.claims = d.claims /\ o.mounts = d.mounts  BY <1>1, <1>2, <1>3, Fields
  <2>2. IsClaims(d.claims) /\ PathsDistinct(d.mounts)
    BY <1>3, Handlers DEF MountsBacked, PathsDistinct
  <2> QED BY <1>2, <1>3, <2>1, <2>2 DEF ObjectOK, o
<1>4. CASE k = "svc"
  <2>1. o.ports = d.ports  BY <1>1, <1>2, <1>4, Fields
  <2> QED BY <1>2, <1>4, <2>1, Handlers DEF ObjectOK, o
<1>5. CASE k \notin {"sts", "svc"}
  BY <1>2, <1>5 DEF ObjectOK, o
<1> QED BY <1>3, <1>4, <1>5

\* What copyDesiredState makes of one, over an object of the same kind.
LEMMA CopyOK ==
  ASSUME NEW k \in ApplyKinds, NEW d \in Shapes[k], NEW have, ObjectOK(k, have)
  PROVE  ObjectOK(k, copyDesiredState(k, d, have))
<1> DEFINE c == copyDesiredState(k, d, have)
<1>1. DOMAIN c = FieldsOf(k)  BY Handlers, CopiedFields
<1>2. CASE k = "sts"
  <2>1. MountsBacked(c)  BY <1>2, Handlers, MountsAfter DEF ObjectOK
  <2>2. c.claims = have.claims  BY <1>2, Handlers, CopiedSts
  <2> HIDE DEF c
  <2>3. PathsDistinct(c.mounts)  BY <2>1 DEF MountsBacked, PathsDistinct
  <2> QED BY <1>1, <1>2, <2>2, <2>3 DEF ObjectOK, c
<1>3. CASE k = "svc"
  <2>1. DOMAIN d = FieldsOf("svc") /\ IsPorts(d.ports) /\ PortsDistinct(d.ports)
    BY <1>3, Handlers
  <2>2. /\ IsPorts(c.ports) /\ DOMAIN c.ports = DOMAIN d.ports
        /\ \A i \in DOMAIN d.ports :
             c.ports[i].name = d.ports[i].name /\ c.ports[i].port = d.ports[i].port
    BY <1>3, <2>1, CopiedSvc
  <2> HIDE DEF c
  <2>3. PortsDistinct(c.ports)  BY <2>1, <2>2, DistinctAsBefore
  <2> QED BY <1>1, <1>3, <2>2, <2>3 DEF ObjectOK, c
<1>4. CASE k \notin {"sts", "svc"}
  BY <1>1, <1>4 DEF ObjectOK, c
<1> QED BY <1>2, <1>3, <1>4

-----------------------------------------------------------------------------
(* The invariant.                                                           *)

\* A write into a field that no consistency rule reads.
LEMMA StampOK ==
  ASSUME NEW k \in ApplyKinds, NEW o, ObjectOK(k, o), NEW f, NEW v,
         f \in {"annotations", "labels", "templateAnnotations"} \/ k \notin {"sts", "svc"}
  PROVE  ObjectOK(k, [o EXCEPT ![f] = v])
<1> DEFINE n == [o EXCEPT ![f] = v]
<1>1. DOMAIN n = DOMAIN o /\ \A g \in DOMAIN o \ {f} : n[g] = o[g]
  OBVIOUS
<1> HIDE DEF n
<1>2. CASE k = "sts"
  <2>1. n.claims = o.claims /\ n.mounts = o.mounts
    BY <1>1, <1>2, Fields DEF ObjectOK
  <2> QED BY <1>1, <1>2, <2>1 DEF ObjectOK, n
<1>3. CASE k = "svc"
  <2>1. n.ports = o.ports  BY <1>1, <1>3, Fields DEF ObjectOK
  <2> QED BY <1>1, <1>3, <2>1 DEF ObjectOK, n
<1>4. CASE k \notin {"sts", "svc"}
  BY <1>1, <1>4 DEF ObjectOK, n
<1> QED BY <1>2, <1>3, <1>4

LEMMA ApplyStep ==
  ASSUME ApplyInv, [ApplyNext]_applyVars
  PROVE  ApplyInv'
<1>0. ASSUME kind # "none"
      PROVE  kind \in ApplyKinds /\ desired \in Shapes[kind]
  BY <1>0 DEF ApplyInv
<1>n. "none" \notin ApplyKinds  BY DEF ApplyKinds
<1>1. CASE CreateResource
  <2> DEFINE o == [desired EXCEPT !.owner = "cr"]
  <2>1. kind \in ApplyKinds /\ desired \in Shapes[kind] /\ live' = Stored(kind, Absent, o)
    BY <1>0, <1>1 DEF CreateResource
  <2>2. ObjectOK(kind, o)  BY <2>1, BuiltOK
  <2> HIDE DEF o
  <2>3. ObjectOK(kind, live')  BY <2>1, <2>2, StoredOK
  <2> QED BY <1>1, <1>n, <2>1, <2>3 DEF CreateResource, ApplyInv, LiveOK
<1>2. CASE UpdateResource
  <2> DEFINE c == copyDesiredState(kind, desired, live)
  <2>1. kind \in ApplyKinds /\ desired \in Shapes[kind] /\ live # Absent
    BY <1>0, <1>2 DEF UpdateResource
  <2>2. live' = live \/ live' = Stored(kind, live, c)
    BY <1>2 DEF UpdateResource
  <2>3. ObjectOK(kind, live)  BY <2>1 DEF ApplyInv, LiveOK
  <2>4. ObjectOK(kind, c)  BY <2>1, <2>3, CopyOK
  <2> HIDE DEF c
  <2>5. ObjectOK(kind, live')  BY <2>1, <2>2, <2>3, <2>4, StoredOK
  <2> QED BY <1>2, <1>n, <2>1, <2>5 DEF UpdateResource, ApplyInv, LiveOK
<1>3. CASE RejectForeign
  BY <1>3 DEF RejectForeign, ApplyInv, LiveOK
<1>4. CASE Reshape
  BY <1>4, <1>n DEF Reshape, ApplyInv, LiveOK
<1>5. CASE SquatObject
  <2>1. kind \in ApplyKinds /\ desired \in Shapes[kind]
    BY <1>0, <1>5 DEF SquatObject
  <2>2. PICK d \in Shapes[kind], w \in {"none", "other"} :
          live' = Stored(kind, Absent, [d EXCEPT !.owner = w])
    BY <1>5 DEF SquatObject
  <2> DEFINE o == [d EXCEPT !.owner = w]
  <2>3. ObjectOK(kind, o)  BY <2>1, BuiltOK
  <2>4. live' = Stored(kind, Absent, o)  BY <2>2
  <2> HIDE DEF o
  <2>5. ObjectOK(kind, live')  BY <2>1, <2>3, <2>4, StoredOK
  <2> QED BY <1>5, <1>n, <2>1, <2>5 DEF SquatObject, ApplyInv, LiveOK
<1>6. CASE StampObject
  <2>1. kind \in ApplyKinds /\ desired \in Shapes[kind] /\ ObjectOK(kind, live)
    BY <1>0, <1>6 DEF StampObject, ApplyInv, LiveOK
  <2>2. \/ \E v : live' = [live EXCEPT !.annotations = v]
        \/ \E v : live' = [live EXCEPT !.labels = v]
        \/ kind \notin {"sts", "svc"} /\ \E v : live' = [live EXCEPT !.fields = v]
    BY <1>6 DEF StampObject
  <2>3. ObjectOK(kind, live')  BY <2>1, <2>2, StampOK
  <2> QED BY <1>6, <1>n, <2>1, <2>3 DEF StampObject, ApplyInv, LiveOK
<1>7. CASE NewConfig
  BY <1>7 DEF NewConfig, ApplyInv, LiveOK
<1>8. CASE RestartPods
  <2>1. kind \in ApplyKinds /\ desired \in Shapes[kind] /\ ObjectOK(kind, live)
    BY <1>0, <1>8 DEF RestartPods, ApplyInv, LiveOK
  <2>2. \E v : live' = [live EXCEPT !.templateAnnotations = v]
    BY <1>8 DEF RestartPods
  <2>3. ObjectOK(kind, live')  BY <2>1, <2>2, StampOK
  <2> QED BY <1>8, <1>n, <2>1, <2>3 DEF RestartPods, ApplyInv, LiveOK
<1>9. CASE UNCHANGED applyVars
  BY <1>9 DEF applyVars, ApplyInv, LiveOK
<1> QED BY <1>1, <1>2, <1>3, <1>4, <1>5, <1>6, <1>7, <1>8, <1>9 DEF ApplyNext

\* Whatever the users, the others and the API server wrote before, the live object
\* is one copyDesiredState can be applied to (applyResource's Get and Update).
THEOREM ApplyInvariant == ApplySpec => []ApplyInv
<1>1. ApplyInit => ApplyInv
  BY DEF ApplyInit, ApplyInv, LiveOK
<1>2. ApplyInv /\ [ApplyNext]_applyVars => ApplyInv'
  BY ApplyStep
<1> QED BY <1>1, <1>2, PTL DEF ApplySpec

-----------------------------------------------------------------------------
(* What an Update does.                                                     *)

\* The setting of the three theorems.
LEMMA UpdateSetting ==
  ASSUME ApplyInv, UpdateResource
  PROVE  /\ kind \in ApplyKinds /\ desired \in Shapes[kind] /\ ObjectOK(kind, live)
         /\ refused' = ~Accepts(kind, live, copyDesiredState(kind, desired, live))
         /\ ~refused' => live' = Stored(kind, live, copyDesiredState(kind, desired, live))
         /\ refused' => live' = live
BY DEF ApplyInv, LiveOK, UpdateResource

\* Every Update that is refused is one of the three the code gives up on: the
\* immutable fields are copied, mounts are reconciled with the claims that exist,
\* and node ports are carried over; only a selector that no longer matches, a node
\* port taken twice and the kept "None" of a Service that is to be exposed remain.
THEOREM RefusalsKnown == ApplySpec => RefusedOnlyAsKnown
<1>1. ASSUME ApplyInv, UpdateResource, refused'
      PROVE  \/ kind = "sts" /\ ~(live.selector \subseteq desired.templateLabels)
             \/ kind = "svc" /\ (PortTakenTwice \/ (live.clusterIP = "None" /\ desired.type # "ClusterIP"))
  <2> DEFINE c == copyDesiredState(kind, desired, live)
  <2>1. /\ kind \in ApplyKinds /\ desired \in Shapes[kind] /\ ObjectOK(kind, live)
        /\ ~Accepts(kind, live, c)
    BY <1>1, UpdateSetting
  <2>2. DOMAIN desired = FieldsOf(kind)  BY <2>1, Handlers
  <2>3. \A f \in Immutable(kind) : c[f] = live[f]
    <3>1. CASE kind = "sts"  BY <2>2, <3>1, CopiedSts DEF Immutable
    <3>2. CASE kind = "svc"
      BY <2>1, <2>2, <3>2, CopiedSvc, Handlers DEF Immutable
    <3>3. CASE kind = "job"  BY <2>2, <3>3, CopiedJob DEF Immutable
    <3>4. CASE kind \notin {"sts", "svc", "job"}  BY <3>4 DEF Immutable
    <3> QED BY <3>1, <3>2, <3>3, <3>4
  <2>4. CASE kind = "sts"
    <3>1. MountsBacked(c)  BY <2>1, <2>4, Handlers, MountsAfter DEF ObjectOK
    <3>2. c.selector = live.selector /\ c.templateLabels = desired.templateLabels
      BY <2>2, <2>4, CopiedSts
    <3> HIDE DEF c
    <3> QED BY <2>1, <2>3, <2>4, <3>1, <3>2 DEF Accepts, SelectorMatches
  <2>5. CASE kind = "svc"
    <3>1. /\ IsPorts(desired.ports) /\ NodePortsUnique(desired)
          /\ NodePorted(desired) \/ NodePortsOf(desired) = {}
      BY <2>1, <2>5, Handlers
    <3>2. /\ c.type = desired.type /\ DOMAIN c.ports = DOMAIN desired.ports
          /\ \A i \in DOMAIN desired.ports : c.ports[i] = CarriedPort(live.ports, desired.ports[i])
      BY <2>2, <2>5, <3>1, CopiedSvc
    <3>a. live # Absent  BY <1>1 DEF UpdateResource
    <3>b. c.clusterIP = live.clusterIP /\ c.loadBalancerClass = live.loadBalancerClass
      BY <2>2, <2>5, <3>1, CopiedSvc
    <3> HIDE DEF c
    <3>c. NodePorted(c) <=> NodePorted(desired)  BY <3>2 DEF NodePorted
    <3>3. \/ ~NodePortsUnique(c)
          \/ ~NodePorted(c) /\ ~(NodePortsOf(c) \subseteq NodePortsOf(live))
          \/ c.clusterIP = "None" /\ c.type # "ClusterIP"
      BY <2>1, <2>3, <2>5, <3>a, <3>b DEF Accepts, ServiceAccepted
    <3>4. ASSUME NEW i \in DOMAIN desired.ports, desired.ports[i].nodePort # 0
          PROVE  c.ports[i] = desired.ports[i]
      BY <3>2, <3>4 DEF CarriedPort
    <3>5. CASE ~NodePortsUnique(c)
      <4>1. PICK i, j \in DOMAIN desired.ports :
              i # j /\ c.ports[i].nodePort = c.ports[j].nodePort /\ c.ports[i].nodePort # 0
        BY <3>2, <3>5 DEF NodePortsUnique
      <4>2. CASE desired.ports[i].nodePort = 0
        BY <2>5, <3>2, <4>1, <4>2 DEF PortTakenTwice
      <4>3. CASE desired.ports[j].nodePort = 0
        BY <2>5, <3>2, <4>1, <4>3 DEF PortTakenTwice
      <4>4. CASE desired.ports[i].nodePort # 0 /\ desired.ports[j].nodePort # 0
        BY <3>1, <3>4, <4>1, <4>4 DEF NodePortsUnique
      <4> QED BY <4>2, <4>3, <4>4
    <3>6. CASE ~NodePorted(c) /\ ~(NodePortsOf(c) \subseteq NodePortsOf(live))
      <4>1. NodePortsOf(desired) = {}  BY <3>1, <3>6, <3>c
      <4>2. PICK i \in DOMAIN c.ports :
              c.ports[i].nodePort # 0 /\ c.ports[i].nodePort \notin NodePortsOf(live)
        BY <3>6 DEF NodePortsOf, SeqElems
      <4>3. desired.ports[i].nodePort = 0
        BY <3>2, <4>1, <4>2 DEF NodePortsOf, SeqElems
      <4> DEFINE p == desired.ports[i]
                 found == findServicePort(live.ports, p)
      <4>4. found # {} /\ c.ports[i] = [p EXCEPT !.nodePort = live.ports[CHOOSE n \in found : TRUE].nodePort]
        BY <3>2, <4>2, <4>3 DEF CarriedPort
      <4>5. found \subseteq DOMAIN live.ports  BY DEF findServicePort
      <4>6. DOMAIN p = {"name", "port", "nodePort"}
        BY <3>1, <3>2, <4>2 DEF IsPorts, IsList
      <4> HIDE DEF found, p
      <4>7. PICK n \in DOMAIN live.ports : c.ports[i] = [p EXCEPT !.nodePort = live.ports[n].nodePort]
        BY <4>4, <4>5
      <4>8. c.ports[i].nodePort = live.ports[n].nodePort  BY <4>6, <4>7
      <4> QED BY <4>2, <4>8 DEF NodePortsOf, SeqElems
    <3>7. CASE c.clusterIP = "None" /\ c.type # "ClusterIP"
      BY <2>5, <3>2, <3>7, <3>b DEF NodePorted
    <3> QED BY <3>3, <3>5, <3>6, <3>7
  <2>6. CASE kind \notin {"sts", "svc"}
    BY <2>1, <2>3, <2>6 DEF Accepts
  <2> QED BY <2>4, <2>5, <2>6
<1>2. ApplyInv /\ [ApplyNext]_applyVars =>
        [UpdateResource /\ refused' =>
           \/ kind = "sts" /\ ~(live.selector \subseteq desired.templateLabels)
           \/ kind = "svc" /\ (PortTakenTwice \/ (live.clusterIP = "None" /\ desired.type # "ClusterIP"))]_applyVars
  BY <1>1
<1> QED BY <1>2, ApplyInvariant, PTL DEF ApplySpec, RefusedOnlyAsKnown

\* A path backed by a claim that still exists stays mounted when the CR stops
\* asking for the claim (reconcileClaimVolumeMounts).
THEOREM DataMounted == ApplySpec => DataStaysMounted
<1>1. ASSUME ApplyInv, UpdateResource, kind = "sts", ~refused',
             NEW m \in live.mounts,
             m.volume \in {c.name : c \in SeqElems(live.claims)},
             m.volume \notin {c.name : c \in SeqElems(desired.claims)},
             m.container \in desired.containers
      PROVE  \E n \in live'.mounts : n.container = m.container /\ n.path = m.path
  <2> DEFINE c == copyDesiredState("sts", desired, live)
  <2>1. /\ "sts" \in ApplyKinds /\ desired \in Shapes["sts"] /\ ObjectOK("sts", live)
        /\ live' = Stored("sts", live, c)
    BY <1>1, UpdateSetting
  <2>2. DOMAIN desired = FieldsOf("sts") /\ IsClaims(desired.claims)
    BY <2>1, Handlers
  <2>3. m.volume \in ClaimNames(live) \ ClaimNames(desired)
    BY <1>1 DEF ClaimNames
  <2>4. claimTemplatesDiffer(desired.claims, live.claims)
    BY <2>1, <2>2, <2>3, SameNames DEF ObjectOK
  <2>5. c.mounts = reconcileClaimVolumeMounts(desired, live)
    BY <2>2, <2>4, CopiedSts
  <2>6. live'.mounts = c.mounts
    <3>1. ObjectOK("sts", c)  BY <2>1, CopyOK
    <3> HIDE DEF c
    <3> QED BY <2>1, <3>1, StoredSts DEF ObjectOK
  <2> HIDE DEF c
  <2>7. \E n \in reconcileClaimVolumeMounts(desired, live) :
          n.container = m.container /\ n.path = m.path
    <3> DEFINE kept == {n \in desired.mounts :
                          n.volume \notin (ClaimNames(desired) \ ClaimNames(live)) \ desired.volumes}
               back == {b \in live.mounts :
                          /\ b.volume \in ClaimNames(live) \ ClaimNames(desired)
                          /\ b.container \in desired.containers
                          /\ ~\E n \in kept : n.container = b.container /\ n.path = b.path}
    <3>1. reconcileClaimVolumeMounts(desired, live) = kept \cup back
      BY DEF reconcileClaimVolumeMounts, ClaimNames
    <3>2. m \in back \/ \E n \in kept : n.container = m.container /\ n.path = m.path
      BY <1>1, <2>3
    <3> QED BY <3>1, <3>2
  <2> QED BY <2>5, <2>6, <2>7
<1> DEFINE Kept == UpdateResource /\ kind = "sts" /\ ~refused' =>
             \A m \in live.mounts :
               /\ m.volume \in {c.name : c \in SeqElems(live.claims)}
               /\ m.volume \notin {c.name : c \in SeqElems(desired.claims)}
               /\ m.container \in desired.containers
               => \E n \in live'.mounts : n.container = m.container /\ n.path = m.path
<1>2. ApplyInv /\ [ApplyNext]_applyVars => [Kept]_applyVars
  BY <1>1
<1> QED BY <1>2, ApplyInvariant, PTL DEF ApplySpec, DataStaysMounted

\* The node port a handler's port is given is that of the live port with its name,
\* or else with its number.
LEMMA CarriedByNameOrNumber ==
  ASSUME NEW ports, IsPorts(ports), PortsDistinct(ports),
         NEW p, DOMAIN p = {"name", "port", "nodePort"}, p.nodePort = 0, NEW i \in DOMAIN ports,
         \/ ports[i].name # "" /\ ports[i].name = p.name
         \/ ports[i].port = p.port /\ \A n \in DOMAIN ports : ports[n].name # p.name
  PROVE  CarriedPort(ports, p).nodePort = ports[i].nodePort
<1>1. findServicePort(ports, p) = {i}
  <2> DEFINE byName == {n \in DOMAIN ports : p.name # "" /\ ports[n].name = p.name}
             byPort == {n \in DOMAIN ports : ports[n].port = p.port}
  <2>1. findServicePort(ports, p) = IF byName # {} THEN byName ELSE byPort
    BY DEF findServicePort
  <2>2. CASE ports[i].name # "" /\ ports[i].name = p.name
    <3>1. byName = {i}  BY <2>2 DEF PortsDistinct
    <3> QED BY <2>1, <3>1
  <2>3. CASE ports[i].port = p.port /\ \A n \in DOMAIN ports : ports[n].name # p.name
    <3>1. byName = {} /\ byPort = {i}  BY <2>3 DEF PortsDistinct
    <3> QED BY <2>1, <3>1
  <2> QED BY <2>2, <2>3
<1>2. (CHOOSE n \in {i} : TRUE) = i  OBVIOUS
<1> DEFINE v == ports[i].nodePort
<1>3. CarriedPort(ports, p) = [p EXCEPT !.nodePort = v]
  BY <1>1, <1>2 DEF CarriedPort
<1> HIDE DEF v
<1>4. [p EXCEPT !.nodePort = v].nodePort = v  OBVIOUS
<1> QED BY <1>3, <1>4 DEF v

\* No apply undoes what others wrote: annotations, the status of an extra resource,
\* the tokens of a ServiceAccount, the node ports of a Service that stays on them.
THEOREM OthersKept == ApplySpec => OthersWritesKept
<1> DEFINE Annotated == \A a \in DOMAIN live.annotations \ DOMAIN desired.annotations :
                          a \in DOMAIN live'.annotations /\ live'.annotations[a] = live.annotations[a]
           Reported == kind \in {"sa", "extra"} /\ "status" \in DOMAIN live.fields =>
                         live'.fields["status"] = live.fields["status"]
           Exposed == kind = "svc" /\ ~refused' /\ NodePorted(live') => NodePortsKept
<1>1. ASSUME ApplyInv, UpdateResource
      PROVE  Annotated /\ Reported /\ Exposed
  <2> DEFINE c == copyDesiredState(kind, desired, live)
  <2>1. /\ kind \in ApplyKinds /\ desired \in Shapes[kind] /\ ObjectOK(kind, live)
        /\ live' = live \/ live' = Stored(kind, live, c)
        /\ ~refused' => live' = Stored(kind, live, c)
    <3>1. refused' \/ ~refused'  OBVIOUS
    <3> QED BY <1>1, <3>1, UpdateSetting
  <2>2. DOMAIN desired = FieldsOf(kind) /\ ObjectOK(kind, c)
    BY <2>1, Handlers, CopyOK
  <2>3. c.annotations = Overlay(desired.annotations, live.annotations)
    BY <2>1, <2>2, CopiedFields
  <2>4. live' = live \/ live'.annotations = c.annotations
    <3> HIDE DEF c
    <3>1. CASE kind = "sts"  BY <2>1, <2>2, <3>1, StoredSts DEF ObjectOK
    <3>2. CASE kind = "svc"  BY <2>1, <2>2, <3>2, StoredSvc DEF ObjectOK
    <3>3. CASE kind \notin {"sts", "svc"}  BY <2>1, <2>2, <3>3, StoredOther DEF ObjectOK
    <3> QED BY <3>1, <3>2, <3>3
  <2>5. Annotated
    <3> DEFINE f == desired.annotations
               g == live.annotations
               merged == Overlay(f, g)
    <3>2. live' = live \/ live'.annotations = merged  BY <2>3, <2>4
    <3> HIDE DEF f, g
    <3>1. ASSUME NEW a \in DOMAIN g \ DOMAIN f
          PROVE  a \in DOMAIN merged /\ merged[a] = g[a]
      BY <3>1 DEF Overlay
    <3> HIDE DEF merged
    <3> QED BY <3>1, <3>2 DEF f, g
  <2>6. ASSUME kind \in {"sa", "extra"}, "status" \in DOMAIN live.fields
        PROVE  live'.fields["status"] = live.fields["status"]
    <3>1. c.fields["status"] = live.fields["status"]
      BY <2>2, <2>6, CopiedStatus
    <3> HIDE DEF c
    <3>2. live' = live \/ live'.fields = c.fields
      BY <2>1, <2>2, <2>6, StoredOther DEF ObjectOK
    <3> QED BY <3>1, <3>2
  <2>7. ASSUME kind = "svc", ~refused', NodePorted(live')
        PROVE  NodePortsKept
    <3>1. IsPorts(desired.ports)  BY <2>1, <2>7, Handlers
    <3>2. /\ DOMAIN c.ports = DOMAIN desired.ports
          /\ \A j \in DOMAIN desired.ports :
               /\ c.ports[j] = CarriedPort(live.ports, desired.ports[j])
               /\ c.ports[j].name = desired.ports[j].name /\ c.ports[j].port = desired.ports[j].port
      BY <2>2, <2>7, <3>1, CopiedSvc
    <3> HIDE DEF c
    <3>3. /\ DOMAIN live'.ports = DOMAIN c.ports /\ live'.type = c.type
          /\ \A j \in DOMAIN c.ports :
               /\ live'.ports[j].name = c.ports[j].name /\ live'.ports[j].port = c.ports[j].port
               /\ NodePorted(c) /\ c.ports[j].nodePort # 0
                  => live'.ports[j].nodePort = c.ports[j].nodePort
      BY <2>1, <2>2, <2>7, StoredSvc DEF ObjectOK
    <3>4. ASSUME NEW i \in DOMAIN live.ports, NEW j \in DOMAIN live'.ports,
                 desired.ports[j].nodePort = 0, live.ports[i].nodePort # 0,
                 \/ live.ports[i].name # "" /\ live.ports[i].name = live'.ports[j].name
                 \/ /\ live.ports[i].port = live'.ports[j].port
                    /\ \A n \in DOMAIN live.ports : live.ports[n].name # live'.ports[j].name
          PROVE  live'.ports[j].nodePort = live.ports[i].nodePort
      <4>1. j \in DOMAIN desired.ports  BY <3>2, <3>3
      <4>2. live'.ports[j].name = desired.ports[j].name /\ live'.ports[j].port = desired.ports[j].port
        BY <3>2, <3>3, <4>1
      <4>3. DOMAIN desired.ports[j] = {"name", "port", "nodePort"}
        BY <3>1, <4>1 DEF IsPorts, IsList
      <4>4. CarriedPort(live.ports, desired.ports[j]).nodePort = live.ports[i].nodePort
        <5> DEFINE p == desired.ports[j]
        <5>1. IsPorts(live.ports) /\ PortsDistinct(live.ports)  BY <2>1, <2>7 DEF ObjectOK
        <5>2. \/ live.ports[i].name # "" /\ live.ports[i].name = p.name
              \/ live.ports[i].port = p.port /\ \A n \in DOMAIN live.ports : live.ports[n].name # p.name
          BY <3>4, <4>2
        <5>3. DOMAIN p = {"name", "port", "nodePort"} /\ p.nodePort = 0  BY <3>4, <4>3
        <5> HIDE DEF p
        <5>4. CarriedPort(live.ports, p).nodePort = live.ports[i].nodePort
          BY <5>1, <5>2, <5>3, CarriedByNameOrNumber
        <5> QED BY <5>4 DEF p
      <4>5. c.ports[j].nodePort = live.ports[i].nodePort  BY <3>2, <4>1, <4>4
      <4>6. NodePorted(c)  BY <2>7, <3>3 DEF NodePorted
      <4> QED BY <3>2, <3>3, <3>4, <4>1, <4>5, <4>6
    <3> QED BY <3>4 DEF NodePortsKept
  <2> QED BY <2>5, <2>6, <2>7
<1>2. ApplyInv /\ [ApplyNext]_applyVars =>
        [UpdateResource => Annotated /\ Reported /\ Exposed]_applyVars
  BY <1>1
<1> QED BY <1>2, ApplyInvariant, PTL DEF ApplySpec, OthersWritesKept

-----------------------------------------------------------------------------
(* What an Update reports.                                                  *)

\* Claim templates state what the API server would fill in, or nothing.
IsPlain(c) == c.mode \in {"", "fs"} /\ c.phase \in {"", "pending"}
PlainClaims == \A d \in Shapes["sts"] : \A i \in DOMAIN d.claims : IsPlain(d.claims[i])

\* The live claim templates are filled in.
AllFilled(cs) == \A i \in DOMAIN cs : cs[i].mode = "fs" /\ cs[i].phase = "pending"
FilledInv == kind = "sts" /\ live # Absent => AllFilled(live.claims)

LEMMA Filled ==
  ASSUME NEW old, NEW new, DOMAIN new = FieldsOf("sts"), IsClaims(new.claims),
         \A i \in DOMAIN new.claims : IsPlain(new.claims[i])
  PROVE  AllFilled(Stored("sts", old, new).claims)
<1> DEFINE cs == [i \in DOMAIN new.claims |-> ClaimFilled(new.claims[i])]
           p == IF new.policy = "" THEN "ordered" ELSE new.policy
<1>1. Stored("sts", old, new) = [new EXCEPT !.claims = cs, !.policy = p]
  BY DEF Stored
<1>2. ASSUME NEW i \in DOMAIN new.claims
      PROVE  cs[i].mode = "fs" /\ cs[i].phase = "pending"
  <2> DEFINE c == new.claims[i]
             m == IF c.mode = "" THEN "fs" ELSE c.mode
             f == IF c.phase = "" THEN "pending" ELSE c.phase
  <2>1. {"mode", "phase"} \subseteq DOMAIN c /\ cs[i] = [c EXCEPT !.mode = m, !.phase = f]
    BY DEF IsClaims, IsList, ClaimFilled
  <2>2. m = "fs" /\ f = "pending"  BY DEF IsPlain
  <2> HIDE DEF c, m, f, cs
  <2> QED BY <2>1, <2>2
<1>3. DOMAIN cs = DOMAIN new.claims  OBVIOUS
<1> HIDE DEF p
<1>4. [new EXCEPT !.claims = cs, !.policy = p].claims = cs  BY Fields
<1>5. AllFilled(cs)  BY <1>2, <1>3 DEF AllFilled
<1> QED BY <1>1, <1>4, <1>5

\* A claim template is as the handler asked exactly when filling in the request
\* gives the live one.
LEMMA AsRequested ==
  ASSUME NEW w, NEW h, IsPlain(w), h.mode = "fs", h.phase = "pending",
         w = [f \in {"name", "size", "mode", "phase"} |-> w[f]],
         h = [f \in {"name", "size", "mode", "phase"} |-> h[f]]
  PROVE  w = claimTemplateAsRequested(w, h) <=> h = ClaimFilled(w)
<1> DEFINE m == IF w.mode = "" THEN "" ELSE h.mode
           p == IF w.phase = "" THEN "" ELSE h.phase
           fm == IF w.mode = "" THEN "fs" ELSE w.mode
           fp == IF w.phase = "" THEN "pending" ELSE w.phase
<1>1. claimTemplateAsRequested(w, h) = [h EXCEPT !.mode = m, !.phase = p]
  BY DEF claimTemplateAsRequested
<1>2. ClaimFilled(w) = [w EXCEPT !.mode = fm, !.phase = fp]
  BY DEF ClaimFilled
<1>3. m = w.mode /\ p = w.phase /\ fm = h.mode /\ fp = h.phase
  BY DEF IsPlain
<1> HIDE DEF m, p, fm, fp
<1>4. [h EXCEPT !.mode = w.mode, !.phase = w.phase] = w <=> h.name = w.name /\ h.size = w.size
  OBVIOUS
<1>5. [w EXCEPT !.mode = h.mode, !.phase = h.phase] = h <=> h.name = w.name /\ h.size = w.size
  OBVIOUS
<1> QED BY <1>1, <1>2, <1>3, <1>4, <1>5

LEMMA FilledStep ==
  ASSUME PlainClaims, ApplyInv, FilledInv, [ApplyNext]_applyVars
  PROVE  FilledInv'
<1>0. ASSUME kind = "sts"
      PROVE  "sts" \in ApplyKinds /\ desired \in Shapes["sts"]
  BY <1>0 DEF ApplyInv, ApplyKinds
\* What is made from a shape is filled in.
<1>m. ASSUME NEW d \in Shapes["sts"], NEW who, kind = "sts",
             live' = Stored("sts", Absent, [d EXCEPT !.owner = who])
      PROVE  FilledInv'
  <2> DEFINE o == [d EXCEPT !.owner = who]
  <2>1. DOMAIN d = FieldsOf("sts")  BY <1>0, <1>m, Handlers
  <2>2. ObjectOK("sts", o)  BY <1>0, <1>m, BuiltOK
  <2>3. o.claims = d.claims  BY <2>1, Fields
  <2>4. live' = Stored("sts", Absent, o)  BY <1>m
  <2> HIDE DEF o
  <2>6. \A i \in DOMAIN o.claims : IsPlain(o.claims[i])  BY <2>3 DEF PlainClaims
  <2>7. DOMAIN o = FieldsOf("sts") /\ IsClaims(o.claims)  BY <2>2 DEF ObjectOK
  <2>5. AllFilled(live'.claims)
    BY <2>4, <2>6, <2>7, Filled
  <2> QED BY <2>5 DEF FilledInv
<1>1. CASE CreateResource
  BY <1>0, <1>1, <1>m DEF CreateResource, FilledInv
<1>2. CASE UpdateResource
  <2> DEFINE c == copyDesiredState("sts", desired, live)
  <2>1. CASE kind = "sts"
    <3>1. /\ desired \in Shapes["sts"] /\ "sts" \in ApplyKinds /\ ObjectOK("sts", live) /\ live # Absent
          /\ live' = live \/ live' = Stored("sts", live, c)
      <4>1. refused' \/ ~refused'  OBVIOUS
      <4>2. live # Absent  BY <1>2 DEF UpdateResource
      <4> QED BY <1>0, <1>2, <2>1, <4>1, <4>2, UpdateSetting
    <3>2. ObjectOK("sts", c) /\ c.claims = live.claims
      BY <3>1, CopyOK, CopiedSts, Handlers
    <3> HIDE DEF c
    <3>3. AllFilled(live.claims)  BY <2>1, <3>1 DEF FilledInv
    <3>4. \A i \in DOMAIN c.claims : IsPlain(c.claims[i])  BY <3>2, <3>3 DEF IsPlain, AllFilled
    <3>5. AllFilled(live'.claims)
      <4>1. CASE live' = live  BY <3>3, <4>1
      <4>2. CASE live' = Stored("sts", live, c)
        <5>1. DOMAIN c = FieldsOf("sts") /\ IsClaims(c.claims)  BY <3>2 DEF ObjectOK
        <5> QED BY <3>4, <4>2, <5>1, Filled
      <4> QED BY <3>1, <4>1, <4>2
    <3> QED BY <3>5 DEF FilledInv
  <2>2. CASE kind # "sts"
    BY <1>2, <2>2 DEF UpdateResource, FilledInv
  <2> QED BY <2>1, <2>2
<1>3. CASE RejectForeign
  BY <1>3 DEF RejectForeign, FilledInv
<1>4. CASE Reshape
  BY <1>4 DEF Reshape, FilledInv, ApplyInv
<1>5. CASE SquatObject
  BY <1>5, <1>m DEF SquatObject, FilledInv
<1>6. CASE StampObject
  <2>1. CASE kind = "sts"
    <3>1. ObjectOK("sts", live) /\ live # Absent  BY <1>6, <2>1 DEF StampObject, ApplyInv, LiveOK
    <3>2. (\E v : live' = [live EXCEPT !.annotations = v]) \/ \E v : live' = [live EXCEPT !.labels = v]
      BY <1>6, <2>1 DEF StampObject
    <3>3. live'.claims = live.claims  BY <3>1, <3>2, Fields DEF ObjectOK
    <3> QED BY <2>1, <3>1, <3>3 DEF FilledInv
  <2>2. CASE kind # "sts"
    BY <1>6, <2>2 DEF StampObject, FilledInv
  <2> QED BY <2>1, <2>2
<1>7. CASE NewConfig
  BY <1>7 DEF NewConfig, FilledInv
<1>8. CASE RestartPods
  <2>1. kind = "sts" /\ live # Absent /\ ObjectOK("sts", live)
    BY <1>8 DEF RestartPods, ApplyInv, LiveOK
  <2>2. \E v : live' = [live EXCEPT !.templateAnnotations = v]
    BY <1>8 DEF RestartPods
  <2>3. live'.claims = live.claims  BY <2>1, <2>2, Fields DEF ObjectOK
  <2> QED BY <2>1, <2>3 DEF FilledInv
<1>9. CASE UNCHANGED applyVars
  BY <1>9 DEF applyVars, FilledInv
<1> QED BY <1>1, <1>2, <1>3, <1>4, <1>5, <1>6, <1>7, <1>8, <1>9 DEF ApplyNext

\* The claim templates differ exactly when filling in the request does not give the
\* live ones.
LEMMA DifferExactly ==
  ASSUME NEW want, NEW have, IsClaims(want), IsClaims(have),
         \A i \in DOMAIN want : IsPlain(want[i]),
         AllFilled(have)
  PROVE  claimTemplatesDiffer(want, have) <=> have # [i \in DOMAIN want |-> ClaimFilled(want[i])]
<1> DEFINE filled == [i \in DOMAIN want |-> ClaimFilled(want[i])]
<1>1. /\ Len(want) \in Nat /\ Len(have) \in Nat
      /\ DOMAIN want = 1 .. Len(want) /\ DOMAIN have = 1 .. Len(have)
      /\ have = [i \in DOMAIN have |-> have[i]]
  BY DEF IsClaims, IsList
<1>2. CASE Len(want) # Len(have)
  <2>1. DOMAIN filled # DOMAIN have
    <3>1. CASE Len(want) < Len(have)
      <4>1. Len(have) \in 1 .. Len(have) /\ Len(have) \notin 1 .. Len(want)  BY <1>1, <3>1
      <4> QED BY <1>1, <4>1
    <3>2. CASE Len(have) < Len(want)
      <4>1. Len(want) \in 1 .. Len(want) /\ Len(want) \notin 1 .. Len(have)  BY <1>1, <3>2
      <4> QED BY <1>1, <4>1
    <3>3. Len(want) < Len(have) \/ Len(have) < Len(want)
      <4> DEFINE n == Len(want)
                 m == Len(have)
      <4>1. n \in Nat /\ m \in Nat /\ n # m  BY <1>1, <1>2
      <4> HIDE DEF n, m
      <4>2. n < m \/ m < n  BY <4>1
      <4> QED BY <4>2 DEF n, m
    <3> QED BY <3>1, <3>2, <3>3
  <2> QED BY <1>2, <2>1 DEF claimTemplatesDiffer
<1>3. CASE Len(want) = Len(have)
  <2>1. ASSUME NEW i \in DOMAIN want
        PROVE  want[i] = claimTemplateAsRequested(want[i], have[i]) <=> have[i] = ClaimFilled(want[i])
    BY <1>1, <1>3, AsRequested DEF IsClaims, IsList, AllFilled
  <2>2. have = filled <=> \A i \in DOMAIN want : have[i] = ClaimFilled(want[i])
    BY <1>1, <1>3
  <2> QED BY <1>3, <2>1, <2>2 DEF claimTemplatesDiffer
<1> QED BY <1>2, <1>3

\* The template of a live Job is filled in.
TemplateFilled(o) == o.template = [o.template EXCEPT !.defaulted = TRUE]
JobInv == kind = "job" /\ live # Absent => TemplateFilled(live)

LEMMA JobStored ==
  ASSUME NEW old, NEW new, DOMAIN new = FieldsOf("job")
  PROVE  TemplateFilled(Stored("job", old, new))
<1> DEFINE s == IF new.selector = "" THEN "generated" ELSE new.selector
           t == [new.template EXCEPT !.defaulted = TRUE]
           c == IF new.completions = 0 THEN 1 ELSE new.completions
<1>1. Stored("job", old, new) = [new EXCEPT !.selector = s, !.template = t, !.completions = c]
  BY DEF Stored
<1>2. t = [t EXCEPT !.defaulted = TRUE]  OBVIOUS
<1> HIDE DEF s, t, c
<1>3. [new EXCEPT !.selector = s, !.template = t, !.completions = c].template = t  BY Fields
<1> QED BY <1>1, <1>2, <1>3 DEF TemplateFilled

LEMMA JobStep ==
  ASSUME ApplyInv, JobInv, [ApplyNext]_applyVars
  PROVE  JobInv'
<1>0. ASSUME kind = "job"
      PROVE  "job" \in ApplyKinds /\ desired \in Shapes["job"]
  BY <1>0 DEF ApplyInv, ApplyKinds
\* What is made from a shape is filled in.
<1>m. ASSUME NEW d \in Shapes["job"], NEW who, kind = "job", kind' = kind,
             live' = Stored("job", Absent, [d EXCEPT !.owner = who])
      PROVE  JobInv'
  <2> DEFINE o == [d EXCEPT !.owner = who]
  <2>1. ObjectOK("job", o)  BY <1>0, <1>m, BuiltOK
  <2>2. live' = Stored("job", Absent, o)  BY <1>m
  <2> HIDE DEF o
  <2>3. DOMAIN o = FieldsOf("job")  BY <2>1 DEF ObjectOK
  <2>4. TemplateFilled(live')  BY <2>2, <2>3, JobStored
  <2> QED BY <2>4 DEF JobInv, TemplateFilled
<1>1. CASE CreateResource
  BY <1>0, <1>1, <1>m DEF CreateResource, JobInv
<1>2. CASE UpdateResource
  <2> DEFINE c == copyDesiredState("job", desired, live)
  <2>1. CASE kind = "job"
    <3>1. /\ desired \in Shapes["job"] /\ "job" \in ApplyKinds /\ ObjectOK("job", live) /\ live # Absent
          /\ live' = live \/ live' = Stored("job", live, c)
      <4>1. refused' \/ ~refused'  OBVIOUS
      <4>2. live # Absent  BY <1>2 DEF UpdateResource
      <4> QED BY <1>0, <1>2, <2>1, <4>1, <4>2, UpdateSetting
    <3>2. ObjectOK("job", c)  BY <3>1, CopyOK
    <3> HIDE DEF c
    <3>3. TemplateFilled(live)  BY <2>1, <3>1 DEF JobInv
    <3>4. TemplateFilled(live')
      <4>1. CASE live' = live  BY <3>3, <4>1 DEF TemplateFilled
      <4>2. CASE live' = Stored("job", live, c)
        <5>1. DOMAIN c = FieldsOf("job")  BY <3>2 DEF ObjectOK
        <5> QED BY <4>2, <5>1, JobStored
      <4> QED BY <3>1, <4>1, <4>2
    <3> QED BY <3>4 DEF JobInv, TemplateFilled
  <2>2. CASE kind # "job"
    BY <1>2, <2>2 DEF UpdateResource, JobInv
  <2> QED BY <2>1, <2>2
<1>3. CASE RejectForeign
  BY <1>3 DEF RejectForeign, JobInv, TemplateFilled
<1>4. CASE Reshape
  BY <1>4 DEF Reshape, JobInv, ApplyInv, TemplateFilled
<1>5. CASE SquatObject
  BY <1>5, <1>m DEF SquatObject, JobInv
<1>6. CASE StampObject
  <2>1. CASE kind = "job"
    <3>1. ObjectOK("job", live) /\ live # Absent  BY <1>6, <2>1 DEF StampObject, ApplyInv, LiveOK
    <3>2. (\E v : live' = [live EXCEPT !.annotations = v]) \/ \E v : live' = [live EXCEPT !.labels = v]
      BY <1>6, <2>1 DEF StampObject
    <3>3. live'.template = live.template  BY <3>1, <3>2, Fields DEF ObjectOK
    <3> QED BY <2>1, <3>1, <3>3 DEF JobInv, TemplateFilled
  <2>2. CASE kind # "job"
    BY <1>6, <2>2 DEF StampObject, JobInv
  <2> QED BY <2>1, <2>2
<1>7. CASE NewConfig \/ RestartPods
  BY <1>7 DEF NewConfig, RestartPods, JobInv
<1>9. CASE UNCHANGED applyVars
  BY <1>9 DEF applyVars, JobInv, TemplateFilled
<1> QED BY <1>1, <1>2, <1>3, <1>4, <1>5, <1>6, <1>7, <1>9 DEF ApplyNext

\* What a Job drops, it reports.
LEMMA JobReport ==
  ASSUME ApplyInv, JobInv, UpdateResource, kind = "job"
  PROVE  Dropped \subseteq ignored'
<1> DEFINE o == Stored("job", Absent, desired)
           s == IF desired.selector = "" THEN "generated" ELSE desired.selector
           t == [desired.template EXCEPT !.defaulted = TRUE]
           c == IF desired.completions = 0 THEN 1 ELSE desired.completions
<1>1. /\ DOMAIN desired = FieldsOf("job") /\ ignored' = Ignored("job", desired, live)
      /\ live.template = [live.template EXCEPT !.defaulted = TRUE]
  BY UpdateSetting, Handlers DEF UpdateResource, JobInv, TemplateFilled
<1>2. o = [desired EXCEPT !.selector = s, !.template = t, !.completions = c]  BY DEF Stored
<1>3. live.template # t => desired.template # live.template  BY <1>1
<1>4. desired.completions # 0 => c = desired.completions  OBVIOUS
<1> HIDE DEF o, s, t, c
<1>5. o.template = t /\ o.completions = c  BY <1>1, <1>2, Fields
<1>6. Immutable(kind) \ KeptSilently(kind) = {"template", "completions"}
  BY DEF Immutable, KeptSilently
<1>7. Stated("completions") <=> desired.completions # 0  BY DEF Stated
<1>8. Dropped = {f \in {"template", "completions"} : Stated(f) /\ live[f] # o[f]}
  BY <1>6 DEF Dropped, o
<1>9. ignored' = {f \in {"template"} : desired.template # live.template}
         \cup {f \in {"completions"} : desired.completions # 0 /\ desired.completions # live.completions}
  BY <1>1 DEF Ignored
<1>10. "template" \in Dropped => "template" \in ignored'  BY <1>3, <1>5, <1>8, <1>9
<1>11. "completions" \in Dropped => "completions" \in ignored'  BY <1>4, <1>5, <1>7, <1>8, <1>9
<1> QED BY <1>8, <1>10, <1>11

\* No dropped edit goes without ImmutableFieldIgnored, but for the fields that are
\* kept silently, and for a StatefulSet or a Service the event names nothing that
\* was not dropped, as long as handlers state no claim defaults of their own: one
\* that asked for another volume mode and then leaves the mode out is not reported,
\* since claimTemplateAsRequested takes the live mode for a default.
THEOREM ReportTruthful == PlainClaims => (ApplySpec => IgnoredIsTruthful)
<1>1. ASSUME PlainClaims, ApplyInv, FilledInv, UpdateResource, kind \in {"sts", "svc"}
      PROVE  ignored' = Dropped
  <2>1. /\ kind \in ApplyKinds /\ desired \in Shapes[kind] /\ ObjectOK(kind, live)
        /\ DOMAIN desired = FieldsOf(kind)
        /\ live # Absent /\ ignored' = Ignored(kind, desired, live)
    BY <1>1, UpdateSetting, Handlers DEF UpdateResource
  <2>2. CASE kind = "sts"
    <3> DEFINE o == Stored("sts", Absent, desired)
               cs == [i \in DOMAIN desired.claims |-> ClaimFilled(desired.claims[i])]
               p == IF desired.policy = "" THEN "ordered" ELSE desired.policy
    <3>1. o = [desired EXCEPT !.claims = cs, !.policy = p]
      BY DEF Stored
    <3>2. /\ IsClaims(desired.claims) /\ IsClaims(live.claims)
          /\ \A i \in DOMAIN desired.claims : IsPlain(desired.claims[i])
          /\ AllFilled(live.claims)
      BY <1>1, <2>1, <2>2, Handlers DEF ObjectOK, PlainClaims, FilledInv
    <3>3. claimTemplatesDiffer(desired.claims, live.claims) <=> live.claims # cs
      BY <3>2, DifferExactly
    <3>4. desired.policy # "" => p = desired.policy  OBVIOUS
    <3> HIDE DEF cs, p, o
    <3>5. o.selector = desired.selector /\ o.serviceName = desired.serviceName /\ o.claims = cs /\ o.policy = p
      BY <2>1, <2>2, <3>1, Fields
    <3>6. Immutable(kind) \ KeptSilently(kind) = {"selector", "serviceName", "claims", "policy"}
      BY <2>2 DEF Immutable, KeptSilently
    <3>7. /\ Stated("selector") <=> desired.selector # {}
          /\ Stated("serviceName") <=> desired.serviceName # ""
          /\ Stated("policy") <=> desired.policy # ""
          /\ Stated("claims")
      BY DEF Stated
    <3>8. ignored' = {f \in {"selector"} : desired.selector # {} /\ desired.selector # live.selector}
           \cup {f \in {"serviceName"} : desired.serviceName # "" /\ desired.serviceName # live.serviceName}
           \cup {f \in {"claims"} : claimTemplatesDiffer(desired.claims, live.claims)}
           \cup {f \in {"policy"} : desired.policy # "" /\ desired.policy # live.policy}
      BY <2>1, <2>2 DEF Ignored
    <3>9. ignored' = {f \in {"selector", "serviceName", "claims", "policy"} : Stated(f) /\ live[f] # o[f]}
      <4>2. "selector" \in ignored' <=> Stated("selector") /\ live.selector # o.selector
        <5>1. "selector" \in ignored' <=> desired.selector # {} /\ desired.selector # live.selector
          BY <3>3, <3>8
        <5> QED BY <3>5, <3>7, <5>1
      <4>3. "serviceName" \in ignored' <=> Stated("serviceName") /\ live.serviceName # o.serviceName
        <5>1. "serviceName" \in ignored' <=> desired.serviceName # "" /\ desired.serviceName # live.serviceName
          BY <3>3, <3>8
        <5> QED BY <3>5, <3>7, <5>1
      <4>4. "claims" \in ignored' <=> Stated("claims") /\ live.claims # o.claims
        <5>1. "claims" \in ignored' <=> live.claims # cs
          BY <3>3, <3>8
        <5> QED BY <3>5, <3>7, <5>1
      <4>5. "policy" \in ignored' <=> Stated("policy") /\ live.policy # o.policy
        <5>1. "policy" \in ignored' <=> desired.policy # "" /\ desired.policy # live.policy
          BY <3>3, <3>8
        <5> QED BY <3>4, <3>5, <3>7, <5>1
      <4>6. ignored' \subseteq {"selector", "serviceName", "claims", "policy"}
        BY <3>8
      <4> QED BY <4>2, <4>3, <4>4, <4>5, <4>6
    <3> QED BY <2>2, <3>6, <3>9 DEF o, Dropped
  <2>3. CASE kind = "svc"
    <3> DEFINE o == Stored("svc", Absent, desired)
               ip == IF desired.clusterIP = "" THEN "allocated" ELSE desired.clusterIP
    <3>1. \E lb, ps : o = [desired EXCEPT !.clusterIP = ip, !.loadBalancerClass = lb, !.ports = ps]
      BY DEF Stored
    <3>2. desired.clusterIP # "" => ip = desired.clusterIP  OBVIOUS
    <3> HIDE DEF o, ip
    <3>3. o.clusterIP = ip  BY <2>1, <2>3, <3>1, Fields
    <3>4. Immutable(kind) \ KeptSilently(kind) = {"clusterIP"}  BY <2>3 DEF Immutable, KeptSilently
    <3>5. Stated("clusterIP") <=> desired.clusterIP # ""  BY DEF Stated
    <3>6. ignored' = {f \in {"clusterIP"} : desired.clusterIP # "" /\ desired.clusterIP # live.clusterIP}
      BY <2>1, <2>3 DEF Ignored
    <3>7. ignored' = {f \in {"clusterIP"} : Stated(f) /\ live[f] # o[f]}
      BY <3>2, <3>3, <3>5, <3>6
    <3> QED BY <2>3, <3>4, <3>7 DEF o, Dropped
  <2> QED BY <1>1, <2>2, <2>3
<1> DEFINE Truthful == UpdateResource /\ kind \in {"sts", "svc", "job"} /\ live.owner = "cr" =>
             /\ Dropped \subseteq ignored'
             /\ kind # "job" => ignored' = Dropped
<1> SUFFICES ASSUME PlainClaims PROVE ApplySpec => IgnoredIsTruthful
  OBVIOUS
<1>2. ApplyInit => FilledInv
  BY DEF ApplyInit, FilledInv
<1>3. ApplyInv /\ FilledInv /\ [ApplyNext]_applyVars => FilledInv'
  BY FilledStep
<1>4. ApplyInit => JobInv
  BY DEF ApplyInit, JobInv
<1>5. ApplyInv /\ JobInv /\ [ApplyNext]_applyVars => JobInv'
  BY JobStep
<1>6. ApplyInv /\ FilledInv /\ JobInv /\ [ApplyNext]_applyVars => [Truthful]_applyVars
  BY <1>1, JobReport
<1> QED BY <1>2, <1>3, <1>4, <1>5, <1>6, ApplyInvariant, PTL DEF ApplySpec, IgnoredIsTruthful

=============================================================================
