--------------------------- MODULE GeneratedSecret ---------------------------
(***************************************************************************)
(* EnsureGeneratedSecret of pkg/reconciler/generated_secret.go: a Secret   *)
(* the values of which are generated once.  Several workers run it at the  *)
(* same time, as two leaders do while a lease changes hands, or as two     *)
(* controllers that share the Secret.  Reads come from the informer cache, *)
(* which may be behind; Create fails on an existing object and Update on   *)
(* one that has a newer resourceVersion.  The user deletes the Secret,     *)
(* removes keys from it, edits its labels and restores parts of it.        *)
(***************************************************************************)
EXTENDS Integers, FiniteSets

CONSTANTS
  SecretKeys,    \* the keys generators are registered for
  SecretWorkers, \* the reconcilers that ensure the Secret
  MaxTampers     \* bound on the user's interferences and on failed calls

VARIABLES
  secret,      \* the Secret at the API server
  rev,         \* the resourceVersion given out last
  secretCache, \* the Secret in the informer cache
  worker,      \* worker |-> the call of EnsureGeneratedSecret it is in
  ever,        \* key |-> the values it has had at the API server
  handed,      \* key |-> the values callers were given
  tampers      \* interferences so far

ASSUME SecretAssumption ==
  IsFiniteSet(SecretWorkers) /\ MaxTampers \in Nat

secretVars == <<secret, rev, secretCache, worker, ever, handed, tampers>>

NoValue == 0

NoSecret == [rv |-> 0, data |-> [k \in SecretKeys |-> NoValue], owner |-> "none",
             labels |-> "foreign", type |-> "none"]

Exists(obj)  == obj.rv # 0
Missing(obj) == {k \in SecretKeys : obj.data[k] = NoValue}

SecretInit ==
  /\ secret = NoSecret /\ secretCache = NoSecret /\ rev = 0
  /\ worker = [w \in SecretWorkers |-> [pc |-> "idle", read |-> NoSecret, obj |-> NoSecret]]
  /\ ever = [k \in SecretKeys |-> {}] /\ handed = [k \in SecretKeys |-> {}]
  /\ tampers = 0

-----------------------------------------------------------------------------
(* The mutate function of CreateOrUpdate.                                   *)

\* What a generator returns: a value no one has had, stored or in flight.
Generated(k) ==
  CHOOSE v \in 1 .. MaxTampers + Cardinality(SecretWorkers) + 2 :
    v \notin ever[k] \cup {worker[w].obj.data[k] : w \in SecretWorkers}

\* Mutant: the type is set on every write.
TypeAlways(obj) == "wanted"

\* Only absent keys are generated.
Fill(obj) == [k \in SecretKeys |-> IF k \in Missing(obj) THEN Generated(k) ELSE obj.data[k]]

\* The type is immutable, so only a Secret that is to be created gets one.
TypeFor(obj) == IF Exists(obj) THEN obj.type ELSE "wanted"

Mutated(obj) ==
  [obj EXCEPT !.data = Fill(obj), !.labels = "canonical", !.type = TypeFor(obj), !.owner = "cr"]

-----------------------------------------------------------------------------
(* The steps of a call.                                                     *)

Idle(w) == worker' = [worker EXCEPT ![w] = [pc |-> "idle", read |-> NoSecret, obj |-> NoSecret]]

\* The caller is given the values of obj.
HandOut(obj) ==
  handed' = [k \in SecretKeys |-> handed[k] \cup ({obj.data[k]} \ {NoValue})]

\* A call fails before it writes: a generator does, or the cache shows another
\* controller's reference on the Secret.
RejectSecret(w) ==
  /\ worker[w].pc = "idle"
  /\ UNCHANGED secretVars

\* The Get of CreateOrUpdate, from the cache, and the mutate function.
ReadSecret(w) ==
  /\ worker[w].pc = "idle"
  /\ secretCache.owner # "other"
  /\ worker' = [worker EXCEPT ![w] =
                  [pc |-> "write", read |-> secretCache, obj |-> Mutated(secretCache)]]
  /\ UNCHANGED <<secret, rev, secretCache, ever, handed, tampers>>

\* The object written becomes the current one.
Store(obj) ==
  /\ rev' = rev + 1
  /\ secret' = [obj EXCEPT !.rv = rev + 1]
  /\ ever' = [k \in SecretKeys |-> ever[k] \cup ({obj.data[k]} \ {NoValue})]

\* Create, when the cache knew of no Secret.  AlreadyExists leads to a re-read.
CreateSecret(w) ==
  /\ worker[w].pc = "write" /\ ~Exists(worker[w].read)
  /\ IF Exists(secret)
     THEN /\ worker' = [worker EXCEPT ![w].pc = "reread"]
          /\ UNCHANGED <<secret, rev, ever, handed>>
     ELSE Store(worker[w].obj) /\ HandOut(worker[w].obj) /\ Idle(w)
  /\ UNCHANGED <<secretCache, tampers>>

\* Update, unless nothing differs.  The API server refuses an object that is not
\* the current one, and a new type.
UpdateSecret(w) ==
  LET new == worker[w].obj  old == worker[w].read IN
  /\ worker[w].pc = "write" /\ Exists(old)
  /\ \/ new = old /\ HandOut(new) /\ UNCHANGED <<secret, rev, ever>>
     \/ /\ new # old /\ old = secret /\ new.type = old.type
        /\ Store(new) /\ HandOut(new)
     \/ /\ new # old /\ (old # secret \/ new.type # old.type)
        /\ UNCHANGED <<secret, rev, ever, handed>>
  /\ Idle(w)
  /\ UNCHANGED <<secretCache, tampers>>

\* Mutant: the values just generated are handed out although they were not stored.
HandOutOwn(w) ==
  /\ worker[w].pc = "reread"
  /\ HandOut(worker[w].obj)
  /\ Idle(w)
  /\ UNCHANGED <<secret, rev, secretCache, ever, tampers>>

\* The Get after AlreadyExists: whatever the cache has, or NotFound, which is an
\* error of the call.  Missing keys are not filled on this path.
ReReadSecret(w) ==
  /\ worker[w].pc = "reread"
  /\ IF Exists(secretCache) THEN HandOut(secretCache) ELSE UNCHANGED handed
  /\ Idle(w)
  /\ UNCHANGED <<secret, rev, secretCache, ever, tampers>>

\* A crash or a failed call: nothing was stored, or it was and the answer is lost.
FailCall(w) ==
  /\ worker[w].pc # "idle" /\ tampers < MaxTampers
  /\ tampers' = tampers + 1
  /\ \/ UNCHANGED <<secret, rev, ever>>
     \/ /\ worker[w].pc = "write"
        /\ worker[w].read = secret /\ worker[w].obj # worker[w].read
        /\ Store(worker[w].obj)
  /\ Idle(w)
  /\ UNCHANGED <<secretCache, handed>>

-----------------------------------------------------------------------------
(* The environment.                                                         *)

SyncSecret ==
  /\ secretCache # secret
  /\ secretCache' = secret
  /\ UNCHANGED <<secret, rev, worker, ever, handed, tampers>>

\* The user deletes the Secret, removes a key, edits the labels, or creates it
\* from a backup, of any age, of some of its keys, which may belong to another
\* controller.
TamperSecret ==
  /\ tampers < MaxTampers
  /\ tampers' = tampers + 1
  /\ \/ Exists(secret) /\ secret' = NoSecret /\ UNCHANGED rev
     \/ /\ Exists(secret)
        /\ rev' = rev + 1
        /\ \/ \E k \in SecretKeys \ Missing(secret) :
                secret' = [secret EXCEPT !.rv = rev + 1, !.data[k] = NoValue]
           \/ secret' = [secret EXCEPT !.rv = rev + 1, !.labels = "foreign"]
     \/ /\ ~Exists(secret)
        /\ rev' = rev + 1
        /\ \E data \in [SecretKeys -> {NoValue} \cup UNION {ever[k] : k \in SecretKeys}],
              owner \in {"none", "other"} :
             /\ \A k \in SecretKeys : data[k] \in ever[k] \cup {NoValue}
             /\ secret' = [rv |-> rev + 1, data |-> data, owner |-> owner,
                           labels |-> "foreign", type |-> "other"]
  /\ UNCHANGED <<secretCache, worker, ever, handed>>

SecretNext ==
  \/ \E w \in SecretWorkers :
       \/ ReadSecret(w) \/ CreateSecret(w) \/ UpdateSecret(w) \/ ReReadSecret(w)
       \/ RejectSecret(w) \/ FailCall(w)
  \/ SyncSecret
  \/ TamperSecret

\* The steps a worker goes through when its calls do not fail.
SecretCall(w) == ReadSecret(w) \/ CreateSecret(w) \/ UpdateSecret(w) \/ ReReadSecret(w)

\* The workers are called again on every pass, their generators do not fail for
\* ever, and the cache catches up.
SecretFairness ==
  /\ WF_secretVars(SyncSecret)
  /\ \A w \in SecretWorkers : WF_secretVars(SecretCall(w))

SecretSpec == SecretInit /\ [][SecretNext]_secretVars /\ SecretFairness

-----------------------------------------------------------------------------

Once == INSTANCE WriteOnce WITH OnceKeys <- SecretKeys, stored <- secret.data

\* EnsureGeneratedSecret promises values that are "generated once and then never
\* change": with stale caches, lost answers and concurrent creates, no step of a
\* worker replaces a stored value, and no caller is given one that was not stored.
ValuesWrittenOnce == Once!OnceSpec

\* A Secret that has lost a key gets it back, and a deleted one is created anew,
\* whatever type it was restored with, unless another controller owns it.
EventuallyFilled ==
  <>[]((\E k \in SecretKeys : ever[k] # {}) /\ secret.owner # "other" => Missing(secret) = {})
=============================================================================
