----------------------- MODULE RoleGroupBuildProofs -----------------------
(***************************************************************************)
(* Proofs about RoleGroupBuild, for any clusters, inputs and sidecars: the *)
(* image of one cluster never reaches another's pod, the mounts of the     *)
(* framework survive the overrides and the sidecars, and the log files of  *)
(* a workload reach its agent.  What one sidecar does to a pod is said     *)
(* once (InjectedTo); the invariant follows the pod of a build from the    *)
(* merge of the overrides through the sidecars that are left to inject.    *)
(***************************************************************************)
EXTENDS RoleGroupBuild, TLAPS

LogMount == <<LogPath, "log">>
Given(in) == {k.image : k \in allPodContainers(in.overrides)}

\* A pod template, and what may be said of every pod of a build of input in.
IsPod(pod) ==
  /\ pod = [containers |-> pod.containers, inits |-> pod.inits, volumes |-> pod.volumes,
            claims |-> pod.claims, replicas |-> pod.replicas]
  /\ \A n \in DOMAIN pod.containers : IsContainer(pod.containers[n])
  /\ \A n \in DOMAIN pod.inits : IsContainer(pod.inits[n])

IsImage(image, in) == image \in {NoImage, in.image, OwnImage} \cup Given(in)

ImagesOK(pod, in) ==
  /\ \A n \in DOMAIN pod.containers : IsImage(pod.containers[n].image, in)
  /\ \A n \in DOMAIN pod.inits : IsImage(pod.inits[n].image, in)

\* Where the volume of a mount is declared, and where the framework's are.
MountsDeclared(pod, in) ==
  /\ \A n \in DOMAIN pod.containers : \A m \in pod.containers[n].mounts :
       m[2] \in Declared(pod) \/ Unchecked(in, m)
  /\ \A n \in DOMAIN pod.inits : \A m \in pod.inits[n].mounts :
       m[2] \in Declared(pod) \/ Unchecked(in, m)

MainMounts(pod, in) ==
  in.decl.main \notin DOMAIN pod.inits =>
    /\ <<ConfigPath, "config">> \in pod.containers[in.decl.main].mounts
    /\ in.storage => \A d \in in.decl.data : <<d.path, ClaimName(d)>> \in pod.containers[in.decl.main].mounts

MountsOK(pod, c, in) ==
  /\ in.decl.main \in DOMAIN pod.containers
  /\ MainMounts(pod, in)
  /\ NamesVolume(in, "config") \/ <<"config", c>> \in pod.volumes
  /\ MountsDeclared(pod, in)
  /\ ~in.direct => pod.claims \cap reservedVolumeNames = {}

\* The log volume is mounted where logs are written, but for who asks for it.
LogMounts(pod) ==
  /\ \A n \in DOMAIN pod.containers : \A m \in pod.containers[n].mounts : m[2] = "log" => m[1] = LogPath
  /\ \A n \in DOMAIN pod.inits : \A m \in pod.inits[n].mounts : m[2] = "log" => m[1] = LogPath

\* Every producer shares the log volume.
LogsShared(pod, in) ==
  \A n \in Producers(in) :
    /\ n \in DOMAIN pod.containers \cup DOMAIN pod.inits
    /\ LogMount \in MountsOf(pod, n)

Plain(in) == ~in.direct /\ ~SidecarNamesTaken(in)

\* The agent is in the pod once it is injected, with what it needs.
LogsOK(pod, left, c, in) ==
  /\ "vector" \in DOMAIN pod.inits <=> AgentRuns(in) /\ "vector" \notin left
  /\ \A n \in left : n \notin DOMAIN pod.inits
  /\ ~LogVolumeElsewhere(in) => LogMounts(pod)
  /\ \/ "vector" \in DOMAIN pod.inits \/ NamesVolume(in, "vector-config")
     \/ \A v \in pod.volumes : v[1] # "vector-config"
  /\ "vector" \in DOMAIN pod.inits =>
       /\ NamesVolume(in, "vector-config") \/ <<"vector-config", c>> \in pod.volumes
       /\ LogMount \in pod.inits["vector"].mounts
       /\ ~LogVolumeElsewhere(in) => LogsShared(pod, in)

PodOK(pod, left, c, in) ==
  IsPod(pod) /\ ImagesOK(pod, in) /\ MountsOK(pod, c, in) /\ (Plain(in) => LogsOK(pod, left, c, in))

\* The manager of a build holds no image but its own cluster's.
ConfigOK(cfg, in) ==
  /\ cfg = [image |-> cfg.image, phase |-> cfg.phase, enabled |-> cfg.enabled]
  /\ cfg.image \in {NoImage, OwnImage, in.image} /\ cfg.enabled \in BOOLEAN

ManagerOK(manager, in) ==
  /\ \A n \in DOMAIN manager : ConfigOK(manager[n], in)
  /\ ~in.direct => DOMAIN manager = DOMAIN in.sidecars \cup (IF AgentRuns(in) THEN {"vector"} ELSE {})
  /\ Plain(in) /\ AgentRuns(in) => manager["vector"].enabled

Early(c) ==
  /\ build[c] = [at |-> build[c].at, in |-> build[c].in, ref |-> c]
  /\ build[c].at \in {"begun", "stamped"}

Late(c) ==
  /\ build[c] = [at |-> build[c].at, in |-> build[c].in, ref |-> c, pod |-> build[c].pod, left |-> build[c].left]
  /\ build[c].at \in {"injecting", "built", "configured"}
  /\ PodOK(build[c].pod, build[c].left, c, build[c].in)
  /\ build[c].left \subseteq DOMAIN managers[c]
  /\ build[c].at # "injecting" => build[c].left = {} /\ ~Imageless(build[c].pod)
  /\ build[c].at = "configured" => configMap[c] = buildConfigMap(build[c].in)

BuildOK(c) ==
  \/ build[c] = Idle
  \/ /\ build[c].in \in Inputs[c] /\ GatesOpen(build[c].in) /\ ManagerOK(managers[c], build[c].in)
     /\ Early(c) \/ Late(c)

\* An applied pod, in a ConfigMap of the same input.
WorkloadOK(pod, c, in) ==
  /\ ImagesOK(pod, in) /\ ~Imageless(pod)
  /\ Plain(in) =>
       /\ DOMAIN pod.containers \cap DOMAIN pod.inits = {}
       /\ LogsOK(pod, {}, c, in)
       /\ AgentRuns(in) => "vector.yaml" \in buildConfigMap(in).keys
       /\ ValidateProducers(in.decl.producers)

BuildTypes ==
  /\ DOMAIN input = Clusters /\ \A c \in Clusters : input[c] \in Inputs[c]
  /\ DOMAIN managers = Clusters \cup {Handler} /\ managers[Handler] = HandlerSidecars
  /\ DOMAIN build = Clusters /\ DOMAIN configMap = Clusters /\ DOMAIN workload = Clusters

ConfigMapOK(c) == configMap[c] = Nowhere \/ configMap[c] = buildConfigMap(configMap[c].in)

AppliedOK(c) ==
  \/ workload[c] = Nowhere
  \/ workload[c].exists /\ WorkloadOK(workload[c].pod, c, workload[c].in)

BuildInv ==
  BuildTypes /\ \A c \in Clusters : BuildOK(c) /\ ConfigMapOK(c) /\ AppliedOK(c)

-----------------------------------------------------------------------------
(* What the sidecars do to a pod.                                           *)

\* Pod q is pod with an init container n by configuration cfg: nothing that
\* was there goes but a container of that name, log mounts and volumes come.
InjectedTo(q, n, pod, cfg, c, in) ==
  /\ IsPod(q)
  /\ DOMAIN q.containers = DOMAIN pod.containers
  /\ DOMAIN q.inits = DOMAIN pod.inits \cup {n}
  /\ q.claims = pod.claims /\ pod.volumes \subseteq q.volumes
  /\ \A k \in DOMAIN pod.containers :
       /\ q.containers[k].image = pod.containers[k].image
       /\ pod.containers[k].mounts \subseteq q.containers[k].mounts
       /\ q.containers[k].mounts \subseteq pod.containers[k].mounts \cup {LogMount}
  /\ \A k \in DOMAIN pod.inits \ {n} :
       /\ q.inits[k].image = pod.inits[k].image
       /\ pod.inits[k].mounts \subseteq q.inits[k].mounts
       /\ q.inits[k].mounts \subseteq pod.inits[k].mounts \cup {LogMount}
  /\ q.inits[n].image \in {cfg.image, OwnImage}
  /\ \A m \in q.inits[n].mounts : m[2] \in Declared(q) /\ (m[2] = "log" => m[1] = LogPath)

\* Only the agent shares the log volume.
QuietlyInjected(q, n, pod) ==
  /\ q.containers = pod.containers
  /\ \A v \in q.volumes \ pod.volumes : v[1] # "vector-config"
  /\ \A k \in DOMAIN pod.inits \ {n} : q.inits[k] = pod.inits[k]

AgentInjected(q, pod, c, in) ==
  /\ "log" \in Declared(q)
  /\ LogMount \in q.inits["vector"].mounts
  /\ (\E v \in pod.volumes : v[1] = "vector-config") \/ <<"vector-config", c>> \in q.volumes
  /\ q.volumes \subseteq pod.volumes \cup VectorVolumes(c)
  /\ \A k \in Producers(in) \cap DOMAIN pod.containers :
       LogMount \in q.containers[k].mounts \/ \E m \in pod.containers[k].mounts : m[2] = "log"
  /\ \A k \in (Producers(in) \cap DOMAIN pod.inits) \ {"vector"} :
       LogMount \in q.inits[k].mounts \/ \E m \in pod.inits[k].mounts : m[2] = "log"

LEMMA ContainerFields ==
  ASSUME NEW image, NEW mounts
  PROVE  /\ Container(image, mounts).image = image /\ Container(image, mounts).mounts = mounts
         /\ (\A m \in mounts : IsMount(m)) => IsContainer(Container(image, mounts))
BY DEF Container, IsContainer

LEMMA MountPair == ASSUME NEW a, NEW b PROVE IsMount(<<a, b>>) /\ <<a, b>>[1] = a /\ <<a, b>>[2] = b
BY DEF IsMount

\* AddOrReplaceInitContainer changes one init container.
LEMMA AddedInit ==
  ASSUME NEW pod, IsPod(pod), NEW n, NEW k, IsContainer(k)
  PROVE  LET q == AddOrReplaceInitContainer(pod, n, k)
         IN /\ IsPod(q) /\ q.containers = pod.containers /\ q.volumes = pod.volumes /\ q.claims = pod.claims
            /\ DOMAIN q.inits = DOMAIN pod.inits \cup {n} /\ q.inits[n] = k
            /\ \A j \in DOMAIN pod.inits \ {n} : q.inits[j] = pod.inits[j]
<1> DEFINE q == AddOrReplaceInitContainer(pod, n, k)
           inits == [j \in DOMAIN pod.inits \cup {n} |-> IF j = n THEN k ELSE pod.inits[j]]
<1>1. q = [containers |-> pod.containers, inits |-> inits, volumes |-> pod.volumes,
           claims |-> pod.claims, replicas |-> pod.replicas]
  BY DEF AddOrReplaceInitContainer, IsPod
<1>2. \A j \in DOMAIN inits : IsContainer(inits[j])
  BY DEF IsPod
<1> QED BY <1>1, <1>2 DEF IsPod

\* AddVolumes only adds, and every volume it is given is declared then.
LEMMA AddedVolumes ==
  ASSUME NEW pod, IsPod(pod), NEW volumes
  PROVE  LET q == AddVolumes(pod, volumes)
         IN /\ IsPod(q) /\ q.containers = pod.containers /\ q.inits = pod.inits /\ q.claims = pod.claims
            /\ pod.volumes \subseteq q.volumes /\ q.volumes \subseteq pod.volumes \cup volumes
            /\ \A v \in volumes : v \in q.volumes \/ \E o \in pod.volumes : o[1] = v[1]
            /\ \A v \in volumes : v[1] \in Declared(q)
<1> DEFINE q == AddVolumes(pod, volumes)
           vs == pod.volumes \cup {v \in volumes : \A o \in pod.volumes : o[1] # v[1]}
<1>1. q = [containers |-> pod.containers, inits |-> pod.inits, volumes |-> vs,
           claims |-> pod.claims, replicas |-> pod.replicas]
  BY DEF AddVolumes, IsPod
<1>2. \A v \in volumes : v \in vs \/ \E o \in pod.volumes : o[1] = v[1]
  OBVIOUS
<1>3. \A v \in volumes : v[1] \in {o[1] : o \in vs}
  BY <1>2
<1> QED BY <1>1, <1>2, <1>3 DEF IsPod, Declared

\* A container that gets the log volume has it then, or has mounted it already.
LEMMA AddedLog ==
  ASSUME NEW k, IsContainer(k)
  PROVE  LET q == AddVolumeMounts(k, {LogMount})
         IN /\ IsContainer(q) /\ q.image = k.image /\ k.mounts \subseteq q.mounts
            /\ q.mounts \subseteq k.mounts \cup {LogMount}
            /\ LogMount \in q.mounts \/ \E m \in k.mounts : m[2] = "log"
<1> DEFINE ms == k.mounts \cup {m \in {LogMount} : \A o \in k.mounts : o[2] # m[2]}
<1>1. AddVolumeMounts(k, {LogMount}) = Container(k.image, ms)
  <2>1. AddVolumeMounts(k, {LogMount}) = [k EXCEPT !.mounts = ms]
    BY Zenon DEF AddVolumeMounts
  <2>2. k = [image |-> k.image, mounts |-> k.mounts]
    BY DEF IsContainer, Container
  <2> HIDE DEF ms
  <2> QED BY <2>1, <2>2 DEF Container
<1>2. IsMount(LogMount) /\ LogMount[2] = "log"
  BY MountPair DEF LogMount
<1>3. \A m \in ms : IsMount(m)
  BY <1>2 DEF IsContainer
<1>4. LogMount \in ms \/ \E m \in k.mounts : m[2] = "log"
  BY <1>2
<1>5. k.mounts \subseteq ms /\ ms \subseteq k.mounts \cup {LogMount}
  OBVIOUS
<1>6. Container(k.image, ms).image = k.image /\ Container(k.image, ms).mounts = ms
  BY DEF Container
<1>7. IsContainer(Container(k.image, ms))
  BY <1>3, <1>6 DEF IsContainer
<1> HIDE DEF ms
<1> QED BY <1>1, <1>4, <1>5, <1>6, <1>7

\* Every producer of logs among the containers shares the log volume.
LEMMA SharedLogs ==
  ASSUME NEW pod, IsPod(pod), NEW producers
  PROVE  LET q == ShareLogs(pod, producers)
         IN /\ IsPod(q) /\ q.volumes = pod.volumes /\ q.claims = pod.claims
            /\ DOMAIN q.containers = DOMAIN pod.containers /\ DOMAIN q.inits = DOMAIN pod.inits
            /\ \A k \in DOMAIN pod.containers :
                 /\ q.containers[k].image = pod.containers[k].image
                 /\ pod.containers[k].mounts \subseteq q.containers[k].mounts
                 /\ q.containers[k].mounts \subseteq pod.containers[k].mounts \cup {LogMount}
                 /\ k \in producers => LogMount \in q.containers[k].mounts
                                       \/ \E m \in pod.containers[k].mounts : m[2] = "log"
            /\ \A k \in DOMAIN pod.inits :
                 /\ q.inits[k].image = pod.inits[k].image
                 /\ pod.inits[k].mounts \subseteq q.inits[k].mounts
                 /\ q.inits[k].mounts \subseteq pod.inits[k].mounts \cup {LogMount}
                 /\ k \in producers => LogMount \in q.inits[k].mounts
                                       \/ \E m \in pod.inits[k].mounts : m[2] = "log"
<1> DEFINE logs(containers) ==
             [n \in DOMAIN containers |-> IF n \in producers
                                          THEN AddVolumeMounts(containers[n], {LogMount}) ELSE containers[n]]
           cs == logs(pod.containers)
           is == logs(pod.inits)
           q == ShareLogs(pod, producers)
<1>1. q = [containers |-> cs, inits |-> is, volumes |-> pod.volumes,
           claims |-> pod.claims, replicas |-> pod.replicas]
  <2>1. q = [pod EXCEPT !.containers = cs, !.inits = is]
    BY Zenon DEF ShareLogs, LogMount
  <2> HIDE DEF cs, is
  <2> QED BY <2>1 DEF IsPod
<1>2. DOMAIN cs = DOMAIN pod.containers /\ DOMAIN is = DOMAIN pod.inits
  OBVIOUS
<1>3. ASSUME NEW k \in DOMAIN pod.containers
      PROVE  /\ IsContainer(cs[k]) /\ cs[k].image = pod.containers[k].image
             /\ pod.containers[k].mounts \subseteq cs[k].mounts
             /\ cs[k].mounts \subseteq pod.containers[k].mounts \cup {LogMount}
             /\ k \in producers => LogMount \in cs[k].mounts \/ \E m \in pod.containers[k].mounts : m[2] = "log"
  <2>1. IsContainer(pod.containers[k])
    BY DEF IsPod
  <2>2. CASE k \in producers
    <3>1. cs[k] = AddVolumeMounts(pod.containers[k], {LogMount})
      BY <2>2
    <3> HIDE DEF cs
    <3> QED BY <2>1, <2>2, <3>1, AddedLog
  <2>3. CASE k \notin producers
    BY <2>1, <2>3
  <2> QED BY <2>2, <2>3
<1>4. ASSUME NEW k \in DOMAIN pod.inits
      PROVE  /\ IsContainer(is[k]) /\ is[k].image = pod.inits[k].image
             /\ pod.inits[k].mounts \subseteq is[k].mounts
             /\ is[k].mounts \subseteq pod.inits[k].mounts \cup {LogMount}
             /\ k \in producers => LogMount \in is[k].mounts \/ \E m \in pod.inits[k].mounts : m[2] = "log"
  <2>1. IsContainer(pod.inits[k])
    BY DEF IsPod
  <2>2. CASE k \in producers
    <3>1. is[k] = AddVolumeMounts(pod.inits[k], {LogMount})
      BY <2>2
    <3> HIDE DEF is
    <3> QED BY <2>1, <2>2, <3>1, AddedLog
  <2>3. CASE k \notin producers
    BY <2>1, <2>3
  <2> QED BY <2>2, <2>3
<1> HIDE DEF cs, is
<1>5. q.containers = cs /\ q.inits = is /\ q.volumes = pod.volumes /\ q.claims = pod.claims
      /\ q.replicas = pod.replicas
  BY <1>1
<1>6. IsPod(q)
  BY <1>1, <1>2, <1>3, <1>4, <1>5 DEF IsPod
<1> QED BY <1>2, <1>3, <1>4, <1>5, <1>6

\* A container of its own, with a volume for each of its mounts.
LEMMA QuietInjection ==
  ASSUME NEW pod, IsPod(pod), NEW n, NEW cfg, NEW c, NEW in, NEW k, IsContainer(k), NEW volumes,
         k.image \in {cfg.image, OwnImage},
         \A m \in k.mounts : m[2] # "log" /\ \E v \in volumes : v[1] = m[2],
         \A v \in volumes : v[1] # "vector-config"
  PROVE  LET q == AddVolumes(AddOrReplaceInitContainer(pod, n, k), volumes)
         IN InjectedTo(q, n, pod, cfg, c, in) /\ QuietlyInjected(q, n, pod)
<1> DEFINE p == AddOrReplaceInitContainer(pod, n, k)
           q == AddVolumes(p, volumes)
<1>1. /\ IsPod(p) /\ p.containers = pod.containers /\ p.volumes = pod.volumes /\ p.claims = pod.claims
      /\ DOMAIN p.inits = DOMAIN pod.inits \cup {n} /\ p.inits[n] = k
      /\ \A j \in DOMAIN pod.inits \ {n} : p.inits[j] = pod.inits[j]
  BY AddedInit
<1> HIDE DEF p
<1>2. /\ IsPod(q) /\ q.containers = p.containers /\ q.inits = p.inits /\ q.claims = p.claims
      /\ p.volumes \subseteq q.volumes /\ q.volumes \subseteq p.volumes \cup volumes
      /\ \A v \in volumes : v[1] \in Declared(q)
  BY <1>1, AddedVolumes
<1> HIDE DEF q
<1>3. \A m \in q.inits[n].mounts : m[2] \in Declared(q) /\ m[2] # "log"
  BY <1>1, <1>2
<1>4. InjectedTo(q, n, pod, cfg, c, in)
  BY <1>1, <1>2, <1>3 DEF InjectedTo
<1>5. QuietlyInjected(q, n, pod)
  BY <1>1, <1>2 DEF QuietlyInjected
<1> QED BY <1>4, <1>5 DEF q, p

LEMMA NothingAdded == ASSUME NEW pod, IsPod(pod) PROVE AddVolumes(pod, {}) = pod
<1>1. AddVolumes(pod, {}) = [pod EXCEPT !.volumes = pod.volumes]
  <2>1. pod.volumes \cup {v \in {} : \A o \in pod.volumes : o[1] # v[1]} = pod.volumes
    OBVIOUS
  <2> QED BY <2>1 DEF AddVolumes
<1> QED BY <1>1 DEF IsPod

\* The agent, its volumes, and the log volume for the producers.
LEMMA AgentInjection ==
  ASSUME NEW pod, IsPod(pod), NEW cfg, NEW c, NEW in
  PROVE  LET q == InjectVector(pod, cfg, c, Producers(in))
         IN InjectedTo(q, "vector", pod, cfg, c, in) /\ AgentInjected(q, pod, c, in)
<1> DEFINE k == VectorAgent(cfg)
           p == AddOrReplaceInitContainer(pod, "vector", k)
           r == AddVolumes(p, VectorVolumes(c))
           q == ShareLogs(r, Producers(in))
<1>1. /\ IsContainer(k) /\ k.image = cfg.image
      /\ k.mounts = {<<"/etc/vector", "vector-config">>, <<"/var", "vector-data">>, LogMount}
  <2>1. \A m \in {<<"/etc/vector", "vector-config">>, <<"/var", "vector-data">>, LogMount} : IsMount(m)
    BY DEF IsMount, LogMount
  <2> QED BY <2>1, ContainerFields DEF VectorAgent, LogMount
<1> HIDE DEF k
<1>2. /\ IsPod(p) /\ p.containers = pod.containers /\ p.volumes = pod.volumes /\ p.claims = pod.claims
      /\ DOMAIN p.inits = DOMAIN pod.inits \cup {"vector"} /\ p.inits["vector"] = k
      /\ \A j \in DOMAIN pod.inits \ {"vector"} : p.inits[j] = pod.inits[j]
  BY <1>1, AddedInit
<1> HIDE DEF p
<1>3. /\ IsPod(r) /\ r.containers = p.containers /\ r.inits = p.inits /\ r.claims = p.claims
      /\ p.volumes \subseteq r.volumes /\ r.volumes \subseteq p.volumes \cup VectorVolumes(c)
      /\ \A v \in VectorVolumes(c) : v \in r.volumes \/ \E o \in p.volumes : o[1] = v[1]
      /\ \A v \in VectorVolumes(c) : v[1] \in Declared(r)
  BY <1>2, AddedVolumes
<1> HIDE DEF r
<1>4. /\ IsPod(q) /\ q.volumes = r.volumes /\ q.claims = r.claims
      /\ DOMAIN q.containers = DOMAIN r.containers /\ DOMAIN q.inits = DOMAIN r.inits
  BY <1>3, SharedLogs
<1>5. \A j \in DOMAIN r.containers :
        /\ q.containers[j].image = r.containers[j].image
        /\ r.containers[j].mounts \subseteq q.containers[j].mounts
        /\ q.containers[j].mounts \subseteq r.containers[j].mounts \cup {LogMount}
        /\ j \in Producers(in) => LogMount \in q.containers[j].mounts
                                  \/ \E m \in r.containers[j].mounts : m[2] = "log"
  BY <1>3, SharedLogs
<1>6. \A j \in DOMAIN r.inits :
        /\ q.inits[j].image = r.inits[j].image
        /\ r.inits[j].mounts \subseteq q.inits[j].mounts
        /\ q.inits[j].mounts \subseteq r.inits[j].mounts \cup {LogMount}
        /\ j \in Producers(in) => LogMount \in q.inits[j].mounts
                                  \/ \E m \in r.inits[j].mounts : m[2] = "log"
  BY <1>3, SharedLogs
<1> HIDE DEF q
<1>7. Declared(q) = Declared(r)
  BY <1>4 DEF Declared
<1>8. {"vector-config", "vector-data", "log"} \subseteq Declared(q)
  <2>1. <<"vector-config", c>> \in VectorVolumes(c) /\ <<"vector-data", "empty">> \in VectorVolumes(c)
        /\ <<"log", "empty">> \in VectorVolumes(c)
    BY DEF VectorVolumes
  <2> QED BY <1>3, <1>7, <2>1
<1>9. q.inits["vector"].mounts = {<<"/etc/vector", "vector-config">>, <<"/var", "vector-data">>, LogMount}
  BY <1>1, <1>2, <1>3, <1>6
<1>10. LogMount[1] = LogPath /\ LogMount[2] = "log"
  BY DEF LogMount
<1>11. \A m \in q.inits["vector"].mounts : m[2] \in Declared(q) /\ (m[2] = "log" => m[1] = LogPath)
  BY <1>8, <1>9, <1>10
<1>12. InjectedTo(q, "vector", pod, cfg, c, in)
  BY <1>1, <1>2, <1>3, <1>4, <1>5, <1>6, <1>11 DEF InjectedTo
<1>13. (\E v \in pod.volumes : v[1] = "vector-config") \/ <<"vector-config", c>> \in q.volumes
  <2>1. <<"vector-config", c>> \in VectorVolumes(c)
    BY DEF VectorVolumes
  <2> QED BY <1>2, <1>3, <1>4, <2>1
<1>14. AgentInjected(q, pod, c, in)
  BY <1>2, <1>3, <1>4, <1>5, <1>6, <1>8, <1>9, <1>13 DEF AgentInjected
<1> QED BY <1>12, <1>14 DEF q, r, p, k, InjectVector, WithAgent

\* What one turn of InjectAll does.
LEMMA Injection ==
  ASSUME NEW pod, IsPod(pod), NEW n, NEW cfg, NEW c, NEW in
  PROVE  LET q == Inject(n, pod, cfg, c, in)
         IN /\ InjectedTo(q, n, pod, cfg, c, in)
            /\ IF n = "vector" THEN AgentInjected(q, pod, c, in) ELSE QuietlyInjected(q, n, pod)
<1>1. CASE n = "vector"
  <2>1. Inject(n, pod, cfg, c, in) = InjectVector(pod, cfg, c, Producers(in))
    BY <1>1 DEF Inject
  <2> QED BY <1>1, <2>1, AgentInjection
<1>2. CASE n = "jmx-exporter"
  <2> DEFINE k == Container(cfg.image, {<<"/config/jmx-exporter", "jmx-exporter-config">>})
             vs == {<<"jmx-exporter-config", "jmx-exporter-config">>}
  <2>1. Inject(n, pod, cfg, c, in) = AddVolumes(AddOrReplaceInitContainer(pod, n, k), vs)
    BY <1>2 DEF Inject, InjectJMX
  <2>2. IsContainer(k) /\ k.image = cfg.image
    BY ContainerFields, MountPair
  <2>3. /\ \A m \in k.mounts : m[2] # "log" /\ \E v \in vs : v[1] = m[2]
        /\ \A v \in vs : v[1] # "vector-config"
    BY ContainerFields
  <2> HIDE DEF k, vs
  <2> DEFINE q == AddVolumes(AddOrReplaceInitContainer(pod, n, k), vs)
  <2>4. InjectedTo(q, n, pod, cfg, c, in) /\ QuietlyInjected(q, n, pod)
    BY <2>2, <2>3, QuietInjection
  <2> QED BY <1>2, <2>1, <2>4
<1>3. ASSUME NEW k, IsContainer(k), k.image \in {cfg.image, OwnImage}, k.mounts = {},
             n # "vector", Inject(n, pod, cfg, c, in) = AddOrReplaceInitContainer(pod, n, k)
      PROVE  LET q == Inject(n, pod, cfg, c, in)
             IN InjectedTo(q, n, pod, cfg, c, in) /\ QuietlyInjected(q, n, pod)
  <2> DEFINE p == AddOrReplaceInitContainer(pod, n, k)
  <2>1. IsPod(p)
    BY <1>3, AddedInit
  <2>2. AddVolumes(p, {}) = p
    BY <2>1, NothingAdded
  <2>3. InjectedTo(AddVolumes(p, {}), n, pod, cfg, c, in) /\ QuietlyInjected(AddVolumes(p, {}), n, pod)
    BY <1>3, QuietInjection
  <2> QED BY <1>3, <2>2, <2>3
<1>4. CASE n = "oauth2-proxy"
  <2> DEFINE k == Container(IF cfg.image = NoImage THEN OwnImage ELSE cfg.image, {})
  <2>1. Inject(n, pod, cfg, c, in) = AddOrReplaceInitContainer(pod, n, k)
    BY <1>4 DEF Inject, InjectOAuth2
  <2>2. IsContainer(k) /\ k.image \in {cfg.image, OwnImage} /\ k.mounts = {}
    BY ContainerFields
  <2> HIDE DEF k
  <2> QED BY <1>3, <1>4, <2>1, <2>2
<1>5. CASE n \notin {"vector", "jmx-exporter", "oauth2-proxy"}
  <2> DEFINE k == Container(OwnImage, {})
  <2>1. Inject(n, pod, cfg, c, in) = AddOrReplaceInitContainer(pod, n, k)
    BY <1>5 DEF Inject, InjectStatic
  <2>2. IsContainer(k) /\ k.image = OwnImage /\ k.mounts = {}
    BY ContainerFields
  <2> HIDE DEF k
  <2> QED BY <1>3, <1>5, <2>1, <2>2
<1> QED BY <1>1, <1>2, <1>4, <1>5

-----------------------------------------------------------------------------
(* A sidecar keeps what may be said of the pod.                             *)

\* Sidecar n goes into pod, which is q then.
Turn(q, n, pod, left, cfg, c, in) ==
  /\ PodOK(pod, left, c, in) /\ ConfigOK(cfg, in)
  /\ InjectedTo(q, n, pod, cfg, c, in)
  /\ IF n = "vector" THEN AgentInjected(q, pod, c, in) ELSE QuietlyInjected(q, n, pod)
  /\ n \in left
  /\ n = "vector" => /\ Plain(in) => AgentRuns(in)
                     /\ Producers(in) \subseteq DOMAIN pod.containers \cup DOMAIN pod.inits \cup {"vector"}

LEMMA TurnImages ==
  ASSUME NEW q, NEW n, NEW pod, NEW left, NEW cfg, NEW c, NEW in, Turn(q, n, pod, left, cfg, c, in)
  PROVE  ImagesOK(q, in)
<1>1. \A k \in DOMAIN q.containers : IsImage(q.containers[k].image, in)
  BY DEF Turn, PodOK, InjectedTo, ImagesOK
<1>2. IsImage(q.inits[n].image, in)
  BY DEF Turn, InjectedTo, IsImage, ConfigOK
<1>3. \A k \in DOMAIN q.inits \ {n} : IsImage(q.inits[k].image, in)
  BY DEF Turn, PodOK, InjectedTo, ImagesOK
<1> QED BY <1>1, <1>2, <1>3 DEF ImagesOK

LEMMA TurnMounts ==
  ASSUME NEW q, NEW n, NEW pod, NEW left, NEW cfg, NEW c, NEW in, Turn(q, n, pod, left, cfg, c, in)
  PROVE  MountsOK(q, c, in)
<1>1. /\ MountsOK(pod, c, in) /\ InjectedTo(q, n, pod, cfg, c, in)
      /\ IF n = "vector" THEN AgentInjected(q, pod, c, in) ELSE QuietlyInjected(q, n, pod)
  BY DEF Turn, PodOK
<1>2. Declared(pod) \subseteq Declared(q)
  BY <1>1 DEF InjectedTo, Declared
<1>3. "log" \in Declared(q) \/ QuietlyInjected(q, n, pod)
  BY <1>1 DEF AgentInjected
<1>4. LogMount[2] = "log"
  BY DEF LogMount
<1>5. ASSUME NEW k \in DOMAIN pod.containers, NEW m \in q.containers[k].mounts
      PROVE  m[2] \in Declared(q) \/ Unchecked(in, m)
  <2>1. m \in pod.containers[k].mounts \/ (m = LogMount /\ "log" \in Declared(q))
    BY <1>1, <1>3, <1>5 DEF InjectedTo, QuietlyInjected
  <2> QED BY <1>1, <1>2, <1>4, <2>1 DEF MountsOK, MountsDeclared
<1>6. ASSUME NEW k \in DOMAIN pod.inits \ {n}, NEW m \in q.inits[k].mounts
      PROVE  m[2] \in Declared(q) \/ Unchecked(in, m)
  <2>1. m \in pod.inits[k].mounts \/ (m = LogMount /\ "log" \in Declared(q))
    BY <1>1, <1>3, <1>6 DEF InjectedTo, QuietlyInjected
  <2> QED BY <1>1, <1>2, <1>4, <2>1 DEF MountsOK, MountsDeclared
<1>7. MountsDeclared(q, in)
  BY <1>1, <1>5, <1>6 DEF MountsDeclared, InjectedTo
<1>8. MainMounts(q, in)
  BY <1>1 DEF MainMounts, MountsOK, InjectedTo
<1> QED BY <1>1, <1>7, <1>8 DEF MountsOK, InjectedTo

\* No container shares less than before, and the agent's turn has them share.
LEMMA TurnLogMounts ==
  ASSUME NEW q, NEW n, NEW pod, NEW left, NEW cfg, NEW c, NEW in, Turn(q, n, pod, left, cfg, c, in),
         LogMounts(pod)
  PROVE  LogMounts(q)
<1>1. LogMount[1] = LogPath
  BY DEF LogMount
<1>2. \A k \in DOMAIN q.containers : \A m \in q.containers[k].mounts : m[2] = "log" => m[1] = LogPath
  BY <1>1 DEF Turn, InjectedTo, LogMounts
<1>3. \A m \in q.inits[n].mounts : m[2] = "log" => m[1] = LogPath
  BY DEF Turn, InjectedTo
<1>4. \A k \in DOMAIN q.inits \ {n} : \A m \in q.inits[k].mounts : m[2] = "log" => m[1] = LogPath
  BY <1>1 DEF Turn, InjectedTo, LogMounts
<1> QED BY <1>2, <1>3, <1>4 DEF LogMounts

\* A mount of the log volume in its place is the one the agent shares.
LEMMA LogMountPlaced ==
  ASSUME NEW pod, IsPod(pod), LogMounts(pod)
  PROVE  /\ \A k \in DOMAIN pod.containers : \A m \in pod.containers[k].mounts : m[2] = "log" => m = LogMount
         /\ \A k \in DOMAIN pod.inits : \A m \in pod.inits[k].mounts : m[2] = "log" => m = LogMount
<1>1. \A k \in DOMAIN pod.containers : \A m \in pod.containers[k].mounts : m = <<m[1], m[2]>>
  BY DEF IsPod, IsContainer, IsMount
<1>2. \A k \in DOMAIN pod.inits : \A m \in pod.inits[k].mounts : m = <<m[1], m[2]>>
  BY DEF IsPod, IsContainer, IsMount
<1> QED BY <1>1, <1>2 DEF LogMounts, LogMount

LEMMA AgentTurnShares ==
  ASSUME NEW q, NEW pod, NEW left, NEW cfg, NEW c, NEW in, Turn(q, "vector", pod, left, cfg, c, in),
         LogMounts(pod)
  PROVE  LogsShared(q, in)
<1>1. IsPod(pod) /\ AgentInjected(q, pod, c, in) /\ InjectedTo(q, "vector", pod, cfg, c, in)
      /\ Producers(in) \subseteq DOMAIN pod.containers \cup DOMAIN pod.inits \cup {"vector"}
  BY DEF Turn, PodOK
<1> SUFFICES ASSUME NEW k \in Producers(in)
             PROVE  k \in DOMAIN q.containers \cup DOMAIN q.inits /\ LogMount \in MountsOf(q, k)
  BY DEF LogsShared
<1>2. k \in DOMAIN q.containers \cup DOMAIN q.inits
  BY <1>1 DEF InjectedTo
<1>3. CASE k \in DOMAIN q.containers
  <2>1. k \in DOMAIN pod.containers
    BY <1>1, <1>3 DEF InjectedTo
  <2>2. LogMount \in q.containers[k].mounts \/ \E m \in pod.containers[k].mounts : m[2] = "log"
    BY <1>1, <2>1 DEF AgentInjected
  <2>3. LogMount \in q.containers[k].mounts
    BY <1>1, <2>1, <2>2, LogMountPlaced DEF InjectedTo
  <2> QED BY <1>2, <1>3, <2>3 DEF MountsOf
<1>4. CASE k \notin DOMAIN q.containers /\ k = "vector"
  BY <1>1, <1>2, <1>4 DEF MountsOf, AgentInjected
<1>5. CASE k \notin DOMAIN q.containers /\ k # "vector"
  <2>1. k \in DOMAIN pod.inits \ {"vector"}
    BY <1>1, <1>2, <1>5 DEF InjectedTo
  <2>2. LogMount \in q.inits[k].mounts \/ \E m \in pod.inits[k].mounts : m[2] = "log"
    BY <1>1, <2>1 DEF AgentInjected
  <2>3. LogMount \in q.inits[k].mounts
    BY <1>1, <2>1, <2>2, LogMountPlaced DEF InjectedTo
  <2> QED BY <1>2, <1>5, <2>3 DEF MountsOf
<1> QED BY <1>3, <1>4, <1>5

\* Another sidecar's turn after the agent's: its container is new, so none
\* that shares the log volume goes.
LEMMA LaterTurnShares ==
  ASSUME NEW q, NEW n, NEW pod, NEW left, NEW cfg, NEW c, NEW in, Turn(q, n, pod, left, cfg, c, in),
         n \notin DOMAIN pod.inits, LogsShared(pod, in)
  PROVE  LogsShared(q, in)
<1>1. InjectedTo(q, n, pod, cfg, c, in)
  BY DEF Turn
<1> SUFFICES ASSUME NEW k \in Producers(in)
             PROVE  k \in DOMAIN q.containers \cup DOMAIN q.inits /\ LogMount \in MountsOf(q, k)
  BY DEF LogsShared
<1>2. k \in DOMAIN pod.containers \cup DOMAIN pod.inits /\ LogMount \in MountsOf(pod, k)
  BY DEF LogsShared
<1>3. CASE k \in DOMAIN pod.containers
  BY <1>1, <1>2, <1>3 DEF MountsOf, InjectedTo
<1>4. CASE k \notin DOMAIN pod.containers
  <2>1. k \in DOMAIN pod.inits \ {n}
    BY <1>2, <1>4
  <2> QED BY <1>1, <1>2, <1>4, <2>1 DEF MountsOf, InjectedTo
<1> QED BY <1>3, <1>4

LEMMA TurnLogs ==
  ASSUME NEW q, NEW n, NEW pod, NEW left, NEW cfg, NEW c, NEW in, Turn(q, n, pod, left, cfg, c, in),
         Plain(in)
  PROVE  LogsOK(q, left \ {n}, c, in)
<1>1. LogsOK(pod, left, c, in) /\ InjectedTo(q, n, pod, cfg, c, in) /\ n \in left /\ n \notin DOMAIN pod.inits
  BY DEF Turn, PodOK, LogsOK
<1>2. "vector" \in DOMAIN q.inits <=> AgentRuns(in) /\ "vector" \notin left \ {n}
  <2>1. CASE n = "vector"
    BY <1>1, <2>1 DEF Turn, InjectedTo
  <2>2. CASE n # "vector"
    BY <1>1, <2>2 DEF LogsOK, InjectedTo
  <2> QED BY <2>1, <2>2
<1>3. \A k \in left \ {n} : k \notin DOMAIN q.inits
  BY <1>1 DEF LogsOK, InjectedTo
<1>4. ~LogVolumeElsewhere(in) => LogMounts(pod) /\ LogMounts(q)
  BY <1>1, TurnLogMounts DEF LogsOK
<1>5. CASE n = "vector"
  <2>1. AgentInjected(q, pod, c, in) /\ "vector" \in DOMAIN q.inits /\ "vector" \notin DOMAIN pod.inits
    BY <1>1, <1>5 DEF Turn, InjectedTo
  <2>2. NamesVolume(in, "vector-config") \/ <<"vector-config", c>> \in q.volumes
    BY <1>1, <2>1 DEF LogsOK, AgentInjected
  <2>3. LogMount \in q.inits["vector"].mounts
    BY <2>1 DEF AgentInjected
  <2>4. ~LogVolumeElsewhere(in) => LogsShared(q, in)
    BY <1>4, <1>5, AgentTurnShares
  <2> QED BY <1>2, <1>3, <1>4, <2>1, <2>2, <2>3, <2>4 DEF LogsOK
<1>6. CASE n # "vector"
  <2>1. QuietlyInjected(q, n, pod) /\ ("vector" \in DOMAIN q.inits <=> "vector" \in DOMAIN pod.inits)
    BY <1>1, <1>6 DEF Turn, InjectedTo
  <2>2. \/ "vector" \in DOMAIN q.inits \/ NamesVolume(in, "vector-config")
        \/ \A v \in q.volumes : v[1] # "vector-config"
    BY <1>1, <2>1 DEF LogsOK, QuietlyInjected
  <2>3. ASSUME "vector" \in DOMAIN q.inits
        PROVE  /\ NamesVolume(in, "vector-config") \/ <<"vector-config", c>> \in q.volumes
               /\ LogMount \in q.inits["vector"].mounts
               /\ ~LogVolumeElsewhere(in) => LogsShared(q, in)
    <3>1. /\ NamesVolume(in, "vector-config") \/ <<"vector-config", c>> \in pod.volumes
          /\ LogMount \in pod.inits["vector"].mounts
          /\ ~LogVolumeElsewhere(in) => LogsShared(pod, in)
      BY <1>1, <2>1, <2>3 DEF LogsOK
    <3>2. ~LogVolumeElsewhere(in) => LogsShared(q, in)
      BY <1>1, <3>1, LaterTurnShares
    <3> QED BY <1>1, <1>6, <2>1, <2>3, <3>1, <3>2 DEF InjectedTo
  <2> QED BY <1>2, <1>3, <1>4, <2>2, <2>3 DEF LogsOK
<1> QED BY <1>5, <1>6

LEMMA TurnPod ==
  ASSUME NEW q, NEW n, NEW pod, NEW left, NEW cfg, NEW c, NEW in, Turn(q, n, pod, left, cfg, c, in)
  PROVE  PodOK(q, left \ {n}, c, in)
<1>1. IsPod(q)
  BY DEF Turn, InjectedTo
<1> QED BY <1>1, TurnImages, TurnMounts, TurnLogs DEF PodOK

\* A sidecar that is disabled is passed over; the agent never is.
LEMMA PassedOver ==
  ASSUME NEW n, NEW pod, NEW left, NEW c, NEW in, PodOK(pod, left, c, in), n \in left,
         n = "vector" /\ Plain(in) => ~AgentRuns(in)
  PROVE  PodOK(pod, left \ {n}, c, in)
<1> SUFFICES ASSUME Plain(in) PROVE LogsOK(pod, left \ {n}, c, in)
  BY DEF PodOK
<1>1. LogsOK(pod, left, c, in)
  BY DEF PodOK
<1>2. "vector" \in DOMAIN pod.inits <=> AgentRuns(in) /\ "vector" \notin left \ {n}
  BY <1>1 DEF LogsOK
<1> QED BY <1>1, <1>2 DEF LogsOK

-----------------------------------------------------------------------------
(* The pod template the sidecars start from.                                *)

\* Container k is made of containers of base and over.
MadeOf(k, base, over) ==
  /\ IsContainer(k)
  /\ \/ \E n \in DOMAIN base : k.image = base[n].image
     \/ \E n \in DOMAIN over : k.image = over[n].image
  /\ \A m \in k.mounts : \/ \E n \in DOMAIN base : m \in base[n].mounts
                         \/ \E n \in DOMAIN over : m \in over[n].mounts

LEMMA MergedContainer ==
  ASSUME NEW b, IsContainer(b), NEW o, IsContainer(o)
  PROVE  LET k == mergeContainer(b, o)
         IN IsContainer(k) /\ k.image \in {b.image, o.image} /\ k.mounts \subseteq b.mounts \cup o.mounts
<1> DEFINE image == IF o.image = NoImage THEN b.image ELSE o.image
           mounts == o.mounts \cup {m \in b.mounts : \A w \in o.mounts : w[1] # m[1]}
<1>1. mergeContainer(b, o) = Container(image, mounts)
  BY Zenon DEF mergeContainer
<1>2. \A m \in mounts : IsMount(m)
  BY DEF IsContainer
<1>3. image \in {b.image, o.image} /\ mounts \subseteq b.mounts \cup o.mounts
  OBVIOUS
<1> HIDE DEF image, mounts
<1> QED BY <1>1, <1>2, <1>3, ContainerFields

LEMMA MergedContainers ==
  ASSUME NEW base, \A n \in DOMAIN base : IsContainer(base[n]),
         NEW over, \A n \in DOMAIN over : IsContainer(over[n])
  PROVE  LET r == mergeContainers(base, over)
         IN DOMAIN r = DOMAIN base \cup DOMAIN over /\ \A n \in DOMAIN r : MadeOf(r[n], base, over)
<1> DEFINE r == mergeContainers(base, over)
<1>1. /\ DOMAIN r = DOMAIN base \cup DOMAIN over
      /\ \A n \in DOMAIN r : r[n] = IF n \notin DOMAIN over THEN base[n]
                                    ELSE IF n \notin DOMAIN base THEN over[n]
                                    ELSE mergeContainer(base[n], over[n])
  BY DEF mergeContainers
<1> HIDE DEF r
<1>2. ASSUME NEW n \in DOMAIN r PROVE MadeOf(r[n], base, over)
  <2>1. CASE n \notin DOMAIN over
    BY <1>1, <1>2, <2>1 DEF MadeOf
  <2>2. CASE n \in DOMAIN over /\ n \notin DOMAIN base
    BY <1>1, <1>2, <2>2 DEF MadeOf
  <2>3. CASE n \in DOMAIN over /\ n \in DOMAIN base
    <3>1. r[n] = mergeContainer(base[n], over[n])
      BY <1>1, <1>2, <2>3
    <3>2. /\ IsContainer(r[n]) /\ r[n].image \in {base[n].image, over[n].image}
          /\ r[n].mounts \subseteq base[n].mounts \cup over[n].mounts
      BY <2>3, <3>1, MergedContainer
    <3> QED BY <2>3, <3>2 DEF MadeOf
  <2> QED BY <2>1, <2>2, <2>3
<1> QED BY <1>1, <1>2 DEF r

LEMMA AddressedContainers ==
  ASSUME NEW containers, NEW main
  PROVE  \A n \in DOMAIN Addressed(containers, main) :
           \E k \in DOMAIN containers : Addressed(containers, main)[n] = containers[k]
BY DEF Addressed

\* The main container of the builder.
LEMMA BuiltContainer ==
  ASSUME NEW c \in Clusters, NEW in \in Inputs[c], GatesOpen(in)
  PROVE  LET k == buildContainer(c, in)
         IN /\ IsContainer(k) /\ k.image = in.image
            /\ <<ConfigPath, "config">> \in k.mounts
            /\ in.storage => \A d \in in.decl.data : <<d.path, ClaimName(d)>> \in k.mounts
            /\ Plain(in) /\ ~LogVolumeElsewhere(in) => \A m \in k.mounts : m[2] = "log" => m[1] = LogPath
<1> DEFINE claimed == {<<d.path, ClaimName(d)>> : d \in IF in.storage THEN in.decl.data ELSE {}}
           ms == claimed \cup ({<<ConfigPath, "config">>} \cup in.provided.mounts)
<1>1. buildContainer(c, in) = Container(in.image, ms)
  BY DEF buildContainer, wireVolumes, WithNamedStorage
<1>2. \A m \in in.provided.mounts : IsMount(m)
  BY InputsAssumption
<1>3. \A m \in claimed : IsMount(m)
  BY DEF IsMount
<1>4. IsMount(<<ConfigPath, "config">>)
  BY DEF IsMount
<1>5. \A m \in ms : IsMount(m)
  BY <1>2, <1>3, <1>4
<1>6. ASSUME Plain(in), ~LogVolumeElsewhere(in), NEW m \in ms, m[2] = "log" PROVE m[1] = LogPath
  <2>1. \A d \in in.decl.data : ClaimName(d) # "log"
    BY <1>6 DEF Plain, GatesOpen, RolesDeclared, ValidateDeclaration, reservedVolumeNames, ClaimName,
                DefaultDataVolumeName
  <2>2. m \notin claimed /\ m # <<ConfigPath, "config">>
    BY <1>6, <2>1
  <2> QED BY <1>6, <2>2 DEF LogVolumeElsewhere, MountsAsked
<1>7. in.storage => \A d \in in.decl.data : <<d.path, ClaimName(d)>> \in ms
  OBVIOUS
<1>8. <<ConfigPath, "config">> \in ms
  OBVIOUS
<1> HIDE DEF ms
<1> QED BY <1>1, <1>5, <1>6, <1>7, <1>8, ContainerFields

\* The template with the overrides merged.
Merged(c, in) == strategicMergePodTemplate(Build(c, in), in.overrides, in.decl.main)

LEMMA MergedFields ==
  ASSUME NEW c \in Clusters, NEW in \in Inputs[c], GatesOpen(in)
  PROVE  LET pod == Merged(c, in)
             base == Build(c, in).containers
             over == in.overrides
         IN /\ IsPod(pod)
            /\ base = [n \in {in.decl.main} |-> buildContainer(c, in)]
            /\ in.decl.main \in DOMAIN pod.containers
            /\ \A n \in DOMAIN pod.containers : MadeOf(pod.containers[n], base, Addressed(over.containers, in.decl.main))
            /\ DOMAIN pod.inits = DOMAIN over.inits /\ \A n \in DOMAIN pod.inits : MadeOf(pod.inits[n], << >>, over.inits)
            /\ pod.claims = WithNamedStorage(in).claims
            /\ pod.volumes = over.volumes \cup {v \in wireVolumes(c, in).volumes : \A o \in over.volumes : o[1] # v[1]}
<1> DEFINE pod == Merged(c, in)
           over == in.overrides
           main == in.decl.main
           base == [n \in {main} |-> buildContainer(c, in)]
           addr == Addressed(over.containers, main)
           vs == over.volumes \cup {v \in wireVolumes(c, in).volumes : \A o \in over.volumes : o[1] # v[1]}
           replicas == IF in.stopped THEN 0 ELSE 1
           cs == mergeContainers(base, addr)
           is == mergeContainers(<< >>, over.inits)
<1>1. Build(c, in) = [containers |-> base, inits |-> << >>, volumes |-> wireVolumes(c, in).volumes,
                      claims |-> WithNamedStorage(in).claims, replicas |-> replicas]
  BY DEF Build, buildPodSpec
<1> HIDE DEF base, replicas
<1>2. pod = [containers |-> cs, inits |-> is, volumes |-> vs, claims |-> WithNamedStorage(in).claims,
             replicas |-> replicas]
  <2>1. pod = [containers |-> mergeContainers(Build(c, in).containers, addr),
               inits |-> mergeContainers(Build(c, in).inits, over.inits),
               volumes |-> over.volumes \cup {v \in Build(c, in).volumes : \A o \in over.volumes : o[1] # v[1]},
               claims |-> Build(c, in).claims, replicas |-> Build(c, in).replicas]
    BY Zenon DEF Merged, strategicMergePodTemplate
  <2>2. /\ Build(c, in).containers = base /\ Build(c, in).inits = << >>
        /\ Build(c, in).volumes = wireVolumes(c, in).volumes
        /\ Build(c, in).claims = WithNamedStorage(in).claims /\ Build(c, in).replicas = replicas
    BY <1>1
  <2> QED BY Zenon, <2>1, <2>2
<1>3. \A n \in DOMAIN base : IsContainer(base[n])
  BY BuiltContainer DEF base
<1>4. \A k \in allPodContainers(over) : IsContainer(k)
  BY InputsAssumption
<1>5. \A n \in DOMAIN addr : IsContainer(addr[n])
  <2>1. \A n \in DOMAIN over.containers : IsContainer(over.containers[n])
    BY <1>4 DEF allPodContainers
  <2> QED BY <2>1, AddressedContainers
<1>6. \A n \in DOMAIN over.inits : IsContainer(over.inits[n])
  BY <1>4 DEF allPodContainers
<1>7. DOMAIN << >> = {}
  OBVIOUS
<1> HIDE DEF addr
<1>8. DOMAIN cs = DOMAIN base \cup DOMAIN addr /\ \A n \in DOMAIN cs : MadeOf(cs[n], base, addr)
  BY <1>3, <1>5, MergedContainers
<1>9. DOMAIN is = {} \cup DOMAIN over.inits /\ \A n \in DOMAIN is : MadeOf(is[n], << >>, over.inits)
  BY <1>6, <1>7, MergedContainers
<1>10. DOMAIN base = {main}
  BY DEF base
<1> HIDE DEF cs, is, vs, main
<1>11. /\ pod.containers = cs /\ pod.inits = is /\ pod.volumes = vs
       /\ pod.claims = WithNamedStorage(in).claims /\ pod.replicas = replicas
  BY <1>2
<1>12. IsPod(pod)
  BY <1>2, <1>8, <1>9, <1>11 DEF IsPod, MadeOf
<1>13. Build(c, in).containers = base
  BY <1>1
<1> QED BY <1>8, <1>9, <1>10, <1>11, <1>12, <1>13 DEF base, addr, vs, main

\* Without podOverrides the merge leaves the template as it is.
LEMMA NothingMerged ==
  ASSUME NEW c \in Clusters, NEW in \in Inputs[c], GatesOpen(in), ~in.overrides.set
  PROVE  LET pod == Merged(c, in)
         IN pod.containers = Build(c, in).containers /\ DOMAIN pod.inits = {}
<1> DEFINE pod == Merged(c, in)
           base == Build(c, in).containers
           addr == Addressed(in.overrides.containers, in.decl.main)
<1>1. in.overrides.containers = << >> /\ in.overrides.inits = << >> /\ DOMAIN << >> = {}
  BY InputsAssumption DEF NoOverrides
<1>2. DOMAIN addr = {}
  BY <1>1 DEF Addressed
<1>3. pod.containers = mergeContainers(base, addr)
  BY Zenon DEF Merged, strategicMergePodTemplate
<1>4. base = [n \in {in.decl.main} |-> buildContainer(c, in)] /\ DOMAIN pod.inits = DOMAIN in.overrides.inits
  BY MergedFields
<1> HIDE DEF addr, base, pod
<1>5. mergeContainers(base, addr) = base
  <2>1. base = [n \in DOMAIN base |-> base[n]]
    BY <1>4
  <2> QED BY <1>2, <2>1 DEF mergeContainers
<1> QED BY <1>1, <1>3, <1>4, <1>5 DEF base, pod

LEMMA MergedPod ==
  ASSUME NEW c \in Clusters, NEW in \in Inputs[c], GatesOpen(in), NEW left,
         Plain(in) => left = DOMAIN in.sidecars \cup (IF AgentRuns(in) THEN {"vector"} ELSE {}),
         ~PodOverridesViolated(Build(c, in), Merged(c, in), in.overrides)
  PROVE  PodOK(Merged(c, in), left, c, in)
<1> DEFINE pod == Merged(c, in)
           base == Build(c, in).containers
           over == in.overrides
           main == in.decl.main
           k == buildContainer(c, in)
           addr == Addressed(over.containers, main)
<1>1. /\ IsPod(pod) /\ base = [n \in {main} |-> k] /\ main \in DOMAIN pod.containers
      /\ \A n \in DOMAIN pod.containers : MadeOf(pod.containers[n], base, addr)
      /\ DOMAIN pod.inits = DOMAIN over.inits /\ \A n \in DOMAIN pod.inits : MadeOf(pod.inits[n], << >>, over.inits)
  BY MergedFields
<1>2. /\ pod.claims = WithNamedStorage(in).claims
      /\ pod.volumes = over.volumes \cup {v \in wireVolumes(c, in).volumes : \A o \in over.volumes : o[1] # v[1]}
  BY MergedFields
<1>3. DOMAIN base = {main} /\ base[main] = k /\ DOMAIN << >> = {}
  BY <1>1
<1>4. \A n \in DOMAIN addr : addr[n] \in allPodContainers(over)
  BY AddressedContainers DEF allPodContainers
<1>5. \A n \in DOMAIN over.inits : over.inits[n] \in allPodContainers(over)
  BY DEF allPodContainers
<1>6. in.overrides.set => ~checkPodOverrideMountInvariants(Build(c, in), pod)
  BY DEF PodOverridesViolated
<1>7. ~in.overrides.set => pod.containers = base /\ DOMAIN pod.inits = {}
  BY NothingMerged
<1> HIDE DEF pod, base, k, addr
<1>8. ImagesOK(pod, in)
  <2>1. k.image = in.image
    BY BuiltContainer DEF k
  <2>2. ASSUME NEW n \in DOMAIN pod.containers PROVE IsImage(pod.containers[n].image, in)
    BY <1>1, <1>3, <1>4, <2>1 DEF MadeOf, IsImage, Given
  <2>3. ASSUME NEW n \in DOMAIN pod.inits PROVE IsImage(pod.inits[n].image, in)
    BY <1>1, <1>3, <1>5 DEF MadeOf, IsImage, Given
  <2> QED BY <2>2, <2>3 DEF ImagesOK
<1>9. MainMounts(pod, in)
  <2> SUFFICES ASSUME main \notin DOMAIN pod.inits
               PROVE  /\ <<ConfigPath, "config">> \in pod.containers[main].mounts
                      /\ in.storage => \A d \in in.decl.data : <<d.path, ClaimName(d)>> \in pod.containers[main].mounts
    BY DEF MainMounts
  <2>1. base[main].mounts \subseteq pod.containers[main].mounts
    <3>1. CASE in.overrides.set
      BY <1>3, <1>6, <3>1 DEF checkPodOverrideMountInvariants, base
    <3>2. CASE ~in.overrides.set
      BY <1>7, <3>2
    <3> QED BY <3>1, <3>2
  <2>2. /\ <<ConfigPath, "config">> \in k.mounts
        /\ in.storage => \A d \in in.decl.data : <<d.path, ClaimName(d)>> \in k.mounts
    BY BuiltContainer DEF k
  <2> QED BY <1>3, <2>1, <2>2
<1>10. MountsDeclared(pod, in)
  <2>1. CASE in.overrides.set
    <3>1. \A x \in allPodContainers(pod) : \A m \in x.mounts : m[2] \in Declared(pod)
      BY <1>6, <2>1 DEF checkPodOverrideMountInvariants
    <3> QED BY <3>1 DEF MountsDeclared, allPodContainers
  <2>2. CASE ~in.overrides.set
    <3>1. \A m \in k.mounts : m[2] \in Declared(pod) \/ m \in in.provided.mounts
      <4>1. ASSUME NEW m \in k.mounts
            PROVE  \/ \E d \in in.decl.data : in.storage /\ m = <<d.path, ClaimName(d)>>
                   \/ m = <<ConfigPath, "config">> \/ m \in in.provided.mounts
        BY <4>1 DEF k, buildContainer, Container, wireVolumes, WithNamedStorage
      <4>2. "config" \in Declared(pod)
        <5>1. in.overrides.volumes = {}
          BY <2>2, InputsAssumption DEF NoOverrides
        <5>2. <<"config", c>> \in pod.volumes
          BY <1>2, <5>1 DEF wireVolumes
        <5> QED BY <5>2 DEF Declared
      <4>3. \A d \in in.decl.data : in.storage => ClaimName(d) \in Declared(pod)
        BY <1>2 DEF Declared, WithNamedStorage
      <4> QED BY <4>1, <4>2, <4>3
    <3> QED BY <1>3, <1>7, <2>2, <3>1 DEF MountsDeclared, Unchecked
  <2> QED BY <2>1, <2>2
<1>11. NamesVolume(in, "config") \/ <<"config", c>> \in pod.volumes
  <2>1. <<"config", c>> \in wireVolumes(c, in).volumes
    BY DEF wireVolumes
  <2> QED BY <1>2, <2>1 DEF NamesVolume
<1>12. ~in.direct => pod.claims \cap reservedVolumeNames = {}
  <2> SUFFICES ASSUME ~in.direct PROVE pod.claims \cap reservedVolumeNames = {}
    OBVIOUS
  <2>1. \A d \in in.decl.data : ClaimName(d) \notin reservedVolumeNames
    BY DEF GatesOpen, RolesDeclared, ValidateDeclaration, reservedVolumeNames, ClaimName, DefaultDataVolumeName
  <2> QED BY <1>2, <2>1 DEF WithNamedStorage
<1>13. MountsOK(pod, c, in)
  BY <1>1, <1>9, <1>10, <1>11, <1>12 DEF MountsOK
<1>14. ASSUME Plain(in) PROVE LogsOK(pod, left, c, in)
  <2>1. "vector" \notin DOMAIN pod.inits /\ \A n \in left : n \notin DOMAIN pod.inits
    BY <1>1, <1>14 DEF Plain, SidecarNamesTaken
  <2>2. AgentRuns(in) => "vector" \in left
    BY <1>14
  <2>3. ASSUME ~LogVolumeElsewhere(in) PROVE LogMounts(pod)
    <3>1. \A m \in k.mounts : m[2] = "log" => m[1] = LogPath
      BY <1>14, <2>3, BuiltContainer DEF k
    <3>2. \A x \in allPodContainers(over) : \A m \in x.mounts : m[2] = "log" => m[1] = LogPath
      BY <2>3 DEF LogVolumeElsewhere, MountsAsked
    <3>3. \A n \in DOMAIN pod.containers : \A m \in pod.containers[n].mounts : m[2] = "log" => m[1] = LogPath
      BY <1>1, <1>3, <1>4, <3>1, <3>2 DEF MadeOf
    <3>4. \A n \in DOMAIN pod.inits : \A m \in pod.inits[n].mounts : m[2] = "log" => m[1] = LogPath
      BY <1>1, <1>3, <1>5, <3>2 DEF MadeOf
    <3> QED BY <3>3, <3>4 DEF LogMounts
  <2>4. NamesVolume(in, "vector-config") \/ \A v \in pod.volumes : v[1] # "vector-config"
    BY <1>2 DEF NamesVolume, wireVolumes
  <2> QED BY <2>1, <2>2, <2>3, <2>4 DEF LogsOK
<1> QED BY <1>1, <1>8, <1>13, <1>14 DEF PodOK, pod

-----------------------------------------------------------------------------
(* The invariant.                                                           *)

LEMMA BuildInitInv == BuildInit => BuildInv
<1> SUFFICES ASSUME BuildInit PROVE BuildInv
  OBVIOUS
<1>1. input \in [Clusters -> UNION {Inputs[c] : c \in Clusters}] /\ \A c \in Clusters : input[c] \in Inputs[c]
  BY DEF BuildInit, InputChoices
<1>2. managers[Handler] = HandlerSidecars /\ DOMAIN managers = Clusters \cup {Handler}
  BY DEF BuildInit
<1>3. BuildTypes
  BY <1>1, <1>2 DEF BuildInit, BuildTypes
<1> QED BY <1>3 DEF BuildInit, BuildInv, BuildOK, ConfigMapOK, AppliedOK

\* A step of cluster c leaves the others as they are.
LEMMA OneCluster ==
  ASSUME NEW c \in Clusters, BuildInv, BuildTypes',
         \A d \in Clusters \ {c} : /\ build'[d] = build[d] /\ managers'[d] = managers[d]
                                   /\ configMap'[d] = configMap[d] /\ workload'[d] = workload[d],
         BuildOK(c)', ConfigMapOK(c)', AppliedOK(c)'
  PROVE  BuildInv'
<1> SUFFICES ASSUME NEW d \in Clusters \ {c} PROVE (BuildOK(d) /\ ConfigMapOK(d) /\ AppliedOK(d))'
  BY DEF BuildInv
<1>1. BuildOK(d) /\ ConfigMapOK(d) /\ AppliedOK(d)
  BY DEF BuildInv
<1>2. (ConfigMapOK(d) /\ AppliedOK(d))'
  BY <1>1 DEF ConfigMapOK, AppliedOK
<1>3. Early(d) <=> Early(d)'
  BY DEF Early
<1>4. Late(d) <=> Late(d)'
  BY DEF Late
<1>5. BuildOK(d)'
  BY <1>1, <1>3, <1>4 DEF BuildOK
<1> QED BY <1>2, <1>5

\* A dropped build leaves nothing behind but what was applied.
LEMMA Dropped ==
  ASSUME NEW c \in Clusters, BuildInv, Drop(c), UNCHANGED <<input, managers, configMap>>,
         DOMAIN workload' = Clusters, \A d \in Clusters \ {c} : workload'[d] = workload[d], AppliedOK(c)'
  PROVE  BuildInv'
<1>1. build' = [build EXCEPT ![c] = Idle] /\ BuildTypes /\ ConfigMapOK(c)
  BY DEF Drop, BuildInv
<1>2. DOMAIN build' = Clusters /\ build'[c] = Idle /\ \A d \in Clusters \ {c} : build'[d] = build[d]
  BY <1>1 DEF BuildTypes
<1>3. BuildTypes'
  BY <1>1, <1>2 DEF BuildTypes
<1>4. BuildOK(c)' /\ ConfigMapOK(c)'
  BY <1>1, <1>2 DEF BuildOK, ConfigMapOK
<1> QED BY <1>2, <1>3, <1>4, OneCluster

\* What is known of a running build.
LEMMA Running ==
  ASSUME NEW c \in Clusters, BuildInv, build[c] # Idle
  PROVE  /\ BuildTypes /\ ConfigMapOK(c) /\ AppliedOK(c)
         /\ build[c].in \in Inputs[c] /\ GatesOpen(build[c].in) /\ ManagerOK(managers[c], build[c].in)
         /\ build[c].ref = c /\ c # Handler
         /\ build[c].at \in {"begun", "stamped"} => Early(c)
         /\ build[c].at \in {"injecting", "built", "configured"} => Late(c)
<1>1. BuildOK(c) /\ BuildTypes /\ ConfigMapOK(c) /\ AppliedOK(c)
  BY DEF BuildInv
<1>2. (Early(c) => build[c].ref = c) /\ (Late(c) => build[c].ref = c)
  BY DEF Early, Late
<1>3. Early(c) => build[c].at \in {"begun", "stamped"}
  BY DEF Early
<1>4. Late(c) => build[c].at \in {"injecting", "built", "configured"}
  BY DEF Late
<1> QED BY <1>1, <1>2, <1>3, <1>4, InputsAssumption DEF BuildOK

LEMMA NotIdle == ASSUME NEW c, build[c].at \in {"begun", "stamped", "injecting", "built", "configured"}
                 PROVE build[c] # Idle
BY DEF Idle

\* A new manager holds the images of its sidecars only.
LEMMA FreshManager ==
  ASSUME NEW c \in Clusters, BuildInv
  PROVE  LET in == input[c]
             m == ManagerFor(c, in)
         IN m.ref = c /\ ManagerOK(m.managers[c], in)
            /\ DOMAIN m.managers = DOMAIN managers /\ \A d \in DOMAIN managers \ {c} : m.managers[d] = managers[d]
<1> DEFINE in == input[c]
<1>1. /\ in \in Inputs[c] /\ c \in DOMAIN managers /\ Handler \in DOMAIN managers
      /\ managers[Handler] = HandlerSidecars
  BY DEF BuildInv, BuildTypes
<1>2. \A n \in DOMAIN HandlerSidecars : ConfigOK(HandlerSidecars[n], in)
  BY InputsAssumption DEF IsSidecar, ConfigOK
<1>3. \A n \in DOMAIN in.sidecars : ConfigOK(in.sidecars[n], in)
  BY <1>1, InputsAssumption DEF IsSidecar, ConfigOK
<1> HIDE DEF in
<1>4. CASE in.direct
  <2>1. ManagerFor(c, in) = [managers |-> [managers EXCEPT ![c] = managers[Handler]], ref |-> c]
    BY <1>4 DEF ManagerFor, CloneForBuild
  <2>2. ManagerOK(HandlerSidecars, in)
    BY <1>2, <1>4 DEF ManagerOK, Plain
  <2> QED BY <1>1, <2>1, <2>2 DEF in
<1>5. CASE ~in.direct
  <2> DEFINE fresh == buildSidecarManager(in)
             names == DOMAIN in.sidecars \cup (IF AgentRuns(in) THEN {"vector"} ELSE {})
             agent == Sidecar(NoImage, SidecarPhasePipeline)
  <2>1. ManagerFor(c, in) = [managers |-> [managers EXCEPT ![c] = fresh], ref |-> c]
    BY <1>5 DEF ManagerFor
  <2>2. ConfigOK(agent, in) /\ agent.enabled
    BY DEF Sidecar, ConfigOK
  <2> HIDE DEF agent
  <2>3. fresh = [n \in names |-> IF n \in DOMAIN in.sidecars THEN in.sidecars[n] ELSE agent]
    BY DEF buildSidecarManager, agent
  <2>4. DOMAIN fresh = names /\ \A n \in names : ConfigOK(fresh[n], in)
    BY <1>3, <2>2, <2>3
  <2>5. ASSUME Plain(in), AgentRuns(in) PROVE fresh["vector"].enabled
    <3>1. "vector" \notin DOMAIN in.sidecars /\ "vector" \in names
      BY <2>5 DEF Plain, SidecarNamesTaken
    <3> QED BY <2>2, <2>3, <3>1
  <2> HIDE DEF fresh
  <2>6. ManagerOK(fresh, in)
    BY <2>4, <2>5 DEF ManagerOK
  <2> QED BY <1>1, <2>1, <2>6 DEF in
<1> QED BY <1>4, <1>5

\* Stamping fills in the image of the build's own cluster.
LEMMA StampedManager ==
  ASSUME NEW manager, NEW in, ManagerOK(manager, in)
  PROVE  ManagerOK(SetProductImage(manager, in.image), in)
<1> DEFINE stamped == SetProductImage(manager, in.image)
<1>1. DOMAIN stamped = DOMAIN manager
  BY DEF SetProductImage
<1>2. ASSUME NEW n \in DOMAIN manager
      PROVE  ConfigOK(stamped[n], in) /\ stamped[n].enabled = manager[n].enabled
  <2>1. ConfigOK(manager[n], in)
    BY DEF ManagerOK
  <2>2. stamped[n] = manager[n] \/ stamped[n] = [manager[n] EXCEPT !.image = in.image]
    BY DEF SetProductImage
  <2>3. ASSUME NEW k, k = [image |-> k.image, phase |-> k.phase, enabled |-> k.enabled]
        PROVE  [k EXCEPT !.image = in.image] = [image |-> in.image, phase |-> k.phase, enabled |-> k.enabled]
    BY <2>3
  <2>4. [manager[n] EXCEPT !.image = in.image]
          = [image |-> in.image, phase |-> manager[n].phase, enabled |-> manager[n].enabled]
    BY <2>1, <2>3 DEF ConfigOK
  <2> QED BY <2>1, <2>2, <2>4 DEF ConfigOK
<1> HIDE DEF stamped
<1>3. Plain(in) /\ AgentRuns(in) => stamped["vector"].enabled
  <2> SUFFICES ASSUME Plain(in), AgentRuns(in) PROVE stamped["vector"].enabled
    OBVIOUS
  <2>1. "vector" \in DOMAIN manager /\ manager["vector"].enabled
    BY DEF ManagerOK, Plain
  <2> QED BY <1>2, <2>1
<1> QED BY <1>1, <1>2, <1>3 DEF ManagerOK, stamped

-----------------------------------------------------------------------------
(* The steps.                                                               *)

LEMMA BeginStep == ASSUME NEW c \in Clusters, BuildInv, BeginBuild(c) PROVE BuildInv'
<1> DEFINE in == input[c]
           m == ManagerFor(c, in)
<1>1. /\ GatesOpen(in) /\ managers' = m.managers
      /\ build' = [build EXCEPT ![c] = [at |-> "begun", in |-> in, ref |-> m.ref]]
      /\ UNCHANGED <<input, configMap, workload, edits>>
  BY DEF BeginBuild
<1>2. BuildTypes /\ in \in Inputs[c] /\ ConfigMapOK(c) /\ AppliedOK(c) /\ c # Handler
  BY InputsAssumption DEF BuildInv, BuildTypes
<1>3. /\ m.ref = c /\ ManagerOK(m.managers[c], in)
      /\ DOMAIN m.managers = DOMAIN managers /\ \A d \in DOMAIN managers \ {c} : m.managers[d] = managers[d]
  BY FreshManager
<1> HIDE DEF m, in
<1>4. /\ DOMAIN build' = Clusters /\ \A d \in Clusters \ {c} : build'[d] = build[d] /\ managers'[d] = managers[d]
      /\ build'[c] = [at |-> "begun", in |-> in, ref |-> c]
  BY <1>1, <1>2, <1>3 DEF BuildTypes
<1>5. BuildTypes'
  BY <1>1, <1>2, <1>3, <1>4 DEF BuildTypes
<1>6. Early(c)' /\ build'[c].in = in
  BY <1>4 DEF Early
<1>7. BuildOK(c)'
  BY <1>1, <1>2, <1>3, <1>6 DEF BuildOK
<1>8. ConfigMapOK(c)' /\ AppliedOK(c)'
  BY <1>1, <1>2 DEF ConfigMapOK, AppliedOK
<1> QED BY <1>1, <1>4, <1>5, <1>7, <1>8, OneCluster

LEMMA StampStep == ASSUME NEW c \in Clusters, BuildInv, PropagateImage(c) PROVE BuildInv'
<1> DEFINE b == build[c]
           in == build[c].in
           stamped == SetProductImage(managers[c], in.image)
<1>1. b.at = "begun" /\ UNCHANGED <<input, configMap, workload, edits>>
  BY DEF PropagateImage
<1>2. /\ BuildTypes /\ ConfigMapOK(c) /\ AppliedOK(c) /\ in \in Inputs[c] /\ GatesOpen(in)
      /\ ManagerOK(managers[c], in) /\ b.ref = c /\ c # Handler /\ Early(c)
  BY <1>1, NotIdle, Running
<1>3. CASE in.image = NoImage /\ HasManager(in)
  <2>1. Drop(c) /\ UNCHANGED managers
    BY <1>3 DEF PropagateImage
  <2>2. DOMAIN workload' = Clusters /\ (\A d \in Clusters \ {c} : workload'[d] = workload[d]) /\ AppliedOK(c)'
    BY <1>1, <1>2 DEF BuildTypes, AppliedOK
  <2> QED BY <1>1, <2>1, <2>2, Dropped
<1>4. CASE ~(in.image = NoImage /\ HasManager(in))
  <2>1. /\ managers' = [managers EXCEPT ![c] = stamped]
        /\ build' = [build EXCEPT ![c].at = "stamped"]
    BY <1>2, <1>4 DEF PropagateImage
  <2>2. ManagerOK(stamped, in)
    BY <1>2, StampedManager
  <2> HIDE DEF stamped
  <2>3. /\ managers'[c] = stamped /\ DOMAIN managers' = DOMAIN managers
        /\ \A d \in DOMAIN managers \ {c} : managers'[d] = managers[d]
    BY <1>2, <2>1 DEF BuildTypes
  <2>4. b = [at |-> b.at, in |-> in, ref |-> c]
    BY <1>2 DEF Early
  <2>5. /\ DOMAIN build' = Clusters /\ \A d \in Clusters \ {c} : build'[d] = build[d]
        /\ build'[c] = [b EXCEPT !.at = "stamped"]
    BY <1>2, <2>1 DEF BuildTypes
  <2> HIDE DEF in, b
  <2>6. build'[c] = [at |-> "stamped", in |-> in, ref |-> c]
    BY <2>4, <2>5
  <2>7. Early(c)' /\ build'[c].in = in
    BY <2>6 DEF Early
  <2>8. BuildTypes'
    BY <1>1, <1>2, <2>3, <2>5 DEF BuildTypes
  <2>9. BuildOK(c)'
    BY <1>2, <2>2, <2>3, <2>7 DEF BuildOK
  <2>10. ConfigMapOK(c)' /\ AppliedOK(c)'
    BY <1>1, <1>2 DEF ConfigMapOK, AppliedOK
  <2>11. \A d \in Clusters \ {c} : managers'[d] = managers[d]
    BY <1>2, <2>3 DEF BuildTypes
  <2> QED BY <1>1, <2>5, <2>8, <2>9, <2>10, <2>11, OneCluster
<1> QED BY <1>3, <1>4

\* A build that goes on with a pod, whoever else does what.
LEMMA GoesOn ==
  ASSUME NEW c \in Clusters, BuildInv, UNCHANGED <<input, managers, workload>>, build[c] # Idle,
         NEW at \in {"injecting", "built", "configured"}, NEW pod, NEW left,
         build' = [build EXCEPT ![c] = [at |-> at, in |-> build[c].in, ref |-> c, pod |-> pod, left |-> left]],
         PodOK(pod, left, c, build[c].in), left \subseteq DOMAIN managers[c],
         at # "injecting" => left = {} /\ ~Imageless(pod),
         at = "configured" => configMap'[c] = buildConfigMap(build[c].in),
         DOMAIN configMap' = Clusters, \A d \in Clusters \ {c} : configMap'[d] = configMap[d], ConfigMapOK(c)'
  PROVE  BuildInv'
<1> DEFINE in == build[c].in
<1>1. BuildTypes /\ AppliedOK(c) /\ in \in Inputs[c] /\ GatesOpen(in) /\ ManagerOK(managers[c], in)
  BY Running
<1> HIDE DEF in
<1>2. /\ DOMAIN build' = Clusters /\ \A d \in Clusters \ {c} : build'[d] = build[d]
      /\ build'[c] = [at |-> at, in |-> in, ref |-> c, pod |-> pod, left |-> left]
  BY <1>1 DEF BuildTypes, in
<1>3. /\ build'[c].at = at /\ build'[c].in = in /\ build'[c].ref = c /\ build'[c].pod = pod
      /\ build'[c].left = left
  BY <1>2
<1>4. Late(c)'
  BY <1>2, <1>3 DEF Late, in
<1>5. BuildOK(c)'
  BY <1>1, <1>3, <1>4 DEF BuildOK
<1>6. BuildTypes' /\ AppliedOK(c)'
  BY <1>1, <1>2 DEF BuildTypes, AppliedOK
<1> QED BY <1>2, <1>5, <1>6, OneCluster

LEMMA DropStep ==
  ASSUME NEW c \in Clusters, BuildInv, Drop(c), UNCHANGED <<input, managers, configMap, workload, edits>>
  PROVE  BuildInv'
<1>1. BuildTypes /\ AppliedOK(c)
  BY DEF BuildInv
<1>2. DOMAIN workload' = Clusters /\ (\A d \in Clusters \ {c} : workload'[d] = workload[d]) /\ AppliedOK(c)'
  BY <1>1 DEF BuildTypes, AppliedOK
<1> QED BY <1>2, Dropped

LEMMA AssembleStep == ASSUME NEW c \in Clusters, BuildInv, Assemble(c) PROVE BuildInv'
<1> DEFINE b == build[c]
           in == build[c].in
           pod == Merged(c, in)
           left == DOMAIN managers[c]
           refused == ConfigRefused(in) \/ in.badTimeout
                      \/ PodOverridesViolated(Build(c, in), pod, in.overrides)
<1>1. b.at = "stamped" /\ UNCHANGED <<input, managers, configMap, workload, edits>>
  BY DEF Assemble
<1>2. /\ BuildTypes /\ ConfigMapOK(c) /\ AppliedOK(c) /\ in \in Inputs[c] /\ GatesOpen(in)
      /\ ManagerOK(managers[c], in) /\ b.ref = c /\ b # Idle
  BY <1>1, NotIdle, Running
<1>3. CASE refused
  <2>1. Drop(c)
    BY <1>3 DEF Assemble, Merged
  <2> QED BY <1>1, <2>1, DropStep
<1>4. CASE ~refused
  <2>1. build' = [build EXCEPT ![c] = [at |-> "injecting", in |-> in, ref |-> c, pod |-> pod, left |-> left]]
    BY <1>2, <1>4 DEF Assemble, Merged
  <2>2. Plain(in) => left = DOMAIN in.sidecars \cup (IF AgentRuns(in) THEN {"vector"} ELSE {})
    BY <1>2 DEF ManagerOK, Plain
  <2>3. ~PodOverridesViolated(Build(c, in), Merged(c, in), in.overrides)
    BY <1>4
  <2>4. PodOK(pod, left, c, in)
    BY <1>2, <2>2, <2>3, MergedPod
  <2>5. DOMAIN configMap' = Clusters /\ (\A d \in Clusters \ {c} : configMap'[d] = configMap[d]) /\ ConfigMapOK(c)'
    BY <1>1, <1>2 DEF BuildTypes, ConfigMapOK
  <2> HIDE DEF pod, left
  <2>6. left \subseteq DOMAIN managers[c]
    BY DEF left
  <2> QED BY <1>1, <1>2, <2>1, <2>4, <2>5, <2>6, GoesOn
<1> QED BY <1>3, <1>4

LEMMA InjectStep == ASSUME NEW c \in Clusters, BuildInv, InjectNext(c) PROVE BuildInv'
<1> DEFINE b == build[c]
           in == build[c].in
           pod == build[c].pod
           left == build[c].left
           manager == managers[c]
<1>1. b.at = "injecting" /\ UNCHANGED <<input, managers, configMap, workload, edits>>
  BY DEF InjectNext
<1>2. /\ BuildTypes /\ ConfigMapOK(c) /\ AppliedOK(c) /\ in \in Inputs[c] /\ GatesOpen(in)
      /\ ManagerOK(manager, in) /\ b.ref = c /\ b # Idle /\ Late(c)
  BY <1>1, NotIdle, Running
<1>3. /\ b = [at |-> "injecting", in |-> in, ref |-> c, pod |-> pod, left |-> left]
      /\ PodOK(pod, left, c, in) /\ left \subseteq DOMAIN manager
  BY <1>1, <1>2 DEF Late
<1>4. PICK n \in left :
        IF manager[n].enabled /\ InjectFails(n, pod, manager[n], in)
        THEN Drop(c)
        ELSE build' = [build EXCEPT
                         ![c].pod = IF manager[n].enabled THEN Inject(n, pod, manager[n], c, in) ELSE pod,
                         ![c].left = left \ {n}]
  BY <1>2 DEF InjectNext
<1>5. ConfigOK(manager[n], in)
  BY <1>2, <1>3 DEF ManagerOK
<1>6. CASE manager[n].enabled /\ InjectFails(n, pod, manager[n], in)
  BY <1>1, <1>4, <1>6, DropStep
<1>7. CASE ~(manager[n].enabled /\ InjectFails(n, pod, manager[n], in))
  <2> DEFINE q == IF manager[n].enabled THEN Inject(n, pod, manager[n], c, in) ELSE pod
             rest == left \ {n}
  <2>1. build' = [build EXCEPT ![c].pod = q, ![c].left = rest]
    BY <1>4, <1>7
  <2>2. PodOK(q, rest, c, in)
    <3>1. CASE manager[n].enabled
      <4>1. IsPod(pod)
        BY <1>3 DEF PodOK
      <4>2. /\ InjectedTo(q, n, pod, manager[n], c, in)
            /\ IF n = "vector" THEN AgentInjected(q, pod, c, in) ELSE QuietlyInjected(q, n, pod)
        BY <3>1, <4>1, Injection
      <4>3. n = "vector" => Producers(in) \subseteq DOMAIN pod.containers \cup DOMAIN pod.inits \cup {"vector"}
        BY <1>7, <3>1 DEF InjectFails
      <4>4. n = "vector" /\ Plain(in) => AgentRuns(in)
        BY <1>2, <1>3 DEF ManagerOK, Plain, SidecarNamesTaken
      <4>5. Turn(q, n, pod, left, manager[n], c, in)
        BY <1>3, <1>5, <4>2, <4>3, <4>4 DEF Turn
      <4> QED BY <4>5, TurnPod
    <3>2. CASE ~manager[n].enabled
      <4>1. n = "vector" /\ Plain(in) => ~AgentRuns(in)
        BY <1>2, <3>2 DEF ManagerOK
      <4> QED BY <1>3, <3>2, <4>1, PassedOver
    <3> QED BY <3>1, <3>2
  <2> HIDE DEF q, rest
  <2>3. build' = [build EXCEPT ![c] = [at |-> "injecting", in |-> in, ref |-> c, pod |-> q, left |-> rest]]
    <3>1. build' = [build EXCEPT ![c] = [[b EXCEPT !.pod = q] EXCEPT !.left = rest]]
      BY <1>2, <2>1 DEF BuildTypes
    <3> HIDE DEF b, in, pod, left
    <3> DEFINE b1 == [b EXCEPT !.pod = q]
    <3>2. b1 = [at |-> "injecting", in |-> in, ref |-> c, pod |-> q, left |-> left]
      BY <1>3
    <3> HIDE DEF b1
    <3>3. [b1 EXCEPT !.left = rest] = [at |-> "injecting", in |-> in, ref |-> c, pod |-> q, left |-> rest]
      BY <3>2
    <3> QED BY <3>1, <3>3 DEF b1
  <2>4. DOMAIN configMap' = Clusters /\ (\A d \in Clusters \ {c} : configMap'[d] = configMap[d]) /\ ConfigMapOK(c)'
    BY <1>1, <1>2 DEF BuildTypes, ConfigMapOK
  <2>5. rest \subseteq DOMAIN managers[c]
    BY <1>3 DEF rest
  <2> QED BY <1>1, <1>2, <2>2, <2>3, <2>4, <2>5, GoesOn
<1> QED BY <1>6, <1>7

\* The step from one stage of a build to the next leaves the pod as it is.
LEMMA StageFields ==
  ASSUME NEW c \in Clusters, BuildTypes, NEW at, NEW from,
         build[c] = [at |-> from, in |-> build[c].in, ref |-> c, pod |-> build[c].pod, left |-> build[c].left],
         build' = [build EXCEPT ![c].at = at]
  PROVE  build' = [build EXCEPT ![c] = [at |-> at, in |-> build[c].in, ref |-> c, pod |-> build[c].pod,
                                        left |-> build[c].left]]
<1> DEFINE b == build[c]
           in == build[c].in
           pod == build[c].pod
           left == build[c].left
<1>1. build' = [build EXCEPT ![c] = [b EXCEPT !.at = at]]
  BY DEF BuildTypes
<1>2. b = [at |-> from, in |-> in, ref |-> c, pod |-> pod, left |-> left]
  OBVIOUS
<1> HIDE DEF b, in, pod, left
<1>3. [b EXCEPT !.at = at] = [at |-> at, in |-> in, ref |-> c, pod |-> pod, left |-> left]
  BY <1>2
<1> QED BY <1>1, <1>3 DEF in, pod, left

LEMMA CompleteStep == ASSUME NEW c \in Clusters, BuildInv, CompleteBuild(c) PROVE BuildInv'
<1> DEFINE b == build[c]
           in == build[c].in
<1>1. b.at = "injecting" /\ b.left = {} /\ UNCHANGED <<input, managers, configMap, workload, edits>>
  BY DEF CompleteBuild
<1>2. BuildTypes /\ ConfigMapOK(c) /\ b # Idle /\ Late(c)
  BY <1>1, NotIdle, Running
<1>3. CASE Imageless(b.pod) \/ ~validateRoleGroupResources(c, in)
  BY <1>1, <1>3, DropStep DEF CompleteBuild
<1>4. CASE ~(Imageless(b.pod) \/ ~validateRoleGroupResources(c, in))
  <2>1. build' = [build EXCEPT ![c].at = "built"] /\ ~Imageless(b.pod)
    BY <1>4 DEF CompleteBuild
  <2>2. /\ b = [at |-> "injecting", in |-> in, ref |-> c, pod |-> b.pod, left |-> b.left]
        /\ PodOK(b.pod, b.left, c, in) /\ b.left \subseteq DOMAIN managers[c]
    BY <1>1, <1>2 DEF Late
  <2>3. build' = [build EXCEPT ![c] = [at |-> "built", in |-> in, ref |-> c, pod |-> b.pod, left |-> b.left]]
    BY <1>2, <2>1, <2>2, StageFields
  <2>4. DOMAIN configMap' = Clusters /\ (\A d \in Clusters \ {c} : configMap'[d] = configMap[d]) /\ ConfigMapOK(c)'
    BY <1>1, <1>2 DEF BuildTypes, ConfigMapOK
  <2> QED BY <1>1, <1>2, <2>1, <2>2, <2>3, <2>4, GoesOn
<1> QED BY <1>3, <1>4

LEMMA ConfigMapStep == ASSUME NEW c \in Clusters, BuildInv, ApplyConfigMap(c) PROVE BuildInv'
<1> DEFINE b == build[c]
           in == build[c].in
<1>1. /\ b.at = "built" /\ configMap' = [configMap EXCEPT ![c] = buildConfigMap(in)]
      /\ build' = [build EXCEPT ![c].at = "configured"] /\ UNCHANGED <<input, managers, workload, edits>>
  BY DEF ApplyConfigMap
<1>2. BuildTypes /\ ConfigMapOK(c) /\ b # Idle /\ Late(c)
  BY <1>1, NotIdle, Running
<1>3. /\ b = [at |-> "built", in |-> in, ref |-> c, pod |-> b.pod, left |-> b.left]
      /\ PodOK(b.pod, b.left, c, in) /\ b.left \subseteq DOMAIN managers[c]
      /\ b.left = {} /\ ~Imageless(b.pod)
  BY <1>1, <1>2 DEF Late
<1>4. build' = [build EXCEPT ![c] = [at |-> "configured", in |-> in, ref |-> c, pod |-> b.pod, left |-> b.left]]
  BY <1>1, <1>2, <1>3, StageFields
<1>5. /\ DOMAIN configMap' = Clusters /\ \A d \in Clusters \ {c} : configMap'[d] = configMap[d]
      /\ configMap'[c] = buildConfigMap(in)
  BY <1>1, <1>2 DEF BuildTypes
<1>6. ConfigMapOK(c)'
  <2>1. buildConfigMap(in).in = in
    BY DEF buildConfigMap
  <2> QED BY <1>5, <2>1 DEF ConfigMapOK
<1> QED BY <1>1, <1>2, <1>3, <1>4, <1>5, <1>6, GoesOn

LEMMA WorkloadStep == ASSUME NEW c \in Clusters, BuildInv, ApplyWorkload(c) PROVE BuildInv'
<1> DEFINE b == build[c]
           in == build[c].in
           applied == [exists |-> TRUE, in |-> in, pod |-> b.pod]
<1>1. /\ b.at = "configured" /\ Drop(c) /\ UNCHANGED <<input, managers, configMap, edits>>
      /\ workload' = IF validateSidecars(c) /\ Admitted(b.pod) THEN [workload EXCEPT ![c] = applied] ELSE workload
  BY DEF ApplyWorkload
<1>2. /\ BuildTypes /\ AppliedOK(c) /\ b # Idle /\ Late(c) /\ GatesOpen(in) /\ b.ref = c
      /\ ManagerOK(managers[c], in)
  BY <1>1, NotIdle, Running
<1>3. /\ PodOK(b.pod, {}, c, in) /\ ~Imageless(b.pod) /\ configMap[c] = buildConfigMap(in)
  BY <1>1, <1>2 DEF Late
<1>4. CASE ~(validateSidecars(c) /\ Admitted(b.pod))
  <2>1. workload' = workload
    BY <1>1, <1>4
  <2> QED BY <1>1, <2>1, DropStep
<1>5. CASE validateSidecars(c) /\ Admitted(b.pod)
  <2>1. workload' = [workload EXCEPT ![c] = applied]
    BY <1>1, <1>5
  <2>2. /\ DOMAIN workload' = Clusters /\ \A d \in Clusters \ {c} : workload'[d] = workload[d]
        /\ workload'[c] = applied
    BY <1>2, <2>1 DEF BuildTypes
  <2>3. ASSUME Plain(in)
        PROVE  /\ DOMAIN b.pod.containers \cap DOMAIN b.pod.inits = {}
               /\ LogsOK(b.pod, {}, c, in)
               /\ AgentRuns(in) => "vector.yaml" \in buildConfigMap(in).keys
               /\ ValidateProducers(in.decl.producers)
    <3>1. ValidateProducers(in.decl.producers)
      BY <1>2, <2>3 DEF Plain, GatesOpen, RolesDeclared, ValidateDeclaration
    <3>2. ASSUME AgentRuns(in) PROVE "vector.yaml" \in buildConfigMap(in).keys
      <4>1. "vector" \in DOMAIN managers[c] /\ managers[c]["vector"].enabled
        BY <1>2, <2>3, <3>2 DEF ManagerOK, Plain
      <4>2. ValidateAll(managers[c], c, in)
        BY <1>2, <1>5, <2>3 DEF validateSidecars, Plain
      <4>3. ValidateProvider("vector", c, in)
        BY <4>1, <4>2 DEF ValidateAll
      <4>4. "vector.yaml" \in configMap[c].keys
        BY <4>3 DEF ValidateProvider, VectorValid
      <4> QED BY <1>3, <4>4
    <3> QED BY <1>3, <1>5, <2>3, <3>1, <3>2 DEF Admitted, PodOK
  <2>4. WorkloadOK(b.pod, c, in)
    BY <1>3, <2>3 DEF WorkloadOK, PodOK
  <2> HIDE DEF b, in
  <2>5. workload'[c].exists /\ workload'[c].pod = b.pod /\ workload'[c].in = in
    BY <2>2
  <2>6. AppliedOK(c)'
    BY <2>4, <2>5 DEF AppliedOK
  <2> QED BY <1>1, <2>2, <2>6, Dropped
<1> QED BY <1>4, <1>5

LEMMA EditStep == ASSUME NEW c \in Clusters, BuildInv, EditInput(c) PROVE BuildInv'
<1>1. BuildTypes /\ UNCHANGED <<managers, build, configMap, workload>>
  BY DEF EditInput, BuildInv
<1>2. DOMAIN input' = Clusters /\ \A d \in Clusters : input'[d] \in Inputs[d]
  BY <1>1 DEF EditInput, BuildTypes
<1>3. BuildTypes'
  BY <1>1, <1>2 DEF BuildTypes
<1>4. BuildOK(c)'
  <2>1. (Early(c) <=> Early(c)') /\ (Late(c) <=> Late(c)')
    BY <1>1 DEF Early, Late
  <2> QED BY <1>1, <2>1 DEF BuildInv, BuildOK
<1>5. ConfigMapOK(c)' /\ AppliedOK(c)'
  BY <1>1 DEF BuildInv, ConfigMapOK, AppliedOK
<1> QED BY <1>1, <1>3, <1>4, <1>5, OneCluster

LEMMA CrashStep == ASSUME BuildInv, CrashBuilds PROVE BuildInv'
<1>1. /\ BuildTypes /\ build' = [c \in Clusters |-> Idle] /\ UNCHANGED <<input, configMap, workload, edits>>
      /\ managers' = [m \in DOMAIN managers |-> IF m = Handler THEN HandlerSidecars ELSE << >>]
  BY DEF CrashBuilds, BuildInv
<1>2. BuildTypes'
  BY <1>1 DEF BuildTypes
<1>3. ASSUME NEW c \in Clusters PROVE (BuildOK(c) /\ ConfigMapOK(c) /\ AppliedOK(c))'
  <2>1. build'[c] = Idle /\ ConfigMapOK(c) /\ AppliedOK(c)
    BY <1>1 DEF BuildInv
  <2> QED BY <1>1, <2>1 DEF BuildOK, ConfigMapOK, AppliedOK
<1> QED BY <1>2, <1>3 DEF BuildInv

LEMMA StillBuild == ASSUME BuildInv, UNCHANGED buildVars PROVE BuildInv'
<1>1. UNCHANGED <<input, managers, build, configMap, workload>>
  BY DEF buildVars
<1>2. BuildTypes'
  BY <1>1 DEF BuildInv, BuildTypes
<1>3. ASSUME NEW c \in Clusters PROVE (BuildOK(c) /\ ConfigMapOK(c) /\ AppliedOK(c))'
  <2>1. (Early(c) <=> Early(c)') /\ (Late(c) <=> Late(c)')
    BY <1>1 DEF Early, Late
  <2> QED BY <1>1, <2>1 DEF BuildInv, BuildOK, ConfigMapOK, AppliedOK
<1> QED BY <1>2, <1>3 DEF BuildInv

LEMMA BuildStep == BuildInv /\ [BuildNext]_buildVars => BuildInv'
<1> SUFFICES ASSUME BuildInv, [BuildNext]_buildVars PROVE BuildInv'
  OBVIOUS
<1>1. ASSUME NEW c \in Clusters, RefuseBuild(c) PROVE BuildInv'
  BY <1>1, StillBuild DEF RefuseBuild
<1>2. CASE \E c \in Clusters : \/ BeginBuild(c) \/ RefuseBuild(c) \/ PropagateImage(c) \/ Assemble(c)
                               \/ InjectNext(c) \/ CompleteBuild(c)
                               \/ ApplyConfigMap(c) \/ ApplyWorkload(c) \/ EditInput(c)
  BY <1>1, <1>2, BeginStep, StampStep, AssembleStep, InjectStep, CompleteStep, ConfigMapStep, WorkloadStep,
     EditStep
<1>3. CASE CrashBuilds
  BY <1>3, CrashStep
<1>4. CASE UNCHANGED buildVars
  BY <1>4, StillBuild
<1> QED BY <1>2, <1>3, <1>4 DEF BuildNext

-----------------------------------------------------------------------------
(* The theorems.                                                            *)

\* Every step of any of the concurrent builds keeps the invariant: the build
\* holds a manager of its own, and its pod, while it is put together, what the
\* framework relies on.
THEOREM BuildsInvariant == BuildSpec => []BuildInv
BY BuildInitInv, BuildStep, PTL DEF BuildSpec

LEMMA InvMountsKept == BuildInv => FrameworkMountsKept
<1> SUFFICES ASSUME BuildInv, NEW c \in Clusters, Assembled(c)
             PROVE  LET in == build[c].in
                        pod == build[c].pod
                        main == pod.containers[in.decl.main]
                    IN /\ in.decl.main \notin DOMAIN pod.inits =>
                            /\ <<ConfigPath, "config">> \in main.mounts
                            /\ in.storage => \A d \in in.decl.data : <<d.path, ClaimName(d)>> \in main.mounts
                       /\ NamesVolume(in, "config") \/ <<"config", c>> \in pod.volumes
                       /\ \A x \in allPodContainers(pod) : \A m \in x.mounts :
                            m[2] \in Declared(pod) \/ Unchecked(in, m)
                       /\ ~in.direct => pod.claims \cap reservedVolumeNames = {}
  BY Zenon DEF FrameworkMountsKept
<1> DEFINE in == build[c].in
           pod == build[c].pod
<1>1. Late(c)
  BY Running, NotIdle DEF Assembled
<1>2. MountsOK(pod, c, in)
  BY <1>1 DEF Late, PodOK
<1> HIDE DEF in, pod
<1>3. \A x \in allPodContainers(pod) : \A m \in x.mounts : m[2] \in Declared(pod) \/ Unchecked(in, m)
  BY <1>2 DEF MountsOK, MountsDeclared, allPodContainers
<1> QED BY <1>2, <1>3 DEF MountsOK, MainMounts, in, pod

\* Whatever the podOverrides and the sidecars, a pod that is assembled keeps
\* the framework's mounts, has a volume for each of its mounts but those a
\* VolumeProvider asks for in a build without podOverrides, and no claim hides a
\* volume of the framework (checkPodOverrideMountInvariants,
\* RoleDeclaration.Validate).
THEOREM FrameworkMountsSafe == BuildSpec => []FrameworkMountsKept
BY BuildsInvariant, InvMountsKept, PTL

LEMMA InvImagesOwn == BuildInv => ImagesOwn
<1> SUFFICES ASSUME BuildInv, NEW c \in Clusters, workload[c].exists,
                    NEW x \in allPodContainers(workload[c].pod)
             PROVE  /\ x.image # NoImage
                    /\ x.image \in {workload[c].in.image, OwnImage}
                                     \cup {k.image : k \in allPodContainers(workload[c].in.overrides)}
  BY Zenon DEF ImagesOwn
<1> DEFINE in == workload[c].in
           pod == workload[c].pod
<1>1. AppliedOK(c) /\ workload[c] # Nowhere
  BY DEF BuildInv, Nowhere
<1>2. ImagesOK(pod, in) /\ ~Imageless(pod)
  BY <1>1 DEF AppliedOK, WorkloadOK
<1> HIDE DEF in, pod
<1>3. x \in allPodContainers(pod)
  BY DEF pod
<1>4. IsImage(x.image, in)
  BY <1>2, <1>3 DEF ImagesOK, allPodContainers
<1>5. x.image # NoImage
  BY <1>2, <1>3 DEF Imageless
<1> QED BY <1>4, <1>5 DEF IsImage, Given, in

\* However many clusters are built at a time from one handler's sidecars, no
\* workload runs the image of another cluster or of an earlier version of its
\* own (CloneForBuild, SetProductImage).
THEOREM ImagesSafe == BuildSpec => []ImagesOwn
BY BuildsInvariant, InvImagesOwn, PTL

LEMMA InvLogsReach == BuildInv => LogsReachAgent
<1> SUFFICES ASSUME BuildInv, NEW c \in Clusters,
                    workload[c].exists, configMap[c].exists, configMap[c].in = workload[c].in,
                    ~workload[c].in.direct, ~SidecarNamesTaken(workload[c].in)
             PROVE  LET in == workload[c].in
                        pod == workload[c].pod
                        agent == "vector" \in DOMAIN pod.inits
                        logs == IF LogVolumeElsewhere(in) THEN {} ELSE Producers(in)
                    IN /\ configMap[c].fileAppender <=> agent
                       /\ \A t \in configMap[c].targets : t[2] # Console <=> agent
                       /\ agent => /\ "vector.yaml" \in configMap[c].keys
                                   /\ NamesVolume(in, "vector-config") \/ <<"vector-config", c>> \in pod.volumes
                                   /\ \A n \in logs \cup {"vector"} : <<LogPath, "log">> \in MountsOf(pod, n)
                       /\ \A p, q \in in.decl.producers : p # q => LogFile(p) # LogFile(q)
  BY Zenon DEF LogsReachAgent
<1> DEFINE in == workload[c].in
           pod == workload[c].pod
           logs == IF LogVolumeElsewhere(in) THEN {} ELSE Producers(in)
<1>1. /\ AppliedOK(c) /\ workload[c] # Nowhere /\ ConfigMapOK(c) /\ configMap[c] # Nowhere
  BY DEF BuildInv, Nowhere
<1>2. WorkloadOK(pod, c, in) /\ Plain(in) /\ configMap[c] = buildConfigMap(in)
  BY <1>1 DEF AppliedOK, ConfigMapOK, Plain
<1> HIDE DEF in, pod
<1>3. /\ DOMAIN pod.containers \cap DOMAIN pod.inits = {} /\ LogsOK(pod, {}, c, in)
      /\ AgentRuns(in) => "vector.yaml" \in buildConfigMap(in).keys
      /\ ValidateProducers(in.decl.producers)
  BY <1>2 DEF WorkloadOK
<1>4. "vector" \in DOMAIN pod.inits <=> AgentRuns(in)
  BY <1>3 DEF LogsOK
<1>5. vectorLogPipelineActive(in) <=> AgentRuns(in)
  BY <1>2 DEF vectorLogPipelineActive, AgentRuns, Plain
<1>6. configMap[c].fileAppender <=> AgentRuns(in)
  BY <1>2, <1>5 DEF buildConfigMap
<1>7. ASSUME NEW t \in configMap[c].targets PROVE t[2] # Console <=> AgentRuns(in)
  <2>1. PICK p \in in.decl.producers : t = <<p.container, LogFileTarget(in, p)>>
    BY <1>2, <1>7 DEF buildConfigMap
  <2>2. LogFile(p) # Console
    BY DEF LogFile, Console
  <2> QED BY <1>5, <2>1, <2>2 DEF LogFileTarget
<1>8. ASSUME AgentRuns(in), NEW n \in logs \cup {"vector"} PROVE <<LogPath, "log">> \in MountsOf(pod, n)
  <2>1. CASE n = "vector"
    BY <1>3, <1>4, <1>8, <2>1 DEF LogsOK, MountsOf, LogMount
  <2>2. CASE n # "vector"
    BY <1>3, <1>4, <1>8, <2>2 DEF LogsOK, LogsShared, LogMount
  <2> QED BY <2>1, <2>2
<1>9. \A p, q \in in.decl.producers : p # q => LogFile(p) # LogFile(q)
  BY <1>3 DEF ValidateProducers
<1>10. AgentRuns(in) => NamesVolume(in, "vector-config") \/ <<"vector-config", c>> \in pod.volumes
  BY <1>3, <1>4 DEF LogsOK
<1>11. AgentRuns(in) => "vector.yaml" \in configMap[c].keys
  BY <1>2, <1>3
<1> HIDE DEF logs
<1> QED BY <1>4, <1>6, <1>7, <1>8, <1>9, <1>10, <1>11 DEF in, pod, logs

\* Products write log files exactly when there is an agent, and the agent is
\* configured and shares the log volume with every container that writes, in
\* every order the sidecars are injected in (buildSidecarManager,
\* vectorLogPipelineActive, validateSidecars).
THEOREM LogsSafe == BuildSpec => []LogsReachAgent
BY BuildsInvariant, InvLogsReach, PTL

=============================================================================
