----------------------------- MODULE MCObjects -----------------------------
(* Small instances of the components that write objects of their own:      *)
(* GeneratedSecret, DesiredState and WorkloadRBAC.  They share no state,   *)
(* so a behaviour follows one of them, the focus, and leaves the others in *)
(* their initial states.                                                   *)
EXTENDS GeneratedSecret, DesiredState, WorkloadRBAC, TLC

VARIABLE focus

objectVars == <<focus, secretVars, applyVars, rbacVars>>

ObjectsInit ==
  /\ focus \in {"secret", "apply", "rbac"}
  /\ SecretInit /\ ApplyInit /\ RBACInit

ObjectsNext ==
  /\ \/ focus = "secret" /\ SecretNext /\ UNCHANGED <<applyVars, rbacVars>>
     \/ focus = "apply" /\ ApplyNext /\ UNCHANGED <<secretVars, rbacVars>>
     \/ focus = "rbac" /\ RBACNext /\ UNCHANGED <<secretVars, applyVars>>
  /\ UNCHANGED focus

\* The fairness of the component in focus.
ObjectsFairness ==
  /\ WF_secretVars(focus = "secret" /\ SyncSecret)
  /\ \A w \in SecretWorkers : WF_secretVars(focus = "secret" /\ SecretCall(w))
  /\ WF_applyVars(focus = "apply" /\ ApplyResource)
  /\ WF_applyVars(focus = "apply" /\ RestartPods)
  /\ WF_rbacVars(focus = "rbac" /\ RBACPass)
  /\ \A o \in RBACObjects : WF_rbacVars(focus = "rbac" /\ SyncRBAC(o))

ObjectsSpec == ObjectsInit /\ [][ObjectsNext]_objectVars /\ ObjectsFairness

-----------------------------------------------------------------------------
(* The objects handlers build: a base of each kind, and the edits a user    *)
(* makes of it.                                                             *)

Claim(n, size, mode) == [name |-> n, size |-> size, mode |-> mode, phase |-> ""]
Mount(c, v, path) == [container |-> c, volume |-> v, path |-> path]
Plain(annotations) == [owner |-> "none", labels |-> {"app"}, annotations |-> annotations]

BaseSts ==
  [selector |-> {"app"}, serviceName |-> "headless", policy |-> "parallel",
   claims |-> <<Claim("data", 1, "")>>, containers |-> {"main"}, volumes |-> {"tmp"},
   mounts |-> {Mount("main", "data", "/data"), Mount("main", "data", "/wal"),
               Mount("main", "tmp", "/tmp")},
   templateLabels |-> {"app"}, templateAnnotations |-> << >>] @@ Plain(<< >>)

StsShapes ==
  {BaseSts,
   [BaseSts EXCEPT !.serviceName = "other", !.policy = ""],
   [BaseSts EXCEPT !.serviceName = "", !.policy = "ordered", !.templateAnnotations = "own" :> 1],
   \* A layout the old selector matches, and one it does not.
   [BaseSts EXCEPT !.selector = {"app", "role"}, !.templateLabels = {"app", "role"}],
   [BaseSts EXCEPT !.selector = {"role"}, !.templateLabels = {"role"}],
   \* Storage resized, renamed, added, removed, replaced by another volume.
   [BaseSts EXCEPT !.claims = <<Claim("data", 2, "fs")>>],
   [BaseSts EXCEPT !.claims = <<Claim("data2", 1, "")>>,
                   !.mounts = {Mount("main", "data2", "/data")}],
   [BaseSts EXCEPT !.claims = @ \o <<Claim("log", 1, "")>>,
                   !.mounts = @ \cup {Mount("main", "log", "/log")}],
   [BaseSts EXCEPT !.claims = << >>, !.mounts = {Mount("main", "tmp", "/tmp")}],
   [BaseSts EXCEPT !.claims = << >>, !.mounts = {Mount("main", "tmp", "/data")}],
   [BaseSts EXCEPT !.claims = << >>, !.volumes = @ \cup {"data"},
                   !.mounts = {Mount("main", "data", "/data")}],
   [BaseSts EXCEPT !.containers = @ \cup {"side"},
                   !.mounts = @ \cup {Mount("side", "data", "/data")}],
   [BaseSts EXCEPT !.claims = << >>, !.containers = {"side"},
                   !.mounts = {Mount("side", "tmp", "/tmp")}]}

ServicePort(n, port, nodePort) == [name |-> n, port |-> port, nodePort |-> nodePort]

BaseSvc ==
  [type |-> "NodePort", clusterIP |-> "", loadBalancerClass |-> "",
   ports |-> <<ServicePort("http", 80, 0), ServicePort("rpc", 90, 0)>>] @@ Plain(<< >>)

SvcShapes ==
  {BaseSvc,
   [BaseSvc EXCEPT !.type = "ClusterIP"],
   [BaseSvc EXCEPT !.clusterIP = "None", !.type = "ClusterIP"],
   [BaseSvc EXCEPT !.loadBalancerClass = "lb", !.type = "LoadBalancer"]}
  \cup
  {[BaseSvc EXCEPT !.ports = ps] : ps \in
     {<<ServicePort("web", 80, 0), ServicePort("rpc", 90, 0)>>,
      <<ServicePort("http", 8080, 0), ServicePort("web", 80, 0)>>,
      <<ServicePort("rpc", 80, 0), ServicePort("http", 90, 0)>>,
      <<ServicePort("http", 8080, 0)>>,
      <<ServicePort("", 80, 0)>>,
      <<ServicePort("http", 80, 7), ServicePort("rpc", 90, 0)>>}}

BaseJob ==
  [selector |-> "", template |-> [spec |-> "migrate", defaulted |-> FALSE],
   completions |-> 0, parallelism |-> 1] @@ Plain(<< >>)

JobShapes ==
  {BaseJob,
   [BaseJob EXCEPT !.template = [spec |-> "other", defaulted |-> TRUE]],
   [BaseJob EXCEPT !.completions = 2, !.parallelism = 2]}

FieldShapes ==
  {Plain("own" :> 1) @@ [fields |-> "spec" :> 1],
   Plain("own" :> 2) @@ [fields |-> ("spec" :> 2) @@ ("status" :> 9)],
   Plain(<< >>) @@ [fields |-> ("spec" :> 1) @@ ("data" :> 1)]}

MCShapes ==
  [k \in ApplyKinds |-> CASE k = "sts" -> StsShapes
                          [] k = "svc" -> SvcShapes
                          [] k = "job" -> JobShapes
                          [] OTHER     -> FieldShapes]
=============================================================================
