---------------------------- MODULE ConfigLayers ----------------------------
(***************************************************************************)
(* What a role group is configured with.  Three layers speak of it, the    *)
(* product below the role below the role group (for the image: the         *)
(* operator's defaults, the role's declaration, the CR), and a fold of     *)
(* each aspect decides: config_fold.go and affinity.go for the common and  *)
(* the product's own configuration, productlogging/logging.go for logging, *)
(* config/merger.go for overrides, resolved_image.go and image_types.go    *)
(* for the image; buildRoleGroupContext puts the layers in order.          *)
(*                                                                         *)
(* A layer is a partial function on the leaves of its aspect, pairs of a   *)
(* section and a field: a nil pointer and an empty struct both say         *)
(* nothing.  Layer i says i, so the effective value names its author.      *)
(***************************************************************************)
EXTENDS Integers, FiniteSets

CONSTANT Leaves   \* aspect |-> the leaves a layer may speak of

VARIABLES
  aspect,       \* what is being configured
  layers        \* the three layers of it

layerVars == <<aspect, layers>>

\* A field of a product's own configuration, by what its Go type can tell apart.
ProductKinds == {"pointer", "bare", "composite", "atomic"}
ImageFields == {"custom", "repo", "productVersion", "kubedoopVersion", "pullPolicy"}

\* An environment variable, the command line and a pointer are one value each.
ASSUME LeavesAssumption ==
  /\ DOMAIN Leaves \subseteq
       {"resources", "timeout", "logging", "files", "env", "cli", "affinity", "pod",
        "image", "unnamedImage"} \cup ProductKinds
  /\ \A a \in DOMAIN Leaves : Leaves[a] \subseteq STRING \X STRING
  /\ \A a \in DOMAIN Leaves \cap ProductKinds : \A l \in Leaves[a] : l[1] = a
  /\ \A a \in DOMAIN Leaves \cap {"image", "unnamedImage"} : Leaves[a] \subseteq {"image"} \X ImageFields
  /\ \A a \in DOMAIN Leaves \cap {"env", "cli", "pointer"} :
       \A l, m \in Leaves[a] : l[1] = m[1] => l = m

Nothing == [x \in {} |-> x]
\* A level "" or a version no image tag may hold, by its aspect.
Blank == 0
Garbled == [kind |-> "garbled", of |-> Nothing]   \* raw JSON that does not decode
Absent == [kind |-> "absent", of |-> Nothing]
Stated(of) == [kind |-> "stated", of |-> of]

Unsaid == -1
At(f, k) == IF k \in DOMAIN f THEN f[k] ELSE Nothing
Leaf(f, k) == IF k \in DOMAIN f THEN f[k] ELSE Unsaid
Sections(of) == {l[1] : l \in DOMAIN of}
Nested(of) == [s \in Sections(of) |-> [f \in {l[2] : l \in {m \in DOMAIN of : m[1] = s}} |-> of[<<s, f>>]]]
Without(f, ks) == [k \in DOMAIN f \ ks |-> f[k]]
Only(k, v) == [x \in {k} |-> v]

\* The function f, and g where f says nothing.
Above(f, g) == [k \in DOMAIN f \cup DOMAIN g |-> IF k \in DOMAIN f THEN f[k] ELSE g[k]]

-----------------------------------------------------------------------------
(* Common and product configuration, logging, plain overrides.              *)

\* Mutant: a section is taken as a whole from the topmost layer that has it.
FoldSections(lower, upper) == Above(upper, lower)

foldResources(lower, upper) ==
  [s \in DOMAIN lower \cup DOMAIN upper |-> Above(At(upper, s), At(lower, s))]

mergeConfigFiles(base, override) ==
  [s \in DOMAIN base \cup DOMAIN override |-> Above(At(override, s), At(base, s))]

mergeMaps(base, override) == Above(override, base)

\* An appender of level "" leaves the lower layer's in force; a logger of
\* level "" is dropped.
mergeContainerLogging(role, group) ==
  LET says(of, f) == f \in DOMAIN of /\ of[f] # Blank
      kept == {f \in DOMAIN role : f \in {"console", "file"} \/ says(role, f)}
                \cup {f \in DOMAIN group : says(group, f)}
  IN [f \in kept |-> IF says(group, f) THEN group[f] ELSE role[f]]

MergeLoggingSpec(role, group) ==
  [c \in DOMAIN role \cup DOMAIN group |->
     IF c \notin DOMAIN group THEN role[c]
     ELSE IF c \notin DOMAIN role THEN group[c]
     ELSE mergeContainerLogging(role[c], group[c])]

\* A type the fold can tell a stated zero of from silence, and whose fields
\* it need not replace as a whole unless they are tagged for it.
ValidateProductConfigType(kind) == kind \in {"pointer", "atomic"}

\* v.IsZero() of a field of that kind; a bare zero looks like silence.
IsZero(kind, v) == v = Nothing \/ (kind = "bare" /\ v = Only("value", 0))

FoldProductConfig(kind) ==
  LET field(i) == At(Nested(layers[i].of), kind)
      spoken == {i \in 1..3 : ~IsZero(kind, field(i))}
  IN IF spoken = {} THEN Nothing ELSE Only(kind, field(CHOOSE i \in spoken : \A j \in spoken : j <= i))

\* The merge of two neighbouring layers of an aspect.
MergeLayer(lower, upper) ==
  CASE aspect \in {"resources", "timeout"} -> foldResources(lower, upper)
    [] aspect = "logging" -> MergeLoggingSpec(lower, upper)
    [] aspect = "files" -> mergeConfigFiles(lower, upper)
    [] aspect \in {"env", "cli"} -> mergeMaps(lower, upper)

\* The config of the aspect, nested: the layers, lowest first, merged into nothing.
EffectiveConfig ==
  LET layer(i) == Nested(layers[i].of)
  IN IF aspect \in ProductKinds THEN FoldProductConfig(aspect)
     ELSE MergeLayer(MergeLayer(MergeLayer(Nothing, layer(1)), layer(2)), layer(3))

-----------------------------------------------------------------------------
(* Affinity: replaced as a whole, and what is lost by it reported.  A       *)
(* member is absent, empty (Blank) or stated.                               *)

NormalizeAffinity(a) == [m \in {n \in DOMAIN a : a[n] # Blank} |-> a[m]]

droppedAffinityMembers(lower, upper) == DOMAIN NormalizeAffinity(lower) \ DOMAIN upper

\* A layer that decodes to nothing, like {}, clears what is below it.
foldAffinity(lower, upper) ==
  IF upper.kind = "absent" THEN [of |-> lower, dropped |-> {}]
  ELSE IF NormalizeAffinity(upper.of) = Nothing THEN [of |-> Nothing, dropped |-> {}]
  ELSE [of |-> upper.of, dropped |-> droppedAffinityMembers(lower, upper.of)]

\* FoldCommonConfig: one layer that does not decode fails the group's pass.
EffectiveAffinity ==
  LET first == foldAffinity(Nothing, layers[1])
      second == foldAffinity(first.of, layers[2])
      third == foldAffinity(second.of, layers[3])
  IN IF \E i \in 1..3 : layers[i].kind = "garbled"
     THEN [error |-> TRUE, of |-> Nothing, reports |-> {}]
     ELSE [error |-> FALSE, of |-> NormalizeAffinity(third.of),
           reports |-> {<<2, m>> : m \in second.dropped} \cup {<<3, m>> : m \in third.dropped}]

-----------------------------------------------------------------------------
(* podOverrides: layers of a pod template, merged as strategic patches.     *)

\* A template encodes its containers also when it has none, and a null in a
\* patch deletes what is below it.
mergePodTemplates(base, override) ==
  LET containers == {s \in Sections(override) : s # "spec"}
      kept == IF containers = {} THEN {l \in DOMAIN base : l[1] = "spec"} ELSE DOMAIN base
  IN Above(override, [l \in kept |-> base[l]])

\* mergePodOverrideInto: a layer that does not decode is left out and kept
\* as an error; the first layer that decodes is taken as it is.
mergePodOverrideInto(base, layer) ==
  CASE layer.kind = "garbled" -> [base EXCEPT !.errors = @ + 1]
    [] layer.kind = "absent" -> base
    [] layer.kind = "stated" ->
         [base EXCEPT !.kind = "stated",
                      !.of = IF base.kind = "absent" THEN layer.of ELSE mergePodTemplates(@, layer.of)]

EffectivePod ==
  LET none == [kind |-> "absent", of |-> Nothing, errors |-> 0]
      first == mergePodOverrideInto(none, layers[1])
  IN mergePodOverrideInto(mergePodOverrideInto(first, layers[2]), layers[3])

-----------------------------------------------------------------------------
(* The image.                                                               *)

\* ImageResolution.ProductName is not empty: an image can be composed.
ProductNamed == aspect # "unnamedImage"

Coordinates == {"repo", "productVersion", "kubedoopVersion"}
StatesImage(spec) == Coordinates \cap DOMAIN spec # {}

\* A spec that states coordinates takes the custom image below it out.
foldImageSpec(spec, over) ==
  Above(spec, IF StatesImage(spec) /\ "custom" \notin DOMAIN spec THEN Without(over, {"custom"}) ELSE over)

NoReference == [kind |-> "none", from |-> Nothing]
ImageError == [kind |-> "error", from |-> Nothing]

ResolveImage(spec, defaults) ==
  LET all == Without(Above(spec, defaults), {"custom", "pullPolicy"})
  IN IF "custom" \in DOMAIN spec THEN [kind |-> "custom", from |-> Only("custom", spec["custom"])]
     ELSE IF "custom" \in DOMAIN defaults /\ ~StatesImage(spec)
          THEN [kind |-> "custom", from |-> Only("custom", defaults["custom"])]
     ELSE IF ~ProductNamed THEN NoReference
     ELSE IF {"repo", "productVersion"} \subseteq DOMAIN all
          THEN IF all["productVersion"] = Blank THEN ImageError ELSE [kind |-> "composed", from |-> all]
     ELSE IF StatesImage(spec) \/ {"repo", "productVersion"} \cap DOMAIN defaults # {}
          THEN ImageError ELSE NoReference

ResolvedProductVersion(spec, defaults) ==
  IF "custom" \in DOMAIN spec THEN Leaf(spec, "productVersion")
  ELSE IF "custom" \in DOMAIN defaults /\ ~StatesImage(spec) THEN Unsaid
  ELSE Leaf(Above(spec, defaults), "productVersion")

\* resolveImage: the CR over the declaration over the operator's defaults.
EffectiveImage ==
  LET spec(i) == At(Nested(layers[i].of), "image")
      defaults == foldImageSpec(spec(2), spec(1))
  IN [image |-> ResolveImage(spec(3), defaults),
      version |-> IF ProductNamed THEN ResolvedProductVersion(spec(3), defaults) ELSE Unsaid,
      pullPolicy |-> Leaf(Above(spec(3), defaults), "pullPolicy")]

-----------------------------------------------------------------------------
(* The product, the user of the role and the user of the group speak.       *)

\* The values layer i may give a leaf: its own, and what looks like nothing.
ValuesOf(i, l) ==
  {i} \cup (IF \/ aspect \in {"logging", "affinity", "pointer", "bare"} /\ l[2] # "agent"
               \/ l[2] = "productVersion"
            THEN {Blank} ELSE {})

MayBe(i) ==
  {[l \in S |-> IF l \in B THEN Blank ELSE i] :
     B \in SUBSET {l \in Leaves[aspect] : Blank \in ValuesOf(i, l)}, S \in SUBSET Leaves[aspect]}

LayersInit == aspect \in DOMAIN Leaves /\ layers = [i \in 1..3 |-> Absent]

\* Only affinity and podOverrides are raw JSON the API server does not check.
State(i) ==
  /\ layers[i] = Absent
  /\ \/ \E of \in MayBe(i) : layers' = [layers EXCEPT ![i] = Stated(of)]
     \/ aspect \in {"affinity", "pod"} /\ layers' = [layers EXCEPT ![i] = Garbled]
  /\ UNCHANGED aspect

Retract == layers' = [i \in 1..3 |-> Absent] /\ layers # layers' /\ UNCHANGED aspect

LayersNext == (\E i \in 1..3 : State(i)) \/ Retract

LayersSpec == LayersInit /\ [][LayersNext]_layerVars

-----------------------------------------------------------------------------
(* The property.                                                            *)

\* The layers that state leaf l, and the highest of a set of layers.
Authors(l) == {i \in 1..3 : l \in DOMAIN layers[i].of}
Highest(S) == CHOOSE i \in S : \A j \in S : j <= i
Said(S, l) == IF S = {} THEN Unsaid ELSE layers[Highest(S)].of[l]

\* Every leaf of a configuration has the value of the highest layer that
\* states one (for logging: that states a level), and a field tagged atomic
\* is that of one layer; types for which that cannot be told are refused.
ConfigFollows ==
  \/ aspect \in {"bare", "composite"} /\ ~ValidateProductConfigType(aspect)
  \/ aspect = "atomic" /\ \E i \in 1..3 : EffectiveConfig = Nested(layers[i].of)
  \/ \A l \in Leaves[aspect] :
       LET silent == IF aspect = "logging" THEN {Unsaid, Blank} ELSE {Unsaid}
           authors == {i \in Authors(l) : layers[i].of[l] \notin silent}
           got == Leaf(At(EffectiveConfig, l[1]), l[2])
       IN IF authors = {} THEN got \in silent ELSE got = Said(authors, l)

\* An affinity that does not decode is refused.  A member that a layer states
\* is in force, or the next layer to speak restates or empties it or empties
\* the affinity, or that layer is reported to discard it; and no more is
\* reported.
AffinityFollows ==
  LET a == EffectiveAffinity
      speaks == {i \in 1..3 : layers[i].kind = "stated"}
      states(i, m) == m \in DOMAIN NormalizeAffinity(layers[i].of)
      next(i) == CHOOSE j \in speaks : j > i /\ \A k \in speaks : k > i => j <= k
  IN \/ a.error
     \/ /\ speaks = {i \in 1..3 : layers[i] # Absent}
        /\ \A i \in speaks, m \in Leaves[aspect] : states(i, m) =>
             IF i = Highest(speaks) THEN m \in DOMAIN a.of /\ a.of[m] = i
             ELSE <<next(i), m>> \in a.reports
                    <=> m \notin DOMAIN layers[next(i)].of /\ NormalizeAffinity(layers[next(i)].of) # Nothing
        /\ \A m \in DOMAIN a.of : states(Highest(speaks), m)
        /\ \A p \in a.reports : \E i \in speaks : next(i) = p[1] /\ states(i, p[2])

\* A layer without containers takes out those of the layers below it.
NullContainers(j) == layers[j].kind = "stated" /\ Sections(layers[j].of) \subseteq {"spec"}

\* Every leaf of the pod template has the value of the highest layer that
\* states it, but for containers below a layer without any, and every layer
\* that does not decode is reported.
PodFollows ==
  /\ EffectivePod.errors = Cardinality({i \in 1..3 : layers[i] = Garbled})
  /\ \A l \in Leaves[aspect] :
       \/ Leaf(EffectivePod.of, l) = Said(Authors(l), l)
       \/ l[1] # "spec" /\ \E j \in 2..3 : j > Highest(Authors(l)) /\ NullContainers(j)

\* An image is never mixed: it is the custom one of the highest layer that
\* speaks of the image, or it is composed of the highest statement of each
\* coordinate; the version that is reported is that of the image, or of the
\* layer whose custom image it is.
ImageFollows ==
  LET at(f) == <<"image", f>>
      speaks == {i \in 1..3 : \E f \in Coordinates \cup {"custom"} : at(f) \in DOMAIN layers[i].of}
      custom == speaks # {} /\ at("custom") \in DOMAIN layers[Highest(speaks)].of
      top(f) == Said(Authors(at(f)), at(f))
      e == EffectiveImage
  IN /\ IF custom THEN e.image = [kind |-> "custom", from |-> Only("custom", Highest(speaks))]
        ELSE e.image.kind = "composed"
               <=> ProductNamed /\ top("repo") # Unsaid /\ top("productVersion") \notin {Unsaid, Blank}
     /\ e.image.kind = "composed" => \A f \in Coordinates : Leaf(e.image.from, f) = top(f)
     /\ e.image.kind = "composed" => e.version = top("productVersion")
     /\ custom => e.version = Unsaid \/ at("productVersion") \in DOMAIN layers[Highest(speaks)].of
     /\ e.pullPolicy = top("pullPolicy")

\* What the user of a group says is in force, before what is said of the role
\* and what the product derives, each kept where the higher ones are silent
\* (the folds of config_fold.go, logging.go, merger.go, resolved_image.go).
UserStatementWins ==
  CASE aspect = "affinity" -> AffinityFollows
    [] aspect = "pod" -> PodFollows
    [] aspect \in {"image", "unnamedImage"} -> ImageFollows
    [] OTHER -> ConfigFollows
=============================================================================
