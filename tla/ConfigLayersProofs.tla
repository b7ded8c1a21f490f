------------------------- MODULE ConfigLayersProofs -------------------------
(***************************************************************************)
(* Proofs about ConfigLayers, for any sections and fields: every fold      *)
(* gives a leaf the value of the highest layer that states it.  The        *)
(* lemmas say what a merge of two layers does to one leaf; a fold is three *)
(* of them, and what the highest layer says is compared leaf by leaf.      *)
(***************************************************************************)
EXTENDS ConfigLayers, FiniteSetTheorems, TLAPS

\* What a layer i may be: nothing, a partial function on the leaves, or a raw
\* value that does not decode.
LayerOK(i) ==
  \/ layers[i] = Absent
  \/ layers[i] = Garbled /\ aspect \in {"affinity", "pod"}
  \/ /\ layers[i] = Stated(layers[i].of)
     /\ layers[i].of \in [DOMAIN layers[i].of -> {i, Blank}]
     /\ DOMAIN layers[i].of \subseteq Leaves[aspect]
     /\ \A l \in DOMAIN layers[i].of : layers[i].of[l] \in ValuesOf(i, l)

LayersInv ==
  /\ aspect \in DOMAIN Leaves /\ DOMAIN layers = 1..3
  /\ \A i \in 1..3 : LayerOK(i)

LEMMA Three == 1..3 = {1, 2, 3}
OBVIOUS

LEMMA EmptyNothing ==
  /\ DOMAIN Nothing = {}
  /\ \A S, f : DOMAIN f = {} /\ f = [x \in DOMAIN f |-> f[x]] => f = Nothing
BY DEF Nothing

LEMMA LayersInitInv == LayersInit => LayersInv
BY DEF LayersInit, LayersInv, LayerOK

LEMMA LayersStep == LayersInv /\ [LayersNext]_layerVars => LayersInv'
<1> SUFFICES ASSUME LayersInv, [LayersNext]_layerVars PROVE LayersInv'
  OBVIOUS
<1>1. ASSUME NEW i \in 1..3, State(i) PROVE LayersInv'
  <2>1. aspect' = aspect /\ aspect \in DOMAIN Leaves /\ DOMAIN layers = 1..3
    BY <1>1 DEF State, LayersInv
  <2>2. CASE aspect \in {"affinity", "pod"} /\ layers' = [layers EXCEPT ![i] = Garbled]
    BY <2>1, <2>2 DEF LayersInv, LayerOK, ValuesOf
  <2>3. CASE \E of \in MayBe(i) : layers' = [layers EXCEPT ![i] = Stated(of)]
    <3>1. PICK of \in MayBe(i) : layers' = [layers EXCEPT ![i] = Stated(of)]
      BY <2>3
    <3>2. PICK B \in SUBSET {l \in Leaves[aspect] : Blank \in ValuesOf(i, l)},
               S \in SUBSET Leaves[aspect] :
            of = [l \in S |-> IF l \in B THEN Blank ELSE i]
      BY <3>1 DEF MayBe
    <3>3. layers'[i] = Stated(of) /\ layers'[i].of = of
      BY <2>1, <3>1 DEF Stated
    <3>4. of \in [DOMAIN of -> {i, Blank}] /\ DOMAIN of \subseteq Leaves[aspect]
      BY <3>2
    <3>5. \A l \in DOMAIN of : of[l] \in ValuesOf(i, l)
      BY <3>2 DEF ValuesOf
    <3>6. LayerOK(i)'
      BY <2>1, <3>3, <3>4, <3>5 DEF LayerOK, ValuesOf
    <3>7. ASSUME NEW j \in 1..3, j # i PROVE LayerOK(j)'
      BY <2>1, <3>1, <3>7 DEF LayersInv, LayerOK, ValuesOf
    <3> QED BY <2>1, <3>1, <3>6, <3>7 DEF LayersInv
  <2> QED BY <1>1, <2>2, <2>3 DEF State
<1>2. CASE Retract
  BY <1>2 DEF Retract, LayersInv, LayerOK
<1>3. CASE UNCHANGED layerVars
  BY <1>3 DEF layerVars, LayersInv, LayerOK, ValuesOf
<1> QED BY <1>1, <1>2, <1>3 DEF LayersNext

-----------------------------------------------------------------------------
(* One leaf of a layer.                                                     *)

\* What layer i says of leaf l.
Says(i, l) == Leaf(layers[i].of, l)

\* The statement of the highest layer that makes one.
Topmost(l) ==
  IF Says(3, l) # Unsaid THEN Says(3, l) ELSE IF Says(2, l) # Unsaid THEN Says(2, l) ELSE Says(1, l)

\* A layer is a partial function on the leaves.
Partial(of) == of = [l \in DOMAIN of |-> of[l]]

LEMMA LayerFacts ==
  ASSUME LayersInv, NEW i \in 1..3
  PROVE  /\ DOMAIN layers[i].of \subseteq Leaves[aspect]
         /\ Partial(layers[i].of)
         /\ \A l \in DOMAIN layers[i].of : layers[i].of[l] \in {i, Blank} /\ layers[i].of[l] \in ValuesOf(i, l)
<1>1. LayerOK(i)  BY DEF LayersInv
<1>2. CASE layers[i] \in {Absent, Garbled}
  <2>1. layers[i].of = Nothing  BY <1>2 DEF Absent, Garbled
  <2> QED BY <2>1 DEF Nothing, Partial
<1>3. CASE layers[i] \notin {Absent, Garbled}
  BY <1>1, <1>3 DEF LayerOK, Partial
<1> QED BY <1>2, <1>3

LEMMA SaysFacts ==
  ASSUME LayersInv, NEW i \in 1..3, NEW l
  PROVE  /\ Says(i, l) \in {Unsaid, Blank, i}
         /\ Says(i, l) # Unsaid <=> l \in DOMAIN layers[i].of
         /\ l \in DOMAIN layers[i].of => Says(i, l) = layers[i].of[l]
         /\ i \in Authors(l) <=> Says(i, l) # Unsaid
         /\ l \notin Leaves[aspect] => Says(i, l) = Unsaid
         /\ Says(i, l) = Blank => Blank \in ValuesOf(i, l)
<1>1. \A m \in DOMAIN layers[i].of : layers[i].of[m] \in {i, Blank} /\ layers[i].of[m] \in ValuesOf(i, m)
  BY LayerFacts
<1>2. DOMAIN layers[i].of \subseteq Leaves[aspect]  BY LayerFacts
<1> QED BY <1>1, <1>2 DEF Says, Leaf, Unsaid, Blank, Authors

\* The highest of a set of layers.
LEMMA HighestIs ==
  ASSUME NEW S \in SUBSET (1..3)
  PROVE  /\ 3 \in S => Highest(S) = 3
         /\ 3 \notin S /\ 2 \in S => Highest(S) = 2
         /\ 3 \notin S /\ 2 \notin S /\ 1 \in S => Highest(S) = 1
         /\ S = {} \/ Highest(S) \in S
<1>1. ASSUME NEW h \in S, \A j \in S : j <= h PROVE Highest(S) = h
  <2>1. \A i \in S : (\A j \in S : j <= i) => i = h  BY <1>1
  <2> QED BY <1>1, <2>1 DEF Highest
<1> QED BY <1>1, Three

\* Said of the authors of a leaf is the topmost statement.
LEMMA SaidTopmost ==
  ASSUME LayersInv, NEW l
  PROVE  Said(Authors(l), l) = Topmost(l)
<1> DEFINE S == Authors(l)
<1>1. S \in SUBSET (1..3)  BY DEF Authors
<1>2. /\ 1 \in S <=> Says(1, l) # Unsaid
      /\ 2 \in S <=> Says(2, l) # Unsaid
      /\ 3 \in S <=> Says(3, l) # Unsaid
      /\ 1 \in S => Says(1, l) = layers[1].of[l]
      /\ 2 \in S => Says(2, l) = layers[2].of[l]
      /\ 3 \in S => Says(3, l) = layers[3].of[l]
  BY SaysFacts
<1> HIDE DEF S
<1>3. S = {} <=> 1 \notin S /\ 2 \notin S /\ 3 \notin S
  BY <1>1, Three
<1>4. Said(S, l) = Topmost(l)
  BY <1>1, <1>2, <1>3, HighestIs DEF Said, Topmost
<1> QED BY <1>4 DEF S

-----------------------------------------------------------------------------
(* One leaf of a merge.                                                     *)

\* What a nested configuration says of a leaf, and whether it says anything.
Value(conf, l) == Leaf(At(conf, l[1]), l[2])
States(conf, l) == l[2] \in DOMAIN At(conf, l[1])
IsPair(l) == l = <<l[1], l[2]>>

LEMMA NestedValue ==
  ASSUME NEW of, \A m \in DOMAIN of : IsPair(m), NEW l, IsPair(l)
  PROVE  /\ Value(Nested(of), l) = Leaf(of, l)
         /\ States(Nested(of), l) <=> l \in DOMAIN of
         /\ l[1] \in DOMAIN Nested(of) <=> \E m \in DOMAIN of : m[1] = l[1]
         /\ l \in DOMAIN of => l[1] \in DOMAIN Nested(of)
<1> DEFINE s == l[1]
           fields == {m[2] : m \in {n \in DOMAIN of : n[1] = s}}
<1>1. l = <<s, l[2]>> /\ \A m \in DOMAIN of : m = <<m[1], m[2]>>  BY DEF IsPair
<1>2. DOMAIN Nested(of) = Sections(of)  BY DEF Nested
<1>3. s \in Sections(of) <=> \E m \in DOMAIN of : m[1] = s  BY DEF Sections
<1>4. l[2] \in fields <=> l \in DOMAIN of  BY <1>1
<1>5. s \in Sections(of) => Nested(of)[s] = [f \in fields |-> of[<<s, f>>]]
  BY DEF Nested
<1>6. CASE s \in Sections(of)
  <2>1. At(Nested(of), s) = [f \in fields |-> of[<<s, f>>]]  BY <1>2, <1>5, <1>6 DEF At
  <2> QED BY <1>1, <1>2, <1>3, <1>4, <1>6, <2>1 DEF Value, States, Leaf
<1>7. CASE s \notin Sections(of)
  <2>1. DOMAIN At(Nested(of), s) = {}  BY <1>2, <1>7, EmptyNothing DEF At
  <2> QED BY <1>2, <1>3, <1>7, <2>1 DEF Value, States, Leaf
<1> QED BY <1>6, <1>7

\* The layers of an aspect, nested.
LEMMA LayerValue ==
  ASSUME LayersInv, NEW i \in 1..3, NEW l \in Leaves[aspect]
  PROVE  /\ Value(Nested(layers[i].of), l) = Says(i, l)
         /\ States(Nested(layers[i].of), l) <=> Says(i, l) # Unsaid
<1>1. IsPair(l) /\ \A m \in DOMAIN layers[i].of : IsPair(m)
  BY LeavesAssumption, LayerFacts DEF LayersInv, IsPair
<1>2. Says(i, l) # Unsaid <=> l \in DOMAIN layers[i].of  BY SaysFacts
<1> QED BY <1>1, <1>2, NestedValue DEF Says

LEMMA NothingSaid == ASSUME NEW l PROVE Value(Nothing, l) = Unsaid /\ ~States(Nothing, l)
BY EmptyNothing DEF Value, States, Leaf, At

\* foldResources and mergeConfigFiles decide field by field.
LEMMA FieldWise ==
  ASSUME NEW lower, NEW upper, NEW l
  PROVE  /\ Value(foldResources(lower, upper), l)
              = IF States(upper, l) THEN Value(upper, l) ELSE Value(lower, l)
         /\ mergeConfigFiles(lower, upper) = foldResources(lower, upper)
<1> DEFINE s == l[1]
           r == foldResources(lower, upper)
<1>1. mergeConfigFiles(lower, upper) = r  BY DEF foldResources, mergeConfigFiles
<1>2. CASE s \in DOMAIN lower \cup DOMAIN upper
  <2>1. At(r, s) = Above(At(upper, s), At(lower, s))  BY <1>2 DEF foldResources, At
  <2> QED BY <1>1, <2>1 DEF Value, States, Leaf, Above
<1>3. CASE s \notin DOMAIN lower \cup DOMAIN upper
  <2>1. At(r, s) = Nothing /\ At(lower, s) = Nothing /\ At(upper, s) = Nothing
    BY <1>3 DEF foldResources, At
  <2> QED BY <1>1, <2>1, EmptyNothing DEF Value, States, Leaf
<1> QED BY <1>2, <1>3

\* mergeMaps takes a section as a whole.
LEMMA SectionWise ==
  ASSUME NEW lower, NEW upper, NEW l
  PROVE  Value(mergeMaps(lower, upper), l)
           = IF l[1] \in DOMAIN upper THEN Value(upper, l) ELSE Value(lower, l)
BY DEF mergeMaps, Above, Value, At

\* MergeLoggingSpec: a level of the upper layer, or else what the lower one says.
Quiet(v) == v \in {Unsaid, Blank}

LEMMA LevelWise ==
  ASSUME NEW lower, NEW upper, NEW l, States(upper, l) => Value(upper, l) # Unsaid
  PROVE  LET v == Value(MergeLoggingSpec(lower, upper), l)
             a == Value(lower, l)
             b == Value(upper, l)
         IN /\ ~Quiet(b) => v = b
            /\ Quiet(b) /\ ~Quiet(a) => v = a
            /\ Quiet(b) /\ Quiet(a) => Quiet(v)
<1> DEFINE c == l[1]
           f == l[2]
           r == MergeLoggingSpec(lower, upper)
<1>1. DOMAIN r = DOMAIN lower \cup DOMAIN upper  BY DEF MergeLoggingSpec
<1>2. CASE c \notin DOMAIN upper
  <2>1. At(r, c) = At(lower, c) /\ At(upper, c) = Nothing
    BY <1>1, <1>2 DEF MergeLoggingSpec, At
  <2> QED BY <2>1, EmptyNothing DEF Value, Leaf, Quiet
<1>3. CASE c \in DOMAIN upper /\ c \notin DOMAIN lower
  <2>1. At(r, c) = At(upper, c) /\ At(lower, c) = Nothing
    BY <1>1, <1>3 DEF MergeLoggingSpec, At
  <2> QED BY <2>1, EmptyNothing DEF Value, Leaf, Quiet
<1>4. CASE c \in DOMAIN upper /\ c \in DOMAIN lower
  <2> DEFINE role == lower[c]
             group == upper[c]
             says(of, g) == g \in DOMAIN of /\ of[g] # Blank
             kept == {g \in DOMAIN role : g \in {"console", "file"} \/ says(role, g)}
                       \cup {g \in DOMAIN group : says(group, g)}
             m == [g \in kept |-> IF says(group, g) THEN group[g] ELSE role[g]]
  <2>1. r[c] = mergeContainerLogging(role, group)  BY <1>4 DEF MergeLoggingSpec
  <2>2. mergeContainerLogging(role, group) = m  BY DEF mergeContainerLogging
  <2>3. At(r, c) = m /\ At(lower, c) = role /\ At(upper, c) = group
    BY <1>1, <1>4, <2>1, <2>2 DEF At
  <2>4. Value(r, l) = Leaf(m, f) /\ Value(lower, l) = Leaf(role, f) /\ Value(upper, l) = Leaf(group, f)
    BY <2>3 DEF Value
  <2>4a. f \in DOMAIN group => group[f] # Unsaid
    BY <2>3, <2>4 DEF States, Leaf
  <2> HIDE DEF role, group
  <2>5. ~Quiet(Leaf(group, f)) => Leaf(m, f) = Leaf(group, f)
    BY DEF Leaf, Quiet, Blank, Unsaid
  <2>6. Quiet(Leaf(group, f)) /\ ~Quiet(Leaf(role, f)) => Leaf(m, f) = Leaf(role, f)
    BY <2>4a DEF Leaf, Quiet, Blank, Unsaid
  <2>7. Quiet(Leaf(group, f)) /\ Quiet(Leaf(role, f)) => Quiet(Leaf(m, f))
    BY DEF Leaf, Quiet, Blank, Unsaid
  <2> QED BY <2>4, <2>5, <2>6, <2>7
<1> QED BY <1>2, <1>3, <1>4

-----------------------------------------------------------------------------
(* Configurations that are merged layer by layer.                           *)

\* The layers that speak of l, some statements counting as silence.
Speakers(l, silent) == {i \in Authors(l) : layers[i].of[l] \notin silent}

LEMMA SpeakersSaid ==
  ASSUME LayersInv, NEW l, NEW silent, Unsaid \in silent
  PROVE  LET S == Speakers(l, silent)
         IN /\ Says(3, l) \notin silent => S # {} /\ Said(S, l) = Says(3, l)
            /\ Says(3, l) \in silent /\ Says(2, l) \notin silent => S # {} /\ Said(S, l) = Says(2, l)
            /\ Says(3, l) \in silent /\ Says(2, l) \in silent /\ Says(1, l) \notin silent
                 => S # {} /\ Said(S, l) = Says(1, l)
            /\ Says(3, l) \in silent /\ Says(2, l) \in silent /\ Says(1, l) \in silent => S = {}
<1> DEFINE S == Speakers(l, silent)
<1>1. S \in SUBSET (1..3)  BY DEF Speakers, Authors
<1>2. ASSUME NEW i \in 1..3
      PROVE  (i \in S <=> Says(i, l) \notin silent) /\ (i \in S => Says(i, l) = layers[i].of[l])
  BY SaysFacts DEF Speakers
<1> HIDE DEF S
<1>3. /\ 1 \in S <=> Says(1, l) \notin silent
      /\ 2 \in S <=> Says(2, l) \notin silent
      /\ 3 \in S <=> Says(3, l) \notin silent
      /\ 1 \in S => Says(1, l) = layers[1].of[l]
      /\ 2 \in S => Says(2, l) = layers[2].of[l]
      /\ 3 \in S => Says(3, l) = layers[3].of[l]
  BY <1>2
<1>4. S = {} <=> 1 \notin S /\ 2 \notin S /\ 3 \notin S
  BY <1>1, Three
<1>5. /\ 3 \in S => Highest(S) = 3
      /\ 3 \notin S /\ 2 \in S => Highest(S) = 2
      /\ 3 \notin S /\ 2 \notin S /\ 1 \in S => Highest(S) = 1
  BY <1>1, HighestIs
<1>6. /\ 3 \in S => Said(S, l) = Says(3, l)
      /\ 3 \notin S /\ 2 \in S => Said(S, l) = Says(2, l)
      /\ 3 \notin S /\ 2 \notin S /\ 1 \in S => Said(S, l) = Says(1, l)
  BY <1>3, <1>4, <1>5 DEF Said
<1> QED BY <1>3, <1>4, <1>6 DEF S

\* The leaf l of a configuration is what ConfigFollows asks it to be.
LeafFollows(l, silent) ==
  LET authors == Speakers(l, silent)
      got == Value(EffectiveConfig, l)
  IN IF authors = {} THEN got \in silent ELSE got = Said(authors, l)

LEMMA LeavesFollow ==
  ASSUME \A l \in Leaves[aspect] :
           LeafFollows(l, IF aspect = "logging" THEN {Unsaid, Blank} ELSE {Unsaid})
  PROVE  ConfigFollows
BY DEF ConfigFollows, LeafFollows, Speakers, Value

\* A leaf that is the topmost statement follows.
LEMMA TopmostFollows ==
  ASSUME LayersInv, NEW l, Value(EffectiveConfig, l) = Topmost(l)
  PROVE  LeafFollows(l, {Unsaid})
BY SpeakersSaid DEF LeafFollows, Topmost

\* The three merges of a configuration that is not a product's.
LEMMA Merges ==
  ASSUME aspect \notin ProductKinds
  PROVE  EffectiveConfig = MergeLayer(MergeLayer(MergeLayer(Nothing, Nested(layers[1].of)),
                                                 Nested(layers[2].of)), Nested(layers[3].of))
BY DEF EffectiveConfig

LEMMA FieldsFollow ==
  ASSUME LayersInv, aspect \in {"resources", "timeout", "files"}
  PROVE  ConfigFollows
<1>1. ASSUME NEW l \in Leaves[aspect] PROVE Value(EffectiveConfig, l) = Topmost(l)
  <2> DEFINE n(i) == Nested(layers[i].of)
             a == foldResources(Nothing, n(1))
             b == foldResources(a, n(2))
             c == foldResources(b, n(3))
  <2>1. \A lower, upper : MergeLayer(lower, upper) = foldResources(lower, upper)
    BY FieldWise DEF MergeLayer
  <2>2. EffectiveConfig = c  BY <2>1, Merges DEF ProductKinds
  <2>3. /\ Value(n(1), l) = Says(1, l) /\ (States(n(1), l) <=> Says(1, l) # Unsaid)
        /\ Value(n(2), l) = Says(2, l) /\ (States(n(2), l) <=> Says(2, l) # Unsaid)
        /\ Value(n(3), l) = Says(3, l) /\ (States(n(3), l) <=> Says(3, l) # Unsaid)
    BY LayerValue
  <2>4. Value(a, l) = Says(1, l)
    BY <2>3, FieldWise, NothingSaid
  <2> HIDE DEF a
  <2>5. Value(b, l) = IF Says(2, l) # Unsaid THEN Says(2, l) ELSE Says(1, l)
    BY <2>3, <2>4, FieldWise
  <2> HIDE DEF b
  <2>6. Value(c, l) = IF Says(3, l) # Unsaid THEN Says(3, l) ELSE Value(b, l)
    BY <2>3, FieldWise
  <2> QED BY <2>2, <2>5, <2>6 DEF Topmost
<1> QED BY <1>1, TopmostFollows, LeavesFollow

\* Whole sections will do where a section is one leaf.
LEMMA SectionsFollow ==
  ASSUME LayersInv, aspect \in {"env", "cli"}
  PROVE  ConfigFollows
<1>1. ASSUME NEW l \in Leaves[aspect] PROVE Value(EffectiveConfig, l) = Topmost(l)
  <2> DEFINE n(i) == Nested(layers[i].of)
             a == mergeMaps(Nothing, n(1))
             b == mergeMaps(a, n(2))
             c == mergeMaps(b, n(3))
  <2>1. \A lower, upper : MergeLayer(lower, upper) = mergeMaps(lower, upper)
    BY DEF MergeLayer
  <2>2. EffectiveConfig = c  BY <2>1, Merges DEF ProductKinds
  <2>3. ASSUME NEW i \in 1..3
        PROVE  Value(n(i), l) = Says(i, l) /\ (l[1] \in DOMAIN n(i) <=> Says(i, l) # Unsaid)
    <3>1. IsPair(l) /\ \A m \in DOMAIN layers[i].of : IsPair(m)
      BY LeavesAssumption, LayerFacts DEF LayersInv, IsPair
    <3>2. l[1] \in DOMAIN n(i) <=> \E m \in DOMAIN layers[i].of : m[1] = l[1]
      BY <3>1, NestedValue
    <3>3. \A m \in DOMAIN layers[i].of : m[1] = l[1] => m = l
      BY LeavesAssumption, LayerFacts DEF LayersInv
    <3> QED BY <3>2, <3>3, LayerValue, SaysFacts
  <2>4. /\ Value(n(1), l) = Says(1, l) /\ (l[1] \in DOMAIN n(1) <=> Says(1, l) # Unsaid)
        /\ Value(n(2), l) = Says(2, l) /\ (l[1] \in DOMAIN n(2) <=> Says(2, l) # Unsaid)
        /\ Value(n(3), l) = Says(3, l) /\ (l[1] \in DOMAIN n(3) <=> Says(3, l) # Unsaid)
    BY <2>3
  <2>5. Value(a, l) = Says(1, l)
    BY <2>4, SectionWise, NothingSaid
  <2> HIDE DEF a
  <2>6. Value(b, l) = IF Says(2, l) # Unsaid THEN Says(2, l) ELSE Says(1, l)
    BY <2>4, <2>5, SectionWise
  <2> HIDE DEF b
  <2>7. Value(c, l) = IF Says(3, l) # Unsaid THEN Says(3, l) ELSE Value(b, l)
    BY <2>4, SectionWise
  <2> QED BY <2>2, <2>6, <2>7 DEF Topmost
<1> QED BY <1>1, TopmostFollows, LeavesFollow

\* The first level that is not silent, from above.
LEMMA LevelsFollow ==
  ASSUME LayersInv, aspect = "logging"
  PROVE  ConfigFollows
<1> DEFINE silent == {Unsaid, Blank}
<1>1. ASSUME NEW l \in Leaves[aspect] PROVE LeafFollows(l, silent)
  <2> DEFINE n(i) == Nested(layers[i].of)
             a == MergeLoggingSpec(Nothing, n(1))
             b == MergeLoggingSpec(a, n(2))
             c == MergeLoggingSpec(b, n(3))
  <2>1. \A lower, upper : MergeLayer(lower, upper) = MergeLoggingSpec(lower, upper)
    BY DEF MergeLayer
  <2>2. EffectiveConfig = c  BY <2>1, Merges DEF ProductKinds
  <2>3. /\ Value(n(1), l) = Says(1, l) /\ (States(n(1), l) => Value(n(1), l) # Unsaid)
        /\ Value(n(2), l) = Says(2, l) /\ (States(n(2), l) => Value(n(2), l) # Unsaid)
        /\ Value(n(3), l) = Says(3, l) /\ (States(n(3), l) => Value(n(3), l) # Unsaid)
    BY LayerValue
  <2>4. /\ ~Quiet(Says(1, l)) => Value(a, l) = Says(1, l)
        /\ Quiet(Says(1, l)) => Quiet(Value(a, l))
    BY <2>3, LevelWise, NothingSaid DEF Quiet
  <2> HIDE DEF a
  <2>5. /\ ~Quiet(Says(2, l)) => Value(b, l) = Says(2, l)
        /\ Quiet(Says(2, l)) /\ ~Quiet(Value(a, l)) => Value(b, l) = Value(a, l)
        /\ Quiet(Says(2, l)) /\ Quiet(Value(a, l)) => Quiet(Value(b, l))
    BY <2>3, LevelWise
  <2> HIDE DEF b
  <2>6. /\ ~Quiet(Says(3, l)) => Value(c, l) = Says(3, l)
        /\ Quiet(Says(3, l)) /\ ~Quiet(Value(b, l)) => Value(c, l) = Value(b, l)
        /\ Quiet(Says(3, l)) /\ Quiet(Value(b, l)) => Quiet(Value(c, l))
    BY <2>3, LevelWise
  <2> HIDE DEF c
  <2> DEFINE S == Speakers(l, silent)
  <2>7. /\ ~Quiet(Says(3, l)) => S # {} /\ Said(S, l) = Says(3, l)
        /\ Quiet(Says(3, l)) /\ ~Quiet(Says(2, l)) => S # {} /\ Said(S, l) = Says(2, l)
        /\ Quiet(Says(3, l)) /\ Quiet(Says(2, l)) /\ ~Quiet(Says(1, l))
             => S # {} /\ Said(S, l) = Says(1, l)
        /\ Quiet(Says(3, l)) /\ Quiet(Says(2, l)) /\ Quiet(Says(1, l)) => S = {}
    BY SpeakersSaid DEF Quiet
  <2> HIDE DEF S
  <2>8. IF S = {} THEN Quiet(Value(c, l)) ELSE Value(c, l) = Said(S, l)
    BY <2>4, <2>5, <2>6, <2>7
  <2> QED BY <2>2, <2>8 DEF S, LeafFollows, Quiet
<1> QED BY <1>1, LeavesFollow

-----------------------------------------------------------------------------
(* Fields of a product's own configuration.                                 *)

\* A layer of a field that is replaced as a whole.
LEMMA ProductLayer ==
  ASSUME LayersInv, aspect \in {"pointer", "atomic"}, NEW i \in 1..3
  PROVE  LET of == layers[i].of
             field == At(Nested(of), aspect)
         IN /\ IsZero(aspect, field) <=> DOMAIN of = {}
            /\ DOMAIN of = {} => Nested(of) = Nothing
            /\ DOMAIN of # {} => Nested(of) = Only(aspect, field)
<1> DEFINE of == layers[i].of
           field == At(Nested(of), aspect)
<1>1. \A l \in DOMAIN of : l[1] = aspect /\ l \in STRING \X STRING
  BY LeavesAssumption, LayerFacts DEF LayersInv, ProductKinds
<1> HIDE DEF of
<1>2. CASE DOMAIN of = {}
  <2>1. Sections(of) = {}  BY <1>2 DEF Sections
  <2>2. Nested(of) = Nothing  BY <2>1 DEF Nested, Nothing
  <2>3. field = Nothing  BY <2>2, EmptyNothing DEF At
  <2>4. IsZero(aspect, field)  BY <2>3 DEF IsZero
  <2> QED BY <1>2, <2>2, <2>4 DEF of
<1>3. CASE DOMAIN of # {}
  <2>1. Sections(of) = {aspect}  BY <1>1, <1>3 DEF Sections
  <2>2. field = Nested(of)[aspect]  BY <2>1 DEF At, Nested
  <2>3. Nested(of) = Only(aspect, field)  BY <2>1, <2>2 DEF Nested, Only
  <2>4. PICK l \in DOMAIN of : TRUE  BY <1>3
  <2>5. l[2] \in DOMAIN field
    BY <1>1, <2>1, <2>2, <2>4 DEF Nested
  <2>6. ~IsZero(aspect, field)  BY <2>5, EmptyNothing DEF IsZero
  <2> QED BY <1>3, <2>3, <2>6 DEF of
<1> QED BY <1>2, <1>3

\* The fold takes the highest layer that is not zero.
LEMMA ProductFold ==
  ASSUME LayersInv, aspect \in {"pointer", "atomic"}
  PROVE  LET spoken == {i \in 1..3 : DOMAIN layers[i].of # {}}
         IN /\ spoken = {} => EffectiveConfig = Nothing
            /\ spoken # {} => EffectiveConfig = Nested(layers[Highest(spoken)].of)
<1> DEFINE field(i) == At(Nested(layers[i].of), aspect)
           loud == {i \in 1..3 : ~IsZero(aspect, field(i))}
           spoken == {i \in 1..3 : DOMAIN layers[i].of # {}}
<1>1. loud = spoken  BY ProductLayer
<1>2. EffectiveConfig = IF loud = {} THEN Nothing ELSE Only(aspect, field(Highest(loud)))
  BY DEF EffectiveConfig, ProductKinds, FoldProductConfig, Highest
<1>3. CASE spoken = {}  BY <1>1, <1>2, <1>3
<1>4. CASE spoken # {}
  <2>1. Highest(spoken) \in spoken  BY <1>4, HighestIs
  <2>2. Nested(layers[Highest(spoken)].of) = Only(aspect, field(Highest(spoken)))
    BY <2>1, ProductLayer
  <2> QED BY <1>1, <1>2, <1>4, <2>2
<1> QED BY <1>3, <1>4

LEMMA ProductFollows ==
  ASSUME LayersInv, aspect \in ProductKinds
  PROVE  ConfigFollows
<1> DEFINE spoken == {i \in 1..3 : DOMAIN layers[i].of # {}}
<1>1. CASE aspect \in {"bare", "composite"}
  BY <1>1 DEF ConfigFollows, ValidateProductConfigType
<1>2. CASE aspect = "atomic"
  <2>1. \E i \in 1..3 : EffectiveConfig = Nested(layers[i].of)
    <3>1. CASE spoken = {}
      <4>1. EffectiveConfig = Nothing /\ DOMAIN layers[1].of = {} /\ 1 \in 1..3
        BY <1>2, <3>1, ProductFold
      <4> QED BY <1>2, <4>1, ProductLayer
    <3>2. CASE spoken # {}
      <4>1. Highest(spoken) \in 1..3  BY <3>2, HighestIs
      <4> QED BY <1>2, <3>2, <4>1, ProductFold
    <3> QED BY <3>1, <3>2
  <2> QED BY <1>2, <2>1 DEF ConfigFollows
<1>3. CASE aspect = "pointer"
  <2>1. ASSUME NEW l \in Leaves[aspect] PROVE Value(EffectiveConfig, l) = Topmost(l)
    <3>1. ASSUME NEW i \in 1..3 PROVE i \in spoken <=> Says(i, l) # Unsaid
      <4>1. \A m \in DOMAIN layers[i].of : m = l
        <5>1. \A m \in Leaves[aspect] : m[1] = l[1] => m = l
          BY <1>3, LeavesAssumption DEF LayersInv
        <5>2. \A m \in Leaves[aspect] : m[1] = aspect
          BY <1>3, LeavesAssumption DEF LayersInv, ProductKinds
        <5> QED BY <5>1, <5>2, LayerFacts
      <4> QED BY <4>1, SaysFacts
    <3>2. /\ 1 \in spoken <=> Says(1, l) # Unsaid
          /\ 2 \in spoken <=> Says(2, l) # Unsaid
          /\ 3 \in spoken <=> Says(3, l) # Unsaid
      BY <3>1
    <3>3. spoken \in SUBSET (1..3)  OBVIOUS
    <3>4. /\ spoken = {} => EffectiveConfig = Nothing
          /\ spoken # {} => EffectiveConfig = Nested(layers[Highest(spoken)].of)
      BY <1>3, ProductFold
    <3> HIDE DEF spoken
    <3>5. CASE spoken = {}
      BY <3>2, <3>4, <3>5, NothingSaid DEF Topmost
    <3>6. CASE spoken # {}
      <4>1. Highest(spoken) \in spoken  BY <3>3, <3>6, HighestIs
      <4>2. Value(EffectiveConfig, l) = Says(Highest(spoken), l)
        BY <3>3, <3>4, <3>6, <4>1, LayerValue
      <4> QED BY <3>2, <3>3, <3>6, <4>1, <4>2, HighestIs, Three DEF Topmost
    <3> QED BY <3>5, <3>6
  <2> QED BY <1>3, <2>1, TopmostFollows, LeavesFollow
<1> QED BY <1>1, <1>2, <1>3 DEF ProductKinds

-----------------------------------------------------------------------------
(* podOverrides.                                                            *)

\* A merge of two templates at one leaf.
LEMMA TemplateLeaf ==
  ASSUME NEW base, NEW over, NEW l
  PROVE  /\ l \in DOMAIN over => Leaf(mergePodTemplates(base, over), l) = over[l]
         /\ l \notin DOMAIN over /\ (l[1] = "spec" \/ ~(Sections(over) \subseteq {"spec"}))
              => Leaf(mergePodTemplates(base, over), l) = Leaf(base, l)
         /\ l \notin DOMAIN over => Leaf(mergePodTemplates(base, over), l) \in {Leaf(base, l), Unsaid}
<1> DEFINE containers == {s \in Sections(over) : s # "spec"}
           kept == IF containers = {} THEN {m \in DOMAIN base : m[1] = "spec"} ELSE DOMAIN base
           r == Above(over, [m \in kept |-> base[m]])
<1>1. mergePodTemplates(base, over) = r  BY DEF mergePodTemplates
<1>2. containers = {} <=> Sections(over) \subseteq {"spec"}  OBVIOUS
<1>3. DOMAIN r = DOMAIN over \cup kept  BY DEF Above
<1>4. \A m \in DOMAIN r : r[m] = IF m \in DOMAIN over THEN over[m] ELSE base[m]  BY DEF Above
<1>5. l[1] = "spec" \/ ~(Sections(over) \subseteq {"spec"}) => (l \in kept <=> l \in DOMAIN base)
  BY <1>2
<1>6. kept \subseteq DOMAIN base  OBVIOUS
<1> HIDE DEF r, kept
<1> QED BY <1>1, <1>3, <1>4, <1>5, <1>6 DEF Leaf

\* What is made of the layers so far: a template, or nothing yet.
PodOK(p) ==
  /\ DOMAIN p = {"kind", "of", "errors"}
  /\ p.kind \in {"absent", "stated"} /\ p.errors \in Nat
  /\ p.kind = "absent" => p.of = Nothing

\* A layer more: what it says is in force, what it does not say stays unless it
\* is about containers and the layer has none.
PodStep(i, p, r) ==
  /\ PodOK(r)
  /\ r.errors = p.errors + (IF layers[i] = Garbled THEN 1 ELSE 0)
  /\ \A l : Says(i, l) # Unsaid => Leaf(r.of, l) = Says(i, l)
  /\ \A l : Says(i, l) = Unsaid =>
       \/ Leaf(r.of, l) = Leaf(p.of, l)
       \/ /\ Leaf(r.of, l) = Unsaid /\ Leaf(p.of, l) # Unsaid
          /\ p.kind # "absent" /\ l[1] # "spec" /\ NullContainers(i)

LEMMA PodLayer ==
  ASSUME LayersInv, NEW i \in 1..3, NEW p, PodOK(p)
  PROVE  PodStep(i, p, mergePodOverrideInto(p, layers[i]))
<1> DEFINE layer == layers[i]
           r == mergePodOverrideInto(p, layer)
<1> SUFFICES PodStep(i, p, r)  OBVIOUS
<1>1. LayerOK(i)  BY DEF LayersInv
<1>2. CASE layer = Garbled
  <2>3. layer.kind = "garbled"  BY <1>2 DEF Garbled
  <2>0. r = [p EXCEPT !.errors = p.errors + 1]  BY <2>3 DEF mergePodOverrideInto
  <2>1. DOMAIN r = DOMAIN p /\ r.kind = p.kind /\ r.of = p.of /\ r.errors = p.errors + 1
    BY <2>0 DEF PodOK
  <2> HIDE DEF r
  <2>2. \A l : Says(i, l) = Unsaid  BY <1>2, EmptyNothing DEF Says, Leaf, Garbled
  <2> QED BY <1>2, <2>1, <2>2 DEF PodOK, PodStep
<1>3. CASE layer = Absent
  <2>0. layer.kind = "absent"  BY <1>3 DEF Absent
  <2>1. r = p  BY <2>0 DEF mergePodOverrideInto
  <2>2. \A l : Says(i, l) = Unsaid  BY <1>3, EmptyNothing DEF Says, Leaf, Absent
  <2>3. layer # Garbled  BY <1>3 DEF Absent, Garbled
  <2> QED BY <2>1, <2>2, <2>3 DEF PodOK, PodStep
<1>4. CASE layer.kind = "stated" /\ p.kind = "absent"
  <2>0. r = [p EXCEPT !.kind = "stated", !.of = layer.of]
    BY <1>4 DEF mergePodOverrideInto
  <2>1. DOMAIN r = DOMAIN p /\ r.kind = "stated" /\ r.of = layer.of /\ r.errors = p.errors
    BY <2>0 DEF PodOK
  <2> HIDE DEF r
  <2>2. layer # Garbled  BY <1>4 DEF Garbled
  <2>3. \A l : Leaf(p.of, l) = Unsaid  BY <1>4, EmptyNothing DEF PodOK, Leaf
  <2> QED BY <2>1, <2>2, <2>3 DEF PodOK, PodStep, Says
<1>5. CASE layer.kind = "stated" /\ p.kind # "absent"
  <2> DEFINE t == mergePodTemplates(p.of, layer.of)
  <2>0. r = [p EXCEPT !.kind = "stated", !.of = t]  BY <1>5 DEF mergePodOverrideInto
  <2>1. DOMAIN r = DOMAIN p /\ r.kind = p.kind /\ r.of = t /\ r.errors = p.errors
    BY <1>5, <2>0 DEF PodOK
  <2> HIDE DEF r
  <2>2. layer # Garbled  BY <1>5 DEF Garbled
  <2>3. ASSUME NEW l
        PROVE  /\ Says(i, l) # Unsaid => Leaf(t, l) = Says(i, l)
               /\ Says(i, l) = Unsaid =>
                    \/ Leaf(t, l) = Leaf(p.of, l)
                    \/ /\ Leaf(t, l) = Unsaid /\ Leaf(p.of, l) # Unsaid
                       /\ l[1] # "spec" /\ NullContainers(i)
    <3>1. /\ Says(i, l) # Unsaid <=> l \in DOMAIN layer.of
          /\ l \in DOMAIN layer.of => Says(i, l) = layer.of[l]
      BY SaysFacts
    <3>2. /\ l \in DOMAIN layer.of => Leaf(t, l) = layer.of[l]
          /\ l \notin DOMAIN layer.of /\ (l[1] = "spec" \/ ~(Sections(layer.of) \subseteq {"spec"}))
               => Leaf(t, l) = Leaf(p.of, l)
          /\ l \notin DOMAIN layer.of => Leaf(t, l) \in {Leaf(p.of, l), Unsaid}
      BY TemplateLeaf
    <3> QED BY <1>5, <3>1, <3>2 DEF NullContainers
  <2> HIDE DEF t
  <2> QED BY <1>5, <2>1, <2>2, <2>3 DEF PodOK, PodStep
<1>6. layer = Garbled \/ layer = Absent \/ layer.kind = "stated"
  BY <1>1 DEF LayerOK, Stated
<1> QED BY <1>2, <1>3, <1>4, <1>5, <1>6

\* A set of layers is counted one by one.
LEMMA LayerCount ==
  ASSUME NEW S \in SUBSET (1..3)
  PROVE  Cardinality(S) = (IF 1 \in S THEN 1 ELSE 0) + (IF 2 \in S THEN 1 ELSE 0)
                            + (IF 3 \in S THEN 1 ELSE 0)
<1> DEFINE A == S \cap {1}
           B == S \cap {1, 2}
<1>1. IsFiniteSet(A) /\ Cardinality(A) = IF 1 \in S THEN 1 ELSE 0
  <2>1. CASE 1 \in S
    <3>1. A = {1}  BY <2>1
    <3> QED BY <2>1, <3>1, FS_Singleton
  <2>2. CASE 1 \notin S
    <3>1. A = {}  BY <2>2
    <3> QED BY <2>2, <3>1, FS_EmptySet
  <2> QED BY <2>1, <2>2
<1>2. IsFiniteSet(B) /\ Cardinality(B) = Cardinality(A) + (IF 2 \in S THEN 1 ELSE 0)
  <2>1. CASE 2 \in S
    <3>1. B = A \cup {2} /\ 2 \notin A  BY <2>1
    <3> QED BY <1>1, <2>1, <3>1, FS_AddElement
  <2>2. CASE 2 \notin S
    <3>1. B = A  BY <2>2
    <3> QED BY <1>1, <2>2, <3>1
  <2> QED BY <2>1, <2>2
<1>3. Cardinality(S) = Cardinality(B) + (IF 3 \in S THEN 1 ELSE 0)
  <2>1. CASE 3 \in S
    <3>0. \A x \in S : x \in {1, 2, 3}  BY Three
    <3>1. S = B \cup {3} /\ 3 \notin B
      <4>1. \A x : x \in S <=> x \in B \cup {3}  BY <2>1, <3>0
      <4>2. 3 \notin B  OBVIOUS
      <4> HIDE DEF B
      <4> QED BY <4>1, <4>2
    <3> HIDE DEF B
    <3> QED BY <1>2, <2>1, <3>1, FS_AddElement
  <2>2. CASE 3 \notin S
    <3>0. \A x \in S : x \in {1, 2, 3}  BY Three
    <3>1. S = B  BY <2>2, <3>0
    <3> QED BY <1>1, <1>2, <2>2, <3>1
  <2> QED BY <2>1, <2>2
<1> HIDE DEF A, B
<1> QED BY <1>1, <1>2, <1>3

LEMMA OverridesFollow ==
  ASSUME LayersInv, aspect = "pod"
  PROVE  PodFollows
<1> DEFINE none == [kind |-> "absent", of |-> Nothing, errors |-> 0]
           p == mergePodOverrideInto(none, layers[1])
           q == mergePodOverrideInto(p, layers[2])
           r == mergePodOverrideInto(q, layers[3])
           bad == {i \in 1..3 : layers[i] = Garbled}
<1>1. EffectivePod = r  BY DEF EffectivePod
<1>2. PodOK(none)
  BY DEF PodOK
<1>3. none.errors = 0 /\ none.kind = "absent" /\ \A l : Leaf(none.of, l) = Unsaid
  BY EmptyNothing DEF Leaf
<1> HIDE DEF none
<1>4. PodStep(1, none, p)  BY <1>2, PodLayer
<1> HIDE DEF p
<1>4a. PodOK(p)  BY <1>4 DEF PodStep
<1>5. PodStep(2, p, q)  BY <1>4a, PodLayer
<1> HIDE DEF q
<1>5a. PodOK(q)  BY <1>5 DEF PodStep
<1>6. PodStep(3, q, r)  BY <1>5a, PodLayer
<1> HIDE DEF r
<1>7. r.errors = Cardinality(bad)
  <2>1. Cardinality(bad) = (IF 1 \in bad THEN 1 ELSE 0) + (IF 2 \in bad THEN 1 ELSE 0)
                             + (IF 3 \in bad THEN 1 ELSE 0)
    BY LayerCount
  <2>2. /\ 1 \in bad <=> layers[1] = Garbled
        /\ 2 \in bad <=> layers[2] = Garbled
        /\ 3 \in bad <=> layers[3] = Garbled
    OBVIOUS
  <2> HIDE DEF bad
  <2> QED BY <1>3, <1>4, <1>5, <1>6, <2>1, <2>2 DEF PodStep, PodOK
<1>8. ASSUME NEW l \in Leaves[aspect]
      PROVE  \/ Leaf(r.of, l) = Said(Authors(l), l)
             \/ l[1] # "spec" /\ \E j \in 2..3 : j > Highest(Authors(l)) /\ NullContainers(j)
  <2> DEFINE S == Authors(l)
  <2>1. S \in SUBSET (1..3)  BY DEF Authors
  <2>2. /\ 1 \in S <=> Says(1, l) # Unsaid
        /\ 2 \in S <=> Says(2, l) # Unsaid
        /\ 3 \in S <=> Says(3, l) # Unsaid
    BY SaysFacts
  <2>3. Said(S, l) = Topmost(l)  BY SaidTopmost
  <2> HIDE DEF S
  <2>4. CASE Says(3, l) # Unsaid
    BY <1>6, <2>3, <2>4 DEF Topmost, S, PodStep
  <2>5. CASE Says(3, l) = Unsaid /\ Says(2, l) # Unsaid
    <3>1. Highest(S) = 2  BY <2>1, <2>2, <2>5, HighestIs
    <3> QED BY <1>5, <1>6, <2>3, <2>5, <3>1 DEF Topmost, S, PodStep
  <2>6. CASE Says(3, l) = Unsaid /\ Says(2, l) = Unsaid /\ Says(1, l) # Unsaid
    <3>1. Highest(S) = 1  BY <2>1, <2>2, <2>6, HighestIs
    <3> QED BY <1>3, <1>4, <1>5, <1>6, <2>3, <2>6, <3>1 DEF Topmost, S, PodStep
  <2>7. CASE Says(3, l) = Unsaid /\ Says(2, l) = Unsaid /\ Says(1, l) = Unsaid
    BY <1>3, <1>4, <1>5, <1>6, <2>3, <2>7 DEF Topmost, S, PodStep
  <2> QED BY <2>4, <2>5, <2>6, <2>7
<1> QED BY <1>1, <1>7, <1>8 DEF PodFollows

-----------------------------------------------------------------------------
(* Affinity.                                                                *)

\* The members layer i states, and whether it speaks at all.
Members(i) == NormalizeAffinity(layers[i].of)
Speaks(i) == layers[i].kind = "stated"

\* What a layer makes of an affinity.
AffinityStep(i, lower, r) ==
  /\ ~Speaks(i) => r.of = lower /\ r.dropped = {} /\ Members(i) = Nothing
  /\ Speaks(i) => NormalizeAffinity(r.of) = Members(i)
  /\ Speaks(i) => r.dropped = IF Members(i) = Nothing THEN {}
                              ELSE DOMAIN NormalizeAffinity(lower) \ DOMAIN layers[i].of

LEMMA AffinityLayer ==
  ASSUME LayersInv, NEW i \in 1..3, layers[i].kind # "garbled", NEW lower
  PROVE  AffinityStep(i, lower, foldAffinity(lower, layers[i]))
<1> DEFINE r == foldAffinity(lower, layers[i])
<1> SUFFICES AffinityStep(i, lower, r)  OBVIOUS
<1>0. NormalizeAffinity(Nothing) = Nothing  BY DEF NormalizeAffinity, Nothing
<1>1. CASE Speaks(i)
  <2>1. layers[i].kind # "absent"  BY <1>1 DEF Speaks
  <2>2. CASE Members(i) = Nothing
    <3>1. r.of = Nothing /\ r.dropped = {}  BY <2>1, <2>2 DEF foldAffinity, Members
    <3> HIDE DEF r
    <3>2. NormalizeAffinity(r.of) = Members(i)  BY <1>0, <2>2, <3>1
    <3> QED BY <1>1, <2>2, <3>1, <3>2 DEF AffinityStep
  <2>3. CASE Members(i) # Nothing
    <3>1. r.of = layers[i].of /\ r.dropped = droppedAffinityMembers(lower, layers[i].of)
      BY <2>1, <2>3 DEF foldAffinity, Members
    <3> HIDE DEF r
    <3>2. NormalizeAffinity(r.of) = Members(i)  BY <3>1 DEF Members
    <3> QED BY <1>1, <2>3, <3>1, <3>2 DEF AffinityStep, droppedAffinityMembers
  <2> QED BY <2>2, <2>3
<1>2. CASE ~Speaks(i)
  <2>1. layers[i] = Absent
    <3>1. LayerOK(i)  BY DEF LayersInv
    <3> QED BY <1>2, <3>1 DEF LayerOK, Speaks, Stated, Garbled
  <2>2. layers[i].kind = "absent" /\ layers[i].of = Nothing  BY <2>1 DEF Absent
  <2>3. r.of = lower /\ r.dropped = {}  BY <2>2 DEF foldAffinity
  <2> QED BY <1>0, <1>2, <2>2, <2>3 DEF Members, AffinityStep
<1> QED BY <1>1, <1>2

\* The affinity in force and the members reported, layer by layer.
InForce == IF Speaks(3) THEN Members(3) ELSE IF Speaks(2) THEN Members(2) ELSE Members(1)
Beneath == IF Speaks(2) THEN Members(2) ELSE Members(1)
Dropped(i, lower) ==
  IF Speaks(i) /\ Members(i) # Nothing THEN DOMAIN lower \ DOMAIN layers[i].of ELSE {}

Reported(n, m) ==
  \/ n = 2 /\ m \in Dropped(2, Members(1))
  \/ n = 3 /\ m \in Dropped(3, Beneath)

LEMMA AffinityFold ==
  ASSUME LayersInv, \A i \in 1..3 : layers[i].kind # "garbled"
  PROVE  LET a == EffectiveAffinity
         IN /\ a.of = InForce
            /\ \A n, m : <<n, m>> \in a.reports <=> Reported(n, m)
            /\ \A p \in a.reports : p = <<p[1], p[2]>>
<1> DEFINE first == foldAffinity(Nothing, layers[1])
           second == foldAffinity(first.of, layers[2])
           third == foldAffinity(second.of, layers[3])
           reports == {<<2, m>> : m \in second.dropped} \cup {<<3, m>> : m \in third.dropped}
<1>1. EffectiveAffinity = [error |-> FALSE, of |-> NormalizeAffinity(third.of), reports |-> reports]
  BY DEF EffectiveAffinity
<1>0. NormalizeAffinity(Nothing) = Nothing  BY DEF NormalizeAffinity, Nothing
<1>2. NormalizeAffinity(first.of) = Members(1)
  <2>1. AffinityStep(1, Nothing, first)  BY AffinityLayer
  <2> HIDE DEF first
  <2> QED BY <1>0, <2>1 DEF AffinityStep
<1> HIDE DEF first
<1>3. NormalizeAffinity(second.of) = Beneath /\ second.dropped = Dropped(2, Members(1))
  <2>1. AffinityStep(2, first.of, second)  BY AffinityLayer
  <2> HIDE DEF second
  <2> QED BY <1>2, <2>1 DEF AffinityStep, Beneath, Dropped
<1> HIDE DEF second
<1>4. NormalizeAffinity(third.of) = InForce /\ third.dropped = Dropped(3, Beneath)
  <2>1. AffinityStep(3, second.of, third)  BY AffinityLayer
  <2> HIDE DEF third
  <2> QED BY <1>3, <2>1 DEF AffinityStep, InForce, Beneath, Dropped
<1> HIDE DEF third
<1>5. \A n, m : <<n, m>> \in reports <=> Reported(n, m)
  BY <1>3, <1>4 DEF Reported
<1>6. \A p \in reports : p = <<p[1], p[2]>>  OBVIOUS
<1> QED BY <1>1, <1>4, <1>5, <1>6

\* A member that is stated is the layer's own.
LEMMA MemberValue ==
  ASSUME LayersInv, NEW i \in 1..3, NEW m \in DOMAIN Members(i)
  PROVE  Members(i)[m] = i /\ m \in DOMAIN layers[i].of /\ m \in Leaves[aspect]
<1>1. /\ \A l \in DOMAIN layers[i].of : layers[i].of[l] \in {i, Blank}
      /\ DOMAIN layers[i].of \subseteq Leaves[aspect]
  BY LayerFacts
<1> QED BY <1>1 DEF Members, NormalizeAffinity

LEMMA AffinitiesFollow ==
  ASSUME LayersInv, aspect = "affinity"
  PROVE  AffinityFollows
<1> DEFINE a == EffectiveAffinity
           speaks == {i \in 1..3 : layers[i].kind = "stated"}
           states(i, m) == m \in DOMAIN NormalizeAffinity(layers[i].of)
           next(i) == CHOOSE j \in speaks : j > i /\ \A k \in speaks : k > i => j <= k
<1>1. CASE \E i \in 1..3 : layers[i].kind = "garbled"
  BY <1>1 DEF AffinityFollows, EffectiveAffinity
<1>2. CASE \A i \in 1..3 : layers[i].kind # "garbled"
  <2>1. speaks = {i \in 1..3 : layers[i] # Absent}
    <3>1. ASSUME NEW i \in 1..3 PROVE layers[i].kind = "stated" <=> layers[i] # Absent
      <4>1. LayerOK(i) /\ layers[i].kind # "garbled"  BY <1>2 DEF LayersInv
      <4> QED BY <4>1 DEF LayerOK, Stated, Garbled, Absent
    <3> QED BY <3>1
  <2>2. /\ 1 \in speaks <=> Speaks(1)
        /\ 2 \in speaks <=> Speaks(2)
        /\ 3 \in speaks <=> Speaks(3)
        /\ speaks \in SUBSET (1..3)
    BY DEF Speaks
  <2>3. /\ a.of = InForce
        /\ \A n, m : <<n, m>> \in a.reports <=> Reported(n, m)
        /\ \A p \in a.reports : p = <<p[1], p[2]>>
    BY <1>2, AffinityFold
  <2>4. ASSUME NEW i \in 1..3 PROVE i \notin speaks => Members(i) = Nothing
    <3>1. layers[i].kind # "garbled"  BY <1>2
    <3> QED BY <3>1, AffinityLayer DEF AffinityStep, Speaks
  <2> HIDE DEF speaks, a
  <2>5. /\ 2 \in speaks => next(1) = 2
        /\ 2 \notin speaks /\ 3 \in speaks => next(1) = 3
        /\ 3 \in speaks => next(2) = 3
    <3>1. ASSUME NEW i \in 1..3, NEW j \in speaks, j > i, \A k \in speaks : k > i => j <= k
          PROVE  next(i) = j
      <4>1. \A h \in speaks : h > i /\ (\A k \in speaks : k > i => h <= k) => h = j
        <5> SUFFICES ASSUME NEW h \in speaks, h > i, \A k \in speaks : k > i => h <= k
                     PROVE  h = j
          OBVIOUS
        <5>1. h <= j /\ j <= h /\ h \in Int /\ j \in Int  BY <3>1, <2>2
        <5> QED BY <5>1
      <4> QED BY <3>1, <4>1
    <3>2. \A k \in speaks : k \in {1, 2, 3}  BY <2>2, Three
    <3> HIDE DEF next
    <3>3. 2 \in speaks => next(1) = 2  BY <3>1, <3>2
    <3>4. 2 \notin speaks /\ 3 \in speaks => next(1) = 3  BY <3>1, <3>2
    <3>5. 3 \in speaks => next(2) = 3  BY <3>1, <3>2
    <3> QED BY <3>3, <3>4, <3>5
  <2> HIDE DEF next
  <2>6. ASSUME NEW i \in speaks, NEW m \in Leaves[aspect], states(i, m)
        PROVE  IF i = Highest(speaks) THEN m \in DOMAIN a.of /\ a.of[m] = i
               ELSE <<next(i), m>> \in a.reports
                      <=> m \notin DOMAIN layers[next(i)].of /\ NormalizeAffinity(layers[next(i)].of) # Nothing
    <3>1. i \in 1..3 /\ m \in DOMAIN Members(i) /\ Members(i)[m] = i
      BY <2>2, <2>6, MemberValue DEF Members
    <3>2. CASE i = 3
      <4>1. Highest(speaks) = 3  BY <2>2, <2>6, <3>2, HighestIs
      <4> QED BY <2>2, <2>3, <2>6, <3>1, <3>2, <4>1 DEF InForce
    <3>3. CASE i = 2 /\ 3 \notin speaks
      <4>1. Highest(speaks) = 2  BY <2>2, <2>6, <3>3, HighestIs
      <4> QED BY <2>2, <2>3, <2>6, <3>1, <3>3, <4>1 DEF InForce
    <3>4. CASE i = 1 /\ 2 \notin speaks /\ 3 \notin speaks
      <4>1. Highest(speaks) = 1  BY <2>2, <2>6, <3>4, HighestIs
      <4> QED BY <2>2, <2>3, <2>6, <3>1, <3>4, <4>1 DEF InForce
    <3>5. CASE i = 1 /\ 2 \in speaks
      <4>1. next(1) = 2 /\ Highest(speaks) # 1  BY <2>2, <2>5, <3>5, HighestIs
      <4>2. <<2, m>> \in a.reports <=> m \in Dropped(2, Members(1))  BY <2>3 DEF Reported
      <4>3. m \in Dropped(2, Members(1)) <=> m \notin DOMAIN layers[2].of /\ Members(2) # Nothing
        BY <2>2, <3>1, <3>5 DEF Dropped
      <4> QED BY <3>5, <4>1, <4>2, <4>3 DEF Members
    <3>6. CASE i = 1 /\ 2 \notin speaks /\ 3 \in speaks
      <4>1. next(1) = 3 /\ Highest(speaks) # 1  BY <2>2, <2>5, <3>6, HighestIs
      <4>2. <<3, m>> \in a.reports <=> m \in Dropped(3, Beneath)  BY <2>3 DEF Reported
      <4>3. m \in Dropped(3, Beneath) <=> m \notin DOMAIN layers[3].of /\ Members(3) # Nothing
        BY <2>2, <3>1, <3>6 DEF Dropped, Beneath
      <4> QED BY <3>6, <4>1, <4>2, <4>3 DEF Members
    <3>7. CASE i = 2 /\ 3 \in speaks
      <4>1. next(2) = 3 /\ Highest(speaks) # 2  BY <2>2, <2>5, <3>7, HighestIs
      <4>2. <<3, m>> \in a.reports <=> m \in Dropped(3, Beneath)  BY <2>3 DEF Reported
      <4>3. m \in Dropped(3, Beneath) <=> m \notin DOMAIN layers[3].of /\ Members(3) # Nothing
        BY <2>2, <2>6, <3>1, <3>7 DEF Dropped, Beneath
      <4> QED BY <3>7, <4>1, <4>2, <4>3 DEF Members
    <3> QED BY <3>1, <3>2, <3>3, <3>4, <3>5, <3>6, <3>7, Three
  <2>7. ASSUME NEW m \in DOMAIN a.of PROVE states(Highest(speaks), m)
    <3>1. m \in DOMAIN InForce  BY <2>3
    <3>2. CASE 3 \in speaks
      <4>1. Highest(speaks) = 3  BY <2>2, <3>2, HighestIs
      <4> QED BY <2>2, <3>1, <3>2, <4>1 DEF InForce, Members
    <3>3. CASE 3 \notin speaks /\ 2 \in speaks
      <4>1. Highest(speaks) = 2  BY <2>2, <3>3, HighestIs
      <4> QED BY <2>2, <3>1, <3>3, <4>1 DEF InForce, Members
    <3>4. CASE 3 \notin speaks /\ 2 \notin speaks
      <4>1. m \in DOMAIN Members(1)  BY <2>2, <3>1, <3>4 DEF InForce
      <4>2. 1 \in speaks  BY <2>4, <4>1, EmptyNothing
      <4>3. Highest(speaks) = 1  BY <2>2, <3>4, <4>2, HighestIs
      <4> QED BY <4>1, <4>3 DEF Members
    <3> QED BY <3>2, <3>3, <3>4
  <2>8. ASSUME NEW p \in a.reports PROVE \E i \in speaks : next(i) = p[1] /\ states(i, p[2])
    <3>1. p = <<p[1], p[2]>>  BY <2>3
    <3>2. Reported(p[1], p[2])  BY <2>3, <3>1
    <3>3. CASE p[1] = 2 /\ p[2] \in Dropped(2, Members(1))
      <4>1. p[2] \in DOMAIN Members(1) /\ 2 \in speaks  BY <2>2, <3>3 DEF Dropped
      <4>2. 1 \in speaks  BY <2>4, <4>1, EmptyNothing
      <4> QED BY <2>5, <3>3, <4>1, <4>2 DEF Members
    <3>4. CASE p[1] = 3 /\ p[2] \in Dropped(3, Beneath) /\ 2 \in speaks
      <4>1. p[2] \in DOMAIN Members(2) /\ 3 \in speaks  BY <2>2, <3>4 DEF Dropped, Beneath
      <4> QED BY <2>5, <3>4, <4>1 DEF Members
    <3>5. CASE p[1] = 3 /\ p[2] \in Dropped(3, Beneath) /\ 2 \notin speaks
      <4>1. p[2] \in DOMAIN Members(1) /\ 3 \in speaks  BY <2>2, <3>5 DEF Dropped, Beneath
      <4>2. 1 \in speaks  BY <2>4, <4>1, EmptyNothing
      <4> QED BY <2>5, <3>5, <4>1, <4>2 DEF Members
    <3> QED BY <3>2, <3>3, <3>4, <3>5 DEF Reported
  <2> QED BY <2>1, <2>6, <2>7, <2>8 DEF AffinityFollows, speaks, a, next
<1> QED BY <1>1, <1>2

-----------------------------------------------------------------------------
(* The image.                                                               *)

ImageAspects == {"image", "unnamedImage"}
ImageSpec(i) == At(Nested(layers[i].of), "image")
ImageSays(i, f) == Says(i, <<"image", f>>)
Custom(i) == ImageSays(i, "custom") # Unsaid
Coordinated(i) == \E f \in Coordinates : ImageSays(i, f) # Unsaid

LEMMA ImageLayer ==
  ASSUME LayersInv, aspect \in ImageAspects, NEW i \in 1..3
  PROVE  /\ \A f \in ImageFields : f \in DOMAIN ImageSpec(i) <=> ImageSays(i, f) # Unsaid
         /\ \A f \in ImageFields : ImageSays(i, f) # Unsaid => ImageSpec(i)[f] = ImageSays(i, f)
         /\ StatesImage(ImageSpec(i)) <=> Coordinated(i)
         /\ Custom(i) => ImageSays(i, "custom") = i
<1>1. \A m \in DOMAIN layers[i].of : IsPair(m)
  BY LeavesAssumption, LayerFacts DEF LayersInv, IsPair
<1>2. ASSUME NEW f \in ImageFields
      PROVE  /\ f \in DOMAIN ImageSpec(i) <=> ImageSays(i, f) # Unsaid
             /\ ImageSays(i, f) # Unsaid => ImageSpec(i)[f] = ImageSays(i, f)
  <2> DEFINE l == <<"image", f>>
  <2>1. IsPair(l) /\ l[1] = "image" /\ l[2] = f  BY DEF IsPair
  <2> HIDE DEF l
  <2>2. /\ Value(Nested(layers[i].of), l) = Leaf(layers[i].of, l)
        /\ States(Nested(layers[i].of), l) <=> l \in DOMAIN layers[i].of
    BY <1>1, <2>1, NestedValue
  <2>3. Says(i, l) # Unsaid <=> l \in DOMAIN layers[i].of  BY SaysFacts
  <2>4. f \in DOMAIN ImageSpec(i) <=> Says(i, l) # Unsaid
    BY <2>1, <2>2, <2>3 DEF States, ImageSpec
  <2>5. Leaf(ImageSpec(i), f) = Says(i, l)
    BY <2>1, <2>2 DEF Value, ImageSpec, Says
  <2> QED BY <2>4, <2>5 DEF ImageSays, l, Leaf
<1>3. Coordinates \subseteq ImageFields  BY DEF Coordinates, ImageFields
<1>4. StatesImage(ImageSpec(i)) <=> Coordinated(i)
  BY <1>2, <1>3 DEF StatesImage, Coordinated
<1>5. Custom(i) => ImageSays(i, "custom") = i
  <2> DEFINE l == <<"image", "custom">>
  <2>1. l[2] = "custom"  OBVIOUS
  <2> HIDE DEF l
  <2>2. ValuesOf(i, l) = {i}  BY <2>1 DEF ValuesOf, ImageAspects
  <2>3. Says(i, l) \in {Unsaid, Blank, i} /\ (Says(i, l) = Blank => Blank \in ValuesOf(i, l))
    BY SaysFacts
  <2> QED BY <2>2, <2>3 DEF Custom, ImageSays, l, Blank
<1> QED BY <1>2, <1>4, <1>5

\* The operator's defaults below the declaration, and the CR above both.
LEMMA DefaultsAre ==
  ASSUME LayersInv, aspect \in ImageAspects, NEW d, d = foldImageSpec(ImageSpec(2), ImageSpec(1))
  PROVE  /\ \A f \in ImageFields \ {"custom"} :
              Leaf(d, f) = IF ImageSays(2, f) # Unsaid THEN ImageSays(2, f) ELSE ImageSays(1, f)
         /\ \A f \in ImageFields \ {"custom"} :
              f \in DOMAIN d <=> ImageSays(2, f) # Unsaid \/ ImageSays(1, f) # Unsaid
         /\ "custom" \in DOMAIN d <=> Custom(2) \/ (Custom(1) /\ ~Coordinated(2))
         /\ Custom(2) => d["custom"] = 2
         /\ ~Custom(2) /\ Custom(1) /\ ~Coordinated(2) => d["custom"] = 1
<1> DEFINE a == ImageSpec(1)
           b == ImageSpec(2)
           under == IF StatesImage(b) /\ "custom" \notin DOMAIN b THEN Without(a, {"custom"}) ELSE a
<1>1. /\ \A f \in ImageFields : f \in DOMAIN a <=> ImageSays(1, f) # Unsaid
      /\ \A f \in ImageFields : ImageSays(1, f) # Unsaid => a[f] = ImageSays(1, f)
      /\ Custom(1) => ImageSays(1, "custom") = 1
  BY ImageLayer
<1>2. /\ \A f \in ImageFields : f \in DOMAIN b <=> ImageSays(2, f) # Unsaid
      /\ \A f \in ImageFields : ImageSays(2, f) # Unsaid => b[f] = ImageSays(2, f)
      /\ StatesImage(b) <=> Coordinated(2)
      /\ Custom(2) => ImageSays(2, "custom") = 2
  BY ImageLayer
<1>3. d = Above(b, under)  BY DEF foldImageSpec
<1>4. "custom" \in ImageFields  BY DEF ImageFields
<1> HIDE DEF a, b
<1>5. /\ \A f \in ImageFields \ {"custom"} : f \in DOMAIN under <=> f \in DOMAIN a
      /\ \A f \in DOMAIN under : under[f] = a[f]
      /\ "custom" \in DOMAIN under <=> "custom" \in DOMAIN a /\ ~(StatesImage(b) /\ "custom" \notin DOMAIN b)
  BY DEF Without
<1> HIDE DEF under
<1>6. /\ DOMAIN d = DOMAIN b \cup DOMAIN under
      /\ \A f \in DOMAIN d : d[f] = IF f \in DOMAIN b THEN b[f] ELSE under[f]
  BY <1>3 DEF Above
<1>7. ASSUME NEW f \in ImageFields \ {"custom"}
      PROVE  /\ Leaf(d, f) = IF ImageSays(2, f) # Unsaid THEN ImageSays(2, f) ELSE ImageSays(1, f)
             /\ f \in DOMAIN d <=> ImageSays(2, f) # Unsaid \/ ImageSays(1, f) # Unsaid
  BY <1>1, <1>2, <1>5, <1>6 DEF Leaf
<1>8. /\ "custom" \in DOMAIN d <=> Custom(2) \/ (Custom(1) /\ ~Coordinated(2))
      /\ Custom(2) => d["custom"] = 2
      /\ ~Custom(2) /\ Custom(1) /\ ~Coordinated(2) => d["custom"] = 1
  <2>1. /\ "custom" \in DOMAIN a <=> Custom(1)
        /\ "custom" \in DOMAIN b <=> Custom(2)
        /\ Custom(1) => a["custom"] = 1
        /\ Custom(2) => b["custom"] = 2
    BY <1>1, <1>2, <1>4 DEF Custom
  <2> QED BY <1>2, <1>5, <1>6, <2>1
<1> QED BY <1>7, <1>8

\* The CR over the defaults, coordinate by coordinate.
LEMMA OverDefaults ==
  ASSUME LayersInv, aspect \in ImageAspects, NEW d, d = foldImageSpec(ImageSpec(2), ImageSpec(1)),
         NEW f \in ImageFields \ {"custom"}
  PROVE  /\ Leaf(Above(ImageSpec(3), d), f) = Topmost(<<"image", f>>)
         /\ f \in DOMAIN Above(ImageSpec(3), d) <=> Topmost(<<"image", f>>) # Unsaid
<1> DEFINE c == ImageSpec(3)
<1>1. /\ f \in DOMAIN c <=> ImageSays(3, f) # Unsaid
      /\ ImageSays(3, f) # Unsaid => c[f] = ImageSays(3, f)
  BY ImageLayer
<1>2. /\ Leaf(d, f) = IF ImageSays(2, f) # Unsaid THEN ImageSays(2, f) ELSE ImageSays(1, f)
      /\ f \in DOMAIN d <=> ImageSays(2, f) # Unsaid \/ ImageSays(1, f) # Unsaid
  BY DefaultsAre
<1> HIDE DEF c
<1>3. /\ Leaf(Above(c, d), f) = IF f \in DOMAIN c THEN c[f] ELSE Leaf(d, f)
      /\ f \in DOMAIN Above(c, d) <=> f \in DOMAIN c \/ f \in DOMAIN d
  BY DEF Above, Leaf
<1>4. Topmost(<<"image", f>>) = IF ImageSays(3, f) # Unsaid THEN ImageSays(3, f)
                                ELSE IF ImageSays(2, f) # Unsaid THEN ImageSays(2, f) ELSE ImageSays(1, f)
  BY DEF Topmost, ImageSays
<1> QED BY <1>1, <1>2, <1>3, <1>4 DEF c

\* What ImageFollows asks of the image e, when the layers that speak of it are
\* known by Custom and Coordinated.
Speaking == {i \in 1..3 : Custom(i) \/ Coordinated(i)}
CustomWins == Speaking # {} /\ Custom(Highest(Speaking))

LEMMA WhoIsCustom ==
  /\ CustomWins <=> Custom(3) \/ (~Coordinated(3) /\ (Custom(2) \/ (~Coordinated(2) /\ Custom(1))))
  /\ Custom(3) => Highest(Speaking) = 3
  /\ ~Custom(3) /\ ~Coordinated(3) /\ Custom(2) => Highest(Speaking) = 2
  /\ ~Custom(3) /\ ~Coordinated(3) /\ ~Custom(2) /\ ~Coordinated(2) /\ Custom(1) => Highest(Speaking) = 1
<1>1. Speaking \in SUBSET (1..3) /\ \A i \in {1, 2, 3} : i \in Speaking <=> Custom(i) \/ Coordinated(i)
  BY Three DEF Speaking
<1> HIDE DEF Speaking
<1>2. CASE 3 \in Speaking
  <2>1. Highest(Speaking) = 3  BY <1>1, <1>2, HighestIs
  <2> QED BY <1>1, <1>2, <2>1 DEF CustomWins
<1>3. CASE 3 \notin Speaking /\ 2 \in Speaking
  <2>1. Highest(Speaking) = 2  BY <1>1, <1>3, HighestIs
  <2> QED BY <1>1, <1>3, <2>1 DEF CustomWins
<1>4. CASE 3 \notin Speaking /\ 2 \notin Speaking /\ 1 \in Speaking
  <2>1. Highest(Speaking) = 1  BY <1>1, <1>4, HighestIs
  <2> QED BY <1>1, <1>4, <2>1 DEF CustomWins
<1>5. CASE 3 \notin Speaking /\ 2 \notin Speaking /\ 1 \notin Speaking
  <2>1. Speaking = {}  BY <1>1, <1>5, Three
  <2> QED BY <1>1, <1>5, <2>1 DEF CustomWins
<1> QED BY <1>2, <1>3, <1>4, <1>5

LEMMA ImagesFollow ==
  ASSUME LayersInv, aspect \in ImageAspects
  PROVE  ImageFollows
<1> DEFINE at(f) == <<"image", f>>
           speaks == {i \in 1..3 : \E f \in Coordinates \cup {"custom"} : at(f) \in DOMAIN layers[i].of}
           custom == speaks # {} /\ at("custom") \in DOMAIN layers[Highest(speaks)].of
           top(f) == Said(Authors(at(f)), at(f))
           e == EffectiveImage
           c == ImageSpec(3)
           d == foldImageSpec(ImageSpec(2), ImageSpec(1))
           all == Without(Above(c, d), {"custom", "pullPolicy"})
<1>1. \A f : top(f) = Topmost(at(f))  BY SaidTopmost
<1>2. \A i \in 1..3 : \A f : at(f) \in DOMAIN layers[i].of <=> ImageSays(i, f) # Unsaid
  BY SaysFacts DEF ImageSays
<1>3. speaks = Speaking
  BY <1>2 DEF Speaking, Custom, Coordinated
<1>4. custom <=> CustomWins
  <2>1. speaks = {} \/ Highest(speaks) \in 1..3  BY HighestIs
  <2> QED BY <1>2, <1>3, <2>1 DEF CustomWins, Custom
<1>5. /\ e.image = ResolveImage(c, d)
      /\ e.version = IF ProductNamed THEN ResolvedProductVersion(c, d) ELSE Unsaid
      /\ e.pullPolicy = Leaf(Above(c, d), "pullPolicy")
  BY DEF EffectiveImage, ImageSpec
<1>6. /\ Coordinates \subseteq ImageFields \ {"custom"}
      /\ {"productVersion", "repo"} \subseteq Coordinates
      /\ "pullPolicy" \in ImageFields \ {"custom"}
      /\ "custom" \in ImageFields /\ "pullPolicy" \notin Coordinates
  BY DEF ImageFields, Coordinates
<1>7. \A f \in ImageFields \ {"custom"} :
        /\ Leaf(Above(c, d), f) = Topmost(at(f))
        /\ f \in DOMAIN Above(c, d) <=> Topmost(at(f)) # Unsaid
  BY OverDefaults
<1>8. /\ "custom" \in DOMAIN c <=> Custom(3)
      /\ Custom(3) => c["custom"] = 3
      /\ StatesImage(c) <=> Coordinated(3)
      /\ "productVersion" \in DOMAIN c <=> ImageSays(3, "productVersion") # Unsaid
  <2>1. 3 \in 1..3  OBVIOUS
  <2>2. /\ \A f \in ImageFields : f \in DOMAIN c <=> ImageSays(3, f) # Unsaid
        /\ \A f \in ImageFields : ImageSays(3, f) # Unsaid => c[f] = ImageSays(3, f)
        /\ StatesImage(c) <=> Coordinated(3)
        /\ Custom(3) => ImageSays(3, "custom") = 3
    BY <2>1, ImageLayer
  <2> QED BY <1>6, <2>2 DEF Custom
<1>9. /\ "custom" \in DOMAIN d <=> Custom(2) \/ (Custom(1) /\ ~Coordinated(2))
      /\ Custom(2) => d["custom"] = 2
      /\ ~Custom(2) /\ Custom(1) /\ ~Coordinated(2) => d["custom"] = 1
  BY DefaultsAre
<1> HIDE DEF at, speaks, custom, top, e, c, d
<1>10. /\ \A f \in Coordinates : f \in DOMAIN all <=> Topmost(at(f)) # Unsaid
       /\ \A f \in Coordinates : Leaf(all, f) = Topmost(at(f))
       /\ \A f \in Coordinates : f \in DOMAIN all => all[f] = Topmost(at(f))
  BY <1>6, <1>7 DEF Without, Leaf
<1>11. e.pullPolicy = top("pullPolicy")  BY <1>1, <1>5, <1>6, <1>7
<1> DEFINE Goal ==
       /\ IF custom THEN e.image = [kind |-> "custom", from |-> Only("custom", Highest(speaks))]
          ELSE e.image.kind = "composed"
                 <=> ProductNamed /\ top("repo") # Unsaid /\ top("productVersion") \notin {Unsaid, Blank}
       /\ e.image.kind = "composed" => \A f \in Coordinates : Leaf(e.image.from, f) = top(f)
       /\ e.image.kind = "composed" => e.version = top("productVersion")
       /\ custom => e.version = Unsaid \/ at("productVersion") \in DOMAIN layers[Highest(speaks)].of
<1> SUFFICES Goal
  BY <1>11 DEF ImageFollows, at, speaks, custom, top, e
<1>12. CASE Custom(3)
  <2>1. custom /\ Highest(speaks) = 3  BY <1>3, <1>4, <1>12, WhoIsCustom
  <2>2. e.image = [kind |-> "custom", from |-> Only("custom", 3)]
    BY <1>5, <1>8, <1>12 DEF ResolveImage
  <2>3. e.version = Unsaid \/ e.version = Leaf(c, "productVersion")
    BY <1>5, <1>8, <1>12 DEF ResolvedProductVersion
  <2>4. e.version = Unsaid \/ at("productVersion") \in DOMAIN layers[3].of
    BY <1>2, <1>8, <2>3 DEF Leaf
  <2>5. e.image.kind # "composed"  BY <2>2
  <2> QED BY <2>1, <2>2, <2>4, <2>5
<1>13. CASE ~Custom(3) /\ ~Coordinated(3) /\ "custom" \in DOMAIN d
  <2>1. custom /\ Highest(speaks) = d["custom"]  BY <1>3, <1>4, <1>9, <1>13, WhoIsCustom
  <2>2. e.image = [kind |-> "custom", from |-> Only("custom", d["custom"])]
    BY <1>5, <1>8, <1>13 DEF ResolveImage
  <2>3. e.version = Unsaid
    BY <1>5, <1>8, <1>13 DEF ResolvedProductVersion
  <2>4. e.image.kind # "composed"  BY <2>2
  <2> QED BY <2>1, <2>2, <2>3, <2>4
<1>14. CASE ~Custom(3) /\ ~(~Coordinated(3) /\ "custom" \in DOMAIN d)
  <2>1. ~custom  BY <1>4, <1>9, <1>14, WhoIsCustom
  <2> DEFINE Composable == ProductNamed /\ {"repo", "productVersion"} \subseteq DOMAIN all /\ all["productVersion"] # Blank
  <2>2. Composable => e.image = [kind |-> "composed", from |-> all]
    BY <1>5, <1>8, <1>14 DEF ResolveImage
  <2>3. ~Composable => e.image \in {NoReference, ImageError}
    BY <1>5, <1>8, <1>14 DEF ResolveImage
  <2>4. e.image.kind = "composed" <=> Composable
    BY <2>2, <2>3 DEF NoReference, ImageError
  <2>5. Composable <=> ProductNamed /\ top("repo") # Unsaid /\ top("productVersion") \notin {Unsaid, Blank}
    BY <1>1, <1>6, <1>10
  <2>6. Composable => e.version = Leaf(Above(c, d), "productVersion")
    BY <1>5, <1>8, <1>14 DEF ResolvedProductVersion
  <2>7. Composable => e.version = top("productVersion")
    BY <1>1, <1>6, <1>7, <2>6
  <2>8. Composable => e.image.from = all  BY <2>2
  <2> HIDE DEF Composable
  <2>9. Composable => \A f \in Coordinates : Leaf(e.image.from, f) = top(f)
    BY <1>1, <1>10, <2>8
  <2> QED BY <2>1, <2>4, <2>5, <2>7, <2>9
<1> QED BY <1>12, <1>13, <1>14

-----------------------------------------------------------------------------
(* The result.                                                              *)

\* What the user says of a group is in force over what is said of the role,
\* and that over what the product derives, leaf by leaf, for any sections and
\* fields of the aspects the operator folds.
THEOREM StatementsWin == LayersSpec => []UserStatementWins
<1>1. LayersInv => UserStatementWins
  <2> SUFFICES ASSUME LayersInv PROVE UserStatementWins
    OBVIOUS
  <2>1. aspect \in {"resources", "timeout", "logging", "files", "env", "cli", "affinity", "pod",
                    "image", "unnamedImage"} \cup ProductKinds
    BY LeavesAssumption DEF LayersInv
  <2>2. CASE aspect = "affinity"
    BY <2>2, AffinitiesFollow DEF UserStatementWins
  <2>3. CASE aspect = "pod"
    BY <2>3, OverridesFollow DEF UserStatementWins
  <2>4. CASE aspect \in {"image", "unnamedImage"}
    <3>1. ImageFollows  BY <2>4, ImagesFollow DEF ImageAspects
    <3> QED BY <2>4, <3>1 DEF UserStatementWins
  <2>5. CASE aspect \in {"resources", "timeout", "files"}
    <3>1. ConfigFollows  BY <2>5, FieldsFollow
    <3> QED BY <2>5, <3>1 DEF UserStatementWins
  <2>6. CASE aspect \in {"env", "cli"}
    <3>1. ConfigFollows  BY <2>6, SectionsFollow
    <3> QED BY <2>6, <3>1 DEF UserStatementWins
  <2>7. CASE aspect = "logging"
    <3>1. ConfigFollows  BY <2>7, LevelsFollow
    <3> QED BY <2>7, <3>1 DEF UserStatementWins
  <2>8. CASE aspect \in ProductKinds
    <3>1. ConfigFollows  BY <2>8, ProductFollows
    <3> QED BY <2>8, <3>1 DEF UserStatementWins, ProductKinds
  <2> QED BY <2>1, <2>2, <2>3, <2>4, <2>5, <2>6, <2>7, <2>8
<1> QED BY <1>1, LayersInitInv, LayersStep, PTL DEF LayersSpec
=============================================================================
