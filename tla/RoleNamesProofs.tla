--------------------------- MODULE RoleNamesProofs ---------------------------
(***************************************************************************)
(* Proofs about the names and labels of a cluster's objects, for any       *)
(* number of role groups, names of any length and any labels of the CR.    *)
(***************************************************************************)
EXTENDS RoleNames, SequenceTheorems, FiniteSetTheorems, WellFoundedInduction, TLAPS

\* Names made of the user's characters, with no hash in them.
Plain(n) == n \in Seq(NameChars) /\ n # << >>

\* Where a name has its hash: at the end, after a dash.
Hashed(n, of) ==
  /\ n \in Seq(NameChars \cup {Hash(of)}) /\ Len(n) >= 2
  /\ n[Len(n)] = Hash(of)
  /\ \A i \in 1 .. Len(n) - 1 : n[i] \in NameChars

Declarable == [role : Roles, group : Groups]

NamesInv == slots \subseteq Declarable /\ labelDomain \in BOOLEAN

LEMMA Characters ==
  /\ \A c \in NameChars : Len(c) = 1
  /\ Len(Dash) = 1 /\ Dash \in NameChars
  /\ \A n : Len(Hash(n)) = 2
  /\ \A n, m : Hash(n) = Hash(m) => n = m
BY NamesAssumption DEF NameChars, Dash, Hash

\* A hash is not a character of a name.
LEMMA HashApart == ASSUME NEW n PROVE Hash(n) \notin NameChars
BY Characters

LEMMA DeclaredPlain ==
  ASSUME NEW n \in {ClusterName} \cup Roles \cup Groups PROVE Plain(n)
BY NamesAssumption DEF Plain

LEMMA PlainLength == ASSUME NEW n, Plain(n) PROVE NameLen(n) = Len(n) /\ Len(n) \in Nat /\ Len(n) > 0
<1>1. DOMAIN n = 1 .. Len(n) /\ Len(n) \in Nat /\ Len(n) > 0  BY DEF Plain
<1>2. \A i \in DOMAIN n : Len(n[i]) = 1  BY <1>1, Characters DEF Plain
<1>3. {i \in DOMAIN n : Len(n[i]) > 1} = {}
  <2>1. ~ (1 > 1)  OBVIOUS
  <2> QED BY <1>2, <2>1, Zenon
<1>4. Cardinality({i \in DOMAIN n : Len(n[i]) > 1}) = 0  BY <1>3, FS_EmptySet
<1>5. HashLen - 1 \in Int  BY LengthsAssumption
<1>6. NameLen(n) = Len(n) + 0 * (HashLen - 1)  BY <1>4, Zenon DEF NameLen
<1> QED BY <1>1, <1>5, <1>6

LEMMA HashedLength ==
  ASSUME NEW n, NEW of, Hashed(n, of)
  PROVE  NameLen(n) = Len(n) + HashLen - 1 /\ Len(n) \in Nat
<1>1. DOMAIN n = 1 .. Len(n) /\ Len(n) \in Nat /\ Len(n) >= 2  BY DEF Hashed
<1>2. ASSUME NEW i \in DOMAIN n PROVE Len(n[i]) > 1 <=> i = Len(n)
  <2>1. CASE i = Len(n)
    <3>1. n[i] = Hash(of)  BY <2>1 DEF Hashed
    <3>2. Len(n[i]) = 2  BY <3>1, Characters
    <3> QED BY <2>1, <3>2
  <2>2. CASE i # Len(n)
    <3>1. i \in 1 .. Len(n) - 1  BY <1>1, <2>2
    <3>2. n[i] \in NameChars  BY <3>1 DEF Hashed
    <3>3. Len(n[i]) = 1  BY <3>2, Characters
    <3> QED BY <2>2, <3>3
  <2> QED BY <2>1, <2>2
<1>3. {i \in DOMAIN n : Len(n[i]) > 1} = {Len(n)}  BY <1>1, <1>2
<1>4. Cardinality({i \in DOMAIN n : Len(n[i]) > 1}) = 1  BY <1>3, FS_Singleton
<1>5. HashLen - 1 \in Int /\ HashLen \in Nat  BY LengthsAssumption
<1>6. NameLen(n) = Len(n) + 1 * (HashLen - 1)  BY <1>4, Zenon DEF NameLen
<1> QED BY <1>1, <1>5, <1>6

\* A nonempty set of positions has a last one.
LEMMA LastOf ==
  ASSUME NEW len \in Nat, NEW S, S \subseteq 1 .. len, S # {}
  PROVE  \E i \in S : \A j \in S : j <= i
<1> DEFINE T == {len - i : i \in S}
<1>1. T \subseteq Nat /\ T # {}
  <2>1. \A i \in S : len - i \in Nat  OBVIOUS
  <2> QED BY <2>1
<1>2. PICK x \in T : \A y \in T : ~ (<<y, x>> \in OpToRel(<, Nat))
  BY <1>1, NatLessThanWellFounded, WFMin
<1>3. PICK i \in S : x = len - i  OBVIOUS
<1>4. ASSUME NEW j \in S PROVE j <= i
  <2>1. len - j \in T /\ len - j \in Nat /\ x \in Nat  BY <1>1
  <2>2. ~ (len - j < x)  BY <1>2, <2>1 DEF OpToRel
  <2>3. i \in Int /\ j \in Int  OBVIOUS
  <2> HIDE DEF T
  <2> QED BY <1>3, <2>2, <2>3
<1> QED BY <1>4

\* The cut leaves a head of the name.
LEMMA Trimmed ==
  ASSUME NEW n \in Seq(NameChars)
  PROVE  TrimRight(n) \in Seq(NameChars) /\ Len(TrimRight(n)) <= Len(n)
<1> DEFINE kept == {i \in DOMAIN n : n[i] # Dash}
           last == IF kept = {} THEN 0 ELSE CHOOSE i \in kept : \A j \in kept : j <= i
<1>1. DOMAIN n = 1 .. Len(n) /\ Len(n) \in Nat  OBVIOUS
<1>2. last \in 0 .. Len(n)
  <2>1. CASE kept = {}  BY <1>1, <2>1
  <2>2. CASE kept # {}
    <3>1. \E i \in kept : \A j \in kept : j <= i
      BY <1>1, <2>2, LastOf
    <3> QED BY <1>1, <2>2, <3>1
  <2> QED BY <2>1, <2>2
<1>3. TrimRight(n) = SubSeq(n, 1, last)  BY DEF TrimRight
<1> HIDE DEF last
<1> QED BY <1>1, <1>2, <1>3, SubSeqProperties

\* What is over the limit keeps a head, a dash and the hash, within the limit.
LEMMA LongBounded ==
  ASSUME NEW n, Plain(n), NEW limit \in Nat, limit > HashLen + 1, NameLen(n) > limit
  PROVE  Hashed(Bounded(n, limit), n) /\ NameLen(Bounded(n, limit)) <= limit
<1> DEFINE head == SubSeq(n, 1, limit - HashLen - 1)
           cut == TrimRight(head)
           C == NameChars \cup {Hash(n)}
           tail == <<Dash, Hash(n)>>
           b == cut \o tail
<1>1. HashLen \in Nat  BY LengthsAssumption
<1>2. NameLen(n) = Len(n) /\ Len(n) \in Nat /\ n \in Seq(NameChars)  BY PlainLength DEF Plain
<1>3. head \in Seq(NameChars) /\ Len(head) = limit - HashLen - 1
  <2>1. \A i \in 1 .. limit - HashLen - 1 : n[i] \in NameChars  BY <1>1, <1>2
  <2>2. limit - HashLen - 1 \in Int /\ 1 <= limit - HashLen - 1  BY <1>1
  <2> QED BY <2>1, <2>2, SubSeqProperties
<1> HIDE DEF head
<1>4. cut \in Seq(NameChars) /\ Len(cut) <= Len(head) /\ Len(cut) \in Nat  BY <1>3, Trimmed
<1> HIDE DEF cut
<1>5. cut \in Seq(C) /\ tail \in Seq(C) /\ Len(tail) = 2 /\ tail[1] = Dash /\ tail[2] = Hash(n)
  BY <1>4, Characters
<1>6. \A i \in 1 .. Len(cut) : cut[i] \in NameChars  BY <1>4
<1> HIDE DEF tail, C
<1>7. /\ b \in Seq(C) /\ Len(b) = Len(cut) + 2
      /\ \A i \in 1 .. Len(cut) + 2 : b[i] = IF i <= Len(cut) THEN cut[i] ELSE tail[i - Len(cut)]
  <2>1. /\ b \in Seq(C) /\ Len(b) = Len(cut) + Len(tail)
        /\ \A i \in 1 .. Len(cut) + Len(tail) :
             b[i] = IF i <= Len(cut) THEN cut[i] ELSE tail[i - Len(cut)]
    BY <1>5, ConcatProperties
  <2> QED BY <1>5, <2>1
<1>8. b[Len(b)] = Hash(n)
  <2>1. Len(cut) + 2 \in 1 .. Len(cut) + 2 /\ ~(Len(cut) + 2 <= Len(cut)) /\ Len(cut) + 2 - Len(cut) = 2
    BY <1>4
  <2> QED BY <1>5, <1>7, <2>1
<1>9. ASSUME NEW i \in 1 .. Len(b) - 1 PROVE b[i] \in NameChars
  <2>1. i \in 1 .. Len(cut) + 2 /\ (i \in 1 .. Len(cut) \/ i - Len(cut) = 1)  BY <1>4, <1>7
  <2> QED BY <1>4, <1>5, <1>6, <1>7, <2>1, Characters
<1> HIDE DEF b
<1>10. Hashed(b, n)  BY <1>4, <1>7, <1>8, <1>9 DEF Hashed, C
<1>11. NameLen(b) = Len(b) + HashLen - 1  BY <1>10, HashedLength
<1>12. NameLen(b) <= limit  BY <1>1, <1>3, <1>4, <1>7, <1>11
<1>13. Bounded(n, limit) = b  BY <1>2 DEF Bounded, b, cut, tail, head
<1> QED BY <1>10, <1>12, <1>13

\* A name that is cut says what it was cut from; one that is not has no hash.
LEMMA BoundedInjective ==
  ASSUME NEW n, Plain(n), NEW m, Plain(m), NEW limit \in Nat, limit > HashLen + 1,
         Bounded(n, limit) = Bounded(m, limit)
  PROVE  n = m
<1> DEFINE b == Bounded(n, limit)
<1>1. ASSUME NEW x, Plain(x) PROVE Bounded(x, limit) = x \/ Hashed(Bounded(x, limit), x)
  <2>1. NameLen(x) \in Nat  BY <1>1, PlainLength
  <2>2. CASE NameLen(x) <= limit  BY <2>2 DEF Bounded
  <2>3. CASE NameLen(x) > limit  BY <1>1, <2>3, LongBounded
  <2> QED BY <2>1, <2>2, <2>3
<1>2. ASSUME NEW x, NEW y, Plain(x), Hashed(x, y) PROVE FALSE
  <2>1. x[Len(x)] \in NameChars  BY <1>2, PlainLength DEF Plain
  <2> QED BY <1>2, <2>1, HashApart DEF Hashed
<1>3. ASSUME NEW x, NEW y, NEW z, Hashed(x, y), Hashed(x, z) PROVE y = z
  BY <1>3, Characters DEF Hashed
<1> HIDE DEF b
<1> QED BY <1>1, <1>2, <1>3

\* The marker of a group where that is a legal label key.
MarkerName(group) == ClusterName \o <<Dash>> \o group

LEMMA PlainNames ==
  ASSUME NEW role \in Roles, NEW group \in Groups
  PROVE  /\ Plain(PlainName(role, group))
         /\ PlainName(role, group)[Len(PlainName(role, group))] # Dash
         /\ Plain(MarkerName(group)) /\ Len(MarkerName(group)) >= 3
         /\ Len(PlainName(role, group)) >= Len(MarkerName(group))
<1> DEFINE d == <<Dash>>
           a1 == ClusterName \o d
           a2 == a1 \o role
           a3 == a2 \o d
           p == a3 \o group
           k == a1 \o group
<1>1. /\ ClusterName \in Seq(NameChars) /\ role \in Seq(NameChars) /\ group \in Seq(NameChars)
      /\ Len(ClusterName) \in Nat /\ Len(role) \in Nat /\ Len(group) \in Nat
      /\ Len(ClusterName) > 0 /\ Len(group) > 0
  BY DeclaredPlain, PlainLength DEF Plain
<1>2. d \in Seq(NameChars) /\ Len(d) = 1  BY Characters
<1> HIDE DEF d
<1>3. a1 \in Seq(NameChars) /\ Len(a1) = Len(ClusterName) + Len(d)  BY <1>1, <1>2, ConcatProperties
<1> HIDE DEF a1
<1>4. a2 \in Seq(NameChars) /\ Len(a2) = Len(a1) + Len(role)  BY <1>1, <1>3, ConcatProperties
<1>5. k \in Seq(NameChars) /\ Len(k) = Len(a1) + Len(group)  BY <1>1, <1>3, ConcatProperties
<1> HIDE DEF a2
<1>6. a3 \in Seq(NameChars) /\ Len(a3) = Len(a2) + Len(d)  BY <1>2, <1>4, ConcatProperties
<1> HIDE DEF a3
<1>7. /\ p \in Seq(NameChars) /\ Len(p) = Len(a3) + Len(group)
      /\ \A i \in 1 .. Len(a3) + Len(group) : p[i] = IF i <= Len(a3) THEN a3[i] ELSE group[i - Len(a3)]
  <2>1. a3 \in Seq(NameChars) /\ group \in Seq(NameChars)  BY <1>1, <1>6
  <2> QED BY <2>1, ConcatProperties
<1> HIDE DEF p, k
<1>8. p[Len(p)] = group[Len(group)]
  <2>1. Len(a3) \in Nat  BY <1>6
  <2>2. /\ Len(a3) + Len(group) \in 1 .. Len(a3) + Len(group)
        /\ ~(Len(a3) + Len(group) <= Len(a3)) /\ Len(a3) + Len(group) - Len(a3) = Len(group)
    BY <1>1, <2>1
  <2> QED BY <1>7, <2>2
<1>9. p[Len(p)] # Dash  BY <1>8, NamesAssumption
<1>10. Len(k) >= 3 /\ Len(p) = Len(k) + 1 + Len(role) /\ Len(k) \in Nat /\ Len(p) > 0
  BY <1>1, <1>2, <1>3, <1>4, <1>5, <1>6, <1>7
<1>11. Plain(p) /\ Plain(k)
  <2>1. p # << >> /\ k # << >>  BY <1>10
  <2> QED BY <1>5, <1>7, <2>1 DEF Plain
<1>12. p = PlainName(role, group) /\ k = MarkerName(group)
  BY DEF p, k, a3, a2, a1, d, PlainName, MarkerName
<1>13. Len(p) >= Len(k)  BY <1>1, <1>10
<1> QED BY <1>9, <1>10, <1>11, <1>12, <1>13

\* One head, two tails.
LEMMA SameTail ==
  ASSUME NEW S, NEW a \in Seq(S), NEW x \in Seq(S), NEW y \in Seq(S), a \o x = a \o y
  PROVE  x = y
<1>1. /\ Len(a \o x) = Len(a) + Len(x)
      /\ \A i \in 1 .. Len(a) + Len(x) : (a \o x)[i] = IF i <= Len(a) THEN a[i] ELSE x[i - Len(a)]
  BY ConcatProperties
<1>2. /\ Len(a \o y) = Len(a) + Len(y)
      /\ \A i \in 1 .. Len(a) + Len(y) : (a \o y)[i] = IF i <= Len(a) THEN a[i] ELSE y[i - Len(a)]
  BY ConcatProperties
<1> DEFINE z == a \o x
<1>3. /\ Len(a) + Len(x) = Len(a) + Len(y)
      /\ \A i \in 1 .. Len(a) + Len(x) : z[i] = IF i <= Len(a) THEN a[i] ELSE x[i - Len(a)]
      /\ \A i \in 1 .. Len(a) + Len(x) : z[i] = IF i <= Len(a) THEN a[i] ELSE y[i - Len(a)]
  BY <1>1, <1>2
<1> HIDE DEF z
<1>4. Len(a) \in Nat /\ Len(x) \in Nat /\ Len(y) \in Nat  OBVIOUS
<1>5. Len(x) = Len(y)  BY <1>3, <1>4
<1>6. ASSUME NEW j \in 1 .. Len(x) PROVE x[j] = y[j]
  <2>1. j + Len(a) \in 1 .. Len(a) + Len(x) /\ ~(j + Len(a) <= Len(a)) /\ j + Len(a) - Len(a) = j
    BY <1>4
  <2> QED BY <1>3, <2>1
<1> QED BY <1>5, <1>6, SeqEqual

\* A marker, or a resource name, tells the groups of a role apart.
LEMMA TailsDistinct ==
  ASSUME NEW role \in Roles, NEW g \in Groups, NEW h \in Groups
  PROVE  /\ MarkerName(g) = MarkerName(h) => g = h
         /\ PlainName(role, g) = PlainName(role, h) => g = h
<1> DEFINE d == <<Dash>>
           a1 == ClusterName \o d
           a2 == a1 \o role
           a3 == a2 \o d
<1>1. /\ ClusterName \in Seq(NameChars) /\ role \in Seq(NameChars)
      /\ g \in Seq(NameChars) /\ h \in Seq(NameChars)
  BY DeclaredPlain DEF Plain
<1>2. d \in Seq(NameChars)  BY Characters
<1> HIDE DEF d
<1>3. a1 \in Seq(NameChars)  BY <1>1, <1>2, ConcatProperties
<1> HIDE DEF a1
<1>4. a2 \in Seq(NameChars)  BY <1>1, <1>3, ConcatProperties
<1> HIDE DEF a2
<1>5. a3 \in Seq(NameChars)  BY <1>2, <1>4, ConcatProperties
<1> HIDE DEF a3
<1>6. a1 \o g = a1 \o h => g = h  BY <1>1, <1>3, SameTail
<1>7. a3 \o g = a3 \o h => g = h  BY <1>1, <1>5, SameTail
<1> QED BY <1>6, <1>7 DEF a1, a2, a3, d, MarkerName, PlainName

-----------------------------------------------------------------------------
(* Resource names.                                                          *)

LEMMA ResourceName ==
  ASSUME NEW role \in Roles, NEW group \in Groups
  PROVE  LET p == PlainName(role, group)
             n == RoleGroupResourceName(role, group)
         IN \/ Len(p) <= MaxRoleGroupNameLen /\ n = p
            \/ Len(p) > MaxRoleGroupNameLen /\ Hashed(n, p) /\ NameLen(n) <= MaxRoleGroupNameLen
<1> DEFINE p == PlainName(role, group)
<1>1. Plain(p)  BY PlainNames
<1>2. NameLen(p) = Len(p) /\ Len(p) \in Nat  BY <1>1, PlainLength
<1>3. MaxRoleGroupNameLen \in Nat /\ MaxRoleGroupNameLen > HashLen + 1  BY LengthsAssumption
<1>4. RoleGroupResourceName(role, group) = Bounded(p, MaxRoleGroupNameLen)
  BY DEF RoleGroupResourceName
<1> HIDE DEF p
<1>5. CASE Len(p) <= MaxRoleGroupNameLen
  <2>1. Bounded(p, MaxRoleGroupNameLen) = p  BY <1>2, <1>5 DEF Bounded
  <2> QED BY <1>4, <1>5, <2>1 DEF p
<1>6. CASE Len(p) > MaxRoleGroupNameLen
  <2>1. Hashed(Bounded(p, MaxRoleGroupNameLen), p) /\ NameLen(Bounded(p, MaxRoleGroupNameLen)) <= MaxRoleGroupNameLen
    BY <1>1, <1>2, <1>3, <1>6, LongBounded
  <2> QED BY <1>4, <1>6, <2>1 DEF p
<1> QED BY <1>2, <1>3, <1>5, <1>6

\* The suffix of the headless Service adds its own length.
LEMMA Suffixed ==
  ASSUME NEW C, NEW n \in Seq(C)
  PROVE  NameLen(n \o HeadlessSuffix) = NameLen(n) + Len(HeadlessSuffix)
<1> DEFINE f == HeadlessSuffix
           D == C \cup {Dash, <<"h">>}
           b == n \o f
<1>1. f \in Seq(D) /\ n \in Seq(D) /\ Len(f) = 2 /\ f[1] = Dash /\ f[2] = <<"h">>
  BY DEF HeadlessSuffix
<1>2. Len(Dash) = 1 /\ Len(<<"h">>) = 1  BY DEF Dash
<1> HIDE DEF f, D
<1>3. /\ b \in Seq(D) /\ Len(b) = Len(n) + Len(f)
      /\ \A i \in 1 .. Len(n) + Len(f) : b[i] = IF i <= Len(n) THEN n[i] ELSE f[i - Len(n)]
  BY <1>1, ConcatProperties
<1>4. DOMAIN n = 1 .. Len(n) /\ Len(n) \in Nat /\ DOMAIN b = 1 .. Len(b) /\ Len(b) \in Nat
  BY <1>3
<1> HIDE DEF b
<1>5. ASSUME NEW i \in DOMAIN b, i \notin DOMAIN n PROVE ~(Len(b[i]) > 1)
  <2>1. i \in 1 .. Len(n) + Len(f) /\ ~(i <= Len(n)) /\ (i - Len(n) = 1 \/ i - Len(n) = 2)
    BY <1>1, <1>3, <1>4, <1>5
  <2>2. b[i] = f[i - Len(n)]  BY <1>3, <2>1
  <2>3. b[i] = Dash \/ b[i] = <<"h">>  BY <1>1, <2>1, <2>2
  <2>4. Len(b[i]) = 1  BY <1>2, <2>3
  <2> QED BY <2>4
<1>6. ASSUME NEW i \in DOMAIN n PROVE i \in DOMAIN b /\ b[i] = n[i]
  <2>1. i \in 1 .. Len(n) + Len(f) /\ i <= Len(n)  BY <1>1, <1>4
  <2> QED BY <1>1, <1>3, <1>4, <2>1
<1>7. {i \in DOMAIN b : Len(b[i]) > 1} = {i \in DOMAIN n : Len(n[i]) > 1}
  BY <1>5, <1>6, Zenon
<1> DEFINE h == Cardinality({i \in DOMAIN n : Len(n[i]) > 1}) * (HashLen - 1)
<1>8. NameLen(n) = Len(n) + h /\ NameLen(b) = Len(b) + h  BY <1>7, Zenon DEF NameLen
<1>9. h \in Int
  <2>1. {i \in DOMAIN n : Len(n[i]) > 1} \in SUBSET (1 .. Len(n))  BY <1>4
  <2>2. IsFiniteSet(1 .. Len(n))  BY <1>4, FS_Interval
  <2>3. Cardinality({i \in DOMAIN n : Len(n[i]) > 1}) \in Nat  BY <2>1, <2>2, FS_Subset, FS_CardinalityType
  <2>4. HashLen - 1 \in Int  BY LengthsAssumption
  <2> QED BY <2>3, <2>4
<1> HIDE DEF h
<1>10. NameLen(b) = NameLen(n) + Len(f)  BY <1>1, <1>3, <1>4, <1>8, <1>9
<1> QED BY <1>10 DEF b, f

LEMMA NamesInitInv == ASSUME NamesInit PROVE NamesInv
BY NamesAssumption DEF NamesInit, NamesInv

LEMMA NamesStep == ASSUME NamesInv, [NamesNext]_nameVars PROVE NamesInv'
<1>1. ASSUME NEW r \in Roles, NEW g \in Groups, DeclareGroup(r, g) PROVE NamesInv'
  BY <1>1 DEF DeclareGroup, Slot, NamesInv, Declarable
<1>2. ASSUME NEW s \in slots, RemoveGroup(s) PROVE NamesInv'
  BY <1>2 DEF RemoveGroup, NamesInv
<1>3. ASSUME NEW k \in LabelKeys, LabelCR(k) PROVE NamesInv'
  BY <1>3 DEF LabelCR, NamesInv
<1>4. CASE UNCHANGED nameVars
  BY <1>4 DEF nameVars, NamesInv
<1> QED BY <1>1, <1>2, <1>3, <1>4 DEF NamesNext

LEMMA NamesDiffer ==
  ASSUME NEW s \in Declarable, NEW t \in Declarable,
         RoleGroupResourceName(s.role, s.group) = RoleGroupResourceName(t.role, t.group)
  PROVE  PlainName(s.role, s.group) = PlainName(t.role, t.group)
<1>1. /\ s.role \in Roles /\ s.group \in Groups /\ t.role \in Roles /\ t.group \in Groups
  BY DEF Declarable
<1>2. Plain(PlainName(s.role, s.group)) /\ Plain(PlainName(t.role, t.group))  BY <1>1, PlainNames
<1>3. MaxRoleGroupNameLen \in Nat /\ MaxRoleGroupNameLen > HashLen + 1  BY LengthsAssumption
<1> QED BY <1>2, <1>3, BoundedInjective DEF RoleGroupResourceName

LEMMA NameLegal ==
  ASSUME NEW s \in Declarable
  PROVE  /\ NameLen(RoleGroupResourceName(s.role, s.group) \o HeadlessSuffix) <= MaxLabelLen
         /\ RoleGroupResourceName(s.role, s.group)[Len(RoleGroupResourceName(s.role, s.group))] # Dash
<1> DEFINE p == PlainName(s.role, s.group)
           n == RoleGroupResourceName(s.role, s.group)
<1>1. s.role \in Roles /\ s.group \in Groups  BY DEF Declarable
<1>2. Plain(p) /\ p[Len(p)] # Dash  BY <1>1, PlainNames
<1>3. \/ Len(p) <= MaxRoleGroupNameLen /\ n = p
      \/ Hashed(n, p) /\ NameLen(n) <= MaxRoleGroupNameLen
  BY <1>1, ResourceName
<1> HIDE DEF p, n
<1>4. /\ n \in Seq(NameChars \cup {Hash(p)}) /\ NameLen(n) \in Int /\ NameLen(n) <= MaxRoleGroupNameLen
      /\ n[Len(n)] # Dash
  <2>1. CASE Len(p) <= MaxRoleGroupNameLen /\ n = p
    <3>1. NameLen(p) = Len(p) /\ Len(p) \in Nat  BY <1>2, PlainLength
    <3> QED BY <1>2, <2>1, <3>1 DEF Plain
  <2>2. CASE Hashed(n, p) /\ NameLen(n) <= MaxRoleGroupNameLen
    <3>1. NameLen(n) = Len(n) + HashLen - 1 /\ Len(n) \in Nat  BY <2>2, HashedLength
    <3>2. HashLen \in Nat  BY LengthsAssumption
    <3>3. n[Len(n)] = Hash(p) /\ Hash(p) # Dash  BY <2>2, HashApart, Characters DEF Hashed
    <3> QED BY <2>2, <3>1, <3>2, <3>3 DEF Hashed
  <2> QED BY <1>3, <2>1, <2>2
<1>5. NameLen(n \o HeadlessSuffix) = NameLen(n) + Len(HeadlessSuffix)  BY <1>4, Suffixed
<1>6. Len(HeadlessSuffix) \in Nat  BY DEF HeadlessSuffix
<1>7. NameLen(n \o HeadlessSuffix) <= MaxLabelLen  BY <1>4, <1>5, <1>6, LengthsAssumption
<1> QED BY <1>4, <1>7 DEF n

\* Whatever groups are declared and however long their names, two of them share the
\* name of their objects only if cluster, role and group put together read the
\* same, and each name is a legal one (RoleGroupResourceName).
THEOREM NamesSafe == NamesSpec => []ResourceNamesDistinct
<1>1. NamesInit => NamesInv  BY NamesInitInv
<1>2. NamesInv /\ [NamesNext]_nameVars => NamesInv'  BY NamesStep
<1>3. ASSUME NamesInv PROVE ResourceNamesDistinct
  <2>1. \A s \in slots : s \in Declarable  BY <1>3 DEF NamesInv
  <2>2. \A s, t \in slots : PlainName(s.role, s.group) # PlainName(t.role, t.group) =>
          RoleGroupResourceName(s.role, s.group) # RoleGroupResourceName(t.role, t.group)
    BY <2>1, NamesDiffer
  <2> QED BY <2>1, <2>2, NameLegal DEF ResourceNamesDistinct
<1> QED BY <1>1, <1>2, <1>3, PTL DEF NamesSpec

-----------------------------------------------------------------------------
(* Labels.                                                                  *)

\* The CR's labels that reach the objects are not the markers of a reclaim.
LEMMA Writable ==
  ASSUME NEW l
  PROVE  l \in DOMAIN handlerWritableLabels(crLabels) <=>
           l \in crLabels \ {LabelMetricsService, LabelRolePodDisruptionBudget, LabelRoleGroupPodDisruptionBudget}
BY DEF handlerWritableLabels

\* Keys of one character are as different as those characters, and shorter than markers.
LEMMA KeysApart ==
  /\ \A a, b : Char(a) = Char(b) => a = b
  /\ \A a : Len(Char(a)) = 1
BY DEF Char

\* The key that marks a group is none of the framework's own.
LEMMA MarkerLong ==
  ASSUME NEW s \in Declarable
  PROVE  \A a : RoleGroupMarkerLabelKey(s.role, s.group) # Char(a)
<1> DEFINE m == RoleGroupMarkerLabelKey(s.role, s.group)
<1>1. s.role \in Roles /\ s.group \in Groups  BY DEF Declarable
<1>2. /\ Len(MarkerName(s.group)) >= 3
      /\ Len(PlainName(s.role, s.group)) >= Len(MarkerName(s.group))
      /\ Plain(MarkerName(s.group)) /\ Plain(PlainName(s.role, s.group))
  BY <1>1, PlainNames
<1>3. \/ RoleGroupResourceName(s.role, s.group) = PlainName(s.role, s.group)
      \/ Hashed(RoleGroupResourceName(s.role, s.group), PlainName(s.role, s.group))
  BY <1>1, ResourceName
<1>4. m = MarkerName(s.group) \/ m = RoleGroupResourceName(s.role, s.group)
  BY DEF RoleGroupMarkerLabelKey, MarkerName
<1>5. Len(MarkerName(s.group)) \in Nat /\ Len(PlainName(s.role, s.group)) \in Nat  BY <1>2, PlainLength
<1>6. Len(PlainName(s.role, s.group)) >= 3  BY <1>2, <1>5
<1>7. ASSUME NEW a PROVE m # Char(a)
  <2>1. Len(Char(a)) = 1 /\ ~(1 >= 3) /\ ~(1 >= 2)  BY KeysApart
  <2> QED BY <1>2, <1>3, <1>4, <1>6, <2>1 DEF Hashed
<1> QED BY <1>7

\* Two groups of one role have two markers.
LEMMA MarkersDistinct ==
  ASSUME NEW s \in Declarable, NEW t \in Declarable, s.role = t.role,
         RoleGroupMarkerLabelKey(s.role, s.group) = RoleGroupMarkerLabelKey(t.role, t.group)
  PROVE  s = t
<1>1. /\ s.role \in Roles /\ s.group \in Groups /\ t.group \in Groups
      /\ s = [role |-> s.role, group |-> s.group] /\ t = [role |-> t.role, group |-> t.group]
  BY DEF Declarable
<1> DEFINE short(u) == NameLen(MarkerName(u.group)) <= MaxLabelLen
           key(u) == RoleGroupMarkerLabelKey(u.role, u.group)
\* A marker over the limit makes for a resource name over its own.
<1>2. ASSUME NEW u \in Declarable, NEW v \in Declarable, key(u) = key(v), short(u), ~short(v) PROVE FALSE
  <2> DEFINE p == PlainName(v.role, v.group)
             q == MarkerName(v.group)
  <2>1. v.role \in Roles /\ v.group \in Groups /\ u.role \in Roles /\ u.group \in Groups  BY DEF Declarable
  <2>2. Plain(p) /\ Plain(q) /\ Len(p) >= Len(q) /\ Plain(MarkerName(u.group))  BY <2>1, PlainNames
  <2>3. NameLen(q) = Len(q) /\ Len(q) \in Nat /\ Len(p) \in Nat  BY <2>2, PlainLength
  <2>4. MaxRoleGroupNameLen \in Nat /\ MaxLabelLen \in Nat /\ MaxRoleGroupNameLen <= MaxLabelLen
    <3>1. Len(HeadlessSuffix) = 2  BY DEF HeadlessSuffix
    <3> QED BY <3>1, LengthsAssumption
  <2>5. Len(p) > MaxRoleGroupNameLen  BY <1>2, <2>2, <2>3, <2>4
  <2>6. Hashed(RoleGroupResourceName(v.role, v.group), p)  BY <2>1, <2>3, <2>4, <2>5, ResourceName
  <2>7. key(u) = MarkerName(u.group) /\ key(v) = RoleGroupResourceName(v.role, v.group)
    BY <1>2 DEF RoleGroupMarkerLabelKey, MarkerName
  <2> DEFINE x == MarkerName(u.group)
  <2>8. Plain(x) /\ Hashed(x, p)  BY <1>2, <2>2, <2>6, <2>7
  <2> HIDE DEF x, p
  <2>9. x[Len(x)] \in NameChars  BY <2>8, PlainLength DEF Plain
  <2> QED BY <2>8, <2>9, HashApart DEF Hashed
<1>3. CASE short(s) /\ short(t)
  <2>1. MarkerName(s.group) = MarkerName(t.group)  BY <1>3 DEF RoleGroupMarkerLabelKey, MarkerName
  <2>2. s.group = t.group  BY <1>1, <2>1, TailsDistinct
  <2> QED BY <1>1, <2>2
<1>4. CASE ~short(s) /\ ~short(t)
  <2>1. RoleGroupResourceName(s.role, s.group) = RoleGroupResourceName(t.role, t.group)
    BY <1>4 DEF RoleGroupMarkerLabelKey, MarkerName
  <2>2. PlainName(s.role, s.group) = PlainName(s.role, t.group)  BY <2>1, NamesDiffer
  <2>3. s.group = t.group  BY <1>1, <2>2, TailsDistinct
  <2> QED BY <1>1, <2>3
<1> QED BY <1>2, <1>3, <1>4

LEMMA Recommended ==
  ASSUME NEW role, NEW l
  PROVE  /\ l \in DOMAIN recommendedLabels(role) <=> l \in {Char("instance"), Char("component"), Char("managed-by")}
         /\ \A w : Labelled(recommendedLabels(role), l, w) <=>
              \/ l = Char("instance") /\ w = ClusterName
              \/ l = Char("component") /\ w = role
              \/ l = Char("managed-by") /\ w = Char("operator-go")
<1>1. Char("instance") # Char("component") /\ Char("instance") # Char("managed-by")
      /\ Char("component") # Char("managed-by")
  BY KeysApart
<1> DEFINE f == Over(Label(Char("component"), role), Label(Char("managed-by"), Char("operator-go")))
<1>2. /\ l \in DOMAIN f <=> l \in {Char("component"), Char("managed-by")}
      /\ \A w : Labelled(f, l, w) <=> \/ l = Char("component") /\ w = role
                                      \/ l = Char("managed-by") /\ w = Char("operator-go")
  BY <1>1 DEF Labelled, Over, Label
<1> HIDE DEF f
<1>3. recommendedLabels(role) = Over(Label(Char("instance"), ClusterName), f)
  BY DEF recommendedLabels, f
<1> QED BY <1>1, <1>2, <1>3 DEF Labelled, Over, Label

LEMMA RoleIdentity ==
  ASSUME NEW role, NEW l
  PROVE  /\ ~labelDomain => l \notin DOMAIN roleIdentityLabels(role)
         /\ l \in DOMAIN roleIdentityLabels(role) => l \in {Char("domain/cluster"), Char("domain/role")}
         /\ labelDomain => \A w : Labelled(roleIdentityLabels(role), l, w) <=>
              \/ l = Char("domain/cluster") /\ w = ClusterName
              \/ l = Char("domain/role") /\ w = role
<1>1. Char("domain/cluster") # Char("domain/role")  BY KeysApart
<1> QED BY <1>1 DEF roleIdentityLabels, Labelled, Over, Label, NoLabels

LEMMA Identity ==
  ASSUME NEW s, NEW l
  PROVE  /\ ~labelDomain => l \notin DOMAIN identityLabels(s)
         /\ l \in DOMAIN identityLabels(s) =>
              l \in {Char("domain/cluster"), Char("domain/role"), Char("domain/role-group")}
         /\ labelDomain => \A w : Labelled(identityLabels(s), l, w) <=>
              \/ l = Char("domain/cluster") /\ w = ClusterName
              \/ l = Char("domain/role") /\ w = s.role
              \/ l = Char("domain/role-group") /\ w = s.group
<1>1. Char("domain/cluster") # Char("domain/role-group") /\ Char("domain/role") # Char("domain/role-group")
  BY KeysApart
<1> DEFINE f == roleIdentityLabels(s.role)
<1>2. CASE labelDomain
  <2>1. identityLabels(s) = Over(f, Label(Char("domain/role-group"), s.group))
    BY <1>2 DEF identityLabels
  <2>2. /\ l \in DOMAIN f => l \in {Char("domain/cluster"), Char("domain/role")}
        /\ \A w : Labelled(f, l, w) <=> \/ l = Char("domain/cluster") /\ w = ClusterName
                                        \/ l = Char("domain/role") /\ w = s.role
    BY <1>2, RoleIdentity
  <2> HIDE DEF f
  <2> QED BY <1>1, <1>2, <2>1, <2>2 DEF Labelled, Over, Label
<1>3. CASE ~labelDomain
  BY <1>3 DEF identityLabels, NoLabels
<1> QED BY <1>2, <1>3

LEMMA Selector ==
  ASSUME NEW s \in Declarable, NEW l
  PROVE  /\ l \in DOMAIN frameworkSelectorLabels(s) <=>
              \/ l \in {Char("instance"), Char("component"), Char("managed-by")}
              \/ l = RoleGroupMarkerLabelKey(s.role, s.group)
         /\ \A w : Labelled(frameworkSelectorLabels(s), l, w) <=>
              \/ Labelled(recommendedLabels(s.role), l, w)
              \/ l = RoleGroupMarkerLabelKey(s.role, s.group) /\ w = True
<1> DEFINE m == RoleGroupMarkerLabelKey(s.role, s.group)
<1>1. m # Char("instance") /\ m # Char("component") /\ m # Char("managed-by")  BY MarkerLong
<1> HIDE DEF m
<1>2. frameworkSelectorLabels(s) = Over(recommendedLabels(s.role), Label(m, True))
  BY DEF frameworkSelectorLabels, m
<1> DEFINE r == recommendedLabels(s.role)
<1>3. l \in DOMAIN r <=> l \in {Char("instance"), Char("component"), Char("managed-by")}  BY Recommended
<1> HIDE DEF r
<1>4. /\ l \in DOMAIN frameworkSelectorLabels(s) <=>
            l \in {Char("instance"), Char("component"), Char("managed-by")} \/ l = m
      /\ \A w : Labelled(frameworkSelectorLabels(s), l, w) <=>
           Labelled(r, l, w) \/ (l = m /\ w = True)
  BY <1>1, <1>2, <1>3 DEF Labelled, Over, Label, r
<1> QED BY <1>4 DEF m, r

\* What a label of a group's objects may be: one of the framework's, with the
\* framework's value, or one of the CR's that handlers may write.
LEMMA Built ==
  ASSUME NEW s \in Declarable, NEW l
  PROVE  /\ \A w : Labelled(identityLabels(s), l, w) => Labelled(buildLabels(s), l, w)
         /\ labelDomain /\ l \in DOMAIN identityLabels(s) =>
              \A w : Labelled(buildLabels(s), l, w) => Labelled(identityLabels(s), l, w)
         /\ ~labelDomain /\ l \in DOMAIN frameworkSelectorLabels(s) =>
              \A w : Labelled(buildLabels(s), l, w) <=> Labelled(frameworkSelectorLabels(s), l, w)
         /\ l \in {Char("instance"), Char("component"), Char("managed-by")} =>
              \A w : Labelled(buildLabels(s), l, w) <=> Labelled(recommendedLabels(s.role), l, w)
         /\ l \in DOMAIN buildLabels(s) =>
              \/ l \in DOMAIN identityLabels(s) \/ l \in DOMAIN frameworkSelectorLabels(s)
              \/ l = Char("role-group") \/ l \in DOMAIN handlerWritableLabels(crLabels)
<1> DEFINE i == identityLabels(s)
           f == frameworkSelectorLabels(s)
           r == Over(Over(recommendedLabels(s.role), Label(Char("role-group"), s.group)),
                     handlerWritableLabels(crLabels))
<1>1. buildLabels(s) = Over(i, Over(f, r))  BY DEF buildLabels
<1>2. l \in DOMAIN r => \/ l \in DOMAIN f \/ l = Char("role-group")
                        \/ l \in DOMAIN handlerWritableLabels(crLabels)
  <2>1. l \in DOMAIN r => \/ l \in DOMAIN recommendedLabels(s.role) \/ l = Char("role-group")
                          \/ l \in DOMAIN handlerWritableLabels(crLabels)
    BY DEF Over, Label
  <2>2. l \in DOMAIN recommendedLabels(s.role) => l \in DOMAIN f  BY Recommended, Selector
  <2> QED BY <2>1, <2>2
<1>3. l \in {Char("instance"), Char("component"), Char("managed-by")} =>
        /\ l \notin DOMAIN i /\ l \in DOMAIN f
        /\ \A w : Labelled(f, l, w) <=> Labelled(recommendedLabels(s.role), l, w)
  <2>1. \A a \in {"instance", "component", "managed-by"} :
          Char(a) \notin {Char("domain/cluster"), Char("domain/role"), Char("domain/role-group")}
    BY KeysApart
  <2>2. \A a : Char(a) # RoleGroupMarkerLabelKey(s.role, s.group)  BY MarkerLong
  <2> QED BY <2>1, <2>2, Identity, Selector
<1>4. ~labelDomain => l \notin DOMAIN i  BY Identity
<1> HIDE DEF i, f, r
<1>5. /\ l \in DOMAIN buildLabels(s) => l \in DOMAIN i \/ l \in DOMAIN f \/ l \in DOMAIN r
      /\ \A w : /\ Labelled(i, l, w) => Labelled(buildLabels(s), l, w)
                /\ l \in DOMAIN i => (Labelled(buildLabels(s), l, w) => Labelled(i, l, w))
                /\ l \notin DOMAIN i /\ l \in DOMAIN f =>
                     (Labelled(buildLabels(s), l, w) <=> Labelled(f, l, w))
  BY <1>1 DEF Labelled, Over
<1>6. l \in DOMAIN buildLabels(s) =>
        l \in DOMAIN i \/ l \in DOMAIN f \/ l = Char("role-group") \/ l \in DOMAIN handlerWritableLabels(crLabels)
  BY <1>2, <1>5
<1> QED BY <1>3, <1>4, <1>5, <1>6 DEF i, f

\* The markers of a reclaim's targets reach no object by inheritance.
LEMMA NoMarkers ==
  ASSUME NEW s \in Declarable, NEW a \in {"metrics.kubedoop.dev/service", "pdb.kubedoop.dev/role",
                                        "pdb.kubedoop.dev/role-group"}
  PROVE  Char(a) \notin DOMAIN buildLabels(s)
<1>1. Char(a) \notin {Char("domain/cluster"), Char("domain/role"), Char("domain/role-group"), Char("role-group"),
                      Char("instance"), Char("component"), Char("managed-by")}
  BY KeysApart
<1>2. Char(a) # RoleGroupMarkerLabelKey(s.role, s.group)  BY MarkerLong
<1>3. Char(a) \notin DOMAIN handlerWritableLabels(crLabels)
  BY Writable DEF LabelMetricsService, LabelRolePodDisruptionBudget, LabelRoleGroupPodDisruptionBudget
<1>4. Char(a) \notin DOMAIN identityLabels(s) /\ Char(a) \notin DOMAIN frameworkSelectorLabels(s)
  BY <1>1, <1>2, Identity, Selector
<1> QED BY <1>1, <1>3, <1>4, Built

\* A label that has a value has no other.
LEMMA OneValue ==
  ASSUME NEW f, NEW l, NEW v, NEW w, Labelled(f, l, v), Labelled(f, l, w) PROVE v = w
BY DEF Labelled

LEMMA Selected ==
  ASSUME NEW f, NEW g
  PROVE  Selects(f, g) <=> \A l, w : Labelled(f, l, w) => Labelled(g, l, w)
BY DEF Selects, Labelled

\* Without a label domain, the marker on the CR is on every pod of the cluster.
LEMMA GivenMarker ==
  ASSUME NEW s \in Declarable, NEW t \in Declarable, ~labelDomain, MarkerOnCR(s)
  PROVE  Labelled(buildLabels(t), RoleGroupMarkerLabelKey(s.role, s.group), True)
<1> DEFINE m == RoleGroupMarkerLabelKey(s.role, s.group)
           f == frameworkSelectorLabels(t)
           h == handlerWritableLabels(crLabels)
           r == Over(recommendedLabels(t.role), Label(Char("role-group"), t.group))
<1>1. \A a : m # Char(a)  BY MarkerLong
<1>2. Labelled(h, m, True)
  <2>1. m \in crLabels  BY DEF MarkerOnCR
  <2>2. m \notin {LabelMetricsService, LabelRolePodDisruptionBudget, LabelRoleGroupPodDisruptionBudget}
    BY <1>1 DEF LabelMetricsService, LabelRolePodDisruptionBudget, LabelRoleGroupPodDisruptionBudget
  <2> QED BY <2>1, <2>2 DEF handlerWritableLabels, Labelled
<1>3. m \notin DOMAIN recommendedLabels(t.role)  BY <1>1, Recommended
<1>4. m \notin DOMAIN r  BY <1>1, <1>3 DEF Over, Label
<1>5. m \in DOMAIN f => Labelled(f, m, True)
  <2>1. m \in DOMAIN f => m = RoleGroupMarkerLabelKey(t.role, t.group)  BY <1>1, Selector
  <2> QED BY <2>1, Selector
<1>6. m \notin DOMAIN identityLabels(t)  BY Identity
<1>7. buildLabels(t) = Over(identityLabels(t), Over(f, Over(r, h)))  BY DEF buildLabels
<1> HIDE DEF m, f, h, r
<1>8. Labelled(Over(r, h), m, True)  BY <1>2, <1>4 DEF Over, Labelled
<1>9. Labelled(Over(f, Over(r, h)), m, True)  BY <1>5, <1>8 DEF Over, Labelled
<1>10. Labelled(buildLabels(t), m, True)  BY <1>6, <1>7, <1>9 DEF Over, Labelled
<1> QED BY <1>10 DEF m

\* A group's selector takes in the pods of that group, and of no other but
\* those that the CR labels with its marker.
LEMMA GroupSelector ==
  ASSUME NEW s \in Declarable, NEW t \in Declarable, labelDomain \in BOOLEAN
  PROVE  Selects(buildSelectorLabels(s), buildLabels(t)) <=>
           s = t \/ (s.role = t.role /\ SelectorGivenAway(s))
<1>1. s = [role |-> s.role, group |-> s.group] /\ t = [role |-> t.role, group |-> t.group]
  BY DEF Declarable
<1>2. CASE labelDomain
  <2>1. buildSelectorLabels(s) = identityLabels(s)  BY <1>2 DEF buildSelectorLabels
  <2>2. Selects(identityLabels(s), buildLabels(s))  BY Built, Selected
  <2>3. ASSUME Selects(identityLabels(s), buildLabels(t)) PROVE s = t
    <3>1. /\ Labelled(identityLabels(s), Char("domain/role"), s.role)
          /\ Labelled(identityLabels(s), Char("domain/role-group"), s.group)
          /\ Labelled(identityLabels(t), Char("domain/role"), t.role)
          /\ Labelled(identityLabels(t), Char("domain/role-group"), t.group)
      BY <1>2, Identity
    <3>2. /\ Labelled(buildLabels(t), Char("domain/role"), s.role)
          /\ Labelled(buildLabels(t), Char("domain/role-group"), s.group)
      BY <2>3, <3>1, Selected
    <3>3. /\ Labelled(buildLabels(t), Char("domain/role"), t.role)
          /\ Labelled(buildLabels(t), Char("domain/role-group"), t.group)
      BY <3>1, Built
    <3>4. s.role = t.role /\ s.group = t.group  BY <3>2, <3>3, OneValue
    <3> QED BY <1>1, <3>4
  <2> QED BY <1>2, <2>1, <2>2, <2>3 DEF SelectorGivenAway
<1>3. CASE ~labelDomain
  <2> DEFINE m == RoleGroupMarkerLabelKey(s.role, s.group)
             f == frameworkSelectorLabels(s)
  <2>1. buildSelectorLabels(s) = f  BY <1>3 DEF buildSelectorLabels
  <2>2. Selects(f, buildLabels(s))
    <3>1. \A l, w : Labelled(f, l, w) => l \in DOMAIN f  BY DEF Labelled
    <3> HIDE DEF f
    <3>2. \A l, w : Labelled(f, l, w) => Labelled(buildLabels(s), l, w)  BY <1>3, <3>1, Built DEF f
    <3> QED BY <3>2, Selected
  <2>3. ASSUME Selects(f, buildLabels(t)) PROVE s.role = t.role /\ (s = t \/ MarkerOnCR(s))
    <3>1. Labelled(f, m, True) /\ Labelled(f, Char("component"), s.role)
      <4>1. Labelled(recommendedLabels(s.role), Char("component"), s.role)  BY Recommended
      <4> QED BY <4>1, Selector
    <3>2. Labelled(buildLabels(t), m, True) /\ Labelled(buildLabels(t), Char("component"), s.role)
      BY <2>3, <3>1, Selected
    <3>3. s.role = t.role
      <4>1. Labelled(recommendedLabels(t.role), Char("component"), s.role)
        BY <3>2, Built
      <4>2. Char("component") # Char("instance") /\ Char("component") # Char("managed-by")  BY KeysApart
      <4> QED BY <4>1, <4>2, Recommended
    <3>4. m \in DOMAIN buildLabels(t)  BY <3>2 DEF Labelled
    <3>5. ASSUME ~MarkerOnCR(s) PROVE m = RoleGroupMarkerLabelKey(t.role, t.group)
      <4>1. \A a : m # Char(a)  BY MarkerLong
      <4>2. m \notin DOMAIN identityLabels(t)  BY <1>3, Identity
      <4>3. m \notin DOMAIN handlerWritableLabels(crLabels)  BY <3>5, Writable DEF MarkerOnCR
      <4>4. m \in DOMAIN frameworkSelectorLabels(t)  BY <3>4, <4>1, <4>2, <4>3, Built
      <4> QED BY <4>1, <4>4, Selector
    <3> QED BY <3>3, <3>5, MarkersDistinct
  <2>4. ASSUME s.role = t.role, MarkerOnCR(s) PROVE Selects(f, buildLabels(t))
    <3>1. \A l, w : Labelled(f, l, w) => Labelled(recommendedLabels(t.role), l, w) \/ (l = m /\ w = True)
      BY <2>4, Selector
    <3>2. \A l, w : Labelled(recommendedLabels(t.role), l, w) => Labelled(buildLabels(t), l, w)
      BY Recommended, Built
    <3>3. Labelled(buildLabels(t), m, True)  BY <1>3, <2>4, GivenMarker
    <3> QED BY <3>1, <3>2, <3>3, Selected
  <2> QED BY <1>3, <2>1, <2>2, <2>3, <2>4 DEF SelectorGivenAway
<1> QED BY <1>2, <1>3

\* The budget of a role takes in the pods of that role and of no other.
LEMMA RoleSelector ==
  ASSUME NEW s \in Declarable, NEW t \in Declarable, labelDomain \in BOOLEAN
  PROVE  Selects(buildRoleSelectorLabels(s.role), buildLabels(t)) <=> s.role = t.role
<1>1. CASE labelDomain
  <2>1. buildRoleSelectorLabels(s.role) = roleIdentityLabels(s.role)  BY <1>1 DEF buildRoleSelectorLabels
  <2>2. ASSUME s.role = t.role PROVE Selects(roleIdentityLabels(s.role), buildLabels(t))
    <3>1. \A l, w : Labelled(roleIdentityLabels(s.role), l, w) => Labelled(identityLabels(t), l, w)
      BY <1>1, <2>2, RoleIdentity, Identity
    <3>2. \A l, w : Labelled(identityLabels(t), l, w) => Labelled(buildLabels(t), l, w)  BY Built
    <3> QED BY <3>1, <3>2, Selected
  <2>3. ASSUME Selects(roleIdentityLabels(s.role), buildLabels(t)) PROVE s.role = t.role
    <3>1. Labelled(roleIdentityLabels(s.role), Char("domain/role"), s.role)
          /\ Labelled(identityLabels(t), Char("domain/role"), t.role)
      BY <1>1, RoleIdentity, Identity
    <3>2. Labelled(buildLabels(t), Char("domain/role"), s.role)  BY <2>3, <3>1, Selected
    <3>3. Labelled(buildLabels(t), Char("domain/role"), t.role)  BY <3>1, Built
    <3> QED BY <3>2, <3>3, OneValue
  <2> QED BY <2>1, <2>2, <2>3
<1>2. CASE ~labelDomain
  <2>1. buildRoleSelectorLabels(s.role) = recommendedLabels(s.role)  BY <1>2 DEF buildRoleSelectorLabels
  <2>2. ASSUME s.role = t.role PROVE Selects(recommendedLabels(s.role), buildLabels(t))
    <3>1. \A l, w : Labelled(recommendedLabels(s.role), l, w) =>
                     l \in {Char("instance"), Char("component"), Char("managed-by")}
      BY Recommended
    <3>2. \A l, w : Labelled(recommendedLabels(s.role), l, w) => Labelled(buildLabels(t), l, w)
      BY <2>2, <3>1, Built
    <3> QED BY <3>2, Selected
  <2>3. ASSUME Selects(recommendedLabels(s.role), buildLabels(t)) PROVE s.role = t.role
    <3>1. Labelled(recommendedLabels(s.role), Char("component"), s.role)  BY Recommended
    <3>2. Labelled(buildLabels(t), Char("component"), s.role)  BY <2>3, <3>1, Selected
    <3>3. Labelled(recommendedLabels(t.role), Char("component"), s.role)  BY <3>2, Built
    <3>4. Char("component") # Char("instance") /\ Char("component") # Char("managed-by")  BY KeysApart
    <3> QED BY <3>3, <3>4, Recommended
  <2> QED BY <2>1, <2>2, <2>3
<1> QED BY <1>1, <1>2

\* No reclaim of one slot takes the object of another, but for the budget that
\* the CR labels with its marker.
LEMMA Reclaims ==
  ASSUME NEW s \in Declarable, NEW t \in Declarable, s \in slots
  PROVE  /\ ~TakesService(s, t)
         /\ TakesRolePDB(s, t.role) <=>
              RoleGroupResourceName(s.role, s.group) = RoleResourceName(t.role) /\ MarkerOnCR(s)
         /\ ~TakesAsOrphan(RolePDBLabels(s.role)) /\ ~TakesAsOrphan(GroupPDBLabels(s))
<1>1. ~TakesService(s, t)
  BY NoMarkers DEF TakesService, Labelled, LabelMetricsService
<1>2. ASSUME ~MarkerOnCR(s), isFrameworkRoleGroupPDB(RolePDBLabels(t.role), s) PROVE FALSE
  <2> DEFINE m == RoleGroupMarkerLabelKey(s.role, s.group)
             g == LabelRoleGroupPodDisruptionBudget
  <2>1. m \in DOMAIN RolePDBLabels(t.role) \/ g \in DOMAIN RolePDBLabels(t.role)
    BY <1>2 DEF isFrameworkRoleGroupPDB, Labelled
  <2>2. ASSUME NEW l, l \in DOMAIN RolePDBLabels(t.role)
        PROVE  \/ l = LabelRolePodDisruptionBudget \/ l \in DOMAIN roleIdentityLabels(t.role)
               \/ l \in DOMAIN recommendedLabels(t.role) \/ l \in DOMAIN handlerWritableLabels(crLabels)
    BY <2>2 DEF RolePDBLabels, buildRoleLabels, Over, Label
  <2>3. \A l : l \in DOMAIN RolePDBLabels(t.role) =>
          \/ l \in {Char("pdb.kubedoop.dev/role"), Char("domain/cluster"), Char("domain/role"), Char("instance"),
                    Char("component"), Char("managed-by")}
          \/ l \in crLabels /\ l # g
    BY <2>2, RoleIdentity, Recommended, Writable DEF LabelRolePodDisruptionBudget
  <2>4. g \notin {Char("pdb.kubedoop.dev/role"), Char("domain/cluster"), Char("domain/role"), Char("instance"),
                  Char("component"), Char("managed-by")}
    BY KeysApart DEF LabelRoleGroupPodDisruptionBudget
  <2>5. \A a : m # Char(a)  BY MarkerLong
  <2>6. m \notin crLabels  BY <1>2 DEF MarkerOnCR
  <2> HIDE DEF m, g
  <2> QED BY <2>1, <2>3, <2>4, <2>5, <2>6
<1>3. ~TakesAsOrphan(RolePDBLabels(s.role))
  <2> DEFINE k == LabelRolePodDisruptionBudget
  <2>1. Labelled(RolePDBLabels(s.role), k, s.role)  BY DEF RolePDBLabels, Labelled, Over, Label
  <2> QED BY <2>1 DEF TakesAsOrphan, Labelled
<1>4. ~TakesAsOrphan(GroupPDBLabels(s))
  <2>1. LabelRolePodDisruptionBudget \notin DOMAIN buildLabels(s)
    BY NoMarkers DEF LabelRolePodDisruptionBudget
  <2>2. LabelRolePodDisruptionBudget # LabelRoleGroupPodDisruptionBudget
    BY KeysApart DEF LabelRolePodDisruptionBudget, LabelRoleGroupPodDisruptionBudget
  <2>3. LabelRolePodDisruptionBudget \notin DOMAIN GroupPDBLabels(s)
    BY <2>1, <2>2 DEF GroupPDBLabels, Over, Label
  <2> QED BY <2>3 DEF TakesAsOrphan
<1>5. ASSUME MarkerOnCR(s) PROVE isFrameworkRoleGroupPDB(RolePDBLabels(t.role), s)
  <2> DEFINE m == RoleGroupMarkerLabelKey(s.role, s.group)
             i == roleIdentityLabels(t.role)
             r == recommendedLabels(t.role)
             h == handlerWritableLabels(crLabels)
             b == Label(LabelRolePodDisruptionBudget, t.role)
             managed == Char("managed-by")
             framework == Char("operator-go")
  <2>1. RolePDBLabels(t.role) = Over(b, Over(i, Over(r, h)))  BY DEF RolePDBLabels, buildRoleLabels
  <2>2. \A a : m # Char(a)  BY MarkerLong
  <2>3. Labelled(h, m, True)
    <3>1. m \in crLabels  BY <1>5 DEF MarkerOnCR
    <3>2. m \notin {LabelMetricsService, LabelRolePodDisruptionBudget, LabelRoleGroupPodDisruptionBudget}
      BY <2>2 DEF LabelMetricsService, LabelRolePodDisruptionBudget, LabelRoleGroupPodDisruptionBudget
    <3> QED BY <3>1, <3>2 DEF handlerWritableLabels, Labelled
  <2>4. m \notin DOMAIN r /\ m \notin DOMAIN i /\ m \notin DOMAIN b
    <3>1. DOMAIN b = {Char("pdb.kubedoop.dev/role")}  BY DEF Label, LabelRolePodDisruptionBudget
    <3> QED BY <2>2, <3>1, Recommended, RoleIdentity
  <2>5. Labelled(r, managed, framework)  BY Recommended
  <2>6. managed \notin DOMAIN i /\ managed \notin DOMAIN b
    <3>1. DOMAIN b = {Char("pdb.kubedoop.dev/role")}  BY DEF Label, LabelRolePodDisruptionBudget
    <3>2. managed \notin {Char("pdb.kubedoop.dev/role"), Char("domain/cluster"), Char("domain/role")}
      BY KeysApart
    <3> QED BY <3>1, <3>2, RoleIdentity
  <2> HIDE DEF m, i, r, h, b, managed, framework
  <2>7. Labelled(Over(b, Over(i, Over(r, h))), m, True)  BY <2>3, <2>4 DEF Over, Labelled
  <2>8. Labelled(Over(b, Over(i, Over(r, h))), managed, framework)  BY <2>5, <2>6 DEF Over, Labelled
  <2>9. Labelled(RolePDBLabels(t.role), m, True) /\ Labelled(RolePDBLabels(t.role), managed, framework)
    BY <2>1, <2>7, <2>8
  <2> QED BY <2>9 DEF isFrameworkRoleGroupPDB, m, managed, framework
<1> QED BY <1>1, <1>2, <1>3, <1>4, <1>5 DEF TakesRolePDB

\* Whatever groups are declared and whatever labels the CR carries, selectors and
\* reclaims keep to their own slot, except where the CR carries the slot's own
\* marker: what they take then is said exactly (buildLabels,
\* handlerWritableLabels).
THEOREM SlotsSafe == NamesSpec => []SlotsSeparate
<1>1. NamesInit => NamesInv  BY NamesInitInv
<1>2. NamesInv /\ [NamesNext]_nameVars => NamesInv'  BY NamesStep
<1>3. ASSUME NamesInv PROVE SlotsSeparate
  <2>1. labelDomain \in BOOLEAN /\ \A s \in slots : s \in Declarable  BY <1>3 DEF NamesInv
  <2>2. ASSUME NEW s \in slots, NEW t \in slots
        PROVE  /\ Selects(buildSelectorLabels(s), buildLabels(t)) <=>
                    s = t \/ (s.role = t.role /\ SelectorGivenAway(s))
               /\ Selects(buildRoleSelectorLabels(s.role), buildLabels(t)) <=> s.role = t.role
               /\ ~TakesService(s, t)
               /\ TakesRolePDB(s, t.role) <=>
                    RoleGroupResourceName(s.role, s.group) = RoleResourceName(t.role) /\ MarkerOnCR(s)
               /\ ~TakesAsOrphan(RolePDBLabels(s.role)) /\ ~TakesAsOrphan(GroupPDBLabels(s))
    BY <2>1, GroupSelector, RoleSelector, Reclaims
  <2> QED BY <2>2 DEF SlotsSeparate
<1> QED BY <1>1, <1>2, <1>3, PTL DEF NamesSpec
=============================================================================
