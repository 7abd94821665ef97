--------------------- MODULE PatternApplication_proofs ----------------------
(***************************************************************************)
(* What is proved of the Application for any specs, with extra parameters  *)
(* of any number and any names, any repositories, failures, restarts and   *)
(* edits.  The parameters are a recursive function of the extras: an       *)
(* induction over a set of naturals shows what its value is.               *)
(***************************************************************************)
EXTENDS PatternApplication, TLAPS, WellFoundedInduction, SequenceTheorems

-----------------------------------------------------------------------------
(* The kind of the source.                                                 *)

(* An Application with its four parts and the one kind of source.          *)
WellMade(a) ==
  \E destination, source, sources, policy :
    /\ a = [destination |-> destination, source |-> source, sources |-> sources, policy |-> policy]
    /\ source = {} <=> sources # {}

(* What is stored and what is about to be written.                         *)
KindInv == (\A a \in app : WellMade(a)) /\ (\A t \in target : WellMade(t))

LEMMA WellMadeHasOneKind ==
  ASSUME NEW a, WellMade(a)
  PROVE  a.source = {} <=> a.sources # {}
  BY DEF WellMade

LEMMA NewIsWellMade ==
  ASSUME NEW p, NEW c
  PROVE  WellMade(NewApplication(p, c))
<1> DEFINE source == IF p.spec.multiSource THEN {} ELSE {SingleSource(p, c)}
           sources == IF p.spec.multiSource THEN {MultiSource(p, c)} ELSE {}
<1>1. source = {} <=> sources # {}
  OBVIOUS
<1>2. NewApplication(p, c) = [destination |-> "in-cluster", source |-> source,
                              sources |-> sources, policy |-> Policy(p)]
  BY DEF NewApplication
<1> HIDE DEF source, sources
<1>3. QED
  BY <1>1, <1>2 DEF WellMade

(* Sending it and storing it again changes the policy only.                *)
LEMMA ReplacedIsWellMade ==
  ASSUME NEW a, WellMade(a)
  PROVE  WellMade(Replaced(a))
<1>1. PICK destination, source, sources, policy :
        /\ a = [destination |-> destination, source |-> source,
                sources |-> sources, policy |-> policy]
        /\ source = {} <=> sources # {}
  BY DEF WellMade
<1>2. \E other : Replaced(a) = [a EXCEPT !.policy = other]
  BY DEF Replaced, Serialised
<1>3. PICK other : Replaced(a) = [a EXCEPT !.policy = other]
  BY <1>2
<1>4. Replaced(a) = [destination |-> destination, source |-> source,
                     sources |-> sources, policy |-> other]
  BY <1>1, <1>3
<1>5. QED
  BY <1>1, <1>4 DEF WellMade

(* Whoever changes the Application keeps the kind of its source.           *)
LEMMA DriftedIsWellMade ==
  ASSUME NEW a, WellMade(a), NEW b \in Drifted(a)
  PROVE  WellMade(b)
<1>1. PICK destination, source, sources, policy :
        /\ a = [destination |-> destination, source |-> source,
                sources |-> sources, policy |-> policy]
        /\ source = {} <=> sources # {}
  BY DEF WellMade
<1> DEFINE changed == {Elsewhere(s) : s \in source}
           changedList == {[i \in DOMAIN s |-> Elsewhere(s[i])] : s \in sources}
<1>2. changed = {} <=> changedList # {}
  BY <1>1
<1> HIDE DEF changed, changedList
<1>3. \/ b = [a EXCEPT !.policy = {}]
      \/ b = [a EXCEPT !.destination = "elsewhere"]
      \/ b = [a EXCEPT !.source = changed, !.sources = changedList]
  BY <1>1 DEF Drifted, changed, changedList
<1>4. \/ b = [destination |-> destination, source |-> source, sources |-> sources, policy |-> {}]
      \/ b = [destination |-> "elsewhere", source |-> source, sources |-> sources, policy |-> policy]
      \/ b = [destination |-> destination, source |-> changed, sources |-> changedList,
              policy |-> policy]
  BY <1>1, <1>3
<1>5. QED
  BY <1>1, <1>2, <1>4 DEF WellMade

LEMMA KindStep == KindInv /\ [Next]_vars => KindInv'
<1> SUFFICES ASSUME KindInv, [Next]_vars
             PROVE  KindInv'
  OBVIOUS
<1>1. CASE Begin
  <2>1. \E p, c : target' = {NewApplication(p, c)}
    BY <1>1 DEF Begin
  <2>2. UNCHANGED app
    BY <1>1 DEF Begin
  <2>3. QED
    BY <2>1, <2>2, NewIsWellMade DEF KindInv
<1>2. CASE Write
  <2>1. app' = {Replaced(t) : t \in target} /\ target' = {}
    BY <1>2 DEF Write, Ends
  <2>2. QED
    BY <2>1, ReplacedIsWellMade DEF KindInv
<1>3. CASE ApplicationChanges
  <2>1. UNCHANGED target
    BY <1>3 DEF ApplicationChanges
  <2>2. app' = {} \/ \E a \in app : \E b \in Drifted(a) : app' = {b}
    BY <1>3 DEF ApplicationChanges
  <2>3. QED
    BY <2>1, <2>2, DriftedIsWellMade DEF KindInv
<1>4. CASE app' \in {app, {}} /\ target' \in {target, {}}
  BY <1>4 DEF KindInv
<1>5. \/ Begin \/ Write \/ ApplicationChanges
      \/ app' \in {app, {}} /\ target' \in {target, {}}
  BY DEF Next, Reconciler, vars, Panicked, Read, NothingToWrite, PhaseAdvances, Finalized, WriteFails,
         Restart, PatternChanges, RepositoryChanges, Ends
<1>6. QED
  BY <1>1, <1>2, <1>3, <1>4, <1>5

(* The stored Application has a source or a list of sources, never both    *)
(* and never none, from whichever kind the Pattern changes to whichever,   *)
(* and whoever edits it meanwhile.                                         *)
THEOREM OneKindAlways == Spec => []OneKindOfSource
<1>1. Init => KindInv
  BY DEF Init, KindInv
<1>2. KindInv /\ [Next]_vars => KindInv'
  BY KindStep
<1>3. KindInv => OneKindOfSource
  BY WellMadeHasOneKind DEF KindInv, OneKindOfSource
<1>4. QED
  BY <1>1, <1>2, <1>3, PTL DEF Spec

-----------------------------------------------------------------------------
(* The parameters.                                                         *)

(* A set of naturals with an element has a least one.                      *)
LEMMA LeastElement ==
  ASSUME NEW T, T \subseteq Nat, T # {}
  PROVE  \E n \in T : \A m \in T : n <= m
<1>1. PICK n \in T : \A m \in T : <<m, n>> \notin OpToRel(<, Nat)
  BY WFMin, NatLessThanWellFounded
<1>2. \A m \in T : ~(m < n)
  BY <1>1 DEF OpToRel
<1>3. QED
  BY <1>2

(* Induction over the naturals, with a set for what is shown of them.      *)
LEMMA SetInduction ==
  ASSUME NEW S, 0 \in S, \A n \in Nat : n \in S => n + 1 \in S
  PROVE  \A n \in Nat : n \in S
<1> DEFINE T == {n \in Nat : n \notin S}
<1> SUFFICES ASSUME T # {} PROVE FALSE
  OBVIOUS
<1>1. PICK n \in T : \A m \in T : n <= m
  BY LeastElement
<1>2. n # 0 /\ n \in Nat
  BY <1>1
<1>3. n - 1 \in Nat /\ n - 1 \notin T
  BY <1>1, <1>2
<1>4. QED
  BY <1>2, <1>3

(* f is the list of parameters as it grows with the first n extras.        *)
Grows(f, n, p, c) ==
  f = [k \in 0..n |-> IF k = 0 THEN BuiltIns(p, c) ELSE Added(f[k - 1], p.spec.extras[k])]

(* There is such a function for any number of the extras that are listed.  *)
LEMMA GrowthExists ==
  ASSUME NEW p, NEW c
  PROVE  \A n \in Nat : \E f : Grows(f, n, p, c)
<1> DEFINE S == {n \in Nat : \E f : Grows(f, n, p, c)}
<1>1. 0 \in S
  <2> DEFINE f == [k \in 0..0 |-> BuiltIns(p, c)]
  <2>1. Grows(f, 0, p, c)
    BY DEF Grows
  <2>2. QED
    BY <2>1
<1>2. ASSUME NEW n \in Nat, n \in S
      PROVE  n + 1 \in S
  <2>1. PICK f : Grows(f, n, p, c)
    BY <1>2
  <2> DEFINE g == [k \in 0..(n + 1) |-> IF k = n + 1 THEN Added(f[n], p.spec.extras[n + 1])
                                                     ELSE f[k]]
  <2>2. \A k \in 0..(n + 1) :
          g[k] = IF k = 0 THEN BuiltIns(p, c) ELSE Added(g[k - 1], p.spec.extras[k])
    <3> SUFFICES ASSUME NEW k \in 0..(n + 1)
                 PROVE  g[k] = IF k = 0 THEN BuiltIns(p, c) ELSE Added(g[k - 1], p.spec.extras[k])
      OBVIOUS
    <3>1. CASE k = 0
      BY <2>1, <3>1 DEF Grows
    <3>2. CASE k = n + 1
      BY <3>2
    <3>3. CASE k \in 1..n
      <4>1. f[k] = Added(f[k - 1], p.spec.extras[k])
        BY <2>1, <3>3 DEF Grows
      <4>2. g[k] = f[k] /\ g[k - 1] = f[k - 1]
        BY <3>3
      <4> HIDE DEF g
      <4>3. QED
        BY <3>3, <4>1, <4>2
    <3>4. QED
      BY <3>1, <3>2, <3>3
  <2>3. Grows(g, n + 1, p, c)
    <3> DEFINE h == [k \in 0..(n + 1) |-> IF k = 0 THEN BuiltIns(p, c)
                                          ELSE Added(g[k - 1], p.spec.extras[k])]
    <3>1. \A k \in 0..(n + 1) : h[k] = g[k]
      BY <2>2
    <3>2. DOMAIN h = 0..(n + 1) /\ DOMAIN g = 0..(n + 1)
      OBVIOUS
    <3>3. g = [k \in 0..(n + 1) |-> g[k]] /\ h = [k \in 0..(n + 1) |-> h[k]]
      OBVIOUS
    <3>4. g = h
      <4> HIDE DEF g, h
      <4> QED
      BY <3>1, <3>3
    <3>5. QED
      BY <3>4 DEF Grows
  <2>4. QED
    BY <2>3
<1>3. \A n \in Nat : n \in S
  <2> HIDE DEF S
  <2> QED
    BY <1>1, <1>2, SetInduction
<1>4. QED
  BY <1>3

(* The function newApplicationParameters is translated to is that one.     *)
LEMMA ParametersGrow ==
  ASSUME NEW p, NEW c, Len(p.spec.extras) \in Nat
  PROVE  \E f : /\ Grows(f, Len(p.spec.extras), p, c)
                /\ NewApplicationParameters(p, c) = WithPhase(f[Len(p.spec.extras)], p.phase)
<1> DEFINE N == Len(p.spec.extras)
           f == CHOOSE g : Grows(g, N, p, c)
<1>1. Grows(f, N, p, c)
  BY GrowthExists
<1>2. NewApplicationParameters(p, c) = WithPhase(f[N], p.phase)
  BY DEF NewApplicationParameters, Grows
<1>3. QED
  BY <1>1, <1>2

(* A Pattern with a spec of its type, and a checkout of its.               *)
Asking(p, c) == p.spec \in SpecType /\ c \subseteq LayoutType

(* What the operator itself puts into an Application is text, as are the   *)
(* names and lists made of it.                                             *)
LEMMA OwnTextIsText ==
  ASSUME NEW v, v \in OwnText
  PROVE  v \in Text
  BY ApplicationAssumption

LEMMA PairOfText ==
  ASSUME NEW a \in Text, NEW b \in Text
  PROVE  <<a, b>> \in Seq(Text)
  OBVIOUS

LEMMA OneText == <<>> \in Seq(Text) /\ \A v \in Text : <<v>> \in Seq(Text)
  OBVIOUS

LEMMA ChartVersionIsText ==
  ASSUME NEW p, NEW c, Asking(p, c)
  PROVE  GetClusterGroupChartVersion(p, c) \in Text
<1>1. "0.9.*" \in Text /\ "0.8.*" \in Text
  BY OwnTextIsText DEF OwnText
<1>2. p.spec.version \in Text
  BY DEF Asking, SpecType
<1>3. QED
  BY <1>1, <1>2 DEF GetClusterGroupChartVersion

(* The operator's own parameters are two or three of different names.      *)
LEMMA BuiltInsAre ==
  ASSUME NEW p, NEW c, Asking(p, c)
  PROVE  /\ BuiltIns(p, c) \in Seq(Parameters)
         /\ Len(BuiltIns(p, c)) = IF HasVariantsFolderLayout(c) THEN 3 ELSE 2
         /\ BuiltIns(p, c)[1] = Param(Revision, p.spec.revision)
         /\ BuiltIns(p, c)[2] = Param(Version, GetClusterGroupChartVersion(p, c))
         /\ HasVariantsFolderLayout(c) => BuiltIns(p, c)[3] = Param(NewFolderDir, "true")
<1> DEFINE V == GetClusterGroupChartVersion(p, c)
<1>1. V \in Text /\ p.spec.revision \in Text /\ "true" \in Text
  BY ChartVersionIsText, OwnTextIsText DEF Asking, SpecType, OwnText
<1>2. Revision \in Seq(Text) /\ Version \in Seq(Text) /\ NewFolderDir \in Seq(Text)
  <2>1. /\ "global" \in Text /\ "targetRevision" \in Text /\ "vpNewFolderDir" \in Text
        /\ "multiSourceTargetRevision" \in Text
    BY OwnTextIsText DEF OwnText
  <2>2. QED
    BY <2>1, PairOfText DEF Revision, Version, NewFolderDir
<1>3. /\ Param(Revision, p.spec.revision) \in Parameters
      /\ Param(Version, V) \in Parameters
      /\ Param(NewFolderDir, "true") \in Parameters
  BY <1>1, <1>2 DEF Param, Parameters
<1> HIDE DEF V
<1> DEFINE two == <<Param(Revision, p.spec.revision), Param(Version, V)>>
           more == IF HasVariantsFolderLayout(c) THEN <<Param(NewFolderDir, "true")>> ELSE <<>>
<1>4. two \in Seq(Parameters) /\ Len(two) = 2 /\ two[1] = Param(Revision, p.spec.revision)
      /\ two[2] = Param(Version, V)
  BY <1>3
<1>5. /\ more \in Seq(Parameters)
      /\ Len(more) = IF HasVariantsFolderLayout(c) THEN 1 ELSE 0
      /\ HasVariantsFolderLayout(c) => more[1] = Param(NewFolderDir, "true")
  BY <1>3
<1>6. BuiltIns(p, c) = two \o more
  BY DEF BuiltIns, V
<1> HIDE DEF two, more
<1>7. /\ two \o more \in Seq(Parameters) /\ Len(two \o more) = Len(two) + Len(more)
      /\ \A i \in 1..(Len(two) + Len(more)) :
           (two \o more)[i] = IF i <= Len(two) THEN two[i] ELSE more[i - Len(two)]
  BY <1>4, <1>5, ConcatProperties
<1> HIDE DEF HasVariantsFolderLayout
<1>8. (two \o more)[1] = two[1] /\ (two \o more)[2] = two[2]
  BY <1>4, <1>5, <1>7
<1>9. HasVariantsFolderLayout(c) => (two \o more)[3] = more[1]
  BY <1>4, <1>5, <1>7
<1>10. QED
  BY <1>4, <1>5, <1>6, <1>7, <1>8, <1>9 DEF V

LEMMA OwnNamesDiffer == Revision # Version /\ Revision # NewFolderDir /\ Version # NewFolderDir
<1>1. /\ Revision[2] = "targetRevision" /\ Version[2] = "multiSourceTargetRevision"
      /\ NewFolderDir[2] = "vpNewFolderDir"
  BY DEF Revision, Version, NewFolderDir
<1>2. QED
  BY <1>1

(* What the list is after n extras: a list, without two entries of a name, *)
(* with the operator's own in front, and the first extra of every name.    *)
Distinct(list) == \A i, j \in DOMAIN list : list[i].name = list[j].name => i = j
ListOf(list, n, p, c) ==
  /\ list \in Seq(Parameters)
  /\ Distinct(list)
  /\ Len(BuiltIns(p, c)) <= Len(list)
  /\ \A i \in DOMAIN BuiltIns(p, c) : list[i] = BuiltIns(p, c)[i]
  /\ \A k \in DOMAIN list : k \in DOMAIN BuiltIns(p, c) \/ \E j \in 1..n : list[k] = p.spec.extras[j]
  /\ \A i \in 1..n : \E k \in DOMAIN list :
       /\ list[k].name = p.spec.extras[i].name
       /\ k \in DOMAIN BuiltIns(p, c) \/ \E j \in 1..i : list[k] = p.spec.extras[j]

(* updateHelmParameter keeps a list with what is said of it above.         *)
LEMMA AddedExtends ==
  ASSUME NEW p, NEW c, Asking(p, c), NEW n \in Nat, n + 1 \in DOMAIN p.spec.extras,
         NEW list, ListOf(list, n, p, c)
  PROVE  ListOf(Added(list, p.spec.extras[n + 1]), n + 1, p, c)
<1> DEFINE extra == p.spec.extras[n + 1]
           B == BuiltIns(p, c)
<1>1. extra \in Parameters
  BY DEF Asking, SpecType
<1>2. B \in Seq(Parameters) /\ list \in Seq(Parameters)
  BY BuiltInsAre DEF ListOf
<1>3. CASE \E i \in DOMAIN list : list[i].name = extra.name
  <2>1. Added(list, extra) = list
    BY <1>3 DEF Added
  <2>2. PICK k \in DOMAIN list : list[k].name = extra.name
    BY <1>3
  <2>3. k \in DOMAIN B \/ \E j \in 1..(n + 1) : list[k] = p.spec.extras[j]
    BY DEF ListOf
  <2>4. \A i \in 1..(n + 1) : \E m \in DOMAIN list :
          /\ list[m].name = p.spec.extras[i].name
          /\ m \in DOMAIN B \/ \E j \in 1..i : list[m] = p.spec.extras[j]
    <3> SUFFICES ASSUME NEW i \in 1..(n + 1)
                 PROVE  \E m \in DOMAIN list :
                          /\ list[m].name = p.spec.extras[i].name
                          /\ m \in DOMAIN B \/ \E j \in 1..i : list[m] = p.spec.extras[j]
      OBVIOUS
    <3>1. CASE i = n + 1
      BY <2>2, <2>3, <3>1
    <3>2. CASE i \in 1..n
      BY <3>2 DEF ListOf
    <3>3. QED
      BY <3>1, <3>2
  <2>5. \A m \in DOMAIN list : m \in DOMAIN B \/ \E j \in 1..(n + 1) : list[m] = p.spec.extras[j]
    BY DEF ListOf
  <2> HIDE DEF extra, B
  <2>6. ListOf(list, n + 1, p, c)
    BY <2>4, <2>5 DEF ListOf, B
  <2>7. QED
    BY <2>1, <2>6 DEF extra
<1>4. CASE ~\E i \in DOMAIN list : list[i].name = extra.name
  <2> DEFINE longer == Append(list, extra)
  <2>1. Added(list, extra) = longer
    BY <1>4 DEF Added
  <2>2. /\ longer \in Seq(Parameters) /\ Len(longer) = Len(list) + 1
        /\ DOMAIN longer = 1..(Len(list) + 1) /\ DOMAIN list = 1..Len(list)
        /\ \A i \in DOMAIN list : longer[i] = list[i]
        /\ longer[Len(list) + 1] = extra
        /\ Len(list) \in Nat
    BY <1>1, <1>2
  <2> HIDE DEF longer, extra
  <2>3. Distinct(longer)
    <3>1. ASSUME NEW i \in DOMAIN longer, NEW j \in DOMAIN longer, longer[i].name = longer[j].name
          PROVE  i = j
      <4>1. CASE i \in DOMAIN list /\ j \in DOMAIN list
        BY <2>2, <3>1, <4>1 DEF ListOf, Distinct
      <4>2. CASE i = Len(list) + 1 /\ j \in DOMAIN list
        BY <1>4, <2>2, <3>1, <4>2
      <4>3. CASE i \in DOMAIN list /\ j = Len(list) + 1
        BY <1>4, <2>2, <3>1, <4>3
      <4>4. QED
        BY <2>2, <4>1, <4>2, <4>3
    <3>2. QED
      BY <3>1 DEF Distinct
  <2>4. /\ Len(B) <= Len(longer)
        /\ \A i \in DOMAIN B : i \in DOMAIN list /\ longer[i] = B[i]
    <3>1. DOMAIN B = 1..Len(B) /\ Len(B) \in Nat
      BY <1>2
    <3>2. Len(B) <= Len(list) /\ \A i \in DOMAIN B : list[i] = B[i]
      BY DEF ListOf
    <3> HIDE DEF B
    <3>3. QED
      BY <2>2, <3>1, <3>2
  <2>5. \A m \in DOMAIN list : m \in DOMAIN B \/ \E j \in 1..n : list[m] = p.spec.extras[j]
    BY DEF ListOf
  <2>6. n + 1 \in 1..(n + 1) /\ 1..n \subseteq 1..(n + 1)
    OBVIOUS
  <2>7. \A m \in DOMAIN longer : m \in DOMAIN B \/ \E j \in 1..(n + 1) : longer[m] = p.spec.extras[j]
    <3> SUFFICES ASSUME NEW m \in DOMAIN longer
                 PROVE  m \in DOMAIN B \/ \E j \in 1..(n + 1) : longer[m] = p.spec.extras[j]
      OBVIOUS
    <3>1. CASE m \in DOMAIN list
      BY <2>2, <3>1, <2>5
    <3>2. CASE m = Len(list) + 1
      BY <2>2, <3>2, <2>6 DEF extra
    <3>3. QED
      BY <2>2, <3>1, <3>2
  <2>8. \A i \in 1..(n + 1) : \E m \in DOMAIN longer :
          /\ longer[m].name = p.spec.extras[i].name
          /\ m \in DOMAIN B \/ \E j \in 1..i : longer[m] = p.spec.extras[j]
    <3> SUFFICES ASSUME NEW i \in 1..(n + 1)
                 PROVE  \E m \in DOMAIN longer :
                          /\ longer[m].name = p.spec.extras[i].name
                          /\ m \in DOMAIN B \/ \E j \in 1..i : longer[m] = p.spec.extras[j]
      OBVIOUS
    <3>1. CASE i = n + 1
      <4>1. longer[Len(list) + 1] = p.spec.extras[i] /\ i \in 1..i
        BY <2>2, <3>1 DEF extra
      <4>2. QED
        BY <2>2, <4>1
    <3>2. CASE i \in 1..n
      <4>1. PICK m \in DOMAIN list :
              /\ list[m].name = p.spec.extras[i].name
              /\ m \in DOMAIN B \/ \E j \in 1..i : list[m] = p.spec.extras[j]
        BY <3>2 DEF ListOf
      <4>2. m \in DOMAIN longer /\ longer[m] = list[m]
        BY <2>2
      <4>3. QED
        BY <4>1, <4>2
    <3>3. QED
      BY <3>1, <3>2
  <2> HIDE DEF B
  <2>9. ListOf(longer, n + 1, p, c)
    BY <2>2, <2>3, <2>4, <2>7, <2>8 DEF ListOf, B
  <2>10. QED
    BY <2>1, <2>9 DEF extra
<1>5. QED
  BY <1>3, <1>4

(* So what the list has grown to is one, for any number of extras.         *)
LEMMA GrownList ==
  ASSUME NEW p, NEW c, Asking(p, c), NEW f, Grows(f, Len(p.spec.extras), p, c)
  PROVE  ListOf(f[Len(p.spec.extras)], Len(p.spec.extras), p, c)
<1> DEFINE N == Len(p.spec.extras)
           S == {n \in Nat : n <= N => ListOf(f[n], n, p, c)}
<1>1. N \in Nat /\ DOMAIN p.spec.extras = 1..N
  BY DEF Asking
<1>2. 0 \in S
  <2>1. f[0] = BuiltIns(p, c)
    BY <1>1 DEF Grows
  <2>2. ListOf(BuiltIns(p, c), 0, p, c)
    <3> DEFINE B == BuiltIns(p, c)
    <3>1. B \in Seq(Parameters) /\ Len(B) \in Nat
      BY BuiltInsAre
    <3>2. Distinct(B)
      <4>1. DOMAIN B \subseteq {1, 2, 3} /\ (3 \in DOMAIN B => HasVariantsFolderLayout(c))
        BY BuiltInsAre
      <4>2. /\ B[1] = Param(Revision, p.spec.revision)
            /\ B[2] = Param(Version, GetClusterGroupChartVersion(p, c))
            /\ HasVariantsFolderLayout(c) => B[3] = Param(NewFolderDir, "true")
        BY BuiltInsAre
      <4>3. \A name, value : Param(name, value).name = name
        BY DEF Param
      <4>4. B[1].name = Revision /\ B[2].name = Version
        BY <4>2, <4>3
      <4>5. 3 \in DOMAIN B => B[3].name = NewFolderDir
        BY <4>1, <4>2, <4>3
      <4> HIDE DEF B
      <4>6. QED
        BY <4>1, <4>4, <4>5, OwnNamesDiffer DEF Distinct
    <3> HIDE DEF B
    <3>3. QED
      BY <3>1, <3>2 DEF ListOf, B
  <2>3. QED
    BY <2>1, <2>2
<1>3. ASSUME NEW n \in Nat, n \in S
      PROVE  n + 1 \in S
  <2> SUFFICES ASSUME n + 1 <= N
               PROVE  ListOf(f[n + 1], n + 1, p, c)
    OBVIOUS
  <2>1. ListOf(f[n], n, p, c)
    BY <1>1, <1>3
  <2>2. f[n + 1] = Added(f[n], p.spec.extras[n + 1])
    BY <1>1 DEF Grows
  <2>3. n + 1 \in DOMAIN p.spec.extras
    BY <1>1
  <2>4. QED
    BY <2>1, <2>2, <2>3, AddedExtends
<1>4. \A n \in Nat : n \in S
  <2> HIDE DEF S
  <2> QED
    BY <1>2, <1>3, SetInduction
<1>5. QED
  BY <1>1, <1>4

-----------------------------------------------------------------------------
(* What Argo CD takes the parameters for.                                  *)

(* Where no name is given twice Argo CD takes the value of each.           *)
LEMMA EffectiveAlone ==
  ASSUME NEW list \in Seq(Parameters), Distinct(list), NEW k \in DOMAIN list
  PROVE  Effective(list, list[k].name) = list[k].value
<1> DEFINE named == {i \in DOMAIN list : list[i].name = list[k].name}
<1>1. named = {k}
  BY DEF Distinct
<1>2. k \in Nat
  OBVIOUS
<1>3. Max({k}) = k
  BY <1>2 DEF Max
<1>4. QED
  BY <1>1, <1>3 DEF Effective

(* The last parameter is taken, whatever comes before it.                  *)
LEMMA EffectiveLast ==
  ASSUME NEW list \in Seq(Parameters), NEW last \in Parameters
  PROVE  Effective(Append(list, last), last.name) = last.value
<1> DEFINE longer == Append(list, last)
           N == Len(list) + 1
           named == {i \in DOMAIN longer : longer[i].name = last.name}
<1>1. DOMAIN longer = 1..N /\ N \in Nat /\ N \in 1..N /\ longer[N] = last
  OBVIOUS
<1> HIDE DEF longer, N
<1>2. N \in named /\ named \subseteq 1..N
  BY <1>1
<1> HIDE DEF named
<1>3. \A x \in named : (\A y \in named : x >= y) <=> x = N
  BY <1>1, <1>2
<1>4. Max(named) = N
  BY <1>2, <1>3 DEF Max
<1>5. QED
  BY <1>1, <1>2, <1>4 DEF Effective, named, longer

(* The one Helm configuration of what is built.                            *)
LEMMA HelmsOfNew ==
  ASSUME NEW p, NEW c, NEW h \in HelmsOf(NewApplication(p, c))
  PROVE  h = Helm(p, c)
<1> DEFINE a == NewApplication(p, c)
<1>1. CASE p.spec.multiSource
  <2>1. a.source = {} /\ a.sources = {MultiSource(p, c)}
    BY <1>1 DEF NewApplication
  <2>2. PICK i \in DOMAIN MultiSource(p, c) : h \in MultiSource(p, c)[i].helm
    BY <2>1 DEF HelmsOf
  <2>3. PICK where, revision, path, chart :
          MultiSource(p, c) = <<Source("target", p.spec.revision, "", "", {}),
                                Source(where, revision, path, chart, {Helm(p, c)})>>
    <3>1. CASE p.spec.ownChart
      BY <3>1 DEF MultiSource
    <3>2. CASE ~p.spec.ownChart
      BY <3>2 DEF MultiSource
    <3>3. QED
      BY <3>1, <3>2
  <2> DEFINE first == Source("target", p.spec.revision, "", "", {})
             second == Source(where, revision, path, chart, {Helm(p, c)})
  <2>4. first.helm = {} /\ second.helm = {Helm(p, c)}
    BY DEF Source
  <2>5. MultiSource(p, c) = <<first, second>>
    BY <2>3
  <2> HIDE DEF first, second
  <2>6. /\ DOMAIN MultiSource(p, c) = {1, 2} /\ MultiSource(p, c)[1].helm = {}
        /\ MultiSource(p, c)[2].helm = {Helm(p, c)}
    BY <2>4, <2>5
  <2>7. QED
    BY <2>2, <2>6
<1>2. CASE ~p.spec.multiSource
  <2>1. a.source = {SingleSource(p, c)} /\ a.sources = {}
    BY <1>2 DEF NewApplication
  <2>2. h \in SingleSource(p, c).helm
    BY <2>1 DEF HelmsOf
  <2>3. QED
    BY <2>2 DEF SingleSource, Source
<1>3. QED
  BY <1>1, <1>2

(* What the list of parameters is taken for, the Application receives.     *)
LEMMA NewReceives ==
  ASSUME NEW p, NEW c, NEW name, NEW value,
         Effective(NewApplicationParameters(p, c), name) = value
  PROVE  Receives(NewApplication(p, c), name, value)
<1>1. Helm(p, c).parameters = NewApplicationParameters(p, c)
  BY DEF Helm
<1>2. QED
  BY <1>1, HelmsOfNew DEF Receives

(* The list without the phase, and what comes of it.                       *)
LEMMA ParametersAsListed ==
  ASSUME NEW p, NEW c, Asking(p, c)
  PROVE  \E list : /\ ListOf(list, Len(p.spec.extras), p, c)
                   /\ NewApplicationParameters(p, c) = WithPhase(list, p.phase)
<1>1. Len(p.spec.extras) \in Nat
  BY DEF Asking, SpecType
<1>2. QED
  BY <1>1, ParametersGrow, GrownList

(* The parameter that tells the phase.                                     *)
LEMMA PhaseParameter ==
  ASSUME NEW passed \in OwnText
  PROVE  [Param(DeletePattern, passed) EXCEPT !.force = TRUE] \in Parameters
         /\ [Param(DeletePattern, passed) EXCEPT !.force = TRUE].name = DeletePattern
         /\ [Param(DeletePattern, passed) EXCEPT !.force = TRUE].value = passed
<1>1. DeletePattern \in Seq(Text) /\ passed \in Text
  <2>1. "global" \in Text /\ "deletePattern" \in Text /\ passed \in Text
    BY OwnTextIsText DEF OwnText
  <2>2. QED
    BY <2>1, PairOfText DEF DeletePattern
<1>2. QED
  BY <1>1 DEF Param, Parameters

LEMMA DeletePhaseIsText ==
  ASSUME NEW ph \in Phases, ph # "deployed"
  PROVE  DeletePhase(ph) \in OwnText
  BY DEF Phases, DeletePhase, OwnText

(* Any list of extra parameters makes a list of parameters.                *)
LEMMA NewParametersType ==
  ASSUME NEW p, NEW c, Asking(p, c), p.phase \in Phases
  PROVE  NewApplicationParameters(p, c) \in Seq(Parameters)
<1>1. PICK list : /\ ListOf(list, Len(p.spec.extras), p, c)
                  /\ NewApplicationParameters(p, c) = WithPhase(list, p.phase)
  BY ParametersAsListed
<1>2. list \in Seq(Parameters)
  BY <1>1 DEF ListOf
<1>3. p.phase # "deployed" =>
        [Param(DeletePattern, DeletePhase(p.phase)) EXCEPT !.force = TRUE] \in Parameters
  BY PhaseParameter, DeletePhaseIsText
<1>4. QED
  BY <1>1, <1>2, <1>3 DEF WithPhase

(* In a deletion the chart is told the phase, whatever the user's own      *)
(* parameters are.                                                         *)
LEMMA PhaseIsTold ==
  ASSUME NEW p, NEW c, Asking(p, c), p.phase \in Phases, p.phase # "deployed"
  PROVE  Receives(NewApplication(p, c), DeletePattern, DeletePhase(p.phase))
<1> DEFINE passed == [Param(DeletePattern, DeletePhase(p.phase)) EXCEPT !.force = TRUE]
<1>1. PICK list : /\ ListOf(list, Len(p.spec.extras), p, c)
                  /\ NewApplicationParameters(p, c) = WithPhase(list, p.phase)
  BY ParametersAsListed
<1>2. list \in Seq(Parameters)
  BY <1>1 DEF ListOf
<1>3. passed \in Parameters /\ passed.name = DeletePattern /\ passed.value = DeletePhase(p.phase)
  BY PhaseParameter, DeletePhaseIsText
<1>4. NewApplicationParameters(p, c) = Append(list, passed)
  BY <1>1 DEF WithPhase
<1> HIDE DEF passed
<1>5. QED
  BY <1>2, <1>3, <1>4, EffectiveLast, NewReceives

(* The Application of a Pattern that is deployed is what the Pattern asks  *)
(* for and the repository needs, for any list of extra parameters          *)
(* (newApplication, newApplicationParameters, updateHelmParameter).        *)
THEOREM BuiltAsAsked ==
  ASSUME NEW asked \in SpecType, NEW layout \in LayoutType
  PROVE  AsAsked(NewApplication([spec |-> asked, phase |-> "deployed"], {layout}), asked, layout)
<1> DEFINE p == [spec |-> asked, phase |-> "deployed"]
           c == {layout}
           a == NewApplication(p, c)
           B == BuiltIns(p, c)
<1>1. Asking(p, c) /\ p.spec = asked /\ p.phase = "deployed"
  BY DEF Asking
<1>2. HasVariantsFolderLayout(c) <=> layout.variants
  BY DEF HasVariantsFolderLayout
<1>3. GetClusterGroupChartVersion(p, c) = GetClusterGroupChartVersion([spec |-> asked], {layout})
  BY DEF GetClusterGroupChartVersion
<1>4. (a.policy = {}) = asked.manualSync
  <2>1. a.policy = Policy(p)
    BY DEF NewApplication
  <2>2. asked.manualSync \in BOOLEAN
    BY DEF SpecType
  <2>3. QED
    BY <1>1, <2>1, <2>2 DEF Policy
<1> HIDE DEF p, c
<1>5. PICK list : /\ ListOf(list, Len(asked.extras), p, c)
                  /\ NewApplicationParameters(p, c) = list
  BY <1>1, ParametersAsListed DEF WithPhase
<1>6. list \in Seq(Parameters) /\ Distinct(list)
  BY <1>5 DEF ListOf
<1>7. ASSUME NEW k \in DOMAIN list
      PROVE  Receives(a, list[k].name, list[k].value)
  BY <1>5, <1>6, EffectiveAlone, NewReceives
<1>8. ASSUME NEW k \in DOMAIN B
      PROVE  k \in DOMAIN list /\ list[k] = B[k]
  <2>1. B \in Seq(Parameters) /\ Len(B) <= Len(list) /\ list[k] = B[k]
    BY <1>1, <1>5, BuiltInsAre DEF ListOf
  <2> HIDE DEF B
  <2>2. QED
    BY <1>6, <2>1
<1>9. /\ 1 \in DOMAIN B /\ B[1] = Param(Revision, asked.revision)
      /\ 2 \in DOMAIN B /\ B[2] = Param(Version, GetClusterGroupChartVersion(p, c))
      /\ layout.variants => 3 \in DOMAIN B /\ B[3] = Param(NewFolderDir, "true")
      /\ DOMAIN B \subseteq {1, 2, 3} /\ (3 \in DOMAIN B => layout.variants)
  BY <1>1, <1>2, BuiltInsAre
<1>10. \A name, value : Param(name, value).name = name /\ Param(name, value).value = value
  BY DEF Param
<1> HIDE DEF B, a
<1>11. /\ Receives(a, Revision, asked.revision)
       /\ Receives(a, Version, GetClusterGroupChartVersion(p, c))
       /\ layout.variants => Receives(a, NewFolderDir, "true")
  BY <1>7, <1>8, <1>9, <1>10
<1>12. ASSUME NEW i \in DOMAIN asked.extras, ~OperatorsOwn(asked.extras[i].name, layout)
       PROVE  ReceivesExtra(a, asked.extras, i)
  <2>1. i \in 1..Len(asked.extras)
    BY <1>12 DEF SpecType
  <2>2. PICK k \in DOMAIN list :
          /\ list[k].name = asked.extras[i].name
          /\ k \in DOMAIN B \/ \E j \in 1..i : list[k] = asked.extras[j]
    BY <1>1, <1>5, <2>1 DEF ListOf, B
  <2>3. k \notin DOMAIN B
    BY <1>8, <1>9, <1>10, <1>12, <2>2 DEF OperatorsOwn
  <2>4. QED
    BY <1>7, <2>2, <2>3 DEF ReceivesExtra
<1>13. QED
  BY <1>3, <1>4, <1>11, <1>12 DEF AsAsked, p, c, a

-----------------------------------------------------------------------------
(* Types.                                                                  *)

BuiltPolicies == [automated : SUBSET [prune : BOOLEAN, selfHeal : BOOLEAN],
                  options : SUBSET {<<"Prune=true">>, <<>>}, retry : SUBSET Nat]
BuiltApplications == [destination : Text, source : SUBSET Sources,
                      sources : SUBSET Seq(Sources), policy : SUBSET BuiltPolicies]

(* What is built is of its type; the options of its policy may be empty.   *)
LEMMA PolicyType ==
  ASSUME NEW p
  PROVE  Policy(p) \subseteq BuiltPolicies
<1>1. \A automated \in SUBSET [prune : BOOLEAN, selfHeal : BOOLEAN] :
      \A options \in SUBSET {<<"Prune=true">>, <<>>} : \A retry \in SUBSET Nat :
        [automated |-> automated, options |-> options, retry |-> retry] \in BuiltPolicies
  BY DEF BuiltPolicies
<1>2. /\ [prune |-> TRUE, selfHeal |-> FALSE] \in [prune : BOOLEAN, selfHeal : BOOLEAN]
      /\ [prune |-> FALSE, selfHeal |-> TRUE] \in [prune : BOOLEAN, selfHeal : BOOLEAN]
  OBVIOUS
<1>3. /\ {[prune |-> TRUE, selfHeal |-> FALSE]} \in SUBSET [prune : BOOLEAN, selfHeal : BOOLEAN]
      /\ {[prune |-> FALSE, selfHeal |-> TRUE]} \in SUBSET [prune : BOOLEAN, selfHeal : BOOLEAN]
  BY <1>2
<1>4. /\ {<<"Prune=true">>} \in SUBSET {<<"Prune=true">>, <<>>}
      /\ {<<>>} \in SUBSET {<<"Prune=true">>, <<>>}
      /\ {} \in SUBSET Nat /\ {20} \in SUBSET Nat
  OBVIOUS
<1>5. /\ [automated |-> {[prune |-> TRUE, selfHeal |-> FALSE]},
          options |-> {<<"Prune=true">>}, retry |-> {}] \in BuiltPolicies
      /\ [automated |-> {[prune |-> FALSE, selfHeal |-> TRUE]},
          options |-> {<<>>}, retry |-> {20}] \in BuiltPolicies
  BY <1>1, <1>3, <1>4, Zenon
<1>6. CASE p.phase # "deployed"
  <2>1. Policy(p) = {[automated |-> {[prune |-> TRUE, selfHeal |-> FALSE]},
                      options |-> {<<"Prune=true">>}, retry |-> {}]}
    BY <1>6 DEF Policy
  <2>2. QED
    BY <1>5, <2>1, Zenon
<1>7. CASE p.phase = "deployed" /\ p.spec.manualSync
  BY <1>7 DEF Policy
<1>8. CASE p.phase = "deployed" /\ ~p.spec.manualSync
  <2>1. Policy(p) = {[automated |-> {[prune |-> FALSE, selfHeal |-> TRUE]},
                      options |-> {<<>>}, retry |-> {20}]}
    BY <1>8 DEF Policy
  <2>2. QED
    BY <1>5, <2>1, Zenon
<1>9. QED
  BY <1>6, <1>7, <1>8

LEMMA ValueFilesType ==
  ASSUME NEW p, NEW c, Asking(p, c)
  PROVE  NewApplicationValueFiles(c) \in Seq(Text)
<1> DEFINE first == IF HasVariantsFolderLayout(c) THEN "variants" ELSE "plain"
           more == CASE SharedValueFiles(c) = "none" -> <<>>
                     [] SharedValueFiles(c) = "file" -> <<"shared">>
                     [] SharedValueFiles(c) = "bad"  -> <<"">>
<1>1. "variants" \in Text /\ "plain" \in Text /\ "shared" \in Text /\ "" \in Text
  BY OwnTextIsText DEF OwnText
<1>2. SharedValueFiles(c) \in {"none", "file", "bad"}
  <2>1. CASE c = {}
    BY <2>1 DEF SharedValueFiles
  <2>2. CASE c # {}
    <3>1. (CHOOSE layout \in c : TRUE) \in c
      BY <2>2
    <3>2. QED
      BY <2>2, <3>1 DEF SharedValueFiles, Asking, LayoutType
  <2>3. QED
    BY <2>1, <2>2
<1>3. more = <<>> \/ more = <<"shared">> \/ more = <<"">>
  <2>1. CASE SharedValueFiles(c) = "none"
    BY <2>1
  <2>2. CASE SharedValueFiles(c) = "file"
    BY <2>2
  <2>3. CASE SharedValueFiles(c) = "bad"
    BY <2>3
  <2>4. QED
    BY <1>2, <2>1, <2>2, <2>3
<1> HIDE DEF more
<1>4. first \in Text
  BY <1>1
<1> HIDE DEF first
<1>5. more \in Seq(Text) /\ <<first>> \in Seq(Text)
  <2>1. <<>> \in Seq(Text) /\ <<"shared">> \in Seq(Text) /\ <<"">> \in Seq(Text)
    BY <1>1, OneText
  <2>2. QED
    BY <1>3, <1>4, <2>1, OneText
<1>6. NewApplicationValueFiles(c) = <<first>> \o more
  BY DEF NewApplicationValueFiles, more, first
<1>7. QED
  BY <1>5, <1>6, ConcatProperties

LEMMA HelmType ==
  ASSUME NEW p, NEW c, Asking(p, c), p.phase \in Phases
  PROVE  Helm(p, c) \in Helms
<1>1. /\ NewApplicationValueFiles(c) \in Seq(Text)
      /\ NewApplicationParameters(p, c) \in Seq(Parameters)
      /\ p.spec.extras \in Seq(Parameters)
  BY ValueFilesType, NewParametersType DEF Asking, SpecType
<1>2. QED
  BY <1>1 DEF Helm, Helms

LEMMA SourcesType ==
  ASSUME NEW p, NEW c, Asking(p, c), p.phase \in Phases
  PROVE  SingleSource(p, c) \in Sources /\ MultiSource(p, c) \in Seq(Sources)
<1>1. /\ "target" \in Text /\ "common/clustergroup" \in Text /\ "" \in Text /\ "own" \in Text
      /\ "main" \in Text /\ "." \in Text /\ "charts" \in Text /\ "clustergroup" \in Text
  BY OwnTextIsText DEF OwnText
<1>2. p.spec.revision \in Text /\ GetClusterGroupChartVersion(p, c) \in Text
  BY ChartVersionIsText DEF Asking, SpecType
<1>3. {Helm(p, c)} \in SUBSET Helms /\ {} \in SUBSET Helms
  BY HelmType
<1>4. \A where, revision, path, chart \in Text : \A helm \in SUBSET Helms :
        Source(where, revision, path, chart, helm) \in Sources
  BY DEF Source, Sources
<1>5. SingleSource(p, c) \in Sources
  BY <1>1, <1>2, <1>3, <1>4 DEF SingleSource
<1>6. Source("target", p.spec.revision, "", "", {}) \in Sources
  BY <1>1, <1>2, <1>3, <1>4
<1>7. /\ Source("own", "main", ".", "", {Helm(p, c)}) \in Sources
      /\ Source("charts", GetClusterGroupChartVersion(p, c), "", "clustergroup", {Helm(p, c)})
           \in Sources
  BY <1>1, <1>2, <1>3, <1>4
<1>8. \A first, second \in Sources : <<first, second>> \in Seq(Sources)
  OBVIOUS
<1>9. MultiSource(p, c) \in Seq(Sources)
  <2>1. CASE p.spec.ownChart
    BY <1>6, <1>7, <1>8, <2>1 DEF MultiSource
  <2>2. CASE ~p.spec.ownChart
    BY <1>6, <1>7, <1>8, <2>2 DEF MultiSource
  <2>3. QED
    BY <2>1, <2>2
<1>10. QED
  BY <1>5, <1>9

LEMMA NewType ==
  ASSUME NEW p, NEW c, Asking(p, c), p.phase \in Phases
  PROVE  NewApplication(p, c) \in BuiltApplications
<1>1. "in-cluster" \in Text
  BY OwnTextIsText DEF OwnText
<1>2. QED
  BY <1>1, PolicyType, SourcesType DEF NewApplication, BuiltApplications

(* What is stored of it has no empty options.                              *)
LEMMA ReplacedType ==
  ASSUME NEW a \in BuiltApplications
  PROVE  Replaced(a) \in Applications
<1> DEFINE sent == {[policy EXCEPT !.options = @ \ {<<>>}] : policy \in a.policy}
<1>1. \A policy \in BuiltPolicies : [policy EXCEPT !.options = @ \ {<<>>}] \in Policies
  BY DEF BuiltPolicies, Policies
<1>2. a.policy \subseteq BuiltPolicies
  BY DEF BuiltApplications
<1>3. sent \subseteq Policies
  BY <1>1, <1>2
<1>4. Replaced(a) = [a EXCEPT !.policy = sent]
  BY DEF Replaced, Serialised
<1> HIDE DEF sent
<1>5. QED
  BY <1>3, <1>4 DEF BuiltApplications, Applications

LEMMA ElsewhereType ==
  ASSUME NEW s \in Sources
  PROVE  Elsewhere(s) \in Sources
<1> DEFINE helm == {[h EXCEPT !.parameters = <<>>] : h \in s.helm}
<1>1. \A h \in Helms : [h EXCEPT !.parameters = <<>>] \in Helms
  <2>1. <<>> \in Seq(Parameters)
    OBVIOUS
  <2>2. QED
    BY <2>1 DEF Helms
<1>2. helm \subseteq Helms
  BY <1>1 DEF Sources
<1>3. "elsewhere" \in Text
  BY OwnTextIsText DEF OwnText
<1>4. Elsewhere(s) = [s EXCEPT !.revision = "elsewhere", !.helm = helm]
  BY DEF Elsewhere
<1> HIDE DEF helm
<1>5. QED
  BY <1>2, <1>3, <1>4 DEF Sources

(* Whoever changes the Application leaves one.                             *)
LEMMA DriftedType ==
  ASSUME NEW a \in Applications, NEW b \in Drifted(a)
  PROVE  b \in Applications
<1> DEFINE changed == {Elsewhere(s) : s \in a.source}
           changedList == {[i \in DOMAIN s |-> Elsewhere(s[i])] : s \in a.sources}
<1>1. changed \subseteq Sources
  BY ElsewhereType DEF Applications
<1>2. \A list \in Seq(Sources) : [i \in DOMAIN list |-> Elsewhere(list[i])] \in Seq(Sources)
  BY ElsewhereType
<1>3. changedList \subseteq Seq(Sources)
  BY <1>2 DEF Applications
<1>4. \/ b = [a EXCEPT !.policy = {}] \/ b = [a EXCEPT !.destination = "elsewhere"]
      \/ b = [a EXCEPT !.source = changed, !.sources = changedList]
  BY DEF Drifted
<1> HIDE DEF changed, changedList
<1>5. "elsewhere" \in Text
  BY OwnTextIsText DEF OwnText
<1>6. QED
  BY <1>1, <1>3, <1>4, <1>5 DEF Applications

-----------------------------------------------------------------------------
(* The inductive invariant: what is about to be written was built for the  *)
(* phase that was read, from the checkout as it still is, and for the spec *)
(* that is stored, if the Pattern was not changed since.                   *)

Building ==
  step # "idle" =>
    \E s \in Specs :
      /\ target = {NewApplication([spec |-> s, phase |-> taken], checkout)}
      /\ latest => s = spec /\ taken = phase
      /\ taken = "deployed" => \E layout \in Layouts : checkout = {layout}
BuildInv == TypeOK /\ Building

(* What the state holds is what the lemmas above ask of a Pattern.         *)
LEMMA AskedFor ==
  ASSUME NEW s \in Specs, NEW c, c \subseteq Layouts, NEW ph
  PROVE  Asking([spec |-> s, phase |-> ph], c)
  BY ApplicationAssumption DEF Asking

(* A step that ends the reconciliation keeps the invariant.                *)
LEMMA EndsIdle ==
  ASSUME Ends, spec' \in Specs, phase' \in Phases, repo' \in Layouts, checkout' \subseteq Layouts,
         faults' \in 0..MaxFaults, edits' \in 0..MaxEdits,
         app' \subseteq Applications, \A a, b \in app' : a = b, told' \in BOOLEAN
  PROVE  BuildInv'
  BY DEF Ends, BuildInv, TypeOK, Building, Phases

(* The counters keep within their bounds.                                  *)
LEMMA FaultType ==
  ASSUME TypeOK, Fault \/ UNCHANGED faults
  PROVE  faults' \in 0..MaxFaults
  BY ApplicationAssumption DEF TypeOK, Fault

LEMMA EditType ==
  ASSUME TypeOK, Edit \/ UNCHANGED edits
  PROVE  edits' \in 0..MaxEdits
  BY ApplicationAssumption DEF TypeOK, Edit

LEMMA ToldType ==
  ASSUME TypeOK, Remember \/ UNCHANGED told
  PROVE  told' \in BOOLEAN
  BY DEF TypeOK, Remember

(* One lemma for each group of actions.                                    *)
LEMMA BuildBegin ==
  ASSUME BuildInv, Begin
  PROVE  BuildInv'
<1> USE DEF BuildInv
<1>1. checkout' \subseteq Layouts
  BY DEF Begin, TypeOK
<1>2. step' = "reading" /\ taken' = phase /\ latest' = TRUE
      /\ target' = {NewApplication([spec |-> spec, phase |-> phase], checkout')}
  BY DEF Begin
<1>3. TypeOK'
  BY <1>1, <1>2 DEF Begin, TypeOK
<1>4. Building'
  BY <1>2 DEF Begin, TypeOK, Building
<1>5. QED
  BY <1>3, <1>4

LEMMA BuildWrite ==
  ASSUME BuildInv, Write
  PROVE  BuildInv'
<1> USE DEF BuildInv
<1>1. PICK s \in Specs : target = {NewApplication([spec |-> s, phase |-> taken], checkout)}
  BY DEF Write, Building
<1>2. NewApplication([spec |-> s, phase |-> taken], checkout) \in BuiltApplications
  BY AskedFor, NewType DEF TypeOK
<1>3. app' = {Replaced(NewApplication([spec |-> s, phase |-> taken], checkout))}
  BY <1>1 DEF Write
<1>4. app' \subseteq Applications /\ \A a, b \in app' : a = b
  BY <1>2, <1>3, ReplacedType
<1>5. QED
  BY <1>4, EndsIdle, FaultType, EditType, ToldType DEF Write, TypeOK, Dropped

LEMMA BuildReturns ==
  ASSUME BuildInv, NothingToWrite \/ PhaseAdvances \/ Finalized \/ WriteFails \/ Restart
  PROVE  BuildInv'
<1> USE DEF BuildInv
<1>1. CASE NothingToWrite
  BY <1>1, EndsIdle, FaultType, EditType, ToldType DEF NothingToWrite, TypeOK
<1>2. CASE PhaseAdvances
  <2>1. phase' \in Phases
    BY <1>2 DEF PhaseAdvances, Following, Phases, TypeOK
  <2>2. QED
    BY <1>2, <2>1, EndsIdle, FaultType, EditType, ToldType DEF PhaseAdvances, TypeOK
<1>3. CASE Finalized
  <2>1. phase' \in Phases /\ app' \subseteq app
    BY <1>3 DEF Finalized, Phases, TypeOK
  <2>2. QED
    BY <1>3, <2>1, EndsIdle, FaultType, EditType, ToldType DEF Finalized, TypeOK
<1>4. CASE WriteFails
  BY <1>4, EndsIdle, FaultType, EditType, ToldType DEF WriteFails, TypeOK, Dropped
<1>5. CASE Restart
  BY <1>5, EndsIdle, FaultType, EditType, ToldType DEF Restart, TypeOK
<1>6. QED
  BY <1>1, <1>2, <1>3, <1>4, <1>5

LEMMA BuildGoesOn ==
  ASSUME BuildInv, Panicked \/ Read
  PROVE  BuildInv'
<1> USE DEF BuildInv
<1>1. CASE Panicked
  <2>1. checkout' \subseteq Layouts /\ step' = "idle"
    BY <1>1 DEF Panicked, TypeOK
  <2>2. TypeOK'
    BY <1>1, <2>1 DEF Panicked, TypeOK
  <2>3. QED
    BY <2>1, <2>2 DEF Building
<1>2. CASE Read
  <2>1. step # "idle" /\ UNCHANGED <<spec, phase, checkout, target, taken, latest>>
    BY <1>2 DEF Read
  <2>2. TypeOK'
    BY <1>2 DEF Read, TypeOK
  <2>3. QED
    BY <2>1, <2>2 DEF Building
<1>3. QED
  BY <1>1, <1>2

LEMMA BuildOthers ==
  ASSUME BuildInv, PatternChanges \/ RepositoryChanges \/ ApplicationChanges \/ UNCHANGED vars
  PROVE  BuildInv'
<1> USE DEF BuildInv
<1>1. edits' \in 0..MaxEdits
  BY EditType DEF PatternChanges, RepositoryChanges, ApplicationChanges, vars
<1>2. CASE PatternChanges
  <2>1. spec' \in Specs /\ phase' \in Phases /\ latest' = FALSE /\ told' \in BOOLEAN
    BY <1>2, ToldType DEF PatternChanges, TypeOK, Phases
  <2>2. TypeOK'
    BY <1>1, <1>2, <2>1 DEF PatternChanges, TypeOK
  <2>3. QED
    BY <1>2, <2>1, <2>2 DEF PatternChanges, Building
<1>3. CASE RepositoryChanges
  BY <1>1, <1>3 DEF RepositoryChanges, TypeOK, Building
<1>4. CASE ApplicationChanges
  <2>1. app' = {} \/ \E a \in app : \E b \in Drifted(a) : app' = {b}
    BY <1>4 DEF ApplicationChanges
  <2>2. app' \subseteq Applications /\ \A a, b \in app' : a = b
    BY <2>1, DriftedType DEF TypeOK
  <2>3. TypeOK'
    BY <1>1, <1>4, <2>2, ToldType DEF ApplicationChanges, TypeOK
  <2>4. QED
    BY <1>4, <2>3 DEF ApplicationChanges, Building
<1>5. CASE UNCHANGED vars
  BY <1>5 DEF vars, TypeOK, Building
<1>6. QED
  BY <1>2, <1>3, <1>4, <1>5

LEMMA BuildStep == BuildInv /\ [Next]_vars => BuildInv'
  BY BuildBegin, BuildWrite, BuildReturns, BuildGoesOn, BuildOthers DEF Next, Reconciler

LEMMA BuildInit == Init => BuildInv
<1> SUFFICES ASSUME Init PROVE BuildInv
  OBVIOUS
<1>1. 0 \in 0..MaxFaults /\ 0 \in 0..MaxEdits
  BY ApplicationAssumption
<1>2. TypeOK
  BY <1>1 DEF Init, TypeOK, Phases
<1>3. Building
  BY DEF Init, Building
<1>4. QED
  BY <1>2, <1>3 DEF BuildInv

(* The state is of its type; in particular there is never more than one    *)
(* Application, and an empty list of options is never stored.              *)
THEOREM ApplicationTypeCorrect == Spec => []TypeOK
<1>1. BuildInv => TypeOK
  BY DEF BuildInv
<1>2. QED
  BY BuildInit, BuildStep, <1>1, PTL DEF Spec

-----------------------------------------------------------------------------
(* What the comparison tells of two Applications that it finds equal.      *)

(* The parameters of two sources that compare equal.                       *)
LEMMA ComparedSources ==
  ASSUME NEW s, NEW t, CompareSource(s, t), NEW h \in s.helm
  PROVE  \E other \in t.helm : other.parameters = h.parameters
  BY DEF CompareSource, BothOrNeither, CompareHelm

(* Equal Applications are told the same.                                   *)
LEMMA ComparedReceives ==
  ASSUME NEW a \in Applications, NEW g \in BuiltApplications, CompareApplication(a, g),
         NEW name, NEW value, Receives(g, name, value)
  PROVE  Receives(a, name, value)
<1> SUFFICES ASSUME NEW h \in HelmsOf(a)
             PROVE  \E other \in HelmsOf(g) : other.parameters = h.parameters
  BY DEF Receives
<1>1. CASE \E s \in a.source : h \in s.helm
  <2>1. PICK s \in a.source : h \in s.helm
    BY <1>1
  <2>2. PICK t \in g.source : CompareSource(s, t)
    BY <2>1 DEF CompareApplication, BothOrNeither
  <2>3. PICK other \in t.helm : other.parameters = h.parameters
    BY <2>1, <2>2, ComparedSources
  <2>4. other \in HelmsOf(g)
    BY <2>3 DEF HelmsOf
  <2>5. QED
    BY <2>3, <2>4
<1>2. CASE \E list \in a.sources : \E i \in DOMAIN list : h \in list[i].helm
  <2>1. PICK list \in a.sources : \E i \in DOMAIN list : h \in list[i].helm
    BY <1>2
  <2>2. PICK i \in DOMAIN list : h \in list[i].helm
    BY <2>1
  <2>3. PICK others \in g.sources : CompareSources(list, others)
    BY <2>1 DEF CompareApplication, BothOrNeither
  <2>4. list \in Seq(Sources) /\ others \in Seq(Sources)
    BY <2>1, <2>3 DEF Applications, BuiltApplications
  <2>5. i \in DOMAIN others /\ CompareSource(list[i], others[i])
    BY <2>2, <2>3, <2>4 DEF CompareSources
  <2>6. PICK other \in others[i].helm : other.parameters = h.parameters
    BY <2>2, <2>5, ComparedSources
  <2>7. other \in UNION {others[k].helm : k \in DOMAIN others}
    BY <2>5, <2>6
  <2>8. other \in HelmsOf(g)
    <3>1. \E all \in {UNION {rest[k].helm : k \in DOMAIN rest} : rest \in g.sources} : other \in all
      BY <2>3, <2>7
    <3>2. QED
      BY <3>1 DEF HelmsOf
  <2>9. QED
    BY <2>6, <2>8
<1>3. QED
  BY <1>1, <1>2 DEF HelmsOf

(* What was read as equal to what a deletion asks for prunes.              *)
LEMMA ComparedPrunes ==
  ASSUME NEW a, NEW p, NEW c, p.phase # "deployed", CompareApplication(a, NewApplication(p, c))
  PROVE  \E policy \in a.policy : \E automated \in policy.automated : automated.prune
<1> DEFINE pruning == [prune |-> TRUE, selfHeal |-> FALSE]
           asked == [automated |-> {pruning}, options |-> {<<"Prune=true">>}, retry |-> {}]
<1>1. NewApplication(p, c).policy = {asked}
  BY DEF NewApplication, Policy
<1>2. asked.automated = {pruning} /\ pruning.prune
  OBVIOUS
<1> HIDE DEF asked, pruning
<1>3. PICK policy \in a.policy : CompareSyncPolicy(policy, asked)
  BY <1>1 DEF CompareApplication, BothOrNeither
<1>4. policy.automated = {pruning}
  BY <1>2, <1>3 DEF CompareSyncPolicy
<1>5. QED
  BY <1>2, <1>4

(* Between the comparison and the step out of a phase of the spokes, the   *)
(* chart was told; and what was compared is stored until someone changes it*)
ToldInv ==
  /\ Telling => told
  /\ (step = "advancing" /\ latest /\ taken \in OfSpokes) => (told /\ (current => Telling))

(* An Application that is found equal to the one that was built for a phase*)
(* of the spokes tells the chart that phase.                               *)
LEMMA EqualIsTold ==
  ASSUME BuildInv, step # "idle", latest, phase \in OfSpokes, ~Differs, NEW a \in app
  PROVE  ToldToDelete(a, phase)
<1> DEFINE p == [spec |-> spec, phase |-> phase]
           g == NewApplication(p, checkout)
<1>1. taken = phase /\ target = {g}
  BY DEF BuildInv, Building
<1>2. CompareApplication(a, g)
  BY <1>1 DEF Differs
<1>3. /\ spec \in Specs /\ checkout \subseteq Layouts /\ phase \in Phases
      /\ phase # "deployed" /\ a \in Applications
  BY DEF BuildInv, TypeOK, OfSpokes
<1>4. Asking(p, checkout) /\ p.phase = phase
  BY <1>3, AskedFor
<1>5. DeletePhase(phase) = phase
  BY DEF DeletePhase, OfSpokes
<1> HIDE DEF p
<1>6. Receives(g, DeletePattern, phase) /\ g \in BuiltApplications
  BY <1>3, <1>4, <1>5, PhaseIsTold, NewType
<1>7. Receives(a, DeletePattern, phase)
  BY <1>2, <1>3, <1>6, ComparedReceives
<1>8. \E policy \in a.policy : \E automated \in policy.automated : automated.prune
  BY <1>2, <1>3, <1>4, ComparedPrunes
<1>9. QED
  BY <1>7, <1>8 DEF ToldToDelete

LEMMA ReadTells ==
  ASSUME BuildInv, ToldInv, Read
  PROVE  ToldInv'
<1>1. UNCHANGED <<phase, app, told, taken, latest>> /\ step = "reading"
  BY DEF Read
<1>2. Telling' => told'
  BY <1>1 DEF ToldInv, Telling
<1>3. ASSUME step' = "advancing", latest, taken \in OfSpokes
      PROVE  Telling
  <2>1. app # {} /\ ~Differs
    BY <1>3 DEF Read
  <2>2. taken = phase
    BY <1>1, <1>3 DEF BuildInv, Building
  <2>3. \A a \in app : ToldToDelete(a, phase)
    BY <1>1, <1>3, <2>1, <2>2, EqualIsTold
  <2>4. QED
    BY <1>3, <2>1, <2>2, <2>3 DEF Telling
<1>4. Telling' = Telling
  BY <1>1 DEF Telling
<1>5. QED
  BY <1>1, <1>2, <1>3, <1>4 DEF ToldInv

(* A step that keeps the phase and the Application, and does not go on to  *)
(* another.                                                                *)
LEMMA ToldKept ==
  ASSUME ToldInv, UNCHANGED <<phase, app, told>>,
         \/ step' # "advancing"
         \/ UNCHANGED <<step, taken, latest, current>>
  PROVE  ToldInv'
<1>1. Telling' = Telling
  BY DEF Telling
<1>2. QED
  BY <1>1 DEF ToldInv

(* One that is remembered.                                                 *)
LEMMA ToldRemembered ==
  ASSUME TypeOK, ToldInv, Remember,
         \/ step' # "advancing" \/ ~latest'
         \/ UNCHANGED <<step, taken, latest, phase>> /\ ~current'
  PROVE  ToldInv'
<1>1. Telling' => told'
  BY DEF Remember
<1>2. ASSUME UNCHANGED <<step, taken, latest, phase>>, ~current', step = "advancing", latest,
             taken \in OfSpokes
      PROVE  told'
  <2>1. told
    BY <1>2 DEF ToldInv
  <2>2. QED
    BY <1>2, <2>1 DEF Remember
<1>3. (step' = "advancing" /\ latest' /\ taken' \in OfSpokes) => (told' /\ ~current')
  BY <1>2
<1>4. QED
  BY <1>1, <1>3 DEF ToldInv

LEMMA ToldStep == BuildInv /\ ToldInv /\ [Next]_vars => ToldInv'
<1> SUFFICES ASSUME BuildInv, ToldInv, [Next]_vars
             PROVE  ToldInv'
  OBVIOUS
<1>1. CASE Begin \/ Panicked \/ NothingToWrite \/ WriteFails \/ Restart \/ RepositoryChanges
           \/ UNCHANGED vars
  BY <1>1, ToldKept DEF Begin, Panicked, NothingToWrite, WriteFails, Restart, RepositoryChanges,
     vars, Ends
<1>2. CASE PhaseAdvances \/ Finalized \/ Write \/ PatternChanges \/ ApplicationChanges
  <2>1. TypeOK
    BY DEF BuildInv
  <2>2. Remember
    BY <1>2 DEF PhaseAdvances, Finalized, Write, PatternChanges, ApplicationChanges
  <2>3. \/ step' # "advancing" \/ ~latest'
        \/ UNCHANGED <<step, taken, latest, phase>> /\ ~current'
    BY <1>2 DEF PhaseAdvances, Finalized, Write, PatternChanges, ApplicationChanges, Ends
  <2>4. QED
    BY <2>1, <2>2, <2>3, ToldRemembered
<1>3. CASE Read
  BY <1>3, ReadTells
<1>4. QED
  BY <1>1, <1>2, <1>3 DEF Next, Reconciler

(* Only the reconciler's step takes a Pattern out of a phase of the spokes,*)
(* but for the end of the deletion.                                        *)
LEMMA LeavesAPhase ==
  ASSUME [Next]_vars, phase \in OfSpokes, phase' \notin {phase, "gone"}
  PROVE  PhaseAdvances
  BY DEF OfSpokes, Next, Reconciler, vars, Begin, Panicked, Read, NothingToWrite, Finalized, Write,
         WriteFails, Restart, PatternChanges, RepositoryChanges, ApplicationChanges

(* A deletion leaves a phase of the spokes only after the stored           *)
(* Application has told the chart that very phase, with pruning, and while *)
(* it says so unless it was changed after it was read: for any parameters  *)
(* of the user's own, whatever was changed before and whichever calls      *)
(* failed.                                                                 *)
THEOREM SpokesAreToldAlways == Spec => SpokesAreTold
<1>1. Init => ToldInv
  BY DEF Init, ToldInv, Telling, OfSpokes
<1>2. ASSUME BuildInv, ToldInv, [Next]_vars, phase \in OfSpokes, phase' \notin {phase, "gone"}
      PROVE  told /\ (current => app # {} /\ \A a \in app : ToldToDelete(a, phase))
  <2>1. PhaseAdvances
    BY <1>2, LeavesAPhase
  <2>2. latest /\ step = "advancing"
    BY <1>2, <2>1 DEF PhaseAdvances
  <2>3. taken = phase
    BY <1>2, <2>2 DEF BuildInv, Building
  <2>4. QED
    BY <1>2, <2>2, <2>3 DEF ToldInv, Telling
<1>3. BuildInv /\ ToldInv /\ [Next]_vars =>
        [(phase \in OfSpokes /\ phase' \notin {phase, "gone"})
           => told /\ (current => app # {} /\ \A a \in app : ToldToDelete(a, phase))]_vars
  BY <1>2
<1>4. QED
  BY BuildInit, BuildStep, ToldStep, <1>1, <1>3, PTL DEF Spec, SpokesAreTold

-----------------------------------------------------------------------------
(* What is stored of what was sent.                                        *)

(* Storing changes nothing but the options of the policy.                  *)
LEMMA StoredParts ==
  ASSUME NEW a \in BuiltApplications
  PROVE  /\ Replaced(a).source = a.source /\ Replaced(a).sources = a.sources
         /\ Replaced(a).policy = {[policy EXCEPT !.options = @ \ {<<>>}] : policy \in a.policy}
<1> DEFINE sent == {[policy EXCEPT !.options = @ \ {<<>>}] : policy \in a.policy}
<1>1. Replaced(a) = [a EXCEPT !.policy = sent]
  BY DEF Replaced, Serialised
<1> HIDE DEF sent
<1>2. QED
  BY <1>1 DEF BuiltApplications, sent

(* So what is stored is told what was sent.                                *)
LEMMA StoredReceives ==
  ASSUME NEW a \in BuiltApplications, NEW name, NEW value
  PROVE  Receives(Replaced(a), name, value) = Receives(a, name, value)
<1>1. HelmsOf(Replaced(a)) = HelmsOf(a)
  BY StoredParts DEF HelmsOf
<1>2. QED
  BY <1>1 DEF Receives

(* And is what was asked for when that was.                                *)
LEMMA StoredAsAsked ==
  ASSUME NEW a \in BuiltApplications, NEW asked \in SpecType, NEW layout \in LayoutType,
         AsAsked(a, asked, layout)
  PROVE  AsAsked(Replaced(a), asked, layout)
<1> DEFINE sent == {[policy EXCEPT !.options = @ \ {<<>>}] : policy \in a.policy}
<1>1. sent = {} <=> a.policy = {}
  OBVIOUS
<1>2. Replaced(a).policy = sent
  BY StoredParts
<1> HIDE DEF sent
<1>3. (Replaced(a).policy = {}) <=> (a.policy = {})
  BY <1>1, <1>2
<1>4. \A i : ReceivesExtra(Replaced(a), asked.extras, i) = ReceivesExtra(a, asked.extras, i)
  BY StoredReceives DEF ReceivesExtra
<1>5. /\ Receives(Replaced(a), Revision, asked.revision)
      /\ Receives(Replaced(a), Version, GetClusterGroupChartVersion([spec |-> asked], {layout}))
      /\ layout.variants => Receives(Replaced(a), NewFolderDir, "true")
  BY StoredReceives DEF AsAsked
<1>6. QED
  BY <1>3, <1>4, <1>5 DEF AsAsked

(* What the reconciler writes for a Pattern that is deployed and was not   *)
(* changed since it was read is what the Pattern asks for and the checkout *)
(* needs, for any list of extra parameters (createApplication,             *)
(* updateApplication).                                                     *)
WritesWhatIsAsked ==
  [][Write /\ taken = "deployed" /\ latest
       => \A a \in app', layout \in checkout : AsAsked(a, spec, layout)]_vars

(* The Application that is written is what is asked for.                   *)
THEOREM WrittenAsAsked == Spec => WritesWhatIsAsked
<1>1. ASSUME BuildInv, Write, taken = "deployed", latest, NEW a \in app', NEW layout \in checkout
      PROVE  AsAsked(a, spec, layout)
  <2> DEFINE g == NewApplication([spec |-> spec, phase |-> "deployed"], {layout})
  <2>1. step # "idle"
    BY <1>1 DEF Write
  <2>2. target = {NewApplication([spec |-> spec, phase |-> "deployed"], checkout)}
        /\ checkout = {layout}
    BY <1>1, <2>1 DEF BuildInv, Building
  <2>3. spec \in Specs /\ layout \in Layouts
    BY <1>1 DEF BuildInv, TypeOK
  <2>4. a = Replaced(g)
    BY <1>1, <2>2 DEF Write
  <2>5. spec \in SpecType /\ layout \in LayoutType
    BY <2>3, ApplicationAssumption
  <2>6. AsAsked(g, spec, layout)
    BY <2>5, BuiltAsAsked
  <2>7. g \in BuiltApplications
    <3> DEFINE p == [spec |-> spec, phase |-> "deployed"]
    <3>1. Asking(p, {layout}) /\ p.phase \in Phases
      BY <2>5 DEF Asking, Phases
    <3> HIDE DEF p
    <3>2. NewApplication(p, {layout}) \in BuiltApplications
      BY <3>1, NewType
    <3>3. QED
      BY <3>2 DEF p
  <2> HIDE DEF g
  <2>8. QED
    BY <2>4, <2>5, <2>6, <2>7, StoredAsAsked
<1>2. BuildInv /\ [Next]_vars =>
        [Write /\ taken = "deployed" /\ latest
           => \A a \in app', layout \in checkout : AsAsked(a, spec, layout)]_vars
  BY <1>1
<1>3. QED
  BY BuildInit, BuildStep, <1>2, PTL DEF Spec, WritesWhatIsAsked

(* What was written is found equal to what was asked for: the API leaving  *)
(* an empty list out does not make the reconciler write again.             *)
WritesAreRecognised == [][Write => \A a \in app', t \in target : CompareApplication(a, t)]_vars

(* A source with one Helm configuration, or none, compares equal to        *)
(* itself.                                                                 *)
LEMMA ComparedToItself ==
  ASSUME NEW s, s.helm = {} \/ \E h : s.helm = {h}
  PROVE  CompareSource(s, s)
  BY DEF CompareSource, BothOrNeither, CompareHelm

(* As the sources of what is built do.                                     *)
LEMMA NewSourcesCompare ==
  ASSUME NEW p, NEW c
  PROVE  /\ CompareSource(SingleSource(p, c), SingleSource(p, c))
         /\ CompareSources(MultiSource(p, c), MultiSource(p, c))
<1> DEFINE single == SingleSource(p, c)
           multi == MultiSource(p, c)
<1>1. \A where, revision, path, chart, helm :
        Source(where, revision, path, chart, helm).helm = helm
  BY DEF Source
<1>2. single.helm = {Helm(p, c)}
  BY <1>1 DEF SingleSource
<1>3. PICK first, second : /\ multi = <<first, second>>
                           /\ first.helm = {} /\ second.helm = {Helm(p, c)}
  <2> DEFINE bare == Source("target", p.spec.revision, "", "", {})
             own == Source("own", "main", ".", "", {Helm(p, c)})
             chart == Source("charts", GetClusterGroupChartVersion(p, c), "", "clustergroup",
                             {Helm(p, c)})
  <2>1. bare.helm = {} /\ own.helm = {Helm(p, c)} /\ chart.helm = {Helm(p, c)}
    BY DEF Source
  <2>2. multi = <<bare, own>> \/ multi = <<bare, chart>>
    BY DEF MultiSource
  <2> HIDE DEF bare, own, chart, multi
  <2>3. QED
    BY <2>1, <2>2
<1> HIDE DEF single, multi
<1>4. CompareSource(single, single)
  BY <1>2, ComparedToItself
<1>5. CompareSource(first, first) /\ CompareSource(second, second)
  BY <1>3, ComparedToItself
<1>6. Len(multi) = 2 /\ DOMAIN multi = {1, 2} /\ multi[1] = first /\ multi[2] = second
  BY <1>3
<1>7. CompareSources(multi, multi)
  BY <1>5, <1>6 DEF CompareSources
<1>8. QED
  BY <1>4, <1>7 DEF single, multi

(* What is stored of it compares equal to it.                              *)
LEMMA StoredCompares ==
  ASSUME NEW p, NEW c, NewApplication(p, c) \in BuiltApplications
  PROVE  CompareApplication(Replaced(NewApplication(p, c)), NewApplication(p, c))
<1> DEFINE g == NewApplication(p, c)
           a == Replaced(g)
<1>1. a.source = g.source /\ a.sources = g.sources
  BY StoredParts
<1>2. \/ g.source = {} /\ g.sources = {MultiSource(p, c)}
      \/ g.source = {SingleSource(p, c)} /\ g.sources = {}
  BY DEF NewApplication
<1>3. BothOrNeither(a.source, g.source, CompareSource)
  BY <1>1, <1>2, NewSourcesCompare DEF BothOrNeither
<1>4. BothOrNeither(a.sources, g.sources, CompareSources)
  BY <1>1, <1>2, NewSourcesCompare DEF BothOrNeither
<1>5. g.policy = Policy(p) /\ Policy(p) \subseteq BuiltPolicies
  BY PolicyType DEF NewApplication
<1>6. a.policy = {[policy EXCEPT !.options = @ \ {<<>>}] : policy \in g.policy}
  BY StoredParts
<1>7. ASSUME NEW policy \in g.policy
      PROVE  CompareSyncPolicy([policy EXCEPT !.options = @ \ {<<>>}], policy)
  <2> DEFINE sent == [policy EXCEPT !.options = @ \ {<<>>}]
  <2>1. policy \in BuiltPolicies
    BY <1>5
  <2>2. /\ sent.automated = policy.automated /\ sent.retry = policy.retry
        /\ sent.options = policy.options \ {<<>>}
    BY <2>1 DEF BuiltPolicies
  <2>3. policy.options = {<<>>} \/ policy.options = {<<"Prune=true">>}
    BY <1>5 DEF Policy
  <2>4. Items({}) = <<>> /\ \A items : Items({items}) = items
    BY DEF Items
  <2>5. <<"Prune=true">> # <<>>
    OBVIOUS
  <2> HIDE DEF sent
  <2>6. Items(sent.options) = Items(policy.options)
    BY <2>2, <2>3, <2>4, <2>5
  <2>7. QED
    BY <2>2, <2>6 DEF CompareSyncPolicy, CompareSyncOptions, sent
<1>8. \A one, other \in g.policy : one = other
  BY <1>5 DEF Policy
<1>9. BothOrNeither(a.policy, g.policy, CompareSyncPolicy)
  <2>1. a.policy = {} <=> g.policy = {}
    BY <1>6
  <2>2. ASSUME NEW stored \in a.policy, NEW policy \in g.policy
        PROVE  CompareSyncPolicy(stored, policy)
    <3>1. stored = [policy EXCEPT !.options = @ \ {<<>>}]
      BY <1>6, <1>8
    <3>2. QED
      BY <1>7, <3>1
  <2>3. QED
    BY <2>1, <2>2 DEF BothOrNeither
<1>10. QED
  BY <1>3, <1>4, <1>9 DEF CompareApplication

(* After a write the comparison finds nothing to write: Argo CD is not     *)
(* told the same thing over and over (compareApplication, syncopts).       *)
THEOREM WrittenIsRecognised == Spec => WritesAreRecognised
<1>1. ASSUME BuildInv, Write, NEW a \in app', NEW t \in target
      PROVE  CompareApplication(a, t)
  <2>1. step # "idle"
    BY <1>1 DEF Write
  <2>2. PICK s \in Specs : target = {NewApplication([spec |-> s, phase |-> taken], checkout)}
    BY <1>1, <2>1 DEF BuildInv, Building
  <2> DEFINE p == [spec |-> s, phase |-> taken]
  <2>3. Asking(p, checkout) /\ p.phase \in Phases
    BY <1>1, AskedFor DEF BuildInv, TypeOK
  <2>4. t = NewApplication(p, checkout) /\ a = Replaced(t)
    BY <1>1, <2>2 DEF Write
  <2> HIDE DEF p
  <2>5. QED
    BY <2>3, <2>4, NewType, StoredCompares
<1>2. BuildInv /\ [Next]_vars =>
        [Write => \A a \in app', t \in target : CompareApplication(a, t)]_vars
  BY <1>1
<1>3. QED
  BY BuildInit, BuildStep, <1>2, PTL DEF Spec, WritesAreRecognised
=============================================================================
