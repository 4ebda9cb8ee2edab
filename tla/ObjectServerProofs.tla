------------------------- MODULE ObjectServerProofs -------------------------
(***************************************************************************)
(* What users can do to the objects, proved for any messages, masks and    *)
(* templates.                                                              *)
(***************************************************************************)
EXTENDS ObjectServer, ObjectStoreProofs, SequenceTheorems, WellFoundedInduction

----------------------------------------------------------------------------
(* Paths *)

\* The fields that the servers deal with by name and that aren't in a map.
Plain == {MetadataPath, FinalizersPath, TemplatePath, StatusPath, StatePath, HubPath}

\* Those that have nothing inside.
Leaves == {FinalizersPath, TemplatePath, StatePath, HubPath}

LEMMA PathTyped ==
    ASSUME NEW p \in Paths
    PROVE  p \in Seq(Names) /\ Len(p) \in Nat /\ Len(p) >= 1
<1>1. p \in Seq(Names) /\ p # <<>>
  BY PathsAssumption
<1>2. Len(p) \in Nat \ {0}
  BY <1>1, EmptySeq
<1> QED
  BY <1>1, <1>2, SMT

LEMMA PlainPaths == Plain \subseteq Paths
  BY FieldsAssumption, ServerAssumption, PathsAssumption DEF Plain

LEMMA UnderItself ==
    ASSUME NEW p \in Seq(Names)
    PROVE  Under(p, p)
  BY LenProperties, SMT DEF Under, IsPrefix

LEMMA UnderUnder ==
    ASSUME NEW s \in Seq(Names), NEW t \in Seq(Names), NEW u \in Seq(Names),
           Under(s, t), Under(t, u)
    PROVE  Under(s, u)
  BY SMT DEF Under, IsPrefix

\* Of two paths that lead to the same field one leads to the other.
LEMMA UnderLen ==
    ASSUME NEW s \in Seq(Names), NEW t \in Seq(Names), Under(s, t)
    PROVE  /\ Len(s) <= Len(t)
           /\ \A i \in 1..Len(s) : s[i] = t[i]
           /\ Len(s) = Len(t) => s = t
<1>1. Len(s) <= Len(t) /\ Len(s) \in Nat /\ Len(t) \in Nat
  BY LenProperties DEF Under, IsPrefix
<1>2. SubSeq(s, 1, Len(s)) = SubSeq(t, 1, Len(s))
  BY DEF Under, IsPrefix
<1>3. \A i \in 1..Len(s) : s[i] \in Names /\ t[i] \in Names
  <2> TAKE i \in 1..Len(s)
  <2>1. i \in 1..Len(t)
    BY <1>1, SMT
  <2> QED
    BY <2>1, ElementOfSeq
<1>4. \A i \in 1..Len(s) : SubSeq(s, 1, Len(s))[i] = s[i] /\ SubSeq(t, 1, Len(s))[i] = t[i]
  <2>1. /\ \A i \in 1..Len(s) - 1 + 1 : SubSeq(s, 1, Len(s))[i] = s[1 + i - 1]
        /\ \A i \in 1..Len(s) - 1 + 1 : SubSeq(t, 1, Len(s))[i] = t[1 + i - 1]
    BY <1>1, <1>3, SubSeqProperties
  <2>2. \A i \in 1..Len(s) : 1 + i - 1 = i
    BY <1>1, SMT
  <2>3. Len(s) - 1 + 1 = Len(s)
    BY <1>1, SMT
  <2> QED
    BY <2>1, <2>2, <2>3
<1>5. \A i \in 1..Len(s) : s[i] = t[i]
  BY <1>2, <1>4
<1>6. Len(s) = Len(t) => s = t
  BY <1>5, SeqEqual
<1> QED
  BY <1>1, <1>5, <1>6

LEMMA UnderIf ==
    ASSUME NEW s \in Seq(Names), NEW t \in Seq(Names), Len(s) <= Len(t),
           \A i \in 1..Len(s) : s[i] = t[i]
    PROVE  Under(s, t)
<1>1. Len(s) \in Nat /\ Len(t) \in Nat
  BY LenProperties
<1>2. \A i \in 1..Len(s) : s[i] \in Names /\ t[i] \in Names
  BY ElementOfSeq
<1>3. /\ SubSeq(s, 1, Len(s)) \in Seq(Names) /\ SubSeq(t, 1, Len(s)) \in Seq(Names)
      /\ Len(SubSeq(s, 1, Len(s))) = (IF 1 <= Len(s) THEN Len(s) - 1 + 1 ELSE 0)
      /\ Len(SubSeq(t, 1, Len(s))) = (IF 1 <= Len(s) THEN Len(s) - 1 + 1 ELSE 0)
      /\ \A i \in 1..Len(s) - 1 + 1 : SubSeq(s, 1, Len(s))[i] = s[1 + i - 1]
      /\ \A i \in 1..Len(s) - 1 + 1 : SubSeq(t, 1, Len(s))[i] = t[1 + i - 1]
  BY <1>1, <1>2, SubSeqProperties
<1>4. Len(SubSeq(s, 1, Len(s))) = Len(s) /\ Len(SubSeq(t, 1, Len(s))) = Len(s)
  BY <1>1, <1>3, SMT
<1>5. \A i \in 1..Len(s) : i \in 1..Len(s) - 1 + 1 /\ 1 + i - 1 = i
  BY <1>1, SMT
<1>6. \A i \in 1..Len(s) : SubSeq(s, 1, Len(s))[i] = SubSeq(t, 1, Len(s))[i]
  BY <1>3, <1>5
<1>7. SubSeq(s, 1, Len(s)) = SubSeq(t, 1, Len(s))
  BY <1>3, <1>4, <1>6, SeqEqual
<1> QED
  BY <1>7 DEF Under, IsPrefix

\* What encloses a field.
LEMMA FrontProperties ==
    ASSUME NEW p \in Seq(Names), Len(p) > 1
    PROVE  /\ Front(p) \in Seq(Names)
           /\ Len(Front(p)) = Len(p) - 1
           /\ \A i \in 1..Len(p) - 1 : Front(p)[i] = p[i]
           /\ StrictlyUnder(Front(p), p)
<1>1. Len(p) \in Nat
  BY LenProperties
<1>2. \A i \in 1..Len(p) - 1 : p[i] \in Names
  <2> TAKE i \in 1..Len(p) - 1
  <2>1. i \in 1..Len(p)
    BY <1>1, SMT
  <2> QED
    BY <2>1, ElementOfSeq
<1>3. /\ Front(p) \in Seq(Names)
      /\ Len(Front(p)) = (IF 1 <= Len(p) - 1 THEN Len(p) - 1 - 1 + 1 ELSE 0)
      /\ \A i \in 1..Len(p) - 1 - 1 + 1 : Front(p)[i] = p[1 + i - 1]
  BY <1>1, <1>2, SubSeqProperties DEF Front
<1>4. Len(Front(p)) = Len(p) - 1
  BY <1>1, <1>3, SMT
<1>5. \A i \in 1..Len(p) - 1 : i \in 1..Len(p) - 1 - 1 + 1 /\ 1 + i - 1 = i
  BY <1>1, SMT
<1>6. \A i \in 1..Len(p) - 1 : Front(p)[i] = p[i]
  BY <1>3, <1>5
<1>7. Under(Front(p), p)
  <2>1. Len(Front(p)) <= Len(p)
    BY <1>1, <1>4, SMT
  <2> QED
    BY <1>3, <1>4, <1>6, <2>1, UnderIf
<1>8. Front(p) # p
  BY <1>1, <1>4, SMT
<1> QED
  BY <1>3, <1>4, <1>6, <1>7, <1>8 DEF StrictlyUnder

LEMMA UnderFront ==
    ASSUME NEW q \in Seq(Names), NEW p \in Seq(Names), StrictlyUnder(q, p), Len(q) >= 1
    PROVE  Len(p) > 1 /\ Under(q, Front(p))
<1>1. Len(q) \in Nat /\ Len(p) \in Nat
  BY LenProperties
<1>2. /\ Len(q) <= Len(p) /\ Len(q) # Len(p)
      /\ \A i \in 1..Len(q) : q[i] = p[i]
  BY UnderLen DEF StrictlyUnder
<1>3. Len(p) > 1
  BY <1>1, <1>2, SMT
<1>4. /\ Front(p) \in Seq(Names) /\ Len(Front(p)) = Len(p) - 1
      /\ \A i \in 1..Len(p) - 1 : Front(p)[i] = p[i]
  BY <1>3, FrontProperties
<1>5. Len(q) <= Len(Front(p)) /\ \A i \in 1..Len(q) : i \in 1..Len(p) - 1
  BY <1>1, <1>2, <1>4, SMT
<1>6. \A i \in 1..Len(q) : q[i] = Front(p)[i]
  BY <1>2, <1>4, <1>5
<1> QED
  BY <1>3, <1>4, <1>5, <1>6, UnderIf

LEMMA AppendFront ==
    ASSUME NEW s \in Seq(Names), NEW n \in Names, Len(s) >= 1
    PROVE  /\ Append(s, n) \in Seq(Names)
           /\ Len(Append(s, n)) = Len(s) + 1 /\ Len(Append(s, n)) > 1
           /\ Front(Append(s, n)) = s /\ Last(Append(s, n)) = n
           /\ StrictlyUnder(s, Append(s, n))
<1>1. /\ Append(s, n) \in Seq(Names) /\ Len(Append(s, n)) = Len(s) + 1
      /\ \A i \in 1..Len(s) : Append(s, n)[i] = s[i]
      /\ Append(s, n)[Len(s) + 1] = n
  <2>1. Append(s, n) \in Seq(Names)
    BY AppendProperties, Zenon
  <2>2. Len(Append(s, n)) = Len(s) + 1
    BY AppendProperties
  <2>3. \A i \in 1..Len(s) : Append(s, n)[i] = s[i]
    BY AppendProperties
  <2>4. Append(s, n)[Len(s) + 1] = n
    BY AppendProperties
  <2> QED
    BY <2>1, <2>2, <2>3, <2>4
<1>2. Len(s) \in Nat
  BY LenProperties
<1>3. Len(Append(s, n)) > 1 /\ Len(Append(s, n)) - 1 = Len(s)
  BY <1>1, <1>2, SMT
<1>4. /\ Front(Append(s, n)) \in Seq(Names) /\ Len(Front(Append(s, n))) = Len(s)
      /\ \A i \in 1..Len(s) : Front(Append(s, n))[i] = Append(s, n)[i]
      /\ StrictlyUnder(Front(Append(s, n)), Append(s, n))
  BY <1>1, <1>2, <1>3, FrontProperties
<1>5. Front(Append(s, n)) = s
  BY <1>1, <1>4, SeqEqual
<1> QED
  BY <1>1, <1>3, <1>4, <1>5 DEF Last

----------------------------------------------------------------------------
(* The fields that the servers deal with by name. *)

LEMMA FieldPaths ==
    /\ \A p \in {MetadataPath, StatusPath, <<"spec">>} :
           p \in Paths /\ p \in Seq(Names) /\ Len(p) = 1
    /\ \A p \in Leaves \union {ParametersPath, NodeSetsPath} :
           p \in Paths /\ p \in Seq(Names) /\ Len(p) = 2
    /\ Front(FinalizersPath) = MetadataPath
    /\ Front(StatePath) = StatusPath /\ Front(HubPath) = StatusPath
    /\ Front(TemplatePath) = <<"spec">>
<1>1. /\ Len(MetadataPath) = 1 /\ Len(StatusPath) = 1 /\ Len(<<"spec">>) = 1
      /\ Len(FinalizersPath) = 2 /\ Len(TemplatePath) = 2 /\ Len(StatePath) = 2
      /\ Len(HubPath) = 2 /\ Len(ParametersPath) = 2 /\ Len(NodeSetsPath) = 2
  BY SMT DEF MetadataPath, StatusPath, FinalizersPath, TemplatePath, StatePath, HubPath,
             ParametersPath, NodeSetsPath
<1>2. /\ FinalizersPath[1] = MetadataPath[1] /\ StatePath[1] = StatusPath[1]
      /\ HubPath[1] = StatusPath[1] /\ TemplatePath[1] = <<"spec">>[1]
  BY SMT DEF MetadataPath, StatusPath, FinalizersPath, TemplatePath, StatePath, HubPath
<1>3. \A p \in Leaves \union {MetadataPath, StatusPath, ParametersPath, NodeSetsPath} :
          p \in Paths /\ p \in Seq(Names)
  BY PlainPaths, PathTyped, FieldsAssumption DEF Leaves, Plain
<1>4. <<"spec">> \in Seq(Names)
  <2>1. TemplatePath \in Seq(Names)
    BY <1>3 DEF Leaves
  <2>2. 1 \in 1..Len(TemplatePath)
    BY <1>1, SMT
  <2>3. TemplatePath[1] \in Names
    BY <2>1, <2>2, ElementOfSeq
  <2>4. <<"spec">>[1] = "spec"
    OBVIOUS
  <2>5. "spec" \in Names
    BY <1>2, <2>3, <2>4
  <2> QED
    BY <2>5
<1>5. ASSUME NEW p \in Leaves, NEW q \in Seq(Names), Len(p) = 2, Len(q) = 1, p[1] = q[1]
      PROVE  Front(p) = q
  <2>1. p \in Seq(Names) /\ Len(p) > 1
    BY <1>3, <1>5, SMT
  <2>2. /\ Front(p) \in Seq(Names) /\ Len(Front(p)) = Len(p) - 1
        /\ \A i \in 1..Len(p) - 1 : Front(p)[i] = p[i]
    BY <2>1, FrontProperties
  <2>3. Len(Front(p)) = 1
    BY <1>5, <2>2, SMT
  <2>4. \A i \in 1..Len(Front(p)) : Front(p)[i] = q[i]
    BY <1>5, <2>2, <2>3, SMT
  <2> QED
    BY <1>5, <2>2, <2>3, <2>4, SeqEqual
<1>6. /\ Front(FinalizersPath) = MetadataPath
      /\ Front(StatePath) = StatusPath /\ Front(HubPath) = StatusPath
      /\ Front(TemplatePath) = <<"spec">>
  BY <1>1, <1>2, <1>3, <1>4, <1>5 DEF Leaves
<1>7. <<"spec">> \in Paths
  <2>1. TemplatePath \in Paths /\ Len(TemplatePath) > 1
    BY <1>1, <1>3, SMT DEF Leaves
  <2> QED
    BY <1>6, <2>1, PathsAssumption
<1> QED
  BY <1>1, <1>3, <1>4, <1>6, <1>7 DEF Leaves

LEMMA FieldsDiffer ==
    /\ MetadataPath # StatusPath
    /\ FinalizersPath # HubPath /\ FinalizersPath # StatePath /\ StatePath # HubPath
    /\ TemplatePath \notin {FinalizersPath, StatePath, HubPath, ParametersPath, NodeSetsPath}
    /\ NodeSetsPath # ParametersPath
  BY SMT DEF MetadataPath, StatusPath, FinalizersPath, TemplatePath, StatePath, HubPath,
             ParametersPath, NodeSetsPath

LEMMA LengthsDiffer ==
    ASSUME NEW p \in {MetadataPath, StatusPath, <<"spec">>},
           NEW q \in Leaves \union {ParametersPath, NodeSetsPath}
    PROVE  p # q
<1>1. Len(p) = 1
  BY FieldPaths
<1>2. Len(q) = 2
  BY FieldPaths
<1> QED
  BY <1>1, <1>2, SMT

(***************************************************************************)
(* What leads to a field of the first or of the second level.              *)
(***************************************************************************)
LEMMA UnderTop ==
    ASSUME NEW q \in Paths, NEW p \in {MetadataPath, StatusPath, <<"spec">>}, Under(q, p)
    PROVE  q = p
<1>1. p \in Seq(Names) /\ Len(p) = 1
  BY FieldPaths
<1>2. q \in Seq(Names) /\ Len(q) \in Nat /\ Len(q) >= 1
  BY PathTyped
<1>3. Len(q) <= Len(p) /\ (Len(q) = Len(p) => q = p)
  BY <1>1, <1>2, UnderLen
<1> QED
  BY <1>1, <1>2, <1>3, SMT

LEMMA UnderLeaf ==
    ASSUME NEW q \in Paths, NEW p \in Leaves, Under(q, p)
    PROVE  q = p \/ q = Front(p)
<1>1. p \in Seq(Names) /\ Len(p) = 2
  BY FieldPaths
<1>2. q \in Seq(Names) /\ Len(q) \in Nat /\ Len(q) >= 1
  BY PathTyped
<1>3. ASSUME q # p
      PROVE  q = Front(p)
  <2>1. StrictlyUnder(q, p)
    BY <1>3 DEF StrictlyUnder
  <2>2. Under(q, Front(p))
    BY <1>1, <1>2, <2>1, UnderFront
  <2>3. Front(p) \in {MetadataPath, StatusPath, <<"spec">>}
    BY FieldPaths DEF Leaves
  <2> QED
    BY <2>2, <2>3, UnderTop
<1> QED
  BY <1>3

(***************************************************************************)
(* No entry of a map leads to them, and they aren't maps.                  *)
(***************************************************************************)
LEMMA PlainOutsideMaps ==
    ASSUME NEW p \in Plain
    PROVE  p \notin MapFields /\ \A e \in Entries : ~Under(e, p)
<1>1. p \notin MapFields
  BY FieldsAssumption DEF Plain
<1>2. ASSUME NEW e \in Entries, Under(e, p)
      PROVE  FALSE
  <2>1. e \in Paths /\ Len(e) > 1 /\ Front(e) \in MapFields
    BY DEF Entries
  <2>2. CASE p \in {MetadataPath, StatusPath}
    <3>1. e = p /\ Len(p) = 1
      BY <1>2, <2>1, <2>2, UnderTop, FieldPaths
    <3> QED
      BY <2>1, <3>1, SMT
  <2>3. CASE p \in Leaves
    <3>1. e = p \/ e = Front(p)
      BY <1>2, <2>1, <2>3, UnderLeaf
    <3>2. Front(p) \in {MetadataPath, StatusPath, <<"spec">>}
      BY <2>3, FieldPaths DEF Leaves
    <3>3. CASE e = p
      BY <2>1, <3>2, <3>3, FieldsAssumption
    <3>4. CASE e = Front(p)
      <4>1. Len(e) = 1
        BY <3>2, <3>4, FieldPaths
      <4> QED
        BY <2>1, <4>1, SMT
    <3> QED
      BY <3>1, <3>3, <3>4
  <2> QED
    BY <2>2, <2>3 DEF Plain, Leaves
<1> QED
  BY <1>1, <1>2

----------------------------------------------------------------------------
(* Messages *)

LEMMA NormalTyped ==
    ASSUME NEW m \in AnyMessage
    PROVE  Normal(m) \in AnyMessage
  BY PathsAssumption DEF AnyMessage, Normal

LEMMA CopyTyped ==
    ASSUME NEW from \in AnyMessage, NEW to \in AnyMessage, NEW ignored
    PROVE  Copy(from, to, ignored) \in AnyMessage
  BY DEF AnyMessage, Copy

LEMMA CopyOutTyped ==
    ASSUME NEW from \in AnyMessage
    PROVE  /\ CopyOut(from) \in AnyMessage
           /\ \A p \in HiddenPaths : CopyOut(from)[p] = Absent
<1>1. Absent \in Values /\ HiddenPaths \subseteq Paths
  BY PathsAssumption
<1> QED
  BY <1>1 DEF AnyMessage, CopyOut

LEMMA EmptyTyped == Empty \in AnyMessage
  BY PathsAssumption DEF AnyMessage, Empty

LEMMA UpdateStepTyped ==
    ASSUME NEW m \in AnyMessage, NEW path \in Paths, NEW from \in AnyMessage
    PROVE  PathUpdate(m, path, from) \in AnyMessage
<1>1. [p \in Paths |-> IF Under(path, p) THEN from[p]
                       ELSE IF StrictlyUnder(p, path) THEN Present
                       ELSE IF \E e \in Through(path) : Under(e, p) THEN Absent
                       ELSE m[p]] \in AnyMessage
  BY PathsAssumption DEF AnyMessage
<1>2. [p \in Paths |-> IF Under(path, p) THEN Absent ELSE m[p]] \in AnyMessage
  BY PathsAssumption DEF AnyMessage
<1> QED
  BY <1>1, <1>2, NormalTyped DEF PathUpdate, PathSet, PathClear

(***************************************************************************)
(* A path of a mask changes a leaf only if it leads there: then the leaf   *)
(* is as in the request, or it is cleared (Path.Set and Path.Clear).       *)
(***************************************************************************)
LEMMA LeafUpdate ==
    ASSUME NEW m \in AnyMessage, NEW path \in Paths, NEW from \in AnyMessage,
           NEW p \in Leaves
    PROVE  PathUpdate(m, path, from)[p]
               = IF Under(path, p) THEN (IF from[path] # Absent THEN from[p] ELSE Absent)
                 ELSE m[p]
<1>1. p \in Paths /\ p \in Plain
  BY PlainPaths DEF Leaves, Plain
<1>2. p \notin MapFields /\ \A e \in Entries : ~Under(e, p)
  BY <1>1, PlainOutsideMaps
<1>3. ~StrictlyUnder(p, path)
  BY FieldsAssumption DEF Leaves
<1>4. ~ \E e \in Through(path) : Under(e, p)
  BY <1>2 DEF Through
<1> QED
  BY <1>1, <1>2, <1>3, <1>4 DEF PathUpdate, PathSet, PathClear, Normal

----------------------------------------------------------------------------
(* Masks *)

\* A set of natural numbers has a least element.
LEMMA Least ==
    ASSUME NEW T \in SUBSET Nat, T # {}
    PROVE  \E x \in T : \A y \in T : x <= y
<1>1. PICK x \in T : \A y \in T : ~(<<y, x>> \in OpToRel(<, Nat))
  BY NatLessThanWellFounded, WFMin
<1>2. \A y \in T : ~(y < x)
  BY <1>1 DEF OpToRel
<1> QED
  BY <1>2, SMT

\* What is said of the stages by their definition, as long as there is a
\* function that satisfies it.
StagesOf(f, n, m, mask, input) ==
    f = [i \in 0..n |-> IF i = 0 THEN m ELSE PathUpdate(f[i - 1], mask[i], input)]

LEMMA StagesExist ==
    ASSUME NEW m, NEW mask, NEW input, NEW n \in Nat
    PROVE  \E f : StagesOf(f, n, m, mask, input)
<1> DEFINE Bad == {k \in Nat : ~ \E f : StagesOf(f, k, m, mask, input)}
<1>1. ASSUME Bad # {}
      PROVE  FALSE
  <2>1. PICK k \in Bad : \A y \in Bad : k <= y
    BY <1>1, Least
  <2> HIDE DEF Bad
  <2>2. k \in Nat /\ ~ \E f : StagesOf(f, k, m, mask, input)
    BY <2>1 DEF Bad
  <2>3. CASE k = 0
    <3> DEFINE g == [i \in 0..0 |-> m]
    <3>1. \A i \in 0..0 : i = 0
      BY SMT
    <3>2. g = [i \in 0..0 |-> IF i = 0 THEN m ELSE PathUpdate(g[i - 1], mask[i], input)]
      BY <3>1, Zenon
    <3>3. StagesOf(g, 0, m, mask, input)
      BY <3>2 DEF StagesOf
    <3> QED
      BY <2>2, <2>3, <3>3
  <2>4. CASE k # 0
    <3>1. k - 1 \in Nat /\ ~(k <= k - 1) /\ k \in 0..k /\ 0..(k - 1) = 0..k \ {k}
      BY <2>2, <2>4, SMT
    <3>2. k - 1 \notin Bad
      BY <2>1, <3>1
    <3>3. PICK f : StagesOf(f, k - 1, m, mask, input)
      BY <3>1, <3>2 DEF Bad
    <3> DEFINE g == [i \in 0..k |-> IF i = k THEN PathUpdate(f[k - 1], mask[k], input)
                                    ELSE f[i]]
    <3>4. \A i \in 0..(k - 1) :
              f[i] = IF i = 0 THEN m ELSE PathUpdate(f[i - 1], mask[i], input)
      <4> HIDE DEF g
      <4>1. f = [i \in 0..(k - 1) |-> IF i = 0 THEN m ELSE PathUpdate(f[i - 1], mask[i], input)]
        BY <3>3 DEF StagesOf
      <4> QED
        BY <4>1, Zenon
    <3>5. \A i \in 0..k : i # 0 => i - 1 \in 0..k /\ i - 1 # k
      BY <3>1, SMT
    <3>6. \A i \in 0..k :
              g[i] = IF i = 0 THEN m ELSE PathUpdate(g[i - 1], mask[i], input)
      <4> TAKE i \in 0..k
      <4>1. CASE i = k
        <5>1. g[i] = PathUpdate(f[k - 1], mask[k], input)
          BY <4>1, <3>1
        <5>2. g[i - 1] = f[k - 1]
          BY <4>1, <2>4, <3>1, <3>5
        <5> QED
          BY <4>1, <2>4, <5>1, <5>2, Zenon
      <4>2. CASE i # k
        <5>1. g[i] = f[i] /\ i \in 0..(k - 1)
          BY <4>2, <3>1
        <5>2. i # 0 => g[i - 1] = f[i - 1]
          BY <3>5
        <5> HIDE DEF g
        <5> QED
          BY <5>1, <5>2, <3>4, Zenon
      <4> QED
        BY <4>1, <4>2
    <3>7. g = [i \in 0..k |-> g[i]]
      OBVIOUS
    <3> HIDE DEF g
    <3>8. StagesOf(g, k, m, mask, input)
      BY <3>6, <3>7, Zenon DEF StagesOf
    <3> QED
      BY <2>2, <3>8
  <2> QED
    BY <2>3, <2>4
<1> QED
  BY <1>1
LEMMA StagesUnfold ==
    ASSUME NEW m, NEW mask, Len(mask) \in Nat, NEW input
    PROVE  /\ Stages(m, mask, input)[0] = m
           /\ \A i \in 1..Len(mask) :
                  Stages(m, mask, input)[i]
                      = PathUpdate(Stages(m, mask, input)[i - 1], mask[i], input)
<1> DEFINE St == Stages(m, mask, input)
<1>1. PICK f : StagesOf(f, Len(mask), m, mask, input)
  BY StagesExist, Zenon
<1>2. f = [i \in 0..Len(mask) |-> IF i = 0 THEN m ELSE PathUpdate(f[i - 1], mask[i], input)]
  BY <1>1 DEF StagesOf
<1> HIDE DEF St
<1>3. St = [i \in 0..Len(mask) |-> IF i = 0 THEN m ELSE PathUpdate(St[i - 1], mask[i], input)]
  BY <1>2 DEF Stages, St
<1>4. \A i \in 0..Len(mask) : St[i] = IF i = 0 THEN m
                                       ELSE PathUpdate(St[i - 1], mask[i], input)
  BY <1>3, Zenon
<1>5. 0 \in 0..Len(mask) /\ \A i \in 1..Len(mask) : i \in 0..Len(mask) /\ i # 0
  BY SMT
<1>6. St[0] = m
  BY <1>4, <1>5, Zenon
<1>7. \A i \in 1..Len(mask) : St[i] = PathUpdate(St[i - 1], mask[i], input)
  BY <1>4, <1>5, Zenon
<1> QED
  BY <1>6, <1>7, Zenon DEF St

(***************************************************************************)
(* What the update of one path preserves, whatever path of the mask it is, *)
(* all of the mask preserves.                                              *)
(***************************************************************************)
LEMMA StagesStay ==
    ASSUME NEW M, NEW m \in M, NEW mask, Len(mask) \in Nat, NEW input,
           \A x \in M : \A i \in 1..Len(mask) : PathUpdate(x, mask[i], input) \in M
    PROVE  \A i \in 0..Len(mask) : Stages(m, mask, input)[i] \in M
<1> DEFINE St == Stages(m, mask, input)
           Bad == {i \in 0..Len(mask) : St[i] \notin M}
<1>1. ASSUME Bad # {}
      PROVE  FALSE
  <2>1. Bad \in SUBSET Nat
    BY SMT
  <2>2. PICK k \in Bad : \A y \in Bad : k <= y
    BY <1>1, <2>1, Least
  <2>3. k \in 0..Len(mask) /\ St[k] \notin M
    BY <2>2
  <2>4. St[0] = m /\ \A i \in 1..Len(mask) : St[i] = PathUpdate(St[i - 1], mask[i], input)
    BY StagesUnfold
  <2> HIDE DEF St
  <2>5. k # 0
    BY <2>3, <2>4
  <2>6. k \in 1..Len(mask) /\ k - 1 \in 0..Len(mask) /\ ~(k <= k - 1)
    BY <2>3, <2>5, SMT
  <2>7. St[k - 1] \in M
    BY <2>2, <2>6
  <2> QED
    BY <2>3, <2>4, <2>6, <2>7
<1> QED
  BY <1>1

\* The same of what comes out in the end.
LEMMA MaskedStays ==
    ASSUME NEW M, NEW m \in M, NEW mask \in Seq(Paths) \union {NoMask}, NEW input \in M,
           \A x \in M : \A p \in Paths : PathUpdate(x, p, input) \in M
    PROVE  Masked(m, mask, input) \in M
<1>1. CASE mask = NoMask
  BY <1>1 DEF Masked
<1>2. CASE mask # NoMask
  <2>1. mask \in Seq(Paths) /\ Len(mask) \in Nat /\ Len(mask) \in 0..Len(mask)
    BY <1>2, LenProperties, SMT
  <2>2. \A i \in 1..Len(mask) : mask[i] \in Paths
    BY <2>1, ElementOfSeq
  <2>3. \A i \in 0..Len(mask) : Stages(m, mask, input)[i] \in M
    BY <2>1, <2>2, StagesStay
  <2> QED
    BY <1>2, <2>1, <2>3 DEF Masked
<1> QED
  BY <1>1, <1>2
----------------------------------------------------------------------------
(* Templates *)

LEMMA EntryForm ==
    ASSUME NEW e \in Seq(Names), Len(e) > 1
    PROVE  Last(e) \in Names /\ e = Append(Front(e), Last(e))
<1>1. Len(e) \in Nat /\ Len(e) \in 1..Len(e)
  BY LenProperties, SMT
<1>2. Last(e) \in Names
  BY <1>1, ElementOfSeq DEF Last
<1>3. /\ Front(e) \in Seq(Names) /\ Len(Front(e)) = Len(e) - 1
      /\ \A i \in 1..Len(e) - 1 : Front(e)[i] = e[i]
  BY FrontProperties
<1> DEFINE s == Append(Front(e), Last(e))
<1>4. s \in Seq(Names)
  BY <1>2, <1>3, AppendProperties, Zenon
<1>5. Len(s) = Len(Front(e)) + 1
  BY <1>2, <1>3, AppendProperties
<1>6. \A i \in 1..Len(Front(e)) : s[i] = Front(e)[i]
  BY <1>2, <1>3, AppendProperties
<1>7. s[Len(Front(e)) + 1] = Last(e)
  BY <1>2, <1>3, AppendProperties
<1> HIDE DEF s
<1>8. Len(s) = Len(e)
  BY <1>1, <1>3, <1>5, SMT
<1>9. \A i \in 1..Len(e) : s[i] = e[i]
  <2> TAKE i \in 1..Len(e)
  <2>1. CASE i = Len(e)
    <3>1. Len(Front(e)) + 1 = i
      BY <1>1, <1>3, <2>1, SMT
    <3> QED
      BY <1>7, <2>1, <3>1 DEF Last
  <2>2. CASE i # Len(e)
    <3>1. i \in 1..Len(e) - 1 /\ Len(Front(e)) = Len(e) - 1
      BY <1>1, <1>3, <2>2, SMT
    <3> QED
      BY <1>3, <1>6, <3>1
  <2> QED
    BY <2>1, <2>2
<1>10. s = e
  BY <1>4, <1>8, <1>9, SeqEqual
<1> QED
  BY <1>2, <1>10 DEF s

NodeSetPath(n) == Append(NodeSetsPath, n)

NodeSetFields(n) == {Append(NodeSetPath(n), "host_class"), Append(NodeSetPath(n), "size")}

(***************************************************************************)
(* What is in the template.                                                *)
(***************************************************************************)
LEMMA TemplateFacts ==
    ASSUME contents \in Templates
    PROVE  /\ Required \union DOMAIN Defaults \subseteq DOMAIN Parameters
           /\ \A n \in DOMAIN Parameters :
                  /\ n \in Names /\ Append(ParametersPath, n) \in Paths
                  /\ \A p \in Paths : ~StrictlyUnder(Append(ParametersPath, n), p)
           /\ \A n \in DOMAIN Defaults : Defaults[n] \in Values \ {Absent}
           /\ \A n \in DOMAIN TemplateNodeSets :
                  /\ n \in Names /\ {NodeSetPath(n)} \union NodeSetFields(n) \subseteq Paths
                  /\ NodeSetFields(n) \intersect MapFields = {}
                  /\ \A p \in Paths :
                         StrictlyUnder(NodeSetPath(n), p) => p \in NodeSetFields(n)
                  /\ {TemplateNodeSets[n].host_class, TemplateNodeSets[n].size}
                         \subseteq Values
           /\ {"host_class", "size"} \subseteq Names
           /\ Absent \notin PositiveSizes
<1>1. Required \union DOMAIN Defaults \subseteq DOMAIN Parameters
  BY TemplatesAssumption DEF Parameters, Required, Defaults
<1>2. \A n \in DOMAIN Parameters :
          /\ n \in Names /\ Append(ParametersPath, n) \in Paths
          /\ \A p \in Paths : ~StrictlyUnder(Append(ParametersPath, n), p)
  BY TemplatesAssumption, Zenon DEF Parameters
<1>3. \A n \in DOMAIN Defaults : Defaults[n] \in Values \ {Absent}
  BY TemplatesAssumption, Zenon DEF Defaults
<1>4. ASSUME NEW n \in DOMAIN TemplateNodeSets
      PROVE  /\ n \in Names /\ {NodeSetPath(n)} \union NodeSetFields(n) \subseteq Paths
             /\ NodeSetFields(n) \intersect MapFields = {}
             /\ \A p \in Paths : StrictlyUnder(NodeSetPath(n), p) => p \in NodeSetFields(n)
             /\ {TemplateNodeSets[n].host_class, TemplateNodeSets[n].size} \subseteq Values
  BY TemplatesAssumption, Zenon DEF TemplateNodeSets, NodeSetPath, NodeSetFields
<1>5. {"host_class", "size"} \subseteq Names /\ Absent \notin PositiveSizes
  BY ValuesAssumption
<1> QED
  BY <1>1, <1>2, <1>3, <1>4, <1>5, Zenon

(***************************************************************************)
(* The node sets of the template, and their fields.                        *)
(***************************************************************************)
LEMMA NodeSetPaths ==
    ASSUME contents \in Templates, NEW n \in DOMAIN TemplateNodeSets
    PROVE  /\ n \in Names
           /\ NodeSetPath(n) \in Paths /\ NodeSetPath(n) \in Entries
           /\ Len(NodeSetPath(n)) = 3 /\ NodeSetPath(n)[3] = n
           /\ Front(NodeSetPath(n)) = NodeSetsPath /\ Last(NodeSetPath(n)) = n
           /\ \A f \in {"host_class", "size"} :
                  LET p == Append(NodeSetPath(n), f)
                  IN  /\ p \in Paths /\ Len(p) = 4 /\ p[3] = n /\ Last(p) = f
                      /\ Front(p) = NodeSetPath(n) /\ StrictlyUnder(NodeSetPath(n), p)
<1>1. /\ n \in Names /\ {"host_class", "size"} \subseteq Names
      /\ NodeSetPath(n) \in Paths
      /\ \A f \in {"host_class", "size"} : Append(NodeSetPath(n), f) \in Paths
  BY TemplateFacts DEF NodeSetFields
<1>2. NodeSetsPath \in Seq(Names) /\ Len(NodeSetsPath) = 2 /\ Len(NodeSetsPath) >= 1
  <2>1. NodeSetsPath \in Seq(Names) /\ Len(NodeSetsPath) = 2
    BY FieldPaths, Zenon
  <2> QED
    BY <2>1, SMT
<1>3. /\ NodeSetPath(n) \in Seq(Names)
      /\ Len(NodeSetPath(n)) = Len(NodeSetsPath) + 1 /\ Len(NodeSetPath(n)) > 1
      /\ Front(NodeSetPath(n)) = NodeSetsPath /\ Last(NodeSetPath(n)) = n
  BY <1>1, <1>2, AppendFront DEF NodeSetPath
<1>4. Len(NodeSetPath(n)) = 3 /\ Len(NodeSetPath(n)) >= 1
  BY <1>2, <1>3, SMT
<1>5. NodeSetPath(n)[3] = n
  BY <1>3, <1>4 DEF Last
<1>6. NodeSetPath(n) \in Entries
  BY <1>1, <1>3, FieldsAssumption DEF Entries
<1>7. ASSUME NEW f \in {"host_class", "size"}
      PROVE  LET p == Append(NodeSetPath(n), f)
             IN  /\ p \in Paths /\ Len(p) = 4 /\ p[3] = n /\ Last(p) = f
                 /\ Front(p) = NodeSetPath(n) /\ StrictlyUnder(NodeSetPath(n), p)
  <2> DEFINE p == Append(NodeSetPath(n), f)
  <2>1. f \in Names
    BY <1>1
  <2>2. /\ p \in Seq(Names) /\ Len(p) = Len(NodeSetPath(n)) + 1
        /\ Front(p) = NodeSetPath(n) /\ Last(p) = f
        /\ StrictlyUnder(NodeSetPath(n), p)
    BY <1>3, <1>4, <2>1, AppendFront
  <2>3. p \in Paths
    BY <1>1
  <2> HIDE DEF p
  <2>4. Len(p) = 4 /\ 3 \in 1..Len(NodeSetPath(n))
    BY <1>4, <2>2, SMT
  <2>5. NodeSetPath(n)[3] = p[3]
    BY <1>3, <2>2, <2>4, UnderLen DEF StrictlyUnder
  <2> QED
    BY <1>5, <2>2, <2>3, <2>4, <2>5 DEF p
<1> QED
  BY <1>1, <1>3, <1>4, <1>5, <1>6, <1>7

\* What WithNodeSets sets.
InNodeSet(p) ==
    \E e \in Entries : Front(e) = NodeSetsPath /\ Under(e, p)
                       /\ Last(e) \in DOMAIN TemplateNodeSets

LEMMA NodeSetParts ==
    ASSUME contents \in Templates, NEW p \in Paths, InNodeSet(p)
    PROVE  \E n \in DOMAIN TemplateNodeSets :
               p \in {NodeSetPath(n), Append(NodeSetPath(n), "host_class"),
                      Append(NodeSetPath(n), "size")}
<1>1. PICK e \in Entries : /\ Front(e) = NodeSetsPath /\ Under(e, p)
                           /\ Last(e) \in DOMAIN TemplateNodeSets
  BY DEF InNodeSet
<1>2. e \in Seq(Names) /\ Len(e) > 1
  BY PathTyped DEF Entries
<1>3. e = NodeSetPath(Last(e))
  BY <1>1, <1>2, EntryForm DEF NodeSetPath
<1>4. p = e \/ StrictlyUnder(e, p)
  BY <1>1 DEF StrictlyUnder
<1>5. StrictlyUnder(e, p) => p \in {Append(e, "host_class"), Append(e, "size")}
  <2> DEFINE n == Last(e)
  <2>1. n \in DOMAIN TemplateNodeSets /\ e = NodeSetPath(n)
    BY <1>1, <1>3
  <2> QED
    BY <2>1, TemplateFacts DEF NodeSetFields
<1> QED
  BY <1>1, <1>3, <1>4, <1>5
\* What WithNodeSets makes of a message, before the maps are put in order.
SetNodeSets(m) ==
    [p \in Paths |->
        IF InNodeSet(p)
        THEN LET set == TemplateNodeSets[p[3]]
             IN  IF Len(p) = 3 THEN Present
                 ELSE IF Last(p) = "host_class" THEN set.host_class
                 ELSE IF m[p] = Absent THEN set.size
                 ELSE m[p]
        ELSE m[p]]

LEMMA NodeSetsTyped ==
    ASSUME contents \in Templates, NEW m \in AnyMessage
    PROVE  /\ SetNodeSets(m) \in AnyMessage
           /\ WithNodeSets(m) = Normal(SetNodeSets(m)) /\ WithNodeSets(m) \in AnyMessage
<1> DEFINE raw == SetNodeSets(m)
<1>1. ASSUME NEW p \in Paths
      PROVE  raw[p] \in Values
  <2>1. CASE ~InNodeSet(p)
    BY <2>1 DEF AnyMessage, SetNodeSets
  <2>2. CASE InNodeSet(p)
    <3>1. PICK n \in DOMAIN TemplateNodeSets :
              p \in {NodeSetPath(n), Append(NodeSetPath(n), "host_class"),
                     Append(NodeSetPath(n), "size")}
      BY <2>2, NodeSetParts
    <3>2. /\ TemplateNodeSets[n].host_class \in Values
          /\ TemplateNodeSets[n].size \in Values
          /\ Present \in Values /\ m[p] \in Values
      BY TemplateFacts, PathsAssumption DEF AnyMessage
    <3>3. CASE p = NodeSetPath(n)
      <4>1. Len(p) = 3
        BY <3>3, NodeSetPaths
      <4>2. raw[p] = Present
        BY <2>2, <4>1 DEF SetNodeSets
      <4> QED
        BY <3>2, <4>2
    <3>4. CASE p # NodeSetPath(n)
      <4>1. Len(p) = 4 /\ p[3] = n
        BY <3>1, <3>4, NodeSetPaths
      <4>2. raw[p] \in {TemplateNodeSets[n].host_class, TemplateNodeSets[n].size, m[p]}
        BY <2>2, <4>1 DEF SetNodeSets
      <4> QED
        BY <3>2, <4>2
    <3> QED
      BY <3>3, <3>4
  <2> QED
    BY <2>1, <2>2
<1>2. raw \in AnyMessage
  BY <1>1 DEF AnyMessage, SetNodeSets
<1>3. WithNodeSets(m) = Normal(raw)
  BY DEF WithNodeSets, SetNodeSets, InNodeSet
<1> QED
  BY <1>2, <1>3, NormalTyped

\* What WithDefaults makes of a message, before the maps are put in order.
SetDefaults(m) ==
    [p \in Paths |->
        IF p \in Entries /\ Front(p) = ParametersPath /\ m[p] = Absent
           /\ Last(p) \in DOMAIN Defaults
        THEN Defaults[Last(p)] ELSE m[p]]

LEMMA DefaultsTyped ==
    ASSUME contents \in Templates, NEW m \in AnyMessage
    PROVE  /\ SetDefaults(m) \in AnyMessage
           /\ WithDefaults(m) = Normal(SetDefaults(m)) /\ WithDefaults(m) \in AnyMessage
<1>1. SetDefaults(m) \in AnyMessage
  BY TemplateFacts DEF AnyMessage, SetDefaults
<1>2. WithDefaults(m) = Normal(SetDefaults(m))
  BY DEF WithDefaults, SetDefaults
<1> QED
  BY <1>1, <1>2, NormalTyped

\* The template has nothing to do with the other fields.
LEMMA TemplateKeepsPlain ==
    ASSUME NEW m \in AnyMessage, NEW p \in Plain
    PROVE  WithDefaults(m)[p] = m[p] /\ WithNodeSets(m)[p] = m[p]
<1>1. p \in Paths
  BY PlainPaths
<1>2. p \notin MapFields /\ \A e \in Entries : ~Under(e, p)
  BY PlainOutsideMaps
<1>3. p \notin Entries
  BY <1>1, <1>2, UnderItself, PathTyped
<1> QED
  BY <1>1, <1>2, <1>3 DEF WithDefaults, WithNodeSets, Normal

LEMMA CreatedTyped ==
    ASSUME contents \in Templates, NEW m \in AnyMessage, kind \in KindsOfObjects
    PROVE  Created(m) \in AnyMessage
<1>1. WithDefaults(m) \in AnyMessage /\ WithDefaults(WithNodeSets(m)) \in AnyMessage
  BY NodeSetsTyped, DefaultsTyped
<1> QED
  BY <1>1 DEF Created, KindsOfObjects

----------------------------------------------------------------------------
(* Rows *)

LEMMA DataMessages == Data = AnyMessage
  BY ServerAssumption DEF Data, AnyMessage

\* There are no secrets in these objects: the events tell everything.
LEMMA NoSecrets ==
    ASSUME NEW row \in Row
    PROVE  Announced(row) = row
<1>1. row.data = [f \in Fields |-> row.data[f]]
  BY DEF Row, Data
<1>2. [f \in Fields |-> IF f \in Secrets THEN Unset ELSE row.data[f]]
        = [f \in Fields |-> row.data[f]]
  BY ServerAssumption
<1>3. Announced(row) = [row EXCEPT !.data = row.data]
  BY <1>1, <1>2 DEF Announced
<1> QED
  BY <1>3 DEF Row

LEMMA DataTyped ==
    ASSUME NEW m \in AnyMessage
    PROVE  /\ DataOf(m) \in Data
           /\ \A p \in Paths \ {MetadataPath, FinalizersPath} : DataOf(m)[p] = m[p]
           /\ DataOf(m)[MetadataPath] = Absent /\ DataOf(m)[FinalizersPath] = Absent
<1>1. MetadataPath \in Paths /\ FinalizersPath \in Paths /\ Absent \in Values
  BY PlainPaths, PathsAssumption DEF Plain
<1> QED
  BY <1>1, DataMessages DEF AnyMessage, DataOf

LEMMA MessageTyped ==
    ASSUME NEW row \in Row
    PROVE  /\ MessageOf(row) \in AnyMessage
           /\ \A p \in Paths \ {MetadataPath, FinalizersPath} : MessageOf(row)[p] = row.data[p]
           /\ MessageOf(row)[MetadataPath] = Present
           /\ MessageOf(row)[FinalizersPath] \in Finalizers \union {Absent}
<1>1. MetadataPath \in Paths /\ FinalizersPath \in Paths /\ {Absent, Present} \subseteq Values
  BY PlainPaths, PathsAssumption DEF Plain
<1>2. row.data \in AnyMessage /\ row.finalizers \subseteq Finalizers
  BY DataMessages DEF Row
<1> DEFINE f == IF row.finalizers = {} THEN Absent ELSE CHOOSE f \in row.finalizers : TRUE
<1>3. f \in Finalizers \union {Absent}
  BY <1>2
<1>4. f \in Values
  BY <1>1, <1>3, ServerAssumption
<1>5. MetadataPath # FinalizersPath
  BY LengthsDiffer DEF Leaves
<1>6. MessageOf(row) = [[row.data EXCEPT ![MetadataPath] = Present] EXCEPT ![FinalizersPath] = f]
  BY DEF MessageOf
<1> HIDE DEF f
<1> QED
  BY <1>1, <1>2, <1>3, <1>4, <1>5, <1>6 DEF AnyMessage

(***************************************************************************)
(* The messages whose field p has one of some values, or none.             *)
(***************************************************************************)
Having(p, V) == {m \in AnyMessage : m[p] \in V}

LEMMA UpdateHaving ==
    ASSUME contents \in Templates, NEW p \in Leaves, NEW V, Absent \in V,
           NEW row \in Row, MessageOf(row)[p] \in V,
           NEW object \in Having(p, V), NEW mask \in Seq(Paths) \union {NoMask}
    PROVE  Masked(MessageOf(row), mask, Updated(object)) \in Having(p, V)
<1>1. MessageOf(row) \in Having(p, V)
  BY MessageTyped DEF Having
<1>2. Updated(object) \in Having(p, V)
  <2>1. object \in AnyMessage /\ object[p] \in V /\ p \in Plain
    BY DEF Having, Leaves, Plain
  <2> QED
    BY <2>1, DefaultsTyped, TemplateKeepsPlain DEF Having, Updated
<1>3. ASSUME NEW x \in Having(p, V), NEW path \in Paths
      PROVE  PathUpdate(x, path, Updated(object)) \in Having(p, V)
  BY <1>2, <1>3, UpdateStepTyped, LeafUpdate DEF Having
<1> QED
  BY <1>1, <1>2, <1>3, MaskedStays
----------------------------------------------------------------------------
(* The servers implement the store. *)

MaskType == Seq(Paths) \union {NoMask}

KnownFinalizers == Finalizers \union {Absent}

Call == [id      : Ids,
         object  : Having(FinalizersPath, KnownFinalizers),
         mask    : MaskType,
         request : AnyMessage,
         read    : AnyMessage]

(***************************************************************************)
(* What the public servers remember, and send to the private ones, are     *)
(* messages, with a finalizer that the private ones know.                  *)
(***************************************************************************)
ServerTypeOK ==
    /\ kind \in KindsOfObjects
    /\ contents \in Templates
    /\ calls \in [Callers -> Call \union {NoCall}]

\* What the private server does with a request.
UpdateResult(id, object, mask) == Masked(MessageOf(table[id]), mask, Updated(object))

LEMMA PrivateUpdateStep ==
    ASSUME contents \in Templates, TypeOK, NEW id \in Ids, NEW mask \in MaskType,
           NEW object \in Having(FinalizersPath, KnownFinalizers),
           PrivateUpdate(id, object, mask)
    PROVE  \/ UNCHANGED vars
           \/ /\ table[id] \in Row
              /\ UpdateResult(id, object, mask) \in Having(FinalizersPath, KnownFinalizers)
              /\ UpdateResult(id, object, mask) # MessageOf(table[id])
              /\ Update(id, FinalizersOf(UpdateResult(id, object, mask)),
                        DataOf(UpdateResult(id, object, mask)))
<1> DEFINE new == UpdateResult(id, object, mask)
<1>1. \/ UNCHANGED vars
      \/ /\ table[id] # NoRow /\ new # MessageOf(table[id])
         /\ Update(id, FinalizersOf(new), DataOf(new))
  BY DEF PrivateUpdate, UpdateResult, vars, store
<1>2. ASSUME table[id] # NoRow
      PROVE  table[id] \in Row /\ new \in Having(FinalizersPath, KnownFinalizers)
  <2>1. table[id] \in Row
    BY <1>2 DEF TypeOK
  <2>2. /\ MessageOf(table[id])[FinalizersPath] \in KnownFinalizers
        /\ Absent \in KnownFinalizers /\ FinalizersPath \in Leaves
    BY <2>1, MessageTyped DEF KnownFinalizers, Leaves
  <2> QED
    BY <2>1, <2>2, UpdateHaving DEF UpdateResult, MaskType
<1> QED
  BY <1>1, <1>2

LEMMA ResultTyped ==
    ASSUME NEW m \in Having(FinalizersPath, KnownFinalizers)
    PROVE  FinalizersOf(m) \in SUBSET Finalizers /\ DataOf(m) \in Data
<1>1. m \in AnyMessage /\ m[FinalizersPath] \in Finalizers \union {Absent}
  BY DEF Having, KnownFinalizers
<1> QED
  BY <1>1, DataTyped DEF FinalizersOf

LEMMA PrivateUpdateNext ==
    ASSUME contents \in Templates, TypeOK, NEW id \in Ids, NEW mask \in MaskType,
           NEW object \in Having(FinalizersPath, KnownFinalizers),
           PrivateUpdate(id, object, mask)
    PROVE  [Next]_vars
  BY PrivateUpdateStep, ResultTyped DEF Next

\* What a user can send: nothing of what only the private form has.
LEMMA PublicTyped ==
    ASSUME TypeOK
    PROVE  /\ \A m \in PublicMessages : m \in AnyMessage /\ m[FinalizersPath] = Absent
           /\ \A id \in Ids : table[id] # NoRow =>
                  /\ CopyOut(MessageOf(table[id])) \in AnyMessage
                  /\ CopyOut(MessageOf(table[id]))[FinalizersPath] = Absent
<1>1. FinalizersPath \in HiddenPaths
  BY ServerAssumption
<1>2. ASSUME NEW id \in Ids, table[id] # NoRow
      PROVE  /\ CopyOut(MessageOf(table[id])) \in AnyMessage
             /\ CopyOut(MessageOf(table[id]))[FinalizersPath] = Absent
  <2>1. table[id] \in Row
    BY <1>2 DEF TypeOK
  <2> QED
    BY <1>1, <2>1, MessageTyped, CopyOutTyped
<1> QED
  BY <1>1, <1>2, ServerAssumption

\* What the public servers read, and what they copy the request into.
Current(id) == IF table[id] = NoRow THEN Empty ELSE MessageOf(table[id])

Target(id) == IF kind = "host pool" THEN Empty ELSE Current(id)

LEMMA CurrentTyped ==
    ASSUME TypeOK, NEW id \in Ids
    PROVE  /\ Current(id) \in AnyMessage /\ Current(id)[FinalizersPath] \in KnownFinalizers
           /\ Target(id) \in AnyMessage /\ Target(id)[FinalizersPath] \in KnownFinalizers
<1>1. table[id] = NoRow \/ table[id] \in Row
  BY DEF TypeOK
<1>2. Empty \in AnyMessage /\ Empty[FinalizersPath] \in KnownFinalizers
  BY EmptyTyped, PlainPaths DEF KnownFinalizers, Empty, Plain
<1> QED
  BY <1>1, <1>2, MessageTyped DEF Current, Target, KnownFinalizers

CallOf(id, m, mask) ==
    [id |-> id, object |-> Copy(m, Target(id), Ignored),
     mask |-> IF kind = "virtual machine" THEN NoMask ELSE mask,
     request |-> m, read |-> Current(id)]

LEMMA CallTyped ==
    ASSUME TypeOK, NEW id \in Ids, NEW mask \in Masks,
           NEW m \in AnyMessage, m[FinalizersPath] = Absent
    PROVE  CallOf(id, m, mask) \in Call
<1> DEFINE object == Copy(m, Target(id), Ignored)
           given == IF kind = "virtual machine" THEN NoMask ELSE mask
<1>1. Current(id) \in AnyMessage /\ Target(id) \in AnyMessage
      /\ Target(id)[FinalizersPath] \in KnownFinalizers
  BY CurrentTyped
<1>2. FinalizersPath \in Paths
  BY PlainPaths DEF Plain
<1>3. object \in AnyMessage /\ object[FinalizersPath] \in KnownFinalizers
  BY <1>1, <1>2, CopyTyped DEF Copy, KnownFinalizers
<1>4. given \in MaskType
  BY ServerAssumption DEF MaskType
<1>5. CallOf(id, m, mask) = [id |-> id, object |-> object, mask |-> given,
                            request |-> m, read |-> Current(id)]
  BY DEF CallOf
<1> HIDE DEF object, given
<1> QED
  BY <1>1, <1>3, <1>4, <1>5 DEF Call, Having

LEMMA ReadTyped ==
    ASSUME TypeOK, ServerTypeOK, NEW c \in Callers, NEW id \in Ids, NEW mask \in Masks,
           NEW m \in AnyMessage, m[FinalizersPath] = Absent, ReadPublic(c, id, m, mask)
    PROVE  /\ ServerTypeOK'
           /\ calls' = [calls EXCEPT ![c] = CallOf(id, m, mask)]
<1>1. CallOf(id, m, mask) \in Call
  BY CallTyped
<1>2. calls' = [calls EXCEPT ![c] = CallOf(id, m, mask)]
  BY DEF ReadPublic, CallOf, Current, Target
<1>3. kind' = kind /\ contents' = contents
  BY DEF ReadPublic
<1> QED
  BY <1>1, <1>2, <1>3 DEF ServerTypeOK

(***************************************************************************)
(* What the controller makes of an object.                                 *)
(***************************************************************************)
LEMMA SetObjectTyped ==
    ASSUME NEW row \in Row
    PROVE  LET object == [MessageOf(row) EXCEPT ![StatusPath] = Present,
                                                ![StatePath] = Ready, ![HubPath] = Hub]
           IN  /\ object \in Having(FinalizersPath, KnownFinalizers)
               /\ object[StatePath] = Ready
<1> DEFINE m == MessageOf(row)
           object == [m EXCEPT ![StatusPath] = Present, ![StatePath] = Ready,
                               ![HubPath] = Hub]
<1>1. m \in AnyMessage /\ m[FinalizersPath] \in KnownFinalizers
  BY MessageTyped DEF KnownFinalizers
<1> HIDE DEF m
<1>2. {Present, Ready, Hub} \subseteq Values
  BY PathsAssumption, ServerAssumption
<1>3. object = [[[m EXCEPT ![StatusPath] = Present] EXCEPT ![StatePath] = Ready]
                   EXCEPT ![HubPath] = Hub]
  OBVIOUS
<1>4. object \in AnyMessage
  BY <1>1, <1>2, <1>3 DEF AnyMessage
<1>5. /\ FinalizersPath # StatusPath /\ StatePath # StatusPath
      /\ FinalizersPath # StatePath /\ FinalizersPath # HubPath /\ StatePath # HubPath
      /\ {FinalizersPath, StatePath} \subseteq Paths
  BY LengthsDiffer, FieldsDiffer, PlainPaths DEF Leaves, Plain
<1>6. object[FinalizersPath] = m[FinalizersPath] /\ object[StatePath] = Ready
  BY <1>1, <1>3, <1>5 DEF AnyMessage
<1> QED
  BY <1>1, <1>4, <1>6 DEF Having, m

(***************************************************************************)
(* Every step of the servers is a step of the store, or leaves it as it    *)
(* is.                                                                     *)
(***************************************************************************)
LEMMA ServerStep ==
    ASSUME contents \in Templates, TypeOK, ServerTypeOK, [ServerNext]_serverVars
    PROVE  [Next]_vars /\ ServerTypeOK'
<1>1. CASE UNCHANGED serverVars
  BY <1>1 DEF serverVars, store, vars, ServerTypeOK
<1>2. ASSUME NEW id \in Ids, NEW stamp \in Stamps, NEW m \in PublicMessages,
             ServerCreate(id, stamp, m)
      PROVE  [Next]_vars /\ ServerTypeOK'
  <2>1. PICK finalizers \in SUBSET Finalizers :
            Create(id, stamp, finalizers, {},
                   DataOf(Created(Copy(m, Empty, IF finalizers = {} THEN Ignored
                                                 ELSE {StatusPath}))))
    BY <1>2 DEF ServerCreate
  <2> DEFINE object == Copy(m, Empty, IF finalizers = {} THEN Ignored ELSE {StatusPath})
  <2>2. object \in AnyMessage
    BY PublicTyped, EmptyTyped, CopyTyped
  <2> HIDE DEF object
  <2>3. DataOf(Created(object)) \in Data
    BY <2>2, CreatedTyped, DataTyped DEF ServerTypeOK
  <2>4. Create(id, stamp, finalizers, {}, DataOf(Created(object)))
    BY <2>1 DEF object
  <2>5. Next
    BY <2>3, <2>4 DEF Next
  <2> QED
    BY <1>2, <2>5 DEF ServerCreate, ServerTypeOK
<1>3. ASSUME NEW c \in Callers, NEW id \in Ids, NEW mask \in Masks,
             NEW m \in PublicMessages, ReadPublic(c, id, m, mask)
      PROVE  [Next]_vars /\ ServerTypeOK'
  <2>1. ServerTypeOK'
    BY <1>3, PublicTyped, ReadTyped
  <2> QED
    BY <1>3, <2>1 DEF ReadPublic, store, vars
<1>4. ASSUME NEW c \in Callers, NEW id \in Ids, NEW mask \in Masks, table[id] # NoRow,
             ReadPublic(c, id, CopyOut(MessageOf(table[id])), mask)
      PROVE  [Next]_vars /\ ServerTypeOK'
  <2>1. ServerTypeOK'
    BY <1>4, PublicTyped, ReadTyped
  <2> QED
    BY <1>4, <2>1 DEF ReadPublic, store, vars
<1>5. ASSUME NEW c \in Callers, WritePublic(c)
      PROVE  [Next]_vars /\ ServerTypeOK'
  <2>1. calls[c] \in Call
    BY <1>5 DEF WritePublic, ServerTypeOK
  <2>2. PrivateUpdate(calls[c].id, calls[c].object, calls[c].mask)
    BY <1>5 DEF WritePublic
  <2>3. [Next]_vars
    BY <2>1, <2>2, PrivateUpdateNext DEF Call
  <2>4. calls' = [calls EXCEPT ![c] = NoCall] /\ kind' = kind /\ contents' = contents
    BY <1>5 DEF WritePublic
  <2> QED
    BY <2>3, <2>4 DEF ServerTypeOK
<1>6. ASSUME NEW id \in Ids, SetStatus(id)
      PROVE  [Next]_vars /\ ServerTypeOK'
  <2> DEFINE object == [MessageOf(table[id]) EXCEPT ![StatusPath] = Present,
                                                   ![StatePath] = Ready, ![HubPath] = Hub]
  <2>1. table[id] \in Row
    BY <1>6 DEF SetStatus, TypeOK
  <2>2. object \in Having(FinalizersPath, KnownFinalizers)
    BY <2>1, SetObjectTyped
  <2> HIDE DEF object
  <2>3. PrivateUpdate(id, object, NoMask)
    BY <1>6 DEF SetStatus, object
  <2>4. [Next]_vars
    BY <2>2, <2>3, PrivateUpdateNext DEF MaskType
  <2> QED
    BY <1>6, <2>4 DEF SetStatus, ServerTypeOK
<1>7. ASSUME NEW id \in Ids, ServerDelete(id)
      PROVE  [Next]_vars /\ ServerTypeOK'
  BY <1>7 DEF ServerDelete, Next, ServerTypeOK
<1>8. ASSUME ChangeTemplate
      PROVE  [Next]_vars /\ ServerTypeOK'
  BY <1>8 DEF ChangeTemplate, store, vars, ServerTypeOK
<1> QED
  BY <1>1, <1>2, <1>3, <1>4, <1>5, <1>6, <1>7, <1>8 DEF ServerNext

LEMMA ServerInitStore == ServerInit => Init /\ ServerTypeOK
  BY ServerAssumption DEF ServerInit, ServerTypeOK

LEMMA ServersTyped == ServerSpec => [](IInv /\ TypeOK /\ ServerTypeOK)
<1>1. IInv => TypeOK
  BY DEF IInv
<1>2. ServerInit => IInv /\ ServerTypeOK
  BY ServerInitStore, InitIInv
<1>3. IInv /\ ServerTypeOK /\ [ServerNext]_serverVars => IInv' /\ ServerTypeOK'
  <2>1. ServerTypeOK => contents \in Templates
    BY DEF ServerTypeOK
  <2> QED
    BY <1>1, <2>1, ServerStep, NextIInv
<1> QED
  BY <1>1, <1>2, <1>3, PTL DEF ServerSpec

(***************************************************************************)
(* The servers implement the store, and so everything that the store       *)
(* promises holds of them: whatever the mappers, the masks and the         *)
(* templates make of what users send (GenericServer, GenericMapper).       *)
(***************************************************************************)
THEOREM ServersImplementStore == ServerSpec => Spec /\ []IInv
<1>1. TypeOK /\ ServerTypeOK /\ [ServerNext]_serverVars => [Next]_vars
  BY ServerStep DEF ServerTypeOK
<1>2. ServerInit => Init
  BY ServerInitStore
<1> QED
  BY <1>1, <1>2, ServersTyped, PTL DEF ServerSpec, Spec
----------------------------------------------------------------------------
(* What is written *)

LEMMA Announces ==
    ASSUME TypeOK, NEW type \in EventTypes, NEW id \in Ids, NEW row \in Row,
           Apply(type, id, row)
    PROVE  log' # log /\ Last(log').type = type /\ Last(log').row = row
<1> DEFINE e == [type |-> type, id |-> id, row |-> row]
<1>1. e \in Event /\ e.type = type /\ e.row = row
  BY DEF Event
<1>2. log \in Seq(Event) /\ log' = Append(log, e)
  BY NoSecrets DEF TypeOK, Apply
<1> HIDE DEF e
<1>3. Len(log') # Len(log) /\ log'[Len(log')] = e
  BY <1>1, <1>2
<1> QED
  BY <1>1, <1>3 DEF Last

\* What an update of the private server writes, if it changes something.
Rewritten(id, m) == [table[id] EXCEPT !.finalizers = FinalizersOf(m), !.data = DataOf(m)]

LEMMA PrivateUpdateWrites ==
    ASSUME contents \in Templates, TypeOK, NEW id \in Ids, NEW mask \in MaskType,
           NEW object \in Having(FinalizersPath, KnownFinalizers),
           PrivateUpdate(id, object, mask), log' # log
    PROVE  LET new == UpdateResult(id, object, mask)
           IN  /\ table[id] \in Row /\ table[id] # NoRow /\ UpdateAccepted(object)
               /\ new \in Having(FinalizersPath, KnownFinalizers)
               /\ new # MessageOf(table[id])
               /\ Rewritten(id, new) \in Row /\ Apply("updated", id, Rewritten(id, new))
               /\ Last(log').type = "updated" /\ Last(log').row = Rewritten(id, new)
<1> DEFINE new == UpdateResult(id, object, mask)
<1>1. ~UNCHANGED vars /\ UpdateAccepted(object)
  BY DEF vars, PrivateUpdate, store
<1>2. /\ table[id] \in Row /\ new \in Having(FinalizersPath, KnownFinalizers)
      /\ new # MessageOf(table[id])
      /\ Update(id, FinalizersOf(new), DataOf(new))
  BY <1>1, PrivateUpdateStep
<1> HIDE DEF new
<1>3. Rewritten(id, new) \in Row
  BY <1>2, ResultTyped DEF Rewritten, Row
<1>4. table[id] # NoRow /\ Apply("updated", id, Rewritten(id, new))
  BY <1>2 DEF Update, Rewritten
<1>5. Last(log').type = "updated" /\ Last(log').row = Rewritten(id, new)
  BY <1>3, <1>4, Announces DEF EventTypes
<1> QED
  BY <1>1, <1>2, <1>3, <1>4, <1>5 DEF new

\* What is written is what is read from the row afterwards.
LEMMA WrittenRead ==
    ASSUME NEW id \in Ids, table[id] \in Row,
           NEW m \in Having(FinalizersPath, KnownFinalizers), NEW p \in Paths \ {MetadataPath}
    PROVE  MessageOf(Rewritten(id, m))[p] = m[p]
<1> DEFINE new == Rewritten(id, m)
<1>1. new \in Row /\ new.finalizers = FinalizersOf(m) /\ new.data = DataOf(m)
  BY ResultTyped DEF Row, Rewritten
<1> HIDE DEF new
<1>2. m \in AnyMessage
  BY DEF Having
<1>3. CASE p # FinalizersPath
  <2>1. MessageOf(new)[p] = m[p]
    BY <1>1, <1>2, <1>3, MessageTyped, DataTyped
  <2> QED
    BY <2>1 DEF new
<1>4. CASE p = FinalizersPath
  <2>1. new.data \in AnyMessage /\ {MetadataPath, FinalizersPath} \subseteq Paths
    BY <1>1, <1>2, DataTyped, DataMessages, PlainPaths DEF Plain
  <2>2. MessageOf(new) = [[new.data EXCEPT ![MetadataPath] = Present]
                             EXCEPT ![FinalizersPath] =
                                 IF new.finalizers = {} THEN Absent
                                 ELSE CHOOSE f \in new.finalizers : TRUE]
    BY DEF MessageOf
  <2>3. MessageOf(new)[FinalizersPath] = IF new.finalizers = {} THEN Absent
                                         ELSE CHOOSE f \in new.finalizers : TRUE
    BY <2>1, <2>2 DEF AnyMessage
  <2>4. m[FinalizersPath] # Absent => (CHOOSE f \in {m[FinalizersPath]} : TRUE) = m[FinalizersPath]
    OBVIOUS
  <2>5. m[FinalizersPath] # Absent => FinalizersOf(m) = {m[FinalizersPath]}
    BY DEF FinalizersOf
  <2>6. m[FinalizersPath] = Absent => FinalizersOf(m) = {}
    BY DEF FinalizersOf
  <2>7. MessageOf(new)[FinalizersPath] = m[FinalizersPath]
    BY <1>1, <2>3, <2>4, <2>5, <2>6
  <2> QED
    BY <1>4, <2>7 DEF new
<1> QED
  BY <1>3, <1>4

\* A call ends when the private server has answered.
LEMMA OnlyWriteEnds ==
    ASSUME ServerTypeOK, [ServerNext]_serverVars,
           NEW c \in Callers, calls[c] # NoCall, calls'[c] = NoCall
    PROVE  WritePublic(c)
<1>1. \A x \in Callers : WritePublic(x) => x = c
  BY DEF WritePublic, ServerTypeOK
<1>2. \A x \in Callers : \A id, m, mask : ReadPublic(x, id, m, mask) => x # c
  BY DEF ReadPublic
<1>3. \A x \in Callers : \A id, m, mask : ReadPublic(x, id, m, mask) => calls'[c] = calls[c]
  BY <1>2 DEF ReadPublic, ServerTypeOK
<1>4. calls' # calls
  OBVIOUS
<1> QED
  BY <1>1, <1>3, <1>4 DEF ServerNext, ServerCreate, SetStatus, ServerDelete,
                          ChangeTemplate, serverVars

\* What a public update that changes something writes.
LEMMA UserWritesResult ==
    ASSUME TypeOK, ServerTypeOK, [ServerNext]_serverVars, NEW c \in Callers, UserWrites(c)
    PROVE  LET call == calls[c]
               new == UpdateResult(call.id, call.object, call.mask)
           IN  /\ call \in Call /\ call.id \in Ids /\ call.object \in AnyMessage
               /\ table[call.id] \in Row /\ table[call.id] # NoRow
               /\ new \in AnyMessage /\ new # MessageOf(table[call.id])
               /\ UpdateAccepted(call.object)
               /\ Last(log').type = "updated" /\ Last(log').row \in Row
               /\ \A p \in Paths \ {MetadataPath} : Written[p] = new[p]
<1> DEFINE call == calls[c]
           new == UpdateResult(call.id, call.object, call.mask)
<1>1. WritePublic(c)
  BY OnlyWriteEnds DEF UserWrites
<1>2. /\ call \in Call /\ call.id \in Ids /\ call.mask \in MaskType
      /\ call.object \in Having(FinalizersPath, KnownFinalizers)
      /\ contents \in Templates /\ log' # log
  BY DEF ServerTypeOK, UserWrites, Call
<1>3. PrivateUpdate(call.id, call.object, call.mask)
  BY <1>1 DEF WritePublic
<1> HIDE DEF call
<1>4. /\ table[call.id] \in Row /\ table[call.id] # NoRow /\ UpdateAccepted(call.object)
      /\ new \in Having(FinalizersPath, KnownFinalizers)
      /\ new # MessageOf(table[call.id]) /\ Rewritten(call.id, new) \in Row
      /\ Last(log').type = "updated" /\ Last(log').row = Rewritten(call.id, new)
  BY <1>2, <1>3, PrivateUpdateWrites
<1> HIDE DEF new
<1>5. \A p \in Paths \ {MetadataPath} : Written[p] = new[p]
  BY <1>2, <1>4, WrittenRead DEF Written
<1> QED
  BY <1>2, <1>4, <1>5 DEF call, new, Having

----------------------------------------------------------------------------
(* What follows a template *)

LEMMA NormalTwice ==
    ASSUME NEW m \in AnyMessage
    PROVE  Normal(Normal(m)) = Normal(m)
<1>1. \A p \in Paths \ MapFields : Normal(m)[p] = m[p]
  BY DEF Normal
<1>2. \A e \in Entries : e \in Paths \ MapFields
  BY PathsAssumption DEF Entries
<1>3. \A p \in Paths : Normal(Normal(m))[p] = Normal(m)[p]
  BY <1>1, <1>2 DEF Normal
<1>4. Normal(Normal(m)) = [p \in Paths |-> Normal(Normal(m))[p]]
  BY DEF Normal
<1>5. Normal(m) = [p \in Paths |-> Normal(m)[p]]
  BY DEF Normal
<1> QED
  BY <1>3, <1>4, <1>5, Zenon

(***************************************************************************)
(* Putting the maps in order makes a message of the values of fields, if   *)
(* what encloses them is there.                                            *)
(***************************************************************************)
LEMMA NormalWellFormed ==
    ASSUME NEW m \in AnyMessage,
           \A p \in Paths :
               (Len(p) > 1 /\ Front(p) \notin MapFields) => m[Front(p)] \in {Absent, Present},
           \A p \in Paths \ MapFields :
               (m[p] # Absent /\ Len(p) > 1 /\ Front(p) \notin MapFields)
                   => m[Front(p)] # Absent,
           \A e \in Entries :
               (m[e] # Absent /\ Len(Front(e)) > 1) => m[Front(Front(e))] # Absent
    PROVE  WellFormed(Normal(m))
<1>1. \A p \in Paths \ MapFields : Normal(m)[p] = m[p]
  BY DEF Normal
<1>2. \A p \in MapFields :
          Normal(m)[p] # Absent <=> \E e \in Entries : Front(e) = p /\ m[e] # Absent
  BY PathsAssumption DEF Normal
<1>3. ASSUME NEW p \in Paths, Normal(m)[p] # Absent, Len(p) > 1
      PROVE  Normal(m)[Front(p)] # Absent
  <2>1. Front(p) \in Paths
    BY <1>3, PathsAssumption
  <2>2. CASE p \in MapFields
    <3>1. PICK e \in Entries : Front(e) = p /\ m[e] # Absent
      BY <1>2, <1>3, <2>2
    <3>2. Front(p) \notin MapFields
      BY <1>3, <2>2, PathsAssumption DEF Entries
    <3>3. m[Front(p)] # Absent
      BY <1>3, <3>1
    <3> QED
      BY <1>1, <2>1, <3>2, <3>3
  <2>3. CASE p \notin MapFields
    <3>1. m[p] # Absent
      BY <1>1, <1>3, <2>3
    <3>2. CASE Front(p) \in MapFields
      <4>1. p \in Entries
        BY <1>3, <3>2 DEF Entries
      <4> QED
        BY <1>2, <3>1, <3>2, <4>1
    <3>3. CASE Front(p) \notin MapFields
      BY <1>1, <1>3, <2>1, <2>3, <3>1, <3>3
    <3> QED
      BY <3>2, <3>3
  <2> QED
    BY <2>2, <2>3
<1>4. ASSUME NEW p \in Paths, Len(p) > 1
      PROVE  Normal(m)[Front(p)] \in {Absent, Present}
  <2>1. Front(p) \in Paths
    BY <1>4, PathsAssumption
  <2>2. CASE Front(p) \in MapFields
    BY <2>1, <2>2 DEF Normal
  <2>3. CASE Front(p) \notin MapFields
    <3>1. Normal(m)[Front(p)] = m[Front(p)]
      BY <1>1, <2>1, <2>3
    <3> QED
      BY <1>4, <2>3, <3>1
  <2> QED
    BY <2>2, <2>3
<1>5. \A p \in Paths : Len(p) > 1 =>
          /\ Normal(m)[Front(p)] \in {Absent, Present}
          /\ Normal(m)[p] # Absent => Normal(m)[Front(p)] = Present
  BY <1>3, <1>4
<1> QED
  BY <1>5, NormalTwice DEF WellFormed

\* What encloses something that is there is there.
LEMMA FrontPresent ==
    ASSUME NEW m \in AnyMessage, WellFormed(m), NEW p \in Paths, Len(p) > 1
    PROVE  /\ Front(p) \in Paths
           /\ m[Front(p)] \in {Absent, Present}
           /\ m[p] # Absent => m[Front(p)] = Present /\ m[Front(p)] # Absent
  BY PathsAssumption DEF WellFormed

(***************************************************************************)
(* The copy of a message into another is a message.                        *)
(***************************************************************************)
LEMMA CopyWellFormed ==
    ASSUME NEW from \in AnyMessage, WellFormed(from), NEW to \in AnyMessage, WellFormed(to),
           NEW ignored \in SUBSET Plain
    PROVE  WellFormed(Copy(from, to, ignored))
<1> DEFINE m == Copy(from, to, ignored)
<1>1. \A p \in Paths : m[p] = IF Kept(p, from, ignored) THEN to[p] ELSE from[p]
  BY DEF Copy
<1>2. m = [p \in Paths |-> m[p]]
  BY DEF Copy
<1> HIDE DEF m
<1>3. HiddenPaths \subseteq Leaves /\ HiddenPaths \subseteq Plain
  BY ServerAssumption DEF Leaves, Plain
<1>4. ASSUME NEW p \in Paths, NEW q \in Paths, Under(q, p), Kept(q, from, ignored)
      PROVE  Kept(p, from, ignored)
  <2>1. PICK r \in Paths :
            /\ Under(r, q)
            /\ \A s \in Paths : StrictlyUnder(s, r) => from[s] # Absent /\ s \notin ignored
            /\ r \in HiddenPaths \union ignored \/ (r \in Entries /\ from[r] = Absent)
    BY <1>4 DEF Kept
  <2>2. Under(r, p)
    BY <1>4, <2>1, UnderUnder, PathTyped
  <2> QED
    BY <2>1, <2>2 DEF Kept
\* Of what encloses a field that is kept and comes first, nothing is kept.
<1>5. ASSUME NEW p \in Paths, Len(p) > 1, Kept(p, from, ignored),
             ~Kept(Front(p), from, ignored)
      PROVE  /\ from[Front(p)] # Absent
             /\ p \in HiddenPaths \union ignored \/ (p \in Entries /\ from[p] = Absent)
  <2>1. PICK q \in Paths :
            /\ Under(q, p)
            /\ \A s \in Paths : StrictlyUnder(s, q) => from[s] # Absent /\ s \notin ignored
            /\ q \in HiddenPaths \union ignored \/ (q \in Entries /\ from[q] = Absent)
    BY <1>5 DEF Kept
  <2>2. Front(p) \in Paths /\ StrictlyUnder(Front(p), p)
    BY <1>5, PathsAssumption, PathTyped, FrontProperties
  <2>3. q = p
    <3> SUFFICES ASSUME q # p
                 PROVE  FALSE
      OBVIOUS
    <3>1. Under(q, Front(p))
      BY <2>1, UnderFront, PathTyped DEF StrictlyUnder
    <3> QED
      BY <1>5, <2>1, <2>2, <3>1 DEF Kept
  <2> QED
    BY <2>1, <2>2, <2>3
<1>6. ASSUME NEW p \in Paths, Len(p) > 1
      PROVE  /\ m[Front(p)] \in {Absent, Present}
             /\ m[p] # Absent => m[Front(p)] = Present
  <2>1. /\ Front(p) \in Paths /\ Under(Front(p), p)
        /\ from[Front(p)] \in {Absent, Present} /\ to[Front(p)] \in {Absent, Present}
        /\ from[p] # Absent => from[Front(p)] = Present
        /\ to[p] # Absent => to[Front(p)] = Present
    BY <1>6, FrontPresent, PathTyped, FrontProperties DEF StrictlyUnder
  <2>2. CASE Kept(Front(p), from, ignored)
    BY <1>1, <1>4, <2>1, <2>2
  <2>3. CASE ~Kept(Front(p), from, ignored)
    BY <1>1, <1>5, <1>6, <2>1, <2>3
  <2> QED
    BY <2>2, <2>3
\* An entry of the message is copied if its map is.
<1>7. ASSUME NEW e \in Entries, ~Kept(Front(e), from, ignored)
      PROVE  /\ from[e] # Absent => m[e] # Absent
             /\ from[Front(e)] = Absent => m[e] = from[e]
  <2>1. e \in Paths /\ Len(e) > 1
    BY DEF Entries
  <2>2. CASE Kept(e, from, ignored)
    <3>1. /\ from[Front(e)] # Absent
          /\ e \in HiddenPaths \union ignored \/ from[e] = Absent
      BY <1>5, <1>7, <2>1, <2>2
    <3>2. e \notin Plain
      BY <2>1, PlainOutsideMaps, UnderItself, PathTyped
    <3> QED
      BY <1>3, <3>1, <3>2
  <2>3. CASE ~Kept(e, from, ignored)
    BY <1>1, <2>1, <2>3
  <2> QED
    BY <2>2, <2>3
<1>8. ASSUME NEW p \in MapFields
      PROVE  m[p] = IF \E e \in Entries : Front(e) = p /\ m[e] # Absent THEN Present ELSE Absent
  <2>1. p \in Paths /\ \A e \in Entries : e \in Paths /\ Len(e) > 1
    BY PathsAssumption DEF Entries
  <2>2. CASE Kept(p, from, ignored)
    <3>1. \A e \in Entries : Front(e) = p => Under(p, e)
      BY <2>1, PathTyped, FrontProperties DEF StrictlyUnder
    <3>2. \A e \in Entries : Front(e) = p => m[e] = to[e]
      BY <1>1, <1>4, <2>1, <2>2, <3>1
    <3>3. to[p] = IF \E e \in Entries : Front(e) = p /\ to[e] # Absent THEN Present ELSE Absent
      BY <2>1 DEF WellFormed, Normal
    <3> QED
      BY <1>1, <2>1, <2>2, <3>2, <3>3
  <2>3. CASE ~Kept(p, from, ignored)
    <3>1. /\ from[p] = Absent => \A e \in Entries : Front(e) = p => m[e] = from[e]
          /\ \A e \in Entries : Front(e) = p /\ from[e] # Absent => m[e] # Absent
      BY <1>7, <2>3
    <3>2. from[p] = IF \E e \in Entries : Front(e) = p /\ from[e] # Absent
                    THEN Present ELSE Absent
      BY <2>1 DEF WellFormed, Normal
    <3>3. m[p] = from[p]
      BY <1>1, <2>1, <2>3
    <3> QED
      BY <3>1, <3>2, <3>3
  <2> QED
    BY <2>2, <2>3
<1>9. m = Normal(m)
  <2>1. \A p \in Paths : m[p] = Normal(m)[p]
    BY <1>8 DEF Normal
  <2>2. Normal(m) = [p \in Paths |-> Normal(m)[p]]
    BY DEF Normal
  <2> QED
    BY <1>2, <2>1, <2>2, Zenon
<1>10. WellFormed(m)
  BY <1>6, <1>9 DEF WellFormed
<1> QED
  BY <1>10 DEF m

LEMMA EmptyWellFormed == WellFormed(Empty)
<1>1. \A p \in Paths : Len(p) > 1 => Front(p) \in Paths
  BY PathsAssumption
<1>2. \A e \in Entries : e \in Paths
  BY DEF Entries
<1>3. Normal(Empty) = Empty
  BY <1>2 DEF Normal, Empty
<1> QED
  BY <1>1, <1>3 DEF WellFormed, Empty

(***************************************************************************)
(* A message stays one when some of the fields that aren't in a map change *)
(* together with what encloses them.                                       *)
(***************************************************************************)
LEMMA PlainChange ==
    ASSUME NEW m \in AnyMessage, WellFormed(m), NEW x \in AnyMessage, NEW D \in SUBSET Plain,
           \A p \in Paths \ D : x[p] = m[p],
           \A p \in Paths : (Len(p) > 1 /\ (p \in D \/ Front(p) \in D)) =>
               /\ x[Front(p)] \in {Absent, Present}
               /\ x[p] # Absent => x[Front(p)] = Present
    PROVE  WellFormed(x)
<1>1. \A p \in Paths : Len(p) > 1 =>
          /\ x[Front(p)] \in {Absent, Present}
          /\ x[p] # Absent => x[Front(p)] = Present
  BY FrontPresent
<1>2. /\ \A p \in MapFields : x[p] = m[p]
      /\ \A e \in Entries : x[e] = m[e]
  <2>1. \A p \in MapFields : p \in Paths \ D
    BY PlainOutsideMaps, PathsAssumption
  <2>2. \A e \in Entries : e \in Paths \ D
    BY PlainOutsideMaps, UnderItself, PathTyped DEF Entries
  <2> QED
    BY <2>1, <2>2
<1>3. \A p \in Paths : m[p] = Normal(m)[p]
  BY DEF WellFormed
<1>4. \A p \in Paths : x[p] = Normal(x)[p]
  BY <1>2, <1>3 DEF Normal
<1>5. x = [p \in Paths |-> x[p]]
  BY DEF AnyMessage
<1>6. Normal(x) = [p \in Paths |-> Normal(x)[p]]
  BY DEF Normal
<1>7. x = Normal(x)
  BY <1>4, <1>5, <1>6, Zenon
<1> QED
  BY <1>1, <1>7 DEF WellFormed

\* The metadata have nothing but the finalizers.
LEMMA MetadataInside ==
    ASSUME NEW p \in Paths, Len(p) > 1,
           p \in {MetadataPath, FinalizersPath} \/ Front(p) \in {MetadataPath, FinalizersPath}
    PROVE  p = FinalizersPath
<1>1. StrictlyUnder(Front(p), p)
  BY PathTyped, FrontProperties
<1>2. p # MetadataPath
  <2> SUFFICES ASSUME p = MetadataPath
               PROVE  FALSE
    OBVIOUS
  <2>1. Len(p) = 1
    BY FieldPaths
  <2> QED
    BY <2>1, SMT
<1> QED
  BY <1>1, <1>2, FieldsAssumption

LEMMA MapsInSpec ==
    /\ Front(NodeSetsPath) = <<"spec">> /\ Front(ParametersPath) = <<"spec">>
    /\ <<"spec">> \in Paths /\ <<"spec">> \notin MapFields /\ <<"spec">> \notin Entries
<1>1. /\ Len(NodeSetsPath) = 2 /\ NodeSetsPath \in Seq(Names)
      /\ Len(ParametersPath) = 2 /\ ParametersPath \in Seq(Names)
      /\ <<"spec">> \in Paths /\ <<"spec">> \in Seq(Names) /\ Len(<<"spec">>) = 1
  BY FieldPaths
<1>2. NodeSetsPath[1] = "spec" /\ ParametersPath[1] = "spec" /\ <<"spec">>[1] = "spec"
  BY DEF NodeSetsPath, ParametersPath
<1>3. ASSUME NEW p \in {NodeSetsPath, ParametersPath}
      PROVE  Front(p) = <<"spec">>
  <2>1. p \in Seq(Names) /\ Len(p) > 1 /\ Len(p) - 1 = 1 /\ p[1] = "spec"
    BY <1>1, <1>2, SMT
  <2>2. /\ Front(p) \in Seq(Names) /\ Len(Front(p)) = 1
        /\ \A i \in 1..1 : Front(p)[i] = p[i]
    BY <2>1, FrontProperties
  <2>3. \A i \in 1..1 : Front(p)[i] = <<"spec">>[i]
    BY <1>2, <2>1, <2>2, SMT
  <2> QED
    BY <1>1, <2>2, <2>3, SeqEqual
<1>4. <<"spec">> \notin Entries
  <2> SUFFICES ASSUME <<"spec">> \in Entries
               PROVE  FALSE
    OBVIOUS
  <2>1. Len(<<"spec">>) > 1
    BY DEF Entries
  <2> QED
    BY <1>1, <2>1, SMT
<1> QED
  BY <1>1, <1>3, <1>4, FieldsAssumption

\* An object that has a template has a specification.
LEMMA SpecPresent ==
    ASSUME NEW m \in AnyMessage, WellFormed(m), m[TemplatePath] = TemplateId
    PROVE  m[<<"spec">>] # Absent
<1>1. TemplatePath \in Paths /\ Len(TemplatePath) = 2 /\ Front(TemplatePath) = <<"spec">>
  BY FieldPaths DEF Leaves
<1>2. Len(TemplatePath) > 1
  BY <1>1, SMT
<1> QED
  BY <1>1, <1>2, FrontPresent, ValuesAssumption

----------------------------------------------------------------------------
(* The node sets of the template *)

\* What is in a node set isn't a map, and encloses only the same node set.
LEMMA InNodeSetNoMap ==
    ASSUME contents \in Templates
    PROVE  /\ \A p \in Paths : InNodeSet(p) => p \notin MapFields
           /\ \A p \in Paths : (Len(p) > 1 /\ InNodeSet(Front(p))) => InNodeSet(p)
           /\ \A e \in Entries : InNodeSet(e) =>
                  \E n \in DOMAIN TemplateNodeSets : e = NodeSetPath(n)
<1>1. ASSUME NEW p \in Paths, InNodeSet(p)
      PROVE  p \notin MapFields
  <2>1. PICK n \in DOMAIN TemplateNodeSets :
            p \in {NodeSetPath(n), Append(NodeSetPath(n), "host_class"),
                   Append(NodeSetPath(n), "size")}
    BY <1>1, NodeSetParts
  <2>2. NodeSetPath(n) \notin MapFields
    BY NodeSetPaths, PathsAssumption
  <2>3. /\ Append(NodeSetPath(n), "host_class") \notin MapFields
        /\ Append(NodeSetPath(n), "size") \notin MapFields
    BY TemplateFacts DEF NodeSetFields
  <2> QED
    BY <2>1, <2>2, <2>3
<1>2. ASSUME NEW p \in Paths, Len(p) > 1, InNodeSet(Front(p))
      PROVE  InNodeSet(p)
  <2>1. PICK e \in Entries : /\ Front(e) = NodeSetsPath /\ Under(e, Front(p))
                             /\ Last(e) \in DOMAIN TemplateNodeSets
    BY <1>2 DEF InNodeSet
  <2>2. e \in Seq(Names) /\ p \in Seq(Names) /\ Front(p) \in Seq(Names) /\ Under(Front(p), p)
    BY <1>2, PathTyped, FrontProperties DEF Entries, StrictlyUnder
  <2>3. Under(e, p)
    BY <2>1, <2>2, UnderUnder
  <2> QED
    BY <2>1, <2>3 DEF InNodeSet
<1>3. ASSUME NEW e \in Entries, InNodeSet(e)
      PROVE  \E n \in DOMAIN TemplateNodeSets : e = NodeSetPath(n)
  <2>1. e \in Paths /\ Front(e) \in MapFields
    BY DEF Entries
  <2>2. PICK n \in DOMAIN TemplateNodeSets :
            e \in {NodeSetPath(n), Append(NodeSetPath(n), "host_class"),
                   Append(NodeSetPath(n), "size")}
    BY <1>3, <2>1, NodeSetParts
  <2>3. NodeSetPath(n) \notin MapFields
    BY NodeSetPaths, PathsAssumption
  <2>4. \A f \in {"host_class", "size"} : Front(Append(NodeSetPath(n), f)) = NodeSetPath(n)
    BY NodeSetPaths
  <2>5. e = NodeSetPath(n)
    BY <2>1, <2>2, <2>3, <2>4
  <2> QED
    BY <2>5
<1> QED
  BY <1>1, <1>2, <1>3

LEMMA NodeSetInside ==
    ASSUME contents \in Templates, NEW n \in DOMAIN TemplateNodeSets
    PROVE  /\ InNodeSet(NodeSetPath(n))
           /\ \A f \in {"host_class", "size"} : InNodeSet(Append(NodeSetPath(n), f))
<1>1. /\ NodeSetPath(n) \in Entries /\ NodeSetPath(n) \in Seq(Names)
      /\ Front(NodeSetPath(n)) = NodeSetsPath /\ Last(NodeSetPath(n)) = n
  BY NodeSetPaths, PathTyped
<1>2. Under(NodeSetPath(n), NodeSetPath(n))
  BY <1>1, UnderItself
<1>3. \A f \in {"host_class", "size"} : Under(NodeSetPath(n), Append(NodeSetPath(n), f))
  BY NodeSetPaths DEF StrictlyUnder
<1> QED
  BY <1>1, <1>2, <1>3 DEF InNodeSet

\* The fields of a node set have nothing inside.
LEMMA NodeSetLeaves ==
    ASSUME contents \in Templates,
           NEW n \in DOMAIN TemplateNodeSets, NEW f \in {"host_class", "size"},
           NEW p \in Paths, Len(p) > 1
    PROVE  Front(p) # Append(NodeSetPath(n), f)
<1> SUFFICES ASSUME Front(p) = Append(NodeSetPath(n), f)
             PROVE  FALSE
  OBVIOUS
<1>1. InNodeSet(Front(p)) /\ Len(Front(p)) = 4
  BY NodeSetPaths, NodeSetInside
<1>2. PICK k \in DOMAIN TemplateNodeSets :
          p \in {NodeSetPath(k), Append(NodeSetPath(k), "host_class"),
                 Append(NodeSetPath(k), "size")}
  BY <1>1, InNodeSetNoMap, NodeSetParts
<1>3. /\ Front(NodeSetPath(k)) = NodeSetsPath /\ Len(NodeSetsPath) = 2
      /\ \A g \in {"host_class", "size"} : Front(Append(NodeSetPath(k), g)) = NodeSetPath(k)
      /\ Len(NodeSetPath(k)) = 3
  BY NodeSetPaths, FieldPaths
<1>4. Len(Front(p)) = 2 \/ Len(Front(p)) = 3
  BY <1>2, <1>3
<1> QED
  BY <1>1, <1>4, SMT

(***************************************************************************)
(* The node sets are those of the template, with the sizes that are given, *)
(* and the rest stays as it is, but for the map itself.                    *)
(***************************************************************************)
LEMMA NodeSetsSet ==
    ASSUME contents \in Templates, NEW m \in AnyMessage
    PROVE  /\ \A p \in Paths : ~InNodeSet(p) => SetNodeSets(m)[p] = m[p]
           /\ \A n \in DOMAIN TemplateNodeSets :
                  LET e == NodeSetPath(n)
                      set == TemplateNodeSets[n]
                  IN  /\ SetNodeSets(m)[e] = Present
                      /\ SetNodeSets(m)[Append(e, "host_class")] = set.host_class
                      /\ SetNodeSets(m)[Append(e, "size")]
                             = IF m[Append(e, "size")] = Absent THEN set.size
                               ELSE m[Append(e, "size")]
<1>1. \A p \in Paths : ~InNodeSet(p) => SetNodeSets(m)[p] = m[p]
  BY DEF SetNodeSets
<1>2. ASSUME NEW n \in DOMAIN TemplateNodeSets
      PROVE  LET e == NodeSetPath(n)
                 set == TemplateNodeSets[n]
             IN  /\ SetNodeSets(m)[e] = Present
                 /\ SetNodeSets(m)[Append(e, "host_class")] = set.host_class
                 /\ SetNodeSets(m)[Append(e, "size")]
                        = IF m[Append(e, "size")] = Absent THEN set.size
                          ELSE m[Append(e, "size")]
  <2> DEFINE e == NodeSetPath(n)
             h == Append(e, "host_class")
             s == Append(e, "size")
  <2>1. e \in Paths /\ InNodeSet(e) /\ Len(e) = 3
    BY NodeSetPaths, NodeSetInside
  <2>2. h \in Paths /\ InNodeSet(h) /\ Len(h) = 4 /\ h[3] = n /\ Last(h) = "host_class"
    BY NodeSetPaths, NodeSetInside
  <2>3. s \in Paths /\ InNodeSet(s) /\ Len(s) = 4 /\ s[3] = n /\ Last(s) = "size"
    BY NodeSetPaths, NodeSetInside
  <2> HIDE DEF e, h, s
  <2>4. SetNodeSets(m)[e] = Present
    BY <2>1 DEF SetNodeSets
  <2>5. SetNodeSets(m)[h] = TemplateNodeSets[n].host_class
    BY <2>2 DEF SetNodeSets
  <2>6. SetNodeSets(m)[s] = IF m[s] = Absent THEN TemplateNodeSets[n].size ELSE m[s]
    BY <2>3 DEF SetNodeSets
  <2> QED
    BY <2>4, <2>5, <2>6 DEF e, h, s
<1> QED
  BY <1>1, <1>2
LEMMA NodeSetsWellFormed ==
    ASSUME contents \in Templates,
           NEW m \in AnyMessage, WellFormed(m), m[TemplatePath] = TemplateId
    PROVE  WellFormed(WithNodeSets(m))
<1> DEFINE x == SetNodeSets(m)
<1>1. x \in AnyMessage /\ WithNodeSets(m) = Normal(x)
  BY NodeSetsTyped
<1>2. /\ \A p \in Paths : ~InNodeSet(p) => x[p] = m[p]
      /\ \A n \in DOMAIN TemplateNodeSets : x[NodeSetPath(n)] = Present
  BY NodeSetsSet
<1>3. Present # Absent
  BY PathsAssumption
<1> HIDE DEF x
\* What encloses what was there before was there too.
<1>4. ASSUME NEW p \in Paths, m[p] # Absent, Len(p) > 1, ~InNodeSet(Front(p))
      PROVE  x[Front(p)] # Absent
  <2>1. Front(p) \in Paths /\ m[Front(p)] # Absent
    BY <1>4, FrontPresent
  <2> QED
    BY <1>2, <1>4, <2>1
<1>5. ASSUME NEW p \in Paths \ MapFields, x[p] # Absent, Len(p) > 1, Front(p) \notin MapFields
      PROVE  x[Front(p)] # Absent
  <2>1. CASE InNodeSet(p)
    <3>1. PICK n \in DOMAIN TemplateNodeSets :
              p \in {NodeSetPath(n), Append(NodeSetPath(n), "host_class"),
                     Append(NodeSetPath(n), "size")}
      BY <2>1, NodeSetParts
    <3>2. Front(NodeSetPath(n)) \in MapFields
      BY NodeSetPaths DEF Entries
    <3>3. Front(p) = NodeSetPath(n)
      BY <1>5, <3>1, <3>2, NodeSetPaths
    <3> QED
      BY <1>2, <1>3, <3>3
  <2>2. CASE ~InNodeSet(p)
    <3>1. ~InNodeSet(Front(p)) /\ m[p] # Absent
      BY <1>2, <1>5, <2>2, InNodeSetNoMap
    <3> QED
      BY <1>4, <1>5, <3>1
  <2> QED
    BY <2>1, <2>2
<1>6. ASSUME NEW e \in Entries, x[e] # Absent, Len(Front(e)) > 1
      PROVE  x[Front(Front(e))] # Absent
  <2>1. e \in Paths /\ Len(e) > 1 /\ Front(e) \in Paths
    BY PathsAssumption DEF Entries
  <2>2. CASE InNodeSet(e)
    <3>1. Front(Front(e)) = <<"spec">>
      BY <2>2, InNodeSetNoMap, NodeSetPaths, MapsInSpec
    <3>2. m[<<"spec">>] # Absent
      BY SpecPresent
    <3>3. ~InNodeSet(<<"spec">>)
      <4>1. <<"spec">> \in {MetadataPath, StatusPath, <<"spec">>} /\ <<"spec">> \in Paths
        BY MapsInSpec
      <4>2. \A q \in Entries : Under(q, <<"spec">>) => FALSE
        BY <4>1, UnderTop, MapsInSpec DEF Entries
      <4> QED
        BY <4>2 DEF InNodeSet
    <3> QED
      BY <1>2, <3>1, <3>2, <3>3, MapsInSpec
  <2>3. CASE ~InNodeSet(e)
    <3>1. ~InNodeSet(Front(e)) /\ ~InNodeSet(Front(Front(e)))
      BY <1>6, <2>1, <2>3, InNodeSetNoMap
    <3>2. m[e] # Absent
      BY <1>2, <1>6, <2>1, <2>3
    <3>3. m[Front(e)] # Absent
      BY <2>1, <3>2, FrontPresent
    <3> QED
      BY <1>4, <1>6, <2>1, <3>1, <3>3
  <2> QED
    BY <2>2, <2>3
<1>7. ASSUME NEW p \in Paths, Len(p) > 1
      PROVE  x[Front(p)] \in {Absent, Present}
  <2>1. Front(p) \in Paths /\ m[Front(p)] \in {Absent, Present}
    BY <1>7, FrontPresent
  <2>2. CASE InNodeSet(Front(p))
    BY <1>2, <1>7, <2>1, <2>2, NodeSetParts, NodeSetLeaves
  <2>3. CASE ~InNodeSet(Front(p))
    BY <1>2, <2>1, <2>3
  <2> QED
    BY <2>2, <2>3
<1>8. WellFormed(Normal(x))
  BY <1>1, <1>5, <1>6, <1>7, NormalWellFormed
<1> QED
  BY <1>1, <1>8

LEMMA NodeSetEntry ==
    ASSUME NEW e \in Entries, Front(e) = NodeSetsPath, Last(e) \in DOMAIN TemplateNodeSets
    PROVE  e = NodeSetPath(Last(e))
<1>1. e \in Seq(Names) /\ Len(e) > 1
  BY PathTyped DEF Entries
<1> QED
  BY <1>1, EntryForm DEF NodeSetPath

\* The node sets that are accepted are completed.
LEMMA NodeSetsFollow ==
    ASSUME contents \in Templates,
           NEW m \in AnyMessage, WellFormed(m), NodeSetsAccepted(m), TemplateConsistent
    PROVE  FollowsNodeSets(WithNodeSets(m))
<1> DEFINE w == WithNodeSets(m)
<1>1. /\ w = Normal(SetNodeSets(m))
      /\ \A p \in Paths : ~InNodeSet(p) => SetNodeSets(m)[p] = m[p]
      /\ \A n \in DOMAIN TemplateNodeSets :
             LET e == NodeSetPath(n)
                 set == TemplateNodeSets[n]
             IN  /\ SetNodeSets(m)[e] = Present
                 /\ SetNodeSets(m)[Append(e, "host_class")] = set.host_class
                 /\ SetNodeSets(m)[Append(e, "size")]
                        = IF m[Append(e, "size")] = Absent THEN set.size
                          ELSE m[Append(e, "size")]
  BY NodeSetsTyped, NodeSetsSet
<1> HIDE DEF w
<1>2. \A p \in Paths \ MapFields : w[p] = SetNodeSets(m)[p]
  BY <1>1 DEF Normal
<1>3. \A e \in Entries : e \in Paths \ MapFields
  BY PathsAssumption DEF Entries
<1>4. ASSUME NEW e \in EntriesOf(w, NodeSetsPath)
      PROVE  Last(e) \in DOMAIN TemplateNodeSets
  <2>1. e \in Entries /\ Front(e) = NodeSetsPath /\ w[e] # Absent
    BY DEF EntriesOf
  <2>2. SetNodeSets(m)[e] # Absent /\ e \in Paths
    BY <1>2, <1>3, <2>1
  <2>3. CASE InNodeSet(e)
    BY <2>1, <2>3, InNodeSetNoMap, NodeSetPaths
  <2>4. CASE ~InNodeSet(e)
    <3>1. e \in EntriesOf(m, NodeSetsPath)
      BY <1>1, <2>1, <2>2, <2>4 DEF EntriesOf
    <3> QED
      BY <3>1 DEF NodeSetsAccepted, NamesOf
  <2> QED
    BY <2>3, <2>4
<1>5. ASSUME NEW n \in DOMAIN TemplateNodeSets
      PROVE  /\ NodeSetPath(n) \in EntriesOf(w, NodeSetsPath) /\ Last(NodeSetPath(n)) = n
             /\ w[Append(NodeSetPath(n), "host_class")] = TemplateNodeSets[n].host_class
             /\ w[Append(NodeSetPath(n), "size")] \in PositiveSizes
  <2> DEFINE e == NodeSetPath(n)
             h == Append(e, "host_class")
             s == Append(e, "size")
  <2>1. e \in Entries /\ Front(e) = NodeSetsPath /\ Last(e) = n
    BY NodeSetPaths
  <2>2. h \in Paths /\ s \in Paths /\ Front(s) = e /\ Len(s) = 4
    BY NodeSetPaths
  <2>3. InNodeSet(h) /\ InNodeSet(s)
    BY NodeSetInside
  <2>4. h \notin MapFields /\ s \notin MapFields
    BY <2>2, <2>3, InNodeSetNoMap
  <2>5. /\ SetNodeSets(m)[e] = Present
        /\ SetNodeSets(m)[h] = TemplateNodeSets[n].host_class
        /\ SetNodeSets(m)[s] = IF m[s] = Absent THEN TemplateNodeSets[n].size ELSE m[s]
    BY <1>1
  <2> HIDE DEF e, h, s
  <2>6. w[e] = Present /\ Present # Absent
    BY <1>2, <1>3, <2>1, <2>5, PathsAssumption
  <2>7. w[h] = TemplateNodeSets[n].host_class
    BY <1>2, <2>2, <2>4, <2>5
  <2>8. w[s] \in PositiveSizes
    <3>1. CASE m[s] = Absent
      BY <1>2, <2>2, <2>4, <2>5, <3>1 DEF TemplateConsistent
    <3>2. CASE m[s] # Absent
      <4>1. Len(s) > 1
        BY <2>2, SMT
      <4>2. m[e] # Absent
        BY <2>2, <3>2, <4>1, FrontPresent
      <4>3. e \in EntriesOf(m, NodeSetsPath)
        BY <2>1, <4>2 DEF EntriesOf
      <4>4. m[s] \in PositiveSizes
        BY <4>3 DEF NodeSetsAccepted, s
      <4> QED
        BY <1>2, <2>2, <2>4, <2>5, <3>2, <4>4
    <3> QED
      BY <3>1, <3>2
  <2>9. e \in EntriesOf(w, NodeSetsPath)
    BY <2>1, <2>6 DEF EntriesOf
  <2> QED
    BY <2>1, <2>7, <2>8, <2>9 DEF e, h, s
<1>6. NamesOf(w, NodeSetsPath) = DOMAIN TemplateNodeSets
  BY <1>4, <1>5 DEF NamesOf
<1>7. ASSUME NEW e \in EntriesOf(w, NodeSetsPath)
      PROVE  /\ w[Append(e, "host_class")] = TemplateNodeSets[Last(e)].host_class
             /\ w[Append(e, "size")] \in PositiveSizes
  <2>1. Last(e) \in DOMAIN TemplateNodeSets
    BY <1>4
  <2>2. e = NodeSetPath(Last(e))
    BY <2>1, NodeSetEntry DEF EntriesOf
  <2> QED
    BY <1>5, <2>1, <2>2
<1>8. FollowsNodeSets(w)
  BY <1>6, <1>7 DEF FollowsNodeSets
<1> QED
  BY <1>8 DEF w
----------------------------------------------------------------------------
(* The parameters of the template *)

ParameterPath(n) == Append(ParametersPath, n)

LEMMA ParameterPaths ==
    ASSUME contents \in Templates, NEW n \in DOMAIN Parameters
    PROVE  /\ ParameterPath(n) \in Entries
           /\ Front(ParameterPath(n)) = ParametersPath /\ Last(ParameterPath(n)) = n
<1>1. n \in Names /\ ParameterPath(n) \in Paths
  BY TemplateFacts DEF ParameterPath
<1>2. ParametersPath \in Seq(Names) /\ Len(ParametersPath) >= 1
  <2>1. ParametersPath \in Seq(Names) /\ Len(ParametersPath) = 2
    BY FieldPaths, Zenon
  <2> QED
    BY <2>1, SMT
<1>3. /\ Len(ParameterPath(n)) > 1
      /\ Front(ParameterPath(n)) = ParametersPath /\ Last(ParameterPath(n)) = n
  BY <1>1, <1>2, AppendFront DEF ParameterPath
<1> QED
  BY <1>1, <1>3, FieldsAssumption DEF Entries

LEMMA ParameterEntry ==
    ASSUME NEW e \in Entries, Front(e) = ParametersPath
    PROVE  e = ParameterPath(Last(e))
<1>1. e \in Seq(Names) /\ Len(e) > 1
  BY PathTyped DEF Entries
<1> QED
  BY <1>1, EntryForm DEF ParameterPath

\* A parameter has nothing inside.
LEMMA DefaultLeaves ==
    ASSUME contents \in Templates,
           NEW e \in Entries, Front(e) = ParametersPath, Last(e) \in DOMAIN Defaults,
           NEW p \in Paths
    PROVE  ~StrictlyUnder(e, p)
<1>1. e = Append(ParametersPath, Last(e)) /\ Last(e) \in DOMAIN Parameters
  BY ParameterEntry, TemplateFacts DEF ParameterPath
<1> QED
  BY <1>1, TemplateFacts

\* Whether WithDefaults sets a path.
Defaulted(m, p) ==
    /\ p \in Entries /\ Front(p) = ParametersPath /\ m[p] = Absent
    /\ Last(p) \in DOMAIN Defaults

LEMMA DefaultsSet ==
    ASSUME contents \in Templates, NEW m \in AnyMessage
    PROVE  /\ \A p \in Paths : SetDefaults(m)[p]
                                   = IF Defaulted(m, p) THEN Defaults[Last(p)] ELSE m[p]
           /\ \A p \in Paths : m[p] # Absent => SetDefaults(m)[p] # Absent
           /\ \A p \in Paths \ MapFields : WithDefaults(m)[p] = SetDefaults(m)[p]
<1>1. \A p \in Paths : SetDefaults(m)[p]
                           = IF Defaulted(m, p) THEN Defaults[Last(p)] ELSE m[p]
  BY DEF SetDefaults, Defaulted
<1>2. \A p \in Paths : m[p] # Absent => SetDefaults(m)[p] # Absent
  BY <1>1 DEF Defaulted
<1>3. WithDefaults(m) = Normal(SetDefaults(m))
  BY DefaultsTyped
<1> QED
  BY <1>1, <1>2, <1>3 DEF Normal

LEMMA DefaultsWellFormed ==
    ASSUME contents \in Templates,
           NEW m \in AnyMessage, WellFormed(m), m[TemplatePath] = TemplateId
    PROVE  WellFormed(WithDefaults(m))
<1> DEFINE x == SetDefaults(m)
<1>1. x \in AnyMessage /\ WithDefaults(m) = Normal(x)
  BY DefaultsTyped
<1>2. /\ \A p \in Paths : ~Defaulted(m, p) => x[p] = m[p]
      /\ \A p \in Paths : m[p] # Absent => x[p] # Absent
  BY DefaultsSet
<1> HIDE DEF x
<1>3. ASSUME NEW p \in Paths, m[p] # Absent, Len(p) > 1
      PROVE  /\ Front(p) \in Paths /\ m[Front(p)] # Absent /\ x[Front(p)] # Absent
  <2>1. Front(p) \in Paths /\ m[Front(p)] # Absent
    BY <1>3, FrontPresent
  <2> QED
    BY <1>2, <2>1
<1>4. ASSUME NEW p \in Paths \ MapFields, x[p] # Absent, Len(p) > 1, Front(p) \notin MapFields
      PROVE  x[Front(p)] # Absent
  <2>1. ~Defaulted(m, p)
    BY <1>4 DEF Defaulted, Entries
  <2> QED
    BY <1>2, <1>3, <1>4, <2>1
<1>5. ASSUME NEW e \in Entries, x[e] # Absent, Len(Front(e)) > 1
      PROVE  x[Front(Front(e))] # Absent
  <2>1. e \in Paths /\ Len(e) > 1
    BY DEF Entries
  <2>2. CASE Defaulted(m, e)
    <3>1. Front(Front(e)) = <<"spec">> /\ <<"spec">> \in Paths
      BY <2>2, MapsInSpec DEF Defaulted
    <3>2. m[<<"spec">>] # Absent
      BY SpecPresent
    <3> QED
      BY <1>2, <3>1, <3>2
  <2>3. CASE ~Defaulted(m, e)
    <3>1. m[e] # Absent
      BY <1>2, <1>5, <2>1, <2>3
    <3> QED
      BY <1>3, <1>5, <2>1, <3>1
  <2> QED
    BY <2>2, <2>3
<1>6. ASSUME NEW p \in Paths, Len(p) > 1
      PROVE  x[Front(p)] \in {Absent, Present}
  <2>1. Front(p) \in Paths /\ m[Front(p)] \in {Absent, Present}
    BY <1>6, FrontPresent
  <2>2. StrictlyUnder(Front(p), p)
    BY <1>6, PathTyped, FrontProperties
  <2>3. ~Defaulted(m, Front(p))
    BY <2>2, DefaultLeaves DEF Defaulted
  <2> QED
    BY <1>2, <2>1, <2>3
<1>7. WellFormed(Normal(x))
  BY <1>1, <1>4, <1>5, <1>6, NormalWellFormed
<1> QED
  BY <1>1, <1>7

\* The parameters that are accepted are completed.
LEMMA ParametersFollow ==
    ASSUME contents \in Templates,
           NEW m \in AnyMessage, ParametersAccepted(m), TemplateConsistent
    PROVE  FollowsParameters(WithDefaults(m))
<1> DEFINE w == WithDefaults(m)
<1>1. \A p \in Paths \ MapFields :
          w[p] = IF Defaulted(m, p) THEN Defaults[Last(p)] ELSE m[p]
  BY DefaultsSet
<1> HIDE DEF w
<1>2. \A e \in Entries : e \in Paths \ MapFields
  BY PathsAssumption DEF Entries
<1>3. ASSUME NEW e \in EntriesOf(w, ParametersPath)
      PROVE  Last(e) \in DOMAIN Parameters /\ TypeOf[w[e]] = Parameters[Last(e)]
  <2>1. e \in Entries /\ Front(e) = ParametersPath /\ w[e] # Absent
    BY DEF EntriesOf
  <2>2. CASE Defaulted(m, e)
    BY <1>1, <1>2, <2>1, <2>2, TemplateFacts DEF Defaulted, TemplateConsistent
  <2>3. CASE ~Defaulted(m, e)
    <3>1. w[e] = m[e] /\ e \in EntriesOf(m, ParametersPath)
      BY <1>1, <1>2, <2>1, <2>3 DEF EntriesOf
    <3> QED
      BY <3>1 DEF ParametersAccepted, NamesOf
  <2> QED
    BY <2>2, <2>3
<1>4. ASSUME NEW n \in Required \union DOMAIN Defaults
      PROVE  n \in NamesOf(w, ParametersPath)
  <2>1. n \in DOMAIN Parameters
    BY TemplateFacts
  <2> DEFINE e == ParameterPath(n)
  <2>2. e \in Entries /\ Front(e) = ParametersPath /\ Last(e) = n
    BY <2>1, ParameterPaths
  <2> HIDE DEF e
  <2>3. w[e] # Absent
    <3>1. CASE m[e] # Absent
      BY <1>1, <1>2, <2>2, <3>1 DEF Defaulted
    <3>2. CASE m[e] = Absent
      <4>1. n \in DOMAIN Defaults
        <5>1. ASSUME n \in Required
              PROVE  FALSE
          <6>1. PICK q \in EntriesOf(m, ParametersPath) : Last(q) = n
            BY <5>1 DEF ParametersAccepted, NamesOf
          <6>2. q = e /\ m[q] # Absent
            BY <6>1, ParameterEntry DEF EntriesOf, e
          <6> QED
            BY <3>2, <6>2
        <5> QED
          BY <5>1
      <4>2. Defaulted(m, e)
        BY <2>2, <3>2, <4>1 DEF Defaulted
      <4> QED
        BY <1>1, <1>2, <2>2, <4>1, <4>2, TemplateFacts
    <3> QED
      BY <3>1, <3>2
  <2> QED
    BY <2>2, <2>3 DEF NamesOf, EntriesOf
<1>5. ASSUME NEW n \in NamesOf(w, ParametersPath)
      PROVE  n \in DOMAIN Parameters /\ TypeOf[w[Append(ParametersPath, n)]] = Parameters[n]
  <2>1. PICK e \in EntriesOf(w, ParametersPath) : Last(e) = n
    BY DEF NamesOf
  <2>2. e = Append(ParametersPath, n)
    BY <2>1, ParameterEntry DEF EntriesOf, ParameterPath
  <2> QED
    BY <1>3, <2>1, <2>2
<1>6. FollowsParameters(w)
  BY <1>4, <1>5 DEF FollowsParameters
<1> QED
  BY <1>6 DEF w

----------------------------------------------------------------------------
(* The parameters and the node sets are apart from each other. *)

LEMMA NodeSetsKeepParameters ==
    ASSUME contents \in Templates, NEW m \in AnyMessage, ParametersAccepted(m)
    PROVE  ParametersAccepted(WithNodeSets(m))
<1> DEFINE w == WithNodeSets(m)
<1>1. w = Normal(SetNodeSets(m)) /\ \A p \in Paths : ~InNodeSet(p) => SetNodeSets(m)[p] = m[p]
  BY NodeSetsTyped, NodeSetsSet
<1> HIDE DEF w
<1>2. ASSUME NEW e \in Entries, Front(e) = ParametersPath
      PROVE  w[e] = m[e]
  <2>1. e \in Paths \ MapFields
    BY PathsAssumption DEF Entries
  <2>2. ~InNodeSet(e)
    BY <1>2, InNodeSetNoMap, NodeSetPaths, FieldsDiffer
  <2> QED
    BY <1>1, <2>1, <2>2 DEF Normal
<1>3. EntriesOf(w, ParametersPath) = EntriesOf(m, ParametersPath)
  BY <1>2 DEF EntriesOf
<1>4. \A e \in EntriesOf(m, ParametersPath) : w[e] = m[e]
  BY <1>2 DEF EntriesOf
<1>5. ParametersAccepted(w)
  BY <1>3, <1>4 DEF ParametersAccepted, NamesOf
<1> QED
  BY <1>5 DEF w

\* What is said of the node sets depends only on them.
LEMMA NodeSetsSame ==
    ASSUME NEW m, NEW x, FollowsNodeSets(m),
           \A e \in Entries : Front(e) = NodeSetsPath => x[e] = m[e],
           \A n \in DOMAIN TemplateNodeSets : \A f \in {"host_class", "size"} :
               x[Append(NodeSetPath(n), f)] = m[Append(NodeSetPath(n), f)]
    PROVE  FollowsNodeSets(x)
<1>1. EntriesOf(x, NodeSetsPath) = EntriesOf(m, NodeSetsPath)
  BY DEF EntriesOf
<1>2. NamesOf(x, NodeSetsPath) = DOMAIN TemplateNodeSets
  BY <1>1 DEF FollowsNodeSets, NamesOf
<1>3. ASSUME NEW e \in EntriesOf(x, NodeSetsPath)
      PROVE  /\ x[Append(e, "host_class")] = TemplateNodeSets[Last(e)].host_class
             /\ x[Append(e, "size")] \in PositiveSizes
  <2>1. Last(e) \in DOMAIN TemplateNodeSets
    BY <1>2 DEF NamesOf
  <2>2. e = NodeSetPath(Last(e))
    BY <2>1, NodeSetEntry DEF EntriesOf
  <2>3. /\ x[Append(e, "host_class")] = m[Append(e, "host_class")]
        /\ x[Append(e, "size")] = m[Append(e, "size")]
    BY <2>1, <2>2
  <2>4. /\ m[Append(e, "host_class")] = TemplateNodeSets[Last(e)].host_class
        /\ m[Append(e, "size")] \in PositiveSizes
    BY <1>1 DEF FollowsNodeSets
  <2> QED
    BY <2>3, <2>4
<1> QED
  BY <1>2, <1>3 DEF FollowsNodeSets

LEMMA DefaultsKeepNodeSets ==
    ASSUME contents \in Templates, NEW m \in AnyMessage, FollowsNodeSets(m)
    PROVE  FollowsNodeSets(WithDefaults(m))
<1>1. \A p \in Paths \ MapFields : ~Defaulted(m, p) => WithDefaults(m)[p] = m[p]
  BY DefaultsSet
<1>2. \A e \in Entries : Front(e) = NodeSetsPath => WithDefaults(m)[e] = m[e]
  <2>1. \A e \in Entries : e \in Paths \ MapFields
    BY PathsAssumption DEF Entries
  <2> QED
    BY <1>1, <2>1, FieldsDiffer DEF Defaulted
<1>3. ASSUME NEW n \in DOMAIN TemplateNodeSets, NEW f \in {"host_class", "size"}
      PROVE  WithDefaults(m)[Append(NodeSetPath(n), f)] = m[Append(NodeSetPath(n), f)]
  <2> DEFINE p == Append(NodeSetPath(n), f)
  <2>1. p \in Paths /\ Front(p) = NodeSetPath(n) /\ Front(NodeSetPath(n)) = NodeSetsPath
    BY NodeSetPaths
  <2>2. p \notin MapFields
    BY <2>1, NodeSetInside, InNodeSetNoMap
  <2>3. NodeSetPath(n) # ParametersPath
    <3>1. Len(NodeSetPath(n)) = 3 /\ Len(ParametersPath) = 2
      BY NodeSetPaths, FieldPaths
    <3> QED
      BY <3>1, SMT
  <2> HIDE DEF p
  <2>4. WithDefaults(m)[p] = m[p]
    BY <1>1, <2>1, <2>2, <2>3 DEF Defaulted
  <2> QED
    BY <2>4 DEF p
<1> QED
  BY <1>2, <1>3, NodeSetsSame
----------------------------------------------------------------------------
(* What is created *)

\* The metadata are in columns of their own.
LEMMA DataFollows ==
    ASSUME contents \in Templates, NEW m \in AnyMessage
    PROVE  /\ WellFormed(m) => WellFormed(DataOf(m))
           /\ FollowsParameters(m) => FollowsParameters(DataOf(m))
           /\ FollowsNodeSets(m) => FollowsNodeSets(DataOf(m))
<1> DEFINE d == DataOf(m)
<1>1. /\ \A p \in Paths \ {MetadataPath, FinalizersPath} : d[p] = m[p]
      /\ d[MetadataPath] = Absent /\ d[FinalizersPath] = Absent
      /\ d = [p \in Paths |-> d[p]]
  <2>1. d \in AnyMessage
    BY DataTyped, DataMessages
  <2> QED
    BY <2>1, DataTyped DEF AnyMessage
<1> HIDE DEF d
<1>2. \A p \in MapFields : d[p] = m[p]
  BY <1>1, PlainOutsideMaps, PathsAssumption DEF Plain
<1>3. \A e \in Entries : \A p \in Paths : Under(e, p) => d[p] = m[p]
  BY <1>1, PlainOutsideMaps DEF Plain
<1>4. \A e \in Entries : d[e] = m[e]
  BY <1>3, UnderItself, PathTyped DEF Entries
<1>5. ASSUME WellFormed(m)
      PROVE  WellFormed(d)
  <2>1. ASSUME NEW p \in Paths, Len(p) > 1,
               p \in {MetadataPath, FinalizersPath} \/ Front(p) \in {MetadataPath, FinalizersPath}
        PROVE  /\ d[Front(p)] \in {Absent, Present}
               /\ d[p] # Absent => d[Front(p)] = Present
    <3>1. p = FinalizersPath
      BY <2>1, MetadataInside
    <3> QED
      BY <1>1, <3>1, FieldPaths
  <2>2. d \in AnyMessage /\ {MetadataPath, FinalizersPath} \in SUBSET Plain
    BY DataTyped, DataMessages DEF d, Plain
  <2> QED
    BY <1>1, <1>5, <2>1, <2>2, PlainChange
<1>6. ASSUME FollowsParameters(m)
      PROVE  FollowsParameters(d)
  <2>1. EntriesOf(d, ParametersPath) = EntriesOf(m, ParametersPath)
    BY <1>4 DEF EntriesOf
  <2>2. NamesOf(d, ParametersPath) = NamesOf(m, ParametersPath)
    BY <2>1 DEF NamesOf
  <2>3. ASSUME NEW n \in NamesOf(m, ParametersPath)
        PROVE  d[Append(ParametersPath, n)] = m[Append(ParametersPath, n)]
    <3>1. PICK e \in EntriesOf(m, ParametersPath) : Last(e) = n
      BY DEF NamesOf
    <3>2. e \in Entries /\ e = Append(ParametersPath, n)
      BY <3>1, ParameterEntry DEF EntriesOf, ParameterPath
    <3> QED
      BY <1>4, <3>2
  <2> QED
    BY <1>6, <2>2, <2>3 DEF FollowsParameters
<1>7. ASSUME FollowsNodeSets(m)
      PROVE  FollowsNodeSets(d)
  <2>1. ASSUME NEW n \in DOMAIN TemplateNodeSets, NEW f \in {"host_class", "size"}
        PROVE  d[Append(NodeSetPath(n), f)] = m[Append(NodeSetPath(n), f)]
    BY <1>3, NodeSetPaths DEF StrictlyUnder
  <2> QED
    BY <1>4, <1>7, <2>1, NodeSetsSame
<1> QED
  BY <1>5, <1>6, <1>7 DEF d

\* What is stored is a message, if it is accepted.
LEMMA CreatedWellFormed ==
    ASSUME contents \in Templates, kind \in KindsOfObjects,
           NEW m \in AnyMessage, WellFormed(m), CreateAccepted(m)
    PROVE  WellFormed(DataOf(Created(m)))
<1>1. CASE kind = "cluster"
  <2> DEFINE w == WithNodeSets(m)
  <2>1. m[TemplatePath] = TemplateId
    BY <1>1 DEF CreateAccepted
  <2>2. w \in AnyMessage /\ WellFormed(w) /\ w[TemplatePath] = TemplateId
    BY <2>1, NodeSetsTyped, NodeSetsWellFormed, TemplateKeepsPlain DEF Plain
  <2> HIDE DEF w
  <2>3. WithDefaults(w) \in AnyMessage /\ WellFormed(WithDefaults(w))
    BY <2>2, DefaultsTyped, DefaultsWellFormed
  <2>4. Created(m) = WithDefaults(w)
    BY <1>1 DEF Created, w
  <2> QED
    BY <2>3, <2>4, DataFollows
<1>2. CASE kind = "virtual machine"
  <2>1. m[TemplatePath] = TemplateId
    BY <1>2 DEF CreateAccepted
  <2>2. WithDefaults(m) \in AnyMessage /\ WellFormed(WithDefaults(m))
    BY <2>1, DefaultsTyped, DefaultsWellFormed
  <2>3. Created(m) = WithDefaults(m)
    BY <1>2 DEF Created
  <2> QED
    BY <2>2, <2>3, DataFollows
<1>3. CASE kind = "host pool"
  BY <1>3, DataFollows DEF Created
<1> QED
  BY <1>1, <1>2, <1>3 DEF KindsOfObjects

FollowsTemplate(m) ==
    /\ kind # "host pool" => FollowsParameters(m)
    /\ kind = "cluster" => FollowsNodeSets(m)

LEMMA CreatedFollows ==
    ASSUME contents \in Templates, kind \in KindsOfObjects, TemplateConsistent,
           NEW m \in AnyMessage, WellFormed(m), CreateAccepted(m)
    PROVE  FollowsTemplate(DataOf(Created(m)))
<1>1. CASE kind = "cluster"
  <2> DEFINE w == WithNodeSets(m)
  <2>1. m[TemplatePath] = TemplateId /\ NodeSetsAccepted(m) /\ ParametersAccepted(m)
    BY <1>1 DEF CreateAccepted
  <2>2. w \in AnyMessage /\ WellFormed(w) /\ w[TemplatePath] = TemplateId
    BY <2>1, NodeSetsTyped, NodeSetsWellFormed, TemplateKeepsPlain DEF Plain
  <2>3. ParametersAccepted(w) /\ FollowsNodeSets(w)
    BY <2>1, NodeSetsKeepParameters, NodeSetsFollow
  <2> HIDE DEF w
  <2>4. /\ WithDefaults(w) \in AnyMessage /\ WellFormed(WithDefaults(w))
        /\ FollowsParameters(WithDefaults(w)) /\ FollowsNodeSets(WithDefaults(w))
    BY <2>2, <2>3, DefaultsTyped, DefaultsWellFormed, ParametersFollow, DefaultsKeepNodeSets
  <2>5. Created(m) = WithDefaults(w)
    BY <1>1 DEF Created, w
  <2> QED
    BY <2>4, <2>5, DataFollows DEF FollowsTemplate
<1>2. CASE kind = "virtual machine"
  <2>1. m[TemplatePath] = TemplateId /\ ParametersAccepted(m)
    BY <1>2 DEF CreateAccepted
  <2>2. /\ WithDefaults(m) \in AnyMessage /\ WellFormed(WithDefaults(m))
        /\ FollowsParameters(WithDefaults(m))
    BY <2>1, DefaultsTyped, DefaultsWellFormed, ParametersFollow
  <2>3. Created(m) = WithDefaults(m)
    BY <1>2 DEF Created
  <2> QED
    BY <1>2, <2>2, <2>3, DataFollows DEF FollowsTemplate
<1>3. CASE kind = "host pool"
  <2>1. Created(m) = m
    BY <1>3 DEF Created
  <2> QED
    BY <1>3, <2>1, DataFollows DEF FollowsTemplate
<1> QED
  BY <1>1, <1>2, <1>3 DEF KindsOfObjects

\* What a Create writes.
LEMMA CreateWrites ==
    ASSUME TypeOK, ServerTypeOK, NEW id \in Ids, NEW stamp \in Stamps,
           NEW m \in PublicMessages, ServerCreate(id, stamp, m)
    PROVE  \E ignored \in {Ignored, {StatusPath}} : \E object \in AnyMessage :
               /\ object = Copy(m, Empty, ignored) /\ WellFormed(object)
               /\ CreateAccepted(object) /\ Created(object) \in AnyMessage
               /\ Last(log').type = "created" /\ Last(log').row \in Row
               /\ Last(log').row.data = DataOf(Created(object))
               /\ table' = [table EXCEPT ![id] = Outcome(Last(log').row)]
<1>1. PICK finalizers \in SUBSET Finalizers :
          LET object == Copy(m, Empty, IF finalizers = {} THEN Ignored ELSE {StatusPath})
          IN  /\ CreateAccepted(object)
              /\ Create(id, stamp, finalizers, {}, DataOf(Created(object)))
  BY DEF ServerCreate
<1> DEFINE ignored == IF finalizers = {} THEN Ignored ELSE {StatusPath}
           object == Copy(m, Empty, ignored)
           data == DataOf(Created(object))
           row == [created |-> stamp, deleted |-> FALSE, finalizers |-> finalizers,
                   tenants |-> {}, data |-> data]
<1>2. /\ m \in AnyMessage /\ WellFormed(m)
      /\ ignored \in {Ignored, {StatusPath}} /\ ignored \in SUBSET Plain
  BY ServerAssumption DEF Ignored, Plain
<1>3. CreateAccepted(object) /\ Create(id, stamp, finalizers, {}, data)
  BY <1>1
<1> HIDE DEF ignored
<1>4. object \in AnyMessage /\ WellFormed(object)
  BY <1>2, EmptyTyped, EmptyWellFormed, CopyTyped, CopyWellFormed
<1>5. object = Copy(m, Empty, ignored)
  OBVIOUS
<1> HIDE DEF object
<1>6. Created(object) \in AnyMessage /\ data \in Data
  BY <1>4, CreatedTyped, DataTyped DEF ServerTypeOK
<1> HIDE DEF data
<1>7. row \in Row /\ row.data = data
  BY <1>6 DEF Row
<1>8. Apply("created", id, row)
  BY <1>3 DEF Create
<1> HIDE DEF row
<1>9. Last(log').type = "created" /\ Last(log').row = row
  BY <1>7, <1>8, Announces DEF EventTypes
<1>10. table' = [table EXCEPT ![id] = Outcome(row)]
  BY <1>8 DEF Apply
<1> QED
  BY <1>2, <1>3, <1>4, <1>5, <1>6, <1>7, <1>9, <1>10 DEF data

\* Nothing else is announced as created.
LEMMA OnlyCreateCreates ==
    ASSUME TypeOK, ServerTypeOK, [ServerNext]_serverVars,
           log' # log, Last(log').type = "created"
    PROVE  \E id \in Ids, stamp \in Stamps, m \in PublicMessages : ServerCreate(id, stamp, m)
<1>1. contents \in Templates
  BY DEF ServerTypeOK
<1>2. ASSUME NEW c \in Callers, WritePublic(c)
      PROVE  FALSE
  <2>1. /\ calls[c].id \in Ids /\ calls[c].mask \in MaskType
        /\ calls[c].object \in Having(FinalizersPath, KnownFinalizers)
    BY <1>2 DEF WritePublic, ServerTypeOK, Call
  <2>2. PrivateUpdate(calls[c].id, calls[c].object, calls[c].mask)
    BY <1>2 DEF WritePublic
  <2> QED
    BY <1>1, <2>1, <2>2, PrivateUpdateWrites
<1>3. ASSUME NEW id \in Ids, SetStatus(id)
      PROVE  FALSE
  <2> DEFINE object == [MessageOf(table[id]) EXCEPT ![StatusPath] = Present,
                                                   ![StatePath] = Ready, ![HubPath] = Hub]
  <2>1. table[id] \in Row
    BY <1>3 DEF SetStatus, TypeOK
  <2>2. object \in Having(FinalizersPath, KnownFinalizers)
    BY <2>1, SetObjectTyped
  <2> HIDE DEF object
  <2>3. PrivateUpdate(id, object, NoMask)
    BY <1>3 DEF SetStatus, object
  <2> QED
    BY <1>1, <2>2, <2>3, PrivateUpdateWrites DEF MaskType
<1>4. ASSUME NEW id \in Ids, ServerDelete(id)
      PROVE  FALSE
  <2> DEFINE row == [table[id] EXCEPT !.deleted = TRUE]
  <2>1. table[id] \in Row
    BY <1>4 DEF ServerDelete, Delete, TypeOK
  <2>2. row \in Row
    BY <2>1 DEF Row
  <2>3. Apply("deleted", id, row)
    BY <1>4 DEF ServerDelete, Delete
  <2> QED
    BY <2>2, <2>3, Announces DEF EventTypes
<1> QED
  BY <1>2, <1>3, <1>4 DEF ServerNext, ReadPublic, ChangeTemplate, serverVars, store

TemplateStep ==
    log' # log /\ Last(log').type = "created" =>
        LET m == Last(log').row.data
        IN  /\ WellFormed(m)
            /\ (kind # "host pool" /\ TemplateConsistent) => FollowsParameters(m)
            /\ (kind = "cluster" /\ TemplateConsistent) => FollowsNodeSets(m)

LEMMA TemplateStepHolds ==
    ASSUME TypeOK, ServerTypeOK, [ServerNext]_serverVars
    PROVE  [TemplateStep]_serverVars
<1> SUFFICES ASSUME log' # log, Last(log').type = "created"
             PROVE  /\ WellFormed(Last(log').row.data)
                    /\ TemplateConsistent => FollowsTemplate(Last(log').row.data)
  BY DEF TemplateStep, FollowsTemplate
<1>1. contents \in Templates /\ kind \in KindsOfObjects
  BY DEF ServerTypeOK
<1>2. PICK id \in Ids, stamp \in Stamps, m \in PublicMessages : ServerCreate(id, stamp, m)
  BY OnlyCreateCreates
<1>3. PICK object \in AnyMessage :
          /\ WellFormed(object) /\ CreateAccepted(object)
          /\ Last(log').row.data = DataOf(Created(object))
  BY <1>2, CreateWrites
<1> QED
  BY <1>1, <1>3, CreatedWellFormed, CreatedFollows

(***************************************************************************)
(* What is created follows the template as it is then, whatever users      *)
(* send, if the defaults and the sizes of the template follow it           *)
(* themselves (the template handling of PrivateClustersServer and of       *)
(* PrivateVirtualMachinesServer, ProcessTemplateParametersWithDefaults).   *)
(***************************************************************************)
THEOREM TemplateFollowed == ServerSpec => CreatedFromTemplate
<1>1. TypeOK /\ ServerTypeOK /\ [ServerNext]_serverVars => [TemplateStep]_serverVars
  BY TemplateStepHolds
<1>2. ServerSpec => [][TemplateStep]_serverVars
  BY <1>1, ServersTyped, PTL DEF ServerSpec
<1> QED
  BY <1>2 DEF CreatedFromTemplate, TemplateStep
----------------------------------------------------------------------------
(* Private data in the copies *)

LEMMA StatusFields ==
    /\ {StatusPath, HubPath, MetadataPath, FinalizersPath} \subseteq Paths
    /\ HubPath \in Leaves /\ FinalizersPath \in Leaves
    /\ StatusPath \in Plain /\ HubPath \in Plain
    /\ {StatusPath, HubPath} \intersect {MetadataPath, FinalizersPath} = {}
    /\ Front(HubPath) = StatusPath /\ Front(FinalizersPath) = MetadataPath
    /\ \A p \in {HubPath, FinalizersPath} :
           StrictlyUnder(Front(p), p) /\ Under(p, p) /\ Front(p) \in Paths
    /\ \A p \in {StatusPath, MetadataPath} :
           /\ p \notin HiddenPaths /\ p \notin Entries /\ Under(p, p)
           /\ \A r \in Paths : ~StrictlyUnder(r, p)
<1>1. /\ {StatusPath, HubPath, MetadataPath, FinalizersPath} \subseteq Paths
      /\ HubPath \in Leaves /\ FinalizersPath \in Leaves
      /\ StatusPath \in Plain /\ HubPath \in Plain
      /\ {StatusPath, HubPath} \intersect {MetadataPath, FinalizersPath} = {}
      /\ Front(HubPath) = StatusPath /\ Front(FinalizersPath) = MetadataPath
  BY PlainPaths, FieldPaths, FieldsDiffer, LengthsDiffer DEF Plain, Leaves
<1>2. ASSUME NEW p \in {HubPath, FinalizersPath}
      PROVE  StrictlyUnder(Front(p), p) /\ Under(p, p) /\ Front(p) \in Paths
  <2>1. p \in Seq(Names) /\ Len(p) = 2
    BY <1>1, FieldPaths
  <2>2. Len(p) > 1
    BY <2>1, SMT
  <2> QED
    BY <1>1, <2>1, <2>2, FrontProperties, UnderItself
<1>3. ASSUME NEW p \in {StatusPath, MetadataPath}
      PROVE  /\ p \notin HiddenPaths /\ p \notin Entries /\ Under(p, p)
             /\ \A r \in Paths : ~StrictlyUnder(r, p)
  <2>1. p \in Plain /\ p \in Seq(Names)
    BY FieldPaths DEF Plain
  <2>2. Under(p, p)
    BY <2>1, UnderItself
  <2>3. p \notin HiddenPaths
    BY <1>1, LengthsDiffer, ServerAssumption
  <2> QED
    BY <2>1, <2>2, <2>3, PlainOutsideMaps, UnderTop DEF StrictlyUnder
<1> QED
  BY <1>1, <1>2, <1>3

\* What is copied of the enclosing fields of the private data, and of the data.
LEMMA CopyHidden ==
    ASSUME NEW from \in AnyMessage, NEW to \in AnyMessage, NEW ignored \in SUBSET {StatusPath}
    PROVE  /\ \A p \in {HubPath, FinalizersPath} :
                  /\ Front(p) \in ignored => /\ Copy(from, to, ignored)[p] = to[p]
                                             /\ Copy(from, to, ignored)[Front(p)] = to[Front(p)]
                  /\ Front(p) \notin ignored =>
                         /\ Copy(from, to, ignored)[Front(p)] = from[Front(p)]
                         /\ Copy(from, to, ignored)[p]
                                = IF from[Front(p)] # Absent THEN to[p] ELSE from[p]
<1> SUFFICES ASSUME NEW p \in {HubPath, FinalizersPath}
             PROVE  /\ Front(p) \in ignored => /\ Kept(p, from, ignored)
                                               /\ Kept(Front(p), from, ignored)
                    /\ Front(p) \notin ignored =>
                           /\ ~Kept(Front(p), from, ignored)
                           /\ Kept(p, from, ignored) <=> from[Front(p)] # Absent
  BY StatusFields DEF Copy
<1>1. /\ p \in Paths /\ p \in Leaves /\ p \in HiddenPaths /\ p \notin ignored
      /\ Front(p) \in {StatusPath, MetadataPath}
      /\ Front(p) \in Paths /\ Under(Front(p), p) /\ Under(p, p) /\ p \notin Entries
  <2>1. p \notin Entries
    BY StatusFields, PlainOutsideMaps DEF Plain
  <2> QED
    BY <2>1, StatusFields, ServerAssumption DEF StrictlyUnder
<1> DEFINE f == Front(p)
<1>2. /\ f \notin HiddenPaths /\ f \notin Entries /\ Under(f, f)
      /\ \A r \in Paths : ~StrictlyUnder(r, f)
  BY <1>1, StatusFields
<1>3. \A q \in Paths : Under(q, f) => q = f
  BY <1>2 DEF StrictlyUnder
<1>4. \A q \in Paths : Under(q, p) => q = p \/ q = f
  BY <1>1, UnderLeaf
<1>5. StrictlyUnder(f, p) /\ \A r \in Paths : StrictlyUnder(r, p) => r = f
  BY <1>4, StatusFields DEF StrictlyUnder
<1> HIDE DEF f
<1>6. ASSUME f \in ignored
      PROVE  Kept(p, from, ignored) /\ Kept(f, from, ignored)
  BY <1>1, <1>2, <1>6 DEF Kept, f
<1>7. ASSUME f \notin ignored
      PROVE  ~Kept(f, from, ignored)
  BY <1>2, <1>3, <1>7 DEF Kept
<1>8. ASSUME f \notin ignored, from[f] # Absent
      PROVE  Kept(p, from, ignored)
  BY <1>1, <1>5, <1>8 DEF Kept
<1>9. ASSUME f \notin ignored, from[f] = Absent
      PROVE  ~Kept(p, from, ignored)
  <2> SUFFICES ASSUME NEW q \in Paths, Under(q, p),
                      \A r \in Paths : StrictlyUnder(r, q)
                          => from[r] # Absent /\ r \notin ignored,
                      q \in HiddenPaths \union ignored \/ (q \in Entries /\ from[q] = Absent)
               PROVE  FALSE
    BY DEF Kept
  <2>1. q = p \/ q = f
    BY <1>4
  <2>2. CASE q = p
    BY <1>1, <1>5, <1>9, <2>2 DEF f
  <2>3. CASE q = f
    BY <1>2, <1>9, <2>3
  <2> QED
    BY <2>1, <2>2, <2>3
<1> QED
  BY <1>6, <1>7, <1>8, <1>9 DEF f

----------------------------------------------------------------------------
(* The two copies *)

(***************************************************************************)
(* Everything on the way to what is there is there, and what is inside of  *)
(* what isn't there isn't there.                                           *)
(***************************************************************************)
LEMMA EnclosersPresent ==
    ASSUME NEW m \in AnyMessage, WellFormed(m), NEW p \in Paths, NEW q \in Paths,
           StrictlyUnder(p, q), m[q] # Absent
    PROVE  m[p] = Present
<1> DEFINE Inside == {r \in Paths : StrictlyUnder(p, r) /\ m[r] # Absent}
           Lengths == {Len(r) : r \in Inside}
<1>1. Lengths \in SUBSET Nat /\ Lengths # {}
  BY PathTyped
<1>2. PICK k \in Lengths : \A l \in Lengths : k <= l
  BY <1>1, Least
<1>3. PICK r \in Inside : k = Len(r)
  OBVIOUS
<1>4. r \in Seq(Names) /\ p \in Seq(Names) /\ Len(p) >= 1 /\ StrictlyUnder(p, r)
  BY <1>3, PathTyped
<1>5. Len(r) > 1 /\ Under(p, Front(r))
  BY <1>4, UnderFront
<1>6. Front(r) \in Paths /\ m[Front(r)] = Present /\ m[Front(r)] # Absent
  BY <1>3, <1>5, FrontPresent
<1>7. Front(r) = p
  <2> SUFFICES ASSUME Front(r) # p
               PROVE  FALSE
    OBVIOUS
  <2>1. Front(r) \in Inside
    BY <1>5, <1>6 DEF StrictlyUnder
  <2>2. Len(r) <= Len(Front(r))
    BY <1>2, <1>3, <2>1
  <2>3. Len(Front(r)) = Len(r) - 1 /\ Len(r) \in Nat
    BY <1>4, <1>5, FrontProperties, LenProperties
  <2> QED
    BY <2>2, <2>3, SMT
<1> QED
  BY <1>6, <1>7

\* A path of a mask makes a message of a message.
LEMMA UpdateWellFormed ==
    ASSUME NEW m \in AnyMessage, WellFormed(m), NEW from \in AnyMessage, WellFormed(from),
           NEW path \in Paths
    PROVE  WellFormed(PathUpdate(m, path, from))
<1> DEFINE set == [p \in Paths |-> IF Under(path, p) THEN from[p]
                                   ELSE IF StrictlyUnder(p, path) THEN Present
                                   ELSE IF \E e \in Through(path) : Under(e, p) THEN Absent
                                   ELSE m[p]]
           clear == [p \in Paths |-> IF Under(path, p) THEN Absent ELSE m[p]]
<1>1. set \in AnyMessage /\ clear \in AnyMessage
  BY PathsAssumption DEF AnyMessage
<1>2. \A p \in Paths : Len(p) > 1 =>
          /\ Front(p) \in Paths /\ Under(Front(p), p) /\ StrictlyUnder(Front(p), p)
          /\ m[Front(p)] \in {Absent, Present} /\ from[Front(p)] \in {Absent, Present}
          /\ m[p] # Absent => m[Front(p)] # Absent
          /\ from[p] # Absent => from[Front(p)] # Absent
  BY FrontPresent, PathTyped, FrontProperties DEF StrictlyUnder
<1>3. Present # Absent
  BY PathsAssumption
<1>4. ASSUME NEW p \in Paths, Len(p) > 1
      PROVE  /\ set[Front(p)] \in {Absent, Present} /\ clear[Front(p)] \in {Absent, Present}
             /\ set[p] # Absent => set[Front(p)] # Absent
             /\ clear[p] # Absent => clear[Front(p)] # Absent
  <2>1. \A q \in Paths : Under(q, Front(p)) => Under(q, p)
    BY <1>2, <1>4, UnderUnder, PathTyped
  <2>2. \A q \in Paths : StrictlyUnder(p, q) => StrictlyUnder(Front(p), q)
    <3> TAKE q \in Paths
    <3> HAVE StrictlyUnder(p, q)
    <3>1. Under(Front(p), q)
      BY <1>2, <1>4, UnderUnder, PathTyped DEF StrictlyUnder
    <3>2. Len(Front(p)) = Len(p) - 1 /\ Len(p) \in Nat /\ Len(p) <= Len(q)
      BY <1>4, PathTyped, FrontProperties, UnderLen DEF StrictlyUnder
    <3>3. Front(p) # q
      BY <3>2, SMT
    <3> QED
      BY <3>1, <3>3 DEF StrictlyUnder
  <2>3. Under(path, p) => p = path \/ Under(path, Front(p))
    BY PathTyped, UnderFront DEF StrictlyUnder
  <2>4. \A e \in Through(path) : e \in Paths
    BY DEF Through, Entries
  <2>5. set[Front(p)] \in {Absent, Present} /\ clear[Front(p)] \in {Absent, Present}
    BY <1>2, <1>4
  <2>6. clear[p] # Absent => clear[Front(p)] # Absent
    BY <1>2, <1>4, <2>1
  <2>7. ASSUME set[p] # Absent
        PROVE  set[Front(p)] # Absent
    <3>1. CASE Under(path, p)
      <4>1. from[p] # Absent
        BY <2>7, <3>1
      <4>2. CASE p = path
        <5>1. StrictlyUnder(Front(p), path) /\ ~Under(path, Front(p))
          <6>1. Len(Front(p)) = Len(p) - 1 /\ Len(p) \in Nat /\ Front(p) \in Seq(Names)
            BY <1>4, PathTyped, FrontProperties
          <6>2. Under(path, Front(p)) => Len(p) <= Len(Front(p))
            BY <4>2, <6>1, PathTyped, UnderLen
          <6> QED
            BY <1>2, <1>4, <4>2, <6>1, <6>2, SMT
        <5> QED
          BY <1>2, <1>3, <1>4, <5>1
      <4>3. CASE p # path
        BY <1>2, <1>4, <2>3, <3>1, <4>1, <4>3
      <4> QED
        BY <4>2, <4>3
    <3>2. CASE ~Under(path, p) /\ StrictlyUnder(p, path)
      BY <1>2, <1>3, <1>4, <2>1, <2>2, <3>2
    <3>3. CASE ~Under(path, p) /\ ~StrictlyUnder(p, path)
      <4>1. ~(\E e \in Through(path) : Under(e, p)) /\ m[p] # Absent
        BY <2>7, <3>3
      <4>2. ~(\E e \in Through(path) : Under(e, Front(p))) /\ ~Under(path, Front(p))
        BY <2>1, <2>4, <3>3, <4>1
      <4> QED
        BY <1>2, <1>3, <1>4, <4>1, <4>2
    <3> QED
      BY <3>1, <3>2, <3>3
  <2> QED
    BY <2>5, <2>6, <2>7
<1>5. ASSUME NEW x \in {set, clear}
      PROVE  WellFormed(Normal(x))
  <2>1. x \in AnyMessage
    BY <1>1
  <2>2. \A p \in Paths : Len(p) > 1 =>
            /\ x[Front(p)] \in {Absent, Present}
            /\ x[p] # Absent => x[Front(p)] # Absent
    BY <1>4
  <2>3. \A e \in Entries : e \in Paths /\ Len(e) > 1 /\ Front(e) \in Paths
    BY PathsAssumption DEF Entries
  <2> HIDE DEF set, clear
  <2> QED
    BY <2>1, <2>2, <2>3, NormalWellFormed
<1> QED
  BY <1>5 DEF PathUpdate, PathSet, PathClear

(***************************************************************************)
(* A path that doesn't go through the entry of a map changes nothing if    *)
(* the other message is the same there.                                    *)
(***************************************************************************)
LEMMA UpdateSame ==
    ASSUME NEW m \in AnyMessage, WellFormed(m), NEW from, NEW path \in Paths,
           Through(path) = {}, \A p \in Paths : Under(path, p) => from[p] = m[p]
    PROVE  PathUpdate(m, path, from) = m
<1> DEFINE set == [p \in Paths |-> IF Under(path, p) THEN from[p]
                                   ELSE IF StrictlyUnder(p, path) THEN Present
                                   ELSE IF \E e \in Through(path) : Under(e, p) THEN Absent
                                   ELSE m[p]]
           clear == [p \in Paths |-> IF Under(path, p) THEN Absent ELSE m[p]]
<1>1. m = [p \in Paths |-> m[p]] /\ m = Normal(m)
  BY DEF AnyMessage, WellFormed
<1>2. from[path] = m[path]
  BY UnderItself, PathTyped
<1>3. CASE m[path] # Absent
  <2>1. \A p \in Paths : set[p] = m[p]
    BY <1>3, EnclosersPresent
  <2>2. set = [p \in Paths |-> set[p]]
    OBVIOUS
  <2> HIDE DEF set
  <2>3. set = m
    BY <1>1, <2>1, <2>2, Zenon
  <2> QED
    BY <1>1, <1>2, <1>3, <2>3 DEF PathUpdate, PathSet, set
<1>4. CASE m[path] = Absent
  <2>1. ASSUME NEW p \in Paths, Under(path, p)
        PROVE  m[p] = Absent
    BY <1>4, <2>1, EnclosersPresent, PathsAssumption DEF StrictlyUnder
  <2>2. \A p \in Paths : clear[p] = m[p]
    BY <2>1
  <2>3. clear = [p \in Paths |-> clear[p]]
    OBVIOUS
  <2> HIDE DEF clear
  <2>4. clear = m
    BY <1>1, <2>2, <2>3, Zenon
  <2> QED
    BY <1>1, <1>2, <1>4, <2>4 DEF PathUpdate, PathClear, clear
<1> QED
  BY <1>3, <1>4

\* So does a mask of such paths.
LEMMA MaskedSame ==
    ASSUME NEW m \in AnyMessage, WellFormed(m), NEW from, NEW mask \in Seq(Paths),
           NoMask \notin Seq(Paths),
           \A i \in DOMAIN mask :
               /\ Through(mask[i]) = {}
               /\ \A p \in Paths : Under(mask[i], p) => from[p] = m[p]
    PROVE  Masked(m, mask, from) = m
<1>1. Len(mask) \in Nat /\ DOMAIN mask = 1..Len(mask)
  BY LenProperties
<1>2. \A i \in 1..Len(mask) : mask[i] \in Paths
  BY <1>1, ElementOfSeq
<1>3. \A x \in {m} : \A i \in 1..Len(mask) : PathUpdate(x, mask[i], from) \in {m}
  BY <1>1, <1>2, UpdateSame
<1>4. \A i \in 0..Len(mask) : Stages(m, mask, from)[i] \in {m}
  BY <1>1, <1>3, StagesStay
<1>5. Len(mask) \in 0..Len(mask) /\ mask # NoMask
  BY <1>1, SMT
<1> QED
  BY <1>4, <1>5 DEF Masked

(***************************************************************************)
(* The two copies are inverse: what is read, copied back into what was     *)
(* read, is what was read.                                                 *)
(***************************************************************************)
LEMMA CopyBack ==
    ASSUME NEW m \in AnyMessage, WellFormed(m), NEW ignored \in SUBSET {StatusPath}
    PROVE  Copy(CopyOut(m), m, ignored) = m
<1> DEFINE copy == Copy(CopyOut(m), m, ignored)
<1>1. /\ CopyOut(m) \in AnyMessage
      /\ \A p \in Paths : CopyOut(m)[p] = IF p \in HiddenPaths THEN Absent ELSE m[p]
  BY CopyOutTyped DEF CopyOut
<1>2. ASSUME NEW p \in Paths
      PROVE  copy[p] = m[p]
  <2>1. CASE p \notin HiddenPaths
    BY <1>1, <2>1 DEF Copy
  <2>2. CASE p \in HiddenPaths
    <3>1. p \in {HubPath, FinalizersPath} /\ Front(p) \in Paths /\ Front(p) \notin HiddenPaths
          /\ StrictlyUnder(Front(p), p)
      BY <2>2, StatusFields, ServerAssumption
    <3>2. m[p] # Absent => m[Front(p)] # Absent
      BY <3>1, EnclosersPresent, PathsAssumption
    <3>3. /\ Front(p) \in ignored => copy[p] = m[p]
          /\ Front(p) \notin ignored =>
                 copy[p] = IF CopyOut(m)[Front(p)] # Absent THEN m[p] ELSE CopyOut(m)[p]
      BY <1>1, <3>1, CopyHidden
    <3> QED
      BY <1>1, <2>2, <3>1, <3>2, <3>3
  <2> QED
    BY <2>1, <2>2
<1>3. copy = [p \in Paths |-> copy[p]] /\ m = [p \in Paths |-> m[p]]
  BY DEF Copy, AnyMessage
<1> HIDE DEF copy
<1>4. copy = m
  BY <1>2, <1>3, Zenon
<1> QED
  BY <1>4 DEF copy

LEMMA FirstName ==
    ASSUME NEW q \in Paths, NEW p \in Paths, Under(q, p)
    PROVE  q[1] = p[1]
<1>1. Len(q) >= 1 /\ Len(q) \in Nat /\ q \in Seq(Names) /\ p \in Seq(Names)
  BY PathTyped
<1>2. 1 \in 1..Len(q)
  BY <1>1, SMT
<1> QED
  BY <1>1, <1>2, UnderLen

\* Into an empty message, the specification is copied back.
LEMMA CopyBackSpec ==
    ASSUME NEW m \in AnyMessage, WellFormed(m), NEW ignored \in SUBSET {StatusPath},
           NEW p \in Paths, p[1] = "spec"
    PROVE  Copy(CopyOut(m), Empty, ignored)[p] = m[p]
<1>1. \A q \in Paths : CopyOut(m)[q] = IF q \in HiddenPaths THEN Absent ELSE m[q]
  BY DEF CopyOut
<1>2. ASSUME NEW q \in Paths, Under(q, p)
      PROVE  q \notin HiddenPaths \union ignored
  <2>1. q[1] = "spec"
    BY <1>2, FirstName
  <2>2. FinalizersPath[1] = "metadata" /\ HubPath[1] = "status" /\ StatusPath[1] = "status"
    BY DEF FinalizersPath, HubPath, StatusPath
  <2>3. q \notin {FinalizersPath, HubPath, StatusPath}
    BY <2>1, <2>2
  <2> QED
    BY <2>3, ServerAssumption
<1>3. p \notin HiddenPaths
  BY <1>2, UnderItself, PathTyped
<1>4. CASE Kept(p, CopyOut(m), ignored)
  <2>1. PICK q \in Paths :
            /\ Under(q, p)
            /\ q \in HiddenPaths \union ignored \/ (q \in Entries /\ CopyOut(m)[q] = Absent)
    BY <1>4 DEF Kept
  <2>2. m[q] = Absent
    BY <1>1, <1>2, <2>1
  <2>3. m[p] = Absent
    BY <2>1, <2>2, EnclosersPresent, PathsAssumption DEF StrictlyUnder
  <2> QED
    BY <1>4, <2>3 DEF Copy, Empty
<1>5. CASE ~Kept(p, CopyOut(m), ignored)
  BY <1>1, <1>3, <1>5 DEF Copy
<1> QED
  BY <1>4, <1>5

----------------------------------------------------------------------------
(* What is in the table are messages. *)

LEMMA MessageWellFormed ==
    ASSUME NEW row \in Row, WellFormed(row.data)
    PROVE  WellFormed(MessageOf(row))
<1> DEFINE m == MessageOf(row)
<1>1. /\ m \in AnyMessage
      /\ \A p \in Paths \ {MetadataPath, FinalizersPath} : m[p] = row.data[p]
      /\ m[MetadataPath] = Present
  BY MessageTyped
<1> HIDE DEF m
<1>2. row.data \in AnyMessage /\ {MetadataPath, FinalizersPath} \in SUBSET Plain
  BY DataMessages DEF Row, Plain
<1>3. \A p \in Paths :
          (Len(p) > 1 /\ (p \in {MetadataPath, FinalizersPath}
                          \/ Front(p) \in {MetadataPath, FinalizersPath})) =>
              /\ m[Front(p)] \in {Absent, Present}
              /\ m[p] # Absent => m[Front(p)] = Present
  BY <1>1, MetadataInside, FieldPaths
<1>4. WellFormed(m)
  BY <1>1, <1>2, <1>3, PlainChange
<1> QED
  BY <1>4 DEF m

LEMMA CopyOutWellFormed ==
    ASSUME NEW m \in AnyMessage, WellFormed(m)
    PROVE  WellFormed(CopyOut(m))
<1>1. CopyOut(m) \in AnyMessage /\ HiddenPaths \in SUBSET Plain /\ HiddenPaths \subseteq Leaves
  BY CopyOutTyped, ServerAssumption DEF Plain, Leaves
<1>2. \A p \in Paths : CopyOut(m)[p] = IF p \in HiddenPaths THEN Absent ELSE m[p]
  BY DEF CopyOut
<1>3. \A p \in Paths : Len(p) > 1 => Front(p) \notin HiddenPaths
  BY <1>1, PathTyped, FrontProperties, FieldsAssumption DEF Leaves
<1>4. \A p \in Paths : Len(p) > 1 =>
          /\ CopyOut(m)[Front(p)] \in {Absent, Present}
          /\ CopyOut(m)[p] # Absent => CopyOut(m)[Front(p)] = Present
  BY <1>2, <1>3, FrontPresent
<1>5. \A p \in Paths \ HiddenPaths : CopyOut(m)[p] = m[p]
  BY <1>2
<1> QED
  BY <1>1, <1>4, <1>5, PlainChange

\* The status that the controller sets is in a message too.
LEMMA SetStatusWellFormed ==
    ASSUME NEW row \in Row, WellFormed(row.data)
    PROVE  WellFormed([MessageOf(row) EXCEPT ![StatusPath] = Present,
                                             ![StatePath] = Ready, ![HubPath] = Hub])
<1> DEFINE m == MessageOf(row)
           x == [m EXCEPT ![StatusPath] = Present, ![StatePath] = Ready, ![HubPath] = Hub]
           D == {StatusPath, StatePath, HubPath}
<1>1. m \in AnyMessage /\ WellFormed(m)
  BY MessageTyped, MessageWellFormed
<1>2. x \in AnyMessage
  BY SetObjectTyped DEF Having
<1> HIDE DEF m
<1>3. x = [[[m EXCEPT ![StatusPath] = Present] EXCEPT ![StatePath] = Ready] EXCEPT ![HubPath] = Hub]
  OBVIOUS
<1>4. /\ StatusPath \in Paths /\ StatePath \in Paths /\ HubPath \in Paths
      /\ StatusPath # StatePath /\ StatusPath # HubPath /\ D \in SUBSET Plain
  BY LengthsDiffer, StatusFields, PlainPaths DEF Leaves, Plain
<1>5. x[StatusPath] = Present /\ \A p \in Paths \ D : x[p] = m[p]
  BY <1>1, <1>3, <1>4 DEF AnyMessage
<1> HIDE DEF x
<1>6. ASSUME NEW p \in Paths, Len(p) > 1, p \in D \/ Front(p) \in D
      PROVE  Front(p) = StatusPath
  <2>1. StrictlyUnder(Front(p), p)
    BY <1>6, PathTyped, FrontProperties
  <2>2. Front(p) \notin {StatePath, HubPath}
    BY <2>1, FieldsAssumption
  <2>3. p # StatusPath
    <3> SUFFICES ASSUME p = StatusPath
                 PROVE  FALSE
      OBVIOUS
    <3>1. Len(p) = 1
      BY FieldPaths
    <3> QED
      BY <1>6, <3>1, SMT
  <2> QED
    BY <1>6, <2>2, <2>3, FieldPaths
<1>7. \A p \in Paths : (Len(p) > 1 /\ (p \in D \/ Front(p) \in D)) =>
          /\ x[Front(p)] \in {Absent, Present}
          /\ x[p] # Absent => x[Front(p)] = Present
  BY <1>5, <1>6
<1> HIDE DEF D
<1>8. WellFormed(x)
  BY <1>1, <1>2, <1>4, <1>5, <1>7, PlainChange
<1> QED
  BY <1>8 DEF x, m

----------------------------------------------------------------------------
(* What the servers exchange are messages. *)

\* What the public server is about to send is the request, copied into what it
\* has read.
SoundCall(call) ==
    /\ WellFormed(call.object) /\ WellFormed(call.read)
    /\ kind = "virtual machine" => call.mask = NoMask
    /\ call.object = Copy(call.request, IF kind = "host pool" THEN Empty ELSE call.read,
                          Ignored)

(***************************************************************************)
(* The invariant for what the copies keep: what rows hold are messages,    *)
(* and so is what the calls in flight carry.                               *)
(***************************************************************************)
TableSound == \A id \in Ids : table[id] # NoRow => WellFormed(table[id].data)

CallsSound == \A c \in Callers : calls[c] # NoCall => SoundCall(calls[c])

\* The mask and the checks of an update make a message of messages.
LEMMA ResultSound ==
    ASSUME contents \in Templates, ServerTypeOK, NEW row \in Row, WellFormed(row.data),
           NEW mask \in MaskType, NEW object \in AnyMessage, WellFormed(object),
           UpdateAccepted(object)
    PROVE  WellFormed(DataOf(Masked(MessageOf(row), mask, Updated(object))))
<1> DEFINE M == {m \in AnyMessage : WellFormed(m)}
           new == Masked(MessageOf(row), mask, Updated(object))
<1>1. MessageOf(row) \in M
  BY MessageTyped, MessageWellFormed
<1>2. Updated(object) \in M
  <2>1. kind = "virtual machine" => object[TemplatePath] = TemplateId
    BY DEF UpdateAccepted, CreateAccepted
  <2> QED
    BY <2>1, DefaultsTyped, DefaultsWellFormed DEF Updated
<1>3. \A x \in M : \A p \in Paths : PathUpdate(x, p, Updated(object)) \in M
  BY <1>2, UpdateStepTyped, UpdateWellFormed
<1> HIDE DEF M
<1>4. new \in M
  BY <1>1, <1>2, <1>3, MaskedStays DEF MaskType
<1> HIDE DEF new
<1>5. WellFormed(DataOf(new))
  BY <1>4, DataFollows DEF M
<1> QED
  BY <1>5 DEF new

LEMMA PrivateUpdateSound ==
    ASSUME TypeOK, ServerTypeOK, TableSound, NEW id \in Ids, NEW mask \in MaskType,
           NEW object \in Having(FinalizersPath, KnownFinalizers), WellFormed(object),
           PrivateUpdate(id, object, mask)
    PROVE  TableSound'
<1>1. contents \in Templates
  BY DEF ServerTypeOK
<1>2. CASE table' = table
  BY <1>2 DEF TableSound
<1>3. CASE table' # table
  <2> DEFINE new == UpdateResult(id, object, mask)
             row == Rewritten(id, new)
  <2>1. log' # log
    <3>1. ~UNCHANGED vars
      BY <1>3 DEF vars
    <3>2. /\ Update(id, FinalizersOf(new), DataOf(new)) /\ table[id] \in Row
          /\ new \in Having(FinalizersPath, KnownFinalizers)
      BY <1>1, <3>1, PrivateUpdateStep
    <3> HIDE DEF new
    <3>3. row \in Row
      BY <3>2, ResultTyped DEF Rewritten, Row
    <3>4. Apply("updated", id, row)
      BY <3>2 DEF Update, Rewritten
    <3> QED
      BY <3>3, <3>4, Announces DEF EventTypes
  <2>2. /\ table[id] \in Row /\ table[id] # NoRow /\ UpdateAccepted(object)
        /\ Apply("updated", id, row)
    BY <1>1, <2>1, PrivateUpdateWrites
  <2>3. WellFormed(DataOf(new))
    BY <1>1, <2>2, ResultSound DEF UpdateResult, TableSound, Having
  <2> HIDE DEF new
  <2>4. row.data = DataOf(new)
    BY <2>2 DEF Row, Rewritten
  <2>5. table' = [table EXCEPT ![id] = Outcome(row)]
    BY <2>2 DEF Apply
  <2> HIDE DEF row
  <2> QED
    BY <2>3, <2>4, <2>5 DEF TypeOK, Outcome, TableSound
<1> QED
  BY <1>2, <1>3

LEMMA ReadSound ==
    ASSUME TypeOK, ServerTypeOK, TableSound, CallsSound,
           NEW c \in Callers, NEW id \in Ids, NEW mask \in Masks,
           NEW m \in AnyMessage, WellFormed(m), m[FinalizersPath] = Absent,
           ReadPublic(c, id, m, mask)
    PROVE  TableSound' /\ CallsSound'
<1> DEFINE call == CallOf(id, m, mask)
<1>1. /\ call.object = Copy(m, Target(id), Ignored)
      /\ call.request = m /\ call.read = Current(id)
      /\ call.mask = IF kind = "virtual machine" THEN NoMask ELSE mask
  BY DEF CallOf
<1> HIDE DEF call
<1>2. /\ Current(id) \in AnyMessage /\ Target(id) \in AnyMessage
      /\ WellFormed(Current(id)) /\ WellFormed(Target(id))
  <2>1. table[id] # NoRow => table[id] \in Row /\ WellFormed(table[id].data)
    BY DEF TypeOK, TableSound
  <2> QED
    BY <2>1, CurrentTyped, MessageWellFormed, EmptyWellFormed DEF Current, Target
<1>3. Ignored \in SUBSET Plain
  BY DEF Ignored, Plain
<1>4. WellFormed(call.object)
  BY <1>1, <1>2, <1>3, CopyWellFormed
<1>5. SoundCall(call)
  BY <1>1, <1>2, <1>4 DEF SoundCall, Target
<1>6. calls' = [calls EXCEPT ![c] = call]
  BY ReadTyped DEF call
<1>7. \A x \in Callers : calls'[x] # NoCall => SoundCall(calls'[x])
  BY <1>5, <1>6 DEF CallsSound, ServerTypeOK
<1>8. kind' = kind /\ Ignored' = Ignored /\ table' = table
  BY DEF ReadPublic, store, Ignored
<1>9. TableSound'
  BY <1>8 DEF TableSound
<1>10. CallsSound'
  BY <1>7, <1>8 DEF CallsSound, SoundCall
<1> QED
  BY <1>9, <1>10

LEMMA SoundStep ==
    ASSUME TypeOK, ServerTypeOK, TableSound, CallsSound, [ServerNext]_serverVars
    PROVE  TableSound' /\ CallsSound'
<1>1. kind' = kind /\ Ignored' = Ignored
  BY DEF ServerNext, ServerCreate, ReadPublic, WritePublic, SetStatus, ServerDelete,
         ChangeTemplate, serverVars, Ignored
\* The steps that write a row leave the calls in flight as they are.
<1>2. ASSUME \A c \in Callers : calls'[c] = calls[c] \/ calls'[c] = NoCall
      PROVE  CallsSound'
  BY <1>1, <1>2 DEF CallsSound, SoundCall
<1>3. CASE UNCHANGED store /\ UNCHANGED calls
  BY <1>1, <1>2, <1>3 DEF store, TableSound
<1>4. ASSUME NEW id \in Ids, NEW stamp \in Stamps, NEW m \in PublicMessages,
             ServerCreate(id, stamp, m)
      PROVE  TableSound' /\ CallsSound'
  <2>1. PICK object \in AnyMessage :
            /\ WellFormed(object) /\ CreateAccepted(object)
            /\ Last(log').row.data = DataOf(Created(object))
            /\ table' = [table EXCEPT ![id] = Outcome(Last(log').row)]
    BY <1>4, CreateWrites
  <2>2. WellFormed(Last(log').row.data)
    BY <2>1, CreatedWellFormed DEF ServerTypeOK
  <2>3. TableSound'
    BY <2>1, <2>2 DEF Outcome, TypeOK, TableSound
  <2> QED
    BY <1>2, <1>4, <2>3 DEF ServerCreate
<1>5. ASSUME NEW c \in Callers, WritePublic(c)
      PROVE  TableSound' /\ CallsSound'
  <2>1. calls[c] \in Call /\ SoundCall(calls[c])
    BY <1>5 DEF WritePublic, ServerTypeOK, CallsSound
  <2>2. PrivateUpdate(calls[c].id, calls[c].object, calls[c].mask)
    BY <1>5 DEF WritePublic
  <2>3. TableSound'
    BY <2>1, <2>2, PrivateUpdateSound DEF Call, SoundCall
  <2>4. \A x \in Callers : calls'[x] = calls[x] \/ calls'[x] = NoCall
    BY <1>5 DEF WritePublic, ServerTypeOK
  <2> QED
    BY <1>2, <2>3, <2>4
<1>6. ASSUME NEW id \in Ids, SetStatus(id)
      PROVE  TableSound' /\ CallsSound'
  <2> DEFINE object == [MessageOf(table[id]) EXCEPT ![StatusPath] = Present,
                                                   ![StatePath] = Ready, ![HubPath] = Hub]
  <2>1. table[id] \in Row /\ WellFormed(table[id].data)
    BY <1>6 DEF SetStatus, TypeOK, TableSound
  <2>2. object \in Having(FinalizersPath, KnownFinalizers) /\ WellFormed(object)
    BY <2>1, SetObjectTyped, SetStatusWellFormed
  <2> HIDE DEF object
  <2>3. PrivateUpdate(id, object, NoMask)
    BY <1>6 DEF SetStatus, object
  <2>4. TableSound'
    BY <2>2, <2>3, PrivateUpdateSound DEF MaskType
  <2> QED
    BY <1>2, <1>6, <2>4 DEF SetStatus
<1>7. ASSUME NEW id \in Ids, ServerDelete(id)
      PROVE  TableSound' /\ CallsSound'
  <2>1. table[id] \in Row /\ WellFormed(table[id].data)
    BY <1>7 DEF ServerDelete, Delete, TypeOK, TableSound
  <2>2. [table[id] EXCEPT !.deleted = TRUE].data = table[id].data
    BY <2>1 DEF Row
  <2>3. table' = [table EXCEPT ![id] = Outcome([table[id] EXCEPT !.deleted = TRUE])]
    BY <1>7 DEF ServerDelete, Delete, Apply
  <2>4. TableSound'
    BY <2>1, <2>2, <2>3 DEF TypeOK, Outcome, TableSound
  <2> QED
    BY <1>2, <1>7, <2>4 DEF ServerDelete
<1>8. ASSUME NEW c \in Callers, NEW id \in Ids, NEW mask \in Masks, NEW m \in AnyMessage,
             WellFormed(m), m[FinalizersPath] = Absent, ReadPublic(c, id, m, mask)
      PROVE  TableSound' /\ CallsSound'
  BY <1>8, ReadSound
<1>9. /\ \A m \in PublicMessages :
             m \in AnyMessage /\ WellFormed(m) /\ m[FinalizersPath] = Absent
      /\ \A id \in Ids : table[id] # NoRow =>
             /\ CopyOut(MessageOf(table[id])) \in AnyMessage
             /\ WellFormed(CopyOut(MessageOf(table[id])))
             /\ CopyOut(MessageOf(table[id]))[FinalizersPath] = Absent
  <2>1. \A id \in Ids : table[id] # NoRow =>
            MessageOf(table[id]) \in AnyMessage /\ WellFormed(MessageOf(table[id]))
    BY MessageTyped, MessageWellFormed DEF TypeOK, TableSound
  <2> QED
    BY <2>1, PublicTyped, CopyOutWellFormed, ServerAssumption
<1>10. UNCHANGED serverVars \/ ChangeTemplate => UNCHANGED store /\ UNCHANGED calls
  BY DEF serverVars, ChangeTemplate
<1> QED
  BY <1>3, <1>4, <1>5, <1>6, <1>7, <1>8, <1>9, <1>10 DEF ServerNext

LEMMA AlwaysSound == ServerSpec => [](TypeOK /\ ServerTypeOK /\ TableSound /\ CallsSound)
<1>1. ServerInit => TableSound /\ CallsSound
  BY DEF ServerInit, Init, TableSound, CallsSound
<1>2. TypeOK /\ ServerTypeOK /\ TableSound /\ CallsSound /\ [ServerNext]_serverVars
          => TableSound' /\ CallsSound'
  BY SoundStep
<1> QED
  BY <1>1, <1>2, ServersTyped, PTL DEF ServerSpec

----------------------------------------------------------------------------
(* The status *)

\* What is in the status is what starts with its name.
LEMMA StatusFirst ==
    ASSUME NEW p \in Paths
    PROVE  Under(StatusPath, p) <=> p[1] = "status"
<1>1. /\ StatusPath \in Paths /\ StatusPath \in Seq(Names) /\ Len(StatusPath) = 1
      /\ StatusPath[1] = "status"
  BY FieldPaths DEF StatusPath
<1>2. p \in Seq(Names) /\ Len(p) \in Nat /\ Len(p) >= 1
  BY PathTyped
<1>3. Under(StatusPath, p) => p[1] = "status"
  BY <1>1, FirstName
<1>4. p[1] = "status" => Under(StatusPath, p)
  BY <1>1, <1>2, SMT DEF Under, IsPrefix
<1> QED
  BY <1>3, <1>4

StatusOf == {p \in Paths \ MapFields : Under(StatusPath, p)}

\* The template has nothing to do with the status, and the metadata aren't in it.
LEMMA TemplateKeepsStatus ==
    ASSUME NEW m \in AnyMessage, NEW p \in StatusOf
    PROVE  /\ WithDefaults(m)[p] = m[p] /\ WithNodeSets(m)[p] = m[p]
           /\ p \in Paths \ {MetadataPath, FinalizersPath}
<1>1. p \in Paths /\ p \notin MapFields /\ p[1] = "status"
  BY StatusFirst DEF StatusOf
<1>2. /\ ParametersPath[1] = "spec" /\ NodeSetsPath[1] = "spec"
      /\ MetadataPath[1] = "metadata" /\ FinalizersPath[1] = "metadata"
      /\ ParametersPath \in Paths /\ NodeSetsPath \in Paths
  BY FieldPaths DEF ParametersPath, NodeSetsPath, MetadataPath, FinalizersPath
<1>3. \A e \in Entries : Under(e, p) => Front(e) \notin {ParametersPath, NodeSetsPath}
  <2> SUFFICES ASSUME NEW e \in Entries, Under(e, p)
               PROVE  Front(e)[1] = "status"
    BY <1>2
  <2>1. e \in Paths /\ e \in Seq(Names) /\ Len(e) > 1 /\ e[1] = "status"
    BY <1>1, FirstName, PathTyped DEF Entries
  <2>2. 1 \in 1..Len(e) - 1
    BY <2>1, LenProperties, SMT
  <2> QED
    BY <2>1, <2>2, FrontProperties
<1>4. p \in Entries => Front(p) # ParametersPath
  BY <1>1, <1>3, UnderItself, PathTyped
<1> QED
  BY <1>1, <1>2, <1>3, <1>4 DEF WithDefaults, WithNodeSets, Normal

\* The mapper doesn't copy what is inside of the status if it is ignored.
LEMMA StatusIgnored ==
    ASSUME NEW from \in AnyMessage, NEW to \in AnyMessage, NEW ignored,
           StatusPath \in ignored, NEW p \in Paths, Under(StatusPath, p)
    PROVE  Copy(from, to, ignored)[p] = to[p]
<1>1. StatusPath \in Paths /\ \A r \in Paths : ~StrictlyUnder(r, StatusPath)
  BY StatusFields
<1>2. Kept(p, from, ignored)
  BY <1>1 DEF Kept
<1> QED
  BY <1>2 DEF Copy

\* What a path of a mask makes of a field that isn't a map.
LEMMA FieldUpdate ==
    ASSUME NEW m, NEW from, NEW path \in Paths, NEW p \in Paths \ MapFields
    PROVE  PathUpdate(m, path, from)[p]
               = IF Under(path, p) THEN (IF from[path] # Absent THEN from[p] ELSE Absent)
                 ELSE IF from[path] # Absent /\ StrictlyUnder(p, path) THEN Present
                 ELSE IF from[path] # Absent /\ \E e \in Through(path) : Under(e, p)
                      THEN Absent
                 ELSE m[p]
  BY DEF PathUpdate, PathSet, PathClear, Normal

\* What it makes of the status, if that is the same in the request and in another message.
LEMMA StatusUpdate ==
    ASSUME NEW m \in AnyMessage, NEW from \in AnyMessage, WellFormed(from),
           NEW path \in Paths, NEW p \in StatusOf
    PROVE  \/ PathUpdate(m, path, from)[p] = m[p]
           \/ /\ Under(StatusPath, path)
              /\ \/ PathUpdate(m, path, from)[p] = from[p]
                 \/ Through(path) # {} /\ PathUpdate(m, path, from)[p] = Absent
<1>1. p \in Paths \ MapFields /\ p[1] = "status"
  BY StatusFirst DEF StatusOf
<1>2. CASE ~Under(StatusPath, path)
  <2>1. path[1] # "status"
    BY <1>2, StatusFirst
  <2>2. ~Under(path, p) /\ ~StrictlyUnder(p, path)
    BY <1>1, <2>1, FirstName DEF StrictlyUnder
  <2>3. \A e \in Through(path) : ~Under(e, p)
    BY <1>1, <2>1, FirstName DEF Through, StrictlyUnder, Entries
  <2> QED
    BY <1>1, <2>2, <2>3, FieldUpdate
<1>3. CASE Under(StatusPath, path)
  <2>1. CASE Under(path, p)
    <3>1. from[path] = Absent => from[p] = Absent
      BY <1>1, <2>1, EnclosersPresent, PathsAssumption DEF StrictlyUnder
    <3> QED
      BY <1>1, <1>3, <2>1, <3>1, FieldUpdate
  <2>2. CASE ~Under(path, p) /\ from[path] # Absent /\ StrictlyUnder(p, path)
    <3>1. from[p] = Present
      BY <1>1, <2>2, EnclosersPresent
    <3> QED
      BY <1>1, <1>3, <2>2, <3>1, FieldUpdate
  <2>3. CASE ~Under(path, p) /\ ~(from[path] # Absent /\ StrictlyUnder(p, path))
    BY <1>1, <1>3, <2>3, FieldUpdate
  <2> QED
    BY <2>1, <2>2, <2>3
<1> QED
  BY <1>2, <1>3

\* The last of the stages of a mask is one of them.
LEMMA LastInInterval ==
    ASSUME NEW n \in Nat
    PROVE  n \in 0..n
OBVIOUS

StatusStep ==
    kind # "virtual machine" => \A p \in Paths \ MapFields : Under(StatusPath, p) =>
        /\ log' # log /\ Last(log').type = "created" => Written[p] = Absent
        /\ \A c \in Callers :
               LET call == calls[c]
               IN  UserWrites(c) => \/ Written[p] = MessageOf(table[call.id])[p]
                                    \/ kind = "cluster" /\ Written[p] = call.read[p]
                                    \/ Erases(call) /\ Written[p] = Absent

LEMMA StatusStepHolds ==
    ASSUME TypeOK, ServerTypeOK, CallsSound, [ServerNext]_serverVars
    PROVE  [StatusStep]_serverVars
<1> SUFFICES ASSUME kind # "virtual machine", NEW p \in StatusOf
             PROVE  /\ log' # log /\ Last(log').type = "created" => Written[p] = Absent
                    /\ \A c \in Callers :
                           UserWrites(c) =>
                               \/ Written[p] = MessageOf(table[calls[c].id])[p]
                               \/ kind = "cluster" /\ Written[p] = calls[c].read[p]
                               \/ Erases(calls[c]) /\ Written[p] = Absent
  BY DEF StatusStep, StatusOf
<1>1. p \in Paths /\ p \notin MapFields /\ Under(StatusPath, p)
  BY DEF StatusOf
<1>2. p \in Paths \ {MetadataPath, FinalizersPath}
  BY EmptyTyped, TemplateKeepsStatus
<1>3. Ignored = {StatusPath} /\ kind \in {"cluster", "host pool"}
  BY DEF Ignored, ServerTypeOK, KindsOfObjects
<1>4. ASSUME log' # log, Last(log').type = "created"
      PROVE  Written[p] = Absent
  <2>1. PICK id \in Ids, stamp \in Stamps, m \in PublicMessages : ServerCreate(id, stamp, m)
    BY <1>4, OnlyCreateCreates
  <2>2. PICK object \in AnyMessage :
            /\ object = Copy(m, Empty, {StatusPath}) /\ Created(object) \in AnyMessage
            /\ Last(log').row \in Row /\ Last(log').row.data = DataOf(Created(object))
    BY <1>3, <2>1, CreateWrites
  <2>3. object[p] = Absent
    <3>1. m \in AnyMessage /\ Empty \in AnyMessage /\ Empty[p] = Absent
      BY <1>1, PublicTyped, EmptyTyped DEF Empty
    <3>2. Copy(m, Empty, {StatusPath})[p] = Empty[p]
      BY <1>1, <3>1, StatusIgnored
    <3> QED
      BY <2>2, <3>1, <3>2
  <2>4. Created(object)[p] = Absent
    <3>1. /\ WithNodeSets(object) \in AnyMessage \/ kind # "cluster"
          /\ WithDefaults(object)[p] = Absent /\ WithNodeSets(object)[p] = Absent
      BY <2>3, TemplateKeepsStatus, NodeSetsTyped DEF ServerTypeOK
    <3>2. kind = "cluster" => WithDefaults(WithNodeSets(object))[p] = Absent
      BY <3>1, TemplateKeepsStatus
    <3> QED
      BY <1>3, <2>3, <3>1, <3>2 DEF Created
  <2>5. Last(log').row.data[p] = Absent
    BY <1>2, <2>2, <2>4, DataTyped
  <2>6. MessageOf(Last(log').row)[p] = Last(log').row.data[p]
    BY <1>2, <2>2, MessageTyped
  <2> QED
    BY <2>5, <2>6 DEF Written
<1>5. ASSUME NEW c \in Callers, UserWrites(c)
      PROVE  \/ Written[p] = MessageOf(table[calls[c].id])[p]
             \/ kind = "cluster" /\ Written[p] = calls[c].read[p]
             \/ Erases(calls[c]) /\ Written[p] = Absent
  <2> DEFINE call == calls[c]
             m == MessageOf(table[call.id])
             object == call.object
  <2>1. /\ call \in Call /\ table[call.id] \in Row /\ object \in AnyMessage
        /\ Written[p] = UpdateResult(call.id, object, call.mask)[p]
    BY <1>2, <1>5, UserWritesResult
  <2>2. Updated(object) = object
    BY DEF Updated
  <2>3. Written[p] = Masked(m, call.mask, object)[p]
    BY <2>1, <2>2 DEF UpdateResult
  <2>4. /\ m \in AnyMessage /\ call.mask \in MaskType
        /\ call.request \in AnyMessage /\ call.read \in AnyMessage
    BY <2>1, MessageTyped DEF Call
  <2>5. /\ WellFormed(object)
        /\ object = Copy(call.request, IF kind = "host pool" THEN Empty ELSE call.read,
                         Ignored)
    BY <1>5 DEF CallsSound, SoundCall, UserWrites
  <2>6. object[p] = IF kind = "host pool" THEN Absent ELSE call.read[p]
    <3> DEFINE to == IF kind = "host pool" THEN Empty ELSE call.read
    <3>1. to \in AnyMessage /\ Empty[p] = Absent
      BY <1>1, <2>4, EmptyTyped DEF Empty
    <3>2. Copy(call.request, to, Ignored)[p] = to[p]
      <4> HIDE DEF to, call
      <4>1. StatusPath \in Ignored /\ call.request \in AnyMessage
        BY <1>3, <2>4
      <4> QED
        BY <1>1, <3>1, <4>1, StatusIgnored
    <3> QED
      BY <2>5, <3>1, <3>2
  <2> HIDE DEF m, object, call
  <2>7. CASE call.mask = NoMask
    BY <1>3, <2>3, <2>6, <2>7 DEF Masked, Erases, m, object, call
  <2>8. CASE call.mask # NoMask
    <3> DEFINE V == {m[p]} \union (IF kind = "cluster" THEN {call.read[p]} ELSE {})
                          \union (IF Erases(call) THEN {Absent} ELSE {})
               M == {x \in AnyMessage : x[p] \in V}
    <3>1. /\ call.mask \in Seq(Paths) /\ Len(call.mask) \in Nat
          /\ DOMAIN call.mask = 1..Len(call.mask)
      BY <2>4, <2>8, LenProperties DEF MaskType
    <3>2. ASSUME NEW x \in M, NEW i \in 1..Len(call.mask)
          PROVE  PathUpdate(x, call.mask[i], object) \in M
      <4> DEFINE path == call.mask[i]
                 y == PathUpdate(x, path, object)
      <4>1. path \in Paths
        BY <3>1, ElementOfSeq
      <4>2. y \in AnyMessage
        BY <2>1, <4>1, UpdateStepTyped DEF object, call
      <4>3. \/ y[p] = x[p]
            \/ /\ Under(StatusPath, path)
               /\ y[p] = object[p] \/ (Through(path) # {} /\ y[p] = Absent)
        BY <2>1, <2>5, <4>1, StatusUpdate DEF object, call
      <4> HIDE DEF y
      <4>4. Under(StatusPath, path) /\ (kind = "host pool" \/ Through(path) # {})
                => Erases(call)
        BY <2>8, <3>1 DEF Erases
      <4>5. y[p] \in V
        BY <1>3, <2>6, <4>3, <4>4
      <4> QED
        BY <4>2, <4>5 DEF y
    <3>3. m \in M
      BY <2>4
    <3> HIDE DEF M
    <3>4. \A i \in 0..Len(call.mask) : Stages(m, call.mask, object)[i] \in M
      BY <3>1, <3>2, <3>3, StagesStay
    <3>5. Len(call.mask) \in 0..Len(call.mask)
      BY <3>1, LastInInterval
    <3>6. Masked(m, call.mask, object) \in M
      BY <2>8, <3>4, <3>5 DEF Masked
    <3>7. Written[p] \in V
      BY <2>3, <3>6 DEF M, m, object, call
    <3> QED
      BY <3>7 DEF m, call
  <2> QED
    BY <2>7, <2>8
<1> QED
  BY <1>4, <1>5

(***************************************************************************)
(* No field of the status of a cluster or of a host pool is ever what a    *)
(* user has sent, for any message and any mask: what is created has none,  *)
(* and an update leaves what was there or was read, or clears it as far as *)
(* Erases says (the ignored fields of GenericMapper).                      *)
(***************************************************************************)
THEOREM StatusIsOurs == ServerSpec => UsersDontSetStatus
<1>1. TypeOK /\ ServerTypeOK /\ CallsSound /\ [ServerNext]_serverVars
          => [StatusStep]_serverVars
  BY StatusStepHolds
<1>2. ServerSpec => [][StatusStep]_serverVars
  BY <1>1, AlwaysSound, PTL DEF ServerSpec
<1> QED
  BY <1>2 DEF UsersDontSetStatus, StatusStep
----------------------------------------------------------------------------
(* Private data *)

\* A mask changes only what its paths lead to.
LEMMA MaskKeeps ==
    ASSUME NEW m \in AnyMessage, NEW input \in AnyMessage, NEW mask \in Seq(Paths),
           NoMask \notin Seq(Paths), NEW p \in Leaves,
           \A i \in DOMAIN mask : ~Under(mask[i], p)
    PROVE  Masked(m, mask, input)[p] = m[p]
<1> DEFINE M == {x \in AnyMessage : x[p] = m[p]}
<1>1. Len(mask) \in Nat /\ DOMAIN mask = 1..Len(mask)
  BY LenProperties
<1>2. \A i \in 1..Len(mask) : mask[i] \in Paths /\ ~Under(mask[i], p)
  BY <1>1, ElementOfSeq
<1>3. \A x \in M : \A i \in 1..Len(mask) : PathUpdate(x, mask[i], input) \in M
  BY <1>2, UpdateStepTyped, LeafUpdate
<1>4. m \in M
  OBVIOUS
<1> HIDE DEF M
<1>5. \A i \in 0..Len(mask) : Stages(m, mask, input)[i] \in M
  BY <1>1, <1>3, <1>4, StagesStay
<1>6. Len(mask) \in 0..Len(mask) /\ mask # NoMask
  BY <1>1, SMT
<1>7. Masked(m, mask, input) \in M
  BY <1>5, <1>6 DEF Masked
<1> QED
  BY <1>7 DEF M

\* So does one whose paths lead to a value that is the same in the request.
LEMMA SameKept ==
    ASSUME NEW m \in AnyMessage, NEW input \in AnyMessage, NEW mask \in MaskType,
           NEW p \in {HubPath, FinalizersPath},
           input[p] = m[p], input[Front(p)] = Absent => input[p] = Absent
    PROVE  Masked(m, mask, input)[p] = m[p]
<1> DEFINE M == {x \in AnyMessage : x[p] = m[p]}
<1>1. p \in Leaves
  BY StatusFields
<1>2. ASSUME NEW x \in M, NEW path \in Paths
      PROVE  PathUpdate(x, path, input) \in M
  <2>1. Under(path, p) => path = p \/ path = Front(p)
    BY <1>1, UnderLeaf
  <2>2. PathUpdate(x, path, input)[p]
            = IF Under(path, p) THEN (IF input[path] # Absent THEN input[p] ELSE Absent)
              ELSE x[p]
    BY <1>1, LeafUpdate
  <2>3. PathUpdate(x, path, input)[p] = m[p]
    BY <2>1, <2>2
  <2> QED
    BY <2>3, UpdateStepTyped
<1>3. m \in M /\ input \in M
  OBVIOUS
<1> HIDE DEF M
<1>4. Masked(m, mask, input) \in M
  BY <1>2, <1>3, MaskedStays DEF MaskType
<1> QED
  BY <1>4 DEF M

(***************************************************************************)
(* What a public update that isn't explained makes of the private data, if *)
(* nobody has changed them since the public server has read them.          *)
(***************************************************************************)
LEMMA UnexplainedKept ==
    ASSUME ServerTypeOK, CallsSound, NEW c \in Callers, calls[c] # NoCall,
           NEW row \in Row, NEW p \in HiddenPaths,
           MessageOf(row)[p] = calls[c].read[p], ~Explained(calls[c], p)
    PROVE  Masked(MessageOf(row), calls[c].mask, Updated(calls[c].object))[p]
               = MessageOf(row)[p]
<1> DEFINE call == calls[c]
           m == MessageOf(row)
           input == Updated(call.object)
<1>1. /\ call.object \in AnyMessage /\ call.mask \in MaskType
      /\ call.request \in AnyMessage /\ call.read \in AnyMessage
  BY DEF ServerTypeOK, Call, Having
<1>2. p \in {HubPath, FinalizersPath} /\ p \in Leaves /\ p \in Plain /\ Front(p) \in Plain
  BY StatusFields, ServerAssumption DEF Plain
<1>3. m \in AnyMessage /\ input \in AnyMessage
  BY <1>1, MessageTyped, DefaultsTyped DEF Updated, ServerTypeOK
<1>4. input[p] = call.object[p] /\ input[Front(p)] = call.object[Front(p)]
  BY <1>1, <1>2, TemplateKeepsPlain DEF Updated
<1> HIDE DEF input, m
<1>5. CASE call.mask # NoMask /\ ~ \E i \in DOMAIN call.mask : Under(call.mask[i], p)
  <2>1. call.mask \in Seq(Paths)
    BY <1>1, <1>5 DEF MaskType
  <2>2. Masked(m, call.mask, input)[p] = m[p]
    BY <1>2, <1>3, <1>5, <2>1, MaskKeeps, ServerAssumption
  <2> QED
    BY <2>2 DEF m, input
<1>6. CASE kind # "host pool" /\ (Front(p) \in Ignored \/ call.request[Front(p)] # Absent)
  <2>1. call.object = Copy(call.request, call.read, Ignored) /\ WellFormed(call.read)
    BY <1>6 DEF CallsSound, SoundCall
  <2>2. Ignored \in SUBSET {StatusPath}
    BY DEF Ignored
  <2>3. /\ Front(p) \in Ignored => /\ call.object[p] = call.read[p]
                                   /\ call.object[Front(p)] = call.read[Front(p)]
        /\ Front(p) \notin Ignored => /\ call.object[p] = call.read[p]
                                      /\ call.object[Front(p)] = call.request[Front(p)]
    <3> DEFINE copy == Copy(call.request, call.read, Ignored)
    <3>1. /\ Front(p) \in Ignored => /\ copy[p] = call.read[p]
                                      /\ copy[Front(p)] = call.read[Front(p)]
          /\ Front(p) \notin Ignored =>
                 /\ copy[Front(p)] = call.request[Front(p)]
                 /\ copy[p] = IF call.request[Front(p)] # Absent THEN call.read[p]
                              ELSE call.request[p]
      BY <1>1, <1>2, <2>2, CopyHidden
    <3>2. call.object = copy
      BY <2>1
    <3> HIDE DEF copy
    <3> QED
      BY <1>6, <3>1, <3>2
  <2>4. input[p] = m[p]
    BY <1>4, <2>3 DEF m
  <2>5. input[Front(p)] = Absent => input[p] = Absent
    <3>1. CASE Front(p) \in Ignored
      <4>1. p = HubPath /\ Front(p) = StatusPath
        <5>1. Front(p) = StatusPath
          BY <3>1 DEF Ignored
        <5>2. MetadataPath # StatusPath
          BY FieldsDiffer
        <5> QED
          BY <1>2, <5>1, <5>2, StatusFields
      <4> QED
        BY <1>1, <1>4, <2>1, <2>3, <3>1, <4>1, EnclosersPresent, StatusFields, PathsAssumption
    <3>2. CASE Front(p) \notin Ignored
      BY <1>4, <1>6, <2>3, <3>2
    <3> QED
      BY <3>1, <3>2
  <2>6. Masked(m, call.mask, input)[p] = m[p]
    BY <1>1, <1>2, <1>3, <2>4, <2>5, SameKept
  <2> QED
    BY <2>6 DEF m, input
<1> QED
  BY <1>5, <1>6 DEF Explained

PrivateDataStep ==
    \A c \in Callers, p \in HiddenPaths :
        LET call == calls[c]
            current == MessageOf(table[call.id])
        IN  UserWrites(c)
            => \/ Written[p] = current[p]
               \/ current[p] # call.read[p]
               \/ Explained(call, p)

LEMMA PrivateDataStepHolds ==
    ASSUME TypeOK, ServerTypeOK, CallsSound, [ServerNext]_serverVars
    PROVE  [PrivateDataStep]_serverVars
<1> SUFFICES ASSUME NEW c \in Callers, NEW p \in HiddenPaths, UserWrites(c),
                    MessageOf(table[calls[c].id])[p] = calls[c].read[p],
                    ~Explained(calls[c], p)
             PROVE  Written[p] = MessageOf(table[calls[c].id])[p]
  BY DEF PrivateDataStep
<1> DEFINE id == calls[c].id
           new == UpdateResult(id, calls[c].object, calls[c].mask)
<1>1. p \in Paths \ {MetadataPath}
  BY StatusFields, ServerAssumption
<1>2. table[id] \in Row /\ Written[p] = new[p]
  BY <1>1, UserWritesResult
<1>3. calls[c] # NoCall
  BY DEF UserWrites
<1>4. new[p] = MessageOf(table[id])[p]
  BY <1>2, <1>3, UnexplainedKept DEF UpdateResult
<1> QED
  BY <1>2, <1>4

(***************************************************************************)
(* A public update keeps the hub and the finalizers that the user doesn't  *)
(* see, but for the cases that the property names ("preserving private     *)
(* data" in the public servers, GenericMapper.Copy).                       *)
(***************************************************************************)
THEOREM PrivateDataIsKept == ServerSpec => PrivateDataKept
<1>1. TypeOK /\ ServerTypeOK /\ CallsSound /\ [ServerNext]_serverVars
          => [PrivateDataStep]_serverVars
  BY PrivateDataStepHolds
<1>2. ServerSpec => [][PrivateDataStep]_serverVars
  BY <1>1, AlwaysSound, PTL DEF ServerSpec
<1> QED
  BY <1>2 DEF PrivateDataKept, PrivateDataStep
----------------------------------------------------------------------------
(* Writing back what was read *)

\* What a request that says what was read makes of it.
LEMMA EchoSame ==
    ASSUME ServerTypeOK, CallsSound, NEW c \in Callers, calls[c] # NoCall,
           NEW row \in Row, WellFormed(row.data), MessageOf(row) = calls[c].read,
           calls[c].request = CopyOut(calls[c].read),
           calls[c].mask # NoMask =>
               \A i \in DOMAIN calls[c].mask : Through(calls[c].mask[i]) = {},
           kind = "host pool" =>
               /\ calls[c].mask # NoMask
               /\ \A i \in DOMAIN calls[c].mask : calls[c].mask[i][1] = "spec"
    PROVE  Masked(MessageOf(row), calls[c].mask, Updated(calls[c].object))
               = Updated(MessageOf(row))
<1> DEFINE m == MessageOf(row)
           mask == calls[c].mask
           object == calls[c].object
<1>1. m \in AnyMessage /\ WellFormed(m)
  BY MessageTyped, MessageWellFormed
<1>2. /\ object = Copy(CopyOut(m), IF kind = "host pool" THEN Empty ELSE m, Ignored)
      /\ kind = "virtual machine" => mask = NoMask
  BY DEF CallsSound, SoundCall
<1>3. mask \in MaskType /\ Ignored \in SUBSET {StatusPath} /\ kind \in KindsOfObjects
  BY DEF ServerTypeOK, Call, Ignored
<1>4. NoMask \notin Seq(Paths)
  BY ServerAssumption
<1>5. mask # NoMask => mask \in Seq(Paths) /\ \A i \in DOMAIN mask : Through(mask[i]) = {}
  BY <1>3 DEF MaskType
<1>6. kind = "host pool" => mask # NoMask /\ \A i \in DOMAIN mask : mask[i][1] = "spec"
  OBVIOUS
<1> HIDE DEF m, mask, object
<1>7. CASE kind = "virtual machine"
  <2>1. object = m
    BY <1>1, <1>2, <1>3, <1>7, CopyBack
  <2>2. Masked(m, mask, Updated(object)) = Updated(m)
    BY <1>2, <1>7, <2>1 DEF Masked
  <2> QED
    BY <2>2 DEF m, mask, object
<1>8. CASE kind = "cluster"
  <2>1. object = m
    BY <1>1, <1>2, <1>3, <1>8, CopyBack
  <2>2. Updated(object) = m /\ Updated(m) = m
    BY <1>8, <2>1 DEF Updated
  <2>3. Masked(m, mask, m) = m
    BY <1>1, <1>4, <1>5, MaskedSame DEF Masked
  <2> QED
    BY <2>2, <2>3 DEF m, mask, object
<1>9. CASE kind = "host pool"
  <2>1. Updated(object) = object /\ Updated(m) = m
    BY <1>9 DEF Updated
  <2>2. mask \in Seq(Paths) /\ \A i \in DOMAIN mask : mask[i] \in Paths
    <3>1. mask \in Seq(Paths)
      BY <1>5, <1>6, <1>9
    <3>2. DOMAIN mask = 1..Len(mask)
      BY <3>1, LenProperties
    <3> QED
      BY <3>1, <3>2, ElementOfSeq
  <2>3. ASSUME NEW i \in DOMAIN mask, NEW p \in Paths, Under(mask[i], p)
        PROVE  object[p] = m[p]
    <3>1. mask[i] \in Paths
      BY <2>2
    <3>2. mask[i][1] = p[1]
      BY <2>3, <3>1, FirstName
    <3>3. p[1] = "spec"
      BY <1>6, <1>9, <3>2
    <3> QED
      BY <1>1, <1>2, <1>3, <1>9, <3>3, CopyBackSpec
  <2>4. Masked(m, mask, object) = m
    BY <1>1, <1>4, <1>5, <1>6, <1>9, <2>3, MaskedSame
  <2> QED
    BY <2>1, <2>4 DEF m, mask, object
<1> QED
  BY <1>3, <1>7, <1>8, <1>9 DEF KindsOfObjects

\* What the defaults make of a message, and no more.
LEMMA DefaultsAdded ==
    ASSUME contents \in Templates, NEW m \in AnyMessage, WellFormed(m)
    PROVE  OnlyAddsDefaults(WithDefaults(m), m)
<1> DEFINE raw == SetDefaults(m)
           new == WithDefaults(m)
<1>1. /\ \A p \in Paths : raw[p] = IF Defaulted(m, p) THEN Defaults[Last(p)] ELSE m[p]
      /\ \A p \in Paths : m[p] # Absent => raw[p] # Absent
      /\ \A p \in Paths \ MapFields : new[p] = raw[p]
  BY DefaultsSet
<1>2. /\ new = Normal(raw) /\ m = Normal(m)
  BY DefaultsTyped DEF WellFormed
<1> HIDE DEF raw, new
<1>3. ASSUME NEW p \in Paths \ MapFields, new[p] # m[p]
      PROVE  /\ m[p] = Absent
             /\ \E n \in DOMAIN Defaults :
                    p = Append(ParametersPath, n) /\ new[p] = Defaults[n]
  <2>1. Defaulted(m, p) /\ new[p] = Defaults[Last(p)]
    BY <1>1, <1>3
  <2>2. p = Append(ParametersPath, Last(p))
    BY <2>1, ParameterEntry DEF Defaulted, ParameterPath
  <2> QED
    BY <2>1, <2>2 DEF Defaulted
<1>4. ASSUME NEW p \in Paths, p \in MapFields, new[p] # m[p]
      PROVE  m[p] = Absent /\ p = ParametersPath
  <2>1. /\ new[p] = IF \E e \in Entries : Front(e) = p /\ raw[e] # Absent
                     THEN Present ELSE Absent
        /\ m[p] = IF \E e \in Entries : Front(e) = p /\ m[e] # Absent
                   THEN Present ELSE Absent
    BY <1>2, <1>4 DEF Normal
  <2>2. \A e \in Entries : m[e] # Absent => raw[e] # Absent
    BY <1>1 DEF Entries
  <2>3. PICK e \in Entries : Front(e) = p /\ raw[e] # Absent /\ m[e] = Absent
    BY <1>4, <2>1, <2>2
  <2>4. Defaulted(m, e)
    BY <1>1, <2>3 DEF Entries
  <2> QED
    BY <1>4, <2>1, <2>2, <2>3, <2>4 DEF Defaulted
<1> QED
  BY <1>3, <1>4 DEF OnlyAddsDefaults, new

EchoStep ==
    \A c \in Callers :
        LET call == calls[c]
        IN  (/\ UserWrites(c)
             /\ call.request = CopyOut(call.read)
             /\ MessageOf(table[call.id]) = call.read
             /\ call.mask # NoMask => \A i \in DOMAIN call.mask : Through(call.mask[i]) = {}
             /\ kind = "host pool" =>
                    /\ call.mask # NoMask
                    /\ \A i \in DOMAIN call.mask : call.mask[i][1] = "spec")
            => kind = "virtual machine" /\ OnlyAddsDefaults(Written, call.read)

LEMMA EchoStepHolds ==
    ASSUME TypeOK, ServerTypeOK, TableSound, CallsSound, [ServerNext]_serverVars
    PROVE  [EchoStep]_serverVars
<1> SUFFICES ASSUME NEW c \in Callers, UserWrites(c),
                    calls[c].request = CopyOut(calls[c].read),
                    MessageOf(table[calls[c].id]) = calls[c].read,
                    calls[c].mask # NoMask =>
                        \A i \in DOMAIN calls[c].mask : Through(calls[c].mask[i]) = {},
                    kind = "host pool" =>
                        /\ calls[c].mask # NoMask
                        /\ \A i \in DOMAIN calls[c].mask : calls[c].mask[i][1] = "spec"
             PROVE  kind = "virtual machine" /\ OnlyAddsDefaults(Written, calls[c].read)
  BY DEF EchoStep
<1> DEFINE id == calls[c].id
           m == MessageOf(table[id])
           new == UpdateResult(id, calls[c].object, calls[c].mask)
<1>1. /\ id \in Ids /\ table[id] \in Row /\ table[id] # NoRow
      /\ new # m /\ Last(log').row \in Row
      /\ \A p \in Paths \ {MetadataPath} : Written[p] = new[p]
  BY UserWritesResult
<1>2. WellFormed(table[id].data)
  BY <1>1 DEF TableSound
<1>3. calls[c] # NoCall
  BY DEF UserWrites
<1>4. new = Updated(m)
  BY <1>1, <1>2, <1>3, EchoSame DEF UpdateResult
<1> HIDE DEF new
<1>5. kind = "virtual machine" /\ new = WithDefaults(m)
  BY <1>1, <1>4 DEF Updated
<1>6. m \in AnyMessage /\ WellFormed(m) /\ m[MetadataPath] = Present
  BY <1>1, <1>2, MessageTyped, MessageWellFormed
<1>7. OnlyAddsDefaults(new, m)
  BY <1>5, <1>6, DefaultsAdded DEF ServerTypeOK
<1>8. Written[MetadataPath] = m[MetadataPath]
  BY <1>1, <1>6, MessageTyped DEF Written
<1>9. calls[c].read = m
  OBVIOUS
<1> HIDE DEF m
<1>10. OnlyAddsDefaults(Written, m)
  BY <1>1, <1>7, <1>8 DEF OnlyAddsDefaults
<1> QED
  BY <1>5, <1>9, <1>10

(***************************************************************************)
(* To write back what was read changes nothing, and so nothing is          *)
(* announced, for any message and any mask that the property allows, but   *)
(* for the defaults of the template that a virtual machine doesn't have    *)
(* yet: the copies of GenericMapper and the masks of GenericServer.Update  *)
(* lose nothing that the user has not changed.                             *)
(***************************************************************************)
THEOREM EchoIsSilent == ServerSpec => EchoChangesNothing
<1>1. TypeOK /\ ServerTypeOK /\ TableSound /\ CallsSound /\ [ServerNext]_serverVars
          => [EchoStep]_serverVars
  BY EchoStepHolds
<1>2. ServerSpec => [][EchoStep]_serverVars
  BY <1>1, AlwaysSound, PTL DEF ServerSpec
<1> QED
  BY <1>2 DEF EchoChangesNothing, EchoStep
=============================================================================
