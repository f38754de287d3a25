------------------------- MODULE ObservationDeltaProofs -------------------------
(***************************************************************************)
(* Proofs about the merge patches of ObservationDelta, for documents of    *)
(* any depth: by induction over the depth to which objects nest, as a set  *)
(* of numbers (SetOfNaturals).                                             *)
(***************************************************************************)
EXTENDS ObservationDelta, FiniteSums

-------------------------------------------------------------------------------
(* Recursive functions.                                                    *)

\* f[d] is z or what G[d] makes of the value before it.
Follows(f, N, z, G) == f = [d \in 0..N |-> IF d = 0 THEN z ELSE G[d][f[d - 1]]]

\* z and G keep to the types U.
Keeps(N, U, z, G) == z \in U[0] /\ \A d \in 1..N : \A m \in U[d - 1] : G[d][m] \in U[d]

\* The recursive function exists, and its values have their types.
LEMMA Recursion ==
  ASSUME NEW N \in Nat, NEW U, NEW z, NEW G, Keeps(N, U, z, G)
  PROVE  \E f : Follows(f, N, z, G) /\ \A d \in 0..N : f[d] \in U[d]
<1> USE DEF Follows, Keeps
<1> DEFINE Is(f, n) == /\ f = [d \in 0..n |-> IF d = 0 THEN z ELSE G[d][f[d - 1]]]
                       /\ \A d \in 0..n : f[d] \in U[d]
           T == {n \in Nat : n =< N => \E f : Is(f, n)}
<1>1. 0 \in T
  <2> DEFINE f == [d \in 0..0 |-> z]
  <2>1. Is(f, 0)
    OBVIOUS
  <2> HIDE DEF Is
  <2> QED BY <2>1
<1>2. ASSUME NEW n \in T PROVE n + 1 \in T
  <2> SUFFICES ASSUME n + 1 =< N
               PROVE  \E f : Is(f, n + 1)
    OBVIOUS
  <2>0. n \in Nat /\ n + 1 \in 1..N /\ n =< N
    OBVIOUS
  <2>1. PICK k : Is(k, n)
    BY <2>0
  <2> DEFINE g == [d \in 0..(n + 1) |-> IF d = 0 THEN z ELSE G[d][k[d - 1]]]
  <2>2. \A d \in 0..n : k[d] = (IF d = 0 THEN z ELSE G[d][k[d - 1]]) /\ k[d] \in U[d]
    BY <2>1
  <2>3. \A d \in 0..n : g[d] = k[d]
    BY <2>0, <2>2
  <2>4. \A d \in 0..(n + 1) : d = 0 \/ g[d - 1] = k[d - 1]
    <3>1. \A d \in 0..(n + 1) : d = 0 \/ d - 1 \in 0..n
      BY <2>0
    <3> HIDE DEF g
    <3> QED BY <2>3, <3>1
  <2>5. g = [d \in 0..(n + 1) |-> IF d = 0 THEN z ELSE G[d][g[d - 1]]]
    <3> DEFINE At(f, d) == IF d = 0 THEN z ELSE G[d][f[d - 1]]
    <3>1. \A d \in 0..(n + 1) : At(g, d) = At(k, d)
      <4> HIDE DEF g
      <4> QED BY <2>4
    <3>2. g = [d \in 0..(n + 1) |-> At(k, d)]
      OBVIOUS
    <3> HIDE DEF At, g
    <3>3. g = [d \in 0..(n + 1) |-> At(g, d)]
      BY <3>1, <3>2
    <3> QED BY <3>3 DEF At
  <2>6. g[n + 1] \in U[n + 1]
    <3>1. g[n + 1] = G[n + 1][k[n]] /\ k[n] \in U[n]
      BY <2>0, <2>2
    <3> QED BY <2>0, <3>1
  <2> HIDE DEF g
  <2>7. \A d \in 0..(n + 1) : g[d] \in U[d]
    <3>1. \A d \in 0..(n + 1) : d = n + 1 \/ d \in 0..n
      BY <2>0
    <3> QED BY <2>2, <2>3, <2>6, <3>1
  <2> QED BY <2>5, <2>7
<1> HIDE DEF Is
<1>3. T = Nat
  <2> HIDE DEF T
  <2> QED BY <1>1, <1>2, SetOfNaturals DEF T
<1>4. \E f : Is(f, N)
  BY <1>3
<1> QED BY <1>4 DEF Is

\* vs is the function of Values for the depths up to n.
NestedTo(vs, n) ==
  vs = [d \in 0..n |-> IF d = 0 THEN Leaves ELSE Leaves \cup Objects(vs[d - 1])]

LEMMA NestedToExists == \A n \in Nat : \E vs : NestedTo(vs, n)
<1> DEFINE T == {n \in Nat : \E vs : NestedTo(vs, n)}
<1>1. 0 \in T
  <2> DEFINE vs == [d \in 0..0 |-> Leaves]
  <2>1. NestedTo(vs, 0)
    BY DEF NestedTo
  <2> QED BY <2>1
<1>2. ASSUME NEW n \in T PROVE n + 1 \in T
  <2>1. PICK k : NestedTo(k, n)
    OBVIOUS
  <2> DEFINE At(f, d) == IF d = 0 THEN Leaves ELSE Leaves \cup Objects(f[d - 1])
             g == [d \in 0..(n + 1) |-> At(k, d)]
  <2>2. n \in Nat
    OBVIOUS
  <2>3. \A d \in 0..n : k[d] = At(k, d)
    BY <2>1 DEF NestedTo
  <2>4. \A d \in 0..n : g[d] = k[d]
    <3> HIDE DEF At
    <3> QED BY <2>2, <2>3
  <2>5. \A d \in 0..(n + 1) : At(g, d) = At(k, d)
    <3>1. \A d \in 0..(n + 1) : d = 0 \/ d - 1 \in 0..n
      BY <2>2
    <3> HIDE DEF g
    <3> QED BY <2>4, <3>1
  <2> HIDE DEF At
  <2>6. g = [d \in 0..(n + 1) |-> At(g, d)]
    <3>1. g = [d \in 0..(n + 1) |-> At(k, d)]
      OBVIOUS
    <3> HIDE DEF g
    <3> QED BY <2>5, <3>1
  <2> HIDE DEF g
  <2>7. NestedTo(g, n + 1)
    BY <2>6 DEF NestedTo, At
  <2> QED BY <2>2, <2>7
<1> HIDE DEF T
<1>3. T = Nat
  BY <1>1, <1>2, SetOfNaturals DEF T
<1> QED BY <1>3 DEF T

\* The values of each depth.
LEMMA ValuesAt ==
  /\ Values[0] = Leaves
  /\ \A d \in 1..Depth : Values[d] = Leaves \cup Objects(Values[d - 1])
<1>1. \E vs : NestedTo(vs, Depth)
  BY NestedToExists, DocumentAssumption
<1>2. Values = CHOOSE vs : NestedTo(vs, Depth)
  BY DEF Values, NestedTo
<1>3. NestedTo(Values, Depth)
  BY <1>1, <1>2
<1>4. \A d \in 0..Depth : Values[d] = IF d = 0 THEN Leaves ELSE Leaves \cup Objects(Values[d - 1])
  <2> DEFINE V == Values
  <2>1. NestedTo(V, Depth)
    BY <1>3
  <2> HIDE DEF V
  <2>2. \A d \in 0..Depth : V[d] = IF d = 0 THEN Leaves ELSE Leaves \cup Objects(V[d - 1])
    BY <2>1 DEF NestedTo
  <2> QED BY <2>2 DEF V
<1>5. 0 \in 0..Depth /\ \A d \in 1..Depth : d \in 0..Depth /\ d # 0
  BY DocumentAssumption
<1>6. Values[0] = Leaves
  BY <1>4, <1>5
<1>7. ASSUME NEW d \in 1..Depth PROVE Values[d] = Leaves \cup Objects(Values[d - 1])
  BY <1>4, <1>5, Zenon
<1> QED BY <1>6, <1>7

-------------------------------------------------------------------------------
(* Values.                                                                 *)

\* What a member can be.
Members(d) == Values[d] \cup {Absent}

\* The value of a depth is a leaf or an object of the depth below; nothing is both.
LEMMA ValueKinds ==
  /\ \A v \in Values[0] : ~IsObject(v)
  /\ \A d \in 1..Depth : \A v \in Members(d) :
       IsObject(v) => v \in Objects(Values[d - 1])
  /\ \A d \in 1..Depth : \A v \in Objects(Values[d - 1]) : v \in Values[d] /\ IsObject(v)
  /\ \A d \in 0..Depth : \A v \in Leaves : v \in Values[d]
  /\ \A d \in 0..Depth : Absent \notin Values[d]
<1>1. \A v \in Values[0] : ~IsObject(v)
  BY ValuesAt DEF IsObject
<1>2. \A d \in 1..Depth : d - 1 \in 0..Depth /\ Values[d] = Leaves \cup Objects(Values[d - 1])
  BY ValuesAt, DocumentAssumption
<1>3. \A d \in 1..Depth : \A v \in Objects(Values[d - 1]) : v \notin Leaves \cup {Absent}
  BY <1>2, DocumentAssumption
<1>4. \A d \in 1..Depth : \A v \in Members(d) : IsObject(v) => v \in Objects(Values[d - 1])
  BY <1>2 DEF IsObject, Members
<1>5. \A d \in 1..Depth : \A v \in Objects(Values[d - 1]) : v \in Values[d] /\ IsObject(v)
  BY <1>2, <1>3 DEF IsObject
<1>6. \A d \in 0..Depth : d = 0 \/ d \in 1..Depth
  BY DocumentAssumption
<1>7. \A d \in 0..Depth : \A v \in Leaves : v \in Values[d]
  BY <1>2, <1>6, ValuesAt
<1>8. Absent \notin Leaves /\ \A d \in 1..Depth : Absent \notin Objects(Values[d - 1])
  BY <1>3, DocumentAssumption DEF Leaves
<1>9. \A d \in 0..Depth : Absent \notin Values[d]
  BY <1>2, <1>6, <1>8, ValuesAt
<1> QED BY <1>1, <1>4, <1>5, <1>7, <1>9

\* The members of an object.
LEMMA ObjectMembers ==
  ASSUME NEW d \in Nat, NEW o \in Objects(Values[d])
  PROVE  /\ \A k \in Keys : o[k] \in Members(d)
         /\ o = [k \in Keys |-> o[k]]
BY DEF Objects, Members

LEMMA NoMembersType == \A d \in Nat : NoMembers \in Objects(Values[d])
BY DEF NoMembers, Objects

\* A null or absent member is a leaf or absent, and no object.
LEMMA NullsAreNoObjects == ~IsObject(Null) /\ ~IsObject(Absent) /\ Null \in Leaves /\ Null # Absent
BY DocumentAssumption DEF IsObject, Leaves

-------------------------------------------------------------------------------
(* The patch of two values.                                                *)

PatchStep(d, merge) ==
  [before \in Values[d] |-> [after \in Values[d] |->
     IF IsObject(before) /\ IsObject(after)
     THEN [k \in Keys |-> MemberPatch(before[k], after[k], merge)]
     ELSE after]]

Merges(d) == [Values[d] -> [Values[d] -> Values[d]]]

\* A patch of two members is a member, given one for the values below.
LEMMA MemberPatchType ==
  ASSUME NEW d \in 0..Depth, NEW merge \in Merges(d),
         NEW before \in Members(d), NEW after \in Members(d)
  PROVE  MemberPatch(before, after, merge) \in Members(d)
<1>1. Null \in Values[d]
  BY ValueKinds, NullsAreNoObjects
<1>2. CASE before = after \/ after = Absent \/ before = Absent
  BY <1>1, <1>2 DEF MemberPatch, Members
<1>3. CASE before # after /\ after # Absent /\ before # Absent
  <2>1. merge[before][after] \in Values[d]
    BY <1>3 DEF Merges, Members
  <2> QED BY <1>3, <2>1 DEF MemberPatch, Members
<1> QED BY <1>2, <1>3

LEMMA PatchStepType ==
  ASSUME NEW d \in 1..Depth, NEW merge \in Merges(d - 1)
  PROVE  PatchStep(d, merge) \in Merges(d)
<1>1. d - 1 \in 0..Depth /\ d - 1 \in Nat
  BY DocumentAssumption
<1>2. ASSUME NEW before \in Values[d], NEW after \in Values[d],
             IsObject(before), IsObject(after)
      PROVE  [k \in Keys |-> MemberPatch(before[k], after[k], merge)] \in Values[d]
  <2>1. before \in Objects(Values[d - 1]) /\ after \in Objects(Values[d - 1])
    BY <1>2, ValueKinds DEF Members
  <2>2. \A k \in Keys : before[k] \in Members(d - 1) /\ after[k] \in Members(d - 1)
    BY <1>1, <2>1, ObjectMembers
  <2>3. \A k \in Keys : MemberPatch(before[k], after[k], merge) \in Members(d - 1)
    BY <1>1, <2>2, MemberPatchType
  <2>4. [k \in Keys |-> MemberPatch(before[k], after[k], merge)] \in Objects(Values[d - 1])
    BY <2>3 DEF Objects, Members
  <2> QED BY <2>4, ValueKinds
<1> QED BY <1>2 DEF PatchStep, Merges

\* The function of patches, depth by depth.
LEMMA ValuePatchAt ==
  /\ \A d \in 0..Depth : ValuePatch[d] \in Merges(d)
  /\ \A d \in 0..Depth : ValuePatch[d] = PatchStep(d, ValuePatch[d - 1])
<1> DEFINE z == [before \in Values[0] |-> [after \in Values[0] |-> after]]
           U == [d \in 0..Depth |-> Merges(d)]
           G == [d \in 1..Depth |-> [m \in U[d - 1] |-> PatchStep(d, m)]]
<1>1. z \in Merges(0) /\ U[0] = Merges(0)
  BY DocumentAssumption DEF Merges
<1>2. ASSUME NEW d \in 1..Depth, NEW m \in U[d - 1]
      PROVE  G[d][m] = PatchStep(d, m) /\ G[d][m] \in U[d]
  <2>1. U[d - 1] = Merges(d - 1) /\ U[d] = Merges(d)
    BY DocumentAssumption
  <2>2. G[d][m] = PatchStep(d, m)
    OBVIOUS
  <2> QED BY <2>1, <2>2, PatchStepType
<1>3. \A m : PatchStep(0, m) = z
  BY ValueKinds DEF PatchStep
<1> HIDE DEF z, U, G
<1>4. PICK f : Follows(f, Depth, z, G) /\ \A d \in 0..Depth : f[d] \in U[d]
  <2>1. Keeps(Depth, U, z, G)
    BY <1>1, <1>2 DEF Keeps
  <2> QED BY <2>1, Recursion, DocumentAssumption
<1>5. \A d \in 0..Depth : f[d] = PatchStep(d, f[d - 1])
  <2> SUFFICES ASSUME NEW d \in 0..Depth PROVE f[d] = PatchStep(d, f[d - 1])
    OBVIOUS
  <2>1. f[d] = IF d = 0 THEN z ELSE G[d][f[d - 1]]
    BY <1>4 DEF Follows
  <2>2. CASE d = 0
    BY <1>3, <2>1, <2>2
  <2>3. CASE d # 0
    <3>1. d \in 1..Depth /\ d - 1 \in 0..Depth
      BY <2>3, DocumentAssumption
    <3>2. f[d - 1] \in U[d - 1]
      BY <1>4, <3>1
    <3> QED BY <1>2, <2>1, <2>3, <3>1, <3>2
  <2> QED BY <2>2, <2>3
<1> DEFINE Is(h) == h = [d \in 0..Depth |-> PatchStep(d, h[d - 1])]
<1>6. Is(f)
  <2>1. f = [d \in 0..Depth |-> f[d]]
    BY <1>4 DEF Follows
  <2> QED BY <1>5, <2>1
<1>7. ValuePatch = CHOOSE h : Is(h)
  BY DEF ValuePatch, PatchStep
<1>8. Is(ValuePatch)
  <2> HIDE DEF Is
  <2> QED BY <1>6, <1>7
<1>9. \A d \in 0..Depth : ValuePatch[d] = PatchStep(d, ValuePatch[d - 1])
  <2> HIDE DEF PatchStep
  <2> QED BY <1>8
<1>10. \A d \in 0..Depth : ValuePatch[d] \in Merges(d)
  <2> DEFINE T == {n \in Nat : n =< Depth => ValuePatch[n] \in Merges(n)}
  <2>1. 0 \in T
    BY <1>1, <1>3, <1>9, DocumentAssumption
  <2>2. ASSUME NEW n \in T PROVE n + 1 \in T
    <3> SUFFICES ASSUME n + 1 =< Depth PROVE ValuePatch[n + 1] \in Merges(n + 1)
      OBVIOUS
    <3>1. n + 1 \in 1..Depth /\ (n + 1) - 1 = n /\ n + 1 \in 0..Depth /\ ValuePatch[n] \in Merges(n)
      BY DocumentAssumption
    <3> QED BY <1>9, <3>1, PatchStepType
  <2> HIDE DEF T
  <2>3. T = Nat
    BY <2>1, <2>2, SetOfNaturals DEF T
  <2> QED BY <2>3, DocumentAssumption DEF T
<1> QED BY <1>9, <1>10

-------------------------------------------------------------------------------
(* Applying a patch to a value.                                            *)

PatchedStep(d, apply) ==
  [target \in Members(d) |-> [patch \in Values[d] |->
     IF IsObject(patch)
     THEN LET object == IF IsObject(target) THEN target ELSE NoMembers
          IN [k \in Keys |-> PatchedMember(object[k], patch[k], apply)]
     ELSE patch]]

Applies(d) == [Members(d) -> [Values[d] -> Values[d]]]

\* A patched member is a member, given a value for the values below.
LEMMA PatchedMemberType ==
  ASSUME NEW d \in 0..Depth, NEW apply \in Applies(d),
         NEW target \in Members(d), NEW patch \in Members(d)
  PROVE  PatchedMember(target, patch, apply) \in Members(d)
<1>1. CASE patch = Absent \/ patch = Null
  BY <1>1 DEF PatchedMember, Members
<1>2. CASE patch # Absent /\ patch # Null
  <2>1. apply[target][patch] \in Values[d]
    BY <1>2 DEF Applies, Members
  <2> QED BY <1>2, <2>1 DEF PatchedMember, Members
<1> QED BY <1>1, <1>2

LEMMA PatchedStepType ==
  ASSUME NEW d \in 1..Depth, NEW apply \in Applies(d - 1)
  PROVE  PatchedStep(d, apply) \in Applies(d)
<1>1. d - 1 \in 0..Depth /\ d - 1 \in Nat
  BY DocumentAssumption
<1>2. ASSUME NEW target \in Members(d), NEW patch \in Values[d], IsObject(patch)
      PROVE  (LET object == IF IsObject(target) THEN target ELSE NoMembers
              IN [k \in Keys |-> PatchedMember(object[k], patch[k], apply)]) \in Values[d]
  <2> DEFINE object == IF IsObject(target) THEN target ELSE NoMembers
  <2>1. object \in Objects(Values[d - 1]) /\ patch \in Objects(Values[d - 1])
    BY <1>1, <1>2, ValueKinds, NoMembersType DEF Members
  <2> HIDE DEF object
  <2>2. \A k \in Keys : object[k] \in Members(d - 1) /\ patch[k] \in Members(d - 1)
    BY <1>1, <2>1, ObjectMembers
  <2>3. \A k \in Keys : PatchedMember(object[k], patch[k], apply) \in Members(d - 1)
    BY <1>1, <2>2, PatchedMemberType
  <2>4. [k \in Keys |-> PatchedMember(object[k], patch[k], apply)] \in Objects(Values[d - 1])
    BY <2>3 DEF Objects, Members
  <2>5. [k \in Keys |-> PatchedMember(object[k], patch[k], apply)] \in Values[d]
    BY <2>4, ValueKinds
  <2> QED BY <2>5 DEF object
<1> QED BY <1>2 DEF PatchedStep, Applies

\* The function that applies patches, depth by depth.
LEMMA PatchedValueAt ==
  /\ \A d \in 0..Depth : PatchedValue[d] \in Applies(d)
  /\ \A d \in 0..Depth : PatchedValue[d] = PatchedStep(d, PatchedValue[d - 1])
<1> DEFINE z == [target \in Members(0) |-> [patch \in Values[0] |-> patch]]
           U == [d \in 0..Depth |-> Applies(d)]
           G == [d \in 1..Depth |-> [m \in U[d - 1] |-> PatchedStep(d, m)]]
<1>1. z \in Applies(0) /\ U[0] = Applies(0)
  BY DocumentAssumption DEF Applies
<1>2. ASSUME NEW d \in 1..Depth, NEW m \in U[d - 1]
      PROVE  G[d][m] = PatchedStep(d, m) /\ G[d][m] \in U[d]
  <2>1. U[d - 1] = Applies(d - 1) /\ U[d] = Applies(d)
    BY DocumentAssumption
  <2>2. G[d][m] = PatchedStep(d, m)
    OBVIOUS
  <2> QED BY <2>1, <2>2, PatchedStepType
<1>3. \A m : PatchedStep(0, m) = z
  BY ValueKinds DEF PatchedStep
<1> HIDE DEF z, U, G
<1>4. PICK f : Follows(f, Depth, z, G) /\ \A d \in 0..Depth : f[d] \in U[d]
  <2>1. Keeps(Depth, U, z, G)
    BY <1>1, <1>2 DEF Keeps
  <2> QED BY <2>1, Recursion, DocumentAssumption
<1>5. \A d \in 0..Depth : f[d] = PatchedStep(d, f[d - 1])
  <2> SUFFICES ASSUME NEW d \in 0..Depth PROVE f[d] = PatchedStep(d, f[d - 1])
    OBVIOUS
  <2>1. f[d] = IF d = 0 THEN z ELSE G[d][f[d - 1]]
    BY <1>4 DEF Follows
  <2>2. CASE d = 0
    BY <1>3, <2>1, <2>2
  <2>3. CASE d # 0
    <3>1. d \in 1..Depth /\ d - 1 \in 0..Depth
      BY <2>3, DocumentAssumption
    <3>2. f[d - 1] \in U[d - 1]
      BY <1>4, <3>1
    <3> QED BY <1>2, <2>1, <2>3, <3>1, <3>2
  <2> QED BY <2>2, <2>3
<1> DEFINE Is(h) == h = [d \in 0..Depth |-> PatchedStep(d, h[d - 1])]
<1>6. Is(f)
  <2>1. f = [d \in 0..Depth |-> f[d]]
    BY <1>4 DEF Follows
  <2> QED BY <1>5, <2>1
<1>7. PatchedValue = CHOOSE h : Is(h)
  BY DEF PatchedValue, PatchedStep, Members
<1>8. Is(PatchedValue)
  <2> HIDE DEF Is
  <2> QED BY <1>6, <1>7
<1>9. \A d \in 0..Depth : PatchedValue[d] = PatchedStep(d, PatchedValue[d - 1])
  <2> HIDE DEF PatchedStep
  <2> QED BY <1>8
<1>10. \A d \in 0..Depth : PatchedValue[d] \in Applies(d)
  <2> DEFINE T == {n \in Nat : n =< Depth => PatchedValue[n] \in Applies(n)}
  <2>1. 0 \in T
    BY <1>1, <1>3, <1>9, DocumentAssumption
  <2>2. ASSUME NEW n \in T PROVE n + 1 \in T
    <3> SUFFICES ASSUME n + 1 =< Depth PROVE PatchedValue[n + 1] \in Applies(n + 1)
      OBVIOUS
    <3>1. n + 1 \in 1..Depth /\ (n + 1) - 1 = n /\ n + 1 \in 0..Depth /\ PatchedValue[n] \in Applies(n)
      BY DocumentAssumption
    <3> QED BY <1>9, <3>1, PatchedStepType
  <2> HIDE DEF T
  <2>3. T = Nat
    BY <2>1, <2>2, SetOfNaturals DEF T
  <2> QED BY <2>3, DocumentAssumption DEF T
<1> QED BY <1>9, <1>10

-------------------------------------------------------------------------------
(* What is known of a value.                                               *)

KnownStep(d, known) ==
  [v \in Members(d) |->
     IF v \in {Null, Absent} THEN Absent
     ELSE IF IsObject(v) THEN [k \in Keys |-> known[v[k]]]
     ELSE v]

Knows(d) == [Members(d) -> Members(d)]

LEMMA KnownStepType ==
  ASSUME NEW d \in 1..Depth, NEW known \in Knows(d - 1)
  PROVE  KnownStep(d, known) \in Knows(d)
<1>1. d - 1 \in 0..Depth /\ d - 1 \in Nat
  BY DocumentAssumption
<1>2. ASSUME NEW v \in Members(d), IsObject(v)
      PROVE  [k \in Keys |-> known[v[k]]] \in Members(d)
  <2>1. v \in Objects(Values[d - 1])
    BY <1>2, ValueKinds
  <2>2. \A k \in Keys : v[k] \in Members(d - 1)
    BY <1>1, <2>1, ObjectMembers
  <2>3. \A k \in Keys : known[v[k]] \in Members(d - 1)
    BY <2>2 DEF Knows
  <2>4. [k \in Keys |-> known[v[k]]] \in Objects(Values[d - 1])
    BY <2>3 DEF Objects, Members
  <2> QED BY <2>4, ValueKinds DEF Members
<1>3. Absent \in Members(d)
  BY DEF Members
<1>4. ASSUME NEW v \in Members(d)
      PROVE  (IF v \in {Null, Absent} THEN Absent
              ELSE IF IsObject(v) THEN [k \in Keys |-> known[v[k]]]
              ELSE v) \in Members(d)
  BY <1>2, <1>3, NullsAreNoObjects
<1> QED BY <1>4 DEF KnownStep, Knows

\* What is known of the values of each depth.
LEMMA KnownValueAt ==
  /\ \A d \in 0..Depth : KnownValue[d] \in Knows(d)
  /\ \A d \in 0..Depth : KnownValue[d] = KnownStep(d, KnownValue[d - 1])
<1> DEFINE z == [v \in Members(0) |-> IF v \in {Null, Absent} THEN Absent ELSE v]
           U == [d \in 0..Depth |-> Knows(d)]
           G == [d \in 1..Depth |-> [m \in U[d - 1] |-> KnownStep(d, m)]]
<1>1. z \in Knows(0) /\ U[0] = Knows(0)
  BY DocumentAssumption DEF Knows, Members
<1>2. ASSUME NEW d \in 1..Depth, NEW m \in U[d - 1]
      PROVE  G[d][m] = KnownStep(d, m) /\ G[d][m] \in U[d]
  <2>1. U[d - 1] = Knows(d - 1) /\ U[d] = Knows(d)
    BY DocumentAssumption
  <2>2. G[d][m] = KnownStep(d, m)
    OBVIOUS
  <2> QED BY <2>1, <2>2, KnownStepType
<1>3. \A m : KnownStep(0, m) = z
  <2>1. \A v \in Members(0) : ~IsObject(v)
    BY ValueKinds, NullsAreNoObjects DEF Members
  <2> QED BY <2>1 DEF KnownStep
<1> HIDE DEF z, U, G
<1>4. PICK f : Follows(f, Depth, z, G) /\ \A d \in 0..Depth : f[d] \in U[d]
  <2>1. Keeps(Depth, U, z, G)
    BY <1>1, <1>2 DEF Keeps
  <2> QED BY <2>1, Recursion, DocumentAssumption
<1>5. \A d \in 0..Depth : f[d] = KnownStep(d, f[d - 1])
  <2> SUFFICES ASSUME NEW d \in 0..Depth PROVE f[d] = KnownStep(d, f[d - 1])
    OBVIOUS
  <2>1. f[d] = IF d = 0 THEN z ELSE G[d][f[d - 1]]
    BY <1>4 DEF Follows
  <2>2. CASE d = 0
    BY <1>3, <2>1, <2>2
  <2>3. CASE d # 0
    <3>1. d \in 1..Depth /\ d - 1 \in 0..Depth
      BY <2>3, DocumentAssumption
    <3>2. f[d - 1] \in U[d - 1]
      BY <1>4, <3>1
    <3> QED BY <1>2, <2>1, <2>3, <3>1, <3>2
  <2> QED BY <2>2, <2>3
<1> DEFINE Is(h) == h = [d \in 0..Depth |-> KnownStep(d, h[d - 1])]
<1>6. Is(f)
  <2>1. f = [d \in 0..Depth |-> f[d]]
    BY <1>4 DEF Follows
  <2> QED BY <1>5, <2>1
<1>7. KnownValue = CHOOSE h : Is(h)
  BY DEF KnownValue, KnownStep, Members
<1>8. Is(KnownValue)
  <2> HIDE DEF Is
  <2> QED BY <1>6, <1>7
<1>9. \A d \in 0..Depth : KnownValue[d] = KnownStep(d, KnownValue[d - 1])
  <2> HIDE DEF KnownStep
  <2> QED BY <1>8
<1>10. \A d \in 0..Depth : KnownValue[d] \in Knows(d)
  <2> DEFINE T == {n \in Nat : n =< Depth => KnownValue[n] \in Knows(n)}
  <2>1. 0 \in T
    BY <1>1, <1>3, <1>9, DocumentAssumption
  <2>2. ASSUME NEW n \in T PROVE n + 1 \in T
    <3> SUFFICES ASSUME n + 1 =< Depth PROVE KnownValue[n + 1] \in Knows(n + 1)
      OBVIOUS
    <3>1. n + 1 \in 1..Depth /\ (n + 1) - 1 = n /\ n + 1 \in 0..Depth /\ KnownValue[n] \in Knows(n)
      BY DocumentAssumption
    <3> QED BY <1>9, <3>1, KnownStepType
  <2> HIDE DEF T
  <2>3. T = Nat
    BY <2>1, <2>2, SetOfNaturals DEF T
  <2> QED BY <2>3, DocumentAssumption DEF T
<1> QED BY <1>9, <1>10

-------------------------------------------------------------------------------
(* Reconstruction, member by member.                                       *)

PatchOf(d, before, after) == MemberPatch(before, after, ValuePatch[d])
Patched(d, target, patch) == PatchedMember(target, patch, PatchedValue[d])
KnownOf(d, v) == KnownValue[d][v]

\* What a member becomes, in terms of the members of the depth below.
LEMMA PatchedAt ==
  ASSUME NEW d \in 0..Depth, NEW target \in Members(d), NEW patch \in Members(d)
  PROVE  /\ patch = Absent => Patched(d, target, patch) = target
         /\ patch = Null => Patched(d, target, patch) = Absent
         /\ patch \notin {Null, Absent} /\ ~IsObject(patch) => Patched(d, target, patch) = patch
         /\ IsObject(patch) /\ IsObject(target) =>
              Patched(d, target, patch) = [k \in Keys |-> Patched(d - 1, target[k], patch[k])]
         /\ IsObject(patch) /\ ~IsObject(target) =>
              Patched(d, target, patch) = [k \in Keys |-> Patched(d - 1, Absent, patch[k])]
<1>1. Null # Absent
  BY NullsAreNoObjects
<1>2. CASE patch \in {Null, Absent}
  BY <1>1, <1>2, NullsAreNoObjects DEF Patched, PatchedMember
<1>3. CASE patch \notin {Null, Absent}
  <2>1. patch \in Values[d] /\ Patched(d, target, patch) = PatchedValue[d][target][patch]
    BY <1>3 DEF Patched, PatchedMember, Members
  <2>2. PatchedValue[d] = PatchedStep(d, PatchedValue[d - 1])
    BY PatchedValueAt
  <2>3. Patched(d, target, patch) =
          IF IsObject(patch)
          THEN [k \in Keys |->
                 PatchedMember((IF IsObject(target) THEN target ELSE NoMembers)[k], patch[k],
                               PatchedValue[d - 1])]
          ELSE patch
    BY <2>1, <2>2 DEF PatchedStep
  <2>4. \A k \in Keys : NoMembers[k] = Absent
    BY DEF NoMembers
  <2>5. CASE ~IsObject(patch)
    BY <1>3, <2>3, <2>5
  <2>6. CASE IsObject(patch) /\ IsObject(target)
    BY <1>3, <2>3, <2>6 DEF Patched
  <2>7. CASE IsObject(patch) /\ ~IsObject(target)
    <3>1. Patched(d, target, patch) =
            [k \in Keys |-> PatchedMember(NoMembers[k], patch[k], PatchedValue[d - 1])]
      BY <2>3, <2>7
    <3>2. \A k \in Keys : PatchedMember(NoMembers[k], patch[k], PatchedValue[d - 1])
                          = PatchedMember(Absent, patch[k], PatchedValue[d - 1])
      BY <2>4
    <3>3. Patched(d, target, patch) =
            [k \in Keys |-> PatchedMember(Absent, patch[k], PatchedValue[d - 1])]
      BY <3>1, <3>2
    <3> QED BY <1>3, <2>7, <3>3 DEF Patched
  <2> QED BY <2>5, <2>6, <2>7
<1> QED BY <1>2, <1>3

\* What is known of a member, in terms of the members of the depth below: of an
\* object, an object.
LEMMA KnownAt ==
  ASSUME NEW d \in 0..Depth, NEW v \in Members(d)
  PROVE  /\ v \in {Null, Absent} => KnownOf(d, v) = Absent
         /\ v \notin {Null, Absent} /\ ~IsObject(v) => KnownOf(d, v) = v
         /\ IsObject(v) => /\ KnownOf(d, v) = [k \in Keys |-> KnownOf(d - 1, v[k])]
                           /\ IsObject(KnownOf(d, v))
<1>1. KnownValue[d] = KnownStep(d, KnownValue[d - 1])
  BY KnownValueAt
<1>2. KnownOf(d, v) = IF v \in {Null, Absent} THEN Absent
                      ELSE IF IsObject(v) THEN [k \in Keys |-> KnownValue[d - 1][v[k]]]
                      ELSE v
  BY <1>1 DEF KnownOf, KnownStep
<1>3. ASSUME IsObject(v)
      PROVE  /\ KnownOf(d, v) = [k \in Keys |-> KnownOf(d - 1, v[k])]
             /\ IsObject(KnownOf(d, v))
  <2>1. d \in 1..Depth /\ d - 1 \in 0..Depth /\ d - 1 \in Nat
    BY <1>3, ValueKinds, NullsAreNoObjects, DocumentAssumption DEF Members
  <2>2. KnownOf(d, v) = [k \in Keys |-> KnownValue[d - 1][v[k]]]
    BY <1>2, <1>3, NullsAreNoObjects
  <2>3. \A k \in Keys : v[k] \in Members(d - 1)
    BY <1>3, <2>1, ValueKinds, ObjectMembers
  <2>4. \A k \in Keys : KnownValue[d - 1][v[k]] \in Members(d - 1)
    BY <2>1, <2>3, KnownValueAt DEF Knows
  <2>5. KnownOf(d, v) \in Objects(Values[d - 1])
    BY <2>2, <2>4 DEF Objects, Members
  <2>6. IsObject(KnownOf(d, v))
    BY <2>1, <2>5, ValueKinds
  <2> QED BY <2>2, <2>6 DEF KnownOf
<1> QED BY <1>2, <1>3

\* A patch that replaces its target leaves what is known of it, nulls in the
\* objects it brings included.
LEMMA Replaced ==
  \A d \in 0..Depth : \A target \in Members(d) : \A patch \in Values[d] :
    ~IsObject(target) \/ ~IsObject(patch) =>
      KnownOf(d, Patched(d, target, patch)) = KnownOf(d, patch)
<1> DEFINE Good(d) == \A target \in Members(d) : \A patch \in Values[d] :
             ~IsObject(target) \/ ~IsObject(patch) =>
               KnownOf(d, Patched(d, target, patch)) = KnownOf(d, patch)
           T == {n \in Nat : n =< Depth => Good(n)}
<1>1. ASSUME NEW d \in 0..Depth, NEW target \in Members(d), NEW patch \in Values[d],
             ~IsObject(patch)
      PROVE  KnownOf(d, Patched(d, target, patch)) = KnownOf(d, patch)
  <2>1. patch \in Members(d) /\ Absent \in Members(d) /\ patch # Absent
    BY ValueKinds DEF Members
  <2>2. CASE patch = Null
    BY <2>1, <2>2, PatchedAt, KnownAt
  <2>3. CASE patch # Null
    BY <1>1, <2>1, <2>3, PatchedAt
  <2> QED BY <2>2, <2>3
<1>2. 0 \in T
  BY <1>1, ValueKinds, DocumentAssumption
<1>3. ASSUME NEW n \in T PROVE n + 1 \in T
  <2> SUFFICES ASSUME n + 1 =< Depth, NEW target \in Members(n + 1), NEW patch \in Values[n + 1],
                      ~IsObject(target), IsObject(patch)
               PROVE  KnownOf(n + 1, Patched(n + 1, target, patch)) = KnownOf(n + 1, patch)
    <3>1. n + 1 =< Depth => n + 1 \in 0..Depth
      OBVIOUS
    <3> QED BY <1>1, <3>1
  <2>1. n \in 0..Depth /\ n + 1 \in 1..Depth /\ n + 1 \in 0..Depth /\ (n + 1) - 1 = n /\ n \in Nat
    BY DocumentAssumption
  <2>2. Good(n)
    BY <2>1
  <2> HIDE DEF Good
  <2> DEFINE result == Patched(n + 1, target, patch)
  <2>3. patch \in Members(n + 1) /\ patch \in Objects(Values[n])
    BY <2>1, ValueKinds DEF Members
  <2>4. \A k \in Keys : patch[k] \in Members(n)
    BY <2>1, <2>3, ObjectMembers
  <2>5. result = [k \in Keys |-> Patched(n, Absent, patch[k])]
    BY <2>1, <2>3, PatchedAt
  <2>6. ASSUME NEW k \in Keys
        PROVE  /\ Patched(n, Absent, patch[k]) \in Members(n)
               /\ KnownOf(n, Patched(n, Absent, patch[k])) = KnownOf(n, patch[k])
    <3>1. Absent \in Members(n) /\ ~IsObject(Absent)
      BY NullsAreNoObjects DEF Members
    <3>2. CASE patch[k] = Absent
      BY <2>1, <3>1, <3>2, PatchedAt
    <3>3. CASE patch[k] # Absent
      <4>1. patch[k] \in Values[n]
        BY <2>4, <3>3 DEF Members
      <4>2. Patched(n, Absent, patch[k]) \in Members(n)
        BY <2>1, <2>4, <3>1, PatchedMemberType, PatchedValueAt DEF Patched
      <4> QED BY <2>2, <3>1, <4>1, <4>2 DEF Good
    <3> QED BY <3>2, <3>3
  <2>7. result \in Objects(Values[n])
    BY <2>5, <2>6 DEF Objects, Members
  <2>8. result \in Members(n + 1) /\ IsObject(result)
    BY <2>1, <2>7, ValueKinds DEF Members
  <2> HIDE DEF result
  <2>9. KnownOf(n + 1, result) = [k \in Keys |-> KnownOf(n, result[k])]
    BY <2>1, <2>8, KnownAt
  <2>10. KnownOf(n + 1, patch) = [k \in Keys |-> KnownOf(n, patch[k])]
    BY <2>1, <2>3, KnownAt
  <2>11. \A k \in Keys : KnownOf(n, result[k]) = KnownOf(n, patch[k])
    BY <2>5, <2>6
  <2>12. KnownOf(n + 1, result) = KnownOf(n + 1, patch)
    BY <2>9, <2>10, <2>11
  <2> QED BY <2>12 DEF result
<1> HIDE DEF T
<1>4. T = Nat
  BY <1>2, <1>3, SetOfNaturals DEF T
<1> QED BY <1>4, DocumentAssumption DEF T

\* The patch of two members, applied to a member that cannot be told from the first.
LEMMA MemberReconstructed ==
  \A d \in 0..Depth : \A base \in Members(d), before \in Members(d), after \in Members(d) :
    KnownOf(d, base) = KnownOf(d, before) =>
      KnownOf(d, Patched(d, base, PatchOf(d, before, after))) = KnownOf(d, after)
<1> DEFINE Good(d) ==
             \A base \in Members(d), before \in Members(d), after \in Members(d) :
               KnownOf(d, base) = KnownOf(d, before) =>
                 KnownOf(d, Patched(d, base, PatchOf(d, before, after))) = KnownOf(d, after)
           T == {n \in Nat : n =< Depth => Good(n)}
\* All but the patch of two objects.
<1>1. ASSUME NEW d \in 0..Depth, NEW base \in Members(d), NEW before \in Members(d),
             NEW after \in Members(d), KnownOf(d, base) = KnownOf(d, before),
             before = after \/ ~IsObject(before) \/ ~IsObject(after)
      PROVE  KnownOf(d, Patched(d, base, PatchOf(d, before, after))) = KnownOf(d, after)
  <2>1. Absent \in Members(d) /\ Null \in Members(d) /\ Null # Absent
    BY ValueKinds, NullsAreNoObjects DEF Members
  <2>2. CASE before = after
    <3>1. PatchOf(d, before, after) = Absent
      BY <2>2 DEF PatchOf, MemberPatch
    <3> QED BY <1>1, <2>1, <2>2, <3>1, PatchedAt
  <2>3. CASE before # after /\ after = Absent
    <3>1. PatchOf(d, before, after) = Null
      BY <2>3 DEF PatchOf, MemberPatch
    <3> QED BY <2>1, <2>3, <3>1, PatchedAt
  <2>4. CASE before # after /\ after # Absent
    <3>1. after \in Values[d]
      BY <2>4 DEF Members
    <3>2. PatchOf(d, before, after) = after
      <4>1. CASE before = Absent
        BY <2>4, <4>1 DEF PatchOf, MemberPatch
      <4>2. CASE before # Absent
        <5>1. before \in Values[d]
          BY <4>2 DEF Members
        <5>2. PatchOf(d, before, after) = ValuePatch[d][before][after]
          BY <2>4, <4>2 DEF PatchOf, MemberPatch
        <5>3. ValuePatch[d] = PatchStep(d, ValuePatch[d - 1])
          BY ValuePatchAt
        <5>4. ~(IsObject(before) /\ IsObject(after))
          BY <1>1, <2>4
        <5> QED BY <3>1, <5>1, <5>2, <5>3, <5>4 DEF PatchStep
      <4> QED BY <4>1, <4>2
    <3>3. ~IsObject(base) \/ ~IsObject(after)
      <4>1. IsObject(base) => IsObject(KnownOf(d, base))
        BY KnownAt
      <4>2. ~IsObject(before) => ~IsObject(KnownOf(d, before))
        BY KnownAt, NullsAreNoObjects
      <4> QED BY <1>1, <2>4, <4>1, <4>2
    <3> QED BY <3>1, <3>2, <3>3, Replaced
  <2> QED BY <2>2, <2>3, <2>4
<1>2. 0 \in T
  <2>1. \A v \in Members(0) : ~IsObject(v)
    BY ValueKinds, NullsAreNoObjects DEF Members
  <2> QED BY <1>1, <2>1, DocumentAssumption
<1>3. ASSUME NEW n \in T PROVE n + 1 \in T
  <2> SUFFICES ASSUME n + 1 =< Depth, NEW base \in Members(n + 1), NEW before \in Members(n + 1),
                      NEW after \in Members(n + 1),
                      KnownOf(n + 1, base) = KnownOf(n + 1, before),
                      before # after, IsObject(before), IsObject(after)
               PROVE  KnownOf(n + 1, Patched(n + 1, base, PatchOf(n + 1, before, after)))
                      = KnownOf(n + 1, after)
    <3>1. n + 1 =< Depth => n + 1 \in 0..Depth
      OBVIOUS
    <3> QED BY <1>1, <3>1
  <2>1. n \in 0..Depth /\ n + 1 \in 1..Depth /\ n + 1 \in 0..Depth /\ (n + 1) - 1 = n /\ n \in Nat
    BY DocumentAssumption
  <2>2. Good(n)
    BY <2>1
  <2> HIDE DEF Good
  <2> DEFINE patch == PatchOf(n + 1, before, after)
             result == Patched(n + 1, base, patch)
  <2>3. before \in Objects(Values[n]) /\ after \in Objects(Values[n])
    BY <2>1, ValueKinds
  <2>4. base \in Objects(Values[n]) /\ IsObject(base)
    <3>1. IsObject(KnownOf(n + 1, before))
      BY <2>1, KnownAt
    <3>2. IsObject(base)
      BY <2>1, <3>1, KnownAt, NullsAreNoObjects
    <3> QED BY <2>1, <3>2, ValueKinds
  <2>5. \A k \in Keys : before[k] \in Members(n) /\ after[k] \in Members(n) /\ base[k] \in Members(n)
    BY <2>1, <2>3, <2>4, ObjectMembers
  <2>6. patch = [k \in Keys |-> PatchOf(n, before[k], after[k])]
    <3>1. before \in Values[n + 1] /\ after \in Values[n + 1] /\ before # Absent /\ after # Absent
      BY <2>1, <2>3, ValueKinds
    <3>2. patch = ValuePatch[n + 1][before][after]
      BY <3>1 DEF PatchOf, MemberPatch
    <3>3. ValuePatch[n + 1] = PatchStep(n + 1, ValuePatch[n])
      BY <2>1, ValuePatchAt
    <3> QED BY <3>1, <3>2, <3>3 DEF PatchStep, PatchOf
  <2>7. \A k \in Keys : PatchOf(n, before[k], after[k]) \in Members(n)
    BY <2>1, <2>5, MemberPatchType, ValuePatchAt DEF PatchOf
  <2>8. patch \in Objects(Values[n])
    BY <2>6, <2>7 DEF Objects, Members
  <2>9. patch \in Members(n + 1) /\ IsObject(patch)
    BY <2>1, <2>8, ValueKinds DEF Members
  <2> HIDE DEF patch
  <2>10. result = [k \in Keys |-> Patched(n, base[k], patch[k])]
    BY <2>1, <2>4, <2>9, PatchedAt
  <2>11. \A k \in Keys : patch[k] = PatchOf(n, before[k], after[k])
    BY <2>6
  <2>12. \A k \in Keys : Patched(n, base[k], patch[k]) \in Members(n)
    BY <2>1, <2>5, <2>7, <2>11, PatchedMemberType, PatchedValueAt DEF Patched
  <2>13. result \in Objects(Values[n])
    BY <2>10, <2>12 DEF Objects, Members
  <2>14. result \in Members(n + 1) /\ IsObject(result)
    BY <2>1, <2>13, ValueKinds DEF Members
  <2> HIDE DEF result
  <2>15. KnownOf(n + 1, result) = [k \in Keys |-> KnownOf(n, result[k])]
    BY <2>1, <2>14, KnownAt
  <2>16. KnownOf(n + 1, after) = [k \in Keys |-> KnownOf(n, after[k])]
    BY <2>1, KnownAt
  <2>17. ASSUME NEW k \in Keys PROVE KnownOf(n, base[k]) = KnownOf(n, before[k])
    <3>1. KnownOf(n + 1, base) = [j \in Keys |-> KnownOf(n, base[j])]
      BY <2>1, <2>4, KnownAt
    <3>2. KnownOf(n + 1, before) = [j \in Keys |-> KnownOf(n, before[j])]
      BY <2>1, KnownAt
    <3>3. [j \in Keys |-> KnownOf(n, base[j])][k] = [j \in Keys |-> KnownOf(n, before[j])][k]
      BY <3>1, <3>2
    <3> QED BY <3>3
  <2>18. ASSUME NEW k \in Keys PROVE KnownOf(n, result[k]) = KnownOf(n, after[k])
    <3>1. result[k] = Patched(n, base[k], PatchOf(n, before[k], after[k]))
      BY <2>10, <2>11
    <3> QED BY <2>2, <2>5, <2>17, <3>1 DEF Good
  <2>19. KnownOf(n + 1, result) = KnownOf(n + 1, after)
    BY <2>15, <2>16, <2>18
  <2> QED BY <2>19 DEF result, patch
<1> HIDE DEF T
<1>4. T = Nat
  BY <1>2, <1>3, SetOfNaturals DEF T
<1> QED BY <1>4, DocumentAssumption DEF T

-------------------------------------------------------------------------------
(* Documents.                                                              *)

\* A patch between two documents is a document.
LEMMA MergePatchType ==
  ASSUME NEW previous \in Documents, NEW current \in Documents
  PROVE  MergePatch(previous, current) \in Documents
<1>1. Depth \in 0..Depth /\ Depth \in Nat
  BY DocumentAssumption
<1>2. \A k \in Keys : previous[k] \in Members(Depth) /\ current[k] \in Members(Depth)
  BY <1>1, ObjectMembers DEF Documents
<1>3. \A k \in Keys : MemberPatch(previous[k], current[k], ValuePatch[Depth]) \in Members(Depth)
  BY <1>1, <1>2, MemberPatchType, ValuePatchAt
<1> QED BY <1>3 DEF MergePatch, Documents, Objects, Members

\* The result of applying one is a document.
LEMMA ApplyMergePatchType ==
  ASSUME NEW target \in Documents, NEW patch \in Documents
  PROVE  ApplyMergePatch(target, patch) \in Documents
<1>1. Depth \in 0..Depth /\ Depth \in Nat
  BY DocumentAssumption
<1>2. \A k \in Keys : target[k] \in Members(Depth) /\ patch[k] \in Members(Depth)
  BY <1>1, ObjectMembers DEF Documents
<1>3. \A k \in Keys : PatchedMember(target[k], patch[k], PatchedValue[Depth]) \in Members(Depth)
  BY <1>1, <1>2, PatchedMemberType, PatchedValueAt
<1> QED BY <1>3 DEF ApplyMergePatch, Documents, Objects, Members

LEMMA EmptyDocument == NoMembers \in Documents
BY NoMembersType, DocumentAssumption DEF Documents

\* Applied to a document that cannot be told from the first, the patch from the first
\* to the second gives the second, up to nulls at any depth (merge_patch,
\* apply_merge_patch).
THEOREM PatchReconstructs ==
  ASSUME NEW base \in Documents, NEW previous \in Documents, NEW current \in Documents,
         Known(base) = Known(previous)
  PROVE  Known(ApplyMergePatch(base, MergePatch(previous, current))) = Known(current)
<1> DEFINE patch == MergePatch(previous, current)
           result == ApplyMergePatch(base, patch)
<1>1. Depth \in 0..Depth /\ Depth \in Nat
  BY DocumentAssumption
<1>2. \A k \in Keys : /\ base[k] \in Members(Depth) /\ previous[k] \in Members(Depth)
                      /\ current[k] \in Members(Depth)
  BY <1>1, ObjectMembers DEF Documents
<1>3. \A k \in Keys : result[k] = Patched(Depth, base[k], PatchOf(Depth, previous[k], current[k]))
  BY DEF MergePatch, ApplyMergePatch, Patched, PatchOf
<1>4. ASSUME NEW k \in Keys PROVE KnownOf(Depth, base[k]) = KnownOf(Depth, previous[k])
  <2>1. Known(base)[k] = Known(previous)[k]
    OBVIOUS
  <2> QED BY <2>1 DEF Known, KnownOf
<1>5. ASSUME NEW k \in Keys PROVE KnownOf(Depth, result[k]) = KnownOf(Depth, current[k])
  <2> HIDE DEF result
  <2> QED BY <1>1, <1>2, <1>3, <1>4, MemberReconstructed
<1> HIDE DEF result
<1>6. Known(result) = Known(current)
  BY <1>5 DEF Known, KnownOf
<1> QED BY <1>6 DEF result
=================================================================================
