------------------------------- MODULE FiniteSums -------------------------------
(***************************************************************************)
(* Facts about SumFunctionOnSet(w, S), the sum of the weights w[x] of the  *)
(* elements of a finite set S, for weights that are natural numbers.       *)
(*                                                                         *)
(* Every proof by induction here is one over a set of numbers: a set that  *)
(* holds 0 and the successor of each of its elements is Nat.               *)
(***************************************************************************)
EXTENDS FiniteSetTheorems, TLAPS

-------------------------------------------------------------------------------
(* Induction.                                                              *)

LessThan == {ss \in Nat \X Nat : ss[1] < ss[2]}

\* A non-empty set of natural numbers has a least element.
LEMMA LeastElement ==
  ASSUME NEW T \in SUBSET Nat, T # {}
  PROVE  \E n \in T : \A m \in T : n <= m
<1>1. IsWellFoundedOn(LessThan, Nat)
  BY NatLessThanWellFounded DEF OpToRel, LessThan
<1>2. PICK n \in T : \A m \in T : ~ (<<m, n>> \in LessThan)
  BY <1>1, WFMin
<1>3. ASSUME NEW m \in T PROVE n <= m
  <2>1. n \in Nat /\ m \in Nat
    OBVIOUS
  <2>2. m < n => <<m, n>> \in LessThan
    BY <2>1 DEF LessThan
  <2> QED BY <1>2, <2>1, <2>2
<1> QED BY <1>3

\* Induction over the natural numbers, for the set where a property holds.
THEOREM SetOfNaturals ==
  ASSUME NEW T \in SUBSET Nat, 0 \in T, \A n \in T : n + 1 \in T
  PROVE  T = Nat
<1> SUFFICES ASSUME Nat \ T # {} PROVE FALSE
  OBVIOUS
<1>1. PICK n \in Nat \ T : \A m \in Nat \ T : n <= m
  BY LeastElement
<1>2. n # 0 /\ n - 1 \in Nat
  BY <1>1
<1>3. n - 1 \in T
  BY <1>1, <1>2
<1> QED
  BY <1>1, <1>2, <1>3

-------------------------------------------------------------------------------
(* The function behind SumFunctionOnSet.                                   *)

\* The element a sum takes first.
Picked(T) == CHOOSE x \in T : TRUE

\* f[T] is the sum over T, for the subsets T of a set that are in D.
Sums(f, w, D) ==
  f = [T \in D |-> IF T = {} THEN 0 ELSE w[Picked(T)] + f[T \ {Picked(T)}]]

\* f is the function of SumFunctionOnSet(w, S).
SumsOver(f, w, S) == Sums(f, w, SUBSET S)

\* The definition, with its recursive function made explicit.
LEMMA SumIsChosen ==
  ASSUME NEW w, NEW S
  PROVE  SumFunctionOnSet(w, S) = (CHOOSE f : SumsOver(f, w, S))[S]
BY DEF SumFunctionOnSet, FoldFunctionOnSet, MapThenFoldSet, SumsOver, Sums, Picked

\* The subsets of S with at most n elements.
UpTo(S, n) == {T \in SUBSET S : Cardinality(T) <= n}

\* A set without the element that is taken first is one element smaller.
LEMMA PickedSmaller ==
  ASSUME NEW T, IsFiniteSet(T), T # {}
  PROVE  /\ Picked(T) \in T
         /\ IsFiniteSet(T \ {Picked(T)})
         /\ Cardinality(T) \in Nat \ {0}
         /\ Cardinality(T \ {Picked(T)}) = Cardinality(T) - 1
<1>1. Picked(T) \in T
  BY DEF Picked
<1>2. Cardinality(T) \in Nat /\ Cardinality(T) # 0
  BY FS_CardinalityType, FS_EmptySet
<1> QED BY <1>1, <1>2, FS_RemoveElement

\* There is a function of sums for the subsets up to any size.
LEMMA SumsExistUpTo ==
  ASSUME NEW w, NEW S, IsFiniteSet(S)
  PROVE  \A n \in Nat : \E f : Sums(f, w, UpTo(S, n))
<1> DEFINE T == {n \in Nat : \E f : Sums(f, w, UpTo(S, n))}
<1>1. 0 \in T
  <2> DEFINE f == [U \in UpTo(S, 0) |-> 0]
  <2>1. ASSUME NEW U \in UpTo(S, 0) PROVE U = {}
    BY FS_Subset, FS_CardinalityType, FS_EmptySet DEF UpTo
  <2>2. Sums(f, w, UpTo(S, 0))
    BY <2>1 DEF Sums
  <2> QED BY <2>2
<1>2. ASSUME NEW n \in T PROVE n + 1 \in T
  <2>1. PICK f : Sums(f, w, UpTo(S, n))
    OBVIOUS
  <2> DEFINE g == [U \in UpTo(S, n + 1) |->
                    IF U = {} THEN 0 ELSE w[Picked(U)] + f[U \ {Picked(U)}]]
  <2>2. ASSUME NEW U \in UpTo(S, n + 1), U # {}
        PROVE  /\ U \ {Picked(U)} \in UpTo(S, n)
               /\ g[U \ {Picked(U)}] = f[U \ {Picked(U)}]
    <3> DEFINE V == U \ {Picked(U)}
    <3>1. IsFiniteSet(U)
      BY FS_Subset DEF UpTo
    <3>2. V \in UpTo(S, n)
      <4>1. /\ Cardinality(U) \in Nat /\ Cardinality(U) <= n + 1
            /\ Cardinality(V) = Cardinality(U) - 1
        BY <2>2, <3>1, PickedSmaller DEF UpTo
      <4>2. V \in SUBSET S
        BY DEF UpTo
      <4> QED BY <4>1, <4>2 DEF UpTo
    <3>3. V \in UpTo(S, n + 1)
      BY <3>2, FS_Subset, FS_CardinalityType DEF UpTo
    <3>4. f[V] = IF V = {} THEN 0 ELSE w[Picked(V)] + f[V \ {Picked(V)}]
      BY <2>1, <3>2 DEF Sums
    <3>5. g[V] = f[V]
      BY <3>3, <3>4
    <3> QED BY <3>2, <3>5
  <2>3. Sums(g, w, UpTo(S, n + 1))
    <3>1. \A U \in UpTo(S, n + 1) :
            g[U] = IF U = {} THEN 0 ELSE w[Picked(U)] + g[U \ {Picked(U)}]
      BY <2>2
    <3> QED BY <3>1 DEF Sums
  <2> QED BY <2>3
<1> HIDE DEF T
<1>3. T = Nat
  BY <1>1, <1>2, SetOfNaturals DEF T
<1> QED BY <1>3 DEF T

\* There is a function of sums for all subsets.
LEMMA SumsExist ==
  ASSUME NEW w, NEW S, IsFiniteSet(S)
  PROVE  \E f : SumsOver(f, w, S)
<1>1. UpTo(S, Cardinality(S)) = SUBSET S
  BY FS_Subset, FS_CardinalityType DEF UpTo
<1>2. Cardinality(S) \in Nat
  BY FS_CardinalityType
<1>3. \E f : Sums(f, w, UpTo(S, Cardinality(S)))
  BY <1>2, SumsExistUpTo
<1> QED BY <1>1, <1>3 DEF SumsOver

\* Two functions of sums agree where both are defined.
LEMMA SumsAgree ==
  ASSUME NEW w, NEW S, IsFiniteSet(S), NEW R \in SUBSET S,
         NEW g, NEW f, SumsOver(g, w, R), SumsOver(f, w, S)
  PROVE  \A U \in SUBSET R : g[U] = f[U]
<1> DEFINE T == {n \in Nat : \A U \in SUBSET R : Cardinality(U) = n => f[U] = g[U]}
<1>1. ASSUME NEW U \in SUBSET R
      PROVE  /\ IsFiniteSet(U) /\ Cardinality(U) \in Nat
             /\ f[U] = IF U = {} THEN 0 ELSE w[Picked(U)] + f[U \ {Picked(U)}]
             /\ g[U] = IF U = {} THEN 0 ELSE w[Picked(U)] + g[U \ {Picked(U)}]
  BY FS_Subset, FS_CardinalityType DEF SumsOver, Sums
<1>2. 0 \in T
  BY <1>1, FS_EmptySet
<1>3. ASSUME NEW n \in T PROVE n + 1 \in T
  <2> SUFFICES ASSUME NEW U \in SUBSET R, Cardinality(U) = n + 1 PROVE f[U] = g[U]
    OBVIOUS
  <2>1. n \in Nat /\ Cardinality(U) # 0
    OBVIOUS
  <2>2. IsFiniteSet(U) /\ U # {}
    BY <1>1, <2>1, FS_EmptySet
  <2>3. Cardinality(U \ {Picked(U)}) = n
    <3>1. Cardinality(U \ {Picked(U)}) = Cardinality(U) - 1
      BY <2>1, <2>2, PickedSmaller
    <3> QED BY <2>1, <3>1
  <2>4. f[U \ {Picked(U)}] = g[U \ {Picked(U)}]
    BY <2>3
  <2> QED BY <1>1, <2>1, <2>4
<1> HIDE DEF T
<1>4. T = Nat
  BY <1>2, <1>3, SetOfNaturals DEF T
<1> QED BY <1>1, <1>4 DEF T

-------------------------------------------------------------------------------
(* What a sum is.                                                          *)

\* The weights that the theorems below are about.
Weights(w, S) == \A x \in S : w[x] \in Nat

\* The sum over a set, one element at a time, in the order of the choices.
LEMMA SumPicks ==
  ASSUME NEW w, NEW S, IsFiniteSet(S)
  PROVE  SumFunctionOnSet(w, S) =
           IF S = {} THEN 0 ELSE w[Picked(S)] + SumFunctionOnSet(w, S \ {Picked(S)})
<1> DEFINE R == S \ {Picked(S)}
           f == CHOOSE f : SumsOver(f, w, S)
           g == CHOOSE g : SumsOver(g, w, R)
<1>1. IsFiniteSet(R)
  BY FS_Subset
<1>2. SumsOver(f, w, S) /\ SumsOver(g, w, R)
  BY <1>1, SumsExist
<1>3. SumFunctionOnSet(w, S) = f[S] /\ SumFunctionOnSet(w, R) = g[R]
  BY SumIsChosen
<1> HIDE DEF f, g
<1>4. f[S] = IF S = {} THEN 0 ELSE w[Picked(S)] + f[R]
  BY <1>2 DEF SumsOver, Sums
<1>5. f[R] = g[R]
  <2>1. R \in SUBSET S /\ R \in SUBSET R
    OBVIOUS
  <2> HIDE DEF R
  <2>2. ASSUME NEW k, NEW h, SumsOver(k, w, R), SumsOver(h, w, S)
        PROVE  k[R] = h[R]
    BY <2>1, <2>2, SumsAgree
  <2> QED BY <1>2, <2>2
<1> QED BY <1>3, <1>4, <1>5

\* The sum over no elements.
THEOREM SumEmpty == ASSUME NEW w PROVE SumFunctionOnSet(w, {}) = 0
BY SumPicks, FS_EmptySet

\* An induction over the subsets of a finite set by their size: T holds the
\* sizes at which P holds, for the set P of subsets.
THEOREM SubsetInduction ==
  ASSUME NEW S, IsFiniteSet(S), NEW P \in SUBSET SUBSET S,
         {} \in P,
         \A U \in SUBSET S : U # {} /\ (\A x \in U : U \ {x} \in P) => U \in P
  PROVE  P = SUBSET S
<1> DEFINE T == {n \in Nat : \A U \in SUBSET S : Cardinality(U) = n => U \in P}
<1>1. ASSUME NEW U \in SUBSET S PROVE IsFiniteSet(U) /\ Cardinality(U) \in Nat
  BY FS_Subset, FS_CardinalityType
<1>2. 0 \in T
  BY <1>1, FS_EmptySet
<1>3. ASSUME NEW n \in T PROVE n + 1 \in T
  <2> SUFFICES ASSUME NEW U \in SUBSET S, Cardinality(U) = n + 1 PROVE U \in P
    OBVIOUS
  <2>1. n \in Nat /\ IsFiniteSet(U) /\ U # {}
    BY <1>1, FS_EmptySet
  <2>2. ASSUME NEW x \in U PROVE U \ {x} \in P
    <3>1. Cardinality(U \ {x}) = Cardinality(U) - 1
      BY <2>1, FS_RemoveElement
    <3>2. Cardinality(U \ {x}) = n
      BY <2>1, <3>1
    <3> QED BY <3>2
  <2> QED BY <2>1, <2>2
<1> HIDE DEF T
<1>4. T = Nat
  BY <1>2, <1>3, SetOfNaturals DEF T
<1> QED BY <1>1, <1>4 DEF T

\* A sum of natural numbers is one.
THEOREM SumType ==
  ASSUME NEW w, NEW S, IsFiniteSet(S), Weights(w, S)
  PROVE  SumFunctionOnSet(w, S) \in Nat
<1> DEFINE P == {U \in SUBSET S : SumFunctionOnSet(w, U) \in Nat}
<1>1. {} \in P
  BY SumEmpty
<1>2. ASSUME NEW U \in SUBSET S, U # {}, \A x \in U : U \ {x} \in P
      PROVE  U \in P
  <2>1. SumFunctionOnSet(w, U) = w[Picked(U)] + SumFunctionOnSet(w, U \ {Picked(U)})
    BY <1>2, FS_Subset, SumPicks
  <2>2. Picked(U) \in U
    BY <1>2 DEF Picked
  <2> QED BY <1>2, <2>1, <2>2 DEF Weights
<1>3. P \in SUBSET SUBSET S
  OBVIOUS
<1> HIDE DEF P
<1>4. P = SUBSET S
  BY <1>1, <1>2, <1>3, SubsetInduction
<1> QED BY <1>4 DEF P

\* The order of the choices does not matter.
THEOREM SumWithout ==
  ASSUME NEW w, NEW S, IsFiniteSet(S), Weights(w, S)
  PROVE  \A x \in S : SumFunctionOnSet(w, S) = w[x] + SumFunctionOnSet(w, S \ {x})
<1> DEFINE Sum(U) == SumFunctionOnSet(w, U)
           P == {U \in SUBSET S : \A x \in U : Sum(U) = w[x] + Sum(U \ {x})}
<1>1. ASSUME NEW U \in SUBSET S PROVE IsFiniteSet(U) /\ Sum(U) \in Nat
  BY FS_Subset, SumType DEF Weights
<1>2. {} \in P
  OBVIOUS
<1>3. ASSUME NEW U \in SUBSET S, U # {}, \A x \in U : U \ {x} \in P
      PROVE  U \in P
  <2> SUFFICES ASSUME NEW x \in U PROVE Sum(U) = w[x] + Sum(U \ {x})
    OBVIOUS
  <2> DEFINE p == Picked(U)
  <2>1. p \in U /\ Sum(U) = w[p] + Sum(U \ {p})
    BY <1>1, <1>3, SumPicks DEF Picked
  <2> HIDE DEF p
  <2>2. CASE x = p
    BY <2>1, <2>2
  <2>3. CASE x # p
    <3>1. Sum(U \ {p}) = w[x] + Sum((U \ {p}) \ {x})
      BY <1>3, <2>1, <2>3
    <3>2. Sum(U \ {x}) = w[p] + Sum((U \ {x}) \ {p})
      BY <1>3, <2>1, <2>3
    <3>3. (U \ {p}) \ {x} = (U \ {x}) \ {p}
      OBVIOUS
    <3>4. w[x] \in Nat /\ w[p] \in Nat /\ Sum((U \ {x}) \ {p}) \in Nat
      BY <1>1, <2>1 DEF Weights
    <3>5. Sum(U) = w[p] + (w[x] + Sum((U \ {x}) \ {p}))
      BY <2>1, <3>1, <3>3
    <3> QED BY <3>2, <3>4, <3>5
  <2> QED BY <2>2, <2>3
<1>4. P \in SUBSET SUBSET S
  OBVIOUS
<1> HIDE DEF P
<1>5. P = SUBSET S
  BY <1>2, <1>3, <1>4, SubsetInduction
<1> QED BY <1>5 DEF P

\* A new element adds its weight.
THEOREM SumAdd ==
  ASSUME NEW w, NEW S, IsFiniteSet(S), NEW x, x \notin S, Weights(w, S \cup {x})
  PROVE  SumFunctionOnSet(w, S \cup {x}) = SumFunctionOnSet(w, S) + w[x]
<1>1. IsFiniteSet(S \cup {x}) /\ (S \cup {x}) \ {x} = S
  BY FS_AddElement
<1>2. SumFunctionOnSet(w, S \cup {x}) = w[x] + SumFunctionOnSet(w, (S \cup {x}) \ {x})
  BY <1>1, SumWithout
<1>3. SumFunctionOnSet(w, S \cup {x}) = w[x] + SumFunctionOnSet(w, S)
  BY <1>1, <1>2
<1>4. w[x] \in Nat /\ SumFunctionOnSet(w, S) \in Nat
  BY SumType DEF Weights
<1> QED BY <1>3, <1>4

\* The sum over one element.
THEOREM SumOne ==
  ASSUME NEW w, NEW x, w[x] \in Nat
  PROVE  SumFunctionOnSet(w, {x}) = w[x]
<1>1. Weights(w, {} \cup {x}) /\ {} \cup {x} = {x}
  BY DEF Weights
<1> QED BY <1>1, SumAdd, SumEmpty, FS_EmptySet

\* The sum depends on the weights of the elements alone.
THEOREM SumOfSameWeights ==
  ASSUME NEW w, NEW v, NEW S, IsFiniteSet(S), \A x \in S : v[x] = w[x]
  PROVE  SumFunctionOnSet(v, S) = SumFunctionOnSet(w, S)
<1> DEFINE P == {U \in SUBSET S : SumFunctionOnSet(v, U) = SumFunctionOnSet(w, U)}
<1>1. {} \in P
  BY SumEmpty
<1>2. ASSUME NEW U \in SUBSET S, U # {}, \A x \in U : U \ {x} \in P
      PROVE  U \in P
  <2>1. Picked(U) \in U /\ IsFiniteSet(U)
    BY <1>2, FS_Subset DEF Picked
  <2>2. /\ SumFunctionOnSet(v, U) = v[Picked(U)] + SumFunctionOnSet(v, U \ {Picked(U)})
        /\ SumFunctionOnSet(w, U) = w[Picked(U)] + SumFunctionOnSet(w, U \ {Picked(U)})
    BY <1>2, <2>1, SumPicks
  <2> QED BY <1>2, <2>1, <2>2
<1>3. P \in SUBSET SUBSET S
  OBVIOUS
<1> HIDE DEF P
<1>4. P = SUBSET S
  BY <1>1, <1>2, <1>3, SubsetInduction
<1> QED BY <1>4 DEF P

\* The sum over two sets without a common element.
THEOREM SumUnion ==
  ASSUME NEW w, NEW S, NEW R, IsFiniteSet(S), IsFiniteSet(R), S \cap R = {},
         Weights(w, S \cup R)
  PROVE  SumFunctionOnSet(w, S \cup R) = SumFunctionOnSet(w, S) + SumFunctionOnSet(w, R)
<1> DEFINE Sum(U) == SumFunctionOnSet(w, U)
           P == {U \in SUBSET R : Sum(S \cup U) = Sum(S) + Sum(U)}
<1>1. ASSUME NEW U \in SUBSET R
      PROVE  /\ IsFiniteSet(U) /\ IsFiniteSet(S \cup U)
             /\ Weights(w, U) /\ Weights(w, S \cup U) /\ Weights(w, S)
             /\ Sum(U) \in Nat /\ Sum(S) \in Nat
  BY FS_Subset, FS_Union, SumType DEF Weights
<1>2. {} \in P
  <2>1. S \cup {} = S /\ Sum({}) = 0 /\ Sum(S) \in Nat
    BY <1>1, SumEmpty
  <2> QED BY <2>1
<1>3. ASSUME NEW U \in SUBSET R, U # {}, \A x \in U : U \ {x} \in P
      PROVE  U \in P
  <2>1. PICK x : x \in U
    BY <1>3
  <2>2. x \in S \cup U /\ (S \cup U) \ {x} = S \cup (U \ {x})
    BY <2>1
  <2>3. Sum(U) = w[x] + Sum(U \ {x})
    <3>1. IsFiniteSet(U) /\ Weights(w, U)
      BY <1>1
    <3> QED BY <2>1, <3>1, SumWithout
  <2>4. Sum(S \cup U) = w[x] + Sum(S \cup (U \ {x}))
    BY <1>1, <2>2, SumWithout
  <2>5. Sum(S \cup (U \ {x})) = Sum(S) + Sum(U \ {x})
    BY <1>3, <2>1
  <2>6. U \ {x} \in SUBSET R
    OBVIOUS
  <2>7. w[x] \in Nat /\ Sum(S) \in Nat /\ Sum(U \ {x}) \in Nat
    BY <1>1, <2>1, <2>6 DEF Weights
  <2>8. Sum(S \cup U) = w[x] + (Sum(S) + Sum(U \ {x}))
    BY <2>4, <2>5
  <2>9. Sum(S \cup U) = Sum(S) + Sum(U)
    BY <2>3, <2>7, <2>8
  <2> QED BY <2>9
<1>4. P \in SUBSET SUBSET R
  OBVIOUS
<1> HIDE DEF P
<1>5. P = SUBSET R
  BY <1>2, <1>3, <1>4, SubsetInduction
<1> QED BY <1>5 DEF P

\* A part of a set has a part of its sum.
THEOREM SumPart ==
  ASSUME NEW w, NEW S, IsFiniteSet(S), Weights(w, S), NEW R \in SUBSET S
  PROVE  /\ SumFunctionOnSet(w, S) = SumFunctionOnSet(w, R) + SumFunctionOnSet(w, S \ R)
         /\ SumFunctionOnSet(w, R) <= SumFunctionOnSet(w, S)
<1>1. /\ IsFiniteSet(R) /\ IsFiniteSet(S \ R) /\ R \cup (S \ R) = S
      /\ R \cap (S \ R) = {} /\ Weights(w, R) /\ Weights(w, S \ R)
  BY FS_Subset DEF Weights
<1>2. SumFunctionOnSet(w, R) \in Nat /\ SumFunctionOnSet(w, S \ R) \in Nat
  BY <1>1, SumType
<1>3. SumFunctionOnSet(w, S) = SumFunctionOnSet(w, R) + SumFunctionOnSet(w, S \ R)
  BY <1>1, SumUnion
<1> QED BY <1>2, <1>3
=================================================================================
