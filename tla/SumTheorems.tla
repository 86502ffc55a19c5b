---------------------------- MODULE SumTheorems ----------------------------
(***************************************************************************)
(* Sums over finite sets, SumFunctionOnSet of the community modules: what  *)
(* the accounting proofs of the saga and of the catalogue need to know.    *)
(*                                                                         *)
(* SumFunctionOnSet is defined by recursion over the subsets of the index  *)
(* set, so that every fact here is an induction.  The form of induction    *)
(* used is the one that needs no predicate as a parameter: a nonempty set  *)
(* of counterexamples has a least member (LeastSubset), and it is none.    *)
(***************************************************************************)
EXTENDS FiniteSetsExt, FiniteSetTheorems, TLAPS

\* The element the recursion takes out of s.
Pick(s) == CHOOSE x \in s : TRUE

\* g is a table of the sums of f over the subsets of S.
IsSum(f, S, g) ==
    g = [s \in SUBSET S |-> IF s = {} THEN 0 ELSE f[Pick(s)] + g[s \ {Pick(s)}]]

\* The table the recursive definition denotes, if there is one.
SumTo(f, S) == CHOOSE g : IsSum(f, S, g)

\* The library's sum is the entry for S itself.
LEMMA SumUnfold ==
    ASSUME NEW f, NEW S
    PROVE  SumFunctionOnSet(f, S) = SumTo(f, S)[S]
BY DEF SumFunctionOnSet, FoldFunctionOnSet, MapThenFoldSet, IsSum, SumTo, Pick

\* The recursion takes an element of the set.
LEMMA PickIsIn ==
    ASSUME NEW s, s # {}
    PROVE  Pick(s) \in s
BY DEF Pick

\* Some member of a nonempty set of subsets of a finite set contains no other.
LEMMA LeastSubset ==
    ASSUME NEW S, IsFiniteSet(S), NEW T \in SUBSET SUBSET S, T # {}
    PROVE  \E U \in T : \A V \in T : V \subseteq U => V = U
<1>1. IsWellFoundedOn(StrictSubsetOrdering(S), SUBSET S)
  BY FS_StrictSubsetOrderingWellFounded, FS_FiniteSubsetsOfFinite
<1>2. PICK U \in T : \A V \in T : ~(<<V, U>> \in StrictSubsetOrdering(S))
  BY <1>1, WFMin
<1>3. \A V \in T : V \subseteq U /\ V # U => <<V, U>> \in StrictSubsetOrdering(S)
  BY DEF StrictSubsetOrdering
<1>4. \A V \in T : V \subseteq U => V = U
  BY <1>2, <1>3
<1> QED  BY <1>4

\* Two tables agree wherever both are defined.
LEMMA SumsAgree ==
    ASSUME NEW f, NEW S, IsFiniteSet(S), NEW V \in SUBSET S,
           NEW g, IsSum(f, S, g), NEW h, IsSum(f, V, h)
    PROVE  \A s \in SUBSET V : g[s] = h[s]
<1> DEFINE T == {s \in SUBSET V : g[s] # h[s]}
<1>1. SUFFICES ASSUME T # {} PROVE FALSE
  OBVIOUS
<1>2. PICK U \in T : \A W \in T : W \subseteq U => W = U
  <2>1. T \in SUBSET SUBSET S
    OBVIOUS
  <2> HIDE DEF T
  <2> QED  BY <1>1, <2>1, LeastSubset
<1>3. \A s \in SUBSET V : /\ g[s] = IF s = {} THEN 0 ELSE f[Pick(s)] + g[s \ {Pick(s)}]
                          /\ h[s] = IF s = {} THEN 0 ELSE f[Pick(s)] + h[s \ {Pick(s)}]
  <2>1. \A s \in SUBSET S : g[s] = IF s = {} THEN 0 ELSE f[Pick(s)] + g[s \ {Pick(s)}]
    BY DEF IsSum
  <2>2. \A s \in SUBSET V : h[s] = IF s = {} THEN 0 ELSE f[Pick(s)] + h[s \ {Pick(s)}]
    BY DEF IsSum
  <2> QED  BY <2>1, <2>2
<1>4. U # {}
  BY <1>3
<1>5. g[U \ {Pick(U)}] = h[U \ {Pick(U)}]
  BY <1>2, <1>4, PickIsIn
<1> QED  BY <1>3, <1>4, <1>5

\* There is a table: the recursive definition is sound on finite sets.
LEMMA SumExists ==
    ASSUME NEW f, NEW S, IsFiniteSet(S)
    PROVE  IsSum(f, S, SumTo(f, S))
<1> DEFINE T == {s \in SUBSET S : ~\E g : IsSum(f, s, g)}
<1>1. ASSUME T # {} PROVE FALSE
  <2>1. PICK U \in T : \A W \in T : W \subseteq U => W = U
    <3>1. T \in SUBSET SUBSET S
      OBVIOUS
    <3> HIDE DEF T
    <3> QED  BY <1>1, <3>1, LeastSubset
  <2>2. \A W \in SUBSET U : W # U => IsSum(f, W, SumTo(f, W))
    <3>1. \A W \in SUBSET U : W # U => \E g : IsSum(f, W, g)
      BY <2>1
    <3> QED  BY <3>1 DEF SumTo
  <2> DEFINE val(s) == SumTo(f, s)[s]
             g == [s \in SUBSET U |-> IF s = {} THEN 0 ELSE f[Pick(s)] + val(s \ {Pick(s)})]
  <2>3. ASSUME NEW W \in SUBSET U, W # U
        PROVE  g[W] = val(W)
    <3>1. IsSum(f, W, SumTo(f, W))
      BY <2>2, <2>3
    <3>2. val(W) = IF W = {} THEN 0 ELSE f[Pick(W)] + SumTo(f, W)[W \ {Pick(W)}]
      BY <3>1 DEF IsSum
    <3>3. CASE W = {}
      BY <3>2, <3>3
    <3>4. CASE W # {}
      <4>1. /\ W \ {Pick(W)} \in SUBSET W
            /\ W \ {Pick(W)} \in SUBSET U
            /\ W \ {Pick(W)} # U
        BY <2>3
      <4>2. IsSum(f, W \ {Pick(W)}, SumTo(f, W \ {Pick(W)}))
        BY <2>2, <4>1
      <4>3. IsFiniteSet(W)
        BY <2>3, FS_Subset
      <4>4. SumTo(f, W)[W \ {Pick(W)}] = val(W \ {Pick(W)})
        BY <3>1, <4>1, <4>2, <4>3, SumsAgree
      <4> QED  BY <3>2, <3>4, <4>4
    <3> QED  BY <3>3, <3>4
  <2>4. \A s \in SUBSET U : s # {} => g[s \ {Pick(s)}] = val(s \ {Pick(s)})
    <3> HIDE DEF g, val
    <3> SUFFICES ASSUME NEW s \in SUBSET U, s # {}
                 PROVE  g[s \ {Pick(s)}] = val(s \ {Pick(s)})
      OBVIOUS
    <3>1. s \ {Pick(s)} \in SUBSET U /\ s \ {Pick(s)} # U
      BY PickIsIn
    <3> QED  BY <3>1, <2>3
  <2>5. IsSum(f, U, g)
    <3>1. g = [s \in SUBSET U |-> IF s = {} THEN 0 ELSE f[Pick(s)] + val(s \ {Pick(s)})]
      OBVIOUS
    <3> HIDE DEF g, val
    <3>2. g = [s \in SUBSET U |-> IF s = {} THEN 0 ELSE f[Pick(s)] + g[s \ {Pick(s)}]]
      BY <3>1, <2>4
    <3> QED  BY <3>2 DEF IsSum
  <2> HIDE DEF g
  <2> QED  BY <2>1, <2>5
<1>2. \E g : IsSum(f, S, g)
  BY <1>1
<1> QED  BY <1>2 DEF SumTo

\* Nothing sums to nothing.
LEMMA SumEmpty ==
    ASSUME NEW f
    PROVE  SumFunctionOnSet(f, {}) = 0
<1>1. IsSum(f, {}, SumTo(f, {}))
  BY SumExists, FS_EmptySet
<1> QED  BY <1>1, SumUnfold DEF IsSum

\* The recursion as an equation about sums.
LEMMA SumPick ==
    ASSUME NEW f, NEW S, IsFiniteSet(S), S # {}
    PROVE  /\ Pick(S) \in S
           /\ IsFiniteSet(S \ {Pick(S)})
           /\ SumFunctionOnSet(f, S) = f[Pick(S)] + SumFunctionOnSet(f, S \ {Pick(S)})
<1> DEFINE V == S \ {Pick(S)}
<1>1. Pick(S) \in S /\ IsFiniteSet(V) /\ V \in SUBSET S
  BY PickIsIn, FS_Subset
<1>2. IsSum(f, S, SumTo(f, S)) /\ IsSum(f, V, SumTo(f, V))
  BY <1>1, SumExists
<1>3. SumTo(f, S)[S] = f[Pick(S)] + SumTo(f, S)[V]
  BY <1>2 DEF IsSum
<1>4. SumTo(f, S)[V] = SumTo(f, V)[V]
  <2> HIDE DEF V
  <2> QED  BY <1>1, <1>2, SumsAgree
<1> QED  BY <1>1, <1>3, <1>4, SumUnfold

\* A sum of natural numbers is a natural number.
LEMMA SumIsNat ==
    ASSUME NEW f, NEW S, IsFiniteSet(S), \A x \in S : f[x] \in Nat
    PROVE  SumFunctionOnSet(f, S) \in Nat
<1> DEFINE T == {s \in SUBSET S : SumFunctionOnSet(f, s) \notin Nat}
<1>1. ASSUME T # {} PROVE FALSE
  <2>1. PICK U \in T : \A W \in T : W \subseteq U => W = U
    <3>1. T \in SUBSET SUBSET S
      OBVIOUS
    <3> HIDE DEF T
    <3> QED  BY <1>1, <3>1, LeastSubset
  <2>2. U # {} /\ IsFiniteSet(U)
    <3>1. SumFunctionOnSet(f, {}) = 0
      BY SumEmpty
    <3>2. U # {}
      BY <3>1
    <3> QED  BY <3>2, FS_Subset
  <2>3. /\ Pick(U) \in U
        /\ SumFunctionOnSet(f, U) = f[Pick(U)] + SumFunctionOnSet(f, U \ {Pick(U)})
    BY <2>2, SumPick
  <2>4. SumFunctionOnSet(f, U \ {Pick(U)}) \in Nat
    BY <2>1, <2>3
  <2> QED  BY <2>3, <2>4
<1> QED  BY <1>1

\* The sum depends on the summands only.
LEMMA SumCongruence ==
    ASSUME NEW f, NEW g, NEW S, IsFiniteSet(S), \A x \in S : f[x] = g[x]
    PROVE  SumFunctionOnSet(f, S) = SumFunctionOnSet(g, S)
<1> DEFINE T == {s \in SUBSET S : SumFunctionOnSet(f, s) # SumFunctionOnSet(g, s)}
<1>1. ASSUME T # {} PROVE FALSE
  <2>1. PICK U \in T : \A W \in T : W \subseteq U => W = U
    <3>1. T \in SUBSET SUBSET S
      OBVIOUS
    <3> HIDE DEF T
    <3> QED  BY <1>1, <3>1, LeastSubset
  <2>2. U # {} /\ IsFiniteSet(U)
    BY SumEmpty, FS_Subset
  <2>3. /\ Pick(U) \in U
        /\ SumFunctionOnSet(f, U) = f[Pick(U)] + SumFunctionOnSet(f, U \ {Pick(U)})
        /\ SumFunctionOnSet(g, U) = g[Pick(U)] + SumFunctionOnSet(g, U \ {Pick(U)})
    BY <2>2, SumPick
  <2>4. SumFunctionOnSet(f, U \ {Pick(U)}) = SumFunctionOnSet(g, U \ {Pick(U)})
    BY <2>1, <2>3
  <2> QED  BY <2>3, <2>4
<1> QED  BY <1>1

\* Any element may be taken out first, whichever the recursion picks.
LEMMA SumWithout ==
    ASSUME NEW f, NEW S, IsFiniteSet(S), \A x \in S : f[x] \in Nat, NEW e \in S
    PROVE  SumFunctionOnSet(f, S) = f[e] + SumFunctionOnSet(f, S \ {e})
<1> DEFINE sum(s) == SumFunctionOnSet(f, s)
           T == {s \in SUBSET S : \E x \in s : sum(s) # f[x] + sum(s \ {x})}
<1>1. ASSUME T # {} PROVE FALSE
  <2>1. PICK U \in T : \A W \in T : W \subseteq U => W = U
    <3>1. T \in SUBSET SUBSET S
      OBVIOUS
    <3> HIDE DEF T
    <3> QED  BY <1>1, <3>1, LeastSubset
  <2>2. PICK x \in U : sum(U) # f[x] + sum(U \ {x})
    OBVIOUS
  <2>3. IsFiniteSet(U) /\ U # {}
    BY <2>2, FS_Subset
  <2> DEFINE c == Pick(U)
  <2>4. c \in U /\ sum(U) = f[c] + sum(U \ {c})
    BY <2>3, SumPick
  <2>5. x # c
    BY <2>2, <2>4
  <2> HIDE DEF c
  <2>6. U \ {c} \notin T /\ U \ {x} \notin T /\ U \ {c} \in SUBSET S /\ U \ {x} \in SUBSET S
    BY <2>1, <2>2, <2>4
  <2>7. sum(U \ {c}) = f[x] + sum((U \ {c}) \ {x})
    BY <2>2, <2>5, <2>6
  <2>8. sum(U \ {x}) = f[c] + sum((U \ {x}) \ {c})
    BY <2>4, <2>5, <2>6
  <2>9. (U \ {c}) \ {x} = (U \ {x}) \ {c}
    OBVIOUS
  <2>10. f[x] \in Nat /\ f[c] \in Nat /\ sum((U \ {c}) \ {x}) \in Nat
    <3>1. x \in S /\ c \in S /\ IsFiniteSet((U \ {c}) \ {x}) /\ \A y \in (U \ {c}) \ {x} : f[y] \in Nat
      BY <2>2, <2>3, <2>4, FS_Subset
    <3> QED  BY <3>1, SumIsNat
  <2>11. sum(U) = f[x] + sum(U \ {x})
    <3>1. sum((U \ {x}) \ {c}) = sum((U \ {c}) \ {x})
      BY <2>9
    <3> HIDE DEF sum, T
    <3> QED  BY <2>4, <2>7, <2>8, <2>10, <3>1
  <2> QED  BY <2>2, <2>11
<1>2. S \notin T
  BY <1>1
<1> QED  BY <1>2

\* A new element adds its summand.
LEMMA SumWith ==
    ASSUME NEW f, NEW S, IsFiniteSet(S), NEW e, e \notin S,
           \A x \in S \cup {e} : f[x] \in Nat
    PROVE  /\ IsFiniteSet(S \cup {e})
           /\ SumFunctionOnSet(f, S \cup {e}) = f[e] + SumFunctionOnSet(f, S)
<1>1. IsFiniteSet(S \cup {e})
  BY FS_AddElement
<1>2. (S \cup {e}) \ {e} = S /\ e \in S \cup {e}
  OBVIOUS
<1> QED  BY <1>1, <1>2, SumWithout

\* Changing one summand changes the sum by as much.
LEMMA SumChange ==
    ASSUME NEW f, NEW g, NEW S, IsFiniteSet(S), NEW e \in S,
           \A x \in S : f[x] \in Nat /\ g[x] \in Nat,
           \A x \in S : x # e => f[x] = g[x]
    PROVE  SumFunctionOnSet(g, S) + f[e] = SumFunctionOnSet(f, S) + g[e]
<1> DEFINE R == S \ {e}
<1>1. IsFiniteSet(R) /\ R \in SUBSET S
  BY FS_Subset
<1>2. SumFunctionOnSet(f, R) = SumFunctionOnSet(g, R)
  BY <1>1, SumCongruence
<1>3. SumFunctionOnSet(f, R) \in Nat
  BY <1>1, SumIsNat
<1>4. /\ SumFunctionOnSet(f, S) = f[e] + SumFunctionOnSet(f, R)
      /\ SumFunctionOnSet(g, S) = g[e] + SumFunctionOnSet(g, R)
  BY SumWithout
<1>5. f[e] \in Nat /\ g[e] \in Nat
  OBVIOUS
<1> QED  BY <1>2, <1>3, <1>4, <1>5

\* Zeros sum to zero.
LEMMA SumZero ==
    ASSUME NEW f, NEW S, IsFiniteSet(S), \A x \in S : f[x] = 0
    PROVE  SumFunctionOnSet(f, S) = 0
<1> DEFINE T == {s \in SUBSET S : SumFunctionOnSet(f, s) # 0}
<1>1. ASSUME T # {} PROVE FALSE
  <2>1. PICK U \in T : \A W \in T : W \subseteq U => W = U
    <3>1. T \in SUBSET SUBSET S
      OBVIOUS
    <3> HIDE DEF T
    <3> QED  BY <1>1, <3>1, LeastSubset
  <2>2. U # {} /\ IsFiniteSet(U)
    BY SumEmpty, FS_Subset
  <2>3. /\ Pick(U) \in U
        /\ SumFunctionOnSet(f, U) = f[Pick(U)] + SumFunctionOnSet(f, U \ {Pick(U)})
    BY <2>2, SumPick
  <2>4. SumFunctionOnSet(f, U \ {Pick(U)}) = 0 /\ f[Pick(U)] = 0
    BY <2>1, <2>3
  <2> QED  BY <2>3, <2>4
<1> QED  BY <1>1

=============================================================================
