----------------------------- MODULE SumsProofs -----------------------------
(***************************************************************************)
(* What a sum over a finite set is: the fold of FiniteSetsExt exists, is   *)
(* an integer, can be taken apart at any element, whatever order CHOOSE    *)
(* visits the set in, and depends on nothing but the summands.             *)
(*                                                                         *)
(* The induction over finite sets is made by a minimal counterexample: the *)
(* strict subset ordering of the finite subsets of a set is well founded,  *)
(* so a nonempty set of bad subsets has a minimal one.                     *)
(*                                                                         *)
(* The provers cannot instantiate an operator, so the summands are the     *)
(* values of a function; a module that sums an expression states in one    *)
(* lemma which function that is.                                           *)
(***************************************************************************)
EXTENDS Integers, FiniteSets, FiniteSetsExt, FiniteSetTheorems, WellFoundedInduction, TLAPS

SumOf(f, S) == MapThenSumSet(LAMBDA x : f[x], S)

(* A nonempty family of subsets of a finite set has a minimal member.       *)
LEMMA MinimalSubset ==
    ASSUME NEW S, IsFiniteSet(S), NEW F, F \subseteq SUBSET S, F # {}
    PROVE  \E T \in F : \A U \in F : U \subseteq T => U = T
<1>1. IsWellFoundedOn(StrictSubsetOrdering(S), FiniteSubsetsOf(S))
  BY FS_StrictSubsetOrderingWellFounded
<1>2. F \subseteq FiniteSubsetsOf(S)
  BY FS_FiniteSubsetsOfFinite
<1>3. PICK T \in F : \A U \in F : ~(<<U, T>> \in StrictSubsetOrdering(S))
  BY <1>1, <1>2, WFMin
<1>4. \A U \in F : U \subseteq T => U = T
  BY <1>3 DEF StrictSubsetOrdering
<1>. QED BY <1>4

-----------------------------------------------------------------------------
(* The function MapThenFoldSet defines by recursion over the subsets of S.  *)
IsSum(sum, f, S) ==
    sum = [s \in SUBSET S |->
              IF s = {} THEN 0
              ELSE LET x == CHOOSE x \in s : TRUE IN f[x] + sum[s \ {x}]]

LEMMA SumIter ==
    ASSUME NEW f, NEW S
    PROVE  SumOf(f, S) = (CHOOSE sum : IsSum(sum, f, S))[S]
BY DEF SumOf, MapThenSumSet, MapThenFoldSet, IsSum

(* The next pick of the fold from a nonempty set. *)
Pick(s) == CHOOSE x \in s : TRUE

LEMMA PickIsMember == ASSUME NEW s, s # {} PROVE Pick(s) \in s
BY DEF Pick

LEMMA SumAt ==
    ASSUME NEW sum, NEW f, NEW S, IsSum(sum, f, S), NEW s \in SUBSET S
    PROVE  /\ s = {} => sum[s] = 0
           /\ s # {} => sum[s] = f[Pick(s)] + sum[s \ {Pick(s)}]
BY DEF IsSum, Pick

(* Two such functions, of whatever sets, agree on the subsets they share.   *)
LEMMA SumsAgree ==
    ASSUME NEW f, NEW S, NEW S1, NEW sum, NEW sum1, IsSum(sum, f, S), IsSum(sum1, f, S1),
           NEW T, T \subseteq S, T \subseteq S1, IsFiniteSet(T)
    PROVE  sum[T] = sum1[T]
<1> DEFINE Bad == {U \in SUBSET T : sum[U] # sum1[U]}
<1>1. SUFFICES ASSUME Bad # {} PROVE FALSE
  OBVIOUS
<1>2. PICK U \in Bad : \A V \in Bad : V \subseteq U => V = U
  <2>1. Bad \subseteq SUBSET T
    OBVIOUS
  <2>. HIDE DEF Bad
  <2>. QED BY <1>1, <2>1, MinimalSubset
<1>3. U \in SUBSET S /\ U \in SUBSET S1 /\ sum[U] # sum1[U]
  OBVIOUS
<1>4. U # {}
  BY <1>3, SumAt
<1>5. Pick(U) \in U
  BY <1>4, PickIsMember
<1>6. sum[U \ {Pick(U)}] = sum1[U \ {Pick(U)}]
  BY <1>2, <1>5
<1>. QED
  BY <1>3, <1>4, <1>6, SumAt

(* Such a function exists for every finite set.                             *)
LEMMA SumExists ==
    ASSUME NEW f, NEW S, IsFiniteSet(S)
    PROVE  \E sum : IsSum(sum, f, S)
<1> DEFINE Bad == {U \in SUBSET S : ~\E sum : IsSum(sum, f, U)}
<1>1. SUFFICES ASSUME Bad # {} PROVE FALSE
  OBVIOUS
<1>2. PICK U \in Bad : \A V \in Bad : V \subseteq U => V = U
  <2>1. Bad \subseteq SUBSET S
    OBVIOUS
  <2>. HIDE DEF Bad
  <2>. QED BY <1>1, <2>1, MinimalSubset
<1> DEFINE h(V) == CHOOSE sum : IsSum(sum, f, V)
<1>3. ASSUME NEW V \in SUBSET U, V # U PROVE IsSum(h(V), f, V)
  <2>1. V \notin Bad
    BY <1>2, <1>3
  <2>. QED BY <2>1
<1> DEFINE val(V) == IF V = {} THEN 0 ELSE f[Pick(V)] + h(V \ {Pick(V)})[V \ {Pick(V)}]
           F == [V \in SUBSET U |-> val(V)]
<1>4. ASSUME NEW V \in SUBSET U, V # U PROVE h(V)[V] = val(V)
  <2>1. IsSum(h(V), f, V)
    BY <1>3, <1>4
  <2>2. CASE V = {}
    BY <2>1, <2>2, SumAt
  <2>3. CASE V # {}
    <3>1. Pick(V) \in V
      BY <2>3, PickIsMember
    <3> DEFINE W == V \ {Pick(V)}
    <3>2. W \in SUBSET U /\ W # U /\ W \subseteq V /\ IsFiniteSet(W)
      BY <3>1, FS_Subset
    <3>3. h(V)[V] = f[Pick(V)] + h(V)[W]
      BY <2>1, <2>3, SumAt
    <3>4. IsSum(h(W), f, W)
      BY <1>3, <3>2
    <3>5. h(V)[W] = h(W)[W]
      BY <2>1, <3>2, <3>4, SumsAgree
    <3>. QED BY <2>3, <3>3, <3>5
  <2>. QED BY <2>2, <2>3
<1>5. ASSUME NEW V \in SUBSET U, V # {}
      PROVE  h(V \ {Pick(V)})[V \ {Pick(V)}] = F[V \ {Pick(V)}]
  <2>1. Pick(V) \in V
    BY <1>5, PickIsMember
  <2> DEFINE W == V \ {Pick(V)}
  <2>2. W \in SUBSET U /\ W # U
    BY <2>1
  <2>3. h(W)[W] = val(W)
    BY <1>4, <2>2
  <2>4. F[W] = val(W)
    <3>. HIDE DEF val, W
    <3>. QED BY <2>2
  <2>. QED BY <2>3, <2>4
<1>6. ASSUME NEW V \in SUBSET U
      PROVE  F[V] = IF V = {} THEN 0 ELSE f[Pick(V)] + F[V \ {Pick(V)}]
  <2>1. F[V] = val(V)
    <3>. HIDE DEF val
    <3>. QED OBVIOUS
  <2>2. CASE V = {}
    BY <2>1, <2>2
  <2>3. CASE V # {}
    <3>1. h(V \ {Pick(V)})[V \ {Pick(V)}] = F[V \ {Pick(V)}]
      BY <1>5, <2>3
    <3>2. val(V) = f[Pick(V)] + h(V \ {Pick(V)})[V \ {Pick(V)}]
      BY <2>3
    <3>. HIDE DEF F, val, h
    <3>. QED BY <2>1, <2>3, <3>1, <3>2
  <2>. QED BY <2>2, <2>3
<1>7. IsSum(F, f, U)
  <2>. HIDE DEF val
  <2>1. F = [V \in SUBSET U |-> IF V = {} THEN 0 ELSE f[Pick(V)] + F[V \ {Pick(V)}]]
    <3>. DEFINE H == [V \in SUBSET U |-> IF V = {} THEN 0 ELSE f[Pick(V)] + F[V \ {Pick(V)}]]
    <3>1. \A V \in SUBSET U : F[V] = H[V]
      BY <1>6
    <3>. QED BY <3>1
  <2>. QED BY <2>1 DEF IsSum, Pick
<1>. QED BY <1>7

(* The fold itself is such a function.                                      *)
LEMMA SumIsSum ==
    ASSUME NEW f, NEW S, IsFiniteSet(S)
    PROVE  \E sum : IsSum(sum, f, S) /\ \A T \in SUBSET S : sum[T] = SumOf(f, T)
<1>1. ASSUME NEW T, IsFiniteSet(T)
      PROVE  \E sum : IsSum(sum, f, T) /\ SumOf(f, T) = sum[T]
  <2>1. IsSum(CHOOSE sum : IsSum(sum, f, T), f, T)
    BY <1>1, SumExists
  <2>. QED BY <2>1, SumIter
<1>2. PICK sum : IsSum(sum, f, S)
  BY SumExists
<1>3. ASSUME NEW T \in SUBSET S PROVE sum[T] = SumOf(f, T)
  <2>1. IsFiniteSet(T)
    BY FS_Subset
  <2>2. PICK sum1 : IsSum(sum1, f, T) /\ SumOf(f, T) = sum1[T]
    BY <1>1, <2>1
  <2>. QED BY <1>2, <2>1, <2>2, SumsAgree
<1>. QED BY <1>2, <1>3

(* A sum over nothing is zero, and any other is the next pick and the rest. *)
LEMMA SumUnfold ==
    ASSUME NEW f, NEW S, IsFiniteSet(S)
    PROVE  /\ S = {} => SumOf(f, S) = 0
           /\ S # {} => SumOf(f, S) = f[Pick(S)] + SumOf(f, S \ {Pick(S)})
<1>1. PICK sum : IsSum(sum, f, S) /\ \A T \in SUBSET S : sum[T] = SumOf(f, T)
  BY SumIsSum
<1>2. /\ S = {} => sum[S] = 0
      /\ S # {} => sum[S] = f[Pick(S)] + sum[S \ {Pick(S)}]
  BY <1>1, SumAt
<1>. QED BY <1>1, <1>2

-----------------------------------------------------------------------------
(* Induction over the sum.  A claim about the sums over the subsets of S,   *)
(* given as the set of subsets it holds of, holds of all when it holds of   *)
(* none and passes from a set to the set with one more element.             *)
LEMMA SubsetInduction ==
    ASSUME NEW S, IsFiniteSet(S), NEW Good, {} \in Good,
           \A U \in SUBSET S : \A x \in U : U \ {x} \in Good => U \in Good
    PROVE  S \in Good
<1> DEFINE Bad == {U \in SUBSET S : U \notin Good}
<1>1. SUFFICES ASSUME Bad # {} PROVE FALSE
  OBVIOUS
<1>2. PICK U \in Bad : \A V \in Bad : V \subseteq U => V = U
  <2>1. Bad \subseteq SUBSET S
    OBVIOUS
  <2>. HIDE DEF Bad
  <2>. QED BY <1>1, <2>1, MinimalSubset
<1>3. PICK x \in U : TRUE
  BY <1>2
<1>4. U \ {x} \notin Bad
  BY <1>2, <1>3
<1>. QED BY <1>2, <1>3, <1>4

(* The sum of finitely many integers is an integer.                         *)
THEOREM SumType ==
    ASSUME NEW f, NEW S, IsFiniteSet(S), \A x \in S : f[x] \in Int
    PROVE  SumOf(f, S) \in Int
<1> DEFINE Bad == {U \in SUBSET S : SumOf(f, U) \notin Int}
<1>1. SUFFICES ASSUME Bad # {} PROVE FALSE
  OBVIOUS
<1>2. PICK U \in Bad : \A V \in Bad : V \subseteq U => V = U
  <2>1. Bad \subseteq SUBSET S
    OBVIOUS
  <2>. HIDE DEF Bad
  <2>. QED BY <1>1, <2>1, MinimalSubset
<1>3. IsFiniteSet(U) /\ SumOf(f, U) \notin Int
  BY FS_Subset
<1>4. U # {}
  <2>1. U = {} => SumOf(f, U) = 0
    BY <1>3, SumUnfold
  <2>. QED BY <1>3, <2>1
<1>5. Pick(U) \in U
  BY <1>4, PickIsMember
<1>6. SumOf(f, U \ {Pick(U)}) \in Int /\ f[Pick(U)] \in Int
  BY <1>2, <1>5
<1>. QED
  BY <1>3, <1>4, <1>6, SumUnfold

(* Any element can be taken out first: the sum does not depend on the order *)
(* the elements are visited in.                                             *)
THEOREM SumRemove ==
    ASSUME NEW f, NEW S, IsFiniteSet(S), \A x \in S : f[x] \in Int, NEW y \in S
    PROVE  SumOf(f, S) = f[y] + SumOf(f, S \ {y})
<1> DEFINE Bad == {U \in SUBSET S : \E z \in U : SumOf(f, U) # f[z] + SumOf(f, U \ {z})}
<1>1. SUFFICES ASSUME Bad # {} PROVE FALSE
  OBVIOUS
<1>2. PICK U \in Bad : \A V \in Bad : V \subseteq U => V = U
  <2>1. Bad \subseteq SUBSET S
    OBVIOUS
  <2>. HIDE DEF Bad
  <2>. QED BY <1>1, <2>1, MinimalSubset
<1>3. PICK z \in U : SumOf(f, U) # f[z] + SumOf(f, U \ {z})
  BY <1>2
<1> DEFINE x == Pick(U)
<1>4. x \in U /\ SumOf(f, U) = f[x] + SumOf(f, U \ {x})
  <2>1. IsFiniteSet(U)
    BY FS_Subset
  <2>. QED BY <1>3, <2>1, PickIsMember, SumUnfold
<1>5. x # z
  BY <1>3, <1>4
<1>6. SumOf(f, U \ {x}) = f[z] + SumOf(f, (U \ {x}) \ {z})
  <2>1. U \ {x} \in SUBSET S /\ U \ {x} \subseteq U /\ U \ {x} # U /\ z \in U \ {x}
    BY <1>4, <1>5
  <2>. QED BY <1>2, <2>1
<1>7. SumOf(f, U \ {z}) = f[x] + SumOf(f, (U \ {z}) \ {x})
  <2>1. U \ {z} \in SUBSET S /\ U \ {z} \subseteq U /\ U \ {z} # U /\ x \in U \ {z}
    BY <1>4, <1>5
  <2>. QED BY <1>2, <2>1
<1> DEFINE R == (U \ {x}) \ {z}
<1>8. (U \ {z}) \ {x} = R
  OBVIOUS
<1>9. SumOf(f, R) \in Int /\ f[x] \in Int /\ f[z] \in Int
  <2>1. R \subseteq S /\ IsFiniteSet(R)
    BY FS_Subset
  <2>. QED BY <2>1, <1>4, SumType
<1>. QED
  <2>. HIDE DEF x, R
  <2>1. SumOf(f, U) = f[x] + (f[z] + SumOf(f, R))
    BY <1>4, <1>6 DEF R
  <2>2. SumOf(f, U \ {z}) = f[x] + SumOf(f, R)
    BY <1>7, <1>8
  <2>. QED BY <1>3, <1>9, <2>1, <2>2

(* Nothing but the summands matters.                                        *)
THEOREM SumFrame ==
    ASSUME NEW f, NEW g, NEW S, \A x \in S : f[x] = g[x]
    PROVE  SumOf(f, S) = SumOf(g, S)
<1>1. ASSUME NEW sum PROVE IsSum(sum, f, S) <=> IsSum(sum, g, S)
  <2>1. \A T \in SUBSET S : T # {} => f[CHOOSE x \in T : TRUE] = g[CHOOSE x \in T : TRUE]
    OBVIOUS
  <2>. QED BY <2>1 DEF IsSum
<1>2. (CHOOSE sum : IsSum(sum, f, S)) = (CHOOSE sum : IsSum(sum, g, S))
  BY <1>1
<1>. QED BY <1>2, SumIter

LEMMA SumEmpty == ASSUME NEW f PROVE SumOf(f, {}) = 0
  BY SumUnfold, FS_EmptySet

(* One summand changes.                                                     *)
THEOREM SumChange ==
    ASSUME NEW f, NEW g, NEW S, IsFiniteSet(S), NEW y \in S,
           \A x \in S : f[x] \in Int /\ g[x] \in Int,
           \A x \in S \ {y} : f[x] = g[x]
    PROVE  SumOf(g, S) = SumOf(f, S) - f[y] + g[y]
<1>1. SumOf(f, S) = f[y] + SumOf(f, S \ {y}) /\ SumOf(g, S) = g[y] + SumOf(g, S \ {y})
  BY SumRemove
<1>2. SumOf(f, S \ {y}) = SumOf(g, S \ {y})
  BY SumFrame
<1>3. SumOf(f, S \ {y}) \in Int
  <2>1. IsFiniteSet(S \ {y})
    BY FS_Subset
  <2>. QED BY <2>1, SumType
<1>. QED BY <1>1, <1>2, <1>3

(* A sum over two parts.                                                    *)
THEOREM SumSplit ==
    ASSUME NEW f, NEW S, NEW T, IsFiniteSet(S), IsFiniteSet(T), S \cap T = {},
           \A x \in S \cup T : f[x] \in Int
    PROVE  SumOf(f, S \cup T) = SumOf(f, S) + SumOf(f, T)
<1> DEFINE Good == {U \in SUBSET S : SumOf(f, U \cup T) = SumOf(f, U) + SumOf(f, T)}
<1>1. {} \in Good
  <2>1. {} \cup T = T
    OBVIOUS
  <2>2. SumOf(f, T) = SumOf(f, {}) + SumOf(f, T)
    BY SumEmpty, SumType
  <2>. QED BY <2>1, <2>2
<1>2. ASSUME NEW U \in SUBSET S, NEW x \in U, U \ {x} \in Good PROVE U \in Good
  <2>1. IsFiniteSet(U) /\ IsFiniteSet(U \ {x}) /\ IsFiniteSet(U \cup T)
    BY FS_Subset, FS_Union
  <2>2. (U \cup T) \ {x} = (U \ {x}) \cup T
    OBVIOUS
  <2>3. SumOf(f, U) = f[x] + SumOf(f, U \ {x})
    BY <2>1, SumRemove
  <2>4. SumOf(f, U \cup T) = f[x] + SumOf(f, (U \ {x}) \cup T)
    BY <2>1, <2>2, SumRemove
  <2>5. SumOf(f, U \ {x}) \in Int /\ SumOf(f, T) \in Int /\ f[x] \in Int
    BY <2>1, SumType
  <2>6. SumOf(f, (U \ {x}) \cup T) = SumOf(f, U \ {x}) + SumOf(f, T)
    BY <1>2
  <2>. QED BY <2>3, <2>4, <2>5, <2>6
<1>3. S \in Good
  <2>. HIDE DEF Good
  <2>. QED BY <1>1, <1>2, SubsetInduction
<1>. QED BY <1>3

(* Sums of naturals: a sum is natural, and a part is no more than the whole. *)
THEOREM SumNat ==
    ASSUME NEW f, NEW S, IsFiniteSet(S), \A x \in S : f[x] \in Nat
    PROVE  SumOf(f, S) \in Nat
<1> DEFINE Good == {U \in SUBSET S : SumOf(f, U) \in Nat}
<1>1. {} \in Good
  BY SumEmpty
<1>2. ASSUME NEW U \in SUBSET S, NEW x \in U, U \ {x} \in Good PROVE U \in Good
  <2>1. IsFiniteSet(U)
    BY FS_Subset
  <2>2. SumOf(f, U) = f[x] + SumOf(f, U \ {x})
    BY <2>1, SumRemove
  <2>. QED BY <1>2, <2>2
<1>3. S \in Good
  <2>. HIDE DEF Good
  <2>. QED BY <1>1, <1>2, SubsetInduction
<1>. QED BY <1>3

LEMMA SumPart ==
    ASSUME NEW f, NEW S, NEW T \in SUBSET S, IsFiniteSet(S), \A x \in S : f[x] \in Nat
    PROVE  SumOf(f, T) <= SumOf(f, S)
<1>1. IsFiniteSet(T) /\ IsFiniteSet(S \ T) /\ S = (S \ T) \cup T
  BY FS_Subset
<1>2. SumOf(f, S) = SumOf(f, S \ T) + SumOf(f, T)
  <2>1. SumOf(f, (S \ T) \cup T) = SumOf(f, S \ T) + SumOf(f, T)
    BY <1>1, SumSplit
  <2>. QED BY <1>1, <2>1
<1>3. SumOf(f, S \ T) \in Nat /\ SumOf(f, T) \in Nat
  BY <1>1, SumNat
<1>. QED BY <1>2, <1>3

(* One element more.                                                        *)
LEMMA SumAdd ==
    ASSUME NEW f, NEW S, IsFiniteSet(S), NEW y, y \notin S, \A x \in S \cup {y} : f[x] \in Int
    PROVE  SumOf(f, S \cup {y}) = f[y] + SumOf(f, S)
<1>1. IsFiniteSet(S \cup {y}) /\ (S \cup {y}) \ {y} = S
  BY FS_AddElement
<1>2. SumOf(f, S \cup {y}) = f[y] + SumOf(f, (S \cup {y}) \ {y})
  BY <1>1, SumRemove
<1>. QED BY <1>1, <1>2

(* Nothing but zeros.                                                       *)
LEMMA SumZero ==
    ASSUME NEW f, NEW S, IsFiniteSet(S), \A x \in S : f[x] = 0
    PROVE  SumOf(f, S) = 0
<1> DEFINE Good == {T \in SUBSET S : SumOf(f, T) = 0}
<1>1. {} \in Good
  BY SumEmpty
<1>2. ASSUME NEW T \in SUBSET S, NEW x \in T, T \ {x} \in Good PROVE T \in Good
  <2>1. IsFiniteSet(T) /\ (\A y \in T : f[y] \in Int) /\ f[x] = 0 /\ SumOf(f, T \ {x}) = 0
    BY <1>2, FS_Subset
  <2>2. SumOf(f, T) = f[x] + SumOf(f, T \ {x})
    BY <2>1, SumRemove
  <2>. QED BY <2>1, <2>2
<1>3. S \in Good
  <2>. HIDE DEF Good
  <2>. QED BY <1>1, <1>2, SubsetInduction
<1>. QED BY <1>3

LEMMA ImageIsFinite ==
    ASSUME NEW S, IsFiniteSet(S), NEW h
    PROVE  IsFiniteSet({h[x] : x \in S})
<1> DEFINE T == {h[x] : x \in S}
           m == [x \in S |-> h[x]]
<1>1. m \in Surjection(S, T)
  BY DEF Surjection
<1>. QED BY <1>1, FS_Surjection

(* Renaming the elements, no two to one, renames the summands only.         *)
THEOREM SumImage ==
    ASSUME NEW f, NEW g, NEW h, NEW S, IsFiniteSet(S),
           \A x, y \in S : h[x] = h[y] => x = y,
           \A x \in S : g[x] \in Int /\ f[h[x]] = g[x]
    PROVE  SumOf(f, {h[x] : x \in S}) = SumOf(g, S)
<1> DEFINE Image(U) == {h[x] : x \in U}
           Good == {U \in SUBSET S : SumOf(f, Image(U)) = SumOf(g, U)}
<1>1. {} \in Good
  <2>1. Image({}) = {}
    OBVIOUS
  <2>. HIDE DEF Image
  <2>. QED BY <2>1, SumEmpty
<1>2. ASSUME NEW U \in SUBSET S, NEW x \in U, U \ {x} \in Good PROVE U \in Good
  <2>1. IsFiniteSet(U) /\ IsFiniteSet(Image(U))
    BY FS_Subset, ImageIsFinite
  <2>2. h[x] \in Image(U) /\ Image(U) \ {h[x]} = Image(U \ {x})
    BY <1>2
  <2>3. \A z \in Image(U) : f[z] \in Int
    BY <1>2
  <2>4. SumOf(f, Image(U \ {x})) = SumOf(g, U \ {x}) /\ f[h[x]] = g[x]
    BY <1>2
  <2>5. \A z \in U : g[z] \in Int
    BY <1>2
  <2>. HIDE DEF Image
  <2>6. SumOf(f, Image(U)) = f[h[x]] + SumOf(f, Image(U \ {x}))
    BY <2>1, <2>2, <2>3, SumRemove
  <2>7. SumOf(g, U) = g[x] + SumOf(g, U \ {x})
    BY <1>2, <2>1, <2>5, SumRemove
  <2>. QED BY <2>4, <2>6, <2>7
<1>3. S \in Good
  <2>. HIDE DEF Good
  <2>. QED BY <1>1, <1>2, SubsetInduction
<1>. QED BY <1>3

(* Two functions that differ only on a part, of which they have one sum.    *)
LEMMA SumSwap ==
    ASSUME NEW f, NEW g, NEW S, NEW K \in SUBSET S, IsFiniteSet(S),
           \A x \in S : f[x] \in Int /\ g[x] \in Int,
           \A x \in S \ K : f[x] = g[x],
           SumOf(f, K) = SumOf(g, K)
    PROVE  SumOf(f, S) = SumOf(g, S)
<1> DEFINE R == S \ K
<1>1. IsFiniteSet(K) /\ IsFiniteSet(R) /\ R \cap K = {} /\ R \cup K = S
  BY FS_Subset
<1>2. \A x \in R \cup K : f[x] \in Int /\ g[x] \in Int
  BY <1>1
<1>3. \A x \in R : f[x] = g[x]
  OBVIOUS
<1>. HIDE DEF R
<1>4. SumOf(f, R \cup K) = SumOf(f, R) + SumOf(f, K)
  BY <1>1, <1>2, SumSplit
<1>5. SumOf(g, R \cup K) = SumOf(g, R) + SumOf(g, K)
  BY <1>1, <1>2, SumSplit
<1>6. SumOf(f, R) = SumOf(g, R)
  BY <1>3, SumFrame
<1>. QED BY <1>1, <1>4, <1>5, <1>6

(* Elements that add nothing may be left out.                               *)
LEMMA SumDrop ==
    ASSUME NEW f, NEW S, NEW T \in SUBSET S, IsFiniteSet(S), \A x \in S : f[x] \in Int,
           \A x \in S \ T : f[x] = 0
    PROVE  SumOf(f, S) = SumOf(f, T)
<1> DEFINE R == S \ T
<1>1. IsFiniteSet(T) /\ IsFiniteSet(R) /\ R \cap T = {} /\ R \cup T = S
  BY FS_Subset
<1>2. \A x \in R : f[x] = 0
  OBVIOUS
<1>. HIDE DEF R
<1>3. SumOf(f, R \cup T) = SumOf(f, R) + SumOf(f, T)
  BY <1>1, SumSplit
<1>4. SumOf(f, R) = 0
  BY <1>1, <1>2, SumZero
<1>5. SumOf(f, T) \in Int
  BY <1>1, SumType
<1>6. SumOf(f, S) = SumOf(f, R \cup T)
  BY <1>1
<1>7. SumOf(f, S) = 0 + SumOf(f, T)
  BY <1>3, <1>4, <1>6
<1>. QED BY <1>5, <1>7

(* Summing group by group is summing.                                       *)
THEOREM SumGroups ==
    ASSUME NEW f, NEW k, NEW S, NEW B, IsFiniteSet(S), IsFiniteSet(B),
           \A x \in S : f[x] \in Int /\ k[x] \in B
    PROVE  SumOf([b \in B |-> SumOf(f, {x \in S : k[x] = b})], B) = SumOf(f, S)
<1> DEFINE g == [b \in B |-> SumOf(f, {x \in S : k[x] = b})]
           Of(C) == {x \in S : k[x] \in C}
           Good == {C \in SUBSET B : SumOf(g, C) = SumOf(f, Of(C))}
<1>1. {} \in Good
  <2>1. Of({}) = {}
    OBVIOUS
  <2>. HIDE DEF Of, g
  <2>. QED BY <2>1, SumEmpty
<1>2. ASSUME NEW b \in B PROVE g[b] = SumOf(f, Of({b})) /\ g[b] \in Int
  <2>1. {x \in S : k[x] = b} = Of({b}) /\ Of({b}) \subseteq S
    OBVIOUS
  <2>2. g[b] = SumOf(f, Of({b}))
    BY <2>1
  <2>3. \A x \in Of({b}) : f[x] \in Int
    OBVIOUS
  <2>. HIDE DEF Of, g
  <2>4. SumOf(f, Of({b})) \in Int
    BY <2>1, <2>3, FS_Subset, SumType
  <2>. QED BY <2>2, <2>4
<1>3. ASSUME NEW C \in SUBSET B, NEW b \in C, C \ {b} \in Good PROVE C \in Good
  <2>1. /\ Of(C) = Of(C \ {b}) \cup Of({b}) /\ Of(C \ {b}) \cap Of({b}) = {}
        /\ Of(C \ {b}) \subseteq S /\ Of({b}) \subseteq S
    OBVIOUS
  <2>2. SumOf(g, C \ {b}) = SumOf(f, Of(C \ {b}))
    BY <1>3
  <2>3. \A c \in C : g[c] \in Int
    BY <1>2
  <2>4. IsFiniteSet(C)
    BY FS_Subset
  <2>. HIDE DEF Of, g
  <2>5. SumOf(g, C) = g[b] + SumOf(g, C \ {b})
    BY <2>3, <2>4, SumRemove
  <2>6. IsFiniteSet(Of(C \ {b})) /\ IsFiniteSet(Of({b}))
    BY <2>1, FS_Subset
  <2>7. SumOf(f, Of(C)) = SumOf(f, Of(C \ {b})) + SumOf(f, Of({b}))
    <3>1. \A x \in Of(C \ {b}) \cup Of({b}) : f[x] \in Int
      BY <2>1
    <3>2. SumOf(f, Of(C \ {b}) \cup Of({b})) = SumOf(f, Of(C \ {b})) + SumOf(f, Of({b}))
      BY <2>1, <2>6, <3>1, SumSplit
    <3>3. SumOf(f, Of(C)) = SumOf(f, Of(C \ {b}) \cup Of({b}))
      BY <2>1
    <3>. QED BY <3>2, <3>3
  <2>8. SumOf(f, Of(C \ {b})) \in Int /\ SumOf(f, Of({b})) \in Int
    BY <2>1, <2>6, SumType
  <2>. QED BY <1>2, <2>2, <2>5, <2>7, <2>8
<1>4. B \in Good
  <2>. HIDE DEF Good
  <2>. QED BY <1>1, <1>3, SubsetInduction
<1>5. Of(B) = S
  OBVIOUS
<1>. QED BY <1>4, <1>5
(* The sum of what is negated is the negated sum.                           *)
LEMMA SumNegate ==
    ASSUME NEW f, NEW g, NEW S, IsFiniteSet(S), \A x \in S : f[x] \in Int /\ g[x] = -f[x]
    PROVE  SumOf(g, S) = -SumOf(f, S)
<1> DEFINE Good == {U \in SUBSET S : SumOf(g, U) = -SumOf(f, U)}
<1>1. {} \in Good
  <2>1. SumOf(f, {}) = 0 /\ SumOf(g, {}) = 0
    BY SumEmpty
  <2>. QED BY <2>1
<1>2. ASSUME NEW U \in SUBSET S, NEW x \in U, U \ {x} \in Good PROVE U \in Good
  <2>1. IsFiniteSet(U)
    BY FS_Subset
  <2>2. SumOf(f, U) = f[x] + SumOf(f, U \ {x}) /\ SumOf(g, U) = g[x] + SumOf(g, U \ {x})
    BY <2>1, SumRemove
  <2>3. SumOf(f, U \ {x}) \in Int
    BY <2>1, FS_Subset, SumType
  <2>4. SumOf(g, U \ {x}) = -SumOf(f, U \ {x}) /\ g[x] = -f[x] /\ f[x] \in Int
    BY <1>2
  <2>. QED BY <2>2, <2>3, <2>4
<1>. HIDE DEF Good
<1>3. S \in Good
  BY <1>1, <1>2, SubsetInduction
<1>. QED BY <1>3 DEF Good

=============================================================================
