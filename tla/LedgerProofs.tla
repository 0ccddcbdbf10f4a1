---------------------------- MODULE LedgerProofs ----------------------------
(***************************************************************************)
(* The service layer implements the ledger, for any number of calls,       *)
(* sessions, items and threads.  One step of every operation is where it   *)
(* takes effect; every other step leaves stock, carts and outcomes alone.  *)
(***************************************************************************)
EXTENDS ServerProofs

-----------------------------------------------------------------------------
(* Sums: the size_t sums that the code takes over the items of a cart, and *)
(* those that add up what stock, carts and sales hold between them.        *)
(*                                                                         *)
(* A sum over a set is a recursive function on the subsets of that set.    *)
(* No prover can use the induction theorems of the library, for they take  *)
(* a predicate as their parameter; so induction is put as a fact about     *)
(* sets: a collection that has the empty set, and every set it has all the *)
(* one-smaller subsets of, has every subset of a finite set.               *)
LEMMA SubsetInduction ==
  ASSUME NEW S, IsFiniteSet(S), NEW Q,
         {} \in Q,
         \A T \in SUBSET S : (T # {} /\ \A x \in T : T \ {x} \in Q) => T \in Q
  PROVE  \A T \in SUBSET S : T \in Q
<1> DEFINE Missing == (SUBSET S) \ Q
<1>1. SUFFICES ASSUME Missing # {} PROVE FALSE
  OBVIOUS
<1>2. IsWellFoundedOn(StrictSubsetOrdering(S), SUBSET S)
  BY FS_StrictSubsetOrderingWellFounded, FS_FiniteSubsetsOfFinite
<1>3. PICK T \in Missing : \A U \in Missing : <<U, T>> \notin StrictSubsetOrdering(S)
  <2>1. Missing \subseteq SUBSET S
    OBVIOUS
  <2> HIDE DEF Missing
  <2> QED BY <1>1, <1>2, <2>1, WFMin
<1>4. ASSUME NEW x \in T PROVE T \ {x} \in Q
  <2>1. <<T \ {x}, T>> \in StrictSubsetOrdering(S)
    BY DEF StrictSubsetOrdering
  <2> QED BY <1>3, <2>1
<1> QED BY <1>3, <1>4

-----------------------------------------------------------------------------
(* The function of subsets whose value at S is the sum of f over S.        *)
Picked(T) == CHOOSE x \in T : TRUE

Tabulates(g, f, S) ==
  g = [T \in SUBSET S |->
         IF T = {} THEN 0 ELSE f[Picked(T)] + g[T \ {Picked(T)}]]

LEMMA PickedIsIn == ASSUME NEW T, T # {} PROVE Picked(T) \in T
  BY DEF Picked

LEMMA SumIsTabulated ==
  ASSUME NEW f, NEW S
  PROVE  SumFunctionOnSet(f, S) = (CHOOSE g : Tabulates(g, f, S))[S]
  BY DEF SumFunctionOnSet, FoldFunctionOnSet, MapThenFoldSet, Tabulates, Picked

LEMMA TableEntry ==
  ASSUME NEW S, NEW f, NEW g, Tabulates(g, f, S), NEW T \in SUBSET S
  PROVE  g[T] = IF T = {} THEN 0 ELSE f[Picked(T)] + g[T \ {Picked(T)}]
  BY DEF Tabulates

LEMMA TablesAgree ==
  ASSUME NEW S, IsFiniteSet(S), NEW U, S \subseteq U, NEW f, NEW g, NEW h,
         Tabulates(g, f, S), Tabulates(h, f, U)
  PROVE  \A T \in SUBSET S : g[T] = h[T]
<1> DEFINE Q == {T \in SUBSET S : g[T] = h[T]}
<1>1. {} \in Q
  BY TableEntry
<1>2. ASSUME NEW T \in SUBSET S, T # {}, \A x \in T : T \ {x} \in Q
      PROVE  T \in Q
  <2>1. g[T \ {Picked(T)}] = h[T \ {Picked(T)}]
    BY <1>2, PickedIsIn
  <2>2. g[T] = f[Picked(T)] + g[T \ {Picked(T)}]
    BY <1>2, TableEntry
  <2>3. h[T] = f[Picked(T)] + h[T \ {Picked(T)}]
    <3>1. T \in SUBSET U
      OBVIOUS
    <3> QED BY <1>2, <3>1, TableEntry
  <2> QED BY <2>1, <2>2, <2>3
<1>3. \A T \in SUBSET S : T \in Q
  <2> HIDE DEF Q
  <2> QED BY <1>1, <1>2, SubsetInduction
<1> QED BY <1>3

(* The value a table gives for the whole of U; the table of a larger set   *)
(* gives the same.                                                         *)
TableOf(f, U) == CHOOSE g : Tabulates(g, f, U)

LEMMA EntryIsTotal ==
  ASSUME NEW S, IsFiniteSet(S), NEW f, NEW g, Tabulates(g, f, S), NEW T \in SUBSET S
  PROVE  Tabulates(TableOf(f, T), f, T) /\ g[T] = TableOf(f, T)[T]
<1> DEFINE h == [U \in SUBSET T |-> g[U]]
<1>1. Tabulates(h, f, T)
  <2>1. ASSUME NEW U \in SUBSET T
        PROVE  g[U] = IF U = {} THEN 0 ELSE f[Picked(U)] + h[U \ {Picked(U)}]
    <3>1. U \in SUBSET S
      OBVIOUS
    <3>2. U \ {Picked(U)} \in SUBSET T
      OBVIOUS
    <3> QED BY <3>1, <3>2, TableEntry
  <2> QED BY <2>1 DEF Tabulates
<1>2. Tabulates(TableOf(f, T), f, T)
  BY <1>1 DEF TableOf
<1>3. IsFiniteSet(T)
  BY FS_Subset
<1>4. TableOf(f, T)[T] = g[T]
  BY <1>2, <1>3, TablesAgree
<1> QED BY <1>2, <1>4

LEMMA TableExists ==
  ASSUME NEW S, IsFiniteSet(S), NEW f
  PROVE  Tabulates(TableOf(f, S), f, S)
<1> DEFINE Q == {T \in SUBSET S : Tabulates(TableOf(f, T), f, T)}
<1>1. {} \in Q
  <2>1. Tabulates([T \in SUBSET {} |-> 0], f, {})
    BY DEF Tabulates
  <2> QED BY <2>1 DEF TableOf
<1>2. ASSUME NEW T \in SUBSET S, T # {}, \A x \in T : T \ {x} \in Q
      PROVE  T \in Q
  <2> DEFINE p == Picked(T)
             h == [U \in SUBSET T |->
                     IF U = T THEN f[p] + TableOf(f, T \ {p})[T \ {p}]
                              ELSE TableOf(f, U)[U]]
  <2>1. p \in T
    BY <1>2, PickedIsIn
  <2>2. ASSUME NEW x \in T, NEW U \in SUBSET (T \ {x}), U # {}
        PROVE  TableOf(f, U)[U] =
                 f[Picked(U)] + TableOf(f, U \ {Picked(U)})[U \ {Picked(U)}]
    <3> DEFINE W == T \ {x}
               g == TableOf(f, W)
               V == U \ {Picked(U)}
    <3>1. Tabulates(g, f, W) /\ IsFiniteSet(W)
      BY <1>2, FS_Subset
    <3>2. U \in SUBSET W /\ V \in SUBSET W
      BY <2>2
    <3>3. g[U] = f[Picked(U)] + g[V]
      <4> HIDE DEF g, W
      <4> QED BY <2>2, <3>1, <3>2, TableEntry
    <3>4. g[U] = TableOf(f, U)[U] /\ g[V] = TableOf(f, V)[V]
      <4> HIDE DEF g, V, W
      <4> QED BY <3>1, <3>2, EntryIsTotal
    <3> QED BY <3>3, <3>4
  <2>3. TableOf(f, {})[{}] = 0
    <3>1. Tabulates(TableOf(f, {}), f, {})
      BY <1>1
    <3> HIDE DEF Q
    <3>2. {} \in SUBSET {}
      OBVIOUS
    <3> QED BY <3>1, <3>2, TableEntry
  <2>4. ASSUME NEW U \in SUBSET T
        PROVE  h[U] = IF U = {} THEN 0 ELSE f[Picked(U)] + h[U \ {Picked(U)}]
    <3>1. CASE U = T
      <4>1. T \ {p} \in SUBSET T /\ T \ {p} # T
        BY <2>1
      <4> QED BY <1>2, <3>1, <4>1
    <3>2. CASE U = {}
      BY <1>2, <2>3, <3>2
    <3>3. CASE U # T /\ U # {}
      <4>1. PICK x \in T : U \in SUBSET (T \ {x})
        BY <3>3
      <4>2. U \ {Picked(U)} \in SUBSET T /\ U \ {Picked(U)} # T
        BY <3>3
      <4>3. /\ h[U] = TableOf(f, U)[U]
            /\ h[U \ {Picked(U)}] = TableOf(f, U \ {Picked(U)})[U \ {Picked(U)}]
        BY <3>3, <4>2
      <4> HIDE DEF h
      <4> QED BY <2>2, <3>3, <4>1, <4>3
    <3> QED BY <3>1, <3>2, <3>3
  <2>5. Tabulates(h, f, T)
    BY <2>4 DEF Tabulates
  <2> HIDE DEF h
  <2> QED BY <2>5 DEF TableOf
<1>3. \A T \in SUBSET S : T \in Q
  <2> HIDE DEF Q
  <2> QED BY <1>1, <1>2, SubsetInduction
<1> QED BY <1>3

LEMMA SumUnfolds ==
  ASSUME NEW S, IsFiniteSet(S), NEW f
  PROVE  /\ SumFunctionOnSet(f, {}) = 0
         /\ S # {} => SumFunctionOnSet(f, S) =
                        f[Picked(S)] + SumFunctionOnSet(f, S \ {Picked(S)})
<1>1. ASSUME NEW T, IsFiniteSet(T)
      PROVE  SumFunctionOnSet(f, T) = TableOf(f, T)[T] /\ Tabulates(TableOf(f, T), f, T)
  BY <1>1, SumIsTabulated, TableExists DEF TableOf
<1>2. SumFunctionOnSet(f, {}) = 0
  <2>1. IsFiniteSet({})
    BY FS_EmptySet
  <2>2. SumFunctionOnSet(f, {}) = TableOf(f, {})[{}] /\ Tabulates(TableOf(f, {}), f, {})
    BY <1>1, <2>1
  <2> HIDE DEF TableOf
  <2> QED BY <2>2, TableEntry
<1>3. ASSUME S # {}
      PROVE  SumFunctionOnSet(f, S) = f[Picked(S)] + SumFunctionOnSet(f, S \ {Picked(S)})
  <2> DEFINE V == S \ {Picked(S)}
  <2>1. IsFiniteSet(V) /\ V \in SUBSET S
    BY FS_Subset
  <2>2. TableOf(f, S)[S] = f[Picked(S)] + TableOf(f, S)[V]
    <3>1. S \in SUBSET S
      OBVIOUS
    <3> QED BY <1>1, <1>3, <3>1, TableEntry
  <2>3. TableOf(f, S)[V] = TableOf(f, V)[V]
    <3> HIDE DEF V
    <3> QED BY <1>1, <2>1, EntryIsTotal
  <2> HIDE DEF V
  <2>4. SumFunctionOnSet(f, V) = TableOf(f, V)[V] /\ SumFunctionOnSet(f, S) = TableOf(f, S)[S]
    BY <1>1, <2>1
  <2> QED BY <2>2, <2>3, <2>4 DEF V
<1> QED BY <1>2, <1>3

-----------------------------------------------------------------------------
(* Sums of integers: the order of the terms does not matter, so any one of *)
(* them can be taken out of the sum.                                       *)
Summable(f, S) == IsFiniteSet(S) /\ \A x \in S : f[x] \in Int

LEMMA SumIsInteger ==
  ASSUME NEW S, NEW f, Summable(f, S)
  PROVE  \A T \in SUBSET S : SumFunctionOnSet(f, T) \in Int
<1> DEFINE Q == {T \in SUBSET S : SumFunctionOnSet(f, T) \in Int}
<1>1. {} \in Q
  <2>1. SumFunctionOnSet(f, {}) = 0
    BY SumUnfolds, FS_EmptySet
  <2> QED BY <2>1
<1>2. ASSUME NEW T \in SUBSET S, T # {}, \A x \in T : T \ {x} \in Q
      PROVE  T \in Q
  <2>1. Picked(T) \in T
    BY <1>2, PickedIsIn
  <2>2. SumFunctionOnSet(f, T) = f[Picked(T)] + SumFunctionOnSet(f, T \ {Picked(T)})
    BY <1>2, FS_Subset, SumUnfolds DEF Summable
  <2>3. f[Picked(T)] \in Int /\ SumFunctionOnSet(f, T \ {Picked(T)}) \in Int
    BY <1>2, <2>1 DEF Summable
  <2> QED BY <2>2, <2>3
<1>3. \A T \in SUBSET S : T \in Q
  <2> HIDE DEF Q
  <2> QED BY <1>1, <1>2, SubsetInduction DEF Summable
<1> QED BY <1>3

LEMMA SumTakesOut ==
  ASSUME NEW S, NEW f, Summable(f, S), NEW T \in SUBSET S, NEW x \in T
  PROVE  SumFunctionOnSet(f, T) = f[x] + SumFunctionOnSet(f, T \ {x})
<1> DEFINE Sum(U) == SumFunctionOnSet(f, U)
           Q == {U \in SUBSET S : \A y \in U : Sum(U) = f[y] + Sum(U \ {y})}
<1>1. {} \in Q
  OBVIOUS
<1>2. ASSUME NEW U \in SUBSET S, U # {}, \A y \in U : U \ {y} \in Q
      PROVE  U \in Q
  <2> DEFINE p == Picked(U)
  <2>1. p \in U /\ f[p] \in Int
    BY <1>2, PickedIsIn DEF Summable
  <2>2. Sum(U) = f[p] + Sum(U \ {p})
    BY <1>2, FS_Subset, SumUnfolds DEF Summable
  <2> HIDE DEF p
  <2>3. ASSUME NEW y \in U, y # p PROVE Sum(U) = f[y] + Sum(U \ {y})
    <3> DEFINE R == (U \ {p}) \ {y}
    <3>1. Sum(R) \in Int /\ f[y] \in Int
      BY SumIsInteger DEF Summable
    <3>2. Sum(U \ {p}) = f[y] + Sum(R)
      BY <1>2, <2>1, <2>3
    <3>3. Sum(U \ {y}) = f[p] + Sum(R)
      <4>1. R = (U \ {y}) \ {p}
        OBVIOUS
      <4>2. U \ {y} \in Q /\ p \in U \ {y}
        BY <1>2, <2>1, <2>3
      <4> HIDE DEF R, Sum
      <4> QED BY <4>1, <4>2
    <3> HIDE DEF R, Sum
    <3> QED BY <2>1, <2>2, <3>1, <3>2, <3>3
  <2> QED BY <2>2, <2>3
<1>3. \A U \in SUBSET S : U \in Q
  <2> HIDE DEF Q
  <2> QED BY <1>1, <1>2, SubsetInduction DEF Summable
<1> QED BY <1>3

(* Only the terms count.                                                   *)
LEMMA SumOfSameTerms ==
  ASSUME NEW S, IsFiniteSet(S), NEW f, NEW g, \A x \in S : f[x] = g[x]
  PROVE  SumFunctionOnSet(f, S) = SumFunctionOnSet(g, S)
<1> DEFINE Q == {T \in SUBSET S : SumFunctionOnSet(f, T) = SumFunctionOnSet(g, T)}
<1>1. {} \in Q
  <2>1. SumFunctionOnSet(f, {}) = 0 /\ SumFunctionOnSet(g, {}) = 0
    BY SumUnfolds, FS_EmptySet
  <2> QED BY <2>1
<1>2. ASSUME NEW T \in SUBSET S, T # {}, \A x \in T : T \ {x} \in Q
      PROVE  T \in Q
  <2> DEFINE p == Picked(T)
  <2>1. p \in T /\ IsFiniteSet(T)
    BY <1>2, PickedIsIn, FS_Subset
  <2>2. /\ SumFunctionOnSet(f, T) = f[p] + SumFunctionOnSet(f, T \ {p})
        /\ SumFunctionOnSet(g, T) = g[p] + SumFunctionOnSet(g, T \ {p})
    BY <1>2, <2>1, SumUnfolds
  <2> HIDE DEF p
  <2> QED BY <1>2, <2>1, <2>2
<1>3. \A T \in SUBSET S : T \in Q
  <2> HIDE DEF Q
  <2> QED BY <1>1, <1>2, SubsetInduction
<1> QED BY <1>3

(* One term changes, or one is added.                                      *)
LEMMA SumWithChanged ==
  ASSUME NEW S, NEW f, Summable(f, S), NEW g, NEW x \in S, g[x] \in Int,
         \A y \in S \ {x} : g[y] = f[y]
  PROVE  SumFunctionOnSet(g, S) = SumFunctionOnSet(f, S) + g[x] - f[x]
<1>1. Summable(g, S) /\ S \in SUBSET S /\ IsFiniteSet(S \ {x})
  BY FS_Subset DEF Summable
<1>2. /\ SumFunctionOnSet(f, S) = f[x] + SumFunctionOnSet(f, S \ {x})
      /\ SumFunctionOnSet(g, S) = g[x] + SumFunctionOnSet(g, S \ {x})
  BY <1>1, SumTakesOut
<1>3. SumFunctionOnSet(g, S \ {x}) = SumFunctionOnSet(f, S \ {x})
  BY <1>1, SumOfSameTerms
<1>4. SumFunctionOnSet(f, S \ {x}) \in Int /\ f[x] \in Int
  BY SumIsInteger DEF Summable
<1> QED BY <1>2, <1>3, <1>4

LEMMA SumWithAdded ==
  ASSUME NEW S, NEW f, Summable(f, S), NEW x, x \notin S, f[x] \in Int
  PROVE  SumFunctionOnSet(f, S \cup {x}) = f[x] + SumFunctionOnSet(f, S)
<1> DEFINE U == S \cup {x}
<1>1. Summable(f, U) /\ U \in SUBSET U /\ x \in U
  BY FS_AddElement DEF Summable
<1>2. U \ {x} = S
  OBVIOUS
<1> HIDE DEF U
<1>3. SumFunctionOnSet(f, U) = f[x] + SumFunctionOnSet(f, U \ {x})
  BY <1>1, SumTakesOut
<1> QED BY <1>2, <1>3 DEF U

(* A sum of sums, and a sum with terms that are zero left out.             *)
LEMMA SumOfSums ==
  ASSUME NEW S, NEW f, NEW g, NEW h, Summable(f, S), Summable(g, S),
         \A x \in S : h[x] = f[x] + g[x]
  PROVE  SumFunctionOnSet(h, S) = SumFunctionOnSet(f, S) + SumFunctionOnSet(g, S)
<1> DEFINE Q == {T \in SUBSET S :
                   SumFunctionOnSet(h, T) = SumFunctionOnSet(f, T) + SumFunctionOnSet(g, T)}
<1>1. {} \in Q
  <2>1. /\ SumFunctionOnSet(f, {}) = 0
        /\ SumFunctionOnSet(g, {}) = 0
        /\ SumFunctionOnSet(h, {}) = 0
    BY SumUnfolds, FS_EmptySet
  <2> QED BY <2>1
<1>2. ASSUME NEW T \in SUBSET S, T # {}, \A x \in T : T \ {x} \in Q
      PROVE  T \in Q
  <2>1. PICK x \in T : TRUE
    BY <1>2
  <2>2. Summable(h, S)
    BY DEF Summable
  <2>3. /\ SumFunctionOnSet(f, T) = f[x] + SumFunctionOnSet(f, T \ {x})
        /\ SumFunctionOnSet(g, T) = g[x] + SumFunctionOnSet(g, T \ {x})
        /\ SumFunctionOnSet(h, T) = h[x] + SumFunctionOnSet(h, T \ {x})
    BY <2>1, <2>2, SumTakesOut
  <2>4. /\ SumFunctionOnSet(f, T \ {x}) \in Int /\ f[x] \in Int
        /\ SumFunctionOnSet(g, T \ {x}) \in Int /\ g[x] \in Int
    BY SumIsInteger DEF Summable
  <2>5. SumFunctionOnSet(h, T \ {x}) =
          SumFunctionOnSet(f, T \ {x}) + SumFunctionOnSet(g, T \ {x})
    BY <1>2, <2>1
  <2> QED BY <2>3, <2>4, <2>5
<1>3. \A T \in SUBSET S : T \in Q
  <2> HIDE DEF Q
  <2> QED BY <1>1, <1>2, SubsetInduction DEF Summable
<1> QED BY <1>3

LEMMA SumSkipsZeros ==
  ASSUME NEW S, NEW f, Summable(f, S), NEW U \in SUBSET S, \A x \in S \ U : f[x] = 0
  PROVE  SumFunctionOnSet(f, S) = SumFunctionOnSet(f, U)
<1> DEFINE Q == {T \in SUBSET S : SumFunctionOnSet(f, T) = SumFunctionOnSet(f, T \cap U)}
<1>1. {} \in Q
  <2>1. {} \cap U = {}
    OBVIOUS
  <2> QED BY <2>1
<1>2. ASSUME NEW T \in SUBSET S, T # {}, \A x \in T : T \ {x} \in Q
      PROVE  T \in Q
  <2>1. PICK x \in T : TRUE
    BY <1>2
  <2>2. SumFunctionOnSet(f, T) = f[x] + SumFunctionOnSet(f, T \ {x})
    BY <2>1, SumTakesOut
  <2>3. SumFunctionOnSet(f, T \ {x}) = SumFunctionOnSet(f, (T \ {x}) \cap U)
    BY <1>2, <2>1
  <2>4. SumFunctionOnSet(f, (T \ {x}) \cap U) \in Int
    <3>1. (T \ {x}) \cap U \in SUBSET S
      OBVIOUS
    <3> QED BY <3>1, SumIsInteger
  <2>5. CASE x \in U
    <3>1. SumFunctionOnSet(f, T \cap U) = f[x] + SumFunctionOnSet(f, (T \cap U) \ {x})
      <4>1. T \cap U \in SUBSET S /\ x \in T \cap U
        BY <2>1, <2>5
      <4> QED BY <4>1, SumTakesOut
    <3>2. (T \cap U) \ {x} = (T \ {x}) \cap U
      OBVIOUS
    <3> QED BY <2>2, <2>3, <3>1, <3>2
  <2>6. CASE x \notin U
    <3> DEFINE R == (T \ {x}) \cap U
    <3>1. R = T \cap U /\ f[x] = 0
      BY <2>6
    <3>2. SumFunctionOnSet(f, T) = 0 + SumFunctionOnSet(f, R) /\ SumFunctionOnSet(f, R) \in Int
      BY <2>2, <2>3, <2>4, <3>1
    <3> HIDE DEF R
    <3> QED BY <3>1, <3>2
  <2> QED BY <2>5, <2>6
<1>3. \A T \in SUBSET S : T \in Q
  <2> HIDE DEF Q
  <2> QED BY <1>1, <1>2, SubsetInduction DEF Summable
<1>4. S \cap U = U /\ S \in Q
  BY <1>3
<1> QED BY <1>4

-----------------------------------------------------------------------------
(* Arithmetic of size_t.  Integers that differ by a multiple of Modulus    *)
(* are the same size_t.                                                    *)
Same(a, b) == \E q \in Int : a = b + q * Modulus

LEMMA WrapIsSame == \A n \in Int : Wrap(n) \in SizeT /\ Same(Wrap(n), n)
<1> SUFFICES ASSUME NEW n \in Int PROVE Wrap(n) \in SizeT /\ Same(Wrap(n), n)
  OBVIOUS
<1>1. Modulus \in Nat \ {0}
  BY MenuAssumption
<1>2. n % Modulus \in 0 .. Modulus - 1 /\ n = Modulus * (n \div Modulus) + (n % Modulus)
  BY <1>1
<1>3. n \div Modulus \in Int /\ -(n \div Modulus) \in Int
  BY <1>1
<1>4. n % Modulus = n + (-(n \div Modulus)) * Modulus
  BY <1>1, <1>2, <1>3
<1> QED BY <1>2, <1>3, <1>4 DEF Wrap, SizeT, Same

LEMMA SameIsEqual ==
  ASSUME NEW a \in SizeT, NEW b \in SizeT, Same(a, b)
  PROVE  a = b
<1>1. Modulus \in Nat \ {0}
  BY MenuAssumption
<1>2. PICK q \in Int : a = b + q * Modulus
  BY DEF Same
<1>3. CASE q >= 1
  <2>1. q * Modulus >= Modulus
    BY <1>1, <1>3
  <2> QED BY <1>1, <1>2, <2>1 DEF SizeT
<1>4. CASE q <= -1
  <2>1. q * Modulus <= -Modulus
    BY <1>1, <1>4
  <2> QED BY <1>1, <1>2, <2>1 DEF SizeT
<1>5. CASE q = 0
  BY <1>1, <1>2, <1>5 DEF SizeT
<1> QED BY <1>3, <1>4, <1>5

LEMMA SameReflexive == \A a \in Int : Same(a, a)
<1>1. \A a \in Int : a = a + 0 * Modulus
  BY MenuAssumption
<1> QED BY <1>1 DEF Same

LEMMA SameSymmetric ==
  ASSUME NEW a \in Int, NEW b \in Int, Same(a, b)
  PROVE  Same(b, a)
<1>1. PICK q \in Int : a = b + q * Modulus
  BY DEF Same
<1>2. q * Modulus \in Int /\ (-q) * Modulus = -(q * Modulus)
  BY MenuAssumption
<1>3. b = a + (-q) * Modulus /\ -q \in Int
  BY <1>1, <1>2
<1> QED BY <1>3 DEF Same

LEMMA SameTransitive ==
  ASSUME NEW a \in Int, NEW b \in Int, NEW c \in Int, Same(a, b), Same(b, c)
  PROVE  Same(a, c)
<1>1. PICK q \in Int : a = b + q * Modulus
  BY DEF Same
<1>2. PICK r \in Int : b = c + r * Modulus
  BY DEF Same
<1>3. (q + r) * Modulus = q * Modulus + r * Modulus /\ q * Modulus \in Int /\ r * Modulus \in Int
  BY MenuAssumption
<1>4. a = c + (q + r) * Modulus /\ q + r \in Int
  BY <1>1, <1>2, <1>3
<1> QED BY <1>4 DEF Same

LEMMA SameSum ==
  ASSUME NEW a \in Int, NEW b \in Int, NEW c \in Int, NEW d \in Int, Same(a, b), Same(c, d)
  PROVE  Same(a + c, b + d)
<1>1. PICK q \in Int : a = b + q * Modulus
  BY DEF Same
<1>2. PICK r \in Int : c = d + r * Modulus
  BY DEF Same
<1>3. (q + r) * Modulus = q * Modulus + r * Modulus /\ q * Modulus \in Int /\ r * Modulus \in Int
  BY MenuAssumption
<1>4. a + c = (b + d) + (q + r) * Modulus /\ q + r \in Int
  BY <1>1, <1>2, <1>3
<1> QED BY <1>4 DEF Same

LEMMA SameProduct ==
  ASSUME NEW a \in Int, NEW b \in Int, NEW k \in Int, Same(a, b)
  PROVE  Same(k * a, k * b)
<1>1. PICK q \in Int : a = b + q * Modulus
  BY DEF Same
<1>2. q * Modulus \in Int /\ k * (b + q * Modulus) = k * b + k * (q * Modulus)
  BY MenuAssumption
<1>3. k * (q * Modulus) = (k * q) * Modulus /\ k * q \in Int
  BY MenuAssumption
<1>4. k * a = k * b + (k * q) * Modulus
  BY <1>1, <1>2, <1>3
<1> QED BY <1>3, <1>4 DEF Same

LEMMA WrapsAgree ==
  ASSUME NEW a \in Int, NEW b \in Int
  PROVE  Same(a, b) <=> Wrap(a) = Wrap(b)
<1>1. /\ Wrap(a) \in SizeT /\ Same(Wrap(a), a)
      /\ Wrap(b) \in SizeT /\ Same(Wrap(b), b)
  BY WrapIsSame
<1>2. SizeT \subseteq Int
  BY MenuAssumption DEF SizeT
<1>3. Same(a, Wrap(a)) /\ Same(b, Wrap(b))
  BY <1>1, <1>2, SameSymmetric
<1>4. ASSUME Same(a, b) PROVE Wrap(a) = Wrap(b)
  <2>1. Same(Wrap(a), b)
    BY <1>1, <1>2, <1>4, SameTransitive
  <2>2. Same(Wrap(a), Wrap(b))
    BY <1>1, <1>2, <1>3, <2>1, SameTransitive
  <2> QED BY <1>1, <2>2, SameIsEqual
<1>5. ASSUME Wrap(a) = Wrap(b) PROVE Same(a, b)
  BY <1>1, <1>2, <1>3, <1>5, SameTransitive
<1> QED BY <1>4, <1>5

(* Terms that are the same size_t have sums that are.                      *)
LEMMA SameTerms ==
  ASSUME NEW S, NEW f, NEW g, Summable(f, S), Summable(g, S),
         \A x \in S : Same(f[x], g[x])
  PROVE  Same(SumFunctionOnSet(f, S), SumFunctionOnSet(g, S))
<1> DEFINE Q == {T \in SUBSET S : Same(SumFunctionOnSet(f, T), SumFunctionOnSet(g, T))}
<1>1. {} \in Q
  <2>1. SumFunctionOnSet(f, {}) = 0 /\ SumFunctionOnSet(g, {}) = 0
    BY SumUnfolds, FS_EmptySet
  <2> QED BY <2>1, SameReflexive
<1>2. ASSUME NEW T \in SUBSET S, T # {}, \A x \in T : T \ {x} \in Q
      PROVE  T \in Q
  <2>1. PICK x \in T : TRUE
    BY <1>2
  <2>2. /\ SumFunctionOnSet(f, T) = f[x] + SumFunctionOnSet(f, T \ {x})
        /\ SumFunctionOnSet(g, T) = g[x] + SumFunctionOnSet(g, T \ {x})
    BY <2>1, SumTakesOut
  <2>3. /\ SumFunctionOnSet(f, T \ {x}) \in Int /\ f[x] \in Int
        /\ SumFunctionOnSet(g, T \ {x}) \in Int /\ g[x] \in Int
    BY SumIsInteger DEF Summable
  <2>4. Same(SumFunctionOnSet(f, T \ {x}), SumFunctionOnSet(g, T \ {x}))
    BY <1>2, <2>1
  <2>5. Same(f[x], g[x])
    OBVIOUS
  <2> QED BY <2>2, <2>3, <2>4, <2>5, SameSum
<1>3. \A T \in SUBSET S : T \in Q
  <2> HIDE DEF Q
  <2> QED BY <1>1, <1>2, SubsetInduction DEF Summable
<1> QED BY <1>3

(* What a purchase of n, a removal of n and a paid order do to what the    *)
(* stock, a cart and the sales hold of an item.                            *)
LEMMA MovesKeepTotal ==
  ASSUME NEW amount \in Int, NEW inCart \in Int, NEW gone \in Int, NEW n \in Int
  PROVE  /\ Same(amount - n + Wrap(inCart + n) + gone, amount + inCart + gone)
         /\ Same(Wrap(amount + n) + Wrap(inCart - n) + gone, amount + inCart + gone)
         /\ Same(amount + 0 + Wrap(gone + inCart), amount + inCart + gone)
<1>1. \A m \in Int : \E q \in Int : Wrap(m) = m + q * Modulus
  BY WrapIsSame DEF Same
<1>2. \A q, r \in Int : q * Modulus \in Int /\ (q + r) * Modulus = q * Modulus + r * Modulus
  BY MenuAssumption
<1>3. inCart + n \in Int /\ inCart - n \in Int /\ amount + n \in Int /\ gone + inCart \in Int
  OBVIOUS
<1>4. Same(amount - n + Wrap(inCart + n) + gone, amount + inCart + gone)
  <2>1. PICK q \in Int : Wrap(inCart + n) = inCart + n + q * Modulus
    BY <1>1, <1>3
  <2>2. q * Modulus \in Int
    BY <1>2
  <2>3. amount - n + Wrap(inCart + n) + gone = amount + inCart + gone + q * Modulus
    BY <2>1, <2>2
  <2> QED BY <2>3 DEF Same
<1>5. Same(Wrap(amount + n) + Wrap(inCart - n) + gone, amount + inCart + gone)
  <2>1. PICK q \in Int : Wrap(amount + n) = amount + n + q * Modulus
    BY <1>1, <1>3
  <2>2. PICK r \in Int : Wrap(inCart - n) = inCart - n + r * Modulus
    BY <1>1, <1>3
  <2>3. /\ q * Modulus \in Int /\ r * Modulus \in Int
        /\ (q + r) * Modulus = q * Modulus + r * Modulus
    BY <1>2
  <2>4. Wrap(amount + n) + Wrap(inCart - n) + gone
          = amount + inCart + gone + (q + r) * Modulus
    BY <2>1, <2>2, <2>3
  <2> QED BY <2>4 DEF Same
<1>6. Same(amount + 0 + Wrap(gone + inCart), amount + inCart + gone)
  <2>1. PICK q \in Int : Wrap(gone + inCart) = gone + inCart + q * Modulus
    BY <1>1, <1>3
  <2>2. q * Modulus \in Int
    BY <1>2
  <2>3. amount + 0 + Wrap(gone + inCart) = amount + inCart + gone + q * Modulus
    BY <2>1, <2>2
  <2> QED BY <2>3 DEF Same
<1> QED BY <1>4, <1>5, <1>6

(* What the items of a list of amounts cost; and what becomes of it when a *)
(* cart is added to that list, and the cart's cost to what was paid for it.*)
Worth(amounts) == SumFunctionOnSet([i \in Items |-> Cost[i] * amounts[i]], Items)

LEMMA SizesAreIntegers == SizeT \subseteq Int /\ \A i \in Items : Cost[i] \in Int
  BY MenuAssumption DEF SizeT

LEMMA WorthIsInteger ==
  ASSUME NEW amounts \in [Items -> Int]
  PROVE  /\ Summable([i \in Items |-> Cost[i] * amounts[i]], Items)
         /\ Worth(amounts) \in Int
<1> DEFINE f == [i \in Items |-> Cost[i] * amounts[i]]
<1>1. Summable(f, Items)
  BY SizesAreIntegers, MenuAssumption DEF Summable
<1>2. SumFunctionOnSet(f, Items) \in Int
  <2> HIDE DEF f
  <2> QED BY <1>1, SumIsInteger
<1> QED BY <1>1, <1>2 DEF Worth

(* Only what is in the cart costs anything.                                *)
LEMMA CostIsWorth ==
  ASSUME NEW cart \in [Items -> SizeT]
  PROVE  OrderCost(cart) \in Int /\ Same(OrderCost(cart), Worth(cart))
<1> DEFINE f == [i \in Items |-> Cost[i] * cart[i]]
           there == {i \in Items : cart[i] > 0}
<1>1. cart \in [Items -> Int]
  BY SizesAreIntegers
<1>2. Summable(f, Items) /\ Worth(cart) \in Int
  BY <1>1, WorthIsInteger
<1>3. \A i \in Items \ there : f[i] = 0
  <2> SUFFICES ASSUME NEW i \in Items \ there PROVE f[i] = 0
    OBVIOUS
  <2>1. cart[i] = 0
    BY MenuAssumption DEF SizeT
  <2> QED BY <2>1, SizesAreIntegers
<1>4. SumFunctionOnSet(f, Items) = SumFunctionOnSet(f, there)
  <2>1. there \in SUBSET Items
    OBVIOUS
  <2> HIDE DEF f, there
  <2> QED BY <1>2, <1>3, <2>1, SumSkipsZeros
<1>5. OrderCost(cart) = Wrap(Worth(cart))
  BY <1>4 DEF OrderCost, Worth
<1> QED BY <1>2, <1>5, WrapIsSame, SizesAreIntegers

LEMMA SaleIsPaid ==
  ASSUME NEW before \in [Items -> SizeT], NEW cart \in [Items -> SizeT], NEW paid \in Int,
         Same(Worth(before), paid)
  PROVE  Same(Worth([i \in Items |-> Wrap(before[i] + cart[i])]), OrderCost(cart) + paid)
<1> DEFINE after == [i \in Items |-> Wrap(before[i] + cart[i])]
           exact == [i \in Items |-> before[i] + cart[i]]
           value(amounts) == [i \in Items |-> Cost[i] * amounts[i]]
<1>1. /\ before \in [Items -> Int] /\ cart \in [Items -> Int] /\ exact \in [Items -> Int]
      /\ \A i \in Items : before[i] \in Int /\ cart[i] \in Int /\ before[i] + cart[i] \in Int
  <2>1. before \in [Items -> Int] /\ cart \in [Items -> Int]
    BY SizesAreIntegers
  <2>2. ASSUME NEW i \in Items
        PROVE  before[i] \in Int /\ cart[i] \in Int /\ before[i] + cart[i] \in Int
    <3>1. before[i] \in Int /\ cart[i] \in Int
      BY <2>1
    <3> QED BY <3>1
  <2>3. exact \in [Items -> Int]
    BY <2>2
  <2> QED BY <2>1, <2>2, <2>3
<1>2. after \in [Items -> Int] /\ \A i \in Items : Same(after[i], exact[i])
  <2>1. ASSUME NEW i \in Items
        PROVE  Wrap(before[i] + cart[i]) \in Int /\ Same(Wrap(before[i] + cart[i]), before[i] + cart[i])
    BY <1>1, WrapIsSame, SizesAreIntegers
  <2> QED BY <2>1
<1>3. /\ Summable(value(before), Items) /\ Worth(before) \in Int
      /\ Summable(value(cart), Items)   /\ Worth(cart) \in Int
      /\ Summable(value(exact), Items)  /\ Worth(exact) \in Int
      /\ Summable(value(after), Items)  /\ Worth(after) \in Int
  <2> HIDE DEF after, exact
  <2> QED BY <1>1, <1>2, WorthIsInteger
<1>4. Worth(exact) = Worth(before) + Worth(cart)
  <2>1. \A i \in Items : value(exact)[i] = value(before)[i] + value(cart)[i]
    BY <1>1, SizesAreIntegers
  <2> HIDE DEF exact
  <2>2. /\ Worth(exact) = SumFunctionOnSet(value(exact), Items)
        /\ Worth(before) = SumFunctionOnSet(value(before), Items)
        /\ Worth(cart) = SumFunctionOnSet(value(cart), Items)
    BY DEF Worth
  <2> HIDE DEF value
  <2> QED BY <1>3, <2>1, <2>2, SumOfSums
<1>5. Same(Worth(after), Worth(exact))
  <2>1. ASSUME NEW i \in Items PROVE Same(value(after)[i], value(exact)[i])
    <3>1. Cost[i] \in Int /\ after[i] \in Int /\ exact[i] \in Int /\ Same(after[i], exact[i])
      BY <1>1, <1>2, SizesAreIntegers
    <3>2. value(after)[i] = Cost[i] * after[i] /\ value(exact)[i] = Cost[i] * exact[i]
      OBVIOUS
    <3> HIDE DEF after, exact, value
    <3> QED BY <3>1, <3>2, SameProduct
  <2>2. /\ Worth(after) = SumFunctionOnSet(value(after), Items)
        /\ Worth(exact) = SumFunctionOnSet(value(exact), Items)
    BY DEF Worth
  <2> HIDE DEF after, exact, value
  <2> QED BY <1>3, <2>1, <2>2, SameTerms
<1> HIDE DEF after, exact, value
<1>6. Same(Worth(cart), OrderCost(cart)) /\ OrderCost(cart) \in Int
  BY <1>3, CostIsWorth, SameSymmetric
<1>7. Same(Worth(cart) + Worth(before), OrderCost(cart) + paid)
  BY <1>3, <1>6, SameSum
<1>8. Worth(exact) = Worth(cart) + Worth(before) /\ OrderCost(cart) + paid \in Int
  BY <1>3, <1>4, <1>6
<1>9. Same(Worth(after), OrderCost(cart) + paid)
  BY <1>3, <1>5, <1>7, <1>8, SameTransitive
<1> QED BY <1>9 DEF after

-----------------------------------------------------------------------------
(* The operations.                                                         *)
(* Amounts that are in range do not wrap.                                  *)
LEMMA WrapStays == \A n \in SizeT : Wrap(n) = n
  BY MenuAssumption DEF Wrap, SizeT

(* Both layers charge the same, in the same arithmetic.                    *)
LEMMA SameCost == \A cart : Abstract!OrderCost(cart) = OrderCost(cart)
  BY DEF OrderCost, Abstract!OrderCost, SumFunctionOnSet, Abstract!SumFunctionOnSet,
     FoldFunctionOnSet, Abstract!FoldFunctionOnSet, MapThenFoldSet, Abstract!MapThenFoldSet,
     Wrap, Abstract!Wrap

LEMMA SameArithmetic ==
  /\ \A n : Abstract!Wrap(n) = Wrap(n)
  /\ Abstract!EmptyCart = EmptyCart
  BY DEF Wrap, Abstract!Wrap, EmptyCart, Abstract!EmptyCart

outcome == [c \in Calls |-> Outcome(c)]

(* What is decided about the other calls, when one takes a step.           *)
LEMMA OutcomeElsewhere ==
  ASSUME TypeOK, NEW c \in Calls, Invoke(c) \/ ThreadStep(c), NEW d \in Calls, d # c
  PROVE  Outcome(d)' = Outcome(d)
<1>1. /\ request' = request
      /\ reply'[d] = reply[d]
      /\ pc'[d] = pc[d] \/ (pc[d] = "asleep" /\ pc'[d] = "wait")
  <2> USE DEF TypeOK, Goto, Answer
  <2>1. CASE Invoke(c)
    BY <2>1 DEF Invoke
  <2>2. CASE CallerStep(c)
    BY <2>2 DEF CallerStep, CheckFits, AllocationThrows, CopyVectors, CopyOverruns, SwapVectors, CountUp, CountAstray, Post, AfterCheck
  <2>3. CASE StartMain(c) \/ Describe(c)
    BY <2>3 DEF StartMain, Describe
  <2>4. CASE NotifyAll(c)
    BY <2>4 DEF NotifyAll, Woken
  <2>5. CASE LockMutex(c) \/ BuyTest(c) \/ BuyRefuse(c) \/ BuyTake(c) \/ RemoveItems(c)
    BY <2>5 DEF LockMutex, BuyTest, BuyRefuse, BuyTake, RemoveItems
  <2>6. CASE CountDown(c) \/ TestZero(c) \/ SetFlag(c) \/ ReturnTask(c)
    BY <2>6 DEF CountDown, TestZero, SetFlag, ReturnTask
  <2>7. CASE StartOrder(c) \/ ShareForWait(c) \/ FallAsleep(c) \/ PassWait(c) \/ WaitAstray(c)
    BY <2>7 DEF StartOrder, ShareForWait, FallAsleep, PassWait, WaitAstray
  <2>8. CASE PayRefuse(c) \/ Pay(c) \/ Cook(c)
    BY <2>8 DEF PayRefuse, Pay, Cook
  <2> QED BY <2>1, <2>2, <2>3, <2>4, <2>5, <2>6, <2>7, <2>8
          DEF ThreadStep, PurchaseStep, OrderStep
<1> QED BY <1>1 DEF Outcome, CriticalPcs

(* So a step decides about its own call, or about none.                    *)
LEMMA OutcomeMoves ==
  ASSUME TypeOK, NEW c \in Calls, Invoke(c) \/ ThreadStep(c)
  PROVE  outcome' = [outcome EXCEPT ![c] = Outcome(c)']
  BY OutcomeElsewhere DEF outcome

LEMMA OutcomeStays ==
  ASSUME TypeOK, NEW c \in Calls, Invoke(c) \/ ThreadStep(c), Outcome(c)' = Outcome(c)
  PROVE  outcome' = outcome
  BY OutcomeElsewhere DEF outcome

LEMMA Decides ==
  ASSUME TypeOK, NEW c \in Calls, Invoke(c) \/ ThreadStep(c), NEW result,
         Outcome(c) = "open", Outcome(c)' = result, request' = request
  PROVE  Abstract!Decide(c, result)
<1>1. outcome[c] = "open" /\ outcome' = [outcome EXCEPT ![c] = result]
  BY OutcomeMoves DEF outcome
<1> QED BY <1>1 DEF Abstract!Decide, outcome

-----------------------------------------------------------------------------
(* The steps at which a call takes effect.                                 *)
LedgerFacts == TypeOK /\ OpsAgree /\ RepliesAgree /\ StockCheckHolds

LEMMA InvokeArrives ==
  ASSUME LedgerFacts, NEW c \in Calls, Invoke(c)
  PROVE  Abstract!Arrive(c)
<1>1. Outcome(c) = "absent" /\ Outcome(c)' = "open"
  BY DEF LedgerFacts, TypeOK, Invoke, Goto, Outcome, RepliesAgree, Answered, CriticalPcs
<1>2. outcome[c] = "absent" /\ outcome' = [outcome EXCEPT ![c] = "open"]
  BY <1>1, OutcomeMoves DEF LedgerFacts, outcome
<1> QED BY <1>2 DEF Abstract!Arrive, outcome, Invoke, goods

LEMMA BuyTakesEffect ==
  ASSUME LedgerFacts, NEW c \in Calls, BuyTake(c)
  PROVE  Abstract!Bought(c)
<1> DEFINE s == request[c].session
           i == request[c].item
           n == request[c].amount
<1>1. /\ request[c].op = "buy" /\ request' = request
      /\ Outcome(c) = "open" /\ Outcome(c)' = "ok"
  BY DEF LedgerFacts, TypeOK, OpsAgree, RepliesAgree, Answered, BuyTake, Goto, Answer,
     Outcome, CriticalPcs
<1>2. Abstract!Decide(c, "ok")
  BY <1>1, Decides DEF LedgerFacts, ThreadStep, PurchaseStep
<1>3. stock[i] >= n
  BY DEF LedgerFacts, StockCheckHolds, InStock, BuyTake, Goto
<1>4. i \in Items /\ n \in SizeT /\ stock[i] \in SizeT
  BY RequestType DEF LedgerFacts, TypeOK
<1>5. Wrap(stock[i] - n) = stock[i] - n
  <2>1. stock[i] - n \in SizeT
    BY <1>3, <1>4, MenuAssumption DEF SizeT
  <2> QED BY <2>1, WrapStays
<1>6. stock' = [stock EXCEPT ![i] = stock[i] - n]
  BY <1>5 DEF BuyTake, SessionOf
<1>7. carts' = [carts EXCEPT ![s][i] = Abstract!Wrap(carts[s][i] + n)] /\ sold' = sold
  BY SameArithmetic DEF BuyTake, SessionOf
<1> QED BY <1>1, <1>2, <1>3, <1>6, <1>7 DEF Abstract!Bought

LEMMA BuyRefusalTakesEffect ==
  ASSUME LedgerFacts, NEW c \in Calls, BuyRefuse(c)
  PROVE  Abstract!SoldOut(c)
<1>1. /\ request[c].op = "buy" /\ request' = request
      /\ Outcome(c) = "open" /\ Outcome(c)' = "internal_error"
  BY DEF LedgerFacts, TypeOK, RepliesAgree, Answered, BuyRefuse, Goto, Answer,
     Outcome, CriticalPcs
<1>2. Abstract!Decide(c, "internal_error")
  BY <1>1, Decides DEF LedgerFacts, ThreadStep, PurchaseStep
<1>3. stock[request[c].item] < request[c].amount
  <2>1. request[c].amount \in SizeT /\ stock[request[c].item] \in SizeT
    BY RequestType DEF LedgerFacts, TypeOK
  <2> QED BY <2>1, MenuAssumption DEF BuyRefuse, InStock, SizeT
<1> QED BY <1>1, <1>2, <1>3 DEF Abstract!SoldOut, BuyRefuse, goods

LEMMA RemovalTakesEffect ==
  ASSUME LedgerFacts, NEW c \in Calls, RemoveItems(c)
  PROVE  Abstract!PutBack(c)
<1> DEFINE s == request[c].session
           i == request[c].item
           n == request[c].amount
<1>1. /\ request[c].op = "remove" /\ request' = request
      /\ Outcome(c) = "open" /\ Outcome(c)' = "ok"
  BY DEF LedgerFacts, TypeOK, RepliesAgree, Answered, RemoveItems, Goto,
     Outcome, CriticalPcs
<1>2. Abstract!Decide(c, "ok")
  BY <1>1, Decides DEF LedgerFacts, ThreadStep, PurchaseStep
<1>3. /\ stock' = [stock EXCEPT ![i] = Abstract!Wrap(stock[i] + n)]
      /\ carts' = [carts EXCEPT ![s][i] = Abstract!Wrap(carts[s][i] - n)]
      /\ sold' = sold
  BY SameArithmetic DEF RemoveItems, TakenOut, SessionOf
<1> QED BY <1>1, <1>2, <1>3 DEF Abstract!PutBack

LEMMA PaymentTakesEffect ==
  ASSUME LedgerFacts, NEW c \in Calls, Pay(c)
  PROVE  Abstract!Paid(c)
<1> DEFINE s == request[c].session
<1>1. /\ request[c].op = "order" /\ request' = request
      /\ Outcome(c) = "open" /\ Outcome(c)' = "ok"
  BY DEF LedgerFacts, TypeOK, OpsAgree, IsOrder, OrderPcs, RepliesAgree, Answered, Pay,
     Goto, Outcome, CriticalPcs
<1>2. Abstract!Decide(c, "ok")
  BY <1>1, Decides DEF LedgerFacts, ThreadStep, OrderStep
<1>3. Abstract!OrderCost(carts[s]) = request[c].amount
  BY SameCost DEF Pay, CheckOrderCost, SessionOf
<1>4. /\ carts' = [carts EXCEPT ![s] = Abstract!EmptyCart]
      /\ sold' = [i \in Items |-> Abstract!Wrap(sold[i] + carts[s][i])]
      /\ stock' = stock
  BY SameArithmetic DEF Pay, Erased, SessionOf
<1> QED BY <1>1, <1>2, <1>3, <1>4 DEF Abstract!Paid

LEMMA PaymentRefusalTakesEffect ==
  ASSUME LedgerFacts, NEW c \in Calls, PayRefuse(c)
  PROVE  Abstract!Unpaid(c)
<1>1. /\ request[c].op = "order" /\ request' = request
      /\ Outcome(c) = "open" /\ Outcome(c)' = "payment_failure"
  BY DEF LedgerFacts, TypeOK, OpsAgree, IsOrder, OrderPcs, RepliesAgree, Answered,
     PayRefuse, Goto, Answer, Outcome, CriticalPcs
<1>2. Abstract!Decide(c, "payment_failure")
  BY <1>1, Decides DEF LedgerFacts, ThreadStep, OrderStep
<1>3. Abstract!OrderCost(carts[request[c].session]) # request[c].amount
  BY SameCost DEF PayRefuse, CheckOrderCost, SessionOf
<1> QED BY <1>1, <1>2, <1>3 DEF Abstract!Unpaid, PayRefuse, goods

LEMMA DescriptionTakesEffect ==
  ASSUME LedgerFacts, NEW c \in Calls, Describe(c)
  PROVE  Abstract!Described(c)
<1>1. /\ request[c].op = "describe" /\ request' = request
      /\ Outcome(c) = "open" /\ Outcome(c)' = "ok"
  BY DEF LedgerFacts, TypeOK, OpsAgree, RepliesAgree, Answered, Describe, Goto, Answer,
     Outcome, CriticalPcs
<1>2. Abstract!Decide(c, "ok")
  BY <1>1, Decides DEF LedgerFacts, ThreadStep
<1> QED BY <1>1, <1>2 DEF Abstract!Described, Describe, goods

-----------------------------------------------------------------------------
(* The steps at which nothing does.                                        *)
Silent(c) ==
  \/ CallerStep(c) \/ StartMain(c)
  \/ LockMutex(c) \/ BuyTest(c) \/ CountDown(c) \/ TestZero(c) \/ SetFlag(c)
  \/ NotifyAll(c) \/ ReturnTask(c)
  \/ StartOrder(c) \/ ShareForWait(c) \/ FallAsleep(c) \/ PassWait(c) \/ WaitAstray(c) \/ Cook(c)

LEMMA SilentSteps ==
  ASSUME LedgerFacts, NEW c \in Calls, Silent(c)
  PROVE  UNCHANGED <<stock, carts, sold, request, outcome>>
<1>1. ThreadStep(c)
  BY DEF Silent, ThreadStep, PurchaseStep, OrderStep
<1>2. UNCHANGED <<stock, carts, sold, request>> /\ Outcome(c)' = Outcome(c)
  <2>1. /\ pc \in [Calls -> AllPcs] /\ reply \in [Calls -> Statuses]
        /\ request[c].op \in Ops
    BY RequestType DEF LedgerFacts, TypeOK
  <2>2. /\ reply[c] # "none" <=> Answered(c)
        /\ pc[c] \in {"count", "start"} \cup CriticalPcs => IsPurchase(c)
        /\ pc[c] = "take" => request[c].op = "buy"
        /\ pc[c] \in OrderPcs => IsOrder(c)
    BY DEF LedgerFacts, RepliesAgree, OpsAgree
  <2> USE <2>1, <2>2 DEF goods, Goto, Answer, Outcome, Answered, CriticalPcs, OrderPcs,
                         IsPurchase, IsOrder, Purchases
  <2>3. CASE CheckFits(c) \/ AllocationThrows(c) \/ CopyVectors(c) \/ CopyOverruns(c) \/ SwapVectors(c)
    BY <2>3 DEF CheckFits, AllocationThrows, CopyVectors, CopyOverruns, SwapVectors, AfterCheck
  <2>4. CASE CountUp(c) \/ CountAstray(c) \/ Post(c) \/ StartMain(c)
    BY <2>4 DEF CountUp, CountAstray, Post, StartMain
  <2>5. CASE LockMutex(c) \/ BuyTest(c) \/ CountDown(c)
    BY <2>5 DEF LockMutex, BuyTest, CountDown
  <2>6. CASE TestZero(c) \/ SetFlag(c) \/ NotifyAll(c)
    BY <2>6 DEF TestZero, SetFlag, NotifyAll
  <2>7. CASE ReturnTask(c)
    BY <2>7 DEF ReturnTask
  <2>8. CASE StartOrder(c) \/ ShareForWait(c) \/ FallAsleep(c) \/ PassWait(c) \/ WaitAstray(c)
    BY <2>8 DEF StartOrder, ShareForWait, FallAsleep, PassWait, WaitAstray
  <2>9. CASE Cook(c)
    BY <2>9 DEF Cook
  <2> QED BY <2>3, <2>4, <2>5, <2>6, <2>7, <2>8, <2>9 DEF Silent, CallerStep
<1> QED BY <1>1, <1>2, OutcomeStays DEF LedgerFacts

-----------------------------------------------------------------------------
LEMMA StepRefines ==
  LedgerFacts /\ [Next]_vars => [Abstract!LedgerNext]_(Abstract!ledgerVars)
<1> SUFFICES ASSUME LedgerFacts, [Next]_vars
             PROVE  [Abstract!LedgerNext]_(Abstract!ledgerVars)
  OBVIOUS
<1>1. CASE UNCHANGED vars
  BY <1>1 DEF Abstract!ledgerVars, vars, goods, Outcome
<1>2. CASE Next
  <2> PICK c \in Calls : Invoke(c) \/ ThreadStep(c)
    BY <1>2 DEF Next
  <2>1. CASE Silent(c)
    BY <2>1, SilentSteps DEF Abstract!ledgerVars, outcome
  <2>2. CASE Invoke(c)
    BY <2>2, InvokeArrives DEF Abstract!LedgerNext
  <2>3. CASE BuyTake(c) \/ BuyRefuse(c) \/ RemoveItems(c)
    BY <2>3, BuyTakesEffect, BuyRefusalTakesEffect, RemovalTakesEffect DEF Abstract!LedgerNext
  <2>4. CASE Pay(c) \/ PayRefuse(c) \/ Describe(c)
    BY <2>4, PaymentTakesEffect, PaymentRefusalTakesEffect, DescriptionTakesEffect
    DEF Abstract!LedgerNext
  <2> QED BY <2>1, <2>2, <2>3, <2>4 DEF Silent, ThreadStep, PurchaseStep, OrderStep
<1> QED BY <1>1, <1>2

LEMMA InitRefines == Init => Abstract!LedgerInit
  BY SameArithmetic DEF Init, Abstract!LedgerInit, Outcome

(* Buy, Remove, MakeOrder and GetAllItemDescription, with their threads,   *)
(* locks and queues, show nothing that a sequential ledger would not.      *)
THEOREM LedgerIsRefined == Spec => RefinesLedger
<1>1. Spec => []LedgerFacts
  BY TypeCorrect, OpsAlwaysAgree, RepliesAlwaysAgree, StockChecksHold, PTL DEF LedgerFacts
<1> QED BY <1>1, InitRefines, StepRefines, PTL DEF Spec, RefinesLedger, Abstract!LedgerSpec

-----------------------------------------------------------------------------
(* What the ledger keeps count of, the service layer does.  A step of the  *)
(* ledger concerns one session; it moves items between the stock, the cart *)
(* of that session and what is sold, each with the arithmetic of size_t.   *)
LEMMA SessionsFinite == IsFiniteSet(Sessions)
<1>1. IsFiniteSet(0 .. Modulus)
  BY MenuAssumption, FS_Interval
<1>2. Sessions \subseteq 0 .. Modulus
  BY MenuAssumption, ServerAssumption
<1> QED BY <1>1, <1>2, FS_Subset

LEMMA InCartsType == ASSUME TypeOK, NEW i \in Items PROVE InCarts(i) \in Int
<1>1. Summable([s \in Sessions |-> carts[s][i]], Sessions)
  BY SessionsFinite, MenuAssumption DEF Summable, TypeOK, SizeT
<1> QED BY <1>1, SumIsInteger DEF InCarts

LEMMA CartMoves ==
  ASSUME TypeOK, TypeOK', NEW s \in Sessions, NEW i \in Items,
         \A t \in Sessions \ {s} : carts'[t] = carts[t]
  PROVE  InCarts(i)' = InCarts(i) + carts'[s][i] - carts[s][i]
<1> DEFINE f == [t \in Sessions |-> carts[t][i]]
           g == [t \in Sessions |-> carts'[t][i]]
<1>1. Summable(f, Sessions) /\ g[s] \in Int
  BY SessionsFinite, MenuAssumption DEF Summable, TypeOK, SizeT
<1>2. \A t \in Sessions \ {s} : g[t] = f[t]
  OBVIOUS
<1>3. f[s] = carts[s][i] /\ g[s] = carts'[s][i]
  OBVIOUS
<1>4. InCarts(i) = SumFunctionOnSet(f, Sessions) /\ InCarts(i)' = SumFunctionOnSet(g, Sessions)
  BY DEF InCarts
<1> HIDE DEF f, g
<1> QED BY <1>1, <1>2, <1>3, <1>4, SumWithChanged

(* The carts of the other sessions add the same to both totals.            *)
LEMMA TotalMoves ==
  ASSUME TypeOK, TypeOK', NEW s \in Sessions, NEW i \in Items,
         \A t \in Sessions \ {s} : carts'[t] = carts[t],
         Same(stock'[i] + carts'[s][i] + sold'[i], stock[i] + carts[s][i] + sold[i])
  PROVE  Wrap(stock'[i] + InCarts(i)' + sold'[i]) = Wrap(stock[i] + InCarts(i) + sold[i])
<1>1. /\ stock[i] \in Int /\ sold[i] \in Int /\ carts[s][i] \in Int
      /\ stock'[i] \in Int /\ sold'[i] \in Int /\ carts'[s][i] \in Int
  BY MenuAssumption DEF TypeOK, SizeT
<1>2. InCarts(i) \in Int /\ InCarts(i)' = InCarts(i) + carts'[s][i] - carts[s][i]
  BY InCartsType, CartMoves
<1>3. PICK q \in Int : stock'[i] + carts'[s][i] + sold'[i] =
                         stock[i] + carts[s][i] + sold[i] + q * Modulus
  BY DEF Same
<1>4. q * Modulus \in Int
  BY MenuAssumption
<1>5. stock'[i] + InCarts(i)' + sold'[i] = stock[i] + InCarts(i) + sold[i] + q * Modulus
  BY <1>1, <1>2, <1>3, <1>4
<1>6. Same(stock'[i] + InCarts(i)' + sold'[i], stock[i] + InCarts(i) + sold[i])
  BY <1>5 DEF Same
<1>7. stock'[i] + InCarts(i)' + sold'[i] \in Int /\ stock[i] + InCarts(i) + sold[i] \in Int
  BY <1>1, <1>2
<1> QED BY <1>6, <1>7, WrapsAgree

LEMMA LedgerStepConserves ==
  ASSUME TypeOK, TypeOK', NEW c \in Calls, NEW i \in Items,
         \/ Abstract!Bought(c) \/ Abstract!PutBack(c) \/ Abstract!Paid(c)
  PROVE  Wrap(stock'[i] + InCarts(i)' + sold'[i]) = Wrap(stock[i] + InCarts(i) + sold[i])
<1> DEFINE s == request[c].session
           j == request[c].item
           n == request[c].amount
<1>1. s \in Sessions /\ j \in Items /\ n \in SizeT
  BY RequestType DEF TypeOK
<1>2. stock \in [Items -> SizeT] /\ carts \in [Sessions -> [Items -> SizeT]] /\ sold \in [Items -> SizeT]
  BY DEF TypeOK
<1> DEFINE a == stock[i]
           k == carts[s][i]
           z == sold[i]
<1>3. a \in Int /\ k \in Int /\ z \in Int /\ n \in Int
  <2> HIDE DEF s, n
  <2> QED BY <1>1, <1>2, MenuAssumption DEF SizeT
<1>4. /\ Same(a - n + Wrap(k + n) + z, a + k + z)
      /\ Same(Wrap(a + n) + Wrap(k - n) + z, a + k + z)
      /\ Same(a + 0 + Wrap(z + k), a + k + z)
      /\ Same(a + k + z, a + k + z)
  <2>1. a + k + z \in Int
    BY <1>3
  <2> HIDE DEF a, k, z, n
  <2> QED BY <1>3, <2>1, MovesKeepTotal, SameReflexive
<1>5. CASE Abstract!Bought(c)
  <2>1. /\ stock' = [stock EXCEPT ![j] = stock[j] - n]
        /\ carts' = [carts EXCEPT ![s][j] = Wrap(carts[s][j] + n)]
        /\ sold' = sold
    BY <1>5, SameArithmetic DEF Abstract!Bought
  <2> HIDE DEF s, j, n
  <2>2. /\ \A t \in Sessions \ {s} : carts'[t] = carts[t]
        /\ i # j => stock'[i] = a /\ carts'[s][i] = k /\ sold'[i] = z
        /\ i = j => stock'[i] = a - n /\ carts'[s][i] = Wrap(k + n) /\ sold'[i] = z
    BY <1>1, <1>2, <2>1
  <2> HIDE DEF a, k, z
  <2>3. Same(stock'[i] + carts'[s][i] + sold'[i], a + k + z)
    BY <1>4, <2>2
  <2> QED BY <1>1, <2>2, <2>3, TotalMoves DEF a, k, z
<1>6. CASE Abstract!PutBack(c)
  <2>1. /\ stock' = [stock EXCEPT ![j] = Wrap(stock[j] + n)]
        /\ carts' = [carts EXCEPT ![s][j] = Wrap(carts[s][j] - n)]
        /\ sold' = sold
    BY <1>6, SameArithmetic DEF Abstract!PutBack
  <2> HIDE DEF s, j, n
  <2>2. /\ \A t \in Sessions \ {s} : carts'[t] = carts[t]
        /\ i # j => stock'[i] = a /\ carts'[s][i] = k /\ sold'[i] = z
        /\ i = j => stock'[i] = Wrap(a + n) /\ carts'[s][i] = Wrap(k - n) /\ sold'[i] = z
    BY <1>1, <1>2, <2>1
  <2> HIDE DEF a, k, z
  <2>3. Same(stock'[i] + carts'[s][i] + sold'[i], a + k + z)
    BY <1>4, <2>2
  <2> QED BY <1>1, <2>2, <2>3, TotalMoves DEF a, k, z
<1>7. CASE Abstract!Paid(c)
  <2>1. /\ carts' = [carts EXCEPT ![s] = EmptyCart]
        /\ sold' = [x \in Items |-> Wrap(sold[x] + carts[s][x])]
        /\ stock' = stock
    BY <1>7, SameArithmetic DEF Abstract!Paid
  <2> HIDE DEF s, j, n
  <2>2. /\ \A t \in Sessions \ {s} : carts'[t] = carts[t]
        /\ stock'[i] = a /\ carts'[s][i] = 0 /\ sold'[i] = Wrap(z + k)
    BY <1>1, <1>2, <2>1 DEF EmptyCart
  <2> HIDE DEF a, k, z
  <2>3. Same(stock'[i] + carts'[s][i] + sold'[i], a + k + z)
    BY <1>4, <2>2
  <2> QED BY <1>1, <2>2, <2>3, TotalMoves DEF a, k, z
<1> QED BY <1>5, <1>6, <1>7

LEMMA ConservationStep ==
  LedgerFacts /\ TypeOK' /\ ItemsConserved /\ [Next]_vars => ItemsConserved'
<1> SUFFICES ASSUME LedgerFacts, TypeOK', ItemsConserved, [Next]_vars
             PROVE  ItemsConserved'
  OBVIOUS
<1>1. CASE UNCHANGED <<stock, carts, sold>>
  BY <1>1 DEF ItemsConserved, InCarts
<1>2. CASE \E c \in Calls : Abstract!Bought(c) \/ Abstract!PutBack(c) \/ Abstract!Paid(c)
  <2> PICK c \in Calls : Abstract!Bought(c) \/ Abstract!PutBack(c) \/ Abstract!Paid(c)
    BY <1>2
  <2>1. ASSUME NEW i \in Items
        PROVE  Wrap(stock'[i] + InCarts(i)' + sold'[i]) = InitialAmount[i]
    BY LedgerStepConserves DEF LedgerFacts, ItemsConserved
  <2> QED BY <2>1 DEF ItemsConserved
<1>3. UNCHANGED <<stock, carts, sold>> \/ Abstract!LedgerNext
  BY StepRefines DEF Abstract!ledgerVars
<1> QED
  BY <1>1, <1>2, <1>3 DEF Abstract!LedgerNext, Abstract!Arrive, Abstract!SoldOut,
     Abstract!Unpaid, Abstract!Described

(* However purchases, removals and orders overlap, no item is created or   *)
(* lost between the stock, the carts and what is sold.                     *)
THEOREM ItemsAreConserved == Spec => []ItemsConserved
<1>1. Init => ItemsConserved
  <2> SUFFICES ASSUME Init, NEW i \in Items
               PROVE  Wrap(stock[i] + InCarts(i) + sold[i]) = InitialAmount[i]
    BY DEF ItemsConserved
  <2> DEFINE f == [s \in Sessions |-> carts[s][i]]
  <2>1. \A s \in Sessions : f[s] = 0
    BY DEF Init, EmptyCart
  <2>2. SumFunctionOnSet(f, Sessions) = SumFunctionOnSet(f, {})
    <3>1. Summable(f, Sessions) /\ {} \in SUBSET Sessions
      BY <2>1, SessionsFinite DEF Summable
    <3> HIDE DEF f
    <3> QED BY <2>1, <3>1, SumSkipsZeros
  <2>3. InCarts(i) = 0
    BY <2>2, SumUnfolds, FS_EmptySet DEF InCarts
  <2>4. stock[i] = InitialAmount[i] /\ sold[i] = 0 /\ InitialAmount[i] \in SizeT
    BY MenuAssumption DEF Init, SizeT
  <2>5. stock[i] + InCarts(i) + sold[i] = InitialAmount[i]
    BY <2>3, <2>4, MenuAssumption DEF SizeT
  <2> QED BY <2>4, <2>5, WrapStays
<1>2. Spec => [](LedgerFacts /\ TypeOK)
  BY TypeCorrect, OpsAlwaysAgree, RepliesAlwaysAgree, StockChecksHold, PTL DEF LedgerFacts
<1> QED BY <1>1, <1>2, ConservationStep, PTL DEF Spec

-----------------------------------------------------------------------------
(* The orders that are paid are those the ledger has accepted.             *)
Accepted == {c \in Calls : IsOrder(c) /\ outcome[c] = "ok"}

LEMMA PaidIsAccepted == TypeOK /\ RepliesAgree => PaidOrders = Accepted
<1> SUFFICES ASSUME TypeOK, RepliesAgree, NEW c \in Calls, IsOrder(c)
             PROVE  (pc[c] = "cook" \/ reply[c] = "ok") <=> Outcome(c) = "ok"
  BY DEF PaidOrders, Accepted, outcome
<1> QED BY DEF RepliesAgree, Answered, Outcome, IsOrder, CriticalPcs

Takings == SumFunctionOnSet([c \in Calls |-> request[c].amount], Accepted)

LEMMA AmountsSummable ==
  ASSUME TypeOK, NEW C \in SUBSET Calls
  PROVE  Summable([c \in Calls |-> request[c].amount], C)
<1>1. \A c \in Calls : request[c].amount \in Int
  BY RequestType, SizesAreIntegers DEF TypeOK
<1>2. IsFiniteSet(C)
  BY ServerAssumption, FS_Subset
<1> QED BY <1>1, <1>2 DEF Summable

(* The ledger's account: the same size_t has been paid as was sold.        *)
Balanced == Same(Worth(sold), Takings)

LEMMA BalancedIsPaid == TypeOK /\ RepliesAgree => (SalesArePaid <=> Balanced)
<1> SUFFICES ASSUME TypeOK, RepliesAgree PROVE SalesArePaid <=> Balanced
  OBVIOUS
<1>1. SumFunctionOnSet([c \in Calls |-> request[c].amount], PaidOrders) = Takings
  BY PaidIsAccepted DEF Takings
<1>2. Worth(sold) \in Int
  BY WorthIsInteger, SizesAreIntegers DEF TypeOK
<1>3. Takings \in Int
  <2>1. Accepted \in SUBSET Calls
    BY DEF Accepted
  <2> QED BY <2>1, AmountsSummable, SumIsInteger DEF Takings
<1> QED BY <1>1, <1>2, <1>3, WrapsAgree DEF SalesArePaid, Balanced, Worth

LEMMA PaymentBalances ==
  ASSUME TypeOK, Balanced, NEW c \in Calls, Abstract!Paid(c)
  PROVE  Balanced'
<1> DEFINE s == request[c].session
           amounts == [d \in Calls |-> request[d].amount]
<1>1. /\ request[c].op = "order" /\ request' = request
      /\ OrderCost(carts[s]) = request[c].amount
      /\ sold' = [i \in Items |-> Wrap(sold[i] + carts[s][i])]
      /\ outcome[c] = "open" /\ outcome' = [outcome EXCEPT ![c] = "ok"]
  BY SameCost, SameArithmetic DEF Abstract!Paid, Abstract!Decide, outcome
<1>2. Accepted' = Accepted \cup {c} /\ c \notin Accepted
  BY <1>1 DEF Accepted, outcome, IsOrder
<1>3. Accepted \in SUBSET Calls
  BY DEF Accepted
<1>4. Summable(amounts, Accepted) /\ Takings \in Int /\ amounts[c] = request[c].amount
  BY <1>3, AmountsSummable, SumIsInteger DEF Takings
<1>5. amounts[c] \in Int
  <2>1. request[c].amount \in Int
    BY RequestType, SizesAreIntegers DEF TypeOK
  <2> QED BY <2>1
<1>6. SumFunctionOnSet(amounts, Accepted \cup {c}) = request[c].amount + Takings
  <2>1. SumFunctionOnSet(amounts, Accepted) = Takings
    BY DEF Takings
  <2> HIDE DEF amounts
  <2> QED BY <1>2, <1>4, <1>5, <2>1, SumWithAdded
<1>7. Takings' = request[c].amount + Takings
  BY <1>1, <1>2, <1>6 DEF Takings
<1>8. sold \in [Items -> SizeT] /\ carts[s] \in [Items -> SizeT]
  BY RequestType DEF TypeOK
<1>9. Same(Worth(sold'), OrderCost(carts[s]) + Takings)
  <2> HIDE DEF s
  <2> QED BY <1>1, <1>4, <1>8, SaleIsPaid DEF Balanced
<1> QED BY <1>1, <1>7, <1>9 DEF Balanced, Worth

LEMMA BalanceStep == LedgerFacts /\ Balanced /\ [Next]_vars => Balanced'
<1> SUFFICES ASSUME LedgerFacts, Balanced, [Next]_vars
             PROVE  Balanced'
  OBVIOUS
<1>1. ASSUME UNCHANGED <<sold, request>>, Accepted' = Accepted
      PROVE  Balanced'
  BY <1>1 DEF Balanced, Worth, Takings
<1>2. CASE UNCHANGED Abstract!ledgerVars
  BY <1>1, <1>2 DEF Abstract!ledgerVars, Accepted, IsOrder, outcome
<1>3. ASSUME NEW c \in Calls, NEW result, result # "ok" \/ ~IsOrder(c),
             Abstract!Decide(c, result), sold' = sold
      PROVE  Balanced'
  <2>1. /\ outcome[c] = "open" /\ outcome' = [outcome EXCEPT ![c] = result]
        /\ request' = request
    BY <1>3 DEF Abstract!Decide, outcome
  <2>2. Accepted' = Accepted
    BY <1>3, <2>1 DEF Accepted, outcome, IsOrder
  <2> QED BY <1>1, <1>3, <2>1, <2>2
<1>4. ASSUME NEW c \in Calls, Abstract!Arrive(c)
      PROVE  Balanced'
  <2>1. /\ outcome[c] = "absent" /\ outcome' = [outcome EXCEPT ![c] = "open"]
        /\ UNCHANGED <<sold, request>>
    BY <1>4 DEF Abstract!Arrive, outcome
  <2>2. Accepted' = Accepted
    BY <2>1 DEF Accepted, outcome, IsOrder
  <2> QED BY <1>1, <2>1, <2>2
<1>5. ASSUME NEW c \in Calls,
             \/ Abstract!Bought(c) \/ Abstract!SoldOut(c) \/ Abstract!PutBack(c)
             \/ Abstract!Unpaid(c) \/ Abstract!Described(c)
      PROVE  Balanced'
  BY <1>3, <1>5 DEF Abstract!Bought, Abstract!SoldOut, Abstract!PutBack, Abstract!Unpaid,
     Abstract!Described, IsOrder
<1>6. ASSUME NEW c \in Calls, Abstract!Paid(c)
      PROVE  Balanced'
  BY <1>6, PaymentBalances DEF LedgerFacts
<1> QED BY <1>2, <1>4, <1>5, <1>6, StepRefines DEF Abstract!LedgerNext

(* What the accepted orders paid is what was sold is worth, in the         *)
(* arithmetic of size_t, whichever orders and purchases overlap.           *)
THEOREM SalesAreAlwaysPaid == Spec => []SalesArePaid
<1>1. Init => Balanced
  <2> SUFFICES ASSUME Init PROVE Balanced
    OBVIOUS
  <2> DEFINE f == [i \in Items |-> Cost[i] * sold[i]]
  <2>1. \A i \in Items : f[i] = 0
    BY SizesAreIntegers DEF Init
  <2>2. SumFunctionOnSet(f, Items) = SumFunctionOnSet(f, {})
    <3>1. Summable(f, Items) /\ {} \in SUBSET Items
      BY <2>1, MenuAssumption DEF Summable
    <3> HIDE DEF f
    <3> QED BY <2>1, <3>1, SumSkipsZeros
  <2>3. Worth(sold) = 0
    BY <2>2, SumUnfolds, FS_EmptySet DEF Worth
  <2>4. Accepted = {}
    BY DEF Init, Accepted, outcome, Outcome
  <2>5. Takings = 0
    BY <2>4, SumUnfolds, FS_EmptySet DEF Takings
  <2> QED BY <2>3, <2>5, SameReflexive DEF Balanced
<1>2. Spec => []LedgerFacts
  BY TypeCorrect, OpsAlwaysAgree, RepliesAlwaysAgree, StockChecksHold, PTL DEF LedgerFacts
<1>3. LedgerFacts /\ Balanced => SalesArePaid
  BY BalancedIsPaid DEF LedgerFacts
<1> QED BY <1>1, <1>2, <1>3, BalanceStep, PTL DEF Spec
=============================================================================
