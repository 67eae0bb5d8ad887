-------------------------------- MODULE Sums --------------------------------
(***************************************************************************)
(* Facts about SumFunctionOnSet, the sum of an integer function over a     *)
(* finite set.                                                             *)
(*                                                                         *)
(* The sum is defined by recursion over the set, taking out an element     *)
(* that CHOOSE picks.  Here it is shown to be the number of unit steps the *)
(* function takes upwards less the number it takes downwards (UnitSteps    *)
(* and Balance below, which need no recursion), by a minimal subset on     *)
(* which the two would differ.  What one expects of a sum follows.         *)
(***************************************************************************)
EXTENDS Integers, FiniteSets, Functions, FiniteSetTheorems, TLAPS

\* The unit steps up to f[x], for every x of S.
UnitSteps(f, S) == {p \in S \X Nat : p[2] \in 1 .. f[p[1]]}

Minus(f) == [x \in DOMAIN f |-> 0 - f[x]]

Balance(f, S) == Cardinality(UnitSteps(f, S)) - Cardinality(UnitSteps(Minus(f), S))

\* Induction over a finite set: of a family of its subsets one is minimal.
LEMMA MinimalSubset ==
    ASSUME NEW S, IsFiniteSet(S), NEW F, F \subseteq SUBSET S, F # {}
    PROVE  \E T \in F : \A x \in T : T \ {x} \notin F
<1> DEFINE R == StrictSubsetOrdering(S)
<1>1. IsWellFoundedOn(R, FiniteSubsetsOf(S))
    BY FS_StrictSubsetOrderingWellFounded
<1>2. FiniteSubsetsOf(S) = SUBSET S
    BY FS_FiniteSubsetsOfFinite
<1>3. \E T \in F : \A U \in F : ~ (<<U, T>> \in R)
    <2> HIDE DEF R
    <2> QED BY <1>1, <1>2, WFMin
<1>4. PICK T \in F : \A U \in F : ~ (<<U, T>> \in R)
    BY <1>3
<1>5. ASSUME NEW x \in T, T \ {x} \in F
      PROVE  FALSE
    <2>1. T \ {x} \in SUBSET S /\ T \in SUBSET S
        BY <1>5
    <2>2. T \ {x} \subseteq T /\ T \ {x} # T
        BY <1>5
    <2>3. <<T \ {x}, T>> \in R
        BY <2>1, <2>2 DEF StrictSubsetOrdering
    <2> QED BY <2>3, <1>4, <1>5
<1> QED BY <1>4, <1>5

\* Disjoint finite sets together have as many elements as one after the other.
LEMMA CardinalityDisjoint ==
    ASSUME NEW S, IsFiniteSet(S), NEW T, IsFiniteSet(T), S \cap T = {}
    PROVE  /\ IsFiniteSet(S \cup T)
           /\ Cardinality(S) \in Nat
           /\ Cardinality(T) \in Nat
           /\ Cardinality(S \cup T) = Cardinality(S) + Cardinality(T)
<1> DEFINE c == Cardinality(S)
           d == Cardinality(T)
           e == Cardinality(S \cup T)
<1>1. c \in Nat /\ d \in Nat
    BY FS_CardinalityType
<1>2. IsFiniteSet(S \cup T) /\ e = c + d - Cardinality(S \cap T)
    BY FS_Union
<1>3. Cardinality(S \cap T) = 0
    BY FS_EmptySet
<1>4. e = c + d
    <2> HIDE DEF c, d, e
    <2> QED BY <1>1, <1>2, <1>3
<1> QED BY <1>1, <1>2, <1>4

\* There is no step over the empty set.
LEMMA StepsEmpty ==
    ASSUME NEW f
    PROVE  UnitSteps(f, {}) = {}
BY DEF UnitSteps

\* One element more, one column of steps more.
LEMMA StepsAdd ==
    ASSUME NEW f, NEW S, NEW x \in S, f[x] \in Int, IsFiniteSet(UnitSteps(f, S \ {x}))
    PROVE  /\ IsFiniteSet(UnitSteps(f, S))
           /\ Cardinality(UnitSteps(f, S)) = Cardinality(UnitSteps(f, S \ {x}))
                                       + (IF f[x] > 0 THEN f[x] ELSE 0)
<1> DEFINE column == {x} \X (1 .. f[x])
           rest == UnitSteps(f, S \ {x})
<1>1. IsFiniteSet({x}) /\ Cardinality({x}) = 1
    BY FS_Singleton
<1>2. /\ IsFiniteSet(1 .. f[x])
      /\ Cardinality(1 .. f[x]) = IF f[x] > 0 THEN f[x] ELSE 0
    <2>1. /\ IsFiniteSet(1 .. f[x])
          /\ Cardinality(1 .. f[x]) = IF 1 > f[x] THEN 0 ELSE f[x] - 1 + 1
        BY FS_Interval
    <2> QED BY <2>1
<1>3. IsFiniteSet(column) /\ Cardinality(column) = 1 * Cardinality(1 .. f[x])
    BY <1>1, <1>2, FS_Product
<1>4. UnitSteps(f, S) = rest \cup column
    BY DEF UnitSteps
<1>5. rest \cap column = {}
    BY DEF UnitSteps
<1>6. /\ IsFiniteSet(rest \cup column)
      /\ Cardinality(rest \cup column) = Cardinality(rest) + Cardinality(column)
    <2> HIDE DEF rest, column
    <2> QED BY <1>3, <1>5, CardinalityDisjoint DEF rest
<1>7. Cardinality(column) = IF f[x] > 0 THEN f[x] ELSE 0
    BY <1>2, <1>3
<1> QED BY <1>4, <1>6, <1>7

\* An integer function takes finitely many steps over a finite set.
LEMMA StepsFinite ==
    ASSUME NEW S, IsFiniteSet(S), NEW f, \A x \in S : f[x] \in Int
    PROVE  IsFiniteSet(UnitSteps(f, S))
<1> DEFINE Bad == {T \in SUBSET S : ~ IsFiniteSet(UnitSteps(f, T))}
<1>1. SUFFICES ASSUME Bad # {} PROVE FALSE
    OBVIOUS
<1>2. PICK T \in Bad : \A x \in T : T \ {x} \notin Bad
    <2> HIDE DEF Bad
    <2>1. Bad \subseteq SUBSET S
        BY DEF Bad
    <2> QED BY <1>1, <2>1, MinimalSubset
<1>3. CASE T = {}
    BY <1>2, <1>3, StepsEmpty, FS_EmptySet
<1>4. CASE T # {}
    <2>1. PICK x \in T : TRUE
        BY <1>4
    <2>2. IsFiniteSet(UnitSteps(f, T \ {x}))
        BY <1>2, <2>1
    <2>3. IsFiniteSet(UnitSteps(f, T))
        BY <2>1, <2>2, <1>2, StepsAdd
    <2> QED BY <2>3, <1>2
<1> QED BY <1>3, <1>4

\* The balance is an integer.
LEMMA BalanceType ==
    ASSUME NEW S, IsFiniteSet(S), NEW f, S \subseteq DOMAIN f, \A x \in S : f[x] \in Int
    PROVE  Balance(f, S) \in Int
<1>1. IsFiniteSet(UnitSteps(f, S))
    BY StepsFinite
<1>2. \A x \in S : Minus(f)[x] \in Int
    BY DEF Minus
<1>3. IsFiniteSet(UnitSteps(Minus(f), S))
    BY <1>2, StepsFinite
<1>4. Cardinality(UnitSteps(f, S)) \in Nat /\ Cardinality(UnitSteps(Minus(f), S)) \in Nat
    BY <1>1, <1>3, FS_CardinalityType
<1> QED BY <1>4 DEF Balance

\* The balance over the empty set is zero.
LEMMA BalanceEmpty ==
    ASSUME NEW f
    PROVE  Balance(f, {}) = 0
<1>1. Cardinality(UnitSteps(f, {})) = 0 /\ Cardinality(UnitSteps(Minus(f), {})) = 0
    BY StepsEmpty, FS_EmptySet
<1> QED BY <1>1 DEF Balance

\* The balance over a set is that of any element and that of the others.
LEMMA BalanceRemove ==
    ASSUME NEW S, IsFiniteSet(S), NEW f, S \subseteq DOMAIN f, \A x \in S : f[x] \in Int,
           NEW x \in S
    PROVE  Balance(f, S) = f[x] + Balance(f, S \ {x})
<1> DEFINE T == S \ {x}
<1>1. IsFiniteSet(T)
    BY FS_Subset
<1>2. IsFiniteSet(UnitSteps(f, T)) /\ Cardinality(UnitSteps(f, T)) \in Nat
    BY <1>1, StepsFinite, FS_CardinalityType
<1>3. \A y \in S : Minus(f)[y] \in Int
    BY DEF Minus
<1>4. IsFiniteSet(UnitSteps(Minus(f), T)) /\ Cardinality(UnitSteps(Minus(f), T)) \in Nat
    BY <1>1, <1>3, StepsFinite, FS_CardinalityType
<1>5. Cardinality(UnitSteps(f, S)) = Cardinality(UnitSteps(f, T)) + (IF f[x] > 0 THEN f[x] ELSE 0)
    BY <1>2, StepsAdd
<1>6. Cardinality(UnitSteps(Minus(f), S)) =
        Cardinality(UnitSteps(Minus(f), T)) + (IF Minus(f)[x] > 0 THEN Minus(f)[x] ELSE 0)
    <2>1. Minus(f)[x] \in Int /\ IsFiniteSet(UnitSteps(Minus(f), S \ {x}))
        BY <1>3, <1>4
    <2> HIDE DEF T
    <2>2. Cardinality(UnitSteps(Minus(f), S)) = Cardinality(UnitSteps(Minus(f), S \ {x}))
                                 + (IF Minus(f)[x] > 0 THEN Minus(f)[x] ELSE 0)
        BY <2>1, StepsAdd
    <2> QED BY <2>2 DEF T
<1>7. Minus(f)[x] = 0 - f[x] /\ f[x] \in Int
    BY DEF Minus
<1> HIDE DEF T
<1> QED BY <1>2, <1>4, <1>5, <1>6, <1>7 DEF Balance, T

-----------------------------------------------------------------------------

\* The recursive sum is the balance of the steps.
LEMMA SumIsBalance ==
    ASSUME NEW S, IsFiniteSet(S), NEW f, S \subseteq DOMAIN f, \A x \in S : f[x] \in Int
    PROVE  SumFunctionOnSet(f, S) = Balance(f, S)
<1> DEFINE Rec(g) == [s \in SUBSET S |->
                        IF s = {} THEN 0
                        ELSE f[CHOOSE x \in s : TRUE] + g[s \ {CHOOSE x \in s : TRUE}]]
           iter == CHOOSE g : g = Rec(g)
           sum == [s \in SUBSET S |-> Balance(f, s)]
<1>1. SumFunctionOnSet(f, S) = iter[S]
    BY DEF SumFunctionOnSet, FoldFunctionOnSet, MapThenFoldSet
<1>2. \A s \in SUBSET S : s # {} => (CHOOSE x \in s : TRUE) \in s
    OBVIOUS
<1>3. \A s \in SUBSET S : \A x \in s : sum[s] = f[x] + sum[s \ {x}]
    <2> SUFFICES ASSUME NEW s \in SUBSET S, NEW x \in s
                 PROVE  sum[s] = f[x] + sum[s \ {x}]
        OBVIOUS
    <2>1. IsFiniteSet(s)
        BY FS_Subset
    <2>2. Balance(f, s) = f[x] + Balance(f, s \ {x})
        BY <2>1, BalanceRemove
    <2> QED BY <2>2
<1>4. sum[{}] = 0
    BY BalanceEmpty
<1>5. sum = Rec(sum)
    <2> HIDE DEF sum
    <2>1. \A s \in SUBSET S : sum[s] = Rec(sum)[s]
        BY <1>2, <1>3, <1>4
    <2> QED BY <2>1 DEF sum
<1>6. iter = Rec(iter)
    <2> HIDE DEF sum, Rec
    <2> QED BY <1>5
<1>7. \A s \in SUBSET S : iter[s] = sum[s]
    <2> DEFINE Bad == {s \in SUBSET S : iter[s] # sum[s]}
    <2> SUFFICES ASSUME Bad # {} PROVE FALSE
        OBVIOUS
    <2> HIDE DEF iter, sum
    <2>1. PICK s \in Bad : \A x \in s : s \ {x} \notin Bad
        <3>1. Bad \subseteq SUBSET S
            OBVIOUS
        <3> HIDE DEF Bad
        <3> QED BY <3>1, MinimalSubset
    <2>2. CASE s = {}
        BY <2>2, <1>6, <1>4, <2>1
    <2>3. CASE s # {}
        <3> DEFINE x == CHOOSE x \in s : TRUE
        <3>1. x \in s
            BY <2>3
        <3>2. iter[s] = f[x] + iter[s \ {x}]
            BY <1>6, <2>3, <2>1
        <3>3. iter[s \ {x}] = sum[s \ {x}]
            <4> HIDE DEF x
            <4> QED BY <2>1, <3>1
        <3>4. sum[s] = f[x] + sum[s \ {x}]
            <4> HIDE DEF x
            <4> QED BY <2>1, <3>1, <1>3
        <3> HIDE DEF x
        <3> QED BY <3>2, <3>3, <3>4, <2>1
    <2> QED BY <2>2, <2>3
<1>8. iter[S] = Balance(f, S)
    <2>1. sum[S] = Balance(f, S)
        OBVIOUS
    <2> HIDE DEF iter, sum
    <2> QED BY <1>7, <2>1
<1> HIDE DEF iter
<1> QED BY <1>1, <1>8

-----------------------------------------------------------------------------
(* What the sum is, for a finite set S on which f is integer-valued.       *)

Summable(f, S) == IsFiniteSet(S) /\ S \subseteq DOMAIN f /\ \A x \in S : f[x] \in Int

\* The sum is an integer.
LEMMA SumInt ==
    ASSUME NEW f, NEW S, Summable(f, S)
    PROVE  SumFunctionOnSet(f, S) \in Int
BY SumIsBalance, BalanceType DEF Summable

\* The empty sum is zero.
LEMMA SumEmpty ==
    ASSUME NEW f
    PROVE  SumFunctionOnSet(f, {}) = 0
<1>1. Summable(f, {})
    BY FS_EmptySet DEF Summable
<1> QED BY <1>1, SumIsBalance, BalanceEmpty DEF Summable

\* Any element may be taken out of the sum first.
LEMMA SumRemove ==
    ASSUME NEW f, NEW S, Summable(f, S), NEW x \in S
    PROVE  /\ Summable(f, S \ {x})
           /\ SumFunctionOnSet(f, S) = f[x] + SumFunctionOnSet(f, S \ {x})
<1>1. IsFiniteSet(S \ {x})
    BY FS_Subset DEF Summable
<1>2. Summable(f, S \ {x})
    BY <1>1 DEF Summable
<1>3. Balance(f, S) = f[x] + Balance(f, S \ {x})
    BY BalanceRemove DEF Summable
<1> QED BY <1>2, <1>3, SumIsBalance DEF Summable

\* An element more, and its value more.
LEMMA SumAdd ==
    ASSUME NEW f, NEW S, Summable(f, S), NEW x \in DOMAIN f, x \notin S, f[x] \in Int
    PROVE  /\ Summable(f, S \cup {x})
           /\ SumFunctionOnSet(f, S \cup {x}) = f[x] + SumFunctionOnSet(f, S)
<1>1. IsFiniteSet(S \cup {x})
    BY FS_AddElement DEF Summable
<1>2. Summable(f, S \cup {x})
    BY <1>1 DEF Summable
<1>3. (S \cup {x}) \ {x} = S
    OBVIOUS
<1>4. SumFunctionOnSet(f, S \cup {x}) = f[x] + SumFunctionOnSet(f, (S \cup {x}) \ {x})
    BY <1>2, SumRemove
<1> QED BY <1>2, <1>3, <1>4

\* The sum depends on what the function is on the set, and on nothing else.
LEMMA SumSame ==
    ASSUME NEW f, NEW g, NEW S, Summable(f, S), S \subseteq DOMAIN g,
           \A x \in S : f[x] = g[x]
    PROVE  Summable(g, S) /\ SumFunctionOnSet(g, S) = SumFunctionOnSet(f, S)
<1>1. Summable(g, S)
    BY DEF Summable
<1>2. UnitSteps(f, S) = UnitSteps(g, S)
    BY DEF UnitSteps
<1>3. UnitSteps(Minus(f), S) = UnitSteps(Minus(g), S)
    BY DEF UnitSteps, Minus, Summable
<1>4. Balance(f, S) = Balance(g, S)
    BY <1>2, <1>3 DEF Balance
<1> QED BY <1>1, <1>4, SumIsBalance DEF Summable

\* One value changes, and the sum by as much.
LEMMA SumChange ==
    ASSUME NEW f, NEW g, NEW S, Summable(f, S), Summable(g, S), NEW x \in S,
           \A y \in S \ {x} : f[y] = g[y]
    PROVE  SumFunctionOnSet(g, S) = SumFunctionOnSet(f, S) + g[x] - f[x]
<1>1. /\ Summable(f, S \ {x})
      /\ SumFunctionOnSet(f, S) = f[x] + SumFunctionOnSet(f, S \ {x})
    BY SumRemove
<1>2. /\ Summable(g, S \ {x})
      /\ SumFunctionOnSet(g, S) = g[x] + SumFunctionOnSet(g, S \ {x})
    BY SumRemove
<1>3. SumFunctionOnSet(g, S \ {x}) = SumFunctionOnSet(f, S \ {x})
    BY <1>1, <1>2, SumSame DEF Summable
<1>4. SumFunctionOnSet(f, S \ {x}) \in Int
    BY <1>1, SumInt
<1>5. f[x] \in Int /\ g[x] \in Int
    BY DEF Summable
<1> QED BY <1>1, <1>2, <1>3, <1>4, <1>5

\* A sum of zeros is zero.
LEMMA SumZero ==
    ASSUME NEW f, NEW S, Summable(f, S), \A x \in S : f[x] = 0
    PROVE  SumFunctionOnSet(f, S) = 0
<1>1. UnitSteps(f, S) = {}
    BY DEF UnitSteps
<1>2. UnitSteps(Minus(f), S) = {}
    BY DEF UnitSteps, Minus, Summable
<1>3. Cardinality({}) = 0
    BY FS_EmptySet
<1>4. Balance(f, S) = 0
    BY <1>1, <1>2, <1>3 DEF Balance
<1> QED BY <1>4, SumIsBalance DEF Summable

\* A sum of naturals is not negative.
LEMMA SumNat ==
    ASSUME NEW f, NEW S, Summable(f, S), \A x \in S : f[x] >= 0
    PROVE  SumFunctionOnSet(f, S) >= 0
<1>1. Cardinality(UnitSteps(f, S)) \in Nat
    BY StepsFinite, FS_CardinalityType DEF Summable
<1>2. UnitSteps(Minus(f), S) = {}
    <2>1. \A x \in S : 1 .. Minus(f)[x] = {}
        BY DEF Minus, Summable
    <2> QED BY <2>1 DEF UnitSteps
<1>3. Cardinality({}) = 0
    BY FS_EmptySet
<1>4. Balance(f, S) >= 0
    BY <1>1, <1>2, <1>3 DEF Balance
<1> QED BY <1>4, SumIsBalance DEF Summable

\* The sum over two disjoint sets.
LEMMA SumDisjoint ==
    ASSUME NEW f, NEW S, NEW T, Summable(f, S), Summable(f, T), S \cap T = {}
    PROVE  /\ Summable(f, S \cup T)
           /\ SumFunctionOnSet(f, S \cup T) = SumFunctionOnSet(f, S) + SumFunctionOnSet(f, T)
<1>1. Summable(f, S \cup T)
    BY FS_Union DEF Summable
<1> DEFINE Splits(g) == Cardinality(UnitSteps(g, S \cup T)) = Cardinality(UnitSteps(g, S))
                                                       + Cardinality(UnitSteps(g, T))
<1>2. ASSUME NEW g, \A x \in S \cup T : g[x] \in Int
      PROVE  /\ Splits(g)
             /\ Cardinality(UnitSteps(g, S)) \in Nat
             /\ Cardinality(UnitSteps(g, T)) \in Nat
    <2>1. IsFiniteSet(UnitSteps(g, S)) /\ IsFiniteSet(UnitSteps(g, T))
        BY <1>2, StepsFinite DEF Summable
    <2>2. UnitSteps(g, S \cup T) = UnitSteps(g, S) \cup UnitSteps(g, T)
        BY DEF UnitSteps
    <2>3. UnitSteps(g, S) \cap UnitSteps(g, T) = {}
        BY DEF UnitSteps
    <2> QED BY <2>1, <2>2, <2>3, CardinalityDisjoint
<1>3. \A x \in S \cup T : f[x] \in Int /\ Minus(f)[x] \in Int
    BY DEF Minus, Summable
<1>4. Balance(f, S \cup T) = Balance(f, S) + Balance(f, T)
    <2> DEFINE a == Cardinality(UnitSteps(f, S))
               b == Cardinality(UnitSteps(f, T))
               c == Cardinality(UnitSteps(Minus(f), S))
               d == Cardinality(UnitSteps(Minus(f), T))
    <2>1. /\ a \in Nat /\ b \in Nat
          /\ Cardinality(UnitSteps(f, S \cup T)) = a + b
        BY <1>2, <1>3
    <2>2. /\ c \in Nat /\ d \in Nat
          /\ Cardinality(UnitSteps(Minus(f), S \cup T)) = c + d
        BY <1>2, <1>3
    <2>3. (a + b) - (c + d) = (a - c) + (b - d)
        <3> HIDE DEF a, b, c, d
        <3> QED BY <2>1, <2>2
    <2> QED BY <2>1, <2>2, <2>3 DEF Balance
<1> QED BY <1>1, <1>4, SumIsBalance DEF Summable

-----------------------------------------------------------------------------
(* Several sums.                                                           *)

\* A sum over a part of a set is one over the set, with zeros elsewhere.
LEMMA SumMask ==
    ASSUME NEW f, NEW g, NEW S, NEW T, IsFiniteSet(S), T \subseteq S, Summable(f, T),
           S \subseteq DOMAIN g,
           \A x \in S : g[x] = IF x \in T THEN f[x] ELSE 0
    PROVE  Summable(g, S) /\ SumFunctionOnSet(g, S) = SumFunctionOnSet(f, T)
<1>1. IsFiniteSet(S \ T)
    BY FS_Subset
<1>2. Summable(g, T) /\ SumFunctionOnSet(g, T) = SumFunctionOnSet(f, T)
    BY SumSame
<1>3. Summable(g, S \ T) /\ SumFunctionOnSet(g, S \ T) = 0
    <2>1. Summable(g, S \ T)
        BY <1>1 DEF Summable
    <2> QED BY <2>1, SumZero
<1>4. /\ Summable(g, T \cup (S \ T))
      /\ SumFunctionOnSet(g, T \cup (S \ T)) =
            SumFunctionOnSet(g, T) + SumFunctionOnSet(g, S \ T)
    BY <1>2, <1>3, SumDisjoint
<1>5. T \cup (S \ T) = S
    OBVIOUS
<1>6. SumFunctionOnSet(f, T) \in Int
    BY SumInt
<1>7. Summable(g, S) /\ SumFunctionOnSet(g, S) = SumFunctionOnSet(g, T) + 0
    <2>1. SumFunctionOnSet(g, T \cup (S \ T)) = SumFunctionOnSet(g, T) + 0
        BY <1>3, <1>4
    <2> QED BY <2>1, <1>4, <1>5
<1> QED BY <1>2, <1>6, <1>7

\* The sum of two functions.
LEMMA SumPlus ==
    ASSUME NEW f, NEW g, NEW h, NEW S, Summable(f, S), Summable(g, S),
           S \subseteq DOMAIN h, \A x \in S : h[x] = f[x] + g[x]
    PROVE  /\ Summable(h, S)
           /\ SumFunctionOnSet(h, S) = SumFunctionOnSet(f, S) + SumFunctionOnSet(g, S)
<1>1. Summable(h, S)
    BY DEF Summable
<1> DEFINE Bad == {T \in SUBSET S : SumFunctionOnSet(h, T)
                                   # SumFunctionOnSet(f, T) + SumFunctionOnSet(g, T)}
<1>2. ASSUME Bad # {} PROVE FALSE
    <2>1. PICK T \in Bad : \A x \in T : T \ {x} \notin Bad
        <3>1. Bad \subseteq SUBSET S
            OBVIOUS
        <3> HIDE DEF Bad
        <3> QED BY <1>2, <3>1, MinimalSubset DEF Summable
    <2>2. Summable(f, T) /\ Summable(g, T) /\ Summable(h, T)
        BY <1>1, FS_Subset DEF Summable
    <2>3. CASE T = {}
        BY <2>1, <2>3, SumEmpty
    <2>4. CASE T # {}
        <3>1. PICK x \in T : TRUE
            BY <2>4
        <3> DEFINE U == T \ {x}
        <3>2. SumFunctionOnSet(h, U) = SumFunctionOnSet(f, U) + SumFunctionOnSet(g, U)
            BY <2>1, <3>1
        <3>3. /\ Summable(f, U) /\ SumFunctionOnSet(f, T) = f[x] + SumFunctionOnSet(f, U)
              /\ Summable(g, U) /\ SumFunctionOnSet(g, T) = g[x] + SumFunctionOnSet(g, U)
              /\ SumFunctionOnSet(h, T) = h[x] + SumFunctionOnSet(h, U)
            BY <2>2, SumRemove
        <3>4. /\ SumFunctionOnSet(f, U) \in Int /\ SumFunctionOnSet(g, U) \in Int
              /\ f[x] \in Int /\ g[x] \in Int /\ h[x] = f[x] + g[x]
            BY <3>3, SumInt DEF Summable
        <3>5. SumFunctionOnSet(h, T) # SumFunctionOnSet(f, T) + SumFunctionOnSet(g, T)
            BY <2>1
        <3> HIDE DEF U
        <3> QED BY <3>2, <3>3, <3>4, <3>5
    <2> QED BY <2>3, <2>4
<1>3. S \notin Bad
    <2> HIDE DEF Bad
    <2> QED BY <1>2
<1> QED BY <1>1, <1>3

\* Smaller values, a smaller sum.
LEMMA SumMonotone ==
    ASSUME NEW f, NEW g, NEW S, Summable(f, S), Summable(g, S), \A x \in S : f[x] <= g[x]
    PROVE  SumFunctionOnSet(f, S) <= SumFunctionOnSet(g, S)
<1> DEFINE h == [x \in S |-> g[x] - f[x]]
<1>1. Summable(h, S) /\ \A x \in S : h[x] >= 0 /\ g[x] = f[x] + h[x]
    BY DEF Summable
<1> HIDE DEF h
<1>2. SumFunctionOnSet(g, S) = SumFunctionOnSet(f, S) + SumFunctionOnSet(h, S)
    BY <1>1, SumPlus DEF Summable
<1>3. SumFunctionOnSet(h, S) >= 0
    BY <1>1, SumNat
<1> QED BY <1>1, <1>2, <1>3, SumInt

\* A part of a sum of naturals is no larger than the sum.
LEMMA SumOfSubset ==
    ASSUME NEW f, NEW S, NEW T, Summable(f, S), T \subseteq S, \A x \in S : f[x] >= 0
    PROVE  Summable(f, T) /\ SumFunctionOnSet(f, T) <= SumFunctionOnSet(f, S)
<1>1. Summable(f, T) /\ Summable(f, S \ T)
    BY FS_Subset DEF Summable
<1>2. SumFunctionOnSet(f, T \cup (S \ T)) = SumFunctionOnSet(f, T) + SumFunctionOnSet(f, S \ T)
    BY <1>1, SumDisjoint
<1>3. T \cup (S \ T) = S
    OBVIOUS
<1>4. SumFunctionOnSet(f, S \ T) >= 0
    BY <1>1, SumNat
<1>5. SumFunctionOnSet(f, S) = SumFunctionOnSet(f, T) + SumFunctionOnSet(f, S \ T)
    BY <1>2, <1>3
<1> QED BY <1>1, <1>4, <1>5, SumInt

\* A constant factor.
LEMMA SumTimes ==
    ASSUME NEW f, NEW h, NEW k \in Int, NEW S, Summable(f, S),
           S \subseteq DOMAIN h, \A x \in S : h[x] = k * f[x]
    PROVE  Summable(h, S) /\ SumFunctionOnSet(h, S) = k * SumFunctionOnSet(f, S)
<1>1. Summable(h, S)
    BY DEF Summable
<1> DEFINE Bad == {T \in SUBSET S : SumFunctionOnSet(h, T) # k * SumFunctionOnSet(f, T)}
<1>2. ASSUME Bad # {} PROVE FALSE
    <2>1. PICK T \in Bad : \A x \in T : T \ {x} \notin Bad
        <3>1. Bad \subseteq SUBSET S
            OBVIOUS
        <3> HIDE DEF Bad
        <3> QED BY <1>2, <3>1, MinimalSubset DEF Summable
    <2>2. Summable(f, T) /\ Summable(h, T)
        BY <1>1, FS_Subset DEF Summable
    <2>3. CASE T = {}
        BY <2>1, <2>3, SumEmpty
    <2>4. CASE T # {}
        <3>1. PICK x \in T : TRUE
            BY <2>4
        <3> DEFINE U == T \ {x}
                   u == SumFunctionOnSet(f, U)
        <3>2. SumFunctionOnSet(h, U) = k * u
            BY <2>1, <3>1
        <3>3. /\ Summable(f, U) /\ SumFunctionOnSet(f, T) = f[x] + u
              /\ SumFunctionOnSet(h, T) = h[x] + SumFunctionOnSet(h, U)
            BY <2>2, SumRemove
        <3>4. u \in Int /\ f[x] \in Int /\ h[x] = k * f[x]
            BY <3>3, SumInt DEF Summable
        <3>5. SumFunctionOnSet(h, T) # k * SumFunctionOnSet(f, T)
            BY <2>1
        <3>6. \A a, b \in Int : k * (a + b) = k * a + k * b
            OBVIOUS
        <3> HIDE DEF U, u
        <3> QED BY <3>2, <3>3, <3>4, <3>5, <3>6
    <2> QED BY <2>3, <2>4
<1>3. S \notin Bad
    <2> HIDE DEF Bad
    <2> QED BY <1>2
<1> QED BY <1>1, <1>3

\* A sum of ones counts.
LEMMA SumOnes ==
    ASSUME NEW f, NEW S, IsFiniteSet(S), S \subseteq DOMAIN f, \A x \in S : f[x] = 1
    PROVE  Summable(f, S) /\ SumFunctionOnSet(f, S) = Cardinality(S)
<1>1. Summable(f, S)
    BY DEF Summable
<1>2. UnitSteps(f, S) = S \X {1}
    BY DEF UnitSteps
<1>3. UnitSteps(Minus(f), S) = {}
    BY DEF UnitSteps, Minus
<1>4. IsFiniteSet({1}) /\ Cardinality({1}) = 1 /\ Cardinality({}) = 0
    BY FS_Singleton, FS_EmptySet
<1>5. Cardinality(S \X {1}) = Cardinality(S) * 1 /\ Cardinality(S) \in Nat
    BY <1>4, FS_Product, FS_CardinalityType
<1>6. Balance(f, S) = Cardinality(S)
    <2> DEFINE c == Cardinality(S)
    <2>1. Cardinality(UnitSteps(f, S)) = c /\ c \in Nat
        BY <1>2, <1>5
    <2>2. Cardinality(UnitSteps(Minus(f), S)) = 0
        BY <1>3, <1>4
    <2> HIDE DEF c
    <2>3. Balance(f, S) = c
        BY <2>1, <2>2 DEF Balance
    <2> QED BY <2>3 DEF c
<1> QED BY <1>1, <1>6, SumIsBalance DEF Summable

\* Rows first or columns first.
LEMMA SumSwap ==
    ASSUME NEW S, IsFiniteSet(S), NEW T, IsFiniteSet(T), NEW f,
           \A x \in S, y \in T : f[x][y] \in Int
    PROVE  SumFunctionOnSet([x \in S |-> SumFunctionOnSet([y \in T |-> f[x][y]], T)], S)
         = SumFunctionOnSet([y \in T |-> SumFunctionOnSet([x \in S |-> f[x][y]], S)], T)
<1> DEFINE row(x) == [y \in T |-> f[x][y]]
           col(y) == [x \in S |-> f[x][y]]
           rows == [x \in S |-> SumFunctionOnSet(row(x), T)]
           cols(R) == [y \in T |-> SumFunctionOnSet(col(y), R)]
           Bad == {R \in SUBSET S : SumFunctionOnSet(rows, R) # SumFunctionOnSet(cols(R), T)}
<1>1. \A x \in S : Summable(row(x), T) /\ rows[x] = SumFunctionOnSet(row(x), T)
    BY DEF Summable
<1>2. \A x \in S : rows[x] \in Int
    <2> HIDE DEF row, rows
    <2> QED BY <1>1, SumInt
<1>3. ASSUME NEW R \in SUBSET S
      PROVE  /\ Summable(rows, R)
             /\ \A y \in T : Summable(col(y), R)
             /\ Summable(cols(R), T)
    <2>1. IsFiniteSet(R)
        BY FS_Subset
    <2>2. \A y \in T : Summable(col(y), R)
        BY <2>1 DEF Summable
    <2>3. \A y \in T : SumFunctionOnSet(col(y), R) \in Int
        <3> HIDE DEF col
        <3> QED BY <2>2, SumInt
    <2>4. Summable(cols(R), T)
        <3> HIDE DEF col
        <3> QED BY <2>3 DEF Summable
    <2>5. Summable(rows, R)
        <3>1. R \subseteq DOMAIN rows
            OBVIOUS
        <3> HIDE DEF rows
        <3> QED BY <2>1, <1>2, <3>1 DEF Summable
    <2> QED BY <2>2, <2>4, <2>5
<1>4. ASSUME Bad # {} PROVE FALSE
    <2>1. PICK R \in Bad : \A x \in R : R \ {x} \notin Bad
        <3>1. Bad \subseteq SUBSET S
            OBVIOUS
        <3> HIDE DEF Bad
        <3> QED BY <1>4, <3>1, MinimalSubset
    <2>2. SumFunctionOnSet(rows, R) # SumFunctionOnSet(cols(R), T) /\ R \in SUBSET S
        <3> HIDE DEF rows, cols
        <3> QED BY <2>1
    <2>3. CASE R = {}
        <3>1. \A y \in T : cols(R)[y] = 0
            <4> HIDE DEF col
            <4> QED BY <2>3, SumEmpty
        <3> HIDE DEF cols, rows, Bad
        <3>2. SumFunctionOnSet(cols(R), T) = 0
            BY <3>1, <1>3, <2>2, SumZero
        <3>3. SumFunctionOnSet(rows, R) = 0
            BY <2>3, SumEmpty
        <3> QED BY <3>2, <3>3, <2>2
    <2>4. CASE R # {}
        <3>1. PICK x \in R : TRUE
            BY <2>4
        <3> DEFINE U == R \ {x}
        <3>2. U \in SUBSET S /\ x \in S
            BY <2>2
        <3>3. SumFunctionOnSet(rows, U) = SumFunctionOnSet(cols(U), T)
            <4> HIDE DEF rows, cols
            <4> QED BY <2>1, <3>1, <3>2
        <3>4. SumFunctionOnSet(rows, R) = rows[x] + SumFunctionOnSet(rows, U)
            <4> HIDE DEF rows
            <4> QED BY <1>3, <2>2, <3>1, SumRemove
        <3>5. \A y \in T : SumFunctionOnSet(col(y), R) = f[x][y] + SumFunctionOnSet(col(y), U)
            <4>1. \A y \in T : col(y)[x] = f[x][y]
                BY <3>2
            <4> HIDE DEF col
            <4>2. \A y \in T : SumFunctionOnSet(col(y), R) = col(y)[x] + SumFunctionOnSet(col(y), U)
                BY <1>3, <2>2, <3>1, SumRemove
            <4> QED BY <4>1, <4>2
        <3>6. \A y \in T : cols(R)[y] = row(x)[y] + cols(U)[y]
            <4> HIDE DEF col
            <4> QED BY <3>5
        <3>7. T \subseteq DOMAIN cols(R)
            OBVIOUS
        <3>8. SumFunctionOnSet(cols(R), T) = SumFunctionOnSet(row(x), T)
                                           + SumFunctionOnSet(cols(U), T)
            <4> DEFINE a == row(x)
                       b == cols(U)
                       h == cols(R)
            <4>1. Summable(a, T) /\ Summable(b, T)
                BY <1>1, <1>3, <3>2
            <4>2. T \subseteq DOMAIN h /\ \A y \in T : h[y] = a[y] + b[y]
                <5> HIDE DEF row, cols
                <5> QED BY <3>6, <3>7
            <4>3. SumFunctionOnSet(h, T) = SumFunctionOnSet(a, T) + SumFunctionOnSet(b, T)
                <5> HIDE DEF a, b, h, U, row, col, rows, cols, Bad
                <5> QED BY <4>1, <4>2, SumPlus
            <4> QED BY <4>3
        <3>9. rows[x] = SumFunctionOnSet(row(x), T)
            BY <1>1, <3>2
        <3> HIDE DEF rows, cols, row, U
        <3> QED BY <3>3, <3>4, <3>8, <3>9, <2>2
    <2> QED BY <2>3, <2>4
<1>5. SumFunctionOnSet(rows, S) = SumFunctionOnSet(cols(S), T)
    <2> HIDE DEF rows, cols
    <2>1. S \notin Bad
        BY <1>4
    <2> QED BY <2>1
<1> QED BY <1>5

=============================================================================
