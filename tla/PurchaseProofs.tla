--------------------------- MODULE PurchaseProofs ---------------------------
(***************************************************************************)
(* Proofs about Entitlements, for any number of rows, and about Checkout,  *)
(* for any number of charges and settlers.                                 *)
(***************************************************************************)
EXTENDS Checkout, Entitlements, Sums

-----------------------------------------------------------------------------
(***************************************************************************)
(* Entitlements.                                                           *)
(***************************************************************************)

\* Priorities are numbers.
LEMMA RankTyped ==
    ASSUME EntitlementTypeOK, NEW i \in DOMAIN granted
    PROVE  /\ i \in Nat /\ Rank(i) \in Nat
           /\ granted[i].owner \in Entities /\ granted[i].value \in Values
<1>1. granted[i] \in [owner : Entities, value : Values] /\ i \in Nat
    <2> DEFINE Row == [owner : Entities, value : Values]
    <2>1. granted \in Seq(Row) /\ i \in 1 .. Len(granted)
        BY DEF EntitlementTypeOK
    <2> HIDE DEF Row
    <2>2. granted[i] \in Row /\ i \in Nat
        BY <2>1
    <2> QED BY <2>2 DEF Row
<1>2. granted[i].owner \in Scopes \/ granted[i].owner \in AddOns
    BY <1>1 DEF Entities
<1>3. Priority(granted[i].owner) \in Nat
    BY <1>2, EntitlementAssumption DEF Priority
<1> QED BY <1>1, <1>3 DEF Rank

\* Rows of one subscription.
Rows(S) == IsFiniteSet(S) /\ \A i \in S : i \in Nat /\ Rank(i) \in Nat

LEMMA ChainRows ==
    ASSUME EntitlementTypeOK
    PROVE  Rows(Chain)
<1>1. IsFiniteSet(1 .. Len(granted))
    <2>1. Len(granted) \in Nat
        BY DEF EntitlementTypeOK
    <2> QED BY <2>1, FS_Interval
<1>2. Chain \subseteq DOMAIN granted /\ DOMAIN granted = 1 .. Len(granted)
    BY DEF Chain, EntitlementTypeOK
<1>3. IsFiniteSet(Chain)
    BY <1>1, <1>2, FS_Subset
<1> QED BY <1>2, <1>3, RankTyped DEF Rows

IsLast(i, S) ==
    i \in S /\ \A k \in S : Rank(k) < Rank(i) \/ (Rank(k) = Rank(i) /\ k <= i)

\* Of some rows one is the last.
LEMMA LastIsLast ==
    ASSUME NEW S, Rows(S), S # {}
    PROVE  IsLast(LastOf(S), S)
<1> DEFINE Bad == {T \in SUBSET S : T # {} /\ ~ \E i \in T : IsLast(i, T)}
<1>1. Bad = {}
    <2> SUFFICES ASSUME Bad # {} PROVE FALSE
        OBVIOUS
    <2>1. PICK T \in Bad : \A x \in T : T \ {x} \notin Bad
        <3>1. Bad \subseteq SUBSET S
            OBVIOUS
        <3> HIDE DEF Bad
        <3> QED BY <3>1, MinimalSubset DEF Rows
    <2>2. PICK x \in T : TRUE
        BY <2>1
    <2>3. T \subseteq S /\ \A i \in T : i \in Nat /\ Rank(i) \in Nat
        BY <2>1 DEF Rows
    <2>4. CASE T \ {x} = {}
        <3>1. IsLast(x, T)
            BY <2>2, <2>3, <2>4 DEF IsLast
        <3> QED BY <2>1, <2>2, <3>1
    <2>5. CASE T \ {x} # {}
        <3>1. PICK z \in T \ {x} : IsLast(z, T \ {x})
            BY <2>1, <2>2, <2>5
        <3>2. IsLast(x, T) \/ IsLast(z, T)
            BY <2>2, <2>3, <3>1 DEF IsLast
        <3> QED BY <2>1, <2>2, <3>1, <3>2
    <2> QED BY <2>4, <2>5
<1>2. \E i \in S : IsLast(i, S)
    BY <1>1
<1> QED BY <1>2 DEF LastOf, IsLast

-----------------------------------------------------------------------------
(* The walk through some rows is well defined: a function on their subsets *)
(* that recurs as the code's loop does.                                    *)

WalkOver(S, g) ==
    [t \in SUBSET S |->
        IF t = {} THEN Nothing
        ELSE MergeEntitlement(granted[LastOf(t)], g[t \ {LastOf(t)}])]

IsWalk(S, g) == g = WalkOver(S, g)

Walk(S) == CHOOSE g : IsWalk(S, g)

LEMMA ResolvedWalks == Resolved = IF active THEN Walk(Chain)[Chain] ELSE Nothing
BY DEF Resolved, MapThenFoldSet, Walk, IsWalk, WalkOver

LEMMA WalkStep ==
    ASSUME NEW S, NEW g, IsWalk(S, g), NEW t \in SUBSET S
    PROVE  g[t] = IF t = {} THEN Nothing
                  ELSE MergeEntitlement(granted[LastOf(t)], g[t \ {LastOf(t)}])
<1>1. WalkOver(S, g)[t] = IF t = {} THEN Nothing
                  ELSE MergeEntitlement(granted[LastOf(t)], g[t \ {LastOf(t)}])
    BY DEF WalkOver
<1> QED BY <1>1 DEF IsWalk

LEMMA RowsSubset ==
    ASSUME NEW S, Rows(S), NEW t \in SUBSET S PROVE Rows(t)
BY FS_Subset DEF Rows

\* Two walks agree on the rows they share.
LEMMA WalksAgree ==
    ASSUME NEW S, NEW T, Rows(S), NEW g, NEW h, IsWalk(S, g), IsWalk(T, h),
           NEW t \in SUBSET (S \cap T)
    PROVE  g[t] = h[t]
<1> DEFINE Bad == {u \in SUBSET (S \cap T) : g[u] # h[u]}
<1> SUFFICES ASSUME Bad # {} PROVE FALSE
    OBVIOUS
<1>1. PICK u \in Bad : \A x \in u : u \ {x} \notin Bad
    <2>1. Bad \subseteq SUBSET S
        OBVIOUS
    <2> HIDE DEF Bad
    <2> QED BY <2>1, MinimalSubset DEF Rows
<1>2. u \in SUBSET S /\ u \in SUBSET T /\ g[u] # h[u]
    BY <1>1
<1>3. u # {}
    BY <1>2, WalkStep
<1>4. LastOf(u) \in u
    BY <1>2, <1>3, RowsSubset, LastIsLast DEF IsLast
<1>5. u \ {LastOf(u)} \in SUBSET (S \cap T) /\ u \ {LastOf(u)} \notin Bad
    BY <1>1, <1>2, <1>4
<1>6. g[u \ {LastOf(u)}] = h[u \ {LastOf(u)}]
    BY <1>5
<1> QED BY <1>2, <1>3, <1>6, WalkStep

\* There is a walk through every finite set of rows.
LEMMA WalkExists ==
    ASSUME NEW S, Rows(S) PROVE IsWalk(S, Walk(S))
<1> DEFINE Bad == {T \in SUBSET S : ~ \E g : IsWalk(T, g)}
<1>1. Bad = {}
    <2> SUFFICES ASSUME Bad # {} PROVE FALSE
        OBVIOUS
    <2>1. PICK T \in Bad : \A x \in T : T \ {x} \notin Bad
        <3>1. Bad \subseteq SUBSET S
            OBVIOUS
        <3> HIDE DEF Bad
        <3> QED BY <3>1, MinimalSubset DEF Rows
    <2>2. T \in SUBSET S /\ ~ \E g : IsWalk(T, g)
        BY <2>1
    <2> HIDE DEF Bad
    \* Every smaller set has a walk, and so have its subsets.
    <2>3. ASSUME NEW t \in SUBSET T, t # T PROVE IsWalk(t, Walk(t))
        <3>1. PICK x \in T : x \notin t
            BY <2>3
        <3>2. PICK g : IsWalk(T \ {x}, g)
            BY <2>1, <2>2, <3>1 DEF Bad
        <3> DEFINE h == [u \in SUBSET t |-> g[u]]
        <3>3. ASSUME NEW u \in SUBSET t PROVE h[u] = WalkOver(t, h)[u]
            <4>1. u \in SUBSET (T \ {x})
                BY <3>1, <3>3
            <4>2. g[u] = IF u = {} THEN Nothing
                         ELSE MergeEntitlement(granted[LastOf(u)], g[u \ {LastOf(u)}])
                BY <3>2, <4>1, WalkStep
            <4>3. h[u] = g[u] /\ h[u \ {LastOf(u)}] = g[u \ {LastOf(u)}]
                OBVIOUS
            <4> HIDE DEF h
            <4>4. WalkOver(t, h)[u] = IF u = {} THEN Nothing
                         ELSE MergeEntitlement(granted[LastOf(u)], h[u \ {LastOf(u)}])
                BY DEF WalkOver
            <4> QED BY <4>2, <4>3, <4>4
        <3>4. h = WalkOver(t, h)
            <4>1. h = [u \in SUBSET t |-> h[u]]
                OBVIOUS
            <4> HIDE DEF h
            <4>2. WalkOver(t, h) = [u \in SUBSET t |-> WalkOver(t, h)[u]]
                BY DEF WalkOver
            <4> QED BY <3>3, <4>1, <4>2
        <3> HIDE DEF h
        <3>5. IsWalk(t, h)
            BY <3>4 DEF IsWalk
        <3> QED BY <3>5 DEF Walk
    <2> DEFINE Below(u) == Walk(u)[u]
               whole == [u \in SUBSET T |->
                            IF u = {} THEN Nothing
                            ELSE MergeEntitlement(granted[LastOf(u)], Below(u \ {LastOf(u)}))]
    <2>4. ASSUME NEW u \in SUBSET T PROVE whole[u] = WalkOver(T, whole)[u]
        <3>1. CASE u = {}
            BY <3>1 DEF WalkOver
        <3>2. CASE u # {}
            <4> DEFINE l == LastOf(u)
            <4>1. l \in u
                BY <2>2, <3>2, RowsSubset, LastIsLast DEF IsLast
            <4> HIDE DEF l
            <4>2. u \ {l} \in SUBSET T /\ u \ {l} # T
                BY <4>1
            <4>3. IsWalk(u \ {l}, Walk(u \ {l}))
                BY <2>3, <4>2
            <4>4. Walk(u \ {l})[u \ {l}]
                    = IF u \ {l} = {} THEN Nothing
                      ELSE MergeEntitlement(granted[LastOf(u \ {l})],
                                            Walk(u \ {l})[(u \ {l}) \ {LastOf(u \ {l})}])
                <5> DEFINE v == u \ {l}
                <5>1. IsWalk(v, Walk(v)) /\ v \in SUBSET v
                    BY <4>3
                <5> HIDE DEF v
                <5>2. Walk(v)[v] = IF v = {} THEN Nothing
                                   ELSE MergeEntitlement(granted[LastOf(v)],
                                                         Walk(v)[v \ {LastOf(v)}])
                    BY <5>1, WalkStep
                <5> QED BY <5>2 DEF v
            <4>5. whole[u \ {l}] = Below(u \ {l})
                <5>1. CASE u \ {l} = {}
                    BY <4>2, <4>4, <5>1
                <5>2. CASE u \ {l} # {}
                    <6> DEFINE v == u \ {l}
                               m == LastOf(v)
                    <6>1. m \in v /\ v \in SUBSET T
                        BY <2>2, <4>2, <5>2, RowsSubset, LastIsLast DEF IsLast
                    <6> HIDE DEF m
                    <6>2. v \ {m} \in SUBSET (v \cap (v \ {m})) /\ v \ {m} \in SUBSET T
                          /\ v \ {m} # T
                        BY <6>1
                    <6>3. IsWalk(v \ {m}, Walk(v \ {m}))
                        BY <2>3, <6>2
                    <6>4. Rows(v)
                        BY <2>2, <6>1, RowsSubset
                    <6> HIDE DEF v
                    <6>5. Walk(v)[v \ {m}] = Walk(v \ {m})[v \ {m}]
                        BY <4>3, <6>2, <6>3, <6>4, WalksAgree DEF v
                    <6>6. Walk(v)[v] = MergeEntitlement(granted[m], Walk(v)[v \ {m}])
                        BY <4>4, <5>2 DEF v, m
                    <6>7. whole[v] = MergeEntitlement(granted[m], Below(v \ {m}))
                        BY <5>2, <6>1 DEF v, m
                    <6> QED BY <6>5, <6>6, <6>7 DEF v
                <5> QED BY <5>1, <5>2
            <4>6. whole[u] = MergeEntitlement(granted[l], Below(u \ {l}))
                BY <3>2 DEF l
            <4> HIDE DEF whole
            <4>7. WalkOver(T, whole)[u] = MergeEntitlement(granted[l], whole[u \ {l}])
                BY <3>2 DEF WalkOver, l
            <4> QED BY <4>5, <4>6, <4>7
        <3> QED BY <3>1, <3>2
    <2>5. whole = WalkOver(T, whole)
        <3>1. whole = [u \in SUBSET T |-> whole[u]]
            OBVIOUS
        <3> HIDE DEF whole
        <3>2. WalkOver(T, whole) = [u \in SUBSET T |-> WalkOver(T, whole)[u]]
            BY DEF WalkOver
        <3> QED BY <2>4, <3>1, <3>2
    <2> HIDE DEF whole
    <2> QED BY <2>2, <2>5 DEF IsWalk
<1>2. \E g : IsWalk(S, g)
    BY <1>1
<1> QED BY <1>2 DEF Walk

-----------------------------------------------------------------------------
(* What some rows resolve to.                                              *)

Value(i) == granted[i].value

\* Those of the highest priority, and the multi-instance add-ons among them.
Top(t) == {i \in t : \A k \in t : Rank(k) <= Rank(i)}
Stacked(t) == {i \in Top(t) : granted[i].owner \in multiple}

Limits == [i \in Chain |-> Value(i).limit]

EntryTyped(a) ==
    /\ a = [priority |-> a.priority, origin |-> a.origin, value |-> a.value]
    /\ a.value.limit \in Nat \cup {Unlimited}
    /\ a.value.warning \in Nat \cup {Unset}
    /\ a.value.enabled \in BOOLEAN

\* The limit and the threshold.
LimitSums(t, a) ==
    Stacked(t) = Top(t) /\ (\A i \in Top(t) : Value(i).limit # Unlimited) =>
        a.value.limit = SumFunctionOnSet(Limits, Top(t))

LimitIsLargest(t, a) ==
    Stacked(t) = {} =>
        \E i \in Top(t) : granted[i].owner = a.origin /\ Value(i).limit = a.value.limit

WarnsFirst(t, a) ==
    Stacked(t) = {} =>
        \A i \in Top(t) : Value(i).warning # Unset =>
            a.value.warning # Unset /\ a.value.warning <= Value(i).warning

EntryOf(t, a) ==
    /\ EntryTyped(a)
    /\ \A i \in Top(t) : Rank(i) = a.priority
    /\ a.origin \in {granted[i].owner : i \in Top(t)}
    /\ a.value.enabled = \E i \in Top(t) : Value(i).enabled
    /\ \A i \in Top(t) : AtLeast(a.value.limit, Value(i).limit)
    /\ LimitSums(t, a) /\ LimitIsLargest(t, a) /\ WarnsFirst(t, a)

\* What a row of the chain grants.
Granting(i) ==
    /\ i \in Chain /\ Rank(i) \in Nat
    /\ Value(i).limit \in Nat \cup {Unlimited}
    /\ Value(i).warning \in Nat \cup {Unset}
    /\ Value(i).enabled \in BOOLEAN

LEMMA NullsAreNoNumbers ==
    Unlimited \notin Nat /\ Unset \notin Nat
BY EntitlementAssumption

LEMMA ChainGrants ==
    ASSUME EntitlementTypeOK, NEW i \in Chain
    PROVE  Granting(i)
BY RankTyped, EntitlementAssumption DEF Granting, Chain, Value

\* The sum over the rows that stack.
LEMMA StackSums ==
    ASSUME NEW t, IsFiniteSet(t), NEW x, x \notin t,
           \A i \in t \cup {x} : Granting(i) /\ Value(i).limit # Unlimited
    PROVE  /\ SumFunctionOnSet(Limits, t) \in Nat
           /\ SumFunctionOnSet(Limits, t \cup {x})
                = Value(x).limit + SumFunctionOnSet(Limits, t)
           /\ SumFunctionOnSet(Limits, {x}) = Value(x).limit
<1>1. \A i \in t \cup {x} : i \in DOMAIN Limits /\ Limits[i] = Value(i).limit
                             /\ Limits[i] \in Nat
    BY DEF Limits, Granting
<1>2. Summable(Limits, t) /\ Summable(Limits, {})
    BY <1>1, FS_EmptySet DEF Summable
<1>3. /\ SumFunctionOnSet(Limits, t \cup {x}) = Limits[x] + SumFunctionOnSet(Limits, t)
      /\ SumFunctionOnSet(Limits, {} \cup {x}) = Limits[x] + SumFunctionOnSet(Limits, {})
    BY <1>1, <1>2, SumAdd
<1>4. SumFunctionOnSet(Limits, t) \in Nat /\ SumFunctionOnSet(Limits, {}) = 0
    <2>1. SumFunctionOnSet(Limits, t) >= 0
        BY <1>1, <1>2, SumNat
    <2> QED BY <1>2, <2>1, SumInt, SumEmpty
<1>5. Limits[x] \in Int /\ Limits[x] = Value(x).limit /\ {} \cup {x} = {x}
    BY <1>1
<1> QED BY <1>3, <1>4, <1>5

\* A row that comes first, or with a higher priority, counts alone.
LEMMA FirstOfRank ==
    ASSUME NEW t, IsFiniteSet(t), NEW x \in t, \A i \in t : Granting(i), Top(t) = {x},
           NEW a, a = [priority |-> Rank(x), origin |-> granted[x].owner, value |-> Value(x)]
    PROVE  EntryOf(t, a)
<1>1. /\ a.priority = Rank(x) /\ a.origin = granted[x].owner /\ a.value = Value(x)
      /\ Granting(x)
    OBVIOUS
<1>2. EntryTyped(a)
    BY <1>1 DEF EntryTyped, Granting
<1>3. LimitSums(t, a)
    <2>1. ASSUME Value(x).limit # Unlimited
          PROVE  SumFunctionOnSet(Limits, {x}) = Value(x).limit
        <3>1. \A i \in {} \cup {x} : Granting(i) /\ Value(i).limit # Unlimited
            BY <1>1, <2>1
        <3> QED BY <3>1, FS_EmptySet, StackSums
    <2> QED BY <1>1, <2>1 DEF LimitSums
<1>4. LimitIsLargest(t, a)
    BY <1>1 DEF LimitIsLargest
<1>5. WarnsFirst(t, a)
    BY <1>1 DEF WarnsFirst, Granting
<1>6. AtLeast(a.value.limit, Value(x).limit)
    BY <1>1 DEF AtLeast, Granting
<1>7. a.value.enabled = \E i \in Top(t) : Value(i).enabled
    BY <1>1 DEF Granting
<1> QED BY <1>1, <1>2, <1>3, <1>4, <1>5, <1>6, <1>7 DEF EntryOf

\* A multi-instance add-on is added to those of its priority.
LEMMA AddedToRank ==
    ASSUME NEW t, IsFiniteSet(t), NEW x \in t, \A i \in t : Granting(i),
           Top(t) = Top(t \ {x}) \cup {x}, granted[x].owner \in multiple,
           NEW b, EntryOf(t \ {x}, b), b.priority = Rank(x),
           NEW a, a = [b EXCEPT !.value = MergeAdditive(@, Value(x))]
    PROVE  EntryOf(t, a)
<1> DEFINE u == t \ {x}
           v == MergeAdditive(b.value, Value(x))
<1>1. /\ EntryTyped(b) /\ Granting(x) /\ x \notin u
      /\ b = [priority |-> b.priority, origin |-> b.origin, value |-> b.value]
    BY DEF EntryOf, EntryTyped
<1>2. a = [priority |-> b.priority, origin |-> b.origin, value |-> v]
    BY <1>1
<1>3. a.priority = b.priority /\ a.origin = b.origin /\ a.value = v
    BY <1>2
<1>4. /\ v.limit = (IF Unlimited \in {b.value.limit, Value(x).limit} THEN Unlimited
                    ELSE b.value.limit + Value(x).limit)
      /\ v.warning = (IF Value(x).warning = Unset THEN b.value.warning ELSE Value(x).warning)
      /\ v.enabled = (b.value.enabled \/ Value(x).enabled)
    BY DEF MergeAdditive
<1> HIDE DEF v
<1>5. EntryTyped(a)
    <2>1. v.limit \in Nat \cup {Unlimited}
        BY <1>1, <1>4 DEF EntryTyped, Granting
    <2>2. v.warning \in Nat \cup {Unset}
        BY <1>1, <1>4 DEF EntryTyped, Granting
    <2>3. v.enabled \in BOOLEAN
        BY <1>1, <1>4 DEF EntryTyped, Granting
    <2> QED BY <1>2, <1>3, <2>1, <2>2, <2>3 DEF EntryTyped
<1>6. \A i \in Top(t) : Rank(i) = a.priority
    BY <1>3 DEF EntryOf
<1>7. a.origin \in {granted[i].owner : i \in Top(t)}
    BY <1>3 DEF EntryOf
<1>8. a.value.enabled = \E i \in Top(t) : Value(i).enabled
    BY <1>3, <1>4 DEF EntryOf
<1>9. \A i \in Top(t) : AtLeast(a.value.limit, Value(i).limit)
    <2> SUFFICES ASSUME NEW i \in Top(t) PROVE AtLeast(v.limit, Value(i).limit)
        BY <1>3
    <2>1. Granting(i) /\ (i = x \/ i \in Top(u))
        BY DEF Top
    <2>2. CASE i = x
        BY <1>1, <1>4, <2>2 DEF AtLeast, EntryTyped, Granting
    <2>3. CASE i \in Top(u)
        <3>1. AtLeast(b.value.limit, Value(i).limit)
            BY <2>3 DEF EntryOf
        <3> QED BY <1>1, <1>4, <2>1, <3>1 DEF AtLeast, EntryTyped, Granting
    <2> QED BY <2>1, <2>2, <2>3
<1>10. LimitSums(t, a)
    <2> SUFFICES ASSUME Stacked(t) = Top(t), \A i \in Top(t) : Value(i).limit # Unlimited
                 PROVE  v.limit = SumFunctionOnSet(Limits, Top(t))
        BY <1>3 DEF LimitSums
    <2>1. Stacked(u) = Top(u)
        BY DEF Stacked
    <2>2. b.value.limit = SumFunctionOnSet(Limits, Top(u))
        BY <2>1 DEF EntryOf, LimitSums
    <2>3. IsFiniteSet(Top(u)) /\ x \notin Top(u) /\ \A i \in Top(u) \cup {x} : Granting(i)
        <3>1. Top(u) \subseteq t
            BY DEF Top
        <3> QED BY <3>1, FS_Subset DEF Top
    <2>4. /\ SumFunctionOnSet(Limits, Top(u)) \in Nat
          /\ SumFunctionOnSet(Limits, Top(t)) = Value(x).limit + SumFunctionOnSet(Limits, Top(u))
        BY <2>3, StackSums
    <2>5. b.value.limit \in Nat /\ b.value.limit # Unlimited /\ Value(x).limit \in Nat
          /\ Value(x).limit # Unlimited
        <3>1. Value(x).limit \in Nat /\ Value(x).limit # Unlimited
            BY <1>1 DEF Granting
        <3>2. b.value.limit # Unlimited
            BY <2>2, <2>4, NullsAreNoNumbers
        <3> QED BY <1>1, <3>1, <3>2 DEF EntryTyped
    <2> QED BY <1>4, <2>2, <2>4, <2>5
<1>11. LimitIsLargest(t, a) /\ WarnsFirst(t, a)
    <2>1. x \in Stacked(t)
        BY DEF Stacked
    <2> QED BY <2>1 DEF LimitIsLargest, WarnsFirst
<1> QED BY <1>5, <1>6, <1>7, <1>8, <1>9, <1>10, <1>11 DEF EntryOf

\* Every other row is merged with those of its priority.
LEMMA MergedIntoRank ==
    ASSUME NEW t, IsFiniteSet(t), NEW x \in t, \A i \in t : Granting(i),
           Top(t) = Top(t \ {x}) \cup {x}, granted[x].owner \notin multiple,
           NEW b, EntryOf(t \ {x}, b), b.priority = Rank(x),
           NEW a, a = [priority |-> Rank(x),
                       origin |-> IF Dominates(b.value, Value(x)) THEN b.origin
                                  ELSE granted[x].owner,
                       value |-> MergePermissive(b.value, Value(x))]
    PROVE  EntryOf(t, a)
<1> DEFINE u == t \ {x}
           v == MergePermissive(b.value, Value(x))
<1>1. EntryTyped(b) /\ Granting(x) /\ x \notin u
    BY DEF EntryOf
<1>2. /\ a.priority = Rank(x) /\ a.value = v
      /\ a.origin = IF Dominates(b.value, Value(x)) THEN b.origin ELSE granted[x].owner
      /\ a = [priority |-> a.priority, origin |-> a.origin, value |-> a.value]
    OBVIOUS
<1>3. /\ v.limit = LargerLimit(b.value.limit, Value(x).limit)
      /\ v.warning = (IF b.value.warning = Unset THEN Value(x).warning
                      ELSE IF Value(x).warning = Unset \/ b.value.warning <= Value(x).warning
                           THEN b.value.warning ELSE Value(x).warning)
      /\ v.enabled = (b.value.enabled \/ Value(x).enabled)
    BY DEF MergePermissive
<1> HIDE DEF v
<1>4. /\ b.value.limit \in Nat \cup {Unlimited} /\ Value(x).limit \in Nat \cup {Unlimited}
      /\ b.value.warning \in Nat \cup {Unset} /\ Value(x).warning \in Nat \cup {Unset}
      /\ Unlimited \notin Nat /\ Unset \notin Nat
    BY <1>1, NullsAreNoNumbers DEF EntryTyped, Granting
\* The larger limit is at least both, and one of them, as Dominates tells.
<1>5. /\ v.limit \in Nat \cup {Unlimited}
      /\ AtLeast(v.limit, Value(x).limit)
      /\ Dominates(b.value, Value(x)) => v.limit = b.value.limit
      /\ ~Dominates(b.value, Value(x)) => v.limit = Value(x).limit
    BY <1>3, <1>4 DEF LargerLimit, AtLeast, Dominates
<1>6. EntryTyped(a)
    <2>1. v.warning \in Nat \cup {Unset}
        BY <1>3, <1>4
    <2>2. v.enabled \in BOOLEAN
        BY <1>1, <1>3 DEF EntryTyped, Granting
    <2> QED BY <1>2, <1>5, <2>1, <2>2 DEF EntryTyped
<1>7. \A i \in Top(t) : Rank(i) = a.priority
    BY <1>2 DEF EntryOf
<1>8. a.origin \in {granted[i].owner : i \in Top(t)}
    BY <1>2 DEF EntryOf
<1>9. a.value.enabled = \E i \in Top(t) : Value(i).enabled
    BY <1>2, <1>3 DEF EntryOf
<1>10. \A i \in Top(t) : AtLeast(a.value.limit, Value(i).limit)
    <2> SUFFICES ASSUME NEW i \in Top(u) PROVE AtLeast(v.limit, Value(i).limit)
        BY <1>2, <1>5
    <2>1. AtLeast(b.value.limit, Value(i).limit) /\ Granting(i)
        BY DEF EntryOf, Top
    <2>2. AtLeast(v.limit, b.value.limit)
        BY <1>3, <1>4 DEF LargerLimit, AtLeast
    <2> QED BY <1>4, <1>5, <2>1, <2>2 DEF AtLeast, Granting
<1>11. x \in Top(t) /\ x \notin Stacked(t)
    BY DEF Stacked
<1>12. LimitSums(t, a)
    BY <1>11 DEF LimitSums
<1>13. ASSUME Stacked(t) = {}
       PROVE  Stacked(u) = {}
    BY <1>13 DEF Stacked
<1>14. LimitIsLargest(t, a)
    <2> SUFFICES ASSUME Stacked(t) = {}
                 PROVE  \E i \in Top(t) : /\ granted[i].owner = a.origin
                                          /\ Value(i).limit = a.value.limit
        BY DEF LimitIsLargest
    <2>1. CASE Dominates(b.value, Value(x))
        <3>1. PICK i \in Top(u) : granted[i].owner = b.origin /\ Value(i).limit = b.value.limit
            BY <1>13 DEF EntryOf, LimitIsLargest
        <3> QED BY <1>2, <1>5, <2>1, <3>1
    <2>2. CASE ~Dominates(b.value, Value(x))
        BY <1>2, <1>5, <1>11, <2>2
    <2> QED BY <2>1, <2>2
<1>15. WarnsFirst(t, a)
    <2> SUFFICES ASSUME Stacked(t) = {}, NEW i \in Top(t), Value(i).warning # Unset
                 PROVE  v.warning # Unset /\ v.warning <= Value(i).warning
        BY <1>2 DEF WarnsFirst
    <2>1. CASE i = x
        BY <1>3, <1>4, <2>1
    <2>2. CASE i \in Top(u)
        <3>1. b.value.warning # Unset /\ b.value.warning <= Value(i).warning /\ Granting(i)
            BY <1>13, <2>2 DEF EntryOf, WarnsFirst, Top
        <3> QED BY <1>3, <1>4, <3>1 DEF Granting
    <2> QED BY <2>1, <2>2
<1> QED BY <1>6, <1>7, <1>8, <1>9, <1>10, <1>12, <1>14, <1>15 DEF EntryOf

\* The walk through some rows of the chain ends with their entry.
LEMMA WalkResolves ==
    ASSUME NEW S, Rows(S), \A i \in S : Granting(i), S # {}
    PROVE  EntryOf(S, Walk(S)[S])
<1> DEFINE Bad == {t \in SUBSET S : t # {} /\ ~EntryOf(t, Walk(S)[t])}
<1> SUFFICES ASSUME Bad # {} PROVE FALSE
    OBVIOUS
<1>1. PICK t \in Bad : \A x \in t : t \ {x} \notin Bad
    <2>1. Bad \subseteq SUBSET S
        OBVIOUS
    <2> HIDE DEF Bad
    <2> QED BY <2>1, MinimalSubset DEF Rows
<1>2. t \in SUBSET S /\ t # {} /\ ~EntryOf(t, Walk(S)[t])
    BY <1>1
<1>3. \A x \in t : t \ {x} # {} => EntryOf(t \ {x}, Walk(S)[t \ {x}])
    BY <1>1, <1>2
<1> HIDE DEF Bad
<1> DEFINE x == LastOf(t)
           u == t \ {x}
           b == Walk(S)[u]
           a == Walk(S)[t]
           alone == [priority |-> Rank(x), origin |-> granted[x].owner, value |-> Value(x)]
<1>4. IsLast(x, t) /\ IsFiniteSet(t) /\ \A i \in t : Granting(i)
    BY <1>2, RowsSubset, LastIsLast DEF Rows
<1>5. x \in t /\ \A k \in t : Rank(k) <= Rank(x) /\ Rank(k) \in Nat
    BY <1>4 DEF IsLast, Granting
<1>6. a = MergeEntitlement(granted[x], b)
    BY <1>2, WalkExists, WalkStep
<1>7. Nothing.priority = -1 /\ (u = {} => b = Nothing)
    BY WalkExists, WalkStep DEF Nothing
<1> HIDE DEF x, u, a, b
<1>8. CASE u = {} \/ b.priority # Rank(x)
    <2>1. b.priority # Rank(x)
        BY <1>5, <1>7, <1>8
    <2>2. a = alone
        BY <1>6, <2>1 DEF MergeEntitlement, Rank, Value
    <2>3. Top(t) = {x}
        <3>1. ASSUME NEW i \in Top(t), i # x PROVE FALSE
            <4>1. i \in u /\ Rank(i) = Rank(x)
                BY <1>5, <3>1 DEF Top, u
            <4>2. i \in Top(u) /\ EntryOf(u, b)
                BY <1>3, <1>5, <3>1, <4>1 DEF Top, u, b
            <4>3. Rank(i) = b.priority
                BY <4>2 DEF EntryOf
            <4> QED BY <2>1, <4>1, <4>3
        <3>2. x \in Top(t)
            BY <1>5 DEF Top
        <3> QED BY <3>1, <3>2
    <2> HIDE DEF alone
    <2>4. EntryOf(t, a)
        BY <1>4, <1>5, <2>2, <2>3, FirstOfRank DEF alone
    <2> QED BY <1>2, <2>4 DEF a
<1>9. CASE u # {} /\ b.priority = Rank(x)
    <2>1. EntryOf(u, b)
        BY <1>3, <1>5, <1>9 DEF u, b
    <2>2. Top(t) = Top(u) \cup {x}
        <3>1. ASSUME NEW i \in Top(t), i # x PROVE i \in Top(u)
            BY <3>1 DEF Top, u
        <3>2. ASSUME NEW i \in Top(u) PROVE i \in Top(t)
            <4>1. Rank(i) = Rank(x) /\ i \in t
                BY <1>9, <2>1, <3>2 DEF EntryOf, Top, u
            <4> QED BY <1>5, <4>1 DEF Top
        <3>3. x \in Top(t)
            BY <1>5 DEF Top
        <3> QED BY <3>1, <3>2, <3>3
    <2>3. CASE granted[x].owner \in multiple
        <3>1. a = [b EXCEPT !.value = MergeAdditive(@, Value(x))]
            BY <1>6, <1>9, <2>3 DEF MergeEntitlement, Rank, Value
        <3>2. EntryOf(t, a)
            BY <1>4, <1>5, <1>9, <2>1, <2>2, <2>3, <3>1, AddedToRank DEF u
        <3> QED BY <1>2, <3>2 DEF a
    <2>4. CASE granted[x].owner \notin multiple
        <3>1. a = [priority |-> Rank(x),
                   origin |-> IF Dominates(b.value, Value(x)) THEN b.origin
                              ELSE granted[x].owner,
                   value |-> MergePermissive(b.value, Value(x))]
            BY <1>6, <1>9, <2>4 DEF MergeEntitlement, Rank, Value
        <3>2. EntryOf(t, a)
            BY <1>4, <1>5, <1>9, <2>1, <2>2, <2>4, <3>1, MergedIntoRank DEF u
        <3> QED BY <1>2, <3>2 DEF a
    <2> QED BY <2>3, <2>4
<1> QED BY <1>8, <1>9

\* Whatever is granted, what it resolves to is what the documentation says.
LEMMA TypedResolves ==
    ASSUME EntitlementTypeOK PROVE ResolvesAsDocumented
<1> DEFINE a == Walk(Chain)[Chain]
<1>1. Rows(Chain) /\ (\A i \in Chain : Granting(i)) /\ TopRows = Top(Chain)
    BY ChainRows, ChainGrants DEF TopRows, Top
<1>2. Resolved = IF active THEN a ELSE Nothing
    BY ResolvedWalks
<1>3. CASE Chain = {}
    <2>1. a = Nothing /\ TopRows = {}
        BY <1>1, <1>3, WalkExists, WalkStep DEF TopRows
    <2> QED BY <1>2, <2>1 DEF ResolvesAsDocumented
<1>4. CASE Chain # {}
    <2>1. EntryOf(Chain, a) /\ Top(Chain) # {}
        <3>1. EntryOf(Chain, a)
            BY <1>1, <1>4, WalkResolves
        <3> QED BY <3>1 DEF EntryOf
    <2> HIDE DEF a
    <2>2. CASE ~active
        BY <1>2, <2>2 DEF ResolvesAsDocumented
    <2>3. CASE active
        <3>1. Resolved = a
            BY <1>2, <2>3
        <3> QED BY <1>1, <2>1, <2>3, <3>1
                DEF ResolvesAsDocumented, EntryOf, LimitSums, LimitIsLargest, WarnsFirst,
                    Limits, Value, Stacked
    <2> QED BY <2>2, <2>3
<1> QED BY <1>3, <1>4

-----------------------------------------------------------------------------
(* The rows keep their type and their owners.                              *)

GrantRow == [owner : Entities, value : Values]

LEMMA RowRemoved ==
    ASSUME NEW s \in Seq(GrantRow), NEW i \in DOMAIN s
    PROVE  /\ RemoveAt(s, i) \in Seq(GrantRow)
           /\ DOMAIN RemoveAt(s, i) = 1 .. Len(s) - 1
           /\ \A j \in 1 .. Len(s) - 1 :
                RemoveAt(s, i)[j] = IF j < i THEN s[j] ELSE s[j + 1]
<1> DEFINE before == SubSeq(s, 1, i - 1)
           after == SubSeq(s, i + 1, Len(s))
<1>1. i \in Int /\ 1 <= i /\ i <= Len(s) /\ Len(s) \in Nat
    OBVIOUS
<1>2. /\ before \in Seq(GrantRow) /\ Len(before) = i - 1
      /\ \A j \in 1 .. i - 1 : before[j] = s[j]
    BY <1>1
<1>3. /\ after \in Seq(GrantRow) /\ Len(after) = Len(s) - i
      /\ \A j \in 1 .. Len(s) - i : after[j] = s[j + i]
    BY <1>1
<1>4. RemoveAt(s, i) = before \o after
    BY DEF RemoveAt
<1> HIDE DEF before, after
<1>5. /\ before \o after \in Seq(GrantRow) /\ Len(before \o after) = Len(before) + Len(after)
      /\ \A j \in 1 .. Len(before) + Len(after) :
            (before \o after)[j] = IF j <= Len(before) THEN before[j] ELSE after[j - Len(before)]
    <2>1. before \in Seq(GrantRow) /\ after \in Seq(GrantRow)
        BY <1>2, <1>3
    <2> QED BY <2>1
<1>6. Len(before) + Len(after) = Len(s) - 1
    BY <1>1, <1>2, <1>3
<1>7. ASSUME NEW j \in Int, 1 <= j, j <= Len(s) - 1
      PROVE  (before \o after)[j] = IF j < i THEN s[j] ELSE s[j + 1]
    <2>0. (before \o after)[j] = IF j <= Len(before) THEN before[j] ELSE after[j - Len(before)]
        BY <1>1, <1>5, <1>6, <1>7
    <2>1. CASE j < i
        <3>1. j \in 1 .. i - 1 /\ j <= i - 1
            BY <1>1, <1>7, <2>1
        <3> QED BY <1>2, <2>0, <2>1, <3>1
    <2>2. CASE ~(j < i)
        <3>1. ~(j <= i - 1) /\ j - (i - 1) \in 1 .. Len(s) - i
              /\ (j - (i - 1)) + i = j + 1
            BY <1>1, <1>7, <2>2
        <3>2. after[j - (i - 1)] = s[(j - (i - 1)) + i]
            BY <1>3, <3>1
        <3> QED BY <1>2, <2>0, <2>2, <3>1, <3>2
    <2> QED BY <2>1, <2>2
<1>8. DOMAIN (before \o after) = 1 .. Len(s) - 1
    BY <1>1, <1>5, <1>6
<1> QED BY <1>1, <1>4, <1>5, <1>7, <1>8

\* Owners that differ.
Apart(s) == \A i, k \in DOMAIN s : s[i].owner = s[k].owner => i = k

LEMMA GrantsTyped ==
    EntitlementTypeOK <=> /\ granted \in Seq(GrantRow) /\ Apart(granted)
                          /\ attached \subseteq AddOns /\ multiple \subseteq AddOns
                          /\ active \in BOOLEAN
BY DEF EntitlementTypeOK, GrantRow, Apart

\* Every operation keeps the types.
LEMMA EntitlementStep ==
    ASSUME EntitlementTypeOK, EntitlementNext PROVE EntitlementTypeOK'
<1>1. /\ granted \in Seq(GrantRow) /\ Apart(granted)
      /\ attached \subseteq AddOns /\ multiple \subseteq AddOns /\ active \in BOOLEAN
    BY GrantsTyped
<1>2. SUFFICES /\ granted' \in Seq(GrantRow) /\ Apart(granted')
               /\ attached' \subseteq AddOns /\ multiple' \subseteq AddOns
               /\ active' \in BOOLEAN
    BY DEF EntitlementTypeOK, GrantRow, Apart
<1>3. ASSUME NEW e \in Entities, NEW v \in Values, CreateEntitlement(e, v)
      PROVE  granted' \in Seq(GrantRow) /\ Apart(granted')
    <2> DEFINE row == [owner |-> e, value |-> v]
    <2>1. row \in GrantRow /\ row.owner = e /\ granted' = Append(granted, row)
        BY <1>3 DEF GrantRow, CreateEntitlement
    <2>2. \A i \in DOMAIN granted : granted[i].owner # e
        BY <1>3 DEF CreateEntitlement
    <2> HIDE DEF row
    <2>3. /\ granted' \in Seq(GrantRow) /\ Len(granted') = Len(granted) + 1
          /\ granted'[Len(granted) + 1] = row
          /\ \A i \in 1 .. Len(granted) : granted'[i] = granted[i]
        BY <1>1, <2>1
    <2>4. ASSUME NEW i \in DOMAIN granted', NEW k \in DOMAIN granted',
                 granted'[i].owner = granted'[k].owner
          PROVE  i = k
        <3>1. /\ i \in 1 .. Len(granted) \/ i = Len(granted) + 1
              /\ k \in 1 .. Len(granted) \/ k = Len(granted) + 1
              /\ DOMAIN granted = 1 .. Len(granted)
            BY <1>1, <2>3
        <3> QED BY <1>1, <2>1, <2>2, <2>3, <2>4, <3>1 DEF Apart
    <2> QED BY <2>3, <2>4 DEF Apart
<1>4. ASSUME NEW i \in DOMAIN granted, NEW v \in Values, UpdateEntitlement(i, v)
      PROVE  granted' \in Seq(GrantRow) /\ Apart(granted')
    <2>1. granted[i] \in GrantRow
        BY <1>1
    <2> DEFINE row == [granted[i] EXCEPT !.value = v]
    <2>2. row \in GrantRow /\ row.owner = granted[i].owner
        BY <2>1 DEF GrantRow
    <2>3. granted' = [granted EXCEPT ![i] = row]
        BY <1>4 DEF UpdateEntitlement
    <2> HIDE DEF row
    <2>4. granted' \in Seq(GrantRow) /\ DOMAIN granted' = DOMAIN granted
        BY <1>1, <2>2, <2>3
    <2>5. \A k \in DOMAIN granted : granted'[k].owner = granted[k].owner
        BY <2>2, <2>3
    <2> QED BY <1>1, <2>4, <2>5 DEF Apart
<1>5. ASSUME NEW i \in DOMAIN granted, DeleteEntitlement(i)
      PROVE  granted' \in Seq(GrantRow) /\ Apart(granted')
    <2>1. granted' = RemoveAt(granted, i)
        BY <1>5 DEF DeleteEntitlement
    <2>2. /\ granted' \in Seq(GrantRow) /\ DOMAIN granted' = 1 .. Len(granted) - 1
          /\ \A j \in 1 .. Len(granted) - 1 :
                granted'[j] = IF j < i THEN granted[j] ELSE granted[j + 1]
        BY <1>1, <2>1, RowRemoved
    <2>3. DOMAIN granted = 1 .. Len(granted) /\ Len(granted) \in Nat
        BY <1>1
    <2>4. ASSUME NEW j \in DOMAIN granted', NEW k \in DOMAIN granted',
                 granted'[j].owner = granted'[k].owner
          PROVE  j = k
        <3> DEFINE from(n) == IF n < i THEN n ELSE n + 1
        <3>1. /\ from(j) \in DOMAIN granted /\ from(k) \in DOMAIN granted
              /\ granted'[j] = granted[from(j)] /\ granted'[k] = granted[from(k)]
            BY <2>2, <2>3
        <3>2. from(j) = from(k)
            BY <1>1, <2>4, <3>1 DEF Apart
        <3> QED BY <2>2, <2>3, <3>2
    <2> QED BY <2>2, <2>4 DEF Apart
<1>6. ASSUME NEW x \in AddOns, AttachAddOn(x)
      PROVE  attached' \subseteq AddOns
    BY <1>1, <1>6 DEF AttachAddOn, SymDiff
<1>7. CASE \E e \in Entities, v \in Values : CreateEntitlement(e, v)
    BY <1>1, <1>3, <1>7 DEF CreateEntitlement
<1>8. CASE \E i \in DOMAIN granted : DeleteEntitlement(i)
    BY <1>1, <1>5, <1>8 DEF DeleteEntitlement
<1>9. CASE \E i \in DOMAIN granted : \E v \in Values : UpdateEntitlement(i, v)
    BY <1>1, <1>4, <1>9 DEF UpdateEntitlement
<1>10. CASE \E x \in AddOns : AttachAddOn(x)
    BY <1>1, <1>6, <1>10 DEF AttachAddOn
<1>11. CASE SwitchFeature
    BY <1>1, <1>11 DEF SwitchFeature
<1> QED BY <1>7, <1>8, <1>9, <1>10, <1>11 DEF EntitlementNext

\* The rows of entitlements have their types, and an entity owns one at most.
THEOREM EntitlementsTypeCorrect == EntitlementSpec => []EntitlementTypeOK
<1>1. EntitlementInit => EntitlementTypeOK
    BY DEF EntitlementInit, EntitlementTypeOK
<1>2. EntitlementTypeOK /\ [EntitlementNext]_entitlementVars => EntitlementTypeOK'
    <2>1. CASE UNCHANGED entitlementVars
        BY <2>1 DEF EntitlementTypeOK, entitlementVars
    <2> QED BY <2>1, EntitlementStep
<1> QED BY <1>1, <1>2, PTL DEF EntitlementSpec

\* Whatever is granted, attached and switched, for any number of rows: resolve
\* returns what its documentation says of each field, of the rows of the highest
\* priority alone, whatever the order they come in.
THEOREM ResolvesRight == EntitlementSpec => []ResolvesAsDocumented
<1>1. EntitlementTypeOK => ResolvesAsDocumented
    BY TypedResolves
<1> QED BY <1>1, EntitlementsTypeCorrect, PTL

-----------------------------------------------------------------------------
(***************************************************************************)
(* Checkout.                                                               *)
(***************************************************************************)

USE CheckoutAssumption

Delivered(c) == delivered[c] > 0

\* What was bought has been delivered, as the code that delivers can tell.
Finished == IF ChangesPlan THEN onNewPlan ELSE session = "Completed"

\* The session's row is locked by one call at most, which has found it open.
SessionsOpen ==
    /\ session = "Expired" => overdue
    /\ session = "Completed" \/ onNewPlan => \E d \in Charges : Delivered(d)
    /\ \A c \in Charges : callStep[c] = "charging" => session # "Completed"
    /\ \A c, d \in Charges : callStep[c] = "charging" /\ callStep[d] = "charging" => c = d

\* Only what the provider has settled is settled here.
SettledAtProvider ==
    /\ \A c \in Charges : recorded[c] = "settled" \/ c \in events => provider[c] = "settled"
    /\ \A w \in Settlers : settling[w] # NoCharge => provider[settling[w]] = "settled"

\* Without an overlap a settler works alone, on a session not yet completed.
SettlersAlone ==
    ~overlapped => \A w \in Settlers :
        settling[w] # NoCharge =>
            /\ session # "Completed" /\ SessionFree
            /\ \A v \in Settlers : settling[v] # NoCharge => v = w

\* A delivery finishes the purchase, and a call that charges found it open.
DeliveryFinishes ==
    purchase # "AddonPurchase" => \A c \in Charges :
        /\ Delivered(c) => Finished /\ provider[c] = "settled"
        /\ callStep[c] = "charging" => ~Finished

AtMostOnce ==
    purchase # "AddonPurchase" /\ (~overlapped \/ ChangesPlan) =>
        \A c, d \in Charges : delivered[c] <= 1 /\ (Delivered(c) /\ Delivered(d) => c = d)

CInv ==
    /\ CheckoutTypeOK
    /\ SessionsOpen
    /\ SettledAtProvider
    /\ MoneyAccounted
    /\ SettlersAlone
    /\ DeliveryFinishes
    /\ AtMostOnce

-----------------------------------------------------------------------------

LEMMA ChangeIsBoolean == ChangesPlan \in BOOLEAN
BY DEF ChangesPlan

\* Every action keeps the types of the variables.
LEMMA CheckoutTypes ==
    ASSUME CheckoutTypeOK, CheckoutNext PROVE CheckoutTypeOK'
<1> USE DEF CheckoutTypeOK, CheckoutStatus, CallSteps, ChargeStatus
<1>1. ASSUME NEW c \in Charges, BeginCheckout(c) \/ CheckoutFails(c) PROVE CheckoutTypeOK'
  BY <1>1 DEF BeginCheckout, CheckoutFails
<1>2. ASSUME NEW c \in Charges, CheckoutReturns(c) PROVE CheckoutTypeOK'
  <2>1. delivered' \in [Charges -> Nat] BY <1>2 DEF CheckoutReturns, AwaitPayment, Deliver
  <2>2. session' \in CheckoutStatus /\ recorded' \in [Charges -> ChargeStatus]
    BY <1>2 DEF CheckoutReturns, AwaitPayment
  <2>3. callStep' \in [Charges -> CallSteps]
    BY <1>2 DEF CheckoutReturns
  <2>4. onNewPlan' \in BOOLEAN
    BY <1>2, ChangeIsBoolean DEF CheckoutReturns
  <2> QED BY <1>2, <2>1, <2>2, <2>3, <2>4 DEF CheckoutReturns
<1>3. ASSUME NEW c \in Charges, ProviderCharges(c) \/ ProviderDecides(c) PROVE CheckoutTypeOK'
  BY <1>3 DEF ProviderCharges, ProviderDecides
<1>4. ASSUME NEW c \in Charges, ChargeWebhook(c) PROVE CheckoutTypeOK'
  BY <1>4 DEF ChargeWebhook
<1>5. ASSUME NEW c \in Charges, IgnoreEvent(c) \/ EventDies(c) PROVE CheckoutTypeOK'
  BY <1>5 DEF IgnoreEvent, EventDies
<1>6. ASSUME NEW c \in Charges, SettleInvoice(c) PROVE CheckoutTypeOK'
  <2>1. delivered' \in [Charges -> Nat] BY <1>6 DEF SettleInvoice, Deliver
  <2>2. events' \subseteq Charges BY <1>6 DEF SettleInvoice, Acknowledge
  <2>3. onNewPlan' \in BOOLEAN BY <1>6 DEF SettleInvoice
  <2> QED BY <1>6, <2>1, <2>2, <2>3 DEF SettleInvoice
<1>7. ASSUME NEW w \in Settlers, NEW c \in Charges, TakeEvent(w, c) PROVE CheckoutTypeOK'
  BY <1>7 DEF TakeEvent
<1>8. ASSUME NEW w \in Settlers, SettleCheckout(w) PROVE CheckoutTypeOK'
  <2>1. settling[w] \in Charges BY <1>8 DEF SettleCheckout
  <2>2. delivered' \in [Charges -> Nat] BY <1>8, <2>1 DEF SettleCheckout, Deliver
  <2>3. onNewPlan' \in BOOLEAN BY <1>8, ChangeIsBoolean DEF SettleCheckout
  <2>4. settling' \in [Settlers -> Charges \cup {NoCharge}] /\ events' \subseteq Charges
    BY <1>8 DEF SettleCheckout, Acknowledge
  <2> QED BY <1>8, <2>2, <2>3, <2>4 DEF SettleCheckout
<1>9. ASSUME NEW w \in Settlers, SettlementFails(w) PROVE CheckoutTypeOK'
  BY <1>9 DEF SettlementFails
<1>10. CASE SessionOverdue \/ ExpireSession \/ CancelSession
  BY <1>10 DEF SessionOverdue, ExpireSession, CancelSession, CloseSession
<1> QED BY <1>1, <1>2, <1>3, <1>4, <1>5, <1>6, <1>7, <1>8, <1>9, <1>10 DEF CheckoutNext

\* No step takes a delivery back.
LEMMA DeliveriesStay ==
    ASSUME CheckoutTypeOK, CheckoutNext, NEW c \in Charges, Delivered(c) PROVE Delivered(c)'
<1> USE DEF CheckoutTypeOK, Delivered
<1>1. ASSUME NEW d \in Charges, Deliver(d) PROVE Delivered(c)'
  BY <1>1 DEF Deliver
<1>2. CASE UNCHANGED delivered BY <1>2
<1>3. UNCHANGED delivered \/ \E d \in Charges : Deliver(d)
  BY DEF CheckoutNext, BeginCheckout, CheckoutFails, CheckoutReturns, AwaitPayment,
         ProviderCharges, ProviderDecides, ChargeWebhook, IgnoreEvent, EventDies,
         SettleInvoice, TakeEvent, SettleCheckout, SettlementFails, SessionOverdue,
         ExpireSession, CancelSession, CloseSession
<1> QED BY <1>1, <1>2, <1>3

\* The session: overdue when expired, delivered when completed, locked by one.
LEMMA SessionsStayOpen ==
    ASSUME CheckoutTypeOK, SessionsOpen, CheckoutNext PROVE SessionsOpen'
<1> USE DEF CheckoutTypeOK, SessionsOpen, CallSteps
<1>1. ASSUME session \in {"Completed"} \/ onNewPlan
      PROVE  \E d \in Charges : Delivered(d)'
  BY <1>1, DeliveriesStay
<1>2. ASSUME NEW c \in Charges, BeginCheckout(c) PROVE SessionsOpen'
  BY <1>1, <1>2 DEF BeginCheckout, CanComplete, SessionFree
<1>3. ASSUME NEW c \in Charges, CheckoutReturns(c) PROVE SessionsOpen'
  <2>1. callStep[c] = "charging" BY <1>3 DEF CheckoutReturns
  <2>2. \A d \in Charges : callStep'[d] # "charging"
    BY <1>3, <2>1 DEF CheckoutReturns
  <2>3. CASE Deliver(c)
    <3>1. Delivered(c)' BY <2>3 DEF Deliver, Delivered
    <3>2. session' # "Expired" BY <1>3 DEF CheckoutReturns, AwaitPayment
    <3> QED BY <2>2, <3>1, <3>2
  <2>4. CASE session' = "AwaitingPayment" /\ UNCHANGED onNewPlan
    BY <1>1, <2>2, <2>4
  <2> QED BY <1>3, <2>3, <2>4 DEF CheckoutReturns, AwaitPayment
<1>4. ASSUME NEW c \in Charges, CheckoutFails(c) PROVE SessionsOpen'
  BY <1>1, <1>4 DEF CheckoutFails
<1>5. ASSUME NEW c \in Charges, SettleInvoice(c) PROVE SessionsOpen'
  <2>1. CASE Deliver(c)
    <3>1. Delivered(c)' BY <2>1 DEF Deliver, Delivered
    <3> QED BY <1>5, <3>1 DEF SettleInvoice
  <2>2. CASE UNCHANGED onNewPlan BY <1>1, <1>5, <2>2 DEF SettleInvoice
  <2> QED BY <1>5, <2>1, <2>2 DEF SettleInvoice
<1>6. ASSUME NEW w \in Settlers, SettleCheckout(w) PROVE SessionsOpen'
  <2>1. settling[w] \in Charges BY <1>6 DEF SettleCheckout
  <2>2. Deliver(settling[w]) BY <1>6 DEF SettleCheckout
  <2>3. \E d \in Charges : Delivered(d)' BY <2>1, <2>2 DEF Deliver, Delivered
  <2>4. \A c \in Charges : callStep'[c] # "charging"
    BY <1>6 DEF SettleCheckout, SessionFree
  <2>5. session' # "Expired" BY <1>6 DEF SettleCheckout
  <2> QED BY <2>3, <2>4, <2>5
<1>7. CASE SessionOverdue \/ ExpireSession \/ CancelSession
  BY <1>1, <1>7 DEF SessionOverdue, ExpireSession, CancelSession, CloseSession, SessionFree
<1>8. ASSUME UNCHANGED <<session, overdue, callStep, onNewPlan>> PROVE SessionsOpen'
  BY <1>1, <1>8
<1>9. ASSUME NEW c \in Charges,
             ProviderCharges(c) \/ ProviderDecides(c) \/ ChargeWebhook(c)
                \/ IgnoreEvent(c) \/ EventDies(c)
                \/ \E w \in Settlers : TakeEvent(w, c)
      PROVE  SessionsOpen'
  BY <1>8, <1>9 DEF ProviderCharges, ProviderDecides, ChargeWebhook, IgnoreEvent,
                    EventDies, TakeEvent
<1>10. ASSUME NEW w \in Settlers, SettlementFails(w) PROVE SessionsOpen'
  BY <1>8, <1>10 DEF SettlementFails
<1> QED BY <1>2, <1>3, <1>4, <1>5, <1>6, <1>7, <1>9, <1>10 DEF CheckoutNext

\* A completed session is locked by no call and closed by nobody.
LEMMA CompletedStep ==
    ASSUME CheckoutTypeOK, SessionsOpen, CheckoutNext, session = "Completed"
    PROVE  session' = "Completed"
<1>1. \A c \in Charges : ~CheckoutReturns(c) BY DEF SessionsOpen, CheckoutReturns
<1> QED
  BY <1>1 DEF CheckoutNext, BeginCheckout, CheckoutFails, ProviderCharges, ProviderDecides,
         ChargeWebhook, IgnoreEvent, EventDies, SettleInvoice, TakeEvent, SettleCheckout,
         SettlementFails, SessionOverdue, ExpireSession, CancelSession, CloseSession

\* Settlement follows the provider's.
LEMMA SettlementFollows ==
    ASSUME CheckoutTypeOK, SettledAtProvider, CheckoutNext PROVE SettledAtProvider'
<1> USE DEF CheckoutTypeOK, SettledAtProvider, ChargeStatus
<1>1. ASSUME NEW c \in Charges, ProviderCharges(c) \/ ProviderDecides(c)
      PROVE  SettledAtProvider'
  <2>1. \A d \in Charges : provider[d] = "settled" => provider'[d] = "settled"
    BY <1>1 DEF ProviderCharges, ProviderDecides
  <2> QED BY <1>1, <2>1 DEF ProviderCharges, ProviderDecides
<1>2. ASSUME NEW c \in Charges, CheckoutReturns(c) PROVE SettledAtProvider'
  BY <1>2 DEF CheckoutReturns, AwaitPayment
<1>3. ASSUME NEW c \in Charges, ChargeWebhook(c) PROVE SettledAtProvider'
  BY <1>3 DEF ChargeWebhook
<1>4. ASSUME NEW w \in Settlers, NEW c \in Charges, TakeEvent(w, c)
      PROVE  SettledAtProvider'
  BY <1>4 DEF TakeEvent
<1>5. ASSUME NEW w \in Settlers, SettleCheckout(w) PROVE SettledAtProvider'
  BY <1>5 DEF SettleCheckout, Acknowledge
<1>6. ASSUME NEW c \in Charges, SettleInvoice(c) PROVE SettledAtProvider'
  BY <1>6 DEF SettleInvoice, Acknowledge
<1>7. ASSUME NEW c \in Charges, IgnoreEvent(c) \/ EventDies(c) PROVE SettledAtProvider'
  BY <1>7 DEF IgnoreEvent, EventDies
<1>8. ASSUME NEW w \in Settlers, SettlementFails(w) PROVE SettledAtProvider'
  BY <1>8 DEF SettlementFails
<1>9. ASSUME NEW c \in Charges, BeginCheckout(c) \/ CheckoutFails(c)
      PROVE  SettledAtProvider'
  BY <1>9 DEF BeginCheckout, CheckoutFails
<1>10. CASE SessionOverdue \/ ExpireSession \/ CancelSession
  BY <1>10 DEF SessionOverdue, ExpireSession, CancelSession, CloseSession
<1> QED BY <1>1, <1>2, <1>3, <1>4, <1>5, <1>6, <1>7, <1>8, <1>9, <1>10 DEF CheckoutNext

\* What has settled is delivered, waits in its queue, or is overdue or bettered.
LEMMA MoneyStays ==
    ASSUME CheckoutTypeOK, SessionsOpen, MoneyAccounted, CheckoutNext
    PROVE  MoneyAccounted'
<1> USE DEF CheckoutTypeOK, ChargeStatus
<1> DEFINE Kept(c) == \/ Delivered(c) \/ c \in events \/ overdue
                      \/ \E d \in Charges \ {c} : Delivered(d)
<1>1. MoneyAccounted = \A c \in Charges : recorded[c] = "settled" => Kept(c)
  BY DEF MoneyAccounted, Delivered
<1>2. MoneyAccounted' = \A c \in Charges : recorded'[c] = "settled" => Kept(c)'
  BY DEF MoneyAccounted, Delivered
<1>3. ASSUME NEW c \in Charges, Kept(c), c \in events => c \in events'
      PROVE  Kept(c)'
  <2>1. overdue => overdue'
    BY DEF CheckoutNext, BeginCheckout, CheckoutFails, CheckoutReturns, ProviderCharges,
         ProviderDecides, ChargeWebhook, IgnoreEvent, EventDies, SettleInvoice, TakeEvent,
         SettleCheckout, SettlementFails, SessionOverdue, ExpireSession, CancelSession,
         CloseSession
  <2> QED BY <1>3, <2>1, DeliveriesStay
<1>4. ASSUME NEW c \in Charges, NEW d \in Charges, Delivered(d) PROVE Kept(c)'
  BY <1>4, DeliveriesStay
<1> HIDE DEF Kept
<1>5. ASSUME UNCHANGED recorded, events \subseteq events' PROVE MoneyAccounted'
  BY <1>1, <1>2, <1>3, <1>5
<1>6. ASSUME NEW c \in Charges, CheckoutReturns(c) PROVE MoneyAccounted'
  <2>1. \A d \in Charges \ {c} : recorded'[d] = recorded[d]
    BY <1>6 DEF CheckoutReturns, AwaitPayment
  <2>2. recorded'[c] = "settled" => Delivered(c)'
    BY <1>6 DEF CheckoutReturns, AwaitPayment, Deliver, Delivered
  <2>3. UNCHANGED events BY <1>6 DEF CheckoutReturns
  <2>4. recorded'[c] = "settled" => Kept(c)' BY <2>2 DEF Kept
  <2> QED BY <1>1, <1>2, <1>3, <2>1, <2>3, <2>4
<1>7. ASSUME NEW c \in Charges, ChargeWebhook(c) PROVE MoneyAccounted'
  <2>1. \A d \in Charges \ {c} : recorded'[d] = recorded[d]
    BY <1>7 DEF ChargeWebhook
  <2>2. recorded'[c] = "settled" => c \in events' BY <1>7 DEF ChargeWebhook
  <2>3. events \subseteq events' BY <1>7 DEF ChargeWebhook
  <2>4. recorded'[c] = "settled" => Kept(c)' BY <2>2 DEF Kept
  <2> QED BY <1>1, <1>2, <1>3, <2>1, <2>3, <2>4
<1>8. ASSUME NEW c \in Charges, UNCHANGED recorded, events \ {c} \subseteq events', Kept(c)'
      PROVE  MoneyAccounted'
  BY <1>1, <1>2, <1>3, <1>8
<1>9. ASSUME NEW c \in Charges, IgnoreEvent(c) PROVE MoneyAccounted'
  <2>1. Kept(c)' BY <1>4, <1>9 DEF IgnoreEvent, SettledAlready, SessionsOpen
  <2> QED BY <1>8, <1>9, <2>1 DEF IgnoreEvent
<1>10. ASSUME NEW c \in Charges, EventDies(c) PROVE MoneyAccounted'
  <2>1. CASE onNewPlan
    <3>1. Kept(c)' BY <1>4, <2>1 DEF SessionsOpen
    <3> QED BY <1>8, <1>10, <3>1 DEF EventDies
  <2>2. CASE SettledExpired
    <3>1. overdue' BY <1>10, <2>2 DEF EventDies, SettledExpired, SessionsOpen
    <3>2. Kept(c)' BY <3>1 DEF Kept
    <3> QED BY <1>8, <1>10, <3>2 DEF EventDies
  <2> QED BY <1>10, <2>1, <2>2 DEF EventDies
<1>11. ASSUME NEW c \in Charges, SettleInvoice(c) PROVE MoneyAccounted'
  <2>1. Delivered(c)' BY <1>11 DEF SettleInvoice, Deliver, Delivered
  <2>2. Kept(c)' BY <2>1 DEF Kept
  <2>3. events \ {c} \subseteq events' BY <1>11 DEF SettleInvoice, Acknowledge
  <2> QED BY <1>8, <1>11, <2>2, <2>3 DEF SettleInvoice
<1>12. ASSUME NEW w \in Settlers, SettleCheckout(w) PROVE MoneyAccounted'
  <2>1. settling[w] \in Charges BY <1>12 DEF SettleCheckout
  <2>2. PICK c \in Charges : c = settling[w] BY <2>1
  <2>3. Deliver(c) /\ Acknowledge(c) BY <1>12, <2>2 DEF SettleCheckout
  <2>4. Delivered(c)' BY <2>3 DEF Deliver, Delivered
  <2>5. Kept(c)' BY <2>4 DEF Kept
  <2>6. events \ {c} \subseteq events' BY <2>3 DEF Acknowledge
  <2>7. UNCHANGED recorded BY <1>12 DEF SettleCheckout
  <2> QED BY <1>8, <2>5, <2>6, <2>7
<1>13. ASSUME NEW c \in Charges,
              BeginCheckout(c) \/ CheckoutFails(c) \/ ProviderCharges(c) \/ ProviderDecides(c)
                \/ \E w \in Settlers : TakeEvent(w, c)
       PROVE  MoneyAccounted'
  BY <1>5, <1>13 DEF BeginCheckout, CheckoutFails, ProviderCharges, ProviderDecides, TakeEvent
<1>14. ASSUME NEW w \in Settlers, SettlementFails(w) PROVE MoneyAccounted'
  BY <1>5, <1>14 DEF SettlementFails
<1>15. CASE SessionOverdue \/ ExpireSession \/ CancelSession
  BY <1>5, <1>15 DEF SessionOverdue, ExpireSession, CancelSession, CloseSession
<1> QED
  BY <1>6, <1>7, <1>9, <1>10, <1>11, <1>12, <1>13, <1>14, <1>15 DEF CheckoutNext

\* A settler that takes an event beside another or a call is remembered.
LEMMA SettlersStayAlone ==
    ASSUME CheckoutTypeOK, SettlersAlone, CheckoutNext PROVE SettlersAlone'
<1> USE DEF CheckoutTypeOK, SettlersAlone
<1>1. ASSUME UNCHANGED <<settling, overlapped>>,
             session' # "Completed" \/ UNCHANGED session,
             SessionFree => SessionFree'
      PROVE  SettlersAlone'
  BY <1>1
<1>2. ASSUME NEW c \in Charges, BeginCheckout(c) PROVE SettlersAlone'
  BY <1>2 DEF BeginCheckout, SettlersIdle
<1>3. ASSUME NEW c \in Charges, CheckoutReturns(c) PROVE SettlersAlone'
  <2>1. ~SessionFree BY <1>3 DEF CheckoutReturns, SessionFree
  <2> QED BY <1>3, <2>1 DEF CheckoutReturns
<1>4. ASSUME NEW c \in Charges, CheckoutFails(c) PROVE SettlersAlone'
  <2>1. SessionFree => SessionFree' BY <1>4 DEF CheckoutFails, SessionFree
  <2> QED BY <1>1, <1>4, <2>1 DEF CheckoutFails
<1>5. ASSUME NEW w \in Settlers, NEW c \in Charges, TakeEvent(w, c) PROVE SettlersAlone'
  <2>1. SessionFree => SessionFree' BY <1>5 DEF TakeEvent, SessionFree
  <2>2. session' # "Completed" BY <1>5 DEF TakeEvent, SettledAlready
  <2>3. ~overlapped' => SessionFree /\ \A v \in Settlers : settling[v] = NoCharge
    BY <1>5 DEF TakeEvent, SettlersIdle
  <2>4. \A v \in Settlers : v # w => settling'[v] = settling[v] BY <1>5 DEF TakeEvent
  <2> QED BY <2>1, <2>2, <2>3, <2>4
<1>6. ASSUME NEW w \in Settlers, SettleCheckout(w) PROVE SettlersAlone'
  <2>1. \A v \in Settlers : v # w => settling'[v] = settling[v] BY <1>6 DEF SettleCheckout
  <2>2. settling'[w] = NoCharge /\ settling[w] # NoCharge BY <1>6 DEF SettleCheckout
  <2>3. UNCHANGED overlapped BY <1>6 DEF SettleCheckout
  <2> QED BY <2>1, <2>2, <2>3
<1>7. ASSUME NEW w \in Settlers, SettlementFails(w) PROVE SettlersAlone'
  <2>1. \A v \in Settlers : settling'[v] \in {settling[v], NoCharge} BY <1>7 DEF SettlementFails
  <2>2. UNCHANGED <<overlapped, session, callStep>> BY <1>7 DEF SettlementFails
  <2>3. SessionFree => SessionFree' BY <2>2 DEF SessionFree
  <2> QED BY <2>1, <2>2, <2>3
<1>8. ASSUME UNCHANGED <<settling, overlapped, session, callStep>> PROVE SettlersAlone'
  <2>1. SessionFree => SessionFree' BY <1>8 DEF SessionFree
  <2> QED BY <1>1, <1>8, <2>1
<1>9. ASSUME NEW c \in Charges,
             ProviderCharges(c) \/ ProviderDecides(c) \/ ChargeWebhook(c)
                \/ IgnoreEvent(c) \/ EventDies(c) \/ SettleInvoice(c)
      PROVE  SettlersAlone'
  BY <1>8, <1>9 DEF ProviderCharges, ProviderDecides, ChargeWebhook, IgnoreEvent,
                    EventDies, SettleInvoice
<1>10. CASE SessionOverdue BY <1>8, <1>10 DEF SessionOverdue
<1>11. CASE ExpireSession \/ CancelSession
  <2>1. SessionFree => SessionFree'
    BY <1>11 DEF ExpireSession, CancelSession, CloseSession, SessionFree
  <2> QED BY <1>1, <1>11, <2>1 DEF ExpireSession, CancelSession, CloseSession
<1> QED BY <1>2, <1>3, <1>4, <1>5, <1>6, <1>7, <1>9, <1>10, <1>11 DEF CheckoutNext

\* What a session is for does not change, an overlap is not forgotten, and the
\* provider takes no settlement back.
LEMMA HistoryStays ==
    ASSUME CheckoutTypeOK, CheckoutNext
    PROVE  /\ UNCHANGED purchase
           /\ overlapped => overlapped'
           /\ \A c \in Charges : provider[c] = "settled" => provider'[c] = "settled"
<1> USE DEF CheckoutTypeOK
<1>1. UNCHANGED purchase /\ (overlapped => overlapped')
  BY DEF CheckoutNext, BeginCheckout, CheckoutFails, CheckoutReturns, ProviderCharges,
         ProviderDecides, ChargeWebhook, IgnoreEvent, EventDies, SettleInvoice, TakeEvent,
         SettleCheckout, SettlementFails, SessionOverdue, ExpireSession, CancelSession,
         CloseSession
<1>2. ASSUME NEW d \in Charges, ProviderCharges(d) \/ ProviderDecides(d)
      PROVE  \A c \in Charges : provider[c] = "settled" => provider'[c] = "settled"
  BY <1>2 DEF ProviderCharges, ProviderDecides
<1>3. UNCHANGED provider \/ \E d \in Charges : ProviderCharges(d) \/ ProviderDecides(d)
  BY DEF CheckoutNext, BeginCheckout, CheckoutFails, CheckoutReturns,
         ChargeWebhook, IgnoreEvent, EventDies, SettleInvoice, TakeEvent,
         SettleCheckout, SettlementFails, SessionOverdue, ExpireSession, CancelSession,
         CloseSession
<1> QED BY <1>1, <1>2, <1>3

\* A purchase that is finished stays so.
LEMMA FinishedStays ==
    ASSUME CheckoutTypeOK, SessionsOpen, CheckoutNext, Finished PROVE Finished'
<1>1. ChangesPlan' <=> ChangesPlan BY HistoryStays DEF ChangesPlan
<1>2. CASE ~ChangesPlan BY <1>1, <1>2, CompletedStep DEF Finished
<1>3. CASE ChangesPlan
  <2>1. onNewPlan BY <1>3 DEF Finished
  <2>2. onNewPlan'
    BY <1>3, <2>1 DEF CheckoutNext, BeginCheckout, CheckoutFails, CheckoutReturns,
         ProviderCharges, ProviderDecides, ChargeWebhook, IgnoreEvent, EventDies,
         SettleInvoice, TakeEvent, SettleCheckout, SettlementFails, SessionOverdue,
         ExpireSession, CancelSession, CloseSession
  <2> QED BY <1>1, <1>3, <2>2 DEF Finished
<1> QED BY <1>2, <1>3

\* A step delivers at most one charge, which has settled, and so finishes the
\* purchase; unless settlers overlap, it was not finished before.
Delivers(c) ==
    /\ Deliver(c) /\ provider[c] = "settled" /\ Finished'
    /\ ~overlapped \/ ChangesPlan => ~Finished

LEMMA DeliveringStep ==
    ASSUME CheckoutTypeOK, SettledAtProvider, SettlersAlone, DeliveryFinishes,
           CheckoutNext, purchase # "AddonPurchase"
    PROVE  UNCHANGED delivered \/ \E c \in Charges : Delivers(c)
<1>1. ChangesPlan' <=> ChangesPlan BY HistoryStays DEF ChangesPlan
<1>2. ASSUME NEW c \in Charges, CheckoutReturns(c)
      PROVE  UNCHANGED delivered \/ Delivers(c)
  <2>1. ~Finished BY <1>2 DEF CheckoutReturns, DeliveryFinishes
  <2>2. CASE Deliver(c) /\ provider[c] = "settled" /\ session' = "Completed"
             /\ onNewPlan' = ChangesPlan
    BY <1>1, <2>1, <2>2 DEF Delivers, Finished
  <2> QED BY <1>2, <2>2 DEF CheckoutReturns, AwaitPayment
<1>3. ASSUME NEW c \in Charges, SettleInvoice(c) PROVE UNCHANGED delivered \/ Delivers(c)
  <2>1. CASE Deliver(c) /\ ~onNewPlan /\ onNewPlan'
    <3>1. c \in events BY <1>3 DEF SettleInvoice
    <3>2. provider[c] = "settled" BY <3>1 DEF SettledAtProvider
    <3>3. ChangesPlan BY <1>3 DEF SettleInvoice, ChangesPlan
    <3> QED BY <1>1, <2>1, <3>2, <3>3 DEF Delivers, Finished
  <2> QED BY <1>3, <2>1 DEF SettleInvoice
<1>4. ASSUME NEW w \in Settlers, SettleCheckout(w) PROVE \E c \in Charges : Delivers(c)
  <2>1. settling[w] \in Charges BY <1>4 DEF SettleCheckout, CheckoutTypeOK
  <2>2. PICK c \in Charges : c = settling[w] BY <2>1
  <2>3. Deliver(c) BY <1>4, <2>2 DEF SettleCheckout
  <2>4. provider[c] = "settled" BY <1>4, <2>2 DEF SettleCheckout, SettledAtProvider
  <2>5. Finished' BY <1>1, <1>4 DEF SettleCheckout, Finished
  <2>6. ~overlapped \/ ChangesPlan => ~Finished
    <3>1. ChangesPlan => ~onNewPlan BY <1>4 DEF SettleCheckout
    <3>2. ~overlapped => session # "Completed" BY <1>4 DEF SettleCheckout, SettlersAlone
    <3> QED BY <3>1, <3>2 DEF Finished
  <2> QED BY <2>3, <2>4, <2>5, <2>6 DEF Delivers
<1>5. UNCHANGED delivered \/ (\E c \in Charges : CheckoutReturns(c) \/ SettleInvoice(c))
        \/ \E w \in Settlers : SettleCheckout(w)
  BY DEF CheckoutNext, BeginCheckout, CheckoutFails, ProviderCharges, ProviderDecides,
         ChargeWebhook, IgnoreEvent, EventDies, TakeEvent, SettlementFails,
         SessionOverdue, ExpireSession, CancelSession, CloseSession
<1> QED BY <1>2, <1>3, <1>4, <1>5

\* A call that charges has found the purchase open, and it stays open until
\* the call returns.
LEMMA ChargesFindItOpen ==
    ASSUME CheckoutTypeOK, SessionsOpen, DeliveryFinishes, CheckoutNext,
           purchase # "AddonPurchase", NEW c \in Charges, callStep'[c] = "charging"
    PROVE  ~Finished'
<1> USE DEF CheckoutTypeOK, CallSteps
<1>1. ChangesPlan' <=> ChangesPlan BY HistoryStays DEF ChangesPlan
<1>2. ASSUME NEW d \in Charges, BeginCheckout(d) PROVE ~Finished'
  BY <1>1, <1>2 DEF BeginCheckout, CanComplete, Finished
<1>3. ASSUME UNCHANGED <<callStep, onNewPlan>>,
             session' = "Completed" => session = "Completed"
      PROVE  ~Finished'
  <2>1. callStep[c] = "charging" BY <1>3
  <2>2. ~Finished BY <2>1 DEF DeliveryFinishes
  <2> QED BY <1>1, <1>3, <2>2 DEF Finished
<1>4. ASSUME NEW d \in Charges, CheckoutReturns(d) PROVE FALSE
  <2>1. callStep[c] = "charging" /\ callStep[d] = "charging" /\ c # d
    BY <1>4 DEF CheckoutReturns
  <2> QED BY <2>1 DEF SessionsOpen
<1>5. ASSUME NEW d \in Charges, CheckoutFails(d) PROVE ~Finished'
  <2>1. callStep[c] = "charging" BY <1>5 DEF CheckoutFails
  <2>2. ~Finished BY <2>1 DEF DeliveryFinishes
  <2> QED BY <1>1, <1>5, <2>2 DEF CheckoutFails, Finished
<1>6. ASSUME NEW d \in Charges, SettleInvoice(d) PROVE FALSE
  BY <1>6 DEF SettleInvoice, SessionFree
<1>7. ASSUME NEW w \in Settlers, SettleCheckout(w) PROVE FALSE
  BY <1>7 DEF SettleCheckout, SessionFree
<1>8. ASSUME NEW d \in Charges,
             ProviderCharges(d) \/ ProviderDecides(d) \/ ChargeWebhook(d)
                \/ IgnoreEvent(d) \/ EventDies(d) \/ \E w \in Settlers : TakeEvent(w, d)
      PROVE  ~Finished'
  BY <1>3, <1>8 DEF ProviderCharges, ProviderDecides, ChargeWebhook, IgnoreEvent,
                    EventDies, TakeEvent
<1>9. ASSUME NEW w \in Settlers, SettlementFails(w) PROVE ~Finished'
  BY <1>3, <1>9 DEF SettlementFails
<1>10. CASE SessionOverdue \/ ExpireSession \/ CancelSession
  BY <1>3, <1>10 DEF SessionOverdue, ExpireSession, CancelSession, CloseSession
<1> QED BY <1>2, <1>4, <1>5, <1>6, <1>7, <1>8, <1>9, <1>10 DEF CheckoutNext

LEMMA DeliveriesFinish ==
    ASSUME CheckoutTypeOK, SessionsOpen, SettledAtProvider, SettlersAlone,
           DeliveryFinishes, CheckoutNext
    PROVE  DeliveryFinishes'
<1> SUFFICES ASSUME purchase # "AddonPurchase", NEW c \in Charges
             PROVE  /\ Delivered(c)' => Finished' /\ provider'[c] = "settled"
                    /\ callStep'[c] = "charging" => ~Finished'
  BY HistoryStays DEF DeliveryFinishes
<1>1. CASE Delivered(c)
  BY <1>1, FinishedStays, HistoryStays, ChargesFindItOpen DEF DeliveryFinishes
<1>2. ASSUME NEW d \in Charges, Delivers(d), ~Delivered(c), Delivered(c)' PROVE c = d
  BY <1>2 DEF Delivers, Deliver, Delivered, CheckoutTypeOK
<1>3. CASE ~Delivered(c) /\ Delivered(c)'
  <2>1. PICK d \in Charges : Delivers(d) BY <1>3, DeliveringStep DEF Delivered
  <2>2. c = d BY <1>2, <1>3, <2>1
  <2> QED BY <2>1, <2>2, HistoryStays, ChargesFindItOpen DEF Delivers
<1> QED BY <1>1, <1>3, ChargesFindItOpen

LEMMA OnceStaysOnce ==
    ASSUME CheckoutTypeOK, SessionsOpen, SettledAtProvider, SettlersAlone,
           DeliveryFinishes, AtMostOnce, CheckoutNext
    PROVE  AtMostOnce'
<1> SUFFICES ASSUME purchase # "AddonPurchase", ~overlapped' \/ ChangesPlan,
                    NEW c \in Charges, NEW d \in Charges
             PROVE  delivered'[c] <= 1 /\ (Delivered(c)' /\ Delivered(d)' => c = d)
  BY HistoryStays DEF AtMostOnce, ChangesPlan
<1>1. ~overlapped \/ ChangesPlan BY HistoryStays
<1>2. CASE UNCHANGED delivered BY <1>1, <1>2 DEF AtMostOnce, Delivered
<1>3. ASSUME NEW e \in Charges, Delivers(e)
      PROVE  delivered'[c] <= 1 /\ (Delivered(c)' /\ Delivered(d)' => c = d)
  <2>1. ~Finished BY <1>1, <1>3 DEF Delivers
  <2>2. \A x \in Charges : ~Delivered(x) BY <2>1 DEF DeliveryFinishes
  <2>3. \A x \in Charges : delivered[x] = 0 BY <2>2 DEF Delivered, CheckoutTypeOK
  <2>4. \A x \in Charges : delivered'[x] = IF x = e THEN 1 ELSE 0
    BY <1>3, <2>3 DEF Delivers, Deliver, CheckoutTypeOK
  <2> QED BY <2>4 DEF Delivered
<1> QED BY <1>2, <1>3, DeliveringStep

-----------------------------------------------------------------------------

LEMMA CheckoutInvInit == CheckoutInit => CInv
<1> SUFFICES ASSUME CheckoutInit PROVE CInv OBVIOUS
<1> USE DEF CheckoutInit
<1>1. CheckoutTypeOK
  BY DEF CheckoutTypeOK, Purchases, CheckoutStatus, CallSteps, ChargeStatus
<1>2. SessionsOpen /\ SettledAtProvider /\ MoneyAccounted
  BY DEF SessionsOpen, SettledAtProvider, MoneyAccounted
<1>3. SettlersAlone /\ DeliveryFinishes /\ AtMostOnce
  BY DEF SettlersAlone, DeliveryFinishes, AtMostOnce, Delivered
<1> QED BY <1>1, <1>2, <1>3 DEF CInv

LEMMA CheckoutInvStep == CInv /\ [CheckoutNext]_checkoutVars => CInv'
<1>1. ASSUME CInv, CheckoutNext PROVE CInv'
  BY <1>1, CheckoutTypes, SessionsStayOpen, SettlementFollows, MoneyStays,
     SettlersStayAlone, DeliveriesFinish, OnceStaysOnce DEF CInv
<1>2. ASSUME CInv, UNCHANGED checkoutVars PROVE CInv'
  BY <1>2 DEF CInv, CheckoutTypeOK, SessionsOpen, SettledAtProvider, MoneyAccounted,
              SettlersAlone, SessionFree, DeliveryFinishes, Finished, ChangesPlan, AtMostOnce,
              Delivered, checkoutVars
<1> QED BY <1>1, <1>2

\* The invariant the others follow from: who has the session's row, what the
\* provider settled, and what a delivery changes.
THEOREM CheckoutInvariant == CheckoutSpec => []CInv
<1>1. CheckoutInit => CInv BY CheckoutInvInit
<1>2. CInv /\ [CheckoutNext]_checkoutVars => CInv' BY CheckoutInvStep
<1> QED BY <1>1, <1>2, PTL DEF CheckoutSpec

\* Every variable has its type.
THEOREM CheckoutTypeCorrect == CheckoutSpec => []CheckoutTypeOK
<1>1. CInv => CheckoutTypeOK BY DEF CInv
<1> QED BY <1>1, CheckoutInvariant, PTL

\* A settled charge delivers, waits, or is overdue or bettered by another
\* (payment_transaction_settled.rs), for any number of charges.
THEOREM MoneyStaysAccounted == CheckoutSpec => []MoneyAccounted
<1>1. CInv => MoneyAccounted BY DEF CInv
<1> QED BY <1>1, CheckoutInvariant, PTL

\* What is bought is delivered once and after its charge has settled (edge.rs,
\* payment_transaction_settled.rs), unless settlers overlap.
THEOREM DeliveredOnlyOnce == CheckoutSpec => []DeliveredOnce
<1>1. CInv => DeliveredOnce
  BY DEF CInv, DeliveryFinishes, AtMostOnce, DeliveredOnce, Delivered
<1> QED BY <1>1, CheckoutInvariant, PTL

\* No call or event writes over a completed session (complete_checkout's lock).
THEOREM CompletedForGood == CheckoutSpec => CompletedStays
<1>1. CInv /\ [CheckoutNext]_checkoutVars => [session = "Completed" => session' = "Completed"]_checkoutVars
  BY CompletedStep DEF CInv
<1> QED BY <1>1, CheckoutInvariant, PTL DEF CheckoutSpec, CompletedStays
=============================================================================
