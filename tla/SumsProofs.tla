----------------------------- MODULE SumsProofs -----------------------------
(* Facts about SumNat for a natural-valued function on a finite set. *)
EXTENDS Sums, FiniteSetTheorems, FunctionTheorems, TLAPS

\* The unit pairs of the arguments in S.
AllUnits(f, S) == UNION {Units(f, x) : x \in S}

\* The unit pairs of one argument are as many as its value.
LEMMA UnitsCount ==
    ASSUME NEW f, NEW x, f[x] \in Nat
    PROVE  IsFiniteSet(Units(f, x)) /\ Cardinality(Units(f, x)) = f[x]
<1>1. IsFiniteSet(1 .. f[x]) /\ Cardinality(1 .. f[x]) = f[x]
  BY FS_Interval
<1>2. IsFiniteSet({x}) /\ Cardinality({x}) = 1
  BY FS_Singleton
<1>3. /\ IsFiniteSet({x} \X (1 .. f[x]))
      /\ Cardinality({x} \X (1 .. f[x])) = Cardinality({x}) * Cardinality(1 .. f[x])
  BY <1>1, <1>2, FS_Product, Zenon
<1>4. Cardinality({x}) * Cardinality(1 .. f[x]) = f[x]
  BY <1>1, <1>2
<1> QED BY <1>3, <1>4 DEF Units

\* Finitely many arguments have finitely many unit pairs.
LEMMA AllUnitsFinite ==
    ASSUME NEW S, IsFiniteSet(S), NEW f, \A x \in S : f[x] \in Nat
    PROVE  IsFiniteSet(AllUnits(f, S))
<1> DEFINE U == {Units(f, x) : x \in S}
           g == [x \in S |-> Units(f, x)]
<1>1. g \in Surjection(S, U)
  BY DEF Surjection
<1>2. IsFiniteSet(U)
  BY <1>1, FS_Surjection
<1>3. \A T \in U : IsFiniteSet(T)
  BY UnitsCount
<1> HIDE DEF U
<1>4. IsFiniteSet(UNION U)
  BY <1>2, <1>3, FS_UNION
<1> QED BY <1>4 DEF AllUnits, U

\* The sum of a natural-valued function is a natural number.
THEOREM SumNatType ==
    ASSUME NEW S, IsFiniteSet(S), NEW f \in [S -> Nat]
    PROVE  SumNat(f) \in Nat
<1>1. IsFiniteSet(AllUnits(f, S))
  BY AllUnitsFinite
<1> QED BY <1>1, FS_CardinalityType DEF SumNat, AllUnits

\* One argument contributes its value.
LEMMA SumNatSplit ==
    ASSUME NEW S, IsFiniteSet(S), NEW f \in [S -> Nat], NEW x \in S
    PROVE  /\ Cardinality(AllUnits(f, S \ {x})) \in Nat
           /\ SumNat(f) = Cardinality(AllUnits(f, S \ {x})) + f[x]
<1> DEFINE R == AllUnits(f, S \ {x})
           V == Units(f, x)
<1>1. IsFiniteSet(S \ {x})
  BY FS_RemoveElement
<1>2. IsFiniteSet(R)
  BY <1>1, AllUnitsFinite
<1>3. IsFiniteSet(V) /\ Cardinality(V) = f[x]
  BY UnitsCount
<1>4. R \cap V = {}
  BY DEF AllUnits, Units
<1>5. UNION {Units(f, y) : y \in S} = R \cup V
  BY DEF AllUnits
<1> HIDE DEF R, V
<1>6. Cardinality(R \cup V) = Cardinality(R) + Cardinality(V) - Cardinality(R \cap V)
  BY <1>2, <1>3, FS_Union
<1>7. Cardinality(R) \in Nat /\ Cardinality(R \cap V) = 0
  BY <1>2, <1>4, FS_CardinalityType, FS_EmptySet
<1>8. DOMAIN f = S
  OBVIOUS
<1>9. SumNat(f) = Cardinality(R \cup V)
  BY <1>5, <1>8 DEF SumNat
<1>10. SumNat(f) = Cardinality(R) + f[x]
  BY <1>3, <1>6, <1>7, <1>9
<1> QED BY <1>7, <1>10 DEF R

\* Functions that agree everywhere but at x have sums that differ as their
\* values at x do.
THEOREM SumNatUpdate ==
    ASSUME NEW S, IsFiniteSet(S), NEW f \in [S -> Nat], NEW g \in [S -> Nat],
           NEW x \in S, \A y \in S \ {x} : g[y] = f[y]
    PROVE  SumNat(g) = SumNat(f) - f[x] + g[x]
<1>1. AllUnits(g, S \ {x}) = AllUnits(f, S \ {x})
  BY DEF AllUnits, Units
<1>2. /\ Cardinality(AllUnits(f, S \ {x})) \in Nat
      /\ SumNat(f) = Cardinality(AllUnits(f, S \ {x})) + f[x]
  BY SumNatSplit
<1>3. SumNat(g) = Cardinality(AllUnits(g, S \ {x})) + g[x]
  BY SumNatSplit
<1> QED BY <1>1, <1>2, <1>3

\* A sum grows with its terms.
THEOREM SumNatMonotone ==
    ASSUME NEW S, IsFiniteSet(S), NEW f \in [S -> Nat], NEW g \in [S -> Nat],
           \A x \in S : f[x] <= g[x]
    PROVE  SumNat(f) <= SumNat(g)
<1>1. \A x \in S : Units(f, x) \subseteq Units(g, x)
  BY DEF Units
<1>2. AllUnits(f, S) \subseteq AllUnits(g, S)
  BY <1>1 DEF AllUnits
<1>3. IsFiniteSet(AllUnits(g, S))
  BY AllUnitsFinite
<1>4. Cardinality(AllUnits(f, S)) <= Cardinality(AllUnits(g, S))
  BY <1>2, <1>3, FS_Subset
<1> QED BY <1>4 DEF SumNat, AllUnits

\* The sum of zeros is zero.
THEOREM SumNatZero ==
    ASSUME NEW S, NEW f \in [S -> Nat], \A x \in S : f[x] = 0
    PROVE  SumNat(f) = 0
<1>1. \A x \in S : Units(f, x) = {}
  BY DEF Units
<1>2. UNION {Units(f, x) : x \in S} = {}
  BY <1>1
<1>3. DOMAIN f = S
  OBVIOUS
<1> QED BY <1>2, <1>3, FS_EmptySet DEF SumNat

=============================================================================
