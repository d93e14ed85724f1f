---------------------------- MODULE TotalsProofs -----------------------------
(***************************************************************************)
(* Lemmas about the totals of Totals, for every finite table of natural    *)
(* numbers.                                                                *)
(***************************************************************************)
EXTENDS Totals, FiniteSetTheorems, TLAPS

\* One row has as many units as its entry says.
LEMMA RowUnits ==
  ASSUME NEW x, NEW k \in Nat
  PROVE  /\ IsFiniteSet({x} \X (1 .. k))
         /\ Cardinality({x} \X (1 .. k)) = k
<1>1. IsFiniteSet({x}) /\ Cardinality({x}) = 1
  BY FS_Singleton
<1>2. IsFiniteSet(1 .. k) /\ Cardinality(1 .. k) = k
  BY FS_Interval
<1>3. /\ IsFiniteSet({x} \X (1 .. k))
      /\ Cardinality({x} \X (1 .. k)) = Cardinality({x}) * Cardinality(1 .. k)
  BY <1>1, <1>2, FS_Product, Zenon
<1> QED BY <1>1, <1>2, <1>3

\* A unit is a row and a number that is at most the entry of the row.
LEMMA UnitsAre ==
  ASSUME NEW f, NEW u
  PROVE  u \in Units(f) <=> \E x \in DOMAIN f : u \in {x} \X (1 .. f[x])
BY DEF Units

\* The units of a finite table are finitely many.
LEMMA UnitsAreFinite ==
  ASSUME NEW S, IsFiniteSet(S), NEW f \in [S -> Nat]
  PROVE  IsFiniteSet(Units(f))
<1> DEFINE Row(x) == {x} \X (1 .. f[x])
           Rows == {Row(x) : x \in S}
           row == [x \in S |-> Row(x)]
<1>1. \A R \in Rows : IsFiniteSet(R)
  <2> SUFFICES ASSUME NEW x \in S PROVE IsFiniteSet(Row(x))
    OBVIOUS
  <2>1. f[x] \in Nat
    OBVIOUS
  <2> QED BY <2>1, RowUnits, Zenon
<1>2. IsFiniteSet(Rows)
  <2>1. \A R \in Rows : \E x \in S : row[x] = R
    OBVIOUS
  <2>2. row \in [S -> Rows]
    OBVIOUS
  <2> HIDE DEF row, Rows
  <2>3. row \in Surjection(S, Rows)
    BY <2>1, <2>2 DEF Surjection
  <2> QED BY <2>3, FS_Surjection
<1>3. IsFiniteSet(UNION Rows)
  <2> HIDE DEF Rows
  <2> QED BY <1>1, <1>2, FS_UNION
<1> QED BY <1>3 DEF Units

\* The total of a finite table is a natural number.
LEMMA TotalIsNat ==
  ASSUME NEW S, IsFiniteSet(S), NEW f \in [S -> Nat]
  PROVE  Total(f) \in Nat
BY UnitsAreFinite, FS_CardinalityType DEF Total

\* A table of zeros has the total zero.
LEMMA TotalOfZeros ==
  ASSUME NEW f, \A x \in DOMAIN f : f[x] = 0
  PROVE  Total(f) = 0
<1>1. Units(f) = {}
  BY DEF Units
<1> QED BY <1>1, FS_EmptySet DEF Total

\* Two tables that agree outside one row differ in total as they differ there; a row
\* that one of them lacks counts as zero.
LEMMA TotalWithout ==
  ASSUME NEW S, IsFiniteSet(S), NEW x \in S, NEW f \in [S -> Nat],
         NEW T, T = S \ {x}, NEW g \in [T -> Nat], \A y \in T : g[y] = f[y]
  PROVE  Total(f) = Total(g) + f[x]
<1> DEFINE row == {x} \X (1 .. f[x])
<1>1. IsFiniteSet(Units(g)) /\ IsFiniteSet(row) /\ Cardinality(row) = f[x]
  <2>1. IsFiniteSet(T)
    BY FS_RemoveElement
  <2> QED BY <2>1, UnitsAreFinite, RowUnits, Zenon
<1>2. Units(f) = Units(g) \cup row
  <2>1. ASSUME NEW u \in Units(f) PROVE u \in Units(g) \cup row
    <3>1. PICK y \in S : u \in {y} \X (1 .. f[y])
      BY UnitsAre
    <3>2. CASE y = x
      BY <3>1, <3>2
    <3>3. CASE y # x
      BY <3>1, <3>3, UnitsAre
    <3> QED BY <3>2, <3>3
  <2>2. ASSUME NEW u \in Units(g) PROVE u \in Units(f)
    <3>1. PICK y \in T : u \in {y} \X (1 .. g[y])
      BY UnitsAre
    <3> QED BY <3>1, UnitsAre
  <2>3. ASSUME NEW u \in row PROVE u \in Units(f)
    BY UnitsAre
  <2> QED BY <2>1, <2>2, <2>3
<1>3. Units(g) \cap row = {}
  <2> SUFFICES ASSUME NEW u \in Units(g), u \in row PROVE FALSE
    OBVIOUS
  <2>1. PICK y \in T : u \in {y} \X (1 .. g[y])
    BY UnitsAre
  <2> QED BY <2>1
<1> HIDE DEF row
<1>4. Cardinality(Units(g) \cup row) = Cardinality(Units(g)) + Cardinality(row) - 0
  BY <1>1, <1>3, FS_Union, FS_EmptySet
<1>5. Cardinality(Units(g)) \in Nat
  BY <1>1, FS_CardinalityType
<1> QED BY <1>1, <1>2, <1>4, <1>5 DEF Total

\* Changing one row changes the total by the difference.
LEMMA TotalChanges ==
  ASSUME NEW S, IsFiniteSet(S), NEW x \in S, NEW f \in [S -> Nat], NEW g \in [S -> Nat],
         \A y \in S \ {x} : g[y] = f[y]
  PROVE  Total(g) = Total(f) - f[x] + g[x]
<1> DEFINE T == S \ {x}
           rest == [y \in T |-> f[y]]
<1>1. rest \in [T -> Nat] /\ \A y \in T : rest[y] = f[y] /\ rest[y] = g[y]
  OBVIOUS
<1>2. IsFiniteSet(T)
  BY FS_RemoveElement
<1> HIDE DEF rest
<1>3. Total(rest) \in Nat
  BY <1>1, <1>2, TotalIsNat
<1>4. Total(f) = Total(rest) + f[x]
  BY <1>1, TotalWithout
<1>5. Total(g) = Total(rest) + g[x]
  BY <1>1, TotalWithout
<1> QED BY <1>3, <1>4, <1>5

\* No row holds more than the total.
LEMMA RowWithinTotal ==
  ASSUME NEW S, IsFiniteSet(S), NEW x \in S, NEW f \in [S -> Nat]
  PROVE  f[x] <= Total(f)
<1> DEFINE T == S \ {x}
           rest == [y \in T |-> f[y]]
<1>1. rest \in [T -> Nat] /\ \A y \in T : rest[y] = f[y]
  OBVIOUS
<1>2. IsFiniteSet(T)
  BY FS_RemoveElement
<1> HIDE DEF rest
<1>3. Total(rest) \in Nat
  BY <1>1, <1>2, TotalIsNat
<1>4. Total(f) = Total(rest) + f[x]
  BY <1>1, TotalWithout
<1> QED BY <1>3, <1>4

\* A part of a finite table is a finite table.
LEMMA PartIsTable ==
  ASSUME NEW f, IsFiniteSet(DOMAIN f), f \in [DOMAIN f -> Nat], NEW S
  PROVE  /\ IsFiniteSet(S \cap DOMAIN f)
         /\ Part(f, S) \in [S \cap DOMAIN f -> Nat]
         /\ IsFiniteSet(Units(Part(f, S)))
         /\ Total(Part(f, S)) \in Nat
<1>1. S \cap DOMAIN f \in SUBSET DOMAIN f
  OBVIOUS
<1>2. IsFiniteSet(S \cap DOMAIN f)
  BY <1>1, FS_Subset
<1>3. Part(f, S) \in [S \cap DOMAIN f -> Nat]
  BY DEF Part
<1> QED BY <1>2, <1>3, UnitsAreFinite, TotalIsNat

\* The units of a part are the units of its rows.
LEMMA PartUnits ==
  ASSUME NEW f, NEW S, NEW u
  PROVE  u \in Units(Part(f, S)) <=> \E x \in S \cap DOMAIN f : u \in {x} \X (1 .. f[x])
<1>1. DOMAIN Part(f, S) = S \cap DOMAIN f /\ \A x \in S \cap DOMAIN f : Part(f, S)[x] = f[x]
  BY DEF Part
<1> QED BY <1>1, UnitsAre

\* A part with more rows has no smaller total.
LEMMA PartGrows ==
  ASSUME NEW f, IsFiniteSet(DOMAIN f), f \in [DOMAIN f -> Nat], NEW S, NEW T,
         S \cap DOMAIN f \subseteq T
  PROVE  Total(Part(f, S)) <= Total(Part(f, T))
<1>1. Units(Part(f, S)) \in SUBSET Units(Part(f, T))
  BY PartUnits
<1> QED BY <1>1, PartIsTable, FS_Subset, Zenon DEF Total

\* Inclusion and exclusion for the totals of two parts.
LEMMA PartsOverlap ==
  ASSUME NEW f, IsFiniteSet(DOMAIN f), f \in [DOMAIN f -> Nat], NEW S, NEW T
  PROVE  Total(Part(f, S \cup T)) =
           Total(Part(f, S)) + Total(Part(f, T)) - Total(Part(f, S \cap T))
<1> DEFINE U(R) == Units(Part(f, R))
<1>1. U(S \cup T) = U(S) \cup U(T)
  BY PartUnits
<1>2. U(S \cap T) = U(S) \cap U(T)
  <2>1. ASSUME NEW u \in U(S \cap T) PROVE u \in U(S) \cap U(T)
    BY PartUnits
  <2>2. ASSUME NEW u \in U(S), u \in U(T) PROVE u \in U(S \cap T)
    <3>1. PICK x \in S \cap DOMAIN f : u \in {x} \X (1 .. f[x])
      BY PartUnits
    <3>2. PICK y \in T \cap DOMAIN f : u \in {y} \X (1 .. f[y])
      BY <2>2, PartUnits
    <3>3. x = y
      BY <3>1, <3>2
    <3> QED BY <3>1, <3>3, PartUnits
  <2> QED BY <2>1, <2>2, Zenon
<1>3. IsFiniteSet(U(S)) /\ IsFiniteSet(U(T))
  BY PartIsTable, Zenon
<1> HIDE DEF U
<1>4. Cardinality(U(S) \cup U(T)) =
        Cardinality(U(S)) + Cardinality(U(T)) - Cardinality(U(S) \cap U(T))
  BY <1>3, FS_Union
<1> QED BY <1>1, <1>2, <1>4, Zenon DEF Total, U

\* A part without rows has the total zero.
LEMMA NoPart ==
  ASSUME NEW f PROVE Total(Part(f, {})) = 0
<1>1. DOMAIN Part(f, {}) = {}
  BY DEF Part
<1> QED BY <1>1, TotalOfZeros
==============================================================================
