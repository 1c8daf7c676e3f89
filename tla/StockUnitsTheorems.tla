------------------------- MODULE StockUnitsTheorems -------------------------
(***************************************************************************)
(* How the number of units that a set of lines asks for changes when the   *)
(* lines of one order change.  Every handler touches one order, so these   *)
(* facts carry each of its steps from rows to totals.                      *)
(***************************************************************************)
EXTENDS StockUnits, FiniteSetTheorems, TLAPS

\* The units of the one line <<o, v>>.
LineUnits(o, v) == {o} \X (1..Demand[o][v])

\* The lines in L that belong to other orders than o.
OtherLines(L, o) == {l \in L : l[1] # o}

\* What the line <<o, v>> adds to the quantity of v if it is in L.
Share(L, o, v) == IF <<o, v>> \in L THEN Demand[o][v] ELSE 0

-----------------------------------------------------------------------------
LEMMA DemandType ==
    ASSUME NEW o \in Order, NEW v \in Variant
    PROVE  Demand[o][v] \in 0..MaxQuantity /\ Demand[o][v] \in Nat
BY StockUnitsAssumption DEF StockUnitsAssumption

\* Any set of lines asks for finitely many units.
LEMMA UnitsFinite ==
    ASSUME NEW L, NEW v
    PROVE  IsFiniteSet(Units(L, v)) /\ Quantity(L, v) \in Nat
<1>1. IsFiniteSet(Order \X (1..MaxQuantity))
  <2>1. IsFiniteSet(Order) /\ MaxQuantity \in Int
    BY StockUnitsAssumption DEF StockUnitsAssumption
  <2>2. IsFiniteSet(1..MaxQuantity)
    BY <2>1, FS_Interval
  <2>3. QED
    BY <2>1, <2>2, FS_Product
<1>2. Units(L, v) \in SUBSET (Order \X (1..MaxQuantity))
  BY DEF Units
<1>3. QED
  BY <1>1, <1>2, FS_Subset, FS_CardinalityType DEF Quantity

\* n units of one thing are n.
LEMMA PiecesOfOne ==
    ASSUME NEW x, NEW n \in Nat
    PROVE  IsFiniteSet({x} \X (1..n)) /\ Cardinality({x} \X (1..n)) = n
<1>1. IsFiniteSet({x}) /\ Cardinality({x}) = 1
  BY FS_Singleton
<1>2. /\ IsFiniteSet(1..n)
      /\ Cardinality(1..n) = IF 1 > n THEN 0 ELSE n - 1 + 1
  BY FS_Interval
<1>3. Cardinality(1..n) = n
  BY <1>2
<1>4. /\ IsFiniteSet({x} \X (1..n))
      /\ Cardinality({x} \X (1..n)) = Cardinality({x}) * Cardinality(1..n)
  BY <1>1, <1>2, FS_Product
<1>5. QED
  BY <1>1, <1>3, <1>4

\* A line asks for as many units as its quantity says.
LEMMA LineQuantity ==
    ASSUME NEW o \in Order, NEW v \in Variant
    PROVE  /\ IsFiniteSet(LineUnits(o, v))
           /\ Cardinality(LineUnits(o, v)) = Demand[o][v]
BY DemandType, PiecesOfOne DEF LineUnits

\* A quantity is the share of one order and the quantity of all others.
LEMMA QuantityByOrder ==
    ASSUME NEW L \in SUBSET (Order \X Variant), NEW o \in Order, NEW v \in Variant
    PROVE  Quantity(L, v) = Quantity(OtherLines(L, o), v) + Share(L, o, v)
<1> DEFINE rest == Units(OtherLines(L, o), v)
<1>1. IsFiniteSet(rest) /\ Cardinality(rest) \in Nat
  BY UnitsFinite DEF Quantity
<1>2. CASE <<o, v>> \in L
  <2>1. Units(L, v) = rest \union LineUnits(o, v)
    <3>1. Demand[o][v] \in 0..MaxQuantity /\ MaxQuantity \in Nat
      BY DemandType, StockUnitsAssumption DEF StockUnitsAssumption
    <3>2. LineUnits(o, v) \subseteq Units(L, v)
      BY <1>2, <3>1 DEF Units, LineUnits
    <3>3. rest \subseteq Units(L, v)
      BY DEF Units, OtherLines
    <3>4. ASSUME NEW u \in Units(L, v)
          PROVE  u \in rest \union LineUnits(o, v)
      BY <3>1 DEF Units, OtherLines, LineUnits
    <3>5. QED
      BY <3>2, <3>3, <3>4
  <2>2. rest \cap LineUnits(o, v) = {}
    BY DEF Units, OtherLines, LineUnits
  <2>3. Cardinality(Units(L, v)) = Cardinality(rest) + Demand[o][v] - 0
    BY <1>1, <2>1, <2>2, LineQuantity, FS_Union, FS_EmptySet
  <2>4. QED
    BY <1>1, <1>2, <2>3, DemandType DEF Quantity, Share
<1>3. CASE <<o, v>> \notin L
  <2>1. Units(L, v) = rest
    BY <1>3 DEF Units, OtherLines
  <2>2. QED
    BY <1>1, <1>3, <2>1 DEF Quantity, Share
<1>4. QED
  BY <1>2, <1>3

\* When only lines of o change, the quantity of v changes by the shares of o.
THEOREM QuantityChange ==
    ASSUME NEW L \in SUBSET (Order \X Variant), NEW M \in SUBSET (Order \X Variant),
           NEW o \in Order, NEW v \in Variant,
           OtherLines(M, o) = OtherLines(L, o)
    PROVE  /\ Quantity(M, v) = Quantity(L, v) - Share(L, o, v) + Share(M, o, v)
           /\ Quantity(L, v) \in Nat
           /\ Quantity(M, v) \in Nat
<1>1. Quantity(L, v) = Quantity(OtherLines(L, o), v) + Share(L, o, v)
  BY QuantityByOrder
<1>2. Quantity(M, v) = Quantity(OtherLines(L, o), v) + Share(M, o, v)
  BY QuantityByOrder
<1>3. Quantity(OtherLines(L, o), v) \in Nat /\ Quantity(L, v) \in Nat /\ Quantity(M, v) \in Nat
  BY UnitsFinite
<1>4. Share(L, o, v) \in Nat /\ Share(M, o, v) \in Nat
  BY DemandType DEF Share
<1>5. QED
  BY <1>1, <1>2, <1>3, <1>4
=============================================================================
