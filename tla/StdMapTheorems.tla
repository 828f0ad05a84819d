--------------------------- MODULE StdMapTheorems --------------------------
(***************************************************************************)
(* Facts about the maps of the two pintools, cited by the proofs about     *)
(* them: what an insertion does to a map and to the number of its units.   *)
(***************************************************************************)
EXTENDS StdMap, FiniteSetTheorems, TLAPS

\* The empty map is a map of any type (the initial value of every table).
LEMMA EmptyMapIsMap ==
  ASSUME NEW K, NEW V
  PROVE  IsMap(EmptyMap, K, V) /\ DOMAIN EmptyMap = {}
BY DEF EmptyMap, IsMap

\* An insertion keeps the type of a map and adds its key to the domain.
LEMMA PutIsMap ==
  ASSUME NEW K, NEW V, NEW m, IsMap(m, K, V), NEW k \in K, NEW v \in V
  PROVE  /\ IsMap(Put(m, k, v), K, V)
         /\ DOMAIN Put(m, k, v) = DOMAIN m \cup {k}
BY DEF Put, IsMap

\* What an insertion leaves at each key.
LEMMA PutApply ==
  ASSUME NEW m, NEW k, NEW v
  PROVE  /\ DOMAIN Put(m, k, v) = DOMAIN m \cup {k}
         /\ Put(m, k, v)[k] = v
         /\ \A x \in DOMAIN m : x # k => Put(m, k, v)[x] = m[x]
BY DEF Put

\* A lookup returns a value of the map's type.
LEMMA LookupType ==
  ASSUME NEW K, NEW V, NEW m, IsMap(m, K, V), NEW k, NEW d \in V
  PROVE  Lookup(m, k, d) \in V
BY DEF Lookup, IsMap

\* Membership in the units of a map of counts.
LEMMA UnitsMember ==
  ASSUME NEW m
  PROVE  \A e : e \in Units(m) <=>
            \E k \in DOMAIN m : \E i \in 1 .. m[k] : e = <<k, i>>
BY DEF Units

\* The same for a pair.
LEMMA UnitsPair ==
  ASSUME NEW m, NEW x, NEW i
  PROVE  <<x, i>> \in Units(m) <=> x \in DOMAIN m /\ i \in 1 .. m[x]
BY UnitsMember

\* The units counted under k alone, and under all other keys.
Column(k, c) == {k} \X (1 .. c)

Others(m, k) == {e \in Units(m) : e[1] # k}

\* A column of height c has c units.
LEMMA ColumnSize ==
  ASSUME NEW k, NEW c \in Nat
  PROVE  IsFiniteSet(Column(k, c)) /\ Cardinality(Column(k, c)) = c
<1>1. IsFiniteSet({k}) /\ Cardinality({k}) = 1
  BY FS_Singleton
<1>2. IsFiniteSet(1 .. c) /\ Cardinality(1 .. c) = c
  BY FS_Interval
<1> DEFINE S == {k}
           T == 1 .. c
<1> HIDE DEF S, T
<1>3. Cardinality(S \X T) = Cardinality(S) * Cardinality(T) /\ IsFiniteSet(S \X T)
  BY <1>1, <1>2, FS_Product DEF S, T
<1>4. Cardinality(S) = 1 /\ Cardinality(T) = c
  BY <1>1, <1>2 DEF S, T
<1>5. Column(k, c) = S \X T
  BY DEF Column, S, T
<1> QED BY <1>3, <1>4, <1>5

\* The units of a map are one column and the rest.
LEMMA UnitsSplit ==
  ASSUME NEW m, NEW k, m \in [DOMAIN m -> Nat]
  PROVE  /\ Units(m) = Others(m, k) \cup Column(k, Lookup(m, k, 0))
         /\ Others(m, k) \cap Column(k, Lookup(m, k, 0)) = {}
<1>1. ASSUME NEW e \in Units(m), e[1] = k
      PROVE  e \in Column(k, Lookup(m, k, 0))
  BY <1>1, UnitsMember DEF Column, Lookup
<1>2. ASSUME NEW e \in Column(k, Lookup(m, k, 0))
      PROVE  e \in Units(m) /\ e[1] = k
  <2>1. PICK i \in 1 .. Lookup(m, k, 0) : e = <<k, i>>
    BY DEF Column
  <2>2. k \in DOMAIN m /\ i \in 1 .. m[k]
    BY <2>1 DEF Lookup
  <2> QED BY <2>1, <2>2, UnitsMember
<1> QED BY <1>1, <1>2 DEF Others

\* An insertion at k leaves the units of the other keys alone.
LEMMA PutOthers ==
  ASSUME NEW m, NEW k, NEW v
  PROVE  Others(Put(m, k, v), k) = Others(m, k)
<1> DEFINE n == Put(m, k, v)
<1>1. ASSUME NEW x, x # k, NEW i
      PROVE  <<x, i>> \in Units(n) <=> <<x, i>> \in Units(m)
  <2>1. x \in DOMAIN n <=> x \in DOMAIN m
    BY <1>1 DEF Put
  <2>2. x \in DOMAIN m => n[x] = m[x]
    BY <1>1 DEF Put
  <2>3. <<x, i>> \in Units(n) <=> x \in DOMAIN n /\ i \in 1 .. n[x]
    BY UnitsPair
  <2>4. <<x, i>> \in Units(m) <=> x \in DOMAIN m /\ i \in 1 .. m[x]
    BY UnitsPair
  <2> QED BY <2>1, <2>2, <2>3, <2>4
<1>2. ASSUME NEW e \in Units(n) \cup Units(m), e[1] # k
      PROVE  e \in Units(n) <=> e \in Units(m)
  <2>1. PICK x, i : e = <<x, i>>
    BY UnitsMember
  <2> QED BY <1>1, <1>2, <2>1
<1> QED BY <1>2 DEF Others

\* The number of units of a map is the height of one column and the rest.
LEMMA UnitsSize ==
  ASSUME NEW m, NEW k, m \in [DOMAIN m -> Nat], IsFiniteSet(Others(m, k))
  PROVE  /\ IsFiniteSet(Units(m))
         /\ Cardinality(Units(m))
              = Cardinality(Others(m, k)) + Lookup(m, k, 0)
<1> DEFINE c == Lookup(m, k, 0)
<1> HIDE DEF c
<1>1. c \in Nat
  BY DEF Lookup, c
<1>2. IsFiniteSet(Column(k, c)) /\ Cardinality(Column(k, c)) = c
  BY <1>1, ColumnSize
<1>3. Units(m) = Others(m, k) \cup Column(k, c)
  BY UnitsSplit DEF c
<1>4. Cardinality(Others(m, k) \cap Column(k, c)) = 0
  BY UnitsSplit, FS_EmptySet DEF c
<1>5. Cardinality(Others(m, k)) \in Nat
  BY FS_CardinalityType
<1>6. /\ IsFiniteSet(Units(m))
      /\ Cardinality(Units(m)) = Cardinality(Others(m, k)) + c - 0
  BY <1>2, <1>3, <1>4, FS_Union
<1> QED BY <1>1, <1>5, <1>6 DEF c

\* An insertion at k changes the number of units by what it changes at k.
LEMMA UnitsPut ==
  ASSUME NEW m, NEW k, NEW v \in Nat, m \in [DOMAIN m -> Nat],
         IsFiniteSet(Units(m))
  PROVE  /\ IsFiniteSet(Units(Put(m, k, v)))
         /\ Cardinality(Units(Put(m, k, v)))
              = Cardinality(Units(m)) - Lookup(m, k, 0) + v
<1> DEFINE c == Lookup(m, k, 0)
           n == Put(m, k, v)
<1>1. c \in Nat
  BY DEF Lookup
<1>2. IsFiniteSet(Others(m, k))
  BY FS_Subset DEF Others
<1>3. n \in [DOMAIN n -> Nat] /\ Lookup(n, k, 0) = v
  BY DEF Put, Lookup
<1>4. Cardinality(Units(m)) = Cardinality(Others(m, k)) + c
  BY <1>2, UnitsSize
<1>5. /\ IsFiniteSet(Units(n))
      /\ Cardinality(Units(n)) = Cardinality(Others(m, k)) + v
  BY <1>2, <1>3, PutOthers, UnitsSize
<1>6. Cardinality(Others(m, k)) \in Nat
  BY <1>2, FS_CardinalityType
<1> QED BY <1>1, <1>4, <1>5, <1>6

\* One more unit at k, counted from zero when k is new.
LEMMA UnitsNext ==
  ASSUME NEW m, NEW k, m \in [DOMAIN m -> Nat]
  PROVE  LET c == Lookup(m, k, 0)
             n == Put(m, k, c + 1)
         IN  /\ Units(n) = Units(m) \cup {<<k, c + 1>>}
             /\ <<k, c + 1>> \notin Units(m)
<1> DEFINE c == Lookup(m, k, 0)
           n == Put(m, k, c + 1)
<1>1. c \in Nat
  BY DEF Lookup
<1>2. Column(k, c + 1) = Column(k, c) \cup {<<k, c + 1>>}
  BY <1>1 DEF Column
<1>3. n \in [DOMAIN n -> Nat] /\ Lookup(n, k, 0) = c + 1
  BY <1>1 DEF Put, Lookup
<1>4. Units(n) = Others(n, k) \cup Column(k, c + 1)
  BY <1>3, UnitsSplit
<1>5. Units(n) = Units(m) \cup {<<k, c + 1>>}
  BY <1>2, <1>4, UnitsSplit, PutOthers
<1>6. <<k, c + 1>> \notin Units(m)
  BY <1>1, UnitsPair DEF Lookup
<1> QED BY <1>5, <1>6

\* Appending to the sequence of k makes it one longer.
LEMMA LengthsAppend ==
  ASSUME NEW S, NEW m, m \in [DOMAIN m -> Seq(S)], NEW k, NEW e \in S
  PROVE  /\ Lengths(Put(m, k, Append(Lookup(m, k, <<>>), e)))
              = Put(Lengths(m), k, Lookup(Lengths(m), k, 0) + 1)
         /\ Lengths(m) \in [DOMAIN m -> Nat]
<1> DEFINE s == Append(Lookup(m, k, <<>>), e)
           l == Lengths(Put(m, k, s))
           r == Put(Lengths(m), k, Lookup(Lengths(m), k, 0) + 1)
<1>1. Lookup(m, k, <<>>) \in Seq(S)
  BY DEF Lookup
<1>2. Len(s) = Lookup(Lengths(m), k, 0) + 1
  BY <1>1 DEF Lookup, Lengths
<1>3. DOMAIN l = DOMAIN m \cup {k} /\ DOMAIN r = DOMAIN m \cup {k}
  BY DEF Lengths, Put
<1>4. ASSUME NEW x \in DOMAIN m \cup {k} PROVE l[x] = r[x]
  BY <1>2 DEF Lengths, Put
<1>5. l = r
  BY <1>3, <1>4 DEF Lengths, Put
<1>6. Lengths(m) \in [DOMAIN m -> Nat]
  BY DEF Lengths
<1> QED BY <1>5, <1>6

\* The empty map has no units.
LEMMA UnitsEmpty ==
  IsFiniteSet(Units(EmptyMap)) /\ Cardinality(Units(EmptyMap)) = 0
<1>1. Units(EmptyMap) = {}
  BY DEF Units, EmptyMap
<1> QED BY <1>1, FS_EmptySet
-----------------------------------------------------------------------------
(***************************************************************************)
(* Maps of sequences: one cell <<k, i>> for each element, and the cells    *)
(* that hold a given element.                                              *)
(***************************************************************************)
Cells(m) == Units(Lengths(m))
CellsWith(m, o) == {c \in Cells(m) : m[c[1]][c[2]] = o}

\* m[k].push_back(e)
PushedBack(m, k, e) == Put(m, k, Append(Lookup(m, k, <<>>), e))

\* Appending an element to one of the sequences adds one cell, which holds
\* that element, and changes no other cell.
LEMMA CellsNext ==
  ASSUME NEW S, NEW m, m \in [DOMAIN m -> Seq(S)], NEW k, NEW e \in S, NEW o,
         NEW n, n = Put(m, k, Append(Lookup(m, k, <<>>), e)),
         NEW new, new = <<k, Len(Lookup(m, k, <<>>)) + 1>>
  PROVE  /\ Cells(n) = Cells(m) \cup {new}
         /\ new \notin Cells(m)
         /\ CellsWith(n, o) = IF e = o THEN CellsWith(m, o) \cup {new}
                              ELSE CellsWith(m, o)
<1> DEFINE h == Lookup(m, k, <<>>)
           l == Lengths(m)
<1>1. h \in Seq(S) /\ Len(h) \in Nat
  <2>1. <<>> \in Seq(S)
    OBVIOUS
  <2>2. h \in Seq(S)
    BY <2>1 DEF Lookup
  <2> QED BY <2>2
<1>2. Lengths(n) = Put(l, k, Lookup(l, k, 0) + 1) /\ l \in [DOMAIN l -> Nat]
  <2>1. Lengths(Put(m, k, Append(Lookup(m, k, <<>>), e)))
           = Put(Lengths(m), k, Lookup(Lengths(m), k, 0) + 1)
    BY LengthsAppend
  <2>2. l \in [DOMAIN m -> Nat] /\ DOMAIN l = DOMAIN m
    BY DEF Lengths
  <2> QED BY <2>1, <2>2
<1>3. Lookup(l, k, 0) = Len(h)
  BY DEF Lookup, Lengths
<1>4. new = <<k, Len(h) + 1>> /\ n = Put(m, k, Append(h, e))
  OBVIOUS
<1> HIDE DEF h
<1>5. Cells(n) = Cells(m) \cup {new} /\ new \notin Cells(m)
  <2>1. /\ Units(Lengths(n)) = Units(l) \cup {<<k, Len(h) + 1>>}
        /\ <<k, Len(h) + 1>> \notin Units(l)
    BY <1>2, <1>3, UnitsNext
  <2> QED BY <1>4, <2>1 DEF Cells
<1>6. n[new[1]][new[2]] = e
  <2>1. n[k] = Append(h, e)
    BY <1>4 DEF Put
  <2> QED BY <1>1, <1>4, <2>1
<1>7. ASSUME NEW c \in Cells(m) PROVE n[c[1]][c[2]] = m[c[1]][c[2]]
  <2>1. PICK x, i : c = <<x, i>>
    BY UnitsMember DEF Cells
  <2>2. x \in DOMAIN m /\ i \in 1 .. Len(m[x])
    BY <2>1, UnitsPair DEF Cells, Lengths
  <2>3. CASE x # k
    BY <1>4, <2>1, <2>2, <2>3 DEF Put
  <2>4. CASE x = k
    <3>1. h = m[x] /\ n[x] = Append(h, e)
      BY <1>4, <2>2, <2>4 DEF Lookup, Put, h
    <3>2. Append(h, e)[i] = h[i]
      BY <1>1, <2>2, <3>1
    <3> QED BY <2>1, <3>1, <3>2
  <2> QED BY <2>3, <2>4
<1>8. CellsWith(n, o) = IF e = o THEN CellsWith(m, o) \cup {new}
                        ELSE CellsWith(m, o)
  BY <1>5, <1>6, <1>7 DEF CellsWith
<1> QED BY <1>5, <1>8

\* ... so that the number of cells, and of cells with that element, grow by 1.
LEMMA CellsCount ==
  ASSUME NEW S, NEW m, m \in [DOMAIN m -> Seq(S)], NEW k, NEW e \in S, NEW o,
         IsFiniteSet(Cells(m))
  PROVE  /\ IsFiniteSet(Cells(PushedBack(m, k, e)))
         /\ Cardinality(Cells(PushedBack(m, k, e))) = Cardinality(Cells(m)) + 1
         /\ Cardinality(CellsWith(PushedBack(m, k, e), o))
              = Cardinality(CellsWith(m, o)) + (IF e = o THEN 1 ELSE 0)
         /\ Cardinality(CellsWith(m, o)) \in Nat
<1> DEFINE n == PushedBack(m, k, e)
<1>1. PICK new : new = <<k, Len(Lookup(m, k, <<>>)) + 1>>
  OBVIOUS
<1>2. /\ Cells(n) = Cells(m) \cup {new} /\ new \notin Cells(m)
      /\ CellsWith(n, o) = IF e = o THEN CellsWith(m, o) \cup {new}
                           ELSE CellsWith(m, o)
  <2>1. n = Put(m, k, Append(Lookup(m, k, <<>>), e))
    BY DEF PushedBack
  <2> HIDE DEF n
  <2> QED BY <1>1, <2>1, CellsNext, Z3
<1> HIDE DEF n
<1>3. CellsWith(m, o) \in SUBSET Cells(m)
  BY DEF CellsWith
<1>4. IsFiniteSet(CellsWith(m, o)) /\ Cardinality(CellsWith(m, o)) \in Nat
  BY <1>3, FS_Subset, FS_CardinalityType
<1>5. new \notin CellsWith(m, o)
  BY <1>2, <1>3
<1>6. IsFiniteSet(Cells(n)) /\ Cardinality(Cells(n)) = Cardinality(Cells(m)) + 1
  BY <1>2, FS_AddElement
<1>7. Cardinality(CellsWith(m, o) \cup {new}) = Cardinality(CellsWith(m, o)) + 1
  BY <1>4, <1>5, FS_AddElement
<1>8. Cardinality(CellsWith(n, o))
        = Cardinality(CellsWith(m, o)) + (IF e = o THEN 1 ELSE 0)
  <2>1. CASE e = o
    BY <1>2, <1>7, <2>1
  <2>2. CASE e # o
    BY <1>2, <1>4, <2>2
  <2> QED BY <2>1, <2>2
<1> QED BY <1>4, <1>6, <1>8 DEF n

LEMMA CellsEmpty ==
  /\ IsFiniteSet(Cells(EmptyMap)) /\ Cardinality(Cells(EmptyMap)) = 0
  /\ \A o : Cardinality(CellsWith(EmptyMap, o)) = 0
<1>1. Cells(EmptyMap) = {}
  BY DEF Cells, Units, Lengths, EmptyMap
<1>2. \A o : CellsWith(EmptyMap, o) = {}
  BY <1>1 DEF CellsWith
<1> QED BY <1>1, <1>2, FS_EmptySet
=============================================================================
