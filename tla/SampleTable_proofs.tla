------------------------- MODULE SampleTable_proofs -------------------------
(***************************************************************************)
(* Proofs that the column table the two threads of a sensor share never    *)
(* misfiles a row, that it spoils a search only in one order of their      *)
(* steps, and that an average is that of the rows of its window.           *)
(***************************************************************************)
EXTENDS SampleTable, FiniteSetTheorems, TLAPS

\* The pointer in the column table between an insert's store and its use, and
\* the text it has built from it; there are rows only once there is a table.
InsertInv ==
    /\ add = "build" => column \in {"own", "stack"}
    /\ add = "insert" => row.id = Dev
    /\ ~created => table = {}

\* The same for a search, which an insert may spoil.
SearchInv ==
    /\ tmr = "build" => \/ column \in {"own", "stack"}
                        \/ column = "dangling" /\ crossed
    /\ tmr \in {"exec", "read"} => id = Dev \/ (id = Junk /\ crossed)

Inv == InsertInv /\ SearchInv /\ RowsAreFiled /\ WindowIsAveraged

\* Inv holds at first, ...
LEMMA InitInv == Init => Inv
BY DEF Init, Inv, InsertInv, SearchInv, RowsAreFiled, WindowIsAveraged

\* What a pointer that is no dangling one names.
LEMMA TextOfLive ==
    /\ \A p \in {"own", "stack"} : TextOf(p) = {Dev}
    /\ TextOf("dangling") = {Dev, Junk}
BY DEF TextOf

\* ... and every step of either thread keeps it.
LEMMA StepInv == Inv /\ [Next]_vars => Inv'
<1> SUFFICES ASSUME Inv, [Next]_vars PROVE Inv'
  OBVIOUS
<1> USE DEF Inv, InsertInv, SearchInv, RowsAreFiled, WindowIsAveraged
<1>1. CASE Tick
  BY <1>1 DEF Tick, fileVars, addVars, tmrVars
<1>2. ASSUME NEW v \in Values, Sample(v) PROVE Inv'
  BY <1>2 DEF Sample, fileVars, tmrVars
<1>3. CASE CreateTable
  BY <1>3 DEF CreateTable, tmrVars
<1>4. CASE SetColumns
  BY <1>4 DEF SetColumns, fileVars, tmrVars
<1>5. CASE BuildInsert
  <2> USE <1>5 DEF BuildInsert, fileVars, tmrVars
  <2>1. TextOf(column) = {Dev}
    BY TextOfLive
  <2>2. row'.id = Dev
    BY <2>1
  <2> QED BY <2>2
<1>6. CASE Insert
  <2> USE <1>6 DEF Insert, tmrVars
  <2>1. \A r \in table' : r.id = Dev
    OBVIOUS
  <2>2. ~created => table' = {}
    OBVIOUS
  <2> QED BY <2>1, <2>2
<1>7. CASE AddReturns
  BY <1>7 DEF AddReturns, fileVars, tmrVars
<1>8. CASE AverageStart
  BY <1>8 DEF AverageStart, fileVars, addVars
<1>9. CASE SearchSetsColumn
  BY <1>9 DEF SearchSetsColumn, fileVars, addVars
<1>10. CASE BuildSearch
  <2> USE <1>10 DEF BuildSearch, fileVars, addVars
  <2>1. id' = Dev \/ (id' = Junk /\ crossed')
    BY TextOfLive
  <2> QED BY <2>1
<1>11. CASE SearchError
  <2> USE <1>11 DEF SearchError, fileVars, addVars
  <2>1. created /\ ~failed' => id = Junk /\ crossed
    BY ConstantsAssumption
  <2>2. ~created => window' = {}
    BY DEF Matching
  <2> QED BY <2>1, <2>2
<1>12. CASE SearchBegins
  BY <1>12 DEF SearchBegins, fileVars, addVars
<1>13. CASE SearchReads
  <2> USE <1>13 DEF SearchReads, Matching, fileVars, addVars
  <2>1. CASE id = Dev
    <3>1. found' = window'
      BY <2>1
    <3> QED BY <3>1
  <2>2. CASE id = Junk /\ crossed
    <3>1. found' = {}
      BY <2>2, ConstantsAssumption
    <3> QED BY <2>2, <3>1
  <2> QED BY <2>1, <2>2
<1>14. CASE AverageEnds
  BY <1>14 DEF AverageEnds, fileVars, addVars
<1>15. CASE SearchOpenFails
  BY <1>15 DEF SearchOpenFails, fileVars, addVars
<1>16. CASE SearchBreaks
  BY <1>16 DEF SearchBreaks, fileVars, addVars
<1>17. CASE UNCHANGED vars
  BY <1>17 DEF vars, fileVars, addVars, tmrVars
<1> QED
  BY <1>1, <1>2, <1>3, <1>4, <1>5, <1>6, <1>7, <1>8, <1>9, <1>10, <1>11, <1>12,
     <1>13, <1>14, <1>15, <1>16, <1>17 DEF Next, Adder, Timer

\* Inv holds always: what either thread finds in the column table is alive, but
\* for a search that an insert crossed.
THEOREM Invariance == Spec => []Inv
BY InitInv, StepInv, PTL DEF Spec

\* Whatever the ids, temperatures, interval and clock, every row is filed under
\* its own device, although a search overwrites the pointer of an insert.
THEOREM Filed == Spec => []RowsAreFiled
<1>1. Inv => RowsAreFiled
  BY DEF Inv
<1> QED BY <1>1, Invariance, PTL

\* A search that SQLite does not fail sees its whole window or, after an insert
\* that crossed it, nothing; one that fails sees no row of another window.
THEOREM AllOrNothing == Spec => []WindowIsAveraged
<1>1. Inv => WindowIsAveraged
  BY DEF Inv
<1> QED BY <1>1, Invariance, PTL

-----------------------------------------------------------------------------
(* The average                                                             *)

\* Every nonempty set of naturals has a least element.
LEMMA Least ==
  ASSUME NEW T, T \subseteq Nat, T # {}
  PROVE  \E n \in T : \A k \in T : n <= k
<1>1. \E x \in T : \A y \in T : ~ (<<y, x>> \in OpToRel(<, Nat))
  BY NatLessThanWellFounded, WFMin
<1>2. ASSUME NEW x \in T, NEW y \in T, <<y, x>> \notin OpToRel(<, Nat) PROVE x <= y
  BY <1>2 DEF OpToRel
<1> QED BY <1>1, <1>2

\* A set of naturals that has 0 and with each number the next has all.
LEMMA Induction ==
  ASSUME NEW T, T \subseteq Nat, 0 \in T, \A n \in T : n + 1 \in T
  PROVE  \A n \in Nat : n \in T
<1> SUFFICES ASSUME NEW k \in Nat, k \notin T PROVE FALSE
  OBVIOUS
<1> DEFINE U == {n \in Nat : n \notin T}
<1>1. PICK n \in U : \A j \in U : n <= j
  <2>1. U # {} /\ U \subseteq Nat
    OBVIOUS
  <2> HIDE DEF U
  <2> QED BY <2>1, Least
<1>2. n - 1 \in T
  BY <1>1
<1> QED BY <1>1, <1>2

\* The recursion of MapThenSumSet over the subsets of a finite set.
One(t) == CHOOSE x \in t : TRUE
IsSum(s, it) ==
  it = [t \in SUBSET s |-> IF t = {} THEN 0 ELSE One(t).value + it[t \ {One(t)}]]

\* SumOf, the sum of a window, is what that recursion gives for the whole set.
LEMMA SumOfDef == ASSUME NEW rows PROVE SumOf(rows) = (CHOOSE it : IsSum(rows, it))[rows]
BY DEF SumOf, MapThenSumSet, MapThenFoldSet, IsSum, One

\* The function of the recursion exists, so its definition by CHOOSE is one.
LEMMA SumExists ==
  ASSUME NEW rows, IsFiniteSet(rows), \A r \in rows : r.value \in Int
  PROVE  \E it \in [SUBSET rows -> Int] : IsSum(rows, it)
<1> DEFINE Small(n) == {t \in SUBSET rows : Cardinality(t) <= n}
           Step(it, t) == IF t = {} THEN 0 ELSE One(t).value + it[t \ {One(t)}]
           Upto(n, it) == \A t \in Small(n) : it[t] = Step(it, t)
           T == {n \in Nat : \E it \in [Small(n) -> Int] : Upto(n, it)}
<1>1. ASSUME NEW t \in SUBSET rows
      PROVE  /\ IsFiniteSet(t) /\ Cardinality(t) \in Nat
             /\ t = {} <=> Cardinality(t) = 0
             /\ t # {} => /\ One(t) \in t
                          /\ t \ {One(t)} \in SUBSET rows
                          /\ Cardinality(t \ {One(t)}) = Cardinality(t) - 1
  <2>1. IsFiniteSet(t) /\ Cardinality(t) \in Nat
    BY FS_Subset, FS_CardinalityType
  <2>2. t = {} <=> Cardinality(t) = 0
    BY <2>1, FS_EmptySet
  <2>3. t # {} => One(t) \in t
    BY DEF One
  <2> QED BY <2>1, <2>2, <2>3, FS_RemoveElement
<1>2. 0 \in T
  <2> DEFINE it == [t \in Small(0) |-> 0]
  <2>1. it \in [Small(0) -> Int]
    OBVIOUS
  <2>2. Upto(0, it)
    BY <1>1
  <2> QED BY <2>1, <2>2
<1>3. ASSUME NEW n \in T PROVE n + 1 \in T
  <2>1. n \in Nat
    OBVIOUS
  <2>2. PICK it \in [Small(n) -> Int] : Upto(n, it)
    OBVIOUS
  <2> DEFINE more == [t \in Small(n + 1) |-> IF t \in Small(n) THEN it[t] ELSE Step(it, t)]
  <2>3. ASSUME NEW t \in Small(n + 1), t # {}
        PROVE  t \ {One(t)} \in Small(n) /\ One(t).value \in Int
    BY <1>1, <2>1, <2>3
  <2>4. more \in [Small(n + 1) -> Int]
    BY <2>2, <2>3
  <2>5. ASSUME NEW t \in Small(n + 1) PROVE more[t] = Step(more, t)
    <3>1. more[t] = Step(it, t)
      BY <2>2
    <3>2. ASSUME NEW q \in Small(n) PROVE q \in Small(n + 1)
      <4>1. q \in SUBSET rows /\ Cardinality(q) \in Nat /\ Cardinality(q) <= n
        BY <1>1
      <4> QED BY <2>1, <4>1
    <3>3. t # {} => more[t \ {One(t)}] = it[t \ {One(t)}]
      BY <2>3, <3>2
    <3> QED BY <3>1, <3>3
  <2> HIDE DEF more, Small, Step
  <2>6. \E f \in [Small(n + 1) -> Int] : Upto(n + 1, f)
    BY <2>4, <2>5
  <2> QED BY <2>1, <2>6
<1>4. Cardinality(rows) \in T
  <2>1. T \subseteq Nat
    OBVIOUS
  <2> HIDE DEF T
  <2> QED BY <1>2, <1>3, <2>1, Induction, FS_CardinalityType
<1>5. Small(Cardinality(rows)) = SUBSET rows
  BY FS_Subset
<1>6. PICK it \in [SUBSET rows -> Int] : Upto(Cardinality(rows), it)
  BY <1>4, <1>5
<1>7. it = [t \in SUBSET rows |-> Step(it, t)]
  BY <1>5, <1>6
<1> QED BY <1>7 DEF IsSum

\* The sum of integers is one.
LEMMA SumIsInt ==
  ASSUME NEW rows, IsFiniteSet(rows), \A r \in rows : r.value \in Int
  PROVE  SumOf(rows) \in Int
<1>1. IsSum(rows, CHOOSE f : IsSum(rows, f))
  BY SumExists
<1> SUFFICES ASSUME NEW it, IsSum(rows, it) PROVE it[rows] \in Int
  BY <1>1, SumOfDef
<1> DEFINE T == {n \in Nat : \A t \in SUBSET rows : Cardinality(t) <= n => it[t] \in Int}
<1>2. it[{}] = 0
  BY DEF IsSum
<1>3. ASSUME NEW t \in SUBSET rows, t # {}
      PROVE  it[t] = One(t).value + it[t \ {One(t)}]
  BY <1>3 DEF IsSum
<1>4. ASSUME NEW t \in SUBSET rows
      PROVE  IsFiniteSet(t) /\ Cardinality(t) \in Nat
  BY FS_Subset, FS_CardinalityType
<1>5. 0 \in T
  BY <1>2, <1>4, FS_EmptySet
<1>6. ASSUME NEW n \in T PROVE n + 1 \in T
  <2>1. n \in Nat /\ \A t \in SUBSET rows : Cardinality(t) <= n => it[t] \in Int
    OBVIOUS
  <2>2. ASSUME NEW t \in SUBSET rows, Cardinality(t) <= n + 1, t # {}
        PROVE  it[t] \in Int
    <3>1. One(t) \in t
      BY <2>2 DEF One
    <3>2. t \ {One(t)} \in SUBSET rows /\ Cardinality(t \ {One(t)}) = Cardinality(t) - 1
      BY <1>4, <3>1, FS_RemoveElement
    <3>3. it[t \ {One(t)}] \in Int
      BY <1>4, <2>1, <2>2, <3>2
    <3>4. One(t).value \in Int
      BY <3>1
    <3>5. it[t] = One(t).value + it[t \ {One(t)}]
      BY <1>3, <2>2
    <3> QED BY <3>3, <3>4, <3>5
  <2>3. ASSUME NEW t \in SUBSET rows, Cardinality(t) <= n + 1 PROVE it[t] \in Int
    <3>1. t = {} => it[t] = 0
      BY <1>2
    <3> QED BY <2>2, <2>3, <3>1
  <2> QED BY <2>1, <2>3
<1>7. Cardinality(rows) \in T
  <2>1. T \subseteq Nat
    OBVIOUS
  <2> HIDE DEF T
  <2> QED BY <1>5, <1>6, <2>1, Induction, FS_CardinalityType
<1> QED BY <1>7, FS_CardinalityType

-----------------------------------------------------------------------------
\* C's division of a by a positive b, and what the rounding loses of s/n.
LEMMA DivisionBounds ==
  ASSUME NEW a \in Int, NEW b \in Nat \ {0}
  PROVE  /\ Quotient(a, b) \in Int
         /\ a >= 0 => b * Quotient(a, b) <= a /\ a < b * Quotient(a, b) + b
         /\ a < 0 => a <= b * Quotient(a, b) /\ b * Quotient(a, b) < a + b
BY DEF Quotient

\* Rounded is off by half a hundredth, below zero by up to one and a half.
LEMMA RoundedClose ==
  ASSUME NEW s \in Int, NEW n \in Nat \ {0}
  PROVE  /\ Rounded(s, n) \in Int
         /\ IF s >= 0 THEN 2 * (n * Rounded(s, n) - s) \in (1 - n)..n
            ELSE 2 * (n * Rounded(s, n) - s) \in 1..(3 * n - 1)
<1> DEFINE a == 2 * s + n
           b == 2 * n
           q == Rounded(s, n)
<1>1. /\ q \in Int
      /\ a >= 0 => b * q <= a /\ a < b * q + b
      /\ a < 0 => a <= b * q /\ b * q < a + b
  <2>1. a \in Int /\ b \in Nat \ {0}
    OBVIOUS
  <2> HIDE DEF a, b
  <2>2. q = Quotient(a, b)
    BY DEF Rounded, a, b
  <2> QED BY <2>1, <2>2, DivisionBounds
<1> HIDE DEF q
<1>2. PICK p \in Int : p = n * q
  BY <1>1
<1>3. b * q = 2 * p
  BY <1>1, <1>2
<1> QED BY <1>1, <1>2, <1>3 DEF q

\* What a search that found rows returns lies close to their average.
LEMMA AverageClose ==
  ASSUME NEW rows \in SUBSET Rows, IsFiniteSet(rows)
  PROVE  /\ AverageOf(rows) \in [ret : {0, 1}, value : Int]
         /\ rows # {} =>
              LET n == Cardinality(rows)
                  error == 2 * (n * AverageOf(rows).value - SumOf(rows))
              IN  IF SumOf(rows) >= 0 THEN error \in (1 - n)..n
                  ELSE error \in 1..(3 * n - 1)
<1>1. SumOf(rows) \in Int
  <2>1. \A r \in rows : r.value \in Int
    BY ConstantsAssumption DEF Rows
  <2> QED BY <2>1, SumIsInt
<1>2. rows # {} => Cardinality(rows) \in Nat \ {0}
  BY FS_CardinalityType, FS_EmptySet
<1>3. CASE rows = {}
  BY <1>3 DEF AverageOf
<1>4. CASE rows # {}
  <2> DEFINE n == Cardinality(rows)
             sum == SumOf(rows)
  <2>1. AverageOf(rows).value = Rounded(sum, n)
    BY <1>4 DEF AverageOf
  <2>2. AverageOf(rows) = [ret |-> IF Rounded(sum, n) = 0 THEN 1 ELSE 0,
                           value |-> Rounded(sum, n)]
    BY <1>4 DEF AverageOf
  <2>3. sum \in Int /\ n \in Nat \ {0}
    BY <1>1, <1>2, <1>4
  <2> HIDE DEF n, sum
  <2>4. /\ Rounded(sum, n) \in Int
        /\ IF sum >= 0 THEN 2 * (n * Rounded(sum, n) - sum) \in (1 - n)..n
           ELSE 2 * (n * Rounded(sum, n) - sum) \in 1..(3 * n - 1)
    BY <2>3, RoundedClose
  <2> QED BY <2>1, <2>2, <2>4 DEF n, sum
<1> QED BY <1>3, <1>4

-----------------------------------------------------------------------------
\* The rows of the table were inserted one by one, so there are finitely many to
\* add up.
TypeInv == TypeOK /\ IsFiniteSet(table) /\ IsFiniteSet(found)

\* The types hold at first, ...
LEMMA InitType == Init => TypeInv
<1> SUFFICES ASSUME Init PROVE TypeInv
  OBVIOUS
<1>1. IsFiniteSet({})
  BY FS_EmptySet
<1>2. row \in Rows
  BY ConstantsAssumption DEF Init, Rows
<1>3. average \in [ret : {0, 1}, value : Int]
  BY DEF Init
<1>4. {created, reading, failed, crossed} \subseteq BOOLEAN
  BY Zenon DEF Init
<1> QED BY <1>1, <1>2, <1>3, <1>4, ConstantsAssumption DEF Init, TypeInv, TypeOK, Pointers

\* The rows of a window are rows, and finitely many.
LEMMA RowsFound ==
  ASSUME TypeInv, NEW w, w \in SUBSET table
  PROVE  w \in SUBSET Rows /\ IsFiniteSet(w)
BY FS_Subset DEF TypeInv, TypeOK

\* ... every step keeps them, ...
LEMMA StepType == TypeInv /\ [Next]_vars => TypeInv'
<1> SUFFICES ASSUME TypeInv, [Next]_vars PROVE TypeInv'
  OBVIOUS
<1> USE DEF TypeInv, TypeOK
<1>1. CASE Tick
  <2>1. now' \in 0..MaxTime
    BY <1>1, ConstantsAssumption DEF Tick
  <2> QED BY <1>1, <2>1 DEF Tick, fileVars, addVars, tmrVars
<1>2. ASSUME NEW v \in Values, Sample(v) PROVE TypeInv'
  <2>1. row' \in Rows
    BY <1>2 DEF Sample, Rows
  <2> QED BY <1>2, <2>1 DEF Sample, fileVars, tmrVars
<1>3. CASE CreateTable
  BY <1>3 DEF CreateTable, tmrVars
<1>4. CASE SetColumns
  <2>1. row' \in Rows
    BY <1>4 DEF SetColumns, Rows
  <2> QED BY <1>4, <2>1 DEF SetColumns, fileVars, tmrVars, Pointers
<1>5. CASE BuildInsert
  <2>1. row' \in Rows
    BY <1>5 DEF BuildInsert, Rows, TextOf, Pointers
  <2> QED BY <1>5, <2>1 DEF BuildInsert, fileVars, tmrVars
<1>6. CASE Insert
  <2>1. IsFiniteSet(table') /\ table' \in SUBSET Rows
    BY <1>6, FS_AddElement DEF Insert
  <2> QED BY <1>6, <2>1 DEF Insert, tmrVars
<1>7. CASE AddReturns
  BY <1>7 DEF AddReturns, fileVars, tmrVars, Pointers
<1>8. CASE AverageStart
  BY <1>8 DEF AverageStart, fileVars, addVars
<1>9. CASE SearchSetsColumn
  BY <1>9 DEF SearchSetsColumn, fileVars, addVars, Pointers
<1>10. CASE BuildSearch
  <2>1. id' \in {Dev, Junk}
    BY <1>10 DEF BuildSearch, TextOf, Pointers
  <2> QED BY <1>10, <2>1 DEF BuildSearch, fileVars, addVars
<1>11. CASE SearchError
  <2>1. window' \in SUBSET table
    BY <1>11 DEF SearchError, Matching
  <2>2. window' \in SUBSET Rows /\ IsFiniteSet(found')
    BY <1>11, <2>1, RowsFound, FS_EmptySet DEF SearchError
  <2> QED BY <1>11, <2>2 DEF SearchError, fileVars, addVars
<1>12. CASE SearchBegins
  BY <1>12 DEF SearchBegins, fileVars, addVars
<1>13. CASE SearchReads
  <2>1. window' \in SUBSET table /\ found' \in SUBSET table
    BY <1>13 DEF SearchReads, Matching
  <2>2. window' \in SUBSET Rows /\ found' \in SUBSET Rows /\ IsFiniteSet(found')
    BY <2>1, RowsFound
  <2> QED BY <1>13, <2>2 DEF SearchReads, fileVars, addVars
<1>14. CASE AverageEnds
  <2>1. average' \in [ret : {0, 1}, value : Int]
    BY <1>14, AverageClose DEF AverageEnds
  <2>2. IsFiniteSet({})
    BY FS_EmptySet
  <2> QED BY <1>14, <2>1, <2>2 DEF AverageEnds, fileVars, addVars
<1>15. CASE SearchOpenFails
  <2>1. window' \in SUBSET table
    BY <1>15 DEF SearchOpenFails, Matching
  <2>2. window' \in SUBSET Rows /\ IsFiniteSet(found')
    BY <1>15, <2>1, RowsFound, FS_EmptySet DEF SearchOpenFails
  <2> QED BY <1>15, <2>2 DEF SearchOpenFails, fileVars, addVars
<1>16. CASE SearchBreaks
  <2>1. window' \in SUBSET table /\ found' \in SUBSET table
    BY <1>16 DEF SearchBreaks, Matching
  <2>2. window' \in SUBSET Rows /\ found' \in SUBSET Rows /\ IsFiniteSet(found')
    BY <2>1, RowsFound
  <2> QED BY <1>16, <2>2 DEF SearchBreaks, fileVars, addVars
<1>17. CASE UNCHANGED vars
  BY <1>17 DEF vars, fileVars, addVars, tmrVars
<1> QED
  BY <1>1, <1>2, <1>3, <1>4, <1>5, <1>6, <1>7, <1>8, <1>9, <1>10, <1>11, <1>12,
     <1>13, <1>14, <1>15, <1>16, <1>17 DEF Next, Adder, Timer

\* ... so they hold always.
LEMMA TypeInvariance == Spec => []TypeInv
BY InitType, StepType, PTL DEF Spec

\* The column table's pointer, the rows and both threads stay within their types.
THEOREM TypeCorrect == Spec => []TypeOK
<1>1. TypeInv => TypeOK
  BY DEF TypeInv
<1> QED BY <1>1, TypeInvariance, PTL

\* Whatever the temperatures and however many rows a window has, the average
\* returned is that of the rows up to the error of its rounding.
THEOREM AverageIsRight == Spec => AverageIsClose
<1> DEFINE Close == AverageEnds /\ found # {} =>
               LET n == Cardinality(found)
                   error == 2 * (n * average'.value - SumOf(found))
               IN  IF SumOf(found) >= 0 THEN error \in (1 - n)..n
                   ELSE error \in 1..(3 * n - 1)
<1>1. TypeInv => Close
  <2> SUFFICES ASSUME TypeInv, AverageEnds, found # {} PROVE Close
    OBVIOUS
  <2>1. average' = AverageOf(found) /\ found \in SUBSET Rows /\ IsFiniteSet(found)
    BY DEF TypeInv, TypeOK, AverageEnds
  <2> QED BY <2>1, AverageClose
<1>2. TypeInv /\ [Next]_vars => [Close]_vars
  BY <1>1
<1> QED BY <1>2, TypeInvariance, PTL DEF Spec, AverageIsClose
=============================================================================
