--------------------------- MODULE FindPairProofs ---------------------------
(***************************************************************************)
(* find_pair_adding_to_target returns the right answer on every list of    *)
(* integers, of any length, and for every target.                          *)
(***************************************************************************)
EXTENDS FindPair, TLAPS

\* What TypeOK says of the sorted list, spelled out.
LEMMA SortedFacts ==
  ASSUME TypeOK
  PROVE  /\ Len(values) \in Nat
         /\ Indices = 1..Len(values)
         /\ \A i \in Indices : values[i] \in Int /\ sorted[i] \in Int
         /\ \A i, j \in Indices : i <= j => sorted[i] <= sorted[j]
         /\ target \in Int
         /\ \E p \in Bijections(Indices) : \A i \in Indices : sorted[i] = values[p[i]]
<1>1. PICK n \in 0..MaxLen : values \in [1..n -> Summand]
  BY DEF TypeOK, Lists
<1>2. n \in Nat
  BY <1>1, FindPairAssumption
<1>3. values \in Seq(Summand) /\ Len(values) = n
  BY <1>1, <1>2
<1>4. Indices = 1..n
  BY <1>1 DEF Indices
<1>5. sorted \in [1..n -> Summand] /\ IsSorted(sorted)
  BY <1>4 DEF TypeOK, SortedVersions, Indices
<1>6. \A i \in 1..n : values[i] \in Int /\ sorted[i] \in Int
  BY <1>1, <1>5, FindPairAssumption
<1>7. \A i, j \in 1..n : i <= j => sorted[i] <= sorted[j]
  BY <1>5 DEF IsSorted
<1>8. \E p \in Bijections(Indices) : \A i \in Indices : sorted[i] = values[p[i]]
  BY DEF TypeOK, SortedVersions, Indices
<1>9. target \in Int
  BY FindPairAssumption DEF TypeOK
<1> QED BY <1>2, <1>3, <1>4, <1>6, <1>7, <1>8, <1>9

\* A pair of the list is a pair of the sorted list, at two ordered places.
LEMMA PairInSorted ==
  ASSUME TypeOK, HasPair
  PROVE  \E i, j \in Indices : i < j /\ sorted[i] + sorted[j] = target
<1>1. PICK a, b \in Indices : a # b /\ values[a] + values[b] = target
  BY DEF HasPair
<1>2. PICK p \in Bijections(Indices) : \A i \in Indices : sorted[i] = values[p[i]]
  BY SortedFacts
<1>3. PICK i, j \in Indices : p[i] = a /\ p[j] = b
  BY <1>1, <1>2 DEF Bijections
<1>4. i # j /\ sorted[i] + sorted[j] = target
  BY <1>1, <1>2, <1>3
<1>5. i \in Int /\ j \in Int /\ sorted[i] \in Int /\ sorted[j] \in Int
  BY <1>3, SortedFacts
<1>6. i < j \/ j < i
  BY <1>4, <1>5
<1> QED BY <1>3, <1>4, <1>5, <1>6

\* And the other way round: two places of the sorted list are two of the list.
LEMMA PairInValues ==
  ASSUME TypeOK, NEW i \in Indices, NEW j \in Indices, i # j
  PROVE  \E a, b \in Indices : a # b /\ sorted[i] = values[a] /\ sorted[j] = values[b]
<1>1. PICK p \in Bijections(Indices) : \A k \in Indices : sorted[k] = values[p[k]]
  BY SortedFacts
<1>2. p[i] \in Indices /\ p[j] \in Indices /\ p[i] # p[j]
  BY <1>1 DEF Bijections
<1> QED BY <1>1, <1>2

LEMMA InitInv == Init => IndInv
<1> SUFFICES ASSUME Init PROVE IndInv
  OBVIOUS
<1>1. PICK n \in 0..MaxLen : values \in [1..n -> Summand]
  BY DEF Init, Lists
<1>2. n \in Nat /\ Len(values) = n
  BY <1>1, FindPairAssumption
<1>3. TypeOK
  BY <1>2 DEF Init, TypeOK
<1>4. Searching /\ answer # <<"None">>
  BY DEF Init, Searching
<1>5. PairsWithin
  <2>1. \A i \in Indices : 1 <= i /\ i <= Len(values)
    BY <1>3, SortedFacts
  <2> QED BY <2>1 DEF Init, PairsWithin
<1> QED BY <1>3, <1>4, <1>5 DEF IndInv, Correct, Searching

LEMMA StepInv ==
  ASSUME IndInv, Next
  PROVE  IndInv'
<1> DEFINE n == Len(values)
<1>0. /\ n \in Nat /\ Indices = 1..n
      /\ target \in Int
      /\ \A i \in Indices : values[i] \in Int /\ sorted[i] \in Int
      /\ \A i, j \in Indices : i <= j => sorted[i] <= sorted[j]
      /\ low \in 1..(n + 1) /\ high \in 0..n
  BY SortedFacts DEF IndInv, TypeOK
<1>1. Searching /\ PairsWithin /\ TypeOK
  BY DEF IndInv, Next, Raise, Lower, Found, Exhausted
<1> HIDE DEF n
<1>2. ASSUME low < high PROVE low \in Indices /\ high \in Indices
  BY <1>0, <1>2
<1>3. CASE Raise
  <2>1. low < high /\ sorted[low] + sorted[high] < target
    BY <1>3 DEF Raise, PairSum
  <2>2. TypeOK'
    BY <1>0, <1>1, <1>3, <2>1 DEF Raise, TypeOK, n
  <2>3. ASSUME NEW i \in Indices, NEW j \in Indices,
               i < j, sorted[i] + sorted[j] = target
        PROVE  low + 1 <= i /\ j <= high
    <3>1. low <= i /\ j <= high
      BY <1>1, <2>3 DEF PairsWithin
    <3>2. sorted[j] <= sorted[high]
      BY <1>0, <1>2, <2>1, <3>1
    <3>3. i # low
      BY <1>0, <1>2, <2>1, <2>3, <3>2
    <3> QED BY <1>0, <3>1, <3>3
  <2>4. PairsWithin'
    BY <1>3, <2>3 DEF Raise, PairsWithin, Indices, Searching
  <2>5. Correct'
    BY <1>1, <1>3 DEF Raise, Correct, Searching
  <2> QED BY <2>2, <2>4, <2>5 DEF IndInv
<1>4. CASE Lower
  <2>1. low < high /\ sorted[low] + sorted[high] > target
    BY <1>4 DEF Lower, PairSum
  <2>2. TypeOK'
    BY <1>0, <1>1, <1>4, <2>1 DEF Lower, TypeOK, n
  <2>3. ASSUME NEW i \in Indices, NEW j \in Indices,
               i < j, sorted[i] + sorted[j] = target
        PROVE  low <= i /\ j <= high - 1
    <3>1. low <= i /\ j <= high
      BY <1>1, <2>3 DEF PairsWithin
    <3>2. sorted[low] <= sorted[i]
      BY <1>0, <1>2, <2>1, <3>1
    <3>3. j # high
      BY <1>0, <1>2, <2>1, <2>3, <3>2
    <3> QED BY <1>0, <3>1, <3>3
  <2>4. PairsWithin'
    BY <1>4, <2>3 DEF Lower, PairsWithin, Indices, Searching
  <2>5. Correct'
    BY <1>1, <1>4 DEF Lower, Correct, Searching
  <2> QED BY <2>2, <2>4, <2>5 DEF IndInv
<1>5. CASE Found
  <2>1. low < high /\ sorted[low] + sorted[high] = target
    BY <1>5 DEF Found, PairSum
  <2>2. PICK a, b \in Indices :
           a # b /\ sorted[low] = values[a] /\ sorted[high] = values[b]
    BY <1>0, <1>1, <1>2, <2>1, PairInValues
  <2>3. TypeOK'
    BY <1>1, <1>5 DEF Found, TypeOK
  <2>4. answer' = <<"pair", values[a], values[b]>> /\ values[a] + values[b] = target
    BY <1>5, <2>1, <2>2 DEF Found
  <2>5. UNCHANGED <<values, target>> /\ answer' # <<"None">> /\ ~Searching'
    BY <1>5, <2>4 DEF Found, Searching
  <2>6. Correct'
    BY <2>2, <2>4, <2>5 DEF Correct, Indices
  <2>7. PairsWithin'
    BY <2>5 DEF PairsWithin
  <2> QED BY <2>3, <2>6, <2>7 DEF IndInv
<1>6. CASE Exhausted
  <2>1. low >= high
    BY <1>6 DEF Exhausted
  <2>2. ~HasPair
    <3> SUFFICES ASSUME HasPair PROVE FALSE
      OBVIOUS
    <3>1. PICK i, j \in Indices : i < j /\ sorted[i] + sorted[j] = target
      BY <1>1, PairInSorted
    <3>2. low <= i /\ j <= high
      BY <1>1, <3>1 DEF PairsWithin
    <3> QED BY <1>0, <2>1, <3>1, <3>2
  <2>3. TypeOK'
    BY <1>1, <1>6 DEF Exhausted, TypeOK
  <2>4. answer' = <<"None">> /\ UNCHANGED <<values, target>> /\ ~Searching'
    BY <1>6 DEF Exhausted, Searching
  <2>5. Correct'
    BY <2>2, <2>4 DEF Correct, HasPair, Indices
  <2>6. PairsWithin'
    BY <2>4 DEF PairsWithin
  <2> QED BY <2>3, <2>5, <2>6 DEF IndInv
<1> QED BY <1>3, <1>4, <1>5, <1>6 DEF Next

\* The invariant: no pair lies outside the two indices.
THEOREM Invariance == Spec => []IndInv
<1>1. IndInv /\ UNCHANGED vars => IndInv'
  BY DEF vars, IndInv, TypeOK, Correct, PairsWithin, HasPair, Indices, Searching
<1>2. IndInv /\ [Next]_vars => IndInv'
  BY StepInv, <1>1
<1> QED BY InitInv, <1>2, PTL DEF Spec

\* The function answers with a pair that adds up to the target, or with None
\* when the list has none.
THEOREM AlwaysCorrect == Spec => []Correct
<1>1. IndInv => Correct
  BY DEF IndInv
<1> QED BY Invariance, <1>1, PTL
=============================================================================
