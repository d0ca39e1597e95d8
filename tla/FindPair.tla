------------------------------ MODULE FindPair ------------------------------
(***************************************************************************)
(* find_pair_adding_to_target of serviceExeSumNums/work_functions.py, the  *)
(* work the leader of the summation does on the summands of its group: two *)
(* indices walk towards each other over the sorted values.                 *)
(*                                                                         *)
(* values[i] of the code is sorted[i + 1] here; low and high are the       *)
(* code's low_index and high_index plus one.                               *)
(***************************************************************************)
EXTENDS Integers, Sequences

CONSTANTS
    Summand,   \* the numbers a list may hold
    Target,    \* the numbers asked for
    MaxLen     \* bound on the length of the list

ASSUME FindPairAssumption ==
    /\ Summand \subseteq Int
    /\ Target \subseteq Int
    /\ MaxLen \in Nat

VARIABLES
    values, target,   \* the arguments
    sorted,           \* the values, sorted
    low, high,
    answer            \* "searching", "None", or the pair returned

vars == <<values, target, sorted, low, high, answer>>

Lists == UNION {[1..n -> Summand] : n \in 0..MaxLen}

Bijections(S) ==
    {p \in [S -> S] : /\ \A i, j \in S : i # j => p[i] # p[j]
                      /\ \A j \in S : \E i \in S : p[i] = j}

IsSorted(s) == \A i, j \in DOMAIN s : i <= j => s[i] <= s[j]

\* sorted(list): the rearrangements of the list that are in order.
SortedVersions(list) ==
    {s \in [DOMAIN list -> Summand] :
        /\ IsSorted(s)
        /\ \E p \in Bijections(DOMAIN list) : \A i \in DOMAIN list : s[i] = list[p[i]]}

Init ==
    /\ values \in Lists
    /\ target \in Target
    /\ sorted \in SortedVersions(values)
    /\ low = 1
    /\ high = Len(values)
    /\ answer = <<"searching">>

PairSum == sorted[low] + sorted[high]

Searching == answer = <<"searching">>

\* Mutant of Raise: the other index moves.
RaiseHigh ==
    /\ Searching /\ low < high
    /\ PairSum < target
    /\ high' = high - 1
    /\ UNCHANGED <<values, target, sorted, low, answer>>

Raise ==
    /\ Searching /\ low < high
    /\ PairSum < target
    /\ low' = low + 1
    /\ UNCHANGED <<values, target, sorted, high, answer>>

Lower ==
    /\ Searching /\ low < high
    /\ PairSum > target
    /\ high' = high - 1
    /\ UNCHANGED <<values, target, sorted, low, answer>>

Found ==
    /\ Searching /\ low < high
    /\ PairSum = target
    /\ answer' = <<"pair", sorted[low], sorted[high]>>
    /\ UNCHANGED <<values, target, sorted, low, high>>

\* Mutant of Exhausted: the loop ends when the indices are neighbours.
ExhaustedEarly ==
    /\ Searching /\ low + 1 >= high
    /\ answer' = <<"None">>
    /\ UNCHANGED <<values, target, sorted, low, high>>

\* Mutant of Exhausted: the loop ends only when the indices meet.
ExhaustedOnMeeting ==
    /\ Searching /\ low = high
    /\ answer' = <<"None">>
    /\ UNCHANGED <<values, target, sorted, low, high>>

Exhausted ==
    /\ Searching /\ low >= high
    /\ answer' = <<"None">>
    /\ UNCHANGED <<values, target, sorted, low, high>>

Next == Raise \/ Lower \/ Found \/ Exhausted

Spec == Init /\ [][Next]_vars
FairSpec == Spec /\ WF_vars(Next)
-----------------------------------------------------------------------------
Indices == DOMAIN values

TypeOK ==
    /\ values \in Lists
    /\ target \in Target
    /\ sorted \in SortedVersions(values)
    /\ low \in 1..(Len(values) + 1)
    /\ high \in 0..Len(values)

\* Two different places of the list hold numbers that add up to the target.
HasPair == \E i, j \in Indices : i # j /\ values[i] + values[j] = target

\* The answer is the definition: a pair of summands of two members of the group
\* that add up to the target if there is one, None only if there is none.
Correct ==
    /\ answer = <<"None">> => ~HasPair
    /\ answer \notin {<<"searching">>, <<"None">>} =>
          \E i, j \in Indices : /\ i # j
                                /\ values[i] + values[j] = target
                                /\ answer = <<"pair", values[i], values[j]>>

\* No pair lies outside the part of the sorted values not yet passed over:
\* every index left behind adds up to the target with no other.
PairsWithin ==
    Searching =>
        \A i, j \in Indices :
            i < j /\ sorted[i] + sorted[j] = target => low <= i /\ j <= high

\* The function returns, on every list.
Returns == <>~Searching

\* The invariant from which Correct follows.
IndInv == TypeOK /\ Correct /\ PairsWithin
=============================================================================
