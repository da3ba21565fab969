---------------------------- MODULE KernelLists ----------------------------
(***************************************************************************)
(* What the doubly linked lists of lib/kernel/list.c do, on sequences.     *)
(*                                                                         *)
(* Every comparison function lab 1 passes to the list library              *)
(* (priority_cmp, sema_cmp, lock_cmp) is a strict "greater priority        *)
(* first", so the operators take the priorities as a function key and      *)
(* order by descending key.  They are written without recursion, so that   *)
(* KernelListsProofs can prove what they preserve for lists of any length. *)
(***************************************************************************)
EXTENDS Integers, FiniteSets, SequencesExt

\* list_insert_ordered puts elem before the first element that it precedes.
InsertPosition(list, elem, key) ==
    CHOOSE p \in 1..Len(list) + 1 :
        /\ \A i \in 1..p - 1 : key[list[i]] >= key[elem]
        /\ p <= Len(list) => key[elem] > key[list[p]]

list_insert_ordered(list, elem, key) ==
    InsertAt(list, InsertPosition(list, elem, key), elem)

\* list_sort is a natural merge sort: of two elements that compare equal the
\* one that was first stays first.
SortsBefore(list, key, i, j) ==
    \/ key[list[i]] > key[list[j]]
    \/ key[list[i]] = key[list[j]] /\ i < j

SortedPosition(list, key, i) ==
    Cardinality({j \in 1..Len(list) : SortsBefore(list, key, j, i)}) + 1

\* Mutant: the list is left in the order in which it was filled.
list_sort_Skipped(list, key) == list

list_sort(list, key) ==
    [k \in 1..Len(list) |->
        list[CHOOSE i \in 1..Len(list) : SortedPosition(list, key, i) = k]]

\* Mutant: the element stays linked.
list_remove_Skipped(list, elem) == list

\* list_remove unlinks the one element elem; the caller knows it is linked.
list_remove(list, elem) ==
    RemoveAt(list, CHOOSE i \in 1..Len(list) : list[i] = elem)

\* The lists a priority queue may be.
IsSortedBy(list, key) ==
    \A i, j \in 1..Len(list) : i < j => key[list[i]] >= key[list[j]]

NoDuplicates(list) == \A i, j \in 1..Len(list) : list[i] = list[j] => i = j
=============================================================================
