------------------------- MODULE KernelListsProofs -------------------------
(***************************************************************************)
(* What the list operations of KernelLists preserve, for lists of any      *)
(* length: what is on the list, how often, and in which order.  No step    *)
(* uses induction: minima come from the well-foundedness of < on Nat, and  *)
(* that sorting permutes a list from the pigeonhole principle.             *)
(***************************************************************************)
EXTENDS KernelLists, FiniteSetTheorems, SequenceTheorems,
        WellFoundedInduction, TLAPS

LessThan == {ss \in Nat \X Nat : ss[1] < ss[2]}

\* A non-empty set of natural numbers has a least element.
LEMMA LeastElement ==
    ASSUME NEW T \in SUBSET Nat, T # {}
    PROVE  \E x \in T : \A y \in T : x <= y
<1>1. LessThan = OpToRel(<, Nat)
  BY DEF LessThan, OpToRel
<1>2. IsWellFoundedOn(LessThan, Nat)
  BY <1>1, NatLessThanWellFounded
<1>3. PICK x \in T : \A y \in T : ~ (<<y, x>> \in LessThan)
  BY <1>2, WFMin
<1>4. ASSUME NEW y \in T PROVE x <= y
  <2>1. y < x => <<y, x>> \in LessThan
    BY DEF LessThan
  <2> QED BY <1>3, <2>1
<1> QED BY <1>4

-----------------------------------------------------------------------------
(* list_insert_ordered.                                                    *)

\* The loop of list_insert_ordered stops at a place of the list or at its
\* tail, behind everything that does not have to make way.
LEMMA InsertPositionExists ==
    ASSUME NEW S, NEW list \in Seq(S), NEW elem \in S,
           NEW key, \A x \in S : key[x] \in Int
    PROVE  LET p == InsertPosition(list, elem, key)
           IN  /\ p \in 1..Len(list) + 1
               /\ \A i \in 1..p - 1 : key[list[i]] >= key[elem]
               /\ p <= Len(list) => key[elem] > key[list[p]]
<1> DEFINE Behind == {i \in 1..Len(list) : key[elem] > key[list[i]]}
           Good(p) == /\ \A i \in 1..p - 1 : key[list[i]] >= key[elem]
                      /\ p <= Len(list) => key[elem] > key[list[p]]
<1>0. Len(list) \in Nat /\ \A i \in 1..Len(list) : list[i] \in S
  BY LenProperties, ElementOfSeq
<1>1. \E p \in 1..Len(list) + 1 : Good(p)
  <2>1. CASE Behind = {}
    <3>1. Good(Len(list) + 1)
      BY <1>0, <2>1
    <3> QED BY <1>0, <3>1
  <2>2. CASE Behind # {}
    <3>1. Behind \in SUBSET Nat
      BY <1>0
    <3> HIDE DEF Behind
    <3>2. PICK p \in Behind : \A i \in Behind : p <= i
      BY <2>2, <3>1, LeastElement
    <3>3. p \in 1..Len(list) /\ key[elem] > key[list[p]]
      BY DEF Behind
    <3>4. ASSUME NEW i \in 1..p - 1 PROVE key[list[i]] >= key[elem]
      <4>1. i \in 1..Len(list) /\ i \notin Behind
        BY <1>0, <3>2, <3>3
      <4>2. list[i] \in S /\ ~ (key[elem] > key[list[i]])
        BY <1>0, <4>1 DEF Behind
      <4> QED BY <4>2
    <3> QED BY <1>0, <3>3, <3>4
  <2> QED BY <2>1, <2>2
<1> QED BY <1>1 DEF InsertPosition

\* The list new is list with elem in place p.
IsSpliced(new, list, p, elem) ==
    /\ Len(new) = Len(list) + 1
    /\ \A i \in 1..Len(list) + 1 :
          new[i] = IF i < p THEN list[i]
                   ELSE IF i = p THEN elem ELSE list[i - 1]

\* InsertAt, place by place.
LEMMA InsertAtPlaces ==
    ASSUME NEW S, NEW list \in Seq(S), NEW elem \in S,
           NEW p \in 1..Len(list) + 1
    PROVE  LET new == InsertAt(list, p, elem)
           IN  new \in Seq(S) /\ IsSpliced(new, list, p, elem)
<1> DEFINE n == Len(list)
           front == SubSeq(list, 1, p - 1)
           back == SubSeq(list, p, n)
           begin == front \o <<elem>>
           new == begin \o back
<1>1. n \in Nat /\ p \in 1..n + 1 /\ \A i \in 1..n : list[i] \in S
  BY LenProperties, ElementOfSeq
<1>2. /\ front \in Seq(S) /\ Len(front) = p - 1
      /\ \A i \in 1..p - 1 : front[i] = list[i]
  BY <1>1, SubSeqProperties
<1>3. /\ back \in Seq(S) /\ Len(back) = n - p + 1
      /\ \A i \in 1..n - p + 1 : back[i] = list[p + i - 1]
  BY <1>1, SubSeqProperties
<1>4. /\ <<elem>> \in Seq(S) /\ Len(<<elem>>) = 1 /\ <<elem>>[1] = elem
  OBVIOUS
<1> HIDE DEF front, back
<1>5. /\ begin \in Seq(S) /\ Len(begin) = Len(front) + Len(<<elem>>)
      /\ \A i \in 1..Len(front) + Len(<<elem>>) :
            begin[i] = IF i <= Len(front) THEN front[i]
                       ELSE <<elem>>[i - Len(front)]
  BY <1>2, <1>4, ConcatProperties
<1>6. /\ begin \in Seq(S) /\ Len(begin) = p
      /\ \A i \in 1..p : begin[i] = IF i < p THEN list[i] ELSE elem
  BY <1>1, <1>2, <1>4, <1>5
<1> HIDE DEF begin
<1>7. /\ new \in Seq(S) /\ Len(new) = Len(begin) + Len(back)
      /\ \A i \in 1..Len(begin) + Len(back) :
            new[i] = IF i <= Len(begin) THEN begin[i] ELSE back[i - Len(begin)]
  BY <1>3, <1>6, ConcatProperties
<1> HIDE DEF new
<1>8. Len(new) = n + 1
  BY <1>1, <1>3, <1>6, <1>7
<1>9. ASSUME NEW i \in 1..n + 1
      PROVE  new[i] = IF i < p THEN list[i]
                      ELSE IF i = p THEN elem ELSE list[i - 1]
  <2>1. CASE i <= p
    BY <1>1, <1>3, <1>6, <1>7, <2>1
  <2>2. CASE i > p
    <3>1. i - p \in 1..n - p + 1 /\ p + (i - p) - 1 = i - 1
      BY <1>1, <2>2
    <3>2. back[i - p] = list[i - 1]
      BY <1>3, <3>1
    <3> QED BY <1>1, <1>3, <1>6, <1>7, <2>2, <3>2
  <2> QED BY <1>1, <2>1, <2>2
<1>10. InsertAt(list, p, elem) = new
  BY DEF InsertAt, new, begin, front, back
<1> QED BY <1>7, <1>8, <1>9, <1>10 DEF IsSpliced

\* One element spliced into a list of different elements (f and g are the
\* list before and after).
LEMMA SpliceInjective ==
    ASSUME NEW f, NEW g, NEW elem, NEW n \in Nat, NEW p \in 1..n + 1,
           \A i \in 1..n : f[i] # elem,
           \A i, j \in 1..n : f[i] = f[j] => i = j,
           NEW i \in 1..n + 1, NEW j \in 1..n + 1, g[i] = g[j],
           \A k \in {i, j} : \/ k = p /\ g[k] = elem
                             \/ k < p /\ k \in 1..n /\ g[k] = f[k]
                             \/ k > p /\ k - 1 \in 1..n /\ g[k] = f[k - 1]
    PROVE  i = j
OBVIOUS

\* One element spliced into a list.
LEMMA SplicedElements ==
    ASSUME NEW S, NEW list \in Seq(S), NEW elem \in S,
           NEW p \in 1..Len(list) + 1,
           NEW new \in Seq(S), IsSpliced(new, list, p, elem)
    PROVE  /\ ToSet(new) = ToSet(list) \cup {elem}
           /\ NoDuplicates(list) /\ elem \notin ToSet(list) => NoDuplicates(new)
<1>0. PICK n \in Nat :
         /\ n = Len(list) /\ Len(new) = n + 1 /\ p \in 1..n + 1
         /\ \A i \in 1..n + 1 : new[i] = IF i < p THEN list[i]
                                         ELSE IF i = p THEN elem ELSE list[i - 1]
  BY LenProperties DEF IsSpliced
<1>1. DOMAIN new = 1..n + 1 /\ DOMAIN list = 1..n
  BY <1>0, LenProperties
<1>2. ASSUME NEW i \in 1..n + 1
      PROVE  \/ i = p /\ new[i] = elem
             \/ i < p /\ i \in 1..n /\ new[i] = list[i]
             \/ i > p /\ i - 1 \in 1..n /\ new[i] = list[i - 1]
  BY <1>0
<1>3. ASSUME NEW i \in 1..n
      PROVE  \/ i \in 1..n + 1 /\ new[i] = list[i]
             \/ i + 1 \in 1..n + 1 /\ new[i + 1] = list[i]
  <2>1. CASE i < p
    BY <1>0, <2>1
  <2>2. CASE i >= p
    <3>1. i + 1 \in 1..n + 1 /\ i + 1 > p /\ (i + 1) - 1 = i
      BY <1>0, <2>2
    <3> QED BY <1>0, <3>1
  <2> QED BY <2>1, <2>2
<1>4. ToSet(list) = {list[i] : i \in 1..n} /\ ToSet(new) = {new[i] : i \in 1..n + 1}
  BY <1>1 DEF ToSet
<1>5. ToSet(new) \subseteq ToSet(list) \cup {elem}
  BY <1>2, <1>4
<1>6. ToSet(list) \subseteq ToSet(new)
  BY <1>3, <1>4
<1>7. elem \in ToSet(new)
  BY <1>0, <1>4
<1>8. ASSUME NoDuplicates(list), elem \notin ToSet(list)
      PROVE  NoDuplicates(new)
  <2>1. \A i \in 1..n : list[i] # elem
    BY <1>4, <1>8
  <2>2. \A i, j \in 1..n : list[i] = list[j] => i = j
    BY <1>0, <1>8 DEF NoDuplicates
  <2>3. ASSUME NEW i \in 1..n + 1, NEW j \in 1..n + 1, new[i] = new[j]
        PROVE  i = j
    BY <1>0, <1>2, <2>1, <2>2, <2>3, SpliceInjective
  <2> QED BY <1>0, <2>3 DEF NoDuplicates
<1> QED BY <1>5, <1>6, <1>7, <1>8

\* list_insert_ordered adds elem to what is on the list, one place longer.
LEMMA InsertOrderedElements ==
    ASSUME NEW S, NEW list \in Seq(S), NEW elem \in S,
           NEW key, \A x \in S : key[x] \in Int
    PROVE  LET new == list_insert_ordered(list, elem, key)
           IN  /\ new \in Seq(S)
               /\ Len(new) = Len(list) + 1
               /\ ToSet(new) = ToSet(list) \cup {elem}
               /\ NoDuplicates(list) /\ elem \notin ToSet(list) => NoDuplicates(new)
<1>1. PICK p \in 1..Len(list) + 1 : p = InsertPosition(list, elem, key)
  BY InsertPositionExists
<1>2. PICK new \in Seq(S) :
         new = InsertAt(list, p, elem) /\ IsSpliced(new, list, p, elem)
  BY InsertAtPlaces
<1>3. Len(new) = Len(list) + 1
  BY <1>2 DEF IsSpliced
<1>4. /\ ToSet(new) = ToSet(list) \cup {elem}
      /\ NoDuplicates(list) /\ elem \notin ToSet(list) => NoDuplicates(new)
  BY <1>2, SplicedElements
<1>5. list_insert_ordered(list, elem, key) = new
  BY <1>1, <1>2 DEF list_insert_ordered
<1> QED BY <1>2, <1>3, <1>4, <1>5

\* list_insert_ordered keeps an ordered list in order.
LEMMA InsertOrderedSorted ==
    ASSUME NEW S, NEW list \in Seq(S), NEW elem \in S,
           NEW key, \A x \in S : key[x] \in Int, IsSortedBy(list, key)
    PROVE  IsSortedBy(list_insert_ordered(list, elem, key), key)
<1>1. PICK p \in 1..Len(list) + 1 :
         /\ p = InsertPosition(list, elem, key)
         /\ \A i \in 1..p - 1 : key[list[i]] >= key[elem]
         /\ p <= Len(list) => key[elem] > key[list[p]]
  BY InsertPositionExists
<1>2. PICK new \in Seq(S) :
         new = InsertAt(list, p, elem) /\ IsSpliced(new, list, p, elem)
  BY InsertAtPlaces
<1>3. PICK n \in Nat : n = Len(list) /\ p \in 1..n + 1
  BY LenProperties
<1> DEFINE k(i) == key[list[i]]
           e == key[elem]
<1>4. e \in Int /\ \A i \in 1..n : k(i) \in Int
  BY <1>3, ElementOfSeq
<1>5. \A i, j \in 1..n : i < j => k(i) >= k(j)
  BY <1>3 DEF IsSortedBy
<1>6. /\ \A i \in 1..p - 1 : k(i) >= e
      /\ \A i \in p..n : e >= k(i)
  <2>1. \A i \in 1..p - 1 : k(i) >= e
    BY <1>1
  <2>2. ASSUME NEW i \in p..n PROVE e >= k(i)
    <3>1. e > k(p) /\ p \in 1..n /\ i \in 1..n /\ (i = p \/ p < i)
      BY <1>1, <1>3
    <3>2. k(p) >= k(i)
      BY <1>4, <1>5, <3>1
    <3> HIDE DEF k, e
    <3> QED BY <1>4, <3>1, <3>2
  <2> QED BY <2>1, <2>2
<1>7. \A i \in 1..n + 1 : key[new[i]] = IF i < p THEN k(i) ELSE IF i = p THEN e ELSE k(i - 1)
  BY <1>2, <1>3 DEF IsSpliced
<1> HIDE DEF k, e
<1>8. ASSUME NEW i \in 1..n + 1, NEW j \in 1..n + 1, i < j
      PROVE  key[new[i]] >= key[new[j]]
  <2>1. CASE j < p
    BY <1>3, <1>5, <1>7, <1>8, <2>1
  <2>2. CASE j = p
    BY <1>3, <1>6, <1>7, <1>8, <2>2
  <2>3. CASE j > p /\ i < p
    <3>1. i \in 1..n /\ j - 1 \in 1..n /\ (i < j - 1 \/ i = j - 1)
      BY <1>3, <1>8, <2>3
    <3>2. i \in 1..n /\ j - 1 \in 1..n
      BY <1>3, <1>8, <2>3
    <3>3. k(i) >= k(j - 1)
      BY <1>4, <1>5, <3>1, <3>2
    <3> QED BY <1>3, <1>7, <2>3, <3>3
  <2>4. CASE j > p /\ i = p
    <3>1. j - 1 \in p..n
      BY <1>3, <2>4
    <3> QED BY <1>3, <1>6, <1>7, <2>4, <3>1
  <2>5. CASE j > p /\ i > p
    <3>1. i - 1 \in 1..n /\ j - 1 \in 1..n /\ i - 1 < j - 1
      BY <1>3, <1>8, <2>5
    <3> QED BY <1>3, <1>5, <1>7, <2>5, <3>1
  <2> QED BY <1>3, <2>1, <2>2, <2>3, <2>4, <2>5
<1>9. Len(new) = n + 1
  BY <1>2, <1>3 DEF IsSpliced
<1>10. list_insert_ordered(list, elem, key) = new
  BY <1>1, <1>2 DEF list_insert_ordered
<1> QED BY <1>8, <1>9, <1>10 DEF IsSortedBy

-----------------------------------------------------------------------------
(* list_sort.                                                              *)

\* SortsBefore is a strict total order of the places of a list.
LEMMA SortsBeforeOrder ==
    ASSUME NEW S, NEW list \in Seq(S), NEW key, \A x \in S : key[x] \in Int,
           NEW i \in 1..Len(list), NEW j \in 1..Len(list), NEW k \in 1..Len(list)
    PROVE  /\ ~ SortsBefore(list, key, i, i)
           /\ i = j \/ SortsBefore(list, key, i, j) \/ SortsBefore(list, key, j, i)
           /\ SortsBefore(list, key, i, j) /\ SortsBefore(list, key, j, k)
                => SortsBefore(list, key, i, k)
<1>1. list[i] \in S /\ list[j] \in S /\ list[k] \in S /\ Len(list) \in Nat
  BY ElementOfSeq, LenProperties
<1>2. key[list[i]] \in Int /\ key[list[j]] \in Int /\ key[list[k]] \in Int
  BY <1>1
<1> QED BY <1>1, <1>2 DEF SortsBefore

\* No two elements are sorted to the same place, and the places are those of
\* the list.
LEMMA SortedPositions ==
    ASSUME NEW S, NEW list \in Seq(S), NEW key, \A x \in S : key[x] \in Int
    PROVE  /\ \A i \in 1..Len(list) :
                 SortedPosition(list, key, i) \in 1..Len(list)
           /\ \A i, j \in 1..Len(list) :
                 SortsBefore(list, key, i, j) =>
                     SortedPosition(list, key, i) < SortedPosition(list, key, j)
           /\ \A i, j \in 1..Len(list) :
                 SortedPosition(list, key, i) = SortedPosition(list, key, j) => i = j
           /\ \A k \in 1..Len(list) : \E i \in 1..Len(list) :
                 SortedPosition(list, key, i) = k
<1>1. PICK n \in Nat : n = Len(list)
  BY LenProperties
<1> DEFINE Before(i) == {j \in 1..n : SortsBefore(list, key, j, i)}
           pos == [i \in 1..n |-> SortedPosition(list, key, i)]
<1>2. IsFiniteSet(1..n) /\ Cardinality(1..n) = n
  BY FS_Interval
<1>3. \A i \in 1..n : SortedPosition(list, key, i) = Cardinality(Before(i)) + 1
  BY <1>1 DEF SortedPosition
<1>4. ASSUME NEW i \in 1..n PROVE SortedPosition(list, key, i) \in 1..n
  <2>1. IsFiniteSet(1..n \ {i}) /\ Cardinality(1..n \ {i}) = n - 1
    BY <1>2, FS_RemoveElement
  <2>2. Before(i) \in SUBSET (1..n \ {i})
    BY <1>1, SortsBeforeOrder
  <2>3. IsFiniteSet(Before(i)) /\ Cardinality(Before(i)) <= n - 1
    BY <2>1, <2>2, FS_Subset
  <2>4. Cardinality(Before(i)) \in Nat
    BY <2>3, FS_CardinalityType
  <2> HIDE DEF Before
  <2> QED BY <1>3, <2>3, <2>4
<1>5. ASSUME NEW i \in 1..n, NEW j \in 1..n, SortsBefore(list, key, i, j)
      PROVE  SortedPosition(list, key, i) < SortedPosition(list, key, j)
  <2>1. Before(i) \in SUBSET Before(j)
    BY <1>1, <1>5, SortsBeforeOrder
  <2>2. i \in Before(j) /\ i \notin Before(i)
    BY <1>1, <1>5, SortsBeforeOrder
  <2>3. IsFiniteSet(Before(j))
    BY <1>2, FS_Subset
  <2>4. /\ IsFiniteSet(Before(i)) /\ Cardinality(Before(i)) <= Cardinality(Before(j))
        /\ Cardinality(Before(i)) # Cardinality(Before(j))
    BY <2>1, <2>2, <2>3, FS_Subset
  <2>5. Cardinality(Before(i)) \in Nat /\ Cardinality(Before(j)) \in Nat
    BY <2>3, <2>4, FS_CardinalityType
  <2> HIDE DEF Before
  <2> QED BY <1>3, <2>4, <2>5
<1>6. ASSUME NEW i \in 1..n, NEW j \in 1..n,
             SortedPosition(list, key, i) = SortedPosition(list, key, j)
      PROVE  i = j
  <2>1. i = j \/ SortsBefore(list, key, i, j) \/ SortsBefore(list, key, j, i)
    BY <1>1, SortsBeforeOrder
  <2>2. SortedPosition(list, key, i) \in Int
    BY <1>4
  <2> QED BY <1>5, <1>6, <2>1, <2>2
<1>7. pos \in Injection(1..n, 1..n)
  BY <1>4, <1>6 DEF Injection, IsInjective
<1>8. pos \in Surjection(1..n, 1..n)
  BY <1>2, <1>7, FS_Injection
<1>9. \A k \in 1..n : \E i \in 1..n : SortedPosition(list, key, i) = k
  BY <1>8 DEF Surjection
<1> QED BY <1>1, <1>4, <1>5, <1>6, <1>9

\* list_sort permutes the list and leaves it sorted.
LEMMA ListSortElements ==
    ASSUME NEW S, NEW list \in Seq(S), NEW key, \A x \in S : key[x] \in Int
    PROVE  LET new == list_sort(list, key)
           IN  /\ new \in Seq(S)
               /\ Len(new) = Len(list)
               /\ ToSet(new) = ToSet(list)
               /\ NoDuplicates(list) => NoDuplicates(new)
               /\ IsSortedBy(new, key)
<1>1. PICK n \in Nat : n = Len(list)
  BY LenProperties
<1> DEFINE from(k) == CHOOSE i \in 1..n : SortedPosition(list, key, i) = k
           new == [k \in 1..n |-> list[from(k)]]
<1>2. \A k \in 1..n : from(k) \in 1..n /\ SortedPosition(list, key, from(k)) = k
  BY <1>1, SortedPositions
<1>3. list_sort(list, key) = new
  BY <1>1 DEF list_sort
<1>4. DOMAIN list = 1..n /\ \A i \in 1..n : list[i] \in S
  BY <1>1, LenProperties, ElementOfSeq
<1>5. \A i \in 1..n : \E k \in 1..n : from(k) = i
  <2> SUFFICES ASSUME NEW i \in 1..n PROVE \E k \in 1..n : from(k) = i
    OBVIOUS
  <2>1. PICK k \in 1..n : k = SortedPosition(list, key, i)
    BY <1>1, SortedPositions
  <2>2. from(k) \in 1..n /\ SortedPosition(list, key, from(k)) = k
    BY <1>2
  <2> HIDE DEF from
  <2>3. from(k) = i
    BY <1>1, <2>1, <2>2, SortedPositions
  <2> QED BY <2>3
<1> HIDE DEF from
<1>6. new \in Seq(S) /\ Len(new) = n /\ DOMAIN new = 1..n
  BY <1>2, <1>4
<1>7. ToSet(new) = ToSet(list)
  <2>1. ToSet(new) = {list[from(k)] : k \in 1..n} /\ ToSet(list) = {list[i] : i \in 1..n}
    BY <1>4 DEF ToSet
  <2> QED BY <1>2, <1>5, <2>1
<1>8. ASSUME NoDuplicates(list) PROVE NoDuplicates(new)
  <2> SUFFICES ASSUME NEW j \in 1..n, NEW k \in 1..n, list[from(j)] = list[from(k)]
               PROVE  j = k
    BY <1>6 DEF NoDuplicates
  <2>1. from(j) = from(k)
    BY <1>1, <1>2, <1>8 DEF NoDuplicates
  <2> QED BY <1>2, <2>1
<1>9. IsSortedBy(new, key)
  <2> SUFFICES ASSUME NEW j \in 1..n, NEW k \in 1..n, j < k
               PROVE  key[list[from(j)]] >= key[list[from(k)]]
    BY <1>6 DEF IsSortedBy
  <2>1. PICK x \in 1..n, y \in 1..n : x = from(j) /\ y = from(k)
    BY <1>2
  <2>2. x = y \/ SortsBefore(list, key, x, y) \/ SortsBefore(list, key, y, x)
    BY <1>1, <2>1, SortsBeforeOrder
  <2>3. SortedPosition(list, key, x) = j /\ SortedPosition(list, key, y) = k
    BY <1>2, <2>1
  <2>4. x # y /\ ~ SortsBefore(list, key, y, x)
    BY <1>1, <2>3, SortedPositions
  <2>5. SortsBefore(list, key, x, y)
    BY <2>2, <2>4
  <2>6. key[list[x]] \in Int /\ key[list[y]] \in Int
    BY <1>4
  <2> QED BY <2>1, <2>5, <2>6 DEF SortsBefore
<1> HIDE DEF new
<1> QED BY <1>1, <1>3, <1>6, <1>7, <1>8, <1>9

-----------------------------------------------------------------------------
(* list_push_back, list_pop_front, list_remove.                            *)

LEMMA PushBackElements ==
    ASSUME NEW S, NEW list \in Seq(S), NEW elem \in S
    PROVE  /\ Append(list, elem) \in Seq(S)
           /\ Len(Append(list, elem)) = Len(list) + 1
           /\ ToSet(Append(list, elem)) = ToSet(list) \cup {elem}
           /\ NoDuplicates(list) /\ elem \notin ToSet(list)
                 => NoDuplicates(Append(list, elem))
<1> DEFINE new == Append(list, elem)
<1>1. Len(list) \in Nat
  BY LenProperties
<1>2. /\ new \in Seq(S) /\ Len(new) = Len(list) + 1
      /\ \A i \in 1..Len(list) : new[i] = list[i]
      /\ new[Len(list) + 1] = elem
  BY <1>1
<1> HIDE DEF new
<1>3. IsSpliced(new, list, Len(list) + 1, elem)
  BY <1>1, <1>2 DEF IsSpliced
<1>4. Len(list) + 1 \in 1..Len(list) + 1
  BY <1>1
<1>5. /\ ToSet(new) = ToSet(list) \cup {elem}
      /\ NoDuplicates(list) /\ elem \notin ToSet(list) => NoDuplicates(new)
  BY <1>2, <1>3, <1>4, SplicedElements
<1> QED BY <1>2, <1>5 DEF new

\* What the first element and the rest of a list without duplicates contain.
LEMMA PopFrontElements ==
    ASSUME NEW S, NEW list \in Seq(S), list # <<>>
    PROVE  /\ Head(list) \in S /\ Head(list) \in ToSet(list)
           /\ Tail(list) \in Seq(S)
           /\ Len(Tail(list)) = Len(list) - 1
           /\ NoDuplicates(list) => /\ NoDuplicates(Tail(list))
                                    /\ ToSet(Tail(list)) = ToSet(list) \ {Head(list)}
<1>1. PICK n \in Nat : n = Len(list) /\ n > 0
  BY LenProperties, EmptySeq
<1>2. /\ Head(list) \in S /\ Head(list) = list[1]
      /\ Tail(list) \in Seq(S) /\ Len(Tail(list)) = n - 1
      /\ \A i \in 1..n - 1 : Tail(list)[i] = list[i + 1]
  BY <1>1, HeadTailProperties
<1>3. DOMAIN list = 1..n /\ DOMAIN Tail(list) = 1..n - 1
  BY <1>1, <1>2, LenProperties
<1>4. /\ ToSet(list) = {list[i] : i \in 1..n}
      /\ ToSet(Tail(list)) = {list[i + 1] : i \in 1..n - 1}
  <2>1. ToSet(Tail(list)) = {Tail(list)[i] : i \in 1..n - 1}
    BY <1>3 DEF ToSet
  <2> QED BY <1>2, <1>3, <2>1 DEF ToSet
<1>5. Head(list) \in ToSet(list)
  BY <1>1, <1>2, <1>4
<1>6. ASSUME NoDuplicates(list) PROVE NoDuplicates(Tail(list))
  <2> SUFFICES ASSUME NEW i \in 1..n - 1, NEW j \in 1..n - 1,
                      Tail(list)[i] = Tail(list)[j]
               PROVE  i = j
    BY <1>2 DEF NoDuplicates
  <2>1. i + 1 \in 1..n /\ j + 1 \in 1..n /\ list[i + 1] = list[j + 1]
    BY <1>2
  <2>2. i + 1 = j + 1
    BY <1>1, <1>6, <2>1 DEF NoDuplicates
  <2> QED BY <2>2
<1>7. ASSUME NoDuplicates(list)
      PROVE  ToSet(Tail(list)) = ToSet(list) \ {Head(list)}
  <2>1. ASSUME NEW i \in 1..n - 1
        PROVE  list[i + 1] \in ToSet(list) /\ list[i + 1] # Head(list)
    <3>1. i + 1 \in 1..n /\ 1 \in 1..n /\ i + 1 # 1
      BY <1>1
    <3>2. list[i + 1] # list[1]
      BY <1>1, <1>7, <3>1 DEF NoDuplicates
    <3> QED BY <1>2, <1>4, <3>1, <3>2
  <2>2. ASSUME NEW i \in 1..n, list[i] # Head(list)
        PROVE  list[i] \in ToSet(Tail(list))
    <3>1. i # 1
      BY <1>2, <2>2
    <3>2. i - 1 \in 1..n - 1 /\ (i - 1) + 1 = i
      BY <3>1
    <3> QED BY <1>4, <3>2
  <2> QED BY <1>4, <2>1, <2>2
<1> QED BY <1>1, <1>2, <1>5, <1>6, <1>7

\* list_remove takes the element out of a list that has it once.
LEMMA RemoveElements ==
    ASSUME NEW S, NEW list \in Seq(S), NEW elem \in ToSet(list)
    PROVE  LET new == list_remove(list, elem)
           IN  /\ new \in Seq(S)
               /\ NoDuplicates(list) => /\ NoDuplicates(new)
                                        /\ ToSet(new) = ToSet(list) \ {elem}
<1>1. PICK n \in Nat : n = Len(list)
  BY LenProperties
<1>2. DOMAIN list = 1..n /\ \A i \in 1..n : list[i] \in S
  BY <1>1, LenProperties, ElementOfSeq
<1>3. ToSet(list) = {list[i] : i \in 1..n}
  BY <1>2 DEF ToSet
<1>4. PICK p \in 1..n : /\ p = CHOOSE i \in 1..Len(list) : list[i] = elem
                        /\ list[p] = elem
  BY <1>1, <1>3
<1> DEFINE front == SubSeq(list, 1, p - 1)
           back == SubSeq(list, p + 1, n)
           new == front \o back
<1>5. /\ front \in Seq(S) /\ Len(front) = p - 1
      /\ \A i \in 1..p - 1 : front[i] = list[i]
  BY <1>2, SubSeqProperties
<1>6. /\ back \in Seq(S) /\ Len(back) = n - p
      /\ \A i \in 1..n - p : back[i] = list[p + i]
  BY <1>2, SubSeqProperties
<1>7. list_remove(list, elem) = new
  BY <1>1, <1>4 DEF list_remove, RemoveAt
<1> HIDE DEF front, back
<1>8. /\ new \in Seq(S) /\ Len(new) = Len(front) + Len(back)
      /\ \A i \in 1..Len(front) + Len(back) :
            new[i] = IF i <= Len(front) THEN front[i] ELSE back[i - Len(front)]
  BY <1>5, <1>6, ConcatProperties
<1> HIDE DEF new
<1>9. Len(new) = n - 1 /\ DOMAIN new = 1..n - 1
  BY <1>5, <1>6, <1>8, LenProperties
<1>10. ASSUME NEW i \in 1..n - 1
       PROVE  \/ i < p /\ new[i] = list[i]
              \/ i >= p /\ new[i] = list[i + 1]
  <2>1. CASE i < p
    BY <1>5, <1>6, <1>8, <2>1
  <2>2. CASE i >= p
    <3>1. i - (p - 1) \in 1..n - p /\ p + (i - (p - 1)) = i + 1
      BY <2>2
    <3>2. back[i - (p - 1)] = list[i + 1]
      BY <1>6, <3>1
    <3> QED BY <1>5, <1>6, <1>8, <2>2, <3>2
  <2> QED BY <2>1, <2>2
<1>11. ASSUME NoDuplicates(list) PROVE NoDuplicates(new)
  <2>1. \A i, j \in 1..n : list[i] = list[j] => i = j
    BY <1>1, <1>11 DEF NoDuplicates
  <2> SUFFICES ASSUME NEW i \in 1..n - 1, NEW j \in 1..n - 1, new[i] = new[j]
               PROVE  i = j
    BY <1>9 DEF NoDuplicates
  <2>2. i \in 1..n /\ i + 1 \in 1..n /\ j \in 1..n /\ j + 1 \in 1..n
    OBVIOUS
  <2>3. CASE i < p /\ new[i] = list[i]
    <3>1. CASE j < p /\ new[j] = list[j]
      BY <2>1, <2>2, <2>3, <3>1
    <3>2. CASE j >= p /\ new[j] = list[j + 1]
      <4>1. i = j + 1
        BY <2>1, <2>2, <2>3, <3>2
      <4> QED BY <2>3, <3>2, <4>1
    <3> QED BY <1>10, <3>1, <3>2
  <2>4. CASE i >= p /\ new[i] = list[i + 1]
    <3>1. CASE j < p /\ new[j] = list[j]
      <4>1. i + 1 = j
        BY <2>1, <2>2, <2>4, <3>1
      <4> QED BY <2>4, <3>1, <4>1
    <3>2. CASE j >= p /\ new[j] = list[j + 1]
      <4>1. i + 1 = j + 1
        BY <2>1, <2>2, <2>4, <3>2
      <4> QED BY <4>1
    <3> QED BY <1>10, <3>1, <3>2
  <2> QED BY <1>10, <2>3, <2>4
<1>12. ASSUME NoDuplicates(list) PROVE ToSet(new) = ToSet(list) \ {elem}
  <2>0. ToSet(new) = {new[i] : i \in 1..n - 1}
    BY <1>9 DEF ToSet
  <2>1. \A i \in 1..n : list[i] = elem => i = p
    BY <1>1, <1>4, <1>12 DEF NoDuplicates
  <2>2. ASSUME NEW i \in 1..n - 1
        PROVE  new[i] \in ToSet(list) /\ new[i] # elem
    <3>1. i \in 1..n /\ i + 1 \in 1..n
      OBVIOUS
    <3>2. CASE i < p /\ new[i] = list[i]
      BY <1>3, <2>1, <3>1, <3>2
    <3>3. CASE i >= p /\ new[i] = list[i + 1]
      <4>1. i + 1 # p
        BY <3>3
      <4> QED BY <1>3, <2>1, <3>1, <3>3, <4>1
    <3> QED BY <1>10, <3>2, <3>3
  <2>3. ASSUME NEW i \in 1..n, list[i] # elem PROVE list[i] \in ToSet(new)
    <3>1. i # p
      BY <1>4, <2>3
    <3>2. CASE i < p
      <4>1. i \in 1..n - 1 /\ new[i] = list[i]
        BY <1>10, <3>2
      <4> QED BY <2>0, <4>1
    <3>3. CASE i > p
      <4>1. i - 1 \in 1..n - 1 /\ i - 1 >= p /\ (i - 1) + 1 = i
        BY <3>3
      <4>2. new[i - 1] = list[i]
        BY <1>10, <4>1
      <4> QED BY <2>0, <4>1, <4>2
    <3> QED BY <3>1, <3>2, <3>3
  <2> QED BY <1>3, <2>0, <2>2, <2>3
<1> QED BY <1>7, <1>8, <1>11, <1>12

\* list_pop_front of an ordered list takes a greatest element, and leaves the
\* rest in order.
LEMMA PopFrontSorted ==
    ASSUME NEW S, NEW list \in Seq(S), list # <<>>,
           NEW key, \A x \in S : key[x] \in Int, IsSortedBy(list, key)
    PROVE  /\ \A x \in ToSet(list) : key[Head(list)] >= key[x]
           /\ IsSortedBy(Tail(list), key)
<1>1. PICK n \in Nat : n = Len(list) /\ n > 0
  BY LenProperties, EmptySeq
<1>2. /\ Head(list) = list[1] /\ Len(Tail(list)) = n - 1
      /\ \A i \in 1..n - 1 : Tail(list)[i] = list[i + 1]
  BY <1>1, HeadTailProperties
<1>3. \A i \in 1..n : list[i] \in S /\ key[list[i]] \in Int
  BY <1>1, ElementOfSeq
<1>4. \A i, j \in 1..n : i < j => key[list[i]] >= key[list[j]]
  BY <1>1 DEF IsSortedBy
<1>5. ASSUME NEW x \in ToSet(list) PROVE key[Head(list)] >= key[x]
  <2>1. PICK i \in 1..n : x = list[i]
    BY <1>1, LenProperties DEF ToSet
  <2> QED BY <1>1, <1>2, <1>3, <1>4, <2>1
<1>6. ASSUME NEW i \in 1..n - 1, NEW j \in 1..n - 1, i < j
      PROVE  key[Tail(list)[i]] >= key[Tail(list)[j]]
  BY <1>1, <1>2, <1>4, <1>6
<1> QED BY <1>2, <1>5, <1>6 DEF IsSortedBy
=============================================================================
