------------------------- MODULE SortedVectorProofs -------------------------
(***************************************************************************)
(* For any keys, values and length of the vector: the items stay in order  *)
(* and the binary search is right.  Each rests on the other, since the     *)
(* search needs an ordered vector and an item is put where the search      *)
(* ended; a merged vector needs to be known to fit at its end.  From these *)
(* it follows that the functions are those of a map.                       *)
(***************************************************************************)
EXTENDS SortedVector, SequenceTheorems, TLAPS

\* The loop invariant of _indexOrderOf: what lies before l is smaller, what
\* lies behind h is greater.
SearchNarrows ==
  pc = "search" =>
    \A i \in 1..Len(items) :
      /\ i <= l => items[i].key < item.key
      /\ i > h + 1 => items[i].key > item.key

\* A vector that is merged as a whole is sorted and fits at its end.
MergeFits ==
  /\ pc \in {"prepend", "append"} => rest # << >> /\ Sorted(rest)
  /\ pc = "prepend" => items = << >> \/ rest[Len(rest)].key <= items[1].key
  /\ pc = "append" => items # << >> /\ rest[1].key >= items[Len(items)].key

IInv == TypeOK /\ KeysAreSorted /\ SearchNarrows /\ SearchIsRight /\ MergeFits

-----------------------------------------------------------------------------
(* The operators on sequences *)

\* Keys are integers, and an item has one.
LEMMA ItemKey == \A x \in Item : x.key \in Int
BY SortedAssumption DEF Item

\* The vectors that are merged are sequences of items.
LEMMA MergedIsSeq == MergedVectors \subseteq Seq(Item)
<1> SUFFICES ASSUME NEW s \in MergedVectors PROVE s \in Seq(Item)
  OBVIOUS
<1>1. PICK m \in 0..MaxMerged : s \in [1..m -> Item]
  BY DEF MergedVectors, BoundedSeq, SeqOf
<1>2. m \in Nat
  BY SortedAssumption
<1> QED
  BY <1>1, <1>2, SeqDef

\* t is s with x between the first k items and the others.
InsertedAt(s, k, x, t) ==
  /\ t \in Seq(Item)
  /\ Len(t) = Len(s) + 1
  /\ \A i \in 1..Len(s) + 1 :
       t[i] = IF i <= k THEN s[i] ELSE IF i = k + 1 THEN x ELSE s[i - 1]

\* insertAt puts the item at its place and moves the ones behind it.
LEMMA InsertedItems ==
  ASSUME NEW s \in Seq(Item), NEW k \in 0..Len(s), NEW x \in Item
  PROVE  InsertedAt(s, k, x, InsertAt(s, k + 1, x))
<1> DEFINE front == SubSeq(s, 1, k)
           back == SubSeq(s, k + 1, Len(s))
<1>1. Len(s) \in Nat /\ \A i \in 1..Len(s) : s[i] \in Item
  BY LenProperties, ElementOfSeq
<1>2. /\ front \in Seq(Item) /\ Len(front) = k
      /\ \A i \in 1..k : front[i] = s[i]
  BY <1>1, SubSeqProperties
<1>3. /\ back \in Seq(Item) /\ Len(back) = Len(s) - k
      /\ \A i \in 1..Len(s) - k : back[i] = s[k + i]
  BY <1>1, SubSeqProperties
<1>4. <<x>> \in Seq(Item) /\ Len(<<x>>) = 1 /\ <<x>>[1] = x
  OBVIOUS
<1>5. InsertAt(s, k + 1, x) = (front \o <<x>>) \o back
  <2>1. (k + 1) - 1 = k
    OBVIOUS
  <2> QED
    BY <2>1, Zenon DEF InsertAt
<1> HIDE DEF front, back
<1>6. /\ front \o <<x>> \in Seq(Item) /\ Len(front \o <<x>>) = k + 1
      /\ \A i \in 1..k + 1 : (front \o <<x>>)[i] = IF i <= k THEN s[i] ELSE x
  <2>1. \A i \in 1..Len(front) + Len(<<x>>) :
          (front \o <<x>>)[i] = IF i <= Len(front) THEN front[i]
                                ELSE <<x>>[i - Len(front)]
    BY <1>2, <1>4, ConcatProperties
  <2>2. front \o <<x>> \in Seq(Item) /\ Len(front \o <<x>>) = Len(front) + Len(<<x>>)
    BY <1>2, <1>4, ConcatProperties
  <2> QED
    BY <1>2, <1>4, <2>1, <2>2
<1>7. /\ (front \o <<x>>) \o back \in Seq(Item)
      /\ Len((front \o <<x>>) \o back) = Len(front \o <<x>>) + Len(back)
      /\ \A i \in 1..Len(front \o <<x>>) + Len(back) :
           ((front \o <<x>>) \o back)[i] =
              IF i <= Len(front \o <<x>>) THEN (front \o <<x>>)[i]
              ELSE back[i - Len(front \o <<x>>)]
  BY <1>3, <1>6, ConcatProperties
<1> DEFINE t == (front \o <<x>>) \o back
<1>8. t \in Seq(Item) /\ Len(t) = Len(s) + 1
  BY <1>1, <1>3, <1>6, <1>7
<1>9. ASSUME NEW i \in 1..Len(s) + 1
      PROVE  t[i] = IF i <= k THEN s[i] ELSE IF i = k + 1 THEN x ELSE s[i - 1]
  <2>1. CASE i <= k + 1
    <3>1. t[i] = (front \o <<x>>)[i]
      BY <1>1, <1>3, <1>6, <1>7, <2>1
    <3> HIDE DEF t
    <3> QED
      BY <1>1, <1>6, <2>1, <3>1
  <2>2. CASE i > k + 1
    <3>1. t[i] = back[i - (k + 1)]
      BY <1>1, <1>3, <1>6, <1>7, <2>2
    <3> HIDE DEF t
    <3> DEFINE m == i - (k + 1)
    <3>2. m \in 1..Len(s) - k /\ k + m = i - 1
      BY <1>1, <2>2
    <3> HIDE DEF m
    <3>3. back[m] = s[i - 1]
      BY <1>3, <3>2
    <3> QED
      BY <1>1, <2>2, <3>1, <3>3 DEF m
  <2>3. i <= k + 1 \/ i > k + 1
    BY <1>1
  <2> QED
    BY <2>1, <2>2, <2>3, Zenon
<1> QED
  <2>1. InsertAt(s, k + 1, x) = t
    BY <1>5
  <2> HIDE DEF t
  <2>2. InsertedAt(s, k, x, t)
    BY <1>8, <1>9 DEF InsertedAt
  <2> QED
    BY <2>1, <2>2
\* An item put between the smaller and the greater ones leaves them in order.
LEMMA InsertKeepsOrder ==
  ASSUME NEW s \in Seq(Item), Sorted(s), NEW k \in 0..Len(s), NEW x \in Item,
         \A i \in 1..Len(s) : IF i <= k THEN s[i].key <= x.key ELSE s[i].key >= x.key,
         NEW t, InsertedAt(s, k, x, t)
  PROVE  Sorted(t)
<1>1. /\ Len(s) \in Nat
      /\ Len(t) = Len(s) + 1
      /\ \A i \in 1..Len(s) + 1 :
           t[i] = IF i <= k THEN s[i] ELSE IF i = k + 1 THEN x ELSE s[i - 1]
  BY LenProperties DEF InsertedAt
<1>2. \A i \in 1..Len(s) : s[i].key \in Int
  BY ItemKey, ElementOfSeq
<1>3. x.key \in Int
  BY ItemKey
<1> SUFFICES ASSUME NEW i \in 1..Len(t), NEW j \in 1..Len(t), i < j
             PROVE  t[i].key <= t[j].key
  BY DEF Sorted
<1>4. CASE j <= k
  BY <1>1, <1>4 DEF Sorted
<1>5. CASE j = k + 1
  BY <1>1, <1>5
<1>6. CASE j > k + 1
  <2>1. t[j] = s[j - 1] /\ j - 1 \in 1..Len(s)
    BY <1>1, <1>6
  <2>2. CASE i <= k
    <3>1. t[i] = s[i] /\ i \in 1..Len(s) /\ i < j - 1
      BY <1>1, <1>6, <2>2
    <3> QED
      BY <2>1, <3>1, Zenon DEF Sorted
  <2>3. CASE i = k + 1
    BY <1>1, <1>6, <2>1, <2>3
  <2>4. CASE i > k + 1
    BY <1>1, <1>6, <2>1, <2>4, SMTT(30) DEF Sorted
  <2> QED
    BY <1>1, <2>2, <2>3, <2>4
<1> QED
  BY <1>1, <1>4, <1>5, <1>6

\* An item with the same key in another's place leaves them in order.
LEMMA ReplaceKeepsOrder ==
  ASSUME NEW s \in Seq(Item), Sorted(s), NEW k \in 1..Len(s), NEW x \in Item,
         s[k].key = x.key
  PROVE  ReplaceAt(s, k, x) \in Seq(Item) /\ Sorted(ReplaceAt(s, k, x))
<1>1. /\ ReplaceAt(s, k, x) \in Seq(Item)
      /\ Len(ReplaceAt(s, k, x)) = Len(s)
      /\ \A j \in 1..Len(s) : ReplaceAt(s, k, x)[j] = IF j = k THEN x ELSE s[j]
  BY ExceptSeq DEF ReplaceAt
<1>2. \A j \in 1..Len(s) : ReplaceAt(s, k, x)[j].key = s[j].key
  BY <1>1
<1> QED
  BY <1>1, <1>2 DEF Sorted

\* t is s without its item k.
RemovedAt(s, k, t) ==
  /\ t \in Seq(Item)
  /\ Len(t) = Len(s) - 1
  /\ \A i \in 1..Len(t) : t[i] = IF i < k THEN s[i] ELSE s[i + 1]

\* removeItemsAt takes one item out and moves up the ones behind it.
LEMMA RemovedItems ==
  ASSUME NEW s \in Seq(Item), NEW k \in 1..Len(s)
  PROVE  Len(s) \in Nat /\ RemovedAt(s, k, RemoveAt(s, k))
<1> DEFINE front == SubSeq(s, 1, k - 1)
           back == SubSeq(s, k + 1, Len(s))
           t == RemoveAt(s, k)
<1>1. Len(s) \in Nat /\ \A i \in 1..Len(s) : s[i] \in Item
  BY LenProperties, ElementOfSeq
<1>2. /\ front \in Seq(Item) /\ Len(front) = k - 1
      /\ \A i \in 1..k - 1 : front[i] = s[i]
  BY <1>1, SubSeqProperties
<1>3. /\ back \in Seq(Item) /\ Len(back) = Len(s) - k
      /\ \A i \in 1..Len(s) - k : back[i] = s[k + i]
  BY <1>1, SubSeqProperties
<1>4. t = front \o back
  BY DEF RemoveAt
<1> HIDE DEF front, back, t
<1>5. /\ t \in Seq(Item) /\ Len(t) = Len(front) + Len(back)
      /\ \A i \in 1..Len(front) + Len(back) :
           t[i] = IF i <= Len(front) THEN front[i] ELSE back[i - Len(front)]
  BY <1>2, <1>3, <1>4, ConcatProperties
<1>6. /\ Len(t) = Len(s) - 1
      /\ \A i \in 1..Len(t) : t[i] = IF i < k THEN s[i] ELSE s[i + 1]
  BY <1>1, <1>2, <1>3, <1>5, SMTT(30)
<1> QED
  BY <1>1, <1>5, <1>6 DEF t, RemovedAt

\* An item taken out leaves the others in order.
LEMMA RemoveKeepsOrder ==
  ASSUME NEW s \in Seq(Item), Sorted(s), NEW k \in 1..Len(s)
  PROVE  RemoveAt(s, k) \in Seq(Item) /\ Sorted(RemoveAt(s, k))
<1> DEFINE t == RemoveAt(s, k)
<1>1. Len(s) \in Nat /\ RemovedAt(s, k, t)
  BY RemovedItems
<1> HIDE DEF t
<1>2. Sorted(t)
  BY <1>1, SMTT(30) DEF RemovedAt, Sorted
<1> QED
  BY <1>1, <1>2 DEF t, RemovedAt

\* Two ordered vectors of which one ends where the other begins.
LEMMA ConcatKeepsOrder ==
  ASSUME NEW s \in Seq(Item), NEW t \in Seq(Item), Sorted(s), Sorted(t),
         s # << >>, t # << >>, s[Len(s)].key <= t[1].key
  PROVE  s \o t \in Seq(Item) /\ Sorted(s \o t)
<1>1. /\ s \o t \in Seq(Item)
      /\ Len(s \o t) = Len(s) + Len(t)
      /\ \A i \in 1..Len(s) + Len(t) :
           (s \o t)[i] = IF i <= Len(s) THEN s[i] ELSE t[i - Len(s)]
  BY ConcatProperties
<1>2. Len(s) \in Nat \ {0} /\ Len(t) \in Nat \ {0}
  BY EmptySeq
<1>3. /\ \A i \in 1..Len(s) : s[i].key \in Int /\ s[i].key <= s[Len(s)].key
      /\ \A i \in 1..Len(t) : t[i].key \in Int /\ t[1].key <= t[i].key
  BY <1>2, ItemKey, ElementOfSeq DEF Sorted
<1>4. \A i \in 1..Len(s), j \in 1..Len(t) : s[i].key <= t[j].key
  BY <1>2, <1>3
<1>5. ASSUME NEW i \in 1..Len(s \o t), NEW j \in 1..Len(s \o t), i < j
      PROVE  (s \o t)[i].key <= (s \o t)[j].key
  <2>1. CASE j <= Len(s)
    <3>1. (s \o t)[i] = s[i] /\ (s \o t)[j] = s[j]
      BY <1>1, <1>2, <1>5, <2>1
    <3> QED
      BY <1>1, <1>2, <1>5, <2>1, <3>1 DEF Sorted
  <2>2. CASE i > Len(s)
    <3>1. (s \o t)[i] = t[i - Len(s)] /\ (s \o t)[j] = t[j - Len(s)]
      BY <1>1, <1>2, <1>5, <2>2
    <3>2. /\ i - Len(s) \in 1..Len(t) /\ j - Len(s) \in 1..Len(t)
          /\ i - Len(s) < j - Len(s)
      BY <1>1, <1>2, <1>5, <2>2
    <3> QED
      BY <3>1, <3>2 DEF Sorted
  <2>3. CASE i <= Len(s) /\ j > Len(s)
    <3>1. (s \o t)[i] = s[i] /\ (s \o t)[j] = t[j - Len(s)]
      BY <1>1, <1>2, <1>5, <2>3
    <3>2. i \in 1..Len(s) /\ j - Len(s) \in 1..Len(t)
      BY <1>1, <1>2, <1>5, <2>3
    <3> QED
      BY <1>4, <3>1, <3>2
  <2> QED
    BY <1>1, <1>2, <2>1, <2>2, <2>3
<1>6. Sorted(s \o t)
  BY <1>5 DEF Sorted
<1> QED
  BY <1>1, <1>6

-----------------------------------------------------------------------------
(* The steps *)

\* Initially the vector is empty and no function is running.
LEMMA InitHolds == Init => IInv
<1> SUFFICES ASSUME Init PROVE IInv
  OBVIOUS
<1>1. << >> \in Seq(Item) /\ Len(<< >>) = 0
  BY EmptySeq
<1>2. storage \in BOOLEAN
  BY DEF Init
<1> QED
  BY <1>1, <1>2 DEF Init, IInv, TypeOK, KeysAreSorted, Sorted, SearchNarrows, SearchIsRight,
              MergeFits

\* A search begins with the whole vector between its bounds.
LEMMA SearchStarts ==
  ASSUME NEW name \in {"none", "indexOf", "add", "remove", "merge"}, NEW x \in Item,
         NEW more \in Seq(Item),
         items' \in Seq(Item), Sorted(items'), storage' \in BOOLEAN, Search(name, x, more, items')
  PROVE  IInv'
<1>1. Len(items') \in Nat
  BY LenProperties
<1> QED
  BY <1>1 DEF Search, IInv, TypeOK, KeysAreSorted, SearchNarrows, SearchIsRight, MergeFits

\* After a change of the vector that keeps it in order, merge() may search
\* for its next item.
LEMMA ReturnHolds ==
  ASSUME IInv, pc \in {"found", "absent"},
         items' \in Seq(Item), Sorted(items'), storage' \in BOOLEAN, Return
  PROVE  IInv'
<1>1. CASE rest = << >>
  BY <1>1 DEF Return, call, IInv, TypeOK, KeysAreSorted, SearchNarrows, SearchIsRight,
              MergeFits
<1>2. CASE rest # << >>
  <2>1. Search(op, Head(rest), Tail(rest), items')
    BY <1>2 DEF Return
  <2>2. Head(rest) \in Item /\ Tail(rest) \in Seq(Item)
    BY <1>2, HeadTailProperties DEF IInv, TypeOK
  <2>3. op \in {"none", "indexOf", "add", "remove", "merge"}
    BY DEF IInv, TypeOK
  <2> QED
    BY <2>1, <2>2, <2>3, SearchStarts
<1> QED
  BY <1>1, <1>2

\* The items of the vector, and their keys.
LEMMA ItemsTyped ==
  ASSUME TypeOK
  PROVE  /\ Len(items) \in Nat /\ item.key \in Int
         /\ \A i \in 1..Len(items) : items[i] \in Item /\ items[i].key \in Int
<1>1. Len(items) \in Nat /\ \A i \in 1..Len(items) : items[i] \in Item
  BY LenProperties, ElementOfSeq DEF TypeOK
<1> QED
  BY <1>1, ItemKey DEF TypeOK

\* A member function begins.
LEMMA BeginHolds == IInv /\ Begin => IInv'
<1> SUFFICES ASSUME IInv, Begin PROVE IInv'
  OBVIOUS
<1> USE DEF IInv
<1>1. items \in Seq(Item) /\ Sorted(items)
  BY DEF TypeOK, KeysAreSorted
<1>2. CASE Call
  <2>1. PICK x \in Item, name \in {"indexOf", "add", "remove"} :
          Search(name, x, << >>, items)
    BY <1>2 DEF Call
  <2>2. items' = items /\ storage' \in BOOLEAN
    BY <1>2 DEF Call, TypeOK
  <2>3. << >> \in Seq(Item)
    BY EmptySeq
  <2> HIDE DEF IInv
  <2> QED
    BY <1>1, <2>1, <2>2, <2>3, SearchStarts
<1>3. CASE MergeVector
  <2>1. PICK s \in MergedVectors : s # << >> /\ Search("merge", Head(s), Tail(s), items)
    BY <1>3 DEF MergeVector
  <2>2. items' = items /\ storage' \in BOOLEAN
    BY <1>3 DEF MergeVector, TypeOK
  <2>3. Head(s) \in Item /\ Tail(s) \in Seq(Item)
    BY <2>1, MergedIsSeq, HeadTailProperties
  <2> HIDE DEF IInv
  <2> QED
    BY <1>1, <2>1, <2>2, <2>3, SearchStarts
<1>4. CASE MergeSorted
  <2>1. PICK s \in MergedVectors :
          /\ s # << >> /\ Sorted(s)
          /\ \/ /\ s[Len(s)].key <= items[1].key
                /\ pc' = "prepend" /\ rest' = s
                /\ op' = "merge" /\ UNCHANGED <<item, l, h>>
             \/ /\ s[1].key >= items[Len(items)].key
                /\ pc' = "append" /\ rest' = s
                /\ op' = "merge" /\ UNCHANGED <<item, l, h>>
             \/ Search("merge", Head(s), Tail(s), items)
    BY <1>4 DEF MergeSorted
  <2>2. items' = items /\ items # << >> /\ storage' \in BOOLEAN
    BY <1>4 DEF MergeSorted, TypeOK
  <2>3. s \in Seq(Item)
    BY MergedIsSeq
  <2>4. CASE Search("merge", Head(s), Tail(s), items)
    <3>1. Head(s) \in Item /\ Tail(s) \in Seq(Item)
      BY <2>1, <2>3, HeadTailProperties
    <3> HIDE DEF IInv
    <3> QED
      BY <1>1, <2>2, <2>4, <3>1, SearchStarts
  <2>5. CASE pc' = "prepend" /\ rest' = s /\ s[Len(s)].key <= items[1].key
             /\ op' = "merge" /\ UNCHANGED <<item, l, h>>
    BY <2>1, <2>2, <2>3, <2>5
       DEF TypeOK, KeysAreSorted, SearchNarrows, SearchIsRight, MergeFits
  <2>6. CASE pc' = "append" /\ rest' = s /\ s[1].key >= items[Len(items)].key
             /\ op' = "merge" /\ UNCHANGED <<item, l, h>>
    BY <2>1, <2>2, <2>3, <2>6
       DEF TypeOK, KeysAreSorted, SearchNarrows, SearchIsRight, MergeFits
  <2> QED
    BY <2>1, <2>4, <2>5, <2>6
<1>5. CASE MergeSortedIntoEmpty
  <2>1. items' = items /\ items = << >> /\ storage' = storage
    BY <1>5 DEF MergeSortedIntoEmpty
  <2>2. CASE pc' = "crashed" /\ UNCHANGED call
    BY <2>1, <2>2 DEF call, TypeOK, KeysAreSorted, SearchNarrows, SearchIsRight, MergeFits
  <2>3. CASE /\ \E s \in MergedVectors : s # << >> /\ Sorted(s) /\ pc' = "prepend" /\ rest' = s
             /\ op' = "merge" /\ UNCHANGED <<item, l, h>>
    BY <2>1, <2>3, MergedIsSeq DEF TypeOK, KeysAreSorted, SearchNarrows, SearchIsRight, MergeFits
  <2> QED
    BY <1>5, <2>2, <2>3 DEF MergeSortedIntoEmpty
<1> QED
  BY <1>2, <1>3, <1>4, <1>5 DEF Begin

\* One turn of the search: half of the items is ruled out, for the order of
\* the items extends the answer for the middle to all that lie beyond it.
LEMMA ProbeHolds == IInv /\ Probe => IInv'
<1> SUFFICES ASSUME IInv, Probe PROVE IInv'
  OBVIOUS
<1> USE DEF IInv
<1>1. /\ Len(items) \in Nat /\ item.key \in Int
      /\ \A i \in 1..Len(items) : items[i] \in Item /\ items[i].key \in Int
  BY ItemsTyped
<1>2. l \in 0..Len(items) /\ h \in -1..Len(items) - 1 /\ l <= h /\ pc = "search"
  BY DEF Probe, TypeOK
<1>3. mid \in l..h
  BY <1>1, <1>2 DEF mid
<1>4. mid \in 0..Len(items) - 1 /\ mid + 1 \in 1..Len(items) /\ curr = items[mid + 1]
  BY <1>1, <1>2, <1>3 DEF curr
<1>5. UNCHANGED <<items, storage, op, item, rest>>
  BY DEF Probe
<1> DEFINE m == mid
<1>6. \A i \in 1..Len(items) :
        /\ i <= m + 1 => items[i].key <= curr.key
        /\ i > m + 1 => items[i].key >= curr.key
  <2> HIDE DEF m
  <2> SUFFICES ASSUME NEW i \in 1..Len(items)
               PROVE  /\ i <= m + 1 => items[i].key <= items[m + 1].key
                      /\ i > m + 1 => items[i].key >= items[m + 1].key
    BY <1>4 DEF m
  <2>1. m + 1 \in 1..Len(items)
    BY <1>4 DEF m
  <2>2. CASE i < m + 1
    BY <1>1, <2>1, <2>2 DEF KeysAreSorted, Sorted
  <2>3. CASE i = m + 1
    BY <1>1, <2>1, <2>3
  <2>4. CASE i > m + 1
    BY <1>1, <2>1, <2>4 DEF KeysAreSorted, Sorted
  <2> QED
    BY <1>1, <2>1, <2>2, <2>3, <2>4
<1>7. curr.key \in Int
  BY <1>1, <1>4
<1>8. CASE curr.key = item.key /\ l' = m /\ pc' = "found" /\ h' = h
  <2> HIDE DEF m
  <2>1. TypeOK'
    BY <1>1, <1>2, <1>4, <1>5, <1>8 DEF TypeOK, m
  <2>2. SearchIsRight'
    BY <1>1, <1>4, <1>5, <1>8 DEF SearchIsRight, m
  <2> QED
    BY <1>2, <1>5, <1>8, <2>1, <2>2 DEF KeysAreSorted, SearchNarrows, MergeFits
<1>9. CASE curr.key < item.key /\ l' = m + 1 /\ h' = h /\ pc' = pc
  <2>1. TypeOK'
    BY <1>1, <1>2, <1>4, <1>5, <1>9 DEF TypeOK
  <2>2. \A i \in 1..Len(items) :
          /\ i <= m + 1 => items[i].key < item.key
          /\ i > h + 1 => items[i].key > item.key
    <3> HIDE DEF m
    <3> QED
      BY <1>1, <1>2, <1>6, <1>7, <1>9 DEF SearchNarrows
  <2> HIDE DEF m
  <2>3. SearchNarrows'
    BY <1>5, <1>9, <2>2 DEF SearchNarrows
  <2> QED
    BY <1>2, <1>5, <1>9, <2>1, <2>3 DEF KeysAreSorted, SearchIsRight, MergeFits
<1>10. CASE curr.key > item.key /\ h' = m - 1 /\ l' = l /\ pc' = pc
  <2>1. TypeOK'
    BY <1>1, <1>2, <1>4, <1>5, <1>10 DEF TypeOK
  <2>2. \A i \in 1..Len(items) :
          /\ i <= l => items[i].key < item.key
          /\ i > (m - 1) + 1 => items[i].key > item.key
    <3>1. m \in Int /\ items[m + 1].key = curr.key
      BY <1>4
    <3> HIDE DEF m
    <3>2. \A i \in 1..Len(items) : i >= m + 1 => items[i].key >= curr.key
      BY <1>1, <1>6, <1>7, <3>1
    <3>3. \A i \in 1..Len(items) : i <= l => items[i].key < item.key
      BY <1>2 DEF SearchNarrows
    <3>4. ASSUME NEW i \in 1..Len(items), i > (m - 1) + 1 PROVE items[i].key > item.key
      <4>1. i >= m + 1
        BY <1>1, <3>1, <3>4
      <4>2. items[i].key >= curr.key /\ items[i].key \in Int
        BY <1>1, <3>2, <4>1
      <4> QED
        BY <1>1, <1>7, <1>10, <4>2
    <3> QED
      BY <3>3, <3>4
  <2> HIDE DEF m
  <2>3. SearchNarrows'
    BY <1>5, <1>10, <2>2 DEF SearchNarrows
  <2> QED
    BY <1>2, <1>5, <1>10, <2>1, <2>3 DEF KeysAreSorted, SearchIsRight, MergeFits
<1> QED
  BY <1>8, <1>9, <1>10 DEF Probe

\* The loop ends with l just behind h: the search has narrowed to one place.
LEMMA NotFoundHolds == IInv /\ NotFound => IInv'
<1> SUFFICES ASSUME IInv, NotFound PROVE IInv'
  OBVIOUS
<1>1. TypeOK /\ KeysAreSorted /\ SearchNarrows /\ MergeFits
  BY DEF IInv
<1>2. Len(items) \in Nat /\ l \in 0..Len(items) /\ h \in -1..Len(items) - 1
  BY <1>1, ItemsTyped DEF TypeOK, NotFound
<1>3. \A i \in 1..Len(items) :
        IF i <= l THEN items[i].key < item.key ELSE items[i].key > item.key
  BY <1>1, <1>2 DEF SearchNarrows, NotFound
<1> QED
  BY <1>1, <1>2, <1>3
     DEF IInv, NotFound, call, TypeOK, KeysAreSorted, SearchNarrows, SearchIsRight, MergeFits

\* add(): the item goes where the search ended.
LEMMA AddHolds == IInv /\ (Insert \/ InsertFails \/ Replace) => IInv'
<1> SUFFICES ASSUME IInv, Insert \/ InsertFails \/ Replace PROVE IInv'
  OBVIOUS
<1>1. TypeOK /\ Sorted(items) /\ SearchIsRight /\ items \in Seq(Item) /\ item \in Item
  BY DEF IInv, KeysAreSorted, TypeOK
<1>2. /\ Len(items) \in Nat /\ item.key \in Int
      /\ \A i \in 1..Len(items) : items[i].key \in Int
  BY <1>1, ItemsTyped
<1>3. CASE Insert
  <2>1. /\ l \in 0..Len(items)
        /\ \A i \in 1..Len(items) :
             IF i <= l THEN items[i].key < item.key ELSE items[i].key > item.key
    BY <1>1, <1>3 DEF Insert, SearchIsRight
  <2>2. \A i \in 1..Len(items) :
          IF i <= l THEN items[i].key <= item.key ELSE items[i].key >= item.key
    BY <1>2, <2>1
  <2>3. InsertedAt(items, l, item, items')
    BY <1>1, <1>3, <2>1, InsertedItems DEF Insert
  <2>4. Sorted(items')
    BY <1>1, <2>1, <2>2, <2>3, InsertKeepsOrder
  <2>5. items' \in Seq(Item)
    BY <2>3 DEF InsertedAt
  <2>6. storage' \in BOOLEAN
    BY <1>3 DEF Insert
  <2> QED
    BY <1>3, <2>4, <2>5, <2>6, ReturnHolds DEF Insert
<1>4. CASE InsertFails
  <2>1. << >> \in Seq(Item)
    BY EmptySeq
  <2> QED
    BY <1>4, <2>1 DEF InsertFails, IInv, TypeOK, KeysAreSorted, SearchNarrows,
                      SearchIsRight, MergeFits
<1>5. CASE Replace
  <2>1. l + 1 \in 1..Len(items) /\ items[l + 1].key = item.key
    BY <1>1, <1>2, <1>5 DEF Replace, SearchIsRight
  <2>2. items' \in Seq(Item) /\ Sorted(items')
    BY <1>1, <1>5, <2>1, ReplaceKeepsOrder DEF Replace
  <2>3. storage' \in BOOLEAN
    BY <1>1, <1>5 DEF Replace, TypeOK
  <2> QED
    BY <1>5, <2>2, <2>3, ReturnHolds DEF Replace
<1> QED
  BY <1>3, <1>4, <1>5

\* remove(), and the functions that leave the vector alone.
LEMMA RemoveHolds == IInv /\ (RemoveFound \/ Answer) => IInv'
<1> SUFFICES ASSUME IInv, RemoveFound \/ Answer PROVE IInv'
  OBVIOUS
<1>1. TypeOK /\ Sorted(items) /\ SearchIsRight /\ items \in Seq(Item)
  BY DEF IInv, KeysAreSorted, TypeOK
<1>2. CASE RemoveFound
  <2>1. l + 1 \in 1..Len(items)
    BY <1>1, <1>2, ItemsTyped DEF RemoveFound, SearchIsRight
  <2>2. items' \in Seq(Item) /\ Sorted(items')
    BY <1>1, <1>2, <2>1, RemoveKeepsOrder DEF RemoveFound
  <2>3. storage' \in BOOLEAN
    BY <1>1, <1>2 DEF RemoveFound, TypeOK
  <2> QED
    BY <1>2, <2>2, <2>3, ReturnHolds DEF RemoveFound
<1>3. CASE Answer
  BY <1>3 DEF Answer, call, IInv, TypeOK, KeysAreSorted, SearchNarrows, SearchIsRight,
              MergeFits
<1> QED
  BY <1>2, <1>3

\* A vector inserted as a whole.
LEMMA VectorHolds == IInv /\ (InsertVector \/ InsertVectorFails) => IInv'
<1> SUFFICES ASSUME IInv, InsertVector \/ InsertVectorFails PROVE IInv'
  OBVIOUS
<1>1. /\ TypeOK /\ Sorted(items) /\ Sorted(rest) /\ MergeFits
      /\ items \in Seq(Item) /\ rest \in Seq(Item) /\ rest # << >>
  BY DEF IInv, KeysAreSorted, TypeOK, MergeFits, InsertVector, InsertVectorFails
<1>2. << >> \in Seq(Item)
  BY EmptySeq
<1>3. items' \in Seq(Item) /\ Sorted(items')
  <2>1. CASE InsertVector /\ items = << >>
    <3>1. items' = rest
      BY <1>1, <2>1 DEF InsertVector, MergeFits
    <3> QED
      BY <1>1, <3>1
  <2>2. CASE InsertVector /\ pc = "prepend" /\ items # << >>
    BY <1>1, <2>2, ConcatKeepsOrder DEF InsertVector, MergeFits
  <2>3. CASE InsertVector /\ pc = "append"
    <3>1. items # << >>
      BY <1>1, <2>3 DEF MergeFits
    <3>2. items[Len(items)].key <= rest[1].key
      <4>1. 1 \in 1..Len(rest) /\ Len(items) \in 1..Len(items)
        BY <1>1, <3>1, EmptySeq
      <4>2. items[Len(items)].key \in Int /\ rest[1].key \in Int
        BY <1>1, <4>1, ElementOfSeq, ItemKey
      <4> QED
        BY <1>1, <2>3, <4>2 DEF MergeFits
    <3> QED
      BY <1>1, <2>3, <3>1, <3>2, ConcatKeepsOrder DEF InsertVector
  <2>4. CASE InsertVectorFails
    BY <1>1, <2>4 DEF InsertVectorFails
  <2> QED
    BY <1>1, <2>1, <2>2, <2>3, <2>4 DEF InsertVector, MergeFits
<1>4. storage' \in BOOLEAN
  BY <1>1 DEF InsertVector, InsertVectorFails, TypeOK
<1> QED
  BY <1>1, <1>2, <1>3, <1>4 DEF InsertVector, InsertVectorFails, IInv, TypeOK, KeysAreSorted,
                          SearchNarrows, SearchIsRight, MergeFits

\* No step breaks the invariant.
LEMMA NextHolds == IInv /\ [Next]_vars => IInv'
<1> SUFFICES ASSUME IInv, [Next]_vars PROVE IInv'
  OBVIOUS
<1>1. CASE UNCHANGED vars
  BY <1>1 DEF vars, call, IInv, TypeOK, KeysAreSorted, SearchNarrows, SearchIsRight,
              MergeFits
<1>2. CASE Next
  BY <1>2, BeginHolds, ProbeHolds, NotFoundHolds, AddHolds, RemoveHolds, VectorHolds
     DEF Next, Step
<1> QED
  BY <1>1, <1>2

\* The invariant holds in every behaviour of the vector.
THEOREM Invariance == Spec => []IInv
BY InitHolds, NextHolds, PTL DEF Spec

\* The variables keep their types, and no search leaves the array.
THEOREM TypeCorrect == Spec => []TypeOK
<1>1. IInv => TypeOK
  BY DEF IInv
<1> QED
  BY <1>1, Invariance, PTL

\* The items are always in the order of their keys.
THEOREM StaysSorted == Spec => []KeysAreSorted
<1>1. IInv => KeysAreSorted
  BY DEF IInv
<1> QED
  BY <1>1, Invariance, PTL

\* Every search finds the key, or the only place where it belongs.
THEOREM SearchCorrect == Spec => []SearchIsRight
<1>1. IInv => SearchIsRight
  BY DEF IInv
<1> QED
  BY <1>1, Invariance, PTL

-----------------------------------------------------------------------------
(* The vector as a map *)

\* The keys of a vector.
KeysOf(s) == {s[i].key : i \in 1..Len(s)}

\* m maps the key of each item to its value, and no other.
Maps(m, s) ==
  /\ m = [k \in DOMAIN m |-> m[k]] /\ DOMAIN m = KeysOf(s)
  /\ \A i \in 1..Len(s) : m[s[i].key] = s[i].value

\* Contents does, when no key is there twice.
LEMMA ContentsMaps ==
  ASSUME NEW s \in Seq(Item), Distinct(s)
  PROVE  Maps(Contents(s), s)
<1> DEFINE At(k) == CHOOSE j \in 1..Len(s) : s[j].key = k
<1>1. Contents(s) = [k \in KeysOf(s) |-> s[At(k)].value]
  BY DEF Contents, KeysOf
<1>2. ASSUME NEW i \in 1..Len(s) PROVE At(s[i].key) = i
  <2>1. At(s[i].key) \in 1..Len(s) /\ s[At(s[i].key)].key = s[i].key
    OBVIOUS
  <2> QED
    BY <2>1 DEF Distinct
<1> HIDE DEF At
<1>3. ASSUME NEW i \in 1..Len(s) PROVE Contents(s)[s[i].key] = s[i].value
  <2>1. s[i].key \in KeysOf(s)
    BY DEF KeysOf
  <2> QED
    BY <1>1, <1>2, <2>1
<1> QED
  BY <1>1, <1>3 DEF Maps

\* And it is the only map that does.
LEMMA MapsIsContents ==
  ASSUME NEW s \in Seq(Item), Distinct(s), NEW m, Maps(m, s)
  PROVE  m = Contents(s)
<1>1. Maps(Contents(s), s)
  BY ContentsMaps
<1>2. ASSUME NEW k \in KeysOf(s) PROVE m[k] = Contents(s)[k]
  <2>1. PICK i \in 1..Len(s) : k = s[i].key
    BY DEF KeysOf
  <2> QED
    BY <1>1, <2>1 DEF Maps
<1>3. m = [k \in KeysOf(s) |-> m[k]] /\ Contents(s) = [k \in KeysOf(s) |-> Contents(s)[k]]
  BY <1>1 DEF Maps
<1> QED
  BY <1>2, <1>3

\* A map that has the right value under each key.
LEMMA MapsTo ==
  ASSUME NEW s \in Seq(Item), Distinct(s), NEW m, m = [k \in DOMAIN m |-> m[k]], DOMAIN m = KeysOf(s),
         \A i \in 1..Len(s) : m[s[i].key] = s[i].value
  PROVE  Contents(s) = m
  BY MapsIsContents DEF Maps

\* add() of a key that is not there.
LEMMA InsertedMap ==
  ASSUME NEW s \in Seq(Item), Distinct(s), NEW k \in 0..Len(s), NEW x \in Item,
         \A i \in 1..Len(s) : s[i].key # x.key, NEW t, InsertedAt(s, k, x, t)
  PROVE  Distinct(t) /\ Contents(t) = Override([j \in {x.key} |-> x.value], Contents(s))
<1> DEFINE m == Override([j \in {x.key} |-> x.value], Contents(s))
<1>1. /\ Len(s) \in Nat /\ t \in Seq(Item) /\ Len(t) = Len(s) + 1
      /\ \A i \in 1..Len(s) + 1 :
           t[i] = IF i <= k THEN s[i] ELSE IF i = k + 1 THEN x ELSE s[i - 1]
  BY LenProperties DEF InsertedAt
<1>2. Distinct(t)
  <2> SUFFICES ASSUME NEW i \in 1..Len(t), NEW j \in 1..Len(t), i # j PROVE t[i].key # t[j].key
    BY DEF Distinct
  <2> DEFINE From(a) == IF a <= k THEN a ELSE a - 1
  <2>1. \A a \in 1..Len(t) : a # k + 1 => From(a) \in 1..Len(s) /\ t[a] = s[From(a)]
    BY <1>1
  <2>2. t[k + 1] = x
    BY <1>1
  <2>3. i # k + 1 /\ j # k + 1 => From(i) # From(j)
    BY <1>1
  <2> HIDE DEF From
  <2>4. CASE i = k + 1 \/ j = k + 1
    BY <2>1, <2>2, <2>4
  <2>5. CASE i # k + 1 /\ j # k + 1
    BY <2>1, <2>3, <2>5 DEF Distinct
  <2> QED
    BY <2>4, <2>5
<1>3. Maps(Contents(s), s)
  BY ContentsMaps
<1>4. /\ DOMAIN m = {x.key} \cup KeysOf(s) /\ m = [j \in DOMAIN m |-> m[j]]
      /\ \A j \in KeysOf(s) : j # x.key => m[j] = Contents(s)[j]
      /\ m[x.key] = x.value
  BY <1>3 DEF Override, Maps
<1> HIDE DEF m
<1>5. KeysOf(t) = {x.key} \cup KeysOf(s)
  <2>1. ASSUME NEW i \in 1..Len(t) PROVE t[i].key \in {x.key} \cup KeysOf(s)
    <3>1. CASE i <= k
      BY <1>1, <3>1 DEF KeysOf
    <3>2. CASE i = k + 1
      BY <1>1, <3>2
    <3>3. CASE i > k + 1
      <4>1. t[i] = s[i - 1] /\ i - 1 \in 1..Len(s)
        BY <1>1, <3>3
      <4> QED
        BY <4>1 DEF KeysOf
    <3> QED
      BY <1>1, <3>1, <3>2, <3>3
  <2>2. x.key \in KeysOf(t)
    <3>1. t[k + 1] = x /\ k + 1 \in 1..Len(t)
      BY <1>1
    <3> QED
      BY <3>1 DEF KeysOf
  <2>3. ASSUME NEW i \in 1..Len(s) PROVE s[i].key \in KeysOf(t)
    <3>1. CASE i <= k
      <4>1. t[i] = s[i] /\ i \in 1..Len(t)
        BY <1>1, <3>1
      <4> QED
        BY <4>1 DEF KeysOf
    <3>2. CASE i > k
      <4>1. t[i + 1] = s[(i + 1) - 1] /\ i + 1 \in 1..Len(t) /\ (i + 1) - 1 = i
        BY <1>1, <3>2
      <4> QED
        BY <4>1 DEF KeysOf
    <3> QED
      BY <1>1, <3>1, <3>2
  <2> QED
    BY <2>1, <2>2, <2>3 DEF KeysOf
<1>6. ASSUME NEW i \in 1..Len(t) PROVE m[t[i].key] = t[i].value
  <2>1. CASE i = k + 1
    <3>1. t[i] = x
      BY <1>1, <2>1
    <3>2. m[x.key] = x.value
      BY <1>4
    <3> QED
      BY <3>1, <3>2
  <2>2. CASE i # k + 1
    <3>1. PICK a \in 1..Len(s) : t[i] = s[a]
      <4>1. CASE i <= k
        BY <1>1, <4>1
      <4>2. CASE i > k + 1
        <5>1. t[i] = s[i - 1] /\ i - 1 \in 1..Len(s)
          BY <1>1, <4>2
        <5> QED
          BY <5>1
      <4> QED
        BY <1>1, <2>2, <4>1, <4>2
    <3>2. s[a].key \in KeysOf(s) /\ s[a].key # x.key
      BY DEF KeysOf
    <3> QED
      BY <1>3, <1>4, <3>1, <3>2 DEF Maps
  <2> QED
    BY <2>1, <2>2
<1>7. Contents(t) = m
  BY <1>1, <1>2, <1>4, <1>5, <1>6, MapsTo
<1> QED
  BY <1>2, <1>7 DEF m

\* add() of a key that is there.
LEMMA ReplacedMap ==
  ASSUME NEW s \in Seq(Item), Distinct(s), NEW k \in 1..Len(s), NEW x \in Item, s[k].key = x.key
  PROVE  /\ Distinct(ReplaceAt(s, k, x))
         /\ Contents(ReplaceAt(s, k, x)) = Override([j \in {x.key} |-> x.value], Contents(s))
<1> DEFINE m == Override([j \in {x.key} |-> x.value], Contents(s))
           t == ReplaceAt(s, k, x)
<1>1. /\ t \in Seq(Item) /\ Len(t) = Len(s)
      /\ \A j \in 1..Len(s) : t[j] = IF j = k THEN x ELSE s[j]
  BY ExceptSeq DEF ReplaceAt
<1>2. Maps(Contents(s), s)
  BY ContentsMaps
<1>3. x.key \in KeysOf(s)
  BY DEF KeysOf
<1>4. /\ DOMAIN m = KeysOf(s) /\ m = [j \in DOMAIN m |-> m[j]]
      /\ \A j \in KeysOf(s) : j # x.key => m[j] = Contents(s)[j]
      /\ m[x.key] = x.value
  BY <1>2, <1>3 DEF Override, Maps
<1> HIDE DEF m, t
<1>5. \A j \in 1..Len(s) : t[j].key = s[j].key
  BY <1>1
<1>6. Distinct(t) /\ KeysOf(t) = KeysOf(s)
  BY <1>1, <1>5 DEF Distinct, KeysOf
<1>7. ASSUME NEW i \in 1..Len(t) PROVE m[t[i].key] = t[i].value
  <2>1. CASE i = k
    <3>1. t[i] = x
      BY <1>1, <2>1
    <3>2. m[x.key] = x.value
      BY <1>4
    <3> QED
      BY <3>1, <3>2
  <2>2. CASE i # k
    <3>1. t[i] = s[i] /\ i \in 1..Len(s) /\ s[i].key \in KeysOf(s) /\ s[i].key # x.key
      BY <1>1, <2>2 DEF KeysOf, Distinct
    <3> QED
      BY <1>2, <1>4, <3>1 DEF Maps
  <2> QED
    BY <2>1, <2>2
<1>8. Contents(t) = m
  BY <1>1, <1>4, <1>6, <1>7, MapsTo
<1> QED
  BY <1>6, <1>8 DEF m, t

\* remove().
LEMMA RemovedMap ==
  ASSUME NEW s \in Seq(Item), Distinct(s), NEW k \in 1..Len(s)
  PROVE  /\ Distinct(RemoveAt(s, k))
         /\ Contents(RemoveAt(s, k)) = [j \in DOMAIN Contents(s) \ {s[k].key} |-> Contents(s)[j]]
<1> DEFINE m == [j \in DOMAIN Contents(s) \ {s[k].key} |-> Contents(s)[j]]
           t == RemoveAt(s, k)
<1>1. /\ Len(s) \in Nat /\ t \in Seq(Item) /\ Len(t) = Len(s) - 1
      /\ \A i \in 1..Len(t) : t[i] = IF i < k THEN s[i] ELSE s[i + 1]
  BY RemovedItems DEF RemovedAt
<1>2. Maps(Contents(s), s)
  BY ContentsMaps
<1> HIDE DEF t
<1> DEFINE From(a) == IF a < k THEN a ELSE a + 1
<1>3. ASSUME NEW a \in 1..Len(t) PROVE From(a) \in 1..Len(s) /\ From(a) # k /\ t[a] = s[From(a)]
  BY <1>1
<1>4. ASSUME NEW a \in 1..Len(t), NEW b \in 1..Len(t), a # b PROVE From(a) # From(b)
  BY <1>1, <1>4
<1>5. ASSUME NEW i \in 1..Len(s), i # k PROVE \E a \in 1..Len(t) : From(a) = i
  <2>1. CASE i < k
    BY <1>1, <2>1
  <2>2. CASE i > k
    <3>1. i - 1 \in 1..Len(t) /\ From(i - 1) = i
      BY <1>1, <2>2
    <3> HIDE DEF From
    <3> QED
      BY <3>1
  <2> QED
    BY <1>1, <1>5, <2>1, <2>2
<1> HIDE DEF From
<1>6. Distinct(t)
  BY <1>3, <1>4 DEF Distinct
<1>7. KeysOf(t) = KeysOf(s) \ {s[k].key}
  <2>1. ASSUME NEW a \in 1..Len(t) PROVE t[a].key \in KeysOf(s) /\ t[a].key # s[k].key
    BY <1>3 DEF KeysOf, Distinct
  <2>2. ASSUME NEW i \in 1..Len(s), s[i].key # s[k].key PROVE s[i].key \in KeysOf(t)
    <3>1. PICK a \in 1..Len(t) : From(a) = i
      BY <1>5, <2>2
    <3>2. t[a] = s[i]
      BY <1>3, <3>1
    <3> QED
      BY <3>2 DEF KeysOf
  <2> QED
    BY <2>1, <2>2 DEF KeysOf
<1>8. DOMAIN m = KeysOf(t) /\ m = [j \in DOMAIN m |-> m[j]] /\ \A j \in KeysOf(t) : m[j] = Contents(s)[j]
  BY <1>2, <1>7 DEF Maps
<1> HIDE DEF m
<1>9. ASSUME NEW a \in 1..Len(t) PROVE m[t[a].key] = t[a].value
  <2>1. t[a].key \in KeysOf(t)
    BY DEF KeysOf
  <2>2. PICK i \in 1..Len(s) : t[a] = s[i]
    BY <1>3
  <2> QED
    BY <1>2, <1>8, <2>1, <2>2 DEF Maps
<1>10. Contents(t) = m
  BY <1>1, <1>6, <1>8, <1>9, MapsTo
<1> QED
  BY <1>6, <1>10 DEF m, t

\* The key of any item of s \o t is that of an item of one of them.
LEMMA ConcatParts ==
  ASSUME NEW s \in Seq(Item), NEW t \in Seq(Item)
  PROVE  /\ s \o t \in Seq(Item) /\ Len(s) \in Nat /\ Len(t) \in Nat /\ Len(s \o t) = Len(s) + Len(t)
         /\ \A i \in 1..Len(s) : (s \o t)[i] = s[i]
         /\ \A i \in 1..Len(t) : (s \o t)[Len(s) + i] = t[i]
<1>1. /\ s \o t \in Seq(Item)
      /\ Len(s \o t) = Len(s) + Len(t)
      /\ \A i \in 1..Len(s) + Len(t) :
           (s \o t)[i] = IF i <= Len(s) THEN s[i] ELSE t[i - Len(s)]
  BY ConcatProperties
<1>2. PICK n \in Nat, m \in Nat : n = Len(s) /\ m = Len(t)
  BY LenProperties
<1>3. ASSUME NEW i \in 1..m PROVE (s \o t)[n + i] = t[i]
  <2>1. n + i \in 1..n + m /\ ~(n + i <= n) /\ (n + i) - n = i
    OBVIOUS
  <2> QED
    BY <1>1, <1>2, <2>1
<1>4. ASSUME NEW i \in 1..n PROVE (s \o t)[i] = s[i]
  BY <1>1, <1>2
<1> QED
  BY <1>1, <1>2, <1>3, <1>4

\* Which of the two an item of s \o t comes from.
LEMMA FromEither ==
  ASSUME NEW s \in Seq(Item), NEW t \in Seq(Item), NEW i \in 1..Len(s \o t)
  PROVE  \/ i \in 1..Len(s) /\ (s \o t)[i] = s[i]
         \/ \E j \in 1..Len(t) : i = Len(s) + j /\ (s \o t)[i] = t[j]
<1>1. PICK n \in Nat, m \in Nat : n = Len(s) /\ m = Len(t) /\ Len(s \o t) = n + m
  BY ConcatParts
<1>2. CASE i <= n
  BY <1>1, <1>2, ConcatParts
<1>3. CASE i > n
  <2>1. i - n \in 1..m /\ i = n + (i - n)
    BY <1>1, <1>3
  <2>2. PICK j \in 1..m : i = n + j
    BY <2>1
  <2> QED
    BY <1>1, <2>2, ConcatParts
<1> QED
  BY <1>1, <1>2, <1>3

\* Two vectors without a key in common are distinct together in either order.
LEMMA DistinctConcat ==
  ASSUME NEW s \in Seq(Item), NEW t \in Seq(Item)
  PROVE  Distinct(s \o t) <=>
           Distinct(s) /\ Distinct(t) /\ \A i \in 1..Len(s), j \in 1..Len(t) : s[i].key # t[j].key
<1>1. PICK n \in Nat, m \in Nat : n = Len(s) /\ m = Len(t) /\ Len(s \o t) = n + m
  BY ConcatParts
<1>2. /\ \A i \in 1..n : (s \o t)[i] = s[i] /\ i \in 1..n + m
      /\ \A j \in 1..m : (s \o t)[n + j] = t[j] /\ n + j \in 1..n + m
  BY <1>1, ConcatParts
<1>3. ASSUME Distinct(s \o t)
      PROVE  Distinct(s) /\ Distinct(t) /\ \A i \in 1..n, j \in 1..m : s[i].key # t[j].key
  <2>1. Distinct(s)
    BY <1>1, <1>2, <1>3 DEF Distinct
  <2>2. ASSUME NEW i \in 1..m, NEW j \in 1..m, i # j PROVE t[i].key # t[j].key
    <3>1. n + i # n + j
      BY <2>2
    <3>2. /\ (s \o t)[n + i] = t[i] /\ n + i \in 1..Len(s \o t)
          /\ (s \o t)[n + j] = t[j] /\ n + j \in 1..Len(s \o t)
      BY <1>1, <1>2
    <3>3. (s \o t)[n + i].key # (s \o t)[n + j].key
      BY <1>3, <3>1, <3>2, Zenon DEF Distinct
    <3> QED
      BY <3>2, <3>3
  <2>3. ASSUME NEW i \in 1..n, NEW j \in 1..m PROVE s[i].key # t[j].key
    <3>1. i # n + j
      OBVIOUS
    <3>2. /\ (s \o t)[i] = s[i] /\ i \in 1..Len(s \o t)
          /\ (s \o t)[n + j] = t[j] /\ n + j \in 1..Len(s \o t)
      BY <1>1, <1>2
    <3>3. (s \o t)[i].key # (s \o t)[n + j].key
      BY <1>3, <3>1, <3>2, Zenon DEF Distinct
    <3> QED
      BY <3>2, <3>3
  <2> QED
    BY <1>1, <2>1, <2>2, <2>3 DEF Distinct
<1>4. ASSUME Distinct(s), Distinct(t), \A i \in 1..n, j \in 1..m : s[i].key # t[j].key
      PROVE  Distinct(s \o t)
  <2> SUFFICES ASSUME NEW a \in 1..Len(s \o t), NEW b \in 1..Len(s \o t), a # b
               PROVE  (s \o t)[a].key # (s \o t)[b].key
    BY DEF Distinct
  <2>1. \/ a \in 1..n /\ (s \o t)[a] = s[a]
        \/ \E j \in 1..m : a = n + j /\ (s \o t)[a] = t[j]
    BY <1>1, FromEither
  <2>2. \/ b \in 1..n /\ (s \o t)[b] = s[b]
        \/ \E j \in 1..m : b = n + j /\ (s \o t)[b] = t[j]
    BY <1>1, FromEither
  <2> QED
    BY <1>1, <1>4, <2>1, <2>2 DEF Distinct
<1> QED
  BY <1>1, <1>3, <1>4

\* Two vectors without a key in common are one map, in either order.
LEMMA JoinedMap ==
  ASSUME NEW s \in Seq(Item), NEW t \in Seq(Item), NEW a, NEW b, Distinct(a \o b), Distinct(s \o t),
         (a = s /\ b = t) \/ (a = t /\ b = s)
  PROVE  Contents(a \o b) = Override(Contents(s), Contents(t))
<1> DEFINE m == Override(Contents(s), Contents(t))
<1>1. a \in Seq(Item) /\ b \in Seq(Item) /\ a \o b \in Seq(Item)
  BY ConcatParts
<1>2. Distinct(s) /\ Distinct(t) /\ \A i \in 1..Len(s), j \in 1..Len(t) : s[i].key # t[j].key
  BY DistinctConcat
<1>3. Maps(Contents(s), s) /\ Maps(Contents(t), t)
  BY <1>2, ContentsMaps
<1>4. /\ DOMAIN m = KeysOf(s) \cup KeysOf(t) /\ m = [j \in DOMAIN m |-> m[j]]
      /\ \A j \in KeysOf(s) : m[j] = Contents(s)[j]
      /\ \A j \in KeysOf(t) : j \notin KeysOf(s) => m[j] = Contents(t)[j]
  BY <1>3 DEF Override, Maps
<1> HIDE DEF m
<1>5. \A i \in 1..Len(s) : m[s[i].key] = s[i].value
  BY <1>3, <1>4 DEF Maps, KeysOf
<1>6. \A i \in 1..Len(t) : m[t[i].key] = t[i].value
  <2> SUFFICES ASSUME NEW i \in 1..Len(t) PROVE m[t[i].key] = t[i].value
    OBVIOUS
  <2>1. t[i].key \in KeysOf(t) /\ t[i].key \notin KeysOf(s)
    BY <1>2 DEF KeysOf
  <2> QED
    BY <1>3, <1>4, <2>1 DEF Maps
<1>7. ASSUME NEW i \in 1..Len(a \o b)
      PROVE  \E c \in {a, b} : \E j \in 1..Len(c) : (a \o b)[i] = c[j]
  BY <1>1, FromEither
<1>8. ASSUME NEW c \in {a, b}, NEW j \in 1..Len(c) PROVE \E i \in 1..Len(a \o b) : (a \o b)[i] = c[j]
  <2>1. PICK n \in Nat, p \in Nat : n = Len(a) /\ p = Len(b) /\ Len(a \o b) = n + p
    BY <1>1, ConcatParts
  <2>2. CASE c = a
    <3>1. j \in 1..n + p /\ (a \o b)[j] = a[j]
      BY <1>1, <2>1, <2>2, ConcatParts
    <3> QED
      BY <2>1, <2>2, <3>1
  <2>3. CASE c = b
    <3>1. n + j \in 1..n + p /\ (a \o b)[n + j] = b[j]
      BY <1>1, <2>1, <2>3, ConcatParts
    <3> QED
      BY <2>1, <2>3, <3>1
  <2> QED
    BY <2>2, <2>3
<1>9. KeysOf(a \o b) = KeysOf(s) \cup KeysOf(t)
  <2>1. ASSUME NEW i \in 1..Len(a \o b) PROVE (a \o b)[i].key \in KeysOf(a) \cup KeysOf(b)
    <3>1. PICK c \in {a, b} : \E j \in 1..Len(c) : (a \o b)[i] = c[j]
      BY <1>7
    <3> QED
      BY <3>1 DEF KeysOf
  <2>2. ASSUME NEW c \in {a, b}, NEW j \in 1..Len(c) PROVE c[j].key \in KeysOf(a \o b)
    <3>1. PICK i \in 1..Len(a \o b) : (a \o b)[i] = c[j]
      BY <1>8
    <3> QED
      BY <3>1 DEF KeysOf
  <2>3. KeysOf(a \o b) = KeysOf(a) \cup KeysOf(b)
    BY <2>1, <2>2 DEF KeysOf
  <2> QED
    BY <2>3
<1>10. ASSUME NEW i \in 1..Len(a \o b) PROVE m[(a \o b)[i].key] = (a \o b)[i].value
  <2>1. PICK c \in {s, t} : \E j \in 1..Len(c) : (a \o b)[i] = c[j]
    BY <1>7
  <2>2. PICK j \in 1..Len(c) : (a \o b)[i] = c[j]
    BY <2>1
  <2>3. m[c[j].key] = c[j].value
    BY <1>5, <1>6
  <2> QED
    BY <2>2, <2>3
<1>11. Contents(a \o b) = m
  BY <1>1, <1>4, <1>9, <1>10, MapsTo
<1> QED
  BY <1>11 DEF m

-----------------------------------------------------------------------------
\* A vector is only inserted as a whole by merge().
WholeIsMerged == pc \in {"prepend", "append"} => op = "merge"

LEMMA WholeStep == WholeIsMerged /\ [Next]_vars => WholeIsMerged'
  BY DEF WholeIsMerged, vars, call, Next, Begin, Step, Call, MergeVector, MergeSorted, MergeSortedIntoEmpty,
         Search, Probe, NotFound, Insert, InsertFails, Replace, RemoveFound, Answer, InsertVector,
         InsertVectorFails, Return

\* What a step of a distinct vector must do to it.
MapAction ==
  Distinct(items) /\ (pc \in {"prepend", "append"} => Distinct(items \o rest)) =>
    /\ Distinct(items')
    /\ MapStep(Contents(items), Contents(items'))

\* A step that leaves the items.
LEMMA SameItems == items' = items => MapAction
  BY DEF MapAction, MapStep

LEMMA AddMaps == IInv /\ (Insert \/ Replace) => MapAction
<1> SUFFICES ASSUME IInv, Insert \/ Replace, Distinct(items)
             PROVE  Distinct(items') /\ MapStep(Contents(items), Contents(items'))
  BY DEF MapAction
<1>1. TypeOK /\ SearchIsRight /\ items \in Seq(Item) /\ item \in Item
  BY DEF IInv, TypeOK
<1>2. /\ Len(items) \in Nat /\ item.key \in Int
      /\ \A i \in 1..Len(items) : items[i].key \in Int
  BY <1>1, ItemsTyped
<1>3. Adding
  BY DEF Insert, Replace
<1>4. CASE Insert
  <2>1. /\ l \in 0..Len(items)
        /\ \A i \in 1..Len(items) : items[i].key # item.key
    BY <1>1, <1>2, <1>4 DEF Insert, SearchIsRight
  <2>2. InsertedAt(items, l, item, items')
    BY <1>1, <1>4, <2>1, InsertedItems DEF Insert
  <2>3. Distinct(items') /\ Contents(items') = Override([k \in {item.key} |-> item.value], Contents(items))
    BY <1>1, <2>1, <2>2, InsertedMap
  <2> QED
    BY <1>3, <2>3, Zenon DEF MapStep
<1>5. CASE Replace
  <2>1. PICK k \in 1..Len(items) : k = l + 1 /\ items[k].key = item.key
    BY <1>1, <1>2, <1>5 DEF Replace, SearchIsRight
  <2>2. items' = ReplaceAt(items, k, item)
    BY <1>5, <2>1 DEF Replace
  <2>3. Distinct(items') /\ Contents(items') = Override([j \in {item.key} |-> item.value], Contents(items))
    BY <1>1, <2>1, <2>2, ReplacedMap
  <2> QED
    BY <1>3, <2>3, Zenon DEF MapStep
<1> QED
  BY <1>4, <1>5

LEMMA RemoveMaps == IInv /\ RemoveFound => MapAction
<1> SUFFICES ASSUME IInv, RemoveFound, items' # items, Distinct(items)
             PROVE  Distinct(items') /\ MapStep(Contents(items), Contents(items'))
  BY SameItems DEF MapAction
<1>1. TypeOK /\ SearchIsRight /\ items \in Seq(Item)
  BY DEF IInv, TypeOK
<1>2. PICK k \in 1..Len(items) : k = l + 1 /\ items[k].key = item.key
  BY <1>1, ItemsTyped DEF RemoveFound, SearchIsRight
<1>3. items' = RemoveAt(items, k) /\ op = "remove"
  BY <1>2 DEF RemoveFound
<1>4. Distinct(items') /\ Contents(items') = [j \in DOMAIN Contents(items) \ {item.key} |-> Contents(items)[j]]
  BY <1>1, <1>2, <1>3, RemovedMap
<1> QED
  BY <1>3, <1>4, Zenon DEF MapStep

LEMMA VectorMaps == IInv /\ WholeIsMerged /\ InsertVector => MapAction
<1> SUFFICES ASSUME IInv, WholeIsMerged, InsertVector, Distinct(items \o rest)
             PROVE  Distinct(items') /\ MapStep(Contents(items), Contents(items'))
  BY DEF MapAction, InsertVector
<1>1. items \in Seq(Item) /\ rest \in Seq(Item) /\ op = "merge"
  BY DEF IInv, TypeOK, WholeIsMerged, InsertVector
<1>2. items' = rest \o items \/ items' = items \o rest
  BY DEF InsertVector
<1>3. Distinct(rest \o items)
  <2>1. Distinct(items) /\ Distinct(rest) /\ \A i \in 1..Len(items), j \in 1..Len(rest) : items[i].key # rest[j].key
    BY <1>1, DistinctConcat
  <2>2. \A i \in 1..Len(rest), j \in 1..Len(items) : rest[i].key # items[j].key
    BY <2>1
  <2> QED
    BY <1>1, <2>1, <2>2, DistinctConcat
<1>4. Contents(items \o rest) = Override(Contents(items), Contents(rest))
  BY <1>1, JoinedMap
<1>5. Contents(rest \o items) = Override(Contents(items), Contents(rest))
  BY <1>1, <1>3, JoinedMap
<1>6. Contents(items') = Override(Contents(items), Contents(rest)) /\ Distinct(items')
  BY <1>2, <1>3, <1>4, <1>5
<1> QED
  BY <1>1, <1>6, Zenon DEF MapStep

LEMMA NextMaps == IInv /\ WholeIsMerged /\ [Next]_vars => MapAction
<1> SUFFICES ASSUME IInv, WholeIsMerged, [Next]_vars PROVE MapAction
  OBVIOUS
<1>1. CASE Insert \/ Replace
  BY <1>1, AddMaps
<1>2. CASE RemoveFound
  BY <1>2, RemoveMaps
<1>3. CASE InsertVector
  BY <1>3, VectorMaps
<1>4. CASE Begin \/ Probe \/ NotFound \/ InsertFails \/ Answer \/ InsertVectorFails \/ UNCHANGED vars
  <2>1. items' = items
    BY <1>4 DEF Begin, Call, MergeVector, MergeSorted, MergeSortedIntoEmpty, Probe, NotFound, InsertFails,
                Answer, InsertVectorFails, vars
  <2> QED
    BY <2>1, SameItems
<1> QED
  BY <1>1, <1>2, <1>3, <1>4 DEF Next, Step

\* add(), remove() and both kinds of merge() are the operations of a map from
\* keys to values, whatever the order of the items and whatever allocation fails
\* (VectorImpl.cpp:622-676), as long as no whole vector with a common key is
\* inserted.
THEOREM SortedIsMap == Spec => ActsAsMap
<1>1. Init => WholeIsMerged
  BY DEF Init, WholeIsMerged
<1>2. IInv /\ WholeIsMerged /\ [Next]_vars => [Distinct(items) /\ (pc \in {"prepend", "append"} => Distinct(items \o rest))
     => /\ Distinct(items')
        /\ MapStep(Contents(items), Contents(items'))]_vars
  BY NextMaps DEF MapAction
<1> QED
  BY <1>1, <1>2, Invariance, WholeStep, PTL DEF Spec, ActsAsMap
=============================================================================
