---------------------------- MODULE SortedVector ----------------------------
(***************************************************************************)
(* SortedVectorImpl of libshims/VectorImpl.cpp: a vector whose items are   *)
(* kept in the order of do_compare, here the order of their keys.  A       *)
(* member function searches step by step and then changes the vector       *)
(* through VectorImpl, which is a sequence here; VectorImpl's module says  *)
(* why it may be.  Positions are the code's: l and h start from zero.      *)
(*                                                                         *)
(* A vector is not merged into itself, and not made from an unsorted one.  *)
(***************************************************************************)
EXTENDS Integers, Sequences, SequencesExt

CONSTANTS Keys,       \* what do_compare looks at
          Values,     \* what it does not look at
          MaxCount,   \* bound: the items of the vector
          MaxMerged   \* bound: the items of a vector that is merged into it

ASSUME SortedAssumption ==
  /\ Keys \subseteq Int
  /\ MaxCount \in Nat /\ MaxMerged \in Nat

Item == [key : Keys, value : Values]

VARIABLES items,     \* the vector
          storage,   \* mStorage is not null: also a vector without items may have a block
          op,        \* the member function called last
          item,      \* its argument, or the one merge() has come to
          rest,      \* the items merge() has still to add
          l, h,      \* the bounds of the search
          pc

call == <<op, item, rest, l, h>>
vars == <<items, storage, call, pc>>

\* No two items are in the wrong order, and none has the key of another.
Sorted(s) == \A i, j \in 1..Len(s) : i < j => s[i].key <= s[j].key
Distinct(s) == \A i, j \in 1..Len(s) : i # j => s[i].key # s[j].key

MergedVectors == BoundedSeq(Item, MaxMerged)

Init ==
  /\ items = << >> /\ storage = FALSE /\ pc = "idle"
  /\ op = "none" /\ item \in Item /\ rest = << >>
  /\ l = 0 /\ h = -1

-----------------------------------------------------------------------------
\* Mutant: the search takes the place behind the last item along.
SearchFromSize(name, x, more, s) ==
  /\ op' = name /\ item' = x /\ rest' = more
  /\ l' = 0 /\ h' = Len(s)
  /\ pc' = "search"

\* The call of _indexOrderOf, in a vector whose items are s.
Search(name, x, more, s) ==
  /\ op' = name /\ item' = x /\ rest' = more
  /\ l' = 0 /\ h' = Len(s) - 1
  /\ pc' = "search"

\* indexOf, orderOf, add and remove: each begins with _indexOrderOf.
Call ==
  /\ pc = "idle"
  /\ \E x \in Item, name \in {"indexOf", "add", "remove"} :
       Search(name, x, << >>, items)
  /\ UNCHANGED <<items, storage>>

\* merge of a VectorImpl, in any order.
MergeVector ==
  /\ pc = "idle"
  /\ \E s \in MergedVectors :
       s # << >> /\ Search("merge", Head(s), Tail(s), items)
  /\ UNCHANGED <<items, storage>>

\* merge of a SortedVectorImpl: one that ends where this one begins, or
\* begins where it ends, is inserted as a whole.
MergeSorted ==
  /\ pc = "idle" /\ items # << >>
  /\ \E s \in MergedVectors :
       /\ s # << >> /\ Sorted(s)
       /\ \/ /\ s[Len(s)].key <= items[1].key
             /\ pc' = "prepend" /\ rest' = s
             /\ op' = "merge" /\ UNCHANGED <<item, l, h>>
          \/ /\ s[Len(s)].key > items[1].key
             /\ s[1].key >= items[Len(items)].key
             /\ pc' = "append" /\ rest' = s
             /\ op' = "merge" /\ UNCHANGED <<item, l, h>>
          \/ /\ s[Len(s)].key > items[1].key
             /\ s[1].key < items[Len(items)].key
             /\ Search("merge", Head(s), Tail(s), items)
  /\ UNCHANGED <<items, storage>>

\* The same of a SortedVectorImpl into an empty one.  do_compare gets the null
\* pointer of arrayImpl(), or, from a vector emptied by remove, a slot without an
\* item, whose key may be anything; if it is too small, the null pointer of
\* itemLocation(size() - 1).  The process dies of a null pointer.
MergeSortedIntoEmpty ==
  /\ pc = "idle" /\ items = << >>
  /\ \/ pc' = "crashed" /\ UNCHANGED call
     \/ /\ storage
        /\ \E s \in MergedVectors :
             s # << >> /\ Sorted(s) /\ pc' = "prepend" /\ rest' = s
        /\ op' = "merge" /\ UNCHANGED <<item, l, h>>
  /\ UNCHANGED <<items, storage>>

-----------------------------------------------------------------------------
mid == l + (h - l) \div 2
curr == items[mid + 1]

\* Mutant: the middle is not excluded from the upper half.
ProbeKeepsMiddle ==
  /\ pc = "search" /\ l <= h
  /\ \/ curr.key = item.key /\ l' = mid /\ pc' = "found" /\ UNCHANGED h
     \/ curr.key < item.key /\ l' = mid /\ UNCHANGED <<h, pc>>
     \/ curr.key > item.key /\ h' = mid - 1 /\ UNCHANGED <<l, pc>>
  /\ UNCHANGED <<items, storage, op, item, rest>>

\* One turn of the loop of _indexOrderOf.
Probe ==
  /\ pc = "search" /\ l <= h
  /\ \/ curr.key = item.key /\ l' = mid /\ pc' = "found" /\ UNCHANGED h
     \/ curr.key < item.key /\ l' = mid + 1 /\ UNCHANGED <<h, pc>>
     \/ curr.key > item.key /\ h' = mid - 1 /\ UNCHANGED <<l, pc>>
  /\ UNCHANGED <<items, storage, op, item, rest>>

\* Mutant: the search stops before the last candidate.
NotFoundEarly ==
  /\ pc = "search" /\ l >= h
  /\ pc' = "absent"
  /\ UNCHANGED <<items, storage, call>>

\* The loop ends without a match: NAME_NOT_FOUND, and l is the order.
NotFound ==
  /\ pc = "search" /\ l > h
  /\ pc' = "absent"
  /\ UNCHANGED <<items, storage, call>>

-----------------------------------------------------------------------------
\* merge() goes on with its next item, every other function returns.
Return ==
  IF rest = << >>
  THEN pc' = "idle" /\ UNCHANGED call
  ELSE Search(op, Head(rest), Tail(rest), items')

Adding == op \in {"add", "merge"}

\* Mutant: the item goes behind the place that the search found.
InsertBehind ==
  /\ pc = "absent" /\ Adding /\ Len(items) < MaxCount
  /\ items' = InsertAt(items, Len(items) + 1, item) /\ storage' = TRUE
  /\ Return

\* add: insertAt(item, order, 1).
Insert ==
  /\ pc = "absent" /\ Adding /\ Len(items) < MaxCount
  /\ items' = InsertAt(items, l + 1, item) /\ storage' = TRUE
  /\ Return

\* insertAt has no memory: add and merge return the error.
InsertFails ==
  /\ pc = "absent" /\ Adding
  /\ pc' = "idle" /\ rest' = << >>
  /\ UNCHANGED <<items, storage, op, item, l, h>>

\* Mutant: an item that is there is added again.
InsertAgain ==
  /\ pc = "found" /\ Adding /\ Len(items) < MaxCount
  /\ items' = InsertAt(items, l + 1, item) /\ storage' = TRUE
  /\ Return

\* add: replaceAt(item, index).
Replace ==
  /\ pc = "found" /\ Adding
  /\ items' = ReplaceAt(items, l + 1, item) /\ UNCHANGED storage
  /\ Return

\* remove: removeItemsAt(i, 1), whose result nobody looks at: without memory
\* for a smaller block nothing is removed.
RemoveFound ==
  /\ pc = "found" /\ op = "remove"
  /\ items' \in {RemoveAt(items, l + 1), items} /\ UNCHANGED storage
  /\ Return

\* indexOf and orderOf return; remove has nothing to remove.
Answer ==
  /\ pc \in {"found", "absent"}
  /\ op = "indexOf" \/ (op = "remove" /\ pc = "absent")
  /\ pc' = "idle"
  /\ UNCHANGED <<items, storage, call>>

\* insertVectorAt(vector, 0) and appendVector(vector).
InsertVector ==
  /\ pc \in {"prepend", "append"}
  /\ LET all == IF pc = "prepend" THEN rest \o items ELSE items \o rest
     IN  Len(all) <= MaxCount /\ items' = all /\ storage' = TRUE
  /\ pc' = "idle" /\ rest' = << >>
  /\ UNCHANGED <<op, item, l, h>>

InsertVectorFails ==
  /\ pc \in {"prepend", "append"}
  /\ pc' = "idle" /\ rest' = << >>
  /\ UNCHANGED <<items, storage, op, item, l, h>>

-----------------------------------------------------------------------------
Begin == Call \/ MergeVector \/ MergeSorted \/ MergeSortedIntoEmpty
Step ==
  \/ Probe \/ NotFound
  \/ Insert \/ InsertFails \/ Replace \/ RemoveFound \/ Answer
  \/ InsertVector \/ InsertVectorFails
Next == Begin \/ Step

Spec == Init /\ [][Next]_vars

\* A function that was called runs on.
FairSpec == Spec /\ WF_vars(Step)

-----------------------------------------------------------------------------
(* Properties *)

\* The variables have their types, and a search never leaves the array
\* (VectorImpl.cpp:596-620).
TypeOK ==
  /\ items \in Seq(Item) /\ rest \in Seq(Item) /\ item \in Item
  /\ op \in {"none", "indexOf", "add", "remove", "merge"}
  /\ pc \in {"idle", "search", "found", "absent", "prepend", "append", "crashed"}
  /\ l \in Int /\ h \in Int /\ storage \in BOOLEAN
  /\ pc = "search" => l \in 0..Len(items) /\ h \in -1..Len(items) - 1

\* Whatever is added, replaced, removed or merged, and whatever allocation
\* fails on the way, the items stay in order (VectorImpl.cpp:622-676): the
\* precondition of every later search.
KeysAreSorted == Sorted(items)

\* The search finds an item with the key when there is one; when there is
\* none, l is the one place where the key belongs (VectorImpl.cpp:596-620).
SearchIsRight ==
  /\ pc = "found" => l \in 0..Len(items) - 1 /\ items[l + 1].key = item.key
  /\ pc = "absent" => /\ l \in 0..Len(items)
                      /\ \A i \in 1..Len(items) :
                           IF i <= l THEN items[i].key < item.key
                                     ELSE items[i].key > item.key

\* The vector as a map from keys to values.
Contents(s) ==
  [k \in {s[i].key : i \in 1..Len(s)} |->
     LET i == CHOOSE j \in 1..Len(s) : s[j].key = k IN s[i].value]

\* The map m, and n for the keys that are not in m.
Override(m, n) == [k \in DOMAIN m \cup DOMAIN n |-> IF k \in DOMAIN m THEN m[k] ELSE n[k]]

\* What a step of the function called last may do to the map m.
MapStep(m, n) ==
  \/ n = m
  \/ Adding /\ n = Override([k \in {item.key} |-> item.value], m)
  \/ op = "remove" /\ n = [k \in DOMAIN m \ {item.key} |-> m[k]]
  \/ op = "merge" /\ n = Override(m, Contents(rest))

\* As long as no merge inserts a whole vector with a key that is there
\* already, keys stay unique, and add, remove and merge are the operations of
\* a map: an item that is there is replaced and no other is touched.
ActsAsMap ==
  [][Distinct(items) /\ (pc \in {"prepend", "append"} => Distinct(items \o rest))
     => /\ Distinct(items')
        /\ MapStep(Contents(items), Contents(items'))]_vars

\* Every search ends and every call returns, unless it died of a null pointer.
CallsReturn == pc # "idle" ~> pc \in {"idle", "crashed"}

\* "add an item in the right place (or replaces it if there is one)"
\* (VectorImpl.h:155): after an add that had memory no other item has the key.
AddReplaces ==
  [][op = "add" /\ pc \in {"found", "absent"} /\ items' # items
     => \A i, j \in 1..Len(items') :
          items'[i].key = item.key /\ items'[j].key = item.key => i = j]_vars
=============================================================================
