----------------------------- MODULE VectorImpl -----------------------------
(***************************************************************************)
(* libshims/VectorImpl.cpp: vectors that share one block of items until    *)
(* one of them is changed, grow and shrink their blocks, and construct and *)
(* destroy the items they hold.  A call is one step: the interleaving of   *)
(* the reference counts is SharedBuffer.tla's subject.                     *)
(*                                                                         *)
(* A block is its count and its slots.  A slot is Raw while it holds no    *)
(* object.  Every primitive that touches slots also says whether it was    *)
(* allowed to: no read outside the block or of a Raw slot, no object       *)
(* constructed over another, none destroyed twice, no block freed with     *)
(* objects in it.  The variable sound collects the answers.                *)
(***************************************************************************)
EXTENDS Integers, Sequences, FiniteSets

CONSTANTS Vectors,             \* the vector objects
          Blocks,              \* addresses the allocator may return
          Items,               \* the items callers insert, numbers
          Default,             \* the item a constructor makes
          Raw,                 \* a slot without an object
          None,                \* the null pointer
          Kinds,               \* values of the variable trivial to look at
          kMinVectorCapacity,  \* the smallest block, in items
          MaxCount,            \* bound: no vector grows beyond this many items
          MaxCapacity          \* bound on setCapacity

ASSUME VectorAssumption ==
  /\ IsFiniteSet(Vectors)
  /\ Items \subseteq Nat /\ Default \in Items
  /\ Raw \notin Nat /\ None \notin Blocks
  /\ Kinds \subseteq BOOLEAN
  /\ kMinVectorCapacity \in Nat \ {0}
  /\ MaxCount \in Nat /\ MaxCapacity \in Nat

VARIABLES trivial, \* mFlags: HAS_TRIVIAL_CTOR, _COPY and _DTOR, or none of them
          heap,    \* [Blocks -> block], a block without slots is free
          vec,     \* [Vectors -> [storage, count]]: mStorage and mCount
          sound    \* no primitive was ever misused

vars == <<trivial, heap, vec, sound>>

Larger(m, n) == IF m > n THEN m ELSE n
Slots(i, n) == i..i + n - 1
NoVector == [storage |-> None, count |-> 0]
FreeBlock == [refs |-> 0, slots |-> << >>]

\* The comparison callback tells items of different tens apart; what it says of
\* memory never written does not matter, callers of sort do not ask.
Key(x) == IF x = Raw THEN 0 ELSE x \div 10

(***************************************************************************)
(* Primitives on a memory [heap, sound].                                   *)
(***************************************************************************)
Memory == [heap |-> heap, sound |-> sound]
Freed(m) == {b \in Blocks : m.heap[b].refs = 0}
CapacityOf(m, w) == IF w.storage = None THEN 0 ELSE Cardinality(DOMAIN m.heap[w.storage].slots)

Live(m, b, S) == \A i \in S : i \in DOMAIN m.heap[b].slots /\ (trivial \/ m.heap[b].slots[i] # Raw)
Empty(m, b, S) == \A i \in S : i \in DOMAIN m.heap[b].slots /\ (trivial \/ m.heap[b].slots[i] = Raw)

Update(m, b, S, F(_), allowed) ==
  [heap |-> [m.heap EXCEPT ![b].slots = [i \in DOMAIN @ |-> IF i \in S THEN F(i) ELSE @[i]]],
   sound |-> m.sound /\ allowed]

\* SharedBuffer::alloc.
Malloc(m, b, capacity) ==
  [m EXCEPT !.heap[b] = [refs |-> 1, slots |-> [i \in Slots(0, capacity) |-> Raw]]]

\* _do_copy and the do_copy, memcpy behind it.
Copy(m, to, i, from, j, n) ==
  LET cell(k) == m.heap[from].slots[k - i + j]
      allowed == n = 0 \/ (Empty(m, to, Slots(i, n)) /\ Live(m, from, Slots(j, n)))
  IN  IF allowed THEN Update(m, to, Slots(i, n), cell, TRUE) ELSE [m EXCEPT !.sound = FALSE]

\* _do_splat.
Splat(m, b, i, n, item) ==
  LET cell(k) == item IN Update(m, b, Slots(i, n), cell, Empty(m, b, Slots(i, n)))

\* _do_construct; items with a trivial constructor stay indeterminate.
Construct(m, b, i, n) ==
  IF trivial THEN m ELSE Splat(m, b, i, n, Default)

\* _do_destroy.
Destroy(m, b, i, n) ==
  LET cell(k) == Raw IN Update(m, b, Slots(i, n), cell, Live(m, b, Slots(i, n)))

\* do_move_forward and do_move_backward: each object is copied to its new slot
\* and destroyed in the old one, in the order that never meets an object that
\* has not moved yet.
Move(m, b, to, from, n) ==
  LET target == Slots(to, n)
      source == Slots(from, n)
      cell(k) == IF k \in target THEN m.heap[b].slots[k - to + from] ELSE Raw
      allowed == Live(m, b, source) /\ Empty(m, b, target \ source)
  IN  IF allowed THEN Update(m, b, source \cup target, cell, TRUE) ELSE [m EXCEPT !.sound = FALSE]

\* release_storage: release(eKeepStorage), then the destructors and dealloc.
ReleaseStorage(m, w) ==
  IF w.storage = None THEN m
  ELSE IF m.heap[w.storage].refs > 1
       THEN [m EXCEPT !.heap[w.storage].refs = @ - 1]
       ELSE LET d == Destroy(m, w.storage, 0, w.count)
            IN  [heap |-> [d.heap EXCEPT ![w.storage] = FreeBlock],
                 sound |-> d.sound /\ Empty(d, w.storage, DOMAIN d.heap[w.storage].slots)]

\* A vector with its memory after part of an operation, and what the operation
\* returned: a slot, or that there was no memory.  Where the code calls
\* LOG_ALWAYS_FATAL_IF the process aborts and no step is taken.
NoMemory == -1
Abort == -2
Outcome(m, w, where) == [memory |-> m, vector |-> w, where |-> where]

\* Mutant: a shared block is edited in place.
EditShared(m, w, b) == Outcome(m, w, 0)

\* editArrayImpl; b is the block malloc returns if the storage must be copied.
EditArray(m, w, b) ==
  IF w.storage = None \/ m.heap[w.storage].refs = 1 THEN Outcome(m, w, 0)
  ELSE IF b = None THEN Outcome(m, w, Abort)
  ELSE LET c == Copy(Malloc(m, b, CapacityOf(m, w)), b, 0, w.storage, 0, w.count)
       IN  Outcome(ReleaseStorage(c, w), [w EXCEPT !.storage = b], 0)

\* The items around a gap, or without a range, in a block of their own.
Rehouse(m, w, b, capacity, i, to, from) ==
  LET head == Copy(Malloc(m, b, capacity), b, 0, w.storage, 0, i)
      tail == Copy(head, b, to, w.storage, from, w.count - from)
  IN  IF b = None THEN Outcome(m, w, NoMemory)
      ELSE Outcome(ReleaseStorage(tail, w), [w EXCEPT !.storage = b], 0)

\* Mutant: the resized block starts without its items.
ResizeDropsItems(m, w, capacity, b) ==
  IF b = None THEN Outcome(m, w, NoMemory)
  ELSE Outcome(ReleaseStorage(Malloc(m, b, capacity), w), [w EXCEPT !.storage = b], 0)

\* SharedBuffer::editResize: in place for the only owner, and without malloc
\* when the size is the same.
EditResize(m, w, capacity, b) ==
  LET old == m.heap[w.storage]
      slots == [i \in Slots(0, capacity) |-> IF i \in DOMAIN old.slots THEN old.slots[i] ELSE Raw]
  IN  IF old.refs = 1 /\ (b # None \/ slots = old.slots)
      THEN Outcome([m EXCEPT !.heap[w.storage].slots = slots], w, 0)
      ELSE IF b = None THEN Outcome(m, w, NoMemory)
      ELSE Outcome([m EXCEPT !.heap[b] = [refs |-> 1, slots |-> slots],
                             !.heap[w.storage].refs = @ - 1],
                   [w EXCEPT !.storage = b], 0)

\* itemLocation: no address behind the block.
ItemLocation(m, w, index) == IF index < CapacityOf(m, w) THEN index ELSE NoMemory

\* The new mCount, and the address the caller is given.
Sized(r, size, where) ==
  LET w == [r.vector EXCEPT !.count = size]
  IN  IF r.where # 0 THEN r
      ELSE Outcome(r.memory, w, ItemLocation(r.memory, w, where))

\* Mutant: the new size itself is left out of the sum.
GrowByHalf(size) == Larger(kMinVectorCapacity, size \div 2 + 1)

\* The capacities _grow and _shrink ask for.
GrownCapacity(size) == Larger(kMinVectorCapacity, size + size \div 2 + 1)
ShrunkCapacity(size) == Larger(kMinVectorCapacity, 2 * size)

Grow(m, w, where, amount, b) ==
  LET size == w.count + amount
      edited == EditArray(m, w, b)
      opened == IF where = w.count \/ edited.where = Abort THEN edited
                ELSE [edited EXCEPT !.memory =
                        Move(@, edited.vector.storage, where + amount, where, w.count - where)]
  IN  IF CapacityOf(m, w) >= size THEN Sized(opened, size, where)
      ELSE IF trivial /\ w.storage # None /\ where = w.count
           THEN Sized(EditResize(m, w, GrownCapacity(size), b), size, where)
           ELSE Sized(Rehouse(m, w, b, GrownCapacity(size), where, where + amount, where), size, where)

Shrink(m, w, where, amount, b) ==
  LET size == w.count - amount
      edited == EditArray(m, w, b)
      store == edited.vector.storage
      gone == Destroy(edited.memory, store, where, amount)
      closed == IF where = size THEN gone
                ELSE Move(gone, store, where, where + amount, size - where)
  IN  IF w.storage = None THEN Outcome(m, w, 0)
      ELSE IF size >= CapacityOf(m, w) \div 2
           THEN IF edited.where = Abort THEN edited
                ELSE Sized([edited EXCEPT !.memory = closed], size, where)
      ELSE IF trivial /\ where = size
           THEN Sized(EditResize(m, w, ShrunkCapacity(size), b), size, where)
           ELSE Sized(Rehouse(m, w, b, ShrunkCapacity(size), where, where, where + amount), size, where)

-----------------------------------------------------------------------------
Init ==
  /\ trivial \in Kinds
  /\ heap = [b \in Blocks |-> FreeBlock]
  /\ vec = [v \in Vectors |-> NoVector]
  /\ sound = TRUE

\* What malloc may return.
Allocation == Freed(Memory) \cup {None}

Do(v, r) ==
  /\ r.where # Abort
  /\ heap' = r.memory.heap
  /\ sound' = r.memory.sound
  /\ vec' = [vec EXCEPT ![v] = r.vector]
  /\ UNCHANGED trivial

Fill(r, Effect(_, _)) ==
  IF r.where \in {NoMemory, Abort} THEN r
  ELSE [r EXCEPT !.memory = Effect(@, r.vector.storage)]

\* Mutant: the copy does not acquire the block.
CopyUncounted(v, u) ==
  /\ v # u
  /\ vec[v] = NoVector
  /\ vec' = [vec EXCEPT ![v] = vec[u]]
  /\ UNCHANGED <<heap, sound, trivial>>

\* The copy constructor, for an object that has no storage yet.
CopyConstruct(v, u) ==
  /\ v # u
  /\ vec[v] = NoVector
  /\ vec' = [vec EXCEPT ![v] = vec[u]]
  /\ heap' = IF vec[u].storage = None THEN heap ELSE [heap EXCEPT ![vec[u].storage].refs = @ + 1]
  /\ UNCHANGED <<sound, trivial>>

\* operator=, which lets go of its own storage before it takes the other's.
Assign(v, u) ==
  LET r == ReleaseStorage(Memory, vec[v])
      s == vec[u].storage
  IN  /\ v # u
      /\ IF vec[u].count = 0
         THEN vec' = [vec EXCEPT ![v] = NoVector] /\ heap' = r.heap
         ELSE /\ vec' = [vec EXCEPT ![v] = vec[u]]
              /\ heap' = [r.heap EXCEPT ![s].refs = @ + 1]
      /\ sound' = r.sound /\ UNCHANGED trivial

\* finish_vector, from the destructor of a subclass.
FinishVector(v) ==
  LET r == ReleaseStorage(Memory, vec[v])
  IN  /\ heap' = r.heap /\ sound' = r.sound /\ UNCHANGED trivial
      /\ vec' = [vec EXCEPT ![v] = NoVector]

\* insertAt with an item, which is copied n times, or without one.
InsertItem(v, i, n) ==
  \E b \in Allocation, item \in Items :
    LET splat(m, s) == Splat(m, s, i, n, item)
    IN  Do(v, Fill(Grow(Memory, vec[v], i, n, b), splat))

InsertDefault(v, i, n) ==
  \E b \in Allocation :
    LET construct(m, s) == Construct(m, s, i, n)
    IN  Do(v, Fill(Grow(Memory, vec[v], i, n, b), construct))

InsertAt(v) ==
  \E n \in 0..MaxCount - vec[v].count, i \in 0..vec[v].count : InsertItem(v, i, n) \/ InsertDefault(v, i, n)

\* push and add.
Push(v) ==
  /\ vec[v].count < MaxCount
  /\ InsertItem(v, vec[v].count, 1) \/ InsertDefault(v, vec[v].count, 1)

\* insertVectorAt and appendVector: insertArrayAt with another vector's array,
\* whose address is read before the vector grows.
InsertVectorAt(v, u) ==
  /\ v # u
  /\ vec[v].count + vec[u].count <= MaxCount
  /\ \E b \in Allocation, i \in 0..vec[v].count :
       LET copy(m, s) == Copy(m, s, i, vec[u].storage, 0, vec[u].count)
       IN  Do(v, Fill(Grow(Memory, vec[v], i, vec[u].count, b), copy))

\* A call that gets an array of its own and then leaves every item as it was.
EditOnly(v) == \E b \in Allocation : Do(v, EditArray(Memory, vec[v], b))

\* replaceAt with a prototype, with none, or with the item itself, which is left
\* alone.
ReplaceAt(v) ==
  \E b \in Allocation, i \in 0..vec[v].count - 1 :
    \/ \E item \in Items :
         LET put(m, s) == Splat(Destroy(m, s, i, 1), s, i, 1, item)
         IN  Do(v, Fill(EditArray(Memory, vec[v], b), put))
    \/ LET put(m, s) == Construct(Destroy(m, s, i, 1), s, i, 1)
       IN  Do(v, Fill(EditArray(Memory, vec[v], b), put))
    \/ EditOnly(v)

\* editItemLocation, and the caller's assignment to the item.
EditItem(v) ==
  \E b \in Allocation, i \in 0..vec[v].count - 1, item \in Items :
    LET cell(k) == item
        put(m, s) == Update(m, s, {i}, cell, Live(m, s, {i}))
    IN  Do(v, Fill(EditArray(Memory, vec[v], b), put))

RemoveItems(v, i, n) ==
  \E b \in Allocation : Do(v, Shrink(Memory, vec[v], i, n, b))

RemoveItemsAt(v) ==
  \E i \in 0..vec[v].count, n \in 0..MaxCount :
    i + n <= vec[v].count /\ RemoveItems(v, i, n)

Pop(v) == vec[v].count > 0 /\ RemoveItems(v, vec[v].count - 1, 1)

Clear(v) == RemoveItems(v, 0, vec[v].count)

\* resize constructs items behind the last, or removes the last.
Resize(v) ==
  \E size \in 0..MaxCount :
    \/ size > vec[v].count /\ InsertDefault(v, vec[v].count, size - vec[v].count)
    \/ size < vec[v].count /\ RemoveItems(v, size, vec[v].count - size)

SetCapacity(v) ==
  \E b \in Allocation, capacity \in vec[v].count + 1..MaxCapacity :
    LET w == vec[v]
    IN  Do(v, Rehouse(Memory, w, b, capacity, w.count, w.count, w.count))

\* sort: the array is copied when the first pair out of order is met, and the
\* items end up in the one stable order; without memory for the item that is on
\* its way, the copy is all that has been done.
Sort(v) ==
  LET w == vec[v]
      S == Slots(0, w.count)
      at(i) == heap[w.storage].slots[i]
      before(i, j) == Key(at(i)) < Key(at(j)) \/ (Key(at(i)) = Key(at(j)) /\ i < j)
      place(i) == Cardinality({j \in S : before(j, i)})
      cell(k) == at(CHOOSE i \in S : place(i) = k)
      order(m, s) == Update(m, s, S, cell, Live(m, s, S))
  IN  /\ \A i \in S : at(i) # Raw
      /\ \E i, j \in S : i < j /\ Key(at(i)) > Key(at(j))
      /\ EditOnly(v) \/ \E b \in Allocation : Do(v, Fill(EditArray(Memory, w, b), order))

Next ==
  \E v \in Vectors :
    \/ FinishVector(v) \/ InsertAt(v) \/ Push(v) \/ ReplaceAt(v) \/ EditItem(v)
    \/ RemoveItemsAt(v) \/ Pop(v) \/ Clear(v) \/ Resize(v) \/ SetCapacity(v) \/ Sort(v)
    \/ \E u \in Vectors : CopyConstruct(v, u) \/ Assign(v, u) \/ InsertVectorAt(v, u)

Spec == Init /\ [][Next]_vars
-----------------------------------------------------------------------------
(* Properties *)

\* The shapes of the variables.
TypeOK ==
  /\ \A b \in Blocks :
       /\ heap[b].refs \in Nat
       /\ \A i \in DOMAIN heap[b].slots : heap[b].slots[i] \in Items \cup {Raw}
  /\ vec \in [Vectors -> [storage : Blocks \cup {None}, count : 0..MaxCount]]
  /\ sound \in BOOLEAN /\ trivial \in BOOLEAN

\* No operation, on shared or own storage, growing, shrinking, shifting or
\* failing to allocate, reads or destroys an item that is not there, writes
\* over one, leaves the block or frees items (VectorImpl.cpp:363-513).
MemoryIsSound == TypeOK /\ sound

\* Destructors run with the count of whichever vector lets go last
\* (VectorImpl.cpp:368), so the vectors that share a block must agree on it.
SharersAgree ==
  \A v, u \in Vectors :
    vec[v].storage = vec[u].storage /\ vec[v].storage # None => vec[v].count = vec[u].count

\* Exactly the slots below mCount hold objects, and a block is counted once
\* for every vector on it (VectorImpl.cpp:49-104, 374-513).
SlotsMatchCount ==
  \A b \in Blocks :
    /\ heap[b].refs = Cardinality({v \in Vectors : vec[v].storage = b})
    /\ \A v \in Vectors : vec[v].storage = b =>
         /\ Slots(0, vec[v].count) \subseteq DOMAIN heap[b].slots
         /\ ~trivial => \A i \in DOMAIN heap[b].slots :
                           heap[b].slots[i] # Raw <=> i < vec[v].count

Sequence(v) == [i \in 1..vec[v].count |-> heap[vec[v].storage].slots[i - 1]]

Abstract == INSTANCE VectorSpec
              WITH Cells <- Items \cup {Raw}, items <- [v \in Vectors |-> Sequence(v)]

\* Sharing, capacities and moves are invisible, and an operation without memory
\* changes nothing: each vector is a sequence (VectorImpl.cpp:67-513).
VectorsAreSequences == Abstract!IndependentSequences
=============================================================================
