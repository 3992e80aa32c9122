-------------------------- MODULE VectorImplProofs --------------------------
(***************************************************************************)
(* Vectors that share blocks, for any number of vectors, blocks, items,    *)
(* counts and capacities: no primitive is misused, exactly the slots below *)
(* a vector's count hold objects, vectors that share a block agree, and    *)
(* the vectors are sequences of their own, as VectorSpec says.             *)
(***************************************************************************)
EXTENDS VectorImpl, FiniteSetTheorems, TLAPS

Cells == Items \cup {Raw}
SlotsType == UNION {[Slots(0, n) -> Cells] : n \in Nat}
Block == [refs : Nat, slots : SlotsType]
MemoryType == [heap : [Blocks -> Block], sound : BOOLEAN]
VectorType == [storage : Blocks \cup {None}, count : Nat]

-----------------------------------------------------------------------------
(* Blocks and memories. *)

\* The slots i to i + n - 1.
LEMMA SlotsRange == ASSUME NEW i \in Int, NEW n \in Nat, NEW k
                    PROVE  k \in Slots(i, n) <=> k \in Int /\ i <= k /\ k < i + n
  BY DEF Slots

\* Slots numbered from zero that hold cells are the slots of a block.
LEMMA SlotsShape == ASSUME NEW n \in Nat, NEW s \in [Slots(0, n) -> Cells] PROVE s \in SlotsType
  BY DEF SlotsType

\* A block is its count and its slots, which are numbered from zero.
LEMMA BlockFacts ==
  ASSUME NEW k \in Block
  PROVE  /\ k = [refs |-> k.refs, slots |-> k.slots] /\ k.refs \in Nat
         /\ Cardinality(DOMAIN k.slots) \in Nat
         /\ DOMAIN k.slots = Slots(0, Cardinality(DOMAIN k.slots))
         /\ k.slots \in [DOMAIN k.slots -> Cells]
<1>1. PICK n \in Nat : k \in [refs : Nat, slots : [Slots(0, n) -> Cells]]
  BY DEF Block, SlotsType
<1>2. DOMAIN k.slots = 0..n - 1
  BY <1>1 DEF Slots
<1>3. Cardinality(0..n - 1) = n
  BY FS_Interval
<1> QED
  BY <1>1, <1>2, <1>3 DEF Slots

\* The blocks of a memory.
LEMMA MemoryFacts ==
  ASSUME NEW m \in MemoryType, NEW b \in Blocks
  PROVE  /\ m.heap[b] \in Block /\ m.heap[b].refs \in Nat /\ m.sound \in BOOLEAN
         /\ m.heap[b] = [refs |-> m.heap[b].refs, slots |-> m.heap[b].slots]
         /\ Cardinality(DOMAIN m.heap[b].slots) \in Nat
         /\ DOMAIN m.heap[b].slots = Slots(0, Cardinality(DOMAIN m.heap[b].slots))
         /\ m.heap[b].slots \in [DOMAIN m.heap[b].slots -> Cells]
<1>1. m.heap[b] \in Block /\ m.sound \in BOOLEAN
  BY DEF MemoryType
<1> QED
  BY <1>1, BlockFacts

\* A memory with the slots of one block rewritten.
Put(m, b, s) == [heap |-> [m.heap EXCEPT ![b].slots = s], sound |-> TRUE]

\* Only slots of one block have changed.
Touched(m, r, b) ==
  /\ r \in MemoryType /\ r.sound = TRUE
  /\ r.heap[b].refs = m.heap[b].refs
  /\ DOMAIN r.heap[b].slots = DOMAIN m.heap[b].slots
  /\ \A c \in Blocks \ {b} : r.heap[c] = m.heap[c]

\* Writing the slots of one block gives a memory.
LEMMA PutFacts ==
  ASSUME NEW m \in MemoryType, NEW b \in Blocks, NEW s \in SlotsType
  PROVE  /\ Put(m, b, s) \in MemoryType /\ Put(m, b, s).sound = TRUE
         /\ Put(m, b, s).heap[b].refs = m.heap[b].refs /\ Put(m, b, s).heap[b].slots = s
         /\ \A c \in Blocks \ {b} : Put(m, b, s).heap[c] = m.heap[c]
<1>1. m.heap[b].refs \in Nat
  BY MemoryFacts
<1>2. PICK k \in Block : k = [refs |-> m.heap[b].refs, slots |-> s]
  BY <1>1 DEF Block
<1>3. [m.heap[b] EXCEPT !.slots = s] = k
  <2>1. PICK o \in Block : o = m.heap[b]
    BY MemoryFacts
  <2>2. o = [refs |-> o.refs, slots |-> o.slots]
    BY BlockFacts
  <2> QED
    BY <1>2, <2>1, <2>2
<1>4. PICK h : h = [m.heap EXCEPT ![b].slots = s]
  OBVIOUS
<1>5. h \in [Blocks -> Block] /\ h[b] = k /\ \A c \in Blocks \ {b} : h[c] = m.heap[c]
  BY <1>2, <1>3, <1>4 DEF MemoryType
<1>6. PICK q : q = Put(m, b, s)
  OBVIOUS
<1>7. q = [heap |-> h, sound |-> TRUE]
  BY <1>6, <1>4 DEF Put
<1>8. q \in MemoryType /\ q.sound = TRUE /\ q.heap = h
  BY <1>5, <1>7 DEF MemoryType
<1>9. k.slots = s /\ k.refs = m.heap[b].refs
  BY <1>2
<1> QED
  BY <1>6, <1>5, <1>8, <1>9

\* Writing the slots of one block leaves the rest of the memory alone.
LEMMA PutTouches ==
  ASSUME NEW m \in MemoryType, NEW b \in Blocks, NEW s \in SlotsType, DOMAIN s = DOMAIN m.heap[b].slots
  PROVE  Touched(m, Put(m, b, s), b) /\ Put(m, b, s).heap[b].slots = s
<1>1. /\ Put(m, b, s) \in MemoryType /\ Put(m, b, s).sound = TRUE
      /\ Put(m, b, s).heap[b].refs = m.heap[b].refs /\ Put(m, b, s).heap[b].slots = s
      /\ \A c \in Blocks \ {b} : Put(m, b, s).heap[c] = m.heap[c]
  BY PutFacts, Zenon
<1> QED
  BY <1>1 DEF Touched

-----------------------------------------------------------------------------
(* Primitives. *)

Filled(m, b, i, n, cell, r) ==
  /\ Touched(m, r, b)
  /\ \A k \in DOMAIN m.heap[b].slots : r.heap[b].slots[k] = IF k \in Slots(i, n) THEN cell ELSE m.heap[b].slots[k]

\* Constructing an item in every raw slot of a run.
LEMMA SplatFacts ==
  ASSUME NEW m \in MemoryType, NEW b \in Blocks, m.sound = TRUE, NEW i \in Nat, NEW n \in Nat, NEW item \in Cells,
         Empty(m, b, Slots(i, n))
  PROVE  Filled(m, b, i, n, item, Splat(m, b, i, n, item))
<1>1. PICK r : r = Splat(m, b, i, n, item)
  OBVIOUS
<1>2. PICK s : s = [k \in DOMAIN m.heap[b].slots |-> IF k \in Slots(i, n) THEN item ELSE m.heap[b].slots[k]]
  OBVIOUS
<1>3. s \in [DOMAIN m.heap[b].slots -> Cells]
  BY <1>2, MemoryFacts
<1>4. r = Put(m, b, s)
  BY <1>1, <1>2 DEF Splat, Update, Put
<1>5. s \in SlotsType /\ DOMAIN s = DOMAIN m.heap[b].slots
  BY <1>3, MemoryFacts, SlotsShape
<1>6. Touched(m, r, b) /\ r.heap[b].slots = s
  BY <1>4, <1>5, PutTouches
<1> QED
  BY <1>1, <1>2, <1>6 DEF Filled

\* Destroying the live items of a run.
LEMMA DestroyFacts ==
  ASSUME NEW m \in MemoryType, NEW b \in Blocks, m.sound = TRUE, NEW i \in Nat, NEW n \in Nat,
         Live(m, b, Slots(i, n))
  PROVE  Filled(m, b, i, n, Raw, Destroy(m, b, i, n))
<1>1. PICK r : r = Destroy(m, b, i, n)
  OBVIOUS
<1>2. PICK s : s = [k \in DOMAIN m.heap[b].slots |-> IF k \in Slots(i, n) THEN Raw ELSE m.heap[b].slots[k]]
  OBVIOUS
<1>3. s \in [DOMAIN m.heap[b].slots -> Cells]
  BY <1>2, MemoryFacts, ZenonT(60) DEF Cells
<1>4. r = Put(m, b, s)
  BY <1>1, <1>2 DEF Destroy, Update, Put
<1>5. s \in SlotsType /\ DOMAIN s = DOMAIN m.heap[b].slots
  BY <1>3, MemoryFacts, SlotsShape
<1>6. Touched(m, r, b) /\ r.heap[b].slots = s
  BY <1>4, <1>5, PutTouches
<1> QED
  BY <1>1, <1>2, <1>6 DEF Filled

MayCopy(m, b, i, a, j, n) == n = 0 \/ (a \in Blocks /\ Empty(m, b, Slots(i, n)) /\ Live(m, a, Slots(j, n)))

Copied(m, b, i, a, j, n, r) ==
  /\ Touched(m, r, b)
  /\ \A k \in DOMAIN m.heap[b].slots :
       r.heap[b].slots[k] = IF k \in Slots(i, n) THEN m.heap[a].slots[k - i + j] ELSE m.heap[b].slots[k]

\* Copying a run of live items into raw slots.
LEMMA CopyFacts ==
  ASSUME NEW m \in MemoryType, NEW b \in Blocks, m.sound = TRUE, NEW i \in Nat, NEW j \in Nat, NEW n \in Nat, NEW a,
         MayCopy(m, b, i, a, j, n)
  PROVE  Copied(m, b, i, a, j, n, Copy(m, b, i, a, j, n))
<1>1. PICK r : r = Copy(m, b, i, a, j, n)
  OBVIOUS
<1>2. PICK s : s = [k \in DOMAIN m.heap[b].slots |->
                      IF k \in Slots(i, n) THEN m.heap[a].slots[k - i + j] ELSE m.heap[b].slots[k]]
  OBVIOUS
<1>3. s \in [DOMAIN m.heap[b].slots -> Cells]
  <2> SUFFICES ASSUME NEW k \in DOMAIN m.heap[b].slots PROVE s[k] \in Cells
    BY <1>2
  <2>1. m.heap[b].slots[k] \in Cells
    BY MemoryFacts
  <2>2. ASSUME k \in Slots(i, n) PROVE m.heap[a].slots[k - i + j] \in Cells
    <3>1. k \in Int /\ i <= k /\ k < i + n
      BY <2>2, SlotsRange
    <3>2. a \in Blocks /\ Live(m, a, Slots(j, n))
      BY <3>1 DEF MayCopy
    <3>3. k - i + j \in Slots(j, n)
      BY <3>1 DEF Slots
    <3>4. k - i + j \in DOMAIN m.heap[a].slots
      BY <3>2, <3>3 DEF Live
    <3> QED
      BY <3>2, <3>4, MemoryFacts
  <2> QED
    BY <1>2, <2>1, <2>2
<1>4. r = Put(m, b, s)
  BY <1>1, <1>2 DEF Copy, Update, Put, MayCopy
<1>5. s \in SlotsType /\ DOMAIN s = DOMAIN m.heap[b].slots
  BY <1>3, MemoryFacts, SlotsShape
<1>6. Touched(m, r, b) /\ r.heap[b].slots = s
  BY <1>4, <1>5, PutTouches
<1> QED
  BY <1>1, <1>2, <1>6 DEF Copied

Moved(m, b, to, from, n, r) ==
  /\ Touched(m, r, b)
  /\ \A k \in DOMAIN m.heap[b].slots :
       r.heap[b].slots[k] = IF k \in Slots(to, n) THEN m.heap[b].slots[k - to + from]
                            ELSE IF k \in Slots(from, n) THEN Raw ELSE m.heap[b].slots[k]

\* Moving a run of live items within a block, over slots that are raw or being moved.
LEMMA MoveFacts ==
  ASSUME NEW m \in MemoryType, NEW b \in Blocks, m.sound = TRUE, NEW to \in Nat, NEW from \in Nat, NEW n \in Nat,
         Live(m, b, Slots(from, n)), Empty(m, b, Slots(to, n) \ Slots(from, n))
  PROVE  Moved(m, b, to, from, n, Move(m, b, to, from, n))
<1>1. PICK r : r = Move(m, b, to, from, n)
  OBVIOUS
<1> DEFINE cell(k) == IF k \in Slots(to, n) THEN m.heap[b].slots[k - to + from] ELSE Raw
<1>2. PICK s : s = [k \in DOMAIN m.heap[b].slots |->
                      IF k \in Slots(from, n) \cup Slots(to, n) THEN cell(k) ELSE m.heap[b].slots[k]]
  OBVIOUS
<1>3. s \in [DOMAIN m.heap[b].slots -> Cells]
  <2> SUFFICES ASSUME NEW k \in DOMAIN m.heap[b].slots PROVE s[k] \in Cells
    BY <1>2
  <2>1. m.heap[b].slots[k] \in Cells /\ Raw \in Cells
    BY MemoryFacts DEF Cells
  <2>2. ASSUME k \in Slots(to, n) PROVE m.heap[b].slots[k - to + from] \in Cells
    <3>1. k \in Int /\ to <= k /\ k < to + n
      BY <2>2, SlotsRange
    <3>2. k - to + from \in Slots(from, n)
      BY <3>1 DEF Slots
    <3>3. k - to + from \in DOMAIN m.heap[b].slots
      BY <3>2 DEF Live
    <3> QED
      BY <3>3, MemoryFacts
  <2> QED
    BY <1>2, <2>1, <2>2
<1>4. r = Put(m, b, s)
  BY <1>1, <1>2 DEF Move, Update, Put
<1>5. s \in SlotsType /\ DOMAIN s = DOMAIN m.heap[b].slots
  BY <1>3, MemoryFacts, SlotsShape
<1>6. Touched(m, r, b) /\ r.heap[b].slots = s
  BY <1>4, <1>5, PutTouches
<1> QED
  BY <1>1, <1>2, <1>6 DEF Moved

\* A new block b, and the others as they were.
Housed(m, b, capacity, r) ==
  /\ r \in MemoryType /\ r.sound = m.sound /\ r.heap[b].refs = 1
  /\ DOMAIN r.heap[b].slots = Slots(0, capacity)
  /\ \A c \in Blocks \ {b} : r.heap[c] = m.heap[c]

\* A free block that is allocated has one holder and raw slots.
LEMMA MallocFacts ==
  ASSUME NEW m \in MemoryType, NEW b \in Blocks, NEW capacity \in Nat
  PROVE  /\ Housed(m, b, capacity, Malloc(m, b, capacity))
         /\ \A k \in Slots(0, capacity) : Malloc(m, b, capacity).heap[b].slots[k] = Raw
<1>1. PICK r : r = Malloc(m, b, capacity)
  OBVIOUS
<1>2. PICK k : k = [refs |-> 1, slots |-> [i \in Slots(0, capacity) |-> Raw]]
  OBVIOUS
<1>3. k \in Block
  <2>1. [i \in Slots(0, capacity) |-> Raw] \in [Slots(0, capacity) -> Cells]
    BY DEF Cells
  <2> QED
    BY <1>2, <2>1, SlotsShape DEF Block
<1>4. r = [m EXCEPT !.heap[b] = k]
  BY <1>1, <1>2 DEF Malloc
<1>5. PICK h : h = [m.heap EXCEPT ![b] = k]
  OBVIOUS
<1>6. h \in [Blocks -> Block] /\ h[b] = k /\ \A c \in Blocks \ {b} : h[c] = m.heap[c]
  BY <1>3, <1>5 DEF MemoryType
<1>7. r = [heap |-> h, sound |-> m.sound]
  BY <1>4, <1>5 DEF MemoryType
<1>8. r \in MemoryType /\ r.heap[b] = k /\ r.sound = m.sound /\ \A c \in Blocks \ {b} : r.heap[c] = m.heap[c]
  BY <1>6, <1>7 DEF MemoryType
<1> QED
  BY <1>1, <1>2, <1>8 DEF Housed

-----------------------------------------------------------------------------
(* The invariant. *)

\* The slots below the count hold objects, but for a gap of n slots at i.
Gapped(m, w, i, n) ==
  /\ Slots(0, w.count) \subseteq DOMAIN m.heap[w.storage].slots
  /\ ~trivial => \A k \in DOMAIN m.heap[w.storage].slots :
                    m.heap[w.storage].slots[k] # Raw <=> k < w.count /\ k \notin Slots(i, n)
Fits(m, w) == w.storage # None => Gapped(m, w, 0, 0)

Holders(vs, b) == {v \in Vectors : vs[v].storage = b}

\* A memory and the vectors in it.
State(m, vs) ==
  /\ m \in MemoryType /\ m.sound = TRUE
  /\ vs \in [Vectors -> [storage : Blocks \cup {None}, count : 0..MaxCount]]
  /\ \A v \in Vectors : vs[v].storage = None => vs[v].count = 0
  /\ \A b \in Blocks : m.heap[b].refs = Cardinality(Holders(vs, b))
  /\ \A v \in Vectors : Fits(m, vs[v])
  /\ \A v, u \in Vectors : vs[v].storage = vs[u].storage /\ vs[v].storage # None => vs[v].count = vs[u].count

IInv == trivial \in BOOLEAN /\ State(Memory, vec)

\* A vector as an operation may find it.
Valid(m, w) ==
  /\ m \in MemoryType /\ m.sound = TRUE
  /\ w \in VectorType /\ (w.storage = None => w.count = 0)
  /\ w.storage # None => m.heap[w.storage].refs > 0
  /\ Fits(m, w)

\* A block has a holder when its count is not zero, and only one when it is one.
LEMMA HoldersFacts ==
  ASSUME NEW m, NEW vs, State(m, vs), NEW b \in Blocks
  PROVE  /\ IsFiniteSet(Holders(vs, b)) /\ Cardinality(Holders(vs, b)) \in Nat
         /\ m.heap[b].refs = Cardinality(Holders(vs, b))
         /\ m.heap[b].refs = 0 => Holders(vs, b) = {}
         /\ \A v \in Holders(vs, b) : m.heap[b].refs > 0 /\ (m.heap[b].refs = 1 => Holders(vs, b) = {v})
<1>1. IsFiniteSet(Holders(vs, b)) /\ Cardinality(Holders(vs, b)) \in Nat
  BY VectorAssumption, FS_Subset, FS_CardinalityType DEF Holders
<1>2. m.heap[b].refs = Cardinality(Holders(vs, b))
  BY DEF State
<1>3. Cardinality(Holders(vs, b)) = 0 => Holders(vs, b) = {}
  BY <1>1, FS_EmptySet
<1>4. ASSUME NEW v \in Holders(vs, b) PROVE Cardinality(Holders(vs, b)) = 1 => Holders(vs, b) = {v}
  BY <1>1, FS_Singleton
<1> QED
  BY <1>1, <1>2, <1>3, <1>4

\* Every vector of a state is one an operation may find.
LEMMA ValidVector == ASSUME NEW m, NEW vs, State(m, vs), NEW v \in Vectors PROVE Valid(m, vs[v])
<1>1. vs[v] \in VectorType /\ (vs[v].storage = None => vs[v].count = 0) /\ Fits(m, vs[v])
  BY VectorAssumption DEF State, VectorType
<1>2. vs[v].storage # None => vs[v].storage \in Blocks /\ v \in Holders(vs, vs[v].storage)
  BY <1>1 DEF VectorType, Holders
<1> QED
  BY <1>1, <1>2, HoldersFacts DEF State, Valid

\* The memory of the state is its blocks and whether all was sound.
LEMMA MemoryIs == Memory.heap = heap /\ Memory.sound = sound
  BY DEF Memory

\* The invariant of the next state, from what the step makes of memory and vectors.
LEMMA StateIsNext ==
  ASSUME IInv, UNCHANGED trivial, NEW q, NEW vs, State(q, vs), q.heap = heap', q.sound = sound', vs = vec'
  PROVE  IInv'
<1>1. Memory' = q
  BY DEF Memory, State, MemoryType
<1>2. \A v \in Vectors : Fits(q, vs[v])
  BY DEF State
<1>3. \A v \in Vectors : Fits(Memory, vec[v])'
  BY <1>1, <1>2 DEF Fits, Gapped
<1>4. \A b \in Blocks : Holders(vs, b) = Holders(vec, b)'
  BY DEF Holders
<1> QED
  BY <1>1, <1>3, <1>4 DEF State, IInv

\* The invariant holds at first: no vector has storage.
LEMMA InitInv == Init => IInv
<1> SUFFICES ASSUME Init PROVE IInv
  OBVIOUS
<1>1. FreeBlock \in Block
  <2>1. << >> \in [Slots(0, 0) -> Cells]
    BY DEF Slots
  <2> QED
    BY <2>1, SlotsShape DEF FreeBlock, Block
<1>2. Memory \in MemoryType /\ Memory.sound = TRUE
  BY <1>1 DEF Init, Memory, MemoryType
<1>3. \A b \in Blocks : Holders(vec, b) = {}
  BY VectorAssumption DEF Init, Holders, NoVector
<1>4. \A b \in Blocks : Memory.heap[b].refs = Cardinality(Holders(vec, b))
  BY <1>3, FS_EmptySet DEF Init, FreeBlock, Memory
<1> QED
  BY <1>2, <1>4, VectorAssumption DEF Init, IInv, State, NoVector, Fits

\* A memory in which vector v has become x, and the counts have followed.
Replaces(m, vs, v, q, x) ==
  /\ q \in MemoryType /\ q.sound = TRUE
  /\ x \in VectorType /\ x.count <= MaxCount /\ (x.storage = None => x.count = 0) /\ Fits(q, x)
  /\ \A c \in Blocks : q.heap[c].refs = m.heap[c].refs - (IF vs[v].storage = c THEN 1 ELSE 0)
                                                       + (IF x.storage = c THEN 1 ELSE 0)
  /\ \A u \in Vectors \ {v} : vs[u].storage # None =>
       /\ q.heap[vs[u].storage].slots = m.heap[vs[u].storage].slots
       /\ vs[u].storage = x.storage => vs[u].count = x.count

\* A call that replaces one vector keeps counts, items and sharers in agreement.
LEMMA Reheld ==
  ASSUME NEW m, NEW vs, State(m, vs), NEW v \in Vectors, NEW q, NEW x, Replaces(m, vs, v, q, x)
  PROVE  State(q, [vs EXCEPT ![v] = x])
<1> USE DEF Replaces
<1>1. PICK ws : ws = [vs EXCEPT ![v] = x]
  OBVIOUS
<1>2. x \in [storage : Blocks \cup {None}, count : 0..MaxCount]
  BY VectorAssumption DEF VectorType
<1>3. /\ ws \in [Vectors -> [storage : Blocks \cup {None}, count : 0..MaxCount]]
      /\ ws[v] = x /\ \A u \in Vectors \ {v} : ws[u] = vs[u]
  BY <1>1, <1>2 DEF State
<1>4. \A u \in Vectors : ws[u].storage = None => ws[u].count = 0
  BY <1>3 DEF State
<1>5. ASSUME NEW u \in Vectors PROVE Fits(q, ws[u])
  <2>1. CASE u = v
    BY <1>3, <2>1
  <2>2. CASE u # v /\ vs[u].storage # None
    <3>1. Gapped(m, vs[u], 0, 0) /\ ws[u] = vs[u] /\ q.heap[vs[u].storage].slots = m.heap[vs[u].storage].slots
      BY <1>3, <2>2 DEF State, Fits
    <3>2. Gapped(q, vs[u], 0, 0)
      BY <3>1 DEF Gapped
    <3> QED
      BY <3>1, <3>2 DEF Fits
  <2>3. CASE u # v /\ vs[u].storage = None
    BY <1>3, <2>3 DEF Fits
  <2> QED
    BY <2>1, <2>2, <2>3
<1>6. ASSUME NEW c \in Blocks PROVE q.heap[c].refs = Cardinality(Holders(ws, c))
  <2>1. /\ IsFiniteSet(Holders(vs, c)) /\ Cardinality(Holders(vs, c)) \in Nat
        /\ m.heap[c].refs = Cardinality(Holders(vs, c))
    BY HoldersFacts
  <2>2. PICK O : O = Holders(vs, c) \ {v}
    OBVIOUS
  <2>3. IsFiniteSet(O) /\ Cardinality(O) \in Nat /\ v \notin O
    BY <2>1, <2>2, FS_Subset, FS_CardinalityType
  <2>a. Cardinality(O \cup {v}) = Cardinality(O) + 1
    BY <2>3, FS_AddElement
  <2>4. Cardinality(Holders(vs, c)) = Cardinality(O) + (IF vs[v].storage = c THEN 1 ELSE 0)
    <3>1. CASE vs[v].storage = c
      <4>1. Holders(vs, c) = O \cup {v}
        BY <2>2, <3>1 DEF Holders
      <4> QED
        BY <2>a, <3>1, <4>1
    <3>2. CASE vs[v].storage # c
      <4>1. Holders(vs, c) = O
        BY <2>2, <3>2 DEF Holders
      <4> QED
        BY <2>3, <3>2, <4>1
    <3> QED
      BY <3>1, <3>2
  <2>5. Cardinality(Holders(ws, c)) = Cardinality(O) + (IF x.storage = c THEN 1 ELSE 0)
    <3>1. CASE x.storage = c
      <4>1. Holders(ws, c) = O \cup {v}
        BY <1>3, <2>2, <3>1 DEF Holders
      <4> QED
        BY <2>a, <3>1, <4>1
    <3>2. CASE x.storage # c
      <4>1. Holders(ws, c) = O
        BY <1>3, <2>2, <3>2 DEF Holders
      <4> QED
        BY <2>3, <3>2, <4>1
    <3> QED
      BY <3>1, <3>2
  <2> QED
    BY <2>1, <2>3, <2>4, <2>5
<1>7. \A u, t \in Vectors : ws[u].storage = ws[t].storage /\ ws[u].storage # None => ws[u].count = ws[t].count
  BY <1>3 DEF State
<1>8. State(q, ws)
  BY <1>3, <1>4, <1>5, <1>6, <1>7 DEF State
<1> QED
  BY <1>1, <1>8

-----------------------------------------------------------------------------
(* What the vectors hold. *)

SeqOf(m, w) == [i \in 1..w.count |-> m.heap[w.storage].slots[i - 1]]

\* The items of a vector, in the terms of the lemmas below.
LEMMA SequenceIs == \A v \in Vectors : Sequence(v) = SeqOf(Memory, vec[v])
  BY MemoryIs DEF Sequence, SeqOf

\* The items of a vector after a step.
LEMMA SequenceIsNext ==
  ASSUME NEW q, NEW ws, heap' = q.heap, vec' = ws
  PROVE  \A v \in Vectors : Sequence(v)' = SeqOf(q, ws[v])
  BY DEF Sequence, SeqOf

\* The items of a vector are as many as its count, each of them a cell.
LEMMA SequenceType ==
  ASSUME NEW m, NEW w, Valid(m, w)
  PROVE  /\ SeqOf(m, w) \in Seq(Cells) /\ Len(SeqOf(m, w)) = w.count /\ w.count \in Nat
         /\ \A k \in 1..w.count : SeqOf(m, w)[k] = m.heap[w.storage].slots[k - 1]
<1>1. PICK n \in Nat : n = w.count
  BY DEF Valid, VectorType
<1>2. PICK s : s = SeqOf(m, w)
  OBVIOUS
<1>3. ASSUME NEW k \in 1..n PROVE m.heap[w.storage].slots[k - 1] \in Cells
  <2>1. w.storage # None
    BY <1>1 DEF Valid
  <2>2. w.storage \in Blocks /\ m \in MemoryType
    BY <2>1 DEF Valid, VectorType
  <2>3. Slots(0, n) \subseteq DOMAIN m.heap[w.storage].slots
    BY <1>1, <2>1 DEF Valid, Fits, Gapped
  <2>4. k - 1 \in Slots(0, n)
    BY DEF Slots
  <2>5. m.heap[w.storage].slots \in [DOMAIN m.heap[w.storage].slots -> Cells]
    BY <2>2, MemoryFacts
  <2> QED
    BY <2>3, <2>4, <2>5
<1>4. s = [k \in 1..n |-> m.heap[w.storage].slots[k - 1]]
  BY <1>1, <1>2 DEF SeqOf
<1>5. s \in [1..n -> Cells]
  BY <1>3, <1>4
<1>6. s \in Seq(Cells) /\ Len(s) = n
  BY <1>1, <1>5
<1> QED
  BY <1>1, <1>2, <1>4, <1>6

\* A call that replaces vector v leaves the items of every other vector where they are.
LEMMA OthersHold ==
  ASSUME NEW m, NEW vs, State(m, vs), NEW v \in Vectors, NEW q, NEW x, Replaces(m, vs, v, q, x),
         NEW u \in Vectors, u # v
  PROVE  SeqOf(q, vs[u]) = SeqOf(m, vs[u])
<1>1. CASE vs[u].storage = None
  <2>1. vs[u].count = 0
    BY <1>1 DEF State
  <2> QED
    BY <2>1 DEF SeqOf
<1>2. CASE vs[u].storage # None
  <2>1. q.heap[vs[u].storage].slots = m.heap[vs[u].storage].slots
    BY <1>2 DEF Replaces
  <2> QED
    BY <2>1 DEF SeqOf
<1> QED
  BY <1>1, <1>2

\* A call of vector v makes sequence t of it and leaves the others alone.
Becomes(v, t) == Sequence(v)' = t /\ \A u \in Vectors \ {v} : Sequence(u)' = Sequence(u)

\* A call that replaces vector v gives it new items and no other vector.
LEMMA ReplacesBecomes ==
  ASSUME State(Memory, vec), NEW v \in Vectors, NEW q, NEW x, Replaces(Memory, vec, v, q, x),
         heap' = q.heap, vec' = [vec EXCEPT ![v] = x]
  PROVE  Becomes(v, SeqOf(q, x))
<1>1. PICK ws : ws = [vec EXCEPT ![v] = x]
  OBVIOUS
<1>2. ws[v] = x /\ \A u \in Vectors \ {v} : ws[u] = vec[u]
  BY <1>1 DEF State
<1>3. \A u \in Vectors : Sequence(u)' = SeqOf(q, ws[u])
  BY <1>1, SequenceIsNext
<1>4. ASSUME NEW u \in Vectors, u # v PROVE Sequence(u)' = Sequence(u)
  <2>1. PICK m, vs : m = Memory /\ vs = vec
    OBVIOUS
  <2>2. State(m, vs) /\ Replaces(m, vs, v, q, x)
    BY <2>1
  <2>3. SeqOf(q, vs[u]) = SeqOf(m, vs[u])
    BY <1>4, <2>2, OthersHold
  <2>4. Sequence(u) = SeqOf(m, vs[u])
    BY <2>1, SequenceIs
  <2>5. ws[u] = vs[u]
    BY <1>2, <1>4, <2>1
  <2> QED
    BY <1>3, <2>3, <2>4, <2>5
<1> QED
  BY <1>2, <1>3, <1>4 DEF Becomes

\* What VectorSpec lets a vector become.
Promised(s, t) ==
  \/ Abstract!Inserted(s, t) \/ Abstract!Removed(s, t) \/ Abstract!Replaced(s, t) \/ Abstract!Sorted(s, t)
  \/ \E u \in Vectors : t = Sequence(u)

Step(v) == \E t : Becomes(v, t) /\ Promised(Sequence(v), t)

\* What it takes for t to be s with a run of n items put in at i.
LEMMA InsertedRun ==
  ASSUME NEW s \in Seq(Cells), NEW t \in Seq(Cells), NEW n \in Nat, Len(t) = Len(s) + n, NEW i \in 0..Len(s),
         \A k \in 1..i : t[k] = s[k], \A k \in i + 1..Len(s) : t[k + n] = s[k]
  PROVE  Abstract!Inserted(s, t)
<1>1. Len(s) \in Nat /\ Len(t) \in Nat /\ i \in Nat
  OBVIOUS
<1>2. SubSeq(t, 1, i) = SubSeq(s, 1, i)
  <2>1. SubSeq(t, 1, i) = [k \in 1..i |-> t[k]] /\ SubSeq(s, 1, i) = [k \in 1..i |-> s[k]]
    BY <1>1
  <2> QED
    BY <2>1
<1>3. SubSeq(t, i + n + 1, Len(t)) = SubSeq(s, i + 1, Len(s))
  <2>1. PICK m \in Nat : m = Len(s) - i
    BY <1>1
  <2>2. /\ SubSeq(t, i + n + 1, Len(t)) = [k \in 1..m |-> t[k + i + n]]
        /\ SubSeq(s, i + 1, Len(s)) = [k \in 1..m |-> s[k + i]]
    <3>1. PICK a, b : a = i + n + 1 /\ b = Len(t)
      OBVIOUS
    <3>2. a \in Nat /\ b \in Nat /\ b - a + 1 = m
      BY <1>1, <2>1, <3>1
    <3>3. SubSeq(t, a, b) = [k \in 1..m |-> t[k + i + n]]
      <4>1. SubSeq(t, a, b) = [k \in 1..b - a + 1 |-> t[k + a - 1]]
        BY <3>2
      <4>2. \A k \in 1..m : k + a - 1 = k + i + n
        BY <1>1, <3>1
      <4> QED
        BY <3>2, <4>1, <4>2
    <3>4. PICK c \in Nat : c = i + 1 /\ Len(s) - c + 1 = m
      BY <1>1, <2>1
    <3>5. SubSeq(s, c, Len(s)) = [k \in 1..m |-> s[k + i]]
      <4>1. SubSeq(s, c, Len(s)) = [k \in 1..Len(s) - c + 1 |-> s[k + c - 1]]
        BY <1>1
      <4>2. \A k \in 1..m : k + c - 1 = k + i
        BY <1>1, <3>4
      <4> QED
        BY <3>4, <4>1, <4>2
    <3> QED
      BY <3>1, <3>3, <3>4, <3>5
  <2>3. ASSUME NEW k \in 1..m PROVE t[k + i + n] = s[k + i]
    BY <1>1, <2>1
  <2> QED
    BY <2>2, <2>3
<1>4. Len(t) - Len(s) = n /\ Len(s) <= Len(t)
  BY <1>1
<1> QED
  BY <1>2, <1>3, <1>4 DEF Abstract!Inserted

-----------------------------------------------------------------------------
(* Storage let go of and taken. *)

\* The storage of a vector is a block with a holder, its items live in it.
LEMMA StorageFacts ==
  ASSUME NEW m, NEW w, Valid(m, w), w.storage # None
  PROVE  /\ w.storage \in Blocks /\ w.count \in Nat /\ m.heap[w.storage].refs \in Nat
         /\ CapacityOf(m, w) \in Nat /\ DOMAIN m.heap[w.storage].slots = Slots(0, CapacityOf(m, w))
         /\ w.count <= CapacityOf(m, w) /\ Slots(0, w.count) \subseteq DOMAIN m.heap[w.storage].slots
         /\ ~trivial => \A k \in DOMAIN m.heap[w.storage].slots : m.heap[w.storage].slots[k] # Raw <=> k < w.count
<1>1. w.storage \in Blocks /\ w.count \in Nat /\ m \in MemoryType /\ Gapped(m, w, 0, 0)
  BY DEF Valid, VectorType, Fits
<1>2. /\ m.heap[w.storage].refs \in Nat /\ CapacityOf(m, w) \in Nat
      /\ DOMAIN m.heap[w.storage].slots = Slots(0, CapacityOf(m, w))
  BY <1>1, MemoryFacts DEF CapacityOf
<1>3. w.count <= CapacityOf(m, w)
  <2>1. Slots(0, w.count) \subseteq Slots(0, CapacityOf(m, w))
    BY <1>1, <1>2 DEF Gapped
  <2>2. PICK c \in Nat, n \in Nat : c = CapacityOf(m, w) /\ n = w.count
    BY <1>1, <1>2
  <2>3. 0..n - 1 \subseteq 0..c - 1
    BY <2>1, <2>2 DEF Slots
  <2>4. n > 0 => n - 1 \in 0..n - 1
    OBVIOUS
  <2>5. n > 0 => n - 1 \in 0..c - 1
    BY <2>3, <2>4
  <2>6. n <= c
    BY <2>5
  <2> QED
    BY <2>2, <2>6
<1>4. \A k : k \notin Slots(0, 0)
  BY SlotsRange
<1> QED
  BY <1>1, <1>2, <1>3, <1>4 DEF Gapped

\* A vector is not disturbed by a change of a block that is not its storage.
LEMMA ValidElsewhere ==
  ASSUME NEW m, NEW w, Valid(m, w), NEW q \in MemoryType, q.sound = TRUE,
         w.storage # None => q.heap[w.storage] = m.heap[w.storage]
  PROVE  Valid(q, w)
<1>1. w.storage # None => q.heap[w.storage].refs > 0 /\ Gapped(q, w, 0, 0)
  BY DEF Valid, Fits, Gapped
<1> QED
  BY <1>1 DEF Valid, Fits

\* One reference less; the block of the last one is free.
Released(m, w, r) ==
  /\ r \in MemoryType /\ r.sound = TRUE
  /\ w.storage = None => r = m
  /\ w.storage # None => /\ r.heap[w.storage].refs = m.heap[w.storage].refs - 1
                         /\ m.heap[w.storage].refs > 1 => r.heap[w.storage].slots = m.heap[w.storage].slots
  /\ \A c \in Blocks \ {w.storage} : r.heap[c] = m.heap[c]

\* release_storage lets go of the storage, with its items when it was the last holder.
LEMMA ReleaseFacts == ASSUME NEW m, NEW w, Valid(m, w) PROVE Released(m, w, ReleaseStorage(m, w))
<1>1. PICK r : r = ReleaseStorage(m, w)
  OBVIOUS
<1>2. CASE w.storage = None
  BY <1>1, <1>2 DEF ReleaseStorage, Valid, Released
<1>3. CASE w.storage # None /\ m.heap[w.storage].refs > 1
  <2>1. PICK b \in Blocks : b = w.storage
    BY <1>3, StorageFacts
  <2>2. m \in MemoryType /\ m.sound = TRUE /\ m.heap[b].refs \in Nat /\ m.heap[b].refs > 1
    BY <1>3, <2>1, MemoryFacts DEF Valid
  <2>3. PICK k : k = [m.heap[b] EXCEPT !.refs = @ - 1]
    OBVIOUS
  <2>4. k \in Block /\ k.refs = m.heap[b].refs - 1 /\ k.slots = m.heap[b].slots
    <3>1. PICK o \in Block : o = m.heap[b]
      BY <2>2, MemoryFacts
    <3>2. o = [refs |-> o.refs, slots |-> o.slots]
      BY BlockFacts
    <3>3. k = [refs |-> o.refs - 1, slots |-> o.slots]
      BY <2>3, <3>1, <3>2
    <3>4. o.refs - 1 \in Nat /\ o.slots \in SlotsType
      BY <2>2, <3>1 DEF Block
    <3> QED
      BY <3>1, <3>3, <3>4 DEF Block
  <2>5. PICK h : h = [m.heap EXCEPT ![b] = k]
    OBVIOUS
  <2>6. h \in [Blocks -> Block] /\ h[b] = k /\ \A c \in Blocks \ {b} : h[c] = m.heap[c]
    BY <2>2, <2>4, <2>5 DEF MemoryType
  <2>7. r = [m EXCEPT !.heap[b] = k]
    BY <1>1, <1>3, <2>1, <2>3 DEF ReleaseStorage
  <2>8. r = [heap |-> h, sound |-> TRUE]
    BY <2>2, <2>5, <2>7 DEF MemoryType
  <2>9. r \in MemoryType /\ r.sound = TRUE /\ r.heap = h
    BY <2>6, <2>8 DEF MemoryType
  <2> QED
    BY <1>1, <1>3, <2>1, <2>4, <2>6, <2>9 DEF Released
<1>4. CASE w.storage # None /\ m.heap[w.storage].refs <= 1
  <2>1. PICK b \in Blocks : b = w.storage
    BY <1>4, StorageFacts
  <2>a. w.count \in Nat /\ m.heap[b].refs \in Nat
    BY <1>4, <2>1, StorageFacts
  <2>b. m \in MemoryType /\ m.sound = TRUE /\ m.heap[b].refs > 0
    BY <1>4, <2>1 DEF Valid
  <2>2. m \in MemoryType /\ m.sound = TRUE /\ m.heap[b].refs = 1 /\ w.count \in Nat
    BY <1>4, <2>1, <2>a, <2>b
  <2>3. Live(m, b, Slots(0, w.count))
    BY <1>4, <2>1, StorageFacts, SlotsRange DEF Live
  <2>4. PICK d : d = Destroy(m, b, 0, w.count)
    OBVIOUS
  <2>5. /\ Touched(m, d, b)
        /\ \A k \in DOMAIN m.heap[b].slots :
             d.heap[b].slots[k] = IF k \in Slots(0, w.count) THEN Raw ELSE m.heap[b].slots[k]
    <3>1. PICK n \in Nat, o \in Nat : n = w.count /\ o = 0
      BY <2>2
    <3>2. Live(m, b, Slots(o, n))
      BY <2>3, <3>1
    <3>3. Filled(m, b, o, n, Raw, Destroy(m, b, o, n))
      BY <2>2, <3>2, DestroyFacts
    <3> QED
      BY <2>4, <3>1, <3>3 DEF Filled
  <2>6. d \in MemoryType /\ d.sound = TRUE /\ \A c \in Blocks \ {b} : d.heap[c] = m.heap[c]
    BY <2>5 DEF Touched
  <2>7. Empty(d, b, DOMAIN d.heap[b].slots)
    <3> SUFFICES ASSUME NEW k \in DOMAIN d.heap[b].slots, ~trivial PROVE d.heap[b].slots[k] = Raw
      BY DEF Empty
    <3>1. k \in DOMAIN m.heap[b].slots
      BY <2>5 DEF Touched
    <3>2. k \in Int /\ 0 <= k
      BY <1>4, <2>1, <3>1, StorageFacts, SlotsRange
    <3>3. k \in Slots(0, w.count) \/ m.heap[b].slots[k] = Raw
      BY <1>4, <2>1, <2>2, <3>1, <3>2, StorageFacts, SlotsRange
    <3> QED
      BY <2>5, <3>1, <3>3
  <2>8. FreeBlock \in Block /\ FreeBlock.refs = 0
    <3>1. << >> \in [Slots(0, 0) -> Cells]
      BY DEF Slots
    <3> QED
      BY <3>1, SlotsShape DEF FreeBlock, Block
  <2>9. PICK h : h = [d.heap EXCEPT ![b] = FreeBlock]
    OBVIOUS
  <2>10. h \in [Blocks -> Block] /\ h[b] = FreeBlock /\ \A c \in Blocks \ {b} : h[c] = m.heap[c]
    BY <2>6, <2>8, <2>9 DEF MemoryType
  <2>11. r = [heap |-> h, sound |-> TRUE]
    <3>1. r = [heap |-> [d.heap EXCEPT ![b] = FreeBlock],
               sound |-> d.sound /\ Empty(d, b, DOMAIN d.heap[b].slots)]
      <4>1. w.storage # None /\ ~(m.heap[w.storage].refs > 1)
        BY <1>4, <2>1, <2>2
      <4> QED
        BY <1>1, <2>1, <2>4, <4>1, Zenon DEF ReleaseStorage
    <3>2. (d.sound /\ Empty(d, b, DOMAIN d.heap[b].slots)) = TRUE
      BY <2>6, <2>7
    <3> QED
      BY <2>9, <3>1, <3>2
  <2>12. r \in MemoryType /\ r.sound = TRUE /\ r.heap = h
    BY <2>10, <2>11 DEF MemoryType
  <2> QED
    BY <1>1, <1>4, <2>1, <2>2, <2>8, <2>10, <2>12 DEF Released
<1> QED
  <2>1. w.storage # None => m.heap[w.storage].refs \in Nat
    BY StorageFacts
  <2>2. w.storage = None \/ m.heap[w.storage].refs > 1 \/ m.heap[w.storage].refs <= 1
    BY <2>1
  <2> QED
    BY <1>2, <1>3, <1>4, <2>2, Zenon

\* A vector lets go of its storage.
LEMMA DropReplaces ==
  ASSUME NEW m, NEW vs, State(m, vs), NEW v \in Vectors
  PROVE  Replaces(m, vs, v, ReleaseStorage(m, vs[v]), NoVector)
<1>1. PICK w : w = vs[v]
  OBVIOUS
<1>2. Valid(m, w)
  BY <1>1, ValidVector
<1>3. PICK r : r = ReleaseStorage(m, w)
  OBVIOUS
<1>4. Released(m, w, r)
  BY <1>2, <1>3, ReleaseFacts
<1>5. NoVector \in VectorType /\ NoVector.count = 0 /\ NoVector.count <= MaxCount /\ NoVector.storage = None
  BY VectorAssumption DEF NoVector, VectorType
<1>6. Fits(r, NoVector)
  BY <1>5 DEF Fits
<1>7. ASSUME NEW c \in Blocks
      PROVE  r.heap[c].refs = m.heap[c].refs - (IF w.storage = c THEN 1 ELSE 0) + (IF NoVector.storage = c THEN 1 ELSE 0)
  <2>1. m \in MemoryType /\ m.heap[c].refs \in Nat /\ c # None
    BY <1>2, MemoryFacts, VectorAssumption DEF Valid
  <2>2. CASE w.storage = c
    BY <1>4, <1>5, <2>1, <2>2 DEF Released
  <2>3. CASE w.storage # c
    BY <1>4, <1>5, <2>1, <2>3 DEF Released
  <2> QED
    BY <2>2, <2>3
<1>8. ASSUME NEW u \in Vectors \ {v}, vs[u].storage # None
      PROVE  r.heap[vs[u].storage].slots = m.heap[vs[u].storage].slots
  <2>1. PICK c \in Blocks : c = vs[u].storage
    BY <1>8 DEF State
  <2>2. CASE w.storage = c
    <3>1. u \in Holders(vs, c) /\ v \in Holders(vs, c)
      BY <1>1, <2>1, <2>2 DEF Holders
    <3>2. m.heap[c].refs > 0 /\ m.heap[c].refs # 1 /\ m.heap[c].refs \in Nat
      BY <3>1, HoldersFacts
    <3> QED
      BY <1>4, <1>8, <2>1, <2>2, <3>2 DEF Released
  <2>3. CASE w.storage # c
    BY <1>4, <2>1, <2>3 DEF Released
  <2> QED
    BY <2>2, <2>3
<1>9. r \in MemoryType /\ r.sound = TRUE
  BY <1>4 DEF Released
<1>10. Replaces(m, vs, v, r, NoVector)
  BY <1>1, <1>5, <1>6, <1>7, <1>8, <1>9 DEF Replaces
<1> QED
  BY <1>1, <1>3, <1>10

\* A vector without storage takes the block and the count of another.
LEMMA TakeReplaces ==
  ASSUME NEW m, NEW vs, State(m, vs), NEW v \in Vectors, NEW u \in Vectors, vs[v] = NoVector,
         vs[u].storage # None, NEW h, h = [m.heap EXCEPT ![vs[u].storage].refs = @ + 1]
  PROVE  Replaces(m, vs, v, [heap |-> h, sound |-> TRUE], vs[u])
<1>1. PICK x : x = vs[u]
  OBVIOUS
<1>2. Valid(m, x)
  BY <1>1, ValidVector
<1>3. PICK b \in Blocks : b = x.storage
  BY <1>1 DEF State
<1>4. m \in MemoryType /\ m.sound = TRUE /\ m.heap[b].refs \in Nat
  BY <1>2, MemoryFacts DEF Valid
<1>5. PICK k : k = [m.heap[b] EXCEPT !.refs = @ + 1]
  OBVIOUS
<1>6. k \in Block /\ k.refs = m.heap[b].refs + 1 /\ k.slots = m.heap[b].slots
  <2>1. PICK o \in Block : o = m.heap[b]
    BY <1>4, MemoryFacts
  <2>2. o = [refs |-> o.refs, slots |-> o.slots]
    BY BlockFacts
  <2>3. k = [refs |-> o.refs + 1, slots |-> o.slots]
    BY <1>5, <2>1, <2>2
  <2>4. o.refs + 1 \in Nat /\ o.slots \in SlotsType
    BY <1>4, <2>1 DEF Block
  <2> QED
    BY <2>1, <2>3, <2>4 DEF Block
<1>7. h = [m.heap EXCEPT ![b] = k]
  BY <1>1, <1>3, <1>5
<1>8. h \in [Blocks -> Block] /\ h[b] = k /\ \A c \in Blocks \ {b} : h[c] = m.heap[c]
  BY <1>4, <1>6, <1>7 DEF MemoryType
<1>9. PICK q : q = [heap |-> h, sound |-> TRUE]
  OBVIOUS
<1>10. q \in MemoryType /\ q.sound = TRUE /\ q.heap = h
  BY <1>8, <1>9 DEF MemoryType
<1>11. x \in VectorType /\ x.count <= MaxCount /\ (x.storage = None => x.count = 0)
  BY <1>1, VectorAssumption DEF State, VectorType
<1>12. Fits(q, x)
  <2>1. Gapped(m, x, 0, 0)
    BY <1>1, <1>2 DEF Valid, Fits
  <2>2. q.heap[x.storage].slots = m.heap[x.storage].slots
    BY <1>3, <1>6, <1>8, <1>10
  <2> QED
    BY <2>1, <2>2 DEF Fits, Gapped
<1>13. ASSUME NEW c \in Blocks
       PROVE  q.heap[c].refs = m.heap[c].refs - (IF vs[v].storage = c THEN 1 ELSE 0) + (IF x.storage = c THEN 1 ELSE 0)
  <2>a. m.heap[c].refs \in Nat
    BY <1>4, MemoryFacts
  <2>b. vs[v].storage = None
    BY DEF NoVector
  <2>1. m.heap[c].refs \in Nat /\ vs[v].storage # c
    BY <2>a, <2>b, VectorAssumption
  <2>2. CASE c = b
    <3>1. q.heap[c].refs = m.heap[c].refs + 1
      BY <1>6, <1>8, <1>10, <2>2, Zenon
    <3> QED
      BY <1>3, <2>1, <2>2, <3>1
  <2>3. CASE c # b
    <3>1. q.heap[c].refs = m.heap[c].refs
      BY <1>8, <1>10, <2>3
    <3> QED
      BY <1>3, <2>1, <2>3, <3>1
  <2> QED
    BY <2>2, <2>3
<1>14. ASSUME NEW t \in Vectors \ {v}, vs[t].storage # None
       PROVE  /\ q.heap[vs[t].storage].slots = m.heap[vs[t].storage].slots
              /\ vs[t].storage = x.storage => vs[t].count = x.count
  <2>1. vs[t].storage \in Blocks
    BY <1>14 DEF State
  <2> QED
    BY <1>1, <1>6, <1>8, <1>10, <1>14, <2>1 DEF State
<1>15. Replaces(m, vs, v, q, x)
  BY <1>10, <1>11, <1>12, <1>13, <1>14 DEF Replaces
<1> QED
  BY <1>1, <1>9, <1>15

-----------------------------------------------------------------------------
(* Copying, assigning and destroying a vector. *)

\* A call that replaces a vector by another.
LEMMA ReplacesInv ==
  ASSUME IInv, NEW v \in Vectors, NEW q, NEW x, Replaces(Memory, vec, v, q, x),
         heap' = q.heap, sound' = q.sound, vec' = [vec EXCEPT ![v] = x], UNCHANGED trivial
  PROVE  IInv' /\ Becomes(v, SeqOf(q, x))
<1>1. State(q, [vec EXCEPT ![v] = x])
  BY Reheld DEF IInv
<1>2. IInv'
  BY <1>1, StateIsNext
<1> QED
  BY <1>2, ReplacesBecomes DEF IInv

\* Emptying a vector takes a run of items out.
LEMMA EmptiedIsPromised == ASSUME IInv, NEW v \in Vectors, NEW m PROVE Promised(Sequence(v), SeqOf(m, NoVector))
<1>1. PICK s : s = Sequence(v)
  OBVIOUS
<1>2. Valid(Memory, vec[v])
  BY ValidVector DEF IInv
<1>3. s \in Seq(Cells)
  <2>1. PICK m1, w : m1 = Memory /\ w = vec[v]
    OBVIOUS
  <2>2. Valid(m1, w) /\ s = SeqOf(m1, w)
    BY <1>1, <1>2, <2>1, SequenceIs
  <2> QED
    BY <2>2, SequenceType
<1>4. PICK t, i : t = << >> /\ i = 0
  OBVIOUS
<1>5. PICK n \in Nat : n = Len(s)
  BY <1>3
<1>6. Abstract!Inserted(t, s)
  <2>1. t \in Seq(Cells) /\ Len(t) = 0
    BY <1>4
  <2>2. Len(s) = Len(t) + n /\ i \in 0..Len(t)
    BY <1>4, <1>5, <2>1
  <2>3. (\A k \in 1..i : s[k] = t[k]) /\ (\A k \in i + 1..Len(t) : s[k + n] = t[k])
    BY <1>4, <2>1
  <2> QED
    BY <1>3, <2>1, <2>2, <2>3, InsertedRun
<1>7. SeqOf(m, NoVector) = << >>
  BY DEF SeqOf, NoVector
<1> QED
  BY <1>1, <1>4, <1>6, <1>7 DEF Promised, Abstract!Removed

\* finish_vector lets go of the storage.
LEMMA FinishVectorInv == ASSUME IInv, NEW v \in Vectors, FinishVector(v) PROVE IInv' /\ Step(v)
<1>1. PICK r : r = ReleaseStorage(Memory, vec[v])
  OBVIOUS
<1>2. Replaces(Memory, vec, v, r, NoVector)
  BY <1>1, DropReplaces DEF IInv
<1>3. heap' = r.heap /\ sound' = r.sound /\ vec' = [vec EXCEPT ![v] = NoVector] /\ UNCHANGED trivial
  BY <1>1 DEF FinishVector
<1>4. IInv' /\ Becomes(v, SeqOf(r, NoVector))
  BY <1>2, <1>3, ReplacesInv
<1>5. Promised(Sequence(v), SeqOf(r, NoVector))
  BY EmptiedIsPromised
<1> QED
  BY <1>4, <1>5 DEF Step

\* The copy constructor shares the storage of another vector.
LEMMA CopyConstructInv == ASSUME IInv, NEW v \in Vectors, NEW u \in Vectors, CopyConstruct(v, u) PROVE IInv' /\ Step(v)
<1>1. State(Memory, vec) /\ Memory.sound = TRUE
  BY DEF IInv, State
<1>2. v # u /\ vec[v] = NoVector /\ UNCHANGED <<sound, trivial>> /\ vec' = [vec EXCEPT ![v] = vec[u]]
  BY DEF CopyConstruct
<1>3. CASE vec[u].storage = None
  <2>1. vec[u] = NoVector
    BY <1>1, <1>3 DEF State, NoVector
  <2>2. vec' = vec /\ heap' = heap
    BY <1>1, <1>2, <1>3, <2>1 DEF CopyConstruct, State
  <2>3. IInv'
    BY <1>1, <1>2, <2>2, StateIsNext, MemoryIs
  <2>4. Becomes(v, Sequence(v))
    BY <2>2 DEF Becomes, Sequence
  <2> QED
    BY <2>3, <2>4 DEF Step, Promised
<1>4. CASE vec[u].storage # None
  <2>1. PICK h : h = [Memory.heap EXCEPT ![vec[u].storage].refs = @ + 1]
    OBVIOUS
  <2>2. heap' = h
    BY <1>4, <2>1, MemoryIs DEF CopyConstruct
  <2>3. PICK q : q = [heap |-> h, sound |-> TRUE]
    OBVIOUS
  <2>4. Replaces(Memory, vec, v, q, vec[u])
    BY <1>1, <1>2, <1>4, <2>1, <2>3, TakeReplaces
  <2>5. q.heap = heap' /\ q.sound = sound'
    BY <1>1, <1>2, <2>2, <2>3, MemoryIs
  <2>6. PICK x : x = vec[u]
    OBVIOUS
  <2>7. IInv' /\ Becomes(v, SeqOf(q, x))
    BY <1>2, <2>4, <2>5, <2>6, ReplacesInv
  <2>8. SeqOf(q, x) = Sequence(u)
    <3>1. PICK m, vs : m = Memory /\ vs = vec
      OBVIOUS
    <3>2. SeqOf(q, vs[u]) = SeqOf(m, vs[u])
      BY <1>1, <1>2, <2>4, <3>1, OthersHold
    <3> QED
      BY <2>6, <3>1, <3>2, SequenceIs
  <2> QED
    BY <2>7, <2>8 DEF Step, Promised
<1> QED
  BY <1>3, <1>4

\* operator= lets go of the storage and shares that of another vector.
LEMMA AssignInv == ASSUME IInv, NEW v \in Vectors, NEW u \in Vectors, Assign(v, u) PROVE IInv' /\ Step(v)
<1>1. PICK r : r = ReleaseStorage(Memory, vec[v])
  OBVIOUS
<1>2. PICK vs : vs = [vec EXCEPT ![v] = NoVector]
  OBVIOUS
<1>3. Replaces(Memory, vec, v, r, NoVector) /\ State(r, vs) /\ r.sound = TRUE
  <2>1. Replaces(Memory, vec, v, r, NoVector)
    BY <1>1, DropReplaces DEF IInv
  <2>2. State(r, vs)
    BY <1>2, <2>1, Reheld DEF IInv
  <2> QED
    BY <2>1, <2>2 DEF State
<1>4. vs[v] = NoVector /\ vs[u] = vec[u] /\ v # u
  BY <1>2 DEF Assign, IInv, State
<1>5. sound' = r.sound /\ UNCHANGED trivial
  BY <1>1 DEF Assign
<1>6. CASE vec[u].count = 0
  <2>1. heap' = r.heap /\ vec' = [vec EXCEPT ![v] = NoVector]
    BY <1>1, <1>6 DEF Assign
  <2>2. IInv' /\ Becomes(v, SeqOf(r, NoVector))
    BY <1>3, <1>5, <2>1, ReplacesInv
  <2>3. Promised(Sequence(v), SeqOf(r, NoVector))
    BY EmptiedIsPromised
  <2> QED
    BY <2>2, <2>3 DEF Step
<1>7. CASE vec[u].count # 0
  <2>1. vs[u].storage # None
    BY <1>3, <1>4, <1>7 DEF State
  <2>2. PICK h : h = [r.heap EXCEPT ![vs[u].storage].refs = @ + 1]
    OBVIOUS
  <2>3. PICK q : q = [heap |-> h, sound |-> TRUE]
    OBVIOUS
  <2>4. Replaces(r, vs, v, q, vs[u])
    BY <1>3, <1>4, <2>1, <2>2, <2>3, TakeReplaces
  <2>5. heap' = h /\ vec' = [vec EXCEPT ![v] = vec[u]]
    BY <1>1, <1>4, <1>7, <2>2 DEF Assign
  <2>6. vec' = [vs EXCEPT ![v] = vs[u]]
    BY <1>2, <1>4, <2>5 DEF IInv, State
  <2>7. q.heap = heap' /\ q.sound = sound'
    BY <1>3, <1>5, <2>3, <2>5
  <2>8. IInv'
    <3>1. State(q, [vs EXCEPT ![v] = vs[u]])
      BY <1>3, <2>4, Reheld
    <3> QED
      BY <1>5, <2>6, <2>7, <3>1, StateIsNext
  <2>9. ASSUME NEW t \in Vectors, t # v PROVE SeqOf(q, vs[t]) = Sequence(t) /\ vs[t] = vec[t]
    <3>1. PICK m, ws : m = Memory /\ ws = vec
      OBVIOUS
    <3>2. State(m, ws) /\ Replaces(m, ws, v, r, NoVector)
      BY <1>3, <3>1 DEF IInv
    <3>3. SeqOf(r, ws[t]) = SeqOf(m, ws[t])
      BY <2>9, <3>2, OthersHold
    <3>4. SeqOf(q, vs[t]) = SeqOf(r, vs[t])
      BY <1>3, <2>4, <2>9, OthersHold
    <3>5. vs[t] = vec[t]
      BY <1>2, <2>9 DEF IInv, State
    <3> QED
      BY <3>1, <3>3, <3>4, <3>5, SequenceIs
  <2>10. Becomes(v, Sequence(u))
    <3>1. PICK ws : ws = [vec EXCEPT ![v] = vec[u]]
      OBVIOUS
    <3>2. \A t \in Vectors : Sequence(t)' = SeqOf(q, ws[t])
      BY <2>5, <2>7, <3>1, SequenceIsNext
    <3>3. ws[v] = vec[u] /\ \A t \in Vectors \ {v} : ws[t] = vec[t]
      BY <3>1 DEF IInv, State
    <3>4. Sequence(v)' = Sequence(u)
      BY <1>4, <2>9, <3>2, <3>3
    <3>5. ASSUME NEW t \in Vectors \ {v} PROVE Sequence(t)' = Sequence(t)
      BY <2>9, <3>2, <3>3
    <3> QED
      BY <3>4, <3>5 DEF Becomes
  <2> QED
    BY <2>8, <2>10 DEF Step, Promised
<1> QED
  BY <1>6, <1>7

-----------------------------------------------------------------------------
(* Storage of one's own. *)

\* What an operation on vector w makes of it, once it may write: its block was
\* its own, or it has moved to one that was free.
Alone(m, w, q, x) ==
  /\ q \in MemoryType /\ q.sound = TRUE /\ w.storage \in Blocks \cup {None}
  /\ x \in VectorType /\ x.storage \in Blocks /\ q.heap[x.storage].refs = 1
  /\ \/ /\ x.storage = w.storage /\ m.heap[w.storage].refs = 1
        /\ \A c \in Blocks \ {x.storage} : q.heap[c] = m.heap[c]
     \/ /\ x.storage # w.storage /\ m.heap[x.storage].refs = 0
        /\ w.storage # None => /\ q.heap[w.storage].refs = m.heap[w.storage].refs - 1
                               /\ m.heap[w.storage].refs > 1 => q.heap[w.storage].slots = m.heap[w.storage].slots
        /\ \A c \in Blocks \ {w.storage, x.storage} : q.heap[c] = m.heap[c]

\* A vector stays alone on its storage when only its items change.
LEMMA AloneTouched ==
  ASSUME NEW m, NEW w, NEW q, NEW x, Alone(m, w, q, x), NEW r, Touched(q, r, x.storage)
  PROVE  Alone(m, w, r, x)
<1>1. /\ r \in MemoryType /\ r.sound = TRUE
      /\ x \in VectorType /\ x.storage \in Blocks /\ r.heap[x.storage].refs = 1
      /\ \A c \in Blocks \ {x.storage} : r.heap[c] = q.heap[c]
  BY DEF Alone, Touched
<1>2. w.storage # None /\ w.storage # x.storage => r.heap[w.storage] = q.heap[w.storage]
  BY <1>1 DEF Alone
<1> QED
  BY <1>1, <1>2 DEF Alone

\* A vector stays alone on its storage when only its count changes.
LEMMA AloneCounted ==
  ASSUME NEW m, NEW w, NEW q, NEW x, Alone(m, w, q, x), NEW y, NEW n \in Nat, y = [x EXCEPT !.count = n]
  PROVE  Alone(m, w, q, y) /\ y.count = n /\ y.storage = x.storage
<1>1. x \in VectorType
  BY DEF Alone
<1>2. y \in VectorType /\ y.count = n /\ y.storage = x.storage
  BY <1>1 DEF VectorType
<1> QED
  BY <1>2 DEF Alone

\* The others do not notice.
LEMMA OthersKeep ==
  ASSUME NEW m, NEW vs, State(m, vs), NEW v \in Vectors, NEW q, NEW x, Alone(m, vs[v], q, x),
         NEW u \in Vectors, u # v, vs[u].storage # None
  PROVE  /\ vs[u].storage \in Blocks /\ vs[u].storage # x.storage
         /\ q.heap[vs[u].storage].slots = m.heap[vs[u].storage].slots
<1>1. PICK a : a = vs[v].storage
  OBVIOUS
<1>2. PICK c \in Blocks : c = vs[u].storage
  BY DEF State
<1>3. u \in Holders(vs, c) /\ (a = c => v \in Holders(vs, c))
  BY <1>1, <1>2 DEF Holders
<1>4. m.heap[c].refs > 0 /\ m.heap[c].refs \in Nat /\ (a = c => m.heap[c].refs # 1)
  BY <1>3, HoldersFacts
<1>5. c # x.storage
  BY <1>1, <1>4 DEF Alone
<1>6. q.heap[c].slots = m.heap[c].slots
  <2>1. CASE c = a
    BY <1>1, <1>4, <1>5, <2>1, VectorAssumption DEF Alone
  <2>2. CASE c # a
    BY <1>1, <1>5, <2>2 DEF Alone
  <2> QED
    BY <2>1, <2>2
<1> QED
  BY <1>2, <1>5, <1>6

\* A vector that is alone on its storage replaces the one it was.
LEMMA AloneReplaces ==
  ASSUME NEW m, NEW vs, State(m, vs), NEW v \in Vectors, NEW q, NEW x, Alone(m, vs[v], q, x),
         Fits(q, x), x.count <= MaxCount
  PROVE  Replaces(m, vs, v, q, x)
<1>1. PICK w : w = vs[v]
  OBVIOUS
<1>2. q \in MemoryType /\ q.sound = TRUE /\ x \in VectorType /\ x.storage \in Blocks /\ x.storage # None
  BY VectorAssumption DEF Alone
<1>3. ASSUME NEW c \in Blocks
      PROVE  q.heap[c].refs = m.heap[c].refs - (IF vs[v].storage = c THEN 1 ELSE 0) + (IF x.storage = c THEN 1 ELSE 0)
  <2>1. m.heap[c].refs \in Nat /\ c # None
    BY MemoryFacts, VectorAssumption DEF State
  <2>2. CASE c = x.storage
    BY <1>1, <2>1, <2>2 DEF Alone
  <2>3. CASE c # x.storage /\ c = w.storage
    BY <1>1, <2>1, <2>3 DEF Alone
  <2>4. CASE c # x.storage /\ c # w.storage
    <3>1. q.heap[c] = m.heap[c]
      BY <1>1, <2>4 DEF Alone
    <3> QED
      BY <1>1, <2>1, <2>4, <3>1
  <2> QED
    BY <2>2, <2>3, <2>4
<1>4. \A u \in Vectors \ {v} : vs[u].storage # None =>
        /\ q.heap[vs[u].storage].slots = m.heap[vs[u].storage].slots
        /\ vs[u].storage = x.storage => vs[u].count = x.count
  BY OthersKeep
<1> QED
  BY <1>2, <1>3, <1>4 DEF Replaces

\* The first i items of a vector, in a new block.
Headed(m, w, b, capacity, i, head) ==
  /\ Housed(m, b, capacity, head) /\ head.sound = TRUE
  /\ \A k \in Slots(0, capacity) : head.heap[b].slots[k] = IF k < i THEN m.heap[w.storage].slots[k] ELSE Raw

\* A new block with the first i items in it.
LEMMA HeadFacts ==
  ASSUME NEW m, NEW w, Valid(m, w), NEW b \in Blocks, m.heap[b].refs = 0, NEW capacity \in Nat,
         NEW i \in Nat, i <= w.count, i <= capacity
  PROVE  Headed(m, w, b, capacity, i, Copy(Malloc(m, b, capacity), b, 0, w.storage, 0, i))
<1>1. PICK head : head = Copy(Malloc(m, b, capacity), b, 0, w.storage, 0, i)
  OBVIOUS
<1>a. PICK a : a = w.storage
  OBVIOUS
<1>b. PICK z \in Nat : z = 0
  OBVIOUS
<1>2. a = w.storage /\ z = 0 /\ z \in Nat
  BY <1>a, <1>b
<1>3. m \in MemoryType /\ m.sound = TRUE /\ w \in VectorType /\ w.count \in Nat
  BY DEF Valid, VectorType
<1>4. a = None => i = 0
  BY <1>2, <1>3 DEF Valid
<1>5. b # a
  <2>1. a # None => m.heap[a].refs > 0
    BY <1>2 DEF Valid
  <2> QED
    BY <2>1, VectorAssumption
<1>6. ASSUME a # None
      PROVE  a \in Blocks /\ \A k : k \in Int /\ 0 <= k /\ k < w.count =>
                                 k \in DOMAIN m.heap[a].slots /\ (trivial \/ m.heap[a].slots[k] # Raw)
  <2>1. /\ w.storage \in Blocks /\ w.count \in Nat /\ Slots(0, w.count) \subseteq DOMAIN m.heap[w.storage].slots
        /\ ~trivial => \A k \in DOMAIN m.heap[w.storage].slots : m.heap[w.storage].slots[k] # Raw <=> k < w.count
    BY <1>2, <1>6, StorageFacts
  <2> QED
    BY <1>2, <2>1, SlotsRange
<1>7. PICK new : new = Malloc(m, b, capacity)
  OBVIOUS
<1>8. /\ new \in MemoryType /\ new.sound = TRUE /\ new.heap[b].refs = 1
      /\ DOMAIN new.heap[b].slots = Slots(0, capacity)
      /\ \A k \in Slots(0, capacity) : new.heap[b].slots[k] = Raw
      /\ \A c \in Blocks \ {b} : new.heap[c] = m.heap[c]
  <2>1. /\ Housed(m, b, capacity, Malloc(m, b, capacity))
        /\ \A k \in Slots(0, capacity) : Malloc(m, b, capacity).heap[b].slots[k] = Raw
    BY <1>3, MallocFacts
  <2> QED
    BY <1>3, <1>7, <2>1 DEF Housed
<1>9. head = Copy(new, b, z, a, z, i)
  BY <1>1, <1>2, <1>7
<1>10. /\ Touched(new, head, b)
       /\ \A k \in Slots(0, capacity) : head.heap[b].slots[k] = IF k < i THEN m.heap[a].slots[k] ELSE Raw
  <2>1. MayCopy(new, b, z, a, z, i)
    <3> SUFFICES ASSUME i # 0 PROVE a \in Blocks /\ Empty(new, b, Slots(z, i)) /\ Live(new, a, Slots(z, i))
      BY DEF MayCopy
    <3>1. a # None /\ a \in Blocks /\ new.heap[a] = m.heap[a]
      BY <1>4, <1>5, <1>6, <1>8
    <3>2. Empty(new, b, Slots(z, i))
      BY <1>2, <1>3, <1>8, SlotsRange DEF Empty
    <3>3. Live(new, a, Slots(z, i))
      BY <1>2, <1>3, <1>6, <3>1, SlotsRange DEF Live
    <3> QED
      BY <3>1, <3>2, <3>3
  <2>a. Copied(new, b, z, a, z, i, Copy(new, b, z, a, z, i))
    BY <1>2, <1>8, <2>1, CopyFacts
  <2>2. /\ Touched(new, head, b)
        /\ \A k \in DOMAIN new.heap[b].slots :
             head.heap[b].slots[k] = IF k \in Slots(z, i) THEN new.heap[a].slots[k - z + z] ELSE new.heap[b].slots[k]
    BY <1>9, <2>a DEF Copied
  <2>3. ASSUME NEW k \in Slots(0, capacity)
        PROVE  head.heap[b].slots[k] = IF k < i THEN m.heap[a].slots[k] ELSE Raw
    <3>1. k \in Int /\ 0 <= k /\ k - z + z = k /\ (k \in Slots(z, i) <=> k < i)
      BY <1>2, SlotsRange
    <3>2. head.heap[b].slots[k] = IF k \in Slots(z, i) THEN new.heap[a].slots[k - z + z] ELSE new.heap[b].slots[k]
      BY <1>8, <2>2
    <3>3. k < i => new.heap[a] = m.heap[a]
      BY <1>4, <1>5, <1>6, <1>8, <3>1
    <3> QED
      BY <1>8, <3>1, <3>2, <3>3
  <2> QED
    BY <2>2, <2>3
<1> QED
  BY <1>1, <1>2, <1>3, <1>8, <1>10 DEF Touched, Housed, Headed

\* A vector that leaves its storage for a new block is alone there.
LEMMA LeaveFacts ==
  ASSUME NEW m, NEW w, Valid(m, w), NEW b \in Blocks, m.heap[b].refs = 0, NEW capacity,
         NEW tail, Housed(m, b, capacity, tail), NEW q, q = ReleaseStorage(tail, w), NEW x, x = [w EXCEPT !.storage = b]
  PROVE  Alone(m, w, q, x) /\ x.storage = b /\ x.count = w.count /\ q.heap[b] = tail.heap[b]
<1>1. PICK a : a = w.storage
  OBVIOUS
<1>2. m \in MemoryType /\ m.sound = TRUE /\ w \in VectorType /\ w.count \in Nat
  BY DEF Valid, VectorType
<1>3. b # a
  <2>1. a # None => m.heap[a].refs > 0
    BY <1>1 DEF Valid
  <2> QED
    BY <2>1, VectorAssumption
<1>4. a # None => a \in Blocks
  BY <1>1, <1>2 DEF VectorType
<1>5. tail \in MemoryType /\ tail.sound = TRUE /\ tail.heap[b].refs = 1 /\ \A c \in Blocks \ {b} : tail.heap[c] = m.heap[c]
  BY <1>2 DEF Housed
<1>6. Valid(tail, w)
  <2>1. a # None => tail.heap[a] = m.heap[a]
    BY <1>3, <1>4, <1>5
  <2> QED
    BY <1>1, <1>5, <2>1, ValidElsewhere
<1>7. Released(tail, w, q)
  BY <1>6, ReleaseFacts
<1>8. x \in VectorType /\ x.storage = b /\ x.count = w.count
  BY <1>2 DEF VectorType
<1>9. q.heap[b] = tail.heap[b]
  BY <1>1, <1>3, <1>7 DEF Released
<1>10. Alone(m, w, q, x)
  <2>1. q \in MemoryType /\ q.sound = TRUE /\ q.heap[b].refs = 1
    BY <1>5, <1>7, <1>9 DEF Released
  <2>2. a # None => /\ q.heap[a].refs = m.heap[a].refs - 1
                    /\ m.heap[a].refs > 1 => q.heap[a].slots = m.heap[a].slots
    BY <1>1, <1>3, <1>4, <1>5, <1>7 DEF Released
  <2>3. \A c \in Blocks \ {a, b} : q.heap[c] = m.heap[c]
    BY <1>1, <1>5, <1>7 DEF Released
  <2> QED
    BY <1>1, <1>2, <1>3, <1>8, <2>1, <2>2, <2>3 DEF Alone, VectorType
<1> QED
  BY <1>8, <1>9, <1>10

\* The items before i and from from on, in a new block.
Rehoused(m, w, b, capacity, i, to, from, r) ==
  /\ r.where = 0 /\ r.vector.storage = b /\ r.vector.count = w.count
  /\ Alone(m, w, r.memory, r.vector)
  /\ DOMAIN r.memory.heap[b].slots = Slots(0, capacity)
  /\ \A k \in Slots(0, capacity) :
       r.memory.heap[b].slots[k] = IF k \in Slots(to, w.count - from) THEN m.heap[w.storage].slots[k - to + from]
                                   ELSE IF k < i THEN m.heap[w.storage].slots[k] ELSE Raw

\* A vector that moves to a new block lets go of its old one and is alone on the new one.
LEMMA RehouseFacts ==
  ASSUME NEW m, NEW w, Valid(m, w), NEW b \in Blocks, m.heap[b].refs = 0, NEW capacity \in Nat,
         NEW i \in Nat, NEW to \in Nat, NEW from \in Nat, i <= from, i <= to, from <= w.count,
         to + (w.count - from) <= capacity
  PROVE  Rehoused(m, w, b, capacity, i, to, from, Rehouse(m, w, b, capacity, i, to, from))
<1>1. PICK a : a = w.storage
  OBVIOUS
<1>2. m \in MemoryType /\ m.sound = TRUE /\ w \in VectorType /\ w.count \in Nat
  BY DEF Valid, VectorType
<1>3. PICK n \in Nat : n = w.count - from
  BY <1>2
<1>4. a = None => n = 0
  BY <1>1, <1>2, <1>3 DEF Valid
<1>5. b # a
  <2>1. a # None => m.heap[a].refs > 0
    BY <1>1 DEF Valid
  <2> QED
    BY <2>1, VectorAssumption
<1>6. ASSUME a # None
      PROVE  a \in Blocks /\ \A k : k \in Int /\ 0 <= k /\ k < w.count =>
                                 k \in DOMAIN m.heap[a].slots /\ (trivial \/ m.heap[a].slots[k] # Raw)
  <2>1. /\ w.storage \in Blocks /\ w.count \in Nat /\ Slots(0, w.count) \subseteq DOMAIN m.heap[w.storage].slots
        /\ ~trivial => \A k \in DOMAIN m.heap[w.storage].slots : m.heap[w.storage].slots[k] # Raw <=> k < w.count
    BY <1>1, <1>6, StorageFacts
  <2> QED
    BY <1>1, <2>1, SlotsRange
<1>7. PICK head : head = Copy(Malloc(m, b, capacity), b, 0, w.storage, 0, i)
  OBVIOUS
<1>8. /\ Housed(m, b, capacity, head) /\ head.sound = TRUE
       /\ \A k \in Slots(0, capacity) : head.heap[b].slots[k] = IF k < i THEN m.heap[a].slots[k] ELSE Raw
  <2>1. i <= w.count /\ i <= capacity
    BY <1>2
  <2>2. Headed(m, w, b, capacity, i, Copy(Malloc(m, b, capacity), b, 0, w.storage, 0, i))
    BY <2>1, HeadFacts
  <2> QED
    BY <1>1, <1>7, <2>2 DEF Headed
<1>9. head \in MemoryType /\ head.sound = TRUE /\ head.heap[b].refs = 1
       /\ DOMAIN head.heap[b].slots = Slots(0, capacity) /\ \A c \in Blocks \ {b} : head.heap[c] = m.heap[c]
  BY <1>8 DEF Housed
<1>10. PICK tail : tail = Copy(head, b, to, a, from, n)
  OBVIOUS
<1>11. /\ Touched(head, tail, b)
       /\ \A k \in Slots(0, capacity) :
            tail.heap[b].slots[k] = IF k \in Slots(to, n) THEN m.heap[a].slots[k - to + from]
                                    ELSE IF k < i THEN m.heap[a].slots[k] ELSE Raw
  <2>1. MayCopy(head, b, to, a, from, n)
    <3> SUFFICES ASSUME n # 0 PROVE a \in Blocks /\ Empty(head, b, Slots(to, n)) /\ Live(head, a, Slots(from, n))
      BY DEF MayCopy
    <3>1. a # None /\ a \in Blocks /\ head.heap[a] = m.heap[a]
      BY <1>4, <1>5, <1>6, <1>9
    <3>2. Empty(head, b, Slots(to, n))
      <4> SUFFICES ASSUME NEW k \in Slots(to, n)
                   PROVE  k \in DOMAIN head.heap[b].slots /\ head.heap[b].slots[k] = Raw
        BY DEF Empty
      <4>1. k \in Int /\ to <= k /\ k < to + n
        BY SlotsRange
      <4>2. k \in Slots(0, capacity) /\ ~(k < i)
        BY <1>2, <1>3, <4>1, SlotsRange
      <4> QED
        BY <1>8, <1>9, <4>2
    <3>3. Live(head, a, Slots(from, n))
      <4> SUFFICES ASSUME NEW k \in Slots(from, n)
                   PROVE  k \in DOMAIN m.heap[a].slots /\ (trivial \/ m.heap[a].slots[k] # Raw)
        BY <3>1 DEF Live
      <4>1. k \in Int /\ 0 <= k /\ k < w.count
        BY <1>2, <1>3, SlotsRange
      <4> QED
        BY <1>6, <3>1, <4>1
    <3> QED
      BY <3>1, <3>2, <3>3
  <2>a. Copied(head, b, to, a, from, n, Copy(head, b, to, a, from, n))
    BY <1>9, <2>1, CopyFacts
  <2>2. /\ Touched(head, tail, b)
        /\ \A k \in DOMAIN head.heap[b].slots :
             tail.heap[b].slots[k] = IF k \in Slots(to, n) THEN head.heap[a].slots[k - to + from] ELSE head.heap[b].slots[k]
    BY <1>10, <2>a DEF Copied
  <2>3. ASSUME NEW k \in Slots(0, capacity)
        PROVE  tail.heap[b].slots[k] = IF k \in Slots(to, n) THEN m.heap[a].slots[k - to + from]
                                       ELSE IF k < i THEN m.heap[a].slots[k] ELSE Raw
    <3>1. tail.heap[b].slots[k] = IF k \in Slots(to, n) THEN head.heap[a].slots[k - to + from] ELSE head.heap[b].slots[k]
      BY <1>9, <2>2
    <3>2. k \in Slots(to, n) => head.heap[a] = m.heap[a]
      <4>1. k \in Slots(to, n) => n # 0
        BY SlotsRange
      <4> QED
        BY <1>4, <1>5, <1>6, <1>9, <4>1
    <3> QED
      BY <1>8, <3>1, <3>2
  <2> QED
    BY <2>2, <2>3
<1>12. Housed(m, b, capacity, tail)
  BY <1>2, <1>9, <1>11 DEF Touched, Housed
<1>13. PICK q, x : q = ReleaseStorage(tail, w) /\ x = [w EXCEPT !.storage = b]
  OBVIOUS
<1>14. Alone(m, w, q, x) /\ x.storage = b /\ x.count = w.count /\ q.heap[b] = tail.heap[b]
  BY <1>12, <1>13, LeaveFacts
<1>15. Rehouse(m, w, b, capacity, i, to, from) = Outcome(q, x, 0)
  <2>1. b # None
    BY VectorAssumption
  <2> QED
    BY <1>1, <1>3, <1>7, <1>10, <1>13, <2>1, Zenon DEF Rehouse
<1>16. PICK r : r = Outcome(q, x, 0)
  OBVIOUS
<1>17. r.memory = q /\ r.vector = x /\ r.where = 0
  BY <1>16 DEF Outcome
<1>18. Rehoused(m, w, b, capacity, i, to, from, r)
  BY <1>1, <1>3, <1>11, <1>12, <1>14, <1>17 DEF Rehoused, Housed
<1> QED
  BY <1>15, <1>16, <1>18
IsOutcome(r) == r = [memory |-> r.memory, vector |-> r.vector, where |-> r.where]

\* What malloc returns.
Free(m, b) == b = None \/ (b \in Blocks /\ m.heap[b].refs = 0)

\* A vector that may be written, with the items it had.
Edited(m, w, r) ==
  /\ IsOutcome(r) /\ r.where = 0 /\ Alone(m, w, r.memory, r.vector) /\ r.vector.count = w.count
  /\ DOMAIN r.memory.heap[r.vector.storage].slots = DOMAIN m.heap[w.storage].slots
  /\ \A k \in Slots(0, w.count) : r.memory.heap[r.vector.storage].slots[k] = m.heap[w.storage].slots[k]
  /\ ~trivial => \A k \in DOMAIN m.heap[w.storage].slots :
                    r.memory.heap[r.vector.storage].slots[k] # Raw <=> k < w.count

\* editArrayImpl makes the vector alone on its storage, with the same items, or aborts.
LEMMA EditArrayFacts ==
  ASSUME NEW m, NEW w, Valid(m, w), w.storage # None, NEW b, Free(m, b)
  PROVE  EditArray(m, w, b).where = Abort \/ Edited(m, w, EditArray(m, w, b))
<1>1. PICK a : a = w.storage
  OBVIOUS
<1>2. /\ a \in Blocks /\ w.count \in Nat /\ m.heap[a].refs \in Nat
      /\ CapacityOf(m, w) \in Nat /\ DOMAIN m.heap[a].slots = Slots(0, CapacityOf(m, w))
      /\ w.count <= CapacityOf(m, w)
      /\ ~trivial => \A k \in DOMAIN m.heap[a].slots : m.heap[a].slots[k] # Raw <=> k < w.count
  BY <1>1, StorageFacts
<1>3. m \in MemoryType /\ m.sound = TRUE /\ w \in VectorType
  BY DEF Valid
<1>4. PICK r : r = EditArray(m, w, b)
  OBVIOUS
<1>5. CASE m.heap[a].refs = 1
  <2>1. r = Outcome(m, w, 0)
    BY <1>1, <1>4, <1>5 DEF EditArray
  <2>2. r.memory = m /\ r.vector = w /\ r.where = 0
    BY <2>1 DEF Outcome
  <2>3. Alone(m, w, m, w)
    BY <1>1, <1>2, <1>3, <1>5 DEF Alone
  <2>4. Edited(m, w, r)
    BY <1>1, <1>2, <2>1, <2>2, <2>3 DEF Edited, IsOutcome, Outcome
  <2> QED
    BY <1>4, <2>4
<1>6. CASE m.heap[a].refs # 1 /\ b = None
  <2>1. r = Outcome(m, w, Abort)
    BY <1>1, <1>4, <1>6 DEF EditArray
  <2> QED
    BY <1>4, <2>1 DEF Outcome
<1>7. CASE m.heap[a].refs # 1 /\ b # None
  <2>1. b \in Blocks /\ m.heap[b].refs = 0
    BY <1>7 DEF Free
  <2>2. PICK capacity \in Nat : capacity = CapacityOf(m, w)
    BY <1>2
  <2>3. PICK n \in Nat : n = w.count
    BY <1>2
  <2>4. PICK c : c = Copy(Malloc(m, b, capacity), b, 0, w.storage, 0, n)
    OBVIOUS
  <2>5. n <= w.count /\ n <= capacity
    BY <1>2, <2>2, <2>3
  <2>6. Headed(m, w, b, capacity, n, Copy(Malloc(m, b, capacity), b, 0, w.storage, 0, n))
    BY <2>1, <2>5, HeadFacts
  <2>7. Headed(m, w, b, capacity, n, c)
    BY <2>4, <2>6
  <2>8. PICK q, x : q = ReleaseStorage(c, w) /\ x = [w EXCEPT !.storage = b]
    OBVIOUS
  <2>9. Alone(m, w, q, x) /\ x.storage = b /\ x.count = w.count /\ q.heap[b] = c.heap[b]
    <3>1. Housed(m, b, capacity, c)
      BY <2>7 DEF Headed
    <3> QED
      BY <2>1, <2>8, <3>1, LeaveFacts
  <2>10. r = Outcome(q, x, 0)
    BY <1>1, <1>4, <1>7, <2>2, <2>3, <2>4, <2>8, Zenon DEF EditArray
  <2>11. r.memory = q /\ r.vector = x /\ r.where = 0
    BY <2>10 DEF Outcome
  <2>12. /\ DOMAIN q.heap[b].slots = Slots(0, capacity)
         /\ \A k \in Slots(0, capacity) : q.heap[b].slots[k] = IF k < w.count THEN m.heap[a].slots[k] ELSE Raw
    <3>1. /\ DOMAIN c.heap[b].slots = Slots(0, capacity)
          /\ \A k \in Slots(0, capacity) : c.heap[b].slots[k] = IF k < n THEN m.heap[a].slots[k] ELSE Raw
      BY <1>1, <2>7 DEF Headed, Housed
    <3>2. q.heap[b] = c.heap[b]
      BY <2>9
    <3> QED
      BY <2>3, <3>1, <3>2
  <2>13. \A k \in Slots(0, w.count) : k < w.count /\ k \in Slots(0, capacity)
    BY <1>2, <2>2, <2>3, <2>5 DEF Slots
  <2>14. Edited(m, w, r)
    <3>1. IsOutcome(r)
      BY <2>10 DEF IsOutcome, Outcome
    <3> QED
      BY <1>1, <1>2, <2>2, <2>9, <2>11, <2>12, <2>13, <3>1 DEF Edited
  <2> QED
    BY <1>4, <2>14
<1> QED
  BY <1>5, <1>6, <1>7

\* A block of another capacity, for items that any bytes are.
Resized(m, w, capacity, r) ==
  /\ r.where = 0 /\ Alone(m, w, r.memory, r.vector) /\ r.vector.count = w.count
  /\ DOMAIN r.memory.heap[r.vector.storage].slots = Slots(0, capacity)
  /\ \A k \in DOMAIN m.heap[w.storage].slots :
       k \in Slots(0, capacity) => r.memory.heap[r.vector.storage].slots[k] = m.heap[w.storage].slots[k]

\* SharedBuffer::editResize makes the vector alone on a block of the asked size.
LEMMA EditResizeFacts ==
  ASSUME NEW m, NEW w, Valid(m, w), w.storage # None, NEW b, Free(m, b), NEW capacity \in Nat
  PROVE  \/ EditResize(m, w, capacity, b) = Outcome(m, w, NoMemory)
         \/ Resized(m, w, capacity, EditResize(m, w, capacity, b))
<1>1. PICK a : a = w.storage
  OBVIOUS
<1>2. a \in Blocks /\ m.heap[a].refs \in Nat
  BY <1>1, StorageFacts
<1>3. m \in MemoryType /\ m.sound = TRUE /\ w \in VectorType /\ m.heap[a].refs > 0
  BY <1>1 DEF Valid
<1>4. PICK r : r = EditResize(m, w, capacity, b)
  OBVIOUS
<1>5. PICK old : old = m.heap[a]
  OBVIOUS
<1>6. PICK s : s = [i \in Slots(0, capacity) |-> IF i \in DOMAIN old.slots THEN old.slots[i] ELSE Raw]
  OBVIOUS
<1>7. s \in SlotsType /\ DOMAIN s = Slots(0, capacity)
  <2>1. \A i \in DOMAIN old.slots : old.slots[i] \in Cells
    BY <1>2, <1>3, <1>5, MemoryFacts
  <2>2. s \in [Slots(0, capacity) -> Cells]
    BY <1>6, <2>1 DEF Cells
  <2> QED
    BY <2>2, SlotsShape
<1>8. CASE old.refs = 1 /\ (b # None \/ s = old.slots)
  <2>1. PICK q : q = [m EXCEPT !.heap[a].slots = s]
    OBVIOUS
  <2>2. q = Put(m, a, s)
    BY <1>3, <2>1 DEF Put, MemoryType
  <2>3. /\ Put(m, a, s) \in MemoryType /\ Put(m, a, s).sound = TRUE
        /\ Put(m, a, s).heap[a].refs = m.heap[a].refs /\ Put(m, a, s).heap[a].slots = s
        /\ \A c \in Blocks \ {a} : Put(m, a, s).heap[c] = m.heap[c]
    BY <1>2, <1>3, <1>7, PutFacts
  <2>4. Alone(m, w, q, w)
    BY <1>1, <1>2, <1>3, <1>5, <1>8, <2>2, <2>3 DEF Alone
  <2>5. r = Outcome(q, w, 0)
    BY <1>1, <1>4, <1>5, <1>6, <1>8, <2>1, Zenon DEF EditResize
  <2>6. r.memory = q /\ r.vector = w /\ r.where = 0
    BY <2>5 DEF Outcome
  <2>7. q.heap[a].slots = s
    BY <2>2, <2>3
  <2>8. Resized(m, w, capacity, r)
    BY <1>1, <1>5, <1>6, <1>7, <2>4, <2>6, <2>7 DEF Resized
  <2> QED
    BY <1>4, <2>8
<1>9. CASE ~(old.refs = 1 /\ (b # None \/ s = old.slots)) /\ b = None
  <2>1. r = Outcome(m, w, NoMemory)
    BY <1>1, <1>4, <1>5, <1>6, <1>9, Zenon DEF EditResize
  <2> QED
    BY <1>4, <2>1
<1>10. CASE ~(old.refs = 1 /\ (b # None \/ s = old.slots)) /\ b # None
  <2>1. b \in Blocks /\ m.heap[b].refs = 0 /\ b # a /\ old.refs > 1 /\ old.refs \in Nat
    BY <1>2, <1>3, <1>5, <1>10 DEF Free
  <2>2. PICK k : k = [refs |-> 1, slots |-> s]
    OBVIOUS
  <2>3. PICK l : l = [m.heap[a] EXCEPT !.refs = @ - 1]
    OBVIOUS
  <2>4. k \in Block /\ k.refs = 1 /\ k.slots = s
    BY <1>7, <2>2 DEF Block
  <2>5. l \in Block /\ l.refs = m.heap[a].refs - 1 /\ l.slots = m.heap[a].slots
    <3>1. PICK o \in Block : o = m.heap[a]
      BY <1>2, <1>3, MemoryFacts
    <3>2. o = [refs |-> o.refs, slots |-> o.slots]
      BY BlockFacts
    <3>3. l = [refs |-> o.refs - 1, slots |-> o.slots]
      BY <2>3, <3>1, <3>2
    <3>4. o.refs - 1 \in Nat /\ o.slots \in SlotsType
      BY <1>5, <2>1, <3>1 DEF Block
    <3> QED
      BY <3>1, <3>3, <3>4 DEF Block
  <2>6. PICK q : q = [m EXCEPT !.heap[b] = [refs |-> 1, slots |-> s], !.heap[a].refs = @ - 1]
    OBVIOUS
  <2>7. PICK h : h = [m.heap EXCEPT ![b] = k, ![a] = l]
    OBVIOUS
  <2>8. h \in [Blocks -> Block] /\ h[b] = k /\ h[a] = l /\ \A c \in Blocks \ {a, b} : h[c] = m.heap[c]
    BY <1>2, <1>3, <2>1, <2>4, <2>5, <2>7 DEF MemoryType
  <2>9. q = [heap |-> h, sound |-> TRUE]
    <3>1. h = [m.heap EXCEPT ![b] = [refs |-> 1, slots |-> s], ![a].refs = @ - 1]
      BY <1>2, <1>3, <2>1, <2>2, <2>3, <2>7 DEF MemoryType
    <3> QED
      BY <1>3, <2>6, <3>1 DEF MemoryType
  <2>10. q \in MemoryType /\ q.sound = TRUE /\ q.heap = h
    BY <2>8, <2>9 DEF MemoryType
  <2>11. PICK x : x = [w EXCEPT !.storage = b]
    OBVIOUS
  <2>12. x \in VectorType /\ x.storage = b /\ x.count = w.count
    BY <1>3, <2>1, <2>11 DEF VectorType
  <2>13. Alone(m, w, q, x)
    BY <1>1, <1>2, <2>1, <2>4, <2>5, <2>8, <2>10, <2>12 DEF Alone
  <2>14. r = Outcome(q, x, 0)
    BY <1>1, <1>4, <1>5, <1>6, <1>10, <2>6, <2>11, Zenon DEF EditResize
  <2>15. r.memory = q /\ r.vector = x /\ r.where = 0
    BY <2>14 DEF Outcome
  <2>16. Resized(m, w, capacity, r)
    BY <1>1, <1>5, <1>6, <1>7, <2>4, <2>8, <2>10, <2>12, <2>13, <2>15 DEF Resized
  <2> QED
    BY <1>4, <2>16
<1> QED
  BY <1>8, <1>9, <1>10

-----------------------------------------------------------------------------
(* Growing and shrinking. *)

\* The capacity _grow and _shrink choose holds the items.
LEMMA CapacityIsEnough ==
  ASSUME NEW size \in Nat
  PROVE  /\ GrownCapacity(size) \in Nat /\ size < GrownCapacity(size)
         /\ ShrunkCapacity(size) \in Nat /\ size <= ShrunkCapacity(size)
<1>1. PICK half : half = size \div 2
  OBVIOUS
<1>2. half \in Nat
  BY <1>1
<1>3. size + half + 1 \in Nat /\ size < size + half + 1 /\ 2 * size \in Nat /\ size <= 2 * size
  BY <1>2
<1>4. kMinVectorCapacity \in Nat
  BY VectorAssumption
<1> QED
  BY <1>1, <1>3, <1>4 DEF GrownCapacity, ShrunkCapacity, Larger

\* The vector gets its new count.
SizedTo(m, w, r, size, where, s) ==
  /\ IsOutcome(s) /\ Alone(m, w, s.memory, s.vector) /\ s.memory = r.memory
  /\ s.vector.storage = r.vector.storage /\ s.vector.count = size
  /\ \/ s.where = where
     \/ s.where = NoMemory /\ where \notin DOMAIN r.memory.heap[r.vector.storage].slots

\* Setting the count of a vector that is alone on its storage.
LEMMA SizedFacts ==
  ASSUME NEW m, NEW w, NEW r, r.where = 0, Alone(m, w, r.memory, r.vector), NEW size \in Nat, NEW where \in Nat
  PROVE  SizedTo(m, w, r, size, where, Sized(r, size, where))
<1>1. PICK x : x = [r.vector EXCEPT !.count = size]
  OBVIOUS
<1>2. Alone(m, w, r.memory, x) /\ x.count = size /\ x.storage = r.vector.storage
  BY <1>1, AloneCounted
<1>3. PICK l : l = IF where < CapacityOf(r.memory, x) THEN where ELSE NoMemory
  OBVIOUS
<1>4. PICK s : s = Outcome(r.memory, x, l)
  OBVIOUS
<1>5. Sized(r, size, where) = s
  BY <1>1, <1>3, <1>4 DEF Sized, ItemLocation
<1>6. s.memory = r.memory /\ s.vector = x /\ s.where = l
  BY <1>4 DEF Outcome
<1>7. l = where \/ (l = NoMemory /\ where \notin DOMAIN r.memory.heap[x.storage].slots)
  <2>1. r.memory \in MemoryType /\ x.storage \in Blocks /\ x.storage # None
    BY <1>2, VectorAssumption DEF Alone
  <2>2. PICK n \in Nat : n = CapacityOf(r.memory, x) /\ DOMAIN r.memory.heap[x.storage].slots = Slots(0, n)
    BY <2>1, MemoryFacts, ZenonT(60) DEF CapacityOf
  <2>3. where \in Slots(0, n) => where < n
    BY SlotsRange
  <2> QED
    BY <1>3, <2>2, <2>3
<1>8. SizedTo(m, w, r, size, where, s)
  BY <1>2, <1>4, <1>6, <1>7 DEF SizedTo, IsOutcome, Outcome
<1> QED
  BY <1>5, <1>8

\* A vector with room for n items at i.
Grown(m, w, i, n, q, x) ==
  /\ Alone(m, w, q, x) /\ x.count = w.count + n /\ Gapped(q, x, i, n)
  /\ \A k \in Slots(0, i) : q.heap[x.storage].slots[k] = m.heap[w.storage].slots[k]
  /\ \A k \in Slots(i, w.count - i) : q.heap[x.storage].slots[k + n] = m.heap[w.storage].slots[k]

\* What _grow may return.
GrowResult(m, w, i, n, r) ==
  \/ r.where = Abort
  \/ r.where = NoMemory /\ r.memory = m /\ r.vector = w
  \/ IsOutcome(r) /\ Grown(m, w, i, n, r.memory, r.vector) /\ (r.where = i \/ (r.where = NoMemory /\ n = 0))

\* In place, or in a copy of the same capacity.
LEMMA GrowInPlace ==
  ASSUME NEW m, NEW w, Valid(m, w), w.storage # None, NEW b, Free(m, b), NEW i \in Nat, NEW n \in Nat,
         i <= w.count, CapacityOf(m, w) >= w.count + n
  PROVE  GrowResult(m, w, i, n, Grow(m, w, i, n, b))
<1>1. PICK a : a = w.storage
  OBVIOUS
<1>2. PICK count \in Nat, capacity \in Nat : count = w.count /\ capacity = CapacityOf(m, w)
  BY StorageFacts
<1>3. /\ DOMAIN m.heap[a].slots = Slots(0, capacity) /\ count <= capacity
      /\ ~trivial => \A k \in DOMAIN m.heap[a].slots : m.heap[a].slots[k] # Raw <=> k < count
  BY <1>1, <1>2, StorageFacts
<1>4. PICK size \in Nat : size = w.count + n
  BY <1>2
<1>5. size = count + n /\ size <= capacity /\ i <= count
  BY <1>2, <1>4
<1>6. PICK e : e = EditArray(m, w, b)
  OBVIOUS
<1>7. e.where = Abort \/ Edited(m, w, e)
  BY <1>6, EditArrayFacts
<1>8. CASE e.where = Abort
  <2>1. Grow(m, w, i, n, b) = Sized(e, size, i)
    BY <1>2, <1>4, <1>6, <1>8 DEF Grow
  <2>2. Sized(e, size, i) = e
    BY <1>8 DEF Sized, Abort
  <2> QED
    BY <1>8, <2>1, <2>2 DEF GrowResult
<1>9. CASE Edited(m, w, e)
  <2>1. PICK store : store = e.vector.storage
    OBVIOUS
  <2>2. /\ Alone(m, w, e.memory, e.vector) /\ e.where = 0 /\ store \in Blocks /\ e.vector.count = count
        /\ e.memory \in MemoryType /\ e.memory.sound = TRUE
        /\ DOMAIN e.memory.heap[store].slots = Slots(0, capacity)
        /\ \A k \in Slots(0, count) : e.memory.heap[store].slots[k] = m.heap[a].slots[k]
        /\ ~trivial => \A k \in Slots(0, capacity) : e.memory.heap[store].slots[k] # Raw <=> k < count
    BY <1>1, <1>2, <1>3, <1>9, <2>1 DEF Edited, Alone
  <2>3. PICK o : o = IF i = count THEN e ELSE [e EXCEPT !.memory = Move(e.memory, store, i + n, i, count - i)]
    OBVIOUS
  <2>4. Grow(m, w, i, n, b) = Sized(o, size, i)
    <3>1. e.where # Abort
      BY <2>2 DEF Abort
    <3> QED
      BY <1>2, <1>4, <1>6, <2>1, <2>3, <3>1 DEF Grow
  <2>5. /\ Alone(m, w, o.memory, o.vector) /\ o.where = 0 /\ o.vector.storage = store
        /\ DOMAIN o.memory.heap[store].slots = Slots(0, capacity)
        /\ \A k \in Slots(0, capacity) :
             o.memory.heap[store].slots[k] =
               IF k \in Slots(i + n, count - i) THEN e.memory.heap[store].slots[k - (i + n) + i]
               ELSE IF k \in Slots(i, count - i) THEN Raw ELSE e.memory.heap[store].slots[k]
    <3>1. CASE i = count
      <4>1. \A k : k \notin Slots(i + n, count - i) /\ k \notin Slots(i, count - i)
        BY <3>1, SlotsRange
      <4> QED
        BY <2>1, <2>2, <2>3, <3>1, <4>1
    <3>2. CASE i # count
      <4>1. PICK to \in Nat, l \in Nat : to = i + n /\ l = count - i
        BY <1>2
      <4>2. Live(e.memory, store, Slots(i, l))
        <5> SUFFICES ASSUME NEW k \in Slots(i, l)
                     PROVE  k \in DOMAIN e.memory.heap[store].slots /\ (trivial \/ e.memory.heap[store].slots[k] # Raw)
          BY DEF Live
        <5>1. k \in Slots(0, capacity) /\ k < count
          BY <1>3, <4>1, SlotsRange
        <5> QED
          BY <2>2, <5>1
      <4>3. Empty(e.memory, store, Slots(to, l) \ Slots(i, l))
        <5> SUFFICES ASSUME NEW k \in Slots(to, l) \ Slots(i, l)
                     PROVE  k \in DOMAIN e.memory.heap[store].slots /\ (trivial \/ e.memory.heap[store].slots[k] = Raw)
          BY DEF Empty
        <5>1. k \in Slots(0, capacity) /\ ~(k < count)
          BY <1>5, <4>1 DEF Slots
        <5> QED
          BY <2>2, <5>1
      <4>4. PICK q : q = Move(e.memory, store, to, i, l)
        OBVIOUS
      <4>5. Moved(e.memory, store, to, i, l, q)
        <5>1. e.memory \in MemoryType /\ e.memory.sound = TRUE /\ store \in Blocks
          BY <2>2
        <5>2. Moved(e.memory, store, to, i, l, Move(e.memory, store, to, i, l))
          BY <4>2, <4>3, <5>1, MoveFacts
        <5> QED
          BY <4>4, <5>2
      <4>6. Alone(m, w, q, e.vector)
        BY <2>1, <2>2, <4>5, AloneTouched DEF Moved
      <4>7. o.memory = q /\ o.vector = e.vector /\ o.where = 0
        <5>1. e = [memory |-> e.memory, vector |-> e.vector, where |-> e.where]
          BY <1>6, <2>2 DEF EditArray, Outcome
        <5> QED
          BY <2>2, <2>3, <3>2, <4>1, <4>4, <5>1
      <4>8. DOMAIN q.heap[store].slots = Slots(0, capacity)
        BY <2>2, <4>5 DEF Moved, Touched
      <4> QED
        BY <2>1, <2>2, <4>1, <4>5, <4>6, <4>7, <4>8 DEF Moved
    <3> QED
      BY <3>1, <3>2
  <2>6. PICK s : s = Sized(o, size, i)
    OBVIOUS
  <2>7. SizedTo(m, w, o, size, i, s)
    BY <2>5, <2>6, SizedFacts
  <2>8. /\ IsOutcome(s) /\ Alone(m, w, s.memory, s.vector) /\ s.memory = o.memory /\ s.vector.storage = store /\ s.vector.count = size
        /\ s.where = i \/ (s.where = NoMemory /\ i \notin Slots(0, capacity))
    BY <2>5, <2>7 DEF SizedTo
  <2>9. s.where = i \/ (s.where = NoMemory /\ n = 0)
    <3>1. i \notin Slots(0, capacity) => ~(i < capacity)
      BY SlotsRange
    <3>2. n # 0 => i < capacity
      BY <1>2, <1>4
    <3> QED
      BY <2>8, <3>1, <3>2
  <2>10. Gapped(s.memory, s.vector, i, n)
    <3>1. Slots(0, size) \subseteq Slots(0, capacity)
      BY <1>2, <1>4, SlotsRange
    <3>2. ASSUME ~trivial, NEW k \in Slots(0, capacity)
          PROVE  o.memory.heap[store].slots[k] # Raw <=> k < size /\ k \notin Slots(i, n)
      <4>1. k \in Int /\ 0 <= k /\ k < capacity
        BY SlotsRange
      <4>2. \A j \in Slots(0, capacity) : e.memory.heap[store].slots[j] # Raw <=> j < count
        BY <2>2, <3>2
      <4>3. CASE k \in Slots(i + n, count - i)
        <5>1. i + n <= k /\ k < size /\ k - (i + n) + i \in Int /\ 0 <= k - (i + n) + i /\ k - (i + n) + i < count
          BY <1>2, <1>4, <4>1, <4>3, SlotsRange
        <5>2. k - (i + n) + i \in Slots(0, capacity) /\ k \notin Slots(i, n)
          BY <1>3, <5>1, SlotsRange
        <5> QED
          BY <2>5, <4>2, <4>3, <5>1, <5>2
      <4>4. CASE k \notin Slots(i + n, count - i) /\ k \in Slots(i, count - i)
        <5>1. k < size => k \in Slots(i, n)
          BY <1>2, <1>4, <4>1, <4>4, SlotsRange
        <5> QED
          BY <2>5, <4>4, <5>1
      <4>5. CASE k \notin Slots(i + n, count - i) /\ k \notin Slots(i, count - i)
        <5>1. k < count <=> k < i
          BY <1>2, <4>1, <4>5, SlotsRange
        <5>2. k < i <=> k < size /\ k \notin Slots(i, n)
          BY <1>2, <1>4, <4>1, <4>5, SlotsRange
        <5> QED
          BY <2>5, <4>2, <4>5, <5>1, <5>2
      <4> QED
        BY <4>3, <4>4, <4>5
    <3> QED
      BY <2>5, <2>8, <3>1, <3>2 DEF Gapped
  <2>11. ASSUME NEW k \in Slots(0, i) PROVE s.memory.heap[store].slots[k] = m.heap[a].slots[k]
    <3>1. k \in Slots(0, capacity) /\ k \in Slots(0, count) /\ k \notin Slots(i + n, count - i) /\ k \notin Slots(i, count - i)
      BY <1>5 DEF Slots
    <3> QED
      BY <2>2, <2>5, <2>8, <3>1
  <2>12. ASSUME NEW k \in Slots(i, count - i) PROVE s.memory.heap[store].slots[k + n] = m.heap[a].slots[k]
    <3>1. /\ k + n \in Slots(0, capacity) /\ k \in Slots(0, count) /\ k + n \in Slots(i + n, count - i)
          /\ (k + n) - (i + n) + i = k
      BY <1>5 DEF Slots
    <3> QED
      BY <2>2, <2>5, <2>8, <3>1
  <2>13. Grown(m, w, i, n, s.memory, s.vector)
    BY <1>1, <1>2, <1>4, <2>8, <2>10, <2>11, <2>12 DEF Grown
  <2> QED
    BY <2>4, <2>6, <2>8, <2>9, <2>13 DEF GrowResult
<1> QED
  BY <1>7, <1>8, <1>9

\* A block of the new capacity with a gap, and the count still to be set.
Opened(m, w, i, n, capacity, r) ==
  /\ r.where = 0 /\ Alone(m, w, r.memory, r.vector)
  /\ DOMAIN r.memory.heap[r.vector.storage].slots = Slots(0, capacity)
  /\ \A k \in Slots(0, i) : r.memory.heap[r.vector.storage].slots[k] = m.heap[w.storage].slots[k]
  /\ \A k \in Slots(i, w.count - i) : r.memory.heap[r.vector.storage].slots[k + n] = m.heap[w.storage].slots[k]
  /\ ~trivial => \A k \in Slots(0, capacity) :
                    r.memory.heap[r.vector.storage].slots[k] # Raw <=> k < w.count + n /\ k \notin Slots(i, n)

\* At the end of a block that realloc may take, or in a block of another size.
LEMMA GrowElsewhere ==
  ASSUME NEW m, NEW w, Valid(m, w), NEW b, Free(m, b), NEW i \in Nat, NEW n \in Nat,
         i <= w.count, CapacityOf(m, w) < w.count + n
  PROVE  GrowResult(m, w, i, n, Grow(m, w, i, n, b))
<1>1. PICK a : a = w.storage
  OBVIOUS
<1>2. PICK count \in Nat : count = w.count
  BY DEF Valid, VectorType
<1>3. PICK size \in Nat : size = w.count + n
  BY <1>2
<1>4. PICK capacity : capacity = GrownCapacity(size)
  OBVIOUS
<1>5. capacity \in Nat /\ size < capacity /\ size = count + n /\ i <= count
  BY <1>2, <1>3, <1>4, CapacityIsEnough
<1>6. CapacityOf(m, w) \in Nat
  <2>1. CASE w.storage = None
    BY <2>1 DEF CapacityOf
  <2>2. CASE w.storage # None
    BY <2>2, StorageFacts
  <2> QED
    BY <2>1, <2>2
<1>7. ~(CapacityOf(m, w) >= size)
  BY <1>3, <1>6
<1>8. PICK g : g = Grow(m, w, i, n, b)
  OBVIOUS
<1>9. ASSUME NEW r, g = Sized(r, size, i), r = Outcome(m, w, NoMemory) PROVE GrowResult(m, w, i, n, g)
  <2>1. r.where = NoMemory /\ r.memory = m /\ r.vector = w
    BY <1>9 DEF Outcome
  <2>2. Sized(r, size, i) = r
    BY <2>1 DEF Sized, NoMemory
  <2> QED
    BY <1>9, <2>1, <2>2 DEF GrowResult
<1>10. ASSUME NEW r, g = Sized(r, size, i), Opened(m, w, i, n, capacity, r) PROVE GrowResult(m, w, i, n, g)
  <2>a. /\ r.where = 0 /\ Alone(m, w, r.memory, r.vector)
        /\ DOMAIN r.memory.heap[r.vector.storage].slots = Slots(0, capacity)
        /\ \A k \in Slots(0, i) : r.memory.heap[r.vector.storage].slots[k] = m.heap[a].slots[k]
        /\ \A k \in Slots(i, count - i) : r.memory.heap[r.vector.storage].slots[k + n] = m.heap[a].slots[k]
        /\ ~trivial => \A k \in Slots(0, capacity) :
                          r.memory.heap[r.vector.storage].slots[k] # Raw <=> k < size /\ k \notin Slots(i, n)
    BY <1>1, <1>2, <1>3, <1>10 DEF Opened
  <2>1. SizedTo(m, w, r, size, i, g)
    BY <1>10, <2>a, SizedFacts
  <2>2. /\ IsOutcome(g) /\ Alone(m, w, g.memory, g.vector) /\ g.memory = r.memory
        /\ g.vector.storage = r.vector.storage /\ g.vector.count = size
        /\ g.where = i \/ (g.where = NoMemory /\ i \notin Slots(0, capacity))
    BY <2>a, <2>1 DEF SizedTo
  <2>3. i \in Slots(0, capacity) /\ Slots(0, size) \subseteq Slots(0, capacity)
    BY <1>5 DEF Slots
  <2>4. Gapped(g.memory, g.vector, i, n)
    BY <2>a, <2>2, <2>3 DEF Gapped
  <2>5. Grown(m, w, i, n, g.memory, g.vector)
    BY <1>1, <1>2, <1>5, <2>a, <2>2, <2>4 DEF Grown
  <2> QED
    BY <2>2, <2>3, <2>5 DEF GrowResult
<1>11. CASE trivial /\ w.storage # None /\ i = w.count
  <2>1. PICK r : r = EditResize(m, w, capacity, b)
    OBVIOUS
  <2>2. g = Sized(r, size, i)
    BY <1>3, <1>4, <1>7, <1>8, <1>11, <2>1, Zenon DEF Grow
  <2>3. r = Outcome(m, w, NoMemory) \/ Resized(m, w, capacity, r)
    BY <1>5, <1>11, <2>1, EditResizeFacts
  <2>4. ASSUME Resized(m, w, capacity, r) PROVE GrowResult(m, w, i, n, g)
    <3>1. /\ r.where = 0 /\ Alone(m, w, r.memory, r.vector)
          /\ DOMAIN r.memory.heap[r.vector.storage].slots = Slots(0, capacity)
          /\ \A k \in DOMAIN m.heap[a].slots :
               k \in Slots(0, capacity) => r.memory.heap[r.vector.storage].slots[k] = m.heap[a].slots[k]
      BY <1>1, <2>4 DEF Resized
    <3>2. Slots(0, w.count) \subseteq DOMAIN m.heap[a].slots
      BY <1>1, <1>11, StorageFacts
    <3>3. Slots(0, i) \subseteq Slots(0, w.count) /\ Slots(0, i) \subseteq Slots(0, capacity)
      BY <1>2, <1>5 DEF Slots
    <3>4. Slots(i, count - i) = {}
      BY <1>2, <1>11 DEF Slots
    <3>5. \A k \in Slots(0, i) : r.memory.heap[r.vector.storage].slots[k] = m.heap[a].slots[k]
      BY <3>1, <3>2, <3>3
    <3> QED
      <4>1. Opened(m, w, i, n, capacity, r)
        BY <1>1, <1>2, <1>11, <3>1, <3>4, <3>5 DEF Opened
      <4> QED
        BY <1>10, <2>2, <4>1
  <2> QED
    BY <1>8, <1>9, <2>2, <2>3, <2>4, Zenon
<1>12. CASE ~(trivial /\ w.storage # None /\ i = w.count)
  <2>1. PICK to \in Nat : to = i + n
    OBVIOUS
  <2>2. PICK r : r = Rehouse(m, w, b, capacity, i, to, i)
    OBVIOUS
  <2>3. g = Sized(r, size, i)
    BY <1>3, <1>4, <1>7, <1>8, <1>12, <2>1, <2>2, Zenon DEF Grow
  <2>4. CASE b = None
    <3>1. r = Outcome(m, w, NoMemory)
      BY <2>2, <2>4 DEF Rehouse
    <3> QED
      BY <1>8, <1>9, <2>3, <3>1, Zenon
  <2>5. CASE b # None
    <3>1. b \in Blocks /\ m.heap[b].refs = 0
      BY <2>5 DEF Free
    <3>2. i <= i /\ i <= to /\ i <= w.count /\ to + (w.count - i) <= capacity
      BY <1>2, <1>5, <2>1
    <3>3. Rehoused(m, w, b, capacity, i, to, i, Rehouse(m, w, b, capacity, i, to, i))
      BY <1>5, <3>1, <3>2, RehouseFacts
    <3>4. /\ r.where = 0 /\ r.vector.storage = b /\ Alone(m, w, r.memory, r.vector)
          /\ DOMAIN r.memory.heap[b].slots = Slots(0, capacity)
          /\ \A k \in Slots(0, capacity) :
               r.memory.heap[b].slots[k] = IF k \in Slots(to, count - i) THEN m.heap[a].slots[k - to + i]
                                           ELSE IF k < i THEN m.heap[a].slots[k] ELSE Raw
      BY <1>1, <1>2, <2>2, <3>3 DEF Rehoused
    <3>5. ASSUME NEW k \in Slots(0, i) PROVE r.memory.heap[b].slots[k] = m.heap[a].slots[k]
      <4>1. k \in Slots(0, capacity) /\ k \notin Slots(to, count - i) /\ k < i
        BY <1>5, <2>1 DEF Slots
      <4> QED
        BY <3>4, <4>1
    <3>6. ASSUME NEW k \in Slots(i, count - i) PROVE r.memory.heap[b].slots[k + n] = m.heap[a].slots[k]
      <4>1. k + n \in Slots(0, capacity) /\ k + n \in Slots(to, count - i) /\ (k + n) - to + i = k
        BY <1>5, <2>1 DEF Slots
      <4> QED
        BY <3>4, <4>1
    <3>7. ASSUME ~trivial, NEW k \in Slots(0, capacity)
          PROVE  r.memory.heap[b].slots[k] # Raw <=> k < size /\ k \notin Slots(i, n)
      <4>1. \A j : j \in Int /\ 0 <= j /\ j < count => m.heap[a].slots[j] # Raw
        <5>1. ASSUME NEW j \in Int, 0 <= j, j < count PROVE m.heap[a].slots[j] # Raw
          <6>1. w.storage # None
            BY <1>2, <5>1 DEF Valid
          <6>2. /\ Slots(0, w.count) \subseteq DOMAIN m.heap[a].slots
                /\ \A l \in DOMAIN m.heap[a].slots : m.heap[a].slots[l] # Raw <=> l < w.count
            BY <1>1, <3>7, <6>1, StorageFacts
          <6>3. j \in Slots(0, w.count)
            BY <1>2, <5>1 DEF Slots
          <6> QED
            BY <1>2, <5>1, <6>2, <6>3
        <5> QED
          BY <5>1
      <4>2. CASE k \in Slots(to, count - i)
        <5>1. k - to + i \in Int /\ 0 <= k - to + i /\ k - to + i < count /\ k < size /\ k \notin Slots(i, n)
          BY <1>5, <2>1, <4>2 DEF Slots
        <5> QED
          BY <3>4, <4>1, <4>2, <5>1
      <4>3. CASE k \notin Slots(to, count - i) /\ k < i
        <5>1. k \in Int /\ 0 <= k /\ k < count /\ k < size /\ k \notin Slots(i, n)
          BY <1>5, <2>1, <4>3 DEF Slots
        <5> QED
          BY <3>4, <4>1, <4>3, <5>1
      <4>4. CASE k \notin Slots(to, count - i) /\ ~(k < i)
        <5>1. ~(k < size /\ k \notin Slots(i, n))
          BY <1>5, <2>1, <4>4 DEF Slots
        <5> QED
          BY <3>4, <4>4, <5>1
      <4> QED
        BY <4>2, <4>3, <4>4
    <3> QED
      <4>1. Opened(m, w, i, n, capacity, r)
        BY <1>1, <1>2, <1>3, <3>4, <3>5, <3>6, <3>7 DEF Opened
      <4> QED
        BY <1>8, <1>10, <2>3, <4>1
  <2> QED
    BY <2>4, <2>5
<1> QED
  BY <1>8, <1>11, <1>12

\* _grow makes room, or there is none.
LEMMA GrowFacts ==
  ASSUME NEW m, NEW w, Valid(m, w), NEW b, Free(m, b), NEW i \in Nat, NEW n \in Nat, i <= w.count
  PROVE  GrowResult(m, w, i, n, Grow(m, w, i, n, b))
<1>1. w.count \in Nat /\ (w.storage = None => w.count = 0)
  BY DEF Valid, VectorType
<1>2. CapacityOf(m, w) \in Nat
  <2>1. CASE w.storage = None
    BY <2>1 DEF CapacityOf
  <2>2. CASE w.storage # None
    BY <2>2, StorageFacts
  <2> QED
    BY <2>1, <2>2
<1>3. CASE CapacityOf(m, w) < w.count + n
  BY <1>3, GrowElsewhere
<1>4. CASE ~(CapacityOf(m, w) < w.count + n) /\ w.storage # None
  <2>1. CapacityOf(m, w) >= w.count + n
    BY <1>1, <1>2, <1>4
  <2> QED
    BY <1>4, <2>1, GrowInPlace
<1>5. CASE ~(CapacityOf(m, w) < w.count + n) /\ w.storage = None
  <2>1. CapacityOf(m, w) = 0 /\ w.count = 0 /\ n = 0 /\ i = 0 /\ w.count + n = 0
    BY <1>1, <1>5 DEF CapacityOf
  <2>2. PICK e : e = Outcome(m, w, 0)
    OBVIOUS
  <2>3. EditArray(m, w, b) = e
    BY <1>5, <2>2 DEF EditArray
  <2>4. Grow(m, w, i, n, b) = Sized(e, 0, i)
    BY <2>1, <2>3 DEF Grow
  <2>5. e.memory = m /\ e.vector = w /\ e.where = 0
    BY <2>2 DEF Outcome
  <2>6. [w EXCEPT !.count = 0] = w
    BY <2>1 DEF Valid, VectorType
  <2>7. Sized(e, 0, i) = Outcome(m, w, NoMemory)
    BY <2>1, <2>5, <2>6 DEF Sized, ItemLocation
  <2> QED
    BY <2>4, <2>7 DEF GrowResult, Outcome
<1> QED
  BY <1>3, <1>4, <1>5

\* A vector without n items at i.
Shrunk(m, w, i, n, q, x) ==
  /\ Alone(m, w, q, x) /\ x.count = w.count - n /\ Gapped(q, x, 0, 0)
  /\ \A k \in Slots(0, i) : q.heap[x.storage].slots[k] = m.heap[w.storage].slots[k]
  /\ \A k \in Slots(i, w.count - n - i) : q.heap[x.storage].slots[k] = m.heap[w.storage].slots[k + n]

\* What _shrink may return.
ShrinkResult(m, w, i, n, r) ==
  \/ r.where = Abort
  \/ r.memory = m /\ r.vector = w
  \/ Shrunk(m, w, i, n, r.memory, r.vector)

\* A block without these items, and the count still to be set.
Closed(m, w, i, n, capacity, r) ==
  /\ r.where = 0 /\ Alone(m, w, r.memory, r.vector)
  /\ DOMAIN r.memory.heap[r.vector.storage].slots = Slots(0, capacity)
  /\ \A k \in Slots(0, i) : r.memory.heap[r.vector.storage].slots[k] = m.heap[w.storage].slots[k]
  /\ \A k \in Slots(i, w.count - n - i) : r.memory.heap[r.vector.storage].slots[k] = m.heap[w.storage].slots[k + n]
  /\ ~trivial => \A k \in Slots(0, capacity) :
                    r.memory.heap[r.vector.storage].slots[k] # Raw <=> k < w.count - n

\* A vector whose count follows the run that was taken out.
LEMMA ClosedFacts ==
  ASSUME NEW m, NEW w, NEW i \in Nat, NEW n, NEW capacity \in Nat, NEW size \in Nat, size = w.count - n,
         size <= capacity, NEW r, Closed(m, w, i, n, capacity, r)
  PROVE  ShrinkResult(m, w, i, n, Sized(r, size, i))
<1>1. PICK g : g = Sized(r, size, i)
  OBVIOUS
<1>2. /\ r.where = 0 /\ Alone(m, w, r.memory, r.vector)
      /\ DOMAIN r.memory.heap[r.vector.storage].slots = Slots(0, capacity)
      /\ \A k \in Slots(0, i) : r.memory.heap[r.vector.storage].slots[k] = m.heap[w.storage].slots[k]
      /\ \A k \in Slots(i, w.count - n - i) : r.memory.heap[r.vector.storage].slots[k] = m.heap[w.storage].slots[k + n]
      /\ ~trivial => \A k \in Slots(0, capacity) :
                        r.memory.heap[r.vector.storage].slots[k] # Raw <=> k < size
  BY DEF Closed
<1>3. SizedTo(m, w, r, size, i, g)
  BY <1>1, <1>2, SizedFacts
<1>4. /\ Alone(m, w, g.memory, g.vector) /\ g.memory = r.memory
      /\ g.vector.storage = r.vector.storage /\ g.vector.count = size
  BY <1>3 DEF SizedTo
<1>5. Gapped(g.memory, g.vector, 0, 0)
  <2>1. Slots(0, size) \subseteq Slots(0, capacity) /\ Slots(0, 0) = {}
    BY DEF Slots
  <2> QED
    BY <1>2, <1>4, <2>1 DEF Gapped
<1>6. Shrunk(m, w, i, n, g.memory, g.vector)
  BY <1>2, <1>4, <1>5 DEF Shrunk
<1> QED
  BY <1>1, <1>6 DEF ShrinkResult

\* In place, or in a copy of the same capacity: the items are destroyed, and
\* those behind them move down.
LEMMA ShrinkInPlace ==
  ASSUME NEW m, NEW w, Valid(m, w), w.storage # None, NEW b, Free(m, b), NEW i \in Nat, NEW n \in Nat,
         i + n <= w.count, w.count - n >= CapacityOf(m, w) \div 2
  PROVE  ShrinkResult(m, w, i, n, Shrink(m, w, i, n, b))
<1>1. PICK a : a = w.storage
  OBVIOUS
<1>2. PICK count \in Nat, capacity \in Nat : count = w.count /\ capacity = CapacityOf(m, w)
  BY StorageFacts
<1>3. /\ DOMAIN m.heap[a].slots = Slots(0, capacity) /\ count <= capacity
      /\ ~trivial => \A k \in DOMAIN m.heap[a].slots : m.heap[a].slots[k] # Raw <=> k < count
  BY <1>1, <1>2, StorageFacts
<1>4. PICK size \in Nat : size = w.count - n
  BY <1>2
<1>5. size = count - n /\ size <= capacity /\ i <= size /\ i + n <= count
  BY <1>2, <1>3, <1>4
<1>6. PICK e : e = EditArray(m, w, b)
  OBVIOUS
<1>7. e.where = Abort \/ Edited(m, w, e)
  BY <1>6, EditArrayFacts
<1>8. CASE e.where = Abort
  <2>1. Shrink(m, w, i, n, b) = e
    BY <1>4, <1>6, <1>8 DEF Shrink
  <2> QED
    BY <1>8, <2>1 DEF ShrinkResult
<1>9. CASE Edited(m, w, e)
  <2>1. PICK store : store = e.vector.storage
    OBVIOUS
  <2>2. /\ Alone(m, w, e.memory, e.vector) /\ e.where = 0 /\ store \in Blocks /\ e.vector.count = count
        /\ e.memory \in MemoryType /\ e.memory.sound = TRUE
        /\ DOMAIN e.memory.heap[store].slots = Slots(0, capacity)
        /\ \A k \in Slots(0, count) : e.memory.heap[store].slots[k] = m.heap[a].slots[k]
        /\ ~trivial => \A k \in Slots(0, capacity) : e.memory.heap[store].slots[k] # Raw <=> k < count
    BY <1>1, <1>2, <1>3, <1>9, <2>1 DEF Edited, Alone
  <2>3. PICK d : d = Destroy(e.memory, store, i, n)
    OBVIOUS
  <2>4. Filled(e.memory, store, i, n, Raw, d)
    <3>1. Live(e.memory, store, Slots(i, n))
      <4> SUFFICES ASSUME NEW k \in Slots(i, n)
                   PROVE  k \in DOMAIN e.memory.heap[store].slots /\ (trivial \/ e.memory.heap[store].slots[k] # Raw)
        BY DEF Live
      <4>1. k \in Slots(0, capacity) /\ k < count
        BY <1>3, <1>5 DEF Slots
      <4> QED
        BY <2>2, <4>1
    <3>2. e.memory \in MemoryType /\ e.memory.sound = TRUE /\ store \in Blocks
      BY <2>2
    <3>3. Filled(e.memory, store, i, n, Raw, Destroy(e.memory, store, i, n))
      BY <3>1, <3>2, DestroyFacts
    <3> QED
      BY <2>3, <3>3
  <2>5. /\ Alone(m, w, d, e.vector) /\ d \in MemoryType /\ d.sound = TRUE
        /\ DOMAIN d.heap[store].slots = Slots(0, capacity)
        /\ \A k \in Slots(0, capacity) :
             d.heap[store].slots[k] = IF k \in Slots(i, n) THEN Raw ELSE e.memory.heap[store].slots[k]
    BY <2>1, <2>2, <2>4, AloneTouched, ZenonT(60) DEF Filled, Touched
  <2>6. PICK from \in Nat, l \in Nat : from = i + n /\ l = size - i
    BY <1>5
  <2>7. PICK c : c = IF i = size THEN d ELSE Move(d, store, i, from, l)
    OBVIOUS
  <2>8. /\ Alone(m, w, c, e.vector) /\ DOMAIN c.heap[store].slots = Slots(0, capacity)
        /\ \A k \in Slots(0, capacity) :
             c.heap[store].slots[k] = IF k \in Slots(i, l) THEN d.heap[store].slots[k - i + from]
                                      ELSE IF k \in Slots(from, l) THEN Raw ELSE d.heap[store].slots[k]
    <3>1. CASE i = size
      <4>1. \A k : k \notin Slots(i, l) /\ k \notin Slots(from, l)
        BY <2>6, <3>1 DEF Slots
      <4> QED
        BY <2>5, <2>7, <3>1, <4>1
    <3>2. CASE i # size
      <4>1. Live(d, store, Slots(from, l))
        <5> SUFFICES ASSUME NEW k \in Slots(from, l)
                     PROVE  k \in DOMAIN d.heap[store].slots /\ (trivial \/ d.heap[store].slots[k] # Raw)
          BY DEF Live
        <5>1. k \in Slots(0, capacity) /\ k < count /\ k \notin Slots(i, n)
          BY <1>3, <1>5, <2>6 DEF Slots
        <5> QED
          BY <2>2, <2>5, <5>1
      <4>2. Empty(d, store, Slots(i, l) \ Slots(from, l))
        <5> SUFFICES ASSUME NEW k \in Slots(i, l) \ Slots(from, l)
                     PROVE  k \in DOMAIN d.heap[store].slots /\ (trivial \/ d.heap[store].slots[k] = Raw)
          BY DEF Empty
        <5>1. k \in Slots(0, capacity) /\ k \in Slots(i, n)
          BY <1>3, <1>5, <2>6 DEF Slots
        <5> QED
          BY <2>5, <5>1
      <4>3. Moved(d, store, i, from, l, c)
        <5>1. store \in Blocks /\ d \in MemoryType /\ d.sound = TRUE
          BY <2>2, <2>5
        <5>2. Moved(d, store, i, from, l, Move(d, store, i, from, l))
          BY <4>1, <4>2, <5>1, MoveFacts
        <5> QED
          BY <2>7, <3>2, <5>2
      <4>4. Alone(m, w, c, e.vector)
        BY <2>1, <2>5, <4>3, AloneTouched DEF Moved
      <4>5. DOMAIN c.heap[store].slots = Slots(0, capacity)
        BY <2>5, <4>3 DEF Moved, Touched
      <4> QED
        BY <2>5, <4>3, <4>4, <4>5 DEF Moved
    <3> QED
      BY <3>1, <3>2
  <2>9. PICK o : o = [e EXCEPT !.memory = c]
    OBVIOUS
  <2>10. Shrink(m, w, i, n, b) = Sized(o, size, i)
    <3>1. e.where # Abort
      BY <2>2 DEF Abort
    <3>2. Shrink(m, w, i, n, b) =
            Sized([e EXCEPT !.memory = IF i = size THEN Destroy(e.memory, e.vector.storage, i, n)
                                       ELSE Move(Destroy(e.memory, e.vector.storage, i, n), e.vector.storage,
                                                 i, i + n, size - i)], size, i)
      BY <1>4, <1>6, <3>1 DEF Shrink
    <3> QED
      BY <2>1, <2>3, <2>6, <2>7, <2>9, <3>2
  <2>11. o.memory = c /\ o.vector = e.vector /\ o.where = 0
    <3>1. e = [memory |-> e.memory, vector |-> e.vector, where |-> e.where]
      BY <1>6, <2>2 DEF EditArray, Outcome
    <3> QED
      BY <2>2, <2>9, <3>1
  <2>12. ASSUME NEW k \in Slots(0, i) PROVE c.heap[store].slots[k] = m.heap[a].slots[k]
    <3>1. k \in Slots(0, capacity) /\ k \in Slots(0, count) /\ k \notin Slots(i, l) /\ k \notin Slots(from, l) /\ k \notin Slots(i, n)
      BY <1>3, <1>5, <2>6 DEF Slots
    <3> QED
      BY <2>2, <2>5, <2>8, <3>1
  <2>13. ASSUME NEW k \in Slots(i, l) PROVE c.heap[store].slots[k] = m.heap[a].slots[k + n]
    <3>1. /\ k \in Slots(0, capacity) /\ k - i + from = k + n
          /\ k + n \in Slots(0, capacity) /\ k + n \in Slots(0, count) /\ k + n \notin Slots(i, n)
      <4>1. k \in Int /\ i <= k /\ k < i + l
        BY <2>13 DEF Slots
      <4>2. count <= capacity
        BY <1>3
      <4> QED
        BY <1>5, <2>6, <4>1, <4>2 DEF Slots
    <3>2. c.heap[store].slots[k] = d.heap[store].slots[k + n]
      BY <2>8, <2>13, <3>1
    <3>3. d.heap[store].slots[k + n] = e.memory.heap[store].slots[k + n]
      BY <2>5, <3>1
    <3>4. e.memory.heap[store].slots[k + n] = m.heap[a].slots[k + n]
      BY <2>2, <3>1
    <3> QED
      BY <3>2, <3>3, <3>4
  <2>14. ASSUME ~trivial, NEW k \in Slots(0, capacity) PROVE c.heap[store].slots[k] # Raw <=> k < size
    <3>1. \A j \in Slots(0, capacity) : e.memory.heap[store].slots[j] # Raw <=> j < count
      BY <2>2, <2>14
    <3>2. CASE k \in Slots(i, l)
      <4>1. /\ k - i + from \in Slots(0, capacity) /\ k - i + from < count /\ k - i + from \notin Slots(i, n) /\ k < size
        BY <1>3, <1>5, <2>6, <3>2 DEF Slots
      <4> QED
        BY <2>5, <2>8, <3>1, <3>2, <4>1
    <3>3. CASE k \notin Slots(i, l) /\ k \in Slots(from, l)
      <4>1. ~(k < size)
        BY <1>5, <2>6, <3>3 DEF Slots
      <4> QED
        BY <2>8, <3>3, <4>1
    <3>4. CASE k \notin Slots(i, l) /\ k \notin Slots(from, l)
      <4>1. k < size => k < i
        BY <1>5, <2>6, <3>4 DEF Slots
      <4>2. k < i => k < size /\ k < count /\ k \notin Slots(i, n)
        BY <1>5 DEF Slots
      <4>3. ~(k < i) => k \in Slots(i, n) \/ ~(k < count)
        BY <1>5, <2>6, <3>4 DEF Slots
      <4> QED
        BY <2>5, <2>8, <3>1, <3>4, <4>1, <4>2, <4>3
    <3> QED
      BY <3>2, <3>3, <3>4
  <2>15. Closed(m, w, i, n, capacity, o)
    <3>1. w.count - n - i = l /\ w.count - n = size
      BY <1>4, <2>6
    <3> QED
      BY <1>1, <2>1, <2>8, <2>11, <2>12, <2>13, <2>14, <3>1 DEF Closed
  <2> QED
    BY <1>4, <1>5, <2>10, <2>15, ClosedFacts
<1> QED
  BY <1>7, <1>8, <1>9

\* A prefix that realloc may cut off, or a block of another size.
LEMMA ShrinkElsewhere ==
  ASSUME NEW m, NEW w, Valid(m, w), w.storage # None, NEW b, Free(m, b), NEW i \in Nat, NEW n \in Nat,
         i + n <= w.count, ~(w.count - n >= CapacityOf(m, w) \div 2)
  PROVE  ShrinkResult(m, w, i, n, Shrink(m, w, i, n, b))
<1>1. PICK a : a = w.storage
  OBVIOUS
<1>2. PICK count \in Nat : count = w.count
  BY StorageFacts
<1>3. /\ Slots(0, count) \subseteq DOMAIN m.heap[a].slots
      /\ ~trivial => \A k \in DOMAIN m.heap[a].slots : m.heap[a].slots[k] # Raw <=> k < count
  BY <1>1, <1>2, StorageFacts
<1>4. PICK size \in Nat : size = w.count - n
  BY <1>2
<1>5. PICK capacity : capacity = ShrunkCapacity(size)
  OBVIOUS
<1>6. capacity \in Nat /\ size = count - n /\ size <= capacity /\ i <= size /\ i + n <= count
  BY <1>2, <1>4, <1>5, CapacityIsEnough
<1>7. PICK g : g = Shrink(m, w, i, n, b)
  OBVIOUS
<1>8. ASSUME NEW r, r = Outcome(m, w, NoMemory) PROVE ShrinkResult(m, w, i, n, Sized(r, size, i))
  <2>1. r.where = NoMemory /\ r.memory = m /\ r.vector = w
    BY <1>8 DEF Outcome
  <2>2. Sized(r, size, i) = r
    BY <2>1 DEF Sized, NoMemory
  <2> QED
    BY <2>1, <2>2 DEF ShrinkResult
<1>9. CASE trivial /\ i = size
  <2>1. PICK r : r = EditResize(m, w, capacity, b)
    OBVIOUS
  <2>2. g = Sized(r, size, i)
    BY <1>4, <1>5, <1>7, <1>9, <2>1, Zenon DEF Shrink
  <2>3. r = Outcome(m, w, NoMemory) \/ Resized(m, w, capacity, r)
    BY <1>6, <2>1, EditResizeFacts
  <2>4. ASSUME Resized(m, w, capacity, r) PROVE ShrinkResult(m, w, i, n, Sized(r, size, i))
    <3>1. /\ r.where = 0 /\ Alone(m, w, r.memory, r.vector)
          /\ DOMAIN r.memory.heap[r.vector.storage].slots = Slots(0, capacity)
          /\ \A k \in DOMAIN m.heap[a].slots :
               k \in Slots(0, capacity) => r.memory.heap[r.vector.storage].slots[k] = m.heap[a].slots[k]
      BY <1>1, <2>4 DEF Resized
    <3>2. Slots(0, i) \subseteq Slots(0, count) /\ Slots(0, i) \subseteq Slots(0, capacity) /\ Slots(i, w.count - n - i) = {}
      BY <1>2, <1>6, <1>9 DEF Slots
    <3>3. Closed(m, w, i, n, capacity, r)
      BY <1>1, <1>3, <1>9, <3>1, <3>2 DEF Closed
    <3> QED
      BY <1>4, <1>6, <3>3, ClosedFacts
  <2> QED
    BY <1>7, <1>8, <2>2, <2>3, <2>4, Zenon
<1>10. CASE ~(trivial /\ i = size)
  <2>1. PICK from \in Nat : from = i + n
    OBVIOUS
  <2>2. PICK r : r = Rehouse(m, w, b, capacity, i, i, from)
    OBVIOUS
  <2>3. g = Sized(r, size, i)
    BY <1>4, <1>5, <1>7, <1>10, <2>1, <2>2, Zenon DEF Shrink
  <2>4. CASE b = None
    <3>1. r = Outcome(m, w, NoMemory)
      BY <2>2, <2>4 DEF Rehouse
    <3> QED
      BY <1>7, <1>8, <2>3, <3>1, Zenon
  <2>5. CASE b # None
    <3>1. b \in Blocks /\ m.heap[b].refs = 0
      BY <2>5 DEF Free
    <3>2. i <= from /\ i <= i /\ from <= w.count /\ i + (w.count - from) <= capacity
      BY <1>2, <1>6, <2>1
    <3>3. Rehoused(m, w, b, capacity, i, i, from, Rehouse(m, w, b, capacity, i, i, from))
      BY <1>6, <3>1, <3>2, RehouseFacts
    <3>4. PICK l \in Nat : l = size - i /\ l = count - from
      BY <1>6, <2>1
    <3>5. /\ r.where = 0 /\ r.vector.storage = b /\ Alone(m, w, r.memory, r.vector)
          /\ DOMAIN r.memory.heap[b].slots = Slots(0, capacity)
          /\ \A k \in Slots(0, capacity) :
               r.memory.heap[b].slots[k] = IF k \in Slots(i, l) THEN m.heap[a].slots[k - i + from]
                                           ELSE IF k < i THEN m.heap[a].slots[k] ELSE Raw
      BY <1>1, <1>2, <2>2, <3>3, <3>4 DEF Rehoused
    <3>6. ASSUME NEW k \in Slots(0, i) PROVE r.memory.heap[b].slots[k] = m.heap[a].slots[k]
      <4>1. k \in Slots(0, capacity) /\ k \notin Slots(i, l) /\ k < i
        BY <1>6 DEF Slots
      <4> QED
        BY <3>5, <4>1
    <3>7. ASSUME NEW k \in Slots(i, l) PROVE r.memory.heap[b].slots[k] = m.heap[a].slots[k + n]
      <4>1. k \in Slots(0, capacity) /\ k - i + from = k + n
        BY <1>6, <2>1, <3>4 DEF Slots
      <4> QED
        BY <3>5, <3>7, <4>1
    <3>8. ASSUME ~trivial, NEW k \in Slots(0, capacity) PROVE r.memory.heap[b].slots[k] # Raw <=> k < size
      <4>1. \A j \in Slots(0, count) : m.heap[a].slots[j] # Raw
        <5>1. \A j \in Slots(0, count) : j < count
          BY DEF Slots
        <5> QED
          BY <1>3, <3>8, <5>1
      <4>2. CASE k \in Slots(i, l)
        <5>1. k - i + from \in Slots(0, count) /\ k < size
          BY <1>6, <2>1, <3>4, <4>2 DEF Slots
        <5> QED
          BY <3>5, <4>1, <4>2, <5>1
      <4>3. CASE k \notin Slots(i, l) /\ k < i
        <5>1. k \in Slots(0, count) /\ k < size
          BY <1>6, <4>3 DEF Slots
        <5> QED
          BY <3>5, <4>1, <4>3, <5>1
      <4>4. CASE k \notin Slots(i, l) /\ ~(k < i)
        <5>1. ~(k < size)
          BY <1>6, <3>4, <4>4 DEF Slots
        <5> QED
          BY <3>5, <4>4, <5>1
      <4> QED
        BY <4>2, <4>3, <4>4
    <3>9. Closed(m, w, i, n, capacity, r)
      <4>1. w.count - n - i = l /\ w.count - n = size
        BY <1>4, <3>4
      <4> QED
        BY <1>1, <3>5, <3>6, <3>7, <3>8, <4>1 DEF Closed
    <3> QED
      BY <1>4, <1>6, <1>7, <2>3, <3>9, ClosedFacts
  <2> QED
    BY <2>4, <2>5
<1> QED
  BY <1>9, <1>10

\* _shrink removes the items, or nothing happens.
LEMMA ShrinkFacts ==
  ASSUME NEW m, NEW w, Valid(m, w), NEW b, Free(m, b), NEW i \in Nat, NEW n \in Nat, i + n <= w.count
  PROVE  ShrinkResult(m, w, i, n, Shrink(m, w, i, n, b))
<1>1. CASE w.storage = None
  <2>1. Shrink(m, w, i, n, b) = Outcome(m, w, 0)
    BY <1>1 DEF Shrink
  <2> QED
    BY <2>1 DEF ShrinkResult, Outcome
<1>2. CASE w.storage # None
  BY <1>2, ShrinkInPlace, ShrinkElsewhere
<1> QED
  BY <1>1, <1>2

-----------------------------------------------------------------------------
(* Operations on one vector. *)

\* malloc gives a block that is free, or none.
LEMMA Allocated == ASSUME NEW b \in Allocation PROVE Free(Memory, b)
  BY DEF Allocation, Freed, Free

\* A call that ends with the vector alone on its storage.
LEMMA DoAlone ==
  ASSUME IInv, NEW v \in Vectors, NEW r, Do(v, r), Alone(Memory, vec[v], r.memory, r.vector),
         Fits(r.memory, r.vector), r.vector.count <= MaxCount
  PROVE  IInv' /\ Becomes(v, SeqOf(r.memory, r.vector))
<1>1. PICK q, x : q = r.memory /\ x = r.vector
  OBVIOUS
<1>2. Replaces(Memory, vec, v, q, x)
  BY <1>1, AloneReplaces DEF IInv
<1>3. q.heap = heap' /\ q.sound = sound' /\ [vec EXCEPT ![v] = x] = vec' /\ UNCHANGED trivial
  BY <1>1 DEF Do
<1> QED
  BY <1>1, <1>2, <1>3, ReplacesInv

\* A call that leaves memory and vector as they were.
LEMMA DoNothing ==
  ASSUME IInv, NEW v \in Vectors, NEW r, Do(v, r), r.memory = Memory, r.vector = vec[v]
  PROVE  IInv' /\ Step(v)
<1>1. State(Memory, vec)
  BY DEF IInv
<1>2. Memory.heap = heap' /\ Memory.sound = sound' /\ vec = vec' /\ UNCHANGED trivial
  BY <1>1 DEF Do, State
<1>3. IInv'
  BY <1>1, <1>2, StateIsNext
<1>4. Becomes(v, Sequence(v))
  BY <1>2, MemoryIs DEF Becomes, Sequence
<1> QED
  BY <1>3, <1>4 DEF Step, Promised

\* The gap may be written, and when it has been the vector is whole.
LEMMA GapIsEmpty ==
  ASSUME NEW m, NEW w, NEW i \in Nat, NEW n \in Nat, w.count \in Nat, i <= w.count, NEW q, NEW x, Grown(m, w, i, n, q, x)
  PROVE  Empty(q, x.storage, Slots(i, n))
<1>1. PICK count \in Nat : count = x.count /\ i + n <= count
  BY DEF Grown
<1>2. Slots(i, n) \subseteq Slots(0, count)
  BY <1>1 DEF Slots
<1> QED
  BY <1>1, <1>2 DEF Grown, Gapped, Empty

Fills(q, b, i, n, r) ==
  /\ Touched(q, r, b)
  /\ \A k \in DOMAIN q.heap[b].slots : k \notin Slots(i, n) => r.heap[b].slots[k] = q.heap[b].slots[k]
  /\ ~trivial => \A k \in Slots(i, n) : r.heap[b].slots[k] # Raw

\* Filling the gap that _grow leaves makes the vector fit its storage.
LEMMA GapFilled ==
  ASSUME NEW m, NEW w, NEW i \in Nat, NEW n \in Nat, w.count \in Nat, i <= w.count, NEW q, NEW x, Grown(m, w, i, n, q, x),
         NEW r, Fills(q, x.storage, i, n, r)
  PROVE  Alone(m, w, r, x) /\ Fits(r, x)
<1>1. PICK count \in Nat : count = x.count /\ i + n <= count
  BY DEF Grown
<1>2. Alone(m, w, r, x)
  BY AloneTouched DEF Grown, Fills
<1>3. DOMAIN r.heap[x.storage].slots = DOMAIN q.heap[x.storage].slots
  BY DEF Touched, Fills
<1>4. \A k \in Slots(i, n) : k < count
  BY <1>1 DEF Slots
<1>5. \A k : k \notin Slots(0, 0)
  BY DEF Slots
<1>6. Gapped(r, x, 0, 0)
  BY <1>1, <1>3, <1>4, <1>5 DEF Grown, Gapped, Fills
<1> QED
  BY <1>2, <1>6 DEF Fits

\* A vector that is alone on its storage and fits it is one an operation may find.
LEMMA AloneValid == ASSUME NEW m, NEW w, NEW q, NEW x, Alone(m, w, q, x), Fits(q, x) PROVE Valid(q, x)
<1>1. /\ q \in MemoryType /\ q.sound = TRUE
      /\ x \in VectorType /\ x.storage \in Blocks /\ q.heap[x.storage].refs = 1
  BY DEF Alone
<1>2. x.storage # None /\ q.heap[x.storage].refs > 0
  BY <1>1, VectorAssumption
<1> QED
  BY <1>1, <1>2 DEF Valid

\* The vector has become what it was with n items at place i.
LEMMA GrownSequence ==
  ASSUME NEW m, NEW w, Valid(m, w), NEW i \in Nat, NEW n \in Nat, i <= w.count, NEW q, NEW x, Grown(m, w, i, n, q, x),
         NEW p, Fills(q, x.storage, i, n, p)
  PROVE  Abstract!Inserted(SeqOf(m, w), SeqOf(p, x))
<1>1. PICK s, t : s = SeqOf(m, w) /\ t = SeqOf(p, x)
  OBVIOUS
<1>2. PICK count \in Nat : count = w.count
  BY DEF Valid, VectorType
<1>3. x.count = count + n /\ i \in 0..count
  BY <1>2 DEF Grown
<1>4. s \in Seq(Cells) /\ Len(s) = count /\ \A k \in 1..count : s[k] = m.heap[w.storage].slots[k - 1]
  BY <1>1, <1>2, SequenceType
<1>5. Valid(p, x)
  <2>1. w.count \in Nat
    BY <1>2
  <2>2. Alone(m, w, p, x) /\ Fits(p, x)
    BY <2>1, GapFilled
  <2> QED
    BY <2>2, AloneValid
<1>6. t \in Seq(Cells) /\ Len(t) = count + n /\ \A k \in 1..count + n : t[k] = p.heap[x.storage].slots[k - 1]
  <2>1. /\ SeqOf(p, x) \in Seq(Cells) /\ Len(SeqOf(p, x)) = x.count
        /\ \A k \in 1..x.count : SeqOf(p, x)[k] = p.heap[x.storage].slots[k - 1]
    BY <1>5, SequenceType
  <2> QED
    BY <1>1, <1>3, <2>1
<1>7. Slots(0, count + n) \subseteq DOMAIN q.heap[x.storage].slots
  BY <1>3 DEF Grown, Gapped
<1>8. ASSUME NEW k \in 1..i PROVE t[k] = s[k]
  <2>1. PICK j \in Nat : j = k - 1
    OBVIOUS
  <2>2. j \in Slots(0, i) /\ j \in Slots(0, count + n) /\ j \notin Slots(i, n) /\ k \in 1..count /\ k \in 1..count + n
    BY <1>3, <2>1 DEF Slots
  <2>3. p.heap[x.storage].slots[j] = q.heap[x.storage].slots[j]
    BY <1>7, <2>2 DEF Fills
  <2>4. q.heap[x.storage].slots[j] = m.heap[w.storage].slots[j]
    BY <2>2 DEF Grown
  <2> QED
    BY <1>4, <1>6, <2>1, <2>2, <2>3, <2>4
<1>9. ASSUME NEW k \in i + 1..count PROVE t[k + n] = s[k]
  <2>1. PICK j \in Nat, h \in Nat : j = k - 1 /\ h = j + n /\ h = k + n - 1
    BY <1>3
  <2>2. j \in Slots(i, count - i) /\ h \in Slots(0, count + n) /\ h \notin Slots(i, n)
        /\ k \in 1..count /\ k + n \in 1..count + n
    BY <1>3, <2>1 DEF Slots
  <2>3. p.heap[x.storage].slots[h] = q.heap[x.storage].slots[h]
    BY <1>7, <2>2 DEF Fills
  <2>4. q.heap[x.storage].slots[h] = m.heap[w.storage].slots[j]
    BY <1>2, <2>1, <2>2 DEF Grown
  <2>5. s[k] = m.heap[w.storage].slots[j] /\ t[k + n] = p.heap[x.storage].slots[h]
    BY <1>4, <1>6, <2>1, <2>2, SMTT(30)
  <2> QED
    BY <2>3, <2>4, <2>5
<1>10. Abstract!Inserted(s, t)
  BY <1>3, <1>4, <1>6, <1>8, <1>9, InsertedRun
<1> QED
  BY <1>1, <1>10

\* A call that makes room and makes p of the memory.
LEMMA InsertInv ==
  ASSUME IInv, NEW v \in Vectors, NEW b \in Allocation, NEW n \in 0..MaxCount - vec[v].count, NEW i \in 0..vec[v].count,
         NEW g, g = Grow(Memory, vec[v], i, n, b), NEW p,
         g.where = i /\ Grown(Memory, vec[v], i, n, g.memory, g.vector) => Fills(g.memory, g.vector.storage, i, n, p),
         NEW r, r = IF g.where \in {NoMemory, Abort} THEN g ELSE [g EXCEPT !.memory = p], Do(v, r)
  PROVE  IInv' /\ Step(v)
<1>1. PICK w : w = vec[v]
  OBVIOUS
<1>2. Valid(Memory, w)
  BY <1>1, ValidVector DEF IInv
<1>3. w.count \in Nat /\ i \in Nat /\ n \in Nat /\ i <= w.count /\ w.count + n <= MaxCount
  <2>1. w.count \in Nat
    BY <1>2 DEF Valid, VectorType
  <2> QED
    BY <1>1, <2>1, VectorAssumption
<1>4. GrowResult(Memory, w, i, n, g)
  BY <1>1, <1>2, <1>3, Allocated, GrowFacts
<1>5. CASE g.where = Abort
  BY <1>5 DEF Do
<1>6. CASE g.where = NoMemory /\ g.memory = Memory /\ g.vector = w
  BY <1>1, <1>6, DoNothing
<1>7. CASE IsOutcome(g) /\ Grown(Memory, w, i, n, g.memory, g.vector) /\ (g.where = i \/ (g.where = NoMemory /\ n = 0))
  <2>1. PICK q, x : q = g.memory /\ x = g.vector
    OBVIOUS
  <2>2. Grown(Memory, w, i, n, q, x) /\ x.count = w.count + n /\ x.storage \in Blocks /\ q \in MemoryType /\ q.sound = TRUE
    BY <1>7, <2>1 DEF Grown, Alone
  <2>3. CASE g.where = i
    <3>1. r.memory = p /\ r.vector = x
      <4>1. i # NoMemory /\ i # Abort
        BY <1>3 DEF NoMemory, Abort
      <4>2. r = [g EXCEPT !.memory = p]
        BY <2>3, <4>1
      <4> QED
        BY <1>7, <2>1, <4>2 DEF IsOutcome
    <3>2. Fills(q, x.storage, i, n, p)
      BY <1>1, <2>1, <2>2, <2>3
    <3>3. Alone(Memory, w, p, x) /\ Fits(p, x)
      BY <1>3, <2>2, <3>2, GapFilled
    <3>4. IInv' /\ Becomes(v, SeqOf(p, x))
      BY <1>1, <1>3, <2>2, <3>1, <3>3, DoAlone
    <3>5. Abstract!Inserted(Sequence(v), SeqOf(p, x))
      <4>1. Abstract!Inserted(SeqOf(Memory, w), SeqOf(p, x))
        BY <1>2, <1>3, <2>2, <3>2, GrownSequence
      <4> QED
        BY <1>1, <4>1, SequenceIs
    <3> QED
      BY <3>4, <3>5 DEF Step, Promised
  <2>4. CASE g.where = NoMemory /\ n = 0
    <3>1. r = g
      BY <2>4
    <3>2. Fills(q, x.storage, i, n, q)
      <4>1. Slots(i, n) = {}
        BY <1>3, <2>4 DEF Slots
      <4> QED
        BY <2>2, <4>1 DEF Touched, Fills
    <3>3. Alone(Memory, w, q, x) /\ Fits(q, x)
      BY <1>3, <2>2, <3>2, GapFilled
    <3>4. IInv' /\ Becomes(v, SeqOf(q, x))
      BY <1>1, <1>3, <2>1, <2>2, <3>1, <3>3, DoAlone
    <3>5. Abstract!Inserted(Sequence(v), SeqOf(q, x))
      <4>1. Abstract!Inserted(SeqOf(Memory, w), SeqOf(q, x))
        BY <1>2, <1>3, <2>2, <3>2, GrownSequence
      <4> QED
        BY <1>1, <4>1, SequenceIs
    <3> QED
      BY <3>4, <3>5 DEF Step, Promised
  <2> QED
    BY <1>7, <2>3, <2>4
<1> QED
  BY <1>4, <1>5, <1>6, <1>7 DEF GrowResult

\* insertAt puts a run of equal items in.
LEMMA InsertItemsInv ==
  ASSUME IInv, NEW v \in Vectors, NEW n \in 0..MaxCount - vec[v].count, NEW i \in 0..vec[v].count,
         InsertItem(v, i, n) \/ InsertDefault(v, i, n)
  PROVE  IInv' /\ Step(v)
<1>1. PICK b \in Allocation :
        \/ \E item \in Items :
             LET splat(m, s) == Splat(m, s, i, n, item)
             IN  Do(v, Fill(Grow(Memory, vec[v], i, n, b), splat))
        \/ LET construct(m, s) == Construct(m, s, i, n)
           IN  Do(v, Fill(Grow(Memory, vec[v], i, n, b), construct))
  BY DEF InsertItem, InsertDefault
<1>2. i \in Nat /\ n \in Nat /\ vec[v].count \in Nat /\ i <= vec[v].count
  <2>1. vec[v].count \in Nat
    BY VectorAssumption DEF IInv, State
  <2> QED
    BY <2>1, VectorAssumption
<1>3. PICK g : g = Grow(Memory, vec[v], i, n, b)
  OBVIOUS
<1>4. ASSUME NEW item \in Cells, trivial \/ item # Raw, Grown(Memory, vec[v], i, n, g.memory, g.vector)
      PROVE  Fills(g.memory, g.vector.storage, i, n, Splat(g.memory, g.vector.storage, i, n, item))
  <2>1. PICK q, c : q = g.memory /\ c = g.vector.storage
    OBVIOUS
  <2>2. c \in Blocks /\ q \in MemoryType /\ q.sound = TRUE
    BY <1>4, <2>1 DEF Grown, Alone
  <2>3. Empty(q, c, Slots(i, n))
    BY <1>2, <1>4, <2>1, GapIsEmpty
  <2>4. Filled(q, c, i, n, item, Splat(q, c, i, n, item))
    BY <1>2, <2>2, <2>3, SplatFacts
  <2>5. Slots(i, n) \subseteq DOMAIN q.heap[c].slots
    BY <2>3 DEF Empty
  <2> QED
    BY <1>4, <2>1, <2>4, <2>5 DEF Filled, Fills
<1>5. ASSUME trivial, Grown(Memory, vec[v], i, n, g.memory, g.vector)
      PROVE  Fills(g.memory, g.vector.storage, i, n, g.memory)
  BY <1>5 DEF Grown, Alone, Fills, Touched
<1>6. ASSUME NEW item \in Items, Do(v, IF g.where \in {NoMemory, Abort} THEN g
                                     ELSE [g EXCEPT !.memory = Splat(g.memory, g.vector.storage, i, n, item)])
      PROVE  IInv' /\ Step(v)
  <2>1. item \in Cells /\ item # Raw
    BY VectorAssumption DEF Cells
  <2>2. PICK p : p = Splat(g.memory, g.vector.storage, i, n, item)
    OBVIOUS
  <2>3. Grown(Memory, vec[v], i, n, g.memory, g.vector) => Fills(g.memory, g.vector.storage, i, n, p)
    BY <1>4, <2>1, <2>2
  <2>4. PICK r : r = IF g.where \in {NoMemory, Abort} THEN g ELSE [g EXCEPT !.memory = p]
    OBVIOUS
  <2>5. Do(v, r)
    BY <1>6, <2>2, <2>4
  <2> QED
    BY <1>3, <2>3, <2>4, <2>5, InsertInv
<1>7. ASSUME Do(v, IF g.where \in {NoMemory, Abort} THEN g
                   ELSE [g EXCEPT !.memory = Construct(g.memory, g.vector.storage, i, n)])
      PROVE  IInv' /\ Step(v)
  <2>1. PICK p : p = Construct(g.memory, g.vector.storage, i, n)
    OBVIOUS
  <2>2. ASSUME Grown(Memory, vec[v], i, n, g.memory, g.vector) PROVE Fills(g.memory, g.vector.storage, i, n, p)
    <3>1. CASE trivial
      BY <1>5, <2>1, <2>2, <3>1 DEF Construct
    <3>2. CASE ~trivial
      <4>1. Default \in Cells /\ Default # Raw
        BY VectorAssumption DEF Cells
      <4> QED
        BY <1>4, <2>1, <2>2, <3>2, <4>1 DEF Construct
    <3> QED
      BY <3>1, <3>2
  <2>3. PICK r : r = IF g.where \in {NoMemory, Abort} THEN g ELSE [g EXCEPT !.memory = p]
    OBVIOUS
  <2>4. Do(v, r)
    BY <1>7, <2>1, <2>3
  <2> QED
    BY <1>3, <2>2, <2>3, <2>4, InsertInv
<1> QED
  BY <1>1, <1>3, <1>6, <1>7 DEF Fill

LEMMA InsertAtInv == ASSUME IInv, NEW v \in Vectors, InsertAt(v) PROVE IInv' /\ Step(v)
<1>1. PICK n \in 0..MaxCount - vec[v].count, i \in 0..vec[v].count : InsertItem(v, i, n) \/ InsertDefault(v, i, n)
  BY DEF InsertAt
<1> QED
  BY <1>1, InsertItemsInv

\* push and add put one item in behind the last.
LEMMA PushInv == ASSUME IInv, NEW v \in Vectors, Push(v) PROVE IInv' /\ Step(v)
<1>1. vec[v].count \in Nat /\ MaxCount \in Nat
  BY VectorAssumption DEF IInv, State
<1>2. PICK n, i : n = 1 /\ i = vec[v].count
  OBVIOUS
<1>3. n \in 0..MaxCount - vec[v].count /\ i \in 0..vec[v].count /\ (InsertItem(v, i, n) \/ InsertDefault(v, i, n))
  BY <1>1, <1>2 DEF Push
<1> QED
  BY <1>3, InsertItemsInv

\* A call of vector v leaves the storage of another vector as it was.
LEMMA OtherStorage ==
  ASSUME IInv, NEW v \in Vectors, NEW q, NEW x, Alone(Memory, vec[v], q, x),
         NEW u \in Vectors, u # v, NEW a, a = vec[u].storage, a # None
  PROVE  a \in Blocks /\ q.heap[a].slots = Memory.heap[a].slots
<1>1. PICK m, vs : m = Memory /\ vs = vec
  OBVIOUS
<1>2. State(m, vs) /\ Alone(m, vs[v], q, x) /\ vs[u].storage # None
  BY <1>1 DEF IInv
<1>3. vs[u].storage \in Blocks /\ q.heap[vs[u].storage].slots = m.heap[vs[u].storage].slots
  BY <1>2, OthersKeep
<1> QED
  BY <1>1, <1>3

\* insertVectorAt puts the items of another vector in.
LEMMA InsertVectorAtInv == ASSUME IInv, NEW v \in Vectors, NEW u \in Vectors, InsertVectorAt(v, u) PROVE IInv' /\ Step(v)
<1>1. PICK b \in Allocation, i \in 0..vec[v].count :
        LET copy(m, s) == Copy(m, s, i, vec[u].storage, 0, vec[u].count)
        IN  Do(v, Fill(Grow(Memory, vec[v], i, vec[u].count, b), copy))
  BY DEF InsertVectorAt
<1>2. PICK n \in Nat : n = vec[u].count
  BY VectorAssumption DEF IInv, State
<1>3. u # v /\ vec[v].count + n <= MaxCount /\ vec[v].count \in Nat
  <2>1. vec[v].count \in Nat
    BY VectorAssumption DEF IInv, State
  <2>2. u # v /\ vec[v].count + vec[u].count <= MaxCount
    BY DEF InsertVectorAt
  <2> QED
    BY <1>2, <2>1, <2>2
<1>4. i \in Nat /\ i <= vec[v].count /\ n \in 0..MaxCount - vec[v].count
  BY <1>3, VectorAssumption
<1>5. PICK g : g = Grow(Memory, vec[v], i, n, b)
  OBVIOUS
<1>6. PICK p : p = Copy(g.memory, g.vector.storage, i, vec[u].storage, 0, n)
  OBVIOUS
<1>7. ASSUME Grown(Memory, vec[v], i, n, g.memory, g.vector) PROVE Fills(g.memory, g.vector.storage, i, n, p)
  <2>1. PICK q, c, a : q = g.memory /\ c = g.vector.storage /\ a = vec[u].storage
    OBVIOUS
  <2>2. c \in Blocks /\ q \in MemoryType /\ q.sound = TRUE /\ Alone(Memory, vec[v], q, g.vector)
    BY <1>7, <2>1 DEF Grown, Alone
  <2>3. Empty(q, c, Slots(i, n))
    BY <1>3, <1>4, <1>7, <2>1, GapIsEmpty
  <2>4. ASSUME n # 0 PROVE a \in Blocks /\ Live(q, a, Slots(0, n))
    <3>1. Valid(Memory, vec[u])
      BY ValidVector DEF IInv
    <3>2. a # None
      <4>1. vec[u].storage = None => vec[u].count = 0
        BY DEF IInv, State
      <4> QED
        BY <1>2, <2>1, <2>4, <4>1
    <3>3. a \in Blocks /\ q.heap[a].slots = Memory.heap[a].slots
      BY <1>3, <2>1, <2>2, <3>2, OtherStorage, ZenonT(60)
    <3>4. /\ Slots(0, n) \subseteq DOMAIN Memory.heap[a].slots
          /\ ~trivial => \A k \in DOMAIN Memory.heap[a].slots : Memory.heap[a].slots[k] # Raw <=> k < n
      BY <1>2, <2>1, <3>1, <3>2, StorageFacts
    <3>5. \A k \in Slots(0, n) : k < n
      BY DEF Slots
    <3> QED
      BY <3>3, <3>4, <3>5 DEF Live
  <2>5. PICK z \in Nat : z = 0
    OBVIOUS
  <2>6. MayCopy(q, c, i, a, z, n)
    BY <2>3, <2>4, <2>5 DEF MayCopy
  <2>7. Copied(q, c, i, a, z, n, Copy(q, c, i, a, z, n))
    BY <1>4, <2>2, <2>6, CopyFacts
  <2>8. Copied(q, c, i, a, z, n, p)
    BY <1>6, <2>1, <2>5, <2>7
  <2>9. ASSUME ~trivial, NEW k \in Slots(i, n) PROVE p.heap[c].slots[k] # Raw
    <3>1. n # 0 /\ k - i + z \in Slots(0, n)
      BY <1>4, <2>5 DEF Slots
    <3>2. q.heap[a].slots[k - i + z] # Raw
      BY <2>4, <2>9, <3>1 DEF Live
    <3>3. k \in DOMAIN q.heap[c].slots
      BY <2>3 DEF Empty
    <3> QED
      BY <2>8, <3>2, <3>3 DEF Copied
  <2> QED
    BY <2>1, <2>8, <2>9 DEF Copied, Fills
<1>8. PICK r : r = IF g.where \in {NoMemory, Abort} THEN g ELSE [g EXCEPT !.memory = p]
  OBVIOUS
<1>9. Do(v, r)
  BY <1>1, <1>2, <1>5, <1>6, <1>8 DEF Fill
<1> QED
  BY <1>4, <1>5, <1>7, <1>8, <1>9, InsertInv

\* What _shrink leaves is what the vector held, with a run taken out.
LEMMA ShrunkSequence ==
  ASSUME NEW m, NEW w, Valid(m, w), NEW i \in Nat, NEW n \in Nat, i + n <= w.count, NEW q, NEW x, Shrunk(m, w, i, n, q, x)
  PROVE  Abstract!Removed(SeqOf(m, w), SeqOf(q, x))
<1>1. PICK s, t : s = SeqOf(m, w) /\ t = SeqOf(q, x)
  OBVIOUS
<1>2. PICK count \in Nat : count = w.count - n /\ w.count = count + n
  BY DEF Valid, VectorType
<1>3. x.count = count /\ i \in 0..count
  BY <1>2 DEF Shrunk
<1>4. /\ s \in Seq(Cells) /\ Len(s) = count + n
      /\ \A k \in 1..count + n : s[k] = m.heap[w.storage].slots[k - 1]
  BY <1>1, <1>2, SequenceType
<1>5. Valid(q, x)
  BY AloneValid DEF Shrunk, Fits
<1>6. t \in Seq(Cells) /\ Len(t) = count /\ \A k \in 1..count : t[k] = q.heap[x.storage].slots[k - 1]
  BY <1>1, <1>3, <1>5, SequenceType
<1>7. ASSUME NEW k \in 1..i PROVE s[k] = t[k]
  <2>1. PICK j \in Nat : j = k - 1
    OBVIOUS
  <2>2. j \in Slots(0, i) /\ k \in 1..count /\ k \in 1..count + n
    BY <1>3, <2>1 DEF Slots
  <2>3. q.heap[x.storage].slots[j] = m.heap[w.storage].slots[j]
    BY <2>2 DEF Shrunk
  <2> QED
    BY <1>4, <1>6, <2>1, <2>2, <2>3
<1>8. ASSUME NEW k \in i + 1..count PROVE s[k + n] = t[k]
  <2>1. PICK j \in Nat, h \in Nat : j = k - 1 /\ h = j + n /\ h = k + n - 1
    BY <1>3
  <2>2. j \in Slots(i, w.count - n - i) /\ k \in 1..count /\ k + n \in 1..count + n
    BY <1>2, <1>3, <2>1 DEF Slots
  <2>3. q.heap[x.storage].slots[j] = m.heap[w.storage].slots[h]
    <3>1. q.heap[x.storage].slots[j] = m.heap[w.storage].slots[j + n]
      BY <2>2 DEF Shrunk
    <3> QED
      BY <2>1, <3>1
  <2>4. t[k] = q.heap[x.storage].slots[j] /\ s[k + n] = m.heap[w.storage].slots[h]
    <3>1. PICK c \in 1..count + n : c = k + n /\ h = c - 1
      BY <2>1, <2>2
    <3>2. s[c] = m.heap[w.storage].slots[h]
      BY <1>4, <3>1
    <3>3. t[k] = q.heap[x.storage].slots[j]
      BY <1>6, <2>1, <2>2
    <3> QED
      BY <3>1, <3>2, <3>3
  <2> QED
    BY <2>3, <2>4
<1>9. Abstract!Inserted(t, s)
  <2>1. /\ s \in Seq(Cells) /\ t \in Seq(Cells) /\ Len(s) = Len(t) + n /\ i \in 0..Len(t)
        /\ (\A k \in 1..i : s[k] = t[k]) /\ (\A k \in i + 1..Len(t) : s[k + n] = t[k])
    BY <1>3, <1>4, <1>6, <1>7, <1>8
  <2> QED
    BY <2>1, InsertedRun
<1> QED
  BY <1>1, <1>9 DEF Abstract!Removed

\* A call that removes items.
LEMMA ShrinkInv ==
  ASSUME IInv, NEW v \in Vectors, NEW b \in Allocation, NEW i \in Nat, NEW n \in Nat, i + n <= vec[v].count,
         NEW r, r = Shrink(Memory, vec[v], i, n, b), Do(v, r)
  PROVE  IInv' /\ Step(v)
<1>1. Valid(Memory, vec[v]) /\ vec[v].count \in Nat /\ vec[v].count <= MaxCount
  <2>1. Valid(Memory, vec[v])
    BY ValidVector DEF IInv
  <2>2. vec[v].count \in 0..MaxCount
    BY DEF IInv, State
  <2> QED
    BY <2>1, <2>2, VectorAssumption
<1>2. ShrinkResult(Memory, vec[v], i, n, r)
  BY <1>1, Allocated, ShrinkFacts
<1>3. CASE r.where = Abort
  BY <1>3 DEF Do
<1>4. CASE r.memory = Memory /\ r.vector = vec[v]
  BY <1>4, DoNothing
<1>5. CASE Shrunk(Memory, vec[v], i, n, r.memory, r.vector)
  <2>1. Alone(Memory, vec[v], r.memory, r.vector) /\ Fits(r.memory, r.vector) /\ r.vector.count <= MaxCount
    <3>1. /\ Alone(Memory, vec[v], r.memory, r.vector) /\ r.vector.count = vec[v].count - n
          /\ Gapped(r.memory, r.vector, 0, 0)
      BY <1>5, Zenon DEF Shrunk
    <3>2. Fits(r.memory, r.vector)
      BY <3>1, Zenon DEF Fits
    <3>3. PICK c, d : c = vec[v].count /\ d = r.vector.count
      OBVIOUS
    <3>4. c \in Nat /\ c <= MaxCount /\ d = c - n
      BY <1>1, <3>1, <3>3
    <3>5. d <= MaxCount
      BY <3>4, VectorAssumption
    <3> QED
      BY <3>1, <3>2, <3>3, <3>5
  <2>2. IInv' /\ Becomes(v, SeqOf(r.memory, r.vector))
    BY <2>1, DoAlone
  <2>3. Abstract!Removed(Sequence(v), SeqOf(r.memory, r.vector))
    <3>1. PICK m, w, q, x : m = Memory /\ w = vec[v] /\ q = r.memory /\ x = r.vector
      OBVIOUS
    <3>2. Valid(m, w) /\ i + n <= w.count /\ Shrunk(m, w, i, n, q, x)
      BY <1>1, <1>5, <3>1
    <3>3. Abstract!Removed(SeqOf(m, w), SeqOf(q, x))
      BY <3>2, ShrunkSequence
    <3> QED
      BY <3>1, <3>3, SequenceIs
  <2> QED
    BY <2>2, <2>3 DEF Step, Promised
<1> QED
  BY <1>2, <1>3, <1>4, <1>5 DEF ShrinkResult

\* removeItemsAt takes a run of items out.
LEMMA RemoveItemsInv ==
  ASSUME IInv, NEW v \in Vectors, NEW i \in Nat, NEW n \in Nat, i + n <= vec[v].count, RemoveItems(v, i, n)
  PROVE  IInv' /\ Step(v)
<1>1. PICK b \in Allocation : Do(v, Shrink(Memory, vec[v], i, n, b))
  BY DEF RemoveItems
<1> QED
  BY <1>1, ShrinkInv

LEMMA RemoveItemsAtInv == ASSUME IInv, NEW v \in Vectors, RemoveItemsAt(v) PROVE IInv' /\ Step(v)
<1>1. PICK i \in 0..vec[v].count, n \in 0..MaxCount : i + n <= vec[v].count /\ RemoveItems(v, i, n)
  BY DEF RemoveItemsAt
<1>2. i \in Nat /\ n \in Nat
  OBVIOUS
<1> QED
  BY <1>1, <1>2, RemoveItemsInv

\* pop takes the last item out.
LEMMA PopInv == ASSUME IInv, NEW v \in Vectors, Pop(v) PROVE IInv' /\ Step(v)
<1>1. vec[v].count \in Nat
  BY VectorAssumption DEF IInv, State
<1>2. PICK n \in Nat, i \in Nat : n = 1 /\ i = vec[v].count - 1
  BY <1>1 DEF Pop
<1>3. i + n <= vec[v].count /\ RemoveItems(v, i, n)
  BY <1>1, <1>2 DEF Pop
<1> QED
  BY <1>3, RemoveItemsInv

\* resize puts items in behind the last, or takes the last ones out.
LEMMA ResizeInv == ASSUME IInv, NEW v \in Vectors, Resize(v) PROVE IInv' /\ Step(v)
<1>1. vec[v].count \in Nat /\ MaxCount \in Nat
  BY VectorAssumption DEF IInv, State
<1>2. PICK size \in 0..MaxCount :
        \/ size > vec[v].count /\ InsertDefault(v, vec[v].count, size - vec[v].count)
        \/ size < vec[v].count /\ RemoveItems(v, size, vec[v].count - size)
  BY DEF Resize
<1>3. CASE size > vec[v].count /\ InsertDefault(v, vec[v].count, size - vec[v].count)
  <2>1. PICK n, i : n = size - vec[v].count /\ i = vec[v].count
    OBVIOUS
  <2>2. n \in 0..MaxCount - vec[v].count /\ i \in 0..vec[v].count /\ InsertDefault(v, i, n)
    BY <1>1, <1>3, <2>1
  <2> QED
    BY <2>2, InsertItemsInv
<1>4. CASE size < vec[v].count /\ RemoveItems(v, size, vec[v].count - size)
  <2>1. PICK n \in Nat, i \in Nat : n = vec[v].count - size /\ i = size
    BY <1>1, <1>4
  <2>2. i + n <= vec[v].count /\ RemoveItems(v, i, n)
    BY <1>1, <1>4, <2>1
  <2> QED
    BY <2>2, RemoveItemsInv
<1> QED
  BY <1>2, <1>3, <1>4

\* clear takes every item out.
LEMMA ClearInv == ASSUME IInv, NEW v \in Vectors, Clear(v) PROVE IInv' /\ Step(v)
<1>1. PICK n \in Nat, z \in Nat : n = vec[v].count /\ z = 0
  BY VectorAssumption DEF IInv, State
<1>2. z + n <= vec[v].count /\ RemoveItems(v, z, n)
  BY <1>1 DEF Clear
<1> QED
  BY <1>2, RemoveItemsInv

\* setCapacity moves the items to a larger block.
LEMMA SetCapacityInv == ASSUME IInv, NEW v \in Vectors, SetCapacity(v) PROVE IInv' /\ Step(v)
<1>1. PICK b \in Allocation, capacity \in vec[v].count + 1..MaxCapacity :
        Do(v, Rehouse(Memory, vec[v], b, capacity, vec[v].count, vec[v].count, vec[v].count))
  BY DEF SetCapacity
<1>2. PICK n \in Nat : n = vec[v].count /\ n <= MaxCount
  BY VectorAssumption DEF IInv, State
<1>3. PICK w : w = vec[v]
  OBVIOUS
<1>4. PICK r : r = Rehouse(Memory, w, b, capacity, n, n, n)
  OBVIOUS
<1>5. Do(v, r)
  BY <1>1, <1>2, <1>3, <1>4
<1>6. CASE b = None
  <2>1. r = Outcome(Memory, w, NoMemory)
    BY <1>4, <1>6 DEF Rehouse
  <2> QED
    BY <1>3, <1>5, <2>1, DoNothing DEF Outcome
<1>7. CASE b # None
  <2>1. Valid(Memory, w)
    BY <1>3, ValidVector DEF IInv
  <2>2. b \in Blocks /\ Memory.heap[b].refs = 0
    BY <1>7, Allocated DEF Free
  <2>3. capacity \in Nat /\ n <= w.count /\ n + (w.count - n) <= capacity /\ n = w.count
    BY <1>2, <1>3, VectorAssumption
  <2>4. Rehoused(Memory, w, b, capacity, n, n, n, Rehouse(Memory, w, b, capacity, n, n, n))
    BY <2>1, <2>2, <2>3, RehouseFacts
  <2>5. /\ r.vector.storage = b /\ r.vector.count = n /\ Alone(Memory, w, r.memory, r.vector)
        /\ DOMAIN r.memory.heap[b].slots = Slots(0, capacity)
        /\ \A k \in Slots(0, capacity) :
             r.memory.heap[b].slots[k] = IF k \in Slots(n, n - n) THEN Memory.heap[w.storage].slots[k - n + n]
                                         ELSE IF k < n THEN Memory.heap[w.storage].slots[k] ELSE Raw
    BY <1>4, <2>3, <2>4 DEF Rehoused
  <2>6. ASSUME ~trivial, NEW k \in Slots(0, capacity) PROVE r.memory.heap[b].slots[k] # Raw <=> k < n
    <3>1. k \notin Slots(n, n - n) /\ k \in Int /\ 0 <= k
      BY DEF Slots
    <3>2. ASSUME k < n PROVE Memory.heap[w.storage].slots[k] # Raw
      <4>1. w.storage # None
        BY <2>1, <2>3, <3>1, <3>2 DEF Valid
      <4>2. /\ Slots(0, n) \subseteq DOMAIN Memory.heap[w.storage].slots
            /\ \A j \in DOMAIN Memory.heap[w.storage].slots : Memory.heap[w.storage].slots[j] # Raw <=> j < n
        BY <2>1, <2>3, <2>6, <4>1, StorageFacts
      <4>3. k \in Slots(0, n)
        BY <3>1, <3>2 DEF Slots
      <4> QED
        BY <3>2, <4>2, <4>3
    <3> QED
      BY <2>5, <3>1, <3>2
  <2>7. Fits(r.memory, r.vector)
    <3>1. Slots(0, n) \subseteq Slots(0, capacity) /\ Slots(0, 0) = {}
      BY <2>3 DEF Slots
    <3> QED
      BY <2>5, <2>6, <3>1 DEF Fits, Gapped
  <2>8. IInv' /\ Becomes(v, SeqOf(r.memory, r.vector))
    BY <1>2, <1>3, <1>5, <2>5, <2>7, DoAlone
  <2>9. SeqOf(r.memory, r.vector) = SeqOf(Memory, w)
    <3>1. ASSUME NEW k \in 1..n PROVE r.memory.heap[b].slots[k - 1] = Memory.heap[w.storage].slots[k - 1]
      <4>1. PICK j \in Nat : j = k - 1
        OBVIOUS
      <4>2. j \in Slots(0, capacity) /\ j \notin Slots(n, n - n) /\ j < n
        BY <2>3, <4>1 DEF Slots
      <4> QED
        BY <2>5, <4>1, <4>2
    <3> QED
      BY <2>3, <2>5, <3>1 DEF SeqOf
  <2>10. Sequence(v) = SeqOf(Memory, w)
    BY <1>3, SequenceIs
  <2> QED
    BY <2>8, <2>9, <2>10 DEF Step, Promised
<1> QED
  BY <1>6, <1>7

\* The items in S are changed in a memory that is the vector's own.
Rewrites(q, b, S, p) ==
  /\ Touched(q, p, b)
  /\ \A k \in DOMAIN q.heap[b].slots \ S : p.heap[b].slots[k] = q.heap[b].slots[k]
  /\ ~trivial => \A k \in DOMAIN q.heap[b].slots : p.heap[b].slots[k] # Raw <=> q.heap[b].slots[k] # Raw

\* A call that makes p of the memory it may write.
LEMMA EditInv ==
  ASSUME IInv, NEW v \in Vectors, vec[v].storage # None, NEW b \in Allocation,
         NEW e, e = EditArray(Memory, vec[v], b), NEW S, NEW p,
         Edited(Memory, vec[v], e) => Rewrites(e.memory, e.vector.storage, S, p),
         NEW r, r = IF e.where \in {NoMemory, Abort} THEN e ELSE [e EXCEPT !.memory = p], Do(v, r)
  PROVE  /\ IInv' /\ Edited(Memory, vec[v], e) /\ Becomes(v, SeqOf(p, e.vector))
         /\ Valid(Memory, vec[v]) /\ Valid(p, e.vector)
<1>1. PICK w : w = vec[v]
  OBVIOUS
<1>2. Valid(Memory, w)
  BY <1>1, ValidVector DEF IInv
<1>3. e.where = Abort \/ Edited(Memory, w, e)
  BY <1>1, <1>2, Allocated, EditArrayFacts
<1>4. CASE e.where = Abort
  BY <1>4 DEF Do
<1>5. CASE Edited(Memory, w, e)
  <2>1. PICK q, x : q = e.memory /\ x = e.vector
    OBVIOUS
  <2>2. IsOutcome(e) /\ e.where = 0 /\ Alone(Memory, w, q, x) /\ x.count = w.count
    BY <1>5, <2>1 DEF Edited
  <2>3. r.memory = p /\ r.vector = x
    <3>1. e.where # NoMemory /\ e.where # Abort
      BY <2>2 DEF NoMemory, Abort
    <3>2. r = [e EXCEPT !.memory = p]
      BY <3>1
    <3> QED
      BY <2>1, <2>2, <3>2 DEF IsOutcome
  <2>4. Rewrites(q, x.storage, S, p)
    BY <1>1, <1>5, <2>1
  <2>5. Alone(Memory, w, p, x)
    BY <2>2, <2>4, AloneTouched DEF Rewrites
  <2>6. Fits(p, x)
    <3>1. /\ DOMAIN q.heap[x.storage].slots = DOMAIN Memory.heap[w.storage].slots
          /\ ~trivial => \A k \in DOMAIN Memory.heap[w.storage].slots :
                            q.heap[x.storage].slots[k] # Raw <=> k < w.count
      BY <1>5, <2>1 DEF Edited
    <3>2. Slots(0, w.count) \subseteq DOMAIN Memory.heap[w.storage].slots
      BY <1>1, <1>2 DEF Valid, Fits, Gapped
    <3>3. \A k : k \notin Slots(0, 0)
      BY DEF Slots
    <3>4. DOMAIN p.heap[x.storage].slots = DOMAIN q.heap[x.storage].slots
      BY <2>4 DEF Rewrites, Touched
    <3>5. Slots(0, x.count) \subseteq DOMAIN p.heap[x.storage].slots
      <4>1. Slots(0, x.count) = Slots(0, w.count)
        BY <2>2
      <4>2. DOMAIN p.heap[x.storage].slots = DOMAIN Memory.heap[w.storage].slots
        BY <3>1, <3>4, Zenon
      <4> QED
        BY <3>2, <4>1, <4>2, Zenon
    <3>6. ASSUME ~trivial, NEW k \in DOMAIN p.heap[x.storage].slots
          PROVE  p.heap[x.storage].slots[k] # Raw <=> k < x.count
      <4>1. k \in DOMAIN q.heap[x.storage].slots /\ k \in DOMAIN Memory.heap[w.storage].slots
        BY <3>1, <3>4, Zenon
      <4>2. q.heap[x.storage].slots[k] # Raw <=> k < w.count
        BY <3>1, <3>6, <4>1, Zenon
      <4>3. p.heap[x.storage].slots[k] # Raw <=> q.heap[x.storage].slots[k] # Raw
        BY <2>4, <3>6, <4>1, Zenon DEF Rewrites
      <4> QED
        BY <2>2, <4>2, <4>3
    <3>7. Gapped(p, x, 0, 0)
      BY <3>3, <3>5, <3>6 DEF Gapped
    <3> QED
      BY <3>7 DEF Fits
  <2>7. w.count <= MaxCount
    BY <1>1, VectorAssumption DEF IInv, State
  <2>8. IInv' /\ Becomes(v, SeqOf(p, x))
    BY <1>1, <2>2, <2>3, <2>5, <2>6, <2>7, DoAlone
  <2>9. Valid(p, x)
    BY <2>5, <2>6, AloneValid
  <2> QED
    BY <1>1, <1>2, <1>5, <2>1, <2>8, <2>9
<1> QED
  BY <1>3, <1>4, <1>5

\* What an index below the count finds.
LEMMA ItemFacts ==
  ASSUME IInv, NEW v \in Vectors, NEW i \in 0..vec[v].count - 1, NEW e, Edited(Memory, vec[v], e)
  PROVE  /\ e.memory \in MemoryType /\ e.memory.sound = TRUE /\ e.vector.storage \in Blocks
         /\ i \in Nat /\ i \in DOMAIN e.memory.heap[e.vector.storage].slots
         /\ ~trivial => e.memory.heap[e.vector.storage].slots[i] # Raw
<1>1. PICK w : w = vec[v]
  OBVIOUS
<1>2. w.count \in Nat /\ Valid(Memory, w)
  <2>1. Valid(Memory, w)
    BY <1>1, ValidVector DEF IInv
  <2> QED
    BY <2>1 DEF Valid, VectorType
<1>3. i \in Nat /\ i < w.count /\ w.count # 0
  BY <1>1, <1>2
<1>4. Slots(0, w.count) \subseteq DOMAIN Memory.heap[w.storage].slots
  BY <1>2, <1>3 DEF Valid, Fits, Gapped
<1>5. i \in Slots(0, w.count)
  BY <1>2, <1>3 DEF Slots
<1> QED
  BY <1>1, <1>3, <1>4, <1>5 DEF Edited, Alone

\* A vector with an item has storage.
LEMMA CountedIsStored == ASSUME IInv, NEW v \in Vectors, NEW i \in 0..vec[v].count - 1 PROVE vec[v].storage # None
<1>1. vec[v].storage = None => vec[v].count = 0
  BY DEF IInv, State
<1> QED
  BY <1>1

\* Vector x holds in p what w holds in m, but for the items in S.
HoldsBut(m, w, p, x, S) ==
  /\ SeqOf(m, w) \in Seq(Cells) /\ SeqOf(p, x) \in Seq(Cells) /\ w.count \in Nat
  /\ Len(SeqOf(m, w)) = w.count /\ Len(SeqOf(p, x)) = w.count
  /\ \A k \in 1..w.count : SeqOf(m, w)[k] = m.heap[w.storage].slots[k - 1]
  /\ \A k \in 1..w.count : SeqOf(p, x)[k] = p.heap[x.storage].slots[k - 1]
  /\ \A k \in 1..w.count : k - 1 \notin S => SeqOf(p, x)[k] = SeqOf(m, w)[k]

\* A vector that has been edited holds what it held, but for the items in S.
LEMMA EditedSequence ==
  ASSUME NEW m, NEW w, Valid(m, w), NEW e, Edited(m, w, e), NEW S, NEW p, Rewrites(e.memory, e.vector.storage, S, p),
         Valid(p, e.vector)
  PROVE  HoldsBut(m, w, p, e.vector, S)
<1>1. PICK s, t, x, q : s = SeqOf(m, w) /\ t = SeqOf(p, x) /\ x = e.vector /\ q = e.memory
  OBVIOUS
<1>2. PICK count \in Nat : count = w.count
  BY DEF Valid, VectorType
<1>3. x.count = count
  BY <1>1, <1>2 DEF Edited
<1>4. s \in Seq(Cells) /\ Len(s) = count /\ \A k \in 1..count : s[k] = m.heap[w.storage].slots[k - 1]
  BY <1>1, <1>2, SequenceType
<1>5. t \in Seq(Cells) /\ Len(t) = count /\ \A k \in 1..count : t[k] = p.heap[x.storage].slots[k - 1]
  <2>1. /\ SeqOf(p, x) \in Seq(Cells) /\ Len(SeqOf(p, x)) = x.count
        /\ \A k \in 1..x.count : SeqOf(p, x)[k] = p.heap[x.storage].slots[k - 1]
    BY <1>1, SequenceType
  <2> QED
    BY <1>1, <1>3, <2>1
<1>6. ASSUME NEW k \in 1..count, k - 1 \notin S PROVE t[k] = s[k]
  <2>1. PICK j \in Nat : j = k - 1
    OBVIOUS
  <2>2. j \in Slots(0, count) /\ j \notin S
    BY <1>6, <2>1 DEF Slots
  <2>3. q.heap[x.storage].slots[j] = m.heap[w.storage].slots[j]
    BY <1>1, <1>2, <2>2 DEF Edited
  <2>4. j \in DOMAIN q.heap[x.storage].slots
    <3>1. w.storage # None
      BY <1>2 DEF Valid
    <3>2. Slots(0, count) \subseteq DOMAIN m.heap[w.storage].slots
      BY <1>2, <3>1 DEF Valid, Fits, Gapped
    <3>3. DOMAIN q.heap[x.storage].slots = DOMAIN m.heap[w.storage].slots
      BY <1>1 DEF Edited
    <3> QED
      BY <2>2, <3>2, <3>3
  <2>5. p.heap[x.storage].slots[j] = q.heap[x.storage].slots[j]
    BY <1>1, <2>2, <2>4 DEF Rewrites
  <2> QED
    BY <1>4, <1>5, <2>1, <2>3, <2>5
<1>7. HoldsBut(m, w, p, x, S)
  BY <1>1, <1>2, <1>4, <1>5, <1>6 DEF HoldsBut
<1> QED
  BY <1>1, <1>7

\* A call that replaces item i.
LEMMA EditOneInv ==
  ASSUME IInv, NEW v \in Vectors, vec[v].storage # None, NEW b \in Allocation,
         NEW e, e = EditArray(Memory, vec[v], b), NEW i \in 0..vec[v].count - 1, NEW p,
         Edited(Memory, vec[v], e) => Rewrites(e.memory, e.vector.storage, {i}, p),
         NEW r, r = IF e.where \in {NoMemory, Abort} THEN e ELSE [e EXCEPT !.memory = p], Do(v, r)
  PROVE  IInv' /\ Step(v)
<1>1. PICK m, w, x, S : m = Memory /\ w = vec[v] /\ x = e.vector /\ S = {i}
  OBVIOUS
<1>2. /\ IInv' /\ Edited(m, w, e) /\ Becomes(v, SeqOf(p, x))
      /\ Valid(m, w) /\ Valid(p, x)
  BY <1>1, EditInv
<1>3. PICK s, t : s = SeqOf(m, w) /\ t = SeqOf(p, x)
  OBVIOUS
<1>4. PICK count \in Nat : count = w.count
  BY <1>2 DEF Valid, VectorType
<1>5. /\ s \in Seq(Cells) /\ t \in Seq(Cells) /\ Len(s) = count /\ Len(t) = count
      /\ \A k \in 1..count : k - 1 \notin S => t[k] = s[k]
  <2>1. Rewrites(e.memory, e.vector.storage, S, p)
    BY <1>1, <1>2
  <2>2. Valid(p, e.vector)
    BY <1>1, <1>2
  <2>3. HoldsBut(m, w, p, e.vector, S)
    BY <1>2, <2>1, <2>2, EditedSequence
  <2>4. t = SeqOf(p, e.vector)
    BY <1>1, <1>3
  <2> QED
    BY <1>3, <1>4, <2>3, <2>4 DEF HoldsBut
<1>6. PICK j \in 1..count : j = i + 1
  BY <1>1, <1>4
<1>7. t = [s EXCEPT ![j] = t[j]]
  <2>1. \A k \in 1..count : k # j => t[k] = s[k]
    BY <1>1, <1>5, <1>6
  <2>2. DOMAIN s = 1..count /\ DOMAIN t = 1..count
    BY <1>5
  <2>3. s = [k \in 1..count |-> s[k]] /\ t = [k \in 1..count |-> t[k]]
    BY <1>5
  <2> QED
    BY <2>1, <2>2, <2>3
<1>8. Abstract!Replaced(s, t)
  BY <1>5, <1>6, <1>7 DEF Abstract!Replaced
<1>9. s = Sequence(v)
  BY <1>1, <1>3, SequenceIs
<1> QED
  BY <1>2, <1>3, <1>8, <1>9 DEF Step, Promised

\* One item is replaced.
LEMMA ReplacedItem ==
  ASSUME NEW q \in MemoryType, q.sound = TRUE, NEW c \in Blocks, NEW i \in Nat, i \in DOMAIN q.heap[c].slots,
         ~trivial => q.heap[c].slots[i] # Raw, NEW item \in Cells, item # Raw
  PROVE  Rewrites(q, c, {i}, Splat(Destroy(q, c, i, 1), c, i, 1, item))
<1>1. PICK one \in Nat : one = 1
  OBVIOUS
<1>2. \A k : k \in Slots(i, one) <=> k = i
  BY <1>1 DEF Slots
<1>3. Live(q, c, Slots(i, one))
  BY <1>2 DEF Live
<1>4. PICK d : d = Destroy(q, c, i, one)
  OBVIOUS
<1>5. Filled(q, c, i, one, Raw, d)
  BY <1>3, <1>4, DestroyFacts
<1>6. d \in MemoryType /\ d.sound = TRUE /\ Empty(d, c, Slots(i, one))
  BY <1>2, <1>5 DEF Filled, Touched, Empty
<1>7. Filled(d, c, i, one, item, Splat(d, c, i, one, item))
  BY <1>6, SplatFacts
<1>8. PICK p : p = Splat(d, c, i, one, item)
  OBVIOUS
<1>9. Touched(q, p, c)
  BY <1>5, <1>7, <1>8 DEF Filled, Touched
<1>10. \A k \in DOMAIN q.heap[c].slots : p.heap[c].slots[k] = IF k = i THEN item ELSE q.heap[c].slots[k]
  BY <1>2, <1>5, <1>7, <1>8 DEF Filled, Touched
<1>11. Rewrites(q, c, {i}, p)
  BY <1>9, <1>10 DEF Rewrites
<1> QED
  BY <1>1, <1>4, <1>8, <1>11

\* Items with a trivial constructor are left as the destructor leaves them.
LEMMA DestroyedItem ==
  ASSUME NEW q \in MemoryType, q.sound = TRUE, NEW c \in Blocks, NEW i \in Nat, i \in DOMAIN q.heap[c].slots, trivial
  PROVE  Rewrites(q, c, {i}, Destroy(q, c, i, 1))
<1>1. PICK one \in Nat : one = 1
  OBVIOUS
<1>2. Live(q, c, Slots(i, one))
  BY <1>1 DEF Slots, Live
<1>3. Filled(q, c, i, one, Raw, Destroy(q, c, i, one))
  BY <1>2, DestroyFacts
<1>4. \A k : k \in Slots(i, one) <=> k = i
  BY <1>1 DEF Slots
<1>5. Rewrites(q, c, {i}, Destroy(q, c, i, one))
  BY <1>3, <1>4 DEF Filled, Rewrites
<1> QED
  BY <1>1, <1>5

\* A call that only gets an array of its own leaves the sequence as it was.
LEMMA EditOnlyInv == ASSUME IInv, NEW v \in Vectors, vec[v].storage # None, EditOnly(v) PROVE IInv' /\ Step(v)
<1>1. PICK b \in Allocation : Do(v, EditArray(Memory, vec[v], b))
  BY DEF EditOnly
<1>2. PICK e : e = EditArray(Memory, vec[v], b)
  OBVIOUS
<1>3. PICK p : p = e.memory
  OBVIOUS
<1>4. PICK m, w, x, S : m = Memory /\ w = vec[v] /\ x = e.vector /\ S = {}
  OBVIOUS
<1>5. ASSUME Edited(m, w, e) PROVE Rewrites(p, x.storage, S, p) /\ [e EXCEPT !.memory = p] = e
  <2>1. p \in MemoryType /\ p.sound = TRUE /\ x.storage \in Blocks
    BY <1>3, <1>4, <1>5 DEF Edited, Alone
  <2>2. Rewrites(p, x.storage, S, p)
    BY <2>1 DEF Rewrites, Touched
  <2>3. [e EXCEPT !.memory = p] = e
    BY <1>3, <1>5 DEF Edited, IsOutcome
  <2> QED
    BY <2>2, <2>3
<1>6. PICK r : r = IF e.where \in {NoMemory, Abort} THEN e ELSE [e EXCEPT !.memory = p]
  OBVIOUS
<1>7. r = e
  <2>1. Valid(m, w)
    BY <1>4, ValidVector DEF IInv
  <2>2. e.where # Abort
    BY <1>1, <1>2 DEF Do
  <2>3. Edited(m, w, e)
    BY <1>2, <1>4, <2>1, <2>2, Allocated, EditArrayFacts
  <2> QED
    BY <1>5, <1>6, <2>3
<1>8. /\ IInv' /\ Edited(m, w, e) /\ Becomes(v, SeqOf(p, x))
      /\ Valid(m, w) /\ Valid(p, x)
  BY <1>1, <1>2, <1>3, <1>4, <1>5, <1>6, <1>7, EditInv, ZenonT(60)
<1>9. PICK s, t : s = SeqOf(m, w) /\ t = SeqOf(p, x)
  OBVIOUS
<1>10. HoldsBut(m, w, p, x, S)
  BY <1>3, <1>4, <1>5, <1>8, EditedSequence
<1>11. t = s
  BY <1>4, <1>9, <1>10 DEF HoldsBut
<1>12. s = Sequence(v)
  BY <1>4, <1>9, SequenceIs
<1> QED
  BY <1>8, <1>9, <1>11, <1>12 DEF Step, Promised

\* replaceAt replaces an item, or constructs it anew.
LEMMA ReplaceAtInv == ASSUME IInv, NEW v \in Vectors, ReplaceAt(v), ~EditOnly(v) PROVE IInv' /\ Step(v)
<1>1. PICK b \in Allocation, i \in 0..vec[v].count - 1 :
        \/ \E item \in Items :
             LET put(m, s) == Splat(Destroy(m, s, i, 1), s, i, 1, item)
             IN  Do(v, Fill(EditArray(Memory, vec[v], b), put))
        \/ LET put(m, s) == Construct(Destroy(m, s, i, 1), s, i, 1)
           IN  Do(v, Fill(EditArray(Memory, vec[v], b), put))
  BY DEF ReplaceAt
<1>2. PICK e : e = EditArray(Memory, vec[v], b)
  OBVIOUS
<1>3. vec[v].storage # None
  BY CountedIsStored
<1>4. ASSUME NEW item \in Items, Do(v, IF e.where \in {NoMemory, Abort} THEN e
                                     ELSE [e EXCEPT !.memory = Splat(Destroy(e.memory, e.vector.storage, i, 1),
                                                                     e.vector.storage, i, 1, item)])
      PROVE  IInv' /\ Step(v)
  <2>1. item \in Cells /\ item # Raw
    BY VectorAssumption DEF Cells
  <2>2. PICK p : p = Splat(Destroy(e.memory, e.vector.storage, i, 1), e.vector.storage, i, 1, item)
    OBVIOUS
  <2>3. Edited(Memory, vec[v], e) => Rewrites(e.memory, e.vector.storage, {i}, p)
    BY <2>1, <2>2, ItemFacts, ReplacedItem
  <2>4. PICK r : r = IF e.where \in {NoMemory, Abort} THEN e ELSE [e EXCEPT !.memory = p]
    OBVIOUS
  <2>5. Do(v, r)
    BY <1>4, <2>2, <2>4
  <2> QED
    BY <1>2, <1>3, <2>3, <2>4, <2>5, EditOneInv
<1>5. ASSUME Do(v, IF e.where \in {NoMemory, Abort} THEN e
                   ELSE [e EXCEPT !.memory = Construct(Destroy(e.memory, e.vector.storage, i, 1),
                                                       e.vector.storage, i, 1)])
      PROVE  IInv' /\ Step(v)
  <2>1. Default \in Cells /\ Default # Raw
    BY VectorAssumption DEF Cells
  <2>2. PICK p : p = Construct(Destroy(e.memory, e.vector.storage, i, 1), e.vector.storage, i, 1)
    OBVIOUS
  <2>3. ASSUME Edited(Memory, vec[v], e) PROVE Rewrites(e.memory, e.vector.storage, {i}, p)
    <3>1. CASE trivial
      <4>1. p = Destroy(e.memory, e.vector.storage, i, 1)
        BY <2>2, <3>1 DEF Construct
      <4> QED
        BY <2>3, <3>1, <4>1, ItemFacts, DestroyedItem
    <3>2. CASE ~trivial
      <4>1. p = Splat(Destroy(e.memory, e.vector.storage, i, 1), e.vector.storage, i, 1, Default)
        BY <2>2, <3>2 DEF Construct
      <4> QED
        BY <2>1, <2>3, <4>1, ItemFacts, ReplacedItem
    <3> QED
      BY <3>1, <3>2
  <2>4. PICK r : r = IF e.where \in {NoMemory, Abort} THEN e ELSE [e EXCEPT !.memory = p]
    OBVIOUS
  <2>5. Do(v, r)
    BY <1>5, <2>2, <2>4
  <2> QED
    BY <1>2, <1>3, <2>3, <2>4, <2>5, EditOneInv
<1> QED
  BY <1>1, <1>2, <1>4, <1>5 DEF Fill

\* An item written through editItemLocation is replaced.
LEMMA EditItemInv == ASSUME IInv, NEW v \in Vectors, EditItem(v) PROVE IInv' /\ Step(v)
<1>1. PICK b \in Allocation, i \in 0..vec[v].count - 1, item \in Items :
        LET cell(k) == item
            put(m, s) == Update(m, s, {i}, cell, Live(m, s, {i}))
        IN  Do(v, Fill(EditArray(Memory, vec[v], b), put))
  BY DEF EditItem
<1>2. PICK e : e = EditArray(Memory, vec[v], b)
  OBVIOUS
<1>3. vec[v].storage # None
  BY CountedIsStored
<1>4. PICK p : p = [heap |-> [e.memory.heap EXCEPT ![e.vector.storage].slots =
                                [k \in DOMAIN @ |-> IF k \in {i} THEN item ELSE @[k]]],
                    sound |-> e.memory.sound /\ Live(e.memory, e.vector.storage, {i})]
  OBVIOUS
<1>5. ASSUME Edited(Memory, vec[v], e) PROVE Rewrites(e.memory, e.vector.storage, {i}, p)
  <2>1. PICK q, c : q = e.memory /\ c = e.vector.storage
    OBVIOUS
  <2>2. /\ q \in MemoryType /\ q.sound = TRUE /\ c \in Blocks /\ i \in Nat /\ i \in DOMAIN q.heap[c].slots
        /\ ~trivial => q.heap[c].slots[i] # Raw
    BY <1>5, <2>1, ItemFacts
  <2>3. item \in Cells /\ item # Raw
    BY VectorAssumption DEF Cells
  <2>4. PICK s : s = [k \in DOMAIN q.heap[c].slots |-> IF k \in {i} THEN item ELSE q.heap[c].slots[k]]
    OBVIOUS
  <2>5. s \in [DOMAIN q.heap[c].slots -> Cells]
    BY <2>2, <2>3, <2>4, MemoryFacts
  <2>6. s \in SlotsType /\ DOMAIN s = DOMAIN q.heap[c].slots
    BY <2>2, <2>5, MemoryFacts, SlotsShape
  <2>7. Live(q, c, {i})
    BY <2>2 DEF Live
  <2>8. p = Put(q, c, s)
    BY <1>4, <2>1, <2>2, <2>4, <2>7 DEF Put
  <2>9. Touched(q, p, c) /\ p.heap[c].slots = s
    BY <2>2, <2>6, <2>8, PutTouches
  <2>10. Rewrites(q, c, {i}, p)
    BY <2>2, <2>3, <2>4, <2>9 DEF Rewrites
  <2> QED
    BY <2>1, <2>10
<1>6. PICK r : r = IF e.where \in {NoMemory, Abort} THEN e ELSE [e EXCEPT !.memory = p]
  OBVIOUS
<1>7. Do(v, r)
  BY <1>1, <1>2, <1>4, <1>6 DEF Fill, Update
<1> QED
  BY <1>2, <1>3, <1>5, <1>6, <1>7, EditOneInv

-----------------------------------------------------------------------------
(* Sorting: the items are permuted. *)

Ahead(key, S, i) == {j \in S : key[j] < key[i] \/ (key[j] = key[i] /\ j < i)}

\* f gives every slot of S a place of S of its own, later for a slot that comes later.
Places(S, key, f) ==
  /\ f \in [S -> S]
  /\ \A k \in S : \E i \in S : f[i] = k
  /\ \A i, j \in S : f[i] = f[j] => i = j
  /\ \A i, j \in S : i \in Ahead(key, S, j) => f[i] < f[j]

\* The place of an item is the number of items ahead of it.
LEMMA EveryItemHasItsPlace ==
  ASSUME NEW n \in Nat, NEW key \in [Slots(0, n) -> Int]
  PROVE  Places(Slots(0, n), key, [i \in Slots(0, n) |-> Cardinality(Ahead(key, Slots(0, n), i))])
<1>1. PICK S : S = Slots(0, n)
  OBVIOUS
<1>2. /\ IsFiniteSet(S) /\ Cardinality(S) = n
      /\ \A i : i \in S <=> i \in Int /\ 0 <= i /\ i < n
  <2>1. S = 0..n - 1
    BY <1>1 DEF Slots
  <2>2. IsFiniteSet(0..n - 1) /\ Cardinality(0..n - 1) = IF 0 > n - 1 THEN 0 ELSE n - 1 - 0 + 1
    BY FS_Interval
  <2> QED
    BY <2>1, <2>2
<1>3. PICK f : f = [i \in S |-> Cardinality(Ahead(key, S, i))]
  OBVIOUS
<1>4. ASSUME NEW i \in S PROVE f[i] \in S /\ IsFiniteSet(Ahead(key, S, i)) /\ f[i] \in Nat
  <2>1. Ahead(key, S, i) \in SUBSET S
    BY DEF Ahead
  <2>2. i \notin Ahead(key, S, i)
    BY <1>1, <1>2 DEF Ahead
  <2>3. /\ IsFiniteSet(Ahead(key, S, i)) /\ Cardinality(Ahead(key, S, i)) <= n
        /\ n = Cardinality(Ahead(key, S, i)) => S = Ahead(key, S, i)
    BY <1>2, <2>1, FS_Subset
  <2>4. Cardinality(Ahead(key, S, i)) \in Nat
    BY <2>3, FS_CardinalityType
  <2> QED
    BY <1>2, <1>3, <2>2, <2>3, <2>4
<1>5. ASSUME NEW i \in S, NEW j \in S, i \in Ahead(key, S, j) PROVE f[i] < f[j]
  <2>1. key[i] \in Int /\ key[j] \in Int /\ i \in Int /\ j \in Int
    BY <1>1, <1>2
  <2>2. key[i] < key[j] \/ (key[i] = key[j] /\ i < j)
    BY <1>5 DEF Ahead
  <2>3. ASSUME NEW h \in Ahead(key, S, i) PROVE h \in Ahead(key, S, j)
    <3>1. h \in S /\ key[h] \in Int /\ h \in Int /\ (key[h] < key[i] \/ (key[h] = key[i] /\ h < i))
      BY <1>1, <1>2 DEF Ahead
    <3>2. key[h] < key[j] \/ (key[h] = key[j] /\ h < j)
      BY <2>1, <2>2, <3>1
    <3> QED
      BY <3>1, <3>2 DEF Ahead
  <2>4. i \notin Ahead(key, S, i)
    BY <2>1 DEF Ahead
  <2>5. /\ Cardinality(Ahead(key, S, i)) <= Cardinality(Ahead(key, S, j))
        /\ Cardinality(Ahead(key, S, j)) = Cardinality(Ahead(key, S, i)) => Ahead(key, S, j) = Ahead(key, S, i)
    <3>1. Ahead(key, S, i) \in SUBSET Ahead(key, S, j) /\ IsFiniteSet(Ahead(key, S, j))
      BY <1>4, <2>3
    <3> QED
      BY <3>1, FS_Subset
  <2>6. f[i] <= f[j] /\ f[i] # f[j] /\ f[i] \in Nat /\ f[j] \in Nat
    BY <1>3, <1>4, <1>5, <2>4, <2>5
  <2> QED
    BY <2>6
<1>6. ASSUME NEW i \in S, NEW j \in S, f[i] = f[j] PROVE i = j
  <2>1. key[i] \in Int /\ key[j] \in Int /\ i \in Int /\ j \in Int
    BY <1>1, <1>2
  <2>2. f[i] \in Nat /\ ~(f[i] < f[j]) /\ ~(f[j] < f[i])
    <3>1. f[i] \in Nat
      BY <1>4
    <3> QED
      BY <1>6, <3>1
  <2>3. i \notin Ahead(key, S, j) /\ j \notin Ahead(key, S, i)
    BY <1>5, <2>2
  <2> QED
    BY <2>1, <2>3 DEF Ahead
<1>7. f \in Injection(S, S)
  BY <1>3, <1>4, <1>6 DEF Injection, IsInjective
<1>8. f \in Surjection(S, S)
  BY <1>2, <1>7, FS_Injection
<1>9. \A k \in S : \E i \in S : f[i] = k
  BY <1>8 DEF Surjection
<1>10. f \in [S -> S]
  BY <1>3, <1>4
<1>11. Places(S, key, f)
  BY <1>5, <1>6, <1>9, <1>10 DEF Places
<1> QED
  BY <1>1, <1>3, <1>11

\* Items moved to their places are in order.
LEMMA OrderedSequence ==
  ASSUME NEW n \in Nat, NEW s \in Seq(Cells), NEW t \in Seq(Cells), Len(s) = n, Len(t) = n,
         NEW key, \A i \in Slots(0, n) : key[i] = Key(s[i + 1]),
         NEW f, Places(Slots(0, n), key, f), \A i \in Slots(0, n) : t[f[i] + 1] = s[i + 1]
  PROVE  Abstract!Sorted(s, t)
<1>1. PICK S : S = Slots(0, n)
  OBVIOUS
<1>2. \A i : i \in S <=> i \in Int /\ 0 <= i /\ i < n
  BY <1>1 DEF Slots
<1>3. /\ \A i \in S : f[i] \in S
      /\ \A i, j \in S : i \in Ahead(key, S, j) => f[i] < f[j]
  BY <1>1 DEF Places
<1>4. PICK to : to = [i \in 1..n |-> f[i - 1] + 1]
  OBVIOUS
<1>5. ASSUME NEW i \in 1..n
      PROVE  /\ i - 1 \in S /\ f[i - 1] \in S /\ to[i] = f[i - 1] + 1 /\ to[i] \in 1..n
             /\ key[i - 1] = Key(s[i]) /\ t[to[i]] = s[i]
  <2>1. PICK j \in Int : j = i - 1
    OBVIOUS
  <2>2. j \in S /\ j + 1 = i
    BY <1>2, <2>1
  <2>3. f[j] \in S /\ to[i] = f[j] + 1
    BY <1>3, <1>4, <2>1, <2>2
  <2>4. to[i] \in 1..n
    <3>1. PICK k \in Int : k = f[j]
      BY <1>2, <2>3
    <3> QED
      BY <1>2, <2>3, <3>1
  <2>5. key[j] = Key(s[j + 1]) /\ t[f[j] + 1] = s[j + 1]
    BY <1>1, <2>2
  <2> QED
    BY <2>1, <2>2, <2>3, <2>4, <2>5
<1>6. to \in [1..n -> 1..n]
  BY <1>4, <1>5
<1>7. ASSUME NEW i \in 1..n, NEW j \in 1..n, Key(s[i]) < Key(s[j]) \/ (Key(s[i]) = Key(s[j]) /\ i < j)
      PROVE  to[i] < to[j]
  <2>1. PICK h \in Int, k \in Int : h = i - 1 /\ k = j - 1
    OBVIOUS
  <2>2. h \in S /\ k \in S /\ key[h] = Key(s[i]) /\ key[k] = Key(s[j]) /\ to[i] = f[h] + 1 /\ to[j] = f[k] + 1
        /\ f[h] \in S /\ f[k] \in S
    BY <1>5, <2>1
  <2>3. i < j <=> h < k
    BY <2>1
  <2>4. h \in Ahead(key, S, k)
    BY <1>7, <2>2, <2>3 DEF Ahead
  <2>5. f[h] < f[k] /\ f[h] \in Int /\ f[k] \in Int
    BY <1>2, <1>3, <2>2, <2>4
  <2> QED
    BY <2>2, <2>5
<1>8. \A i \in 1..n : t[to[i]] = s[i]
  BY <1>5
<1> QED
  BY <1>6, <1>7, <1>8 DEF Abstract!Sorted

\* The memory with the items of f written to the slots S of block c.
Assigned(q, c, S, f) ==
  [heap |-> [q.heap EXCEPT ![c].slots = [k \in DOMAIN @ |-> IF k \in S THEN f[k] ELSE @[k]]],
   sound |-> q.sound /\ Live(q, c, S)]

Written(q, c, S, f, p) == Rewrites(q, c, S, p) /\ \A k \in S : p.heap[c].slots[k] = f[k]

\* The array with its items in order.
LEMMA SortedItems ==
  ASSUME NEW q \in MemoryType, q.sound = TRUE, NEW c \in Blocks, NEW n \in Nat,
         Slots(0, n) \subseteq DOMAIN q.heap[c].slots, ~trivial => \A k \in Slots(0, n) : q.heap[c].slots[k] # Raw,
         NEW f \in [Slots(0, n) -> Cells \ {Raw}], NEW p, p = Assigned(q, c, Slots(0, n), f)
  PROVE  Written(q, c, Slots(0, n), f, p)
<1>1. PICK s : s = [k \in DOMAIN q.heap[c].slots |-> IF k \in Slots(0, n) THEN f[k] ELSE q.heap[c].slots[k]]
  OBVIOUS
<1>2. s \in [DOMAIN q.heap[c].slots -> Cells]
  BY <1>1, MemoryFacts
<1>3. s \in SlotsType /\ DOMAIN s = DOMAIN q.heap[c].slots
  BY <1>2, MemoryFacts, SlotsShape
<1>4. Live(q, c, Slots(0, n))
  BY DEF Live
<1>5. PICK r : r = Put(q, c, s)
  OBVIOUS
<1>6. Touched(q, r, c) /\ r.heap[c].slots = s
  BY <1>3, <1>5, PutTouches
<1>7. r = p
  BY <1>1, <1>4, <1>5 DEF Put, Assigned
<1> QED
  BY <1>1, <1>6, <1>7 DEF Rewrites, Written

\* sort permutes the items.
LEMMA SortInv == ASSUME IInv, NEW v \in Vectors, Sort(v), ~EditOnly(v) PROVE IInv' /\ Step(v)
<1> DEFINE w == vec[v]
           n == w.count
           S == Slots(0, n)
           at(i) == heap[w.storage].slots[i]
           before(i, j) == Key(at(i)) < Key(at(j)) \/ (Key(at(i)) = Key(at(j)) /\ i < j)
           place(i) == Cardinality({j \in S : before(j, i)})
           cell(k) == at(CHOOSE i \in S : place(i) = k)
           order(m, s) == Update(m, s, S, cell, Live(m, s, S))
<1>1. /\ \A i \in S : at(i) # Raw
      /\ \E i, j \in S : i < j /\ Key(at(i)) > Key(at(j))
      /\ \E b \in Allocation : Do(v, Fill(EditArray(Memory, w, b), order))
  BY Zenon DEF Sort
<1>2. PICK b \in Allocation : Do(v, Fill(EditArray(Memory, w, b), order))
  BY <1>1, Zenon
<1>3. n \in Nat /\ Valid(Memory, w)
  <2>1. Valid(Memory, w)
    BY ValidVector DEF IInv
  <2> QED
    BY <2>1 DEF Valid, VectorType
<1>4. w.storage # None
  <2>1. w.storage = None => n = 0
    BY DEF IInv, State
  <2>2. \E i : i \in S
    BY <1>1
  <2> QED
    BY <2>1, <2>2 DEF Slots
<1>5. w.storage \in Blocks /\ S \subseteq DOMAIN heap[w.storage].slots
  <2>1. Memory.heap = heap
    BY MemoryIs
  <2> QED
    BY <1>3, <1>4, <2>1 DEF Valid, VectorType, Fits, Gapped
<1>6. ASSUME NEW i \in S PROVE at(i) \in Cells \ {Raw} /\ at(i) \in Nat
  <2>1. Memory \in MemoryType /\ Memory.heap = heap
    BY <1>3, MemoryIs DEF Valid
  <2>2. heap[w.storage].slots \in [DOMAIN heap[w.storage].slots -> Cells]
    BY <1>5, <2>1, MemoryFacts
  <2> QED
    BY <1>1, <1>5, <2>2, VectorAssumption DEF Cells
<1>7. PICK key : key = [i \in S |-> Key(at(i))]
  OBVIOUS
<1>8. key \in [S -> Int]
  <2>1. ASSUME NEW i \in S PROVE Key(at(i)) \in Int
    <3>1. PICK x \in Nat : x = at(i)
      BY <1>6, <2>1
    <3>2. Key(x) \in Int
      BY <3>1 DEF Key
    <3> QED
      BY <3>1, <3>2
  <2> QED
    BY <1>7, <2>1
<1>9. ASSUME NEW i \in S PROVE place(i) = Cardinality(Ahead(key, S, i))
  <2>1. {j \in S : before(j, i)} = Ahead(key, S, i)
    BY <1>7 DEF Ahead
  <2> QED
    BY <2>1
<1>10. PICK pl : pl = [i \in S |-> place(i)]
  OBVIOUS
<1>11. Places(S, key, pl)
  <2>1. pl = [i \in S |-> Cardinality(Ahead(key, S, i))]
    <3> HIDE DEF place
    <3> QED
      BY <1>9, <1>10
  <2>2. PICK N \in Nat : N = n
    BY <1>3
  <2> HIDE DEF n
  <2>3. S = Slots(0, N)
    BY <2>2
  <2>4. Places(Slots(0, N), key, [i \in Slots(0, N) |-> Cardinality(Ahead(key, Slots(0, N), i))])
    BY <1>8, <2>3, EveryItemHasItsPlace
  <2> QED
    BY <2>1, <2>3, <2>4
<1>12. /\ \A k \in S : cell(k) \in Cells \ {Raw}
       /\ \A i \in S : pl[i] \in S /\ cell(pl[i]) = at(i)
  <2> HIDE DEF place, at, S
  <2>1. \A i \in S : place(i) = pl[i]
    BY <1>10
  <2>2. ASSUME NEW k \in S PROVE cell(k) \in Cells \ {Raw}
    <3>1. \E i \in S : place(i) = k
      BY <1>11, <2>1 DEF Places
    <3>2. (CHOOSE i \in S : place(i) = k) \in S
      BY <3>1
    <3> QED
      BY <1>6, <3>2
  <2>3. ASSUME NEW i \in S PROVE pl[i] \in S /\ cell(pl[i]) = at(i)
    <3>1. PICK k : k = pl[i]
      OBVIOUS
    <3>2. k \in S /\ place(i) = k
      BY <1>11, <2>1, <3>1 DEF Places
    <3>3. PICK h : h = (CHOOSE g \in S : place(g) = k)
      OBVIOUS
    <3>4. h \in S /\ place(h) = k
      BY <3>2, <3>3
    <3>5. pl[h] = pl[i]
      BY <2>1, <3>1, <3>4
    <3>6. h = i
      BY <1>11, <3>4, <3>5 DEF Places
    <3>7. cell(k) = at(h)
      BY <3>3
    <3> QED
      BY <3>1, <3>2, <3>6, <3>7
  <2> QED
    BY <2>2, <2>3
<1>13. PICK f : f = [k \in S |-> cell(k)]
  OBVIOUS
<1>14. f \in [S -> Cells \ {Raw}]
  <2> HIDE DEF cell
  <2> QED
    BY <1>12, <1>13
<1>15. PICK e : e = EditArray(Memory, w, b)
  OBVIOUS
<1>16. PICK p : p = Assigned(e.memory, e.vector.storage, S, f)
  OBVIOUS
<1>17. p = order(e.memory, e.vector.storage)
  <2> HIDE DEF cell
  <2>1. \A k \in S : f[k] = cell(k)
    BY <1>13
  <2> QED
    BY <1>16, <2>1 DEF Update, Assigned
<1>18. ASSUME Edited(Memory, w, e)
       PROVE  /\ Rewrites(e.memory, e.vector.storage, S, p)
              /\ \A k \in S : p.heap[e.vector.storage].slots[k] = f[k]
  <2>1. PICK q, c : q = e.memory /\ c = e.vector.storage
    OBVIOUS
  <2>2. q \in MemoryType /\ q.sound = TRUE /\ c \in Blocks
    BY <1>18, <2>1 DEF Edited, Alone
  <2>3. Memory.heap = heap
    BY MemoryIs
  <2>4. S \subseteq DOMAIN q.heap[c].slots
    BY <1>5, <1>18, <2>1, <2>3 DEF Edited
  <2>5. ASSUME ~trivial, NEW k \in S PROVE q.heap[c].slots[k] # Raw
    <3>1. q.heap[c].slots[k] = at(k)
      BY <1>18, <2>1, <2>3 DEF Edited
    <3> QED
      BY <1>1, <3>1
  <2>6. p = Assigned(q, c, S, f)
    BY <1>16, <2>1
  <2>7. Rewrites(q, c, S, p) /\ \A k \in S : p.heap[c].slots[k] = f[k]
    <3>1. PICK N \in Nat : N = n
      BY <1>3
    <3>2. PICK T : T = S
      OBVIOUS
    <3>3. T = Slots(0, N)
      BY <3>1, <3>2
    <3> HIDE DEF S
    <3>4. /\ Slots(0, N) \subseteq DOMAIN q.heap[c].slots
          /\ ~trivial => \A k \in Slots(0, N) : q.heap[c].slots[k] # Raw
          /\ f \in [Slots(0, N) -> Cells \ {Raw}]
          /\ p = Assigned(q, c, Slots(0, N), f)
      BY <1>14, <2>4, <2>5, <2>6, <3>3, <3>2
    <3>5. Written(q, c, Slots(0, N), f, p)
      BY <2>2, <3>4, SortedItems
    <3> QED
      BY <3>3, <3>5, <3>2 DEF Written
  <2> QED
    BY <2>1, <2>7
<1>19. PICK r : r = IF e.where \in {NoMemory, Abort} THEN e ELSE [e EXCEPT !.memory = p]
  OBVIOUS
<1>20. Do(v, r)
  <2> HIDE DEF cell
  <2> QED
    BY <1>2, <1>15, <1>17, <1>19 DEF Fill
<1>21. PICK m, u, x, T : m = Memory /\ u = w /\ x = e.vector /\ T = S
  OBVIOUS
<1>22. IInv' /\ Edited(m, u, e) /\ Becomes(v, SeqOf(p, x)) /\ Valid(m, u) /\ Valid(p, x)
  <2> HIDE DEF S
  <2>1. Edited(Memory, vec[v], e) => Rewrites(e.memory, e.vector.storage, T, p)
    BY <1>18, <1>21
  <2>2. /\ IInv' /\ Edited(Memory, vec[v], e) /\ Becomes(v, SeqOf(p, e.vector))
        /\ Valid(Memory, vec[v]) /\ Valid(p, e.vector)
    BY <1>4, <1>15, <1>19, <1>20, <2>1, EditInv
  <2> QED
    BY <1>21, <2>2
<1>23. HoldsBut(m, u, p, x, T)
  <2>1. Rewrites(e.memory, e.vector.storage, T, p)
    <3> HIDE DEF S
    <3> QED
      BY <1>18, <1>21, <1>22
  <2>2. Valid(p, e.vector)
    BY <1>21, <1>22
  <2>3. HoldsBut(m, u, p, e.vector, T)
    BY <1>22, <2>1, <2>2, EditedSequence
  <2> QED
    BY <1>21, <2>3
<1>24. PICK N \in Nat : N = n
  BY <1>3
<1>25. PICK s, t : s = SeqOf(m, u) /\ t = SeqOf(p, x)
  OBVIOUS
<1>26. s \in Seq(Cells) /\ t \in Seq(Cells) /\ Len(s) = N /\ Len(t) = N
  BY <1>21, <1>23, <1>25, <1>24 DEF HoldsBut
<1>27. ASSUME NEW i \in Slots(0, N) PROVE s[i + 1] = at(i) /\ t[i + 1] = f[i]
  <2>1. PICK k \in 1..N : k = i + 1 /\ k - 1 = i
    BY DEF Slots
  <2>2. s[k] = m.heap[u.storage].slots[k - 1] /\ t[k] = p.heap[x.storage].slots[k - 1]
    BY <1>21, <1>23, <1>25, <1>24 DEF HoldsBut
  <2>3. p.heap[x.storage].slots[i] = f[i]
    BY <1>18, <1>21, <1>22, <1>25, <1>24
  <2>4. m.heap[u.storage].slots[i] = at(i)
    BY <1>21, MemoryIs
  <2> QED
    BY <2>1, <2>2, <2>3, <2>4
<1>28. S = Slots(0, N)
  BY <1>25, <1>24
<1>29. \A i \in Slots(0, N) : key[i] = Key(s[i + 1]) /\ t[pl[i] + 1] = s[i + 1]
  <2> HIDE DEF S, at, cell
  <2>1. ASSUME NEW i \in S PROVE t[pl[i] + 1] = s[i + 1]
    <3>1. PICK k : k = pl[i]
      OBVIOUS
    <3>2. k \in S /\ f[k] = at(i)
      BY <1>12, <1>13, <3>1
    <3> QED
      BY <1>27, <1>28, <3>1, <3>2
  <2>2. ASSUME NEW i \in S PROVE key[i] = Key(s[i + 1])
    BY <1>7, <1>27, <1>28
  <2> QED
    BY <1>28, <2>1, <2>2
<1>30. Abstract!Sorted(s, t)
  <2> HIDE DEF S
  <2>1. Places(Slots(0, N), key, pl)
    BY <1>11, <1>28
  <2> QED
    <3>1. /\ \A i \in Slots(0, N) : key[i] = Key(s[i + 1])
          /\ \A i \in Slots(0, N) : t[pl[i] + 1] = s[i + 1]
      BY <1>29
    <3> QED
      BY <1>26, <2>1, <3>1, OrderedSequence, SMTT(60)
<1>31. s = Sequence(v)
  BY <1>21, <1>25, <1>24, SequenceIs
<1> QED
  BY <1>22, <1>25, <1>24, <1>30, <1>31 DEF Step, Promised

-----------------------------------------------------------------------------
(* The theorems. *)

\* The vectors begin empty.
LEMMA InitRefines == ASSUME Init PROVE Abstract!SpecInit
<1>1. ASSUME NEW v \in Vectors PROVE Sequence(v) = << >>
  <2>1. vec[v].count = 0
    BY VectorAssumption DEF Init, NoVector
  <2>2. vec[v].count = 0 => Sequence(v) = [i \in 1..0 |-> heap[vec[v].storage].slots[i - 1]]
    BY DEF Sequence
  <2> QED
    BY <2>1, <2>2
<1>2. [v \in Vectors |-> Sequence(v)] = [v \in Vectors |-> << >>]
  BY <1>1
<1> QED
  BY <1>2 DEF Abstract!SpecInit

OnlyCells == \A v \in Vectors : Sequence(v) \in Seq(Cells)

\* Every vector is a sequence of cells.
LEMMA SequencesHoldCells == ASSUME IInv PROVE OnlyCells
<1>1. ASSUME NEW v \in Vectors PROVE Valid(Memory, vec[v])
  <2>1. State(Memory, vec)
    BY DEF IInv
  <2> QED
    BY <2>1, ValidVector
<1>2. ASSUME NEW v \in Vectors PROVE SeqOf(Memory, vec[v]) \in Seq(Cells)
  <2>1. PICK m, w : m = Memory /\ w = vec[v]
    OBVIOUS
  <2>2. Valid(m, w)
    BY <1>1, <2>1
  <2> QED
    BY <2>1, <2>2, SequenceType
<1> QED
  BY <1>2, SequenceIs DEF OnlyCells

\* A step of the code is a step of the sequences.
LEMMA StepRefines == ASSUME OnlyCells', NEW v \in Vectors, Step(v) PROVE Abstract!SpecNext
<1>1. PICK t : Becomes(v, t) /\ Promised(Sequence(v), t)
  BY DEF Step
<1>2. \A u \in Vectors : Sequence(u)' \in Seq(Cells)
  BY DEF OnlyCells
<1> DEFINE before == [u \in Vectors |-> Sequence(u)]
           after == [u \in Vectors |-> Sequence(u)']
<1>3. /\ after \in [Vectors -> Seq(Items \cup {Raw})] /\ before[v] = Sequence(v) /\ after[v] = t
      /\ \A u \in Vectors : before[u] = Sequence(u)
  BY <1>1, <1>2 DEF Becomes, Cells
<1>4. \A u \in Vectors \ {v} : after[u] = before[u]
  BY <1>1 DEF Becomes
<1>5. \/ Abstract!Inserted(before[v], after[v]) \/ Abstract!Removed(before[v], after[v])
      \/ Abstract!Replaced(before[v], after[v]) \/ Abstract!Sorted(before[v], after[v])
      \/ \E u \in Vectors : after[v] = before[u]
  <2> HIDE DEF before, after
  <2> QED
    BY <1>1, <1>3 DEF Promised
<1>6. before' = after
  OBVIOUS
<1> HIDE DEF after
<1>7. \E u \in Vectors :
        /\ before' \in [Vectors -> Seq(Items \cup {Raw})]
        /\ \A o \in Vectors \ {u} : before'[o] = before[o]
        /\ \/ Abstract!Inserted(before[u], before'[u]) \/ Abstract!Removed(before[u], before'[u])
           \/ Abstract!Replaced(before[u], before'[u]) \/ Abstract!Sorted(before[u], before'[u])
           \/ \E o \in Vectors : before'[u] = before[o]
  <2> HIDE DEF before
  <2> QED
    BY <1>3, <1>4, <1>5, <1>6
<1> QED
  BY <1>7, Zenon DEF Abstract!SpecNext

\* A step of the code keeps the invariant and is a step of one vector.
LEMMA NextInv == ASSUME IInv, [Next]_vars PROVE IInv' /\ (UNCHANGED vars \/ \E v \in Vectors : Step(v))
<1>1. ASSUME UNCHANGED vars PROVE IInv'
  BY <1>1 DEF vars, IInv, State, Fits, Gapped, Holders, Memory
<1>2. ASSUME NEW v \in Vectors, FinishVector(v) PROVE IInv' /\ Step(v)
  BY <1>2, FinishVectorInv
<1>3. ASSUME NEW v \in Vectors, InsertAt(v) PROVE IInv' /\ Step(v)
  BY <1>3, InsertAtInv
<1>4. ASSUME NEW v \in Vectors, Push(v) PROVE IInv' /\ Step(v)
  BY <1>4, PushInv
<1>5. ASSUME NEW v \in Vectors, Pop(v) PROVE IInv' /\ Step(v)
  BY <1>5, PopInv
<1>6. ASSUME NEW v \in Vectors, Resize(v) PROVE IInv' /\ Step(v)
  BY <1>6, ResizeInv
<1>7. ASSUME NEW v \in Vectors, ReplaceAt(v) PROVE IInv' /\ Step(v)
  <2>1. CASE ~EditOnly(v)
    BY <1>7, <2>1, ReplaceAtInv
  <2>2. CASE EditOnly(v)
    <3>1. PICK i \in 0..vec[v].count - 1 : TRUE
      BY <1>7 DEF ReplaceAt
    <3> QED
      BY <2>2, <3>1, CountedIsStored, EditOnlyInv
  <2> QED
    BY <2>1, <2>2
<1>8. ASSUME NEW v \in Vectors, EditItem(v) PROVE IInv' /\ Step(v)
  BY <1>8, EditItemInv
<1>9. ASSUME NEW v \in Vectors, RemoveItemsAt(v) PROVE IInv' /\ Step(v)
  BY <1>9, RemoveItemsAtInv
<1>10. ASSUME NEW v \in Vectors, Clear(v) PROVE IInv' /\ Step(v)
  BY <1>10, ClearInv
<1>11. ASSUME NEW v \in Vectors, SetCapacity(v) PROVE IInv' /\ Step(v)
  BY <1>11, SetCapacityInv
<1>12. ASSUME NEW v \in Vectors, Sort(v) PROVE IInv' /\ Step(v)
  <2>1. CASE ~EditOnly(v)
    BY <1>12, <2>1, SortInv
  <2>2. CASE EditOnly(v)
    <3>1. vec[v].count \in Nat
      BY DEF IInv, State
    <3>2. PICK i \in Slots(0, vec[v].count) : TRUE
      BY <1>12, Zenon DEF Sort
    <3>3. i \in 0..vec[v].count - 1
      BY <3>1 DEF Slots
    <3> QED
      BY <2>2, <3>3, CountedIsStored, EditOnlyInv
  <2> QED
    BY <2>1, <2>2
<1>13. ASSUME NEW v \in Vectors, NEW u \in Vectors, CopyConstruct(v, u) PROVE IInv' /\ Step(v)
  BY <1>13, CopyConstructInv
<1>14. ASSUME NEW v \in Vectors, NEW u \in Vectors, Assign(v, u) PROVE IInv' /\ Step(v)
  BY <1>14, AssignInv
<1>15. ASSUME NEW v \in Vectors, NEW u \in Vectors, InsertVectorAt(v, u) PROVE IInv' /\ Step(v)
  BY <1>15, InsertVectorAtInv
<1> QED
  BY <1>1, <1>2, <1>3, <1>7, <1>8, <1>9, <1>10, <1>11, <1>12, <1>13, <1>14, <1>15, <1>4, <1>5, <1>6, Zenon DEF Next

\* Every state the vectors reach satisfies the inductive invariant.
THEOREM Invariance == Spec => []IInv
<1>1. Init => IInv
  BY InitInv
<1>2. IInv /\ [Next]_vars => IInv'
  BY NextInv
<1> QED
  BY <1>1, <1>2, PTL DEF Spec

\* However many vectors share however many blocks, and whether or not malloc
\* succeeds, _grow, _shrink, editArrayImpl, release_storage and the calls built
\* on them never read, destroy or overwrite an item wrongly, leave a block or
\* free one with items in it.
THEOREM SoundMemory == Spec => []MemoryIsSound
<1>1. ASSUME IInv PROVE MemoryIsSound
  <2>1. State(Memory, vec) /\ trivial \in BOOLEAN /\ Memory \in MemoryType /\ Memory.heap = heap /\ Memory.sound = sound
    BY <1>1, MemoryIs DEF IInv, State
  <2>2. ASSUME NEW b \in Blocks
        PROVE  heap[b].refs \in Nat /\ \A i \in DOMAIN heap[b].slots : heap[b].slots[i] \in Items \cup {Raw}
    <3>1. Memory.heap[b].refs \in Nat /\ Memory.heap[b].slots \in [DOMAIN Memory.heap[b].slots -> Cells]
      BY <2>1, MemoryFacts
    <3>2. heap[b].refs \in Nat /\ heap[b].slots \in [DOMAIN heap[b].slots -> Cells]
      BY <2>1, <3>1
    <3> QED
      BY <3>2 DEF Cells
  <2>3. vec \in [Vectors -> [storage : Blocks \cup {None}, count : 0..MaxCount]] /\ sound = TRUE
    BY <2>1 DEF State
  <2> QED
    BY <2>1, <2>2, <2>3 DEF MemoryIsSound, TypeOK
<1> QED
  BY <1>1, Invariance, PTL

\* The destructors that run when a block is let go of run over exactly the
\* items in it, whichever vector lets go last: a block's count is the number of
\* vectors on it and its items are the slots below their count.
THEOREM CountedSlots == Spec => []SlotsMatchCount
<1>1. ASSUME IInv PROVE SlotsMatchCount
  <2>1. State(Memory, vec) /\ Memory.heap = heap
    BY <1>1, MemoryIs DEF IInv
  <2>2. ASSUME NEW b \in Blocks PROVE heap[b].refs = Cardinality({v \in Vectors : vec[v].storage = b})
    BY <2>1 DEF State, Holders
  <2>3. ASSUME NEW b \in Blocks, NEW v \in Vectors, vec[v].storage = b
        PROVE  /\ Slots(0, vec[v].count) \subseteq DOMAIN heap[b].slots
               /\ ~trivial => \A i \in DOMAIN heap[b].slots : heap[b].slots[i] # Raw <=> i < vec[v].count
    <3>1. Fits(Memory, vec[v]) /\ b # None
      BY <2>1, VectorAssumption DEF State
    <3>2. \A k : k \notin Slots(0, 0)
      BY DEF Slots
    <3> QED
      BY <2>1, <2>3, <3>1, <3>2 DEF Fits, Gapped
  <2> QED
    BY <2>2, <2>3 DEF SlotsMatchCount
<1> QED
  BY <1>1, Invariance, PTL

\* Vectors that share a block have the same count, so it does not matter which
\* of them destroys the items.
THEOREM AgreeingSharers == Spec => []SharersAgree
<1>1. IInv => SharersAgree
  BY DEF IInv, State, SharersAgree
<1> QED
  BY <1>1, Invariance, PTL

\* Each vector is a sequence of its own: however storage is shared, taken over
\* and grown, a call on a vector inserts, removes, replaces, sorts or copies the
\* items of that vector as it promises, or does nothing, and no other vector sees it.
THEOREM VectorsIndependent == Spec => VectorsAreSequences
<1>1. Init => Abstract!SpecInit
  BY InitRefines
<1>2. IInv => OnlyCells
  BY SequencesHoldCells
<1>3. IInv /\ OnlyCells' /\ [Next]_vars => [Abstract!SpecNext]_([v \in Vectors |-> Sequence(v)])
  <2>1. SUFFICES ASSUME IInv, OnlyCells', [Next]_vars
                 PROVE  Abstract!SpecNext \/ UNCHANGED [v \in Vectors |-> Sequence(v)]
    OBVIOUS
  <2>2. CASE UNCHANGED vars
    BY <2>2 DEF vars, Sequence
  <2>3. CASE \E v \in Vectors : Step(v)
    BY <2>1, <2>3, StepRefines
  <2> QED
    BY <2>1, <2>2, <2>3, NextInv
<1> QED
  BY <1>1, <1>2, <1>3, Invariance, PTL DEF Spec, VectorsAreSequences, Abstract!IndependentSequences
=============================================================================
