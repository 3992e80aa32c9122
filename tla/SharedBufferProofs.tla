------------------------- MODULE SharedBufferProofs -------------------------
(***************************************************************************)
(* Proofs about SharedBuffer for every finite set of owners and any blocks,*)
(* values and sizes: the reference count is exact, no pointer dangles, a   *)
(* block edited in place has one owner, nothing leaks, and the owners      *)
(* implement SharedBufferSpec.                                             *)
(***************************************************************************)
EXTENDS SharedBuffer, FiniteSetTheorems, TLAPS

Refs == Owners \X {"current", "fresh"}
MaybeBuffer == Buffers \cup {None}

LEMMA RefsFinite == IsFiniteSet(Refs)
<1>1. IsFiniteSet({"current", "fresh"})
  <2>1. IsFiniteSet({"current"})
    BY FS_Singleton
  <2>2. IsFiniteSet({"current"} \cup {"fresh"})
    BY <2>1, FS_AddElement
  <2>3. {"current"} \cup {"fresh"} = {"current", "fresh"}
    OBVIOUS
  <2> QED
    BY <2>2, <2>3
<1> QED BY <1>1, FS_Product, BufferAssumption DEF Refs

Fiber(f, b) == {r \in DOMAIN f : f[r] = b}

\* How many arguments b gains when one argument's value changes from old to new.
Gain(old, new, b) == (IF new = b THEN 1 ELSE 0) - (IF old = b THEN 1 ELSE 0)

\* f and g agree except perhaps at r.
OnlyAt(r, f, g) == \A s \in Refs \ {r} : g[s] = f[s]

\* Changing one argument of a function changes the number of arguments it maps
\* to b by at most one; this is what one step of acquire() or release() does to
\* the references of a block.
LEMMA FiberUpdate ==
  ASSUME NEW f \in [Refs -> MaybeBuffer], NEW g \in [Refs -> MaybeBuffer], NEW r \in Refs,
         OnlyAt(r, f, g), NEW b
  PROVE  /\ Cardinality(Fiber(f, b)) \in Nat
         /\ Cardinality(Fiber(g, b)) = Cardinality(Fiber(f, b)) + Gain(f[r], g[r], b)
<1>1. /\ IsFiniteSet(Fiber(f, b))
      /\ Cardinality(Fiber(f, b)) \in Nat
  BY RefsFinite, FS_Subset, FS_CardinalityType DEF Fiber
<1>2. CASE (f[r] = b) <=> (g[r] = b)
  <2>1. Fiber(g, b) = Fiber(f, b)
    BY <1>2 DEF Fiber, OnlyAt
  <2> QED BY <1>1, <1>2, <2>1 DEF Gain
<1>3. CASE f[r] = b /\ g[r] # b
  <2>1. Fiber(g, b) = Fiber(f, b) \ {r} /\ r \in Fiber(f, b)
    BY <1>3 DEF Fiber, OnlyAt
  <2>2. Cardinality(Fiber(g, b)) = Cardinality(Fiber(f, b)) - 1
    BY <1>1, <2>1, FS_RemoveElement
  <2>3. Gain(f[r], g[r], b) = 0 - 1
    BY <1>3 DEF Gain
  <2> QED BY <1>1, <2>2, <2>3
<1>4. CASE f[r] # b /\ g[r] = b
  <2>1. Fiber(g, b) = Fiber(f, b) \cup {r} /\ r \notin Fiber(f, b)
    BY <1>4 DEF Fiber, OnlyAt
  <2>2. Cardinality(Fiber(g, b)) = Cardinality(Fiber(f, b)) + 1
    BY <1>1, <2>1, FS_AddElement
  <2>3. Gain(f[r], g[r], b) = 1
    BY <1>4 DEF Gain
  <2> QED BY <1>1, <2>2, <2>3
<1> QED BY <1>2, <1>3, <1>4

-----------------------------------------------------------------------------
LEMMA LenOfContents ==
  ASSUME NEW c \in Contents
  PROVE  Len(c) \in Sizes \cup {0}
<1>1. PICK n \in Sizes \cup {0} : c \in [1..n -> Cells]
  BY DEF Contents
<1>2. n \in Nat
  BY <1>1, BufferAssumption
<1>3. c \in Seq(Cells) /\ DOMAIN c = 1..n
  BY <1>1, <1>2
<1>4. Len(c) = n
  BY <1>2, <1>3
<1> QED BY <1>1, <1>4

LEMMA CopyIsContents ==
  ASSUME NEW c \in Contents, NEW n \in Sizes \cup {0}
  PROVE  CopyOf(c, n) \in Contents /\ Uninitialized(n) \in Contents
<1>1. PICK m \in Sizes \cup {0} : c \in [1..m -> Cells]
  BY DEF Contents
<1>2. m \in Nat /\ n \in Nat
  BY <1>1, BufferAssumption
<1>3. c \in Seq(Cells) /\ DOMAIN c = 1..m
  BY <1>1, <1>2
<1>4. Len(c) = m
  BY <1>2, <1>3
<1>5. CopyOf(c, n) \in [1..n -> Cells]
  BY <1>1, <1>2, <1>4 DEF CopyOf, Cells
<1>6. Uninitialized(n) \in [1..n -> Cells]
  BY DEF Uninitialized, Cells
<1> QED BY <1>5, <1>6 DEF Contents

LEMMA WriteIsContents ==
  ASSUME NEW c \in Contents, NEW i \in DOMAIN c, NEW v \in Values
  PROVE  [c EXCEPT ![i] = v] \in Contents
BY DEF Contents, Cells

LEMMA EmptyIsContents == << >> \in Contents
<1>1. << >> \in [1..0 -> Cells]
  OBVIOUS
<1> QED BY <1>1 DEF Contents

LEMMA TypeInit == Init => TypeOK
BY EmptyIsContents DEF Init, TypeOK, NoReq, Requests, Phases

LEMMA TypeStep == TypeOK /\ [Next]_vars => TypeOK'
<1> SUFFICES ASSUME TypeOK, [Next]_vars PROVE TypeOK'
  OBVIOUS
<1> USE DEF TypeOK, Goto, Phases, Exclusive, Releasing, Doomed
<1>1. NoReq \in Requests
  BY DEF NoReq, Requests
<1>2. ASSUME NEW o \in Owners, NEW n \in Sizes \cup {0}, NEW keep \in BOOLEAN,
             NEW copy \in BOOLEAN, Call(o, n, keep, copy)
      PROVE  req' \in [Owners -> Requests]
  BY <1>2 DEF Call, Requests
<1>3. ASSUME NEW o \in Owners, Finish(o)
      PROVE  /\ handle' \in [Owners -> Buffers \cup {None}]
             /\ fresh' \in [Owners -> Buffers \cup {None}]
             /\ req' \in [Owners -> Requests]
             /\ pc' \in [Owners -> Phases]
             /\ \A q \in Owners : pc'[q] # "idle" => handle'[q] # None
  BY <1>3, <1>1, BufferAssumption DEF Finish
<1>4. ASSUME NEW o \in Owners, Alloc(o) PROVE TypeOK'
  BY <1>4, CopyIsContents, EmptyIsContents DEF Alloc, Malloc
<1>5. ASSUME NEW o \in Owners, NEW p \in Owners, Acquire(o, p) PROVE TypeOK'
  BY <1>5 DEF Acquire
<1>6. ASSUME NEW o \in Owners, Edit(o) \/ EditArray(o) PROVE TypeOK'
  <2>1. handle[o] \in Buffers
    BY <1>6 DEF Edit, EditArray, Call
  <2>2. mSize(handle[o]) \in Sizes \cup {0}
    BY <2>1, LenOfContents DEF mSize
  <2>3. req' \in [Owners -> Requests]
    BY <1>2, <1>6, <2>2 DEF Edit, EditArray
  <2> QED BY <1>6, <2>3 DEF Edit, EditArray, Call
<1>7. ASSUME NEW o \in Owners, EditResize(o) \/ Reset(o) \/ Release(o) PROVE TypeOK'
  <2>1. req' \in [Owners -> Requests]
    BY <1>2, <1>7, ZenonT(60) DEF EditResize, Reset, Release
  <2> QED BY <1>7, <2>1 DEF EditResize, Reset, Release, Call
<1>8. ASSUME NEW o \in Owners, Realloc(o) PROVE TypeOK'
  <2>1. PICK b \in (Buffers \ live) \cup {handle[o]} :
          /\ live' = (live \ {handle[o]}) \cup {b}
          /\ mRefs' = [mRefs EXCEPT ![handle[o]] = 0, ![b] = 1]
          /\ data' = [data EXCEPT ![handle[o]] = << >>,
                                  ![b] = CopyOf(data[handle[o]], req[o].size)]
          /\ handle' = [handle EXCEPT ![o] = b]
    BY <1>8 DEF Realloc
  <2>2. req[o].size \in Sizes \cup {0}
    BY DEF Requests
  <2>3. handle[o] \in Buffers /\ b \in Buffers
    BY <1>8, <2>1 DEF Realloc
  <2>4. CopyOf(data[handle[o]], req[o].size) \in Contents
    BY <2>2, <2>3, CopyIsContents
  <2> QED BY <1>1, <1>8, <2>1, <2>3, <2>4, EmptyIsContents, BufferAssumption DEF Realloc
<1>9. ASSUME NEW o \in Owners, ReallocFails(o) PROVE TypeOK'
  BY <1>9 DEF ReallocFails
<1>10. ASSUME NEW o \in Owners, AllocFresh(o) PROVE TypeOK'
  <2>1. req[o].size \in Sizes \cup {0}
    BY DEF Requests
  <2> QED BY <1>10, <2>1, CopyIsContents, EmptyIsContents DEF AllocFresh, Malloc
<1>11. ASSUME NEW o \in Owners, AllocFails(o) PROVE TypeOK'
  BY <1>1, <1>11 DEF AllocFails
<1>12. ASSUME NEW o \in Owners, Memcpy(o) PROVE TypeOK'
  <2>1. req[o].size \in Sizes \cup {0} /\ handle[o] \in Buffers
    BY <1>12 DEF Requests, Memcpy
  <2>2. CopyOf(data[handle[o]], req[o].size) \in Contents
    BY <2>1, CopyIsContents
  <2> QED BY <1>12, <2>2 DEF Memcpy
<1>13. ASSUME NEW o \in Owners, ReleaseCheck(o) PROVE TypeOK'
  BY <1>13 DEF ReleaseCheck
<1>14. ASSUME NEW o \in Owners, Decrement(o) PROVE TypeOK'
  <2>1. handle[o] \in Buffers
    BY <1>14 DEF Decrement
  <2>2. mRefs' \in [Buffers -> Int]
    BY <1>14, <2>1 DEF Decrement
  <2>3. CASE mRefs[handle[o]] = 1
    BY <1>14, <2>2, <2>3 DEF Decrement
  <2>4. CASE mRefs[handle[o]] # 1
    BY <1>14, <1>3, <2>2, <2>4 DEF Decrement
  <2> QED BY <2>3, <2>4
<1>15. ASSUME NEW o \in Owners, Zero(o) PROVE TypeOK'
  <2>1. CASE req[o].keep
    BY <1>15, <2>1 DEF Zero
  <2>2. CASE ~req[o].keep
    <3>1. live' \subseteq Buffers /\ data' \in [Buffers -> Contents]
      BY <1>15, <2>2, EmptyIsContents DEF Zero, Free
    <3>2. mRefs' \in [Buffers -> Int]
      BY <1>15 DEF Zero
    <3> QED BY <1>15, <1>3, <2>2, <3>1, <3>2 DEF Zero
  <2> QED BY <2>1, <2>2
<1>16. ASSUME NEW o \in Owners, Dealloc(o) PROVE TypeOK'
  BY <1>16, <1>3, EmptyIsContents DEF Dealloc, Free
<1>17. ASSUME NEW o \in Owners, Write(o) PROVE TypeOK'
  BY <1>1, <1>17, WriteIsContents DEF Write
<1>18. CASE UNCHANGED vars
  BY <1>18 DEF vars
<1> QED
  BY <1>4, <1>5, <1>6, <1>7, <1>8, <1>9, <1>10, <1>11, <1>12, <1>13, <1>14, <1>15,
     <1>16, <1>17, <1>18 DEF Next, Start, Step

\* The variables of SharedBuffer keep their types (SharedBuffer.cpp:31-124).
THEOREM TypeCorrect == Spec => []TypeOK
BY TypeInit, TypeStep, PTL DEF Spec

-----------------------------------------------------------------------------
(* The inductive invariant behind the safety properties. *)

\* No call allocates before its "alloc" step, and a returned call has handed
\* its block over.
FreshOnlyInside ==
  \A o \in Owners : pc[o] \in {"idle", "alloc", "write", "realloc"} => fresh[o] = None

\* The count an owner relies on cannot be stale: it is still 1 when the owner
\* uses the block, and still 0 when it frees it.
OneWhenExclusive ==
  \A o \in Owners :
    /\ pc[o] \in Exclusive => mRefs[handle[o]] = 1
    /\ fresh[o] # None => mRefs[fresh[o]] = 1

ZeroWhenDoomed ==
  \A o \in Owners : pc[o] \in Doomed =>
    /\ mRefs[handle[o]] = 0
    /\ \A q \in Owners \ {o} : pc[q] \in Doomed => handle[q] # handle[o]

ZeroMeansDoomed ==
  \A b \in live : mRefs[b] = 0 => \E o \in Owners : handle[o] = b /\ pc[o] \in Doomed

IInv ==
  /\ TypeOK
  /\ NoDanglingPointer
  /\ CountIsExact
  /\ FreshOnlyInside
  /\ OneWhenExclusive
  /\ ZeroWhenDoomed
  /\ ZeroMeansDoomed

\* Who may not share a block, in the form the steps use it.
Alone ==
  /\ \A o \in Owners : pc[o] \in Exclusive \cup Doomed =>
       /\ fresh[o] # handle[o]
       /\ \A q \in Owners \ {o} : handle[q] # handle[o] /\ fresh[q] # handle[o]
  /\ \A o \in Owners : fresh[o] # None =>
       \A q \in Owners : handle[q] # fresh[o] /\ (q # o => fresh[q] # fresh[o])

PointersAgree ==
  /\ Pointers \in [Refs -> MaybeBuffer]
  /\ \A o \in Owners :
       /\ <<o, "current">> \in Refs /\ <<o, "fresh">> \in Refs
       /\ Pointers[<<o, "fresh">>] = fresh[o]
       /\ Pointers[<<o, "current">>] = IF pc[o] \in Doomed THEN None ELSE handle[o]
  /\ \A b : References(b) = Fiber(Pointers, b)

LEMMA PointersType == TypeOK => PointersAgree
BY DEF PointersAgree, Refs, MaybeBuffer, Pointers, References, Fiber, TypeOK

LEMMA PointersTypeNext == TypeOK' => PointersAgree'
BY PointersType, PTL

\* A count of one leaves room for one reference, a count of zero for none.
LEMMA FewReferences ==
  ASSUME TypeOK, NEW b, NEW r \in References(b), NEW s \in References(b)
  PROVE  /\ Cardinality(References(b)) # 0
         /\ Cardinality(References(b)) = 1 => r[1] = s[1] /\ r[2] = s[2]
<1>1. IsFiniteSet(References(b))
  BY PointersType, RefsFinite, FS_Subset DEF Fiber, PointersAgree
<1> QED BY <1>1, FS_EmptySet, FS_Singleton

LEMMA AloneFromCounts ==
  ASSUME IInv
  PROVE  Alone
<1> USE DEF IInv
<1>0. \A o \in Owners :
        /\ fresh[o] # None => <<o, "fresh">> \in References(fresh[o])
        /\ pc[o] \notin Doomed => <<o, "current">> \in References(handle[o])
  BY PointersType DEF Fiber, PointersAgree, TypeOK
<1>1. ASSUME NEW o \in Owners, fresh[o] # None, NEW q \in Owners
      PROVE  handle[q] # fresh[o] /\ (q # o => fresh[q] # fresh[o])
  <2>1. fresh[o] \in live /\ Cardinality(References(fresh[o])) = 1 /\ mRefs[fresh[o]] = 1
    BY <1>1 DEF NoDanglingPointer, CountIsExact, OneWhenExclusive
  <2>2. ASSUME handle[q] = fresh[o] PROVE FALSE
    <3>1. pc[q] \notin Doomed
      BY <2>1, <2>2 DEF ZeroWhenDoomed
    <3>2. <<q, "current">> \in References(fresh[o]) /\ <<o, "fresh">> \in References(fresh[o])
      BY <1>0, <1>1, <2>2, <3>1
    <3>3. <<q, "current">>[2] = <<o, "fresh">>[2]
      BY <2>1, <3>2, FewReferences
    <3> QED BY <3>3
  <2>3. ASSUME q # o, fresh[q] = fresh[o] PROVE FALSE
    <3>1. <<q, "fresh">> \in References(fresh[o]) /\ <<o, "fresh">> \in References(fresh[o])
      BY <1>0, <1>1, <2>3
    <3>2. <<q, "fresh">>[1] = <<o, "fresh">>[1]
      BY <2>1, <3>1, FewReferences
    <3> QED BY <2>3, <3>2
  <2> QED BY <2>2, <2>3
<1>2. ASSUME NEW o \in Owners, pc[o] \in Exclusive \cup Doomed
      PROVE  /\ fresh[o] # handle[o]
             /\ \A q \in Owners \ {o} : handle[q] # handle[o] /\ fresh[q] # handle[o]
  <2>1. handle[o] # None
    BY <1>2 DEF TypeOK, Exclusive, Doomed
  <2>2. \A q \in Owners : fresh[q] # handle[o]
    BY <1>1, <2>1
  <2>3. ASSUME NEW q \in Owners \ {o}, handle[q] = handle[o] PROVE FALSE
    <3>1. CASE pc[o] \in Doomed
      <4>1. mRefs[handle[o]] = 0 /\ pc[q] \notin Doomed
        BY <2>3, <3>1 DEF ZeroWhenDoomed
      <4>2. Cardinality(References(handle[o])) = 0
        BY <2>1, <4>1 DEF NoDanglingPointer, CountIsExact
      <4>3. <<q, "current">> \in References(handle[o])
        BY <1>0, <2>3, <4>1
      <4> QED BY <4>2, <4>3, FewReferences
    <3>2. CASE pc[o] \in Exclusive
      <4>1. mRefs[handle[o]] = 1 /\ pc[o] \notin Doomed
        BY <3>2 DEF OneWhenExclusive, Exclusive, Doomed
      <4>2. pc[q] \notin Doomed
        BY <2>3, <4>1 DEF ZeroWhenDoomed
      <4>3. Cardinality(References(handle[o])) = 1
        BY <2>1, <4>1 DEF NoDanglingPointer, CountIsExact
      <4>4. <<q, "current">> \in References(handle[o]) /\ <<o, "current">> \in References(handle[o])
        BY <1>0, <2>3, <4>1, <4>2
      <4>5. <<q, "current">>[1] = <<o, "current">>[1]
        BY <4>3, <4>4, FewReferences
      <4> QED BY <2>3, <4>5
    <3> QED BY <1>2, <3>1, <3>2
  <2> QED BY <2>2, <2>3
<1> QED BY <1>1, <1>2 DEF Alone

-----------------------------------------------------------------------------
(* How a step changes the references. *)

LEMMA OnePointerMoves ==
  ASSUME TypeOK, TypeOK', NEW r \in Refs, OnlyAt(r, Pointers, Pointers'), NEW b
  PROVE  Cardinality(References(b)') =
           Cardinality(References(b)) + Gain(Pointers[r], Pointers'[r], b)
<1>1. References(b)' = Fiber(Pointers', b) /\ References(b) = Fiber(Pointers, b)
  BY DEF References, Fiber
<1>2. Pointers \in [Refs -> MaybeBuffer] /\ Pointers' \in [Refs -> MaybeBuffer]
  BY PointersType, PointersTypeNext DEF PointersAgree
<1> QED BY <1>1, <1>2, FiberUpdate

LEMMA OnlyCurrentMoves ==
  ASSUME TypeOK, TypeOK', NEW o \in Owners, fresh' = fresh,
         \A q \in Owners \ {o} : handle'[q] = handle[q] /\ pc'[q] = pc[q]
  PROVE  OnlyAt(<<o, "current">>, Pointers, Pointers')
<1>1. ASSUME NEW q \in Owners
      PROVE  /\ Pointers'[<<q, "fresh">>] = Pointers[<<q, "fresh">>]
             /\ q # o => Pointers'[<<q, "current">>] = Pointers[<<q, "current">>]
  BY PointersType, PointersTypeNext DEF PointersAgree
<1>2. ASSUME NEW r \in Refs \ {<<o, "current">>} PROVE Pointers'[r] = Pointers[r]
  <2>1. PICK q \in Owners, k \in {"current", "fresh"} : r = <<q, k>>
    BY DEF Refs
  <2> QED BY <1>1, <1>2, <2>1
<1> QED BY <1>2 DEF OnlyAt

LEMMA OnlyFreshMoves ==
  ASSUME TypeOK, TypeOK', NEW o \in Owners, handle' = handle,
         \A q \in Owners : pc'[q] \in Doomed <=> pc[q] \in Doomed,
         \A q \in Owners \ {o} : fresh'[q] = fresh[q]
  PROVE  OnlyAt(<<o, "fresh">>, Pointers, Pointers')
<1>1. ASSUME NEW q \in Owners
      PROVE  /\ Pointers'[<<q, "current">>] = Pointers[<<q, "current">>]
             /\ q # o => Pointers'[<<q, "fresh">>] = Pointers[<<q, "fresh">>]
  BY PointersType, PointersTypeNext DEF PointersAgree
<1>2. ASSUME NEW r \in Refs \ {<<o, "fresh">>} PROVE Pointers'[r] = Pointers[r]
  <2>1. PICK q \in Owners, k \in {"current", "fresh"} : r = <<q, k>>
    BY DEF Refs
  <2> QED BY <1>1, <1>2, <2>1
<1> QED BY <1>2 DEF OnlyAt

LEMMA CountIsNat ==
  ASSUME TypeOK, NEW b
  PROVE  Cardinality(References(b)) \in Nat
<1>1. References(b) = Fiber(Pointers, b)
  BY DEF References, Fiber
<1>2. IsFiniteSet(Refs) /\ Pointers \in [Refs -> MaybeBuffer]
  BY PointersType, RefsFinite DEF PointersAgree
<1>3. IsFiniteSet(References(b))
  BY <1>1, <1>2, FS_Subset DEF Fiber
<1> QED BY <1>3, FS_CardinalityType

\* Finishing a call hands the fresh block over and gives the old one up.
LEMMA FinishMovesPointers ==
  ASSUME TypeOK, TypeOK', NEW o \in Owners, Finish(o), NEW b \in Buffers
  PROVE  Cardinality(References(b)') =
           IF pc[o] \notin Doomed /\ handle[o] = b
           THEN Cardinality(References(b)) - 1 ELSE Cardinality(References(b))
<1> DEFINE cur == <<o, "current">>
           new == <<o, "fresh">>
           f == [r \in Refs |-> IF r = cur THEN fresh[o] ELSE Pointers[r]]
<1>1. /\ handle' = [handle EXCEPT ![o] = fresh[o]]
      /\ fresh' = [fresh EXCEPT ![o] = None]
      /\ pc'[o] \notin Doomed
      /\ \A q \in Owners \ {o} : pc'[q] = pc[q]
  BY DEF Finish, Goto, TypeOK, Doomed
<1>2. /\ cur \in Refs /\ new \in Refs /\ cur # new
      /\ Pointers \in [Refs -> MaybeBuffer] /\ Pointers' \in [Refs -> MaybeBuffer]
      /\ f \in [Refs -> MaybeBuffer]
  BY PointersType, PointersTypeNext DEF PointersAgree, Refs, MaybeBuffer, TypeOK
<1>3. /\ Pointers[new] = fresh[o]
      /\ Pointers[cur] = IF pc[o] \in Doomed THEN None ELSE handle[o]
      /\ Pointers'[new] = None
      /\ Pointers'[cur] = fresh[o]
      /\ f[cur] = fresh[o] /\ f[new] = fresh[o]
  BY <1>1, <1>2, PointersType, PointersTypeNext DEF TypeOK, PointersAgree
<1>4. OnlyAt(cur, Pointers, f)
  BY DEF OnlyAt
<1>5. OnlyAt(new, f, Pointers')
  <2>1. ASSUME NEW q \in Owners, q # o
        PROVE  /\ Pointers'[<<q, "current">>] = Pointers[<<q, "current">>]
               /\ Pointers'[<<q, "fresh">>] = Pointers[<<q, "fresh">>]
    BY <1>1, <2>1, PointersType, PointersTypeNext DEF TypeOK, PointersAgree
  <2>2. ASSUME NEW r \in Refs \ {new} PROVE Pointers'[r] = f[r]
    <3>1. PICK q \in Owners, k \in {"current", "fresh"} : r = <<q, k>>
      BY DEF Refs
    <3>2. CASE q = o
      BY <1>3, <2>2, <3>1, <3>2
    <3>3. CASE q # o
      BY <2>1, <2>2, <3>1, <3>3
    <3> QED BY <3>2, <3>3
  <2> QED BY <2>2 DEF OnlyAt
<1> HIDE DEF f, cur, new
<1>6. Cardinality(Fiber(f, b)) = Cardinality(Fiber(Pointers, b)) + Gain(Pointers[cur], f[cur], b)
  BY <1>2, <1>4, FiberUpdate
<1>7. Cardinality(Fiber(Pointers', b)) = Cardinality(Fiber(f, b)) + Gain(f[new], Pointers'[new], b)
  BY <1>2, <1>5, FiberUpdate
<1>8. References(b)' = Fiber(Pointers', b) /\ References(b) = Fiber(Pointers, b)
  BY DEF References, Fiber
<1>9. Cardinality(References(b)) \in Nat /\ None # b
  BY CountIsNat, BufferAssumption
<1> QED BY <1>3, <1>6, <1>7, <1>8, <1>9 DEF Gain

\* A step that moves no pointer: only the phase of one owner changes.
LEMMA QuietStep ==
  ASSUME IInv, TypeOK', NEW o \in Owners, NEW phase \in Phases \ Doomed,
         UNCHANGED <<live, mRefs, handle, fresh>>,
         pc[o] \notin Doomed, Goto(o, phase),
         phase \in Exclusive => mRefs[handle[o]] = 1,
         phase \in {"idle", "alloc", "write", "realloc"} => fresh[o] = None
  PROVE  IInv'
<1> USE DEF IInv
<1>1. \A q \in Owners : /\ pc[q] \in Doomed <=> pc'[q] \in Doomed
                        /\ q # o => pc'[q] = pc[q]
                        /\ pc'[o] = phase
  BY DEF TypeOK, Goto
<1>2. Pointers' = Pointers
  BY <1>1 DEF Pointers
<1>3. \A b : References(b)' = References(b)
  BY <1>2 DEF References
<1>4. NoDanglingPointer'
  BY DEF NoDanglingPointer
<1>5. CountIsExact'
  BY <1>3 DEF CountIsExact
<1>6. FreshOnlyInside'
  BY <1>1 DEF FreshOnlyInside
<1>7. OneWhenExclusive'
  BY <1>1 DEF OneWhenExclusive
<1>8. ZeroWhenDoomed'
  BY <1>1 DEF ZeroWhenDoomed
<1>9. ZeroMeansDoomed'
  BY <1>1 DEF ZeroMeansDoomed
<1> QED BY <1>4, <1>5, <1>6, <1>7, <1>8, <1>9

-----------------------------------------------------------------------------
(* Every step preserves the invariant. *)

LEMMA SafeInit == Init => IInv
BY TypeInit DEF Init, IInv, NoDanglingPointer, CountIsExact, FreshOnlyInside,
   OneWhenExclusive, ZeroWhenDoomed, ZeroMeansDoomed, Exclusive, Doomed

LEMMA StartIsQuiet ==
  ASSUME IInv, TypeOK', NEW o \in Owners,
         Edit(o) \/ EditArray(o) \/ EditResize(o) \/ Reset(o) \/ Release(o)
  PROVE  IInv'
<1>1. /\ pc[o] = "idle" /\ pc[o] \notin Doomed /\ fresh[o] = None
      /\ UNCHANGED <<live, mRefs, handle, fresh>>
  BY DEF IInv, FreshOnlyInside, Edit, EditArray, EditResize, Reset, Release, Call, Doomed
<1>2. PICK phase \in {"write", "alloc", "realloc", "rel"} :
        /\ Goto(o, phase)
        /\ phase \in {"write", "realloc"} => mRefs[handle[o]] = 1
  <2>1. CASE Edit(o) \/ EditArray(o)
    BY <2>1 DEF Edit, EditArray, OnlyOwner
  <2>2. CASE EditResize(o)
    BY <2>2 DEF EditResize, OnlyOwner
  <2>3. CASE Reset(o) \/ Release(o)
    BY <2>3 DEF Reset, Release
  <2> QED BY <2>1, <2>2, <2>3
<1>3. phase \in Phases \ Doomed /\ (phase \in Exclusive => mRefs[handle[o]] = 1)
  BY <1>2 DEF Phases, Exclusive, Releasing, Doomed
<1> QED BY <1>1, <1>2, <1>3, QuietStep

LEMMA MiddleIsQuiet ==
  ASSUME IInv, TypeOK', NEW o \in Owners,
         ReallocFails(o) \/ AllocFails(o) \/ Memcpy(o) \/ ReleaseCheck(o) \/ Write(o)
  PROVE  IInv'
<1>1. /\ pc[o] \in {"realloc", "alloc", "copy", "rel", "write"} /\ pc[o] \notin Doomed
      /\ pc[o] \in {"realloc", "alloc", "write"} => fresh[o] = None
      /\ UNCHANGED <<live, mRefs, handle, fresh>>
  BY DEF IInv, FreshOnlyInside, ReallocFails, AllocFails, Memcpy, ReleaseCheck, Write, Doomed
<1>2. PICK phase \in {"alloc", "idle", "rel", "sole", "dec"} :
        /\ Goto(o, phase)
        /\ phase = "sole" => mRefs[handle[o]] = 1
        /\ phase \in {"alloc", "idle"} => fresh[o] = None
  <2>1. CASE ReallocFails(o)
    BY <1>1, <2>1 DEF ReallocFails
  <2>2. CASE AllocFails(o)
    BY <1>1, <2>2 DEF AllocFails
  <2>3. CASE Memcpy(o)
    BY <2>3 DEF Memcpy
  <2>4. CASE ReleaseCheck(o)
    BY <2>4 DEF ReleaseCheck, OnlyOwner
  <2>5. CASE Write(o)
    BY <1>1, <2>5 DEF Write
  <2> QED BY <2>1, <2>2, <2>3, <2>4, <2>5
<1>3. phase \in Phases \ Doomed /\ (phase \in Exclusive => mRefs[handle[o]] = 1)
  BY <1>2 DEF Phases, Exclusive, Releasing, Doomed
<1>4. phase \in {"idle", "alloc", "write", "realloc"} => fresh[o] = None
  BY <1>2
<1> QED BY <1>1, <1>2, <1>3, <1>4, QuietStep

\* A block the allocator has just returned is known to nobody else.
LEMMA NewBlockIsUnknown ==
  ASSUME IInv, NEW b \in Buffers \ live
  PROVE  /\ Cardinality(References(b)) = 0
         /\ \A o \in Owners : handle[o] # b /\ fresh[o] # b
<1>1. \A o \in Owners : handle[o] # b /\ fresh[o] # b
  BY BufferAssumption DEF IInv, NoDanglingPointer
<1>2. References(b) = {}
  BY <1>1, BufferAssumption DEF References, Pointers
<1> QED BY <1>1, <1>2, FS_EmptySet

LEMMA AllocSafe ==
  ASSUME IInv, TypeOK', NEW o \in Owners, Alloc(o)
  PROVE  IInv'
<1> USE DEF IInv
<1>1. PICK b \in Buffers, n \in Sizes : Malloc(b, n) /\ handle' = [handle EXCEPT ![o] = b]
  BY DEF Alloc
<1>2. /\ b \notin live /\ live' = live \cup {b} /\ mRefs' = [mRefs EXCEPT ![b] = 1]
      /\ pc' = pc /\ fresh' = fresh /\ pc[o] = "idle" /\ handle[o] = None
      /\ mRefs'[b] = 1 /\ (\A c \in live : mRefs'[c] = mRefs[c])
  BY <1>1 DEF Malloc, Alloc, TypeOK
<1>3. Cardinality(References(b)) = 0 /\ \A q \in Owners : handle[q] # b /\ fresh[q] # b
  BY <1>2, NewBlockIsUnknown
<1>4. OnlyAt(<<o, "current">>, Pointers, Pointers')
  BY <1>1, <1>2, OnlyCurrentMoves DEF TypeOK
<1>5. /\ Pointers[<<o, "current">>] = None /\ Pointers'[<<o, "current">>] = b
      /\ <<o, "current">> \in Refs
  BY <1>1, <1>2, PointersType, PointersTypeNext DEF PointersAgree, TypeOK, Doomed
<1>6. \A c \in Buffers : Cardinality(References(c)') = Cardinality(References(c)) + (IF c = b THEN 1 ELSE 0)
  BY <1>4, <1>5, OnePointerMoves, BufferAssumption DEF Gain
<1>7. NoDanglingPointer'
  BY <1>1, <1>2 DEF NoDanglingPointer, TypeOK
<1>8. CountIsExact'
  <2>1. \A c \in Buffers : Cardinality(References(c)) \in Nat
    BY CountIsNat
  <2> QED BY <1>2, <1>3, <1>6, <2>1 DEF CountIsExact, TypeOK
<1>9. FreshOnlyInside'
  BY <1>2 DEF FreshOnlyInside
<1>10. OneWhenExclusive'
  <2>1. \A q \in Owners : pc[q] \in Exclusive => q # o /\ handle[q] \in live
    BY <1>2 DEF Exclusive, TypeOK, NoDanglingPointer
  <2>2. \A q \in Owners : fresh[q] # None => fresh[q] \in live
    BY DEF NoDanglingPointer
  <2> QED BY <1>1, <1>2, <2>1, <2>2 DEF OneWhenExclusive, TypeOK
<1>11. ZeroWhenDoomed'
  <2>1. \A q \in Owners : pc[q] \in Doomed => q # o /\ handle[q] \in live
    BY <1>2 DEF Doomed, TypeOK, NoDanglingPointer
  <2> QED BY <1>1, <1>2, <2>1 DEF ZeroWhenDoomed, TypeOK
<1>12. ZeroMeansDoomed'
  <2>1. ASSUME NEW c \in live', mRefs'[c] = 0
        PROVE  \E q \in Owners : handle'[q] = c /\ pc'[q] \in Doomed
    <3>1. c \in live /\ mRefs[c] = 0
      BY <1>2, <2>1
    <3>2. PICK q \in Owners : handle[q] = c /\ pc[q] \in Doomed
      BY <3>1 DEF ZeroMeansDoomed
    <3> QED BY <1>1, <1>2, <3>2 DEF Doomed, TypeOK
  <2> QED BY <2>1 DEF ZeroMeansDoomed
<1> QED BY <1>7, <1>8, <1>9, <1>10, <1>11, <1>12

LEMMA AcquireSafe ==
  ASSUME IInv, TypeOK', NEW o \in Owners, NEW p \in Owners, Acquire(o, p)
  PROVE  IInv'
<1> USE DEF IInv
<1> DEFINE b == handle[o]
<1>1. /\ b \in live /\ b \in Buffers /\ b # None /\ p # o
      /\ pc[o] = "idle" /\ pc[p] = "idle" /\ handle[p] = None
      /\ UNCHANGED <<live, fresh, pc>>
      /\ handle' = [handle EXCEPT ![p] = b] /\ mRefs' = [mRefs EXCEPT ![b] = mRefs[b] + 1]
  BY DEF Acquire, NoDanglingPointer, TypeOK
<1>2. OnlyAt(<<p, "current">>, Pointers, Pointers')
  BY <1>1, OnlyCurrentMoves DEF TypeOK
<1>3. /\ Pointers[<<p, "current">>] = None /\ Pointers'[<<p, "current">>] = b
      /\ <<p, "current">> \in Refs
  BY <1>1, PointersType, PointersTypeNext DEF PointersAgree, TypeOK, Doomed
<1>4. \A c \in Buffers : Cardinality(References(c)') = Cardinality(References(c)) + (IF c = b THEN 1 ELSE 0)
  BY <1>2, <1>3, OnePointerMoves, BufferAssumption DEF Gain
<1>5. Cardinality(References(b)) \in Nat /\ Cardinality(References(b)) # 0
  <2>1. <<o, "current">> \in References(b)
    <3>1. pc[o] \notin Doomed
      BY <1>1 DEF Doomed
    <3> QED BY <3>1, PointersType DEF PointersAgree, Fiber
  <2> QED BY <2>1, CountIsNat, FewReferences
<1>6. mRefs[b] \in Nat \ {0}
  BY <1>1, <1>5 DEF CountIsExact
\* Both threads are between calls, so nobody relied on the old count.
<1>7. /\ \A q \in Owners : pc[q] \in Exclusive => handle[q] # b
      /\ \A q \in Owners : fresh[q] # b
  BY <1>1, AloneFromCounts DEF Alone, Exclusive
<1>8. NoDanglingPointer'
  BY <1>1 DEF NoDanglingPointer, TypeOK
<1>9. CountIsExact'
  <2>1. \A c \in Buffers : Cardinality(References(c)) \in Nat
    BY CountIsNat
  <2> QED BY <1>1, <1>4, <2>1 DEF CountIsExact, TypeOK
<1>10. FreshOnlyInside'
  BY <1>1 DEF FreshOnlyInside
<1>11. OneWhenExclusive'
  <2>1. \A q \in Owners : pc[q] \in Exclusive => q # p /\ handle[q] \in Buffers
    BY <1>1 DEF Exclusive, TypeOK
  <2> QED BY <1>1, <1>7, <2>1 DEF OneWhenExclusive, TypeOK
<1>12. ZeroWhenDoomed'
  <2>1. \A q \in Owners : pc[q] \in Doomed => q # p /\ handle[q] # b /\ handle[q] \in Buffers
    BY <1>1, <1>6 DEF Doomed, ZeroWhenDoomed, TypeOK
  <2> QED BY <1>1, <2>1 DEF ZeroWhenDoomed, TypeOK
<1>13. ZeroMeansDoomed'
  <2>1. ASSUME NEW c \in live', mRefs'[c] = 0
        PROVE  \E q \in Owners : handle'[q] = c /\ pc'[q] \in Doomed
    <3>1. c \in live /\ c \in Buffers
      BY <1>1, <2>1 DEF TypeOK
    <3>2. c # b
      BY <1>1, <1>6, <2>1 DEF TypeOK
    <3>3. mRefs[c] = 0
      BY <1>1, <2>1, <3>1, <3>2 DEF TypeOK
    <3>4. PICK q \in Owners : handle[q] = c /\ pc[q] \in Doomed
      BY <3>1, <3>3 DEF ZeroMeansDoomed
    <3> QED BY <1>1, <3>4 DEF Doomed, TypeOK
  <2> QED BY <2>1 DEF ZeroMeansDoomed
<1> QED BY <1>8, <1>9, <1>10, <1>11, <1>12, <1>13

LEMMA AllocFreshSafe ==
  ASSUME IInv, TypeOK', NEW o \in Owners, AllocFresh(o)
  PROVE  IInv'
<1> USE DEF IInv
<1>1. PICK b \in Buffers : Malloc(b, req[o].size) /\ fresh' = [fresh EXCEPT ![o] = b]
  BY DEF AllocFresh
<1>2. /\ b \notin live /\ live' = live \cup {b} /\ handle' = handle /\ b # None
      /\ pc[o] = "alloc" /\ fresh[o] = None /\ pc'[o] \in {"copy", "rel"}
      /\ \A q \in Owners \ {o} : pc'[q] = pc[q]
      /\ mRefs'[b] = 1 /\ (\A c \in live : mRefs'[c] = mRefs[c])
  BY <1>1, BufferAssumption DEF Malloc, AllocFresh, Goto, TypeOK, FreshOnlyInside
<1>3. Cardinality(References(b)) = 0 /\ \A q \in Owners : handle[q] # b /\ fresh[q] # b
  BY <1>2, NewBlockIsUnknown
<1>4. OnlyAt(<<o, "fresh">>, Pointers, Pointers')
  BY <1>1, <1>2, OnlyFreshMoves DEF TypeOK, Doomed
<1>5. /\ Pointers[<<o, "fresh">>] = None /\ Pointers'[<<o, "fresh">>] = b
      /\ <<o, "fresh">> \in Refs
  BY <1>1, <1>2, PointersType, PointersTypeNext DEF PointersAgree, TypeOK
<1>6. \A c \in Buffers : Cardinality(References(c)') = Cardinality(References(c)) + (IF c = b THEN 1 ELSE 0)
  BY <1>4, <1>5, OnePointerMoves, BufferAssumption DEF Gain
<1>7. NoDanglingPointer'
  BY <1>1, <1>2 DEF NoDanglingPointer, TypeOK
<1>8. CountIsExact'
  <2>1. \A c \in Buffers : Cardinality(References(c)) \in Nat
    BY CountIsNat
  <2> QED BY <1>2, <1>3, <1>6, <2>1 DEF CountIsExact, TypeOK
<1>9. FreshOnlyInside'
  BY <1>1, <1>2 DEF FreshOnlyInside, TypeOK
<1>10. OneWhenExclusive'
  <2>1. \A q \in Owners : pc'[q] \in Exclusive => q # o /\ handle[q] \in live
    BY <1>2 DEF Exclusive, TypeOK, NoDanglingPointer
  <2>2. \A q \in Owners : fresh[q] # None => fresh[q] \in live
    BY DEF NoDanglingPointer
  <2> QED BY <1>1, <1>2, <2>1, <2>2 DEF OneWhenExclusive, TypeOK
<1>11. ZeroWhenDoomed'
  <2>1. \A q \in Owners : pc'[q] \in Doomed => q # o /\ pc[q] \in Doomed /\ handle[q] \in live
    BY <1>2 DEF Doomed, TypeOK, NoDanglingPointer
  <2> QED BY <1>1, <1>2, <2>1 DEF ZeroWhenDoomed, TypeOK
<1>12. ZeroMeansDoomed'
  <2>1. ASSUME NEW c \in live', mRefs'[c] = 0
        PROVE  \E q \in Owners : handle'[q] = c /\ pc'[q] \in Doomed
    <3>1. c \in live /\ mRefs[c] = 0
      BY <1>2, <2>1
    <3>2. PICK q \in Owners : handle[q] = c /\ pc[q] \in Doomed
      BY <3>1 DEF ZeroMeansDoomed
    <3> QED BY <1>1, <1>2, <3>2 DEF Doomed, TypeOK
  <2> QED BY <2>1 DEF ZeroMeansDoomed
<1> QED BY <1>7, <1>8, <1>9, <1>10, <1>11, <1>12

LEMMA ReallocSafe ==
  ASSUME IInv, TypeOK', NEW o \in Owners, Realloc(o)
  PROVE  IInv'
<1> USE DEF IInv
<1> DEFINE h == handle[o]
<1>1. PICK b \in (Buffers \ live) \cup {h} :
        /\ live' = (live \ {h}) \cup {b}
        /\ mRefs' = [mRefs EXCEPT ![h] = 0, ![b] = 1]
        /\ handle' = [handle EXCEPT ![o] = b]
  BY DEF Realloc
<1>2. /\ pc[o] = "realloc" /\ h # None /\ h \in live /\ h \in Buffers /\ b \in Buffers /\ b # None
      /\ mRefs[h] = 1 /\ fresh[o] = None /\ fresh' = fresh
      /\ Goto(o, "write") /\ pc'[o] = "write" /\ \A q \in Owners \ {o} : pc'[q] = pc[q]
  BY <1>1, BufferAssumption
     DEF Realloc, TypeOK, NoDanglingPointer, OneWhenExclusive, Exclusive, FreshOnlyInside, Goto
<1>3. CASE b = h
  <2>1. UNCHANGED <<live, mRefs, handle, fresh>>
    <3>1. live' = live
      BY <1>1, <1>2, <1>3
    <3>2. mRefs' = mRefs
      BY <1>1, <1>2, <1>3 DEF TypeOK
    <3>3. handle' = handle
      BY <1>1, <1>2, <1>3 DEF TypeOK
    <3> QED BY <1>2, <3>1, <3>2, <3>3
  <2> QED BY <1>2, <2>1, QuietStep DEF Phases, Exclusive, Doomed
<1>4. CASE b # h
  <2>1. /\ b \notin live /\ live' = (live \ {h}) \cup {b}
        /\ mRefs'[b] = 1 /\ (\A c \in live \ {h} : mRefs'[c] = mRefs[c])
    BY <1>1, <1>2, <1>4 DEF TypeOK
  <2>2. Cardinality(References(b)) = 0 /\ \A q \in Owners : handle[q] # b /\ fresh[q] # b
    BY <2>1, <1>2, NewBlockIsUnknown
  <2>3. /\ \A q \in Owners \ {o} : handle[q] # h /\ fresh[q] # h
        /\ \A q \in Owners : fresh[q] # h
    BY <1>2, AloneFromCounts DEF Alone, Exclusive
  <2>4. OnlyAt(<<o, "current">>, Pointers, Pointers')
    BY <1>1, <1>2, OnlyCurrentMoves DEF TypeOK
  <2>5. /\ Pointers[<<o, "current">>] = h /\ Pointers'[<<o, "current">>] = b
        /\ <<o, "current">> \in Refs
    BY <1>1, <1>2, PointersType, PointersTypeNext DEF PointersAgree, TypeOK, Doomed
  <2>6. \A c \in Buffers \ {h} :
          Cardinality(References(c)') = Cardinality(References(c)) + (IF c = b THEN 1 ELSE 0)
    BY <1>4, <2>4, <2>5, OnePointerMoves DEF Gain
  <2>7. NoDanglingPointer'
    BY <1>1, <1>2, <2>1, <2>3 DEF NoDanglingPointer, TypeOK
  <2>8. CountIsExact'
    <3>1. \A c \in Buffers : Cardinality(References(c)) \in Nat
      BY CountIsNat
    <3>2. \A c \in live' : c # h /\ c \in Buffers
      BY <1>2, <1>4, <2>1 DEF TypeOK
    <3> QED BY <2>1, <2>2, <2>6, <3>1, <3>2 DEF CountIsExact
  <2>9. FreshOnlyInside'
    BY <1>2 DEF FreshOnlyInside
  <2>10. OneWhenExclusive'
    <3>1. \A q \in Owners \ {o} : pc[q] \in Exclusive => handle[q] \in live \ {h}
      BY <2>3 DEF Exclusive, TypeOK, NoDanglingPointer
    <3>2. \A q \in Owners : fresh[q] # None => fresh[q] \in live \ {h}
      BY <2>3 DEF NoDanglingPointer
    <3> QED BY <1>1, <1>2, <2>1, <3>1, <3>2 DEF OneWhenExclusive, TypeOK
  <2>11. ZeroWhenDoomed'
    <3>1. \A q \in Owners : pc'[q] \in Doomed => q # o /\ pc[q] \in Doomed /\ handle[q] \in live \ {h}
      BY <1>2, <2>3 DEF Doomed, TypeOK, NoDanglingPointer
    <3> QED BY <1>1, <1>2, <2>1, <3>1 DEF ZeroWhenDoomed, TypeOK
  <2>12. ZeroMeansDoomed'
    <3>1. ASSUME NEW c \in live', mRefs'[c] = 0
          PROVE  \E q \in Owners : handle'[q] = c /\ pc'[q] \in Doomed
      <4>1. c \in live /\ mRefs[c] = 0
        BY <2>1, <3>1
      <4>2. PICK q \in Owners : handle[q] = c /\ pc[q] \in Doomed
        BY <4>1 DEF ZeroMeansDoomed
      <4> QED BY <1>1, <1>2, <4>2 DEF Doomed, TypeOK
    <3> QED BY <3>1 DEF ZeroMeansDoomed
  <2> QED BY <2>7, <2>8, <2>9, <2>10, <2>11, <2>12
<1> QED BY <1>3, <1>4

LEMMA FinishEffect ==
  ASSUME TypeOK, NEW o \in Owners, Finish(o)
  PROVE  /\ handle'[o] = fresh[o] /\ fresh'[o] = None
         /\ pc'[o] = IF fresh[o] = None THEN "idle" ELSE "write"
         /\ \A q \in Owners \ {o} : handle'[q] = handle[q] /\ fresh'[q] = fresh[q] /\ pc'[q] = pc[q]
BY DEF Finish, Goto, TypeOK

\* The only reference to a block whose count is one belongs to its holder.
LEMMA SoleReference ==
  ASSUME IInv, NEW o \in Owners, pc[o] \notin Doomed, handle[o] # None, mRefs[handle[o]] = 1
  PROVE  \A q \in Owners : fresh[q] # handle[o] /\ (q # o => handle[q] # handle[o])
<1> USE DEF IInv
<1>1. /\ handle[o] \in live /\ Cardinality(References(handle[o])) = 1
      /\ <<o, "current">> \in References(handle[o])
  BY PointersType DEF NoDanglingPointer, CountIsExact, PointersAgree, Fiber
<1>2. ASSUME NEW q \in Owners PROVE fresh[q] # handle[o]
  <2>1. SUFFICES ASSUME fresh[q] = handle[o] PROVE FALSE
    OBVIOUS
  <2>2. <<q, "fresh">> \in References(handle[o])
    BY <2>1, PointersType DEF PointersAgree, Fiber
  <2>3. <<q, "fresh">>[2] = <<o, "current">>[2]
    BY <1>1, <2>2, FewReferences
  <2> QED BY <2>3
<1>3. ASSUME NEW q \in Owners, q # o PROVE handle[q] # handle[o]
  <2>1. SUFFICES ASSUME handle[q] = handle[o] PROVE FALSE
    OBVIOUS
  <2>2. pc[q] \notin Doomed
    BY <2>1 DEF ZeroWhenDoomed
  <2>3. <<q, "current">> \in References(handle[o])
    BY <2>1, <2>2, PointersType DEF PointersAgree, Fiber
  <2>4. <<q, "current">>[1] = <<o, "current">>[1]
    BY <1>1, <2>3, FewReferences
  <2> QED BY <1>3, <2>4
<1> QED BY <1>2, <1>3

LEMMA DecrementToLastSafe ==
  ASSUME IInv, TypeOK', NEW o \in Owners, Decrement(o), mRefs[handle[o]] = 1
  PROVE  IInv'
<1> USE DEF IInv
<1> DEFINE h == handle[o]
<1>1. /\ pc[o] = "dec" /\ pc[o] \notin Doomed /\ h # None /\ h \in live /\ h \in Buffers
      /\ UNCHANGED <<live, handle, fresh>>
      /\ pc'[o] = "last" /\ \A q \in Owners \ {o} : pc'[q] = pc[q]
      /\ mRefs'[h] = 0 /\ (\A c \in Buffers \ {h} : mRefs'[c] = mRefs[c])
  BY DEF Decrement, Goto, TypeOK, NoDanglingPointer, Doomed
<1>2. \A q \in Owners : fresh[q] # h /\ (q # o => handle[q] # h)
  BY <1>1, SoleReference
<1>3. OnlyAt(<<o, "current">>, Pointers, Pointers')
  BY <1>1, OnlyCurrentMoves
<1>4. /\ Pointers[<<o, "current">>] = h /\ Pointers'[<<o, "current">>] = None
      /\ <<o, "current">> \in Refs
  BY <1>1, PointersType, PointersTypeNext DEF PointersAgree, Doomed
<1>5. \A c \in Buffers : Cardinality(References(c)') = Cardinality(References(c)) - (IF c = h THEN 1 ELSE 0)
  BY <1>3, <1>4, OnePointerMoves, BufferAssumption, CountIsNat DEF Gain
<1>6. NoDanglingPointer'
  BY <1>1 DEF NoDanglingPointer
<1>7. CountIsExact'
  <2>1. \A c \in Buffers : Cardinality(References(c)) \in Nat
    BY CountIsNat
  <2> QED BY <1>1, <1>5, <2>1 DEF CountIsExact, TypeOK
<1>8. FreshOnlyInside'
  BY <1>1 DEF FreshOnlyInside
<1>9. OneWhenExclusive'
  <2>1. \A q \in Owners : pc'[q] \in Exclusive => q # o /\ pc[q] \in Exclusive /\ handle[q] \in Buffers
    BY <1>1 DEF Exclusive, TypeOK
  <2>2. \A q \in Owners : fresh[q] # None => fresh[q] \in Buffers
    BY DEF TypeOK
  <2> QED BY <1>1, <1>2, <2>1, <2>2 DEF OneWhenExclusive
<1>10. ZeroWhenDoomed'
  <2>1. \A q \in Owners \ {o} : pc'[q] \in Doomed => pc[q] \in Doomed /\ handle[q] \in Buffers
    BY <1>1 DEF Doomed, TypeOK
  <2> QED BY <1>1, <1>2, <2>1 DEF ZeroWhenDoomed
<1>11. ZeroMeansDoomed'
  <2>1. ASSUME NEW c \in live', mRefs'[c] = 0
        PROVE  \E q \in Owners : handle'[q] = c /\ pc'[q] \in Doomed
    <3>1. CASE c = h
      BY <1>1, <3>1 DEF Doomed
    <3>2. CASE c # h
      <4>1. PICK q \in Owners : handle[q] = c /\ pc[q] \in Doomed
        BY <1>1, <2>1, <3>2 DEF ZeroMeansDoomed, TypeOK
      <4> QED BY <1>1, <4>1 DEF Doomed
    <3> QED BY <3>1, <3>2
  <2> QED BY <2>1 DEF ZeroMeansDoomed
<1> QED BY <1>6, <1>7, <1>8, <1>9, <1>10, <1>11

LEMMA DecrementAndFinishSafe ==
  ASSUME IInv, TypeOK', NEW o \in Owners, Decrement(o), mRefs[handle[o]] # 1
  PROVE  IInv'
<1> USE DEF IInv
<1> DEFINE h == handle[o]
<1>1. /\ pc[o] = "dec" /\ pc[o] \notin Doomed /\ h # None /\ h \in live /\ h \in Buffers
      /\ live' = live /\ Finish(o)
      /\ mRefs'[h] = mRefs[h] - 1 /\ (\A c \in Buffers \ {h} : mRefs'[c] = mRefs[c])
  BY DEF Decrement, TypeOK, NoDanglingPointer, Doomed
<1>2. /\ handle'[o] = fresh[o] /\ fresh'[o] = None
      /\ pc'[o] = IF fresh[o] = None THEN "idle" ELSE "write"
      /\ \A q \in Owners \ {o} : handle'[q] = handle[q] /\ fresh'[q] = fresh[q] /\ pc'[q] = pc[q]
  BY <1>1, FinishEffect
<1>3. \A c \in Buffers : Cardinality(References(c)') = Cardinality(References(c)) - (IF c = h THEN 1 ELSE 0)
  BY <1>1, FinishMovesPointers, CountIsNat
<1>4. mRefs[h] \in Nat \ {0, 1}
  <2>1. <<o, "current">> \in References(h)
    BY <1>1, PointersType DEF PointersAgree, Fiber
  <2>2. Cardinality(References(h)) \in Nat /\ Cardinality(References(h)) # 0
    BY <2>1, CountIsNat, FewReferences
  <2> QED BY <1>1, <2>2 DEF CountIsExact
<1>5. /\ \A q \in Owners : pc[q] \in Exclusive \cup Doomed => handle[q] # h
      /\ \A q \in Owners : fresh[q] # h
  <2>1. \A q \in Owners : pc[q] \in Exclusive \cup Doomed => mRefs[handle[q]] \in {0, 1}
    BY DEF OneWhenExclusive, ZeroWhenDoomed
  <2>2. \A q \in Owners : fresh[q] # None => mRefs[fresh[q]] = 1
    BY DEF OneWhenExclusive
  <2> QED BY <1>1, <1>4, <2>1, <2>2
<1>6. NoDanglingPointer'
  BY <1>1, <1>2 DEF NoDanglingPointer
<1>7. CountIsExact'
  <2>1. \A c \in Buffers : Cardinality(References(c)) \in Nat
    BY CountIsNat
  <2> QED BY <1>1, <1>3, <2>1 DEF CountIsExact, TypeOK
<1>8. FreshOnlyInside'
  BY <1>2 DEF FreshOnlyInside
<1>9. OneWhenExclusive'
  <2>1. \A q \in Owners : fresh[q] # None => fresh[q] \in Buffers \ {h} /\ mRefs'[fresh[q]] = 1
    BY <1>1, <1>5 DEF TypeOK, OneWhenExclusive
  <2>2. \A q \in Owners \ {o} : pc'[q] \in Exclusive => handle[q] \in Buffers \ {h} /\ mRefs'[handle[q]] = 1
    <3>1. \A q \in Owners : pc[q] \in Exclusive => pc[q] # "idle"
      BY DEF Exclusive
    <3> QED BY <1>1, <1>2, <1>5, <3>1 DEF TypeOK, OneWhenExclusive
  <2>3. pc'[o] \in Exclusive => fresh[o] # None
    BY <1>2 DEF Exclusive
  <2> QED BY <1>2, <2>1, <2>2, <2>3 DEF OneWhenExclusive
<1>10. ZeroWhenDoomed'
  <2>1. \A q \in Owners : pc'[q] \in Doomed => q # o /\ pc[q] \in Doomed /\ handle[q] \in Buffers \ {h}
    BY <1>2, <1>5 DEF Doomed, TypeOK
  <2> QED BY <1>1, <1>2, <2>1 DEF ZeroWhenDoomed
<1>11. ZeroMeansDoomed'
  <2>1. ASSUME NEW c \in live', mRefs'[c] = 0
        PROVE  \E q \in Owners : handle'[q] = c /\ pc'[q] \in Doomed
    <3>1. c # h /\ c \in live /\ c \in Buffers
      BY <1>1, <1>4, <2>1 DEF TypeOK
    <3>2. PICK q \in Owners : handle[q] = c /\ pc[q] \in Doomed
      BY <1>1, <2>1, <3>1 DEF ZeroMeansDoomed
    <3> QED BY <1>1, <1>2, <3>1, <3>2
  <2> QED BY <2>1 DEF ZeroMeansDoomed
<1> QED BY <1>6, <1>7, <1>8, <1>9, <1>10, <1>11

\* Both ways release() ends the life of a block.
LEMMA FreeSafe ==
  ASSUME IInv, TypeOK', NEW o \in Owners, pc[o] \in {"sole"} \cup Doomed, Finish(o),
         live' = live \ {handle[o]}, \A c \in Buffers \ {handle[o]} : mRefs'[c] = mRefs[c]
  PROVE  IInv'
<1> USE DEF IInv
<1> DEFINE h == handle[o]
<1>1. /\ handle'[o] = fresh[o] /\ fresh'[o] = None
      /\ pc'[o] = IF fresh[o] = None THEN "idle" ELSE "write"
      /\ \A q \in Owners \ {o} : handle'[q] = handle[q] /\ fresh'[q] = fresh[q] /\ pc'[q] = pc[q]
  BY FinishEffect
<1>2. /\ h # None /\ h \in live /\ h \in Buffers
      /\ \A q \in Owners \ {o} : handle[q] # h /\ fresh[q] # h
      /\ \A q \in Owners : fresh[q] # h
  BY AloneFromCounts DEF Alone, Exclusive, Doomed, TypeOK, NoDanglingPointer
<1>3. \A c \in Buffers \ {h} : Cardinality(References(c)') = Cardinality(References(c))
  BY FinishMovesPointers
<1>4. NoDanglingPointer'
  BY <1>1, <1>2 DEF NoDanglingPointer
<1>5. CountIsExact'
  BY <1>3 DEF CountIsExact, TypeOK
<1>6. FreshOnlyInside'
  BY <1>1 DEF FreshOnlyInside
<1>7. OneWhenExclusive'
  <2>1. \A q \in Owners : fresh[q] # None => fresh[q] \in Buffers \ {h} /\ mRefs'[fresh[q]] = 1
    BY <1>2 DEF TypeOK, OneWhenExclusive
  <2>2. \A q \in Owners \ {o} : pc'[q] \in Exclusive => handle[q] \in Buffers \ {h} /\ mRefs'[handle[q]] = 1
    <3>1. \A q \in Owners : pc[q] \in Exclusive => pc[q] # "idle"
      BY DEF Exclusive
    <3> QED BY <1>1, <1>2, <3>1 DEF TypeOK, OneWhenExclusive
  <2>3. pc'[o] \in Exclusive => fresh[o] # None
    BY <1>1 DEF Exclusive
  <2> QED BY <1>1, <2>1, <2>2, <2>3 DEF OneWhenExclusive
<1>8. ZeroWhenDoomed'
  <2>1. \A q \in Owners : pc'[q] \in Doomed => q # o /\ pc[q] \in Doomed /\ handle[q] \in Buffers \ {h}
    BY <1>1, <1>2 DEF Doomed, TypeOK
  <2> QED BY <1>1, <2>1 DEF ZeroWhenDoomed
<1>9. ZeroMeansDoomed'
  <2>1. ASSUME NEW c \in live', mRefs'[c] = 0
        PROVE  \E q \in Owners : handle'[q] = c /\ pc'[q] \in Doomed
    <3>1. c # h /\ c \in live /\ c \in Buffers
      BY <2>1 DEF TypeOK
    <3>2. PICK q \in Owners : handle[q] = c /\ pc[q] \in Doomed
      BY <2>1, <3>1 DEF ZeroMeansDoomed
    <3> QED BY <1>1, <3>1, <3>2
  <2> QED BY <2>1 DEF ZeroMeansDoomed
<1> QED BY <1>4, <1>5, <1>6, <1>7, <1>8, <1>9

LEMMA ZeroSafe ==
  ASSUME IInv, TypeOK', NEW o \in Owners, Zero(o)
  PROVE  IInv'
<1> USE DEF IInv
<1> DEFINE h == handle[o]
<1>1. /\ pc[o] \in {"sole", "last"} /\ h # None /\ h \in live /\ h \in Buffers
      /\ mRefs'[h] = 0 /\ (\A c \in Buffers \ {h} : mRefs'[c] = mRefs[c])
  BY DEF Zero, TypeOK, NoDanglingPointer
<1>2. CASE ~req[o].keep
  BY <1>1, <1>2, FreeSafe DEF Zero, Free, Doomed
<1>3. CASE req[o].keep
  <2>1. /\ UNCHANGED <<live, handle, fresh>>
        /\ pc'[o] = "dealloc" /\ \A q \in Owners \ {o} : pc'[q] = pc[q]
    BY <1>3 DEF Zero, Goto, TypeOK
  <2>2. /\ \A q \in Owners \ {o} : handle[q] # h
        /\ \A q \in Owners : fresh[q] # h
    BY <1>1, AloneFromCounts DEF Alone, Exclusive, Doomed
  <2>3. OnlyAt(<<o, "current">>, Pointers, Pointers')
    BY <2>1, OnlyCurrentMoves
  <2>4. /\ Pointers[<<o, "current">>] = (IF pc[o] = "last" THEN None ELSE h)
        /\ Pointers'[<<o, "current">>] = None
        /\ <<o, "current">> \in Refs
    BY <1>1, <2>1, PointersType, PointersTypeNext DEF PointersAgree, Doomed
  <2>5. \A c \in Buffers : Cardinality(References(c)') =
          Cardinality(References(c)) - (IF c = h /\ pc[o] = "sole" THEN 1 ELSE 0)
    BY <1>1, <2>3, <2>4, OnePointerMoves, BufferAssumption, CountIsNat DEF Gain
  <2>6. mRefs[h] = IF pc[o] = "sole" THEN 1 ELSE 0
    BY <1>1 DEF OneWhenExclusive, ZeroWhenDoomed, Exclusive, Doomed
  <2>7. NoDanglingPointer'
    BY <2>1 DEF NoDanglingPointer
  <2>8. CountIsExact'
    <3>1. \A c \in Buffers : Cardinality(References(c)) \in Nat
      BY CountIsNat
    <3> QED BY <1>1, <2>1, <2>5, <2>6, <3>1 DEF CountIsExact, TypeOK
  <2>9. FreshOnlyInside'
    BY <2>1 DEF FreshOnlyInside
  <2>10. OneWhenExclusive'
    <3>1. \A q \in Owners : pc'[q] \in Exclusive => q # o /\ pc[q] \in Exclusive /\ handle[q] \in Buffers
      BY <2>1 DEF Exclusive, TypeOK
    <3>2. \A q \in Owners : fresh[q] # None => fresh[q] \in Buffers
      BY DEF TypeOK
    <3> QED BY <1>1, <2>1, <2>2, <3>1, <3>2 DEF OneWhenExclusive
  <2>11. ZeroWhenDoomed'
    <3>1. \A q \in Owners \ {o} : pc'[q] \in Doomed => pc[q] \in Doomed /\ handle[q] \in Buffers
      BY <2>1 DEF Doomed, TypeOK
    <3> QED BY <1>1, <2>1, <2>2, <3>1 DEF ZeroWhenDoomed
  <2>12. ZeroMeansDoomed'
    <3>1. ASSUME NEW c \in live', mRefs'[c] = 0
          PROVE  \E q \in Owners : handle'[q] = c /\ pc'[q] \in Doomed
      <4>1. CASE c = h
        BY <2>1, <4>1 DEF Doomed
      <4>2. CASE c # h
        <5>1. PICK q \in Owners : handle[q] = c /\ pc[q] \in Doomed
          BY <1>1, <2>1, <3>1, <4>2 DEF ZeroMeansDoomed, TypeOK
        <5> QED BY <2>1, <4>2, <5>1
      <4> QED BY <4>1, <4>2
    <3> QED BY <3>1 DEF ZeroMeansDoomed
  <2> QED BY <2>7, <2>8, <2>9, <2>10, <2>11, <2>12
<1> QED BY <1>2, <1>3

LEMMA DeallocSafe ==
  ASSUME IInv, TypeOK', NEW o \in Owners, Dealloc(o)
  PROVE  IInv'
<1>1. pc[o] = "dealloc" /\ mRefs[handle[o]] = 0
  BY DEF Dealloc, IInv, ZeroWhenDoomed, Doomed
<1> QED BY <1>1, FreeSafe DEF Dealloc, Free, Doomed

LEMMA SafeStep == IInv /\ [Next]_vars => IInv'
<1> SUFFICES ASSUME IInv, [Next]_vars PROVE IInv'
  OBVIOUS
<1>1. TypeOK'
  BY TypeStep DEF IInv
<1>2. ASSUME NEW o \in Owners, Start(o) PROVE IInv'
  <2>1. CASE Alloc(o)
    BY <1>1, <2>1, AllocSafe
  <2>2. CASE \E p \in Owners : Acquire(o, p)
    BY <1>1, <2>2, AcquireSafe
  <2> QED BY <1>1, <1>2, <2>1, <2>2, StartIsQuiet DEF Start
<1>3. ASSUME NEW o \in Owners, Step(o) PROVE IInv'
  <2>1. CASE Realloc(o)
    BY <1>1, <2>1, ReallocSafe
  <2>2. CASE AllocFresh(o)
    BY <1>1, <2>2, AllocFreshSafe
  <2>3. CASE Decrement(o)
    BY <1>1, <2>3, DecrementToLastSafe, DecrementAndFinishSafe
  <2>4. CASE Zero(o)
    BY <1>1, <2>4, ZeroSafe
  <2>5. CASE Dealloc(o)
    BY <1>1, <2>5, DeallocSafe
  <2> QED BY <1>1, <1>3, <2>1, <2>2, <2>3, <2>4, <2>5, MiddleIsQuiet DEF Step
<1>4. CASE UNCHANGED vars
  <2>1. UNCHANGED <<live, mRefs, data, handle, fresh, req, pc>>
    BY <1>4 DEF vars
  <2>2. Pointers' = Pointers
    BY <2>1 DEF Pointers
  <2>3. CountIsExact'
    BY <2>1, <2>2 DEF IInv, CountIsExact, References
  <2> QED BY <1>1, <2>1, <2>3 DEF IInv, NoDanglingPointer, FreshOnlyInside,
             OneWhenExclusive, ZeroWhenDoomed, ZeroMeansDoomed
<1> QED BY <1>2, <1>3, <1>4 DEF Next

LEMMA Inductive == Spec => []IInv
BY SafeInit, SafeStep, PTL DEF Spec

-----------------------------------------------------------------------------
(* The results. *)

\* mRefs of an allocated block is the number of pointers to it, after every
\* step of every interleaving of acquire, release, edit, editResize and reset.
THEOREM CountExact == Spec => []CountIsExact
<1>1. IInv => CountIsExact
  BY DEF IInv
<1> QED BY <1>1, Inductive, PTL

\* No owner ever has a pointer to a freed block, so release() frees a block
\* once and no step of the class touches freed memory.
THEOREM NothingDangles == Spec => []NoDanglingPointer
<1>1. IInv => NoDanglingPointer
  BY DEF IInv
<1> QED BY <1>1, Inductive, PTL

\* An onlyOwner() that answered true is still true when the owner writes,
\* reallocates or frees (SharedBuffer.cpp:54-98, 114-124).
THEOREM ExclusiveIsAlone == Spec => []ExclusiveMeansAlone
<1>1. IInv => ExclusiveMeansAlone
  <2> SUFFICES ASSUME IInv PROVE ExclusiveMeansAlone
    OBVIOUS
  <2>1. Alone
    BY AloneFromCounts
  <2> QED BY <2>1 DEF Alone, ExclusiveMeansAlone
<1> QED BY <1>1, Inductive, PTL

\* dealloc() never refuses and no block is forgotten (SharedBuffer.cpp:47-52).
THEOREM NoLeak == Spec => []NothingLeaks
<1>1. IInv => NothingLeaks
  <2> SUFFICES ASSUME IInv, NEW b \in live, References(b) = {}
               PROVE  \E o \in Owners : handle[o] = b /\ pc[o] \in Doomed
    BY DEF NothingLeaks
  <2>1. mRefs[b] = 0
    BY FS_EmptySet DEF IInv, CountIsExact
  <2> QED BY <2>1 DEF IInv, ZeroMeansDoomed
<1> QED BY <1>1, Inductive, PTL

-----------------------------------------------------------------------------
(* The refinement of SharedBufferSpec. *)

\* What the mapping needs besides: memcpy has a block to copy to, and memcpy and
\* realloc run in the calls that keep what is there.
CopyHasBlock ==
  \A o \in Owners :
    /\ pc[o] = "copy" => fresh[o] # None
    /\ pc[o] \in {"copy", "realloc"} => req[o].copy

LEMMA CopyHasBlockInit == Init => CopyHasBlock
  BY DEF Init, CopyHasBlock

LEMMA CopyHasBlockStep == IInv /\ CopyHasBlock /\ [Next]_vars => CopyHasBlock'
<1> SUFFICES ASSUME IInv, CopyHasBlock, [Next]_vars PROVE CopyHasBlock'
  OBVIOUS
<1>0. TypeOK
  BY DEF IInv
<1>1. ASSUME NEW o \in Owners, Start(o) PROVE CopyHasBlock'
  <2>1. \A q \in Owners : pc'[q] = "copy" => pc[q] = "copy"
    BY <1>0, <1>1 DEF Start, Alloc, Edit, EditArray, EditResize, Reset, Release, Acquire, Call, Goto, TypeOK
  <2>2. UNCHANGED fresh
    BY <1>1 DEF Start, Alloc, Edit, EditArray, EditResize, Reset, Release, Acquire, Call
  <2>3. ASSUME NEW q \in Owners, pc'[q] \in {"copy", "realloc"} PROVE req'[q].copy
    <3>1. CASE q = o /\ EditResize(o)
      BY <1>0, <3>1 DEF EditResize, Call, TypeOK
    <3>2. CASE pc'[q] = pc[q] /\ req'[q] = req[q]
      BY <2>3, <3>2 DEF CopyHasBlock
    <3>3. CASE q = o /\ (Edit(o) \/ EditArray(o) \/ Reset(o) \/ Release(o))
      BY <1>0, <2>3, <3>3 DEF Edit, EditArray, Reset, Release, Call, Goto, TypeOK
    <3>4. CASE Alloc(o) \/ \E p \in Owners : Acquire(o, p)
      BY <3>2, <3>4 DEF Alloc, Acquire
    <3>5. CASE q # o /\ (Edit(o) \/ EditArray(o) \/ EditResize(o) \/ Reset(o) \/ Release(o))
      BY <1>0, <3>2, <3>5 DEF Edit, EditArray, EditResize, Reset, Release, Call, Goto, TypeOK
    <3> QED
      BY <1>1, <3>1, <3>3, <3>4, <3>5 DEF Start
  <2> QED
    BY <2>1, <2>2, <2>3 DEF CopyHasBlock
<1>2. ASSUME NEW o \in Owners, Step(o) PROVE CopyHasBlock'
  <2>1. CASE AllocFresh(o)
    <3>1. PICK b \in Buffers : fresh' = [fresh EXCEPT ![o] = b]
      BY <2>1 DEF AllocFresh
    <3>2. \A q \in Owners \ {o} : pc'[q] = pc[q] /\ fresh'[q] = fresh[q]
      BY <1>0, <2>1, <3>1 DEF AllocFresh, Goto, TypeOK
    <3>3. fresh'[o] # None
      BY <1>0, <3>1, BufferAssumption DEF TypeOK
    <3>4. req' = req /\ pc'[o] = IF req[o].copy THEN "copy" ELSE "rel"
      BY <1>0, <2>1 DEF AllocFresh, Goto, TypeOK
    <3> QED
      BY <3>2, <3>3, <3>4 DEF CopyHasBlock
  <2>2. CASE Finish(o) /\ pc[o] \in Releasing
    <3>1. /\ pc'[o] \in {"idle", "write"}
          /\ \A q \in Owners \ {o} : fresh'[q] = fresh[q] /\ pc'[q] = pc[q]
      BY <1>0, <2>2, FinishEffect
    <3>2. \A q \in Owners \ {o} : req'[q] = req[q]
      BY <1>0, <2>2 DEF Finish, TypeOK
    <3> QED
      BY <3>1, <3>2 DEF CopyHasBlock
  <2>3. CASE /\ UNCHANGED fresh /\ pc'[o] \notin {"copy", "realloc"}
             /\ \A q \in Owners \ {o} : pc'[q] = pc[q] /\ req'[q] = req[q]
    BY <2>3 DEF CopyHasBlock
  <2>4. CASE Realloc(o) \/ ReallocFails(o) \/ AllocFails(o) \/ Memcpy(o) \/ ReleaseCheck(o) \/ Write(o)
    BY <1>0, <2>3, <2>4 DEF Realloc, ReallocFails, AllocFails, Memcpy, ReleaseCheck, Write, Goto, TypeOK
  <2>5. CASE Decrement(o) \/ Zero(o) \/ Dealloc(o)
    <3>1. pc[o] \in Releasing
      BY <2>5 DEF Decrement, Zero, Dealloc, Releasing, Doomed
    <3> QED
      BY <1>0, <2>2, <2>3, <2>5, <3>1 DEF Decrement, Zero, Dealloc, Goto, TypeOK
  <2> QED
    BY <1>2, <2>1, <2>4, <2>5 DEF Step
<1>3. CASE UNCHANGED vars
  BY <1>3 DEF vars, CopyHasBlock
<1> QED
  BY <1>1, <1>2, <1>3 DEF Next

Mapped == [o \in Owners |-> View(o)]
Waits == [o \in Owners |-> Waiting(o)]

\* Another owner's view is its block, which the step leaves alone.
LEMMA OthersSee ==
  ASSUME NEW q \in Owners, handle'[q] = handle[q], fresh'[q] = fresh[q],
         pc'[q] \in Releasing <=> pc[q] \in Releasing,
         handle[q] # None => data'[handle[q]] = data[handle[q]],
         fresh[q] # None => data'[fresh[q]] = data[fresh[q]]
  PROVE  View(q)' = View(q)
  BY DEF View

\* The step changes the view of o at most, and c is the new one.
LEMMA OneViewMoves ==
  ASSUME NEW o \in Owners, NEW c, View(o)' = c, \A q \in Owners \ {o} : View(q)' = View(q)
  PROVE  Mapped' = [Mapped EXCEPT ![o] = c] /\ Mapped[o] = View(o) /\ (c = View(o) => Mapped' = Mapped)
  BY DEF Mapped

\* A call of o is the only one that begins or ends.
LEMMA OneCallMoves ==
  ASSUME TypeOK, NEW o \in Owners, NEW w, Waiting(o)' = w,
         \A q \in Owners \ {o} : pc'[q] = pc[q] /\ req'[q] = req[q]
  PROVE  Waits' = [Waits EXCEPT ![o] = w] /\ Waits[o] = Waiting(o) /\ (w = Waiting(o) => Waits' = Waits)
  BY DEF Waits, Waiting

\* A holder's view is its block's cells, and no null pointer.
LEMMA ViewIsContents ==
  ASSUME IInv, NEW o \in Owners
  PROVE  /\ pc[o] \notin Releasing /\ handle[o] # None =>
              View(o) = data[handle[o]] /\ View(o) # None /\ data[handle[o]] \in Contents
         /\ fresh[o] # None => data[fresh[o]] # None
<1>1. \A b \in Buffers : data[b] \in Contents /\ data[b] # None
  BY ContentsAssumption DEF IInv, TypeOK
<1> QED
  BY <1>1 DEF View, IInv, TypeOK

\* What realloc and memcpy copy is what the owner asked to keep.
LEMMA CopyIsResized == \A c, n : CopyOf(c, n) = Abstract!Resized(c, n) /\ Uninitialized(n) = Abstract!Unwritten(n)
  BY DEF CopyOf, Abstract!Resized, Uninitialized, Abstract!Unwritten

\* The request that an owner's call stands for.
Asked(o) == [size |-> req[o].size, copy |-> req[o].copy]

\* A step that gives o what it has asked for.
LEMMA Serves ==
  ASSUME TypeOK, NEW o \in Owners,
         pc[o] \in {"alloc", "copy", "realloc"}, pc'[o] \notin {"alloc", "copy", "realloc"},
         \A q \in Owners \ {o} : pc'[q] = pc[q] /\ req'[q] = req[q] /\ View(q)' = View(q),
         View(o)' = IF req[o].copy THEN CopyOf(View(o), req[o].size) ELSE Uninitialized(req[o].size)
  PROVE  Abstract!Serve(o)
<1>1. Waiting(o) = {Asked(o)} /\ Waiting(o)' = {}
  BY DEF Waiting, Asked
<1>2. Waits' = [Waits EXCEPT ![o] = {}] /\ Waits[o] = {Asked(o)}
  BY <1>1, OneCallMoves
<1>3. Asked(o).size = req[o].size /\ Asked(o).copy = req[o].copy
  BY DEF Asked
<1>4. Mapped' = [Mapped EXCEPT ![o] = View(o)'] /\ Mapped[o] = View(o)
  BY OneViewMoves
<1>5. View(o)' = IF Asked(o).copy THEN Abstract!Resized(Mapped[o], Asked(o).size)
                                  ELSE Abstract!Unwritten(Asked(o).size)
  BY <1>3, <1>4, CopyIsResized
<1> QED
  BY <1>2, <1>4, <1>5 DEF Abstract!Serve, Mapped, Waits

LEMMA StartSimulates ==
  ASSUME IInv, NEW o \in Owners, Start(o)
  PROVE  [Abstract!SpecNext]_<<Mapped, Waits>>
<1>0. TypeOK /\ Alone
  BY AloneFromCounts DEF IInv
<1>1. CASE Alloc(o)
  <2>1. PICK b \in Buffers, n \in Sizes : Malloc(b, n) /\ handle' = [handle EXCEPT ![o] = b]
    BY <1>1 DEF Alloc
  <2>2. pc[o] = "idle" /\ handle[o] = None /\ UNCHANGED <<fresh, req, pc>>
    BY <1>1 DEF Alloc
  <2>3. ASSUME NEW q \in Owners \ {o} PROVE View(q)' = View(q)
    <3>1. handle[q] # b /\ fresh[q] # b
      BY <2>1, NewBlockIsUnknown DEF Malloc
    <3>2. \A c \in Buffers \ {b} : data'[c] = data[c]
      BY <1>0, <2>1 DEF Malloc, TypeOK
    <3> QED
      BY <1>0, <2>1, <2>2, <3>1, <3>2, OthersSee DEF TypeOK
  <2>4. View(o) = None /\ View(o)' = Abstract!Unwritten(n)
    BY <1>0, <2>1, <2>2, BufferAssumption, CopyIsResized DEF View, Releasing, Doomed, Malloc, TypeOK
  <2>5. Waits' = Waits
    BY <2>2 DEF Waits, Waiting
  <2>6. Abstract!Create(o)
    BY <2>3, <2>4, <2>5, OneViewMoves DEF Abstract!Create, Mapped, Waits
  <2> QED
    BY <2>6 DEF Abstract!SpecNext
<1>2. ASSUME NEW p \in Owners, Acquire(o, p) PROVE [Abstract!SpecNext]_<<Mapped, Waits>>
  <2>1. /\ pc[o] = "idle" /\ handle[o] # None /\ pc[p] = "idle" /\ handle[p] = None
        /\ handle' = [handle EXCEPT ![p] = handle[o]] /\ UNCHANGED <<data, fresh, req, pc>>
    BY <1>2 DEF Acquire
  <2>2. \A q \in Owners \ {p} : View(q)' = View(q)
    BY <1>0, <2>1 DEF View, TypeOK
  <2>3. View(p) = None /\ View(p)' = View(o) /\ View(o) # None
    <3>1. View(o) # None /\ View(o) = data[handle[o]]
      BY <2>1, ViewIsContents DEF Releasing, Doomed
    <3>2. View(p) = None /\ View(p)' = data[handle[o]]
      BY <1>0, <2>1 DEF View, Releasing, Doomed, TypeOK
    <3> QED
      BY <3>1, <3>2
  <2>4. Waits' = Waits /\ Waits[o] = {}
    BY <2>1 DEF Waits, Waiting
  <2>5. Abstract!Share(o, p)
    BY <2>2, <2>3, <2>4, OneViewMoves DEF Abstract!Share, Mapped, Waits
  <2> QED
    BY <2>5 DEF Abstract!SpecNext
<1>3. CASE Edit(o) \/ EditArray(o) \/ EditResize(o) \/ Reset(o)
  <2>1. /\ pc[o] = "idle" /\ handle[o] # None /\ UNCHANGED <<data, handle, fresh>>
        /\ \A q \in Owners \ {o} : req'[q] = req[q] /\ pc'[q] = pc[q]
    BY <1>0, <1>3 DEF Edit, EditArray, EditResize, Reset, Call, Goto, TypeOK
  <2>2. \A q \in Owners : pc[q] \in Releasing <=> pc'[q] \in Releasing
    BY <1>0, <1>3 DEF Edit, EditArray, EditResize, Reset, Call, Goto, Releasing, Doomed, TypeOK
  <2>3. Mapped' = Mapped
    BY <2>1, <2>2 DEF View, Mapped
  <2>4. View(o) = data[handle[o]] /\ View(o) # None
    BY <2>1, ViewIsContents DEF Releasing, Doomed
  <2>5. req'[o].size \in Sizes \cup {Len(View(o))} /\ req'[o].copy \in BOOLEAN
    <3>1. PICK n \in Sizes \cup {Len(View(o))}, keep \in BOOLEAN, copy \in BOOLEAN : Call(o, n, keep, copy)
      <4>1. CASE Edit(o) \/ EditArray(o)
        BY <2>4, <4>1 DEF Edit, EditArray, mSize
      <4>2. CASE EditResize(o) \/ Reset(o)
        BY <4>2 DEF EditResize, Reset
      <4> QED
        BY <1>3, <4>1, <4>2
    <3>2. req'[o] = [size |-> n, keep |-> keep, copy |-> copy]
      BY <1>0, <3>1 DEF Call, TypeOK
    <3> QED
      BY <3>2
  <2>6. Waiting(o) = {} /\ (Waiting(o)' = {} \/ Waiting(o)' = {Asked(o)'})
    BY <2>1 DEF Waiting, Asked
  <2>7. Waits' = [Waits EXCEPT ![o] = Waiting(o)'] /\ Waits[o] = {}
    BY <1>0, <2>1, <2>6, OneCallMoves
  <2>8. CASE Waiting(o)' = {}
    BY <2>3, <2>7, <2>8 DEF Waits, Waiting
  <2>9. CASE Waiting(o)' = {Asked(o)'}
    <3>1. Waits' = [Waits EXCEPT ![o] = {[size |-> req'[o].size, copy |-> req'[o].copy]}]
      BY <2>7, <2>9 DEF Asked
    <3>2. Mapped[o] = View(o)
      BY DEF Mapped
    <3>3. Abstract!Ask(o)
      BY <2>3, <2>4, <2>5, <2>7, <3>1, <3>2 DEF Abstract!Ask, Mapped, Waits
    <3> QED
      BY <3>3 DEF Abstract!SpecNext
  <2> QED
    BY <2>6, <2>8, <2>9
<1>4. CASE Release(o)
  <2>1. /\ pc[o] = "idle" /\ handle[o] # None /\ pc' = [pc EXCEPT ![o] = "rel"]
        /\ UNCHANGED <<data, handle, fresh>> /\ fresh[o] = None
        /\ \A q \in Owners \ {o} : req'[q] = req[q]
    BY <1>0, <1>4 DEF Release, Call, Goto, IInv, FreshOnlyInside, TypeOK
  <2>2. pc'[o] = "rel" /\ \A q \in Owners \ {o} : pc'[q] = pc[q]
    BY <1>0, <2>1 DEF TypeOK
  <2>3. \A q \in Owners \ {o} : View(q)' = View(q)
    BY <2>1, <2>2 DEF View
  <2>4. View(o) # None /\ View(o)' = None
    <3>1. View(o) # None
      BY <2>1, ViewIsContents DEF Releasing, Doomed
    <3> QED
      BY <2>1, <2>2, <3>1 DEF View, Releasing
  <2>5. Waiting(o) = {} /\ Waiting(o)' = {}
    BY <2>1, <2>2 DEF Waiting
  <2>6. Waits' = Waits /\ Waits[o] = {}
    BY <1>0, <2>1, <2>2, <2>5, OneCallMoves
  <2>7. Abstract!Drop(o)
    BY <2>3, <2>4, <2>6, OneViewMoves DEF Abstract!Drop, Mapped, Waits
  <2> QED
    BY <2>7 DEF Abstract!SpecNext
<1> QED
  BY <1>1, <1>2, <1>3, <1>4 DEF Start

\* The steps that hand over a new block or free the old one are not seen.
LEMMA FinishIsUnseen ==
  ASSUME IInv, NEW o \in Owners, Finish(o), pc[o] \in Releasing,
         \A b \in Buffers : data'[b] = data[b] \/ (b = handle[o] /\ pc[o] \in {"sole"} \cup Doomed)
  PROVE  UNCHANGED <<Mapped, Waits>>
<1>0. TypeOK /\ Alone
  BY AloneFromCounts DEF IInv
<1>1. /\ handle'[o] = fresh[o] /\ fresh'[o] = None
      /\ pc'[o] = IF fresh[o] = None THEN "idle" ELSE "write"
      /\ \A q \in Owners \ {o} : handle'[q] = handle[q] /\ fresh'[q] = fresh[q] /\ pc'[q] = pc[q]
  BY <1>0, FinishEffect
<1>2. fresh[o] # None => fresh[o] \in Buffers /\ fresh[o] # handle[o]
  BY <1>0 DEF Alone, TypeOK
<1>3. View(o)' = View(o)
  BY <1>1, <1>2 DEF View, Releasing, Doomed
<1>4. ASSUME NEW q \in Owners \ {o} PROVE View(q)' = View(q)
  <2>1. pc[o] \in {"sole"} \cup Doomed => handle[q] # handle[o] /\ fresh[q] # handle[o]
    BY <1>0 DEF Alone, Exclusive
  <2>2. handle[q] \in Buffers \cup {None} /\ fresh[q] \in Buffers \cup {None}
    BY <1>0 DEF TypeOK
  <2> QED
    BY <1>1, <2>1, <2>2, OthersSee
<1>5. Waiting(o) = {} /\ Waiting(o)' = {}
  BY <1>1 DEF Waiting, Releasing, Doomed
<1>6. \A q \in Owners \ {o} : req'[q] = req[q]
  BY <1>0 DEF Finish, TypeOK
<1>7. Waits' = Waits
  BY <1>0, <1>1, <1>5, <1>6, OneCallMoves
<1> QED
  BY <1>3, <1>4, <1>7 DEF Mapped

LEMMA StepSimulates ==
  ASSUME IInv, CopyHasBlock, NEW o \in Owners, Step(o)
  PROVE  [Abstract!SpecNext]_<<Mapped, Waits>>
<1>0. TypeOK /\ Alone
  BY AloneFromCounts DEF IInv
<1>1. CASE Realloc(o)
  <2>1. PICK b \in (Buffers \ live) \cup {handle[o]} :
       /\ data' = [data EXCEPT ![handle[o]] = << >>, ![b] = CopyOf(data[handle[o]], req[o].size)]
       /\ handle' = [handle EXCEPT ![o] = b]
    BY <1>1 DEF Realloc
  <2>2. /\ pc[o] = "realloc" /\ pc'[o] = "write" /\ fresh' = fresh
        /\ \A q \in Owners \ {o} : pc'[q] = pc[q] /\ req'[q] = req[q]
    BY <1>0, <1>1 DEF Realloc, Goto, TypeOK
  <2>3. handle[o] \in live /\ handle[o] \in Buffers /\ handle[o] # None
    BY <1>0, <2>2 DEF TypeOK, IInv, NoDanglingPointer
  <2>4. ASSUME NEW q \in Owners \ {o} PROVE View(q)' = View(q)
    <3>1. handle[q] # handle[o] /\ fresh[q] # handle[o]
      BY <1>0, <2>2 DEF Alone, Exclusive
    <3>2. handle[q] # b /\ fresh[q] # b
      BY <2>1, <3>1, NewBlockIsUnknown
    <3>3. \A c \in Buffers \ {b, handle[o]} : data'[c] = data[c]
      BY <1>0, <2>1 DEF TypeOK
    <3> QED
      BY <1>0, <2>1, <2>2, <3>1, <3>2, <3>3, OthersSee DEF TypeOK
  <2>5. View(o) = data[handle[o]]
    BY <2>2, <2>3, ViewIsContents DEF Releasing, Doomed
  <2>6. View(o)' = CopyOf(data[handle[o]], req[o].size)
    BY <1>0, <2>1, <2>2, <2>3, BufferAssumption DEF View, Releasing, Doomed, TypeOK
  <2>7. req[o].copy
    BY <2>2 DEF CopyHasBlock
  <2>8. Abstract!Serve(o)
    BY <1>0, <2>2, <2>4, <2>5, <2>6, <2>7, Serves
  <2> QED
    BY <2>8 DEF Abstract!SpecNext
<1>2. CASE ReallocFails(o) \/ ReleaseCheck(o)
  <2>1. UNCHANGED <<data, handle, fresh, req>> /\ \A q \in Owners \ {o} : pc'[q] = pc[q]
    BY <1>0, <1>2 DEF ReallocFails, ReleaseCheck, Goto, TypeOK
  <2>2. \A q \in Owners : pc[q] \in Releasing <=> pc'[q] \in Releasing
    BY <1>0, <1>2 DEF ReallocFails, ReleaseCheck, Goto, Releasing, Doomed, TypeOK
  <2>3. \A q \in Owners : pc[q] \in {"alloc", "copy", "realloc"} <=> pc'[q] \in {"alloc", "copy", "realloc"}
    BY <1>0, <1>2 DEF ReallocFails, ReleaseCheck, Goto, TypeOK
  <2> QED
    BY <2>1, <2>2, <2>3 DEF View, Mapped, Waits, Waiting
<1>3. CASE AllocFails(o)
  <2>1. /\ UNCHANGED <<data, handle, fresh>> /\ pc[o] = "alloc" /\ pc'[o] = "idle"
        /\ \A q \in Owners \ {o} : pc'[q] = pc[q] /\ req'[q] = req[q]
    BY <1>0, <1>3 DEF AllocFails, Goto, TypeOK
  <2>2. Mapped' = Mapped
    BY <2>1 DEF View, Mapped, Releasing, Doomed
  <2>3. Waits' = [Waits EXCEPT ![o] = {}]
    BY <1>0, <2>1, OneCallMoves DEF Waiting
  <2>4. Abstract!Refuse(o)
    BY <2>2, <2>3 DEF Abstract!Refuse, Mapped, Waits
  <2> QED
    BY <2>4 DEF Abstract!SpecNext
<1>4. CASE AllocFresh(o)
  <2>1. PICK b \in Buffers : Malloc(b, req[o].size) /\ fresh' = [fresh EXCEPT ![o] = b]
    BY <1>4 DEF AllocFresh
  <2>2. /\ pc[o] = "alloc" /\ pc'[o] = (IF req[o].copy THEN "copy" ELSE "rel") /\ UNCHANGED <<handle, req>>
        /\ \A q \in Owners \ {o} : pc'[q] = pc[q]
    BY <1>0, <1>4 DEF AllocFresh, Goto, TypeOK
  <2>3. \A q \in Owners : handle[q] # b /\ fresh[q] # b
    BY <2>1, NewBlockIsUnknown DEF Malloc
  <2>4. data'[b] = Uninitialized(req[o].size) /\ \A c \in Buffers \ {b} : data'[c] = data[c]
    BY <1>0, <2>1 DEF Malloc, TypeOK
  <2>5. \A q \in Owners \ {o} : View(q)' = View(q)
    BY <1>0, <2>1, <2>2, <2>3, <2>4, OthersSee DEF TypeOK
  <2>6. View(o) = data[handle[o]] /\ handle[o] \in Buffers /\ handle[o] # None
    BY <1>0, <2>2, ViewIsContents DEF Releasing, Doomed, TypeOK
  <2>7. CASE req[o].copy
    <3>1. View(o)' = View(o)
      BY <2>2, <2>3, <2>4, <2>6, <2>7 DEF View, Releasing, Doomed
    <3>2. Waiting(o)' = Waiting(o)
      BY <2>2, <2>7 DEF Waiting
    <3>3. Waits' = Waits
      BY <1>0, <2>2, <3>2, OneCallMoves
    <3> QED
      BY <2>5, <3>1, <3>3 DEF Mapped
  <2>8. CASE ~req[o].copy
    <3>1. View(o)' = Uninitialized(req[o].size)
      BY <1>0, <2>1, <2>2, <2>4, <2>8, BufferAssumption DEF View, Releasing, TypeOK
    <3>2. Abstract!Serve(o)
      BY <1>0, <2>2, <2>5, <2>8, <3>1, Serves
    <3> QED
      BY <3>2 DEF Abstract!SpecNext
  <2> QED
    BY <2>7, <2>8
<1>5. CASE Memcpy(o)
  <2>1. /\ pc[o] = "copy" /\ pc'[o] = "rel" /\ UNCHANGED <<handle, fresh, req>>
        /\ data' = [data EXCEPT ![fresh[o]] = CopyOf(data[handle[o]], req[o].size)]
        /\ \A q \in Owners \ {o} : pc'[q] = pc[q]
    BY <1>0, <1>5 DEF Memcpy, Goto, TypeOK
  <2>2. fresh[o] # None /\ fresh[o] \in Buffers /\ handle[o] \in Buffers
    BY <1>0, <2>1 DEF CopyHasBlock, TypeOK
  <2>3. \A q \in Owners \ {o} : handle[q] # fresh[o] /\ fresh[q] # fresh[o]
    BY <1>0, <2>2 DEF Alone
  <2>4. \A q \in Owners \ {o} : View(q)' = View(q)
    BY <1>0, <2>1, <2>3, OthersSee DEF TypeOK
  <2>5. View(o) = data[handle[o]]
    BY <1>0, <2>1, ViewIsContents DEF Releasing, Doomed, TypeOK
  <2>6. View(o)' = CopyOf(data[handle[o]], req[o].size)
    BY <1>0, <2>1, <2>2 DEF View, Releasing, TypeOK
  <2>7. req[o].copy
    BY <2>1 DEF CopyHasBlock
  <2>8. Abstract!Serve(o)
    BY <1>0, <2>1, <2>4, <2>5, <2>6, <2>7, Serves
  <2> QED
    BY <2>8 DEF Abstract!SpecNext
<1>6. CASE Decrement(o) \/ Zero(o) \/ Dealloc(o)
  <2>1. pc[o] \in Releasing /\ (pc[o] = "dec" => data' = data)
    BY <1>6 DEF Decrement, Zero, Dealloc, Releasing, Doomed
  <2>2. CASE Finish(o)
    <3>1. \A b \in Buffers : data'[b] = data[b] \/ (b = handle[o] /\ pc[o] \in {"sole"} \cup Doomed)
      BY <1>0, <1>6, <2>1 DEF Decrement, Zero, Dealloc, Free, Doomed, TypeOK
    <3> QED
      BY <2>1, <2>2, <3>1, FinishIsUnseen
  <2>3. CASE UNCHANGED <<data, handle, fresh, req>> /\ pc'[o] \in Doomed /\ \A q \in Owners \ {o} : pc'[q] = pc[q]
    <3>1. UNCHANGED Mapped
      BY <2>1, <2>3 DEF View, Mapped, Releasing
    <3>2. Waiting(o) = {} /\ Waiting(o)' = {}
      BY <2>1, <2>3 DEF Waiting, Releasing, Doomed
    <3>3. Waits' = Waits
      BY <1>0, <2>3, <3>2, OneCallMoves
    <3> QED
      BY <3>1, <3>3
  <2> QED
    BY <1>0, <1>6, <2>2, <2>3 DEF Decrement, Zero, Dealloc, Goto, Doomed, TypeOK
<1>7. CASE Write(o)
  <2>1. /\ pc[o] = "write" /\ pc'[o] = "idle" /\ UNCHANGED <<handle, fresh>>
        /\ \A q \in Owners \ {o} : pc'[q] = pc[q] /\ req'[q] = req[q]
    BY <1>0, <1>7 DEF Write, Goto, TypeOK
  <2>2. handle[o] \in Buffers /\ handle[o] # None
    BY <1>0, <2>1 DEF TypeOK
  <2>3. View(o) = data[handle[o]] /\ View(o) # None /\ View(o)' = data'[handle[o]]
    BY <2>1, <2>2, ViewIsContents DEF View, Releasing, Doomed
  <2>4. Waiting(o) = {} /\ Waiting(o)' = {}
    BY <2>1 DEF Waiting
  <2>5. Waits' = Waits /\ Waits[o] = {}
    BY <1>0, <2>1, <2>4, OneCallMoves
  <2>6. CASE data' = data
    BY <2>1, <2>3, <2>5, <2>6 DEF View, Mapped, Releasing, Doomed
  <2>7. CASE \E v \in Values, i \in DOMAIN data[handle[o]] : data' = [data EXCEPT ![handle[o]][i] = v]
    <3>1. PICK v \in Values, i \in DOMAIN data[handle[o]] : data' = [data EXCEPT ![handle[o]][i] = v]
      BY <2>7
    <3>2. data'[handle[o]] = [data[handle[o]] EXCEPT ![i] = v]
      BY <1>0, <2>2, <3>1 DEF TypeOK
    <3>3. \A q \in Owners \ {o} : handle[q] # handle[o] /\ fresh[q] # handle[o]
      BY <1>0, <2>1 DEF Alone, Exclusive
    <3>4. \A q \in Owners \ {o} : View(q)' = View(q)
      BY <1>0, <2>1, <3>1, <3>3, OthersSee DEF TypeOK
    <3>5. Mapped' = [Mapped EXCEPT ![o] = [data[handle[o]] EXCEPT ![i] = v]] /\ Mapped[o] = data[handle[o]]
      BY <2>3, <3>2, <3>4, OneViewMoves
    <3>6. Mapped' = [Mapped EXCEPT ![o][i] = v]
      BY <3>5
    <3>7. Abstract!Write(o)
      BY <2>3, <2>5, <3>1, <3>5, <3>6 DEF Abstract!Write, Mapped, Waits
    <3> QED
      BY <3>7 DEF Abstract!SpecNext
  <2> QED
    BY <1>7, <2>6, <2>7 DEF Write
<1> QED
  BY <1>1, <1>2, <1>3, <1>4, <1>5, <1>6, <1>7 DEF Step

LEMMA SimulationStep == IInv /\ CopyHasBlock /\ [Next]_vars => [Abstract!SpecNext]_<<Mapped, Waits>>
<1>1. UNCHANGED vars => UNCHANGED <<Mapped, Waits>>
  BY DEF vars, View, Mapped, Waits, Waiting
<1> QED
  BY <1>1, StartSimulates, StepSimulates DEF Next

LEMMA CopyHasBlockHolds == Spec => []CopyHasBlock
  BY Inductive, CopyHasBlockInit, CopyHasBlockStep, PTL DEF Spec

\* Copy-on-write implements owners with contents of their own
\* (SharedBuffer.cpp:54-108): every step of every interleaving is one owner's
\* create, share, write or drop, or asks for a block of a size, hands over that
\* block with what was to be kept, refuses it and changes nothing, or is not seen.
THEOREM OwnersIsolated == Spec => OwnersAreIsolated
<1>1. Init => Abstract!SpecInit
  BY DEF Init, Abstract!SpecInit, View, Waiting, Releasing, Doomed
<1>2. IInv /\ CopyHasBlock /\ [Next]_vars
        => [Abstract!SpecNext]_(<<[o \in Owners |-> View(o)], [o \in Owners |-> Waiting(o)]>>)
  BY SimulationStep DEF Mapped, Waits
<1> QED
  BY <1>1, <1>2, Inductive, CopyHasBlockHolds, PTL DEF Spec, OwnersAreIsolated, Abstract!IsolatedOwners, Abstract!specVars
=============================================================================
