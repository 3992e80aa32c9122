---------------------------- MODULE SharedBuffer ----------------------------
(***************************************************************************)
(* libshims/SharedBuffer.cpp: a heap block with a reference count, handed  *)
(* from thread to thread and copied when a thread wants to write to it.    *)
(*                                                                         *)
(* Every owner is a thread with one pointer.  A call is a sequence of      *)
(* steps, one per access to memory another thread can reach (the read of   *)
(* mRefs in onlyOwner(), the atomic decrement, the memcpy, the stores, the *)
(* calls of the allocator), so calls of different owners interleave        *)
(* exactly there.  The contract of the class is kept: a thread passes its  *)
(* pointer on only between its own calls.                                  *)
(***************************************************************************)
EXTENDS Integers, Sequences, FiniteSets

CONSTANTS Owners,   \* threads, one SharedBuffer pointer each
          Buffers,  \* addresses the allocator may return
          Values,   \* what an owner may write into a cell
          Junk,     \* the content of a cell nobody has written
          Sizes,    \* sizes an owner may ask for
          None      \* the null pointer

ASSUME BufferAssumption ==
  /\ IsFiniteSet(Owners)
  /\ None \notin Buffers
  /\ Sizes \subseteq Nat

VARIABLES live,    \* the blocks malloc has handed out and free has not taken back
          mRefs,   \* [Buffers -> Int], the count of each block
          data,    \* [Buffers -> Seq], the cells of each block; its length is mSize
          handle,  \* the pointer an owner holds
          fresh,   \* the block an owner's call in progress has allocated
          req,     \* the arguments of an owner's call in progress
          pc       \* where an owner's call in progress stands

vars == <<live, mRefs, data, handle, fresh, req, pc>>

Cells == Values \cup {Junk}
Contents == UNION {[1..n -> Cells] : n \in Sizes \cup {0}}
\* What a buffer holds is no null pointer.
ASSUME ContentsAssumption == None \notin Contents

Requests == [size : Sizes \cup {0}, keep : BOOLEAN, copy : BOOLEAN]
NoReq == [size |-> 0, keep |-> FALSE, copy |-> FALSE]

\* release() after its last access to the count: this owner alone may free.
Doomed == {"last", "dealloc"}
\* Phases in which the owner has decided that nobody else sees the block.
Exclusive == {"write", "realloc", "sole"}
Releasing == {"rel", "dec", "sole"} \cup Doomed
Phases == {"idle", "alloc", "copy"} \cup Exclusive \cup Releasing

mSize(b) == Len(data[b])
OnlyOwner(b) == mRefs[b] = 1

-----------------------------------------------------------------------------
Init ==
  /\ live = {}
  /\ mRefs = [b \in Buffers |-> 0]
  /\ data = [b \in Buffers |-> << >>]
  /\ handle = [o \in Owners |-> None]
  /\ fresh = [o \in Owners |-> None]
  /\ req = [o \in Owners |-> NoReq]
  /\ pc = [o \in Owners |-> "idle"]

Goto(o, phase) == pc' = [pc EXCEPT ![o] = phase]

\* Mutant: the block is one cell longer than asked for.
UninitializedOneMore(n) == [i \in 1..n + 1 |-> Junk]
Uninitialized(n) == [i \in 1..n |-> Junk]

\* What the first n cells of a block of m cells are after a copy from s.
CopyOf(s, n) == [i \in 1..n |-> IF i <= Len(s) THEN s[i] ELSE Junk]

Malloc(b, n) ==
  /\ b \notin live
  /\ live' = live \cup {b}
  /\ mRefs' = [mRefs EXCEPT ![b] = 1]
  /\ data' = [data EXCEPT ![b] = Uninitialized(n)]

\* SharedBuffer::alloc, called by an owner that has no buffer.
Alloc(o) ==
  /\ pc[o] = "idle"
  /\ handle[o] = None
  /\ \E b \in Buffers, n \in Sizes :
       /\ Malloc(b, n)
       /\ handle' = [handle EXCEPT ![o] = b]
  /\ UNCHANGED <<fresh, req, pc>>

\* Mutant: the copy of the pointer is not counted.
AcquireUncounted(o, p) ==
  /\ pc[o] = "idle" /\ handle[o] # None
  /\ pc[p] = "idle" /\ handle[p] = None
  /\ handle' = [handle EXCEPT ![p] = handle[o]]
  /\ UNCHANGED <<live, mRefs, data, fresh, req, pc>>

\* SharedBuffer::acquire for the copy of the pointer that o gives to p.
Acquire(o, p) ==
  /\ pc[o] = "idle" /\ handle[o] # None
  /\ pc[p] = "idle" /\ handle[p] = None
  /\ mRefs' = [mRefs EXCEPT ![handle[o]] = @ + 1]
  /\ handle' = [handle EXCEPT ![p] = handle[o]]
  /\ UNCHANGED <<live, data, fresh, req, pc>>

Call(o, size, keep, copy) ==
  /\ pc[o] = "idle"
  /\ handle[o] # None
  /\ req' = [req EXCEPT ![o] = [size |-> size, keep |-> keep, copy |-> copy]]
  /\ UNCHANGED <<live, mRefs, data, handle, fresh>>

\* SharedBuffer::edit: the owner writes in place when it is the only one.
Edit(o) ==
  /\ Call(o, mSize(handle[o]), FALSE, TRUE)
  /\ Goto(o, IF OnlyOwner(handle[o]) THEN "write" ELSE "alloc")

\* VectorImpl::editArrayImpl: attemptEdit, and when that fails a copy whose
\* old storage is released with eKeepStorage and then deallocated.
EditArray(o) ==
  /\ Call(o, mSize(handle[o]), TRUE, TRUE)
  /\ Goto(o, IF OnlyOwner(handle[o]) THEN "write" ELSE "alloc")

\* Mutant: the block is resized in place without looking at the count.
EditResizeShared(o) ==
  \E n \in Sizes :
    /\ Call(o, n, FALSE, TRUE)
    /\ Goto(o, IF mSize(handle[o]) = n THEN "write" ELSE "realloc")

\* SharedBuffer::editResize up to the realloc.
EditResize(o) ==
  \E n \in Sizes :
    /\ Call(o, n, FALSE, TRUE)
    /\ Goto(o, IF ~OnlyOwner(handle[o]) THEN "alloc"
               ELSE IF mSize(handle[o]) = n THEN "write" ELSE "realloc")

\* SharedBuffer::reset.
Reset(o) ==
  \E n \in Sizes :
    /\ Call(o, n, FALSE, FALSE)
    /\ Goto(o, "alloc")

\* SharedBuffer::release, alone or inside VectorImpl::release_storage.
Release(o) ==
  \E keep \in BOOLEAN :
    /\ Call(o, 0, keep, FALSE)
    /\ Goto(o, "rel")

-----------------------------------------------------------------------------
\* realloc returns the same block or moves the contents to another one.
Realloc(o) ==
  /\ pc[o] = "realloc"
  /\ \E b \in (Buffers \ live) \cup {handle[o]} :
       /\ live' = (live \ {handle[o]}) \cup {b}
       /\ mRefs' = [mRefs EXCEPT ![handle[o]] = 0, ![b] = 1]
       /\ data' = [data EXCEPT ![handle[o]] = << >>,
                               ![b] = CopyOf(data[handle[o]], req[o].size)]
       /\ handle' = [handle EXCEPT ![o] = b]
  /\ req' = [req EXCEPT ![o] = NoReq]
  /\ Goto(o, "write")
  /\ UNCHANGED fresh

\* realloc fails: editResize falls through to the allocation.
ReallocFails(o) ==
  /\ pc[o] = "realloc"
  /\ Goto(o, "alloc")
  /\ UNCHANGED <<live, mRefs, data, handle, fresh, req>>

AllocFresh(o) ==
  /\ pc[o] = "alloc"
  /\ \E b \in Buffers :
       /\ Malloc(b, req[o].size)
       /\ fresh' = [fresh EXCEPT ![o] = b]
  /\ Goto(o, IF req[o].copy THEN "copy" ELSE "rel")
  /\ UNCHANGED <<handle, req>>

\* Mutant: the old block is released although the new one was not allocated.
AllocFailsReleases(o) ==
  /\ pc[o] = "alloc"
  /\ ~req[o].keep
  /\ mRefs' = [mRefs EXCEPT ![handle[o]] = @ - 1]
  /\ req' = [req EXCEPT ![o] = NoReq]
  /\ Goto(o, "idle")
  /\ UNCHANGED <<live, data, handle, fresh>>

\* The call returns NULL and its caller keeps the old pointer.  editArrayImpl
\* aborts the process instead, so no step follows.
AllocFails(o) ==
  /\ pc[o] = "alloc"
  /\ ~req[o].keep
  /\ req' = [req EXCEPT ![o] = NoReq]
  /\ Goto(o, "idle")
  /\ UNCHANGED <<live, mRefs, data, handle, fresh>>

\* Mutant: the new block is handed over without the copy.
MemcpyForgotten(o) ==
  /\ pc[o] = "copy"
  /\ Goto(o, "rel")
  /\ UNCHANGED <<live, mRefs, data, handle, fresh, req>>

Memcpy(o) ==
  /\ pc[o] = "copy"
  /\ data' = [data EXCEPT ![fresh[o]] = CopyOf(data[handle[o]], req[o].size)]
  /\ Goto(o, "rel")
  /\ UNCHANGED <<live, mRefs, handle, fresh, req>>

\* release: the short-circuited onlyOwner().
ReleaseCheck(o) ==
  /\ pc[o] = "rel"
  /\ Goto(o, IF OnlyOwner(handle[o]) THEN "sole" ELSE "dec")
  /\ UNCHANGED <<live, mRefs, data, handle, fresh, req>>

\* The owner continues with the block its call allocated, if any.
Finish(o) ==
  /\ handle' = [handle EXCEPT ![o] = fresh[o]]
  /\ fresh' = [fresh EXCEPT ![o] = None]
  /\ req' = [req EXCEPT ![o] = NoReq]
  /\ Goto(o, IF fresh[o] = None THEN "idle" ELSE "write")

\* Mutant: the count is tested against zero although it is the old one.
DecrementNeverLast(o) ==
  /\ pc[o] = "dec"
  /\ mRefs' = [mRefs EXCEPT ![handle[o]] = @ - 1]
  /\ IF mRefs[handle[o]] = 0
     THEN Goto(o, "last") /\ UNCHANGED <<handle, fresh, req>>
     ELSE Finish(o)
  /\ UNCHANGED <<live, data>>

\* android_atomic_dec returns the count before the decrement.
Decrement(o) ==
  /\ pc[o] = "dec"
  /\ mRefs' = [mRefs EXCEPT ![handle[o]] = @ - 1]
  /\ IF mRefs[handle[o]] = 1
     THEN Goto(o, "last") /\ UNCHANGED <<handle, fresh, req>>
     ELSE Finish(o)
  /\ UNCHANGED <<live, data>>

Free(b) ==
  /\ live' = live \ {b}
  /\ data' = [data EXCEPT ![b] = << >>]

\* Mutant: the only owner skips the store of zero.
ZeroForgotten(o) ==
  /\ pc[o] \in {"sole", "last"}
  /\ UNCHANGED mRefs
  /\ IF req[o].keep
     THEN Goto(o, "dealloc") /\ UNCHANGED <<live, data, handle, fresh, req>>
     ELSE Free(handle[o]) /\ Finish(o)

\* mRefs = 0, then free() unless the caller keeps the storage.
Zero(o) ==
  /\ pc[o] \in {"sole", "last"}
  /\ mRefs' = [mRefs EXCEPT ![handle[o]] = 0]
  /\ IF req[o].keep
     THEN Goto(o, "dealloc") /\ UNCHANGED <<live, data, handle, fresh, req>>
     ELSE Free(handle[o]) /\ Finish(o)

\* SharedBuffer::dealloc after release_storage has destroyed the items; it
\* refuses, and the block is lost, when the count is not zero.
Dealloc(o) ==
  /\ pc[o] = "dealloc"
  /\ IF mRefs[handle[o]] # 0 THEN UNCHANGED <<live, data>> ELSE Free(handle[o])
  /\ Finish(o)
  /\ UNCHANGED mRefs

\* The owner stores one cell, or none, through the pointer the call returned.
Write(o) ==
  /\ pc[o] = "write"
  /\ \/ UNCHANGED data
     \/ \E v \in Values, i \in DOMAIN data[handle[o]] :
          data' = [data EXCEPT ![handle[o]][i] = v]
  /\ req' = [req EXCEPT ![o] = NoReq]
  /\ Goto(o, "idle")
  /\ UNCHANGED <<live, mRefs, handle, fresh>>

-----------------------------------------------------------------------------
Step(o) ==
  \/ Realloc(o) \/ ReallocFails(o) \/ AllocFresh(o) \/ AllocFails(o)
  \/ Memcpy(o) \/ ReleaseCheck(o) \/ Decrement(o) \/ Zero(o) \/ Dealloc(o)
  \/ Write(o)

Start(o) ==
  \/ Alloc(o) \/ Edit(o) \/ EditArray(o) \/ EditResize(o) \/ Reset(o) \/ Release(o)
  \/ \E p \in Owners : Acquire(o, p)

Next == \E o \in Owners : Start(o) \/ Step(o)

Spec == Init /\ [][Next]_vars

\* A thread inside a call keeps running; it is free never to call.
FairSpec == Spec /\ \A o \in Owners : WF_vars(Step(o))

-----------------------------------------------------------------------------
(* Properties *)

\* The shapes of the variables: mRefs is an int32_t, a block has one of the
\* sizes that were asked for, a freed one has no cells, and a thread inside a
\* call has the pointer it made the call with.
TypeOK ==
  /\ live \subseteq Buffers
  /\ mRefs \in [Buffers -> Int]
  /\ data \in [Buffers -> Contents]
  /\ handle \in [Owners -> Buffers \cup {None}]
  /\ fresh \in [Owners -> Buffers \cup {None}]
  /\ req \in [Owners -> Requests]
  /\ pc \in [Owners -> Phases]
  /\ \A o \in Owners : pc[o] # "idle" => handle[o] # None

\* A reference is a pointer that still counts: an owner's current one unless
\* release() has already given it up, and the one its call has allocated.
Pointers ==
  [r \in Owners \X {"current", "fresh"} |->
     IF r[2] = "fresh" THEN fresh[r[1]]
     ELSE IF pc[r[1]] \in Doomed THEN None ELSE handle[r[1]]]
References(b) == {r \in DOMAIN Pointers : Pointers[r] = b}

\* mRefs is exact at every step, through every interleaving of acquire,
\* release and the copies (SharedBuffer.cpp:110-124).
CountIsExact == \A b \in live : mRefs[b] = Cardinality(References(b))

\* No thread inside or between calls has a pointer to a freed block, so no
\* onlyOwner(), memcpy, store or free touches one (SharedBuffer.cpp:114-124).
NoDanglingPointer ==
  \A o \in Owners :
    /\ handle[o] # None => handle[o] \in live
    /\ fresh[o] # None => fresh[o] \in live

\* Once onlyOwner() has let a thread write, resize or free in place, no other
\* thread reaches the block (SharedBuffer.cpp:54-98): the answer cannot go
\* stale between the check and the use.
ExclusiveMeansAlone ==
  \A o \in Owners : pc[o] \in Exclusive \cup Doomed =>
    \A q \in Owners \ {o} : handle[q] # handle[o] /\ fresh[q] # handle[o]

\* A block is lost to nobody: as long as it is allocated some thread refers
\* to it or is about to free it (SharedBuffer.cpp:47-52, 117-121).
NothingLeaks ==
  \A b \in live :
    \/ References(b) # {}
    \/ \E o \in Owners : handle[o] = b /\ pc[o] \in Doomed

\* What each owner would read: nothing from the moment it calls release(), the
\* new block from the moment its copy is complete, the current one otherwise.
View(o) ==
  LET p == IF pc[o] \in Releasing THEN fresh[o] ELSE handle[o]
  IN  IF p = None THEN None ELSE data[p]

\* The call an owner waits for: a block of the size it asked for, with or
\* without what is there; it has it from the moment the view changes.
Waiting(o) ==
  IF pc[o] \in {"alloc", "copy", "realloc"}
  THEN {[size |-> req[o].size, copy |-> req[o].copy]} ELSE {}

Abstract == INSTANCE SharedBufferSpec
              WITH contents <- [o \in Owners |-> View(o)], asked <- [o \in Owners |-> Waiting(o)]

\* Copy-on-write implements owners with contents of their own: edit and
\* editResize keep what fits, reset keeps nothing, a call without memory changes
\* nothing, and no step changes what another owner sees (SharedBuffer.cpp:54-108).
OwnersAreIsolated == Abstract!IsolatedOwners

\* A block whose last owner has called release() is eventually given back to
\* the allocator, eKeepStorage or not (SharedBuffer.cpp:47-52, 114-124).
LastReleaseFrees ==
  \A b \in Buffers :
    (\E o \in Owners : handle[o] = b /\ pc[o] \in Doomed) ~> (b \notin live)
=============================================================================
