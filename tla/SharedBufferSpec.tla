-------------------------- MODULE SharedBufferSpec --------------------------
(***************************************************************************)
(* What the copy-on-write buffers of libshims/SharedBuffer.cpp promise     *)
(* their owners: every owner has contents of its own, and they are what it *)
(* last asked for.  Nothing here knows of reference counts or of sharing;  *)
(* SharedBuffer.tla implements it.                                         *)
(***************************************************************************)
EXTENDS Naturals, Sequences

CONSTANTS Owners,   \* the holders of a SharedBuffer pointer
          Values,   \* what an owner may write into a cell
          Junk,     \* the content of a cell nobody has written
          Sizes,    \* the sizes a buffer may be given
          None      \* the contents of an owner that holds no buffer

VARIABLES contents,  \* [Owners -> Seq(Values \cup {Junk}) \cup {None}]
          asked      \* the call an owner waits for: a set of one request or none

specVars == <<contents, asked>>

Unwritten(n) == [i \in 1..n |-> Junk]

\* The first n cells of c, and cells nobody has written behind its end.
Resized(c, n) == [i \in 1..n |-> IF i <= Len(c) THEN c[i] ELSE Junk]

SpecInit ==
  /\ contents = [o \in Owners |-> None]
  /\ asked = [o \in Owners |-> {}]

Create(o) ==
  /\ contents[o] = None
  /\ \E n \in Sizes : contents' = [contents EXCEPT ![o] = Unwritten(n)]
  /\ UNCHANGED asked

Share(o, p) ==
  /\ contents[o] # None /\ asked[o] = {}
  /\ contents[p] = None
  /\ contents' = [contents EXCEPT ![p] = contents[o]]
  /\ UNCHANGED asked

\* A write changes one cell of one owner's contents.
Write(o) ==
  /\ contents[o] # None /\ asked[o] = {}
  /\ \E i \in DOMAIN contents[o], v \in Values :
       contents' = [contents EXCEPT ![o][i] = v]
  /\ UNCHANGED asked

\* The owner asks for a buffer of another size, or of the same one, that keeps
\* what is there (edit, editResize) or does not (reset).
Ask(o) ==
  /\ contents[o] # None /\ asked[o] = {}
  /\ \E n \in Sizes \cup {Len(contents[o])}, copy \in BOOLEAN :
       asked' = [asked EXCEPT ![o] = {[size |-> n, copy |-> copy]}]
  /\ UNCHANGED contents

\* It gets what it asked for ...
Serve(o) ==
  \E r \in asked[o] :
    /\ contents' = [contents EXCEPT ![o] = IF r.copy THEN Resized(contents[o], r.size)
                                           ELSE Unwritten(r.size)]
    /\ asked' = [asked EXCEPT ![o] = {}]

\* ... or, without memory, keeps what it has.
Refuse(o) ==
  /\ asked' = [asked EXCEPT ![o] = {}]
  /\ UNCHANGED contents

Drop(o) ==
  /\ contents[o] # None /\ asked[o] = {}
  /\ contents' = [contents EXCEPT ![o] = None]
  /\ UNCHANGED asked

SpecNext ==
  \E o \in Owners :
    \/ Create(o) \/ Write(o) \/ Ask(o) \/ Serve(o) \/ Refuse(o) \/ Drop(o)
    \/ \E p \in Owners : Share(o, p)

IsolatedOwners == SpecInit /\ [][SpecNext]_specVars
=============================================================================
