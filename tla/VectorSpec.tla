----------------------------- MODULE VectorSpec -----------------------------
(***************************************************************************)
(* What the vectors of libshims/VectorImpl.cpp promise: every vector is a  *)
(* sequence of its own, an operation changes one of them, and an operation *)
(* that cannot get memory changes none.                                    *)
(***************************************************************************)
EXTENDS Naturals, Sequences

CONSTANTS Vectors,   \* the vector objects
          Cells,     \* what an item may be
          Key(_)     \* what the comparison callback of sort() looks at

VARIABLE items       \* [Vectors -> Seq(Cells)]

SpecInit == items = [v \in Vectors |-> << >>]

\* t is s with a run of items put in at one place.
Inserted(s, t) ==
  LET n == Len(t) - Len(s)
  IN  /\ Len(s) <= Len(t)
      /\ \E i \in 0..Len(s) :
           /\ SubSeq(t, 1, i) = SubSeq(s, 1, i)
           /\ SubSeq(t, i + n + 1, Len(t)) = SubSeq(s, i + 1, Len(s))

\* t is s with a run of items taken out.
Removed(s, t) == Inserted(t, s)

Replaced(s, t) ==
  /\ Len(s) = Len(t)
  /\ \E i \in 1..Len(s) : t = [s EXCEPT ![i] = t[i]]

\* t is the stable sort of s: the items move by a permutation that orders the
\* keys and keeps the order of equal keys.
Sorted(s, t) ==
  LET S == 1..Len(s)
      Before(i, j) == Key(s[i]) < Key(s[j]) \/ (Key(s[i]) = Key(s[j]) /\ i < j)
  IN  /\ Len(s) = Len(t)
      /\ \E to \in [S -> S] :
           /\ \A i \in S : t[to[i]] = s[i]
           /\ \A i, j \in S : Before(i, j) => to[i] < to[j]

SpecNext ==
  \E v \in Vectors :
    LET s == items[v]
        t == items'[v]
    IN  /\ items' \in [Vectors -> Seq(Cells)]
        /\ \A u \in Vectors \ {v} : items'[u] = items[u]
        /\ \/ Inserted(s, t) \/ Removed(s, t) \/ Replaced(s, t) \/ Sorted(s, t)
           \/ \E u \in Vectors : t = items[u]

IndependentSequences == SpecInit /\ [][SpecNext]_items
=============================================================================
