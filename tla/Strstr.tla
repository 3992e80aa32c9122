------------------------------- MODULE Strstr -------------------------------
(***************************************************************************)
(* libshims/libC/strstr.c: strstr of the camera library, which logs its    *)
(* arguments and accepts null pointers.  A string is the sequence of its   *)
(* characters; a position counts from 1, and 0 is NULL.                    *)
(***************************************************************************)
EXTENDS Integers, Sequences

CONSTANTS Characters, \* but the terminator 0
          MaxHay,     \* bound: the length of s
          MaxNeedle   \* bound: the length of find

ASSUME StrstrAssumption ==
  Characters \subseteq Nat \ {0} /\ MaxHay \in Nat /\ MaxNeedle \in Nat

VARIABLES
  strPc,     \* "called", "scan", "compare" or "returned"
  hay,       \* s
  needle,    \* find
  strAt,     \* the pointer s while it moves
  strResult

strVars == <<strPc, hay, needle, strAt, strResult>>

StrstrInit == strPc = "called" /\ hay = << >> /\ needle = << >> /\ strAt = 1 /\ strResult = 0

StringsUpTo(n) == UNION {[1..k -> Characters] : k \in 0..n}

\* The byte at a position of s.
CharAt(i) == IF i <= Len(hay) THEN hay[i] ELSE 0

-----------------------------------------------------------------------------
\* strstr returns NULL at once when either is NULL, and s for an empty find.
StrstrNull ==
  /\ strPc = "called"
  /\ strPc' = "null"
  /\ UNCHANGED <<hay, needle, strAt, strResult>>

StrstrCalled ==
  /\ strPc = "called"
  /\ hay' \in StringsUpTo(MaxHay) /\ needle' \in StringsUpTo(MaxNeedle)
  /\ strPc' = IF needle' = << >> THEN "returned" ELSE "scan"
  /\ strResult' = IF needle' = << >> THEN 1 ELSE 0
  /\ UNCHANGED strAt

\* The inner loop.
ScanChar ==
  /\ strPc = "scan"
  /\ strAt' = strAt + 1
  /\ strPc' = IF CharAt(strAt) = 0 THEN "returned"
              ELSE IF CharAt(strAt) = needle[1] THEN "compare" ELSE "scan"
  /\ UNCHANGED <<hay, needle, strResult>>

\* Mutant: after a failed comparison the part that was compared is skipped.
CompareSkipping ==
  /\ strPc = "compare"
  /\ IF \A k \in 2..Len(needle) : CharAt(strAt + k - 2) = needle[k]
     THEN strPc' = "returned" /\ strResult' = strAt - 1 /\ UNCHANGED strAt
     ELSE /\ strPc' = "scan" /\ UNCHANGED strResult
          /\ strAt' = strAt + Len(needle) - 1
  /\ UNCHANGED <<hay, needle>>

\* strncmp with the rest of find, and the s-- behind the outer loop.
Compare ==
  /\ strPc = "compare"
  /\ IF \A k \in 2..Len(needle) : CharAt(strAt + k - 2) = needle[k]
     THEN strPc' = "returned" /\ strResult' = strAt - 1
     ELSE strPc' = "scan" /\ UNCHANGED strResult
  /\ UNCHANGED <<hay, needle, strAt>>

StrstrNext == StrstrNull \/ StrstrCalled \/ ScanChar \/ Compare

StrstrSpec == StrstrInit /\ [][StrstrNext]_strVars
-----------------------------------------------------------------------------
(* Properties *)

Occurs(i) == \A k \in 1..Len(needle) : CharAt(i + k - 1) = needle[k]

\* "Find the first occurrence of find in s" (strstr.c:40): where strstr returns,
\* find begins, and nowhere before; NULL means that it is nowhere.  A comparison
\* that fails in the middle must not hide an occurrence that began inside it.
FindsFirst ==
  strPc = "returned" =>
    IF strResult = 0 THEN \A i \in 1..Len(hay) : ~Occurs(i)
    ELSE Occurs(strResult) /\ \A i \in 1..(strResult - 1) : ~Occurs(i)

\* Nothing behind the terminator of s is read: the pointer passes it only to
\* return (65).
StaysInString == strPc \in {"scan", "compare"} => strAt <= Len(hay) + 1

\* Each round of the loops comes nearer to the end of s, so strstr returns.
ScanAdvances == [][strPc = "scan" => strAt' > strAt]_strVars
=============================================================================
