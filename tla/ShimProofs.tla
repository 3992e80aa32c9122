------------------------------ MODULE ShimProofs ------------------------------
(***************************************************************************)
(* The two small shims.  strstr finds the first occurrence and stays in    *)
(* its string, for all strings over all characters: the inductive          *)
(* invariant is that find begins nowhere before the pointer.  The GPS      *)
(* shims behave for any number of calls: theirs is a count, a shim is its  *)
(* own original only after two replacements.                               *)
(***************************************************************************)
EXTENDS Strstr, GpsShim, TLAPS

-----------------------------------------------------------------------------
(* strstr *)

\* What the loops know: nothing before the pointer is an occurrence, and while
\* they compare the first character has been found before it.
Passed == \A i \in 1..(strAt - (IF strPc = "compare" THEN 2 ELSE 1)) : ~Occurs(i)

StrstrInv ==
  /\ strPc \in {"called", "null", "scan", "compare", "returned"}
  /\ hay \in Seq(Nat \ {0}) /\ needle \in Seq(Nat \ {0})
  /\ strAt \in Nat \ {0} /\ strResult \in Nat
  /\ strPc \in {"scan", "compare"} =>
       /\ needle # << >> /\ strAt <= Len(hay) + 1 /\ strResult = 0 /\ Passed
  /\ strPc = "called" => strAt = 1
  /\ strPc = "compare" => strAt > 1 /\ CharAt(strAt - 1) = needle[1]
  /\ FindsFirst

\* A string of bounded length is a sequence of characters.
LEMMA StringIsSeq ==
  ASSUME NEW n \in Nat, NEW s \in StringsUpTo(n)
  PROVE  s \in Seq(Nat \ {0})
<1>1. PICK k \in 0..n : s \in [1..k -> Characters]
  BY DEF StringsUpTo
<1>2. s \in [1..k -> Nat \ {0}]
  BY <1>1, StrstrAssumption
<1> QED
  BY <1>2

\* The initial state.
LEMMA StrstrInitInv == StrstrInit => StrstrInv
  BY DEF StrstrInit, StrstrInv, FindsFirst

\* strstr is called.
LEMMA CallInv == StrstrInv /\ StrstrCalled => StrstrInv'
<1> SUFFICES ASSUME StrstrInv, StrstrCalled PROVE StrstrInv'
  OBVIOUS
<1>1. hay' \in Seq(Nat \ {0}) /\ needle' \in Seq(Nat \ {0})
  BY StringIsSeq, StrstrAssumption DEF StrstrCalled
<1>2. strAt' = 1 /\ strPc' # "compare"
  BY DEF StrstrCalled, StrstrInv
<1>3. CASE needle' = << >>
  <2>1. strPc' = "returned" /\ strResult' = 1
    BY <1>3 DEF StrstrCalled
  <2>2. FindsFirst'
    BY <1>3, <2>1 DEF FindsFirst, Occurs
  <2> QED
    BY <1>1, <1>2, <2>1, <2>2 DEF StrstrInv
<1>4. CASE needle' # << >>
  <2>1. strPc' = "scan" /\ strResult' = 0
    BY <1>4 DEF StrstrCalled
  <2>2. Passed' /\ FindsFirst'
    BY <1>2, <2>1 DEF Passed, FindsFirst
  <2>3. strAt' <= Len(hay') + 1
    BY <1>1, <1>2
  <2> QED
    BY <1>1, <1>2, <1>4, <2>1, <2>2, <2>3 DEF StrstrInv
<1> QED
  BY <1>3, <1>4

\* An occurrence begins with the first character of find, inside s.
LEMMA OccursBegins ==
  ASSUME StrstrInv, needle # << >>, NEW i \in Nat \ {0}, Occurs(i)
  PROVE  CharAt(i) = needle[1] /\ i <= Len(hay) /\ needle[1] # 0
<1>1. Len(needle) \in Nat /\ 1 \in 1..Len(needle) /\ needle[1] \in Nat \ {0}
  BY DEF StrstrInv
<1>2. CharAt(i + 1 - 1) = needle[1]
  BY <1>1 DEF Occurs
<1>3. i + 1 - 1 = i
  OBVIOUS
<1>4. CharAt(i) = needle[1]
  BY <1>2, <1>3
<1> QED
  BY <1>1, <1>4 DEF CharAt, StrstrInv

\* One character is looked at.
LEMMA ScanInv == StrstrInv /\ ScanChar => StrstrInv'
<1> SUFFICES ASSUME StrstrInv, ScanChar PROVE StrstrInv'
  OBVIOUS
<1>1. /\ strPc = "scan" /\ strAt' = strAt + 1 /\ hay' = hay /\ needle' = needle /\ strResult' = 0
      /\ needle # << >> /\ strAt <= Len(hay) + 1 /\ strAt \in Nat \ {0} /\ Len(hay) \in Nat
  BY DEF ScanChar, StrstrInv
<1>2. \A i \in 1..(strAt - 1) : ~Occurs(i)
  BY <1>1 DEF StrstrInv, Passed
<1>3. \A i : Occurs(i)' <=> Occurs(i)
  BY <1>1 DEF Occurs, CharAt
<1>4. CharAt(strAt) = 0 \/ strAt <= Len(hay)
  BY <1>1 DEF CharAt
<1>5. CharAt(strAt') = CharAt(strAt + 1) /\ CharAt(strAt)' = CharAt(strAt + 1)
      /\ CharAt(strAt - 1)' = CharAt(strAt)
  <2>1. strAt' - 1 = strAt
    BY <1>1
  <2> QED
    BY <1>1, <2>1 DEF CharAt
<1>6. CASE CharAt(strAt) = 0
  <2>1. strPc' = "returned"
    BY <1>6 DEF ScanChar
  <2>2. strAt > Len(hay)
    BY <1>1, <1>6 DEF CharAt, StrstrInv
  <2>3. \A i \in 1..Len(hay) : ~Occurs(i)
    BY <1>1, <1>2, <2>2
  <2>4. FindsFirst'
    BY <1>1, <1>3, <2>3 DEF FindsFirst
  <2> QED
    BY <1>1, <2>1, <2>4 DEF StrstrInv
<1>7. CASE CharAt(strAt) # 0 /\ CharAt(strAt) = needle[1]
  <2>1. strPc' = "compare"
    BY <1>7 DEF ScanChar
  <2>2. \A i \in 1..(strAt' - 2) : ~Occurs(i)'
    BY <1>1, <1>2, <1>3
  <2>3. Passed' /\ FindsFirst'
    BY <2>1, <2>2 DEF Passed, FindsFirst
  <2>4. strAt' > 1 /\ CharAt(strAt - 1)' = needle[1]' /\ strAt' <= Len(hay') + 1
    BY <1>1, <1>4, <1>5, <1>7
  <2> QED
    BY <1>1, <2>1, <2>3, <2>4 DEF StrstrInv
<1>8. CASE CharAt(strAt) # 0 /\ CharAt(strAt) # needle[1]
  <2>1. strPc' = "scan"
    BY <1>8 DEF ScanChar
  <2>2. ~Occurs(strAt)
    BY <1>1, <1>8, OccursBegins
  <2>3. \A i \in 1..(strAt' - 1) : ~Occurs(i)'
    BY <1>1, <1>2, <1>3, <2>2
  <2>4. Passed' /\ FindsFirst' /\ strAt' <= Len(hay') + 1
    BY <1>1, <1>4, <1>8, <2>1, <2>3 DEF Passed, FindsFirst
  <2> QED
    BY <1>1, <2>1, <2>4 DEF StrstrInv
<1> QED
  BY <1>6, <1>7, <1>8

\* The rest is compared.
LEMMA CompareInv == StrstrInv /\ Compare => StrstrInv'
<1> SUFFICES ASSUME StrstrInv, Compare PROVE StrstrInv'
  OBVIOUS
<1>1. /\ strPc = "compare" /\ strAt' = strAt /\ hay' = hay /\ needle' = needle
      /\ needle # << >> /\ strAt <= Len(hay) + 1 /\ strAt \in Nat /\ strAt > 1
      /\ strResult = 0 /\ Len(needle) \in Nat /\ CharAt(strAt - 1) = needle[1]
  BY DEF Compare, StrstrInv
<1>2. \A i \in 1..(strAt - 2) : ~Occurs(i)
  BY <1>1 DEF StrstrInv, Passed
<1>3. \A i : Occurs(i)' <=> Occurs(i)
  BY <1>1 DEF Occurs, CharAt
<1>4. Occurs(strAt - 1) <=> \A k \in 2..Len(needle) : CharAt(strAt + k - 2) = needle[k]
  <2>1. \A k \in Nat : (strAt - 1) + k - 1 = strAt + k - 2
    BY <1>1
  <2>2. 1..Len(needle) = {1} \cup 2..Len(needle)
    BY <1>1 DEF StrstrInv
  <2>3. CharAt(strAt + 1 - 2) = needle[1]
    <3>1. strAt + 1 - 2 = strAt - 1
      BY <1>1
    <3> QED
      BY <1>1, <3>1
  <2>4. \A k \in 1..Len(needle) : CharAt((strAt - 1) + k - 1) = CharAt(strAt + k - 2)
    <3> SUFFICES ASSUME NEW k \in 1..Len(needle)
                 PROVE  CharAt((strAt - 1) + k - 1) = CharAt(strAt + k - 2)
      OBVIOUS
    <3>1. (strAt - 1) + k - 1 = strAt + k - 2
      BY <1>1
    <3> QED
      BY <3>1
  <2> HIDE DEF CharAt
  <2>5. Occurs(strAt - 1) <=> \A k \in 1..Len(needle) : CharAt(strAt + k - 2) = needle[k]
    BY <2>4 DEF Occurs
  <2> QED
    BY <2>2, <2>3, <2>5
<1>5. CASE Occurs(strAt - 1)
  <2>1. strPc' = "returned" /\ strResult' = strAt - 1
    BY <1>4, <1>5 DEF Compare
  <2>2. FindsFirst'
    <3>1. strResult' # 0 /\ strResult' - 1 = strAt - 2
      BY <1>1, <2>1
    <3>2. Occurs(strAt - 1)' /\ \A i \in 1..(strAt - 2) : ~Occurs(i)'
      BY <1>1, <1>2, <1>3, <1>5 DEF Occurs, CharAt
    <3>3. Occurs(strResult)'
      BY <1>1, <2>1, <3>2 DEF Occurs, CharAt
    <3> QED
      BY <3>1, <3>2, <3>3 DEF FindsFirst
  <2> QED
    BY <1>1, <2>1, <2>2 DEF StrstrInv
<1>6. CASE ~Occurs(strAt - 1)
  <2>1. strPc' = "scan" /\ strResult' = 0
    BY <1>1, <1>4, <1>6 DEF Compare
  <2>2. \A i \in 1..(strAt' - 1) : ~Occurs(i)'
    BY <1>1, <1>2, <1>3, <1>6
  <2>3. Passed' /\ FindsFirst'
    BY <2>1, <2>2 DEF Passed, FindsFirst
  <2> QED
    BY <1>1, <2>1, <2>3 DEF StrstrInv
<1> QED
  BY <1>5, <1>6

\* A step that changes nothing.
LEMMA StrstrStutterInv == StrstrInv /\ UNCHANGED strVars => StrstrInv'
  BY DEF StrstrInv, strVars, Passed, FindsFirst, Occurs, CharAt

\* Every step keeps the invariant.
LEMMA StrstrStepInv == StrstrInv /\ [StrstrNext]_strVars => StrstrInv'
<1>1. StrstrInv /\ StrstrNull => StrstrInv'
  BY DEF StrstrInv, StrstrNull, FindsFirst
<1> QED
  BY <1>1, CallInv, ScanInv, CompareInv, StrstrStutterInv DEF StrstrNext

\* strstr returns the first occurrence of find, whatever the strings (61-71).
THEOREM FindsFirstHolds == StrstrSpec => []FindsFirst
<1>1. StrstrInv => FindsFirst
  BY DEF StrstrInv
<1> QED
  BY <1>1, StrstrInitInv, StrstrStepInv, PTL DEF StrstrSpec

\* strstr never reads behind the terminator of s.
THEOREM StaysInStringHolds == StrstrSpec => []StaysInString
<1>1. StrstrInv => StaysInString
  BY DEF StrstrInv, StaysInString
<1> QED
  BY <1>1, StrstrInitInv, StrstrStepInv, PTL DEF StrstrSpec

\* Every round of the loops advances the pointer.
THEOREM ScanAdvancesHolds == StrstrSpec => ScanAdvances
<1>1. StrstrInv /\ [StrstrNext]_strVars => [strPc = "scan" => strAt' > strAt]_strVars
  BY DEF StrstrInv, StrstrNext, StrstrNull, StrstrCalled, ScanChar, Compare, strVars
<1> QED
  BY <1>1, StrstrInitInv, StrstrStepInv, PTL DEF StrstrSpec, ScanAdvances

-----------------------------------------------------------------------------
(* GPS shims *)

Managers == [instance : {"null", "made"}, destroyed : Nat, made : Nat]

GpsTypeInv ==
  /\ gpsPc \in {"closed", "open", "unloaded", "overflow", "null pointer"}
  /\ pointers \in [Functions -> {"vendor", "shim"}]
  /\ originals \in [Functions -> {"null", "vendor", "shim"}]
  /\ gets \in [Functions -> Nat]
  /\ manager \in Managers
  /\ visitors \in [GpsThreads -> {"out", "locked", "made"}]

\* What a replaced pointer and a saved shim say of the past: the shim is saved
\* only by the second replacement.
ShimsCount ==
  \A f \in Functions : /\ pointers[f] = "shim" => gets[f] >= 1
                       /\ originals[f] = "shim" => gets[f] > 1

\* What the lock is for: one thread at a time is in getInstance, and it makes a
\* SensorManager only where there is none.
LockHolds ==
  /\ \A t, u \in GpsThreads : visitors[t] # "out" /\ visitors[u] # "out" => t = u
  /\ \A t \in GpsThreads : visitors[t] = "made" => manager.instance = "null"

GpsInv == GpsTypeInv /\ ShimsCount /\ LockHolds /\ ShimsBehave

LEMMA GpsInitInv == GpsInit => GpsInv
<1> SUFFICES ASSUME GpsInit PROVE GpsInv
  OBVIOUS
<1>1. GpsTypeInv /\ ShimsCount /\ LockHolds
  BY DEF GpsInit, GpsTypeInv, ShimsCount, LockHolds, NoManager, Managers, Functions
<1>2. NoRecursionAtFirst /\ LocationComesBack
  BY DEF GpsInit, NoRecursionAtFirst, LocationComesBack, NoLocation
<1>3. NoManagerLost
  BY DEF GpsInit, NoManagerLost, NoManager
<1> QED
  BY <1>1, <1>2, <1>3 DEF GpsInv, ShimsBehave

\* The pointers, their originals and their count are not touched; neither is the
\* SensorManager nor anybody who asks for it.
Untouched == UNCHANGED <<pointers, originals, gets>>
NobodyMoves == UNCHANGED <<manager, visitors>>

LEMMA UntouchedInv ==
  ASSUME ShimsCount, Untouched
  PROVE  ShimsCount'
  BY DEF ShimsCount, Untouched

LEMMA NobodyMovesInv ==
  ASSUME GpsInv, NobodyMoves, gpsPc' # "unloaded"
  PROVE  LockHolds' /\ NoManagerLost'
  BY DEF GpsInv, ShimsBehave, LockHolds, NoManagerLost, NobodyMoves

\* Replacing a function keeps the types and the count, whatever is there: the
\* vendor's function, or the shim when it was put there before.
LEMMA ReplaceInv ==
  ASSUME GpsTypeInv, ShimsCount, NEW f \in Functions, NEW given \in {"vendor", pointers[f]},
         Replace(f, given), gpsPc' = "open", NobodyMoves
  PROVE  GpsTypeInv' /\ ShimsCount'
<1>1. gets[f] \in Nat /\ pointers[f] \in {"vendor", "shim"}
  BY DEF GpsTypeInv
<1>2. GpsTypeInv'
  <2>1. pointers' \in [Functions -> {"vendor", "shim"}]
    BY DEF GpsTypeInv, Replace
  <2>2. originals' \in [Functions -> {"null", "vendor", "shim"}]
    BY <1>1 DEF GpsTypeInv, Replace
  <2>3. gets' \in [Functions -> Nat]
    <3>1. gets[f] + 1 \in Nat
      BY <1>1
    <3> QED
      BY <3>1 DEF GpsTypeInv, Replace
  <2> QED
    BY <2>1, <2>2, <2>3 DEF GpsTypeInv, NobodyMoves
<1>3. ASSUME NEW g \in Functions
      PROVE  (pointers'[g] = "shim" => gets'[g] >= 1) /\ (originals'[g] = "shim" => gets'[g] > 1)
  <2>1. CASE g = f
    <3>1. gets'[g] = gets[f] + 1 /\ originals'[g] = given
      BY <2>1 DEF Replace, GpsTypeInv
    <3>2. given = "shim" => gets[f] >= 1
      BY DEF ShimsCount
    <3> QED
      BY <1>1, <3>1, <3>2
  <2>2. CASE g # f
    <3>1. gets'[g] = gets[g] /\ originals'[g] = originals[g] /\ pointers'[g] = pointers[g]
      BY <2>2 DEF Replace, GpsTypeInv
    <3> QED
      BY <3>1 DEF ShimsCount
  <2> QED
    BY <2>1, <2>2
<1> QED
  BY <1>2, <1>3 DEF ShimsCount

\* A shim that calls itself was put in its place twice.
LEMMA RecursesLater ==
  ASSUME ShimsCount, NEW f \in Functions, Recurses(f)
  PROVE  \E g \in Functions : gets[g] > 1
  BY DEF ShimsCount, Recurses

\* Where the device is open, after a step of the framework that sets no location.
LEMMA FrameworkInv ==
  ASSUME GpsInv, GpsTypeInv', ShimsCount', NobodyMoves, UNCHANGED location,
         gpsPc' # "unloaded", NoRecursionAtFirst'
  PROVE  GpsInv'
<1>1. LocationComesBack'
  BY DEF GpsInv, ShimsBehave, LocationComesBack, Memory
<1> QED
  BY <1>1, NobodyMovesInv DEF GpsInv, ShimsBehave

LEMMA OpenInv == GpsInv /\ OpenGps => GpsInv'
<1> SUFFICES ASSUME GpsInv, OpenGps PROVE GpsInv'
  OBVIOUS
<1>1. PICK device \in {"vendor", pointers["get_gps_interface"]} : Replace("get_gps_interface", device)
  BY DEF OpenGps
<1>2. gpsPc' = "open" /\ UNCHANGED location /\ NobodyMoves
  BY DEF OpenGps, NobodyMoves
<1>3. GpsTypeInv' /\ ShimsCount'
  <2>1. "get_gps_interface" \in Functions
    BY DEF Functions
  <2> QED
    BY <1>1, <1>2, <2>1, ReplaceInv DEF GpsInv
<1> QED
  BY <1>2, <1>3, FrameworkInv DEF NoRecursionAtFirst

\* shim_get_gps_interface and shim_get_extension.
LEMMA ReplaceBehindInv ==
  ASSUME GpsInv, gpsPc = "open", NEW g \in Functions, NEW f \in Functions,
         ReplaceBehind(g, f), UNCHANGED location, NobodyMoves
  PROVE  GpsInv'
<1>1. CASE gpsPc' = "overflow" /\ Untouched /\ Recurses(g)
  <2>1. \E i \in Functions : gets'[i] > 1
    BY <1>1, RecursesLater DEF GpsInv, Untouched
  <2> QED
    BY <1>1, <2>1, UntouchedInv, FrameworkInv
    DEF GpsInv, GpsTypeInv, NoRecursionAtFirst, Untouched, NobodyMoves
<1>2. CASE gpsPc' = "open" /\ Replace(f, pointers[f])
  <2>1. GpsTypeInv' /\ ShimsCount'
    BY <1>2, ReplaceInv DEF GpsInv
  <2> QED
    BY <1>2, <2>1, FrameworkInv DEF NoRecursionAtFirst
<1>3. CASE gpsPc' = "null pointer" /\ Untouched /\ gets[f] = 0
  BY <1>3, UntouchedInv, FrameworkInv
  DEF GpsInv, GpsTypeInv, NoRecursionAtFirst, Untouched, NobodyMoves
<1> QED
  BY <1>1, <1>2, <1>3 DEF ReplaceBehind, Untouched

\* The caller gets back what the library set and what it had.
LEMMA CopiesComeBack ==
  ASSUME NEW S \in SUBSET VendorFields
  PROVE  /\ \A f \in VendorFields : AsusRefLoc(Memory)[f] = <<"caller", f>>
         /\ \A f \in SamsungFields :
              CopiedBack(Memory, SetBy(AsusRefLoc(Memory), S))[f]
                = <<IF f \in S THEN "library" ELSE "caller", f>>
<1>1. VendorFields \subseteq SamsungFields /\ "psc" \notin VendorFields
      /\ \A f \in SamsungFields : f # "psc" => f \in VendorFields
  BY DEF VendorFields
<1>2. \A f \in VendorFields : AsusRefLoc(Memory)[f] = <<"caller", f>>
  BY <1>1 DEF AsusRefLoc, Memory
<1>3. DOMAIN AsusRefLoc(Memory) = VendorFields
  BY DEF AsusRefLoc
<1>4. ASSUME NEW f \in VendorFields
      PROVE  SetBy(AsusRefLoc(Memory), S)[f] = <<IF f \in S THEN "library" ELSE "caller", f>>
  BY <1>2, <1>3 DEF SetBy
<1>5. ASSUME NEW f \in SamsungFields
      PROVE  CopiedBack(Memory, SetBy(AsusRefLoc(Memory), S))[f]
               = <<IF f \in S THEN "library" ELSE "caller", f>>
  <2>1. CASE f = "psc"
    BY <1>1, <2>1 DEF CopiedBack, Memory
  <2>2. CASE f # "psc"
    BY <1>1, <1>4, <2>2 DEF CopiedBack
  <2> QED
    BY <2>1, <2>2
<1> QED
  BY <1>2, <1>5

LEMMA SetLocationInv == GpsInv /\ ShimSetRefLocation => GpsInv'
<1> SUFFICES ASSUME GpsInv, ShimSetRefLocation PROVE GpsInv'
  OBVIOUS
<1>1. gpsPc = "open" /\ Untouched /\ NobodyMoves
  BY DEF ShimSetRefLocation, Untouched, NobodyMoves
<1>2. PICK caller \in {"vendor", "samsung", "larger"}, S \in SUBSET VendorFields :
        IF caller # "larger" /\ Recurses("set_ref_location")
        THEN gpsPc' = "overflow" /\ UNCHANGED location
        ELSE /\ location' = [caller |-> caller, set |-> S, given |-> AsusRefLoc(Memory),
                             after  |-> IF caller = "larger" THEN Memory
                                        ELSE CopiedBack(Memory, SetBy(AsusRefLoc(Memory), S))]
             /\ UNCHANGED gpsPc
  BY DEF ShimSetRefLocation
<1>3. GpsTypeInv' /\ ShimsCount' /\ LockHolds' /\ NoManagerLost'
  <2>1. gpsPc' \in {"overflow", "open"}
    BY <1>1, <1>2
  <2> QED
    BY <1>1, <2>1, UntouchedInv, NobodyMovesInv DEF GpsInv, GpsTypeInv, Untouched, NobodyMoves
<1>4. NoRecursionAtFirst' /\ LocationComesBack'
  <2>1. CASE caller # "larger" /\ Recurses("set_ref_location")
    <3>1. \E g \in Functions : gets'[g] > 1
      BY <1>1, <2>1, RecursesLater DEF GpsInv, Untouched, Functions
    <3>2. LocationComesBack'
      BY <1>2, <2>1 DEF GpsInv, ShimsBehave, LocationComesBack, Memory
    <3> QED
      BY <1>2, <2>1, <3>1, <3>2 DEF NoRecursionAtFirst
  <2>2. CASE ~(caller # "larger" /\ Recurses("set_ref_location"))
    <3>1. location' = [caller |-> caller, set |-> S, given |-> AsusRefLoc(Memory),
                       after  |-> IF caller = "larger" THEN Memory
                                  ELSE CopiedBack(Memory, SetBy(AsusRefLoc(Memory), S))]
      BY <1>2, <2>2
    <3>2. LocationComesBack'
      BY <3>1, CopiesComeBack DEF LocationComesBack, Memory
    <3> QED
      BY <1>1, <1>2, <2>2, <3>2 DEF NoRecursionAtFirst
  <2> QED
    BY <2>1, <2>2
<1> QED
  BY <1>3, <1>4 DEF GpsInv, ShimsBehave

-----------------------------------------------------------------------------
(* The SensorManager *)

\* The record of the SensorManager, taken apart.
LEMMA ManagerIs ==
  ASSUME GpsInv
  PROVE  \E i \in {"null", "made"}, d \in Nat, n \in Nat :
           /\ manager = [instance |-> i, destroyed |-> d, made |-> n]
           /\ n - d = IF i = "made" \/ \E t \in GpsThreads : visitors[t] = "made" THEN 1 ELSE 0
  BY DEF GpsInv, GpsTypeInv, Managers, ShimsBehave, NoManagerLost

\* Where neither the pointers nor a location are touched.
LEMMA ManagerMoves ==
  ASSUME GpsInv, Untouched, UNCHANGED location, gpsPc' \in {"open", "unloaded"},
         manager' \in Managers, visitors' \in [GpsThreads -> {"out", "locked", "made"}],
         LockHolds', NoManagerLost'
  PROVE  GpsInv'
  BY UntouchedInv
  DEF GpsInv, GpsTypeInv, ShimsBehave, NoRecursionAtFirst, LocationComesBack, Memory, Untouched

\* A thread takes the lock.
LEMMA LockManagerInv ==
  ASSUME GpsInv, NEW t \in GpsThreads, LockManager(t)
  PROVE  GpsInv'
<1>1. /\ gpsPc' = "open" /\ Untouched /\ UNCHANGED location /\ UNCHANGED manager
      /\ \A u \in GpsThreads : visitors[u] = "out"
      /\ \A u \in GpsThreads : visitors'[u] = IF u = t THEN "locked" ELSE "out"
      /\ visitors' \in [GpsThreads -> {"out", "locked", "made"}]
  BY DEF LockManager, NobodyInside, Untouched, GpsInv, GpsTypeInv
<1>2. LockHolds' /\ manager' \in Managers
  BY <1>1 DEF LockHolds, GpsInv, GpsTypeInv
<1>3. NoManagerLost'
  BY <1>1 DEF NoManagerLost, GpsInv, ShimsBehave
<1> QED
  BY <1>1, <1>2, <1>3, ManagerMoves

\* It finds a SensorManager, or makes one.
LEMMA MakeManagerInv ==
  ASSUME GpsInv, NEW t \in GpsThreads, MakeManager(t)
  PROVE  GpsInv'
<1>1. gpsPc' = "open" /\ Untouched /\ UNCHANGED location /\ visitors[t] = "locked"
  BY DEF MakeManager, Untouched
<1>2. \A u \in GpsThreads : u # t => visitors[u] = "out"
  BY <1>1 DEF GpsInv, LockHolds
<1>3. PICK i \in {"null", "made"}, d \in Nat, n \in Nat :
        /\ manager = [instance |-> i, destroyed |-> d, made |-> n]
        /\ n - d = IF i = "made" \/ \E u \in GpsThreads : visitors[u] = "made" THEN 1 ELSE 0
  BY ManagerIs
<1>4. n - d = IF i = "made" THEN 1 ELSE 0
  BY <1>1, <1>2, <1>3
<1>5. CASE manager.instance = "made"
  <2>1. /\ UNCHANGED manager /\ \A u \in GpsThreads : visitors'[u] = "out"
        /\ visitors' \in [GpsThreads -> {"out", "locked", "made"}]
    BY <1>2, <1>5 DEF MakeManager, GpsInv, GpsTypeInv
  <2>2. NoManagerLost' /\ LockHolds' /\ manager' \in Managers
    BY <1>1, <1>3, <1>4, <2>1 DEF NoManagerLost, LockHolds, GpsInv, GpsTypeInv
  <2> QED
    BY <1>1, <2>1, <2>2, ManagerMoves
<1>6. CASE manager.instance # "made"
  <2>1. /\ manager' = [instance |-> "null", destroyed |-> d, made |-> n + 1]
        /\ \A u \in GpsThreads : visitors'[u] = IF u = t THEN "made" ELSE "out"
        /\ visitors' \in [GpsThreads -> {"out", "locked", "made"}]
    BY <1>2, <1>3, <1>6 DEF MakeManager, GpsInv, GpsTypeInv
  <2>2. NoManagerLost' /\ LockHolds' /\ manager' \in Managers
    <3>1. (n + 1) - d = 1 /\ n + 1 \in Nat
      BY <1>3, <1>4, <1>6
    <3> QED
      BY <1>1, <2>1, <3>1 DEF NoManagerLost, LockHolds, Managers
  <2> QED
    BY <1>1, <2>1, <2>2, ManagerMoves
<1> QED
  BY <1>5, <1>6

\* It stores what it made.
LEMMA StoreManagerInv ==
  ASSUME GpsInv, NEW t \in GpsThreads, StoreManager(t)
  PROVE  GpsInv'
<1>1. gpsPc' = "open" /\ Untouched /\ UNCHANGED location /\ visitors[t] = "made"
  BY DEF StoreManager, Untouched
<1>2. PICK i \in {"null", "made"}, d \in Nat, n \in Nat :
        /\ manager = [instance |-> i, destroyed |-> d, made |-> n]
        /\ n - d = IF i = "made" \/ \E u \in GpsThreads : visitors[u] = "made" THEN 1 ELSE 0
  BY ManagerIs
<1>3. /\ manager' = [instance |-> "made", destroyed |-> d, made |-> n]
      /\ \A u \in GpsThreads : visitors'[u] = "out"
      /\ visitors' \in [GpsThreads -> {"out", "locked", "made"}]
  BY <1>1, <1>2 DEF StoreManager, GpsInv, LockHolds, GpsTypeInv
<1>4. NoManagerLost' /\ LockHolds' /\ manager' \in Managers
  BY <1>1, <1>2, <1>3 DEF NoManagerLost, LockHolds, Managers
<1> QED
  BY <1>1, <1>3, <1>4, ManagerMoves

\* It is deleted, or destroyed at unloading.
LEMMA DestroyedInv ==
  ASSUME GpsInv, DeleteManager \/ Unload
  PROVE  GpsInv'
<1>1. /\ gpsPc' \in {"open", "unloaded"} /\ Untouched /\ UNCHANGED <<location, visitors>>
      /\ NobodyInside /\ manager' = Destroyed
  BY DEF DeleteManager, Unload, Untouched
<1>2. PICK i \in {"null", "made"}, d \in Nat, n \in Nat :
        /\ manager = [instance |-> i, destroyed |-> d, made |-> n]
        /\ n - d = IF i = "made" \/ \E u \in GpsThreads : visitors[u] = "made" THEN 1 ELSE 0
  BY ManagerIs
<1>3. n - d = IF i = "made" THEN 1 ELSE 0
  BY <1>1, <1>2 DEF NobodyInside
<1>4. PICK e \in Nat : manager' = [instance |-> "null", destroyed |-> e, made |-> n] /\ n - e = 0
  <2>1. CASE i = "null"
    BY <1>1, <1>2, <1>3, <2>1 DEF Destroyed
  <2>2. CASE i = "made"
    <3>1. manager' = [instance |-> "null", destroyed |-> d + 1, made |-> n]
      BY <1>1, <1>2, <2>2 DEF Destroyed
    <3>2. d + 1 \in Nat /\ n - (d + 1) = 0
      BY <1>2, <1>3, <2>2
    <3> QED
      BY <3>1, <3>2
  <2> QED
    BY <2>1, <2>2
<1>5. NoManagerLost' /\ LockHolds' /\ manager' \in Managers
  BY <1>1, <1>4 DEF NoManagerLost, LockHolds, Managers, NobodyInside
<1> QED
  BY <1>1, <1>5, ManagerMoves DEF GpsInv, GpsTypeInv

-----------------------------------------------------------------------------
LEMMA GpsNextInv == GpsInv /\ [GpsNext]_gpsVars => GpsInv'
<1> SUFFICES ASSUME GpsInv, [GpsNext]_gpsVars PROVE GpsInv'
  OBVIOUS
<1>1. CASE OpenGps
  BY <1>1, OpenInv
<1>2. CASE ShimGetGpsInterface \/ ShimGetExtension
  <2>1. /\ {"get_gps_interface", "get_extension", "set_ref_location"} \subseteq Functions
        /\ gpsPc = "open" /\ UNCHANGED location /\ NobodyMoves
    BY <1>2 DEF Functions, ShimGetGpsInterface, ShimGetExtension, NobodyMoves
  <2>2. \/ ReplaceBehind("get_gps_interface", "get_extension")
        \/ ReplaceBehind("get_extension", "set_ref_location")
    BY <1>2 DEF ShimGetGpsInterface, ShimGetExtension
  <2> QED
    BY <2>1, <2>2, ReplaceBehindInv
<1>3. CASE ShimSetRefLocation
  BY <1>3, SetLocationInv
<1>4. CASE SetAgain
  <2>1. gpsPc' = "open" /\ gpsPc = "open" /\ Untouched /\ NobodyMoves /\ location' = NoLocation
    BY <1>4 DEF SetAgain, Untouched, NobodyMoves
  <2>2. LocationComesBack' /\ NoRecursionAtFirst'
    BY <2>1 DEF LocationComesBack, NoLocation, NoRecursionAtFirst
  <2>3. GpsTypeInv' /\ ShimsCount' /\ LockHolds' /\ NoManagerLost'
    BY <2>1, UntouchedInv, NobodyMovesInv DEF GpsInv, GpsTypeInv, Untouched, NobodyMoves
  <2> QED
    BY <2>2, <2>3 DEF GpsInv, ShimsBehave
<1>5. ASSUME NEW t \in GpsThreads, LockManager(t) \/ MakeManager(t) \/ StoreManager(t)
      PROVE  GpsInv'
  BY <1>5, LockManagerInv, MakeManagerInv, StoreManagerInv
<1>6. CASE DeleteManager \/ Unload
  BY <1>6, DestroyedInv
<1>7. CASE UNCHANGED gpsVars
  BY <1>7 DEF gpsVars, GpsInv, GpsTypeInv, ShimsCount, LockHolds, ShimsBehave, NoRecursionAtFirst,
              LocationComesBack, NoManagerLost, Memory
<1> QED
  BY <1>1, <1>2, <1>3, <1>4, <1>5, <1>6, <1>7 DEF GpsNext

\* The invariant, over every call of the library and of the framework
\* (gps.c:33-122, libshim_gps.c:85-109, 195-203).
THEOREM GpsInvariance == GpsSpec => []GpsInv
  BY GpsInitInv, GpsNextInv, PTL DEF GpsSpec

\* However often and in whatever order the framework and any number of threads of
\* the library call: no shim calls itself before something was got twice, a
\* location of Samsung's size reaches the library whole and comes back with what
\* the library set, and no SensorManager is lost (gps.c:33-122, libshim_gps.c).
THEOREM ShimsBehaveHolds == GpsSpec => []ShimsBehave
<1>1. GpsInv => ShimsBehave
  BY DEF GpsInv
<1> QED
  BY <1>1, GpsInvariance, PTL
===============================================================================
