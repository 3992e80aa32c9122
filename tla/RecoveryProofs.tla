--------------------------- MODULE RecoveryProofs ---------------------------
(***************************************************************************)
(* The graphics of the recoveries.  Of twrp-graphics.c and cwm's           *)
(* graphics.c (RecoveryScreen): surfaces, descriptors and tty0 are owned   *)
(* and given back whatever fails, and whole pictures are shown, on screens *)
(* of any size.  Of minui (MinuiGraphics): the backend and the surface     *)
(* after the rounds of gr_init belong together whichever backends fail,    *)
(* nothing is painted outside the surface, and what is asked for within    *)
(* the area is drawn whole, with bytes that do not wrap and from inside    *)
(* the font image, for surfaces, fonts, margins and coordinates of any     *)
(* size.  Of the text, fonts and shapes of twrp-graphics.c and cwm's       *)
(* graphics.c (RecoveryText): the loops draw and measure the same line,    *)
(* cut where they are asked to.                                            *)
(***************************************************************************)
EXTENDS MinuiGraphics, RecoveryScreen, RecoveryText, FiniteSetTheorems, SequenceTheorems,
        WellFoundedInduction, TLAPS

-----------------------------------------------------------------------------
(* Surfaces, descriptors and tty0 *)

\* The surface in memory is in use.
Surfacing == screenPc \in {"up", "copy", "swap"}

\* Where a program stands in its two rounds of gr_init.
RoundsInv ==
  /\ rounds \in Seq(BOOLEAN)
  /\ inits \in Nat
  /\ screenPc = "off" => inits = 0 /\ mem = 0 /\ live = {} /\ damage = {} /\ ~doubleBuffering
  /\ device.program \in {"twrp", "cwm"} \/ (device = NoDevice /\ screenPc = "off")
  /\ screenPc \in {"off", "down"} => fds.fb = 0 /\ fds.vt = 0 /\ mem \notin live
  /\ screenPc = "second" => Len(rounds) = 1
  /\ Surfacing => Len(rounds) = 2 /\ (device.program = "twrp" => rounds[2])
  /\ screenPc \notin {"off", "crashed"} => inits >= 1
  /\ screenPc = "off" => rounds = << >>
  /\ screenPc = "down" => rounds = << >> \/ Len(rounds) = 2
  /\ screenPc = "copy" => row < Height

\* The descriptors: what is open and in no variable was lost by first rounds;
\* and tty0, which the last round opened, is in text mode or in gr_vt_fd.
FdsInv ==
  /\ IsFiniteSet(opened) /\ 0 \in opened /\ 0 \notin lostByRounds.fds
  /\ screenPc # "crashed" =>
       opened \ (IF Surfacing THEN {0, 1, 2, fds.fb, fds.vt} ELSE {0, 1, 2}) \subseteq lostByRounds.fds
  /\ Surfacing /\ tty = "open" => fds.vt # 0 \/ console = "text"
  /\ ConsoleRestored

\* The blocks: the surface of a second round that succeeded is allocated, and so
\* is that of a first gr_init's first round, unless malloc failed.
BlocksInv ==
  /\ snapshot # 0 => snapshot # mem
  /\ Surfacing /\ rounds[2] => mem = 0 \/ mem \in live
  /\ screenPc = "second" /\ inits = 1 => mem = 0 \/ mem \in live
  /\ screenPc # "crashed" =>
       live \ (IF Surfacing THEN {mem, snapshot} ELSE {snapshot}) \subseteq lostByRounds.blocks
  /\ "usedFreed" \in damage => device.program = "cwm"
  /\ FreedOnce

\* What is lost, in numbers; a round that maps the framebuffer has made its font.
LossInv ==
  /\ IsFiniteSet(lostByRounds.fds) /\ IsFiniteSet(lostByRounds.blocks)
  /\ unreturned.mappings <= unreturned.fonts
  /\ LossPerInit

OwnedInv ==
  /\ ScreenTypeOK /\ mapped \in BOOLEAN /\ doubleBuffering \in BOOLEAN
  /\ RoundsInv /\ FdsInv /\ BlocksInv /\ LossInv

\* open gives a descriptor that nobody has.
LEMMA NewFdIsNew ==
  ASSUME NEW s, IsFiniteSet(s)
  PROVE  NewFd(s) \in Nat \ {0} /\ NewFd(s) \notin s
<1> DEFINE c == Cardinality(s)
           free == {d \in 1..(c + 1) : d \notin s}
<1>1. c \in Nat
  BY FS_CardinalityType
<1>2. free # {}
  <2> SUFFICES ASSUME free = {} PROVE FALSE
    OBVIOUS
  <2>1. 1..(c + 1) \subseteq s
    OBVIOUS
  <2>2. Cardinality(1..(c + 1)) <= c
    BY <2>1, FS_Subset
  <2>3. Cardinality(1..(c + 1)) = c + 1
    BY <1>1, FS_Interval
  <2> QED
    BY <1>1, <2>2, <2>3
<1>3. PICK d \in free : \A e \in free : ~(<<e, d>> \in OpToRel(<, Nat))
  <2>1. free \subseteq Nat
    BY <1>1
  <2> QED
    BY <1>2, <2>1, NatLessThanWellFounded, WFMin
<1>4. d \in 1..(c + 1) /\ d \notin s /\ \A e \in 1..(d - 1) : e \in s
  <2>1. d \in 1..(c + 1) /\ d \notin s
    OBVIOUS
  <2>2. ASSUME NEW e \in 1..(d - 1) PROVE e \in s
    <3>1. e \in Nat /\ d \in Nat /\ e < d /\ e \in 1..(c + 1)
      BY <1>1, <2>1
    <3>2. <<e, d>> \in OpToRel(<, Nat)
      BY <3>1 DEF OpToRel
    <3> QED
      BY <1>3, <3>1, <3>2
  <2> QED
    BY <2>1, <2>2
<1> HIDE DEF c, free
<1>5. \E x \in 1..(c + 1) : x \notin s /\ \A e \in 1..(x - 1) : e \in s
  BY <1>4
<1>6. NewFd(s) \in 1..(c + 1) /\ NewFd(s) \notin s
  BY <1>5 DEF NewFd, c
<1> QED
  BY <1>1, <1>6

\* What a round that fails leaves: no descriptor of its own.
LEMMA FailedRound ==
  ASSUME ScreenTypeOK, IsFiniteSet(opened), 0 \in opened, tty' \in Ttys, RoundFails
  PROVE  /\ opened' \subseteq opened /\ 0 \in opened' /\ IsFiniteSet(opened')
         /\ fds' = [fb |-> 0, vt |-> 0]
         /\ live' = live \ {mem} /\ UNCHANGED <<mem, blocks, snapshot>> /\ UNCHANGED picture
         /\ damage' = damage \cup (IF mem = 0 \/ mem \in live THEN {} ELSE {"freedTwice"})
         /\ console' \in {"text", "graphics"}
         /\ tty' = "open" => console' = "text"
<1> DEFINE vt == VtFd
           fb == IF tty' = "refused" THEN fds.fb ELSE 0
<1>1. GrExit(fb, vt, opened \cup {vt}) /\ UNCHANGED picture
  BY DEF RoundFails
<1>2. NewFd(opened) \in Nat \ {0} /\ NewFd(opened) \notin opened
  BY NewFdIsNew
<1>3. (vt = 0 \/ (vt # 0 /\ vt \notin opened)) /\ (tty' = "open" => vt # 0)
  BY <1>2 DEF VtFd
<1> HIDE DEF vt, fb
<1>4. opened' = (opened \cup {vt}) \ {d \in {fb, vt} : d # 0}
  BY <1>1 DEF GrExit
<1>5. opened' \subseteq opened /\ 0 \in opened'
  BY <1>3, <1>4
<1>6. IsFiniteSet(opened')
  BY <1>5, FS_Subset
<1>7. console' \in {"text", "graphics"} /\ (tty' = "open" => console' = "text")
  <2>1. console' \in (IF vt = 0 THEN {} ELSE {"text"})
                     \cup (IF vt = 0 \/ tty' = "refused" THEN {console} ELSE {})
    BY <1>1 DEF GrExit
  <2>2. console \in {"text", "graphics"}
    BY DEF ScreenTypeOK
  <2> QED
    BY <1>3, <2>1, <2>2
<1> QED
  BY <1>1, <1>5, <1>6, <1>7 DEF GrExit

\* What a round that succeeds leaves: two new descriptors, or one without tty0.
LEMMA SucceededRound ==
  ASSUME ScreenTypeOK, doubleBuffering \in BOOLEAN, IsFiniteSet(opened), tty' \in Ttys, RoundSucceeds
  PROVE  /\ mapped' = TRUE /\ doubleBuffering' \in BOOLEAN
         /\ doubleBuffering' => 2 * Height * device.line <= device.smem
         /\ active' = 0 /\ shown' \in {0, 1} /\ UNCHANGED <<snapshot, damage>>
         /\ fds' \in [fb : Nat, vt : Nat] /\ opened' = opened \cup {fds'.fb, fds'.vt}
         /\ fds'.fb # 0 /\ fds'.fb \notin opened /\ IsFiniteSet(opened')
         /\ fds'.vt # 0 => fds'.vt \notin opened
         /\ tty' = "open" => fds'.vt # 0
         /\ console' = IF fds'.vt = 0 THEN console ELSE "graphics"
         /\ \/ mem' = blocks + 1 /\ live' = live \cup {mem'} /\ blocks' = blocks + 1
            \/ mem' = 0 /\ UNCHANGED <<live, blocks>>
<1> DEFINE vt == VtFd
           fb == NewFd(opened \cup {vt})
<1>2. vt \in Nat /\ (vt # 0 => vt \notin opened) /\ (tty' # "absent" => vt # 0)
  BY NewFdIsNew DEF VtFd
<1>3. IsFiniteSet(opened \cup {vt})
  BY FS_AddElement
<1>4. fb \in Nat \ {0} /\ fb \notin opened \cup {vt}
  BY <1>3, NewFdIsNew
<1>5. IsFiniteSet((opened \cup {vt}) \cup {fb})
  BY <1>3, FS_AddElement
<1>6. /\ fds' = [fb |-> fb, vt |-> vt] /\ opened' = opened \cup {vt, fb}
      /\ console' = IF vt = 0 THEN console ELSE "graphics"
      /\ GetFramebuffer /\ GetMemorySurface
      /\ active' = 0 /\ SetActiveFramebuffer(0)
      /\ UNCHANGED <<snapshot, damage>>
  BY DEF RoundSucceeds
<1> HIDE DEF vt, fb
<1>7. opened' = (opened \cup {vt}) \cup {fb}
  BY <1>6
<1>8. fds'.fb = fb /\ fds'.vt = vt
  BY <1>6
<1>9. /\ mapped' = TRUE /\ doubleBuffering' \in BOOLEAN
      /\ doubleBuffering' => 2 * Height * device.line <= device.smem
  BY <1>6 DEF GetFramebuffer, ScreenTypeOK
<1>10. shown' \in {0, 1}
  BY <1>6 DEF SetActiveFramebuffer, SwapRefused, ScreenTypeOK
<1>11. \/ mem' = blocks + 1 /\ live' = live \cup {mem'} /\ blocks' = blocks + 1
       \/ mem' = 0 /\ UNCHANGED <<live, blocks>>
  BY <1>6 DEF GetMemorySurface, SurfaceAllocated
<1> QED
  BY <1>2, <1>4, <1>5, <1>6, <1>7, <1>8, <1>9, <1>10, <1>11

\* The types of the blocks, when malloc has answered.
LEMMA NewBlock ==
  ASSUME live \subseteq 1..blocks, blocks \in Nat, snapshot \in 0..blocks, snapshot' = snapshot,
         \/ mem' = blocks + 1 /\ live' = live \cup {mem'} /\ blocks' = blocks + 1
         \/ mem' = 0 /\ live' = live /\ blocks' = blocks
  PROVE  live' \subseteq 1..blocks' /\ blocks' \in Nat /\ mem' \in 0..blocks' /\ snapshot' \in 0..blocks'
<1>1. 1..blocks \subseteq 1..(blocks + 1) /\ blocks + 1 \in 1..(blocks + 1) /\ 0..blocks \subseteq 0..(blocks + 1)
  OBVIOUS
<1>2. CASE mem' = blocks + 1 /\ live' = live \cup {mem'} /\ blocks' = blocks + 1
  <2>1. live' \subseteq 1..(blocks + 1)
    BY <1>1, <1>2
  <2> QED
    BY <1>1, <1>2, <2>1
<1>3. CASE mem' = 0 /\ live' = live /\ blocks' = blocks
  BY <1>3
<1> QED
  BY <1>2, <1>3

\* The types after a round, whichever way it ended.
LEMMA SucceededTypes ==
  ASSUME ScreenTypeOK, doubleBuffering \in BOOLEAN, IsFiniteSet(opened), RoundSucceeds,
         tty' \in Ttys, unreturned' \in [fonts : Nat, mappings : Nat],
         device' = device, row' = row, screenPc' \in {"second", "up", "down"}
  PROVE  ScreenTypeOK'
<1>1. /\ doubleBuffering' => 2 * Height * device.line <= device.smem
      /\ active' = 0 /\ shown' \in {0, 1} /\ UNCHANGED <<snapshot, damage>>
      /\ fds' \in [fb : Nat, vt : Nat] /\ opened' = opened \cup {fds'.fb, fds'.vt}
      /\ console' = IF fds'.vt = 0 THEN console ELSE "graphics"
      /\ \/ mem' = blocks + 1 /\ live' = live \cup {mem'} /\ blocks' = blocks + 1
         \/ mem' = 0 /\ UNCHANGED <<live, blocks>>
  BY SucceededRound
<1>2. fds'.fb \in Nat /\ fds'.vt \in Nat /\ opened' \subseteq Nat /\ {fds'.fb, fds'.vt} \subseteq opened'
  BY <1>1 DEF ScreenTypeOK
<1>3. live' \subseteq 1..blocks' /\ blocks' \in Nat /\ mem' \in 0..blocks' /\ snapshot' \in 0..blocks'
  BY <1>1, NewBlock DEF ScreenTypeOK
<1>4. console' \in {"text", "graphics"}
  BY <1>1 DEF ScreenTypeOK
<1> QED
  BY <1>1, <1>2, <1>3, <1>4 DEF ScreenTypeOK

LEMMA FailedTypes ==
  ASSUME ScreenTypeOK, IsFiniteSet(opened), 0 \in opened, RoundFails,
         tty' \in Ttys, unreturned' \in [fonts : Nat, mappings : Nat],
         device' = device, row' = row, screenPc' \in {"second", "up", "down"}
  PROVE  ScreenTypeOK'
<1>1. /\ opened' \subseteq opened /\ 0 \in opened' /\ fds' = [fb |-> 0, vt |-> 0]
      /\ live' = live \ {mem} /\ UNCHANGED <<mem, blocks, snapshot>> /\ UNCHANGED picture
      /\ damage' = damage \cup (IF mem = 0 \/ mem \in live THEN {} ELSE {"freedTwice"})
      /\ console' \in {"text", "graphics"}
  BY FailedRound
<1> QED
  BY <1>1 DEF ScreenTypeOK, picture

\* What a second round appends.
LEMMA SecondOfTwo ==
  ASSUME NEW S, NEW s \in Seq(S), NEW e \in S, Len(s) = 1
  PROVE  Append(s, e) \in Seq(S) /\ Len(Append(s, e)) = 2 /\ Append(s, e)[2] = e
<1>1. Append(s, e) \in Seq(S) /\ Len(Append(s, e)) = Len(s) + 1 /\ Append(s, e)[Len(s) + 1] = e
  BY AppendProperties, ZenonT(60)
<1> QED
  BY <1>1

\* Nothing is open or allocated yet.
LEMMA ScreenInitInv == ScreenInit => OwnedInv
<1> SUFFICES ASSUME ScreenInit PROVE OwnedInv
  OBVIOUS
<1>1. IsFiniteSet({0, 1, 2})
  <2>1. {0, 1, 2} = 0..2
    OBVIOUS
  <2>2. 0 \in Int /\ 2 \in Int
    OBVIOUS
  <2>3. IsFiniteSet(0..2)
    BY <2>2, FS_Interval
  <2> QED
    BY <2>1, <2>3
<1>2. ScreenTypeOK
  BY ScreenAssumption DEF ScreenInit, ScreenTypeOK, Ttys
<1>3. RoundsInv
  BY DEF ScreenInit, RoundsInv, Surfacing
<1>4. FdsInv
  BY <1>1 DEF ScreenInit, FdsInv, Surfacing, ConsoleRestored
<1>5. BlocksInv
  BY DEF ScreenInit, BlocksInv, Surfacing, FreedOnce
<1>6. LossInv
  <2>1. IsFiniteSet({}) /\ Cardinality({}) = 0
    BY FS_EmptySet
  <2>2. Len(rounds) = 0 /\ inits = 0 /\ unreturned = [fonts |-> 0, mappings |-> 0]
        /\ lostByRounds = [fds |-> {}, blocks |-> {}]
    BY DEF ScreenInit
  <2> QED
    BY <2>1, <2>2 DEF LossInv, LossPerInit
<1> QED
  BY <1>2, <1>3, <1>4, <1>5, <1>6 DEF OwnedInv, ScreenInit

\* A set that got one or two more members.
LEMMA OneMore ==
  ASSUME NEW S, IsFiniteSet(S), NEW D, NEW a, D \subseteq {a}
  PROVE  IsFiniteSet(S \cup D) /\ Cardinality(S \cup D) <= Cardinality(S) + 1
<1>1. Cardinality(S) \in Nat
  BY FS_CardinalityType
<1>2. S \cup D = S \/ S \cup D = S \cup {a}
  OBVIOUS
<1> QED
  BY <1>1, <1>2, FS_AddElement

LEMMA TwoMore ==
  ASSUME NEW S, IsFiniteSet(S), NEW D, NEW a, NEW b, D \subseteq {a, b}
  PROVE  IsFiniteSet(S \cup D) /\ Cardinality(S \cup D) <= Cardinality(S) + 2
<1> DEFINE T == S \cup (D \cap {a})
<1>1. IsFiniteSet(T) /\ Cardinality(T) <= Cardinality(S) + 1
  BY OneMore
<1>2. IsFiniteSet(T \cup (D \cap {b})) /\ Cardinality(T \cup (D \cap {b})) <= Cardinality(T) + 1
  BY <1>1, OneMore
<1>3. S \cup D = T \cup (D \cap {b})
  OBVIOUS
<1>4. Cardinality(S) \in Nat /\ Cardinality(T) \in Nat /\ Cardinality(S \cup D) \in Nat
  BY <1>1, <1>2, <1>3, FS_CardinalityType
<1> HIDE DEF T
<1> QED
  BY <1>1, <1>2, <1>3, <1>4

\* What a first round adds to the losses.
LEMMA FirstLoss ==
  ASSUME OwnedInv, NEW a, NEW b, NEW c, opened' \ opened \subseteq {a, b}, live' \ live \subseteq {c},
         rounds = << >>, Len(rounds') = 1, inits' = inits + 1,
         lostByRounds'.fds = lostByRounds.fds \cup (opened' \ opened),
         lostByRounds'.blocks = lostByRounds.blocks \cup (live' \ live),
         unreturned'.fonts = unreturned.fonts + 1,
         unreturned'.mappings \in {unreturned.mappings, unreturned.mappings + 1}
  PROVE  LossInv'
<1>1. unreturned.fonts \in Nat /\ unreturned.mappings \in Nat /\ inits \in Nat /\ Len(rounds) = 0
  BY DEF OwnedInv, ScreenTypeOK, RoundsInv
<1>2. /\ unreturned.fonts = 2 * inits /\ unreturned.mappings <= unreturned.fonts
      /\ Cardinality(lostByRounds.blocks) <= inits /\ Cardinality(lostByRounds.fds) <= 2 * inits
      /\ IsFiniteSet(lostByRounds.fds) /\ IsFiniteSet(lostByRounds.blocks)
  BY <1>1 DEF OwnedInv, LossInv, LossPerInit
<1>3. IsFiniteSet(lostByRounds'.fds) /\ Cardinality(lostByRounds'.fds) <= Cardinality(lostByRounds.fds) + 2
  <2> DEFINE S == lostByRounds.fds
             D == opened' \ opened
  <2>1. IsFiniteSet(S) /\ D \subseteq {a, b} /\ lostByRounds'.fds = S \cup D
    BY <1>2
  <2> HIDE DEF S, D
  <2>2. IsFiniteSet(S \cup D) /\ Cardinality(S \cup D) <= Cardinality(S) + 2
    BY <2>1, TwoMore
  <2> QED
    BY <2>1, <2>2 DEF S
<1>4. IsFiniteSet(lostByRounds'.blocks) /\ Cardinality(lostByRounds'.blocks) <= Cardinality(lostByRounds.blocks) + 1
  <2> DEFINE S == lostByRounds.blocks
             D == live' \ live
  <2>1. IsFiniteSet(S) /\ D \subseteq {c} /\ lostByRounds'.blocks = S \cup D
    BY <1>2
  <2> HIDE DEF S, D
  <2>2. IsFiniteSet(S \cup D) /\ Cardinality(S \cup D) <= Cardinality(S) + 1
    BY <2>1, OneMore
  <2> QED
    BY <2>1, <2>2 DEF S
<1>5. /\ Cardinality(lostByRounds.fds) \in Nat /\ Cardinality(lostByRounds'.fds) \in Nat
      /\ Cardinality(lostByRounds.blocks) \in Nat /\ Cardinality(lostByRounds'.blocks) \in Nat
  BY <1>2, <1>3, <1>4, FS_CardinalityType
<1>6. /\ unreturned'.fonts = 2 * inits' - 1 /\ unreturned'.mappings <= unreturned'.fonts
      /\ unreturned'.mappings <= 2 * inits'
  BY <1>1, <1>2
<1>7. Cardinality(lostByRounds'.blocks) <= inits' /\ Cardinality(lostByRounds'.fds) <= 2 * inits'
  BY <1>1, <1>2, <1>3, <1>4, <1>5
<1> QED
  BY <1>3, <1>4, <1>6, <1>7 DEF LossInv, LossPerInit

\* A second round adds a font, and perhaps a mapping.
LEMMA SecondLoss ==
  ASSUME OwnedInv, Len(rounds) = 1, Len(rounds') = 2, UNCHANGED <<inits, lostByRounds>>,
         unreturned'.fonts = unreturned.fonts + 1,
         unreturned'.mappings \in {unreturned.mappings, unreturned.mappings + 1}
  PROVE  LossInv'
<1>1. unreturned.fonts \in Nat /\ unreturned.mappings \in Nat /\ inits \in Nat
  BY DEF OwnedInv, ScreenTypeOK, RoundsInv
<1>2. unreturned.fonts = 2 * inits - 1 /\ unreturned.mappings <= unreturned.fonts
  BY DEF OwnedInv, LossInv, LossPerInit
<1> QED
  BY <1>1, <1>2 DEF OwnedInv, LossInv, LossPerInit

\* No other step loses anything.
LEMMA NoLoss ==
  ASSUME OwnedInv, UNCHANGED <<inits, lostByRounds, unreturned, rounds>>
  PROVE  LossInv'
  BY DEF OwnedInv, LossInv, LossPerInit

\* What a round does besides.
LEMMA RoundCounts ==
  ASSUME ScreenTypeOK, NEW ok \in BOOLEAN, Round(ok)
  PROVE  /\ tty' \in Ttys /\ unreturned' \in [fonts : Nat, mappings : Nat]
         /\ unreturned'.fonts = unreturned.fonts + 1
         /\ unreturned'.mappings \in {unreturned.mappings, unreturned.mappings + 1}
<1>1. unreturned.fonts \in Nat /\ unreturned.mappings \in Nat
  BY DEF ScreenTypeOK
<1>2. unreturned' = [fonts    |-> unreturned.fonts + 1,
                     mappings |-> unreturned.mappings + IF ok THEN 1 ELSE 0]
  BY DEF Round
<1> QED
  BY <1>1, <1>2 DEF Round, Ttys

\* The first round of gr_init.
LEMMA FirstRoundInv ==
  ASSUME OwnedInv, NEW ok \in BOOLEAN, FirstRound(ok)
  PROVE  OwnedInv'
<1>1. /\ screenPc \in {"off", "down"} /\ screenPc' = "second" /\ rounds = << >>
      /\ rounds' = Append(rounds, ok) /\ inits' = inits + 1 /\ row' = row
      /\ device' = device /\ surfaces' = surfaces
      /\ lostByRounds'.fds = lostByRounds.fds \cup (opened' \ opened)
      /\ lostByRounds'.blocks = lostByRounds.blocks \cup (live' \ live)
      /\ IF ok THEN RoundSucceeds ELSE RoundFails
  BY DEF FirstRound, Round, MayBegin
<1>2. ScreenTypeOK /\ IsFiniteSet(opened) /\ 0 \in opened /\ mapped \in BOOLEAN /\ doubleBuffering \in BOOLEAN
  BY DEF OwnedInv, FdsInv
<1>c. /\ tty' \in Ttys /\ unreturned' \in [fonts : Nat, mappings : Nat]
      /\ unreturned'.fonts = unreturned.fonts + 1
      /\ unreturned'.mappings \in {unreturned.mappings, unreturned.mappings + 1}
  BY <1>2, RoundCounts DEF FirstRound
<1>3. fds.fb = 0 /\ fds.vt = 0 /\ mem \notin live /\ inits \in Nat /\ (inits = 0 => mem = 0)
  BY <1>1 DEF OwnedInv, RoundsInv
<1>4. /\ opened \ {0, 1, 2} \subseteq lostByRounds.fds /\ 0 \notin lostByRounds.fds
      /\ live \ {snapshot} \subseteq lostByRounds.blocks
  BY <1>1 DEF OwnedInv, FdsInv, BlocksInv, Surfacing
<1>l. rounds' \in Seq(BOOLEAN) /\ Len(rounds') = 1
  BY <1>1
<1>5. RoundsInv'
  <2>1. rounds' \in Seq(BOOLEAN) /\ Len(rounds') = 1
    BY <1>l
  <2>2. device'.program \in {"twrp", "cwm"}
    BY <1>1 DEF FirstRound, MayBegin, OwnedInv, RoundsInv
  <2> QED
    BY <1>1, <1>3, <2>1, <2>2 DEF RoundsInv, Surfacing
<1>6. CASE ok
  <2>1. RoundSucceeds
    BY <1>1, <1>6
  <2>2. /\ mapped' = TRUE /\ doubleBuffering' \in BOOLEAN
        /\ doubleBuffering' => 2 * Height * device.line <= device.smem
        /\ active' = 0 /\ shown' \in {0, 1} /\ UNCHANGED <<snapshot, damage>>
        /\ fds' \in [fb : Nat, vt : Nat] /\ opened' = opened \cup {fds'.fb, fds'.vt}
        /\ fds'.fb # 0 /\ fds'.fb \notin opened /\ IsFiniteSet(opened')
        /\ fds'.vt # 0 => fds'.vt \notin opened
        /\ \/ mem' = blocks + 1 /\ live' = live \cup {mem'} /\ blocks' = blocks + 1
           \/ mem' = 0 /\ UNCHANGED <<live, blocks>>
    BY <1>2, <1>c, <2>1, SucceededRound
  <2>3. ScreenTypeOK'
    BY <1>1, <1>2, <1>c, <2>1, SucceededTypes
  <2>4. FdsInv'
    <3>1. opened' \ {0, 1, 2} \subseteq lostByRounds'.fds
      BY <1>1, <1>4
    <3>2. 0 \in opened' /\ 0 \notin lostByRounds'.fds
      BY <1>1, <1>2, <1>4, <2>2
    <3> QED
      BY <1>1, <2>2, <3>1, <3>2 DEF FdsInv, Surfacing, ConsoleRestored
  <2>5. BlocksInv'
    <3>1. snapshot \in 0..blocks /\ (mem' # 0 => mem' # snapshot) /\ snapshot' = snapshot
      BY <1>2, <2>2 DEF ScreenTypeOK
    <3>2. live' \ {snapshot'} \subseteq lostByRounds'.blocks
      BY <1>1, <1>4, <3>1
    <3>3. "freedTwice" \in damage' => inits' > 1 \/ device'.program = "cwm"
      BY <1>1, <1>3, <2>2 DEF OwnedInv, BlocksInv, FreedOnce
    <3>4. "usedFreed" \in damage' => device'.program = "cwm"
      BY <1>1, <2>2 DEF OwnedInv, BlocksInv
    <3>5. mem' = 0 \/ mem' \in live'
      BY <2>2
    <3> QED
      BY <1>1, <3>1, <3>2, <3>3, <3>4, <3>5 DEF BlocksInv, Surfacing, FreedOnce
  <2>6. LossInv'
    <3>1. opened' \ opened \subseteq {fds'.fb, fds'.vt} /\ live' \ live \subseteq {mem'}
      BY <2>2
    <3> QED
      BY <1>1, <1>c, <1>l, <3>1, FirstLoss
  <2> QED
    BY <1>5, <2>2, <2>3, <2>4, <2>5, <2>6 DEF OwnedInv
<1>7. CASE ~ok
  <2>1. RoundFails
    BY <1>1, <1>7
  <2>2. /\ opened' \subseteq opened /\ 0 \in opened' /\ IsFiniteSet(opened')
        /\ fds' = [fb |-> 0, vt |-> 0]
        /\ live' = live \ {mem} /\ UNCHANGED <<mem, blocks, snapshot>> /\ UNCHANGED picture
        /\ damage' = damage \cup (IF mem = 0 \/ mem \in live THEN {} ELSE {"freedTwice"})
    BY <1>2, <1>c, <2>1, FailedRound
  <2>3. ScreenTypeOK'
    BY <1>1, <1>2, <1>c, <2>1, FailedTypes
  <2>4. FdsInv'
    BY <1>1, <1>2, <1>4, <2>2 DEF OwnedInv, FdsInv, Surfacing, ConsoleRestored
  <2>5. BlocksInv'
    <3>1. snapshot' = snapshot /\ live' = live /\ mem' = mem
      BY <1>3, <2>2
    <3>2. live' \ {snapshot'} \subseteq lostByRounds'.blocks
      BY <1>1, <1>4, <3>1
    <3>3. "freedTwice" \in damage' => inits' > 1 \/ device'.program = "cwm"
      BY <1>1, <1>3, <2>2 DEF OwnedInv, BlocksInv, FreedOnce
    <3>4. "usedFreed" \in damage' => device'.program = "cwm"
      BY <1>1, <2>2 DEF OwnedInv, BlocksInv
    <3>5. inits' = 1 => mem' = 0
      BY <1>1, <1>3, <3>1
    <3>6. snapshot' # 0 => snapshot' # mem'
      BY <3>1 DEF OwnedInv, BlocksInv
    <3> QED
      BY <1>1, <3>1, <3>2, <3>3, <3>4, <3>5, <3>6 DEF BlocksInv, Surfacing, FreedOnce
  <2>6. LossInv'
    <3>1. opened' \ opened \subseteq {0} /\ live' \ live \subseteq {0}
      BY <2>2
    <3> QED
      BY <1>1, <1>c, <1>l, <3>1, FirstLoss
  <2> QED
    BY <1>2, <1>5, <2>2, <2>3, <2>4, <2>5, <2>6 DEF OwnedInv, picture
<1> QED
  BY <1>6, <1>7

\* The second round, and what the program is told.
LEMMA SecondRoundInv ==
  ASSUME OwnedInv, NEW ok \in BOOLEAN, SecondRound(ok)
  PROVE  OwnedInv'
<1>1. /\ screenPc = "second" /\ screenPc' = IF device.program = "twrp" THEN GrInit(ok) ELSE CwmGrInit(ok)
      /\ rounds' = Append(rounds, ok) /\ row' = row
      /\ UNCHANGED <<device, lostByRounds, inits, surfaces>>
      /\ IF ok THEN RoundSucceeds ELSE RoundFails
  BY DEF SecondRound, Round
<1>2. ScreenTypeOK /\ IsFiniteSet(opened) /\ 0 \in opened /\ mapped \in BOOLEAN /\ doubleBuffering \in BOOLEAN
  BY DEF OwnedInv, FdsInv
<1>c. /\ tty' \in Ttys /\ unreturned' \in [fonts : Nat, mappings : Nat]
      /\ unreturned'.fonts = unreturned.fonts + 1
      /\ unreturned'.mappings \in {unreturned.mappings, unreturned.mappings + 1}
  BY <1>2, RoundCounts DEF SecondRound
<1>3. rounds \in Seq(BOOLEAN) /\ Len(rounds) = 1 /\ inits \in Nat /\ inits >= 1
      /\ device.program \in {"twrp", "cwm"}
      /\ (inits = 1 => mem = 0 \/ mem \in live)
  BY <1>1 DEF OwnedInv, RoundsInv, BlocksInv
<1>4. /\ opened \ {0, 1, 2} \subseteq lostByRounds.fds /\ 0 \notin lostByRounds.fds
      /\ live \ {snapshot} \subseteq lostByRounds.blocks
  BY <1>1 DEF OwnedInv, FdsInv, BlocksInv, Surfacing
<1>6. rounds' \in Seq(BOOLEAN) /\ Len(rounds') = 2 /\ rounds'[2] = ok
  BY <1>1, <1>3, SecondOfTwo, Zenon
<1>7. screenPc' \in {"up", "down"} /\ (screenPc' = "down" => ~ok) /\ (device.program = "twrp" /\ screenPc' = "up" => ok)
  BY <1>1 DEF GrInit, CwmGrInit
<1>8. damage \subseteq {"freedTwice", "usedFreed"} /\ ("usedFreed" \in damage => device.program = "cwm") /\ FreedOnce
  BY <1>2 DEF OwnedInv, BlocksInv, ScreenTypeOK
<1>l. LossInv'
  BY <1>1, <1>c, <1>3, <1>6, SecondLoss
<1>9. CASE ok
  <2>1. RoundSucceeds /\ screenPc' = "up"
    BY <1>1, <1>7, <1>9
  <2>2. /\ mapped' = TRUE /\ doubleBuffering' \in BOOLEAN
        /\ doubleBuffering' => 2 * Height * device.line <= device.smem
        /\ active' = 0 /\ shown' \in {0, 1} /\ UNCHANGED <<snapshot, damage>>
        /\ fds' \in [fb : Nat, vt : Nat] /\ opened' = opened \cup {fds'.fb, fds'.vt}
        /\ fds'.fb # 0 /\ fds'.fb \notin opened /\ IsFiniteSet(opened')
        /\ fds'.vt # 0 => fds'.vt \notin opened
        /\ tty' = "open" => fds'.vt # 0
        /\ \/ mem' = blocks + 1 /\ live' = live \cup {mem'} /\ blocks' = blocks + 1
           \/ mem' = 0 /\ UNCHANGED <<live, blocks>>
    BY <1>2, <1>c, <2>1, SucceededRound
  <2>3. ScreenTypeOK'
    BY <1>1, <1>2, <1>c, <2>1, SucceededTypes
  <2>4. RoundsInv'
    BY <1>1, <1>3, <1>6, <1>9, <2>1 DEF RoundsInv, Surfacing
  <2>5. FdsInv'
    BY <1>1, <1>2, <1>4, <2>1, <2>2 DEF FdsInv, Surfacing, ConsoleRestored
  <2>6. BlocksInv'
    <3>1. snapshot \in 0..blocks /\ (mem' # 0 => mem' # snapshot) /\ snapshot' = snapshot
      BY <1>2, <2>2 DEF ScreenTypeOK
    <3>2. live' \ {mem', snapshot'} \subseteq lostByRounds'.blocks
      BY <1>1, <1>4, <2>2, <3>1
    <3>3. mem' = 0 \/ mem' \in live'
      BY <2>2
    <3> QED
      BY <1>1, <1>8, <2>1, <2>2, <3>1, <3>2, <3>3 DEF BlocksInv, Surfacing, FreedOnce
  <2> QED
    BY <1>l, <2>2, <2>3, <2>4, <2>5, <2>6 DEF OwnedInv
<1>10. CASE ~ok
  <2>1. RoundFails
    BY <1>1, <1>10
  <2>2. /\ opened' \subseteq opened /\ 0 \in opened' /\ IsFiniteSet(opened')
        /\ fds' = [fb |-> 0, vt |-> 0]
        /\ live' = live \ {mem} /\ UNCHANGED <<mem, blocks, snapshot>> /\ UNCHANGED picture
        /\ damage' = damage \cup (IF mem = 0 \/ mem \in live THEN {} ELSE {"freedTwice"})
        /\ console' \in {"text", "graphics"}
        /\ tty' = "open" => console' = "text"
    BY <1>2, <1>c, <2>1, FailedRound
  <2>3. ScreenTypeOK'
    BY <1>1, <1>2, <1>7, <1>c, <2>1, FailedTypes
  <2>4. RoundsInv'
    <3>1. fds'.fb = 0 /\ fds'.vt = 0 /\ mem' \notin live'
      BY <2>2
    <3> QED
      BY <1>1, <1>3, <1>6, <1>7, <1>10, <3>1 DEF RoundsInv, Surfacing
  <2>5. FdsInv'
    <3>1. opened' \ {0, 1, 2} \subseteq lostByRounds'.fds
      BY <1>1, <1>4, <2>2
    <3>3. fds'.fb = 0 /\ fds'.vt = 0
      BY <2>2
    <3> QED
      BY <1>1, <1>4, <2>2, <3>1, <3>3 DEF FdsInv, Surfacing, ConsoleRestored
  <2>6. BlocksInv'
    <3>1. live' \ {snapshot'} \subseteq lostByRounds'.blocks
      BY <1>1, <1>4, <2>2
    <3>2. "freedTwice" \in damage' => inits' > 1 \/ device'.program = "cwm"
      BY <1>1, <1>3, <1>8, <2>2 DEF FreedOnce
    <3>3. "usedFreed" \in damage' => device'.program = "cwm"
      BY <1>1, <1>8, <2>2
    <3>4. snapshot' # 0 => snapshot' # mem'
      BY <2>2 DEF OwnedInv, BlocksInv
    <3> QED
      BY <1>1, <1>6, <1>7, <1>10, <3>1, <3>2, <3>3, <3>4 DEF BlocksInv, Surfacing, FreedOnce
  <2> QED
    BY <1>2, <1>l, <2>2, <2>3, <2>4, <2>5, <2>6 DEF OwnedInv, picture
<1> QED
  BY <1>9, <1>10

\* A screen is booted.
LEMMA BootInv == OwnedInv /\ Boot => OwnedInv'
<1> SUFFICES ASSUME OwnedInv, Boot PROVE OwnedInv'
  OBVIOUS
<1>1. /\ screenPc = "off" /\ UNCHANGED <<screenPc, fds, opened, console, mem, live, blocks, snapshot, damage,
                      mapped, doubleBuffering, active, row, rounds, tty, lostByRounds, unreturned, inits, surfaces>>
      /\ shown' \in {0, 1}
  BY DEF Boot, handles, memory, progress, history
<1>2. damage = {} /\ mem = 0 /\ live = {}
  BY <1>1 DEF OwnedInv, RoundsInv
<1>3. ~doubleBuffering
  BY <1>1 DEF OwnedInv, RoundsInv
<1>4. ScreenTypeOK'
  BY <1>1, <1>3 DEF OwnedInv, ScreenTypeOK
<1>5. RoundsInv'
  <2>1. device'.program \in {"twrp", "cwm"}
    BY DEF Boot
  <2> QED
    BY <1>1, <2>1 DEF OwnedInv, RoundsInv, Surfacing
<1>6. FdsInv'
  BY <1>1 DEF OwnedInv, FdsInv, Surfacing, ConsoleRestored
<1>7. BlocksInv'
  BY <1>1, <1>2 DEF OwnedInv, BlocksInv, Surfacing, FreedOnce
<1>8. LossInv'
  BY <1>1, NoLoss
<1> QED
  BY <1>1, <1>4, <1>5, <1>6, <1>7, <1>8 DEF OwnedInv

\* The recovery starts again.
LEMMA AgainInv == OwnedInv /\ Again => OwnedInv'
<1> SUFFICES ASSUME OwnedInv, Again PROVE OwnedInv'
  OBVIOUS
<1>1. /\ screenPc = "down" /\ rounds' = << >>
      /\ UNCHANGED <<screenPc, device, fds, opened, console, mem, live, blocks, snapshot, damage,
                    mapped, doubleBuffering, active, shown, row, tty, lostByRounds, unreturned, inits, surfaces>>
  BY DEF Again, handles, memory, picture, progress
<1>2. ScreenTypeOK'
  BY <1>1 DEF OwnedInv, ScreenTypeOK
<1>3. RoundsInv'
  BY <1>1 DEF OwnedInv, RoundsInv, Surfacing
<1>4. FdsInv'
  BY <1>1 DEF OwnedInv, FdsInv, Surfacing, ConsoleRestored
<1>5. BlocksInv'
  BY <1>1 DEF OwnedInv, BlocksInv, Surfacing, FreedOnce
<1>6. LossInv'
  <2>1. Len(rounds) = 2 /\ Len(rounds') = 0
    BY <1>1 DEF OwnedInv, RoundsInv, Again
  <2> QED
    BY <1>1, <2>1 DEF OwnedInv, LossInv, LossPerInit
<1> QED
  BY <1>1, <1>2, <1>3, <1>4, <1>5, <1>6 DEF OwnedInv

\* A step that stays where the surface is in use, or crashes, and touches no
\* descriptor and no block.
LEMMA UseInv ==
  ASSUME OwnedInv, Surfacing, screenPc' \in {"up", "copy", "swap", "crashed"},
         UNCHANGED <<device, fds, opened, console, mem, live, blocks, snapshot, rounds, tty, lostByRounds,
                     unreturned, inits>>,
         mapped' \in BOOLEAN, doubleBuffering' = doubleBuffering,
         active' \in {0, 1}, ~doubleBuffering => active' = active, shown' \in {0, 1},
         row' \in 0..Height, screenPc' = "copy" => row' < Height,
         damage' = damage \/ (mem # 0 /\ TouchesMemory)
  PROVE  OwnedInv'
<1>1. damage' \subseteq {"freedTwice", "usedFreed"} /\ ("freedTwice" \in damage' => "freedTwice" \in damage)
  BY DEF OwnedInv, ScreenTypeOK, TouchesMemory
<1>2. "usedFreed" \in damage' => device.program = "cwm"
  <2>1. CASE mem = 0 \/ mem \in live
    BY <2>1 DEF OwnedInv, BlocksInv, TouchesMemory
  <2>2. CASE mem # 0 /\ mem \notin live
    <3>1. ~rounds[2] /\ (device.program = "twrp" => rounds[2])
      BY <2>2 DEF OwnedInv, RoundsInv, BlocksInv
    <3> QED
      BY <3>1 DEF OwnedInv, RoundsInv, Surfacing
  <2> QED
    BY <2>1, <2>2
<1>3. ScreenTypeOK'
  BY <1>1 DEF OwnedInv, ScreenTypeOK
<1>4. RoundsInv'
  BY DEF OwnedInv, RoundsInv, Surfacing
<1>5. FdsInv'
  BY DEF OwnedInv, FdsInv, Surfacing, ConsoleRestored
<1>6. BlocksInv'
  BY <1>1, <1>2 DEF OwnedInv, BlocksInv, Surfacing, FreedOnce
<1>7. LossInv'
  BY NoLoss
<1> QED
  BY <1>3, <1>4, <1>5, <1>6, <1>7 DEF OwnedInv

\* Drawing, flipping and crashing.
LEMMA DrawInv ==
  ASSUME OwnedInv, Draw \/ GrFlip \/ CopyRow \/ Swap \/ NullPointer
  PROVE  OwnedInv'
<1>1. CASE Draw
  BY <1>1, UseInv DEF Draw, handles, picture, history, OwnedInv, ScreenTypeOK, Surfacing
<1>2. CASE GrFlip
  BY <1>2, UseInv, ScreenAssumption DEF GrFlip, handles, history, OwnedInv, ScreenTypeOK, Surfacing
<1>3. CASE CopyRow
  <2>1. row < Height /\ row \in Nat /\ Height \in Nat
    BY <1>3, ScreenAssumption DEF OwnedInv, RoundsInv, ScreenTypeOK, CopyRow
  <2>2. row' \in 0..Height /\ (screenPc' = "copy" => row' < Height)
    BY <1>3, <2>1 DEF CopyRow
  <2> QED
    BY <1>3, <2>2, UseInv DEF CopyRow, handles, memory, history, OwnedInv, ScreenTypeOK, Surfacing
<1>4. CASE Swap
  <2>1. shown' \in {0, 1}
    BY <1>4 DEF Swap, SetActiveFramebuffer, SwapRefused, OwnedInv, ScreenTypeOK
  <2> QED
    BY <1>4, <2>1, UseInv DEF Swap, handles, memory, history, OwnedInv, ScreenTypeOK, Surfacing
<1>5. CASE NullPointer
  BY <1>5, UseInv DEF NullPointer, handles, memory, picture, progress, history, OwnedInv, ScreenTypeOK, Surfacing
<1> QED
  BY <1>1, <1>2, <1>3, <1>4, <1>5

\* A surface of gr_get_surface.
LEMMA GetSurfaceInv == OwnedInv /\ GrGetSurface => OwnedInv'
<1> SUFFICES ASSUME OwnedInv, GrGetSurface PROVE OwnedInv'
  OBVIOUS
<1>1. /\ screenPc = "up" /\ device.program = "twrp" /\ mem # 0 /\ snapshot = 0 /\ TouchesMemory
      /\ blocks' = blocks + 1 /\ snapshot' = blocks' /\ live' = live \cup {blocks'}
      /\ UNCHANGED <<screenPc, device, fds, opened, console, mem, mapped, doubleBuffering, active, shown,
                    row, rounds, tty, lostByRounds, unreturned, inits>>
  BY DEF GrGetSurface, handles, picture, progress
<1>2. blocks \in Nat /\ mem \in 0..blocks /\ live \subseteq 1..blocks
  BY DEF OwnedInv, ScreenTypeOK
<1>3. rounds[2] /\ mem \in live
  BY <1>1 DEF OwnedInv, RoundsInv, BlocksInv, Surfacing
<1>4. damage' = damage
  BY <1>1, <1>3 DEF TouchesMemory
<1>5. live' \subseteq 1..blocks' /\ blocks' \in Nat /\ mem' \in 0..blocks' /\ snapshot' \in 0..blocks'
  <2>1. 1..blocks \subseteq 1..(blocks + 1) /\ blocks + 1 \in 1..(blocks + 1) /\ 0..blocks \subseteq 0..(blocks + 1)
    BY <1>2
  <2> QED
    BY <1>1, <1>2, <2>1
<1>6. ScreenTypeOK'
  BY <1>1, <1>4, <1>5 DEF OwnedInv, ScreenTypeOK
<1>7. RoundsInv'
  BY <1>1, <1>4 DEF OwnedInv, RoundsInv, Surfacing
<1>8. FdsInv'
  BY <1>1 DEF OwnedInv, FdsInv, Surfacing, ConsoleRestored
<1>9. BlocksInv'
  <2>1. snapshot' # mem' /\ mem' \in live'
    BY <1>1, <1>2, <1>3
  <2>2. live' \ {mem', snapshot'} \subseteq lostByRounds'.blocks
    <3>1. 0 \notin live
      BY <1>2
    <3> QED
      BY <1>1, <3>1 DEF OwnedInv, BlocksInv, Surfacing
  <2> QED
    BY <1>1, <1>4, <2>1, <2>2 DEF OwnedInv, BlocksInv, Surfacing, FreedOnce
<1>10. LossInv'
  BY <1>1, NoLoss
<1> QED
  BY <1>1, <1>6, <1>7, <1>8, <1>9, <1>10 DEF OwnedInv

LEMMA FreeSurfaceInv == OwnedInv /\ GrFreeSurface => OwnedInv'
<1> SUFFICES ASSUME OwnedInv, GrFreeSurface PROVE OwnedInv'
  OBVIOUS
<1>1. /\ screenPc \in {"up", "down"} /\ snapshot # 0 /\ live' = live \ {snapshot} /\ snapshot' = 0
      /\ UNCHANGED <<screenPc, device, fds, opened, console, mem, blocks, damage, mapped, doubleBuffering,
                    active, shown, row, rounds, tty, lostByRounds, unreturned, inits>>
  BY DEF GrFreeSurface, handles, picture, progress, history
<1>2. snapshot # mem
  BY <1>1 DEF OwnedInv, BlocksInv
<1>3. ScreenTypeOK'
  BY <1>1 DEF OwnedInv, ScreenTypeOK
<1>4. RoundsInv'
  BY <1>1 DEF OwnedInv, RoundsInv, Surfacing
<1>5. FdsInv'
  BY <1>1 DEF OwnedInv, FdsInv, Surfacing, ConsoleRestored
<1>6. BlocksInv'
  BY <1>1, <1>2 DEF OwnedInv, BlocksInv, Surfacing, FreedOnce
<1>7. LossInv'
  BY <1>1, NoLoss
<1> QED
  BY <1>1, <1>3, <1>4, <1>5, <1>6, <1>7 DEF OwnedInv

\* gr_exit.
LEMMA ScreenExitInv == OwnedInv /\ Exit => OwnedInv'
<1> SUFFICES ASSUME OwnedInv, Exit PROVE OwnedInv'
  OBVIOUS
<1>1. /\ screenPc = "up" /\ screenPc' = "down" /\ fds' = [fb |-> 0, vt |-> 0]
      /\ opened' = opened \ {d \in {fds.fb, fds.vt} : d # 0}
      /\ live' = live \ {mem}
      /\ damage' = damage \cup (IF mem = 0 \/ mem \in live THEN {} ELSE {"freedTwice"})
      /\ console' \in (IF fds.vt = 0 THEN {} ELSE {"text"})
                       \cup (IF fds.vt = 0 \/ tty' = "refused" THEN {console} ELSE {})
      /\ UNCHANGED <<device, mem, blocks, snapshot, mapped, doubleBuffering, active, shown, row,
                    rounds, tty, lostByRounds, unreturned, inits>>
  BY DEF Exit, GrExit, picture, history
<1>2. fds'.fb = 0 /\ fds'.vt = 0
  BY <1>1
<1>3. opened' \subseteq opened /\ 0 \in opened'
  BY <1>1 DEF OwnedInv, FdsInv
<1>4. IsFiniteSet(opened')
  BY <1>3, FS_Subset DEF OwnedInv, FdsInv
<1>5. ScreenTypeOK'
  <2>1. {fds'.fb, fds'.vt} \subseteq opened' /\ opened' \subseteq Nat /\ fds' \in [fb : Nat, vt : Nat]
    BY <1>1, <1>2, <1>3 DEF OwnedInv, ScreenTypeOK
  <2> QED
    BY <1>1, <2>1 DEF OwnedInv, ScreenTypeOK
<1>6. RoundsInv'
  BY <1>1, <1>2 DEF OwnedInv, RoundsInv, Surfacing
<1>7. FdsInv'
  <2>1. opened' \ {0, 1, 2} \subseteq lostByRounds'.fds
    BY <1>1 DEF OwnedInv, FdsInv, Surfacing, ConsoleRestored
  <2>2. tty' = "open" => console' = "text"
    BY <1>1 DEF OwnedInv, FdsInv, Surfacing, ConsoleRestored
  <2> QED
    BY <1>1, <1>3, <1>4, <2>1, <2>2 DEF OwnedInv, FdsInv, Surfacing, ConsoleRestored
<1>8. BlocksInv'
  <2>1. "freedTwice" \in damage' => inits' > 1 \/ device'.program = "cwm"
    <3>1. CASE mem = 0 \/ mem \in live
      BY <1>1, <3>1 DEF OwnedInv, BlocksInv, FreedOnce
    <3>2. CASE mem # 0 /\ mem \notin live
      <4>1. ~rounds[2] /\ (device.program = "twrp" => rounds[2])
        BY <1>1, <3>2 DEF OwnedInv, RoundsInv, BlocksInv, Surfacing
      <4> QED
        BY <1>1, <4>1 DEF OwnedInv, RoundsInv
    <3> QED
      BY <3>1, <3>2
  <2>2. "usedFreed" \in damage' => device'.program = "cwm"
    BY <1>1 DEF OwnedInv, BlocksInv
  <2>3. live' \ {snapshot'} \subseteq lostByRounds'.blocks
    BY <1>1 DEF OwnedInv, BlocksInv, Surfacing
  <2> QED
    BY <1>1, <2>1, <2>2, <2>3 DEF OwnedInv, BlocksInv, Surfacing, FreedOnce
<1>9. LossInv'
  BY <1>1, NoLoss
<1> QED
  BY <1>1, <1>5, <1>6, <1>7, <1>8, <1>9 DEF OwnedInv

\* A round finds no memory for its font.
LEMMA NoFontInv == OwnedInv /\ NoFont => OwnedInv'
<1> SUFFICES ASSUME OwnedInv, NoFont PROVE OwnedInv'
  OBVIOUS
<1>1. /\ screenPc' = "crashed" /\ device.program \in {"twrp", "cwm"}
      /\ UNCHANGED <<device, fds, opened, console, mem, live, blocks, snapshot, damage, mapped,
                    doubleBuffering, active, shown, row, rounds, tty, lostByRounds, unreturned, inits>>
  BY DEF NoFont, MayBegin, handles, memory, picture, progress, history, OwnedInv, RoundsInv
<1>2. ScreenTypeOK'
  BY <1>1 DEF OwnedInv, ScreenTypeOK
<1>3. RoundsInv'
  BY <1>1 DEF OwnedInv, RoundsInv, Surfacing
<1>4. FdsInv'
  BY <1>1 DEF OwnedInv, FdsInv, Surfacing, ConsoleRestored
<1>5. BlocksInv'
  BY <1>1 DEF OwnedInv, BlocksInv, Surfacing, FreedOnce
<1>6. LossInv'
  BY <1>1, NoLoss
<1> QED
  BY <1>1, <1>2, <1>3, <1>4, <1>5, <1>6 DEF OwnedInv

LEMMA OwnedStep == OwnedInv /\ [ScreenNext]_screenVars => OwnedInv'
<1> SUFFICES ASSUME OwnedInv, [ScreenNext]_screenVars PROVE OwnedInv'
  OBVIOUS
<1>1. CASE Boot
  BY <1>1, BootInv
<1>2. CASE Again
  BY <1>2, AgainInv
<1>3. CASE \E ok \in BOOLEAN : FirstRound(ok) \/ SecondRound(ok)
  BY <1>3, FirstRoundInv, SecondRoundInv
<1>4. CASE Draw \/ GrFlip \/ CopyRow \/ Swap \/ NullPointer
  BY <1>4, DrawInv
<1>5. CASE GrGetSurface \/ GrFreeSurface \/ Exit
  BY <1>5, GetSurfaceInv, FreeSurfaceInv, ScreenExitInv
<1>7. CASE NoFont
  BY <1>7, NoFontInv
<1>6. CASE UNCHANGED screenVars
  <2>1. UNCHANGED <<screenPc, device, fds, opened, console, mem, live, blocks, snapshot, damage, mapped,
                    doubleBuffering, active, shown, row, rounds, tty, lostByRounds, unreturned, inits>>
    BY <1>6 DEF screenVars, handles, memory, picture, progress, history
  <2>2. ScreenTypeOK'
    BY <2>1 DEF OwnedInv, ScreenTypeOK
  <2>3. RoundsInv'
    BY <2>1 DEF OwnedInv, RoundsInv, Surfacing
  <2>4. FdsInv'
    BY <2>1 DEF OwnedInv, FdsInv, Surfacing, ConsoleRestored
  <2>5. BlocksInv'
    BY <2>1 DEF OwnedInv, BlocksInv, Surfacing, FreedOnce
  <2>6. LossInv'
    BY <2>1, NoLoss
  <2> QED
    BY <2>1, <2>2, <2>3, <2>4, <2>5, <2>6 DEF OwnedInv
<1> QED
  BY <1>1, <1>2, <1>3, <1>4, <1>5, <1>6, <1>7 DEF ScreenNext

\* Every step of both programs keeps the owners of descriptors, blocks and tty0.
THEOREM ScreenInvariance == ScreenSpec => []OwnedInv
  BY ScreenInitInv, OwnedStep, PTL DEF ScreenSpec

\* Whatever fails in the two rounds of gr_init, and whatever the program does
\* then: the surface, the descriptors and tty0 of a second round are owned and
\* given back, those of a first round may be lost, and so are two fonts and
\* contexts and at most two mappings with every call, but no more
\* (twrp-graphics.c:733-805, 832-856, cwm's graphics.c:317-377).
THEOREM SurfacesOwned == ScreenSpec => []SurfacesAreOwned
<1>1. OwnedInv => SurfacesAreOwned
  <2> SUFFICES ASSUME OwnedInv PROVE SurfacesAreOwned
    OBVIOUS
  <2>1. MemoryIsLive
    <3>1. ASSUME Surfacing, ~Misled PROVE mem = 0 \/ mem \in live
      <4>1. rounds[2]
        BY <3>1 DEF OwnedInv, RoundsInv, Misled, Surfacing
      <4> QED
        BY <3>1, <4>1 DEF OwnedInv, BlocksInv
    <3> QED
      BY <3>1 DEF MemoryIsLive, OwnedInv, BlocksInv, Surfacing
  <2>2. FreedOnce
    BY DEF OwnedInv, BlocksInv
  <2>3. LossIsFirstRound
    BY DEF OwnedInv, FdsInv, BlocksInv, LossIsFirstRound, Surfacing
  <2>4. ConsoleRestored /\ LossPerInit
    BY DEF OwnedInv, FdsInv, LossInv
  <2> QED
    BY <2>1, <2>2, <2>3, <2>4 DEF OwnedInv, SurfacesAreOwned
<1> QED
  BY <1>1, ScreenInvariance, PTL

-----------------------------------------------------------------------------
(* What is on the screen *)

\* The framebuffer: of one picture or two, and as large as the driver said.
ShapeInv ==
  /\ device.line \in Nat /\ Width <= device.line /\ device.smem \in Nat
  /\ DOMAIN vram = 0..(device.smem - 1)
  /\ device # NoDevice => Height * device.line <= device.smem
  /\ shown = 1 => 2 * Height * device.line <= device.smem
  /\ screenPc = "off" => ~mapped
  /\ mapped /\ 2 * Height * device.line <= device.smem => doubleBuffering

\* Row y of buffer n has the pixels of picture f.
At(n, x, y) == (n * Height + y) * device.line + x
RowIs(n, f, y) == \A x \in 0..(Width - 1) : vram[At(n, x, y)] = <<f, x, y>>

\* The second round of gr_init has succeeded, and a picture can be shown.
Drawing == Surfacing /\ rounds[2]

\* memcpy has done the rows before row in the active buffer, and with two
\* buffers the driver shows the other one meanwhile.
ContentInv ==
  /\ Drawing => mapped
  /\ screenPc \in {"copy", "swap"} => mapped /\ mem # 0
  /\ screenPc = "swap" => row = Height
  /\ frame \in Frames \cup {0}
  /\ Drawing /\ screenPc # "up" => \A y \in 0..(row - 1) : RowIs(active, frame, y)
  /\ Drawing /\ doubleBuffering /\ ~swapFailed =>
       /\ shown = IF screenPc = "up" THEN active ELSE 1 - active
       /\ Blank \/ \E f \in Frames \cup {0} : Shows(f)
  /\ Drawing /\ screenPc = "up" /\ lastFlip # 0 /\ ~swapFailed => Shows(lastFlip)

PictureInv == OwnedInv /\ ShapeInv /\ ContentInv

\* Division by the length of a line.
LEMMA DivMod ==
  ASSUME NEW l \in Nat, NEW y \in Nat, NEW x \in Nat, x < l
  PROVE  (y * l + x) % l = x /\ (y * l + x) \div l = y
<1> DEFINE a == y * l + x
           q == a \div l
           r == a % l
<1>1. l \in Nat \ {0} /\ a \in Nat
  OBVIOUS
<1>2. q \in Int /\ r \in 0..(l - 1) /\ a = q * l + r
  BY <1>1
<1>3. (q - y) * l = x - r
  BY <1>1, <1>2
<1>4. q = y
  <2>1. ~(q > y)
    <3> SUFFICES ASSUME q > y PROVE FALSE
      OBVIOUS
    <3>1. q - y >= 1
      BY <1>2
    <3>2. (q - y) * l >= l
      BY <1>1, <1>2, <3>1
    <3> QED
      BY <1>2, <1>3, <3>2
  <2>2. ~(q < y)
    <3> SUFFICES ASSUME q < y PROVE FALSE
      OBVIOUS
    <3>1. y - q >= 1
      BY <1>2
    <3>2. (y - q) * l >= l
      BY <1>1, <1>2, <3>1
    <3>3. (y - q) * l = r - x
      BY <1>2, <1>3
    <3> QED
      BY <1>2, <3>2, <3>3
  <2> QED
    BY <1>2, <2>1, <2>2
<1> QED
  BY <1>2, <1>3, <1>4

LEMMA TimesGrows ==
  ASSUME NEW a \in Nat, NEW b \in Nat, NEW l \in Nat, a <= b
  PROVE  a * l <= b * l
<1>1. PICK d \in Nat : b = a + d
  <2>1. b - a \in Nat /\ b = a + (b - a)
    OBVIOUS
  <2> QED
    BY <2>1
<1>2. (a + d) * l = a * l + d * l
  OBVIOUS
<1>3. a * l \in Nat /\ d * l \in Nat
  OBVIOUS
<1> QED
  BY <1>1, <1>2, <1>3

\* Where a pixel of a buffer is.
LEMMA PixelPlace ==
  ASSUME ShapeInv, Height \in Nat, NEW n \in {0, 1}, NEW x \in 0..(Width - 1), NEW y \in 0..(Height - 1), Width \in Nat
  PROVE  /\ At(n, x, y) \in Nat /\ At(n, x, y) < (n + 1) * Height * device.line
         /\ At(n, x, y) - Buffer(n) = y * device.line + x
         /\ Buffer(n) <= At(n, x, y)
         /\ n = 0 => At(n, x, y) < Buffer(1)
         /\ n = 1 => At(n, x, y) - Buffer(0) = (Height + y) * device.line + x
<1> DEFINE l == device.line
<1>1. l \in Nat /\ x \in Nat /\ x < l /\ y \in Nat /\ y + 1 <= Height
  BY DEF ShapeInv
<1>2. (y + 1) * l <= Height * l /\ (y + 1) * l = y * l + l
  <2>1. y + 1 \in Nat /\ y + 1 <= Height
    BY <1>1
  <2>2. (y + 1) * l <= Height * l
    BY <1>1, <2>1, TimesGrows
  <2> QED
    BY <1>1, <2>2
<1>3. y * l \in Nat /\ Height * l \in Nat /\ y * l + x < Height * l
  BY <1>1, <1>2
<1>4. (Height + y) * l = Height * l + y * l
  BY <1>1
<1>5. Buffer(0) = 0 /\ Buffer(1) = Height * l
  BY <1>1 DEF Buffer, Stride
<1>6. CASE n = 0
  <2>1. At(n, x, y) = y * l + x
    BY <1>1, <1>6 DEF At
  <2>2. (n + 1) * Height * device.line = Height * l
    BY <1>1, <1>6
  <2> HIDE DEF l
  <2> QED
    BY <1>1, <1>3, <1>5, <1>6, <2>1, <2>2 DEF l
<1>7. CASE n = 1
  <2>1. At(n, x, y) = (Height + y) * l + x
    BY <1>1, <1>7 DEF At
  <2>2. (n + 1) * Height * device.line = Height * l + Height * l
    BY <1>1, <1>7
  <2> QED
    BY <1>1, <1>3, <1>4, <1>5, <1>7, <2>1, <2>2
<1> QED
  BY <1>6, <1>7

\* Where two pixels of a buffer are inside the framebuffer.
LEMMA PixelInside ==
  ASSUME OwnedInv, ShapeInv, screenPc # "off", NEW n \in {0, 1}, NEW x \in 0..(Width - 1), NEW y \in 0..(Height - 1),
         n = 1 => 2 * Height * device.line <= device.smem
  PROVE  At(n, x, y) \in DOMAIN vram /\ (n = 0 => At(n, x, y) < Height * device.line)
         /\ At(n, x, y) < 2 * Height * device.line
<1>1. Height \in Nat /\ Width \in Nat
  BY ScreenAssumption
<1>2. At(n, x, y) \in Nat /\ At(n, x, y) < (n + 1) * Height * device.line
  BY <1>1, PixelPlace
<1>3. device # NoDevice
  BY DEF OwnedInv, RoundsInv, NoDevice
<1>4. device.line \in Nat /\ device.smem \in Nat /\ DOMAIN vram = 0..(device.smem - 1) /\ Height * device.line <= device.smem
  BY <1>3 DEF ShapeInv
<1>5. Height * device.line \in Nat /\ 2 * Height * device.line = Height * device.line + Height * device.line
  BY <1>1, <1>4
<1>6. CASE n = 0
  <2>1. (n + 1) * Height * device.line = Height * device.line
    BY <1>1, <1>4, <1>6
  <2> QED
    BY <1>2, <1>4, <1>5, <1>6, <2>1
<1>7. CASE n = 1
  <2>1. (n + 1) * Height * device.line = 2 * Height * device.line
    BY <1>1, <1>4, <1>7
  <2>2. 2 * Height * device.line <= device.smem /\ 2 * Height * device.line \in Nat
    BY <1>5, <1>7
  <2>3. At(n, x, y) < 2 * Height * device.line
    BY <1>2, <2>1
  <2> HIDE DEF At
  <2>4. At(n, x, y) \in 0..(device.smem - 1)
    BY <1>2, <1>4, <2>2, <2>3
  <2> QED
    BY <1>4, <1>7, <2>3, <2>4
<1> QED
  BY <1>6, <1>7

\* memcpy of one row: the pixels of that row in the active buffer, and no other.
LEMMA RowCopied ==
  ASSUME OwnedInv, ShapeInv, ContentInv, CopyRow, NEW n \in {0, 1}, NEW x \in 0..(Width - 1), NEW y \in 0..(Height - 1),
         n = 1 => 2 * Height * device.line <= device.smem
  PROVE  /\ n = active /\ y = row /\ Drawing => vram'[At(n, x, y)] = <<frame, x, y>>
         /\ ~(n = active /\ y = row) => vram'[At(n, x, y)] = vram[At(n, x, y)]
<1>1. Height \in Nat /\ Width \in Nat /\ device.line \in Nat /\ x \in Nat /\ y \in Nat /\ x < device.line /\ x < Width
      /\ y < Height /\ row \in Nat /\ row < Height /\ active \in {0, 1}
  BY ScreenAssumption DEF ShapeInv, OwnedInv, ScreenTypeOK, RoundsInv, CopyRow
<1> DEFINE i == At(n, x, y)
<1>2. screenPc = "copy"
  BY DEF CopyRow
<1>3. i \in DOMAIN vram
  BY <1>2, PixelInside
<1>4. vram'[i] = IF i < Buffer(active) \/ (i - Buffer(active)) \div Stride # row THEN vram[i]
                ELSE IF mem \in live /\ (i - Buffer(active)) % Stride < Width
                     THEN <<frame, (i - Buffer(active)) % Stride, (i - Buffer(active)) \div Stride>> ELSE <<"pad">>
  BY <1>3 DEF CopyRow
<1>5. Stride = device.line
  BY DEF Stride
<1>6. /\ i - Buffer(n) = y * device.line + x /\ Buffer(n) <= i /\ i \in Nat
      /\ n = 0 => i < Buffer(1)
      /\ n = 1 => i - Buffer(0) = (Height + y) * device.line + x
  BY <1>1, PixelPlace
<1>7. (y * device.line + x) % device.line = x /\ (y * device.line + x) \div device.line = y
  BY <1>1, DivMod
<1>8. ((Height + y) * device.line + x) \div device.line = Height + y
  <2>1. PICK h \in Nat, l \in Nat : h = Height + y /\ l = device.line
    BY <1>1
  <2>2. x \in Nat /\ x < l
    BY <1>1, <2>1
  <2>3. (h * l + x) \div l = h
    BY <2>2, DivMod
  <2> QED
    BY <2>1, <2>3
<1>9. Buffer(n) \in Int
  BY <1>1 DEF Buffer, Stride
<1> HIDE DEF i
<1>10. CASE n = active
  <2>1. ~(i < Buffer(active)) /\ (i - Buffer(active)) % Stride = x /\ (i - Buffer(active)) \div Stride = y
    BY <1>5, <1>6, <1>7, <1>9, <1>10
  <2>2. Drawing => mem \in live
    BY <1>2 DEF Drawing, OwnedInv, BlocksInv, ContentInv
  <2> QED
    BY <1>1, <1>4, <1>10, <2>1, <2>2 DEF i
<1>11. CASE n # active
  <2>1. CASE n = 0
    <3>1. active = 1 /\ i < Buffer(active)
      BY <1>1, <1>6, <1>11, <2>1
    <3> QED
      BY <1>4, <1>11, <3>1 DEF i
  <2>2. CASE n = 1
    <3>1. active = 0
      BY <1>1, <1>11, <2>2
    <3>2. (i - Buffer(active)) \div Stride = Height + y
      BY <1>5, <1>6, <1>8, <2>2, <3>1
    <3>3. Height + y # row
      BY <1>1
    <3> QED
      BY <1>4, <1>11, <3>2, <3>3 DEF i
  <2> QED
    BY <2>1, <2>2
<1> QED
  BY <1>10, <1>11

\* The shape of the framebuffer is that of the device that was booted, and a
\* second buffer is used when there is room.
LEMMA BootShape == OwnedInv /\ ShapeInv /\ Boot => ShapeInv'
<1> SUFFICES ASSUME OwnedInv, ShapeInv, Boot PROVE ShapeInv'
  OBVIOUS
<1>1. PICK p \in {"twrp", "cwm"}, line \in LineLengths :
        \E smem \in {Height * line, 2 * Height * line - 1, 2 * Height * line} :
          /\ device' = [program |-> p, line |-> line, smem |-> smem]
          /\ vram' = [i \in 0..(smem - 1) |-> <<"old">>]
          /\ shown' \in IF smem = 2 * Height * line THEN {0, 1} ELSE {0}
  BY DEF Boot
<1>2. PICK smem \in {Height * line, 2 * Height * line - 1, 2 * Height * line} :
          /\ device' = [program |-> p, line |-> line, smem |-> smem]
          /\ vram' = [i \in 0..(smem - 1) |-> <<"old">>]
          /\ shown' \in IF smem = 2 * Height * line THEN {0, 1} ELSE {0}
  BY <1>1
<1>3. line \in Nat /\ Width <= line /\ Width \in Nat \ {0} /\ Height \in Nat \ {0}
  BY ScreenAssumption
<1>4. Height * line \in Nat /\ 2 * Height * line = Height * line + Height * line /\ Height * line >= 1
  <2>1. Height * line \in Nat /\ 2 * Height * line = Height * line + Height * line
    BY <1>3
  <2>2. 1 * line <= Height * line
    BY <1>3, TimesGrows
  <2> QED
    BY <1>3, <2>1, <2>2
<1>5. smem \in Nat /\ Height * line <= smem
  BY <1>4
<1>6. device'.line = line /\ device'.smem = smem /\ DOMAIN vram' = 0..(smem - 1)
  BY <1>2
<1>7. shown' = 1 => 2 * Height * line <= smem
  BY <1>2, <1>4, <1>5
<1>8. screenPc' = "off" /\ ~mapped'
  BY DEF Boot, ShapeInv
<1> QED
  BY <1>3, <1>5, <1>6, <1>7, <1>8 DEF ShapeInv

LEMMA ShapeStep == OwnedInv /\ ShapeInv /\ [ScreenNext]_screenVars => ShapeInv'
<1> SUFFICES ASSUME OwnedInv, ShapeInv, [ScreenNext]_screenVars PROVE ShapeInv'
  OBVIOUS
<1>1. CASE Boot
  BY <1>1, BootShape
<1>2. ASSUME NEW ok \in BOOLEAN, FirstRound(ok) \/ SecondRound(ok) PROVE ShapeInv'
  <2>1. device' = device /\ screenPc' # "off" /\ (RoundFails \/ RoundSucceeds)
    BY <1>2 DEF FirstRound, SecondRound, Round, GrInit, CwmGrInit
  <2>2. CASE RoundFails
    BY <2>1, <2>2 DEF RoundFails, picture, ShapeInv
  <2>3. CASE RoundSucceeds
    <3>1. GetFramebuffer /\ active' = 0 /\ SetActiveFramebuffer(0)
      BY <2>3 DEF RoundSucceeds
    <3>2. DOMAIN vram' = DOMAIN vram
      BY <3>1 DEF GetFramebuffer, Cleared
    <3>3. shown' = 1 => shown = 1
      BY <3>1 DEF SetActiveFramebuffer, SwapRefused
    <3>4. 2 * Height * device.line <= device.smem => doubleBuffering'
      BY <3>1 DEF GetFramebuffer
    <3> QED
      BY <2>1, <3>2, <3>3, <3>4 DEF ShapeInv
  <2> QED
    BY <2>1, <2>2, <2>3
<1>3. CASE Swap
  <2>1. UNCHANGED <<device, mapped, doubleBuffering, active, vram>> /\ SetActiveFramebuffer(active) /\ screenPc' = "up"
    BY <1>3 DEF Swap
  <2>2. shown' = 1 => 2 * Height * device.line <= device.smem
    BY <2>1 DEF SetActiveFramebuffer, SwapRefused, OwnedInv, ScreenTypeOK, ShapeInv
  <2> QED
    BY <2>1, <2>2 DEF ShapeInv
<1>4. CASE CopyRow
  <2>1. UNCHANGED <<device, mapped, doubleBuffering, shown>> /\ screenPc' # "off" /\ DOMAIN vram' = DOMAIN vram
    BY <1>4 DEF CopyRow
  <2> QED
    BY <2>1 DEF ShapeInv
<1>5. CASE \/ Again \/ Draw \/ GrFlip \/ NullPointer \/ NoFont \/ GrGetSurface \/ GrFreeSurface \/ Exit
           \/ UNCHANGED screenVars
  <2>1. UNCHANGED <<device, mapped, doubleBuffering, shown, vram>> /\ (screenPc' = "off" => screenPc = "off")
    BY <1>5 DEF Again, Draw, GrFlip, NullPointer, NoFont, GrGetSurface, GrFreeSurface, Exit, screenVars, picture
  <2> QED
    BY <2>1 DEF ShapeInv
<1> QED
  BY <1>1, <1>2, <1>3, <1>4, <1>5 DEF ScreenNext

\* The second round of gr_init clears what will be shown.
LEMMA RoundContent ==
  ASSUME PictureInv, NEW ok \in BOOLEAN, FirstRound(ok) \/ SecondRound(ok)
  PROVE  ContentInv'
<1>1. /\ frame' = 0 /\ lastFlip' = 0 /\ rounds' = Append(rounds, ok) /\ device' = device
      /\ IF ok THEN RoundSucceeds ELSE RoundFails
      /\ screenPc' \in {"second", "up", "down"}
  BY DEF FirstRound, SecondRound, Round, GrInit, CwmGrInit
<1>2. CASE screenPc' # "up"
  BY <1>1, <1>2 DEF ContentInv, Drawing, Surfacing
<1>3. CASE screenPc' = "up" /\ ~rounds'[2]
  BY <1>1, <1>3 DEF ContentInv, Drawing, Surfacing
<1>4. CASE screenPc' = "up" /\ rounds'[2]
  <2>1. screenPc = "second" /\ rounds \in Seq(BOOLEAN) /\ Len(rounds) = 1
    BY <1>4 DEF FirstRound, SecondRound, PictureInv, OwnedInv, RoundsInv
  <2>2. rounds'[2] = ok
    BY <1>1, <2>1, SecondOfTwo, Zenon
  <2>3. RoundSucceeds
    BY <1>1, <1>4, <2>2
  <2>4. GetFramebuffer /\ active' = 0 /\ SetActiveFramebuffer(0)
    BY <2>3 DEF RoundSucceeds
  <2>5. mapped'
    BY <2>4 DEF GetFramebuffer
  <2>6. ASSUME doubleBuffering', ~swapFailed' PROVE shown' = active' /\ Blank'
    <3>1. shown' = 0
      BY <2>4, <2>6 DEF SetActiveFramebuffer, SwapRefused
    <3>2. 2 * Height * device.line <= device.smem
      BY <2>4, <2>6 DEF GetFramebuffer, PictureInv, OwnedInv, ScreenTypeOK
    <3>3. vram' = Cleared(2)
      BY <2>4, <3>2 DEF GetFramebuffer
    <3>4. ASSUME NEW x \in 0..(Width - 1), NEW y \in 0..(Height - 1)
          PROVE  vram'[At(0, x, y)] = <<"blank">>
      <4>1. At(0, x, y) \in DOMAIN vram /\ At(0, x, y) < 2 * Height * device.line
        BY <2>1, <3>2, PixelInside DEF PictureInv
      <4> QED
        BY <3>3, <4>1 DEF Cleared, Stride
    <3>5. Blank'
      BY <1>1, <3>1, <3>4 DEF Blank, Pixel, At
    <3> QED
      BY <2>4, <3>1, <3>5
  <2> QED
    BY <1>1, <1>4, <2>5, <2>6 DEF ContentInv, Drawing
<1> QED
  BY <1>1, <1>2, <1>3, <1>4

\* A picture is shown as long as the driver and the memory stay.
LEMMA ShownKept ==
  ASSUME UNCHANGED <<device, shown, vram>>
  PROVE  /\ Blank => Blank'
         /\ \A f : Shows(f) => Shows(f)'
         /\ \A n, f, y : active' = active /\ RowIs(n, f, y) => RowIs(n, f, y)'
  BY DEF Blank, Shows, Pixel, RowIs, At

\* gr_flip chooses the buffer that is not shown.
LEMMA FlipContent == PictureInv /\ GrFlip => ContentInv'
<1> SUFFICES ASSUME PictureInv, GrFlip PROVE ContentInv'
  OBVIOUS
<1>1. /\ screenPc = "up" /\ screenPc' = "copy" /\ mem # 0 /\ mapped /\ row' = 0
      /\ active' = IF doubleBuffering THEN 1 - active ELSE active
      /\ UNCHANGED <<device, mem, mapped, doubleBuffering, shown, vram, swapFailed, frame, rounds>>
  BY DEF GrFlip, history
<1>2. Drawing' <=> Drawing
  BY <1>1 DEF Drawing, Surfacing
<1>3. ASSUME Drawing, doubleBuffering, ~swapFailed
      PROVE  shown' = 1 - active' /\ (Blank' \/ \E f \in Frames \cup {0} : Shows(f)')
  <2>1. shown = active /\ (Blank \/ \E f \in Frames \cup {0} : Shows(f))
    BY <1>1, <1>3 DEF PictureInv, ContentInv
  <2>2. active \in {0, 1}
    BY DEF PictureInv, OwnedInv, ScreenTypeOK
  <2>3. shown' = 1 - active'
    BY <1>1, <1>3, <2>1, <2>2
  <2> QED
    BY <1>1, <2>1, <2>3, ShownKept
<1>4. \A y \in 0..(row' - 1) : FALSE
  BY <1>1
<1>5. frame' \in Frames \cup {0}
  BY <1>1 DEF PictureInv, ContentInv
<1> QED
  BY <1>1, <1>2, <1>3, <1>4, <1>5 DEF ContentInv

\* One row is copied.
LEMMA CopyContent == PictureInv /\ CopyRow => ContentInv'
<1> SUFFICES ASSUME PictureInv, CopyRow PROVE ContentInv'
  OBVIOUS
<1>1. /\ screenPc = "copy" /\ row' = row + 1
      /\ screenPc' = (IF row' = Height THEN "swap" ELSE "copy")
      /\ UNCHANGED <<device, mem, mapped, doubleBuffering, active, shown, swapFailed, frame, rounds>>
  BY DEF CopyRow, memory, history
<1>2. Drawing' <=> Drawing
  BY <1>1 DEF Drawing, Surfacing
<1>3. /\ OwnedInv /\ ShapeInv /\ ContentInv /\ row \in Nat /\ row < Height /\ Height \in Nat
      /\ active \in {0, 1} /\ shown \in {0, 1}
      /\ active = 1 => 2 * Height * device.line <= device.smem
      /\ shown = 1 => 2 * Height * device.line <= device.smem
  BY <1>1, ScreenAssumption DEF PictureInv, OwnedInv, ScreenTypeOK, RoundsInv, ShapeInv
<1>4. ASSUME Drawing, NEW y \in 0..row PROVE RowIs(active, frame, y)'
  <2> SUFFICES ASSUME NEW x \in 0..(Width - 1) PROVE vram'[At(active, x, y)] = <<frame, x, y>>
    BY <1>1 DEF RowIs, At
  <2>1. y \in 0..(Height - 1)
    BY <1>3
  <2>2. CASE y = row
    BY <1>3, <1>4, <2>1, <2>2, RowCopied
  <2>3. CASE y # row
    <3>1. y \in 0..(row - 1)
      BY <1>3, <2>3
    <3>2. RowIs(active, frame, y)
      BY <1>1, <1>3, <1>4, <3>1 DEF ContentInv
    <3>3. vram[At(active, x, y)] = <<frame, x, y>>
      BY <3>2 DEF RowIs
    <3>4. vram'[At(active, x, y)] = vram[At(active, x, y)]
      BY <1>3, <2>1, <2>3, RowCopied
    <3> QED
      BY <3>3, <3>4
  <2> QED
    BY <2>2, <2>3
<1>5. ASSUME Drawing, doubleBuffering, ~swapFailed
      PROVE  shown = 1 - active /\ (Blank' \/ \E f \in Frames \cup {0} : Shows(f)')
  <2>1. shown = 1 - active /\ (Blank \/ \E f \in Frames \cup {0} : Shows(f))
    BY <1>1, <1>3, <1>5 DEF ContentInv
  <2>2. shown # active
    BY <1>3, <2>1
  <2>3. ASSUME NEW x \in 0..(Width - 1), NEW y \in 0..(Height - 1)
        PROVE  vram'[At(shown, x, y)] = vram[At(shown, x, y)]
    BY <1>3, <2>2, RowCopied
  <2>4. ASSUME NEW x \in 0..(Width - 1), NEW y \in 0..(Height - 1)
        PROVE  Pixel(x, y)' = Pixel(x, y)
    BY <1>1, <2>3 DEF Pixel, At
  <2>5. Blank => Blank'
    BY <2>4 DEF Blank
  <2>6. \A f : Shows(f) => Shows(f)'
    BY <2>4 DEF Shows
  <2> QED
    BY <2>1, <2>5, <2>6
<1>6. screenPc' \in {"copy", "swap"} /\ (screenPc' = "swap" => row' = Height) /\ row' - 1 = row
  BY <1>1, <1>3
<1>7. mapped' /\ mem' # 0 /\ frame' \in Frames \cup {0}
  BY <1>1, <1>3 DEF ContentInv
<1> QED
  BY <1>1, <1>2, <1>4, <1>5, <1>6, <1>7 DEF ContentInv

\* The driver is told which buffer to show.
LEMMA SwapContent == PictureInv /\ Swap => ContentInv'
<1> SUFFICES ASSUME PictureInv, Swap PROVE ContentInv'
  OBVIOUS
<1>1. /\ screenPc = "swap" /\ screenPc' = "up" /\ SetActiveFramebuffer(active) /\ lastFlip' = frame
      /\ UNCHANGED <<device, mem, mapped, doubleBuffering, active, vram, frame, rounds>>
  BY DEF Swap, memory, history
<1>2. Drawing' <=> Drawing
  BY <1>1 DEF Drawing, Surfacing
<1>3. mapped /\ row = Height /\ frame \in Frames \cup {0}
  BY <1>1 DEF PictureInv, ContentInv
<1>4. ASSUME Drawing, ~swapFailed' PROVE shown' = active
  <2>1. CASE doubleBuffering
    BY <1>1, <1>4, <2>1 DEF SetActiveFramebuffer, SwapRefused
  <2>2. CASE ~doubleBuffering
    <3>1. shown' = shown /\ active = 0
      BY <1>1, <2>2 DEF SetActiveFramebuffer, PictureInv, OwnedInv, ScreenTypeOK
    <3>2. shown \in {0, 1} /\ shown # 1
      BY <1>3, <2>2 DEF PictureInv, OwnedInv, ScreenTypeOK, ShapeInv
    <3> QED
      BY <3>1, <3>2
  <2> QED
    BY <2>1, <2>2
<1>5. PICK f \in Frames \cup {0} : f = frame
  BY <1>3
<1>6. f = lastFlip'
  BY <1>1, <1>5
<1>7. ASSUME Drawing, ~swapFailed' PROVE Shows(f)'
  <2>1. \A y \in 0..(Height - 1) : RowIs(active, frame, y)
    BY <1>1, <1>3, <1>7 DEF PictureInv, ContentInv
  <2>2. shown' = active
    BY <1>4, <1>7
  <2>3. ASSUME NEW x \in 0..(Width - 1), NEW y \in 0..(Height - 1)
        PROVE  Pixel(x, y)' = <<f, x, y>>
    <3>1. vram[At(active, x, y)] = <<frame, x, y>>
      BY <2>1 DEF RowIs
    <3> QED
      BY <1>1, <1>5, <2>2, <3>1 DEF Pixel, At
  <2> QED
    BY <2>3 DEF Shows
<1>8. ASSUME Drawing, ~swapFailed' PROVE Shows(lastFlip)'
  BY <1>6, <1>7, <1>8 DEF Shows
<1>9. mapped' /\ frame' \in Frames \cup {0}
  BY <1>1, <1>3
<1> QED
  BY <1>1, <1>2, <1>4, <1>5, <1>7, <1>8, <1>9 DEF ContentInv

\* A step that leaves the framebuffer alone, and does not begin to use it.
LEMMA IdleContent ==
  ASSUME PictureInv, UNCHANGED <<device, picture, rounds, row>>,
         screenPc' = screenPc, mem' = mem, lastFlip' = lastFlip,
         frame' = frame \/ (screenPc = "up" /\ frame' \in Frames)
  PROVE  ContentInv'
<1>1. UNCHANGED <<device, mapped, doubleBuffering, active, shown, vram, swapFailed>>
  BY DEF picture
<1>2. (Drawing' <=> Drawing) /\ ContentInv
  BY DEF Drawing, Surfacing, PictureInv
<1>3. Blank => Blank'
  BY <1>1, ShownKept
<1>4. \A f : Shows(f) => Shows(f)'
  BY <1>1, ShownKept
<1>5. Shows(lastFlip) => Shows(lastFlip)'
  BY <1>1 DEF Shows, Pixel
<1>6. ASSUME Drawing, screenPc # "up" PROVE \A y \in 0..(row - 1) : RowIs(active, frame, y)'
  <2>1. \A y \in 0..(row - 1) : RowIs(active, frame, y)
    BY <1>2, <1>6 DEF ContentInv
  <2> QED
    BY <1>1, <1>6, <2>1 DEF RowIs, At
<1> QED
  BY <1>1, <1>2, <1>3, <1>4, <1>5, <1>6 DEF ContentInv

\* A step after which nothing is drawn.
LEMMA AwayContent ==
  ASSUME screenPc' \in {"off", "second", "down", "crashed"}, frame' \in Frames \cup {0}
  PROVE  ContentInv'
BY DEF ContentInv, Drawing, Surfacing

LEMMA PictureInit == ScreenInit => PictureInv
<1> SUFFICES ASSUME ScreenInit PROVE PictureInv
  OBVIOUS
<1>1. ShapeInv
  BY ScreenAssumption DEF ScreenInit, NoDevice, ShapeInv
<1>2. ContentInv
  BY DEF ScreenInit, ContentInv, Drawing, Surfacing
<1> QED
  BY <1>1, <1>2, ScreenInitInv DEF PictureInv

LEMMA PictureStep == PictureInv /\ [ScreenNext]_screenVars => PictureInv'
<1> SUFFICES ASSUME PictureInv, [ScreenNext]_screenVars PROVE ContentInv'
  BY OwnedStep, ShapeStep DEF PictureInv
<1>1. frame \in Frames \cup {0}
  BY DEF PictureInv, ContentInv
<1>2. CASE Boot \/ Again \/ NullPointer \/ NoFont \/ Exit
  <2>1. screenPc' \in {"off", "down", "crashed"} /\ frame' \in Frames \cup {0}
    BY <1>1, <1>2 DEF Boot, Again, NullPointer, NoFont, Exit, progress
  <2> QED
    BY <2>1, AwayContent
<1>3. ASSUME NEW ok \in BOOLEAN, FirstRound(ok) \/ SecondRound(ok) PROVE ContentInv'
  BY <1>3, RoundContent
<1>4. CASE Draw \/ GrGetSurface \/ GrFreeSurface \/ UNCHANGED screenVars
  <2>1. /\ UNCHANGED <<device, picture, rounds, row>>
        /\ screenPc' = screenPc /\ mem' = mem /\ lastFlip' = lastFlip
        /\ frame' = frame \/ (screenPc = "up" /\ frame' \in Frames)
    BY <1>4 DEF Draw, GrGetSurface, GrFreeSurface, screenVars, progress, history, memory
  <2> QED
    BY <2>1, IdleContent
<1>5. CASE GrFlip
  BY <1>5, FlipContent
<1>6. CASE CopyRow
  BY <1>6, CopyContent
<1>7. CASE Swap
  BY <1>7, SwapContent
<1> QED
  BY <1>2, <1>3, <1>4, <1>5, <1>6, <1>7 DEF ScreenNext

\* In every state the framebuffer has what the copied rows and the swaps say.
THEOREM PictureInvariance == ScreenSpec => []PictureInv
<1>1. PictureInv /\ [ScreenNext]_screenVars => PictureInv'
  BY PictureStep
<1> QED
  BY <1>1, PictureInit, PTL DEF ScreenSpec

\* gr_flip of both programs shows whole pictures, and the one that was drawn
\* (twrp-graphics.c:255-280, configs/recovery/graphics.c), for screens, strides
\* and framebuffers of any size.
THEOREM PicturesWhole == ScreenSpec => []PicturesAreWhole
<1>1. PictureInv => PicturesAreWhole
  <2> SUFFICES ASSUME PictureInv PROVE PicturesAreWhole
    OBVIOUS
  <2>1. ASSUME Surfacing, ~Misled PROVE Drawing
    BY <2>1 DEF PictureInv, OwnedInv, RoundsInv, Misled, Surfacing, Drawing
  <2>2. NoTearing
    BY <2>1 DEF PictureInv, ContentInv, NoTearing, Surfacing
  <2>3. FlipShows
    BY <2>1 DEF PictureInv, ContentInv, FlipShows, Surfacing
  <2> QED
    BY <2>2, <2>3 DEF PicturesAreWhole
<1> QED
  BY <1>1, PictureInvariance, PTL

-----------------------------------------------------------------------------
(* The backend, the surface and the painting of minui *)

Backends == {"adf", "drm", "fbdev"}

\* What each point of gr_init_real knows of the surface: the first round begins
\* without one, and a backend that was skipped has not worked.
RoundInv ==
  /\ minuiPc = "off" => round = 0 /\ draw = Nothing
  /\ minuiPc = "second" => round = 1
  /\ minuiPc = "adf" => round \in 1..2 /\ (round = 1 => draw = Nothing)
  /\ minuiPc \in {"drm", "fbdev", "finish"} =>
       /\ round \in 1..2
       /\ backend = "none" => (round = 1 => draw = Nothing)
       /\ backend # "none" /\ draw # Nothing => draw.owner = backend /\ backend \in ready
  /\ minuiPc \in {"fbdev", "finish"} /\ draw = Nothing => "drm" \notin works
  /\ minuiPc = "finish" /\ draw = Nothing => "fbdev" \notin works

IInv == RoundInv /\ BackendIsUsable

LEMMA NothingIsNoSurface == \A b \in Backends : Nothing \notin Surfaces(b)
  BY DEF Backends, Nothing, Surfaces

\* The two dimensions of a surface.
LEMMA SurfaceParts ==
  ASSUME MinuiTypeOK, draw # Nothing
  PROVE  /\ draw.width \in Widths /\ draw.height \in Heights /\ draw.owner \in Backends
         /\ draw = [owner |-> draw.owner, width |-> draw.width, height |-> draw.height]
  BY DEF MinuiTypeOK, Surfaces, Backends

LEMMA InitInv == MinuiInit => IInv
  BY DEF MinuiInit, IInv, RoundInv, BackendIsUsable, MinuiTypeOK, DrawsOnItsBackend, SurfaceIfAnyWorks, Nothing

LEMMA BeginInv == IInv /\ BeginRound => IInv'
<1> SUFFICES ASSUME IInv, BeginRound PROVE IInv'
  OBVIOUS
<1>1. UNCHANGED <<backend, draw, ready, offset, color>> /\ minuiPc' = "adf" /\ round' = round + 1
  BY DEF BeginRound
<1>2. font' \in [width : Nat, cwidth : Nat, bold : BOOLEAN]
  <2>1. PICK w \in Textures, b \in BOOLEAN : font' = [width |-> w, cwidth |-> w \div 96, bold |-> b]
    BY DEF BeginRound, GrInitFont
  <2>2. w \in Nat /\ w \div 96 \in Nat
    BY MinuiAssumption
  <2> QED
    BY <2>1, <2>2
<1>3. percent' \in Percents \cup {0} /\ works' \subseteq Backends
  BY DEF BeginRound, IInv, BackendIsUsable, MinuiTypeOK, Backends
<1>4. round \in 0..1 /\ (round = 0 => draw = Nothing)
  BY DEF BeginRound, IInv, RoundInv, BackendIsUsable, MinuiTypeOK
<1>5. MinuiTypeOK'
  BY <1>1, <1>2, <1>3, <1>4 DEF IInv, BackendIsUsable, MinuiTypeOK, Backends, Surfaces
<1> QED
  BY <1>1, <1>4, <1>5 DEF IInv, RoundInv, BackendIsUsable, DrawsOnItsBackend, SurfaceIfAnyWorks

\* What init of a backend leaves.
LEMMA TryLeaves ==
  ASSUME IInv, NEW b \in Backends, Try(b)
  PROVE  /\ draw' \in Surfaces(b) \cup {Nothing}
         /\ b \in works => draw' \in Surfaces(b) /\ draw' # Nothing /\ b \in ready'
         /\ b \notin works => draw' = Nothing
         /\ draw' # Nothing => draw'.owner = b /\ b \in ready'
         /\ ready' \subseteq Backends
<1>1. ready \subseteq Backends
  BY DEF IInv, BackendIsUsable, MinuiTypeOK, Backends
<1>2. \A s \in Surfaces(b) : s # Nothing /\ s.owner = b
  BY NothingIsNoSurface DEF Surfaces
<1> QED
  BY <1>1, <1>2 DEF Try

\* The type invariant after a step that only opens a backend.
LEMMA OpenTypes ==
  ASSUME IInv, UNCHANGED <<percent, color, offset, font, works, round>>,
         minuiPc' \in {"drm", "fbdev", "finish"},
         backend' \in Backends \cup {"none"}, ready' \subseteq Backends,
         draw' = draw \/ \E b \in Backends : draw' \in Surfaces(b) \cup {Nothing}
  PROVE  MinuiTypeOK'
<1>1. draw' = Nothing \/ draw' \in UNION {Surfaces(b) : b \in Backends}
  BY DEF IInv, BackendIsUsable, MinuiTypeOK, Backends
<1>2. UNION {Surfaces(b) : b \in Backends}' = UNION {Surfaces(b) : b \in Backends}
  BY DEF Surfaces
<1> QED
  BY <1>1, <1>2 DEF IInv, BackendIsUsable, MinuiTypeOK, Backends, Surfaces

LEMMA AdfInv == IInv /\ OpenAdf => IInv'
<1> SUFFICES ASSUME IInv, OpenAdf PROVE IInv'
  OBVIOUS
<1>1. UNCHANGED <<percent, color, offset, font, works, round>> /\ minuiPc = "adf" /\ minuiPc' = "drm"
  BY DEF OpenAdf
<1>2. CASE backend' = "adf" /\ Try("adf")
  <2>1. "adf" \in Backends
    BY DEF Backends
  <2>2. MinuiTypeOK'
    BY <1>1, <1>2, <2>1, TryLeaves, OpenTypes
  <2> QED
    BY <1>1, <1>2, <2>1, <2>2, TryLeaves
    DEF IInv, RoundInv, BackendIsUsable, DrawsOnItsBackend, SurfaceIfAnyWorks
<1>3. CASE backend' = "none" /\ UNCHANGED <<draw, ready>>
  <2>1. ready \subseteq Backends
    BY DEF IInv, BackendIsUsable, MinuiTypeOK, Backends
  <2>2. MinuiTypeOK'
    BY <1>1, <1>3, <2>1, OpenTypes
  <2> QED
    BY <1>1, <1>3, <2>2 DEF IInv, RoundInv, BackendIsUsable, DrawsOnItsBackend, SurfaceIfAnyWorks
<1> QED
  BY <1>2, <1>3 DEF OpenAdf

LEMMA FallBackInv ==
  ASSUME IInv, OpenDrm \/ OpenFbdev
  PROVE  IInv'
<1>1. PICK b \in {"drm", "fbdev"}, next \in {"fbdev", "finish"} :
        /\ FallBack(b, next) /\ minuiPc = b
        /\ b = "drm" <=> next = "fbdev"
  BY DEF OpenDrm, OpenFbdev
<1>2. b \in Backends /\ b # "none"
  BY DEF Backends
<1>3. UNCHANGED <<percent, color, offset, font, works, round>> /\ minuiPc' = next
  BY <1>1 DEF FallBack
<1>4. CASE draw = Nothing
  <2>1. backend' = b /\ Try(b)
    BY <1>1, <1>4 DEF FallBack
  <2>2. MinuiTypeOK'
    BY <1>2, <1>3, <2>1, TryLeaves, OpenTypes
  <2>3. /\ draw' # Nothing => draw'.owner = b /\ b \in ready'
        /\ draw' = Nothing => b \notin works'
    BY <1>2, <1>3, <2>1, TryLeaves
  <2>4. b = "fbdev" => "drm" \notin works
    BY <1>1, <1>4 DEF IInv, RoundInv
  <2>5. round \in 1..2
    BY <1>1 DEF IInv, RoundInv
  <2>6. works' \subseteq Backends
    BY <1>3 DEF IInv, BackendIsUsable, MinuiTypeOK, Backends
  <2>7. RoundInv'
    BY <1>1, <1>2, <1>3, <2>1, <2>3, <2>4, <2>5 DEF RoundInv
  <2> QED
    BY <1>1, <1>3, <2>1, <2>2, <2>3, <2>6, <2>7
    DEF IInv, RoundInv, BackendIsUsable, DrawsOnItsBackend, SurfaceIfAnyWorks, Backends
<1>5. CASE draw # Nothing
  <2>1. UNCHANGED <<backend, draw, ready>>
    BY <1>1, <1>5 DEF FallBack
  <2>2. MinuiTypeOK'
    BY <1>3, <2>1, OpenTypes DEF IInv, BackendIsUsable, MinuiTypeOK, Backends
  <2> QED
    BY <1>1, <1>3, <1>5, <2>1, <2>2 DEF IInv, RoundInv, BackendIsUsable, DrawsOnItsBackend, SurfaceIfAnyWorks
<1> QED
  BY <1>4, <1>5

LEMMA FinishInv == IInv /\ FinishRound => IInv'
<1> SUFFICES ASSUME IInv, FinishRound PROVE IInv'
  OBVIOUS
<1>1. /\ minuiPc = "finish" /\ ~(draw # Nothing /\ backend = "none")
      /\ UNCHANGED <<percent, color, backend, ready, font, round>> /\ works' = {}
      /\ minuiPc' = IF round = 2 THEN "up" ELSE "second"
  BY DEF FinishRound
<1>2. MinuiTypeOK /\ round \in 1..2
  BY <1>1 DEF IInv, RoundInv, BackendIsUsable
<1>3. draw' = Flipped
  BY DEF FinishRound
<1>4. CASE draw = Nothing
  <2>1. draw' = Nothing /\ offset' = offset
    BY <1>3, <1>4 DEF Flipped, FinishRound
  <2>2. MinuiTypeOK'
    BY <1>1, <1>2, <2>1 DEF MinuiTypeOK
  <2> QED
    BY <1>1, <1>2, <2>1, <2>2 DEF IInv, RoundInv, BackendIsUsable, DrawsOnItsBackend, SurfaceIfAnyWorks
<1>5. CASE draw # Nothing
  <2>1. backend \in Backends /\ draw.owner = backend /\ backend \in ready
    BY <1>1, <1>2, <1>5 DEF IInv, RoundInv, MinuiTypeOK, Backends
  <2>2. draw' = draw
    BY <1>2, <1>3, <1>5, <2>1, SurfaceParts DEF Flipped
  <2>3. offset' \in [x : Nat, y : Nat]
    <3>1. draw.width \in Nat /\ draw.height \in Nat /\ percent \in Nat
      BY <1>2, <1>5, SurfaceParts, MinuiAssumption DEF MinuiTypeOK
    <3>2. (draw.width * percent) \in Nat /\ (draw.height * percent) \in Nat
      BY <3>1
    <3>3. \A n \in Nat : n \div 100 \in Nat
      OBVIOUS
    <3>4. offset' = [x |-> (draw.width * percent) \div 100, y |-> (draw.height * percent) \div 100]
      BY <1>5 DEF FinishRound
    <3> QED
      BY <3>2, <3>3, <3>4
  <2>4. MinuiTypeOK'
    BY <1>1, <1>2, <2>2, <2>3 DEF MinuiTypeOK, Surfaces
  <2> QED
    BY <1>1, <1>2, <1>5, <2>1, <2>2, <2>4 DEF IInv, RoundInv, BackendIsUsable, DrawsOnItsBackend, SurfaceIfAnyWorks
<1> QED
  BY <1>4, <1>5

\* A step that leaves the choice of the backend and does not come back to
\* gr_init.
LEMMA ChosenInv ==
  ASSUME IInv, UNCHANGED <<minuiPc, percent, choice>>, color' \in 0..255
  PROVE  IInv'
<1>1. UNCHANGED <<minuiPc, percent, backend, draw, ready, offset, font, works, round>>
  BY DEF choice
<1>2. MinuiTypeOK'
  BY <1>1 DEF IInv, BackendIsUsable, MinuiTypeOK, Surfaces
<1> QED
  BY <1>1, <1>2 DEF IInv, RoundInv, BackendIsUsable, DrawsOnItsBackend, SurfaceIfAnyWorks

\* The requests change neither the choice nor the colour.
LEMMA RequestKeeps ==
  ASSUME Fill \/ Blit \/ Icon \/ Text \/ Clear
  PROVE  UNCHANGED <<minuiPc, percent, color, choice>>
<1>1. Fill => UNCHANGED <<minuiPc, percent, color, choice>>
  BY DEF Fill, Request
<1>2. Blit => UNCHANGED <<minuiPc, percent, color, choice>>
  BY DEF Blit, Request
<1>3. Icon => UNCHANGED <<minuiPc, percent, color, choice>>
  BY DEF Icon, Request
<1>4. Text => UNCHANGED <<minuiPc, percent, color, choice>>
  BY DEF Text, Request
<1>5. Clear => UNCHANGED <<minuiPc, percent, color, choice>>
  BY DEF Clear, Request
<1> QED
  BY <1>1, <1>2, <1>3, <1>4, <1>5

LEMMA CrashInv == IInv /\ MinuiCrash => IInv'
<1> SUFFICES ASSUME IInv, MinuiCrash PROVE IInv'
  OBVIOUS
<1>1. UNCHANGED <<percent, color, backend, draw, ready, offset, font, works, round>> /\ minuiPc' = "crashed"
  BY DEF MinuiCrash, choice
<1>2. draw = Nothing \/ (backend = "none" /\ round = 2)
  BY DEF MinuiCrash, IInv, RoundInv
<1>3. MinuiTypeOK'
  BY <1>1 DEF IInv, BackendIsUsable, MinuiTypeOK, Surfaces
<1> QED
  BY <1>1, <1>2, <1>3 DEF IInv, RoundInv, BackendIsUsable, DrawsOnItsBackend, SurfaceIfAnyWorks

LEMMA ExitInv == IInv /\ MinuiExit => IInv'
<1> SUFFICES ASSUME IInv, MinuiExit PROVE IInv'
  OBVIOUS
<1>1. /\ UNCHANGED <<percent, color, backend, draw, offset, font, works, round>>
      /\ minuiPc' = "exited" /\ ready' \subseteq ready
  BY DEF MinuiExit
<1>2. MinuiTypeOK'
  BY <1>1 DEF IInv, BackendIsUsable, MinuiTypeOK, Surfaces
<1> QED
  BY <1>1, <1>2 DEF IInv, RoundInv, BackendIsUsable, DrawsOnItsBackend, SurfaceIfAnyWorks

LEMMA NextInv == IInv /\ [MinuiNext]_minuiVars => IInv'
<1> SUFFICES ASSUME IInv, [MinuiNext]_minuiVars PROVE IInv'
  OBVIOUS
<1>1. color \in 0..255
  BY DEF IInv, BackendIsUsable, MinuiTypeOK
<1>2. CASE BeginRound
  BY <1>2, BeginInv
<1>3. CASE OpenAdf
  BY <1>3, AdfInv
<1>4. CASE OpenDrm \/ OpenFbdev
  BY <1>4, FallBackInv
<1>5. CASE FinishRound
  BY <1>5, FinishInv
<1>6. CASE MinuiCrash
  BY <1>6, CrashInv
<1>7. CASE MinuiExit
  BY <1>7, ExitInv
<1>8. CASE Fill \/ Blit \/ Icon \/ Text \/ Clear
  BY <1>1, <1>8, RequestKeeps, ChosenInv
<1>9. CASE Color
  <2>1. color' \in 0..255 /\ UNCHANGED <<minuiPc, percent, choice>>
    BY <1>9, MinuiAssumption DEF Color
  <2> QED
    BY <2>1, ChosenInv
<1>10. CASE Flip
  <2>1. color' \in 0..255 /\ UNCHANGED <<minuiPc, percent, choice>>
    BY <1>10 DEF Flip
  <2> QED
    BY <2>1, ChosenInv
<1>11. CASE UNCHANGED minuiVars
  BY <1>1, <1>11, ChosenInv DEF minuiVars
<1> QED
  BY <1>2, <1>3, <1>4, <1>5, <1>6, <1>7, <1>8, <1>9, <1>10, <1>11 DEF MinuiNext

\* The invariant of the rounds of gr_init (graphics.cpp:353-392).
THEOREM Invariance == MinuiSpec => []IInv
  BY InitInv, NextInv, PTL DEF MinuiSpec

\* Whichever backends fail in each round of gr_init, the surface drawn on
\* belongs to the backend that shows it (graphics.cpp:353-392).
THEOREM BackendUsable == MinuiSpec => []BackendIsUsable
<1>1. IInv => BackendIsUsable
  BY DEF IInv
<1> QED
  BY <1>1, Invariance, PTL
-----------------------------------------------------------------------------
\* The pixels between two corners that outside accepts are on the surface.
LEMMA BoxInside ==
  ASSUME MinuiTypeOK, draw # Nothing, NEW x1 \in Int, NEW y1 \in Int, NEW x2 \in Int, NEW y2 \in Int,
         ~Outside(x1, y1), ~Outside(x2 - 1, y2 - 1)
  PROVE  Box(x1, y1, x2, y2) \subseteq Box(0, 0, draw.width, draw.height)
<1>1. draw.width \in Nat /\ draw.height \in Nat
  BY SurfaceParts, MinuiAssumption
<1>2. /\ 0 <= x1 /\ 0 <= y1
      /\ x2 <= draw.width /\ y2 <= draw.height
  BY <1>1 DEF Outside
<1>3. x1..(x2 - 1) \subseteq 0..(draw.width - 1) /\ y1..(y2 - 1) \subseteq 0..(draw.height - 1)
  BY <1>1, <1>2
<1> QED
  BY <1>3 DEF Box

LEMMA OffsetTypes ==
  ASSUME MinuiTypeOK
  PROVE  offset.x \in Int /\ offset.y \in Int /\ font.cwidth \in Int
  BY DEF MinuiTypeOK

\* gr_fill.
LEMMA FillInside ==
  ASSUME MinuiTypeOK, draw # Nothing, NEW x1 \in Int, NEW y1 \in Int, NEW x2 \in Int, NEW y2 \in Int
  PROVE  GrFill(x1, y1, x2, y2) \subseteq Box(0, 0, draw.width, draw.height)
<1>1. /\ x1 + offset.x \in Int /\ x2 + offset.x \in Int
      /\ y1 + offset.y \in Int /\ y2 + offset.y \in Int
  BY OffsetTypes
<1> QED
  BY <1>1, BoxInside DEF GrFill

\* gr_blit, and gr_texticon, which draws as it does.
LEMMA BlitInside ==
  ASSUME MinuiTypeOK, draw # Nothing, NEW w \in Int, NEW h \in Int, NEW x \in Int, NEW y \in Int
  PROVE  /\ GrBlit(w, h, x, y) \subseteq Box(0, 0, draw.width, draw.height)
         /\ GrTexticon(x, y, w, h) \subseteq Box(0, 0, draw.width, draw.height)
<1>1. /\ x + offset.x \in Int /\ x + offset.x + w \in Int
      /\ y + offset.y \in Int /\ y + offset.y + h \in Int
  BY OffsetTypes
<1> DEFINE X == x + offset.x
           Y == y + offset.y
<1>2. X \in Int /\ Y \in Int /\ X + w \in Int /\ Y + h \in Int
  BY <1>1
<1>3. GrBlit(w, h, x, y) = IF Outside(X, Y) \/ Outside(X + w - 1, Y + h - 1) THEN {} ELSE Box(X, Y, X + w, Y + h)
  BY DEF GrBlit
<1> HIDE DEF X, Y
<1>4. GrBlit(w, h, x, y) \subseteq Box(0, 0, draw.width, draw.height)
  <2>1. CASE Outside(X, Y) \/ Outside(X + w - 1, Y + h - 1)
    BY <1>3, <2>1
  <2>2. CASE ~Outside(X, Y) /\ ~Outside(X + w - 1, Y + h - 1)
    <3>1. Box(X, Y, X + w, Y + h) \subseteq Box(0, 0, draw.width, draw.height)
      BY <1>2, <2>2, BoxInside
    <3> QED
      BY <1>3, <2>2, <3>1
  <2> QED
    BY <2>1, <2>2
<1> QED
  BY <1>4 DEF GrTexticon

\* gr_text: each character that is drawn lies between two corners that were
\* looked at.
LEMMA TextInside ==
  ASSUME MinuiTypeOK, draw # Nothing, NEW x \in Int, NEW y \in Int, NEW s \in Seq(Int)
  PROVE  GrText(x, y, s) \subseteq Box(0, 0, draw.width, draw.height)
<1> SUFFICES ASSUME NEW i \in Drawn(x, y, s)
             PROVE  Box(x + offset.x + (i - 1) * font.cwidth, y + offset.y,
                        x + offset.x + i * font.cwidth, y + offset.y + GlyphHeight)
                    \subseteq Box(0, 0, draw.width, draw.height)
  BY DEF GrText
<1> DEFINE X == x + offset.x + (i - 1) * font.cwidth
           Y == y + offset.y
<1>1. i \in 1..Len(s) /\ i \in Int
  BY DEF Drawn
<1>2. Fits(X, Y)
  BY <1>1 DEF Drawn
<1>3. X \in Int /\ Y \in Int /\ font.cwidth \in Int /\ GlyphHeight \in Int
  BY <1>1, OffsetTypes, MinuiAssumption, SMTT(30)
<1>4. x + offset.x + i * font.cwidth = X + font.cwidth
  <2>1. PICK l \in Int : l = font.cwidth
    BY <1>3
  <2>2. PICK m \in Int : m = (i - 1) * l
    <3>1. (i - 1) * l \in Int
      BY <1>1
    <3> QED
      BY <3>1
  <2>3. i * l = m + l
    BY <1>1, <2>2
  <2>4. X = x + offset.x + m
    BY <2>1, <2>2
  <2> QED
    BY <2>1, <2>3, <2>4, OffsetTypes
<1> HIDE DEF X, Y
<1>5. Box(X, Y, X + font.cwidth, Y + GlyphHeight) \subseteq Box(0, 0, draw.width, draw.height)
  BY <1>2, <1>3, BoxInside DEF Fits
<1> QED
  BY <1>4, <1>5 DEF X, Y

\* Nothing is painted before gr_init has ended, nor outside the surface.
PaintInv ==
  /\ minuiPc \notin {"up", "exited"} => painted = {}
  /\ PaintsInside

\* A request is made when there is a surface, with coordinates that are numbers.
LEMMA RequestPaints ==
  ASSUME IInv, Fill \/ Blit \/ Icon \/ Text \/ Clear
  PROVE  painted' \subseteq Box(0, 0, draw.width, draw.height)
<1>1. MinuiTypeOK /\ draw # Nothing
  BY DEF IInv, BackendIsUsable, Fill, Blit, Icon, Text, Clear, Ready
<1>2. Xs \subseteq Int /\ Ys \subseteq Int
  BY DEF Xs, Ys
<1>3. CASE Fill
  BY <1>1, <1>2, <1>3, FillInside DEF Fill, Request
<1>4. CASE Blit
  BY <1>1, <1>2, <1>4, BlitInside DEF Blit, Request
<1>5. CASE Icon
  BY <1>1, <1>2, <1>5, BlitInside DEF Icon, Request
<1>6. CASE Text
  <2>1. PICK x \in Xs, y \in Ys, s \in UNION {[1..n -> MinuiCharacters] : n \in 1..2} : painted' = GrText(x, y, s)
    BY <1>6 DEF Text, Request
  <2>2. s \in Seq(Int)
    <3>1. PICK n \in 1..2 : s \in [1..n -> MinuiCharacters]
      OBVIOUS
    <3>2. s \in [1..n -> Int]
      BY <3>1 DEF MinuiCharacters
    <3> QED
      BY <3>2
  <2> QED
    BY <1>1, <1>2, <2>1, <2>2, TextInside
<1>7. CASE Clear
  BY <1>7 DEF Clear, Request
<1> QED
  BY <1>3, <1>4, <1>5, <1>6, <1>7

LEMMA PaintStep == IInv /\ PaintInv /\ [MinuiNext]_minuiVars => PaintInv'
<1> SUFFICES ASSUME IInv, PaintInv, [MinuiNext]_minuiVars PROVE PaintInv'
  OBVIOUS
<1>1. CASE BeginRound \/ OpenAdf \/ OpenDrm \/ OpenFbdev \/ FinishRound
  <2>1. painted' = painted /\ minuiPc \notin {"up", "exited"}
    BY <1>1 DEF BeginRound, OpenAdf, OpenDrm, OpenFbdev, FallBack, FinishRound, drawing
  <2> QED
    BY <2>1 DEF PaintInv, PaintsInside
<1>2. CASE MinuiCrash
  <2>1. painted' = painted /\ draw' = draw /\ (minuiPc = "finish" \/ draw = Nothing) /\ minuiPc' = "crashed"
    BY <1>2 DEF MinuiCrash, choice, drawing
  <2>2. draw = Nothing => painted = {}
    <3>1. Box(0, 0, Nothing.width, Nothing.height) = {}
      BY DEF Box, Nothing
    <3> QED
      BY <3>1 DEF PaintInv, PaintsInside
  <2>3. painted' = {}
    BY <2>1, <2>2, <1>2 DEF PaintInv, MinuiCrash
  <2> QED
    BY <2>3 DEF PaintInv, PaintsInside
<1>3. CASE MinuiExit
  BY <1>3 DEF MinuiExit, PaintInv, PaintsInside, drawing, Box
<1>4. CASE Fill \/ Blit \/ Icon \/ Text \/ Clear
  <2>1. draw' = draw /\ minuiPc' = minuiPc /\ minuiPc = "up"
    BY <1>4, RequestKeeps DEF choice, Fill, Blit, Icon, Text, Clear, Ready
  <2> QED
    BY <1>4, <2>1, RequestPaints DEF PaintInv, PaintsInside, Box
<1>5. CASE Color
  BY <1>5 DEF Color, choice, PaintInv, PaintsInside, Box
<1>6. CASE Flip
  BY <1>6 DEF Flip, PaintInv, PaintsInside
<1>7. CASE UNCHANGED minuiVars
  BY <1>7 DEF minuiVars, choice, drawing, PaintInv, PaintsInside, Box
<1> QED
  BY <1>1, <1>2, <1>3, <1>4, <1>5, <1>6, <1>7 DEF MinuiNext

\* No rectangle, icon or text is painted outside the surface (graphics.cpp:58),
\* wherever it is asked for.
THEOREM NothingOutside == MinuiSpec => []PaintsInside
<1>1. MinuiInit => PaintInv
  BY DEF MinuiInit, PaintInv, PaintsInside
<1>2. PaintInv => PaintsInside
  BY DEF PaintInv
<1> QED
  BY <1>1, <1>2, Invariance, PaintStep, PTL DEF MinuiSpec

-----------------------------------------------------------------------------
(* What minui draws *)

\* The overscan margin of the surface that is shown.
Margin == [x |-> (draw.width * percent) \div 100, y |-> (draw.height * percent) \div 100]

\* A request is made when gr_init has ended and measured the margin, and none is
\* made while the last one is not shown; the image has room for 96 characters.
RequestInv ==
  /\ request # NoRequest => minuiPc = "up" /\ draw # Nothing
  /\ request = NoRequest => painted = {} /\ read = {} /\ blended = NoBlend
  /\ minuiPc = "up" /\ draw # Nothing => offset = Margin
  /\ font.cwidth >= 1 /\ 96 * font.cwidth <= font.width

\* DrawingIsRight without PaintsInside.
DrawnInv == AreaIsDrawn /\ MarginIsFree /\ GlyphsAreInImage /\ BlendIsBetween /\ TextFillsAlike

\* Two corners within the area that gr_fb_width and gr_fb_height promise.
Within(x1, y1, x2, y2) ==
  0 <= x1 /\ x1 < x2 /\ x2 <= GrFbWidth /\ 0 <= y1 /\ y1 < y2 /\ y2 <= GrFbHeight

\* The corners with the margin are on the surface.
LEMMA CornersInside ==
  ASSUME MinuiTypeOK, draw # Nothing, NEW x1 \in Int, NEW y1 \in Int, NEW x2 \in Int, NEW y2 \in Int,
         Within(x1, y1, x2, y2),
         NEW X1 \in Int, NEW Y1 \in Int, NEW X2 \in Int, NEW Y2 \in Int,
         X1 = x1 + offset.x, Y1 = y1 + offset.y, X2 = (x2 + offset.x) - 1, Y2 = (y2 + offset.y) - 1
  PROVE  ~Outside(X1, Y1) /\ ~Outside(X2, Y2)
<1>1. draw.width \in Nat /\ draw.height \in Nat
  BY SurfaceParts, MinuiAssumption
<1>2. offset.x \in Nat /\ offset.y \in Nat
  BY DEF MinuiTypeOK
<1> QED
  BY <1>1, <1>2 DEF Within, GrFbWidth, GrFbHeight, Outside

\* gr_fill draws such a rectangle.
LEMMA FillIsBox ==
  ASSUME MinuiTypeOK, draw # Nothing, NEW x1 \in Int, NEW y1 \in Int, NEW x2 \in Int, NEW y2 \in Int,
         Within(x1, y1, x2, y2)
  PROVE  GrFill(x1, y1, x2, y2) =
           IF color = 0 THEN {} ELSE Box(x1 + offset.x, y1 + offset.y, x2 + offset.x, y2 + offset.y)
<1>1. offset.x \in Int /\ offset.y \in Int
  BY OffsetTypes
<1>2. PICK X1 \in Int, Y1 \in Int, X2 \in Int, Y2 \in Int :
        X1 = x1 + offset.x /\ Y1 = y1 + offset.y /\ X2 = (x2 + offset.x) - 1 /\ Y2 = (y2 + offset.y) - 1
  BY <1>1, SMTT(30)
<1>3. ~Outside(X1, Y1) /\ ~Outside(X2, Y2)
  BY <1>2, CornersInside
<1>4. GrFill(x1, y1, x2, y2) =
        IF Outside(X1, Y1) \/ Outside(X2, Y2) \/ color = 0 THEN {}
        ELSE Box(x1 + offset.x, y1 + offset.y, x2 + offset.x, y2 + offset.y)
  <2>1. GrFill(x1, y1, x2, y2) =
          IF Outside(x1 + offset.x, y1 + offset.y) \/ Outside((x2 + offset.x) - 1, (y2 + offset.y) - 1) \/ color = 0 THEN {}
          ELSE Box(x1 + offset.x, y1 + offset.y, x2 + offset.x, y2 + offset.y)
    BY DEF GrFill
  <2> QED
    BY <1>2, <2>1, Zenon
<1> QED
  BY <1>3, <1>4, Zenon

\* gr_blit and gr_texticon too.
LEMMA BlitIsBox ==
  ASSUME MinuiTypeOK, draw # Nothing, NEW x \in Int, NEW y \in Int, NEW w \in Int, NEW h \in Int,
         Within(x, y, x + w, y + h)
  PROVE  GrBlit(w, h, x, y) = Box(x + offset.x, y + offset.y, (x + w) + offset.x, (y + h) + offset.y)
<1>1. offset.x \in Int /\ offset.y \in Int
  BY OffsetTypes
<1>2. PICK X \in Int, Y \in Int, X2 \in Int, Y2 \in Int :
        X = x + offset.x /\ Y = y + offset.y
        /\ X2 = ((x + w) + offset.x) - 1 /\ Y2 = ((y + h) + offset.y) - 1
  BY <1>1
<1>3. ~Outside(X, Y) /\ ~Outside(X2, Y2)
  <2>1. PICK x2 \in Int, y2 \in Int : x2 = x + w /\ y2 = y + h
    OBVIOUS
  <2>2. Within(x, y, x2, y2) /\ X2 = (x2 + offset.x) - 1 /\ Y2 = (y2 + offset.y) - 1
    BY <1>2, <2>1
  <2> QED
    BY <1>2, <2>2, CornersInside, ZenonT(60)
<1>4. X + w - 1 = X2 /\ Y + h - 1 = Y2 /\ X + w = (x + w) + offset.x /\ Y + h = (y + h) + offset.y
  BY <1>1, <1>2
<1>5. GrBlit(w, h, x, y) = IF Outside(X, Y) \/ Outside(X + w - 1, Y + h - 1) THEN {} ELSE Box(X, Y, X + w, Y + h)
  BY <1>2 DEF GrBlit
<1> QED
  BY <1>2, <1>3, <1>4, <1>5

\* Which character of a text a column belongs to.
LEMMA ColumnOf ==
  ASSUME NEW l \in Nat, l >= 1, NEW n \in Nat, NEW d \in 0..(n * l - 1)
  PROVE  \E i \in 1..n : (i - 1) * l <= d /\ d < i * l
<1> DEFINE q == d \div l
           r == d % l
<1>1. l \in Nat \ {0} /\ d \in Nat /\ n * l \in Nat
  OBVIOUS
<1>2. q \in Nat /\ r \in 0..(l - 1) /\ d = q * l + r
  BY <1>1
<1>3. q * l \in Nat /\ (q + 1) * l = q * l + l /\ ((q + 1) - 1) * l = q * l
  BY <1>2
<1>4. q + 1 <= n
  <2> SUFFICES ASSUME n <= q PROVE FALSE
    BY <1>2
  <2>1. n * l <= q * l
    BY <1>2, TimesGrows
  <2> QED
    BY <1>1, <1>2, <1>3, <2>1
<1>5. q + 1 \in 1..n /\ ((q + 1) - 1) * l <= d /\ d < (q + 1) * l
  BY <1>1, <1>2, <1>3, <1>4
<1> HIDE DEF q, r
<1> QED
  BY <1>5

\* Boxes of the same width side by side are one box.
Cells(n, l, X, Y, g) == UNION {Box(X + (i - 1) * l, Y, X + i * l, Y + g) : i \in 1..n}
Tiles(n, l, X, Y, g) == Cells(n, l, X, Y, g) = Box(X, Y, X + n * l, Y + g)

LEMMA SideBySide ==
  ASSUME NEW n \in Nat, NEW l \in Nat, l >= 1, NEW X \in Int, NEW Y \in Int, NEW g \in Nat
  PROVE  Tiles(n, l, X, Y, g)
<1>1. PICK m \in Nat : m = n * l
  <2>1. n * l \in Nat
    OBVIOUS
  <2> QED
    BY <2>1
<1>2. ASSUME NEW i \in 1..n PROVE \E a \in Nat, b \in Nat : a = (i - 1) * l /\ b = i * l /\ b <= m
  <2>1. i - 1 \in Nat /\ i \in Nat /\ i <= n
    OBVIOUS
  <2>2. (i - 1) * l \in Nat /\ i * l \in Nat
    BY <2>1
  <2>3. i * l <= n * l
    BY <2>1, TimesGrows
  <2> QED
    BY <1>1, <2>2, <2>3
<1>3. ASSUME NEW i \in 1..n PROVE Box(X + (i - 1) * l, Y, X + i * l, Y + g) \subseteq Box(X, Y, X + m, Y + g)
  <2>1. PICK a \in Nat, b \in Nat : a = (i - 1) * l /\ b = i * l /\ b <= m
    BY <1>2
  <2>2. b <= m
    BY <2>1
  <2>3. (X + a)..(X + b - 1) \subseteq X..(X + m - 1)
    BY <2>2
  <2>4. Box(X + a, Y, X + b, Y + g) \subseteq Box(X, Y, X + m, Y + g)
    BY <2>3 DEF Box
  <2> QED
    BY <2>1, <2>4
<1>4. ASSUME NEW p \in Box(X, Y, X + m, Y + g) PROVE \E i \in 1..n : p \in Box(X + (i - 1) * l, Y, X + i * l, Y + g)
  <2>1. PICK c \in X..(X + m - 1), d \in Y..(Y + g - 1) : p = <<c, d>>
    BY DEF Box
  <2>2. c - X \in 0..(m - 1) /\ c = X + (c - X)
    OBVIOUS
  <2>3. PICK e \in 0..(m - 1) : c = X + e
    BY <2>2
  <2>4. PICK i \in 1..n : (i - 1) * l <= e /\ e < i * l
    <3>1. e \in 0..(n * l - 1)
      BY <1>1
    <3> QED
      BY <3>1, ColumnOf
  <2>5. PICK a \in Nat, b \in Nat : a = (i - 1) * l /\ b = i * l /\ b <= m
    BY <1>2
  <2>6. a <= e /\ e < b
    BY <2>4, <2>5
  <2>7. c \in (X + a)..(X + b - 1)
    BY <2>3, <2>6
  <2>8. p \in Box(X + a, Y, X + b, Y + g)
    BY <2>1, <2>7 DEF Box
  <2> QED
    BY <2>5, <2>8
<1> QED
  BY <1>1, <1>3, <1>4, Zenon DEF Cells, Tiles

\* Every character of a text within the area fits, and the characters together
\* are the rectangle.
LEMMA TextIsBox ==
  ASSUME MinuiTypeOK, RequestInv, draw # Nothing, NEW x \in Int, NEW y \in Int, NEW s \in Seq(Int),
         Within(x, y, x + Len(s) * font.cwidth, y + GlyphHeight)
  PROVE  GrText(x, y, s) =
           IF color = 0 THEN {}
           ELSE Box(x + offset.x, y + offset.y, (x + Len(s) * font.cwidth) + offset.x, (y + GlyphHeight) + offset.y)
<1>1. CASE color = 0
  BY <1>1 DEF GrText, Drawn
<1>2. CASE color # 0
  <2>1. PICK n \in Nat, l \in Nat, g \in Nat : n = Len(s) /\ l = font.cwidth /\ l >= 1 /\ g = GlyphHeight /\ g >= 1
    BY OffsetTypes, MinuiAssumption DEF MinuiTypeOK, RequestInv
  <2>2. PICK X \in Int, Y \in Int : X = x + offset.x /\ Y = y + offset.y
    BY OffsetTypes
  <2>3. PICK W \in Nat, H \in Nat : W = draw.width /\ H = draw.height
    BY SurfaceParts, MinuiAssumption
  <2>4. PICK m \in Nat : m = n * l
    <3>1. n * l \in Nat
      OBVIOUS
    <3> QED
      BY <3>1
  <2>5. 0 <= X /\ X + m <= W /\ 0 <= Y /\ Y + g <= H
    <3>1. PICK ox \in Nat, oy \in Nat : ox = offset.x /\ oy = offset.y
      BY DEF MinuiTypeOK
    <3>2. 0 <= x /\ x + m <= W - 2 * ox /\ 0 <= y /\ y + g <= H - 2 * oy
      BY <2>1, <2>3, <2>4, <3>1 DEF Within, GrFbWidth, GrFbHeight
    <3>3. X = x + ox /\ Y = y + oy
      BY <2>2, <3>1
    <3> QED
      BY <3>2, <3>3
  <2>6. ASSUME NEW k \in 1..n PROVE Fits(X + (k - 1) * l, Y)
    <3>1. k - 1 \in Nat /\ k \in Nat /\ k <= n
      OBVIOUS
    <3>2. PICK a \in Nat : a = (k - 1) * l
      <4>1. (k - 1) * l \in Nat
        BY <3>1
      <4> QED
        BY <4>1
    <3>3. a + l <= m
      <4>1. k * l <= n * l
        BY <3>1, TimesGrows
      <4>2. k * l = (k - 1) * l + l
        BY <3>1
      <4> QED
        BY <2>4, <3>2, <4>1, <4>2
    <3>4. l >= 1 /\ g >= 1
      BY <2>1
    <3>5. /\ 0 <= X + a /\ X + a + l - 1 < W /\ 0 <= X + a + l - 1 /\ X + a < W
          /\ 0 <= Y /\ Y + g - 1 < H /\ 0 <= Y + g - 1 /\ Y < H
      BY <2>5, <3>3, <3>4
    <3>6. ~Outside(X + a, Y) /\ ~Outside(X + a + l - 1, Y + g - 1)
      BY <2>3, <3>5 DEF Outside
    <3>7. Fits(X + a, Y)
      BY <2>1, <3>6 DEF Fits
    <3> QED
      BY <3>2, <3>7
  <2>7. Drawn(x, y, s) = 1..n
    BY <1>2, <2>1, <2>2, <2>6 DEF Drawn
  <2>8. GrText(x, y, s) = Cells(n, l, X, Y, g)
    BY <2>1, <2>2, <2>7 DEF GrText, Cells
  <2>9. GrText(x, y, s) = Box(X, Y, X + n * l, Y + g)
    <3>1. n \in Nat /\ l \in Nat /\ l >= 1 /\ X \in Int /\ Y \in Int /\ g \in Nat
      BY <2>1
    <3>2. Tiles(n, l, X, Y, g)
      BY <3>1, SideBySide, Zenon
    <3> QED
      BY <2>8, <3>2, Zenon DEF Tiles
  <2>10. X + n * l = (x + n * l) + offset.x /\ Y + g = (y + g) + offset.y
    <3>1. PICK ox \in Int, oy \in Int : ox = offset.x /\ oy = offset.y
      BY OffsetTypes
    <3>2. X = x + ox /\ Y = y + oy
      BY <2>2, <3>1
    <3>3. X + m = (x + m) + ox /\ Y + g = (y + g) + oy
      BY <3>2
    <3> QED
      BY <2>4, <3>1, <3>3
  <2> QED
    BY <1>2, <2>1, <2>2, <2>9, <2>10
<1> QED
  BY <1>1, <1>2

\* text_blend reads the columns of a character of the 96, of a row that the
\* image has.
LEMMA GlyphsRead ==
  ASSUME MinuiTypeOK, RequestInv, NEW x, NEW y, NEW s \in Seq(Int), NEW bold \in BOOLEAN,
         NEW r \in TextReads(x, y, s, bold)
  PROVE  r.from >= 0 /\ r.to <= font.width /\ r.rows <= (IF font.bold THEN 2 ELSE 1) * GlyphHeight
<1>1. PICK i \in Drawn(x, y, s) :
        r = [from |-> Column(s[i]) * font.cwidth, to |-> (Column(s[i]) + 1) * font.cwidth,
             rows |-> IF bold /\ font.bold THEN 2 * GlyphHeight ELSE GlyphHeight]
  BY DEF TextReads
<1>2. s[i] \in Int
  BY DEF Drawn
<1>3. PICK c \in 0..94 : c = Column(s[i])
  <2>1. PICK a \in Int : a = s[i]
    BY <1>2
  <2>2. Column(a) \in 0..94
    BY DEF Column
  <2> QED
    BY <2>1, <2>2
<1>4. PICK l \in Nat, w \in Nat, g \in Nat : l = font.cwidth /\ w = font.width /\ 96 * l <= w /\ g = GlyphHeight
  BY MinuiAssumption DEF MinuiTypeOK, RequestInv
<1>5. c * l \in Nat /\ (c + 1) * l <= 96 * l
  <2>1. c * l \in Nat
    OBVIOUS
  <2>2. PICK e \in Nat : e = c + 1 /\ e <= 96
    OBVIOUS
  <2>3. e * l <= 96 * l
    BY <2>2, TimesGrows
  <2> QED
    BY <2>1, <2>2, <2>3
<1>6. (c + 1) * l <= w
  BY <1>4, <1>5
<1>7. r.rows <= (IF font.bold THEN 2 ELSE 1) * GlyphHeight
  BY <1>1, <1>4
<1> QED
  BY <1>1, <1>3, <1>4, <1>5, <1>6, <1>7

\* A byte between what was there and the colour.
Between(u, b, c) == (u <= b /\ b <= c) \/ (c <= b /\ b <= u)

\* The division by 255 of a weighted sum.
Mix(u, c, a) == (u * (255 - a) + c * a) \div 255

\* It lies between the two that are mixed.
LEMMA Weighted ==
  ASSUME NEW u \in 0..255, NEW c \in 0..255, NEW a \in 0..255
  PROVE  Between(u, Mix(u, c, a), c)
<1> DEFINE m == u * (255 - a) + c * a
           b == m \div 255
<1>1. m = 255 * u + (c - u) * a /\ m = 255 * c + (u - c) * (255 - a)
  OBVIOUS
<1>2. CASE u <= c
  <2>1. (c - u) * a \in Nat /\ (c - u) * (255 - a) \in Nat /\ (u - c) * (255 - a) = -((c - u) * (255 - a))
    BY <1>2
  <2>2. 255 * u <= m /\ m <= 255 * c /\ m \in Nat
    BY <1>1, <2>1
  <2> HIDE DEF m
  <2>3. u <= b /\ b <= c
    BY <2>2
  <2> QED
    BY <2>3, Zenon DEF m, Between, Mix
<1>3. CASE c <= u
  <2>1. (u - c) * a \in Nat /\ (u - c) * (255 - a) \in Nat /\ (c - u) * a = -((u - c) * a)
    BY <1>3
  <2>2. 255 * c <= m /\ m <= 255 * u /\ m \in Nat
    BY <1>1, <2>1
  <2> HIDE DEF m
  <2>3. c <= b /\ b <= u
    BY <2>2
  <2> QED
    BY <2>3, Zenon DEF m, Between, Mix
<1> QED
  BY <1>2, <1>3

\* The three bytes of Color.
LEMMA BlendedRight ==
  ASSUME NEW u \in 0..255, NEW c \in 0..255, NEW v \in 0..255, NEW a \in 0..255
  PROVE  Between(u, TextByte(u, c, v, a), c)
<1>1. ASSUME NEW k \in 0..255 PROVE Between(u, FillByte(u, c, k), c)
  <2>1. CASE k = 255 \/ k = 0
    BY <2>1 DEF FillByte, Between
  <2>2. CASE k # 255 /\ k # 0
    <3>1. FillByte(u, c, k) = Mix(u, c, k)
      BY <2>2 DEF FillByte, Mix
    <3>2. Between(u, Mix(u, c, k), c)
      BY Weighted
    <3> QED
      BY <3>1, <3>2, Zenon
  <2> QED
    BY <2>1, <2>2
<1>2. PICK k \in 0..255 : k = (IF a < 255 THEN (v * a) \div 255 ELSE v)
  <2>1. CASE a = 255
    BY <2>1
  <2>2. CASE a < 255
    <3>1. PICK m \in Nat : m = v * a
      <4>1. v * a \in Nat
        OBVIOUS
      <4> QED
        BY <4>1
    <3>2. m <= 255 * a
      BY <3>1, TimesGrows
    <3>3. m \div 255 \in 0..255
      BY <3>2
    <3> QED
      BY <2>2, <3>1, <3>3
  <2> QED
    BY <2>1, <2>2
<1>3. TextByte(u, c, v, a) = FillByte(u, c, k)
  BY <1>2, Zenon DEF TextByte
<1> QED
  BY <1>1, <1>2, <1>3, Zenon

\* What the image covers wholly is filled like a rectangle.
LEMMA CoveredIsFilled ==
  ASSUME NEW u, NEW c, NEW a \in 0..255
  PROVE  TextByte(u, c, 255, a) = FillByte(u, c, a)
<1>1. (IF a < 255 THEN (255 * a) \div 255 ELSE 255) = a
  OBVIOUS
<1> QED
  BY <1>1, Zenon DEF TextByte

-----------------------------------------------------------------------------
\* A step that shows the last request, or goes on in gr_init without one.
LEMMA Quiet ==
  ASSUME request' = NoRequest, painted' = {}, read' = {}, blended' = NoBlend
  PROVE  DrawnInv'
<1>1. request'.op = "none"
  BY DEF NoRequest
<1>2. AreaIsDrawn' /\ MarginIsFree' /\ TextFillsAlike'
  BY <1>1 DEF AreaIsDrawn, MarginIsFree, TextFillsAlike
<1>3. GlyphsAreInImage' /\ BlendIsBetween'
  BY DEF GlyphsAreInImage, BlendIsBetween, NoBlend
<1> QED
  BY <1>2, <1>3 DEF DrawnInv

\* A step that changes nothing these properties look at.
LEMMA Unseen ==
  ASSUME DrawnInv, UNCHANGED <<percent, draw, offset, font, color, drawing>>
  PROVE  DrawnInv'
<1>1. UNCHANGED <<request, painted, read, blended>>
  BY DEF drawing
<1>2. AreaIsDrawn'
  BY <1>1 DEF DrawnInv, AreaIsDrawn, InArea, GrFbWidth, GrFbHeight, Box
<1>3. MarginIsFree'
  BY <1>1 DEF DrawnInv, MarginIsFree, InArea, GrFbWidth, GrFbHeight
<1>4. GlyphsAreInImage' /\ BlendIsBetween'
  BY <1>1 DEF DrawnInv, GlyphsAreInImage, BlendIsBetween
<1>5. TextFillsAlike'
  BY <1>1 DEF DrawnInv, TextFillsAlike, FillByte
<1> QED
  BY <1>2, <1>3, <1>4, <1>5 DEF DrawnInv

\* The rectangle of a request with the margin of the surface around it.
LEMMA BoxInMargin ==
  ASSUME IInv, RequestInv, minuiPc = "up", draw # Nothing,
         NEW x1 \in Int, NEW y1 \in Int, NEW x2 \in Int, NEW y2 \in Int, Within(x1, y1, x2, y2),
         NEW p \in Box(x1 + offset.x, y1 + offset.y, x2 + offset.x, y2 + offset.y)
  PROVE  /\ p[1] >= (draw.width * percent) \div 100 /\ p[1] < draw.width - (draw.width * percent) \div 100
         /\ p[2] >= (draw.height * percent) \div 100 /\ p[2] < draw.height - (draw.height * percent) \div 100
<1>1. PICK ox \in Nat, oy \in Nat : ox = offset.x /\ oy = offset.y
  BY DEF IInv, BackendIsUsable, MinuiTypeOK
<1>2. ox = (draw.width * percent) \div 100 /\ oy = (draw.height * percent) \div 100
  BY <1>1 DEF RequestInv, Margin
<1>3. PICK W \in Nat, H \in Nat : W = draw.width /\ H = draw.height
  BY SurfaceParts, MinuiAssumption DEF IInv, BackendIsUsable
<1>4. 0 <= x1 /\ x2 <= W - 2 * ox /\ 0 <= y1 /\ y2 <= H - 2 * oy
  BY <1>1, <1>3 DEF Within, GrFbWidth, GrFbHeight
<1>5. PICK c \in (x1 + ox)..(x2 + ox - 1), d \in (y1 + oy)..(y2 + oy - 1) : p = <<c, d>>
  BY <1>1 DEF Box
<1>6. p[1] = c /\ p[2] = d
  BY <1>5
<1>7. c >= ox /\ c < W - ox /\ d >= oy /\ d < H - oy
  BY <1>4
<1> QED
  BY <1>2, <1>3, <1>6, <1>7

\* A rectangle or a text that was asked for, whatever it is.
LEMMA Asked ==
  ASSUME IInv, RequestInv, Ready, UNCHANGED <<minuiPc, percent, color, choice, blended>>,
         request'.op \in {"fill", "blit", "icon", "text"},
         NEW x1 \in Int, NEW y1 \in Int, NEW x2 \in Int, NEW y2 \in Int,
         request'.x1 = x1, request'.y1 = y1, request'.x2 = x2, request'.y2 = y2,
         Within(x1, y1, x2, y2) =>
           painted' = IF color = 0 /\ request'.op # "blit" THEN {}
                      ELSE Box(x1 + offset.x, y1 + offset.y, x2 + offset.x, y2 + offset.y)
  PROVE  AreaIsDrawn' /\ MarginIsFree' /\ BlendIsBetween' /\ TextFillsAlike'
<1>1. UNCHANGED <<percent, draw, offset, font, color, blended>>
  BY DEF choice
<1>2. InArea(request)' = Within(x1, y1, x2, y2)
  BY <1>1 DEF InArea, Within, GrFbWidth, GrFbHeight
<1>3. blended = NoBlend
  BY DEF Ready, RequestInv
<1>4. BlendIsBetween'
  BY <1>1, <1>3 DEF BlendIsBetween, NoBlend
<1>5. TextFillsAlike'
  BY DEF TextFillsAlike
<1>6. AreaIsDrawn'
  BY <1>1, <1>2 DEF AreaIsDrawn, Box
<1>7. MarginIsFree'
  <2> SUFFICES ASSUME Within(x1, y1, x2, y2), NEW p \in painted'
               PROVE  /\ p[1] >= (draw.width * percent) \div 100 /\ p[1] < draw.width - (draw.width * percent) \div 100
                      /\ p[2] >= (draw.height * percent) \div 100 /\ p[2] < draw.height - (draw.height * percent) \div 100
    BY <1>1, <1>2 DEF MarginIsFree
  <2>1. p \in Box(x1 + offset.x, y1 + offset.y, x2 + offset.x, y2 + offset.y)
    OBVIOUS
  <2> QED
    BY <2>1, BoxInMargin DEF Ready
<1> QED
  BY <1>4, <1>5, <1>6, <1>7

LEMMA FillDrawn == IInv /\ RequestInv /\ Fill => DrawnInv'
<1> SUFFICES ASSUME IInv, RequestInv, Fill PROVE DrawnInv'
  OBVIOUS
<1>1. PICK x1 \in Xs, x2 \in Xs, y1 \in Ys, y2 \in Ys :
        Request([op |-> "fill", x1 |-> x1, y1 |-> y1, x2 |-> x2, y2 |-> y2], GrFill(x1, y1, x2, y2), {})
  BY DEF Fill
<1>2. x1 \in Int /\ x2 \in Int /\ y1 \in Int /\ y2 \in Int
  BY DEF Xs, Ys
<1>3. /\ request'.op = "fill" /\ request'.x1 = x1 /\ request'.y1 = y1 /\ request'.x2 = x2 /\ request'.y2 = y2
      /\ painted' = GrFill(x1, y1, x2, y2) /\ read' = {}
      /\ UNCHANGED <<minuiPc, percent, color, choice, blended>>
  BY <1>1 DEF Request
<1>4. Ready /\ MinuiTypeOK /\ draw # Nothing
  BY DEF Fill, Ready, IInv, BackendIsUsable
<1>5. Within(x1, y1, x2, y2) =>
        painted' = IF color = 0 THEN {} ELSE Box(x1 + offset.x, y1 + offset.y, x2 + offset.x, y2 + offset.y)
  BY <1>2, <1>3, <1>4, FillIsBox
<1>6. AreaIsDrawn' /\ MarginIsFree' /\ BlendIsBetween' /\ TextFillsAlike'
  BY <1>2, <1>3, <1>4, <1>5, Asked
<1>7. GlyphsAreInImage'
  BY <1>3 DEF GlyphsAreInImage
<1> QED
  BY <1>6, <1>7 DEF DrawnInv

LEMMA BlitDrawn == IInv /\ RequestInv /\ Blit => DrawnInv'
<1> SUFFICES ASSUME IInv, RequestInv, Blit PROVE DrawnInv'
  OBVIOUS
<1>1. PICK x \in Xs, y \in Ys, w \in 0..2, h \in 0..2 :
        Request([op |-> "blit", x1 |-> x, y1 |-> y, x2 |-> x + w, y2 |-> y + h], GrBlit(w, h, x, y), {})
  BY DEF Blit
<1>2. x \in Int /\ y \in Int /\ x + w \in Int /\ y + h \in Int
  BY DEF Xs, Ys
<1>3. /\ request'.op = "blit" /\ request'.x1 = x /\ request'.y1 = y /\ request'.x2 = x + w /\ request'.y2 = y + h
      /\ painted' = GrBlit(w, h, x, y) /\ read' = {}
      /\ UNCHANGED <<minuiPc, percent, color, choice, blended>>
  BY <1>1 DEF Request
<1>4. Ready /\ MinuiTypeOK /\ draw # Nothing
  BY DEF Blit, Ready, IInv, BackendIsUsable
<1>5. PICK x2 \in Int, y2 \in Int : x2 = x + w /\ y2 = y + h
  BY <1>2
<1>6. Within(x, y, x2, y2) => painted' = Box(x + offset.x, y + offset.y, x2 + offset.x, y2 + offset.y)
  BY <1>2, <1>3, <1>4, <1>5, BlitIsBox
<1>7. AreaIsDrawn' /\ MarginIsFree' /\ BlendIsBetween' /\ TextFillsAlike'
  BY <1>2, <1>3, <1>4, <1>5, <1>6, Asked
<1>8. GlyphsAreInImage'
  BY <1>3 DEF GlyphsAreInImage
<1> QED
  BY <1>7, <1>8 DEF DrawnInv

LEMMA IconDrawn == IInv /\ RequestInv /\ Icon => DrawnInv'
<1> SUFFICES ASSUME IInv, RequestInv, Icon PROVE DrawnInv'
  OBVIOUS
<1>1. PICK x \in Xs, y \in Ys, w \in 1..2, h \in 1..2 :
        Request([op |-> "icon", x1 |-> x, y1 |-> y, x2 |-> x + w, y2 |-> y + h], GrTexticon(x, y, w, h), {})
  BY DEF Icon
<1>2. x \in Int /\ y \in Int /\ x + w \in Int /\ y + h \in Int
  BY DEF Xs, Ys
<1>3. /\ request'.op = "icon" /\ request'.x1 = x /\ request'.y1 = y /\ request'.x2 = x + w /\ request'.y2 = y + h
      /\ painted' = GrTexticon(x, y, w, h) /\ read' = {}
      /\ UNCHANGED <<minuiPc, percent, color, choice, blended>>
  BY <1>1 DEF Request
<1>4. Ready /\ MinuiTypeOK /\ draw # Nothing
  BY DEF Icon, Ready, IInv, BackendIsUsable
<1>5. PICK x2 \in Int, y2 \in Int : x2 = x + w /\ y2 = y + h
  BY <1>2
<1>6. Within(x, y, x2, y2) =>
        painted' = IF color = 0 THEN {} ELSE Box(x + offset.x, y + offset.y, x2 + offset.x, y2 + offset.y)
  <2>1. Within(x, y, x2, y2) => GrBlit(w, h, x, y) = Box(x + offset.x, y + offset.y, x2 + offset.x, y2 + offset.y)
    BY <1>2, <1>4, <1>5, BlitIsBox
  <2> QED
    BY <1>3, <2>1 DEF GrTexticon
<1>7. AreaIsDrawn' /\ MarginIsFree' /\ BlendIsBetween' /\ TextFillsAlike'
  BY <1>2, <1>3, <1>4, <1>5, <1>6, Asked
<1>8. GlyphsAreInImage'
  BY <1>3 DEF GlyphsAreInImage
<1> QED
  BY <1>7, <1>8 DEF DrawnInv

LEMMA TextDrawn == IInv /\ RequestInv /\ Text => DrawnInv'
<1> SUFFICES ASSUME IInv, RequestInv, Text PROVE DrawnInv'
  OBVIOUS
<1>1. PICK x \in Xs, y \in Ys, s \in UNION {[1..n -> MinuiCharacters] : n \in 1..2}, bold \in BOOLEAN :
        Request([op |-> "text", x1 |-> x, y1 |-> y, x2 |-> x + Len(s) * font.cwidth, y2 |-> y + GlyphHeight],
                GrText(x, y, s), TextReads(x, y, s, bold))
  BY DEF Text
<1>2. x \in Int /\ y \in Int /\ s \in Seq(Int)
  <2>1. PICK n \in 1..2 : s \in [1..n -> MinuiCharacters]
    OBVIOUS
  <2>2. s \in [1..n -> Int]
    BY <2>1 DEF MinuiCharacters
  <2> QED
    BY <2>2 DEF Xs, Ys
<1>3. Ready /\ MinuiTypeOK /\ draw # Nothing
  BY DEF Text, Ready, IInv, BackendIsUsable
<1>4. PICK x2 \in Int, y2 \in Int : x2 = x + Len(s) * font.cwidth /\ y2 = y + GlyphHeight
  <2>1. PICK n \in Nat, l \in Int, g \in Int : n = Len(s) /\ l = font.cwidth /\ g = GlyphHeight
    BY <1>2, <1>3, OffsetTypes, MinuiAssumption
  <2>2. n * l \in Int
    OBVIOUS
  <2>3. x + n * l \in Int /\ y + g \in Int
    BY <1>2, <2>2
  <2> QED
    BY <2>1, <2>3
<1>5. /\ request'.op = "text" /\ request'.x1 = x /\ request'.y1 = y /\ request'.x2 = x2 /\ request'.y2 = y2
      /\ painted' = GrText(x, y, s) /\ read' = TextReads(x, y, s, bold)
      /\ UNCHANGED <<minuiPc, percent, color, choice, blended>>
  BY <1>1, <1>4 DEF Request
<1>6. Within(x, y, x2, y2) =>
        painted' = IF color = 0 THEN {} ELSE Box(x + offset.x, y + offset.y, x2 + offset.x, y2 + offset.y)
  BY <1>2, <1>3, <1>4, <1>5, TextIsBox
<1>7. AreaIsDrawn' /\ MarginIsFree' /\ BlendIsBetween' /\ TextFillsAlike'
  BY <1>2, <1>3, <1>5, <1>6, Asked
<1>8. GlyphsAreInImage'
  <2>1. font' = font
    BY <1>5 DEF choice
  <2> SUFFICES ASSUME NEW r \in TextReads(x, y, s, bold)
               PROVE  r.from >= 0 /\ r.to <= font.width /\ r.rows <= (IF font.bold THEN 2 ELSE 1) * GlyphHeight
    BY <1>5, <2>1 DEF GlyphsAreInImage
  <2> QED
    BY <1>2, <1>3, GlyphsRead
<1> QED
  BY <1>7, <1>8 DEF DrawnInv

LEMMA ClearDrawn == IInv /\ RequestInv /\ Clear => DrawnInv'
<1> SUFFICES ASSUME IInv, RequestInv, Clear PROVE DrawnInv'
  OBVIOUS
<1>1. request'.op = "clear" /\ read' = {} /\ blended' = NoBlend
  BY DEF Clear, Ready, Request, RequestInv
<1>2. AreaIsDrawn' /\ MarginIsFree' /\ TextFillsAlike'
  BY <1>1 DEF AreaIsDrawn, MarginIsFree, TextFillsAlike
<1>3. GlyphsAreInImage' /\ BlendIsBetween'
  BY <1>1 DEF GlyphsAreInImage, BlendIsBetween, NoBlend
<1> QED
  BY <1>2, <1>3 DEF DrawnInv

LEMMA ColorDrawn == IInv /\ RequestInv /\ Color => DrawnInv'
<1> SUFFICES ASSUME IInv, RequestInv, Color PROVE DrawnInv'
  OBVIOUS
<1>1. request'.op = "color" /\ painted' = {} /\ read' = {}
  BY DEF Color, Ready, RequestInv
<1>2. AreaIsDrawn' /\ MarginIsFree' /\ GlyphsAreInImage'
  BY <1>1 DEF AreaIsDrawn, MarginIsFree, GlyphsAreInImage
<1>3. PICK u \in Levels, c \in Levels, v \in Levels :
        blended' = [under |-> u, colour |-> c, coverage |-> v, result |-> TextByte(u, c, v, color')]
  BY DEF Color
<1>4. u \in 0..255 /\ c \in 0..255 /\ v \in 0..255 /\ color' \in 0..255
  BY MinuiAssumption DEF Color
<1>5. PICK a \in 0..255 : a = color'
  BY <1>4
<1>6. /\ Between(u, TextByte(u, c, v, a), c)
      /\ v = 255 => TextByte(u, c, v, a) = FillByte(u, c, a)
  <2>1. u \in 0..255 /\ c \in 0..255 /\ v \in 0..255 /\ a \in 0..255
    BY <1>4, <1>5
  <2>2. Between(u, TextByte(u, c, v, a), c)
    BY <2>1, BlendedRight, Zenon
  <2>3. TextByte(u, c, 255, a) = FillByte(u, c, a)
    BY <2>1, CoveredIsFilled, Zenon
  <2> QED
    BY <2>2, <2>3
<1>7. blended'.under = u /\ blended'.colour = c /\ blended'.coverage = v /\ blended'.result = TextByte(u, c, v, a)
  BY <1>3, <1>5
<1>8. BlendIsBetween'
  BY <1>6, <1>7, Zenon DEF BlendIsBetween, Between
<1>9. TextFillsAlike'
  BY <1>5, <1>6, <1>7, Zenon DEF TextFillsAlike, FillByte
<1> QED
  BY <1>2, <1>8, <1>9 DEF DrawnInv

LEMMA DrawnStep == IInv /\ RequestInv /\ DrawnInv /\ [MinuiNext]_minuiVars => DrawnInv'
<1> SUFFICES ASSUME IInv, RequestInv, DrawnInv, [MinuiNext]_minuiVars PROVE DrawnInv'
  OBVIOUS
<1>1. CASE BeginRound \/ OpenAdf \/ OpenDrm \/ OpenFbdev \/ FinishRound
  <2>1. minuiPc # "up" /\ UNCHANGED drawing
    BY <1>1 DEF BeginRound, OpenAdf, OpenDrm, OpenFbdev, FallBack, FinishRound
  <2> QED
    BY <2>1, Quiet DEF RequestInv, drawing
<1>2. CASE MinuiCrash \/ MinuiExit
  <2>1. UNCHANGED drawing /\ request = NoRequest
    BY <1>2 DEF MinuiCrash, MinuiExit, RequestInv
  <2> QED
    BY <2>1, Quiet DEF RequestInv, drawing
<1>3. CASE Flip
  BY <1>3, Quiet DEF Flip
<1>4. CASE UNCHANGED minuiVars
  BY <1>4, Unseen DEF minuiVars, choice
<1> QED
  BY <1>1, <1>2, <1>3, <1>4, FillDrawn, BlitDrawn, IconDrawn, TextDrawn, ClearDrawn, ColorDrawn DEF MinuiNext

LEMMA RequestStep == IInv /\ RequestInv /\ [MinuiNext]_minuiVars => RequestInv'
<1> SUFFICES ASSUME IInv, RequestInv, [MinuiNext]_minuiVars PROVE RequestInv'
  OBVIOUS
<1>1. CASE BeginRound
  <2>1. PICK w \in Textures, b \in BOOLEAN : font' = [width |-> w, cwidth |-> w \div 96, bold |-> b]
    BY <1>1 DEF BeginRound, GrInitFont
  <2>2. w \in Nat /\ w >= 96
    BY MinuiAssumption
  <2>3. w \div 96 >= 1 /\ 96 * (w \div 96) <= w
    BY <2>2
  <2>4. minuiPc # "up" /\ minuiPc' # "up" /\ UNCHANGED drawing
    BY <1>1 DEF BeginRound
  <2> QED
    BY <2>1, <2>3, <2>4 DEF RequestInv, drawing
<1>2. CASE OpenAdf \/ OpenDrm \/ OpenFbdev
  <2>1. minuiPc # "up" /\ minuiPc' # "up" /\ UNCHANGED drawing /\ font' = font
    BY <1>2 DEF OpenAdf, OpenDrm, OpenFbdev, FallBack
  <2> QED
    BY <2>1 DEF RequestInv, drawing
<1>3. CASE FinishRound
  <2>1. minuiPc # "up" /\ UNCHANGED drawing /\ font' = font /\ percent' = percent
    BY <1>3 DEF FinishRound
  <2>2. draw' # Nothing => offset' = Margin'
    <3>1. CASE draw = Nothing
      BY <1>3, <3>1 DEF FinishRound, Flipped
    <3>2. CASE draw # Nothing
      <4>1. draw.width = draw'.width /\ draw.height = draw'.height
        <5>1. draw = [owner |-> draw.owner, width |-> draw.width, height |-> draw.height]
          BY <3>2, SurfaceParts DEF IInv, BackendIsUsable
        <5>2. draw' = [draw EXCEPT !.owner = backend]
          BY <1>3, <3>2 DEF FinishRound, Flipped
        <5> QED
          BY <5>1, <5>2
      <4> QED
        BY <1>3, <2>1, <3>2, <4>1 DEF FinishRound, Margin
    <3> QED
      BY <3>1, <3>2
  <2> QED
    BY <2>1, <2>2 DEF RequestInv, drawing
<1>4. CASE MinuiCrash \/ MinuiExit
  <2>1. minuiPc' # "up" /\ UNCHANGED drawing /\ font' = font /\ request = NoRequest
    BY <1>4 DEF MinuiCrash, MinuiExit, choice, RequestInv
  <2> QED
    BY <2>1 DEF RequestInv, drawing
<1>5. CASE Fill \/ Blit \/ Icon \/ Text \/ Clear \/ Color
  <2>1. UNCHANGED <<minuiPc, percent, choice>>
    BY <1>5, RequestKeeps DEF Color
  <2>2. minuiPc = "up" /\ draw # Nothing /\ request'.op # "none"
    BY <1>5 DEF Fill, Blit, Icon, Text, Clear, Color, Ready, Request
  <2>3. request' # NoRequest
    BY <2>2 DEF NoRequest
  <2> QED
    BY <2>1, <2>2, <2>3 DEF RequestInv, choice, Margin
<1>6. CASE Flip
  BY <1>6 DEF Flip, RequestInv, choice, Margin
<1>7. CASE UNCHANGED minuiVars
  BY <1>7 DEF minuiVars, RequestInv, choice, drawing, Margin
<1> QED
  BY <1>1, <1>2, <1>3, <1>4, <1>5, <1>6, <1>7 DEF MinuiNext

\* What lies within the area that gr_fb_width and gr_fb_height promise is drawn
\* to its last pixel and leaves the margin free, characters are read from inside
\* the font image, and no blended byte wraps (graphics.cpp:58-301).
THEOREM DrawingHolds == MinuiSpec => []DrawingIsRight
<1>1. MinuiInit => RequestInv /\ DrawnInv
  <2> SUFFICES ASSUME MinuiInit PROVE RequestInv /\ DrawnInv
    OBVIOUS
  <2>1. RequestInv
    BY DEF MinuiInit, RequestInv
  <2>2. request.op = "none" /\ painted = {} /\ read = {} /\ blended = NoBlend
    BY DEF MinuiInit, NoRequest
  <2> QED
    BY <2>1, <2>2 DEF DrawnInv, AreaIsDrawn, MarginIsFree, GlyphsAreInImage, BlendIsBetween, TextFillsAlike, NoBlend
<1>2. PaintsInside /\ DrawnInv => DrawingIsRight
  BY DEF DrawnInv, DrawingIsRight
<1> QED
  BY <1>1, <1>2, Invariance, NothingOutside, RequestStep, DrawnStep, PTL DEF MinuiSpec

-----------------------------------------------------------------------------
(* Fonts, text and shapes *)

\* A set of numbers that is not empty has a least one.
LEMMA HasLeast ==
  ASSUME NEW T \in SUBSET Nat, T # {}
  PROVE  \E x \in T : \A y \in T : x <= y
<1>1. PICK x \in T : \A y \in T : ~(<<y, x>> \in OpToRel(<, Nat))
  BY NatLessThanWellFounded, WFMin
<1>2. ASSUME NEW y \in T PROVE x <= y
  <2>1. ~(y < x)
    BY <1>1 DEF OpToRel
  <2> QED
    BY <2>1
<1> QED
  BY <1>2

\* The offsets of a font: every glyph begins where the one before it ends.
Ascending(offs) ==
  /\ offs \in [0..NoGlyph -> Nat] /\ offs[0] = 0
  /\ \A c \in 0..(NoGlyph - 1) : offs[c] <= offs[c + 1]

\* f is the offsets of the first n glyphs.
Sums(f, w, n) == f = [j \in 0..n |-> IF j = 0 THEN 0 ELSE f[j - 1] + w[j - 1]]

\* The offsets exist for every number of glyphs.
LEMMA SumBegins ==
  ASSUME NEW w, NEW n \in Nat
  PROVE  \E f : Sums(f, w, n)
<1> DEFINE Bad == {k \in Nat : ~\E f : Sums(f, w, k)}
<1>1. SUFFICES ASSUME Bad # {} PROVE FALSE
  OBVIOUS
<1>2. PICK x \in Bad : \A y \in Bad : x <= y
  <2>1. Bad \in SUBSET Nat
    OBVIOUS
  <2> HIDE DEF Bad
  <2> QED
    BY <1>1, <2>1, HasLeast
<1>3. CASE x = 0
  <2>1. Sums([k \in 0..0 |-> 0], w, 0)
    BY DEF Sums
  <2> QED
    BY <1>2, <1>3, <2>1
<1>4. CASE x # 0
  <2>1. x - 1 \in Nat /\ x - 1 \notin Bad
    BY <1>2, <1>4
  <2>2. PICK f : Sums(f, w, x - 1)
    BY <2>1
  <2> DEFINE g == [j \in 0..x |-> IF j = 0 THEN 0 ELSE f[j - 1] + w[j - 1]]
  <2>3. \A k \in 0..(x - 1) : g[k] = f[k]
    BY <2>1, <2>2 DEF Sums
  <2>4. g = [j \in 0..x |-> IF j = 0 THEN 0 ELSE g[j - 1] + w[j - 1]]
    <3>1. \A k \in 0..x : k = 0 \/ k - 1 \in 0..(x - 1)
      BY <2>1
    <3>2. \A k \in 0..x : k # 0 => g[k - 1] = f[k - 1]
      BY <2>3, <3>1
    <3> QED
      BY <3>2
  <2> QED
    BY <1>2, <2>4 DEF Sums
<1> QED
  BY <1>3, <1>4

\* The header of a font file gives ascending offsets.
LEMMA OffsetsAscend ==
  ASSUME NEW w \in [0..(NoGlyph - 1) -> GlyphWidths]
  PROVE  Ascending(Offsets(w))
<1> DEFINE to == CHOOSE f : Sums(f, w, NoGlyph)
<1>1. NoGlyph \in Nat /\ GlyphWidths \subseteq Nat
  BY TextAssumption
<1>2. \E f : Sums(f, w, NoGlyph)
  BY <1>1, SumBegins
<1>3. Sums(to, w, NoGlyph)
  BY <1>2
<1>4. Offsets(w) = to
  BY DEF Offsets, Sums
<1> HIDE DEF to
<1>5. DOMAIN to = 0..NoGlyph /\ to[0] = 0 /\ to = [j \in 0..NoGlyph |-> to[j]]
  BY <1>1, <1>3 DEF Sums
<1>6. \A j \in 1..NoGlyph : to[j] = to[j - 1] + w[j - 1]
  BY <1>1, <1>3 DEF Sums
<1> DEFINE Bad == {j \in 0..NoGlyph : to[j] \notin Nat}
<1>7. Bad = {}
  <2> SUFFICES ASSUME Bad # {} PROVE FALSE
    OBVIOUS
  <2>1. PICK x \in Bad : \A y \in Bad : x <= y
    <3>1. Bad \in SUBSET Nat
      BY <1>1
    <3> HIDE DEF Bad
    <3> QED
      BY <3>1, HasLeast
  <2>2. x \in 1..NoGlyph
    BY <1>1, <1>5, <2>1
  <2>3. x - 1 \in 0..NoGlyph /\ x - 1 \notin Bad /\ x - 1 \in 0..(NoGlyph - 1)
    BY <1>1, <2>1, <2>2
  <2>4. to[x - 1] \in Nat /\ w[x - 1] \in Nat
    BY <1>1, <2>3
  <2>5. to[x] \in Nat
    BY <1>6, <2>2, <2>4
  <2> QED
    BY <2>1, <2>5
<1>8. \A j \in 0..NoGlyph : to[j] \in Nat
  BY <1>7
<1>9. ASSUME NEW c \in 0..(NoGlyph - 1) PROVE to[c] <= to[c + 1]
  <2>1. c + 1 \in 1..NoGlyph /\ (c + 1) - 1 = c /\ c \in 0..NoGlyph
    BY <1>1
  <2>2. to[c + 1] = to[c] + w[c]
    BY <1>6, <2>1
  <2>3. w[c] \in Nat /\ to[c] \in Nat
    BY <1>1, <1>8, <2>1
  <2> QED
    BY <2>2, <2>3
<1> QED
  BY <1>4, <1>5, <1>8, <1>9 DEF Ascending

\* One sequence after the other.
Cat(a, b) == a \o b

\* The elements of two sequences one after the other.
LEMMA CatParts ==
  ASSUME NEW s, NEW a \in Seq(s), NEW b \in Seq(s)
  PROVE  /\ Cat(a, b) \in Seq(s) /\ Len(Cat(a, b)) = Len(a) + Len(b)
         /\ Len(a) \in Nat /\ Len(b) \in Nat
         /\ \A k \in 1..Len(a) : Cat(a, b)[k] = a[k]
         /\ \A k \in 1..Len(b) : Cat(a, b)[Len(a) + k] = b[k]
BY DEF Cat

\* The same of lines, place by place.
LEMMA CatLines ==
  ASSUME NEW a \in Seq(Int), NEW b \in Seq(Int)
  PROVE  /\ Len(Cat(a, b)) = Len(a) + Len(b)
         /\ \A k \in 1..Len(a) : Cat(a, b)[k] = a[k]
         /\ \A k \in 1..Len(b) : Cat(a, b)[Len(a) + k] = b[k]
BY DEF Cat

\* An element of a sequence is of its set.
LEMMA ElementIn ==
  ASSUME NEW S, NEW s \in Seq(S), NEW i \in 1..Len(s)
  PROVE  s[i] \in S
OBVIOUS

\* f is the lines of the first n characters.
Sets(f, offs, gaps, s, n) ==
  f = [i \in 0..n |-> IF i = 0 THEN << >> ELSE Cat(f[i - 1], Columns(offs, gaps, s[i]))]

\* The lines exist for every number of characters.
LEMMA LineBegins ==
  ASSUME NEW offs, NEW gaps, NEW s, NEW n \in Nat
  PROVE  \E f : Sets(f, offs, gaps, s, n)
<1> DEFINE Bad == {k \in Nat : ~\E f : Sets(f, offs, gaps, s, k)}
<1>1. SUFFICES ASSUME Bad # {} PROVE FALSE
  OBVIOUS
<1>2. PICK x \in Bad : \A y \in Bad : x <= y
  <2>1. Bad \in SUBSET Nat
    OBVIOUS
  <2> HIDE DEF Bad
  <2> QED
    BY <1>1, <2>1, HasLeast
<1>3. CASE x = 0
  <2>1. Sets([k \in 0..0 |-> << >>], offs, gaps, s, 0)
    BY DEF Sets
  <2> QED
    BY <1>2, <1>3, <2>1
<1>4. CASE x # 0
  <2>1. x - 1 \in Nat /\ x - 1 \notin Bad
    BY <1>2, <1>4
  <2>2. PICK f : Sets(f, offs, gaps, s, x - 1)
    BY <2>1
  <2> DEFINE g == [i \in 0..x |-> IF i = 0 THEN << >> ELSE Cat(f[i - 1], Columns(offs, gaps, s[i]))]
  <2>3. \A k \in 0..(x - 1) : g[k] = f[k]
    BY <2>1, <2>2 DEF Sets
  <2>4. g = [i \in 0..x |-> IF i = 0 THEN << >> ELSE Cat(g[i - 1], Columns(offs, gaps, s[i]))]
    <3>1. \A k \in 0..x : k = 0 \/ k - 1 \in 0..(x - 1)
      BY <2>1
    <3>2. \A k \in 0..x : k # 0 => g[k - 1] = f[k - 1]
      BY <2>3, <3>1
    <3> QED
      BY <3>2
  <2> QED
    BY <1>2, <2>4 DEF Sets
<1> QED
  BY <1>3, <1>4

\* Each line is the one before it and the columns of one more character.
LEMMA LineSteps ==
  ASSUME NEW offs, NEW gaps, NEW s, Len(s) \in Nat
  PROVE  /\ Lines(offs, gaps, s)[0] = << >>
         /\ \A i \in 1..Len(s) :
              Lines(offs, gaps, s)[i] = Cat(Lines(offs, gaps, s)[i - 1], Columns(offs, gaps, s[i]))
<1> DEFINE line == CHOOSE f : Sets(f, offs, gaps, s, Len(s))
<1>1. \E f : Sets(f, offs, gaps, s, Len(s))
  BY LineBegins
<1>2. Sets(line, offs, gaps, s, Len(s))
  BY <1>1
<1>3. Lines(offs, gaps, s) = line
  BY DEF Lines, Sets, Cat
<1> HIDE DEF line
<1>4. line[0] = << >> /\ \A i \in 1..Len(s) : line[i] = Cat(line[i - 1], Columns(offs, gaps, s[i]))
  BY <1>2 DEF Sets
<1> QED
  BY <1>3, <1>4

\* The columns of a character that has a glyph.
LEMMA GlyphColumns ==
  ASSUME NEW offs, Ascending(offs), NEW gaps, NEW c \in 0..NoGlyph, Glyph(c)
  PROVE  /\ Columns(offs, gaps, c) \in Seq(Int)
         /\ offs[c] \in Nat /\ offs[c + 1] \in Nat /\ offs[c] <= offs[c + 1]
         /\ Len(Columns(offs, gaps, c)) = offs[c + 1] - offs[c]
         /\ \A k \in 1..(offs[c + 1] - offs[c]) : Columns(offs, gaps, c)[k] = offs[c] + k - 1
<1>1. NoGlyph \in Nat /\ NoGlyph >= 1 /\ offs \in [0..NoGlyph -> Nat]
  BY TextAssumption DEF Ascending
<1>2. c \in 0..(NoGlyph - 1) /\ c + 1 \in 0..NoGlyph
  BY <1>1 DEF Glyph
<1>3. offs[c] \in Nat /\ offs[c + 1] \in Nat /\ offs[c] <= offs[c + 1]
  BY <1>1, <1>2 DEF Ascending
<1>4. PICK o \in Nat : o = offs[c]
  BY <1>3
<1>5. PICK n \in Nat : n = offs[c + 1] - offs[c]
  BY <1>3
<1>6. Columns(offs, gaps, c) = [k \in 1..n |-> o + k - 1]
  BY <1>4, <1>5 DEF Columns
<1>7. [k \in 1..n |-> o + k - 1] \in Seq(Int) /\ Len([k \in 1..n |-> o + k - 1]) = n
  OBVIOUS
<1>8. \A k \in 1..n : Columns(offs, gaps, c)[k] = o + k - 1
  BY <1>6
<1> QED
  BY <1>3, <1>4, <1>5, <1>6, <1>7, <1>8

\* The columns of a character that has none.
LEMMA GapColumns ==
  ASSUME NEW offs, Ascending(offs), NEW gaps, NEW c \in 0..NoGlyph, ~Glyph(c)
  PROVE  /\ Columns(offs, gaps, c) \in Seq(Int) /\ offs[1] \in Nat
         /\ Len(Columns(offs, gaps, c)) = IF gaps THEN offs[1] ELSE 0
         /\ \A k \in 1..Len(Columns(offs, gaps, c)) : Columns(offs, gaps, c)[k] = -1
<1>1. offs[1] \in Nat
  BY TextAssumption DEF Ascending
<1>2. CASE gaps
  <2>1. PICK n \in Nat : n = offs[1]
    BY <1>1
  <2>2. Columns(offs, gaps, c) = [k \in 1..n |-> -1]
    BY <1>2, <2>1 DEF Columns
  <2>3. [k \in 1..n |-> -1] \in Seq(Int) /\ Len([k \in 1..n |-> -1]) = n
    OBVIOUS
  <2> QED
    BY <1>2, <2>1, <2>2, <2>3
<1>3. CASE ~gaps
  BY <1>1, <1>3 DEF Columns
<1> QED
  BY <1>2, <1>3

\* The columns of every character.
LEMMA ColumnsTyped ==
  ASSUME NEW offs, Ascending(offs), NEW gaps, NEW c \in 0..NoGlyph
  PROVE  Columns(offs, gaps, c) \in Seq(Int)
BY GlyphColumns, GapColumns

\* The lines of the beginnings of a string are sequences of columns.
LEMMA LineTyped ==
  ASSUME NEW offs, Ascending(offs), NEW gaps, NEW s \in Seq(0..NoGlyph)
  PROVE  \A i \in 0..Len(s) : Lines(offs, gaps, s)[i] \in Seq(Int)
<1> DEFINE line == Lines(offs, gaps, s)
           Bad == {i \in 0..Len(s) : line[i] \notin Seq(Int)}
<1>1. Len(s) \in Nat
  OBVIOUS
<1>2. line[0] = << >> /\ \A i \in 1..Len(s) : line[i] = Cat(line[i - 1], Columns(offs, gaps, s[i]))
  BY <1>1, LineSteps
<1> HIDE DEF line
<1>3. SUFFICES ASSUME Bad # {} PROVE FALSE
  BY DEF line
<1>4. PICK x \in Bad : \A y \in Bad : x <= y
  <2>1. Bad \in SUBSET Nat
    BY <1>1
  <2> HIDE DEF Bad
  <2> QED
    BY <1>3, <2>1, HasLeast
<1>5. x \in 1..Len(s)
  <2>1. line[0] \in Seq(Int)
    BY <1>2
  <2> QED
    BY <1>1, <1>4, <2>1
<1>6. x - 1 \in 0..Len(s) /\ x - 1 \notin Bad
  BY <1>1, <1>4, <1>5
<1>7. line[x - 1] \in Seq(Int) /\ Columns(offs, gaps, s[x]) \in Seq(Int)
  <2>1. s[x] \in 0..NoGlyph
    BY <1>5, ElementIn, Zenon
  <2> QED
    BY <1>6, <2>1, ColumnsTyped
<1>8. line[x] \in Seq(Int)
  BY <1>2, <1>5, <1>7, CatParts
<1> QED
  BY <1>4, <1>8

\* The line l begins with the line k.
Begins(k, l) == Len(k) <= Len(l) /\ \A h \in 1..Len(k) : l[h] = k[h]

\* A longer beginning of the string begins with the line of a shorter one.
LEMMA LineGrows ==
  ASSUME NEW offs, Ascending(offs), NEW gaps, NEW s \in Seq(0..NoGlyph),
         NEW i \in 0..Len(s), NEW j \in i..Len(s)
  PROVE  Begins(Lines(offs, gaps, s)[i], Lines(offs, gaps, s)[j])
<1> DEFINE line == Lines(offs, gaps, s)
           Keeps(h) == Len(line[i]) <= Len(line[h]) /\ \A k \in 1..Len(line[i]) : line[h][k] = line[i][k]
           Bad == {h \in i..Len(s) : ~Keeps(h)}
<1>1. Len(s) \in Nat
  OBVIOUS
<1>2. \A h \in 1..Len(s) : line[h] = Cat(line[h - 1], Columns(offs, gaps, s[h]))
  BY <1>1, LineSteps
<1>3. \A h \in 0..Len(s) : line[h] \in Seq(Int)
  BY LineTyped
<1> HIDE DEF line
<1>4. Bad = {}
  <2> SUFFICES ASSUME Bad # {} PROVE FALSE
    OBVIOUS
  <2>1. PICK x \in Bad : \A y \in Bad : x <= y
    <3>1. Bad \in SUBSET Nat
      BY <1>1
    <3> HIDE DEF Bad
    <3> QED
      BY <3>1, HasLeast
  <2>2. Keeps(i)
    BY <1>3
  <2>3. x # i /\ x \in 1..Len(s)
    BY <1>1, <2>1, <2>2
  <2>4. x - 1 \in i..Len(s) /\ x - 1 \notin Bad /\ x - 1 \in 0..Len(s) /\ x \in 0..Len(s)
    BY <1>1, <2>1, <2>3
  <2>5. Keeps(x - 1)
    BY <2>4
  <2> DEFINE a == line[x - 1]
             b == Columns(offs, gaps, s[x])
  <2>6. a \in Seq(Int) /\ b \in Seq(Int) /\ line[x] = Cat(a, b)
    <3>1. s[x] \in 0..NoGlyph
      BY <2>3, ElementIn, Zenon
    <3> QED
      BY <1>2, <1>3, <2>3, <2>4, <3>1, ColumnsTyped
  <2>7. /\ Len(Cat(a, b)) = Len(a) + Len(b) /\ Len(a) \in Nat /\ Len(b) \in Nat
        /\ \A k \in 1..Len(a) : Cat(a, b)[k] = a[k]
    <3> HIDE DEF a, b
    <3>1. Len(a) \in Nat /\ Len(b) \in Nat
      BY <2>6
    <3>2. Len(Cat(a, b)) = Len(a) + Len(b) /\ \A k \in 1..Len(a) : Cat(a, b)[k] = a[k]
      BY <2>6, CatLines, Zenon
    <3> QED
      BY <3>1, <3>2
  <2>8. Len(line[i]) \in Nat
    BY <1>3
  <2>9. Len(line[i]) <= Len(a) /\ \A k \in 1..Len(line[i]) : a[k] = line[i][k]
    BY <2>5
  <2> HIDE DEF a, b
  <2>10. Keeps(x)
    BY <2>6, <2>7, <2>8, <2>9
  <2> QED
    BY <2>1, <2>10
<1>5. Keeps(j)
  <2>1. j \notin Bad
    BY <1>4
  <2> QED
    BY <2>1
<1> QED
  BY <1>5 DEF line, Begins

\* The right edge of the rectangle of a glyph.
Edge(right, cut, limit) == IF cut /\ ~(right < limit) THEN limit ELSE right

\* The rectangle of a glyph draws its columns.
LEMMA DrawGlyph ==
  ASSUME NEW offs, Ascending(offs), NEW gaps, NEW c \in 0..NoGlyph, Glyph(c), NEW l \in Seq(Int),
         NEW cut \in BOOLEAN, NEW limit \in Int
  PROVE  LET x == TextX + Len(l)
             right == x + (offs[c + 1] - offs[c])
         IN  Pixels(Cat(l, Columns(offs, gaps, c)), cut, limit) =
               Pixels(l, cut, limit) \cup {<<px, offs[c] + px - x>> : px \in x..(Edge(right, cut, limit) - 1)}
<1> DEFINE m == Columns(offs, gaps, c)
           lm == Cat(l, m)
<1>1. /\ m \in Seq(Int) /\ offs[c] \in Nat /\ offs[c + 1] \in Nat /\ offs[c] <= offs[c + 1]
      /\ Len(m) = offs[c + 1] - offs[c]
      /\ \A k \in 1..(offs[c + 1] - offs[c]) : m[k] = offs[c] + k - 1
  BY GlyphColumns
<1>2. PICK o \in Nat : o = offs[c]
  BY <1>1
<1>3. PICK w \in Nat : w = offs[c + 1] - offs[c]
  BY <1>1
<1>4. PICK n \in Nat : n = Len(l)
  OBVIOUS
<1>5. PICK tx \in Nat : tx = TextX
  BY TextAssumption
<1> HIDE DEF m
<1>6. /\ Len(lm) = n + w
      /\ \A k \in 1..n : lm[k] = l[k]
      /\ \A k \in 1..w : lm[n + k] = m[k]
  <2>1. /\ Len(Cat(l, m)) = Len(l) + Len(m)
        /\ \A k \in 1..Len(l) : Cat(l, m)[k] = l[k]
        /\ \A k \in 1..Len(m) : Cat(l, m)[Len(l) + k] = m[k]
    <3>1. m \in Seq(Int)
      BY <1>1
    <3> QED
      BY <3>1, CatLines, Zenon
  <2>2. Len(m) = w
    BY <1>1, <1>3
  <2> QED
    BY <1>4, <2>1, <2>2
<1>7. \A k \in 1..w : lm[n + k] = o + k - 1
  BY <1>1, <1>2, <1>3, <1>6
<1> HIDE DEF lm
<1> DEFINE x == tx + n
           right == x + w
           to == Edge(right, cut, limit)
           R == {<<px, o + px - x>> : px \in x..(to - 1)}
<1>8. to \in Int /\ (cut => to = IF right < limit THEN right ELSE limit) /\ (~cut => to = right)
  BY DEF Edge
<1>9. \A k \in 1..n : k \in Seen(lm, cut, limit) <=> k \in Seen(l, cut, limit)
  BY <1>4, <1>6 DEF Seen
<1>10. \A k \in 1..w : n + k \in Seen(lm, cut, limit) <=> x + k - 1 <= to - 1
  <2> SUFFICES ASSUME NEW k \in 1..w PROVE n + k \in Seen(lm, cut, limit) <=> x + k - 1 <= to - 1
    OBVIOUS
  <2>1. n + k \in 1..Len(lm) /\ lm[n + k] >= 0
    <3>1. n + k \in 1..(n + w)
      OBVIOUS
    <3>2. lm[n + k] = o + k - 1
      BY <1>7
    <3>3. o + k - 1 >= 0
      OBVIOUS
    <3> QED
      BY <1>6, <3>1, <3>2, <3>3
  <2>2. n + k \in Seen(lm, cut, limit) <=> (cut => tx + (n + k) - 1 < limit)
    BY <1>5, <2>1 DEF Seen
  <2>3. (cut => tx + (n + k) - 1 < limit) <=> x + k - 1 <= to - 1
    BY <1>8
  <2> QED
    BY <2>2, <2>3
<1> HIDE DEF to
<1>11. ASSUME NEW p \in Pixels(lm, cut, limit) PROVE p \in Pixels(l, cut, limit) \cup R
  <2>1. PICK k \in Seen(lm, cut, limit) : p = <<tx + k - 1, lm[k]>>
    BY <1>5 DEF Pixels
  <2>2. k \in 1..(n + w)
    BY <1>6 DEF Seen
  <2>3. CASE k <= n
    <3>1. k \in 1..n
      BY <2>2, <2>3
    <3>2. k \in Seen(l, cut, limit) /\ p = <<tx + k - 1, l[k]>>
      BY <1>6, <1>9, <2>1, <3>1
    <3> QED
      BY <1>5, <3>2 DEF Pixels
  <2>4. CASE ~(k <= n)
    <3>1. PICK j \in 1..w : k = n + j
      <4>1. k - n \in 1..w /\ k = n + (k - n)
        BY <2>2, <2>4
      <4> QED
        BY <4>1
    <3>2. lm[k] = o + j - 1 /\ x + j - 1 <= to - 1
      BY <1>7, <1>10, <2>1, <3>1
    <3>3. PICK px \in x..(to - 1) : px = x + j - 1
      BY <1>8, <3>2
    <3>4. p = <<px, o + px - x>>
      <4>1. tx + k - 1 = px /\ o + px - x = o + j - 1
        BY <3>1, <3>3
      <4> QED
        BY <2>1, <3>2, <4>1
    <3> QED
      BY <3>3, <3>4
  <2> QED
    BY <2>2, <2>3, <2>4
<1>12. ASSUME NEW p \in Pixels(l, cut, limit) PROVE p \in Pixels(lm, cut, limit)
  <2>1. PICK k \in Seen(l, cut, limit) : p = <<TextX + k - 1, l[k]>>
    BY DEF Pixels
  <2>2. k \in 1..n
    BY <1>4 DEF Seen
  <2>3. k \in Seen(lm, cut, limit) /\ lm[k] = l[k]
    BY <1>6, <1>9, <2>2
  <2> QED
    BY <2>1, <2>3 DEF Pixels
<1>13. ASSUME NEW p \in R PROVE p \in Pixels(lm, cut, limit)
  <2>1. PICK px \in x..(to - 1) : p = <<px, o + px - x>>
    OBVIOUS
  <2>2. to <= right
    BY <1>8
  <2>3. PICK k \in 1..w : k = px - x + 1
    BY <1>8, <2>2
  <2>4. n + k \in Seen(lm, cut, limit) /\ lm[n + k] = o + k - 1
    <3>1. x + k - 1 <= to - 1
      BY <1>8, <2>3
    <3> QED
      BY <1>7, <1>10, <3>1
  <2>5. p = <<TextX + (n + k) - 1, lm[n + k]>>
    <3>1. px = tx + (n + k) - 1 /\ o + px - x = o + k - 1
      BY <1>8, <2>3
    <3> QED
      BY <1>5, <2>1, <2>4, <3>1
  <2> QED
    BY <2>4, <2>5 DEF Pixels
<1>14. Pixels(lm, cut, limit) = Pixels(l, cut, limit) \cup R
  BY <1>11, <1>12, <1>13
<1>15. TextX + Len(l) = x /\ TextX + Len(l) + (offs[c + 1] - offs[c]) = right
  BY <1>3, <1>4, <1>5
<1> QED
  BY <1>2, <1>14, <1>15 DEF to, lm, m

\* What has no glyph draws nothing.
LEMMA DrawGap ==
  ASSUME NEW offs, Ascending(offs), NEW gaps, NEW c \in 0..NoGlyph, ~Glyph(c), NEW l \in Seq(Int),
         NEW cut \in BOOLEAN, NEW limit \in Int
  PROVE  Pixels(Cat(l, Columns(offs, gaps, c)), cut, limit) = Pixels(l, cut, limit)
<1> DEFINE m == Columns(offs, gaps, c)
           lm == Cat(l, m)
<1>1. m \in Seq(Int) /\ \A k \in 1..Len(m) : m[k] = -1
  BY GapColumns
<1>2. PICK n \in Nat : n = Len(l)
  OBVIOUS
<1> HIDE DEF m
<1>3. PICK w \in Nat : w = Len(m)
  BY <1>1
<1>4. /\ Len(lm) = n + w
      /\ \A k \in 1..n : lm[k] = l[k]
      /\ \A k \in 1..w : lm[n + k] = -1
  <2>1. /\ Len(Cat(l, m)) = Len(l) + Len(m)
        /\ \A k \in 1..Len(l) : Cat(l, m)[k] = l[k]
        /\ \A k \in 1..Len(m) : Cat(l, m)[Len(l) + k] = m[k]
    <3>1. m \in Seq(Int)
      BY <1>1
    <3> QED
      BY <3>1, CatLines, Zenon
  <2> QED
    BY <1>1, <1>2, <1>3, <2>1
<1> HIDE DEF lm
<1>5. ASSUME NEW k \in Seen(lm, cut, limit) PROVE k \in 1..n
  <2>1. k \in 1..(n + w) /\ lm[k] >= 0
    BY <1>4 DEF Seen
  <2>2. ASSUME ~(k <= n) PROVE FALSE
    <3>1. k - n \in 1..w /\ k = n + (k - n)
      BY <2>1, <2>2
    <3>2. lm[k] = -1
      BY <1>4, <3>1
    <3> QED
      BY <2>1, <3>2
  <2> QED
    BY <2>1, <2>2
<1>6. \A k \in 1..n : k \in Seen(lm, cut, limit) <=> k \in Seen(l, cut, limit)
  BY <1>2, <1>4 DEF Seen
<1>7. Seen(lm, cut, limit) = Seen(l, cut, limit)
  <2>1. ASSUME NEW k \in Seen(l, cut, limit) PROVE k \in 1..n
    BY <1>2 DEF Seen
  <2> QED
    BY <1>5, <1>6, <2>1
<1>8. \A k \in Seen(l, cut, limit) : lm[k] = l[k]
  BY <1>4, <1>5, <1>7
<1> QED
  BY <1>7, <1>8 DEF Pixels, lm, m

\* What is behind the limit is not drawn.
LEMMA DrawnBeyond ==
  ASSUME NEW l \in Seq(Int), NEW all \in Seq(Int), Len(l) <= Len(all), \A k \in 1..Len(l) : all[k] = l[k],
         NEW limit \in Int, TextX + Len(l) >= limit
  PROVE  Pixels(all, TRUE, limit) = Pixels(l, TRUE, limit)
<1>1. PICK n \in Nat : n = Len(l)
  OBVIOUS
<1>2. PICK tx \in Nat : tx = TextX
  BY TextAssumption
<1>3. Len(all) \in Nat /\ n <= Len(all) /\ tx + n >= limit /\ \A k \in 1..n : all[k] = l[k]
  BY <1>1, <1>2
<1>4. ASSUME NEW k \in 1..Len(all), tx + k - 1 < limit PROVE k \in 1..n
  BY <1>3, <1>4
<1>5. Seen(all, TRUE, limit) = Seen(l, TRUE, limit)
  <2>1. ASSUME NEW k \in Seen(all, TRUE, limit) PROVE k \in Seen(l, TRUE, limit)
    <3>1. k \in 1..Len(all) /\ tx + k - 1 < limit /\ all[k] >= 0
      BY <1>2 DEF Seen
    <3>2. k \in 1..n /\ l[k] >= 0
      BY <1>3, <1>4, <3>1
    <3> QED
      BY <1>1, <1>2, <3>1, <3>2 DEF Seen
  <2>2. ASSUME NEW k \in Seen(l, TRUE, limit) PROVE k \in Seen(all, TRUE, limit)
    <3>1. k \in 1..n /\ TextX + k - 1 < limit /\ l[k] >= 0
      BY <1>1 DEF Seen
    <3>2. k \in 1..Len(all) /\ all[k] >= 0
      BY <1>3, <3>1
    <3> QED
      BY <3>1, <3>2 DEF Seen
  <2> QED
    BY <2>1, <2>2
<1>6. \A k \in Seen(l, TRUE, limit) : all[k] = l[k]
  BY <1>1, <1>3 DEF Seen
<1> QED
  BY <1>5, <1>6 DEF Pixels

\* Eight pixels are one byte.
LEMMA BitsOfByte ==
  ASSUME NEW v \in 0..255
  PROVE  /\ \A k \in 1..8 : Bit(v, k - 1) \in {0, 1}
         /\ v = 128 * Bit(v, 0) + 64 * Bit(v, 1) + 32 * Bit(v, 2) + 16 * Bit(v, 3) + 8 * Bit(v, 4) + 4 * Bit(v, 5)
                + 2 * Bit(v, 6) + Bit(v, 7)
<1>1. /\ Bit(v, 0) = (v \div 128) % 2 /\ Bit(v, 1) = (v \div 64) % 2 /\ Bit(v, 2) = (v \div 32) % 2
      /\ Bit(v, 3) = (v \div 16) % 2 /\ Bit(v, 4) = (v \div 8) % 2 /\ Bit(v, 5) = (v \div 4) % 2
      /\ Bit(v, 6) = (v \div 2) % 2 /\ Bit(v, 7) = (v \div 1) % 2
  BY DEF Bit
<1>2. \A k \in 1..8 : k - 1 \in {0, 1, 2, 3, 4, 5, 6, 7}
  OBVIOUS
<1>3. \A k \in {0, 1, 2, 3, 4, 5, 6, 7} : Bit(v, k) \in {0, 1}
  BY <1>1
<1>4. v = 128 * ((v \div 128) % 2) + 64 * ((v \div 64) % 2) + 32 * ((v \div 32) % 2) + 16 * ((v \div 16) % 2)
          + 8 * ((v \div 8) % 2) + 4 * ((v \div 4) % 2) + 2 * ((v \div 2) % 2) + ((v \div 1) % 2)
  OBVIOUS
<1> QED
  BY <1>1, <1>2, <1>3, <1>4

\* The value of the n-th eight pixels.
ByteAt(bits, n) ==
  LET b == SubSeq(bits, 8 * n - 7, 8 * n)
  IN  128 * b[1] + 64 * b[2] + 32 * b[3] + 16 * b[4] + 8 * b[5] + 4 * b[6] + 2 * b[7] + b[8]

\* The font, while it is read and after that.
FontInv ==
  /\ Ascending(fontOffset)
  /\ textPc \in {"off", "load", "garbage", "idle", "loop", "done"}
  /\ fontByte \in 0..255 /\ fontBits \in Seq({0, 1}) /\ fontFile \in Seq(0..255)
  /\ textPc = "off" => fontBits = << >> /\ fontFile = << >>
  /\ textPc = "load" => /\ Len(fontBits) <= FontSize
                        /\ Len(fontBits) = FontSize \/ \E q \in Nat : Len(fontBits) = 8 * q
                        /\ \A n \in 1..Len(fontFile) : 8 * n <= Len(fontBits) => fontFile[n] = ByteAt(fontBits, n)
  /\ textPc \notin {"off", "load"} => fontFile = << >> /\ Len(fontBits) \in {0, FontSize}

\* The size of the bitmap of a font.
LEMMA SizeTyped ==
  ASSUME Ascending(fontOffset) PROVE FontSize \in Nat
<1>1. fontOffset[NoGlyph] \in Nat /\ FontHeight \in Nat
  BY TextAssumption DEF Ascending
<1> QED
  BY <1>1 DEF FontSize, FontWidth

\* What FontInv says of the properties.
LEMMA FontRight ==
  ASSUME FontInv
  PROVE  FontIsWhole /\ Len(fontBits) <= FontSize /\ fontOffset \in [0..NoGlyph -> Nat]
<1>1. FontSize \in Nat
  BY SizeTyped DEF FontInv
<1>2. Len(fontBits) <= FontSize /\ (textPc = "idle" => Len(fontBits) \in {0, FontSize})
  BY <1>1 DEF FontInv
<1>3. \A n \in 1..Len(fontFile) : 8 * n <= Len(fontBits) => fontFile[n] = ByteAt(fontBits, n)
  BY DEF FontInv
<1>4. FontIsWhole
  BY <1>2, <1>3 DEF FontIsWhole, ByteAt
<1> QED
  BY <1>2, <1>4 DEF FontInv, Ascending

\* The same eight pixels in a longer bitmap.
LEMMA ByteStays ==
  ASSUME NEW a \in Seq({0, 1}), NEW b \in Seq({0, 1}), NEW n \in Nat, n >= 1, 8 * n <= Len(a)
  PROVE  ByteAt(Cat(a, b), n) = ByteAt(a, n)
<1>1. /\ Cat(a, b) \in Seq({0, 1}) /\ Len(Cat(a, b)) = Len(a) + Len(b) /\ Len(a) \in Nat /\ Len(b) \in Nat
      /\ \A k \in 1..Len(a) : Cat(a, b)[k] = a[k]
  BY CatParts
<1>2. \A k \in 1..8 : SubSeq(a, 8 * n - 7, 8 * n)[k] = a[8 * n - 8 + k]
  BY <1>1
<1>3. \A k \in 1..8 : SubSeq(Cat(a, b), 8 * n - 7, 8 * n)[k] = Cat(a, b)[8 * n - 8 + k]
  BY <1>1
<1>4. \A k \in 1..8 : 8 * n - 8 + k \in 1..Len(a)
  BY <1>1
<1>5. \A k \in 1..8 : SubSeq(Cat(a, b), 8 * n - 7, 8 * n)[k] = SubSeq(a, 8 * n - 7, 8 * n)[k]
  BY <1>1, <1>2, <1>3, <1>4
<1> DEFINE e == SubSeq(Cat(a, b), 8 * n - 7, 8 * n)
           f == SubSeq(a, 8 * n - 7, 8 * n)
<1>6. /\ e[1] = f[1] /\ e[2] = f[2] /\ e[3] = f[3] /\ e[4] = f[4]
      /\ e[5] = f[5] /\ e[6] = f[6] /\ e[7] = f[7] /\ e[8] = f[8]
  <2>1. \A k \in 1..8 : e[k] = f[k]
    BY <1>5
  <2> HIDE DEF e, f
  <2> QED
    BY <2>1
<1> QED
  BY <1>6, Zenon DEF ByteAt

\* The pixels of two bitmaps one after the other.
LEMMA CatBits ==
  ASSUME NEW a \in Seq({0, 1}), NEW b \in Seq({0, 1})
  PROVE  /\ Cat(a, b) \in Seq({0, 1}) /\ Len(Cat(a, b)) = Len(a) + Len(b)
         /\ \A k \in 1..Len(b) : Cat(a, b)[Len(a) + k] = b[k]
BY DEF Cat

\* Eight pixels more are the byte they were made of.
LEMMA ByteAdded ==
  ASSUME NEW a \in Seq({0, 1}), NEW b \in Seq({0, 1}), NEW q \in Nat, Len(a) = 8 * q, Len(b) = 8,
         NEW v \in 0..255, \A k \in 1..8 : b[k] = Bit(v, k - 1)
  PROVE  ByteAt(Cat(a, b), q + 1) = v
<1>1. /\ Cat(a, b) \in Seq({0, 1}) /\ Len(Cat(a, b)) = Len(a) + Len(b)
      /\ \A k \in 1..Len(b) : Cat(a, b)[Len(a) + k] = b[k]
  BY CatBits, Zenon
<1>2. 8 * (q + 1) - 7 = 8 * q + 1 /\ 8 * (q + 1) = 8 * q + 8
  OBVIOUS
<1>3. \A k \in 1..8 : SubSeq(Cat(a, b), 8 * q + 1, 8 * q + 8)[k] = Cat(a, b)[8 * q + k]
  BY <1>1
<1>4. \A k \in 1..8 : SubSeq(Cat(a, b), 8 * q + 1, 8 * q + 8)[k] = Bit(v, k - 1)
  BY <1>1, <1>3
<1> DEFINE e == SubSeq(Cat(a, b), 8 * q + 1, 8 * q + 8)
<1>5. /\ e[1] = Bit(v, 0) /\ e[2] = Bit(v, 1) /\ e[3] = Bit(v, 2) /\ e[4] = Bit(v, 3)
      /\ e[5] = Bit(v, 4) /\ e[6] = Bit(v, 5) /\ e[7] = Bit(v, 6) /\ e[8] = Bit(v, 7)
  <2> HIDE DEF e
  <2>1. \A k \in 1..8 : e[k] = Bit(v, k - 1)
    BY <1>4 DEF e
  <2> QED
    BY <2>1
<1>6. ByteAt(Cat(a, b), q + 1)
        = 128 * e[1] + 64 * e[2] + 32 * e[3] + 16 * e[4] + 8 * e[5] + 4 * e[6] + 2 * e[7] + e[8]
  BY <1>2 DEF ByteAt
<1> HIDE DEF e
<1>7. ByteAt(Cat(a, b), q + 1)
        = 128 * Bit(v, 0) + 64 * Bit(v, 1) + 32 * Bit(v, 2) + 16 * Bit(v, 3) + 8 * Bit(v, 4) + 4 * Bit(v, 5)
          + 2 * Bit(v, 6) + Bit(v, 7)
  BY <1>5, <1>6, Zenon
<1> QED
  BY <1>7, BitsOfByte, Zenon

\* The functions that walk a string, those that cut and those that draw.
TextFns == {"gr_measureEx", "gr_maxExW", "gr_textEx", "gr_textExW", "gr_textExWH", "gr_text"}
Cuts == {"gr_textExW", "gr_textExWH"}
Draws == {"gr_textEx", "gr_text", "gr_textExW", "gr_textExWH"}

\* The characters with a glyph among the first k.
Glyphs(s, k) == {i \in 1..k : Glyph(s[i])}

\* Before the first call nothing is drawn.
QuietInv ==
  textPc \in {"off", "load", "garbage", "idle"} =>
    call = NoCall /\ at = 1 /\ penX = 0 /\ fits = 0 /\ inked = {} /\ bottoms = {}

\* The shapes of the variables of a call.
LineTypes ==
  at \in 1..(Len(call.s) + 1) /\ penX \in Int /\ fits \in 0..at /\ bottoms \subseteq Int

\* In a loop: the pen is at the end of the line of the characters that were
\* walked, and that line is drawn.
LoopInv ==
  textPc = "loop" =>
    /\ call.fn \in TextFns /\ call.s \in Seq(0..NoGlyph) /\ call.limit \in Int /\ call.height \in Int
    /\ call.fn = "gr_text" => Fixed
    /\ call.fn \in {"gr_measureEx", "gr_maxExW"} => penX = Len(LineTo(at - 1))
    /\ call.fn = "gr_maxExW" => fits = Cardinality(Glyphs(call.s, at - 1)) /\ (fits > 0 => penX < call.limit)
    /\ call.fn \in Draws => /\ penX = TextX + Len(LineTo(at - 1))
                            /\ inked = Pixels(LineTo(at - 1), call.fn \in Cuts, call.limit)
    /\ call.fn = "gr_textExW" => penX < call.limit \/ penX = TextX

\* At the end, what each function promises.
DoneInv ==
  textPc = "done" => DrawsTheLine /\ ReturnsTheEnd /\ MaxIsMaximal /\ CircleIsRound /\ PlacedInside

\* The inductive invariant.
TextInv == FontInv /\ QuietInv /\ LineTypes /\ HeightIsKept /\ LoopInv /\ DoneInv

\* The inductive invariant implies what the run checks.
LEMMA InvIsRight ==
  ASSUME TextInv PROVE TextIsRight
<1>1. TextTypeOK /\ FontIsWhole
  BY FontRight DEF TextInv, FontInv, LineTypes, TextTypeOK
<1>2. CASE textPc = "done"
  BY <1>1, <1>2 DEF TextInv, DoneInv, TextIsRight
<1>3. CASE textPc = "loop"
  <2>1. call.fn \in TextFns
    BY <1>3 DEF TextInv, LoopInv
  <2> QED
    BY <1>1, <1>3, <2>1
    DEF TextInv, TextFns, TextIsRight, DrawsTheLine, ReturnsTheEnd, MaxIsMaximal, CircleIsRound, PlacedInside
<1>4. CASE textPc \in {"off", "load", "garbage", "idle"}
  <2>1. call.fn = "none"
    BY <1>4 DEF TextInv, QuietInv, NoCall
  <2> QED
    BY <1>1, <1>4, <2>1
    DEF TextInv, TextIsRight, DrawsTheLine, ReturnsTheEnd, MaxIsMaximal, CircleIsRound, PlacedInside
<1> QED
  BY <1>2, <1>3, <1>4 DEF TextInv, FontInv

-----------------------------------------------------------------------------
\* Before a font is there.
LEMMA TextInitInv ==
  ASSUME TextInit PROVE TextInv
<1>1. Ascending(fontOffset)
  BY TextAssumption DEF TextInit, Ascending
<1>2. FontInv
  BY <1>1 DEF TextInit, FontInv
<1>3. Len(NoCall.s) = 0
  BY DEF NoCall
<1> QED
  BY <1>2, <1>3 DEF TextInit, TextInv, QuietInv, LineTypes, HeightIsKept, LoopInv, DoneInv

\* A step of gr_init_font and gr_loadFont.
LEMMA FontStep ==
  ASSUME TextInv, FontInv', UNCHANGED lineVars, textPc \in {"off", "load"},
         textPc' \in {"load", "garbage", "idle"}
  PROVE  TextInv'
BY DEF TextInv, lineVars, QuietInv, LineTypes, HeightIsKept, LoopInv, DoneInv

\* gr_init_font: the glyphs of one width ascend.
LEMMA BuiltInInv ==
  ASSUME TextInv, BuiltInFont PROVE TextInv'
<1>1. PICK cwidth \in GlyphWidths \ {0} : fontOffset' = [i \in 0..NoGlyph |-> i * cwidth]
  BY DEF BuiltInFont
<1>2. /\ textPc = "off" /\ textPc' = "idle" /\ fontFile' = fontFile /\ fontBits' = fontBits /\ fontByte' = fontByte
      /\ UNCHANGED lineVars
  BY DEF BuiltInFont
<1>3. Ascending(fontOffset')
  <2>1. NoGlyph \in Nat /\ cwidth \in Nat
    BY TextAssumption
  <2>2. \A i \in 0..NoGlyph : i * cwidth \in Nat
    BY <2>1
  <2>3. ASSUME NEW c \in 0..(NoGlyph - 1) PROVE c * cwidth <= (c + 1) * cwidth
    <3>1. (c + 1) * cwidth = c * cwidth + cwidth
      BY <2>1
    <3>2. c * cwidth \in Nat
      BY <2>1, <2>2
    <3> QED
      BY <2>1, <3>1, <3>2
  <2>4. fontOffset' \in [0..NoGlyph -> Nat] /\ fontOffset'[0] = 0
    BY <1>1, <2>1, <2>2
  <2>5. \A c \in 0..(NoGlyph - 1) : fontOffset'[c] = c * cwidth /\ fontOffset'[c + 1] = (c + 1) * cwidth
    BY <1>1, <2>1
  <2> QED
    BY <2>3, <2>4, <2>5 DEF Ascending
<1>4. FontInv'
  <2>1. Len(fontBits) = 0
    BY <1>2 DEF TextInv, FontInv
  <2> QED
    BY <1>2, <1>3, <2>1 DEF TextInv, FontInv
<1> QED
  BY <1>2, <1>4, FontStep

\* gr_loadFont of a file without a whole header.
LEMMA ShortInv ==
  ASSUME TextInv, ShortHeader PROVE TextInv'
<1>1. textPc = "off" /\ textPc' = "garbage" /\ UNCHANGED lineVars
  BY DEF ShortHeader
<1>2. FontInv /\ fontBits = << >> /\ fontFile = << >> /\ Len(fontBits) = 0
  BY <1>1 DEF TextInv, FontInv
<1>3. FontInv'
  BY <1>1, <1>2 DEF ShortHeader, fontVars, FontInv
<1> QED
  BY <1>1, <1>3, FontStep

\* gr_loadFont reads a header.
LEMMA OpenInv ==
  ASSUME TextInv, OpenFont PROVE TextInv'
<1>1. PICK w \in [0..(NoGlyph - 1) -> GlyphWidths] : fontOffset' = Offsets(w)
  BY DEF OpenFont
<1>2. textPc = "off" /\ textPc' = "load" /\ fontBits' = fontBits /\ UNCHANGED lineVars
  BY DEF OpenFont
<1>3. Ascending(fontOffset')
  BY <1>1, OffsetsAscend
<1>4. fontByte' \in 0..255 /\ fontFile' \in Seq(0..255)
  <2>1. PICK n \in 0..2 : fontFile' \in [1..n -> FontBytes]
    BY DEF OpenFont
  <2>2. \A b \in FontBytes : b \in 0..255
    BY TextAssumption
  <2>3. fontFile' \in [1..n -> 0..255]
    BY <2>1, <2>2
  <2> QED
    BY <2>2, <2>3 DEF OpenFont
<1>5. fontBits' = << >> /\ Len(fontBits') = 0
  BY <1>2 DEF TextInv, FontInv
<1>6. FontSize' \in Nat
  <2>1. fontOffset'[NoGlyph] \in Nat /\ FontHeight \in Nat
    BY <1>3, TextAssumption DEF Ascending
  <2> QED
    BY <2>1 DEF FontSize, FontWidth
<1>7. /\ Len(fontBits') <= FontSize' /\ \E q \in Nat : Len(fontBits') = 8 * q
      /\ \A n \in 1..Len(fontFile') : ~(8 * n <= Len(fontBits'))
  <2>1. Len(fontBits') = 8 * 0
    BY <1>5
  <2> QED
    BY <1>4, <1>5, <1>6, <2>1
<1>8. FontInv'
  BY <1>2, <1>3, <1>4, <1>5, <1>7 DEF FontInv
<1> QED
  BY <1>2, <1>8, FontStep

\* gr_loadFont ends with a bitmap that is full.
LEMMA CloseInv ==
  ASSUME TextInv, CloseFont PROVE TextInv'
<1>1. /\ textPc = "load" /\ textPc' = "idle" /\ Len(fontBits) >= FontSize /\ fontFile' = << >> /\ fontByte' = 0
      /\ fontOffset' = fontOffset /\ fontBits' = fontBits /\ UNCHANGED lineVars
  BY DEF CloseFont
<1>2. FontSize \in Nat /\ FontSize' = FontSize
  BY <1>1, SizeTyped DEF TextInv, FontInv, FontSize, FontWidth
<1>3. Len(fontBits) = FontSize
  BY <1>1, <1>2 DEF TextInv, FontInv
<1>4. FontInv'
  BY <1>1, <1>2, <1>3 DEF TextInv, FontInv
<1> QED
  BY <1>1, <1>4, FontStep

\* gr_loadFont adds a byte, or what is left of the last one.
LEMMA LoadInv ==
  ASSUME TextInv, LoadByte PROVE TextInv'
<1> DEFINE n == Len(fontBits) \div 8 + 1
           left == FontSize - Len(fontBits)
           m == IF left < 8 THEN left ELSE 8
           add == [b \in 1..m |-> Bit(fontByte', b - 1)]
<1>1. /\ textPc = "load" /\ textPc' = "load" /\ Len(fontBits) < FontSize
      /\ fontByte' = (IF n <= Len(fontFile) THEN fontFile[n] ELSE fontByte)
      /\ fontBits' = fontBits \o add
      /\ fontOffset' = fontOffset /\ fontFile' = fontFile /\ UNCHANGED lineVars
  BY DEF LoadByte
<1>2. /\ FontSize \in Nat /\ FontSize' = FontSize /\ fontBits \in Seq({0, 1}) /\ fontFile \in Seq(0..255)
      /\ fontByte \in 0..255 /\ Len(fontBits) \in Nat
  BY <1>1, SizeTyped DEF TextInv, FontInv, FontSize, FontWidth
<1>3. PICK q \in Nat : Len(fontBits) = 8 * q
  BY <1>1, <1>2 DEF TextInv, FontInv
<1>4. n = q + 1 /\ m \in 1..8 /\ m <= left /\ (m = 8 \/ m = left)
  BY <1>1, <1>2, <1>3
<1>5. fontByte' \in 0..255
  <2>1. CASE n <= Len(fontFile)
    <3>1. n \in 1..Len(fontFile)
      BY <1>2, <1>4, <2>1
    <3>2. fontFile[n] \in 0..255
      BY <1>2, <3>1, ElementIn, Zenon
    <3> QED
      BY <1>1, <2>1, <3>2
  <2>2. CASE ~(n <= Len(fontFile))
    BY <1>1, <1>2, <2>2
  <2> QED
    BY <2>1, <2>2
<1> HIDE DEF n, m
<1>6. add \in Seq({0, 1}) /\ Len(add) = m /\ \A k \in 1..m : add[k] = Bit(fontByte', k - 1)
  <2>1. \A k \in 1..m : Bit(fontByte', k - 1) \in {0, 1}
    <3>1. PICK v \in 0..255 : v = fontByte'
      BY <1>5
    <3>2. \A k \in 1..8 : Bit(v, k - 1) \in {0, 1}
      BY BitsOfByte
    <3>3. \A k \in 1..m : k \in 1..8
      BY <1>4
    <3> QED
      BY <3>1, <3>2, <3>3
  <2>2. add \in [1..m -> {0, 1}]
    BY <2>1
  <2> QED
    BY <1>4, <2>2
<1> HIDE DEF add
<1>7. /\ fontBits' = Cat(fontBits, add) /\ fontBits' \in Seq({0, 1}) /\ Len(fontBits') = 8 * q + m
  <2>1. fontBits' = Cat(fontBits, add)
    BY <1>1 DEF Cat
  <2>2. Cat(fontBits, add) \in Seq({0, 1}) /\ Len(Cat(fontBits, add)) = Len(fontBits) + Len(add)
    BY <1>2, <1>6, CatBits
  <2> QED
    BY <1>3, <1>6, <2>1, <2>2
<1>8. Len(fontBits') <= FontSize' /\ (Len(fontBits') = FontSize' \/ \E p \in Nat : Len(fontBits') = 8 * p)
  <2>1. CASE m = 8
    <3>1. Len(fontBits') = 8 * (q + 1) /\ q + 1 \in Nat
      BY <1>7, <2>1
    <3>2. \E p \in Nat : Len(fontBits') = 8 * p
      BY <3>1
    <3>3. 8 <= FontSize - Len(fontBits)
      BY <1>4, <2>1
    <3>4. 8 * (q + 1) <= FontSize
      BY <1>2, <1>3, <3>3
    <3> QED
      BY <1>2, <3>1, <3>2, <3>4
  <2>2. CASE m = left
    BY <1>2, <1>3, <1>7, <2>2
  <2> QED
    BY <1>4, <2>1, <2>2
<1>9. ASSUME NEW k \in 1..Len(fontFile'), 8 * k <= Len(fontBits') PROVE fontFile'[k] = ByteAt(fontBits', k)
  <2>1. k \in Nat /\ k >= 1 /\ k \in 1..Len(fontFile)
    BY <1>1, <1>2
  <2>2. CASE k <= q
    <3>1. 8 * k <= Len(fontBits)
      BY <1>3, <2>1, <2>2
    <3>2. fontFile[k] = ByteAt(fontBits, k)
      BY <1>1, <2>1, <3>1 DEF TextInv, FontInv
    <3>3. ByteAt(Cat(fontBits, add), k) = ByteAt(fontBits, k)
      BY <1>2, <1>6, <2>1, <3>1, ByteStays
    <3> QED
      BY <1>1, <1>7, <3>2, <3>3
  <2>3. CASE ~(k <= q)
    <3>1. k = q + 1 /\ m = 8
      BY <1>4, <1>7, <1>9, <2>1, <2>3
    <3>2. n <= Len(fontFile) /\ n = k
      BY <1>2, <1>4, <2>1, <3>1
    <3>3. fontByte' = fontFile[k]
      BY <1>1, <3>2
    <3>4. ByteAt(Cat(fontBits, add), q + 1) = fontByte'
      <4>1. PICK v \in 0..255 : v = fontByte'
        BY <1>5
      <4>2. Len(add) = 8 /\ \A j \in 1..8 : add[j] = Bit(v, j - 1)
        BY <1>6, <3>1, <4>1
      <4>3. ByteAt(Cat(fontBits, add), q + 1) = v
        <5>1. /\ fontBits \in Seq({0, 1}) /\ add \in Seq({0, 1}) /\ Len(fontBits) = 8 * q /\ Len(add) = 8
              /\ \A j \in 1..8 : add[j] = Bit(v, j - 1)
          BY <1>2, <1>3, <1>6, <4>2
        <5> QED
          BY <5>1, ByteAdded, Zenon
      <4> QED
        BY <4>1, <4>3
    <3> QED
      BY <1>1, <1>7, <3>1, <3>3, <3>4
  <2> QED
    BY <2>2, <2>3
<1>10. FontInv'
  BY <1>1, <1>2, <1>5, <1>7, <1>8, <1>9 DEF TextInv, FontInv
<1> QED
  BY <1>1, <1>10, FontStep

\* The first k characters have at most k glyphs.
LEMMA GlyphsFinite ==
  ASSUME NEW s, NEW k \in Nat
  PROVE  IsFiniteSet(Glyphs(s, k)) /\ Cardinality(Glyphs(s, k)) \in 0..k
<1>1. IsFiniteSet(1..k) /\ Cardinality(1..k) = k
  BY FS_Interval
<1>2. Glyphs(s, k) \in SUBSET (1..k)
  BY DEF Glyphs
<1>3. IsFiniteSet(Glyphs(s, k)) /\ Cardinality(Glyphs(s, k)) <= Cardinality(1..k)
  BY <1>1, <1>2, FS_Subset
<1>4. Cardinality(Glyphs(s, k)) \in Nat
  BY <1>3, FS_CardinalityType
<1> QED
  BY <1>1, <1>3, <1>4

\* Longer beginnings of a string have no fewer glyphs.
LEMMA GlyphsGrow ==
  ASSUME NEW s, NEW j \in Nat, NEW k \in Nat, k <= j
  PROVE  Cardinality(Glyphs(s, k)) <= Cardinality(Glyphs(s, j))
<1>1. IsFiniteSet(Glyphs(s, j))
  BY GlyphsFinite
<1>2. Glyphs(s, k) \in SUBSET Glyphs(s, j)
  BY DEF Glyphs
<1> QED
  BY <1>1, <1>2, FS_Subset

\* One character more counts when it has a glyph.
LEMMA GlyphsStep ==
  ASSUME NEW s, NEW k \in Nat, k >= 1
  PROVE  Cardinality(Glyphs(s, k)) = Cardinality(Glyphs(s, k - 1)) + (IF Glyph(s[k]) THEN 1 ELSE 0)
<1>1. IsFiniteSet(Glyphs(s, k - 1)) /\ Cardinality(Glyphs(s, k - 1)) \in Nat
  BY GlyphsFinite
<1>2. CASE Glyph(s[k])
  <2>1. Glyphs(s, k) = Glyphs(s, k - 1) \cup {k}
    BY <1>2 DEF Glyphs
  <2>2. k \notin Glyphs(s, k - 1)
    BY DEF Glyphs
  <2> QED
    BY <1>1, <1>2, <2>1, <2>2, FS_AddElement
<1>3. CASE ~Glyph(s[k])
  <2>1. Glyphs(s, k) = Glyphs(s, k - 1)
    BY <1>3 DEF Glyphs
  <2> QED
    BY <1>1, <1>3, <2>1
<1> QED
  BY <1>2, <1>3

\* In a font of one width every glyph has it.
LEMMA FixedWidth ==
  ASSUME Ascending(fontOffset), Fixed, NEW c \in 0..NoGlyph, Glyph(c)
  PROVE  fontOffset[c + 1] - fontOffset[c] = fontOffset[1]
<1>1. NoGlyph \in Nat /\ NoGlyph >= 1 /\ c \in Nat /\ c + 1 \in 1..NoGlyph /\ fontOffset[0] = 0
  BY TextAssumption DEF Ascending, Glyph
<1>2. PICK w \in Nat : w = fontOffset[1]
  BY <1>1 DEF Ascending
<1>3. \A i \in 1..NoGlyph : fontOffset[i] = i * w
  BY <1>2 DEF Fixed
<1>4. fontOffset[c + 1] = (c + 1) * w
  BY <1>1, <1>3
<1>5. fontOffset[c] = c * w
  <2>1. CASE c = 0
    BY <1>1, <2>1
  <2>2. CASE c # 0
    <3>1. c \in 1..NoGlyph
      BY <1>1, <2>2
    <3> QED
      BY <1>3, <3>1
  <2> QED
    BY <2>1, <2>2
<1>6. (c + 1) * w = c * w + w /\ c * w \in Nat
  BY <1>1
<1> QED
  BY <1>2, <1>4, <1>5, <1>6

\* One character more: the line and the columns of the character.
LEMMA StepLine ==
  ASSUME TextInv, textPc = "loop", at <= Len(call.s)
  PROVE  /\ at \in 1..Len(call.s) /\ call.s \in Seq(0..NoGlyph) /\ call.s[at] \in 0..NoGlyph /\ Ascending(fontOffset)
         /\ LineTo(at - 1) \in Seq(Int) /\ LineTo(at) \in Seq(Int)
         /\ LineTo(at) = Cat(LineTo(at - 1), Columns(fontOffset, call.fn = "gr_text", call.s[at]))
<1>1. call.s \in Seq(0..NoGlyph) /\ Ascending(fontOffset) /\ at \in 1..(Len(call.s) + 1)
  BY DEF TextInv, LoopInv, FontInv, LineTypes
<1>2. Len(call.s) \in Nat /\ at \in 1..Len(call.s) /\ at - 1 \in 0..Len(call.s) /\ at \in 0..Len(call.s)
  BY <1>1
<1>3. call.s[at] \in 0..NoGlyph
  BY <1>1, <1>2, ElementIn, Zenon
<1>4. \A i \in 0..Len(call.s) : LineTo(i) \in Seq(Int)
  BY <1>1, LineTyped DEF LineTo
<1>5. \A i \in 1..Len(call.s) : LineTo(i) = Cat(LineTo(i - 1), Columns(fontOffset, call.fn = "gr_text", call.s[i]))
  BY <1>2, LineSteps DEF LineTo
<1> QED
  BY <1>1, <1>2, <1>3, <1>4, <1>5

\* How much longer the line is: the width of the character, or of the gap of CWM.
LEMMA StepLength ==
  ASSUME TextInv, textPc = "loop", at <= Len(call.s)
  PROVE  /\ CWidth(call.s[at]) \in Nat /\ Len(LineTo(at - 1)) \in Nat /\ fontOffset[1] \in Nat
         /\ Len(LineTo(at)) = Len(LineTo(at - 1)) + (IF call.fn = "gr_text" THEN fontOffset[1] ELSE CWidth(call.s[at]))
         /\ call.fn = "gr_text" /\ Glyph(call.s[at]) => CWidth(call.s[at]) = fontOffset[1]
<1> DEFINE c == call.s[at]
           gaps == call.fn = "gr_text"
           m == Columns(fontOffset, gaps, c)
<1>1. /\ c \in 0..NoGlyph /\ Ascending(fontOffset) /\ LineTo(at - 1) \in Seq(Int)
      /\ LineTo(at) = Cat(LineTo(at - 1), m)
  BY StepLine
<1>2. m \in Seq(Int)
  BY <1>1, ColumnsTyped
<1> HIDE DEF m, c
<1>3. Len(LineTo(at)) = Len(LineTo(at - 1)) + Len(m) /\ Len(LineTo(at - 1)) \in Nat
  BY <1>1, <1>2, CatLines
<1>4. fontOffset[1] \in Nat
  BY <1>1, TextAssumption DEF Ascending
<1>5. CASE Glyph(c)
  <2>1. /\ fontOffset[c] \in Nat /\ fontOffset[c + 1] \in Nat /\ fontOffset[c] <= fontOffset[c + 1]
        /\ Len(m) = fontOffset[c + 1] - fontOffset[c]
    BY <1>1, <1>5, GlyphColumns DEF m
  <2>2. CWidth(c) = fontOffset[c + 1] - fontOffset[c]
    BY <1>5 DEF CWidth
  <2>3. gaps => CWidth(c) = fontOffset[1]
    BY <1>1, <1>5, <2>2, FixedWidth DEF TextInv, LoopInv
  <2> QED
    BY <1>3, <1>4, <2>1, <2>2, <2>3 DEF c
<1>6. CASE ~Glyph(c)
  <2>1. Len(m) = IF gaps THEN fontOffset[1] ELSE 0
    BY <1>1, <1>6, GapColumns DEF m
  <2>2. CWidth(c) = 0
    BY <1>6 DEF CWidth
  <2> QED
    BY <1>3, <1>4, <1>6, <2>1, <2>2 DEF c
<1> QED
  BY <1>5, <1>6

\* The rectangle recti fills.
GlyphBox(offs, c, x, to) == {<<px, offs[c] + px - x>> : px \in x..(to - 1)}

\* The same of the rectangle by name.
LEMMA DrawBox ==
  ASSUME NEW offs, Ascending(offs), NEW gaps, NEW c \in 0..NoGlyph, Glyph(c), NEW l \in Seq(Int),
         NEW cut \in BOOLEAN, NEW limit \in Int
  PROVE  Pixels(Cat(l, Columns(offs, gaps, c)), cut, limit) = Pixels(l, cut, limit)
           \cup GlyphBox(offs, c, TextX + Len(l), Edge(TextX + Len(l) + (offs[c + 1] - offs[c]), cut, limit))
BY DrawGlyph DEF GlyphBox

\* What one character adds to the pixels.
LEMMA StepDrawn ==
  ASSUME TextInv, textPc = "loop", at <= Len(call.s), NEW cut \in BOOLEAN
  PROVE  LET c == call.s[at]
             x == TextX + Len(LineTo(at - 1))
         IN  /\ Glyph(c) => Pixels(LineTo(at), cut, call.limit) = Pixels(LineTo(at - 1), cut, call.limit)
                               \cup Recti(c, x, Edge(x + CWidth(c), cut, call.limit))
             /\ ~Glyph(c) => Pixels(LineTo(at), cut, call.limit) = Pixels(LineTo(at - 1), cut, call.limit)
<1> DEFINE c == call.s[at]
           gaps == call.fn = "gr_text"
           l == LineTo(at - 1)
           x == TextX + Len(l)
<1>1. /\ c \in 0..NoGlyph /\ Ascending(fontOffset) /\ l \in Seq(Int)
      /\ LineTo(at) = Cat(l, Columns(fontOffset, gaps, c))
  BY StepLine
<1>2. call.limit \in Int
  BY DEF TextInv, LoopInv
<1>3. CASE Glyph(c)
  <2>1. Pixels(Cat(l, Columns(fontOffset, gaps, c)), cut, call.limit) =
          Pixels(l, cut, call.limit)
            \cup GlyphBox(fontOffset, c, x, Edge(x + (fontOffset[c + 1] - fontOffset[c]), cut, call.limit))
    <3> HIDE DEF c, l, gaps
    <3> QED
      BY <1>1, <1>2, <1>3, DrawBox
  <2>2. CWidth(c) = fontOffset[c + 1] - fontOffset[c]
    BY <1>3 DEF CWidth
  <2> QED
    BY <1>1, <1>3, <2>1, <2>2 DEF Recti, GlyphBox
<1>4. CASE ~Glyph(c)
  BY <1>1, <1>2, <1>4, DrawGap
<1> QED
  BY <1>3, <1>4

\* A text function leaves the font alone.
LEMMA FontKept ==
  ASSUME FontInv, UNCHANGED fontVars, textPc \notin {"off", "load"}, textPc' \in {"idle", "loop", "done"}
  PROVE  FontInv'
<1>1. FontSize' = FontSize
  BY DEF fontVars, FontSize, FontWidth
<1> QED
  BY <1>1 DEF FontInv, fontVars

\* While the string and the font stay, so does the line.
LEMMA LineKept ==
  ASSUME UNCHANGED <<call, fontVars>>
  PROVE  /\ \A i : LineTo(i)' = LineTo(i)
         /\ Line' = Line
BY DEF fontVars, LineTo, Line

\* The loop goes on: what the next character has to keep.
LEMMA LoopsOn ==
  ASSUME TextInv, textPc = "loop", textPc' = "loop", at <= Len(call.s), at' = at + 1, UNCHANGED <<call, fontVars>>,
         LineTypes', HeightIsKept',
         call.fn \in {"gr_measureEx", "gr_maxExW"} => penX' = Len(LineTo(at)),
         call.fn = "gr_maxExW" => fits' = Cardinality(Glyphs(call.s, at)) /\ (fits' > 0 => penX' < call.limit),
         call.fn \in Draws => /\ penX' = TextX + Len(LineTo(at))
                              /\ inked' = Pixels(LineTo(at), call.fn \in Cuts, call.limit),
         call.fn = "gr_textExW" => penX' < call.limit \/ penX' = TextX
  PROVE  TextInv'
<1>1. FontInv'
  BY FontKept DEF TextInv
<1>2. PICK n \in Nat : n = at
  BY StepLine
<1>3. at' - 1 = n
  BY <1>2
<1>4. LineTo(n)' = LineTo(n)
  BY LineKept
<1>5. LineTo(at - 1)' = LineTo(at)
  BY <1>2, <1>3, <1>4 DEF LineTo
<1>6. Fixed' = Fixed
  BY DEF fontVars, Fixed
<1>7. LoopInv'
  <2>1. /\ call'.fn \in TextFns /\ call'.s \in Seq(0..NoGlyph) /\ call'.limit \in Int /\ call'.height \in Int
        /\ call'.fn = "gr_text" => Fixed'
    BY <1>6 DEF TextInv, LoopInv
  <2>2. call' = call
    OBVIOUS
  <2> QED
    BY <1>2, <1>3, <1>5, <2>1, <2>2 DEF LoopInv
<1> QED
  BY <1>1, <1>7 DEF TextInv, QuietInv, DoneInv

\* The loop ends: what the function has to have done.
LEMMA LoopEnds ==
  ASSUME TextInv, textPc = "loop", textPc' = "done", UNCHANGED <<call, fontVars>>, LineTypes', HeightIsKept',
         call.fn \in Draws => inked' = Pixels(Line, call.fn \in Cuts, call.limit),
         call.fn = "gr_measureEx" => penX' = Len(Line),
         call.fn \in {"gr_textEx", "gr_text"} => penX' = TextX + Len(Line),
         call.fn = "gr_textExW" /\ TextX <= call.limit =>
           penX' = (IF TextX + Len(Line) < call.limit THEN TextX + Len(Line) ELSE call.limit),
         call.fn = "gr_textExWH" =>
           penX' = TextX + Len(LineTo(at' - 1)) /\ (at' <= Len(call.s) => call.limit < penX'),
         call.fn = "gr_maxExW" =>
           /\ fits' > 0 => Len(LineTo(fits')) < call.limit
           /\ \A k \in 1..Len(call.s) : Cardinality(Glyphs(call.s, k)) = fits' + 1 => Len(LineTo(k)) >= call.limit
  PROVE  TextInv'
<1>1. FontInv'
  BY FontKept DEF TextInv
<1>2. Line' = Line /\ call' = call
  BY LineKept
<1>3. DrawsTheLine'
  BY <1>2 DEF DrawsTheLine, Draws, Cuts
<1>4. ReturnsTheEnd'
  <2>1. LineTo(at - 1)' = LineTo(at' - 1)
    BY <1>2 DEF LineTo, fontVars
  <2> QED
    BY <1>2, <2>1 DEF ReturnsTheEnd
<1>5. MaxIsMaximal'
  <2>1. SUFFICES ASSUME call.fn = "gr_maxExW" PROVE MaxIsMaximal'
    BY <1>2 DEF MaxIsMaximal
  <2>2. PICK f \in Nat : f = fits'
    BY DEF LineTypes
  <2>3. \A i : LineTo(i)' = LineTo(i)
    BY LineKept
  <2>4. LineTo(fits)' = LineTo(f)
    BY <1>2, <2>2 DEF LineTo, fontVars
  <2>5. \A k \in 1..Len(call'.s) : Cardinality({i \in 1..k : Glyph(call'.s[i])}) = fits' + 1 =>
          Len(LineTo(k)') >= call'.limit
    BY <1>2, <2>1, <2>3 DEF Glyphs
  <2>6. fits' > 0 => Len(LineTo(fits)') < call'.limit
    BY <1>2, <2>1, <2>2, <2>4
  <2> QED
    BY <2>5, <2>6 DEF MaxIsMaximal
<1>6. CircleIsRound' /\ PlacedInside'
  BY <1>2 DEF TextInv, LoopInv, TextFns, CircleIsRound, PlacedInside
<1> QED
  BY <1>1, <1>3, <1>4, <1>5, <1>6 DEF TextInv, QuietInv, LoopInv, DoneInv

\* A function of the first numbers is a sequence.
LEMMA FunctionIsSeq ==
  ASSUME NEW S, NEW n \in Nat, NEW s \in [1..n -> S]
  PROVE  s \in Seq(S)
OBVIOUS

\* A text function begins with the empty line.
LEMMA BeginTextInv ==
  ASSUME TextInv, BeginText PROVE TextInv'
<1>1. PICK fn \in TextFunctions, s \in Strings, limit \in Limits \cup {-1}, height \in Limits \cup {-1} :
        /\ call' = [fn |-> fn, s |-> s, limit |-> limit, height |-> height]
        /\ penX' = IF fn \in {"gr_measureEx", "gr_maxExW"} THEN 0 ELSE TextX
  BY DEF BeginText
<1>2. /\ textPc = "idle" /\ textPc' = "loop" /\ UNCHANGED fontVars
      /\ at' = 1 /\ fits' = 0 /\ inked' = {} /\ bottoms' = {}
  BY DEF BeginText
<1>3. /\ call'.fn = fn /\ call'.s = s /\ call'.limit = limit /\ call'.height = height
  BY <1>1
<1>4. fn \in TextFns /\ (fn = "gr_text" => Fixed)
  BY DEF TextFunctions, TextFns
<1>5. s \in Seq(0..NoGlyph) /\ Len(s) \in Nat
  <2>1. PICK n \in 0..TextLength : s \in [1..n -> 0..NoGlyph]
    BY DEF Strings
  <2>2. n \in Nat
    BY TextAssumption
  <2>3. s \in Seq(0..NoGlyph)
    BY <2>1, <2>2, FunctionIsSeq, Zenon
  <2> QED
    BY <2>3
<1>6. limit \in Int /\ height \in Int /\ TextX \in Nat
  BY TextAssumption
<1>7. FontInv' /\ Fixed' = Fixed
  BY <1>2, FontKept DEF TextInv, fontVars, Fixed
<1>8. LineTo(at - 1)' = << >>
  <2>1. LineTo(at - 1)' = Lines(fontOffset', fn = "gr_text", s)[0]
    BY <1>2, <1>3 DEF LineTo
  <2>2. Lines(fontOffset, fn = "gr_text", s)[0] = << >>
    BY <1>5, LineSteps
  <2> QED
    BY <1>2, <2>1, <2>2 DEF fontVars
<1>9. Pixels(<< >>, TRUE, limit) = {} /\ Pixels(<< >>, FALSE, limit) = {} /\ Len(<< >>) = 0
  BY DEF Pixels, Seen
<1>10. Cardinality(Glyphs(s, 0)) = 0
  BY GlyphsFinite
<1>11. LineTypes' /\ HeightIsKept'
  BY <1>1, <1>2, <1>3, <1>5, <1>6 DEF LineTypes, HeightIsKept
<1>12. LoopInv'
  <2>1. penX' = Len(LineTo(at - 1)') \/ fn \notin {"gr_measureEx", "gr_maxExW"}
    BY <1>1, <1>8, <1>9
  <2>2. fn \in Draws => penX' = TextX + Len(LineTo(at - 1)') /\ inked' = Pixels(LineTo(at - 1)', fn \in Cuts, limit)
    <3>1. fn \in Draws => penX' = TextX
      BY <1>1 DEF Draws
    <3>2. Pixels(<< >>, fn \in Cuts, limit) = {}
      BY DEF Pixels, Seen
    <3> QED
      BY <1>2, <1>6, <1>8, <1>9, <3>1, <3>2
  <2>3. fits' = Cardinality(Glyphs(s, at' - 1))
    BY <1>2, <1>10
  <2>4. fn = "gr_textExW" => penX' = TextX
    BY <1>1
  <2> QED
    BY <1>2, <1>3, <1>4, <1>5, <1>6, <1>7, <2>1, <2>2, <2>3, <2>4 DEF LoopInv
<1> QED
  BY <1>2, <1>7, <1>11, <1>12 DEF TextInv, QuietInv, DoneInv

\* The shapes stay when a loop goes on to the next character.
LEMMA NextTypes ==
  ASSUME LineTypes, at \in 1..Len(call.s), Len(call.s) \in Nat, call' = call, at' = at + 1,
         penX' \in Int, fits' = fits \/ fits' = fits + 1, bottoms' \subseteq Int
  PROVE  LineTypes'
<1>1. PICK n \in Nat : n = Len(call.s)
  OBVIOUS
<1>2. PICK a \in 1..n : a = at
  BY <1>1
<1>3. PICK f \in 0..a : f = fits
  BY <1>2 DEF LineTypes
<1>4. a + 1 \in 1..(n + 1) /\ f \in 0..(a + 1) /\ f + 1 \in 0..(a + 1)
  BY <1>2
<1>5. at' = a + 1 /\ Len(call'.s) = n /\ (fits' = f \/ fits' = f + 1)
  BY <1>1, <1>2, <1>3
<1>6. at' \in 1..(Len(call'.s) + 1)
  BY <1>4, <1>5
<1>7. fits' \in 0..at'
  BY <1>4, <1>5
<1> QED
  BY <1>6, <1>7 DEF LineTypes

\* A loop that ends keeps the place and the count.
LEMMA SameTypes ==
  ASSUME LineTypes, call' = call, at' = at, fits' = fits, penX' \in Int, bottoms' = bottoms
  PROVE  LineTypes'
BY DEF LineTypes

\* gr_measureEx and gr_textEx.
LEMMA AddInv ==
  ASSUME TextInv, textPc = "loop", at <= Len(call.s), UNCHANGED <<call, fontVars>>,
         call.fn \in {"gr_measureEx", "gr_textEx"}, AddChar(call.s[at])
  PROVE  TextInv'
<1> DEFINE c == call.s[at]
<1>1. /\ penX' = penX + CWidth(c)
      /\ inked' = inked \cup (IF call.fn = "gr_textEx" /\ Glyph(c) THEN Recti(c, penX, penX + CWidth(c)) ELSE {})
      /\ at' = at + 1 /\ textPc' = textPc /\ fits' = fits /\ bottoms' = bottoms /\ call' = call
  BY DEF AddChar
<1>2. /\ CWidth(c) \in Nat /\ Len(LineTo(at - 1)) \in Nat /\ at \in 1..Len(call.s) /\ Len(call.s) \in Nat
      /\ Len(LineTo(at)) = Len(LineTo(at - 1)) + CWidth(c)
  BY StepLength, StepLine
<1>3. TextX \in Nat
  BY TextAssumption
<1>4. /\ LineTypes /\ HeightIsKept
      /\ call.fn = "gr_measureEx" => penX = Len(LineTo(at - 1))
      /\ call.fn = "gr_textEx" => /\ penX = TextX + Len(LineTo(at - 1))
                                  /\ inked = Pixels(LineTo(at - 1), call.fn \in Cuts, call.limit)
  BY DEF TextInv, LoopInv, Draws
<1>5. LineTypes' /\ HeightIsKept'
  <2>1. HeightIsKept'
    BY <1>1, <1>4 DEF HeightIsKept
  <2>2. penX' \in Int
    BY <1>1, <1>2, <1>4 DEF LineTypes
  <2>3. bottoms' \subseteq Int
    BY <1>1, <1>4 DEF LineTypes
  <2>4. LineTypes'
    BY <1>1, <1>2, <1>4, <2>2, <2>3, NextTypes
  <2> QED
    BY <2>1, <2>4
<1>6. CASE call.fn = "gr_measureEx"
  <2>1. penX' = Len(LineTo(at)) /\ call.fn \notin Draws
    BY <1>1, <1>2, <1>4, <1>6 DEF Draws
  <2> QED
    BY <1>1, <1>5, <1>6, <2>1, LoopsOn
<1>7. CASE call.fn = "gr_textEx"
  <2>1. penX' = TextX + Len(LineTo(at))
    BY <1>1, <1>2, <1>3, <1>4, <1>7
  <2>2. (call.fn \in Cuts) = FALSE
    BY <1>7 DEF Cuts
  <2>3. Edge(penX + CWidth(c), FALSE, call.limit) = penX + CWidth(c)
    BY DEF Edge
  <2>4. /\ Glyph(c) => Pixels(LineTo(at), FALSE, call.limit) = Pixels(LineTo(at - 1), FALSE, call.limit)
                               \cup Recti(c, penX, Edge(penX + CWidth(c), FALSE, call.limit))
        /\ ~Glyph(c) => Pixels(LineTo(at), FALSE, call.limit) = Pixels(LineTo(at - 1), FALSE, call.limit)
    BY <1>4, <1>7, StepDrawn
  <2> HIDE DEF c
  <2>5. inked' = Pixels(LineTo(at), FALSE, call.limit)
    <3>1. inked = Pixels(LineTo(at - 1), FALSE, call.limit)
      BY <1>4, <1>7, <2>2
    <3>2. CASE Glyph(c)
      BY <1>1, <1>7, <2>3, <2>4, <3>1, <3>2
    <3>3. CASE ~Glyph(c)
      BY <1>1, <1>7, <2>4, <3>1, <3>3
    <3> QED
      BY <3>2, <3>3
  <2>6. inked' = Pixels(LineTo(at), call.fn \in Cuts, call.limit)
    BY <2>2, <2>5
  <2> QED
    BY <1>1, <1>5, <1>7, <2>1, <2>6, LoopsOn
<1> QED
  BY <1>6, <1>7

\* gr_text of CWM.
LEMMA CwmInv ==
  ASSUME TextInv, textPc = "loop", at <= Len(call.s), UNCHANGED <<call, fontVars>>,
         call.fn = "gr_text", CwmChar(call.s[at])
  PROVE  TextInv'
<1> DEFINE c == call.s[at]
<1>1. /\ penX' = penX + fontOffset[1]
      /\ inked' = inked \cup (IF Glyph(c) THEN Recti(c, penX, penX + fontOffset[1]) ELSE {})
      /\ at' = at + 1 /\ textPc' = textPc /\ fits' = fits /\ bottoms' = bottoms /\ call' = call
  BY DEF CwmChar
<1>2. /\ Len(LineTo(at - 1)) \in Nat /\ at \in 1..Len(call.s) /\ Len(call.s) \in Nat /\ fontOffset[1] \in Nat
      /\ Len(LineTo(at)) = Len(LineTo(at - 1)) + fontOffset[1]
      /\ Glyph(c) => CWidth(c) = fontOffset[1]
  BY StepLength, StepLine
<1>3. TextX \in Nat
  BY TextAssumption
<1>4. (call.fn \in Cuts) = FALSE
  BY DEF Cuts
<1>5. /\ LineTypes /\ HeightIsKept /\ penX = TextX + Len(LineTo(at - 1))
      /\ inked = Pixels(LineTo(at - 1), call.fn \in Cuts, call.limit)
  BY DEF TextInv, LoopInv, Draws
<1>6. LineTypes' /\ HeightIsKept'
  <2>1. HeightIsKept'
    BY <1>1, <1>5 DEF HeightIsKept
  <2>2. penX' \in Int
    BY <1>1, <1>2, <1>5 DEF LineTypes
  <2>3. bottoms' \subseteq Int
    BY <1>1, <1>5 DEF LineTypes
  <2>4. LineTypes'
    BY <1>1, <1>2, <1>5, <2>2, <2>3, NextTypes
  <2> QED
    BY <2>1, <2>4
<1>7. penX' = TextX + Len(LineTo(at))
  BY <1>1, <1>2, <1>3, <1>5
<1>8. Edge(penX + CWidth(c), FALSE, call.limit) = penX + CWidth(c)
  BY DEF Edge
<1>9. /\ Glyph(c) => Pixels(LineTo(at), FALSE, call.limit) = Pixels(LineTo(at - 1), FALSE, call.limit)
                            \cup Recti(c, penX, Edge(penX + CWidth(c), FALSE, call.limit))
      /\ ~Glyph(c) => Pixels(LineTo(at), FALSE, call.limit) = Pixels(LineTo(at - 1), FALSE, call.limit)
  BY <1>5, StepDrawn
<1> HIDE DEF c
<1>10. inked' = Pixels(LineTo(at), FALSE, call.limit)
  <2>1. inked = Pixels(LineTo(at - 1), FALSE, call.limit)
    BY <1>4, <1>5
  <2>2. CASE Glyph(c)
    BY <1>1, <1>2, <1>8, <1>9, <2>1, <2>2
  <2>3. CASE ~Glyph(c)
    BY <1>1, <1>9, <2>1, <2>3
  <2> QED
    BY <2>2, <2>3
<1>11. inked' = Pixels(LineTo(at), call.fn \in Cuts, call.limit)
  BY <1>4, <1>10
<1> QED
  BY <1>1, <1>6, <1>7, <1>11, LoopsOn

\* The line never gets shorter.
LEMMA LinesGrow ==
  ASSUME TextInv, textPc = "loop", NEW i \in 0..Len(call.s), NEW j \in i..Len(call.s)
  PROVE  /\ LineTo(i) \in Seq(Int) /\ LineTo(j) \in Seq(Int)
         /\ Len(LineTo(i)) \in Nat /\ Len(LineTo(j)) \in Nat /\ Len(LineTo(i)) <= Len(LineTo(j))
         /\ \A k \in 1..Len(LineTo(i)) : LineTo(j)[k] = LineTo(i)[k]
<1>1. call.s \in Seq(0..NoGlyph) /\ Ascending(fontOffset)
  BY DEF TextInv, LoopInv, FontInv
<1>2. Len(call.s) \in Nat /\ j \in 0..Len(call.s)
  BY <1>1
<1>3. LineTo(i) \in Seq(Int) /\ LineTo(j) \in Seq(Int)
  BY <1>1, <1>2, LineTyped DEF LineTo
<1>4. Len(LineTo(i)) <= Len(LineTo(j)) /\ \A k \in 1..Len(LineTo(i)) : LineTo(j)[k] = LineTo(i)[k]
  <2> DEFINE s == call.s
             gaps == call.fn = "gr_text"
  <2>1. s \in Seq(0..NoGlyph) /\ i \in 0..Len(s) /\ j \in i..Len(s)
    BY <1>1
  <2> HIDE DEF s, gaps
  <2>2. Begins(Lines(fontOffset, gaps, s)[i], Lines(fontOffset, gaps, s)[j])
    BY <1>1, <2>1, LineGrows, Zenon
  <2> QED
    BY <2>2 DEF LineTo, s, gaps, Begins
<1> QED
  BY <1>3, <1>4

\* What gr_maxExW answers when a glyph does not fit any more, or at the end.
LEMMA MaxEnds ==
  ASSUME TextInv, textPc = "loop", call.fn = "gr_maxExW",
         at <= Len(call.s) => Glyph(call.s[at]) /\ Len(LineTo(at)) >= call.limit
  PROVE  /\ fits > 0 => Len(LineTo(fits)) < call.limit
         /\ \A k \in 1..Len(call.s) : Cardinality(Glyphs(call.s, k)) = fits + 1 => Len(LineTo(k)) >= call.limit
<1>1. /\ penX = Len(LineTo(at - 1)) /\ fits = Cardinality(Glyphs(call.s, at - 1)) /\ (fits > 0 => penX < call.limit)
      /\ call.limit \in Int /\ at \in 1..(Len(call.s) + 1) /\ call.s \in Seq(0..NoGlyph)
  BY DEF TextInv, LoopInv, LineTypes
<1>2. PICK n \in Nat : n = Len(call.s)
  BY <1>1
<1>3. PICK a \in Nat : a = at - 1
  BY <1>1, <1>2
<1>4. a \in 0..n /\ at = a + 1
  BY <1>1, <1>2, <1>3
<1>5. fits \in 0..a
  BY <1>1, <1>3, GlyphsFinite
<1>6. ASSUME fits > 0 PROVE Len(LineTo(fits)) < call.limit
  <2>1. PICK f \in 0..a : f = fits
    BY <1>5
  <2>2. f \in 0..Len(call.s) /\ a \in f..Len(call.s)
    BY <1>2, <1>4, <2>1
  <2>3. Len(LineTo(f)) <= Len(LineTo(a)) /\ Len(LineTo(f)) \in Nat /\ Len(LineTo(a)) \in Nat
    BY <2>2, LinesGrow
  <2>4. Len(LineTo(a)) < call.limit
    BY <1>1, <1>3, <1>6
  <2>5. Len(LineTo(f)) < call.limit
    BY <1>1, <2>3, <2>4
  <2> QED
    BY <2>1, <2>5
<1>7. ASSUME NEW k \in 1..Len(call.s), Cardinality(Glyphs(call.s, k)) = fits + 1
      PROVE  Len(LineTo(k)) >= call.limit
  <2>1. k \in Nat /\ k >= 1 /\ k <= n
    BY <1>2
  <2>2. ~(k <= a)
    <3>1. SUFFICES ASSUME k <= a PROVE FALSE
      OBVIOUS
    <3>2. Cardinality(Glyphs(call.s, k)) <= Cardinality(Glyphs(call.s, a))
      BY <2>1, <3>1, GlyphsGrow
    <3>3. fits + 1 <= fits /\ fits \in Nat
      BY <1>1, <1>3, <1>5, <1>7, <3>2
    <3> QED
      BY <3>3
  <2>3. a + 1 \in 0..Len(call.s) /\ k \in (a + 1)..Len(call.s) /\ at <= Len(call.s)
    BY <1>2, <1>4, <2>1, <2>2
  <2>4. Len(LineTo(a + 1)) <= Len(LineTo(k)) /\ Len(LineTo(a + 1)) \in Nat /\ Len(LineTo(k)) \in Nat
    BY <2>3, LinesGrow
  <2>5. Len(LineTo(a + 1)) >= call.limit
    BY <1>4, <2>3
  <2> QED
    BY <1>1, <2>4, <2>5
<1> QED
  BY <1>6, <1>7

\* gr_maxExW.
LEMMA MaxInv ==
  ASSUME TextInv, textPc = "loop", at <= Len(call.s), UNCHANGED <<call, fontVars>>,
         call.fn = "gr_maxExW", MaxChar(call.s[at])
  PROVE  TextInv'
<1> DEFINE c == call.s[at]
<1>1. penX' = penX + CWidth(c) /\ inked' = inked /\ bottoms' = bottoms /\ call' = call
  BY DEF MaxChar
<1>2. /\ CWidth(c) \in Nat /\ Len(LineTo(at - 1)) \in Nat /\ at \in 1..Len(call.s) /\ Len(call.s) \in Nat
      /\ Len(LineTo(at)) = Len(LineTo(at - 1)) + CWidth(c)
  BY StepLength, StepLine
<1>3. /\ LineTypes /\ HeightIsKept /\ penX = Len(LineTo(at - 1)) /\ fits = Cardinality(Glyphs(call.s, at - 1))
      /\ fits > 0 => penX < call.limit
      /\ call.limit \in Int
  BY DEF TextInv, LoopInv
<1>4. penX' = Len(LineTo(at)) /\ HeightIsKept' /\ call.fn \notin Draws
  BY <1>1, <1>2, <1>3 DEF HeightIsKept, Draws
<1>5. Cardinality(Glyphs(call.s, at)) = fits + (IF Glyph(c) THEN 1 ELSE 0)
  BY <1>2, <1>3, GlyphsStep
<1>6. CASE ~Glyph(c) \/ penX' < call.limit
  <2>1. fits' = fits + (IF Glyph(c) THEN 1 ELSE 0) /\ at' = at + 1 /\ textPc' = textPc
    BY <1>6 DEF MaxChar
  <2>2. LineTypes'
    <3>1. fits \in 0..at /\ penX \in Int /\ bottoms \subseteq Int /\ at \in Nat
      BY <1>2, <1>3 DEF LineTypes
    <3> HIDE DEF c
    <3>2. penX' \in Int /\ bottoms' \subseteq Int
      BY <1>1, <1>2, <3>1
    <3>3. fits' = fits \/ fits' = fits + 1
      <4>1. CASE Glyph(c)
        BY <2>1, <4>1
      <4>2. CASE ~Glyph(c)
        BY <2>1, <3>1, <4>2
      <4> QED
        BY <4>1, <4>2
    <3> QED
      BY <1>1, <1>2, <1>3, <2>1, <3>2, <3>3, NextTypes
  <2>3. fits' > 0 => penX' < call.limit
    <3>1. CASE penX' < call.limit
      BY <3>1
    <3>2. CASE ~Glyph(c)
      <4>1. fits' = fits /\ CWidth(c) = 0
        BY <1>2, <1>3, <2>1, <3>2 DEF CWidth, LineTypes
      <4> QED
        BY <1>1, <1>2, <1>3, <4>1
    <3> QED
      BY <1>6, <3>1, <3>2
  <2> QED
    BY <1>1, <1>4, <1>5, <2>1, <2>2, <2>3, LoopsOn
<1>7. CASE ~(~Glyph(c) \/ penX' < call.limit)
  <2>1. textPc' = "done" /\ fits' = fits /\ at' = at
    BY <1>7 DEF MaxChar
  <2>2. LineTypes'
    <3>1. penX' \in Int
      BY <1>1, <1>2, <1>3
    <3> QED
      BY <1>1, <1>3, <2>1, <3>1, SameTypes
  <2>3. Glyph(c) /\ Len(LineTo(at)) >= call.limit
    BY <1>2, <1>3, <1>4, <1>7
  <2>4. /\ fits > 0 => Len(LineTo(fits)) < call.limit
        /\ \A k \in 1..Len(call.s) : Cardinality(Glyphs(call.s, k)) = fits + 1 => Len(LineTo(k)) >= call.limit
    BY <2>3, MaxEnds
  <2> QED
    BY <1>1, <1>4, <2>1, <2>2, <2>4, LoopEnds
<1> QED
  BY <1>6, <1>7

\* Once the line reaches the limit, no later character adds to it.
LEMMA CutHere ==
  ASSUME TextInv, textPc = "loop", at <= Len(call.s), TextX + Len(LineTo(at)) >= call.limit
  PROVE  /\ Pixels(Line, TRUE, call.limit) = Pixels(LineTo(at), TRUE, call.limit)
         /\ Len(Line) \in Nat /\ TextX + Len(Line) >= call.limit
<1>1. call.limit \in Int /\ TextX \in Nat
  BY TextAssumption DEF TextInv, LoopInv
<1>2. PICK n \in Nat : n = Len(call.s)
  <2>1. call.s \in Seq(0..NoGlyph)
    BY StepLine
  <2> QED
    BY <2>1
<1>3. PICK a \in Nat : a = at
  BY StepLine
<1>4. a \in 0..Len(call.s) /\ n \in a..Len(call.s)
  BY <1>2, <1>3
<1>5. /\ LineTo(a) \in Seq(Int) /\ LineTo(n) \in Seq(Int)
      /\ Len(LineTo(a)) \in Nat /\ Len(LineTo(n)) \in Nat /\ Len(LineTo(a)) <= Len(LineTo(n))
      /\ \A k \in 1..Len(LineTo(a)) : LineTo(n)[k] = LineTo(a)[k]
  BY <1>4, LinesGrow
<1>6. Line = LineTo(n) /\ LineTo(at) = LineTo(a)
  BY <1>2, <1>3 DEF Line
<1>7. TextX + Len(LineTo(a)) >= call.limit
  BY <1>6
<1>8. Pixels(LineTo(n), TRUE, call.limit) = Pixels(LineTo(a), TRUE, call.limit)
  BY <1>1, <1>5, <1>7, DrawnBeyond
<1>9. Len(LineTo(n)) \in Nat /\ TextX + Len(LineTo(n)) >= call.limit
  BY <1>1, <1>5, <1>7
<1> QED
  BY <1>6, <1>8, <1>9

\* gr_textExW.
LEMMA ClipInv ==
  ASSUME TextInv, textPc = "loop", at <= Len(call.s), UNCHANGED <<call, fontVars>>,
         call.fn = "gr_textExW", ClipChar(call.s[at])
  PROVE  TextInv'
<1> DEFINE c == call.s[at]
<1>1. fits' = fits /\ bottoms' = bottoms /\ call' = call
  BY DEF ClipChar
<1>2. /\ CWidth(c) \in Nat /\ Len(LineTo(at - 1)) \in Nat /\ at \in 1..Len(call.s) /\ Len(call.s) \in Nat
      /\ Len(LineTo(at)) = Len(LineTo(at - 1)) + CWidth(c)
  BY StepLength, StepLine
<1>3. TextX \in Nat /\ call.limit \in Int
  BY TextAssumption DEF TextInv, LoopInv
<1>4. (call.fn \in Cuts) = TRUE /\ call.fn \in Draws
  BY DEF Cuts, Draws
<1>5. /\ LineTypes /\ HeightIsKept /\ penX = TextX + Len(LineTo(at - 1))
      /\ inked = Pixels(LineTo(at - 1), call.fn \in Cuts, call.limit)
      /\ penX < call.limit \/ penX = TextX
  BY <1>4 DEF TextInv, LoopInv
<1>6. inked = Pixels(LineTo(at - 1), TRUE, call.limit)
  BY <1>4, <1>5
<1>7. /\ Glyph(c) => Pixels(LineTo(at), TRUE, call.limit) = Pixels(LineTo(at - 1), TRUE, call.limit)
                            \cup Recti(c, penX, Edge(penX + CWidth(c), TRUE, call.limit))
      /\ ~Glyph(c) => Pixels(LineTo(at), TRUE, call.limit) = Pixels(LineTo(at - 1), TRUE, call.limit)
  BY <1>5, StepDrawn
<1>8. HeightIsKept'
  BY <1>1, <1>5 DEF HeightIsKept
<1>9. TextX + Len(LineTo(at)) = penX + CWidth(c) /\ penX \in Int
  BY <1>2, <1>3, <1>5
<1>10. CASE ~Glyph(c)
  <2>1. at' = at + 1 /\ penX' = penX /\ inked' = inked /\ textPc' = textPc
    BY <1>10 DEF ClipChar
  <2>2. LineTypes'
    <3>1. penX' \in Int /\ bottoms' \subseteq Int
      BY <1>1, <1>5, <2>1 DEF LineTypes
    <3> QED
      BY <1>1, <1>2, <1>5, <2>1, <3>1, NextTypes
  <2>3. CWidth(c) = 0
    BY <1>10 DEF CWidth
  <2>4. penX' = TextX + Len(LineTo(at)) /\ inked' = Pixels(LineTo(at), call.fn \in Cuts, call.limit)
    <3> HIDE DEF c
    <3>1. penX' = TextX + Len(LineTo(at))
      BY <1>9, <2>1, <2>3
    <3>2. inked' = Pixels(LineTo(at), TRUE, call.limit)
      BY <1>6, <1>7, <1>10, <2>1
    <3> QED
      BY <1>4, <3>1, <3>2
  <2>5. penX' < call.limit \/ penX' = TextX
    BY <1>5, <2>1
  <2> QED
    BY <1>1, <1>8, <2>1, <2>2, <2>4, <2>5, LoopsOn
<1>11. CASE Glyph(c) /\ penX + CWidth(c) < call.limit
  <2>1. /\ at' = at + 1 /\ penX' = penX + CWidth(c) /\ inked' = inked \cup Recti(c, penX, penX + CWidth(c))
        /\ textPc' = textPc
    BY <1>11 DEF ClipChar
  <2>2. LineTypes'
    <3>1. penX' \in Int
      BY <1>2, <1>9, <2>1
    <3>2. bottoms' \subseteq Int
      BY <1>1, <1>5 DEF LineTypes
    <3> QED
      BY <1>1, <1>2, <1>5, <2>1, <3>1, <3>2, NextTypes
  <2>3. Edge(penX + CWidth(c), TRUE, call.limit) = penX + CWidth(c)
    BY <1>11 DEF Edge
  <2>4. inked' = Pixels(LineTo(at), call.fn \in Cuts, call.limit)
    <3> HIDE DEF c
    <3> QED
      BY <1>4, <1>6, <1>7, <1>11, <2>1, <2>3
  <2>5. penX' = TextX + Len(LineTo(at)) /\ penX' < call.limit
    BY <1>9, <1>11, <2>1
  <2> QED
    BY <1>1, <1>8, <2>1, <2>2, <2>4, <2>5, LoopsOn
<1>12. CASE Glyph(c) /\ ~(penX + CWidth(c) < call.limit)
  <2>1. /\ at' = at /\ penX' = call.limit /\ inked' = inked \cup Recti(c, penX, call.limit) /\ textPc' = "done"
    BY <1>12 DEF ClipChar
  <2>2. LineTypes'
    BY <1>1, <1>3, <1>5, <2>1, SameTypes
  <2>3. Edge(penX + CWidth(c), TRUE, call.limit) = call.limit
    BY <1>12 DEF Edge
  <2>4. TextX + Len(LineTo(at)) >= call.limit
    BY <1>2, <1>3, <1>9, <1>12
  <2>5. /\ Pixels(Line, TRUE, call.limit) = Pixels(LineTo(at), TRUE, call.limit)
        /\ Len(Line) \in Nat /\ TextX + Len(Line) >= call.limit
    BY <2>4, CutHere
  <2>6. inked' = Pixels(Line, call.fn \in Cuts, call.limit)
    <3> HIDE DEF c
    <3> QED
      BY <1>4, <1>6, <1>7, <1>12, <2>1, <2>3, <2>5
  <2>7. penX' = (IF TextX + Len(Line) < call.limit THEN TextX + Len(Line) ELSE call.limit)
    BY <1>3, <2>1, <2>5
  <2> QED
    BY <1>1, <1>8, <2>1, <2>2, <2>6, <2>7, LoopEnds
<1> QED
  BY <1>10, <1>11, <1>12

\* gr_textExWH.
LEMMA BothInv ==
  ASSUME TextInv, textPc = "loop", at <= Len(call.s), UNCHANGED <<call, fontVars>>,
         call.fn = "gr_textExWH", ClipBoth(call.s[at])
  PROVE  TextInv'
<1> DEFINE c == call.s[at]
<1>1. fits' = fits /\ at' = at + 1 /\ call' = call
  BY DEF ClipBoth
<1>2. /\ CWidth(c) \in Nat /\ Len(LineTo(at - 1)) \in Nat /\ at \in 1..Len(call.s) /\ Len(call.s) \in Nat
      /\ Len(LineTo(at)) = Len(LineTo(at - 1)) + CWidth(c)
  BY StepLength, StepLine
<1>3. TextX \in Nat /\ call.limit \in Int /\ call.height \in Int /\ FontHeight \in Nat
  BY TextAssumption DEF TextInv, LoopInv
<1>4. (call.fn \in Cuts) = TRUE /\ call.fn \in Draws
  BY DEF Cuts, Draws
<1>5. /\ LineTypes /\ HeightIsKept /\ penX = TextX + Len(LineTo(at - 1))
      /\ inked = Pixels(LineTo(at - 1), call.fn \in Cuts, call.limit)
  BY <1>4 DEF TextInv, LoopInv
<1>6. inked = Pixels(LineTo(at - 1), TRUE, call.limit)
  BY <1>4, <1>5
<1>7. /\ Glyph(c) => Pixels(LineTo(at), TRUE, call.limit) = Pixels(LineTo(at - 1), TRUE, call.limit)
                            \cup Recti(c, penX, Edge(penX + CWidth(c), TRUE, call.limit))
      /\ ~Glyph(c) => Pixels(LineTo(at), TRUE, call.limit) = Pixels(LineTo(at - 1), TRUE, call.limit)
  BY <1>5, StepDrawn
<1>8. TextX + Len(LineTo(at)) = penX + CWidth(c) /\ penX \in Int
  BY <1>2, <1>3, <1>5
<1>9. CASE ~Glyph(c)
  <2>1. penX' = penX /\ inked' = inked /\ bottoms' = bottoms /\ textPc' = textPc
    BY <1>9 DEF ClipBoth
  <2>2. LineTypes' /\ HeightIsKept'
    <3>1. penX' \in Int /\ bottoms' \subseteq Int
      BY <1>5, <2>1 DEF LineTypes
    <3>2. LineTypes'
      BY <1>1, <1>2, <1>5, <3>1, NextTypes
    <3>3. HeightIsKept'
      BY <1>1, <1>5, <2>1 DEF HeightIsKept
    <3> QED
      BY <3>2, <3>3
  <2>3. CWidth(c) = 0
    BY <1>9 DEF CWidth
  <2>4. penX' = TextX + Len(LineTo(at)) /\ inked' = Pixels(LineTo(at), call.fn \in Cuts, call.limit)
    <3> HIDE DEF c
    <3>1. penX' = TextX + Len(LineTo(at))
      BY <1>8, <2>1, <2>3
    <3>2. inked' = Pixels(LineTo(at), TRUE, call.limit)
      BY <1>6, <1>7, <1>9, <2>1
    <3> QED
      BY <1>4, <3>1, <3>2
  <2> QED
    BY <1>1, <2>1, <2>2, <2>4, LoopsOn
<1>10. CASE Glyph(c)
  <2> DEFINE right == penX + CWidth(c)
  <2>1. /\ inked' = inked \cup Recti(c, penX, IF right < call.limit THEN right ELSE call.limit)
        /\ bottoms' = bottoms \cup {Bottom(call.height)}
        /\ penX' = right
        /\ textPc' = IF right > call.limit THEN "done" ELSE "loop"
    BY <1>10 DEF ClipBoth
  <2>2. /\ Bottom(call.height) \in Int
        /\ \/ Bottom(call.height) = FontHeight
           \/ call.height >= 0 /\ Bottom(call.height) = call.height /\ Bottom(call.height) <= FontHeight
    BY <1>3 DEF Bottom
  <2>3. LineTypes' /\ HeightIsKept'
    <3>1. HeightIsKept'
      BY <1>1, <1>5, <2>1, <2>2 DEF HeightIsKept
    <3>2. right \in Int
      BY <1>2, <1>8
    <3> HIDE DEF right, c
    <3>3. LineTypes'
      <4>1. bottoms' \subseteq Int
        BY <1>5, <2>1, <2>2 DEF LineTypes
      <4>2. penX' \in Int
        BY <2>1, <3>2
      <4> QED
        BY <1>1, <1>2, <1>5, <4>1, <4>2, NextTypes
    <3> QED
      BY <3>1, <3>3
  <2>4. Edge(right, TRUE, call.limit) = IF right < call.limit THEN right ELSE call.limit
    BY DEF Edge
  <2>5. inked' = Pixels(LineTo(at), TRUE, call.limit)
    <3> HIDE DEF c
    <3> QED
      BY <1>6, <1>7, <1>10, <2>1, <2>4
  <2>6. penX' = TextX + Len(LineTo(at))
    BY <1>8, <2>1
  <2>7. CASE right > call.limit
    <3>1. textPc' = "done"
      BY <2>1, <2>7
    <3>2. TextX + Len(LineTo(at)) >= call.limit
      BY <1>2, <1>3, <1>8, <2>7
    <3>3. Pixels(Line, TRUE, call.limit) = Pixels(LineTo(at), TRUE, call.limit)
      BY <3>2, CutHere
    <3>4. inked' = Pixels(Line, call.fn \in Cuts, call.limit)
      BY <1>4, <2>5, <3>3
    <3>5. PICK n \in Nat : n = at
      BY <1>2
    <3>6. at' - 1 = n
      BY <1>1, <3>5
    <3>7. penX' = TextX + Len(LineTo(at' - 1)) /\ call.limit < penX'
      BY <2>1, <2>6, <2>7, <3>5, <3>6
    <3> QED
      BY <1>1, <2>3, <3>1, <3>4, <3>7, LoopEnds
  <2>8. CASE ~(right > call.limit)
    <3>1. textPc' = "loop"
      BY <2>1, <2>8
    <3>2. inked' = Pixels(LineTo(at), call.fn \in Cuts, call.limit)
      BY <1>4, <2>5
    <3> QED
      BY <1>1, <2>3, <2>6, <3>1, <3>2, LoopsOn
  <2> QED
    BY <2>7, <2>8
<1> QED
  BY <1>9, <1>10

\* Whichever loop takes the next character.
LEMMA CharInv ==
  ASSUME TextInv, TextChar PROVE TextInv'
<1>1. textPc = "loop" /\ at <= Len(call.s) /\ UNCHANGED <<call, fontVars>>
  BY DEF TextChar
<1> QED
  BY <1>1, AddInv, CwmInv, MaxInv, ClipInv, BothInv DEF TextChar

\* A loop at the end of its string.
LEMMA EndInv ==
  ASSUME TextInv, TextEnd PROVE TextInv'
<1>1. /\ textPc = "loop" /\ at > Len(call.s) /\ textPc' = "done" /\ UNCHANGED fontVars
      /\ call' = call /\ at' = at /\ penX' = penX /\ fits' = fits /\ inked' = inked /\ bottoms' = bottoms
  BY DEF TextEnd, lineVars
<1>2. /\ LineTypes /\ HeightIsKept /\ call.fn \in TextFns /\ call.s \in Seq(0..NoGlyph) /\ call.limit \in Int
      /\ at \in 1..(Len(call.s) + 1)
  BY <1>1 DEF TextInv, LoopInv, LineTypes
<1>3. at - 1 = Len(call.s) /\ Len(call.s) \in Nat
  BY <1>1, <1>2
<1>4. Line = LineTo(at - 1)
  BY <1>3 DEF Line
<1>5. Len(Line) \in Nat /\ TextX \in Nat
  <2>1. PICK n \in Nat : n = Len(call.s)
    BY <1>3
  <2>2. n \in 0..Len(call.s) /\ n \in n..Len(call.s)
    BY <2>1
  <2>3. Len(LineTo(n)) \in Nat
    BY <1>1, <2>2, LinesGrow
  <2> QED
    BY <2>1, <2>3, TextAssumption DEF Line
<1>6. LineTypes' /\ HeightIsKept'
  BY <1>1, <1>2 DEF LineTypes, HeightIsKept
<1>7. /\ call.fn \in {"gr_measureEx", "gr_maxExW"} => penX = Len(Line)
      /\ call.fn \in Draws => penX = TextX + Len(Line) /\ inked = Pixels(Line, call.fn \in Cuts, call.limit)
      /\ call.fn = "gr_textExW" => penX < call.limit \/ penX = TextX
  BY <1>1, <1>4 DEF TextInv, LoopInv
<1>8. call.fn = "gr_maxExW" =>
        /\ fits' > 0 => Len(LineTo(fits')) < call.limit
        /\ \A k \in 1..Len(call.s) : Cardinality(Glyphs(call.s, k)) = fits' + 1 => Len(LineTo(k)) >= call.limit
  <2>1. SUFFICES ASSUME call.fn = "gr_maxExW"
                 PROVE  /\ fits > 0 => Len(LineTo(fits)) < call.limit
                        /\ \A k \in 1..Len(call.s) : Cardinality(Glyphs(call.s, k)) = fits + 1 =>
                             Len(LineTo(k)) >= call.limit
    BY <1>1
  <2>2. ~(at <= Len(call.s))
    BY <1>2, <1>3
  <2> QED
    BY <1>1, <2>1, <2>2, MaxEnds
<1>9. call.fn = "gr_textExW" /\ TextX <= call.limit =>
        penX' = (IF TextX + Len(Line) < call.limit THEN TextX + Len(Line) ELSE call.limit)
  BY <1>1, <1>2, <1>5, <1>7 DEF Draws
<1>10. /\ call.fn \in Draws => inked' = Pixels(Line, call.fn \in Cuts, call.limit)
       /\ call.fn = "gr_measureEx" => penX' = Len(Line)
       /\ call.fn \in {"gr_textEx", "gr_text"} => penX' = TextX + Len(Line)
  BY <1>1, <1>7 DEF Draws
<1>11. call.fn = "gr_textExWH" => penX' = TextX + Len(LineTo(at' - 1)) /\ (at' <= Len(call.s) => call.limit < penX')
  BY <1>1, <1>2, <1>3, <1>4, <1>7 DEF Draws
<1> QED
  BY <1>1, <1>6, <1>8, <1>9, <1>10, <1>11, LoopEnds

\* The squares of numbers at most as far from 0.
LEMMA Squares ==
  ASSUME NEW x \in Int, NEW p \in Int, 0 <= x, x <= p
  PROVE  x * x <= p * p
<1>1. x * x <= x * p /\ x * p <= p * p
  OBVIOUS
<1>2. x * x \in Int /\ x * p \in Int /\ p * p \in Int
  OBVIOUS
<1> QED
  BY <1>1, <1>2

\* The pixels of a circle.
LEMMA CircleHas ==
  ASSUME NEW r \in Nat, NEW a, NEW b
  PROVE  <<a, b>> \in Circle(r) <=> /\ a \in -r..r /\ b \in -r..r
                                    /\ a * a + b * b <= r * r + (r * 8) \div 10
BY DEF Circle

\* A disc: it has its sides, its mirror images and no gaps.
LEMMA CircleRound ==
  ASSUME NEW r \in Nat
  PROVE  /\ <<r, 0>> \in Circle(r) /\ <<0, -r>> \in Circle(r)
         /\ \A p \in Circle(r) : /\ <<p[2], p[1]>> \in Circle(r) /\ <<-p[1], p[2]>> \in Circle(r)
                                 /\ \A x \in 0..p[1] : <<x, p[2]>> \in Circle(r)
<1>1. PICK q \in Nat : q = r * r
  OBVIOUS
<1>2. PICK e \in Nat : e = (r * 8) \div 10
  OBVIOUS
<1>3. \A a, b : <<a, b>> \in Circle(r) <=> a \in -r..r /\ b \in -r..r /\ a * a + b * b <= q + e
  BY <1>1, <1>2, CircleHas
<1>4. <<r, 0>> \in Circle(r)
  <2>1. r * r + 0 * 0 <= q + e
    BY <1>1
  <2>2. r \in -r..r /\ 0 \in -r..r
    OBVIOUS
  <2> QED
    BY <1>3, <2>1, <2>2
<1>5. <<0, -r>> \in Circle(r)
  <2>1. (-r) * (-r) = r * r
    OBVIOUS
  <2>2. 0 * 0 + (-r) * (-r) <= q + e
    BY <1>1, <2>1
  <2>3. -r \in -r..r /\ 0 \in -r..r
    OBVIOUS
  <2> QED
    BY <1>3, <2>2, <2>3
<1>6. ASSUME NEW p \in Circle(r)
      PROVE  /\ <<p[2], p[1]>> \in Circle(r) /\ <<-p[1], p[2]>> \in Circle(r)
             /\ \A x \in 0..p[1] : <<x, p[2]>> \in Circle(r)
  <2>1. p \in (-r..r) \X (-r..r)
    BY DEF Circle
  <2>2. PICK a \in -r..r, b \in -r..r : a = p[1] /\ b = p[2] /\ p = <<a, b>>
    BY <2>1
  <2>3. a * a + b * b <= q + e
    BY <1>3, <2>2
  <2>4. PICK aa \in Int : aa = a * a
    OBVIOUS
  <2>5. PICK bb \in Int : bb = b * b
    OBVIOUS
  <2>6. <<b, a>> \in Circle(r)
    <3>1. b * b + a * a <= q + e
      BY <2>3, <2>4, <2>5
    <3> QED
      BY <1>3, <3>1
  <2>7. <<-a, b>> \in Circle(r)
    <3>1. (-a) * (-a) = a * a /\ -a \in -r..r
      OBVIOUS
    <3>2. (-a) * (-a) + b * b <= q + e
      BY <2>3, <3>1
    <3> QED
      BY <1>3, <3>1, <3>2
  <2>8. ASSUME NEW x \in 0..a PROVE <<x, b>> \in Circle(r)
    <3>1. x \in Int /\ 0 <= x /\ x <= a /\ x \in -r..r
      OBVIOUS
    <3>2. x * x <= a * a
      BY <3>1, Squares
    <3>3. PICK xx \in Int : xx = x * x
      BY <3>1
    <3>4. xx + bb <= q + e
      BY <2>3, <2>4, <2>5, <3>2, <3>3
    <3>5. x * x + b * b <= q + e
      BY <2>5, <3>3, <3>4
    <3> QED
      BY <1>3, <3>1, <3>5
  <2> QED
    BY <2>2, <2>6, <2>7, <2>8
<1> QED
  BY <1>4, <1>5, <1>6

\* A function that draws no string ends at once.
LEMMA ShapeDone ==
  ASSUME TextInv, textPc = "idle", textPc' = "done", UNCHANGED <<fontVars, at, fits, bottoms>>,
         call'.s = << >>, call'.fn \notin TextFns, penX' \in Int, CircleIsRound', PlacedInside'
  PROVE  TextInv'
<1>1. FontInv'
  BY FontKept DEF TextInv
<1>2. at = 1 /\ fits = 0 /\ bottoms = {}
  BY DEF TextInv, QuietInv
<1>3. LineTypes' /\ HeightIsKept'
  BY <1>2 DEF LineTypes, HeightIsKept
<1>4. DrawsTheLine' /\ ReturnsTheEnd' /\ MaxIsMaximal'
  BY DEF TextFns, DrawsTheLine, ReturnsTheEnd, MaxIsMaximal
<1> QED
  BY <1>1, <1>3, <1>4 DEF TextInv, QuietInv, LoopInv, DoneInv

\* gr_render_circle.
LEMMA CircleInv ==
  ASSUME TextInv, GrRenderCircle PROVE TextInv'
<1>1. PICK r \in Radii : /\ call' = [fn |-> "gr_render_circle", s |-> << >>, limit |-> r, height |-> 0]
                         /\ inked' = Circle(r)
  BY DEF GrRenderCircle
<1>2. textPc = "idle" /\ textPc' = "done" /\ UNCHANGED <<fontVars, at, fits, bottoms>> /\ penX' = penX
  BY DEF GrRenderCircle
<1>3. r \in Nat
  BY TextAssumption
<1>4. call'.fn = "gr_render_circle" /\ call'.s = << >> /\ call'.limit = r
  BY <1>1
<1>5. CircleIsRound'
  BY <1>1, <1>3, <1>4, CircleRound DEF CircleIsRound
<1>6. PlacedInside'
  BY <1>4 DEF PlacedInside
<1>7. penX' \in Int /\ call'.fn \notin TextFns
  BY <1>2, <1>4 DEF TextInv, LineTypes, TextFns
<1> QED
  BY <1>2, <1>4, <1>5, <1>6, <1>7, ShapeDone

\* gr_textEx_scaleW that draws nothing.
LEMMA NothingInv ==
  ASSUME TextInv, DrawsNothing PROVE TextInv'
<1>1. /\ textPc = "idle" /\ textPc' = "done" /\ UNCHANGED <<fontVars, at, fits, bottoms>> /\ penX' \in Int
      /\ call'.fn = "refused" /\ call'.s = << >>
  BY DEF DrawsNothing
<1>2. CircleIsRound' /\ PlacedInside' /\ call'.fn \notin TextFns
  BY <1>1 DEF CircleIsRound, PlacedInside, TextFns
<1> QED
  BY <1>1, <1>2, ShapeDone

\* Where a line that was scaled to its limit is put.
LEMMA Placed ==
  ASSUME NEW m \in Nat, NEW limit \in Nat, m <= limit, NEW placement
  PROVE  /\ Place(placement, m, limit) \in Int
         /\ TextX - limit <= Place(placement, m, limit) /\ Place(placement, m, limit) + m <= TextX + limit
<1>1. PICK tx \in Nat : tx = TextX
  BY TextAssumption
<1>2. PICK h \in Nat : h = m \div 2
  OBVIOUS
<1>3. h <= m
  BY <1>2
<1>4. Place(placement, m, limit) \in {tx, tx - h, tx - m}
  BY <1>1, <1>2 DEF Place
<1> QED
  BY <1>1, <1>3, <1>4

\* gr_textEx_scaleW.
LEMMA ScaleInv ==
  ASSUME TextInv, GrTextExScaleW PROVE TextInv'
<1>1. PICK wide \in 0..6, limit \in Limits, scale \in BOOLEAN, placement \in {"left", "centre", "right"} :
      \E scaled \in 0..limit :
       LET m == Measured(wide, scaled, scale, limit)
           x == Place(placement, m, limit)
       IN  /\ call' = [fn |-> IF scale THEN "scaled" ELSE "unscaled", s |-> << >>, limit |-> limit, height |-> m]
           /\ penX' = x
           /\ inked' = {<<px, px - x>> : px \in x..(x + m - 1)}
  BY DEF GrTextExScaleW
<1>2. PICK scaled \in 0..limit :
       LET m == Measured(wide, scaled, scale, limit)
           x == Place(placement, m, limit)
       IN  /\ call' = [fn |-> IF scale THEN "scaled" ELSE "unscaled", s |-> << >>, limit |-> limit, height |-> m]
           /\ penX' = x
           /\ inked' = {<<px, px - x>> : px \in x..(x + m - 1)}
  BY <1>1
<1>3. textPc = "idle" /\ textPc' = "done" /\ UNCHANGED <<fontVars, at, fits, bottoms>>
  BY DEF GrTextExScaleW
<1>4. limit \in Nat /\ wide \in Nat /\ scaled \in Nat /\ scaled <= limit /\ TextX \in Nat
  BY TextAssumption
<1>5. PICK m \in Nat : m = Measured(wide, scaled, scale, limit)
  BY <1>4 DEF Measured
<1>6. scale => m <= limit
  BY <1>4, <1>5 DEF Measured
<1>7. PICK x : x = Place(placement, m, limit)
  OBVIOUS
<1>8. x \in Int
  <2>1. m \div 2 \in Int /\ limit \div 2 \in Int
    BY <1>4
  <2> QED
    BY <1>4, <1>7, <2>1 DEF Place
<1>9. /\ call' = [fn |-> IF scale THEN "scaled" ELSE "unscaled", s |-> << >>, limit |-> limit, height |-> m]
      /\ penX' = x
      /\ inked' = {<<px, px - x>> : px \in x..(x + m - 1)}
  BY <1>2, <1>5, <1>7
<1>10. /\ call'.fn = (IF scale THEN "scaled" ELSE "unscaled") /\ call'.s = << >> /\ call'.limit = limit
       /\ call'.fn \notin TextFns /\ call'.fn # "gr_render_circle"
  BY <1>9 DEF TextFns
<1>11. PlacedInside'
  <2>1. SUFFICES ASSUME scale, NEW p \in inked' PROVE TextX - limit <= p[1] /\ p[1] < TextX + limit
    BY <1>10 DEF PlacedInside
  <2>2. TextX - limit <= x /\ x + m <= TextX + limit
    BY <1>4, <1>6, <1>7, <2>1, Placed
  <2>3. PICK px \in x..(x + m - 1) : p = <<px, px - x>>
    BY <1>9, <2>1
  <2>4. p[1] = px /\ px \in Int /\ x <= px /\ px <= x + m - 1
    BY <1>8, <2>3
  <2> QED
    BY <1>4, <1>8, <2>2, <2>4
<1>12. CircleIsRound'
  BY <1>10 DEF CircleIsRound
<1> QED
  BY <1>3, <1>8, <1>9, <1>10, <1>11, <1>12, ShapeDone

\* A step of another part.
LEMMA TextStutter ==
  ASSUME TextInv, UNCHANGED textVars PROVE TextInv'
<1>1. FontSize' = FontSize /\ (\A i : LineTo(i)' = LineTo(i)) /\ LineTo(at - 1)' = LineTo(at - 1)
      /\ Line' = Line /\ LineTo(fits)' = LineTo(fits) /\ Fixed' = Fixed
  BY DEF textVars, fontVars, lineVars, FontSize, FontWidth, LineTo, Line, Fixed
<1>2. FontInv' /\ QuietInv' /\ LineTypes' /\ HeightIsKept'
  BY <1>1 DEF textVars, fontVars, lineVars, TextInv, FontInv, QuietInv, LineTypes, HeightIsKept
<1>3. LoopInv'
  BY <1>1 DEF textVars, fontVars, lineVars, TextInv, LoopInv
<1>4. DoneInv'
  <2>1. SUFFICES ASSUME textPc = "done" PROVE DoneInv'
    BY DEF textVars, DoneInv
  <2>2. DrawsTheLine' /\ ReturnsTheEnd' /\ CircleIsRound' /\ PlacedInside'
    BY <1>1, <2>1
    DEF textVars, lineVars, TextInv, DoneInv, DrawsTheLine, ReturnsTheEnd, CircleIsRound, PlacedInside
  <2>3. MaxIsMaximal'
    BY <1>1, <2>1 DEF textVars, lineVars, TextInv, DoneInv, MaxIsMaximal
  <2> QED
    BY <2>2, <2>3 DEF DoneInv
<1> QED
  BY <1>2, <1>3, <1>4 DEF TextInv

\* For fonts, strings, limits and radii of any size, the text functions draw the
\* columns of the string and none twice, cut them at max_width, and return where
\* the line ends (twrp-graphics.c:293-519, CWM's graphics.c:226-250); gr_maxExW
\* answers the most that fits, gr_loadFont fills its bitmap to the last pixel
\* (610-668), circles are round (551-581) and scaled lines stay inside (382-430).
THEOREM TextHolds == TextSpec => []TextIsRight
<1>1. TextInit => TextInv
  BY TextInitInv
<1>2. TextInv /\ [TextNext]_textVars => TextInv'
  BY BuiltInInv, ShortInv, OpenInv, LoadInv, CloseInv, BeginTextInv, CharInv, EndInv, CircleInv, ScaleInv, NothingInv,
     TextStutter
  DEF TextNext
<1>3. TextInv => TextIsRight
  BY InvIsRight
<1> QED
  BY <1>1, <1>2, <1>3, PTL DEF TextSpec
=============================================================================
