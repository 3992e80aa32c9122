--------------------------- MODULE RecoveryScreen ---------------------------
(***************************************************************************)
(* recovery/twrp-graphics.c and configs/recovery/graphics.c: the surfaces  *)
(* of a recovery.  Both draw in a surface in memory, and gr_flip copies it *)
(* into a framebuffer and tells the driver to show that one.  Both run     *)
(* their initialisation twice.  The first is called twrp here, the second  *)
(* cwm; they differ in what gr_init answers.                               *)
(*                                                                         *)
(* gr_exit gives back the surface in memory, the two descriptors and tty0. *)
(* A round also takes a context, a font and a mapping of the framebuffer,  *)
(* which nobody gives back: these are counted.                             *)
(*                                                                         *)
(* Memory is counted in pixels, a pixel of frame f holds <<f, x, y>>, any   *)
(* other <<"old">>, <<"blank">> or <<"pad">>.                               *)
(* Descriptor 0 is the program's -1, block 0 the null pointer.             *)
(***************************************************************************)
EXTENDS Integers, FiniteSets, Sequences

CONSTANTS Width, Height,  \* vi.xres and vi.yres
          LineLengths,    \* what fi.line_length / PIXEL_SIZE may be
          Frames,         \* pictures drawn in the surface
          MaxInits,       \* bound: calls of gr_init
          MaxSurfaces     \* bound: calls of gr_get_surface

ASSUME ScreenAssumption ==
  /\ Width \in Nat \ {0} /\ Height \in Nat \ {0}
  /\ LineLengths \subseteq {n \in Nat : n >= Width}
  /\ Frames \subseteq Nat /\ MaxInits \in Nat /\ MaxSurfaces \in Nat

VARIABLES
  screenPc,     \* where the program is
  device,       \* the program and the screen: [program, line, smem]
  fds,          \* gr_fb_fd and gr_vt_fd
  opened,       \* the descriptors that are open
  console,      \* the mode of tty0
  mem,          \* gr_mem_surface.data
  live,         \* allocated blocks
  blocks,       \* the number of blocks ever allocated
  snapshot,     \* the data of the surface gr_get_surface made
  damage,       \* what was done to memory that is not allocated
  mapped,       \* gr_framebuffer[0].data points to the framebuffer
  doubleBuffering, active, \* double_buffering and gr_active_fb
  shown,        \* the half of the framebuffer that the driver shows
  vram,         \* the framebuffer
  row,          \* the rows that memcpy in gr_flip has copied
  frame,        \* the picture in the surface in memory
  lastFlip,     \* the picture of the last flip
  swapFailed,   \* the last FBIOPUT_VSCREENINFO failed
  rounds,       \* how the rounds of this gr_init ended
  tty,          \* what opening tty0 came to in the last round
  lostByRounds, \* descriptors and blocks that first rounds left behind
  unreturned,   \* what rounds took and no function gives back
  inits, surfaces

handles == <<fds, opened, console>>
memory == <<mem, live, blocks, snapshot, damage>>
picture == <<mapped, doubleBuffering, active, shown, vram, swapFailed>>
progress == <<row, frame, lastFlip>>
history == <<rounds, tty, lostByRounds, unreturned, inits, surfaces>>
screenVars == <<screenPc, device, handles, memory, picture, progress, history>>

NoDevice == [program |-> "none", line |-> Width, smem |-> 0]

ScreenInit ==
  /\ screenPc = "off" /\ device = NoDevice
  /\ fds = [fb |-> 0, vt |-> 0] /\ opened = {0, 1, 2} /\ console = "text"
  /\ mem = 0 /\ live = {} /\ blocks = 0 /\ snapshot = 0 /\ damage = {}
  /\ mapped = FALSE /\ doubleBuffering = FALSE /\ active = 0 /\ shown = 0
  /\ vram = << >> /\ swapFailed = FALSE
  /\ row = 0 /\ frame = 0 /\ lastFlip = 0
  /\ rounds = << >> /\ tty = "absent" /\ lostByRounds = [fds |-> {}, blocks |-> {}]
  /\ unreturned = [fonts |-> 0, mappings |-> 0]
  /\ inits = 0 /\ surfaces = 0

\* The framebuffer of the driver has room for one picture or two, and may be a
\* pixel short of two.
Boot ==
  /\ screenPc = "off" /\ device = NoDevice
  /\ \E p \in {"twrp", "cwm"}, line \in LineLengths :
       \E smem \in {Height * line, 2 * Height * line - 1, 2 * Height * line} :
         /\ device' = [program |-> p, line |-> line, smem |-> smem]
         /\ vram' = [i \in 0..(smem - 1) |-> <<"old">>]
         /\ shown' \in IF smem = 2 * Height * line THEN {0, 1} ELSE {0}
  /\ UNCHANGED <<screenPc, handles, memory, mapped, doubleBuffering, active, swapFailed, progress, history>>

-----------------------------------------------------------------------------
\* The stride of every surface of twrp: vi.xres_virtual, which is
\* fi.line_length / PIXEL_SIZE by RECOVERY_GRAPHICS_USE_LINELENGTH of BoardConfig.mk.
Stride == device.line

\* Where gr_framebuffer[n] begins.
Buffer(n) == n * Height * Stride

NewFd(s) == CHOOSE d \in 1..(Cardinality(s) + 1) : d \notin s /\ \A e \in 1..(d - 1) : e \in s

\* The first n buffers are cleared.
Cleared(n) == [i \in DOMAIN vram |-> IF i < n * Height * Stride THEN <<"blank">> ELSE vram[i]]

\* get_framebuffer with its error paths behind it: the second buffer is used when
\* the driver has room for it, and double_buffering set, never reset.
GetFramebuffer ==
  LET two == 2 * Height * device.line <= device.smem
  IN  /\ mapped' = TRUE
      /\ doubleBuffering' = (doubleBuffering \/ two)
      /\ vram' = Cleared(IF two THEN 2 ELSE 1)

SurfaceAllocated == mem' = blocks + 1 /\ live' = live \cup {mem'} /\ blocks' = blocks + 1

\* malloc in get_memory_surface is not checked.
GetMemorySurface ==
  \/ SurfaceAllocated
  \/ mem' = 0 /\ UNCHANGED <<live, blocks>>

SwapRefused == swapFailed' = TRUE /\ UNCHANGED shown

\* set_active_framebuffer(n): the driver may refuse.
SetActiveFramebuffer(n) ==
  IF doubleBuffering'
  THEN \/ fds'.fb # 0 /\ shown' = n /\ swapFailed' = FALSE
       \/ SwapRefused
  ELSE swapFailed' = FALSE /\ UNCHANGED shown

\* gr_exit, with fb and vt in gr_fb_fd and gr_vt_fd: gr_mem_surface.data is
\* freed and keeps its value.  A tty0 that refused one mode may refuse the other.
GrExit(fb, vt, open) ==
  /\ fds' = [fb |-> 0, vt |-> 0]
  /\ opened' = open \ {d \in {fb, vt} : d # 0}
  /\ live' = live \ {mem}
  /\ damage' = damage \cup (IF mem = 0 \/ mem \in live THEN {} ELSE {"freedTwice"})
  /\ console' \in (IF vt = 0 THEN {} ELSE {"text"})
                   \cup (IF vt = 0 \/ tty' = "refused" THEN {console} ELSE {})
  /\ UNCHANGED <<mem, blocks, snapshot>>

Ttys == {"absent", "refused", "open"}

\* The descriptor of tty0.
VtFd == IF tty' = "absent" THEN 0 ELSE NewFd(opened)

\* Mutant: get_framebuffer does not close what it opened.
RoundFailsOpen ==
  /\ GrExit(IF tty' = "refused" THEN fds.fb ELSE 0, VtFd, opened \cup {VtFd, NewFd(opened \cup {VtFd})})
  /\ UNCHANGED picture

\* One round, gr_init_orig of twrp: tty0 may be absent, which is not fatal, or
\* refuse graphics mode; the framebuffer may fail in any of five places, which
\* all close what they opened.
RoundFails ==
  /\ GrExit(IF tty' = "refused" THEN fds.fb ELSE 0, VtFd, opened \cup {VtFd})
  /\ UNCHANGED picture

RoundSucceeds ==
  /\ fds' = [fb |-> NewFd(opened \cup {VtFd}), vt |-> VtFd]
  /\ opened' = opened \cup {fds'.vt, fds'.fb}
  /\ console' = IF VtFd = 0 THEN console ELSE "graphics"
  /\ GetFramebuffer /\ GetMemorySurface
  /\ active' = 0 /\ SetActiveFramebuffer(0)
  /\ UNCHANGED <<snapshot, damage>>

\* gglInit and gr_init_font come first, the mapping after everything that can fail.
Round(ok) ==
  /\ tty' \in IF ok THEN Ttys \ {"refused"} ELSE Ttys
  /\ IF ok THEN RoundSucceeds ELSE RoundFails
  /\ unreturned' = [fonts    |-> unreturned.fonts + 1,
                     mappings |-> unreturned.mappings + IF ok THEN 1 ELSE 0]
  /\ rounds' = Append(rounds, ok)
  /\ frame' = 0 /\ lastFlip' = 0 /\ UNCHANGED row

MayBegin == screenPc \in {"off", "down"} /\ device # NoDevice /\ inits < MaxInits /\ rounds = << >>

\* gr_init of both programs: the first round, whose result nobody looks at.
FirstRound(ok) ==
  /\ MayBegin
  /\ Round(ok)
  /\ inits' = inits + 1
  /\ lostByRounds' = [fds |-> lostByRounds.fds \cup (opened' \ opened),
                      blocks |-> lostByRounds.blocks \cup (live' \ live)]
  /\ screenPc' = "second"
  /\ UNCHANGED <<device, surfaces>>

\* twrp returns the result of the second round.
GrInit(ok) == IF ok THEN "up" ELSE "down"

\* cwm returns 0.
CwmGrInit(ok) == "up"

SecondRound(ok) ==
  /\ screenPc = "second"
  /\ Round(ok)
  /\ screenPc' = IF device.program = "twrp" THEN GrInit(ok) ELSE CwmGrInit(ok)
  /\ UNCHANGED <<device, lostByRounds, inits, surfaces>>

\* There is no memory for the context or the font of a round, which nobody checks.
NoFont ==
  /\ MayBegin \/ screenPc = "second"
  /\ screenPc' = "crashed"
  /\ UNCHANGED <<device, handles, memory, picture, progress, history>>

-----------------------------------------------------------------------------
\* The program reads or writes the surface in memory.
TouchesMemory ==
  damage' = damage \cup (IF mem \in live THEN {} ELSE {"usedFreed"})

\* The drawing functions, and gr_write_frame_to_file.
Draw ==
  /\ screenPc = "up" /\ mem # 0
  /\ TouchesMemory
  /\ frame' \in Frames
  /\ UNCHANGED <<screenPc, device, handles, mem, live, blocks, snapshot, picture, row, lastFlip, history>>

\* Mutant: the buffer that is shown is the one that is copied into.
FlipInPlace ==
  /\ screenPc = "up" /\ mem # 0 /\ mapped
  /\ TouchesMemory
  /\ row' = 0
  /\ screenPc' = "copy"
  /\ UNCHANGED <<device, handles, mem, live, blocks, snapshot, picture, frame, lastFlip, history>>

\* gr_flip: the other buffer becomes the active one, and memcpy begins.
GrFlip ==
  /\ screenPc = "up" /\ mem # 0 /\ mapped
  /\ active' = IF doubleBuffering THEN 1 - active ELSE active
  /\ TouchesMemory
  /\ row' = 0
  /\ screenPc' = "copy"
  /\ UNCHANGED <<device, handles, mem, live, blocks, snapshot, mapped, doubleBuffering, shown,
                 vram, swapFailed, frame, lastFlip, history>>

\* memcpy, row by row; what the driver shows meanwhile is visible.
CopyRow ==
  /\ screenPc = "copy"
  /\ vram' = [i \in DOMAIN vram |->
       LET x == (i - Buffer(active)) % Stride
           y == (i - Buffer(active)) \div Stride
       IN  IF i < Buffer(active) \/ y # row THEN vram[i]
           ELSE IF mem \in live /\ x < Width THEN <<frame, x, y>> ELSE <<"pad">>]
  /\ row' = row + 1
  /\ screenPc' = IF row' = Height THEN "swap" ELSE "copy"
  /\ UNCHANGED <<device, handles, memory, mapped, doubleBuffering, active, shown, swapFailed, frame, lastFlip, history>>

Swap ==
  /\ screenPc = "swap"
  /\ UNCHANGED <<handles, mapped, doubleBuffering, active, vram>>
  /\ SetActiveFramebuffer(active)
  /\ lastFlip' = frame
  /\ screenPc' = "up"
  /\ UNCHANGED <<device, memory, row, frame, history>>

\* A null pointer is written to: in gr_flip, in drawing, or in gr_get_surface
\* of twrp, which gives up when its first malloc fails and does not look at the
\* second.
NullPointer ==
  /\ screenPc = "up"
  /\ \/ mem = 0 \/ ~mapped
     \/ device.program = "twrp" /\ snapshot = 0 /\ surfaces < MaxSurfaces
  /\ screenPc' = "crashed"
  /\ UNCHANGED <<device, handles, memory, picture, progress, history>>

\* gr_get_surface and gr_free_surface, which only twrp has.
GrGetSurface ==
  /\ screenPc = "up" /\ device.program = "twrp" /\ mem # 0 /\ snapshot = 0 /\ surfaces < MaxSurfaces
  /\ TouchesMemory
  /\ surfaces' = surfaces + 1
  /\ blocks' = blocks + 1 /\ snapshot' = blocks' /\ live' = live \cup {blocks'}
  /\ UNCHANGED <<screenPc, device, handles, mem, picture, progress, rounds, tty, lostByRounds, unreturned, inits>>

GrFreeSurface ==
  /\ screenPc \in {"up", "down"} /\ snapshot # 0
  /\ live' = live \ {snapshot} /\ snapshot' = 0
  /\ UNCHANGED <<screenPc, device, handles, mem, blocks, damage, picture, progress, history>>

Exit ==
  /\ screenPc = "up" /\ UNCHANGED history
  /\ GrExit(fds.fb, fds.vt, opened)
  /\ screenPc' = "down"
  /\ frame' = 0 /\ lastFlip' = 0
  /\ UNCHANGED <<device, picture, row>>

\* A recovery that was told of a failure, or ended with gr_exit, starts again.
Again ==
  /\ screenPc = "down" /\ rounds # << >> /\ inits < MaxInits
  /\ rounds' = << >>
  /\ UNCHANGED <<screenPc, device, handles, memory, picture, progress, tty, lostByRounds, unreturned, inits, surfaces>>

ScreenNext ==
  \/ Boot \/ Again
  \/ \E ok \in BOOLEAN : FirstRound(ok) \/ SecondRound(ok)
  \/ NoFont
  \/ Draw \/ GrFlip \/ CopyRow \/ Swap \/ NullPointer
  \/ GrGetSurface \/ GrFreeSurface \/ Exit

ScreenSpec == ScreenInit /\ [][ScreenNext]_screenVars
-----------------------------------------------------------------------------
(* Properties *)

\* The shapes of the variables (statics of twrp-graphics.c:66-81).
ScreenTypeOK ==
  /\ screenPc \in {"off", "second", "up", "copy", "swap", "down", "crashed"}
  /\ fds \in [fb : Nat, vt : Nat] /\ opened \subseteq Nat
  /\ {fds.fb, fds.vt} \subseteq opened
  /\ console \in {"text", "graphics"}
  /\ live \subseteq 1..blocks /\ blocks \in Nat /\ mem \in 0..blocks /\ snapshot \in 0..blocks
  /\ damage \subseteq {"freedTwice", "usedFreed"}
  /\ tty \in Ttys /\ unreturned \in [fonts : Nat, mappings : Nat]
  /\ active \in {0, 1} /\ shown \in {0, 1} /\ row \in 0..Height
  /\ ~doubleBuffering => active = 0
  /\ doubleBuffering => 2 * Height * device.line <= device.smem

\* gr_init of cwm answers 0 when its second round has failed.
Misled == device.program = "cwm" /\ Len(rounds) = 2 /\ ~rounds[2]

\* Drawing and flipping never touch freed memory, although gr_exit leaves its
\* pointer in gr_mem_surface (twrp-graphics.c:800): whoever is told 0 after a
\* successful second round has a surface that is allocated.
MemoryIsLive ==
  /\ screenPc \in {"up", "copy", "swap"} /\ ~Misled => mem = 0 \/ mem \in live
  /\ "usedFreed" \in damage => device.program = "cwm"

\* One gr_init with its gr_exit frees the surface once, whichever steps of its
\* two rounds fail (736-793); only after a second gr_init of twrp may gr_exit
\* find the pointer it left.
FreedOnce ==
  "freedTwice" \in damage => inits > 1 \/ device.program = "cwm"

\* "total hax" (twrp-graphics.c:775): what two rounds lose is what the first
\* left, never more, whichever of their steps fail.
LossIsFirstRound ==
  screenPc \in {"up", "down"} =>
    /\ opened \ {0, 1, 2, fds.fb, fds.vt} \subseteq lostByRounds.fds
    /\ live \ {mem, snapshot} \subseteq lostByRounds.blocks

\* What is on the screen: one picture, or nothing.
Pixel(x, y) == vram[(shown * Height + y) * device.line + x]
Shows(f) == \A x \in 0..(Width - 1), y \in 0..(Height - 1) : Pixel(x, y) = <<f, x, y>>
Blank == \A x \in 0..(Width - 1), y \in 0..(Height - 1) : Pixel(x, y) = <<"blank">>

\* "copy data from the in-memory surface to the buffer we're about to make
\* active" (twrp-graphics.c:273): with two buffers, nobody sees half a picture
\* as long as the driver takes the swaps.
NoTearing ==
  screenPc \in {"up", "copy", "swap"} /\ mapped /\ ~Misled /\ doubleBuffering /\ ~swapFailed =>
    Blank \/ \E f \in Frames \cup {0} : Shows(f)

\* After gr_flip the screen shows what was drawn, with one buffer or two and
\* whatever the line length (255-280).
FlipShows ==
  screenPc = "up" /\ lastFlip # 0 /\ ~swapFailed /\ ~Misled => Shows(lastFlip)

\* "Round 1", "Round 2": what a program loses grows with its calls of gr_init and
\* with nothing else.  Each loses two contexts and fonts, which no gr_exit frees,
\* at most two mappings, and no more than one surface and two descriptors.
LossPerInit ==
  /\ unreturned.fonts = 2 * inits - (IF Len(rounds) = 1 THEN 1 ELSE 0)
  /\ unreturned.mappings <= 2 * inits
  /\ Cardinality(lostByRounds.blocks) <= inits /\ Cardinality(lostByRounds.fds) <= 2 * inits

\* gr_exit leaves tty0 in text mode (802) whenever the last round could open it
\* and it took graphics mode, whatever became of the round before.
ConsoleRestored == screenPc = "down" /\ tty = "open" => console = "text"

\* The surface, the descriptors and tty0 are owned and given back as they should,
\* whatever fails in the two rounds of gr_init, and what is not given back is
\* bounded by the number of calls.
SurfacesAreOwned ==
  /\ ScreenTypeOK
  /\ MemoryIsLive /\ FreedOnce /\ LossIsFirstRound /\ LossPerInit /\ ConsoleRestored

\* What is on the screen is a whole picture, and the last one that was flipped.
PicturesAreWhole == NoTearing /\ FlipShows
=============================================================================
