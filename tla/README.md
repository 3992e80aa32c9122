# A TLA+ development for the codina device tree

The repository is the Android device tree of the Samsung Galaxy Ace 2 and S
Advance (codina, janice). Most of its files are configuration, headers and
overlays; the programs among them are small and keep their state in unusual
places: a block of memory shared by reference count, the message queue of a
handler thread, a guard file on a flash partition. This directory holds TLA+
models of those programs, the TLC runs that check them and the TLAPS proofs
about them.

## 1. The system and its parts

| Part | Source | State | Operations | What is hard |
|---|---|---|---|---|
| SharedBuffer | `libshims/SharedBuffer.cpp` | a block: `mRefs`, `mSize`, contents | alloc, dealloc, edit, editResize, attemptEdit, reset, acquire, release | threads share blocks without a lock; malloc fails; realloc moves |
| VectorImpl | `libshims/VectorImpl.cpp` | `mStorage`, `mCount`, the block's slots | insert, remove, replace, resize, setCapacity, sort, assignment | which slots hold objects; copy on write between vectors; allocation failure in the middle |
| SortedVectorImpl | `libshims/VectorImpl.cpp:565-676` | a sorted VectorImpl | indexOf, orderOf, add, merge, remove | binary search bounds; merging overlapping vectors |
| Network type | `configs/ril/SamsungU8500RIL.java:188-389` | handler fields, `mPreferredNetworkType` | setPreferredNetworkType, onReceive, onLost, handleMessage | four threads, late callbacks, overlapping calls, rild restarts |
| Requests, SIM status and radio state | `SamsungU8500RIL.java:391-669, 886-932` | `mPendingGetSimStatus`, `mState`, the requests sent | getIccCardStatus, switchToRadioState, processSolicited, blocked requests | one pending slot for many callers, tested and stored without a lock; the radio goes off again; the connection ends |
| RIL parcels | `SamsungU8500RIL.java:736-1019` | none | solicited and unsolicited responses | a wrong count shifts every later field |
| TWRP graphics | `recovery/twrp-graphics.c` | surfaces, active framebuffer, fonts | gr_init, gr_flip, gr_exit, gr_get_surface, gr_loadFont, text | an initialisation that runs twice; one framebuffer or two; lines cut at a width |
| minui graphics | `recovery/graphics.cpp`, and `configs/recovery/graphics.c` (CWM) | the backend, `gr_draw` | gr_init, gr_flip, gr_text, gr_fill, gr_blit | fallback between backends; overscan clipping |
| recovery keys | `recovery/recovery_keys.c` | none | device_handle_key | none |
| strstr | `libshims/libC/strstr.c` | none | strstr | overlapping partial occurrences, the end of the string |
| GPS shims | `libshims/libGui/libshim_gps.c`, `shims/libgps-shim/gps.c` | saved interface pointers | load, unload, get_extension, set_ref_location | functions are patched in place; a second call patches the patch |
| modem calibration | `configs/ste_modem.sh` | files on two partitions, guard files | service start, sync | power loss between any two commands, restart by init |
| boot scripts | `configs/init.d/*`, `rootdir/*.rc` | loaded modules, sysfs values, properties | insmod passes, triggers | module order, property read when the action runs |
| USB gadget | `rootdir/init.samsungcodina.usb.rc` | `sys.usb.config`, `sys.usb.state` | one action for each value | the property changes while an action waits in the queue |
| patch tools | `patches/*.py`, `patches/patcher.sh` | manifests, working trees | merge, fetch, apply | partial application, run twice |
| framework patches | `patches/*/*.patch` | in other repositories | - | order of stop in the recorder, slots of GLConsumer |

How they interact: every vector and string of the shimmed library lives in a
SharedBuffer; the RIL class sits between the framework's threads and rild's
socket; init starts the calibration script and the USB actions; recovery is
a process of its own.

What makes them correct, in a sentence each:

* SharedBuffer: the count is the number of holders, nobody writes to a block
  somebody else can read, and the last release, and only that, frees it.
* VectorImpl: exactly the slots below `mCount` hold objects, in every vector
  that shares the block; each vector behaves as a sequence of its own whatever
  is shared and whatever allocation fails.
* SortedVectorImpl: the items stay strictly sorted, and indexOf finds an item
  when it is there.
* Network type: no type is sent while a data call runs, every caller hears of
  the modem's verdict, mobile data comes back. The runs show which of these the
  code keeps, and for which callers.
* Requests of the RIL: each message has one answer, or is where the code shows
  that it cannot get one; success means that rild reported it.
* Parcels: every field is read from its own place, in every list and version.
* Graphics: drawing never leaves the surface, the buffer shown is not the one
  copied into when there are two, text is drawn column for column, and what is
  not given back at exit grows only with the calls of `gr_init`.
* strstr: the first occurrence, as the C library defines it.
* GPS shims: a shim calls the library and never itself, and the library is
  given the caller's location.
* Modem calibration: after any sequence of crashes the modem starts with a
  complete copy of the calibration.
* Boot scripts: a module is loaded in the pass its dependencies allow.
* USB gadget: the gadget ends in the configuration last asked for.

## 2. Modules

| Module | What it models |
|---|---|
| `SharedBufferSpec` | owners with contents of their own, and what each call makes of them; no block, no count |
| `SharedBuffer` | the steps of each member function, by concurrent owners |
| `SharedBufferProofs` | the inductive invariant and its proof, and the refinement of SharedBufferSpec |
| `VectorSpec` | vectors as independent sequences |
| `VectorImpl` | blocks of slots, each public operation one step |
| `MCVectorImpl` | symmetry for TLC |
| `VectorImplProofs` | which slots hold items, and the refinement of VectorSpec, for any number of vectors and blocks |
| `SortedVector` | the binary search, add, remove and the merges over a sequence |
| `SortedVectorProofs` | order, search and contents, for vectors of any length |
| `RilNetworkType` | the network-type change, with its threads, modem and framework |
| `RilNetworkTypeProofs` | what is sent, awaited and answered, for any number of calls |
| `ModemCalibration` | the calibration script, the two partitions and the modem that writes one of them |
| `BootProofs` | the guard files, for any number of stops and erasures; the USB actions, for any number of changes; the passes of `00userinit`, for any list |
| `RecoveryScreen` | surfaces, framebuffers and flips of the TWRP and CWM recoveries |
| `RecoveryText` | their fonts, lines of text and circles |
| `MinuiGraphics` | the backends of minui, clipping, overscan and blending |
| `RecoveryProofs` | the surfaces and pictures of TWRP and CWM, their text and shapes, and the backend, surface and clipping of minui, for any sizes |
| `RilRadio` | requests and answers, radio states, the SIM status that waits |
| `RilRadioProofs` | where each message is, for any number of messages; what is read of a parcel, for lists of any length |
| `RilParcels` | calls, data calls, signal strength and failures, field by field |
| `Strstr` | the two loops of strstr |
| `GpsShim` | the replaced functions of the GPS library, the location, the SensorManager |
| `ShimProofs` | that strstr is right, for strings of any length, and the GPS shims, for any number of calls |
| `BootScripts` | the passes of `00userinit`, and init's USB actions |
| `Device` | the last eight components, each explored by itself |

Each module contains, next to a definition, the mistakes of the code that its
properties are tested against; they are marked "Mutant" and used nowhere.

### SharedBuffer

The variables are `heap`, a count, a size and the contents for each address,
and for each owner the pointer it holds and where it is inside a call. A member
function is one step for each access to the shared count: `Acquire` is the
atomic increment, `ReleaseCheck` the unsynchronised test of `onlyOwner()`,
`Decrement` the atomic decrement and its returned value, `Zero` and `Dealloc`
the two statements that follow. `Edit`, `EditArray` and `EditResize` check
`onlyOwner()`, then allocate, copy and release in steps of their own; the
allocator may fail at each. Contents are abstracted to a model value for each
write and to a value for memory that was never written.

SharedBufferSpec says what a call makes of the contents its owner sees: after
`Ask`, `Serve` gives a block of the size asked for with the cells that fit
(`edit`, `editResize`) or with unwritten ones (`reset`), or `Refuse` leaves what
was there. The refinement mapping takes the contents from the old block until
the copy is complete and from the new one from then on (`View`), so that a copy
that is missing, too short or of the wrong block is a step the specification
does not have.

A function called through a pointer of its own by each thread is what the code
supports; an owner passing its own pointer to two threads without acquire is
not modelled.

### VectorImpl

`heap` maps addresses to a count and slots, `vec` is `mStorage` and `mCount`
of each vector. The primitives (`Copy`, `Splat`, `Destroy`, `Move`,
`ReleaseStorage`) are operators on a memory; each also says whether it was used
lawfully: objects are constructed on raw slots, destroyed once, read only where
there is one, and a block is freed empty. `Grow` and `Shrink` follow `_grow`
and `_shrink` branch by branch; `MemoryIsSound` is that no primitive was ever
misused. With the variable `trivial` the items have no constructors and blocks are resized
in place, as `HAS_TRIVIAL_*` makes the code do. A call is atomic here: the
concurrency of the count is SharedBuffer's subject. `push`, `add`, `pop` and
`resize` are actions over `insertAt` and `removeItemsAt`, as in the code. `sort` is one step, to its final order, or, when `malloc` has nothing for its
temporary, only the copy of the array (`EditOnly`, which is also `replaceAt` with
the item itself); what it constructs in the temporary is not modelled. VectorSpec
says what a vector may become, not which call failed: that a call without memory
does nothing or all it promises is checked, that it does nothing is not. Three things are the
caller's duty and not modelled: passing an item or an array that lives in the
vector's own block (`insertArrayAt` reads the address before `_grow` frees the
block), ranges so large that `index + count` wraps, and using a vector without
its subclass's `finish_vector`.

### SortedVector

One vector and one call at a time. `Search` sets the bounds of
`_indexOrderOf`, `Probe` is one turn of its loop, and what the function then does to the
vector is a step of its own (`Insert`, `Replace`, `RemoveFound`,
`InsertVector`), which fails where VectorImpl can report or hide a failure. An
item is a key, which `do_compare` looks at, and a value, which it does not.
VectorImpl is a sequence here, which `VectorsAreSequences` justifies. Merging
a sorted vector into one without items asks `do_compare` about an item that is
not there. Without storage that is a null pointer and ends in `crashed`; a vector
emptied by `remove` keeps its block (`storage`), and then what a dead slot holds
decides whether the other is inserted as a whole (`MergeSortedIntoEmpty`). Merging a vector into itself and
making a sorted vector out of an unsorted one are not modelled.

### RilNetworkType

Calls of `setPreferredNetworkType` and `onReceive` run on the main thread, one
after the other; `main` is where that thread is, and its arguments. A call is a
step for each thing it reads of or does to the world: `SetPreferredNetworkType`
is `NeedReconnect` (221) with the handler that is made or dropped, `ReadClass`
asks for the network class, `StoreResponse` writes the handler's fields,
`StartListening` registers, `DisableData` switches mobile data off. `onReceive`
unregisters and takes its arguments in one step, because `stopListening` and the
fields belong to the same thread; `Remember` (258) and `SendType` (263) are
`sendPreferedNetworktype` for both. The data connection may come or go between
any two of these. `handleMessage` runs on a HandlerThread and is three steps,
whose reads and writes of `mNetworktypeResponse` interleave with
`setPreferedNetworkType`. The receiver thread (`rx`) takes responses, and after a
restart of rild reads, writes and sends the remembered type in three steps of its
own (`RxRead`, `RxRemember`, `RxSend`). The socket closes (`RildDies`) and is
connected again (`RilConnected`) in steps apart; requests made in between fail.

Requests to the modem and its responses are two queues in order. The framework
(mobile data switched, connection lost, broadcasts, `onLost` on its own thread)
and the modem (accepts or refuses, names the type it uses `NT_MODE_GLOBAL` or
not) are external: they are modelled from how the class uses them.
`CONNECTIVITY_ACTION` is sticky, that is, a receiver registered while there is no
connection is told so at once. `onLost` of a callback that is already running when
the callback is unregistered still sends its broadcast. `verdict` and `caller`
are history: they record what the modem said about each call. Broadcasts of
networks other than the mobile one, callers that pass a null message, a looper
that is null, and radio power are not modelled.

`Callers` says when the next call comes: at any time, when the one before is
answered, or when it has also left no trace (no handler at work or listening,
no `onLost` under way). The last is how a patient user behaves; the
first is what the interface allows.

### ModemCalibration

`modemfs` and `efs` each have a guard file, a directory and its files; the
content of a file is missing, the default, or the number of a calibration.
`Start` makes the decision of the nested tests, `Copy` is one directory or one
file of `cp -r`, `Mark` the guard file, `Exec` the end of the script.
`CopyFails` is a `cp` that gives up and `MarkFails` an `echo` that cannot create
its file; the script notices neither. `Stop`
can come after each of these steps, so that a loss of power that keeps a
prefix of the writes is covered; one that keeps the guard file and loses the
files before it is not. The modem's own writes are external: file by file,
the guard file last, as the script's use of the guard file supposes, and only
while there is none. The mode files of the first half of the script
(`MCE.CFG`, `PMST.CFG`) are written in a fixed order at each start and left out.

### RecoveryScreen

One module for `recovery/twrp-graphics.c` and `configs/recovery/graphics.c`,
which differ in what `gr_init` answers and in `gr_get_surface`. `device` says
which one runs, how long the lines of the framebuffer are and how much memory
it has: one picture, two, or a pixel less than two. Both programs initialise
twice; `FirstRound` and `SecondRound` are `gr_init_orig` (or `gr_init_real`),
and each can fail to open tty0, to put it into graphics mode (`tty`), or anywhere
in `get_framebuffer`. `lostByRounds` is history: what first rounds left open or
allocated. `unreturned` counts what every round takes and nothing gives back: the
context of `gglInit` with the font of `gr_init_font`, and the mapping of the
framebuffer (`twrp-graphics.c:735, 701-707, 183`), none of which `gr_exit` frees
(795-805). When there is no memory for the font, the program follows a null pointer
(`NoFont`). `CopyRow` is one row of the `memcpy` in `gr_flip`, so that what the
driver shows meanwhile can be looked at; the driver may refuse the swap that
follows. The surface's contents are the number of a picture; the framebuffer is
modelled pixel by pixel.

### RecoveryText

`LoadByte` is one turn of the loop in `gr_loadFont`, whose file may end early.
`TextChar` is one turn of the loop of the function that was called: `AddChar`
is that of `gr_textEx` and `gr_measureEx`, `CwmChar` of CWM's `gr_text`,
`MaxChar` of `gr_maxExW`, `ClipChar` of `gr_textExW`, `ClipBoth` of
`gr_textExWH`. A pixel drawn carries the column of the font image it came from,
so that a line can be compared with the glyphs side by side: `Lines` is the
reference, the columns of the beginnings of a string.
`gr_textEx_scaleW` is its arithmetic: the width measured, and the placement.
The size a TTF font takes when it is scaled is any that fits; without a string,
a font or a smaller font it draws nothing and returns 0 (`DrawsNothing`).
`ShortHeader` is a font file that ends within its header: no result of a `read` is
looked at (634-636), the font is whatever was there, and the model goes no
further with it. A font that cannot be opened is null and leaves the built-in
one (621-629). `gr_textExWH` that stops at `max_width` returns where the glyph it cut
would have ended (512-514), not `max_width` as `gr_textExW` does; `ReturnsTheEnd`
says so.

### MinuiGraphics

`BeginRound` to `FinishRound` are `gr_init_real`, which runs twice; `works` are
the backends that work in this round. A drawing request is one step that
records the pixels it painted and the part of the font image it read; the
operators `GrFill`, `GrBlit`, `GrTexticon` and `GrText` clip as the code does.
`FillByte` and `TextByte` are the blending of one byte in the integers the code
uses. The backends are external: they give a surface or null.

### RilRadio

The framework's thread tests `mState` and then stores the message
(`GetIccCardStatus`, `KeepSimStatus`); the receiver thread switches the state,
tests the message, sends it and clears it (`RadioStateChanged`,
`SwitchToRadioState`, `SwitchTests`, `SwitchSends`, `SwitchClears`). The two
interleave; a PIN-unlocked SIM is announced before the state is switched
(`noticed`, 644-646), and a caller who asks at once reads the old state. `Outcome` is the end of
`processSolicited`. `send`, the list of requests, and closing a connection are
the superclass's, modelled from how this class uses them. `overwritten`,
`blocked`, `stale`, `noticed` and `errors` are history. `RequestsAreSettled` names the
messages the code overwrites or never sends (917, 886) and claims that no other is
lost.

### RilParcels

A parcel is a sequence of fields, each with its name and the call it belongs
to. What rild writes (`ReceiveCalls`, `DataNames`) is external: its order is
that of the structures `RIL_Call`, `RIL_UUS_Info` and `RIL_Data_Call_Response` of
the interface, written down apart from the readers, because rild is not in the
repository. `CallReads` and `DataReads` are what the class reads. The
readers go on from `position`, so that one field too many or too few is seen by
every later call. A call whose state or presentation is unknown (`odd`), a null
user-to-user array, a negative count (`RefuseCount`) or a data call without an
interface makes the reader throw, and the caller gets nothing. The twelve ints of the
signal strength are modelled by their arithmetic. Gateways (972-979) and the
cause of a failed call are in the model; they are assignments, and no property
speaks of them.

### Strstr

`ScanChar` is one turn of the inner loop, `Compare` the `strncmp` behind it.

### GpsShim

`pointers` are the function pointers in the structures of the library,
`originals` the three globals, and a call through a pointer whose original is
the shim again overflows the stack. The library is external: it may open the
same device twice, it keeps its interfaces, and it may have none, which the shims
do not test (`gps.c:77, 89`).

The caller's memory is one cell for each field of `AGpsRefLocationSamsung`;
`SamsungFields` and `VendorFields` are the two structures of `gps.h`, and
`FieldAt` says where the cid of the smaller one lies: where the larger has psc. A
caller has either structure, or one that is too large. A `mac` takes the place of
the three fields before `lac`, so that a location of type MAC is copied with them
and reaches the library like any other.

Threads of the library take the lock this shim provides (`LockManager`), look at
`sInstance`, make a SensorManager and store it; the library may delete it, and
`Unload` destroys what is left. `createEventQueue` and `CRYPTO_malloc` pass
their call on and keep nothing; they are left out.

### BootScripts

`LoadPass` is one of the five loops; a module's number is its line in the list,
and what failed stays in that order. The dependencies are every forest in
which a module needs at most one other, over lists in any order.
The USB actions run command by command; init's queue and `UsbDeviceManager`
are external. init puts an action in its queue when the property is set, the
action reads the property when it runs.

### Device

These components share no state: they are different programs, or threads that
meet in other modules. `Device` picks one and lets it run, so that one run of
TLC explores each of them wholly and none of their products.

## 3. Runs

| Run | Bounds | Shows |
|---|---|---|
| `shared_buffer` | 2 owners, 3 blocks, 2 sizes, fair | exact count, no dangling pointer, exclusive means alone, no leak, in all interleavings; SharedBuffer implements SharedBufferSpec; the last release frees |
| `vector_sequences` | 2 vectors, of objects and of memcpy items, 3 blocks, items 10, 20, at most 3 items, smallest block 2 | sound memory, capacities that hold the items, sharers that agree, and VectorSpec |
| `sorted_vector` | 3 keys, 2 values, at most 4 items, merges of 2, fair | order, search, the operations of a map, termination |
| `sorted_add` | the same | violation, see below |
| `ril_settled` | 2 calls, 2 handlers, a restart, a query, fair | callers that wait are answered, after the modem, and mobile data comes back |
| `ril_anytime` | 2 calls at any time, one switch by the user, a query, fair | the reset type is never sent; nobody misses the end of the connection |
| `ril_data_call`, `ril_late_query`, `ril_lost_answer` | 1 or 2 calls | violations, see below |
| `modem_calibration` | 2 files, 2 calibrations, 2 stops, 2 downloads, fair | the modem starts complete, guards are true, a calibration is restored |
| `device_parts` | see `Device.cfg` and below | the parts of `Device` |
| `gps_second_get` | those of `Device.cfg` | violation, see below |

`device_parts` checks one property for each concern of a part; each is the
conjunction of named ones, which its module states and explains one by one:

| Property | Conjuncts |
|---|---|
| `SurfacesAreOwned` | `MemoryIsLive`, `FreedOnce`, `LossIsFirstRound`, `LossPerInit`, `ConsoleRestored` |
| `PicturesAreWhole` | `NoTearing`, `FlipShows` |
| `BackendIsUsable` | `DrawsOnItsBackend`, `SurfaceIfAnyWorks` |
| `DrawingIsRight` | `PaintsInside`, `AreaIsDrawn`, `MarginIsFree`, `GlyphsAreInImage`, `BlendIsBetween`, `TextFillsAlike` |
| `TextIsRight` | `DrawsTheLine`, `ReturnsTheEnd`, `MaxIsMaximal`, `HeightIsKept`, `FontIsWhole`, `CircleIsRound`, `PlacedInside` |
| `RequestsAreSettled` | `AnsweredOnce`, `NoMessageIsLost`, `DelayedUntilOn`, `SuccessIsTrue` |
| `ParcelsAreReadRight` | `FieldsInPlace`, `CallsAreComplete`, `DataCallsAreComplete`, `UnknownIsNotGood` |
| `FindsFirst` | one property |
| `ShimsBehave` | `NoRecursionAtFirst`, `LocationComesBack`, `NoManagerLost` |
| `LoadedInTime` | one property |
| `UsbSettles` | `StateIsConfig`, `GadgetAsWanted` |

The type invariants of these parts, and of VectorImpl (`MemoryIsSound` begins with it),
are conjuncts as well. `TypeOK` of RilNetworkType is a definition that no run
lists; that of
ModemCalibration is proved, and so is that of RilNetworkType, as part of its invariant.

Why the bounds are enough. Two owners are needed for every race on the count,
and three blocks let both copy away from a shared one; that a third owner adds
nothing is proved, for the safety invariants. `kMinVectorCapacity` is 4 in the
source; 2 lets vectors that TLC can enumerate outgrow the first block and shrink
below half of the second, as longer ones do at 4. A third item is needed for a
middle to shift. Items 10 and 20 differ under the sorting key; that equal ones
keep their order is proved (`VectorsIndependent`), and not visible in the run.
Four items in a sorted vector make a search of three turns in which both halves
are taken, and merges of two items one that is interrupted by a failure in the
middle. Two network-type calls are what it takes for one to overtake the other,
or to lose its response to the one before; the proofs of the safety invariants
and of `WakeUpIsPending` need no bound on the calls. A calibration needs two
files to be a mixture, and two calibrations to be the wrong one; two stops let a
recovery be interrupted itself.

In `device_parts` a screen is one pixel wide and two high, with lines of one and of two
pixels: the second row shows a wrong stride, the second pixel the padding. Two
calls of `gr_init` are needed to find the pointer that `gr_exit` leaves. minui's
surfaces are 2 or 3 wide with margins of none, a third that rounds down, and a
half that leaves no area; coordinates go one beyond them, and bytes are
those at both ends of the range. A line has 3 characters out of two glyphs
and one that has none, limits cut it before, in and after a glyph; font files
are shorter than, and no multiple of, the bitmap they fill. Two messages are
what it takes for one to displace the other in `mPendingGetSimStatus`, and two
states to switch the radio on twice. Two calls in a list show a shift from one
to the next. Strings of 5 and patterns of 3 over two characters hold every way a pattern
overlaps itself. Six modules are one more than the passes. Six changes of
`sys.usb.config` are three wishes of the framework.

Deadlock is not checked in `shared_buffer` (editArrayImpl aborts the process
when memory is exhausted), in the sorted runs (a null pointer ends the
process), in the RIL runs (the phone comes to rest when all calls are
answered, or dies of an exception), in `modem_calibration` (the agent runs
on) and in `device_parts` (each part ends: `strstr` returns, a program exits or
dies of a null pointer, the bounds are used up).

Fairness. SharedBuffer and SortedVector: a thread inside a call goes on;
nothing makes it start one. RIL: the main looper delivers broadcasts, the
receiver thread and each handler thread go on, the modem answers, and the
framework takes the connection down when mobile data is disabled; nothing
makes callers call, `onLost` run, or the connection come back.
ModemCalibration: the script goes on, and init restarts it when it ends, as
its last comment says; nothing makes the modem calibrate. `device_parts` checks
safety only and assumes none: `StateIsConfig` and `GadgetAsWanted` say what holds
when init has come to rest, `ShimProofs` that strstr makes progress.

### What the violations show

* `sorted_add`: `merge` inserts a sorted vector as a whole when its range
  touches this one's at a key; the key is then there twice and `add` replaces
  one of the two.
* `ril_data_call`: the connection comes up between `NeedReconnect` (221) and
  the send (263), so that a data call is running while the type is sent, also when
  only one call is made.
* `ril_late_query`: the answer to a query overwrites the type that was sent after
  the query (834), and a restarted rild would be sent the old one.
* `ril_lost_answer`: the caller is answered before `mNetworktypeResponse` is
  set to null; its next call can lose its response to that assignment.
* `gps_second_get`: asking for the interface or the extension a second time makes a
  shim its own original, and the next call recurses until the stack is full
  (`gps.c:77, 89`). `ShimsBehave` speaks of the first call of each function.

Further behaviour that the models contain and that a reader may not expect:

* there are two more ways to send a type during a data call: a call that finds
  mobile data disabled by another needs no reconnect by that test (221, 245) and
  sends at once while the connection is still up; and the connection is back when
  `onReceive` gets the broadcast that it was lost, its own or one of `onLost` (377);
* a call and the resend after a restart write the remembered type and send theirs
  on two threads (258-263, 666): the last one sent need not be the one remembered;
* when calls overlap, the completion of one can meet the null that another left in
  `mNetworktypeResponse` (338) while mobile data is disabled for a third: the process
  dies and data stays off;
* a refusal by the modem is reported as success (336), which is why
  `AnswerFollowsModem` says that the modem has answered and not what;
* a caller that has the `AGpsRefLocation` of the interface is treated as if it had
  Samsung's: its cid goes to psc, and the library is given the bytes behind the
  structure as cid, and writes there (`gps.c:44, 67`); `LocationComesBack` speaks of
  its other fields;
* a second call overwrites `mNetworktypeResponse` before the first is answered
  (322), and the first is then never answered: no property of a run with
  overlapping calls asks for an answer;
* `_shrink` asks for at least `kMinVectorCapacity` items even when
  `setCapacity` made a smaller block, so that removing can move the items to a
  larger one (`VectorImpl.cpp:467`);
* `remove` returns the index of an item that `_shrink` had no memory to remove
  (`VectorImpl.cpp:672`);
* after a `cp` that failed the guard file is written all the same
  (`ste_modem.sh:85-95`). Only `RestoredInTheEnd` is claimed after a failed copy;
  after a guard file that could not be written it is not claimed, as an `echo` that
  fails at every start restores for ever, and both copies need not agree;
* `getIccCardStatus` tests the state and stores the message without a lock: the
  radio may switch on in between, and the message then waits for the next
  time or is set to null unsent (`SamsungU8500RIL.java:917-918, 930`); a second
  message replaces the first (918). `NoMessageIsLost` names exactly these, and the
  requests that are never sent (896, 905);
* error -1 of a text message is reported as success: the answer is read again
  where the payload ended, and gives zeros (541-559);
* a gsm signal of -1 becomes 255, or 765 in bars (868-870);
* `gr_maxExW` counts only characters that have a glyph, and callers that use the
  answer as a number of characters cut the line too early (`twrp-graphics.c:316`);
* `gr_textEx_scaleW` without scaling does not keep to `max_width` (380);
* `gr_get_surface` copies `xres * yres` pixels of a surface whose lines may be
  longer (841), and no `malloc` of a surface is checked;
* CWM's `gr_init` answers 0 whatever happens (`configs/recovery/graphics.c:364`);
  the properties that speak of a usable surface leave that case out by name
  (`Misled`);
* a font image of odd height gives glyphs of half of it, rounded down
  (`graphics.cpp`); `GlyphsAreInImage` is checked for even heights only;
* minui keeps the surface of the first round when `open_adf` gives null in the
  second, and then asks a null backend to flip (`graphics.cpp:357-383`); a
  DRM backend that failed is not exited, nor is the backend of the first round
  when the second takes another;
* a framework that sets none and sees `sys.usb.state` still at none from before
  may set the next value at once, and the action of none then reports that value
  before the gadget has it (`init.samsungcodina.usb.rc:30`). `GadgetAsWanted` is
  therefore about an init that has come to rest, and a state reported before the
  gadget has changed is not a violation of it;
* a chain of modules in reverse order that is longer than five stays incomplete
  (`00userinit:39`).

## 4. Proofs

`SharedBufferProofs` proves for every finite set of owners, every set of
addresses and sizes, from `BufferAssumption` alone:

* `TypeCorrect`: the type invariant;
* `CountExact`: `mRefs` is the number of owners that hold the block and have
  not yet given it up;
* `NothingDangles`: whoever holds an address holds an allocated block;
* `ExclusiveIsAlone`: an owner in the middle of an edit in place is the only
  holder;
* `NoLeak`: an allocated block is held by somebody or being freed;
* `OwnersIsolated`: SharedBuffer implements SharedBufferSpec, without its fairness:
  a copy on write keeps the cells that fit, and shows in no other owner.

None of these is inductive alone. The exact count rests on what each point of
a call means (an owner between `Decrement` and `Dealloc` holds the block with
count zero, an owner past the check of `onlyOwner()` is alone), and that on the
exact count: `IInv` is their conjunction. The proof goes action by action; the
arithmetic of the count is kept in lemmas about the set of holders with one
owner added or removed, and the main proof only moves owners between sets.
The refinement needs that no contents look like a missing block
(`ContentsAssumption`) and, beyond `IInv`, that an owner in an edit asked for a
size (`SizesAsked`). Each step of an owner is then a create, share, write,
ask, serve, refuse or drop of SharedBufferSpec, or is not seen there. That a copy
is the old contents needs that the fresh block has the size asked for and that the
old block is not written meanwhile, which is again the count's matter; that the other
owners do not see it either is where the exact count is used: whoever writes is alone.

`VectorImplProofs` proves from `VectorAssumption` (there are finitely many
vectors, items are numbers, a slot without an object and the null pointer are
told apart from them), for any number of vectors, blocks and items, any counts
and capacities and every pattern of failing allocations:

* `SoundMemory`: no primitive is ever misused, and the variables keep their types;
* `CountedSlots`: `mRefs` is the number of vectors on the block, and where items
  have constructors the slots below their count are the ones that hold objects;
* `AgreeingSharers`: vectors on one block have one count;
* `VectorsIndependent`: the vectors implement VectorSpec: a call inserts, removes,
  replaces, sorts or copies items of its own vector as it promises, or does
  nothing, and no other vector sees it.

The first three need each other, and a vector without storage to have no items: their
conjunction is the invariant (`State`, a predicate of a memory and the vectors
in it). Three layers lead to it. For each primitive a lemma says what it makes
of a memory in which it may be used (`Filled`, `Copied`, `Moved`, `Housed`).
For `editArrayImpl`, `editResize`, `_grow` and `_shrink` a lemma says which
outcomes there are (`Edited`, `Resized`, `GrowResult`, `ShrinkResult`): nothing
has happened, or the vector is alone on its block (`Alone`), which was its own
or was free before, with the items where the call says and, after `_grow`, a gap
that may be written. Then each call is short: the vectors that shared the old
block keep its items, the count of their block drops by one, and nobody was on
the new one (`AloneReplaces`). `sort` needs in addition that every place of the
sorted array is some item's (`EveryItemHasItsPlace`): the number of items ahead of
an item is different for different items.

For the refinement each call also says what its vector becomes (`Step`). That
the other vectors see nothing (`ReplacesBecomes`) follows from what keeps memory
sound: a block another vector is on keeps its slots. What the vector itself
holds follows from where the items are after `_grow` (`GrownSequence`), `_shrink`
(`ShrunkSequence`) and `editArrayImpl` (`EditedSequence`); `sort` is a stable
sort because the number of items ahead of an item grows with its key, and with
its place among equal keys (`OrderedSequence`).

`RilNetworkTypeProofs` proves from `RilAssumption` (the bounds are numbers), for
any number of calls, handlers, queries and restarts, three properties of the change:

* `UnsetIsNeverSent`: a type that was never set is not sent, without a condition;
* `NoWakeUpIsLost`: a handler that listens has the end of the connection still
  before it, or its broadcast coming, wherever in a call the connection ends,
  without a condition;
* `NobodyIsAnsweredEarly`: the modem has answered before the caller hears of it,
  if callers are settled.

The condition is not a convenience: `ril_lost_answer` shows
what happens to callers that are not settled. The first theorem needs the shapes
of messages and handlers and that whoever is about to be called back, or is being
called back, has a type; the second, that the connection cannot be gone without a
broadcast for everyone who listens, because a receiver registered too late is told
at once. The third rests on there being at most one thing under way with settled
callers: a call on the main thread, a listener, a message, a handler at work, or
an `onLost`. What the runs refute (`SentWithoutDataCall`,
`RemembersWhatWasSent`) is of course not proved of any callers.

`SortedVectorProofs` proves from `SortedAssumption` (keys are integers), for
any number of items, that the items stay in order (`StaysSorted`), that the
search stays in the array (`TypeCorrect`) and that it finds the key or the one
place for it (`SearchCorrect`). The invariant adds the loop invariant of the
search (`SearchNarrows`) and what is known of a vector about to be inserted as
a whole (`MergeFits`). Lemmas say what inserting, replacing, removing and
concatenating do to an ordered sequence; each action then has a short proof.
`SortedIsMap` is the action property `ActsAsMap`: while no whole vector with a
common key is inserted, a step adds, replaces or takes away one key or joins two
maps. It needs that the search was right, that the contents of a vector
without a repeated key are its only map (`MapsIsContents`), and one lemma for
each change of the sequence (`InsertedMap`, `ReplacedMap`, `RemovedMap`,
`JoinedMap`).

`BootProofs` proves of the calibration from `CalibrationAssumption` that, as long as
no copy failed, the modem starts on a complete directory (`ModemComplete`), a
guard file stands for one calibration (`GuardsAreTrue`) and both guard files
for the same one (`CopyIsTrue`), for any set of files and any bounds. The
invariant says for each part of the script what the files it has copied are,
so that a stop may come anywhere.

Of the USB actions it proves from `BootAssumption`, for any configurations and
any number of changes, that `UsbSettles` (`UsbSettlesHolds`). That
`sys.usb.state` ends as `sys.usb.config` needs only that every action ends by
reading the property. What the gadget is needs to know how far init may be behind the
framework (`ManagerInv`): `sys.usb.state` is "none" when the framework first waits
for it, so the first configuration is set before "none" has run, its value is
seen a whole action too early, and that delay may stay. As long as
it waits there are never more than two actions under way, and never one twice. `Made` says
what the commands that have run have made of the gadget.

Of `00userinit` it proves from `BootAssumption`, for any number of modules, any
forest of what they need and any order of the list, `LoadedInTime`
(`LoadedInTimeHolds`). The invariant (`LoaderInv`) is that exactly the modules
whose passes have come are loaded, and that no chain comes back to itself. The passes of a module follow from those of the one it needs
(`PassesFollow`): the jumps of its chain are those of the other, one step
later, and one more if that one comes later (`JumpsOf`). Within a loop the modules up
to a line of the list are already a pass ahead of the rest (`PassLoads`). That the chain
and the loop, which are recursive functions, are what their equations say, and
every fact about each of their steps, is shown by the least number for which it would fail
(`HasLeast`).

`ShimProofs` proves of strstr, from `StrstrAssumption`, for any alphabet and strings of any
length, that `strstr` returns the first occurrence (`FindsFirstHolds`), that it
never reads behind the terminator (`StaysInStringHolds`) and that each turn of
the inner loop moves on (`ScanAdvancesHolds`). The invariant is that find does not
occur at any position the pointer has passed, and that in a comparison the
character before the pointer is find's first; its one interesting step is a
comparison that fails, where the pointer stays and nothing is skipped.

Of the GPS shims it proves from `GpsAssumption`, for any number of calls in any
order and any number of threads, that they behave (`ShimsBehaveHolds`). That a shim calls itself only
when it was put in its place twice follows from a count: a shim is in a pointer
after one replacement, and saved as an original only by the second
(`ShimsCount`). That no SensorManager is lost needs the lock: at most one thread is
between the look at `sInstance` and the store.

`RilRadioProofs` proves from `RadioAssumption` (the bounds are numbers), for any
number of messages, radio states and connections, the whole of
`RequestsAreSettled` (`RequestsSettled`). The invariant says where each message
is: in a result, in the list of requests, in the hand of its caller, in
`mPendingGetSimStatus`, or given up (`PlaceInv`). It needs that these places do
not overlap, but while the receiver thread has sent the kept message and not
yet cleared it (`KeptInv`), that no two requests have the same serial or the
same message (`ListInv`), and what the receiver knows between its steps, for
example that the caller of a message which reaches `mPendingGetSimStatus` after
the test had read `mState` too early (`SwitchInv`). `SendEffect`, `AnsweredEffect`
and `CloseEffect`
say what sending, answering and the end of a connection do to results and list;
each action is then short.

Of the parcels it proves from `ParcelAssumption`, for lists of any length, any versions and
any raw values, `ParcelsAreReadRight` (`ParcelsRight`). The invariant of the
loops (`CallsInv`, `DataInv`) is that the position is where the fields of the
next call begin (`Located`), which rests on what one sequence after the other
holds (`PrefixStays`, `PartInPlace`), shown by the least list for which it would
fail; and that what rild writes in any version is what the class reads
(`DataFields`). For the sort, the rank of a call in its list is shown to be a
bijection (`RankDiffers`, `PlaceTaken`), hence the sorted list has the same
calls, in order (`SortedOrder`).

`RecoveryProofs` proves from `ScreenAssumption`, for screens, line lengths and
pictures of any size and any number of calls of `gr_init`, both properties of
RecoveryScreen. `SurfacesOwned` says that nobody draws on freed memory, that tty0 comes back, and
that descriptors and surfaces are given back but for what first rounds lost, which
grows with the calls of `gr_init`, as do contexts, fonts and mappings, whatever
fails. Its invariant (`OwnedInv`) says where the program stands in its two rounds
(`RoundsInv`), that a descriptor which is open and in no variable was lost by a
first round (`FdsInv`), and the same of blocks, with the one pointer that is
left after a free (`BlocksInv`). It is needed because a round fails differently
before and after tty0 was opened, and `NewFd` must be shown to give a descriptor
that is free (`NewFdIsNew`). `PicturesWhole` says that whole pictures are shown. It needs the
shape of the framebuffer, which the driver chooses (`ShapeInv`), and the loop
invariant of `memcpy` (`ContentInv`): the rows before `row` of the active buffer
hold the picture, while the driver shows the other buffer. The arithmetic is in
`RowCopied`: a pixel of one row of one buffer is at no other row's place, for
any stride.

Of minui it proves from `MinuiAssumption`, for surfaces, fonts, margins
and coordinates of any size, that after the rounds of `gr_init` the surface
belongs to the backend that shows it (`BackendUsable`), and that nothing is
painted outside the surface (`NothingOutside`). The first rests on what each
point of `gr_init_real` knows of surface and backend (`RoundInv`): the first
round begins without a surface, and a backend that was passed over has not
worked. The second rests on a lemma about one rectangle clipped to the surface.
`DrawingHolds` says the rest of `DrawingIsRight`: what lies within the area of
`gr_fb_width` and `gr_fb_height` is drawn to its last pixel and leaves the
margin free, glyphs are read inside the image, and no byte wraps. Its invariant
(`RequestInv`) says that requests come after `gr_init` has measured the margin
of the surface that is kept, whichever round chose it, and that the image has
room for 96 characters. The characters of a text are shown to be one rectangle
by division (`ColumnOf`, `SideBySide`), and the blended byte to lie between the
old one and the colour for all of the 2^24 triples (`Weighted`).

Of text, fonts and shapes it proves from `TextAssumption`, for fonts of any
number of glyphs and widths, strings, limits and radii of any size, all of
`TextIsRight` (`TextHolds`). The loops are right because of what holds at the
top of each (`LoopInv`): the pen stands at the end of the line of the characters
already walked, what is drawn is that line, cut or not, and `gr_maxExW` has
counted the glyphs of it. `DrawGlyph` says that one rectangle draws the columns
of one glyph up to the edge, `LineGrows` that longer beginnings of a string have
lines that begin alike, so that a function that stops at `max_width` has missed
nothing that would be seen (`CutHere`). In `gr_text` of CWM the pen also moves
over what has no glyph, which is right because all widths are one (`FixedWidth`).
While a font is read, its bitmap is a whole number of bytes or is full
(`FontInv`), and eight pixels are one byte of the file (`BitsOfByte`,
`ByteAdded`). `Lines` and the offsets of a font are recursive functions: that
they exist is shown by the least length for which they would not (`HasLeast`).

Checked by TLC only: that the last release frees and the fairness of
SharedBuffer, that the calls of a sorted vector return, that every settled call of
a network-type change is answered, mobile data comes back and nobody listens
for ever, and that a calibration is restored in the end.
Liveness and ENABLED are beyond the proof system, and so is induction over data.

## 5. Not modelled

* `gr_clip` and `gr_line` of TWRP and the blits of TWRP and CWM are one call of
  libpixelflinger each, without a condition of their own; `gr_fb_blank` is one
  `ioctl`. `Draw` stands for them in RecoveryScreen. TTF fonts are in a file
  that is not here.
* `sort` is one step of VectorImpl; what it constructs in its temporary is not
  modelled.
* `recovery_keys.c`: one function of its arguments. `samsung_ril.cpp` passes
  symbols on.
* The answers read by the superclass RIL, broadcasts of other networks, and
  radio power in the change of network type.
* The other scripts of `init.d` write sysfs values once and read none; the
  other rc files make directories and start services. `ums_init.sh` and the
  storage service of the USB actions are left out of `Commands`.
* The patch tools run on a developer's machine over git trees: what they do is
  what `git` and `patch` do. The framework patches apply to sources that are
  not here.
* The vendored kernel and multimedia headers (more than half of the lines under
  `include/`), overlays, audio and media configuration, SELinux policy,
  makefiles and prebuilt binaries have no behaviour of their own.

What may come next: the statements of `sort`.
