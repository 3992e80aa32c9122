------------------------------ MODULE GpsShim -------------------------------
(***************************************************************************)
(* shims/libgps-shim/gps.c and libshims/libGui/libshim_gps.c: the shims    *)
(* between the framework and Samsung's GPS library.  gps.c replaces three  *)
(* function pointers in structures of the library and keeps the originals  *)
(* in three globals; libshim_gps provides a singleton that the library     *)
(* creates and may delete, the lock its threads take for it, and destroys  *)
(* what is left when it is unloaded.                                       *)
(*                                                                         *)
(* The library is not in this repository: its open may give a new device   *)
(* or the one of before, its interfaces are the same at every call.        *)
(***************************************************************************)
EXTENDS Integers, FiniteSets, Sequences

CONSTANTS MaxGets,   \* bound: calls of each get function, SensorManagers made
          GpsThreads \* threads of the library

ASSUME GpsAssumption == MaxGets \in Nat

VARIABLES
  gpsPc,      \* "closed", "open", "unloaded", "overflow" or "null pointer"
  pointers,   \* the pointers in the structures of the library
  originals,  \* vendor_get_gps_interface, vendor_get_extension, vendor_set_ref_location
  gets,       \* how often each pointer was replaced
  location,   \* a call of set_ref_location: what the caller's memory held, what
              \* the library was given and made of it, what the memory holds then
  manager,    \* sInstance, and how many were made and destroyed
  visitors    \* where each thread of the library is in Singleton::getInstance

gpsVars == <<gpsPc, pointers, originals, gets, location, manager, visitors>>

Functions == {"get_gps_interface", "get_extension", "set_ref_location"}
NoLocation == [caller |-> "none"]
NoManager == [instance |-> "null", destroyed |-> 0, made |-> 0]

\* Where the fields of the two structures lie.  The cid of AGpsRefLocation is
\* where AGpsRefLocationSamsung has its psc, and the latter's cid is behind the
\* end of the former.  A mac takes the place of the three fields before lac.
SamsungFields == {"type", "cell.type", "mcc", "mnc", "lac", "psc", "cid"}
VendorFields == SamsungFields \ {"psc"}
FieldAt(caller, field) == IF caller = "vendor" /\ field = "cid" THEN "psc" ELSE field

GpsInit ==
  /\ gpsPc = "closed"
  /\ pointers = [f \in Functions |-> "vendor"]
  /\ originals = [f \in Functions |-> "null"]
  /\ gets = [f \in Functions |-> 0]
  /\ location = NoLocation
  /\ manager = NoManager /\ visitors = [t \in GpsThreads |-> "out"]

-----------------------------------------------------------------------------
\* Mutant: the shim is installed before the original is saved.
ReplaceFirst(f, given) ==
  /\ originals' = [originals EXCEPT ![f] = "shim"]
  /\ pointers' = [pointers EXCEPT ![f] = "shim"]
  /\ gets' = [gets EXCEPT ![f] = @ + 1]

\* The original is saved and the shim put in its place; given is the pointer
\* that is there.
Replace(f, given) ==
  /\ originals' = [originals EXCEPT ![f] = given]
  /\ pointers' = [pointers EXCEPT ![f] = "shim"]
  /\ gets' = [gets EXCEPT ![f] = @ + 1]

\* open_gps; when dlopen, dlsym or the library's open fails nothing is changed.
OpenGps ==
  /\ gpsPc \in {"closed", "open"} /\ gets["get_gps_interface"] < MaxGets
  /\ \E device \in {"vendor", pointers["get_gps_interface"]} : Replace("get_gps_interface", device)
  /\ gpsPc' = "open"
  /\ UNCHANGED <<location, manager, visitors>>

\* A call through a pointer: the shim calls its original, and when that is the
\* shim again the stack overflows.
Recurses(f) == originals[f] = "shim"

\* The shim gets the structure in which f lies through g; without one it follows
\* a null pointer.
ReplaceBehind(g, f) ==
  IF Recurses(g)
  THEN gpsPc' = "overflow" /\ UNCHANGED <<pointers, originals, gets>>
  ELSE \/ Replace(f, pointers[f]) /\ UNCHANGED gpsPc
       \/ gets[f] = 0 /\ gpsPc' = "null pointer" /\ UNCHANGED <<pointers, originals, gets>>

\* shim_get_gps_interface.
ShimGetGpsInterface ==
  /\ gpsPc = "open" /\ gets["get_extension"] < MaxGets
  /\ ReplaceBehind("get_gps_interface", "get_extension")
  /\ UNCHANGED <<location, manager, visitors>>

\* shim_get_extension: for AGPS_RIL_INTERFACE; other extensions come as they are.
ShimGetExtension ==
  /\ gpsPc = "open" /\ pointers["get_extension"] = "shim" /\ gets["set_ref_location"] < MaxGets
  /\ ReplaceBehind("get_extension", "set_ref_location")
  /\ UNCHANGED <<location, manager, visitors>>

\* The caller's memory, and that with the fields in S as the library has set them.
Memory == [f \in SamsungFields |-> <<"caller", f>>]
SetBy(fields, S) == [f \in DOMAIN fields |-> IF f \in S THEN <<"library", f>> ELSE fields[f]]

\* asusRefLoc as the library gets it, and tmp as the caller gets it back.
AsusRefLoc(memory) == [f \in VendorFields |-> memory[f]]
CopiedBack(memory, seen) == [f \in SamsungFields |-> IF f = "psc" THEN memory[f] ELSE seen[f]]

\* shim_set_ref_location, for a caller whose structure is an AGpsRefLocation, an
\* AGpsRefLocationSamsung, or larger than that and turned away: the sizes of the
\* copies do not depend on it.
ShimSetRefLocation ==
  /\ gpsPc = "open" /\ pointers["set_ref_location"] = "shim" /\ location = NoLocation
  /\ \E caller \in {"vendor", "samsung", "larger"}, S \in SUBSET VendorFields :
       IF caller # "larger" /\ Recurses("set_ref_location")
       THEN gpsPc' = "overflow" /\ UNCHANGED location
       ELSE /\ location' = [caller |-> caller, set |-> S, given |-> AsusRefLoc(Memory),
                            after  |-> IF caller = "larger" THEN Memory
                                       ELSE CopiedBack(Memory, SetBy(AsusRefLoc(Memory), S))]
            /\ UNCHANGED gpsPc
  /\ UNCHANGED <<pointers, originals, gets, manager, visitors>>

SetAgain ==
  /\ gpsPc = "open" /\ location # NoLocation
  /\ location' = NoLocation
  /\ UNCHANGED <<gpsPc, pointers, originals, gets, manager, visitors>>

-----------------------------------------------------------------------------
NobodyInside == \A t \in GpsThreads : visitors[t] = "out"

\* sLock, which a thread of the library takes before it looks at sInstance: "it
\* will lock nothing, but as long as it is a real lock".
LockManager(t) ==
  /\ gpsPc = "open" /\ NobodyInside
  /\ visitors' = [visitors EXCEPT ![t] = "locked"]
  /\ UNCHANGED <<gpsPc, pointers, originals, gets, location, manager>>

\* "get the current already-existing instance", "if not one would create one" with
\* the constructor of the shim ...
MakeManager(t) ==
  /\ gpsPc = "open" /\ visitors[t] = "locked"
  /\ IF manager.instance = "made"
     THEN visitors' = [visitors EXCEPT ![t] = "out"] /\ UNCHANGED manager
     ELSE /\ manager.made < MaxGets
          /\ manager' = [manager EXCEPT !.made = @ + 1]
          /\ visitors' = [visitors EXCEPT ![t] = "made"]
  /\ UNCHANGED <<gpsPc, pointers, originals, gets, location>>

\* ... "and store it there".
StoreManager(t) ==
  /\ gpsPc = "open" /\ visitors[t] = "made"
  /\ manager' = [manager EXCEPT !.instance = "made"]
  /\ visitors' = [visitors EXCEPT ![t] = "out"]
  /\ UNCHANGED <<gpsPc, pointers, originals, gets, location>>

Destroyed == IF manager.instance = "null" THEN manager
             ELSE [manager EXCEPT !.instance = "null", !.destroyed = @ + 1]

\* "if the GPS library itself did the cleanup".
DeleteManager ==
  /\ gpsPc = "open" /\ NobodyInside
  /\ manager' = Destroyed
  /\ UNCHANGED <<gpsPc, pointers, originals, gets, location, visitors>>

\* libEvtUnloading, when no thread is in the library.
Unload ==
  /\ gpsPc \in {"closed", "open"} /\ NobodyInside
  /\ gpsPc' = "unloaded"
  /\ manager' = Destroyed
  /\ UNCHANGED <<pointers, originals, gets, location, visitors>>

GpsNext ==
  \/ OpenGps \/ ShimGetGpsInterface \/ ShimGetExtension \/ ShimSetRefLocation \/ SetAgain
  \/ \E t \in GpsThreads : LockManager(t) \/ MakeManager(t) \/ StoreManager(t)
  \/ DeleteManager \/ Unload

GpsSpec == GpsInit /\ [][GpsNext]_gpsVars
-----------------------------------------------------------------------------
(* Properties *)

\* A framework that opens the device once and asks for each interface once
\* never meets a shim that calls itself (70-93, 122), in whatever order it asks
\* and calls; a library without an interface is found at the first (74-77, 87-89).
NoRecursionAtFirst ==
  /\ gpsPc = "overflow" => \E f \in Functions : gets[f] > 1
  /\ gpsPc = "null pointer" => \E f \in Functions : gets[f] = 0

\* The library is given every field of a caller's AGpsRefLocationSamsung, and of
\* the smaller AGpsRefLocation every one that lies in the same place, what it sets
\* in them reaches the caller, and the caller keeps the rest; a larger structure is
\* not touched (33-68).
LocationComesBack ==
  /\ location.caller \in {"vendor", "samsung"} =>
       \A f \in SamsungFields : FieldAt(location.caller, f) = f =>
         /\ f \in VendorFields => location.given[f] = <<"caller", f>>
         /\ location.after[f] = <<IF f \in location.set THEN "library" ELSE "caller", f>>
  /\ location.caller = "larger" => location.after = Memory

\* No SensorManager is lost or destroyed twice, by the library or at unloading,
\* whichever threads ask for it ("which is what it would be if the GPS library
\* itself did the cleanup", libshim_gps.c:85-109, 195-203).
NoManagerLost ==
  /\ manager.made - manager.destroyed =
       IF manager.instance = "made" \/ \E t \in GpsThreads : visitors[t] = "made" THEN 1 ELSE 0
  /\ gpsPc = "unloaded" => manager.made = manager.destroyed

\* The shims do not call themselves at the first call of each, pass on a location,
\* and lose no SensorManager.
ShimsBehave == NoRecursionAtFirst /\ LocationComesBack /\ NoManagerLost

\* "Get a pointer to extension information" (hardware/gps.h:707): a call of the
\* framework comes back, however often it asks.
CallsComeBack == gpsPc # "overflow"
=============================================================================
