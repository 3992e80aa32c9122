---------------------------- MODULE BootScripts -----------------------------
(***************************************************************************)
(* configs/init.d/00userinit, which loads the kernel modules of a list in  *)
(* five passes, and rootdir/init.samsungcodina.usb.rc, the actions of init *)
(* for the USB gadget.                                                     *)
(*                                                                         *)
(* init is not in this repository: it puts the action of a property value  *)
(* at the end of its queue unless it is there, runs one command at a time, *)
(* takes a new property value between any two, and reads ${...} when it    *)
(* runs the command.  The framework sets none, waits for sys.usb.state,    *)
(* sets the new value and waits again; it stops to wait after a second.    *)
(***************************************************************************)
EXTENDS Integers, FiniteSets, Sequences

CONSTANTS ModuleCount, \* kernel modules in modules_list.txt
          Configs,     \* values of sys.usb.config but "none"
          MaxSets      \* bound: changes of sys.usb.config

ASSUME BootAssumption ==
  ModuleCount \in Nat /\ MaxSets \in Nat /\ "none" \notin Configs

VARIABLES
  needs,      \* the module each module needs, 0 for none
  loaded,     \* the modules in the kernel
  pass,       \* loops of 00userinit that have ended
  again,      \* what the next one tries, in the order of the list: again .. again3
  config,     \* sys.usb.config
  usbState,   \* sys.usb.state
  queue,      \* actions of init that wait
  running,    \* the action that runs, and its next command
  gadget,     \* android0: [enable, idProduct, functions]
  adbd,       \* adbd runs
  usbManager, \* the framework: what it wants, what it waits for
  overtaken,  \* the framework once stopped to wait
  sets

loader == <<needs, loaded, pass, again>>
usb == <<config, usbState, queue, running, gadget, adbd, usbManager, overtaken, sets>>
bootVars == <<loader, usb>>

Modules == 1..ModuleCount
Passes == 5
NotRunning == [action |-> "idle", command |-> 0]

BootInit ==
  /\ needs = [m \in Modules |-> 0] /\ loaded = {} /\ pass = 0 /\ again = {}
  /\ config = "none" /\ usbState = "none" /\ queue = << >> /\ running = NotRunning
  /\ gadget = [enable |-> FALSE, idProduct |-> "6860", functions |-> "none"] /\ adbd = FALSE
  /\ usbManager = [wants |-> "none", pc |-> "idle"] /\ overtaken = FALSE /\ sets = 0

-----------------------------------------------------------------------------
\* What a module needs, what that needs, and so on: 0 from where nothing is needed.
Chain(need, m) ==
  LET up[k \in 0..ModuleCount] == IF k = 0 THEN m ELSE IF up[k - 1] = 0 THEN 0 ELSE need[up[k - 1]]
  IN  up

\* The boot: modules that each need at most one other, in the order 1, 2, ... of
\* the list.
ReadList ==
  /\ pass = 0 /\ again = {}
  /\ needs' \in [Modules -> 0..ModuleCount]
  /\ again' = Modules
  /\ \A m \in Modules : Chain(needs', m)[ModuleCount] = 0
  /\ UNCHANGED <<loaded, pass, usb>>

\* Mutant: a pass stops at the first module that fails.
LoadUntilFailure(list) ==
  LET has[m \in 0..ModuleCount] ==
        IF m = 0 THEN loaded
        ELSE IF /\ m \in list /\ needs[m] \in has[m - 1] \cup {0}
                /\ \A j \in 1..(m - 1) : j \in list => j \in has[m - 1]
        THEN has[m - 1] \cup {m} ELSE has[m - 1]
  IN  has[ModuleCount]

\* insmod of each line of a list, one after the other.
LoadEach(list) ==
  LET has[m \in 0..ModuleCount] ==
        IF m = 0 THEN loaded
        ELSE IF m \in list /\ needs[m] \in has[m - 1] \cup {0} THEN has[m - 1] \cup {m} ELSE has[m - 1]
  IN  has[ModuleCount]

\* One of the five loops; what fails is tried in the next, after the fifth no more.
LoadPass ==
  /\ again # {} /\ pass < Passes
  /\ loaded' = LoadEach(again)
  /\ pass' = pass + 1
  /\ again' = again \ loaded'
  /\ UNCHANGED <<needs, usb>>

-----------------------------------------------------------------------------
\* idProduct of a configuration.
Product(c) ==
  CASE c \in {"mtp", "mtp,adb"} -> "6860"
    [] c = "ptp" -> "6865" [] c = "ptp,adb" -> "6866"
    [] c = "mass_storage" -> "685B" [] c = "mass_storage,adb" -> "685E"
    [] c = "rndis" -> "6863" [] c \in {"rndis,adb", "rndis,dm", "rndis,acm,dm"} -> "6864"
HasAdb(c) == c \in {"mtp,adb", "ptp,adb", "mass_storage,adb", "rndis,adb"}

Set(value) ==
  /\ sets < MaxSets /\ sets' = sets + 1
  /\ config' = value
  /\ queue' = IF \E i \in DOMAIN queue : queue[i] = value THEN queue ELSE Append(queue, value)

\* UsbDeviceManager.
WantConfig ==
  /\ usbManager.pc = "idle"
  /\ \E v \in Configs : usbManager' = [wants |-> v, pc |-> "clearing"]
  /\ Set("none")
  /\ UNCHANGED <<usbState, running, gadget, adbd, overtaken, loader>>

SetConfig ==
  /\ usbManager.pc = "clearing" /\ usbState = "none"
  /\ usbManager' = [usbManager EXCEPT !.pc = "setting"]
  /\ Set(usbManager.wants)
  /\ UNCHANGED <<usbState, running, gadget, adbd, overtaken, loader>>

ConfigIsSet ==
  /\ usbManager.pc = "setting" /\ usbState = usbManager.wants
  /\ usbManager' = [usbManager EXCEPT !.pc = "idle"]
  /\ UNCHANGED <<config, usbState, queue, running, gadget, adbd, overtaken, sets, loader>>

StopWaiting ==
  /\ usbManager.pc \in {"clearing", "setting"} /\ usbState # (IF usbManager.pc = "clearing" THEN "none" ELSE usbManager.wants)
  /\ usbManager' = [usbManager EXCEPT !.pc = "idle"]
  /\ overtaken' = TRUE
  /\ UNCHANGED <<config, usbState, queue, running, gadget, adbd, sets, loader>>

\* The commands of the actions, those that do not matter here left out.
Commands(c) ==
  IF c = "none" THEN <<"stopAdbd", "disable", "state">>
  ELSE IF HasAdb(c) THEN <<"disable", "product", "functions", "enable", "startAdbd", "state">>
  ELSE <<"disable", "product", "functions", "enable", "state">>

StartAction ==
  /\ running = NotRunning /\ queue # << >>
  /\ running' = [action |-> Head(queue), command |-> 1]
  /\ queue' = Tail(queue)
  /\ UNCHANGED <<config, usbState, gadget, adbd, usbManager, overtaken, sets, loader>>

\* Mutant: the state is the value the action is for.
StateOfAction(action) == action

\* setprop sys.usb.state ${sys.usb.config}.
StateAfter(action) == config

GadgetAfter(command) ==
  CASE command = "disable" -> [gadget EXCEPT !.enable = FALSE]
    [] command = "product" -> [gadget EXCEPT !.idProduct = Product(running.action)]
    [] command = "functions" -> [gadget EXCEPT !.functions = config]
    [] command = "enable" -> [gadget EXCEPT !.enable = TRUE]
    [] OTHER -> gadget

RunCommand ==
  /\ running # NotRunning
  /\ LET commands == Commands(running.action)
         command == commands[running.command]
     IN  /\ gadget' = GadgetAfter(command)
         /\ adbd' = ((adbd \/ command = "startAdbd") /\ command # "stopAdbd")
         /\ usbState' = IF command = "state" THEN StateAfter(running.action) ELSE usbState
         /\ running' = IF running.command = Len(commands) THEN NotRunning
                       ELSE [running EXCEPT !.command = @ + 1]
  /\ UNCHANGED <<config, queue, usbManager, overtaken, sets, loader>>

LoaderNext == ReadList \/ LoadPass

UsbNext == WantConfig \/ SetConfig \/ ConfigIsSet \/ StopWaiting \/ StartAction \/ RunCommand

BootNext == LoaderNext \/ UsbNext

BootSpec == BootInit /\ [][BootNext]_bootVars
-----------------------------------------------------------------------------
(* Properties *)

\* The passes a module takes: one more for each module below it that comes later
\* in the list.
PassesOf(need, m) ==
  LET up == Chain(need, m)
  IN  1 + Cardinality({k \in 1..ModuleCount : up[k] # 0 /\ up[k] > up[k - 1]})

\* Five passes (00userinit:7-42) load every module that takes five, in whatever
\* order the list is, and pass by pass those that take as many; a longer chain
\* stays incomplete.
LoadedInTime == \A m \in Modules : pass > 0 => (m \in loaded <=> PassesOf(needs, m) <= pass)

\* When init has nothing to do, sys.usb.state is sys.usb.config, however the
\* values follow each other and whether or not the framework waits: the last
\* action reads the property when it runs (rc:30-117).
StateIsConfig == running = NotRunning /\ queue = << >> => usbState = config

\* When init has nothing to do and the framework has always waited, the gadget
\* is what it wants: the product and the functions of one configuration, and
\* adbd exactly when it is in it; no action but that of none stops adbd (rc:27).
GadgetAsWanted ==
  ~overtaken /\ usbManager.pc = "idle" /\ usbManager.wants # "none" /\ running = NotRunning /\ queue = << >> =>
    /\ gadget = [enable |-> TRUE, idProduct |-> Product(config), functions |-> config]
    /\ config = usbManager.wants /\ adbd = HasAdb(config)

\* After any sequence of changes the USB gadget settles.
UsbSettles == StateIsConfig /\ GadgetAsWanted
=============================================================================
