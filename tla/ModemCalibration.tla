-------------------------- MODULE ModemCalibration --------------------------
(***************************************************************************)
(* configs/ste_modem.sh: the calibration of the modem is a directory RFHAL *)
(* on the partition modemfs, with a copy on efs.  A guard file next to     *)
(* each says that it is complete.  The script, which init starts again     *)
(* whenever it ends, makes whatever is missing and then becomes the modem  *)
(* storage agent, through which the modem writes modemfs itself.           *)
(*                                                                         *)
(* The script may be stopped between any two files it copies.  A loss of   *)
(* power that keeps a prefix of the writes leaves the same states.  The    *)
(* script does not look at the result of cp, nor of the echo that writes a *)
(* guard file: a copy that fails goes on to the guard file, a guard file   *)
(* that cannot be created leaves a copy that counts for nothing.           *)
(***************************************************************************)
EXTENDS Naturals

CONSTANTS Files,            \* the files of a calibration
          MaxCalibrations,  \* bound: the modem is calibrated this often
          MaxStops,         \* bound: the script or the agent is stopped this often
          MaxErasures       \* bound: a download erases modemfs this often

ASSUME CalibrationAssumption ==
  /\ Files # {}
  /\ MaxCalibrations \in Nat /\ MaxStops \in Nat /\ MaxErasures \in Nat

VARIABLES modemfs, efs,  \* the partitions: GUARDFIL and RFHAL
          rfhal_copied,  \* modemfs also has the file rfhal_copied
          pc,            \* where the script is; "modem" once it is the agent
          todo,          \* files still to be copied, or calibrated
          failed,        \* history: what was given up, a copy (cp) or a guard file (echo)
          calibrations,  \* how often the modem was calibrated
          stops, erasures

partitions == <<modemfs, efs, rfhal_copied>>
bounds == <<calibrations, stops, erasures>>
vars == <<partitions, pc, todo, failed, bounds>>

\* The content of a file: not there, from RFHAL.DEF, or a calibration's.
Missing == 0
Default == 1
Calibrated == {1 + n : n \in 1..MaxCalibrations}
Contents == {Missing, Default} \cup Calibrated

Partition == [GUARDFIL : BOOLEAN, RFHAL : BOOLEAN, file : [Files -> Contents]]
Erased == [GUARDFIL |-> FALSE, RFHAL |-> FALSE, file |-> [f \in Files |-> Missing]]
RFHAL_DEF == [GUARDFIL |-> FALSE, RFHAL |-> TRUE, file |-> [f \in Files |-> Default]]

\* A phone as it is flashed: calibrated later, through the modem.
Init ==
  /\ modemfs = Erased /\ efs = Erased
  /\ rfhal_copied = FALSE
  /\ pc = "start" /\ todo = {} /\ failed = {}
  /\ calibrations = 0 /\ stops = 0 /\ erasures = 0

\* Mutant: a directory is taken for a complete one.
DefaultNeededWithoutDirectory == ~modemfs.RFHAL
DefaultNeeded == ~modemfs.RFHAL \/ ~rfhal_copied

\* Mutant: the default comes before the copy on efs.
JobDefaultFirst ==
  IF modemfs.GUARDFIL THEN IF efs.GUARDFIL THEN "sync" ELSE "backup"
  ELSE IF DefaultNeeded THEN "default"
  ELSE IF efs.GUARDFIL THEN "restore" ELSE "sync"

\* What the tests of the files tell the script to do.
Job ==
  IF modemfs.GUARDFIL THEN IF efs.GUARDFIL THEN "sync" ELSE "backup"
  ELSE IF efs.GUARDFIL THEN "restore"
  ELSE IF DefaultNeeded THEN "default" ELSE "sync"

Copying == {"default", "restore", "backup"}

Start ==
  /\ pc = "start"
  /\ pc' = Job
  /\ todo' = IF Job \in Copying THEN Files ELSE {}
  /\ UNCHANGED <<partitions, failed, bounds>>

\* What one step of cp makes of a partition and of the files to go: it makes a
\* missing directory, then copies one file after the other.
CopySteps(from, to) ==
  IF to.RFHAL
  THEN {<<[to EXCEPT !.file[f] = from.file[f]], todo \ {f}>> : f \in todo}
  ELSE {<<[to EXCEPT !.RFHAL = TRUE], todo>>}

Copy ==
  /\ pc \in Copying /\ todo # {}
  /\ \/ /\ pc = "default"
        /\ \E c \in CopySteps(RFHAL_DEF, modemfs) : modemfs' = c[1] /\ todo' = c[2]
        /\ UNCHANGED efs
     \/ /\ pc = "restore"
        /\ \E c \in CopySteps(efs, modemfs) : modemfs' = c[1] /\ todo' = c[2]
        /\ UNCHANGED efs
     \/ /\ pc = "backup"
        /\ \E c \in CopySteps(modemfs, efs) : efs' = c[1] /\ todo' = c[2]
        /\ UNCHANGED modemfs
  /\ UNCHANGED <<rfhal_copied, pc, failed, bounds>>

\* cp gives up: a partition is full, a block cannot be read.
CopyFails ==
  /\ pc \in Copying /\ todo # {}
  /\ todo' = {} /\ failed' = failed \cup {"cp"}
  /\ UNCHANGED <<partitions, pc, bounds>>

\* Mutant: the guard file is written as soon as the directory is there.
MarkEarly ==
  /\ pc \in Copying
  /\ pc = "backup" => efs.RFHAL
  /\ CASE pc = "default" -> rfhal_copied' = TRUE /\ UNCHANGED <<modemfs, efs>>
       [] pc = "restore" -> /\ modemfs' = [modemfs EXCEPT !.GUARDFIL = TRUE]
                            /\ UNCHANGED <<efs, rfhal_copied>>
       [] pc = "backup"  -> /\ efs' = [efs EXCEPT !.GUARDFIL = TRUE]
                            /\ UNCHANGED <<modemfs, rfhal_copied>>
  /\ pc' = "sync" /\ todo' = {}
  /\ UNCHANGED <<failed, bounds>>

\* echo 0 > the file that says that the copy is complete.
Mark ==
  /\ pc \in Copying /\ todo = {}
  /\ CASE pc = "default" -> rfhal_copied' = TRUE /\ UNCHANGED <<modemfs, efs>>
       [] pc = "restore" -> /\ modemfs' = [modemfs EXCEPT !.GUARDFIL = TRUE]
                            /\ UNCHANGED <<efs, rfhal_copied>>
       [] pc = "backup"  -> /\ efs' = [efs EXCEPT !.GUARDFIL = TRUE]
                            /\ UNCHANGED <<modemfs, rfhal_copied>>
  /\ pc' = "sync"
  /\ UNCHANGED <<todo, failed, bounds>>

\* The guard file cannot be created, and the script goes on.
MarkFails ==
  /\ pc \in Copying /\ todo = {}
  /\ pc' = "sync" /\ failed' = failed \cup {"echo"}
  /\ UNCHANGED <<partitions, todo, bounds>>

\* sync and exec: the script becomes the modem storage agent.
Exec ==
  /\ pc = "sync"
  /\ pc' = "modem"
  /\ UNCHANGED <<partitions, todo, failed, bounds>>

\* External: an uncalibrated modem is calibrated, file by file; its guard file
\* comes last.
Calibrate ==
  /\ pc = "modem" /\ ~modemfs.GUARDFIL /\ calibrations < MaxCalibrations
  /\ pc' = "calibrating" /\ todo' = Files
  /\ calibrations' = calibrations + 1
  /\ UNCHANGED <<partitions, failed, stops, erasures>>

WriteCalibration ==
  /\ pc = "calibrating"
  /\ IF todo = {}
     THEN /\ modemfs' = [modemfs EXCEPT !.GUARDFIL = TRUE]
          /\ pc' = "modem" /\ UNCHANGED todo
     ELSE \E f \in todo :
          /\ modemfs' = [modemfs EXCEPT !.file[f] = 1 + calibrations]
          /\ todo' = todo \ {f} /\ UNCHANGED pc
  /\ UNCHANGED <<efs, rfhal_copied, failed, bounds>>

\* The script is killed, the agent ends or the phone goes off; init starts
\* the script again.
Stop ==
  /\ stops < MaxStops /\ pc # "start"
  /\ stops' = stops + 1
  /\ pc' = "start" /\ todo' = {}
  /\ UNCHANGED <<partitions, failed, calibrations, erasures>>

\* A download erases modemfs.
Erase ==
  /\ erasures < MaxErasures
  /\ erasures' = erasures + 1
  /\ modemfs' = Erased /\ rfhal_copied' = FALSE
  /\ pc' = "start" /\ todo' = {}
  /\ UNCHANGED <<efs, failed, calibrations, stops>>

Script == Start \/ Copy \/ Mark \/ Exec
Next == Script \/ CopyFails \/ MarkFails \/ Calibrate \/ WriteCalibration \/ Stop \/ Erase

Spec == Init /\ [][Next]_vars

\* The script runs on and init restarts it; nobody has to calibrate.
FairSpec == Spec /\ WF_vars(Script)

-----------------------------------------------------------------------------
(* Properties *)

\* The variables have their types: partitions of files, the places of the
\* script, a set of files to go.
TypeOK ==
  /\ modemfs \in Partition /\ efs \in Partition
  /\ rfhal_copied \in BOOLEAN /\ failed \subseteq {"cp", "echo"}
  /\ pc \in Copying \cup {"start", "sync", "modem", "calibrating"}
  /\ todo \subseteq Files
  /\ calibrations \in 0..MaxCalibrations
  /\ stops \in 0..MaxStops /\ erasures \in 0..MaxErasures

Complete(fs) == fs.RFHAL /\ \A f \in Files : fs.file[f] # Missing
OneCalibration(fs) == \E c \in Calibrated : \A f \in Files : fs.file[f] = c

\* Whatever was interrupted or erased before, the script hands the modem a
\* directory with every file in it, as long as no copy failed; it needs no
\* guard file for that.
ModemStartsComplete ==
  pc \in {"modem", "calibrating"} /\ "cp" \notin failed => Complete(modemfs)

\* A guard file next to a directory, on either partition, says that its files
\* belong to one calibration: not a mixture, not the default, also when other
\* guard files could not be written.
GuardMeansOneCalibration ==
  \A fs \in {modemfs, efs} : fs.GUARDFIL /\ "cp" \notin failed => OneCalibration(fs)

\* Once there is a complete copy, what the modem runs on is that copy: never
\* an older calibration or a newer one that a download would lose.  Without
\* the guard file of a restored directory the modem is calibrated anew.
CopyIsTheCalibration ==
  efs.GUARDFIL /\ modemfs.GUARDFIL /\ failed = {} => efs.file = modemfs.file

\* A calibration that reached efs comes back after every download, for good
\* once the phone is left alone, unless a guard file could not be written.
RestoredInTheEnd == efs.GUARDFIL ~> (\/ [](modemfs.GUARDFIL)
                                    \/ "echo" \in failed)
=============================================================================
