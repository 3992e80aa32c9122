---------------------------- MODULE BootProofs ------------------------------
(***************************************************************************)
(* What runs at boot.  Of ste_modem.sh (ModemCalibration), for any files   *)
(* and any number of stops, downloads and calibrations: as long as no copy *)
(* fails, the modem starts on a complete directory and the guard files     *)
(* tell the truth.  That is not inductive: what an interrupted script has  *)
(* left must be known while it copies.  Of init.samsungcodina.usb.rc       *)
(* (BootScripts), for any configurations and any number of changes: init   *)
(* and the framework end with the gadget that was wanted.  Of 00userinit   *)
(* (BootScripts), for any number of kernel modules in any order: each loop *)
(* loads exactly those whose chain of needed modules has as many turns.    *)
(***************************************************************************)
EXTENDS ModemCalibration, BootScripts, FiniteSetTheorems, NaturalsInduction, SequenceTheorems,
        TLAPS, WellFoundedInduction

-----------------------------------------------------------------------------
(* The modem calibration *)

\* The directory has been made by the time a file is copied into it.
Begun(fs) == todo # Files => fs.RFHAL

\* What the files that are copied already are, in each part of the script.
DefaultSoFar ==
  pc = "default" =>
    /\ ~modemfs.GUARDFIL /\ ~efs.GUARDFIL
    /\ Begun(modemfs)
    /\ \A f \in Files \ todo : modemfs.file[f] # Missing
RestoredSoFar ==
  pc = "restore" =>
    /\ ~modemfs.GUARDFIL /\ efs.GUARDFIL
    /\ Begun(modemfs)
    /\ \A f \in Files \ todo : modemfs.file[f] = efs.file[f]
BackedUpSoFar ==
  pc = "backup" =>
    /\ modemfs.GUARDFIL /\ ~efs.GUARDFIL
    /\ Begun(efs)
    /\ \A f \in Files \ todo : efs.file[f] = modemfs.file[f]
CalibratedSoFar ==
  pc = "calibrating" =>
    /\ ~modemfs.GUARDFIL
    /\ calibrations \in 1..MaxCalibrations
    /\ \A f \in Files \ todo : modemfs.file[f] = 1 + calibrations

\* The modem runs on a complete directory, and never without the calibration
\* that is on efs unless a guard file failed.
ModemReady ==
  pc \in {"sync", "modem", "calibrating"} =>
    Complete(modemfs) /\ (failed = {} /\ efs.GUARDFIL => modemfs.GUARDFIL)

\* A guard file next to a directory means a whole calibration in it.
Guarded(fs) == fs.GUARDFIL => Complete(fs) /\ OneCalibration(fs)

SoundFiles ==
  /\ rfhal_copied => Complete(modemfs)
  /\ Guarded(modemfs) /\ Guarded(efs)
  /\ failed = {} /\ efs.GUARDFIL /\ modemfs.GUARDFIL => efs.file = modemfs.file

Sound ==
  /\ SoundFiles /\ ModemReady
  /\ DefaultSoFar /\ RestoredSoFar /\ BackedUpSoFar /\ CalibratedSoFar

IInv == TypeOK /\ ("cp" \notin failed => Sound)

-----------------------------------------------------------------------------
\* The contents of files are small numbers.
LEMMA ContentsTyped ==
  /\ Missing = 0 /\ Default = 1
  /\ Calibrated \subseteq Nat /\ Contents \subseteq Nat
  /\ \A c \in Calibrated : c # Missing
  /\ \A n \in 1..MaxCalibrations : 1 + n \in Calibrated /\ 1 + n \in Contents
BY CalibrationAssumption DEF Missing, Default, Calibrated, Contents

\* RFHAL.DEF and an erased partition are partitions.
LEMMA PartitionsTyped == Erased \in Partition /\ RFHAL_DEF \in Partition
BY DEF Erased, RFHAL_DEF, Partition, Contents

\* Copying a file changes that file only.
LEMMA FileWritten ==
  ASSUME NEW p \in Partition, NEW g \in Files, NEW c \in Contents
  PROVE  LET q == [p EXCEPT !.file[g] = c]
         IN  /\ q \in Partition
             /\ q.GUARDFIL = p.GUARDFIL /\ q.RFHAL = p.RFHAL
             /\ \A f \in Files : q.file[f] = IF f = g THEN c ELSE p.file[f]
BY DEF Partition

\* What a step of cp does to the partition it copies to.
LEMMA CopyStep ==
  ASSUME NEW from \in Partition, NEW to \in Partition, NEW c \in CopySteps(from, to),
         todo \subseteq Files
  PROVE  /\ c[1] \in Partition /\ c[1].GUARDFIL = to.GUARDFIL /\ c[1].RFHAL
         /\ c[2] \subseteq Files
         /\ \A f \in Files : \/ c[1].file[f] = to.file[f] /\ (f \in c[2] <=> f \in todo)
                             \/ c[1].file[f] = from.file[f] /\ f \notin c[2]
<1>1. CASE to.RFHAL
  <2>1. PICK g \in todo : c = <<[to EXCEPT !.file[g] = from.file[g]], todo \ {g}>>
    BY <1>1 DEF CopySteps
  <2>2. g \in Files /\ from.file[g] \in Contents
    BY DEF Partition
  <2> DEFINE q == [to EXCEPT !.file[g] = from.file[g]]
  <2>3. /\ q \in Partition
        /\ q.GUARDFIL = to.GUARDFIL /\ q.RFHAL = to.RFHAL
        /\ \A f \in Files : q.file[f] = IF f = g THEN from.file[g] ELSE to.file[f]
    BY <2>2, FileWritten
  <2>4. c[1] = q /\ c[2] = todo \ {g}
    BY <2>1
  <2> HIDE DEF q
  <2> QED
    BY <1>1, <2>3, <2>4
<1>2. CASE ~to.RFHAL
  <2> DEFINE q == [to EXCEPT !.RFHAL = TRUE]
  <2>1. c[1] = q /\ c[2] = todo
    BY <1>2 DEF CopySteps
  <2>2. q \in Partition /\ q.GUARDFIL = to.GUARDFIL /\ q.RFHAL /\ q.file = to.file
    BY DEF Partition
  <2> HIDE DEF q
  <2> QED
    BY <2>1, <2>2
<1> QED
  BY <1>1, <1>2

\* When everything is copied, the directory is as complete as the one it came
\* from, and the same calibration.
LEMMA CopyIsComplete ==
  ASSUME NEW from \in Partition, NEW to \in Partition,
         todo = {}, Begun(to), \A f \in Files \ todo : to.file[f] = from.file[f]
  PROVE  /\ to.file = from.file
         /\ Complete(from) => Complete(to)
         /\ OneCalibration(from) => OneCalibration(to)
<1>1. to.RFHAL
  BY CalibrationAssumption DEF Begun
<1>2. \A f \in Files : to.file[f] = from.file[f]
  OBVIOUS
<1>3. to.file = from.file
  BY <1>2 DEF Partition
<1> QED
  BY <1>1, <1>2, <1>3 DEF Complete, OneCalibration

-----------------------------------------------------------------------------
\* A phone that is not calibrated has no guard file.
LEMMA InitHolds == Init => IInv
<1> SUFFICES ASSUME Init PROVE IInv
  OBVIOUS
<1>1. TypeOK
  <2>1. modemfs \in Partition /\ efs \in Partition
    BY PartitionsTyped DEF Init
  <2>2. /\ calibrations \in 0..MaxCalibrations
        /\ stops \in 0..MaxStops /\ erasures \in 0..MaxErasures
    BY CalibrationAssumption DEF Init
  <2>3. pc \in Copying \cup {"start", "sync", "modem", "calibrating"} /\ todo \subseteq Files
    BY DEF Init
  <2>4. rfhal_copied \in BOOLEAN /\ failed \subseteq {"cp", "echo"}
    BY DEF Init
  <2> QED
    BY <2>1, <2>2, <2>3, <2>4 DEF TypeOK
<1>2. Sound
  BY DEF Init, Sound, SoundFiles, Guarded, Erased, ModemReady, DefaultSoFar, RestoredSoFar,
         BackedUpSoFar, CalibratedSoFar
<1> QED
  BY <1>1, <1>2 DEF IInv

\* The tests of the guard files choose a copy that is needed, or find the
\* directory complete.
LEMMA StartHolds == IInv /\ Start => IInv'
<1> SUFFICES ASSUME IInv, Start PROVE IInv'
  OBVIOUS
<1>1. TypeOK /\ UNCHANGED <<modemfs, efs, rfhal_copied, failed, calibrations, stops, erasures>>
  BY DEF IInv, Start, partitions, bounds
<1>2. Job \in {"default", "restore", "backup", "sync"}
  BY DEF Job
<1>3. TypeOK'
  <2>1. pc' = Job /\ todo' \in {Files, {}}
    BY DEF Start
  <2> HIDE DEF Job
  <2> QED
    BY <1>1, <1>2, <2>1 DEF TypeOK, Copying
<1>4. ASSUME "cp" \notin failed' PROVE Sound'
  <2>1. Sound
    BY <1>1, <1>4 DEF IInv
  <2>2. SoundFiles'
    BY <1>1, <2>1 DEF Sound, SoundFiles, Guarded, Complete, OneCalibration
  <2>3. pc' = Job /\ (pc' # "sync" => todo' = Files)
    BY <1>2 DEF Start, Copying
  <2>4. Job = "sync" => Complete(modemfs) /\ (efs.GUARDFIL => modemfs.GUARDFIL)
    BY <2>1 DEF Sound, SoundFiles, Guarded, Job, DefaultNeeded
  <2>5. ModemReady'
    BY <1>1, <1>2, <2>3, <2>4 DEF ModemReady, Complete
  <2>6. (DefaultSoFar /\ RestoredSoFar /\ BackedUpSoFar /\ CalibratedSoFar)'
    BY <1>1, <1>2, <2>3
       DEF Job, DefaultSoFar, RestoredSoFar, BackedUpSoFar, CalibratedSoFar, Begun
  <2> QED
    BY <2>2, <2>5, <2>6 DEF Sound
<1> QED
  BY <1>3, <1>4 DEF IInv

\* One step of cp keeps what is copied so far.
LEMMA CopyHolds == IInv /\ Copy => IInv'
<1> SUFFICES ASSUME IInv, Copy PROVE IInv'
  OBVIOUS
<1>1. /\ TypeOK /\ modemfs \in Partition /\ efs \in Partition /\ todo \subseteq Files
      /\ UNCHANGED <<rfhal_copied, pc, failed, calibrations, stops, erasures>>
  BY DEF IInv, Copy, bounds, TypeOK
<1>2. CASE pc = "default"
  <2>1. PICK c \in CopySteps(RFHAL_DEF, modemfs) :
          modemfs' = c[1] /\ todo' = c[2] /\ efs' = efs
    BY <1>2 DEF Copy
  <2>2. /\ modemfs' \in Partition /\ modemfs'.GUARDFIL = modemfs.GUARDFIL /\ modemfs'.RFHAL
        /\ todo' \subseteq Files
        /\ \A f \in Files :
             \/ modemfs'.file[f] = modemfs.file[f] /\ (f \in todo' <=> f \in todo)
             \/ modemfs'.file[f] = RFHAL_DEF.file[f] /\ f \notin todo'
    BY <1>1, <2>1, CopyStep, PartitionsTyped
  <2>3. TypeOK'
    BY <1>1, <2>1, <2>2 DEF TypeOK
  <2>4. ASSUME "cp" \notin failed' PROVE Sound'
    <3>1. Sound
      BY <1>1, <2>4 DEF IInv
    <3>2. \A f \in Files : RFHAL_DEF.file[f] = Default
      BY DEF RFHAL_DEF
    <3>3. Default # Missing
      BY ContentsTyped
    <3>4. \A f \in Files : modemfs.file[f] # Missing => modemfs'.file[f] # Missing
      BY <2>2, <3>2, <3>3
    <3>5. SoundFiles'
      <4>1. Complete(modemfs) => Complete(modemfs')
        BY <2>2, <3>4 DEF Complete
      <4>2. ~modemfs'.GUARDFIL /\ ~efs'.GUARDFIL
        BY <1>2, <2>1, <2>2, <3>1 DEF Sound, DefaultSoFar
      <4> QED
        BY <1>1, <3>1, <4>1, <4>2 DEF Sound, SoundFiles, Guarded, Complete
    <3>6. DefaultSoFar'
      BY <1>1, <1>2, <2>1, <2>2, <3>1, <3>2, <3>3 DEF Sound, DefaultSoFar, Begun
    <3> QED
      BY <1>1, <1>2, <3>5, <3>6
         DEF Sound, ModemReady, RestoredSoFar, BackedUpSoFar, CalibratedSoFar
  <2> QED
    BY <2>3, <2>4 DEF IInv
<1>3. CASE pc = "restore"
  <2>1. PICK c \in CopySteps(efs, modemfs) :
          modemfs' = c[1] /\ todo' = c[2] /\ efs' = efs
    BY <1>3 DEF Copy
  <2>2. /\ modemfs' \in Partition /\ modemfs'.GUARDFIL = modemfs.GUARDFIL /\ modemfs'.RFHAL
        /\ todo' \subseteq Files
        /\ \A f \in Files :
             \/ modemfs'.file[f] = modemfs.file[f] /\ (f \in todo' <=> f \in todo)
             \/ modemfs'.file[f] = efs.file[f] /\ f \notin todo'
    BY <1>1, <2>1, CopyStep
  <2>3. TypeOK'
    BY <1>1, <2>1, <2>2 DEF TypeOK
  <2>4. ASSUME "cp" \notin failed' PROVE Sound'
    <3>1. Sound
      BY <1>1, <2>4 DEF IInv
    <3>2. Complete(efs)
      BY <1>3, <3>1 DEF Sound, SoundFiles, Guarded, RestoredSoFar
    <3>3. \A f \in Files : modemfs.file[f] # Missing => modemfs'.file[f] # Missing
      BY <2>2, <3>2 DEF Complete
    <3>4. SoundFiles'
      BY <1>1, <1>3, <2>1, <2>2, <3>1, <3>3
         DEF Sound, SoundFiles, Guarded, Complete, OneCalibration, RestoredSoFar
    <3>5. RestoredSoFar'
      BY <1>1, <1>3, <2>1, <2>2, <3>1 DEF Sound, RestoredSoFar, Begun
    <3> QED
      BY <1>1, <1>3, <3>4, <3>5
         DEF Sound, ModemReady, DefaultSoFar, BackedUpSoFar, CalibratedSoFar
  <2> QED
    BY <2>3, <2>4 DEF IInv
<1>4. CASE pc = "backup"
  <2>1. PICK c \in CopySteps(modemfs, efs) :
          efs' = c[1] /\ todo' = c[2] /\ modemfs' = modemfs
    BY <1>4 DEF Copy
  <2>2. /\ efs' \in Partition /\ efs'.GUARDFIL = efs.GUARDFIL /\ efs'.RFHAL
        /\ todo' \subseteq Files
        /\ \A f \in Files :
             \/ efs'.file[f] = efs.file[f] /\ (f \in todo' <=> f \in todo)
             \/ efs'.file[f] = modemfs.file[f] /\ f \notin todo'
    BY <1>1, <2>1, CopyStep
  <2>3. TypeOK'
    BY <1>1, <2>1, <2>2 DEF TypeOK
  <2>4. ASSUME "cp" \notin failed' PROVE Sound'
    <3>1. Sound
      BY <1>1, <2>4 DEF IInv
    <3>2. SoundFiles'
      BY <1>1, <1>4, <2>1, <2>2, <3>1
         DEF Sound, SoundFiles, Guarded, Complete, OneCalibration, BackedUpSoFar
    <3>3. BackedUpSoFar'
      BY <1>1, <1>4, <2>1, <2>2, <3>1 DEF Sound, BackedUpSoFar, Begun
    <3> QED
      BY <1>1, <1>4, <3>2, <3>3
         DEF Sound, ModemReady, DefaultSoFar, RestoredSoFar, CalibratedSoFar
  <2> QED
    BY <2>3, <2>4 DEF IInv
<1> QED
  BY <1>2, <1>3, <1>4 DEF Copy

\* The guard file is written when everything is copied.
LEMMA MarkHolds == IInv /\ Mark => IInv'
<1> SUFFICES ASSUME IInv, Mark PROVE IInv'
  OBVIOUS
<1>1. /\ TypeOK /\ modemfs \in Partition /\ efs \in Partition
      /\ todo = {} /\ pc' = "sync"
      /\ UNCHANGED <<todo, failed, calibrations, stops, erasures>>
  BY DEF IInv, Mark, bounds, TypeOK
<1>2. CASE pc = "default"
  <2>1. rfhal_copied' = TRUE /\ modemfs' = modemfs /\ efs' = efs
    BY <1>2 DEF Mark
  <2>2. ASSUME "cp" \notin failed' PROVE Sound'
    <3>1. Sound
      BY <1>1, <2>2 DEF IInv
    <3>2. Complete(modemfs) /\ ~efs.GUARDFIL
      BY <1>1, <1>2, <3>1, CalibrationAssumption DEF Sound, DefaultSoFar, Begun, Complete
    <3> QED
      BY <1>1, <2>1, <3>1, <3>2
         DEF Sound, SoundFiles, Guarded, Complete, OneCalibration, ModemReady, DefaultSoFar,
             RestoredSoFar, BackedUpSoFar, CalibratedSoFar
  <2> QED
    BY <1>1, <2>1, <2>2 DEF IInv, TypeOK
<1>3. CASE pc = "restore"
  <2>1. /\ modemfs' = [modemfs EXCEPT !.GUARDFIL = TRUE]
        /\ efs' = efs /\ rfhal_copied' = rfhal_copied
    BY <1>3 DEF Mark
  <2>2. /\ modemfs' \in Partition /\ modemfs'.GUARDFIL
        /\ modemfs'.RFHAL = modemfs.RFHAL /\ modemfs'.file = modemfs.file
    BY <1>1, <2>1 DEF Partition
  <2>3. ASSUME "cp" \notin failed' PROVE Sound'
    <3>1. Sound
      BY <1>1, <2>3 DEF IInv
    <3>2. efs.GUARDFIL /\ Complete(efs) /\ OneCalibration(efs)
      BY <1>3, <3>1 DEF Sound, SoundFiles, Guarded, RestoredSoFar
    <3>3. modemfs.file = efs.file /\ Complete(modemfs) /\ OneCalibration(modemfs)
      BY <1>1, <1>3, <3>1, <3>2, CopyIsComplete DEF Sound, RestoredSoFar
    <3> QED
      BY <1>1, <2>1, <2>2, <3>1, <3>2, <3>3
         DEF Sound, SoundFiles, Guarded, Complete, OneCalibration, ModemReady, DefaultSoFar,
             RestoredSoFar, BackedUpSoFar, CalibratedSoFar
  <2> QED
    BY <1>1, <2>1, <2>2, <2>3 DEF IInv, TypeOK
<1>4. CASE pc = "backup"
  <2>1. /\ efs' = [efs EXCEPT !.GUARDFIL = TRUE]
        /\ modemfs' = modemfs /\ rfhal_copied' = rfhal_copied
    BY <1>4 DEF Mark
  <2>2. /\ efs' \in Partition /\ efs'.GUARDFIL
        /\ efs'.RFHAL = efs.RFHAL /\ efs'.file = efs.file
    BY <1>1, <2>1 DEF Partition
  <2>3. ASSUME "cp" \notin failed' PROVE Sound'
    <3>1. Sound
      BY <1>1, <2>3 DEF IInv
    <3>2. modemfs.GUARDFIL /\ Complete(modemfs) /\ OneCalibration(modemfs)
      BY <1>4, <3>1 DEF Sound, SoundFiles, Guarded, BackedUpSoFar
    <3>3. efs.file = modemfs.file /\ Complete(efs) /\ OneCalibration(efs)
      BY <1>1, <1>4, <3>1, <3>2, CopyIsComplete DEF Sound, BackedUpSoFar
    <3> QED
      BY <1>1, <2>1, <2>2, <3>1, <3>2, <3>3
         DEF Sound, SoundFiles, Guarded, Complete, OneCalibration, ModemReady, DefaultSoFar,
             RestoredSoFar, BackedUpSoFar, CalibratedSoFar
  <2> QED
    BY <1>1, <2>1, <2>2, <2>3 DEF IInv, TypeOK
<1> QED
  BY <1>2, <1>3, <1>4 DEF Mark, Copying

\* Sync and exec change no file.
LEMMA ExecHolds == IInv /\ Exec => IInv'
<1> SUFFICES ASSUME IInv, Exec PROVE IInv'
  OBVIOUS
<1>1. /\ TypeOK /\ pc = "sync" /\ pc' = "modem"
      /\ UNCHANGED <<modemfs, efs, rfhal_copied, todo, failed, calibrations, stops, erasures>>
  BY DEF IInv, Exec, partitions, bounds
<1>2. TypeOK'
  BY <1>1 DEF TypeOK
<1>3. ASSUME "cp" \notin failed' PROVE Sound'
  BY <1>1, <1>3
     DEF IInv, Sound, SoundFiles, Guarded, Complete, OneCalibration, ModemReady,
         DefaultSoFar, RestoredSoFar, BackedUpSoFar, CalibratedSoFar
<1> QED
  BY <1>2, <1>3 DEF IInv

\* A failed copy is noted, and promises nothing.
LEMMA CopyFailsHolds == IInv /\ CopyFails => IInv'
<1> SUFFICES ASSUME IInv, CopyFails PROVE IInv'
  OBVIOUS
<1>1. TypeOK /\ failed' = failed \cup {"cp"} /\ todo' = {}
      /\ UNCHANGED <<modemfs, efs, rfhal_copied, pc, calibrations, stops, erasures>>
  BY DEF IInv, CopyFails, partitions, bounds
<1> QED
  BY <1>1 DEF IInv, TypeOK

\* Without its guard file a complete directory is still complete.
LEMMA MarkFailsHolds == IInv /\ MarkFails => IInv'
<1> SUFFICES ASSUME IInv, MarkFails PROVE IInv'
  OBVIOUS
<1>1. /\ TypeOK /\ modemfs \in Partition /\ efs \in Partition
      /\ pc \in Copying /\ todo = {} /\ pc' = "sync"
      /\ failed' = failed \cup {"echo"} /\ failed' # {}
      /\ UNCHANGED <<modemfs, efs, rfhal_copied, todo, calibrations, stops, erasures>>
  BY DEF IInv, MarkFails, partitions, bounds, TypeOK
<1>2. TypeOK'
  BY <1>1 DEF TypeOK
<1>3. ASSUME "cp" \notin failed' PROVE Sound'
  <2>1. Sound
    BY <1>1, <1>3 DEF IInv
  <2>2. Complete(modemfs)
    <3>1. CASE pc = "default"
      BY <1>1, <2>1, <3>1, CalibrationAssumption DEF Sound, DefaultSoFar, Begun, Complete
    <3>2. CASE pc = "restore"
      BY <1>1, <2>1, <3>2, CopyIsComplete DEF Sound, SoundFiles, Guarded, RestoredSoFar
    <3>3. CASE pc = "backup"
      BY <2>1, <3>3 DEF Sound, SoundFiles, Guarded, BackedUpSoFar
    <3> QED
      BY <1>1, <3>1, <3>2, <3>3 DEF Copying
  <2> QED
    BY <1>1, <2>1, <2>2
       DEF Sound, SoundFiles, Guarded, Complete, OneCalibration, ModemReady, DefaultSoFar,
           RestoredSoFar, BackedUpSoFar, CalibratedSoFar
<1> QED
  BY <1>2, <1>3 DEF IInv

\* The modem is calibrated only when neither partition has a guard file.
LEMMA CalibrateHolds == IInv /\ Calibrate => IInv'
<1> SUFFICES ASSUME IInv, Calibrate PROVE IInv'
  OBVIOUS
<1>1. /\ TypeOK /\ pc = "modem" /\ pc' = "calibrating" /\ todo' = Files
      /\ ~modemfs.GUARDFIL
      /\ calibrations < MaxCalibrations /\ calibrations' = calibrations + 1
      /\ UNCHANGED <<modemfs, efs, rfhal_copied, failed, stops, erasures>>
  BY DEF IInv, Calibrate, partitions
<1>2. calibrations' \in 1..MaxCalibrations
  BY <1>1, CalibrationAssumption DEF TypeOK
<1>3. TypeOK'
  <2>1. calibrations' \in 0..MaxCalibrations
    BY <1>2
  <2> QED
    BY <1>1, <2>1 DEF TypeOK
<1>4. ASSUME "cp" \notin failed' PROVE Sound'
  BY <1>1, <1>2, <1>4
     DEF IInv, Sound, SoundFiles, Guarded, Complete, OneCalibration, ModemReady,
         DefaultSoFar, RestoredSoFar, BackedUpSoFar, CalibratedSoFar
<1> QED
  BY <1>3, <1>4 DEF IInv

\* A file is calibrated, or the guard file says that all are.
LEMMA WriteCalibrationHolds == IInv /\ WriteCalibration => IInv'
<1> SUFFICES ASSUME IInv, WriteCalibration PROVE IInv'
  OBVIOUS
<1>1. /\ TypeOK /\ modemfs \in Partition /\ todo \subseteq Files /\ pc = "calibrating"
      /\ UNCHANGED <<efs, rfhal_copied, failed, calibrations, stops, erasures>>
  BY DEF IInv, WriteCalibration, bounds, TypeOK
<1>2. CASE todo = {}
  <2>1. modemfs' = [modemfs EXCEPT !.GUARDFIL = TRUE] /\ pc' = "modem" /\ todo' = todo
    BY <1>2 DEF WriteCalibration
  <2>2. /\ modemfs' \in Partition /\ modemfs'.GUARDFIL
        /\ modemfs'.RFHAL = modemfs.RFHAL /\ modemfs'.file = modemfs.file
    BY <1>1, <2>1 DEF Partition
  <2>3. TypeOK'
    BY <1>1, <2>1, <2>2 DEF TypeOK
  <2>4. ASSUME "cp" \notin failed' PROVE Sound'
    <3>1. Sound
      BY <1>1, <2>4 DEF IInv
    <3>2. Complete(modemfs) /\ (failed = {} => ~efs.GUARDFIL)
      BY <1>1, <3>1 DEF Sound, ModemReady, CalibratedSoFar
    <3>3. OneCalibration(modemfs)
      BY <1>1, <1>2, <3>1, ContentsTyped DEF Sound, CalibratedSoFar, OneCalibration
    <3> QED
      BY <1>1, <2>1, <2>2, <3>1, <3>2, <3>3
         DEF Sound, SoundFiles, Guarded, Complete, OneCalibration, ModemReady, DefaultSoFar,
             RestoredSoFar, BackedUpSoFar, CalibratedSoFar
  <2> QED
    BY <2>3, <2>4 DEF IInv
<1>3. CASE todo # {}
  <2>1. PICK g \in todo : /\ modemfs' = [modemfs EXCEPT !.file[g] = 1 + calibrations]
                          /\ todo' = todo \ {g} /\ pc' = pc
    BY <1>3 DEF WriteCalibration
  <2>2. ASSUME 1 + calibrations \in Contents
        PROVE  /\ modemfs' \in Partition
               /\ modemfs'.GUARDFIL = modemfs.GUARDFIL /\ modemfs'.RFHAL = modemfs.RFHAL
               /\ \A f \in Files : modemfs'.file[f] =
                                     IF f = g THEN 1 + calibrations ELSE modemfs.file[f]
    <3>1. g \in Files
      BY <1>1
    <3> QED
      BY <1>1, <2>1, <2>2, <3>1, FileWritten
  <2>3. 1 + calibrations \in Contents /\ 1 + calibrations # Missing
    BY <1>1, CalibrationAssumption
       DEF TypeOK, Contents, Missing, Default, Calibrated
  <2>4. TypeOK'
    BY <1>1, <2>1, <2>2, <2>3 DEF TypeOK
  <2>5. ASSUME "cp" \notin failed' PROVE Sound'
    <3>1. Sound
      BY <1>1, <2>5 DEF IInv
    <3>2. Complete(modemfs) /\ (failed = {} => ~efs.GUARDFIL) /\ ~modemfs.GUARDFIL
      BY <1>1, <3>1 DEF Sound, ModemReady, CalibratedSoFar
    <3>3. Complete(modemfs')
      BY <2>2, <2>3, <3>2 DEF Complete
    <3>4. CalibratedSoFar'
      BY <1>1, <2>1, <2>2, <2>3, <3>1, <3>2 DEF Sound, CalibratedSoFar
    <3> QED
      BY <1>1, <2>1, <2>2, <2>3, <3>1, <3>2, <3>3, <3>4
         DEF Sound, SoundFiles, Guarded, Complete, ModemReady, DefaultSoFar,
             RestoredSoFar, BackedUpSoFar
  <2> QED
    BY <2>4, <2>5 DEF IInv
<1> QED
  BY <1>2, <1>3

\* The script starts again with whatever files there are.
LEMMA StopHolds == IInv /\ Stop => IInv'
<1> SUFFICES ASSUME IInv, Stop PROVE IInv'
  OBVIOUS
<1>1. /\ TypeOK /\ pc' = "start" /\ todo' = {}
      /\ stops < MaxStops /\ stops' = stops + 1
      /\ UNCHANGED <<modemfs, efs, rfhal_copied, failed, calibrations, erasures>>
  BY DEF IInv, Stop, partitions
<1>2. stops' \in 0..MaxStops
  BY <1>1, CalibrationAssumption DEF TypeOK
<1>3. TypeOK'
  BY <1>1, <1>2 DEF TypeOK
<1>4. ASSUME "cp" \notin failed' PROVE Sound'
  BY <1>1, <1>4
     DEF IInv, Sound, SoundFiles, Guarded, Complete, OneCalibration, ModemReady,
         DefaultSoFar, RestoredSoFar, BackedUpSoFar, CalibratedSoFar
<1> QED
  BY <1>3, <1>4 DEF IInv

\* An erased partition has neither files nor guards.
LEMMA EraseHolds == IInv /\ Erase => IInv'
<1> SUFFICES ASSUME IInv, Erase PROVE IInv'
  OBVIOUS
<1>1. /\ TypeOK /\ pc' = "start" /\ todo' = {}
      /\ erasures < MaxErasures /\ erasures' = erasures + 1
      /\ modemfs' = Erased /\ rfhal_copied' = FALSE
      /\ UNCHANGED <<efs, failed, calibrations, stops>>
  BY DEF IInv, Erase
<1>2. erasures' \in 0..MaxErasures /\ modemfs' \in Partition /\ ~modemfs'.GUARDFIL
  BY <1>1, CalibrationAssumption, PartitionsTyped DEF TypeOK, Erased
<1>3. TypeOK'
  BY <1>1, <1>2 DEF TypeOK
<1>4. ASSUME "cp" \notin failed' PROVE Sound'
  BY <1>1, <1>2, <1>4
     DEF IInv, Sound, SoundFiles, Guarded, Complete, OneCalibration, ModemReady,
         DefaultSoFar, RestoredSoFar, BackedUpSoFar, CalibratedSoFar
<1> QED
  BY <1>3, <1>4 DEF IInv

\* No step breaks the invariant.
LEMMA NextHolds == IInv /\ [Next]_vars => IInv'
<1> SUFFICES ASSUME IInv, [Next]_vars PROVE IInv'
  OBVIOUS
<1>1. CASE UNCHANGED vars
  <2>1. UNCHANGED <<modemfs, efs, rfhal_copied, pc, todo, failed, calibrations, stops, erasures>>
    BY <1>1 DEF vars, partitions, bounds
  <2> QED
    BY <2>1 DEF IInv, TypeOK, Sound, SoundFiles, Guarded, Complete, OneCalibration, ModemReady,
                DefaultSoFar, RestoredSoFar, BackedUpSoFar, CalibratedSoFar, Begun
<1>2. CASE Next
  BY <1>2, StartHolds, CopyHolds, MarkHolds, ExecHolds, CopyFailsHolds, MarkFailsHolds,
     CalibrateHolds, WriteCalibrationHolds, StopHolds, EraseHolds DEF Next, Script
<1> QED
  BY <1>1, <1>2

\* The invariant holds however often the script is stopped.
THEOREM Invariance == Spec => []IInv
BY InitHolds, NextHolds, PTL DEF Spec

\* The partitions, the places of the script and the bounds keep their types.
THEOREM TypeCorrect == Spec => []TypeOK
<1>1. IInv => TypeOK
  BY DEF IInv
<1> QED
  BY <1>1, Invariance, PTL

\* The modem never starts on an incomplete directory.
THEOREM ModemComplete == Spec => []ModemStartsComplete
<1>1. IInv => ModemStartsComplete
  BY DEF IInv, Sound, ModemReady, ModemStartsComplete
<1> QED
  BY <1>1, Invariance, PTL

\* A guard file never stands next to a mixture.
THEOREM GuardsAreTrue == Spec => []GuardMeansOneCalibration
<1>1. IInv => GuardMeansOneCalibration
  BY DEF IInv, Sound, SoundFiles, Guarded, GuardMeansOneCalibration
<1> QED
  BY <1>1, Invariance, PTL

\* Both guard files together mean the same calibration on both partitions.
THEOREM CopyIsTrue == Spec => []CopyIsTheCalibration
<1>1. IInv => CopyIsTheCalibration
  BY DEF IInv, Sound, SoundFiles, CopyIsTheCalibration
<1> QED
  BY <1>1, Invariance, PTL

-----------------------------------------------------------------------------
(* The USB actions of init *)

\* The values of sys.usb.config.
Values == Configs \cup {"none"}

\* What init has to do: nothing, one action, or two; the first may be running.
Resting == running = NotRunning /\ queue = << >>
Awaits(a) ==
  \/ running = NotRunning /\ queue = <<a>>
  \/ running # NotRunning /\ running.action = a /\ queue = << >>
AwaitsBoth(a, b) ==
  \/ running = NotRunning /\ queue = <<a, b>>
  \/ running # NotRunning /\ running.action = a /\ queue = <<b>>

\* The action of c is made as far as its commands have run.
Made(c) ==
  LET done == IF running = NotRunning THEN 0 ELSE running.command - 1
  IN  /\ done >= 2 => gadget.idProduct = Product(c)
      /\ done >= 3 => gadget.functions = c
      /\ done >= 4 => gadget.enable
      /\ adbd <=> done >= 5 /\ HasAdb(c)

GadgetIs(c) ==
  /\ gadget.enable /\ gadget.idProduct = Product(c) /\ gadget.functions = c
  /\ adbd <=> HasAdb(c)

\* An action that runs is at one of its commands, and that of none stops adbd first.
RunningInv ==
  /\ running = NotRunning \/ \E a \in Values : \E k \in 1..Len(Commands(a)) : running = [action |-> a, command |-> k]
  /\ queue \in Seq(Values)
  /\ running # NotRunning /\ running.action = "none" /\ running.command >= 2 => ~adbd
  /\ \E e \in BOOLEAN : \E p, f : gadget = [enable |-> e, idProduct |-> p, functions |-> f]
  /\ adbd \in BOOLEAN

\* The framework: what init has to do before, between and after the two values
\* that it sets.  The first "none" of the boot is answered at once, and from then
\* on init may be one action behind.
IdleInv ==
  usbManager.pc = "idle" =>
    /\ config = usbManager.wants
    /\ \/ config = "none" /\ Resting /\ ~adbd
       \/ config \in Configs /\ usbState = config /\ Resting /\ GadgetIs(config)
       \/ config \in Configs /\ usbState = config /\ Awaits(config) /\ Made(config)
ClearingInv ==
  usbManager.pc = "clearing" =>
    /\ usbManager.wants \in Configs /\ config = "none"
    /\ \/ Resting /\ ~adbd
       \/ Awaits("none")
       \/ \E old \in Configs : AwaitsBoth(old, "none") /\ usbState # "none"
SettingInv ==
  usbManager.pc = "setting" =>
    /\ usbManager.wants \in Configs /\ config = usbManager.wants
    /\ \/ AwaitsBoth("none", config) /\ usbState = "none"
       \/ Awaits(config) /\ Made(config)
       \/ Resting /\ GadgetIs(config)
ManagerInv ==
  /\ \E v \in Values : \E p : usbManager = [wants |-> v, pc |-> p]
  /\ ~overtaken => IdleInv /\ ClearingInv /\ SettingInv

UsbInv == RunningInv /\ StateIsConfig /\ ManagerInv

\* Where the commands stand in an action.
CommandOrder(c, list) ==
  /\ c = "none" => /\ Len(list) = 3
                   /\ list[1] = "stopAdbd" /\ list[2] = "disable" /\ list[3] = "state"
  /\ c # "none" => /\ Len(list) = IF HasAdb(c) THEN 6 ELSE 5
                   /\ list[1] = "disable" /\ list[2] = "product"
                   /\ list[3] = "functions" /\ list[4] = "enable"
                   /\ IF HasAdb(c) THEN list[5] = "startAdbd" /\ list[6] = "state"
                      ELSE list[5] = "state"

\* They stand so in every action.
LEMMA CommandsAre == \A c : CommandOrder(c, Commands(c))
BY DEF Commands, CommandOrder

\* One command of an action: the last sets sys.usb.state, the others go on.
LEMMA RunEffect ==
  ASSUME RunningInv, RunCommand, running # NotRunning
  PROVE  /\ queue' = queue /\ config' = config
         /\ running' # NotRunning => running'.action = running.action /\ usbState' = usbState
         /\ running' = NotRunning => usbState' = config
         /\ running' = NotRunning /\ running.action = "none" => ~adbd'
         /\ running.action \in Configs /\ running.action = config /\ Made(config) =>
              IF running' = NotRunning THEN GadgetIs(config)' ELSE Made(config)'
         /\ RunningInv'
<1>1. PICK a \in Values : \E k \in 1..Len(Commands(a)) : running = [action |-> a, command |-> k]
  BY DEF RunningInv
<1>2. PICK k \in 1..Len(Commands(a)) : running = [action |-> a, command |-> k]
  BY <1>1
<1>3. PICK e \in BOOLEAN : \E p, f : gadget = [enable |-> e, idProduct |-> p, functions |-> f]
  BY DEF RunningInv
<1>4. PICK p, f : gadget = [enable |-> e, idProduct |-> p, functions |-> f]
  BY <1>3
<1>5. CommandOrder(a, Commands(a))
  BY CommandsAre
<1> DEFINE command == Commands(a)[k]
<1>6. running.action = a /\ running.command = k
  BY <1>2
<1>7. /\ gadget' = GadgetAfter(command)
      /\ adbd' = ((adbd \/ command = "startAdbd") /\ command # "stopAdbd")
      /\ usbState' = IF command = "state" THEN config ELSE usbState
      /\ running' = IF k = Len(Commands(a)) THEN NotRunning ELSE [action |-> a, command |-> k + 1]
      /\ queue' = queue /\ config' = config
  BY <1>2, <1>6 DEF RunCommand, StateAfter
<1>8. Len(Commands(a)) \in {3, 5, 6} /\ k \in 1..6 /\ k <= Len(Commands(a))
  <2>1. Len(Commands(a)) = 3 \/ Len(Commands(a)) = 5 \/ Len(Commands(a)) = 6
    BY <1>5 DEF CommandOrder
  <2>2. PICK n \in {3, 5, 6} : n = Len(Commands(a))
    BY <2>1
  <2>3. k \in 1..n
    BY <2>2
  <2>4. k \in 1..6 /\ k <= n
    BY <2>3
  <2> QED
    BY <2>1, <2>2, <2>4
<1>9. k # Len(Commands(a)) => running' # NotRunning /\ running'.action = a /\ running'.command = k + 1
  BY <1>7, <1>8 DEF NotRunning
<1>10. command = "state" <=> k = Len(Commands(a))
  <2>1. CASE a = "none"
    <3>1. Len(Commands(a)) = 3
      BY <1>5, <2>1 DEF CommandOrder
    <3>2. k = 1 \/ k = 2 \/ k = 3
      BY <1>8, <3>1
    <3> QED
      BY <1>5, <2>1, <3>1, <3>2 DEF CommandOrder
  <2>2. CASE a # "none" /\ HasAdb(a)
    <3>1. Len(Commands(a)) = 6
      BY <1>5, <2>2 DEF CommandOrder
    <3>2. k = 1 \/ k = 2 \/ k = 3 \/ k = 4 \/ k = 5 \/ k = 6
      BY <1>8, <3>1
    <3> QED
      BY <1>5, <2>2, <3>1, <3>2 DEF CommandOrder
  <2>3. CASE a # "none" /\ ~HasAdb(a)
    <3>1. Len(Commands(a)) = 5
      BY <1>5, <2>3 DEF CommandOrder
    <3>2. k = 1 \/ k = 2 \/ k = 3 \/ k = 4 \/ k = 5
      BY <1>8, <3>1
    <3> QED
      BY <1>5, <2>3, <3>1, <3>2 DEF CommandOrder
  <2> QED
    BY <2>1, <2>2, <2>3
<1>11. a = "none" => (command = "stopAdbd" <=> k = 1) /\ command # "startAdbd"
  BY <1>8, <1>5 DEF CommandOrder
<1>12. a # "none" => command # "stopAdbd" /\ (command = "startAdbd" <=> k = 5 /\ HasAdb(a))
  BY <1>8, <1>5 DEF CommandOrder
<1>13. adbd' \in BOOLEAN /\ adbd \in BOOLEAN
  BY <1>7 DEF RunningInv
<1>14. a = "none" => ~adbd'
  <2> SUFFICES ASSUME a = "none", adbd' PROVE FALSE
    OBVIOUS
  <2>1. command # "stopAdbd" /\ adbd
    BY <1>7, <1>11
  <2>2. k >= 2
    BY <1>8, <1>11, <2>1
  <2> QED
    BY <1>2, <1>6, <2>1, <2>2 DEF RunningInv, NotRunning
<1>15. \E e2 \in BOOLEAN : \E p2, f2 : gadget' = [enable |-> e2, idProduct |-> p2, functions |-> f2]
  BY <1>4, <1>7 DEF GadgetAfter
<1>16. RunningInv'
  <2>1. running' = NotRunning \/ \E b \in Values : \E j \in 1..Len(Commands(b)) : running' = [action |-> b, command |-> j]
    <3>1. k # Len(Commands(a)) => k + 1 \in 1..Len(Commands(a))
      BY <1>8
    <3> QED
      BY <1>7, <3>1
  <2>2. running' # NotRunning /\ running'.action = "none" => ~adbd'
    BY <1>7, <1>9, <1>14
  <2> QED
    BY <1>7, <1>13, <1>15, <2>1, <2>2 DEF RunningInv
<1>17. ASSUME a \in Configs, a = config, Made(config)
       PROVE  IF running' = NotRunning THEN GadgetIs(config)' ELSE Made(config)'
  <2>1. a # "none"
    BY <1>17, BootAssumption
  <2>2. /\ k - 1 >= 2 => gadget.idProduct = Product(a)
        /\ k - 1 >= 3 => gadget.functions = a
        /\ k - 1 >= 4 => gadget.enable
        /\ adbd <=> k - 1 >= 5 /\ HasAdb(a)
    BY <1>2, <1>6, <1>17 DEF Made, NotRunning
  <2>3. /\ k >= 2 => gadget'.idProduct = Product(a)
        /\ k >= 3 => gadget'.functions = a
        /\ k >= 4 => gadget'.enable
    <3>1. CASE k = 1
      BY <3>1
    <3>2. CASE k = 2
      BY <1>4, <1>6, <1>7, <2>1, <3>2, <1>5 DEF GadgetAfter, CommandOrder
    <3>3. CASE k = 3
      BY <1>4, <1>6, <1>7, <1>17, <2>1, <2>2, <3>3, <1>5 DEF GadgetAfter, CommandOrder
    <3>4. CASE k = 4
      BY <1>4, <1>6, <1>7, <2>1, <2>2, <3>4, <1>5 DEF GadgetAfter, CommandOrder
    <3>5. CASE k > 4
      <4>1. command \in {"startAdbd", "state"}
        BY <1>8, <2>1, <3>5, <1>5 DEF CommandOrder
      <4>2. gadget' = gadget
        BY <1>7, <4>1 DEF GadgetAfter
      <4> QED
        BY <1>8, <2>2, <3>5, <4>2
    <3> QED
      BY <1>8, <3>1, <3>2, <3>3, <3>4, <3>5
  <2>4. adbd' <=> k >= 5 /\ HasAdb(a)
    <3>1. adbd' <=> adbd \/ (k = 5 /\ HasAdb(a))
      BY <1>7, <1>12, <1>13, <2>1, Zenon
    <3> QED
      BY <1>8, <2>2, <3>1
  <2>5. CASE k = Len(Commands(a))
    <3>1. k >= 5
      BY <2>1, <2>5, <1>5 DEF CommandOrder
    <3>2. running' = NotRunning /\ config' = a
      BY <1>7, <1>17, <2>5
    <3> QED
      BY <2>3, <2>4, <3>1, <3>2 DEF GadgetIs
  <2>6. CASE k # Len(Commands(a))
    <3>1. running' # NotRunning /\ running'.command - 1 = k /\ config' = a
      BY <1>7, <1>8, <1>9, <1>17, <2>6
    <3> QED
      BY <2>3, <2>4, <3>1 DEF Made
  <2> QED
    BY <2>5, <2>6
<1> QED
  BY <1>6, <1>7, <1>9, <1>10, <1>14, <1>16, <1>17

\* init has nothing to do yet.
LEMMA UsbInit == BootInit => UsbInv
<1> SUFFICES ASSUME BootInit PROVE UsbInv
  OBVIOUS
<1>1. RunningInv
  <2>1. gadget = [enable |-> FALSE, idProduct |-> "6860", functions |-> "none"] /\ queue = << >> /\ adbd = FALSE /\ running = NotRunning
    BY DEF BootInit
  <2>2. \E e \in BOOLEAN : \E p, f : gadget = [enable |-> e, idProduct |-> p, functions |-> f]
    BY <2>1
  <2>3. queue \in Seq(Values)
    BY <2>1
  <2>4. adbd \in BOOLEAN
    BY <2>1
  <2> QED
    BY <2>1, <2>2, <2>3, <2>4 DEF RunningInv
<1>2. ManagerInv
  <2>1. usbManager = [wants |-> "none", pc |-> "idle"] /\ config = "none" /\ Resting /\ ~adbd
    BY DEF BootInit, Resting
  <2>2. usbManager.pc = "idle" /\ usbManager.wants = "none"
    BY <2>1
  <2>3. \E v \in Values : \E p : usbManager = [wants |-> v, pc |-> p]
    BY <2>1 DEF Values
  <2> QED
    BY <2>1, <2>2, <2>3 DEF ManagerInv, IdleInv, ClearingInv, SettingInv
<1> QED
  BY <1>1, <1>2 DEF UsbInv, BootInit, StateIsConfig

\* A command runs.
LEMMA RunInv == UsbInv /\ RunCommand => UsbInv'
<1> SUFFICES ASSUME UsbInv, RunCommand PROVE UsbInv'
  OBVIOUS
<1>1. running # NotRunning /\ UNCHANGED <<usbManager, overtaken>>
  BY DEF RunCommand
<1>2. /\ queue' = queue /\ config' = config
      /\ running' # NotRunning => running'.action = running.action /\ usbState' = usbState
      /\ running' = NotRunning => usbState' = config
      /\ running' = NotRunning /\ running.action = "none" => ~adbd'
      /\ running.action \in Configs /\ running.action = config /\ Made(config) =>
           IF running' = NotRunning THEN GadgetIs(config)' ELSE Made(config)'
      /\ RunningInv'
  BY <1>1, RunEffect DEF UsbInv
<1>3. StateIsConfig'
  BY <1>2 DEF StateIsConfig
<1>4. ASSUME config \in Configs, Awaits(config), Made(config)
      PROVE  \/ Resting' /\ GadgetIs(config)' /\ usbState' = config
             \/ Awaits(config)' /\ Made(config)' /\ usbState' = usbState
  BY <1>1, <1>2, <1>4 DEF Awaits, Resting
<1>5. IdleInv => IdleInv'
  BY <1>1, <1>2, <1>4 DEF IdleInv, Resting
<1>6. ClearingInv => ClearingInv'
  <2> SUFFICES ASSUME ClearingInv, usbManager.pc = "clearing"
               PROVE  \/ Resting' /\ ~adbd'
                      \/ Awaits("none")'
                      \/ \E old \in Configs : AwaitsBoth(old, "none")' /\ usbState' # "none"
    BY <1>1, <1>2 DEF ClearingInv
  <2>1. CASE Awaits("none")
    BY <1>1, <1>2, <2>1 DEF Awaits, Resting
  <2>2. ASSUME NEW old \in Configs, AwaitsBoth(old, "none"), usbState # "none"
        PROVE  Awaits("none")' \/ (AwaitsBoth(old, "none")' /\ usbState' # "none")
    BY <1>1, <1>2, <2>2 DEF Awaits, AwaitsBoth
  <2> QED
    BY <1>1, <2>1, <2>2 DEF ClearingInv, Resting
<1>7. SettingInv => SettingInv'
  <2> SUFFICES ASSUME SettingInv, usbManager.pc = "setting"
               PROVE  \/ AwaitsBoth("none", config)' /\ usbState' = "none"
                      \/ Awaits(config)' /\ Made(config)'
                      \/ Resting' /\ GadgetIs(config)'
    BY <1>1, <1>2 DEF SettingInv
  <2>1. CASE AwaitsBoth("none", config) /\ usbState = "none"
    <3>1. running' # NotRunning => AwaitsBoth("none", config)' /\ usbState' = "none"
      BY <1>1, <1>2, <2>1 DEF AwaitsBoth
    <3>2. running' = NotRunning => Awaits(config)' /\ Made(config)'
      BY <1>1, <1>2, <2>1 DEF AwaitsBoth, Awaits, Made
    <3> QED
      BY <3>1, <3>2
  <2>2. CASE Awaits(config) /\ Made(config)
    BY <1>4, <2>2 DEF SettingInv
  <2> QED
    BY <1>1, <2>1, <2>2 DEF SettingInv, Resting
<1> QED
  BY <1>1, <1>2, <1>3, <1>5, <1>6, <1>7 DEF UsbInv, ManagerInv

\* The next action begins at its first command.
LEMMA StartInv == UsbInv /\ StartAction => UsbInv'
<1> SUFFICES ASSUME UsbInv, StartAction PROVE UsbInv'
  OBVIOUS
<1>1. /\ running = NotRunning /\ queue # << >>
      /\ running' = [action |-> Head(queue), command |-> 1] /\ queue' = Tail(queue)
      /\ UNCHANGED <<config, usbState, gadget, adbd, usbManager, overtaken>>
  BY DEF StartAction
<1>2. running' # NotRunning /\ running'.action = Head(queue) /\ running'.command = 1
  BY <1>1 DEF NotRunning
<1>3. queue \in Seq(Values) /\ Head(queue) \in Values /\ queue' \in Seq(Values)
  BY <1>1 DEF UsbInv, RunningInv
<1>4. RunningInv'
  <2>1. Len(Commands(Head(queue))) \in {3, 5, 6}
    <3>1. CommandOrder(Head(queue), Commands(Head(queue)))
      BY CommandsAre
    <3> QED
      BY <3>1 DEF CommandOrder
  <2>2. 1 \in 1..Len(Commands(Head(queue)))
    BY <2>1, SMTT(30)
  <2>3. \E a \in Values : \E k \in 1..Len(Commands(a)) : running' = [action |-> a, command |-> k]
    BY <1>1, <1>3, <2>2
  <2>4. running' # NotRunning /\ running'.action = "none" /\ running'.command >= 2 => FALSE
    BY <1>2
  <2>5. gadget' = gadget /\ adbd' = adbd /\ queue' \in Seq(Values)
    BY <1>1, <1>3
  <2> QED
    BY <2>3, <2>4, <2>5 DEF UsbInv, RunningInv
<1>5. \A a : Awaits(a) => Awaits(a)'
  BY <1>1, <1>2 DEF Awaits
<1>6. \A a, b : AwaitsBoth(a, b) => AwaitsBoth(a, b)'
  <2> SUFFICES ASSUME NEW a, NEW b, queue = <<a, b>> PROVE running'.action = a /\ queue' = <<b>>
    BY <1>1, <1>2 DEF AwaitsBoth
  <2>1. Head(<<a, b>>) = a /\ Tail(<<a, b>>) = <<b>>
    OBVIOUS
  <2> QED
    BY <1>1, <1>2, <2>1
<1>7. \A c : Made(c) => Made(c)'
  BY <1>1, <1>2 DEF Made
<1>8. ~Resting /\ ~Resting'
  BY <1>1, <1>2 DEF Resting
<1>9. StateIsConfig'
  BY <1>8 DEF StateIsConfig, Resting
<1>10. IdleInv => IdleInv'
  BY <1>1, <1>5, <1>7, <1>8 DEF IdleInv
<1>11. ClearingInv => ClearingInv'
  BY <1>1, <1>5, <1>6, <1>8 DEF ClearingInv
<1>12. SettingInv => SettingInv'
  BY <1>1, <1>5, <1>6, <1>7, <1>8 DEF SettingInv
<1> QED
  BY <1>1, <1>4, <1>9, <1>10, <1>11, <1>12 DEF UsbInv, ManagerInv

\* What setting the property does to init: one more action waits, unless it does.
LEMMA SetEffect ==
  ASSUME NEW v \in Values, UsbInv, Set(v), UNCHANGED <<running, gadget, adbd>>
  PROVE  /\ RunningInv' /\ StateIsConfig' /\ config' = v
         /\ Resting => Awaits(v)'
         /\ \A a : a # v /\ Awaits(a) => AwaitsBoth(a, v)'
         /\ Made(v) => Made(v)'
<1>1. /\ config' = v /\ running' = running /\ gadget' = gadget /\ adbd' = adbd
      /\ queue' = IF \E i \in DOMAIN queue : queue[i] = v THEN queue ELSE Append(queue, v)
  BY DEF Set
<1>2. queue \in Seq(Values)
  BY DEF UsbInv, RunningInv
<1>3. queue' \in Seq(Values) /\ queue' # << >>
  BY <1>1, <1>2
<1>4. RunningInv'
  <2>1. running' = running /\ gadget' = gadget /\ adbd' = adbd /\ queue' \in Seq(Values) /\ RunningInv
    BY <1>1, <1>3 DEF UsbInv
  <2>2. running' = NotRunning \/ \E a \in Values : \E k \in 1..Len(Commands(a)) : running' = [action |-> a, command |-> k]
    BY <2>1 DEF RunningInv
  <2>3. \E e \in BOOLEAN : \E p, f : gadget' = [enable |-> e, idProduct |-> p, functions |-> f]
    BY <2>1 DEF RunningInv
  <2>4. running' # NotRunning /\ running'.action = "none" /\ running'.command >= 2 => ~adbd'
    BY <2>1 DEF RunningInv
  <2>5. adbd' \in BOOLEAN
    BY <2>1 DEF RunningInv
  <2> QED
    BY <2>1, <2>2, <2>3, <2>4, <2>5 DEF RunningInv
<1>5. StateIsConfig'
  BY <1>3 DEF StateIsConfig
<1>6. queue = << >> => queue' = <<v>>
  BY <1>1
<1>7. ASSUME NEW a, a # v, queue = <<a>> PROVE queue' = <<a, v>>
  <2>1. Append(<<a>>, v) = <<a, v>>
    <3>1. <<a>> \in Seq({a, v}) /\ Len(<<a>>) = 1 /\ <<a>>[1] = a
      OBVIOUS
    <3>2. PICK s, two : s = Append(<<a>>, v) /\ two = <<a, v>>
      OBVIOUS
    <3>3. s \in Seq({a, v}) /\ Len(s) = 2 /\ s[1] = a /\ s[2] = v
      BY <3>1, <3>2
    <3>4. two \in Seq({a, v}) /\ Len(two) = 2 /\ two[1] = a /\ two[2] = v
      BY <3>2
    <3>5. Len(s) = Len(two) /\ \A i \in 1..Len(s) : s[i] = two[i]
      BY <3>3, <3>4
    <3>6. s = two
      BY <3>3, <3>4, <3>5, SeqEqual
    <3> QED
      BY <3>2, <3>6
  <2>2. DOMAIN <<a>> = {1} /\ <<a>>[1] = a
    OBVIOUS
  <2> QED
    BY <1>1, <1>7, <2>1, <2>2
<1> QED
  BY <1>1, <1>4, <1>5, <1>6, <1>7 DEF Resting, Awaits, AwaitsBoth, Made

\* The framework clears the property, one action behind at most.
LEMMA WantInv == UsbInv /\ WantConfig => UsbInv'
<1> SUFFICES ASSUME UsbInv, WantConfig PROVE UsbInv'
  OBVIOUS
<1>1. /\ usbManager.pc = "idle" /\ Set("none")
      /\ UNCHANGED <<usbState, running, gadget, adbd, overtaken>>
  BY DEF WantConfig
<1>2. PICK v \in Configs : usbManager' = [wants |-> v, pc |-> "clearing"]
  BY DEF WantConfig
<1>3. usbManager'.pc = "clearing" /\ usbManager'.wants \in Configs
  BY <1>2
<1>4. "none" \in Values /\ "none" \notin Configs
  BY BootAssumption DEF Values
<1>5. /\ RunningInv' /\ StateIsConfig' /\ config' = "none"
      /\ Resting => Awaits("none")'
      /\ \A a : a # "none" /\ Awaits(a) => AwaitsBoth(a, "none")'
  BY <1>1, <1>4, SetEffect
<1>6. ~overtaken => ClearingInv'
  <2> SUFFICES ASSUME ~overtaken
               PROVE  Awaits("none")' \/ \E old \in Configs : AwaitsBoth(old, "none")' /\ usbState' # "none"
    BY <1>3, <1>5 DEF ClearingInv
  <2>1. IdleInv
    BY DEF UsbInv, ManagerInv
  <2> QED
    BY <1>1, <1>4, <1>5, <2>1 DEF IdleInv
<1>7. \E w \in Values : \E p : usbManager' = [wants |-> w, pc |-> p]
  BY <1>2 DEF Values
<1> QED
  BY <1>1, <1>3, <1>5, <1>6, <1>7 DEF UsbInv, ManagerInv, IdleInv, SettingInv

\* The framework sets what it wants.
LEMMA SettingStarts == UsbInv /\ SetConfig => UsbInv'
<1> SUFFICES ASSUME UsbInv, SetConfig PROVE UsbInv'
  OBVIOUS
<1>1. PICK w \in Values : \E p : usbManager = [wants |-> w, pc |-> p]
  BY DEF UsbInv, ManagerInv
<1>2. /\ usbManager.pc = "clearing" /\ usbState = "none" /\ usbManager.wants = w /\ Set(w)
      /\ usbManager' = [wants |-> w, pc |-> "setting"]
      /\ UNCHANGED <<usbState, running, gadget, adbd, overtaken>>
  BY <1>1 DEF SetConfig
<1>3. usbManager'.pc = "setting" /\ usbManager'.wants = w
  BY <1>2
<1>4. /\ RunningInv' /\ StateIsConfig' /\ config' = w
      /\ Resting => Awaits(w)'
      /\ \A a : a # w /\ Awaits(a) => AwaitsBoth(a, w)'
  BY <1>1, <1>2, SetEffect
<1>5. ASSUME ~overtaken PROVE SettingInv'
  <2>1. w \in Configs /\ w # "none" /\ ((Resting /\ ~adbd) \/ Awaits("none"))
    BY <1>2, <1>5, BootAssumption DEF UsbInv, ManagerInv, ClearingInv
  <2>2. CASE Resting /\ ~adbd
    <3>1. Awaits(w)' /\ running' = NotRunning /\ ~adbd'
      BY <1>2, <1>4, <2>2 DEF Resting
    <3>2. Made(config)'
      BY <3>1 DEF Made
    <3> QED
      BY <1>3, <1>4, <2>1, <3>1, <3>2 DEF SettingInv
  <2>3. CASE Awaits("none")
    <3>1. AwaitsBoth("none", w)' /\ usbState' = "none"
      BY <1>2, <1>4, <2>1, <2>3
    <3> QED
      BY <1>3, <1>4, <2>1, <3>1 DEF SettingInv
  <2> QED
    BY <2>1, <2>2, <2>3
<1>6. \E v \in Values : \E p : usbManager' = [wants |-> v, pc |-> p]
  BY <1>1, <1>2
<1> QED
  BY <1>2, <1>3, <1>4, <1>5, <1>6 DEF UsbInv, ManagerInv, IdleInv, ClearingInv

\* The framework sees its value and may want another.
LEMMA IsSetInv == UsbInv /\ ConfigIsSet => UsbInv'
<1> SUFFICES ASSUME UsbInv, ConfigIsSet PROVE UsbInv'
  OBVIOUS
<1>1. PICK w \in Values : \E p : usbManager = [wants |-> w, pc |-> p]
  BY DEF UsbInv, ManagerInv
<1>2. /\ usbManager.pc = "setting" /\ usbManager.wants = w /\ usbState = w
      /\ usbManager' = [wants |-> w, pc |-> "idle"]
      /\ UNCHANGED <<config, usbState, queue, running, gadget, adbd, overtaken>>
  BY <1>1 DEF ConfigIsSet
<1>3. usbManager'.pc = "idle" /\ usbManager'.wants = w
  BY <1>2
<1>4. ASSUME ~overtaken PROVE IdleInv'
  <2>1. w \in Configs /\ w # "none" /\ config = w
    BY <1>2, <1>4, BootAssumption DEF UsbInv, ManagerInv, SettingInv
  <2>3. (Awaits(w) /\ Made(w)) \/ (Resting /\ GadgetIs(w))
    <3>1. SettingInv
      BY <1>4 DEF UsbInv, ManagerInv
    <3> QED
      BY <1>2, <2>1, <3>1 DEF SettingInv
  <2>2. /\ Awaits(w) /\ Made(w) => Awaits(w)' /\ Made(w)'
        /\ Resting /\ GadgetIs(w) => Resting' /\ GadgetIs(w)'
    BY <1>2 DEF Awaits, Made, Resting, GadgetIs
  <2> QED
    BY <1>2, <1>3, <2>1, <2>2, <2>3 DEF IdleInv
<1>5. RunningInv' /\ StateIsConfig'
  BY <1>2 DEF UsbInv, RunningInv, StateIsConfig
<1>6. \E v \in Values : \E p : usbManager' = [wants |-> v, pc |-> p]
  BY <1>1, <1>2
<1> QED
  BY <1>2, <1>3, <1>4, <1>5, <1>6 DEF UsbInv, ManagerInv, ClearingInv, SettingInv

\* The framework gives up, and no more is promised of the gadget.
LEMMA StopInv == UsbInv /\ StopWaiting => UsbInv'
<1> SUFFICES ASSUME UsbInv, StopWaiting PROVE UsbInv'
  OBVIOUS
<1>1. PICK w \in Values : \E p : usbManager = [wants |-> w, pc |-> p]
  BY DEF UsbInv, ManagerInv
<1>2. /\ usbManager' = [wants |-> w, pc |-> "idle"] /\ overtaken'
      /\ UNCHANGED <<config, usbState, queue, running, gadget, adbd>>
  BY <1>1 DEF StopWaiting
<1>3. RunningInv' /\ StateIsConfig'
  BY <1>2 DEF UsbInv, RunningInv, StateIsConfig
<1>4. \E v \in Values : \E p : usbManager' = [wants |-> v, pc |-> p]
  BY <1>1, <1>2
<1> QED
  BY <1>2, <1>3, <1>4 DEF UsbInv, ManagerInv

LEMMA UsbKept == UsbInv /\ UNCHANGED usb => UsbInv'
<1> SUFFICES ASSUME UsbInv, UNCHANGED usb PROVE UsbInv'
  OBVIOUS
<1>1. UNCHANGED <<config, usbState, queue, running, gadget, adbd, usbManager, overtaken>>
  BY DEF usb
<1>2. RunningInv' /\ StateIsConfig'
  BY <1>1 DEF UsbInv, RunningInv, StateIsConfig
<1>3. ManagerInv'
  <2>1. \A a : (Awaits(a)' <=> Awaits(a)) /\ (Made(a)' <=> Made(a)) /\ (GadgetIs(a)' <=> GadgetIs(a))
    BY <1>1 DEF Awaits, Made, GadgetIs
  <2>2. \A a, b : AwaitsBoth(a, b)' <=> AwaitsBoth(a, b)
    BY <1>1 DEF AwaitsBoth
  <2>3. Resting' <=> Resting
    BY <1>1 DEF Resting
  <2>4. IdleInv' <=> IdleInv
    BY <1>1, <2>1, <2>3 DEF IdleInv
  <2>5. ClearingInv' <=> ClearingInv
    BY <1>1, <2>1, <2>2, <2>3 DEF ClearingInv
  <2>6. SettingInv' <=> SettingInv
    BY <1>1, <2>1, <2>2, <2>3 DEF SettingInv
  <2> QED
    BY <1>1, <2>4, <2>5, <2>6 DEF UsbInv, ManagerInv
<1> QED
  BY <1>2, <1>3 DEF UsbInv

\* Whatever is set when, init and the framework are where UsbInv says.
THEOREM UsbInvariance == BootSpec => []UsbInv
<1>1. UsbInv /\ [BootNext]_bootVars => UsbInv'
  <2> SUFFICES ASSUME UsbInv, [BootNext]_bootVars PROVE UsbInv'
    OBVIOUS
  <2>1. CASE LoaderNext \/ UNCHANGED bootVars
    <3>1. UNCHANGED usb
      BY <2>1 DEF LoaderNext, ReadList, LoadPass, bootVars
    <3> QED
      BY <3>1, UsbKept
  <2>2. CASE UsbNext
    BY <2>2, WantInv, SettingStarts, IsSetInv, StopInv, StartInv, RunInv DEF UsbNext
  <2> QED
    BY <2>1, <2>2 DEF BootNext
<1> QED
  BY <1>1, UsbInit, PTL DEF BootSpec

\* However the values of sys.usb.config follow each other, init ends with
\* sys.usb.state equal to it, and if the framework has waited with the gadget
\* and adbd as it wants them (init.samsungcodina.usb.rc:27-117).
THEOREM UsbSettlesHolds == BootSpec => []UsbSettles
<1>1. UsbInv => UsbSettles
  <2> SUFFICES ASSUME UsbInv PROVE GadgetAsWanted
    BY DEF UsbInv, UsbSettles
  <2> SUFFICES ASSUME ~overtaken, usbManager.pc = "idle", usbManager.wants # "none", Resting
               PROVE  /\ gadget = [enable |-> TRUE, idProduct |-> Product(config), functions |-> config]
                      /\ config = usbManager.wants /\ adbd = HasAdb(config)
    BY DEF GadgetAsWanted, Resting
  <2>1. config = usbManager.wants /\ GadgetIs(config)
    BY DEF UsbInv, ManagerInv, IdleInv, Resting, Awaits
  <2>2. gadget = [enable |-> TRUE, idProduct |-> Product(config), functions |-> config]
    <3>1. PICK e \in BOOLEAN : \E p, f : gadget = [enable |-> e, idProduct |-> p, functions |-> f]
      BY DEF UsbInv, RunningInv
    <3>2. PICK p, f : gadget = [enable |-> e, idProduct |-> p, functions |-> f]
      BY <3>1
    <3> QED
      BY <2>1, <3>2 DEF GadgetIs
  <2>3. adbd = HasAdb(config)
    <3>1. adbd \in BOOLEAN /\ HasAdb(config) \in BOOLEAN
      BY DEF UsbInv, RunningInv, HasAdb
    <3> QED
      BY <2>1, <3>1 DEF GadgetIs
  <2> QED
    BY <2>1, <2>2, <2>3
<1> QED
  BY <1>1, UsbInvariance, PTL

-----------------------------------------------------------------------------
(* The kernel modules *)

\* A set of numbers that is not empty has a least one.
LEMMA HasLeast ==
  ASSUME NEW T \in SUBSET Nat, T # {}
  PROVE  \E x \in T : \A y \in T : x <= y
<1>1. PICK x \in T : \A y \in T : ~(<<y, x>> \in OpToRel(<, Nat))
  BY NatLessThanWellFounded, WFMin
<1>2. ASSUME NEW y \in T PROVE x <= y
  <2>1. ~(y < x)
    BY <1>1 DEF OpToRel
  <2> QED
    BY <2>1
<1> QED
  BY <1>2

\* f goes up the chain of m for n steps.
Climbs(f, need, m, n) ==
  f = [k \in 0..n |-> IF k = 0 THEN m ELSE IF f[k - 1] = 0 THEN 0 ELSE need[f[k - 1]]]

\* There is a chain of every length.
LEMMA ChainBegins ==
  ASSUME NEW need, NEW m, NEW n \in Nat
  PROVE  \E f : Climbs(f, need, m, n)
<1> DEFINE Bad == {k \in Nat : ~\E f : Climbs(f, need, m, k)}
<1>1. SUFFICES ASSUME Bad # {} PROVE FALSE
  OBVIOUS
<1>2. PICK x \in Bad : \A y \in Bad : x <= y
  <2>1. Bad \in SUBSET Nat
    OBVIOUS
  <2> HIDE DEF Bad
  <2> QED
    BY <1>1, <2>1, HasLeast
<1>3. CASE x = 0
  <2>1. Climbs([k \in 0..0 |-> m], need, m, 0)
    BY DEF Climbs
  <2> QED
    BY <1>2, <1>3, <2>1
<1>4. CASE x # 0
  <2>1. x - 1 \in Nat /\ x - 1 \notin Bad
    BY <1>2, <1>4
  <2>2. PICK f : Climbs(f, need, m, x - 1)
    BY <2>1
  <2> DEFINE g == [k \in 0..x |-> IF k = 0 THEN m ELSE IF f[k - 1] = 0 THEN 0 ELSE need[f[k - 1]]]
  <2>3. \A k \in 0..(x - 1) : g[k] = f[k]
    BY <2>1, <2>2 DEF Climbs
  <2>4. g = [k \in 0..x |-> IF k = 0 THEN m ELSE IF g[k - 1] = 0 THEN 0 ELSE need[g[k - 1]]]
    <3>1. \A k \in 0..x : k = 0 \/ k - 1 \in 0..(x - 1)
      BY <2>1
    <3>2. \A k \in 0..x : k # 0 => g[k - 1] = f[k - 1]
      BY <2>3, <3>1
    <3> QED
      BY <3>2
  <2> QED
    BY <1>2, <2>4 DEF Climbs
<1> QED
  BY <1>3, <1>4

\* A chain starts with its module and goes from each to the one it needs.
LEMMA ChainLinks ==
  ASSUME NEW need, NEW m
  PROVE  /\ Chain(need, m)[0] = m
         /\ \A k \in 1..ModuleCount :
              Chain(need, m)[k] = IF Chain(need, m)[k - 1] = 0 THEN 0 ELSE need[Chain(need, m)[k - 1]]
<1>1. ModuleCount \in Nat
  BY BootAssumption
<1>2. PICK f : Climbs(f, need, m, ModuleCount)
  BY <1>1, ChainBegins
<1>3. Climbs(Chain(need, m), need, m, ModuleCount)
  BY <1>2 DEF Climbs, Chain
<1> QED
  BY <1>1, <1>3 DEF Climbs

\* It stays within the modules and 0.
LEMMA ChainTyped ==
  ASSUME NEW need \in [Modules -> 0..ModuleCount], NEW m \in 0..ModuleCount
  PROVE  \A k \in 0..ModuleCount : Chain(need, m)[k] \in 0..ModuleCount
<1> DEFINE up == Chain(need, m)
           Bad == {k \in 0..ModuleCount : up[k] \notin 0..ModuleCount}
<1>1. ModuleCount \in Nat
  BY BootAssumption
<1>2. SUFFICES ASSUME Bad # {} PROVE FALSE
  OBVIOUS
<1>3. PICK x \in Bad : \A y \in Bad : x <= y
  <2>1. Bad \in SUBSET Nat
    BY <1>1
  <2> HIDE DEF Bad
  <2> QED
    BY <1>2, <2>1, HasLeast
<1>4. up[0] = m /\ \A k \in 1..ModuleCount : up[k] = IF up[k - 1] = 0 THEN 0 ELSE need[up[k - 1]]
  BY ChainLinks
<1> HIDE DEF up
<1>5. x # 0 /\ x \in 1..ModuleCount
  BY <1>1, <1>3, <1>4
<1>6. x - 1 \in 0..ModuleCount /\ x - 1 \notin Bad
  BY <1>1, <1>3, <1>5
<1>7. up[x - 1] = 0 \/ up[x - 1] \in Modules
  BY <1>1, <1>6 DEF Modules
<1>8. up[x] \in 0..ModuleCount
  BY <1>1, <1>4, <1>5, <1>7
<1> QED
  BY <1>3, <1>8

\* The chain of the module that is needed is the rest of the chain.
LEMMA ChainShifts ==
  ASSUME NEW need \in [Modules -> 0..ModuleCount], NEW m \in Modules
  PROVE  \A k \in 1..ModuleCount : Chain(need, m)[k] = Chain(need, need[m])[k - 1]
<1> DEFINE up == Chain(need, m)
           on == Chain(need, need[m])
           Bad == {k \in 1..ModuleCount : up[k] # on[k - 1]}
<1>1. ModuleCount \in Nat
  BY BootAssumption
<1>2. SUFFICES ASSUME Bad # {} PROVE FALSE
  OBVIOUS
<1>3. PICK x \in Bad : \A y \in Bad : x <= y
  <2>1. Bad \in SUBSET Nat
    BY <1>1
  <2> HIDE DEF Bad
  <2> QED
    BY <1>2, <2>1, HasLeast
<1>4. up[0] = m /\ \A k \in 1..ModuleCount : up[k] = IF up[k - 1] = 0 THEN 0 ELSE need[up[k - 1]]
  BY ChainLinks
<1>5. on[0] = need[m] /\ \A k \in 1..ModuleCount : on[k] = IF on[k - 1] = 0 THEN 0 ELSE need[on[k - 1]]
  BY ChainLinks
<1> HIDE DEF up, on
<1>6. x # 1
  BY <1>1, <1>3, <1>4, <1>5 DEF Modules
<1>7. x - 1 \in 1..ModuleCount /\ x - 1 \notin Bad
  BY <1>1, <1>3, <1>6
<1> QED
  BY <1>1, <1>3, <1>4, <1>5, <1>7

\* From nothing it goes nowhere.
LEMMA ChainOfNone ==
  ASSUME NEW need
  PROVE  \A k \in 0..ModuleCount : Chain(need, 0)[k] = 0
<1> DEFINE up == Chain(need, 0)
           Bad == {k \in 0..ModuleCount : up[k] # 0}
<1>1. ModuleCount \in Nat
  BY BootAssumption
<1>2. SUFFICES ASSUME Bad # {} PROVE FALSE
  OBVIOUS
<1>3. PICK x \in Bad : \A y \in Bad : x <= y
  <2>1. Bad \in SUBSET Nat
    BY <1>1
  <2> HIDE DEF Bad
  <2> QED
    BY <1>2, <2>1, HasLeast
<1>4. up[0] = 0 /\ \A k \in 1..ModuleCount : up[k] = IF up[k - 1] = 0 THEN 0 ELSE need[up[k - 1]]
  BY ChainLinks
<1> HIDE DEF up
<1>5. x \in 1..ModuleCount
  BY <1>1, <1>3, <1>4
<1>6. x - 1 \in 0..ModuleCount /\ x - 1 \notin Bad
  BY <1>1, <1>3, <1>5
<1> QED
  BY <1>3, <1>4, <1>5, <1>6

\* Every chain ends: no module needs itself, not even through others.
Grounded(need) == \A m \in Modules : Chain(need, m)[ModuleCount] = 0

LEMMA NotItself ==
  ASSUME NEW need \in [Modules -> 0..ModuleCount], Grounded(need), NEW m \in Modules
  PROVE  need[m] # m
<1> SUFFICES ASSUME need[m] = m PROVE FALSE
  OBVIOUS
<1> DEFINE up == Chain(need, m)
           Bad == {k \in 0..ModuleCount : up[k] # m}
<1>1. ModuleCount \in Nat /\ m # 0
  BY BootAssumption DEF Modules
<1>2. Bad # {}
  BY <1>1 DEF Grounded
<1>3. PICK x \in Bad : \A y \in Bad : x <= y
  <2>1. Bad \in SUBSET Nat
    BY <1>1
  <2> HIDE DEF Bad
  <2> QED
    BY <1>2, <2>1, HasLeast
<1>4. up[0] = m /\ \A k \in 1..ModuleCount : up[k] = IF up[k - 1] = 0 THEN 0 ELSE need[up[k - 1]]
  BY ChainLinks
<1> HIDE DEF up
<1>5. x \in 1..ModuleCount
  BY <1>1, <1>3, <1>4
<1>6. x - 1 \in 0..ModuleCount /\ x - 1 \notin Bad
  BY <1>1, <1>3, <1>5
<1> QED
  BY <1>1, <1>3, <1>4, <1>5, <1>6

\* Where the chain of a module goes to one that comes later in the list.
Jumps(need, m) ==
  {k \in 1..ModuleCount : Chain(need, m)[k] # 0 /\ Chain(need, m)[k] > Chain(need, m)[k - 1]}

\* The elements of a set of numbers, each one more.
Shifted(s) == {k + 1 : k \in s}

LEMMA ShiftedCount ==
  ASSUME NEW s \in SUBSET Nat, IsFiniteSet(s)
  PROVE  IsFiniteSet(Shifted(s)) /\ Cardinality(Shifted(s)) = Cardinality(s)
<1> DEFINE f == [k \in s |-> k + 1]
<1>1. f \in Bijection(s, Shifted(s))
  <2>1. f \in [s -> Shifted(s)]
    BY DEF Shifted
  <2>2. \A a, b \in s : f[a] = f[b] => a = b
    OBVIOUS
  <2>3. \A t \in Shifted(s) : \E k \in s : f[k] = t
    BY DEF Shifted
  <2> QED
    BY <2>1, <2>2, <2>3 DEF Bijection, Injection, Surjection, IsInjective
<1>2. ExistsBijection(s, Shifted(s))
  BY <1>1 DEF ExistsBijection
<1> QED
  BY <1>2, FS_Bijection

LEMMA JumpsFinite ==
  ASSUME NEW need, NEW m
  PROVE  /\ Jumps(need, m) \in SUBSET Nat /\ IsFiniteSet(Jumps(need, m))
         /\ Cardinality(Jumps(need, m)) \in Nat
<1>1. ModuleCount \in Nat /\ IsFiniteSet(1..ModuleCount)
  BY BootAssumption, FS_Interval
<1>2. Jumps(need, m) \in SUBSET (1..ModuleCount)
  BY DEF Jumps
<1>3. IsFiniteSet(Jumps(need, m))
  BY <1>1, <1>2, FS_Subset
<1> QED
  BY <1>1, <1>2, <1>3, FS_CardinalityType

\* The jumps of a module are those of the one it needs, a step later, and the
\* one to that module if it comes later.
LEMMA JumpsOf ==
  ASSUME NEW need \in [Modules -> 0..ModuleCount], Grounded(need), NEW m \in Modules
  PROVE  Jumps(need, m) = Shifted(Jumps(need, need[m])) \cup (IF need[m] > m THEN {1} ELSE {})
<1> DEFINE up == Chain(need, m)
           on == Chain(need, need[m])
<1>1. ModuleCount \in Nat /\ need[m] \in 0..ModuleCount /\ m \in Nat /\ m > 0 /\ m <= ModuleCount
  BY BootAssumption DEF Modules
<1>2. up[0] = m /\ on[0] = need[m]
  BY ChainLinks
<1>3. \A k \in 1..ModuleCount : up[k] = on[k - 1]
  BY ChainShifts
<1>4. on[ModuleCount] = 0
  BY <1>1, ChainOfNone DEF Grounded, Modules
<1>5. Jumps(need, m) = {k \in 1..ModuleCount : up[k] # 0 /\ up[k] > up[k - 1]}
  BY DEF Jumps
<1>6. Jumps(need, need[m]) = {k \in 1..ModuleCount : on[k] # 0 /\ on[k] > on[k - 1]}
  BY DEF Jumps
<1> HIDE DEF up, on
<1>7. 1 \in Jumps(need, m) <=> need[m] > m
  BY <1>1, <1>2, <1>3, <1>5
<1>8. ASSUME NEW k \in Jumps(need, m), k # 1 PROVE k \in Shifted(Jumps(need, need[m]))
  <2>1. k - 1 \in 1..ModuleCount /\ k \in 1..ModuleCount
    BY <1>1, <1>5, <1>8
  <2>2. up[k] = on[k - 1] /\ up[k - 1] = on[(k - 1) - 1]
    BY <1>3, <2>1
  <2>3. k - 1 \in Jumps(need, need[m])
    BY <1>5, <1>6, <2>1, <2>2
  <2> QED
    BY <2>1, <2>3 DEF Shifted
<1>9. ASSUME NEW k \in Jumps(need, need[m]) PROVE k + 1 \in Jumps(need, m)
  <2>1. k \in 1..ModuleCount /\ k # ModuleCount
    BY <1>4, <1>6
  <2>2. k + 1 \in 1..ModuleCount
    BY <1>1, <2>1
  <2>3. up[k + 1] = on[k] /\ up[k] = on[k - 1]
    BY <1>1, <1>3, <2>1, <2>2
  <2> QED
    BY <1>5, <1>6, <2>1, <2>2, <2>3
<1>10. Shifted(Jumps(need, need[m])) \subseteq Jumps(need, m)
  BY <1>9 DEF Shifted
<1> QED
  BY <1>7, <1>8, <1>10

\* The passes of a module from those of the one it needs.
LEMMA PassesFollow ==
  ASSUME NEW need \in [Modules -> 0..ModuleCount], Grounded(need), NEW m \in Modules
  PROVE  /\ PassesOf(need, m) \in Nat /\ PassesOf(need, m) >= 1
         /\ need[m] = 0 => PassesOf(need, m) = 1
         /\ need[m] # 0 =>
              PassesOf(need, m) = IF need[m] > m THEN PassesOf(need, need[m]) + 1 ELSE PassesOf(need, need[m])
<1> DEFINE n == need[m]
           old == Jumps(need, n)
<1>1. n \in 0..ModuleCount /\ m \in Nat /\ m > 0 /\ ModuleCount \in Nat
  BY BootAssumption DEF Modules
<1>2. PassesOf(need, m) = 1 + Cardinality(Jumps(need, m)) /\ PassesOf(need, n) = 1 + Cardinality(old)
  BY DEF PassesOf, Jumps
<1>3. Cardinality(old) \in Nat /\ Cardinality(Jumps(need, m)) \in Nat
  BY JumpsFinite
<1>4. IsFiniteSet(Shifted(old)) /\ Cardinality(Shifted(old)) = Cardinality(old)
  BY JumpsFinite, ShiftedCount
<1>5. CASE n = 0
  <2>1. old = {}
    BY <1>5, ChainOfNone DEF Jumps
  <2>2. Jumps(need, m) = {}
    BY <1>1, <1>5, <2>1, JumpsOf DEF Shifted
  <2>3. Cardinality(Jumps(need, m)) = 0
    BY <2>2, FS_EmptySet
  <2> QED
    BY <1>2, <1>5, <2>3
<1>6. CASE n # 0 /\ n > m
  <2>1. Jumps(need, m) = Shifted(old) \cup {1}
    BY <1>6, JumpsOf
  <2>2. 1 \notin Shifted(old)
    BY BootAssumption DEF Shifted, Jumps
  <2>3. Cardinality(Jumps(need, m)) = Cardinality(old) + 1
    BY <1>4, <2>1, <2>2, FS_AddElement
  <2> QED
    BY <1>2, <1>3, <1>6, <2>3
<1>7. CASE n # 0 /\ ~(n > m)
  <2>1. Jumps(need, m) = Shifted(old)
    BY <1>7, JumpsOf
  <2> QED
    BY <1>2, <1>3, <1>4, <1>7, <2>1
<1> QED
  BY <1>5, <1>6, <1>7

\* The modules in the kernel after the turn of one more.
Turn(has, list, m) == IF m \in list /\ needs[m] \in has \cup {0} THEN has \cup {m} ELSE has

\* f is the modules in the kernel after each of the first n modules of the list.
Loads(f, list, n) ==
  f = [m \in 0..n |-> IF m = 0 THEN loaded ELSE Turn(f[m - 1], list, m)]

LEMMA LoadBegins ==
  ASSUME NEW list, NEW n \in Nat
  PROVE  \E f : Loads(f, list, n)
<1> DEFINE Bad == {k \in Nat : ~\E f : Loads(f, list, k)}
<1>1. SUFFICES ASSUME Bad # {} PROVE FALSE
  OBVIOUS
<1>2. PICK x \in Bad : \A y \in Bad : x <= y
  <2>1. Bad \in SUBSET Nat
    OBVIOUS
  <2> HIDE DEF Bad
  <2> QED
    BY <1>1, <2>1, HasLeast
<1>3. CASE x = 0
  <2>1. Loads([k \in 0..0 |-> loaded], list, 0)
    BY DEF Loads
  <2> QED
    BY <1>2, <1>3, <2>1
<1>4. CASE x # 0
  <2>1. x - 1 \in Nat /\ x - 1 \notin Bad
    BY <1>2, <1>4
  <2>2. PICK f : Loads(f, list, x - 1)
    BY <2>1
  <2> DEFINE g == [m \in 0..x |-> IF m = 0 THEN loaded ELSE Turn(f[m - 1], list, m)]
  <2>3. \A k \in 0..(x - 1) : g[k] = f[k]
    BY <2>1, <2>2 DEF Loads
  <2>4. g = [m \in 0..x |-> IF m = 0 THEN loaded ELSE Turn(g[m - 1], list, m)]
    <3>1. \A k \in 0..x : k = 0 \/ k - 1 \in 0..(x - 1)
      BY <2>1
    <3>2. \A k \in 0..x : k # 0 => g[k - 1] = f[k - 1]
      BY <2>3, <3>1
    <3> QED
      BY <3>2
  <2> QED
    BY <1>2, <2>4 DEF Loads
<1> QED
  BY <1>3, <1>4

\* A loop goes through the list and ends with what LoadEach says.
LEMMA LoadSteps ==
  ASSUME NEW list
  PROVE  \E f : /\ LoadEach(list) = f[ModuleCount]
                /\ f[0] = loaded
                /\ \A m \in Modules : f[m] = Turn(f[m - 1], list, m)
<1> DEFINE has == CHOOSE f : Loads(f, list, ModuleCount)
<1>1. ModuleCount \in Nat
  BY BootAssumption
<1>2. \E f : Loads(f, list, ModuleCount)
  BY <1>1, LoadBegins
<1>3. Loads(has, list, ModuleCount)
  BY <1>2
<1>4. LoadEach(list) = has[ModuleCount]
  BY DEF LoadEach, Loads, Turn
<1> HIDE DEF has
<1>5. has[0] = loaded
  BY <1>1, <1>3 DEF Loads
<1>6. \A m \in Modules : has[m] = Turn(has[m - 1], list, m)
  BY <1>1, <1>3 DEF Loads, Modules
<1> QED
  BY <1>4, <1>5, <1>6

\* The modules that take no more than so many passes.
Within(need, passes) == {m \in Modules : PassesOf(need, m) <= passes}

\* After every loop: the modules that take as many passes are loaded, the others
\* are tried in the next.
LoaderInv ==
  /\ needs \in [Modules -> 0..ModuleCount] /\ Grounded(needs)
  /\ pass \in 0..Passes
  /\ loaded = Within(needs, pass)
  /\ \/ again = Modules \ loaded
     \/ pass = 0 /\ again = {}

\* A loop loads the modules that take one pass more: it has come to those that
\* need a module before them after that, to those that need one behind them
\* before.
LEMMA PassLoads ==
  ASSUME LoaderInv, again = Modules \ loaded
  PROVE  LoadEach(again) = Within(needs, pass + 1)
<1>1. /\ ModuleCount \in Nat /\ needs \in [Modules -> 0..ModuleCount] /\ Grounded(needs)
      /\ pass \in Nat /\ loaded = Within(needs, pass)
  BY BootAssumption DEF LoaderInv, Passes
<1>2. PICK f : /\ LoadEach(again) = f[ModuleCount]
               /\ f[0] = loaded
               /\ \A m \in Modules : f[m] = Turn(f[m - 1], again, m)
  BY LoadSteps
<1> DEFINE So(m) == Within(needs, pass) \cup {j \in Within(needs, pass + 1) : j <= m}
           Bad == {m \in 0..ModuleCount : f[m] # So(m)}
<1>3. ASSUME NEW m \in Modules PROVE PassesOf(needs, m) \in Nat
  BY <1>1, PassesFollow
<1>4. Within(needs, pass) \subseteq Within(needs, pass + 1)
  BY <1>1, <1>3 DEF Within
<1>5. Bad = {}
  <2> SUFFICES ASSUME Bad # {} PROVE FALSE
    OBVIOUS
  <2>1. PICK x \in Bad : \A y \in Bad : x <= y
    <3>1. Bad \in SUBSET Nat
      BY <1>1
    <3> HIDE DEF Bad
    <3> QED
      BY <3>1, HasLeast
  <2>2. So(0) = Within(needs, pass)
    BY <1>1 DEF Within, Modules
  <2>3. x \in Modules
    BY <1>1, <1>2, <2>1, <2>2 DEF Modules
  <2>4. x - 1 \in 0..ModuleCount /\ x - 1 \notin Bad
    BY <1>1, <2>1, <2>3 DEF Modules
  <2>5. f[x - 1] = So(x - 1)
    BY <2>4
  <2>6. So(x) = IF x \in Within(needs, pass + 1) THEN So(x - 1) \cup {x} ELSE So(x - 1)
    BY <1>1, <2>3 DEF Within, Modules
  <2>7. x \in loaded => x \in So(x - 1) /\ x \in Within(needs, pass + 1)
    BY <1>1, <1>4
  <2>8. x \notin loaded => (needs[x] \in So(x - 1) \cup {0} <=> x \in Within(needs, pass + 1))
    <3> SUFFICES ASSUME x \notin loaded
                 PROVE  needs[x] \in So(x - 1) \cup {0} <=> x \in Within(needs, pass + 1)
      OBVIOUS
    <3> DEFINE n == needs[x]
               p == PassesOf(needs, x)
    <3>1. n \in 0..ModuleCount /\ n # x /\ x \in Nat
      BY <1>1, <2>3, NotItself DEF Modules
    <3>2. p \in Nat /\ (x \in Within(needs, pass + 1) <=> p <= pass + 1)
      BY <1>3, <2>3 DEF Within
    <3>3. CASE n = 0
      <4>1. p = 1
        BY <1>1, <2>3, <3>3, PassesFollow
      <4> QED
        BY <1>1, <3>2, <3>3, <4>1
    <3>4. CASE n # 0
      <4> DEFINE q == PassesOf(needs, n)
      <4>1. n \in Modules /\ q \in Nat
        BY <1>1, <1>3, <3>1, <3>4 DEF Modules
      <4>2. p = IF n > x THEN q + 1 ELSE q
        BY <1>1, <2>3, <3>4, PassesFollow
      <4>3. n \in Within(needs, pass) <=> q <= pass
        BY <4>1 DEF Within
      <4>4. n \in Within(needs, pass + 1) <=> q <= pass + 1
        BY <4>1 DEF Within
      <4>5. n \in So(x - 1) <=> (q <= pass \/ (q <= pass + 1 /\ n <= x - 1))
        BY <4>3, <4>4
      <4> HIDE DEF n, p, q, So
      <4>6. n \in So(x - 1) <=> p <= pass + 1
        BY <1>1, <3>1, <4>1, <4>2, <4>5
      <4> QED
        BY <3>2, <3>4, <4>6 DEF n, p
    <3> QED
      BY <3>3, <3>4
  <2>9. f[x] = So(x)
    <3>1. f[x] = IF x \in again /\ needs[x] \in f[x - 1] \cup {0} THEN f[x - 1] \cup {x} ELSE f[x - 1]
      BY <1>2, <2>3 DEF Turn
    <3>2. x \in again <=> x \notin loaded
      BY <2>3
    <3> HIDE DEF So
    <3> QED
      BY <2>5, <2>6, <2>7, <2>8, <3>1, <3>2
  <2> QED
    BY <2>1, <2>9
<1>6. So(ModuleCount) = Within(needs, pass + 1)
  BY <1>1, <1>4 DEF Within, Modules
<1>7. f[ModuleCount] = So(ModuleCount)
  <2> HIDE DEF So
  <2> QED
    BY <1>1, <1>5
<1> QED
  BY <1>2, <1>6, <1>7

LEMMA LoaderInit ==
  ASSUME BootInit PROVE LoaderInv
<1>1. ModuleCount \in Nat /\ needs \in [Modules -> 0..ModuleCount] /\ pass = 0 /\ loaded = {} /\ again = {}
  BY BootAssumption DEF BootInit
<1>2. ASSUME NEW m \in Modules PROVE Chain(needs, m)[ModuleCount] = 0
  <2>1. needs[m] = 0 /\ ModuleCount \in 1..ModuleCount /\ ModuleCount - 1 \in 0..ModuleCount
    BY <1>1 DEF BootInit, Modules
  <2>2. Chain(needs, m)[ModuleCount] = Chain(needs, 0)[ModuleCount - 1]
    BY <1>1, <2>1, ChainShifts
  <2> QED
    BY <2>1, <2>2, ChainOfNone
<1>3. Grounded(needs)
  BY <1>2 DEF Grounded
<1>4. Within(needs, 0) = {}
  <2>1. \A m \in Modules : PassesOf(needs, m) \in Nat /\ PassesOf(needs, m) >= 1
    BY <1>1, <1>3, PassesFollow
  <2> QED
    BY <2>1 DEF Within
<1> QED
  BY <1>1, <1>3, <1>4 DEF LoaderInv, Passes

LEMMA ListInv ==
  ASSUME LoaderInv, ReadList PROVE LoaderInv'
<1>1. needs' \in [Modules -> 0..ModuleCount] /\ Grounded(needs')
  BY DEF ReadList, Grounded
<1>2. pass = 0 /\ pass' = 0 /\ loaded' = loaded /\ again' = Modules
  BY DEF ReadList
<1>3. \A m \in Modules : PassesOf(needs', m) \in Nat /\ PassesOf(needs', m) >= 1
  BY <1>1, PassesFollow
<1>4. \A m \in Modules : PassesOf(needs, m) \in Nat /\ PassesOf(needs, m) >= 1
  BY PassesFollow DEF LoaderInv
<1>5. Within(needs, 0) = {} /\ Within(needs', 0) = {}
  BY <1>3, <1>4 DEF Within
<1>6. loaded = {}
  BY <1>2, <1>5 DEF LoaderInv
<1> QED
  BY <1>1, <1>2, <1>5, <1>6 DEF LoaderInv, Grounded, Within, Passes, Modules

LEMMA PassInv ==
  ASSUME LoaderInv, LoadPass PROVE LoaderInv'
<1>1. again = Modules \ loaded
  BY DEF LoaderInv, LoadPass
<1>2. loaded' = Within(needs, pass + 1)
  BY <1>1, PassLoads DEF LoadPass
<1>3. /\ needs' = needs /\ pass' = pass + 1 /\ pass' \in 0..Passes
      /\ again' = again \ loaded'
  BY DEF LoaderInv, LoadPass, Passes
<1>4. loaded \subseteq loaded'
  <2>1. \A m \in Modules : PassesOf(needs, m) \in Nat
    BY PassesFollow DEF LoaderInv
  <2> QED
    BY <1>2, <2>1 DEF LoaderInv, Within, Passes
<1>5. again' = Modules \ loaded'
  BY <1>1, <1>3, <1>4
<1>6. loaded' = Within(needs', pass')
  BY <1>2, <1>3
<1> QED
  BY <1>3, <1>5, <1>6 DEF LoaderInv, Grounded, Within, Modules, Passes

\* Five loops, whatever the list: each loads exactly the modules whose number of
\* passes has come (00userinit:7-42).
THEOREM LoadedInTimeHolds == BootSpec => []LoadedInTime
<1>1. LoaderInv /\ [BootNext]_bootVars => LoaderInv'
  <2> SUFFICES ASSUME LoaderInv, [BootNext]_bootVars PROVE LoaderInv'
    OBVIOUS
  <2>1. CASE UsbNext \/ UNCHANGED bootVars
    <3>1. UNCHANGED loader
      BY <2>1 DEF UsbNext, WantConfig, SetConfig, ConfigIsSet, StopWaiting, StartAction, RunCommand, bootVars
    <3>2. needs' = needs /\ loaded' = loaded /\ pass' = pass /\ again' = again
      BY <3>1 DEF loader
    <3> QED
      BY <3>2 DEF LoaderInv, Grounded, Within, Modules, Passes
  <2>2. CASE LoaderNext
    BY <2>2, ListInv, PassInv DEF LoaderNext
  <2> QED
    BY <2>1, <2>2 DEF BootNext
<1>2. LoaderInv => LoadedInTime
  BY DEF LoaderInv, LoadedInTime, Within
<1> QED
  BY <1>1, <1>2, LoaderInit, PTL DEF BootSpec
=============================================================================
