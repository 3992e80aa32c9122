SPECIFICATION FairSpec
CONSTANTS
  Files = {f1, f2}
  f1 = f1
  f2 = f2
  MaxCalibrations = 2
  MaxStops = 2
  MaxErasures = 2
INVARIANTS
  ModemStartsComplete
  GuardMeansOneCalibration
  CopyIsTheCalibration
PROPERTY RestoredInTheEnd
CHECK_DEADLOCK FALSE
