SPECIFICATION Spec
CONSTANTS
  \* RecoveryScreen
  Width = 1
  Height = 2
  LineLengths = {1, 2}
  Frames = {1}
  MaxInits = 2
  MaxSurfaces = 1
  \* MinuiGraphics
  Widths = {2, 3}
  Heights = {2}
  Percents = {0, 34, 50}
  Textures = {191, 192}
  GlyphHeight = 1
  Levels = {0, 1, 254, 255}
  Reach = 1
  \* RecoveryText
  NoGlyph = 2
  GlyphWidths = {0, 1, 3}
  FontHeight = 3
  FontBytes = {1, 128}
  TextLength = 3
  Limits = {0, 1, 2, 4, 5}
  TextX = 1
  Radii = {0, 1, 2, 3, 4, 5}
  \* RilRadio
  MaxMessages = 2
  MaxStates = 2
  MaxConnects = 2
  RadioVersions = {6, 7}
  \* RilParcels
  MaxCalls = 2
  Indexes = {1, 2, 3}
  DataVersions = {3, 4, 5, 10, 11}
  Signals <- OneOdd
  Causes = {1, 16}
  \* Strstr
  Characters = {1, 2}
  MaxHay = 5
  MaxNeedle = 3
  \* GpsShim
  MaxGets = 2
  GpsThreads = {t1, t2}
  \* BootScripts
  ModuleCount = 6
  Configs = {"mtp", "mtp,adb", "rndis"}
  MaxSets = 6
INVARIANTS
  SurfacesAreOwned PicturesAreWhole
  BackendIsUsable DrawingIsRight
  TextIsRight
  RequestsAreSettled ParcelsAreReadRight
  FindsFirst
  ShimsBehave
  LoadedInTime UsbSettles
CHECK_DEADLOCK FALSE
