SPECIFICATION MCSpec
CONSTANTS
  Chans = {1, 2}
  Circs = {1, 2}
  Own = {1}
  Ids = {1, 2}
  Cell = 2
  LowMark = 2
  HighMarks = {3}
  KernelRooms = {0, 5}
  Batch = 1
  MaxQueue = 2
  CellqHigh = 2
  CellqLow = 1
  SizeMod = 64
  DirectMark = 10
  DirectMarkTwo = 1
  MaxBytes = 10
  MaxBytesTwo = 4
  Schedulers = {"KIST", "KISTLite", "Vanilla"}
INVARIANTS CountersExact PendingExact NoLostChannel IdsReserved BlockedHasCells
PROPERTIES ServedWhenAlone OnlyLaunchMarks
