SPECIFICATION FairSpec
CONSTANTS
  Chans = {1}
  Circs = {1}
  Own = {1}
  Ids = {1}
  Cell = 2
  LowMark = 2
  HighMarks = {3}
  KernelRooms = {0, 5}
  Batch = 2
  MaxQueue = 2
  CellqHigh = 2
  CellqLow = 1
  SizeMod = 64
  DirectMark = 10
  MaxBytes = 10
  Schedulers = {"KIST", "KISTLite", "Vanilla"}
PROPERTY DestroysServed
