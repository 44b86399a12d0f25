\* Two files, two rows, and the shutdown's limits in units of five seconds.
SPECIFICATION Spec
CONSTANTS
  Files = {f1, f2}
  NoFile = NoFile
  Ids = {i1, i2}
  NoJob = NoJob
  DRAIN = 1
  WAIT = 3
  BOT = 1
  GRACE = 6
INVARIANTS
  OneOpenRow
  ShutdownInOrder
PROPERTIES
  HistoryCloses
