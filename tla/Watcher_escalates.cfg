\* Every frame scores high; commands are refused or lose their ack, the link drops, and the
\* watchdog fires.
SPECIFICATION FairSpec
CONSTANTS
  Files = {f1}
  NoFile = NoFile
  NoStatus = NoStatus
  DEBOUNCE = 1
  COOLDOWN = 1
  RESUME_GUARD = 1
  ADOPT_WINDOW = 1
  AUTO_STOP = 1
  CONFIRM = 1
  ML_THRESHOLD = 2
  ML_AUTO_STOP = FALSE
  Scores = {"high"}
  OPERATOR = {}
  FAULTS = {"link", "refused", "stall", "unacked"}
PROPERTIES
  FailingPrintIsHalted
  PauseEscalates
  PendingStopTakesEffect
