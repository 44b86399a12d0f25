\* No frame ever scores high: the ML service answers low or fails, the camera and the
\* loop have outages, pauses lose their ack, an operator at the panel.
SPECIFICATION FairSpec
CONSTANTS
  Files = {f1}
  NoFile = NoFile
  NoStatus = NoStatus
  DEBOUNCE = 1
  COOLDOWN = 1
  RESUME_GUARD = 1
  ADOPT_WINDOW = 1
  AUTO_STOP = 1
  CONFIRM = 1
  ML_THRESHOLD = 1
  ML_AUTO_STOP = FALSE
  Scores = {"low", "error"}
  OPERATOR = {"panel"}
  FAULTS = {"camera", "stall", "unacked"}
INVARIANTS
  MlOutageNeverStops
PROPERTIES
  KeepsWatching
  FailingPrintIsHalted
