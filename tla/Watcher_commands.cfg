\* Commands that fail or lose their ack, and an operator at the web and the panel.
SPECIFICATION Spec
CONSTANTS
  Files = {f1}
  NoFile = NoFile
  NoStatus = NoStatus
  DEBOUNCE = 2
  COOLDOWN = 1
  RESUME_GUARD = 1
  ADOPT_WINDOW = 2
  AUTO_STOP = 2
  CONFIRM = 2
  ML_THRESHOLD = 2
  ML_AUTO_STOP = FALSE
  Scores = {"high", "low"}
  OPERATOR = {"panel", "web_pause", "web_resume", "web_stop"}
  FAULTS = {"refused", "unacked"}
INVARIANTS
  TypeOK
  PausesOnlyWhenWatching
  OwnershipHasAnchor
  StopDecidedOnPausedReport
