\* Stops from the web, all of them acknowledged; auto-stop is off.
SPECIFICATION Spec
CONSTANTS
  Files = {f1}
  NoFile = NoFile
  NoStatus = NoStatus
  DEBOUNCE = 2
  COOLDOWN = 1
  RESUME_GUARD = 1
  ADOPT_WINDOW = 2
  AUTO_STOP = 0
  CONFIRM = 2
  ML_THRESHOLD = 2
  ML_AUTO_STOP = FALSE
  Scores = {"high", "low"}
  OPERATOR = {"web_stop"}
  FAULTS = {}
PROPERTIES
  AckedStopNotRepeated
