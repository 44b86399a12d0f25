\* A pause from the web while Sentinel is about to publish its own, unacknowledged.
SPECIFICATION Spec
CONSTANTS
  Files = {f1}
  NoFile = NoFile
  NoStatus = NoStatus
  DEBOUNCE = 2
  COOLDOWN = 1
  RESUME_GUARD = 1
  ADOPT_WINDOW = 2
  AUTO_STOP = 2
  CONFIRM = 2
  ML_THRESHOLD = 2
  ML_AUTO_STOP = FALSE
  Scores = {"high", "low"}
  OPERATOR = {"web_pause"}
  FAULTS = {"unacked"}
PROPERTIES
  WebPauseNeverAdopted
