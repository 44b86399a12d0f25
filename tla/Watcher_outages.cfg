\* Back-to-back jobs, with a name or without, and outages of link, camera and loop,
\* detection switched off and on, pauses that are refused, resumes from the dashboard.
SPECIFICATION Spec
CONSTANTS
  Files = {f1, f2}
  NoFile = NoFile
  NoStatus = NoStatus
  DEBOUNCE = 1
  COOLDOWN = 1
  RESUME_GUARD = 1
  ADOPT_WINDOW = 2
  AUTO_STOP = 0
  CONFIRM = 2
  ML_THRESHOLD = 2
  ML_AUTO_STOP = FALSE
  Scores = {"high", "low"}
  OPERATOR = {"web_resume", "toggle"}
  FAULTS = {"link", "silent", "camera", "stall", "refused", "unnamed"}
SYMMETRY AnyFile
INVARIANTS
  FramesOnlyFromWarmPrints
  PauseNeedsConfirmedStreak
  SilentOnlyAsRetry
PROPERTIES
  ResumeAfterOutageCoolsDown
