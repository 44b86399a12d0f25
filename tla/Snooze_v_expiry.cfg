\* A failed write of _end_snooze ends the task, and nothing starts another before the
\* next command or restart.
\* Refuted: SnoozeEnds, what the dashboard's answer tells its reader.
SPECIFICATION FairSpec
CONSTANTS
  Handlers = {h1}
  TaskIds = {t1, t2}
  NoTask = NoTask
  Commands = {"snooze"}
  CUTS = {"expiry"}
PROPERTIES
  SnoozeEnds
