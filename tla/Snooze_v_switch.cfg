\* A crash between the two writes of /enable leaves the switch off and no expiry.
\* Refuted: NeverStranded, what the comment in snooze() asks of a crash.
SPECIFICATION Spec
CONSTANTS
  Handlers = {h1}
  TaskIds = {t1, t2}
  NoTask = NoTask
  Commands = {"snooze", "enable", "disable"}
  CUTS = {"switch"}
INVARIANTS
  NeverStranded
