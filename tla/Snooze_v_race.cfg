\* /disable runs while a snooze waits for the database.  Its task starts after
\* /disable has cancelled what there was, and ends by switching detection on.
\* Refuted: ExpiryKeepsDisabled.
SPECIFICATION Spec
CONSTANTS
  Handlers = {h1, h2}
  TaskIds = {t1, t2, t3}
  NoTask = NoTask
  Commands = {"snooze", "disable"}
  CUTS = {}
INVARIANTS
  ExpiryKeepsDisabled
