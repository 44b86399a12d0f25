\* Two handlers at once, with a crash or a failed write at every step of them.
SPECIFICATION FairSpec
CONSTANTS
  Handlers = {h1, h2}
  TaskIds = {t1, t2}
  NoTask = NoTask
  Commands = {"snooze", "enable", "disable"}
  CUTS = {"snooze", "expiry", "switch"}
INVARIANTS
  TypeOK
  DisabledIsKept
  SnoozeIsRecoverable
  CacheAgrees
PROPERTIES
  DetectionComesBack
