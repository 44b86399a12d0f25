\* Two users of the bot and a stranger, one channel, and a cap of two tasks.
SPECIFICATION Spec
CONSTANTS
  Users = {u1, u2, stranger}
  NoUser = NoUser
  Authorized = {u1, u2}
  Telegram = telegram
  Channels = {telegram}
  MAX_CONCURRENT_TASKS = 2
  RATE_LIMIT = 2
INVARIANTS
  AlertKept
PROPERTIES
  StopNeedsRequest
  BotComesBack
  BrokenIsVisible
