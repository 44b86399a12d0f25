\* Two pauses, cancelled or not, against a printer that refuses, loses and answers late
\* and is exchanged for another one.
SPECIFICATION FairSpec
CONSTANTS
  Calls = {c1, c2}
  Methods = {"pause"}
  ATTEMPTS = 2
  DEBOUNCE = 1
  Printers = {A, B}
  NoSerial = NoSerial
  CANCELS = TRUE
INVARIANTS
  TypeOK
  DebounceHasCause
PROPERTIES
  KeepsPromise
  CallsEnd
