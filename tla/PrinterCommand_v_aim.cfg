\* A stop in retry when the operator enters another printer's address.
\* Refuted: StaysOnPrinter.
SPECIFICATION Spec
CONSTANTS
  Calls = {c1}
  Methods = {"stop"}
  ATTEMPTS = 2
  DEBOUNCE = 1
  Printers = {A, B}
  NoSerial = NoSerial
  CANCELS = FALSE
INVARIANTS
  StaysOnPrinter
