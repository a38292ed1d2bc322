SPECIFICATION Spec
CONSTANTS
  Bytes = {0, 1, 3, 4}
  Headers <- TwoHeaders
  IOBufferSize = 3
  MaxUnits = 2
  MaxBytes = 4
  MaxZeroWords = 1
  MaxZeroBytes = 1
CHECK_DEADLOCK FALSE
INVARIANTS TypeOK NoStartCodeInPayload NothingRefused
PROPERTIES ImplementsDelivery
