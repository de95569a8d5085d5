SPECIFICATION Spec
CONSTANTS
  a = a
  b = b
  m = m
  n = n
  Messages <- TwoMessages
  Consumers <- TwoConsumers
  Buggy <- NoConsumer
  Interrupts = TRUE
  None = None
INVARIANTS
  OneWorkerPerMessage
PROPERTY AtLeastOnceDelivery
