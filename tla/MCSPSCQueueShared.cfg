CONSTANTS
  Producers = {p1, p2}
  Consumers = {c1}
  Values = {a, b}
  Capacity = 2
  Modulus = 8
  MaxPushes = 2
SPECIFICATION Spec
PROPERTIES ImplementsFifo
CHECK_DEADLOCK FALSE
