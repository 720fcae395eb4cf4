CONSTANTS
  Producers = {p1}
  Consumers = {c1}
  Values = {a, b}
  Capacity = 2
  Modulus = 4
  MaxPushes = 6
  MpscProducers = {q1, q2}
  MpscConsumer = d1
  MpscCapacity = 2
  MpscModulus = 8
  MpscStarts = {0, 6}
  MpscPushes = 3
SPECIFICATION QueuesSpec
INVARIANTS NoSlotRace SizeIsConservative MpscCellsExclusive
PROPERTIES ImplementsFifo AcceptedIsDelivered MpscImplementsFifo MpscClaimedIsDelivered
