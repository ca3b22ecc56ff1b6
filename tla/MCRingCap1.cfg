CONSTANTS
  p1 = p1
  p2 = p2
  c1 = c1
  c2 = c2
  Producers <- MCProducers
  Consumers <- MCConsumers
  Cap = 1
  MaxPos = 4
SPECIFICATION Spec
INVARIANTS CapacityRespected
