SPECIFICATION FairSpec
CONSTANTS
  Clients = {c1, c2}
  NoClient = NoClient
  Sizes = {0, 2}
  MaxResume = 3
  Placements = {"worker_local", "object_store"}
INVARIANTS
  TypeOK
  OneShot
  StreamExact
  DeliveredIsConsumed
  AvailableBacked
PROPERTIES
  DeliveryEnds
