SPECIFICATION FairSpec
CONSTANTS
  Clients = {c1}
  NoClient = NoClient
  Sizes = {1}
  MaxResume = 1
  Placements = {"worker_local"}
PROPERTIES
  NoneStranded
