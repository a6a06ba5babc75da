SPECIFICATION FairSpec
CONSTANTS
  Calls = {c1, c2}
  Keys = {k1, k2}
  Artifacts = {a1, a2}
  Stored = {a1}
  Requests = {{}, {a1, a2}}
  Fetches = {f1}
  NoGen = NoGen
  NoKey = NoKey
  NoBody = NoBody
  NoArtifact = NoArtifact
  MaxQueued = 1
  Total = 3
  ChunkBytes = 2
INVARIANTS
  Idempotent
  InputsPresent
  InputsServed
PROPERTIES
  AdmissionEnds
  AdmissionAtomic
CHECK_DEADLOCK FALSE
