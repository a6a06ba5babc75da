\* Two numbers, three children, one upgrade: the child of a crashed run and
\* that of the next exist side by side, or a stranger has the old number.
SPECIFICATION Spec
CONSTANTS
  Pids = {p1, p2}
  MaxSpawns = 3
  MaxBinary = 2
  FastReuse = FALSE
INVARIANTS
  SignalInv
  OrphansExplained
PROPERTIES
  RecordKept
