SPECIFICATION Spec
\* Two copies, one after the other.  For a file that vanishes instead:
\*   Lists <- MCPair
CONSTANTS
  Dest = {d}
  Chunks <- MCChunks
  Lists <- MCSingles
  MaxChanges = 2
  MaxWire = 2
  NoDest = NoDest
INVARIANTS
  PromisesAreKept
CHECK_DEADLOCK FALSE
