\* A stale zero: one stream has seen no open requests, another one registers, and the server is closed.
SPECIFICATION Spec
CONSTANTS
  None = None
  Streams = {s1, s2}
  Sessions = {}
  Controllers = {c1}
  HasClosedHandler = FALSE
  MaxOps = 2
INVARIANT ClosedMeansDrained
