SPECIFICATION FairSpec
CONSTANTS
  h = h  b1 = b1  b2 = b2  P = P  C = C  D = D  s1 = s1  g = g  e = e
  None = None
  Handler = h
  Threads = {h}
  Ops = {s1}
  Program <- BigStepProgram
  MaxOps = 2
  MaxBytes = 2
  Failures = {}
PROPERTY BlockedCallersAreServed
\* The threads end: the handler after its last call, the background thread when stopped.
CHECK_DEADLOCK FALSE
