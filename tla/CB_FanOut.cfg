SPECIFICATION FairSpec
CONSTANTS
  h = h  b1 = b1  b2 = b2  P = P  C = C  D = D  s1 = s1  g = g  e = e
  None = None
  Handler = h
  Threads = {h, b1, b2}
  Ops = {P, C, D, g, e}
  Program <- FanOutProgram
  MaxOps = 3
  MaxBytes = 3
  Failures = {"refused", "replyLost", "pageFetch"}
INVARIANTS RegisteredDescendantsAreCut AcknowledgedIsDurable
PROPERTIES ImplementsLog BlockedCallersAreServed BlockedAtFailureAreWoken
\* The threads end: the handler after its last call, the background thread when stopped.
CHECK_DEADLOCK FALSE
