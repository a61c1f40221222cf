\* A released reservation sends two waiters into the same mutation.
SPECIFICATION LedgerSpec
CONSTANTS
  Requests = {"q1", "q2", "q3", "q4"}
  Digests = {"d1", "d2"}
  Digest <- FourDigests
  Fronts = {"plane"}
  None = None
CHECK_DEADLOCK FALSE
INVARIANT ExecutesOnce
