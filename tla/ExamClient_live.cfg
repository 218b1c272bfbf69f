SPECIFICATION FairSpec
CONSTANTS
  q1 = q1  q2 = q2  a = a  b = b  None = None
  Questions = {q1}  Values = {a}
  Durations = {1, 3}  Extension = 1  Grace = 0  MaxTime = 2
  MaxEdits = 2  MaxLosses = 1  Losable = {"save", "state"}
  Late = TRUE  Prompt = FALSE
PROPERTIES EventuallyLeaves PendingDrains
\* The page stops when it has been left and time is up.
CHECK_DEADLOCK FALSE
