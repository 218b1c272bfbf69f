SPECIFICATION Spec
CONSTANTS
  q1 = q1  q2 = q2  a = a  b = b  None = None
  Questions = {q1}  Values = {a, b}
  Durations = {2}  Extension = 0  Grace = 1  MaxTime = 4
  MaxEdits = 3  MaxLosses = 1  Losable = {"save", "submit", "heartbeat"}
  Late = FALSE  Prompt = TRUE
  
PROPERTIES AutoOnlyWhenOver
\* The page stops when it has been left and time is up.
CHECK_DEADLOCK FALSE
