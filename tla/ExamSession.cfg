SPECIFICATION Spec
CONSTANTS
  p1 = p1  p2 = p2  p3 = p3  None = None
  Procs = {p1, p2, p3}
  Duration = 2  EndsAt = 3  Grace = 1  Minutes = {1, 2}  Sweeper = TRUE
  MaxTime = 5  MaxCalls = 5  MaxFaults = 2
SYMMETRY ProcsAlike
INVARIANTS ClockExact
PROPERTIES SavesInTime NoEarlyRefusal GrantsHonoured
\* The bounds on time and requests end the behaviour.
CHECK_DEADLOCK FALSE
