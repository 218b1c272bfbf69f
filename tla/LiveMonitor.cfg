SPECIFICATION Spec
CONSTANTS
  x1 = x1  x2 = x2  x3 = x3  w1 = w1  w2 = w2  c1 = c1  None = None
  Changes = {x1, x2, x3}  Late = {x1}  Early = {x2}
  Workers = {w1, w2}  Monitors = {c1}  MaxFaults = 2
INVARIANTS QuietMeansFresh
 
\* The system stops when every change is published and shown.
CHECK_DEADLOCK FALSE
