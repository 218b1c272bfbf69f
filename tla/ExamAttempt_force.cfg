SPECIFICATION Spec
CONSTANTS
  q1 = q1  q2 = q2  c1 = c1
  s1 = s1  s2 = s2  sub1 = sub1  sub2 = sub2  force1 = force1  sweep1 = sweep1
  w1 = w1  w2 = w2  j1 = j1  j2 = j2
  Objective = {q1}  Coding = {c1}
  MaxVersion = 2  Blank = {}  Empty = {}
  Savers = {s1}  Submits = {}  Forces = {force1}  Sweeps = {}
  Flushers = {w1}  Judges = {j1}
  MaxRetries = 1  Faults = {}  MaxFaults = 0
INVARIANTS PendingIsQueued
\* The system stops when the attempt is graded and nothing is in flight.
CHECK_DEADLOCK FALSE
