SPECIFICATION Spec
CONSTANTS
  r1 = r1  r2 = r2  w1 = w1  w2 = w2  s1 = s1  s2 = s2  s3 = s3  h1 = h1  h2 = h2  None = None
  Runs = {r1, r2}  Workers = {w1, w2}  Sample = {s1, s2, s3}  Hidden = {h1, h2}
  Weight <- Weights  Editions <- TwoEditions  Outcomes <- TwoOutcomes  Function = TRUE
  Faults = {"broker", "docker", "time", "worker", "remove"}  MaxFaults = 1
INVARIANTS  ContainersRemoved
 
\* The system stops when every run is settled.
CHECK_DEADLOCK FALSE
