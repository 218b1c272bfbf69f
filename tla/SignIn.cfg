SPECIFICATION Spec
CONSTANTS
  p1 = p1  p2 = p2  None = None
  Procs = {p1, p2}  Mails = {"magic", "invite"}  MaxIds = 5  MaxFaults = 1
SYMMETRY ProcsAlike
INVARIANTS NewestLinkWorks PinOnce  OneSession
\* The bound on identifiers ends the behaviour.
CHECK_DEADLOCK FALSE
