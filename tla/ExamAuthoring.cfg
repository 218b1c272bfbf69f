SPECIFICATION Spec
CONSTANTS
  a1 = a1  a2 = a2  st1 = st1  s1 = s1  s2 = s2  g1 = g1
  q1 = q1  q2 = q2  q3 = q3  q4 = q4  None = None
  Admins = {a1, a2}  Students = {st1}  Sections = {s1}  Groups = {g1}
  Questions = {q1, q2, q3, q4}
  Papers <- StartPapers  Indexes = {0}  Touching = {TRUE}  ShuffleOptions = TRUE
  MaxEdits = 3
SYMMETRY AdminsAlike
INVARIANTS TypeOK PaperStays PaperIsWhole OneOptionSet
PROPERTIES ReorderAsAsked
\* The bound on requests ends the behaviour.
CHECK_DEADLOCK FALSE
