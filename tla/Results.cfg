SPECIFICATION Spec
CONSTANTS
  s1 = s1  s2 = s2  s3 = s3  q1 = q1  q3 = q3  c1 = c1  c2 = c2
  A = A  B = B  None = None
  Students = {s1, s2, s3}  Questions = {q1, q3}  Coding = {q3}
  Weight <- TwoWeights  Exams <- OnePaper  Edits = {q1}  NewMarks = {20000}
  PageSizes <- Sizes  PageLimit = 2
SYMMETRY StudentsAlike
INVARIANTS   RanksAgree FullIffCorrect 
\* The behaviour ends when every attempt is graded.
CHECK_DEADLOCK FALSE
