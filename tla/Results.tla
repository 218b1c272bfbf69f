------------------------------ MODULE Results ------------------------------
(***************************************************************************)
(* The numbers of one exam: how answers become scores (services/grading.py *)
(* and the judge), and what an admin is shown of them: overview and review *)
(* of an attempt, the paged list, analytics (routers/admin.py) and the two *)
(* workbooks (services/export.py).                                         *)
(*                                                                         *)
(* Marks and scores are integers, in ten-thousandths of a mark.  Who may   *)
(* finalize when is ExamAttempt's subject: here a submission is one step.  *)
(***************************************************************************)
EXTENDS Integers, SequencesExt

CONSTANTS Students, Questions, Coding, None,
          Weight,      \* of the test cases of a coding question
          Exams,       \* papers: section, marks, negative of each question; those of
                       \* the sections, for questions that have none of their own
          Edits, NewMarks,  \* questions that may be edited after a start; their new marks
          PageSizes,   \* what a client asks for
          PageLimit    \* the largest page_size that is granted

Cases == DOMAIN Weight

\* A paper: no column has a sign or a bound (schemas, models).
IsPaper(e) ==
    /\ e = [section |-> e.section, marks |-> e.marks, negative |-> e.negative, default |-> e.default]
    /\ IsFiniteSet(DOMAIN e.default) /\ e.section \in [Questions -> DOMAIN e.default]
    /\ e.marks \in [Questions -> Int \cup {None}] /\ e.negative \in [Questions -> Int \cup {None}]
    /\ \A sec \in DOMAIN e.default : e.default[sec].marks \in Int /\ e.default[sec].negative \in Int

\* A row of exam_attempts and one of answers: None is NULL, and a row that is not there.
AttemptRow == [status : {"in_progress", "submitted"}, total : Int \cup {None},
               max : Int \cup {None}, complete : BOOLEAN]
AnswerRow  == [given : {"none", "code", "some"}, right : SUBSET Cases, score : Int,
               correct : BOOLEAN \cup {None}]

ASSUME ResultsAssumption ==
    /\ IsFiniteSet(Students) /\ IsFiniteSet(Questions) /\ IsFiniteSet(Cases)
    /\ Coding \cup Edits \subseteq Questions
    /\ None \notin Int \cup BOOLEAN \cup AttemptRow \cup AnswerRow
    /\ Weight \in [Cases -> Nat \ {0}] /\ Cases # {}
    /\ \A e \in Exams : IsPaper(e)
    /\ NewMarks \subseteq Int /\ PageSizes \subseteq Int /\ PageLimit \in Nat \ {0}

VARIABLES
    exam,     \* the paper as it is now
    edited,   \* whether marks changed since the first start
    attempt,  \* the row of each student, or None
    answer    \* the row of each student and question, or None

vars == <<exam, edited, attempt, answer>>

Attempt(status, total, max, complete) ==
    [status |-> status, total |-> total, max |-> max, complete |-> complete]

\* An answer: nothing chosen, code that is empty, or one that is right in these cases (an
\* option: in all or none); its score; is_correct.
Answer(given, right, score, correct) ==
    [given |-> given, right |-> right, score |-> score, correct |-> correct]

Sections  == DOMAIN exam.default
Marks(q)    == IF exam.marks[q] = None THEN exam.default[exam.section[q]].marks ELSE exam.marks[q]
Negative(q) ==
    IF exam.negative[q] = None THEN exam.default[exam.section[q]].negative ELSE exam.negative[q]

Finished(s) == attempt[s] # None /\ attempt[s].status = "submitted"

WeightOf(S) == SumFunctionOnSet(Weight, S)

\* Nearest multiple of unit.
Rounded(x, unit) == ((2 * x + unit) \div (2 * unit)) * unit

Score(row) == IF row = None THEN 0 ELSE row.score
Earned(rows, Q) == SumFunction([q \in Q |-> Score(rows[q])])
Maximum(Q)      == SumFunction([q \in Q |-> Marks(q)])

-----------------------------------------------------------------------------
\* Answering and grading.

\* An exam that was closed to be edited is not published again here.
Start(s) ==
    /\ attempt[s] = None /\ ~edited
    /\ attempt' = [attempt EXCEPT ![s] = Attempt("in_progress", None, None, FALSE)]
    /\ UNCHANGED <<exam, edited, answer>>

\* An upsert leaves score and is_correct of a row alone; a new row has 0 and NULL.
Save(s, q, given, right) ==
    /\ attempt[s] # None /\ ~Finished(s)
    /\ given = "code" => right = {}
    /\ q \in Coding \/ (given # "code" /\ right \in {{}, Cases})
    /\ given = "none" => right = {}
    /\ answer' = [answer EXCEPT ![s][q] =
                     IF @ = None THEN Answer(given, right, 0, None)
                     ELSE Answer(given, right, @.score, @.correct)]
    /\ UNCHANGED <<exam, edited, attempt>>

\* Mutant of Objective: an answer that was cleared is wrong.
ObjectiveHard(q, row) ==
    IF row = None THEN row
    ELSE [row EXCEPT !.correct = row.right = Cases,
                     !.score = IF row.right = Cases THEN Marks(q) ELSE -Negative(q)]

Objective(q, row) ==
    IF row = None \/ row.given = "none" THEN row
    ELSE [row EXCEPT !.correct = row.right = Cases,
                     !.score = IF row.right = Cases THEN Marks(q) ELSE -Negative(q)]

\* Mutant of Pending: a row has its score from the start.
PendingScore(s) == \E q \in Coding : answer[s][q] # None /\ answer[s][q].score = None
Pending(s) ==
    \E q \in Coding : answer[s][q] # None /\ answer[s][q].correct = None /\ answer[s][q].given = "some"

Graded(s) ==
    [q \in Questions |-> IF q \in Coding THEN answer[s][q] ELSE Objective(q, answer[s][q])]

\* What is not answered neither scores nor costs; coding answers count with what they have.
Counted(rows) ==
    {q \in Questions : rows[q] # None /\ (q \in Coding \/ rows[q].given # "none")}

\* grade_objective
Submit(s) ==
    /\ attempt[s] # None /\ ~Finished(s)
    /\ answer' = [answer EXCEPT ![s] = Graded(s)]
    /\ attempt' = [attempt EXCEPT ![s] =
           Attempt("submitted", Earned(Graded(s), Counted(Graded(s))),
                   Maximum(Questions), ~Pending(s))]
    /\ UNCHANGED <<exam, edited>>

\* Mutant of Passed: one case is enough.
PassedOne(right) == right # {}
Passed(right) == right = Cases

\* Partial credit by the weights of the cases that passed.
Partial(q, right) ==
    (2 * Marks(q) * WeightOf(right) + WeightOf(Cases)) \div (2 * WeightOf(Cases))

\* grade_attempt_coding judges every row that has code, the empty one included.
Judged(s) ==
    [q \in Questions |->
        IF q \in Coding /\ answer[s][q] # None /\ answer[s][q].given # "none"
        THEN [answer[s][q] EXCEPT !.score = Partial(q, answer[s][q].right),
                                  !.correct = Passed(answer[s][q].right)]
        ELSE answer[s][q]]

Judge(s) ==
    /\ Finished(s) /\ ~attempt[s].complete
    /\ answer' = [answer EXCEPT ![s] = Judged(s)]
    /\ attempt' = [attempt EXCEPT ![s].total = Earned(Judged(s), Questions), ![s].complete = TRUE]
    /\ UNCHANGED <<exam, edited>>

\* No answer given names one of the new options, and code may pass none of the new cases.
Outdated(row, kept) == IF row = None \/ kept THEN row ELSE [row EXCEPT !.right = {}]

\* A closed exam may be edited: scores and totals stay as they are.
UpdateQuestion(q, m, kept) ==
    /\ ~edited /\ (\E s \in Students : attempt[s] # None)
    /\ m # exam.marks[q] /\ (kept => q \in Coding)
    /\ exam' = [exam EXCEPT !.marks[q] = m]
    /\ edited' = TRUE
    /\ answer' = [s \in Students |-> [answer[s] EXCEPT ![q] = Outdated(answer[s][q], kept)]]
    /\ UNCHANGED attempt

-----------------------------------------------------------------------------
\* attempt_overview

\* Mutant of Rank: equals come before.
RankLast(s) == Cardinality({t \in Students : Finished(t) /\ attempt[t].total >= attempt[s].total})
Rank(s) == 1 + Cardinality({t \in Students : Finished(t) /\ attempt[t].total > attempt[s].total})

InSection(sec) == {q \in Questions : exam.section[q] = sec}

\* Two decimals are shown.
SectionScore(s, sec) == Rounded(Earned(answer[s], InSection(sec)), 100)
SectionMax(sec)      == Rounded(Maximum(InSection(sec)), 100)

-----------------------------------------------------------------------------
\* attempt_questions: the status of one answer.

Review(s, q) ==
    IF answer[s][q] = None \/ answer[s][q].given # "some" THEN "skipped"
    ELSE IF answer[s][q].correct = TRUE THEN "correct" ELSE "incorrect"

-----------------------------------------------------------------------------
\* list_attempts, build_attempts_workbook, build_results_workbook: ORDER BY the total,
\* highest first, NULL last, equals in any order.

Before(s, t) == attempt[t].total = None \/ (attempt[s].total # None /\ attempt[s].total >= attempt[t].total)

Listed(S) == {b \in SetToSeqs(S) : \A i, j \in DOMAIN b : i < j => Before(b[i], b[j])}

Attempts  == {s \in Students : attempt[s] # None}
Completed == {s \in Attempts : Finished(s)}

Size(asked) == Min({Max({asked, 1}), PageLimit})

\* Mutant of Page: OFFSET is counted from the page after it.
PageLate(rows, n, asked) ==
    SubSeq(rows, Max({n, 1}) * Size(asked) + 1, Min({(Max({n, 1}) + 1) * Size(asked), Len(rows)}))

\* LIMIT and OFFSET; question_bank cuts its rows the same way.
Page(rows, n, asked) ==
    SubSeq(rows, (Max({n, 1}) - 1) * Size(asked) + 1, Min({Max({n, 1}) * Size(asked), Len(rows)}))

-----------------------------------------------------------------------------
\* analytics, overview_stats and the counts of build_results_workbook.

Submissions == {s \in Attempts : Finished(s) /\ attempt[s].total # None}

\* The maximum is that of whichever attempt comes first.
Maxima == {attempt[s].max : s \in Submissions}

Percentage(s, max) == Max({0, Min({100, (attempt[s].total * 100) \div max})})

\* Mutant of Bucket: a full score has a bucket of its own.
BucketOver(s, max) == Percentage(s, max) \div 20
Bucket(s, max) == Min({Percentage(s, max) \div 20, 4})

Buckets(max) == [b \in 0 .. 4 |-> Cardinality({s \in Submissions : Bucket(s, max) = b})]

CorrectAnswers(q) == Cardinality({s \in Attempts : answer[s][q] # None /\ answer[s][q].correct = TRUE})
CorrectOf(s)      == Cardinality({q \in Questions : answer[s][q] # None /\ answer[s][q].correct = TRUE})
WrongOf(s)        == Cardinality({q \in Questions : answer[s][q] # None /\ answer[s][q].correct = FALSE})

-----------------------------------------------------------------------------

Init ==
    /\ exam \in Exams /\ edited = FALSE
    /\ attempt = [s \in Students |-> None]
    /\ answer = [s \in Students |-> [q \in Questions |-> None]]

Next ==
    \/ \E s \in Students :
          \/ Start(s) \/ Submit(s) \/ Judge(s)
          \/ \E q \in Questions, given \in {"none", "code", "some"}, right \in SUBSET Cases :
                Save(s, q, given, right)
    \/ \E q \in Edits, m \in NewMarks, kept \in BOOLEAN : UpdateQuestion(q, m, kept)

Spec == Init /\ [][Next]_vars
-----------------------------------------------------------------------------
\* Properties.

TypeOK ==
    /\ IsPaper(exam) /\ edited \in BOOLEAN
    /\ attempt \in [Students -> {None} \cup AttemptRow]
    /\ answer \in [Students -> [Questions -> {None} \cup AnswerRow]]

\* What the reports rest on.  An answer scores only when it was graded, which everything a
\* student gave is in the end, and while the paper stays as it was by that paper; the
\* total of a finished attempt is the sum of its scores at any time.
Credit(q, right) ==
    IF q \in Coding THEN Partial(q, right)
    ELSE IF right = Cases THEN Marks(q) ELSE -Negative(q)

RowInv(s, q) ==
    LET row == answer[s][q] IN row # None =>
        /\ row.given # "some" => row.right = {}
        /\ row.given = "none" \/ ~Finished(s) => row.correct = None
        /\ row.correct = None => row.score = 0
        /\ row.correct = TRUE => row.given = "some"
        /\ row.given = "code" => q \in Coding
        /\ Finished(s) /\ row.given = "some" /\ (q \in Coding => attempt[s].complete) =>
              row.correct # None
        /\ ~edited /\ row.correct # None =>
              row.correct = (row.right = Cases) /\ row.score = Credit(q, row.right)

TotalInv(s) ==
    attempt[s] # None =>
        IF Finished(s)
        THEN /\ attempt[s].total = Earned(answer[s], Questions) /\ attempt[s].max \in Int
             /\ ~edited => attempt[s].max = Maximum(Questions)
        ELSE attempt[s].total = None

GradedInv == \A s \in Students : TotalInv(s) /\ \A q \in Questions : RowInv(s, q)

\* The sections of the overview add up to the total and to the maximum of the attempt, up
\* to the two decimals that are shown; the maximum unless the paper was edited since.
OverviewAddsUp ==
    \A s \in Students : Finished(s) =>
        LET Near(x, y) == x - y \in (-50 * Cardinality(Sections)) .. (50 * Cardinality(Sections))
        IN /\ Near(SumFunction([sec \in Sections |-> SectionScore(s, sec)]), attempt[s].total)
           /\ ~edited => Near(SumFunction([sec \in Sections |-> SectionMax(sec)]), attempt[s].max)

\* The rank of the overview, the row of the results workbook and the place in the list of
\* completed attempts, read page by page, agree up to the order of equal scores; nobody
\* who is still writing comes before anyone who has finished.
Places(s) ==
    Rank(s) .. Rank(s) + Cardinality({t \in Completed : attempt[t].total = attempt[s].total}) - 1

RanksAgree ==
    /\ \A b \in Listed(Attempts) : \A i \in DOMAIN b : Finished(b[i]) => i \in Places(b[i])
    /\ \A b \in Listed(Completed), asked \in PageSizes, s \in Completed :
          \E n \in DOMAIN b : \E i \in DOMAIN Page(b, n, asked) :
             Page(b, n, asked)[i] = s /\ (n - 1) * Size(asked) + i \in Places(s)

\* "Partial credit by test-case weight": nobody scores more than the maximum, and it is
\* reached by those and only those who have every answer right.
\* Nothing in the code bounds marks and weights: a question must be worth something, a
\* penalty must not be a bonus, and no case may weigh so little that it is rounded away.
Worthwhile(q) ==
    /\ Marks(q) > 0 /\ Negative(q) >= 0
    /\ q \in Coding => \A c \in Cases : WeightOf(Cases) < 2 * Marks(q) * Weight[c]

FullIffCorrect ==
    \A s \in Completed : ~edited /\ (\A q \in Questions : Worthwhile(q)) =>
        /\ attempt[s].total <= attempt[s].max
        /\ attempt[s].total = attempt[s].max
             <=> \A q \in Questions : answer[s][q] # None /\ answer[s][q].correct = TRUE

\* Once everything is graded the reports tell the same story: the correct answers of the
\* analytics and of the workbook are those the reviews show, what the workbook counts
\* neither right nor wrong was skipped, and every submission is in one score bucket.
ReportsAgree ==
    (\A s \in Attempts : Finished(s) /\ attempt[s].complete) =>
        /\ \A q \in Questions :
              CorrectAnswers(q) = Cardinality({s \in Attempts : Review(s, q) = "correct"})
        /\ \A s \in Attempts :
              /\ CorrectOf(s) = Cardinality({q \in Questions : Review(s, q) = "correct"})
              /\ WrongOf(s) >= Cardinality({q \in Questions : Review(s, q) = "incorrect"})
        /\ \A max \in Maxima : max > 0 => SumFunction(Buckets(max)) = Cardinality(Submissions)

=============================================================================
