---------------------------- MODULE ExamAttempt ----------------------------
(***************************************************************************)
(* One exam attempt from its first auto-save to its final score: the       *)
(* answer buffer in Redis, the rows in Postgres, and everybody who moves   *)
(* them.  The processes are                                                *)
(*                                                                         *)
(*   Savers    PATCH /answers and POST /code/run requests                  *)
(*   Submits   POST /submit requests (the student, or the client's timer)  *)
(*   Forces    POST /attempts/{id}/force-submit requests (an invigilator)  *)
(*   Sweeps    runs of the task maintenance.auto_submit_expired            *)
(*   Flushers  runs of the task maintenance.flush_answers                  *)
(*   Judges    workers executing judge.grade_attempt                       *)
(*                                                                         *)
(* A process takes one step per interaction with Redis or per database     *)
(* transaction; the steps of different processes interleave freely, except *)
(* where a Postgres row lock makes one wait for another.                   *)
(*                                                                         *)
(* An answer is abstracted to the number of the save that carried it       *)
(* (1, 2, ...; 0 stands for no answer), and a score to the number of the   *)
(* answer it was computed from (0: not graded).  A total is the function   *)
(* from questions to the scores that were added up.                        *)
(***************************************************************************)
EXTENDS Naturals

CONSTANTS Objective,   \* the MCQ and DI questions of the exam
          Coding,      \* its coding questions
          MaxVersion,  \* bound: number of answer-carrying requests
          Blank,       \* the saves that clear the answer: no option, code null
          Empty,       \* the saves whose code is the empty string
          Savers, Submits, Forces, Sweeps, Flushers, Judges,
          MaxRetries,  \* max_retries of judge.grade_attempt
          Faults,      \* which faults may happen: "redis", "crash"
          MaxFaults    \* bound: how many of them

Questions  == Objective \cup Coding
Versions   == 0 .. MaxVersion
Finalizers == Submits \cup Forces \cup Sweeps
Procs      == Savers \cup Finalizers \cup Flushers \cup Judges
FaultKinds == {"redis", "crash"}

ASSUME BoundsAssumption ==
    MaxVersion \in Nat /\ MaxRetries \in Nat /\ MaxFaults \in Nat

ASSUME QuestionsAssumption ==
    Objective \cap Coding = {} /\ Blank \cup Empty \subseteq 1 .. MaxVersion

ASSUME ProcsAssumption ==
    /\ Savers \cap (Finalizers \cup Flushers \cup Judges) = {}
    /\ Finalizers \cap (Flushers \cup Judges) = {}
    /\ Flushers \cap Judges = {}
    /\ Submits \cap (Forces \cup Sweeps) = {}
    /\ Forces \cap Sweeps = {}

ASSUME FaultsAssumption == Faults \subseteq FaultKinds

VARIABLES
    \* Postgres, committed: exam_attempts.status, total_score, grading_complete;
    \* per question answers.* as version and as graded version
    status, total, complete, ver, scored,
    \* Redis: the hash attempt:{id}:answers, the id's membership of the set
    \* dirty_attempts, the grade_attempt messages by retries already made
    buf, dirty, queued,
    \* the environment: 0 before deadline_at, 1 within the grace, 2 after it
    clock, redisUp, faults,
    \* per process: where it is, what it read, the total it computed, whether
    \* coding is pending, the retry count of the message it holds
    pc, snap, tot, pend, tries,
    \* history: saves issued, the newest one acknowledged per question, what was
    \* acknowledged when a finalizer began, finalization rows in the audit log
    issued, acked, due, audits

db      == <<status, total, complete, ver, scored>>
redis   == <<buf, dirty, queued>>
env     == <<clock, redisUp, faults>>
local   == <<pc, snap, tot, pend, tries>>
history == <<issued, acked, due, audits>>
vars    == <<db, redis, env, local, history>>

Nothing == [q \in Questions |-> 0]

\* What an upsert, an HSET and merge() have in common: the new values win.
Overlay(old, new) == [q \in Questions |-> IF new[q] # 0 THEN new[q] ELSE old[q]]

AnyRow(v) == TRUE                                  \* mutant of Answered
Answered(v) == v # 0 /\ v \notin Blank

ClosedStatus == {"submitted", "auto_submitted"}
InTx         == {"graded", "deleted", "cleared"}

HoldsLate(f) == pc[f] = "cleared"                  \* mutant of Holds

\* Finalizer f holds the lock of the exam_attempts row: from its UPDATE on, and
\* for the sweeper already from its SELECT ... FOR UPDATE.
Holds(f) == pc[f] \in InTx \/ (f \in Sweeps /\ pc[f] \in {"checked", "read"})

NeverLocked   == FALSE                             \* mutant of AttemptLocked
AttemptLocked == \E f \in Finalizers : Holds(f)

\* An upsert of the answers in new may run: no finalizer has a row of it locked,
\* and no row has to be inserted while the sweeper's lock blocks the foreign key.
MayUpsert(new) ==
    /\ \A f \in Finalizers, q \in Questions :
          pc[f] \in InTx /\ new[q] # 0 =>
             snap[f][q] = 0 /\ (q \in Objective => tot[f][q] = 0)
    /\ (\E f \in Sweeps : Holds(f)) => \A q \in Questions : new[q] # 0 => ver[q] # 0

Idle(p) == pc' = [pc EXCEPT ![p] = "idle"] /\ snap' = [snap EXCEPT ![p] = Nothing]

-----------------------------------------------------------------------------
\* Saving.  writable_attempt has run: the attempt is in progress and the deadline
\* and its grace have not passed.  What follows acts on that answer later.

Writable == status = "in_progress" /\ clock < 2

SaveAnswers(s, qs) ==
    /\ pc[s] = "idle" /\ Writable /\ issued < MaxVersion
    /\ issued' = issued + 1
    /\ pc' = [pc EXCEPT ![s] = "save"]
    /\ snap' = [snap EXCEPT ![s] = [q \in Questions |-> IF q \in qs THEN issued + 1 ELSE 0]]
    /\ UNCHANGED <<db, redis, env, tot, pend, tries, acked, due, audits>>

\* buffer_answers: one pipeline writes the hash and the dirty set.
SaveBuffered(s) ==
    /\ pc[s] = "save" /\ redisUp
    /\ buf' = Overlay(buf, snap[s])
    /\ dirty' = TRUE
    /\ acked' = Overlay(acked, snap[s])
    /\ Idle(s)
    /\ UNCHANGED <<db, queued, env, tot, pend, tries, issued, due, audits>>

\* buffer_answers returned False: the same payload is upserted directly.
SaveDirect(s) ==
    /\ pc[s] = "save" /\ ~redisUp
    /\ MayUpsert(snap[s])
    /\ ver' = Overlay(ver, snap[s])
    /\ acked' = Overlay(acked, snap[s])
    /\ Idle(s)
    /\ UNCHANGED <<status, total, complete, scored, redis, env, tot, pend, tries,
                   issued, due, audits>>

RunCode(s, q) ==
    /\ pc[s] = "idle" /\ Writable /\ issued < MaxVersion /\ issued + 1 \notin Blank
    /\ issued' = issued + 1
    /\ pc' = [pc EXCEPT ![s] = "run"]
    /\ snap' = [snap EXCEPT ![s] = [Nothing EXCEPT ![q] = issued + 1]]
    /\ UNCHANGED <<db, redis, env, tot, pend, tries, acked, due, audits>>

\* run_code buffers the code too, and does not look at what buffer_answers returned.
RunBuffered(s) ==
    /\ pc[s] = "run"
    /\ IF redisUp THEN buf' = Overlay(buf, snap[s]) /\ dirty' = TRUE
                  ELSE UNCHANGED <<buf, dirty>>
    /\ Idle(s)
    /\ UNCHANGED <<db, queued, env, tot, pend, tries, history>>

-----------------------------------------------------------------------------
\* The flush task.  It never looks at the status of the attempt.

FlushPop(w) ==
    /\ pc[w] = "idle" /\ redisUp /\ dirty
    /\ dirty' = FALSE
    /\ pc' = [pc EXCEPT ![w] = "popped"]
    /\ UNCHANGED <<db, buf, queued, env, snap, tot, pend, tries, history>>

FlushRead(w) ==
    /\ pc[w] = "popped" /\ redisUp
    /\ pc' = [pc EXCEPT ![w] = IF buf = Nothing THEN "idle" ELSE "flush"]
    /\ snap' = [snap EXCEPT ![w] = buf]
    /\ UNCHANGED <<db, redis, env, tot, pend, tries, history>>

\* Mutant of FlushWrite: the dirty mark is removed after the write.
FlushUnmarks(w) ==
    /\ pc[w] = "flush" /\ MayUpsert(snap[w])
    /\ ver' = Overlay(ver, snap[w]) /\ dirty' = FALSE /\ Idle(w)
    /\ UNCHANGED <<status, total, complete, scored, buf, queued, env, tot, pend, tries, history>>

\* Mutant of FlushWrite: the buffer is emptied once it has been written.
FlushEmpties(w) ==
    /\ pc[w] = "flush" /\ MayUpsert(snap[w])
    /\ ver' = Overlay(ver, snap[w]) /\ buf' = Nothing /\ Idle(w)
    /\ UNCHANGED <<status, total, complete, scored, dirty, queued, env, tot, pend, tries, history>>

\* Upsert and commit.  Scores are not among the columns the upsert sets.
FlushWrite(w) ==
    /\ pc[w] = "flush"
    /\ MayUpsert(snap[w])
    /\ ver' = Overlay(ver, snap[w])
    /\ Idle(w)
    /\ UNCHANGED <<status, total, complete, scored, redis, env, tot, pend, tries, history>>

\* HGETALL raises.  The SADD of the except branch raises too, then the task fails and
\* the ids it popped are in no set any more; or Redis is back in time for it.
FlushFail(w) ==
    /\ pc[w] = "popped" /\ ~redisUp
    /\ Idle(w)
    /\ dirty' \in {dirty, TRUE}
    /\ UNCHANGED <<db, buf, queued, env, tot, pend, tries, history>>

-----------------------------------------------------------------------------
\* Finalization.  submit_exam, force_submit and auto_submit_expired share their
\* order: check, read the buffer, upsert and grade, delete the buffer, commit.

\* submit_exam and force_submit: a plain SELECT, nothing is locked.
SubmitCheck(f) ==
    /\ f \in Submits \cup Forces
    /\ pc[f] = "idle" /\ status = "in_progress"
    /\ pc' = [pc EXCEPT ![f] = "checked"]
    /\ due' = [due EXCEPT ![f] = acked]
    /\ UNCHANGED <<db, redis, env, snap, tot, pend, tries, issued, acked, audits>>

InGrace == clock = 1                               \* mutant of Overdue
Overdue == clock >= 1

\* The sweeper: overdue, FOR UPDATE SKIP LOCKED.
SweepCheck(f) ==
    /\ f \in Sweeps
    /\ pc[f] = "idle" /\ status = "in_progress" /\ Overdue
    /\ ~AttemptLocked
    /\ pc' = [pc EXCEPT ![f] = "checked"]
    /\ due' = [due EXCEPT ![f] = acked]
    /\ UNCHANGED <<db, redis, env, snap, tot, pend, tries, issued, acked, audits>>

\* Mutant of ReadBuffer: finalize without reading the buffer.
ReadNothing(f) ==
    /\ pc[f] = "checked" /\ pc' = [pc EXCEPT ![f] = "read"]
    /\ UNCHANGED <<db, redis, env, snap, tot, pend, tries, history>>

\* get_buffered_answers swallows a Redis error and returns {}; the sweeper's
\* client raises (SweepFail).
ReadBuffer(f) ==
    /\ pc[f] = "checked"
    /\ f \in Sweeps => redisUp
    /\ pc' = [pc EXCEPT ![f] = "read"]
    /\ snap' = [snap EXCEPT ![f] = IF redisUp THEN buf ELSE Nothing]
    /\ UNCHANGED <<db, redis, env, tot, pend, tries, history>>

\* Upsert the buffered answers, UPDATE the attempt row (the autoflush before the
\* grading queries), grade what the rows now hold.  Nothing is visible before the
\* commit.  An unanswered objective question adds nothing whatever its row's score.
GradeObjective(f) ==
    LET rows == Overlay(ver, snap[f])
    IN  /\ pc[f] = "read"
        /\ \A g \in Finalizers \ {f} : ~Holds(g)
        /\ tot' = [tot EXCEPT ![f] = [q \in Questions |->
                     IF q \in Coding THEN scored[q]
                     ELSE IF Answered(rows[q]) THEN rows[q] ELSE 0]]
        /\ pend' = [pend EXCEPT ![f] =
                      \E q \in Coding : /\ scored[q] = 0 /\ Answered(rows[q])
                                      /\ rows[q] \notin Empty]
        /\ pc' = [pc EXCEPT ![f] = "graded"]
        /\ UNCHANGED <<db, redis, env, snap, tries, history>>

\* clear_attempt, before the commit: DELETE the hash, then SREM the id.  One handler
\* swallows a Redis error of either, so a failing DELETE skips the SREM.
DeleteBuffer(f) ==
    /\ pc[f] = "graded"
    /\ f \in Sweeps => redisUp
    /\ buf' = IF redisUp THEN Nothing ELSE buf
    /\ pc' = [pc EXCEPT ![f] = IF redisUp THEN "deleted" ELSE "cleared"]
    /\ UNCHANGED <<db, dirty, queued, env, snap, tot, pend, tries, history>>

RemoveDirty(f) ==
    /\ pc[f] = "deleted"
    /\ f \in Sweeps => redisUp
    /\ dirty' = (dirty /\ ~redisUp)
    /\ pc' = [pc EXCEPT ![f] = "cleared"]
    /\ UNCHANGED <<db, buf, queued, env, snap, tot, pend, tries, history>>

Reopens(f) == ~pend[f]                             \* mutant of Completes

\* grading_complete was loaded as False, so a pending grading leaves the column as
\* it is: the ORM emits only the columns that changed.
Completes(f) == complete \/ ~pend[f]

Commit(f) ==
    /\ pc[f] = "cleared"
    /\ status' \in IF f \in Submits THEN ClosedStatus ELSE {"auto_submitted"}
    /\ ver' = Overlay(ver, snap[f])
    /\ scored' = [q \in Questions |->
                    IF q \in Objective /\ tot[f][q] # 0 THEN tot[f][q] ELSE scored[q]]
    /\ total' = tot[f]
    /\ complete' = Completes(f)
    /\ audits' = audits + 1
    /\ pc' = [pc EXCEPT ![f] = IF pend[f] /\ f \notin Forces THEN "dispatch" ELSE "idle"]
    /\ snap' = [snap EXCEPT ![f] = Nothing]
    /\ UNCHANGED <<redis, env, tot, pend, tries, issued, acked, due>>

\* grade_attempt_coding.delay; the broker is the same Redis, without it the call raises.
Dispatch(f) ==
    /\ pc[f] = "dispatch"
    /\ queued' = IF redisUp THEN [queued EXCEPT ![0] = @ + 1] ELSE queued
    /\ pc' = [pc EXCEPT ![f] = "idle"]
    /\ UNCHANGED <<db, buf, dirty, env, snap, tot, pend, tries, history>>

\* Redis raises inside the sweep: session_scope rolls the transaction back.
SweepFail(f) ==
    /\ f \in Sweeps /\ pc[f] \in {"checked", "graded", "deleted"} /\ ~redisUp
    /\ Idle(f)
    /\ UNCHANGED <<db, redis, env, tot, pend, tries, history>>

-----------------------------------------------------------------------------
\* The coding grader.

CodingRows == [q \in Questions |-> IF q \in Coding /\ Answered(ver[q]) THEN ver[q] ELSE 0]

\* Take a message and read the coding answers (tot keeps the scores read with them).
JudgeTake(j, r) ==
    /\ pc[j] = "idle" /\ redisUp /\ queued[r] > 0 /\ CodingRows # Nothing
    /\ queued' = [queued EXCEPT ![r] = @ - 1]
    /\ pc' = [pc EXCEPT ![j] = "judging"]
    /\ snap' = [snap EXCEPT ![j] = CodingRows]
    /\ tot' = [tot EXCEPT ![j] = scored]
    /\ tries' = [tries EXCEPT ![j] = r]
    /\ UNCHANGED <<db, buf, dirty, env, pend, history>>

\* Mutant of JudgeRetry: one retry too many.
JudgeRetryAgain(j, r) ==
    /\ pc[j] = "idle" /\ queued[r] > 0 /\ CodingRows = Nothing
    /\ queued' = [i \in 0 .. MaxRetries + 1 |-> IF i = r + 1 THEN 1 ELSE 0]
    /\ UNCHANGED <<db, buf, dirty, env, local, history>>

\* No gradable row: self.retry, which gives up after MaxRetries.
JudgeRetry(j, r) ==
    /\ pc[j] = "idle" /\ redisUp /\ queued[r] > 0 /\ CodingRows = Nothing
    /\ queued' = [i \in 0 .. MaxRetries |-> IF i = r THEN queued[i] - 1
                                            ELSE IF i = r + 1 THEN queued[i] + 1
                                            ELSE queued[i]]
    /\ UNCHANGED <<db, buf, dirty, env, local, history>>

\* After the runs: write the scores that differ from those read, add up the scores
\* of all rows, mark the attempt graded, commit, acknowledge the message.
JudgeCommit(j) ==
    /\ pc[j] = "judging" /\ ~AttemptLocked
    /\ scored' = [q \in Questions |->
                    IF snap[j][q] \notin {0, tot[j][q]} THEN snap[j][q] ELSE scored[q]]
    /\ total' = scored'
    /\ complete' = TRUE
    /\ Idle(j)
    /\ UNCHANGED <<status, ver, redis, env, tot, pend, tries, history>>

-----------------------------------------------------------------------------
\* Faults and time.

Fault(kind) == kind \in Faults /\ faults < MaxFaults /\ faults' = faults + 1

RedisFail ==
    /\ redisUp /\ Fault("redis")
    /\ redisUp' = FALSE
    /\ UNCHANGED <<db, redis, clock, local, history>>

RedisRecover ==
    /\ ~redisUp
    /\ redisUp' = TRUE
    /\ UNCHANGED <<db, redis, clock, faults, local, history>>

\* A request's process or a worker of the default queue dies, or its transaction is
\* aborted: what it had not committed is undone, what it did to Redis is not.
Crash(p) ==
    /\ pc[p] # "idle" /\ p \notin Judges /\ Fault("crash")
    /\ Idle(p)
    /\ UNCHANGED <<db, redis, clock, redisUp, tot, pend, tries, history>>

\* A judge dies or exceeds its time limit.  acks_late: the broker delivers the
\* message again if the whole worker died; it is gone if only the task did.
JudgeCrash(j) ==
    /\ pc[j] = "judging" /\ Fault("crash")
    /\ Idle(j)
    /\ queued' \in {queued, [queued EXCEPT ![tries[j]] = @ + 1]}
    /\ UNCHANGED <<db, buf, dirty, clock, redisUp, tot, pend, tries, history>>

Tick ==
    /\ clock < 2
    /\ clock' = clock + 1
    /\ UNCHANGED <<db, redis, redisUp, faults, local, history>>

-----------------------------------------------------------------------------
Init ==
    /\ status = "in_progress" /\ total = Nothing /\ complete = FALSE
    /\ ver = Nothing /\ scored = Nothing
    /\ buf = Nothing /\ dirty = FALSE /\ queued = [r \in 0 .. MaxRetries |-> 0]
    /\ clock = 0 /\ redisUp = TRUE /\ faults = 0
    /\ pc = [p \in Procs |-> "idle"] /\ snap = [p \in Procs |-> Nothing]
    /\ tot = [p \in Finalizers \cup Judges |-> Nothing]
    /\ pend = [f \in Finalizers |-> FALSE] /\ tries = [j \in Judges |-> 0]
    /\ issued = 0 /\ acked = Nothing /\ audits = 0
    /\ due = [f \in Finalizers |-> Nothing]

SaveStep(s)  == \/ \E qs \in SUBSET Questions \ {{}} : SaveAnswers(s, qs)
                \/ \E q \in Coding : RunCode(s, q)
                \/ SaveBuffered(s) \/ SaveDirect(s) \/ RunBuffered(s)
FlushStep(w) == FlushPop(w) \/ FlushRead(w) \/ FlushWrite(w) \/ FlushFail(w)
FinishStep(f) == \/ ReadBuffer(f) \/ GradeObjective(f) \/ DeleteBuffer(f)
                 \/ RemoveDirty(f) \/ Commit(f) \/ Dispatch(f) \/ SweepFail(f)
JudgeStep(j) == \/ \E r \in 0 .. MaxRetries : JudgeTake(j, r) \/ JudgeRetry(j, r)
                \/ JudgeCommit(j)

Next ==
    \/ \E s \in Savers : SaveStep(s)
    \/ \E w \in Flushers : FlushStep(w)
    \/ \E f \in Finalizers : SubmitCheck(f) \/ SweepCheck(f) \/ FinishStep(f)
    \/ \E j \in Judges : JudgeStep(j) \/ JudgeCrash(j)
    \/ \E p \in Procs : Crash(p)
    \/ RedisFail \/ RedisRecover \/ Tick

Spec == Init /\ [][Next]_vars

\* What the deployment keeps doing: requests that were accepted run on, beat fires
\* the flush and the sweep, judges consume, Redis comes back, time passes.
\* Students and invigilators owe nothing.
Fairness ==
    /\ \A s \in Savers : WF_vars(SaveBuffered(s) \/ SaveDirect(s) \/ RunBuffered(s))
    /\ \A w \in Flushers : WF_vars(FlushStep(w))
    /\ \A f \in Finalizers : WF_vars(FinishStep(f))
    /\ \A f \in Sweeps : WF_vars(SweepCheck(f))
    /\ \A j \in Judges : WF_vars(JudgeStep(j))
    /\ WF_vars(RedisRecover) /\ WF_vars(Tick)

FairSpec == Spec /\ Fairness
-----------------------------------------------------------------------------
\* Properties.

Answers == [Questions -> Versions]

TypeOK ==
    /\ status \in {"in_progress"} \cup ClosedStatus
    /\ total \in Answers /\ ver \in Answers /\ scored \in Answers
    /\ complete \in BOOLEAN
    /\ buf \in Answers /\ dirty \in BOOLEAN /\ queued \in [0 .. MaxRetries -> Nat]
    /\ clock \in 0 .. 2 /\ redisUp \in BOOLEAN /\ faults \in 0 .. MaxFaults
    /\ pc \in [Procs -> {"idle", "save", "run", "popped", "flush", "checked", "read",
                         "deleted", "graded", "cleared", "dispatch", "judging"}]
    /\ snap \in [Procs -> Answers]
    /\ tot \in [Finalizers \cup Judges -> Answers]
    /\ pend \in [Finalizers -> BOOLEAN]
    /\ tries \in [Judges -> 0 .. MaxRetries]
    /\ issued \in Versions /\ acked \in Answers /\ audits \in Nat
    /\ due \in [Finalizers -> Answers]

\* Once the attempt is finalized its total is the sum of the scores of its rows, at
\* every moment, whoever finalized it and however often: the results export reads
\* exam_attempts.total_score, the review page adds up answers.score.
TotalMatchesRows == status # "in_progress" => total = scored

\* A finalized attempt whose grading is incomplete has somebody working on it: a
\* message in the judge queue, a judge, or a request about to send the message.
PendingIsQueued ==
    status # "in_progress" /\ ~complete =>
        \/ \E r \in 0 .. MaxRetries : queued[r] > 0
        \/ \E j \in Judges : pc[j] = "judging"
        \/ \E f \in Finalizers : pc[f] = "dispatch"

\* The attempt keeps the promise of AttemptResult: it is never reopened, a complete
\* grading never becomes pending again, and no score changes without the total.
Phase == IF status = "in_progress" THEN "open"
         ELSE IF complete THEN "graded" ELSE "pending"

Result == INSTANCE AttemptResult WITH phase <- Phase, marks <- scored

KeepsResult == Result!Spec

\* The exam runs, and no finalization is about to commit.
Unfinished == status = "in_progress" /\ \A f \in Finalizers : pc[f] # "cleared"

\* While the exam runs, an answer that is buffered and not in its row is going to be
\* flushed: the attempt is in the dirty set, or a flush has popped it and is either
\* still to read the buffer or carries this very answer.
UnflushedIsDirty ==
    Unfinished =>
        \A q \in Questions :
            buf[q] # 0 /\ buf[q] # ver[q] =>
                \/ dirty
                \/ \E w \in Flushers : \/ pc[w] = "popped"
                                       \/ pc[w] = "flush" /\ snap[w][q] = buf[q]

\* Why TotalMatchesRows and KeepsResult hold.  The row lock lets one finalizer at a
\* time between its grading and its commit, so the scores it added up are still the
\* scores when it commits; and nobody grades coding before the finalization.
OneHolder == \A f, g \in Finalizers : Holds(f) /\ Holds(g) => f = g

TotalsInFlight ==
    \A f \in Finalizers : pc[f] \in InTx =>
        /\ \A q \in Coding : tot[f][q] = scored[q]
        /\ \A q \in Objective : IF tot[f][q] = 0 THEN scored[q] = 0
                                ELSE ver[q] # 0 \/ snap[f][q] # 0

GradingInv ==
    /\ OneHolder
    /\ TotalsInFlight
    /\ \A q \in Objective : scored[q] # 0 => ver[q] # 0
    /\ \A j \in Judges : pc[j] = "judging" => \A q \in Objective : snap[j][q] = 0
    /\ status = "in_progress" =>
          /\ ~complete
          /\ \A r \in 0 .. MaxRetries : queued[r] = 0
          /\ \A j \in Judges : pc[j] # "judging"
          /\ \A f \in Finalizers : pc[f] # "dispatch"
    /\ TotalMatchesRows

\* Why UnflushedIsDirty holds when nothing fails and one flush runs at a time: what
\* a flush carries and the buffer has moved past was marked dirty by the newer save.
FlushInv ==
    /\ redisUp
    /\ UnflushedIsDirty
    /\ Unfinished =>
          \A w \in Flushers, q \in Questions :
             pc[w] = "flush" /\ snap[w][q] # 0 /\ buf[q] \notin {0, snap[w][q]} => dirty

\* What GET /state shows (buffer over rows) is never older than what the student was
\* told is saved, except between a finalizer's DELETE and its commit.
ResumeShowsAcked ==
    status = "in_progress" /\ (\A f \in Finalizers : pc[f] \notin {"deleted", "cleared"})
        => \A q \in Questions : Overlay(ver, buf)[q] >= acked[q]

\* Whatever had been acknowledged when a finalizing request began is in the rows
\* it commits.
SubmitKeepsAcked ==
    [][\A f \in Finalizers : Commit(f) => \A q \in Questions : ver'[q] >= due[f][q]]_vars

\* "Flushes the answer buffer first so nothing in Redis is lost": after the
\* finalization every acknowledged answer is in its row.
NothingAckedIsLost ==
    status # "in_progress" => \A q \in Questions : ver[q] >= acked[q]

\* "A double-click or a race with the sweeper returns the same receipt": one attempt
\* is finalized once.
FinalizedOnce == audits <= 1

\* "No student can be left unsubmitted."
EventuallySubmitted == <>(status # "in_progress")

\* The total of a submitted attempt becomes final, unless something fails.
EventuallyGraded == [](faults = 0) => (status # "in_progress" ~> complete)

\* While the exam runs, the rows catch up with the acknowledged answers for good.
EventuallyStored ==
    <>[](status = "in_progress" => \A q \in Questions : ver[q] >= acked[q])

=============================================================================
