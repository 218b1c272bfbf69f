------------------------- MODULE ExamAttempt_proofs -------------------------
(***************************************************************************)
(* Theorems about ExamAttempt, for every exam, every number of concurrent  *)
(* requests and workers, and every choice of faults unless said otherwise. *)
(***************************************************************************)
EXTENDS ExamAttempt, TLAPS

-----------------------------------------------------------------------------
\* Functions on the questions.

LEMMA NothingType == Nothing \in Answers
  BY BoundsAssumption DEF Nothing, Answers, Versions

LEMMA OverlayType ==
  ASSUME NEW a \in Answers, NEW b \in Answers
  PROVE  Overlay(a, b) \in Answers
  BY DEF Overlay, Answers

\* A question answered before or in the new batch is answered after it.
LEMMA OverlayGrows ==
  ASSUME NEW a \in Answers, NEW b \in Answers, NEW q \in Questions,
         a[q] # 0 \/ b[q] # 0
  PROVE  Overlay(a, b)[q] # 0
  BY DEF Overlay, Answers

-----------------------------------------------------------------------------
\* Type correctness.

LEMMA IdleType ==
  ASSUME TypeOK, NEW p \in Procs, Idle(p)
  PROVE  /\ pc' \in [Procs -> {"idle", "save", "run", "popped", "flush", "checked",
                               "read", "deleted", "graded", "cleared", "dispatch",
                               "judging"}]
         /\ snap' \in [Procs -> Answers]
  BY NothingType DEF TypeOK, Idle

LEMMA InitType == Init => TypeOK
  <1> SUFFICES ASSUME Init PROVE TypeOK
    OBVIOUS
  <1>1. 0 \in Versions /\ 0 \in 0 .. MaxFaults /\ 0 \in 0 .. MaxRetries
    BY BoundsAssumption DEF Versions
  <1>2. queued \in [0 .. MaxRetries -> Nat]
    BY DEF Init
  <1>3. tries \in [Judges -> 0 .. MaxRetries]
    BY <1>1 DEF Init
  <1>4. /\ pc \in [Procs -> {"idle", "save", "run", "popped", "flush", "checked", "read",
                            "deleted", "graded", "cleared", "dispatch", "judging"}]
        /\ pend \in [Finalizers -> BOOLEAN]
    BY DEF Init
  <1>5. /\ snap \in [Procs -> Answers] /\ due \in [Finalizers -> Answers]
        /\ tot \in [Finalizers \cup Judges -> Answers]
    BY NothingType DEF Init
  <1>6. clock \in 0 .. 2 /\ audits \in Nat
    BY DEF Init
  <1> QED
    BY <1>1, <1>2, <1>3, <1>4, <1>5, <1>6, NothingType DEF Init, TypeOK, ClosedStatus

LEMMA SaveType ==
  ASSUME TypeOK, NEW s \in Savers, SaveStep(s)
  PROVE  TypeOK'
  <1> s \in Procs
    BY DEF Procs
  <1>1. ASSUME NEW qs \in SUBSET Questions, SaveAnswers(s, qs)
        PROVE  TypeOK'
    <2>1. issued' \in Versions /\ 0 \in Versions
      BY <1>1, BoundsAssumption DEF SaveAnswers, TypeOK, Versions
    <2>2. [q \in Questions |-> IF q \in qs THEN issued + 1 ELSE 0] \in Answers
      BY <1>1, <2>1 DEF SaveAnswers, Answers
    <2> QED
      BY <1>1, <2>1, <2>2
      DEF SaveAnswers, TypeOK, db, redis, env
  <1>2. ASSUME NEW q \in Coding, RunCode(s, q)
        PROVE  TypeOK'
    <2>1. issued' \in Versions
      BY <1>2, BoundsAssumption DEF RunCode, TypeOK, Versions
    <2>2. [Nothing EXCEPT ![q] = issued + 1] \in Answers
      BY <1>2, <2>1, NothingType DEF RunCode, Answers
    <2> QED
      BY <1>2, <2>1, <2>2 DEF RunCode, TypeOK, db, redis, env
  <1>3. ASSUME SaveBuffered(s)
        PROVE  TypeOK'
    <2>1. buf' \in Answers /\ acked' \in Answers
      BY <1>3, OverlayType DEF SaveBuffered, TypeOK
    <2> QED
      BY <1>3, <2>1, IdleType DEF SaveBuffered, TypeOK, db, env
  <1>4. ASSUME SaveDirect(s)
        PROVE  TypeOK'
    <2>1. ver' \in Answers /\ acked' \in Answers
      BY <1>4, OverlayType DEF SaveDirect, TypeOK
    <2> QED
      BY <1>4, <2>1, IdleType DEF SaveDirect, TypeOK, redis, env
  <1>5. ASSUME RunBuffered(s)
        PROVE  TypeOK'
    <2>1. buf' \in Answers /\ dirty' \in BOOLEAN
      BY <1>5, OverlayType DEF RunBuffered, TypeOK
    <2> QED
      BY <1>5, <2>1, IdleType DEF RunBuffered, TypeOK, db, env, history
  <1> QED
    BY <1>1, <1>2, <1>3, <1>4, <1>5 DEF SaveStep

LEMMA FlushType ==
  ASSUME TypeOK, NEW w \in Flushers, FlushStep(w)
  PROVE  TypeOK'
  <1> w \in Procs
    BY DEF Procs
  <1>1. CASE FlushPop(w)
    BY <1>1 DEF FlushPop, TypeOK, db, env, history
  <1>2. CASE FlushRead(w)
    BY <1>2 DEF FlushRead, TypeOK, db, redis, env, history
  <1>3. CASE FlushWrite(w)
    <2>1. ver' \in Answers
      BY <1>3, OverlayType DEF FlushWrite, TypeOK
    <2> QED
      BY <1>3, <2>1, IdleType DEF FlushWrite, TypeOK, redis, env, history
  <1>4. CASE FlushFail(w)
    BY <1>4, IdleType DEF FlushFail, TypeOK, db, redis, env, history
  <1> QED
    BY <1>1, <1>2, <1>3, <1>4 DEF FlushStep

LEMMA FinishType ==
  ASSUME TypeOK, NEW f \in Finalizers,
         SubmitCheck(f) \/ SweepCheck(f) \/ FinishStep(f)
  PROVE  TypeOK'
  <1> f \in Procs
    BY DEF Procs
  <1>1. CASE SubmitCheck(f)
    BY <1>1 DEF SubmitCheck, TypeOK, db, redis, env
  <1>2. CASE SweepCheck(f)
    BY <1>2 DEF SweepCheck, TypeOK, db, redis, env
  <1>3. CASE ReadBuffer(f)
    BY <1>3, NothingType DEF ReadBuffer, TypeOK, db, redis, env, history
  <1>4. CASE GradeObjective(f)
    <2> DEFINE rows == Overlay(ver, snap[f])
               t == [q \in Questions |-> IF q \in Coding THEN scored[q]
                                         ELSE IF Answered(rows[q]) THEN rows[q] ELSE 0]
    <2>1. rows \in Answers
      BY OverlayType DEF TypeOK
    <2>2. t \in Answers
      BY <2>1, BoundsAssumption DEF TypeOK, Answers, Versions
    <2>3. tot' = [tot EXCEPT ![f] = t]
      BY <1>4 DEF GradeObjective
    <2>4. tot' \in [Finalizers \cup Judges -> Answers]
      BY <2>2, <2>3 DEF TypeOK
    <2>5. pend' \in [Finalizers -> BOOLEAN]
      BY <1>4 DEF GradeObjective, TypeOK
    <2> HIDE DEF t, rows
    <2> QED
      BY <1>4, <2>4, <2>5 DEF GradeObjective, TypeOK, db, redis, env, history
  <1>5. CASE DeleteBuffer(f)
    BY <1>5, NothingType DEF DeleteBuffer, TypeOK, db, env, history
  <1>6. CASE RemoveDirty(f)
    BY <1>6 DEF RemoveDirty, TypeOK, db, env, history
  <1>7. CASE Commit(f)
    <2>1. ver' \in Answers
      BY <1>7, OverlayType DEF Commit, TypeOK
    <2>2. scored' \in Answers /\ total' \in Answers
      BY <1>7 DEF Commit, TypeOK, Answers
    <2>3. status' \in {"in_progress"} \cup ClosedStatus
      BY <1>7 DEF Commit, ClosedStatus
    <2>4. complete' \in BOOLEAN /\ audits' \in Nat
      BY <1>7 DEF Commit, Completes, TypeOK
    <2>5. snap' \in [Procs -> Answers]
      BY <1>7, NothingType DEF Commit, TypeOK
    <2>6. pc' = [pc EXCEPT ![f] = "dispatch"] \/ pc' = [pc EXCEPT ![f] = "idle"]
      BY <1>7 DEF Commit
    <2> QED
      BY <1>7, <2>1, <2>2, <2>3, <2>4, <2>5, <2>6 DEF Commit, TypeOK, redis, env
  <1>8. CASE Dispatch(f)
    <2>1. queued' \in [0 .. MaxRetries -> Nat]
      BY <1>8, BoundsAssumption DEF Dispatch, TypeOK
    <2> QED
      BY <1>8, <2>1 DEF Dispatch, TypeOK, db, env, history
  <1>9. CASE SweepFail(f)
    BY <1>9, IdleType DEF SweepFail, TypeOK, db, redis, env, history
  <1> QED
    BY <1>1, <1>2, <1>3, <1>4, <1>5, <1>6, <1>7, <1>8, <1>9 DEF FinishStep

LEMMA JudgeType ==
  ASSUME TypeOK, NEW j \in Judges, JudgeStep(j) \/ JudgeCrash(j)
  PROVE  TypeOK'
  <1> j \in Procs
    BY DEF Procs
  <1>1. ASSUME NEW r \in 0 .. MaxRetries, JudgeTake(j, r)
        PROVE  TypeOK'
    <2>1. CodingRows \in Answers
      BY BoundsAssumption DEF CodingRows, TypeOK, Answers, Versions
    <2>2. queued \in [0 .. MaxRetries -> Nat] /\ queued[r] > 0
      BY <1>1 DEF JudgeTake, TypeOK
    <2>3. queued[r] - 1 \in Nat
      BY <2>2
    <2>4. queued' = [queued EXCEPT ![r] = queued[r] - 1]
      BY <1>1 DEF JudgeTake
    <2>5. queued' \in [0 .. MaxRetries -> Nat]
      BY <2>2, <2>3, <2>4
    <2> QED
      BY <1>1, <2>1, <2>5 DEF JudgeTake, TypeOK, db, env, history
  <1>2. ASSUME NEW r \in 0 .. MaxRetries, JudgeRetry(j, r)
        PROVE  TypeOK'
    <2>1. queued' \in [0 .. MaxRetries -> Nat]
      BY <1>2 DEF JudgeRetry, TypeOK
    <2> QED
      BY <1>2, <2>1 DEF JudgeRetry, TypeOK, db, env, local, history
  <1>3. CASE JudgeCommit(j)
    <2>1. scored' \in Answers /\ total' \in Answers
      BY <1>3 DEF JudgeCommit, TypeOK, Answers
    <2> QED
      BY <1>3, <2>1, IdleType DEF JudgeCommit, TypeOK, redis, env, history
  <1>4. CASE JudgeCrash(j)
    <2>1. queued' \in [0 .. MaxRetries -> Nat]
      BY <1>4 DEF JudgeCrash, TypeOK
    <2>2. faults' \in 0 .. MaxFaults
      BY <1>4, BoundsAssumption DEF JudgeCrash, Fault, TypeOK
    <2> QED
      BY <1>4, <2>1, <2>2, IdleType DEF JudgeCrash, TypeOK, db, history
  <1> QED
    BY <1>1, <1>2, <1>3, <1>4 DEF JudgeStep

LEMMA EnvironmentType ==
  ASSUME TypeOK, RedisFail \/ RedisRecover \/ Tick \/ (\E p \in Procs : Crash(p))
  PROVE  TypeOK'
  <1>1. CASE RedisFail
    <2>1. faults' \in 0 .. MaxFaults
      BY <1>1, BoundsAssumption DEF RedisFail, Fault, TypeOK
    <2> QED
      BY <1>1, <2>1 DEF RedisFail, TypeOK, db, redis, local, history
  <1>2. CASE RedisRecover
    BY <1>2 DEF RedisRecover, TypeOK, db, redis, local, history
  <1>3. CASE Tick
    <2>1. clock' \in 0 .. 2
      BY <1>3 DEF Tick, TypeOK
    <2> QED
      BY <1>3, <2>1 DEF Tick, TypeOK, db, redis, local, history
  <1>4. ASSUME NEW p \in Procs, Crash(p)
        PROVE  TypeOK'
    <2>1. faults' \in 0 .. MaxFaults
      BY <1>4, BoundsAssumption DEF Crash, Fault, TypeOK
    <2> QED
      BY <1>4, <2>1, IdleType DEF Crash, TypeOK, db, redis, history
  <1> QED
    BY <1>1, <1>2, <1>3, <1>4

LEMMA NextType == TypeOK /\ [Next]_vars => TypeOK'
  <1> SUFFICES ASSUME TypeOK, [Next]_vars PROVE TypeOK'
    OBVIOUS
  <1>1. CASE UNCHANGED vars
    BY <1>1 DEF vars, db, redis, env, local, history, TypeOK
  <1> QED
    BY <1>1, SaveType, FlushType, FinishType, JudgeType, EnvironmentType DEF Next

\* Every reachable state is well typed, for all constants.
THEOREM Typing == Spec => []TypeOK
  BY InitType, NextType, PTL DEF Spec

-----------------------------------------------------------------------------
\* The totals.  Most steps only move a process along without touching what
\* GradingInv relates: they are quiet.

Quiet ==
    /\ UNCHANGED <<status, total, complete, scored, tot>>
    /\ UNCHANGED queued \/ status # "in_progress"
    /\ \A q \in Objective : ver[q] # 0 => ver'[q] # 0
    /\ \A f \in Finalizers :
          /\ Holds(f)' => Holds(f)
          /\ pc'[f] \in InTx => pc[f] \in InTx /\ snap'[f] = snap[f]
          /\ pc'[f] = "dispatch" => pc[f] = "dispatch"
    /\ \A j \in Judges : pc'[j] = "judging" => pc[j] = "judging" /\ snap'[j] = snap[j]

LEMMA QuietStep ==
  ASSUME GradingInv, Quiet
  PROVE  GradingInv'
  <1>1. OneHolder'
    BY DEF GradingInv, Quiet, OneHolder
  <1>2. TotalsInFlight'
    <2> SUFFICES ASSUME NEW f \in Finalizers, pc'[f] \in InTx
                 PROVE  /\ \A q \in Coding : tot'[f][q] = scored'[q]
                        /\ \A q \in Objective : IF tot'[f][q] = 0 THEN scored'[q] = 0
                                                ELSE ver'[q] # 0 \/ snap'[f][q] # 0
      BY DEF TotalsInFlight, InTx
    <2>1. pc[f] \in InTx /\ snap'[f] = snap[f] /\ tot' = tot /\ scored' = scored
      BY DEF Quiet
    <2> QED
      BY <2>1 DEF GradingInv, TotalsInFlight, Quiet
  <1>3. \A q \in Objective : scored'[q] # 0 => ver'[q] # 0
    BY DEF GradingInv, Quiet
  <1>4. \A j \in Judges : pc'[j] = "judging" => \A q \in Objective : snap'[j][q] = 0
    BY DEF GradingInv, Quiet
  <1>5. status' = "in_progress" =>
          /\ ~complete'
          /\ \A r \in 0 .. MaxRetries : queued'[r] = 0
          /\ \A j \in Judges : pc'[j] # "judging"
          /\ \A f \in Finalizers : pc'[f] # "dispatch"
    BY DEF GradingInv, Quiet
  <1>6. TotalMatchesRows'
    BY DEF GradingInv, Quiet, TotalMatchesRows
  <1> QED
    BY <1>1, <1>2, <1>3, <1>4, <1>5, <1>6 DEF GradingInv

\* A process that is neither a finalizer nor a judge is neither after its step.
LEMMA OthersKeep ==
  ASSUME TypeOK, NEW p \in Savers \cup Flushers, NEW st, NEW sn,
         pc' = [pc EXCEPT ![p] = st],
         snap' = [snap EXCEPT ![p] = sn] \/ UNCHANGED snap
  PROVE  /\ \A f \in Finalizers \cup Judges : pc'[f] = pc[f] /\ snap'[f] = snap[f]
         /\ \A f \in Finalizers : Holds(f)' = Holds(f)
  <1>1. \A f \in Finalizers \cup Judges : f # p /\ f \in Procs
    BY ProcsAssumption DEF Procs
  <1>2. \A f \in Finalizers \cup Judges : pc'[f] = pc[f] /\ snap'[f] = snap[f]
    BY <1>1 DEF TypeOK
  <1>3. \A f \in Finalizers : Holds(f)' = Holds(f)
    BY <1>2 DEF Holds
  <1> QED
    BY <1>2, <1>3

LEMMA RowsStay ==
  ASSUME TypeOK, NEW new \in Answers, ver' = Overlay(ver, new)
  PROVE  \A q \in Objective : ver[q] # 0 => ver'[q] # 0
  BY OverlayGrows DEF TypeOK, Questions

LEMMA SaveQuiet ==
  ASSUME TypeOK, NEW s \in Savers, SaveStep(s)
  PROVE  Quiet
  <1> s \in Savers \cup Flushers /\ s \in Procs
    BY DEF Procs
  <1>1. /\ UNCHANGED <<status, total, complete, scored, tot, queued>>
        /\ \E st, sn : pc' = [pc EXCEPT ![s] = st] /\ snap' = [snap EXCEPT ![s] = sn]
    BY DEF SaveStep, SaveAnswers, SaveBuffered, SaveDirect, RunCode, RunBuffered, Idle,
           db, redis
  <1>2. \A q \in Objective : ver[q] # 0 => ver'[q] # 0
    <2>1. UNCHANGED ver \/ ver' = Overlay(ver, snap[s])
      BY DEF SaveStep, SaveAnswers, SaveBuffered, SaveDirect, RunCode, RunBuffered, db
    <2>2. snap[s] \in Answers
      BY DEF TypeOK
    <2> QED
      BY <2>1, <2>2, RowsStay
  <1> QED
    BY <1>1, <1>2, OthersKeep DEF Quiet

LEMMA FlushQuiet ==
  ASSUME TypeOK, NEW w \in Flushers, FlushStep(w)
  PROVE  Quiet
  <1> w \in Savers \cup Flushers /\ w \in Procs
    BY DEF Procs
  <1>1. /\ UNCHANGED <<status, total, complete, scored, tot, queued>>
        /\ \E st, sn : /\ pc' = [pc EXCEPT ![w] = st]
                       /\ snap' = [snap EXCEPT ![w] = sn] \/ UNCHANGED snap
    BY DEF FlushStep, FlushPop, FlushRead, FlushWrite, FlushFail, Idle, db, redis
  <1>2. \A q \in Objective : ver[q] # 0 => ver'[q] # 0
    <2>1. UNCHANGED ver \/ ver' = Overlay(ver, snap[w])
      BY DEF FlushStep, FlushPop, FlushRead, FlushWrite, FlushFail, db
    <2>2. snap[w] \in Answers
      BY DEF TypeOK
    <2> QED
      BY <2>1, <2>2, RowsStay
  <1> QED
    BY <1>1, <1>2, OthersKeep DEF Quiet

\* The steps of a finalizer other than taking the row lock, grading and committing.
LEMMA FinishQuiet ==
  ASSUME TypeOK, GradingInv, NEW f \in Finalizers,
         \/ SubmitCheck(f) \/ ReadBuffer(f) \/ DeleteBuffer(f) \/ RemoveDirty(f)
         \/ Dispatch(f) \/ SweepFail(f)
  PROVE  Quiet
  <1> f \in Procs /\ f \notin Judges
    BY ProcsAssumption DEF Procs
  <1>1. /\ UNCHANGED <<status, total, complete, scored, tot, ver>>
        /\ UNCHANGED queued \/ pc[f] = "dispatch"
        /\ \A g \in Procs \ {f} : pc'[g] = pc[g] /\ snap'[g] = snap[g]
    BY DEF SubmitCheck, ReadBuffer, DeleteBuffer, RemoveDirty, Dispatch, SweepFail,
           Idle, db, redis, TypeOK
  <1>2. UNCHANGED queued \/ status # "in_progress"
    BY <1>1 DEF GradingInv
  <1>3. /\ pc'[f] \in InTx => pc[f] \in InTx /\ snap'[f] = snap[f]
        /\ pc'[f] # "dispatch"
        /\ pc'[f] = "checked" => f \notin Sweeps
        /\ pc'[f] = "read" => pc[f] = "checked"
    BY ProcsAssumption
    DEF SubmitCheck, ReadBuffer, DeleteBuffer, RemoveDirty, Dispatch, SweepFail,
        Idle, InTx, TypeOK
  <1>4. \A g \in Finalizers : Holds(g)' => Holds(g)
    <2>1. Holds(f)' => Holds(f)
      BY <1>3 DEF Holds
    <2>2. ASSUME NEW g \in Finalizers \ {f}
          PROVE  Holds(g)' => Holds(g)
      BY <1>1 DEF Holds, Procs
    <2> QED
      BY <2>1, <2>2
  <1>5. \A g \in Finalizers : /\ pc'[g] \in InTx => pc[g] \in InTx /\ snap'[g] = snap[g]
                              /\ pc'[g] = "dispatch" => pc[g] = "dispatch"
    BY <1>1, <1>3 DEF Procs
  <1>6. \A j \in Judges : pc'[j] = pc[j] /\ snap'[j] = snap[j]
    BY <1>1 DEF Procs
  <1> QED
    BY <1>1, <1>2, <1>4, <1>5, <1>6 DEF Quiet

LEMMA EnvironmentQuiet ==
  ASSUME TypeOK, GradingInv,
         RedisFail \/ RedisRecover \/ Tick \/ (\E p \in Procs : Crash(p))
           \/ (\E j \in Judges : JudgeCrash(j))
           \/ (\E j \in Judges, r \in 0 .. MaxRetries : JudgeRetry(j, r))
  PROVE  Quiet
  <1>1. CASE RedisFail \/ RedisRecover \/ Tick
    BY <1>1 DEF RedisFail, RedisRecover, Tick, Quiet, Holds, db, redis, local
  <1>2. ASSUME NEW p \in Procs, Idle(p), UNCHANGED <<db, tot>>,
               UNCHANGED queued \/ status # "in_progress"
        PROVE  Quiet
    <2>1. pc'[p] = "idle" /\ \A g \in Procs \ {p} : pc'[g] = pc[g] /\ snap'[g] = snap[g]
      BY <1>2 DEF Idle, TypeOK
    <2>2. \A g \in Finalizers : Holds(g)' => Holds(g)
      BY <2>1 DEF Holds, InTx, Procs
    <2>3. /\ \A g \in Finalizers : /\ pc'[g] \in InTx => pc[g] \in InTx /\ snap'[g] = snap[g]
                                   /\ pc'[g] = "dispatch" => pc[g] = "dispatch"
          /\ \A j \in Judges : pc'[j] = "judging" => pc[j] = "judging" /\ snap'[j] = snap[j]
      BY <2>1 DEF InTx, Procs
    <2> QED
      BY <1>2, <2>2, <2>3 DEF Quiet, db
  <1>3. ASSUME NEW p \in Procs, Crash(p)
        PROVE  Quiet
    BY <1>2, <1>3 DEF Crash, redis
  <1>4. ASSUME NEW j \in Judges, JudgeCrash(j)
        PROVE  Quiet
    <2>1. status # "in_progress" /\ j \in Procs
      BY <1>4 DEF JudgeCrash, GradingInv, Procs
    <2> QED
      BY <1>2, <1>4, <2>1 DEF JudgeCrash
  <1>5. ASSUME NEW j \in Judges, NEW r \in 0 .. MaxRetries, JudgeRetry(j, r)
        PROVE  Quiet
    <2>1. status # "in_progress"
      BY <1>5 DEF JudgeRetry, GradingInv, TypeOK
    <2> QED
      BY <1>5, <2>1 DEF JudgeRetry, Quiet, Holds, db, local
  <1> QED
    BY <1>1, <1>3, <1>4, <1>5

\* SKIP LOCKED: the sweep begins only where nobody holds the row.
LEMMA SweepCheckKeeps ==
  ASSUME TypeOK, GradingInv, NEW f \in Finalizers, SweepCheck(f)
  PROVE  GradingInv'
  <1> f \in Procs /\ f \notin Judges
    BY ProcsAssumption DEF Procs
  <1>1. /\ UNCHANGED <<status, total, complete, scored, tot, ver, queued, snap>>
        /\ pc'[f] = "checked" /\ \A g \in Procs \ {f} : pc'[g] = pc[g]
    BY DEF SweepCheck, db, redis, TypeOK
  <1>2. OneHolder'
    BY <1>1 DEF SweepCheck, AttemptLocked, OneHolder, Holds, Procs
  <1>3. \A g \in Finalizers : pc'[g] \in InTx => pc[g] \in InTx
    BY <1>1 DEF InTx, Procs
  <1>4. TotalsInFlight'
    BY <1>1, <1>3 DEF GradingInv, TotalsInFlight, InTx
  <1>5. /\ \A j \in Judges : pc'[j] = pc[j]
        /\ \A g \in Finalizers : pc'[g] = "dispatch" => pc[g] = "dispatch"
    BY <1>1 DEF Procs
  <1> QED
    BY <1>1, <1>2, <1>4, <1>5 DEF GradingInv, TotalMatchesRows

\* Grading: the totals are computed from the scores of this moment.  An answered
\* objective question counts its answer; without blank saves an unanswered one has
\* no row, hence no score.
LEMMA GradeKeeps ==
  ASSUME TypeOK, GradingInv, Blank = {}, NEW f \in Finalizers, GradeObjective(f)
  PROVE  GradingInv'
  <1> DEFINE rows == Overlay(ver, snap[f])
             t == [q \in Questions |-> IF q \in Coding THEN scored[q]
                                       ELSE IF Answered(rows[q]) THEN rows[q] ELSE 0]
  <1> f \in Procs /\ f \notin Judges
    BY ProcsAssumption DEF Procs
  <1>1. /\ UNCHANGED <<status, total, complete, scored, ver, queued, snap>>
        /\ tot' = [tot EXCEPT ![f] = t]
        /\ pc' = [pc EXCEPT ![f] = "graded"] /\ pc[f] = "read"
    BY DEF GradeObjective, db, redis
  <1>2. \A g \in Procs \ {f} : pc'[g] = pc[g]
    BY <1>1 DEF TypeOK
  <1>3. pc'[f] = "graded"
    BY <1>1 DEF TypeOK
  <1>4. \A g \in Finalizers \ {f} : ~Holds(g)'
    BY <1>2 DEF GradeObjective, Holds, Procs
  <1>5. OneHolder'
    BY <1>4 DEF OneHolder
  <1>6. TotalsInFlight'
    <2>1. \A g \in Finalizers : pc'[g] \in InTx => g = f
      BY <1>4 DEF Holds
    <2>2. tot'[f] = t
      BY <1>1 DEF TypeOK
    <2>3. \A q \in Coding : t[q] = scored[q]
      BY DEF Questions
    <2>4. ASSUME NEW q \in Objective
          PROVE  IF t[q] = 0 THEN scored[q] = 0 ELSE ver[q] # 0 \/ snap[f][q] # 0
      <3>1. q \in Questions /\ q \notin Coding
        BY QuestionsAssumption DEF Questions
      <3>2. rows[q] = IF snap[f][q] # 0 THEN snap[f][q] ELSE ver[q]
        BY <3>1 DEF Overlay
      <3>3. t[q] = rows[q]
        BY <3>1 DEF Answered
      <3> QED
        BY <3>2, <3>3 DEF GradingInv
    <2> HIDE DEF t
    <2> QED
      BY <1>1, <2>1, <2>2, <2>3, <2>4 DEF TotalsInFlight, InTx
  <1>7. /\ \A j \in Judges : pc'[j] = pc[j]
        /\ \A g \in Finalizers : pc'[g] = "dispatch" => pc[g] = "dispatch"
    BY <1>2, <1>3 DEF Procs
  <1> QED
    BY <1>1, <1>5, <1>6, <1>7 DEF GradingInv, TotalMatchesRows

\* The commit writes the very scores that its total adds up.
LEMMA CommitKeeps ==
  ASSUME TypeOK, GradingInv, NEW f \in Finalizers, Commit(f)
  PROVE  GradingInv'
  <1> f \in Procs /\ f \notin Judges /\ f \in Finalizers \cup Judges
    BY ProcsAssumption DEF Procs
  <1>1. pc[f] = "cleared" /\ pc[f] \in InTx /\ Holds(f)
    BY DEF Commit, InTx, Holds
  <1>2. /\ \A g \in Procs \ {f} : pc'[g] = pc[g] /\ snap'[g] = snap[g]
        /\ pc'[f] \in {"dispatch", "idle"}
    BY DEF Commit, TypeOK
  <1>3. \A g \in Finalizers : ~Holds(g)'
    <2>1. ~Holds(f)'
      BY <1>2 DEF Holds, InTx
    <2>2. \A g \in Finalizers \ {f} : ~Holds(g)
      BY <1>1 DEF GradingInv, OneHolder
    <2>3. \A g \in Finalizers \ {f} : Holds(g)' <=> Holds(g)
      BY <1>2 DEF Holds, Procs
    <2> QED
      BY <2>1, <2>2, <2>3
  <1>4. OneHolder' /\ TotalsInFlight'
    BY <1>3 DEF OneHolder, TotalsInFlight, Holds
  <1>5. status' # "in_progress"
    BY DEF Commit, ClosedStatus
  <1>6. \A q \in Questions : scored'[q] = tot[f][q]
    <2>1. ASSUME NEW q \in Coding
          PROVE  scored'[q] = tot[f][q]
      BY <1>1, QuestionsAssumption DEF Commit, GradingInv, TotalsInFlight, Questions
    <2>2. ASSUME NEW q \in Objective
          PROVE  scored'[q] = tot[f][q]
      BY <1>1 DEF Commit, GradingInv, TotalsInFlight, Questions
    <2> QED
      BY <2>1, <2>2 DEF Questions
  <1>7. TotalMatchesRows'
    <2>1. tot[f] \in [Questions -> Versions]
      BY DEF TypeOK, Answers
    <2>2. scored' = [q \in Questions |-> scored'[q]] /\ total' = tot[f]
      BY DEF Commit
    <2> QED
      BY <1>6, <2>1, <2>2 DEF TotalMatchesRows
  <1>8. \A q \in Objective : scored'[q] # 0 => ver'[q] # 0
    <2> SUFFICES ASSUME NEW q \in Objective, scored'[q] # 0
                 PROVE  ver'[q] # 0
      OBVIOUS
    <2>1. tot[f][q] # 0
      BY <1>6 DEF Questions
    <2>2. ver[q] # 0 \/ snap[f][q] # 0
      BY <1>1, <2>1 DEF GradingInv, TotalsInFlight
    <2>3. snap[f] \in Answers /\ ver \in Answers /\ q \in Questions
      BY DEF TypeOK, Questions
    <2> QED
      BY <2>2, <2>3, OverlayGrows DEF Commit
  <1>9. \A j \in Judges : pc'[j] = pc[j] /\ snap'[j] = snap[j]
    BY <1>2 DEF Procs
  <1> QED
    BY <1>4, <1>5, <1>7, <1>8, <1>9 DEF GradingInv

\* The judge reads coding answers only, after the finalization.
LEMMA JudgeTakeKeeps ==
  ASSUME TypeOK, GradingInv, NEW j \in Judges, NEW r \in 0 .. MaxRetries, JudgeTake(j, r)
  PROVE  GradingInv'
  <1> j \in Procs /\ j \notin Finalizers
    BY ProcsAssumption DEF Procs
  <1>1. /\ UNCHANGED <<status, total, complete, scored, ver>>
        /\ \A p \in Procs \ {j} : pc'[p] = pc[p] /\ snap'[p] = snap[p]
        /\ snap'[j] = CodingRows
        /\ tot' = [tot EXCEPT ![j] = scored]
    BY DEF JudgeTake, TypeOK, db
  <1>2. status # "in_progress"
    BY DEF JudgeTake, GradingInv, TypeOK
  <1>3. \A f \in Finalizers : /\ pc'[f] = pc[f] /\ snap'[f] = snap[f]
                              /\ tot'[f] = tot[f]
    BY <1>1 DEF Procs, TypeOK
  <1>4. OneHolder'
    BY <1>3 DEF GradingInv, OneHolder, Holds
  <1>5. TotalsInFlight'
    BY <1>1, <1>3 DEF GradingInv, TotalsInFlight, InTx
  <1>6. \A q \in Objective : CodingRows[q] = 0
    BY QuestionsAssumption DEF CodingRows, Questions
  <1>7. \A k \in Judges : pc'[k] = "judging" => \A q \in Objective : snap'[k][q] = 0
    BY <1>1, <1>6 DEF GradingInv, Procs
  <1> QED
    BY <1>1, <1>2, <1>4, <1>5, <1>7 DEF GradingInv, TotalMatchesRows

\* The judge commits when no finalizer is between grading and commit.
LEMMA JudgeCommitKeeps ==
  ASSUME TypeOK, GradingInv, NEW j \in Judges, JudgeCommit(j)
  PROVE  GradingInv'
  <1> j \in Procs /\ j \notin Finalizers
    BY ProcsAssumption DEF Procs
  <1>1. /\ UNCHANGED <<status, ver, queued, tot>> /\ total' = scored'
        /\ \A p \in Procs \ {j} : pc'[p] = pc[p] /\ snap'[p] = snap[p]
        /\ pc'[j] = "idle"
    BY DEF JudgeCommit, Idle, TypeOK, redis
  <1>2. status # "in_progress"
    BY DEF JudgeCommit, GradingInv
  <1>3. \A f \in Finalizers : ~Holds(f) /\ pc'[f] = pc[f]
    BY <1>1 DEF JudgeCommit, AttemptLocked, Procs
  <1>4. OneHolder' /\ TotalsInFlight'
    BY <1>3 DEF OneHolder, TotalsInFlight, Holds
  <1>5. \A q \in Objective : scored'[q] = scored[q]
    BY DEF JudgeCommit, GradingInv, Questions
  <1>6. \A k \in Judges : pc'[k] = "judging" => \A q \in Objective : snap'[k][q] = 0
    BY <1>1 DEF GradingInv, Procs
  <1> QED
    BY <1>1, <1>2, <1>4, <1>5, <1>6 DEF GradingInv, TotalMatchesRows

LEMMA InitGrading == Init => GradingInv
  <1> SUFFICES ASSUME Init PROVE GradingInv
    OBVIOUS
  <1>1. \A p \in Procs : pc[p] = "idle"
    BY DEF Init
  <1>2. /\ \A f \in Finalizers : ~Holds(f) /\ pc[f] = "idle"
        /\ \A j \in Judges : pc[j] = "idle"
    BY <1>1 DEF Holds, InTx, Procs
  <1>3. \A q \in Objective : scored[q] = 0
    BY DEF Init, Nothing, Questions
  <1> QED
    BY <1>2, <1>3
    DEF Init, GradingInv, OneHolder, TotalsInFlight, TotalMatchesRows, Holds

LEMMA NextGrading ==
  ASSUME Blank = {}
  PROVE  TypeOK /\ GradingInv /\ [Next]_vars => GradingInv'
  <1> SUFFICES ASSUME TypeOK, GradingInv, [Next]_vars PROVE GradingInv'
    OBVIOUS
  <1>1. ASSUME NEW s \in Savers, SaveStep(s) PROVE GradingInv'
    BY <1>1, SaveQuiet, QuietStep
  <1>2. ASSUME NEW w \in Flushers, FlushStep(w) PROVE GradingInv'
    BY <1>2, FlushQuiet, QuietStep
  <1>3. ASSUME NEW f \in Finalizers, SubmitCheck(f) \/ SweepCheck(f) \/ FinishStep(f)
        PROVE  GradingInv'
    BY <1>3, FinishQuiet, QuietStep, SweepCheckKeeps, GradeKeeps, CommitKeeps
    DEF FinishStep
  <1>4. ASSUME NEW j \in Judges, JudgeStep(j) PROVE GradingInv'
    BY <1>4, JudgeTakeKeeps, JudgeCommitKeeps, EnvironmentQuiet, QuietStep DEF JudgeStep
  <1>5. CASE RedisFail \/ RedisRecover \/ Tick \/ (\E p \in Procs : Crash(p))
               \/ (\E j \in Judges : JudgeCrash(j))
    BY <1>5, EnvironmentQuiet, QuietStep
  <1>6. CASE UNCHANGED vars
    BY <1>6, QuietStep DEF Quiet, Holds, vars, db, redis, local
  <1> QED
    BY <1>1, <1>2, <1>3, <1>4, <1>5, <1>6 DEF Next

\* An attempt whose students change answers but do not clear them has, from its
\* finalization on, the sum of its rows' scores as its total: with any number of
\* concurrent saves, submits, forced submits, sweeps, flushes and judges, and
\* through every crash and outage.
THEOREM TotalsMatch == ASSUME Blank = {} PROVE Spec => []TotalMatchesRows
  <1>1. GradingInv => TotalMatchesRows
    BY DEF GradingInv
  <1> QED
    BY <1>1, InitType, NextType, InitGrading, NextGrading, PTL DEF Spec

\* Why: the row lock keeps the scores that a finalizer added up until it commits, and
\* nobody grades coding before the finalization.
THEOREM GradingKept == ASSUME Blank = {} PROVE Spec => []GradingInv
  BY InitType, NextType, InitGrading, NextGrading, PTL DEF Spec

-----------------------------------------------------------------------------
\* The refinement of AttemptResult.

\* The record of a result changes by a commit only, and a commit finalizes.
LEMMA RecordMoves ==
  ASSUME TypeOK, GradingInv, Next
  PROVE  \/ UNCHANGED <<status, complete, scored, total>>
         \/ status' # "in_progress" /\ (complete => complete')
  <1>1. ASSUME NEW s \in Savers, SaveStep(s)
        PROVE  UNCHANGED <<status, complete, scored, total>>
    BY <1>1, SaveQuiet DEF Quiet
  <1>2. ASSUME NEW w \in Flushers, FlushStep(w)
        PROVE  UNCHANGED <<status, complete, scored, total>>
    BY <1>2, FlushQuiet DEF Quiet
  <1>3. ASSUME NEW f \in Finalizers, SubmitCheck(f) \/ SweepCheck(f) \/ FinishStep(f)
        PROVE  \/ UNCHANGED <<status, complete, scored, total>>
               \/ status' # "in_progress" /\ (complete => complete')
    <2>1. CASE Commit(f)
      BY <2>1 DEF Commit, ClosedStatus, Completes
    <2>2. CASE SweepCheck(f) \/ GradeObjective(f)
      BY <2>2 DEF SweepCheck, GradeObjective, db
    <2> QED
      BY <1>3, <2>1, <2>2, FinishQuiet DEF FinishStep, Quiet
  <1>4. ASSUME NEW j \in Judges, JudgeStep(j)
        PROVE  \/ UNCHANGED <<status, complete, scored, total>>
               \/ status' # "in_progress" /\ (complete => complete')
    BY <1>4 DEF JudgeStep, JudgeTake, JudgeRetry, JudgeCommit, GradingInv, db
  <1>5. CASE RedisFail \/ RedisRecover \/ Tick \/ (\E p \in Procs : Crash(p))
               \/ (\E j \in Judges : JudgeCrash(j))
    BY <1>5, EnvironmentQuiet DEF Quiet
  <1> QED
    BY <1>1, <1>2, <1>3, <1>4, <1>5 DEF Next

\* Every step of the system is a step of AttemptResult, or none.
LEMMA ResultStep ==
  ASSUME TypeOK, GradingInv, TypeOK', GradingInv', [Next]_vars
  PROVE  [Result!Next]_(Result!vars)
  <1>1. \/ UNCHANGED <<status, complete, scored, total>>
        \/ status' # "in_progress" /\ (complete => complete')
    BY RecordMoves DEF vars, db
  <1>2. CASE UNCHANGED <<status, complete, scored, total>>
    BY <1>2 DEF Result!vars, Phase
  <1>3. CASE status' # "in_progress" /\ (complete => complete')
    <2>1. scored' \in [Questions -> Versions] /\ total' = scored'
      BY <1>3 DEF TypeOK, Answers, GradingInv, TotalMatchesRows
    <2>2. CASE status = "in_progress"
      BY <1>3, <2>1, <2>2 DEF Result!Next, Result!Finalize, Result!Publish, Phase
    <2>3. CASE status # "in_progress"
      BY <1>3, <2>1, <2>3 DEF Result!Next, Result!Rescore, Result!Publish, Phase
    <2> QED
      BY <2>2, <2>3
  <1> QED
    BY <1>1, <1>2, <1>3

\* Under the same assumption the attempt keeps all that AttemptResult promises: it
\* is not reopened, a complete grading stays complete, and scores and total change
\* together.
THEOREM ResultKept == ASSUME Blank = {} PROVE Spec => KeepsResult
  <1>1. Init => Result!Init
    BY DEF Init, Result!Init, Phase, Nothing
  <1>2. TypeOK /\ GradingInv /\ TypeOK' /\ GradingInv' /\ [Next]_vars
          => [Result!Next]_(Result!vars)
    BY ResultStep
  <1> QED
    BY <1>1, <1>2, InitType, NextType, InitGrading, NextGrading, PTL
    DEF Spec, KeepsResult, Result!Spec

-----------------------------------------------------------------------------
\* The write-behind buffer, when nothing fails and one flush runs at a time.

\* A step that leaves the answers and the flushers alone.
LEMMA FlushSame ==
  ASSUME FlushInv, UNCHANGED <<redisUp, buf, dirty, ver>>, Unfinished' => Unfinished,
         \A w \in Flushers : pc'[w] = pc[w] /\ snap'[w] = snap[w]
  PROVE  FlushInv'
  BY DEF FlushInv, UnflushedIsDirty

LEMMA SaveFlushes ==
  ASSUME TypeOK, FlushInv, NEW s \in Savers, SaveStep(s)
  PROVE  FlushInv'
  <1>1. /\ UNCHANGED <<redisUp, status>>
        /\ \A p \in Procs \ {s} : pc'[p] = pc[p] /\ snap'[p] = snap[p]
    BY DEF SaveStep, SaveAnswers, SaveBuffered, SaveDirect, RunCode, RunBuffered, Idle,
           env, db, TypeOK
  <1>2. /\ Unfinished' => Unfinished
        /\ \A w \in Flushers : pc'[w] = pc[w] /\ snap'[w] = snap[w]
    BY <1>1, ProcsAssumption DEF Unfinished, Procs
  <1>3. redisUp
    BY DEF FlushInv
  <1>4. UNCHANGED <<buf, dirty, ver>> \/ dirty'
    BY <1>3 DEF SaveStep, SaveAnswers, SaveBuffered, SaveDirect, RunCode, RunBuffered,
                db, redis
  <1> QED
    BY <1>1, <1>2, <1>3, <1>4, FlushSame DEF FlushInv, UnflushedIsDirty

\* The flush that read the buffer before a newer save leaves the newer mark alone.
LEMMA FlushFlushes ==
  ASSUME TypeOK, FlushInv, NEW w \in Flushers, \A v \in Flushers : v = w, FlushStep(w)
  PROVE  FlushInv'
  <1> w \in Procs
    BY DEF Procs
  <1>1. /\ redisUp' /\ redisUp /\ UNCHANGED <<status, buf>>
        /\ \A p \in Procs \ {w} : pc'[p] = pc[p]
    BY DEF FlushStep, FlushPop, FlushRead, FlushWrite, FlushFail, FlushInv, Idle, env, db,
           redis, TypeOK
  <1>2. Unfinished' => Unfinished
    BY <1>1, ProcsAssumption DEF Unfinished, Procs
  <1>3. CASE FlushPop(w)
    BY <1>1, <1>3 DEF FlushPop, FlushInv, UnflushedIsDirty, db, TypeOK
  <1>4. CASE FlushRead(w)
    <2>1. /\ UNCHANGED <<ver, dirty>> /\ snap'[w] = buf /\ pc[w] = "popped"
          /\ pc'[w] = IF buf = Nothing THEN "idle" ELSE "flush"
      BY <1>4 DEF FlushRead, db, redis, TypeOK
    <2>2. buf = Nothing => \A q \in Questions : buf[q] = 0
      BY DEF Nothing
    <2> QED
      BY <1>1, <2>1, <2>2 DEF FlushInv, UnflushedIsDirty
  <1>5. CASE FlushWrite(w)
    <2>1. /\ pc[w] = "flush" /\ pc'[w] = "idle" /\ UNCHANGED dirty
          /\ \A q \in Questions : ver'[q] = IF snap[w][q] # 0 THEN snap[w][q] ELSE ver[q]
      BY <1>5 DEF FlushWrite, Idle, Overlay, redis, TypeOK
    <2>2. ASSUME Unfinished', NEW q \in Questions, buf[q] # 0, buf[q] # ver'[q]
          PROVE  dirty
      <3>1. CASE snap[w][q] = 0
        BY <1>2, <2>1, <2>2, <3>1 DEF FlushInv, UnflushedIsDirty
      <3>2. CASE snap[w][q] # 0
        BY <1>2, <2>1, <2>2, <3>2 DEF FlushInv
      <3> QED
        BY <3>1, <3>2
    <2> QED
      BY <1>1, <2>1, <2>2 DEF FlushInv, UnflushedIsDirty
  <1> QED
    BY <1>1, <1>3, <1>4, <1>5 DEF FlushStep, FlushFail

\* A finalizer empties the buffer before it removes the mark.
LEMMA FinishFlushes ==
  ASSUME TypeOK, FlushInv, NEW f \in Finalizers,
         SubmitCheck(f) \/ SweepCheck(f) \/ FinishStep(f)
  PROVE  FlushInv'
  <1> f \in Procs
    BY DEF Procs
  <1>1. redisUp /\ redisUp'
    BY DEF SubmitCheck, SweepCheck, FinishStep, ReadBuffer, GradeObjective, DeleteBuffer,
           RemoveDirty, Commit, Dispatch, SweepFail, FlushInv, env
  <1>2. /\ \A p \in Procs \ {f} : pc'[p] = pc[p] /\ snap'[p] = snap[p]
        /\ \A w \in Flushers : pc'[w] = pc[w] /\ snap'[w] = snap[w]
    BY ProcsAssumption
    DEF SubmitCheck, SweepCheck, FinishStep, ReadBuffer, GradeObjective, DeleteBuffer,
        RemoveDirty, Commit, Dispatch, SweepFail, Idle, TypeOK, Procs
  <1>3. CASE RemoveDirty(f)
    BY <1>1, <1>3 DEF RemoveDirty, Unfinished, FlushInv, UnflushedIsDirty, TypeOK
  <1>4. CASE Commit(f)
    BY <1>1, <1>4 DEF Commit, ClosedStatus, Unfinished, FlushInv, UnflushedIsDirty
  <1>5. ASSUME UNCHANGED status, pc[f] # "cleared"
        PROVE  Unfinished' => Unfinished
    BY <1>2, <1>5 DEF Unfinished, Procs
  <1>6. CASE DeleteBuffer(f)
    <2>1. /\ pc[f] # "cleared" /\ UNCHANGED <<status, ver, dirty>> /\ buf' = Nothing
      BY <1>1, <1>6 DEF DeleteBuffer, db
    <2>2. \A q \in Questions : buf'[q] = 0
      BY <2>1 DEF Nothing
    <2> QED
      BY <1>1, <2>2 DEF FlushInv, UnflushedIsDirty
  <1>7. CASE SubmitCheck(f) \/ SweepCheck(f) \/ ReadBuffer(f) \/ GradeObjective(f)
               \/ Dispatch(f)
    <2>1. /\ pc[f] # "cleared" /\ UNCHANGED <<status, ver, buf, dirty>>
      BY <1>7 DEF SubmitCheck, SweepCheck, ReadBuffer, GradeObjective, Dispatch, db, redis
    <2> QED
      BY <1>1, <1>2, <1>5, <2>1, FlushSame
  <1> QED
    BY <1>1, <1>3, <1>4, <1>6, <1>7 DEF FinishStep, SweepFail

LEMMA JudgeFlushes ==
  ASSUME TypeOK, FlushInv, NEW j \in Judges, JudgeStep(j)
  PROVE  FlushInv'
  <1>1. /\ UNCHANGED <<status, redisUp, buf, dirty, ver>>
        /\ \A p \in Procs \ {j} : pc'[p] = pc[p] /\ snap'[p] = snap[p]
    BY DEF JudgeStep, JudgeTake, JudgeRetry, JudgeCommit, Idle, db, redis, env, local, TypeOK
  <1> QED
    BY <1>1, ProcsAssumption, FlushSame DEF Unfinished, Procs

LEMMA NextFlush ==
  ASSUME Faults = {}, \A v, w \in Flushers : v = w
  PROVE  TypeOK /\ FlushInv /\ [Next]_vars => FlushInv'
  <1> SUFFICES ASSUME TypeOK, FlushInv, [Next]_vars PROVE FlushInv'
    OBVIOUS
  <1>1. ASSUME NEW w \in Flushers, FlushStep(w) PROVE FlushInv'
    BY <1>1, FlushFlushes
  <1>2. CASE Tick \/ UNCHANGED vars
    BY <1>2, FlushSame
    DEF Tick, vars, db, redis, env, local, Unfinished
  <1>3. ~RedisFail /\ ~RedisRecover /\ (\A p \in Procs : ~Crash(p))
          /\ (\A j \in Judges : ~JudgeCrash(j))
    BY DEF RedisFail, RedisRecover, Crash, JudgeCrash, Fault, FlushInv
  <1> QED
    BY <1>1, <1>2, <1>3, SaveFlushes, FinishFlushes, JudgeFlushes DEF Next

\* As long as Redis and the processes stay up and one flush runs at a time, an answer that
\* is newer than the one a flush carries has marked the attempt dirty again.
THEOREM NewerIsMarked ==
  ASSUME Faults = {}, \A v, w \in Flushers : v = w
  PROVE  Spec => []FlushInv
  <1>1. Init => FlushInv
    BY DEF Init, FlushInv, UnflushedIsDirty, Nothing, Procs
  <1> QED
    BY <1>1, InitType, NextType, NextFlush, PTL DEF Spec

\* As long as Redis and the processes stay up and one flush runs at a time, no
\* buffered answer of a running exam is stuck outside its row: it is marked dirty,
\* or the flush under way still carries it.  For any number of savers, finalizers
\* and judges.
THEOREM NothingStuck ==
  ASSUME Faults = {}, \A v, w \in Flushers : v = w
  PROVE  Spec => []UnflushedIsDirty
  <1>1. FlushInv => UnflushedIsDirty
    BY DEF FlushInv
  <1> QED
    BY <1>1, NewerIsMarked, PTL

-----------------------------------------------------------------------------
\* The judge's queue, when nothing fails, nobody is forced to submit and no answer is cleared.

\* A grading that is pending has a coding answer to grade, from the moment it is found to be.
QueueInv ==
    /\ redisUp
    /\ \A f \in Finalizers : pc[f] \in InTx /\ pend[f] =>
          \E q \in Coding : ver[q] # 0 \/ snap[f][q] # 0
    /\ status # "in_progress" /\ ~complete => \E q \in Coding : ver[q] # 0
    /\ PendingIsQueued

\* A step that leaves results and the queue alone, and clears no answer.
LEMMA QueueSame ==
  ASSUME QueueInv, UNCHANGED <<redisUp, status, complete, queued, pend>>,
         \A q \in Questions : ver[q] # 0 => ver'[q] # 0,
         \A j \in Judges : pc[j] = "judging" => pc'[j] = "judging",
         \A f \in Finalizers : /\ pc[f] = "dispatch" => pc'[f] = "dispatch"
                               /\ pc'[f] \in InTx => pc[f] \in InTx /\ snap'[f] = snap[f]
  PROVE  QueueInv'
  <1>1. Coding \subseteq Questions
    BY DEF Questions
  <1> QED
    BY <1>1 DEF QueueInv, PendingIsQueued

LEMMA SaveQueues ==
  ASSUME TypeOK, QueueInv, NEW s \in Savers, SaveStep(s)
  PROVE  QueueInv'
  <1>1. /\ UNCHANGED <<redisUp, status, complete, queued, pend, ver>>
        /\ \A p \in Procs \ {s} : pc'[p] = pc[p] /\ snap'[p] = snap[p]
    BY DEF SaveStep, SaveAnswers, SaveBuffered, SaveDirect, RunCode, RunBuffered, Idle,
           env, db, redis, TypeOK, QueueInv
  <1>2. \A p \in Finalizers \cup Judges : p \in Procs \ {s}
    BY ProcsAssumption DEF Procs
  <1> QED
    BY <1>1, <1>2, QueueSame

LEMMA FlushQueues ==
  ASSUME TypeOK, QueueInv, NEW w \in Flushers, FlushStep(w)
  PROVE  QueueInv'
  <1>1. /\ UNCHANGED <<redisUp, status, complete, queued, pend>>
        /\ \A p \in Procs \ {w} : pc'[p] = pc[p] /\ snap'[p] = snap[p]
    BY DEF FlushStep, FlushPop, FlushRead, FlushWrite, FlushFail, Idle, env, db, redis, TypeOK
  <1>2. \A p \in Finalizers \cup Judges : p \in Procs \ {w}
    BY ProcsAssumption DEF Procs
  <1>3. ver' = ver \/ ver' = Overlay(ver, snap[w])
    BY DEF FlushStep, FlushPop, FlushRead, FlushWrite, FlushFail, db
  <1>4. \A q \in Questions : ver[q] # 0 => ver'[q] # 0
    BY <1>3, OverlayGrows DEF TypeOK, Procs
  <1> QED
    BY <1>1, <1>2, <1>4, QueueSame

LEMMA FinishQueues ==
  ASSUME TypeOK, QueueInv, Forces = {}, Blank = {}, NEW f \in Finalizers,
         SubmitCheck(f) \/ SweepCheck(f) \/ FinishStep(f)
  PROVE  QueueInv'
  <1> f \in Procs /\ f \notin Judges
    BY ProcsAssumption DEF Procs
  <1>0. redisUp /\ redisUp' /\ ~SweepFail(f)
    BY DEF SubmitCheck, SweepCheck, FinishStep, ReadBuffer, GradeObjective, DeleteBuffer,
           RemoveDirty, Commit, Dispatch, SweepFail, QueueInv, env
  <1>1. /\ \A p \in Procs \ {f} : pc'[p] = pc[p] /\ snap'[p] = snap[p]
        /\ \A j \in Judges : pc'[j] = pc[j]
    BY <1>0 DEF SubmitCheck, SweepCheck, FinishStep, ReadBuffer, GradeObjective, DeleteBuffer,
           RemoveDirty, Commit, Dispatch, TypeOK, Procs
  <1>2. \A g \in Finalizers : g = f \/ (pc'[g] = pc[g] /\ snap'[g] = snap[g])
    BY <1>1 DEF Procs
  <1>3. CASE SubmitCheck(f) \/ SweepCheck(f) \/ ReadBuffer(f)
    <2>1. /\ UNCHANGED <<redisUp, status, complete, queued, pend, ver>>
          /\ pc[f] # "dispatch" /\ pc'[f] \notin InTx
      BY <1>3 DEF SubmitCheck, SweepCheck, ReadBuffer, db, redis, env, TypeOK, InTx
    <2> QED
      BY <1>1, <1>2, <2>1, QueueSame
  <1>4. CASE DeleteBuffer(f) \/ RemoveDirty(f)
    <2>1. /\ UNCHANGED <<redisUp, status, complete, queued, pend, ver, snap>>
          /\ pc[f] # "dispatch" /\ pc[f] \in InTx
      BY <1>4 DEF DeleteBuffer, RemoveDirty, db, redis, env, TypeOK, InTx
    <2> QED
      BY <1>1, <1>2, <2>1, QueueSame
  <1>5. CASE GradeObjective(f)
    <2>1. /\ UNCHANGED <<status, complete, queued, ver, snap>> /\ pc'[f] = "graded" /\ pc[f] = "read"
          /\ pend'[f] = \E q \in Coding : /\ scored[q] = 0 /\ Answered(Overlay(ver, snap[f])[q])
                                          /\ Overlay(ver, snap[f])[q] \notin Empty
          /\ \A g \in Finalizers \ {f} : pend'[g] = pend[g]
      BY <1>5 DEF GradeObjective, db, redis, TypeOK
    <2>2. pend'[f] => \E q \in Coding : ver[q] # 0 \/ snap[f][q] # 0
      BY <2>1 DEF Answered, Overlay, Questions
    <2>3. PendingIsQueued'
      BY <1>1, <1>2, <2>1 DEF QueueInv, PendingIsQueued
    <2>4. \A g \in Finalizers : pc'[g] \in InTx /\ pend'[g] => \E q \in Coding : ver[q] # 0 \/ snap[g][q] # 0
      BY <1>2, <2>1, <2>2 DEF QueueInv
    <2> QED
      BY <1>0, <2>1, <2>3, <2>4 DEF QueueInv
  <1>6. CASE Commit(f)
    <2>1. /\ UNCHANGED <<queued, pend>> /\ pc[f] \in InTx /\ pc'[f] = IF pend[f] THEN "dispatch" ELSE "idle"
          /\ ver' = Overlay(ver, snap[f]) /\ complete' = Completes(f)
      BY <1>6 DEF Commit, redis, TypeOK, InTx
    <2>2. \A q \in Questions : ver[q] # 0 \/ snap[f][q] # 0 => ver'[q] # 0
      BY <2>1, OverlayGrows DEF TypeOK
    <2>3. ~complete' => pend[f] /\ pc'[f] = "dispatch"
      BY <2>1 DEF Completes
    <2>4. ~complete' => \E q \in Coding : ver'[q] # 0
      BY <2>1, <2>2, <2>3 DEF QueueInv, Questions
    <2>5. \A g \in Finalizers : pc'[g] \in InTx /\ pend[g] => \E q \in Coding : ver'[q] # 0 \/ snap'[g][q] # 0
      BY <1>2, <2>1, <2>2 DEF QueueInv, InTx, Questions
    <2> QED
      BY <1>0, <2>1, <2>3, <2>4, <2>5 DEF QueueInv, PendingIsQueued
  <1>7. CASE Dispatch(f)
    <2>1. /\ UNCHANGED <<status, complete, ver, pend, snap>> /\ pc'[f] = "idle"
          /\ queued' = [queued EXCEPT ![0] = @ + 1]
      BY <1>0, <1>7 DEF Dispatch, db, TypeOK
    <2>2. 0 \in 0 .. MaxRetries /\ queued'[0] > 0
      BY <2>1, BoundsAssumption DEF TypeOK
    <2>3. PendingIsQueued'
      BY <2>2 DEF PendingIsQueued
    <2>4. \A g \in Finalizers : pc'[g] \in InTx => pc[g] \in InTx
      BY <1>2, <2>1 DEF InTx
    <2> QED
      BY <1>0, <2>1, <2>3, <2>4 DEF QueueInv
  <1> QED
    BY <1>0, <1>3, <1>4, <1>5, <1>6, <1>7 DEF FinishStep

LEMMA JudgeQueues ==
  ASSUME TypeOK, QueueInv, Blank = {}, NEW j \in Judges, JudgeStep(j)
  PROVE  QueueInv'
  <1> j \in Procs /\ j \notin Finalizers
    BY ProcsAssumption DEF Procs
  <1>1. /\ UNCHANGED <<redisUp, status, ver, pend>>
        /\ \A p \in Procs \ {j} : pc'[p] = pc[p] /\ snap'[p] = snap[p]
    BY DEF JudgeStep, JudgeTake, JudgeRetry, JudgeCommit, Idle, db, redis, env, local, TypeOK
  <1>2. \A f \in Finalizers : pc'[f] = pc[f] /\ snap'[f] = snap[f]
    BY <1>1 DEF Procs
  <1>3. CASE \E r \in 0 .. MaxRetries : JudgeTake(j, r)
    <2>1. pc'[j] = "judging" /\ complete' = complete
      BY <1>3 DEF JudgeTake, db, TypeOK
    <2>2. PendingIsQueued'
      BY <2>1 DEF PendingIsQueued
    <2> QED
      BY <1>1, <1>2, <2>1, <2>2 DEF QueueInv
  <1>4. CASE \E r \in 0 .. MaxRetries : JudgeRetry(j, r)
    <2>1. CodingRows = Nothing /\ complete' = complete
      BY <1>4 DEF JudgeRetry, db
    <2>2. \A q \in Coding : ver[q] = 0
      BY <2>1 DEF CodingRows, Nothing, Answered, Questions
    <2>3. ~(status # "in_progress" /\ ~complete)
      BY <2>2 DEF QueueInv
    <2> QED
      BY <1>1, <1>2, <2>1, <2>3 DEF QueueInv, PendingIsQueued
  <1>5. CASE JudgeCommit(j)
    <2>1. complete'
      BY <1>5 DEF JudgeCommit
    <2> QED
      BY <1>1, <1>2, <2>1 DEF QueueInv, PendingIsQueued
  <1> QED
    BY <1>3, <1>4, <1>5 DEF JudgeStep

LEMMA NextQueue ==
  ASSUME Faults = {}, Forces = {}, Blank = {}
  PROVE  TypeOK /\ QueueInv /\ [Next]_vars => QueueInv'
  <1> SUFFICES ASSUME TypeOK, QueueInv, [Next]_vars PROVE QueueInv'
    OBVIOUS
  <1>1. CASE Tick \/ UNCHANGED vars
    BY <1>1, QueueSame DEF Tick, vars, db, redis, env, local
  <1>2. ~RedisFail /\ ~RedisRecover /\ (\A p \in Procs : ~Crash(p))
          /\ (\A j \in Judges : ~JudgeCrash(j))
    BY DEF RedisFail, RedisRecover, Crash, JudgeCrash, Fault, QueueInv
  <1> QED
    BY <1>1, <1>2, SaveQueues, FlushQueues, FinishQueues, JudgeQueues DEF Next

\* No pending grading is forgotten: as long as nothing fails, no invigilator submits and no
\* answer is cleared, a finalized attempt with ungraded code has its message in the queue, a
\* judge at work or a request about to send it; no judge gives it up for want of rows.
THEOREM NoneForgotten ==
  ASSUME Faults = {}, Forces = {}, Blank = {}
  PROVE  Spec => []PendingIsQueued
  <1>1. Init => QueueInv
    <2> SUFFICES ASSUME Init PROVE QueueInv
      OBVIOUS
    <2>1. \A f \in Finalizers : pc[f] \notin InTx
      BY DEF Init, Procs, InTx
    <2> QED
      BY <2>1 DEF Init, QueueInv, PendingIsQueued
  <1>2. QueueInv => PendingIsQueued
    BY DEF QueueInv
  <1> QED
    BY <1>1, <1>2, InitType, NextType, NextQueue, PTL DEF Spec

-----------------------------------------------------------------------------
\* What a student who comes back sees, when nothing fails and saves come one by one.

\* The one save under way carries the newest version; the buffer never falls behind what
\* was acknowledged until a finalizer deletes it.
ResumeInv ==
    /\ redisUp
    /\ \A q \in Questions : acked[q] <= issued
    /\ \A s \in Savers : pc[s] \in {"save", "run"} => \A q \in Questions : snap[s][q] \in {0, issued}
    /\ status = "in_progress" /\ (\A f \in Finalizers : pc[f] \notin {"deleted", "cleared"})
          => \A q \in Questions : acked[q] <= buf[q]

\* A step that saves nothing.
LEMMA ResumeSame ==
  ASSUME ResumeInv, UNCHANGED <<redisUp, issued, acked, status>>,
         \A s \in Savers : pc'[s] = pc[s] /\ snap'[s] = snap[s],
         buf' = buf \/ \E f \in Finalizers : pc'[f] \in {"deleted", "cleared"},
         \A f \in Finalizers : pc[f] \in {"deleted", "cleared"} => pc'[f] \in {"deleted", "cleared"}
  PROVE  ResumeInv'
  BY DEF ResumeInv

LEMMA SaveResumes ==
  ASSUME TypeOK, ResumeInv, \A s, t \in Savers : s = t, NEW s \in Savers, SaveStep(s)
  PROVE  ResumeInv'
  <1> s \in Procs
    BY DEF Procs
  <1>1. /\ UNCHANGED <<redisUp, status>> /\ redisUp
        /\ \A p \in Procs \ {s} : pc'[p] = pc[p]
    BY DEF SaveStep, SaveAnswers, SaveBuffered, SaveDirect, RunCode, RunBuffered, Idle,
           env, db, TypeOK, ResumeInv
  <1>2. \A f \in Finalizers : pc'[f] = pc[f]
    BY <1>1, ProcsAssumption DEF Procs
  <1>3. issued \in Nat /\ \A q \in Questions : acked[q] \in Nat /\ buf[q] \in Nat
    BY BoundsAssumption DEF TypeOK, Versions, Answers
  <1>4. CASE (\E qs \in SUBSET Questions \ {{}} : SaveAnswers(s, qs)) \/ (\E q \in Coding : RunCode(s, q))
    <2>1. issued' = issued + 1 /\ UNCHANGED <<buf, acked>>
      BY <1>4 DEF SaveAnswers, RunCode, redis
    <2>2. \A q \in Questions : snap'[s][q] \in {0, issued + 1}
      <3>1. CASE \E qs \in SUBSET Questions \ {{}} : SaveAnswers(s, qs)
        BY <3>1 DEF SaveAnswers, TypeOK
      <3>2. CASE \E q \in Coding : RunCode(s, q)
        <4>1. PICK q \in Coding : RunCode(s, q)
          BY <3>2
        <4>2. snap'[s] = [Nothing EXCEPT ![q] = issued + 1]
          BY <4>1 DEF RunCode, TypeOK
        <4> QED
          BY <4>2 DEF Nothing
      <3> QED
        BY <1>4, <3>1, <3>2
    <2> QED
      BY <1>1, <1>2, <1>3, <2>1, <2>2 DEF ResumeInv
  <1>5. CASE SaveBuffered(s)
    <2>1. /\ pc'[s] = "idle" /\ issued' = issued /\ pc[s] = "save"
          /\ buf' = Overlay(buf, snap[s]) /\ acked' = Overlay(acked, snap[s])
      BY <1>5 DEF SaveBuffered, Idle, TypeOK
    <2>2. \A q \in Questions : snap[s][q] \in {0, issued}
      BY <2>1 DEF ResumeInv
    <2> QED
      BY <1>1, <1>2, <1>3, <2>1, <2>2 DEF ResumeInv, Overlay
  <1>6. CASE RunBuffered(s)
    <2>1. /\ pc'[s] = "idle" /\ UNCHANGED <<issued, acked>> /\ pc[s] = "run"
          /\ buf' = Overlay(buf, snap[s])
      BY <1>1, <1>6 DEF RunBuffered, Idle, TypeOK, history
    <2>2. \A q \in Questions : snap[s][q] \in {0, issued}
      BY <2>1 DEF ResumeInv
    <2> QED
      BY <1>1, <1>2, <1>3, <2>1, <2>2 DEF ResumeInv, Overlay
  <1> QED
    BY <1>1, <1>4, <1>5, <1>6 DEF SaveStep, SaveDirect

LEMMA FinishResumes ==
  ASSUME TypeOK, ResumeInv, NEW f \in Finalizers,
         SubmitCheck(f) \/ SweepCheck(f) \/ FinishStep(f)
  PROVE  ResumeInv'
  <1> f \in Procs
    BY DEF Procs
  <1>1. /\ redisUp /\ redisUp' /\ ~SweepFail(f) /\ UNCHANGED <<issued, acked>>
        /\ \A p \in Procs \ {f} : pc'[p] = pc[p] /\ snap'[p] = snap[p]
    BY DEF SubmitCheck, SweepCheck, FinishStep, ReadBuffer, GradeObjective, DeleteBuffer,
           RemoveDirty, Commit, Dispatch, SweepFail, ResumeInv, env, history, TypeOK
  <1>2. /\ \A s \in Savers : pc'[s] = pc[s] /\ snap'[s] = snap[s]
        /\ \A g \in Finalizers : g = f \/ pc'[g] = pc[g]
    BY <1>1, ProcsAssumption DEF Procs
  <1>3. CASE Commit(f)
    <2>1. status' # "in_progress"
      BY <1>3 DEF Commit, ClosedStatus
    <2> QED
      BY <1>1, <1>2, <2>1 DEF ResumeInv
  <1>4. CASE DeleteBuffer(f) \/ RemoveDirty(f)
    <2>1. status' = status /\ pc'[f] \in {"deleted", "cleared"}
      BY <1>4 DEF DeleteBuffer, RemoveDirty, db, TypeOK
    <2> QED
      BY <1>1, <1>2, <2>1, ResumeSame
  <1>5. CASE SubmitCheck(f) \/ SweepCheck(f) \/ ReadBuffer(f) \/ GradeObjective(f) \/ Dispatch(f)
    <2>1. status' = status /\ buf' = buf /\ pc[f] \notin {"deleted", "cleared"}
      BY <1>5 DEF SubmitCheck, SweepCheck, ReadBuffer, GradeObjective, Dispatch, db, redis
    <2> QED
      BY <1>1, <1>2, <2>1, ResumeSame
  <1> QED
    BY <1>1, <1>3, <1>4, <1>5 DEF FinishStep

LEMMA WorkerResumes ==
  ASSUME TypeOK, ResumeInv, NEW w \in Flushers \cup Judges,
         (w \in Flushers /\ FlushStep(w)) \/ (w \in Judges /\ JudgeStep(w))
  PROVE  ResumeInv'
  <1>1. /\ UNCHANGED <<redisUp, issued, acked, status, buf>>
        /\ \A p \in Procs \ {w} : pc'[p] = pc[p] /\ snap'[p] = snap[p]
    BY DEF FlushStep, FlushPop, FlushRead, FlushWrite, FlushFail, JudgeStep, JudgeTake, JudgeRetry,
           JudgeCommit, Idle, db, redis, env, local, history, TypeOK
  <1>2. \A p \in Savers \cup Finalizers : p \in Procs \ {w}
    BY ProcsAssumption DEF Procs
  <1> QED
    BY <1>1, <1>2, ResumeSame

LEMMA NextResume ==
  ASSUME Faults = {}, \A s, t \in Savers : s = t
  PROVE  TypeOK /\ ResumeInv /\ [Next]_vars => ResumeInv'
  <1> SUFFICES ASSUME TypeOK, ResumeInv, [Next]_vars PROVE ResumeInv'
    OBVIOUS
  <1>1. CASE Tick \/ UNCHANGED vars
    BY <1>1, ResumeSame DEF Tick, vars, db, redis, env, local, history
  <1>2. ~RedisFail /\ ~RedisRecover /\ (\A p \in Procs : ~Crash(p))
          /\ (\A j \in Judges : ~JudgeCrash(j))
    BY DEF RedisFail, RedisRecover, Crash, JudgeCrash, Fault, ResumeInv
  <1>3. ASSUME NEW s \in Savers, SaveStep(s) PROVE ResumeInv'
    BY <1>3, SaveResumes
  <1> QED
    BY <1>1, <1>2, <1>3, FinishResumes, WorkerResumes DEF Next

LEMMA InitResume == Init => ResumeInv
  <1> SUFFICES ASSUME Init PROVE ResumeInv
    OBVIOUS
  <1>1. \A s \in Savers : pc[s] = "idle"
    BY DEF Init, Procs
  <1> QED
    BY <1>1 DEF Init, ResumeInv, Nothing

\* A student whose saves come one by one and who reloads the page never sees an answer older
\* than one that was acknowledged, as long as nothing fails and no finalizer has begun to
\* delete the buffer (GET /state merges the buffer over the rows).
THEOREM ResumedInFull ==
  ASSUME Faults = {}, \A s, t \in Savers : s = t
  PROVE  Spec => []ResumeShowsAcked
  <1>1. TypeOK /\ ResumeInv => ResumeShowsAcked
    <2>1. TypeOK => \A q \in Questions : acked[q] \in Nat /\ ver[q] \in Nat /\ buf[q] \in Nat
      BY BoundsAssumption DEF TypeOK, Versions, Answers
    <2> QED
      BY <2>1 DEF ResumeInv, ResumeShowsAcked, Overlay
  <1> QED
    BY <1>1, InitResume, InitType, NextType, NextResume, PTL DEF Spec

-----------------------------------------------------------------------------
\* What a submit commits, when nothing fails, saves come one by one and one process at a
\* time finalizes.

\* What was acknowledged when the finalizer began is in what it has read, or is still in the
\* buffer for it to read.
SubmitInv ==
    /\ ResumeInv
    /\ \A f \in Finalizers : pc[f] \in {"checked", "read", "graded", "deleted", "cleared"} =>
          status = "in_progress"
    /\ \A f \in Finalizers, q \in Questions :
          /\ pc[f] = "checked" => due[f][q] <= acked[q]
          /\ pc[f] \in {"read", "graded", "deleted", "cleared"} => due[f][q] <= snap[f][q]

\* A step of another process, at most a save.
LEMMA SubmitSame ==
  ASSUME TypeOK, SubmitInv, ResumeInv', status' = status, due' = due,
         \A f \in Finalizers : pc'[f] = pc[f] /\ snap'[f] = snap[f],
         \A q \in Questions : acked'[q] \in Nat /\ acked[q] <= acked'[q]
  PROVE  SubmitInv'
  <1>1. \A f \in Finalizers, q \in Questions : due[f][q] \in Nat /\ acked[q] \in Nat
    BY BoundsAssumption DEF TypeOK, Answers, Versions
  <1>2. \A f \in Finalizers, q \in Questions : pc'[f] = "checked" => due'[f][q] <= acked'[q]
    BY <1>1 DEF SubmitInv
  <1> QED
    BY <1>2 DEF SubmitInv

LEMMA SaveSubmits ==
  ASSUME TypeOK, SubmitInv, \A s, t \in Savers : s = t, NEW s \in Savers, SaveStep(s)
  PROVE  SubmitInv'
  <1> s \in Procs
    BY DEF Procs
  <1>1. ResumeInv'
    BY SaveResumes DEF SubmitInv
  <1>2. /\ status' = status /\ due' = due /\ redisUp
        /\ \A p \in Procs \ {s} : pc'[p] = pc[p] /\ snap'[p] = snap[p]
    BY DEF SaveStep, SaveAnswers, SaveBuffered, SaveDirect, RunCode, RunBuffered, Idle,
           db, history, TypeOK, SubmitInv, ResumeInv
  <1>3. \A f \in Finalizers : pc'[f] = pc[f] /\ snap'[f] = snap[f]
    BY <1>2, ProcsAssumption DEF Procs
  <1>4. issued \in Nat /\ \A q \in Questions : acked[q] \in Nat /\ acked[q] <= issued
    BY BoundsAssumption DEF TypeOK, Versions, Answers, SubmitInv, ResumeInv
  <1>5. \A q \in Questions : acked'[q] \in Nat /\ acked[q] <= acked'[q]
    <2>1. CASE SaveBuffered(s)
      <3>1. /\ pc[s] = "save" /\ acked' = Overlay(acked, snap[s])
        BY <2>1 DEF SaveBuffered
      <3>2. \A q \in Questions : snap[s][q] \in {0, issued}
        BY <3>1 DEF SubmitInv, ResumeInv
      <3> QED
        BY <1>4, <3>1, <3>2 DEF Overlay
    <2>2. CASE acked' = acked
      BY <1>4, <2>2
    <2> QED
      BY <1>2, <2>1, <2>2 DEF SaveStep, SaveAnswers, SaveDirect, RunCode, RunBuffered, history
  <1> QED
    BY <1>1, <1>2, <1>3, <1>5, SubmitSame

LEMMA FinishSubmits ==
  ASSUME TypeOK, SubmitInv, NEW f \in Finalizers, \A g \in Finalizers : g = f,
         SubmitCheck(f) \/ SweepCheck(f) \/ FinishStep(f)
  PROVE  SubmitInv'
  <1> f \in Procs
    BY DEF Procs
  <1>1. ResumeInv' /\ redisUp /\ acked' = acked
    BY FinishResumes
    DEF SubmitInv, ResumeInv, SubmitCheck, SweepCheck, FinishStep, ReadBuffer, GradeObjective,
        DeleteBuffer, RemoveDirty, Commit, Dispatch, SweepFail, history
  <1>2. \A q \in Questions : acked[q] \in Nat /\ buf[q] \in Nat /\ due[f][q] \in Nat
    BY BoundsAssumption DEF TypeOK, Answers, Versions
  <1>3. CASE SubmitCheck(f) \/ SweepCheck(f)
    <2>1. /\ pc'[f] = "checked" /\ due'[f] = acked /\ status = "in_progress" /\ status' = status
      BY <1>3 DEF SubmitCheck, SweepCheck, db, TypeOK
    <2> QED
      BY <1>1, <1>2, <2>1 DEF SubmitInv
  <1>4. CASE ReadBuffer(f)
    <2>1. /\ pc[f] = "checked" /\ pc'[f] = "read" /\ snap'[f] = buf
          /\ due' = due /\ status' = status
      BY <1>1, <1>4 DEF ReadBuffer, db, history, TypeOK
    <2>2. status = "in_progress" /\ \A g \in Finalizers : pc[g] \notin {"deleted", "cleared"}
      BY <2>1 DEF SubmitInv
    <2>3. \A q \in Questions : acked[q] <= buf[q] /\ due[f][q] <= acked[q]
      BY <2>1, <2>2 DEF SubmitInv, ResumeInv
    <2>4. \A q \in Questions : due[f][q] <= buf[q]
      BY <1>2, <2>3
    <2> QED
      BY <1>1, <2>1, <2>2, <2>4 DEF SubmitInv
  <1>5. CASE GradeObjective(f) \/ DeleteBuffer(f) \/ RemoveDirty(f)
    <2>1. /\ pc[f] \in {"read", "graded", "deleted"} /\ pc'[f] \in {"graded", "deleted", "cleared"}
          /\ snap' = snap /\ due' = due /\ status' = status
      BY <1>1, <1>5 DEF GradeObjective, DeleteBuffer, RemoveDirty, db, history, TypeOK
    <2> QED
      BY <1>1, <2>1 DEF SubmitInv
  <1>6. CASE Commit(f) \/ Dispatch(f)
    <2>1. pc'[f] \in {"idle", "dispatch"}
      BY <1>6 DEF Commit, Dispatch, TypeOK
    <2> QED
      BY <1>1, <2>1 DEF SubmitInv
  <1> QED
    BY <1>1, <1>3, <1>4, <1>5, <1>6 DEF FinishStep, SweepFail

LEMMA WorkerSubmits ==
  ASSUME TypeOK, SubmitInv, NEW w \in Flushers \cup Judges,
         (w \in Flushers /\ FlushStep(w)) \/ (w \in Judges /\ JudgeStep(w))
  PROVE  SubmitInv'
  <1>1. ResumeInv'
    BY WorkerResumes DEF SubmitInv
  <1>2. /\ UNCHANGED <<acked, status, due>>
        /\ \A p \in Procs \ {w} : pc'[p] = pc[p] /\ snap'[p] = snap[p]
    BY DEF FlushStep, FlushPop, FlushRead, FlushWrite, FlushFail, JudgeStep, JudgeTake, JudgeRetry,
           JudgeCommit, Idle, db, local, history, TypeOK
  <1>3. \A f \in Finalizers : f \in Procs \ {w}
    BY ProcsAssumption DEF Procs
  <1>4. \A q \in Questions : acked[q] \in Nat
    BY BoundsAssumption DEF TypeOK, Answers, Versions
  <1> QED
    BY <1>1, <1>2, <1>3, <1>4, SubmitSame

LEMMA NextSubmit ==
  ASSUME Faults = {}, \A s, t \in Savers : s = t, \A f, g \in Finalizers : f = g
  PROVE  TypeOK /\ SubmitInv /\ [Next]_vars => SubmitInv'
  <1> SUFFICES ASSUME TypeOK, SubmitInv, [Next]_vars PROVE SubmitInv'
    OBVIOUS
  <1>1. CASE Tick \/ UNCHANGED vars
    <2>1. ResumeInv'
      BY NextResume DEF SubmitInv
    <2>2. UNCHANGED <<pc, snap, status, due, acked>>
      BY <1>1 DEF Tick, vars, db, local, history
    <2>3. \A q \in Questions : acked[q] \in Nat
      BY BoundsAssumption DEF TypeOK, Answers, Versions
    <2> QED
      BY <2>1, <2>2, <2>3, SubmitSame
  <1>2. ~RedisFail /\ ~RedisRecover /\ (\A p \in Procs : ~Crash(p))
          /\ (\A j \in Judges : ~JudgeCrash(j))
    BY DEF RedisFail, RedisRecover, Crash, JudgeCrash, Fault, SubmitInv, ResumeInv
  <1>3. ASSUME NEW s \in Savers, SaveStep(s) PROVE SubmitInv'
    BY <1>3, SaveSubmits
  <1> QED
    BY <1>1, <1>2, <1>3, FinishSubmits, WorkerSubmits DEF Next

\* "Flushes the answer buffer first so nothing in Redis is lost": a student's submit, or the
\* sweep, commits whatever had been acknowledged when it began, however the flush, the judge
\* and the saves that are still under way interleave with it.
THEOREM SubmitKeeps ==
  ASSUME Faults = {}, \A s, t \in Savers : s = t, \A f, g \in Finalizers : f = g
  PROVE  Spec => SubmitKeepsAcked
  <1>1. Init => SubmitInv
    <2> SUFFICES ASSUME Init PROVE SubmitInv
      OBVIOUS
    <2>1. \A p \in Savers \cup Finalizers : pc[p] = "idle"
      BY DEF Init, Procs
    <2> QED
      BY <2>1, InitResume DEF SubmitInv
  <1>2. TypeOK /\ SubmitInv /\ [Next]_vars =>
           [\A f \in Finalizers : Commit(f) => \A q \in Questions : ver'[q] >= due[f][q]]_vars
    <2> SUFFICES ASSUME TypeOK, SubmitInv, NEW f \in Finalizers, Commit(f), NEW q \in Questions
                 PROVE  ver'[q] >= due[f][q]
      OBVIOUS
    <2>1. pc[f] = "cleared" /\ ver' = Overlay(ver, snap[f])
      BY DEF Commit
    <2>2. due[f][q] \in Nat /\ snap[f][q] \in Nat /\ ver[q] \in Nat
      BY BoundsAssumption DEF TypeOK, Answers, Versions, Procs
    <2>3. due[f][q] <= snap[f][q]
      BY <2>1 DEF SubmitInv
    <2> QED
      BY <2>1, <2>2, <2>3 DEF Overlay
  <1> QED
    BY <1>1, <1>2, InitType, NextType, NextSubmit, PTL DEF Spec, SubmitKeepsAcked
=============================================================================
