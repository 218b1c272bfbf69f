--------------------------- MODULE CodeRun_proofs ---------------------------
(***************************************************************************)
(* Theorems about CodeRun, for every set of runs, workers, cases, editions *)
(* and outcomes, and any number of failures.                               *)
(***************************************************************************)
EXTENDS CodeRun, FiniteSetTheorems, TLAPS

-----------------------------------------------------------------------------
\* The cases that are chosen from a list.

\* Counting the chosen indexes up to each of them numbers them from 1 to their number.
LEMMA Places ==
  ASSUME NEW I, IsFiniteSet(I), I \subseteq Nat,
         NEW P, P = [i \in I |-> Cardinality({j \in I : j <= i})]
  PROVE  P \in Injection(I, 1 .. Cardinality(I)) \cap Surjection(I, 1 .. Cardinality(I))
  <1> DEFINE Upto(i) == {j \in I : j <= i}
             n       == Cardinality(I)
  <1>1. \A i \in I : Upto(i) \in SUBSET I /\ i \in Upto(i)
    OBVIOUS
  <1>2. n \in Nat
    BY FS_CardinalityType
  <1>3. \A i \in I : /\ IsFiniteSet(Upto(i)) /\ Cardinality(Upto(i)) \in 1 .. n
                     /\ Cardinality(Upto(i)) = P[i]
    <2> SUFFICES ASSUME NEW i \in I
                 PROVE  /\ IsFiniteSet(Upto(i)) /\ Cardinality(Upto(i)) \in 1 .. n
                        /\ Cardinality(Upto(i)) = P[i]
      OBVIOUS
    <2> DEFINE U == Upto(i)
    <2>1. U \in SUBSET I /\ U # {} /\ Cardinality(U) = P[i]
      BY <1>1
    <2> HIDE DEF U
    <2>2. IsFiniteSet(U) /\ Cardinality(U) <= n
      BY <2>1, FS_Subset
    <2>3. Cardinality(U) \in Nat /\ Cardinality(U) # 0
      BY <2>1, <2>2, FS_CardinalityType, FS_EmptySet
    <2>4. Cardinality(U) \in 1 .. n
      BY <1>2, <2>2, <2>3
    <2>5. U = Upto(i)
      BY DEF U
    <2> QED
      BY <2>1, <2>2, <2>4, <2>5
  <1>4. ASSUME NEW i \in I, NEW k \in I, i < k
        PROVE  Cardinality(Upto(i)) # Cardinality(Upto(k))
    <2> DEFINE U == Upto(i)
               V == Upto(k)
    <2>1. U \in SUBSET V /\ k \in V /\ k \notin U
      <3>1. i \in Nat /\ k \in Nat /\ i < k
        BY <1>4
      <3>2. \A x \in U : x \in Nat /\ x \in I /\ x <= i
        OBVIOUS
      <3>3. \A x \in U : x <= k
        BY <3>1, <3>2
      <3>4. \A x : x \in V <=> x \in I /\ x <= k
        OBVIOUS
      <3>5. k \in V
        BY <3>1, <3>4
      <3>6. k \notin U
        BY <3>1, <3>2
      <3> HIDE DEF U, V
      <3>7. U \subseteq V
        BY <3>2, <3>3, <3>4
      <3> QED
        BY <3>5, <3>6, <3>7
    <2>2. U = Upto(i) /\ V = Upto(k)
      OBVIOUS
    <2>a. IsFiniteSet(V)
      <3> HIDE DEF Upto
      <3> QED
        BY <1>3 DEF V
    <2> HIDE DEF U, V
    <2>3. Cardinality(U) # Cardinality(V)
      BY <2>1, <2>a, FS_Subset
    <2> QED
      BY <2>2, <2>3
  <1>5. P \in [I -> 1 .. n]
    BY <1>3
  <1>6. \A i, k \in I : P[i] = P[k] => i = k
    <2> SUFFICES ASSUME NEW i \in I, NEW k \in I, P[i] = P[k], i # k PROVE FALSE
      OBVIOUS
    <2>1. i < k \/ k < i
      OBVIOUS
    <2> HIDE DEF Upto
    <2> QED
      BY <1>3, <1>4, <2>1
  <1>7. P \in Injection(I, 1 .. n)
    BY <1>5, <1>6 DEF Injection, IsInjective
  <1>8. IsFiniteSet(1 .. n) /\ Cardinality(1 .. n) = n
    BY <1>2, FS_Interval
  <1>9. P \in Surjection(I, 1 .. n)
    <2> HIDE DEF n
    <2>1. n = Cardinality(I)
      BY DEF n
    <2> QED
      BY <1>7, <1>8, <2>1, FS_Injection
  <1> QED
    BY <1>7, <1>9

\* Choosing keeps what is in the set, each as often as it was.
LEMMA ChosenLaw ==
  ASSUME NEW S, NEW s \in Seq(S), NEW T
  PROVE  /\ Chosen(s, T) \in Seq(S \cap T)
         /\ Range(Chosen(s, T)) = Range(s) \cap T
         /\ IsInjective(s) => IsInjective(Chosen(s, T))
  <1> DEFINE I == {i \in DOMAIN s : s[i] \in T}
             P == [i \in I |-> Cardinality({j \in I : j <= i})]
             n == Cardinality(I)
             At(k) == CHOOSE i \in I : P[i] = k
             c == Chosen(s, T)
  <1>1. I \subseteq Nat /\ IsFiniteSet(I)
    <2>1. DOMAIN s = 1 .. Len(s) /\ Len(s) \in Nat
      OBVIOUS
    <2>2. PICK D : D = 1 .. Len(s)
      OBVIOUS
    <2>a. IsFiniteSet(D)
      BY <2>1, <2>2, FS_Interval
    <2>3. I \in SUBSET D /\ I \subseteq Nat
      BY <2>1, <2>2
    <2> HIDE DEF I
    <2> QED
      BY <2>a, <2>3, FS_Subset
  <1>2. P \in Injection(I, 1 .. n) \cap Surjection(I, 1 .. n) /\ n \in Nat
    <2>1. P = [i \in I |-> Cardinality({j \in I : j <= i})]
      OBVIOUS
    <2> HIDE DEF P, I
    <2> QED
      BY <1>1, <2>1, Places, FS_CardinalityType
  <1>3. \A k \in 1 .. n : \E i \in I : P[i] = k
    BY <1>2 DEF Surjection
  <1>4. \A i, k \in I : P[i] = P[k] => i = k
    <2> HIDE DEF P, I, n
    <2> QED
      BY <1>2 DEF Injection, IsInjective
  <1>5. \A i \in I : P[i] \in 1 .. n
    <2> HIDE DEF P, I, n
    <2> QED
      BY <1>2 DEF Injection
  <1>6. c = [k \in 1 .. n |-> s[At(k)]]
    BY DEF Chosen
  <1>7. \A i \in I : s[i] \in S \cap T /\ i \in DOMAIN s
    OBVIOUS
  <1>i. \A i : i \in I <=> i \in DOMAIN s /\ s[i] \in T
    OBVIOUS
  <1> HIDE DEF P, I, n, c
  <1>8. \A k \in 1 .. n : At(k) \in I /\ P[At(k)] = k
    BY <1>3
  <1>9. \A i \in I : At(P[i]) = i
    BY <1>4, <1>5, <1>8
  <1> HIDE DEF At
  <1>10. c \in Seq(S \cap T)
    BY <1>2, <1>6, <1>7, <1>8
  <1>11. Range(c) = Range(s) \cap T
    <2>1. ASSUME NEW x \in Range(c) PROVE x \in Range(s) \cap T
      BY <1>6, <1>7, <1>8 DEF Range
    <2>2. ASSUME NEW x \in Range(s) \cap T PROVE x \in Range(c)
      <3>1. PICK i \in I : s[i] = x
        BY <1>i DEF Range
      <3>2. P[i] \in DOMAIN c /\ c[P[i]] = x
        BY <1>5, <1>6, <1>9, <3>1
      <3> QED
        BY <3>2 DEF Range
    <2> QED
      BY <2>1, <2>2
  <1>12. ASSUME IsInjective(s) PROVE IsInjective(c)
    <2> SUFFICES ASSUME NEW k \in 1 .. n, NEW l \in 1 .. n, c[k] = c[l] PROVE k = l
      BY <1>6 DEF IsInjective
    <2>1. s[At(k)] = s[At(l)] /\ At(k) \in DOMAIN s /\ At(l) \in DOMAIN s
      BY <1>6, <1>7, <1>8
    <2>2. At(k) = At(l)
      BY <1>12, <2>1 DEF IsInjective
    <2> QED
      BY <1>8, <2>2
  <1> QED
    BY <1>10, <1>11, <1>12 DEF c

LEMMA CasesType ==
  ASSUME TypeOK
  PROVE  cases \in Seq(Sample \cup Hidden) /\ IsInjective(cases)
  BY CodeRunAssumption DEF TypeOK, cases

\* What is selected for an aim is what is asked by it: the student's input, or the samples
\* that it names, each once.
LEMMA SelectedLaw ==
  ASSUME TypeOK, NEW aim
  PROVE  /\ Selected(aim) \in Seq(Sample \cup {"custom"}) /\ IsInjective(Selected(aim))
         /\ aim \in Aims => Range(Selected(aim)) =
               IF aim = "samples" THEN {c \in Range(cases) : IsSample(c)} ELSE {aim}
  <1>1. CASE aim = "custom"
    <2>1. PICK s : s = <<"custom">>
      OBVIOUS
    <2>2. s \in Seq({"custom"}) /\ DOMAIN s = {1} /\ s[1] = "custom"
      BY <2>1
    <2>3. s \in Seq(Sample \cup {"custom"})
      BY <2>1
    <2>4. Range(s) = {"custom"} /\ IsInjective(s)
      BY <2>2 DEF Range, IsInjective
    <2>5. Selected(aim) = s /\ aim # "samples"
      BY <1>1, <2>1 DEF Selected
    <2> QED
      BY <1>1, <2>3, <2>4, <2>5
  <1>2. CASE aim # "custom"
    <2> DEFINE T == {c \in Range(cases) : IsSample(c) /\ aim \in {c, "samples"}}
    <2>1. Selected(aim) = Chosen(cases, T)
      BY <1>2 DEF Selected
    <2>2. /\ Chosen(cases, T) \in Seq((Sample \cup Hidden) \cap T)
          /\ Range(Chosen(cases, T)) = Range(cases) \cap T
          /\ IsInjective(Chosen(cases, T))
      <3> HIDE DEF T
      <3> QED
        BY CasesType, ChosenLaw
    <2>3. (Sample \cup Hidden) \cap T \subseteq Sample \cup {"custom"} /\ Range(cases) \cap T = T
      BY DEF IsSample
    <2>4. Selected(aim) \in Seq(Sample \cup {"custom"}) /\ IsInjective(Selected(aim))
          /\ Range(Selected(aim)) = T
      <3> HIDE DEF T
      <3> QED
        BY <2>1, <2>2, <2>3
    <2>5. aim = "samples" => T = {c \in Range(cases) : IsSample(c)}
      OBVIOUS
    <2>6. aim # "samples" /\ aim \in Aims => T = {aim}
      BY <1>2 DEF Aims
    <2> QED
      BY <2>4, <2>5, <2>6
  <1> QED
    BY <1>1, <1>2

-----------------------------------------------------------------------------
\* Type correctness.

TInv == TypeOK /\ RowInv

LEMMA JudgedType ==
  ASSUME NEW c, NEW o
  PROVE  Judged(c, o) \in Verdicts(c)
  <1>1. Verdict(o) \in {"ok", "tle", "mle", "runtime_error"}
    BY DEF Verdict
  <1>2. CASE Verdict(o) # "ok" \/ c = "custom"
    BY <1>1, <1>2 DEF Judged, Verdicts
  <1>3. CASE ~(Verdict(o) # "ok" \/ c = "custom")
    <2>1. Judged(c, o) \in {"accepted", "runtime_error", "wrong_answer"}
      BY <1>3 DEF Judged
    <2> QED
      BY <1>3, <2>1 DEF Verdicts
  <1> QED
    BY <1>2, <1>3

\* A task that goes on to another operation.
LEMMA TaskOp ==
  ASSUME NEW job \in Task, NEW op,
         op \in {"free", "taken", "locked", "running", "broken", "judged", "error", "refused"},
         NEW j, j = [job EXCEPT !.op = op]
  PROVE  /\ j \in Task /\ j.op = op /\ j.run = job.run /\ j.aim = job.aim
         /\ j.todo = job.todo /\ j.done = job.done /\ j.passed = job.passed
  BY DEF Task

LEMMA TaskStart ==
  ASSUME NEW op, NEW r \in Runs \cup {None}, NEW aim \in Targets \cup {None},
         op \in {"free", "taken", "locked", "running", "broken", "judged", "error", "refused"},
         NEW j, j = Job(op, r, aim)
  PROVE  /\ j \in Task /\ j.op = op /\ j.run = r /\ j.aim = aim
         /\ j.todo = <<>> /\ j.done = <<>> /\ j.passed = 0
  BY DEF Task, Job

LEMMA TaskFree == Free \in Task /\ Free.op = "free"
  BY TaskStart DEF Free

LEMMA TaskStage ==
  ASSUME NEW job \in Task, NEW s \in Seq(Sample \cup {"custom"}),
         NEW j, j = [job EXCEPT !.op = "running", !.todo = s]
  PROVE  /\ j \in Task /\ j.op = "running" /\ j.run = job.run /\ j.todo = s
         /\ j.done = job.done /\ j.passed = job.passed
  BY DEF Task

LEMMA TaskExecuted ==
  ASSUME NEW job \in Task, job.todo # <<>>, NEW c, c = Head(job.todo), NEW v \in Verdicts(c),
         NEW j, j = Executed(job, c, v)
  PROVE  /\ j \in Task /\ j.op = job.op /\ j.run = job.run /\ j.todo = Tail(job.todo)
         /\ c \in Sample \cup {"custom"} /\ Result(c, v) \in Judgement
         /\ j.done = Append(job.done, Result(c, v))
         /\ j.passed = job.passed + Gain(v, 1)
  <1>1. /\ job.todo \in Seq(Sample \cup {"custom"}) /\ job.done \in Seq(Judgement)
        /\ job.passed \in Nat /\ job.earned \in Nat
    BY DEF Task
  <1>2. c \in Sample \cup {"custom"} /\ Tail(job.todo) \in Seq(Sample \cup {"custom"})
    BY <1>1
  <1>3. Result(c, v) \in Judgement
    BY <1>2 DEF Result, Judgement, Verdicts
  <1>4. Append(job.done, Result(c, v)) \in Seq(Judgement)
    BY <1>1, <1>3
  <1>5. Gain(v, 1) \in Nat
    BY DEF Gain
  <1>6. Gain(v, Weight[c]) \in Nat
    <2>1. CASE c = "custom"
      BY <2>1 DEF Gain, Verdicts
    <2>2. CASE c \in Sample
      BY <2>2, CodeRunAssumption DEF Gain
    <2> QED
      BY <1>2, <2>1, <2>2
  <1> DEFINE t == Tail(job.todo)
             d == Append(job.done, Result(c, v))
             p == job.passed + Gain(v, 1)
             e == job.earned + Gain(v, Weight[c])
  <1>7. j = [job EXCEPT !.todo = t, !.done = d, !.passed = p, !.earned = e]
    BY DEF Executed
  <1>8. t \in Seq(Sample \cup {"custom"}) /\ d \in Seq(Judgement) /\ p \in Nat /\ e \in Nat
    BY <1>1, <1>2, <1>4, <1>5, <1>6
  <1>9. t = Tail(job.todo) /\ d = Append(job.done, Result(c, v)) /\ p = job.passed + Gain(v, 1)
    OBVIOUS
  <1> HIDE DEF t, d, p, e
  <1>10. /\ j \in Task /\ j.op = job.op /\ j.run = job.run
         /\ j.todo = t /\ j.done = d /\ j.passed = p
    BY <1>7, <1>8 DEF Task
  <1> QED
    BY <1>2, <1>3, <1>9, <1>10

\* What a worker turns to is its own affair.
LEMMA Change ==
  ASSUME TypeOK, NEW w \in Workers, NEW j, Becomes(w, j)
  PROVE  /\ work'[w] = j
         /\ \A v \in Workers \ {w} : work'[v] = work[v]
         /\ work' = [v \in Workers |-> work'[v]]
  BY DEF TypeOK, Becomes

LEMMA Working ==
  ASSUME TInv, NEW w \in Workers
  PROVE  /\ work[w] \in Task
         /\ work[w].op # "free" => work[w].run \in Runs /\ run[work[w].run] # None
         /\ work[w].op # "free" => run[work[w].run] \in RunRow
  BY DEF TInv, TypeOK, RowInv

LEMMA FaultType ==
  ASSUME TypeOK, NEW kind, Fault(kind)
  PROVE  faults' \in 0 .. MaxFaults
  BY CodeRunAssumption DEF Fault, TypeOK

\* A worker that turns to a job on the run it has, or on one that is queued.
LEMMA WorkerType ==
  ASSUME TInv, NEW w \in Workers, NEW j \in Task, Becomes(w, j), run' = run, edition' = edition,
         sending' = sending, asked' = asked, edited' = edited, queue' \in [Runs -> Nat],
         \A r \in Runs : queue'[r] > 0 => run[r] # None,
         faults' \in 0 .. MaxFaults,
         containers' \subseteq Runs, lost' \subseteq Runs, leaked' \subseteq Runs,
         j.op # "free" => j.run \in Runs /\ run[j.run] # None
  PROVE  TInv'
  <1>1. /\ work'[w] = j
        /\ \A v \in Workers \ {w} : work'[v] = work[v]
        /\ work' = [v \in Workers |-> work'[v]]
    BY Change DEF TInv
  <1>2. \A v \in Workers : work'[v] \in Task
    <2> SUFFICES ASSUME NEW v \in Workers PROVE work'[v] \in Task
      OBVIOUS
    <2>1. CASE v = w
      BY <1>1, <2>1
    <2>2. CASE v # w
      BY <1>1, <2>2, Working
    <2> QED
      BY <2>1, <2>2
  <1>3. work' \in [Workers -> Task]
    BY <1>1, <1>2
  <1>4. TypeOK'
    BY <1>3 DEF TInv, TypeOK
  <1>5. \A r \in Runs : r \in sending' \/ queue'[r] > 0 => run'[r] # None
    BY DEF TInv, RowInv
  <1>6. \A v \in Workers : work'[v].op # "free" => work'[v].run \in Runs /\ run'[work'[v].run] # None
    <2> SUFFICES ASSUME NEW v \in Workers, work'[v].op # "free"
                 PROVE  work'[v].run \in Runs /\ run'[work'[v].run] # None
      OBVIOUS
    <2>1. CASE v = w
      BY <1>1, <2>1
    <2>2. CASE v # w
      BY <1>1, <2>2 DEF TInv, RowInv
    <2> QED
      BY <2>1, <2>2
  <1> QED
    BY <1>4, <1>5, <1>6 DEF TInv, RowInv

LEMMA DisposeTurns ==
  ASSUME TInv, NEW w \in Workers, Dispose(w)
  PROVE  \E j \in Task :
            /\ Becomes(w, j) /\ j.run = work[w].run /\ j.todo = work[w].todo
            /\ j.done = work[w].done /\ j.passed = work[w].passed
            /\ \/ j.op = "judged" /\ work[w].op = "running" /\ work[w].todo = <<>>
               \/ j.op = "error" /\ work[w].op = "broken"
  <1>0. work[w] \in Task
    BY Working
  <1>1. ASSUME NEW op \in {"judged", "error"}, Becomes(w, [work[w] EXCEPT !.op = op]),
               \/ op = "judged" /\ work[w].op = "running" /\ work[w].todo = <<>>
               \/ op = "error" /\ work[w].op = "broken"
        PROVE  \E j \in Task :
                  /\ Becomes(w, j) /\ j.run = work[w].run /\ j.todo = work[w].todo
                  /\ j.done = work[w].done /\ j.passed = work[w].passed
                  /\ \/ j.op = "judged" /\ work[w].op = "running" /\ work[w].todo = <<>>
                     \/ j.op = "error" /\ work[w].op = "broken"
    <2>1. PICK j : j = [work[w] EXCEPT !.op = op]
      OBVIOUS
    <2>2. /\ j \in Task /\ j.op = op /\ j.run = work[w].run
          /\ j.todo = work[w].todo /\ j.done = work[w].done /\ j.passed = work[w].passed
      BY <1>0, <2>1, TaskOp
    <2> QED
      BY <1>1, <2>1, <2>2
  <1>2. CASE work[w].op = "running"
    <2>1. Becomes(w, [work[w] EXCEPT !.op = "judged"]) /\ work[w].todo = <<>>
      BY <1>0, <1>2 DEF Dispose, Task
    <2> QED
      BY <1>1, <1>2, <2>1
  <1>3. CASE work[w].op # "running"
    <2>1. Becomes(w, [work[w] EXCEPT !.op = "error"]) /\ work[w].op = "broken"
      BY <1>0, <1>3 DEF Dispose, Task
    <2> QED
      BY <1>1, <2>1
  <1> QED
    BY <1>2, <1>3

LEMMA ExecuteTurns ==
  ASSUME TInv, NEW w \in Workers, Execute(w)
  PROVE  \E c \in Sample \cup {"custom"}, v \in Verdicts("custom") \cup Verdicts("samples"), j \in Task :
            /\ v \in Verdicts(c)
            /\ Becomes(w, j) /\ j.run = work[w].run /\ work[w].op = "running" /\ j.op = "running"
            /\ work[w].todo # <<>> /\ c = Head(work[w].todo) /\ j.todo = Tail(work[w].todo)
            /\ Result(c, v) \in Judgement /\ j.done = Append(work[w].done, Result(c, v))
            /\ j.passed = work[w].passed + Gain(v, 1)
  <1>1. work[w].op = "running" /\ work[w].todo # <<>>
    BY DEF Execute
  <1>2. PICK c : c = Head(work[w].todo)
    OBVIOUS
  <1>3. PICK v \in Verdicts(c) : Becomes(w, Executed(work[w], c, v))
    BY <1>2, JudgedType DEF Execute
  <1>4. PICK j : j = Executed(work[w], c, v)
    OBVIOUS
  <1>5. PICK job \in Task : job = work[w]
    BY Working
  <1>6. /\ j \in Task /\ j.op = job.op /\ j.run = job.run /\ j.todo = Tail(job.todo)
        /\ c \in Sample \cup {"custom"} /\ Result(c, v) \in Judgement
        /\ j.done = Append(job.done, Result(c, v)) /\ j.passed = job.passed + Gain(v, 1)
    <2>1. job.todo # <<>> /\ c = Head(job.todo) /\ j = Executed(job, c, v)
      BY <1>1, <1>2, <1>4, <1>5
    <2> QED
      BY <2>1, TaskExecuted
  <1>7. v \in Verdicts("custom") \cup Verdicts("samples")
    BY DEF Verdicts
  <1> QED
    BY <1>1, <1>2, <1>3, <1>4, <1>5, <1>6, <1>7

\* What each step of a worker turns it to, as far as its run and its operation go.
LEMMA JudgeType ==
  ASSUME TInv, NEW w \in Workers,
         \/ \E r \in Runs : Take(w, r)
         \/ Lock(w) \/ Stage(w) \/ Refuse(w) \/ Execute(w) \/ Break(w) \/ Dispose(w)
         \/ TimeOut(w) \/ Killed(w) \/ Redeliver(w)
  PROVE  TInv'
  <1>0. /\ TypeOK /\ RowInv /\ work[w] \in Task /\ Free \in Task /\ Free.op = "free"
        /\ work[w].op # "free" => work[w].run \in Runs /\ run[work[w].run] # None
    BY Working, TaskFree DEF TInv
  <1>1. ASSUME NEW r \in Runs, Take(w, r)
        PROVE  TInv'
    <2> DEFINE j == Job("taken", r, run[r].aim)
    <2>1. /\ Becomes(w, j) /\ queue[r] > 0 /\ run[r] # None
          /\ queue' = [queue EXCEPT ![r] = @ - 1]
      BY <1>1, <1>0 DEF Take, RowInv
    <2>a. run[r].aim \in Targets
      BY <1>0, <2>1 DEF TypeOK, RunRow
    <2>b. j \in Task /\ j.run = r
      BY <2>a, TaskStart
    <2>2. queue' \in [Runs -> Nat] /\ \A x \in Runs : queue'[x] > 0 => queue[x] > 0
      BY <2>1, <1>0 DEF TypeOK
    <2>3. run' = run /\ edition' = edition /\ sending' = sending /\ faults' = faults
          /\ containers' = containers /\ lost' = lost /\ leaked' = leaked
          /\ asked' = asked /\ edited' = edited
      BY <1>1 DEF Take, history
    <2>4. /\ faults' \in 0 .. MaxFaults
          /\ containers' \subseteq Runs /\ lost' \subseteq Runs /\ leaked' \subseteq Runs
      BY <2>3, <1>0 DEF TypeOK
    <2>5. \A x \in Runs : queue'[x] > 0 => run[x] # None
      BY <1>0, <2>2 DEF RowInv
    <2> HIDE DEF j
    <2> QED
      BY <2>1, <2>2, <2>3, <2>4, <2>5, <2>b, WorkerType
  <1>2. ASSUME NEW j \in Task, Becomes(w, j), j.run = work[w].run, work[w].op # "free",
               run' = run, edition' = edition, sending' = sending, queue' = queue,
               asked' = asked, edited' = edited,
               faults' = faults \/ (\E kind : Fault(kind)),
               containers' \subseteq containers \cup {work[w].run}, lost' = lost,
               leaked' \subseteq leaked \cup {work[w].run}
        PROVE  TInv'
    <2>1. faults' \in 0 .. MaxFaults
      BY <1>0, <1>2, FaultType DEF TypeOK
    <2>2. containers' \subseteq Runs /\ lost' \subseteq Runs /\ leaked' \subseteq Runs
          /\ queue' \in [Runs -> Nat] /\ \A x \in Runs : queue'[x] > 0 => run[x] # None
      BY <1>0, <1>2 DEF TypeOK, RowInv
    <2> QED
      BY <1>0, <1>2, <2>1, <2>2, WorkerType
  <1>3. CASE Lock(w)
    <2>1. PICK j : j = [work[w] EXCEPT !.op = "locked"]
      OBVIOUS
    <2>2. /\ Becomes(w, j) /\ work[w].op # "free" /\ run' = run /\ edition' = edition
          /\ sending' = sending /\ queue' = queue /\ faults' = faults /\ asked' = asked
          /\ edited' = edited /\ containers' = containers /\ lost' = lost /\ leaked' = leaked
      BY <1>3, <2>1 DEF Lock, history
    <2>3. j \in Task /\ j.run = work[w].run
      BY <1>0, <2>1, TaskOp
    <2> QED
      BY <2>2, <2>3, <1>2
  <1>4. CASE Stage(w)
    <2>s. PICK s : s = Selected(work[w].aim)
      OBVIOUS
    <2>1. PICK j : j = [work[w] EXCEPT !.op = "running", !.todo = s]
      OBVIOUS
    <2>2. /\ Becomes(w, j) /\ work[w].op = "locked" /\ run' = run /\ edition' = edition
          /\ sending' = sending /\ queue' = queue /\ faults' = faults /\ asked' = asked
          /\ edited' = edited
          /\ containers' = containers \cup {work[w].run} /\ lost' = lost /\ leaked' = leaked
      BY <1>4, <2>s, <2>1 DEF Stage, history
    <2>3. s \in Seq(Sample \cup {"custom"})
      BY <1>0, <2>s, SelectedLaw
    <2>4. j \in Task /\ j.run = work[w].run
      <3>1. work[w] \in Task
        BY <1>0
      <3> QED
        BY <3>1, <2>1, <2>3 DEF Task
    <2> QED
      BY <2>2, <2>4, <1>2
  <1>5. CASE Refuse(w)
    <2>1. PICK op \in {"refused", "error"} : Becomes(w, [work[w] EXCEPT !.op = op])
      BY <1>5 DEF Refuse
    <2>2. PICK j : j = [work[w] EXCEPT !.op = op]
      OBVIOUS
    <2>3. /\ work[w].op # "free" /\ run' = run /\ edition' = edition
          /\ sending' = sending /\ queue' = queue /\ (faults' = faults \/ Fault("docker"))
          /\ asked' = asked /\ edited' = edited
          /\ containers' = containers /\ lost' = lost /\ leaked' = leaked
      BY <1>5 DEF Refuse, history
    <2>4. j \in Task /\ j.run = work[w].run
      BY <1>0, <2>2, TaskOp
    <2> QED
      BY <2>1, <2>2, <2>3, <2>4, <1>2
  <1>6. CASE Execute(w)
    <2>1. PICK j \in Task : Becomes(w, j) /\ j.run = work[w].run
      BY <1>6, ExecuteTurns
    <2>4. /\ work[w].op = "running" /\ work[w].todo # <<>> /\ run' = run /\ edition' = edition
          /\ sending' = sending /\ queue' = queue /\ faults' = faults /\ asked' = asked
          /\ edited' = edited /\ containers' = containers /\ lost' = lost /\ leaked' = leaked
      BY <1>6 DEF Execute, history
    <2> QED
      BY <2>1, <2>4, <1>2
  <1>7. CASE Break(w)
    <2>1. PICK j : j = Job("broken", work[w].run, work[w].aim)
      OBVIOUS
    <2>2. /\ Becomes(w, j) /\ work[w].op = "running" /\ run' = run /\ edition' = edition
          /\ sending' = sending /\ queue' = queue /\ (faults' = faults \/ Fault("docker"))
          /\ asked' = asked /\ edited' = edited
          /\ containers' = containers /\ lost' = lost /\ leaked' = leaked
      BY <1>7, <2>1 DEF Break, history
    <2>3. work[w].run \in Runs \cup {None} /\ work[w].aim \in Targets \cup {None}
      BY <1>0 DEF Task
    <2>4. j \in Task /\ j.run = work[w].run
      BY <2>1, <2>3, TaskStart
    <2> QED
      BY <2>2, <2>4, <1>2
  <1>8. CASE Dispose(w)
    <2>1. PICK j \in Task : Becomes(w, j) /\ j.run = work[w].run
      BY <1>8, DisposeTurns
    <2>3. /\ work[w].op # "free" /\ run' = run /\ edition' = edition
          /\ sending' = sending /\ queue' = queue /\ (faults' = faults \/ Fault("remove"))
          /\ asked' = asked /\ edited' = edited
          /\ containers' \subseteq containers /\ lost' = lost
          /\ leaked' \subseteq leaked \cup {work[w].run}
      BY <1>8 DEF Dispose
    <2> QED
      BY <2>1, <2>3, <1>2
  <1>9. CASE TimeOut(w) \/ Killed(w) \/ Redeliver(w)
    <2>1. work[w].op # "free" /\ work[w].run \in Runs /\ run[work[w].run] # None
      BY <1>0, <1>9 DEF TimeOut, Killed, Redeliver
    <2>2. /\ run' = run /\ edition' = edition /\ sending' = sending /\ asked' = asked
          /\ edited' = edited /\ \E kind : Fault(kind)
      BY <1>9 DEF TimeOut, Killed, Redeliver, history
    <2>3. queue' = queue \/ queue' = [queue EXCEPT ![work[w].run] = @ + 1]
      BY <1>9 DEF TimeOut, Killed, Redeliver
    <2>4. /\ containers' \subseteq containers
          /\ lost' \subseteq lost \cup {work[w].run} /\ leaked' \subseteq leaked \cup {work[w].run}
      BY <1>9 DEF TimeOut, Killed, Redeliver, Remains, history
    <2>5. Becomes(w, Free) \/ Becomes(w, work[w])
      <3>1. CASE TimeOut(w) \/ Killed(w)
        BY <3>1 DEF TimeOut, Killed
      <3>2. CASE Redeliver(w)
        <4>1. work' = work
          BY <3>2 DEF Redeliver
        <4>2. work' = [work EXCEPT ![w] = work[w]]
          BY <4>1, <1>0 DEF TypeOK
        <4> QED
          BY <4>2 DEF Becomes
      <3> QED
        BY <1>9, <3>1, <3>2
    <2>6. queue' \in [Runs -> Nat] /\ \A x \in Runs : queue'[x] > 0 => run[x] # None
      BY <1>0, <2>1, <2>3 DEF TypeOK, RowInv
    <2>7. faults' \in 0 .. MaxFaults
      BY <1>0, <2>2, FaultType
    <2>8. containers' \subseteq Runs /\ lost' \subseteq Runs /\ leaked' \subseteq Runs
      BY <1>0, <2>1, <2>4 DEF TypeOK
    <2>9. CASE Becomes(w, Free)
      BY <1>0, <2>2, <2>6, <2>7, <2>8, <2>9, WorkerType
    <2>10. CASE Becomes(w, work[w])
      BY <1>0, <2>1, <2>2, <2>6, <2>7, <2>8, <2>10, WorkerType
    <2> QED
      BY <2>5, <2>9, <2>10
  <1> QED
    BY <1>1, <1>3, <1>4, <1>5, <1>6, <1>7, <1>8, <1>9

\* The rows that a step leaves: those of before, and what it writes to one of them.
LEMMA RowsKept ==
  ASSUME TInv, run' \in [Runs -> RunRow \cup {None}],
         \A r \in Runs : run[r] # None => run'[r] # None,
         edition' \in DOMAIN Editions, faults' \in 0 .. MaxFaults,
         asked' \in [Runs -> Targets \cup {None}], edited' \subseteq Runs,
         sending' \subseteq Runs, queue' \in [Runs -> Nat],
         lost' \subseteq Runs, containers' = containers, leaked' = leaked,
         \A r \in Runs : r \in sending' \/ queue'[r] > 0 => run'[r] # None,
         work' \in [Workers -> Task],
         \A w \in Workers : work'[w] = work[w] \/ work'[w] = Free
  PROVE  TInv'
  <1>0. Free.op = "free"
    BY TaskFree
  <1>1. TypeOK'
    BY DEF TInv, TypeOK
  <1>2. ASSUME NEW w \in Workers, work'[w].op # "free"
        PROVE  work'[w].run \in Runs /\ run'[work'[w].run] # None
    <2>1. work'[w] = work[w]
      BY <1>0, <1>2
    <2> QED
      BY <1>2, <2>1 DEF TInv, RowInv
  <1> QED
    BY <1>1, <1>2 DEF TInv, RowInv

LEMMA RowType ==
  ASSUME NEW aim \in Targets
  PROVE  /\ Row(aim) \in RunRow /\ Row(aim) # None /\ Row(aim).aim = aim
         /\ Row(aim).status = "queued" /\ Row(aim).results = <<>>
  <1>1. Row(aim) \in RunRow
    BY DEF Row, RunRow
  <1>2. Row(aim).aim = aim /\ Row(aim).status = "queued" /\ Row(aim).results = <<>>
    BY DEF Row
  <1> QED
    BY <1>1, <1>2, NoneAssumption

LEMMA RequestType ==
  ASSUME TInv, NEW r \in Runs,
         \/ \E aim \in Sample \cup {"custom", "samples"} : RunCode(r, aim)
         \/ Send(r) \/ SendFails(r)
  PROVE  TInv'
  <1>0. TypeOK /\ RowInv
    BY DEF TInv
  <1>1. ASSUME NEW aim \in Targets, RunCode(r, aim)
        PROVE  TInv'
    <2>1. /\ run' = [run EXCEPT ![r] = Row(aim)] /\ asked' = [asked EXCEPT ![r] = aim]
          /\ sending' = sending \cup {r} /\ edition' = edition /\ queue' = queue /\ work' = work
          /\ containers' = containers /\ faults' = faults /\ lost' = lost /\ leaked' = leaked
          /\ edited' = edited
      BY <1>1 DEF RunCode
    <2>2. /\ run' \in [Runs -> RunRow \cup {None}] /\ run'[r] # None
          /\ \A x \in Runs \ {r} : run'[x] = run[x]
      BY <1>0, <2>1, RowType DEF TypeOK
    <2>3. asked' \in [Runs -> Targets \cup {None}]
      BY <1>0, <2>1 DEF TypeOK
    <2>4. \A x \in Runs : x \in sending' \/ queue'[x] > 0 => run'[x] # None
      BY <1>0, <2>1, <2>2 DEF RowInv
    <2> QED
      BY <1>0, <2>1, <2>2, <2>3, <2>4, RowsKept DEF TypeOK
  <1>2. CASE Send(r) \/ SendFails(r)
    <2>1. /\ r \in sending /\ run' = run /\ edition' = edition /\ work' = work
          /\ sending' = sending \ {r} /\ containers' = containers /\ leaked' = leaked
          /\ lost' \subseteq lost \cup {r} /\ asked' = asked /\ edited' = edited
      BY <1>2 DEF Send, SendFails, history
    <2>2. queue' = queue \/ queue' = [queue EXCEPT ![r] = @ + 1]
      BY <1>2 DEF Send, SendFails
    <2>3. faults' \in 0 .. MaxFaults
      BY <1>0, <1>2, FaultType DEF Send, SendFails, TypeOK
    <2>4. queue' \in [Runs -> Nat] /\ \A x \in Runs : queue'[x] > 0 => queue[x] > 0 \/ x = r
      BY <1>0, <2>2 DEF TypeOK
    <2>5. \A x \in Runs : x \in sending' \/ queue'[x] > 0 => run'[x] # None
      BY <1>0, <2>1, <2>4 DEF RowInv
    <2> QED
      BY <1>0, <2>1, <2>3, <2>4, <2>5, RowsKept DEF TypeOK
  <1> QED
    BY <1>1, <1>2 DEF Targets

LEMMA Untargeted ==
  ASSUME NEW row \in RunRow, NEW new, new = [row EXCEPT !.aim = "samples"]
  PROVE  /\ new \in RunRow /\ new # None /\ new.status = row.status
         /\ new.results = row.results /\ new.passed = row.passed
  BY NoneAssumption DEF RunRow, Targets

LEMMA UpdateType ==
  ASSUME TInv, UpdateCases
  PROVE  TInv'
  <1>0. TypeOK /\ RowInv
    BY DEF TInv
  <1>1. /\ edition' = edition + 1 /\ edition < Len(Editions)
        /\ sending' = sending /\ queue' = queue /\ work' = work
        /\ containers' = containers /\ faults' = faults /\ lost' = lost /\ leaked' = leaked
        /\ asked' = asked /\ edited' \subseteq Runs \cup edited
        /\ run' = [r \in Runs |-> IF run[r] # None /\ run[r].aim \in Sample
                                  THEN [run[r] EXCEPT !.aim = "samples"] ELSE run[r]]
    BY DEF UpdateCases
  <1>2. ASSUME NEW r \in Runs
        PROVE  /\ run'[r] \in RunRow \cup {None}
               /\ run[r] # None => run'[r] # None
    <2>1. run[r] \in RunRow \cup {None}
      BY <1>0 DEF TypeOK
    <2>2. CASE run[r] # None /\ run[r].aim \in Sample
      <3>1. run'[r] = [run[r] EXCEPT !.aim = "samples"] /\ run[r] \in RunRow
        BY <1>1, <2>1, <2>2
      <3> QED
        BY <3>1, Untargeted
    <2>3. CASE ~(run[r] # None /\ run[r].aim \in Sample)
      BY <1>1, <2>1, <2>3
    <2> QED
      BY <2>2, <2>3
  <1>3. run' \in [Runs -> RunRow \cup {None}]
    BY <1>1, <1>2
  <1>4. edition' \in DOMAIN Editions
    BY <1>0, <1>1, CodeRunAssumption DEF TypeOK
  <1>5. \A r \in Runs : r \in sending' \/ queue'[r] > 0 => run'[r] # None
    BY <1>0, <1>1, <1>2 DEF RowInv
  <1> QED
    BY <1>0, <1>1, <1>2, <1>3, <1>4, <1>5, RowsKept DEF TypeOK

\* A report on what a task has found.
LEMMA Reported ==
  ASSUME NEW row \in RunRow, NEW job \in Task, NEW new, new = Report(job, row)
  PROVE  /\ new \in RunRow /\ new # None /\ new.aim = row.aim
         /\ job.op = "refused" => /\ new.status = "error"
                                  /\ new.results = row.results /\ new.passed = row.passed
         /\ job.op # "refused" => /\ new.status = IF job.op = "error" THEN "error" ELSE "done"
                                  /\ new.results = job.done /\ new.passed = job.passed
  <1>1. CASE job.op = "refused"
    <2>1. new = [row EXCEPT !.status = "error"]
      BY <1>1 DEF Report
    <2>2. new \in RunRow
      BY <2>1 DEF RunRow
    <2> QED
      BY <1>1, <2>1, <2>2, NoneAssumption DEF RunRow
  <1>2. CASE job.op # "refused"
    <2>1. PICK s : s = IF job.op = "error" THEN "error" ELSE "done"
      OBVIOUS
    <2>2. PICK d, p, e : d = job.done /\ p = job.passed /\ e = job.earned
      OBVIOUS
    <2>3. new = [row EXCEPT !.status = s, !.results = d, !.passed = p, !.earned = e]
      BY <1>2, <2>1, <2>2 DEF Report
    <2>4. s \in {"done", "error"} /\ d \in Seq(Judgement) /\ p \in Nat /\ e \in Nat
      BY <2>1, <2>2 DEF Task
    <2>5. new \in RunRow /\ new.aim = row.aim /\ new.status = s /\ new.results = d /\ new.passed = p
      BY <2>3, <2>4 DEF RunRow
    <2> QED
      BY <1>2, <2>1, <2>2, <2>5, NoneAssumption
  <1> QED
    BY <1>1, <1>2

LEMMA FinishType ==
  ASSUME TInv, NEW w \in Workers, Finish(w)
  PROVE  TInv'
  <1>f. PICK f \in Runs : f = work[w].run
    BY DEF TInv, RowInv, Finish
  <1>0. TypeOK /\ RowInv /\ run[f] \in RunRow /\ work[w] \in Task
    BY <1>f, Working DEF TInv, Finish
  <1>1. /\ run' = [run EXCEPT ![f] = Report(work[w], run[f])] /\ Becomes(w, Free)
        /\ sending' = sending /\ queue' = queue /\ edition' = edition
        /\ containers' = containers /\ faults' = faults /\ lost' = lost /\ leaked' = leaked
        /\ asked' = asked /\ edited' = edited
    BY <1>f DEF Finish, history
  <1>2. Report(work[w], run[f]) \in RunRow /\ Report(work[w], run[f]) # None
    BY <1>0, Reported
  <1>3. /\ run' \in [Runs -> RunRow \cup {None}] /\ run'[f] # None
        /\ \A r \in Runs \ {f} : run'[r] = run[r]
    BY <1>0, <1>1, <1>2 DEF TypeOK
  <1>5. /\ \A v \in Workers : work'[v] = work[v] \/ work'[v] = Free
        /\ work' = [v \in Workers |-> work'[v]]
    BY <1>0, <1>1, Change
  <1>6. work' \in [Workers -> Task]
    BY <1>0, <1>5, TaskFree DEF TypeOK
  <1>7. \A r \in Runs : r \in sending' \/ queue'[r] > 0 => run'[r] # None
    BY <1>0, <1>1, <1>3 DEF RowInv
  <1> QED
    BY <1>0, <1>1, <1>3, <1>5, <1>6, <1>7, RowsKept DEF TypeOK

LEMMA TypeInit == Init => TInv
  <1> SUFFICES ASSUME Init PROVE TInv
    OBVIOUS
  <1>1. edition \in DOMAIN Editions
    BY CodeRunAssumption DEF Init
  <1>2. work \in [Workers -> Task] /\ \A w \in Workers : work[w].op = "free"
    BY TaskFree DEF Init
  <1>3. faults \in 0 .. MaxFaults
    BY CodeRunAssumption DEF Init
  <1> QED
    BY <1>1, <1>2, <1>3 DEF Init, TInv, TypeOK, RowInv

LEMMA TypeNext == TInv /\ [Next]_vars => TInv'
  <1> SUFFICES ASSUME TInv, [Next]_vars PROVE TInv'
    OBVIOUS
  <1>1. CASE UNCHANGED vars
    BY <1>1 DEF vars, history, TInv, TypeOK, RowInv
  <1> QED
    BY <1>1, RequestType, UpdateType, JudgeType, FinishType DEF Next, Judge

\* Every state is well typed: a run that is queued, sent or worked on has its row, whatever
\* is delivered twice, replaced or killed (judge_runs).
THEOREM RunTyping == Spec => []TypeOK
  <1>1. TInv => TypeOK
    BY DEF TInv
  <1> QED
    BY TypeInit, TypeNext, <1>1, PTL DEF Spec

-----------------------------------------------------------------------------
\* Locks and containers.

IInv == TInv /\ LockInv /\ ContainersRemoved

\* A worker that frees itself, or goes on with the run that it holds, takes no lock.
LEMMA KeepsLocks ==
  ASSUME TypeOK, LockInv, NEW w \in Workers, NEW j, Becomes(w, j),
         j.op \in {"free", "taken"} \/ (Holding(w) /\ j.run = work[w].run)
  PROVE  LockInv'
  <1>1. /\ work'[w] = j
        /\ \A v \in Workers \ {w} : work'[v] = work[v]
    BY Change
  <1>2. \A v \in Workers : Holding(v)' => Holding(v) /\ work'[v].run = work[v].run
    BY <1>1 DEF Holding
  <1>3. ASSUME NEW u \in Workers, NEW v \in Workers,
               Holding(u)', Holding(v)', work'[u].run = work'[v].run
        PROVE  u = v
    BY <1>2, <1>3 DEF LockInv
  <1> QED
    BY <1>3 DEF LockInv, Holding

\* Taking the lock of a run: nobody else has it.
LEMMA LockStep ==
  ASSUME TInv, LockInv, NEW w \in Workers, Lock(w)
  PROVE  LockInv'
  <1>1. PICK j : j = [work[w] EXCEPT !.op = "locked"]
    OBVIOUS
  <1>2. /\ work'[w] = j
        /\ \A v \in Workers \ {w} : work'[v] = work[v]
    <2>1. Becomes(w, j)
      BY <1>1 DEF Lock
    <2> QED
      BY <2>1, Change DEF TInv
  <1>3. j.run = work[w].run
    BY <1>1, Working, TaskOp
  <1>4. \A v \in Workers : Holding(v) => work[v].run # work[w].run
    BY DEF Lock, Locked, Holding
  <1>5. ASSUME NEW u \in Workers, NEW v \in Workers,
               Holding(u)', Holding(v)', work'[u].run = work'[v].run
        PROVE  u = v
    <2>1. CASE u = w /\ v # w
      BY <1>2, <1>3, <1>4, <1>5, <2>1 DEF Holding
    <2>2. CASE v = w /\ u # w
      BY <1>2, <1>3, <1>4, <1>5, <2>2 DEF Holding
    <2>3. CASE v # w /\ u # w
      BY <1>2, <1>5, <2>3 DEF Holding, LockInv
    <2> QED
      BY <2>1, <2>2, <2>3
  <1> QED
    BY <1>5 DEF LockInv, Holding

\* Every other step of a worker keeps the lock it has or gives it up.
LEMMA WorkerLocks ==
  ASSUME TInv, LockInv, NEW w \in Workers, Judge(w) \/ TimeOut(w) \/ Killed(w) \/ Redeliver(w)
  PROVE  LockInv'
  <1>0. TypeOK /\ work[w] \in Task /\ Free.op = "free"
    BY Working, TaskFree DEF TInv
  <1>1. ASSUME NEW r \in Runs, Take(w, r)
        PROVE  LockInv'
    <2>1. PICK j : j = Job("taken", r, run[r].aim)
      OBVIOUS
    <2>2. j.op = "taken" /\ Becomes(w, j)
      BY <1>1, <2>1 DEF Job, Take
    <2> QED
      BY <1>0, <2>2, KeepsLocks
  <1>2. ASSUME NEW op, op \in {"judged", "error", "refused"}, Holding(w),
               Becomes(w, [work[w] EXCEPT !.op = op])
        PROVE  LockInv'
    <2>1. PICK j : j = [work[w] EXCEPT !.op = op]
      OBVIOUS
    <2>2. j.run = work[w].run
      BY <1>0, <1>2, <2>1, TaskOp
    <2> QED
      BY <1>0, <1>2, <2>1, <2>2, KeepsLocks
  <1>3. CASE Stage(w)
    <2>1. PICK j : j = [work[w] EXCEPT !.op = "running", !.todo = Selected(work[w].aim)]
      OBVIOUS
    <2>2. Becomes(w, j) /\ Holding(w)
      BY <1>3, <2>1 DEF Stage, Holding
    <2>3. j.run = work[w].run
      BY <1>0, <2>1 DEF Task
    <2> QED
      BY <1>0, <2>2, <2>3, KeepsLocks
  <1>4. CASE Refuse(w)
    BY <1>2, <1>4 DEF Refuse, Holding
  <1>5. CASE Execute(w)
    <2>1. PICK j \in Task : Becomes(w, j) /\ j.run = work[w].run
      BY <1>5, ExecuteTurns
    <2>2. Holding(w)
      BY <1>5 DEF Execute, Holding
    <2> QED
      BY <1>0, <2>1, <2>2, KeepsLocks
  <1>6. CASE Break(w)
    <2>1. PICK j : j = Job("broken", work[w].run, work[w].aim)
      OBVIOUS
    <2>2. Becomes(w, j) /\ Holding(w) /\ j.run = work[w].run
      BY <1>6, <2>1 DEF Break, Holding, Job
    <2> QED
      BY <1>0, <2>2, KeepsLocks
  <1>7. CASE Dispose(w)
    <2>1. PICK j \in Task : Becomes(w, j) /\ j.run = work[w].run
      BY <1>7, DisposeTurns
    <2>2. Holding(w)
      BY <1>7 DEF Dispose, Holding
    <2> QED
      BY <1>0, <2>1, <2>2, KeepsLocks
  <1>8. CASE Finish(w) \/ TimeOut(w) \/ Killed(w)
    <2>1. Becomes(w, Free)
      BY <1>8 DEF Finish, TimeOut, Killed
    <2> QED
      BY <1>0, <2>1, KeepsLocks
  <1>9. CASE Redeliver(w)
    BY <1>9 DEF Redeliver, LockInv, Holding
  <1> QED
    BY <1>1, LockStep, <1>3, <1>4, <1>5, <1>6, <1>7, <1>8, <1>9 DEF Judge

\* The run that a worker is executing is no other's, so what it stages or removes is its own.
LEMMA WorkerContainers ==
  ASSUME IInv, NEW w \in Workers, Judge(w) \/ TimeOut(w) \/ Killed(w) \/ Redeliver(w)
  PROVE  ContainersRemoved'
  <1> DEFINE Up(v) == work[v].op \in {"running", "broken"}
  <1>0. TInv /\ TypeOK /\ ContainersRemoved /\ work[w] \in Task /\ Free.op = "free"
    BY Working, TaskFree DEF IInv, TInv
  <1>a. ASSUME NEW r \in containers, work[w].run # r \/ ~Up(w),
               NEW j, Becomes(w, j)
        PROVE  \E v \in Workers : work'[v].run = r /\ work'[v].op \in {"running", "broken"}
    <2>1. PICK v \in Workers : work[v].run = r /\ Up(v)
      BY <1>0 DEF ContainersRemoved
    <2>2. v # w
      BY <1>a, <2>1
    <2>3. work'[v] = work[v]
      BY <1>0, <1>a, <2>2, Change
    <2> QED
      BY <2>1, <2>3
  <1>1. ASSUME NEW j, Becomes(w, j), ~Up(w), containers' \subseteq containers
        PROVE  ContainersRemoved'
    BY <1>1, <1>a DEF ContainersRemoved
  <1>2. ASSUME NEW j, Becomes(w, j), containers' \subseteq containers \ {work[w].run}
        PROVE  ContainersRemoved'
    BY <1>2, <1>a DEF ContainersRemoved
  <1>3. ASSUME NEW j, Becomes(w, j), j.run = work[w].run, j.op \in {"running", "broken"},
               containers' \subseteq containers \cup {work[w].run}
        PROVE  ContainersRemoved'
    <2>1. work'[w] = j
      BY <1>0, <1>3, Change
    <2>2. ASSUME NEW r \in containers' PROVE
          \E v \in Workers : work'[v].run = r /\ work'[v].op \in {"running", "broken"}
      <3>1. CASE r = work[w].run
        BY <1>3, <2>1, <3>1
      <3>2. CASE r # work[w].run
        BY <1>3, <1>a, <2>2, <3>2
      <3> QED
        BY <3>1, <3>2
    <2> QED
      BY <2>2 DEF ContainersRemoved
  <1>4. ASSUME NEW r \in Runs, Take(w, r)
        PROVE  ContainersRemoved'
    <2>1. Becomes(w, Job("taken", r, run[r].aim)) /\ ~Up(w) /\ containers' = containers
      BY <1>4, <1>0 DEF Take
    <2> QED
      BY <2>1, <1>1
  <1>5. CASE Lock(w)
    <2>1. Becomes(w, [work[w] EXCEPT !.op = "locked"]) /\ ~Up(w) /\ containers' = containers
      BY <1>5 DEF Lock
    <2> QED
      BY <2>1, <1>1
  <1>6. CASE Stage(w)
    <2>1. PICK j : j = [work[w] EXCEPT !.op = "running", !.todo = Selected(work[w].aim)]
      OBVIOUS
    <2>2. /\ Becomes(w, j) /\ containers' = containers \cup {work[w].run}
      BY <1>6, <2>1 DEF Stage
    <2>3. j.run = work[w].run /\ j.op = "running"
      BY <1>0, <2>1 DEF Task
    <2> QED
      BY <2>2, <2>3, <1>3
  <1>7. CASE Refuse(w)
    <2>1. PICK op \in {"refused", "error"} : Becomes(w, [work[w] EXCEPT !.op = op])
      BY <1>7 DEF Refuse
    <2>2. ~Up(w) /\ containers' = containers
      BY <1>7 DEF Refuse
    <2> QED
      BY <2>1, <2>2, <1>1
  <1>8. CASE Execute(w)
    <2>1. PICK j \in Task : Becomes(w, j) /\ j.run = work[w].run /\ j.op = "running"
      BY <1>0, <1>8, ExecuteTurns
    <2>2. containers' = containers
      BY <1>8 DEF Execute
    <2> QED
      BY <2>1, <2>2, <1>3
  <1>9. CASE Break(w)
    <2>1. PICK j : j = Job("broken", work[w].run, work[w].aim)
      OBVIOUS
    <2>2. /\ Becomes(w, j) /\ j.run = work[w].run /\ j.op = "broken" /\ containers' = containers
      BY <1>9, <2>1 DEF Break, Job
    <2> QED
      BY <2>2, <1>3
  <1>10. CASE Dispose(w)
    <2>1. PICK j \in Task : Becomes(w, j)
      BY <1>0, <1>10, DisposeTurns
    <2>2. containers' = containers \ {work[w].run}
      BY <1>10 DEF Dispose
    <2> QED
      BY <2>1, <2>2, <1>2
  <1>11. CASE Finish(w)
    <2>1. Becomes(w, Free) /\ ~Up(w) /\ containers' = containers
      BY <1>11 DEF Finish
    <2> QED
      BY <2>1, <1>1
  <1>12. CASE TimeOut(w)
    <2>1. Becomes(w, Free) /\ containers' = containers \ {work[w].run}
      BY <1>12 DEF TimeOut
    <2> QED
      BY <2>1, <1>2
  <1>13. CASE Killed(w)
    <2>1. Becomes(w, Free) /\ containers' = containers \ Remains(w)
      BY <1>13 DEF Killed
    <2>2. CASE Up(w)
      <3>1. containers' \subseteq containers \ {work[w].run}
        BY <2>1, <2>2 DEF Remains
      <3> QED
        BY <2>1, <3>1, <1>2
    <2>3. CASE ~Up(w)
      <3>1. containers' \subseteq containers
        BY <2>1
      <3> QED
        BY <2>1, <2>3, <3>1, <1>1
    <2> QED
      BY <2>2, <2>3
  <1>14. CASE Redeliver(w)
    BY <1>0, <1>14 DEF Redeliver, ContainersRemoved
  <1> QED
    BY <1>4, <1>5, <1>6, <1>7, <1>8, <1>9, <1>10, <1>11, <1>12, <1>13, <1>14 DEF Judge

LEMMA LocksInit == Init => IInv
  <1> SUFFICES ASSUME Init PROVE IInv
    OBVIOUS
  <1>1. \A w \in Workers : work[w] = Free
    BY DEF Init
  <1>2. LockInv
    BY <1>1, TaskFree DEF LockInv, Holding
  <1> QED
    BY <1>2, TypeInit DEF Init, IInv, ContainersRemoved

LEMMA LocksNext == IInv /\ [Next]_vars => IInv'
  <1> SUFFICES ASSUME IInv, [Next]_vars PROVE LockInv' /\ ContainersRemoved'
    BY TypeNext DEF IInv
  <1>1. ASSUME NEW w \in Workers, Judge(w) \/ TimeOut(w) \/ Killed(w) \/ Redeliver(w)
        PROVE  LockInv' /\ ContainersRemoved'
    BY <1>1, WorkerLocks, WorkerContainers DEF IInv
  <1>2. CASE UNCHANGED <<work, containers>>
    BY <1>2 DEF IInv, LockInv, ContainersRemoved, Holding
  <1>3. CASE \E r \in Runs : \/ \E aim \in Sample \cup {"custom", "samples"} : RunCode(r, aim)
                             \/ Send(r) \/ SendFails(r)
    BY <1>2, <1>3 DEF RunCode, Send, SendFails
  <1>4. CASE UpdateCases
    BY <1>2, <1>4 DEF UpdateCases
  <1>5. CASE UNCHANGED vars
    BY <1>2, <1>5 DEF vars
  <1> QED
    BY <1>1, <1>3, <1>4, <1>5 DEF Next

\* "Every run is a throwaway container": however often the message of a run is delivered,
\* one worker at a time executes it, and every container that is going to be removed has
\* that worker.
THEOREM NoStrayContainers == Spec => []ContainersRemoved
  <1>1. IInv => ContainersRemoved
    BY DEF IInv
  <1> QED
    BY LocksInit, LocksNext, <1>1, PTL DEF Spec

-----------------------------------------------------------------------------
\* Reports.

AllInv == IInv /\ WholeInv

LEMMA NothingJudged == Ids(<<>>) = {} /\ WellJudged(<<>>, 0) /\ IsInjective(<<>>) /\ Range(<<>>) = {}
  <1>1. PICK s : s = <<>>
    OBVIOUS
  <1>2. DOMAIN s = {}
    BY <1>1
  <1>3. AcceptedOf(s) = {}
    BY <1>2 DEF AcceptedOf
  <1>4. WellJudged(s, 0)
    BY <1>2, <1>3, FS_EmptySet DEF WellJudged
  <1> QED
    BY <1>1, <1>2, <1>4 DEF Ids, IsInjective, Range

LEMMA ResultsShown ==
  ASSUME NEW results \in Seq(Judgement)
  PROVE  Ids(results) \cap Hidden = {} /\ (Ids(results) = {} => results = <<>>)
  <1>1. \A i \in DOMAIN results : results[i].case \in Sample \cup {"custom"}
    <2>1. \A x \in Judgement : x.case \in Sample \cup {"custom"}
      BY DEF Judgement
    <2>2. \A i \in DOMAIN results : results[i] \in Judgement
      OBVIOUS
    <2> QED
      BY <2>1, <2>2
  <1>2. (Sample \cup {"custom"}) \cap Hidden = {}
    BY CodeRunAssumption
  <1>3. Ids(results) \cap Hidden = {}
    BY <1>1, <1>2 DEF Ids
  <1>4. Ids(results) = {} => results = <<>>
    <2> SUFFICES ASSUME results # <<>> PROVE Ids(results) # {}
      OBVIOUS
    <2>1. 1 \in DOMAIN results
      OBVIOUS
    <2> QED
      BY <2>1 DEF Ids
  <1> QED
    BY <1>3, <1>4

LEMMA AcceptedFinite ==
  ASSUME NEW results \in Seq(Judgement)
  PROVE  IsFiniteSet(AcceptedOf(results)) /\ Cardinality(AcceptedOf(results)) \in Nat
  <1>1. PICK D : D = 1 .. Len(results)
    OBVIOUS
  <1>2. IsFiniteSet(D)
    BY <1>1, FS_Interval
  <1>3. AcceptedOf(results) \in SUBSET D
    BY <1>1 DEF AcceptedOf
  <1> QED
    BY <1>2, <1>3, FS_Subset, FS_CardinalityType

\* One more case is judged.
LEMMA JudgedMore ==
  ASSUME NEW results \in Seq(Judgement), NEW passed \in Nat, WellJudged(results, passed),
         NEW c, c \notin Ids(results), NEW v \in Verdicts(c), Result(c, v) \in Judgement,
         NEW new, new = Append(results, Result(c, v))
  PROVE  WellJudged(new, passed + Gain(v, 1)) /\ Ids(new) = Ids(results) \cup {c}
  <1> DEFINE n == Len(results)
  <1>1. /\ n \in Nat /\ DOMAIN results = 1 .. n /\ DOMAIN new = (1 .. n) \cup {n + 1}
        /\ \A i \in 1 .. n : new[i] = results[i]
        /\ new[n + 1] = Result(c, v)
    OBVIOUS
  <1>2. Result(c, v).case = c /\ Result(c, v).verdict = v
    BY DEF Result
  <1>3. n + 1 \notin 1 .. n
    BY <1>1
  <1> HIDE DEF n
  <1>4. \A i \in 1 .. n : results[i].case # c
    BY <1>1 DEF Ids
  <1>5. \A i, k \in DOMAIN new : new[i].case = new[k].case => i = k
    <2>1. \A i \in 1 .. n : new[i].case = results[i].case /\ new[i].case # c
      BY <1>1, <1>4
    <2>2. new[n + 1].case = c
      BY <1>1, <1>2
    <2>3. \A i, k \in 1 .. n : new[i].case = new[k].case => i = k
      BY <1>1, <2>1 DEF WellJudged
    <2> QED
      BY <1>1, <2>1, <2>2, <2>3
  <1>6. \A i \in DOMAIN new : new[i].verdict \in Verdicts(new[i].case)
    <2>1. \A i \in 1 .. n : new[i].verdict \in Verdicts(new[i].case)
      BY <1>1 DEF WellJudged
    <2>2. new[n + 1].verdict \in Verdicts(new[n + 1].case)
      BY <1>1, <1>2
    <2> QED
      BY <1>1, <2>1, <2>2
  <1>7. passed + Gain(v, 1) = Cardinality(AcceptedOf(new))
    <2>0. passed = Cardinality(AcceptedOf(results)) /\ n + 1 \notin AcceptedOf(results)
      BY <1>1, <1>3 DEF WellJudged, AcceptedOf
    <2>1. CASE v = "accepted"
      <3>1. AcceptedOf(new) = AcceptedOf(results) \cup {n + 1}
        BY <1>1, <1>2, <2>1 DEF AcceptedOf
      <3>2. Cardinality(AcceptedOf(new)) = Cardinality(AcceptedOf(results)) + 1
        BY <2>0, <3>1, AcceptedFinite, FS_AddElement
      <3> QED
        BY <2>0, <2>1, <3>2 DEF Gain
    <2>2. CASE v # "accepted"
      <3>1. AcceptedOf(new) = AcceptedOf(results)
        BY <1>1, <1>2, <2>2 DEF AcceptedOf
      <3> QED
        BY <2>0, <2>2, <3>1 DEF Gain
    <2> QED
      BY <2>1, <2>2
  <1>8. Ids(new) = Ids(results) \cup {c}
    BY <1>1, <1>2 DEF Ids
  <1> QED
    BY <1>5, <1>6, <1>7, <1>8 DEF WellJudged

LEMMA TailLaw ==
  ASSUME NEW S, NEW s \in Seq(S), s # <<>>, IsInjective(s)
  PROVE  /\ IsInjective(Tail(s)) /\ Head(s) \notin Range(Tail(s))
         /\ Range(s) = Range(Tail(s)) \cup {Head(s)}
  <1> DEFINE n == Len(s)
             t == Tail(s)
  <1>1. /\ n \in Nat /\ n # 0 /\ DOMAIN s = 1 .. n /\ DOMAIN t = 1 .. n - 1
        /\ \A i \in 1 .. n - 1 : t[i] = s[i + 1]
        /\ Head(s) = s[1]
    OBVIOUS
  <1> HIDE DEF n, t
  <1>2. \A i \in 1 .. n - 1 : i + 1 \in 1 .. n /\ i + 1 # 1
    BY <1>1
  <1>3. IsInjective(t)
    BY <1>1, <1>2 DEF IsInjective
  <1>4. Head(s) \notin Range(t)
    <2>1. 1 \in 1 .. n
      BY <1>1
    <2> QED
      BY <1>1, <1>2, <2>1 DEF IsInjective, Range
  <1>5. Range(s) = Range(t) \cup {s[1]}
    <2>1. ASSUME NEW i \in 1 .. n PROVE s[i] \in Range(t) \cup {s[1]}
      <3>1. CASE i = 1
        BY <3>1
      <3>2. CASE i # 1
        <4>1. i - 1 \in 1 .. n - 1 /\ (i - 1) + 1 = i
          BY <1>1, <3>2
        <4>2. t[i - 1] = s[i]
          BY <1>1, <4>1
        <4> QED
          BY <1>1, <4>1, <4>2 DEF Range
      <3> QED
        BY <3>1, <3>2
    <2>2. s[1] \in Range(s)
      <3>1. 1 \in 1 .. n
        BY <1>1
      <3> QED
        BY <1>1, <3>1 DEF Range
    <2>3. Range(t) \subseteq Range(s)
      BY <1>1, <1>2 DEF Range
    <2>4. \A x \in Range(s) : \E i \in 1 .. n : x = s[i]
      BY <1>1 DEF Range
    <2>5. Range(s) \subseteq Range(t) \cup {s[1]}
      BY <2>1, <2>4
    <2> QED
      BY <2>2, <2>3, <2>5
  <1> QED
    BY <1>1, <1>3, <1>4, <1>5 DEF t

\* As many results as cases.
LEMMA OncePerCase ==
  ASSUME NEW results \in Seq(Judgement), NEW passed, WellJudged(results, passed)
  PROVE  Len(results) = Cardinality(Ids(results))
  <1> DEFINE n == Len(results)
             f == [i \in 1 .. n |-> results[i].case]
             T == Ids(results)
  <1>1. n \in Nat /\ DOMAIN results = 1 .. n
    OBVIOUS
  <1> HIDE DEF n
  <1>2. f \in [1 .. n -> T] /\ \A t \in T : \E i \in 1 .. n : f[i] = t
    BY <1>1 DEF Ids
  <1>3. \A i, k \in 1 .. n : f[i] = f[k] => i = k
    BY <1>1 DEF WellJudged
  <1> HIDE DEF f, T
  <1>4. f \in Bijection(1 .. n, T)
    BY <1>2, <1>3 DEF Bijection, Injection, Surjection, IsInjective
  <1>5. ExistsBijection(1 .. n, T)
    BY <1>4 DEF ExistsBijection
  <1>6. Cardinality(T) = n
    BY <1>1, <1>5, FS_CountingElements
  <1> QED
    BY <1>6 DEF n, T

\* A step of a worker that writes no row.
LEMMA WorkerWhole ==
  ASSUME AllInv, NEW w \in Workers, NEW j, Becomes(w, j), run' = run, edition' = edition,
         asked' = asked, edited' = edited, j.op # "free" => JobWhole(j)
  PROVE  WholeInv'
  <1>1. /\ work'[w] = j
        /\ \A v \in Workers \ {w} : work'[v] = work[v]
    BY Change DEF AllInv, IInv, TInv
  <1>2. \A r : AskedCases(r)' = AskedCases(r)
    BY DEF AskedCases, cases
  <1>3. \A i : JobWhole(i) => JobWhole(i)'
    BY <1>2 DEF JobWhole
  <1>4. Aims' = Aims
    BY DEF Aims, cases
  <1>5. \A r \in Runs : RowWhole(r) => RowWhole(r)'
    BY <1>2, <1>4 DEF RowWhole
  <1>6. ASSUME NEW v \in Workers, work'[v].op # "free"
        PROVE  JobWhole(work[v])'
    <2>1. PICK i : i = work'[v]
      OBVIOUS
    <2>2. JobWhole(i)
      BY <1>1, <1>6, <2>1 DEF AllInv, WholeInv
    <2>3. JobWhole(i)'
      BY <1>3, <2>2
    <2> QED
      BY <2>1, <2>3
  <1> QED
    BY <1>5, <1>6 DEF AllInv, WholeInv

LEMMA UnchangedWhole ==
  ASSUME AllInv, run' = run, edition' = edition, asked' = asked, edited' = edited, work' = work
  PROVE  WholeInv'
  <1>1. \A r : AskedCases(r)' = AskedCases(r)
    BY DEF AskedCases, cases
  <1>2. Aims' = Aims
    BY DEF Aims, cases
  <1> QED
    BY <1>1, <1>2 DEF AllInv, WholeInv, RowWhole, JobWhole

LEMMA JudgeWhole ==
  ASSUME AllInv, NEW w \in Workers,
         \/ \E r \in Runs : Take(w, r)
         \/ Lock(w) \/ Stage(w) \/ Refuse(w) \/ Execute(w) \/ Break(w) \/ Dispose(w)
         \/ TimeOut(w) \/ Killed(w) \/ Redeliver(w)
  PROVE  WholeInv'
  <1>0. /\ TInv /\ TypeOK /\ RowInv /\ work[w] \in Task /\ Free.op = "free"
        /\ work[w].op # "free" => JobWhole(work[w])
        /\ work[w].op # "free" => work[w].run \in Runs /\ RowWhole(work[w].run)
    BY Working, TaskFree DEF AllInv, IInv, TInv, WholeInv
  <1>1. ASSUME NEW r \in Runs, Take(w, r)
        PROVE  WholeInv'
    <2>1. PICK j : j = Job("taken", r, run[r].aim)
      OBVIOUS
    <2>2. /\ Becomes(w, j) /\ run' = run /\ edition' = edition
          /\ asked' = asked /\ edited' = edited /\ queue[r] > 0
      BY <1>1, <2>1 DEF Take, history
    <2>3. RowWhole(r)
      BY <1>0, <2>2 DEF RowInv, AllInv, WholeInv
    <2>4. /\ j.op = "taken" /\ j.run = r /\ j.aim = run[r].aim
          /\ j.todo = <<>> /\ j.done = <<>> /\ j.passed = 0
      BY <2>1 DEF Job
    <2>5. JobWhole(j)
      BY <2>3, <2>4 DEF JobWhole, RowWhole
    <2> QED
      BY <2>2, <2>5, WorkerWhole
  <1>2. CASE Lock(w)
    <2>1. PICK j : j = [work[w] EXCEPT !.op = "locked"]
      OBVIOUS
    <2>2. /\ Becomes(w, j) /\ run' = run /\ edition' = edition
          /\ asked' = asked /\ edited' = edited /\ work[w].op = "taken"
      BY <1>2, <2>1 DEF Lock, history
    <2>3. /\ j.op = "locked" /\ j.run = work[w].run /\ j.aim = work[w].aim
          /\ j.todo = work[w].todo /\ j.done = work[w].done /\ j.passed = work[w].passed
      BY <1>0, <2>1, TaskOp
    <2>4. JobWhole(j)
      BY <1>0, <2>2, <2>3 DEF JobWhole
    <2> QED
      BY <2>2, <2>4, WorkerWhole
  <1>3. CASE Stage(w)
    <2>s. PICK s : s = Selected(work[w].aim)
      OBVIOUS
    <2>1. PICK j : j = [work[w] EXCEPT !.op = "running", !.todo = s]
      OBVIOUS
    <2>2. /\ Becomes(w, j) /\ run' = run /\ edition' = edition
          /\ asked' = asked /\ edited' = edited /\ work[w].op = "locked" /\ s # <<>>
      BY <1>3, <2>s, <2>1 DEF Stage, history
    <2>3. /\ j.op = "running" /\ j.run = work[w].run
          /\ j.todo = s /\ j.done = work[w].done /\ j.passed = work[w].passed
      BY <1>0, <2>1 DEF Task
    <2>4. j.done = <<>> /\ j.passed = 0
      BY <1>0, <2>2, <2>3 DEF JobWhole
    <2>5. s \in Seq(Sample \cup {"custom"}) /\ IsInjective(s)
      BY <1>0, <2>s, SelectedLaw
    <2>6. j.run \notin edited => Range(s) = AskedCases(j.run)
      <3> SUFFICES ASSUME j.run \notin edited PROVE Range(s) = AskedCases(j.run)
        OBVIOUS
      <3>1. work[w].aim = asked[j.run]
        BY <1>0, <2>2, <2>3 DEF JobWhole
      <3>2. asked[j.run] \in Aims
        BY <1>0, <2>2, <2>3 DEF RowWhole
      <3> QED
        BY <1>0, <2>s, <3>1, <3>2, SelectedLaw DEF AskedCases
    <2>7. Range(s) # {}
      <3>1. 1 \in DOMAIN s
        BY <2>2, <2>5
      <3> QED
        BY <3>1 DEF Range
    <2>8. JobWhole(j)
      BY <2>3, <2>4, <2>5, <2>6, <2>7, NothingJudged DEF JobWhole
    <2> QED
      BY <2>2, <2>8, WorkerWhole
  <1>4. CASE Refuse(w)
    <2>1. PICK op \in {"refused", "error"} :
             /\ Becomes(w, [work[w] EXCEPT !.op = op])
             /\ op = "refused" => Selected(work[w].aim) = <<>>
      BY <1>4 DEF Refuse
    <2>2. PICK j : j = [work[w] EXCEPT !.op = op]
      OBVIOUS
    <2>3. /\ run' = run /\ edition' = edition
          /\ asked' = asked /\ edited' = edited /\ work[w].op = "locked"
      BY <1>4 DEF Refuse, history
    <2>4. /\ j.op = op /\ j.run = work[w].run
          /\ j.todo = work[w].todo /\ j.done = work[w].done /\ j.passed = work[w].passed
      BY <1>0, <2>2, TaskOp
    <2>5. j.todo = <<>> /\ j.done = <<>> /\ j.passed = 0
      BY <1>0, <2>3, <2>4 DEF JobWhole
    <2>6. op = "refused" /\ j.run \notin edited => AskedCases(j.run) = {}
      <3> SUFFICES ASSUME op = "refused", j.run \notin edited PROVE AskedCases(j.run) = {}
        OBVIOUS
      <3>1. work[w].aim = asked[j.run]
        BY <1>0, <2>3, <2>4 DEF JobWhole
      <3>2. asked[j.run] \in Aims
        BY <1>0, <2>3, <2>4 DEF RowWhole
      <3>3. Range(Selected(work[w].aim)) = AskedCases(j.run)
        BY <1>0, <3>1, <3>2, SelectedLaw DEF AskedCases
      <3> QED
        <4>1. Selected(work[w].aim) = <<>>
          BY <2>1
        <4> QED
          BY <3>3, <4>1, NothingJudged
    <2>7. JobWhole(j)
      BY <2>4, <2>5, <2>6 DEF JobWhole
    <2> QED
      <3>1. Becomes(w, j)
        BY <2>1, <2>2
      <3> QED
        BY <2>3, <2>7, <3>1, WorkerWhole
  <1>5. CASE Execute(w)
    <2>1. PICK c \in Sample \cup {"custom"}, v \in Verdicts("custom") \cup Verdicts("samples"), j \in Task :
             /\ v \in Verdicts(c)
             /\ Becomes(w, j) /\ j.run = work[w].run /\ work[w].op = "running" /\ j.op = "running"
             /\ work[w].todo # <<>> /\ c = Head(work[w].todo) /\ j.todo = Tail(work[w].todo)
             /\ Result(c, v) \in Judgement /\ j.done = Append(work[w].done, Result(c, v))
             /\ j.passed = work[w].passed + Gain(v, 1)
      BY <1>0, <1>5, ExecuteTurns
    <2>2. run' = run /\ edition' = edition /\ asked' = asked /\ edited' = edited
      BY <1>5 DEF Execute, history
    <2>3. PICK todo, done, passed :
             todo = work[w].todo /\ done = work[w].done /\ passed = work[w].passed
      OBVIOUS
    <2>4. /\ todo \in Seq(Sample \cup {"custom"}) /\ done \in Seq(Judgement) /\ passed \in Nat
      BY <1>0, <2>3 DEF Task
    <2>5. /\ WellJudged(done, passed) /\ IsInjective(todo) /\ Ids(done) \cap Range(todo) = {}
          /\ j.run \notin edited => Ids(done) \cup Range(todo) = AskedCases(j.run)
      BY <1>0, <2>1, <2>3 DEF JobWhole
    <2>6. /\ todo # <<>> /\ c = Head(todo) /\ j.todo = Tail(todo)
          /\ j.done = Append(done, Result(c, v)) /\ j.passed = passed + Gain(v, 1)
      BY <2>1, <2>3
    <2>7. /\ IsInjective(j.todo) /\ c \notin Range(j.todo) /\ Range(todo) = Range(j.todo) \cup {c}
      BY <2>4, <2>5, <2>6, TailLaw
    <2>8. c \notin Ids(done)
      BY <2>5, <2>7
    <2>9. WellJudged(j.done, j.passed) /\ Ids(j.done) = Ids(done) \cup {c}
      <3>1. PICK new : new = Append(done, Result(c, v))
        OBVIOUS
      <3>2. v \in Verdicts(c) /\ Result(c, v) \in Judgement
        BY <2>1
      <3>3. WellJudged(done, passed)
        BY <2>5
      <3>4. WellJudged(new, passed + Gain(v, 1)) /\ Ids(new) = Ids(done) \cup {c}
        BY <2>4, <2>8, <3>1, <3>2, <3>3, JudgedMore
      <3> QED
        BY <2>6, <3>1, <3>4
    <2>10. /\ Ids(j.done) \cap Range(j.todo) = {} /\ Ids(j.done) \cup Range(j.todo) # {}
           /\ j.run \notin edited => Ids(j.done) \cup Range(j.todo) = AskedCases(j.run)
      BY <2>5, <2>7, <2>9
    <2>11. JobWhole(j)
      BY <2>1, <2>7, <2>9, <2>10 DEF JobWhole
    <2> QED
      BY <2>1, <2>2, <2>11, WorkerWhole
  <1>6. CASE Break(w)
    <2>1. PICK j : j = Job("broken", work[w].run, work[w].aim)
      OBVIOUS
    <2>2. /\ Becomes(w, j) /\ run' = run /\ edition' = edition /\ asked' = asked /\ edited' = edited
      BY <1>6, <2>1 DEF Break, history
    <2>3. j.op = "broken" /\ j.todo = <<>> /\ j.done = <<>> /\ j.passed = 0
      BY <2>1 DEF Job
    <2>4. JobWhole(j)
      BY <2>3 DEF JobWhole
    <2> QED
      BY <2>2, <2>4, WorkerWhole
  <1>7. CASE Dispose(w)
    <2>1. PICK j \in Task :
             /\ Becomes(w, j) /\ j.run = work[w].run /\ j.todo = work[w].todo
             /\ j.done = work[w].done /\ j.passed = work[w].passed
             /\ \/ j.op = "judged" /\ work[w].op = "running" /\ work[w].todo = <<>>
                \/ j.op = "error" /\ work[w].op = "broken"
      BY <1>0, <1>7, DisposeTurns
    <2>2. run' = run /\ edition' = edition /\ asked' = asked /\ edited' = edited
      BY <1>7 DEF Dispose
    <2>3. JobWhole(j)
      BY <1>0, <2>1 DEF JobWhole
    <2> QED
      BY <2>1, <2>2, <2>3, WorkerWhole
  <1>8. CASE TimeOut(w) \/ Killed(w)
    <2>1. /\ Becomes(w, Free) /\ run' = run /\ edition' = edition
          /\ asked' = asked /\ edited' = edited
      BY <1>8 DEF TimeOut, Killed
    <2> QED
      BY <1>0, <2>1, WorkerWhole
  <1>9. CASE Redeliver(w)
    <2>1. /\ work' = work /\ run' = run /\ edition' = edition
          /\ asked' = asked /\ edited' = edited
      BY <1>9 DEF Redeliver, history
    <2>2. Becomes(w, work[w])
      BY <1>0, <2>1 DEF Becomes, TypeOK
    <2> QED
      BY <1>0, <2>1, <2>2, WorkerWhole
  <1> QED
    BY <1>1, <1>2, <1>3, <1>4, <1>5, <1>6, <1>7, <1>8, <1>9

\* The report of a task on its run.
LEMMA FinishWhole ==
  ASSUME AllInv, NEW w \in Workers, Finish(w)
  PROVE  WholeInv'
  <1>0. TInv /\ TypeOK /\ work[w] \in Task /\ Free.op = "free"
    BY Working, TaskFree DEF AllInv, IInv, TInv
  <1>1. PICK f \in Runs : f = work[w].run
    BY <1>0 DEF TInv, RowInv, Finish
  <1>2. PICK j \in Task : j = work[w]
    BY <1>0
  <1>3. PICK row \in RunRow : row = run[f] /\ row # None
    BY <1>0, <1>1, Working, NoneAssumption DEF Finish
  <1>4. PICK new : new = Report(j, row)
    OBVIOUS
  <1>5. /\ run' = [run EXCEPT ![f] = new] /\ Becomes(w, Free)
        /\ edition' = edition /\ asked' = asked /\ edited' = edited
        /\ j.op \in {"judged", "error", "refused"}
    BY <1>1, <1>2, <1>3, <1>4 DEF Finish, history
  <1>6. /\ run'[f] = new /\ \A r \in Runs \ {f} : run'[r] = run[r]
    BY <1>0, <1>5 DEF TypeOK
  <1>7. /\ JobWhole(j) /\ RowWhole(f) /\ j.run = f
    BY <1>0, <1>1, <1>2, <1>3, <1>5 DEF AllInv, WholeInv
  <1>8. /\ new # None /\ new.aim = row.aim
        /\ j.op = "refused" => /\ new.status = "error"
                               /\ new.results = row.results /\ new.passed = row.passed
        /\ j.op # "refused" => /\ new.status = IF j.op = "error" THEN "error" ELSE "done"
                               /\ new.results = j.done /\ new.passed = j.passed
    BY <1>4, Reported
  <1>9. \A r : AskedCases(r)' = AskedCases(r)
    BY <1>5 DEF AskedCases, cases
  <1>10. Aims' = Aims
    BY <1>5 DEF Aims, cases
  <1>11. RowWhole(f)'
    <2>1. f \notin edited' => asked'[f] \in Aims' /\ new.aim = asked'[f]
      BY <1>3, <1>5, <1>7, <1>8, <1>10 DEF RowWhole
    <2>2. CASE j.op = "refused"
      <3>1. f \notin edited => row.results = <<>>
        <4> SUFFICES ASSUME f \notin edited PROVE row.results = <<>>
          OBVIOUS
        <4>1. AskedCases(f) = {}
          BY <1>7, <2>2 DEF JobWhole
        <4>2. row.status = "done" => row.results # <<>> /\ Ids(row.results) = {}
          BY <1>3, <1>7, <4>1 DEF RowWhole
        <4>3. row.results \in Seq(Judgement) /\ row.status \in {"queued", "done", "error"}
          BY DEF RunRow
        <4>4. row.status # "done"
          BY <4>2, <4>3, ResultsShown
        <4> QED
          BY <1>3, <1>7, <4>3, <4>4 DEF RowWhole
      <3> QED
        BY <1>5, <1>6, <1>8, <2>1, <2>2, <3>1 DEF RowWhole
    <2>3. CASE j.op = "error"
      <3>1. j.done = <<>>
        BY <1>7, <2>3 DEF JobWhole
      <3> QED
        BY <1>6, <1>8, <2>1, <2>3, <3>1 DEF RowWhole
    <2>4. CASE j.op = "judged"
      <3>1. /\ WellJudged(j.done, j.passed) /\ Range(j.todo) = {}
            /\ Ids(j.done) \cup Range(j.todo) # {}
            /\ f \notin edited => Ids(j.done) \cup Range(j.todo) = AskedCases(f)
        BY <1>7, <2>4, NothingJudged DEF JobWhole
      <3>2. /\ Ids(j.done) # {} /\ f \notin edited => Ids(j.done) = AskedCases(f)
        BY <3>1
      <3>3. j.done # <<>>
        BY <3>1, NothingJudged
      <3> QED
        BY <1>5, <1>6, <1>8, <1>9, <2>1, <2>4, <3>1, <3>2, <3>3 DEF RowWhole
    <2> QED
      BY <1>5, <2>2, <2>3, <2>4
  <1>12. ASSUME NEW r \in Runs, run'[r] # None PROVE RowWhole(r)'
    <2>1. CASE r = f
      BY <1>11, <2>1
    <2>2. CASE r # f
      <3>1. run'[r] = run[r] /\ RowWhole(r)
        BY <1>6, <1>12, <2>2 DEF AllInv, WholeInv
      <3> QED
        BY <1>5, <1>9, <1>10, <3>1 DEF RowWhole
    <2> QED
      BY <2>1, <2>2
  <1>13. ASSUME NEW v \in Workers, work'[v].op # "free" PROVE JobWhole(work[v])'
    <2>1. work'[v] = work[v]
      BY <1>0, <1>5, <1>13, Change
    <2>2. JobWhole(work[v])
      BY <1>13, <2>1 DEF AllInv, WholeInv
    <2> QED
      BY <1>5, <1>9, <2>1, <2>2 DEF JobWhole
  <1> QED
    BY <1>12, <1>13 DEF WholeInv

LEMMA RequestWhole ==
  ASSUME AllInv, NEW r \in Runs,
         \/ \E aim \in Sample \cup {"custom", "samples"} : RunCode(r, aim)
         \/ Send(r) \/ SendFails(r)
  PROVE  WholeInv'
  <1>0. TInv /\ TypeOK /\ RowInv
    BY DEF AllInv, IInv, TInv
  <1>1. ASSUME NEW aim \in Targets, RunCode(r, aim)
        PROVE  WholeInv'
    <2>1. /\ run[r] = None /\ aim \in Aims
          /\ run' = [run EXCEPT ![r] = Row(aim)] /\ asked' = [asked EXCEPT ![r] = aim]
          /\ edition' = edition /\ work' = work /\ edited' = edited
      BY <1>1 DEF RunCode
    <2>2. /\ run'[r] = Row(aim) /\ asked'[r] = aim
          /\ \A x \in Runs \ {r} : run'[x] = run[x] /\ asked'[x] = asked[x]
      BY <1>0, <2>1 DEF TypeOK
    <2>3. Aims' = Aims
      BY <2>1 DEF Aims, cases
    <2>4. \A x \in Runs \ {r} : AskedCases(x)' = AskedCases(x)
      BY <2>1, <2>2 DEF AskedCases, cases
    <2>5. RowWhole(r)'
      BY <2>1, <2>2, <2>3, RowType DEF RowWhole
    <2>6. ASSUME NEW x \in Runs, run'[x] # None, x # r PROVE RowWhole(x)'
      <3>1. RowWhole(x)
        BY <2>2, <2>6 DEF AllInv, WholeInv
      <3> QED
        BY <2>1, <2>2, <2>3, <2>4, <2>6, <3>1 DEF RowWhole
    <2>7. ASSUME NEW w \in Workers, work'[w].op # "free" PROVE JobWhole(work[w])'
      <3>1. /\ JobWhole(work[w]) /\ work[w].run \in Runs \ {r}
        BY <1>0, <2>1, <2>7 DEF AllInv, WholeInv, RowInv
      <3>2. asked'[work[w].run] = asked[work[w].run] /\ AskedCases(work[w].run)' = AskedCases(work[w].run)
        <4>1. PICK x \in Runs \ {r} : x = work[w].run
          BY <3>1
        <4>2. AskedCases(work[w].run)' = AskedCases(x)'
          BY <2>1, <4>1 DEF AskedCases, cases
        <4> QED
          BY <2>2, <2>4, <4>1, <4>2
      <3> QED
        BY <2>1, <3>1, <3>2 DEF JobWhole
    <2> QED
      BY <2>5, <2>6, <2>7 DEF WholeInv
  <1>2. CASE Send(r) \/ SendFails(r)
    <2>1. /\ run' = run /\ edition' = edition /\ asked' = asked /\ edited' = edited /\ work' = work
      BY <1>2 DEF Send, SendFails, history
    <2> QED
      BY <2>1, UnchangedWhole
  <1> QED
    BY <1>1, <1>2 DEF Targets

LEMMA UpdateWhole ==
  ASSUME AllInv, UpdateCases
  PROVE  WholeInv'
  <1>0. TInv /\ TypeOK /\ RowInv
    BY DEF AllInv, IInv, TInv
  <1>1. /\ work' = work /\ edited' = {r \in Runs : run[r] # None} \cup edited
        /\ run' = [r \in Runs |-> IF run[r] # None /\ run[r].aim \in Sample
                                  THEN [run[r] EXCEPT !.aim = "samples"] ELSE run[r]]
    BY DEF UpdateCases
  <1>2. ASSUME NEW r \in Runs, run'[r] # None PROVE RowWhole(r)'
    <2>1. run[r] # None
      BY <1>1, <1>2
    <2>2. PICK row \in RunRow : row = run[r]
      BY <1>0, <2>1 DEF TypeOK
    <2>3. /\ run'[r].status = row.status /\ run'[r].results = row.results
          /\ run'[r].passed = row.passed
      <3>1. CASE row.aim \in Sample
        <4>1. run'[r] = [row EXCEPT !.aim = "samples"]
          BY <1>1, <2>1, <2>2, <3>1
        <4> QED
          BY <4>1, Untargeted
      <3>2. CASE row.aim \notin Sample
        BY <1>1, <2>2, <3>2
      <3> QED
        BY <3>1, <3>2
    <2>4. RowWhole(r) /\ r \in edited'
      BY <1>1, <2>1 DEF AllInv, WholeInv
    <2> QED
      BY <2>2, <2>3, <2>4 DEF RowWhole
  <1>3. ASSUME NEW w \in Workers, work'[w].op # "free" PROVE JobWhole(work[w])'
    <2>1. JobWhole(work[w]) /\ work[w].run \in edited'
      BY <1>0, <1>1, <1>3 DEF AllInv, WholeInv, RowInv
    <2> QED
      BY <1>1, <2>1 DEF JobWhole
  <1> QED
    BY <1>2, <1>3 DEF WholeInv

LEMMA WholeInit == Init => WholeInv
  BY TaskFree DEF Init, WholeInv

LEMMA WholeNext == AllInv /\ [Next]_vars => AllInv'
  <1> SUFFICES ASSUME AllInv, [Next]_vars PROVE WholeInv'
    BY LocksNext DEF AllInv
  <1>1. CASE UNCHANGED vars
    BY <1>1, UnchangedWhole DEF vars, history
  <1> QED
    BY <1>1, RequestWhole, UpdateWhole, JudgeWhole, FinishWhole DEF Next, Judge

\* "A run targets exactly one thing", and its report is on all of that: every case that was
\* asked for once, none that is hidden, counted right, whatever fails, is delivered twice or
\* is replaced meanwhile.
THEOREM ReportsWhole == Spec => []ReportWhole
  <1>1. AllInv => ReportWhole
    <2> SUFFICES ASSUME AllInv, NEW r \in Runs, run[r] # None
                 PROVE  /\ Ids(run[r].results) \cap Hidden = {}
                        /\ run[r].status = "queued" \/ (run[r].status = "error" /\ r \notin edited) => run[r].results = <<>>
                        /\ run[r].status = "done" =>
                             /\ run[r].results # <<>> /\ Len(run[r].results) = Cardinality(Ids(run[r].results))
                             /\ \A i \in DOMAIN run[r].results : run[r].results[i].verdict \in Verdicts(run[r].results[i].case)
                             /\ run[r].passed = Cardinality(AcceptedOf(run[r].results))
                             /\ r \notin edited => Ids(run[r].results) = AskedCases(r)
      BY DEF ReportWhole
    <2>1. run[r] \in RunRow /\ RowWhole(r)
      BY DEF AllInv, IInv, TInv, TypeOK, WholeInv
    <2>2. run[r].results \in Seq(Judgement)
      BY <2>1 DEF RunRow
    <2>3. Ids(run[r].results) \cap Hidden = {}
      BY <2>2, ResultsShown
    <2>4. run[r].status = "done" => Len(run[r].results) = Cardinality(Ids(run[r].results))
      BY <2>1, <2>2, OncePerCase DEF RowWhole
    <2> QED
      BY <2>1, <2>3, <2>4 DEF RowWhole, WellJudged
  <1>2. Init => AllInv
    BY LocksInit, WholeInit DEF AllInv
  <1> QED
    BY <1>1, <1>2, WholeNext, PTL DEF Spec
=============================================================================
