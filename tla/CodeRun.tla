------------------------------ MODULE CodeRun ------------------------------
(***************************************************************************)
(* Running code against the sample cases of one coding question: the       *)
(* request (routers/student.py), the message on the judge queue, the task  *)
(* judge.run (tasks/judge_tasks.py) and its container                      *)
(* (services/sandbox.py), while an admin may replace the test cases.       *)
(*                                                                         *)
(* The task is one transaction that holds the lock of the run's row, so    *)
(* its status "running" is never seen.  An execution is abstracted to how  *)
(* the process ended, after what percentage of its time limit, and whether *)
(* its output is right, wrong or, for a function, not JSON at all.         *)
(***************************************************************************)
EXTENDS Naturals, SequencesExt

CONSTANTS Runs, Workers, None,
          Sample, Hidden,    \* identifiers of test cases
          Weight,
          Editions,          \* the test cases of the question, before and after each edit
          Outcomes,          \* how an execution may end
          Function,          \* problem_type is "function"
          Faults, MaxFaults  \* what may fail, and how often

ASSUME CodeRunAssumption ==
    /\ Sample \cap Hidden = {} /\ Weight \in [Sample \cup Hidden -> Nat \ {0}]
    /\ Editions \in Seq(Seq(Sample \cup Hidden)) /\ Function \in BOOLEAN
    /\ \A i \in DOMAIN Editions : IsInjective(Editions[i])
    /\ Editions # <<>> /\ {"custom", "samples", None} \cap (Sample \cup Hidden) = {}
    /\ Faults \subseteq {"broker", "docker", "time", "worker", "remove"} /\ MaxFaults \in Nat

VARIABLES
    edition,     \* which of them the rows of test_cases are
    run,         \* the rows of judge_runs
    sending,     \* requests that have committed their run and not yet queued it
    queue,       \* copies of the message of a run
    work,        \* what each worker does
    containers,  \* runs with a container that is going to be removed
    faults,
    \* History: what the student asked for; runs whose cases were replaced while they
    \* waited; runs whose last message is gone without an answer; runs that have left a container behind.
    asked, edited, lost, leaked

history == <<asked, edited, lost, leaked>>
vars    == <<edition, run, sending, queue, work, containers, faults, history>>

cases == Editions[edition]

Row(aim) == [aim |-> aim, status |-> "queued", results |-> <<>>, passed |-> 0, earned |-> 0]

Job(op, r, aim) ==
    [run |-> r, aim |-> aim, op |-> op, todo |-> <<>>, done |-> <<>>, passed |-> 0, earned |-> 0]
Free == Job("free", None, None)

Result(c, v) == [case |-> c, verdict |-> v]

Settled(r) == run[r] # None /\ run[r].status \in {"done", "error"}

IsSample(c) == c \in Sample

\* A worker has flushed the run's new status.
Locked(r) == \E w \in Workers : work[w].run = r /\ work[w].op \notin {"free", "taken"}

\* What a run is aimed at: one sample case, the student's own input, or every sample.
Aims == {c \in Range(cases) : IsSample(c)} \cup {"custom", "samples"}

-----------------------------------------------------------------------------
\* run_code

RunCode(r, aim) ==
    /\ run[r] = None /\ aim \in Aims
    /\ run' = [run EXCEPT ![r] = Row(aim)]
    /\ sending' = sending \cup {r}
    /\ asked' = [asked EXCEPT ![r] = aim]
    /\ UNCHANGED <<edition, queue, work, containers, faults, edited, lost, leaked>>

Send(r) ==
    /\ r \in sending
    /\ sending' = sending \ {r}
    /\ queue' = [queue EXCEPT ![r] = @ + 1]
    /\ UNCHANGED <<edition, run, work, containers, faults, history>>

Fault(kind) == kind \in Faults /\ faults < MaxFaults /\ faults' = faults + 1

\* The broker refuses the message: the request fails, its run stays queued.
SendFails(r) ==
    /\ r \in sending /\ Fault("broker")
    /\ sending' = sending \ {r} /\ lost' = lost \cup {r}
    /\ UNCHANGED <<edition, run, queue, work, containers, asked, edited, leaked>>

\* update_coding deletes the cases and inserts new ones.  ON DELETE SET NULL makes it
\* wait for a worker that holds a run aimed at one of them.
UpdateCases ==
    /\ \A r \in Runs : run[r] # None /\ run[r].aim \in Sample => ~Locked(r)
    /\ edition < Len(Editions) /\ edition' = edition + 1
    /\ run' = [r \in Runs |-> IF run[r] # None /\ run[r].aim \in Sample
                              THEN [run[r] EXCEPT !.aim = "samples"] ELSE run[r]]
    /\ edited' = {r \in Runs : run[r] # None} \cup edited
    /\ UNCHANGED <<sending, queue, work, containers, faults, asked, lost, leaked>>

-----------------------------------------------------------------------------
\* judge_run

Becomes(w, job) == work' = [work EXCEPT ![w] = job]

\* The run is read, with the case it is aimed at.
Take(w, r) ==
    /\ work[w] = Free /\ queue[r] > 0
    /\ queue' = [queue EXCEPT ![r] = @ - 1]
    /\ Becomes(w, Job("taken", r, run[r].aim))
    /\ UNCHANGED <<edition, run, sending, containers, faults, history>>

\* Its status is flushed.  A second delivery waits here for the first.
Lock(w) ==
    /\ work[w].op = "taken" /\ ~Locked(work[w].run)
    /\ Becomes(w, [work[w] EXCEPT !.op = "locked"])
    /\ UNCHANGED <<edition, run, sending, queue, containers, faults, history>>

\* The members of T in the order of s.
Chosen(s, T) ==
    LET I     == {i \in DOMAIN s : s[i] \in T}
        Place == [i \in I |-> Cardinality({j \in I : j <= i})]
    IN [k \in 1 .. Cardinality(I) |-> s[CHOOSE i \in I : Place[i] = k]]

\* Mutant of Selected: the cases are not restricted to the samples.
SelectedAll(aim) == IF aim = "custom" THEN <<"custom">>
    ELSE Chosen(cases, {c \in Range(cases) : aim \in {c, "samples"}})
Selected(aim) ==
    IF aim = "custom" THEN <<"custom">>
    ELSE Chosen(cases, {c \in Range(cases) : IsSample(c) /\ aim \in {c, "samples"}})

\* The cases are read and a container is started and compiles the program.
Stage(w) ==
    /\ work[w].op = "locked" /\ Selected(work[w].aim) # <<>>
    /\ Becomes(w, [work[w] EXCEPT !.op = "running", !.todo = Selected(work[w].aim)])
    /\ containers' = containers \cup {work[w].run}
    /\ UNCHANGED <<edition, run, sending, queue, faults, history>>

\* Mutant of Refuse: it returns before the run is marked.
RefuseSilently(w) ==
    /\ work[w].op = "locked"
    /\ \/ Selected(work[w].aim) = <<>> /\ UNCHANGED faults
       \/ Fault("docker")
    /\ Becomes(w, Free)
    /\ UNCHANGED <<edition, run, sending, queue, containers, history>>

\* No cases are left, or Docker does not answer.
Refuse(w) ==
    /\ work[w].op = "locked"
    /\ \/ /\ Selected(work[w].aim) = <<>> /\ UNCHANGED faults
          /\ Becomes(w, [work[w] EXCEPT !.op = "refused"])
       \/ /\ Selected(work[w].aim) # <<>> /\ Fault("docker")
          /\ Becomes(w, [work[w] EXCEPT !.op = "error"])
    /\ UNCHANGED <<edition, run, sending, queue, containers, history>>

\* sandbox.execute tells a timeout from a memory kill by the time it took.
Verdict(o) ==
    CASE o.exit = 137 /\ o.elapsed < 90   -> "mle"
      [] o.exit = 137 /\ o.elapsed >= 90  -> "tle"
      [] o.exit # 137 /\ o.elapsed > 200  -> "tle"
      [] o.exit \notin {0, 137} /\ o.elapsed <= 200 -> "runtime_error"
      [] OTHER -> "ok"

\* A custom run has nothing to compare with.
Judged(c, o) ==
    IF Verdict(o) # "ok" \/ c = "custom" THEN Verdict(o)
    ELSE CASE o.output = "right" -> "accepted"
           [] o.output = "garbled" /\ Function -> "runtime_error"
           [] OTHER -> "wrong_answer"

\* What a verdict adds to a count.
Gain(v, n) == IF v = "accepted" THEN n ELSE 0

\* The next case has its verdict.
Executed(job, c, v) ==
    [job EXCEPT !.todo = Tail(job.todo), !.done = Append(job.done, Result(c, v)),
        !.passed = job.passed + Gain(v, 1), !.earned = job.earned + Gain(v, Weight[c])]

Execute(w) ==
    /\ work[w].op = "running" /\ work[w].todo # <<>>
    /\ LET c == Head(work[w].todo) IN
          \E o \in Outcomes : Becomes(w, Executed(work[w], c, Judged(c, o)))
    /\ UNCHANGED <<edition, run, sending, queue, containers, faults, history>>

\* Compilation fails, or Docker does: no result of any case is kept.
Break(w) ==
    /\ work[w].op = "running"
    /\ \/ work[w].done = <<>> /\ UNCHANGED faults
       \/ Fault("docker")
    /\ Becomes(w, Job("broken", work[w].run, work[w].aim))
    /\ UNCHANGED <<edition, run, sending, queue, containers, history>>

\* Mutant of Dispose: a container is removed only after a success.
DisposeAfterSuccess(w) ==
    /\ work[w].op = "broken" \/ (work[w].op = "running" /\ work[w].todo = <<>>)
    /\ containers' = IF work[w].op = "running" THEN containers \ {work[w].run} ELSE containers
    /\ UNCHANGED <<faults, leaked>>
    /\ Becomes(w, [work[w] EXCEPT !.op = IF @ = "running" THEN "judged" ELSE "error"])
    /\ UNCHANGED <<edition, run, sending, queue, asked, edited, lost>>

\* The finally block.
Dispose(w) ==
    /\ work[w].op = "broken" \/ (work[w].op = "running" /\ work[w].todo = <<>>)
    /\ containers' = containers \ {work[w].run}
    /\ \/ UNCHANGED <<faults, leaked>>
       \/ Fault("remove") /\ leaked' = leaked \cup {work[w].run}
    /\ Becomes(w, [work[w] EXCEPT !.op = IF @ = "running" THEN "judged" ELSE "error"])
    /\ UNCHANGED <<edition, run, sending, queue, asked, edited, lost>>

\* Mutant of Report: an error of the sandbox counts as a program that passed nothing.
ReportDone(job, old) ==
    [old EXCEPT !.status = "done", !.results = job.done,
        !.passed = job.passed, !.earned = job.earned]

\* A run that is refused keeps what an earlier delivery has reported.
Report(job, old) ==
    IF job.op = "refused" THEN [old EXCEPT !.status = "error"]
    ELSE [old EXCEPT !.status = IF job.op = "error" THEN "error" ELSE "done",
             !.results = job.done, !.passed = job.passed, !.earned = job.earned]

Finish(w) ==
    /\ work[w].op \in {"judged", "error", "refused"}
    /\ run' = [run EXCEPT ![work[w].run] = Report(work[w], run[work[w].run])]
    /\ Becomes(w, Free)
    /\ UNCHANGED <<edition, sending, queue, containers, faults, history>>

\* The soft time limit of the task: an exception, the rollback, and no retry.
TimeOut(w) ==
    /\ work[w].op = "running" /\ Fault("time")
    /\ containers' = containers \ {work[w].run}
    /\ lost' = lost \cup {work[w].run}
    /\ Becomes(w, Free)
    /\ UNCHANGED <<edition, run, sending, queue, asked, edited, leaked>>

\* What is left of a worker that dies while its container is up.
Remains(w) ==
    IF work[w].op \in {"running", "broken"} THEN containers \cap {work[w].run} ELSE {}

\* A worker is killed.  Its message was not acknowledged: it is delivered again, or not
\* if only the child process died.
Killed(w) ==
    /\ work[w].op # "free" /\ Fault("worker")
    /\ leaked' = leaked \cup Remains(w)
    /\ containers' = containers \ Remains(w)
    /\ Becomes(w, Free)
    /\ \/ queue' = [queue EXCEPT ![work[w].run] = @ + 1] /\ UNCHANGED lost
       \/ lost' = lost \cup {work[w].run} /\ UNCHANGED queue
    /\ UNCHANGED <<edition, run, sending, asked, edited>>

\* The visibility timeout of the broker: a message that is being worked on comes again.
Redeliver(w) ==
    /\ work[w].op # "free" /\ Fault("broker")
    /\ queue' = [queue EXCEPT ![work[w].run] = @ + 1]
    /\ UNCHANGED <<edition, run, sending, work, containers, history>>

-----------------------------------------------------------------------------

Init ==
    /\ edition = 1
    /\ run = [r \in Runs |-> None] /\ asked = [r \in Runs |-> None]
    /\ sending = {} /\ queue = [r \in Runs |-> 0]
    /\ work = [w \in Workers |-> Free] /\ containers = {}
    /\ faults = 0 /\ edited = {} /\ lost = {} /\ leaked = {}

Judge(w) ==
    \/ \E r \in Runs : Take(w, r)
    \/ Lock(w) \/ Stage(w) \/ Refuse(w) \/ Execute(w) \/ Break(w) \/ Dispose(w) \/ Finish(w)

Next ==
    \/ \E r \in Runs : \/ \E aim \in Sample \cup {"custom", "samples"} : RunCode(r, aim)
                       \/ Send(r) \/ SendFails(r)
    \/ UpdateCases
    \/ \E w \in Workers : Judge(w) \/ TimeOut(w) \/ Killed(w) \/ Redeliver(w)

\* Celery keeps its workers busy; the request that has committed goes on to queue.
Spec ==
    /\ Init /\ [][Next]_vars
    /\ \A w \in Workers : WF_vars(Judge(w))
    /\ \A r \in Runs : WF_vars(Send(r))
-----------------------------------------------------------------------------
\* Properties.

Targets == Sample \cup {"custom", "samples"}

Verdicts(c) ==
    IF c = "custom" THEN {"ok", "tle", "mle", "runtime_error"}
    ELSE {"accepted", "wrong_answer", "tle", "mle", "runtime_error"}

Judgement == [case : Sample \cup {"custom"}, verdict : Verdicts("custom") \cup Verdicts("samples")]

RunRow == [aim : Targets, status : {"queued", "done", "error"}, results : Seq(Judgement),
           passed : Nat, earned : Nat]

ASSUME NoneAssumption == None \notin RunRow

Task == [run : Runs \cup {None}, aim : Targets \cup {None},
         op : {"free", "taken", "locked", "running", "broken", "judged", "error", "refused"},
         todo : Seq(Sample \cup {"custom"}), done : Seq(Judgement), passed : Nat, earned : Nat]

TypeOK ==
    /\ edition \in DOMAIN Editions /\ faults \in 0 .. MaxFaults
    /\ run \in [Runs -> RunRow \cup {None}] /\ asked \in [Runs -> Targets \cup {None}]
    /\ sending \subseteq Runs /\ queue \in [Runs -> Nat] /\ work \in [Workers -> Task]
    /\ containers \subseteq Runs /\ edited \subseteq Runs /\ lost \subseteq Runs /\ leaked \subseteq Runs

\* The cases that results are of, and those that were asked for.
Ids(results) == {results[i].case : i \in DOMAIN results}
AskedCases(r) ==
    IF asked[r] = "samples" THEN {c \in Range(cases) : IsSample(c)} ELSE {asked[r]}

AcceptedOf(results) == {i \in DOMAIN results : results[i].verdict = "accepted"}

\* "A run targets exactly one thing: a specific sample case, or ad-hoc custom input",
\* and a done run reports on all of it: one verdict per case asked for, never of
\* a hidden case, and counts what was accepted.  A sandbox that failed is never reported
\* as a program that failed.  (Cases replaced while a run waits turn a run of one case
\* into a run of all the new samples: only then may the cases differ from what was asked,
\* or an error show the results of an earlier delivery.)
ReportWhole ==
    \A r \in Runs : run[r] # None =>
        LET results == run[r].results IN
        /\ Ids(results) \cap Hidden = {}
        /\ run[r].status = "queued" \/ (run[r].status = "error" /\ r \notin edited) => results = <<>>
        /\ run[r].status = "done" =>
             /\ results # <<>> /\ Len(results) = Cardinality(Ids(results))
             /\ \A i \in DOMAIN results : results[i].verdict \in Verdicts(results[i].case)
             /\ run[r].passed = Cardinality(AcceptedOf(results))
             /\ r \notin edited => Ids(results) = AskedCases(r)

\* Each case once, with a verdict that it may have, and the count of what was accepted.
WellJudged(results, passed) ==
    /\ \A i, k \in DOMAIN results : results[i].case = results[k].case => i = k
    /\ \A i \in DOMAIN results : results[i].verdict \in Verdicts(results[i].case)
    /\ passed = Cardinality(AcceptedOf(results))

\* What a row says, and what it was asked for.
RowWhole(r) ==
    /\ r \notin edited => asked[r] \in Aims /\ run[r].aim = asked[r]
    /\ run[r].status = "queued" \/ (run[r].status = "error" /\ r \notin edited) => run[r].results = <<>>
    /\ run[r].status = "done" =>
          /\ run[r].results # <<>> /\ WellJudged(run[r].results, run[r].passed)
          /\ r \notin edited => Ids(run[r].results) = AskedCases(r)

\* What a worker has judged and has yet to judge is together what its run was asked for.
JobWhole(j) ==
    /\ j.op \in {"taken", "locked"} /\ j.run \notin edited => j.aim = asked[j.run]
    /\ j.op \notin {"running", "judged"} => j.todo = <<>> /\ j.done = <<>> /\ j.passed = 0
    /\ j.op = "refused" /\ j.run \notin edited => AskedCases(j.run) = {}
    /\ j.op \in {"running", "judged"} =>
          /\ WellJudged(j.done, j.passed) /\ IsInjective(j.todo)
          /\ Ids(j.done) \cap Range(j.todo) = {} /\ Ids(j.done) \cup Range(j.todo) # {}
          /\ j.run \notin edited => Ids(j.done) \cup Range(j.todo) = AskedCases(j.run)
    /\ j.op = "judged" => j.todo = <<>>

WholeInv ==
    /\ \A r \in Runs : run[r] # None => RowWhole(r)
    /\ \A w \in Workers : work[w].op # "free" => JobWhole(work[w])

\* "Every run is a throwaway container": a container belongs to a run that a worker is
\* executing, unless its removal failed or its worker was killed.
ContainersRemoved ==
    \A r \in containers :
        \E w \in Workers : work[w].run = r /\ work[w].op \in {"running", "broken"}

\* At most one worker holds the lock of a run, which it took from the queue.
Holding(w) == work[w].op \notin {"free", "taken"}

LockInv ==
    \A w, v \in Workers : Holding(w) /\ Holding(v) /\ work[w].run = work[v].run => w = v

\* Only a run that has its row is queued or worked on.
RowInv ==
    /\ \A r \in Runs : r \in sending \/ queue[r] > 0 => run[r] # None
    /\ \A w \in Workers : work[w].op # "free" => work[w].run \in Runs /\ run[work[w].run] # None

\* A run that was queued gets its answer, whatever the program does and however often
\* the message is delivered, unless the one message it has is dropped.
RunSettles == \A r \in Runs : queue[r] > 0 ~> Settled(r) \/ r \in lost

=============================================================================
