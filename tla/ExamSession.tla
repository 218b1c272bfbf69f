---------------------------- MODULE ExamSession ----------------------------
(***************************************************************************)
(* The clock of one student's attempt at one exam: the deadline of its row *)
(* in Postgres and the copy in Redis that decides about saves.  Requests   *)
(* of the student's tabs (start, save, heartbeat, submit), of invigilators *)
(* (extend) and runs of the sweeper interleave; each reads the row, talks  *)
(* to Redis, and commits last.  A request that is refused at once changes  *)
(* nothing and is left out.                                                *)
(***************************************************************************)
EXTENDS Naturals, FiniteSets, TLC

CONSTANTS Procs,      \* slots for requests and task runs
          None,
          Duration, EndsAt,   \* of the exam
          Grace,      \* deadline_grace_seconds
          Minutes,    \* what an invigilator may add
          Sweeper,    \* whether auto_submit_expired runs
          MaxTime, MaxCalls, MaxFaults    \* bounds

\* The rows of exam_attempts.
Rows == [deadline : Nat, status : {"in_progress", "ended"}]

ASSUME SessionAssumption ==
    /\ Duration \in Nat /\ EndsAt \in Nat /\ Grace \in Nat /\ Minutes \subseteq Nat
    /\ Sweeper \in BOOLEAN /\ MaxTime \in Nat /\ MaxCalls \in Nat /\ MaxFaults \in Nat
    /\ None \notin Nat \cup Rows

VARIABLES
    now, up, faults,  \* time; Redis answers; crashes and outages so far
    row,              \* the committed row of exam_attempts, or None
    clock,            \* the key attempt:{id}:deadline, or None
    req, calls,       \* the requests under way; how many have begun
    \* History: the latest deadline anyone was given, the latest that was committed, and
    \* what went wrong with an extension: it crossed another, an older deadline was written to
    \* Redis after it, Redis missed it, it was rolled back after Redis had it.
    promised, acked, flaws

env     == <<now, up, faults>>
history == <<promised, acked, flaws>>
vars    == <<env, row, clock, req, calls, history>>

Req(op, d) == [op |-> op, deadline |-> d]
Idle       == Req("idle", 0)
RowOf(s, d) == [deadline |-> d, status |-> s]

InProgress == row # None /\ row.status = "in_progress"

Earlier(a, b) == IF a < b THEN a ELSE b
Later(a, b)   == IF a < b THEN b ELSE a

Begin(p, r) ==
    /\ req[p] = Idle /\ calls < MaxCalls
    /\ req' = [req EXCEPT ![p] = r]
    /\ calls' = calls + 1
    /\ UNCHANGED <<env, row, clock>>

Goes(p, r) == req' = [req EXCEPT ![p] = r] /\ UNCHANGED <<env, calls>>

\* set_deadline: an error is logged and forgotten.
SetDeadline(d) ==
    /\ clock' = IF up THEN d ELSE clock
    /\ flaws' = flaws \cup (IF up /\ d < promised THEN {"stale"} ELSE {})

-----------------------------------------------------------------------------
\* start_exam

Start(p) ==
    /\ row = None \/ InProgress
    /\ now <= EndsAt
    /\ Begin(p, IF row = None THEN Req("insert", Earlier(now + Duration, EndsAt))
                ELSE Req("announce", row.deadline))
    /\ UNCHANGED history

\* The unique constraint makes a second INSERT wait for the first one's transaction.
Inserting == \E q \in Procs : req[q].op \in {"inserted", "born"}

\* Mutant of Winner: the loser goes on with its own deadline.
OwnDeadline(p) == req[p].deadline
Winner(p) == row.deadline

\* The loser of a race rolls back and reloads the winner's attempt, or fails: the
\* rollback has expired the student it reads the identifier of.
Insert(p) ==
    /\ req[p].op = "insert" /\ ~Inserting
    /\ \/ row = None /\ Goes(p, Req("inserted", req[p].deadline))
       \/ row # None /\ Goes(p, Req("announce", Winner(p)))
       \/ row # None /\ Goes(p, Idle)
    /\ UNCHANGED <<row, clock, history>>

Announce(p) ==
    /\ req[p].op \in {"inserted", "announce"}
    /\ SetDeadline(req[p].deadline)
    /\ Goes(p, IF req[p].op = "inserted" THEN Req("born", req[p].deadline) ELSE Idle)
    /\ UNCHANGED <<row, promised, acked>>

CommitStart(p) ==
    /\ req[p].op = "born"
    /\ row' = RowOf("in_progress", req[p].deadline)
    /\ promised' = req[p].deadline /\ acked' = req[p].deadline
    /\ Goes(p, Idle)
    /\ UNCHANGED <<clock, flaws>>

-----------------------------------------------------------------------------
\* Saves and heartbeats: active_attempt, resolve_deadline, writable_attempt.

Read(p) == InProgress /\ Begin(p, Req("resolve", row.deadline)) /\ UNCHANGED history

Hit(p) ==
    /\ req[p].op = "resolve" /\ up /\ clock # None
    /\ Goes(p, Idle)
    /\ UNCHANGED <<row, clock, history>>

Miss(p) ==
    /\ req[p].op = "resolve" /\ (~up \/ clock = None)
    /\ Goes(p, Req("refill", req[p].deadline))
    /\ UNCHANGED <<row, clock, history>>

\* Redis gets the deadline of the row as this request has read it.
Refill(p) ==
    /\ req[p].op = "refill"
    /\ SetDeadline(req[p].deadline)
    /\ Goes(p, Idle)
    /\ UNCHANGED <<row, promised, acked>>

Resolves(p) == Hit(p) \/ Refill(p)

\* Mutant of Accepts: there is no grace.
AcceptsUntilDeadline(p) == now <= IF req[p].op = "refill" THEN req[p].deadline ELSE clock
Accepts(p) == now <= Grace + IF req[p].op = "refill" THEN req[p].deadline ELSE clock

-----------------------------------------------------------------------------
\* extend_time: read, tell Redis, commit.  The UPDATE waits for whoever has the row
\* locked and writes the deadline that was computed, whatever the row says by then.

Locked == \E q \in Procs : req[q].op \in {"sweep", "swept", "submitting", "submitted"}

Extend(p) ==
    /\ InProgress
    /\ \E m \in Minutes : Begin(p, Req("extend", row.deadline + m))
    /\ flaws' = flaws \cup
                  (IF \E q \in Procs : req[q].op \in {"extend", "granted"} THEN {"crossed"} ELSE {})
    /\ UNCHANGED <<promised, acked>>

\* Mutant of Publish: only the row is extended.
PublishNothing(p) ==
    /\ req[p].op = "extend"
    /\ promised' = Later(promised, req[p].deadline)
    /\ Goes(p, Req("granted", req[p].deadline))
    /\ UNCHANGED <<row, clock, acked, flaws>>

Publish(p) ==
    /\ req[p].op = "extend"
    /\ clock' = IF up THEN req[p].deadline ELSE clock
    /\ flaws' = flaws \cup (IF up THEN {} ELSE {"dropped"})
    /\ promised' = Later(promised, req[p].deadline)
    /\ Goes(p, Req("granted", req[p].deadline))
    /\ UNCHANGED <<row, acked>>

\* Mutant of CommitExtend: it does not wait for the sweeper.
CommitExtendAtOnce(p) ==
    /\ req[p].op = "granted"
    /\ row' = [row EXCEPT !.deadline = req[p].deadline]
    /\ acked' = Later(acked, req[p].deadline)
    /\ Goes(p, Idle)
    /\ UNCHANGED <<clock, promised, flaws>>

CommitExtend(p) ==
    /\ req[p].op = "granted" /\ ~Locked
    /\ row' = [row EXCEPT !.deadline = req[p].deadline]
    /\ acked' = Later(acked, req[p].deadline)
    /\ Goes(p, Idle)
    /\ UNCHANGED <<clock, promised, flaws>>

-----------------------------------------------------------------------------
\* submit_exam and force_submit; a run of the sweeper, FOR UPDATE SKIP LOCKED.

Submit(p) == InProgress /\ Begin(p, Req("submit", row.deadline)) /\ UNCHANGED history

LockRow(p) ==
    /\ req[p].op = "submit" /\ ~Locked
    /\ Goes(p, Req("submitting", req[p].deadline))
    /\ UNCHANGED <<row, clock, history>>

Sweep(p) ==
    /\ Sweeper /\ InProgress /\ row.deadline <= now /\ ~Locked
    /\ Begin(p, Req("sweep", row.deadline))
    /\ UNCHANGED history

\* clear_attempt.  The sweeper's own client raises when Redis is down.
ClearAttempt(p) ==
    /\ \/ req[p].op = "submitting" /\ Goes(p, Req("submitted", req[p].deadline))
       \/ req[p].op = "sweep" /\ Goes(p, IF up THEN Req("swept", req[p].deadline) ELSE Idle)
    /\ clock' = IF up THEN None ELSE clock
    /\ UNCHANGED <<row, history>>

CommitEnd(p) ==
    /\ req[p].op \in {"submitted", "swept"}
    /\ row' = [row EXCEPT !.status = "ended"]
    /\ Goes(p, Idle)
    /\ UNCHANGED <<clock, history>>

-----------------------------------------------------------------------------
\* The environment.

Fault == faults < MaxFaults /\ faults' = faults + 1 /\ UNCHANGED <<now, row, calls, promised, acked>>

\* A request fails and is rolled back.  What Redis was told stays; the key of an attempt
\* that was never committed is nobody's.
Crash(p) ==
    /\ req[p] # Idle /\ Fault
    /\ req' = [req EXCEPT ![p] = Idle]
    /\ clock' = IF req[p].op = "born" THEN None ELSE clock
    /\ flaws' = flaws \cup (IF req[p].op = "granted" THEN {"rolled"} ELSE {})
    /\ UNCHANGED up

RedisFail == up /\ Fault /\ up' = FALSE /\ UNCHANGED <<req, clock, flaws>>

\* With or without its data.
RedisRecover ==
    /\ ~up /\ up' = TRUE
    /\ clock' \in {clock, None}
    /\ UNCHANGED <<now, faults, row, req, calls, history>>

\* The key expires, 300 seconds after the deadline it holds.
Expire ==
    /\ up /\ clock # None /\ clock + Grace < now
    /\ clock' = None
    /\ UNCHANGED <<env, row, req, calls, history>>

Tick ==
    /\ now < MaxTime /\ now' = now + 1
    /\ UNCHANGED <<up, faults, row, clock, req, calls, history>>

Init ==
    /\ now = 0 /\ up = TRUE /\ faults = 0
    /\ row = None /\ clock = None
    /\ req = [p \in Procs |-> Idle] /\ calls = 0
    /\ promised = 0 /\ acked = 0 /\ flaws = {}

Next ==
    \/ \E p \in Procs :
          \/ Start(p) \/ Insert(p) \/ Announce(p) \/ CommitStart(p)
          \/ Read(p) \/ Hit(p) \/ Miss(p) \/ Refill(p)
          \/ Extend(p) \/ Publish(p) \/ CommitExtend(p)
          \/ Submit(p) \/ LockRow(p) \/ Sweep(p) \/ ClearAttempt(p) \/ CommitEnd(p)
          \/ Crash(p)
    \/ RedisFail \/ RedisRecover \/ Expire \/ Tick

Spec == Init /\ [][Next]_vars
-----------------------------------------------------------------------------
\* Properties.

Ops == {"idle", "insert", "announce", "inserted", "born", "resolve", "refill", "extend",
        "granted", "submit", "submitting", "sweep", "submitted", "swept"}

TypeOK ==
    /\ now \in Nat /\ up \in BOOLEAN /\ faults \in 0 .. MaxFaults /\ calls \in 0 .. MaxCalls
    /\ row \in Rows \cup {None} /\ clock \in Nat \cup {None}
    /\ req \in [Procs -> [op : Ops, deadline : Nat]]
    /\ promised \in Nat /\ acked \in Nat
    /\ flaws \subseteq {"crossed", "stale", "dropped", "rolled"}

\* "Redis is the fast path; the attempt row is the source of truth if Redis is cold": as
\* long as no extension is under way or has met one of the flaws, Redis holds the deadline
\* of the row or none at all, whatever starts, saves, restarts and outages interleave.
ClockExact ==
    /\ InProgress /\ flaws = {}
    /\ \A p \in Procs : req[p].op \notin {"granted"}
    => clock \in {None, row.deadline}

\* "Rejects writes past the deadline": a save is accepted only until the grace after the
\* latest deadline the student was given, even if that extension was rolled back later.
SavesInTime ==
    [][\A p \in Procs : Resolves(p) /\ Accepts(p) => now <= promised + Grace]_vars

\* A save is refused only after the grace of the deadline its own request has read in the
\* row: an extension reaches Redis before the row.
NoEarlyRefusal ==
    [][\A p \in Procs :
          Resolves(p) /\ ~Accepts(p) /\ flaws \subseteq {"rolled"}
          => now > req[p].deadline + Grace]_vars

\* The sweeper never submits an attempt before a deadline that was granted and committed
\* by then, unless two invigilators extended it at once.
GrantsHonoured ==
    [][\A p \in Procs :
          CommitEnd(p) /\ req[p].op = "swept" /\ "crossed" \notin flaws => now >= acked]_vars

-----------------------------------------------------------------------------
\* The inductive invariant of these properties.

\* Before its commit an attempt is known to its one INSERT only.
Begun ==
    /\ \A p \in Procs : req[p].op \in {"inserted", "born"} =>
          row = None /\ \A q \in Procs : req[q].op \in {"inserted", "born"} => q = p
    /\ \A p \in Procs : req[p].op \notin {"idle", "insert", "inserted", "born"} => row # None
    /\ row = None =>
          clock = None \/ \E p \in Procs : req[p].op = "born" /\ clock = req[p].deadline

\* Nobody holds a later deadline than was promised.
Given == row # None =>
    /\ row.deadline <= promised
    /\ clock # None => clock <= promised
    /\ \A p \in Procs : req[p].op \in {"announce", "resolve", "refill", "granted"} =>
          req[p].deadline <= promised

SweptAfter == \A p \in Procs : req[p].op \in {"sweep", "swept"} => row.deadline <= now

\* One extension at a time moves the deadline forward only.
InTurn == row # None /\ "crossed" \notin flaws =>
    /\ acked = row.deadline
    /\ \A p \in Procs : req[p].op \in {"extend", "granted"} =>
          /\ row.deadline <= req[p].deadline
          /\ \A q \in Procs : req[q].op \in {"extend", "granted"} => q = p
    /\ \A p \in Procs : req[p].op = "resolve" => req[p].deadline <= row.deadline

\* Redis is never behind the row.
Ahead == row # None /\ clock # None /\ flaws \subseteq {"rolled"} =>
    /\ row.deadline <= clock
    /\ \A p \in Procs : req[p].op = "granted" => req[p].deadline <= clock

Exact == row # None /\ flaws = {} =>
    /\ clock \in {None, promised}
    /\ \A p \in Procs : req[p].op = "granted" => promised = req[p].deadline
    /\ promised = row.deadline \/ \E p \in Procs : req[p].op = "granted"

SessionInv == Begun /\ Given /\ SweptAfter /\ InTurn /\ Ahead /\ Exact

=============================================================================
