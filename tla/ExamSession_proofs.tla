------------------------- MODULE ExamSession_proofs -------------------------
(***************************************************************************)
(* Theorems about ExamSession, for any number of requests, any exam, grace *)
(* and extensions.                                                         *)
(***************************************************************************)
EXTENDS ExamSession, TLAPS

LEMMA Bounds ==
  /\ Duration \in Nat /\ EndsAt \in Nat /\ Grace \in Nat /\ Minutes \subseteq Nat
  /\ MaxTime \in Nat /\ MaxCalls \in Nat /\ MaxFaults \in Nat
  BY SessionAssumption

LEMMA NoneDiffers == None \notin Nat /\ None \notin Rows
  BY SessionAssumption

Requests == [op : Ops, deadline : Nat]

LEMMA ReqType ==
  ASSUME NEW op \in Ops, NEW d \in Nat
  PROVE  /\ Req(op, d) \in Requests /\ Req(op, d).op = op /\ Req(op, d).deadline = d
         /\ Idle \in Requests /\ Idle.op = "idle"
  BY DEF Req, Idle, Requests, Ops

LEMMA Others ==
  ASSUME TypeOK, NEW p \in Procs, NEW r, req' = [req EXCEPT ![p] = r]
  PROVE  req'[p] = r /\ \A q \in Procs \ {p} : req'[q] = req[q]
  BY DEF TypeOK

LEMMA StepType ==
  ASSUME TypeOK, NEW p \in Procs, NEW r \in Requests, req' = [req EXCEPT ![p] = r]
  PROVE  req' \in [Procs -> Requests]
  BY DEF TypeOK, Requests

-----------------------------------------------------------------------------
\* Type correctness.

LEMMA HeldType ==
  ASSUME TypeOK, NEW p \in Procs
  PROVE  req[p] \in Requests /\ req[p].deadline \in Nat /\ req[p].op \in Ops
  BY DEF TypeOK, Requests

LEMMA RowType ==
  ASSUME TypeOK, row # None
  PROVE  row \in Rows /\ row.deadline \in Nat
  BY DEF TypeOK, Rows

LEMMA BeginType ==
  ASSUME TypeOK, NEW p \in Procs, NEW r \in Requests, Begin(p, r), promised' = promised,
         acked' = acked, flaws' \subseteq {"crossed", "stale", "dropped", "rolled"}
  PROVE  TypeOK'
  <1>1. req' \in [Procs -> Requests]
    BY StepType DEF Begin
  <1>2. calls' \in 0 .. MaxCalls
    BY Bounds DEF Begin, TypeOK
  <1> QED
    BY <1>1, <1>2 DEF Begin, TypeOK, env, Requests

LEMMA GoesType ==
  ASSUME TypeOK, NEW p \in Procs, NEW r \in Requests, Goes(p, r),
         row' \in Rows \cup {None}, clock' \in Nat \cup {None}, promised' \in Nat, acked' \in Nat,
         flaws' \subseteq {"crossed", "stale", "dropped", "rolled"}
  PROVE  TypeOK'
  <1>1. req' \in [Procs -> Requests]
    BY StepType DEF Goes
  <1> QED
    BY <1>1 DEF Goes, TypeOK, env, Requests

LEMMA StartType ==
  ASSUME TypeOK, NEW p \in Procs, Start(p) \/ Read(p) \/ Submit(p) \/ Sweep(p) \/ Extend(p)
  PROVE  TypeOK'
  <1>1. flaws \subseteq {"crossed", "stale", "dropped", "rolled"} /\ now \in Nat
    BY DEF TypeOK
  <1>2. CASE Start(p)
    <2>1. Earlier(now + Duration, EndsAt) \in Nat
      BY <1>1, Bounds DEF Earlier
    <2>2. PICK r \in Requests : Begin(p, r)
      <3>1. CASE row = None
        BY <1>2, <2>1, <3>1, ReqType DEF Start, Ops
      <3>2. CASE row # None
        BY <1>2, <3>2, ReqType, RowType DEF Start, Ops
      <3> QED
        BY <3>1, <3>2
    <2> QED
      BY <1>1, <1>2, <2>2, BeginType DEF Start, history
  <1>3. CASE Read(p) \/ Submit(p) \/ Sweep(p)
    <2>1. row # None /\ row.deadline \in Nat
      BY <1>3, RowType DEF Read, Submit, Sweep, InProgress
    <2>2. PICK r \in Requests : Begin(p, r)
      BY <1>3, <2>1, ReqType DEF Read, Submit, Sweep, Ops
    <2> QED
      BY <1>1, <1>3, <2>2, BeginType DEF Read, Submit, Sweep, history
  <1>4. CASE Extend(p)
    <2>1. row.deadline \in Nat
      BY <1>4, RowType DEF Extend, InProgress
    <2>2. PICK m \in Minutes : Begin(p, Req("extend", row.deadline + m))
      BY <1>4 DEF Extend
    <2>3. Req("extend", row.deadline + m) \in Requests
      BY <2>1, ReqType, Bounds DEF Ops
    <2> QED
      BY <1>1, <1>4, <2>2, <2>3, BeginType DEF Extend
  <1> QED
    BY <1>2, <1>3, <1>4

LEMMA WorkType ==
  ASSUME TypeOK, Begun, NEW p \in Procs,
         Insert(p) \/ Announce(p) \/ CommitStart(p) \/ Hit(p) \/ Miss(p) \/ Refill(p)
           \/ Publish(p) \/ CommitExtend(p) \/ LockRow(p) \/ ClearAttempt(p) \/ CommitEnd(p)
  PROVE  TypeOK'
  <1>1. /\ flaws \subseteq {"crossed", "stale", "dropped", "rolled"} /\ row \in Rows \cup {None}
        /\ clock \in Nat \cup {None} /\ promised \in Nat /\ acked \in Nat
    BY DEF TypeOK
  <1>2. req[p].deadline \in Nat
    BY HeldType
  <1>3. PICK r \in Requests : Goes(p, r)
    <2>1. CASE Insert(p)
      BY <2>1, <1>2, ReqType, RowType DEF Insert, Winner, Ops
    <2>2. CASE Announce(p) \/ CommitStart(p) \/ Hit(p) \/ Miss(p) \/ Refill(p)
      BY <2>2, <1>2, ReqType DEF Announce, CommitStart, Hit, Miss, Refill, Ops
    <2>3. CASE Publish(p) \/ CommitExtend(p) \/ LockRow(p) \/ ClearAttempt(p) \/ CommitEnd(p)
      BY <2>3, <1>2, ReqType DEF Publish, CommitExtend, LockRow, ClearAttempt, CommitEnd, Ops
    <2> QED
      BY <2>1, <2>2, <2>3
  <1>4. row' \in Rows \cup {None}
    <2>1. CASE CommitStart(p)
      BY <2>1, <1>2 DEF CommitStart, RowOf, Rows
    <2>2. CASE CommitExtend(p) \/ CommitEnd(p)
      <3>1. row \in Rows
        BY <1>1, <2>2 DEF Begun, CommitExtend, CommitEnd
      <3> QED
        BY <2>2, <3>1, <1>2 DEF CommitExtend, CommitEnd, Rows
    <2>3. CASE row' = row
      BY <2>3, <1>1
    <2> QED
      BY <2>1, <2>2, <2>3 DEF Insert, Announce, Hit, Miss, Refill, Publish, LockRow, ClearAttempt
  <1>5. clock' \in Nat \cup {None}
    BY <1>1, <1>2 DEF Insert, Announce, CommitStart, Hit, Miss, Refill, Publish, CommitExtend,
           LockRow, ClearAttempt, CommitEnd, SetDeadline
  <1>6. promised' \in Nat /\ acked' \in Nat
    BY <1>1, <1>2 DEF Insert, Announce, CommitStart, Hit, Miss, Refill, Publish, CommitExtend,
           LockRow, ClearAttempt, CommitEnd, Later, history
  <1>7. flaws' \subseteq {"crossed", "stale", "dropped", "rolled"}
    BY <1>1 DEF Insert, Announce, CommitStart, Hit, Miss, Refill, Publish, CommitExtend,
           LockRow, ClearAttempt, CommitEnd, SetDeadline, history
  <1> QED
    BY <1>3, <1>4, <1>5, <1>6, <1>7, GoesType

LEMMA EnvironmentType ==
  ASSUME TypeOK, RedisFail \/ RedisRecover \/ Expire \/ Tick \/ (\E p \in Procs : Crash(p))
  PROVE  TypeOK'
  <1>1. CASE RedisFail \/ RedisRecover \/ Expire \/ Tick
    <2>1. CASE RedisFail
      <3>1. faults' \in 0 .. MaxFaults
        BY <2>1, Bounds DEF RedisFail, Fault, TypeOK
      <3> QED
        BY <2>1, <3>1 DEF RedisFail, Fault, TypeOK
    <2>2. CASE RedisRecover
      BY <2>2 DEF RedisRecover, TypeOK, history
    <2>3. CASE Expire
      BY <2>3 DEF Expire, TypeOK, env, history
    <2>4. CASE Tick
      BY <2>4 DEF Tick, TypeOK, history
    <2> QED
      BY <1>1, <2>1, <2>2, <2>3, <2>4
  <1>2. ASSUME NEW p \in Procs, Crash(p) PROVE TypeOK'
    <2>1. req' \in [Procs -> Requests]
      BY <1>2, StepType, ReqType, 0 \in Nat DEF Crash, Ops
    <2> QED
      BY <1>2, <2>1, Bounds DEF Crash, Fault, TypeOK, Requests
  <1> QED
    BY <1>1, <1>2

LEMMA NextType == TypeOK /\ Begun /\ [Next]_vars => TypeOK'
  <1>1. TypeOK /\ UNCHANGED vars => TypeOK'
    BY DEF TypeOK, vars, env, history
  <1> QED
    BY <1>1, StartType, WorkType, EnvironmentType DEF Next

-----------------------------------------------------------------------------
\* Steps that tell nobody a new deadline.

\* What a request becomes in such a step.
Steps(q) ==
    \/ req'[q] = req[q]
    \/ req'[q].op \in {"idle", "insert"}
    \/ row # None /\ req'[q].op \in {"submit", "submitting", "submitted"}
    \/ row # None /\ req'[q].op \in {"announce", "resolve"} /\ req'[q].deadline = row.deadline
    \/ /\ req[q].op = "resolve"
       /\ req'[q].op = "refill" /\ req'[q].deadline = req[q].deadline
    \/ row # None /\ row.deadline <= now /\ req'[q].op \in {"sweep", "swept"}

Quiet ==
    /\ row' = row \/ (row # None /\ row' # None /\ row'.deadline = row.deadline)
    /\ clock' = clock \/ clock' = None
    /\ promised' = promised /\ acked' = acked /\ flaws \subseteq flaws' /\ now <= now'
    /\ \A q \in Procs : Steps(q)
    /\ \A q \in Procs : req[q].op = "granted" => req'[q] = req[q] \/ flaws' # {}
    /\ clock' = None \/ \A q \in Procs : req[q].op = "born" => req'[q] = req[q]

LEMMA QuietSteps ==
  ASSUME TypeOK, TypeOK', SessionInv, Quiet
  PROVE  SessionInv'
  <1>1. /\ row' = None <=> row = None
        /\ row # None => row'.deadline = row.deadline /\ row.deadline \in Nat
    BY RowType DEF Quiet
  <1>2. now \in Nat /\ now' \in Nat /\ now <= now' /\ promised \in Nat
    BY DEF TypeOK, Quiet
  <1>3. \A q \in Procs : req[q].deadline \in Nat /\ req'[q].deadline \in Nat
    BY DEF TypeOK
  <1>4. Begun'
    <2>1. \A q \in Procs : req'[q].op \in {"inserted", "born"} => req'[q] = req[q]
      BY DEF Quiet, Steps
    <2>2. \A q \in Procs : req'[q].op \notin {"idle", "insert", "inserted", "born"} => row # None
      BY DEF Quiet, Steps, SessionInv, Begun
    <2>3. row = None => clock' = None \/ \E q \in Procs : req'[q].op = "born" /\ clock' = req'[q].deadline
      BY DEF Quiet, SessionInv, Begun
    <2> QED
      BY <1>1, <2>1, <2>2, <2>3 DEF SessionInv, Begun
  <1>5. Given'
    <2>1. row # None => /\ row.deadline <= promised /\ (clock # None => clock <= promised)
                        /\ \A q \in Procs : req[q].op \in {"announce", "resolve", "refill", "granted"} =>
                              req[q].deadline <= promised
      BY DEF SessionInv, Given
    <2>2. row # None => \A q \in Procs : req'[q].op \in {"announce", "resolve", "refill", "granted"} =>
                              req'[q].deadline <= promised
      BY <2>1 DEF Quiet, Steps
    <2> QED
      BY <1>1, <2>1, <2>2 DEF Given, Quiet
  <1>6. SweptAfter'
    <2>1. \A q \in Procs : req'[q].op \in {"sweep", "swept"} => row # None /\ row.deadline <= now
      BY DEF Quiet, Steps, SessionInv, SweptAfter, Begun
    <2> QED
      BY <1>1, <1>2, <2>1 DEF SweptAfter
  <1>7. InTurn'
    <2>1. \A q \in Procs : req'[q].op \in {"extend", "granted"} => req'[q] = req[q]
      BY DEF Quiet, Steps
    <2>2. \A q \in Procs : req'[q].op = "resolve" => req'[q] = req[q] \/ req'[q].deadline = row.deadline
      BY DEF Quiet, Steps
    <2>3. "crossed" \notin flaws' => "crossed" \notin flaws
      BY DEF Quiet
    <2> QED
      BY <1>1, <2>1, <2>2, <2>3 DEF InTurn, SessionInv, Quiet
  <1>8. Ahead'
    <2>1. \A q \in Procs : req'[q].op = "granted" => req'[q] = req[q]
      BY DEF Quiet, Steps
    <2>2. clock' # None => clock' = clock
      BY DEF Quiet
    <2>3. flaws' \subseteq {"rolled"} => flaws \subseteq {"rolled"}
      BY DEF Quiet
    <2> QED
      BY <1>1, <2>1, <2>2, <2>3 DEF Ahead, SessionInv
  <1>9. Exact'
    <2>1. \A q \in Procs : req'[q].op = "granted" => req'[q] = req[q]
      BY DEF Quiet, Steps
    <2>2. flaws' = {} => flaws = {} /\ \A q \in Procs : req[q].op = "granted" => req'[q] = req[q]
      BY DEF Quiet
    <2> QED
      BY <1>1, <2>1, <2>2 DEF Exact, SessionInv, Quiet
  <1> QED
    BY <1>4, <1>5, <1>6, <1>7, <1>8, <1>9 DEF SessionInv

LEMMA BeginQuiet ==
  ASSUME TypeOK, SessionInv, NEW p \in Procs, Start(p) \/ Read(p) \/ Submit(p) \/ Sweep(p)
  PROVE  Quiet
  <1>1. row' = row /\ clock' = clock /\ now' = now /\ promised' = promised /\ acked' = acked
          /\ flaws' = flaws /\ now \in Nat
    BY DEF Start, Read, Submit, Sweep, Begin, env, history, TypeOK
  <1>2. req[p] = Idle /\ Idle.op = "idle"
    BY ReqType, 0 \in Nat DEF Start, Read, Submit, Sweep, Begin, Ops
  <1>3. PICK r : /\ Begin(p, r)
                 /\ \/ r.op = "insert"
                    \/ row # None /\ r.op = "submit"
                    \/ row # None /\ r.op \in {"announce", "resolve"} /\ r.deadline = row.deadline
                    \/ row # None /\ row.deadline <= now /\ r.op = "sweep"
    <2>1. CASE Start(p) /\ row = None
      <3>1. PICK r : r = Req("insert", Earlier(now + Duration, EndsAt))
        OBVIOUS
      <3> QED
        BY <2>1, <3>1 DEF Start, Req
    <2>2. CASE row # None
      <3>1. PICK op \in {"announce", "resolve", "submit", "sweep"} :
              Begin(p, Req(op, row.deadline)) /\ (op = "sweep" => row.deadline <= now)
        BY <2>2 DEF Start, Read, Submit, Sweep
      <3>2. PICK r : r = Req(op, row.deadline)
        OBVIOUS
      <3>3. r.op = op /\ r.deadline = row.deadline
        BY <3>2 DEF Req
      <3> QED
        BY <2>2, <3>1, <3>2, <3>3
    <2> QED
      BY <2>1, <2>2 DEF Read, Submit, Sweep, InProgress
  <1>4. req'[p] = r /\ \A q \in Procs \ {p} : req'[q] = req[q]
    BY <1>3, Others DEF Begin
  <1>5. \A q \in Procs : Steps(q)
    BY <1>3, <1>4 DEF Steps
  <1> QED
    BY <1>1, <1>2, <1>4, <1>5 DEF Quiet
LEMMA WorkQuiet ==
  ASSUME TypeOK, SessionInv, NEW p \in Procs,
         (Insert(p) /\ row # None) \/ Hit(p) \/ Miss(p) \/ LockRow(p) \/ ClearAttempt(p)
           \/ CommitEnd(p)
  PROVE  Quiet
  <1>1. /\ promised' = promised /\ acked' = acked /\ flaws' = flaws /\ now' = now /\ now \in Nat
        /\ clock' = clock \/ clock' = None
    BY DEF Insert, Hit, Miss, LockRow, ClearAttempt, CommitEnd, Goes, env, history, TypeOK
  <1>2. row # None /\ req[p].op \notin {"granted", "born"}
    BY DEF Insert, Hit, Miss, LockRow, ClearAttempt, CommitEnd, SessionInv, Begun
  <1>3. row' = row \/ (row # None /\ row' # None /\ row'.deadline = row.deadline)
    <2>1. CASE CommitEnd(p)
      <3>1. row' = [row EXCEPT !.status = "ended"] /\ row \in Rows
        BY <1>2, <2>1, RowType DEF CommitEnd
      <3>2. row' \in Rows /\ row'.deadline = row.deadline
        BY <3>1 DEF Rows
      <3> QED
        BY <1>2, <3>2, NoneDiffers
    <2>2. CASE row' = row
      BY <2>2
    <2> QED
      BY <2>1, <2>2 DEF Insert, Hit, Miss, LockRow, ClearAttempt, CommitEnd
  <1>4. PICK r : /\ Goes(p, r)
                 /\ \/ r.op = "idle"
                    \/ r.op \in {"submitting", "submitted"}
                    \/ r.op = "announce" /\ r.deadline = row.deadline
                    \/ req[p].op = "resolve" /\ r.op = "refill" /\ r.deadline = req[p].deadline
                    \/ req[p].op = "sweep" /\ r.op = "swept"
    <2>1. CASE \E op \in {"refill", "submitting", "submitted", "swept"} :
                  /\ Goes(p, Req(op, req[p].deadline))
                  /\ op = "refill" => req[p].op = "resolve"
                  /\ op = "swept" => req[p].op = "sweep"
      <3>1. PICK op \in {"refill", "submitting", "submitted", "swept"} :
                  /\ Goes(p, Req(op, req[p].deadline))
                  /\ op = "refill" => req[p].op = "resolve"
                  /\ op = "swept" => req[p].op = "sweep"
        BY <2>1
      <3>2. PICK r : r = Req(op, req[p].deadline)
        OBVIOUS
      <3>3. r.op = op /\ r.deadline = req[p].deadline
        BY <3>2 DEF Req
      <3> QED
        BY <3>1, <3>2, <3>3
    <2>2. CASE Goes(p, Idle) \/ Goes(p, Req("announce", row.deadline))
      <3>1. PICK r : (r = Idle \/ r = Req("announce", row.deadline)) /\ Goes(p, r)
        BY <2>2
      <3>2. r.op = "idle" \/ (r.op = "announce" /\ r.deadline = row.deadline)
        BY <3>1 DEF Idle, Req
      <3> QED
        BY <3>1, <3>2
    <2>3. CASE Insert(p) \/ Hit(p) \/ CommitEnd(p)
      BY <2>2, <2>3, <1>2 DEF Insert, Hit, CommitEnd, Winner
    <2>4. CASE Miss(p) \/ LockRow(p)
      BY <2>1, <2>4 DEF Miss, LockRow
    <2>5. CASE ClearAttempt(p)
      BY <2>1, <2>2, <2>5 DEF ClearAttempt
    <2> QED
      BY <2>3, <2>4, <2>5
  <1>5. req'[p] = r /\ \A q \in Procs \ {p} : req'[q] = req[q]
    BY <1>4, Others DEF Goes
  <1>6. req[p].op = "sweep" => row.deadline <= now
    BY DEF SessionInv, SweptAfter
  <1>7. \A q \in Procs : Steps(q)
    BY <1>2, <1>4, <1>5, <1>6 DEF Steps
  <1> QED
    BY <1>1, <1>2, <1>3, <1>5, <1>7 DEF Quiet

LEMMA EnvironmentQuiet ==
  ASSUME TypeOK, SessionInv,
         RedisFail \/ RedisRecover \/ Expire \/ Tick \/ UNCHANGED vars \/ (\E p \in Procs : Crash(p))
  PROVE  Quiet
  <1>1. CASE RedisFail \/ RedisRecover \/ Expire \/ Tick \/ UNCHANGED vars
    <2>1. /\ row' = row /\ promised' = promised /\ acked' = acked /\ flaws' = flaws /\ req' = req
          /\ clock' = clock \/ clock' = None
      BY <1>1 DEF RedisFail, RedisRecover, Expire, Tick, Fault, vars, env, history
    <2>2. now <= now'
      BY <1>1 DEF RedisFail, RedisRecover, Expire, Tick, Fault, vars, env, history, TypeOK
    <2> QED
      BY <2>1, <2>2 DEF Quiet, Steps
  <1>2. ASSUME NEW p \in Procs, Crash(p) PROVE Quiet
    <2>1. /\ row' = row /\ promised' = promised /\ acked' = acked /\ now' = now /\ now \in Nat
          /\ flaws \subseteq flaws' /\ (req[p].op = "granted" => flaws' # {})
          /\ clock' = IF req[p].op = "born" THEN None ELSE clock
      BY <1>2 DEF Crash, Fault, TypeOK
    <2>2. req'[p] = Idle /\ Idle.op = "idle" /\ \A q \in Procs \ {p} : req'[q] = req[q]
      <3>1. req' = [req EXCEPT ![p] = Idle]
        BY <1>2 DEF Crash
      <3>2. Idle.op = "idle"
        BY DEF Idle, Req
      <3> QED
        BY <3>1, <3>2, Others
    <2>3. \A q \in Procs : Steps(q)
      BY <2>2 DEF Steps
    <2>4. clock' = None \/ \A q \in Procs : req[q].op = "born" => req'[q] = req[q]
      BY <2>1, <2>2
    <2> QED
      BY <2>1, <2>2, <2>3, <2>4 DEF Quiet
  <1> QED
    BY <1>1, <1>2
-----------------------------------------------------------------------------
\* Steps that tell a deadline.

LEMMA InsertSession ==
  ASSUME TypeOK, SessionInv, NEW p \in Procs, Insert(p), row = None
  PROVE  SessionInv'
  <1>1. row' = None /\ clock' = clock /\ ~Inserting
        /\ req' = [req EXCEPT ![p] = Req("inserted", req[p].deadline)]
    BY DEF Insert, Goes
  <1>2. req'[p].op = "inserted" /\ \A q \in Procs \ {p} : req'[q] = req[q]
    BY <1>1 DEF TypeOK, Req
  <1>3. \A q \in Procs : req[q].op \notin {"inserted", "born"}
    BY <1>1 DEF Inserting
  <1>4. \A q \in Procs : req[q].op \in {"idle", "insert"}
    BY <1>3 DEF SessionInv, Begun
  <1>5. clock = None
    BY <1>3 DEF SessionInv, Begun
  <1>6. \A q \in Procs \ {p} : req'[q].op \in {"idle", "insert"}
    BY <1>2, <1>4
  <1> QED
    BY <1>1, <1>2, <1>5, <1>6 DEF SessionInv, Begun, Given, SweptAfter, InTurn, Ahead, Exact

LEMMA FirstAnnouncement ==
  ASSUME TypeOK, SessionInv, NEW p \in Procs, Announce(p), req[p].op = "inserted"
  PROVE  SessionInv'
  <1>1. row = None /\ row' = None /\ req' = [req EXCEPT ![p] = Req("born", req[p].deadline)]
        /\ (clock' = clock \/ clock' = req[p].deadline)
    BY DEF Announce, SetDeadline, Goes, SessionInv, Begun
  <1>2. req'[p].op = "born" /\ req'[p].deadline = req[p].deadline
        /\ \A q \in Procs \ {p} : req'[q] = req[q]
    BY <1>1 DEF TypeOK, Req
  <1>3. \A q \in Procs \ {p} : req[q].op \in {"idle", "insert"}
    BY <1>1 DEF SessionInv, Begun
  <1>4. clock = None
    BY <1>1, <1>3 DEF SessionInv, Begun
  <1>5. \A q \in Procs \ {p} : req'[q].op \in {"idle", "insert"}
    BY <1>2, <1>3
  <1>6. Begun'
    <2>1. clock' = None \/ (req'[p].op = "born" /\ clock' = req'[p].deadline)
      BY <1>1, <1>2, <1>4
    <2>2. \A q \in Procs : req'[q].op \in {"idle", "insert", "inserted", "born"}
      BY <1>2, <1>5
    <2> QED
      BY <1>1, <1>5, <2>1, <2>2 DEF Begun
  <1>7. SweptAfter'
    BY <1>2, <1>5 DEF SweptAfter
  <1> QED
    BY <1>1, <1>6, <1>7 DEF SessionInv, Given, InTurn, Ahead, Exact

LEMMA CommitStartSession ==
  ASSUME TypeOK, TypeOK', SessionInv, NEW p \in Procs, CommitStart(p)
  PROVE  SessionInv'
  <1> DEFINE d == req[p].deadline
  <1>1. /\ row = None /\ row' = RowOf("in_progress", d) /\ clock' = clock
        /\ promised' = d /\ acked' = d /\ req' = [req EXCEPT ![p] = Idle]
    <2>1. req[p].op = "born"
      BY DEF CommitStart
    <2>2. row = None
      BY <2>1 DEF SessionInv, Begun
    <2> QED
      BY <2>2 DEF CommitStart, Goes
  <1>2. d \in Nat /\ row'.deadline = d /\ row' \in Rows
    BY <1>1 DEF TypeOK, RowOf, Rows
  <1>3. req'[p] = Idle /\ Idle.op = "idle" /\ \A q \in Procs \ {p} : req'[q] = req[q]
    BY <1>1 DEF TypeOK, Idle, Req
  <1>4. \A q \in Procs \ {p} : req[q].op \in {"idle", "insert"}
    BY <1>1 DEF SessionInv, Begun, CommitStart
  <1>5. \A q \in Procs : req'[q].op \in {"idle", "insert"}
    BY <1>3, <1>4
  <1>6. clock = None \/ clock = d
    BY <1>1, <1>4 DEF SessionInv, Begun
  <1>7. row' # None
    BY <1>2, NoneDiffers
  <1> QED
    BY <1>1, <1>2, <1>5, <1>6, <1>7 DEF SessionInv, Begun, Given, SweptAfter, InTurn, Ahead, Exact

LEMMA SecondAnnouncement ==
  ASSUME TypeOK, TypeOK', SessionInv, NEW p \in Procs, row # None, req[p].op \in {"announce", "refill"},
         SetDeadline(req[p].deadline), Goes(p, Idle), UNCHANGED <<row, promised, acked>>
  PROVE  SessionInv'
  <1> DEFINE d == req[p].deadline
  <1>1. /\ row' = row /\ promised' = promised /\ acked' = acked /\ now' = now
        /\ req' = [req EXCEPT ![p] = Idle] /\ flaws \subseteq flaws'
        /\ clock' = clock \/ (clock' = d /\ (d < promised => "stale" \in flaws'))
    BY DEF SetDeadline, Goes, env
  <1>2. d \in Nat /\ row.deadline \in Nat /\ promised \in Nat /\ d <= promised /\ row.deadline <= promised
    BY RowType DEF TypeOK, SessionInv, Given
  <1>3. req'[p] = Idle /\ Idle.op = "idle" /\ \A q \in Procs \ {p} : req'[q] = req[q]
    BY <1>1 DEF TypeOK, Idle, Req
  <1>4. \A q \in Procs : req'[q].op # "idle" => req'[q] = req[q]
    BY <1>3
  <1>5. \A q \in Procs : req[q].op = "granted" => req'[q] = req[q]
    BY <1>3
  <1>6. Begun'
    BY <1>1, <1>4 DEF SessionInv, Begun
  <1>7. Given' /\ SweptAfter' /\ InTurn'
    BY <1>1, <1>2, <1>4 DEF SessionInv, Given, SweptAfter, InTurn
  <1>8. Ahead'
    <2>1. SUFFICES ASSUME clock' # None, flaws' \subseteq {"rolled"}
                   PROVE  /\ row.deadline <= clock'
                          /\ \A q \in Procs : req'[q].op = "granted" => req'[q].deadline <= clock'
      BY <1>1 DEF Ahead
    <2>2. flaws \subseteq {"rolled"} /\ "stale" \notin flaws'
      BY <1>1, <2>1
    <2>3. CASE clock' = clock
      BY <2>1, <2>2, <2>3, <1>4 DEF SessionInv, Ahead
    <2>4. CASE clock' = d /\ ~(d < promised)
      <3>1. clock' = promised
        BY <1>2, <2>4
      <3>2. \A q \in Procs : req'[q].op = "granted" => req'[q].deadline <= promised
        BY <1>4 DEF SessionInv, Given
      <3> QED
        BY <1>2, <3>1, <3>2
    <2> QED
      BY <1>1, <2>2, <2>3, <2>4
  <1>9. Exact'
    <2>1. flaws' = {} => flaws = {} /\ (clock' = clock \/ clock' = promised)
      BY <1>1, <1>2
    <2> QED
      BY <1>1, <1>4, <1>5, <2>1 DEF SessionInv, Exact
  <1> QED
    BY <1>6, <1>7, <1>8, <1>9 DEF SessionInv

LEMMA ExtendSession ==
  ASSUME TypeOK, SessionInv, NEW p \in Procs, Extend(p)
  PROVE  SessionInv'
  <1>1. /\ row # None /\ row' = row /\ clock' = clock /\ promised' = promised /\ acked' = acked
        /\ now' = now /\ flaws \subseteq flaws' /\ req[p] = Idle
        /\ "crossed" \notin flaws' => \A q \in Procs : req[q].op \notin {"extend", "granted"}
        /\ flaws' = {} => flaws = {}
    BY DEF Extend, InProgress, Begin, env
  <1>2. PICK m \in Minutes : req' = [req EXCEPT ![p] = Req("extend", row.deadline + m)]
    BY DEF Extend, Begin
  <1>3. m \in Nat /\ row.deadline \in Nat
    BY <1>1, Bounds, RowType
  <1>4. /\ req'[p].op = "extend" /\ req'[p].deadline = row.deadline + m
        /\ \A q \in Procs \ {p} : req'[q] = req[q]
    BY <1>2 DEF TypeOK, Req
  <1>5. req[p].op = "idle"
    BY <1>1 DEF Idle, Req
  <1>6. \A q \in Procs : req'[q].op # "extend" => req'[q] = req[q]
    BY <1>4
  <1>7. Begun' /\ Given' /\ SweptAfter'
    BY <1>1, <1>4, <1>5, <1>6 DEF SessionInv, Begun, Given, SweptAfter
  <1>8. InTurn'
    <2>1. SUFFICES ASSUME "crossed" \notin flaws'
                   PROVE  /\ acked = row.deadline
                          /\ \A q \in Procs : req'[q].op \in {"extend", "granted"} =>
                                /\ row.deadline <= req'[q].deadline
                                /\ \A r \in Procs : req'[r].op \in {"extend", "granted"} => r = q
                          /\ \A q \in Procs : req'[q].op = "resolve" => req'[q].deadline <= row.deadline
      BY <1>1 DEF InTurn
    <2>2. \A q \in Procs : req'[q].op \in {"extend", "granted"} => q = p
      BY <1>1, <1>4, <2>1
    <2>3. "crossed" \notin flaws
      BY <1>1, <2>1
    <2> QED
      BY <1>1, <1>3, <1>4, <1>6, <2>2, <2>3 DEF SessionInv, InTurn
  <1>9. Ahead' /\ Exact'
    BY <1>1, <1>4, <1>5, <1>6 DEF SessionInv, Ahead, Exact
  <1> QED
    BY <1>7, <1>8, <1>9 DEF SessionInv

LEMMA PublishSession ==
  ASSUME TypeOK, TypeOK', SessionInv, NEW p \in Procs, Publish(p)
  PROVE  SessionInv'
  <1> DEFINE d == req[p].deadline
  <1>1. /\ row' = row /\ acked' = acked /\ now' = now /\ flaws \subseteq flaws'
        /\ clock' = d \/ (clock' = clock /\ "dropped" \in flaws')
        /\ promised' = Later(promised, d)
        /\ "crossed" \in flaws' => "crossed" \in flaws
        /\ req' = [req EXCEPT ![p] = Req("granted", d)] /\ req[p].op = "extend"
    BY DEF Publish, Goes, env
  <1>2. row # None
    BY <1>1 DEF SessionInv, Begun
  <1>3. d \in Nat /\ promised \in Nat /\ row.deadline \in Nat /\ promised' \in Nat
    BY <1>2, RowType DEF TypeOK
  <1>4. promised <= promised' /\ d <= promised'
    BY <1>1, <1>3 DEF Later
  <1>5. /\ req'[p].op = "granted" /\ req'[p].deadline = d
        /\ \A q \in Procs \ {p} : req'[q] = req[q]
    BY <1>1 DEF TypeOK, Req
  <1>6. \A q \in Procs : req'[q].op # "granted" => req'[q] = req[q]
    BY <1>5
  <1>7. \A q \in Procs : req[q].deadline \in Nat
    BY DEF TypeOK
  <1>8. clock = None \/ clock \in Nat
    BY DEF TypeOK
  <1>9. Begun' /\ SweptAfter'
    BY <1>1, <1>2, <1>5, <1>6 DEF SessionInv, Begun, SweptAfter
  <1>10. Given'
    <2>1. row.deadline <= promised'
      BY <1>2, <1>3, <1>4 DEF SessionInv, Given
    <2>2. clock' # None => clock' <= promised'
      BY <1>1, <1>2, <1>3, <1>4, <1>8 DEF SessionInv, Given
    <2>3. \A q \in Procs : req'[q].op \in {"announce", "resolve", "refill", "granted"} =>
             req'[q].deadline <= promised'
      BY <1>2, <1>3, <1>4, <1>5, <1>7 DEF SessionInv, Given
    <2> QED
      BY <1>1, <2>1, <2>2, <2>3 DEF Given
  <1>11. "crossed" \notin flaws =>
            /\ row.deadline <= d
            /\ \A q \in Procs : req'[q].op \in {"extend", "granted"} => q = p
    BY <1>1, <1>2, <1>5 DEF SessionInv, InTurn
  <1>12. InTurn'
    BY <1>1, <1>2, <1>5, <1>6, <1>11 DEF SessionInv, InTurn
  <1>13. Ahead'
    BY <1>1, <1>3, <1>5, <1>11 DEF Ahead
  <1>14. Exact'
    <2>1. SUFFICES ASSUME flaws' = {}
                   PROVE  /\ clock' \in {None, promised'}
                          /\ \A q \in Procs : req'[q].op = "granted" => promised' = req'[q].deadline
                          /\ promised' = row'.deadline \/ \E q \in Procs : req'[q].op = "granted"
      BY DEF Exact
    <2>2. flaws = {} /\ clock' = d
      BY <1>1, <2>1
    <2>3. promised = row.deadline
      BY <1>1, <1>2, <2>2 DEF SessionInv, Exact, InTurn
    <2>4. promised' = d
      BY <1>1, <1>3, <1>11, <2>2, <2>3 DEF Later
    <2> QED
      BY <1>5, <1>11, <2>2, <2>4
  <1> QED
    BY <1>9, <1>10, <1>12, <1>13, <1>14 DEF SessionInv

LEMMA CommitExtendSession ==
  ASSUME TypeOK, TypeOK', SessionInv, NEW p \in Procs, CommitExtend(p)
  PROVE  SessionInv'
  <1> DEFINE d == req[p].deadline
  <1>1. /\ row' = [row EXCEPT !.deadline = d] /\ acked' = Later(acked, d) /\ now' = now
        /\ clock' = clock /\ promised' = promised /\ flaws' = flaws
        /\ req' = [req EXCEPT ![p] = Idle] /\ req[p].op = "granted" /\ ~Locked
    BY DEF CommitExtend, Goes, env
  <1>2. row # None
    BY <1>1 DEF SessionInv, Begun
  <1>3. row \in Rows /\ d \in Nat /\ row.deadline \in Nat /\ acked \in Nat
    BY <1>2, RowType DEF TypeOK
  <1>4. row'.deadline = d /\ row' \in Rows
    BY <1>1, <1>3 DEF Rows
  <1>5. row' # None
    BY <1>4, NoneDiffers
  <1>6. req'[p] = Idle /\ Idle.op = "idle" /\ \A q \in Procs \ {p} : req'[q] = req[q]
    BY <1>1 DEF TypeOK, Idle, Req
  <1>7. \A q \in Procs : req'[q].op # "idle" => req'[q] = req[q] /\ q # p
    BY <1>6
  <1>8. \A q \in Procs : req[q].op \notin {"sweep", "swept"}
    BY <1>1 DEF Locked
  <1>9. Begun' /\ SweptAfter'
    BY <1>1, <1>2, <1>5, <1>7, <1>8 DEF SessionInv, Begun, SweptAfter
  <1>10. Given'
    BY <1>1, <1>2, <1>4, <1>7 DEF SessionInv, Given
  <1>11. "crossed" \notin flaws =>
            /\ row.deadline <= d /\ acked = row.deadline
            /\ \A q \in Procs : req'[q].op \notin {"extend", "granted"}
    BY <1>1, <1>2, <1>7 DEF SessionInv, InTurn
  <1>12. InTurn'
    <2>1. SUFFICES ASSUME "crossed" \notin flaws
                   PROVE  acked' = d /\ \A q \in Procs : req'[q].op = "resolve" => req'[q].deadline <= d
      BY <1>1, <1>4, <1>11 DEF InTurn
    <2>2. acked' = d
      BY <1>1, <1>3, <1>11, <2>1 DEF Later
    <2>3. \A q \in Procs : req[q].op = "resolve" => req[q].deadline <= row.deadline /\ req[q].deadline \in Nat
      BY <1>2, <2>1 DEF SessionInv, InTurn, TypeOK
    <2> QED
      BY <1>3, <1>7, <1>11, <2>1, <2>2, <2>3
  <1>13. Ahead'
    BY <1>1, <1>2, <1>4, <1>7 DEF SessionInv, Ahead
  <1>14. Exact'
    BY <1>1, <1>2, <1>4, <1>7 DEF SessionInv, Exact
  <1> QED
    BY <1>9, <1>10, <1>12, <1>13, <1>14 DEF SessionInv
LEMMA TellSession ==
  ASSUME TypeOK, TypeOK', SessionInv, NEW p \in Procs, Announce(p) \/ Refill(p)
  PROVE  SessionInv'
  <1>1. CASE req[p].op = "inserted"
    BY <1>1, FirstAnnouncement DEF Refill
  <1>2. CASE req[p].op \in {"announce", "refill"}
    <2>1. row # None
      BY <1>2 DEF SessionInv, Begun
    <2>2. SetDeadline(req[p].deadline) /\ Goes(p, Idle) /\ UNCHANGED <<row, promised, acked>>
      BY <1>2 DEF Announce, Refill
    <2> QED
      BY <1>2, <2>1, <2>2, SecondAnnouncement
  <1> QED
    BY <1>1, <1>2 DEF Announce, Refill

LEMMA SessionNext == TypeOK /\ SessionInv /\ [Next]_vars => (TypeOK /\ SessionInv)'
  <1> SUFFICES ASSUME TypeOK, SessionInv, [Next]_vars PROVE TypeOK' /\ SessionInv'
    OBVIOUS
  <1>1. TypeOK'
    BY NextType DEF SessionInv
  <1>2. ASSUME NEW p \in Procs,
               Start(p) \/ Read(p) \/ Submit(p) \/ Sweep(p) \/ (Insert(p) /\ row # None) \/ Hit(p)
                 \/ Miss(p) \/ LockRow(p) \/ ClearAttempt(p) \/ CommitEnd(p)
        PROVE  SessionInv'
    BY <1>1, <1>2, BeginQuiet, WorkQuiet, QuietSteps
  <1>3. ASSUME NEW p \in Procs,
               (Insert(p) /\ row = None) \/ Announce(p) \/ CommitStart(p) \/ Refill(p) \/ Extend(p)
                 \/ Publish(p) \/ CommitExtend(p)
        PROVE  SessionInv'
    BY <1>1, <1>3, InsertSession, TellSession, CommitStartSession, ExtendSession, PublishSession,
       CommitExtendSession
  <1>4. RedisFail \/ RedisRecover \/ Expire \/ Tick \/ UNCHANGED vars \/ (\E p \in Procs : Crash(p))
          => SessionInv'
    BY <1>1, EnvironmentQuiet, QuietSteps
  <1> QED
    BY <1>1, <1>2, <1>3, <1>4 DEF Next

LEMMA Always == Spec => [](TypeOK /\ SessionInv)
  <1>1. Init => TypeOK
    <2>1. ASSUME Init PROVE req \in [Procs -> Requests]
      BY <2>1, ReqType, 0 \in Nat DEF Init, Ops
    <2> QED
      BY <2>1, Bounds DEF Init, TypeOK, Requests
  <1>2. Init => SessionInv
    <2> SUFFICES ASSUME Init PROVE SessionInv
      OBVIOUS
    <2>1. \A p \in Procs : req[p].op = "idle"
      BY DEF Init, Idle, Req
    <2>2. row = None /\ clock = None
      BY DEF Init
    <2> QED
      BY <2>1, <2>2 DEF SessionInv, Begun, Given, SweptAfter, InTurn, Ahead, Exact
  <1> QED
    BY <1>1, <1>2, SessionNext, PTL DEF Spec

\* Every state is well typed: no race of starts, saves, extensions and ends writes to a row
\* that is not there.
THEOREM SessionTyping == Spec => []TypeOK
  BY Always, PTL

\* Redis is exact (set_deadline, resolve_deadline, start_exam, extend_time): with any number
\* of requests and sweeps in flight, through crashes and outages of Redis that lose its
\* data, it holds the deadline of the row or none, unless an extension met a named flaw.
THEOREM ClockIsExact == Spec => []ClockExact
  <1>1. TypeOK /\ SessionInv => ClockExact
    BY DEF SessionInv, Exact, ClockExact, InProgress
  <1> QED
    BY <1>1, Always, PTL

\* No save is accepted later than the grace after a deadline that was given (writable_attempt),
\* whatever fails and however requests interleave.
THEOREM SavedInTime == Spec => SavesInTime
  <1>1. ASSUME TypeOK, SessionInv, NEW p \in Procs, Resolves(p), Accepts(p)
        PROVE  now <= promised + Grace
    <2>1. row # None /\ (req[p].op = "refill" \/ (req[p].op = "resolve" /\ clock # None))
      BY <1>1 DEF Resolves, Hit, Refill, SessionInv, Begun
    <2>2. now \in Nat /\ promised \in Nat /\ req[p].deadline \in Nat /\ Grace \in Nat
      BY HeldType, Bounds, <1>1 DEF TypeOK
    <2>3. clock # None => clock \in Nat /\ clock <= promised
      BY <1>1, <2>1 DEF SessionInv, Given, TypeOK
    <2>4. req[p].op = "refill" => req[p].deadline <= promised
      BY <1>1, <2>1 DEF SessionInv, Given
    <2>5. CASE req[p].op = "refill"
      BY <1>1, <2>2, <2>4, <2>5 DEF Accepts
    <2>6. CASE req[p].op = "resolve" /\ clock # None
      BY <1>1, <2>2, <2>3, <2>6 DEF Accepts
    <2> QED
      BY <2>1, <2>5, <2>6
  <1>2. TypeOK /\ SessionInv /\ [Next]_vars
          => [\A p \in Procs : Resolves(p) /\ Accepts(p) => now <= promised + Grace]_vars
    BY <1>1
  <1> QED
    BY <1>2, Always, PTL DEF Spec, SavesInTime

\* No save is refused before the grace of the deadline its request has read in the row, as
\* long as extensions neither cross nor miss Redis and no older deadline overwrites them.
THEOREM RefusedInTime == Spec => NoEarlyRefusal
  <1>1. ASSUME TypeOK, SessionInv, NEW p \in Procs, Resolves(p), ~Accepts(p), flaws \subseteq {"rolled"}
        PROVE  now > req[p].deadline + Grace
    <2>1. row # None /\ (req[p].op = "refill" \/ (req[p].op = "resolve" /\ clock # None))
      BY <1>1 DEF Resolves, Hit, Refill, SessionInv, Begun
    <2>2. now \in Nat /\ req[p].deadline \in Nat /\ Grace \in Nat /\ row.deadline \in Nat
      BY HeldType, RowType, Bounds, <1>1, <2>1 DEF TypeOK
    <2>3. CASE req[p].op = "refill"
      BY <1>1, <2>2, <2>3 DEF Accepts
    <2>4. CASE req[p].op = "resolve" /\ clock # None
      <3>1. clock \in Nat
        BY <1>1, <2>4 DEF TypeOK
      <3>2. row.deadline <= clock
        BY <1>1, <2>1, <2>4 DEF SessionInv, Ahead
      <3>3. req[p].deadline <= row.deadline
        BY <1>1, <2>1, <2>4 DEF SessionInv, InTurn
      <3> QED
        BY <1>1, <2>2, <2>4, <3>1, <3>2, <3>3 DEF Accepts
    <2> QED
      BY <2>1, <2>3, <2>4
  <1>2. TypeOK /\ SessionInv /\ [Next]_vars
          => [\A p \in Procs : Resolves(p) /\ ~Accepts(p) /\ flaws \subseteq {"rolled"}
                => now > req[p].deadline + Grace]_vars
    BY <1>1
  <1> QED
    BY <1>2, Always, PTL DEF Spec, NoEarlyRefusal

\* The sweeper honours every committed extension (auto_submit_expired against extend_time),
\* unless two of them crossed.
THEOREM GrantsAreHonoured == Spec => GrantsHonoured
  <1>1. ASSUME TypeOK, SessionInv, NEW p \in Procs, CommitEnd(p), req[p].op = "swept", "crossed" \notin flaws
        PROVE  now >= acked
    <2>1. row # None /\ row.deadline <= now
      BY <1>1 DEF SessionInv, Begun, SweptAfter
    <2>2. acked = row.deadline
      BY <1>1, <2>1 DEF SessionInv, InTurn
    <2> QED
      BY <1>1, <2>1, <2>2, RowType DEF TypeOK
  <1>2. TypeOK /\ SessionInv /\ [Next]_vars
          => [\A p \in Procs : CommitEnd(p) /\ req[p].op = "swept" /\ "crossed" \notin flaws
                => now >= acked]_vars
    BY <1>1
  <1> QED
    BY <1>2, Always, PTL DEF Spec, GrantsHonoured
=============================================================================
