-------------------------- MODULE ExamClient_proofs --------------------------
(* Theorems about ExamClient: no edit is dropped while the page is open.      *)
EXTENDS ExamClient, TLAPS

USE DEF AnswerMap, Nothing

(* --------------------------- Type correctness ---------------------------- *)

\* What is left of the exam is a number of seconds.
LEMMA LeftIsNat == ASSUME TypeOK PROVE Left \in Nat
  BY DEF TypeOK, Left

\* Laying one map of answers over another gives a map of answers.
LEMMA OverlayIsMap ==
    ASSUME NEW old \in AnswerMap, NEW new \in AnswerMap
    PROVE  Overlay(old, new) \in AnswerMap
  BY DEF Overlay

\* StartFinish and Countdown keep the types of what they touch.
LEMMA CountdownTyped ==
    ASSUME TypeOK, NEW s \in Nat, Countdown(s) \/ (StartFinish(FALSE) /\ UNCHANGED timer)
    PROVE  /\ seconds' \in Nat /\ expired' \in BOOLEAN /\ auto' \in BOOLEAN
           /\ finishing' \in {"no", "flushing", "submitting", "done"}
           /\ submit' \in {"idle", "sent", "ok", "conflict", "lost"}
           /\ save' \in {"idle", "sent", "ok", "gone", "conflict", "lost"}
           /\ batch' \in AnswerMap
           /\ indicator' \in {"idle", "pending", "saving", "saved", "offline"}
  BY DEF TypeOK, Countdown, StartFinish, CanFlush, Send, finish, timer

LEMMA TypedInit == Init => TypeOK
<1> SUFFICES ASSUME Init PROVE TypeOK
  OBVIOUS
<1>1. Nothing \in AnswerMap /\ 0 \in 0 .. MaxTime /\ 0 \in 0 .. MaxEdits /\ 0 \in 0 .. MaxLosses
  BY BoundsAssumption
<1>2. saved \in AnswerMap /\ stray \in AnswerMap /\ answers \in AnswerMap
      /\ pending \in AnswerMap /\ batch \in AnswerMap
  BY <1>1 DEF Init
<1> QED
  BY <1>1, <1>2, BoundsAssumption DEF Init, TypeOK

\* The steps of the page keep the types.
LEMMA TypedPage == TypeOK /\ Page => TypeOK'
<1> SUFFICES ASSUME TypeOK, Page PROVE TypeOK'
  OBVIOUS
<1> USE BoundsAssumption, SwitchesAssumption
<1>1. CASE \E q \in Questions, v \in Values, immediate \in BOOLEAN : Edit(q, v, immediate)
  <2>1. PICK q \in Questions, v \in Values, immediate \in BOOLEAN : Edit(q, v, immediate)
    BY <1>1
  <2>2. answers' \in AnswerMap /\ pending' \in AnswerMap
    BY <2>1 DEF Edit, TypeOK
  <2>3. batch' \in AnswerMap /\ edits' \in 0 .. MaxEdits
    BY <2>1, <2>2 DEF Edit, Send, TypeOK
  <2> QED
    BY <2>1, <2>2, <2>3 DEF Edit, Send, TypeOK, server, beats, load, timer, finish
<1>2. CASE Flush
  BY <1>2 DEF Flush, Send, TypeOK, server, beats, load, timer, finish, bounds
<1>3. CASE PressSubmit
  BY <1>3, CountdownTyped DEF PressSubmit, TypeOK, server, beats, load, timer, bounds
<1>4. CASE SendHeartbeat
  BY <1>4 DEF SendHeartbeat, TypeOK, server, maps, load, timer, finish, bounds
<1>5. CASE Tick
  <2>1. PICK s \in Nat : Countdown(s)
    BY <1>5 DEF Tick, TypeOK
  <2>2. now' \in 0 .. MaxTime
    BY <1>5 DEF Tick, TypeOK
  <2> QED
    BY <1>5, <2>1, <2>2, CountdownTyped DEF Tick, TypeOK, beats, load, bounds
<1>6. CASE Throttle
  BY <1>6 DEF Throttle, TypeOK, maps, beats, load, timer, finish, bounds
<1> QED
  BY <1>1, <1>2, <1>3, <1>4, <1>5, <1>6 DEF Page

\* The steps of the server and the network keep the types.
LEMMA TypedServer == TypeOK /\ (Server \/ Network) => TypeOK'
<1> SUFFICES ASSUME TypeOK, Server \/ Network PROVE TypeOK'
  OBVIOUS
<1> USE BoundsAssumption
<1> USE DEF maps, beats, load, timer, finish, bounds
<1>1. CASE SaveArrives
  BY <1>1, OverlayIsMap DEF SaveArrives, TypeOK
<1>2. CASE StrayArrives
  BY <1>2, OverlayIsMap DEF StrayArrives, TypeOK
<1>3. CASE SubmitArrives
  BY <1>3 DEF SubmitArrives, TypeOK
<1>4. CASE HeartbeatArrives
  BY <1>4, LeftIsNat DEF HeartbeatArrives, TypeOK, server
<1>5. CASE StateArrives
  BY <1>5, LeftIsNat DEF StateArrives, TypeOK, server
<1>6. CASE Sweep
  BY <1>6 DEF Sweep, TypeOK
<1>7. CASE Extend
  BY <1>7 DEF Extend, TypeOK
<1>8. CASE Network
  BY <1>8 DEF Network, LoseSave, LoseSubmit, LoseHeartbeat, LoseState, Lose, TypeOK, server
<1> QED
  BY <1>1, <1>2, <1>3, <1>4, <1>5, <1>6, <1>7, <1>8 DEF Server

\* The continuations of the page keep the types.
LEMMA TypedReturns == TypeOK /\ Returns => TypeOK'
<1> SUFFICES ASSUME TypeOK, Returns PROVE TypeOK'
  OBVIOUS
<1> USE DEF server, beats, load, timer, bounds
<1>1. CASE SaveAcknowledged
  <2>1. pending' \in AnswerMap
    BY <1>1 DEF SaveAcknowledged, Acknowledged, TypeOK
  <2> QED
    BY <1>1, <2>1 DEF SaveAcknowledged, Proceed, TypeOK, finish
<1>2. CASE SaveFailed
  BY <1>2 DEF SaveFailed, Proceed, TypeOK, finish
<1>3. CASE SaveExpired
  <2>1. /\ finishing' \in {"no", "flushing", "submitting", "done"} /\ auto' \in BOOLEAN
        /\ submit' \in {"idle", "sent", "ok", "conflict", "lost"}
    BY <1>3 DEF SaveExpired, Proceed, TypeOK, finish
  <2> QED
    BY <1>3, <2>1 DEF SaveExpired, TypeOK
<1>4. CASE SubmitReturns
  BY <1>4 DEF SubmitReturns, TypeOK, maps
<1>5. CASE SubmitFailed
  <2>1. auto' \in BOOLEAN /\ finishing' = "no" /\ submit' = "idle"
    BY <1>5 DEF SubmitFailed
  <2> QED
    BY <1>5, <2>1 DEF SubmitFailed, TypeOK, maps
<1>6. CASE HeartbeatFailed
  BY <1>6 DEF HeartbeatFailed, TypeOK, maps, finish
<1>7. CASE StateFails
  BY <1>7 DEF StateFails, TypeOK, maps, finish
<1>8. CASE HeartbeatReturns
  <2>1. PICK s \in Nat : Countdown(s)
    BY <1>8 DEF HeartbeatReturns, TypeOK
  <2> QED
    BY <1>8, <2>1, CountdownTyped DEF HeartbeatReturns, TypeOK
<1>9. CASE StateReturns
  BY <1>9 DEF StateReturns, TypeOK, finish
<1> QED
  BY <1>1, <1>2, <1>3, <1>4, <1>5, <1>6, <1>7, <1>8, <1>9 DEF Returns

\* Every variable of the page and of the server it talks to keeps its type, whatever is
\* lost and however late it arrives (useAutoSave, useExamTimer, Exam.tsx).
THEOREM ClientTyping == Spec => []TypeOK
<1>1. TypeOK /\ [Next]_vars => TypeOK'
  <2> SUFFICES ASSUME TypeOK, [Next]_vars PROVE TypeOK'
    OBVIOUS
  <2>1. CASE Next
    BY <2>1, TypedPage, TypedServer, TypedReturns DEF Next
  <2>2. CASE UNCHANGED vars
    BY <2>2 DEF TypeOK, vars, server, maps, beats, load, timer, finish, bounds
  <2> QED
    BY <2>1, <2>2
<1> QED
  BY <1>1, TypedInit, PTL DEF Spec

(* ------------------------- The pending map -------------------------------- *)

\* The page and its requests: what is pending is on the screen of a loaded page; what is
\* under way is still pending; what the server accepted is what it has.
PendingShown == \A q \in Questions : pending[q] # None => pending[q] = answers[q]
PendingLoaded == state # "loaded" => pending = Nothing /\ save = "idle"
BatchPending == \A q \in Questions : save # "idle" /\ batch[q] # None => pending[q] # None
AckedIsSaved == save = "ok" => \A q \in Questions : batch[q] # None => saved[q] = batch[q]
SavedIsIdle  == indicator = "saved" => state = "loaded" /\ pending = Nothing /\ save = "idle"

\* The inductive invariant, for a network on which a save that failed arrives no more.
KeepInv == /\ TypeOK /\ stray = Nothing /\ EditsAreKept
           /\ PendingShown /\ PendingLoaded /\ BatchPending /\ AckedIsSaved /\ SavedIsIdle

\* Steps that leave the answers alone, or that send the pending map.
QuietStep == /\ UNCHANGED <<saved, stray, answers, pending, batch, save, indicator>>
             /\ state = "loaded" <=> state' = "loaded"
SendStep  == /\ CanFlush /\ Send(pending)
             /\ UNCHANGED <<saved, stray, answers, pending, state>>

USE DEF EditsAreKept, PendingShown, PendingLoaded, BatchPending, AckedIsSaved, SavedIsIdle

LEMMA KeptByQuietAndSend ==
    ASSUME KeepInv, TypeOK', QuietStep \/ SendStep
    PROVE  KeepInv'
<1>1. CASE QuietStep
  BY <1>1 DEF KeepInv, QuietStep
<1>2. CASE SendStep
  <2>1. state = "loaded"
    BY <1>2 DEF KeepInv, SendStep, CanFlush
  <2> QED
    BY <1>2, <2>1 DEF KeepInv, SendStep, CanFlush, Send
<1> QED
  BY <1>1, <1>2

\* A countdown, or the start of finish, is one of the two.
LEMMA CountdownSends ==
    ASSUME NEW s, Countdown(s) \/ StartFinish(FALSE),
           UNCHANGED <<saved, stray, answers, pending, state>>
    PROVE  QuietStep \/ SendStep
  BY DEF Countdown, StartFinish, QuietStep, SendStep

\* An edit is pending at once, and under way too if it is immediate.
LEMMA KeptByEdit ==
    ASSUME KeepInv, TypeOK', NEW q \in Questions, NEW v \in Values,
           NEW immediate \in BOOLEAN, Edit(q, v, immediate)
    PROVE  KeepInv'
<1> USE DEF Edit, server
<1>1. answers[q]' = v /\ pending[q]' = v /\ v # None
  BY ValuesAssumption DEF KeepInv, TypeOK
<1>2. \A p \in Questions \ {q} : answers[p]' = answers[p] /\ pending[p]' = pending[p]
  BY DEF KeepInv, TypeOK
<1>3. indicator' # "saved" /\ stray' = Nothing /\ saved' = saved /\ state' = state
  BY DEF KeepInv, Send, load
<1>4. EditsAreKept' /\ PendingShown'
  BY <1>1, <1>2, <1>3 DEF KeepInv
<1>5. state = "loaded"
  OBVIOUS
<1>6. BatchPending' /\ AckedIsSaved'
  <2>1. CASE immediate /\ save = "idle"
    BY <2>1 DEF Send
  <2>2. CASE ~(immediate /\ save = "idle")
    BY <2>2, <1>1, <1>2, <1>3 DEF KeepInv
  <2> QED
    BY <2>1, <2>2
<1> QED
  BY <1>3, <1>4, <1>5, <1>6 DEF KeepInv

\* The server takes the batch, which is still pending.
LEMMA KeptBySaveArrives == KeepInv /\ TypeOK' /\ SaveArrives => KeepInv'
<1> SUFFICES ASSUME KeepInv, TypeOK', SaveArrives PROVE KeepInv'
  OBVIOUS
<1>1. UNCHANGED <<stray, answers, pending, batch, indicator, state>> /\ save = "sent" /\ save' # "idle"
  BY DEF SaveArrives, maps, load
<1>2. \A q \in Questions :
        saved'[q] = saved[q] \/ (batch[q] # None /\ saved'[q] = batch[q])
  BY DEF SaveArrives, Overlay, KeepInv, TypeOK
<1>3. EditsAreKept'
  BY <1>1, <1>2 DEF KeepInv
<1>4. AckedIsSaved'
  BY <1>1 DEF SaveArrives, Overlay, KeepInv, TypeOK
<1> QED
  BY <1>1, <1>3, <1>4 DEF KeepInv

\* An acknowledged entry leaves the map only if it is still what was sent, and then the
\* server has it.
LEMMA KeptByAcknowledged == KeepInv /\ TypeOK' /\ SaveAcknowledged => KeepInv'
<1> SUFFICES ASSUME KeepInv, TypeOK', SaveAcknowledged PROVE KeepInv'
  OBVIOUS
<1>1. UNCHANGED <<saved, stray, answers, state>> /\ state = "loaded" /\ save' = "idle"
  BY DEF SaveAcknowledged, KeepInv, server, load
<1>2. \A q \in Questions : pending'[q] = pending[q]
                           \/ (pending'[q] = None /\ pending[q] = saved[q])
  BY DEF SaveAcknowledged, Acknowledged, KeepInv
<1>3. EditsAreKept' /\ PendingShown'
  BY <1>1, <1>2 DEF KeepInv
<1>4. SavedIsIdle'
  BY <1>1 DEF SaveAcknowledged
<1> QED
  BY <1>1, <1>3, <1>4 DEF KeepInv

\* The remaining steps that end a save or load the answers.
LEMMA KeptByEnd ==
    ASSUME KeepInv, TypeOK', Late = FALSE,
           SaveFailed \/ SaveExpired \/ LoseSave \/ StateReturns
    PROVE  KeepInv'
<1>1. CASE SaveFailed
  BY <1>1 DEF SaveFailed, KeepInv, server, load
<1>2. CASE SaveExpired
  BY <1>2 DEF SaveExpired, KeepInv, server, load
<1>3. CASE LoseSave
  BY <1>3 DEF LoseSave, KeepInv, server, maps, load
<1>4. CASE StateReturns
  BY <1>4 DEF StateReturns, KeepInv, server
<1> QED
  BY <1>1, <1>2, <1>3, <1>4

\* Every other step is quiet or sends.
LEMMA OthersSend ==
    ASSUME KeepInv,
           \/ Flush \/ PressSubmit \/ SendHeartbeat \/ Tick \/ Throttle
           \/ SubmitArrives \/ HeartbeatArrives \/ StateArrives \/ Sweep \/ Extend
           \/ SubmitReturns \/ SubmitFailed \/ HeartbeatReturns \/ HeartbeatFailed
           \/ StateFails \/ LoseSubmit \/ LoseHeartbeat \/ LoseState
    PROVE  QuietStep \/ SendStep
<1> USE DEF server, maps, load, QuietStep
<1>1. CASE Flush
  BY <1>1 DEF Flush, SendStep
<1>2. CASE PressSubmit
  BY <1>2, CountdownSends DEF PressSubmit
<1>3. CASE Tick
  BY <1>3, CountdownSends DEF Tick
<1>4. CASE HeartbeatReturns
  BY <1>4, CountdownSends DEF HeartbeatReturns
<1>5. CASE SendHeartbeat \/ Throttle
  BY <1>5 DEF SendHeartbeat, Throttle
<1>6. CASE SubmitArrives \/ HeartbeatArrives \/ StateArrives \/ Sweep \/ Extend
  BY <1>6 DEF SubmitArrives, HeartbeatArrives, StateArrives, Sweep, Extend
<1>7. CASE SubmitReturns \/ SubmitFailed \/ HeartbeatFailed \/ StateFails
  BY <1>7 DEF SubmitReturns, SubmitFailed, HeartbeatFailed, StateFails
<1>8. CASE LoseSubmit \/ LoseHeartbeat \/ LoseState
  BY <1>8 DEF LoseSubmit, LoseHeartbeat, LoseState
<1> QED
  BY <1>1, <1>2, <1>3, <1>4, <1>5, <1>6, <1>7, <1>8

LEMMA KeptByNext == KeepInv /\ TypeOK' /\ Late = FALSE /\ [Next]_vars => KeepInv'
<1> SUFFICES ASSUME KeepInv, TypeOK', Late = FALSE, [Next]_vars PROVE KeepInv'
  OBVIOUS
<1>1. CASE \E q \in Questions, v \in Values, immediate \in BOOLEAN : Edit(q, v, immediate)
  BY <1>1, KeptByEdit
<1>2. CASE SaveArrives \/ SaveAcknowledged
  BY <1>2, KeptBySaveArrives, KeptByAcknowledged
<1>3. CASE SaveFailed \/ SaveExpired \/ LoseSave \/ StateReturns
  BY <1>3, KeptByEnd
<1>4. CASE StrayArrives
  BY <1>4 DEF StrayArrives, KeepInv
<1>5. CASE UNCHANGED vars
  BY <1>5, KeptByQuietAndSend DEF QuietStep, vars, server, maps, load
<1>6. CASE \/ Flush \/ PressSubmit \/ SendHeartbeat \/ Tick \/ Throttle
           \/ SubmitArrives \/ HeartbeatArrives \/ StateArrives \/ Sweep \/ Extend
           \/ SubmitReturns \/ SubmitFailed \/ HeartbeatReturns \/ HeartbeatFailed
           \/ StateFails \/ LoseSubmit \/ LoseHeartbeat \/ LoseState
  BY <1>6, OthersSend, KeptByQuietAndSend
<1> QED
  BY <1>1, <1>2, <1>3, <1>4, <1>5, <1>6 DEF Next, Page, Server, Returns, Network

LEMMA KeptInit == Init => KeepInv
  BY TypedInit DEF Init, KeepInv

\* useAutoSave drops no edit while the page is open: if a failed save does not arrive late,
\* an answer on the screen that the server does not have is in the pending map, for every
\* exam, every timing and every loss of requests.
THEOREM EditsKept == ASSUME Late = FALSE PROVE Spec => []EditsAreKept
<1>1. KeepInv /\ TypeOK' /\ [Next]_vars => KeepInv'
  BY KeptByNext
<1>2. Init => KeepInv
  BY KeptInit
<1>3. KeepInv => EditsAreKept
  BY DEF KeepInv
<1> QED
  BY <1>1, <1>2, <1>3, ClientTyping, PTL DEF Spec

\* Under the same assumption the indicator tells the truth: "saved" is shown only while the
\* server has every answer on the screen.
THEOREM SavedShown == ASSUME Late = FALSE PROVE Spec => []SavedIsSaved
<1>1. KeepInv /\ TypeOK' /\ [Next]_vars => KeepInv'
  BY KeptByNext
<1>2. Init => KeepInv
  BY KeptInit
<1>3. KeepInv => SavedIsSaved
  <2> SUFFICES ASSUME KeepInv, indicator = "saved" PROVE saved = answers
    BY DEF SavedIsSaved
  <2>1. \A q \in Questions : saved[q] = answers[q]
    BY DEF KeepInv
  <2> QED
    BY <2>1 DEF KeepInv, TypeOK
<1> QED
  BY <1>1, <1>2, <1>3, ClientTyping, PTL DEF Spec

(* --------------------------- The countdown -------------------------------- *)

HIDE DEF EditsAreKept, PendingShown, PendingLoaded, BatchPending, AckedIsSaved, SavedIsIdle

\* The inductive invariant: whatever the page shows, was told or is about to be told is no
\* less than what is left; and what happens without a loaded page happens afterwards.
Over == now >= deadline
OverInv ==
    /\ TypeOK
    /\ state = "loaded" => now + seconds >= deadline
    /\ heartbeat = "answered" => now + beatSeconds >= deadline
    /\ state = "answered" => now + stateSeconds >= deadline
    /\ state \notin {"sent", "answered", "loaded"} => Over
    /\ save = "gone" => Over
    /\ finishing = "no" => submit = "idle"
    /\ state # "loaded" /\ (finalized \/ finishing # "no") => Over

\* What AutoOnlyWhenOver says of one step.
AutoStep == finishing = "no" /\ finishing' # "no" /\ auto' => now' >= deadline

LEMMA LeftIsEnough == ASSUME TypeOK PROVE now + Left >= deadline /\ (Left = 0 => Over)
  BY DEF TypeOK, Left, Over

\* What was enough is enough later.
LEMMA LaterIsEnough ==
    ASSUME NEW t \in Nat, NEW u \in Nat, NEW s \in Nat, NEW d \in Nat, t + s >= d, u >= t
    PROVE  u + s >= d
  OBVIOUS

\* A countdown to at least what is left finishes the exam only when it is over.
LEMMA CountdownOver ==
    ASSUME OverInv, TypeOK', NEW s \in Nat, Countdown(s), deadline' = deadline,
           now' \in Nat, now' >= now, save # "gone" => save' # "gone",
           UNCHANGED <<state, stateSeconds, beatSeconds, finalized>>,
           heartbeat' = "answered" => heartbeat = "answered",
           now' + s >= deadline \/ (state # "loaded" /\ s # 0)
    PROVE  OverInv' /\ AutoStep
<1>0. now \in Nat /\ deadline \in Nat
  BY DEF OverInv, TypeOK
<1>1. s = 0 => now' >= deadline
  <2> SUFFICES ASSUME s = 0 PROVE now' >= deadline
    OBVIOUS
  <2>1. now' + 0 >= deadline
    OBVIOUS
  <2> QED
    BY <2>1
<1>2. seconds' = s /\ (finishing' # finishing \/ submit' # submit => s = 0)
  BY DEF Countdown, StartFinish, finish
<1>3. AutoStep
  BY <1>1, <1>2 DEF AutoStep
<1>4. Over => Over'
  BY <1>0 DEF Over
<1>5. heartbeat' = "answered" => now' + beatSeconds' >= deadline'
  <2> SUFFICES ASSUME heartbeat' = "answered" PROVE now' + beatSeconds' >= deadline'
    OBVIOUS
  <2>1. beatSeconds \in Nat /\ beatSeconds' = beatSeconds
    BY DEF OverInv, TypeOK
  <2>2. now + beatSeconds >= deadline
    BY DEF OverInv
  <2>3. now' + beatSeconds >= deadline
    BY <2>1, <2>2, <1>0, LaterIsEnough
  <2> QED
    BY <2>1, <2>3
<1>6. state' = "answered" => now' + stateSeconds' >= deadline'
  <2> SUFFICES ASSUME state' = "answered" PROVE now' + stateSeconds' >= deadline'
    OBVIOUS
  <2>1. stateSeconds \in Nat /\ stateSeconds' = stateSeconds
    BY DEF OverInv, TypeOK
  <2>2. now + stateSeconds >= deadline
    BY DEF OverInv
  <2>3. now' + stateSeconds >= deadline
    BY <2>1, <2>2, <1>0, LaterIsEnough
  <2> QED
    BY <2>1, <2>3
<1>7. state' = "loaded" => now' + seconds' >= deadline'
  BY <1>2
<1>8. state' # "loaded" /\ (finalized' \/ finishing' # "no") => Over'
  BY <1>1, <1>2, <1>4 DEF OverInv, Over
<1>9. finishing' = "no" => submit' = "idle"
  BY DEF Countdown, StartFinish, finish, OverInv
<1> QED
  BY <1>3, <1>4, <1>5, <1>6, <1>7, <1>8, <1>9 DEF OverInv

\* Ticks and heartbeats.
LEMMA OverByTimer ==
    ASSUME OverInv, TypeOK', Prompt, Tick \/ HeartbeatReturns
    PROVE  OverInv' /\ AutoStep
<1>1. CASE Tick
  <2> DEFINE s == IF seconds > 0 THEN seconds - 1 ELSE 0
  <2>1. s \in Nat /\ Countdown(s) /\ deadline' = deadline /\ now' \in Nat /\ now' >= now
    BY <1>1 DEF Tick, OverInv, TypeOK
  <2>2. state = "loaded" \/ Over
    BY <1>1 DEF Tick, Waiting, OverInv, TypeOK
  <2>3. now' + s >= deadline
    BY <1>1, <2>2, LeftIsEnough DEF Tick, OverInv, TypeOK, Over
  <2>4. save # "gone" => save' # "gone"
    BY <2>1 DEF Countdown, StartFinish, Send
  <2>5. UNCHANGED <<state, stateSeconds, beatSeconds, finalized, heartbeat>>
    BY <1>1 DEF Tick, beats, load
  <2> HIDE DEF s
  <2> QED
    BY <2>1, <2>3, <2>4, <2>5, CountdownOver
<1>2. CASE HeartbeatReturns
  <2>1. beatSeconds \in Nat /\ Countdown(beatSeconds) /\ now + beatSeconds >= deadline
    BY <1>2 DEF HeartbeatReturns, OverInv, TypeOK
  <2>2. save # "gone" => save' # "gone"
    BY <2>1 DEF Countdown, StartFinish, Send
  <2>3. now' = now /\ now \in Nat /\ heartbeat' # "answered"
        /\ UNCHANGED <<deadline, state, stateSeconds, beatSeconds, finalized>>
    BY <1>2 DEF HeartbeatReturns, server, load, OverInv, TypeOK
  <2> QED
    BY <1>2, <2>1, <2>2, <2>3, CountdownOver DEF HeartbeatReturns
<1> QED
  BY <1>1, <1>2

\* Steps of the page that start no submit by themselves.
LEMMA OverByPage ==
    ASSUME OverInv, TypeOK',
           \/ \E q \in Questions, v \in Values, immediate \in BOOLEAN : Edit(q, v, immediate)
           \/ Flush \/ PressSubmit \/ SendHeartbeat \/ Throttle
    PROVE  OverInv' /\ AutoStep
<1> USE DEF OverInv, AutoStep, Over, server, load, timer, beats
<1>1. CASE \E q \in Questions, v \in Values, immediate \in BOOLEAN : Edit(q, v, immediate)
  BY <1>1 DEF Edit, Send, finish
<1>2. CASE Flush
  BY <1>2 DEF Flush, Send, finish
<1>3. CASE PressSubmit
  BY <1>3 DEF PressSubmit, StartFinish, Send
<1>4. CASE SendHeartbeat
  BY <1>4 DEF SendHeartbeat, finish
<1>5. CASE Throttle
  BY <1>5 DEF Throttle, finish, TypeOK
<1> QED
  BY <1>1, <1>2, <1>3, <1>4, <1>5

\* The server and the network, if nobody extends the exam and its state is not lost.
LEMMA OverByServer ==
    ASSUME OverInv, TypeOK', Extension = 0, "state" \notin Losable, Server \/ Network
    PROVE  OverInv' /\ AutoStep
<1> USE DEF OverInv, AutoStep, Over, load, timer, beats, finish
<1>1. CASE SaveArrives
  <2>1. save' = "gone" => Over
    BY <1>1, BoundsAssumption DEF SaveArrives, Closed, TypeOK
  <2> QED
    BY <1>1, <2>1 DEF SaveArrives
<1>2. CASE StrayArrives \/ SubmitArrives
  BY <1>2 DEF StrayArrives, SubmitArrives, maps
<1>3. CASE HeartbeatArrives
  BY <1>3, LeftIsEnough DEF HeartbeatArrives, server
<1>4. CASE StateArrives
  BY <1>4, LeftIsEnough DEF StateArrives, server
<1>5. CASE Sweep
  BY <1>5, LeftIsEnough DEF Sweep
<1>6. CASE Extend
  BY <1>6 DEF Extend
<1>7. CASE Network
  BY <1>7 DEF Network, LoseSave, LoseSubmit, LoseHeartbeat, LoseState, Lose, server
<1> QED
  BY <1>1, <1>2, <1>3, <1>4, <1>5, <1>6, <1>7 DEF Server

\* The other continuations: a save answered with 410 is the only one to start a submit.
LEMMA OverByReturns ==
    ASSUME OverInv, TypeOK', Returns, ~HeartbeatReturns
    PROVE  OverInv' /\ AutoStep
<1> USE DEF OverInv, AutoStep, Over, server, load, timer, beats
<1>1. CASE SaveAcknowledged \/ SaveFailed
  BY <1>1 DEF SaveAcknowledged, SaveFailed, Proceed, finish
<1>2. CASE SaveExpired
  BY <1>2 DEF SaveExpired, Proceed, finish
<1>3. CASE SubmitReturns
  BY <1>3 DEF SubmitReturns
<1>6. CASE SubmitFailed
  BY <1>6 DEF SubmitFailed
<1>4. CASE HeartbeatFailed \/ StateFails
  BY <1>4 DEF HeartbeatFailed, StateFails, finish
<1>5. CASE StateReturns
  BY <1>5 DEF StateReturns, finish, TypeOK
<1> QED
  BY <1>1, <1>2, <1>3, <1>4, <1>5, <1>6 DEF Returns

LEMMA OverByNext ==
    ASSUME Prompt, Extension = 0, "state" \notin Losable
    PROVE  OverInv /\ TypeOK' /\ [Next]_vars => OverInv' /\ [AutoStep]_vars
<1> SUFFICES ASSUME OverInv, TypeOK', [Next]_vars PROVE OverInv' /\ [AutoStep]_vars
  OBVIOUS
<1>1. CASE UNCHANGED vars
  BY <1>1 DEF OverInv, Over, vars, server, maps, beats, load, timer, finish
<1>2. CASE Page
  BY <1>2, OverByPage, OverByTimer DEF Page
<1>3. CASE Server \/ Network
  BY <1>3, OverByServer
<1>4. CASE Returns
  BY <1>4, OverByReturns, OverByTimer
<1> QED
  BY <1>1, <1>2, <1>3, <1>4 DEF Next

\* If the exam state arrives before the first tick and is not lost, and nobody extends the
\* exam, the countdown, the heartbeats and the 410 of a save start the automatic submit
\* only when the deadline is reached, whatever is delayed or lost besides.
THEOREM AutoSubmitInTime ==
    ASSUME Prompt, Extension = 0, "state" \notin Losable
    PROVE  Spec => AutoOnlyWhenOver
<1>1. OverInv /\ TypeOK' /\ [Next]_vars => OverInv' /\ [AutoStep]_vars
  BY OverByNext
<1>2. Init => OverInv
  BY TypedInit DEF Init, OverInv, Over
<1> QED
  BY <1>1, <1>2, ClientTyping, PTL DEF Spec, AutoOnlyWhenOver, AutoStep

=============================================================================
