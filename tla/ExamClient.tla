----------------------------- MODULE ExamClient -----------------------------
(***************************************************************************)
(* The exam page in the browser against the server: the batching auto-save *)
(* (useAutoSave), the countdown (useExamTimer) and the final submit        *)
(* (finish in Exam.tsx).  The server is what the page sees of it: the      *)
(* answers it has accepted, whether the attempt is finalized, its clock.   *)
(*                                                                         *)
(* JavaScript runs a callback to completion, so an action is the code from *)
(* one await or event to the next.  Requests travel: one save, one         *)
(* heartbeat, one submit at a time, and the request for the exam state.    *)
(* A tick is a second of the server's clock and of the countdown alike.    *)
(***************************************************************************)
EXTENDS Naturals

CONSTANTS Questions,
          Values,      \* contents an answer can have
          None,        \* no answer, or no entry in a map
          Durations,   \* ticks there may be between page load and deadline
          Extension,   \* ticks an invigilator may grant
          Grace,       \* ticks after the deadline in which saves are accepted
          MaxTime,     \* bound: ticks
          MaxEdits,    \* bound: edits
          MaxLosses,   \* bound: requests that fail on the network
          Losable,     \* which requests may fail: "state", "heartbeat", "save", "submit"
          Late,        \* whether a save that failed may still reach the server
          Prompt       \* whether the exam state arrives within the first tick

Requests == {"state", "heartbeat", "save", "submit"}

ASSUME BoundsAssumption ==
    /\ Durations \subseteq Nat /\ Extension \in Nat /\ Grace \in Nat /\ MaxTime \in Nat
    /\ MaxEdits \in Nat /\ MaxLosses \in Nat

ASSUME ValuesAssumption == None \notin Values /\ Losable \subseteq Requests

ASSUME SwitchesAssumption == Late \in BOOLEAN /\ Prompt \in BOOLEAN

VARIABLES
    \* the server: accepted answers, attempt finalized, time, deadline, a save
    \* that the client has given up and that is still under way
    saved, finalized, now, deadline, stray,
    \* the answers on the screen, the pending map, the batch under way
    answers, pending, batch,
    \* save indicator
    indicator,
    \* requests: idle, sent, then how they ended; and the seconds they carry
    save, submit, heartbeat, state, beatSeconds, stateSeconds,
    \* countdown: seconds shown, the expired latch
    seconds, expired,
    \* finish: no, flushing, submitting or done; and its argument auto
    finishing, auto,
    edits, losses

server == <<saved, finalized, now, deadline>>
maps   == <<answers, pending, batch, indicator>>
beats  == <<heartbeat, beatSeconds>>
load   == <<state, stateSeconds>>
timer  == <<seconds, expired>>
finish == <<finishing, auto, submit>>
bounds == <<edits, losses>>
vars   == <<server, stray, maps, save, beats, load, timer, finish, bounds>>

Nothing == [q \in Questions |-> None]
Overlay(old, new) == [q \in Questions |-> IF new[q] # None THEN new[q] ELSE old[q]]

Left == IF deadline > now THEN deadline - now ELSE 0

\* Mutant of Closed: the grace period is taken off the deadline.
ClosedEarly == now + Grace >= deadline

Closed == now > deadline + Grace

\* The page is there: not replaced by the dashboard or the confirmation.
Mounted == finishing # "done" /\ state # "rejected"

\* Mutant of CanFlush: a failed flush is not tried again.
NeverRetries == save = "idle" /\ pending # Nothing /\ indicator # "offline"

\* flush: nothing to do while a request is in flight or nothing is pending.
CanFlush == save = "idle" /\ pending # Nothing
Send(map) == save' = "sent" /\ batch' = map /\ indicator' = "saving"

-----------------------------------------------------------------------------
\* finish(auto), at the call.  It awaits flush, which may be a request of its own
\* or return at once; in the latter case the submit is sent.

StartFinish(a) ==
    /\ auto' = a
    /\ IF CanFlush
       THEN finishing' = "flushing" /\ Send(pending) /\ UNCHANGED submit
       ELSE finishing' = "submitting" /\ submit' = "sent"
            /\ UNCHANGED <<save, batch, indicator>>

\* The countdown reads s: expire once, and finish unless it is under way.
Countdown(s) ==
    /\ seconds' = s
    /\ expired' = (expired \/ s = 0)
    /\ IF s = 0 /\ ~expired /\ finishing = "no"
       THEN StartFinish(TRUE)
       ELSE UNCHANGED <<finish, save, batch, indicator>>

-----------------------------------------------------------------------------
\* The page's own events.

\* update and queue; an immediate change (an option, a review mark) flushes at once.
\* The dialog blocks edits during a manual submit.
Edit(q, v, immediate) ==
    /\ Mounted /\ state = "loaded" /\ (finishing = "no" \/ auto) /\ edits < MaxEdits
    /\ answers' = [answers EXCEPT ![q] = v]
    /\ pending' = [pending EXCEPT ![q] = v]
    /\ IF immediate /\ save = "idle"
       THEN Send(pending')
       ELSE indicator' = "pending" /\ UNCHANGED <<save, batch>>
    /\ edits' = edits + 1
    /\ UNCHANGED <<server, stray, beats, load, timer, finish, losses>>

\* Debounce, safety interval, navigation, hidden tab, network back: they all flush.
Flush ==
    /\ Mounted /\ CanFlush /\ Send(pending)
    /\ UNCHANGED <<server, stray, answers, pending, beats, load, timer, finish, bounds>>

PressSubmit ==
    /\ Mounted /\ state = "loaded" /\ finishing = "no"
    /\ StartFinish(FALSE)
    /\ UNCHANGED <<server, stray, answers, pending, beats, load, timer, bounds>>

SendHeartbeat ==
    /\ Mounted /\ heartbeat = "idle"
    /\ heartbeat' = "sent"
    /\ UNCHANGED <<server, stray, maps, save, beatSeconds, load, timer, finish, bounds>>

\* The exam state is on its way, and Prompt makes time wait for it.
Waiting == Prompt /\ state \in {"sent", "answered"}

\* One second passes and the interval of the countdown fires.  MaxTime ends the model's
\* time; once the deadline is over the countdown goes on, whatever the time is.
Tick ==
    /\ Mounted /\ ~Waiting /\ (now < MaxTime \/ Left = 0)
    /\ now' = IF now < MaxTime THEN now + 1 ELSE now
    /\ Countdown(IF seconds > 0 THEN seconds - 1 ELSE 0)
    /\ UNCHANGED <<saved, finalized, deadline, stray, answers, pending, beats, load, bounds>>

\* One second passes unseen: the browser throttles the tab, or the page is gone.
Throttle ==
    /\ now < MaxTime /\ ~Waiting
    /\ now' = now + 1
    /\ UNCHANGED <<saved, finalized, deadline, stray, maps, save, beats, load, timer,
                   finish, bounds>>

-----------------------------------------------------------------------------
\* The server's side.

\* The checks of active_attempt and writable_attempt, then the buffer.
SaveArrives ==
    /\ save = "sent"
    /\ save' = IF finalized THEN "conflict" ELSE IF Closed THEN "gone" ELSE "ok"
    /\ saved' = IF finalized \/ Closed THEN saved ELSE Overlay(saved, batch)
    /\ UNCHANGED <<finalized, now, deadline, stray, maps, beats, load, timer, finish, bounds>>

\* The save the client has given up.
StrayArrives ==
    /\ stray # Nothing
    /\ saved' = IF finalized \/ Closed THEN saved ELSE Overlay(saved, stray)
    /\ stray' = Nothing
    /\ UNCHANGED <<finalized, now, deadline, maps, save, beats, load, timer, finish, bounds>>

SubmitArrives ==
    /\ submit = "sent"
    /\ submit' = IF finalized THEN "conflict" ELSE "ok"
    /\ finalized' = TRUE
    /\ UNCHANGED <<saved, now, deadline, stray, maps, save, beats, load, timer, finishing,
                   auto, bounds>>

HeartbeatArrives ==
    /\ heartbeat = "sent"
    /\ heartbeat' = IF finalized THEN "conflict" ELSE "answered"
    /\ beatSeconds' = IF finalized THEN beatSeconds ELSE Left
    /\ UNCHANGED <<server, stray, maps, save, load, timer, finish, bounds>>

StateArrives ==
    /\ state = "sent"
    /\ state' = IF finalized THEN "conflict" ELSE "answered"
    /\ stateSeconds' = IF finalized THEN stateSeconds ELSE Left
    /\ UNCHANGED <<server, stray, maps, save, beats, timer, finish, bounds>>

Sweep ==
    /\ ~finalized /\ Left = 0
    /\ finalized' = TRUE
    /\ UNCHANGED <<saved, now, deadline, stray, maps, save, beats, load, timer, finish, bounds>>

\* extend_time, at most once.
Extend ==
    /\ ~finalized /\ deadline \in Durations /\ Extension > 0
    /\ deadline' = deadline + Extension
    /\ UNCHANGED <<saved, finalized, now, stray, maps, save, beats, load, timer, finish, bounds>>

-----------------------------------------------------------------------------
\* Answers come back.

\* Mutant of Acknowledged: clear the map, whatever was edited since.
ClearAll == [q \in Questions |-> IF batch[q] # None THEN None ELSE pending[q]]

\* Only entries equal to what was sent leave the map.
Acknowledged ==
    [q \in Questions |-> IF batch[q] # None /\ pending[q] = batch[q] THEN None
                         ELSE pending[q]]

\* The flush that finish awaits has ended, whatever its outcome.
Proceed ==
    IF finishing = "flushing"
    THEN finishing' = "submitting" /\ submit' = "sent" /\ UNCHANGED auto
    ELSE UNCHANGED finish

SaveAcknowledged ==
    /\ Mounted /\ save = "ok"
    /\ pending' = Acknowledged
    /\ indicator' = IF pending' = Nothing THEN "saved" ELSE "pending"
    /\ save' = "idle" /\ batch' = Nothing
    /\ Proceed
    /\ UNCHANGED <<server, stray, answers, beats, load, timer, bounds>>

\* Mutant of SaveFailed: the batch leaves the map although it was not saved.
DropsFailed ==
    /\ Mounted /\ save \in {"conflict", "lost"}
    /\ pending' = Acknowledged
    /\ indicator' = "offline"
    /\ save' = "idle" /\ batch' = Nothing
    /\ Proceed
    /\ UNCHANGED <<server, stray, answers, beats, load, timer, bounds>>

\* The batch stays in the map; the indicator says offline.  Nothing is thrown.
SaveFailed ==
    /\ Mounted /\ save \in {"conflict", "lost"}
    /\ indicator' = "offline"
    /\ save' = "idle" /\ batch' = Nothing
    /\ Proceed
    /\ UNCHANGED <<server, stray, answers, pending, beats, load, timer, bounds>>

\* 410: onExpired calls finish(true) while the flush still counts as in flight, so
\* that its own flush returns at once.
SaveExpired ==
    /\ Mounted /\ save = "gone"
    /\ save' = "idle" /\ batch' = Nothing
    /\ IF finishing = "no"
       THEN finishing' = "submitting" /\ submit' = "sent" /\ auto' = TRUE
       ELSE Proceed
    /\ UNCHANGED <<server, stray, answers, pending, indicator, beats, load, timer, bounds>>

\* Mutant of SubmitReturns: a conflict is an error like any other.
ReceiptOnly ==
    /\ Mounted /\ submit \in {"ok", "conflict"}
    /\ finishing' = IF submit = "ok" THEN "done" ELSE "no"
    /\ submit' = "idle"
    /\ UNCHANGED <<server, stray, maps, save, beats, load, timer, auto, bounds>>

\* Receipt, or a conflict because somebody else finalized: leave the page.
SubmitReturns ==
    /\ Mounted /\ submit \in {"ok", "conflict"}
    /\ finishing' = "done" /\ submit' = "idle"
    /\ UNCHANGED <<server, stray, maps, save, beats, load, timer, auto, bounds>>

\* Any other failure: show it, and let the student press Submit again.
SubmitFailed ==
    /\ Mounted /\ submit = "lost"
    /\ finishing' = "no" /\ submit' = "idle" /\ auto' = FALSE
    /\ UNCHANGED <<server, stray, maps, save, beats, load, timer, bounds>>

HeartbeatReturns ==
    /\ Mounted /\ heartbeat = "answered"
    /\ heartbeat' = "idle"
    /\ Countdown(beatSeconds)
    /\ UNCHANGED <<server, stray, answers, pending, beatSeconds, load, bounds>>

\* The countdown carries on.
HeartbeatFailed ==
    /\ Mounted /\ heartbeat \in {"conflict", "lost"}
    /\ heartbeat' = "idle"
    /\ UNCHANGED <<server, stray, maps, save, beatSeconds, load, timer, finish, bounds>>

\* The effect on initialSeconds runs only if it changed from its first value, 0; it
\* sets the display and does not look at the latch.  (Nothing is edited or saved
\* before, so the answers read are those the server still has.)
StateReturns ==
    /\ Mounted /\ state = "answered"
    /\ state' = "loaded"
    /\ answers' = saved
    /\ seconds' = IF stateSeconds # 0 THEN stateSeconds ELSE seconds
    /\ UNCHANGED <<server, stray, pending, batch, indicator, save, beats, stateSeconds,
                   expired, finish, bounds>>

\* 409: to the dashboard.  Any other failure: the page shows the error, its hooks run.
StateFails ==
    /\ Mounted /\ state \in {"conflict", "lost"}
    /\ state' = IF state = "conflict" THEN "rejected" ELSE "failed"
    /\ UNCHANGED <<server, stray, maps, save, beats, stateSeconds, timer, finish, bounds>>

-----------------------------------------------------------------------------
\* The network: a request or its response is lost.

Lose(r) == r \in Losable /\ losses < MaxLosses /\ losses' = losses + 1 /\ UNCHANGED edits

\* The client gives the save up; unless it is lost for good the server gets it later.
LoseSave ==
    /\ save \in {"sent", "ok", "gone", "conflict"} /\ Lose("save")
    /\ save' = "lost"
    /\ stray' \in IF Late /\ save = "sent" /\ stray = Nothing THEN {stray, batch} ELSE {stray}
    /\ UNCHANGED <<server, maps, beats, load, timer, finish>>

LoseSubmit ==
    /\ submit \in {"sent", "ok", "conflict"} /\ Lose("submit")
    /\ submit' = "lost"
    /\ UNCHANGED <<server, stray, maps, save, beats, load, timer, finishing, auto>>

LoseHeartbeat ==
    /\ heartbeat \in {"sent", "answered", "conflict"} /\ Lose("heartbeat")
    /\ heartbeat' = "lost"
    /\ UNCHANGED <<server, stray, maps, save, beatSeconds, load, timer, finish>>

LoseState ==
    /\ state \in {"sent", "answered", "conflict"} /\ Lose("state")
    /\ state' = "lost"
    /\ UNCHANGED <<server, stray, maps, save, beats, stateSeconds, timer, finish>>

-----------------------------------------------------------------------------
\* Page load, in any state of the saved answers (a refresh comes back here).
Init ==
    /\ saved \in [Questions -> Values \cup {None}]
    /\ finalized = FALSE /\ now = 0 /\ deadline \in Durations
    /\ stray = Nothing /\ answers = Nothing /\ pending = Nothing /\ batch = Nothing
    /\ indicator = "idle"
    /\ save = "idle" /\ submit = "idle" /\ heartbeat = "sent" /\ state = "sent"
    /\ beatSeconds = 0 /\ stateSeconds = 0
    /\ seconds = 0 /\ expired = FALSE /\ finishing = "no" /\ auto = FALSE
    /\ edits = 0 /\ losses = 0

Page    == \/ \E q \in Questions, v \in Values, immediate \in BOOLEAN : Edit(q, v, immediate)
           \/ Flush \/ PressSubmit \/ SendHeartbeat \/ Tick \/ Throttle
Server  == \/ SaveArrives \/ StrayArrives \/ SubmitArrives \/ HeartbeatArrives
           \/ StateArrives \/ Sweep \/ Extend
Returns == \/ SaveAcknowledged \/ SaveFailed \/ SaveExpired \/ SubmitReturns
           \/ SubmitFailed \/ HeartbeatReturns \/ HeartbeatFailed
           \/ StateReturns \/ StateFails
Network == LoseSave \/ LoseSubmit \/ LoseHeartbeat \/ LoseState

Next == Page \/ Server \/ Returns \/ Network

Spec == Init /\ [][Next]_vars

\* Timers of the page fire (a throttled tab is not throttled for ever), the server
\* answers what reaches it, promises settle.
Fairness ==
    /\ WF_vars(Flush) /\ WF_vars(Tick)
    /\ WF_vars(SaveArrives) /\ WF_vars(SubmitArrives) /\ WF_vars(HeartbeatArrives)
    /\ WF_vars(StateArrives) /\ WF_vars(SendHeartbeat)
    /\ WF_vars(SaveAcknowledged \/ SaveFailed \/ SaveExpired)
    /\ WF_vars(SubmitReturns \/ SubmitFailed)
    /\ WF_vars(HeartbeatReturns \/ HeartbeatFailed) /\ WF_vars(StateReturns \/ StateFails)

FairSpec == Spec /\ Fairness
-----------------------------------------------------------------------------
\* Properties.

AnswerMap == [Questions -> Values \cup {None}]

TypeOK ==
    /\ saved \in AnswerMap /\ answers \in AnswerMap /\ pending \in AnswerMap
    /\ batch \in AnswerMap /\ stray \in AnswerMap
    /\ finalized \in BOOLEAN /\ now \in 0 .. MaxTime /\ deadline \in Nat
    /\ indicator \in {"idle", "pending", "saving", "saved", "offline"}
    /\ save \in {"idle", "sent", "ok", "gone", "conflict", "lost"}
    /\ submit \in {"idle", "sent", "ok", "conflict", "lost"}
    /\ heartbeat \in {"idle", "sent", "answered", "conflict", "lost"}
    /\ state \in {"sent", "answered", "conflict", "lost", "loaded", "rejected", "failed"}
    /\ beatSeconds \in Nat /\ stateSeconds \in Nat /\ seconds \in Nat
    /\ expired \in BOOLEAN /\ auto \in BOOLEAN
    /\ finishing \in {"no", "flushing", "submitting", "done"}
    /\ edits \in 0 .. MaxEdits /\ losses \in 0 .. MaxLosses

\* "The map is only cleared after the server acknowledges": an answer on the screen
\* that the server does not have is in the pending map, for the next flush.
EditsAreKept ==
    state = "loaded" =>
        \A q \in Questions :
            answers[q] # saved[q] => answers[q] # None /\ pending[q] = answers[q]

\* "Saved" is shown only when the server has what the screen shows.
SavedIsSaved == indicator = "saved" => saved = answers

\* The page submits on its own only when the exam is over.
AutoOnlyWhenOver ==
    [][finishing = "no" /\ finishing' # "no" /\ auto' => now' >= deadline]_vars

\* A failed or unfinished save "is retried on the next tick rather than dropped": the
\* page is not left after a manual submit with answers the server never acknowledged.
SubmitDropsNothing == finishing = "done" /\ ~auto => pending = Nothing

\* "A failed flush is retried": as long as the exam runs, a pending answer is flushed
\* once the student stops changing it.
PendingDrains ==
    \A q \in Questions :
        pending[q] # None ~> (pending[q] = None \/ finalized \/ Closed \/ ~Mounted)

\* The page ends on the confirmation (or the dashboard) by itself, unless the deadline
\* lies beyond the model's time.
EventuallyLeaves == <>(~Mounted \/ deadline > MaxTime)

=============================================================================
