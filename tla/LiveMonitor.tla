---------------------------- MODULE LiveMonitor ----------------------------
(***************************************************************************)
(* The live monitor of one exam: changes in Postgres, the marker that goes *)
(* over Redis pub/sub to every web worker, the listener of each worker     *)
(* that rebuilds the snapshot and sends it to the sockets the worker holds *)
(* (pubsub.py, ws_manager.py, services/monitor.py, live_monitor_ws), and   *)
(* the browser's socket with its reconnect.                                *)
(*                                                                         *)
(* A snapshot is abstracted to the set of changes it shows.                *)
(***************************************************************************)
EXTENDS Naturals, FiniteSets

CONSTANTS Changes,
          Late,     \* flush and sweeper: the commit comes before the marker
          Early,    \* start, heartbeat, submit: the marker comes before the commit
          Workers, Monitors, None,
          MaxFaults

ASSUME MonitorAssumption ==
    Late \cup Early \subseteq Changes /\ Late \cap Early = {} /\ MaxFaults \in Nat

VARIABLES
    db,        \* the changes that are committed
    marked,    \* the changes whose marker was published
    channel,   \* markers a listener has not taken yet
    listener,  \* what each listener does, and the snapshot it has built
    socket,    \* of each monitor: its worker, how far the handler is, its first snapshot
    view,      \* what the browser shows
    faults,
    \* History: monitors that may show an old snapshot: of a change that was published
    \* before its commit or never, for a marker that was lost, for a snapshot overtaken.
    stale

vars == <<db, marked, channel, listener, socket, view, faults, stale>>

Listener(op, snap)   == [op |-> op, snap |-> snap]
Listening            == Listener("listening", {})
Socket(at, state, snap) == [snap |-> snap, at |-> at, state |-> state]
Offline              == Socket(None, "offline", {})

\* Mutant of Room: a socket enters it after its first snapshot.
RoomOpen(w) == {c \in Monitors : socket[c].at = w /\ socket[c].state = "open"}

\* The sockets in the room of worker w.
Room(w) == {c \in Monitors : socket[c].at = w /\ socket[c].state \in {"joined", "read", "open"}}

-----------------------------------------------------------------------------
\* Changes: starts, heartbeats, submits, flushes, sweeps; an extension and a forced
\* submit are neither Late nor Early and publish nothing.

WillRead(w) == channel[w] > 0 \/ listener[w].op = "building"

\* Browser c is sent a snapshot without a change it has shown, and nothing will follow.
Overtaken(c, snap, w) ==
    ~WillRead(w) /\ \E x \in view[c] \ snap : x \notin Late \/ x \in marked

\* A browser whose worker is not going to build a snapshot any more.
Unaware == {c \in Monitors : \E w \in Workers : c \in Room(w) /\ ~WillRead(w)}

Commit(x) ==
    /\ x \notin db /\ (x \in Early => x \in marked)
    /\ db' = db \cup {x}
    /\ stale' = IF x \in Late THEN stale ELSE stale \cup Unaware
    /\ UNCHANGED <<marked, channel, listener, socket, view, faults>>

Subscribed == {w \in Workers : listener[w].op # "down"}

Publish(x) ==
    /\ x \in (Late \cap db) \cup Early /\ x \notin marked
    /\ marked' = marked \cup {x}
    /\ channel' = [w \in Workers |-> channel[w] + IF w \in Subscribed THEN 1 ELSE 0]
    /\ stale' = stale \cup UNION {Room(w) : w \in Workers \ Subscribed}
    /\ UNCHANGED <<db, listener, socket, view, faults>>

\* Redis fails: it is logged, or not even that.
PublishFails(x) ==
    /\ x \in (Late \cap db) \cup Early /\ x \notin marked
    /\ faults < MaxFaults /\ faults' = faults + 1
    /\ marked' = marked \cup {x}
    /\ stale' = stale \cup UNION {Room(w) : w \in Workers}
    /\ UNCHANGED <<db, channel, listener, socket, view>>

-----------------------------------------------------------------------------
\* live_update_listener

\* A marker of an exam that nobody watches here is dropped.
Hear(w) ==
    /\ listener[w] = Listening /\ channel[w] > 0
    /\ channel' = [channel EXCEPT ![w] = @ - 1]
    /\ listener' = [listener EXCEPT ![w] = IF Room(w) = {} THEN Listening
                                           ELSE Listener("building", {})]
    /\ UNCHANGED <<db, marked, socket, view, faults, stale>>

\* What happened so far will be shown.
Build(w) ==
    /\ listener[w].op = "building"
    /\ listener' = [listener EXCEPT ![w] = Listener("built", db)]
    /\ stale' = stale \ Room(w)
    /\ UNCHANGED <<db, marked, channel, socket, view, faults>>

Broadcast(w) ==
    /\ listener[w].op = "built"
    /\ view' = [c \in Monitors |-> IF c \in Room(w) THEN listener[w].snap ELSE view[c]]
    /\ stale' = stale \cup {c \in Room(w) : Overtaken(c, listener[w].snap, w)}
    /\ listener' = [listener EXCEPT ![w] = Listening]
    /\ UNCHANGED <<db, marked, channel, socket, faults>>

\* The subscription breaks; a second later there is a new one.
ListenerDown(w) ==
    /\ listener[w].op # "down" /\ faults < MaxFaults /\ faults' = faults + 1
    /\ listener' = [listener EXCEPT ![w] = Listener("down", {})]
    /\ channel' = [channel EXCEPT ![w] = 0]
    /\ stale' = stale \cup (IF channel[w] > 0 \/ listener[w].op # "listening" THEN Room(w) ELSE {})
    /\ UNCHANGED <<db, marked, socket, view>>

Resubscribe(w) ==
    /\ listener[w].op = "down"
    /\ listener' = [listener EXCEPT ![w] = Listening]
    /\ UNCHANGED <<db, marked, channel, socket, view, faults, stale>>

-----------------------------------------------------------------------------
\* live_monitor_ws and useLiveMonitorSocket

\* The socket enters the room before its first snapshot is read.
Connect(c, w) ==
    /\ socket[c] = Offline
    /\ socket' = [socket EXCEPT ![c] = Socket(w, "joined", {})]
    /\ UNCHANGED <<db, marked, channel, listener, view, faults, stale>>

FirstRead(c) ==
    /\ socket[c].state = "joined"
    /\ socket' = [socket EXCEPT ![c].state = "read", ![c].snap = db]
    /\ stale' = stale \ {c}
    /\ UNCHANGED <<db, marked, channel, listener, view, faults>>

FirstSend(c) ==
    /\ socket[c].state = "read"
    /\ socket' = [socket EXCEPT ![c].state = "open", ![c].snap = {}]
    /\ view' = [view EXCEPT ![c] = socket[c].snap]
    /\ stale' = stale \cup
          (IF Overtaken(c, socket[c].snap, socket[c].at) THEN {c} ELSE {})
    /\ UNCHANGED <<db, marked, channel, listener, faults>>

\* The connection is lost; the browser tries again five seconds later.
Drop(c) ==
    /\ socket[c] # Offline /\ faults < MaxFaults /\ faults' = faults + 1
    /\ socket' = [socket EXCEPT ![c] = Offline]
    /\ UNCHANGED <<db, marked, channel, listener, view, stale>>

-----------------------------------------------------------------------------

Init ==
    /\ db = {} /\ marked = {} /\ faults = 0 /\ stale = {}
    /\ channel = [w \in Workers |-> 0] /\ listener = [w \in Workers |-> Listening]
    /\ socket = [c \in Monitors |-> Offline] /\ view = [c \in Monitors |-> {}]

\* Mutant of Browse: after an error the browser does not connect again.
BrowseOnce(c) ==
    \/ faults = 0 /\ \E w \in Workers : Connect(c, w)
    \/ FirstRead(c) \/ FirstSend(c)
Browse(c) == (\E w \in Workers : Connect(c, w)) \/ FirstRead(c) \/ FirstSend(c)
Listen(w) == Hear(w) \/ Build(w) \/ Broadcast(w) \/ Resubscribe(w)

Next ==
    \/ \E x \in Changes : Commit(x) \/ Publish(x) \/ PublishFails(x)
    \/ \E w \in Workers : Listen(w) \/ ListenerDown(w)
    \/ \E c \in Monitors : Browse(c) \/ Drop(c)

\* The listener's loop and the browser's retry timer go on for ever.
Spec ==
    /\ Init /\ [][Next]_vars
    /\ \A w \in Workers : WF_vars(Listen(w))
    /\ \A c \in Monitors : WF_vars(Browse(c))
-----------------------------------------------------------------------------
\* Properties.

TypeOK ==
    /\ db \subseteq Changes /\ marked \subseteq Changes
    /\ channel \in [Workers -> Nat]
    /\ listener \in [Workers -> [op : {"listening", "building", "built", "down"},
                                snap : SUBSET Changes]]
    /\ socket \in [Monitors -> [snap : SUBSET Changes, at : Workers \cup {None},
                                state : {"offline", "joined", "read", "open"}]]
    /\ view \in [Monitors -> SUBSET Changes]
    /\ faults \in 0 .. MaxFaults /\ stale \subseteq Monitors

\* The inductive invariant of QuietMeansFresh: if nothing is going to be rebuilt for
\* monitor c, what is committed is on its screen, in the snapshot its worker is about to
\* send, or in the first snapshot of its socket.  A late change is marked after its commit.
Settled(c) ==
    /\ c \notin stale
    /\ \A x \in Late \cap db : x \in marked
    /\ \E w \in Workers : c \in Room(w) /\ ~WillRead(w)

MonitorInv ==
    /\ Late \cap marked \subseteq db
    /\ \A c \in Monitors :
          /\ view[c] \subseteq db
          /\ socket[c].state = "read" => socket[c].snap \subseteq db
          /\ socket[c].state # "offline" => socket[c].at \in Workers
    /\ \A w \in Workers : listener[w].op = "built" => listener[w].snap \subseteq db
    /\ \A c \in Monitors : Settled(c) =>
          \/ view[c] = db
          \/ socket[c].state = "read" /\ socket[c].snap = db
          \/ socket[c].state = "joined"
          \/ /\ listener[socket[c].at].op = "built"
             /\ listener[socket[c].at].snap = db

\* "Push-based replacement for polling": once every marker has been worked on, an open
\* monitor shows exactly what is committed, however connects, rebuilds and commits
\* interleaved -- unless since the last snapshot it was built for a change came without
\* a marker after it, a marker was lost, or an older snapshot overtook a newer one.
QuietMeansFresh ==
    \A c \in Monitors :
        /\ socket[c].state = "open" /\ c \notin stale
        /\ \A x \in Late \cap db : x \in marked
        /\ channel[socket[c].at] = 0 /\ listener[socket[c].at].op \in {"listening", "down"}
        => view[c] = db

\* A change that is published after its commit reaches every monitor in the end, through
\* lost connections and reconnects, unless its marker was lost or overtaken.
CatchesUp ==
    \A c \in Monitors, x \in Late : x \in marked ~> x \in view[c] \/ c \in stale

=============================================================================
