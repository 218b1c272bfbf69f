------------------------ MODULE LiveMonitor_proofs ------------------------
(***************************************************************************)
(* Theorems about LiveMonitor, for every set of changes, workers and       *)
(* monitors, and any number of failures.                                   *)
(***************************************************************************)
EXTENDS LiveMonitor, TLAPS

-----------------------------------------------------------------------------
\* Type correctness.

LEMMA InitType == Init => TypeOK
  BY MonitorAssumption DEF Init, TypeOK, Listening, Listener, Offline, Socket

LEMMA ChangeType ==
  ASSUME TypeOK, NEW x \in Changes, Commit(x) \/ Publish(x) \/ PublishFails(x)
  PROVE  TypeOK'
  <1>1. CASE Commit(x)
    BY <1>1 DEF Commit, TypeOK, Unaware
  <1>2. CASE Publish(x)
    <2>1. channel' \in [Workers -> Nat]
      BY <1>2 DEF Publish, TypeOK
    <2>2. stale' \subseteq Monitors
      BY <1>2 DEF Publish, TypeOK, Room
    <2> QED
      BY <1>2, <2>1, <2>2 DEF Publish, TypeOK
  <1>3. CASE PublishFails(x)
    <2>1. stale' \subseteq Monitors
      BY <1>3 DEF PublishFails, TypeOK, Room
    <2>2. faults' \in 0 .. MaxFaults
      BY <1>3, MonitorAssumption DEF PublishFails, TypeOK
    <2> QED
      BY <1>3, <2>1, <2>2 DEF PublishFails, TypeOK
  <1> QED
    BY <1>1, <1>2, <1>3

LEMMA ListenerType ==
  ASSUME TypeOK, NEW w \in Workers, Listen(w) \/ ListenerDown(w)
  PROVE  TypeOK'
  <1> USE DEF Listener, Listening, Room
  <1>1. CASE Hear(w)
    <2>1. channel' \in [Workers -> Nat]
      BY <1>1 DEF Hear, TypeOK
    <2> QED
      BY <1>1, <2>1 DEF Hear, TypeOK
  <1>2. CASE Build(w)
    BY <1>2 DEF Build, TypeOK
  <1>3. CASE Broadcast(w)
    <2>1. view' \in [Monitors -> SUBSET Changes]
      BY <1>3 DEF Broadcast, TypeOK
    <2> QED
      BY <1>3, <2>1 DEF Broadcast, TypeOK
  <1>4. CASE Resubscribe(w)
    BY <1>4 DEF Resubscribe, TypeOK
  <1>5. CASE ListenerDown(w)
    <2>1. faults' \in 0 .. MaxFaults
      BY <1>5, MonitorAssumption DEF ListenerDown, TypeOK
    <2> QED
      BY <1>5, <2>1 DEF ListenerDown, TypeOK
  <1> QED
    BY <1>1, <1>2, <1>3, <1>4, <1>5 DEF Listen

LEMMA BrowserType ==
  ASSUME TypeOK, NEW c \in Monitors, Browse(c) \/ Drop(c)
  PROVE  TypeOK'
  <1> USE DEF Socket, Offline
  <1>1. ASSUME NEW w \in Workers, Connect(c, w) PROVE TypeOK'
    BY <1>1 DEF Connect, TypeOK
  <1>2. CASE FirstRead(c)
    BY <1>2 DEF FirstRead, TypeOK
  <1>3. CASE FirstSend(c)
    BY <1>3 DEF FirstSend, TypeOK
  <1>4. CASE Drop(c)
    <2>1. faults' \in 0 .. MaxFaults
      BY <1>4, MonitorAssumption DEF Drop, TypeOK
    <2> QED
      BY <1>4, <2>1 DEF Drop, TypeOK
  <1> QED
    BY <1>1, <1>2, <1>3, <1>4 DEF Browse

LEMMA NextType == TypeOK /\ [Next]_vars => TypeOK'
  <1>1. TypeOK /\ UNCHANGED vars => TypeOK'
    BY DEF TypeOK, vars
  <1> QED
    BY <1>1, ChangeType, ListenerType, BrowserType DEF Next

\* Every variable keeps its type, whatever fails.
THEOREM MonitorTyping == Spec => []TypeOK
  BY InitType, NextType, PTL DEF Spec

-----------------------------------------------------------------------------
\* The inductive invariant.

LEMMA InitMonitor == Init => MonitorInv
  BY DEF Init, MonitorInv, Settled, Room, Listening, Listener, Offline, Socket

\* A worker that will rebuild still will when its channel grows; a monitor that is
\* settled in the end, with rooms and what was committed unchanged, was settled.
LEMMA CommitMonitor ==
  ASSUME TypeOK, MonitorInv, NEW x \in Changes, Commit(x)
  PROVE  MonitorInv'
  <1>1. ASSUME NEW c \in Monitors, Settled(c)' PROVE Settled(c) /\ FALSE
    <2>1. PICK w \in Workers : (c \in Room(w))' /\ ~WillRead(w)'
      BY <1>1 DEF Settled
    <2>2. c \in Room(w) /\ ~WillRead(w)
      BY <2>1 DEF Commit, Room, WillRead
    <2>3. CASE x \in Late
      BY <1>1, <2>3 DEF Settled, Commit, MonitorInv
    <2>4. CASE x \notin Late
      BY <1>1, <2>2, <2>4 DEF Settled, Commit, Unaware
    <2> QED
      BY <2>3, <2>4
  <1> QED
    BY <1>1 DEF MonitorInv, Commit

LEMMA PublishMonitor ==
  ASSUME TypeOK, MonitorInv, NEW x \in Changes, Publish(x)
  PROVE  MonitorInv'
  <1>1. Late \cap marked' \subseteq db'
    BY MonitorAssumption DEF MonitorInv, Publish
  <1>2. ASSUME NEW c \in Monitors, Settled(c)' PROVE FALSE
    <2>1. PICK w \in Workers : (c \in Room(w))' /\ ~WillRead(w)'
      BY <1>2 DEF Settled
    <2>2. c \in Room(w)
      BY <2>1 DEF Publish, Room
    <2>3. CASE w \in Subscribed
      <3>1. channel'[w] = channel[w] + 1 /\ channel[w] \in Nat
        BY <2>3 DEF Publish, TypeOK
      <3>2. channel'[w] > 0
        BY <3>1
      <3> QED
        BY <2>1, <3>2 DEF WillRead
    <2>4. CASE w \notin Subscribed
      BY <1>2, <2>2, <2>4 DEF Settled, Publish
    <2> QED
      BY <2>3, <2>4
  <1> QED
    BY <1>1, <1>2 DEF MonitorInv, Publish

LEMMA PublishFailsMonitor ==
  ASSUME TypeOK, MonitorInv, NEW x \in Changes, PublishFails(x)
  PROVE  MonitorInv'
  <1>1. Late \cap marked' \subseteq db'
    BY MonitorAssumption DEF MonitorInv, PublishFails
  <1>2. ASSUME NEW c \in Monitors, Settled(c)' PROVE FALSE
    BY <1>2 DEF Settled, PublishFails, Room
  <1> QED
    BY <1>1, <1>2 DEF MonitorInv, PublishFails

LEMMA HearMonitor ==
  ASSUME TypeOK, MonitorInv, NEW w \in Workers, Hear(w)
  PROVE  MonitorInv'
  <1>1. Room(w) = {} \/ listener'[w].op = "building"
    BY DEF Hear, TypeOK, Listener
  <1>2. \A v \in Workers : v # w => channel'[v] = channel[v] /\ listener'[v] = listener[v]
    BY DEF Hear, TypeOK
  <1>3. \A v \in Workers : listener'[v].op = "built" => listener'[v] = listener[v]
    BY <1>2 DEF Hear, TypeOK, Listener, Listening
  <1>4. \A v \in Workers : listener[v].op = "built" => listener'[v] = listener[v]
    BY <1>2 DEF Hear, TypeOK, Listener, Listening
  <1>5. ASSUME NEW c \in Monitors, Settled(c)' PROVE Settled(c)
    <2>1. PICK v \in Workers : (c \in Room(v))' /\ ~WillRead(v)'
      BY <1>5 DEF Settled
    <2>2. c \in Room(v)
      BY <2>1 DEF Hear, Room
    <2>3. v # w
      BY <1>1, <2>1, <2>2 DEF WillRead
    <2>4. ~WillRead(v)
      BY <1>2, <2>1, <2>3 DEF WillRead
    <2> QED
      BY <1>5, <2>2, <2>4 DEF Settled, Hear
  <1>6. \A c \in Monitors : socket' = socket /\ view' = view /\ db' = db /\ marked' = marked
    BY DEF Hear
  <1> QED
    BY <1>3, <1>4, <1>5 DEF MonitorInv, Hear

LEMMA BuildMonitor ==
  ASSUME TypeOK, MonitorInv, NEW w \in Workers, Build(w)
  PROVE  MonitorInv'
  <1>1. listener'[w].op = "built" /\ listener'[w].snap = db
    BY DEF Build, TypeOK, Listener
  <1>2. \A v \in Workers : v # w => listener'[v] = listener[v]
    BY DEF Build, TypeOK
  <1>3. ASSUME NEW c \in Monitors, Settled(c)', socket[c].at # w PROVE Settled(c)
    <2>1. PICK v \in Workers : (c \in Room(v))' /\ ~WillRead(v)'
      BY <1>3 DEF Settled
    <2>2. c \in Room(v) /\ v # w
      BY <1>3, <2>1 DEF Build, Room
    <2>3. ~WillRead(v)
      BY <1>2, <2>1, <2>2 DEF WillRead, Build
    <2>4. c \notin stale
      BY <1>3, <2>2 DEF Settled, Build, Room
    <2> QED
      BY <1>3, <2>2, <2>3, <2>4 DEF Settled, Build
  <1>4. \A v \in Workers : listener'[v].op = "built" => listener'[v].snap \subseteq db
    BY <1>1, <1>2 DEF MonitorInv
  <1>5. ASSUME NEW c \in Monitors, Settled(c)'
        PROVE  \/ view[c] = db
               \/ socket[c].state = "read" /\ socket[c].snap = db
               \/ socket[c].state = "joined"
               \/ /\ listener'[socket[c].at].op = "built"
                  /\ listener'[socket[c].at].snap = db
    <2>1. CASE socket[c].at = w
      BY <1>1, <2>1
    <2>2. CASE socket[c].at # w
      <3>1. socket[c].at \in Workers
        BY <1>5 DEF Settled, Room, Build
      <3> QED
        BY <1>2, <1>3, <1>5, <2>2, <3>1 DEF MonitorInv
    <2> QED
      BY <2>1, <2>2
  <1> QED
    BY <1>4, <1>5 DEF MonitorInv, Build

\* A snapshot that is sent shows what is committed, or something on the screen
\* that it lacks makes the monitor stale, or is yet to be published.
LEMMA SentOrOvertaken ==
  ASSUME MonitorInv, NEW c \in Monitors, NEW w \in Workers, NEW snap,
         view[c] = db, ~Overtaken(c, snap, w), ~WillRead(w),
         \A x \in Late \cap db : x \in marked, snap \subseteq db
  PROVE  snap = db
  BY DEF Overtaken, MonitorInv

LEMMA BroadcastMonitor ==
  ASSUME TypeOK, MonitorInv, NEW w \in Workers, Broadcast(w)
  PROVE  MonitorInv'
  <1>1. listener'[w] = Listening /\ listener[w].op = "built"
    BY DEF Broadcast, TypeOK
  <1>2. \A v \in Workers : v # w => listener'[v] = listener[v]
    BY DEF Broadcast, TypeOK
  <1>3. listener[w].snap \subseteq db
    BY <1>1 DEF MonitorInv
  <1>4. \A c \in Monitors : view'[c] = IF c \in Room(w) THEN listener[w].snap ELSE view[c]
    BY DEF Broadcast
  <1>5. \A v \in Workers : WillRead(v)' <=> WillRead(v)
    BY <1>1, <1>2 DEF WillRead, Broadcast, Listening, Listener
  <1>6. ASSUME NEW c \in Monitors, Settled(c)' PROVE Settled(c)
    BY <1>5, <1>6 DEF Settled, Broadcast, Room
  <1>7. \A v \in Workers : listener'[v].op = "built" => listener'[v].snap \subseteq db
    BY <1>1, <1>2 DEF MonitorInv, Listening, Listener
  <1>8. ASSUME NEW c \in Monitors, Settled(c)'
        PROVE  \/ view'[c] = db
               \/ socket[c].state = "read" /\ socket[c].snap = db
               \/ socket[c].state = "joined"
               \/ /\ listener'[socket[c].at].op = "built"
                  /\ listener'[socket[c].at].snap = db
    <2>1. CASE c \in Room(w)
      <3>1. socket[c].at = w
        BY <2>1 DEF Room
      <3>2. ~Overtaken(c, listener[w].snap, w)
        BY <1>8, <2>1 DEF Settled, Broadcast
      <3>3. ~WillRead(w)
        BY <1>6, <1>8, <3>1 DEF Settled, Room
      <3>4. \A x \in Late \cap db : x \in marked
        BY <1>6, <1>8 DEF Settled
      <3>5. view[c] = db => listener[w].snap = db
        BY <1>3, <3>2, <3>3, <3>4, SentOrOvertaken
      <3>6. view'[c] = listener[w].snap
        BY <1>4, <2>1
      <3> QED
        BY <1>6, <1>8, <3>1, <3>5, <3>6 DEF MonitorInv
    <2>2. CASE c \notin Room(w)
      <3>1. socket[c].at # w /\ socket[c].at \in Workers
        BY <1>6, <1>8, <2>2 DEF Settled, Room
      <3> QED
        BY <1>2, <1>4, <1>6, <1>8, <2>2, <3>1 DEF MonitorInv
    <2> QED
      BY <2>1, <2>2
  <1>9. \A c \in Monitors : view'[c] \subseteq db
    BY <1>3, <1>4 DEF MonitorInv
  <1>10. db' = db /\ marked' = marked /\ socket' = socket
    BY DEF Broadcast
  <1> QED
    BY <1>7, <1>8, <1>9, <1>10 DEF MonitorInv

LEMMA DownMonitor ==
  ASSUME TypeOK, MonitorInv, NEW w \in Workers, ListenerDown(w) \/ Resubscribe(w)
  PROVE  MonitorInv'
  <1>1. listener'[w].op \in {"down", "listening"}
    BY DEF ListenerDown, Resubscribe, TypeOK, Listener, Listening
  <1>2. \A v \in Workers : v # w => listener'[v] = listener[v] /\ channel'[v] = channel[v]
    BY DEF ListenerDown, Resubscribe, TypeOK
  <1>3. \A v \in Workers : listener'[v].op = "built" => listener'[v] = listener[v]
    BY <1>1, <1>2
  <1>4. ASSUME NEW c \in Monitors, Settled(c)' PROVE Settled(c)
    <2>1. PICK v \in Workers : (c \in Room(v))' /\ ~WillRead(v)'
      BY <1>4 DEF Settled
    <2>2. c \in Room(v)
      BY <2>1 DEF ListenerDown, Resubscribe, Room
    <2>3. c \notin stale
      BY <1>4 DEF Settled, ListenerDown, Resubscribe
    <2>4. CASE v # w
      BY <1>2, <1>4, <2>1, <2>2, <2>3, <2>4 DEF Settled, WillRead, ListenerDown, Resubscribe
    <2>5. CASE v = w /\ ListenerDown(w)
      <3>1. ~(channel[w] > 0 \/ listener[w].op # "listening")
        BY <1>4, <2>2, <2>5 DEF Settled, ListenerDown
      <3> QED
        BY <1>4, <2>2, <2>3, <2>5, <3>1 DEF Settled, WillRead, ListenerDown
    <2>6. CASE v = w /\ Resubscribe(w)
      BY <1>4, <2>1, <2>2, <2>3, <2>6 DEF Settled, WillRead, Resubscribe
    <2> QED
      BY <2>4, <2>5, <2>6 DEF ListenerDown, Resubscribe
  <1>5. ASSUME NEW c \in Monitors, Settled(c)'
        PROVE  listener[socket[c].at].op = "built" => listener'[socket[c].at] = listener[socket[c].at]
    <2>1. CASE ListenerDown(w) /\ socket[c].at = w
      <3>1. c \in Room(w)
        BY <1>5, <2>1 DEF Settled, Room, ListenerDown
      <3> QED
        BY <1>5, <2>1, <3>1 DEF Settled, ListenerDown
    <2>2. CASE Resubscribe(w) /\ socket[c].at = w
      BY <2>2 DEF Resubscribe
    <2>3. CASE socket[c].at # w
      <3>1. socket[c].at \in Workers
        BY <1>5 DEF Settled, Room, ListenerDown, Resubscribe
      <3> QED
        BY <1>2, <2>3, <3>1
    <2> QED
      BY <2>1, <2>2, <2>3 DEF ListenerDown, Resubscribe
  <1>6. db' = db /\ marked' = marked /\ socket' = socket /\ view' = view
    BY DEF ListenerDown, Resubscribe
  <1> QED
    BY <1>3, <1>4, <1>5, <1>6 DEF MonitorInv

LEMMA BrowserMonitor ==
  ASSUME TypeOK, MonitorInv, NEW d \in Monitors, Browse(d) \/ Drop(d)
  PROVE  MonitorInv'
  <1> USE DEF Socket, Offline
  <1>1. db' = db /\ marked' = marked /\ listener' = listener /\ channel' = channel
    BY DEF Browse, Drop, Connect, FirstRead, FirstSend
  <1>2. \A c \in Monitors : c # d => socket'[c] = socket[c] /\ view'[c] = view[c]
    BY DEF Browse, Drop, Connect, FirstRead, FirstSend, TypeOK
  <1>3. \A v \in Workers : WillRead(v)' <=> WillRead(v)
    BY <1>1 DEF WillRead
  <1>4. ASSUME NEW c \in Monitors, c # d, Settled(c)' PROVE Settled(c)
    <2>1. c \notin stale
      BY <1>4 DEF Settled, Browse, Drop, Connect, FirstRead, FirstSend
    <2> QED
      BY <1>1, <1>2, <1>3, <1>4, <2>1 DEF Settled, Room
  <1>5. SUFFICES /\ view'[d] \subseteq db
                 /\ socket'[d].state = "read" => socket'[d].snap \subseteq db
                 /\ socket'[d].state # "offline" => socket'[d].at \in Workers
                 /\ Settled(d)' =>
                      \/ view'[d] = db
                      \/ socket'[d].state = "read" /\ socket'[d].snap = db
                      \/ socket'[d].state = "joined"
                      \/ /\ listener[socket'[d].at].op = "built"
                         /\ listener[socket'[d].at].snap = db
    BY <1>1, <1>2, <1>4, <1>5 DEF MonitorInv
  <1>6. ASSUME NEW w \in Workers, Connect(d, w) PROVE socket'[d].state = "joined"
                /\ socket'[d].at \in Workers /\ view'[d] = view[d]
    BY <1>6 DEF Connect, TypeOK
  <1>7. CASE FirstRead(d)
    <2>1. socket'[d].state = "read" /\ socket'[d].snap = db /\ socket'[d].at = socket[d].at
            /\ view'[d] = view[d] /\ socket[d].state = "joined"
      BY <1>7 DEF FirstRead, TypeOK
    <2> QED
      BY <2>1 DEF MonitorInv
  <1>8. CASE FirstSend(d)
    <2>1. /\ socket'[d].state = "open" /\ socket'[d].at = socket[d].at
          /\ view'[d] = socket[d].snap /\ socket[d].state = "read"
      BY <1>8 DEF FirstSend, TypeOK
    <2>2. socket[d].snap \subseteq db
      BY <2>1 DEF MonitorInv
    <2>3. ASSUME Settled(d)', view[d] = db PROVE view'[d] = db
      <3>1. PICK w \in Workers : (d \in Room(w))' /\ ~WillRead(w)'
        BY <2>3 DEF Settled
      <3>2. socket[d].at = w /\ ~WillRead(w)
        BY <1>3, <2>1, <3>1 DEF Room
      <3>3. ~Overtaken(d, socket[d].snap, w)
        BY <1>8, <2>3, <3>2 DEF Settled, FirstSend
      <3>4. \A x \in Late \cap db : x \in marked
        BY <1>1, <2>3 DEF Settled
      <3> QED
        BY <2>1, <2>2, <2>3, <3>2, <3>3, <3>4, SentOrOvertaken
    <2>4. Settled(d)' => Settled(d)
      BY <1>1, <1>3, <1>8, <2>1 DEF Settled, Room, FirstSend
    <2> QED
      BY <2>1, <2>2, <2>3, <2>4 DEF MonitorInv
  <1>9. CASE Drop(d)
    <2>1. socket'[d].state = "offline" /\ view'[d] = view[d]
      BY <1>9 DEF Drop, TypeOK
    <2> QED
      BY <2>1 DEF MonitorInv, Settled, Room
  <1> QED
    BY <1>6, <1>7, <1>8, <1>9 DEF Browse, MonitorInv

LEMMA NextMonitor == TypeOK /\ MonitorInv /\ [Next]_vars => MonitorInv'
  <1>1. MonitorInv /\ UNCHANGED vars => MonitorInv'
    BY DEF MonitorInv, Settled, Room, WillRead, vars
  <1> QED
    BY <1>1, CommitMonitor, PublishMonitor, PublishFailsMonitor, HearMonitor, BuildMonitor,
       BroadcastMonitor, DownMonitor, BrowserMonitor DEF Next, Listen

\* A monitor that nothing is under way for shows exactly what is committed, for any number
\* of changes, workers, monitors and failures, unless one of the named windows was hit.
THEOREM QuietIsFresh == Spec => []QuietMeansFresh
  <1>1. TypeOK /\ MonitorInv => QuietMeansFresh
    <2> SUFFICES ASSUME TypeOK, MonitorInv, NEW c \in Monitors,
                        socket[c].state = "open", c \notin stale,
                        \A x \in Late \cap db : x \in marked,
                        channel[socket[c].at] = 0,
                        listener[socket[c].at].op \in {"listening", "down"}
                 PROVE  view[c] = db
      BY DEF QuietMeansFresh
    <2>1. socket[c].at \in Workers /\ c \in Room(socket[c].at)
      BY DEF MonitorInv, Room
    <2>2. ~WillRead(socket[c].at)
      BY <2>1 DEF WillRead, TypeOK
    <2> QED
      BY <2>1, <2>2 DEF MonitorInv, Settled
  <1> QED
    BY <1>1, InitType, NextType, InitMonitor, NextMonitor, PTL DEF Spec
=============================================================================
