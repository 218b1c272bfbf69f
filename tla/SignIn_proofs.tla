--------------------------- MODULE SignIn_proofs ---------------------------
(***************************************************************************)
(* Theorems about SignIn, for any number of requests at once, of           *)
(* identifiers and of failures.                                            *)
(***************************************************************************)
EXTENDS SignIn, TLAPS

LEMMA Bounds == MaxIds \in Nat /\ MaxFaults \in Nat
  BY SignInAssumption

LEMMA NoneDiffers == None \notin Nat /\ None \notin InviteRows
  BY SignInAssumption

-----------------------------------------------------------------------------
\* Type correctness.

\* A visit of a link, and a login with a PIN, has an invite.
Invited == \A p \in Procs : req[p].op = "redeem" \/ req[p].via = "pin" => invite # None

Ops == {"idle", "invite", "invited", "redeem", "pin", "link", "register", "revoke", "commit"}

LEMMA ReqType ==
  ASSUME NEW op \in Ops, NEW id \in Nat, NEW via \in {"none", "pin", "link"},
         NEW old \in Nat \cup {None}
  PROVE  Req(op, id, via, old) \in Requests
  BY DEF Req, Requests, Ops

LEMMA IdleType == Idle \in Requests
  BY ReqType DEF Idle, Ops

LEMMA OpType ==
  ASSUME TypeOK, NEW p \in Procs, NEW op \in Ops
  PROVE  [req[p] EXCEPT !.op = op] \in Requests
  BY DEF TypeOK, Requests, Ops

LEMMA OldType ==
  ASSUME TypeOK, NEW p \in Procs, NEW op \in Ops, NEW old \in Nat \cup {None}
  PROVE  [req[p] EXCEPT !.op = op, !.old = old] \in Requests
  BY DEF TypeOK, Requests, Ops

LEMMA StepType ==
  ASSUME TypeOK, NEW p \in Procs, NEW r \in Requests, Becomes(p, r)
  PROVE  req' \in [Procs -> Requests]
  BY DEF TypeOK, Becomes

LEMMA DrawType ==
  ASSUME TypeOK, Draws
  PROVE  ids' \in 0 .. MaxIds /\ ids' = ids + 1 /\ NewId = ids + 1 /\ NewId \in Nat
  BY Bounds DEF TypeOK, Draws, NewId

LEMMA InitType == Init => TypeOK
  <1> SUFFICES ASSUME Init PROVE TypeOK
    OBVIOUS
  <1>1. req \in [Procs -> Requests]
    BY IdleType DEF Init
  <1>2. 0 \in 0 .. MaxIds /\ 0 \in 0 .. MaxFaults
    BY Bounds
  <1>3. logins \in [1 .. MaxIds -> Nat]
    BY DEF Init
  <1> QED
    BY <1>1, <1>2, <1>3 DEF Init, TypeOK

LEMMA EnvironmentType ==
  ASSUME TypeOK, RequestLink \/ AdminLink \/ CooldownEnds \/ Deliver \/ LoseMail
                   \/ UpdateStudent \/ Refresh \/ Logout
  PROVE  TypeOK'
  <1>1. CASE RequestLink \/ AdminLink
    <2>1. Draws
      BY <1>1 DEF RequestLink, AdminLink
    <2>2. Mail("magic", NewId) \in [id : Nat, kind : {"magic", "invite"}]
      BY <2>1, DrawType DEF Mail
    <2> QED
      BY <1>1, <2>1, <2>2, DrawType DEF RequestLink, AdminLink, TypeOK, redis, history
  <1>2. CASE CooldownEnds \/ UpdateStudent \/ Deliver
    BY <1>2 DEF CooldownEnds, UpdateStudent, Deliver, TypeOK, redis, history
  <1>3. CASE LoseMail
    BY <1>3, Bounds DEF LoseMail, TypeOK, redis
  <1>4. CASE Refresh
    <2>1. Draws
      BY <1>4 DEF Refresh
    <2>2. Token(NewId, TRUE) \in [jti : Nat, renewed : BOOLEAN]
      BY <2>1, DrawType DEF Token
    <2> QED
      BY <1>4, <2>1, <2>2, DrawType DEF Refresh, TypeOK, redis, history
  <1>5. CASE Logout
    BY <1>5 DEF Logout, TypeOK, history
  <1> QED
    BY <1>1, <1>2, <1>3, <1>4, <1>5

LEMMA InviteType ==
  ASSUME TypeOK, NEW p \in Procs, ReadInvite(p) \/ QueueInvite(p) \/ CommitInvite(p)
  PROVE  TypeOK'
  <1>1. CASE ReadInvite(p)
    <2>1. Draws
      BY <1>1 DEF ReadInvite
    <2>2. (IF invite = None THEN None ELSE invite.token) \in Nat \cup {None}
      BY DEF TypeOK, InviteRows
    <2>3. req' \in [Procs -> Requests]
      BY <1>1, <2>1, <2>2, DrawType, ReqType, StepType DEF ReadInvite, Ops
    <2> QED
      BY <1>1, <2>1, <2>3, DrawType DEF ReadInvite, TypeOK, redis
  <1>2. CASE QueueInvite(p)
    <2>1. req' \in [Procs -> Requests]
      BY <1>2, OpType, StepType DEF QueueInvite, Ops
    <2>2. Mail("invite", req[p].id) \in [id : Nat, kind : {"magic", "invite"}]
      BY DEF TypeOK, Requests, Mail
    <2> QED
      BY <1>2, <2>1, <2>2 DEF QueueInvite, TypeOK, redis, history
  <1>3. CASE CommitInvite(p)
    <2>1. req[p].id \in Nat
      BY DEF TypeOK, Requests
    <2>2. invite = None => Rotated(req[p].id) \in InviteRows
      BY <2>1 DEF Rotated, Invite, InviteRows
    <2>3. invite # None => Rotated(req[p].id) \in InviteRows
      BY <2>1 DEF Rotated, TypeOK, InviteRows
    <2>4. invite' \in InviteRows \cup {None}
      BY <1>3, <2>2, <2>3 DEF CommitInvite, TypeOK
    <2>5. req' \in [Procs -> Requests]
      BY <1>3, IdleType, StepType DEF CommitInvite
    <2> QED
      BY <1>3, <2>4, <2>5 DEF CommitInvite, TypeOK, redis, history
  <1> QED
    BY <1>1, <1>2, <1>3

LEMMA PinType ==
  ASSUME TypeOK, Invited, NEW p \in Procs,
         Redeem(p) \/ CommitRedeem(p) \/ CheckPin(p) \/ ConsumePin(p)
           \/ CheckLink(p) \/ DenyLink(p) \/ Crash(p)
  PROVE  TypeOK'
  <1>1. CASE Redeem(p)
    <2>1. Draws
      BY <1>1 DEF Redeem
    <2>2. req' \in [Procs -> Requests]
      BY <1>1, <2>1, DrawType, ReqType, StepType DEF Redeem, Ops
    <2> QED
      BY <1>1, <2>1, <2>2, DrawType DEF Redeem, TypeOK, redis
  <1>2. CASE CommitRedeem(p)
    <2>1. WithPin(req[p].id) \in InviteRows
      BY <1>2 DEF CommitRedeem, WithPin, TypeOK, Invited, InviteRows, Requests
    <2>2. req' \in [Procs -> Requests]
      BY <1>2, IdleType, StepType DEF CommitRedeem
    <2> QED
      BY <1>2, <2>1, <2>2 DEF CommitRedeem, TypeOK, redis, history
  <1>3. CASE CheckPin(p)
    <2>1. invite.pin \in Nat
      BY <1>3 DEF CheckPin, PinWorks, TypeOK, InviteRows
    <2>2. req' \in [Procs -> Requests]
      BY <1>3, <2>1, ReqType, StepType DEF CheckPin, Ops
    <2> QED
      BY <1>3, <2>2 DEF CheckPin, TypeOK, redis
  <1>4. CASE ConsumePin(p)
    <2>1. req' \in [Procs -> Requests]
      BY <1>4, OpType, StepType DEF ConsumePin, Ops
    <2> QED
      BY <1>4, <2>1 DEF ConsumePin, TypeOK, redis, history
  <1>5. CASE CheckLink(p)
    <2>1. PICK m \in inbox : Becomes(p, Req("link", m.id, "link", None))
      BY <1>5 DEF CheckLink
    <2>2. m.id \in Nat
      BY <2>1 DEF TypeOK
    <2>3. req' \in [Procs -> Requests]
      BY <2>1, <2>2, ReqType, StepType DEF Ops
    <2> QED
      BY <1>5, <2>3 DEF CheckLink, TypeOK, redis, history
  <1>6. CASE DenyLink(p)
    <2>1. req' \in [Procs -> Requests]
      BY <1>6, IdleType, OpType, StepType DEF DenyLink, Ops
    <2>2. req[p].id \in Nat
      BY DEF TypeOK, Requests
    <2> QED
      BY <1>6, <2>1, <2>2 DEF DenyLink, TypeOK, history
  <1>7. CASE Crash(p)
    <2>1. req' \in [Procs -> Requests]
      BY <1>7, IdleType, StepType DEF Crash
    <2> QED
      BY <1>7, <2>1, Bounds DEF Crash, TypeOK, redis
  <1> QED
    BY <1>1, <1>2, <1>3, <1>4, <1>5, <1>6, <1>7

LEMMA LoginType ==
  ASSUME TypeOK, Invited, NEW p \in Procs, Register(p) \/ Revoke(p) \/ CommitLogin(p)
  PROVE  TypeOK'
  <1>1. CASE Register(p)
    <2>1. Draws
      BY <1>1 DEF Register
    <2>2. Token(NewId, FALSE) \in [jti : Nat, renewed : BOOLEAN]
      BY <2>1, DrawType DEF Token
    <2>3. session \in Nat \cup {None}
      BY DEF TypeOK
    <2>4. req' \in [Procs -> Requests]
      BY <1>1, <2>3, OldType, StepType DEF Register, Ops
    <2>5. session' \in Nat \cup {None} /\ faults' \in 0 .. MaxFaults
            /\ marred' \subseteq {"invites", "pins", "sessions"}
      BY <1>1, <2>1, DrawType, Bounds DEF Register, Lost, TypeOK
    <2> QED
      BY <1>1, <2>1, <2>2, <2>4, <2>5, DrawType DEF Register, TypeOK
  <1>2. CASE Revoke(p)
    <2>1. req' \in [Procs -> Requests]
      BY <1>2, OpType, StepType DEF Revoke, Ops
    <2>2. req[p].old \in Nat \cup {None}
      BY DEF TypeOK, Requests
    <2> QED
      BY <1>2, <2>1, <2>2, Bounds DEF Revoke, Lost, TypeOK
  <1>3. CASE CommitLogin(p)
    <2>1. invite' \in InviteRows \cup {None}
      BY <1>3 DEF CommitLogin, TypeOK, Invited, InviteRows
    <2>2. logins' \in [1 .. MaxIds -> Nat]
      BY <1>3 DEF CommitLogin, TypeOK
    <2>3. req' \in [Procs -> Requests]
      BY <1>3, IdleType, StepType DEF CommitLogin
    <2> QED
      BY <1>3, <2>1, <2>2, <2>3 DEF CommitLogin, TypeOK, redis
  <1> QED
    BY <1>1, <1>2, <1>3

LEMMA NextType == TypeOK /\ Invited /\ [Next]_vars => TypeOK'
  <1>1. TypeOK /\ UNCHANGED vars => TypeOK'
    BY DEF TypeOK, vars, redis, history
  <1> QED
    BY <1>1, EnvironmentType, InviteType, PinType, LoginType DEF Next

-----------------------------------------------------------------------------
\* The invite stays once it is there, and the other requests stay as they are.

LEMMA RowStays ==
  ASSUME TypeOK, invite # None, [Next]_vars
  PROVE  invite' # None
  <1>1. invite \in InviteRows
    BY DEF TypeOK
  <1>2. \A r \in InviteRows : r # None
    BY NoneDiffers
  <1>3. \A n \in Nat : Rotated(n) \in InviteRows /\ WithPin(n) \in InviteRows
    BY <1>1 DEF Rotated, WithPin, InviteRows
  <1>4. [invite EXCEPT !.used = TRUE] \in InviteRows
    BY <1>1 DEF InviteRows
  <1>5. invite' \in InviteRows \/ invite' = invite
    <2>1. ASSUME NEW p \in Procs, CommitInvite(p) \/ CommitRedeem(p) \/ CommitLogin(p)
          PROVE  invite' \in InviteRows
      <3>1. req[p].id \in Nat
        BY DEF TypeOK, Requests
      <3> QED
        BY <1>1, <1>3, <1>4, <2>1, <3>1 DEF CommitInvite, CommitRedeem, CommitLogin
    <2>2. ASSUME NEW p \in Procs,
                 ReadInvite(p) \/ QueueInvite(p) \/ Redeem(p) \/ CheckPin(p) \/ ConsumePin(p)
                   \/ CheckLink(p) \/ DenyLink(p) \/ Register(p) \/ Revoke(p) \/ Crash(p)
          PROVE  invite' = invite
      BY <2>2 DEF ReadInvite, QueueInvite, Redeem, CheckPin, ConsumePin, CheckLink, DenyLink,
                  Register, Revoke, Crash
    <2>3. RequestLink \/ AdminLink \/ CooldownEnds \/ Deliver \/ LoseMail \/ UpdateStudent
            \/ Refresh \/ Logout \/ UNCHANGED vars => invite' = invite
      BY DEF RequestLink, AdminLink, CooldownEnds, Deliver, LoseMail, UpdateStudent, Refresh,
             Logout, vars
    <2> QED
      BY <2>1, <2>2, <2>3 DEF Next
  <1> QED
    BY <1>1, <1>2, <1>5

LEMMA Others ==
  ASSUME TypeOK, NEW p \in Procs, NEW r \in Requests, Becomes(p, r)
  PROVE  req'[p] = r /\ \A q \in Procs \ {p} : req'[q] = req[q]
  BY DEF TypeOK, Becomes

LEMMA InvitedNext == TypeOK /\ Invited /\ [Next]_vars => Invited'
  <1> SUFFICES ASSUME TypeOK, Invited, [Next]_vars PROVE Invited'
    OBVIOUS
  <1>a. invite # None => invite' # None
    BY RowStays
  <1>b. TypeOK'
    BY NextType
  <1>1. ASSUME NEW p \in Procs, Redeem(p) \/ CheckPin(p)
        PROVE  Invited'
    BY <1>1, <1>a DEF Redeem, CheckPin, PinWorks, Becomes, Req, Invited, TypeOK
  <1>2. ASSUME NEW p \in Procs, ReadInvite(p) \/ CheckLink(p)
        PROVE  Invited'
    <2>1. \A q \in Procs : req'[q] = req[q] \/ (req'[q].op # "redeem" /\ req'[q].via # "pin")
      BY <1>2 DEF ReadInvite, CheckLink, Becomes, Req, TypeOK
    <2> QED
      BY <2>1, <1>a DEF Invited
  <1>3. ASSUME NEW p \in Procs,
               QueueInvite(p) \/ ConsumePin(p) \/ DenyLink(p) \/ Register(p) \/ Revoke(p)
                 \/ CommitInvite(p) \/ CommitRedeem(p) \/ CommitLogin(p) \/ Crash(p)
        PROVE  Invited'
    <2>1. PICK r \in Requests : Becomes(p, r) /\ (r.via = "pin" => req[p].via = "pin")
                                            /\ r.op # "redeem"
      <3>1. CASE CommitInvite(p) \/ CommitRedeem(p) \/ CommitLogin(p) \/ Crash(p)
        BY <3>1, IdleType DEF CommitInvite, CommitRedeem, CommitLogin, Crash, Idle, Req
      <3>2. CASE QueueInvite(p) \/ ConsumePin(p) \/ Revoke(p)
        <4>1. PICK op \in Ops \ {"redeem"} : Becomes(p, [req[p] EXCEPT !.op = op])
          BY <3>2 DEF QueueInvite, ConsumePin, Revoke, Ops
        <4>2. PICK r : r = [req[p] EXCEPT !.op = op]
          OBVIOUS
        <4>3. r \in Requests /\ r.op = op /\ r.via = req[p].via
          BY <4>2 DEF TypeOK, Requests, Ops
        <4> QED
          BY <4>1, <4>2, <4>3
      <3>3. CASE DenyLink(p)
        <4>1. PICK r : (r = [req[p] EXCEPT !.op = "register"] \/ r = Idle) /\ Becomes(p, r)
          BY <3>3 DEF DenyLink
        <4>2. r \in Requests /\ r.op # "redeem" /\ (r.via = "pin" => req[p].via = "pin")
          BY <4>1, IdleType DEF TypeOK, Requests, Idle, Req
        <4> QED
          BY <4>1, <4>2
      <3>4. CASE Register(p)
        <4>1. PICK old \in {session, None} :
                Becomes(p, [req[p] EXCEPT !.op = "revoke", !.old = old])
          BY <3>4 DEF Register
        <4>2. PICK r : r = [req[p] EXCEPT !.op = "revoke", !.old = old]
          OBVIOUS
        <4>3. old \in Nat \cup {None}
          BY DEF TypeOK
        <4>4. r \in Requests /\ r.op = "revoke" /\ r.via = req[p].via
          BY <4>2, <4>3 DEF TypeOK, Requests
        <4> QED
          BY <4>1, <4>2, <4>4
      <3> QED
        BY <1>3, <3>1, <3>2, <3>3, <3>4
    <2>2. \A q \in Procs : /\ req'[q].op = "redeem" => req[q].op = "redeem"
                           /\ req'[q].via = "pin" => req[q].via = "pin"
      BY <2>1, Others
    <2> QED
      BY <2>2, <1>a DEF Invited
  <1>4. RequestLink \/ AdminLink \/ CooldownEnds \/ Deliver \/ LoseMail \/ UpdateStudent
          \/ Refresh \/ Logout \/ UNCHANGED vars => Invited'
    BY DEF RequestLink, AdminLink, CooldownEnds, Deliver, LoseMail, UpdateStudent, Refresh,
           Logout, vars, Invited
  <1> QED
    BY <1>1, <1>2, <1>3, <1>4 DEF Next

\* Every state is well typed: no interleaving of requests, failure or lost mail leaves a
\* record without its fields, and a PIN login always finds the invite it began with.
THEOREM SignInTyping == Spec => []TypeOK
  <1>1. Init => TypeOK /\ Invited
    BY InitType DEF Init, Invited, Idle, Req
  <1>2. TypeOK /\ Invited /\ [Next]_vars => (TypeOK /\ Invited)'
    BY NextType, InvitedNext
  <1> QED
    BY <1>1, <1>2, PTL DEF Spec
-----------------------------------------------------------------------------
\* One active session.

LEMMA StillRevoking ==
  ASSUME TypeOK, SessionInv, session' = session, denied \subseteq denied',
         marred \subseteq marred', \A t \in tokens' : t \in tokens \/ t.renewed,
         \A q \in Procs : req[q].op = "revoke" => req'[q] = req[q]
  PROVE  SessionInv'
  BY DEF SessionInv, TypeOK

LEMMA RegisterSession ==
  ASSUME TypeOK, SessionInv, NEW p \in Procs, Register(p)
  PROVE  SessionInv'
  <1>1. CASE "sessions" \in marred'
    BY <1>1 DEF SessionInv
  <1>2. CASE "sessions" \notin marred'
    <2>1. /\ session' = NewId /\ marred' = marred /\ denied' = denied
          /\ Becomes(p, [req[p] EXCEPT !.op = "revoke", !.old = session])
          /\ tokens' = tokens \cup {Token(NewId, FALSE)}
      BY <1>2 DEF Register, Lost
    <2>2. req'[p].op = "revoke" /\ req'[p].old = session
      BY <2>1 DEF Becomes, TypeOK, Requests
    <2>3. req[p].op # "revoke"
      BY DEF Register
    <2>4. \A q \in Procs : req[q].op = "revoke" => req'[q] = req[q]
      BY <2>1, <2>3 DEF Becomes, TypeOK
    <2>5. SUFFICES ASSUME NEW t \in tokens', ~t.renewed, t.jti \notin denied'
                   PROVE  t.jti = session' \/ \E q \in Procs : req'[q].op = "revoke" /\ req'[q].old = t.jti
      BY DEF SessionInv
    <2>6. CASE t = Token(NewId, FALSE)
      BY <2>6, <2>1 DEF Token
    <2>7. CASE t \in tokens
      <3>1. t.jti = session \/ \E q \in Procs : req[q].op = "revoke" /\ req[q].old = t.jti
        BY <2>7, <2>1, <2>5, <1>2 DEF SessionInv
      <3> QED
        BY <3>1, <2>2, <2>4
    <2> QED
      BY <2>1, <2>6, <2>7
  <1> QED
    BY <1>1, <1>2

LEMMA RevokeSession ==
  ASSUME TypeOK, SessionInv, NEW p \in Procs, Revoke(p)
  PROVE  SessionInv'
  <1>1. CASE "sessions" \in marred'
    BY <1>1 DEF SessionInv
  <1>2. CASE "sessions" \notin marred'
    <2>1. /\ denied' = denied \cup ({req[p].old} \ {None}) /\ marred' = marred
          /\ session' = session /\ tokens' = tokens
          /\ Becomes(p, [req[p] EXCEPT !.op = "commit"])
      BY <1>2 DEF Revoke, Lost
    <2>2. \A q \in Procs \ {p} : req'[q] = req[q]
      BY <2>1 DEF Becomes, TypeOK
    <2>3. SUFFICES ASSUME NEW t \in tokens, ~t.renewed, t.jti \notin denied'
                   PROVE  t.jti = session \/ \E q \in Procs : req'[q].op = "revoke" /\ req'[q].old = t.jti
      BY <2>1 DEF SessionInv
    <2>4. t.jti = session \/ \E q \in Procs : req[q].op = "revoke" /\ req[q].old = t.jti
      BY <2>1, <2>3, <1>2 DEF SessionInv
    <2>5. t.jti # None
      BY NoneDiffers DEF TypeOK
    <2>6. req[p].old # t.jti
      BY <2>1, <2>3, <2>5
    <2> QED
      BY <2>2, <2>4, <2>6
  <1> QED
    BY <1>1, <1>2

LEMMA OtherSession ==
  ASSUME TypeOK, SessionInv, NEW p \in Procs,
         ReadInvite(p) \/ QueueInvite(p) \/ CommitInvite(p) \/ Redeem(p) \/ CommitRedeem(p)
           \/ CheckPin(p) \/ ConsumePin(p) \/ CheckLink(p) \/ DenyLink(p) \/ CommitLogin(p)
           \/ Crash(p)
  PROVE  SessionInv'
  <1>1. session' = session /\ denied \subseteq denied' /\ marred \subseteq marred'
          /\ tokens' = tokens
    BY DEF ReadInvite, QueueInvite, CommitInvite, Redeem, CommitRedeem, CheckPin, ConsumePin,
           CheckLink, DenyLink, CommitLogin, Crash, redis, history
  <1>2. \E r : Becomes(p, r)
    BY DEF ReadInvite, QueueInvite, CommitInvite, Redeem, CommitRedeem, CheckPin, ConsumePin,
           CheckLink, DenyLink, CommitLogin, Crash
  <1>3. req[p].op # "revoke" \/ "sessions" \in marred'
    BY DEF ReadInvite, QueueInvite, CommitInvite, Redeem, CommitRedeem, CheckPin, ConsumePin,
           CheckLink, DenyLink, CommitLogin, Crash, Idle, Req
  <1>4. CASE "sessions" \in marred'
    BY <1>4 DEF SessionInv
  <1>5. CASE req[p].op # "revoke"
    <2>1. \A q \in Procs : req[q].op = "revoke" => req'[q] = req[q]
      BY <1>2, <1>5 DEF Becomes, TypeOK
    <2> QED
      BY <1>1, <2>1, StillRevoking
  <1> QED
    BY <1>3, <1>4, <1>5

LEMMA SessionNext == TypeOK /\ SessionInv /\ [Next]_vars => SessionInv'
  <1>1. ASSUME TypeOK, SessionInv,
               RequestLink \/ AdminLink \/ CooldownEnds \/ Deliver \/ LoseMail \/ UpdateStudent
                 \/ Logout \/ UNCHANGED vars
        PROVE  SessionInv'
    <2>1. session' = session /\ denied \subseteq denied' /\ marred \subseteq marred'
            /\ tokens' = tokens /\ req' = req
      BY <1>1 DEF RequestLink, AdminLink, CooldownEnds, Deliver, LoseMail, UpdateStudent, Logout,
                  vars, redis, history
    <2> QED
      BY <1>1, <2>1, StillRevoking
  <1>2. ASSUME TypeOK, SessionInv, Refresh
        PROVE  SessionInv'
    <2>1. session' = session /\ denied = denied' /\ marred = marred' /\ req' = req
            /\ \A t \in tokens' : t \in tokens \/ t.renewed
      BY <1>2 DEF Refresh, Token, redis, history
    <2> QED
      BY <1>2, <2>1, StillRevoking
  <1> QED
    BY <1>1, <1>2, RegisterSession, RevokeSession, OtherSession DEF Next

\* One active session per student (_issue_student_session): with any number of logins at
\* once, in any order, every login but the one the session names is denied as soon as no
\* login stands between its GETSET and its denial, unless a call of Redis was lost.
THEOREM OneAtATime == Spec => []OneSession
  <1>1. Init => SessionInv
    BY DEF Init, SessionInv
  <1>2. SessionInv => OneSession
    BY DEF SessionInv, OneSession, Busy
  <1>3. Init => TypeOK /\ Invited
    BY InitType DEF Init, Invited, Idle, Req
  <1>4. TypeOK /\ Invited /\ SessionInv /\ [Next]_vars => (TypeOK /\ Invited /\ SessionInv)'
    BY NextType, InvitedNext, SessionNext
  <1> QED
    BY <1>1, <1>2, <1>3, <1>4, PTL DEF Spec
-----------------------------------------------------------------------------
\* One login with each PIN.

\* Steps that leave the PIN, its logins and the requests that stand on it alone, except
\* that a request may go on or end.
LEMMA PinKept ==
  ASSUME TypeOK, PinInv, marred \subseteq marred', logins' = logins, ids' \in Nat, ids <= ids',
         invite # None => invite' # None /\ invite'.pin = invite.pin /\ invite'.used = invite.used,
         invite = None /\ invite' # None => invite'.pin = None /\ ~invite'.used,
         \A q \in Procs : /\ req'[q].op = "pin" => req'[q] = req[q]
                          /\ req'[q].op = "redeem" => req[q].op = "redeem" /\ req'[q].id = req[q].id
                          /\ req'[q].via = "pin" =>
                                /\ req[q].via = "pin" /\ req'[q].id = req[q].id
                                /\ req'[q].op \in {req[q].op, "pin", "register", "revoke", "commit"}
  PROVE  PinInv'
  <1>1. SUFFICES ASSUME PinsInTurn PROVE PinsInTurn'
    BY DEF PinInv
  <1>2. ids \in Nat
    BY DEF TypeOK
  <1>3. \A n \in 1 .. MaxIds : logins'[n] <= 1 /\ (n > ids' => logins'[n] = 0)
    BY <1>1, <1>2, Bounds DEF PinsInTurn
  <1>4. \A p \in Procs : req'[p].op = "pin" => req'[p].via = "pin" /\ \A q \in Procs : req'[q].op # "redeem"
    BY <1>1 DEF PinsInTurn, ByPin, Redeems
  <1> QED
    BY <1>1, <1>2, <1>3, <1>4 DEF PinsInTurn, ByPin, Redeems
LEMMA RedeemPin ==
  ASSUME TypeOK, PinInv, NEW p \in Procs, Redeem(p)
  PROVE  PinInv'
  <1>1. SUFFICES ASSUME "pins" \notin marred' PROVE PinsInTurn'
    BY DEF PinInv
  <1>2. PinsInTurn /\ \A q \in Procs : req[q].op # "pin"
    BY <1>1 DEF Redeem, Busy, PinInv
  <1>3. Draws /\ invite' = invite /\ logins' = logins /\ invite # None
    BY DEF Redeem
  <1>4. ids \in Nat /\ ids' = ids + 1 /\ NewId = ids + 1 /\ ids + 1 \in 1 .. MaxIds
    BY <1>3, DrawType, Bounds DEF TypeOK
  <1>5. req'[p] = Req("redeem", ids + 1, "none", None) /\ \A q \in Procs \ {p} : req'[q] = req[q]
    BY <1>4 DEF Redeem, Becomes, TypeOK
  <1>6. req'[p].op = "redeem" /\ req'[p].id = ids + 1 /\ req'[p].via = "none"
    BY <1>5 DEF Req
  <1>7. \A n \in 1 .. MaxIds : logins'[n] <= 1 /\ (n > ids' => logins'[n] = 0)
    BY <1>2, <1>3, <1>4 DEF PinsInTurn
  <1>8. \A q \in Procs : req'[q].op # "pin"
    BY <1>2, <1>5, <1>6
  <1>9. \A q \in Procs : req'[q].via = "pin" => q # p /\ req[q].via = "pin" /\ req'[q] = req[q]
    BY <1>5, <1>6
  <1>10. \A q \in Procs : req'[q].via = "pin" =>
          /\ req'[q].op \in {"pin", "register", "revoke", "commit"}
          /\ invite' # None /\ invite'.pin = req'[q].id /\ ~invite'.used
    BY <1>2, <1>3, <1>9 DEF PinsInTurn, ByPin
  <1>11. \A q \in Procs \ {p} : req[q].op = "redeem" =>
          req[q].id \in 1 .. ids /\ logins[req[q].id] = 0 /\ invite.pin # req[q].id
    BY <1>2 DEF PinsInTurn, Redeems
  <1>12. logins[ids + 1] = 0 /\ invite.pin # ids + 1
    <2>1. logins[ids + 1] = 0
      BY <1>2, <1>4 DEF PinsInTurn
    <2>2. invite.pin = None => invite.pin # ids + 1
      BY <1>4, NoneDiffers
    <2>3. invite.pin # None => invite.pin \in 1 .. ids
      BY <1>2, <1>3 DEF PinsInTurn
    <2>4. ids + 1 \notin 1 .. ids
      BY <1>4
    <2> QED
      BY <2>1, <2>2, <2>3, <2>4
  <1>13. \A q \in Procs : req'[q].op = "redeem" =>
          /\ req'[q].id \in 1 .. ids' /\ logins'[req'[q].id] = 0
          /\ invite' # None /\ invite'.pin # req'[q].id
    BY <1>3, <1>4, <1>5, <1>6, <1>11, <1>12
  <1>14. \A q, r \in Procs : req'[q].op = "redeem" /\ req'[r].op = "redeem" /\ req'[r].id = req'[q].id
            => r = q
    BY <1>2, <1>4, <1>5, <1>6, <1>11 DEF PinsInTurn, Redeems
  <1>15. invite' # None /\ invite'.pin # None =>
          invite'.pin \in 1 .. ids' /\ logins'[invite'.pin] = IF invite'.used THEN 1 ELSE 0
    BY <1>2, <1>3, <1>4 DEF PinsInTurn
  <1> QED
    BY <1>2, <1>3, <1>7, <1>8, <1>9, <1>10, <1>13, <1>14, <1>15 DEF PinsInTurn, ByPin, Redeems

LEMMA CommitRedeemPin ==
  ASSUME TypeOK, Invited, PinInv, NEW p \in Procs, CommitRedeem(p)
  PROVE  PinInv'
  <1>1. SUFFICES ASSUME PinsInTurn PROVE PinsInTurn'
    BY DEF CommitRedeem, PinInv, history
  <1>2. invite \in InviteRows /\ invite' = WithPin(req[p].id) /\ ids' = ids /\ logins' = logins
    BY DEF CommitRedeem, Invited, TypeOK, history
  <1>3. invite'.pin = req[p].id /\ ~invite'.used /\ invite' \in InviteRows
    BY <1>2 DEF WithPin, InviteRows, TypeOK, Requests
  <1>4. invite' # None
    BY <1>3, NoneDiffers
  <1>5. req'[p] = Idle /\ \A q \in Procs \ {p} : req'[q] = req[q]
    BY DEF CommitRedeem, Becomes, TypeOK
  <1>6. Idle.op = "idle" /\ Idle.via = "none"
    BY DEF Idle, Req
  <1>7. \A q \in Procs : req[q].via # "pin" /\ req[q].op # "pin"
    BY <1>1 DEF CommitRedeem, PinLock, PinsInTurn, ByPin, Redeems
  <1>8. req[p].id \in 1 .. ids /\ logins[req[p].id] = 0
    BY <1>1 DEF CommitRedeem, PinsInTurn, Redeems
  <1>9. \A q \in Procs : req'[q].via # "pin" /\ req'[q].op # "pin"
    BY <1>5, <1>6, <1>7
  <1>10. \A q \in Procs : req'[q].op = "redeem" =>
          /\ q # p /\ req'[q] = req[q]
          /\ req'[q].id \in 1 .. ids' /\ logins'[req'[q].id] = 0 /\ req[p].id # req[q].id
    BY <1>1, <1>2, <1>5, <1>6 DEF PinsInTurn, Redeems, CommitRedeem
  <1>11. \A q, r \in Procs : req'[q].op = "redeem" /\ req'[r].op = "redeem" /\ req'[r].id = req'[q].id
            => r = q
    BY <1>1, <1>10 DEF PinsInTurn, Redeems
  <1>12. invite'.pin # None
    BY <1>3, NoneDiffers DEF TypeOK, Requests
  <1> QED
    BY <1>1, <1>2, <1>3, <1>4, <1>8, <1>9, <1>10, <1>11, <1>12 DEF PinsInTurn, ByPin, Redeems

LEMMA CheckPinInTurn ==
  ASSUME TypeOK, PinInv, NEW p \in Procs, CheckPin(p)
  PROVE  PinInv'
  <1>1. SUFFICES ASSUME "pins" \notin marred' PROVE PinsInTurn'
    BY DEF PinInv
  <1>2. PinsInTurn /\ \A q \in Procs : req[q].op \notin PinOps
    BY <1>1 DEF CheckPin, Busy, PinInv
  <1>3. \A q \in Procs : req[q].via # "pin" /\ req[q].op # "redeem" /\ req[q].op # "pin"
    BY <1>2 DEF PinsInTurn, ByPin, PinOps
  <1>4. invite' = invite /\ logins' = logins /\ ids' = ids /\ PinWorks
    BY DEF CheckPin
  <1>5. req'[p] = Req("pin", invite.pin, "pin", None) /\ \A q \in Procs \ {p} : req'[q] = req[q]
    BY DEF CheckPin, Becomes, TypeOK
  <1>6. req'[p].op = "pin" /\ req'[p].id = invite.pin /\ req'[p].via = "pin"
    BY <1>5 DEF Req
  <1>7. \A q \in Procs \ {p} : req'[q].via # "pin" /\ req'[q].op # "redeem" /\ req'[q].op # "pin"
    BY <1>3, <1>5
  <1> QED
    BY <1>2, <1>4, <1>6, <1>7 DEF PinsInTurn, ByPin, Redeems, PinWorks

LEMMA CommitLoginPin ==
  ASSUME TypeOK, Invited, PinInv, NEW p \in Procs, CommitLogin(p), req[p].via = "pin"
  PROVE  PinInv'
  <1>1. SUFFICES ASSUME PinsInTurn PROVE PinsInTurn'
    BY DEF CommitLogin, PinInv
  <1>2. invite \in InviteRows /\ invite' = [invite EXCEPT !.used = TRUE] /\ ids' = ids
    BY DEF CommitLogin, Invited, TypeOK
  <1>3. invite'.pin = invite.pin /\ invite'.used /\ invite' \in InviteRows
    BY <1>2 DEF InviteRows
  <1>4. invite' # None
    BY <1>3, NoneDiffers
  <1>5. invite.pin = req[p].id /\ ~invite.used /\ invite # None
    BY <1>1 DEF PinsInTurn, ByPin
  <1>6. invite.pin # None
    BY <1>5, NoneDiffers DEF TypeOK, Requests
  <1>7. invite.pin \in 1 .. ids /\ logins[invite.pin] = 0
    BY <1>1, <1>5, <1>6 DEF PinsInTurn
  <1>8. ids \in Nat /\ 1 .. ids \subseteq 1 .. MaxIds
    BY Bounds DEF TypeOK
  <1>9. \A n \in 1 .. MaxIds : logins'[n] = IF n = invite.pin THEN 1 ELSE logins[n]
    <2>1. logins' = [logins EXCEPT ![invite.pin] = @ + 1]
      BY <1>5 DEF CommitLogin
    <2>2. logins \in [1 .. MaxIds -> Nat]
      BY DEF TypeOK
    <2> QED
      BY <2>1, <2>2, <1>7, <1>8
  <1>10. \A n \in 1 .. MaxIds : logins'[n] <= 1 /\ (n > ids' => logins'[n] = 0)
    BY <1>1, <1>2, <1>7, <1>8, <1>9 DEF PinsInTurn
  <1>11. req'[p] = Idle /\ \A q \in Procs \ {p} : req'[q] = req[q]
    BY DEF CommitLogin, Becomes, TypeOK
  <1>12. Idle.op = "idle" /\ Idle.via = "none"
    BY DEF Idle, Req
  <1>13. \A q \in Procs : req'[q].via # "pin" /\ req'[q].op # "pin"
    BY <1>1, <1>11, <1>12 DEF PinsInTurn, ByPin
  <1>14. \A q \in Procs : req'[q].op = "redeem" => q # p /\ req'[q] = req[q]
    BY <1>11, <1>12
  <1>15. \A q \in Procs : req'[q].op = "redeem" =>
          /\ req'[q].id \in 1 .. ids' /\ invite'.pin # req'[q].id /\ logins'[req'[q].id] = 0
    <2>1. SUFFICES ASSUME NEW q \in Procs, req'[q].op = "redeem"
                   PROVE  /\ req'[q].id \in 1 .. ids' /\ invite'.pin # req'[q].id
                          /\ logins'[req'[q].id] = 0
      OBVIOUS
    <2>2. req[q].op = "redeem" /\ req'[q] = req[q]
      BY <2>1, <1>14
    <2>3. req[q].id \in 1 .. ids /\ invite.pin # req[q].id /\ logins[req[q].id] = 0
      BY <2>2, <1>1 DEF PinsInTurn, Redeems
    <2> QED
      BY <2>2, <2>3, <1>2, <1>3, <1>8, <1>9
  <1>16. \A q, r \in Procs : req'[q].op = "redeem" /\ req'[r].op = "redeem" /\ req'[r].id = req'[q].id
            => r = q
    BY <1>1, <1>14 DEF PinsInTurn, Redeems
  <1>17. invite'.pin \in 1 .. ids' /\ logins'[invite'.pin] = 1
    BY <1>2, <1>3, <1>7, <1>8, <1>9
  <1> QED
    BY <1>3, <1>4, <1>6, <1>10, <1>13, <1>15, <1>16, <1>17 DEF PinsInTurn, ByPin, Redeems
\* What a request may become in a step that PinKept covers.
GoesOn(q) ==
    /\ req'[q].op = "pin" => req'[q] = req[q]
    /\ req'[q].op = "redeem" => req[q].op = "redeem" /\ req'[q].id = req[q].id
    /\ req'[q].via = "pin" =>
          /\ req[q].via = "pin" /\ req'[q].id = req[q].id
          /\ req'[q].op \in {req[q].op, "pin", "register", "revoke", "commit"}

LEMMA OneGoesOn ==
  ASSUME TypeOK, NEW p \in Procs, NEW r \in Requests, Becomes(p, r),
         r.op # "pin", r.op # "redeem",
         r.via = "pin" => req[p].via = "pin" /\ r.id = req[p].id
                            /\ r.op \in {"register", "revoke", "commit"}
  PROVE  \A q \in Procs : GoesOn(q)
  BY Others DEF GoesOn

LEMMA InviteGoesOn ==
  ASSUME TypeOK, PinInv, NEW p \in Procs, ReadInvite(p) \/ QueueInvite(p) \/ CommitInvite(p)
  PROVE  PinInv'
  <1>1. marred \subseteq marred' /\ logins' = logins
    BY DEF ReadInvite, QueueInvite, CommitInvite, history
  <1>2. ids \in Nat /\ ids' \in Nat /\ ids <= ids'
    BY DrawType, Bounds DEF ReadInvite, QueueInvite, CommitInvite, TypeOK
  <1>3. /\ invite # None => invite' # None /\ invite'.pin = invite.pin /\ invite'.used = invite.used
        /\ invite = None /\ invite' # None => invite'.pin = None /\ ~invite'.used
    <2>1. CASE invite' = invite
      BY <2>1
    <2>2. CASE invite' = Rotated(req[p].id) /\ invite = None
      BY <2>2 DEF Rotated, Invite
    <2>3. CASE invite' = Rotated(req[p].id) /\ invite # None
      <3>1. invite \in InviteRows /\ req[p].id \in Nat
        BY <2>3 DEF TypeOK, Requests
      <3>2. invite' \in InviteRows /\ invite'.pin = invite.pin /\ invite'.used = invite.used
        BY <2>3, <3>1 DEF Rotated, InviteRows
      <3> QED
        BY <2>3, <3>2, NoneDiffers
    <2> QED
      BY <2>1, <2>2, <2>3 DEF ReadInvite, QueueInvite, CommitInvite
  <1>4. CASE PinsInTurn
    <2>1. PICK r : Becomes(p, r) /\ r.op \in {"invite", "invited", "idle"}
                     /\ r.via # "pin" /\ r \in Requests
      <3>1. CASE ReadInvite(p)
        <4>1. Draws /\ (IF invite = None THEN None ELSE invite.token) \in Nat \cup {None}
          BY <3>1 DEF ReadInvite, TypeOK, InviteRows
        <4> QED
          BY <3>1, <4>1, DrawType, ReqType DEF ReadInvite, Req, Ops
      <3>2. CASE CommitInvite(p)
        BY <3>2, IdleType DEF CommitInvite, Idle, Req
      <3>3. CASE QueueInvite(p)
        <4>1. PICK r : r = [req[p] EXCEPT !.op = "invited"]
          OBVIOUS
        <4>2. r \in Requests /\ r.op = "invited" /\ r.via = req[p].via
          BY <4>1 DEF TypeOK, Requests
        <4>3. req[p].via # "pin"
          BY <1>4, <3>3 DEF QueueInvite, PinsInTurn, ByPin
        <4> QED
          BY <3>3, <4>1, <4>2, <4>3 DEF QueueInvite
      <3> QED
        BY <3>1, <3>2, <3>3
    <2>2. \A q \in Procs : GoesOn(q)
      BY <2>1, OneGoesOn
    <2> QED
      BY <1>1, <1>2, <1>3, <2>2, PinKept DEF GoesOn
  <1>5. CASE ~PinsInTurn
    BY <1>1, <1>5 DEF PinInv
  <1> QED
    BY <1>4, <1>5

LEMMA LoginGoesOn ==
  ASSUME TypeOK, PinInv, NEW p \in Procs,
         ConsumePin(p) \/ CheckLink(p) \/ DenyLink(p) \/ Register(p) \/ Revoke(p) \/ Crash(p)
           \/ (CommitLogin(p) /\ req[p].via # "pin")
  PROVE  PinInv'
  <1>1. marred \subseteq marred' /\ logins' = logins /\ invite' = invite
    BY DEF ConsumePin, CheckLink, DenyLink, Register, Lost, Revoke, Crash, CommitLogin, history
  <1>2. ids \in Nat /\ ids' \in Nat /\ ids <= ids'
    <2>1. Draws \/ ids' = ids
      BY DEF ConsumePin, CheckLink, DenyLink, Register, Revoke, Crash, CommitLogin
    <2> QED
      BY <2>1, DrawType DEF TypeOK
  <1>3. PICK r : /\ Becomes(p, r) /\ r \in Requests /\ r.op # "pin" /\ r.op # "redeem"
                 /\ r.via = "pin" => req[p].via = "pin" /\ r.id = req[p].id
                                       /\ r.op \in {"register", "revoke", "commit"}
    <2>1. CASE Crash(p) \/ CommitLogin(p)
      BY <2>1, IdleType DEF Crash, CommitLogin, Idle, Req
    <2>2. CASE CheckLink(p)
      <3>1. PICK m \in inbox : Becomes(p, Req("link", m.id, "link", None))
        BY <2>2 DEF CheckLink
      <3>2. m.id \in Nat
        BY <3>1 DEF TypeOK
      <3>3. PICK r : r = Req("link", m.id, "link", None)
        OBVIOUS
      <3>4. r \in Requests /\ r.op = "link" /\ r.via = "link"
        BY <3>2, <3>3, ReqType DEF Ops, Req
      <3> QED
        BY <3>1, <3>3, <3>4
    <2>3. CASE DenyLink(p)
      <3>1. PICK r : (r = [req[p] EXCEPT !.op = "register"] \/ r = Idle) /\ Becomes(p, r)
        BY <2>3 DEF DenyLink
      <3>2. /\ r \in Requests
            /\ r = Idle \/ (r.op = "register" /\ r.via = req[p].via /\ r.id = req[p].id)
        BY <3>1, IdleType DEF TypeOK, Requests
      <3> QED
        BY <3>1, <3>2 DEF Idle, Req
    <2>4. CASE ConsumePin(p) \/ Revoke(p)
      <3>1. PICK op \in {"register", "commit"} : Becomes(p, [req[p] EXCEPT !.op = op])
        BY <2>4 DEF ConsumePin, Revoke
      <3>2. PICK r : r = [req[p] EXCEPT !.op = op]
        OBVIOUS
      <3>3. r \in Requests /\ r.op = op /\ r.via = req[p].via /\ r.id = req[p].id
        BY <3>2 DEF TypeOK, Requests
      <3> QED
        BY <3>1, <3>2, <3>3
    <2>5. CASE Register(p)
      <3>1. PICK old \in {session, None} :
              Becomes(p, [req[p] EXCEPT !.op = "revoke", !.old = old])
        BY <2>5 DEF Register
      <3>2. PICK r : r = [req[p] EXCEPT !.op = "revoke", !.old = old]
        OBVIOUS
      <3>3. old \in Nat \cup {None}
        BY DEF TypeOK
      <3>4. r \in Requests /\ r.op = "revoke" /\ r.via = req[p].via /\ r.id = req[p].id
        BY <3>2, <3>3 DEF TypeOK, Requests
      <3> QED
        BY <3>1, <3>2, <3>4
    <2> QED
      BY <2>1, <2>2, <2>3, <2>4, <2>5
  <1>4. \A q \in Procs : GoesOn(q)
    BY <1>3, OneGoesOn
  <1> QED
    BY <1>1, <1>2, <1>4, PinKept DEF GoesOn

LEMMA EnvironmentGoesOn ==
  ASSUME TypeOK, PinInv,
         RequestLink \/ AdminLink \/ CooldownEnds \/ Deliver \/ LoseMail \/ UpdateStudent
           \/ Refresh \/ Logout \/ UNCHANGED vars
  PROVE  PinInv'
  <1>1. marred \subseteq marred' /\ logins' = logins /\ invite' = invite /\ req' = req
    BY DEF RequestLink, AdminLink, CooldownEnds, Deliver, LoseMail, UpdateStudent, Refresh,
           Logout, vars, history
  <1>2. ids \in Nat /\ ids' \in Nat /\ ids <= ids'
    <2>1. Draws \/ ids' = ids
      BY DEF RequestLink, AdminLink, CooldownEnds, Deliver, LoseMail, UpdateStudent, Refresh,
             Logout, vars
    <2> QED
      BY <2>1, DrawType DEF TypeOK
  <1> QED
    BY <1>1, <1>2, PinKept

LEMMA PinNext == TypeOK /\ Invited /\ PinInv /\ [Next]_vars => PinInv'
  BY RedeemPin, CommitRedeemPin, CheckPinInTurn, CommitLoginPin, InviteGoesOn, LoginGoesOn,
     EnvironmentGoesOn DEF Next

LEMMA PinAlways == Spec => [](TypeOK /\ PinInv)
  <1>1. Init => TypeOK /\ Invited
    BY InitType DEF Init, Invited, Idle, Req
  <1>2. Init => PinInv
    BY Bounds DEF Init, PinInv, PinsInTurn, ByPin, Redeems, Idle, Req
  <1>3. TypeOK /\ Invited /\ PinInv /\ [Next]_vars => (TypeOK /\ Invited /\ PinInv)'
    BY NextType, InvitedNext, PinNext
  <1> QED
    BY <1>1, <1>2, <1>3, PTL DEF Spec

\* A PIN lets in once (redeem_invite, pin_login): however visits of the link, logins,
\* failures and new invites interleave, as long as no two logins, and no visit and the
\* start of a login, overlap.
THEOREM PinLetsInOnce == Spec => []PinOnce
  <1>1. PinInv => PinOnce
    BY DEF PinInv, PinsInTurn, PinOnce
  <1> QED
    BY <1>1, PinAlways, PTL

\* A PIN is consumed by using it, never by viewing it.
THEOREM ViewingKeepsPins == Spec => []ConsumedByUse
  <1>1. PinInv => ConsumedByUse
    BY DEF PinInv, PinsInTurn, ConsumedByUse
  <1> QED
    BY <1>1, PinAlways, PTL
-----------------------------------------------------------------------------
\* The newest link works.

\* What a step that is neither an invite's nor a mail's leaves as it is.
Apart ==
    /\ inbox' \cup queue' = inbox \cup queue \/ Invitations' = Invitations
    /\ marred \subseteq marred'
    /\ \A q \in Procs : Inviting(q)' => req'[q] = req[q]
    /\ "invites" \in marred' \/ \A q \in Procs : req[q].op = "invited" => req'[q] = req[q]
    /\ invite = None <=> invite' = None
    /\ invite # None => invite'.token = invite.token

LEMMA LoginApart ==
  ASSUME TypeOK, Invited, NEW p \in Procs,
         Redeem(p) \/ CommitRedeem(p) \/ CheckPin(p) \/ ConsumePin(p) \/ CheckLink(p)
           \/ DenyLink(p) \/ Register(p) \/ Revoke(p) \/ CommitLogin(p) \/ Crash(p)
  PROVE  Apart /\ inbox' = inbox /\ queue' = queue
  <1>1. inbox' = inbox /\ queue' = queue /\ marred \subseteq marred'
    BY DEF Redeem, CommitRedeem, CheckPin, ConsumePin, CheckLink, DenyLink, Register, Lost,
           Revoke, CommitLogin, Crash, history
  <1>2. PICK r : Becomes(p, r) /\ r.op \notin {"invite", "invited"}
    <2>1. CASE Redeem(p) \/ CheckPin(p) \/ CheckLink(p)
      <3>1. PICK op, id, via : /\ op \in {"redeem", "pin", "link"}
                               /\ Becomes(p, Req(op, id, via, None))
        BY <2>1 DEF Redeem, CheckPin, CheckLink
      <3>2. PICK r : r = Req(op, id, via, None)
        OBVIOUS
      <3> QED
        BY <3>1, <3>2 DEF Req
    <2>2. CASE CommitRedeem(p) \/ CommitLogin(p) \/ Crash(p)
      BY <2>2 DEF CommitRedeem, CommitLogin, Crash, Idle, Req
    <2>3. CASE ConsumePin(p) \/ Revoke(p)
      <3>1. PICK op \in {"register", "commit"} : Becomes(p, [req[p] EXCEPT !.op = op])
        BY <2>3 DEF ConsumePin, Revoke
      <3>2. PICK r : r = [req[p] EXCEPT !.op = op]
        OBVIOUS
      <3>3. r.op = op
        BY <3>2 DEF TypeOK, Requests
      <3> QED
        BY <3>1, <3>2, <3>3
    <2>4. CASE DenyLink(p)
      <3>1. PICK r : (r = [req[p] EXCEPT !.op = "register"] \/ r = Idle) /\ Becomes(p, r)
        BY <2>4 DEF DenyLink
      <3>2. r = Idle \/ r.op = "register"
        BY <3>1 DEF TypeOK, Requests
      <3> QED
        BY <3>1, <3>2 DEF Idle, Req
    <2>5. CASE Register(p)
      <3>1. PICK old \in {session, None} :
              Becomes(p, [req[p] EXCEPT !.op = "revoke", !.old = old])
        BY <2>5 DEF Register
      <3>2. PICK r : r = [req[p] EXCEPT !.op = "revoke", !.old = old]
        OBVIOUS
      <3>3. r.op = "revoke"
        BY <3>2 DEF TypeOK, Requests
      <3> QED
        BY <3>1, <3>2, <3>3
    <2> QED
      BY <2>1, <2>2, <2>3, <2>4, <2>5
  <1>3. req'[p] = r /\ \A q \in Procs \ {p} : req'[q] = req[q]
    BY <1>2 DEF Becomes, TypeOK
  <1>4. req[p].op # "invited" \/ "invites" \in marred'
    <2>1. CASE Redeem(p) \/ CheckPin(p) \/ CheckLink(p)
      BY <2>1 DEF Redeem, CheckPin, CheckLink, Idle, Req
    <2>2. CASE CommitRedeem(p) \/ ConsumePin(p) \/ DenyLink(p) \/ Register(p) \/ Revoke(p)
                 \/ CommitLogin(p) \/ Crash(p)
      BY <2>2 DEF CommitRedeem, ConsumePin, DenyLink, Register, Revoke, CommitLogin, Crash
    <2> QED
      BY <2>1, <2>2
  <1>5. (invite = None <=> invite' = None) /\ (invite # None => invite'.token = invite.token)
    <2>1. CASE invite' = invite
      BY <2>1
    <2>2. CASE \/ CommitRedeem(p) /\ invite' = WithPin(req[p].id)
               \/ CommitLogin(p) /\ req[p].via = "pin" /\ invite' = [invite EXCEPT !.used = TRUE]
      <3>1. invite \in InviteRows /\ invite # None
        BY <2>2 DEF CommitRedeem, Invited, TypeOK
      <3>2. req[p].id \in Nat
        BY DEF TypeOK, Requests
      <3>3. invite' \in InviteRows /\ invite'.token = invite.token
        BY <2>2, <3>1, <3>2 DEF WithPin, InviteRows
      <3> QED
        BY <3>1, <3>3, NoneDiffers
    <2> QED
      BY <2>1, <2>2 DEF Redeem, CommitRedeem, CheckPin, ConsumePin, CheckLink, DenyLink,
             Register, Revoke, CommitLogin, Crash
  <1> QED
    BY <1>1, <1>2, <1>3, <1>4, <1>5 DEF Apart, Inviting

LEMMA ApartKept == TypeOK /\ InviteInv /\ Apart => InviteInv'
  <1> SUFFICES ASSUME TypeOK, InviteInv, Apart, "invites" \notin marred' PROVE InvitesInTurn'
    BY DEF InviteInv
  <1>1. InvitesInTurn /\ Invitations' = Invitations
    BY DEF InviteInv, Apart, Invitations
  <1>2. \A q \in Procs : req'[q].op \in {"invite", "invited"} => req'[q] = req[q]
    BY DEF Apart, Inviting
  <1>3. \A q \in Procs : req[q].op = "invited" => req'[q] = req[q]
    BY DEF Apart
  <1>4. (invite = None <=> invite' = None) /\ (invite # None => invite'.token = invite.token)
    BY DEF Apart
  <1>5. \A m \in Invitations : (\A n \in Invitations : n.id <= m.id) =>
          \/ invite' # None /\ invite'.token = m.id
          \/ \E p \in Procs : req'[p].op = "invited" /\ req'[p].id = m.id
    BY <1>1, <1>3, <1>4 DEF InvitesInTurn
  <1>6. \A p \in Procs : req'[p].op = "invite" => \A m \in Invitations : m.id < req'[p].id
    BY <1>1, <1>2 DEF InvitesInTurn
  <1>7. \A p \in Procs : req'[p].op = "invited" =>
          /\ Mail("invite", req'[p].id) \in Invitations
          /\ \A m \in Invitations : m.id <= req'[p].id
    BY <1>1, <1>2 DEF InvitesInTurn
  <1>8. /\ \A p, q \in Procs : Inviting(p)' /\ Inviting(q)' => p = q
        /\ \A p \in Procs : Inviting(p)' /\ req'[p].old = None => invite' = None
    BY <1>1, <1>2, <1>4 DEF InvitesInTurn, Inviting
  <1> QED
    BY <1>1, <1>5, <1>6, <1>7, <1>8 DEF InvitesInTurn, Inviting
LEMMA IdsGrow ==
  ASSUME TypeOK, [Next]_vars
  PROVE  ids \in Nat /\ ids' \in Nat /\ ids <= ids'
  <1>1. Draws \/ ids' = ids
    BY DEF Next, vars, RequestLink, AdminLink, CooldownEnds, Deliver, LoseMail, UpdateStudent,
           ReadInvite, QueueInvite, CommitInvite, Redeem, CommitRedeem, CheckPin, ConsumePin,
           CheckLink, DenyLink, Register, Revoke, CommitLogin, Crash, Refresh, Logout
  <1> QED
    BY <1>1, DrawType DEF TypeOK

LEMMA MailApart ==
  ASSUME TypeOK, InviteInv, Drawn, [Next]_vars,
         RequestLink \/ AdminLink \/ CooldownEnds \/ Deliver \/ LoseMail \/ UpdateStudent
           \/ Refresh \/ Logout \/ UNCHANGED vars
  PROVE  InviteInv' /\ Drawn'
  <1>1. invite' = invite /\ req' = req /\ marred \subseteq marred'
    BY DEF RequestLink, AdminLink, CooldownEnds, Deliver, LoseMail, UpdateStudent, Refresh,
           Logout, vars, history
  <1>2. ids \in Nat /\ ids' \in Nat /\ ids <= ids'
    BY IdsGrow
  <1>3. \A m \in inbox' \cup queue' : m \in inbox \cup queue \/ (m.id <= ids' /\ m.kind = "magic")
    <2>1. CASE RequestLink \/ AdminLink
      <3>1. Draws /\ inbox' = inbox /\ queue' = queue \cup {Mail("magic", NewId)}
        BY <2>1 DEF RequestLink, AdminLink
      <3> QED
        BY <3>1, <1>2, DrawType DEF Mail
    <2>2. CASE CooldownEnds \/ Deliver \/ LoseMail \/ UpdateStudent \/ Refresh \/ Logout
                 \/ UNCHANGED vars
      BY <2>2 DEF CooldownEnds, Deliver, LoseMail, UpdateStudent, Refresh, Logout, vars
    <2> QED
      BY <2>1, <2>2
  <1>4. "invites" \notin marred' => \A m \in inbox \cup queue : m \in inbox' \cup queue' \/ m.kind = "magic"
    <2>1. CASE LoseMail
      <3>1. PICK m \in queue : queue' = queue \ {m} /\ ("invites" \notin marred' => m.kind # "invite")
        BY <2>1 DEF LoseMail
      <3>2. m.kind \in {"magic", "invite"} /\ inbox' = inbox
        BY <2>1 DEF LoseMail, TypeOK
      <3> QED
        BY <3>1, <3>2
    <2>2. CASE RequestLink \/ AdminLink \/ CooldownEnds \/ Deliver \/ UpdateStudent \/ Refresh
                 \/ Logout \/ UNCHANGED vars
      BY <2>2 DEF RequestLink, AdminLink, CooldownEnds, Deliver, UpdateStudent, Refresh, Logout, vars
    <2> QED
      BY <2>1, <2>2
  <1>5. "invites" \notin marred' => Invitations' = Invitations
    BY <1>3, <1>4 DEF Invitations
  <1>6. InviteInv'
    <2>1. CASE "invites" \in marred'
      BY <2>1 DEF InviteInv
    <2>2. CASE "invites" \notin marred'
      BY <2>2, <1>1, <1>5, ApartKept DEF Apart, Inviting
    <2> QED
      BY <2>1, <2>2
  <1>7. \A q \in Procs : req[q].id \in Nat
    BY DEF TypeOK, Requests
  <1>8. \A m \in inbox \cup queue : m.id \in Nat
    BY DEF TypeOK
  <1>9. Drawn'
    BY <1>1, <1>2, <1>3, <1>7, <1>8 DEF Drawn, Inviting
  <1> QED
    BY <1>6, <1>9

LEMMA ReadInviteNewest ==
  ASSUME TypeOK, InviteInv, Drawn, NEW p \in Procs, ReadInvite(p)
  PROVE  InviteInv' /\ Drawn'
  <1>1. /\ invite' = invite /\ inbox' = inbox /\ queue' = queue
        /\ Draws /\ Becomes(p, Req("invite", NewId, "none", IF invite = None THEN None ELSE invite.token))
    BY DEF ReadInvite
  <1>2. ids \in Nat /\ ids' = ids + 1 /\ NewId = ids + 1
    BY <1>1, DrawType DEF TypeOK
  <1>3. req'[p] = Req("invite", ids + 1, "none", IF invite = None THEN None ELSE invite.token)
          /\ \A q \in Procs \ {p} : req'[q] = req[q]
    BY <1>1, <1>2 DEF Becomes, TypeOK
  <1>4. req'[p].op = "invite" /\ req'[p].id = ids + 1 /\ (req'[p].old = None => invite = None)
    BY <1>3, NoneDiffers DEF Req, TypeOK, InviteRows
  <1>5. \A m \in inbox \cup queue : m.id \in Nat /\ m.id <= ids
    BY DEF TypeOK, Drawn
  <1>6. \A q \in Procs : req[q].id \in Nat
    BY DEF TypeOK, Requests
  <1>7. Drawn'
    BY <1>1, <1>2, <1>3, <1>4, <1>5, <1>6 DEF Drawn, Inviting
  <1>8. ASSUME "invites" \notin marred' PROVE InvitesInTurn'
    <2>1. InvitesInTurn /\ \A q \in Procs : req[q].op \notin {"invite", "invited"}
      BY <1>8 DEF ReadInvite, InviteInv, Busy
    <2>2. \A q \in Procs \ {p} : req'[q].op \notin {"invite", "invited"}
      BY <2>1, <1>3
    <2>3. Invitations' = Invitations
      BY <1>1 DEF Invitations
    <2>4. \A m \in Invitations : m.id < ids + 1
      BY <1>2, <1>5 DEF Invitations
    <2>5. \A m \in Invitations : (\A n \in Invitations : n.id <= m.id) => invite # None /\ invite.token = m.id
      BY <2>1 DEF InvitesInTurn
    <2> QED
      BY <1>1, <1>4, <2>2, <2>3, <2>4, <2>5 DEF InvitesInTurn, Inviting
  <1> QED
    BY <1>7, <1>8 DEF InviteInv

LEMMA QueueInviteNewest ==
  ASSUME TypeOK, InviteInv, Drawn, NEW p \in Procs, QueueInvite(p)
  PROVE  InviteInv' /\ Drawn'
  <1> DEFINE new == Mail("invite", req[p].id)
  <1>1. /\ invite' = invite /\ inbox' = inbox /\ queue' = queue \cup {new} /\ ids' = ids
        /\ marred' = marred /\ req[p].op = "invite"
        /\ Becomes(p, [req[p] EXCEPT !.op = "invited"])
    BY DEF QueueInvite, history
  <1>2. new.id = req[p].id /\ new.kind = "invite" /\ req[p].id \in Nat /\ req[p].id <= ids /\ ids \in Nat
    BY <1>1 DEF Mail, TypeOK, Requests, Drawn, Inviting
  <1>3. req'[p] = [req[p] EXCEPT !.op = "invited"] /\ \A q \in Procs \ {p} : req'[q] = req[q]
    BY <1>1 DEF Becomes, TypeOK
  <1>4. req'[p].op = "invited" /\ req'[p].id = req[p].id /\ req'[p].old = req[p].old
    BY <1>3 DEF TypeOK, Requests
  <1>5. Drawn'
    BY <1>1, <1>2, <1>3, <1>4 DEF Drawn, Inviting
  <1>6. ASSUME InvitesInTurn PROVE InvitesInTurn'
    <2> HIDE DEF new
    <2>1. Invitations' = Invitations \cup {new}
      BY <1>1, <1>2 DEF Invitations
    <2>2. \A q \in Procs \ {p} : req[q].op \notin {"invite", "invited"}
      BY <1>1, <1>6 DEF InvitesInTurn, Inviting
    <2>3. \A q \in Procs \ {p} : req'[q].op \notin {"invite", "invited"}
      BY <2>2, <1>3
    <2>4. \A m \in Invitations : m.id < new.id /\ m.id \in Nat
      BY <1>1, <1>2, <1>6 DEF InvitesInTurn, TypeOK, Invitations
    <2>5. req'[p].old = None => invite = None
      BY <1>1, <1>4, <1>6 DEF InvitesInTurn, Inviting
    <2>6. new = Mail("invite", req'[p].id)
      BY <1>4 DEF new
    <2>7. \A m \in Invitations' : m.id <= new.id
      BY <2>1, <2>4, <1>2
    <2>8. \A m \in Invitations' : new.id <= m.id => m = new
      BY <2>1, <2>4, <1>2
    <2>9. \A m \in Invitations' : (\A n \in Invitations' : n.id <= m.id) =>
            req'[p].op = "invited" /\ req'[p].id = m.id
      BY <2>1, <2>8, <1>2, <1>4
    <2> QED
      BY <1>1, <1>2, <1>4, <2>1, <2>3, <2>5, <2>6, <2>7, <2>9 DEF InvitesInTurn, Inviting
  <1> QED
    BY <1>1, <1>5, <1>6 DEF InviteInv

LEMMA CommitInviteNewest ==
  ASSUME TypeOK, InviteInv, Drawn, NEW p \in Procs, CommitInvite(p)
  PROVE  InviteInv' /\ Drawn'
  <1>1. /\ inbox' = inbox /\ queue' = queue /\ ids' = ids /\ marred' = marred
        /\ req[p].op = "invited" /\ Becomes(p, Idle)
    BY DEF CommitInvite, history
  <1>2. req'[p] = Idle /\ \A q \in Procs \ {p} : req'[q] = req[q]
    BY <1>1 DEF Becomes, TypeOK
  <1>3. Idle.op = "idle"
    BY DEF Idle, Req
  <1>4. Drawn'
    BY <1>1, <1>2, <1>3 DEF Drawn, Inviting
  <1>5. ASSUME InvitesInTurn PROVE InvitesInTurn'
    <2>1. \A q \in Procs : req'[q].op \notin {"invite", "invited"}
      BY <1>1, <1>2, <1>3, <1>5 DEF InvitesInTurn, Inviting
    <2>2. req[p].id \in Nat /\ (req[p].old = None => invite = None)
      BY <1>1, <1>5 DEF InvitesInTurn, Inviting, TypeOK, Requests
    <2>3. invite' = Rotated(req[p].id)
      BY <2>2 DEF CommitInvite
    <2>4. invite' # None /\ invite'.token = req[p].id
      <3>1. CASE invite = None
        <4>1. invite' \in InviteRows /\ invite'.token = req[p].id
          BY <3>1, <2>2, <2>3 DEF Rotated, Invite, InviteRows
        <4> QED
          BY <4>1, NoneDiffers
      <3>2. CASE invite # None
        <4>1. invite' \in InviteRows /\ invite'.token = req[p].id
          BY <3>2, <2>2, <2>3 DEF Rotated, InviteRows, TypeOK
        <4> QED
          BY <4>1, NoneDiffers
      <3> QED
        BY <3>1, <3>2
    <2>5. Invitations' = Invitations
      BY <1>1 DEF Invitations
    <2>6. /\ Mail("invite", req[p].id) \in Invitations
          /\ \A m \in Invitations : m.id <= req[p].id /\ m.id \in Nat
      BY <1>1, <1>5 DEF InvitesInTurn, TypeOK, Invitations
    <2>7. Mail("invite", req[p].id).id = req[p].id
      BY DEF Mail
    <2>8. \A m \in Invitations : (\A n \in Invitations : n.id <= m.id) => m.id = req[p].id
      BY <2>2, <2>6, <2>7
    <2> QED
      BY <2>1, <2>4, <2>5, <2>8 DEF InvitesInTurn, Inviting
  <1> QED
    BY <1>1, <1>4, <1>5 DEF InviteInv

LEMMA LoginDrawn ==
  ASSUME TypeOK, Drawn, Apart, inbox' = inbox, queue' = queue, [Next]_vars
  PROVE  Drawn'
  <1>1. ids \in Nat /\ ids' \in Nat /\ ids <= ids'
    BY IdsGrow
  <1>2. \A q \in Procs : req[q].id \in Nat
    BY DEF TypeOK, Requests
  <1>3. \A m \in inbox \cup queue : m.id \in Nat
    BY DEF TypeOK
  <1> QED
    BY <1>1, <1>2, <1>3 DEF Drawn, Apart, Inviting

LEMMA InviteNext == TypeOK /\ Invited /\ Drawn /\ InviteInv /\ [Next]_vars => (Drawn /\ InviteInv)'
  BY MailApart, ReadInviteNewest, QueueInviteNewest, CommitInviteNewest, LoginApart,
     ApartKept, LoginDrawn DEF Next

\* The newest link works (create_exam_invites): whatever visits, logins and mails come in
\* between, re-inviting leaves the student with the link that was mailed last, unless two
\* invites overlapped, one was rolled back after its mail, or a mail was lost.
THEOREM NewestLink == Spec => []NewestLinkWorks
  <1>1. Init => TypeOK /\ Invited
    BY InitType DEF Init, Invited, Idle, Req
  <1>2. Init => Drawn /\ InviteInv
    BY DEF Init, Drawn, InviteInv, InvitesInTurn, Invitations, Inviting, Idle, Req
  <1>3. TypeOK /\ Invited /\ Drawn /\ InviteInv /\ [Next]_vars
          => (TypeOK /\ Invited /\ Drawn /\ InviteInv)'
    BY NextType, InvitedNext, InviteNext
  <1>4. InviteInv => NewestLinkWorks
    BY DEF InviteInv, InvitesInTurn, Invitations, NewestLinkWorks, Busy
  <1> QED
    BY <1>1, <1>2, <1>3, <1>4, PTL DEF Spec
=============================================================================
