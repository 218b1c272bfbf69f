------------------------------- MODULE SignIn -------------------------------
(***************************************************************************)
(* How one student gets into one exam: magic links, invites with their     *)
(* PIN, and the one active session (routers/auth.py, routers/invites.py,   *)
(* the invites of routers/admin.py, tasks/mailer_tasks.py, the denylist    *)
(* and sessions of cache.py).                                              *)
(*                                                                         *)
(* Requests interleave between their reads, their calls of Redis and their *)
(* commit.  Tokens, PINs and jtis are numbers, drawn in order.             *)
(***************************************************************************)
EXTENDS Naturals, FiniteSets

CONSTANTS Procs, None,
          Mails,     \* the kinds of mail in this instance: "magic", "invite"
          MaxIds,    \* bound: tokens, PINs and jtis drawn
          MaxFaults  \* bound: crashes, lost mails, lost calls of Redis

\* The rows of exam_invites.
InviteRows == [token : Nat, pin : Nat \cup {None}, used : BOOLEAN]

ASSUME SignInAssumption ==
    /\ Mails \subseteq {"magic", "invite"} /\ MaxIds \in Nat /\ MaxFaults \in Nat
    /\ None \notin Nat \cup InviteRows

VARIABLES
    active,              \* students.is_active
    invite,              \* the row of exam_invites, or None
    cooldown, session, denied,  \* Redis: magic_cooldown, session, the denylist
    queue, inbox,        \* mails to send; mails that have arrived
    tokens,              \* access tokens that were handed out
    req, ids, faults,
    \* History: logins with each PIN; invites, PIN logins or sessions that overlapped
    \* or failed half way.
    logins, marred

redis   == <<cooldown, session, denied>>
history == <<logins, marred>>
vars    == <<active, invite, redis, queue, inbox, tokens, req, ids, faults, history>>

Req(op, id, via, old) == [op |-> op, id |-> id, via |-> via, old |-> old]
Idle == Req("idle", 0, "none", None)

Mail(kind, id)     == [id |-> id, kind |-> kind]
Token(jti, renewed) == [jti |-> jti, renewed |-> renewed]
Invite(token, pin, used) == [token |-> token, pin |-> pin, used |-> used]

NewId == ids + 1
Draws == ids < MaxIds /\ ids' = NewId

Becomes(p, r) == req' = [req EXCEPT ![p] = r]
Busy(ops)     == \E q \in Procs : req[q].op \in ops

-----------------------------------------------------------------------------
\* request_magic_link, send_student_magic_link, bulk_send_magic_links

\* A second request within the cooldown is acknowledged and sends nothing.
RequestLink ==
    /\ "magic" \in Mails /\ active /\ ~cooldown
    /\ cooldown' = TRUE
    /\ Draws /\ queue' = queue \cup {Mail("magic", NewId)}
    /\ UNCHANGED <<active, invite, session, denied, inbox, tokens, req, faults, history>>

\* An admin need not wait.
AdminLink ==
    /\ "magic" \in Mails
    /\ Draws /\ queue' = queue \cup {Mail("magic", NewId)}
    /\ UNCHANGED <<active, invite, redis, inbox, tokens, req, faults, history>>

CooldownEnds ==
    /\ cooldown /\ cooldown' = FALSE
    /\ UNCHANGED <<active, invite, session, denied, queue, inbox, tokens, req, ids, faults, history>>

Deliver ==
    /\ \E m \in queue : queue' = queue \ {m} /\ inbox' = inbox \cup {m}
    /\ UNCHANGED <<active, invite, redis, tokens, req, ids, faults, history>>

\* The provider refuses: the failure is logged and nobody tries again.
LoseMail ==
    /\ faults < MaxFaults /\ faults' = faults + 1
    /\ \E m \in queue : /\ queue' = queue \ {m}
                        /\ marred' = marred \cup (IF m.kind = "invite" THEN {"invites"} ELSE {})
    /\ UNCHANGED <<active, invite, redis, inbox, tokens, req, ids, logins>>

UpdateStudent ==
    /\ active' = ~active
    /\ UNCHANGED <<invite, redis, queue, inbox, tokens, req, ids, faults, history>>

-----------------------------------------------------------------------------
\* create_exam_invites: the row is read, the mail is queued, the row is committed.

ReadInvite(p) ==
    /\ "invite" \in Mails /\ active /\ req[p] = Idle /\ Draws
    /\ Becomes(p, Req("invite", NewId, "none", IF invite = None THEN None ELSE invite.token))
    /\ marred' = marred \cup (IF Busy({"invite", "invited"}) THEN {"invites"} ELSE {})
    /\ UNCHANGED <<active, invite, redis, queue, inbox, tokens, faults, logins>>

QueueInvite(p) ==
    /\ req[p].op = "invite"
    /\ queue' = queue \cup {Mail("invite", req[p].id)}
    /\ Becomes(p, [req[p] EXCEPT !.op = "invited"])
    /\ UNCHANGED <<active, invite, redis, inbox, tokens, ids, faults, history>>

\* A PIN login has its row locked from its UPDATE to its commit.
PinLock == \E q \in Procs : req[q].op \in {"register", "revoke", "commit"} /\ req[q].via = "pin"

\* Mutant of Rotated: whoever has a row keeps the token.
KeptToken(id) == IF invite = None THEN Invite(id, None, FALSE) ELSE invite
Rotated(id) == IF invite = None THEN Invite(id, None, FALSE) ELSE [invite EXCEPT !.token = id]

\* An insert beside another one fails, after the mail was queued.
CommitInvite(p) ==
    /\ req[p].op = "invited" /\ ~PinLock
    /\ invite' = IF req[p].old = None /\ invite # None THEN invite ELSE Rotated(req[p].id)
    /\ Becomes(p, Idle)
    /\ UNCHANGED <<active, redis, queue, inbox, tokens, ids, faults, history>>

-----------------------------------------------------------------------------
\* redeem_invite: any visit of a link draws a new PIN.

PinOps == {"redeem", "pin", "register", "revoke", "commit"}

Redeem(p) ==
    /\ req[p] = Idle /\ invite # None /\ Mail("invite", invite.token) \in inbox
    /\ Draws
    /\ Becomes(p, Req("redeem", NewId, "none", None))
    /\ marred' = marred \cup (IF Busy({"pin"}) THEN {"pins"} ELSE {})
    /\ UNCHANGED <<active, invite, redis, queue, inbox, tokens, faults, logins>>

\* Mutant of WithPin: pin_consumed_at is not reset.
WithPinOnly(pin) == [invite EXCEPT !.pin = pin]
WithPin(pin) == [invite EXCEPT !.pin = pin, !.used = FALSE]

CommitRedeem(p) ==
    /\ req[p].op = "redeem" /\ ~PinLock
    /\ invite' = WithPin(req[p].id)
    /\ Becomes(p, Idle)
    /\ UNCHANGED <<active, redis, queue, inbox, tokens, ids, faults, history>>

-----------------------------------------------------------------------------
\* pin_login and verify_magic_link, up to the session.

\* Mutant of PinWorks: consumed PINs work too.
PinMatches == invite # None /\ invite.pin # None
PinWorks == invite # None /\ invite.pin # None /\ ~invite.used

CheckPin(p) ==
    /\ req[p] = Idle /\ PinWorks /\ active
    /\ Becomes(p, Req("pin", invite.pin, "pin", None))
    /\ marred' = marred \cup (IF Busy(PinOps) THEN {"pins"} ELSE {})
    /\ UNCHANGED <<active, invite, redis, queue, inbox, tokens, ids, faults, logins>>

\* The UPDATE that consumes the PIN is flushed.
ConsumePin(p) ==
    /\ req[p].op = "pin" /\ ~PinLock
    /\ Becomes(p, [req[p] EXCEPT !.op = "register"])
    /\ UNCHANGED <<active, invite, redis, queue, inbox, tokens, ids, faults, history>>

CheckLink(p) ==
    /\ req[p] = Idle
    /\ \E m \in inbox : /\ m.kind = "magic" /\ m.id \notin denied
                        /\ Becomes(p, Req("link", m.id, "link", None))
    /\ UNCHANGED <<active, invite, redis, queue, inbox, tokens, ids, faults, history>>

\* The link is spent before the student is looked up.
DenyLink(p) ==
    /\ req[p].op = "link"
    /\ denied' = denied \cup {req[p].id}
    /\ Becomes(p, IF active THEN [req[p] EXCEPT !.op = "register"] ELSE Idle)
    /\ UNCHANGED <<active, invite, cooldown, session, queue, inbox, tokens, ids, faults, history>>

-----------------------------------------------------------------------------
\* _issue_student_session: GETSET of the session, then the old one is denied.

\* A call of Redis fails: it is logged and passed over.
Lost == faults < MaxFaults /\ faults' = faults + 1 /\ marred' = marred \cup {"sessions"}

Register(p) ==
    /\ req[p].op = "register" /\ Draws
    /\ \/ /\ session' = NewId /\ UNCHANGED <<faults, marred>>
          /\ Becomes(p, [req[p] EXCEPT !.op = "revoke", !.old = session])
       \/ /\ Lost /\ UNCHANGED session
          /\ Becomes(p, [req[p] EXCEPT !.op = "revoke", !.old = None])
    /\ tokens' = tokens \cup {Token(NewId, FALSE)}
    /\ UNCHANGED <<active, invite, cooldown, denied, queue, inbox, logins>>

\* Mutant of Revoke: nothing is denied.
RevokeNothing(p) ==
    /\ req[p].op = "revoke"
    /\ UNCHANGED <<denied, faults, marred>>
    /\ Becomes(p, [req[p] EXCEPT !.op = "commit"])
    /\ UNCHANGED <<active, invite, cooldown, session, queue, inbox, tokens, ids, logins>>

Revoke(p) ==
    /\ req[p].op = "revoke"
    /\ \/ denied' = denied \cup ({req[p].old} \ {None}) /\ UNCHANGED <<faults, marred>>
       \/ Lost /\ UNCHANGED denied
    /\ Becomes(p, [req[p] EXCEPT !.op = "commit"])
    /\ UNCHANGED <<active, invite, cooldown, session, queue, inbox, tokens, ids, logins>>

CommitLogin(p) ==
    /\ req[p].op = "commit"
    /\ IF req[p].via = "pin"
       THEN /\ invite' = [invite EXCEPT !.used = TRUE]
            /\ logins' = [logins EXCEPT ![req[p].id] = @ + 1]
       ELSE UNCHANGED <<invite, logins>>
    /\ Becomes(p, Idle)
    /\ UNCHANGED <<active, redis, queue, inbox, tokens, ids, faults, marred>>

\* refresh: a new access token that is registered nowhere; logout.
Refresh ==
    /\ tokens # {} /\ Draws
    /\ tokens' = tokens \cup {Token(NewId, TRUE)}
    /\ UNCHANGED <<active, invite, redis, queue, inbox, req, faults, history>>

Logout ==
    /\ \E t \in tokens : t.jti \notin denied /\ denied' = denied \cup {t.jti}
    /\ UNCHANGED <<active, invite, cooldown, session, queue, inbox, tokens, req, ids, faults, history>>

\* A request fails and is rolled back.  What it has sent and told Redis stays.
Crash(p) ==
    /\ req[p] # Idle /\ faults < MaxFaults /\ faults' = faults + 1
    /\ Becomes(p, Idle)
    /\ marred' = marred \cup (IF req[p].op = "invited" THEN {"invites"} ELSE {})
                        \cup (IF req[p].op = "revoke" THEN {"sessions"} ELSE {})
    /\ UNCHANGED <<active, invite, redis, queue, inbox, tokens, ids, logins>>

-----------------------------------------------------------------------------

Init ==
    /\ active = TRUE /\ invite = None
    /\ cooldown = FALSE /\ session = None /\ denied = {}
    /\ queue = {} /\ inbox = {} /\ tokens = {}
    /\ req = [p \in Procs |-> Idle] /\ ids = 0 /\ faults = 0
    /\ logins = [n \in 1 .. MaxIds |-> 0] /\ marred = {}

Next ==
    \/ RequestLink \/ AdminLink \/ CooldownEnds \/ Deliver \/ LoseMail \/ UpdateStudent
    \/ \E p \in Procs :
          \/ ReadInvite(p) \/ QueueInvite(p) \/ CommitInvite(p)
          \/ Redeem(p) \/ CommitRedeem(p)
          \/ CheckPin(p) \/ ConsumePin(p) \/ CheckLink(p) \/ DenyLink(p)
          \/ Register(p) \/ Revoke(p) \/ CommitLogin(p) \/ Crash(p)
    \/ Refresh \/ Logout

Spec == Init /\ [][Next]_vars
-----------------------------------------------------------------------------
\* Properties.

Requests ==
    [op : {"idle", "invite", "invited", "redeem", "pin", "link", "register", "revoke", "commit"},
     id : Nat, via : {"none", "pin", "link"}, old : Nat \cup {None}]

TypeOK ==
    /\ active \in BOOLEAN /\ cooldown \in BOOLEAN
    /\ invite \in InviteRows \cup {None}
    /\ session \in Nat \cup {None} /\ denied \subseteq Nat
    /\ queue \cup inbox \subseteq [id : Nat, kind : {"magic", "invite"}]
    /\ tokens \subseteq [jti : Nat, renewed : BOOLEAN]
    /\ req \in [Procs -> Requests]
    /\ ids \in 0 .. MaxIds /\ faults \in 0 .. MaxFaults
    /\ logins \in [1 .. MaxIds -> Nat] /\ marred \subseteq {"invites", "pins", "sessions"}

\* "Re-inviting a student who already has a row just rotates their token, so an old link
\* stops working": of the links that were mailed the newest one works and no other, unless
\* two invites overlapped, one was rolled back, or a mail was lost.
NewestLinkWorks ==
    "invites" \notin marred /\ ~Busy({"invite", "invited"}) =>
        \A m \in inbox \cup queue :
            /\ m.kind = "invite"
            /\ \A n \in inbox \cup queue : n.kind = "invite" => n.id <= m.id
            => invite # None /\ invite.token = m.id

\* A PIN lets in once, unless two logins overlapped.
PinOnce == "pins" \notin marred => \A n \in 1 .. MaxIds : logins[n] <= 1

\* "Nothing is consumed by viewing a PIN, only by using it": the PIN of the row is consumed
\* only by a login with that very PIN, unless a visit of the link overlapped a login.
ConsumedByUse ==
    invite # None /\ invite.used /\ "pins" \notin marred =>
        invite.pin # None /\ logins[invite.pin] = 1

\* "One active session per student ID: a second login revokes the first": once no login is
\* under way, every token of a login but the registered one is denied, in whatever order
\* logins overtake each other, unless a call of Redis failed.  (Refreshed tokens are not
\* registered; they are outside this promise.)
OneSession ==
    "sessions" \notin marred /\ ~Busy({"revoke"}) =>
        \A t \in tokens : ~t.renewed /\ t.jti \notin denied => t.jti = session

-----------------------------------------------------------------------------
\* Inductive invariants of these properties.

Inviting(p) == req[p].op \in {"invite", "invited"}
ByPin(p)    == req[p].via = "pin"
Redeems(p)  == req[p].op = "redeem"

\* One invite at a time; its link is newer than every other; the newest link of those that
\* were mailed is that of the row, or that of the invite about to be committed.
Invitations == {m \in inbox \cup queue : m.kind = "invite"}

InvitesInTurn ==
    /\ \A p, q \in Procs : Inviting(p) /\ Inviting(q) => p = q
    /\ \A p \in Procs : Inviting(p) /\ req[p].old = None => invite = None
    /\ \A p \in Procs : req[p].op = "invite" => \A m \in Invitations : m.id < req[p].id
    /\ \A p \in Procs : req[p].op = "invited" =>
          /\ Mail("invite", req[p].id) \in Invitations
          /\ \A m \in Invitations : m.id <= req[p].id
    /\ \A m \in Invitations : (\A n \in Invitations : n.id <= m.id) =>
          \/ invite # None /\ invite.token = m.id
          \/ \E p \in Procs : req[p].op = "invited" /\ req[p].id = m.id

InviteInv == "invites" \notin marred => InvitesInTurn

\* Every number in use was drawn.
Drawn == /\ \A m \in inbox \cup queue : m.id <= ids
         /\ \A p \in Procs : Inviting(p) => req[p].id <= ids

\* One PIN login at a time, with the PIN of the row, which is not consumed; a PIN of the
\* row that is not consumed, or is about to be drawn, has let nobody in.
PinsInTurn ==
    /\ \A n \in 1 .. MaxIds : logins[n] <= 1 /\ (n > ids => logins[n] = 0)
    /\ \A p \in Procs : req[p].op = "pin" => ByPin(p) /\ \A q \in Procs : ~Redeems(q)
    /\ \A p, q \in Procs : ByPin(p) /\ ByPin(q) => p = q
    /\ \A p \in Procs : ByPin(p) =>
          /\ req[p].op \in {"pin", "register", "revoke", "commit"}
          /\ invite # None /\ invite.pin = req[p].id /\ ~invite.used
    /\ \A p \in Procs : Redeems(p) =>
          /\ req[p].id \in 1 .. ids /\ logins[req[p].id] = 0
          /\ invite # None /\ invite.pin # req[p].id
          /\ \A q \in Procs : Redeems(q) /\ req[q].id = req[p].id => q = p
    /\ invite # None /\ invite.pin # None =>
          invite.pin \in 1 .. ids /\ logins[invite.pin] = IF invite.used THEN 1 ELSE 0
    /\ invite # None /\ invite.used => invite.pin # None

PinInv == "pins" \notin marred => PinsInTurn

\* A token that works is the registered one or about to be revoked.
SessionInv == "sessions" \notin marred =>
    \A t \in tokens : ~t.renewed /\ t.jti \notin denied =>
        t.jti = session \/ \E p \in Procs : req[p].op = "revoke" /\ req[p].old = t.jti

=============================================================================
