--------------------------- MODULE BrowserSession ---------------------------
(***************************************************************************)
(* The browser's session and the campaign snapshot it shows:               *)
(* frontend/src/app/session-controller.ts over campaign-controller.ts,     *)
(* core/campaign-data.ts, the navigation guard and the add-on session.     *)
(*                                                                         *)
(* One tab, the server's cookie session, which other tabs and time change, *)
(* and everything in flight: the session check, a sign-in, sign-out or     *)
(* resumption, the campaign reads queued behind each other, the live       *)
(* stream, and the add-ons' discovery that the session is gone.  An await  *)
(* is a step of its own, so any answer may arrive late.                    *)
(***************************************************************************)
EXTENDS Naturals, Sequences, FiniteSets

CONSTANTS
    Roles,       \* the roles a session can have
    Nobody,      \* the role of a viewer without a session
    Events,      \* the live events whose reads may be in flight at once
    MaxSession,  \* bound: sessions the server issues
    MaxRev       \* bound: changes of the campaign

ASSUME SessionAssumption ==
    /\ Nobody \notin Roles /\ (Roles \cup {Nobody}) \cap {"unknown", "failed", "nothing"} = {}
    /\ MaxSession \in Nat /\ MaxRev \in Nat
    /\ Events \cap {"boot", "op", "lost", "retry", "restore"} = {}

VARIABLES
    session,     \* the server's cookie session
    rev,         \* the server's campaign revision
    auth,        \* SessionController.authority
    recovering,  \* SessionController.recovering
    check,       \* the shared session check, if one runs
    op,          \* the sign-in, sign-out or resumption that holds the busy lease
    campaign,    \* CampaignController.#state
    current,     \* CampaignDataClient.#current
    waiting,     \* loads waiting for the session check
    queue,       \* loads in the data client's queue, the first one reading
    reading,     \* the first one's request
    done,        \* loads that returned and whose caller has not gone on yet
    stream,      \* the live event stream, and what it has yet to deliver
    addons,      \* the add-on session
    draft        \* a host editor with unsaved changes

vars == <<session, rev, auth, recovering, check, op, campaign, current, waiting,
          queue, reading, done, stream, addons, draft>>
server == <<session, rev>>
reads == <<campaign, current, waiting, queue, reading, done>>

Loads == Events \cup {"boot", "op", "lost", "retry", "restore"}
Session == [role : Roles \cup {Nobody}, id : Nat]
Anonymous == [role |-> Nobody, id |-> 0]
Unknown == [role |-> "unknown", id |-> 0]
Failed == [role |-> "failed", id |-> 0]
SignedIn(a) == a.role \in Roles
\* A snapshot remembers for whom it was asked and at which revision it was read.
NoData == [for |-> "nothing", rev |-> 0]
Snapshot == [for : Roles \cup {Nobody}, rev : Nat]

NoCheck == [phase |-> "idle", ans |-> Unknown]
AskCheck == [phase |-> "asked", ans |-> Unknown]
NoOp == [kind |-> "none", phase |-> "idle", ans |-> Unknown]
Idle == [phase |-> "idle", snap |-> NoData]
Shown(s) == [state |-> "ready", snap |-> s]
Loading == [state |-> "loading", snap |-> NoData]
Unavailable == [state |-> "unavailable", snap |-> NoData]
Closed == [open |-> FALSE, due |-> FALSE, restore |-> FALSE]
\* A new connection starts with a hello, after which the campaign is read again.
Opened == [open |-> TRUE, due |-> TRUE, restore |-> FALSE]

\* The busy lease is held: nothing may be started or left.
Busy == op # NoOp

Elements(q) == {q[i] : i \in DOMAIN q}
\* What goes on after its load: the other callers have nothing left to do.
Awaited == {"boot", "op", "restore"}
Ended(q) == Elements(q) \cap Awaited
InFlight == Elements(waiting) \cup Elements(queue) \cup done
\* Events are read through the source's own signal: closing the stream ends them.
Streamed == Events \cup {"restore"}
\* The loads of q that no stream made, in their order.
Without(q) ==
    LET kept == {i \in DOMAIN q : q[i] \notin Streamed} IN
    [n \in 1..Cardinality(kept) |-> q[CHOOSE i \in kept : Cardinality({j \in kept : j <= i}) = n]]
Retains(k) == k \in Streamed \/ (k = "op" /\ op.kind = "resume")

Init ==
    /\ session \in {Anonymous} \cup [role : Roles, id : {1}]
    /\ rev = 0
    /\ auth = Unknown /\ recovering = FALSE
    /\ check = NoCheck /\ op = NoOp
    /\ campaign = Loading /\ current = NoData
    /\ waiting = <<>> /\ queue = <<>> /\ reading = Idle /\ done = {}
    /\ stream = Closed /\ addons = "off"
    /\ draft = "none"

-----------------------------------------------------------------------------
(* The server, and the other tabs that share its cookie.                   *)

Elsewhere == UNCHANGED <<auth, recovering, check, op, campaign, current, waiting,
                         queue, reading, done, addons, draft>>

CampaignChanges ==
    /\ rev < MaxRev
    /\ rev' = rev + 1
    /\ stream' = [stream EXCEPT !.due = stream.open]
    /\ UNCHANGED session /\ Elsewhere

CampaignRestored ==
    /\ rev < MaxRev
    /\ rev' = rev + 1
    /\ stream' = [stream EXCEPT !.restore = stream.open]
    /\ UNCHANGED session /\ Elsewhere

SessionEnds ==
    /\ SignedIn(session)
    /\ session' = Anonymous
    /\ UNCHANGED <<rev, stream>> /\ Elsewhere

Issued(r) == [role |-> r, id |-> session.id + 1]

AnotherTabSignsIn(r) ==
    /\ session.id < MaxSession /\ SignedIn(session)
    /\ session' = Issued(r)
    /\ UNCHANGED <<rev, stream>> /\ Elsewhere

StreamReconnects ==
    /\ stream.open /\ ~stream.due
    /\ stream' = [stream EXCEPT !.due = TRUE]
    /\ UNCHANGED server /\ Elsewhere

-----------------------------------------------------------------------------
(* Steps several handlers share.  q, w and d stand for the queues as the   *)
(* handler has left them so far.                                           *)

\* CampaignController.load and mayRefresh: refused while the session waits to be
\* resumed, behind the session check when the shown snapshot is kept, else queued.
Load(k, retain, q, w, d, c) ==
    /\ done' = IF recovering' THEN d \cup ({k} \cap Awaited) ELSE d
    /\ waiting' = IF ~recovering' /\ retain /\ SignedIn(auth') THEN Append(w, k) ELSE w
    /\ queue' = IF ~recovering' /\ ~(retain /\ SignedIn(auth')) THEN Append(q, k) ELSE q
    /\ check' = IF waiting' # w /\ c.phase = "idle" THEN AskCheck ELSE c
    /\ campaign' = IF queue' # q /\ (~retain \/ campaign.state # "ready")
                   THEN Loading ELSE campaign

\* CampaignDataClient.reset: a new epoch; the reads of the old one end here.
Reset ==
    /\ current' = NoData
    /\ reading' = Idle

\* An editor leaves the page with the campaign view it belongs to.
DraftFollows ==
    draft' = IF draft = "open" /\ campaign'.state # "ready" THEN "lost" ELSE draft

\* SharedEventStream.close aborts the reads of the events it delivered.
Closing(keepDone) ==
    /\ stream' = Closed
    /\ queue' = Without(queue)
    /\ reading' = IF queue # <<>> /\ Head(queue) \in Streamed THEN Idle ELSE reading
    /\ done' = keepDone \ Streamed

\* The add-ons are composed anew for whoever is signed in.
AddonsStart == IF SignedIn(auth) THEN "running" ELSE addons

\* The add-ons asked whether the session can be recovered; no check answers them now.
Unanswered(rec) == IF addons = "asking" THEN (IF rec THEN "kept" ELSE "resetting") ELSE addons

-----------------------------------------------------------------------------
(* Opening the app: SessionController.#bootstrap.                          *)

BootAccepts ==
    /\ auth = Unknown
    /\ auth' \in {session, Anonymous}      \* the answer, or anonymous when it failed
    /\ UNCHANGED recovering
    /\ Load("boot", FALSE, queue, waiting, done, NoCheck)
    /\ UNCHANGED <<server, op, current, reading, stream, addons, draft>>

\* Still the authority it read for: a newer one has taken its load away.
BootGoesOn ==
    /\ "boot" \in done
    /\ done' = done \ {"boot"}
    /\ stream' = Opened
    /\ addons' = AddonsStart
    /\ UNCHANGED <<server, auth, recovering, check, op, campaign, current, waiting,
                   queue, reading, draft>>

-----------------------------------------------------------------------------
(* The campaign reads: CampaignDataClient.refresh and CampaignController.  *)

SendRead ==
    /\ queue # <<>> /\ reading.phase = "idle"
    /\ reading' = [phase |-> "sent", snap |-> [for |-> auth.role, rev |-> 0]]
    /\ UNCHANGED <<server, auth, recovering, check, op, campaign, current, waiting,
                   queue, done, stream, addons, draft>>

ServeRead ==
    /\ reading.phase = "sent"
    /\ reading' = [phase |-> "answered", snap |-> [reading.snap EXCEPT !.rev = rev]]
    /\ UNCHANGED <<server, auth, recovering, check, op, campaign, current, waiting,
                   queue, done, stream, addons, draft>>

Returned == /\ queue' = Tail(queue) /\ reading' = Idle
            /\ done' = done \cup ({Head(queue)} \cap Awaited)

ShowRead ==
    /\ reading.phase = "answered"
    /\ current' = reading.snap
    /\ campaign' = Shown(reading.snap)
    /\ Returned
    /\ UNCHANGED <<server, auth, recovering, check, op, waiting, stream, addons,
                   draft>>

\* A failed refresh keeps what is shown, if the caller asked to and a snapshot is there.
FailRead ==
    /\ reading.phase \in {"sent", "answered"}
    /\ campaign' = IF Retains(Head(queue)) /\ current # NoData
                   THEN Shown(current) ELSE Unavailable
    /\ DraftFollows
    /\ Returned
    /\ UNCHANGED <<server, auth, recovering, check, op, current, waiting, stream,
                   addons>>

Retry ==
    /\ campaign.state = "unavailable" /\ ~Busy /\ "retry" \notin InFlight
    /\ UNCHANGED <<auth, recovering>>
    /\ Reset
    /\ Load("retry", FALSE, <<>>, waiting, done \cup Ended(queue), check)
    /\ UNCHANGED <<server, op, stream, addons, draft>>

-----------------------------------------------------------------------------
(* Live events: SessionController.#handleEvent.                            *)

EventArrives(e) ==
    /\ stream.open /\ stream.due /\ e \notin InFlight
    /\ stream' = [stream EXCEPT !.due = FALSE]
    /\ UNCHANGED <<auth, recovering>>
    /\ Load(e, TRUE, queue, waiting, done, check)
    /\ UNCHANGED <<server, op, current, reading, addons, draft>>

\* CampaignController.restored drops the snapshot first; a newer restore replaces this.
RestoreArrives ==
    /\ stream.open /\ stream.restore /\ "restore" \notin Elements(waiting)
    /\ stream' = [stream EXCEPT !.restore = FALSE]
    /\ UNCHANGED <<auth, recovering>>
    /\ Reset
    /\ Load("restore", TRUE, <<>>, waiting, (done \cup Ended(queue)) \ {"restore"}, check)
    /\ UNCHANGED <<server, op, addons, draft>>

RestoreOver ==
    /\ "restore" \in done
    /\ done' = done \ {"restore"}
    /\ addons' = IF draft # "open" THEN AddonsStart ELSE addons
    /\ UNCHANGED <<server, auth, recovering, check, op, campaign, current, waiting,
                   queue, reading, stream, draft>>

-----------------------------------------------------------------------------
(* The session check: SessionController.check.                             *)

\* An authorized request was rejected, which sessionFetch announces.
AuthorityRejected ==
    /\ SignedIn(auth) /\ session # auth /\ ~recovering /\ check = NoCheck
    /\ campaign.state = "ready" /\ "boot" \notin InFlight
    /\ check' = AskCheck
    /\ UNCHANGED <<server, auth, recovering, op, reads, stream, addons, draft>>

CheckAnswered ==
    /\ check.phase = "asked"
    /\ check' \in [phase : {"answered"}, ans : {session, Failed}]
    /\ UNCHANGED <<server, auth, recovering, op, reads, stream, addons, draft>>

Holds == check.ans.role = auth.role

\* The same role is still signed in, perhaps with a renewed token.
CheckHolds ==
    /\ check.phase = "answered" /\ Holds
    /\ check' = NoCheck
    /\ auth' = check.ans
    /\ waiting' = <<>> /\ queue' = queue \o waiting
    /\ campaign' = IF waiting # <<>> /\ campaign.state # "ready" THEN Loading ELSE campaign
    /\ addons' = IF addons = "rechecking" THEN "running" ELSE Unanswered(FALSE)
    /\ UNCHANGED <<server, recovering, op, current, reading, done, stream, draft>>

\* Mutant: a session that is gone is a signed-out viewer at once.
CheckFailsSignedOut ==
    /\ check.phase = "answered" /\ ~Holds
    /\ auth' = Anonymous
    /\ UNCHANGED recovering
    /\ stream' = Closed
    /\ Reset
    /\ Load("lost", FALSE, <<>>, <<>>, InFlight \cap {"op"}, NoCheck)
    /\ DraftFollows
    /\ addons' = "off"
    /\ UNCHANGED <<server, op>>

\* It is gone: everything stays mounted until the same role signs in again.
CheckFails ==
    /\ check.phase = "answered" /\ ~Holds
    /\ check' = NoCheck
    /\ recovering' = TRUE
    /\ Closing(done \cup Ended(waiting))
    /\ waiting' = <<>>
    /\ addons' = IF addons = "rechecking" THEN "off" ELSE Unanswered(TRUE)
    /\ UNCHANGED <<server, auth, op, campaign, current, draft>>

-----------------------------------------------------------------------------
(* Signing in, resuming and signing out, one at a time under the lease.    *)

Sent(kind) == op' = [kind |-> kind, phase |-> "sent", ans |-> Unknown]
Released == op' = NoOp

LogIn ==
    /\ ~Busy /\ auth = Anonymous
    /\ Sent("login")
    /\ UNCHANGED <<server, auth, recovering, check, reads, stream, addons, draft>>

Resume ==
    /\ ~Busy /\ recovering /\ SignedIn(auth)
    /\ Sent("resume")
    /\ UNCHANGED <<server, auth, recovering, check, reads, stream, addons, draft>>

\* Signing out asks about unsaved changes, cancels the check and stops the add-ons.
LogOut ==
    /\ ~Busy /\ SignedIn(auth)
    /\ draft' = "none"
    /\ Sent("logout")
    /\ check' = NoCheck
    /\ done' = done \cup Ended(waiting)
    /\ waiting' = <<>>
    /\ addons' = "off"
    /\ UNCHANGED <<server, auth, recovering, campaign, current, queue, reading, stream>>

ServerSignsIn(r) ==
    /\ op.kind \in {"login", "resume"} /\ op.phase = "sent" /\ session.id < MaxSession
    /\ session' = Issued(r)
    /\ op' = [op EXCEPT !.phase = "answered", !.ans = session']
    /\ UNCHANGED <<rev, auth, recovering, check, reads, stream, addons, draft>>

ServerSignsOut ==
    /\ op.kind = "logout" /\ op.phase = "sent"
    /\ session' = Anonymous
    /\ op' = [op EXCEPT !.phase = "answered", !.ans = Anonymous]
    /\ UNCHANGED <<rev, auth, recovering, check, reads, stream, addons, draft>>

\* Mutant: a failed request keeps its lease.
OpFailsHolding ==
    /\ op.phase = "sent"
    /\ op' = [op EXCEPT !.phase = "idle"]
    /\ UNCHANGED <<server, auth, recovering, check, reads, stream, addons, draft>>

\* The request failed, or a resumption signed in another role: nothing is accepted.
OpFails ==
    /\ \/ op.phase = "sent"
       \/ op.phase = "answered" /\ op.kind = "resume" /\ op.ans.role # auth.role
    /\ Released
    /\ addons' = IF op.kind = "logout" THEN AddonsStart ELSE addons
    /\ UNCHANGED <<server, auth, recovering, check, reads, stream, draft>>

\* Mutant: a new authority refreshes the campaign instead of reloading it.
NewAuthorityRefreshing(rec) ==
    /\ auth' = op.ans
    /\ recovering' = rec
    /\ stream' = Closed
    /\ UNCHANGED <<current, reading>>
    /\ Load("op", TRUE, queue, <<>>, done, NoCheck)
    /\ op' = [op EXCEPT !.phase = "load"]

\* #accept, then a fresh read for the new authority.
NewAuthority(rec) ==
    /\ auth' = op.ans
    /\ recovering' = rec
    /\ stream' = Closed
    /\ Reset
    /\ Load("op", FALSE, <<>>, <<>>,
            InFlight \cap {"op"}, NoCheck)
    /\ op' = [op EXCEPT !.phase = "load"]

LoginAccepted ==
    /\ op.kind = "login" /\ op.phase = "answered"
    /\ NewAuthority(recovering)
    /\ DraftFollows
    /\ addons' = Unanswered(recovering)
    /\ UNCHANGED <<server>>

LogoutAccepted ==
    /\ op.kind = "logout" /\ op.phase = "answered"
    /\ NewAuthority(FALSE)
    /\ DraftFollows
    /\ addons' = "off"
    /\ UNCHANGED <<server>>

ResumeAccepted ==
    /\ op.kind = "resume" /\ op.phase = "answered" /\ op.ans.role = auth.role
    /\ auth' = op.ans
    /\ recovering' = FALSE
    /\ Load("op", TRUE, queue, <<>>, done \cup Ended(waiting), NoCheck)
    /\ op' = [op EXCEPT !.phase = "load"]
    /\ UNCHANGED <<server, current, reading, stream, addons, draft>>

\* The snapshot was read, or not: the stream and the add-ons start, the lease ends.
OpGoesOn ==
    /\ "op" \in done /\ op.phase = "load"
    /\ done' = done \ {"op"}
    /\ stream' = IF op.kind = "resume" /\ recovering THEN stream ELSE Opened
    /\ addons' = CASE op.kind = "login" -> AddonsStart
                   [] op.kind = "resume" /\ ~recovering /\ addons \in {"off", "kept"} -> AddonsStart
                   [] OTHER -> addons
    /\ Released
    /\ UNCHANGED <<server, auth, recovering, check, campaign, current, waiting, queue,
                   reading, draft>>

-----------------------------------------------------------------------------
(* The add-ons find the session gone: BrowserAddonSession.#loseAuthority   *)
(* and SessionController.addonAuthorityLost.                               *)

GraphRejected ==
    /\ addons = "running" /\ ~SignedIn(session)
    /\ addons' = IF recovering THEN "kept" ELSE "asking"
    /\ check' = IF ~recovering /\ check = NoCheck THEN AskCheck ELSE check
    /\ UNCHANGED <<server, auth, recovering, op, reads, stream, draft>>

\* Open host edits keep the session until it is checked.
AddonsLostWhileEditing ==
    /\ addons = "resetting" /\ draft = "open"
    /\ addons' = IF recovering THEN "off" ELSE "rechecking"
    /\ check' = IF ~recovering /\ check = NoCheck THEN AskCheck ELSE check
    /\ UNCHANGED <<server, auth, recovering, op, reads, stream, draft>>

\* Otherwise the viewer goes on signed out.
AddonsLost ==
    /\ addons = "resetting" /\ draft # "open" /\ "lost" \notin InFlight
    /\ addons' = "off"
    /\ auth' = Anonymous
    /\ UNCHANGED recovering
    /\ stream' = Opened
    /\ Reset
    /\ Load("lost", FALSE, <<>>, <<>>,
            InFlight \cap {"op"}, NoCheck)
    /\ UNCHANGED <<server, op, draft>>

-----------------------------------------------------------------------------
(* The editor.                                                             *)

OpenDraft ==
    /\ draft = "none" /\ campaign.state = "ready" /\ SignedIn(auth)
    /\ draft' = "open"
    /\ UNCHANGED <<server, auth, recovering, check, op, reads, stream, addons>>

\* Saved, or left after the guard asked.
CloseDraft ==
    /\ draft = "open" /\ ~Busy
    /\ draft' = "none"
    /\ UNCHANGED <<server, auth, recovering, check, op, reads, stream, addons>>

-----------------------------------------------------------------------------

Server ==
    \/ CampaignChanges \/ CampaignRestored \/ SessionEnds
    \/ \E r \in Roles : AnotherTabSignsIn(r)
    \/ StreamReconnects

Reading == SendRead \/ ServeRead \/ ShowRead \/ FailRead
Checking == CheckAnswered \/ CheckHolds \/ CheckFails
Operation ==
    \/ \E r \in Roles : ServerSignsIn(r)
    \/ ServerSignsOut \/ OpFails
    \/ LoginAccepted \/ LogoutAccepted \/ ResumeAccepted \/ OpGoesOn
User == LogIn \/ Resume \/ LogOut \/ Retry \/ OpenDraft \/ CloseDraft
Live == \/ \E e \in Events : EventArrives(e)
        \/ RestoreArrives \/ RestoreOver
AddonSession == GraphRejected \/ AddonsLostWhileEditing \/ AddonsLost

Next ==
    \/ Server \/ User \/ BootAccepts \/ BootGoesOn \/ Reading \/ Live
    \/ AuthorityRejected \/ Checking \/ Operation \/ AddonSession

\* Requests are answered and their callers go on; what users, other tabs and the
\* campaign do is up to them.
Fairness == /\ WF_vars(Reading) /\ WF_vars(Checking) /\ WF_vars(Operation)

Spec == Init /\ [][Next]_vars /\ Fairness

-----------------------------------------------------------------------------

\* A snapshot asked for under one authority is never accepted under another, and
\* nothing but the accepted snapshot is shown: a sign-in, a sign-out and a lost
\* session each drop the reads they find in flight.
AcceptedForAuthority ==
    current # NoData =>
        /\ current.for = auth.role
        /\ campaign.state = "ready" => campaign.snap = current

\* Unsaved changes leave the page by the user's choice.  No expired session, late
\* answer or failed refresh takes them; only a refresh that fails after a restore
\* has dropped the snapshot does, and a sign-out they were begun under.  Reads are
\* serialized, so a later one never shows an older campaign either.
DraftsSurvive ==
    [][/\ draft = "open" /\ draft' = "lost" => current = NoData \/ op.kind = "logout"
       /\ campaign.state = "ready" /\ campaign'.state = "ready"
            => campaign'.snap.rev >= campaign.snap.rev]_vars

\* Every sign-in, sign-out and resumption gives its busy lease back.
LeaseEnds == Busy ~> ~Busy

=============================================================================
