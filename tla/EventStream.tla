----------------------------- MODULE EventStream -----------------------------
(***************************************************************************)
(* The shared live-update stream: internal/events (the durable change_log, *)
(* its replay and the in-memory subscribers), internal/transport/httpapi   *)
(* events.go (one handler per open connection) and the browser side that   *)
(* keeps Last-Event-ID and re-reads what an event names                    *)
(* (frontend/src/core/event-stream.ts, app/session-controller.ts).         *)
(*                                                                         *)
(* A writer commits a row inside its own SQLite transaction and wakes the  *)
(* subscribers afterwards, outside any lock that orders two writers.  The  *)
(* handler subscribes first, then reads hello/replay, then follows its     *)
(* queue.  The host can stop anywhere; the connection can break anywhere.  *)
(* Pruning runs offline only (internal/maintenance/cleanup).               *)
(***************************************************************************)
EXTENDS Integers, Sequences, FiniteSets, FiniteSetsExt

CONSTANTS
  Writers,         \* request goroutines that commit and then notify
  Clients,         \* browser tabs, one EventSource each
  Role,            \* [Clients -> {"public", "dm"}]: the audience a session maps to
  Resources,       \* what an event invalidates: campaign, add-on data, graph
  SubscriberSize,  \* Config.SubscriberSize: capacity of one subscriber queue
  MaxSubscribers,  \* Config.MaxSubscribers
  ReplayLimit,     \* DefaultReplayLimit
  MaxSeq,          \* bound: rows ever committed
  MaxStops,        \* bound: host stops
  MaxBreaks        \* bound: broken connections and revocations

Audiences == {"public", "dm", "system"}

ASSUME StreamAssumption ==
  /\ Role \in [Clients -> {"public", "dm"}]
  /\ SubscriberSize \in Nat \ {0}
  /\ MaxSubscribers \in Nat \ {0}
  /\ ReplayLimit \in Nat \ {0}
  /\ MaxSeq \in Nat /\ MaxStops \in Nat /\ MaxBreaks \in Nat

None == -1                      \* no Last-Event-ID yet
NoEvent == [seq |-> 0]
NoFrame == [id |-> None]

Event == [seq : 1..MaxSeq, aud : Audiences, res : Resources]
\* A frame names what the browser re-reads: one resource, or everything.
Frame == [id : 0..MaxSeq, res : SUBSET Resources]

VARIABLES
  log,         \* change_log: the rows not pruned yet
  lastSeq,     \* sqlite_sequence of the AUTOINCREMENT key
  checkpoint,  \* event_replay_checkpoints
  up,          \* the host process runs
  unnotified,  \* per writer: the row it committed and has not announced
  conn,        \* per client: its handler's phase
  queue,       \* per client: the subscriber channel
  open,        \* per client: the channel is not closed by notify
  start,       \* per client: replayedThrough
  pending,     \* per client: opening frames (hello, reset or replay) not written yet
  armed,       \* per client: the frame that passed the session check, not written yet
  wire,        \* per client: frames written and not yet received
  session,     \* per client: the session behind the stream is still valid
  cursor,      \* per client: the EventSource's Last-Event-ID
  stale,       \* history, per client: visible rows its view does not reflect
  alert,       \* history, per client: a failed re-read was reported to the viewer
  sent,        \* history, per client: rows written on the current connection
  late,        \* history, per client: frames written after its session was revoked
  stops, breaks

durable == <<log, lastSeq, checkpoint>>
handler == <<conn, queue, open, start, pending, armed>>
browser == <<cursor, stale, alert>>
history == <<sent, late>>
vars == <<durable, up, unnotified, handler, wire, session, browser, history, stops, breaks>>

-----------------------------------------------------------------------------
(* internal/events *)

Visible(e, c) == e.aud = "public" \/ e.aud = Role[c]

VisibleRows(c) == {e \in log : Visible(e, c)}

Checkpoint(c) == IF checkpoint["public"] >= checkpoint[Role[c]]
                 THEN checkpoint["public"] ELSE checkpoint[Role[c]]

\* Broker.latest, and the same value inside Replay.
Latest(c) == Max({Checkpoint(c)} \cup {e.seq : e \in VisibleRows(c)})

RowsAfter(c, after) == {e \in VisibleRows(c) : e.seq > after}

\* The rows of a set in sequence order.
Ordered(S) == [i \in 1..Cardinality(S) |->
                 CHOOSE e \in S : Cardinality({f \in S : f.seq < e.seq}) = i - 1]

EventFrame(e) == [id |-> e.seq, res |-> {e.res}]
FullFrame(id) == [id |-> id, res |-> Resources]      \* hello and reset re-read everything

Subscribed(c) == conn[c] # "closed" /\ open[c]

\* store transaction + Broker.Append: the row is durable, nobody was woken.
Commit(w) ==
  /\ up /\ unnotified[w] = NoEvent /\ lastSeq < MaxSeq
  /\ \E a \in Audiences, r \in Resources :
       LET e == [seq |-> lastSeq + 1, aud |-> a, res |-> r] IN
       /\ log' = log \cup {e}
       /\ unnotified' = [unnotified EXCEPT ![w] = e]
       /\ stale' = [c \in Clients |-> IF Visible(e, c) THEN stale[c] \cup {e} ELSE stale[c]]
  /\ lastSeq' = lastSeq + 1
  /\ UNCHANGED <<checkpoint, up, handler, wire, session, cursor, alert, history, stops, breaks>>

Wakes(e, c) == Subscribed(c) /\ (e.aud = "public" \/ e.aud = Role[c])

HasRoom(c) == Len(queue[c]) < SubscriberSize

\* Mutant: a full queue drops the event and keeps the subscriber.
NotifyDropsSilently(w) ==
  /\ up /\ unnotified[w] # NoEvent
  /\ LET e == unnotified[w] IN
     queue' = [c \in Clients |->
                 IF Wakes(e, c) /\ HasRoom(c) THEN Append(queue[c], e) ELSE queue[c]]
  /\ unnotified' = [unnotified EXCEPT ![w] = NoEvent]
  /\ UNCHANGED <<durable, up, conn, open, start, pending, armed, wire, session, browser, history, stops, breaks>>

\* Broker.notify: a full queue evicts its subscriber instead of blocking.
Notify(w) ==
  /\ up /\ unnotified[w] # NoEvent
  /\ LET e == unnotified[w] IN
     /\ queue' = [c \in Clients |->
                    IF Wakes(e, c) /\ HasRoom(c) THEN Append(queue[c], e) ELSE queue[c]]
     /\ open' = [c \in Clients |-> open[c] /\ ~(Wakes(e, c) /\ ~HasRoom(c))]
  /\ unnotified' = [unnotified EXCEPT ![w] = NoEvent]
  /\ UNCHANGED <<durable, up, conn, start, pending, armed, wire, session, browser, history, stops, breaks>>

-----------------------------------------------------------------------------
(* internal/transport/httpapi/events.go: one handler per connection *)

\* The reset of a handler's locals when it returns; flushed frames stay on the wire.
CloseHandler(C) ==
  /\ conn' = [c \in Clients |-> IF c \in C THEN "closed" ELSE conn[c]]
  /\ queue' = [c \in Clients |-> IF c \in C THEN <<>> ELSE queue[c]]
  /\ open' = [c \in Clients |-> open[c] /\ c \notin C]
  /\ start' = [c \in Clients |-> IF c \in C THEN 0 ELSE start[c]]
  /\ pending' = [c \in Clients |-> IF c \in C THEN <<>> ELSE pending[c]]
  /\ armed' = [c \in Clients |-> IF c \in C THEN NoFrame ELSE armed[c]]

\* eventStream up to Subscribe: the EventSource (re)connects once it has read
\* everything that was flushed to it.
Subscribe(c) ==
  /\ up /\ conn[c] = "closed" /\ wire[c] = <<>> /\ session[c]
  /\ Cardinality({d \in Clients : Subscribed(d)}) < MaxSubscribers
  /\ conn' = [conn EXCEPT ![c] = "subscribed"]
  /\ open' = [open EXCEPT ![c] = TRUE]
  /\ sent' = [sent EXCEPT ![c] = {}]
  /\ UNCHANGED <<durable, up, unnotified, queue, start, pending, armed, wire, session, browser, late, stops, breaks>>

\* Mutant: replay does not notice that the cursor is older than the pruned rows.
NeverExpired(c) == FALSE

Expired(c) == cursor[c] < Checkpoint(c)
Truncated(c) == Cardinality(RowsAfter(c, cursor[c])) > ReplayLimit

\* startEventStream: hello without a cursor, reset when replay cannot serve it,
\* otherwise the rows after the cursor.
ReadStart(c) ==
  /\ up /\ conn[c] = "subscribed"
  /\ conn' = [conn EXCEPT ![c] = "starting"]
  /\ IF cursor[c] = None \/ cursor[c] > Latest(c) \/ Truncated(c) \/ Expired(c)
     THEN /\ pending' = [pending EXCEPT ![c] = <<FullFrame(Latest(c))>>]
          /\ start' = [start EXCEPT ![c] = Latest(c)]
     ELSE LET rows == RowsAfter(c, cursor[c]) IN
          /\ pending' = [pending EXCEPT ![c] = [i \in 1..Cardinality(rows) |-> EventFrame(Ordered(rows)[i])]]
          /\ start' = [start EXCEPT ![c] = Max({cursor[c]} \cup {e.seq : e \in rows})]
  /\ UNCHANGED <<durable, up, unnotified, queue, open, armed, wire, session, browser, history, stops, breaks>>

\* eventSessionCurrent before an opening frame.
ArmOpening(c) ==
  /\ up /\ conn[c] = "starting" /\ pending[c] # <<>> /\ armed[c] = NoFrame /\ session[c]
  /\ armed' = [armed EXCEPT ![c] = Head(pending[c])]
  /\ pending' = [pending EXCEPT ![c] = Tail(pending[c])]
  /\ UNCHANGED <<durable, up, unnotified, conn, queue, open, start, wire, session, browser, history, stops, breaks>>

\* The check immediately after the opening output.
GoLive(c) ==
  /\ up /\ conn[c] = "starting" /\ pending[c] = <<>> /\ armed[c] = NoFrame /\ session[c]
  /\ conn' = [conn EXCEPT ![c] = "live"]
  /\ UNCHANGED <<durable, up, unnotified, queue, open, start, pending, armed, wire, session, browser, history, stops, breaks>>

\* Mutant: a live event is never compared with what replay already sent.
TakeLiveWithoutSkip(c) ==
  /\ up /\ conn[c] = "live" /\ queue[c] # <<>> /\ armed[c] = NoFrame /\ session[c]
  /\ queue' = [queue EXCEPT ![c] = Tail(queue[c])]
  /\ armed' = [armed EXCEPT ![c] = EventFrame(Head(queue[c]))]
  /\ UNCHANGED <<durable, up, unnotified, conn, open, start, pending, wire, session, browser, history, stops, breaks>>

\* Mutant: the live loop does not look at the session again.
TakeLiveUnchecked(c) ==
  /\ up /\ conn[c] = "live" /\ queue[c] # <<>> /\ armed[c] = NoFrame
  /\ queue' = [queue EXCEPT ![c] = Tail(queue[c])]
  /\ LET e == Head(queue[c]) IN
     armed' = [armed EXCEPT ![c] = IF e.seq <= start[c] THEN NoFrame ELSE EventFrame(e)]
  /\ UNCHANGED <<durable, up, unnotified, conn, open, start, pending, wire, session, browser, history, stops, breaks>>

\* The select case on subscription.Events, session still current.
TakeLive(c) ==
  /\ up /\ conn[c] = "live" /\ queue[c] # <<>> /\ armed[c] = NoFrame /\ session[c]
  /\ queue' = [queue EXCEPT ![c] = Tail(queue[c])]
  /\ LET e == Head(queue[c]) IN
     armed' = [armed EXCEPT ![c] = IF e.seq <= start[c] THEN NoFrame ELSE EventFrame(e)]
  /\ UNCHANGED <<durable, up, unnotified, conn, open, start, pending, wire, session, browser, history, stops, breaks>>

\* writeSSE of the frame that passed the check.
Write(c) ==
  /\ up /\ armed[c] # NoFrame
  /\ wire' = [wire EXCEPT ![c] = Append(@, armed[c])]
  /\ armed' = [armed EXCEPT ![c] = NoFrame]
  /\ sent' = [sent EXCEPT ![c] = IF armed[c].res = Resources THEN @ ELSE @ \cup {armed[c].id}]
  /\ late' = [late EXCEPT ![c] = IF session[c] THEN @ ELSE @ + 1]
  /\ UNCHANGED <<durable, up, unnotified, conn, queue, open, start, pending, session, browser, stops, breaks>>

\* The handler returns: its session ended (seen at a check or a heartbeat), or
\* its channel was closed by eviction and is drained.
Return(c) ==
  /\ up /\ conn[c] # "closed" /\ armed[c] = NoFrame
  /\ ~session[c] \/ (conn[c] = "live" /\ ~open[c] /\ queue[c] = <<>>)
  /\ CloseHandler({c})
  /\ UNCHANGED <<durable, up, unnotified, wire, session, browser, history, stops, breaks>>

-----------------------------------------------------------------------------
(* The browser, the network and the operator *)

\* onRefresh: Last-Event-ID advances and the named resources are re-read.  The
\* read fails while the host is down; the viewer is then told (refreshFailed).
Receive(c) ==
  /\ wire[c] # <<>>
  /\ LET f == Head(wire[c]) IN
     /\ wire' = [wire EXCEPT ![c] = Tail(wire[c])]
     /\ cursor' = [cursor EXCEPT ![c] = f.id]
     /\ stale' = [stale EXCEPT ![c] = IF up THEN {e \in @ : e.res \notin f.res} ELSE @]
     /\ alert' = [alert EXCEPT ![c] = @ \/ ~up]
  /\ UNCHANGED <<durable, up, unnotified, handler, session, history, stops, breaks>>

\* The connection breaks: unread frames are lost, the handler's context ends.
Break(c) ==
  /\ breaks < MaxBreaks /\ (conn[c] # "closed" \/ wire[c] # <<>>)
  /\ breaks' = breaks + 1
  /\ wire' = [wire EXCEPT ![c] = <<>>]
  /\ CloseHandler({c})
  /\ UNCHANGED <<durable, up, unnotified, session, browser, history, stops>>

\* Logout elsewhere, a password change or expiry.
Revoke(c) ==
  /\ breaks < MaxBreaks /\ session[c]
  /\ breaks' = breaks + 1
  /\ session' = [session EXCEPT ![c] = FALSE]
  /\ late' = [late EXCEPT ![c] = 0]
  /\ UNCHANGED <<durable, up, unnotified, handler, wire, browser, sent, stops>>

\* SharedEventStream.open after a new sign-in: a fresh EventSource has no cursor.
SignIn(c) ==
  /\ ~session[c]
  /\ session' = [session EXCEPT ![c] = TRUE]
  /\ cursor' = [cursor EXCEPT ![c] = None]
  /\ wire' = [wire EXCEPT ![c] = <<>>]
  /\ CloseHandler({c})
  /\ UNCHANGED <<durable, up, unnotified, stale, alert, history, stops, breaks>>

Stop ==
  /\ up /\ stops < MaxStops
  /\ stops' = stops + 1
  /\ up' = FALSE
  /\ unnotified' = [w \in Writers |-> NoEvent]
  /\ CloseHandler(Clients)
  /\ UNCHANGED <<durable, wire, session, browser, history, breaks>>

Start ==
  /\ ~up
  /\ up' = TRUE
  /\ UNCHANGED <<durable, unnotified, handler, wire, session, browser, history, stops, breaks>>

\* The sequence number up to which an audience is pruned when keep rows stay.
PruneThrough(a, keep) ==
  Max({0} \cup {e.seq : e \in {r \in log : /\ r.aud = a
                                          /\ Cardinality({n \in log : n.aud = a /\ n.seq > r.seq}) >= keep}})

\* codex-maintenance prune-logs, with the host stopped.
Prune ==
  /\ ~up
  /\ \E keep \in 0..1 :
       /\ checkpoint' = [a \in Audiences |-> Max({checkpoint[a], PruneThrough(a, keep)})]
       /\ log' = {e \in log : e.seq > PruneThrough(e.aud, keep)}
  /\ UNCHANGED <<lastSeq, up, unnotified, handler, wire, session, browser, history, stops, breaks>>

-----------------------------------------------------------------------------
Init ==
  /\ log = {} /\ lastSeq = 0 /\ checkpoint = [a \in Audiences |-> 0]
  /\ up = TRUE
  /\ unnotified = [w \in Writers |-> NoEvent]
  /\ conn = [c \in Clients |-> "closed"]
  /\ queue = [c \in Clients |-> <<>>]
  /\ open = [c \in Clients |-> FALSE]
  /\ start = [c \in Clients |-> 0]
  /\ pending = [c \in Clients |-> <<>>]
  /\ armed = [c \in Clients |-> NoFrame]
  /\ wire = [c \in Clients |-> <<>>]
  /\ session = [c \in Clients |-> TRUE]
  /\ cursor = [c \in Clients |-> None]
  /\ stale = [c \in Clients |-> {}]
  /\ alert = [c \in Clients |-> FALSE]
  /\ sent = [c \in Clients |-> {}]
  /\ late = [c \in Clients |-> 0]
  /\ stops = 0 /\ breaks = 0

Handle(c) == ReadStart(c) \/ ArmOpening(c) \/ GoLive(c) \/ TakeLive(c) \/ Write(c) \/ Return(c)

Next ==
  \/ \E w \in Writers : Commit(w) \/ Notify(w)
  \/ \E c \in Clients : Subscribe(c) \/ Handle(c) \/ Receive(c) \/ Break(c) \/ Revoke(c) \/ SignIn(c)
  \/ Stop \/ Start \/ Prune

Spec == Init /\ [][Next]_vars

-----------------------------------------------------------------------------
\* Nothing is on its way to client c: its stream is live, every committed row
\* was announced, and its queue and its wire are empty.
Quiet(c) ==
  /\ up /\ conn[c] = "live" /\ open[c]
  /\ \A w \in Writers : unnotified[w] = NoEvent
  /\ queue[c] = <<>> /\ armed[c] = NoFrame /\ wire[c] = <<>>

\* The same, except for a viewer who was told that a re-read failed.
QuietViewIsFreshOrAlerted == \A c \in Clients : Quiet(c) => stale[c] = {} \/ alert[c]

\* Within one connection nothing after its starting cursor is lost, even when
\* two writers announce their rows out of order (events.go:110 of httpapi).
QuietGapIsBelowStart ==
  \A c \in Clients : Quiet(c) /\ ~alert[c] => \A e \in stale[c] : e.seq <= start[c]

\* No row is written twice on one connection although the queue is opened
\* before the replay is read.
NoDuplicateOnConnection ==
  \A c \in Clients : armed[c] # NoFrame /\ armed[c].res # Resources => armed[c].id \notin sent[c]

\* At most the one frame that had already passed its check is written after the
\* session behind a stream was revoked.
AtMostOneFrameAfterRevocation == \A c \in Clients : ~session[c] => late[c] <= 1

==============================================================================
