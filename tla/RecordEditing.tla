---------------------------- MODULE RecordEditing ----------------------------
(***************************************************************************)
(* Editing one record in the browser: the fields edited in place           *)
(* (app/inline-draft.ts), the undo and the panel of the character profile, *)
(* the full form, the one write path they share                            *)
(* (app/campaign-write-controller.ts with campaign-write-handlers.ts and   *)
(* campaign-record-editor.ts), the server, and another author.             *)
(*                                                                         *)
(* Writes take turns in request order.  A turn prepares its write over the *)
(* record as shown then, sends it with that record's revision, reads the   *)
(* campaign back, and only then answers.  Meanwhile the other author       *)
(* writes, refreshes arrive and the user goes on typing.                   *)
(***************************************************************************)
EXTENDS Naturals, Sequences, FiniteSets

CONSTANTS
    Fields,      \* the record's fields
    Values,      \* what a field can hold
    Empty,       \* the value a dependent field is reset to
    Resets,      \* Resets[f]: the fields that a change of f empties
    PanelField,  \* the field edited in the profile's panel or wiki, not in place
    MaxRev,      \* bound: revisions of the record and its relationship together
    MaxSaves     \* bound: saves asked for and not yet answered

ASSUME EditingAssumption ==
    /\ Empty \in Values /\ PanelField \in Fields /\ MaxRev \in Nat /\ MaxSaves \in Nat
    /\ Resets \in [Fields -> SUBSET Fields]
    /\ Fields \cap {"undo", "panel", "form", "delete", "nobody"} = {}

VARIABLES
    server,  \* the stored record, and the revision of its relationship
    shown,   \* the record in the campaign the page shows
    queue,   \* the write requests waiting for their turn
    turn,    \* the write whose turn it is, under the busy lease
    drafts,  \* the open inline draft of each field
    undo,    \* the profile's last field save, while it can be undone
    panel,   \* the profile's open panel, or its wiki editor
    form     \* the full form

vars == <<server, shown, queue, turn, drafts, undo, panel, form>>

None == [open |-> FALSE]
Inline == Fields \ {PanelField}
NoTurn == [phase |-> "idle"]
MayBegin == form = None /\ shown.live
Busy == turn # NoTurn
Room == server.rev + server.link < MaxRev
MayAsk == Len(queue) + (IF Busy THEN 1 ELSE 0) < MaxSaves

Init ==
    /\ server = [rev |-> 1, val |-> [f \in Fields |-> Empty], live |-> TRUE, link |-> 0]
    /\ shown = server
    /\ queue = <<>> /\ turn = NoTurn
    /\ drafts = [f \in Inline |-> None]
    /\ undo = None /\ panel = None /\ form = None

-----------------------------------------------------------------------------
(* Preparing a write over the campaign as shown.                           *)

Restrict1(f, v) == [g \in {f} |-> v]

\* Mutant: a patch reviews only the fields it names.
PatchKeysNamed(fs) == fs

\* The stored keys a patch writes or reads, including the ones its fields reset.
PatchKeys(fs) == fs \cup {g \in Fields : \E f \in fs : g \in Resets[f] \/ f \in Resets[g]}

\* A patch may be rebased over changes of other fields; the form and a delete may not.
Stale(req) ==
    \/ ~shown.live
    \/ (req.from = "form" \/ req.relinks) /\ req.base.link # shown.link
    \/ IF req.from \in {"form", "delete"} THEN req.base.rev # shown.rev
       ELSE \/ req.base.rev > shown.rev
            \/ \E g \in PatchKeys(DOMAIN req.fields) : req.base.val[g] # shown.val[g]

Reset(req, g) ==
    /\ req.from # "form"
    /\ \E f \in DOMAIN req.fields : g \in Resets[f] /\ req.fields[f] # req.base.val[f]

\* What the whole record becomes: applyEditorField for each field of the request.
Prepared(req) ==
    [g \in Fields |-> IF g \in DOMAIN req.fields THEN req.fields[g]
                      ELSE IF Reset(req, g) THEN Empty ELSE shown.val[g]]

-----------------------------------------------------------------------------
(* How each editor hears its answer: ok, conflict or failed.               *)

Asked(from, base, fields, relinks) ==
    [from |-> from, base |-> base, fields |-> fields, relinks |-> relinks]
Request(from, base, fields) == Asked(from, base, fields, FALSE)

Dirty(d) == d.value # d.original
Submitted(d, close) ==
    [d EXCEPT !.pending = TRUE, !.again = FALSE, !.closing = close, !.error = FALSE]

\* A confirmed save rebases the draft on the record read back.
Rebased(f, value) ==
    [drafts[f] EXCEPT !.base = shown', !.original = value, !.pending = FALSE]

\* The draft's save is answered.  It closes when it was asked to and did not change
\* again; a commit asked for meanwhile runs now.
DraftHears(f, answer, req, rest) ==
    IF answer # "ok" THEN
        /\ drafts' = [drafts EXCEPT ![f] = [@ EXCEPT !.pending = FALSE, !.again = FALSE,
                                            !.closing = FALSE, !.error = TRUE,
                                            !.conflict = answer = "conflict"]]
        /\ queue' = rest
    ELSE LET d == Rebased(f, req.fields[f]) IN
        IF Dirty(d) /\ d.again THEN
            /\ drafts' = [drafts EXCEPT ![f] = Submitted(d, d.closing)]
            /\ queue' = Append(rest, Request(f, d.base, Restrict1(f, d.value)))
        ELSE
            /\ drafts' = [drafts EXCEPT ![f] =
                 IF ~Dirty(d) /\ d.closing THEN None
                 ELSE [d EXCEPT !.again = FALSE, !.closing = FALSE]]
            /\ queue' = rest

\* A saved field can be undone: its values before, over the record it became.
UndoAfter(req) ==
    [open |-> TRUE, base |-> shown',
     fields |-> [g \in DOMAIN req.fields \cup UNION {Resets[f] : f \in DOMAIN req.fields}
                   |-> req.base.val[g]]]

\* After an undo, a field still open since the save would show the value that is gone.
WithoutSettled(fs) ==
    [f \in Inline |-> IF f \in fs /\ drafts[f] # None /\ ~Dirty(drafts[f]) /\ ~drafts[f].pending
                      THEN None ELSE drafts[f]]

\* A saved panel closes; a saved wiki text stays open over the record it became, and a
\* wiki conflict ends its saves.
PanelHears(answer) ==
    IF answer = "ok" /\ ~panel.wiki THEN None
    ELSE [panel EXCEPT !.saving = FALSE,
                       !.base = IF answer = "ok" THEN shown' ELSE @,
                       !.stuck = panel.wiki /\ answer = "conflict"]

Hear(answer, req, rest) ==
    CASE req.from \in Inline ->
            /\ DraftHears(req.from, answer, req, rest)
            /\ undo' = IF answer = "ok" THEN UndoAfter(req) ELSE undo
            /\ UNCHANGED <<panel, form>>
      [] req.from = "undo" ->
            /\ undo' = IF answer = "ok" THEN undo
                       ELSE [open |-> TRUE, base |-> req.base, fields |-> req.fields]
            /\ drafts' = IF answer = "ok" THEN WithoutSettled(DOMAIN req.fields) ELSE drafts
            /\ queue' = rest /\ UNCHANGED <<panel, form>>
      [] req.from = "panel" ->
            /\ panel' = PanelHears(answer)
            /\ queue' = rest /\ UNCHANGED <<drafts, undo, form>>
      [] req.from \in {"form", "delete"} ->
            /\ form' = IF answer = "ok" THEN None ELSE [form EXCEPT !.saving = FALSE]
            /\ queue' = rest /\ UNCHANGED <<drafts, undo, panel>>
      [] req.from = "nobody" ->
            /\ queue' = rest /\ UNCHANGED <<drafts, undo, panel, form>>

-----------------------------------------------------------------------------
(* The write controller: CampaignWriteController.#run.                     *)

NextRequest == turn = NoTurn /\ queue # <<>>

\* Nobody may write now: the session waits to be resumed, or another operation runs.
RefuseTurn ==
    /\ NextRequest
    /\ Hear("failed", Head(queue), Tail(queue))
    /\ UNCHANGED <<server, shown, turn>>

\* The write is stale before it is sent.
FindStale ==
    /\ NextRequest /\ Stale(Head(queue))
    /\ UNCHANGED <<server, shown, turn>>
    /\ Hear("conflict", Head(queue), Tail(queue))

SendWrite ==
    /\ NextRequest /\ ~Stale(Head(queue))
    /\ turn' = [phase |-> "sent", req |-> Head(queue), expected |-> shown.rev,
                link |-> shown.link, put |-> Prepared(Head(queue)),
                live |-> Head(queue).from # "delete"]
    /\ queue' = Tail(queue)
    /\ UNCHANGED <<server, shown, drafts, undo, panel, form>>

\* The server takes a write only over the revisions it was prepared for.
Current == /\ server.live /\ turn.expected = server.rev
           /\ turn.req.relinks => turn.link = server.link
Commits ==
    /\ turn.phase = "sent" /\ Current /\ Room
    /\ server' = [rev |-> server.rev + 1, val |-> turn.put, live |-> turn.live,
                  link |-> IF turn.req.relinks THEN server.link + 1 ELSE server.link]

ServerCommits ==
    /\ Commits
    /\ turn' = [turn EXCEPT !.phase = "written", !.expected = server'.rev,
                         !.link = server'.link]
    /\ UNCHANGED <<shown, queue, drafts, undo, panel, form>>

ServerConflicts ==
    /\ turn.phase = "sent" /\ ~Current
    /\ turn' = NoTurn
    /\ UNCHANGED <<server, shown>>
    /\ Hear("conflict", turn.req, queue)

\* Mutant: a failed request leaves its turn, and its editor, waiting.
RequestFailsSilently ==
    /\ turn.phase = "sent"
    /\ turn' = [turn EXCEPT !.phase = "lost"]
    /\ UNCHANGED <<server, shown, queue, drafts, undo, panel, form>>

\* The request or its answer is lost, so the write may have been received.
RequestFails ==
    /\ turn.phase = "sent"
    /\ turn' = NoTurn
    /\ Commits \/ UNCHANGED server
    /\ UNCHANGED shown
    /\ Hear("failed", turn.req, queue)

\* The shown record includes the write, or a later one.
Includes == IF turn.live THEN /\ shown'.live /\ shown'.rev >= turn.expected
                              /\ turn.req.relinks => shown'.link >= turn.link
            ELSE ~shown'.live \/ shown'.rev > turn.expected

\* Mutant: the record read back is not compared with what was written.
OverwrittenUnchecked == FALSE

\* Another author changed a value this patch wrote before it was read back.
Overwritten ==
    /\ turn.req.from \notin {"form", "delete"} /\ shown'.rev > turn.expected
    /\ \E g \in PatchKeys(DOMAIN turn.req.fields) : turn.put[g] # shown'.val[g]

\* The campaign is read back, or could not be and stays as it is.
ReadBack ==
    /\ turn.phase = "written"
    /\ shown' \in {server, shown}
    /\ turn' = NoTurn
    /\ UNCHANGED server
    /\ Hear(IF ~Includes THEN "failed" ELSE IF Overwritten THEN "conflict" ELSE "ok",
            turn.req, queue)

-----------------------------------------------------------------------------
(* The other author, and the refreshes that live events cause.             *)

Elsewhere == UNCHANGED <<queue, turn, drafts, undo, panel, form>>

OthersWrite(f, v) ==
    /\ server.live /\ Room /\ server.val[f] # v
    /\ server' = [server EXCEPT !.rev = @ + 1, !.val[f] = v]
    /\ UNCHANGED shown /\ Elsewhere

OthersRelink ==
    /\ Room
    /\ server' = [server EXCEPT !.link = @ + 1]
    /\ UNCHANGED shown /\ Elsewhere

OthersDelete ==
    /\ server.live /\ Room
    /\ server' = [server EXCEPT !.rev = @ + 1, !.live = FALSE]
    /\ UNCHANGED shown /\ Elsewhere

Refresh ==
    /\ shown # server
    /\ shown' = server
    /\ UNCHANGED server /\ Elsewhere

-----------------------------------------------------------------------------
(* A field edited in place: InlineDraft and codex-inline-field.            *)

Page == UNCHANGED <<server, shown, turn, undo, panel, form>>

OpenDraft(f) ==
    /\ drafts[f] = None /\ MayBegin
    /\ drafts' = [drafts EXCEPT ![f] =
         [open |-> TRUE, value |-> shown.val[f], original |-> shown.val[f], base |-> shown,
          pending |-> FALSE, again |-> FALSE, closing |-> FALSE, error |-> FALSE,
          conflict |-> FALSE]]
    /\ UNCHANGED queue /\ Page

\* Typing clears the message of the last save.
Input(f, v) ==
    /\ drafts[f] # None /\ drafts[f].value # v
    /\ drafts' = [drafts EXCEPT ![f].value = v, ![f].error = FALSE]
    /\ UNCHANGED queue /\ Page

\* Enter, leaving the field, a pick, a retry (close) or a pause in the typing.
Commit(f, close) ==
    LET d == drafts[f] IN
    /\ d # None /\ ~d.conflict
    /\ \/ /\ d.pending /\ ~(d.again /\ d.closing = close)
          /\ drafts' = [drafts EXCEPT ![f].again = TRUE, ![f].closing = close]
          /\ UNCHANGED queue
       \/ /\ ~d.pending /\ ~Dirty(d) /\ close
          /\ drafts' = [drafts EXCEPT ![f] = None]
          /\ UNCHANGED queue
       \/ /\ ~d.pending /\ Dirty(d) /\ MayAsk
          /\ drafts' = [drafts EXCEPT ![f] = Submitted(d, close)]
          /\ queue' = Append(queue, Request(f, d.base, Restrict1(f, d.value)))
    /\ Page

\* Keep my draft, over the current saved record.
Keep(f) ==
    LET d == drafts[f] IN
    /\ d # None /\ d.conflict /\ d.error
    /\ drafts' = [drafts EXCEPT ![f] = [d EXCEPT !.base = shown, !.original = shown.val[f],
                                        !.conflict = FALSE, !.error = FALSE]]
    /\ UNCHANGED queue /\ Page

\* Use current value, Cancel and Escape.
Discard(f) ==
    /\ drafts[f] # None /\ ~drafts[f].pending
    /\ drafts' = [drafts EXCEPT ![f] = None]
    /\ UNCHANGED queue /\ Page

-----------------------------------------------------------------------------
(* The rest of the profile.                                                *)

Undo ==
    /\ undo # None /\ MayAsk
    /\ undo' = None
    /\ queue' = Append(queue, Request("undo", undo.base, undo.fields))
    /\ UNCHANGED <<server, shown, turn, drafts, panel, form>>

OpenPanel(wiki) ==
    /\ panel = None /\ MayBegin
    /\ panel' = [open |-> TRUE, wiki |-> wiki, base |-> shown, saving |-> FALSE, stuck |-> FALSE]
    /\ UNCHANGED <<server, shown, queue, turn, drafts, undo, form>>

\* A failed panel keeps the record it opened on, and may be saved or closed again.
SavePanel(v) ==
    /\ panel # None /\ ~panel.saving /\ ~panel.stuck /\ MayAsk
    /\ panel' = [panel EXCEPT !.saving = TRUE]
    /\ queue' = Append(queue, Request("panel", panel.base, Restrict1(PanelField, v)))
    /\ UNCHANGED <<server, shown, turn, drafts, undo, form>>

SaveLinks ==
    /\ panel # None /\ ~panel.saving /\ ~panel.wiki /\ MayAsk
    /\ panel' = [panel EXCEPT !.saving = TRUE]
    /\ queue' = Append(queue, Asked("panel", panel.base, <<>>, TRUE))
    /\ UNCHANGED <<server, shown, turn, drafts, undo, form>>

ClosePanel ==
    /\ panel # None /\ ~panel.saving
    /\ panel' = None
    /\ UNCHANGED <<server, shown, queue, turn, drafts, undo, form>>

\* The form opens once nothing else is being edited, and works on its own snapshot.
OpenForm ==
    /\ form = None /\ panel = None /\ ~Busy /\ queue = <<>> /\ shown.live
    /\ \A f \in Inline : drafts[f] = None
    /\ form' = [open |-> TRUE, base |-> shown, saving |-> FALSE]
    /\ undo' = None
    /\ UNCHANGED <<server, shown, queue, turn, drafts, panel>>

\* An edit sends only the fields that differ from what the form opened with.
SaveForm(val, relinks) ==
    /\ form # None /\ ~form.saving /\ ~Busy /\ MayAsk
    /\ form' = [form EXCEPT !.saving = TRUE]
    /\ LET changed == {f \in Fields : val[f] # form.base.val[f]}
       IN  queue' = Append(queue, Asked("form", form.base,
                                        [f \in changed |-> val[f]], relinks))
    /\ UNCHANGED <<server, shown, turn, drafts, undo, panel>>

DeleteRecord ==
    /\ form # None /\ ~form.saving /\ ~Busy /\ MayAsk
    /\ form' = [form EXCEPT !.saving = TRUE]
    /\ queue' = Append(queue, Request("delete", form.base, <<>>))
    /\ UNCHANGED <<server, shown, turn, drafts, undo, panel>>

CloseForm ==
    /\ form # None /\ ~form.saving /\ ~Busy
    /\ form' = None
    /\ UNCHANGED <<server, shown, queue, turn, drafts, undo, panel>>

\* The page is left, after the guard asked.  Requests that wait are not ready any
\* more; one already sent still finishes, and nobody hears its answer.
LeavePage ==
    /\ \/ undo # None \/ panel # None \/ form # None
       \/ \E f \in Inline : drafts[f] # None
    /\ drafts' = [f \in Inline |-> None]
    /\ undo' = None /\ panel' = None /\ form' = None
    /\ queue' = <<>>
    /\ turn' = IF Busy THEN [turn EXCEPT !.req.from = "nobody"] ELSE turn
    /\ UNCHANGED <<server, shown>>

-----------------------------------------------------------------------------

Writing == \/ RefuseTurn \/ FindStale \/ SendWrite
           \/ ServerCommits \/ ServerConflicts \/ RequestFails \/ ReadBack
Others == \/ \E f \in Fields, v \in Values : OthersWrite(f, v)
          \/ OthersRelink \/ OthersDelete \/ Refresh
Drafting == \E f \in Inline :
    \/ OpenDraft(f) \/ Keep(f) \/ Discard(f)
    \/ \E v \in Values : Input(f, v)
    \/ \E close \in BOOLEAN : Commit(f, close)
Profile == \/ Undo \/ \E wiki \in BOOLEAN : OpenPanel(wiki)
           \/ SaveLinks \/ ClosePanel \/ \E v \in Values : SavePanel(v)
Form == \/ OpenForm \/ DeleteRecord \/ CloseForm \/ LeavePage
        \/ \E val \in [Fields -> Values], relinks \in BOOLEAN : SaveForm(val, relinks)

Next == Writing \/ Others \/ Drafting \/ Profile \/ Form

\* A write's turn comes and its requests are answered; the rest is up to people.
Spec == Init /\ [][Next]_vars /\ WF_vars(Writing)

-----------------------------------------------------------------------------

\* Nothing the author did not see is overwritten: when a write of this browser
\* changes or empties a field, the server holds the value its editor started from,
\* rebased on or was told about.
NoBlindOverwrite ==
    [][Busy /\ turn.phase = "sent" /\ turn' # turn /\ server' # server =>
         /\ \A f \in Fields : server'.val[f] # server.val[f] =>
                server.val[f] = turn.req.base.val[f]
         /\ server'.link # server.link => server.link = turn.req.base.link]_vars

\* A draft that its save closes is the value now shown: not one that another author
\* replaced before it was read back, nor one typed while it was saved.
ClosedDraftsAreShown ==
    [][\A f \in Inline :
         Busy /\ ~Busy' /\ turn.req.from = f /\ drafts'[f] = None
           => shown'.live /\ shown'.val[f] = drafts[f].value]_vars

Saving(f, v) == \/ Busy /\ turn.req.from = f /\ turn.req.fields[f] = v
                \/ \E i \in DOMAIN queue : queue[i].from = f /\ queue[i].fields[f] = v

\* Every save of a field is answered, whatever fails.
SavesEnd == \A f \in Inline, v \in Values : Saving(f, v) ~> ~Saving(f, v)

\* "after a conflict waits until the user keeps the draft or uses the current value":
\* both choices are offered for as long as the conflict lasts.
ConflictIsShown == \A f \in Inline : drafts[f] # None /\ drafts[f].conflict => drafts[f].error

=============================================================================
