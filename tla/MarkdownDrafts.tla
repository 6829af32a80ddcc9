--------------------------- MODULE MarkdownDrafts ---------------------------
(***************************************************************************)
(* Recovery copies of Markdown text (core/markdown-drafts.ts,              *)
(* app/markdown-draft-controller.ts, codex-markdown-editor.ts and          *)
(* codex-local-drafts.ts) under the two editors that use them: the wiki of *)
(* a character profile and the full record form.                           *)
(*                                                                         *)
(* Writers edit one text of one record, each in a tab of its own, and keep *)
(* copies of it in the browser's storage, where the others find them.      *)
(* A writer's storage operations run one at a time, behind its typing.     *)
(***************************************************************************)
EXTENDS Integers, FiniteSets, Sequences

CONSTANTS
    Writers,     \* editors; one is opened again once its storage operations are done
    Forms,       \* those that are record forms, the others are profile wikis
    Wordings,    \* what the text can be
    Opening,     \* the text that is stored at first
    MaxID,       \* bound: IDs of writers and of protective copies
    MaxRevision, \* bound: of the record
    MaxQueue,    \* bound: operations a writer has waiting when its user acts
    MaxActs      \* bound: what the users do

VARIABLES
    store,    \* copies [id, text] in the browser's storage
    server,   \* the record [rev, text]
    editor,   \* per writer: the editor with its draft controller
    ids,      \* IDs given out
    handled,  \* copies that a user took over or deleted (history)
    acts      \* what the users did

draftVars == <<store, server, editor, ids, handled, acts>>

ASSUME DraftsAssumption ==
    /\ IsFiniteSet(Writers) /\ Forms \subseteq Writers /\ Opening \in Wordings
    /\ MaxID \in Nat /\ MaxRevision \in Nat /\ MaxQueue \in Nat /\ MaxActs \in Nat

None == [none |-> TRUE]
Copy(id, text) == [id |-> id, text |-> text]

\* base: the text that needs no copy; entry: the copy last put, as the writer knows it;
\* accepted: copies taken over; candidates: those offered; skipped (history): the last
\* pause stored nothing although an operation was still to come.
Closed == [open |-> FALSE, id |-> 0, rev |-> 0, base |-> Opening, text |-> Opening,
           entry |-> None, accepted |-> {}, candidates |-> {}, status |-> "idle",
           timer |-> FALSE, active |-> FALSE, queue |-> <<>>, recovering |-> None,
           saving |-> None, conflict |-> FALSE, skipped |-> FALSE]

\* An earlier session may have left a copy behind.
DraftsInit ==
    /\ store \in {{}} \cup {{Copy(0, text)} : text \in Wordings \ {Opening}}
    /\ server = [rev |-> 1, text |-> Opening]
    /\ editor = [w \in Writers |-> Closed]
    /\ ids = 0 /\ handled = {} /\ acts = 0

-----------------------------------------------------------------------------
(* The storage.                                                            *)

Put(copies, c) == {d \in copies : d.id # c.id} \cup {c}

\* Mutant: a copy is removed whatever its writer put there since.
RemoveByID(copies, gone) == {d \in copies : \A g \in gone : g.id # d.id}

\* A copy is removed only as it was listed or put; two copies of one writer with the
\* same text count as one.
Removed(copies, gone) == copies \ gone

-----------------------------------------------------------------------------
(* The controller.                                                         *)

\* A change of the text; the timer is the pause or the checkpoint after it.
Changed(e, text) ==
    IF e.active THEN [e EXCEPT !.text = text, !.status = "saving", !.timer = TRUE]
    ELSE [e EXCEPT !.text = text]

Enqueue(e, op) == [e EXCEPT !.queue = Append(@, op)]

\* Nothing to store, or stored already.
Settled(e) ==
    \/ ~e.active
    \/ e.text = e.base /\ e.entry = None /\ e.status = "idle"
    \/ e.entry = [text |-> e.text] /\ e.status = "saved"

Flushed(e) ==
    IF Settled(e) THEN [e EXCEPT !.timer = FALSE, !.skipped = e.queue # <<>>]
    ELSE Enqueue([e EXCEPT !.timer = FALSE, !.skipped = FALSE],
                 [kind |-> IF e.text = e.base THEN "clear" ELSE "put", text |-> e.text])

Unmounted(e) == [Flushed(e) EXCEPT !.open = FALSE, !.conflict = FALSE, !.candidates = {}]

\* Mutant: text that changed during the save is not stored again.
SavedOnce(e, text) ==
    Enqueue([e EXCEPT !.timer = FALSE, !.base = text],
            [kind |-> "saved", text |-> text, accepted |-> e.accepted])

\* The campaign holds the text; what changed since is stored anew.
Saved(e, text) ==
    LET s == Enqueue([e EXCEPT !.timer = FALSE, !.base = text],
                     [kind |-> "saved", text |-> text, accepted |-> e.accepted])
    IN  IF e.text # text THEN Changed(s, e.text) ELSE s

\* Cancel ends the recovery of this text.
Discarded(e) ==
    Enqueue([e EXCEPT !.timer = FALSE, !.active = FALSE],
            [kind |-> "discard", accepted |-> e.accepted])

\* The writer's own copy, as the controller last put it.
Own(e) == IF e.entry = None THEN {} ELSE {Copy(e.id, e.entry.text)}

\* The storage after the first operation of a writer.
Stored(e) ==
    LET op == Head(e.queue) IN
    CASE op.kind = "put" -> Put(store, Copy(e.id, op.text))
      [] op.kind = "clear" -> Removed(store, Own(e))
      [] op.kind = "saved" ->
           Removed(store, op.accepted \cup
             IF e.entry = [text |-> op.text] \/ e.text = op.text THEN Own(e) ELSE {})
      [] op.kind = "discard" -> Removed(store, op.accepted \cup Own(e))

\* The message once it is done.
Reported(e) ==
    LET op == Head(e.queue) IN
    CASE op.kind = "put" -> IF e.text = op.text THEN "saved" ELSE e.status
      [] op.kind = "clear" -> IF e.text = op.text THEN "idle" ELSE e.status
      [] op.kind = "saved" -> "idle"
      [] op.kind = "discard" -> e.status

OperationDone(e) ==
    LET op == Head(e.queue) IN
    [e EXCEPT !.queue = Tail(@), !.status = Reported(e),
              !.entry = CASE op.kind = "put" -> [text |-> op.text]
                          [] op.kind \in {"clear", "saved"} -> None
                          [] OTHER -> @,
              !.accepted = IF op.kind = "saved" THEN {} ELSE @]

-----------------------------------------------------------------------------

EditorIs(w, e) == editor' = [editor EXCEPT ![w] = e]

\* A user does something.
Act == acts < MaxActs /\ acts' = acts + 1

\* A user acts on an open editor.
Acts(w) == Act /\ editor[w].open /\ Len(editor[w].queue) <= MaxQueue /\ UNCHANGED server

\* The record is shown as stored; the copies of earlier writers are looked for.
Open(w) ==
    /\ Act
    /\ LET e == editor[w] IN ~e.open /\ e.queue = <<>> /\ e.recovering = None /\ ~e.timer
    /\ ids < MaxID /\ ids' = ids + 1
    /\ EditorIs(w, [Closed EXCEPT !.open = TRUE, !.id = ids', !.rev = server.rev,
                     !.base = server.text, !.text = server.text, !.active = TRUE])
    /\ UNCHANGED <<store, server, handled>>

\* Typing stops while the record is saved or a copy is taken over; but commands on
\* the source, from the toolbar or the link search, only while it is saved.
Write(w, text) ==
    /\ Acts(w) /\ editor[w].saving = None /\ text # editor[w].text
    /\ EditorIs(w, Changed(editor[w], text))
    /\ UNCHANGED <<store, ids, handled>>

\* The pause or the checkpoint, or the page is hidden.
Flush(w) ==
    /\ Acts(w) \/ (editor[w].timer /\ UNCHANGED <<server, acts>>)
    /\ editor[w].timer \/ ~Settled(editor[w])
    /\ EditorIs(w, Flushed(editor[w]))
    /\ UNCHANGED <<store, ids, handled>>

Operate(w) ==
    /\ editor[w].queue # <<>>
    /\ store' = Stored(editor[w])
    /\ EditorIs(w, OperationDone(editor[w]))
    /\ UNCHANGED <<server, ids, handled, acts>>

OperationFails(w) ==
    /\ editor[w].queue # <<>>
    /\ EditorIs(w, [editor[w] EXCEPT !.queue = Tail(@), !.status = "unavailable"])
    /\ UNCHANGED <<store, server, ids, handled, acts>>

\* Copies of other writers that are not taken over yet.
Offered(e, copies) == {d \in copies : d.id # e.id /\ \A a \in e.accepted : a.id # d.id}

\* After opening, and when the window gets the focus; what is shown can be old.
Refresh(w) ==
    /\ Acts(w)
    /\ \/ EditorIs(w, [editor[w] EXCEPT !.candidates = Offered(editor[w], store)])
       \/ EditorIs(w, [editor[w] EXCEPT !.status = "unavailable"])
    /\ UNCHANGED <<store, ids, handled>>

\* The copy replaces the text.
Accept(w, d) ==
    /\ EditorIs(w, Changed([editor[w] EXCEPT !.recovering = None, !.accepted = @ \cup {d},
                                            !.candidates = {c \in @ : c.id # d.id}], d.text))
    /\ handled' = handled \cup {d}

\* Unsaved text that would be replaced is first stored as a copy of its own.
Recover(w, d) ==
    /\ Acts(w) /\ d \in editor[w].candidates
    /\ editor[w].saving = None /\ editor[w].recovering = None
    /\ IF editor[w].text \in {editor[w].base, d.text} THEN Accept(w, d) /\ UNCHANGED ids
       ELSE /\ ids < MaxID /\ ids' = ids + 1
            /\ EditorIs(w, [editor[w] EXCEPT !.recovering =
                             [copy |-> d, id |-> ids', text |-> editor[w].text]])
            /\ UNCHANGED handled
    /\ UNCHANGED store

\* Nothing was typed while the protective copy was stored.
Untouched(e) == e.text = e.recovering.text

Protected(w) ==
    /\ editor[w].recovering # None
    /\ LET r == editor[w].recovering IN
       /\ store' = Put(store, Copy(r.id, r.text))
       /\ IF Untouched(editor[w]) THEN Accept(w, r.copy)
          ELSE EditorIs(w, [editor[w] EXCEPT !.recovering = None]) /\ UNCHANGED handled
    /\ UNCHANGED <<server, ids, acts>>

ProtectionFails(w) ==
    /\ editor[w].recovering # None
    /\ EditorIs(w, [editor[w] EXCEPT !.recovering = None, !.status = "unavailable"])
    /\ UNCHANGED <<store, server, ids, handled, acts>>

\* A reviewed copy is deleted, after asking, and the copies are listed anew.
Discard(w, d) ==
    /\ Acts(w) /\ d \in editor[w].candidates
    /\ editor[w].saving = None /\ editor[w].recovering = None
    /\ store' = Removed(store, {d}) /\ handled' = handled \cup {d}
    /\ EditorIs(w, [editor[w] EXCEPT !.candidates = Offered(editor[w], store')])
    /\ UNCHANGED ids

-----------------------------------------------------------------------------
(* The editors around the controller.                                      *)

\* The profile's wiki is not saved again over a conflict.
SaveText(w) ==
    /\ Acts(w) /\ editor[w].saving = None /\ ~editor[w].conflict
    /\ EditorIs(w, [editor[w] EXCEPT !.saving = [text |-> editor[w].text, answer |-> "none"]])
    /\ UNCHANGED <<store, ids, handled>>

\* The record is stored over the revision it was opened at; the answer can be lost.
ServerAnswers(w) ==
    /\ editor[w].saving # None /\ editor[w].saving.answer = "none"
    /\ \E answer \in {"ok", "conflict", "failed"} :
         /\ EditorIs(w, [editor[w] EXCEPT !.saving.answer = answer])
         /\ IF editor[w].rev = server.rev /\ server.rev < MaxRevision
            THEN \/ answer \in {"ok", "failed"}
                    /\ server' = [rev |-> server.rev + 1, text |-> editor[w].saving.text]
                 \/ answer = "failed" /\ UNCHANGED server
            ELSE answer \in {"conflict", "failed"} /\ UNCHANGED server
    /\ UNCHANGED <<store, ids, handled, acts>>

\* The wiki stays open on the record it saved; the form closes.
SaveHeard(w) ==
    /\ editor[w].saving # None /\ editor[w].saving.answer # "none"
    /\ LET s == editor[w].saving
           e == [editor[w] EXCEPT !.saving = None]
       IN  EditorIs(w,
             IF s.answer # "ok" THEN [e EXCEPT !.conflict = w \notin Forms /\ s.answer = "conflict"]
             ELSE IF w \in Forms THEN Unmounted(Saved(e, s.text))
             ELSE [Saved(e, s.text) EXCEPT !.rev = @ + 1])
    /\ UNCHANGED <<store, server, ids, handled, acts>>

\* Keep my draft: the next save is over the current record.
KeepDraft(w) ==
    /\ Acts(w) /\ editor[w].conflict
    /\ EditorIs(w, [editor[w] EXCEPT !.conflict = FALSE, !.rev = server.rev])
    /\ UNCHANGED <<store, ids, handled>>

\* Cancel gives the text up, after asking.
Cancel(w) ==
    /\ Acts(w) /\ editor[w].saving = None
    /\ EditorIs(w, Unmounted(Discarded(editor[w])))
    /\ UNCHANGED <<store, ids, handled>>

\* The user goes elsewhere, after asking; what was typed stays as a copy.
LeaveEditor(w) ==
    /\ Acts(w) /\ editor[w].saving = None
    /\ EditorIs(w, Unmounted(editor[w]))
    /\ UNCHANGED <<store, ids, handled>>

\* The tab ends without a word.
Crash(w) ==
    /\ Act /\ editor[w] # Closed
    /\ EditorIs(w, Closed)
    /\ UNCHANGED <<store, server, ids, handled>>

\* A copy is deleted in the collection's list of local drafts, after asking.
LibraryDeletes(d) ==
    /\ Act /\ d \in store
    /\ store' = Removed(store, {d}) /\ handled' = handled \cup {d}
    /\ UNCHANGED <<server, editor, ids>>

\* Another user stores other text.
OthersWrite(text) ==
    /\ Act /\ server.rev < MaxRevision /\ text # server.text
    /\ server' = [rev |-> server.rev + 1, text |-> text]
    /\ UNCHANGED <<store, editor, ids, handled>>

DraftsNext ==
    \/ \E w \in Writers :
         \/ Open(w) \/ Flush(w) \/ Operate(w) \/ OperationFails(w)
         \/ Refresh(w) \/ Protected(w) \/ ProtectionFails(w)
         \/ SaveText(w) \/ ServerAnswers(w) \/ SaveHeard(w) \/ KeepDraft(w)
         \/ Cancel(w) \/ LeaveEditor(w) \/ Crash(w)
         \/ \E text \in Wordings : Write(w, text)
         \/ \E d \in editor[w].candidates : Recover(w, d) \/ Discard(w, d)
    \/ \E d \in store : LibraryDeletes(d)
    \/ \E text \in Wordings : OthersWrite(text)

DraftsSpec == DraftsInit /\ [][DraftsNext]_draftVars

-----------------------------------------------------------------------------
(* Properties.                                                             *)

\* A copy leaves the storage only by its own writer's operations or as a text that a
\* user has taken over or deleted; newer text of another writer is never removed.
CopiesLeaveForAReason ==
    \A d \in store \ store' : d \in handled' \/
       \E w \in Writers : editor[w].id = d.id /\ editor'[w].queue # editor[w].queue

\* Unsaved text that a copy replaces is kept as a copy that the editor never writes
\* again, until a user takes over or deletes that one too.
RecoveryKeepsText ==
    \A w \in Writers :
       LET e == editor[w]
           n == editor'[w]
       IN  n.accepted # {} /\ n.accepted # e.accepted /\ e.text \notin {e.base, n.text} =>
             \E d \in store' \cup handled : d.text = e.text /\ d.id # e.id

\* Neither the storage's operations nor recovery lose a text that was not saved.
CopiesAreKept == [][CopiesLeaveForAReason /\ RecoveryKeepsText]_draftVars

\* Once a writer's operations are done, its unsaved text is in the storage, unless a
\* user took that copy over or deleted it, a failure is shown, or the last pause took an
\* operation that another one followed for the last.
UnsavedIsStored ==
    \A w \in Writers : LET e == editor[w] IN
      /\ e.open /\ e.text # e.base /\ ~e.timer /\ e.queue = <<>>
      /\ e.status # "unavailable" /\ ~e.skipped
      => Copy(e.id, e.text) \in store \cup handled

=============================================================================
