---------------------------- MODULE RichWriter ----------------------------
(***************************************************************************)
(* The Markdown writer (app/codex-markdown-editor.ts over                  *)
(* rich-markdown.ts) with its search for link targets                      *)
(* (writer-link-search.ts): one text, edited as source or as a formatted   *)
(* document that is parsed from it and written back.                       *)
(*                                                                         *)
(* A text is a sequence of paragraphs of one word each.  The page that     *)
(* owns the writer may give it another text, and a recovery copy may       *)
(* replace the text while its own is being stored.                         *)
(***************************************************************************)
EXTENDS Integers, FiniteSets, Sequences, SequencesExt

CONSTANTS
    Words,      \* what can be written
    Length,     \* paragraphs a text may have at most
    Queries,    \* what is searched for
    MaxEdits    \* bound: what the user and the page do

VARIABLE writer

ASSUME WriterAssumption == Length \in Nat /\ MaxEdits \in Nat

Nothing == [nothing |-> TRUE]

-----------------------------------------------------------------------------
(* Source and document.                                                    *)

\* How a paragraph is written: by an author in words of their own, by the writer, or
\* with a link.
Source == [word : Words, form : {"authored", "written", "linked"}]
Authored(w) == [word |-> w, form |-> "authored"]

\* Bound: what pages and copies hold is as authored, besides what was written here.
Texts == {t \in UNION {[1..n -> {Authored(w) : w \in Words}] : n \in 0..Length} : IsInjective(t)}

\* A node of the document knows the source it was parsed from until it is touched.
Node(s, kept) == [word |-> s.word, form |-> s.form, kept |-> kept]
Parse(text) == [i \in DOMAIN text |-> Node(text[i], TRUE)]

\* Untouched nodes keep their source.
Serialize(doc) ==
    [i \in DOMAIN doc |-> [word |-> doc[i].word,
        form |-> IF doc[i].form = "authored" /\ ~doc[i].kept THEN "written" ELSE doc[i].form]]

HasWord(text, w) == \E i \in DOMAIN text : text[i].word = w
Without(s, i) == SubSeq(s, 1, i - 1) \o SubSeq(s, i + 1, Len(s))
With(s, i, x) == SubSeq(s, 1, i - 1) \o <<x>> \o SubSeq(s, i, Len(s))

-----------------------------------------------------------------------------

\* value: the text; last: the one last reported to the page; doc: the formatted
\* document; parsed: the text it was loaded from or last written as; past: the document
\* an undo gives back; sel: where source commands work; recovering: the copy that is to
\* replace the text; link: what the search was opened for; again (history): the page gave
\* the text last reported to it.
WriterInit ==
    \E w \in Words :
      writer = [value |-> <<Authored(w)>>, last |-> <<>>, doc |-> Parse(<<Authored(w)>>),
                parsed |-> <<Authored(w)>>, past |-> <<>>, mode |-> "formatted", sel |-> 1,
                disabled |-> FALSE, recovering |-> Nothing, link |-> Nothing, field |-> "",
                asked |-> {}, shown |-> Nothing, again |-> FALSE, edits |-> 0]

WriterIs(e) == writer' = e
Edits == writer.edits < MaxEdits
Counted(e) == [e EXCEPT !.edits = @ + 1]

\* The search is closed; what it asked for is given up.
Unsearched(e) == [e EXCEPT !.link = Nothing, !.field = "", !.shown = Nothing,
                        !.asked = {[r EXCEPT !.aborted = TRUE] : r \in @}]

\* Mutant: the search stays open while the user works in the text.
ElsewhereOpen(e) == e

\* The user points or tabs somewhere else.
Elsewhere(e) == Unsearched(e)

\* The text changed here; the page is told.
Change(e, text) == [e EXCEPT !.value = text, !.last = text, !.again = FALSE]

\* The document is parsed anew, without a history.
LoadRich(e) == [e EXCEPT !.doc = Parse(e.value), !.parsed = e.value, !.past = <<>>]

\* The document changed: it is written, unless it would be too long.
Dispatch(e, doc, past) ==
    IF Len(doc) > Length THEN e
    ELSE Change([e EXCEPT !.doc = doc, !.parsed = Serialize(doc), !.past = past], Serialize(doc))

\* Editing waits while the text is saved or a copy is taken over.
Editable(e) == ~e.disabled /\ e.recovering = Nothing

-----------------------------------------------------------------------------
(* The formatted view.                                                     *)

\* A paragraph is altered or formatted, deleted, or a new one is written.
TypeRich ==
    /\ Edits /\ writer.mode = "formatted" /\ Editable(writer)
    /\ LET e == Counted(Elsewhere(writer))
           doc == e.doc
       IN
       \/ \E i \in DOMAIN doc, form \in {"written", "linked"} :
            LET touched == [doc EXCEPT ![i].kept = FALSE] IN
            WriterIs(Dispatch(e, [touched EXCEPT ![i].form = form], <<touched>>))
       \/ \E i \in DOMAIN doc : WriterIs(Dispatch(e, Without(doc, i), <<doc>>))
       \/ \E i \in 1..(Len(doc) + 1), w \in Words :
            /\ ~HasWord(doc, w)
            /\ WriterIs(Dispatch(e, With(doc, i, Node([word |-> w, form |-> "written"], FALSE)), <<doc>>))

\* Undo, or redo after it.
Undo ==
    /\ Edits /\ writer.mode = "formatted" /\ Editable(writer) /\ writer.past # <<>>
    /\ WriterIs(Dispatch(Counted(Elsewhere(writer)), Head(writer.past), <<writer.doc>>))

-----------------------------------------------------------------------------
(* The source.                                                             *)

\* The text area is typed in; it knows where.
TypeSource ==
    /\ Edits /\ writer.mode = "markdown" /\ Editable(writer)
    /\ LET e == Counted(Elsewhere(writer))
           text == e.value
       IN  \E i \in 1..Length :
             \/ i \in DOMAIN text /\ WriterIs([Change(e, Without(text, i)) EXCEPT !.sel = i])
             \/ /\ i <= Len(text) + 1 /\ Len(text) < Length
                /\ \E w \in Words : ~HasWord(text, w)
                     /\ WriterIs([Change(e, With(text, i, Authored(w))) EXCEPT !.sel = i])

\* A command replaces what is selected in the source.
Replaced(e, s) ==
    LET n == Len(e.value)
        text == SubSeq(e.value, 1, IF e.sel > n THEN n ELSE e.sel - 1) \o <<s>>
                  \o SubSeq(e.value, e.sel + 1, n)
    IN  IF e.disabled \/ Len(text) > Length THEN e ELSE Change(e, text)

\* The toolbar formats or inserts there, also while a copy is taken over.
Command ==
    /\ Edits /\ writer.mode = "markdown" /\ ~writer.disabled
    /\ \E i \in DOMAIN writer.value \cup {Len(writer.value) + 1}, s \in Source :
         /\ s.form = "authored"
         /\ \A j \in DOMAIN writer.value : writer.value[j].word = s.word => j = i
         /\ WriterIs(Replaced([Counted(Elsewhere(writer)) EXCEPT !.sel = i], s))

\* Mutant: the document is not loaded again.
LoadedNever(e) == e

\* The document is loaded when the text changed since.
Loaded(e) == IF e.value # e.parsed THEN LoadRich(e) ELSE e

\* Another view; also side by side and full screen, which leave the preview.
SetMode(mode) ==
    /\ Edits /\ mode # writer.mode
    /\ LET e == [Counted(Elsewhere(writer)) EXCEPT !.mode = mode] IN
       WriterIs(IF mode = "formatted" THEN Loaded(e) ELSE e)

-----------------------------------------------------------------------------
(* The page around the writer.                                             *)

\* History: the text was replaced while the search was open.
Moved(e) == IF e.link = Nothing THEN e ELSE [e EXCEPT !.link.moved = TRUE]

\* The page gives a text, of another record perhaps.
Given(text, other) ==
    /\ Edits /\ (text # writer.value \/ other)
    /\ LET e == [Counted(Moved(writer)) EXCEPT !.value = text,
                   !.again = IF other THEN FALSE ELSE @ \/ text = writer.last]
       IN  WriterIs(IF other \/ (text # e.last /\ text # e.parsed) THEN LoadRich(e) ELSE e)

\* The page saves the text.
Disable == Edits /\ ~writer.disabled /\ WriterIs([Counted(Elsewhere(writer)) EXCEPT !.disabled = TRUE])
Enable == writer.disabled /\ WriterIs([writer EXCEPT !.disabled = FALSE])

\* A copy is to replace the text, which is stored first.
RecoverCopy(copy) ==
    /\ Edits /\ Editable(writer) /\ copy # writer.value
    /\ WriterIs([Counted(Elsewhere(writer)) EXCEPT !.recovering = [copy |-> copy, opening |-> writer.value]])

\* It does so if nobody changed the text; storing it may fail.
Recovered ==
    /\ writer.recovering # Nothing
    /\ LET r == writer.recovering
           e == [writer EXCEPT !.recovering = Nothing]
       IN  \/ WriterIs(IF e.value = r.opening THEN LoadRich(Change(Moved(e), r.copy)) ELSE e)
           \/ WriterIs(e)

-----------------------------------------------------------------------------
(* The search for a link target.                                           *)

\* The search gives up what it asked for before and asks anew.
Search(e, query) ==
    [e EXCEPT !.field = query, !.shown = [query |-> query, found |-> FALSE],
              !.asked = {[r EXCEPT !.aborted = TRUE] : r \in @} \cup {[query |-> query, aborted |-> FALSE]}]

\* A selected word, or a place between words (Ctrl+K, the toolbar or a menu); it is
\* opened while a copy is taken over, too.
OpenLinkSearch ==
    /\ Edits /\ ~writer.disabled /\ writer.mode # "preview"
    /\ LET e == Counted(Unsearched(writer)) IN
       \E query \in Queries : \E i \in DOMAIN (IF e.mode = "formatted" THEN e.doc ELSE e.value) :
         WriterIs([Search(e, query) EXCEPT !.sel = i,
                     !.link = [source |-> e.mode = "markdown", at |-> i,
                     word |-> (IF e.mode = "formatted" THEN e.doc ELSE e.value)[i].word,
                               moved |-> FALSE]])

AskAgain(query) ==
    /\ Edits /\ writer.link # Nothing /\ query # writer.field
    /\ WriterIs(Search(Counted(writer), query))

CloseSearch == Edits /\ writer.link # Nothing /\ WriterIs(Counted(Unsearched(writer)))

\* An answer is shown unless it was given up.
HeardBy(e, r) == ~r.aborted /\ e.link # Nothing

\* Records and add-ons answer, or cannot be searched.
SearchAnswers(r) ==
    /\ r \in writer.asked
    /\ LET e == [writer EXCEPT !.asked = @ \ {r}] IN
       WriterIs(IF HeardBy(e, r) THEN [e EXCEPT !.shown = [query |-> r.query, found |-> TRUE]] ELSE e)

\* The chosen target keeps the selected words, in the place the search was opened for.
ApplyLink(e, link) ==
    LET linked == [word |-> link.word, form |-> "linked"] IN
    IF e.disabled THEN e
    ELSE IF link.source THEN Replaced([e EXCEPT !.sel = link.at], linked)
    ELSE IF e.recovering # Nothing \/ link.at > Len(e.doc) THEN e
    ELSE Dispatch(e, [e.doc EXCEPT ![link.at] = Node(linked, FALSE)],
                  <<[e.doc EXCEPT ![link.at].kept = FALSE]>>)

Choose ==
    /\ writer.link # Nothing /\ writer.shown # Nothing /\ writer.shown.found
    /\ WriterIs(ApplyLink(Unsearched(writer), writer.link))

WriterNext ==
    \/ TypeRich \/ Undo \/ TypeSource \/ Command \/ Disable \/ Enable \/ Recovered
    \/ OpenLinkSearch \/ CloseSearch \/ Choose
    \/ \E m \in {"formatted", "markdown", "preview"} : SetMode(m)
    \/ \E t \in Texts \cup {writer.last} : RecoverCopy(t) \/ \E other \in BOOLEAN : Given(t, other)
    \/ \E q \in Queries : AskAgain(q)
    \/ \E r \in writer.asked : SearchAnswers(r)

WriterSpec == WriterInit /\ [][WriterNext]_writer

-----------------------------------------------------------------------------
(* Properties.                                                             *)

\* What is typed in the formatted view is typed into the text: the document that is shown
\* is the text, through changes of view, source edits, recovered copies and texts the page
\* gives, unless the page gave back the very text it was last told of.
FormattedShowsTheText ==
    writer.mode = "formatted" /\ ~writer.again => Serialize(writer.doc) = writer.value

\* The matches shown are those of what the search field holds.
ResultsMatchTheField ==
    writer.shown # Nothing => writer.shown.query = writer.field

\* The document shown is that of the text, the matches shown are those of the search.
WriterIsCurrent == FormattedShowsTheText /\ ResultsMatchTheField

\* One edit, a link or an undo rewrites the source of one paragraph at most.
UntouchedKeepSource ==
    writer.mode = "formatted" /\ ~writer.again /\ writer'.last # writer.last /\ writer'.past # <<>> =>
       Cardinality(ToSet(writer.value) \ ToSet(writer'.value)) <= 1

\* Choosing a target links the selected word and no other, unless the page or a recovered
\* copy replaced the text while the search was open.
LinkKeepsTheWords ==
    writer.link # Nothing /\ writer'.link = Nothing /\ writer'.last # writer.last
      /\ ~writer.again /\ ~writer.link.moved /\ writer'.edits = writer.edits =>
        [i \in DOMAIN writer'.value |-> writer'.value[i].word] =
        [i \in DOMAIN writer.value |-> writer.value[i].word]

\* The author's own source and words survive what is done elsewhere in the text.
AuthorsTextStands == [][UntouchedKeepSource /\ LinkKeepsTheWords]_writer

=============================================================================
