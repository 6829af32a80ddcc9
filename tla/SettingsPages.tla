--------------------------- MODULE SettingsPages ---------------------------
(***************************************************************************)
(* Campaign settings.  A vocabulary (app/codex-settings.ts with            *)
(* campaign-settings.ts, and internal/application/campaigndata/enums.go    *)
(* for a deletion) is a list of definitions that records refer to.  The    *)
(* other settings are forms over one or two records: the sidebar with the  *)
(* visibility of add-on pages, the party, branding, languages, map         *)
(* configuration and appearance (app/codex-*-settings.ts).                 *)
(***************************************************************************)
EXTENDS PageWrites

CONSTANTS
    Vocabulary,  \* the category with a page open
    Uses,        \* records that refer to its definitions
    ByKey,       \* whether the reference is part of such a record's key
    Items,       \* definition IDs
    Starter,     \* the IDs of its starter set
    NoItem,      \* a record that refers to none
    Texts,       \* what a definition or a setting can say
    Plain,       \* what a setting says that is not stored
    Form,        \* the record a form always writes
    Extra,       \* the second record of the sidebar's form
    Styles       \* how a form saves: "form", "changed" (only then), "pick" (at once)

\* A vocabulary is a record apart from those that refer to it.
ASSUME SettingsAssumption ==
    {Vocabulary, Form, Extra} \cup Uses \subseteq Parts /\ Vocabulary \notin Uses

Definitions(r) == IF Exists(r) THEN r.val ELSE << >>

VocabularyView == [kind |-> "vocabulary", editing |-> None, deleting |-> None, base |-> None,
                   typed |-> None, error |-> FALSE]

\* What the page lists: an open panel keeps the campaign it was opened over.
Listed == IF page.base # None THEN page.base[Vocabulary] ELSE shown[Vocabulary]
Seen == [p \in {Vocabulary} |-> shown[p]]

PageIdle(kind) == page.kind = kind /\ ~Locked /\ UNCHANGED <<server, shown, turn>>

StartCreate ==
    /\ PageIdle("vocabulary") /\ page.editing = None
    /\ page' = [VocabularyView EXCEPT !.editing = [new |-> TRUE], !.base = Seen]

\* From the listed row; the form opens over the current campaign.
StartEdit(i) ==
    /\ PageIdle("vocabulary") /\ page.editing = None /\ i \in DOMAIN Definitions(Listed)
    /\ page' = [VocabularyView EXCEPT !.editing = [item |-> i], !.base = Seen]

\* The form is drawn in its row, or above the list.
FormDrawn == page.editing # None
             /\ ("item" \in DOMAIN page.editing => page.editing.item \in DOMAIN Definitions(Listed))

TypeDefinition(i, t) ==
    /\ PageIdle("vocabulary") /\ FormDrawn
    /\ "item" \in DOMAIN page.editing => i = page.editing.item
    /\ page' = [page EXCEPT !.typed = [item |-> i, text |-> t]]

CancelEdit ==
    /\ PageIdle("vocabulary") /\ FormDrawn
    /\ page' = VocabularyView

RequestDelete(i) ==
    /\ PageIdle("vocabulary") /\ page.editing = None /\ i \in DOMAIN Definitions(Listed)
    /\ page' = [VocabularyView EXCEPT !.base = Seen, !.deleting =
                  [item |-> i, used |-> \E u \in Uses : Exists(shown[u]) /\ shown[u].val = i]]

PanelDrawn == page.deleting # None /\ page.deleting.item \in DOMAIN Definitions(Listed)

CancelDelete ==
    /\ PageIdle("vocabulary") /\ PanelDrawn
    /\ page' = VocabularyView

AskVocabulary(req) ==
    /\ page.kind = "vocabulary" /\ Ask(req)
    /\ page' = [page EXCEPT !.error = FALSE]
    /\ UNCHANGED <<server, shown>>

VocabularyRequest(of, base, item, to) ==
    [kind |-> "vocabulary", of |-> of, base |-> base, item |-> item, to |-> to]

SaveDefinition ==
    /\ page.kind = "vocabulary" /\ FormDrawn /\ page.typed # None
    /\ AskVocabulary(VocabularyRequest(IF "new" \in DOMAIN page.editing THEN "create" ELSE "edit",
                                       page.base, page.typed.item, page.typed.text))

AddStarter ==
    /\ page.kind = "vocabulary" /\ DOMAIN Definitions(Listed) = {} /\ page.editing = None
    /\ AskVocabulary(VocabularyRequest("starter", [p \in {Vocabulary} |-> Listed], NoItem, NoItem))

\* Unused: plainly; used: replaced by another definition, or cleared.
DeleteDefinition(how, to) ==
    /\ page.kind = "vocabulary" /\ PanelDrawn
    /\ \/ how = "reject" /\ ~page.deleting.used /\ to = NoItem
       \/ how = "clear" /\ page.deleting.used /\ to = NoItem
       \/ how = "replace" /\ page.deleting.used /\ ~ByKey
          /\ to \in DOMAIN Definitions(Listed) \ {page.deleting.item}
    /\ AskVocabulary(VocabularyRequest(how, page.base, page.deleting.item, to))

-----------------------------------------------------------------------------
(* prepareCampaignEnumSave, -Starter and -Delete.                          *)

StaleVocabulary(req) ==
    \/ Revision(shown[Vocabulary]) # Revision(req.base[Vocabulary])
    \/ req.of = "starter" /\ DOMAIN Definitions(shown[Vocabulary]) # {}
    \/ req.of \in {"reject", "clear", "replace"} /\ ~Exists(shown[Vocabulary])

InvalidVocabulary(req) ==
    LET has == req.item \in DOMAIN Definitions(shown[Vocabulary]) IN
    IF req.of = "create" THEN has ELSE req.of # "starter" /\ ~has

VocabularyMutations(req) ==
    LET old == Definitions(shown[Vocabulary]) IN
    {Change(Vocabulary, Revision(shown[Vocabulary]),
        IF req.of = "starter" THEN [i \in Starter |-> Plain]
        ELSE [i \in DOMAIN old \cup {req.item} |-> IF i = req.item THEN req.to ELSE old[i]])}

Deletes(req) == req.kind = "vocabulary" /\ req.of \in {"reject", "clear", "replace"}

\* A deletion is planned by the host.
SendDeletion ==
    /\ turn.phase = "asked"
    /\ turn' = [phase |-> "host", req |-> turn.req]
    /\ UNCHANGED <<server, shown>>

UsesOf(i) == {u \in Uses : Exists(server[u]) /\ server[u].val = i}

\* DeleteEnumItem: over a snapshot, with a change for every record in use.
HostPlansDeletion ==
    /\ turn.phase = "host"
    /\ LET req == turn.req
           current == Revision(server[Vocabulary]) = req.base[Vocabulary].rev
           used == UsesOf(req.item)
           left == Restrict(server[Vocabulary].val, DOMAIN server[Vocabulary].val \ {req.item})
       IN  turn' = IF ~current \/ (req.of = "reject" /\ used # {}) THEN Answered("conflict", {})
                   ELSE [phase |-> "sent", req |-> req, muts |->
                     {Change(Vocabulary, server[Vocabulary].rev, left)} \cup
                     {Change(u, server[u].rev, IF ByKey THEN Gone ELSE req.to) : u \in used}]
    /\ UNCHANGED <<server, shown>>

\* What was opened closes once it is saved; everything else only hears of a failure.
VocabularyHears(ok) ==
    IF ~ok THEN [page EXCEPT !.error = TRUE]
    ELSE IF turn.req.of = "starter" THEN page ELSE VocabularyView

\* Another browser rewrites a definition, removes it or adds one, or changes a record.
OthersChangeVocabulary ==
    /\ page.kind = "vocabulary" /\ UNCHANGED page
    /\ LET old == Definitions(server[Vocabulary]) IN
       \/ \E i \in Items, t \in Texts : OthersStore(Vocabulary,
            [j \in DOMAIN old \cup {i} |-> IF j = i THEN t ELSE old[j]])
       \/ \E i \in DOMAIN old : OthersStore(Vocabulary, Restrict(old, DOMAIN old \ {i}))
       \/ \E u \in Uses, i \in DOMAIN old \cup {NoItem} : OthersStore(u, i)

-----------------------------------------------------------------------------
(* The forms.                                                              *)

FormView(style, records) ==
    [kind |-> "form", style |-> style, base |-> Restrict(records, {Form, Extra}),
     typed |-> << >>, error |-> FALSE]

\* Mutant: a refresh resets a form that is being filled in.
AdoptsAlways(view) == TRUE

\* A form nobody typed into shows every new campaign.
Adopts(view) == DOMAIN view.typed = {}

TypeSetting(p, t) ==
    /\ PageIdle("form") /\ page.style # "pick" /\ (p = Extra => page.style = "form")
    /\ page' = [page EXCEPT !.error = FALSE, !.typed =
                  [q \in DOMAIN page.typed \cup {p} |-> IF q = p THEN t ELSE page.typed[q]]]

CancelForm ==
    /\ PageIdle("form") /\ page.style # "pick"
    /\ page' = FormView(page.style, shown)

\* The form's own record as typed, else as it was; the second one only when typed.
Filled == [p \in {Form} \cup DOMAIN page.typed |->
             IF p \in DOMAIN page.typed THEN page.typed[p]
             ELSE IF Exists(page.base[p]) THEN page.base[p].val ELSE Plain]

AskForm(vals) ==
    /\ Ask([kind |-> "form", base |-> Restrict(page.base, DOMAIN vals), vals |-> vals])
    /\ page' = [page EXCEPT !.error = FALSE]
    /\ UNCHANGED <<server, shown>>

SaveForm ==
    /\ page.kind = "form" /\ page.style # "pick"
    /\ page.style = "changed" => page.typed # << >>
    /\ AskForm(Filled)

\* A theme is saved as soon as it is picked.
PickSetting(t) ==
    /\ page.kind = "form" /\ page.style = "pick"
    /\ t # (IF Exists(shown[Form]) THEN shown[Form].val ELSE Plain)
    /\ AskForm([p \in {Form} |-> t])

StaleForm(req) == \E p \in DOMAIN req.vals : Revision(shown[p]) # Revision(req.base[p])

FormMutations(req) == {Change(p, Revision(shown[p]), req.vals[p]) : p \in DOMAIN req.vals}

FormHears(ok) == IF ok THEN FormView(page.style, shown) ELSE [page EXCEPT !.error = TRUE]

\* The form while a new campaign is shown.
FormShows(records) ==
    IF Adopts(page) THEN FormView(page.style, records) ELSE page

OthersChangeSetting ==
    /\ page.kind = "form" /\ UNCHANGED page
    /\ \E p \in {Form, Extra}, t \in Texts : OthersStore(p, t)

SettingsSteps ==
    \/ StartCreate \/ CancelEdit \/ CancelDelete \/ SaveDefinition \/ AddStarter
    \/ \E i \in Items : StartEdit(i) \/ RequestDelete(i)
    \/ \E i \in Items, t \in Texts : TypeDefinition(i, t)
    \/ \E how \in {"reject", "clear", "replace"}, to \in Items \cup {NoItem} : DeleteDefinition(how, to)
    \/ OthersChangeVocabulary
    \/ \E p \in {Form, Extra}, t \in Texts : TypeSetting(p, t)
    \/ CancelForm \/ SaveForm \/ OthersChangeSetting
    \/ \E t \in Texts : PickSetting(t)

=============================================================================
