--------------------------- MODULE CampaignPages ---------------------------
(***************************************************************************)
(* The pages of MapPage, TimelinePage and SettingsPages over one campaign, *)
(* with the writes of PageWrites.  One kind of page is open at a time.     *)
(***************************************************************************)
EXTENDS MapPage, TimelinePage, SettingsPages

CONSTANTS
    Kinds,    \* the pages that can be opened
    Stored    \* the campaign the browser starts with

\* What was never stored does not exist, and what lies on a map names it;
\* events are ordered by numbers.
ASSUME CampaignAssumption ==
    /\ DOMAIN MaxEdits = Kinds /\ Kinds \subseteq {"map", "timeline", "vocabulary", "form"}
    /\ DOMAIN Stored = Parts
    /\ \A p \in Parts : Stored[p].rev \in Nat /\ (Stored[p].rev = 0 => ~Exists(Stored[p]))
    /\ \A p \in Locations \cup MapEvents : Exists(Stored[p]) => "map" \in DOMAIN Stored[p].val
    /\ \A e \in Events : Exists(Stored[e]) => Stored[e].val.order \in Int

\* A page of this kind, newly opened.
Fresh(kind) ==
    CASE kind = "map" -> {MapView(m) : m \in {x \in Maps : x = World \/ Exists(shown[x])}}
      [] kind = "timeline" -> {TimelineView}
      [] kind = "vocabulary" -> {VocabularyView}
      [] kind = "form" -> {FormView(s, shown) : s \in Styles}

Init ==
    /\ server = Stored /\ shown = Stored /\ turn = Idle
    /\ page \in UNION {Fresh(k) : k \in Kinds}

\* A page is left once nothing is being saved, after asking about its edits.
Navigate ==
    /\ ~Locked /\ page' \in Fresh(page.kind)
    /\ UNCHANGED <<server, shown, turn>>

\* The handlers of campaign-write-handlers.ts, each over the campaign now shown.
Prepare ==
    /\ turn.phase = "asked" /\ UNCHANGED page
    /\ LET req == turn.req IN
       CASE req.kind = "map" ->
              IF StaleMap(req) THEN Refuse("conflict") ELSE Send(MapMutations(req))
         [] req.kind = "timeline" ->
              IF StaleTimeline(req) THEN Refuse("conflict") ELSE Send(TimelineMutations(req))
         [] req.kind = "form" ->
              IF StaleForm(req) THEN Refuse("conflict") ELSE Send(FormMutations(req))
         [] req.kind = "vocabulary" ->
              IF StaleVocabulary(req) THEN Refuse("conflict")
              ELSE IF InvalidVocabulary(req) THEN Refuse("failed")
              ELSE IF Deletes(req) THEN SendDeletion ELSE Send(VocabularyMutations(req))

Unavailable == Refuse("failed") /\ UNCHANGED page

\* Nobody else is answered, and the page is the one that asked.
Hear ==
    /\ turn.phase = "answered" /\ turn' = Idle
    /\ LET ok == turn.answer = "ok" IN
       page' = CASE page.kind = "map" -> MapHears(ok)
                 [] page.kind = "timeline" -> TimelineHears(ok)
                 [] page.kind = "vocabulary" -> VocabularyHears(ok)
                 [] page.kind = "form" -> FormHears(ok)
    /\ UNCHANGED <<server, shown>>

PageRefreshes ==
    /\ Refresh
    /\ page' = IF page.kind = "form" THEN FormShows(shown') ELSE page

TransportSteps ==
    /\ ServerCommits \/ ServerConflicts \/ RequestFails \/ ReadBack \/ HostPlansDeletion
    /\ UNCHANGED page

Next == MapSteps \/ TimelineSteps \/ SettingsSteps \/ Navigate
        \/ Unavailable \/ Prepare \/ TransportSteps \/ Hear \/ PageRefreshes

Spec == Init /\ [][Next]_vars

-----------------------------------------------------------------------------
(* Properties.                                                             *)

\* This browser's write is stored in this step.
Stores == turn.phase \in {"sent", "host"} /\ server' # server /\ turn' # turn

\* What its editor had read: every record it asked to change still held the value the
\* draft was opened over, and records the host changes along with them still referred to
\* the deleted definition.
NothingUnseenIsReplaced ==
    \A p \in DOMAIN turn.req.base : server'[p] = server[p] \/
       /\ server[p].val = turn.req.base[p].val
       /\ Revision(server[p]) = Revision(turn.req.base[p])

\* A deletion changes records that use the definition only while they use it, so a
\* reference another writer stored after the host made its plan is never rewritten.
CascadesAreGuarded ==
    Deletes(turn.req) =>
       \A u \in Uses : server'[u] # server[u] => server[u].val = turn.req.item

\* A pin is stored on the map it was placed on, wherever its record was moved meanwhile.
PinsStayOnTheirMap ==
    turn.req.kind = "map" /\ turn.req.of \in {"location", "event"} /\ turn.req.pin # NoPin =>
       server'[turn.req.part].val.map = turn.req.map

\* A stored write replaces only what its editor had read, changes other records only while
\* they use what it deletes, and puts a pin only on the map it was placed on.
StoredAsSeen ==
    [][Stores => NothingUnseenIsReplaced /\ CascadesAreGuarded /\ PinsStayOnTheirMap]_vars

\* One event comes before another in a column.
Before(col, d, e) == \E i, j \in DOMAIN col : i < j /\ col[i] = d /\ col[j] = e

\* Events that nobody changed since the draft was opened are in the sessions and in the
\* order it showed.
AsDrawn ==
    LET req == turn.req
        same == {e \in Events : Exists(req.base[e]) /\ server[e].rev = req.base[e].rev}
    IN  \A s \in 1..MaxSession :
           LET now == Column(server', s)
               drawn == IF s \in DOMAIN req.cols THEN req.cols[s] ELSE <<>>
           IN  /\ ToSet(now) \cap same = ToSet(drawn) \cap same
               /\ \A d, e \in same : Before(now, d, e) <=> Before(drawn, d, e)

\* A stored reorder shows the events as the draft showed them, but for events that
\* another writer changed since the draft was opened.
ReorderLands == [][Stores /\ turn.req.kind = "timeline" => AsDrawn]_vars

\* What is typed into the open page.
Unsaved(view) ==
    CASE view.kind = "map" -> IF view.draft # None /\ view.draft.dirty THEN {view.draft} ELSE {}
      [] view.kind = "timeline" -> IF view.base # None THEN {view.cols} ELSE {}
      [] view.kind = "vocabulary" -> IF view.typed # None THEN {view.typed} ELSE {}
      [] view.kind = "form" -> IF view.typed # << >> THEN {view.typed} ELSE {}

\* Unsaved edits end by the user's own hand or once the campaign shown holds the
\* change: no refresh, refusal, lost answer or other page's news drops them.
EditsEndSaved ==
    [][Unsaved(page) # {} /\ Unsaved(page') # Unsaved(page) =>
          \/ turn = Idle /\ shown' = shown
          \/ turn.phase = "answered" /\ turn.answer = "ok" /\ Includes(shown, turn.muts)]_vars

=============================================================================
