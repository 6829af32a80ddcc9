---------------------------- MODULE GraphCanvas ----------------------------
(***************************************************************************)
(* The campaign graph (app/codex-campaign-graph.ts, campaign-graph.ts,     *)
(* campaign-graph-modes.ts, campaign-graph-motion.ts and                   *)
(* campaign-addon-graph.ts): a canvas of cards that the reader arranges in *)
(* every view of the graph, in tabs that share the arrangement through the *)
(* browser's storage, and cards that add-ons deliver later.                *)
(*                                                                         *)
(* A card's place is one of the reader's Points, or one of the program's:  *)
(* Laid, Suggested by an add-on, or Pushed aside by a dropped card.        *)
(***************************************************************************)
EXTENDS Integers, FiniteSets, Functions

CONSTANTS
    Tabs, Views, Cards,
    Core(_, _),   \* the cards of a view for one state of the campaign and the role
    Addon(_),     \* the cards an add-on delivers for a view, {} if none does
    Hidden,       \* cards that the filter hides
    Points, Laid, Suggested, Pushed, Pan,
    MaxData,      \* bound: states of the campaign and the role
    MaxMoves      \* bound: what readers, campaign and add-ons do

NoCanvas == [none |-> TRUE]

ASSUME CanvasAssumption ==
    /\ IsFiniteSet(Cards) /\ MaxData \in Nat /\ MaxMoves \in Nat
    /\ {Laid, Suggested, Pushed} \cap Points = {} /\ Pushed \notin {Laid, Suggested}
    /\ Pan \notin Cards /\ NoCanvas \notin Views
    /\ \A v \in Views : Addon(v) \subseteq Cards /\ \A d \in 1..MaxData : Core(v, d) \subseteq Cards

VARIABLES
    prefs,   \* per view: what the browser's storage holds
    tab,     \* per tab: the canvas
    moves,   \* moves made
    lost     \* completed drops that were given up or that the storage refused (history)

canvas == <<prefs, tab, moves, lost>>

NoCards == [c \in {} |-> Laid]

\* given: the view, the data and the state of the add-on registry it is to show, due when
\* it does not show them yet; answer: the registry and data its add-on cards belong to;
\* unplaced: cards placed by the canvas; fits: the view is fitted when shown next;
\* onArrival: and when add-on cards arrive; chosen (history): the reader zoomed or moved
\* since; notices: views stored elsewhere.
Away == [open |-> FALSE, given |-> NoCanvas, due |-> FALSE, view |-> NoCanvas, cards |-> {},
         positions |-> NoCards, unplaced |-> {}, filter |-> FALSE,
         gesture |-> NoCanvas, motion |-> NoCanvas,
         requests |-> {}, answer |-> NoCanvas,
         fits |-> FALSE, onArrival |-> TRUE, chosen |-> FALSE,
         error |-> FALSE, notices |-> {}]

CanvasInit ==
    /\ prefs = [v \in Views |-> [positions |-> NoCards, filter |-> FALSE]]
    /\ tab = [t \in Tabs |-> Away] /\ moves = 0 /\ lost = 0

-----------------------------------------------------------------------------
(* Placing cards.                                                          *)

Extended(f, g) == [c \in DOMAIN f \cup DOMAIN g |-> IF c \in DOMAIN f THEN f[c] ELSE g[c]]

\* Places that are known win; the other cards are placed by the canvas.
Place(e, known) ==
    [e EXCEPT !.positions = Extended(known, [c \in e.cards |-> Laid]),
              !.unplaced = @ \cup (e.cards \ DOMAIN known)]

\* Once the cards are measured those placed by the canvas are spread.
Spread(e) ==
    [e EXCEPT !.positions = [c \in DOMAIN @ |-> IF c \in e.unplaced THEN Laid ELSE @[c]]]

\* What is stored for the view that is to be shown.
ReadPreferences(e, stored) ==
    Place([e EXCEPT !.unplaced = {}, !.filter = stored[e.given.view].filter],
          stored[e.given.view].positions)

-----------------------------------------------------------------------------
(* Dragging.                                                               *)

\* A draft of the positions; a drop may push the other cards that are shown.
Draft(e, c) ==
    [view |-> e.view, held |-> c, positions |-> e.positions,
     others |-> e.cards \ ({c} \cup IF e.filter THEN Hidden ELSE {})]

\* A drag moves a draft; the reader owns the arrangement from now on.
StartMotion(e, c) == [e EXCEPT !.motion = Draft(e, c), !.unplaced = {}]

CancelMotion(e) == [e EXCEPT !.motion = NoCanvas]

CancelGesture(e) ==
    IF e.gesture = NoCanvas THEN e
    ELSE LET d == [e EXCEPT !.gesture = NoCanvas]
         IN  IF e.gesture.card = Pan THEN d ELSE CancelMotion(d)

\* The draft is adopted as it comes to rest.
FinishMotion(e, pushed) ==
    IF e.motion = NoCanvas THEN e
    ELSE [e EXCEPT !.motion = NoCanvas,
                   !.positions = [c \in DOMAIN e.motion.positions |->
                      IF c \in pushed THEN Pushed ELSE e.motion.positions[c]]]

\* A held card is put back; a drop is completed and must be stored.
Finishes(e) == e.motion # NoCanvas /\ e.gesture = NoCanvas
InterruptMotion(e, pushed) ==
    IF e.gesture # NoCanvas THEN CancelGesture(e) ELSE FinishMotion(e, pushed)

\* The view whose cards were dragged.
MotionView(e) == e.motion.view

-----------------------------------------------------------------------------
(* The storage.                                                            *)

\* The positions, then the filters, are written, as far as the storage takes them.
Written(e, v, taken) ==
    [prefs EXCEPT ![v] = [positions |-> IF taken > 0 THEN e.positions ELSE @.positions,
                          filter |-> IF taken > 1 THEN e.filter ELSE @.filter]]

Becomes(t, e) == tab' = [tab EXCEPT ![t] = Spread(e)]

\* The other tabs are told.
BecomesSaved(t, e, v, taken) ==
    tab' = [u \in Tabs |-> IF u = t THEN Spread(e)
               ELSE IF tab[u].open /\ taken > 0 THEN [tab[u] EXCEPT !.notices = @ \cup {v}]
               ELSE tab[u]]

\* The canvas becomes e, and is stored.
Save(t, e) ==
    \E taken \in 0..2 :
      /\ prefs' = Written(e, e.given.view, taken)
      /\ BecomesSaved(t, [e EXCEPT !.error = taken < 2], e.given.view, taken)
    /\ UNCHANGED lost

\* A motion ends, with what the drop is stored as; then the canvas becomes After(e).
Interrupt(t, After(_)) ==
    LET e == tab[t] IN
    IF Finishes(e)
    THEN \E pushed \in SUBSET e.motion.others, taken \in 0..2 :
           LET d == FinishMotion(e, pushed) IN
           /\ prefs' = Written(d, MotionView(e), taken)
           /\ BecomesSaved(t, After([d EXCEPT !.error = taken < 2]), MotionView(e), taken)
           /\ lost' = lost + IF taken = 0 THEN 1 ELSE 0
    ELSE prefs' = prefs /\ Becomes(t, After(InterruptMotion(e, {}))) /\ UNCHANGED lost

-----------------------------------------------------------------------------
(* What the canvas shows.                                                  *)

\* Readers, campaign and add-ons are bounded together.
Move == moves < MaxMoves /\ moves' = moves + 1

\* Updates that are due come before the next event of the page.
Shows(t) == tab[t].open /\ ~tab[t].due
Event(t) == Move /\ Shows(t)

Enter(t, view, data) ==
    /\ Move /\ ~tab[t].open
    /\ Becomes(t, [Away EXCEPT !.open = TRUE, !.due = TRUE,
                     !.given = [view |-> view, data |-> data, registry |-> 0]])
    /\ UNCHANGED <<prefs, lost>>

\* The campaign or the role changed.
Give(t, data) ==
    /\ Event(t) /\ data # tab[t].given.data
    /\ Becomes(t, [tab[t] EXCEPT !.given.data = data, !.due = TRUE])
    /\ UNCHANGED <<prefs, lost>>

ShowView(t, view) ==
    /\ Event(t) /\ view # tab[t].given.view
    /\ Becomes(t, [tab[t] EXCEPT !.given.view = view, !.due = TRUE])
    /\ UNCHANGED <<prefs, lost>>

Abort(requests) == {[r EXCEPT !.aborted = TRUE] : r \in requests}

\* The registry announces other add-ons; what they were asked for is given up at once.
AddonsChange(t) ==
    /\ Event(t)
    /\ Becomes(t, [tab[t] EXCEPT !.given.registry = @ + 1, !.due = TRUE,
                                 !.requests = Abort(@)])
    /\ UNCHANGED <<prefs, lost>>

\* The core cards of the view, and add-ons are asked for theirs; another view has its
\* own arrangement.
Shown(e, stored) ==
    LET v == e.given.view
        d == [e EXCEPT !.due = FALSE, !.view = v, !.cards = Core(v, e.given.data),
                       !.answer = NoCanvas,
                       !.requests = Abort(@) \cup
                         IF Addon(v) = {} THEN {} ELSE {[given |-> e.given, aborted |-> FALSE]}]
    IN  IF e.view = v THEN Place(d, e.positions)
        ELSE ReadPreferences([d EXCEPT !.error = FALSE, !.fits = TRUE, !.onArrival = TRUE,
                                       !.chosen = FALSE], stored)

Update(t) ==
    /\ tab[t].due
    /\ Interrupt(t, LAMBDA e : Shown(e, prefs'))
    /\ UNCHANGED moves

\* An answer counts if it was not given up and nothing changed meanwhile.
Wanted(e, r) ==
    ~r.aborted /\ e.given.view = r.given.view /\ e.given.data = r.given.data

\* Mutant: what the add-on suggests wins.
OverlaidSuggested(e) == Extended([c \in Addon(e.view) |-> Suggested], e.positions)

\* An arrangement wins over what the add-on suggests.
Overlaid(e) == Extended(e.positions, [c \in Addon(e.view) |-> Suggested])

Arrived(e, r) ==
    LET d == [e EXCEPT !.cards = @ \cup Addon(e.view), !.answer = r.given]
    IN  [Place(d, Overlaid(d)) EXCEPT !.fits = @ \/ e.onArrival, !.onArrival = FALSE]

\* The add-ons answer, fail or run into the deadline, whatever happened to the canvas.
Answer(t, r) ==
    /\ r \in tab[t].requests
    /\ IF Wanted(tab[t], r)
       THEN \/ Interrupt(t, LAMBDA e : Arrived([e EXCEPT !.requests = @ \ {r}], r))
            \/ Interrupt(t, LAMBDA e : [e EXCEPT !.requests = @ \ {r}])
       ELSE Becomes(t, [tab[t] EXCEPT !.requests = @ \ {r}]) /\ UNCHANGED <<prefs, lost>>
    /\ UNCHANGED moves

\* The view is fitted when the canvas is drawn.
Fitted(t) ==
    /\ Shows(t) /\ tab[t].fits
    /\ Becomes(t, [tab[t] EXCEPT !.fits = FALSE])
    /\ UNCHANGED <<prefs, moves, lost>>

-----------------------------------------------------------------------------
(* The reader.                                                             *)

\* The reader's own view stays.
Chose(e) == [e EXCEPT !.fits = FALSE, !.onArrival = FALSE, !.chosen = TRUE]

\* Zooming never rearranges cards.
Zoom(t) ==
    /\ Shows(t) /\ Interrupt(t, LAMBDA e : Chose([e EXCEPT !.unplaced = {}]))
    /\ UNCHANGED moves

\* The button; a resized window does the same.
Fit(t) ==
    /\ Event(t) /\ Interrupt(t, LAMBDA e : [e EXCEPT !.fits = TRUE, !.chosen = FALSE])

\* A card or the background is taken; a motion still under way ends first.
PointerDown(t, c) ==
    /\ Event(t) /\ tab[t].gesture = NoCanvas
    /\ c \in tab[t].cards \cup {Pan}
    /\ Interrupt(t, LAMBDA e : Chose([e EXCEPT !.gesture = [card |-> c]]))

\* The card follows the pointer.
PointerMove(t, p) ==
    /\ Shows(t) /\ tab[t].gesture # NoCanvas /\ tab[t].gesture.card # Pan
    /\ LET e == tab[t]
           c == e.gesture.card
           d == IF e.motion = NoCanvas THEN StartMotion(e, c) ELSE e
       IN  Becomes(t, [d EXCEPT !.motion.positions[c] = p])
    /\ UNCHANGED <<prefs, moves, lost>>

\* The card is dropped; with reduced motion it comes to rest at once.
PointerUp(t) ==
    /\ Shows(t) /\ tab[t].gesture # NoCanvas
    /\ Becomes(t, [tab[t] EXCEPT !.gesture = NoCanvas])
    /\ UNCHANGED <<prefs, moves, lost>>

\* The dropped card and those it pushes come to rest; also when the window loses the focus
\* or is hidden, or motion is reduced.
Settle(t) ==
    /\ ~tab[t].due /\ Finishes(tab[t])
    /\ Interrupt(t, LAMBDA e : e)
    /\ UNCHANGED moves

\* The pointer is lost, or the window loses the focus.
LosePointer(t) ==
    /\ Event(t) /\ tab[t].gesture # NoCanvas
    /\ Becomes(t, CancelGesture(tab[t])) /\ UNCHANGED <<prefs, lost>>

\* Escape gives up a drop that has not come to rest.
Escape(t) ==
    /\ Event(t) /\ (tab[t].motion # NoCanvas \/ tab[t].gesture # NoCanvas)
    /\ Becomes(t, CancelMotion(CancelGesture(tab[t])))
    /\ lost' = lost + IF Finishes(tab[t]) THEN 1 ELSE 0
    /\ UNCHANGED prefs

\* An arrow key moves a card and stores it; a drop still under way settles first.
MoveNode(t, c, p) ==
    /\ Event(t) /\ c \in tab[t].cards /\ ~Finishes(tab[t])
    /\ LET e == Chose(CancelGesture(tab[t])) IN
       Save(t, [e EXCEPT !.unplaced = {}, !.positions[c] = p])

\* A filter is changed and stored, or storing is tried again; cards that hide end a drag.
SetFilter(t, filter) ==
    /\ Event(t) /\ (filter # tab[t].filter \/ tab[t].error)
    /\ LET e == IF filter = tab[t].filter THEN tab[t] ELSE CancelGesture(tab[t]) IN
       Save(t, [e EXCEPT !.filter = filter])

\* The page is left; a completed drop survives it, a held card does not.
Leave(t) ==
    /\ Event(t) /\ Interrupt(t, LAMBDA e : Away)

\* Mutant: a drag goes on over what another tab stored.
HeardLater(e) == IF e.motion # NoCanvas THEN e ELSE ReadPreferences(e, prefs)

\* Another tab's arrangement replaces this one; a drag or a drop under way is given up.
Heard(e) == ReadPreferences(CancelMotion(CancelGesture(e)), prefs)

OnStorage(t, v) ==
    /\ Shows(t) /\ v \in tab[t].notices
    /\ LET e == [tab[t] EXCEPT !.notices = @ \ {v}] IN
       Becomes(t, IF v = e.given.view THEN Heard(e) ELSE e)
    /\ UNCHANGED <<prefs, moves, lost>>

CanvasStep(t) ==
    \/ Update(t) \/ Fitted(t) \/ Zoom(t) \/ Fit(t) \/ PointerUp(t) \/ Settle(t)
    \/ LosePointer(t) \/ Escape(t) \/ Leave(t) \/ AddonsChange(t)
    \/ \E v \in Views : ShowView(t, v) \/ OnStorage(t, v) \/ \E d \in 1..MaxData : Enter(t, v, d)
    \/ \E d \in 1..MaxData : Give(t, d)
    \/ \E r \in tab[t].requests : Answer(t, r)
    \/ \E c \in tab[t].cards \cup {Pan} : PointerDown(t, c)
    \/ \E p \in Points : PointerMove(t, p) \/ \E c \in tab[t].cards : MoveNode(t, c, p)
    \/ \E f \in BOOLEAN : SetFilter(t, f)

CanvasNext == \E t \in Tabs : CanvasStep(t)
CanvasSpec == CanvasInit /\ [][CanvasNext]_canvas

-----------------------------------------------------------------------------
(* Properties.                                                             *)

\* The canvas never moves a card that the reader arranged: not when cards are measured,
\* the campaign changes or an add-on suggests a place; only another tab may.
ArrangedStays ==
    \A t \in Tabs :
       LET e == tab[t]
           n == tab'[t]
       IN  e.view = n.view /\ n.notices = e.notices =>
             \A c \in DOMAIN e.positions :
               e.positions[c] \in Points => n.positions[c] \notin {Laid, Suggested}

\* A completed drop is stored for its view whatever ends its motion, the page being left
\* or another view included, unless the reader or another tab gives it up or the storage
\* refuses it.
DropIsKept ==
    \A t \in Tabs :
       LET m == tab[t].motion IN
       Finishes(tab[t]) /\ tab'[t].motion = NoCanvas /\ lost' = lost
         /\ tab[t].notices \subseteq tab'[t].notices \cup {v \in Views : ~tab'[t].open}
       => prefs'[m.view].positions[m.held] = m.positions[m.held]

\* What the reader arranged stays where the reader put it.
ArrangementStands == [][ArrangedStays /\ DropIsKept]_canvas

\* What is stored for a view are cards of that view.
ViewsKeepTheirOwn ==
    \A v \in Views :
      DOMAIN prefs[v].positions \subseteq Addon(v) \cup UNION {Core(v, d) : d \in 1..MaxData}

\* Add-on cards are shown only for the view, the data and the add-ons they were asked for.
OnlyCurrentAnswers ==
    \A t \in Tabs : ~tab[t].due /\ tab[t].answer # NoCanvas => tab[t].answer = tab[t].given

\* A tab that heard everything and stored its own shows the arrangement that is stored.
TabsAgree ==
    \A t \in Tabs :
      LET e == tab[t]
          stored == prefs[e.view].positions
      IN  /\ e.open /\ ~e.due /\ ~e.error /\ e.view \notin e.notices
          => /\ \A c \in DOMAIN stored : e.positions[c] = stored[c]
             /\ \A c \in DOMAIN e.positions : e.positions[c] \in Points => c \in DOMAIN stored

\* A view the reader chose is fitted again only on request or in another view.
ChosenViewStays == \A t \in Tabs : tab[t].chosen => ~tab[t].fits /\ ~tab[t].onArrival

\* What the tabs show and what is stored stay in step, through late answers of add-ons,
\* other tabs and changes of the view.
CanvasIsCurrent == ViewsKeepTheirOwn /\ OnlyCurrentAnswers /\ TabsAgree /\ ChosenViewStays

=============================================================================
