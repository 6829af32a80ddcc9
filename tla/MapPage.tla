------------------------------ MODULE MapPage ------------------------------
(***************************************************************************)
(* The map (app/codex-map.ts with campaign-map.ts): pins of locations and  *)
(* events on the world map and on the local maps of locations, saved       *)
(* views, and the upload of a local map.  A location lies on the map of    *)
(* its parent.                                                             *)
(***************************************************************************)
EXTENDS PageWrites

CONSTANTS
    Locations,  \* locations, and the key a new one would get
    MapEvents,  \* events that can have a pin of their own
    Views,      \* IDs of saved views, and the one a new view would get
    World,      \* the world map; the others are locations
    Pins,       \* places on a map
    NoPin,      \* a location or event without a place
    Types       \* what a marker can be, also the boxes of a view

\* A record is one of a place, an event or the saved views.
ASSUME MapAssumption ==
    /\ Locations \cup MapEvents \cup {"views"} \subseteq Parts
    /\ Locations \cap MapEvents = {} /\ "views" \notin Locations \cup MapEvents

Maps == {World} \cup Locations

\* What is typed over which records, for which map: one draft at a time.
Draft(of, part, base, map, pin, type, dirty) ==
    [of |-> of, part |-> part, base |-> base, map |-> map, pin |-> pin, type |-> type,
     dirty |-> dirty]

MapView(map) == [kind |-> "map", map |-> map, selected |-> None, placing |-> None,
                 draft |-> None, error |-> FALSE]

Over(p) == [q \in {p} |-> shown[q]]
OnMap(l) == Exists(shown[l]) /\ shown[l].val.map = page.map

\* Every other panel closes; unsaved edits were given up.
Panel(selected, placing, draft) ==
    page' = [page EXCEPT !.selected = selected, !.placing = placing, !.draft = draft]

MapIdle == page.kind = "map" /\ ~Locked /\ UNCHANGED <<server, shown, turn>>

Select(l) ==
    /\ MapIdle /\ OnMap(l) /\ shown[l].val.pin # NoPin
    /\ Panel([at |-> l], None, None)

\* A pin can be dragged unless another draft would be given up.
CanDrag(l) ==
    page.draft # None => page.draft.of = "location" /\ page.draft.part # l /\ ~page.draft.dirty

\* The selected location's panel, wherever it lies by now, or the drag of a pin.
EditLocation(l) ==
    /\ MapIdle /\ Exists(shown[l])
    /\ \/ page.selected = [at |-> l] /\ page.draft = None
       \/ OnMap(l) /\ shown[l].val.pin # NoPin /\ CanDrag(l)
    /\ LET old == shown[l].val
           pin == IF old.pin = NoPin THEN CHOOSE p \in Pins : TRUE ELSE old.pin
       IN  Panel([at |-> l], None,
                 Draft("location", l, Over(l), page.map, pin, old.type, FALSE))

\* A new location, or one without a place: the next click on the map says where.
Place(l) ==
    /\ MapIdle /\ (~Exists(shown[l]) \/ OnMap(l))
    /\ Panel(IF Exists(shown[l]) THEN [at |-> l] ELSE None, [at |-> l, base |-> Over(l)], None)

ClickMap(pin) ==
    /\ MapIdle
    /\ \/ /\ page.draft # None /\ page.draft.of = "event" /\ page.draft.pin = NoPin
          /\ page' = [page EXCEPT !.draft.pin = pin, !.draft.dirty = TRUE]
       \/ /\ page.draft = None /\ page.placing # None
          /\ LET at == page.placing
                 old == at.base[at.at]
             IN  page' = [page EXCEPT !.placing = None, !.draft =
                   Draft("location", at.at, at.base, page.map, pin,
                         IF Exists(old) THEN old.val.type ELSE CHOOSE t \in Types : TRUE, TRUE)]

\* An event without a pin of its own is opened where a location shows it, or chosen anew.
OpenEvent(e, pin) ==
    /\ MapIdle /\ Exists(shown[e])
    /\ shown[e].val.pin # NoPin => shown[e].val.map = page.map /\ pin \in {NoPin, shown[e].val.pin}
    /\ page.draft # None /\ page.draft.part = e => pin = NoPin
    /\ Panel(None, None, Draft("event", e, Over(e), page.map, pin, NoPin, FALSE))

\* A view to save, or a saved one; its bounds are the part of the map in sight.
OpenView(v, box) ==
    /\ MapIdle /\ Exists(shown["views"])
    /\ v \in DOMAIN shown["views"].val => shown["views"].val[v] = [map |-> page.map, box |-> box]
    /\ Panel(None, None, Draft(IF v \in DOMAIN shown["views"].val THEN "view" ELSE "newview",
                               v, Over("views"), page.map, NoPin, box,
                               v \notin DOMAIN shown["views"].val))

\* Typing, a drag's end, or the captured bounds.
TypeDraft(pin, type) ==
    /\ MapIdle /\ page.draft # None
    /\ CASE page.draft.of = "location" -> pin # NoPin
         [] page.draft.of = "event" -> page.draft.pin # NoPin /\ type = page.draft.type
         [] OTHER -> pin = NoPin
    /\ page' = [page EXCEPT !.draft.pin = pin, !.draft.type = type, !.draft.dirty = TRUE]

CloseMapPanel ==
    /\ MapIdle /\ page # MapView(page.map)
    /\ page' = MapView(page.map)

-----------------------------------------------------------------------------
(* Saving.                                                                 *)

MapRequest(d, pin, drop) ==
    [kind |-> "map", base |-> d.base, of |-> d.of, part |-> d.part, map |-> d.map,
     pin |-> pin, type |-> d.type, drop |-> drop]

AskMap(req) ==
    /\ page.kind = "map" /\ Ask(req)
    /\ page' = [page EXCEPT !.error = FALSE]
    /\ UNCHANGED <<server, shown>>

SaveDraft == /\ page.kind = "map" /\ page.draft # None
             /\ page.draft.of = "event" => page.draft.pin # NoPin
             /\ AskMap(MapRequest(page.draft, page.draft.pin, FALSE))

\* A stored location or event loses its pin.
RemovePin == /\ page.kind = "map" /\ page.draft # None
             /\ page.draft.of \in {"location", "event"} /\ Exists(page.draft.base[page.draft.part])
             /\ page.draft.of = "event" => page.draft.base[page.draft.part].val.pin # NoPin
             /\ AskMap(MapRequest(page.draft, NoPin, FALSE))

DeleteView == /\ page.kind = "map" /\ page.draft # None /\ page.draft.of = "view"
              /\ AskMap(MapRequest(page.draft, NoPin, TRUE))

UploadLocalMap ==
    /\ page.kind = "map" /\ page.draft = None /\ page.map # World
    /\ AskMap([kind |-> "map", of |-> "image", part |-> page.map, map |-> World,
               base |-> Over(page.map)])

-----------------------------------------------------------------------------
(* prepareMapSave and prepareLocalMapImage.                                *)

\* Mutant: the records are taken as they are shown when the save is prepared.
BaseForgotten(req) == TRUE

\* The records are the ones the draft was opened over.
BaseHolds(req) == \A p \in DOMAIN req.base : Revision(shown[p]) = Revision(req.base[p])

\* The record, or its pin, moved to another map.
Elsewhere(req) ==
    LET r == shown[req.part] IN
    CASE req.of = "location" -> Exists(r) /\ r.val.map # req.map
      [] req.of = "event" -> Exists(r) /\ r.val.pin # NoPin /\ r.val.map # req.map
      [] OTHER -> FALSE

\* The saved views no longer hold, or by now hold, the view.
ViewsChanged(req) ==
    LET views == shown["views"].val IN
    \/ req.of = "newview" /\ req.part \in DOMAIN views
    \/ req.of = "view" /\ (req.part \notin DOMAIN views \/ views[req.part].map # req.map)

StaleMap(req) ==
    \/ req.map # World /\ ~Exists(shown[req.map])
    \/ ~BaseHolds(req) \/ Elsewhere(req) \/ ViewsChanged(req)
    \/ req.of \in {"event", "image"} /\ ~Exists(shown[req.part])

MapMutations(req) ==
    LET old == shown[req.part].val
        views == shown["views"].val
    IN  CASE req.of = "location" ->
               {Change(req.part, Revision(shown[req.part]),
                  IF old = Gone THEN [map |-> req.map, pin |-> req.pin, type |-> req.type, img |-> 0]
                  ELSE [old EXCEPT !.pin = req.pin, !.type = req.type])}
          [] req.of = "event" ->
               {Change(req.part, shown[req.part].rev,
                  [old EXCEPT !.pin = req.pin, !.map = IF req.pin = NoPin THEN World ELSE req.map])}
          [] req.of = "image" -> {Change(req.part, shown[req.part].rev, [old EXCEPT !.img = 1])}
          [] OTHER ->
               {Change("views", shown["views"].rev,
                  IF req.drop THEN Restrict(views, DOMAIN views \ {req.part})
                  ELSE [v \in DOMAIN views \cup {req.part} |->
                          IF v = req.part THEN [map |-> req.map, box |-> req.type] ELSE views[v]])}

\* A confirmed save ends the open drafts; a failed one keeps them.
MapHears(ok) ==
    IF ok THEN [page EXCEPT !.draft = None, !.placing = None] ELSE [page EXCEPT !.error = TRUE]

-----------------------------------------------------------------------------

\* Another browser moves a location or an event, retypes a marker, changes the saved
\* views, or deletes a location.
OthersChangeMap ==
    /\ page.kind = "map" /\ UNCHANGED page
    /\ \/ \E l \in Locations : Exists(server[l]) /\ OthersStore(l, Gone)
       \/ \E l \in Locations, m \in Maps :
            Exists(server[l]) /\ m # l /\ OthersStore(l, [server[l].val EXCEPT !.map = m])
       \/ \E e \in MapEvents, m \in Maps, p \in Pins :
            Exists(server[e]) /\ OthersStore(e, [server[e].val EXCEPT !.map = m, !.pin = p])
       \/ \E v \in Views, t \in Types :
            OthersStore("views", [u \in DOMAIN server["views"].val \cup {v} |->
                IF u = v THEN [map |-> World, box |-> t] ELSE server["views"].val[u]])

MapSteps ==
    \/ \E l \in Locations : Select(l) \/ EditLocation(l) \/ Place(l)
    \/ \E p \in Pins : ClickMap(p)
    \/ \E e \in MapEvents, p \in Pins \cup {NoPin} : OpenEvent(e, p)
    \/ \E v \in Views, t \in Types : OpenView(v, t)
    \/ \E p \in Pins \cup {NoPin}, t \in Types \cup {NoPin} : TypeDraft(p, t)
    \/ CloseMapPanel \/ SaveDraft \/ RemovePin \/ DeleteView \/ UploadLocalMap
    \/ OthersChangeMap

=============================================================================
