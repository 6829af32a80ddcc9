------------------------- MODULE CampaignPagesProofs -------------------------
(***************************************************************************)
(* What the pages of a campaign store and keep, for every campaign, every  *)
(* kind of page and every number of edits and changes by other writers: a  *)
(* write replaces only what its user had seen, a stored order is the one   *)
(* that was drafted, and what is typed ends by the user's own hand or once *)
(* the campaign shown holds it.                                            *)
(*                                                                         *)
(* The order of the proof: what holds of a page, of the request under way  *)
(* and of the records (PagesInv); what a preparation makes of a request;   *)
(* that each kind of page keeps the invariant; the sorted columns of the   *)
(* timeline and what a reorder makes of them (TimelineInv); and the three  *)
(* properties.                                                             *)
(***************************************************************************)
EXTENDS CampaignPages, FiniteSetTheorems, SequenceTheorems, WellFoundedInduction, TLAPS

\* What is shown, drafted over or sent along was read from the campaign: it is as old as the
\* stored record or older, and the same when it has its revision.
Version(r, p, s) ==
    /\ r.rev \in Nat /\ r.rev <= s[p].rev
    /\ r.rev = 0 => ~Exists(r)
    /\ r.rev = s[p].rev => r.val = s[p].val

Read(f, s) == \A p \in DOMAIN f : p \in Parts /\ Version(f[p], p, s)

\* Locations and events of the map lie on one.
OnMaps(f) == \A p \in Locations \cup MapEvents : Exists(f[p]) => "map" \in DOMAIN f[p].val

RecordsInv ==
    /\ DOMAIN server = Parts /\ DOMAIN shown = Parts
    /\ Read(server, server) /\ Read(shown, server)
    /\ page.kind = "map" => OnMaps(server) /\ OnMaps(shown)

\* Every open editor has the records it was opened over.
DraftIs(d, s) ==
    /\ d = Draft(d.of, d.part, d.base, d.map, d.pin, d.type, d.dirty)
    /\ Read(d.base, s)
    /\ \/ d.of = "location" /\ d.part \in Locations /\ DOMAIN d.base = {d.part}
       \/ d.of = "event" /\ d.part \in MapEvents /\ DOMAIN d.base = {d.part}
       \/ d.of \in {"view", "newview"} /\ DOMAIN d.base = {"views"}

PlacingIs(a, s) ==
    /\ a = [at |-> a.at, base |-> a.base]
    /\ a.at \in Locations /\ DOMAIN a.base = {a.at} /\ Read(a.base, s)

MapPageIs(v, s) ==
    /\ v = [kind |-> "map", map |-> v.map, selected |-> v.selected, placing |-> v.placing,
            draft |-> v.draft, error |-> v.error]
    /\ v.map \in Maps
    /\ v.draft # None => DraftIs(v.draft, s)
    /\ v.placing # None => PlacingIs(v.placing, s)

BoardPage(editing, base, cols, drag, error) ==
    [kind |-> "timeline", editing |-> editing, base |-> base, cols |-> cols, drag |-> drag,
     error |-> error]

TimelinePageIs(v, s) ==
    /\ v = BoardPage(v.editing, v.base, v.cols, v.drag, v.error)
    /\ v.base # None => DOMAIN v.base = Events /\ Read(v.base, s)
    /\ v.drag # None => DOMAIN v.drag.base = Events /\ Read(v.drag.base, s)

VocabularyPage(editing, deleting, base, typed, error) ==
    [kind |-> "vocabulary", editing |-> editing, deleting |-> deleting, base |-> base,
     typed |-> typed, error |-> error]

VocabularyPageIs(v, s) ==
    /\ v = VocabularyPage(v.editing, v.deleting, v.base, v.typed, v.error)
    /\ v.editing # None \/ v.deleting # None \/ v.base # None =>
         DOMAIN v.base = {Vocabulary} /\ Read(v.base, s)

FormPage(style, base, typed, error) ==
    [kind |-> "form", style |-> style, base |-> base, typed |-> typed, error |-> error]

FormPageIs(v, s) ==
    /\ v = FormPage(v.style, v.base, v.typed, v.error)
    /\ DOMAIN v.base = {Form, Extra} /\ Read(v.base, s)
    /\ v.typed = [q \in DOMAIN v.typed |-> v.typed[q]] /\ DOMAIN v.typed \subseteq {Form, Extra}

PageIs(v, s) ==
    /\ v.kind \in {"map", "timeline", "vocabulary", "form"}
    /\ v.kind = "map" => MapPageIs(v, s)
    /\ v.kind = "timeline" => TimelinePageIs(v, s)
    /\ v.kind = "vocabulary" => VocabularyPageIs(v, s)
    /\ v.kind = "form" => FormPageIs(v, s)

\* A request carries what its editor was opened over, for every record it asks to change.
MapRequestIs(req) ==
    /\ req.kind = "map"
    /\ \/ req.of = "location" /\ req.part \in Locations /\ DOMAIN req.base = {req.part}
       \/ req.of = "event" /\ req.part \in MapEvents /\ DOMAIN req.base = {req.part}
       \/ req.of = "image" /\ req.part \in Locations /\ DOMAIN req.base = {req.part}
       \/ req.of \in {"view", "newview"} /\ DOMAIN req.base = {"views"}

RequestIs(req, s) ==
    /\ Read(req.base, s)
    /\ \/ MapRequestIs(req)
       \/ req.kind = "timeline" /\ DOMAIN req.base = Events
       \/ req.kind = "vocabulary" /\ DOMAIN req.base = {Vocabulary}
       \/ req.kind = "form" /\ DOMAIN req.base = DOMAIN req.vals

\* The revision that a change expects vouches for what its editor had read.
Vouches(m, r, s) ==
    /\ m.rev \in Nat /\ m.rev <= s[m.part].rev
    /\ m.rev = s[m.part].rev => s[m.part].val = r.val /\ Revision(s[m.part]) = Revision(r)

ForUse(m, item, s) ==
    /\ m.rev \in Nat /\ m.rev <= s[m.part].rev
    /\ m.rev = s[m.part].rev => s[m.part].val = item

\* What is sent changes what was asked; a deletion changes only uses of what it deletes,
\* and a pin keeps to its map.
ChangesAre(req, muts, s) ==
    /\ \A m \in muts : m.part \in DOMAIN req.base => Vouches(m, req.base[m.part], s)
    /\ Deletes(req) => \A m \in muts : m.part \in Uses => ForUse(m, req.item, s)
    /\ req.kind = "map" =>
         \A m \in muts : m.part \in Locations \cup MapEvents => "map" \in DOMAIN m.val
    /\ req.kind = "map" /\ req.of \in {"location", "event"} /\ req.pin # NoPin =>
         \E m \in muts : muts = {m} /\ m.part = req.part /\ m.val.map = req.map

\* One request is under way, of the open page; a confirmed change is in what is shown.
TurnIs(t, kind, records, s) ==
    t # Idle =>
      /\ t.req.kind = kind /\ RequestIs(t.req, s)
      /\ t.phase = "host" => Deletes(t.req)
      /\ t.phase = "sent" => ChangesAre(t.req, t.muts, s)
      /\ t.phase = "answered" /\ t.answer = "ok" => Includes(records, t.muts)

PagesInv ==
    RecordsInv /\ PageIs(page, server) /\ TurnIs(turn, page.kind, shown, server)

-----------------------------------------------------------------------------
(* Records only grow.                                                      *)

Grows(s, t) ==
    /\ DOMAIN t = Parts
    /\ \A p \in Parts : /\ t[p].rev \in Nat /\ (t[p].rev = 0 => ~Exists(t[p]))
                        /\ t[p] = s[p] \/ t[p].rev > s[p].rev

LEMMA PartsAre ==
    /\ Locations \subseteq Parts /\ MapEvents \subseteq Parts /\ "views" \in Parts
    /\ Events \subseteq Parts /\ Uses \subseteq Parts
    /\ Vocabulary \in Parts /\ Form \in Parts /\ Extra \in Parts
    /\ Locations \cap MapEvents = {} /\ "views" \notin Locations \cup MapEvents /\ Vocabulary \notin Uses
BY MapAssumption, TimelineAssumption, SettingsAssumption DEF Events, ToSet

LEMMA ReadStays ==
    ASSUME NEW s, NEW t, DOMAIN s = Parts, Read(s, s), Grows(s, t), NEW f, Read(f, s)
    PROVE  Read(f, t)
<1> SUFFICES ASSUME NEW p \in DOMAIN f PROVE p \in Parts /\ Version(f[p], p, t)
  BY DEF Read
<1>1. p \in Parts /\ Version(f[p], p, s) /\ s[p].rev \in Nat
  BY DEF Read, Version
<1>2. t[p].rev \in Nat /\ (t[p] = s[p] \/ t[p].rev > s[p].rev)
  BY <1>1 DEF Grows
<1> QED BY <1>1, <1>2 DEF Version

LEMMA PageStays ==
    ASSUME NEW s, NEW t, DOMAIN s = Parts, Read(s, s), Grows(s, t), NEW v, PageIs(v, s)
    PROVE  PageIs(v, t)
<1>1. \A f : Read(f, s) => Read(f, t)
  BY ReadStays
<1>2. \A d : DraftIs(d, s) => DraftIs(d, t)
  BY <1>1 DEF DraftIs
<1>3. \A a : PlacingIs(a, s) => PlacingIs(a, t)
  BY <1>1 DEF PlacingIs
<1>4. MapPageIs(v, s) => MapPageIs(v, t)
  BY <1>2, <1>3 DEF MapPageIs
<1>5. TimelinePageIs(v, s) => TimelinePageIs(v, t)
  BY <1>1 DEF TimelinePageIs
<1>6. VocabularyPageIs(v, s) => VocabularyPageIs(v, t)
  BY <1>1 DEF VocabularyPageIs
<1>7. FormPageIs(v, s) => FormPageIs(v, t)
  BY <1>1 DEF FormPageIs
<1> QED BY <1>4, <1>5, <1>6, <1>7 DEF PageIs

LEMMA ChangesStay ==
    ASSUME NEW s, NEW t, DOMAIN s = Parts, Read(s, s), Grows(s, t),
           NEW req, Read(req.base, s), NEW muts, ChangesAre(req, muts, s)
    PROVE  ChangesAre(req, muts, t)
<1>1. ASSUME NEW p \in Parts PROVE s[p].rev \in Nat /\ (t[p] = s[p] \/ t[p].rev > s[p].rev) /\ t[p].rev \in Nat
  BY <1>1 DEF Read, Version, Grows
<1>2. ASSUME NEW m, NEW r, m.part \in Parts, Vouches(m, r, s) PROVE Vouches(m, r, t)
  BY <1>1, <1>2 DEF Vouches
<1>3. ASSUME NEW m, NEW item, m.part \in Parts, ForUse(m, item, s) PROVE ForUse(m, item, t)
  BY <1>1, <1>3 DEF ForUse
<1>4. DOMAIN req.base \subseteq Parts
  BY DEF Read
<1>5. \A m \in muts : m.part \in DOMAIN req.base => Vouches(m, req.base[m.part], t)
  BY <1>2, <1>4 DEF ChangesAre
<1>6. Deletes(req) => \A m \in muts : m.part \in Uses => ForUse(m, req.item, t)
  BY <1>3, PartsAre DEF ChangesAre
<1> QED BY <1>5, <1>6 DEF ChangesAre

LEMMA TurnStays ==
    ASSUME NEW s, NEW t, DOMAIN s = Parts, Read(s, s), Grows(s, t),
           NEW x, NEW kind, NEW records, TurnIs(x, kind, records, s)
    PROVE  TurnIs(x, kind, records, t)
<1>1. x # Idle => RequestIs(x.req, t)
  BY ReadStays DEF TurnIs, RequestIs
<1>2. x # Idle /\ x.phase = "sent" => ChangesAre(x.req, x.muts, t)
  BY ChangesStay DEF TurnIs, RequestIs
<1> QED BY <1>1, <1>2 DEF TurnIs

\* A change of the stored records, by whoever makes it.
LEMMA StoreKeeps ==
    ASSUME PagesInv, Grows(server, server'), UNCHANGED <<shown, page>>,
           page.kind = "map" => OnMaps(server'),
           TurnIs(turn', page.kind, shown, server)
    PROVE  PagesInv'
<1>1. DOMAIN server = Parts /\ Read(server, server) /\ Read(shown, server)
  BY DEF PagesInv, RecordsInv
<1>2. Read(server', server')
  BY DEF Grows, Read, Version
<1>3. Read(shown, server') /\ PageIs(page, server') /\ TurnIs(turn', page.kind, shown, server')
  BY <1>1, ReadStays, PageStays, TurnStays DEF PagesInv
<1>4. RecordsInv'
  BY <1>2, <1>3 DEF PagesInv, RecordsInv, Grows
<1> QED BY <1>3, <1>4 DEF PagesInv

\* A step of the page, which at most asks.
LEMMA PageKeeps ==
    ASSUME PagesInv, UNCHANGED <<server, shown>>, PageIs(page', server), page'.kind = page.kind,
           TurnIs(turn', page.kind, shown, server)
    PROVE  PagesInv'
BY DEF PagesInv, RecordsInv

\* What a page asks.
LEMMA AskKeeps ==
    ASSUME PagesInv, NEW req, Ask(req), UNCHANGED <<server, shown>>,
           PageIs(page', server), page'.kind = page.kind, req.kind = page.kind,
           RequestIs(req, server)
    PROVE  PagesInv'
<1>1. turn' = [phase |-> "asked", req |-> req]
  BY DEF Ask
<1>2. TurnIs(turn', page.kind, shown, server)
  BY <1>1 DEF TurnIs
<1> QED BY <1>2, PageKeeps

LEMMA AppliedIs ==
    ASSUME RecordsInv, NEW muts
    PROVE  /\ Grows(server, Applied(muts))
           /\ \A p \in Parts :
                \/ Applied(muts)[p] = server[p] /\ ~\E m \in muts : m.part = p
                \/ \E m \in muts : m.part = p /\ Applied(muts)[p] = [rev |-> server[p].rev + 1, val |-> m.val]
<1>1. ASSUME NEW p \in Parts
      PROVE  \/ Applied(muts)[p] = server[p] /\ ~\E m \in muts : m.part = p
             \/ \E m \in muts : m.part = p /\ Applied(muts)[p] = [rev |-> server[p].rev + 1, val |-> m.val]
  BY DEF Applied
<1>2. ASSUME NEW p \in Parts
      PROVE  server[p].rev \in Nat /\ (server[p].rev = 0 => ~Exists(server[p]))
  BY DEF RecordsInv, Read, Version
<1>3. DOMAIN Applied(muts) = Parts
  BY DEF Applied
<1>4. Grows(server, Applied(muts))
  <2> SUFFICES ASSUME NEW p \in Parts
               PROVE  LET r == Applied(muts)[p] IN
                      /\ r.rev \in Nat /\ (r.rev = 0 => ~Exists(r))
                      /\ r = server[p] \/ r.rev > server[p].rev
    BY <1>3 DEF Grows
  <2>1. CASE Applied(muts)[p] = server[p]
    BY <1>2, <2>1
  <2>2. CASE \E m \in muts : Applied(muts)[p] = [rev |-> server[p].rev + 1, val |-> m.val]
    <3>1. Applied(muts)[p].rev = server[p].rev + 1
      BY <2>2
    <3> HIDE DEF Applied
    <3> QED BY <1>2, <3>1
  <2> QED BY <1>1, <2>1, <2>2
<1> QED BY <1>1, <1>4

\* Another browser stores a value.
LEMMA OthersKeep ==
    ASSUME PagesInv, NEW p \in Parts, NEW val, OthersStore(p, val), UNCHANGED page,
           page.kind = "map" /\ p \in Locations \cup MapEvents => val = Gone \/ "map" \in DOMAIN val
    PROVE  PagesInv'
<1>1. DOMAIN server = Parts /\ \A q \in Parts : server[q].rev \in Nat /\ (server[q].rev = 0 => ~Exists(server[q]))
  BY DEF PagesInv, RecordsInv, Read, Version
<1>2. server' = [server EXCEPT ![p] = [rev |-> server[p].rev + 1, val |-> val]] /\ UNCHANGED <<shown, turn>>
  BY DEF OthersStore
<1>3. /\ DOMAIN server' = Parts
      /\ server'[p].rev = server[p].rev + 1 /\ server'[p].val = val
      /\ \A q \in Parts \ {p} : server'[q] = server[q]
  BY <1>1, <1>2
<1>4. Grows(server, server')
  BY ONLY <1>1, <1>3 DEF Grows
<1>5. page.kind = "map" => OnMaps(server')
  BY <1>3, PartsAre DEF PagesInv, RecordsInv, OnMaps, Exists
<1>6. TurnIs(turn', page.kind, shown, server)
  BY <1>2 DEF PagesInv
<1> QED BY <1>2, <1>4, <1>5, <1>6, StoreKeeps

-----------------------------------------------------------------------------
(* The map.                                                                *)

\* One record as it is shown.
LEMMA OverIs ==
    ASSUME RecordsInv, NEW p \in Parts
    PROVE  DOMAIN Over(p) = {p} /\ Read(Over(p), server)
BY DEF RecordsInv, Over, Read

\* What each panel of the map leaves on the page.
LEMMA PanelIs ==
    ASSUME PagesInv, page.kind = "map", NEW selected, NEW placing, NEW draft,
           Panel(selected, placing, draft),
           draft # None => DraftIs(draft, server),
           placing # None => PlacingIs(placing, server)
    PROVE  PageIs(page', server) /\ page'.kind = "map"
<1>1. MapPageIs(page, server)
  BY DEF PagesInv, PageIs
<1>2. page' = [kind |-> "map", map |-> page.map, selected |-> selected, placing |-> placing,
               draft |-> draft, error |-> page.error]
  BY <1>1 DEF Panel, MapPageIs
<1>3. MapPageIs(page', server) /\ page'.kind = "map"
  BY <1>1, <1>2 DEF MapPageIs
<1> QED BY <1>3 DEF PageIs

LEMMA MapIdleKeeps ==
    ASSUME PagesInv, MapIdle, PageIs(page', server), page'.kind = "map"
    PROVE  PagesInv'
BY PageKeeps DEF MapIdle, PagesInv

LEMMA MapOpensKeep ==
    ASSUME PagesInv,
           \/ \E l \in Locations : Select(l) \/ EditLocation(l) \/ Place(l)
           \/ \E e \in MapEvents, p \in Pins \cup {NoPin} : OpenEvent(e, p)
           \/ \E v \in Views, t \in Types : OpenView(v, t)
    PROVE  PagesInv'
<1>0. RecordsInv
  BY DEF PagesInv
<1>1. ASSUME NEW l \in Locations, Select(l) PROVE PagesInv'
  <2>1. MapIdle /\ Panel([at |-> l], None, None)
    BY <1>1 DEF Select
  <2> QED BY <2>1, PanelIs, MapIdleKeeps DEF MapIdle
<1>2. ASSUME NEW l \in Locations, EditLocation(l) PROVE PagesInv'
  <2>1. PICK pin, type : Panel([at |-> l], None,
                               Draft("location", l, Over(l), page.map, pin, type, FALSE))
    BY <1>2 DEF EditLocation
  <2>2. DOMAIN Over(l) = {l} /\ Read(Over(l), server)
    BY <1>0, OverIs, PartsAre
  <2>3. DraftIs(Draft("location", l, Over(l), page.map, pin, type, FALSE), server)
    BY <2>2 DEF DraftIs, Draft
  <2> QED BY <1>2, <2>1, <2>3, PanelIs, MapIdleKeeps DEF EditLocation, MapIdle
<1>3. ASSUME NEW l \in Locations, Place(l) PROVE PagesInv'
  <2>1. PICK selected : Panel(selected, [at |-> l, base |-> Over(l)], None)
    BY <1>3 DEF Place
  <2>2. DOMAIN Over(l) = {l} /\ Read(Over(l), server)
    BY <1>0, OverIs, PartsAre
  <2>3. PlacingIs([at |-> l, base |-> Over(l)], server)
    BY <2>2 DEF PlacingIs
  <2> QED BY <1>3, <2>1, <2>3, PanelIs, MapIdleKeeps DEF Place, MapIdle
<1>4. ASSUME NEW e \in MapEvents, NEW p, OpenEvent(e, p) PROVE PagesInv'
  <2>1. Panel(None, None, Draft("event", e, Over(e), page.map, p, NoPin, FALSE))
    BY <1>4 DEF OpenEvent
  <2>2. DOMAIN Over(e) = {e} /\ Read(Over(e), server)
    BY <1>0, OverIs, PartsAre
  <2>3. DraftIs(Draft("event", e, Over(e), page.map, p, NoPin, FALSE), server)
    BY <2>2 DEF DraftIs, Draft
  <2> QED BY <1>4, <2>1, <2>3, PanelIs, MapIdleKeeps DEF OpenEvent, MapIdle
<1>5. ASSUME NEW v, NEW box, OpenView(v, box) PROVE PagesInv'
  <2> DEFINE of == IF v \in DOMAIN shown["views"].val THEN "view" ELSE "newview"
             dirty == v \notin DOMAIN shown["views"].val
  <2>1. Panel(None, None, Draft(of, v, Over("views"), page.map, NoPin, box, dirty))
    BY <1>5 DEF OpenView
  <2>2. DOMAIN Over("views") = {"views"} /\ Read(Over("views"), server)
    BY <1>0, OverIs, PartsAre
  <2>3. of \in {"view", "newview"}
    OBVIOUS
  <2> HIDE DEF of, dirty
  <2>4. DraftIs(Draft(of, v, Over("views"), page.map, NoPin, box, dirty), server)
    BY <2>2, <2>3 DEF DraftIs, Draft
  <2> QED BY <1>5, <2>1, <2>4, PanelIs, MapIdleKeeps DEF OpenView, MapIdle
<1> QED BY <1>1, <1>2, <1>3, <1>4, <1>5

\* A draft whose values are typed.
LEMMA TypedIs ==
    ASSUME NEW d, NEW s, DraftIs(d, s), NEW pin, NEW type, NEW e,
           e \in {[d EXCEPT !.pin = pin, !.type = type, !.dirty = TRUE], [d EXCEPT !.pin = pin, !.dirty = TRUE]}
    PROVE  DraftIs(e, s)
<1>1. d = [of |-> d.of, part |-> d.part, base |-> d.base, map |-> d.map, pin |-> d.pin,
           type |-> d.type, dirty |-> d.dirty]
  BY DEF DraftIs, Draft
<1>2. \/ e = Draft(d.of, d.part, d.base, d.map, pin, type, TRUE)
      \/ e = Draft(d.of, d.part, d.base, d.map, pin, d.type, TRUE)
  BY <1>1 DEF Draft
<1>3. \A t : DraftIs(Draft(d.of, d.part, d.base, d.map, pin, t, TRUE), s)
  BY DEF DraftIs, Draft
<1> QED BY <1>2, <1>3

LEMMA MapEditsKeep ==
    ASSUME PagesInv,
           \/ \E p \in Pins : ClickMap(p)
           \/ \E p \in Pins \cup {NoPin}, t \in Types \cup {NoPin} : TypeDraft(p, t)
           \/ CloseMapPanel
    PROVE  PagesInv'
<1>1. ASSUME page.kind = "map"
      PROVE  /\ page = [kind |-> "map", map |-> page.map, selected |-> page.selected,
                        placing |-> page.placing, draft |-> page.draft, error |-> page.error]
             /\ page.map \in Maps
             /\ page.draft # None => DraftIs(page.draft, server)
             /\ page.placing # None => PlacingIs(page.placing, server)
  BY <1>1 DEF PagesInv, PageIs, MapPageIs
\* A draft on the page, whatever else is open.
<1>2. ASSUME page.kind = "map", MapIdle, NEW draft, NEW placing, DraftIs(draft, server),
             placing # None => PlacingIs(placing, server),
             page' = [kind |-> "map", map |-> page.map, selected |-> page.selected,
                      placing |-> placing, draft |-> draft, error |-> page.error]
      PROVE  PagesInv'
  <2>1. MapPageIs(page', server) /\ page'.kind = "map"
    BY <1>1, <1>2 DEF MapPageIs
  <2> QED BY <1>2, <2>1, MapIdleKeeps DEF PageIs
<1>3. ASSUME NEW p, ClickMap(p) PROVE PagesInv'
  <2>1. MapIdle /\ page.kind = "map"
    BY <1>3 DEF ClickMap, MapIdle
  <2>2. CASE /\ page.draft # None
             /\ page' = [page EXCEPT !.draft.pin = p, !.draft.dirty = TRUE]
    <3> DEFINE draft == [page.draft EXCEPT !.pin = p, !.dirty = TRUE]
    <3>1. page' = [page EXCEPT !.draft = draft]
      BY <1>1, <2>1, <2>2
    <3>2. DraftIs(draft, server)
      BY <1>1, <2>1, <2>2, TypedIs
    <3> HIDE DEF draft
    <3>3. page' = [kind |-> "map", map |-> page.map, selected |-> page.selected,
                   placing |-> page.placing, draft |-> draft, error |-> page.error]
      BY <1>1, <2>1, <3>1
    <3> QED BY <1>1, <1>2, <2>1, <3>2, <3>3
  <2>3. CASE /\ page.draft = None /\ page.placing # None
             /\ ~(page.draft # None /\ page' = [page EXCEPT !.draft.pin = p, !.draft.dirty = TRUE])
    <3>1. PICK type : page' = [page EXCEPT !.placing = None,
                                 !.draft = Draft("location", page.placing.at, page.placing.base,
                                                 page.map, p, type, TRUE)]
      BY <1>3, <2>3 DEF ClickMap
    <3> DEFINE draft == Draft("location", page.placing.at, page.placing.base, page.map, p, type, TRUE)
    <3>2. DraftIs(draft, server)
      BY <1>1, <2>1, <2>3 DEF DraftIs, Draft, PlacingIs
    <3>3. page' = [page EXCEPT !.placing = None, !.draft = draft]
      BY <3>1
    <3> HIDE DEF draft
    <3>4. page' = [kind |-> "map", map |-> page.map, selected |-> page.selected,
                   placing |-> None, draft |-> draft, error |-> page.error]
      BY <1>1, <2>1, <3>3
    <3> QED BY <1>2, <2>1, <3>2, <3>4
  <2> QED BY <1>3, <2>2, <2>3 DEF ClickMap
<1>4. ASSUME NEW p, NEW t, TypeDraft(p, t) PROVE PagesInv'
  <2>1. MapIdle /\ page.kind = "map" /\ page.draft # None
    BY <1>4 DEF TypeDraft, MapIdle
  <2> DEFINE draft == [page.draft EXCEPT !.pin = p, !.type = t, !.dirty = TRUE]
  <2>2. page' = [page EXCEPT !.draft = draft]
    BY <1>1, <1>4, <2>1 DEF TypeDraft
  <2>3. DraftIs(draft, server)
    BY <1>1, <2>1, TypedIs
  <2> HIDE DEF draft
  <2>4. page' = [kind |-> "map", map |-> page.map, selected |-> page.selected,
                 placing |-> page.placing, draft |-> draft, error |-> page.error]
    BY <1>1, <2>1, <2>2
  <2> QED BY <1>1, <1>2, <2>1, <2>3, <2>4
<1>5. CASE CloseMapPanel
  <2>1. MapIdle /\ page.kind = "map" /\ page' = MapView(page.map)
    BY <1>5 DEF CloseMapPanel, MapIdle
  <2>2. MapPageIs(page', server) /\ page'.kind = "map"
    BY <1>1, <2>1 DEF MapPageIs, MapView
  <2> QED BY <2>1, <2>2, MapIdleKeeps DEF PageIs
<1> QED BY <1>3, <1>4, <1>5

LEMMA AskMapKeeps ==
    ASSUME PagesInv, NEW req, AskMap(req), MapRequestIs(req), Read(req.base, server)
    PROVE  PagesInv'
<1>1. page.kind = "map" /\ MapPageIs(page, server)
  BY DEF AskMap, PagesInv, PageIs
<1>2. page' = [kind |-> "map", map |-> page.map, selected |-> page.selected,
               placing |-> page.placing, draft |-> page.draft, error |-> FALSE]
  BY <1>1 DEF AskMap, MapPageIs
<1>3. MapPageIs(page', server) /\ page'.kind = "map"
  BY <1>1, <1>2 DEF MapPageIs
<1>4. req.kind = "map" /\ RequestIs(req, server)
  BY DEF RequestIs, MapRequestIs
<1> QED BY <1>1, <1>3, <1>4, AskKeeps DEF AskMap, PageIs

LEMMA MapSavesKeep ==
    ASSUME PagesInv, SaveDraft \/ RemovePin \/ DeleteView \/ UploadLocalMap
    PROVE  PagesInv'
<1>1. page.kind = "map" /\ MapPageIs(page, server) /\ RecordsInv
  BY DEF SaveDraft, RemovePin, DeleteView, UploadLocalMap, PagesInv, PageIs
<1>2. ASSUME NEW d, DraftIs(d, server), NEW pin, NEW drop
      PROVE  MapRequestIs(MapRequest(d, pin, drop)) /\ Read(MapRequest(d, pin, drop).base, server)
  BY <1>2 DEF DraftIs, MapRequest, MapRequestIs
<1>3. CASE SaveDraft
  BY <1>1, <1>2, <1>3, AskMapKeeps DEF SaveDraft, MapPageIs
<1>4. CASE RemovePin
  BY <1>1, <1>2, <1>4, AskMapKeeps DEF RemovePin, MapPageIs
<1>5. CASE DeleteView
  BY <1>1, <1>2, <1>5, AskMapKeeps DEF DeleteView, MapPageIs
<1>6. CASE UploadLocalMap
  <2> DEFINE req == [kind |-> "map", of |-> "image", part |-> page.map, map |-> World,
                     base |-> Over(page.map)]
  <2>1. page.map \in Locations
    BY <1>1, <1>6 DEF MapPageIs, UploadLocalMap, Maps
  <2>2. DOMAIN Over(page.map) = {page.map} /\ Read(Over(page.map), server)
    BY <1>1, <2>1, OverIs, PartsAre
  <2>3. MapRequestIs(req) /\ Read(req.base, server)
    BY <2>1, <2>2 DEF MapRequestIs
  <2> QED BY <1>6, <2>3, AskMapKeeps DEF UploadLocalMap
<1> QED BY <1>3, <1>4, <1>5, <1>6

LEMMA OthersMapKeeps == ASSUME PagesInv, OthersChangeMap PROVE PagesInv'
<1>1. page.kind = "map" /\ UNCHANGED page
  BY DEF OthersChangeMap
<1>2. OnMaps(server)
  BY <1>1 DEF PagesInv, RecordsInv
<1>3. ASSUME NEW l \in Locations, OthersStore(l, Gone) PROVE PagesInv'
  BY <1>1, <1>3, PartsAre, OthersKeep
<1>4. ASSUME NEW l \in Locations, NEW m, Exists(server[l]),
             OthersStore(l, [server[l].val EXCEPT !.map = m])
      PROVE  PagesInv'
  <2>1. "map" \in DOMAIN [server[l].val EXCEPT !.map = m]
    BY <1>2, <1>4 DEF OnMaps
  <2> QED BY <1>1, <1>4, <2>1, PartsAre, OthersKeep
<1>5. ASSUME NEW e \in MapEvents, NEW m, NEW p, Exists(server[e]),
             OthersStore(e, [server[e].val EXCEPT !.map = m, !.pin = p])
      PROVE  PagesInv'
  <2>1. "map" \in DOMAIN [server[e].val EXCEPT !.map = m, !.pin = p]
    BY <1>2, <1>5 DEF OnMaps
  <2> QED BY <1>1, <1>5, <2>1, PartsAre, OthersKeep
<1>6. ASSUME NEW views, OthersStore("views", views) PROVE PagesInv'
  BY <1>1, <1>6, PartsAre, OthersKeep
<1> QED BY <1>3, <1>4, <1>5, <1>6 DEF OthersChangeMap

LEMMA MapKeeps == ASSUME PagesInv, MapSteps PROVE PagesInv'
BY MapOpensKeep, MapEditsKeep, MapSavesKeep, OthersMapKeeps DEF MapSteps

-----------------------------------------------------------------------------
(* The timeline.                                                           *)

LEMMA TimelineStays ==
    ASSUME PagesInv, UNCHANGED <<server, shown, turn>>, page.kind = "timeline",
           TimelinePageIs(page', server)
    PROVE  PagesInv'
<1>1. page'.kind = "timeline" /\ PageIs(page', server)
  BY DEF TimelinePageIs, PageIs, BoardPage
<1>2. TurnIs(turn', page.kind, shown, server)
  BY DEF PagesInv
<1> QED BY <1>1, <1>2, PageKeeps

LEMMA OpenedIs ==
    ASSUME PagesInv, page.kind = "timeline"
    PROVE  DOMAIN Opened = Events /\ Read(Opened, server)
<1>1. TimelinePageIs(page, server)
  BY DEF PagesInv, PageIs
<1>2. DOMAIN EventsShown = Events /\ Read(EventsShown, server)
  BY PartsAre DEF EventsShown, Restrict, Read, PagesInv, RecordsInv
<1> QED BY <1>1, <1>2 DEF Opened, Drafted, TimelinePageIs

\* The board without its draft.
LEMMA NoDraftIs ==
    ASSUME NEW v, NEW s, TimelinePageIs(v, s)
    PROVE  NoDraft(v) = BoardPage(v.editing, None, <<>>, None, v.error)
<1>1. ASSUME NEW a, NEW b, NEW c, NEW d, NEW e
      PROVE  NoDraft(BoardPage(a, b, c, d, e)) = BoardPage(a, None, <<>>, None, e)
  <2> DEFINE w == NoDraft(BoardPage(a, b, c, d, e))
             empty == <<>>
  <2>1. w = [BoardPage(a, b, c, d, e) EXCEPT !.base = None, !.cols = empty, !.drag = None]
    BY DEF NoDraft
  <2>2. empty = <<>>
    OBVIOUS
  <2> HIDE DEF w, empty
  <2>3. w = BoardPage(a, None, empty, None, e)
    BY <2>1 DEF BoardPage
  <2> QED BY <2>2, <2>3 DEF w
<1> QED BY <1>1 DEF TimelinePageIs

LEMMA BoardIs ==
    ASSUME NEW s, NEW editing, NEW base, NEW cols, NEW drag, NEW error,
           base # None => DOMAIN base = Events /\ Read(base, s),
           drag # None => DOMAIN drag.base = Events /\ Read(drag.base, s)
    PROVE  TimelinePageIs(BoardPage(editing, base, cols, drag, error), s)
BY DEF BoardPage, TimelinePageIs

LEMMA TimelineEditsKeep ==
    ASSUME PagesInv,
           \/ \E e \in Events, s \in 1..MaxSession, i \in 1..Len(EventSeq) : MoveByKey(e, s, i)
           \/ \E e \in Events : DragStart(e)
           \/ \E s \in 1..MaxSession, i \in 1..Len(EventSeq) : Drop(s, i)
           \/ DragEnd \/ CancelReorder \/ ToggleEditing
    PROVE  PagesInv'
<1>1. page.kind = "timeline" /\ UNCHANGED <<server, shown, turn>>
  BY DEF MoveByKey, DragStart, Drop, DragEnd, CancelReorder, ToggleEditing, TimelineIdle
<1>2. /\ TimelinePageIs(page, server)
      /\ page.drag # None => DOMAIN page.drag.base = Events /\ Read(page.drag.base, server)
  BY <1>1 DEF PagesInv, PageIs, TimelinePageIs
<1>3. DOMAIN Opened = Events /\ Read(Opened, server)
  BY <1>1, OpenedIs
<1>4. PICK a, b, c, d, e : page = BoardPage(a, b, c, d, e)
  BY <1>2 DEF TimelinePageIs
<1>5. /\ b # None => DOMAIN b = Events /\ Read(b, server)
      /\ d # None => DOMAIN d.base = Events /\ Read(d.base, server)
  BY <1>2, <1>4 DEF TimelinePageIs, BoardPage
<1>6. PICK none : NoDraft(page) = BoardPage(a, None, none, None, e)
  <2>1. NoDraft(page) = BoardPage(a, None, <<>>, None, e)
    BY <1>2, <1>4, NoDraftIs DEF BoardPage
  <2> WITNESS <<>>
  <2> QED BY <2>1
<1>7. ASSUME NEW x, NEW s, NEW i, NEW drag, Move(x, s, i, drag),
             drag # None => DOMAIN drag.base = Events /\ Read(drag.base, server)
      PROVE  TimelinePageIs(page', server)
  <2> DEFINE plain == NoDraft(page)
             cols == Moved(Board, x, s, i)
             base == Opened
  <2>1. page' = [plain EXCEPT !.drag = drag] \/ page' = [page EXCEPT !.base = base, !.cols = cols, !.drag = drag]
    BY <1>7 DEF Move
  <2>2. plain = BoardPage(a, None, none, None, e) /\ DOMAIN base = Events /\ Read(base, server)
    BY <1>3, <1>6
  <2> HIDE DEF plain, cols, base
  <2>3. CASE page' = [plain EXCEPT !.drag = drag]
    <3>1. page' = BoardPage(a, None, none, drag, e)
      BY <2>2, <2>3 DEF BoardPage
    <3> QED BY <1>7, <3>1, BoardIs
  <2>4. CASE page' = [page EXCEPT !.base = base, !.cols = cols, !.drag = drag]
    <3>1. page' = BoardPage(a, base, cols, drag, e)
      BY <1>4, <2>4 DEF BoardPage
    <3> QED BY <1>7, <2>2, <3>1, BoardIs
  <2> QED BY <2>1, <2>3, <2>4
<1>8. ASSUME NEW x, NEW s, NEW i, MoveByKey(x, s, i) PROVE TimelinePageIs(page', server)
  BY <1>2, <1>7, <1>8 DEF MoveByKey
<1>9. ASSUME NEW drag, page' = [page EXCEPT !.drag = drag],
             drag # None => DOMAIN drag.base = Events /\ Read(drag.base, server)
      PROVE  TimelinePageIs(page', server)
  <2>1. page' = BoardPage(a, b, c, drag, e)
    BY <1>4, <1>9 DEF BoardPage
  <2> QED BY <1>5, <1>9, <2>1, BoardIs
<1>10. ASSUME NEW x, DragStart(x) PROVE TimelinePageIs(page', server)
  <2> DEFINE drag == [event |-> x, base |-> Opened]
  <2>1. page' = [page EXCEPT !.drag = drag]
    BY <1>10 DEF DragStart
  <2>2. DOMAIN drag.base = Events /\ Read(drag.base, server)
    BY <1>3
  <2> HIDE DEF drag
  <2> QED BY <1>9, <2>1, <2>2
<1>11. ASSUME NEW s, NEW i, Drop(s, i) PROVE TimelinePageIs(page', server)
  <2>1. page' = [page EXCEPT !.drag = None] \/ Move(page.drag.event, s, i, None)
    BY <1>11 DEF Drop
  <2> QED BY <1>7, <1>9, <2>1
<1>12. ASSUME DragEnd PROVE TimelinePageIs(page', server)
  BY <1>9, <1>12 DEF DragEnd
<1>13. ASSUME CancelReorder \/ ToggleEditing PROVE TimelinePageIs(page', server)
  <2> DEFINE plain == NoDraft(page)
             editing == ~plain.editing
  <2>1. plain = BoardPage(a, None, none, None, e)
    BY <1>6
  <2>2. \/ page' = [plain EXCEPT !.error = FALSE]
        \/ page' = [plain EXCEPT !.error = FALSE, !.editing = editing]
    BY <1>13 DEF CancelReorder, ToggleEditing
  <2> HIDE DEF plain, editing
  <2>3. CASE page' = [plain EXCEPT !.error = FALSE]
    <3>1. page' = BoardPage(a, None, none, None, FALSE)
      BY <2>1, <2>3 DEF BoardPage
    <3> QED BY <3>1, BoardIs
  <2>4. CASE page' = [plain EXCEPT !.error = FALSE, !.editing = editing]
    <3>1. page' = BoardPage(editing, None, none, None, FALSE)
      BY <2>1, <2>4 DEF BoardPage
    <3> QED BY <3>1, BoardIs
  <2> QED BY <2>2, <2>3, <2>4
<1>14. TimelinePageIs(page', server)
  BY <1>8, <1>10, <1>11, <1>12, <1>13
<1> QED BY <1>1, <1>14, TimelineStays

LEMMA TimelineKeeps == ASSUME PagesInv, TimelineSteps PROVE PagesInv'
<1>1. CASE SaveReorder
  <2> DEFINE req == [kind |-> "timeline", base |-> page.base, cols |-> page.cols]
  <2>1. page.kind = "timeline" /\ TimelinePageIs(page, server)
    BY <1>1 DEF SaveReorder, PagesInv, PageIs
  <2>2. page' = [page EXCEPT !.error = FALSE] /\ Ask(req) /\ UNCHANGED <<server, shown>>
    BY <1>1 DEF SaveReorder
  <2>3. TimelinePageIs(page', server)
    <3>1. PICK a, b, c, d, e : page = BoardPage(a, b, c, d, e)
      BY <2>1 DEF TimelinePageIs
    <3>2. page' = BoardPage(a, b, c, d, FALSE)
      BY <2>2, <3>1 DEF BoardPage
    <3> QED BY <2>1, <3>1, <3>2, BoardIs DEF TimelinePageIs, BoardPage
  <2>4. page'.kind = "timeline" /\ PageIs(page', server)
    BY <2>3 DEF TimelinePageIs, PageIs, BoardPage
  <2>5. DOMAIN page.base = Events /\ Read(page.base, server)
    BY <1>1, <2>1 DEF SaveReorder, Drafted, TimelinePageIs
  <2>6. RequestIs(req, server) /\ req.kind = "timeline"
    BY <2>5 DEF RequestIs
  <2> HIDE DEF req
  <2> QED BY <2>1, <2>2, <2>4, <2>6, AskKeeps
<1>2. CASE OthersChangeTimeline
  <2>1. page.kind = "timeline" /\ UNCHANGED page /\ \E e \in Events : \E val : OthersStore(e, val)
    BY <1>2 DEF OthersChangeTimeline
  <2> QED BY <2>1, PartsAre, OthersKeep
<1> QED BY <1>1, <1>2, TimelineEditsKeep DEF TimelineSteps

-----------------------------------------------------------------------------
(* Settings.                                                               *)

LEMMA VocabularyIs ==
    ASSUME NEW s, NEW editing, NEW deleting, NEW base, NEW typed, NEW error, NEW v,
           v = VocabularyPage(editing, deleting, base, typed, error),
           editing # None \/ deleting # None \/ base # None =>
             DOMAIN base = {Vocabulary} /\ Read(base, s)
    PROVE  v.kind = "vocabulary" /\ PageIs(v, s)
BY DEF VocabularyPageIs, VocabularyPage, PageIs

LEMMA VocabularyOpensKeep ==
    ASSUME PagesInv,
           \/ StartCreate \/ CancelEdit \/ CancelDelete
           \/ \E i \in Items : StartEdit(i) \/ RequestDelete(i)
           \/ \E i \in Items, t \in Texts : TypeDefinition(i, t)
    PROVE  PagesInv'
<1>1. page.kind = "vocabulary" /\ UNCHANGED <<server, shown, turn>>
  BY DEF StartCreate, CancelEdit, CancelDelete, StartEdit, RequestDelete, TypeDefinition, PageIdle
<1>2. VocabularyPageIs(page, server) /\ TurnIs(turn, page.kind, shown, server)
  BY <1>1 DEF PagesInv, PageIs
<1>3. DOMAIN Seen = {Vocabulary} /\ Read(Seen, server)
  BY PartsAre DEF Seen, Read, PagesInv, RecordsInv
<1>4. VocabularyView = VocabularyPage(None, None, None, None, FALSE)
  BY DEF VocabularyView, VocabularyPage
<1>5. ASSUME NEW editing, NEW deleting, NEW base, NEW typed, NEW error,
             page' = VocabularyPage(editing, deleting, base, typed, error),
             editing # None \/ deleting # None \/ base # None =>
               DOMAIN base = {Vocabulary} /\ Read(base, server)
      PROVE  PagesInv'
  <2>1. page'.kind = "vocabulary" /\ PageIs(page', server)
    BY <1>5, VocabularyIs
  <2> QED BY <1>1, <1>2, <2>1, PageKeeps
<1>6. ASSUME NEW editing, page' = [VocabularyView EXCEPT !.editing = editing, !.base = Seen]
      PROVE  PagesInv'
  <2> DEFINE base == Seen
  <2>1. page' = [VocabularyView EXCEPT !.editing = editing, !.base = base]
    BY <1>6
  <2>2. DOMAIN base = {Vocabulary} /\ Read(base, server)
    BY <1>3
  <2> HIDE DEF base
  <2>3. page' = VocabularyPage(editing, None, base, None, FALSE)
    BY <1>4, <2>1 DEF VocabularyPage
  <2> QED BY <1>5, <2>2, <2>3
<1>7. ASSUME NEW deleting, page' = [VocabularyView EXCEPT !.base = Seen, !.deleting = deleting]
      PROVE  PagesInv'
  <2> DEFINE base == Seen
  <2>1. page' = [VocabularyView EXCEPT !.base = base, !.deleting = deleting]
    BY <1>7
  <2>2. DOMAIN base = {Vocabulary} /\ Read(base, server)
    BY <1>3
  <2> HIDE DEF base
  <2>3. page' = VocabularyPage(None, deleting, base, None, FALSE)
    BY <1>4, <2>1 DEF VocabularyPage
  <2> QED BY <1>5, <2>2, <2>3
<1>8. CASE StartCreate
  <2>1. PICK editing : page' = [VocabularyView EXCEPT !.editing = editing, !.base = Seen]
    BY <1>8 DEF StartCreate
  <2> QED BY <1>6, <2>1
<1>9. ASSUME NEW i, StartEdit(i) PROVE PagesInv'
  <2>1. PICK editing : page' = [VocabularyView EXCEPT !.editing = editing, !.base = Seen]
    BY <1>9 DEF StartEdit
  <2> QED BY <1>6, <2>1
<1>10. ASSUME NEW i, RequestDelete(i) PROVE PagesInv'
  <2>1. PICK deleting : page' = [VocabularyView EXCEPT !.base = Seen, !.deleting = deleting]
    BY <1>10 DEF RequestDelete
  <2> QED BY <1>7, <2>1
<1>11. CASE CancelEdit \/ CancelDelete
  <2>1. page' = VocabularyPage(None, None, None, None, FALSE)
    BY <1>4, <1>11 DEF CancelEdit, CancelDelete
  <2> QED BY <1>5, <2>1
<1>12. ASSUME NEW i, NEW t, TypeDefinition(i, t) PROVE PagesInv'
  <2>1. PICK typed : page' = [page EXCEPT !.typed = typed]
    BY <1>12 DEF TypeDefinition
  <2>2. page' = VocabularyPage(page.editing, page.deleting, page.base, typed, page.error)
    BY <1>2, <2>1 DEF VocabularyPageIs, VocabularyPage
  <2>3. page.editing # None \/ page.deleting # None \/ page.base # None =>
          DOMAIN page.base = {Vocabulary} /\ Read(page.base, server)
    BY <1>2 DEF VocabularyPageIs
  <2> QED BY <1>5, <2>2, <2>3
<1> QED BY <1>8, <1>9, <1>10, <1>11, <1>12

LEMMA VocabularySavesKeep ==
    ASSUME PagesInv,
           \/ SaveDefinition \/ AddStarter
           \/ \E how \in {"reject", "clear", "replace"}, to \in Items \cup {NoItem} : DeleteDefinition(how, to)
    PROVE  PagesInv'
<1>1. page.kind = "vocabulary"
  BY DEF SaveDefinition, AddStarter, DeleteDefinition
<1>2. VocabularyPageIs(page, server)
  BY <1>1 DEF PagesInv, PageIs
<1>3. page.editing # None \/ page.deleting # None \/ page.base # None =>
        DOMAIN page.base = {Vocabulary} /\ Read(page.base, server)
  BY <1>2 DEF VocabularyPageIs
<1>4. ASSUME NEW of, NEW base, NEW item, NEW to, DOMAIN base = {Vocabulary}, Read(base, server),
             AskVocabulary(VocabularyRequest(of, base, item, to))
      PROVE  PagesInv'
  <2> DEFINE req == VocabularyRequest(of, base, item, to)
  <2>1. page' = VocabularyPage(page.editing, page.deleting, page.base, page.typed, FALSE)
    BY <1>2, <1>4 DEF AskVocabulary, VocabularyPageIs, VocabularyPage
  <2>2. page'.kind = "vocabulary" /\ PageIs(page', server)
    BY <1>3, <2>1 DEF VocabularyPageIs, VocabularyPage, PageIs
  <2>3. req.kind = "vocabulary" /\ RequestIs(req, server)
    BY <1>4 DEF RequestIs, VocabularyRequest
  <2>4. Ask(req) /\ UNCHANGED <<server, shown>>
    BY <1>4 DEF AskVocabulary
  <2> HIDE DEF req
  <2> QED BY <1>1, <2>2, <2>3, <2>4, AskKeeps
<1>5. CASE SaveDefinition
  BY <1>3, <1>4, <1>5 DEF SaveDefinition, FormDrawn
<1>6. CASE AddStarter
  <2> DEFINE base == [p \in {Vocabulary} |-> Listed]
  <2>1. Version(Listed, Vocabulary, server)
    BY <1>3, PartsAre DEF Listed, Read, PagesInv, RecordsInv
  <2>2. DOMAIN base = {Vocabulary} /\ Read(base, server)
    BY <2>1, PartsAre DEF Read
  <2>3. AskVocabulary(VocabularyRequest("starter", base, NoItem, NoItem))
    BY <1>6 DEF AddStarter
  <2> HIDE DEF base
  <2> QED BY <1>4, <2>2, <2>3
<1>7. ASSUME NEW how, NEW to, DeleteDefinition(how, to) PROVE PagesInv'
  BY <1>3, <1>4, <1>7 DEF DeleteDefinition, PanelDrawn
<1> QED BY <1>5, <1>6, <1>7

LEMMA FormIs ==
    ASSUME NEW s, NEW style, NEW base, NEW typed, NEW error, NEW v,
           v = FormPage(style, base, typed, error),
           DOMAIN base = {Form, Extra}, Read(base, s),
           typed = [q \in DOMAIN typed |-> typed[q]], DOMAIN typed \subseteq {Form, Extra}
    PROVE  v.kind = "form" /\ PageIs(v, s)
BY DEF FormPageIs, FormPage, PageIs

LEMMA FormViewIs ==
    ASSUME NEW s, NEW records, Read(records, s), DOMAIN records = Parts, NEW style, NEW v,
           v = FormView(style, records)
    PROVE  v.kind = "form" /\ PageIs(v, s)
<1> DEFINE base == Restrict(records, {Form, Extra})
           typed == <<>>
<1>1. DOMAIN base = {Form, Extra} /\ Read(base, s)
  BY PartsAre DEF Restrict, Read
<1>2. typed = [q \in DOMAIN typed |-> typed[q]] /\ DOMAIN typed \subseteq {Form, Extra}
  OBVIOUS
<1>3. v = FormPage(style, base, typed, FALSE)
  BY DEF FormView, FormPage
<1> HIDE DEF base, typed
<1> QED BY <1>1, <1>2, <1>3, FormIs

LEMMA FormStepsKeep ==
    ASSUME PagesInv,
           \/ \E p \in {Form, Extra}, t \in Texts : TypeSetting(p, t)
           \/ CancelForm \/ SaveForm
           \/ \E t \in Texts : PickSetting(t)
    PROVE  PagesInv'
<1>1. page.kind = "form" /\ UNCHANGED <<server, shown>>
  BY DEF TypeSetting, CancelForm, SaveForm, PickSetting, PageIdle, AskForm
<1>2. FormPageIs(page, server) /\ TurnIs(turn, page.kind, shown, server)
  BY <1>1 DEF PagesInv, PageIs
<1> PICK a, b, c, d : page = FormPage(a, b, c, d)
  BY <1>2 DEF FormPageIs
<1>0. /\ DOMAIN b = {Form, Extra} /\ Read(b, server)
      /\ c = [q \in DOMAIN c |-> c[q]] /\ DOMAIN c \subseteq {Form, Extra}
  BY <1>2 DEF FormPageIs, FormPage
<1>3. ASSUME NEW p \in {Form, Extra}, NEW t, TypeSetting(p, t) PROVE PagesInv'
  <2> DEFINE typed == [q \in DOMAIN page.typed \cup {p} |-> IF q = p THEN t ELSE page.typed[q]]
  <2>1. page' = [page EXCEPT !.error = FALSE, !.typed = typed] /\ turn' = turn
    BY <1>3 DEF TypeSetting, PageIdle
  <2>2. typed = [q \in DOMAIN typed |-> typed[q]] /\ DOMAIN typed \subseteq {Form, Extra}
    BY <1>2 DEF FormPageIs
  <2> HIDE DEF typed
  <2>3. page' = FormPage(a, b, typed, FALSE)
    BY <2>1 DEF FormPage
  <2>4. page'.kind = "form" /\ PageIs(page', server)
    BY <1>0, <2>2, <2>3, FormIs
  <2> QED BY <1>1, <1>2, <2>1, <2>4, PageKeeps
<1>4. CASE CancelForm
  <2>1. page' = FormView(page.style, shown) /\ turn' = turn
    BY <1>4 DEF CancelForm, PageIdle
  <2>2. page'.kind = "form" /\ PageIs(page', server)
    BY <2>1, FormViewIs DEF PagesInv, RecordsInv
  <2> QED BY <1>1, <1>2, <2>1, <2>2, PageKeeps
<1>5. ASSUME NEW vals, DOMAIN vals \subseteq {Form, Extra}, AskForm(vals) PROVE PagesInv'
  <2> DEFINE req == [kind |-> "form", base |-> Restrict(page.base, DOMAIN vals), vals |-> vals]
  <2>1. page' = FormPage(a, b, c, FALSE)
    BY <1>5 DEF AskForm, FormPage
  <2>2. page'.kind = "form" /\ PageIs(page', server)
    BY <1>0, <2>1, FormIs
  <2>3. DOMAIN Restrict(page.base, DOMAIN vals) = DOMAIN vals /\ Read(Restrict(page.base, DOMAIN vals), server)
    BY <1>2, <1>5 DEF FormPageIs, Restrict, Read
  <2>4. req.kind = "form" /\ RequestIs(req, server)
    BY <2>3 DEF RequestIs
  <2>5. Ask(req)
    BY <1>5 DEF AskForm
  <2> HIDE DEF req
  <2> QED BY <1>1, <2>2, <2>4, <2>5, AskKeeps
<1>6. CASE SaveForm
  <2>1. DOMAIN Filled \subseteq {Form, Extra}
    BY <1>2 DEF Filled, FormPageIs
  <2> QED BY <1>5, <1>6, <2>1 DEF SaveForm
<1>7. ASSUME NEW t, PickSetting(t) PROVE PagesInv'
  <2>1. AskForm([p \in {Form} |-> t])
    BY <1>7 DEF PickSetting
  <2> QED BY <1>5, <2>1
<1> QED BY <1>3, <1>4, <1>5, <1>6, <1>7

LEMMA SettingsKeep == ASSUME PagesInv, SettingsSteps PROVE PagesInv'
<1>1. CASE OthersChangeVocabulary
  <2>1. page.kind = "vocabulary" /\ UNCHANGED page
    BY <1>1 DEF OthersChangeVocabulary
  <2>2. \E p \in {Vocabulary} \cup Uses : \E val : OthersStore(p, val)
    BY <1>1 DEF OthersChangeVocabulary
  <2> QED BY <2>1, <2>2, PartsAre, OthersKeep
<1>2. CASE OthersChangeSetting
  BY <1>2, PartsAre, OthersKeep DEF OthersChangeSetting
<1> QED BY <1>1, <1>2, VocabularyOpensKeep, VocabularySavesKeep, FormStepsKeep DEF SettingsSteps

-----------------------------------------------------------------------------
(* Writes.                                                                 *)

\* What a change vouches for when it is prepared.
LEMMA PreparedVouches ==
    ASSUME RecordsInv, NEW m, NEW r, m.part \in Parts, Version(r, m.part, server),
           Revision(shown[m.part]) = Revision(r),
           m.rev \in {Revision(shown[m.part]), shown[m.part].rev}
    PROVE  Vouches(m, r, server)
<1> DEFINE s == server[m.part]
           x == shown[m.part]
<1>1. Version(s, m.part, server) /\ Version(x, m.part, server)
  BY DEF RecordsInv, Read
<1>2. r.rev \in Nat /\ x.rev \in Nat /\ s.rev \in Nat /\ r.rev <= s.rev /\ x.rev <= s.rev
  BY <1>1 DEF Version
<1>3. /\ r.rev = 0 => ~Exists(r)
      /\ x.rev = 0 => ~Exists(x)
      /\ s.rev = 0 => ~Exists(s)
      /\ r.rev = s.rev => r.val = s.val
      /\ x.rev = s.rev => x.val = s.val
  BY <1>1 DEF Version
<1>4. CASE Exists(x)
  <2>1. m.rev = x.rev /\ Revision(r) = x.rev /\ r.rev = x.rev
    BY <1>2, <1>3, <1>4 DEF Revision
  <2> QED BY <1>2, <1>3, <1>4, <2>1 DEF Vouches, Revision, Exists
<1>5. CASE ~Exists(x)
  <2>1. Revision(x) = 0 /\ Revision(r) = 0 /\ ~Exists(r)
    BY <1>2, <1>3, <1>5 DEF Revision
  <2>2. m.rev \in Nat /\ m.rev <= s.rev
    BY <1>2, <2>1
  <2>3. m.rev = s.rev => ~Exists(s)
    BY <1>3, <1>5, <2>1 DEF Exists
  <2> QED BY <2>1, <2>2, <2>3 DEF Vouches, Revision, Exists
<1> QED BY <1>4, <1>5

\* The request under way.
LEMMA RequestNow ==
    ASSUME PagesInv, turn # Idle
    PROVE  /\ RecordsInv /\ turn.req.kind = page.kind /\ RequestIs(turn.req, server)
           /\ Read(turn.req.base, server)
BY DEF PagesInv, TurnIs, RequestIs

\* A map's save is one change, of the record that was edited.
LEMMA MapChangesAre ==
    ASSUME PagesInv, NEW req, req.kind = "map", page.kind = "map", RequestIs(req, server),
           ~StaleMap(req)
    PROVE  ChangesAre(req, MapMutations(req), server)
<1>1. MapRequestIs(req) /\ Read(req.base, server) /\ RecordsInv /\ OnMaps(shown)
  BY DEF RequestIs, PagesInv, RecordsInv
<1>2. BaseHolds(req) /\ ~Elsewhere(req)
  BY DEF StaleMap
<1>3. ~Deletes(req)
  BY DEF Deletes
<1> DEFINE old == shown[req.part].val
<1>4. ASSUME NEW m, m.part \in DOMAIN req.base,
             m.rev \in {Revision(shown[m.part]), shown[m.part].rev},
             MapMutations(req) = {m},
             m.part \in Locations \cup MapEvents => "map" \in DOMAIN m.val,
             req.of \in {"location", "event"} /\ req.pin # NoPin => m.part = req.part /\ m.val.map = req.map
      PROVE  ChangesAre(req, MapMutations(req), server)
  <2>1. Vouches(m, req.base[m.part], server)
    BY <1>1, <1>2, <1>4, PreparedVouches DEF Read, BaseHolds
  <2> QED BY <1>3, <1>4, <2>1 DEF ChangesAre
<1>5. CASE req.of = "location"
  <2>1. req.part \in Locations /\ req.part \in DOMAIN req.base
    BY <1>1, <1>5 DEF MapRequestIs
  <2> DEFINE val == IF old = Gone THEN [map |-> req.map, pin |-> req.pin, type |-> req.type, img |-> 0]
                    ELSE [old EXCEPT !.pin = req.pin, !.type = req.type]
             m == Change(req.part, Revision(shown[req.part]), val)
  <2>2. MapMutations(req) = {m}
    BY <1>5 DEF MapMutations
  <2>3. "map" \in DOMAIN val /\ val.map = req.map
    <3>1. CASE old = Gone
      BY <3>1
    <3>2. CASE old # Gone
      <4>1. "map" \in DOMAIN old /\ old.map = req.map
        BY <1>1, <1>2, <1>5, <2>1, <3>2 DEF OnMaps, Elsewhere, Exists
      <4> QED BY <3>2, <4>1
    <3> QED BY <3>1, <3>2
  <2>4. m.part = req.part /\ m.rev = Revision(shown[req.part]) /\ m.val = val
    BY DEF Change
  <2> HIDE DEF m, val
  <2> QED BY <1>4, <2>1, <2>2, <2>3, <2>4
<1>6. CASE req.of = "event"
  <2>1. req.part \in MapEvents /\ req.part \in DOMAIN req.base /\ Exists(shown[req.part])
    BY <1>1, <1>6 DEF MapRequestIs, StaleMap
  <2> DEFINE val == [old EXCEPT !.pin = req.pin, !.map = IF req.pin = NoPin THEN World ELSE req.map]
             m == Change(req.part, shown[req.part].rev, val)
  <2>2. MapMutations(req) = {m}
    BY <1>6 DEF MapMutations
  <2>3. "map" \in DOMAIN val /\ (req.pin # NoPin => val.map = req.map)
    BY <1>1, <2>1 DEF OnMaps
  <2>4. m.part = req.part /\ m.rev = shown[req.part].rev /\ m.val = val
    BY DEF Change
  <2> HIDE DEF m, val
  <2> QED BY <1>4, <2>1, <2>2, <2>3, <2>4
<1>7. CASE req.of = "image"
  <2>1. req.part \in Locations /\ req.part \in DOMAIN req.base /\ Exists(shown[req.part])
    BY <1>1, <1>7 DEF MapRequestIs, StaleMap
  <2> DEFINE val == [old EXCEPT !.img = 1]
             m == Change(req.part, shown[req.part].rev, val)
  <2>2. MapMutations(req) = {m}
    BY <1>7 DEF MapMutations
  <2>3. "map" \in DOMAIN val
    BY <1>1, <2>1 DEF OnMaps
  <2>4. m.part = req.part /\ m.rev = shown[req.part].rev /\ m.val = val
    BY DEF Change
  <2> HIDE DEF m, val
  <2> QED BY <1>4, <1>7, <2>1, <2>2, <2>3, <2>4
<1>8. CASE req.of \in {"view", "newview"}
  <2>1. "views" \in DOMAIN req.base
    BY <1>1, <1>8 DEF MapRequestIs
  <2>2. PICK val : MapMutations(req) = {Change("views", shown["views"].rev, val)}
    BY <1>8 DEF MapMutations
  <2> DEFINE m == Change("views", shown["views"].rev, val)
  <2>3. m.part = "views" /\ m.rev = shown["views"].rev
    BY DEF Change
  <2> HIDE DEF m
  <2>4. MapMutations(req) = {m}
    BY <2>2 DEF m
  <2> QED BY <1>4, <1>8, <2>1, <2>3, <2>4, PartsAre
<1> QED BY <1>1, <1>5, <1>6, <1>7, <1>8 DEF MapRequestIs

LEMMA TimelineChangesAre ==
    ASSUME PagesInv, NEW req, req.kind = "timeline", RequestIs(req, server), ~StaleTimeline(req)
    PROVE  ChangesAre(req, TimelineMutations(req), server)
<1>1. Read(req.base, server) /\ RecordsInv /\ DOMAIN req.base = Events
  BY DEF RequestIs, MapRequestIs, PagesInv
<1>2. \A m \in TimelineMutations(req) : m.rev = shown[m.part].rev
  BY DEF TimelineMutations, Change
<1>3. ASSUME NEW m \in TimelineMutations(req), m.part \in DOMAIN req.base
      PROVE  Vouches(m, req.base[m.part], server)
  BY <1>1, <1>2, <1>3, PreparedVouches DEF StaleTimeline, Read
<1> QED BY <1>3 DEF ChangesAre, Deletes

LEMMA VocabularyChangesAre ==
    ASSUME PagesInv, NEW req, req.kind = "vocabulary", RequestIs(req, server),
           ~StaleVocabulary(req), ~Deletes(req)
    PROVE  ChangesAre(req, VocabularyMutations(req), server)
<1>1. Read(req.base, server) /\ RecordsInv /\ DOMAIN req.base = {Vocabulary}
  BY DEF RequestIs, MapRequestIs, PagesInv
<1>2. \A m \in VocabularyMutations(req) : m.part = Vocabulary /\ m.rev = Revision(shown[m.part])
  BY DEF VocabularyMutations, Change
<1>3. ASSUME NEW m \in VocabularyMutations(req) PROVE Vouches(m, req.base[m.part], server)
  BY <1>1, <1>2, <1>3, PreparedVouches DEF StaleVocabulary, Read
<1> QED BY <1>3 DEF ChangesAre

LEMMA FormChangesAre ==
    ASSUME PagesInv, NEW req, req.kind = "form", RequestIs(req, server), ~StaleForm(req)
    PROVE  ChangesAre(req, FormMutations(req), server)
<1>1. Read(req.base, server) /\ RecordsInv /\ DOMAIN req.base = DOMAIN req.vals
  BY DEF RequestIs, MapRequestIs, PagesInv
<1>2. \A m \in FormMutations(req) : m.part \in DOMAIN req.vals /\ m.rev = Revision(shown[m.part])
  BY DEF FormMutations, Change
<1>3. ASSUME NEW m \in FormMutations(req) PROVE Vouches(m, req.base[m.part], server)
  BY <1>1, <1>2, <1>3, PreparedVouches DEF StaleForm, Read
<1> QED BY <1>3 DEF ChangesAre, Deletes

\* A request that is refused, and one that is sent.
LEMMA RefuseKeeps ==
    ASSUME PagesInv, NEW answer, answer # "ok", Refuse(answer), UNCHANGED page
    PROVE  PagesInv'
<1>1. turn # Idle /\ UNCHANGED <<server, shown>>
  BY DEF Refuse, Idle
<1>2. turn' = [phase |-> "answered", req |-> turn.req, answer |-> answer, muts |-> {}]
  BY DEF Refuse, Answered
<1>3. TurnIs(turn', page.kind, shown, server)
  BY <1>1, <1>2, RequestNow DEF TurnIs
<1> QED BY <1>1, <1>3, PageKeeps DEF PagesInv

LEMMA SendKeeps ==
    ASSUME PagesInv, NEW muts, Send(muts), ChangesAre(turn.req, muts, server), UNCHANGED page
    PROVE  PagesInv'
<1>1. turn # Idle /\ UNCHANGED <<server, shown>>
  BY DEF Send, Idle
<1>2. \/ turn' = [phase |-> "answered", req |-> turn.req, answer |-> "ok", muts |-> {}]
      \/ turn' = [phase |-> "sent", req |-> turn.req, muts |-> muts]
  BY DEF Send, Answered
<1>3. Includes(shown, {})
  BY DEF Includes
<1>4. TurnIs(turn', page.kind, shown, server)
  BY <1>1, <1>2, <1>3, RequestNow DEF TurnIs
<1> QED BY <1>1, <1>4, PageKeeps DEF PagesInv

LEMMA PrepareKeeps == ASSUME PagesInv, Prepare PROVE PagesInv'
<1> DEFINE req == turn.req
<1>1. turn # Idle /\ turn.phase = "asked" /\ UNCHANGED page
  BY DEF Prepare, Idle
<1>2. req.kind = page.kind /\ RequestIs(req, server)
  BY <1>1, RequestNow
<1>3. ASSUME NEW answer \in {"conflict", "failed"}, Refuse(answer) PROVE PagesInv'
  BY <1>1, <1>3, RefuseKeeps
<1>4. CASE req.kind = "map"
  <2>1. Refuse("conflict") \/ (~StaleMap(req) /\ Send(MapMutations(req)))
    BY <1>4 DEF Prepare
  <2> QED BY <1>1, <1>2, <1>3, <1>4, <2>1, MapChangesAre, SendKeeps
<1>5. CASE req.kind = "timeline"
  <2>1. Refuse("conflict") \/ (~StaleTimeline(req) /\ Send(TimelineMutations(req)))
    BY <1>5 DEF Prepare
  <2> QED BY <1>1, <1>2, <1>3, <1>5, <2>1, TimelineChangesAre, SendKeeps
<1>6. CASE req.kind = "form"
  <2>1. Refuse("conflict") \/ (~StaleForm(req) /\ Send(FormMutations(req)))
    BY <1>6 DEF Prepare
  <2> QED BY <1>1, <1>2, <1>3, <1>6, <2>1, FormChangesAre, SendKeeps
<1>7. CASE req.kind = "vocabulary"
  <2>1. \/ Refuse("conflict") \/ Refuse("failed")
        \/ Deletes(req) /\ SendDeletion
        \/ ~StaleVocabulary(req) /\ ~Deletes(req) /\ Send(VocabularyMutations(req))
    BY <1>7 DEF Prepare
  <2>2. CASE Deletes(req) /\ SendDeletion
    <3>1. turn' = [phase |-> "host", req |-> req] /\ UNCHANGED <<server, shown>>
      BY <2>2 DEF SendDeletion
    <3>2. TurnIs(turn', page.kind, shown, server)
      BY <1>2, <2>2, <3>1 DEF TurnIs
    <3> QED BY <1>1, <3>1, <3>2, PageKeeps DEF PagesInv
  <2> QED BY <1>1, <1>2, <1>3, <1>7, <2>1, <2>2, VocabularyChangesAre, SendKeeps
<1> QED BY <1>2, <1>4, <1>5, <1>6, <1>7 DEF RequestIs, MapRequestIs

LEMMA HostKeeps == ASSUME PagesInv, HostPlansDeletion, UNCHANGED page PROVE PagesInv'
<1> DEFINE req == turn.req
           used == UsesOf(req.item)
           left == Restrict(server[Vocabulary].val, DOMAIN server[Vocabulary].val \ {req.item})
           muts == {Change(Vocabulary, server[Vocabulary].rev, left)} \cup
                   {Change(u, server[u].rev, IF ByKey THEN Gone ELSE req.to) : u \in used}
<1>1. turn # Idle /\ turn.phase = "host" /\ UNCHANGED <<server, shown>>
  BY DEF HostPlansDeletion, Idle
<1>2. /\ RecordsInv /\ req.kind = page.kind /\ RequestIs(req, server) /\ Read(req.base, server)
      /\ Deletes(req)
  BY <1>1, RequestNow DEF PagesInv, TurnIs
<1>3. \/ turn' = [phase |-> "answered", req |-> req, answer |-> "conflict", muts |-> {}]
      \/ /\ turn' = [phase |-> "sent", req |-> req, muts |-> muts]
         /\ Revision(server[Vocabulary]) = req.base[Vocabulary].rev
  BY DEF HostPlansDeletion, Answered
<1>4. ASSUME Revision(server[Vocabulary]) = req.base[Vocabulary].rev
      PROVE  ChangesAre(req, muts, server)
  <2>1. req.kind = "vocabulary" /\ DOMAIN req.base = {Vocabulary}
    BY <1>2 DEF Deletes, RequestIs, MapRequestIs
  <2>2. \A p \in Parts : Version(server[p], p, server)
    BY <1>2 DEF RecordsInv, Read
  <2>3. ASSUME NEW m \in muts
        PROVE  /\ m.rev = server[m.part].rev
               /\ m.part = Vocabulary \/ m.part \in used
    BY DEF Change
  <2> HIDE DEF muts
  <2>4. ASSUME NEW m \in muts, m.part = Vocabulary
        PROVE  Vouches(m, req.base[m.part], server)
    <3>1. Version(req.base[Vocabulary], Vocabulary, server) /\ Version(server[Vocabulary], Vocabulary, server)
      BY <1>2, <2>1, <2>2, PartsAre DEF Read
    <3> QED BY <1>4, <2>3, <2>4, <3>1 DEF Vouches, Version, Revision, Exists
  <2>5. ASSUME NEW m \in muts, m.part \in Uses
        PROVE  ForUse(m, req.item, server)
    <3>1. m.part \in used /\ m.rev = server[m.part].rev
      BY <2>3, <2>5, PartsAre
    <3>2. Version(server[m.part], m.part, server)
      BY <2>2, <2>5, PartsAre
    <3> QED BY <3>1, <3>2 DEF ForUse, UsesOf, Version
  <2> QED BY <2>1, <2>4, <2>5 DEF ChangesAre
<1> HIDE DEF muts
<1>5. TurnIs(turn', page.kind, shown, server)
  <2>1. CASE turn' = [phase |-> "answered", req |-> req, answer |-> "conflict", muts |-> {}]
    BY <1>2, <2>1 DEF TurnIs
  <2>2. CASE /\ turn' = [phase |-> "sent", req |-> req, muts |-> muts]
             /\ Revision(server[Vocabulary]) = req.base[Vocabulary].rev
    BY <1>2, <1>4, <2>2 DEF TurnIs
  <2> QED BY <1>3, <2>1, <2>2
<1> QED BY <1>1, <1>5, PageKeeps DEF PagesInv

\* The server with the changes that were sent.
LEMMA CommitIs ==
    ASSUME PagesInv, Commits, server' = Applied(turn.muts)
    PROVE  /\ Grows(server, server')
           /\ page.kind = "map" => OnMaps(server')
<1>1. turn # Idle /\ turn.phase = "sent"
  BY DEF Commits, Idle
<1>2. RecordsInv /\ turn.req.kind = page.kind /\ ChangesAre(turn.req, turn.muts, server)
  BY <1>1 DEF PagesInv, TurnIs
<1>3. Grows(server, server')
  BY <1>2, AppliedIs
<1>4. ASSUME page.kind = "map", NEW p \in Locations \cup MapEvents, Exists(server'[p])
      PROVE  "map" \in DOMAIN server'[p].val
  <2>1. \/ server'[p] = server[p]
        \/ \E m \in turn.muts : m.part = p /\ server'[p] = [rev |-> server[p].rev + 1, val |-> m.val]
    BY <1>2, <1>4, AppliedIs, PartsAre
  <2>2. CASE server'[p] = server[p]
    BY <1>2, <1>4, <2>2 DEF RecordsInv, OnMaps
  <2>3. ASSUME NEW m \in turn.muts, m.part = p, server'[p] = [rev |-> server[p].rev + 1, val |-> m.val]
        PROVE  "map" \in DOMAIN server'[p].val
    BY <1>2, <1>4, <2>3 DEF ChangesAre
  <2> QED BY <2>1, <2>2, <2>3
<1> QED BY <1>3, <1>4 DEF OnMaps

LEMMA TransportKeeps == ASSUME PagesInv, TransportSteps PROVE PagesInv'
<1>0. UNCHANGED page
  BY DEF TransportSteps
<1>1. CASE ServerCommits
  <2>1. Commits /\ server' = Applied(turn.muts) /\ UNCHANGED shown
    BY <1>1 DEF ServerCommits
  <2>2. turn' = [phase |-> "written", req |-> turn.req, muts |-> turn.muts] /\ turn # Idle
    BY <1>1 DEF ServerCommits, Commits, Idle
  <2>3. TurnIs(turn', page.kind, shown, server)
    BY <2>2, RequestNow DEF TurnIs
  <2> QED BY <1>0, <2>1, <2>3, CommitIs, StoreKeeps
<1>2. CASE ServerConflicts
  <2>1. turn' = [phase |-> "answered", req |-> turn.req, answer |-> "conflict", muts |-> {}]
    BY <1>2 DEF ServerConflicts, Answered
  <2>2. turn # Idle /\ UNCHANGED <<server, shown>>
    BY <1>2 DEF ServerConflicts, Idle
  <2>3. TurnIs(turn', page.kind, shown, server)
    BY <2>1, <2>2, RequestNow DEF TurnIs
  <2> QED BY <1>0, <2>2, <2>3, PageKeeps DEF PagesInv
<1>3. CASE RequestFails
  <2>1. turn' = [phase |-> "answered", req |-> turn.req, answer |-> "failed", muts |-> {}]
    BY <1>3 DEF RequestFails, Answered
  <2>2. turn # Idle /\ UNCHANGED shown
    BY <1>3 DEF RequestFails, Idle
  <2>3. TurnIs(turn', page.kind, shown, server)
    BY <2>1, <2>2, RequestNow DEF TurnIs
  <2>4. CASE Commits /\ server' = Applied(turn.muts)
    BY <1>0, <2>2, <2>3, <2>4, CommitIs, StoreKeeps
  <2>5. CASE UNCHANGED server
    BY <1>0, <2>2, <2>3, <2>5, PageKeeps DEF PagesInv
  <2> QED BY <1>3, <2>4, <2>5 DEF RequestFails
<1>4. CASE ReadBack
  <2>1. turn # Idle /\ shown' \in {server, shown} /\ UNCHANGED server
    BY <1>4 DEF ReadBack, Idle
  <2>2. PICK answer : /\ turn' = [phase |-> "answered", req |-> turn.req, answer |-> answer, muts |-> turn.muts]
                      /\ answer = "ok" => Includes(shown', turn.muts)
    BY <1>4 DEF ReadBack, Answered
  <2>3. TurnIs(turn', page.kind, shown', server)
    BY <2>1, <2>2, RequestNow DEF TurnIs
  <2> QED BY <1>0, <2>1, <2>3 DEF PagesInv, RecordsInv
<1>5. CASE HostPlansDeletion
  BY <1>0, <1>5, HostKeeps
<1> QED BY <1>1, <1>2, <1>3, <1>4, <1>5 DEF TransportSteps

-----------------------------------------------------------------------------
(* The pages as they open, hear and are refreshed.                         *)

LEMMA FreshIs ==
    ASSUME DOMAIN shown = Parts, Read(shown, server),
           NEW k \in {"map", "timeline", "vocabulary", "form"}, NEW v \in Fresh(k)
    PROVE  v.kind = k /\ PageIs(v, server)
<1>1. CASE k = "map"
  <2>1. PICK m \in Maps : v = MapView(m)
    BY <1>1 DEF Fresh
  <2> QED BY <1>1, <2>1 DEF MapView, MapPageIs, PageIs
<1>2. CASE k = "timeline"
  <2> DEFINE cols == <<>>
  <2>1. v = BoardPage(FALSE, None, cols, None, FALSE)
    BY <1>2 DEF Fresh, TimelineView, BoardPage
  <2> HIDE DEF cols
  <2>2. TimelinePageIs(v, server) /\ v.kind = "timeline"
    BY <2>1 DEF TimelinePageIs, BoardPage
  <2> QED BY <1>2, <2>2 DEF PageIs
<1>3. CASE k = "vocabulary"
  <2>1. v = VocabularyPage(None, None, None, None, FALSE)
    BY <1>3 DEF Fresh, VocabularyView, VocabularyPage
  <2> QED BY <1>3, <2>1, VocabularyIs
<1>4. CASE k = "form"
  <2>1. PICK style : v = FormView(style, shown)
    BY <1>4 DEF Fresh
  <2> QED BY <1>4, <2>1, FormViewIs
<1> QED BY <1>1, <1>2, <1>3, <1>4

LEMMA HearKeeps == ASSUME PagesInv, Hear PROVE PagesInv'
<1> DEFINE ok == turn.answer = "ok"
<1>1. turn' = Idle /\ UNCHANGED <<server, shown>> /\ PageIs(page, server)
  BY DEF Hear, PagesInv
<1>2. ASSUME PageIs(page', server), page'.kind = page.kind PROVE PagesInv'
  <2>1. TurnIs(turn', page.kind, shown, server)
    BY <1>1 DEF TurnIs
  <2> QED BY <1>1, <1>2, <2>1, PageKeeps
<1>3. CASE page.kind = "map"
  <2>1. MapPageIs(page, server)
    BY <1>1, <1>3 DEF PageIs
  <2>2. \/ page' = [page EXCEPT !.draft = None, !.placing = None]
        \/ page' = [page EXCEPT !.error = TRUE]
    BY <1>3 DEF Hear, MapHears
  <2> PICK a, b, c, d, e :
        page = [kind |-> "map", map |-> a, selected |-> b, placing |-> c, draft |-> d, error |-> e]
    BY <2>1 DEF MapPageIs
  <2>3. CASE page' = [page EXCEPT !.draft = None, !.placing = None]
    <3>1. page' = [kind |-> "map", map |-> a, selected |-> b, placing |-> None, draft |-> None,
                   error |-> e]
      BY <2>3
    <3> QED BY <1>2, <1>3, <2>1, <3>1 DEF MapPageIs, PageIs
  <2>4. CASE page' = [page EXCEPT !.error = TRUE]
    <3>1. page' = [kind |-> "map", map |-> a, selected |-> b, placing |-> c, draft |-> d,
                   error |-> TRUE]
      BY <2>4
    <3> QED BY <1>2, <1>3, <2>1, <3>1 DEF MapPageIs, PageIs
  <2> QED BY <2>2, <2>3, <2>4
<1>4. CASE page.kind = "timeline"
  <2>1. TimelinePageIs(page, server)
    BY <1>1, <1>4 DEF PageIs
  <2>2. page' = NoDraft(page) \/ page' = [page EXCEPT !.error = TRUE]
    BY <1>4 DEF Hear, TimelineHears
  <2> DEFINE cols == <<>>
  <2>3. NoDraft(page) = BoardPage(page.editing, None, cols, None, page.error)
    BY <2>1, NoDraftIs
  <2> HIDE DEF cols
  <2>4. TimelinePageIs(page', server)
    <3>1. CASE page' = NoDraft(page)
      BY <2>3, <3>1, BoardIs
    <3>2. CASE page' = [page EXCEPT !.error = TRUE]
      <4>1. PICK a, b, c, d, e : page = BoardPage(a, b, c, d, e)
        BY <2>1 DEF TimelinePageIs
      <4>2. page' = BoardPage(a, b, c, d, TRUE)
        BY <3>2, <4>1 DEF BoardPage
      <4> QED BY <2>1, <4>1, <4>2, BoardIs DEF TimelinePageIs, BoardPage
    <3> QED BY <2>2, <3>1, <3>2
  <2> QED BY <1>2, <1>4, <2>4 DEF TimelinePageIs, BoardPage, PageIs
<1>5. CASE page.kind = "vocabulary"
  <2>1. VocabularyPageIs(page, server)
    BY <1>1, <1>5 DEF PageIs
  <2>2. page' = [page EXCEPT !.error = TRUE] \/ page' = page \/ page' = VocabularyView
    BY <1>5 DEF Hear, VocabularyHears
  <2>3. CASE page' = [page EXCEPT !.error = TRUE]
    <3>1. PICK a, b, c, d, e : page = VocabularyPage(a, b, c, d, e)
      BY <2>1 DEF VocabularyPageIs
    <3>2. a # None \/ b # None \/ c # None => DOMAIN c = {Vocabulary} /\ Read(c, server)
      BY <2>1, <3>1 DEF VocabularyPageIs, VocabularyPage
    <3>3. page' = VocabularyPage(a, b, c, d, TRUE)
      BY <2>3, <3>1 DEF VocabularyPage
    <3> QED BY <1>2, <1>5, <3>2, <3>3, VocabularyIs
  <2>4. CASE page' = page
    BY <1>1, <1>2, <2>4
  <2>5. CASE page' = VocabularyView
    <3>1. page' = VocabularyPage(None, None, None, None, FALSE)
      BY <2>5 DEF VocabularyView, VocabularyPage
    <3> QED BY <1>2, <1>5, <3>1, VocabularyIs
  <2> QED BY <2>2, <2>3, <2>4, <2>5
<1>6. CASE page.kind = "form"
  <2>1. FormPageIs(page, server)
    BY <1>1, <1>6 DEF PageIs
  <2>2. page' = FormView(page.style, shown) \/ page' = [page EXCEPT !.error = TRUE]
    BY <1>6 DEF Hear, FormHears
  <2>3. CASE page' = FormView(page.style, shown)
    <3>1. page'.kind = "form" /\ PageIs(page', server)
      BY <2>3, FormViewIs DEF PagesInv, RecordsInv
    <3> QED BY <1>2, <1>6, <3>1
  <2>4. CASE page' = [page EXCEPT !.error = TRUE]
    <3>1. PICK a, b, c, d : page = FormPage(a, b, c, d)
      BY <2>1 DEF FormPageIs
    <3>2. /\ DOMAIN b = {Form, Extra} /\ Read(b, server)
          /\ c = [q \in DOMAIN c |-> c[q]] /\ DOMAIN c \subseteq {Form, Extra}
      BY <2>1, <3>1 DEF FormPageIs, FormPage
    <3>3. page' = FormPage(a, b, c, TRUE)
      BY <2>4, <3>1 DEF FormPage
    <3> QED BY <1>2, <1>6, <3>2, <3>3, FormIs
  <2> QED BY <2>2, <2>3, <2>4
<1> QED BY <1>1, <1>3, <1>4, <1>5, <1>6 DEF PageIs

LEMMA RefreshKeeps == ASSUME PagesInv, PageRefreshes PROVE PagesInv'
<1>1. shown' = server /\ turn.phase # "answered" /\ UNCHANGED <<server, turn>> /\ RecordsInv
  BY DEF PageRefreshes, Refresh, PagesInv
<1>2. RecordsInv /\ Read(shown', server) /\ DOMAIN shown' = Parts
  BY <1>1 DEF RecordsInv
<1>3. TurnIs(turn, page.kind, shown', server)
  BY <1>1 DEF PagesInv, TurnIs
<1>4. page' = page \/ (page.kind = "form" /\ page' = FormView(page.style, shown'))
  BY DEF PageRefreshes, FormShows
<1>5. PageIs(page', server) /\ page'.kind = page.kind
  <2>1. CASE page' = page
    BY <2>1 DEF PagesInv
  <2>2. CASE page.kind = "form" /\ page' = FormView(page.style, shown')
    BY <1>2, <2>2, FormViewIs
  <2> QED BY <1>4, <2>1, <2>2
<1> QED BY <1>1, <1>2, <1>3, <1>5 DEF PagesInv, RecordsInv

LEMMA PagesInit == ASSUME Init PROVE PagesInv
<1>1. server = Stored /\ shown = Stored /\ turn = Idle
  BY DEF Init
<1>2. DOMAIN server = Parts /\ Read(server, server) /\ Read(shown, server)
  BY <1>1, CampaignAssumption DEF Read, Version
<1>3. OnMaps(server) /\ OnMaps(shown)
  BY <1>1, CampaignAssumption DEF OnMaps
<1>4. PICK k \in {"map", "timeline", "vocabulary", "form"} : page \in Fresh(k)
  BY CampaignAssumption DEF Init
<1>5. PageIs(page, server)
  BY <1>1, <1>2, <1>4, FreshIs
<1> QED BY <1>1, <1>2, <1>3, <1>5 DEF PagesInv, RecordsInv, TurnIs

LEMMA PagesHold == ASSUME PagesInv, [Next]_vars PROVE PagesInv'
<1>1. CASE UNCHANGED vars
  BY <1>1 DEF vars, PagesInv, RecordsInv
<1>2. CASE Navigate
  <2>1. UNCHANGED <<server, shown, turn>> /\ page' \in Fresh(page.kind)
    BY <1>2 DEF Navigate
  <2>2. page.kind \in {"map", "timeline", "vocabulary", "form"}
    BY DEF PagesInv, PageIs
  <2>3. page'.kind = page.kind /\ PageIs(page', server)
    BY <2>1, <2>2, FreshIs DEF PagesInv, RecordsInv
  <2> QED BY <2>1, <2>3, PageKeeps DEF PagesInv
<1>3. CASE Unavailable
  BY <1>3, RefuseKeeps DEF Unavailable
<1> QED BY <1>1, <1>2, <1>3, MapKeeps, TimelineKeeps, SettingsKeep, PrepareKeeps, TransportKeeps,
           HearKeeps, RefreshKeeps DEF Next

-----------------------------------------------------------------------------
(* What a stored write replaces.                                           *)

\* Only a commit of what was sent changes stored records and the write at once.
LEMMA StoresCommits ==
    ASSUME [Next]_vars, Stores
    PROVE  Commits /\ server' = Applied(turn.muts)
<1>1. server' # server /\ turn' # turn
  BY DEF Stores
<1>2. CASE TransportSteps
  BY <1>1, <1>2 DEF TransportSteps, ServerCommits, ServerConflicts, RequestFails, ReadBack, HostPlansDeletion
<1>3. CASE MapSteps
  BY <1>1, <1>3 DEF MapSteps, MapIdle, Select, EditLocation, Place, ClickMap, OpenEvent, OpenView,
     TypeDraft, CloseMapPanel, SaveDraft, RemovePin, DeleteView, UploadLocalMap, AskMap,
     OthersChangeMap, OthersStore
<1>4. CASE TimelineSteps
  BY <1>1, <1>4 DEF TimelineSteps, TimelineIdle, MoveByKey, DragStart, Drop, DragEnd, CancelReorder,
     ToggleEditing, SaveReorder, OthersChangeTimeline, OthersStore
<1>5. CASE SettingsSteps
  BY <1>1, <1>5 DEF SettingsSteps, PageIdle, StartCreate, CancelEdit, CancelDelete, SaveDefinition,
     AddStarter, StartEdit, RequestDelete, TypeDefinition, DeleteDefinition, AskVocabulary,
     OthersChangeVocabulary, TypeSetting, CancelForm, SaveForm, PickSetting, AskForm,
     OthersChangeSetting, OthersStore
<1>6. CASE Prepare
  BY <1>1, <1>6 DEF Prepare, Stores
<1>7. CASE Navigate \/ Unavailable \/ Hear \/ PageRefreshes \/ UNCHANGED vars
  BY <1>1, <1>7 DEF Navigate, Unavailable, Refuse, Hear, PageRefreshes, Refresh, vars
<1> QED BY <1>2, <1>3, <1>4, <1>5, <1>6, <1>7 DEF Next

LEMMA NextStoresAsSeen ==
    ASSUME PagesInv, [Next]_vars, Stores
    PROVE  NothingUnseenIsReplaced /\ CascadesAreGuarded /\ PinsStayOnTheirMap
<1> DEFINE req == turn.req
           muts == turn.muts
<1>1. Commits /\ server' = Applied(muts)
  BY StoresCommits
<1>2. turn # Idle /\ turn.phase = "sent" /\ \A m \in muts : server[m.part].rev = m.rev
  BY <1>1 DEF Commits, Current, Idle
<1>3. RecordsInv /\ RequestIs(req, server) /\ Read(req.base, server) /\ ChangesAre(req, muts, server)
  BY <1>2, RequestNow DEF PagesInv, TurnIs
<1>4. ASSUME NEW p \in Parts
      PROVE  \/ server'[p] = server[p] /\ ~\E m \in muts : m.part = p
             \/ \E m \in muts : m.part = p /\ server'[p] = [rev |-> server[p].rev + 1, val |-> m.val]
  BY <1>1, <1>3, AppliedIs
<1>5. NothingUnseenIsReplaced
  <2> SUFFICES ASSUME NEW p \in DOMAIN req.base, server'[p] # server[p]
               PROVE  /\ server[p].val = req.base[p].val
                      /\ Revision(server[p]) = Revision(req.base[p])
    BY DEF NothingUnseenIsReplaced
  <2>1. PICK m \in muts : m.part = p
    BY <1>3, <1>4 DEF Read
  <2>2. Vouches(m, req.base[p], server)
    BY <1>3, <2>1 DEF ChangesAre
  <2> QED BY <1>2, <2>1, <2>2 DEF Vouches
<1>6. CascadesAreGuarded
  <2> SUFFICES ASSUME Deletes(req), NEW u \in Uses, server'[u] # server[u]
               PROVE  server[u].val = req.item
    BY DEF CascadesAreGuarded
  <2>1. PICK m \in muts : m.part = u
    BY <1>4, PartsAre
  <2>2. ForUse(m, req.item, server)
    BY <1>3, <2>1 DEF ChangesAre
  <2> QED BY <1>2, <2>1, <2>2 DEF ForUse
<1>7. PinsStayOnTheirMap
  <2> SUFFICES ASSUME req.kind = "map", req.of \in {"location", "event"}, req.pin # NoPin
               PROVE  server'[req.part].val.map = req.map
    BY DEF PinsStayOnTheirMap
  <2>1. PICK m \in muts : muts = {m} /\ m.part = req.part /\ m.val.map = req.map
    BY <1>3 DEF ChangesAre
  <2>2. req.part \in Parts
    BY <1>3, PartsAre DEF RequestIs, MapRequestIs
  <2>3. server'[req.part] = [rev |-> server[req.part].rev + 1, val |-> m.val]
    BY <1>4, <2>1, <2>2
  <2> QED BY <2>1, <2>3
<1> QED BY <1>5, <1>6, <1>7

-----------------------------------------------------------------------------
(* The columns of the timeline: sorted, moved in, and renumbered.          *)

\* Events that exist are ordered by numbers.
Orders(f) == \A e \in Events : Exists(f[e]) => f[e].val.order \in Int

LEMMA EarlierOrders ==
    ASSUME NEW records, Orders(records), NEW S, S \subseteq Events, \A e \in S : Exists(records[e])
    PROVE  \A d, e \in S :
             /\ d = e \/ Earlier(records, d, e) \/ Earlier(records, e, d)
             /\ Earlier(records, d, e) => d # e /\ ~Earlier(records, e, d)
             /\ \A f \in S : Earlier(records, d, e) /\ Earlier(records, e, f) => Earlier(records, d, f)
<1> DEFINE Rank(x) == CHOOSE i \in DOMAIN EventSeq : EventSeq[i] = x
<1>1. \A x \in S : Rank(x) \in DOMAIN EventSeq /\ EventSeq[Rank(x)] = x
  BY DEF Events, ToSet
<1>2. DOMAIN EventSeq \subseteq Int
  BY TimelineAssumption
<1>3. ASSUME NEW d, NEW e
      PROVE  Earlier(records, d, e) <=>
               \/ records[d].val.order < records[e].val.order
               \/ records[d].val.order = records[e].val.order /\ Rank(d) < Rank(e)
  BY DEF Earlier
<1>4. \A d \in S : records[d].val.order \in Int
  BY DEF Orders
<1> HIDE DEF Rank
<1> SUFFICES ASSUME NEW d \in S, NEW e \in S, NEW f \in S
             PROVE  /\ d = e \/ Earlier(records, d, e) \/ Earlier(records, e, d)
                    /\ Earlier(records, d, e) => d # e /\ ~Earlier(records, e, d)
                    /\ Earlier(records, d, e) /\ Earlier(records, e, f) => Earlier(records, d, f)
  OBVIOUS
<1>5. \A x \in {d, e, f} : Rank(x) \in Int /\ records[x].val.order \in Int
  BY <1>1, <1>2, <1>4
<1>6. Rank(d) = Rank(e) => d = e
  BY <1>1
<1> QED BY <1>3, <1>5, <1>6

\* The events of a session can be sorted, and only in one way.
LEMMA ColumnIs ==
    ASSUME NEW records, Orders(records), NEW s
    PROVE  /\ Column(records, s) \in Seq(Events)
           /\ \A e : e \in InSession(records, s) <=> \E i \in DOMAIN Column(records, s) : Column(records, s)[i] = e
           /\ \A i, j \in DOMAIN Column(records, s) :
                 i < j => Earlier(records, Column(records, s)[i], Column(records, s)[j])
<1> DEFINE S == InSession(records, s)
           n == Cardinality(S)
           Less(d, e) == Earlier(records, d, e)
           sorted(col) == \A i, j \in DOMAIN col : i < j => Less(col[i], col[j])
           col == Column(records, s)
<1>1. S \subseteq Events /\ \A e \in S : Exists(records[e])
  BY DEF InSession
<1>2. IsFiniteSet(S) /\ n \in Nat /\ Cardinality(1..n) = n /\ IsFiniteSet(1..n)
  <2>1. IsFiniteSet(Events)
    BY PartsAssumption, TimelineAssumption, FS_Subset DEF Events, ToSet
  <2>2. IsFiniteSet(S) /\ n \in Nat
    BY <1>1, <2>1, FS_Subset, FS_CardinalityType
  <2> HIDE DEF n
  <2>3. IsFiniteSet(1..n) /\ Cardinality(1..n) = IF 1 > n THEN 0 ELSE n - 1 + 1
    BY <2>2, FS_Interval
  <2> QED BY <2>2, <2>3
<1>3. \A d, e \in S :
         /\ d = e \/ Less(d, e) \/ Less(e, d)
         /\ Less(d, e) => d # e /\ ~Less(e, d)
         /\ \A f \in S : Less(d, e) /\ Less(e, f) => Less(d, f)
  BY <1>1, EarlierOrders
<1>4. col = CHOOSE c \in [1..n -> S] : sorted(c)
  BY DEF Column
<1> HIDE DEF S, n, Less, col
<1>5. \E c \in [1..n -> S] : sorted(c)
  <2> DEFINE before(e) == {d \in S : Less(d, e)}
             rank == [e \in S |-> Cardinality(before(e)) + 1]
  <2>1. ASSUME NEW e \in S
        PROVE  IsFiniteSet(before(e)) /\ Cardinality(before(e)) \in Nat /\ Cardinality(before(e)) < n
    <3>1. before(e) \subseteq S /\ e \notin before(e)
      BY <1>3
    <3>2. IsFiniteSet(before(e)) /\ Cardinality(before(e)) \in Nat /\ Cardinality(before(e)) <= n
          /\ (n = Cardinality(before(e)) => S = before(e))
      BY <1>2, <3>1, FS_Subset, FS_CardinalityType DEF n
    <3> HIDE DEF before
    <3> QED BY <1>2, <2>1, <3>1, <3>2
  <2>2. ASSUME NEW d \in S, NEW e \in S, Less(d, e) PROVE Cardinality(before(d)) < Cardinality(before(e))
    <3>1. before(d) \subseteq before(e) /\ d \in before(e) /\ d \notin before(d)
      BY <1>3, <2>2
    <3>2. Cardinality(before(d)) <= Cardinality(before(e)) /\ Cardinality(before(d)) # Cardinality(before(e))
      BY <2>1, <3>1, FS_Subset
    <3> HIDE DEF before
    <3> QED BY <2>1, <3>2
  <2>3. \A e \in S : rank[e] \in 1..n
    <3> SUFFICES ASSUME NEW e \in S PROVE rank[e] \in 1..n
      OBVIOUS
    <3>1. rank[e] = Cardinality(before(e)) + 1
      OBVIOUS
    <3> HIDE DEF rank, before
    <3> QED BY <1>2, <2>1, <3>1
  <2>4. ASSUME NEW d \in S, NEW e \in S, Less(d, e) PROVE rank[d] < rank[e]
    <3>1. rank[d] = Cardinality(before(d)) + 1 /\ rank[e] = Cardinality(before(e)) + 1
      OBVIOUS
    <3> HIDE DEF rank, before
    <3> QED BY <2>1, <2>2, <2>4, <3>1
  <2>5. rank \in [S -> 1..n]
    <3>1. rank = [e \in S |-> rank[e]]
      OBVIOUS
    <3> HIDE DEF rank
    <3> QED BY <2>3, <3>1
  <2> HIDE DEF rank
  <2>6. \A d, e \in S : rank[d] = rank[e] => d = e
    BY <1>2, <1>3, <2>3, <2>4
  <2>7. rank \in Injection(S, 1..n)
    BY <2>5, <2>6 DEF Injection, IsInjective
  <2>8. rank \in Surjection(S, 1..n)
    BY <1>2, <2>7, FS_Injection DEF n
  <2>9. \A i \in 1..n : \E e \in S : rank[e] = i
    BY <2>8 DEF Surjection
  <2> DEFINE c == [i \in 1..n |-> CHOOSE e \in S : rank[e] = i]
  <2>10. \A i \in 1..n : c[i] \in S /\ rank[c[i]] = i
    BY <2>9
  <2>11. DOMAIN c = 1..n /\ c \in [1..n -> S]
    BY <2>9
  <2> HIDE DEF c
  <2>12. \A i, j \in 1..n : i < j => Less(c[i], c[j])
    <3> SUFFICES ASSUME NEW i \in 1..n, NEW j \in 1..n, i < j PROVE Less(c[i], c[j])
      OBVIOUS
    <3>1. i \in Int /\ j \in Int
      BY <1>2
    <3>2. c[i] = c[j] => i = j
      BY <2>10
    <3>3. Less(c[j], c[i]) => j < i
      BY <2>4, <2>10
    <3> QED BY <1>3, <2>10, <3>1, <3>2, <3>3
  <2> QED BY <2>11, <2>12
<1>6. col \in [1..n -> S] /\ sorted(col)
  BY <1>4, <1>5
<1>7. \A i, j \in 1..n : i # j => col[i] # col[j]
  <2> SUFFICES ASSUME NEW i \in 1..n, NEW j \in 1..n, i < j PROVE col[i] # col[j]
    BY <1>2
  <2>1. Less(col[i], col[j]) /\ col[i] \in S /\ col[j] \in S
    BY <1>6
  <2> QED BY <1>3, <2>1
<1>8. col \in Injection(1..n, S)
  BY <1>6, <1>7 DEF Injection, IsInjective
<1>9. col \in Surjection(1..n, S)
  BY <1>2, <1>8, FS_Injection DEF n
<1>10. \A e : e \in S <=> \E i \in DOMAIN col : col[i] = e
  BY <1>6, <1>9 DEF Surjection
<1>11. col \in Seq(Events)
  BY <1>1, <1>2, <1>6
<1> QED BY <1>6, <1>10, <1>11 DEF col, S, Less

\* The columns hold every event that exists, each one once.
Arranged(cols, base) ==
    /\ \A t \in DOMAIN cols : cols[t] \in Seq(Events) /\ IsInjective(cols[t])
    /\ \A t, u \in DOMAIN cols : t # u => ToSet(cols[t]) \cap ToSet(cols[u]) = {}
    /\ \A e \in Events : Exists(base[e]) <=> \E t \in DOMAIN cols : e \in ToSet(cols[t])

LEMMA ColumnHas ==
    ASSUME NEW records, Orders(records), NEW s
    PROVE  /\ Column(records, s) \in Seq(Events) /\ IsInjective(Column(records, s))
           /\ ToSet(Column(records, s)) = InSession(records, s)
<1> DEFINE col == Column(records, s)
<1>1. /\ col \in Seq(Events)
      /\ \A e : e \in InSession(records, s) <=> \E i \in DOMAIN col : col[i] = e
      /\ \A i, j \in DOMAIN col : i < j => Earlier(records, col[i], col[j])
  BY ColumnIs
<1> HIDE DEF col
<1>2. \A d, e \in InSession(records, s) : Earlier(records, d, e) => d # e
  BY EarlierOrders DEF InSession
<1>3. DOMAIN col \subseteq Int
  BY <1>1
<1>4. ASSUME NEW i \in DOMAIN col, NEW j \in DOMAIN col, i # j PROVE col[i] # col[j]
  <2>1. col[i] \in InSession(records, s) /\ col[j] \in InSession(records, s)
    BY <1>1
  <2>2. i < j \/ j < i
    BY <1>3, <1>4
  <2> QED BY <1>1, <1>2, <2>1, <2>2
<1>5. IsInjective(col)
  BY <1>4 DEF IsInjective
<1>6. ToSet(col) = InSession(records, s)
  BY <1>1 DEF ToSet
<1> QED BY <1>1, <1>5, <1>6 DEF col

LEMMA ColumnsAre ==
    ASSUME NEW records, Orders(records)
    PROVE  Arranged(Columns(records), records)
<1> DEFINE cols == Columns(records)
<1>1. DOMAIN cols = {records[e].val.sitting : e \in {x \in Events : Exists(records[x])}}
  BY DEF Columns
<1>2. \A t \in DOMAIN cols : cols[t] = Column(records, t)
  BY DEF Columns
<1> HIDE DEF cols
<1>3. \A t \in DOMAIN cols : /\ cols[t] \in Seq(Events) /\ IsInjective(cols[t])
                             /\ ToSet(cols[t]) = InSession(records, t)
  BY <1>2, ColumnHas
<1>4. \A t, u : t # u => InSession(records, t) \cap InSession(records, u) = {}
  BY DEF InSession
<1>5. \A e \in Events : Exists(records[e]) <=> \E t \in DOMAIN cols : e \in InSession(records, t)
  BY <1>1 DEF InSession
<1>6. \A e \in Events : Exists(records[e]) <=> \E t \in DOMAIN cols : e \in ToSet(cols[t])
  BY <1>3, <1>5
<1>7. \A t, u \in DOMAIN cols : t # u => ToSet(cols[t]) \cap ToSet(cols[u]) = {}
  BY <1>3, <1>4
<1> QED BY <1>3, <1>6, <1>7 DEF Arranged, cols

\* An event taken out of its column, and put into one.
LEMMA RemoveFirstIs ==
    ASSUME NEW c \in Seq(Events), IsInjective(c), NEW e
    PROVE  /\ RemoveFirst(c, e) \in Seq(Events) /\ IsInjective(RemoveFirst(c, e))
           /\ ToSet(RemoveFirst(c, e)) = ToSet(c) \ {e}
<1> DEFINE n == Len(c)
           r == RemoveFirst(c, e)
<1>0. n \in Nat /\ DOMAIN c = 1..n /\ \A i \in 1..n : c[i] \in Events
  OBVIOUS
<1>1. CASE ~\E i \in 1..n : c[i] = e
  <2>1. r = c
    BY <1>1 DEF RemoveFirst
  <2>2. e \notin ToSet(c)
    BY <1>0, <1>1 DEF ToSet
  <2> QED BY <2>1, <2>2
<1>2. ASSUME NEW k \in 1..n, c[k] = e
      PROVE  /\ r \in Seq(Events) /\ IsInjective(r)
             /\ ToSet(r) = ToSet(c) \ {e}
  <2>1. {i \in 1..n : c[i] = e} = {k}
    BY <1>0, <1>2 DEF IsInjective
  <2>2. Min({k}) = k
    BY <1>2 DEF Min
  <2>3. SelectInSeq(c, LAMBDA v : v = e) = k
    BY <2>1, <2>2 DEF SelectInSeq
  <2>4. r = SubSeq(c, 1, k - 1) \o SubSeq(c, k + 1, n)
    BY <1>2, <2>3 DEF RemoveFirst, RemoveAt
  <2> DEFINE p == SubSeq(c, 1, k - 1)
             q == SubSeq(c, k + 1, n)
  <2>5. /\ p \in Seq(Events) /\ Len(p) = k - 1 /\ \A i \in 1..(k - 1) : p[i] = c[i]
        /\ q \in Seq(Events) /\ Len(q) = n - k /\ \A i \in 1..(n - k) : q[i] = c[k + i]
    <3>1. n \in Nat /\ k \in Int /\ 1 <= k /\ k <= n /\ \A i \in 1..n : c[i] \in Events
      BY <1>0, <1>2
    <3> HIDE DEF n
    <3>2. p \in Seq(Events) /\ Len(p) = k - 1 /\ \A i \in 1..(k - 1) : p[i] = c[i]
      BY ONLY <3>1, SubSeqProperties
    <3>3. /\ q \in Seq(Events) /\ Len(q) = (IF k + 1 <= n THEN n - (k + 1) + 1 ELSE 0)
          /\ \A i \in 1..(n - (k + 1) + 1) : q[i] = c[(k + 1) + i - 1]
      BY ONLY <3>1, SubSeqProperties
    <3> HIDE DEF q
    <3>4. Len(q) = n - k
      BY ONLY <3>1, <3>3
    <3>5. \A i \in 1..(n - k) : q[i] = c[k + i]
      BY ONLY <3>1, <3>3
    <3> QED BY <3>2, <3>3, <3>4, <3>5
  <2>6. r = p \o q
    BY <2>4
  <2> HIDE DEF r, p, q, n
  <2>7. r \in Seq(Events) /\ DOMAIN r = 1..(n - 1)
    BY <1>0, <1>2, <2>5, <2>6
  <2>8. \A i \in 1..(n - 1) : r[i] = IF i < k THEN c[i] ELSE c[i + 1]
    <3> TAKE i \in 1..(n - 1)
    <3>1. CASE i < k
      BY <1>0, <1>2, <2>5, <2>6, <3>1
    <3>2. CASE ~(i < k)
      <4>1. r[i] = q[i - (k - 1)] /\ i - (k - 1) \in 1..(n - k) /\ k + (i - (k - 1)) = i + 1
        BY <1>0, <1>2, <2>5, <2>6, <3>2
      <4> QED BY <2>5, <3>2, <4>1
    <3> QED BY <3>1, <3>2
  <2>9. IsInjective(r)
    <3> SUFFICES ASSUME NEW i \in 1..(n - 1), NEW j \in 1..(n - 1), r[i] = r[j] PROVE i = j
      BY <2>7 DEF IsInjective
    <3> DEFINE a == IF i < k THEN i ELSE i + 1
               b == IF j < k THEN j ELSE j + 1
    <3>1. a \in 1..n /\ b \in 1..n /\ c[a] = c[b]
      BY <1>0, <1>2, <2>8
    <3>2. a = b
      BY <1>0, <3>1 DEF IsInjective
    <3> QED BY <1>2, <1>0, <3>2
  <2>10. ASSUME NEW x PROVE x \in ToSet(r) <=> x \in ToSet(c) /\ x # e
    <3>1. ASSUME NEW i \in 1..(n - 1) PROVE \E j \in 1..n : j # k /\ r[i] = c[j]
      <4>1. CASE i < k
        BY <1>0, <1>2, <2>8, <4>1
      <4>2. CASE ~(i < k)
        <5>1. i + 1 \in 1..n /\ i + 1 # k /\ r[i] = c[i + 1]
          BY <1>0, <1>2, <2>8, <4>2
        <5> QED BY <5>1
      <4> QED BY <4>1, <4>2
    <3>2. ASSUME NEW j \in 1..n, j # k PROVE \E i \in 1..(n - 1) : r[i] = c[j]
      <4>1. CASE j < k
        BY <1>0, <1>2, <2>8, <4>1
      <4>2. CASE ~(j < k)
        <5>1. j - 1 \in 1..(n - 1) /\ ~(j - 1 < k) /\ (j - 1) + 1 = j
          BY <1>0, <1>2, <3>2, <4>2
        <5>2. r[j - 1] = c[j]
          BY <2>8, <5>1
        <5> QED BY <5>1, <5>2
      <4> QED BY <4>1, <4>2
    <3>3. \A j \in 1..n : c[j] = e <=> j = k
      BY <2>1
    <3>4. x \in ToSet(r) <=> \E i \in 1..(n - 1) : r[i] = x
      BY <2>7 DEF ToSet
    <3>5. x \in ToSet(c) <=> \E j \in 1..n : c[j] = x
      BY <1>0 DEF ToSet
    <3> QED BY <3>1, <3>2, <3>3, <3>4, <3>5
  <2> QED BY <2>7, <2>9, <2>10
<1> QED BY <1>1, <1>2

LEMMA InsertAtIs ==
    ASSUME NEW c \in Seq(Events), IsInjective(c), NEW e \in Events, e \notin ToSet(c),
           NEW k \in 1..(Len(c) + 1)
    PROVE  /\ InsertAt(c, k, e) \in Seq(Events) /\ IsInjective(InsertAt(c, k, e))
           /\ ToSet(InsertAt(c, k, e)) = ToSet(c) \cup {e}
<1> DEFINE n == Len(c)
           p == SubSeq(c, 1, k - 1)
           q == SubSeq(c, k, n)
           r == InsertAt(c, k, e)
<1>0. n \in Nat /\ DOMAIN c = 1..n /\ k \in Int /\ 1 <= k /\ k <= n + 1 /\ \A i \in 1..n : c[i] \in Events /\ c[i] # e
  BY DEF ToSet
<1>1. /\ p \in Seq(Events) /\ Len(p) = k - 1 /\ \A i \in 1..(k - 1) : p[i] = c[i]
      /\ q \in Seq(Events) /\ Len(q) = n + 1 - k /\ \A i \in 1..(n + 1 - k) : q[i] = c[k - 1 + i]
  BY <1>0
<1>2. r = (p \o <<e>>) \o q
  BY DEF InsertAt
<1> HIDE DEF r, p, q, n
<1>3. DEFINE m == p \o <<e>>
<1>4. m \in Seq(Events) /\ Len(m) = k /\ m[k] = e /\ \A i \in 1..(k - 1) : m[i] = c[i]
  BY <1>0, <1>1
<1> HIDE DEF m
<1>5. r = m \o q
  BY <1>2 DEF m
<1>6. r \in Seq(Events) /\ DOMAIN r = 1..(n + 1)
  <2>0. r \in Seq(Events) /\ Len(r) = Len(m) + Len(q)
    BY ONLY <1>1, <1>4, <1>5, ConcatProperties
  <2>1. Len(r) = k + (n + 1 - k)
    BY <1>1, <1>4, <2>0
  <2>2. k + (n + 1 - k) = n + 1
    BY <1>0
  <2>3. Len(r) = n + 1
    BY <2>1, <2>2
  <2> QED BY <2>0, <2>3
<1>7. \A i \in 1..(n + 1) : r[i] = IF i < k THEN c[i] ELSE IF i = k THEN e ELSE c[i - 1]
  <2> TAKE i \in 1..(n + 1)
  <2>1. CASE i <= k
    BY <1>0, <1>1, <1>4, <1>5, <2>1
  <2>2. CASE ~(i <= k)
    <3>1. r[i] = q[i - k] /\ i - k \in 1..(n + 1 - k) /\ (k - 1) + (i - k) = i - 1
      BY <1>0, <1>1, <1>4, <1>5, <2>2
    <3> QED BY <1>0, <1>1, <2>2, <3>1
  <2> QED BY <2>1, <2>2
<1>8. IsInjective(r)
  <2> SUFFICES ASSUME NEW i \in 1..(n + 1), NEW j \in 1..(n + 1), r[i] = r[j], i < j PROVE FALSE
    BY <1>0, <1>6 DEF IsInjective
  <2> DEFINE a(x) == IF x < k THEN x ELSE x - 1
  <2>1. \A x \in 1..(n + 1) : x # k => a(x) \in 1..n /\ r[x] = c[a(x)]
    BY <1>0, <1>7
  <2>2. r[k] = e
    BY <1>0, <1>7
  <2>3. i # k /\ j # k
    BY <1>0, <2>1, <2>2
  <2>4. a(i) = a(j)
    BY <1>0, <2>1, <2>3 DEF IsInjective
  <2> QED BY <1>0, <2>3, <2>4
<1>9. ASSUME NEW x PROVE x \in ToSet(r) <=> x \in ToSet(c) \/ x = e
  <2>1. ASSUME NEW i \in 1..(n + 1) PROVE r[i] = e \/ \E j \in 1..n : r[i] = c[j]
    <3>1. CASE i < k
      BY <1>0, <1>7, <3>1
    <3>2. CASE i = k
      BY <1>0, <1>7, <3>2
    <3>3. CASE i > k
      <4>1. i - 1 \in 1..n /\ r[i] = c[i - 1]
        BY <1>0, <1>7, <3>3
      <4> QED BY <4>1
    <3> QED BY <1>0, <3>1, <3>2, <3>3
  <2>2. ASSUME NEW j \in 1..n PROVE \E i \in 1..(n + 1) : r[i] = c[j]
    <3>1. CASE j < k
      BY <1>0, <1>7, <3>1
    <3>2. CASE ~(j < k)
      <4>1. j + 1 \in 1..(n + 1) /\ ~(j + 1 < k) /\ j + 1 # k /\ (j + 1) - 1 = j
        BY <1>0, <3>2
      <4>2. r[j + 1] = c[j]
        BY <1>7, <4>1
      <4> QED BY <4>1, <4>2
    <3> QED BY <3>1, <3>2
  <2>3. k \in 1..(n + 1) /\ r[k] = e
    BY <1>0, <1>7
  <2>4. x \in ToSet(r) <=> \E i \in 1..(n + 1) : r[i] = x
    BY <1>6 DEF ToSet
  <2>5. x \in ToSet(c) <=> \E j \in 1..n : c[j] = x
    BY <1>0 DEF ToSet
  <2> QED BY <2>1, <2>2, <2>3, <2>4, <2>5
<1> QED BY <1>6, <1>8, <1>9 DEF r

LEMMA MovedIsArranged ==
    ASSUME NEW cols, NEW base, Arranged(cols, base), NEW e \in Events, Exists(base[e]), NEW s,
           NEW i \in Nat \ {0}
    PROVE  Arranged(Moved(cols, e, s, i), base)
<1> DEFINE without == [t \in DOMAIN cols \cup {s} |->
                         IF t \in DOMAIN cols THEN RemoveFirst(cols[t], e) ELSE <<>>]
           at == IF i > Len(without[s]) THEN Len(without[s]) + 1 ELSE i
           all == [without EXCEPT ![s] = InsertAt(@, at, e)]
           moved == Moved(cols, e, s, i)
           was(t) == IF t \in DOMAIN cols THEN ToSet(cols[t]) ELSE {}
<1>1. /\ DOMAIN without = DOMAIN cols \cup {s}
      /\ \A t \in DOMAIN cols : without[t] = RemoveFirst(cols[t], e)
      /\ s \notin DOMAIN cols => without[s] = <<>>
  OBVIOUS
<1>2. moved = [t \in {x \in DOMAIN all : all[x] # <<>>} |-> all[t]]
  BY DEF Moved, Restrict
<1>3. DOMAIN all = DOMAIN without /\ all[s] = InsertAt(without[s], at, e)
      /\ \A t \in DOMAIN without : t # s => all[t] = without[t]
  BY <1>1
<1> HIDE DEF without, moved, all
<1>4. ASSUME NEW t \in DOMAIN without
      PROVE  /\ without[t] \in Seq(Events) /\ IsInjective(without[t])
             /\ ToSet(without[t]) = was(t) \ {e}
  <2>1. CASE t \in DOMAIN cols
    <3>1. cols[t] \in Seq(Events) /\ IsInjective(cols[t]) /\ without[t] = RemoveFirst(cols[t], e)
      BY <1>1, <2>1 DEF Arranged
    <3> QED BY <2>1, <3>1, RemoveFirstIs
  <2>2. CASE t \notin DOMAIN cols
    <3>1. without[t] = <<>>
      BY <1>1, <2>2
    <3>2. <<>> \in Seq(Events) /\ IsInjective(<<>>) /\ ToSet(<<>>) = {}
      BY DEF IsInjective, ToSet
    <3> QED BY <2>2, <3>1, <3>2
  <2> QED BY <2>1, <2>2
<1>5. s \in DOMAIN without
  BY <1>1
<1>6. at \in 1..(Len(without[s]) + 1)
  <2>1. Len(without[s]) \in Nat
    BY <1>4, <1>5
  <2> QED BY <2>1
<1> HIDE DEF at
<1>7. /\ all[s] \in Seq(Events) /\ IsInjective(all[s])
      /\ ToSet(all[s]) = was(s) \cup {e}
  <2>1. e \notin ToSet(without[s])
    BY <1>4, <1>5
  <2>2. /\ InsertAt(without[s], at, e) \in Seq(Events) /\ IsInjective(InsertAt(without[s], at, e))
        /\ ToSet(InsertAt(without[s], at, e)) = ToSet(without[s]) \cup {e}
    BY <1>4, <1>5, <1>6, <2>1, InsertAtIs
  <2> HIDE DEF was
  <2> QED BY <1>3, <1>4, <1>5, <2>2
<1>8. \A t \in DOMAIN all : /\ all[t] \in Seq(Events) /\ IsInjective(all[t])
                            /\ t # s => ToSet(all[t]) = was(t) \ {e}
  BY <1>3, <1>4, <1>7
<1>9. \A t \in DOMAIN all : all[t] = <<>> <=> ToSet(all[t]) = {}
  <2> SUFFICES ASSUME NEW t \in DOMAIN all PROVE all[t] = <<>> <=> ToSet(all[t]) = {}
    OBVIOUS
  <2>1. all[t] \in Seq(Events)
    BY <1>8
  <2>2. ASSUME NEW c \in Seq(Events), ToSet(c) = {} PROVE c = <<>>
    <3>1. Len(c) \in Nat /\ DOMAIN c = 1..Len(c) /\ 1 \notin DOMAIN c
      BY <2>2 DEF ToSet
    <3>2. Len(c) = 0
      BY <3>1
    <3> QED BY <3>2
  <2>3. ToSet(<<>>) = {}
    BY DEF ToSet
  <2> QED BY <2>1, <2>2, <2>3
<1>10. DOMAIN moved = {t \in DOMAIN all : all[t] # <<>>} /\ \A t \in DOMAIN moved : moved[t] = all[t]
  BY <1>2
<1>11. ASSUME NEW x
       PROVE  (\E t \in DOMAIN moved : x \in ToSet(moved[t])) <=> (\E t \in DOMAIN cols : x \in ToSet(cols[t]))
  <2>1. (\E t \in DOMAIN moved : x \in ToSet(moved[t])) <=> (\E t \in DOMAIN all : x \in ToSet(all[t]))
    BY <1>9, <1>10
  <2>2. CASE x = e
    <3>1. e \in ToSet(all[s]) /\ s \in DOMAIN all
      BY <1>3, <1>5, <1>7
    <3>2. \E t \in DOMAIN cols : e \in ToSet(cols[t])
      BY DEF Arranged
    <3> QED BY <2>1, <2>2, <3>1, <3>2
  <2>3. CASE x # e
    <3>1. \A t \in DOMAIN all : x \in ToSet(all[t]) <=> x \in was(t)
      BY <1>7, <1>8, <2>3
    <3>2. DOMAIN all = DOMAIN cols \cup {s}
      BY <1>1, <1>3
    <3> QED BY <2>1, <3>1, <3>2
  <2> QED BY <2>2, <2>3
<1>12. ASSUME NEW t \in DOMAIN all, NEW u \in DOMAIN all, t # u
       PROVE  ToSet(all[t]) \cap ToSet(all[u]) = {}
  <2>1. was(t) \cap was(u) = {}
    BY <1>12 DEF Arranged
  <2> HIDE DEF was
  <2>2. CASE t # s /\ u # s
    BY <1>8, <2>1, <2>2
  <2>3. CASE t = s
    BY <1>7, <1>8, <1>12, <2>1, <2>3
  <2>4. CASE u = s
    BY <1>7, <1>8, <1>12, <2>1, <2>4
  <2> QED BY <2>2, <2>3, <2>4
<1>13. \A t \in DOMAIN moved : moved[t] \in Seq(Events) /\ IsInjective(moved[t])
  BY <1>8, <1>10
<1>14. \A t, u \in DOMAIN moved : t # u => ToSet(moved[t]) \cap ToSet(moved[u]) = {}
  BY <1>10, <1>12
<1>15. \A x \in Events : Exists(base[x]) <=> \E t \in DOMAIN cols : x \in ToSet(cols[t])
  BY DEF Arranged
<1>16. \A x \in Events : Exists(base[x]) <=> \E t \in DOMAIN moved : x \in ToSet(moved[t])
  BY <1>11, <1>15
<1>17. Arranged(moved, base)
  BY <1>13, <1>14, <1>16 DEF Arranged
<1> QED BY <1>17 DEF moved

\* The number an event gets at the end of a session.
LEMMA AtTheEndIs ==
    ASSUME NEW records, Orders(records), NEW e, NEW s
    PROVE  AtTheEnd(records, e, s).order \in Int
<1> DEFINE S == InSession(records, s) \ {e}
           rest == {records[x].val.order : x \in S}
           all == rest \cup {0}
           above(n) == {m \in all : m > n}
           R == {Cardinality(above(n)) : n \in all}
<1>1. S \subseteq Events /\ \A x \in S : Exists(records[x])
  BY DEF InSession
<1>2. IsFiniteSet(Events)
  BY PartsAssumption, TimelineAssumption, FS_Subset DEF Events, ToSet
<1>3. IsFiniteSet(S)
  BY <1>1, <1>2, FS_Subset
<1>4. IsFiniteSet(rest)
  <2> HIDE DEF S
  <2> DEFINE f == [x \in S |-> records[x].val.order]
  <2>1. f \in Surjection(S, rest)
    BY DEF Surjection
  <2> HIDE DEF f, rest
  <2> QED BY <1>3, <2>1, FS_Surjection
<1>5. rest \subseteq Int
  BY <1>1 DEF Orders
<1> HIDE DEF S, rest
<1>6. IsFiniteSet(all) /\ all \subseteq Int /\ all # {}
  BY <1>4, <1>5, FS_AddElement
<1> HIDE DEF all
<1>7. \A n \in all : IsFiniteSet(above(n)) /\ Cardinality(above(n)) \in Nat
  <2> TAKE n \in all
  <2>1. above(n) \in SUBSET all
    OBVIOUS
  <2> HIDE DEF above
  <2> QED BY <1>6, <2>1, FS_Subset, FS_CardinalityType
<1>8. R \subseteq Nat /\ R # {}
  BY <1>6, <1>7
<1>9. PICK n \in all : \A m \in all : Cardinality(above(m)) >= Cardinality(above(n))
  <2>1. PICK r \in R : \A y \in R : ~(<<y, r>> \in OpToRel(<, Nat))
    <3> HIDE DEF R
    <3> QED BY <1>8, NatLessThanWellFounded, WFMin
  <2>2. r \in Nat /\ R \subseteq Nat
    BY <1>8
  <2>3. \A y \in R : ~(y < r)
    <3> HIDE DEF R
    <3> QED BY <2>1, <2>2 DEF OpToRel
  <2>4. PICK n \in all : r = Cardinality(above(n))
    OBVIOUS
  <2>5. \A m \in all : ~(Cardinality(above(m)) < Cardinality(above(n)))
    BY <2>3, <2>4
  <2> HIDE DEF above
  <2> QED BY <1>7, <2>4, <2>5
<1>10. \A m \in all : n >= m
  <2> SUFFICES ASSUME NEW m \in all, m > n PROVE FALSE
    BY <1>6
  <2>1. above(m) \in SUBSET above(n) /\ m \in above(n) /\ m \notin above(m)
    <3>1. \A x \in all : x \in Int
      BY <1>6
    <3>2. \A x \in all : x > m => x > n
      BY <3>1
    <3> QED BY <3>1, <3>2
  <2>2. Cardinality(above(m)) <= Cardinality(above(n)) /\ Cardinality(above(m)) # Cardinality(above(n))
    BY <1>7, <2>1, FS_Subset
  <2> HIDE DEF above
  <2> QED BY <1>7, <1>9, <2>2
<1>11. Max(all) \in all
  BY <1>10 DEF Max
<1>12. AtTheEnd(records, e, s) = [sitting |-> s, order |-> Max(all) + 1]
  BY DEF AtTheEnd, all, rest, S
<1>13. AtTheEnd(records, e, s).order = Max(all) + 1
  BY <1>12
<1>14. Max(all) \in Int
  BY <1>6, <1>11
<1> QED BY ONLY <1>13, <1>14

-----------------------------------------------------------------------------
(* What a reorder finds of the events that nobody changed meanwhile.       *)

\* The events of a draft that nobody changed since it was opened.
Same(req, s) == {e \in Events : Exists(req.base[e]) /\ s[e].rev = req.base[e].rev}

Sent(muts) == {m.part : m \in muts}

\* A column that the draft changed is renumbered, one that it left is not written.
Renumbered(req, muts, s, t) ==
    \A i \in DOMAIN req.cols[t] :
       req.cols[t][i] \in Same(req, s) => req.cols[t][i] \in Sent(muts) \/ Placed(s[req.cols[t][i]], t, i)

LeftAlone(req, muts, s, t) ==
    \A i \in DOMAIN req.cols[t] :
       /\ req.cols[t][i] \notin Sent(muts)
       /\ req.cols[t][i] \in Same(req, s) =>
            /\ s[req.cols[t][i]].val.sitting = t
            /\ \A j \in DOMAIN req.cols[t] :
                  i < j /\ req.cols[t][j] \in Same(req, s) => Earlier(s, req.cols[t][i], req.cols[t][j])

ReorderIs(req, muts, s) ==
    /\ \A m \in muts : \E t \in DOMAIN req.cols : \E i \in DOMAIN req.cols[t] :
          req.cols[t][i] = m.part /\ m.val = [sitting |-> t, order |-> i]
    /\ \A t \in DOMAIN req.cols : Renumbered(req, muts, s, t) \/ LeftAlone(req, muts, s, t)

LEMMA ReorderStays ==
    ASSUME NEW s, NEW t, DOMAIN s = Parts, Read(s, s), Grows(s, t),
           NEW req, Read(req.base, s), DOMAIN req.base = Events, NEW muts, ReorderIs(req, muts, s)
    PROVE  ReorderIs(req, muts, t)
<1>1. \A e \in Same(req, t) : e \in Same(req, s) /\ t[e] = s[e]
  <2> SUFFICES ASSUME NEW e \in Same(req, t) PROVE e \in Same(req, s) /\ t[e] = s[e]
    OBVIOUS
  <2>1. e \in Events /\ e \in Parts /\ Exists(req.base[e]) /\ t[e].rev = req.base[e].rev
    BY PartsAre DEF Same
  <2>2. Version(req.base[e], e, s) /\ s[e].rev \in Nat /\ t[e].rev \in Nat /\ (t[e] = s[e] \/ t[e].rev > s[e].rev)
    BY <2>1 DEF Read, Grows, Version
  <2>3. t[e] = s[e]
    BY <2>1, <2>2 DEF Version
  <2> QED BY <2>1, <2>3 DEF Same
<1>2. ASSUME NEW u \in DOMAIN req.cols PROVE Renumbered(req, muts, t, u) \/ LeftAlone(req, muts, t, u)
  <2>1. CASE Renumbered(req, muts, s, u)
    BY <1>1, <2>1 DEF Renumbered
  <2>2. CASE LeftAlone(req, muts, s, u)
    <3>1. \A d, e \in Same(req, t) : Earlier(s, d, e) => Earlier(t, d, e)
      BY <1>1 DEF Earlier
    <3> QED BY <1>1, <2>2, <3>1 DEF LeftAlone
  <2> QED BY <2>1, <2>2 DEF ReorderIs
<1> QED BY <1>2 DEF ReorderIs

LEMMA PreparedReorder ==
    ASSUME RecordsInv, Orders(shown), NEW req, Arranged(req.cols, req.base), Read(req.base, server),
           DOMAIN req.base = Events, ~StaleTimeline(req)
    PROVE  ReorderIs(req, TimelineMutations(req), server)
<1> DEFINE cols == req.cols
           muts == TimelineMutations(req)
           now == Columns(shown)
           changed == {t \in DOMAIN cols : t \notin DOMAIN now \/ now[t] # cols[t]}
           moves(t) == {j \in DOMAIN cols[t] : ~Placed(shown[cols[t][j]], t, j)}
<1>1. \A e \in Same(req, server) : shown[e].val = server[e].val
  <2> SUFFICES ASSUME NEW e \in Same(req, server) PROVE shown[e].val = server[e].val
    OBVIOUS
  <2>1. e \in Events /\ e \in Parts /\ Exists(req.base[e]) /\ server[e].rev = req.base[e].rev
    BY PartsAre DEF Same
  <2>2. Version(req.base[e], e, server) /\ Version(shown[e], e, server)
    BY <2>1 DEF RecordsInv, Read
  <2>3. Revision(shown[e]) = Revision(req.base[e])
    BY <2>1 DEF StaleTimeline
  <2> QED BY <2>1, <2>2, <2>3 DEF Version, Revision
<1>2. muts = UNION {{Change(cols[t][i], shown[cols[t][i]].rev, [sitting |-> t, order |-> i]) : i \in moves(t)} : t \in changed}
  BY DEF TimelineMutations
<1>3. ASSUME NEW m \in muts
      PROVE  \E t \in changed : \E i \in moves(t) : m.part = cols[t][i] /\ m.val = [sitting |-> t, order |-> i]
  BY <1>2 DEF Change
<1>4. ASSUME NEW t \in changed, NEW i \in moves(t) PROVE cols[t][i] \in Sent(muts)
  <2>1. Change(cols[t][i], shown[cols[t][i]].rev, [sitting |-> t, order |-> i]) \in muts
    BY <1>2
  <2>2. Change(cols[t][i], shown[cols[t][i]].rev, [sitting |-> t, order |-> i]).part = cols[t][i]
    BY DEF Change
  <2> QED BY <2>1, <2>2 DEF Sent
<1>5. changed \subseteq DOMAIN cols /\ \A t \in changed : moves(t) \subseteq DOMAIN cols[t]
  OBVIOUS
<1>6. ASSUME NEW t \in DOMAIN cols, t \in changed PROVE Renumbered(req, muts, server, t)
  <2> SUFFICES ASSUME NEW i \in DOMAIN cols[t], cols[t][i] \in Same(req, server)
               PROVE  cols[t][i] \in Sent(muts) \/ Placed(server[cols[t][i]], t, i)
    BY DEF Renumbered
  <2>1. CASE i \in moves(t)
    BY <1>4, <1>6, <2>1
  <2>2. CASE i \notin moves(t)
    <3>1. Placed(shown[cols[t][i]], t, i)
      BY <2>2
    <3> QED BY <1>1, <3>1 DEF Placed
  <2> QED BY <2>1, <2>2
<1>7. ASSUME NEW t \in DOMAIN cols, t \notin changed PROVE LeftAlone(req, muts, server, t)
  <2>1. t \in DOMAIN now /\ now[t] = cols[t]
    BY <1>7
  <2>2. cols[t] = Column(shown, t)
    BY <2>1 DEF Columns
  <2>3. \A i \in DOMAIN cols[t] : cols[t][i] \in InSession(shown, t)
    BY <2>2, ColumnIs
  <2>4. \A i, j \in DOMAIN cols[t] : i < j => Earlier(shown, cols[t][i], cols[t][j])
    BY <2>2, ColumnIs
  <2>5. \A d, e \in Same(req, server) : Earlier(shown, d, e) => Earlier(server, d, e)
    BY <1>1 DEF Earlier
  <2>6. ASSUME NEW i \in DOMAIN cols[t] PROVE cols[t][i] \notin Sent(muts)
    <3> SUFFICES ASSUME NEW m \in muts, m.part = cols[t][i] PROVE FALSE
      BY DEF Sent
    <3>1. PICK u \in changed : \E j \in DOMAIN cols[u] : cols[u][j] = cols[t][i]
      BY <1>3, <1>5
    <3>2. u # t /\ u \in DOMAIN cols
      BY <1>5, <1>7
    <3>3. ToSet(cols[u]) \cap ToSet(cols[t]) = {}
      BY <3>2 DEF Arranged
    <3> QED BY <3>1, <3>3 DEF ToSet
  <2>7. \A e \in InSession(shown, t) \cap Same(req, server) : server[e].val.sitting = t
    BY <1>1 DEF InSession
  <2> HIDE DEF muts, now, changed
  <2> QED BY <2>3, <2>4, <2>5, <2>6, <2>7 DEF LeftAlone
<1>8. \A m \in muts : \E t \in DOMAIN cols : \E i \in DOMAIN cols[t] :
         cols[t][i] = m.part /\ m.val = [sitting |-> t, order |-> i]
  BY <1>3, <1>5
<1> HIDE DEF muts, changed
<1>9. ReorderIs(req, muts, server)
  BY <1>6, <1>7, <1>8 DEF ReorderIs
<1> QED BY <1>9 DEF muts

-----------------------------------------------------------------------------
(* The draft, and the request made of it.                                  *)

\* What is drafted or dragged on the board.
BoardInv(v) ==
    /\ v.base # None => Orders(v.base) /\ Arranged(v.cols, v.base)
    /\ v.drag # None => /\ Orders(v.drag.base)
                        /\ v.drag.event \in Events /\ Exists(v.drag.base[v.drag.event])
                        /\ v.base # None => v.drag.base = v.base

TimelineInv ==
    page.kind = "timeline" =>
      /\ Orders(server) /\ Orders(shown)
      /\ BoardInv(page)
      /\ turn # Idle => Arranged(turn.req.cols, turn.req.base)
      /\ turn # Idle /\ turn.phase = "sent" => ReorderIs(turn.req, turn.muts, server)

LEMMA BoardIsArranged ==
    ASSUME Orders(shown), BoardInv(page)
    PROVE  /\ Orders(Opened) /\ Arranged(Board, Opened)
           /\ page.drag # None => Opened = page.drag.base
<1>1. CASE Drafted
  BY <1>1 DEF Drafted, Opened, Board, BoardInv
<1>2. CASE ~Drafted
  <2>1. Board = Columns(Opened) /\ Opened = IF page.drag # None THEN page.drag.base ELSE EventsShown
    BY <1>2 DEF Board, Opened
  <2>2. Orders(EventsShown)
    BY DEF EventsShown, Restrict, Orders
  <2>3. Orders(Opened)
    BY <2>1, <2>2 DEF BoardInv
  <2> QED BY <2>1, <2>3, ColumnsAre
<1> QED BY <1>1, <1>2

LEMMA BoardInvIs ==
    ASSUME NEW editing, NEW base, NEW cols, NEW drag, NEW error,
           base # None => Orders(base) /\ Arranged(cols, base),
           drag # None => /\ Orders(drag.base) /\ drag.event \in Events /\ Exists(drag.base[drag.event])
                          /\ base # None => drag.base = base
    PROVE  BoardInv(BoardPage(editing, base, cols, drag, error))
BY DEF BoardInv, BoardPage

LEMMA BoardSteps ==
    ASSUME TimelinePageIs(page, server), page.kind = "timeline", Orders(shown), BoardInv(page),
           \/ \E e \in Events, s \in 1..MaxSession, i \in 1..Len(EventSeq) : MoveByKey(e, s, i)
           \/ \E e \in Events : DragStart(e)
           \/ \E s \in 1..MaxSession, i \in 1..Len(EventSeq) : Drop(s, i)
           \/ DragEnd \/ CancelReorder \/ ToggleEditing
    PROVE  BoardInv(page')
<1> DEFINE DragIs(drag, base) ==
             drag # None => /\ Orders(drag.base) /\ drag.event \in Events /\ Exists(drag.base[drag.event])
                            /\ base # None => drag.base = base
<1>1. Orders(Opened) /\ Arranged(Board, Opened) /\ (page.drag # None => Opened = page.drag.base)
  BY BoardIsArranged
<1>2. PICK a, b, c, d, e : page = BoardPage(a, b, c, d, e)
  BY DEF TimelinePageIs
<1>3. (b # None => Orders(b) /\ Arranged(c, b)) /\ DragIs(d, b) /\ DragIs(d, None) /\ d = page.drag
  BY <1>2 DEF BoardInv, BoardPage
<1>4. PICK none : NoDraft(page) = BoardPage(a, None, none, None, e)
  <2>1. NoDraft(page) = BoardPage(a, None, <<>>, None, e)
    BY <1>2, NoDraftIs DEF BoardPage
  <2> WITNESS <<>>
  <2> QED BY <2>1
<1>5. \A x \in Events : Exists(Opened[x]) <=> \E t \in DOMAIN Board : x \in ToSet(Board[t])
  BY <1>1 DEF Arranged
<1>6. ASSUME NEW x \in Events, Exists(Opened[x]), NEW s, NEW i \in Nat \ {0}, NEW drag, Move(x, s, i, drag),
             drag # None => drag = page.drag
      PROVE  BoardInv(page')
  <2> DEFINE plain == NoDraft(page)
             cols == Moved(Board, x, s, i)
             base == Opened
  <2>1. page' = [plain EXCEPT !.drag = drag] \/ page' = [page EXCEPT !.base = base, !.cols = cols, !.drag = drag]
    BY <1>6 DEF Move
  <2>2. /\ plain = BoardPage(a, None, none, None, e)
        /\ Orders(base) /\ Arranged(cols, base) /\ DragIs(drag, base) /\ DragIs(drag, None)
    BY <1>1, <1>3, <1>4, <1>6, MovedIsArranged
  <2> HIDE DEF plain, cols, base
  <2>3. CASE page' = [plain EXCEPT !.drag = drag]
    <3>1. page' = BoardPage(a, None, none, drag, e)
      BY <2>2, <2>3 DEF BoardPage
    <3> QED BY <2>2, <3>1, BoardInvIs
  <2>4. CASE page' = [page EXCEPT !.base = base, !.cols = cols, !.drag = drag]
    <3>1. page' = BoardPage(a, base, cols, drag, e)
      BY <1>2, <2>4 DEF BoardPage
    <3> QED BY <2>2, <3>1, BoardInvIs
  <2> QED BY <2>1, <2>3, <2>4
<1>7. 1..Len(EventSeq) \subseteq Nat \ {0}
  BY TimelineAssumption
<1>8. ASSUME NEW x \in Events, NEW s, NEW i \in 1..Len(EventSeq), MoveByKey(x, s, i) PROVE BoardInv(page')
  <2>1. Exists(Opened[x])
    BY <1>5, <1>8 DEF MoveByKey, ToSet
  <2> QED BY <1>6, <1>7, <1>8, <2>1 DEF MoveByKey
<1>9. ASSUME NEW drag, page' = [page EXCEPT !.drag = drag], DragIs(drag, b)
      PROVE  BoardInv(page')
  <2>1. page' = BoardPage(a, b, c, drag, e)
    BY <1>2, <1>9 DEF BoardPage
  <2> QED BY <1>3, <1>9, <2>1, BoardInvIs
<1>10. ASSUME NEW x \in Events, DragStart(x) PROVE BoardInv(page')
  <2> DEFINE drag == [event |-> x, base |-> Opened]
  <2>1. page' = [page EXCEPT !.drag = drag]
    BY <1>10 DEF DragStart
  <2>2. Exists(Opened[x])
    BY <1>5, <1>10 DEF DragStart
  <2>3. b # None => Opened = b
    BY <1>2 DEF Opened, Drafted, BoardPage
  <2>4. DragIs(drag, b)
    BY <1>1, <2>2, <2>3
  <2> HIDE DEF drag
  <2> QED BY <1>9, <2>1, <2>4
<1>11. ASSUME NEW s, NEW i \in 1..Len(EventSeq), Drop(s, i) PROVE BoardInv(page')
  <2>1. page.drag # None /\ page.drag.event \in Events /\ Exists(Opened[page.drag.event])
    BY <1>1, <1>11 DEF Drop, BoardInv
  <2>2. page' = [page EXCEPT !.drag = None] \/ Move(page.drag.event, s, i, None)
    BY <1>11 DEF Drop
  <2> QED BY <1>6, <1>7, <1>9, <2>1, <2>2
<1>12. ASSUME DragEnd PROVE BoardInv(page')
  BY <1>9, <1>12 DEF DragEnd
<1>13. ASSUME CancelReorder \/ ToggleEditing PROVE BoardInv(page')
  <2> DEFINE plain == NoDraft(page)
             editing == ~plain.editing
  <2>1. plain = BoardPage(a, None, none, None, e)
    BY <1>4
  <2>2. \/ page' = [plain EXCEPT !.error = FALSE]
        \/ page' = [plain EXCEPT !.error = FALSE, !.editing = editing]
    BY <1>13 DEF CancelReorder, ToggleEditing
  <2> HIDE DEF plain, editing
  <2>3. page' = BoardPage(a, None, none, None, FALSE) \/ page' = BoardPage(editing, None, none, None, FALSE)
    BY <2>1, <2>2 DEF BoardPage
  <2> QED BY <2>3, BoardInvIs
<1> QED BY <1>8, <1>10, <1>11, <1>12, <1>13

\* A page stays one of its kind.
LEMMA KindStays == ASSUME PagesInv, [Next]_vars PROVE page'.kind = page.kind
<1>1. PageIs(page, server) /\ DOMAIN shown = Parts /\ Read(shown, server)
  BY DEF PagesInv, RecordsInv
<1>2. "kind" \in DOMAIN page
  <2>1. CASE page.kind = "map"
    <3>1. page = [kind |-> "map", map |-> page.map, selected |-> page.selected, placing |-> page.placing,
                  draft |-> page.draft, error |-> page.error]
      BY <1>1, <2>1 DEF PageIs, MapPageIs
    <3> DEFINE d == DOMAIN page
    <3>2. d = {"kind", "map", "selected", "placing", "draft", "error"}
      BY <3>1
    <3> QED BY <3>2
  <2>2. CASE page.kind = "timeline"
    <3>1. PICK a, b, c, d, e : page = BoardPage(a, b, c, d, e)
      BY <1>1, <2>2 DEF PageIs, TimelinePageIs
    <3> QED BY <3>1 DEF BoardPage
  <2>3. CASE page.kind = "vocabulary"
    <3>1. PICK a, b, c, d, e : page = VocabularyPage(a, b, c, d, e)
      BY <1>1, <2>3 DEF PageIs, VocabularyPageIs
    <3> QED BY <3>1 DEF VocabularyPage
  <2>4. CASE page.kind = "form"
    <3>1. PICK a, b, c, d : page = FormPage(a, b, c, d)
      BY <1>1, <2>4 DEF PageIs, FormPageIs
    <3> QED BY <3>1 DEF FormPage
  <2> QED BY <1>1, <2>1, <2>2, <2>3, <2>4 DEF PageIs
<1>3. CASE MapSteps
  <2>1. ASSUME NEW a, NEW b, NEW c, Panel(a, b, c) PROVE page'.kind = page.kind
    BY <1>2, <2>1 DEF Panel
  <2>2. CASE \E l \in Locations : Select(l) \/ EditLocation(l) \/ Place(l)
    BY <2>1, <2>2 DEF Select, EditLocation, Place
  <2>3. CASE \E e \in MapEvents, p \in Pins \cup {NoPin} : OpenEvent(e, p)
    BY <2>1, <2>3 DEF OpenEvent
  <2>4. CASE \E v \in Views, t \in Types : OpenView(v, t)
    BY <2>1, <2>4 DEF OpenView
  <2>5. ASSUME NEW p, ClickMap(p) PROVE page'.kind = page.kind
    BY <1>2, <2>5 DEF ClickMap
  <2>6. ASSUME NEW p, NEW t, TypeDraft(p, t) PROVE page'.kind = page.kind
    BY <1>2, <2>6 DEF TypeDraft
  <2>7. CASE CloseMapPanel
    BY <2>7 DEF CloseMapPanel, MapView, MapIdle
  <2>8. CASE SaveDraft \/ RemovePin \/ DeleteView \/ UploadLocalMap
    <3>1. page' = [page EXCEPT !.error = FALSE]
      BY <2>8 DEF SaveDraft, RemovePin, DeleteView, UploadLocalMap, AskMap
    <3> QED BY <1>2, <3>1
  <2>9. CASE OthersChangeMap
    BY <2>9 DEF OthersChangeMap
  <2> QED BY <1>3, <2>2, <2>3, <2>4, <2>5, <2>6, <2>7, <2>8, <2>9 DEF MapSteps
<1>4. CASE TimelineSteps
  BY <1>2, <1>4 DEF TimelineSteps, TimelineIdle, MoveByKey, DragStart, Drop, DragEnd, CancelReorder,
     ToggleEditing, SaveReorder, OthersChangeTimeline, NoDraft, Move
<1>5. CASE SettingsSteps
  <2>1. ASSUME NEW x, page' = [page EXCEPT !.error = x] PROVE page'.kind = page.kind
    BY <1>2, <2>1
  <2>2. ASSUME NEW x, NEW y, page.kind = "vocabulary",
               \/ page' = VocabularyView
               \/ page' = [VocabularyView EXCEPT !.editing = x, !.base = y]
               \/ page' = [VocabularyView EXCEPT !.base = y, !.deleting = x]
        PROVE  page'.kind = page.kind
    <3>1. VocabularyView.kind = "vocabulary" /\ "kind" \in DOMAIN VocabularyView
      BY DEF VocabularyView
    <3> QED BY <2>2, <3>1
  <2>3. CASE StartCreate \/ CancelEdit \/ CancelDelete
    BY <2>2, <2>3 DEF StartCreate, CancelEdit, CancelDelete, PageIdle
  <2>4. ASSUME NEW i, StartEdit(i) \/ RequestDelete(i) PROVE page'.kind = page.kind
    BY <2>2, <2>4 DEF StartEdit, RequestDelete, PageIdle
  <2>5. ASSUME NEW i, NEW t, TypeDefinition(i, t) PROVE page'.kind = page.kind
    BY <1>2, <2>5 DEF TypeDefinition
  <2>6. CASE SaveDefinition \/ AddStarter \/ \E how, to : DeleteDefinition(how, to)
    <3>1. \A req : AskVocabulary(req) => page' = [page EXCEPT !.error = FALSE]
      BY DEF AskVocabulary
    <3>2. page' = [page EXCEPT !.error = FALSE]
      BY <2>6, <3>1 DEF SaveDefinition, AddStarter, DeleteDefinition
    <3> QED BY <2>1, <3>2
  <2>7. ASSUME NEW p, NEW t, TypeSetting(p, t) PROVE page'.kind = page.kind
    BY <1>2, <2>7 DEF TypeSetting
  <2>8. CASE CancelForm
    BY <2>8 DEF CancelForm, PageIdle, FormView
  <2>9. CASE SaveForm \/ \E t \in Texts : PickSetting(t)
    <3>1. page' = [page EXCEPT !.error = FALSE]
      BY <2>9 DEF SaveForm, PickSetting, AskForm
    <3> QED BY <2>1, <3>1
  <2>10. CASE OthersChangeVocabulary \/ OthersChangeSetting
    BY <2>10 DEF OthersChangeVocabulary, OthersChangeSetting
  <2> QED BY <1>5, <2>3, <2>4, <2>5, <2>6, <2>7, <2>8, <2>9, <2>10 DEF SettingsSteps
<1>6. CASE Navigate
  BY <1>1, <1>6, FreshIs DEF Navigate, PageIs
<1>7. CASE Unavailable \/ Prepare \/ TransportSteps \/ UNCHANGED vars
  BY <1>7 DEF Unavailable, Prepare, TransportSteps, vars
<1>8. CASE Hear
  BY <1>1, <1>2, <1>8 DEF Hear, MapHears, TimelineHears, VocabularyHears, FormHears, NoDraft,
     VocabularyView, FormView, PageIs
<1>9. CASE PageRefreshes
  BY <1>9 DEF PageRefreshes, FormShows, FormView
<1> QED BY <1>3, <1>4, <1>5, <1>6, <1>7, <1>8, <1>9 DEF Next

\* The stored records change: what a write found of them still holds.
LEMMA StoreKeepsTimeline ==
    ASSUME PagesInv, TimelineInv, page.kind = "timeline", Grows(server, server'), Orders(server'),
           UNCHANGED <<shown, page>>, turn' = turn \/ (turn # Idle /\ turn'.phase # "sent" /\ turn'.req = turn.req)
    PROVE  TimelineInv'
<1>1. /\ DOMAIN server = Parts /\ Read(server, server)
      /\ turn # Idle => Read(turn.req.base, server) /\ DOMAIN turn.req.base = Events
  BY RequestNow DEF PagesInv, RecordsInv, RequestIs, MapRequestIs
<1>2. turn # Idle /\ turn.phase = "sent" => ReorderIs(turn.req, turn.muts, server')
  BY <1>1, ReorderStays DEF TimelineInv
<1> QED BY <1>2 DEF TimelineInv

\* The others store a number for an event, or delete it.
LEMMA OthersKeepTimeline == ASSUME PagesInv, TimelineInv, OthersChangeTimeline PROVE TimelineInv'
<1>1. page.kind = "timeline" /\ UNCHANGED page /\ Orders(server)
  BY DEF OthersChangeTimeline, TimelineInv
<1>2. PICK p \in Events : \E val : /\ OthersStore(p, val) /\ (val = Gone \/ val.order \in Int)
  BY <1>1, AtTheEndIs DEF OthersChangeTimeline
<1>3. PICK val : OthersStore(p, val) /\ (val = Gone \/ val.order \in Int)
  BY <1>2
<1>4. DOMAIN server = Parts /\ p \in Parts /\ \A q \in Parts : server[q].rev \in Nat /\ (server[q].rev = 0 => ~Exists(server[q]))
  BY PartsAre DEF PagesInv, RecordsInv, Read, Version
<1>5. server' = [server EXCEPT ![p] = [rev |-> server[p].rev + 1, val |-> val]] /\ UNCHANGED <<shown, turn>>
  BY <1>3 DEF OthersStore
<1>6. /\ DOMAIN server' = Parts
      /\ server'[p].rev = server[p].rev + 1 /\ server'[p].val = val
      /\ \A q \in Parts \ {p} : server'[q] = server[q]
  BY <1>4, <1>5
<1>7. Grows(server, server')
  BY ONLY <1>4, <1>6 DEF Grows
<1>8. Orders(server')
  BY <1>1, <1>3, <1>6, PartsAre DEF Orders, Exists
<1> QED BY <1>1, <1>5, <1>7, <1>8, StoreKeepsTimeline

\* A reorder is stored with the numbers of its columns.
LEMMA CommitOrders ==
    ASSUME PagesInv, TimelineInv, page.kind = "timeline", Commits, server' = Applied(turn.muts)
    PROVE  Orders(server')
<1>1. turn # Idle /\ turn.phase = "sent"
  BY DEF Commits, Idle
<1>2. /\ RecordsInv /\ Orders(server) /\ ReorderIs(turn.req, turn.muts, server)
      /\ Arranged(turn.req.cols, turn.req.base)
  BY <1>1 DEF PagesInv, TimelineInv
<1> SUFFICES ASSUME NEW e \in Events, Exists(server'[e]) PROVE server'[e].val.order \in Int
  BY DEF Orders
<1>3. CASE server'[e] = server[e]
  BY <1>2, <1>3 DEF Orders
<1>4. ASSUME NEW m \in turn.muts, server'[e] = [rev |-> server[e].rev + 1, val |-> m.val]
      PROVE  server'[e].val.order \in Int
  <2>0. PICK t \in DOMAIN turn.req.cols : \E i \in DOMAIN turn.req.cols[t] : m.val = [sitting |-> t, order |-> i]
    BY <1>2 DEF ReorderIs
  <2>1. PICK i \in DOMAIN turn.req.cols[t] : m.val = [sitting |-> t, order |-> i]
    BY <2>0
  <2>2. turn.req.cols[t] \in Seq(Events)
    BY <1>2 DEF Arranged
  <2>3. i \in Int
    BY <2>2
  <2>4. m.val.order = i
    BY <2>1
  <2>5. server'[e].val = m.val
    BY <1>4
  <2>6. server'[e].val.order = i
    BY ONLY <2>4, <2>5
  <2> QED BY ONLY <2>3, <2>6
<1>5. \/ server'[e] = server[e]
      \/ \E m \in turn.muts : m.part = e /\ server'[e] = [rev |-> server[e].rev + 1, val |-> m.val]
  BY <1>2, AppliedIs, PartsAre
<1> QED BY <1>3, <1>4, <1>5

LEMMA TransportKeepsTimeline ==
    ASSUME PagesInv, TimelineInv, TransportSteps, page.kind = "timeline"
    PROVE  TimelineInv'
<1>0. UNCHANGED page /\ Orders(server) /\ Orders(shown) /\ BoardInv(page)
  BY DEF TransportSteps, TimelineInv
<1>1. ASSUME Commits, server' = Applied(turn.muts), UNCHANGED shown,
             turn # Idle, turn'.phase # "sent", turn'.req = turn.req
      PROVE  TimelineInv'
  BY <1>0, <1>1, CommitIs, CommitOrders, StoreKeepsTimeline
<1>2. ASSUME UNCHANGED server, shown' \in {server, shown}, turn # Idle, turn'.phase # "sent", turn'.req = turn.req
      PROVE  TimelineInv'
  BY <1>0, <1>2 DEF TimelineInv
<1>3. CASE ServerCommits
  <2>1. turn' = [phase |-> "written", req |-> turn.req, muts |-> turn.muts] /\ turn # Idle
    BY <1>3 DEF ServerCommits, Commits, Idle
  <2>2. turn'.phase # "sent" /\ turn'.req = turn.req
    BY <2>1
  <2> QED BY <1>1, <1>3, <2>1, <2>2 DEF ServerCommits
<1>4. CASE ServerConflicts
  <2>1. turn' = Answered("conflict", {}) /\ turn # Idle /\ UNCHANGED <<server, shown>>
    BY <1>4 DEF ServerConflicts, Idle
  <2>2. turn'.phase # "sent" /\ turn'.req = turn.req
    BY <2>1 DEF Answered
  <2> QED BY <1>2, <2>1, <2>2
<1>5. CASE RequestFails
  <2>1. turn' = Answered("failed", {}) /\ turn # Idle /\ UNCHANGED shown
    BY <1>5 DEF RequestFails, Idle
  <2>2. turn'.phase # "sent" /\ turn'.req = turn.req
    BY <2>1 DEF Answered
  <2>3. (Commits /\ server' = Applied(turn.muts)) \/ UNCHANGED server
    BY <1>5 DEF RequestFails
  <2> QED BY <1>1, <1>2, <2>1, <2>2, <2>3
<1>6. CASE ReadBack
  <2>1. PICK answer : turn' = Answered(answer, turn.muts)
    BY <1>6 DEF ReadBack
  <2>2. turn'.phase # "sent" /\ turn'.req = turn.req
    BY <2>1 DEF Answered
  <2>3. turn # Idle /\ UNCHANGED server /\ shown' \in {server, shown}
    BY <1>6 DEF ReadBack, Idle
  <2> QED BY <1>2, <2>2, <2>3
<1>7. CASE HostPlansDeletion
  <2>1. turn # Idle /\ turn.phase = "host"
    BY <1>7 DEF HostPlansDeletion, Idle
  <2>2. Deletes(turn.req) /\ turn.req.kind = "timeline"
    BY <2>1 DEF PagesInv, TurnIs
  <2> QED BY <2>2 DEF Deletes
<1> QED BY <1>3, <1>4, <1>5, <1>6, <1>7 DEF TransportSteps

LEMMA PrepareKeepsTimeline ==
    ASSUME PagesInv, TimelineInv, Prepare, page.kind = "timeline"
    PROVE  TimelineInv'
<1>0. turn # Idle /\ UNCHANGED page
  BY DEF Prepare, Idle
<1>2. RecordsInv /\ turn.req.kind = "timeline" /\ Read(turn.req.base, server) /\ DOMAIN turn.req.base = Events
  BY <1>0, RequestNow DEF RequestIs, MapRequestIs
<1>3. Refuse("conflict") \/ (~StaleTimeline(turn.req) /\ Send(TimelineMutations(turn.req)))
  BY <1>2 DEF Prepare
<1>1. turn # Idle /\ UNCHANGED <<server, shown, page>>
  BY <1>0, <1>3 DEF Refuse, Send
<1>4. \/ turn' = Answered("conflict", {}) \/ turn' = Answered("ok", {})
      \/ /\ turn' = [phase |-> "sent", req |-> turn.req, muts |-> TimelineMutations(turn.req)]
         /\ ~StaleTimeline(turn.req)
  BY <1>3 DEF Refuse, Send
<1>5. Arranged(turn.req.cols, turn.req.base) /\ Orders(shown) /\ Orders(server) /\ BoardInv(page)
  BY <1>1 DEF TimelineInv
<1>6. CASE turn' = Answered("conflict", {}) \/ turn' = Answered("ok", {})
  <2>1. turn'.phase = "answered" /\ turn'.req = turn.req
    BY <1>6 DEF Answered
  <2> QED BY <1>1, <1>5, <2>1 DEF TimelineInv
<1>7. CASE /\ turn' = [phase |-> "sent", req |-> turn.req, muts |-> TimelineMutations(turn.req)]
           /\ ~StaleTimeline(turn.req)
  <2>1. ReorderIs(turn.req, TimelineMutations(turn.req), server)
    BY <1>2, <1>5, <1>7, PreparedReorder
  <2>2. turn'.req = turn.req /\ turn'.muts = TimelineMutations(turn.req)
    BY <1>7
  <2> QED BY <1>1, <1>5, <2>1, <2>2 DEF TimelineInv
<1> QED BY <1>4, <1>6, <1>7

LEMMA TimelineInit == ASSUME Init PROVE TimelineInv
<1>1. server = Stored /\ shown = Stored /\ turn = Idle /\ \E k \in Kinds : page \in Fresh(k)
  BY DEF Init
<1>2. Orders(Stored)
  BY CampaignAssumption DEF Orders
<1>3. page.kind = "timeline" => page = TimelineView
  <2>1. PICK k \in {"map", "timeline", "vocabulary", "form"} : page \in Fresh(k)
    BY <1>1, CampaignAssumption
  <2>2. page.kind = k
    <3>1. Read(shown, server) /\ DOMAIN shown = Parts
      BY PagesInit DEF PagesInv, RecordsInv
    <3> QED BY <2>1, <3>1, FreshIs
  <2>3. k = "timeline" => page = TimelineView
    BY <2>1 DEF Fresh
  <2> QED BY <2>2, <2>3
<1>4. BoardInv(TimelineView)
  BY DEF BoardInv, TimelineView
<1> QED BY <1>1, <1>2, <1>3, <1>4 DEF TimelineInv

LEMMA TimelineHolds == ASSUME PagesInv, TimelineInv, [Next]_vars PROVE TimelineInv'
<1> SUFFICES ASSUME page.kind = "timeline" PROVE TimelineInv'
  BY KindStays DEF TimelineInv
<1>1. /\ Orders(server) /\ Orders(shown) /\ BoardInv(page) /\ TimelinePageIs(page, server)
      /\ turn # Idle => Arranged(turn.req.cols, turn.req.base)
      /\ turn # Idle /\ turn.phase = "sent" => ReorderIs(turn.req, turn.muts, server)
  BY DEF TimelineInv, PagesInv, PageIs
<1>2. PICK a, b, c, d, e : page = BoardPage(a, b, c, d, e)
  BY <1>1 DEF TimelinePageIs
<1>3. ASSUME UNCHANGED <<server, shown>>, BoardInv(page'),
             \/ turn' = turn \/ turn' = Idle
             \/ turn'.phase # "sent" /\ Arranged(turn'.req.cols, turn'.req.base)
      PROVE  TimelineInv'
  BY <1>1, <1>3 DEF TimelineInv
<1>4. ASSUME page' = [page EXCEPT !.error = TRUE] \/ page' = [page EXCEPT !.error = FALSE] PROVE BoardInv(page')
  <2>1. page' = BoardPage(a, b, c, d, TRUE) \/ page' = BoardPage(a, b, c, d, FALSE)
    BY <1>2, <1>4 DEF BoardPage
  <2> QED BY <1>1, <1>2, <2>1 DEF BoardInv, BoardPage
<1>5. CASE UNCHANGED vars
  BY <1>1, <1>3, <1>5 DEF vars
<1>6. CASE SaveReorder
  <2> DEFINE req == [kind |-> "timeline", base |-> page.base, cols |-> page.cols]
  <2>1. page' = [page EXCEPT !.error = FALSE] /\ turn' = [phase |-> "asked", req |-> req] /\ UNCHANGED <<server, shown>>
    BY <1>6 DEF SaveReorder, Ask
  <2>2. Arranged(page.cols, page.base)
    BY <1>1, <1>6 DEF SaveReorder, Drafted, BoardInv
  <2>3. turn'.phase = "asked" /\ turn'.req.cols = page.cols /\ turn'.req.base = page.base
    BY <2>1
  <2> QED BY <1>3, <1>4, <2>1, <2>2, <2>3
<1>7. CASE TimelineSteps /\ ~SaveReorder /\ ~OthersChangeTimeline
  <2>1. UNCHANGED <<server, shown, turn>>
    BY <1>7 DEF TimelineSteps, MoveByKey, DragStart, Drop, DragEnd, CancelReorder, ToggleEditing, TimelineIdle
  <2>2. BoardInv(page')
    BY <1>1, <1>7, BoardSteps DEF TimelineSteps
  <2> QED BY <1>3, <2>1, <2>2
<1>8. CASE MapSteps
  BY <1>8 DEF MapSteps, MapIdle, Select, EditLocation, Place, ClickMap, OpenEvent, OpenView,
     TypeDraft, CloseMapPanel, SaveDraft, RemovePin, DeleteView, UploadLocalMap, AskMap, OthersChangeMap
<1>9. CASE SettingsSteps
  BY <1>9 DEF SettingsSteps, PageIdle, StartCreate, CancelEdit, CancelDelete, SaveDefinition,
     AddStarter, StartEdit, RequestDelete, TypeDefinition, DeleteDefinition,
     OthersChangeVocabulary, TypeSetting, CancelForm, SaveForm, PickSetting, OthersChangeSetting
<1>10. CASE Navigate
  <2>1. page' = TimelineView /\ UNCHANGED <<server, shown, turn>>
    BY <1>10 DEF Navigate, Fresh
  <2>2. BoardInv(TimelineView)
    BY DEF BoardInv, TimelineView
  <2> QED BY <1>3, <2>1, <2>2
<1>11. CASE Unavailable
  <2>1. turn' = Answered("failed", {}) /\ turn # Idle /\ UNCHANGED <<server, shown, page>>
    BY <1>11 DEF Unavailable, Refuse, Idle
  <2>2. turn'.phase # "sent" /\ turn'.req = turn.req
    BY <2>1 DEF Answered
  <2> QED BY <1>1, <1>3, <2>1, <2>2
<1>12. CASE Hear
  <2>1. turn' = Idle /\ UNCHANGED <<server, shown>> /\ (page' = NoDraft(page) \/ page' = [page EXCEPT !.error = TRUE])
    BY <1>12 DEF Hear, TimelineHears
  <2>2. ASSUME page' = NoDraft(page) PROVE BoardInv(page')
    <3>1. PICK none : page' = BoardPage(a, None, none, None, e)
      <4>1. page' = BoardPage(a, None, <<>>, None, e)
        BY <1>1, <1>2, <2>2, NoDraftIs DEF BoardPage
      <4> WITNESS <<>>
      <4> QED BY <4>1
    <3> QED BY <3>1, BoardInvIs
  <2> QED BY <1>3, <1>4, <2>1, <2>2
<1>13. CASE PageRefreshes
  <2>1. shown' = server /\ page' = page /\ UNCHANGED <<server, turn>>
    BY <1>13 DEF PageRefreshes, Refresh
  <2> QED BY <1>1, <2>1 DEF TimelineInv
<1>14. TimelineSteps => \/ TimelineSteps /\ ~SaveReorder /\ ~OthersChangeTimeline
                        \/ SaveReorder \/ OthersChangeTimeline
  OBVIOUS
<1> QED BY <1>5, <1>6, <1>7, <1>8, <1>9, <1>10, <1>11, <1>12, <1>13, <1>14, OthersKeepTimeline,
           TransportKeepsTimeline, PrepareKeepsTimeline DEF Next

\* Two events of a sorted column.
LEMMA BeforeIsEarlier ==
    ASSUME NEW records, Orders(records), NEW s, NEW d \in InSession(records, s), NEW e \in InSession(records, s)
    PROVE  Before(Column(records, s), d, e) <=> Earlier(records, d, e)
<1> DEFINE col == Column(records, s)
<1>1. /\ \A x : x \in InSession(records, s) <=> \E i \in DOMAIN col : col[i] = x
      /\ \A i, j \in DOMAIN col : i < j => Earlier(records, col[i], col[j])
      /\ DOMAIN col \subseteq Int
  <2>1. col \in Seq(Events)
    BY ColumnIs
  <2>2. DOMAIN col \subseteq Int
    BY <2>1
  <2> QED BY <2>2, ColumnIs
<1>2. Earlier(records, d, e) => d # e /\ ~Earlier(records, e, d)
  BY EarlierOrders DEF InSession
<1> HIDE DEF col
<1>3. PICK i \in DOMAIN col, j \in DOMAIN col : col[i] = d /\ col[j] = e
  BY <1>1
<1>4. Before(col, d, e) => Earlier(records, d, e)
  BY <1>1 DEF Before
<1>5. ASSUME Earlier(records, d, e) PROVE Before(col, d, e)
  <2>1. i # j /\ ~(j < i)
    BY <1>1, <1>2, <1>3, <1>5
  <2>2. i \in Int /\ j \in Int
    BY <1>1
  <2> QED BY <1>3, <2>1, <2>2 DEF Before
<1> QED BY <1>4, <1>5 DEF col

\* A reorder that is stored in this step is the one that was drafted.
LEMMA NextLands ==
    ASSUME PagesInv, TimelineInv, [Next]_vars, Stores, turn.req.kind = "timeline"
    PROVE  AsDrawn
<1> DEFINE req == turn.req
           muts == turn.muts
           cols == req.cols
           same == Same(req, server)
           drawn(s) == IF s \in DOMAIN cols THEN cols[s] ELSE <<>>
<1>1. Commits /\ server' = Applied(muts)
  BY StoresCommits
<1>2. turn # Idle /\ turn.phase = "sent"
  BY <1>1 DEF Commits, Idle
<1>3. /\ RecordsInv /\ page.kind = "timeline" /\ Read(req.base, server) /\ DOMAIN req.base = Events
  BY <1>2, RequestNow DEF RequestIs, MapRequestIs
<1>4. /\ Arranged(cols, req.base) /\ ReorderIs(req, muts, server) /\ Orders(server)
  BY <1>2, <1>3 DEF TimelineInv
<1>5. Orders(server')
  BY <1>1, <1>3, CommitOrders
<1>6. \A e \in Events :
         \/ server'[e] = server[e] /\ e \notin Sent(muts)
         \/ \E m \in muts : m.part = e /\ server'[e] = [rev |-> server[e].rev + 1, val |-> m.val]
  BY <1>1, <1>3, AppliedIs, PartsAre DEF Sent
<1>7. \A t \in DOMAIN cols : cols[t] \in Seq(Events) /\ DOMAIN cols[t] \subseteq Int
  BY <1>4 DEF Arranged
<1>8. ASSUME NEW t \in DOMAIN cols, NEW i \in DOMAIN cols[t], NEW u \in DOMAIN cols, NEW j \in DOMAIN cols[u],
             cols[t][i] = cols[u][j]
      PROVE  t = u /\ i = j
  <2>1. cols[t][i] \in ToSet(cols[t]) \cap ToSet(cols[u])
    BY <1>8 DEF ToSet
  <2>2. t = u
    BY <1>4, <2>1 DEF Arranged
  <2> QED BY <1>4, <1>8, <2>2 DEF Arranged, IsInjective
<1>9. ASSUME NEW t \in DOMAIN cols, NEW i \in DOMAIN cols[t], cols[t][i] \in Sent(muts)
      PROVE  server'[cols[t][i]].val = [sitting |-> t, order |-> i]
  <2> DEFINE e == cols[t][i]
  <2>1. e \in Events
    BY <1>7
  <2>2. PICK m \in muts : m.part = e /\ server'[e] = [rev |-> server[e].rev + 1, val |-> m.val]
    BY <1>6, <1>9, <2>1
  <2>3. PICK u \in DOMAIN cols : \E k \in DOMAIN cols[u] : cols[u][k] = m.part /\ m.val = [sitting |-> u, order |-> k]
    BY <1>4 DEF ReorderIs
  <2>4. PICK k \in DOMAIN cols[u] : cols[u][k] = m.part /\ m.val = [sitting |-> u, order |-> k]
    BY <2>3
  <2>5. u = t /\ k = i
    BY <1>8, <2>2, <2>4
  <2>6. server'[e].val = m.val
    BY <2>2
  <2>7. m.val = [sitting |-> t, order |-> i]
    BY <2>4, <2>5
  <2> QED BY ONLY <2>6, <2>7
<1>10. ASSUME NEW t \in DOMAIN cols, NEW i \in DOMAIN cols[t], cols[t][i] \in Sent(muts)
       PROVE  /\ Placed(server'[cols[t][i]], t, i)
              /\ t \in Int => Exists(server'[cols[t][i]])
  <2> DEFINE e == cols[t][i]
  <2>1. server'[e].val = [sitting |-> t, order |-> i] /\ i \in Int
    BY <1>7, <1>9, <1>10
  <2> HIDE DEF e
  <2>2. Placed(server'[e], t, i)
    BY ONLY <2>1 DEF Placed
  <2>3. t \in Int => Exists(server'[e])
    BY ONLY <2>1, TimelineAssumption DEF Exists
  <2> QED BY <2>2, <2>3 DEF e
<1>11. \A e \in same : e \in Events /\ Exists(server[e])
  <2> SUFFICES ASSUME NEW e \in same PROVE e \in Events /\ Exists(server[e])
    OBVIOUS
  <2>1. e \in Events /\ Exists(req.base[e]) /\ server[e].rev = req.base[e].rev
    BY DEF Same
  <2>2. Version(req.base[e], e, server)
    BY <1>3, <2>1 DEF Read
  <2> QED BY <2>1, <2>2 DEF Version, Exists
<1> HIDE DEF same
<1>12. ASSUME NEW t \in DOMAIN cols, NEW i \in DOMAIN cols[t], cols[t][i] \in same
       PROVE  /\ server'[cols[t][i]].val.sitting = t
              /\ t \in Int => Exists(server'[cols[t][i]])
  <2>1. CASE cols[t][i] \in Sent(muts)
    BY <1>10, <2>1 DEF Placed
  <2>2. CASE cols[t][i] \notin Sent(muts)
    <3>1. server'[cols[t][i]] = server[cols[t][i]] /\ Exists(server[cols[t][i]])
      BY <1>6, <1>11, <1>12, <2>2 DEF Sent
    <3>2. server[cols[t][i]].val.sitting = t
      BY <1>4, <1>12, <2>2 DEF ReorderIs, Renumbered, LeftAlone, Placed, same
    <3> QED BY <3>1, <3>2
  <2> QED BY <2>1, <2>2
<1>13. ASSUME NEW t \in DOMAIN cols, NEW i \in DOMAIN cols[t], NEW j \in DOMAIN cols[t],
              cols[t][i] \in same, cols[t][j] \in same, i < j
       PROVE  Earlier(server', cols[t][i], cols[t][j])
  <2> DEFINE d == cols[t][i]
             e == cols[t][j]
  <2>1. \A k \in DOMAIN cols[t] : cols[t][k] \in same /\ cols[t][k] \notin Sent(muts) =>
           server'[cols[t][k]] = server[cols[t][k]]
    BY <1>6, <1>11 DEF Sent
  <2>2. CASE Renumbered(req, muts, server, t)
    <3>1. Placed(server'[d], t, i) /\ Placed(server'[e], t, j)
      BY <1>10, <1>13, <2>1, <2>2 DEF Renumbered, same
    <3> QED BY <1>13, <3>1 DEF Placed, Earlier
  <2>3. CASE LeftAlone(req, muts, server, t)
    <3>1. server'[d] = server[d] /\ server'[e] = server[e]
      BY <1>13, <2>1, <2>3 DEF LeftAlone
    <3>2. Earlier(server, d, e)
      BY <1>13, <2>3 DEF LeftAlone, same
    <3> HIDE DEF d, e
    <3>3. Earlier(server', d, e)
      BY ONLY <3>1, <3>2 DEF Earlier
    <3> QED BY <3>3 DEF d, e
  <2> QED BY <1>4, <2>2, <2>3 DEF ReorderIs
<1>14. ASSUME NEW s \in 1..MaxSession, NEW x \in same
       PROVE  x \in ToSet(Column(server', s)) <=> x \in ToSet(drawn(s))
  <2>1. ToSet(Column(server', s)) = {e \in Events : Exists(server'[e]) /\ server'[e].val.sitting = s}
    BY <1>5, ColumnHas DEF InSession
  <2>2. PICK t \in DOMAIN cols : x \in ToSet(cols[t])
    BY <1>4 DEF Arranged, same, Same
  <2>3. PICK i \in DOMAIN cols[t] : cols[t][i] = x
    BY <2>2 DEF ToSet
  <2>4. server'[x].val.sitting = t /\ (t \in Int => Exists(server'[x])) /\ x \in Events
    BY <1>11, <1>12, <2>3
  <2>5. s \in Int
    BY TimelineAssumption
  <2>6. x \in ToSet(drawn(s)) <=> s = t
    <3>1. CASE s \in DOMAIN cols
      BY <1>4, <2>2, <3>1 DEF Arranged
    <3>2. CASE s \notin DOMAIN cols
      BY <3>2 DEF ToSet
    <3> QED BY <3>1, <3>2
  <2> QED BY <2>1, <2>4, <2>5, <2>6
<1>15. ASSUME NEW s \in 1..MaxSession, NEW d \in same, NEW e \in same
       PROVE  Before(Column(server', s), d, e) <=> Before(drawn(s), d, e)
  <2>1. CASE d \in ToSet(drawn(s)) /\ e \in ToSet(drawn(s))
    <3>1. s \in DOMAIN cols /\ drawn(s) = cols[s]
      BY <2>1 DEF ToSet
    <3>2. PICK i \in DOMAIN cols[s], j \in DOMAIN cols[s] : cols[s][i] = d /\ cols[s][j] = e
      BY <2>1, <3>1 DEF ToSet
    <3>3. d \in InSession(server', s) /\ e \in InSession(server', s)
      BY <1>5, <1>14, <2>1, ColumnHas
    <3>4. Before(Column(server', s), d, e) <=> Earlier(server', d, e)
      BY <1>5, <3>3, BeforeIsEarlier
    <3>5. Earlier(server', d, e) => d # e /\ ~Earlier(server', e, d)
      BY <1>5, <3>3, EarlierOrders DEF InSession
    <3>6. Before(cols[s], d, e) <=> i < j
      BY <1>8, <3>1, <3>2 DEF Before
    <3>7. i \in Int /\ j \in Int
      BY <1>7, <3>1
    <3>8. /\ i < j => Earlier(server', d, e)
          /\ j < i => Earlier(server', e, d)
      BY <1>13, <3>1, <3>2
    <3>9. i = j => d = e
      BY <3>2
    <3> QED BY <3>1, <3>4, <3>5, <3>6, <3>7, <3>8, <3>9
  <2>2. CASE ~(d \in ToSet(drawn(s)) /\ e \in ToSet(drawn(s)))
    <3>1. \A col : Before(col, d, e) => d \in ToSet(col) /\ e \in ToSet(col)
      BY DEF Before, ToSet
    <3> QED BY <1>14, <2>2, <3>1
  <2> QED BY <2>1, <2>2
<1>16. same = {e \in Events : Exists(req.base[e]) /\ server[e].rev = req.base[e].rev}
  BY DEF same, Same
<1>17. \A s \in 1..MaxSession :
          /\ ToSet(Column(server', s)) \cap same = ToSet(drawn(s)) \cap same
          /\ \A d, e \in same : Before(Column(server', s), d, e) <=> Before(drawn(s), d, e)
  BY <1>14, <1>15
<1> QED BY <1>16, <1>17 DEF AsDrawn

-----------------------------------------------------------------------------
(* How unsaved edits end.                                                  *)

EndsSaved ==
    \/ turn = Idle /\ shown' = shown
    \/ turn.phase = "answered" /\ turn.answer = "ok" /\ Includes(shown, turn.muts)

WithError(v)  == [v EXCEPT !.error = TRUE]
NotDragged(v) == [v EXCEPT !.drag = None]

\* A message about a failure, or the end of a drag, is not an edit.
LEMMA MessageIsNoEdit ==
    ASSUME NEW v, NEW s, PageIs(v, s), NEW w,
           w = WithError(v) \/ (v.kind = "timeline" /\ w = NotDragged(v))
    PROVE  Unsaved(w) = Unsaved(v)
<1>1. CASE v.kind = "map"
  <2>1. v = [kind |-> "map", map |-> v.map, selected |-> v.selected, placing |-> v.placing,
             draft |-> v.draft, error |-> v.error]
    BY <1>1 DEF PageIs, MapPageIs
  <2>2. w.kind = "map" /\ w.draft = v.draft
    BY <1>1, <2>1 DEF WithError
  <2> QED BY <1>1, <2>2 DEF Unsaved
<1>2. CASE v.kind = "timeline"
  <2>1. PICK a, b, c, d, e : v = BoardPage(a, b, c, d, e)
    BY <1>2 DEF PageIs, TimelinePageIs
  <2>2. w = BoardPage(a, b, c, d, TRUE) \/ w = BoardPage(a, b, c, None, e)
    BY <2>1 DEF BoardPage, WithError, NotDragged
  <2>3. w.kind = v.kind /\ w.base = v.base /\ w.cols = v.cols
    BY <2>1, <2>2 DEF BoardPage
  <2> QED BY <1>2, <2>3 DEF Unsaved
<1>3. CASE v.kind = "vocabulary"
  <2>1. PICK a, b, c, d, e : v = VocabularyPage(a, b, c, d, e)
    BY <1>3 DEF PageIs, VocabularyPageIs
  <2>2. w = VocabularyPage(a, b, c, d, TRUE)
    BY <1>3, <2>1 DEF VocabularyPage, WithError
  <2> QED BY <2>1, <2>2 DEF Unsaved, VocabularyPage
<1>4. CASE v.kind = "form"
  <2>1. PICK a, b, c, d : v = FormPage(a, b, c, d)
    BY <1>4 DEF PageIs, FormPageIs
  <2>2. w = FormPage(a, b, c, TRUE)
    BY <1>4, <2>1 DEF FormPage, WithError
  <2> QED BY <2>1, <2>2 DEF Unsaved, FormPage
<1> QED BY <1>1, <1>2, <1>3, <1>4 DEF PageIs

\* A form that a refresh redraws has nothing typed into it.
LEMMA UntypedIsSaved ==
    ASSUME NEW v, NEW s, v.kind = "form", FormPageIs(v, s), Adopts(v)
    PROVE  Unsaved(v) = {}
<1>1. v.typed = [q \in DOMAIN v.typed |-> v.typed[q]] /\ DOMAIN v.typed = {}
  BY DEF FormPageIs, Adopts
<1>2. v.typed = <<>>
  BY <1>1
<1> QED BY <1>2 DEF Unsaved

LEMMA NextEndsSaved ==
    ASSUME PagesInv, [Next]_vars, Unsaved(page) # {}, Unsaved(page') # Unsaved(page)
    PROVE  EndsSaved
<1>0. PageIs(page, server) /\ page' # page
  BY DEF PagesInv
<1>1. CASE MapSteps
  BY <1>0, <1>1 DEF MapSteps, MapIdle, Select, EditLocation, Place, ClickMap, OpenEvent, OpenView,
     TypeDraft, CloseMapPanel, SaveDraft, RemovePin, DeleteView, UploadLocalMap, AskMap, Ask, Locked,
     OthersChangeMap, EndsSaved
<1>2. CASE TimelineSteps
  <2>1. CASE \E e \in Events, s \in 1..MaxSession, i \in 1..Len(EventSeq) : MoveByKey(e, s, i)
    BY <2>1 DEF MoveByKey, TimelineIdle, Locked, EndsSaved
  <2>2. CASE \/ \E e \in Events : DragStart(e)
             \/ CancelReorder \/ ToggleEditing \/ SaveReorder
    BY <2>2 DEF DragStart, CancelReorder, ToggleEditing, SaveReorder, TimelineIdle, Ask, Locked, EndsSaved
  <2>3. ASSUME page.kind = "timeline", page' = NotDragged(page) PROVE FALSE
    BY <1>0, <2>3, MessageIsNoEdit
  <2>4. CASE DragEnd
    BY <2>3, <2>4 DEF DragEnd, NotDragged
  <2>5. ASSUME NEW s, NEW i, Drop(s, i) PROVE EndsSaved
    BY <2>3, <2>5 DEF Drop, NotDragged, Locked, EndsSaved
  <2>6. CASE OthersChangeTimeline
    BY <1>0, <2>6 DEF OthersChangeTimeline
  <2> QED BY <1>2, <2>1, <2>2, <2>4, <2>5, <2>6 DEF TimelineSteps
<1>3. CASE SettingsSteps
  BY <1>0, <1>3 DEF SettingsSteps, PageIdle, StartCreate, CancelEdit, CancelDelete, SaveDefinition,
     AddStarter, StartEdit, RequestDelete, TypeDefinition, DeleteDefinition, AskVocabulary,
     OthersChangeVocabulary, TypeSetting, CancelForm, SaveForm, PickSetting, AskForm, Ask, Locked,
     OthersChangeSetting, EndsSaved
<1>4. CASE Navigate
  BY <1>4 DEF Navigate, Locked, EndsSaved
<1>5. CASE Unavailable \/ Prepare \/ TransportSteps \/ UNCHANGED vars
  BY <1>0, <1>5 DEF Unavailable, Prepare, TransportSteps, vars
<1>6. CASE Hear
  <2>1. turn.phase = "answered" /\ turn # Idle
    BY <1>6 DEF Hear, Idle
  <2>2. CASE turn.answer = "ok"
    BY <2>1, <2>2 DEF PagesInv, TurnIs, EndsSaved
  <2>3. CASE turn.answer # "ok"
    <3>1. page' = WithError(page)
      BY <1>0, <1>6, <2>3 DEF WithError, Hear, MapHears, TimelineHears, VocabularyHears, FormHears, PageIs
    <3> QED BY <1>0, <3>1, MessageIsNoEdit
  <2> QED BY <2>2, <2>3
<1>7. CASE PageRefreshes
  <2>1. page.kind = "form" /\ Adopts(page)
    BY <1>0, <1>7 DEF PageRefreshes, FormShows
  <2> QED BY <1>0, <2>1, UntypedIsSaved DEF PageIs
<1> QED BY <1>1, <1>2, <1>3, <1>4, <1>5, <1>6, <1>7 DEF Next

-----------------------------------------------------------------------------
(* The theorems.                                                           *)

\* A write of a campaign page replaces nothing its user had not seen, a deletion
\* that moves uses moves only the ones that still hold the item, and a placed
\* pin stays on the map it was placed on.
THEOREM WritesReplaceOnlyWhatWasSeen == Spec => StoredAsSeen
<1>1. Init => PagesInv
  BY PagesInit
<1>2. PagesInv /\ [Next]_vars => PagesInv'
  BY PagesHold
<1>3. PagesInv /\ [Next]_vars /\ Stores => NothingUnseenIsReplaced /\ CascadesAreGuarded /\ PinsStayOnTheirMap
  BY NextStoresAsSeen
<1> QED BY <1>1, <1>2, <1>3, PTL DEF Spec, StoredAsSeen

\* A stored reorder shows the events that no other writer changed in the sessions and in
\* the order that the draft showed, whatever was stored while it was open.
THEOREM ReordersLand == Spec => ReorderLands
<1>1. Init => PagesInv /\ TimelineInv
  BY PagesInit, TimelineInit
<1>2. PagesInv /\ TimelineInv /\ [Next]_vars => PagesInv' /\ TimelineInv'
  BY PagesHold, TimelineHolds
<1>3. PagesInv /\ TimelineInv /\ [Next]_vars /\ Stores /\ turn.req.kind = "timeline" => AsDrawn
  BY NextLands
<1> QED BY <1>1, <1>2, <1>3, PTL DEF Spec, ReorderLands

\* Unsaved edits of a campaign page end by the user's own hand or once the campaign
\* shown holds the change.
THEOREM UnsavedEditsEndSaved == Spec => EditsEndSaved
<1>1. Init => PagesInv
  BY PagesInit
<1>2. PagesInv /\ [Next]_vars => PagesInv'
  BY PagesHold
<1>3. PagesInv /\ [Next]_vars /\ Unsaved(page) # {} /\ Unsaved(page') # Unsaved(page) => EndsSaved
  BY NextEndsSaved
<1> QED BY <1>1, <1>2, <1>3, PTL DEF Spec, EditsEndSaved, EndsSaved
==============================================================================
