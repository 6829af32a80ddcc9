---------------------------- MODULE AddonLinks ----------------------------
(***************************************************************************)
(* What add-ons say about rule references (app/addon-links-controller.ts   *)
(* with addons/wiki-links.ts, model-request.ts and the elements of         *)
(* codex-addon-rule-details.ts): the references a view shows are resolved  *)
(* in batches by the active providers, and a search page asks them too.    *)
(* A change of the add-ons or of the role invalidates everything.  A view  *)
(* that is taken out is not put back; another one begins anew.             *)
(***************************************************************************)
EXTENDS Integers, FiniteSets, Sequences, SequencesExt

CONSTANTS
    References,  \* what can be shown
    Topics,      \* what can be searched for
    Capacity,    \* entries the cache may have (1000 in the code)
    MaxEvents    \* bound: what readers and add-ons do

VARIABLES
    world,       \* versions of the add-ons and of the role
    links,       \* the controller of a view
    events       \* what readers and add-ons did

linkVars == <<world, links, events>>

ASSUME LinksAssumption == Capacity \in Nat \ {0} /\ MaxEvents \in Nat

NoTopic == "no topic"
Unseen == [addons |-> 0, role |-> 0]
NoFind == [topic |-> NoTopic, seen |-> Unseen]

\* role: the one adopted; aborted: the owner of everything asked; due: the view is to be
\* drawn; drawing: it is being drawn, and nothing else runs; cache: entries [ref, loading,
\* seen] in their order, resolved, missing and failed alike; pending: to be asked for;
\* asked: batches under way; typed, topic, found, requests: what is typed, searched, shown
\* and asked on a search page.
LinksInit ==
    /\ world = [addons |-> 1, role |-> 1] /\ events = 0
    /\ links = [gone |-> FALSE, subscribed |-> FALSE, aborted |-> FALSE, role |-> 0, due |-> TRUE,
                drawing |-> FALSE, cache |-> <<>>, pending |-> {}, asked |-> {}, typed |-> NoTopic,
                topic |-> NoTopic, found |-> NoFind, requests |-> {}]

Happens == ~links.drawing /\ events < MaxEvents /\ events' = events + 1
LinksAre(e) == links' = e

-----------------------------------------------------------------------------
(* The controller.                                                         *)

GivenUp(requests) == {[r EXCEPT !.aborted = TRUE] : r \in requests}

\* Everything is forgotten and what was asked is given up.
Retry(e) ==
    [e EXCEPT !.aborted = FALSE, !.due = TRUE, !.pending = {}, !.asked = GivenUp(@),
              !.cache = <<>>, !.topic = NoTopic, !.found = NoFind, !.requests = GivenUp(@)]

\* Before the view is drawn.
HostUpdate(e) ==
    IF e.role = world.role /\ ~e.aborted THEN e
    ELSE [Retry(e) EXCEPT !.role = world.role, !.subscribed = TRUE]

\* Entries that are being resolved stay.
Evictable(e) == {i \in DOMAIN e.cache : ~e.cache[i].loading}

\* Room is made by the oldest settled entry, when there is one.
Roomy(e) ==
    IF Len(e.cache) < Capacity \/ Evictable(e) = {} THEN e
    ELSE LET gone == CHOOSE i \in Evictable(e) : \A j \in Evictable(e) : i <= j
         IN  [e EXCEPT !.cache = RemoveAt(@, gone)]

Cached(e, ref) == \E i \in DOMAIN e.cache : e.cache[i].ref = ref

\* A reference is shown, by the view itself or by a rule detail in it; the ones that are
\* not cached are missing, or loading from now on.
Resolve(e, ref) ==
    LET d == Roomy(e) IN
    IF Cached(e, ref) THEN e
    ELSE IF Len(d.cache) >= Capacity THEN d
    ELSE [d EXCEPT !.cache = Append(@, [ref |-> ref, loading |-> TRUE, seen |-> Unseen]),
                   !.pending = @ \cup {ref}, !.due = TRUE]

\* The search page asks for another topic.
SearchTopic(e) ==
    IF e.typed = e.topic THEN e
    ELSE [e EXCEPT !.topic = e.typed, !.found = NoFind,
                   !.requests = GivenUp(@) \cup IF e.typed = NoTopic THEN {}
                      ELSE {[topic |-> e.typed, seen |-> world, aborted |-> FALSE]}]

\* What was found missing while the view was drawn is asked for together.
HostUpdated(e) ==
    IF e.pending = {} \/ e.aborted THEN e
    ELSE [e EXCEPT !.pending = {},
                   !.asked = @ \cup {[refs |-> e.pending, seen |-> world, aborted |-> FALSE]}]

-----------------------------------------------------------------------------

\* The view is drawn, in one go; one that is gone may be drawn once more.
DrawBegins ==
    /\ links.due /\ ~links.drawing
    /\ LinksAre([HostUpdate(links) EXCEPT !.drawing = TRUE]) /\ UNCHANGED <<world, events>>

DrawShows(ref) ==
    /\ links.drawing /\ LinksAre(Resolve(links, ref)) /\ UNCHANGED <<world, events>>

DrawEnds ==
    /\ links.drawing
    /\ LinksAre([HostUpdated(SearchTopic(links)) EXCEPT !.due = FALSE, !.drawing = FALSE])
    /\ UNCHANGED <<world, events>>

\* A rule detail appears, or is told to look again.
ShowDetail(ref) ==
    /\ Happens /\ ~links.gone /\ LinksAre(Resolve(links, ref)) /\ UNCHANGED world

Type(topic) ==
    /\ Happens /\ ~links.gone /\ topic # links.typed
    /\ LinksAre([links EXCEPT !.typed = topic, !.due = TRUE]) /\ UNCHANGED world

\* The registry tells those who listen that its add-ons changed.
ProvidersChange ==
    /\ Happens /\ world' = [world EXCEPT !.addons = @ + 1]
    /\ LinksAre(IF links.subscribed THEN Retry(links) ELSE links)

\* The view is given another role or registry.
RoleChanges ==
    /\ Happens /\ ~links.gone /\ world' = [world EXCEPT !.role = @ + 1]
    /\ LinksAre([links EXCEPT !.due = TRUE])

Disconnect ==
    /\ Happens /\ ~links.gone
    /\ LinksAre([links EXCEPT !.gone = TRUE, !.subscribed = FALSE, !.aborted = TRUE,
                              !.asked = GivenUp(@), !.requests = GivenUp(@)])
    /\ UNCHANGED world

\* Mutant: answers that were given up count.
HeededAlways(r) == TRUE

Heeded(r) == ~r.aborted

\* The providers answer, fail, stop or run into their deadline; the reference is cached
\* anew if it is not there.
Settles(e, b) ==
    LET known == {r \in b.refs : Cached(e, r)}
        of(r) == [ref |-> r, loading |-> FALSE, seen |-> b.seen]
    IN  [e EXCEPT !.due = TRUE,
           !.cache = [i \in DOMAIN @ |-> IF @[i].ref \in known THEN of(@[i].ref) ELSE @[i]]
                     \o [i \in 1..Cardinality(b.refs \ known) |-> of(SetToSeq(b.refs \ known)[i])]]

Answers(b) ==
    /\ ~links.drawing /\ b \in links.asked
    /\ LET e == [links EXCEPT !.asked = @ \ {b}] IN
       LinksAre(IF Heeded(b) THEN Settles(e, b) ELSE e)
    /\ UNCHANGED <<world, events>>

Found(r) ==
    /\ ~links.drawing /\ r \in links.requests
    /\ LET e == [links EXCEPT !.requests = @ \ {r}] IN
       LinksAre(IF Heeded(r)
                THEN [e EXCEPT !.found = [topic |-> r.topic, seen |-> r.seen], !.due = TRUE]
                ELSE e)
    /\ UNCHANGED <<world, events>>

LinksNext ==
    \/ ProvidersChange \/ RoleChanges \/ Disconnect
    \/ DrawBegins \/ DrawEnds
    \/ \E ref \in References : DrawShows(ref) \/ ShowDetail(ref)
    \/ \E t \in Topics : Type(t)
    \/ \E b \in links.asked : Answers(b)
    \/ \E r \in links.requests : Found(r)

LinksSpec == LinksInit /\ [][LinksNext]_linkVars

-----------------------------------------------------------------------------
(* Properties.                                                             *)

\* Once the view is drawn, what it shows of references and of its search comes from the
\* add-ons and for the role it has now, however late an answer comes.
LinksAreCurrent ==
    ~links.gone /\ ~links.due =>
      /\ \A i \in DOMAIN links.cache : links.cache[i].loading \/ links.cache[i].seen = world
      /\ links.found = NoFind \/ links.found = [topic |-> links.typed, seen |-> world]

\* A reference that is shown as loading is waited for: neither a full cache nor a change of
\* the add-ons leaves one loading for ever.
LoadingIsAsked ==
    ~links.gone /\ ~links.due => \A i \in DOMAIN links.cache :
      links.cache[i].loading =>
        \E b \in links.asked : ~b.aborted /\ links.cache[i].ref \in b.refs

\* What is asked for keeps its entry, so answers never take the cache past its capacity.
CacheIsBounded == Len(links.cache) <= Capacity

\* References end current, within the bound, and none is left loading.
LinksSettle == LinksAreCurrent /\ LoadingIsAsked /\ CacheIsBounded

=============================================================================
