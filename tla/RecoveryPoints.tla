-------------------------- MODULE RecoveryPoints --------------------------
(***************************************************************************)
(* Campaign recovery points: the host's points of each part, the campaign  *)
(* and an add-on (internal/storage/sqlite/recoverystore with its triggers, *)
(* transport/httpapi/recovery.go), and the settings page on which the DM   *)
(* reviews and restores them (app/codex-recovery-settings.ts,              *)
(* core/recovery.ts), while others write to the campaign and restore too.  *)
(*                                                                         *)
(* Of the campaign the model keeps which incarnation of one record exists, *)
(* and of the add-on the incarnation that its saved extension belongs to.  *)
(***************************************************************************)
EXTENDS Integers, FiniteSets

CONSTANTS
    Large,      \* incarnations that make the campaign too large for a point
    MaxLives,   \* bound: incarnations of the record
    MaxBuilds,  \* bound: builds of the add-on
    Kept,       \* points kept of each part (50 in the code)
    MaxActs     \* bound: what the DM, writers and operators do

ASSUME PointsAssumption == Kept \in Nat \ {0} /\ MaxActs \in Nat /\ Large \subseteq 1..MaxLives

VARIABLES
    recovery,   \* the host: its data, points and review revision
    panel,      \* the settings page
    wire,       \* requests for changes that the host has not served
    acts        \* what happened

pointVars == <<recovery, panel, wire, acts>>

Scopes == {"campaign", "addon"}
Gone == 0
NoList == [none |-> TRUE]

\* data: what each part holds; points: the newest has the greatest ID; due: a minute passed
\* since the last automatic point.
Store ==
    [revision |-> 0, data |-> [p \in Scopes |-> Gone], lives |-> 0, build |-> 1, last |-> 0,
     points |-> [p \in Scopes |-> {}], due |-> [p \in Scopes |-> TRUE]]

\* review: the request that is being reviewed; reload: nothing may be restored or deleted
\* until the list was read; asked: the request under way and how far it got.
Panel ==
    [listing |-> NoList, review |-> NoList, reload |-> FALSE, selection |-> "campaign",
     asked |-> [kind |-> "list", phase |-> "done"], importing |-> "no"]

Acts == acts < MaxActs /\ acts' = acts + 1

-----------------------------------------------------------------------------
(* The store.  Each operator is one transaction.                           *)

TooLarge(r, p) == p = "campaign" /\ r.data[p] \in Large

Image(r, p) == [data |-> r.data[p], build |-> IF p = "addon" THEN r.build ELSE 0]

\* Points in descending order of their IDs.
Rank(x, points) == Cardinality({y \in points : y.id > x.id}) + 1
Newest(n, points) == {x \in points : Rank(x, points) <= n}
Saves(points) == {x \in points : x.reason = "save"}

\* A trigger moves the revision and drops the part's oldest points.
Insert(r, p, reason, image) ==
    [r EXCEPT !.revision = @ + 1, !.last = @ + 1,
              !.points[p] = Newest(Kept, @ \cup {[id |-> r.last + 1, reason |-> reason, image |-> image]})]

Capture(r, p, reason) == Insert(r, p, reason, Image(r, p))

\* At most once a minute, and again a minute later for a part that is too large.
BeforeWrite(r, p) ==
    IF ~r.due[p] THEN r
    ELSE [(IF TooLarge(r, p) THEN r ELSE Capture(r, p, "save")) EXCEPT !.due[p] = FALSE]

\* Mutant: a change of data does not move the revision.
ChangedQuietly(r, p, data) == [BeforeWrite(r, p) EXCEPT !.data[p] = data]

\* Triggers on every table of a part move the revision.
Changed(r, p, data) == [BeforeWrite(r, p) EXCEPT !.revision = @ + 1, !.data[p] = data]

\* A point that equals the part's current state.
Downloaded(r, p) == IF \E x \in Newest(1, r.points[p]) : x.image = Image(r, p) THEN r
                    ELSE Capture(r, p, "download")

\* The parts of a campaign, in the order they are captured.
Latest(r) == Downloaded(Downloaded(r, "campaign"), "addon")

\* An imported backup has the parts as another host with the newest incarnation has them.
InsertImported(r, p) == Insert(r, p, "imported", [Image(r, p) EXCEPT !.data = r.lives])

\* An add-on's point needs the build that is active, and the incarnation of the record
\* that its extension belongs to.
CompatibleContext(r, p, image) ==
    p = "addon" => image.build = r.build /\ image.data \in {Gone, r.data["campaign"]}

\* A point by its ID, or the n-th newest automatic one.
ChosenPoints(r, q) ==
    IF q.kind = "revert"
    THEN {x \in Saves(r.points[q.part]) : Rank(x, Saves(r.points[q.part])) = q.choice}
    ELSE {x \in r.points[q.part] : x.id = q.choice}

\* Only the revision that was reviewed can be acted on.
Claims(r, q) == q.revision = r.revision

Refused(r, q) ==
    CASE q.kind = "create" -> TooLarge(r, "campaign")
      [] q.kind = "import" -> FALSE
      [] q.kind = "delete" -> ~Claims(r, q) \/ ChosenPoints(r, q) = {}
      [] q.kind \in {"restore", "revert"} ->
           \/ ~Claims(r, q) \/ TooLarge(r, q.part)
           \/ ~\E x \in ChosenPoints(r, q) : CompatibleContext(r, q.part, x.image)

\* The state that is replaced becomes a point, and the next edit begins a new group.
Restore(r, q) ==
    LET point == CHOOSE x \in ChosenPoints(r, q) : TRUE
    IN  [Capture(r, q.part, "pre-restore") EXCEPT
            !.revision = @ + 1, !.due[q.part] = TRUE, !.data[q.part] = point.image.data]

Delete(r, q) ==
    [r EXCEPT !.revision = @ + 1, !.points[q.part] = @ \ ChosenPoints(r, q)]

Effect(r, q) ==
    CASE q.kind = "create" -> Capture(Capture(r, "campaign", "manual"), "addon", "manual")
      [] q.kind = "import" -> InsertImported(InsertImported(r, "campaign"), "addon")
      [] q.kind = "delete" -> Delete(r, q)
      [] OTHER -> Restore(r, q)

\* Points of obsolete builds go with them.
RetireAddonGeneration(r) ==
    [r EXCEPT !.revision = @ + 1, !.due["addon"] = TRUE,
              !.points["addon"] = {x \in @ : x.image.build = r.build}]

\* The list; data (history) is what the parts hold as it is read.
List(r) == [revision |-> r.revision, points |-> r.points, data |-> r.data,
            fits |-> [p \in Scopes |-> {x \in r.points[p] : CompatibleContext(r, p, x.image)}]]

AMinuteLater(r) == [r EXCEPT !.due = [p \in Scopes |-> TRUE]]
Created(r) == [Changed(r, "campaign", r.lives + 1) EXCEPT !.lives = @ + 1]
Extended(r) == Changed(r, "addon", r.data["campaign"])

\* The record and its extension were made, deleted and, a minute later, made anew.
Begun == LET once == AMinuteLater(Extended(Created(Store)))
         IN  AMinuteLater(Extended(Created(Changed(once, "campaign", Gone))))

PointsInit == recovery = Begun /\ panel = Panel /\ wire = {} /\ acts = 0

-----------------------------------------------------------------------------
(* Writers, operators and other pages of the DM.                           *)

HostDoes(r) == recovery' = r

\* The record is created anew or deleted, or the add-on saves or drops its extension.
Write ==
    \/ recovery.lives < MaxLives /\ HostDoes(Created(recovery))
    \/ recovery.data["campaign"] # Gone /\ HostDoes(Changed(recovery, "campaign", Gone))
    \/ \E life \in {Gone, recovery.data["campaign"]} \ {recovery.data["addon"]} :
         HostDoes(Changed(recovery, "addon", life))

\* An update activates another build; cleanup retires the builds that are not active.
Packages ==
    \/ /\ recovery.build < MaxBuilds
       /\ HostDoes([recovery EXCEPT !.build = @ + 1, !.revision = @ + 1])
    \/ /\ \E x \in recovery.points["addon"] : x.image.build # recovery.build
       /\ HostDoes(RetireAddonGeneration(recovery))

Download == ~TooLarge(recovery, "campaign") /\ HostDoes(Latest(recovery))

\* Another page has just read the list.
Elsewhere ==
    \E kind \in {"restore", "delete"}, p \in Scopes : \E x \in recovery.points[p] :
       LET q == [kind |-> kind, part |-> p, choice |-> x.id, revision |-> recovery.revision]
       IN  ~Refused(recovery, q) /\ HostDoes(Effect(recovery, q))

Others == Acts /\ (Write \/ Packages \/ Download \/ Elsewhere) /\ UNCHANGED <<panel, wire>>

MinutePasses ==
    /\ recovery # AMinuteLater(recovery) /\ HostDoes(AMinuteLater(recovery))
    /\ UNCHANGED <<panel, wire, acts>>

-----------------------------------------------------------------------------
(* The settings page.                                                      *)

Busy == panel.asked # NoList
Reviewing == panel.review # NoList
Page(e) == panel' = e

\* A list is read at once; a change is sent first.
Asking(e, q) == [e EXCEPT !.asked = [kind |-> q.kind, phase |-> "sent", n |-> acts]]
Reading(e) == IF e.asked # NoList THEN e
              ELSE [e EXCEPT !.asked = [kind |-> "list", phase |-> "done"]]

\* acts tells one request from another.
Sent(q) == wire' = wire \cup {[req |-> q, n |-> acts]}

Refresh == Acts /\ ~Busy /\ Page(Reading(panel)) /\ UNCHANGED <<recovery, wire>>

Create ==
    /\ Acts /\ ~Busy /\ ~Reviewing
    /\ Page(Asking(panel, [kind |-> "create"])) /\ Sent([kind |-> "create"])
    /\ UNCHANGED recovery

\* Another part that has points; the campaign always can be selected.
Select(p) ==
    /\ ~Busy /\ ~Reviewing /\ p # panel.selection
    /\ \/ p = "campaign"
       \/ panel.listing # NoList /\ panel.listing.points[p] # {}
    /\ Page([panel EXCEPT !.selection = p]) /\ UNCHANGED <<recovery, wire, acts>>

\* What is reviewed, and (history) the point and the data that the DM is shown.
ShowReview(kind, choice, point) ==
    Page([panel EXCEPT !.review =
            [kind |-> kind, part |-> panel.selection, choice |-> choice,
             revision |-> panel.listing.revision,
             shown |-> point, over |-> panel.listing.data]])

\* A review is begun from the list, which must not be in doubt.
Reviewable == ~Busy /\ ~Reviewing /\ panel.listing # NoList /\ ~panel.reload
Listed == panel.listing.points[panel.selection]

Review ==
    /\ Reviewable
    /\ \E kind \in {"restore", "delete"}, x \in Listed : ShowReview(kind, x.id, x)
    /\ UNCHANGED <<recovery, wire, acts>>

Revert ==
    /\ Reviewable
    /\ \E x \in Saves(Listed) : ShowReview("revert", Rank(x, Saves(Listed)), x)
    /\ UNCHANGED <<recovery, wire, acts>>

CloseReview ==
    /\ ~Busy /\ Reviewing /\ Page([panel EXCEPT !.review = NoList])
    /\ UNCHANGED <<recovery, wire, acts>>

\* Only a point that fitted when it was listed can be restored.
Ready(q) == q.kind = "delete" \/ q.shown \in panel.listing.fits[q.part]

Confirm ==
    /\ Acts /\ ~Busy /\ Reviewing /\ Ready(panel.review)
    /\ Page(Asking(panel, panel.review)) /\ Sent(panel.review)
    /\ UNCHANGED recovery

\* The host serves a request, even one that the page gave up.
HostServes(m) ==
    /\ m \in wire /\ wire' = wire \ {m}
    /\ HostDoes(IF Refused(recovery, m.req) THEN recovery ELSE Effect(recovery, m.req))
    /\ Page(IF m.req.kind = "import"
            THEN [panel EXCEPT !.importing = IF @ = "sent" THEN "done" ELSE @]
            ELSE IF Busy /\ panel.asked = [kind |-> m.req.kind, phase |-> "sent", n |-> m.n]
            THEN [panel EXCEPT !.asked.phase = IF Refused(recovery, m.req) THEN "refused" ELSE "done"]
            ELSE panel)
    /\ UNCHANGED acts

\* The answer is the list as it is after the change and whatever came between.
HostLists ==
    /\ Busy /\ panel.asked.phase = "done"
    /\ Page([panel EXCEPT !.asked = [phase |-> "listed", listing |-> List(recovery)]])
    /\ UNCHANGED <<recovery, wire, acts>>

Hear ==
    /\ Busy /\ panel.asked.phase = "listed"
    /\ LET e == [panel EXCEPT !.listing = panel.asked.listing, !.asked = NoList,
                              !.review = NoList, !.reload = FALSE]
       IN  Page([e EXCEPT !.selection = IF e.listing.points[@] = {} THEN "campaign" ELSE @])
    /\ UNCHANGED <<recovery, wire, acts>>

\* Refused, lost, or an answer that cannot be read.
RequestFails ==
    /\ Busy /\ Page([panel EXCEPT !.asked = NoList, !.review = NoList, !.reload = TRUE])
    /\ UNCHANGED <<recovery, wire, acts>>

\* A backup is uploaded beside the other requests.
Import ==
    /\ Acts /\ ~Busy /\ panel.importing = "no"
    /\ Page([panel EXCEPT !.importing = "sent"]) /\ Sent([kind |-> "import"])
    /\ UNCHANGED recovery

\* Then the list is read, unless something else is under way.
ImportSucceeds ==
    /\ panel.importing = "done"
    /\ Page(Reading([panel EXCEPT !.importing = "no", !.selection = "campaign"]))
    /\ UNCHANGED <<recovery, wire, acts>>

\* Refused or lost; the host may have the points, or get them yet.
ImportFails ==
    /\ panel.importing # "no" /\ Page(Reading([panel EXCEPT !.importing = "no"]))
    /\ UNCHANGED <<recovery, wire, acts>>

\* The page is left, and opened again.
Reopen == Acts /\ Page(Panel) /\ UNCHANGED <<recovery, wire>>

PointsNext ==
    \/ Others \/ MinutePasses
    \/ Refresh \/ Create \/ Review \/ Revert \/ CloseReview \/ Confirm \/ Import
    \/ HostLists \/ Hear \/ RequestFails \/ ImportSucceeds \/ ImportFails \/ Reopen
    \/ \E p \in Scopes : Select(p)
    \/ \E m \in wire : HostServes(m)

PointsSpec == PointsInit /\ [][PointsNext]_pointVars

-----------------------------------------------------------------------------
(* Properties.                                                             *)

\* The request of the page that the host carries out in this step.
Carried == {m.req : m \in {x \in wire \ wire' : ~Refused(recovery, x.req)}}

\* What the DM confirmed comes about, over the data that the list was read from, whatever
\* happened since the review and however late the request arrives.
ReviewHolds(q) ==
    /\ recovery.data = q.over
    /\ q.kind = "delete" => q.shown \notin recovery'.points[q.part]
    /\ q.kind # "delete" => recovery'.data[q.part] = q.shown.image.data

\* What a restore replaces is the newest point of its part, one that an automatic point
\* does not follow before the next edit, and the other part is left alone.
ReplacedStateIsKept(q) ==
    /\ \E x \in Newest(1, recovery'.points[q.part]) : x.image.data = recovery.data[q.part]
    /\ recovery'.due[q.part]
    /\ \A p \in Scopes \ {q.part} :
          recovery'.data[p] = recovery.data[p] /\ recovery'.points[p] = recovery.points[p]

\* Saved extension data is never attached to a different incarnation of a record.
ExtensionsFit == recovery'.data["addon"] \in {Gone, recovery'.data["campaign"]}

\* A reviewed restore, revert or deletion does what was reviewed to the state that was
\* reviewed; a restore can be undone, concerns one part and attaches nothing to a record
\* of the same key that is another one (BACKUP_RESTORE.md, "Campaign recovery points").
RestoresAreReviewed ==
    [][\A q \in Carried : q.kind \in {"restore", "revert", "delete"} =>
          /\ ReviewHolds(q)
          /\ q.kind # "delete" => ReplacedStateIsKept(q)
          /\ q.kind # "delete" /\ q.part = "addon" => ExtensionsFit]_pointVars

=============================================================================
