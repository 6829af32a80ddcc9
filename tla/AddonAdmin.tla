----------------------------- MODULE AddonAdmin -----------------------------
(***************************************************************************)
(* The DM's add-on page: the manager with its install dialog, reviews and  *)
(* Update all (app/codex-addon-manager.ts, addon-update-all.ts), the       *)
(* requests it shares with the GitHub sources (addon-github-controller.ts, *)
(* admin-request-controller.ts), the install wizard                        *)
(* (codex-addon-install.ts), the saved-data upgrade                        *)
(* (codex-addon-schema-upgrade.ts) and the configuration of books and      *)
(* service providers (codex-addon-configuration.ts), over the host's       *)
(* reviewed lifecycle as their clients use it (core/addon-admin.ts).       *)
(*                                                                         *)
(* Four elements send changes to one host.  Each holds its own lease on    *)
(* the app, and two of them tell the manager by events that they are busy. *)
(* Another administrator changes the same host, answers get lost, and a    *)
(* request whose answer was lost may still arrive.                         *)
(***************************************************************************)
EXTENDS Naturals, FiniteSets

CONSTANTS
    Installed,   \* the installed add-ons
    Needs,       \* Needs[a]: the add-ons a needs, at its own version or a later one
    Keeper,      \* the add-on with saved data
    Asking,      \* the add-ons whose update asks for a new permission
    NoAddon,     \* no add-on
    MaxHostRev   \* bound: revisions of the host

ASSUME AdminAssumption ==
    /\ Keeper \in Installed /\ NoAddon \notin Installed /\ Asking \subseteq Installed
    /\ Needs \in [Installed -> SUBSET Installed]
    /\ MaxHostRev \in Nat

VARIABLES
    remote,    \* active versions (0: none), saves of Keeper, the update of the last review
    orphan,  \* a change whose sender is gone or was told it failed, still on its way
    page,    \* the page is shown to a DM
    op,      \* the manager's request
    batch,   \* the run of Update all
    git,     \* a request of the GitHub sources
    dialog,  \* the install dialog and the package staged in it
    wizard,  \* the install wizard has a request
    shown,   \* the review on screen: of an activation, a disable or an uninstall
    schema,  \* the saved-data upgrade in the review of an activation
    config,  \* the configuration element: its request, what it read, a reviewed draft
    leases,  \* the elements that hold the app busy
    busy     \* what the manager was told: installing or upgrading, configuring

adminVars == <<remote, orphan, page, op, batch, git, dialog, wizard, shown, schema, config, leases, busy>>
Elsewhere == <<git, dialog, wizard, schema, config, busy>>

Change(kind, a, v, rev) == [kind |-> kind, addon |-> a, to |-> v, rev |-> rev]
None == Change("none", NoAddon, 0, 0)
NoDialog == [open |-> FALSE, addon |-> NoAddon, to |-> 0]
NoSchema == [open |-> FALSE, req |-> "none", rev |-> 0, action |-> "none", uncertain |-> FALSE, refresh |-> FALSE]
NoConfig == [req |-> "none", rev |-> 0, review |-> FALSE]
NoBatch == [left |-> {}, cur |-> None, round |-> {}, progress |-> FALSE, waiting |-> <<>>,
            updated |-> {}, failed |-> {}, rev |-> 0]
NoFlags == [install |-> FALSE, config |-> FALSE]
NotBusy == op.kind = "none" /\ ~git /\ ~busy.install /\ ~busy.config

AdminInit ==
    /\ remote \in [active : {[a \in Installed |-> v] : v \in {0, 1}}, saves : {"old"},
                 pending : {FALSE}, was : {0}, receipt : {"none"}, rev : {1}]
    /\ orphan = None /\ page = FALSE /\ op = None /\ batch = NoBatch /\ git = FALSE
    /\ dialog = NoDialog /\ wizard = FALSE /\ shown = None /\ schema = NoSchema
    /\ config = NoConfig /\ leases = {} /\ busy = NoFlags

-----------------------------------------------------------------------------
(* The host.                                                               *)

\* Every active add-on has what it depends on.
Fits(active) ==
    \A a \in Installed : active[a] # 0 => \A d \in Needs[a] : active[d] >= active[a]

Activating(a, v) == [remote.active EXCEPT ![a] = v]
Dependents(a) == {b \in Installed : a \in Needs[b]}
Disabling(a) == [b \in Installed |-> IF b = a \/ b \in Dependents(a) THEN 0 ELSE remote.active[b]]

\* What the review of a package reports: blockers first, then what it asks of the DM.
Issue(a, v) ==
    IF ~Fits(Activating(a, v)) THEN "blocked"
    ELSE IF a = Keeper /\ v = 2 /\ remote.saves = "old" THEN "data"
    ELSE IF remote.active[a] = 0 THEN "disabled"
    ELSE IF a \in Asking /\ v = 2 /\ remote.active[a] # 2 THEN "permissions" ELSE "none"

\* A change is accepted for the host it was reviewed on, and while no update is half done.
Accepts(r) == r.rev = remote.rev /\ ~remote.pending /\ remote.rev < MaxHostRev

Changed(active) == [remote EXCEPT !.active = active, !.rev = @ + 1]

\* The host after an accepted change; a configuration restarts what runs.
After(r) ==
    CASE r.kind = "activate" -> Changed(Activating(r.addon, r.to))
      [] r.kind \in {"disable", "uninstall"} -> Changed(Disabling(r.addon))
      [] OTHER -> Changed(remote.active)

\* One resolution of saved data: applied, restored after a failure, or left half done.
Resolutions(r) ==
    LET done == [Changed(Activating(r.addon, r.to)) EXCEPT
                     !.saves = IF r.kind = "heal" THEN "new" ELSE "none", !.receipt = "applied"]
    IN  {done, [remote EXCEPT !.receipt = "failed", !.rev = @ + 1],
         [done EXCEPT !.receipt = "pending", !.pending = TRUE, !.was = remote.active[r.addon]]}

Resolves(r) == r.kind \in {"heal", "remove"}

\* The receipt of the review's resolution, if it was tried.
Receipt == remote.receipt

\* Another administrator changes the add-ons, or players the saved data.
OthersChange ==
    /\ remote.rev < MaxHostRev /\ ~remote.pending
    /\ \E active \in [Installed -> 0..2] :
          /\ Fits(active)
          /\ active[Keeper] = 2 => remote.saves # "old"
          /\ remote' = Changed(active)
    /\ UNCHANGED <<orphan, page, op, batch, shown, leases>> /\ UNCHANGED Elsewhere

PlayersSave ==
    /\ remote.rev < MaxHostRev /\ ~remote.pending /\ remote.active[Keeper] # 0
    /\ remote' = [remote EXCEPT !.saves = IF remote.active[Keeper] = 1 THEN "old" ELSE "new",
                            !.rev = @ + 1]
    /\ UNCHANGED <<orphan, page, op, batch, shown, leases>> /\ UNCHANGED Elsewhere

\* An update left half done is rolled back before anything else.
HostRecovers ==
    /\ remote.pending
    /\ remote' = [Changed(Activating(Keeper, remote.was)) EXCEPT !.saves = "old", !.pending = FALSE,
                    !.receipt = IF @ = "pending" THEN "failed" ELSE @]
    /\ UNCHANGED <<orphan, page, op, batch, shown, leases>> /\ UNCHANGED Elsewhere

\* A change its sender gave up arrives, is refused, or never arrives.
OrphanArrives ==
    /\ orphan # None /\ orphan' = None
    /\ \/ UNCHANGED remote
       \/ /\ Accepts(orphan) /\ Receipt = "none"
          /\ IF Resolves(orphan) THEN remote' \in Resolutions(orphan) ELSE remote' = After(orphan)
    /\ UNCHANGED <<page, op, batch, shown, leases>> /\ UNCHANGED Elsewhere

\* A request that is not answered may be lost, or still be on its way.
Unsent(r) == orphan' \in {orphan, r}

-----------------------------------------------------------------------------
(* One request of the manager at a time.                                   *)

Reading == {"load", "check", "disable-review", "cancel"}
Panels == {"disable", "uninstall"}

\* #run: nothing else may be under way; panels close; a change holds the app busy.
Begin(r) ==
    /\ page /\ NotBusy
    /\ op' = r
    /\ leases' = IF r.kind \in Reading THEN leases ELSE leases \cup {"manager"}

Ended(next) ==
    /\ op' = next
    /\ leases' = IF next = None THEN leases \ {"manager"} ELSE leases

\* The list is read again once a change is made.
Listing == Change("list", NoAddon, 0, 0)

Outside(kind, a) ==
    /\ ~dialog.open /\ Begin(Change(kind, a, 0, shown.rev)) /\ shown' = None
    /\ UNCHANGED <<remote, orphan, page>> /\ UNCHANGED Elsewhere

Check == Outside("check", NoAddon) /\ batch' = NoBatch
Reload(a) == remote.active[a] # 0 /\ Outside("reload", a) /\ UNCHANGED batch
PrepareDisable(a) == Outside("disable-review", a) /\ UNCHANGED batch
PrepareUninstall(a) == Outside("uninstall-review", a) /\ UNCHANGED batch

\* The DM confirms the disable or uninstall on screen.
ConfirmPanel ==
    /\ shown.kind \in Panels /\ Outside(shown.kind, shown.addon) /\ UNCHANGED batch

DismissPanel ==
    /\ shown.kind \in Panels /\ NotBusy /\ shown' = None
    /\ UNCHANGED <<remote, orphan, page, op, batch, leases>> /\ UNCHANGED Elsewhere

\* A row's button opens the dialog on a package: downloaded first, or already saved.
OpenPackage(kind, a, v) ==
    /\ ~dialog.open /\ Begin(Change(kind, a, v, 0)) /\ shown' = None
    /\ dialog' = [open |-> TRUE, addon |-> IF kind = "stage" THEN NoAddon ELSE a, to |-> v]
    /\ UNCHANGED <<remote, orphan, page, batch, git, wizard, schema, config, busy>>

OpenInstall ==
    /\ page /\ NotBusy /\ ~dialog.open
    /\ dialog' = [NoDialog EXCEPT !.open = TRUE] /\ shown' = None
    /\ UNCHANGED <<remote, orphan, page, op, batch, git, wizard, schema, config, leases, busy>>

\* The staged package is reviewed, or reviewed again.
LoadReview ==
    /\ dialog.addon # NoAddon /\ shown = None
    /\ Begin(Change("review", dialog.addon, dialog.to, 0))
    /\ UNCHANGED <<remote, orphan, page, batch, shown>> /\ UNCHANGED Elsewhere

ActivateReviewed ==
    /\ shown.kind = "activate" /\ Begin(shown)
    /\ UNCHANGED <<remote, orphan, page, batch, shown>> /\ UNCHANGED Elsewhere

\* #closeInstall: a review is cancelled on the host first.
CloseInstall ==
    /\ dialog.open /\ NotBusy
    /\ IF shown = None
       THEN dialog' = NoDialog /\ UNCHANGED <<op, leases>>
       ELSE Begin(Change("cancel", NoAddon, 0, 0)) /\ UNCHANGED dialog
    /\ UNCHANGED <<remote, orphan, page, batch, git, wizard, shown, schema, config, busy>>

-----------------------------------------------------------------------------
(* The answers to the manager.                                             *)

\* A package can be activated, needs its saved data resolved, or is blocked.
Verdict(issue) ==
    IF issue = "data" THEN "upgrade" ELSE IF issue = "blocked" THEN "blocked" ELSE "activate"

Listed ==
    /\ op.kind \in {"load", "check", "list"} /\ Ended(None)
    /\ UNCHANGED <<remote, orphan, page, batch, shown>> /\ UNCHANGED Elsewhere

Reviewed ==
    /\ op.kind \in {"review", "stage"} /\ Ended(None)
    /\ shown' = Change(Verdict(Issue(op.addon, op.to)), op.addon, op.to, remote.rev)
    /\ dialog' = [dialog EXCEPT !.addon = op.addon]
    /\ remote' = [remote EXCEPT !.receipt = "none"]
    /\ schema' = NoSchema
    /\ UNCHANGED <<orphan, page, batch, git, wizard, config, busy>>

PanelReviewed ==
    /\ op.kind \in {"disable-review", "uninstall-review"} /\ Ended(None)
    /\ remote.active[op.addon] # 0 \/ op.kind = "uninstall-review"
    /\ shown' = Change(IF op.kind = "disable-review" THEN "disable" ELSE "uninstall", op.addon, 0, remote.rev)
    /\ UNCHANGED <<remote, orphan, page, batch>> /\ UNCHANGED Elsewhere

Sends == op.kind \in Panels \cup {"activate"}

\* The host did what was reviewed, and says so.
ChangeHeard ==
    /\ op.kind \in {"reload", "cancel"} \/ (Sends /\ Accepts(op))
    /\ remote' = IF Sends THEN After(op) ELSE remote
    /\ Ended(IF op.kind = "cancel" THEN [Listing EXCEPT !.kind = "load"] ELSE Listing)
    /\ dialog' = IF op.kind \in {"activate", "cancel"} THEN NoDialog ELSE dialog
    /\ shown' = IF op.kind \in {"activate", "cancel"} THEN None ELSE shown
    /\ schema' = NoSchema
    /\ UNCHANGED <<orphan, page, batch, git, wizard, config, busy>>

\* A failure closes the review, whatever the host did.
OpFails ==
    /\ op.kind \notin {"none", "batch"} /\ Ended(None)
    /\ shown' = None /\ schema' = NoSchema
    /\ IF Sends /\ Accepts(op)
       THEN \/ remote' = After(op) /\ UNCHANGED orphan
            \/ Unsent(op) /\ UNCHANGED remote
       ELSE UNCHANGED <<remote, orphan>>
    /\ UNCHANGED <<page, batch, git, dialog, wizard, config, busy>>

-----------------------------------------------------------------------------
(* Update all.                                                             *)

UpdateAll(targets) ==
    /\ ~dialog.open /\ targets # {} /\ Begin(Change("batch", NoAddon, 0, 0))
    /\ shown' = None
    /\ batch' = [NoBatch EXCEPT !.left = targets, !.rev = remote.rev]
    /\ UNCHANGED <<remote, orphan, page>> /\ UNCHANGED Elsewhere

Batching == op.kind = "batch" /\ UNCHANGED <<orphan, page, op, shown, leases>> /\ UNCHANGED Elsewhere

Waits(b, a, issue) ==
    [x \in DOMAIN b.waiting \cup {a} |-> IF x = a THEN issue ELSE b.waiting[x]]
Without(b, a) == [x \in DOMAIN b.waiting \ {a} |-> b.waiting[x]]

\* The next target is downloaded, unless that fails...
StageNext(a) ==
    /\ Batching /\ batch.cur = None /\ a \in batch.left
    /\ batch' \in {[batch EXCEPT !.left = @ \ {a}, !.cur = Change("staged", a, 2, 0)],
                   [batch EXCEPT !.left = @ \ {a}, !.failed = @ \cup {a}]}
    /\ UNCHANGED remote

\* ...or, in a later pass, a waiting one is taken up if it was blocked.
Retry(a) ==
    /\ Batching /\ batch.left = {} /\ batch.cur = None /\ a \in batch.round
    /\ batch' = [batch EXCEPT !.round = @ \ {a},
                              !.cur = IF batch.waiting[a] = "blocked" THEN Change("staged", a, 2, 0)
                                      ELSE None]
    /\ UNCHANGED remote

\* Its review needs a decision, or nothing new...
ReviewNext ==
    /\ Batching /\ batch.cur.kind = "staged"
    /\ LET a == batch.cur.addon IN
       batch' = IF Issue(a, 2) = "none"
                THEN [batch EXCEPT !.cur = Change("activate", a, 2, remote.rev)]
                ELSE [batch EXCEPT !.cur = None, !.waiting = Waits(batch, a, Issue(a, 2))]
    /\ UNCHANGED remote

\* Mutant: an update is no progress for the add-ons that wait.
UpdatedQuietly(b, a) ==
    [b EXCEPT !.cur = None, !.updated = @ \cup {a}, !.waiting = Without(b, a)]

\* ...and an updated add-on is progress for those that wait.
Updated(b, a) ==
    [b EXCEPT !.cur = None, !.updated = @ \cup {a}, !.waiting = Without(b, a), !.progress = TRUE]

ActivateNext ==
    /\ Batching /\ batch.cur.kind = "activate" /\ Accepts(batch.cur)
    /\ remote' = After(batch.cur)
    /\ batch' = Updated(batch, batch.cur.addon)

\* A review or an activation that fails stays with its add-on.
AttemptFails ==
    /\ Batching /\ batch.cur # None
    /\ batch' = [batch EXCEPT !.cur = None, !.waiting = Waits(batch, batch.cur.addon, "failed")]
    /\ remote' \in {remote} \cup (IF batch.cur.kind = "activate" /\ Accepts(batch.cur)
                              THEN {After(batch.cur)} ELSE {})

PassOver == batch.left = {} /\ batch.cur = None /\ batch.round = {}

NextPass ==
    /\ Batching /\ PassOver /\ batch.progress
    /\ batch' = [batch EXCEPT !.round = DOMAIN batch.waiting, !.progress = FALSE]
    /\ UNCHANGED remote

\* The summary is shown, and the list read again.
Summary ==
    /\ op.kind = "batch" /\ PassOver /\ ~batch.progress
    /\ Ended(Listing) /\ batch' = NoBatch
    /\ UNCHANGED <<remote, orphan, page, shown>> /\ UNCHANGED Elsewhere

-----------------------------------------------------------------------------
(* The GitHub sources and the install wizard.                              *)

GitBegins ==
    /\ page /\ ~dialog.open /\ NotBusy /\ git' = TRUE
    /\ UNCHANGED <<remote, orphan, page, op, batch, dialog, wizard, shown, schema, config, leases, busy>>

GitEnds ==
    /\ git /\ git' = FALSE
    /\ UNCHANGED <<remote, orphan, page, op, batch, dialog, wizard, shown, schema, config, leases, busy>>

WizardBegins ==
    /\ dialog.open /\ dialog.addon = NoAddon /\ shown = None
    /\ ~wizard /\ op = None /\ ~git
    /\ wizard' = TRUE /\ busy' = [busy EXCEPT !.install = TRUE] /\ leases' = leases \cup {"install"}
    /\ UNCHANGED <<remote, orphan, page, op, batch, git, dialog, shown, schema, config>>

\* Mutant: the wizard says it is done only when it staged or saved something.
WizardDoneQuietly(outcome) ==
    /\ wizard' = FALSE /\ busy' = [busy EXCEPT !.install = (outcome = "nothing")]

WizardDone(outcome) == wizard' = FALSE /\ busy' = [busy EXCEPT !.install = FALSE]

\* Nothing, a source whose updates are checked at once, or a package that is reviewed at once.
WizardEnds(outcome, a) ==
    /\ wizard /\ WizardDone(outcome)
    /\ LET rest == leases \ {"install"} IN
       CASE outcome = "source" -> /\ dialog' = NoDialog /\ git' = TRUE /\ leases' = rest
                                  /\ UNCHANGED op
         [] outcome = "staged" -> /\ dialog' = [dialog EXCEPT !.addon = a, !.to = 2]
                                  /\ op' = Change("review", a, 2, 0)
                                  /\ leases' = rest \cup {"manager"} /\ UNCHANGED git
         [] OTHER -> leases' = rest /\ UNCHANGED <<dialog, git, op>>
    /\ UNCHANGED <<remote, orphan, page, batch, shown, schema, config>>

-----------------------------------------------------------------------------
(* The saved-data upgrade of the activation under review.                  *)

\* Its lease, and the event that holds the manager's own actions.
Holds(value) ==
    /\ busy' = [busy EXCEPT !.install = value]
    /\ leases' = IF value THEN leases \cup {"schema"} ELSE leases \ {"schema"}

Upgrade == UNCHANGED <<remote, orphan, page, op, batch, git, dialog, wizard, shown, config>>
Ready == shown.kind = "upgrade" /\ schema.req = "none" /\ op = None /\ ~git

\* The data review: opened, asked for again after a failure...
Prepare ==
    /\ Ready /\ schema.rev = 0 /\ ~schema.refresh
    /\ schema' = [schema EXCEPT !.open = TRUE, !.req = "prepare"]
    /\ Holds(TRUE) /\ Upgrade

\* ...and shown, if the host still agrees with the activation review.
Prepared ==
    /\ schema.req = "prepare" /\ Holds(FALSE) /\ Upgrade
    /\ \/ /\ shown.rev = remote.rev /\ ~remote.pending /\ remote.receipt = "none"
          /\ schema' = [schema EXCEPT !.req = "none", !.rev = remote.rev]
       \/ schema' = [schema EXCEPT !.req = "none", !.refresh = TRUE]
       \/ schema' = [schema EXCEPT !.req = "none"]

\* A review that is out of date is made again.
Refresh ==
    /\ schema.open /\ schema.refresh /\ Ready /\ NotBusy
    /\ schema' = [schema EXCEPT !.open = FALSE]
    /\ Begin(Change("review", shown.addon, shown.to, 0))
    /\ UNCHANGED <<remote, orphan, page, batch, git, dialog, wizard, shown, config, busy>>

\* The DM confirms healing or removing the saves, or checks what became of it.
Confirm(action) ==
    /\ Ready /\ schema.rev # 0 /\ ~schema.uncertain
    /\ schema' = [schema EXCEPT !.req = "apply", !.action = action]
    /\ Holds(TRUE) /\ Upgrade

CheckResult ==
    /\ Ready /\ schema.uncertain
    /\ schema' = [schema EXCEPT !.req = "apply"]
    /\ Holds(TRUE) /\ Upgrade

Resolution == Change(schema.action, shown.addon, shown.to, schema.rev)

\* The host does it once; its receipt answers for it from then on.
HostResolves ==
    /\ schema.req = "apply" /\ Receipt = "none" /\ Accepts(Resolution)
    /\ remote' \in Resolutions(Resolution)
    /\ UNCHANGED <<orphan, page, op, batch, shown, leases>> /\ UNCHANGED Elsewhere

Applied ==
    /\ schema.req = "apply" /\ Receipt = "applied"
    /\ schema' = NoSchema /\ dialog' = NoDialog /\ shown' = None
    /\ busy' = [busy EXCEPT !.install = FALSE]
    /\ op' = Listing /\ leases' = (leases \ {"schema"}) \cup {"manager"}
    /\ UNCHANGED <<remote, orphan, page, batch, git, wizard, config>>

\* No answer, or the host must recover first: the outcome stays open.
Unknown == [schema EXCEPT !.req = "none", !.uncertain = TRUE]

ResolutionUnknown ==
    /\ schema.req = "apply"
    /\ schema' = Unknown /\ Holds(schema'.uncertain)
    /\ IF Receipt = "none" /\ Accepts(Resolution) THEN Unsent(Resolution) ELSE UNCHANGED orphan
    /\ UNCHANGED <<remote, page, op, batch, git, dialog, wizard, shown, config>>

\* The host refuses: the review is out of date, the update failed and was restored, or the
\* session or its token no longer counts, whatever an earlier request did.
Refuses == Receipt \in {"failed", "none"} \/ schema.uncertain

ResolutionRefused ==
    /\ schema.req = "apply" /\ Refuses
    /\ \E again \in BOOLEAN :
          schema' = [schema EXCEPT !.req = "none", !.rev = 0, !.action = "none",
                                   !.uncertain = FALSE, !.refresh = again]
    /\ Holds(FALSE) /\ Upgrade

Exits == schema.open /\ schema.req = "none" /\ ~schema.uncertain /\ op = None /\ ~git

Exit ==
    /\ Exits /\ NotBusy
    /\ schema' = [schema EXCEPT !.open = FALSE]
    /\ Begin(Change("cancel", NoAddon, 0, 0))
    /\ UNCHANGED <<remote, orphan, page, batch, git, dialog, wizard, shown, config, busy>>

-----------------------------------------------------------------------------
(* The configuration of books and service providers.                       *)

Configures == UNCHANGED <<orphan, page, op, batch, git, dialog, wizard, schema>>

\* Mutant: a change is applied while the manager is at work.
UnblockedAlways == page /\ config.req = "none"

Unblocked == page /\ config.req = "none" /\ op = None /\ ~git /\ ~busy.install

ConfigLoads ==
    /\ Unblocked /\ config' = [config EXCEPT !.req = "load"]
    /\ Configures /\ UNCHANGED <<remote, shown, leases, busy>>

\* The rules and the services are read at one revision, or the DM is told and a review closes.
ConfigLoaded ==
    /\ config.req = "load"
    /\ config' \in {[config EXCEPT !.req = "none", !.rev = remote.rev],
                    [config EXCEPT !.req = "none", !.review = FALSE]}
    /\ Configures /\ UNCHANGED <<remote, shown, leases, busy>>

ConfigReviews ==
    /\ config.rev # 0 /\ Unblocked /\ ~dialog.open
    /\ config' = [config EXCEPT !.review = ~@]
    /\ Configures /\ UNCHANGED <<remote, shown, leases, busy>>

\* A change is applied: the manager holds its own actions and drops its review.
ConfigApplies ==
    /\ config.review /\ Unblocked /\ ~dialog.open
    /\ config' = [config EXCEPT !.req = "apply"]
    /\ leases' = leases \cup {"config"} /\ busy' = [busy EXCEPT !.config = TRUE]
    /\ shown' = IF shown.kind = "disable" THEN shown ELSE None
    /\ Configures /\ UNCHANGED remote

ConfigDone(req) ==
    /\ config.req = "apply"
    /\ config' = [config EXCEPT !.req = req, !.review = FALSE]
    /\ leases' = leases \ {"config"} /\ busy' = [busy EXCEPT !.config = FALSE]
    /\ UNCHANGED shown /\ Configures

Configuring == Change("configure", NoAddon, 0, config.rev)

ConfigApplied == Accepts(Configuring) /\ remote' = After(Configuring) /\ ConfigDone("load")

\* It is refused, or its answer is lost.
ConfigFails ==
    /\ ConfigDone("none")
    /\ remote' \in {remote} \cup (IF Accepts(Configuring) THEN {After(Configuring)} ELSE {})

-----------------------------------------------------------------------------
(* The page comes and goes.                                                *)

Enter ==
    /\ ~page /\ page' = TRUE
    /\ op' = [Listing EXCEPT !.kind = "load"]
    /\ UNCHANGED <<remote, orphan, batch, shown, leases>> /\ UNCHANGED Elsewhere

InFlight ==
    (IF Sends THEN {op} ELSE {}) \cup (IF schema.req = "apply" THEN {Resolution} ELSE {})
    \cup (IF config.req = "apply" THEN {Configuring} ELSE {})
    \cup (IF batch.cur.kind = "activate" THEN {batch.cur} ELSE {})

\* The DM leaves, or is no longer one: every request is given up and every lease returned.
Leave ==
    /\ page /\ page' = FALSE
    /\ orphan' \in {orphan} \cup {r \in InFlight : Accepts(r)}
    /\ op' = None /\ batch' = NoBatch /\ git' = FALSE /\ dialog' = NoDialog /\ wizard' = FALSE
    /\ shown' = None /\ schema' = NoSchema /\ config' = NoConfig /\ leases' = {} /\ busy' = NoFlags
    /\ UNCHANGED remote

-----------------------------------------------------------------------------
Host == OthersChange \/ PlayersSave \/ HostRecovers \/ OrphanArrives
Answers == Listed \/ Reviewed \/ PanelReviewed \/ ChangeHeard \/ OpFails
Batches ==
    \/ \E a \in Installed : StageNext(a) \/ Retry(a)
    \/ ReviewNext \/ ActivateNext \/ AttemptFails \/ NextPass \/ Summary
WizardAnswers == \E outcome \in {"nothing", "source", "staged"}, a \in Installed : WizardEnds(outcome, a)
Resolved == Applied \/ ResolutionUnknown \/ ResolutionRefused
ConfigAnswers == ConfigLoaded \/ ConfigApplied \/ ConfigFails

AdminActs ==
    \/ Check \/ ConfirmPanel \/ DismissPanel \/ OpenInstall \/ LoadReview \/ ActivateReviewed \/ CloseInstall
    \/ \E a \in Installed : Reload(a) \/ PrepareDisable(a) \/ PrepareUninstall(a)
    \/ \E a \in Installed, v \in 1..2 : OpenPackage("review", a, v)
    \/ \E a \in Installed : OpenPackage("stage", a, 2)
    \/ \E targets \in SUBSET Installed : UpdateAll(targets)
    \/ GitBegins \/ WizardBegins
    \/ Prepare \/ Refresh \/ \E action \in {"heal", "remove"} : Confirm(action)
    \/ CheckResult \/ Exit
    \/ ConfigLoads \/ ConfigReviews \/ ConfigApplies
    \/ Enter \/ Leave

AdminNext ==
    Host \/ Answers \/ Batches \/ GitEnds \/ WizardAnswers \/ Prepared \/ HostResolves \/ Resolved
    \/ ConfigAnswers \/ AdminActs

\* Every request is answered, or fails; the manager and a batch share one request, and so
\* do the steps of a saved-data upgrade.
AdminFairness ==
    /\ WF_adminVars(Answers \/ Batches) /\ WF_adminVars(GitEnds) /\ WF_adminVars(WizardAnswers)
    /\ WF_adminVars(Prepared \/ Resolved) /\ WF_adminVars(ConfigAnswers)

AdminSpec == AdminInit /\ [][AdminNext]_adminVars /\ AdminFairness
=============================================================================
