-------------------------- MODULE AddonGenerations --------------------------
(***************************************************************************)
(* The add-ons running in the browser: the session that owns them          *)
(* (app/addon-outlets-controller.ts over addons/browser-addon-session.ts), *)
(* the runtime that reads the host's graph and the manager that restarts   *)
(* the modules over it (addons/browser-addon-runtime.ts,                   *)
(* browser-graph-client.ts, generation-manager.ts, generation-scope.ts),   *)
(* the contributions they bind (browser-sdk.ts, contribution-outlet.ts),   *)
(* and the guarded edit of one contribution on an open record, handed from *)
(* a generation to its replacement (edit-state.ts).                        *)
(*                                                                         *)
(* A changed graph stops every module, consumers first, and starts them    *)
(* again, providers first, one at a time.  A module's activation and a     *)
(* disposer take as long as they like; meanwhile the host changes again,   *)
(* the session ends or is refused, and the user goes on editing.           *)
(***************************************************************************)
EXTENDS Naturals

CONSTANTS
    Addons,    \* the browser add-ons of the host
    Deps,      \* Deps[a]: the add-ons a depends on
    Section,   \* the add-on whose section of a record can be edited
    Nothing,   \* no add-on
    MaxRev,    \* bound: revisions of the host's graph
    MaxStarts, \* bound: starts of the add-ons
    MaxQueued  \* bound: refreshes waiting behind another

ASSUME GenerationsAssumption ==
    /\ Section \in Addons /\ Nothing \notin Addons
    /\ Deps \in [Addons -> SUBSET Addons]
    /\ MaxRev \in Nat /\ MaxStarts \in Nat /\ MaxQueued \in Nat \ {0}

VARIABLES
    host,    \* the host's graph: its revision, each add-on's generation (0: none), news unheard
    session, \* the controller and its session: phase, starts, what the DM reads
    run,     \* the runtime: its phase, refreshes waiting, the target graph, what is left to start
    applied, \* the revision of the last graph settled (0: none)
    active,  \* active[a]: the running generation of a (0: none)
    pending, \* the add-on being activated, and how far it is
    closing, \* the add-on whose scope is being drained, and why it stopped
    bound,   \* the add-ons whose contributions are registered
    edit     \* the record page, the section's mounted view, and a copy kept between mounts

vars == <<host, session, run, applied, active, pending, closing, bound, edit>>

At(a, gen, stage) == [addon |-> a, gen |-> gen, stage |-> stage]
Idle == At(Nothing, 0, "none")
Closed == [addon |-> Nothing, why |-> "none"]
NoView == [mounted |-> FALSE, dirty |-> FALSE, point |-> FALSE, unclaimed |-> FALSE]
NoGraph == [rev |-> 0, gen |-> [a \in Addons |-> 0]]

\* A graph names every dependency of the add-ons in it.
Complete(gen) == \A a \in Addons : gen[a] # 0 => \A d \in Deps[a] : gen[d] # 0

Running(a) == active[a] # 0
Outlets == session.phase \in {"live", "asking", "kept", "losing"}
Resetting == run.phase \in {"ending", "releasing"}
Clean == run.phase = "idle" /\ ~ \E a \in Addons : Running(a)

Init ==
    /\ host = [rev |-> 1, gen |-> [a \in Addons |-> 1], news |-> FALSE]
    /\ session = [phase |-> "off", starts |-> 0, state |-> "idle", failed |-> {}]
    /\ run = [phase |-> "idle", queued |-> 0, graph |-> NoGraph, left |-> {}, failed |-> {}]
    /\ applied = 0 /\ active = NoGraph.gen
    /\ pending = Idle /\ closing = Closed /\ bound = {}
    /\ edit = [page |-> FALSE, view |-> NoView, kept |-> FALSE]

-----------------------------------------------------------------------------
(* The edit guard of the section, across mounts.                           *)

Guarded(e) == e.kept \/ e.view.dirty \/ e.view.unclaimed

\* A view mounts over the copy kept for it, if any, and inherits its guard; the element
\* may fail to mount, which keeps the copy for the next attempt.
Mounts(e) ==
    {e, [e EXCEPT !.view = [mounted |-> TRUE, dirty |-> e.kept, point |-> e.kept,
                            unclaimed |-> e.kept],
                  !.kept = FALSE]}

\* Mutant: only a stop for a new generation of this add-on hands the copy over.
HandedOverUpdated(v, why) ==
    v.mounted /\ v.point /\ (v.dirty \/ v.unclaimed) /\ why = "updated"

\* A stopping generation hands its checkpoint over while it is guarded.
HandedOver(v, why) ==
    v.mounted /\ v.point /\ (v.dirty \/ v.unclaimed) /\ why \in {"reload", "updated"}

\* The section's add-on stops: its abort closes the view before anything is disposed.
AfterAbort(e, a, why) ==
    IF a # Section THEN e
    ELSE [e EXCEPT !.kept = @ \/ HandedOver(e.view, why), !.view = NoView]

\* The outlet goes: its views close and their copies are forgotten.
Forgotten(e) == [e EXCEPT !.view = NoView, !.kept = FALSE]

\* A scope is disposed: aborted at once, its contributions gone, its disposers awaited.
Dispose(a, why) ==
    /\ closing' = [addon |-> a, why |-> why]
    /\ bound' = bound \ {a}

-----------------------------------------------------------------------------
(* The host, and the events that tell of it.                               *)

HostChanges(gen) ==
    /\ host.rev < MaxRev
    /\ \A a \in Addons : gen[a] \in {0, host.gen[a], host.rev + 1}
    /\ Complete(gen)
    /\ host' = [rev |-> host.rev + 1, gen |-> gen, news |-> TRUE]
    /\ UNCHANGED <<session, run, applied, active, pending, closing, bound, edit>>

\* Mutant: an event heard while a refresh is under way is taken for covered by it.
HearCoalesced ==
    /\ host.news \/ run.queued = 0
    /\ host' = [host EXCEPT !.news = FALSE]
    /\ run' = IF session.phase = "live" /\ run.phase = "idle" /\ run.queued = 0
              THEN [run EXCEPT !.queued = @ + 1] ELSE run
    /\ UNCHANGED <<session, applied, active, pending, closing, bound, edit>>

\* An event of the stream, or the hello of a new connection: it queues a refresh,
\* and means nothing while no session is live.
Hear ==
    /\ host.news \/ run.queued = 0
    /\ session.phase = "live" => run.queued < MaxQueued
    /\ host' = [host EXCEPT !.news = FALSE]
    /\ run' = IF session.phase = "live" THEN [run EXCEPT !.queued = @ + 1] ELSE run
    /\ UNCHANGED <<session, applied, active, pending, closing, bound, edit>>

-----------------------------------------------------------------------------
(* Starting and stopping.                                                  *)

\* What a reset does at once: it drops the refreshes, the read under way and the cached
\* graph, and aborts a pending activation.  A teardown under way goes on for its own reasons.
Interrupted ==
    /\ run' = [run EXCEPT !.queued = 0,
                          !.phase = IF @ = "teardown" THEN "ending" ELSE "releasing"]
    /\ pending' = Idle
    /\ IF pending = Idle THEN UNCHANGED <<closing, bound>>
       ELSE Dispose(pending.addon, "authority-changed")

\* stop(): the outlets go, the session ends, and what it started is reset once.
StopInto(phase, starts) ==
    /\ session' = [phase |-> phase, starts |-> starts, state |-> "idle", failed |-> {}]
    /\ edit' = Forgotten(edit)
    /\ IF session.phase \in {"live", "asking", "kept"} THEN Interrupted
       ELSE UNCHANGED <<run, pending, closing, bound>>
    /\ UNCHANGED <<host, applied, active>>

Stop == session.phase # "off" /\ StopInto("off", session.starts)

\* Each start stops what runs and waits until it is released.
Start == session.starts < MaxStarts /\ StopInto("wanted", session.starts + 1)

\* The release is over: a new composition, whose outlets wait for the page to render.
Compose ==
    /\ session.phase = "wanted" /\ Clean
    /\ session' = [session EXCEPT !.phase = "mounting", !.state = "loading"]
    /\ UNCHANGED <<host, run, applied, active, pending, closing, bound, edit>>

Live == session' = [session EXCEPT !.phase = "live"] /\ run' = [run EXCEPT !.queued = 1]

\* The outlets are mounted and the session starts with an initial refresh.
Mount ==
    /\ session.phase = "mounting" /\ Live
    /\ UNCHANGED <<host, applied, active, pending, closing, bound, edit>>

\* The host refused the session.  The application may keep the views for a new sign-in...
Keep ==
    /\ session.phase = "asking"
    /\ session' = [session EXCEPT !.phase = "kept"]
    /\ UNCHANGED <<host, run, applied, active, pending, closing, bound, edit>>

\* ...which starts the session again over the same modules...
Resume ==
    /\ session.phase = "kept" /\ Live
    /\ UNCHANGED <<host, applied, active, pending, closing, bound, edit>>

\* ...or the add-ons stop under their outlets...
Decline ==
    /\ session.phase = "asking"
    /\ session' = [session EXCEPT !.phase = "losing"]
    /\ Interrupted
    /\ UNCHANGED <<host, applied, active, edit>>

\* ...and the composition goes when they are released.
Lose ==
    /\ session.phase = "losing" /\ Clean
    /\ session' = [session EXCEPT !.phase = "off", !.state = "idle"]
    /\ edit' = Forgotten(edit)
    /\ UNCHANGED <<host, run, applied, active, pending, closing, bound>>

-----------------------------------------------------------------------------
(* One refresh, from the read of the graph to its settlement.              *)

Fetch ==
    /\ run.phase = "idle" /\ run.queued > 0
    /\ run' = [run EXCEPT !.phase = "fetch", !.queued = @ - 1]
    /\ UNCHANGED <<host, session, applied, active, pending, closing, bound, edit>>

Matches == applied = host.rev /\ active = host.gen

\* onRefresh: the refresh is shown, and copies whose add-on is gone are dropped.
Shown(failed, gen, e) ==
    /\ session' = [session EXCEPT !.state = "ready", !.failed = failed]
    /\ edit' = IF gen[Section] = 0 THEN [e EXCEPT !.kept = FALSE] ELSE e

\* The graph is read; unless it is the one that runs, every module restarts.
Answered ==
    /\ run.phase = "fetch"
    /\ IF Matches
       THEN run' = [run EXCEPT !.phase = "idle"] /\ Shown({}, host.gen, edit)
       ELSE /\ run' = [run EXCEPT !.phase = "teardown",
                                  !.graph = [rev |-> host.rev, gen |-> host.gen]]
            /\ UNCHANGED <<session, edit>>
    /\ UNCHANGED <<host, applied, active, pending, closing, bound>>

\* No graph, or one that breaks its contract: what runs goes on.
FetchFails ==
    /\ run.phase = "fetch"
    /\ session' = [session EXCEPT !.state = "degraded"]
    /\ run' = [run EXCEPT !.phase = "idle"]
    /\ UNCHANGED <<host, applied, active, pending, closing, bound, edit>>

\* The session is refused: the refreshes waiting are dropped, and the application is asked.
Refused ==
    /\ run.phase = "fetch"
    /\ session' = [session EXCEPT !.phase = "asking"]
    /\ run' = [run EXCEPT !.phase = "idle", !.queued = 0]
    /\ UNCHANGED <<host, applied, active, pending, closing, bound, edit>>

Why(a) ==
    IF run.phase = "releasing" THEN "authority-changed"
    ELSE IF run.graph.gen[a] = 0 THEN "disabled"
    ELSE IF run.graph.gen[a] # active[a] THEN "updated" ELSE "reload"

\* Mutant: the modules stop in the order they started.
NextToStopForward(a) == Running(a) /\ \A d \in Deps[a] : ~Running(d)

\* Consumers stop before the add-ons they depend on.
NextToStop(a) == Running(a) /\ \A b \in Addons : a \in Deps[b] => ~Running(b)

Teardown(a) ==
    /\ run.phase = "teardown" \/ Resetting
    /\ pending = Idle /\ closing = Closed /\ NextToStop(a)
    /\ active' = [active EXCEPT ![a] = 0]
    /\ Dispose(a, Why(a))
    /\ edit' = AfterAbort(edit, a, Why(a))
    /\ UNCHANGED <<host, session, run, applied, pending>>

Drained ==
    /\ closing # Closed
    /\ closing' = Closed
    /\ UNCHANGED <<host, session, run, applied, active, pending, bound, edit>>

Stopped == closing = Closed /\ pending = Idle /\ ~ \E a \in Addons : Running(a)

\* Everything is stopped: the modules of the graph start...
Rebuild ==
    /\ run.phase = "teardown" /\ Stopped
    /\ run' = [run EXCEPT !.phase = "build", !.failed = {},
                          !.left = {a \in Addons : run.graph.gen[a] # 0}]
    /\ UNCHANGED <<host, session, applied, active, pending, closing, bound, edit>>

\* ...or the reset is over.
Release ==
    /\ Resetting /\ Stopped
    /\ run' = [run EXCEPT !.phase = "idle"] /\ applied' = 0
    /\ UNCHANGED <<host, session, active, pending, closing, bound, edit>>

Usable(a) == \A d \in Deps[a] : Running(d)

\* The next add-on in dependency order: it activates, or is blocked by one that failed.
Activate(a) ==
    /\ run.phase = "build" /\ pending = Idle /\ closing = Closed
    /\ a \in run.left /\ Deps[a] \cap run.left = {} /\ run.graph.gen[a] # 0
    /\ IF Usable(a)
       THEN /\ pending' = At(a, run.graph.gen[a], "loading")
            /\ run' = [run EXCEPT !.left = @ \ {a}]
       ELSE /\ run' = [run EXCEPT !.left = @ \ {a}, !.failed = @ \cup {a}]
            /\ UNCHANGED pending
    /\ UNCHANGED <<host, session, applied, active, closing, bound, edit>>

\* Its catalogs and styles are loaded; its module is imported and activates.
Loaded ==
    /\ pending.stage = "loading"
    /\ pending' = At(pending.addon, pending.gen, "starting")
    /\ UNCHANGED <<host, session, run, applied, active, closing, bound, edit>>

\* Its import or activation never settles.
Hangs ==
    /\ pending.stage = "starting"
    /\ pending' = At(pending.addon, pending.gen, "hung")
    /\ UNCHANGED <<host, session, run, applied, active, closing, bound, edit>>

\* A module that runs binds its contributions; the outlet of an open record mounts the section.
Bind(a) ==
    /\ a \notin bound
    /\ Running(a) \/ (pending.addon = a /\ pending.stage # "loading")
    /\ bound' = bound \cup {a}
    /\ IF a = Section /\ edit.page /\ Outlets THEN edit' \in Mounts(edit) ELSE UNCHANGED edit
    /\ UNCHANGED <<host, session, run, applied, active, pending, closing>>

Activated ==
    /\ pending.stage = "starting"
    /\ active' = [active EXCEPT ![pending.addon] = pending.gen]
    /\ pending' = Idle
    /\ UNCHANGED <<host, session, run, applied, closing, bound, edit>>

\* Its resources, its import or its activation fail: the scope is disposed.
ActivationFails ==
    /\ pending.stage \in {"loading", "starting"}
    /\ run' = [run EXCEPT !.failed = @ \cup {pending.addon}]
    /\ Dispose(pending.addon, "activation-failed")
    /\ edit' = AfterAbort(edit, pending.addon, "activation-failed")
    /\ pending' = Idle
    /\ UNCHANGED <<host, session, applied, active>>

\* The graph is applied, with the add-ons that could not start.
Settle ==
    /\ run.phase = "build" /\ run.left = {} /\ pending = Idle /\ closing = Closed
    /\ run' = [run EXCEPT !.phase = "idle"]
    /\ applied' = run.graph.rev
    /\ Shown(run.failed, run.graph.gen, edit)
    /\ UNCHANGED <<host, active, pending, closing, bound>>

-----------------------------------------------------------------------------
(* The user, on the record's page and in the section.                      *)

OpenRecord ==
    /\ ~edit.page
    /\ IF Section \in bound /\ Outlets
       THEN edit' \in Mounts([edit EXCEPT !.page = TRUE])
       ELSE edit' = [edit EXCEPT !.page = TRUE]
    /\ UNCHANGED <<host, session, run, applied, active, pending, closing, bound>>

LeaveRecord ==
    /\ edit.page
    /\ edit' = [Forgotten(edit) EXCEPT !.page = FALSE]
    /\ UNCHANGED <<host, session, run, applied, active, pending, closing, bound>>

\* An outlet refresh tries again to mount a section that failed to.
Remount ==
    /\ Section \in bound /\ edit.page /\ Outlets /\ ~edit.view.mounted
    /\ edit' \in Mounts(edit)
    /\ UNCHANGED <<host, session, run, applied, active, pending, closing, bound>>

\* The section says it is dirty or clean, takes its inherited copy, and sets or clears its checkpoint.
SectionSays(view) ==
    /\ edit.view.mounted
    /\ edit' = [edit EXCEPT !.view = view]
    /\ UNCHANGED <<host, session, run, applied, active, pending, closing, bound>>

Flag(dirty) == SectionSays([edit.view EXCEPT !.dirty = dirty])
Take == edit.view.unclaimed /\ SectionSays([edit.view EXCEPT !.unclaimed = FALSE, !.dirty = TRUE])
Checkpoint(point) == SectionSays([edit.view EXCEPT !.point = point, !.unclaimed = FALSE])

-----------------------------------------------------------------------------
User ==
    \/ OpenRecord \/ LeaveRecord \/ Remount \/ Take
    \/ \E b \in BOOLEAN : Flag(b) \/ Checkpoint(b)

Next ==
    \/ \E gen \in [Addons -> 0..MaxRev] : HostChanges(gen)
    \/ Hear
    \/ Stop \/ Start \/ Compose \/ Mount \/ Keep \/ Resume \/ Decline \/ Lose
    \/ Fetch \/ Answered \/ FetchFails \/ Refused
    \/ \E a \in Addons : Teardown(a) \/ Activate(a) \/ Bind(a)
    \/ Drained \/ Rebuild \/ Release
    \/ Loaded \/ Hangs \/ Activated \/ ActivationFails \/ Settle
    \/ User

\* The host answers, disposers finish, modules settle unless they hang, events arrive.
Fairness ==
    /\ WF_vars(host.news /\ Hear) /\ WF_vars(Compose) /\ WF_vars(Mount) /\ WF_vars(Lose)
    /\ WF_vars(Keep \/ Decline)
    /\ WF_vars(Fetch) /\ WF_vars(Answered \/ FetchFails \/ Refused)
    /\ WF_vars(\E a \in Addons : Teardown(a)) /\ WF_vars(Drained)
    /\ WF_vars(Rebuild) /\ WF_vars(Release)
    /\ WF_vars(\E a \in Addons : Activate(a))
    /\ WF_vars(Loaded \/ ActivationFails) /\ WF_vars(Activated \/ ActivationFails \/ Hangs)
    /\ WF_vars(Settle)

Spec == Init /\ [][Next]_vars /\ Fairness

\* A module that activates, runs or is still being disposed finds every add-on it depends
\* on running: through restarts, failed activations and a reset at any moment.
ProvidersRunFirst ==
    \A a \in Addons :
        Running(a) \/ pending.addon = a \/ closing.addon = a => \A d \in Deps[a] : Running(d)
=============================================================================
