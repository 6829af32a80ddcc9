---------------------------- MODULE PackageSwitch ----------------------------
(***************************************************************************)
(* One add-on's way from one generation to the next, and what runs, routes *)
(* and writes for it meanwhile: internal/addons/packagemanager (activate,  *)
(* reload, disable, cohort restart, reviewed update, recovery) together    *)
(* with the data gate of internal/application/addondata, the provider      *)
(* catalog and routes of internal/addons/servicebroker and the campaign    *)
(* import's generation guard.                                              *)
(*                                                                         *)
(* The manager does one operation at a time (manager.mu); op says how far  *)
(* the running one has come.  Each of its steps is one call into another   *)
(* component; saved-data writes, campaign imports and crashes come between *)
(* them.  A step named in Unreliable may fail, at most MaxFaults times.    *)
(* Other add-ons appear as the two ways a review is carried out: in place, *)
(* or by restarting the whole graph because something depends on this one. *)
(***************************************************************************)
EXTENDS Integers, FiniteSets

CONSTANTS
  Gens,         \* installed generations of the add-on
  Schemas,      \* data schema identities
  Schema,       \* the schema a generation declares
  Providers,    \* generations that provide a service
  Reviews,      \* activation review ids
  Writes,       \* document ids of the writes
  Workers,      \* worker process ids
  Unreliable,   \* names of the steps that may fail
  Paths,        \* "inplace": it may have no live dependents, "cohort": it may have some
  Imports,      \* whether campaign imports take place
  MaxRevision,  \* bound on the package state revision
  MaxFaults,    \* bound on failed steps
  MaxCrashes,   \* bound on host crashes
  None          \* no generation, instance, schema, review or plan

ASSUME SwitchAssumption ==
  /\ Schema \in [Gens -> Schemas] /\ Providers \subseteq Gens
  /\ Workers \subseteq Nat /\ Imports \in BOOLEAN
  /\ Paths \subseteq {"inplace", "cohort"}

VARIABLES
  active,    \* addon_package_states.active_generation_id
  revision,  \* addon_package_states.revision
  catalog,   \* whose declarations the provider catalog holds
  stored,    \* schema of the materialized data set, None if not materialized
  docs,      \* stored documents
  dataRev,   \* addon_data_sets.revision
  reviews,   \* addon_activation_reviews
  plan,      \* the prepared addon_schema_reviews row and its snapshot
  attempts,  \* addon_update_attempts, with the previous state
  runtime,   \* manager.runtimes[addon]
  running,   \* worker processes alive
  route,     \* the instance the runtime directory calls
  registry,  \* addondata.Service.active[addon]
  gate,      \* addondata.Service.mu is held by a transition
  updating,  \* addondata.Service.updating[addon]
  op,        \* the operation that holds manager.mu
  host,      \* "down", "starting" or "up"
  importing, \* a validated campaign import that is not committed yet
  acked,     \* documents whose write was acknowledged
  removed,   \* documents an owner confirmed to remove
  faults, crashes

package == <<active, revision, reviews, attempts>>
data == <<stored, docs, dataRev, acked, removed>>
runs == <<runtime, running>>
writing == <<registry, gate, updating>>
budget == <<faults, crashes>>
vars == <<package, data, runs, writing, catalog, plan, route, op, host,
          importing, budget>>

Instances == [gen : Gens, id : Workers]
Operations == {"none", "activate", "reload", "disable", "cohort", "select",
               "remove", "update", "restore", "maintain", "relaunch", "bounce",
               "startup"}
Steps == {"idle", "start", "gate", "catalog", "route", "commit", "register",
          "stopPrevious", "stopNext", "undo", "withdraw", "halt", "switch",
          "recover", "launch", "attach", "admit", "done"}

Maybe(S) == S \cup {None}

ReviewRows == [gen : Gens, exp : Nat, blocked : BOOLEAN,
               status : {"prepared", "approved", "consumed"}]

\* None is no value of the kinds it is the absence of.
ASSUME NoneAssumption == /\ None \notin Gens \cup Schemas \cup Reviews
                         /\ None \notin Instances /\ None \notin ReviewRows

Plans == [gen : Gens, exp : Nat, stored : Maybe(Schemas), docs : SUBSET Writes, rev : Nat]
Attempts == [status : {"pending", "applied", "failed"}, revision : Nat,
             active : Maybe(Gens), stored : Maybe(Schemas), docs : SUBSET Writes, rev : Nat]
Ops == [kind : Operations, step : Steps, gen : Maybe(Gens),
        review : Maybe(Reviews), next : Maybe(Instances),
        prev : Maybe(Instances), cut : BOOLEAN]

TypeOK ==
  /\ active \in Maybe(Gens) /\ revision \in Nat /\ catalog \in Maybe(Gens)
  /\ stored \in Maybe(Schemas) /\ docs \subseteq Writes /\ dataRev \in Nat
  /\ reviews \in [Reviews -> Maybe(ReviewRows)] /\ plan \in Maybe(Plans)
  /\ attempts \in [Reviews -> Maybe(Attempts)]
  /\ runtime \in Maybe(Instances) /\ running \subseteq Instances
  /\ route \in Maybe(Instances) /\ registry \in Maybe(Gens)
  /\ gate \in BOOLEAN /\ updating \in BOOLEAN
  /\ op \in Ops /\ host \in {"down", "starting", "up"}
  /\ importing \in Maybe([gen : Gens, rev : Nat])
  /\ acked \subseteq Writes /\ removed \subseteq Writes
  /\ faults \in Nat /\ crashes \in Nat

Idle == [kind |-> "none", step |-> "idle", gen |-> None, review |-> None,
         next |-> None, prev |-> None, cut |-> FALSE]

Init ==
  /\ active = None /\ revision = 0 /\ catalog = None /\ stored = None /\ docs = {} /\ dataRev = 0
  /\ reviews = [r \in Reviews |-> None] /\ attempts = [r \in Reviews |-> None]
  /\ plan = None /\ runtime = None /\ running = {} /\ route = None
  /\ registry = None /\ gate = FALSE /\ updating = FALSE
  /\ op = Idle /\ host = "up" /\ importing = None
  /\ acked = {} /\ removed = {} /\ faults = 0 /\ crashes = 0

(***************************************************************************)
(* What operations ask and share.                                          *)
(***************************************************************************)
\* Saved data has no issue under generation g (reviewActivationLocked).
Fits(g) == stored \in {None, Schema[g]}

Pending == {r \in Reviews : attempts[r] # None /\ attempts[r].status = "pending"}

\* Mutant: a transition may start over an unsettled update.
SettledAlways == TRUE

\* Mutant: the restore expects the revision the update was reviewed at.
RestorableAtReviewed(r) == revision = attempts[r].revision

\* The update is the last change of the package state.
Restorable(r) == revision = attempts[r].revision + 1

Settled == Pending = {}

\* The proposal rebuilt now is the one the review recorded.
Current(r) == /\ reviews[r].exp = revision
              /\ reviews[r].blocked = ~Fits(reviews[r].gen)

Free == op = Idle /\ host = "up"
Begin(o) == op' = o
Go(step) == op' = [op EXCEPT !.step = step]
End == op' = Idle

\* A step that can fail does, within the budget.
Fails(name) == /\ name \in Unreliable /\ faults < MaxFaults
               /\ faults' = faults + 1 /\ UNCHANGED crashes

\* It goes through, which needs the operation's context to be alive.
Works == ~op.cut /\ UNCHANGED budget

\* It fails because that context has ended.
Cut == op.cut /\ UNCHANGED budget

\* It runs on a context of its own.
Just == UNCHANGED budget

\* The lowest process id that is free.
Spawns(w) == /\ w \in Workers
             /\ \A i \in running : i.id # w
             /\ \A v \in Workers : v < w => \E i \in running : i.id = v

Routed(i) == IF i # None /\ i.gen \in Providers THEN i ELSE None
RouteWithout(g) == IF route # None /\ route.gen = g THEN None ELSE route

(***************************************************************************)
(* Activation in place (activateLocked): nothing depends on the add-on.    *)
(***************************************************************************)
ActivateReviewed(r) ==
  /\ Free /\ Settled /\ revision < MaxRevision
  /\ reviews[r] # None /\ reviews[r].status = "approved" /\ Current(r)
  /\ \/ /\ "inplace" \in Paths /\ (runtime # None => runtime.gen = active)
        /\ Begin([Idle EXCEPT !.kind = "activate", !.step = "start",
                              !.gen = reviews[r].gen, !.review = r])
     \/ /\ "cohort" \in Paths /\ reviews[r].gen # active
        /\ Begin([Idle EXCEPT !.kind = "cohort", !.step = "withdraw",
                              !.gen = reviews[r].gen, !.review = r])
  /\ UNCHANGED <<package, data, runs, writing, catalog, plan, route, host,
                 importing, budget>>

Reload ==
  /\ Free /\ Settled /\ revision < MaxRevision
  /\ runtime # None /\ active # None /\ runtime.gen = active
  /\ Begin([Idle EXCEPT !.kind = "reload", !.step = "start", !.gen = active])
  /\ UNCHANGED <<package, data, runs, writing, catalog, plan, route, host,
                 importing, budget>>

StartNext ==
  /\ op.step = "start"
  /\ \/ /\ Works
        /\ \E w \in Workers :
             /\ Spawns(w)
             /\ running' = running \cup {[gen |-> op.gen, id |-> w]}
             /\ op' = [op EXCEPT !.next = [gen |-> op.gen, id |-> w],
                                 !.step = IF op.kind = "reload" THEN "route" ELSE "gate"]
     \/ (Fails("start") \/ Cut) /\ End /\ UNCHANGED running
  /\ UNCHANGED <<package, data, runtime, writing, catalog, plan, route, host, importing>>

\* Mutant: the gate is not held until the switch is committed.
BeginActivationUnheld ==
  /\ op.step = "gate"
  /\ IF Fits(op.gen) THEN Go("catalog") ELSE Go("stopNext")
  /\ UNCHANGED <<package, data, runs, writing, catalog, plan, route, host, importing, budget>>

\* The data of the add-on is checked and then held until the switch is decided.
BeginActivation ==
  /\ op.step = "gate"
  /\ \/ Works /\ Fits(op.gen) /\ gate' = TRUE /\ Go("catalog")
     \/ ((Works /\ ~Fits(op.gen)) \/ Fails("gate") \/ Cut) /\ Go("stopNext")
        /\ UNCHANGED gate
  /\ UNCHANGED <<package, data, runs, registry, updating, catalog, plan, route,
                 host, importing>>

PublishCatalog ==
  /\ op.step = "catalog"
  /\ \/ /\ Works /\ catalog' = op.gen
        /\ IF op.gen \in Providers THEN Go("route") /\ UNCHANGED route
           ELSE /\ route' = IF active = None THEN route ELSE RouteWithout(active)
                /\ Go("commit")
        /\ UNCHANGED gate
     \/ (Fails("catalog") \/ Cut) /\ gate' = FALSE /\ Go("stopNext")
        /\ UNCHANGED <<catalog, route>>
  /\ UNCHANGED <<package, data, runs, registry, updating, plan, host, importing>>

\* A failed publication of a reload is left to its caller; an activation's is undone.
PublishRoute ==
  /\ op.step = "route"
  /\ LET failed == IF op.kind = "reload" THEN "stopNext" ELSE "undo" IN
     IF op.gen \notin Providers THEN Just /\ Go("commit") /\ UNCHANGED route
     ELSE \/ Works /\ catalog = op.gen /\ route' = op.next /\ Go("commit")
          \/ ((Works /\ catalog # op.gen) \/ Fails("route") \/ Cut) /\ Go(failed)
             /\ UNCHANGED route
  /\ UNCHANGED <<package, data, runs, writing, catalog, plan, host, importing>>

\* The previous instance is routed again, if its declarations are published
\* and the same context still allows it.
Reroute ==
  route' = IF ~op.cut /\ Routed(runtime) # None /\ catalog = runtime.gen THEN runtime ELSE route

\* setActive for a review, which it consumes, or for none (reload).
SetActive(g, r) ==
  /\ active' = g /\ revision' = revision + 1
  /\ reviews' = IF r = None THEN reviews ELSE [reviews EXCEPT ![r].status = "consumed"]

CommitActive ==
  /\ op.step = "commit" /\ op.kind \in {"activate", "reload"}
  /\ \/ Works /\ SetActive(op.gen, op.review) /\ Go("register") /\ UNCHANGED route
     \/ /\ Fails("commit") \/ Cut
        /\ IF op.kind = "activate" THEN Go("undo") /\ UNCHANGED route
           ELSE Go("stopNext") /\ Reroute
        /\ UNCHANGED <<active, revision, reviews>>
  /\ UNCHANGED <<data, attempts, runs, writing, catalog, plan, host, importing>>

\* Mutant: only the route is put back, not the declarations.
UndoRouteOnly ==
  /\ op.step = "undo"
  /\ route' = IF Routed(runtime) # None THEN runtime ELSE RouteWithout(op.gen)
  /\ gate' = FALSE /\ Go("stopNext")
  /\ UNCHANGED <<package, data, runs, registry, updating, catalog, plan, host,
                 importing, budget>>

\* restoreServices: the failed generation is withdrawn, then the previous
\* declarations and route are put back, on the context of the failed switch.
Undo ==
  /\ op.step = "undo"
  /\ IF op.cut THEN route' = RouteWithout(op.gen) /\ UNCHANGED catalog
     ELSE /\ catalog' = IF runtime = None THEN None ELSE runtime.gen
          /\ route' = IF Routed(runtime) # None THEN runtime ELSE RouteWithout(op.gen)
  /\ gate' = FALSE /\ Go("stopNext")
  /\ UNCHANGED <<package, data, runs, registry, updating, plan, host, importing, budget>>

\* dataTransition.Commit and manager.runtimes, after the durable switch.
Register ==
  /\ op.step = "register" /\ op.kind # "disable"
  /\ IF op.kind = "activate" THEN registry' = op.gen /\ gate' = FALSE
     ELSE UNCHANGED <<registry, gate>>
  /\ runtime' = op.next
  /\ op' = [op EXCEPT !.step = "stopPrevious", !.prev = runtime]
  /\ UNCHANGED <<package, data, running, updating, catalog, plan, route, host,
                 importing, budget>>

\* A Shutdown whose context has ended returns at once.
StopPrevious ==
  /\ op.step = "stopPrevious"
  /\ running' = IF op.cut THEN running ELSE running \ {op.prev}
  /\ End
  /\ UNCHANGED <<package, data, runtime, writing, catalog, plan, route, host,
                 importing, budget>>

StopNext ==
  /\ op.step = "stopNext"
  /\ running' = running \ {op.next} /\ End
  /\ UNCHANGED <<package, data, runtime, writing, catalog, plan, route, host,
                 importing, budget>>

(***************************************************************************)
(* Disable: service calls are revoked before the durable switch.           *)
(***************************************************************************)
Disable ==
  /\ "inplace" \in Paths
  /\ Free /\ Settled /\ revision < MaxRevision
  /\ active # None /\ (runtime # None => runtime.gen = active)
  /\ gate' = TRUE /\ route' = RouteWithout(active)
  /\ Begin([Idle EXCEPT !.kind = "disable", !.step = "commit", !.gen = active])
  /\ UNCHANGED <<package, data, runs, registry, updating, catalog, plan, host,
                 importing, budget>>

\* What Disable does when setDisabled reports an error.
Reinstated ==
  /\ gate' = FALSE /\ End
  /\ IF runtime = None THEN UNCHANGED route ELSE Reroute

CommitDisabled ==
  /\ op.step = "commit" /\ op.kind = "disable"
  /\ \/ /\ Works /\ SetActive(None, None) /\ Go("register")
        /\ UNCHANGED <<gate, route>>
     \/ (Fails("commit") \/ Cut) /\ Reinstated /\ UNCHANGED <<active, revision, reviews>>
     \/ Fails("disableRead") /\ SetActive(None, None) /\ Reinstated
  /\ UNCHANGED <<data, attempts, runs, registry, updating, catalog, plan, host, importing>>

RegisterDisabled ==
  /\ op.step = "register" /\ op.kind = "disable"
  /\ registry' = IF registry = op.gen THEN None ELSE registry
  /\ gate' = FALSE /\ runtime' = None
  /\ op' = [op EXCEPT !.step = "stopPrevious", !.prev = runtime]
  /\ UNCHANGED <<package, data, running, updating, catalog, plan, route, host,
                 importing, budget>>

(***************************************************************************)
(* Cold restarts: shutdownLocked, one durable change, recoverLocked.       *)
(***************************************************************************)
\* A service selection or rule source runs on its request's own context.
SelectService ==
  /\ Free /\ Settled
  /\ Begin([Idle EXCEPT !.kind = "select", !.step = "withdraw"])
  /\ UNCHANGED <<package, data, runs, writing, catalog, plan, route, host,
                 importing, budget>>

\* The context of an operation ends: with its request, or at the deadline of a
\* detached transition or of the rollback of an update.
ContextEnds ==
  /\ op.kind \notin {"none", "startup", "maintain"} /\ ~op.cut
  /\ IF op.kind = "select" THEN Fails("request") ELSE Fails("deadline")
  /\ op' = [op EXCEPT !.cut = TRUE]
  /\ UNCHANGED <<package, data, runs, writing, catalog, plan, route, host, importing>>

DisableReviewed ==
  /\ Free /\ Settled /\ active # None /\ revision < MaxRevision
  /\ Begin([Idle EXCEPT !.kind = "remove", !.step = "withdraw"])
  /\ UNCHANGED <<package, data, runs, writing, catalog, plan, route, host,
                 importing, budget>>

\* The monitor stops this add-on because a worker it depends on failed.
Bounce ==
  /\ Free /\ runtime # None
  /\ Begin([Idle EXCEPT !.kind = "bounce", !.step = "withdraw"])
  /\ UNCHANGED <<package, data, runs, writing, catalog, plan, route, host,
                 importing, budget>>

\* A missing worker is due (monitor), or its owner asks for it (reload), in
\* which case the new start is also recorded in durable state.
Relaunch(kind) ==
  /\ Free /\ active # None /\ runtime = None
  /\ kind \in {"bounce", "relaunch"}
  /\ kind = "relaunch" => Settled /\ revision < MaxRevision
  /\ Begin([Idle EXCEPT !.kind = kind, !.step = "recover", !.gen = active])
  /\ UNCHANGED <<package, data, runs, writing, catalog, plan, route, host,
                 importing, budget>>

\* Mutant: routes are withdrawn, data handles are not.
WithdrawRoutesOnly ==
  /\ op.step = "withdraw" /\ Go("halt")
  /\ route' = IF runtime = None THEN route ELSE RouteWithout(runtime.gen)
  /\ UNCHANGED <<package, data, runs, writing, catalog, plan, host, importing, budget>>

\* The first loop of shutdownSubsetLocked: data handles and routes.
Withdraw ==
  /\ op.step = "withdraw" /\ Go("halt")
  /\ IF runtime = None THEN UNCHANGED <<registry, route>>
     ELSE /\ registry' = IF registry = runtime.gen THEN None ELSE registry
          /\ route' = RouteWithout(runtime.gen)
  /\ UNCHANGED <<package, data, runs, gate, updating, catalog, plan, host,
                 importing, budget>>

\* What comes after the graph has stopped, and after it could not be stopped
\* cleanly: a worker whose Shutdown fails is terminated all the same.
Restoring == op.kind \in {"restore", "maintain", "startup"}
AfterHalt == IF op.kind = "bounce" THEN "recover" ELSE "switch"

\* The second loop.  Once the context has ended Shutdown returns at once.
Halt ==
  /\ op.step = "halt" /\ runtime' = None
  /\ \/ Works /\ running' = running \ {runtime} /\ Go(AfterHalt)
     \/ /\ runtime # None
        /\ \/ Fails("halt") /\ running' = running \ {runtime}
           \/ Cut /\ UNCHANGED running
        /\ IF Restoring THEN End ELSE Go("recover")
     \/ runtime = None /\ Cut /\ Go(AfterHalt) /\ UNCHANGED running
  /\ UNCHANGED <<package, data, writing, catalog, plan, route, host, importing>>

\* The durable change of a cold restart; one that is rejected changes nothing.
Switch ==
  /\ op.step = "switch" /\ op.kind \in {"cohort", "select", "remove"}
  /\ \/ /\ Works
        /\ CASE op.kind = "cohort" -> SetActive(op.gen, op.review)
             [] op.kind = "remove" -> SetActive(None, None)
             [] op.kind = "select" -> UNCHANGED <<active, revision, reviews>>
     \/ (Fails("commit") \/ Cut) /\ UNCHANGED <<active, revision, reviews>>
  /\ Go("recover")
  /\ UNCHANGED <<data, attempts, runs, writing, catalog, plan, route, host, importing>>

\* recoverMissingLocked: the catalog of what durable state selects.
Recover ==
  /\ op.step = "recover"
  /\ \/ Works /\ active = None /\ Go("done") /\ UNCHANGED catalog
     \/ Works /\ active # None /\ catalog' = active /\ Go("launch")
     \/ (Fails("catalog") \/ Cut) /\ Go("done") /\ UNCHANGED catalog
  /\ UNCHANGED <<package, data, runs, writing, plan, route, host, importing>>

\* recoverCandidate, in three steps: the worker, its route, its data.
Launch ==
  /\ op.step = "launch"
  /\ \/ /\ Works
        /\ \E w \in Workers :
             /\ Spawns(w)
             /\ running' = running \cup {[gen |-> active, id |-> w]}
             /\ op' = [op EXCEPT !.next = [gen |-> active, id |-> w], !.step = "attach"]
     \/ (Fails("start") \/ Cut) /\ Go("done") /\ UNCHANGED running
  /\ UNCHANGED <<package, data, runtime, writing, catalog, plan, route, host, importing>>

\* A candidate that got as far as a worker is taken back.
Abandon ==
  /\ route' = RouteWithout(active) /\ running' = running \ {op.next}
  /\ Go("done")

Attach ==
  /\ op.step = "attach"
  /\ \/ /\ Works /\ Go("admit") /\ UNCHANGED running
        /\ route' = IF active \in Providers THEN op.next ELSE route
     \/ ((active \in Providers /\ Fails("route")) \/ Cut) /\ Abandon
  /\ UNCHANGED <<package, data, runtime, writing, catalog, plan, host, importing>>

Admit ==
  /\ op.step = "admit"
  /\ \/ Works /\ Fits(active) /\ registry' = active /\ runtime' = op.next /\ Go("done")
        /\ UNCHANGED <<route, running>>
     \/ ((Works /\ ~Fits(active)) \/ Fails("gate") \/ Cut) /\ Abandon
        /\ UNCHANGED <<registry, runtime>>
  /\ UNCHANGED <<package, data, gate, updating, catalog, plan, host, importing>>

\* After recovery, whatever became of it.  A reloaded worker's new start is
\* recorded, and the update goes on to Settle.
Finish ==
  /\ op.step = "done" /\ op.kind # "update"
  /\ \/ /\ op.kind = "relaunch" /\ runtime # None
        /\ \/ Works /\ SetActive(active, None)
           \/ (Fails("commit") \/ Cut) /\ UNCHANGED <<active, revision, reviews>>
     \/ /\ ~(op.kind = "relaunch" /\ runtime # None)
        /\ Just /\ UNCHANGED <<active, revision, reviews>>
  /\ End /\ host' = "up"
  /\ UNCHANGED <<data, attempts, runs, writing, catalog, plan, route, importing>>

(***************************************************************************)
(* A reviewed update that also changes saved data (ResolveAndActivate).    *)
(***************************************************************************)
ResolveAndActivate(r) ==
  /\ Free /\ Settled /\ revision + 1 < MaxRevision
  /\ reviews[r] # None /\ reviews[r].status = "prepared"
  /\ Current(r) /\ reviews[r].blocked /\ attempts[r] = None
  /\ plan # None /\ plan.gen = reviews[r].gen /\ plan.exp = revision
  /\ updating' = TRUE
  /\ Begin([Idle EXCEPT !.kind = "update", !.step = "withdraw",
                        !.gen = reviews[r].gen, !.review = r])
  /\ UNCHANGED <<package, data, runs, registry, gate, catalog, plan, route, host,
                 importing, budget>>

\* The snapshot the owner confirmed is still what is stored.
SnapshotMatches == plan.stored = stored /\ plan.docs = docs /\ plan.rev = dataRev

\* Saved data, review, active generation and journal row, in one transaction.
ApplyUpdate ==
  /\ op.step = "switch" /\ op.kind = "update"
  /\ \/ /\ Works /\ SnapshotMatches
        /\ \/ /\ stored' = Schema[op.gen]  \* heal
              /\ UNCHANGED <<docs, removed>>
           \/ /\ stored' = None /\ docs' = {}  \* remove
              /\ removed' = removed \cup plan.docs
        /\ dataRev' = dataRev + 1
        /\ SetActive(op.gen, op.review) /\ plan' = None
        /\ attempts' = [attempts EXCEPT ![op.review] =
             [status |-> "pending", revision |-> revision, active |-> active,
              stored |-> plan.stored, docs |-> plan.docs, rev |-> plan.rev]]
     \/ /\ (Works /\ ~SnapshotMatches) \/ Fails("commit") \/ Cut
        /\ UNCHANGED <<active, revision, reviews, attempts, stored, docs, dataRev, removed, plan>>
  /\ Go("recover")
  /\ UNCHANGED <<acked, runs, writing, catalog, route, host, importing>>

\* The update is applied once its add-on runs again; otherwise it is undone.
\* Writes stay blocked exactly as long as a row is pending.
Settle ==
  /\ op.step = "done" /\ op.kind = "update"
  /\ \/ /\ Just /\ Settled /\ updating' = FALSE /\ End /\ UNCHANGED attempts
     \/ /\ Works /\ op.review \in Pending /\ runtime # None
        /\ attempts' = [attempts EXCEPT ![op.review].status = "applied"]
        /\ updating' = FALSE /\ End
     \/ /\ op.review \in Pending
        /\ (Works /\ runtime = None) \/ (runtime # None /\ Fails("settle")) \/ Cut
        /\ op' = [Idle EXCEPT !.kind = "restore", !.step = "withdraw"]
        /\ UNCHANGED <<attempts, updating>>
  /\ UNCHANGED <<active, revision, reviews, data, runs, registry, gate, catalog, plan,
                 route, host, importing>>

\* MaintainPackages takes an unfinished restore up again.
Maintain ==
  /\ Free /\ ~Settled
  /\ Begin([Idle EXCEPT !.kind = "maintain", !.step = "withdraw"])
  /\ UNCHANGED <<package, data, runs, writing, catalog, plan, route, host,
                 importing, budget>>

\* restorePendingUpdatesLocked: the snapshot, the previous generation and the
\* journal row in one transaction, which the saved revision guards.
Restore ==
  /\ op.step = "switch" /\ Restoring
  /\ \/ /\ Works
        /\ \E r \in Pending :
             /\ Restorable(r)
             /\ stored' = attempts[r].stored /\ docs' = attempts[r].docs
             /\ dataRev' = attempts[r].rev
             /\ removed' = removed \ attempts[r].docs
             /\ active' = attempts[r].active /\ revision' = revision + 1
             /\ attempts' = [attempts EXCEPT ![r].status = "failed"]
        /\ updating' = FALSE /\ Go("recover") /\ UNCHANGED host
     \/ /\ Fails("commit") \/ Cut \/ (Works /\ \A r \in Pending : ~Restorable(r))
        /\ End /\ host' = IF op.kind = "startup" THEN "down" ELSE host
        /\ UNCHANGED <<stored, docs, dataRev, removed, active, revision, attempts, updating>>
  /\ UNCHANGED <<reviews, acked, runs, registry, gate, catalog, plan, route, importing>>

(***************************************************************************)
(* Reviews, writes, imports, crashes.                                      *)
(***************************************************************************)
PrepareReview(r, g) ==
  /\ Free /\ reviews[r] = None
  /\ reviews' = [reviews EXCEPT ![r] = [gen |-> g, exp |-> revision,
                    blocked |-> ~Fits(g), status |-> "prepared"]]
  /\ UNCHANGED <<active, revision, attempts, data, runs, writing, catalog, plan, route,
                 op, host, importing, budget>>

ApproveReview(r) ==
  /\ Free /\ reviews[r] # None /\ reviews[r].status = "prepared"
  /\ Current(r) /\ ~reviews[r].blocked
  /\ reviews' = [reviews EXCEPT ![r].status = "approved"]
  /\ UNCHANGED <<active, revision, attempts, data, runs, writing, catalog, plan, route,
                 op, host, importing, budget>>

\* The owner cancels a review, or it expires and maintenance deletes it.
DiscardReview(r) ==
  /\ Free /\ reviews[r] # None /\ reviews[r].status # "consumed"
  /\ reviews' = [reviews EXCEPT ![r] = None]
  /\ UNCHANGED <<active, revision, attempts, data, runs, writing, catalog, plan, route,
                 op, host, importing, budget>>

PrepareDataReview(r) ==
  /\ Free /\ Settled
  /\ reviews[r] # None /\ reviews[r].status = "prepared"
  /\ Current(r) /\ reviews[r].blocked
  /\ plan' = [gen |-> reviews[r].gen, exp |-> revision, stored |-> stored, docs |-> docs,
              rev |-> dataRev]
  /\ UNCHANGED <<package, data, runs, writing, catalog, route, op, host, importing, budget>>

\* The data boundary accepts a transaction of the registered generation.
Writable == registry # None /\ ~gate /\ ~updating

Store(w, g) == /\ w \notin acked /\ Fits(g)
               /\ stored' = Schema[g] /\ docs' = docs \cup {w} /\ dataRev' = dataRev + 1
               /\ acked' = acked \cup {w} /\ UNCHANGED removed

Write(w) ==
  /\ Writable /\ Store(w, registry)
  /\ UNCHANGED <<package, runs, writing, catalog, plan, route, op, host, importing, budget>>

\* Commit of a bundle: ValidateImport first, its own transaction later, guarded
\* by the data set revisions of the preview and by the durable generation.
ValidateImport ==
  /\ Imports /\ importing = None /\ host = "up" /\ Writable
  /\ importing' = [gen |-> registry, rev |-> dataRev]
  /\ UNCHANGED <<package, data, runs, writing, catalog, plan, route, op, host, budget>>

CommitImport(w) ==
  /\ importing # None /\ importing' = None
  /\ IF importing.rev = dataRev /\ importing.gen = active THEN Store(w, importing.gen)
     ELSE UNCHANGED data
  /\ UNCHANGED <<package, runs, writing, catalog, plan, route, op, host, budget>>

Crash ==
  /\ host # "down" /\ crashes < MaxCrashes /\ crashes' = crashes + 1
  /\ host' = "down" /\ op' = Idle /\ runtime' = None /\ running' = {}
  /\ route' = None /\ registry' = None /\ gate' = FALSE /\ updating' = FALSE
  /\ importing' = None
  /\ UNCHANGED <<package, data, catalog, plan, faults>>

\* Mutant: the host recovers what durable state selects without settling it.
BootUnsettled ==
  /\ host = "down" /\ host' = "starting"
  /\ Begin([Idle EXCEPT !.kind = "startup", !.step = "recover"])
  /\ UNCHANGED <<package, data, runs, writing, catalog, plan, route, importing, budget>>

\* Manager.Recover: an update left pending is restored before anything runs.
Boot ==
  /\ host = "down" /\ host' = "starting"
  /\ Begin([Idle EXCEPT !.kind = "startup",
                        !.step = IF Settled THEN "recover" ELSE "withdraw"])
  /\ UNCHANGED <<package, data, runs, writing, catalog, plan, route, importing, budget>>

InPlace ==
  \/ StartNext \/ BeginActivation \/ PublishCatalog \/ PublishRoute \/ CommitActive
  \/ Undo \/ Register \/ StopPrevious \/ StopNext \/ CommitDisabled \/ RegisterDisabled

Cold ==
  \/ Withdraw \/ Halt \/ Switch \/ ApplyUpdate \/ Recover \/ Launch \/ Attach \/ Admit
  \/ Finish \/ Settle \/ Restore

Requests ==
  \/ \E r \in Reviews : \/ ActivateReviewed(r) \/ ResolveAndActivate(r) \/ ApproveReview(r)
                        \/ DiscardReview(r) \/ PrepareDataReview(r)
                        \/ \E g \in Gens : PrepareReview(r, g)
  \/ Reload \/ Disable \/ SelectService \/ DisableReviewed \/ ContextEnds
  \/ Bounce \/ Maintain \/ \E kind \in {"bounce", "relaunch"} : Relaunch(kind)

Records == ValidateImport \/ \E w \in Writes : Write(w) \/ CommitImport(w)

Next == InPlace \/ Cold \/ Requests \/ Records \/ Crash \/ Boot

Spec == Init /\ [][Next]_vars

\* The operation under way goes on and the host is started again.  The package
\* timer gets manager.mu in its turn although others keep asking for it: a
\* sync.Mutex hands itself to a waiter that has starved.
FairSpec == Spec /\ WF_vars(InPlace) /\ WF_vars(Cold) /\ WF_vars(Boot) /\ SF_vars(Maintain)

(***************************************************************************)
(* Properties.                                                             *)
(***************************************************************************)
\* A generation that may write is the one durable state selects: while the
\* pointer moves, neither the old generation nor the new one writes
\* (Transact against activateLocked, Disable, the cold restarts).
OnlyActiveGenerationWrites == Writable => registry = active

\* The stored data never falls out of the active generation's schema, whatever
\* was written between the review of a switch and its commit.
DataFitsActive == active # None => Fits(active)

\* A saved document is only ever removed by the owner who confirmed it: not by
\* an update that fails, is restored later, or is cut short by a crash.
AcknowledgedWritesSurvive == acked \subseteq docs \cup removed

\* While an update is not settled nothing else changes the package state, so
\* that its restore finds the revision it was journaled for.
RestoreCanSucceed ==
  \A r \in Pending : Restorable(r) /\ active = reviews[r].gen

Between == op = Idle /\ host = "up"

NoStrayWorker == running = IF runtime = None THEN {} ELSE {runtime}

\* Between operations memory agrees with durable state: the only worker alive is the
\* one the manager tracks, it is the active generation, its declarations are
\* published, its services are routed and its data is writable; if nothing runs,
\* none of this is left behind.  At no time are service calls routed to a worker
\* that has been stopped.
ServesWhatRuns ==
  /\ route # None => route \in running
  /\ Between =>
       /\ ~gate /\ NoStrayWorker
       /\ IF runtime = None THEN route = None /\ registry = None
          ELSE /\ runtime.gen = active /\ catalog = active /\ registry = active
               /\ route = Routed(runtime)

\* An update whose restore failed or was cut short is restored in the end.
PendingSettles == \A r \in Reviews : r \in Pending ~> r \notin Pending
=============================================================================
