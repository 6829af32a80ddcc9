------------------------- MODULE MCAddonGenerations -------------------------
(* The add-ons of the browser, a provider and its consumer, for TLC. *)
EXTENDS AddonGenerations

\* The sheet's sections use the rules' services.
MCDeps == [a \in Addons |-> IF a = "sheet" THEN {"rules"} ELSE {}]

\* A section's copy is in the registry, or its guarded view holds a checkpoint.
HasCopy(e) == e.kept \/ (e.view.point /\ (e.view.dirty \/ e.view.unclaimed))

\* The section itself let go of it, its record was left, its session ended or its add-on went.
LetGo ==
    \/ edit.view.mounted /\ edit'.view.mounted
    \/ ~edit'.page
    \/ session'.phase # "live"
    \/ run.graph.gen[Section] = 0

\* However often the add-ons restart, a checkpointed edit keeps its guard and its copy until
\* it is let go of, or the activation of the module that shows it fails.
CopyIsKept ==
    [][HasCopy(edit) /\ ~HasCopy(edit') =>
         LetGo \/ closing' = [addon |-> Section, why |-> "activation-failed"]]_vars

\* What runs is what the host serves, or the DM reads why not, or a module hangs.
UpToDate ==
    \/ session.state = "degraded" \/ pending.stage = "hung"
    \/ /\ run.phase = "idle" /\ applied = host.rev
       /\ \A a \in Addons : active[a] = host.gen[a] \/ a \in session.failed

\* Every change of the host reaches a live session, or its DM is told; and a start waits for
\* the release of what ran before, never for a module that hangs.
NewsIsApplied ==
    /\ []<>(session.phase # "live" \/ UpToDate)
    /\ session.phase = "wanted" ~> session.phase # "wanted"

=============================================================================
