---------------------------- MODULE MCAddonAdmin ----------------------------
(* A rules add-on and a sheet with saved data that depends on it, for TLC. *)
EXTENDS AddonAdmin

MCNeeds == [a \in Installed |-> IF a = "sheet" THEN {"rules"} ELSE {}]

\* An upgrade whose outcome the DM was not told.
Open == schema.uncertain \/ schema.req = "apply"

\* The changes this page has under way, a resolution of unknown outcome among them.
UnderWay ==
    (IF op.kind = "none" \/ op.kind \in Reading THEN {} ELSE {"manager"})
    \cup (IF wizard THEN {"install"} ELSE {})
    \cup (IF Open \/ schema.req = "prepare" THEN {"schema"} ELSE {})
    \cup (IF config.req = "apply" THEN {"config"} ELSE {})

\* However its elements take turns, the page has one change under way at a time, and
\* exactly that element keeps the app busy.
OneChangeAtATime == Cardinality(UnderWay) <= 1 /\ leases = UnderWay

\* Update all ends with every target updated or reported, and, when nobody else changed the
\* host meanwhile, with the reason that holds now: nothing reported as waiting could run.
BatchIsComplete ==
    [][op.kind = "batch" /\ op'.kind = "list" =>
          LET alone == remote.rev = batch.rev + Cardinality(batch.updated) IN
          /\ batch.failed \cap DOMAIN batch.waiting = {}
          /\ batch.updated \cap (batch.failed \cup DOMAIN batch.waiting) = {}
          /\ alone => /\ \A a \in batch.updated : remote.active[a] = 2
                      /\ \A a \in DOMAIN batch.waiting :
                             batch.waiting[a] \in {"failed", Issue(a, 2)}]_adminVars

\* The page never stays busy, except for an upgrade whose outcome is still open.
BusyEnds == []<>(schema.uncertain \/ (leases = {} /\ NotBusy))
=============================================================================
