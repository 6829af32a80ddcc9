---------------------------- MODULE RecoveryPromise ----------------------------
(***************************************************************************)
(* What a cold recovery of the add-on graph promises, whatever order it    *)
(* works in: an add-on is started only over live required providers, and   *)
(* one is given up only when starting it failed or when nothing that is    *)
(* left can start.  RecoveryOrder shows that the sweep of                  *)
(* internal/addons/packagemanager/recovery.go keeps this promise.          *)
(***************************************************************************)
CONSTANT Addons   \* the add-ons durable state selects

VARIABLES
  needs,     \* [Addons -> SUBSET Addons]: required providers, by consumer
  failing,   \* add-ons whose worker does not start
  live,      \* started
  failed     \* given up

vars == <<needs, failing, live, failed>>

Startable(a) == a \in Addons \ (live \cup failed) /\ needs[a] \subseteq live

Init == live = {} /\ failed \in SUBSET Addons

Start(a) ==
  /\ Startable(a) /\ a \notin failing
  /\ live' = live \cup {a} /\ UNCHANGED <<needs, failing, failed>>

Fail(a) ==
  /\ Startable(a) /\ a \in failing
  /\ failed' = failed \cup {a} /\ UNCHANGED <<needs, failing, live>>

GiveUp ==
  /\ \A a \in Addons : ~Startable(a)
  /\ failed' = Addons \ live /\ UNCHANGED <<needs, failing, live>>

Next == GiveUp \/ \E a \in Addons : Start(a) \/ Fail(a)

Spec == Init /\ [][Next]_vars
================================================================================
