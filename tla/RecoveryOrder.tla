----------------------------- MODULE RecoveryOrder -----------------------------
(***************************************************************************)
(* recoverMissingLocked of internal/addons/packagemanager/recovery.go: the *)
(* order in which a cold recovery starts the add-ons durable state selects.*)
(* Candidates are visited by ascending id.  Pass 0 leaves an add-on alone  *)
(* while an optional provider of it is pending; pass 1, entered when a     *)
(* whole pass 0 made no progress, does not wait.  When neither pass makes  *)
(* progress every candidate left is recorded as failed.                    *)
(*                                                                         *)
(* The dependency graph and the set of add-ons whose worker does not start *)
(* are chosen by the initial state.  A contract has one provider here, and *)
(* every generation of it satisfies its consumers' version range.          *)
(***************************************************************************)
EXTENDS Integers

CONSTANTS
  Addons,   \* add-on ids, ordered as their strings are
  Graphs    \* the dependency graphs to recover: [needs, uses]

ASSUME RecoveryAssumption ==
  /\ Addons \subseteq Nat
  /\ \A g \in Graphs : /\ g.needs \in [Addons -> SUBSET Addons]
                       /\ g.uses \in [Addons -> SUBSET Addons]

VARIABLES
  needs,     \* required identity dependencies and services, by consumer
  uses,      \* optional ones
  failing,   \* add-ons whose worker fails to start
  unfit,     \* add-ons that are no candidates: deferred, or a check failed
  pending,   \* candidates not decided yet
  live,      \* manager.runtimes
  failed,    \* results with Recovered = FALSE
  bound,     \* the providers each live add-on got a handle to
  pass,      \* the loop variable: 1 allows the optional fallback
  progress,  \* something was decided in this round
  position   \* last id visited by the current sweep

graph == <<needs, uses, failing, unfit>>
sweep == <<pass, progress, position>>
orderVars == <<graph, pending, live, failed, bound, sweep>>

OrderTypeOK ==
  /\ needs \in [Addons -> SUBSET Addons] /\ uses \in [Addons -> SUBSET Addons]
  /\ failing \subseteq Addons /\ unfit \subseteq Addons
  /\ pending \subseteq Addons /\ live \subseteq Addons /\ failed \subseteq Addons
  /\ bound \in [Addons -> SUBSET Addons]
  /\ pass \in {0, 1} /\ progress \in BOOLEAN /\ position \in Int

OrderInit ==
  /\ \E g \in Graphs : needs = g.needs /\ uses = g.uses
  /\ failing \in SUBSET Addons
  /\ unfit \in SUBSET Addons
  /\ failed = unfit /\ pending = Addons \ unfit
  /\ live = {} /\ bound = [a \in Addons |-> {}]
  /\ pass = 0 /\ progress = FALSE /\ position = -1

\* Mutant: a candidate is ready as soon as one required provider is live.
ReadyWithAny(a) == needs[a] = {} \/ needs[a] \cap live # {}

Ready(a) == needs[a] \subseteq live

\* Mutant: a pending optional provider does not hold its consumer back.
PrefersNothing(a) == FALSE

Prefers(a) == \E p \in pending \ {a} : p \in uses[a]

\* The next candidate of this sweep.
Visits(a) == /\ a \in pending /\ a > position
             /\ \A b \in pending : b > position => a <= b

Swept == \A b \in pending : b <= position

\* Mutant: a failed start leaves the candidate pending, to be started again.
RecoverRetries(a) ==
  /\ Visits(a)
  /\ Ready(a) /\ ~(pass = 0 /\ Prefers(a))
  /\ IF a \in failing THEN UNCHANGED <<live, bound, failed, pending>>
     ELSE /\ live' = live \cup {a} /\ pending' = pending \ {a}
          /\ bound' = [bound EXCEPT ![a] = (needs[a] \cup uses[a]) \cap live]
          /\ UNCHANGED failed
  /\ progress' = TRUE /\ position' = a
  /\ UNCHANGED <<graph, pass>>

Skip(a) ==
  /\ Visits(a)
  /\ ~Ready(a) \/ (pass = 0 /\ Prefers(a))
  /\ position' = a
  /\ UNCHANGED <<graph, pending, live, failed, bound, pass, progress>>

RecoverAddon(a) ==
  /\ Visits(a)
  /\ Ready(a) /\ ~(pass = 0 /\ Prefers(a))
  /\ IF a \in failing
     THEN failed' = failed \cup {a} /\ UNCHANGED <<live, bound>>
     ELSE /\ live' = live \cup {a}
          /\ bound' = [bound EXCEPT ![a] = (needs[a] \cup uses[a]) \cap live]
          /\ UNCHANGED failed
  /\ pending' = pending \ {a}
  /\ progress' = TRUE /\ position' = a
  /\ UNCHANGED <<graph, pass>>

SecondPass ==
  /\ pending # {} /\ Swept /\ ~progress /\ pass = 0
  /\ pass' = 1 /\ position' = -1
  /\ UNCHANGED <<graph, pending, live, failed, bound, progress>>

\* Mutant: the round ends although it made progress, and the second pass never
\* comes.
NextRoundStalls ==
  /\ pending # {} /\ Swept /\ progress
  /\ pass' = 0 /\ position' = -1
  /\ UNCHANGED <<graph, pending, live, failed, bound, progress>>

NextRound ==
  /\ pending # {} /\ Swept /\ progress
  /\ pass' = 0 /\ progress' = FALSE /\ position' = -1
  /\ UNCHANGED <<graph, pending, live, failed, bound>>

GiveUp ==
  /\ pending # {} /\ Swept /\ ~progress /\ pass = 1
  /\ failed' = failed \cup pending /\ pending' = {}
  /\ UNCHANGED <<graph, live, bound, sweep>>

OrderNext == SecondPass \/ NextRound \/ GiveUp \/ \E a \in Addons : Skip(a) \/ RecoverAddon(a)

OrderSpec == OrderInit /\ [][OrderNext]_orderVars

\* The loop is ordinary code: it runs until it ends.
FairOrderSpec == OrderSpec /\ WF_orderVars(OrderNext)

-----------------------------------------------------------------------------
(* What the order must guarantee *)

Done == pending = {}

\* An add-on that runs has every required provider running, and a handle to
\* it (validateDependencies and resolveServices before every start).
RunsOverLiveProviders ==
  \A a \in live : needs[a] \subseteq live /\ needs[a] \subseteq bound[a]

\* Nothing is given up while it could run: an add-on that failed was no
\* candidate, did not start, or lacks a required provider at the very end.
GivenUpForAReason ==
  Done => \A a \in failed : a \in unfit \cup failing \/ ~Ready(a)

\* No chain of required or optional providers leads back to its consumer.
Acyclic ==
  LET provides == [a \in Addons |-> needs[a] \cup uses[a]]
      closed(S) == \A a \in S : provides[a] \subseteq S
  IN  \A a \in Addons : \E S \in SUBSET Addons :
        closed(S) /\ provides[a] \subseteq S /\ a \notin S

\* In an acyclic graph where everything can start, every consumer is started
\* after its optional providers and is bound to all of them: pass 0 decides.
HealthyGraphIsFullyBound ==
  Done /\ Acyclic /\ unfit \cup failing = {} =>
    \A a \in Addons : bound[a] = needs[a] \cup uses[a]

\* The loop decides every candidate (recoverMissingLocked returns one result
\* per selected add-on).
Terminates == <>Done

Promise == INSTANCE RecoveryPromise

\* The sweep never starts, fails or gives up an add-on that the promise does
\* not allow, whatever the graph and the failures.
KeepsPromise == Promise!Spec
================================================================================
