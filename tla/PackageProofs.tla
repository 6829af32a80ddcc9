---------------------------- MODULE PackageProofs ----------------------------
(***************************************************************************)
(* What holds of the packages of a host.  First the recovery sweep, for    *)
(* every graph over every set of add-ons: it runs an add-on only over live *)
(* required providers, gives one up only when it cannot run, binds a       *)
(* healthy graph fully, and implements RecoveryPromise.  Then one add-on:  *)
(* who may write while its active generation changes, what is stored for   *)
(* it, that an unsettled update can be restored and loses no document, and *)
(* that memory agrees with durable state, for every number of generations, *)
(* reviews, writes and workers and every pattern of failures that the      *)
(* theorem does not exclude.                                               *)
(***************************************************************************)
EXTENDS RecoveryOrder, PackageSwitch, FiniteSetTheorems, WellFoundedInduction, TLAPS

-----------------------------------------------------------------------------
(* Recovering the graph of add-ons.                                        *)

\* Ids are numbers, so that a sweep visits each once.
LEMMA IdsAreNumbers == Addons \subseteq Nat
  BY RecoveryAssumption DEF RecoveryAssumption

\* Every add-on is live, failed or still to be decided, and only one of them.
Partition ==
  /\ Addons = live \cup failed \cup pending
  /\ live \cap failed = {} /\ live \cap pending = {} /\ failed \cap pending = {}

\* What the second pass went by and left could not start; nothing became live
\* since, or progress would be set.
PassedByIsNotReady ==
  ~progress /\ pass = 1 => \A b \in pending : b <= position => ~Ready(b)

\* Until the end only failed starts and unfit add-ons are given up.
FailedForAReason ==
  \A a \in failed : a \in unfit \cup failing \/ (Done /\ ~Ready(a))

SweepInv ==
  /\ OrderTypeOK /\ Partition /\ RunsOverLiveProviders
  /\ PassedByIsNotReady /\ FailedForAReason

LEMMA SweepInit == OrderInit => SweepInv
<1> SUFFICES ASSUME OrderInit PROVE SweepInv
  OBVIOUS
<1>1. OrderTypeOK
  <2>1. PICK g \in Graphs : needs = g.needs /\ uses = g.uses
    BY DEF OrderInit
  <2>2. needs \in [Addons -> SUBSET Addons] /\ uses \in [Addons -> SUBSET Addons]
    BY <2>1, RecoveryAssumption DEF RecoveryAssumption
  <2>3. progress \in BOOLEAN
    BY Zenon DEF OrderInit
  <2> QED BY <2>2, <2>3 DEF OrderInit, OrderTypeOK
<1> QED BY <1>1 DEF OrderInit, SweepInv, Partition, RunsOverLiveProviders,
                    PassedByIsNotReady, FailedForAReason

\* One candidate started or failed.
LEMMA RecoverKeepsSweepInv ==
  ASSUME NEW a \in Addons, SweepInv, RecoverAddon(a)
  PROVE  SweepInv'
<1> USE DEF SweepInv
<1>1. /\ a \in pending /\ a \notin live \cup failed
      /\ needs[a] \subseteq live
      /\ pending' = pending \ {a} /\ progress' = TRUE /\ position' = a
      /\ needs' = needs /\ uses' = uses /\ failing' = failing /\ unfit' = unfit
      /\ pass' = pass
  BY DEF RecoverAddon, Visits, Ready, Partition, graph
<1>2. CASE a \in failing
  <2>1. failed' = failed \cup {a} /\ live' = live /\ bound' = bound
    BY <1>2 DEF RecoverAddon
  <2>2. OrderTypeOK' /\ Partition'
    BY <1>1, <2>1, IdsAreNumbers DEF OrderTypeOK, Partition
  <2>3. RunsOverLiveProviders'
    BY <1>1, <2>1 DEF RunsOverLiveProviders
  <2>4. FailedForAReason'
    BY <1>1, <1>2, <2>1 DEF FailedForAReason, Done
  <2> QED BY <1>1, <2>2, <2>3, <2>4 DEF PassedByIsNotReady
<1>3. CASE a \notin failing
  <2>1. /\ live' = live \cup {a} /\ failed' = failed
        /\ bound' = [bound EXCEPT ![a] = (needs[a] \cup uses[a]) \cap live]
    BY <1>3 DEF RecoverAddon
  <2>2. OrderTypeOK' /\ Partition'
    <3>1. (needs[a] \cup uses[a]) \cap live \in SUBSET Addons
      BY DEF OrderTypeOK
    <3> QED BY <1>1, <2>1, <3>1, IdsAreNumbers DEF OrderTypeOK, Partition
  <2>3. RunsOverLiveProviders'
    <3> SUFFICES ASSUME NEW b \in live'
                 PROVE  needs[b] \subseteq live' /\ needs[b] \subseteq bound'[b]
      BY <1>1 DEF RunsOverLiveProviders
    <3>1. CASE b = a
      BY <1>1, <2>1, <3>1 DEF OrderTypeOK
    <3>2. CASE b # a
      BY <2>1, <3>2 DEF RunsOverLiveProviders, OrderTypeOK
    <3> QED BY <3>1, <3>2
  <2>4. FailedForAReason'
    BY <1>1, <2>1 DEF FailedForAReason, Done
  <2> QED BY <1>1, <2>2, <2>3, <2>4 DEF PassedByIsNotReady
<1> QED BY <1>2, <1>3

LEMMA SweepStep == SweepInv /\ [OrderNext]_orderVars => SweepInv'
<1> SUFFICES ASSUME SweepInv, [OrderNext]_orderVars PROVE SweepInv'
  OBVIOUS
<1> USE DEF SweepInv
<1>1. ASSUME NEW a \in Addons, Skip(a) PROVE SweepInv'
  <2>1. /\ UNCHANGED <<graph, pending, live, failed, bound, pass, progress>>
        /\ position' = a /\ a \in pending
        /\ \A b \in pending : b > position => a <= b
        /\ pass = 1 => ~Ready(a)
    BY <1>1 DEF Skip, Visits
  <2>2. OrderTypeOK' /\ Partition' /\ RunsOverLiveProviders' /\ FailedForAReason'
    BY <2>1, IdsAreNumbers
       DEF OrderTypeOK, Partition, RunsOverLiveProviders, FailedForAReason, Done, Ready, graph
  <2>3. PassedByIsNotReady'
    <3> SUFFICES ASSUME ~progress, pass = 1, NEW b \in pending, b <= a
                 PROVE  ~Ready(b)
      BY <2>1 DEF PassedByIsNotReady, Ready, graph
    <3>1. b \in Int /\ position \in Int
      BY IdsAreNumbers DEF OrderTypeOK
    <3>2. CASE b <= position
      BY <3>2 DEF PassedByIsNotReady
    <3>3. CASE b > position
      <4>1. b = a
        BY <2>1, <3>3, IdsAreNumbers
      <4> QED BY <2>1, <4>1
    <3> QED BY <3>1, <3>2, <3>3
  <2> QED BY <2>2, <2>3
<1>2. ASSUME NEW a \in Addons, RecoverAddon(a) PROVE SweepInv'
  BY <1>2, RecoverKeepsSweepInv
<1>3. CASE SecondPass
  <2>1. /\ UNCHANGED <<graph, pending, live, failed, bound, progress>>
        /\ pass' = 1 /\ position' = -1
    BY <1>3 DEF SecondPass
  <2>2. PassedByIsNotReady'
    BY <2>1, IdsAreNumbers DEF PassedByIsNotReady, OrderTypeOK
  <2> QED BY <2>1, <2>2
       DEF OrderTypeOK, Partition, RunsOverLiveProviders, FailedForAReason, Done, Ready, graph
<1>4. CASE NextRound
  <2>1. /\ UNCHANGED <<graph, pending, live, failed, bound>>
        /\ pass' = 0 /\ progress' = FALSE /\ position' = -1
    BY <1>4 DEF NextRound
  <2>2. progress' \in BOOLEAN
    BY <2>1, Zenon
  <2> QED BY <2>1, <2>2
       DEF OrderTypeOK, Partition, RunsOverLiveProviders, PassedByIsNotReady,
           FailedForAReason, Done, Ready, graph
<1>5. CASE GiveUp
  <2>1. /\ UNCHANGED <<graph, live, bound, sweep>>
        /\ failed' = failed \cup pending /\ pending' = {}
        /\ pending # {} /\ \A b \in pending : b <= position
        /\ ~progress /\ pass = 1
    BY <1>5 DEF GiveUp, Swept
  <2>2. OrderTypeOK' /\ Partition' /\ RunsOverLiveProviders' /\ PassedByIsNotReady'
    BY <2>1 DEF OrderTypeOK, Partition, RunsOverLiveProviders, PassedByIsNotReady, graph, sweep
  <2>3. FailedForAReason'
    BY <2>1 DEF FailedForAReason, PassedByIsNotReady, Done, Ready, graph
  <2> QED BY <2>2, <2>3
<1>6. CASE UNCHANGED orderVars
  BY <1>6 DEF OrderTypeOK, Partition, RunsOverLiveProviders, PassedByIsNotReady,
              FailedForAReason, Done, Ready, orderVars, graph, sweep
<1> QED BY <1>1, <1>2, <1>3, <1>4, <1>5, <1>6 DEF OrderNext

LEMMA SweepInvariance == OrderSpec => []SweepInv
  BY SweepInit, SweepStep, PTL DEF OrderSpec

\* Every variable of the sweep stays in its type (recoverMissingLocked's maps
\* hold only selected add-ons, the loop makes two passes).
THEOREM RecoveryTypeCorrect == OrderSpec => []OrderTypeOK
<1>1. SweepInv => OrderTypeOK
  BY DEF SweepInv
<1> QED BY <1>1, SweepInvariance, PTL

\* A live add-on has every required provider live and bound, for every graph:
\* validateDependencies and resolveServices are called before each start.
THEOREM RecoveryRunsOverLiveProviders == OrderSpec => []RunsOverLiveProviders
<1>1. SweepInv => RunsOverLiveProviders
  BY DEF SweepInv
<1> QED BY <1>1, SweepInvariance, PTL

\* What the loop of recoverMissingLocked gives up could not have run.
THEOREM RecoveryGivesUpForAReason == OrderSpec => []GivenUpForAReason
<1>1. SweepInv => GivenUpForAReason
  BY DEF SweepInv, FailedForAReason, GivenUpForAReason
<1> QED BY <1>1, SweepInvariance, PTL

\* The sweep starts in a state the promise allows.
LEMMA PromiseInit == OrderInit => Promise!Init
  BY DEF OrderInit, Promise!Init

\* Each of its steps starts one add-on, fails one, gives up the rest or leaves
\* what the promise is about alone.
LEMMA PromiseStep == SweepInv /\ [OrderNext]_orderVars => [Promise!Next]_(Promise!vars)
<1> SUFFICES ASSUME SweepInv, [OrderNext]_orderVars
             PROVE  Promise!Next \/ UNCHANGED Promise!vars
  OBVIOUS
<1> USE DEF SweepInv
<1>1. ASSUME NEW a \in Addons, RecoverAddon(a) PROVE Promise!Next
  <2>1. Promise!Startable(a)
    BY <1>1 DEF RecoverAddon, Visits, Ready, Partition, Promise!Startable
  <2>2. CASE a \in failing
    <3>1. Promise!Fail(a)
      BY <1>1, <2>1, <2>2 DEF RecoverAddon, graph, Promise!Fail
    <3> QED BY <3>1 DEF Promise!Next
  <2>3. CASE a \notin failing
    <3>1. Promise!Start(a)
      BY <1>1, <2>1, <2>3 DEF RecoverAddon, graph, Promise!Start
    <3> QED BY <3>1 DEF Promise!Next
  <2> QED BY <2>2, <2>3
<1>2. CASE GiveUp
  <2>1. \A a \in Addons : ~Promise!Startable(a)
    BY <1>2 DEF GiveUp, Swept, Partition, PassedByIsNotReady, Ready, Promise!Startable
  <2>2. failed' = Addons \ live /\ UNCHANGED <<needs, failing, live>>
    BY <1>2 DEF GiveUp, Partition, graph
  <2>3. Promise!GiveUp
    BY <2>1, <2>2 DEF Promise!GiveUp
  <2> QED BY <2>3 DEF Promise!Next
<1>3. ASSUME NEW a \in Addons, Skip(a) PROVE UNCHANGED Promise!vars
  BY <1>3 DEF Skip, graph, Promise!vars
<1>4. CASE SecondPass \/ NextRound
  BY <1>4 DEF SecondPass, NextRound, graph, Promise!vars
<1>5. CASE UNCHANGED orderVars
  BY <1>5 DEF orderVars, graph, Promise!vars
<1> QED BY <1>1, <1>2, <1>3, <1>4, <1>5 DEF OrderNext

\* The sweep of recoverMissingLocked implements RecoveryPromise, whatever the
\* graph and whatever fails to start.
THEOREM RecoveryImplementsPromise == OrderSpec => KeepsPromise
<1> QED BY PromiseInit, PromiseStep, SweepInvariance, PTL DEF OrderSpec, KeepsPromise, Promise!Spec

(***************************************************************************)
(* In a healthy graph pass 0 decides everything.                           *)
(***************************************************************************)
Healthy == Acyclic /\ unfit \cup failing = {}

Provides(a) == needs[a] \cup uses[a]
Closed(S) == S \subseteq Addons /\ \A b \in S : Provides(b) \subseteq S

\* A set of add-ons that contains its members' providers, and what is acyclic
\* about a graph: no add-on is among the providers it rests on.
LEMMA AcyclicMeans ==
  ASSUME OrderTypeOK, Acyclic, NEW a \in Addons
  PROVE  \E S : Closed(S) /\ Provides(a) \subseteq S /\ a \notin S
BY DEF Acyclic, Closed, Provides, OrderTypeOK

LEMMA NothingProvidesItself ==
  ASSUME OrderTypeOK, Acyclic, NEW a \in Addons
  PROVE  a \notin Provides(a)
BY AcyclicMeans

\* The smallest closed set that holds a pending add-on holds one none of whose
\* providers is pending.
LEMMA OneHasNoPendingProvider ==
  ASSUME OrderTypeOK, Acyclic, IsFiniteSet(Addons), pending # {}
  PROVE  \E a \in pending : Provides(a) \cap pending = {}
<1> DEFINE Holding == {S \in SUBSET Addons : Closed(S) /\ S \cap pending # {}}
           Sizes == {Cardinality(S) : S \in Holding}
<1>1. \A S \in SUBSET Addons : Cardinality(S) \in Nat
  BY FS_Subset, FS_CardinalityType
<1>2. Addons \in Holding
  BY DEF OrderTypeOK, Closed, Provides
<1>3. Sizes \subseteq Nat /\ Sizes # {}
  BY <1>1, <1>2
<1>4. PICK n \in Sizes : \A m \in Sizes : ~(<<m, n>> \in OpToRel(<, Nat))
  BY <1>3, NatLessThanWellFounded, WFMin
<1>5. \A m \in Sizes : ~(m < n)
  BY <1>3, <1>4 DEF OpToRel
<1>6. PICK S \in Holding : n = Cardinality(S)
  BY <1>4
<1>7. PICK a \in S \cap pending : TRUE
  BY <1>6
<1>8. a \in Addons /\ Provides(a) \subseteq S
  BY <1>6, <1>7 DEF Closed
<1>9. PICK T : Closed(T) /\ Provides(a) \subseteq T /\ a \notin T
  BY <1>8, AcyclicMeans
<1> DEFINE U == S \cap T
<1>10. U \in SUBSET Addons /\ Closed(U)
  BY <1>6, <1>9 DEF Closed
<1>11. Cardinality(U) < Cardinality(S)
  <2>1. S \in SUBSET Addons /\ IsFiniteSet(S) /\ U \in SUBSET S /\ U # S
    BY <1>6, <1>7, <1>9, FS_Subset
  <2>2. Cardinality(U) <= Cardinality(S) /\ Cardinality(U) # Cardinality(S)
    BY <2>1, FS_Subset
  <2>3. Cardinality(U) \in Nat /\ Cardinality(S) \in Nat
    BY <1>1, <1>10, <2>1
  <2> QED BY ONLY <2>2, <2>3
<1>12. U \cap pending = {}
  <2>1. SUFFICES ASSUME U \cap pending # {} PROVE FALSE
    OBVIOUS
  <2>2. Cardinality(U) \in Sizes
    BY <1>10, <2>1
  <2> QED BY <1>5, <1>6, <1>11, <2>2
<1> QED BY <1>7, <1>8, <1>9, <1>12

\* While the graph is healthy no sweep ends without progress, so that the second
\* pass never begins and each add-on finds its optional providers live.
PassedByWaits ==
  ~progress => \A b \in pending : b <= position => ~Ready(b) \/ Prefers(b)

HealthyInv ==
  Healthy =>
    /\ pass = 0 /\ failed = {} /\ PassedByWaits
    /\ \A a \in live : bound[a] = Provides(a)

LEMMA HealthyInit == OrderInit => HealthyInv
BY IdsAreNumbers DEF OrderInit, HealthyInv, Healthy, PassedByWaits

LEMMA HealthyStep ==
  ASSUME IsFiniteSet(Addons), SweepInv, HealthyInv, [OrderNext]_orderVars
  PROVE  HealthyInv'
<1>g. UNCHANGED graph
  BY DEF OrderNext, Skip, RecoverAddon, SecondPass, NextRound, GiveUp, orderVars
<1>h. Healthy' => Healthy
  BY <1>g DEF Healthy, Acyclic, graph
<1> SUFFICES ASSUME Healthy
             PROVE  /\ (pass = 0)' /\ (failed = {})' /\ PassedByWaits'
                    /\ (\A a \in live : bound[a] = Provides(a))'
  BY <1>h DEF HealthyInv
<1>1. /\ OrderTypeOK /\ Acyclic /\ unfit \cup failing = {} /\ pass = 0 /\ failed = {}
      /\ PassedByWaits /\ \A a \in live : bound[a] = Provides(a)
  BY DEF SweepInv, HealthyInv, Healthy
<1>2. Addons = live \cup pending /\ live \cap pending = {}
  BY <1>1 DEF SweepInv, Partition
<1>p. /\ \A a \in Addons : Provides(a)' = Provides(a)
  BY <1>g DEF graph, Provides
<1>3. ASSUME NEW a \in Addons, RecoverAddon(a)
      PROVE  /\ (pass = 0)' /\ (failed = {})' /\ PassedByWaits'
             /\ (\A b \in live : bound[b] = Provides(b))'
  <2>1. /\ a \in pending /\ a \notin failing /\ needs[a] \subseteq live /\ ~Prefers(a)
        /\ pass' = pass /\ failed' = failed /\ progress' = TRUE /\ live' = live \cup {a}
        /\ bound' = [bound EXCEPT ![a] = (needs[a] \cup uses[a]) \cap live]
    BY <1>1, <1>3 DEF RecoverAddon, Visits, Ready
  <2>2. uses[a] \subseteq live
    BY <1>1, <1>2, <2>1, NothingProvidesItself DEF Prefers, Provides, OrderTypeOK
  <2>3. bound'[a] = Provides(a)
    BY <1>1, <2>1, <2>2 DEF Provides, OrderTypeOK
  <2>4. \A b \in live \ {a} : bound'[b] = Provides(b)
    BY <1>1, <1>2, <2>1 DEF OrderTypeOK
  <2>5. \A b \in live' : bound'[b] = Provides(b)'
    BY <1>2, <1>p, <2>1, <2>3, <2>4
  <2> QED BY <1>1, <2>1, <2>5 DEF PassedByWaits
<1>4. ASSUME NEW a \in Addons, Skip(a)
      PROVE  /\ (pass = 0)' /\ (failed = {})' /\ PassedByWaits'
             /\ (\A b \in live : bound[b] = Provides(b))'
  <2>1. /\ UNCHANGED <<graph, pending, live, failed, bound, pass, progress>> /\ position' = a
        /\ ~Ready(a) \/ Prefers(a)
        /\ \A b \in pending : b > position => a <= b
    BY <1>1, <1>4 DEF Skip, Visits
  <2>2. \A b \in pending : b <= a => b <= position \/ b = a
    BY <1>1, <1>2, <2>1, IdsAreNumbers DEF OrderTypeOK
  <2>3. ~progress => \A b \in pending : b <= a => ~Ready(b) \/ Prefers(b)
    BY <1>1, <2>1, <2>2 DEF PassedByWaits
  <2>4. PassedByWaits'
    BY <2>1, <2>3 DEF PassedByWaits, Ready, Prefers, graph
  <2> QED BY <1>1, <1>2, <1>p, <2>1, <2>4
<1>5. ~SecondPass
  <2>1. SUFFICES ASSUME SecondPass PROVE FALSE
    OBVIOUS
  <2>2. pending # {} /\ ~progress /\ \A b \in pending : b <= position
    BY <2>1 DEF SecondPass, Swept
  <2>3. PICK a \in pending : Provides(a) \cap pending = {}
    BY <1>1, <2>2, OneHasNoPendingProvider
  <2>4. Provides(a) \subseteq live
    BY <1>1, <1>2, <2>3 DEF OrderTypeOK, Provides
  <2>5. Ready(a) /\ ~Prefers(a)
    BY <2>3, <2>4 DEF Ready, Prefers, Provides
  <2> QED BY <1>1, <2>2, <2>5 DEF PassedByWaits
<1>6. CASE NextRound
  <2>1. UNCHANGED <<graph, pending, live, failed, bound>> /\ pass' = 0 /\ position' = -1
    BY <1>6 DEF NextRound
  <2>2. PassedByWaits'
    BY <1>2, <2>1, IdsAreNumbers DEF PassedByWaits
  <2> QED BY <1>1, <1>2, <1>p, <2>1, <2>2
<1>7. ~GiveUp
  BY <1>1 DEF GiveUp
<1>8. CASE UNCHANGED orderVars
  BY <1>1, <1>2, <1>p, <1>8 DEF orderVars, graph, sweep, PassedByWaits, Ready, Prefers
<1> QED BY <1>3, <1>4, <1>5, <1>6, <1>7, <1>8 DEF OrderNext

\* recoverMissingLocked leaves no optional service unbound for the order of its
\* sweeps alone: over every finite set of add-ons (a slice of the ids that durable
\* state selects), an acyclic graph whose add-ons all start is fully bound.
THEOREM RecoveryBindsAHealthyGraph ==
  ASSUME IsFiniteSet(Addons)
  PROVE  OrderSpec => []HealthyGraphIsFullyBound
<1>1. SweepInv /\ HealthyInv => HealthyGraphIsFullyBound
  BY DEF SweepInv, Partition, HealthyInv, Healthy, HealthyGraphIsFullyBound, Done, Provides
<1>2. SweepInv /\ HealthyInv /\ [OrderNext]_orderVars => HealthyInv'
  BY HealthyStep
<1> QED
  BY <1>1, <1>2, HealthyInit, SweepInvariance, PTL DEF OrderSpec

-----------------------------------------------------------------------------
(* The lifecycle of one add-on.                                            *)

LEMMA MaybeFacts ==
  ASSUME NEW S
  PROVE  None \in Maybe(S) /\ (\A e : e \in Maybe(S) <=> e \in S \/ e = None)
  BY DEF Maybe

\* The forms in which an action leaves its operation are well-formed operations.
LEMMA IdleOp == Idle \in Ops
  BY MaybeFacts DEF Ops, Idle, Operations, Steps

LEMMA StepOp ==
  ASSUME op \in Ops, NEW s \in Steps
  PROVE  /\ [op EXCEPT !.step = s] \in Ops
         /\ [op EXCEPT !.cut = TRUE] \in Ops
         /\ \A i \in Maybe(Instances) : [op EXCEPT !.next = i, !.step = s] \in Ops
         /\ \A i \in Maybe(Instances) : [op EXCEPT !.step = s, !.prev = i] \in Ops
  BY DEF Ops

LEMMA BeginOp ==
  ASSUME NEW k \in Operations, NEW s \in Steps, NEW g \in Maybe(Gens), NEW r \in Maybe(Reviews)
  PROVE  /\ [Idle EXCEPT !.kind = k, !.step = s] \in Ops
         /\ [Idle EXCEPT !.kind = k, !.step = s, !.gen = g] \in Ops
         /\ [Idle EXCEPT !.kind = k, !.step = s, !.gen = g, !.review = r] \in Ops
  BY MaybeFacts DEF Ops, Idle

LEMMA OpFields ==
  ASSUME op \in Ops
  PROVE  /\ op.kind \in Operations /\ op.step \in Steps /\ op.gen \in Maybe(Gens)
         /\ op.review \in Maybe(Reviews) /\ op.next \in Maybe(Instances)
         /\ op.prev \in Maybe(Instances) /\ op.cut \in BOOLEAN
  BY DEF Ops

(***************************************************************************)
(* The parts of the inductive invariant.                                   *)
(***************************************************************************)
Held == {"catalog", "route", "commit", "register", "undo"}
InPlaceSteps == Held \cup {"start", "gate", "stopPrevious", "stopNext"}
Silent == {"halt", "switch", "recover", "launch", "attach", "admit"}

\* Which operation can be at which step.
StepsOfKind ==
  /\ op.step \in InPlaceSteps => op.kind \in {"activate", "reload", "disable"}
  /\ op.step \in Silent \cup {"withdraw", "done"} =>
       op.kind \notin {"activate", "reload", "disable"}
  /\ op.kind = "disable" => op.step \in {"commit", "register", "stopPrevious"}
  /\ op.kind = "reload" => op.step \notin {"gate", "catalog", "undo"}

\* The data gate is held from the check of the data to the registration.
GateHeld == gate <=> op.step \in Held /\ op.kind \in {"activate", "disable"}

\* Nothing runs in a host that is down.
DownIsIdle == host = "down" => op = Idle

\* What an operation refers to is there: its review, its generation, the
\* generation that is being recovered.
Refers ==
  /\ op.review # None => reviews[op.review] # None
  /\ op.kind \in {"activate", "reload", "cohort", "update"} => op.gen # None
  /\ op.step \in {"launch", "attach", "admit"} => active # None

\* The worker that an operation has started is of the generation it is for.
StartedIsTarget ==
  /\ op.kind \in {"activate", "reload"} /\ op.step \in (Held \cup {"gate", "stopNext"}) =>
       op.next # None /\ op.next.gen = op.gen
  /\ op.step \in {"attach", "admit"} => op.next # None /\ op.next.gen = active

\* A reload and a disable are about the active generation, until it changes;
\* an activation is, once it has.
TargetIsActive ==
  /\ op.kind = "reload" => op.gen = active
  /\ op.kind = "disable" /\ op.step = "commit" => op.gen = active
  /\ op.kind = "disable" /\ op.step = "register" => active = None
  /\ op.kind = "activate" /\ op.step = "register" => op.gen = active

\* A registered generation runs, and is the active one but for the time between
\* a durable switch and its registration, while the gate is held.
RegisteredRuns ==
  /\ registry # None => runtime # None /\ runtime.gen = registry
  /\ registry # None => \/ registry = active
                        \/ op.step = "register" /\ op.kind = "activate"
                        \/ op.step = "register" /\ op.kind = "disable" /\ registry = op.gen
  /\ op.step \in Silent \/ host = "down" => registry = None

(***************************************************************************)
(* Type correctness.                                                       *)
(***************************************************************************)
Typed == TypeOK /\ StepsOfKind /\ Refers

LEMMA TypeInit == Init => TypeOK
<1> SUFFICES ASSUME Init PROVE TypeOK
  OBVIOUS
<1>1. op \in Ops
  BY IdleOp DEF Init
<1>2. reviews \in [Reviews -> Maybe(ReviewRows)] /\ attempts \in [Reviews -> Maybe(Attempts)]
  BY MaybeFacts DEF Init
<1> QED
  BY <1>1, <1>2, MaybeFacts DEF Init, TypeOK

LEMMA SwitchTyped ==
  ASSUME TypeOK, NEW g \in Maybe(Gens), NEW r \in Maybe(Reviews), SetActive(g, r),
         r # None => reviews[r] # None
  PROVE  /\ active' \in Maybe(Gens) /\ revision' \in Nat
         /\ reviews' \in [Reviews -> Maybe(ReviewRows)]
<1>1. CASE r = None
  BY <1>1 DEF TypeOK, SetActive
<1>2. CASE r # None
  <2>1. reviews[r] \in ReviewRows
    BY <1>2 DEF TypeOK, Maybe
  <2>2. [reviews[r] EXCEPT !.status = "consumed"] \in ReviewRows
    BY <2>1 DEF ReviewRows
  <2> QED
    BY <1>2, <2>2 DEF TypeOK, SetActive, Maybe
<1> QED
  BY <1>1, <1>2

LEMMA SpawnTyped ==
  ASSUME NEW g \in Gens, NEW w \in Workers
  PROVE  [gen |-> g, id |-> w] \in Instances /\ [gen |-> g, id |-> w] \in Maybe(Instances)
  BY DEF Instances, Maybe

LEMMA BudgetTyped ==
  ASSUME TypeOK
  PROVE  /\ \A name : Fails(name) => faults' \in Nat /\ crashes' \in Nat
         /\ Works => faults' \in Nat /\ crashes' \in Nat
         /\ Cut => faults' \in Nat /\ crashes' \in Nat
         /\ Just => faults' \in Nat /\ crashes' \in Nat
  BY DEF TypeOK, Fails, Works, Cut, Just, budget

LEMMA TypeInPlace == Typed /\ InPlace => TypeOK'
<1> SUFFICES ASSUME TypeOK, StepsOfKind, Refers, InPlace PROVE TypeOK'
  BY DEF Typed
<1> USE DEF TypeOK
<1>o. op \in Ops /\ Idle \in Ops
  BY IdleOp
<1>s. \A s \in Steps : [op EXCEPT !.step = s] \in Ops
  BY StepOp
<1>1. CASE StartNext
  <2>1. op.kind \in {"activate", "reload"} /\ op.gen \in Gens
    BY <1>1, OpFields DEF StartNext, StepsOfKind, InPlaceSteps, Refers, Maybe
  <2>2. CASE End /\ UNCHANGED running
    <3>1. faults' \in Nat /\ crashes' \in Nat
      BY <1>1, BudgetTyped DEF StartNext
    <3> QED
      BY <1>1, <2>2, <3>1, <1>o DEF StartNext, End, package, data, writing
  <2>3. ASSUME NEW w \in Workers, Works,
               running' = running \cup {[gen |-> op.gen, id |-> w]},
               op' = [op EXCEPT !.next = [gen |-> op.gen, id |-> w],
                                !.step = IF op.kind = "reload" THEN "route" ELSE "gate"]
        PROVE  TypeOK'
    <3>1. op' \in Ops
      BY <2>1, <2>3, SpawnTyped, StepOp DEF Steps
    <3> QED
      BY <1>1, <2>1, <2>3, <3>1, SpawnTyped DEF StartNext, Works, package, data, writing, budget
  <2> QED
    BY <1>1, <2>2, <2>3 DEF StartNext, Spawns
<1>2. CASE BeginActivation
  <2>1. op' \in Ops
    BY <1>2, <1>s DEF BeginActivation, Go, Steps
  <2>2. faults' \in Nat /\ crashes' \in Nat
    BY <1>2, BudgetTyped DEF BeginActivation
  <2> QED
    BY <1>2, <2>1, <2>2 DEF BeginActivation, package, data, runs
<1>3. CASE PublishCatalog
  <2>1. op' \in Ops
    BY <1>3, <1>s DEF PublishCatalog, Go, Steps
  <2>2. faults' \in Nat /\ crashes' \in Nat
    BY <1>3, BudgetTyped DEF PublishCatalog
  <2> QED
    BY <1>3, <2>1, <2>2, OpFields, MaybeFacts DEF PublishCatalog, RouteWithout, package, data, runs
<1>4. CASE PublishRoute
  <2>1. op' \in Ops
    BY <1>4, <1>s DEF PublishRoute, Go, Steps
  <2>2. faults' \in Nat /\ crashes' \in Nat
    BY <1>4, BudgetTyped DEF PublishRoute
  <2> QED
    BY <1>4, <2>1, <2>2, OpFields DEF PublishRoute, package, data, runs, writing
<1>5. CASE CommitActive
  <2>1. op' \in Ops
    BY <1>5, <1>s DEF CommitActive, Go, Steps
  <2>2. CASE Works /\ SetActive(op.gen, op.review) /\ UNCHANGED route
    <3>1. /\ active' \in Maybe(Gens) /\ revision' \in Nat
          /\ reviews' \in [Reviews -> Maybe(ReviewRows)]
      BY <2>2, OpFields, SwitchTyped DEF Refers
    <3> QED
      BY <1>5, <2>1, <2>2, <3>1 DEF CommitActive, Works, data, runs, writing, budget
  <2>3. CASE (Fails("commit") \/ Cut) /\ UNCHANGED <<active, revision, reviews>>
    BY <1>5, <2>1, <2>3
       DEF CommitActive, Reroute, Routed, Cut, Fails, data, runs, writing, budget
  <2> QED
    BY <1>5, <2>2, <2>3 DEF CommitActive
<1>6. CASE Undo
  <2>1. op' \in Ops
    BY <1>6, <1>s DEF Undo, Go, Steps
  <2>2. catalog' \in Maybe(Gens)
    BY <1>6 DEF Undo, Maybe, Instances
  <2>3. route' \in Maybe(Instances)
    BY <1>6, MaybeFacts DEF Undo, Routed, RouteWithout
  <2> QED
    BY <1>6, <2>1, <2>2, <2>3 DEF Undo, package, data, runs, budget
<1>7. CASE Register
  BY <1>7, OpFields, StepOp DEF Register, Steps, package, data, budget
<1>8. CASE StopPrevious
  BY <1>8, <1>o DEF StopPrevious, End, package, data, writing, budget
<1>9. CASE StopNext
  BY <1>9, <1>o DEF StopNext, End, package, data, writing, budget
<1>10. CASE CommitDisabled
  <2>1. op' \in Ops
    BY <1>10, <1>s, <1>o DEF CommitDisabled, Reinstated, Go, End, Steps
  <2>2. /\ active' \in Maybe(Gens) /\ revision' \in Nat
        /\ reviews' \in [Reviews -> Maybe(ReviewRows)]
    BY <1>10 DEF CommitDisabled, SetActive, Maybe
  <2>3. faults' \in Nat /\ crashes' \in Nat
    BY <1>10, BudgetTyped DEF CommitDisabled
  <2>4. route' \in Maybe(Instances) /\ gate' \in BOOLEAN
    BY <1>10 DEF CommitDisabled, Reinstated, Reroute, Routed
  <2> QED
    BY <1>10, <2>1, <2>2, <2>3, <2>4 DEF CommitDisabled, data, runs
<1>11. CASE RegisterDisabled
  BY <1>11, OpFields, StepOp, MaybeFacts DEF RegisterDisabled, Steps, package, data, budget
<1> QED
  BY <1>1, <1>2, <1>3, <1>4, <1>5, <1>6, <1>7, <1>8, <1>9, <1>10, <1>11 DEF InPlace

LEMMA TypeCold == Typed /\ Cold => TypeOK'
<1> SUFFICES ASSUME TypeOK, StepsOfKind, Refers, Cold PROVE TypeOK'
  BY DEF Typed
<1> USE DEF TypeOK
<1>o. op \in Ops /\ Idle \in Ops
  BY IdleOp
<1>s. \A s \in Steps : [op EXCEPT !.step = s] \in Ops
  BY StepOp
<1>1. CASE Withdraw
  <2>1. op' \in Ops
    BY <1>1, <1>s DEF Withdraw, Go, Steps
  <2> QED
    BY <1>1, <2>1, MaybeFacts DEF Withdraw, RouteWithout, package, data, runs, budget
<1>2. CASE Halt
  <2>1. op' \in Ops
    BY <1>2, <1>s, <1>o DEF Halt, Go, End, AfterHalt, Steps
  <2>2. faults' \in Nat /\ crashes' \in Nat
    BY <1>2, BudgetTyped DEF Halt
  <2>3. running' \subseteq Instances
    BY <1>2 DEF Halt
  <2> QED
    BY <1>2, <2>1, <2>2, <2>3, MaybeFacts DEF Halt, package, data, writing
<1>3. CASE Switch
  <2>1. op' \in Ops
    BY <1>3, <1>s DEF Switch, Go, Steps
  <2>2. faults' \in Nat /\ crashes' \in Nat
    BY <1>3, BudgetTyped DEF Switch
  <2>3. /\ active' \in Maybe(Gens) /\ revision' \in Nat
        /\ reviews' \in [Reviews -> Maybe(ReviewRows)]
    <3>1. CASE UNCHANGED <<active, revision, reviews>>
      BY <3>1
    <3>2. CASE SetActive(op.gen, op.review)
      BY <3>2, OpFields, SwitchTyped DEF Refers
    <3>3. CASE SetActive(None, None)
      BY <3>3 DEF SetActive, Maybe
    <3> QED
      BY <1>3, <3>1, <3>2, <3>3 DEF Switch
  <2> QED
    BY <1>3, <2>1, <2>2, <2>3 DEF Switch, data, runs, writing
<1>4. CASE ApplyUpdate
  <2>1. op' \in Ops
    BY <1>4, <1>s DEF ApplyUpdate, Go, Steps
  <2>2. faults' \in Nat /\ crashes' \in Nat
    BY <1>4, BudgetTyped DEF ApplyUpdate
  <2>3. CASE UNCHANGED <<active, revision, reviews, attempts, stored, docs, dataRev, removed, plan>>
    BY <1>4, <2>1, <2>2, <2>3 DEF ApplyUpdate, runs, writing
  <2>4. CASE /\ Works /\ SnapshotMatches
             /\ \/ stored' = Schema[op.gen] /\ UNCHANGED <<docs, removed>>
                \/ stored' = None /\ docs' = {} /\ removed' = removed \cup plan.docs
             /\ dataRev' = dataRev + 1 /\ SetActive(op.gen, op.review) /\ plan' = None
             /\ attempts' = [attempts EXCEPT ![op.review] =
                  [status |-> "pending", revision |-> revision, active |-> active,
                   stored |-> plan.stored, docs |-> plan.docs, rev |-> plan.rev]]
    <3>1. /\ active' \in Maybe(Gens) /\ revision' \in Nat
          /\ reviews' \in [Reviews -> Maybe(ReviewRows)]
      BY <2>4, OpFields, SwitchTyped DEF Refers
    <3>2. op.gen \in Gens
      BY <1>4, OpFields DEF ApplyUpdate, Refers, Maybe
    <3>3. stored' \in Maybe(Schemas) /\ docs' \subseteq Writes /\ dataRev' \in Nat
      BY <2>4, <3>2, SwitchAssumption DEF SwitchAssumption, Maybe
    <3>4. plan.docs \subseteq Writes /\ plan.stored \in Maybe(Schemas) /\ plan.rev \in Nat
      BY <2>4 DEF SnapshotMatches
    <3>5. attempts' \in [Reviews -> Maybe(Attempts)]
      <4>1. [status |-> "pending", revision |-> revision, active |-> active,
             stored |-> plan.stored, docs |-> plan.docs, rev |-> plan.rev] \in Attempts
        BY <3>4 DEF Attempts
      <4> QED
        BY <2>4, <4>1 DEF Maybe
    <3> QED
      BY <1>4, <2>1, <2>2, <2>4, <3>1, <3>3, <3>4, <3>5, MaybeFacts DEF ApplyUpdate, runs, writing
  <2> QED
    BY <1>4, <2>3, <2>4 DEF ApplyUpdate
<1>5. CASE Recover
  <2>1. op' \in Ops
    BY <1>5, <1>s DEF Recover, Go, Steps
  <2>2. faults' \in Nat /\ crashes' \in Nat
    BY <1>5, BudgetTyped DEF Recover
  <2> QED
    BY <1>5, <2>1, <2>2 DEF Recover, package, data, runs, writing
<1>6. CASE Launch
  <2>1. active \in Gens
    BY <1>6 DEF Launch, Refers, Maybe
  <2>2. faults' \in Nat /\ crashes' \in Nat
    BY <1>6, BudgetTyped DEF Launch
  <2>3. op' \in Ops /\ running' \subseteq Instances
    <3>1. CASE Go("done") /\ UNCHANGED running
      BY <3>1, <1>s DEF Go, Steps
    <3>2. ASSUME NEW w \in Workers, running' = running \cup {[gen |-> active, id |-> w]},
                 op' = [op EXCEPT !.next = [gen |-> active, id |-> w], !.step = "attach"]
          PROVE  op' \in Ops /\ running' \subseteq Instances
      BY <2>1, <3>2, SpawnTyped, StepOp DEF Steps
    <3> QED
      BY <1>6, <3>1, <3>2 DEF Launch, Spawns
  <2> QED
    BY <1>6, <2>2, <2>3 DEF Launch, package, data, writing
<1>7. CASE Attach
  <2>1. op' \in Ops
    BY <1>7, <1>s DEF Attach, Abandon, Go, Steps
  <2>2. faults' \in Nat /\ crashes' \in Nat
    BY <1>7, BudgetTyped DEF Attach
  <2>3. route' \in Maybe(Instances) /\ running' \subseteq Instances
    BY <1>7, OpFields, MaybeFacts DEF Attach, Abandon, RouteWithout
  <2> QED
    BY <1>7, <2>1, <2>2, <2>3 DEF Attach, package, data, writing
<1>8. CASE Admit
  <2>1. op' \in Ops
    BY <1>8, <1>s DEF Admit, Abandon, Go, Steps
  <2>2. faults' \in Nat /\ crashes' \in Nat
    BY <1>8, BudgetTyped DEF Admit
  <2>3. /\ route' \in Maybe(Instances) /\ running' \subseteq Instances
        /\ registry' \in Maybe(Gens) /\ runtime' \in Maybe(Instances)
    BY <1>8, OpFields, MaybeFacts DEF Admit, Abandon, RouteWithout
  <2> QED
    BY <1>8, <2>1, <2>2, <2>3 DEF Admit, package, data
<1>9. CASE Finish
  <2>1. faults' \in Nat /\ crashes' \in Nat
    BY <1>9, BudgetTyped DEF Finish
  <2>2. /\ active' \in Maybe(Gens) /\ revision' \in Nat
        /\ reviews' \in [Reviews -> Maybe(ReviewRows)]
    BY <1>9 DEF Finish, SetActive
  <2> QED
    BY <1>9, <2>1, <2>2, <1>o DEF Finish, End, data, runs, writing
<1>10. CASE Settle
  <2>1. op' \in Ops
    <3>1. [Idle EXCEPT !.kind = "restore", !.step = "withdraw"] \in Ops
      BY BeginOp, MaybeFacts DEF Operations, Steps
    <3> QED
      BY <1>10, <3>1, <1>o DEF Settle, End
  <2>2. faults' \in Nat /\ crashes' \in Nat
    BY <1>10, BudgetTyped DEF Settle
  <2>3. attempts' \in [Reviews -> Maybe(Attempts)]
    <3>1. CASE UNCHANGED attempts
      BY <3>1
    <3>2. CASE /\ op.review \in Pending
               /\ attempts' = [attempts EXCEPT ![op.review].status = "applied"]
      <4>1. attempts[op.review] \in Attempts
        BY <3>2, MaybeFacts DEF Pending
      <4>2. [attempts[op.review] EXCEPT !.status = "applied"] \in Attempts
        BY <4>1 DEF Attempts
      <4> QED
        BY <3>2, <4>2 DEF Maybe
    <3> QED
      BY <1>10, <3>1, <3>2 DEF Settle
  <2> QED
    BY <1>10, <2>1, <2>2, <2>3 DEF Settle, data, runs
<1>11. CASE Restore
  <2>1. op' \in Ops
    BY <1>11, <1>s, <1>o DEF Restore, Go, End, Steps
  <2>2. faults' \in Nat /\ crashes' \in Nat
    BY <1>11, BudgetTyped DEF Restore
  <2>3. CASE UNCHANGED <<stored, docs, dataRev, removed, active, revision, attempts, updating>>
    BY <1>11, <2>1, <2>2, <2>3 DEF Restore, runs
  <2>4. ASSUME NEW r \in Pending,
               stored' = attempts[r].stored, docs' = attempts[r].docs, dataRev' = attempts[r].rev,
               removed' = removed \ attempts[r].docs,
               active' = attempts[r].active, revision' = revision + 1,
               attempts' = [attempts EXCEPT ![r].status = "failed"],
               updating' = FALSE, UNCHANGED host
        PROVE  TypeOK'
    <3>1. attempts[r] \in Attempts /\ r \in Reviews
      BY <2>4, MaybeFacts DEF Pending
    <3>2. [attempts[r] EXCEPT !.status = "failed"] \in Attempts
      BY <3>1 DEF Attempts
    <3>3. attempts' \in [Reviews -> Maybe(Attempts)]
      BY <2>4, <3>2 DEF Maybe
    <3>4. /\ stored' \in Maybe(Schemas) /\ docs' \subseteq Writes /\ removed' \subseteq Writes
          /\ dataRev' \in Nat
          /\ active' \in Maybe(Gens) /\ revision' \in Nat
      BY <2>4, <3>1 DEF Attempts
    <3>5. UNCHANGED <<reviews, acked, runtime, running, registry, gate, catalog, plan, route,
                      importing>>
      BY <1>11 DEF Restore, runs
    <3>6. updating' \in BOOLEAN /\ host' = host
      BY <2>4
    <3> QED
      BY <2>1, <2>2, <3>3, <3>4, <3>5, <3>6
  <2> QED
    BY <1>11, <2>3, <2>4 DEF Restore
<1> QED
  BY <1>1, <1>2, <1>3, <1>4, <1>5, <1>6, <1>7, <1>8, <1>9, <1>10, <1>11 DEF Cold

\* Frame of the requests that only start an operation.
LEMMA TypeBegun ==
  ASSUME TypeOK, op' \in Ops,
         UNCHANGED <<package, data, runs, registry, updating, catalog, plan, host, importing,
                     budget>>,
         gate' \in BOOLEAN, route' \in Maybe(Instances)
  PROVE  TypeOK'
  BY DEF TypeOK, package, data, runs, budget

LEMMA TypeBegins ==
  ASSUME TypeOK,
         \/ \E r \in Reviews : ActivateReviewed(r)
         \/ Reload \/ Disable \/ SelectService \/ DisableReviewed \/ Bounce \/ Maintain
         \/ \E kind \in {"bounce", "relaunch"} : Relaunch(kind)
  PROVE  TypeOK'
<1> USE BeginOp, MaybeFacts DEF Begin, TypeOK
<1>1. op' \in Ops
  <2>1. ASSUME NEW r \in Reviews, ActivateReviewed(r) PROVE op' \in Ops
    <3>1. reviews[r].gen \in Maybe(Gens)
      <4>1. reviews[r] \in ReviewRows
        BY <2>1 DEF ActivateReviewed
      <4> QED
        BY <4>1 DEF ReviewRows
    <3>2. r \in Maybe(Reviews)
      OBVIOUS
    <3>3. [Idle EXCEPT !.kind = "activate", !.step = "start",
                       !.gen = reviews[r].gen, !.review = r] \in Ops
      BY <3>1, <3>2 DEF Operations, Steps
    <3>4. [Idle EXCEPT !.kind = "cohort", !.step = "withdraw",
                       !.gen = reviews[r].gen, !.review = r] \in Ops
      BY <3>1, <3>2 DEF Operations, Steps
    <3> QED
      BY <2>1, <3>3, <3>4 DEF ActivateReviewed
  <2>2. CASE Reload
    BY <2>2 DEF Reload, Operations, Steps
  <2>3. CASE Disable
    BY <2>3 DEF Disable, Operations, Steps
  <2>4. CASE SelectService
    BY <2>4 DEF SelectService, Operations, Steps
  <2>5. CASE DisableReviewed
    BY <2>5 DEF DisableReviewed, Operations, Steps
  <2>6. CASE Bounce
    BY <2>6 DEF Bounce, Operations, Steps
  <2>7. CASE Maintain
    BY <2>7 DEF Maintain, Operations, Steps
  <2>8. ASSUME NEW kind \in {"bounce", "relaunch"}, Relaunch(kind) PROVE op' \in Ops
    BY <2>8 DEF Relaunch, Operations, Steps
  <2> QED
    BY <2>1, <2>2, <2>3, <2>4, <2>5, <2>6, <2>7, <2>8
<1>2. /\ UNCHANGED <<package, data, runs, registry, updating, catalog, plan, host, importing,
                     budget>>
      /\ gate' \in BOOLEAN /\ route' \in Maybe(Instances)
  BY DEF ActivateReviewed, Reload, Disable, SelectService, DisableReviewed, Bounce, Maintain,
         Relaunch, RouteWithout, writing
<1> QED
  BY <1>1, <1>2, TypeBegun

LEMMA TypeRequests == Typed /\ Requests => TypeOK'
<1> SUFFICES ASSUME TypeOK, Requests PROVE TypeOK'
  BY DEF Typed
<1>1. CASE \/ \E r \in Reviews : ActivateReviewed(r)
           \/ Reload \/ Disable \/ SelectService \/ DisableReviewed \/ Bounce \/ Maintain
           \/ \E kind \in {"bounce", "relaunch"} : Relaunch(kind)
  BY <1>1, TypeBegins
<1> USE DEF TypeOK
<1>2. ASSUME NEW r \in Reviews, ResolveAndActivate(r) PROVE TypeOK'
  <2>1. reviews[r].gen \in Maybe(Gens)
    <3>1. reviews[r] \in ReviewRows
      BY <1>2, MaybeFacts DEF ResolveAndActivate
    <3> QED
      BY <3>1, MaybeFacts DEF ReviewRows
  <2>2. op' \in Ops
    <3>1. r \in Maybe(Reviews)
      BY MaybeFacts
    <3> QED
      BY <1>2, <2>1, <3>1, BeginOp DEF ResolveAndActivate, Begin, Operations, Steps
  <2> QED
    BY <1>2, <2>2 DEF ResolveAndActivate, package, data, runs, budget
<1>3. ASSUME NEW r \in Reviews, ApproveReview(r) PROVE TypeOK'
  <2>1. reviews[r] \in ReviewRows
    BY <1>3, MaybeFacts DEF ApproveReview
  <2>2. [reviews[r] EXCEPT !.status = "approved"] \in ReviewRows
    BY <2>1 DEF ReviewRows
  <2>3. reviews' \in [Reviews -> Maybe(ReviewRows)]
    BY <1>3, <2>2 DEF ApproveReview, Maybe
  <2> QED
    BY <1>3, <2>3 DEF ApproveReview, data, runs, writing, budget
<1>4. ASSUME NEW r \in Reviews, DiscardReview(r) PROVE TypeOK'
  <2>1. reviews' \in [Reviews -> Maybe(ReviewRows)]
    BY <1>4 DEF DiscardReview, Maybe
  <2> QED
    BY <1>4, <2>1 DEF DiscardReview, data, runs, writing, budget
<1>5. ASSUME NEW r \in Reviews, PrepareDataReview(r) PROVE TypeOK'
  <2>1. reviews[r] \in ReviewRows
    BY <1>5, MaybeFacts DEF PrepareDataReview
  <2>2. plan' \in Plans
    BY <1>5, <2>1 DEF PrepareDataReview, ReviewRows, Plans
  <2> QED
    BY <1>5, <2>2, MaybeFacts DEF PrepareDataReview, package, data, runs, writing, budget
<1>6. ASSUME NEW r \in Reviews, NEW g \in Gens, PrepareReview(r, g) PROVE TypeOK'
  <2>1. [gen |-> g, exp |-> revision, blocked |-> ~Fits(g), status |-> "prepared"] \in ReviewRows
    BY DEF ReviewRows
  <2>2. reviews' \in [Reviews -> Maybe(ReviewRows)]
    BY <1>6, <2>1 DEF PrepareReview, Maybe
  <2> QED
    BY <1>6, <2>2 DEF PrepareReview, data, runs, writing, budget
<1>7. CASE ContextEnds
  <2>1. op' \in Ops
    BY <1>7, StepOp, OpFields DEF ContextEnds
  <2>2. faults' \in Nat /\ crashes' \in Nat
    BY <1>7, BudgetTyped DEF ContextEnds
  <2> QED
    BY <1>7, <2>1, <2>2 DEF ContextEnds, package, data, runs, writing
<1> QED
  BY <1>1, <1>2, <1>3, <1>4, <1>5, <1>6, <1>7 DEF Requests

LEMMA TypeRecords == TypeOK /\ Records => TypeOK'
<1> SUFFICES ASSUME TypeOK, Records PROVE TypeOK'
  OBVIOUS
<1> USE DEF TypeOK
<1>1. ASSUME NEW w \in Writes, NEW g \in Gens, Store(w, g)
      PROVE  /\ stored' \in Maybe(Schemas) /\ docs' \subseteq Writes /\ dataRev' \in Nat
             /\ acked' \subseteq Writes /\ removed' \subseteq Writes
  BY <1>1, SwitchAssumption, MaybeFacts DEF Store, SwitchAssumption
<1>2. CASE ValidateImport
  <2>1. registry \in Gens
    BY <1>2, MaybeFacts DEF ValidateImport, Writable
  <2>2. importing' \in [gen : Gens, rev : Nat]
    BY <1>2, <2>1 DEF ValidateImport
  <2> QED
    BY <1>2, <2>2, MaybeFacts DEF ValidateImport, package, data, runs, writing, budget
<1>3. ASSUME NEW w \in Writes, Write(w) PROVE TypeOK'
  <2>1. registry \in Gens /\ Store(w, registry)
    BY <1>3, MaybeFacts DEF Write, Writable
  <2> QED
    BY <1>1, <1>3, <2>1 DEF Write, package, runs, writing, budget
<1>4. ASSUME NEW w \in Writes, CommitImport(w) PROVE TypeOK'
  <2>1. importing.gen \in Gens
    <3>1. importing \in [gen : Gens, rev : Nat]
      BY <1>4, MaybeFacts DEF CommitImport
    <3> QED
      BY <3>1
  <2>2. /\ stored' \in Maybe(Schemas) /\ docs' \subseteq Writes /\ dataRev' \in Nat
        /\ acked' \subseteq Writes /\ removed' \subseteq Writes
    BY <1>1, <1>4, <2>1 DEF CommitImport, data
  <2> QED
    BY <1>4, <2>2, MaybeFacts DEF CommitImport, package, runs, writing, budget
<1> QED
  BY <1>2, <1>3, <1>4 DEF Records

LEMMA TypeHost == TypeOK /\ (Crash \/ Boot) => TypeOK'
<1> SUFFICES ASSUME TypeOK, Crash \/ Boot PROVE TypeOK'
  OBVIOUS
<1> USE DEF TypeOK
<1>1. CASE Crash
  <2>1. /\ op' \in Ops /\ host' = "down" /\ runtime' = None /\ running' = {} /\ route' = None
        /\ registry' = None /\ gate' = FALSE /\ updating' = FALSE /\ importing' = None
        /\ crashes' \in Nat
    BY <1>1, IdleOp DEF Crash
  <2>2. UNCHANGED <<package, data, catalog, plan, faults>>
    BY <1>1 DEF Crash
  <2>3. gate' \in BOOLEAN /\ updating' \in BOOLEAN
    BY <2>1
  <2> QED
    BY <2>1, <2>2, <2>3, MaybeFacts DEF package, data
<1>2. CASE Boot
  <2>1. op' \in Ops
    BY <1>2, BeginOp, MaybeFacts DEF Boot, Begin, Operations, Steps
  <2> QED
    BY <1>2, <2>1 DEF Boot, package, data, runs, writing, budget
<1> QED
  BY <1>1, <1>2

LEMMA TypeStep == Typed /\ [Next]_vars => TypeOK'
<1>1. TypeOK /\ UNCHANGED vars => TypeOK'
  BY DEF TypeOK, vars, package, data, runs, writing, budget
<1> QED
  BY <1>1, TypeInPlace, TypeCold, TypeRequests, TypeRecords, TypeHost DEF Next, Typed

(***************************************************************************)
(* Which operation is at which step, and what it refers to.                *)
(***************************************************************************)
\* An action that only moves the operation on, or ends it.
LEMMA OpMoves ==
  ASSUME op \in Ops
  PROVE  /\ \A s : Go(s) => /\ op'.step = s /\ op'.kind = op.kind /\ op'.gen = op.gen
                            /\ op'.review = op.review /\ op'.next = op.next
         /\ End => op'.step = "idle" /\ op'.kind = "none" /\ op'.review = None
  BY DEF Ops, Go, End, Idle

LEMMA StepsInPlace == Typed /\ InPlace => StepsOfKind'
<1> SUFFICES ASSUME op \in Ops, StepsOfKind, InPlace PROVE StepsOfKind'
  BY DEF Typed, TypeOK
<1> USE OpMoves DEF StepsOfKind, InPlaceSteps, Held, Silent
<1>1. CASE StartNext
  <2>1. CASE End
    BY <2>1
  <2>2. ASSUME NEW i, op' = [op EXCEPT !.next = i,
                                       !.step = IF op.kind = "reload" THEN "route" ELSE "gate"]
        PROVE  StepsOfKind'
    <3>1. op'.kind = op.kind /\ op'.step = IF op.kind = "reload" THEN "route" ELSE "gate"
      BY <2>2 DEF Ops
    <3>2. op.step = "start"
      BY <1>1 DEF StartNext
    <3> QED
      BY <3>1, <3>2
  <2> QED
    BY <1>1, <2>1, <2>2 DEF StartNext
<1>2. CASE BeginActivation
  BY <1>2 DEF BeginActivation
<1>3. CASE PublishCatalog
  BY <1>3 DEF PublishCatalog
<1>4. CASE PublishRoute
  BY <1>4 DEF PublishRoute
<1>5. CASE CommitActive
  BY <1>5 DEF CommitActive
<1>6. CASE Undo
  BY <1>6 DEF Undo
<1>7. CASE Register \/ RegisterDisabled
  <2>1. op'.kind = op.kind /\ op'.step = "stopPrevious"
    BY <1>7 DEF Register, RegisterDisabled, Ops
  <2> QED
    BY <1>7, <2>1 DEF Register, RegisterDisabled
<1>8. CASE StopPrevious \/ StopNext
  BY <1>8 DEF StopPrevious, StopNext
<1>9. CASE CommitDisabled
  BY <1>9 DEF CommitDisabled, Reinstated
<1> QED
  BY <1>1, <1>2, <1>3, <1>4, <1>5, <1>6, <1>7, <1>8, <1>9 DEF InPlace

LEMMA StepsCold == Typed /\ Cold => StepsOfKind'
<1> SUFFICES ASSUME op \in Ops, StepsOfKind, Cold PROVE StepsOfKind'
  BY DEF Typed, TypeOK
<1> USE OpMoves DEF StepsOfKind, InPlaceSteps, Held, Silent
<1>1. CASE Withdraw \/ Switch \/ ApplyUpdate \/ Recover
  <2>1. /\ op.step \in {"withdraw", "switch", "recover"}
        /\ Go("halt") \/ Go("recover") \/ Go("launch") \/ Go("done")
    BY <1>1 DEF Withdraw, Switch, ApplyUpdate, Recover
  <2> QED
    BY <2>1
<1>2. CASE Halt
  BY <1>2 DEF Halt, AfterHalt
<1>3. CASE Launch
  <2>0. op.step = "launch"
    BY <1>3 DEF Launch
  <2>1. CASE Go("done")
    BY <2>0, <2>1
  <2>2. ASSUME NEW i, op' = [op EXCEPT !.next = i, !.step = "attach"] PROVE StepsOfKind'
    <3>1. op'.kind = op.kind /\ op'.step = "attach"
      BY <2>2 DEF Ops
    <3> QED
      BY <2>0, <3>1
  <2> QED
    BY <1>3, <2>1, <2>2 DEF Launch
<1>4. CASE Attach \/ Admit
  BY <1>4 DEF Attach, Admit, Abandon
<1>5. CASE Finish
  BY <1>5 DEF Finish
<1>6. CASE Settle
  <2>1. CASE End
    BY <2>1
  <2>2. CASE op' = [Idle EXCEPT !.kind = "restore", !.step = "withdraw"]
    BY <2>2 DEF Idle
  <2> QED
    BY <1>6, <2>1, <2>2 DEF Settle
<1>7. CASE Restore
  BY <1>7 DEF Restore
<1> QED
  BY <1>1, <1>2, <1>3, <1>4, <1>5, <1>6, <1>7 DEF Cold

\* What an operation is when it starts, and what holds then.
StartsAs ==
  \/ /\ op'.kind = "activate" /\ op'.step = "start"
     /\ op'.gen # None /\ op'.review \in Reviews /\ reviews[op'.review] # None
  \/ /\ op'.kind = "reload" /\ op'.step = "start" /\ op'.review = None
     /\ op'.gen = active /\ active # None
  \/ /\ op'.kind = "disable" /\ op'.step = "commit" /\ op'.review = None /\ op'.gen = active
     /\ Disable
  \/ /\ op'.kind \in {"cohort", "update"} /\ op'.step = "withdraw"
     /\ op'.gen # None /\ op'.review \in Reviews /\ reviews[op'.review] # None
     /\ op'.kind = "cohort" => "cohort" \in Paths
  \/ /\ op'.kind \in {"select", "remove", "bounce", "maintain", "startup"}
     /\ op'.step = "withdraw" /\ op'.review = None
  \/ /\ op'.kind \in {"bounce", "relaunch", "startup"} /\ op'.step = "recover"
     /\ op'.review = None /\ (runtime = None \/ host = "down")

Begins ==
  \/ \E r \in Reviews : ActivateReviewed(r) \/ ResolveAndActivate(r)
  \/ Reload \/ Disable \/ SelectService \/ DisableReviewed \/ Bounce \/ Maintain
  \/ \E kind \in {"bounce", "relaunch"} : Relaunch(kind)

LEMMA Starts == TypeOK /\ (Begins \/ Boot) => StartsAs
<1> SUFFICES ASSUME TypeOK, Begins \/ Boot PROVE StartsAs
  OBVIOUS
<1> USE DEF Begin, StartsAs, Idle
<1>1. ASSUME NEW r \in Reviews, ActivateReviewed(r) \/ ResolveAndActivate(r) PROVE StartsAs
  <2>1. reviews[r] # None /\ reviews[r] \in ReviewRows
    BY <1>1, MaybeFacts DEF TypeOK, ActivateReviewed, ResolveAndActivate
  <2>2. reviews[r].gen # None
    BY <2>1, NoneAssumption DEF NoneAssumption, ReviewRows
  <2>3. CASE ActivateReviewed(r)
    <3>1. \/ op' = [Idle EXCEPT !.kind = "activate", !.step = "start",
                                !.gen = reviews[r].gen, !.review = r]
          \/ /\ "cohort" \in Paths
             /\ op' = [Idle EXCEPT !.kind = "cohort", !.step = "withdraw",
                                   !.gen = reviews[r].gen, !.review = r]
      BY <2>3 DEF ActivateReviewed
    <3> QED
      BY <2>1, <2>2, <3>1
  <2>4. CASE ResolveAndActivate(r)
    <3>1. op' = [Idle EXCEPT !.kind = "update", !.step = "withdraw",
                             !.gen = reviews[r].gen, !.review = r]
      BY <2>4 DEF ResolveAndActivate
    <3> QED
      BY <2>1, <2>2, <3>1
  <2> QED
    BY <1>1, <2>3, <2>4
<1>2. CASE Reload
  BY <1>2 DEF Reload
<1>3. CASE Disable
  BY <1>3 DEF Disable
<1>4. CASE SelectService \/ DisableReviewed \/ Bounce \/ Maintain
  BY <1>4 DEF SelectService, DisableReviewed, Bounce, Maintain
<1>5. ASSUME NEW kind \in {"bounce", "relaunch"}, Relaunch(kind) PROVE StartsAs
  BY <1>5 DEF Relaunch
<1>6. CASE Boot
  BY <1>6 DEF Boot
<1> QED
  BY <1>1, <1>2, <1>3, <1>4, <1>5, <1>6 DEF Begins

\* The other requests and the record actions leave the operation alone, but
\* for the end of its context.
Aside ==
  \/ \E r \in Reviews : \/ ApproveReview(r) \/ DiscardReview(r) \/ PrepareDataReview(r)
                        \/ \E g \in Gens : PrepareReview(r, g)
  \/ Records

LEMMA NextCases ==
  [Next]_vars => \/ InPlace \/ Cold \/ Begins \/ ContextEnds \/ Aside
                 \/ Crash \/ Boot \/ UNCHANGED vars
  BY DEF Next, Requests, Begins, Aside

LEMMA AsideFrame ==
  Aside => UNCHANGED <<active, revision, attempts, runs, writing, route, op, host>>
  BY DEF Aside, ApproveReview, DiscardReview, PrepareDataReview, PrepareReview, Records,
         ValidateImport, Write, CommitImport, package

LEMMA ContextFrame ==
  op \in Ops /\ ContextEnds =>
    /\ op'.step = op.step /\ op'.kind = op.kind /\ op'.gen = op.gen
    /\ op'.review = op.review /\ op'.next = op.next /\ op.kind # "none"
    /\ UNCHANGED <<package, data, runs, writing, catalog, plan, route, host, importing>>
  BY DEF ContextEnds, Ops

LEMMA StepsStep == Typed /\ [Next]_vars => StepsOfKind'
<1> SUFFICES ASSUME TypeOK, StepsOfKind, Refers, [Next]_vars PROVE StepsOfKind'
  BY DEF Typed
<1> USE DEF StepsOfKind, InPlaceSteps, Held, Silent
<1>1. CASE InPlace \/ Cold
  BY <1>1, StepsInPlace, StepsCold DEF Typed
<1>2. CASE Begins \/ Boot
  BY <1>2, Starts DEF StartsAs
<1>3. CASE ContextEnds
  BY <1>3, ContextFrame DEF TypeOK
<1>4. CASE Aside \/ UNCHANGED vars
  BY <1>4, AsideFrame DEF vars
<1>5. CASE Crash
  BY <1>5 DEF Crash, Idle
<1> QED
  BY <1>1, <1>2, <1>3, <1>4, <1>5, NextCases

\* An operation stays what it is until it ends, or a failed update turns into
\* its own restore.
LEMMA OpKeeps ==
  ASSUME op \in Ops, InPlace \/ Cold
  PROVE  \/ op'.kind = op.kind /\ op'.gen = op.gen /\ op'.review = op.review
         \/ op'.kind = "none" /\ op'.step = "idle" /\ op'.review = None
         \/ op'.kind = "restore" /\ op'.step = "withdraw" /\ op'.review = None
<1> USE OpMoves
<1>1. CASE (\E s : Go(s)) \/ End
  BY <1>1
<1>2. CASE StartNext
  <2>1. ASSUME NEW i, NEW s, op' = [op EXCEPT !.next = i, !.step = s]
        PROVE  op'.kind = op.kind /\ op'.gen = op.gen /\ op'.review = op.review
    BY <2>1 DEF Ops
  <2> QED
    BY <1>1, <1>2, <2>1 DEF StartNext
<1>3. CASE Launch
  <2>1. ASSUME NEW i, NEW s, op' = [op EXCEPT !.next = i, !.step = s]
        PROVE  op'.kind = op.kind /\ op'.gen = op.gen /\ op'.review = op.review
    BY <2>1 DEF Ops
  <2> QED
    BY <1>1, <1>3, <2>1 DEF Launch
<1>4. CASE Register \/ RegisterDisabled
  BY <1>4 DEF Register, RegisterDisabled, Ops
<1>5. CASE BeginActivation \/ PublishCatalog \/ PublishRoute
  BY <1>5 DEF BeginActivation, PublishCatalog, PublishRoute
<1>6. CASE CommitActive \/ CommitDisabled
  BY <1>6, <1>1 DEF CommitActive, CommitDisabled, Reinstated
<1>7. CASE Undo \/ StopPrevious \/ StopNext
  BY <1>7, <1>1 DEF Undo, StopPrevious, StopNext
<1>8. CASE Withdraw \/ Halt \/ Switch
  BY <1>8, <1>1 DEF Withdraw, Halt, Switch
<1>9. CASE ApplyUpdate \/ Recover \/ Attach \/ Admit
  BY <1>9, <1>1 DEF ApplyUpdate, Recover, Attach, Admit, Abandon
<1>10. CASE Finish \/ Restore
  BY <1>10, <1>1 DEF Finish, Restore
<1>11. CASE Settle
  <2>1. CASE op' = [Idle EXCEPT !.kind = "restore", !.step = "withdraw"]
    BY <2>1 DEF Idle
  <2> QED
    BY <1>1, <1>11, <2>1 DEF Settle
<1> QED
  BY <1>2, <1>3, <1>4, <1>5, <1>6, <1>7, <1>8, <1>9, <1>10, <1>11 DEF InPlace, Cold

\* No step of an operation deletes a review.
LEMMA ReviewsStay ==
  ASSUME Typed, InPlace \/ Cold, NEW r \in Reviews, reviews[r] # None
  PROVE  reviews'[r] # None
<1>1. CASE reviews' = reviews
  BY <1>1
<1>2. ASSUME NEW g, NEW x \in Maybe(Reviews), SetActive(g, x), x # None => reviews[x] # None
      PROVE  reviews'[r] # None
  <2>1. CASE x = None
    BY <1>2, <2>1 DEF SetActive
  <2>2. CASE x # None
    <3>1. reviews[x] \in ReviewRows
      BY <1>2, <2>2, MaybeFacts DEF Typed, TypeOK
    <3>2. [reviews[x] EXCEPT !.status = "consumed"] \in ReviewRows
      BY <3>1 DEF ReviewRows
    <3>3. reviews' = [reviews EXCEPT ![x] = [reviews[x] EXCEPT !.status = "consumed"]]
      BY <1>2, <2>2 DEF SetActive
    <3>4. reviews \in [Reviews -> Maybe(ReviewRows)]
      BY DEF Typed, TypeOK
    <3> QED
      BY <3>2, <3>3, <3>4, NoneAssumption DEF NoneAssumption
  <2> QED
    BY <2>1, <2>2
<1>3. \/ reviews' = reviews
      \/ SetActive(op.gen, op.review) \/ SetActive(None, None) \/ SetActive(active, None)
  <2>1. CASE InPlace
    BY <2>1
       DEF InPlace, StartNext, BeginActivation, PublishCatalog, PublishRoute, CommitActive, Undo,
           Register, StopPrevious, StopNext, CommitDisabled, RegisterDisabled, package
  <2>2. CASE Cold
    BY <2>2 DEF Cold, Withdraw, Halt, Switch, ApplyUpdate, Recover, Launch, Attach, Admit, Finish,
                Settle, Restore, package
  <2> QED
    BY <2>1, <2>2
<1>4. op.review \in Maybe(Reviews) /\ (op.review # None => reviews[op.review] # None)
  BY OpFields DEF Typed, TypeOK, Refers
<1> QED
  BY <1>1, <1>2, <1>3, <1>4, MaybeFacts

\* Where the steps of a restart come from.
LEMMA ColdSteps ==
  ASSUME op \in Ops, Cold
  PROVE  /\ op'.step = "launch" => op.step = "recover" /\ active # None
         /\ op'.step = "attach" => op.step = "launch"
         /\ op'.step = "admit" => op.step = "attach"
         /\ op'.step \in {"launch", "attach", "admit"} => UNCHANGED <<active, reviews>>
<1> USE OpMoves
<1>1. CASE Withdraw \/ Halt \/ Switch \/ ApplyUpdate \/ Finish \/ Restore
  <2>1. Go("halt") \/ Go("switch") \/ Go("recover") \/ End
    BY <1>1 DEF Withdraw, Halt, AfterHalt, Switch, ApplyUpdate, Finish, Restore
  <2> QED
    BY <2>1
<1>2. CASE Settle
  <2>1. CASE op' = [Idle EXCEPT !.kind = "restore", !.step = "withdraw"]
    BY <2>1 DEF Idle
  <2> QED
    BY <1>2, <2>1 DEF Settle
<1>3. CASE Recover
  BY <1>3 DEF Recover, package
<1>4. CASE Launch
  <2>1. op.step = "launch" /\ UNCHANGED <<active, reviews>>
    BY <1>4 DEF Launch, package
  <2>2. ASSUME NEW i, op' = [op EXCEPT !.next = i, !.step = "attach"] PROVE op'.step = "attach"
    BY <2>2 DEF Ops
  <2>3. op'.step \in {"attach", "done"}
    BY <1>4, <2>2 DEF Launch
  <2> QED
    BY <2>1, <2>3
<1>5. CASE Attach \/ Admit
  BY <1>5 DEF Attach, Admit, Abandon, package
<1> QED
  BY <1>1, <1>2, <1>3, <1>4, <1>5 DEF Cold

LEMMA BeginsFrame ==
  Begins \/ Boot => /\ UNCHANGED <<package, data, runs, registry, catalog, importing, budget>>
                    /\ UNCHANGED gate \/ Disable
  BY DEF Begins, ActivateReviewed, ResolveAndActivate, Reload, Disable, SelectService,
         DisableReviewed, Bounce, Maintain, Relaunch, Boot, writing

LEMMA InPlaceKind ==
  ASSUME op \in Ops, StepsOfKind, InPlace
  PROVE  op.kind \in {"activate", "reload", "disable"} /\ op.step \in InPlaceSteps
  BY DEF StepsOfKind, InPlaceSteps, Held, InPlace, StartNext, BeginActivation,
         PublishCatalog, PublishRoute, CommitActive, Undo, Register, StopPrevious, StopNext,
         CommitDisabled, RegisterDisabled

LEMMA ColdKind ==
  ASSUME op \in Ops, StepsOfKind, Cold
  PROVE  /\ op.kind \notin {"activate", "reload", "disable"}
         /\ op.step \in Silent \cup {"withdraw", "done"}
  BY DEF StepsOfKind, Silent, Cold, Withdraw, Halt, Switch, ApplyUpdate, Recover, Launch, Attach,
         Admit, Finish, Settle, Restore

LEMMA RefersStep == Typed /\ [Next]_vars => Refers'
<1> SUFFICES ASSUME Typed, TypeOK, op \in Ops, StepsOfKind, Refers, [Next]_vars PROVE Refers'
  BY DEF Typed, TypeOK
<1> USE DEF Refers
<1>1. CASE InPlace \/ Cold
  <2>1. op'.review # None => reviews'[op'.review] # None
    <3>1. op'.review # None => op'.review = op.review
      BY <1>1, OpKeeps
    <3> QED
      BY <1>1, <3>1, ReviewsStay, OpFields, MaybeFacts
  <2>2. op'.kind \in {"activate", "reload", "cohort", "update"} => op'.gen # None
    BY <1>1, OpKeeps
  <2>3. op'.step \in {"launch", "attach", "admit"} => active' # None
    <3>1. CASE InPlace
      BY <3>1, StepsStep, OpKeeps, InPlaceKind DEF StepsOfKind, Silent
    <3>2. CASE Cold
      BY <3>2, ColdSteps
    <3> QED
      BY <1>1, <3>1, <3>2
  <2> QED
    BY <2>1, <2>2, <2>3
<1>2. CASE Begins \/ Boot
  BY <1>2, Starts, BeginsFrame, NoneAssumption DEF StartsAs, package, NoneAssumption
<1>3. CASE ContextEnds
  BY <1>3, ContextFrame DEF package
<1>4. CASE Aside
  <2>1. op.review # None => UNCHANGED reviews
    BY <1>4 DEF Aside, ApproveReview, DiscardReview, PrepareDataReview, PrepareReview, Records,
                ValidateImport, Write, CommitImport, package, Free, Idle
  <2> QED
    BY <1>4, <2>1, AsideFrame
<1>5. CASE Crash
  BY <1>5 DEF Crash, Idle
<1>6. CASE UNCHANGED vars
  BY <1>6 DEF vars, package
<1> QED
  BY <1>1, <1>2, <1>3, <1>4, <1>5, <1>6, NextCases

LEMMA DownStep == Typed /\ DownIsIdle /\ [Next]_vars => DownIsIdle'
<1> SUFFICES ASSUME Typed, op \in Ops, StepsOfKind, DownIsIdle, [Next]_vars PROVE DownIsIdle'
  BY DEF Typed, TypeOK
<1> USE DEF DownIsIdle
<1>1. CASE InPlace
  <2>1. host # "down" /\ UNCHANGED host
    <3>1. op # Idle
      BY <1>1, InPlaceKind DEF Idle, InPlaceSteps, Held
    <3>2. UNCHANGED host
      BY <1>1 DEF InPlace, StartNext, BeginActivation,
       PublishCatalog, PublishRoute, CommitActive, Undo, Register, StopPrevious, StopNext,
       CommitDisabled, RegisterDisabled
    <3> QED
      BY <3>1, <3>2
  <2> QED
    BY <2>1
<1>2. CASE Cold
  <2>1. host # "down"
    BY <1>2, ColdKind DEF Idle, Silent
  <2>2. host' = host \/ host' = "up" \/ End
    BY <1>2 DEF Cold, Withdraw, Halt, Switch, ApplyUpdate, Recover, Launch, Attach, Admit,
                Finish, Settle, Restore
  <2> QED
    BY <2>1, <2>2 DEF End
<1>3. CASE Begins
  <2>1. host' = "up"
    BY <1>3 DEF Begins, ActivateReviewed, ResolveAndActivate, Reload, Disable, SelectService,
                DisableReviewed, Bounce, Maintain, Relaunch, Free
  <2> QED
    BY <2>1
<1>4. CASE ContextEnds
  BY <1>4 DEF ContextEnds, Idle
<1>5. CASE Boot \/ Crash
  BY <1>5 DEF Boot, Crash
<1>6. CASE Aside \/ UNCHANGED vars
  BY <1>6, AsideFrame DEF vars
<1> QED
  BY <1>1, <1>2, <1>3, <1>4, <1>5, <1>6, NextCases

LEMMA TypedInvariant == Spec => []Typed
<1>1. Init => Typed
  BY TypeInit DEF Typed, Init, Idle, StepsOfKind, Refers, InPlaceSteps, Held, Silent
<1>2. Typed /\ [Next]_vars => Typed'
  BY TypeStep, StepsStep, RefersStep DEF Typed
<1> QED
  BY <1>1, <1>2, PTL DEF Spec

\* Every variable keeps its type: in particular an operation always knows the
\* generation and the review its later steps will use.
THEOREM SwitchTypeCorrect == Spec => []TypeOK
  BY TypedInvariant, PTL DEF Typed

(***************************************************************************)
(* Who may write.                                                          *)
(***************************************************************************)
\* An action of the in-place kind either moves op on, or ends it.
LEMMA GateInPlace ==
  ASSUME Typed, GateHeld, InPlace
  PROVE  GateHeld'
<1> USE OpMoves DEF GateHeld, Held
<1>o. op \in Ops /\ StepsOfKind
  BY DEF Typed, TypeOK
<1>1. CASE StartNext
  <2>1. ASSUME NEW i, op' = [op EXCEPT !.next = i,
                                       !.step = IF op.kind = "reload" THEN "route" ELSE "gate"]
        PROVE  op'.kind = op.kind /\ op'.step = IF op.kind = "reload" THEN "route" ELSE "gate"
    BY <1>o, <2>1 DEF Ops
  <2>2. op.step = "start" /\ UNCHANGED gate
    BY <1>1 DEF StartNext, writing
  <2>3. End \/ (op'.kind = op.kind /\ op'.step = IF op.kind = "reload" THEN "route" ELSE "gate")
    BY <1>1, <2>1 DEF StartNext
  <2> QED
    BY <1>o, <2>2, <2>3
<1>2. CASE BeginActivation
  BY <1>o, <1>2 DEF BeginActivation, StepsOfKind, InPlaceSteps
<1>3. CASE PublishCatalog
  BY <1>o, <1>3 DEF PublishCatalog
<1>4. CASE PublishRoute
  BY <1>o, <1>4 DEF PublishRoute, writing, StepsOfKind, InPlaceSteps
<1>5. CASE CommitActive
  BY <1>o, <1>5 DEF CommitActive, writing
<1>6. CASE Undo
  BY <1>o, <1>6 DEF Undo
<1>7. CASE Register \/ RegisterDisabled
  <2>1. op'.kind = op.kind /\ op'.step = "stopPrevious"
    BY <1>7, <1>o DEF Register, RegisterDisabled, Ops
  <2> QED
    BY <1>o, <1>7, <2>1 DEF Register, RegisterDisabled
<1>8. CASE StopPrevious \/ StopNext
  BY <1>o, <1>8 DEF StopPrevious, StopNext, writing
<1>9. CASE CommitDisabled
  BY <1>o, <1>9 DEF CommitDisabled, Reinstated
<1> QED
  BY <1>1, <1>2, <1>3, <1>4, <1>5, <1>6, <1>7, <1>8, <1>9 DEF InPlace

LEMMA GateStep ==
  ASSUME Typed, DownIsIdle, GateHeld, [Next]_vars
  PROVE  GateHeld'
<1> USE DEF GateHeld, Held
<1>o. op \in Ops /\ StepsOfKind
  BY DEF Typed, TypeOK
<1>1. CASE InPlace
  BY <1>1, GateInPlace
<1>2. CASE Cold
  <2>1. op.kind \notin {"activate", "reload", "disable"} /\ UNCHANGED gate
    BY <1>2, <1>o DEF Cold, Withdraw, Halt, Switch, ApplyUpdate, Recover, Launch, Attach, Admit,
                      Finish, Settle, Restore, StepsOfKind, Silent, writing
  <2>2. op'.kind \notin {"activate", "disable"}
    BY <1>2, <1>o, <2>1, OpKeeps
  <2> QED
    BY <2>1, <2>2
<1>3. CASE Begins \/ Boot
  <2>1. CASE Disable
    BY <2>1 DEF Disable, Begin, Idle
  <2>2. CASE ~Disable
    <3>1. op = Idle
      BY <1>3 DEF Begins, ActivateReviewed, ResolveAndActivate, Reload, Disable, SelectService,
                  DisableReviewed, Bounce, Maintain, Relaunch, Boot, Free, DownIsIdle
    <3>2. ~gate'
      BY <1>3, <2>2, <3>1, BeginsFrame DEF Idle
    <3>3. ~(op'.kind \in {"activate", "disable"} /\ op'.step \in Held)
      BY <1>3, <2>2, Starts DEF Typed, StartsAs
    <3> QED
      BY <3>2, <3>3
  <2> QED
    BY <2>1, <2>2
<1>4. CASE ContextEnds
  BY <1>4, <1>o, ContextFrame DEF writing
<1>5. CASE Aside
  BY <1>5, AsideFrame DEF writing
<1>6. CASE Crash
  BY <1>6 DEF Crash, Idle
<1>7. CASE UNCHANGED vars
  BY <1>7 DEF vars, writing
<1> QED
  BY <1>1, <1>2, <1>3, <1>4, <1>5, <1>6, <1>7, NextCases

\* Past its start, an operation in place knows the worker it has started.
LEMMA InPlaceMoves ==
  ASSUME op \in Ops, InPlace
  PROVE  \/ StartNext
         \/ /\ op.step \in {"gate", "catalog", "route", "commit", "undo"}
            /\ op'.kind = op.kind /\ op'.gen = op.gen /\ op'.next = op.next
            /\ op'.step = "register" => op.step = "commit"
         \/ op'.step \in {"idle", "stopPrevious"}
<1> USE OpMoves DEF Held
<1>1. CASE BeginActivation \/ PublishCatalog \/ PublishRoute
  BY <1>1 DEF BeginActivation, PublishCatalog, PublishRoute
<1>2. CASE CommitActive \/ CommitDisabled
  BY <1>2 DEF CommitActive, CommitDisabled, Reinstated
<1>3. CASE Undo \/ StopPrevious \/ StopNext
  BY <1>3 DEF Undo, StopPrevious, StopNext
<1>4. CASE Register \/ RegisterDisabled
  BY <1>4 DEF Register, RegisterDisabled, Ops
<1> QED
  BY <1>1, <1>2, <1>3, <1>4 DEF InPlace

LEMMA StartedStep ==
  ASSUME Typed, StartedIsTarget, [Next]_vars
  PROVE  StartedIsTarget'
<1> USE DEF StartedIsTarget, Held
<1>o. TypeOK /\ op \in Ops /\ StepsOfKind /\ Refers
  BY DEF Typed, TypeOK
<1>1. CASE InPlace
  <2>1. op'.step \notin {"attach", "admit"}
    BY <1>1, <1>o, OpKeeps, InPlaceKind, StepsStep DEF StepsOfKind, Silent
  <2>2. CASE StartNext
    <3>1. ASSUME NEW w \in Workers,
                 op' = [op EXCEPT !.next = [gen |-> op.gen, id |-> w],
                                  !.step = IF op.kind = "reload" THEN "route" ELSE "gate"]
          PROVE  op'.next # None /\ op'.next.gen = op'.gen
      <4>1. op.gen \in Gens
        BY <1>o, <1>1, <2>2, OpFields, InPlaceKind, MaybeFacts
           DEF Refers, StepsOfKind, StartNext
      <4>2. op'.next = [gen |-> op.gen, id |-> w] /\ op'.gen = op.gen
        BY <1>o, <3>1 DEF Ops
      <4> QED
        BY <4>1, <4>2, SpawnTyped, NoneAssumption DEF NoneAssumption
    <3>2. End => op'.step = "idle"
      BY OpMoves, <1>o
    <3> QED
      BY <2>1, <2>2, <3>1, <3>2 DEF StartNext, Spawns
  <2>3. CASE ~StartNext
    BY <1>1, <1>o, <2>1, <2>3, InPlaceMoves
  <2> QED
    BY <2>2, <2>3
<1>2. CASE Cold
  <2>1. op'.kind \notin {"activate", "reload"}
    BY <1>2, <1>o, ColdKind, OpKeeps
  <2>2. ASSUME op'.step = "attach" PROVE op'.next # None /\ op'.next.gen = active'
    <3>1. CASE Launch
      <4>1. Go("done") => op'.step = "done"
        BY <1>o, OpMoves
      <4>2. PICK w \in Workers :
              op' = [op EXCEPT !.next = [gen |-> active, id |-> w], !.step = "attach"]
        BY <2>2, <3>1, <4>1 DEF Launch, Spawns
      <4>3. op'.next = [gen |-> active, id |-> w]
        BY <1>o, <4>2 DEF Ops
      <4>4. active \in Gens /\ active' = active
        BY <1>o, <3>1, MaybeFacts DEF TypeOK, Launch, Refers, package
      <4> QED
        BY <4>3, <4>4, SpawnTyped, NoneAssumption DEF NoneAssumption
    <3>2. CASE ~Launch
      BY <1>2, <1>o, <2>2, <3>2, ColdSteps DEF Cold, Withdraw, Halt, Switch, ApplyUpdate, Recover,
         Attach, Admit, Finish, Settle, Restore
    <3> QED
      BY <3>1, <3>2
  <2>3. ASSUME op'.step = "admit" PROVE op'.next # None /\ op'.next.gen = active'
    <3>1. op.step = "attach" /\ active' = active
      BY <1>2, <1>o, <2>3, ColdSteps
    <3>2. Attach
      BY <1>2, <3>1 DEF Cold, Withdraw, Halt, Switch, ApplyUpdate, Recover, Launch,
         Admit, Finish, Settle, Restore
    <3>3. op'.next = op.next
      BY <1>o, <3>2, OpMoves DEF Attach, Abandon
    <3> QED
      BY <3>1, <3>3
  <2> QED
    BY <2>1, <2>2, <2>3
<1>3. CASE Begins \/ Boot
  BY <1>3, <1>o, Starts DEF StartsAs
<1>4. CASE ContextEnds
  BY <1>4, <1>o, ContextFrame DEF package
<1>5. CASE Aside
  BY <1>5, AsideFrame
<1>6. CASE Crash
  BY <1>6 DEF Crash, Idle
<1>7. CASE UNCHANGED vars
  BY <1>7 DEF vars, package
<1> QED
  BY <1>1, <1>2, <1>3, <1>4, <1>5, <1>6, <1>7, NextCases

LEMMA TargetStep ==
  ASSUME Typed, TargetIsActive, [Next]_vars
  PROVE  TargetIsActive'
<1> USE DEF TargetIsActive
<1>o. TypeOK /\ op \in Ops /\ StepsOfKind
  BY DEF Typed, TypeOK
<1>1. CASE InPlace
  <2>1. CASE CommitActive
    <3>1. \/ op' = [op EXCEPT !.step = "register"] /\ active' = op.gen
          \/ op' = [op EXCEPT !.step = "undo"] /\ active' = active
          \/ op' = [op EXCEPT !.step = "stopNext"] /\ active' = active
      BY <2>1 DEF CommitActive, SetActive, Go
    <3>2. op.kind \in {"activate", "reload"}
      BY <2>1 DEF CommitActive
    <3> QED
      BY <1>o, <3>1, <3>2 DEF Ops
  <2>2. CASE CommitDisabled
    BY <1>o, <2>2, OpMoves DEF CommitDisabled, Reinstated, SetActive
  <2>3. CASE ~CommitActive /\ ~CommitDisabled
    <3>1. UNCHANGED active
      BY <1>1, <2>3 DEF InPlace, StartNext, BeginActivation, PublishCatalog, PublishRoute,
         Undo, Register, StopPrevious, StopNext, RegisterDisabled, package
    <3>2. op.step # "commit"
      BY <1>1, <2>3 DEF InPlace, StartNext, BeginActivation, PublishCatalog, PublishRoute,
         Undo, Register, StopPrevious, StopNext, RegisterDisabled, CommitActive, CommitDisabled
    <3>3. CASE StartNext
      <4>1. ASSUME NEW i, op' = [op EXCEPT !.next = i,
                                           !.step = IF op.kind = "reload" THEN "route" ELSE "gate"]
            PROVE  op'.step \in {"route", "gate"}
        BY <1>o, <4>1 DEF Ops
      <4>2. op'.step \in {"route", "gate", "idle"}
        BY <1>o, <3>3, <4>1, OpMoves DEF StartNext
      <4> QED
        BY <1>o, <1>1, <3>1, <4>2, OpKeeps
    <3>4. CASE ~StartNext
      BY <1>o, <1>1, <3>1, <3>2, <3>4, InPlaceMoves, OpKeeps DEF StepsOfKind
    <3> QED
      BY <3>3, <3>4
  <2> QED
    BY <2>1, <2>2, <2>3
<1>2. CASE Cold
  BY <1>2, <1>o, ColdKind, OpKeeps
<1>3. CASE Begins \/ Boot
  BY <1>3, <1>o, Starts, BeginsFrame DEF StartsAs, package
<1>4. CASE ContextEnds
  BY <1>4, <1>o, ContextFrame DEF package
<1>5. CASE Aside
  BY <1>5, AsideFrame
<1>6. CASE Crash
  BY <1>6 DEF Crash, Idle
<1>7. CASE UNCHANGED vars
  BY <1>7 DEF vars, package
<1> QED
  BY <1>1, <1>2, <1>3, <1>4, <1>5, <1>6, <1>7, NextCases

WriterInv == Typed /\ DownIsIdle /\ GateHeld /\ StartedIsTarget /\ TargetIsActive /\ RegisteredRuns

\* Actions that leave memory and the selection alone keep what is registered.
LEMMA RegisteredFrame ==
  ASSUME RegisteredRuns, UNCHANGED <<registry, runtime>>,
         registry # None => active' = active /\ op.step # "register",
         op'.step \in Silent \/ host' = "down" => registry = None
  PROVE  RegisteredRuns'
  BY DEF RegisteredRuns

LEMMA RegisteredInPlace ==
  ASSUME WriterInv, InPlace, "disableRead" \notin Unreliable
  PROVE  RegisteredRuns'
<1> USE DEF RegisteredRuns
<1>o. TypeOK /\ op \in Ops /\ StepsOfKind /\ host # "down" /\ host' = host
  <2>1. op # Idle
    BY InPlaceKind DEF WriterInv, Typed, TypeOK, Idle, InPlaceSteps, Held
  <2>2. host' = host
    BY DEF InPlace, StartNext, BeginActivation, PublishCatalog, PublishRoute, CommitActive, Undo,
           Register, StopPrevious, StopNext, CommitDisabled, RegisterDisabled
  <2> QED
    BY <2>1, <2>2 DEF WriterInv, DownIsIdle, Typed, TypeOK
<1>s. op'.step \notin Silent
  BY <1>o, OpKeeps, InPlaceKind, StepsInPlace DEF WriterInv, StepsOfKind, Silent
<1>1. CASE CommitActive
  <2>1. \/ op' = [op EXCEPT !.step = "register"] /\ active' = op.gen
        \/ op' = [op EXCEPT !.step = "undo"] /\ active' = active
        \/ op' = [op EXCEPT !.step = "stopNext"] /\ active' = active
    BY <1>1 DEF CommitActive, SetActive, Go
  <2>2. op.step = "commit" /\ op.kind \in {"activate", "reload"} /\ UNCHANGED <<registry, runtime>>
    BY <1>1 DEF CommitActive, runs, writing
  <2> QED
    BY <1>o, <1>s, <2>1, <2>2 DEF Ops, WriterInv, TargetIsActive
<1>2. CASE CommitDisabled
  <2>1. \/ op' = [op EXCEPT !.step = "register"]
        \/ op' = Idle /\ active' = active
    BY <1>2 DEF CommitDisabled, Reinstated, Go, End, Fails
  <2>2. op.step = "commit" /\ op.kind = "disable" /\ UNCHANGED <<registry, runtime>>
    BY <1>2 DEF CommitDisabled, runs
  <2> QED
    BY <1>o, <1>s, <2>1, <2>2 DEF Ops, WriterInv, TargetIsActive
<1>3. CASE Register
  <2>1. op'.step = "stopPrevious" /\ active' = active
    BY <1>o, <1>3 DEF Register, Ops, package
  <2>2. CASE op.kind = "activate"
    BY <1>3, <1>o, <1>s, <2>1, <2>2
       DEF Register, WriterInv, StartedIsTarget, TargetIsActive, Held
  <2>3. CASE op.kind = "reload"
    BY <1>3, <1>o, <1>s, <2>1, <2>3
       DEF Register, WriterInv, StartedIsTarget, TargetIsActive, Held
  <2> QED
    BY <1>3, <1>o, <2>2, <2>3 DEF Register, StepsOfKind, InPlaceSteps, Held
<1>4. CASE RegisterDisabled
  <2>1. op'.step = "stopPrevious" /\ active' = active
    BY <1>o, <1>4 DEF RegisterDisabled, Ops, package
  <2>2. registry \in {None, op.gen} /\ registry' = None
    BY <1>4 DEF RegisterDisabled, WriterInv, TargetIsActive
  <2> QED
    BY <1>o, <1>s, <2>1, <2>2
<1>5. CASE \/ StartNext \/ BeginActivation \/ PublishCatalog \/ PublishRoute \/ Undo
           \/ StopPrevious \/ StopNext
  <2>1. UNCHANGED <<registry, runtime, active>> /\ op.step # "register"
    BY <1>5 DEF StartNext, BeginActivation, PublishCatalog, PublishRoute, Undo, StopPrevious,
                StopNext, runs, package, writing
  <2> QED
    BY <1>o, <1>s, <2>1, RegisteredFrame DEF WriterInv
<1> QED
  BY <1>1, <1>2, <1>3, <1>4, <1>5 DEF InPlace

LEMMA RegisteredCold ==
  ASSUME WriterInv, Cold
  PROVE  RegisteredRuns'
<1> USE DEF RegisteredRuns
<1>o. TypeOK /\ op \in Ops /\ StepsOfKind /\ RegisteredRuns
  BY DEF WriterInv, Typed, TypeOK
<1>1. CASE Withdraw
  <2>1. registry' = None /\ UNCHANGED <<runtime, active>>
    BY <1>1, <1>o DEF Withdraw, runs, package
  <2> QED
    BY <2>1
<1>2. CASE Halt \/ Switch \/ ApplyUpdate \/ Recover \/ Launch \/ Attach \/ Restore
  <2>1. registry = None /\ registry' = None
    BY <1>2, <1>o DEF Halt, Switch, ApplyUpdate, Recover, Launch, Attach, Restore, Silent, writing
  <2> QED
    BY <2>1
<1>3. CASE Admit
  <2>1. registry = None /\ Go("done") /\ UNCHANGED <<active, host>>
    BY <1>3, <1>o DEF Admit, Abandon, Silent, package
  <2>2. \/ registry' = active /\ runtime' = op.next
        \/ registry' = None
    BY <1>3, <2>1 DEF Admit
  <2> QED
    BY <1>3, <1>o, <2>1, <2>2, OpMoves DEF Admit, WriterInv, DownIsIdle, StartedIsTarget, Silent, Idle
<1>4. CASE Finish
  <2>1. UNCHANGED <<registry, runtime, active>> /\ op.step = "done" /\ op'.step = "idle" /\ host' = "up"
    BY <1>4, <1>o, OpMoves DEF Finish, SetActive, runs, writing
  <2> QED
    BY <1>o, <2>1 DEF Silent
<1>5. CASE Settle
  <2>1. UNCHANGED <<registry, runtime, active, host>> /\ op.step = "done"
    BY <1>5 DEF Settle, runs
  <2>2. op'.step \in {"idle", "withdraw"}
    <3>1. CASE op' = [Idle EXCEPT !.kind = "restore", !.step = "withdraw"]
      BY <3>1 DEF Idle
    <3> QED
      BY <1>5, <1>o, <3>1, OpMoves DEF Settle
  <2>3. op # Idle
    BY <2>1 DEF Idle
  <2> QED
    BY <1>o, <2>1, <2>2, <2>3 DEF Silent, WriterInv, DownIsIdle
<1> QED
  BY <1>1, <1>2, <1>3, <1>4, <1>5 DEF Cold

LEMMA RegisteredStep ==
  ASSUME WriterInv, [Next]_vars, "disableRead" \notin Unreliable
  PROVE  RegisteredRuns'
<1> USE DEF RegisteredRuns
<1>o. TypeOK /\ op \in Ops /\ StepsOfKind /\ RegisteredRuns
  BY DEF WriterInv, Typed, TypeOK
<1>1. CASE InPlace
  BY <1>1, RegisteredInPlace
<1>2. CASE Cold
  BY <1>2, RegisteredCold
<1>3. CASE Begins \/ Boot
  <2>1. UNCHANGED <<registry, runtime, active>> /\ host' # "down" /\ op = Idle
    BY <1>3 DEF Begins, ActivateReviewed, ResolveAndActivate, Reload, Disable, SelectService,
       DisableReviewed, Bounce, Maintain, Relaunch, Boot, Free, WriterInv, DownIsIdle,
       runs, writing, package
  <2>2. op'.step \in Silent => registry = None
    BY <1>3, <1>o, Starts DEF StartsAs, Silent
  <2> QED
    BY <1>o, <2>1, <2>2 DEF Idle
<1>4. CASE ContextEnds
  BY <1>4, <1>o, ContextFrame DEF package, runs, writing
<1>5. CASE Aside
  BY <1>5, <1>o, AsideFrame DEF runs, writing
<1>6. CASE Crash
  BY <1>6 DEF Crash, Idle
<1>7. CASE UNCHANGED vars
  BY <1>7, <1>o DEF vars, package, runs, writing
<1> QED
  BY <1>1, <1>2, <1>3, <1>4, <1>5, <1>6, <1>7, NextCases

LEMMA WriterInvariant ==
  ASSUME "disableRead" \notin Unreliable
  PROVE  Spec => []WriterInv
<1>1. Init => WriterInv
  <2> SUFFICES ASSUME Init PROVE WriterInv
    OBVIOUS
  <2>1. Typed
    BY TypeInit DEF Typed, Init, Idle, StepsOfKind, Refers, InPlaceSteps, Held, Silent
  <2>2. op.kind = "none" /\ op.step = "idle"
    BY DEF Init, Idle
  <2> QED
    BY <2>1, <2>2 DEF Init, WriterInv, DownIsIdle, GateHeld, StartedIsTarget, TargetIsActive,
                      RegisteredRuns, Held, Silent
<1>2. WriterInv /\ [Next]_vars => WriterInv'
  BY TypeStep, StepsStep, RefersStep, DownStep, GateStep, StartedStep, TargetStep, RegisteredStep
     DEF WriterInv, Typed
<1> QED
  BY <1>1, <1>2, PTL DEF Spec

\* A generation whose transactions the data boundary accepts is the one durable
\* state selects, through every activation, reload, disable, update, restart,
\* failure and crash - as long as Disable does not lose the answer of a commit
\* that went through (store.go:303): TLC finds the violation when "disableRead" may
\* fail.
THEOREM WritersAreActive ==
  ASSUME "disableRead" \notin Unreliable
  PROVE  Spec => []OnlyActiveGenerationWrites
<1>1. WriterInv => OnlyActiveGenerationWrites
  BY DEF WriterInv, OnlyActiveGenerationWrites, Writable, GateHeld, RegisteredRuns, Held
<1> QED
  BY <1>1, WriterInvariant, PTL

(***************************************************************************)
(* What is stored.                                                         *)
(***************************************************************************)
\* The generation an activation goes to fits the data that it holds, and the
\* one that a pending update would go back to fits the data it would put back.
HeldDataFits == op.kind = "activate" /\ op.step \in {"catalog", "route", "commit"} => Fits(op.gen)

SnapshotFits ==
  \A r \in Pending :
    attempts[r].active # None => attempts[r].stored \in {None, Schema[attempts[r].active]}

\* Without imports and cold restarts for a review.
OnlyInPlace == importing = None /\ op.kind # "cohort"

DataInv == WriterInv /\ DataFitsActive /\ HeldDataFits /\ SnapshotFits /\ OnlyInPlace

LEMMA OnlyInPlaceStep ==
  ASSUME WriterInv, OnlyInPlace, [Next]_vars, ~Imports, "cohort" \notin Paths
  PROVE  OnlyInPlace'
<1> USE DEF OnlyInPlace
<1>o. TypeOK /\ op \in Ops
  BY DEF WriterInv, Typed, TypeOK
<1>1. CASE InPlace \/ Cold
  <2>1. UNCHANGED importing
    BY <1>1 DEF InPlace, StartNext, BeginActivation, PublishCatalog, PublishRoute, CommitActive,
       Undo, Register, StopPrevious, StopNext, CommitDisabled, RegisterDisabled, Cold, Withdraw,
       Halt, Switch, ApplyUpdate, Recover, Launch, Attach, Admit, Finish, Settle, Restore
  <2> QED
    BY <1>o, <1>1, <2>1, OpKeeps
<1>2. CASE Begins \/ Boot
  BY <1>2, <1>o, Starts, BeginsFrame DEF StartsAs
<1>3. CASE ContextEnds
  BY <1>3, <1>o, ContextFrame
<1>4. CASE Aside
  BY <1>4 DEF Aside, ApproveReview, DiscardReview, PrepareDataReview, PrepareReview, Records,
              ValidateImport, Write, CommitImport
<1>5. CASE Crash \/ UNCHANGED vars
  BY <1>5 DEF Crash, Idle, vars
<1> QED
  BY <1>1, <1>2, <1>3, <1>4, <1>5, NextCases

\* What the writes do: a writer is the active generation, and holds no gate.
LEMMA WriteFits ==
  ASSUME WriterInv, DataFitsActive, OnlyInPlace, Aside, ~Imports
  PROVE  /\ DataFitsActive' /\ UNCHANGED active
         /\ UNCHANGED stored \/ ~gate
<1>1. CASE \E w \in Writes : Write(w)
  <2>1. registry # None /\ registry = active /\ ~gate
    BY <1>1 DEF Write, Writable, WriterInv, GateHeld, RegisteredRuns, Held
  <2>2. stored' = Schema[registry] /\ active' = active
    BY <1>1 DEF Write, Store, package
  <2> QED
    BY <2>1, <2>2 DEF DataFitsActive, Fits
<1>2. CASE ~\E w \in Writes : Write(w)
  <2>1. UNCHANGED <<stored, active>>
    BY <1>2 DEF Aside, ApproveReview, DiscardReview, PrepareDataReview, PrepareReview, Records,
                ValidateImport, CommitImport, OnlyInPlace, package, data
  <2> QED
    BY <2>1 DEF DataFitsActive, Fits
<1> QED
  BY <1>1, <1>2

LEMMA HeldStep ==
  ASSUME DataInv, [Next]_vars, ~Imports
  PROVE  HeldDataFits'
<1> USE DEF HeldDataFits
<1>o. TypeOK /\ op \in Ops /\ StepsOfKind
  BY DEF DataInv, WriterInv, Typed, TypeOK
<1>1. CASE InPlace
  <2>1. UNCHANGED stored
    BY <1>1 DEF InPlace, StartNext, BeginActivation, PublishCatalog, PublishRoute, CommitActive,
       Undo, Register, StopPrevious, StopNext, CommitDisabled, RegisterDisabled, data
  <2>2. CASE BeginActivation
    <3>1. op'.step = "catalog" => Fits(op.gen)
      BY <1>o, <2>2, OpMoves DEF BeginActivation
    <3>2. op'.step \in {"catalog", "stopNext"} /\ op'.gen = op.gen
      BY <1>o, <2>2, OpMoves DEF BeginActivation
    <3> QED
      BY <2>1, <3>1, <3>2 DEF Fits
  <2>3. CASE StartNext
    <3>1. ASSUME NEW i, op' = [op EXCEPT !.next = i,
                                         !.step = IF op.kind = "reload" THEN "route" ELSE "gate"]
          PROVE  /\ op'.step = IF op.kind = "reload" THEN "route" ELSE "gate"
                 /\ op'.kind = op.kind
      BY <1>o, <3>1 DEF Ops
    <3>2. \/ op'.step = "idle"
          \/ op'.kind = op.kind /\ op'.step = IF op.kind = "reload" THEN "route" ELSE "gate"
      BY <1>o, <2>3, <3>1, OpMoves DEF StartNext
    <3> QED
      BY <3>2
  <2>4. CASE ~BeginActivation /\ ~StartNext
    <3>1. op.step # "gate"
      BY <1>1, <2>4 DEF InPlace, PublishCatalog, PublishRoute, CommitActive,
         Undo, Register, StopPrevious, StopNext, CommitDisabled, RegisterDisabled
    <3>2. op.step = "undo" => op'.step = "stopNext"
      BY <1>o, <1>1, <2>4, OpMoves DEF InPlace, PublishCatalog, PublishRoute, CommitActive,
         Undo, Register, StopPrevious, StopNext, CommitDisabled, RegisterDisabled
    <3> QED
      BY <1>o, <1>1, <2>1, <2>4, <3>1, <3>2, InPlaceMoves DEF DataInv, Fits
  <2> QED
    BY <2>2, <2>3, <2>4
<1>2. CASE Cold
  BY <1>2, <1>o, ColdKind, OpKeeps
<1>3. CASE Begins \/ Boot
  BY <1>3, <1>o, Starts DEF StartsAs
<1>4. CASE ContextEnds
  BY <1>4, <1>o, ContextFrame DEF data, DataInv, Fits
<1>5. CASE Aside
  BY <1>5, AsideFrame, WriteFits DEF DataInv, WriterInv, GateHeld, Held, Fits
<1>6. CASE Crash
  BY <1>6 DEF Crash, Idle
<1>7. CASE UNCHANGED vars
  BY <1>7 DEF vars, data, DataInv, Fits
<1> QED
  BY <1>1, <1>2, <1>3, <1>4, <1>5, <1>6, <1>7, NextCases

\* Neither a step in place, other than a commit, nor a request changes what
\* is stored or what is active.
LEMMA SelectionFrame ==
  ASSUME \/ InPlace /\ ~CommitActive /\ ~CommitDisabled
         \/ Cold /\ ~Switch /\ ~ApplyUpdate /\ ~Restore
         \/ Begins \/ Boot \/ ContextEnds \/ Crash \/ UNCHANGED vars
  PROVE  UNCHANGED <<stored, active>>
<1>1. CASE InPlace /\ ~CommitActive /\ ~CommitDisabled
  BY <1>1 DEF InPlace, StartNext, BeginActivation, PublishCatalog, PublishRoute, Undo, Register,
              StopPrevious, StopNext, RegisterDisabled, package, data
<1>2. CASE Cold /\ ~Switch /\ ~ApplyUpdate /\ ~Restore
  BY <1>2 DEF Cold, Withdraw, Halt, Recover, Launch, Attach, Admit, Finish, SetActive, Settle,
              package, data
<1>3. CASE Begins \/ Boot
  BY <1>3, BeginsFrame DEF package, data
<1>4. CASE ContextEnds \/ Crash \/ UNCHANGED vars
  BY <1>4 DEF ContextEnds, Crash, vars, package, data
<1> QED
  BY <1>1, <1>2, <1>3, <1>4

LEMMA FitsStep ==
  ASSUME DataInv, [Next]_vars, ~Imports
  PROVE  DataFitsActive'
<1> USE DEF DataFitsActive, Fits
<1>o. TypeOK /\ op \in Ops /\ StepsOfKind /\ DataFitsActive
  BY DEF DataInv, WriterInv, Typed, TypeOK
<1>1. CASE CommitActive
  <2>1. UNCHANGED stored /\ (active' = op.gen \/ active' = active)
    BY <1>1 DEF CommitActive, SetActive, data
  <2>2. op.step = "commit" /\ op.kind \in {"activate", "reload"}
    BY <1>1 DEF CommitActive
  <2>3. CASE op.kind = "activate"
    BY <1>o, <2>1, <2>2, <2>3 DEF DataInv, HeldDataFits
  <2>4. CASE op.kind = "reload"
    BY <1>o, <2>1, <2>4 DEF DataInv, WriterInv, TargetIsActive
  <2> QED
    BY <2>2, <2>3, <2>4
<1>2. CASE CommitDisabled
  BY <1>o, <1>2 DEF CommitDisabled, SetActive, data
<1>3. CASE Switch
  <2>1. op.kind # "cohort"
    BY DEF DataInv, OnlyInPlace
  <2> QED
    BY <1>o, <1>3, <2>1 DEF Switch, SetActive, data
<1>4. CASE ApplyUpdate
  <2>1. CASE UNCHANGED <<active, stored>>
    BY <1>o, <2>1
  <2>2. CASE SetActive(op.gen, op.review) /\ (stored' = Schema[op.gen] \/ stored' = None)
    BY <2>2 DEF SetActive
  <2> QED
    BY <1>4, <2>1, <2>2 DEF ApplyUpdate
<1>5. CASE Restore
  <2>1. CASE UNCHANGED <<active, stored>>
    BY <1>o, <2>1
  <2>2. ASSUME NEW r \in Pending, stored' = attempts[r].stored, active' = attempts[r].active
        PROVE  DataFitsActive'
    BY <2>2 DEF DataInv, SnapshotFits
  <2> QED
    BY <1>5, <2>1, <2>2 DEF Restore
<1>6. CASE Aside
  BY <1>6, WriteFits DEF DataInv
<1> QED
  BY <1>o, <1>1, <1>2, <1>3, <1>4, <1>5, <1>6, NextCases, SelectionFrame

LEMMA SnapshotStep ==
  ASSUME DataInv, [Next]_vars
  PROVE  SnapshotFits'
<1> USE DEF SnapshotFits
<1>o. TypeOK /\ op \in Ops /\ DataFitsActive /\ SnapshotFits
  BY DEF DataInv, WriterInv, Typed, TypeOK
<1>a. attempts \in [Reviews -> Maybe(Attempts)]
  BY <1>o DEF TypeOK
<1>1. CASE UNCHANGED attempts
  BY <1>o, <1>1 DEF Pending
<1>2. ASSUME ApplyUpdate, Works, SnapshotMatches,
             attempts' = [attempts EXCEPT ![op.review] =
               [status |-> "pending", revision |-> revision, active |-> active,
                stored |-> plan.stored, docs |-> plan.docs, rev |-> plan.rev]]
      PROVE  SnapshotFits'
  <2> SUFFICES ASSUME NEW r \in Reviews, attempts'[r] # None, attempts'[r].status = "pending",
                      attempts'[r].active # None
               PROVE  attempts'[r].stored \in {None, Schema[attempts'[r].active]}
    BY DEF Pending
  <2>1. CASE r = op.review
    <3>1. attempts'[r].active = active /\ attempts'[r].stored = stored
      BY <1>2, <1>a, <2>1 DEF SnapshotMatches
    <3> QED
      BY <1>o, <3>1 DEF DataFitsActive, Fits
  <2>2. CASE r # op.review
    <3>1. attempts'[r] = attempts[r]
      BY <1>2, <1>a, <2>2
    <3> QED
      BY <1>o, <3>1 DEF Pending
  <2> QED
    BY <2>1, <2>2
<1>3. ASSUME NEW x \in Pending, NEW s \in {"applied", "failed"},
             attempts' = [attempts EXCEPT ![x].status = s]
      PROVE  SnapshotFits'
  <2> SUFFICES ASSUME NEW r \in Reviews, attempts'[r] # None, attempts'[r].status = "pending",
                      attempts'[r].active # None
               PROVE  attempts'[r].stored \in {None, Schema[attempts'[r].active]}
    BY DEF Pending
  <2>1. attempts[x] \in Attempts
    BY <1>a, MaybeFacts DEF Pending
  <2>2. [attempts[x] EXCEPT !.status = s].status # "pending"
    BY <2>1 DEF Attempts
  <2>3. r # x
    BY <1>a, <1>3, <2>2
  <2>4. attempts'[r] = attempts[r]
    BY <1>a, <1>3, <2>3
  <2> QED
    BY <1>o, <2>4 DEF Pending
<1>4. CASE ApplyUpdate
  BY <1>1, <1>2, <1>4 DEF ApplyUpdate
<1>5. CASE Settle
  BY <1>1, <1>3, <1>5 DEF Settle
<1>6. CASE Restore
  BY <1>1, <1>3, <1>6 DEF Restore
<1>7. CASE InPlace
  BY <1>1, <1>7 DEF InPlace, StartNext, BeginActivation, PublishCatalog, PublishRoute,
     CommitActive, Undo, Register, StopPrevious, StopNext, CommitDisabled, RegisterDisabled, package
<1>8. CASE Cold /\ ~ApplyUpdate /\ ~Settle /\ ~Restore
  BY <1>1, <1>8 DEF Cold, Withdraw, Halt, Switch, Recover, Launch, Attach, Admit, Finish, package
<1>9. CASE \/ Begins \/ Boot \/ ContextEnds \/ Aside \/ Crash \/ UNCHANGED vars
  BY <1>1, <1>9, BeginsFrame, AsideFrame DEF package, ContextEnds, Crash, vars
<1> QED
  BY <1>4, <1>5, <1>6, <1>7, <1>8, <1>9, NextCases

\* Whatever is written between the review of a switch and its commit, and
\* whatever a failed update puts back, the stored data fits the active
\* generation: in place, because the data is checked and then held until the
\* switch is committed.  It is not so for a restart of dependents and for an
\* import (review.go:398, campaignimport/service.go:337): TLC finds the violations
\* when "cohort" is a path or imports run.
THEOREM StoredDataFits ==
  ASSUME "disableRead" \notin Unreliable, "cohort" \notin Paths, ~Imports
  PROVE  Spec => []DataFitsActive
<1>1. Init => DataFitsActive /\ HeldDataFits /\ SnapshotFits /\ OnlyInPlace
  BY DEF Init, Idle, DataFitsActive, HeldDataFits, SnapshotFits, Pending, OnlyInPlace
<1>2. WriterInv /\ WriterInv' /\ [Next]_vars
      /\ DataFitsActive /\ HeldDataFits /\ SnapshotFits /\ OnlyInPlace
      => (DataFitsActive /\ HeldDataFits /\ SnapshotFits /\ OnlyInPlace)'
  BY FitsStep, HeldStep, SnapshotStep, OnlyInPlaceStep DEF DataInv
<1> QED
  BY <1>1, <1>2, WriterInvariant, PTL DEF Spec

(***************************************************************************)
(* What an update that is not settled keeps others from doing.             *)
(***************************************************************************)
\* While an update is pending nothing else is done that would change the package
\* state, and what is done is the rest of that update or its restore.
Waits ==
  /\ op.kind \notin {"activate", "reload", "disable", "cohort", "select", "remove", "relaunch"}
  /\ op.kind = "update" => op.step \notin {"withdraw", "halt", "switch"}
  /\ op.kind = "startup" => op.step \in {"withdraw", "halt", "switch"}

\* One update is pending at a time, of a review that is used up.
JournalInv ==
  /\ \A r, q \in Pending : r = q
  /\ \A r \in Pending : reviews[r] # None /\ reviews[r].status = "consumed"
  /\ Pending # {} => Waits
  /\ op.kind = "update" => op.review # None /\ reviews[op.review].gen = op.gen
  /\ RestoreCanSucceed

\* A host that is being started runs nothing yet, and holds no data handle.
StartupInv ==
  /\ host = "starting" <=> op.kind = "startup"
  /\ host = "down" => runtime = None /\ registry = None
  /\ op.kind = "startup" /\ op.step \in {"withdraw", "halt", "switch"} =>
       runtime = None /\ registry = None

\* No document is written while an update is pending, neither by the add-on nor
\* by an import: the data revision it was validated at is behind.
UnwrittenInv ==
  /\ op.kind = "update" => updating
  /\ Pending # {} => updating \/ (registry = None /\ (host = "down" \/ op.kind = "startup"))
  /\ \A r \in Pending : /\ dataRev = attempts[r].rev + 1
                        /\ acked \subseteq attempts[r].docs \cup removed
                        /\ importing # None => importing.rev <= attempts[r].rev
  /\ importing # None => importing.rev <= dataRev
  /\ AcknowledgedWritesSurvive

LEMMA PendingStays == UNCHANGED attempts => Pending' = Pending
  BY DEF Pending

\* A step that leaves the package state alone, and one with nothing pending.
LEMMA JournalFrame ==
  ASSUME JournalInv, UNCHANGED <<active, revision, attempts, reviews>>,
         Pending # {} => Waits',
         op'.kind = "update" => op'.review # None /\ reviews[op'.review].gen = op'.gen
  PROVE  JournalInv'
<1>1. Pending' = Pending
  BY PendingStays
<1> QED BY <1>1 DEF JournalInv, RestoreCanSucceed, Restorable

LEMMA JournalEmpty ==
  ASSUME Pending = {}, UNCHANGED attempts,
         op'.kind = "update" => op'.review # None /\ reviews'[op'.review].gen = op'.gen
  PROVE  JournalInv'
<1>1. Pending' = {}
  BY PendingStays
<1> QED BY <1>1 DEF JournalInv, RestoreCanSucceed

\* The steps that neither end an operation nor change the package state.
LEMMA JournalMoves ==
  ASSUME Typed, JournalInv,
         Withdraw \/ Halt \/ Recover \/ Launch \/ Attach \/ Admit
  PROVE  JournalInv'
<1>o. op \in Ops
  BY DEF Typed, TypeOK
<1>1. UNCHANGED <<active, revision, attempts, reviews>>
  BY DEF Withdraw, Halt, Recover, Launch, Attach, Admit, package
<1>2. \/ op'.kind = op.kind /\ (op.kind = "update" => op'.gen = op.gen /\ op'.review = op.review)
      \/ op'.kind = "none"
  <2>1. op'.kind # "restore" \/ op'.kind = op.kind \/ op'.kind = "none"
    <3>1. ASSUME NEW i, NEW s, op' = [op EXCEPT !.next = i, !.step = s]
          PROVE  op'.kind = op.kind
      BY <1>o, <3>1 DEF Ops
    <3> QED BY <1>o, <3>1, OpMoves DEF Withdraw, Halt, Recover, Launch, Attach, Admit, Abandon
  <2> QED BY <1>o, <2>1, OpKeeps DEF Cold
<1>3. op'.kind = "update" => op'.review # None /\ reviews[op'.review].gen = op'.gen
  BY <1>2 DEF JournalInv
<1>4. Pending # {} => Waits'
  <2> SUFFICES ASSUME Pending # {} PROVE Waits'
    OBVIOUS
  <2>1. Waits
    BY DEF JournalInv
  <2>2. CASE op'.kind = "none"
    BY <2>2 DEF Waits
  <2>3. CASE op'.kind = op.kind /\ op'.kind # "none" /\ (Withdraw \/ Halt)
    <3>1. op.kind # "update"
      BY <2>1, <2>3 DEF Withdraw, Halt, Waits
    <3>2. op.kind = "startup" => op'.step \in {"halt", "switch"}
      BY <1>o, <2>3, OpMoves DEF Withdraw, Halt, AfterHalt, Restoring
    <3> QED BY <2>1, <2>3, <3>1, <3>2 DEF Waits
  <2>4. CASE op'.kind = op.kind /\ (Recover \/ Launch \/ Attach \/ Admit)
    <3>1. op.kind # "startup"
      BY <2>1, <2>4 DEF Recover, Launch, Attach, Admit, Waits
    <3>2. op'.step \in {"launch", "attach", "admit", "done"}
      <4>1. ASSUME NEW i, op' = [op EXCEPT !.next = i, !.step = "attach"] PROVE op'.step = "attach"
        BY <1>o, <4>1 DEF Ops
      <4>2. Launch => op'.step \in {"attach", "done"}
        BY <1>o, <4>1, OpMoves DEF Launch
      <4> QED BY <1>o, <2>4, <4>2, OpMoves DEF Recover, Attach, Admit, Abandon
    <3> QED BY <2>1, <2>4, <3>1, <3>2 DEF Waits
  <2> QED BY <1>2, <2>2, <2>3, <2>4
<1> QED BY <1>1, <1>3, <1>4, JournalFrame

\* The update and its review are written in one transaction, on a package state
\* with nothing pending.
LEMMA JournalApply ==
  ASSUME Typed, JournalInv, ApplyUpdate
  PROVE  JournalInv'
<1>o. op \in Ops /\ reviews \in [Reviews -> Maybe(ReviewRows)] /\ attempts \in [Reviews -> Maybe(Attempts)]
      /\ revision \in Nat
  BY DEF Typed, TypeOK
<1>1. op.kind = "update" /\ op.step = "switch" /\ Pending = {}
  BY DEF ApplyUpdate, JournalInv, Waits
<1>2. op'.kind = "update" /\ op'.step = "recover" /\ op'.review = op.review /\ op'.gen = op.gen
  BY <1>o, <1>1, OpMoves DEF ApplyUpdate
<1>3. op.review \in Reviews /\ reviews[op.review] \in ReviewRows /\ reviews[op.review].gen = op.gen
  BY <1>o, <1>1, OpFields, MaybeFacts DEF JournalInv, Typed, Refers
<1>4. CASE UNCHANGED <<attempts, reviews>>
  BY <1>1, <1>2, <1>3, <1>4, JournalEmpty DEF JournalInv
<1>5. CASE /\ SetActive(op.gen, op.review)
           /\ attempts' = [attempts EXCEPT ![op.review] =
                [status |-> "pending", revision |-> revision, active |-> active,
                 stored |-> plan.stored, docs |-> plan.docs, rev |-> plan.rev]]
  <2>1. Pending' \subseteq {op.review}
    <3>1. \A q \in Reviews : q # op.review => attempts'[q] = attempts[q] /\ q \notin Pending
      BY <1>o, <1>1, <1>5
    <3> QED BY <3>1 DEF Pending
  <2>2. reviews'[op.review] = [reviews[op.review] EXCEPT !.status = "consumed"]
    <3>1. op.review # None
      BY <1>3, NoneAssumption DEF NoneAssumption
    <3> QED BY <1>o, <1>3, <1>5, <3>1 DEF SetActive
  <2>3. /\ [reviews[op.review] EXCEPT !.status = "consumed"] \in ReviewRows
        /\ [reviews[op.review] EXCEPT !.status = "consumed"].status = "consumed"
        /\ [reviews[op.review] EXCEPT !.status = "consumed"].gen = op.gen
    BY <1>3 DEF ReviewRows
  <2>4. active' = op.gen /\ revision' = revision + 1 /\ attempts'[op.review].revision = revision
    BY <1>o, <1>3, <1>5 DEF SetActive
  <2>5. reviews'[op.review] # None /\ reviews'[op.review].status = "consumed" /\ reviews'[op.review].gen = op.gen
    BY <2>2, <2>3, NoneAssumption DEF NoneAssumption
  <2> QED BY <1>1, <1>2, <1>3, <2>1, <2>4, <2>5 DEF JournalInv, RestoreCanSucceed, Restorable, Waits
<1> QED BY <1>4, <1>5 DEF ApplyUpdate

\* The journal row that an operation closes is the only one.
LEMMA JournalCloses ==
  ASSUME Typed, JournalInv, NEW r \in Pending, NEW s \in {"applied", "failed"},
         attempts' = [attempts EXCEPT ![r].status = s]
  PROVE  Pending' = {}
<1>1. attempts \in [Reviews -> Maybe(Attempts)] /\ r \in Reviews /\ attempts[r] \in Attempts
  BY MaybeFacts DEF Typed, TypeOK, Pending
<1>2. [attempts[r] EXCEPT !.status = s].status # "pending"
  BY <1>1 DEF Attempts
<1>3. \A q \in Reviews : q # r => attempts'[q] = attempts[q] /\ q \notin Pending
  BY <1>1 DEF JournalInv
<1>4. attempts'[r].status # "pending"
  BY <1>1, <1>2
<1> QED BY <1>3, <1>4 DEF Pending

LEMMA JournalCold ==
  ASSUME Typed, JournalInv, Cold
  PROVE  JournalInv'
<1>o. op \in Ops
  BY DEF Typed, TypeOK
<1> USE OpMoves
<1>1. CASE Withdraw \/ Halt \/ Recover \/ Launch \/ Attach \/ Admit
  BY <1>1, JournalMoves
<1>2. CASE ApplyUpdate
  BY <1>2, JournalApply
<1>3. CASE Switch
  <2>1. Pending = {} /\ UNCHANGED attempts /\ op'.kind # "update"
    BY <1>o, <1>3 DEF Switch, JournalInv, Waits
  <2> QED BY <2>1, JournalEmpty
<1>4. CASE Finish
  <2>1. UNCHANGED attempts /\ op'.kind = "none"
    BY <1>o, <1>4 DEF Finish
  <2>2. CASE op.kind = "relaunch"
    BY <2>1, <2>2, JournalEmpty DEF JournalInv, Waits
  <2>3. CASE op.kind # "relaunch"
    <3>1. UNCHANGED <<active, revision, reviews>> /\ Waits'
      BY <1>4, <2>1, <2>3 DEF Finish, Waits
    <3> QED BY <2>1, <3>1, JournalFrame
  <2> QED BY <2>2, <2>3
<1>5. CASE Settle
  <2>1. UNCHANGED <<active, revision, reviews>>
    BY <1>5 DEF Settle
  <2>2. op'.kind \in {"none", "restore"} /\ Waits'
    <3>1. CASE End
      BY <1>o, <3>1 DEF Waits
    <3>2. CASE op' = [Idle EXCEPT !.kind = "restore", !.step = "withdraw"]
      BY <3>2 DEF Idle, Waits
    <3> QED BY <1>5, <3>1, <3>2 DEF Settle
  <2>3. CASE UNCHANGED attempts
    BY <2>1, <2>2, <2>3, JournalFrame
  <2>4. CASE op.review \in Pending /\ attempts' = [attempts EXCEPT ![op.review].status = "applied"]
    <3>1. Pending' = {}
      BY <2>4, JournalCloses
    <3> QED BY <2>2, <3>1 DEF JournalInv, RestoreCanSucceed
  <2> QED BY <1>5, <2>3, <2>4 DEF Settle
<1>6. CASE Restore
  <2>1. op'.kind # "update"
    BY <1>o, <1>6 DEF Restore, Restoring
  <2>2. CASE UNCHANGED <<active, revision, attempts>> /\ End
    <3>1. Waits'
      BY <1>o, <2>2 DEF Waits
    <3> QED BY <1>6, <2>1, <2>2, <3>1, JournalFrame DEF Restore
  <2>3. ASSUME NEW r \in Pending, attempts' = [attempts EXCEPT ![r].status = "failed"] PROVE JournalInv'
    <3>1. Pending' = {}
      BY <2>3, JournalCloses
    <3> QED BY <2>1, <3>1 DEF JournalInv, RestoreCanSucceed
  <2> QED BY <1>6, <2>2, <2>3 DEF Restore
<1> QED BY <1>1, <1>2, <1>3, <1>4, <1>5, <1>6 DEF Cold

LEMMA JournalBegins ==
  ASSUME Typed, JournalInv, Begins \/ Boot
  PROVE  JournalInv'
<1>1. UNCHANGED <<active, revision, attempts, reviews>>
  BY BeginsFrame DEF package
<1> USE DEF Begin, Idle
<1>2. ASSUME NEW r \in Reviews, ResolveAndActivate(r) PROVE JournalInv'
  <2>1. op'.kind = "update" /\ op'.review = r /\ op'.gen = reviews[r].gen /\ Pending = {} /\ reviews[r] # None
    BY <1>2 DEF ResolveAndActivate, Settled
  <2>2. r # None
    BY NoneAssumption DEF NoneAssumption
  <2> QED BY <1>1, <2>1, <2>2, JournalEmpty
<1>3. CASE Reload \/ Disable \/ SelectService \/ DisableReviewed
  <2>1. op'.kind # "update" /\ Pending = {}
    BY <1>3 DEF Reload, Disable, SelectService, DisableReviewed, Settled
  <2> QED BY <1>1, <2>1, JournalEmpty
<1>4. ASSUME NEW r \in Reviews, ActivateReviewed(r) PROVE JournalInv'
  <2>1. op'.kind # "update" /\ Pending = {}
    BY <1>4 DEF ActivateReviewed, Settled
  <2> QED BY <1>1, <2>1, JournalEmpty
<1>5. CASE Bounce \/ Maintain
  <2>1. op'.kind \in {"bounce", "maintain"} /\ Waits'
    BY <1>5 DEF Bounce, Maintain, Waits
  <2> QED BY <1>1, <2>1, JournalFrame
<1>6. ASSUME NEW kind \in {"bounce", "relaunch"}, Relaunch(kind) PROVE JournalInv'
  <2>1. op'.kind = kind /\ (kind = "relaunch" => Pending = {})
    BY <1>6 DEF Relaunch, Settled
  <2>2. kind = "bounce" => Waits'
    BY <2>1 DEF Waits
  <2> QED BY <1>1, <2>1, <2>2, JournalFrame
<1>7. CASE Boot
  <2>1. op'.kind = "startup" /\ (Pending # {} => op'.step = "withdraw")
    BY <1>7 DEF Boot, Settled
  <2>2. Pending # {} => Waits'
    BY <2>1 DEF Waits
  <2> QED BY <1>1, <2>1, <2>2, JournalFrame
<1> QED BY <1>2, <1>3, <1>4, <1>5, <1>6, <1>7 DEF Begins

\* A review that is used up is neither changed nor deleted.
LEMMA JournalAside ==
  ASSUME Typed, JournalInv, Aside
  PROVE  JournalInv'
<1>1. UNCHANGED <<active, revision, attempts, op>>
  BY AsideFrame
<1>2. CASE UNCHANGED reviews
  BY <1>1, <1>2, JournalFrame DEF JournalInv, Waits
<1>3. ASSUME op = Idle, NEW r \in Reviews, NEW row, reviews' = [reviews EXCEPT ![r] = row], r \notin Pending
      PROVE  JournalInv'
  <2>1. Pending' = Pending /\ op'.kind = "none"
    BY <1>1, <1>3, PendingStays DEF Idle
  <2>2. \A q \in Pending : reviews'[q] = reviews[q]
    BY <1>3 DEF Typed, TypeOK, Pending
  <2> QED BY <1>1, <2>1, <2>2 DEF JournalInv, RestoreCanSucceed, Restorable, Waits
<1>4. ASSUME NEW r \in Reviews, NEW g \in Gens, PrepareReview(r, g) PROVE JournalInv'
  BY <1>3, <1>4 DEF PrepareReview, Free, JournalInv
<1>5. ASSUME NEW r \in Reviews, ApproveReview(r) PROVE JournalInv'
  BY <1>3, <1>5 DEF ApproveReview, Free, JournalInv
<1>6. ASSUME NEW r \in Reviews, DiscardReview(r) PROVE JournalInv'
  BY <1>3, <1>6 DEF DiscardReview, Free, JournalInv
<1>7. ASSUME NEW r \in Reviews, PrepareDataReview(r) PROVE JournalInv'
  BY <1>2, <1>7 DEF PrepareDataReview, package
<1>8. CASE Records
  BY <1>2, <1>8 DEF Records, ValidateImport, Write, CommitImport, package
<1> QED BY <1>4, <1>5, <1>6, <1>7, <1>8 DEF Aside

LEMMA JournalStep == Typed /\ JournalInv /\ [Next]_vars => JournalInv'
<1> SUFFICES ASSUME Typed, JournalInv, [Next]_vars PROVE JournalInv'
  OBVIOUS
<1>o. op \in Ops /\ StepsOfKind
  BY DEF Typed, TypeOK
<1>1. CASE InPlace
  <2>1. Pending = {}
    BY <1>o, <1>1, InPlaceKind DEF JournalInv, Waits
  <2>2. UNCHANGED attempts
    BY <1>1 DEF InPlace, StartNext, BeginActivation, PublishCatalog, PublishRoute, CommitActive, Undo,
       Register, StopPrevious, StopNext, CommitDisabled, RegisterDisabled, package
  <2>3. op'.kind # "update"
    BY <1>o, <1>1, InPlaceKind, OpKeeps
  <2> QED BY <2>1, <2>2, <2>3, JournalEmpty
<1>2. CASE ContextEnds
  <2>1. UNCHANGED <<active, revision, attempts, reviews>>
    BY <1>2, <1>o, ContextFrame DEF package
  <2>2. (Waits => Waits') /\ op'.kind = op.kind /\ op'.review = op.review /\ op'.gen = op.gen
    BY <1>2, <1>o, ContextFrame DEF Waits
  <2> QED BY <2>1, <2>2, JournalFrame DEF JournalInv
<1>3. CASE Crash
  <2>1. UNCHANGED <<active, revision, attempts, reviews>> /\ op'.kind = "none"
    BY <1>3 DEF Crash, package, Idle
  <2> QED BY <2>1, JournalFrame DEF Waits
<1>4. CASE UNCHANGED vars
  <2>1. UNCHANGED <<active, revision, attempts, reviews, op>>
    BY <1>4 DEF vars, package
  <2> QED BY <2>1, JournalFrame DEF JournalInv, Waits
<1> QED BY <1>1, <1>2, <1>3, <1>4, JournalCold, JournalBegins, JournalAside, NextCases

\* While an update is not settled nothing else changes the package state, so its
\* restore finds the revision it was journaled for: for every set of reviews and
\* generations, every pattern of failed steps, ended contexts and crashes, and
\* whatever is asked of the manager meanwhile.
THEOREM RestoreAlwaysCanSucceed == Spec => []RestoreCanSucceed
<1>1. Init => JournalInv
  BY DEF Init, JournalInv, Pending, Idle, RestoreCanSucceed, Waits
<1>2. Typed /\ JournalInv /\ [Next]_vars => JournalInv'
  BY JournalStep
<1>3. JournalInv => RestoreCanSucceed
  BY DEF JournalInv
<1> QED BY <1>1, <1>2, <1>3, TypedInvariant, PTL DEF Spec

(***************************************************************************)
(* Where the documents are.                                                *)
(***************************************************************************)
LEMMA HostFrame ==
  InPlace \/ (Cold /\ ~Finish /\ ~Restore) => UNCHANGED host
  BY DEF InPlace, StartNext, BeginActivation, PublishCatalog, PublishRoute, CommitActive, Undo,
     Register, StopPrevious, StopNext, CommitDisabled, RegisterDisabled, Cold, Withdraw, Halt,
     Switch, ApplyUpdate, Recover, Launch, Attach, Admit, Settle

\* Nothing but the start of the host happens in a host that is down, and in one
\* that is being started only the steps of that.
LEMMA StartupStep == Typed /\ DownIsIdle /\ StartupInv /\ [Next]_vars => StartupInv'
<1> SUFFICES ASSUME Typed, DownIsIdle, StartupInv, [Next]_vars PROVE StartupInv'
  OBVIOUS
<1>o. op \in Ops /\ StepsOfKind /\ host \in {"down", "starting", "up"}
  BY DEF Typed, TypeOK
<1>n. op # Idle => host # "down"
  BY DEF DownIsIdle
<1> USE OpMoves DEF StartupInv
<1>1. CASE InPlace
  <2>1. op.kind \in {"activate", "reload", "disable"} /\ op.kind # "startup"
    BY <1>o, <1>1, InPlaceKind
  <2>2. op'.kind # "startup" /\ host' = host /\ op # Idle
    BY <1>o, <1>1, <2>1, OpKeeps, HostFrame DEF Idle
  <2> QED BY <1>n, <2>1, <2>2
<1>2. CASE Cold /\ ~Finish /\ ~Restore
  <2>1. host' = host /\ op # Idle
    BY <1>o, <1>2, HostFrame, ColdKind DEF Idle, Silent
  <2>2. op'.kind = op.kind \/ (op'.kind \in {"none", "restore"} /\ op.kind # "startup")
    <3>1. CASE op.kind = "startup" /\ Halt
      <4>1. Go("switch") \/ Go("recover")
        BY <1>o, <3>1 DEF Halt, AfterHalt
      <4> QED BY <1>o, <4>1
    <3>2. CASE op.kind = "startup" /\ ~Halt
      <4>1. \/ Withdraw \/ Recover \/ Launch \/ Attach \/ Admit
        BY <1>2, <3>2 DEF Cold, Switch, ApplyUpdate, Settle
      <4>2. ASSUME NEW i, op' = [op EXCEPT !.next = i, !.step = "attach"] PROVE op'.kind = op.kind
        BY <1>o, <4>2 DEF Ops
      <4>3. Launch => op'.kind = op.kind
        BY <1>o, <4>2 DEF Launch
      <4> QED BY <1>o, <4>1, <4>3 DEF Withdraw, Recover, Attach, Admit, Abandon
    <3>3. CASE op.kind # "startup"
      BY <1>o, <1>2, <3>3, OpKeeps
    <3> QED BY <3>1, <3>2, <3>3
  <2>3. op.kind = "startup" /\ op'.step \in {"withdraw", "halt", "switch"} /\ op'.kind = "startup" =>
          runtime' = None /\ registry' = None
    <3> SUFFICES ASSUME op.kind = "startup", op'.kind = "startup", op'.step \in {"withdraw", "halt", "switch"}
                 PROVE  runtime' = None /\ registry' = None
      OBVIOUS
    <3>1. Withdraw \/ Halt
      <4>1. CASE Switch \/ ApplyUpdate \/ Settle
        BY <4>1 DEF Switch, ApplyUpdate, Settle
      <4>2. CASE Launch
        <5>1. ASSUME NEW i, op' = [op EXCEPT !.next = i, !.step = "attach"] PROVE op'.step = "attach"
          BY <1>o, <5>1 DEF Ops
        <5>2. op'.step \in {"attach", "done"}
          BY <1>o, <4>2, <5>1 DEF Launch
        <5> QED BY <5>2
      <4>3. CASE Recover \/ Attach \/ Admit
        BY <1>o, <4>3 DEF Recover, Attach, Admit, Abandon
      <4> QED BY <1>2, <4>1, <4>2, <4>3 DEF Cold
    <3> QED BY <3>1 DEF Withdraw, Halt, runs, writing
  <2> QED BY <1>n, <2>1, <2>2, <2>3
<1>3. CASE Finish
  BY <1>o, <1>3 DEF Finish
<1>4. CASE Restore
  <2>1. op.step = "switch" /\ UNCHANGED <<runtime, registry>> /\ op # Idle
    BY <1>4 DEF Restore, runs, Idle
  <2>2. \/ Go("recover") /\ host' = host
        \/ End /\ host' = IF op.kind = "startup" THEN "down" ELSE host
    BY <1>4 DEF Restore
  <2>3. CASE Go("recover") /\ host' = host
    BY <1>n, <1>o, <2>1, <2>3
  <2>4. CASE End /\ host' = IF op.kind = "startup" THEN "down" ELSE host
    BY <1>n, <1>o, <2>1, <2>4
  <2> QED BY <2>2, <2>3, <2>4
<1>5. CASE Begins
  <2>1. op'.kind # "startup" /\ host' = host /\ host = "up"
    BY <1>5 DEF Begins, ActivateReviewed, ResolveAndActivate, Reload, Disable, SelectService,
                DisableReviewed, Bounce, Maintain, Relaunch, Begin, Free, Idle
  <2> QED BY <2>1
<1>6. CASE Boot
  BY <1>6 DEF Boot, Begin, Idle, runs, writing
<1>7. CASE ContextEnds
  BY <1>7, <1>o, ContextFrame DEF runs, writing
<1>8. CASE Aside \/ UNCHANGED vars
  BY <1>8, AsideFrame DEF vars, runs, writing
<1>9. CASE Crash
  BY <1>9 DEF Crash, Idle
<1> QED BY <1>1, <1>2, <1>3, <1>4, <1>5, <1>6, <1>7, <1>8, <1>9, NextCases

SurvivalInv == Typed /\ DownIsIdle /\ JournalInv /\ StartupInv /\ UnwrittenInv

LEMMA ImportTyped ==
  ASSUME TypeOK
  PROVE  /\ importing # None => importing.rev \in Nat
         /\ \A r \in Pending : attempts[r].rev \in Nat
<1>1. ASSUME importing # None PROVE importing.rev \in Nat
  <2>1. importing \in [gen : Gens, rev : Nat]
    BY <1>1, MaybeFacts DEF TypeOK
  <2> QED BY <2>1
<1>2. ASSUME NEW r \in Pending PROVE attempts[r].rev \in Nat
  <2>1. attempts[r] \in Attempts
    BY <1>2, MaybeFacts DEF TypeOK, Pending
  <2> QED BY <2>1 DEF Attempts
<1> QED BY <1>1, <1>2

\* A step that leaves the stored documents and the journal alone.
LEMMA UnwrittenFrame ==
  ASSUME UnwrittenInv, UNCHANGED <<data, attempts>>, importing' \in {importing, None},
         op'.kind = "update" => updating',
         Pending # {} => updating' \/ (registry' = None /\ (host' = "down" \/ op'.kind = "startup"))
  PROVE  UnwrittenInv'
<1>1. Pending' = Pending
  BY PendingStays
<1> QED BY <1>1 DEF UnwrittenInv, AcknowledgedWritesSurvive, data

\* The owner's update: what it removes was confirmed, and its snapshot is in the journal.
LEMMA UnwrittenApply ==
  ASSUME SurvivalInv, ApplyUpdate
  PROVE  UnwrittenInv'
<1>o. op \in Ops /\ attempts \in [Reviews -> Maybe(Attempts)] /\ dataRev \in Nat
  BY DEF SurvivalInv, Typed, TypeOK
<1>1. op.kind = "update" /\ Pending = {} /\ updating
  BY DEF ApplyUpdate, SurvivalInv, JournalInv, Waits, UnwrittenInv
<1>2. op'.kind = "update" /\ UNCHANGED <<updating, registry, host, importing>>
  BY <1>o, <1>1, OpMoves DEF ApplyUpdate, writing
<1>3. CASE UNCHANGED <<attempts, stored, docs, dataRev, removed>>
  <2>1. UNCHANGED data
    BY <1>3 DEF ApplyUpdate, data
  <2> QED BY <1>1, <1>2, <1>3, <2>1, UnwrittenFrame DEF SurvivalInv
<1>4. CASE /\ SnapshotMatches /\ dataRev' = dataRev + 1
           /\ \/ docs' = docs /\ removed' = removed
              \/ docs' = {} /\ removed' = removed \cup plan.docs
           /\ attempts' = [attempts EXCEPT ![op.review] =
                [status |-> "pending", revision |-> revision, active |-> active,
                 stored |-> plan.stored, docs |-> plan.docs, rev |-> plan.rev]]
  <2>1. Pending' \subseteq {op.review} /\ op.review \in Reviews
    <3>1. \A q \in Reviews : q # op.review => attempts'[q] = attempts[q] /\ q \notin Pending
      BY <1>o, <1>1, <1>4
    <3>2. op.review \in Reviews
      BY <1>o, <1>1, OpFields, MaybeFacts DEF SurvivalInv, JournalInv
    <3> QED BY <3>1, <3>2 DEF Pending
  <2>2. attempts'[op.review].docs = docs /\ attempts'[op.review].rev = dataRev
    BY <1>o, <1>4, <2>1 DEF SnapshotMatches
  <2>3. docs \subseteq docs' \cup removed' /\ removed \subseteq removed' /\ acked' = acked /\ acked \subseteq docs \cup removed
    BY <1>4 DEF ApplyUpdate, SnapshotMatches, SurvivalInv, UnwrittenInv, AcknowledgedWritesSurvive
  <2>4. importing # None => importing.rev <= dataRev /\ importing.rev <= dataRev'
    <3>1. importing # None => importing.rev \in Nat
      BY ImportTyped DEF SurvivalInv, Typed
    <3> QED BY <1>o, <1>4, <3>1 DEF SurvivalInv, UnwrittenInv
  <2> QED BY <1>1, <1>2, <1>4, <2>1, <2>2, <2>3, <2>4 DEF UnwrittenInv, AcknowledgedWritesSurvive
<1> QED BY <1>3, <1>4 DEF ApplyUpdate

\* The restore puts back the snapshot, in which everything acknowledged is that
\* is not removed.
LEMMA UnwrittenRestore ==
  ASSUME SurvivalInv, Restore
  PROVE  UnwrittenInv'
<1>o. op \in Ops
  BY DEF SurvivalInv, Typed, TypeOK
<1>1. op.step = "switch" /\ Restoring /\ UNCHANGED <<registry, importing, acked>>
  BY DEF Restore
<1>2. CASE /\ UNCHANGED <<stored, docs, dataRev, removed, attempts, updating>>
           /\ End /\ host' = IF op.kind = "startup" THEN "down" ELSE host
  <2>1. op'.kind = "none" /\ (op.kind = "startup" => host' = "down") /\ UNCHANGED data
    BY <1>1, <1>2, <1>o, OpMoves DEF data
  <2>2. host = "down" => host' = "down"
    BY <1>2
  <2> QED BY <1>1, <1>2, <2>1, <2>2, UnwrittenFrame DEF SurvivalInv, UnwrittenInv
<1>3. ASSUME NEW r \in Pending, docs' = attempts[r].docs, dataRev' = attempts[r].rev,
             removed' = removed \ attempts[r].docs,
             attempts' = [attempts EXCEPT ![r].status = "failed"], Go("recover")
      PROVE  UnwrittenInv'
  <2>1. Pending' = {}
    BY <1>3, JournalCloses DEF SurvivalInv
  <2>2. acked \subseteq docs' \cup removed'
    BY <1>3 DEF SurvivalInv, UnwrittenInv
  <2>3. importing # None => importing.rev <= dataRev'
    BY <1>3 DEF SurvivalInv, UnwrittenInv
  <2>4. op'.kind # "update"
    BY <1>o, <1>1, <1>3, OpMoves DEF Restoring
  <2> QED BY <1>1, <2>1, <2>2, <2>3, <2>4 DEF UnwrittenInv, AcknowledgedWritesSurvive
<1> QED BY <1>2, <1>3 DEF Restore

\* No document is written while an update is pending.
LEMMA UnwrittenAside ==
  ASSUME SurvivalInv, Aside
  PROVE  UnwrittenInv'
<1>o. dataRev \in Nat /\ UnwrittenInv /\ (importing # None => importing.rev \in Nat)
  BY ImportTyped DEF SurvivalInv, Typed, TypeOK
<1>t. \A r \in Pending : attempts[r].rev \in Nat
  BY ImportTyped DEF SurvivalInv, Typed
<1>1. UNCHANGED <<attempts, registry, updating, gate, op, host>> /\ Pending' = Pending
  BY AsideFrame, PendingStays DEF writing
<1>2. CASE UNCHANGED <<data, importing>>
  BY <1>1, <1>2, <1>o, UnwrittenFrame DEF UnwrittenInv
<1>3. Writable => Pending = {}
  BY <1>o DEF UnwrittenInv, Writable
<1>4. ASSUME NEW w, NEW g, Store(w, g), Pending = {}, importing' \in {importing, None}
      PROVE  UnwrittenInv'
  BY <1>o, <1>1, <1>4 DEF UnwrittenInv, AcknowledgedWritesSurvive, Store
<1>5. ASSUME NEW w \in Writes, Write(w) PROVE UnwrittenInv'
  BY <1>3, <1>4, <1>5 DEF Write
<1>6. ASSUME NEW w \in Writes, CommitImport(w) PROVE UnwrittenInv'
  <2>1. importing' = None /\ importing # None
    BY <1>6 DEF CommitImport
  <2>2. CASE importing.rev = dataRev /\ Store(w, importing.gen)
    <3>1. Pending = {}
      BY <1>o, <1>t, <2>1, <2>2 DEF UnwrittenInv
    <3> QED BY <1>4, <2>1, <2>2, <3>1
  <2>3. CASE UNCHANGED data
    BY <1>o, <1>1, <2>1, <2>3, UnwrittenFrame DEF UnwrittenInv
  <2> QED BY <1>6, <2>2, <2>3 DEF CommitImport
<1>7. CASE ValidateImport
  <2>1. Pending = {} /\ importing'.rev = dataRev /\ UNCHANGED data
    BY <1>3, <1>7 DEF ValidateImport
  <2> QED BY <1>o, <1>1, <2>1 DEF UnwrittenInv, AcknowledgedWritesSurvive, data
<1>8. CASE \E r \in Reviews : \/ ApproveReview(r) \/ DiscardReview(r) \/ PrepareDataReview(r)
                              \/ \E g \in Gens : PrepareReview(r, g)
  BY <1>2, <1>8 DEF ApproveReview, DiscardReview, PrepareDataReview, PrepareReview
<1> QED BY <1>5, <1>6, <1>7, <1>8 DEF Aside, Records

LEMMA UnwrittenCold ==
  ASSUME SurvivalInv, Cold
  PROVE  UnwrittenInv'
<1>o. op \in Ops /\ UnwrittenInv
  BY DEF SurvivalInv, Typed, TypeOK
<1> USE OpMoves
<1>1. CASE ApplyUpdate \/ Restore
  BY <1>1, UnwrittenApply, UnwrittenRestore
<1>2. CASE Withdraw \/ Halt \/ Recover \/ Launch \/ Attach \/ Admit
  <2>1. UNCHANGED <<data, attempts, importing, updating, host>>
    BY <1>2 DEF Withdraw, Halt, Recover, Launch, Attach, Admit, package, writing
  <2>2. op'.kind = "update" => op.kind = "update"
    BY <1>o, <1>2, OpKeeps DEF Cold
  <2>3. ASSUME Pending # {}, ~updating PROVE registry' = None /\ (host' = "down" \/ op'.kind = "startup")
    <3>1. registry = None /\ op.kind = "startup" /\ op.step \in {"withdraw", "halt", "switch"}
      <4>1. op # Idle
        <5>1. op.step \in {"withdraw", "halt", "recover", "launch", "attach", "admit"}
          BY <1>2 DEF Withdraw, Halt, Recover, Launch, Attach, Admit
        <5> QED BY ONLY <5>1 DEF Idle
      <4> QED BY <2>3, <4>1 DEF SurvivalInv, DownIsIdle, UnwrittenInv, JournalInv, Waits
    <3>2. Withdraw \/ Halt
      BY <1>2, <3>1 DEF Recover, Launch, Attach, Admit
    <3>3. registry' = None
      BY <3>1, <3>2 DEF Withdraw, Halt, writing
    <3>4. op'.kind = "startup"
      BY <1>o, <3>1, <3>2 DEF Withdraw, Halt, SurvivalInv, StartupInv
    <3> QED BY <3>3, <3>4
  <2> QED BY <1>o, <2>1, <2>2, <2>3, UnwrittenFrame DEF UnwrittenInv
<1>3. CASE Switch
  <2>1. Pending = {} /\ op'.kind # "update" /\ UNCHANGED <<data, attempts, importing>>
    BY <1>o, <1>3 DEF Switch, SurvivalInv, JournalInv, Waits
  <2> QED BY <1>o, <2>1, UnwrittenFrame
<1>4. CASE Finish
  <2>1. op'.kind = "none" /\ UNCHANGED <<data, attempts, importing, updating, registry>>
    BY <1>o, <1>4 DEF Finish, writing
  <2>2. Pending # {} => updating
    <3>1. op # Idle
      <4>1. op.step = "done"
        BY <1>4 DEF Finish
      <4> QED BY ONLY <4>1 DEF Idle
    <3>2. op.kind = "startup" => Pending = {}
      BY <1>4 DEF Finish, SurvivalInv, JournalInv, Waits
    <3> QED BY <1>o, <3>1, <3>2 DEF UnwrittenInv, SurvivalInv, DownIsIdle
  <2> QED BY <1>o, <2>1, <2>2, UnwrittenFrame
<1>5. CASE Settle
  <2>1. UNCHANGED <<data, importing, registry>> /\ op.kind = "update"
    BY <1>5 DEF Settle
  <2>2. op'.kind # "update"
    <3>1. CASE op' = [Idle EXCEPT !.kind = "restore", !.step = "withdraw"]
      BY <3>1 DEF Idle
    <3> QED BY <1>5, <1>o, <3>1 DEF Settle
  <2>3. CASE Settled /\ UNCHANGED attempts
    BY <1>o, <2>1, <2>2, <2>3, UnwrittenFrame DEF Settled
  <2>4. CASE op.review \in Pending /\ attempts' = [attempts EXCEPT ![op.review].status = "applied"]
    <3>1. Pending' = {}
      BY <2>4, JournalCloses DEF SurvivalInv
    <3> QED BY <1>o, <2>1, <2>2, <3>1 DEF UnwrittenInv, AcknowledgedWritesSurvive, data
  <2>5. CASE UNCHANGED <<attempts, updating>>
    BY <1>o, <2>1, <2>2, <2>5, UnwrittenFrame DEF UnwrittenInv
  <2> QED BY <1>5, <2>3, <2>4, <2>5 DEF Settle
<1> QED BY <1>1, <1>2, <1>3, <1>4, <1>5 DEF Cold

LEMMA UnwrittenStep == SurvivalInv /\ [Next]_vars => UnwrittenInv'
<1> SUFFICES ASSUME SurvivalInv, [Next]_vars PROVE UnwrittenInv'
  OBVIOUS
<1>o. op \in Ops /\ StepsOfKind /\ UnwrittenInv
  BY DEF SurvivalInv, Typed, TypeOK
<1>1. CASE InPlace
  <2>1. UNCHANGED <<data, attempts, importing>>
    BY <1>1 DEF InPlace, StartNext, BeginActivation, PublishCatalog, PublishRoute, CommitActive, Undo,
       Register, StopPrevious, StopNext, CommitDisabled, RegisterDisabled, package
  <2>2. op'.kind # "update" /\ Pending = {}
    BY <1>o, <1>1, InPlaceKind, OpKeeps DEF SurvivalInv, JournalInv, Waits
  <2> QED BY <1>o, <2>1, <2>2, UnwrittenFrame
<1>2. CASE Begins
  <2>1. UNCHANGED <<data, attempts, importing, registry>> /\ host = "up" /\ op.kind = "none"
    <3>1. UNCHANGED <<data, attempts, importing, registry>>
      BY <1>2, BeginsFrame DEF package
    <3>2. Free
      BY <1>2 DEF Begins, ActivateReviewed, ResolveAndActivate, Reload, Disable, SelectService,
                  DisableReviewed, Bounce, Maintain, Relaunch
    <3> QED BY <3>1, <3>2 DEF Free, Idle
  <2>2. updating' = updating \/ updating'
    BY <1>2 DEF Begins, ActivateReviewed, ResolveAndActivate, Reload, Disable, SelectService,
           DisableReviewed, Bounce, Maintain, Relaunch, writing
  <2>3. op'.kind = "update" => updating'
    BY <1>2 DEF Begins, ActivateReviewed, ResolveAndActivate, Reload, Disable, SelectService,
           DisableReviewed, Bounce, Maintain, Relaunch, Begin, Idle
  <2> QED BY <1>o, <2>1, <2>2, <2>3, UnwrittenFrame DEF UnwrittenInv
<1>3. CASE Boot
  <2>1. UNCHANGED <<data, attempts, importing, updating, registry>> /\ op'.kind = "startup" /\ registry = None
    BY <1>3 DEF Boot, Begin, Idle, package, writing, SurvivalInv, StartupInv
  <2> QED BY <1>o, <2>1, UnwrittenFrame
<1>4. CASE ContextEnds
  BY <1>o, <1>4, ContextFrame, UnwrittenFrame DEF package, writing, UnwrittenInv
<1>5. CASE Crash
  <2>1. UNCHANGED <<data, attempts>> /\ importing' = None /\ registry' = None /\ host' = "down" /\ op'.kind = "none"
    BY <1>5 DEF Crash, package, Idle
  <2> QED BY <1>o, <2>1, UnwrittenFrame
<1>6. CASE UNCHANGED vars
  BY <1>o, <1>6, UnwrittenFrame DEF vars, package, writing, UnwrittenInv
<1> QED BY <1>1, <1>2, <1>3, <1>4, <1>5, <1>6, UnwrittenCold, UnwrittenAside, NextCases

\* A saved document is only ever removed by the owner who confirmed it: not by an
\* update that fails, is restored later or is cut short by a crash, whatever
\* writes, imports, restarts and failures come between.  A write that an update
\* would lose is refused (the add-on's handle is closed), and so is an import that
\* was validated before it, because the update advanced the data revision.
THEOREM AcknowledgedWritesAlwaysSurvive == Spec => []AcknowledgedWritesSurvive
<1>1. Init => SurvivalInv
  BY TypeInit
     DEF Init, SurvivalInv, Typed, StepsOfKind, Refers, InPlaceSteps, Held, Silent, Idle, DownIsIdle,
         JournalInv, StartupInv, UnwrittenInv, Pending, RestoreCanSucceed, AcknowledgedWritesSurvive
<1>2. SurvivalInv /\ [Next]_vars => SurvivalInv'
  BY TypeStep, StepsStep, RefersStep, DownStep, JournalStep, StartupStep, UnwrittenStep
     DEF SurvivalInv, Typed
<1>3. SurvivalInv => AcknowledgedWritesSurvive
  BY DEF SurvivalInv, UnwrittenInv
<1> QED BY <1>1, <1>2, <1>3, PTL DEF Spec

(***************************************************************************)
(* What runs, what is routed, and what durable state selects.              *)
(***************************************************************************)
Tracked == IF runtime = None THEN {} ELSE {runtime}

\* What ServesWhatRuns says of memory, and what is left of it while another
\* generation's declarations are published.
Kept == IF runtime = None THEN registry = None ELSE runtime.gen = active /\ registry = active
Steady == /\ Kept /\ route = Routed(runtime)
          /\ runtime # None => catalog = active

\* A second worker runs beside the tracked one.
WithNext == op.next # None /\ op.next \notin Tracked /\ running = Tracked \cup {op.next}

Dark == runtime = None /\ registry = None /\ route = None

\* What holds at each step of an operation.
ServingInv ==
  /\ ~op.cut
  /\ op.step \in {"idle", "start", "withdraw", "done"} => Steady /\ NoStrayWorker
  /\ op.kind = "reload" /\ op.step \in {"start", "route", "commit"} => runtime # None
  /\ op.kind = "activate" /\ op.step = "route" => op.gen \in Providers
  /\ op.step \in {"gate", "catalog", "stopNext"} => Steady /\ WithNext
  /\ op.step = "route" => Kept /\ WithNext /\ catalog = op.gen /\ route = Routed(runtime)
  /\ op.step = "undo" => Kept /\ WithNext /\ route \in {Routed(runtime), Routed(op.next)}
  /\ op.step = "commit" =>
       IF op.kind = "disable"
       THEN Kept /\ NoStrayWorker /\ route = None /\ (runtime # None => catalog = active)
       ELSE Kept /\ WithNext /\ catalog = op.gen /\ route = Routed(op.next)
  /\ op.step = "register" =>
       IF op.kind = "disable"
       THEN NoStrayWorker /\ route = None /\ registry \in {None, op.gen}
       ELSE /\ WithNext /\ active = op.gen /\ catalog = op.gen /\ route = Routed(op.next)
            /\ op.kind = "reload" => registry = active
  /\ op.step = "stopPrevious" => Steady /\ op.prev \notin Tracked /\ running = Tracked \cup ({op.prev} \ {None})
  /\ op.step = "halt" => NoStrayWorker /\ registry = None /\ route = None
  /\ op.step \in {"switch", "recover", "launch"} => Dark /\ running = {}
  /\ op.step \in {"attach", "admit"} => runtime = None /\ registry = None /\ running = {op.next}
  /\ op.step \in {"launch", "attach", "admit"} => catalog = active
  /\ op.step = "attach" => route = None
  /\ op.step = "admit" => route = Routed(op.next)
  /\ host = "down" => Dark /\ running = {}

Serving == WriterInv /\ ServingInv

\* Faults that the theorem is not about: a lost answer of Disable's commit, and
\* the end of an operation's context.
SteadyContexts == {"disableRead", "deadline", "request"} \cap Unreliable = {}

LEMMA ServingFacts ==
  ASSUME Serving
  PROVE  /\ op \in Ops /\ StepsOfKind /\ op.cut = FALSE /\ ~Cut
         /\ runtime \in Maybe(Instances) /\ route \in Maybe(Instances) /\ active \in Maybe(Gens)
         /\ op.next \in Maybe(Instances) /\ op.gen \in Maybe(Gens)
         /\ StartedIsTarget /\ TargetIsActive
         /\ op.step # "idle" => host # "down"
<1>1. op \in Ops /\ StepsOfKind /\ runtime \in Maybe(Instances) /\ route \in Maybe(Instances)
      /\ active \in Maybe(Gens) /\ ~op.cut /\ StartedIsTarget /\ TargetIsActive
  BY DEF Serving, ServingInv, WriterInv, Typed, TypeOK
<1>2. op.step # "idle" => host # "down"
  BY DEF Serving, WriterInv, DownIsIdle, Idle
<1> QED BY <1>1, <1>2, OpFields DEF Cut

\* An instance is not None, and is routed if its generation provides a service.
LEMMA RoutedFacts ==
  /\ Routed(None) = None
  /\ \A i \in Instances : i # None /\ i.gen \in Gens /\ i.gen # None
  /\ \A i \in Instances : Routed(i) = IF i.gen \in Providers THEN i ELSE None
  /\ \A i \in Maybe(Instances) : Routed(i) # None => Routed(i) = i /\ i # None
<1>1. \A i \in Instances : i # None /\ i.gen \in Gens /\ i.gen # None
  BY NoneAssumption DEF NoneAssumption, Instances
<1> QED BY <1>1, MaybeFacts DEF Routed

\* A route of a generation that is withdrawn is none.
LEMMA Unrouted ==
  ASSUME NEW i \in Maybe(Instances), NEW g, route \in {None, Routed(i)}, i # None => i.gen = g
  PROVE  RouteWithout(g) = None
<1>1. route # None => route = i /\ i # None
  BY RoutedFacts
<1> QED BY <1>1 DEF RouteWithout

LEMMA OpGoes ==
  ASSUME op \in Ops
  PROVE  /\ \A s : Go(s) => /\ op'.step = s /\ op'.kind = op.kind /\ op'.gen = op.gen
                            /\ op'.next = op.next /\ op'.prev = op.prev /\ op'.cut = op.cut
         /\ End => op'.step = "idle" /\ op'.kind = "none" /\ op'.cut = FALSE
         /\ \A i, s : op' = [op EXCEPT !.next = i, !.step = s] =>
              op'.step = s /\ op'.kind = op.kind /\ op'.gen = op.gen /\ op'.next = i /\ op'.cut = op.cut
         /\ \A i, s : op' = [op EXCEPT !.step = s, !.prev = i] =>
              op'.step = s /\ op'.kind = op.kind /\ op'.gen = op.gen /\ op'.prev = i /\ op'.cut = op.cut
<1>1. ASSUME NEW s, Go(s)
      PROVE  /\ op'.step = s /\ op'.kind = op.kind /\ op'.gen = op.gen
             /\ op'.next = op.next /\ op'.prev = op.prev /\ op'.cut = op.cut
  BY <1>1 DEF Ops, Go
<1>2. End => op'.step = "idle" /\ op'.kind = "none" /\ op'.cut = FALSE
  BY DEF End, Idle
<1>3. ASSUME NEW i, NEW s, op' = [op EXCEPT !.next = i, !.step = s]
      PROVE  op'.step = s /\ op'.kind = op.kind /\ op'.gen = op.gen /\ op'.next = i /\ op'.cut = op.cut
  BY <1>3 DEF Ops
<1>4. ASSUME NEW i, NEW s, op' = [op EXCEPT !.step = s, !.prev = i]
      PROVE  op'.step = s /\ op'.kind = op.kind /\ op'.gen = op.gen /\ op'.prev = i /\ op'.cut = op.cut
  BY <1>4 DEF Ops
<1> QED BY <1>1, <1>2, <1>3, <1>4

\* A worker process id that is free names a worker that does not run.
LEMMA SpawnIsNew ==
  ASSUME NEW w \in Workers, NEW g, Spawns(w)
  PROVE  [gen |-> g, id |-> w] \notin running
  BY DEF Spawns

LEMMA ServingStart ==
  ASSUME Serving, StartNext, host' = host
  PROVE  ServingInv'
<1>a. /\ op.step = "start" /\ op.kind \in {"activate", "reload"}
      /\ UNCHANGED <<active, runtime, route, registry, catalog>>
  BY ServingFacts DEF StartNext, StepsOfKind, InPlaceSteps, Held, package, writing
<1>o. /\ op \in Ops /\ StepsOfKind /\ op.cut = FALSE /\ ~Cut /\ host # "down"
      /\ op.step = "start" /\ op.kind \in {"activate", "reload"}
      /\ UNCHANGED <<active, runtime, route, registry, catalog>>
  BY <1>a, ServingFacts
<1>1. Steady /\ NoStrayWorker /\ (op.kind = "reload" => runtime # None)
  BY <1>o DEF Serving, ServingInv
<1>2. CASE End /\ UNCHANGED running
  <2>1. op'.step = "idle" /\ op'.kind = "none" /\ op'.cut = FALSE
    BY <1>o, <1>2, OpGoes
  <2> QED BY <1>o, <1>1, <1>2, <2>1 DEF ServingInv, Steady, Kept, NoStrayWorker
<1>3. ASSUME NEW w \in Workers, Spawns(w),
             running' = running \cup {[gen |-> op.gen, id |-> w]},
             op' = [op EXCEPT !.next = [gen |-> op.gen, id |-> w],
                              !.step = IF op.kind = "reload" THEN "route" ELSE "gate"]
      PROVE  ServingInv'
  <2>1. /\ op'.step = (IF op.kind = "reload" THEN "route" ELSE "gate") /\ op'.kind = op.kind /\ op'.gen = op.gen
        /\ op'.next = [gen |-> op.gen, id |-> w] /\ op'.cut = FALSE
    <3>1. CASE op.kind = "reload"
      <4>1. op' = [op EXCEPT !.next = [gen |-> op.gen, id |-> w], !.step = "route"]
        BY <1>3, <3>1
      <4>2. /\ op'.step = "route" /\ op'.kind = op.kind /\ op'.gen = op.gen
            /\ op'.next = [gen |-> op.gen, id |-> w] /\ op'.cut = op.cut
        BY ONLY <1>o, <4>1, OpGoes
      <4> QED BY ONLY <1>o, <3>1, <4>2
    <3>2. CASE op.kind # "reload"
      <4>1. op' = [op EXCEPT !.next = [gen |-> op.gen, id |-> w], !.step = "gate"]
        BY <1>3, <3>2
      <4>2. /\ op'.step = "gate" /\ op'.kind = op.kind /\ op'.gen = op.gen
            /\ op'.next = [gen |-> op.gen, id |-> w] /\ op'.cut = op.cut
        BY ONLY <1>o, <4>1, OpGoes
      <4> QED BY ONLY <1>o, <3>2, <4>2
    <3> QED BY <3>1, <3>2
  <2>2. op.gen \in Gens
    BY <1>o, OpFields, MaybeFacts DEF Serving, WriterInv, Typed, Refers
  <2>3. op'.next \notin running /\ op'.next # None
    BY <1>3, <2>1, <2>2, SpawnIsNew, SpawnTyped, RoutedFacts
  <2>4. WithNext'
    BY <1>o, <1>1, <1>3, <2>1, <2>3 DEF WithNext, Tracked, NoStrayWorker
  <2>5. op.kind = "reload" => catalog = op.gen
    BY <1>1, ServingFacts DEF Steady, TargetIsActive
  <2> QED BY <1>o, <1>1, <2>1, <2>4, <2>5 DEF ServingInv, Steady, Kept
<1> QED BY <1>o, <1>2, <1>3 DEF StartNext

LEMMA ServingGate ==
  ASSUME Serving, BeginActivation \/ PublishCatalog
  PROVE  ServingInv'
<1>a. /\ op.step \in {"gate", "catalog"} /\ op.kind = "activate" /\ host' = host
      /\ UNCHANGED <<active, runtime, running, registry>>
  <2>1. op.step \in {"gate", "catalog"} /\ host' = host /\ UNCHANGED <<active, runtime, running, registry>>
    BY DEF BeginActivation, PublishCatalog, package, runs
  <2> QED BY <2>1, ServingFacts DEF StepsOfKind, InPlaceSteps, Held
<1>o. /\ op \in Ops /\ StepsOfKind /\ op.cut = FALSE /\ ~Cut /\ host # "down" /\ host' = host
      /\ op.step \in {"gate", "catalog"} /\ op.kind = "activate"
      /\ UNCHANGED <<active, runtime, running, registry>>
  BY <1>a, ServingFacts
<1>1. Steady /\ WithNext
  BY <1>o DEF Serving, ServingInv
<1>2. op.next \in Instances /\ op.next.gen = op.gen
  BY <1>o, ServingFacts, MaybeFacts DEF StartedIsTarget, Held
<1>3. CASE (Go("stopNext") \/ Go("catalog")) /\ UNCHANGED <<route, catalog>>
  <2>1. op'.step \in {"stopNext", "catalog"} /\ op'.kind = op.kind /\ op'.next = op.next /\ op'.cut = FALSE
    BY <1>o, <1>3, OpGoes
  <2> QED BY <1>o, <1>1, <1>3, <2>1 DEF ServingInv, Steady, Kept, WithNext, Tracked
<1>4. CASE catalog' = op.gen /\ Go("route") /\ UNCHANGED route /\ op.gen \in Providers
  <2>1. op'.step = "route" /\ op'.kind = op.kind /\ op'.gen = op.gen /\ op'.next = op.next /\ op'.cut = FALSE
    BY <1>o, <1>4, OpGoes
  <2> QED BY <1>o, <1>1, <1>4, <2>1 DEF ServingInv, Steady, Kept, WithNext, Tracked
<1>5. CASE /\ catalog' = op.gen /\ Go("commit") /\ op.gen \notin Providers
           /\ route' = IF active = None THEN route ELSE RouteWithout(active)
  <2>1. op'.step = "commit" /\ op'.kind = op.kind /\ op'.gen = op.gen /\ op'.next = op.next /\ op'.cut = FALSE
    BY <1>o, <1>5, OpGoes
  <2>2. runtime # None => runtime \in Instances /\ runtime.gen = active /\ active # None
    BY <1>1, ServingFacts, RoutedFacts, MaybeFacts DEF Steady, Kept
  <2>3. RouteWithout(active) = None
    BY <1>1, <2>2, ServingFacts, Unrouted DEF Steady
  <2>4. route' = None
    BY <1>1, <1>5, <2>2, <2>3, RoutedFacts DEF Steady
  <2>5. Routed(op.next) = None
    BY <1>2, <1>5, RoutedFacts
  <2> QED BY <1>o, <1>1, <1>5, <2>1, <2>4, <2>5 DEF ServingInv, Steady, Kept, WithNext, Tracked, Routed
<1> QED BY <1>o, <1>3, <1>4, <1>5 DEF BeginActivation, PublishCatalog, writing

LEMMA ServingRoute ==
  ASSUME Serving, PublishRoute
  PROVE  ServingInv'
<1>a. /\ op.step = "route" /\ op.kind \in {"activate", "reload"} /\ host' = host
      /\ UNCHANGED <<active, runtime, running, registry, catalog>>
  <2>1. /\ op.step = "route" /\ host' = host
        /\ UNCHANGED <<active, runtime, running, registry, catalog>>
    BY DEF PublishRoute, package, runs, writing
  <2> QED BY <2>1, ServingFacts DEF StepsOfKind, InPlaceSteps, Held
<1>o. /\ op \in Ops /\ StepsOfKind /\ op.cut = FALSE /\ ~Cut /\ host # "down" /\ host' = host
      /\ op.step = "route" /\ op.kind \in {"activate", "reload"}
      /\ UNCHANGED <<active, runtime, running, registry, catalog>>
  BY <1>a, ServingFacts
<1>1. /\ Kept /\ WithNext /\ catalog = op.gen /\ route = Routed(runtime)
      /\ op.kind = "reload" => runtime # None
      /\ op.kind = "activate" => op.gen \in Providers
  BY <1>o DEF Serving, ServingInv
<1>2. op.next \in Instances /\ op.next.gen = op.gen /\ (op.kind = "reload" => op.gen = active)
  BY <1>o, ServingFacts, MaybeFacts DEF StartedIsTarget, TargetIsActive, Held
<1>3. CASE Go("commit")
  <2>1. op'.step = "commit" /\ op'.kind = op.kind /\ op'.gen = op.gen /\ op'.next = op.next /\ op'.cut = FALSE
    BY <1>o, <1>3, OpGoes
  <2>2. route' = Routed(op.next)
    <3>1. CASE op.gen \notin Providers
      <4>1. route' = route /\ op.kind = "reload" /\ runtime \in Instances
        BY <1>o, <1>1, <3>1, ServingFacts, MaybeFacts DEF PublishRoute
      <4> QED BY <1>1, <1>2, <3>1, <4>1, RoutedFacts DEF Kept
    <3>2. CASE op.gen \in Providers
      <4>1. route' = op.next
        <5>1. ~Go("stopNext") /\ ~Go("undo")
          <6>1. (Go("stopNext") => op'.step = "stopNext") /\ (Go("undo") => op'.step = "undo")
            BY ONLY <1>o, OpGoes
          <6> QED BY <1>o, <2>1, <6>1
        <5> QED BY <1>o, <3>2, <5>1 DEF PublishRoute
      <4> QED BY <1>2, <3>2, <4>1, RoutedFacts
    <3> QED BY <3>1, <3>2
  <2> QED BY <1>o, <1>1, <2>1, <2>2 DEF ServingInv, Kept, WithNext, Tracked, Routed
<1>4. CASE Go("stopNext") /\ op.kind = "reload" /\ UNCHANGED route
  <2>1. op'.step = "stopNext" /\ op'.kind = op.kind /\ op'.next = op.next /\ op'.cut = FALSE
    BY <1>o, <1>4, OpGoes
  <2> QED BY <1>o, <1>1, <1>2, <1>4, <2>1 DEF ServingInv, Steady, Kept, WithNext, Tracked
<1>5. CASE Go("undo") /\ UNCHANGED route
  <2>1. op'.step = "undo" /\ op'.kind = op.kind /\ op'.next = op.next /\ op'.cut = FALSE
    BY <1>o, <1>5, OpGoes
  <2> QED BY <1>o, <1>1, <1>5, <2>1 DEF ServingInv, Kept, WithNext, Tracked
<1> QED BY <1>o, <1>3, <1>4, <1>5 DEF PublishRoute

LEMMA ServingCommit ==
  ASSUME Serving, CommitActive
  PROVE  ServingInv'
<1>a. /\ op.step = "commit" /\ op.kind \in {"activate", "reload"} /\ host' = host
      /\ UNCHANGED <<runtime, running, registry, catalog>>
  BY DEF CommitActive, runs, writing
<1>o. /\ op \in Ops /\ StepsOfKind /\ op.cut = FALSE /\ ~Cut /\ host # "down" /\ host' = host
      /\ op.step = "commit" /\ op.kind \in {"activate", "reload"}
      /\ UNCHANGED <<runtime, running, registry, catalog>>
  BY <1>a, ServingFacts
<1>1. /\ Kept /\ WithNext /\ catalog = op.gen /\ route = Routed(op.next)
      /\ op.kind = "reload" => runtime # None
  BY <1>o DEF Serving, ServingInv
<1>2. op.next \in Instances /\ op.next.gen = op.gen /\ (op.kind = "reload" => op.gen = active)
  BY <1>o, ServingFacts, MaybeFacts DEF StartedIsTarget, TargetIsActive, Held
<1>3. CASE SetActive(op.gen, op.review) /\ Go("register") /\ UNCHANGED route
  <2>1. op'.step = "register" /\ op'.kind = op.kind /\ op'.gen = op.gen /\ op'.next = op.next /\ op'.cut = FALSE
    BY <1>o, <1>3, OpGoes
  <2>2. active' = op.gen
    BY <1>3 DEF SetActive
  <2> QED BY <1>o, <1>1, <1>2, <1>3, <2>1, <2>2 DEF ServingInv, Kept, WithNext, Tracked
<1>4. CASE Go("undo") /\ UNCHANGED <<route, active>>
  <2>1. op'.step = "undo" /\ op'.kind = op.kind /\ op'.next = op.next /\ op'.cut = FALSE
    BY <1>o, <1>4, OpGoes
  <2> QED BY <1>o, <1>1, <1>4, <2>1 DEF ServingInv, Kept, WithNext, Tracked
<1>5. CASE op.kind = "reload" /\ Go("stopNext") /\ Reroute /\ UNCHANGED active
  <2>1. op'.step = "stopNext" /\ op'.kind = op.kind /\ op'.next = op.next /\ op'.cut = FALSE
    BY <1>o, <1>5, OpGoes
  <2>2. runtime \in Instances /\ runtime.gen = op.gen /\ catalog = runtime.gen
    BY <1>1, <1>2, <1>5, ServingFacts, MaybeFacts DEF Kept
  <2>3. route' = Routed(runtime)
    BY <1>o, <1>1, <1>2, <1>5, <2>2, RoutedFacts DEF Reroute
  <2> QED BY <1>o, <1>1, <1>2, <1>5, <2>1, <2>3 DEF ServingInv, Steady, Kept, WithNext, Tracked, Routed
<1> QED BY <1>o, <1>3, <1>4, <1>5 DEF CommitActive

LEMMA ServingUndo ==
  ASSUME Serving, Undo
  PROVE  ServingInv'
<1>a. op.step = "undo" /\ host' = host /\ UNCHANGED <<active, runtime, running, registry>>
  BY DEF Undo, package, runs
<1>b. op \in Ops /\ StepsOfKind /\ op.cut = FALSE /\ host # "down"
  BY <1>a, ServingFacts
<1>o. /\ op \in Ops /\ StepsOfKind /\ op.cut = FALSE /\ host # "down" /\ host' = host
      /\ op.step = "undo" /\ UNCHANGED <<active, runtime, running, registry>>
      /\ catalog' = (IF runtime = None THEN None ELSE runtime.gen)
      /\ route' = (IF Routed(runtime) # None THEN runtime ELSE RouteWithout(op.gen))
  BY <1>a, <1>b DEF Undo
<1>1. Kept /\ WithNext /\ route \in {Routed(runtime), Routed(op.next)}
  BY <1>o DEF Serving, ServingInv
<1>2. op.next \in Instances /\ op.next.gen = op.gen
  BY <1>o, ServingFacts, MaybeFacts DEF StartedIsTarget, StepsOfKind, InPlaceSteps, Held
<1>3. op'.step = "stopNext" /\ op'.kind = op.kind /\ op'.next = op.next /\ op'.cut = FALSE
  BY <1>o, OpGoes DEF Undo
<1>4. route' = Routed(runtime)
  <2>1. CASE Routed(runtime) # None
    BY <1>o, <2>1, ServingFacts, RoutedFacts
  <2>2. CASE Routed(runtime) = None
    <3>1. RouteWithout(op.gen) = None
      BY <1>1, <1>2, <2>2, Unrouted DEF Maybe
    <3> QED BY <1>o, <2>2, <3>1
  <2> QED BY <2>1, <2>2
<1> QED BY <1>o, <1>1, <1>3, <1>4 DEF ServingInv, Steady, Kept, WithNext, Tracked, Routed

LEMMA ServingRegister ==
  ASSUME Serving, Register
  PROVE  ServingInv'
<1>a. /\ op.step = "register" /\ op.kind # "disable" /\ host' = host /\ runtime' = op.next
      /\ UNCHANGED <<active, running, catalog, route>>
      /\ op' = [op EXCEPT !.step = "stopPrevious", !.prev = runtime]
      /\ IF op.kind = "activate" THEN registry' = op.gen ELSE registry' = registry
  BY DEF Register, package
<1>b. op \in Ops /\ StepsOfKind /\ op.cut = FALSE /\ host # "down"
  BY <1>a, ServingFacts
<1>c. op.kind \in {"activate", "reload"}
  BY <1>a, <1>b DEF StepsOfKind, InPlaceSteps, Held
<1>1. /\ WithNext /\ active = op.gen /\ catalog = op.gen /\ route = Routed(op.next)
      /\ op.kind = "reload" => registry = active
  BY <1>a DEF Serving, ServingInv
<1>2. op.next \in Instances /\ op.next.gen = op.gen /\ op.next # None
  BY <1>a, <1>c, ServingFacts, MaybeFacts DEF StartedIsTarget, Held
<1>3. op'.step = "stopPrevious" /\ op'.kind = op.kind /\ op'.prev = runtime /\ op'.cut = FALSE
  BY ONLY <1>a, <1>b, OpGoes
<1>4. Steady'
  BY <1>a, <1>c, <1>1, <1>2 DEF Steady, Kept, Routed
<1>5. op'.prev \notin Tracked' /\ running' = Tracked' \cup ({op'.prev} \ {None})
  BY <1>a, <1>1, <1>2, <1>3 DEF WithNext, Tracked
<1> QED BY <1>a, <1>b, <1>3, <1>4, <1>5 DEF ServingInv

LEMMA ServingStops ==
  ASSUME Serving, StopPrevious \/ StopNext
  PROVE  ServingInv'
<1>a. /\ op.step \in {"stopPrevious", "stopNext"} /\ host' = host /\ End
      /\ UNCHANGED <<active, runtime, registry, catalog, route>>
  BY DEF StopPrevious, StopNext, package, writing
<1>b. op \in Ops /\ StepsOfKind /\ op.cut = FALSE /\ host # "down"
  BY <1>a, ServingFacts
<1>1. Steady
  BY <1>a DEF Serving, ServingInv
<1>2. running' = Tracked
  <2>1. CASE StopPrevious
    BY <1>b, <2>1 DEF StopPrevious, Serving, ServingInv
  <2>2. CASE StopNext
    BY <2>2 DEF StopNext, Serving, ServingInv, WithNext
  <2> QED BY <2>1, <2>2
<1>3. op'.step = "idle" /\ op'.kind = "none" /\ op'.cut = FALSE
  BY <1>a, <1>b, OpGoes
<1> QED BY <1>a, <1>b, <1>1, <1>2, <1>3 DEF ServingInv, Steady, Kept, NoStrayWorker, Tracked

LEMMA ServingDisable ==
  ASSUME Serving, SteadyContexts, CommitDisabled \/ RegisterDisabled
  PROVE  ServingInv'
<1>a. /\ op.step \in {"commit", "register"} /\ op.kind = "disable" /\ host' = host
      /\ UNCHANGED <<running, catalog>>
  BY DEF CommitDisabled, RegisterDisabled, runs
<1>b. op \in Ops /\ StepsOfKind /\ op.cut = FALSE /\ ~Cut /\ host # "down"
  BY <1>a, ServingFacts
<1>1. NoStrayWorker /\ route = None
  BY <1>a DEF Serving, ServingInv
<1>2. CASE RegisterDisabled
  <2>1. /\ runtime' = None /\ route' = None /\ registry' = None
        /\ op' = [op EXCEPT !.step = "stopPrevious", !.prev = runtime]
    BY <1>1, <1>2 DEF RegisterDisabled, Serving, ServingInv
  <2>2. op'.step = "stopPrevious" /\ op'.kind = op.kind /\ op'.prev = runtime /\ op'.cut = FALSE
    BY ONLY <1>b, <2>1, OpGoes
  <2> QED BY <1>a, <1>b, <1>1, <2>1, <2>2, RoutedFacts
          DEF ServingInv, Steady, Kept, NoStrayWorker, Tracked
<1>3. CASE CommitDisabled
  <2>1. Kept /\ (runtime # None => catalog = active) /\ UNCHANGED <<runtime, registry>> /\ op.gen = active
    BY <1>a, <1>3, ServingFacts DEF CommitDisabled, Serving, ServingInv, TargetIsActive, runs
  <2>2. CASE SetActive(None, None) /\ Go("register") /\ UNCHANGED route
    <3>1. op'.step = "register" /\ op'.kind = op.kind /\ op'.gen = op.gen /\ op'.cut = FALSE
      BY <1>b, <2>2, OpGoes
    <3>2. registry \in {None, op.gen}
      BY <2>1 DEF Kept
    <3> QED BY <1>a, <1>b, <1>1, <2>1, <2>2, <3>1, <3>2 DEF ServingInv, NoStrayWorker
  <2>3. CASE Reinstated /\ UNCHANGED active
    <3>1. op'.step = "idle" /\ op'.kind = "none" /\ op'.cut = FALSE
      BY <1>b, <2>3, OpGoes DEF Reinstated
    <3>2. route' = Routed(runtime)
      BY <1>b, <1>1, <2>1, <2>3, ServingFacts, RoutedFacts, MaybeFacts DEF Reinstated, Reroute, Kept
    <3> QED BY <1>a, <1>b, <1>1, <2>1, <2>3, <3>1, <3>2 DEF ServingInv, Steady, Kept, NoStrayWorker, Routed
  <2>4. ~Fails("disableRead")
    BY DEF SteadyContexts, Fails
  <2> QED BY <1>b, <1>3, <2>2, <2>3, <2>4 DEF CommitDisabled
<1> QED BY <1>2, <1>3

\* A restart takes everything down before it changes anything.
LEMMA ServingDown ==
  ASSUME Serving, Withdraw \/ Halt
  PROVE  ServingInv'
<1>a. /\ op.step \in {"withdraw", "halt"} /\ host' = host /\ UNCHANGED <<active, catalog>>
  BY DEF Withdraw, Halt, package
<1>b. op \in Ops /\ StepsOfKind /\ op.cut = FALSE /\ ~Cut /\ host # "down"
  BY <1>a, ServingFacts
<1>1. CASE Withdraw
  <2>1. Steady /\ NoStrayWorker
    BY <1>1 DEF Withdraw, Serving, ServingInv
  <2>2. op'.step = "halt" /\ op'.kind = op.kind /\ op'.cut = FALSE
    BY <1>b, <1>1, OpGoes DEF Withdraw
  <2>3. registry' = None /\ UNCHANGED <<runtime, running>>
    BY <1>1, <2>1 DEF Withdraw, Steady, Kept, runs
  <2>4. route' = None
    <3>1. CASE runtime = None
      BY <1>1, <2>1, <3>1, RoutedFacts DEF Withdraw, Steady
    <3>2. CASE runtime # None
      <4>1. RouteWithout(runtime.gen) = None
        BY <2>1, ServingFacts, Unrouted DEF Steady
      <4> QED BY <1>1, <3>2, <4>1 DEF Withdraw
    <3> QED BY <3>1, <3>2
  <2> QED BY <1>a, <1>b, <2>1, <2>2, <2>3, <2>4 DEF ServingInv, NoStrayWorker
<1>2. CASE Halt
  <2>1. NoStrayWorker /\ registry = None /\ route = None
    BY <1>2 DEF Halt, Serving, ServingInv
  <2>2. runtime' = None /\ running' = {} /\ UNCHANGED <<registry, route>>
    BY <1>2, <1>b, <2>1 DEF Halt, NoStrayWorker, writing
  <2>3. op'.step \in {"switch", "recover", "idle"} /\ op'.cut = FALSE
    BY <1>2, <1>b, OpGoes DEF Halt, AfterHalt
  <2>4. op'.kind = op.kind \/ op'.step = "idle"
    BY <1>2, <1>b, OpGoes DEF Halt, AfterHalt
  <2> QED BY <1>a, <1>b, <2>1, <2>2, <2>3, <2>4, RoutedFacts DEF ServingInv, Steady, Kept, Dark, NoStrayWorker
<1> QED BY <1>1, <1>2

\* While it is dark durable state may change.
LEMMA ServingSwitches ==
  ASSUME Serving, Switch \/ ApplyUpdate \/ Restore
  PROVE  ServingInv'
<1>a. /\ op.step = "switch" /\ UNCHANGED <<runtime, running, registry, route, catalog>>
  BY DEF Switch, ApplyUpdate, Restore, runs, writing
<1>b. op \in Ops /\ StepsOfKind /\ op.cut = FALSE /\ ~Cut /\ host # "down"
  BY <1>a, ServingFacts
<1>1. Dark /\ running = {}
  BY <1>a DEF Serving, ServingInv
<1>2. op'.step \in {"recover", "idle"} /\ op'.cut = FALSE
  BY <1>b, OpGoes DEF Switch, ApplyUpdate, Restore
<1> QED BY <1>a, <1>1, <1>2, RoutedFacts DEF ServingInv, Steady, Kept, Dark, NoStrayWorker

LEMMA ServingRecovers ==
  ASSUME Serving, Recover \/ Launch
  PROVE  ServingInv'
<1>a. /\ op.step \in {"recover", "launch"} /\ host' = host /\ UNCHANGED <<active, runtime, registry, route>>
  BY DEF Recover, Launch, package, runs, writing
<1>b. op \in Ops /\ StepsOfKind /\ op.cut = FALSE /\ ~Cut /\ host # "down"
  BY <1>a, ServingFacts
<1>1. Dark /\ running = {}
  BY <1>a DEF Serving, ServingInv
<1>2. CASE Go("done") /\ UNCHANGED running
  <2>1. op'.step = "done" /\ op'.kind = op.kind /\ op'.cut = FALSE
    BY <1>b, <1>2, OpGoes
  <2> QED BY <1>a, <1>b, <1>1, <1>2, <2>1, RoutedFacts DEF ServingInv, Steady, Kept, Dark, NoStrayWorker
<1>3. CASE Recover /\ catalog' = active /\ Go("launch")
  <2>1. op'.step = "launch" /\ op'.kind = op.kind /\ op'.cut = FALSE
    BY <1>b, <1>3, OpGoes
  <2>2. UNCHANGED running
    BY <1>3 DEF Recover, runs
  <2> QED BY <1>a, <1>b, <1>1, <1>3, <2>1, <2>2 DEF ServingInv, Dark
<1>4. ASSUME Launch, NEW w \in Workers, Spawns(w),
             running' = running \cup {[gen |-> active, id |-> w]},
             op' = [op EXCEPT !.next = [gen |-> active, id |-> w], !.step = "attach"]
      PROVE  ServingInv'
  <2>1. op'.step = "attach" /\ op'.kind = op.kind /\ op'.next = [gen |-> active, id |-> w] /\ op'.cut = op.cut
    BY ONLY <1>b, <1>4, OpGoes
  <2>2. catalog' = catalog /\ catalog = active
    BY <1>4 DEF Launch, Serving, ServingInv
  <2> QED BY <1>a, <1>b, <1>1, <1>4, <2>1, <2>2 DEF ServingInv, Dark
<1> QED BY <1>b, <1>2, <1>3, <1>4 DEF Recover, Launch, runs

LEMMA ServingAttach ==
  ASSUME Serving, Attach
  PROVE  ServingInv'
<1>a. /\ op.step = "attach" /\ host' = host /\ UNCHANGED <<active, runtime, registry, catalog>>
  BY DEF Attach, package, writing
<1>b. op \in Ops /\ StepsOfKind /\ op.cut = FALSE /\ ~Cut /\ host # "down"
  BY <1>a, ServingFacts
<1>1. runtime = None /\ registry = None /\ running = {op.next} /\ catalog = active /\ route = None
  BY <1>a DEF Serving, ServingInv
<1>2. op.next \in Instances /\ op.next.gen = active
  BY <1>a, ServingFacts, MaybeFacts DEF StartedIsTarget
<1>3. CASE Go("admit") /\ UNCHANGED running /\ route' = IF active \in Providers THEN op.next ELSE route
  <2>1. op'.step = "admit" /\ op'.kind = op.kind /\ op'.next = op.next /\ op'.cut = FALSE
    BY <1>b, <1>3, OpGoes
  <2>2. route' = Routed(op'.next)
    BY <1>1, <1>2, <1>3, <2>1, RoutedFacts
  <2> QED BY <1>a, <1>b, <1>1, <1>3, <2>1, <2>2 DEF ServingInv, Routed
<1>4. CASE Abandon
  <2>1. op'.step = "done" /\ op'.kind = op.kind /\ op'.cut = FALSE
    BY <1>b, <1>4, OpGoes DEF Abandon
  <2>2. route' = None /\ running' = {}
    BY <1>1, <1>4 DEF Abandon, RouteWithout
  <2> QED BY <1>a, <1>b, <1>1, <2>1, <2>2, RoutedFacts DEF ServingInv, Steady, Kept, NoStrayWorker
<1> QED BY <1>3, <1>4 DEF Attach

LEMMA ServingAdmit ==
  ASSUME Serving, Admit
  PROVE  ServingInv'
<1>a. /\ op.step = "admit" /\ host' = host /\ UNCHANGED <<active, catalog>>
  BY DEF Admit, package
<1>b. op \in Ops /\ StepsOfKind /\ op.cut = FALSE /\ ~Cut /\ host # "down"
  BY <1>a, ServingFacts
<1>1. runtime = None /\ registry = None /\ running = {op.next} /\ catalog = active /\ route = Routed(op.next)
  BY <1>a DEF Serving, ServingInv
<1>2. op.next \in Instances /\ op.next.gen = active /\ op.next # None
  BY <1>a, ServingFacts, MaybeFacts DEF StartedIsTarget
<1>3. CASE registry' = active /\ runtime' = op.next /\ Go("done") /\ UNCHANGED <<route, running>>
  <2>1. op'.step = "done" /\ op'.kind = op.kind /\ op'.cut = FALSE
    BY <1>b, <1>3, OpGoes
  <2> QED BY <1>a, <1>b, <1>1, <1>2, <1>3, <2>1 DEF ServingInv, Steady, Kept, NoStrayWorker, Routed
<1>4. CASE Abandon /\ UNCHANGED <<registry, runtime>>
  <2>1. op'.step = "done" /\ op'.kind = op.kind /\ op'.cut = FALSE
    BY <1>b, <1>4, OpGoes DEF Abandon
  <2>2. RouteWithout(active) = None
    BY <1>1, <1>2, Unrouted DEF Maybe
  <2>3. route' = None /\ running' = {}
    BY <1>1, <1>4, <2>2 DEF Abandon
  <2> QED BY <1>a, <1>b, <1>1, <1>4, <2>1, <2>3, RoutedFacts DEF ServingInv, Steady, Kept, NoStrayWorker
<1> QED BY <1>3, <1>4 DEF Admit

LEMMA ServingEnds ==
  ASSUME Serving, Finish \/ Settle
  PROVE  ServingInv'
<1>a. /\ op.step = "done" /\ UNCHANGED <<active, runtime, running, registry, catalog, route>>
  BY DEF Finish, Settle, SetActive, runs, writing
<1>b. op \in Ops /\ StepsOfKind /\ op.cut = FALSE /\ ~Cut /\ host # "down"
  BY <1>a, ServingFacts
<1>1. Steady /\ NoStrayWorker
  BY <1>a DEF Serving, ServingInv
<1>2. host' # "down"
  BY <1>b DEF Finish, Settle
<1>3. op'.step \in {"idle", "withdraw"} /\ op'.cut = FALSE
  <2>1. CASE End
    BY <1>b, <2>1, OpGoes
  <2>2. CASE op' = [Idle EXCEPT !.kind = "restore", !.step = "withdraw"]
    BY <2>2 DEF Idle
  <2> QED BY <2>1, <2>2 DEF Finish, Settle
<1> QED BY <1>a, <1>1, <1>2, <1>3 DEF ServingInv, Steady, Kept, NoStrayWorker, Routed

LEMMA ServingBegins ==
  ASSUME Serving, Begins \/ Boot
  PROVE  ServingInv'
<1>a. UNCHANGED <<active, runtime, running, registry, catalog>>
  BY BeginsFrame DEF package, runs
<1>b. op'.cut = FALSE
  BY DEF Begins, ActivateReviewed, ResolveAndActivate, Reload, Disable, SelectService,
         DisableReviewed, Bounce, Maintain, Relaunch, Boot, Begin, Idle
<1>c. TypeOK /\ StartsAs
  BY Starts DEF Serving, WriterInv, Typed
<1>1. op.step = "idle"
  <2>1. CASE Begins
    <3>1. Free
      BY <2>1 DEF Begins, ActivateReviewed, ResolveAndActivate, Reload, Disable, SelectService,
                  DisableReviewed, Bounce, Maintain, Relaunch
    <3>2. op = Idle
      BY ONLY <3>1 DEF Free
    <3> QED BY ONLY <3>2 DEF Idle
  <2>2. CASE Boot
    <3>1. host = "down"
      BY ONLY <2>2 DEF Boot
    <3>2. op = Idle
      BY <3>1 DEF Serving, WriterInv, DownIsIdle
    <3> QED BY ONLY <3>2 DEF Idle
  <2> QED BY <2>1, <2>2
<1>2. Steady /\ NoStrayWorker /\ (host = "down" => Dark /\ running = {})
  BY <1>1 DEF Serving, ServingInv
<1>3. CASE Disable
  <2>1. op'.step = "commit" /\ op'.kind = "disable" /\ host' = host /\ host # "down"
    BY <1>3 DEF Disable, Begin, Free, Idle
  <2>2. RouteWithout(active) = None
    BY <1>2, ServingFacts, Unrouted DEF Steady, Kept
  <2>3. route' = None
    BY <1>3, <2>2 DEF Disable
  <2> QED BY <1>a, <1>b, <1>2, <2>1, <2>3 DEF ServingInv, Steady, Kept, NoStrayWorker
<1>4. CASE ~Disable
  <2>1. UNCHANGED route /\ host' # "down"
    BY <1>4 DEF Begins, ActivateReviewed, ResolveAndActivate, Reload, SelectService,
                DisableReviewed, Bounce, Maintain, Relaunch, Boot, Free
  <2>2. CASE op'.step \in {"start", "withdraw"} /\ op'.kind # "reload"
    BY <1>a, <1>b, <1>2, <2>1, <2>2 DEF ServingInv, Steady, Kept, NoStrayWorker, Routed
  <2>3. CASE op'.step = "start" /\ op'.kind = "reload"
    <3>1. runtime # None
      BY <1>4, <2>3 DEF Begins, ActivateReviewed, ResolveAndActivate, Reload, SelectService,
                DisableReviewed, Bounce, Maintain, Relaunch, Boot, Begin, Idle
    <3> QED BY <1>a, <1>b, <1>2, <2>1, <2>3, <3>1 DEF ServingInv, Steady, Kept, NoStrayWorker, Routed
  <2>4. CASE op'.step = "recover"
    <3>1. Dark /\ running = {}
      BY <1>c, <1>2, <2>4, RoutedFacts DEF StartsAs, Steady, Kept, Dark, NoStrayWorker
    <3> QED BY <1>a, <1>b, <2>1, <2>4, <3>1 DEF ServingInv, Dark
  <2> QED BY <1>c, <1>4, <2>2, <2>3, <2>4 DEF StartsAs
<1> QED BY <1>3, <1>4

LEMMA ServingStep == Serving /\ SteadyContexts /\ [Next]_vars => ServingInv'
<1> SUFFICES ASSUME Serving, SteadyContexts, [Next]_vars PROVE ServingInv'
  OBVIOUS
<1>1. CASE InPlace
  <2>1. host' = host
    BY <1>1, HostFrame
  <2> QED BY <1>1, <2>1, ServingStart, ServingGate, ServingRoute, ServingCommit, ServingUndo,
             ServingRegister, ServingStops, ServingDisable DEF InPlace
<1>2. CASE Cold
  BY <1>2, ServingDown, ServingSwitches, ServingRecovers, ServingAttach, ServingAdmit, ServingEnds DEF Cold
<1>3. CASE Begins \/ Boot
  BY <1>3, ServingBegins
<1>4. ~ContextEnds
  BY DEF ContextEnds, Fails, SteadyContexts
<1>5. CASE Aside \/ UNCHANGED vars
  <2>1. UNCHANGED <<active, runtime, running, registry, catalog, route, op, host>>
    <3>1. CASE Aside
      <4>1. UNCHANGED catalog
        BY <3>1 DEF Aside, ApproveReview, DiscardReview, PrepareDataReview, PrepareReview, Records,
                    ValidateImport, Write, CommitImport
      <4> QED BY <3>1, <4>1, AsideFrame DEF runs, writing
    <3>2. CASE UNCHANGED vars
      BY <3>2 DEF vars, package, runs, writing
    <3> QED BY <1>5, <3>1, <3>2
  <2>2. ServingInv
    BY DEF Serving
  <2> QED BY <2>1, <2>2 DEF ServingInv, Steady, Kept, Dark, WithNext, Tracked, NoStrayWorker, Routed
<1>6. CASE Crash
  BY <1>6, RoutedFacts DEF Crash, Idle, ServingInv, Steady, Kept, Dark, NoStrayWorker
<1> QED BY <1>1, <1>2, <1>3, <1>4, <1>5, <1>6, NextCases

\* Between operations memory agrees with durable state, and at no time are service
\* calls routed to a worker that has been stopped: for every number of
\* generations, reviews and workers, in place and through restarts of the whole
\* graph, with failures of any step but the lost answer of Disable's commit, and
\* with crashes - as long as the contexts of operations outlive them.  TLC finds
\* the violations when "deadline" or "request" may fail: an operation whose
\* context has ended leaves a worker behind, or a route.
THEOREM MemoryAgreesWithDurableState ==
  ASSUME SteadyContexts
  PROVE  Spec => []ServesWhatRuns
<1>1. Init => ServingInv
  BY RoutedFacts DEF Init, Idle, ServingInv, Steady, Kept, Dark, NoStrayWorker
<1>2. Serving /\ [Next]_vars => ServingInv'
  BY ServingStep
<1>3. Serving => ServesWhatRuns
  <2> SUFFICES ASSUME Serving PROVE ServesWhatRuns
    OBVIOUS
  <2>1. ASSUME route # None PROVE route \in running
    <3>1. op.step \in Steps
      BY ServingFacts, OpFields
    <3>2. route \in {None, Routed(runtime), Routed(op.next)}
      BY <3>1 DEF Serving, ServingInv, Steps, Steady, Dark
    <3>3. route \in {runtime, op.next}
      BY <2>1, <3>2, ServingFacts, RoutedFacts
    <3> QED BY <2>1, <3>1, <3>2, <3>3, ServingFacts, RoutedFacts
            DEF Serving, ServingInv, Steps, Steady, Dark, NoStrayWorker, WithNext, Tracked
  <2>2. ASSUME Between PROVE ~gate /\ Steady /\ NoStrayWorker
    BY <2>2 DEF Between, Idle, Serving, ServingInv, WriterInv, GateHeld, Held
  <2> QED BY <2>1, <2>2, RoutedFacts DEF ServesWhatRuns, Steady, Kept
<1>4. "disableRead" \notin Unreliable
  BY DEF SteadyContexts
<1>5. Spec => []WriterInv
  BY <1>4, WriterInvariant
<1>6. Spec => []ServingInv
  BY <1>1, <1>2, <1>5, PTL DEF Spec, Serving
<1> QED BY <1>3, <1>5, <1>6, PTL DEF Serving
==============================================================================
