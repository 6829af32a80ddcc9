----------------------------- MODULE AddonProofs -----------------------------
(***************************************************************************)
(* Proof that an add-on starts after, and stops before, the ones it        *)
(* depends on, for any set of add-ons, any dependencies and any bounds.    *)
(* What makes it inductive: at most one scope is between start and stop,   *)
(* and a module that activates is one the graph names.                     *)
(* And that the copy of a guarded edit stays: CopyInv says where a view    *)
(* can be, and which of the host's graphs the tab has read.                *)
(*                                                                         *)
(* Of the add-on page, that one change is under way at a time, and that    *)
(* Update all is complete, for any add-ons and dependencies: TurnsInv says *)
(* what an element at work has found of the others, BatchInv where Update  *)
(* all keeps each target and whose host its reasons speak of.              *)
(***************************************************************************)
EXTENDS MCAddonGenerations, MCAddonAdmin, FiniteSetTheorems, TLAPS

\* The running generations are a function of the add-ons.
Total == DOMAIN active = Addons

\* One scope at a time is activating or being disposed.
OneAtATime ==
    /\ pending # Idle => closing = Closed /\ pending.addon \in Addons /\ pending.gen # 0
    /\ closing # Closed => closing.addon \in Addons

IInv == Total /\ OneAtATime /\ ProvidersRunFirst

LEMMA InitHolds == ASSUME Init PROVE IInv
<1>1. active = [a \in Addons |-> 0] /\ pending = Idle /\ closing = Closed BY DEF Init, NoGraph
<1>2. Total /\ OneAtATime BY <1>1 DEF Total, OneAtATime
<1>3. ProvidersRunFirst
  BY <1>1, GenerationsAssumption DEF ProvidersRunFirst, Running, Idle, At, Closed
<1>4. QED BY <1>2, <1>3 DEF IInv

\* A step that leaves the modules alone.
LEMMA QuietHolds ==
    ASSUME IInv, UNCHANGED <<active, pending, closing>>
    PROVE  IInv'
  BY DEF IInv, Total, OneAtATime, ProvidersRunFirst, Running

\* The scope being started is disposed: its providers run on until it is drained.
LEMMA AbortHolds ==
    ASSUME IInv, pending # Idle, pending' = Idle, active' = active,
           NEW why, Dispose(pending.addon, why)
    PROVE  IInv'
<1> USE GenerationsAssumption
<1>1. closing'.addon = pending.addon /\ pending.addon \in Addons
  BY DEF Dispose, IInv, OneAtATime
<1>2. Total' /\ OneAtATime' BY <1>1 DEF IInv, Total, OneAtATime
<1>3. ProvidersRunFirst' BY <1>1 DEF IInv, ProvidersRunFirst, Running, Idle, At
<1>4. QED BY <1>2, <1>3 DEF IInv

\* A reset aborts what is starting, if anything is.
LEMMA InterruptedHolds == ASSUME IInv, Interrupted, active' = active PROVE IInv'
<1>1. CASE pending = Idle BY <1>1, QuietHolds DEF Interrupted
<1>2. CASE pending # Idle BY <1>2, AbortHolds DEF Interrupted
<1>3. QED BY <1>1, <1>2

\* The session's steps leave what runs, or reset it.
LEMMA SessionHolds ==
    ASSUME IInv, Stop \/ Start \/ Compose \/ Mount \/ Keep \/ Resume \/ Decline \/ Lose
    PROVE  IInv'
<1>1. CASE Stop \/ Start
  <2>1. active' = active BY <1>1 DEF Stop, Start, StopInto
  <2>2. CASE Interrupted BY <2>1, <2>2, InterruptedHolds
  <2>3. CASE UNCHANGED <<run, pending, closing, bound>> BY <2>1, <2>3, QuietHolds
  <2>4. QED BY <1>1, <2>2, <2>3 DEF Stop, Start, StopInto
<1>2. CASE Compose \/ Mount \/ Keep \/ Resume \/ Lose
  BY <1>2, QuietHolds DEF Compose, Mount, Keep, Resume, Lose
<1>3. CASE Decline BY <1>3, InterruptedHolds DEF Decline
<1>4. QED BY <1>1, <1>2, <1>3

\* A module stops when nothing that depends on it runs; its own providers still do.
LEMMA TeardownHolds == ASSUME IInv, NEW a \in Addons, Teardown(a) PROVE IInv'
<1> USE GenerationsAssumption
<1>1. /\ pending = Idle /\ pending' = Idle /\ closing = Closed /\ NextToStop(a)
      /\ active' = [active EXCEPT ![a] = 0] /\ closing'.addon = a
  BY DEF Teardown, Dispose
<1>2. Total' BY <1>1 DEF IInv, Total
<1>3. OneAtATime' BY <1>1 DEF OneAtATime
<1>4. ProvidersRunFirst'
  <2>1. SUFFICES ASSUME NEW b \in Addons, NEW d \in Deps[b],
                        Running(b)' \/ pending'.addon = b \/ closing'.addon = b
                 PROVE  Running(d)'
    BY DEF ProvidersRunFirst
  <2>2. Running(b) BY <1>1, <2>1 DEF IInv, Total, Running, NextToStop, Idle, At
  <2>3. Running(d) /\ d \in Addons BY <2>2 DEF IInv, ProvidersRunFirst
  <2>4. d # a BY <1>1, <2>2 DEF NextToStop
  <2>5. QED BY <1>1, <2>3, <2>4 DEF IInv, Total, Running
<1>5. QED BY <1>2, <1>3, <1>4 DEF IInv

\* An add-on activates only over the ones it depends on.
LEMMA ActivateHolds == ASSUME IInv, NEW a \in Addons, Activate(a) PROVE IInv'
<1>1. active' = active /\ closing' = closing /\ pending = Idle /\ closing = Closed
  BY DEF Activate
<1>2. CASE Usable(a)
  <2>1. pending'.addon = a /\ pending'.gen # 0 BY <1>2 DEF Activate, At
  <2>2. Total' /\ OneAtATime' BY <1>1, <2>1 DEF IInv, Total, OneAtATime
  <2>3. ProvidersRunFirst' BY <1>1, <1>2, <2>1 DEF IInv, ProvidersRunFirst, Running, Usable
  <2>4. QED BY <2>2, <2>3 DEF IInv
<1>3. CASE ~Usable(a) BY <1>1, <1>3, QuietHolds DEF Activate
<1>4. QED BY <1>2, <1>3

\* An activation goes on, succeeds, or its scope is disposed.
LEMMA PendingHolds ==
    ASSUME IInv, Loaded \/ Hangs \/ Activated \/ ActivationFails
    PROVE  IInv'
<1> USE GenerationsAssumption
<1>1. pending # Idle BY DEF Loaded, Hangs, Activated, ActivationFails, Idle, At
<1>2. pending.addon \in Addons /\ pending.gen # 0 /\ closing = Closed
  BY <1>1 DEF IInv, OneAtATime
<1>3. CASE Loaded \/ Hangs
  <2>1. /\ pending'.addon = pending.addon /\ pending'.gen = pending.gen
        /\ active' = active /\ closing' = closing
    BY <1>3 DEF Loaded, Hangs, At
  <2>2. Total' /\ OneAtATime' BY <1>2, <2>1 DEF IInv, Total, OneAtATime
  <2>3. ProvidersRunFirst' BY <2>1 DEF IInv, ProvidersRunFirst, Running
  <2>4. QED BY <2>2, <2>3 DEF IInv
<1>4. CASE Activated
  <2>1. /\ active' = [active EXCEPT ![pending.addon] = pending.gen]
        /\ pending' = Idle /\ closing' = closing
    BY <1>4 DEF Activated
  <2>2. Total' /\ OneAtATime' BY <1>2, <2>1 DEF IInv, Total, OneAtATime
  <2>3. ASSUME NEW d \in Addons, Running(d) PROVE Running(d)'
    BY <1>2, <2>1, <2>3 DEF IInv, Total, Running
  <2>4. ASSUME NEW b \in Addons, Running(b)' PROVE Running(b) \/ pending.addon = b
    BY <1>2, <2>1, <2>4 DEF IInv, Total, Running
  <2>5. \A a \in Addons : pending'.addon # a /\ closing'.addon # a
    BY <1>2, <2>1 DEF Idle, At, Closed
  <2>6. ProvidersRunFirst' BY <2>3, <2>4, <2>5 DEF IInv, ProvidersRunFirst
  <2>7. QED BY <2>2, <2>6 DEF IInv
<1>5. CASE ActivationFails BY <1>1, <1>5, AbortHolds DEF ActivationFails
<1>6. QED BY <1>3, <1>4, <1>5

\* A drained scope is gone.
LEMMA DrainedHolds == ASSUME IInv, Drained PROVE IInv'
<1> USE GenerationsAssumption
<1>1. closing' = Closed /\ UNCHANGED <<active, pending>> BY DEF Drained
<1>2. Total' /\ OneAtATime' BY <1>1 DEF IInv, Total, OneAtATime
<1>3. ProvidersRunFirst' BY <1>1 DEF IInv, ProvidersRunFirst, Running, Closed
<1>4. QED BY <1>2, <1>3 DEF IInv

LEMMA NextHolds == ASSUME IInv, [Next]_vars PROVE IInv'
<1>1. CASE \E gen \in [Addons -> 0..MaxRev] : HostChanges(gen)
  BY <1>1, QuietHolds DEF HostChanges
<1>2. CASE Stop \/ Start \/ Compose \/ Mount \/ Keep \/ Resume \/ Decline \/ Lose
  BY <1>2, SessionHolds
<1>3. CASE Hear \/ Fetch \/ Answered \/ FetchFails \/ Refused
  BY <1>3, QuietHolds DEF Hear, Fetch, Answered, FetchFails, Refused
<1>4. CASE \E a \in Addons : Teardown(a) \/ Activate(a) \/ Bind(a)
  BY <1>4, TeardownHolds, ActivateHolds, QuietHolds DEF Bind
<1>5. CASE Drained BY <1>5, DrainedHolds
<1>6. CASE Rebuild \/ Release \/ Settle BY <1>6, QuietHolds DEF Rebuild, Release, Settle
<1>7. CASE Loaded \/ Hangs \/ Activated \/ ActivationFails BY <1>7, PendingHolds
<1>8. CASE User
  BY <1>8, QuietHolds
  DEF User, OpenRecord, LeaveRecord, Remount, Take, Flag, Checkpoint, SectionSays
<1>9. CASE UNCHANGED vars BY <1>9, QuietHolds DEF vars
<1>10. QED BY <1>1, <1>2, <1>3, <1>4, <1>5, <1>6, <1>7, <1>8, <1>9 DEF Next

\* A module that activates, runs or is being disposed finds the add-ons it depends on
\* running, whatever the graph, the failures and the resets.
THEOREM ProvidersAlwaysRunFirst == Spec => []ProvidersRunFirst
<1>1. Init => IInv BY InitHolds
<1>2. IInv /\ [Next]_vars => IInv' BY NextHolds
<1>3. IInv => ProvidersRunFirst BY DEF IInv
<1>4. QED BY <1>1, <1>2, <1>3, PTL DEF Spec

-----------------------------------------------------------------------------
(***************************************************************************)
(* The copy of a guarded edit, across the mounts of its section.           *)
(***************************************************************************)
Views == [mounted : BOOLEAN, dirty : BOOLEAN, point : BOOLEAN, unclaimed : BOOLEAN]
Edits == [page : BOOLEAN, view : Views, kept : BOOLEAN]

\* A view says something only while it is mounted, on the page of its record, in the
\* registry's section; while a lost session is released the outlets outlast the section.
EditIs(e, there) ==
    /\ e \in Edits
    /\ e.view.point \/ e.view.dirty \/ e.view.unclaimed => e.view.mounted
    /\ e.view.mounted => e.page /\ there
There == Section \in bound \/ session.phase = "losing"
EditInv == EditIs(edit, There)

RunIs == run = [phase |-> run.phase, queued |-> run.queued, graph |-> run.graph,
                left |-> run.left, failed |-> run.failed]
SessionIs == session = [phase |-> session.phase, starts |-> session.starts,
                        state |-> session.state, failed |-> session.failed]

\* The last graph that was read is the host's, or one the host had before; at rest it is
\* the one that was applied, or none is.
GraphInv ==
    /\ host.rev \in Nat \ {0} /\ run.graph.rev \in Nat /\ run.graph.rev <= host.rev
    /\ run.graph.rev = host.rev => run.graph.gen = host.gen
    /\ run.phase \in {"idle", "fetch"} => applied \in {0, run.graph.rev}

\* Nothing is reset while a session is live, and only a live session refreshes.
ResetInv ==
    /\ Resetting => session.phase \in {"off", "wanted", "losing"}
    /\ run.phase = "fetch" \/ run.queued # 0 => session.phase = "live"

CopyInv == EditInv /\ RunIs /\ SessionIs /\ GraphInv /\ ResetInv

LEMMA CopyInit == ASSUME Init PROVE CopyInv
<1>1. EditInv
  BY DEF Init, EditInv, EditIs, Edits, Views, NoView
<1>2. RunIs /\ SessionIs
  BY DEF Init, RunIs, SessionIs
<1>3. GraphInv /\ ResetInv
  BY DEF Init, GraphInv, ResetInv, Resetting, NoGraph
<1> QED BY <1>1, <1>2, <1>3 DEF CopyInv

\* The edit under the operations on it.
LEMMA ForgottenIs ==
    ASSUME NEW e \in Edits, NEW there
    PROVE  EditIs(Forgotten(e), there) /\ Forgotten(e).page = e.page
BY DEF Forgotten, EditIs, Edits, Views, NoView

LEMMA AbortedIs ==
    ASSUME NEW e, NEW why, EditIs(e, TRUE)
    PROVE  LET f == AfterAbort(e, Section, why) IN
           /\ \A there : EditIs(f, there)
           /\ HasCopy(e) /\ why \in {"reload", "updated"} => HasCopy(f)
<1> DEFINE kept == e.kept \/ HandedOver(e.view, why)
           f == AfterAbort(e, Section, why)
<1>1. e \in Edits
  BY DEF EditIs
<1>2. kept \in BOOLEAN
  BY <1>1 DEF Edits, HandedOver
<1>3. f = [e EXCEPT !.kept = kept, !.view = NoView]
  BY DEF AfterAbort
<1>4. HasCopy(e) /\ why \in {"reload", "updated"} => kept
  BY <1>1 DEF HasCopy, HandedOver, EditIs, Edits, Views
<1> HIDE DEF kept, f
<1>5. f = [page |-> e.page, view |-> NoView, kept |-> kept]
  BY <1>1, <1>3 DEF Edits
<1>6. \A there : EditIs(f, there)
  BY <1>1, <1>2, <1>5 DEF EditIs, Edits, Views, NoView
<1> QED BY <1>4, <1>5, <1>6 DEF f, HasCopy

LEMMA MountedIs ==
    ASSUME NEW e, EditIs(e, TRUE), e.page, NEW f \in Mounts(e)
    PROVE  /\ EditIs(f, TRUE) /\ f.page
           /\ HasCopy(e) /\ ~e.view.mounted => HasCopy(f)
<1>1. e \in Edits
  BY DEF EditIs
<1>2. CASE f = e
  BY <1>2
<1>3. CASE f # e
  <2>1. f = [page |-> e.page, kept |-> FALSE,
             view |-> [mounted |-> TRUE, dirty |-> e.kept, point |-> e.kept, unclaimed |-> e.kept]]
    BY <1>1, <1>3 DEF Mounts, Edits
  <2>2. EditIs(f, TRUE) /\ f.page
    BY <1>1, <2>1 DEF EditIs, Edits, Views
  <2>3. HasCopy(e) /\ ~e.view.mounted => e.kept
    BY DEF HasCopy, EditIs
  <2>4. e.kept => HasCopy(f)
    BY <1>1, <2>1 DEF HasCopy, Edits
  <2> QED BY <2>2, <2>3, <2>4
<1> QED BY <1>2, <1>3

ControlInv == RunIs /\ SessionIs /\ GraphInv /\ ResetInv

\* The run, with some of its fields set.
LEMMA RunNow ==
    ASSUME ControlInv, NEW phase, NEW queued, NEW graph, NEW left, NEW failed,
           run' = [phase |-> phase, queued |-> queued, graph |-> graph, left |-> left, failed |-> failed],
           UNCHANGED host,
           \/ graph = run.graph
           \/ graph = [rev |-> host.rev, gen |-> host.gen],
           phase \in {"idle", "fetch"} => applied' \in {0, graph.rev}
    PROVE  RunIs' /\ GraphInv'
<1>1. RunIs' /\ run'.phase = phase /\ run'.graph = graph
  BY DEF RunIs
<1>2. /\ graph.rev \in Nat /\ graph.rev <= host.rev /\ host.rev \in Nat \ {0}
      /\ graph.rev = host.rev => graph.gen = host.gen
  BY DEF ControlInv, GraphInv
<1> QED BY <1>1, <1>2 DEF GraphInv

\* A step that leaves the run and the host alone.
LEMMA RunStays ==
    ASSUME ControlInv, UNCHANGED <<host, run, applied>>
    PROVE  RunIs' /\ GraphInv'
BY DEF ControlInv, RunIs, GraphInv

LEMMA InterruptedControl ==
    ASSUME ControlInv, Interrupted, UNCHANGED <<host, applied>>
    PROVE  RunIs' /\ GraphInv' /\ run'.phase \in {"ending", "releasing"} /\ run'.queued = 0
<1> DEFINE phase == IF run.phase = "teardown" THEN "ending" ELSE "releasing"
<1>1. run' = [phase |-> phase, queued |-> 0, graph |-> run.graph, left |-> run.left,
              failed |-> run.failed]
  BY DEF Interrupted, ControlInv, RunIs
<1>2. phase \in {"ending", "releasing"}
  OBVIOUS
<1> HIDE DEF phase
<1> QED BY <1>1, <1>2, RunNow

LEMMA StopControl ==
    ASSUME ControlInv, NEW phase \in {"off", "wanted"}, NEW starts, StopInto(phase, starts)
    PROVE  ControlInv'
<1>1. SessionIs' /\ session'.phase = phase
  BY DEF StopInto, SessionIs
<1>2. RunIs' /\ GraphInv'
  <2>1. CASE session.phase \in {"live", "asking", "kept"}
    BY <2>1, InterruptedControl DEF StopInto
  <2>2. CASE session.phase \notin {"live", "asking", "kept"}
    BY <2>2, RunStays DEF StopInto
  <2> QED BY <2>1, <2>2
<1>3. run'.phase # "fetch" /\ run'.queued = 0
  <2>1. CASE session.phase \in {"live", "asking", "kept"}
    BY <2>1, InterruptedControl DEF StopInto
  <2>2. CASE session.phase \notin {"live", "asking", "kept"}
    BY <2>2 DEF StopInto, ControlInv, ResetInv
  <2> QED BY <2>1, <2>2
<1>4. ResetInv'
  BY <1>1, <1>3 DEF ResetInv
<1> QED BY <1>1, <1>2, <1>4 DEF ControlInv

LEMMA SessionControl ==
    ASSUME ControlInv, Stop \/ Start \/ Compose \/ Mount \/ Keep \/ Resume \/ Decline \/ Lose
    PROVE  ControlInv'
<1>1. CASE Stop \/ Start
  <2>1. CASE Stop BY <2>1, StopControl DEF Stop
  <2>2. CASE Start BY <2>2, StopControl DEF Start
  <2> QED BY <1>1, <2>1, <2>2
<1>2. CASE Compose \/ Keep \/ Lose
  <2>1. RunIs' /\ GraphInv'
    BY <1>2, RunStays DEF Compose, Keep, Lose
  <2>2. SessionIs'
    BY <1>2 DEF Compose, Keep, Lose, ControlInv, SessionIs
  <2>3. ResetInv'
    BY <1>2 DEF Compose, Keep, Lose, Clean, ResetInv, Resetting, ControlInv, SessionIs
  <2> QED BY <2>1, <2>2, <2>3 DEF ControlInv
<1>3. CASE Mount \/ Resume
  <2>1. run' = [phase |-> run.phase, queued |-> 1, graph |-> run.graph, left |-> run.left,
                failed |-> run.failed]
    BY <1>3 DEF Mount, Resume, Live, ControlInv, RunIs
  <2>2. RunIs' /\ GraphInv'
    <3>1. run.phase \in {"idle", "fetch"} => applied \in {0, run.graph.rev}
      BY DEF ControlInv, GraphInv
    <3> QED BY <1>3, <2>1, <3>1, RunNow DEF Mount, Resume
  <2>3. SessionIs'
    BY <1>3 DEF Mount, Resume, Live, ControlInv, SessionIs
  <2>4. ResetInv'
    <3>1. session'.phase = "live" /\ run'.phase = run.phase /\ ~Resetting
      BY <1>3, <2>1 DEF Mount, Resume, Live, ControlInv, SessionIs, ResetInv
    <3> QED BY <3>1 DEF ResetInv, Resetting
  <2> QED BY <2>2, <2>3, <2>4 DEF ControlInv
<1>4. CASE Decline
  <2>1. RunIs' /\ GraphInv'
    BY <1>4, InterruptedControl DEF Decline
  <2>2. SessionIs' /\ session'.phase = "losing"
    BY <1>4 DEF Decline, ControlInv, SessionIs
  <2>3. run'.phase # "fetch" /\ run'.queued = 0
    BY <1>4, InterruptedControl DEF Decline
  <2> QED BY <2>1, <2>2, <2>3 DEF ControlInv, ResetInv
<1> QED BY <1>1, <1>2, <1>3, <1>4

\* The phase of the session is that of before, unless it is refused.
LEMMA RefreshSession ==
    ASSUME ControlInv, Hear \/ Fetch \/ Answered \/ FetchFails \/ Settle
    PROVE  session'.phase = session.phase
BY DEF Hear, Fetch, Answered, FetchFails, Settle, Shown, ControlInv, SessionIs

LEMMA RefreshControl ==
    ASSUME ControlInv, Hear \/ Fetch \/ Answered \/ FetchFails \/ Refused \/ Settle
    PROVE  ControlInv'
<1>1. SessionIs'
  BY DEF Hear, Fetch, Answered, FetchFails, Refused, Settle, Shown, ControlInv, SessionIs
<1>2. CASE Hear
  <2>1. /\ host'.rev = host.rev /\ host'.gen = host.gen /\ applied' = applied
        /\ session' = session
        /\ run'.phase = run.phase /\ run'.graph = run.graph /\ RunIs'
        /\ session.phase = "live" \/ run' = run
    BY <1>2 DEF Hear, ControlInv, RunIs, GraphInv
  <2> QED BY <1>1, <2>1 DEF ControlInv, GraphInv, ResetInv, Resetting
<1>3. CASE Fetch \/ FetchFails \/ Refused
  <2>1. run' = [phase |-> run'.phase, queued |-> run'.queued, graph |-> run.graph,
                left |-> run.left, failed |-> run.failed]
    BY <1>3 DEF Fetch, FetchFails, Refused, ControlInv, RunIs
  <2>2. run'.phase \in {"idle", "fetch"} /\ applied \in {0, run.graph.rev}
    BY <1>3 DEF Fetch, FetchFails, Refused, ControlInv, RunIs, GraphInv
  <2>3. RunIs' /\ GraphInv'
    BY <1>3, <2>1, <2>2, RunNow DEF Fetch, FetchFails, Refused
  <2>4. ResetInv'
    <3>1. session.phase = "live"
      BY <1>3 DEF Fetch, FetchFails, Refused, ControlInv, ResetInv
    <3>2. CASE Fetch \/ FetchFails
      <4>1. session'.phase = "live"
        BY <3>1, <3>2 DEF Fetch, FetchFails, ControlInv, SessionIs
      <4> QED BY <2>2, <4>1 DEF ResetInv, Resetting
    <3>3. CASE Refused
      <4>1. run' = [phase |-> "idle", queued |-> 0, graph |-> run.graph, left |-> run.left,
                    failed |-> run.failed]
        BY <3>3 DEF Refused, ControlInv, RunIs
      <4> QED BY <4>1 DEF ResetInv, Resetting
    <3> QED BY <1>3, <3>2, <3>3
  <2> QED BY <1>1, <2>3, <2>4 DEF ControlInv
<1>4. CASE Answered
  <2>1. applied \in {0, run.graph.rev}
    BY <1>4 DEF Answered, ControlInv, GraphInv
  <2>2. CASE Matches
    <3>1. run' = [phase |-> "idle", queued |-> run.queued, graph |-> run.graph, left |-> run.left,
                  failed |-> run.failed]
      BY <1>4, <2>2 DEF Answered, ControlInv, RunIs
    <3>2. RunIs' /\ GraphInv'
      BY <1>4, <2>1, <3>1, RunNow DEF Answered
    <3>3. session'.phase = session.phase
      BY <1>4, RefreshSession
    <3> QED BY <1>1, <3>1, <3>2, <3>3 DEF ControlInv, ResetInv, Resetting
  <2>3. CASE ~Matches
    <3> DEFINE graph == [rev |-> host.rev, gen |-> host.gen]
    <3>1. run' = [phase |-> "teardown", queued |-> run.queued, graph |-> graph, left |-> run.left,
                  failed |-> run.failed]
      BY <1>4, <2>3 DEF Answered, ControlInv, RunIs
    <3>2. RunIs' /\ GraphInv'
      BY <1>4, <3>1, RunNow DEF Answered
    <3>3. session'.phase = session.phase
      BY <1>4, RefreshSession
    <3> QED BY <1>1, <3>1, <3>2, <3>3 DEF ControlInv, ResetInv, Resetting
  <2> QED BY <2>2, <2>3
<1>5. CASE Settle
  <2>1. run' = [phase |-> "idle", queued |-> run.queued, graph |-> run.graph, left |-> run.left,
                failed |-> run.failed]
    BY <1>5 DEF Settle, ControlInv, RunIs
  <2>2. RunIs' /\ GraphInv'
    BY <1>5, <2>1, RunNow DEF Settle
  <2>3. session'.phase = session.phase
    BY <1>5, RefreshSession
  <2> QED BY <1>1, <2>1, <2>2, <2>3 DEF ControlInv, ResetInv, Resetting
<1> QED BY <1>2, <1>3, <1>4, <1>5

LEMMA ModulesControl ==
    ASSUME ControlInv,
           \/ \E a \in Addons : Teardown(a) \/ Activate(a) \/ Bind(a)
           \/ Drained \/ Rebuild \/ Release \/ Loaded \/ Hangs \/ Activated \/ ActivationFails
           \/ User
    PROVE  ControlInv'
<1>1. session' = session /\ host' = host
  BY DEF Teardown, Activate, Bind, Drained, Rebuild, Release, Loaded, Hangs, Activated,
         ActivationFails, User, OpenRecord, LeaveRecord, Remount, Take, Flag, Checkpoint, SectionSays
<1>2. \/ run' = run /\ applied' = applied
      \/ Rebuild \/ Release \/ ActivationFails \/ \E a \in Addons : Activate(a)
  BY DEF Teardown, Bind, Drained, Loaded, Hangs, Activated, User, OpenRecord, LeaveRecord, Remount, Take, Flag, Checkpoint, SectionSays
<1>3. CASE run' = run /\ applied' = applied
  <2>1. RunIs' /\ GraphInv'
    BY <1>1, <1>3, RunStays
  <2> QED BY <1>1, <1>3, <2>1 DEF ControlInv, SessionIs, ResetInv, Resetting
<1>4. CASE Rebuild \/ Release \/ ActivationFails \/ \E a \in Addons : Activate(a)
  <2>1. run.phase \in {"idle", "fetch"} => applied \in {0, run.graph.rev}
    BY DEF ControlInv, GraphInv
  <2>2. RunIs' /\ GraphInv' /\ ResetInv'
    <3>1. ASSUME NEW phase, NEW left, NEW failed,
                 run' = [phase |-> phase, queued |-> run.queued, graph |-> run.graph, left |-> left,
                         failed |-> failed],
                 phase \in {"idle", "fetch"} => applied' \in {0, run.graph.rev},
                 phase \in {"ending", "releasing"} => Resetting,
                 phase = "fetch" => run.phase = "fetch"
          PROVE  RunIs' /\ GraphInv' /\ ResetInv'
      <4>1. RunIs' /\ GraphInv'
        BY <1>1, <3>1, RunNow
      <4>2. run'.phase = phase /\ run'.queued = run.queued
        BY <3>1
      <4> QED BY <1>1, <3>1, <4>1, <4>2 DEF Resetting, ResetInv, ControlInv
    <3>2. CASE Rebuild
      <4>1. run' = [phase |-> "build", queued |-> run.queued, graph |-> run.graph,
                    left |-> {a \in Addons : run.graph.gen[a] # 0}, failed |-> {}]
        BY <3>2 DEF Rebuild, ControlInv, RunIs
      <4> QED BY <3>1, <4>1
    <3>3. CASE Release
      <4>1. run' = [phase |-> "idle", queued |-> run.queued, graph |-> run.graph,
                    left |-> run.left, failed |-> run.failed] /\ applied' = 0
        BY <3>3 DEF Release, ControlInv, RunIs
      <4> QED BY <3>1, <4>1
    <3>4. CASE ActivationFails
      <4>1. run' = [phase |-> run.phase, queued |-> run.queued, graph |-> run.graph,
                    left |-> run.left, failed |-> run.failed \cup {pending.addon}]
        BY <3>4 DEF ActivationFails, ControlInv, RunIs
      <4>2. applied' = applied
        BY <3>4 DEF ActivationFails
      <4>3. run.phase \in {"ending", "releasing"} => Resetting
        BY DEF Resetting
      <4> QED BY <2>1, <3>1, <4>1, <4>2, <4>3
    <3>5. CASE \E a \in Addons : Activate(a)
      <4>1. PICK a \in Addons : Activate(a)
        BY <3>5
      <4>2. \/ run' = [run EXCEPT !.left = @ \ {a}]
            \/ run' = [run EXCEPT !.left = @ \ {a}, !.failed = @ \cup {a}]
        BY <4>1 DEF Activate
      <4>3. run.phase = "build"
        BY <4>1 DEF Activate
      <4>4. CASE run' = [run EXCEPT !.left = @ \ {a}]
        <5>1. run' = [phase |-> "build", queued |-> run.queued, graph |-> run.graph,
                      left |-> run.left \ {a}, failed |-> run.failed]
          BY <4>3, <4>4 DEF ControlInv, RunIs
        <5> QED BY <3>1, <5>1
      <4>5. CASE run' = [run EXCEPT !.left = @ \ {a}, !.failed = @ \cup {a}]
        <5>1. run' = [phase |-> "build", queued |-> run.queued, graph |-> run.graph,
                      left |-> run.left \ {a}, failed |-> run.failed \cup {a}]
          BY <4>3, <4>5 DEF ControlInv, RunIs
        <5> QED BY <3>1, <5>1
      <4> QED BY <4>2, <4>4, <4>5
    <3> QED BY <1>4, <3>2, <3>3, <3>4, <3>5
  <2>3. SessionIs'
    BY <1>1 DEF ControlInv, SessionIs
  <2> QED BY <1>1, <2>2, <2>3 DEF ControlInv
<1> QED BY <1>2, <1>3, <1>4

LEMMA HostControl ==
    ASSUME ControlInv, NEW gen, HostChanges(gen)
    PROVE  ControlInv'
<1>1. host'.rev = host.rev + 1 /\ UNCHANGED <<session, run, applied>>
  BY DEF HostChanges
<1> QED BY <1>1 DEF ControlInv, RunIs, SessionIs, GraphInv, ResetInv, Resetting

LEMMA ControlHolds == ASSUME ControlInv, [Next]_vars PROVE ControlInv'
<1>1. CASE UNCHANGED vars
  BY <1>1 DEF vars, ControlInv, RunIs, SessionIs, GraphInv, ResetInv, Resetting
<1> QED BY <1>1, HostControl, SessionControl, RefreshControl, ModulesControl DEF Next

Stands == \/ LetGo
          \/ closing' = [addon |-> Section, why |-> "activation-failed"]
\* What a step must do to the edit.
Keeps == EditInv' /\ (HasCopy(edit) /\ ~HasCopy(edit') => Stands)

\* A step that leaves the edit, and where it is.
LEMMA EditStays ==
    ASSUME CopyInv, UNCHANGED edit, There => There'
    PROVE  Keeps
BY DEF CopyInv, EditInv, EditIs, Keeps, HasCopy

\* A step that leaves the page, or the session behind it.
LEMMA EditGoes ==
    ASSUME CopyInv, edit' = Forgotten(edit) \/ edit' = [Forgotten(edit) EXCEPT !.page = FALSE],
           ~edit'.page \/ session'.phase # "live"
    PROVE  Keeps
<1>1. edit \in Edits
  BY DEF CopyInv, EditInv, EditIs
<1>2. EditIs(edit', There')
  <2>1. CASE edit' = Forgotten(edit)
    BY <1>1, <2>1, ForgottenIs
  <2>2. CASE edit' = [Forgotten(edit) EXCEPT !.page = FALSE]
    <3>1. edit' = [page |-> FALSE, view |-> NoView, kept |-> FALSE]
      BY <1>1, <2>2 DEF Forgotten, Edits
    <3> QED BY <3>1 DEF EditIs, Edits, Views, NoView
  <2> QED BY <2>1, <2>2
<1> QED BY <1>2 DEF Keeps, EditInv, Stands, LetGo

\* A step of the open section.
LEMMA SectionKeeps ==
    ASSUME CopyInv, NEW view \in Views, SectionSays(view), view.mounted
    PROVE  Keeps
<1>1. edit \in Edits /\ edit.view.mounted /\ edit.page /\ There
  BY DEF CopyInv, EditInv, EditIs, SectionSays
<1>2. edit' = [page |-> edit.page, view |-> view, kept |-> edit.kept]
  BY <1>1 DEF SectionSays, Edits
<1>3. There'
  BY <1>1 DEF SectionSays, There
<1>4. EditIs(edit', There')
  BY <1>1, <1>2, <1>3 DEF EditIs, Edits
<1> QED BY <1>1, <1>2, <1>4 DEF Keeps, EditInv, Stands, LetGo

LEMMA UserKeeps == ASSUME CopyInv, User PROVE Keeps
<1>1. edit \in Edits /\ edit.view \in Views /\ EditIs(edit, There)
  BY DEF CopyInv, EditInv, EditIs, Edits
<1>2. CASE OpenRecord
  <2> DEFINE e == [edit EXCEPT !.page = TRUE]
  <2>1. ~edit.view.mounted
    BY <1>1, <1>2 DEF OpenRecord, EditIs
  <2>2. e = [edit EXCEPT !.page = TRUE]
    OBVIOUS
  <2> HIDE DEF e
  <2>3. e = [page |-> TRUE, view |-> edit.view, kept |-> edit.kept]
    BY <1>1, <2>2 DEF Edits
  <2>4. EditIs(e, TRUE) /\ e.page /\ ~e.view.mounted /\ (HasCopy(edit) => HasCopy(e))
    BY <1>1, <2>1, <2>3 DEF EditIs, Edits, HasCopy
  <2>5. CASE Section \in bound /\ Outlets
    <3>1. edit' \in Mounts(e) /\ There'
      BY <1>2, <2>5 DEF OpenRecord, There, e
    <3>2. EditIs(edit', TRUE) /\ (HasCopy(e) => HasCopy(edit'))
      BY <2>4, <3>1, MountedIs
    <3> QED BY <2>4, <3>1, <3>2 DEF Keeps, EditInv, EditIs
  <2>6. CASE ~(Section \in bound /\ Outlets)
    <3>1. edit' = e
      BY <1>2, <2>6 DEF OpenRecord, e
    <3>2. EditIs(edit', There')
      BY <2>4, <3>1 DEF EditIs
    <3> QED BY <2>4, <3>1, <3>2 DEF Keeps, EditInv
  <2> QED BY <2>5, <2>6
<1>3. CASE LeaveRecord
  <2>1. Forgotten(edit) \in Edits /\ edit' = [Forgotten(edit) EXCEPT !.page = FALSE]
    BY <1>1, <1>3, ForgottenIs DEF LeaveRecord, EditIs
  <2>2. ~edit'.page
    BY <2>1 DEF Edits
  <2> QED BY <2>1, <2>2, EditGoes
<1>4. CASE Remount
  <2>1. /\ edit.page /\ ~edit.view.mounted /\ edit' \in Mounts(edit) /\ There'
        /\ EditIs(edit, TRUE)
    BY <1>1, <1>4 DEF Remount, There, EditIs
  <2>2. EditIs(edit', TRUE) /\ (HasCopy(edit) => HasCopy(edit'))
    BY <2>1, MountedIs
  <2> QED BY <2>1, <2>2 DEF Keeps, EditInv, EditIs
<1>5. CASE Take
  <2> DEFINE view == [edit.view EXCEPT !.unclaimed = FALSE, !.dirty = TRUE]
  <2>1. SectionSays(view) /\ edit.view.mounted
    BY <1>5 DEF Take, SectionSays
  <2>2. view \in Views /\ view.mounted
    BY <1>1, <2>1 DEF Views
  <2> QED BY <2>1, <2>2, SectionKeeps
<1>6. ASSUME NEW b \in BOOLEAN, Flag(b) PROVE Keeps
  <2> DEFINE view == [edit.view EXCEPT !.dirty = b]
  <2>1. SectionSays(view) /\ edit.view.mounted
    BY <1>6 DEF Flag, SectionSays
  <2>2. view \in Views /\ view.mounted
    BY <1>1, <1>6, <2>1 DEF Views
  <2> QED BY <2>1, <2>2, SectionKeeps
<1>7. ASSUME NEW b \in BOOLEAN, Checkpoint(b) PROVE Keeps
  <2> DEFINE view == [edit.view EXCEPT !.point = b, !.unclaimed = FALSE]
  <2>1. SectionSays(view) /\ edit.view.mounted
    BY <1>7 DEF Checkpoint, SectionSays
  <2>2. view \in Views /\ view.mounted
    BY <1>1, <1>7, <2>1 DEF Views
  <2> QED BY <2>1, <2>2, SectionKeeps
<1> QED BY <1>2, <1>3, <1>4, <1>5, <1>6, <1>7 DEF User

LEMMA SessionKeeps ==
    ASSUME CopyInv, Stop \/ Start \/ Compose \/ Mount \/ Keep \/ Resume \/ Decline \/ Lose
    PROVE  Keeps
<1>1. CASE Stop \/ Start
  <2>1. edit' = Forgotten(edit) /\ session'.phase # "live"
    BY <1>1 DEF Stop, Start, StopInto
  <2> QED BY <2>1, EditGoes
<1>2. CASE Lose
  <2>1. edit' = Forgotten(edit) /\ session'.phase # "live"
    BY <1>2 DEF Lose, CopyInv, SessionIs
  <2> QED BY <2>1, EditGoes
<1>3. CASE Compose \/ Mount \/ Keep \/ Resume
  <2>1. UNCHANGED <<edit, bound>> /\ session.phase # "losing"
    BY <1>3 DEF Compose, Mount, Keep, Resume
  <2> QED BY <2>1, EditStays DEF There
<1>4. CASE Decline
  <2>1. edit' = edit /\ session'.phase = "losing"
    BY <1>4 DEF Decline, CopyInv, SessionIs
  <2> QED BY <2>1, EditStays DEF There
<1> QED BY <1>1, <1>2, <1>3, <1>4

\* A shown refresh drops the copies of an add-on that is gone.
LEMMA ShownKeeps ==
    ASSUME CopyInv, NEW failed, NEW gen, Shown(failed, gen, edit), UNCHANGED bound,
           gen[Section] = 0 => run.graph.gen[Section] = 0
    PROVE  Keeps
<1>1. There => There'
  BY DEF Shown, There, CopyInv, SessionIs
<1>2. CASE gen[Section] # 0
  BY <1>1, <1>2, EditStays DEF Shown
<1>3. CASE gen[Section] = 0
  <2>1. edit \in Edits
    BY DEF CopyInv, EditInv, EditIs
  <2>2. edit' = [page |-> edit.page, view |-> edit.view, kept |-> FALSE]
    BY <1>3, <2>1 DEF Shown, Edits
  <2>3. EditIs(edit', There')
    BY <1>1, <2>1, <2>2 DEF CopyInv, EditInv, EditIs, Edits
  <2> QED BY <1>3, <2>3 DEF Keeps, EditInv, Stands, LetGo
<1> QED BY <1>2, <1>3

LEMMA RefreshKeeps ==
    ASSUME CopyInv, Hear \/ Fetch \/ Answered \/ FetchFails \/ Refused \/ Settle
    PROVE  Keeps
<1>1. CASE Hear \/ Fetch
  BY <1>1, EditStays DEF Hear, Fetch, There
<1>2. CASE FetchFails \/ Refused
  <2>1. UNCHANGED <<edit, bound>> /\ run.phase = "fetch"
    BY <1>2 DEF FetchFails, Refused
  <2>2. CASE FetchFails
    <3>1. session'.phase = session.phase
      BY <2>2 DEF FetchFails, CopyInv, SessionIs
    <3> QED BY <2>1, <3>1, EditStays DEF There
  <2>3. CASE Refused
    <3>1. There => There'
      BY <2>1 DEF There, CopyInv, ResetInv
    <3> QED BY <2>1, <3>1, EditStays
  <2> QED BY <1>2, <2>2, <2>3
<1>3. CASE Answered
  <2>1. UNCHANGED bound
    BY <1>3 DEF Answered
  <2>2. CASE Matches
    <3>1. Shown({}, host.gen, edit)
      BY <1>3, <2>2 DEF Answered
    <3>2. applied = host.rev /\ run.phase = "fetch"
      BY <1>3, <2>2 DEF Answered, Matches
    <3>3. run.graph.gen = host.gen
      BY <3>2 DEF CopyInv, GraphInv
    <3> QED BY <2>1, <3>1, <3>3, ShownKeeps
  <2>3. CASE ~Matches
    BY <1>3, <2>3, EditStays DEF Answered, There
  <2> QED BY <2>2, <2>3
<1>4. CASE Settle
  BY <1>4, ShownKeeps DEF Settle
<1> QED BY <1>1, <1>2, <1>3, <1>4

\* The add-on of the section, or another, is disposed.
LEMMA DisposeKeeps ==
    ASSUME CopyInv, NEW a, NEW why, Dispose(a, why), edit' = AfterAbort(edit, a, why), UNCHANGED session,
           a = Section => Stands \/ why \in {"reload", "updated"}
    PROVE  Keeps
<1>1. CASE a # Section
  <2>1. edit' = edit /\ (There => There')
    BY <1>1 DEF AfterAbort, Dispose, There
  <2> QED BY <2>1, EditStays
<1>2. CASE a = Section
  <2>1. EditIs(edit, TRUE) /\ edit' = AfterAbort(edit, Section, why)
    BY <1>2 DEF CopyInv, EditInv, EditIs
  <2>2. EditIs(edit', There') /\ (HasCopy(edit) /\ why \in {"reload", "updated"} => HasCopy(edit'))
    BY <2>1, AbortedIs
  <2> QED BY <1>2, <2>2 DEF Keeps, EditInv
<1> QED BY <1>1, <1>2

LEMMA TeardownKeeps == ASSUME CopyInv, NEW a \in Addons, Teardown(a) PROVE Keeps
<1>1. /\ Dispose(a, Why(a)) /\ edit' = AfterAbort(edit, a, Why(a)) /\ UNCHANGED <<session, run>>
      /\ Why(a) \in {"authority-changed", "disabled", "updated", "reload"}
  BY DEF Teardown, Why
<1>2. ASSUME a = Section PROVE Stands \/ Why(a) \in {"reload", "updated"}
  <2>1. CASE Why(a) = "authority-changed"
    <3>1. run.phase = "releasing"
      BY <2>1 DEF Why
    <3>2. session.phase # "live"
      BY <3>1 DEF CopyInv, ResetInv, Resetting
    <3> QED BY <1>1, <3>2 DEF Stands, LetGo
  <2>2. CASE Why(a) = "disabled"
    <3>1. run.graph.gen[Section] = 0
      BY <1>2, <2>2 DEF Why
    <3> QED BY <3>1 DEF Stands, LetGo
  <2> QED BY <1>1, <2>1, <2>2
<1> QED BY <1>1, <1>2, DisposeKeeps

LEMMA FailureKeeps == ASSUME CopyInv, ActivationFails PROVE Keeps
<1> DEFINE a == pending.addon
<1>1. /\ Dispose(a, "activation-failed") /\ edit' = AfterAbort(edit, a, "activation-failed")
      /\ UNCHANGED session
  BY DEF ActivationFails
<1>2. a = Section => Stands
  BY <1>1 DEF Dispose, Stands
<1> HIDE DEF a
<1> QED BY <1>1, <1>2, DisposeKeeps

LEMMA BindKeeps == ASSUME CopyInv, NEW a \in Addons, Bind(a) PROVE Keeps
<1>1. There => There'
  BY DEF Bind, There
<1>2. CASE UNCHANGED edit
  BY <1>1, <1>2, EditStays
<1>3. CASE a = Section /\ edit.page /\ edit' \in Mounts(edit)
  <2>1. EditIs(edit, TRUE) /\ There'
    BY <1>3 DEF CopyInv, EditInv, EditIs, Bind, There
  <2>2. EditIs(edit', TRUE) /\ (HasCopy(edit) /\ ~edit.view.mounted => HasCopy(edit'))
    BY <1>3, <2>1, MountedIs
  <2>3. EditInv'
    BY <2>1, <2>2 DEF EditInv, EditIs
  <2>4. ASSUME edit.view.mounted PROVE Stands
    <3>1. session.phase = "losing"
      BY <1>3, <2>4 DEF Bind, CopyInv, EditInv, EditIs, There
    <3> QED BY <3>1 DEF Bind, Stands, LetGo
  <2> QED BY <2>2, <2>3, <2>4 DEF Keeps
<1> QED BY <1>2, <1>3 DEF Bind

LEMMA NextKeeps == ASSUME CopyInv, [Next]_vars PROVE Keeps
<1>1. CASE UNCHANGED vars
  BY <1>1, EditStays DEF vars, There
<1>2. CASE \E gen \in [Addons -> 0..MaxRev] : HostChanges(gen)
  BY <1>2, EditStays DEF HostChanges, There
<1>3. CASE \/ Drained \/ Rebuild \/ Release \/ Loaded \/ Hangs \/ Activated
           \/ \E a \in Addons : Activate(a)
  <2>1. UNCHANGED <<session, bound, edit>>
    BY <1>3 DEF Drained, Rebuild, Release, Loaded, Hangs, Activated, Activate
  <2> QED BY <2>1, EditStays DEF There
<1> QED BY <1>1, <1>2, <1>3, SessionKeeps, RefreshKeeps, TeardownKeeps, FailureKeeps, BindKeeps,
           UserKeeps DEF Next

LEMMA CopyHolds == ASSUME CopyInv, [Next]_vars PROVE CopyInv'
<1>1. ControlInv'
  BY ControlHolds DEF CopyInv, ControlInv
<1>2. EditInv'
  BY NextKeeps DEF Keeps
<1> QED BY <1>1, <1>2 DEF CopyInv, ControlInv

\* A checkpointed edit keeps its guard and its copy through any number of restarts, until the
\* section lets go of it, its record, session or add-on goes, or its activation fails.
THEOREM CopyIsAlwaysKept == Spec => CopyIsKept
<1>1. Init => CopyInv
  BY CopyInit
<1>2. CopyInv /\ [Next]_vars => CopyInv'
  BY CopyHolds
<1>3. CopyInv /\ [Next]_vars =>
        [HasCopy(edit) /\ ~HasCopy(edit') =>
           LetGo \/ closing' = [addon |-> Section, why |-> "activation-failed"]]_vars
  BY NextKeeps DEF Keeps, Stands
<1> QED BY <1>1, <1>2, <1>3, PTL DEF Spec, CopyIsKept

-----------------------------------------------------------------------------
(* The add-on page.                                                        *)

IsChange(c) ==
    /\ c = Change(c.kind, c.addon, c.to, c.rev)
    /\ c.addon \in Installed \cup {NoAddon} /\ c.to \in 0..2 /\ c.rev \in Nat

Remotes == [active : [Installed -> 0..2], saves : {"old", "new", "none"}, pending : BOOLEAN,
            was : 0..2, receipt : {"none", "applied", "failed", "pending"}, rev : Nat]

Dialogs == [open : BOOLEAN, addon : Installed \cup {NoAddon}, to : 0..2]
Schemas == [open : BOOLEAN, req : {"none", "prepare", "apply"}, rev : Nat,
            action : {"none", "heal", "remove"}, uncertain : BOOLEAN, refresh : BOOLEAN]
Configs == [req : {"none", "load", "apply"}, rev : Nat, review : BOOLEAN]
Flags   == [install : BOOLEAN, config : BOOLEAN]

\* What Update all keeps, as one record.
BatchRec(left, cur, round, progress, waiting, updated, failed, rev) ==
    [left |-> left, cur |-> cur, round |-> round, progress |-> progress, waiting |-> waiting,
     updated |-> updated, failed |-> failed, rev |-> rev]

IsBatch(b) ==
    /\ b = BatchRec(b.left, b.cur, b.round, b.progress, b.waiting, b.updated, b.failed, b.rev)
    /\ IsChange(b.cur)

AdminTypes ==
    /\ remote \in Remotes
    /\ IsChange(orphan) /\ IsChange(op) /\ IsChange(shown) /\ IsBatch(batch)
    /\ op.kind \in {"review", "stage"} => op.addon \in Installed
    /\ shown.kind = "upgrade" => shown.addon \in Installed
    /\ Resolves(orphan) => orphan.addon \in Installed
    /\ page \in BOOLEAN /\ git \in BOOLEAN /\ wizard \in BOOLEAN
    /\ dialog \in Dialogs
    /\ schema \in Schemas
    /\ config \in Configs
    /\ busy \in Flags

\* The upgrade has a request, or one that may have been done.
Upgrading == schema.req # "none" \/ schema.uncertain

\* What the events tell the manager is so, and an element that works has found the others
\* at rest: each sees this from its own guards, which speak of the dialog and the review.
TurnsInv ==
    /\ leases = UnderWay
    /\ busy.install <=> (wizard \/ Upgrading)
    /\ busy.config <=> config.req = "apply"
    /\ op.kind = "none" => op = None
    /\ wizard => op = None /\ ~git /\ ~Upgrading /\ config.req # "apply" /\ shown = None /\ dialog.open
    /\ Upgrading => op = None /\ ~git /\ config.req # "apply" /\ shown.kind = "upgrade"
    /\ config.req = "apply" => op = None /\ ~git /\ ~dialog.open
    /\ schema.req = "prepare" => ~schema.uncertain
    /\ schema.req = "apply" \/ schema.uncertain => schema.rev # 0
    /\ op.kind \in {"review", "stage"} => dialog.open
    /\ shown.kind = "upgrade" => dialog.open
    /\ dialog.addon # NoAddon => dialog.open
    /\ ~page => op = None /\ ~git /\ ~wizard /\ ~Upgrading /\ config.req # "apply" /\ ~dialog.open

\* Update all keeps every target in one place...
InOnePlace ==
    /\ batch.left \cup batch.updated \cup batch.failed \cup DOMAIN batch.waiting \subseteq Installed
    /\ batch.round \subseteq DOMAIN batch.waiting
    /\ batch.left \cap (batch.updated \cup batch.failed \cup DOMAIN batch.waiting) = {}
    /\ batch.failed \cap DOMAIN batch.waiting = {}
    /\ batch.updated \cap (batch.failed \cup DOMAIN batch.waiting) = {}

\* ...takes up one at a time, and activates it only on the host it was reviewed on...
TakenUp ==
    \/ batch.cur = None
    \/ /\ batch.cur.kind \in {"staged", "activate"}
       /\ batch.cur.addon \in Installed /\ batch.cur.to = 2
       /\ batch.cur.addon \notin batch.left \cup batch.round \cup batch.updated \cup batch.failed
       /\ batch.cur.kind = "activate" =>
             /\ batch.cur.rev <= remote.rev
             /\ batch.cur.rev = remote.rev => Issue(batch.cur.addon, 2) = "none"

\* ...and every update of its own counts one revision of the host.
Counted ==
    /\ IsFiniteSet(batch.updated) /\ batch.rev \in Nat
    /\ remote.rev >= batch.rev + Cardinality(batch.updated)

Alone == remote.rev = batch.rev + Cardinality(batch.updated)

\* As long as nobody else changed the host, what is updated runs, and the reasons of those
\* that wait are those of the host as it is, or are looked at again.
ReasonsHold ==
    /\ \A a \in batch.updated : remote.active[a] = 2
    /\ \A a \in DOMAIN batch.waiting \ {batch.cur.addon} :
          \/ batch.waiting[a] \in {"failed", Issue(a, 2)}
          \/ batch.waiting[a] = "blocked" /\ (batch.progress \/ a \in batch.round)

BatchInv == op.kind = "batch" => InOnePlace /\ TakenUp /\ Counted /\ (Alone => ReasonsHold)

-----------------------------------------------------------------------------
(* The host.                                                               *)

\* A step of the host counts a revision or leaves the add-ons and their saved data.
Moves(g) ==
    /\ g \in Remotes
    /\ \/ g.rev > remote.rev
       \/ g.rev = remote.rev /\ g.active = remote.active /\ g.saves = remote.saves

LEMMA ChangesAre ==
    ASSUME NEW k, NEW a \in Installed \cup {NoAddon}, NEW v \in 0..2, NEW r \in Nat
    PROVE  IsChange(Change(k, a, v, r))
BY DEF Change, IsChange

LEMMA NoChange == IsChange(None)
BY DEF None, Change, IsChange

LEMMA NoBatchIs == IsBatch(NoBatch) /\ NoBatch.cur = None
BY NoChange DEF IsBatch, NoBatch, BatchRec

RemoteRec(versions, saves, half, was, receipt, rev) ==
    [active |-> versions, saves |-> saves, pending |-> half, was |-> was, receipt |-> receipt,
     rev |-> rev]

LEMMA RemotesAre ==
    ASSUME NEW versions \in [Installed -> 0..2], NEW saves \in {"old", "new", "none"}, NEW half \in BOOLEAN,
           NEW was \in 0..2, NEW receipt \in {"none", "applied", "failed", "pending"}, NEW rev \in Nat
    PROVE  LET r == RemoteRec(versions, saves, half, was, receipt, rev)
           IN  r \in Remotes /\ r.active = versions /\ r.saves = saves /\ r.rev = rev
BY DEF Remotes, RemoteRec

LEMMA ChangedIs ==
    ASSUME AdminTypes, NEW versions \in [Installed -> 0..2]
    PROVE  /\ Changed(versions) \in Remotes
           /\ Changed(versions) = RemoteRec(versions, remote.saves, remote.pending, remote.was,
                                          remote.receipt, remote.rev + 1)
           /\ Changed(versions).rev = remote.rev + 1 /\ Changed(versions).active = versions
           /\ Changed(versions).saves = remote.saves
<1>1. PICK a, s, p, w, c, r : remote = RemoteRec(a, s, p, w, c, r)
  BY DEF AdminTypes, Remotes, RemoteRec
<1>2. Changed(versions) = RemoteRec(versions, s, p, w, c, r + 1)
  <2>1. r \in Nat
    BY <1>1 DEF AdminTypes, Remotes, RemoteRec
  <2> DEFINE x == Changed(versions)
  <2>2. x = [remote EXCEPT !.active = versions, !.rev = remote.rev + 1]
    BY DEF Changed
  <2> HIDE DEF x
  <2>3. x = [RemoteRec(a, s, p, w, c, r) EXCEPT !.active = versions, !.rev = r + 1]
    BY <1>1, <2>2 DEF RemoteRec
  <2>4. x = RemoteRec(versions, s, p, w, c, r + 1)
    BY <2>3 DEF RemoteRec
  <2> QED BY <2>4 DEF x
<1>3. Changed(versions) = RemoteRec(versions, remote.saves, remote.pending, remote.was, remote.receipt, remote.rev + 1)
  BY <1>1, <1>2 DEF RemoteRec
<1> QED BY <1>3 DEF AdminTypes, Remotes, RemoteRec

LEMMA ActivatingIs ==
    ASSUME AdminTypes, NEW a, NEW v \in 0..2
    PROVE  Activating(a, v) \in [Installed -> 0..2]
BY DEF Activating, AdminTypes, Remotes

LEMMA AfterIs ==
    ASSUME AdminTypes, NEW r, IsChange(r)
    PROVE  /\ After(r) \in Remotes /\ After(r).rev = remote.rev + 1
           /\ r.kind = "activate" =>
                 After(r).active = Activating(r.addon, r.to) /\ After(r).saves = remote.saves
<1>1. r.to \in 0..2
  BY DEF IsChange
<1>2. Activating(r.addon, r.to) \in [Installed -> 0..2]
  BY <1>1, ActivatingIs
<1>3. Disabling(r.addon) \in [Installed -> 0..2] /\ remote.active \in [Installed -> 0..2]
  BY DEF Disabling, AdminTypes, Remotes
<1>4. \E versions \in [Installed -> 0..2] :
         After(r) = Changed(versions) /\ (r.kind = "activate" => versions = Activating(r.addon, r.to))
  BY <1>2, <1>3 DEF After
<1>5. PICK versions \in [Installed -> 0..2] :
         After(r) = Changed(versions) /\ (r.kind = "activate" => versions = Activating(r.addon, r.to))
  BY <1>4
<1> QED BY <1>5, ChangedIs

LEMMA ResolutionsAre ==
    ASSUME AdminTypes, NEW r, IsChange(r), r.addon \in Installed, NEW x \in Resolutions(r)
    PROVE  x \in Remotes /\ x.rev = remote.rev + 1
<1> DEFINE versions == Activating(r.addon, r.to)
           was == remote.active[r.addon]
           saves == IF r.kind = "heal" THEN "new" ELSE "none"
<1>0. versions \in [Installed -> 0..2] /\ was \in 0..2 /\ saves \in {"new", "none"}
  BY ActivatingIs DEF IsChange, AdminTypes, Remotes
<1> DEFINE base == Changed(versions)
           done == [base EXCEPT !.saves = saves, !.receipt = "applied"]
<1>d. base = Changed(versions) /\ done = [base EXCEPT !.saves = saves, !.receipt = "applied"]
  OBVIOUS
<1>1. \/ x = done
      \/ x = [remote EXCEPT !.receipt = "failed", !.rev = remote.rev + 1]
      \/ x = [done EXCEPT !.receipt = "pending", !.pending = TRUE, !.was = was]
  BY DEF Resolutions
<1> HIDE DEF versions, was, saves, base, done
<1>2. PICK a, s, p, w, c, n : remote = RemoteRec(a, s, p, w, c, n)
  BY DEF AdminTypes, Remotes, RemoteRec
<1>3. /\ a \in [Installed -> 0..2] /\ s \in {"old", "new", "none"} /\ p \in BOOLEAN
      /\ w \in 0..2 /\ n \in Nat /\ remote.rev = n
  BY <1>2 DEF AdminTypes, Remotes, RemoteRec
<1> DEFINE m == n + 1
<1>7. m = n + 1 /\ m \in Nat /\ m = remote.rev + 1
  BY <1>3
<1>4. base = RemoteRec(versions, s, p, w, c, m)
  BY <1>0, <1>d, <1>2, ChangedIs DEF RemoteRec
<1> HIDE DEF m
<1>5. done = RemoteRec(versions, saves, p, w, "applied", m)
  <2>1. done = [RemoteRec(versions, s, p, w, c, m) EXCEPT !.saves = saves, !.receipt = "applied"]
    BY ONLY <1>d, <1>4
  <2> QED BY ONLY <2>1 DEF RemoteRec
<1>6. \/ x = RemoteRec(versions, saves, p, w, "applied", m)
      \/ x = RemoteRec(a, s, p, w, "failed", m)
      \/ x = RemoteRec(versions, saves, TRUE, was, "pending", m)
  <2>1. CASE x = [remote EXCEPT !.receipt = "failed", !.rev = remote.rev + 1]
    BY <1>2, <1>3, <1>7, <2>1 DEF RemoteRec
  <2>2. CASE x = [done EXCEPT !.receipt = "pending", !.pending = TRUE, !.was = was]
    BY <1>5, <2>2 DEF RemoteRec
  <2> QED BY <1>1, <1>5, <2>1, <2>2
<1>8. CASE x = RemoteRec(versions, saves, p, w, "applied", m)
  BY <1>0, <1>3, <1>7, <1>8, RemotesAre
<1>9. CASE x = RemoteRec(a, s, p, w, "failed", m)
  BY <1>3, <1>7, <1>9, RemotesAre
<1>10. CASE x = RemoteRec(versions, saves, TRUE, was, "pending", m)
  BY <1>0, <1>3, <1>7, <1>10 DEF Remotes, RemoteRec
<1> QED BY <1>6, <1>8, <1>9, <1>10

-----------------------------------------------------------------------------
(* One change at a time.                                                   *)

AdminInv == AdminTypes /\ TurnsInv

LEMMA AtRest ==
    ASSUME AdminInv, NotBusy
    PROVE  op = None /\ ~git /\ ~wizard /\ ~Upgrading /\ config.req # "apply" /\ leases = {}
<1>1. op.kind = "none" /\ ~git /\ ~busy.install /\ ~busy.config
  BY DEF NotBusy
<1> QED BY <1>1 DEF AdminInv, TurnsInv, UnderWay, Open, Upgrading

\* The rest of the page while only its request, its review and its dialog move.
Others == UNCHANGED <<page, git, wizard, config, busy>>

\* A request begins: the page was at rest.
LEMMA BeginKeeps ==
    ASSUME AdminInv, NEW r, IsChange(r), Begin(r), r.kind # "none", Others,
           remote' = remote, orphan' = orphan, IsBatch(batch)',
           dialog' \in Dialogs,
           schema' = schema \/ schema' = [schema EXCEPT !.open = FALSE],
           shown' = shown \/ shown' = None,
           r.kind \in {"review", "stage"} => r.addon \in Installed /\ dialog'.open,
           shown'.kind = "upgrade" \/ dialog'.addon # NoAddon => dialog'.open
    PROVE  AdminInv'
<1>1. /\ op = None /\ ~git /\ ~wizard /\ ~Upgrading /\ config.req # "apply" /\ leases = {}
      /\ page /\ op' = r
      /\ leases' = IF r.kind \in Reading THEN {} ELSE {"manager"}
  BY AtRest DEF Begin
<1>2. /\ schema' \in Schemas
      /\ schema'.req = schema.req /\ schema'.uncertain = schema.uncertain /\ schema'.rev = schema.rev
  BY DEF AdminInv, AdminTypes, Schemas
<1>3. ~Upgrading' /\ schema'.req = "none" /\ ~schema'.uncertain
  BY <1>1, <1>2 DEF Upgrading
<1>4. IsChange(shown)' /\ (shown'.kind = "upgrade" => shown'.addon \in Installed)
  BY NoChange DEF AdminInv, AdminTypes, None, Change
<1>5. AdminTypes'
  BY <1>1, <1>2, <1>4 DEF AdminInv, AdminTypes, Others
<1>6. UnderWay' = IF r.kind \in Reading THEN {} ELSE {"manager"}
  BY <1>1, <1>3 DEF UnderWay, Open, Others
<1>7. TurnsInv'
  BY <1>1, <1>2, <1>3, <1>6 DEF AdminInv, TurnsInv, Others
<1> QED BY <1>5, <1>7 DEF AdminInv

LEMMA InitAdmin == ASSUME AdminInit PROVE AdminInv
<1>1. /\ orphan = None /\ op = None /\ shown = None /\ batch = NoBatch /\ schema = NoSchema
      /\ dialog = NoDialog /\ config = NoConfig /\ busy = NoFlags /\ leases = {}
      /\ page = FALSE /\ git = FALSE /\ wizard = FALSE
  BY DEF AdminInit
<1>2. remote \in Remotes
  <2>1. PICK v \in {0, 1} : remote = RemoteRec([a \in Installed |-> v], "old", FALSE, 0, "none", 1)
    BY DEF AdminInit, RemoteRec
  <2> QED BY <2>1 DEF Remotes, RemoteRec
<1>3. AdminTypes
  <2>1. IsChange(orphan) /\ IsChange(op) /\ IsChange(shown) /\ IsBatch(batch)
    BY <1>1, NoChange, NoBatchIs
  <2>2. /\ op.kind \notin {"review", "stage"} /\ shown.kind # "upgrade" /\ ~Resolves(orphan)
    BY <1>1 DEF None, Change, Resolves
  <2>3. page \in BOOLEAN /\ git \in BOOLEAN /\ wizard \in BOOLEAN
    BY <1>1
  <2>6. dialog \in Dialogs
    BY <1>1 DEF NoDialog, Dialogs
  <2>4. schema \in Schemas
    BY <1>1 DEF NoSchema, Schemas
  <2>5. /\ config \in Configs
        /\ busy \in Flags
    BY <1>1 DEF NoConfig, NoFlags, Configs, Flags
  <2> QED BY <1>2, <2>1, <2>2, <2>3, <2>4, <2>5, <2>6 DEF AdminTypes
<1>4. UnderWay = {} /\ ~Upgrading
  BY <1>1 DEF UnderWay, Open, Upgrading, None, Change, NoSchema, NoConfig
<1>5. TurnsInv
  BY <1>1, <1>4 DEF TurnsInv, Upgrading, None, Change, NoSchema, NoConfig, NoFlags, NoDialog
<1> QED BY <1>3, <1>5 DEF AdminInv

\* What the DM asks of the manager begins a request, and so does an upgrade that ends in one.
LEMMA AsksKeep ==
    ASSUME AdminInv,
           \/ Check \/ ConfirmPanel \/ LoadReview \/ ActivateReviewed
           \/ \E a \in Installed : Reload(a) \/ PrepareDisable(a) \/ PrepareUninstall(a)
           \/ \E a \in Installed, v \in 1..2 : OpenPackage("review", a, v)
           \/ \E a \in Installed : OpenPackage("stage", a, 2)
           \/ \E targets \in SUBSET Installed : UpdateAll(targets)
           \/ Refresh \/ Exit
    PROVE  AdminInv'
<1>0. IsBatch(batch) /\ IsBatch(NoBatch) /\ IsChange(shown) /\ None.kind = "none"
  BY NoChange, NoBatchIs DEF AdminInv, AdminTypes, None, Change
<1>1. ASSUME NEW kind, NEW a \in Installed \cup {NoAddon}, kind \notin {"none", "review", "stage"},
             Outside(kind, a), IsBatch(batch)'
      PROVE  AdminInv'
  <2> DEFINE r == Change(kind, a, 0, shown.rev)
  <2>1. IsChange(r) /\ r.kind = kind
    BY <1>0, ChangesAre DEF Change, IsChange
  <2>2. Begin(r) /\ Others /\ UNCHANGED <<remote, orphan, dialog, schema>> /\ shown' = None
    BY <1>1 DEF Outside, Others, Elsewhere
  <2> HIDE DEF r
  <2> QED BY <1>0, <1>1, <2>1, <2>2, BeginKeeps DEF AdminInv, AdminTypes, TurnsInv
<1>2. CASE Check
  BY <1>0, <1>1, <1>2 DEF Check
<1>3. CASE ConfirmPanel
  <2>1. shown.kind \in Panels /\ Outside(shown.kind, shown.addon) /\ UNCHANGED batch
    BY <1>3 DEF ConfirmPanel
  <2> QED BY <1>0, <1>1, <2>1 DEF Panels, IsChange
<1>4. ASSUME NEW a \in Installed, Reload(a) \/ PrepareDisable(a) \/ PrepareUninstall(a) PROVE AdminInv'
  BY <1>0, <1>1, <1>4 DEF Reload, PrepareDisable, PrepareUninstall
<1>5. CASE LoadReview
  <2> DEFINE r == Change("review", dialog.addon, dialog.to, 0)
  <2>1. IsChange(r) /\ r.kind = "review" /\ r.addon \in Installed /\ dialog.open
    BY <1>5, ChangesAre DEF LoadReview, Dialogs, AdminInv, AdminTypes, TurnsInv, Change
  <2>2. /\ Begin(r) /\ Others /\ UNCHANGED <<remote, orphan, dialog, schema, shown, batch>>
    BY <1>5 DEF LoadReview, Others, Elsewhere
  <2> HIDE DEF r
  <2> QED BY <1>0, <2>1, <2>2, BeginKeeps DEF AdminInv, AdminTypes, TurnsInv
<1>6. CASE ActivateReviewed
  BY <1>0, <1>6, BeginKeeps DEF ActivateReviewed, AdminInv, AdminTypes, TurnsInv, Others, Elsewhere
<1>7. ASSUME NEW kind \in {"review", "stage"}, NEW a \in Installed, NEW v \in 0..2, OpenPackage(kind, a, v)
      PROVE  AdminInv'
  <2> DEFINE r == Change(kind, a, v, 0)
  <2>1. IsChange(r) /\ r.kind = kind /\ r.addon = a
    BY ChangesAre DEF Change
  <2>2. /\ Begin(r) /\ Others /\ UNCHANGED <<remote, orphan, schema, batch>> /\ shown' = None
        /\ dialog' = [open |-> TRUE, addon |-> IF kind = "stage" THEN NoAddon ELSE a, to |-> v]
    BY <1>7 DEF OpenPackage, Others
  <2>3. dialog' \in Dialogs /\ dialog'.open
    BY <2>2 DEF Dialogs
  <2> HIDE DEF r
  <2> QED BY <1>0, <2>1, <2>2, <2>3, BeginKeeps
<1>8. ASSUME NEW targets \in SUBSET Installed, UpdateAll(targets) PROVE AdminInv'
  <2> DEFINE r == Change("batch", NoAddon, 0, 0)
  <2>1. IsChange(r) /\ r.kind = "batch"
    BY ChangesAre DEF Change
  <2>2. /\ Begin(r) /\ Others /\ UNCHANGED <<remote, orphan, dialog, schema>> /\ shown' = None
        /\ batch' = [NoBatch EXCEPT !.left = targets, !.rev = remote.rev]
    BY <1>8 DEF UpdateAll, Others, Elsewhere
  <2>3. batch' = BatchRec(targets, None, {}, FALSE, <<>>, {}, {}, remote.rev)
    BY <2>2 DEF NoBatch, BatchRec
  <2>4. IsBatch(batch')
    BY <2>3, NoChange DEF IsBatch, BatchRec
  <2> HIDE DEF r
  <2> QED BY <1>0, <2>1, <2>2, <2>4, BeginKeeps DEF AdminInv, AdminTypes, TurnsInv
<1>9. CASE Refresh
  <2> DEFINE r == Change("review", shown.addon, shown.to, 0)
  <2>1. IsChange(r) /\ r.kind = "review" /\ r.addon \in Installed /\ dialog.open
    BY <1>0, <1>9, ChangesAre DEF Refresh, Ready, AdminInv, AdminTypes, TurnsInv, Change, IsChange
  <2>2. /\ Begin(r) /\ Others /\ UNCHANGED <<remote, orphan, dialog, shown, batch>>
        /\ schema' = [schema EXCEPT !.open = FALSE]
    BY <1>9 DEF Refresh, Others
  <2> HIDE DEF r
  <2> QED BY <1>0, <2>1, <2>2, BeginKeeps DEF AdminInv, AdminTypes, TurnsInv
<1>10. CASE Exit
  <2> DEFINE r == Change("cancel", NoAddon, 0, 0)
  <2>1. IsChange(r) /\ r.kind = "cancel"
    BY ChangesAre DEF Change
  <2>2. /\ Begin(r) /\ Others /\ UNCHANGED <<remote, orphan, dialog, shown, batch>>
        /\ schema' = [schema EXCEPT !.open = FALSE]
    BY <1>10 DEF Exit, Others
  <2> HIDE DEF r
  <2> QED BY <1>0, <2>1, <2>2, BeginKeeps DEF AdminInv, AdminTypes, TurnsInv
<1> QED BY <1>2, <1>3, <1>4, <1>5, <1>6, <1>7, <1>8, <1>9, <1>10

\* The dialog, the panels, the GitHub sources, the wizard and the page.
LEMMA PageKeeps ==
    ASSUME AdminInv,
           \/ DismissPanel \/ OpenInstall \/ CloseInstall \/ GitBegins \/ GitEnds \/ WizardBegins
           \/ WizardAnswers \/ Enter \/ Leave
    PROVE  AdminInv'
<1>0. /\ IsChange(None) /\ None.kind = "none" /\ None.addon = NoAddon /\ ~Resolves(None)
      /\ IsBatch(NoBatch) /\ NoBatch.cur = None
  BY NoChange, NoBatchIs DEF None, Change, Resolves
<1>1. CASE DismissPanel
  <2>1. /\ NotBusy /\ shown' = None
        /\ UNCHANGED <<remote, orphan, page, op, batch, leases, git, dialog, wizard, schema, config, busy>>
    BY <1>1 DEF DismissPanel, Elsewhere
  <2>2. UnderWay' = UnderWay /\ Upgrading' = Upgrading
    BY <2>1 DEF UnderWay, Open, Upgrading
  <2>3. AdminTypes'
    BY <1>0, <2>1 DEF AdminInv, AdminTypes
  <2>4. TurnsInv'
    BY <1>0, <2>1, <2>2, AtRest DEF AdminInv, TurnsInv
  <2> QED BY <2>3, <2>4 DEF AdminInv
<1>2. CASE OpenInstall
  <2>0. dialog' = [open |-> TRUE, addon |-> NoAddon, to |-> 0]
    BY <1>2 DEF OpenInstall, NoDialog
  <2>5. dialog'.open /\ dialog' \in Dialogs
    BY <2>0 DEF Dialogs
  <2>1. /\ page /\ NotBusy /\ ~dialog.open /\ shown' = None
        /\ UNCHANGED <<remote, orphan, page, op, batch, git, wizard, schema, config, leases, busy>>
    BY <1>2 DEF OpenInstall
  <2>2. UnderWay' = UnderWay /\ Upgrading' = Upgrading
    BY <2>1 DEF UnderWay, Open, Upgrading
  <2>3. AdminTypes'
    BY <1>0, <2>1, <2>5 DEF AdminInv, AdminTypes
  <2>4. TurnsInv'
    BY <1>0, <2>1, <2>2, <2>5, AtRest DEF AdminInv, TurnsInv
  <2> QED BY <2>3, <2>4 DEF AdminInv
<1>3. CASE CloseInstall
  <2>1. CASE shown = None
    <3>1. /\ NotBusy /\ dialog' = NoDialog
          /\ UNCHANGED <<remote, orphan, page, op, batch, git, wizard, shown, schema, config, leases, busy>>
      BY <1>3, <2>1 DEF CloseInstall
    <3>2. dialog' \in Dialogs /\ dialog'.addon = NoAddon /\ ~dialog'.open
      BY <3>1 DEF NoDialog, Dialogs
    <3>3. UnderWay' = UnderWay /\ Upgrading' = Upgrading
      BY <3>1 DEF UnderWay, Open, Upgrading
    <3>4. AdminTypes'
      BY <3>1, <3>2 DEF AdminInv, AdminTypes
    <3>5. TurnsInv'
      BY <1>0, <2>1, <3>1, <3>2, <3>3, AtRest DEF AdminInv, TurnsInv
    <3> QED BY <3>4, <3>5 DEF AdminInv
  <2>2. CASE shown # None
    <3> DEFINE r == Change("cancel", NoAddon, 0, 0)
    <3>1. IsChange(r) /\ r.kind = "cancel"
      BY ChangesAre DEF Change
    <3>2. /\ Begin(r) /\ Others /\ UNCHANGED <<remote, orphan, dialog, schema, shown, batch>>
      BY <1>3, <2>2 DEF CloseInstall, Others
    <3> HIDE DEF r
    <3> QED BY <3>1, <3>2, BeginKeeps DEF AdminInv, AdminTypes, TurnsInv
  <2> QED BY <2>1, <2>2
<1>4. CASE GitBegins
  <2>1. NotBusy /\ page /\ git' = TRUE /\ UNCHANGED <<remote, orphan, page, op, batch, dialog, wizard, shown, schema, config, leases, busy>>
    BY <1>4 DEF GitBegins
  <2>2. UnderWay' = UnderWay /\ Upgrading' = Upgrading
    BY <2>1 DEF UnderWay, Open, Upgrading
  <2>3. AdminTypes'
    BY <2>1 DEF AdminInv, AdminTypes
  <2>4. TurnsInv'
    BY <2>1, <2>2, AtRest DEF AdminInv, TurnsInv
  <2> QED BY <2>3, <2>4 DEF AdminInv
<1>5. CASE GitEnds
  <2>0. git' \in BOOLEAN
    BY <1>5 DEF GitEnds
  <2>1. git /\ git' = FALSE /\ UNCHANGED <<remote, orphan, page, op, batch, dialog, wizard, shown, schema, config, leases, busy>>
    BY <1>5 DEF GitEnds
  <2>2. UnderWay' = UnderWay /\ Upgrading' = Upgrading
    BY <2>1 DEF UnderWay, Open, Upgrading
  <2>3. AdminTypes'
    BY <2>0, <2>1 DEF AdminInv, AdminTypes
  <2>4. TurnsInv'
    BY <2>1, <2>2 DEF AdminInv, TurnsInv
  <2> QED BY <2>3, <2>4 DEF AdminInv
<1>6. CASE WizardBegins
  <2>1. /\ dialog.open /\ shown = None /\ ~wizard /\ op = None /\ ~git
        /\ wizard' = TRUE /\ leases' = leases \cup {"install"}
        /\ busy'.install = TRUE /\ busy'.config = busy.config
        /\ busy' \in Flags
        /\ UNCHANGED <<remote, orphan, page, op, batch, git, dialog, shown, schema, config>>
    BY <1>6 DEF WizardBegins, AdminInv, AdminTypes, Flags
  <2>2. ~Upgrading /\ config.req # "apply" /\ page
    BY <1>0, <2>1 DEF AdminInv, AdminTypes, TurnsInv
  <2>3. UnderWay' = UnderWay \cup {"install"} /\ Upgrading' = Upgrading
    BY <2>1 DEF UnderWay, Open, Upgrading
  <2>4. AdminTypes'
    BY <2>1 DEF AdminInv, AdminTypes
  <2>5. TurnsInv'
    BY <2>1, <2>2, <2>3 DEF AdminInv, TurnsInv
  <2> QED BY <2>4, <2>5 DEF AdminInv
<1>7. ASSUME NEW outcome \in {"nothing", "source", "staged"}, NEW a \in Installed, WizardEnds(outcome, a)
      PROVE  AdminInv'
  <2>0. wizard' \in BOOLEAN
    BY <1>7 DEF WizardEnds, WizardDone
  <2>1. /\ wizard /\ wizard' = FALSE /\ busy'.install = FALSE /\ busy'.config = busy.config
        /\ busy' \in Flags
        /\ UNCHANGED <<remote, orphan, page, batch, shown, schema, config>>
    BY <1>7 DEF WizardEnds, WizardDone, AdminInv, AdminTypes, Flags
  <2>2. op = None /\ ~git /\ ~Upgrading /\ config.req # "apply" /\ shown = None /\ dialog.open /\ page
    BY <2>1 DEF AdminInv, TurnsInv, AdminTypes
  <2>3. leases = {"install"} /\ Upgrading' = Upgrading
    BY <1>0, <2>1, <2>2 DEF AdminInv, TurnsInv, UnderWay, Open, Upgrading
  <2>4. CASE outcome = "source"
    <3>1. /\ dialog' = NoDialog /\ git' = TRUE /\ leases' = {} /\ op' = op
      BY <1>7, <2>3, <2>4 DEF WizardEnds
    <3>2. dialog' \in Dialogs /\ dialog'.addon = NoAddon
      BY <3>1 DEF NoDialog, Dialogs
    <3>3. UnderWay' = {}
      BY <1>0, <2>1, <2>2, <3>1 DEF UnderWay, Open, Upgrading
    <3>4. AdminTypes'
      BY <2>1, <3>1, <3>2 DEF AdminInv, AdminTypes
    <3>5. TurnsInv'
      BY <1>0, <2>1, <2>2, <2>3, <3>1, <3>2, <3>3 DEF AdminInv, TurnsInv
    <3> QED BY <3>4, <3>5 DEF AdminInv
  <2>5. CASE outcome = "staged"
    <3> DEFINE r == Change("review", a, 2, 0)
    <3>0. IsChange(r) /\ r.kind = "review" /\ r.addon = a
      BY ChangesAre DEF Change
    <3>1. /\ dialog' = [dialog EXCEPT !.addon = a, !.to = 2]
          /\ op' = r /\ leases' = {"manager"} /\ git' = git
      BY <1>7, <2>3, <2>5 DEF WizardEnds
    <3>2. dialog' \in Dialogs /\ dialog'.open
      <4>1. PICK o, d, t : dialog = [open |-> o, addon |-> d, to |-> t]
        BY DEF AdminInv, AdminTypes, Dialogs
      <4>2. dialog' = [open |-> o, addon |-> a, to |-> 2] /\ o = TRUE
        BY <2>2, <3>1, <4>1
      <4> QED BY <4>2 DEF Dialogs
    <3> HIDE DEF r
    <3>3. UnderWay' = {"manager"}
      BY <2>1, <2>2, <3>0, <3>1 DEF UnderWay, Open, Upgrading, Reading
    <3>4. AdminTypes'
      BY <2>1, <3>0, <3>1, <3>2 DEF AdminInv, AdminTypes
    <3>5. TurnsInv'
      BY <1>0, <2>1, <2>2, <2>3, <3>0, <3>1, <3>2, <3>3 DEF AdminInv, TurnsInv
    <3> QED BY <3>4, <3>5 DEF AdminInv
  <2>6. CASE outcome = "nothing"
    <3>1. leases' = {} /\ UNCHANGED <<dialog, git, op>>
      BY <1>7, <2>3, <2>6 DEF WizardEnds
    <3>3. UnderWay' = {}
      BY <1>0, <2>1, <2>2, <3>1 DEF UnderWay, Open, Upgrading
    <3>4. AdminTypes'
      BY <2>1, <3>1 DEF AdminInv, AdminTypes
    <3>5. TurnsInv'
      BY <1>0, <2>1, <2>2, <2>3, <3>1, <3>3 DEF AdminInv, TurnsInv
    <3> QED BY <3>4, <3>5 DEF AdminInv
  <2> QED BY <2>4, <2>5, <2>6
<1>8. CASE Enter
  <2> DEFINE r == Change("load", NoAddon, 0, 0)
  <2>0. IsChange(r) /\ r.kind = "load" /\ [Listing EXCEPT !.kind = "load"] = r
    BY ChangesAre DEF Change, Listing
  <2>1. /\ ~page /\ page' = TRUE /\ op' = r
        /\ UNCHANGED <<remote, orphan, batch, shown, leases, git, dialog, wizard, schema, config, busy>>
    BY <1>8, <2>0 DEF Enter, Elsewhere
  <2> HIDE DEF r
  <2>2. op = None /\ ~git /\ ~wizard /\ ~Upgrading /\ config.req # "apply"
    BY <2>1 DEF AdminInv, TurnsInv
  <2>3. UnderWay' = UnderWay /\ Upgrading' = Upgrading
    BY <1>0, <2>0, <2>1, <2>2 DEF UnderWay, Open, Upgrading, Reading
  <2>4. AdminTypes'
    BY <2>0, <2>1 DEF AdminInv, AdminTypes
  <2>5. TurnsInv'
    BY <2>0, <2>1, <2>2, <2>3 DEF AdminInv, TurnsInv
  <2> QED BY <2>4, <2>5 DEF AdminInv
<1>9. CASE Leave
  <2>1. /\ op' = None /\ batch' = NoBatch /\ dialog' = NoDialog /\ shown' = None
        /\ schema' = NoSchema /\ config' = NoConfig /\ leases' = {} /\ busy' = NoFlags
        /\ page' = FALSE /\ git' = FALSE /\ wizard' = FALSE /\ UNCHANGED remote
    BY <1>9 DEF Leave
  <2>2. page' \in BOOLEAN /\ git' \in BOOLEAN /\ wizard' \in BOOLEAN
    BY <2>1
  <2>3. dialog' \in Dialogs /\ ~dialog'.open /\ dialog'.addon = NoAddon
    BY <2>1 DEF NoDialog, Dialogs
  <2>4. schema' \in Schemas /\ schema'.req = "none" /\ ~schema'.uncertain
    BY <2>1 DEF NoSchema, Schemas
  <2>5. config' \in Configs /\ config'.req = "none" /\ busy' \in Flags /\ ~busy'.install /\ ~busy'.config
    BY <2>1 DEF NoConfig, NoFlags, Configs, Flags
  <2>6. IsChange(orphan') /\ (Resolves(orphan') => orphan'.addon \in Installed)
    <3>1. orphan' = orphan \/ orphan' \in InFlight
      BY <1>9 DEF Leave
    <3>2. CASE orphan' = op /\ Sends
      BY <3>2 DEF AdminInv, AdminTypes, Sends, Panels, Resolves
    <3>3. CASE orphan' = Resolution /\ schema.req = "apply"
      <4>1. shown.kind = "upgrade" /\ shown.addon \in Installed /\ shown.to \in 0..2 /\ schema.rev \in Nat
        BY <3>3 DEF AdminInv, AdminTypes, TurnsInv, Upgrading, IsChange, Schemas
      <4> QED BY <3>3, <4>1, ChangesAre DEF Resolution, Change
    <3>4. CASE orphan' = Configuring
      <4>1. config.rev \in Nat
        BY DEF AdminInv, AdminTypes, Configs
      <4> QED BY <3>4, <4>1, ChangesAre DEF Configuring, Change, Resolves
    <3>5. CASE orphan' = batch.cur /\ batch.cur.kind = "activate"
      BY <3>5 DEF AdminInv, AdminTypes, IsBatch, Resolves
    <3>6. CASE orphan' = orphan
      BY <3>6 DEF AdminInv, AdminTypes
    <3> QED BY <3>1, <3>2, <3>3, <3>4, <3>5, <3>6 DEF InFlight
  <2>7. AdminTypes'
    BY <1>0, <2>1, <2>2, <2>3, <2>4, <2>5, <2>6 DEF AdminInv, AdminTypes
  <2>8. UnderWay' = {} /\ ~Upgrading'
    BY <1>0, <2>1, <2>4, <2>5 DEF UnderWay, Open, Upgrading
  <2>9. TurnsInv'
    BY <1>0, <2>1, <2>3, <2>4, <2>5, <2>8 DEF TurnsInv
  <2> QED BY <2>7, <2>9 DEF AdminInv
<1>10. QED BY <1>1, <1>2, <1>3, <1>4, <1>5, <1>6, <1>7, <1>8, <1>9 DEF WizardAnswers

\* The host moves, or Update all goes on: the page's turns stay.
LEMMA ElsewhereKeeps ==
    ASSUME AdminInv, remote' \in Remotes, IsChange(orphan'),
           Resolves(orphan') => orphan'.addon \in Installed, IsBatch(batch'),
           UNCHANGED <<page, op, shown, leases, git, dialog, wizard, schema, config, busy>>
    PROVE  AdminInv'
<1>1. UnderWay' = UnderWay /\ Upgrading' = Upgrading
  BY DEF UnderWay, Open, Upgrading
<1>2. AdminTypes'
  BY DEF AdminInv, AdminTypes
<1>3. TurnsInv'
  BY <1>1 DEF AdminInv, TurnsInv
<1> QED BY <1>2, <1>3 DEF AdminInv

\* A request of the manager ends, or turns into another.
LEMMA EndKeeps ==
    ASSUME AdminInv, NEW next, IsChange(next), op.kind # "none", Ended(next), Others,
           next = None \/ (next.kind \in {"list", "load"} /\ (next.kind \in Reading <=> op.kind \in Reading)),
           remote' \in Remotes, IsChange(orphan'),
           Resolves(orphan') => orphan'.addon \in Installed, IsBatch(batch'),
           schema' = schema \/ schema' = NoSchema,
           dialog' \in Dialogs, dialog'.addon # NoAddon => dialog'.open,
           IsChange(shown'), shown'.kind = "upgrade" => shown'.addon \in Installed /\ dialog'.open
    PROVE  AdminInv'
<1>0. None.kind = "none" /\ "list" \notin Reading /\ "load" \in Reading
  BY DEF None, Change, Reading
<1>1. /\ ~wizard /\ ~Upgrading /\ config.req # "apply" /\ page
      /\ op' = next /\ leases' = IF next = None THEN leases \ {"manager"} ELSE leases
      /\ leases = IF op.kind \in Reading THEN {} ELSE {"manager"}
  BY <1>0 DEF AdminInv, TurnsInv, UnderWay, Open, Upgrading, Ended
<1>2. schema' \in Schemas /\ ~Upgrading' /\ schema'.req = "none" /\ ~schema'.uncertain
  <2>1. CASE schema' = schema
    BY <1>1, <2>1 DEF AdminInv, AdminTypes, Upgrading, Schemas
  <2>2. CASE schema' = NoSchema
    BY <2>2 DEF NoSchema, Schemas, Upgrading
  <2> QED BY <2>1, <2>2
<1>3. AdminTypes'
  BY <1>0, <1>1, <1>2 DEF AdminInv, AdminTypes, Others
<1>4. UnderWay' = IF next = None \/ next.kind \in Reading THEN {} ELSE {"manager"}
  BY <1>0, <1>1, <1>2 DEF UnderWay, Open, Others
<1>5. leases' = UnderWay'
  BY <1>0, <1>1, <1>4
<1>6. TurnsInv'
  BY <1>0, <1>1, <1>2, <1>5 DEF AdminInv, TurnsInv, Others
<1> QED BY <1>3, <1>6 DEF AdminInv

LEMMA SentIs ==
    ASSUME AdminInv, Sends
    PROVE  After(op) \in Remotes /\ After(op).rev = remote.rev + 1
BY AfterIs DEF AdminInv, AdminTypes

\* What is said of a request that is not answered.
LEMMA UnsentIs ==
    ASSUME AdminInv, NEW r, IsChange(r), Resolves(r) => r.addon \in Installed,
           orphan' = orphan \/ Unsent(r)
    PROVE  IsChange(orphan') /\ (Resolves(orphan') => orphan'.addon \in Installed)
<1>1. orphan' = orphan \/ orphan' = r
  BY DEF Unsent
<1>2. IsChange(orphan) /\ (Resolves(orphan) => orphan.addon \in Installed)
  BY DEF AdminInv, AdminTypes
<1>3. CASE orphan' = orphan
  BY <1>2, <1>3
<1>4. CASE orphan' = r
  BY <1>4
<1> QED BY <1>1, <1>3, <1>4

\* The answers to the manager.
LEMMA AnswersKeep == ASSUME AdminInv, Answers PROVE AdminInv'
<1>0. /\ IsChange(None) /\ None.kind = "none" /\ None.addon = NoAddon /\ ~Resolves(None)
      /\ IsChange(Listing) /\ Listing.kind = "list"
  BY NoChange, ChangesAre DEF None, Change, Listing, Resolves
<1>t. /\ remote \in Remotes /\ IsChange(orphan) /\ (Resolves(orphan) => orphan.addon \in Installed)
      /\ IsBatch(batch) /\ dialog \in Dialogs /\ (dialog.addon # NoAddon => dialog.open)
      /\ IsChange(shown) /\ (shown.kind = "upgrade" => shown.addon \in Installed /\ dialog.open)
      /\ IsChange(op)
  BY DEF AdminInv, AdminTypes, TurnsInv
<1>1. CASE Listed
  <2>1. op.kind # "none" /\ Ended(None) /\ Others /\ UNCHANGED <<remote, orphan, batch, shown, dialog, schema>>
    BY <1>1 DEF Listed, Others, Elsewhere
  <2> QED BY <1>0, <1>t, <2>1, EndKeeps
<1>2. CASE Reviewed
  <2>1. /\ op.kind \in {"review", "stage"} /\ Ended(None) /\ Others /\ UNCHANGED <<orphan, batch>>
        /\ shown' = Change(Verdict(Issue(op.addon, op.to)), op.addon, op.to, remote.rev)
        /\ dialog' = [dialog EXCEPT !.addon = op.addon]
        /\ remote' = [remote EXCEPT !.receipt = "none"]
        /\ schema' = NoSchema
    BY <1>2 DEF Reviewed, Others
  <2>2. op.addon \in Installed /\ dialog.open /\ op.to \in 0..2 /\ remote.rev \in Nat
    BY <2>1 DEF AdminInv, AdminTypes, TurnsInv, IsChange, Remotes
  <2>3. IsChange(shown') /\ shown'.addon \in Installed
    <3> DEFINE k == Verdict(Issue(op.addon, op.to))
    <3>1. shown' = Change(k, op.addon, op.to, remote.rev)
      BY <2>1
    <3> HIDE DEF k
    <3> QED BY <2>2, <3>1, ChangesAre DEF Change
  <2>4. dialog' \in Dialogs /\ dialog'.open
    <3>1. PICK o, d, t : dialog = [open |-> o, addon |-> d, to |-> t]
      BY <1>t DEF Dialogs
    <3>2. dialog' = [open |-> o, addon |-> op.addon, to |-> t] /\ o = TRUE /\ t \in 0..2
      BY <1>t, <2>1, <2>2, <3>1 DEF Dialogs
    <3> QED BY <2>2, <3>2 DEF Dialogs
  <2>5. remote' \in Remotes
    BY <1>t, <2>1 DEF Remotes
  <2> QED BY <1>0, <1>t, <2>1, <2>3, <2>4, <2>5, EndKeeps
<1>3. CASE PanelReviewed
  <2>1. /\ op.kind # "none" /\ Ended(None) /\ Others /\ UNCHANGED <<remote, orphan, batch, dialog, schema>>
        /\ shown' = Change(IF op.kind = "disable-review" THEN "disable" ELSE "uninstall", op.addon, 0, remote.rev)
    BY <1>3 DEF PanelReviewed, Others, Elsewhere
  <2>2. op.addon \in Installed \cup {NoAddon} /\ remote.rev \in Nat
    BY <1>t DEF IsChange, Remotes
  <2>3. IsChange(shown') /\ shown'.kind # "upgrade"
    <3>1. PICK k \in {"disable", "uninstall"} : shown' = Change(k, op.addon, 0, remote.rev)
      BY <2>1
    <3> QED BY <2>2, <3>1, ChangesAre DEF Change
  <2> QED BY <1>0, <1>t, <2>1, <2>3, EndKeeps
<1>4. CASE ChangeHeard
  <2> DEFINE next == IF op.kind = "cancel" THEN [Listing EXCEPT !.kind = "load"] ELSE Listing
  <2>1. /\ op.kind \in {"reload", "cancel"} \/ Sends
        /\ Ended(next) /\ Others /\ UNCHANGED <<orphan, batch>> /\ schema' = NoSchema
        /\ remote' = IF Sends THEN After(op) ELSE remote
        /\ \/ dialog' = NoDialog /\ shown' = None
           \/ UNCHANGED <<dialog, shown>>
    BY <1>4 DEF ChangeHeard, Others
  <2>2. IsChange(next) /\ next.kind \in {"list", "load"} /\ (next.kind \in Reading <=> op.kind \in Reading)
    <3>1. CASE op.kind = "cancel"
      <4>1. next = Change("load", NoAddon, 0, 0)
        BY <3>1 DEF Listing, Change
      <4> HIDE DEF next
      <4>2. IsChange(next) /\ next.kind = "load"
        BY <4>1, ChangesAre DEF Change
      <4> QED BY <3>1, <4>2 DEF Reading
    <3>2. CASE op.kind # "cancel"
      <4>1. next = Listing
        BY <3>2
      <4> HIDE DEF next
      <4> QED BY <1>0, <2>1, <3>2, <4>1 DEF Sends, Panels, Reading
    <3> QED BY <3>1, <3>2
  <2> HIDE DEF next
  <2>3. op.kind # "none" /\ remote' \in Remotes
    BY <1>t, <2>1, SentIs DEF Sends, Panels
  <2>4. /\ dialog' \in Dialogs /\ (dialog'.addon # NoAddon => dialog'.open)
        /\ IsChange(shown') /\ (shown'.kind = "upgrade" => shown'.addon \in Installed /\ dialog'.open)
    <3>1. CASE dialog' = NoDialog /\ shown' = None
      BY <1>0, <3>1 DEF NoDialog, Dialogs
    <3>2. CASE UNCHANGED <<dialog, shown>>
      BY <1>t, <3>2
    <3> QED BY <2>1, <3>1, <3>2
  <2> QED BY <1>t, <2>1, <2>2, <2>3, <2>4, EndKeeps
<1>5. CASE OpFails
  <2>1. /\ op.kind # "none" /\ Ended(None) /\ Others /\ UNCHANGED <<batch, dialog>>
        /\ shown' = None /\ schema' = NoSchema
    BY <1>5 DEF OpFails, Others
  <2>2. remote' \in Remotes
    BY <1>5, <1>t, SentIs DEF OpFails
  <2>3. IsChange(orphan') /\ (Resolves(orphan') => orphan'.addon \in Installed)
    <3>1. orphan' = orphan \/ (Sends /\ Unsent(op))
      BY <1>5 DEF OpFails
    <3>2. Sends => ~Resolves(op)
      BY DEF Sends, Resolves, Panels
    <3> QED BY <1>t, <3>1, <3>2, UnsentIs
  <2> QED BY <1>0, <1>t, <2>1, <2>2, <2>3, EndKeeps
<1> QED BY <1>1, <1>2, <1>3, <1>4, <1>5 DEF Answers

\* The host changes, by itself or for an upgrade.
LEMMA HostsKeep == ASSUME AdminInv, Host \/ HostResolves PROVE AdminInv'
<1>t. /\ remote \in Remotes /\ IsChange(orphan) /\ (Resolves(orphan) => orphan.addon \in Installed)
      /\ IsBatch(batch) /\ IsChange(None) /\ ~Resolves(None)
  BY NoChange DEF AdminInv, AdminTypes, None, Change, Resolves
<1>0. /\ UNCHANGED <<page, op, shown, leases, git, dialog, wizard, schema, config, busy, batch>>
      /\ orphan' \in {orphan, None}
  BY DEF Host, OthersChange, PlayersSave, HostRecovers, OrphanArrives, HostResolves, Elsewhere
<1>1. CASE OthersChange
  BY <1>1, <1>0, <1>t, ChangedIs, ElsewhereKeeps DEF OthersChange, AdminInv
<1>2. CASE PlayersSave
  <2>1. PICK s \in {"old", "new"} : remote' = [remote EXCEPT !.saves = s, !.rev = @ + 1]
    BY <1>2 DEF PlayersSave
  <2>2. remote' \in Remotes
    <3>1. PICK a, u, p, w, c, n : remote = RemoteRec(a, u, p, w, c, n)
      BY <1>t DEF Remotes, RemoteRec
    <3> DEFINE m == n + 1
    <3>2. m \in Nat /\ remote.rev + 1 = m
      BY <1>t, <3>1 DEF Remotes, RemoteRec
    <3> HIDE DEF m
    <3>3. remote' = [remote EXCEPT !.saves = s, !.rev = m]
      BY <2>1, <3>2
    <3>4. remote' = RemoteRec(a, s, p, w, c, m)
      BY <3>1, <3>3 DEF RemoteRec
    <3> QED BY <1>t, <3>1, <3>2, <3>4 DEF Remotes, RemoteRec
  <2> QED BY <1>0, <1>t, <2>2, ElsewhereKeeps
<1>3. CASE HostRecovers
  <2>1. remote' \in Remotes
    <3> DEFINE base == Changed(Activating(Keeper, remote.was))
               receipt == IF base.receipt = "pending" THEN "failed" ELSE base.receipt
    <3>1. base \in Remotes
      BY <1>t, ActivatingIs, ChangedIs DEF AdminInv, Remotes
    <3>2. remote' = [base EXCEPT !.saves = "old", !.pending = FALSE, !.receipt = receipt]
      BY <1>3 DEF HostRecovers
    <3>3. receipt \in {"none", "applied", "failed", "pending"}
      BY <3>1 DEF Remotes
    <3> HIDE DEF base, receipt
    <3>4. PICK a, s, p, w, c, n : base = RemoteRec(a, s, p, w, c, n)
      BY <3>1 DEF Remotes, RemoteRec
    <3>5. a \in [Installed -> 0..2] /\ w \in 0..2 /\ n \in Nat
      BY <3>1, <3>4 DEF Remotes, RemoteRec
    <3>6. remote' = RemoteRec(a, "old", FALSE, w, receipt, n)
      BY <3>2, <3>4 DEF RemoteRec
    <3> QED BY <3>3, <3>5, <3>6 DEF Remotes, RemoteRec
  <2> QED BY <1>0, <1>t, <2>1, ElsewhereKeeps
<1>4. CASE OrphanArrives
  <2>1. \/ remote' = remote
        \/ Resolves(orphan) /\ remote' \in Resolutions(orphan)
        \/ remote' = After(orphan)
    BY <1>4 DEF OrphanArrives
  <2>2. remote' \in Remotes
    BY <1>t, <2>1, AfterIs, ResolutionsAre DEF AdminInv
  <2> QED BY <1>0, <1>t, <2>2, ElsewhereKeeps
<1>5. CASE HostResolves
  <2>1. schema.req = "apply" /\ remote' \in Resolutions(Resolution)
    BY <1>5 DEF HostResolves
  <2>2. shown.addon \in Installed /\ shown.to \in 0..2 /\ schema.rev \in Nat
    BY <2>1 DEF AdminInv, AdminTypes, TurnsInv, Upgrading, IsChange, Schemas
  <2>3. IsChange(Resolution) /\ Resolution.addon \in Installed
    BY <2>2, ChangesAre DEF Resolution, Change
  <2>4. remote' \in Remotes
    BY <2>1, <2>3, ResolutionsAre DEF AdminInv
  <2> QED BY <1>0, <1>t, <2>4, ElsewhereKeeps
<1> QED BY <1>1, <1>2, <1>3, <1>4, <1>5 DEF Host

\* The steps of Update all, written out.
BatchAfter(left, cur, round, progress, waiting, updated, failed) ==
    batch' = BatchRec(left, cur, round, progress, waiting, updated, failed, batch.rev)

LEMMA BatchSteps ==
    ASSUME AdminTypes
    PROVE  /\ \A a \in Installed : StageNext(a) =>
                 \/ BatchAfter(batch.left \ {a}, Change("staged", a, 2, 0), batch.round, batch.progress,
                               batch.waiting, batch.updated, batch.failed)
                 \/ BatchAfter(batch.left \ {a}, batch.cur, batch.round, batch.progress,
                               batch.waiting, batch.updated, batch.failed \cup {a})
           /\ \A a \in Installed : Retry(a) =>
                 BatchAfter(batch.left,
                            IF batch.waiting[a] = "blocked" THEN Change("staged", a, 2, 0) ELSE None,
                            batch.round \ {a}, batch.progress, batch.waiting, batch.updated, batch.failed)
           /\ ReviewNext =>
                 LET c == batch.cur IN
                 \/ /\ Issue(c.addon, 2) = "none"
                    /\ BatchAfter(batch.left, Change("activate", c.addon, 2, remote.rev), batch.round,
                                  batch.progress, batch.waiting, batch.updated, batch.failed)
                 \/ BatchAfter(batch.left, None, batch.round, batch.progress,
                               Waits(batch, c.addon, Issue(c.addon, 2)), batch.updated, batch.failed)
           /\ ActivateNext =>
                 BatchAfter(batch.left, None, batch.round, TRUE, Without(batch, batch.cur.addon),
                            batch.updated \cup {batch.cur.addon}, batch.failed)
           /\ AttemptFails =>
                 BatchAfter(batch.left, None, batch.round, batch.progress,
                            Waits(batch, batch.cur.addon, "failed"), batch.updated, batch.failed)
           /\ NextPass =>
                 BatchAfter(batch.left, batch.cur, DOMAIN batch.waiting, FALSE, batch.waiting,
                            batch.updated, batch.failed)
<1> DEFINE l == batch.left
           c == batch.cur
           r == batch.round
           p == batch.progress
           w == batch.waiting
           u == batch.updated
           f == batch.failed
           n == batch.rev
           b == BatchRec(l, c, r, p, w, u, f, n)
<1>0. /\ batch.left = l /\ batch.cur = c /\ batch.round = r /\ batch.progress = p
      /\ batch.waiting = w /\ batch.updated = u /\ batch.failed = f /\ batch.rev = n
      /\ batch = b /\ b = BatchRec(l, c, r, p, w, u, f, n)
  BY DEF AdminTypes, IsBatch
<1> HIDE DEF l, c, r, p, w, u, f, n, b
<1>1. ASSUME NEW a \in Installed, StageNext(a)
      PROVE  \/ batch' = BatchRec(l \ {a}, Change("staged", a, 2, 0), r, p, w, u, f, n)
             \/ batch' = BatchRec(l \ {a}, c, r, p, w, u, f \cup {a}, n)
  <2>1. CASE batch' = [batch EXCEPT !.left = batch.left \ {a}, !.cur = Change("staged", a, 2, 0)]
    <3> DEFINE d == Change("staged", a, 2, 0)
    <3> HIDE DEF d
    <3>1. batch' = [b EXCEPT !.left = l \ {a}, !.cur = d]
      BY <1>0, <2>1 DEF d
    <3>2. batch' = BatchRec(l \ {a}, d, r, p, w, u, f, n)
      BY <3>1 DEF b, BatchRec
    <3> QED BY <1>0, <1>1, <3>2 DEF StageNext, d
  <2>2. CASE batch' = [batch EXCEPT !.left = batch.left \ {a}, !.failed = batch.failed \cup {a}]
    <3>1. batch' = [b EXCEPT !.left = l \ {a}, !.failed = f \cup {a}]
      BY <1>0, <2>2
    <3>2. batch' = BatchRec(l \ {a}, c, r, p, w, u, f \cup {a}, n)
      BY <3>1 DEF b, BatchRec
    <3> QED BY <1>0, <1>1, <3>2 DEF StageNext
  <2> QED BY <1>1, <2>1, <2>2 DEF StageNext
<1>2. ASSUME NEW a \in Installed, Retry(a)
      PROVE  batch' = BatchRec(l, IF w[a] = "blocked" THEN Change("staged", a, 2, 0) ELSE None,
                                  r \ {a}, p, w, u, f, n)
  <2> DEFINE d == IF w[a] = "blocked" THEN Change("staged", a, 2, 0) ELSE None
  <2>0. batch' = [batch EXCEPT !.round = batch.round \ {a}, !.cur = d]
    BY <1>0, <1>2 DEF Retry
  <2> HIDE DEF d
  <2>1. batch' = [b EXCEPT !.round = r \ {a}, !.cur = d]
    BY <1>0, <2>0
  <2>2. batch' = BatchRec(l, d, r \ {a}, p, w, u, f, n)
    BY <2>1 DEF b, BatchRec
  <2> QED BY <1>0, <1>2, <2>2 DEF Retry, d
<1>3. ASSUME ReviewNext
      PROVE  \/ /\ Issue(c.addon, 2) = "none"
                /\ batch' = BatchRec(l, Change("activate", c.addon, 2, remote.rev), r, p, w, u, f, n)
             \/ batch' = BatchRec(l, None, r, p, Waits(batch, c.addon, Issue(c.addon, 2)), u, f, n)
  <2>1. CASE Issue(c.addon, 2) = "none"
    <3> DEFINE d == Change("activate", c.addon, 2, remote.rev)
    <3>0. batch' = [batch EXCEPT !.cur = d]
      BY <1>0, <1>3, <2>1 DEF ReviewNext
    <3> HIDE DEF d
    <3>1. batch' = [b EXCEPT !.cur = d]
      BY <1>0, <3>0
    <3>2. batch' = BatchRec(l, d, r, p, w, u, f, n)
      BY <3>1 DEF b, BatchRec
    <3> QED BY <1>0, <1>3, <2>1, <3>2 DEF ReviewNext, d
  <2>2. CASE Issue(c.addon, 2) # "none"
    <3> DEFINE x == Waits(batch, c.addon, Issue(c.addon, 2))
    <3>0. batch' = [batch EXCEPT !.cur = None, !.waiting = x]
      BY <1>0, <1>3, <2>2 DEF ReviewNext
    <3> HIDE DEF x
    <3>1. batch' = [b EXCEPT !.cur = None, !.waiting = x]
      BY <1>0, <3>0
    <3>2. batch' = BatchRec(l, None, r, p, x, u, f, n)
      BY <3>1 DEF b, BatchRec
    <3> QED BY <1>0, <1>3, <3>2 DEF ReviewNext, x
  <2> QED BY <2>1, <2>2
<1>4. ASSUME ActivateNext
      PROVE  batch' = BatchRec(l, None, r, TRUE, Without(batch, c.addon), u \cup {c.addon}, f, n)
  <2> DEFINE x == Without(batch, c.addon)
             y == u \cup {c.addon}
  <2>0. batch' = [batch EXCEPT !.cur = None, !.updated = y, !.waiting = x, !.progress = TRUE]
    BY <1>0, <1>4 DEF ActivateNext, Updated
  <2> HIDE DEF x, y
  <2>1. batch' = [b EXCEPT !.cur = None, !.updated = y, !.waiting = x, !.progress = TRUE]
    BY <1>0, <2>0
  <2>2. batch' = BatchRec(l, None, r, TRUE, x, y, f, n)
    BY <2>1 DEF b, BatchRec
  <2> QED BY <1>0, <1>4, <2>2 DEF ActivateNext, x, y
<1>5. ASSUME AttemptFails
      PROVE  batch' = BatchRec(l, None, r, p, Waits(batch, c.addon, "failed"), u, f, n)
  <2> DEFINE x == Waits(batch, c.addon, "failed")
  <2>0. batch' = [batch EXCEPT !.cur = None, !.waiting = x]
    BY <1>0, <1>5 DEF AttemptFails
  <2> HIDE DEF x
  <2>1. batch' = [b EXCEPT !.cur = None, !.waiting = x]
    BY <1>0, <2>0
  <2>2. batch' = BatchRec(l, None, r, p, x, u, f, n)
    BY <2>1 DEF b, BatchRec
  <2> QED BY <1>0, <1>5, <2>2 DEF AttemptFails, x
<1>6. ASSUME NextPass
      PROVE  batch' = BatchRec(l, c, DOMAIN w, FALSE, w, u, f, n)
  <2>0. batch' = [batch EXCEPT !.round = DOMAIN w, !.progress = FALSE]
    BY <1>0, <1>6 DEF NextPass
  <2>1. batch' = [b EXCEPT !.round = DOMAIN w, !.progress = FALSE]
    BY <1>0, <2>0
  <2>2. batch' = BatchRec(l, c, DOMAIN w, FALSE, w, u, f, n)
    BY <2>1 DEF b, BatchRec
  <2> QED BY <1>0, <1>6, <2>2 DEF NextPass
<1> QED BY <1>0, <1>1, <1>2, <1>3, <1>4, <1>5, <1>6 DEF BatchAfter

\* Update all goes on, or ends.
LEMMA BatchesKeep == ASSUME AdminInv, Batches PROVE AdminInv'
<1>t. /\ remote \in Remotes /\ IsChange(orphan) /\ (Resolves(orphan) => orphan.addon \in Installed)
      /\ IsBatch(batch) /\ IsChange(None) /\ dialog \in Dialogs /\ (dialog.addon # NoAddon => dialog.open)
      /\ IsChange(shown) /\ (shown.kind = "upgrade" => shown.addon \in Installed /\ dialog.open)
      /\ AdminTypes
  BY NoChange DEF AdminInv, AdminTypes, TurnsInv
<1>1. ASSUME Batching, remote' \in Remotes, IsBatch(batch') PROVE AdminInv'
  BY <1>t, <1>1, ElsewhereKeeps DEF Batching, Elsewhere
<1>2. ASSUME NEW l, NEW c, NEW r, NEW p, NEW w, NEW u, NEW f, BatchAfter(l, c, r, p, w, u, f), IsChange(c)
      PROVE  IsBatch(batch')
  BY <1>2 DEF BatchAfter, IsBatch, BatchRec
<1>3. IsChange(batch.cur) /\ batch.cur.addon \in Installed \cup {NoAddon}
  BY <1>t DEF IsBatch, IsChange
<1>4. ASSUME NEW a \in Installed, StageNext(a) PROVE AdminInv'
  <2>1. Batching /\ remote' = remote
    BY <1>4 DEF StageNext
  <2>2. IsChange(Change("staged", a, 2, 0))
    BY ChangesAre
  <2>3. IsBatch(batch')
    BY <1>2, <1>3, <1>4, <1>t, <2>2, BatchSteps
  <2> QED BY <1>1, <1>t, <2>1, <2>3
<1>5. ASSUME NEW a \in Installed, Retry(a) PROVE AdminInv'
  <2>1. Batching /\ remote' = remote
    BY <1>5 DEF Retry
  <2> DEFINE d == IF batch.waiting[a] = "blocked" THEN Change("staged", a, 2, 0) ELSE None
  <2>2. IsChange(d)
    BY <1>t, ChangesAre
  <2>3. BatchAfter(batch.left, d, batch.round \ {a}, batch.progress, batch.waiting, batch.updated, batch.failed)
    BY <1>5, <1>t, BatchSteps
  <2> HIDE DEF d
  <2>4. IsBatch(batch')
    BY <1>2, <2>2, <2>3
  <2> QED BY <1>1, <1>t, <2>1, <2>4
<1>6. CASE ReviewNext
  <2>1. Batching /\ remote' = remote
    BY <1>6 DEF ReviewNext
  <2>2. IsChange(Change("activate", batch.cur.addon, 2, remote.rev))
    BY <1>3, <1>t, ChangesAre DEF Remotes
  <2>3. IsBatch(batch')
    BY <1>2, <1>6, <1>t, <2>2, BatchSteps
  <2> QED BY <1>1, <1>t, <2>1, <2>3
<1>7. CASE ActivateNext
  <2>1. Batching /\ remote' = After(batch.cur)
    BY <1>7 DEF ActivateNext
  <2>2. remote' \in Remotes
    BY <1>3, <1>t, <2>1, AfterIs
  <2>3. IsBatch(batch')
    BY <1>2, <1>7, <1>t, BatchSteps
  <2> QED BY <1>1, <2>1, <2>2, <2>3
<1>8. CASE AttemptFails
  <2>1. Batching /\ remote' \in {remote, After(batch.cur)}
    BY <1>8 DEF AttemptFails
  <2>2. remote' \in Remotes
    BY <1>3, <1>t, <2>1, AfterIs
  <2>3. IsBatch(batch')
    BY <1>2, <1>8, <1>t, BatchSteps
  <2> QED BY <1>1, <2>1, <2>2, <2>3
<1>9. CASE NextPass
  <2>1. Batching /\ remote' = remote
    BY <1>9 DEF NextPass
  <2>2. IsBatch(batch')
    BY <1>2, <1>3, <1>9, <1>t, BatchSteps
  <2> QED BY <1>1, <1>t, <2>1, <2>2
<1>10. CASE Summary
  <2>1. /\ op.kind = "batch" /\ Ended(Listing) /\ Others /\ batch' = NoBatch
        /\ UNCHANGED <<remote, orphan, dialog, shown, schema>>
    BY <1>10 DEF Summary, Others, Elsewhere
  <2>2. IsChange(Listing) /\ Listing.kind = "list" /\ "list" \notin Reading /\ "batch" \notin Reading
    BY ChangesAre DEF Listing, Change, Reading
  <2> QED BY <1>t, <2>1, <2>2, NoBatchIs, EndKeeps
<1> QED BY <1>4, <1>5, <1>6, <1>7, <1>8, <1>9, <1>10 DEF Batches

\* The steps of an upgrade leave the rest of the page where it is.
LEMMA UpgradeKeeps ==
    ASSUME AdminInv, op = None, ~git, shown.kind = "upgrade", NEW v \in BOOLEAN, Holds(v),
           schema' \in Schemas, v <=> (schema'.req # "none" \/ schema'.uncertain),
           schema'.req = "prepare" => ~schema'.uncertain,
           schema'.req = "apply" \/ schema'.uncertain => schema'.rev # 0,
           UNCHANGED <<remote, page, op, batch, git, dialog, wizard, shown, config>>,
           IsChange(orphan'), Resolves(orphan') => orphan'.addon \in Installed
    PROVE  AdminInv'
<1>0. None.kind = "none"
  BY DEF None, Change
<1>1. dialog.open /\ page /\ config.req # "apply" /\ ~wizard
  BY <1>0 DEF AdminInv, AdminTypes, TurnsInv
<1>2. busy'.install = v /\ busy'.config = busy.config /\ busy' \in Flags
  BY DEF Holds, AdminInv, AdminTypes, Flags
<1>3. leases \subseteq {"schema"}
  BY <1>0, <1>1 DEF AdminInv, TurnsInv, UnderWay
<1>4. UnderWay' = (IF v THEN {"schema"} ELSE {})
  <2>1. op' = None /\ ~wizard' /\ config' = config
    BY <1>1
  <2>2. UnderWay' = IF schema'.uncertain \/ schema'.req = "apply" \/ schema'.req = "prepare" THEN {"schema"} ELSE {}
    BY <1>0, <1>1, <2>1 DEF UnderWay, Open
  <2>3. schema'.req \in {"none", "prepare", "apply"}
    BY DEF Schemas
  <2> QED BY <2>2, <2>3
<1>5. leases' = UnderWay'
  BY <1>3, <1>4 DEF Holds
<1>6. Upgrading' <=> v
  BY DEF Upgrading
<1>7. AdminTypes'
  BY <1>2 DEF AdminInv, AdminTypes
<1>8. TurnsInv'
  BY <1>0, <1>1, <1>2, <1>5, <1>6 DEF AdminInv, TurnsInv
<1> QED BY <1>7, <1>8 DEF AdminInv

LEMMA ResolutionIs ==
    ASSUME AdminInv, Upgrading
    PROVE  IsChange(Resolution) /\ Resolution.addon \in Installed
<1>1. shown.addon \in Installed /\ shown.to \in 0..2 /\ schema.rev \in Nat
  BY DEF AdminInv, AdminTypes, TurnsInv, IsChange, Schemas
<1> QED BY <1>1, ChangesAre DEF Resolution, Change

\* The saved-data upgrade.
LEMMA UpgradesKeep ==
    ASSUME AdminInv,
           \/ Prepare \/ Prepared \/ \E action \in {"heal", "remove"} : Confirm(action)
           \/ CheckResult \/ Resolved
    PROVE  AdminInv'
<1>t. /\ schema \in Schemas /\ IsChange(orphan) /\ (Resolves(orphan) => orphan.addon \in Installed)
      /\ remote \in Remotes /\ remote.rev \in Nat
      /\ (schema.req = "prepare" => ~schema.uncertain)
      /\ (schema.req = "apply" \/ schema.uncertain => schema.rev # 0)
      /\ (Upgrading => op = None /\ ~git /\ shown.kind = "upgrade")
  BY DEF AdminInv, AdminTypes, TurnsInv, Remotes
<1>s. PICK o, q, m, k, i, e : schema = [open |-> o, req |-> q, rev |-> m, action |-> k, uncertain |-> i, refresh |-> e]
  BY <1>t DEF Schemas
<1>v. o \in BOOLEAN /\ q \in {"none", "prepare", "apply"} /\ m \in Nat /\ k \in {"none", "heal", "remove"} /\ i \in BOOLEAN /\ e \in BOOLEAN
  BY <1>s, <1>t DEF Schemas
<1>1. CASE Prepare
  <2>1. schema' = [open |-> TRUE, req |-> "prepare", rev |-> m, action |-> k, uncertain |-> i, refresh |-> e]
    BY <1>1, <1>s DEF Prepare
  <2>2. schema' \in Schemas /\ schema'.req = "prepare" /\ ~schema'.uncertain
    BY <1>1, <1>s, <1>t, <1>v, <2>1 DEF Prepare, Schemas
  <2>3. /\ op = None /\ ~git /\ shown.kind = "upgrade" /\ Holds(TRUE)
        /\ UNCHANGED <<remote, orphan, page, op, batch, git, dialog, wizard, shown, config>>
    BY <1>1 DEF Prepare, Ready, Upgrade
  <2> QED BY <1>t, <2>2, <2>3, UpgradeKeeps
<1>2. CASE Prepared
  <2>1. \/ schema' = [open |-> o, req |-> "none", rev |-> remote.rev, action |-> k, uncertain |-> i, refresh |-> e]
        \/ schema' = [open |-> o, req |-> "none", rev |-> m, action |-> k, uncertain |-> i, refresh |-> TRUE]
        \/ schema' = [open |-> o, req |-> "none", rev |-> m, action |-> k, uncertain |-> i, refresh |-> e]
    BY <1>2, <1>s DEF Prepared
  <2>2. schema' \in Schemas /\ schema'.req = "none" /\ ~schema'.uncertain
    BY <1>2, <1>s, <1>t, <1>v, <2>1 DEF Prepared, Schemas
  <2>3. /\ op = None /\ ~git /\ shown.kind = "upgrade" /\ Holds(FALSE)
        /\ UNCHANGED <<remote, orphan, page, op, batch, git, dialog, wizard, shown, config>>
    BY <1>2, <1>t DEF Prepared, Upgrading, Upgrade
  <2> QED BY <1>t, <2>2, <2>3, UpgradeKeeps
<1>3. ASSUME NEW action \in {"heal", "remove"}, Confirm(action) PROVE AdminInv'
  <2>1. schema' = [open |-> o, req |-> "apply", rev |-> m, action |-> action, uncertain |-> i, refresh |-> e]
    BY <1>3, <1>s DEF Confirm
  <2>2. schema' \in Schemas /\ schema'.req = "apply" /\ schema'.rev # 0
    BY <1>3, <1>s, <1>t, <1>v, <2>1 DEF Confirm, Schemas
  <2>3. /\ op = None /\ ~git /\ shown.kind = "upgrade" /\ Holds(TRUE)
        /\ UNCHANGED <<remote, orphan, page, op, batch, git, dialog, wizard, shown, config>>
    BY <1>3 DEF Confirm, Ready, Upgrade
  <2> QED BY <1>t, <2>2, <2>3, UpgradeKeeps
<1>4. CASE CheckResult
  <2>1. schema' = [open |-> o, req |-> "apply", rev |-> m, action |-> k, uncertain |-> i, refresh |-> e]
    BY <1>4, <1>s DEF CheckResult
  <2>2. schema' \in Schemas /\ schema'.req = "apply" /\ schema'.rev # 0
    BY <1>4, <1>s, <1>t, <1>v, <2>1 DEF CheckResult, Schemas
  <2>3. /\ op = None /\ ~git /\ shown.kind = "upgrade" /\ Holds(TRUE)
        /\ UNCHANGED <<remote, orphan, page, op, batch, git, dialog, wizard, shown, config>>
    BY <1>4 DEF CheckResult, Ready, Upgrade
  <2> QED BY <1>t, <2>2, <2>3, UpgradeKeeps
<1>5. CASE ResolutionUnknown
  <2>1. schema' = [open |-> o, req |-> "none", rev |-> m, action |-> k, uncertain |-> TRUE, refresh |-> e]
    BY <1>5, <1>s DEF ResolutionUnknown, Unknown
  <2>2. schema' \in Schemas /\ schema'.req = "none" /\ schema'.uncertain /\ schema'.rev # 0
    BY <1>5, <1>s, <1>t, <1>v, <2>1 DEF ResolutionUnknown, Schemas
  <2>3. /\ op = None /\ ~git /\ shown.kind = "upgrade" /\ Holds(schema'.uncertain)
        /\ UNCHANGED <<remote, page, op, batch, git, dialog, wizard, shown, config>>
        /\ (orphan' = orphan \/ Unsent(Resolution))
        /\ Upgrading
    BY <1>5, <1>t DEF ResolutionUnknown, Upgrading
  <2>4. IsChange(orphan') /\ (Resolves(orphan') => orphan'.addon \in Installed)
    BY <2>3, ResolutionIs, UnsentIs
  <2>5. schema'.uncertain \in BOOLEAN
    BY <2>2 DEF Schemas
  <2> QED BY <2>2, <2>3, <2>4, <2>5, UpgradeKeeps
<1>6. CASE ResolutionRefused
  <2>1. PICK again \in BOOLEAN :
           schema' = [open |-> o, req |-> "none", rev |-> 0, action |-> "none", uncertain |-> FALSE, refresh |-> again]
    BY <1>6, <1>s DEF ResolutionRefused
  <2>2. schema' \in Schemas /\ schema'.req = "none" /\ ~schema'.uncertain
    BY <1>v, <2>1 DEF Schemas
  <2>3. /\ op = None /\ ~git /\ shown.kind = "upgrade" /\ Holds(FALSE)
        /\ UNCHANGED <<remote, orphan, page, op, batch, git, dialog, wizard, shown, config>>
    BY <1>6, <1>t DEF ResolutionRefused, Upgrading, Upgrade
  <2> QED BY <1>t, <2>2, <2>3, UpgradeKeeps
<1>7. CASE Applied
  <2>0. /\ None.kind = "none" /\ IsChange(None) /\ IsChange(Listing) /\ Listing.kind = "list" /\ "list" \notin Reading
    BY NoChange, ChangesAre DEF None, Change, Listing, Reading
  <2>1. /\ schema.req = "apply" /\ schema' = NoSchema /\ dialog' = NoDialog /\ shown' = None
        /\ busy'.install = FALSE /\ busy'.config = busy.config /\ busy' \in Flags
        /\ op' = Listing /\ leases' = (leases \ {"schema"}) \cup {"manager"}
        /\ UNCHANGED <<remote, orphan, page, batch, git, wizard, config>>
    BY <1>7 DEF Applied, AdminInv, AdminTypes, Flags
  <2>2. op = None /\ ~git /\ shown.kind = "upgrade" /\ ~wizard /\ config.req # "apply" /\ page
    BY <1>t, <2>0, <2>1 DEF Upgrading, AdminInv, AdminTypes, TurnsInv
  <2>3. leases = {"schema"}
    BY <2>0, <2>1, <2>2 DEF AdminInv, TurnsInv, UnderWay, Open
  <2>4. schema' \in Schemas /\ schema'.req = "none" /\ ~schema'.uncertain
    BY <2>1 DEF NoSchema, Schemas
  <2>5. dialog' \in Dialogs /\ dialog'.addon = NoAddon
    BY <2>1 DEF NoDialog, Dialogs
  <2>6. AdminTypes'
    BY <2>0, <2>1, <2>4, <2>5 DEF AdminInv, AdminTypes
  <2>7. UnderWay' = {"manager"} /\ ~Upgrading' /\ leases' = {"manager"}
    BY <2>0, <2>1, <2>2, <2>3, <2>4 DEF UnderWay, Open, Upgrading
  <2>8. TurnsInv'
    BY <2>0, <2>1, <2>2, <2>4, <2>5, <2>7 DEF AdminInv, TurnsInv
  <2> QED BY <2>6, <2>8 DEF AdminInv
<1> QED BY <1>1, <1>2, <1>3, <1>4, <1>5, <1>6, <1>7 DEF Resolved

\* The configuration.
LEMMA ConfigsKeep ==
    ASSUME AdminInv, ConfigLoads \/ ConfigReviews \/ ConfigApplies \/ ConfigAnswers
    PROVE  AdminInv'
<1>t. /\ None.kind = "none" /\ IsChange(None)
      /\ config \in Configs /\ remote \in Remotes /\ remote.rev \in Nat /\ config.rev \in Nat
  BY NoChange DEF AdminInv, AdminTypes, Remotes, Configs, None, Change
<1>s. PICK q, m, v : config = [req |-> q, rev |-> m, review |-> v]
  BY <1>t DEF Configs
<1>v. q \in {"none", "load", "apply"} /\ m \in Nat /\ v \in BOOLEAN
  BY <1>s, <1>t DEF Configs
<1>1. ASSUME config' \in Configs, config.req # "apply", config'.req # "apply",
             UNCHANGED <<orphan, page, op, batch, git, dialog, wizard, schema, remote, shown, leases, busy>>
      PROVE  AdminInv'
  <2>1. UnderWay' = UnderWay /\ Upgrading' = Upgrading
    BY <1>1 DEF UnderWay, Open, Upgrading
  <2>2. AdminTypes'
    BY <1>1 DEF AdminInv, AdminTypes
  <2>3. TurnsInv'
    BY <1>1, <2>1 DEF AdminInv, TurnsInv
  <2> QED BY <2>2, <2>3 DEF AdminInv
<1>2. CASE ConfigLoads
  <2>1. config' = [req |-> "load", rev |-> m, review |-> v] /\ config.req # "apply"
    BY <1>2, <1>s DEF ConfigLoads, Unblocked
  <2>2. config' \in Configs /\ config'.req # "apply"
    BY <1>v, <2>1 DEF Configs
  <2> QED BY <1>1, <1>2, <2>1, <2>2 DEF ConfigLoads, Configures
<1>3. CASE ConfigLoaded
  <2>1. \/ config' = [req |-> "none", rev |-> remote.rev, review |-> v]
        \/ config' = [req |-> "none", rev |-> m, review |-> FALSE]
    BY <1>3, <1>s DEF ConfigLoaded
  <2>2. config' \in Configs /\ config'.req = "none"
    <3>1. CASE config' = [req |-> "none", rev |-> remote.rev, review |-> v]
      BY <1>t, <1>v, <3>1 DEF Configs
    <3>2. CASE config' = [req |-> "none", rev |-> m, review |-> FALSE]
      BY <1>v, <3>2 DEF Configs
    <3> QED BY <2>1, <3>1, <3>2
  <2>3. config.req # "apply"
    BY <1>3 DEF ConfigLoaded
  <2> QED BY <1>1, <1>3, <2>2, <2>3 DEF ConfigLoaded, Configures
<1>4. CASE ConfigReviews
  <2>1. config' = [config EXCEPT !.review = ~v] /\ config.req # "apply"
    BY <1>4, <1>s DEF ConfigReviews, Unblocked
  <2>2. CASE v = TRUE
    <3>1. config' = [req |-> q, rev |-> m, review |-> FALSE]
      BY <1>s, <2>1, <2>2
    <3>2. config' \in Configs /\ config'.req # "apply"
      BY <1>s, <1>v, <2>1, <3>1 DEF Configs
    <3> QED BY <1>1, <1>4, <2>1, <3>2 DEF ConfigReviews, Configures
  <2>3. CASE v = FALSE
    <3>1. config' = [req |-> q, rev |-> m, review |-> TRUE]
      BY <1>s, <2>1, <2>3
    <3>2. config' \in Configs /\ config'.req # "apply"
      BY <1>s, <1>v, <2>1, <3>1 DEF Configs
    <3> QED BY <1>1, <1>4, <2>1, <3>2 DEF ConfigReviews, Configures
  <2> QED BY <1>v, <2>2, <2>3
<1>5. CASE ConfigApplies
  <2>1. /\ page /\ config.req = "none" /\ op = None /\ ~git /\ ~busy.install /\ ~dialog.open
        /\ leases' = leases \cup {"config"} /\ (shown' = shown \/ shown' = None)
        /\ busy'.install = busy.install /\ busy'.config = TRUE /\ busy' \in Flags
        /\ UNCHANGED <<remote, orphan, page, op, batch, git, dialog, wizard, schema>>
    BY <1>5 DEF ConfigApplies, Unblocked, Configures, AdminInv, AdminTypes, Flags
  <2>2. config' = [req |-> "apply", rev |-> m, review |-> v]
    BY <1>5, <1>s DEF ConfigApplies
  <2>3. config' \in Configs /\ config'.req = "apply"
    BY <1>v, <2>2 DEF Configs
  <2>4. ~wizard /\ ~Upgrading /\ schema.req = "none" /\ ~schema.uncertain
    BY <2>1 DEF AdminInv, TurnsInv, Upgrading
  <2>5. UnderWay = {} /\ UnderWay' = {"config"} /\ ~Upgrading'
    BY <1>t, <2>1, <2>3, <2>4 DEF UnderWay, Open, Upgrading
  <2>6. AdminTypes'
    BY <1>t, <2>1, <2>3 DEF AdminInv, AdminTypes
  <2>7. TurnsInv'
    BY <1>t, <2>1, <2>3, <2>4, <2>5 DEF AdminInv, TurnsInv
  <2> QED BY <2>6, <2>7 DEF AdminInv
<1>6. ASSUME NEW req \in {"load", "none"}, ConfigDone(req), remote' \in Remotes PROVE AdminInv'
  <2>1. /\ config.req = "apply" /\ leases' = leases \ {"config"}
        /\ busy'.install = busy.install /\ busy'.config = FALSE /\ busy' \in Flags
        /\ UNCHANGED <<orphan, page, op, batch, git, dialog, wizard, schema, shown>>
    BY <1>6 DEF ConfigDone, Configures, AdminInv, AdminTypes, Flags
  <2>2. config' = [req |-> req, rev |-> m, review |-> FALSE]
    BY <1>6, <1>s DEF ConfigDone
  <2>3. config' \in Configs /\ config'.req # "apply"
    BY <1>v, <2>2 DEF Configs
  <2>4. op = None /\ ~git /\ ~dialog.open /\ ~wizard /\ ~Upgrading /\ schema.req = "none" /\ ~schema.uncertain
    BY <2>1 DEF AdminInv, TurnsInv, Upgrading
  <2>5. UnderWay = {"config"} /\ UnderWay' = {} /\ ~Upgrading'
    BY <1>t, <2>1, <2>3, <2>4 DEF UnderWay, Open, Upgrading
  <2>6. AdminTypes'
    BY <1>6, <2>1, <2>3 DEF AdminInv, AdminTypes
  <2>7. TurnsInv'
    BY <1>t, <2>1, <2>3, <2>4, <2>5 DEF AdminInv, TurnsInv
  <2> QED BY <2>6, <2>7 DEF AdminInv
<1>7. CASE ConfigApplied \/ ConfigFails
  <2>1. IsChange(Configuring)
    <3>1. NoAddon \in Installed \cup {NoAddon} /\ 0 \in 0..2
      OBVIOUS
    <3> QED BY <1>t, <3>1, ChangesAre DEF Configuring
  <2>2. remote' = remote \/ remote' = After(Configuring)
    BY <1>7 DEF ConfigApplied, ConfigFails
  <2>3. remote' \in Remotes
    BY <1>t, <2>1, <2>2, AfterIs DEF AdminInv
  <2> QED BY <1>6, <1>7, <2>3 DEF ConfigApplied, ConfigFails
<1> QED BY <1>2, <1>3, <1>4, <1>5, <1>7 DEF ConfigAnswers

\* One inductive step.
LEMMA AdminStep == ASSUME AdminInv, [AdminNext]_adminVars PROVE AdminInv'
<1>1. CASE AdminNext
  BY <1>1, HostsKeep, AnswersKeep, BatchesKeep, PageKeeps, UpgradesKeep, ConfigsKeep, AsksKeep
     DEF AdminNext, AdminActs
<1>2. CASE UNCHANGED adminVars
  <2>1. UnderWay' = UnderWay /\ Upgrading' = Upgrading
    BY <1>2 DEF UnderWay, Open, Upgrading, adminVars
  <2>2. AdminTypes'
    BY <1>2 DEF AdminInv, AdminTypes, adminVars
  <2>3. TurnsInv'
    BY <1>2, <2>1 DEF AdminInv, TurnsInv, adminVars
  <2> QED BY <2>2, <2>3 DEF AdminInv
<1> QED BY <1>1, <1>2

LEMMA AdminAlways == AdminSpec => []AdminInv
<1>1. AdminInit => AdminInv
  BY InitAdmin
<1>2. AdminInv /\ [AdminNext]_adminVars => AdminInv'
  BY AdminStep
<1> QED BY <1>1, <1>2, PTL DEF AdminSpec

\* The elements of the page each look at their own flags, and at the two the others report;
\* together that leaves one of them at work, and that one alone holds the app busy.
THEOREM OnePageChangeAtATime == AdminSpec => []OneChangeAtATime
<1>1. AdminInv => OneChangeAtATime
  <2> SUFFICES ASSUME AdminInv PROVE OneChangeAtATime
    OBVIOUS
  <2>0. None.kind = "none"
    BY DEF None, Change
  <2>1. \/ UnderWay = {} \/ \E x : UnderWay = {x}
    BY <2>0 DEF AdminInv, TurnsInv, UnderWay, Open, Upgrading
  <2>2. CASE UnderWay = {}
    BY <2>2, FS_EmptySet DEF OneChangeAtATime, AdminInv, TurnsInv
  <2>3. CASE \E x : UnderWay = {x}
    <3>1. PICK x : UnderWay = {x}
      BY <2>3
    <3>2. Cardinality(UnderWay) = 1
      BY <3>1, FS_Singleton
    <3> QED BY <3>2 DEF OneChangeAtATime, AdminInv, TurnsInv
  <2> QED BY <2>1, <2>2, <2>3
<1> QED BY <1>1, AdminAlways, PTL

-----------------------------------------------------------------------------
(* Update all.                                                             *)

LEMMA HostMoves ==
    ASSUME AdminInv, Host
    PROVE  remote' = remote \/ remote'.rev = remote.rev + 1
<1>t. AdminTypes /\ remote \in Remotes /\ remote.rev \in Nat /\ IsChange(orphan)
      /\ (Resolves(orphan) => orphan.addon \in Installed)
  BY DEF AdminInv, AdminTypes, Remotes
<1>1. CASE OthersChange
  BY <1>1, <1>t, ChangedIs DEF OthersChange
<1>2. CASE PlayersSave
  <2>1. PICK s : remote' = [remote EXCEPT !.saves = s, !.rev = @ + 1]
    BY <1>2 DEF PlayersSave
  <2> QED BY <1>t, <2>1 DEF Remotes
<1>3. CASE HostRecovers
  <2> DEFINE base == Changed(Activating(Keeper, remote.was))
             receipt == IF base.receipt = "pending" THEN "failed" ELSE base.receipt
  <2>1. base \in Remotes /\ base.rev = remote.rev + 1
    BY <1>t, ActivatingIs, ChangedIs DEF Remotes
  <2>2. remote' = [base EXCEPT !.saves = "old", !.pending = FALSE, !.receipt = receipt]
    BY <1>3 DEF HostRecovers
  <2> HIDE DEF base, receipt
  <2> QED BY <2>1, <2>2 DEF Remotes
<1>4. CASE OrphanArrives
  <2>1. \/ remote' = remote
        \/ Resolves(orphan) /\ remote' \in Resolutions(orphan)
        \/ remote' = After(orphan)
    BY <1>4 DEF OrphanArrives
  <2> QED BY <1>t, <2>1, AfterIs, ResolutionsAre
<1> QED BY <1>1, <1>2, <1>3, <1>4 DEF Host

BatchGoes ==
    \/ \E a \in Installed : StageNext(a) \/ Retry(a)
    \/ ReviewNext \/ ActivateNext \/ AttemptFails \/ NextPass

\* While Update all runs, only it and others change the host; and only its summary ends it.
LEMMA WhatRuns ==
    ASSUME AdminInv, AdminNext
    PROVE  /\ op'.kind = "batch" =>
                 \/ \E targets \in SUBSET Installed : UpdateAll(targets)
                 \/ op' = op /\ (BatchGoes \/ (batch' = batch /\ (Host \/ remote' = remote)))
           /\ op.kind = "batch" /\ op'.kind = "list" => Summary
<1> DEFINE Goal == /\ op'.kind = "batch" =>
                         \/ \E targets \in SUBSET Installed : UpdateAll(targets)
                         \/ op' = op /\ (BatchGoes \/ (batch' = batch /\ (Host \/ remote' = remote)))
                   /\ op.kind = "batch" /\ op'.kind = "list" => Summary
<1>0. /\ None.kind = "none" /\ Listing.kind = "list"
      /\ (Upgrading \/ config.req = "apply" => op = None)
  BY DEF None, Listing, Change, AdminInv, TurnsInv
<1>1. ASSUME NEW r, op' = r, r.kind \notin {"batch", "list"} PROVE Goal
  BY <1>1
<1>2. CASE Host
  BY <1>2 DEF Host, OthersChange, PlayersSave, HostRecovers, OrphanArrives
<1>3. CASE Answers
  <2>1. CASE ChangeHeard
    <3>1. op.kind # "batch"
      BY <2>1 DEF ChangeHeard, Sends, Panels
    <3>2. op' = Change("load", NoAddon, 0, 0) \/ op' = Listing
      <4>1. [Listing EXCEPT !.kind = "load"] = Change("load", NoAddon, 0, 0)
        BY DEF Listing, Change
      <4> QED BY <2>1, <4>1 DEF ChangeHeard, Ended
    <3> QED BY <1>0, <3>1, <3>2 DEF Change
  <2>2. CASE Listed \/ Reviewed \/ PanelReviewed \/ OpFails
    <3>1. op' = None
      BY <2>2 DEF Listed, Reviewed, PanelReviewed, OpFails, Ended
    <3> QED BY <1>0, <3>1
  <2> QED BY <1>3, <2>1, <2>2 DEF Answers
<1>4. CASE Batches
  <2>1. CASE Summary
    BY <1>0, <2>1 DEF Summary, Ended
  <2>2. CASE BatchGoes
    BY <2>2 DEF BatchGoes, Batching, StageNext, Retry, ReviewNext, ActivateNext, AttemptFails, NextPass
  <2> QED BY <1>4, <2>1, <2>2 DEF Batches, BatchGoes
<1>5. CASE GitEnds \/ Prepared \/ ConfigLoaded \/ ResolutionUnknown \/ ResolutionRefused
  BY <1>5 DEF GitEnds, Prepared, Upgrade, ConfigLoaded, Configures, ResolutionUnknown, ResolutionRefused
<1>6. CASE WizardAnswers
  <2>1. PICK outcome \in {"nothing", "source", "staged"}, a \in Installed : WizardEnds(outcome, a)
    BY <1>6 DEF WizardAnswers
  <2>2. remote' = remote /\ batch' = batch /\ (op' = op \/ op' = Change("review", a, 2, 0))
    BY <2>1 DEF WizardEnds
  <2> QED BY <1>0, <2>2 DEF Change
<1>7. CASE HostResolves \/ Applied
  <2>1. op = None
    BY <1>0, <1>7 DEF HostResolves, Applied, Upgrading
  <2>2. op' = op \/ op' = Listing
    BY <1>7 DEF HostResolves, Applied
  <2> QED BY <1>0, <2>1, <2>2
<1>8. CASE ConfigApplied \/ ConfigFails
  <2>1. op = None /\ op' = op
    BY <1>0, <1>8 DEF ConfigApplied, ConfigFails, ConfigDone, Configures
  <2> QED BY <1>0, <2>1
<1>9. CASE AdminActs
  <2>1. ASSUME NEW kind, NEW a, kind \notin {"batch", "list"}, Outside(kind, a) PROVE Goal
    <3>1. op' = Change(kind, a, 0, shown.rev)
      BY <2>1 DEF Outside, Begin
    <3> QED BY <2>1, <3>1 DEF Change
  <2>2. CASE Check \/ ConfirmPanel \/ \E a \in Installed : Reload(a) \/ PrepareDisable(a) \/ PrepareUninstall(a)
    BY <2>1, <2>2 DEF Check, ConfirmPanel, Reload, PrepareDisable, PrepareUninstall, Panels
  <2>3. ASSUME NEW kind \in {"review", "stage"}, NEW a, NEW v, OpenPackage(kind, a, v) PROVE Goal
    <3>1. op' = Change(kind, a, v, 0)
      BY <2>3 DEF OpenPackage, Begin
    <3> QED BY <3>1 DEF Change
  <2>4. CASE LoadReview \/ ActivateReviewed \/ Refresh \/ Exit
    <3>1. op'.kind \in {"review", "activate", "cancel"}
      BY <2>4 DEF LoadReview, ActivateReviewed, Refresh, Exit, Begin, Change
    <3> QED BY <3>1
  <2>5. CASE CloseInstall
    <3>1. batch' = batch /\ remote' = remote /\ (op' = op \/ op' = Change("cancel", NoAddon, 0, 0))
      BY <2>5 DEF CloseInstall, Begin
    <3> QED BY <3>1 DEF Change
  <2>6. CASE DismissPanel \/ OpenInstall \/ GitBegins \/ WizardBegins
    BY <2>6 DEF DismissPanel, OpenInstall, GitBegins, WizardBegins
  <2>7. CASE Prepare \/ CheckResult \/ \E action \in {"heal", "remove"} : Confirm(action)
    BY <2>7 DEF Prepare, CheckResult, Confirm, Upgrade
  <2>8. CASE ConfigLoads \/ ConfigReviews \/ ConfigApplies
    BY <2>8 DEF ConfigLoads, ConfigReviews, ConfigApplies, Configures
  <2>9. CASE Enter \/ Leave
    <3>1. op' = Change("load", NoAddon, 0, 0) \/ op' = None
      <4>1. [Listing EXCEPT !.kind = "load"] = Change("load", NoAddon, 0, 0)
        BY DEF Listing, Change
      <4> QED BY <2>9, <4>1 DEF Enter, Leave
    <3> QED BY <1>0, <3>1 DEF Change
  <2>10. CASE \E targets \in SUBSET Installed : UpdateAll(targets)
    <3>1. op' = Change("batch", NoAddon, 0, 0)
      BY <2>10 DEF UpdateAll, Begin
    <3> QED BY <2>10, <3>1 DEF Change
  <2> QED BY <1>9, <2>2, <2>3, <2>4, <2>5, <2>6, <2>7, <2>8, <2>9, <2>10 DEF AdminActs
<1> QED BY <1>2, <1>3, <1>4, <1>5, <1>6, <1>7, <1>8, <1>9 DEF AdminNext, Resolved, ConfigAnswers

LEMMA AfterFields ==
    ASSUME NEW l, NEW c, NEW r, NEW p, NEW w, NEW u, NEW f, BatchAfter(l, c, r, p, w, u, f)
    PROVE  /\ batch'.left = l /\ batch'.cur = c /\ batch'.round = r /\ batch'.progress = p
           /\ batch'.waiting = w /\ batch'.updated = u /\ batch'.failed = f /\ batch'.rev = batch.rev
BY DEF BatchAfter, BatchRec

\* An issue depends on what is active and saved, whatever else of the host moves.
LEMMA SameIssue ==
    ASSUME remote'.active = remote.active, remote'.saves = remote.saves, NEW a, NEW v
    PROVE  Issue(a, v)' = Issue(a, v)
BY DEF Issue, Fits, Activating

\* An add-on that could be updated still can once another was: the versions only grow.
LEMMA StillFits ==
    ASSUME AdminAssumption, NEW versions \in [Installed -> 0..2], NEW a \in Installed, NEW b \in Installed,
           Fits([versions EXCEPT ![a] = 2]), Fits([versions EXCEPT ![b] = 2])
    PROVE  Fits([[versions EXCEPT ![a] = 2] EXCEPT ![b] = 2])
<1> DEFINE x == [versions EXCEPT ![a] = 2]
           y == [versions EXCEPT ![b] = 2]
           z == [x EXCEPT ![b] = 2]
<1>1. /\ \A c \in Installed : x[c] = IF c = a THEN 2 ELSE versions[c]
      /\ \A c \in Installed : y[c] = IF c = b THEN 2 ELSE versions[c]
      /\ \A c \in Installed : z[c] = IF c = a \/ c = b THEN 2 ELSE versions[c]
      /\ \A c \in Installed : versions[c] \in 0..2
  OBVIOUS
<1>2. Fits(x) /\ Fits(y)
  OBVIOUS
<1> HIDE DEF x, y, z
<1>3. ASSUME NEW c \in Installed, z[c] # 0, NEW d \in Needs[c] PROVE z[d] >= z[c]
  <2>1. d \in Installed
    BY DEF AdminAssumption
  <2>2. CASE c = b
    BY <1>1, <1>2, <1>3, <2>1, <2>2 DEF Fits
  <2>3. CASE c # b
    BY <1>1, <1>2, <1>3, <2>1, <2>3 DEF Fits
  <2> QED BY <2>2, <2>3
<1> QED BY <1>3 DEF Fits, x, z

\* An update leaves the other issues as they are, but for those that were blocked.
LEMMA UpdateKeepsIssues ==
    ASSUME AdminAssumption, AdminTypes, NEW a \in Installed, NEW b \in Installed, a # b,
           Issue(a, 2) = "none", Issue(b, 2) # "blocked",
           remote'.active = Activating(a, 2), remote'.saves = remote.saves
    PROVE  Issue(b, 2)' = Issue(b, 2)
<1>0. remote.active \in [Installed -> 0..2]
  BY DEF AdminTypes, Remotes
<1>1. Fits(Activating(a, 2)) /\ Fits(Activating(b, 2))
  BY DEF Issue
<1>2. Activating(b, 2)' = [[remote.active EXCEPT ![a] = 2] EXCEPT ![b] = 2]
  BY DEF Activating
<1>3. Fits([[remote.active EXCEPT ![a] = 2] EXCEPT ![b] = 2])
  BY <1>0, <1>1, StillFits DEF Activating
<1>4. Fits(Activating(b, 2)')
  BY <1>2, <1>3
<1>5. remote'.active[b] = remote.active[b]
  BY <1>0 DEF Activating
<1> QED BY <1>1, <1>4, <1>5 DEF Issue

\* What others do to the host while Update all runs.
LEMMA BatchOverHost ==
    ASSUME AdminInv, BatchInv, op.kind = "batch", batch' = batch,
           Host \/ remote' = remote
    PROVE  InOnePlace' /\ TakenUp' /\ Counted' /\ (Alone' => ReasonsHold')
<1>0. InOnePlace /\ TakenUp /\ Counted /\ (Alone => ReasonsHold) /\ remote.rev \in Nat
      /\ Cardinality(batch.updated) \in Nat /\ IsChange(batch.cur)
  BY FS_CardinalityType DEF BatchInv, AdminInv, AdminTypes, Remotes, Counted, IsBatch
<1>1. InOnePlace'
  BY <1>0 DEF InOnePlace
<1>2. CASE remote' = remote
  <2>1. \A a : Issue(a, 2)' = Issue(a, 2)
    BY <1>2, SameIssue
  <2>2. TakenUp' /\ Counted'
    BY <1>0, <1>2, <2>1 DEF TakenUp, Counted
  <2>3. Alone' => ReasonsHold'
    BY <1>0, <1>2, <2>1 DEF Alone, ReasonsHold
  <2> QED BY <1>1, <2>2, <2>3
<1>3. CASE remote'.rev = remote.rev + 1
  <2>1. Counted' /\ ~Alone'
    BY <1>0, <1>3 DEF Counted, Alone
  <2>2. TakenUp'
    BY <1>0, <1>3 DEF TakenUp, IsChange
  <2> QED BY <1>1, <2>1, <2>2
<1> QED BY <1>2, <1>3, HostMoves

\* A step of Update all.
LEMMA BatchOverItself ==
    ASSUME AdminAssumption, AdminInv, BatchInv, op.kind = "batch", BatchGoes
    PROVE  InOnePlace' /\ TakenUp' /\ Counted' /\ (Alone' => ReasonsHold')
<1>0. /\ InOnePlace /\ TakenUp /\ Counted /\ (Alone => ReasonsHold) /\ remote.rev \in Nat
      /\ Cardinality(batch.updated) \in Nat /\ IsChange(batch.cur) /\ AdminTypes /\ batch.rev \in Nat
      /\ IsFiniteSet(batch.updated) /\ remote.rev >= batch.rev + Cardinality(batch.updated)
  BY FS_CardinalityType DEF BatchInv, AdminInv, AdminTypes, Remotes, Counted, IsBatch
<1>n. /\ None.kind = "none" /\ None.addon = NoAddon /\ NoAddon \notin Installed
  BY DEF None, Change, AdminAssumption
<1>s. remote' = remote => \A a : Issue(a, 2)' = Issue(a, 2)
  BY SameIssue
<1>1. ASSUME NEW a \in Installed, StageNext(a)
      PROVE  InOnePlace' /\ TakenUp' /\ Counted' /\ (Alone' => ReasonsHold')
  <2> DEFINE d == Change("staged", a, 2, 0)
  <2>d. d.kind = "staged" /\ d.addon = a /\ d.to = 2
    BY DEF Change
  <2>1. batch.cur = None /\ a \in batch.left /\ remote' = remote
    BY <1>1 DEF StageNext
  <2>2. \/ BatchAfter(batch.left \ {a}, d, batch.round, batch.progress,
                      batch.waiting, batch.updated, batch.failed)
        \/ BatchAfter(batch.left \ {a}, batch.cur, batch.round, batch.progress,
                      batch.waiting, batch.updated, batch.failed \cup {a})
    BY <1>0, <1>1, BatchSteps
  <2> HIDE DEF d
  <2>3. /\ batch'.left = batch.left \ {a} /\ batch'.round = batch.round /\ batch'.progress = batch.progress
        /\ batch'.waiting = batch.waiting /\ batch'.updated = batch.updated /\ batch'.rev = batch.rev
        /\ \/ batch'.cur = d /\ batch'.failed = batch.failed
           \/ batch'.cur = None /\ batch'.failed = batch.failed \cup {a}
    BY <2>1, <2>2, AfterFields
  <2>4. InOnePlace'
    BY <1>0, <2>1, <2>3 DEF InOnePlace
  <2>5. TakenUp'
    BY <1>0, <2>1, <2>3, <2>d DEF TakenUp, InOnePlace
  <2>6. Counted'
    BY <1>0, <2>1, <2>3 DEF Counted
  <2>7. Alone' => ReasonsHold'
    BY <1>0, <1>n, <1>s, <2>1, <2>3, <2>d DEF Alone, ReasonsHold, InOnePlace
  <2> QED BY <2>4, <2>5, <2>6, <2>7
<1>2. ASSUME NEW a \in Installed, Retry(a)
      PROVE  InOnePlace' /\ TakenUp' /\ Counted' /\ (Alone' => ReasonsHold')
  <2> DEFINE d == IF batch.waiting[a] = "blocked" THEN Change("staged", a, 2, 0) ELSE None
  <2>d. \/ batch.waiting[a] = "blocked" /\ d.kind = "staged" /\ d.addon = a /\ d.to = 2
        \/ batch.waiting[a] # "blocked" /\ d = None
    BY DEF Change
  <2>1. batch.left = {} /\ batch.cur = None /\ a \in batch.round /\ remote' = remote
    BY <1>2 DEF Retry
  <2>2. BatchAfter(batch.left, d, batch.round \ {a}, batch.progress, batch.waiting, batch.updated, batch.failed)
    BY <1>0, <1>2, BatchSteps
  <2> HIDE DEF d
  <2>3. /\ batch'.left = batch.left /\ batch'.round = batch.round \ {a} /\ batch'.progress = batch.progress
        /\ batch'.waiting = batch.waiting /\ batch'.updated = batch.updated /\ batch'.rev = batch.rev
        /\ batch'.cur = d /\ batch'.failed = batch.failed
    BY <2>2, AfterFields
  <2>4. InOnePlace'
    BY <1>0, <2>1, <2>3 DEF InOnePlace
  <2>5. TakenUp'
    BY <1>0, <2>1, <2>3, <2>d DEF TakenUp, InOnePlace
  <2>6. Counted'
    BY <1>0, <2>1, <2>3 DEF Counted
  <2>7. Alone' => ReasonsHold'
    BY <1>0, <1>n, <1>s, <2>1, <2>3, <2>d DEF Alone, ReasonsHold, InOnePlace
  <2> QED BY <2>4, <2>5, <2>6, <2>7
<1>3. CASE ReviewNext
  <2> DEFINE a == batch.cur.addon
             d == Change("activate", a, 2, remote.rev)
             w == Waits(batch, a, Issue(a, 2))
  <2>d. /\ d.kind = "activate" /\ d.addon = a /\ d.to = 2 /\ d.rev = remote.rev
        /\ DOMAIN w = DOMAIN batch.waiting \cup {a}
        /\ \A x \in DOMAIN w : w[x] = IF x = a THEN Issue(a, 2) ELSE batch.waiting[x]
    BY DEF Change, Waits
  <2>1. batch.cur.kind = "staged" /\ remote' = remote
    BY <1>3 DEF ReviewNext
  <2>2. \/ /\ Issue(a, 2) = "none"
           /\ BatchAfter(batch.left, d, batch.round, batch.progress,
                         batch.waiting, batch.updated, batch.failed)
        \/ BatchAfter(batch.left, None, batch.round, batch.progress, w, batch.updated, batch.failed)
    BY <1>0, <1>3, BatchSteps
  <2>a. a \in Installed /\ a \notin batch.left \cup batch.round \cup batch.updated \cup batch.failed
    BY <1>0, <1>n, <2>1 DEF TakenUp
  <2> DEFINE y == batch.cur.addon
  <2>y. y = batch.cur.addon /\ a = y
    OBVIOUS
  <2> HIDE DEF a, d, w, y
  <2>3. /\ batch'.left = batch.left /\ batch'.round = batch.round /\ batch'.progress = batch.progress
        /\ batch'.updated = batch.updated /\ batch'.rev = batch.rev /\ batch'.failed = batch.failed
        /\ \/ batch'.cur = d /\ batch'.waiting = batch.waiting /\ Issue(a, 2) = "none"
           \/ batch'.cur = None /\ batch'.waiting = w
    BY <2>2, AfterFields
  <2>4. InOnePlace'
    BY <1>0, <2>3, <2>a, <2>d DEF InOnePlace
  <2>5. TakenUp'
    BY <1>0, <1>s, <2>1, <2>3, <2>a, <2>d DEF TakenUp
  <2>6. Counted'
    BY <1>0, <2>1, <2>3 DEF Counted
  <2>7. Alone' => ReasonsHold'
    <3>1. SUFFICES ASSUME Alone' PROVE ReasonsHold'
      OBVIOUS
    <3>2. ReasonsHold
      BY <1>0, <2>1, <2>3, <3>1 DEF Alone
    <3>3. CASE batch'.cur = d /\ batch'.waiting = batch.waiting
      BY <1>s, <2>1, <2>3, <2>d, <2>y, <3>2, <3>3 DEF ReasonsHold
    <3>4. CASE batch'.cur = None /\ batch'.waiting = w
      BY <1>s, <2>1, <2>3, <2>d, <2>y, <3>2, <3>4 DEF ReasonsHold
    <3> QED BY <2>3, <3>3, <3>4
  <2> QED BY <2>4, <2>5, <2>6, <2>7
<1>4. CASE ActivateNext
  <2> DEFINE a == batch.cur.addon
             w == Without(batch, a)
             u == batch.updated \cup {a}
  <2>d. /\ DOMAIN w = DOMAIN batch.waiting \ {a}
        /\ \A x \in DOMAIN w : w[x] = batch.waiting[x]
        /\ a = batch.cur.addon /\ u = batch.updated \cup {a}
    BY DEF Without
  <2>1. batch.cur.kind = "activate" /\ Accepts(batch.cur) /\ remote' = After(batch.cur)
    BY <1>4 DEF ActivateNext
  <2>2. BatchAfter(batch.left, None, batch.round, TRUE, w, u, batch.failed)
    BY <1>0, <1>4, BatchSteps
  <2>a. /\ a \in Installed /\ a \notin batch.left \cup batch.round \cup batch.updated \cup batch.failed
        /\ Issue(a, 2) = "none" /\ batch.cur.to = 2
    BY <1>0, <1>n, <2>1 DEF TakenUp, Accepts
  <2> HIDE DEF a, w, u
  <2>3. /\ batch'.left = batch.left /\ batch'.round = batch.round /\ batch'.progress = TRUE
        /\ batch'.updated = u /\ batch'.rev = batch.rev /\ batch'.failed = batch.failed
        /\ batch'.cur = None /\ batch'.waiting = w
    BY <2>2 DEF BatchAfter, BatchRec
  <2>r. /\ remote'.rev = remote.rev + 1 /\ remote'.saves = remote.saves
        /\ remote'.active = Activating(a, 2)
    BY <1>0, <2>1, <2>a, <2>d, AfterIs
  <2>c. IsFiniteSet(u) /\ Cardinality(u) = Cardinality(batch.updated) + 1
    BY <1>0, <2>a, <2>d, FS_AddElement
  <2>4. InOnePlace'
    BY <1>0, <2>3, <2>a, <2>d DEF InOnePlace
  <2>5. TakenUp'
    BY <2>3 DEF TakenUp
  <2>6. Counted'
    BY <1>0, <2>3, <2>c, <2>r DEF Counted
  <2>7. Alone' => ReasonsHold'
    <3>1. SUFFICES ASSUME Alone' PROVE ReasonsHold'
      OBVIOUS
    <3>2. ReasonsHold
      BY <1>0, <2>3, <2>c, <2>r, <3>1 DEF Alone
    <3>3. \A b \in Installed : remote'.active[b] = IF b = a THEN 2 ELSE remote.active[b]
      BY <1>0, <2>a, <2>r DEF Activating, AdminTypes, Remotes
    <3>4. \A b \in batch'.updated : remote'.active[b] = 2
      BY <1>0, <2>3, <2>a, <2>d, <3>2, <3>3 DEF ReasonsHold, InOnePlace
    <3>5. ASSUME NEW b \in DOMAIN batch'.waiting
          PROVE  batch'.waiting[b] \in {"failed", Issue(b, 2)'} \/ batch'.waiting[b] = "blocked"
      <4>1. b \in DOMAIN batch.waiting \ {a} /\ batch'.waiting[b] = batch.waiting[b] /\ b \in Installed
        BY <1>0, <2>3, <2>d, <3>5 DEF InOnePlace
      <4>2. batch.waiting[b] \in {"failed", "blocked"} \/ batch.waiting[b] = Issue(b, 2)
        BY <2>d, <3>2, <4>1 DEF ReasonsHold
      <4>3. Issue(b, 2) # "blocked" => Issue(b, 2)' = Issue(b, 2)
        BY <1>0, <2>a, <2>r, <4>1, UpdateKeepsIssues
      <4> QED BY <4>1, <4>2, <4>3
    <3> QED BY <2>3, <3>4, <3>5 DEF ReasonsHold
  <2> QED BY <2>4, <2>5, <2>6, <2>7
<1>5. CASE AttemptFails
  <2> DEFINE a == batch.cur.addon
             w == Waits(batch, a, "failed")
  <2>d. /\ DOMAIN w = DOMAIN batch.waiting \cup {a}
        /\ \A x \in DOMAIN w : w[x] = IF x = a THEN "failed" ELSE batch.waiting[x]
        /\ a = batch.cur.addon
    BY DEF Waits
  <2>1. batch.cur # None /\ remote' \in {remote, After(batch.cur)}
    BY <1>5 DEF AttemptFails
  <2>2. BatchAfter(batch.left, None, batch.round, batch.progress, w, batch.updated, batch.failed)
    BY <1>0, <1>5, BatchSteps
  <2>a. /\ a \in Installed /\ a \notin batch.left \cup batch.round \cup batch.updated \cup batch.failed
    BY <1>0, <2>1 DEF TakenUp
  <2> HIDE DEF a, w
  <2>3. /\ batch'.left = batch.left /\ batch'.round = batch.round /\ batch'.progress = batch.progress
        /\ batch'.updated = batch.updated /\ batch'.rev = batch.rev /\ batch'.failed = batch.failed
        /\ batch'.cur = None /\ batch'.waiting = w
    BY <2>2, AfterFields
  <2>r. remote' = remote \/ remote'.rev = remote.rev + 1
    BY <1>0, <2>1, AfterIs
  <2>4. InOnePlace'
    BY <1>0, <2>3, <2>a, <2>d DEF InOnePlace
  <2>5. TakenUp'
    BY <2>3 DEF TakenUp
  <2>6. Counted'
    BY <1>0, <2>3, <2>r DEF Counted
  <2>7. Alone' => ReasonsHold'
    <3>1. SUFFICES ASSUME Alone' PROVE ReasonsHold'
      OBVIOUS
    <3>2. remote' = remote
      BY <1>0, <2>3, <2>r, <3>1 DEF Alone
    <3>3. ReasonsHold
      BY <1>0, <2>3, <3>1, <3>2 DEF Alone
    <3> QED BY <1>s, <2>3, <2>d, <3>2, <3>3 DEF ReasonsHold
  <2> QED BY <2>4, <2>5, <2>6, <2>7
<1>6. CASE NextPass
  <2>1. PassOver /\ remote' = remote
    BY <1>6 DEF NextPass
  <2>2. BatchAfter(batch.left, batch.cur, DOMAIN batch.waiting, FALSE, batch.waiting,
                   batch.updated, batch.failed)
    BY <1>0, <1>6, BatchSteps
  <2>3. /\ batch'.left = batch.left /\ batch'.round = DOMAIN batch.waiting
        /\ batch'.updated = batch.updated /\ batch'.rev = batch.rev /\ batch'.failed = batch.failed
        /\ batch'.cur = None /\ batch'.waiting = batch.waiting
    BY <2>1, <2>2 DEF PassOver, BatchAfter, BatchRec
  <2>4. InOnePlace'
    BY <1>0, <2>3 DEF InOnePlace
  <2>5. TakenUp'
    BY <2>3 DEF TakenUp
  <2>6. Counted'
    BY <1>0, <2>1, <2>3 DEF Counted
  <2>7. Alone' => ReasonsHold'
    BY <1>0, <1>s, <2>1, <2>3 DEF Alone, ReasonsHold, PassOver
  <2> QED BY <2>4, <2>5, <2>6, <2>7
<1> QED BY <1>1, <1>2, <1>3, <1>4, <1>5, <1>6 DEF BatchGoes

LEMMA BatchStep ==
    ASSUME AdminAssumption, AdminInv, BatchInv, [AdminNext]_adminVars
    PROVE  BatchInv'
<1> SUFFICES ASSUME op'.kind = "batch"
             PROVE  InOnePlace' /\ TakenUp' /\ Counted' /\ (Alone' => ReasonsHold')
  BY DEF BatchInv
<1>1. CASE \E targets \in SUBSET Installed : UpdateAll(targets)
  <2>1. PICK targets \in SUBSET Installed : UpdateAll(targets)
    BY <1>1
  <2>2. batch' = [NoBatch EXCEPT !.left = targets, !.rev = remote.rev] /\ remote' = remote
    BY <2>1 DEF UpdateAll
  <2>3. batch' = BatchRec(targets, None, {}, FALSE, <<>>, {}, {}, remote.rev)
    BY <2>2 DEF NoBatch, BatchRec
  <2>4. /\ batch'.left = targets /\ batch'.cur = None /\ batch'.round = {} /\ batch'.waiting = <<>>
        /\ batch'.updated = {} /\ batch'.failed = {} /\ batch'.rev = remote.rev
    BY <2>3 DEF BatchRec
  <2>5. DOMAIN batch'.waiting = {}
    BY <2>4
  <2>6. IsFiniteSet({}) /\ Cardinality({}) = 0 /\ remote.rev \in Nat
    BY FS_EmptySet DEF AdminInv, AdminTypes, Remotes
  <2>7. InOnePlace' /\ TakenUp'
    BY <2>4, <2>5 DEF InOnePlace, TakenUp
  <2>9. batch'.updated = {} /\ batch'.rev = remote.rev /\ remote'.rev = remote.rev
    BY <2>2, <2>4
  <2>8. Counted'
    BY <2>6, <2>9 DEF Counted
  <2>10. ReasonsHold'
    BY <2>5, <2>9 DEF ReasonsHold
  <2> QED BY <2>7, <2>8, <2>10
<1>2. CASE op' = op /\ (BatchGoes \/ (batch' = batch /\ (Host \/ remote' = remote)))
  BY <1>2, BatchOverHost, BatchOverItself
<1>3. CASE UNCHANGED adminVars
  BY <1>3, BatchOverHost DEF adminVars
<1> QED BY <1>1, <1>2, <1>3, WhatRuns

\* Update all looks again at what was blocked whenever something was updated, and takes up one
\* add-on at a time: so its summary leaves no target out, and calls none waiting that could run.
THEOREM UpdateAllIsComplete == AdminSpec => BatchIsComplete
<1>1. AdminInit => BatchInv
  BY DEF AdminInit, BatchInv, None, Change
<1>2. AdminInv /\ BatchInv /\ [AdminNext]_adminVars => BatchInv'
  BY BatchStep, AdminAssumption
<1> DEFINE Ends == op.kind = "batch" /\ op'.kind = "list" =>
          LET alone == remote.rev = batch.rev + Cardinality(batch.updated) IN
          /\ batch.failed \cap DOMAIN batch.waiting = {}
          /\ batch.updated \cap (batch.failed \cup DOMAIN batch.waiting) = {}
          /\ alone => /\ \A a \in batch.updated : remote.active[a] = 2
                      /\ \A a \in DOMAIN batch.waiting :
                             batch.waiting[a] \in {"failed", Issue(a, 2)}
<1>3. ASSUME AdminInv, BatchInv, [AdminNext]_adminVars PROVE [Ends]_adminVars
  <2> SUFFICES ASSUME AdminNext, op.kind = "batch", op'.kind = "list" PROVE Ends
    BY <1>3
  <2>1. Summary
    BY <1>3, WhatRuns
  <2>2. batch.cur = None /\ batch.round = {} /\ ~batch.progress
    BY <2>1 DEF Summary, PassOver
  <2>3. InOnePlace /\ (Alone => ReasonsHold)
    BY <1>3 DEF BatchInv
  <2>4. NoAddon \notin Installed /\ None.addon = NoAddon
    BY AdminAssumption DEF AdminAssumption, None, Change
  <2>5. \A a \in DOMAIN batch.waiting : a # batch.cur.addon
    BY <2>2, <2>3, <2>4 DEF InOnePlace
  <2>6. Alone => \A a \in DOMAIN batch.waiting : batch.waiting[a] \in {"failed", Issue(a, 2)}
    BY <2>2, <2>3, <2>5 DEF ReasonsHold
  <2> QED BY <2>3, <2>6 DEF InOnePlace, Alone, ReasonsHold
<1> HIDE DEF Ends
<1>4. AdminSpec => [][Ends]_adminVars
  BY <1>1, <1>2, <1>3, AdminAlways, PTL DEF AdminSpec
<1> QED BY <1>4 DEF BatchIsComplete, Ends
=============================================================================
