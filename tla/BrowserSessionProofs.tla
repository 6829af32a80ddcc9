------------------------ MODULE BrowserSessionProofs ------------------------
(***************************************************************************)
(* Proofs about the browser's session, for any roles, any live events and  *)
(* any bounds: what is shown was read for whoever is signed in, and unsaved*)
(* changes end with the page only when nothing was accepted or at sign-out.*)
(*                                                                         *)
(* Part 1: the snapshot is for the authority (AcceptInv).                  *)
(* Part 2: the queue of loads (Lines, FreshFirst): each load is in line    *)
(*         once, and a load that may show nothing retained stands first.   *)
(* Part 3: drafts survive (DraftInv), from part 2.                         *)
(***************************************************************************)
EXTENDS BrowserSession, FiniteSetTheorems, FunctionTheorems, TLAPS

Answers == Session \cup {Unknown, Failed}

\* The fields that the argument is about.
Typed ==
    /\ session \in Session /\ rev \in Nat
    /\ auth \in Session \cup {Unknown}
    /\ check \in [phase : {"idle", "asked", "answered"}, ans : Answers]
    /\ op \in [kind : {"none", "login", "resume", "logout"},
               phase : {"idle", "sent", "answered", "load"}, ans : Answers]
    /\ campaign.state \in {"ready", "loading", "unavailable"}
    /\ reading.phase \in {"idle", "sent", "answered"}
    /\ reading.phase # "idle" => reading.snap \in Snapshot

\* Until the app knows who is signed in, it has asked for nothing.
Unopened ==
    auth = Unknown =>
        /\ current = NoData /\ reading = Idle /\ campaign = Loading
        /\ queue = <<>> /\ waiting = <<>> /\ done = {} /\ check = NoCheck /\ op = NoOp
        /\ ~recovering /\ stream = Closed /\ addons = "off" /\ draft = "none"

\* An operation that was answered has a session, or none, to accept.
Answered == op.phase = "answered" => op.ans \in Session

\* What is read, accepted and shown is for the authority.
ReadFor ==
    /\ current # NoData => current.for = auth.role
    /\ reading.phase # "idle" => reading.snap.for = auth.role
    /\ campaign.state = "ready" /\ current # NoData => campaign.snap = current

AcceptInv == Typed /\ Unopened /\ Answered /\ ReadFor

LEMMA AcceptInit == Init => AcceptInv
  BY SessionAssumption DEF Init, AcceptInv, Typed, Unopened, Answered, ReadFor, Session,
     Anonymous, Unknown, NoCheck, NoOp, Idle, NoData, Loading, Closed, Answers, Failed

LEMMA Known == /\ Unknown \notin Session /\ Failed \notin Session /\ Anonymous \in Session
               /\ \A s \in Session : s.role \in Roles \cup {Nobody}
               /\ Unknown.role = "unknown" /\ Failed.role = "failed"
  BY SessionAssumption DEF Unknown, Failed, Session, Anonymous

\* What Load leaves of the campaign and the check.
LEMMA LoadLeaves ==
    ASSUME NEW k, NEW retain, NEW q, NEW w, NEW d, NEW c, Load(k, retain, q, w, d, c),
           c \in [phase : {"idle", "asked", "answered"}, ans : Answers]
    PROVE  /\ campaign' = campaign \/ campaign' = Loading
           /\ check' \in [phase : {"idle", "asked", "answered"}, ans : Answers]
  BY DEF Load, AskCheck, Answers

\* Steps that leave what was read, and the role it was read for.
LEMMA ReadsStay ==
    ASSUME ReadFor, UNCHANGED <<current, reading>>, auth'.role = auth.role,
           campaign' = campaign \/ campaign' = Loading
    PROVE  ReadFor'
  BY DEF ReadFor, Loading

\* Steps that drop what was read.
LEMMA ReadsDrop == ASSUME Reset PROVE ReadFor'
  BY DEF ReadFor, Reset, NoData, Idle

LEMMA AcceptStep == AcceptInv /\ [Next]_vars => AcceptInv'
<1> SUFFICES ASSUME AcceptInv, [Next]_vars PROVE AcceptInv'
  OBVIOUS
<1> USE DEF AcceptInv
<1>1. CASE Server
  <2>1. UNCHANGED <<auth, recovering, check, op, campaign, current, waiting, queue, reading, done, addons, draft>>
    BY <1>1 DEF Server, CampaignChanges, CampaignRestored, SessionEnds, AnotherTabSignsIn, StreamReconnects, Elsewhere, server
  <2>2. session' \in Session /\ rev' \in Nat
    BY <1>1, Known, SessionAssumption DEF Server, CampaignChanges, CampaignRestored, SessionEnds, AnotherTabSignsIn, StreamReconnects, Issued, Session, Typed, server
  <2>3. stream = Closed => stream' = Closed
    BY <1>1 DEF Server, CampaignChanges, CampaignRestored, SessionEnds, AnotherTabSignsIn, StreamReconnects, Closed, server
  <2> QED BY <2>1, <2>2, <2>3 DEF Typed, Unopened, Answered, ReadFor
<1>2. CASE BootAccepts
  <2>1. auth' \in Session /\ session' = session /\ rev' = rev /\ op' = op /\ UNCHANGED <<current, reading>>
    BY <1>2, Known DEF BootAccepts, Typed, server
  <2>2. current = NoData /\ reading = Idle /\ op = NoOp
    BY <1>2 DEF BootAccepts, Unopened
  <2>3. NoCheck \in [phase : {"idle", "asked", "answered"}, ans : Answers]
    BY DEF NoCheck, Answers
  <2>4. /\ campaign' = campaign \/ campaign' = Loading
        /\ check' \in [phase : {"idle", "asked", "answered"}, ans : Answers]
    BY <1>2, <2>3, LoadLeaves DEF BootAccepts
  <2> QED BY <2>1, <2>2, <2>4, Known DEF Typed, Unopened, Answered, ReadFor, Idle, NoOp, Loading
\* Everything else happens to a browser that knows its authority, and leaves it one.
<1>3. ASSUME BootGoesOn \/ Reading \/ Live \/ AuthorityRejected \/ Checking \/ Operation \/ User
             \/ AddonSession
      PROVE  auth # Unknown
  <2> SUFFICES ASSUME auth = Unknown PROVE FALSE
    OBVIOUS
  <2>1. ~SignedIn(auth) /\ auth # Anonymous
    BY SessionAssumption, Known DEF SignedIn, Unknown, Anonymous
  <2>2. /\ reading.phase = "idle" /\ campaign.state = "loading" /\ queue = <<>> /\ done = {}
        /\ check.phase = "idle" /\ op.phase = "idle" /\ op.kind = "none" /\ ~stream.open
        /\ ~stream.restore /\ addons = "off" /\ draft = "none"
    BY DEF Unopened, Idle, Loading, NoCheck, NoOp, Closed
  <2>3. ~BootGoesOn /\ ~Reading /\ ~Live /\ ~AuthorityRejected /\ ~Checking
    BY <2>1, <2>2 DEF BootGoesOn, Reading, SendRead, ServeRead, ShowRead, FailRead, Live,
       EventArrives, RestoreArrives, RestoreOver, AuthorityRejected, Checking, CheckAnswered,
       CheckHolds, CheckFails
  <2>4. ~Operation /\ ~User /\ ~AddonSession
    BY <2>1, <2>2 DEF Operation, ServerSignsIn, ServerSignsOut, OpFails, LoginAccepted,
       LogoutAccepted, ResumeAccepted, OpGoesOn, User, LogIn, Resume, LogOut, Retry, OpenDraft,
       CloseDraft, AddonSession, GraphRejected, AddonsLostWhileEditing, AddonsLost
  <2> QED BY <1>3, <2>3, <2>4
<1> DEFINE Checks == [phase : {"idle", "asked", "answered"}, ans : Answers]
           Ops == [kind : {"none", "login", "resume", "logout"},
                   phase : {"idle", "sent", "answered", "load"}, ans : Answers]
<1>4. AskCheck \in Checks /\ NoCheck \in Checks
  BY DEF AskCheck, NoCheck, Answers
<1>5. CASE BootGoesOn
  <2>1. auth # Unknown /\ UNCHANGED <<session, rev, auth, check, op, campaign, current, reading>>
    BY <1>3, <1>5 DEF BootGoesOn, Unopened, server
  <2> QED BY <2>1 DEF Typed, Unopened, Answered, ReadFor
<1>6. CASE Reading
  <2>1. auth # Unknown /\ UNCHANGED <<session, rev, auth, check, op>>
    BY <1>6, <1>3 DEF Reading, SendRead, ServeRead, ShowRead, FailRead, server
  <2>2. auth \in Session /\ auth.role \in Roles \cup {Nobody}
    BY <2>1, Known DEF Typed
  <2>3. CASE SendRead
    BY <2>1, <2>2, <2>3 DEF SendRead, Typed, Unopened, Answered, ReadFor, Snapshot
  <2>4. CASE ServeRead
    BY <2>1, <2>2, <2>4 DEF ServeRead, Typed, Unopened, Answered, ReadFor, Snapshot
  <2>5. CASE ShowRead
    BY <2>1, <2>2, <2>5 DEF ShowRead, Returned, Typed, Unopened, Answered, ReadFor, Snapshot, Shown, Idle
  <2>6. CASE FailRead
    BY <2>1, <2>2, <2>6 DEF FailRead, Returned, Typed, Unopened, Answered, ReadFor, Shown, Unavailable, Idle
  <2> QED BY <1>6, <2>3, <2>4, <2>5, <2>6 DEF Reading
<1>7. CASE Live
  <2>1. auth # Unknown /\ UNCHANGED <<session, rev, auth, op>>
    BY <1>7, <1>3 DEF Live, EventArrives, RestoreArrives, RestoreOver, server
  <2>2. check' \in Checks /\ (campaign' = campaign \/ campaign' = Loading)
    BY <1>7, LoadLeaves DEF Live, EventArrives, RestoreArrives, RestoreOver, Typed
  <2>3. UNCHANGED <<current, reading>> \/ Reset
    BY <1>7 DEF Live, EventArrives, RestoreArrives, RestoreOver
  <2>4. Typed' /\ Unopened' /\ Answered'
    BY <2>1, <2>2, <2>3 DEF Typed, Unopened, Answered, Reset, Idle, Loading
  <2> QED BY <2>1, <2>2, <2>3, <2>4, ReadsStay, ReadsDrop
<1>8. CASE AuthorityRejected
  <2>1. auth # Unknown /\ check' \in Checks
    BY <1>3, <1>4, <1>8 DEF AuthorityRejected
  <2> QED BY <1>8, <2>1 DEF AuthorityRejected, reads, server, Typed, Unopened, Answered, ReadFor
<1>9. CASE Checking
  <2>1. auth # Unknown /\ UNCHANGED <<session, rev, op, current>>
    BY <1>9, <1>3 DEF Checking, CheckAnswered, CheckHolds, CheckFails, server, reads
  <2>2. CASE CheckAnswered
    <3>1. check' \in Checks /\ UNCHANGED <<auth, campaign, reading>>
      BY <2>2 DEF CheckAnswered, Typed, Answers, reads
    <3> QED BY <2>1, <3>1 DEF Typed, Unopened, Answered, ReadFor
  <2>3. CASE CheckHolds
    <3>1. check.ans \in Session /\ check.ans.role = auth.role /\ auth' = check.ans
      <4>1. check.ans \in Answers /\ check.ans.role = auth.role /\ auth' = check.ans
        BY <2>3 DEF CheckHolds, Holds, Typed
      <4>2. auth.role \in Roles \cup {Nobody}
        BY <2>1, Known DEF Typed
      <4> QED BY <4>1, <4>2, Known, SessionAssumption DEF Answers
    <3>2. check' \in Checks /\ (campaign' = campaign \/ campaign' = Loading) /\ reading' = reading
      BY <1>4, <2>3 DEF CheckHolds
    <3>3. Typed' /\ Unopened' /\ Answered'
      BY <2>1, <3>1, <3>2, Known DEF Typed, Unopened, Answered, Loading
    <3> QED BY <2>1, <3>1, <3>2, <3>3, ReadsStay
  <2>4. CASE CheckFails
    <3>1. check' \in Checks /\ UNCHANGED <<auth, campaign>> /\ (reading' = reading \/ reading' = Idle)
      BY <1>4, <2>4 DEF CheckFails, Closing
    <3> QED BY <2>1, <3>1 DEF Typed, Unopened, Answered, ReadFor, Idle
  <2> QED BY <1>9, <2>2, <2>3, <2>4 DEF Checking
<1>10. CASE Operation
  <2>1. auth # Unknown /\ auth \in Session
    BY <1>3, <1>10 DEF Typed
  <2>2. CASE (\E r \in Roles : ServerSignsIn(r)) \/ ServerSignsOut
    <3>1. session' \in Session /\ op' \in Ops /\ op'.ans \in Session
      <4>1. session' \in Session
        BY <2>2, Known DEF ServerSignsIn, ServerSignsOut, Issued, Typed, Session
      <4>2. PICK s \in Session : op' = [op EXCEPT !.phase = "answered", !.ans = s]
        BY <2>2, <4>1, Known DEF ServerSignsIn, ServerSignsOut
      <4>3. s \in Answers /\ op \in Ops
        BY DEF Typed, Answers
      <4> QED BY <4>1, <4>2, <4>3
    <3> QED BY <2>1, <2>2, <3>1 DEF ServerSignsIn, ServerSignsOut, reads, Typed, Unopened, Answered, ReadFor
  <2>3. CASE OpFails
    <3>1. op' \in Ops /\ op'.phase = "idle"
      BY <2>3 DEF OpFails, Released, NoOp, Answers
    <3> QED BY <2>1, <2>3, <3>1 DEF OpFails, reads, server, Typed, Unopened, Answered, ReadFor
  <2>4. CASE LoginAccepted \/ LogoutAccepted
    <3>1. PICK rec : NewAuthority(rec)
      BY <2>4 DEF LoginAccepted, LogoutAccepted
    <3>2. auth' \in Session /\ op' \in Ops /\ op'.phase = "load" /\ UNCHANGED <<session, rev>>
      BY <2>4, <3>1 DEF LoginAccepted, LogoutAccepted, NewAuthority, Typed, Answered, server
    <3>3. Reset /\ check' \in Checks /\ (campaign' = campaign \/ campaign' = Loading)
      BY <1>4, <3>1, LoadLeaves DEF NewAuthority
    <3>4. Typed' /\ Unopened' /\ Answered'
      BY <3>2, <3>3, Known DEF Typed, Unopened, Answered, Reset, Idle, Loading
    <3> QED BY <3>3, <3>4, ReadsDrop
  <2>5. CASE ResumeAccepted
    <3>1. auth' \in Session /\ auth'.role = auth.role /\ op' \in Ops /\ op'.phase = "load"
      BY <2>5 DEF ResumeAccepted, Typed, Answered
    <3>2. check' \in Checks /\ (campaign' = campaign \/ campaign' = Loading)
      BY <1>4, <2>5, LoadLeaves DEF ResumeAccepted
    <3>3. UNCHANGED <<session, rev, current, reading>>
      BY <2>5 DEF ResumeAccepted, server
    <3>4. Typed' /\ Unopened' /\ Answered'
      BY <3>1, <3>2, <3>3, Known DEF Typed, Unopened, Answered, Loading
    <3> QED BY <3>1, <3>2, <3>3, <3>4, ReadsStay
  <2>6. CASE OpGoesOn
    <3>1. op' \in Ops /\ op'.phase = "idle"
      BY <2>6 DEF OpGoesOn, Released, NoOp, Answers
    <3> QED BY <2>1, <2>6, <3>1 DEF OpGoesOn, server, Typed, Unopened, Answered, ReadFor
  <2> QED BY <1>10, <2>2, <2>3, <2>4, <2>5, <2>6 DEF Operation
<1>11. CASE User
  <2>1. auth # Unknown /\ UNCHANGED <<session, rev, auth>>
    BY <1>3, <1>11 DEF User, LogIn, Resume, LogOut, Retry, OpenDraft, CloseDraft, server
  <2>2. CASE LogIn \/ Resume \/ LogOut
    <3>1. op' \in Ops /\ op'.phase = "sent"
      BY <2>2 DEF LogIn, Resume, LogOut, Sent, Answers
    <3>2. check' \in Checks /\ UNCHANGED <<campaign, current, reading>>
      BY <1>4, <2>2 DEF LogIn, Resume, LogOut, Typed, reads
    <3> QED BY <2>1, <3>1, <3>2 DEF Typed, Unopened, Answered, ReadFor
  <2>3. CASE Retry
    <3>1. Reset /\ check' \in Checks /\ op' = op /\ (campaign' = campaign \/ campaign' = Loading)
      BY <2>3, LoadLeaves DEF Retry, Typed
    <3>2. Typed' /\ Unopened' /\ Answered'
      BY <2>1, <3>1 DEF Typed, Unopened, Answered, Reset, Idle, Loading
    <3> QED BY <3>1, <3>2, ReadsDrop
  <2>4. CASE OpenDraft \/ CloseDraft
    BY <2>1, <2>4 DEF OpenDraft, CloseDraft, reads, Typed, Unopened, Answered, ReadFor
  <2> QED BY <1>11, <2>2, <2>3, <2>4 DEF User
<1>12. CASE AddonSession
  <2>1. auth # Unknown /\ UNCHANGED <<session, rev, op>>
    BY <1>3, <1>12 DEF AddonSession, GraphRejected, AddonsLostWhileEditing, AddonsLost, server
  <2>2. CASE GraphRejected \/ AddonsLostWhileEditing
    <3>1. check' \in Checks /\ UNCHANGED <<auth, campaign, current, reading>>
      BY <1>4, <2>2 DEF GraphRejected, AddonsLostWhileEditing, Typed, reads
    <3> QED BY <2>1, <3>1 DEF Typed, Unopened, Answered, ReadFor
  <2>3. CASE AddonsLost
    <3>1. /\ Reset /\ check' \in Checks /\ auth' = Anonymous
          /\ (campaign' = campaign \/ campaign' = Loading)
      BY <1>4, <2>3, LoadLeaves DEF AddonsLost
    <3>2. Typed' /\ Unopened' /\ Answered'
      BY <2>1, <3>1, Known DEF Typed, Unopened, Answered, Reset, Idle, Loading
    <3> QED BY <3>1, <3>2, ReadsDrop
  <2> QED BY <1>12, <2>2, <2>3 DEF AddonSession
<1>13. CASE UNCHANGED vars
  BY <1>13 DEF vars, Typed, Unopened, Answered, ReadFor
<1> QED
  BY <1>1, <1>2, <1>5, <1>6, <1>7, <1>8, <1>9, <1>10, <1>11, <1>12, <1>13 DEF Next

\* What was accepted was read under the authority that is signed in: an answer that comes
\* back after sign-in or sign-out has changed it is never shown (SnapshotController.accept).
THEOREM SnapshotIsForTheAuthority == Spec => []AcceptedForAuthority
<1>1. AcceptInv => AcceptedForAuthority
  BY DEF AcceptInv, ReadFor, AcceptedForAuthority
<1> QED BY <1>1, AcceptInit, AcceptStep, PTL DEF Spec

-----------------------------------------------------------------------------
(* The line of loads.                                                      *)

\* The n-th of a finite set of indices exists and is unique.
LEMMA NthIndex ==
    ASSUME NEW K, NEW m \in Nat, K \subseteq 1..m
    PROVE  /\ IsFiniteSet(K) /\ Cardinality(K) \in Nat
           /\ \A i \in K : Cardinality({j \in K : j <= i}) \in 1..Cardinality(K)
           /\ \A n \in 1..Cardinality(K) : \E i \in K : Cardinality({j \in K : j <= i}) = n
           /\ (m >= 1 /\ 1 \in K) => Cardinality({j \in K : j <= 1}) = 1
<1> DEFINE Upto(i) == {j \in K : j <= i}
           rank == [i \in K |-> Cardinality(Upto(i))]
<1>0. \A i \in K : i \in Nat /\ i >= 1
  OBVIOUS
<1>1. IsFiniteSet(K) /\ Cardinality(K) \in Nat
  <2>1. IsFiniteSet(1..m) /\ K \in SUBSET (1..m)
    BY FS_Interval
  <2>2. IsFiniteSet(K)
    BY <2>1, FS_Subset
  <2> QED BY <2>2, FS_CardinalityType
<1>2. ASSUME NEW i \in K PROVE Cardinality(Upto(i)) \in 1..Cardinality(K)
  <2>1. IsFiniteSet(Upto(i)) /\ Cardinality(Upto(i)) <= Cardinality(K)
    BY <1>1, FS_Subset
  <2>2. Cardinality(Upto(i)) \in Nat
    BY <2>1, FS_CardinalityType
  <2>3. i \in Upto(i)
    OBVIOUS
  <2>4. Cardinality(Upto(i)) # 0
    BY <2>1, <2>3, FS_EmptySet
  <2> QED BY <2>1, <2>2, <2>4, <1>1
<1>3. ASSUME NEW i \in K, NEW k \in K, i < k PROVE Cardinality(Upto(i)) # Cardinality(Upto(k))
  <2>1. IsFiniteSet(Upto(k)) /\ Upto(i) \subseteq Upto(k)
    <3>1. Upto(k) \in SUBSET K
      OBVIOUS
    <3>2. Upto(i) \subseteq Upto(k)
      <4>1. \A j \in K : j <= i => j <= k
        BY <1>0, <1>3
      <4> QED BY <4>1
    <3> QED BY <1>1, <3>1, <3>2, FS_Subset
  <2>2. k \in Upto(k) /\ k \notin Upto(i)
    BY <1>3
  <2> QED BY <2>1, <2>2, FS_Subset
<1>4. rank \in Injection(K, 1..Cardinality(K))
  <2>1. rank \in [K -> 1..Cardinality(K)]
    BY <1>2
  <2>2. \A i, k \in K : rank[i] = rank[k] => i = k
    BY <1>3
  <2> QED BY <2>1, <2>2 DEF Injection, IsInjective
<1>5. rank \in Surjection(K, 1..Cardinality(K))
  BY <1>1, <1>4, FS_Injection, FS_Interval
<1>6. \A n \in 1..Cardinality(K) : \E i \in K : rank[i] = n
  BY <1>5 DEF Surjection
<1>7. (m >= 1 /\ 1 \in K) => Cardinality(Upto(1)) = 1
  <2> SUFFICES ASSUME 1 \in K PROVE Cardinality(Upto(1)) = 1
    OBVIOUS
  <2>1. \A j \in K : j <= 1 <=> j = 1
    BY <1>0
  <2>2. Upto(1) = {1}
    BY <2>1
  <2> QED BY <2>2, FS_Singleton
<1> QED BY <1>1, <1>2, <1>6, <1>7

\* What Closing leaves of a queue: its other loads, each once, the first one first.
LEMMA WithoutKeeps ==
    ASSUME NEW S, NEW q \in Seq(S)
    PROVE  /\ Without(q) \in Seq(S)
           /\ \E at \in [DOMAIN Without(q) -> DOMAIN q] :
                 /\ \A n \in DOMAIN Without(q) :
                       Without(q)[n] = q[at[n]] /\ q[at[n]] \notin Streamed
                 /\ \A n, k \in DOMAIN Without(q) : at[n] = at[k] => n = k
                 /\ \A n \in DOMAIN Without(q) : at[n] = 1 => n = 1
           /\ q # <<>> /\ Head(q) \notin Streamed => Without(q) # <<>>
<1> DEFINE K == {i \in DOMAIN q : q[i] \notin Streamed}
           rank(i) == Cardinality({j \in K : j <= i})
           N == Cardinality(K)
           at == [n \in 1..N |-> CHOOSE i \in K : rank(i) = n]
<1>1. Len(q) \in Nat /\ DOMAIN q = 1..Len(q) /\ K \subseteq 1..Len(q)
  OBVIOUS
<1>2. /\ N \in Nat /\ (\A i \in K : rank(i) \in 1..N) /\ (\A n \in 1..N : \E i \in K : rank(i) = n)
      /\ (Len(q) >= 1 /\ 1 \in K) => rank(1) = 1
  BY <1>1, NthIndex
<1>3. Without(q) = [n \in 1..N |-> q[at[n]]]
  BY DEF Without
<1> HIDE DEF N, rank
<1>4. \A n \in 1..N : at[n] \in K /\ rank(at[n]) = n
  BY <1>2
<1>5. Without(q) \in Seq(S) /\ DOMAIN Without(q) = 1..N
  <2>1. \A n \in 1..N : q[at[n]] \in S
    BY <1>1, <1>4
  <2> QED BY <1>2, <1>3, <2>1
<1>6. ASSUME q # <<>>, Head(q) \notin Streamed PROVE Without(q) # <<>>
  <2>1. Len(q) >= 1 /\ 1 \in K
    BY <1>1, <1>6
  <2>2. 1 \in DOMAIN Without(q)
    BY <1>2, <1>5, <2>1
  <2>3. DOMAIN <<>> = {}
    OBVIOUS
  <2> QED BY <2>2, <2>3
<1>7. at \in [DOMAIN Without(q) -> DOMAIN q]
  BY <1>1, <1>4, <1>5
<1>8. \A n \in DOMAIN Without(q) :
         Without(q)[n] = q[at[n]] /\ q[at[n]] \notin Streamed /\ (at[n] = 1 => n = 1)
  <2> SUFFICES ASSUME NEW n \in 1..N
               PROVE  Without(q)[n] = q[at[n]] /\ q[at[n]] \notin Streamed /\ (at[n] = 1 => n = 1)
    BY <1>5
  <2>1. at[n] = 1 => n = 1
    <3> SUFFICES ASSUME at[n] = 1 PROVE n = 1
      OBVIOUS
    <3>1. 1 \in K /\ rank(1) = n
      BY <1>4
    <3>2. Len(q) >= 1
      BY <1>1, <3>1
    <3> QED BY <1>2, <3>1, <3>2
  <2> QED BY <1>3, <1>4, <2>1
<1>9. \A n, k \in DOMAIN Without(q) : at[n] = at[k] => n = k
  BY <1>4, <1>5
<1> HIDE DEF at
<1> QED BY <1>5, <1>6, <1>7, <1>8, <1>9

-----------------------------------------------------------------------------
Kept == Streamed \cup {"op"}

\* The loads of q, w and d are loads, and those that wait for the session check keep what is
\* shown.
Lined(q, w, d) == q \in Seq(Loads) /\ w \in Seq(Kept) /\ d \subseteq Loads

Single(q) == \A i, j \in DOMAIN q : q[i] = "op" /\ q[j] = "op" => i = j

\* The load of the operation is in one place, and not twice.
OpOnce(q, w, d) ==
    /\ Single(q) /\ Single(w)
    /\ "op" \in Elements(q) => "op" \notin Elements(w) /\ "op" \notin d
    /\ "op" \in Elements(w) => "op" \notin d

OpNowhere(q, w, d) == "op" \notin Elements(q) /\ "op" \notin Elements(w) /\ "op" \notin d

LEMMA Names == /\ "op" \in Loads /\ "op" \notin Streamed /\ Streamed \subseteq Loads /\ Kept \subseteq Loads
               /\ Awaited \subseteq Loads
               /\ \A k \in Streamed : Retains(k)
  BY SessionAssumption DEF Loads, Streamed, Kept, Awaited, Retains

LEMMA EmptyLine == Elements(<<>>) = {} /\ <<>> \in Seq(Loads) /\ <<>> \in Seq(Kept) /\ Single(<<>>)
  BY DEF Elements, Single

\* What a load joins, and where its caller ends when it is refused.
LEMMA LoadCases ==
    ASSUME NEW k, NEW retain, NEW q, NEW w, NEW d, NEW c, Load(k, retain, q, w, d, c)
    PROVE  \/ /\ queue' = q /\ waiting' = w /\ done' = d \cup ({k} \cap Awaited)
           \/ /\ queue' = q /\ waiting' = Append(w, k) /\ done' = d /\ retain
           \/ /\ queue' = Append(q, k) /\ waiting' = w /\ done' = d
  BY DEF Load

LEMMA AppendElements ==
    ASSUME NEW S, NEW q \in Seq(S), NEW k \in S
    PROVE  /\ Append(q, k) \in Seq(S) /\ Append(q, k) # <<>>
           /\ Elements(Append(q, k)) = Elements(q) \cup {k}
           /\ Single(q) /\ (k = "op" => "op" \notin Elements(q)) => Single(Append(q, k))
<1>1. Append(q, k) \in Seq(S)
  OBVIOUS
<1>2. /\ DOMAIN Append(q, k) = DOMAIN q \cup {Len(q) + 1}
      /\ \A i \in DOMAIN q : Append(q, k)[i] = q[i]
      /\ Append(q, k)[Len(q) + 1] = k
  OBVIOUS
<1>3. Elements(Append(q, k)) = Elements(q) \cup {k}
  BY <1>2 DEF Elements
<1>4. Single(q) /\ (k = "op" => "op" \notin Elements(q)) => Single(Append(q, k))
  BY <1>2 DEF Single, Elements
<1>5. DOMAIN <<>> = {}
  OBVIOUS
<1> QED BY <1>1, <1>2, <1>3, <1>4, <1>5

LEMMA LoadOnce ==
    ASSUME NEW k \in Loads, NEW retain, NEW q, NEW w, NEW d, NEW c,
           Load(k, retain, q, w, d, c), retain => k \in Kept,
           Lined(q, w, d), OpOnce(q, w, d), k = "op" => OpNowhere(q, w, d)
    PROVE  /\ Lined(queue', waiting', done') /\ OpOnce(queue', waiting', done')
           /\ InFlight' \subseteq Elements(w) \cup Elements(q) \cup d \cup {k}
           /\ Elements(waiting') \subseteq Elements(w) \cup {k}
<1> USE DEF Lined, OpOnce, OpNowhere, InFlight
<1>1. CASE queue' = q /\ waiting' = w /\ done' = d \cup ({k} \cap Awaited)
  BY <1>1, Names
<1>2. CASE queue' = q /\ waiting' = Append(w, k) /\ done' = d /\ k \in Kept
  <2>1. /\ Append(w, k) \in Seq(Kept) /\ Elements(Append(w, k)) = Elements(w) \cup {k}
        /\ Single(Append(w, k))
    BY <1>2, AppendElements
  <2> QED BY <1>2, <2>1
<1>3. CASE queue' = Append(q, k) /\ waiting' = w /\ done' = d
  <2>1. /\ Append(q, k) \in Seq(Loads) /\ Elements(Append(q, k)) = Elements(q) \cup {k}
        /\ Single(Append(q, k)) /\ Append(q, k) # <<>>
    BY AppendElements
  <2> QED BY <1>3, <2>1
<1> QED BY <1>1, <1>2, <1>3, LoadCases

LEMMA LoadFills ==
    ASSUME NEW k \in Loads, NEW retain, NEW q \in Seq(Loads), NEW w, NEW d, NEW c,
           Load(k, retain, q, w, d, c), q # <<>>
    PROVE  queue' # <<>>
<1>1. queue' = q \/ queue' = Append(q, k)
  BY LoadCases
<1>2. Append(q, k) # <<>>
  BY AppendElements
<1> QED BY <1>1, <1>2

\* The reads that a reset or a restore end give their callers back.
LEMMA EndedOnce ==
    ASSUME NEW q, NEW w, NEW d, Lined(q, w, d), OpOnce(q, w, d)
    PROVE  Lined(<<>>, w, d \cup Ended(q)) /\ OpOnce(<<>>, w, d \cup Ended(q))
  BY EmptyLine, Names DEF Lined, OpOnce, Ended

-----------------------------------------------------------------------------
\* A load that keeps nothing is the first one, and follows a reset.
FreshFirst ==
    \A i \in DOMAIN queue : ~Retains(queue[i]) => i = 1 /\ current = NoData

\* The loads in flight, and the operation that one of them may belong to.
Lines ==
    /\ Lined(queue, waiting, done) /\ OpOnce(queue, waiting, done)
    /\ reading.phase # "idle" => queue # <<>>
    /\ "op" \in InFlight => op.phase = "load"
    /\ "op" \in Elements(waiting) => op.kind = "resume"

\* Who edits is signed in; who is about to sign in is not.
Editing ==
    /\ draft = "open" => SignedIn(auth)
    /\ op.kind = "login" /\ op.phase # "load" => ~SignedIn(auth)

\* What is accepted, shown and read, from the oldest to the newest.
InOrder ==
    /\ current # NoData => current \in Snapshot /\ current.rev <= rev
    /\ campaign.state = "ready" => campaign.snap \in Snapshot /\ campaign.snap.rev <= rev
    /\ reading.phase = "answered" =>
          /\ reading.snap.rev <= rev
          /\ campaign.state = "ready" => campaign.snap.rev <= reading.snap.rev

DraftInv == AcceptInv /\ Lines /\ FreshFirst /\ Editing /\ InOrder

LEMMA DraftInit == Init => DraftInv
<1> SUFFICES ASSUME Init PROVE DraftInv
  OBVIOUS
<1>1. Lines /\ FreshFirst
  BY EmptyLine DEF Init, Lines, FreshFirst, Lined, OpOnce, InFlight, Idle
<1>2. Editing /\ InOrder
  BY SessionAssumption DEF Init, Editing, InOrder, NoOp, Loading, Idle
<1> QED BY <1>1, <1>2, AcceptInit DEF DraftInv

LEMMA OthersRetained ==
    ASSUME DraftInv, "op" \notin Elements(queue), NEW i \in DOMAIN queue, queue[i] \notin Streamed
    PROVE  queue[i] # "op" /\ i = 1 /\ current = NoData
  BY Names DEF DraftInv, FreshFirst, Retains, Elements, Streamed

\* Steps that leave the loads alone.
LEMMA LinesStay ==
    ASSUME DraftInv, UNCHANGED <<queue, waiting, done, current>>,
           reading' = reading \/ reading'.phase = "idle" \/ queue # <<>>,
           op' = op \/ (~(op'.phase = "load") /\ "op" \notin InFlight)
    PROVE  Lines' /\ FreshFirst'
<1>1. Lines'
  BY DEF DraftInv, Lines, InFlight
<1>2. CASE op' = op
  BY <1>1, <1>2 DEF DraftInv, FreshFirst, Retains
<1>3. CASE "op" \notin InFlight
  <2>1. \A i \in DOMAIN queue : queue[i] # "op"
    BY <1>3 DEF InFlight, Elements
  <2> QED BY <1>1, <2>1 DEF DraftInv, FreshFirst, Retains
<1> QED BY <1>1, <1>2, <1>3

\* A load after a reset is the first one.
LEMMA FirstLoad ==
    ASSUME NEW k, NEW retain, NEW w, NEW d, NEW c, Load(k, retain, <<>>, w, d, c),
           current' = NoData
    PROVE  FreshFirst'
<1>1. queue' = <<>> \/ queue' = Append(<<>>, k)
  BY LoadCases
<1>2. DOMAIN <<>> = {} /\ DOMAIN Append(<<>>, k) = {1}
  OBVIOUS
<1> QED BY <1>1, <1>2 DEF FreshFirst

\* A load that keeps what is shown may follow any other.
LEMMA LaterLoad ==
    ASSUME DraftInv, NEW k \in Loads, NEW retain, NEW w, NEW d, NEW c,
           Load(k, retain, queue, w, d, c), current' = current,
           Retains(k)', \A l \in Loads : Retains(l) => Retains(l)'
    PROVE  FreshFirst'
<1>1. queue \in Seq(Loads) /\ (queue' = queue \/ queue' = Append(queue, k))
  BY LoadCases DEF DraftInv, Lines, Lined
<1>2. CASE queue' = queue
  <2>1. SUFFICES ASSUME NEW i \in DOMAIN queue', ~Retains(queue[i])' PROVE i = 1 /\ current' = NoData
    BY DEF FreshFirst
  <2>2. PICK l \in Loads : l = queue[i] /\ l = queue'[i] /\ i \in DOMAIN queue
    BY <1>1, <1>2
  <2>3. ~Retains(l)'
    BY <2>1, <2>2 DEF Retains
  <2> QED BY <2>2, <2>3 DEF DraftInv, FreshFirst
<1>3. CASE queue' = Append(queue, k)
  <2>1. /\ DOMAIN queue' = DOMAIN queue \cup {Len(queue) + 1}
        /\ \A i \in DOMAIN queue : queue'[i] = queue[i]
        /\ queue'[Len(queue) + 1] = k
    BY <1>1, <1>3
  <2>2. SUFFICES ASSUME NEW i \in DOMAIN queue', ~Retains(queue[i])' PROVE i = 1 /\ current' = NoData
    BY DEF FreshFirst
  <2>3. i \in DOMAIN queue
    BY <2>1, <2>2 DEF Retains
  <2>4. ~Retains(queue[i])
    <3>1. PICK l \in Loads : l = queue[i] /\ l = queue'[i]
      BY <1>1, <2>1, <2>3
    <3>2. ~Retains(l)'
      BY <2>2, <3>1 DEF Retains
    <3> QED BY <3>1, <3>2
  <2> QED BY <2>3, <2>4 DEF DraftInv, FreshFirst
<1> QED BY <1>1, <1>2, <1>3

\* The read that is over leaves the queue; what follows it keeps what is shown.
LEMMA ReturnedLines ==
    ASSUME DraftInv, Returned, reading.phase # "idle", UNCHANGED <<op, waiting>>
    PROVE  Lines' /\ FreshFirst'
<1> DEFINE rest == Tail(queue)
<1>1. queue \in Seq(Loads) /\ queue # <<>> /\ queue' = rest /\ reading'.phase = "idle"
  BY DEF DraftInv, Lines, Lined, Returned, Idle
<1>2. /\ rest \in Seq(Loads) /\ DOMAIN rest = 1..(Len(queue) - 1) /\ Len(queue) \in Nat \ {0}
      /\ DOMAIN queue = 1..Len(queue) /\ Head(queue) = queue[1]
      /\ \A i \in DOMAIN rest : rest[i] = queue[i + 1]
  BY <1>1
<1> HIDE DEF rest
<1>3. \A i \in DOMAIN rest : i + 1 \in DOMAIN queue /\ i + 1 # 1
  BY <1>2
<1>4. FreshFirst'
  <2>1. \A i \in DOMAIN rest : Retains(rest[i])
    BY <1>2, <1>3 DEF DraftInv, FreshFirst
  <2> QED BY <1>1, <2>1 DEF FreshFirst, Retains
<1>5. Elements(rest) \subseteq Elements(queue)
  BY <1>2, <1>3 DEF Elements
<1>6. Single(rest)
  <2>1. \A i, j \in DOMAIN rest : rest[i] = "op" /\ rest[j] = "op" => i + 1 = j + 1
    BY <1>2, <1>3 DEF DraftInv, Lines, OpOnce, Single
  <2>2. \A i, j \in DOMAIN rest : i + 1 = j + 1 => i = j
    BY <1>2
  <2> QED BY <2>1, <2>2 DEF Single
<1>7. Head(queue) = "op" => "op" \notin Elements(rest)
  <2> SUFFICES ASSUME Head(queue) = "op", NEW i \in DOMAIN rest, rest[i] = "op" PROVE FALSE
    BY DEF Elements
  <2> QED BY <1>2, <1>3 DEF DraftInv, Lines, OpOnce, Single
<1>8. Head(queue) \in Elements(queue) /\ Head(queue) \in Loads
  BY <1>1, <1>2 DEF Elements
<1>9. done' = done \cup ({Head(queue)} \cap Awaited)
  BY DEF Returned
<1>10. OpOnce(queue', waiting', done')
  BY <1>1, <1>5, <1>6, <1>7, <1>8, <1>9 DEF DraftInv, Lines, OpOnce
<1>11. Lined(queue', waiting', done')
  BY <1>1, <1>2, <1>8, <1>9 DEF DraftInv, Lines, Lined
<1>12. InFlight' \subseteq InFlight
  BY <1>1, <1>5, <1>8, <1>9 DEF InFlight
<1> QED BY <1>1, <1>4, <1>10, <1>11, <1>12 DEF DraftInv, Lines

\* What the caller of a load has to show about the lines.
LEMMA LinesFrom ==
    ASSUME DraftInv, NEW k, k # "op", op' = op,
           Lined(queue', waiting', done'), OpOnce(queue', waiting', done'),
           InFlight' \subseteq InFlight \cup {k}, Elements(waiting') \subseteq Elements(waiting) \cup {k},
           reading'.phase # "idle" => queue' # <<>>
    PROVE  Lines'
  BY DEF DraftInv, Lines

\* The stream's reads leave the queue, and those that waited for the check are given up.
LEMMA ClosingLines ==
    ASSUME DraftInv, Closing(done \cup Ended(waiting)), waiting' = <<>>, current' = current, op' = op
    PROVE  Lines' /\ FreshFirst'
<1> DEFINE rest == Without(queue)
<1>1. queue \in Seq(Loads) /\ queue' = rest /\ done' = (done \cup Ended(waiting)) \ Streamed
  BY DEF DraftInv, Lines, Lined, Closing
<1>2. /\ rest \in Seq(Loads)
      /\ queue # <<>> /\ Head(queue) \notin Streamed => rest # <<>>
  BY <1>1, WithoutKeeps
<1>3. PICK at \in [DOMAIN rest -> DOMAIN queue] :
         /\ \A n \in DOMAIN rest : rest[n] = queue[at[n]] /\ queue[at[n]] \notin Streamed
         /\ \A n, k \in DOMAIN rest : at[n] = at[k] => n = k
         /\ \A n \in DOMAIN rest : at[n] = 1 => n = 1
  BY <1>1, WithoutKeeps
<1> HIDE DEF rest
<1>4. FreshFirst'
  <2>1. \A n \in DOMAIN rest : ~Retains(rest[n]) => n = 1 /\ current = NoData
    BY <1>3 DEF DraftInv, FreshFirst
  <2> QED BY <1>1, <2>1 DEF FreshFirst, Retains
<1>5. Elements(rest) \subseteq Elements(queue)
  BY <1>3 DEF Elements
<1>6. Single(rest)
  <2> SUFFICES ASSUME NEW n \in DOMAIN rest, NEW k \in DOMAIN rest, rest[n] = "op", rest[k] = "op"
               PROVE  n = k
    BY DEF Single
  <2>1. at[n] \in DOMAIN queue /\ at[k] \in DOMAIN queue /\ queue[at[n]] = "op" /\ queue[at[k]] = "op"
    BY <1>3
  <2>2. at[n] = at[k]
    BY <2>1 DEF DraftInv, Lines, OpOnce, Single
  <2> QED BY <1>3, <2>2
<1>7. Elements(waiting) \subseteq Loads
  BY Names DEF DraftInv, Lines, Lined, Elements
<1>8. Lined(queue', waiting', done')
  BY <1>1, <1>2, <1>7, EmptyLine DEF DraftInv, Lines, Lined, Ended
<1>9. OpOnce(queue', waiting', done')
  BY <1>1, <1>5, <1>6, EmptyLine DEF DraftInv, Lines, OpOnce, Ended
<1>10. InFlight' \subseteq InFlight
  BY <1>1, <1>5, EmptyLine DEF InFlight, Ended
<1>11. reading'.phase # "idle" => queue' # <<>>
  BY <1>1, <1>2 DEF DraftInv, Lines, Closing, Idle
<1>12. Elements(waiting') = {}
  BY EmptyLine
<1>13. Lines'
  BY <1>8, <1>9, <1>10, <1>11, <1>12 DEF DraftInv, Lines
<1> QED BY <1>4, <1>13

\* The loads that waited for the check follow those in the queue.
LEMMA HeldLines ==
    ASSUME DraftInv, waiting' = <<>>, queue' = queue \o waiting, UNCHANGED <<current, op, done, reading>>
    PROVE  Lines' /\ FreshFirst'
<1> DEFINE all == queue \o waiting
<1>1. queue \in Seq(Loads) /\ waiting \in Seq(Kept) /\ waiting \in Seq(Loads)
  BY Names DEF DraftInv, Lines, Lined
<1>2. /\ all \in Seq(Loads) /\ DOMAIN all = 1..(Len(queue) + Len(waiting))
      /\ Len(queue) \in Nat /\ Len(waiting) \in Nat
      /\ DOMAIN queue = 1..Len(queue) /\ DOMAIN waiting = 1..Len(waiting)
      /\ \A i \in DOMAIN queue : all[i] = queue[i]
      /\ \A i \in DOMAIN all \ DOMAIN queue :
            i - Len(queue) \in DOMAIN waiting /\ all[i] = waiting[i - Len(queue)]
  BY <1>1
<1> HIDE DEF all
<1>3. Elements(all) \subseteq Elements(queue) \cup Elements(waiting)
  <2> SUFFICES ASSUME NEW i \in DOMAIN all PROVE all[i] \in Elements(queue) \cup Elements(waiting)
    BY DEF Elements
  <2> QED BY <1>2 DEF Elements
<1>4. \A i \in DOMAIN waiting : Retains(waiting[i])
  <2> SUFFICES ASSUME NEW i \in DOMAIN waiting PROVE Retains(waiting[i])
    OBVIOUS
  <2>1. waiting[i] \in Streamed \/ waiting[i] = "op"
    BY <1>1, <1>2 DEF Kept
  <2>2. waiting[i] = "op" => op.kind = "resume"
    BY DEF DraftInv, Lines, Elements
  <2> QED BY <2>1, <2>2 DEF Retains
<1>5. FreshFirst'
  <2>1. \A i \in DOMAIN all : ~Retains(all[i]) => i = 1 /\ current = NoData
    BY <1>2, <1>4 DEF DraftInv, FreshFirst
  <2> QED BY <2>1 DEF FreshFirst, Retains, all
<1>6. Single(all)
  <2> SUFFICES ASSUME NEW i \in DOMAIN all, NEW j \in DOMAIN all, all[i] = "op", all[j] = "op"
               PROVE  i = j
    BY DEF Single
  <2>1. CASE i \in DOMAIN queue
    <3>1. "op" \in Elements(queue)
      BY <1>2, <2>1 DEF Elements
    <3>2. j \in DOMAIN queue
      BY <1>2, <3>1 DEF DraftInv, Lines, OpOnce, Elements
    <3> QED BY <1>2, <2>1, <3>2 DEF DraftInv, Lines, OpOnce, Single
  <2>2. CASE i \notin DOMAIN queue
    <3>1. i - Len(queue) \in DOMAIN waiting /\ waiting[i - Len(queue)] = "op"
      BY <1>2, <2>2
    <3>2. "op" \in Elements(waiting)
      BY <3>1 DEF Elements
    <3>3. j \notin DOMAIN queue
      BY <1>2, <3>2 DEF DraftInv, Lines, OpOnce, Elements
    <3>4. j - Len(queue) \in DOMAIN waiting /\ waiting[j - Len(queue)] = "op"
      BY <1>2, <3>3
    <3>5. i - Len(queue) = j - Len(queue)
      BY <3>1, <3>4 DEF DraftInv, Lines, OpOnce, Single
    <3> QED BY <1>2, <3>5
  <2> QED BY <2>1, <2>2
<1>7. queue' = all
  BY DEF all
<1>8. Lined(queue', waiting', done') /\ OpOnce(queue', waiting', done')
  BY <1>2, <1>3, <1>6, <1>7, EmptyLine DEF DraftInv, Lines, Lined, OpOnce
<1>9. InFlight' \subseteq InFlight
  BY <1>3, <1>7, EmptyLine DEF InFlight
<1>10. queue # <<>> => all # <<>>
  <2> SUFFICES ASSUME queue # <<>> PROVE all # <<>>
    OBVIOUS
  <2>1. Len(queue) # 0
    BY <1>1
  <2>2. 1 \in DOMAIN all
    BY <1>2, <2>1
  <2>3. DOMAIN <<>> = {}
    OBVIOUS
  <2> QED BY <2>2, <2>3
<1>11. Elements(waiting') = {}
  BY EmptyLine
<1>12. Lines'
  BY <1>7, <1>8, <1>9, <1>10, <1>11 DEF DraftInv, Lines
<1> QED BY <1>5, <1>12

LEMMA DraftLines == ASSUME DraftInv, [Next]_vars PROVE Lines' /\ FreshFirst'
<1> USE DEF server, reads
<1>0. Lined(queue, waiting, done) /\ OpOnce(queue, waiting, done)
  BY DEF DraftInv, Lines
<1>1. CASE Server \/ UNCHANGED vars
  <2>1. UNCHANGED <<op, queue, waiting, done, current, reading>>
    BY <1>1 DEF Server, CampaignChanges, CampaignRestored, SessionEnds, AnotherTabSignsIn, StreamReconnects, Elsewhere, vars
  <2> QED BY <2>1, LinesStay
<1>2. CASE BootAccepts
  <2>0. Load("boot", FALSE, queue, waiting, done, NoCheck)
    BY <1>2 DEF BootAccepts
  <2>1. queue = <<>> /\ current' = NoData /\ op' = op /\ reading'.phase = "idle"
    BY <1>2 DEF BootAccepts, DraftInv, AcceptInv, Unopened, Idle
  <2>2. FreshFirst'
    BY <2>0, <2>1, FirstLoad
  <2>3. "boot" \in Loads /\ "boot" # "op"
    BY DEF Loads
  <2>4. /\ Lined(queue', waiting', done') /\ OpOnce(queue', waiting', done')
        /\ InFlight' \subseteq InFlight \cup {"boot"}
        /\ Elements(waiting') \subseteq Elements(waiting) \cup {"boot"}
    BY <1>0, <2>0, <2>3, LoadOnce DEF InFlight
  <2> QED BY <2>1, <2>2, <2>3, <2>4, LinesFrom
<1>3. CASE BootGoesOn \/ RestoreOver
  <2>1. UNCHANGED <<op, queue, waiting, current, reading>> /\ done' \subseteq done
    BY <1>3 DEF BootGoesOn, RestoreOver
  <2>2. FreshFirst'
    BY <2>1 DEF DraftInv, FreshFirst, Retains
  <2> QED BY <2>1, <2>2 DEF DraftInv, Lines, Lined, OpOnce, InFlight
<1>4. CASE SendRead \/ ServeRead
  <2>1. UNCHANGED <<op, queue, waiting, done, current>> /\ queue # <<>>
    BY <1>4 DEF SendRead, ServeRead, DraftInv, Lines
  <2> QED BY <2>1, LinesStay
<1>5. CASE ShowRead \/ FailRead
  BY <1>5, ReturnedLines DEF ShowRead, FailRead
<1>6. ASSUME NEW e \in Events, EventArrives(e) PROVE Lines' /\ FreshFirst'
  <2>1. /\ Load(e, TRUE, queue, waiting, done, check) /\ UNCHANGED <<current, op, reading>>
    BY <1>6 DEF EventArrives
  <2>2. e \in Loads /\ e \in Kept /\ e # "op" /\ e \in Streamed
    BY SessionAssumption DEF Loads, Kept, Streamed
  <2>3. FreshFirst'
    <3>1. Retains(e)' /\ \A l \in Loads : Retains(l) => Retains(l)'
      BY <2>1, <2>2 DEF Retains
    <3> QED BY <2>1, <2>2, <3>1, LaterLoad
  <2>4. /\ Lined(queue', waiting', done') /\ OpOnce(queue', waiting', done')
        /\ InFlight' \subseteq InFlight \cup {e}
        /\ Elements(waiting') \subseteq Elements(waiting) \cup {e}
    <3>1. Elements(waiting) \cup Elements(queue) \cup done = InFlight
      BY DEF InFlight
    <3> QED BY <1>0, <2>1, <2>2, <3>1, LoadOnce
  <2>5. reading'.phase # "idle" => queue' # <<>>
    <3>1. queue # <<>> => queue' # <<>>
      BY <1>0, <2>1, <2>2, LoadFills DEF Lined
    <3> QED BY <2>1, <3>1 DEF DraftInv, Lines
  <2> QED BY <2>1, <2>2, <2>3, <2>4, <2>5, LinesFrom
<1>7. CASE RestoreArrives
  <2> DEFINE d == (done \cup Ended(queue)) \ {"restore"}
  <2>1. /\ Load("restore", TRUE, <<>>, waiting, d, check)
        /\ op' = op /\ reading'.phase = "idle" /\ current' = NoData
    BY <1>7 DEF RestoreArrives, Reset, Idle
  <2>2. "restore" \in Loads /\ "restore" \in Kept /\ "restore" # "op"
    BY DEF Loads, Kept, Streamed
  <2>3. FreshFirst'
    BY <2>1, FirstLoad
  <2>4. Lined(<<>>, waiting, d) /\ OpOnce(<<>>, waiting, d)
    BY <1>0, EndedOnce DEF Lined, OpOnce
  <2>5. Elements(waiting) \cup Elements(<<>>) \cup d \subseteq InFlight
    BY EmptyLine DEF InFlight, Ended
  <2> HIDE DEF d
  <2>6. /\ Lined(queue', waiting', done') /\ OpOnce(queue', waiting', done')
        /\ InFlight' \subseteq InFlight \cup {"restore"}
        /\ Elements(waiting') \subseteq Elements(waiting) \cup {"restore"}
    BY <2>1, <2>2, <2>4, <2>5, LoadOnce
  <2> QED BY <2>1, <2>2, <2>3, <2>6, LinesFrom
<1>8. CASE Retry
  <2> DEFINE d == done \cup Ended(queue)
  <2>1. /\ Load("retry", FALSE, <<>>, waiting, d, check)
        /\ op' = op /\ reading'.phase = "idle" /\ current' = NoData
    BY <1>8 DEF Retry, Reset, Idle
  <2>2. "retry" \in Loads /\ "retry" # "op"
    BY DEF Loads
  <2>3. FreshFirst'
    BY <2>1, FirstLoad
  <2>4. Lined(<<>>, waiting, d) /\ OpOnce(<<>>, waiting, d)
    BY <1>0, EndedOnce
  <2>5. Elements(waiting) \cup Elements(<<>>) \cup d \subseteq InFlight
    BY EmptyLine DEF InFlight, Ended
  <2> HIDE DEF d
  <2>6. /\ Lined(queue', waiting', done') /\ OpOnce(queue', waiting', done')
        /\ InFlight' \subseteq InFlight \cup {"retry"}
        /\ Elements(waiting') \subseteq Elements(waiting) \cup {"retry"}
    BY <2>1, <2>2, <2>4, <2>5, LoadOnce
  <2> QED BY <2>1, <2>2, <2>3, <2>6, LinesFrom
<1>9. CASE AuthorityRejected \/ CheckAnswered \/ GraphRejected \/ AddonsLostWhileEditing \/ OpenDraft
           \/ CloseDraft
  BY <1>9, LinesStay DEF AuthorityRejected, CheckAnswered, GraphRejected, AddonsLostWhileEditing,
     OpenDraft, CloseDraft
<1>10. CASE CheckHolds
  BY <1>10, HeldLines DEF CheckHolds
<1>11. CASE CheckFails
  BY <1>11, ClosingLines DEF CheckFails
<1>12. CASE LogIn \/ Resume \/ ServerSignsOut \/ OpFails \/ \E r \in Roles : ServerSignsIn(r)
  <2>1. UNCHANGED <<queue, waiting, done, current, reading>>
    BY <1>12 DEF LogIn, Resume, ServerSignsOut, OpFails, ServerSignsIn
  <2>2. op.phase # "load"
    BY <1>12 DEF LogIn, Resume, ServerSignsOut, OpFails, ServerSignsIn, Busy, NoOp
  <2>3. op'.phase # "load"
    <3>1. CASE LogIn \/ Resume \/ OpFails
      BY <3>1 DEF LogIn, Resume, OpFails, Sent, Released, NoOp
    <3>2. CASE ServerSignsOut \/ \E r \in Roles : ServerSignsIn(r)
      <4>1. \E s : op' = [op EXCEPT !.phase = "answered", !.ans = s]
        BY <3>2 DEF ServerSignsOut, ServerSignsIn
      <4> QED BY <4>1 DEF DraftInv, AcceptInv, Typed
    <3> QED BY <1>12, <3>1, <3>2
  <2> QED BY <2>1, <2>2, <2>3, LinesStay DEF DraftInv, Lines
<1>13. CASE LogOut
  <2>1. /\ UNCHANGED <<queue, current, reading>> /\ waiting' = <<>> /\ done' = done \cup Ended(waiting)
        /\ op.phase # "load" /\ op'.phase = "sent"
    BY <1>13 DEF LogOut, Sent, Busy, NoOp
  <2>2. "op" \notin InFlight
    BY <2>1 DEF DraftInv, Lines
  <2>3. InFlight' \subseteq InFlight /\ Elements(waiting') = {} /\ done' \subseteq Loads
    BY <1>0, <2>1, EmptyLine, Names DEF InFlight, Ended, Lined, Elements
  <2>4. Lined(queue', waiting', done') /\ OpOnce(queue', waiting', done')
    BY <1>0, <2>1, <2>2, <2>3, EmptyLine DEF Lined, OpOnce, InFlight
  <2>5. Lines'
    BY <2>1, <2>2, <2>3, <2>4 DEF DraftInv, Lines
  <2>6. \A i \in DOMAIN queue : queue[i] # "op"
    BY <2>2 DEF InFlight, Elements
  <2> QED BY <2>1, <2>5, <2>6 DEF DraftInv, FreshFirst, Retains
<1>14. CASE LoginAccepted \/ LogoutAccepted
  <2>1. PICK rec : NewAuthority(rec)
    BY <1>14 DEF LoginAccepted, LogoutAccepted
  <2>2. "op" \notin InFlight /\ op.kind # "resume"
    BY <1>14 DEF LoginAccepted, LogoutAccepted, DraftInv, Lines
  <2>3. /\ Load("op", FALSE, <<>>, <<>>, InFlight \cap {"op"}, NoCheck)
        /\ reading'.phase = "idle" /\ current' = NoData /\ op'.phase = "load"
    BY <2>1 DEF NewAuthority, Reset, Idle, DraftInv, AcceptInv, Typed
  <2> DEFINE d == InFlight \cap {"op"}
  <2>4. FreshFirst'
    BY <2>3, FirstLoad
  <2>5. Lined(<<>>, <<>>, d) /\ OpOnce(<<>>, <<>>, d) /\ OpNowhere(<<>>, <<>>, d)
    BY <2>2, EmptyLine DEF Lined, OpOnce, OpNowhere
  <2>6. Lined(queue', waiting', done') /\ OpOnce(queue', waiting', done')
    BY <2>3, <2>5, Names, LoadOnce
  <2>7. waiting' = <<>>
    BY <2>3 DEF Load
  <2> QED BY <2>3, <2>4, <2>6, <2>7, EmptyLine DEF Lines
<1>15. CASE ResumeAccepted
  <2> DEFINE d == done \cup Ended(waiting)
  <2>1. /\ Load("op", TRUE, queue, <<>>, d, NoCheck) /\ UNCHANGED <<current, reading>>
        /\ op.phase = "answered" /\ op'.phase = "load" /\ op.kind = "resume" /\ op'.kind = "resume"
    BY <1>15 DEF ResumeAccepted, DraftInv, AcceptInv, Typed
  <2>2. "op" \notin InFlight
    BY <2>1 DEF DraftInv, Lines
  <2>3. FreshFirst'
    <3>1. Retains("op")' /\ \A l \in Loads : Retains(l) => Retains(l)'
      BY <2>1 DEF Retains
    <3> QED BY <2>1, <3>1, Names, LaterLoad
  <2>4. d \subseteq Loads /\ "op" \notin d /\ "op" \notin Elements(queue)
    BY <1>0, <2>2, Names DEF InFlight, Ended, Lined, Elements
  <2>5. Lined(queue, <<>>, d) /\ OpOnce(queue, <<>>, d) /\ OpNowhere(queue, <<>>, d)
    BY <1>0, <2>4, EmptyLine DEF Lined, OpOnce, OpNowhere
  <2> HIDE DEF d
  <2>6. "op" \in Kept
    BY DEF Kept
  <2>7. Lined(queue', waiting', done') /\ OpOnce(queue', waiting', done')
    BY <2>1, <2>5, <2>6, Names, LoadOnce
  <2>8. queue # <<>> => queue' # <<>>
    BY <1>0, <2>1, Names, LoadFills DEF Lined
  <2> QED BY <2>1, <2>3, <2>7, <2>8 DEF DraftInv, Lines
<1>16. CASE OpGoesOn
  <2>1. /\ UNCHANGED <<queue, waiting, current, reading>> /\ "op" \in done /\ done' = done \ {"op"}
    BY <1>16 DEF OpGoesOn
  <2>2. "op" \notin Elements(queue) /\ "op" \notin Elements(waiting) /\ "op" \notin InFlight'
    BY <1>0, <2>1 DEF OpOnce, InFlight
  <2>3. \A i \in DOMAIN queue : queue[i] # "op"
    BY <2>2 DEF Elements
  <2>4. FreshFirst'
    BY <2>1, <2>3 DEF DraftInv, FreshFirst, Retains
  <2> QED BY <1>0, <2>1, <2>2, <2>4 DEF DraftInv, Lines, Lined, OpOnce
<1>17. CASE AddonsLost
  <2> DEFINE d == InFlight \cap {"op"}
  <2>1. /\ Load("lost", FALSE, <<>>, <<>>, d, NoCheck) /\ reading'.phase = "idle" /\ current' = NoData
        /\ op' = op
    BY <1>17 DEF AddonsLost, Reset, Idle
  <2>2. FreshFirst'
    BY <2>1, FirstLoad
  <2>3. Lined(<<>>, <<>>, d) /\ OpOnce(<<>>, <<>>, d) /\ "lost" \in Loads /\ d \subseteq InFlight
    BY EmptyLine, Names DEF Lined, OpOnce, Loads
  <2> HIDE DEF d
  <2>4. /\ Lined(queue', waiting', done') /\ OpOnce(queue', waiting', done')
        /\ InFlight' \subseteq InFlight \cup {"lost"} /\ Elements(waiting') \subseteq {"lost"}
    BY <2>1, <2>3, EmptyLine, LoadOnce
  <2> QED BY <2>1, <2>2, <2>4, LinesFrom
<1> QED
  BY <1>1, <1>2, <1>3, <1>4, <1>5, <1>6, <1>7, <1>8, <1>9, <1>10, <1>11, <1>12, <1>13, <1>14, <1>15,
     <1>16, <1>17 DEF Next, Reading, Live, Checking, Operation, User, AddonSession

\* What a step may do to the page: take unsaved changes, and show an older campaign.
Survives ==
    /\ draft = "open" /\ draft' = "lost" => current = NoData \/ op.kind = "logout"
    /\ campaign.state = "ready" /\ campaign'.state = "ready"
          => campaign'.snap.rev >= campaign.snap.rev

LEMMA OrderStays ==
    ASSUME DraftInv, rev' = rev, campaign' = campaign \/ campaign'.state # "ready",
           reading' = reading \/ reading'.phase = "idle", current' = current \/ current' = NoData
    PROVE  InOrder' /\ (campaign.state = "ready" /\ campaign'.state = "ready"
                           => campaign'.snap.rev >= campaign.snap.rev)
  BY DEF DraftInv, InOrder, Snapshot

\* Draft, authority and operation are left as far as the editor is concerned.
LEMMA EditingStays ==
    ASSUME DraftInv, draft' = draft \/ draft' # "open", auth'.role = auth.role,
           op' = op \/ op'.kind # "login" \/ op'.phase = "load"
    PROVE  Editing'
  BY DEF DraftInv, Editing, SignedIn

LEMMA LoadShows ==
    ASSUME NEW k, NEW retain, NEW q, NEW w, NEW d, NEW c, Load(k, retain, q, w, d, c)
    PROVE  campaign' = campaign \/ campaign'.state # "ready"
  BY DEF Load, Loading

LEMMA DraftOrder == ASSUME DraftInv, [Next]_vars PROVE Editing' /\ InOrder' /\ Survives
<1> USE DEF server, reads
<1>1. CASE Server
  <2>1. /\ UNCHANGED <<auth, op, campaign, current, reading, draft>>
        /\ rev \in Nat /\ (rev' = rev \/ rev' = rev + 1)
    BY <1>1 DEF Server, CampaignChanges, CampaignRestored, SessionEnds, AnotherTabSignsIn, StreamReconnects, Elsewhere, DraftInv, AcceptInv, Typed
  <2>2. Editing'
    BY <2>1, EditingStays
  <2>3. reading.phase = "answered" => reading.snap.rev \in Nat /\ reading.snap.rev <= rev'
    BY <2>1 DEF DraftInv, AcceptInv, Typed, InOrder, Snapshot
  <2>4. \A s \in Snapshot : s.rev <= rev => s.rev <= rev'
    BY <2>1 DEF Snapshot
  <2>5. InOrder'
    BY <2>1, <2>3, <2>4 DEF DraftInv, InOrder
  <2>6. campaign.state = "ready" => campaign.snap.rev \in Nat
    BY DEF DraftInv, InOrder, Snapshot
  <2> QED BY <2>1, <2>2, <2>5, <2>6 DEF Survives
<1>2. CASE \/ BootGoesOn \/ RestoreOver \/ AuthorityRejected \/ CheckAnswered \/ GraphRejected
           \/ AddonsLostWhileEditing \/ CloseDraft \/ UNCHANGED vars
  <2>1. /\ UNCHANGED <<rev, auth, op, campaign, current, reading>>
        /\ draft' = draft \/ draft' = "none"
    BY <1>2 DEF BootGoesOn, RestoreOver, AuthorityRejected, CheckAnswered, GraphRejected,
       AddonsLostWhileEditing, CloseDraft, vars
  <2> QED BY <2>1, EditingStays, OrderStays DEF Survives
<1>3. CASE OpenDraft
  <2>1. UNCHANGED <<rev, auth, op, campaign, current, reading>> /\ SignedIn(auth) /\ draft' = "open"
    BY <1>3 DEF OpenDraft
  <2>2. Editing'
    BY <2>1 DEF DraftInv, Editing, SignedIn
  <2> QED BY <2>1, <2>2, OrderStays DEF Survives
<1>4. CASE BootAccepts
  <2>1. /\ UNCHANGED <<rev, op, current, reading, draft>> /\ draft = "none" /\ op = NoOp
        /\ Load("boot", FALSE, queue, waiting, done, NoCheck)
    BY <1>4 DEF BootAccepts, DraftInv, AcceptInv, Unopened
  <2>2. Editing'
    BY <2>1 DEF Editing, NoOp
  <2> QED BY <2>1, <2>2, LoadShows, OrderStays DEF Survives
<1>5. CASE SendRead
  <2>1. UNCHANGED <<rev, auth, op, campaign, current, draft>> /\ reading'.phase = "sent"
    BY <1>5 DEF SendRead
  <2>2. Editing'
    BY <2>1, EditingStays
  <2> QED BY <2>1, <2>2 DEF DraftInv, InOrder, Survives, Snapshot
<1>6. CASE ServeRead
  <2>1. UNCHANGED <<rev, auth, op, campaign, current, draft>> /\ reading'.snap = [reading.snap EXCEPT !.rev = rev]
    BY <1>6 DEF ServeRead
  <2>2. reading.snap \in Snapshot /\ rev \in Nat
    BY <1>6 DEF ServeRead, DraftInv, AcceptInv, Typed
  <2>3. reading'.snap.rev = rev
    BY <2>1, <2>2 DEF Snapshot
  <2>4. Editing'
    BY <2>1, EditingStays
  <2> QED BY <2>1, <2>2, <2>3, <2>4 DEF DraftInv, InOrder, Survives, Snapshot
<1>7. CASE ShowRead
  <2>1. /\ UNCHANGED <<rev, auth, op, draft>> /\ reading.phase = "answered" /\ current' = reading.snap
        /\ campaign' = Shown(reading.snap) /\ reading'.phase = "idle"
    BY <1>7 DEF ShowRead, Returned, Idle
  <2>2. reading.snap \in Snapshot
    BY <2>1 DEF DraftInv, AcceptInv, Typed
  <2>3. Editing'
    BY <2>1, EditingStays
  <2> QED BY <2>1, <2>2, <2>3 DEF DraftInv, InOrder, Survives, Snapshot, Shown
<1>8. CASE FailRead
  <2>1. /\ UNCHANGED <<rev, auth, op, current>> /\ reading.phase # "idle" /\ reading'.phase = "idle"
        /\ campaign' = IF Retains(Head(queue)) /\ current # NoData THEN Shown(current) ELSE Unavailable
    BY <1>8 DEF FailRead, Returned, Idle
  <2>2. draft' = IF draft = "open" /\ campaign'.state # "ready" THEN "lost" ELSE draft
    BY <1>8 DEF FailRead, DraftFollows
  <2>3. Editing'
    BY <2>1, <2>2, EditingStays
  <2>4. queue \in Seq(Loads) /\ queue # <<>>
    BY <2>1 DEF DraftInv, Lines, Lined
  <2>5. 1 \in DOMAIN queue /\ Head(queue) = queue[1]
    BY <2>4
  <2>6. ~Retains(Head(queue)) => current = NoData
    BY <2>5 DEF DraftInv, FreshFirst
  <2>7. current # NoData => campaign' = Shown(current) /\ campaign'.state = "ready" /\ campaign'.snap = current
    BY <2>1, <2>6 DEF Shown
  <2>8. current = NoData => campaign'.state # "ready"
    BY <2>1 DEF Unavailable
  <2>9. draft = "open" /\ draft' = "lost" => current = NoData
    BY <2>2, <2>7
  <2>10. InOrder'
    BY <2>1, <2>7, <2>8 DEF DraftInv, InOrder
  <2>11. campaign.state = "ready" /\ campaign'.state = "ready" => campaign'.snap = campaign.snap
    BY <2>7, <2>8 DEF DraftInv, AcceptInv, ReadFor
  <2> QED BY <2>3, <2>9, <2>10, <2>11 DEF Survives, DraftInv, InOrder, Snapshot
<1>9. CASE Live \/ Retry
  <2>1. /\ UNCHANGED <<rev, auth, op, draft>> /\ (reading' = reading \/ reading'.phase = "idle")
        /\ current' = current \/ current' = NoData
    <3>1. CASE \E e \in Events : EventArrives(e)
      BY <3>1 DEF EventArrives
    <3>2. CASE RestoreArrives
      BY <3>2 DEF RestoreArrives, Reset, Idle
    <3>3. CASE Retry
      BY <3>3 DEF Retry, Reset, Idle
    <3>4. CASE RestoreOver
      BY <3>4 DEF RestoreOver
    <3> QED BY <1>9, <3>1, <3>2, <3>3, <3>4 DEF Live
  <2>2. campaign' = campaign \/ campaign'.state # "ready"
    BY <1>9, LoadShows DEF Live, EventArrives, RestoreArrives, RestoreOver, Retry
  <2> QED BY <2>1, <2>2, EditingStays, OrderStays DEF Survives
<1>10. CASE CheckHolds
  <2>1. /\ UNCHANGED <<rev, op, draft, current, reading>> /\ auth'.role = auth.role
        /\ campaign' = campaign \/ campaign'.state # "ready"
    BY <1>10 DEF CheckHolds, Holds, Loading
  <2> QED BY <2>1, EditingStays, OrderStays DEF Survives
<1>11. CASE CheckFails
  <2>1. /\ UNCHANGED <<rev, auth, op, draft, current, campaign>> /\ (reading' = reading \/ reading'.phase = "idle")
    BY <1>11 DEF CheckFails, Closing, Idle
  <2> QED BY <2>1, EditingStays, OrderStays DEF Survives
<1>12. CASE LogIn \/ Resume \/ LogOut
  <2>1. UNCHANGED <<rev, auth, campaign, current, reading>> /\ (draft' = draft \/ draft' = "none")
    BY <1>12 DEF LogIn, Resume, LogOut
  <2>2. op'.kind = "login" => ~SignedIn(auth)
    BY <1>12, SessionAssumption DEF LogIn, Resume, LogOut, Sent, SignedIn, Anonymous
  <2>3. Editing'
    BY <2>1, <2>2 DEF DraftInv, Editing, SignedIn
  <2> QED BY <2>1, <2>3, OrderStays DEF Survives
<1>13. CASE ServerSignsOut \/ \E r \in Roles : ServerSignsIn(r)
  <2>1. UNCHANGED <<rev, auth, campaign, current, reading, draft>> /\ op.phase = "sent"
    BY <1>13 DEF ServerSignsOut, ServerSignsIn
  <2>2. \E s : op' = [op EXCEPT !.phase = "answered", !.ans = s]
    BY <1>13 DEF ServerSignsOut, ServerSignsIn
  <2>3. op'.kind = op.kind
    BY <2>2 DEF DraftInv, AcceptInv, Typed
  <2>4. Editing'
    BY <2>1, <2>3 DEF DraftInv, Editing, SignedIn
  <2> QED BY <2>1, <2>4, OrderStays DEF Survives
<1>14. CASE OpFails \/ OpGoesOn
  <2>1. UNCHANGED <<rev, auth, campaign, current, reading, draft>> /\ op' = NoOp
    BY <1>14 DEF OpFails, OpGoesOn, Released
  <2> QED BY <2>1, EditingStays, OrderStays DEF Survives, NoOp
<1>15. CASE LoginAccepted \/ LogoutAccepted
  <2>1. PICK r : NewAuthority(r)
    BY <1>15 DEF LoginAccepted, LogoutAccepted
  <2>2. op'.phase = "load" /\ op \in [kind : {"none", "login", "resume", "logout"},
               phase : {"idle", "sent", "answered", "load"}, ans : Answers]
    BY <2>1 DEF NewAuthority, DraftInv, AcceptInv, Typed
  <2>3. /\ rev' = rev /\ current' = NoData /\ reading'.phase = "idle"
        /\ campaign' = campaign \/ campaign'.state # "ready"
    BY <1>15, <2>1, LoadShows DEF LoginAccepted, LogoutAccepted, NewAuthority, Reset, Idle
  <2>4. draft = "open" => op.kind = "logout"
    BY <1>15 DEF LoginAccepted, LogoutAccepted, DraftInv, Editing
  <2>5. draft' = "open" => draft = "open" /\ campaign'.state = "ready"
    BY <1>15 DEF LoginAccepted, LogoutAccepted, DraftFollows
  <2>6. draft' # "open"
    <3>1. CASE draft = "open"
      <4>1. NewAuthority(FALSE) /\ recovering' = FALSE
        BY <1>15, <2>4, <3>1 DEF LoginAccepted, LogoutAccepted, NewAuthority
      <4>2. queue' = Append(<<>>, "op") /\ queue' # <<>>
        BY <4>1 DEF NewAuthority, Load
      <4>3. campaign' = Loading
        BY <4>1, <4>2 DEF NewAuthority, Load
      <4> QED BY <2>5, <4>3 DEF Loading
    <3> QED BY <2>5, <3>1
  <2>7. Editing'
    BY <2>2, <2>6 DEF Editing
  <2> QED BY <2>3, <2>4, <2>7, OrderStays DEF Survives
<1>16. CASE ResumeAccepted
  <2>1. /\ UNCHANGED <<rev, current, reading, draft>> /\ auth'.role = auth.role /\ op'.phase = "load"
        /\ campaign' = campaign \/ campaign'.state # "ready"
    BY <1>16, LoadShows DEF ResumeAccepted, DraftInv, AcceptInv, Typed
  <2> QED BY <2>1, EditingStays, OrderStays DEF Survives
<1>17. CASE AddonsLost
  <2>1. /\ UNCHANGED <<rev, op, draft>> /\ draft # "open" /\ auth' = Anonymous
        /\ reading'.phase = "idle" /\ current' = NoData
        /\ campaign' = campaign \/ campaign'.state # "ready"
    BY <1>17, LoadShows DEF AddonsLost, Reset, Idle
  <2>2. Editing'
    BY <2>1, SessionAssumption DEF Editing, SignedIn, Anonymous
  <2> QED BY <2>1, <2>2, OrderStays DEF Survives
<1> QED
  BY <1>1, <1>2, <1>3, <1>4, <1>5, <1>6, <1>7, <1>8, <1>9, <1>10, <1>11, <1>12, <1>13, <1>14, <1>15,
     <1>16, <1>17 DEF Next, Reading, Checking, Operation, User, AddonSession

LEMMA DraftStep == DraftInv /\ [Next]_vars => DraftInv'
  BY AcceptStep, DraftLines, DraftOrder DEF DraftInv

\* An open editor loses its text only when no campaign had been accepted, or at sign-out, and
\* the page never goes back to an older campaign: read failures, live events, a failed session
\* check and a resumed login leave both (campaign-controller's retained loads).
THEOREM DraftsAlwaysSurvive == Spec => DraftsSurvive
<1>1. DraftInv /\ [Next]_vars => Survives
  BY DraftOrder
<1>2. Survives => [Survives]_vars
  OBVIOUS
<1>3. Spec => []DraftInv
  BY DraftInit, DraftStep, PTL DEF Spec
<1> QED BY <1>1, <1>3, PTL DEF Spec, DraftsSurvive, Survives
=============================================================================
