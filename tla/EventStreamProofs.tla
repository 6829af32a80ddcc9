-------------------------- MODULE EventStreamProofs --------------------------
(***************************************************************************)
(* What the live stream promises its viewers, for every number of writers, *)
(* clients, rows, queue sizes and faults:                                  *)
(*   - at most one frame is written after the session behind it ended;     *)
(*   - no row is written twice on one connection;                          *)
(*   - no row above the number a connection began at is lost on it;        *)
(*   - with one writer at a time, a quiet viewer lacks nothing.            *)
(* The parts: sets of rows; types; each invariant with its steps; the      *)
(* theorem it gives.                                                       *)
(***************************************************************************)
EXTENDS MCEventStream, FiniteSetTheorems, FunctionTheorems, TLAPS

-----------------------------------------------------------------------------
(* Sets of rows, their order and their greatest number.                     *)

\* What identifies a row: no two rows of a set have one sequence number.
Keyed(S) == IsFiniteSet(S) /\ (\A e \in S : e.seq \in Nat) /\ (\A e, f \in S : e.seq = f.seq => e = f)

Below(S, e) == {f \in S : f.seq < e.seq}

\* A row is the n-th of a keyed set for exactly one n.
LEMMA RankOnto ==
    ASSUME NEW S, Keyed(S)
    PROVE  /\ Cardinality(S) \in Nat
           /\ \A e \in S : Cardinality(Below(S, e)) \in 0..(Cardinality(S) - 1)
           /\ \A n \in 0..(Cardinality(S) - 1) : \E e \in S : Cardinality(Below(S, e)) = n
           /\ \A e, f \in S : e.seq < f.seq => Cardinality(Below(S, e)) < Cardinality(Below(S, f))
<1> DEFINE T == 0..(Cardinality(S) - 1)
           rank == [e \in S |-> Cardinality(Below(S, e))]
<1>1. Cardinality(S) \in Nat
  BY FS_CardinalityType DEF Keyed
<1>2. ASSUME NEW e \in S
      PROVE  /\ IsFiniteSet(Below(S, e)) /\ Cardinality(Below(S, e)) \in Nat
             /\ Cardinality(Below(S, e)) < Cardinality(S)
  <2>1. Below(S, e) \in SUBSET S /\ e \notin Below(S, e) /\ IsFiniteSet(S)
    BY DEF Below, Keyed
  <2>2. /\ IsFiniteSet(Below(S, e)) /\ Cardinality(Below(S, e)) <= Cardinality(S)
        /\ Cardinality(S) # Cardinality(Below(S, e))
    BY <2>1, FS_Subset
  <2> QED BY <1>1, <2>2, FS_CardinalityType
<1>3. ASSUME NEW e \in S, NEW f \in S, e.seq < f.seq
      PROVE  Cardinality(Below(S, e)) < Cardinality(Below(S, f))
  <2>1. e \in Below(S, f) /\ e \notin Below(S, e)
    BY <1>3 DEF Below, Keyed
  <2>2. \A g \in S : g.seq < e.seq => g.seq < f.seq
    BY <1>3 DEF Keyed
  <2>3. Below(S, e) \in SUBSET Below(S, f)
    BY <2>2 DEF Below
  <2>4. /\ Cardinality(Below(S, e)) <= Cardinality(Below(S, f))
        /\ Cardinality(Below(S, f)) # Cardinality(Below(S, e))
    BY <1>2, <2>1, <2>3, FS_Subset
  <2> QED BY <1>2, <2>4
<1>4. rank \in Injection(S, T)
  <2>1. rank \in [S -> T]
    BY <1>1, <1>2
  <2>2. \A e, f \in S : rank[e] = rank[f] => e = f
    BY <1>2, <1>3 DEF Keyed
  <2> QED BY <2>1, <2>2 DEF Injection, IsInjective
<1>5. IsFiniteSet(T) /\ Cardinality(T) = Cardinality(S)
  BY <1>1, FS_Interval
<1>6. rank \in Surjection(S, T)
  BY <1>4, <1>5, FS_Injection
<1>7. \A n \in T : \E e \in S : rank[e] = n
  BY <1>6 DEF Surjection
<1> QED BY <1>1, <1>2, <1>3, <1>7

\* Ordered lists a keyed set by ascending sequence number.
LEMMA OrderedAscends ==
    ASSUME NEW S, Keyed(S)
    PROVE  /\ DOMAIN Ordered(S) = 1..Cardinality(S)
           /\ \A i \in 1..Cardinality(S) : Ordered(S)[i] \in S
           /\ \A i, j \in 1..Cardinality(S) : i < j => Ordered(S)[i].seq < Ordered(S)[j].seq
           /\ \A e \in S : \E i \in 1..Cardinality(S) : Ordered(S)[i] = e
<1> DEFINE N == Cardinality(S)
<1>1. N \in Nat
  BY RankOnto
<1>2. ASSUME NEW i \in 1..N PROVE Ordered(S)[i] \in S /\ Cardinality(Below(S, Ordered(S)[i])) = i - 1
  <2>1. \E e \in S : Cardinality(Below(S, e)) = i - 1
    BY <1>1, RankOnto
  <2>2. Ordered(S)[i] = CHOOSE e \in S : Cardinality(Below(S, e)) = i - 1
    BY DEF Ordered, Below
  <2> QED BY <2>1, <2>2
<1>3. ASSUME NEW i \in 1..N, NEW j \in 1..N, i < j PROVE Ordered(S)[i].seq < Ordered(S)[j].seq
  <2> DEFINE e == Ordered(S)[i]
             f == Ordered(S)[j]
  <2>1. e \in S /\ f \in S /\ Cardinality(Below(S, e)) = i - 1 /\ Cardinality(Below(S, f)) = j - 1
    BY <1>2
  <2>2. ~(f.seq < e.seq) /\ f # e
    BY <1>3, <2>1, RankOnto
  <2> QED BY <2>1, <2>2 DEF Keyed
<1>4. ASSUME NEW e \in S PROVE \E i \in 1..N : Ordered(S)[i] = e
  <2> DEFINE i == Cardinality(Below(S, e)) + 1
  <2>1. i \in 1..N
    BY <1>1, RankOnto
  <2>2. Ordered(S)[i] \in S /\ Cardinality(Below(S, Ordered(S)[i])) = Cardinality(Below(S, e))
    BY <2>1, <1>2, <1>1, RankOnto
  <2>3. ~(Ordered(S)[i].seq < e.seq) /\ ~(e.seq < Ordered(S)[i].seq)
    BY <2>2, RankOnto
  <2> QED BY <2>1, <2>2, <2>3 DEF Keyed
<1> QED BY <1>1, <1>2, <1>3, <1>4 DEF Ordered

\* The greatest number of a keyed set and a floor exists.
LEMMA MaxOfRows ==
    ASSUME NEW S, Keyed(S), NEW b \in Int
    PROVE  /\ \/ Max({b} \cup {e.seq : e \in S}) = b
              \/ \E f \in S : Max({b} \cup {e.seq : e \in S}) = f.seq
           /\ Max({b} \cup {e.seq : e \in S}) \in Int
           /\ Max({b} \cup {e.seq : e \in S}) >= b
           /\ \A f \in S : Max({b} \cup {e.seq : e \in S}) >= f.seq
<1> DEFINE B == {b} \cup {e.seq : e \in S}
<1>1. \A x \in B : x \in Int
  BY DEF Keyed
<1>2. \E x \in B : \A y \in B : x >= y
  <2>1. CASE S = {}
    BY <2>1
  <2>2. CASE S # {}
    <3>1. Cardinality(S) \in Nat \ {0}
      BY <2>2, RankOnto, FS_EmptySet DEF Keyed
    <3>2. PICK m \in S : Cardinality(Below(S, m)) = Cardinality(S) - 1
      BY <3>1, RankOnto
    <3>3. \A f \in S : ~(m.seq < f.seq)
      BY <3>1, <3>2, RankOnto
    <3>4. \A f \in S : m.seq >= f.seq
      BY <3>3 DEF Keyed
    <3>5. m.seq \in B /\ b \in B /\ m.seq \in Int /\ \A y \in B : y = b \/ \E f \in S : y = f.seq
      BY DEF Keyed
    <3>6. \A y \in B : y = b \/ m.seq >= y
      BY <3>4, <3>5
    <3> HIDE DEF B
    <3>7. CASE m.seq >= b
      BY <3>5, <3>6, <3>7
    <3>8. CASE b >= m.seq
      BY <1>1, <3>5, <3>6, <3>8
    <3> QED BY <3>5, <3>7, <3>8
  <2> QED BY <2>1, <2>2
<1>3. Max(B) \in B /\ \A y \in B : Max(B) >= y
  BY <1>2 DEF Max
<1> QED BY <1>1, <1>3

-----------------------------------------------------------------------------
(* Types.                                                                   *)

Row == [seq : Nat \ {0}, aud : Audiences, res : Resources]
Frames == [id : Int, res : SUBSET Resources]

\* What the durable log holds: rows of their own number, up to the last one given out.
LogTypes ==
    /\ lastSeq \in Nat
    /\ log \subseteq Row /\ Keyed(log) /\ \A e \in log : e.seq <= lastSeq
    /\ checkpoint \in [Audiences -> Nat]
    /\ unnotified \in [Writers -> Row \cup {NoEvent}]

HandlerTypes ==
    /\ conn \in [Clients -> {"closed", "subscribed", "starting", "live"}]
    /\ queue \in [Clients -> Seq(Row)] /\ open \in [Clients -> BOOLEAN]
    /\ start \in [Clients -> Int]
    /\ pending \in [Clients -> Seq(Frames)] /\ armed \in [Clients -> Frames \cup {NoFrame}]

ViewTypes ==
    /\ wire \in [Clients -> Seq(Frames)]
    /\ session \in [Clients -> BOOLEAN] /\ cursor \in [Clients -> Int]
    /\ stale \in [Clients -> SUBSET Row] /\ alert \in [Clients -> BOOLEAN]
    /\ sent \in [Clients -> SUBSET Int]

StreamTypes == LogTypes /\ HandlerTypes /\ ViewTypes

\* The empty values are no rows and no frames.
LEMMA Unlike == NoEvent \notin Row /\ NoFrame \notin Frames /\ NoEvent.seq = 0 /\ NoFrame.id = -1
  BY DEF NoEvent, NoFrame, Row, Frames, None

\* The first row not pruned yet that a viewer may see, and what its cursor is compared with.
LEMMA LatestBounds ==
    ASSUME LogTypes, NEW c \in Clients
    PROVE  /\ Checkpoint(c) \in Nat /\ Latest(c) \in Int /\ Latest(c) >= Checkpoint(c)
           /\ checkpoint["public"] <= Checkpoint(c) /\ checkpoint[Role[c]] <= Checkpoint(c)
           /\ Keyed(VisibleRows(c))
           /\ \A e \in VisibleRows(c) : e.seq <= Latest(c)
           /\ Latest(c) = Checkpoint(c) \/ \E e \in log : Latest(c) = e.seq
           /\ Checkpoint(c) = checkpoint["public"] \/ Checkpoint(c) = checkpoint[Role[c]]
<1>1. Role[c] \in Audiences /\ "public" \in Audiences
  BY StreamAssumption DEF Audiences
<1>2. /\ Checkpoint(c) \in Nat
      /\ checkpoint["public"] <= Checkpoint(c) /\ checkpoint[Role[c]] <= Checkpoint(c)
  BY <1>1 DEF Checkpoint, LogTypes
<1>3. Keyed(VisibleRows(c))
  <2>1. VisibleRows(c) \in SUBSET log
    BY DEF VisibleRows
  <2> QED BY <2>1, FS_Subset DEF Keyed, LogTypes
<1>4. Latest(c) = Checkpoint(c) \/ \E e \in log : Latest(c) = e.seq
  <2>1. Checkpoint(c) \in Int
    BY <1>2
  <2>2. Latest(c) = Checkpoint(c) \/ \E e \in VisibleRows(c) : Latest(c) = e.seq
    BY ONLY <1>3, <2>1, MaxOfRows DEF Latest
  <2> QED BY <2>2 DEF VisibleRows
<1>5. Checkpoint(c) = checkpoint["public"] \/ Checkpoint(c) = checkpoint[Role[c]]
  BY DEF Checkpoint
<1>6. Latest(c) \in Int /\ Latest(c) >= Checkpoint(c) /\ \A e \in VisibleRows(c) : Latest(c) >= e.seq
  <2>1. Checkpoint(c) \in Int
    BY <1>2
  <2> QED BY ONLY <1>3, <2>1, MaxOfRows DEF Latest
<1>7. \A e \in VisibleRows(c) : e.seq <= Latest(c)
  BY <1>3, <1>6 DEF Keyed
<1> QED BY <1>2, <1>3, <1>4, <1>5, <1>6, <1>7

\* The rows a replay reads are rows of the log.
LEMMA RowsAfterKeyed ==
    ASSUME LogTypes, NEW c \in Clients, NEW after
    PROVE  Keyed(RowsAfter(c, after)) /\ RowsAfter(c, after) \subseteq log
<1>1. RowsAfter(c, after) \in SUBSET VisibleRows(c) /\ VisibleRows(c) \subseteq log
  BY DEF RowsAfter, VisibleRows
<1> QED BY <1>1, LatestBounds, FS_Subset DEF Keyed

\* What the start of a stream puts in line.
LEMMA StartFrames ==
    ASSUME LogTypes, cursor \in [Clients -> Int], NEW c \in Clients, ReadStart(c)
    PROVE  \E frames, from :
              /\ pending' = [pending EXCEPT ![c] = frames] /\ start' = [start EXCEPT ![c] = from]
              /\ frames \in Seq(Frames) /\ from \in Int
              /\ \A i, j \in DOMAIN frames : i < j => frames[i].id < frames[j].id
              /\ \A i \in DOMAIN frames : frames[i].id <= from
              /\ from = Checkpoint(c) \/ from = cursor[c] \/ \E e \in log : from = e.seq
              /\ \/ /\ frames = <<FullFrame(from)>> /\ from >= Checkpoint(c)
                    /\ \A e \in VisibleRows(c) : e.seq <= from
                 \/ /\ cursor[c] >= Checkpoint(c) /\ cursor[c] # None
                    /\ from >= cursor[c]
                    /\ \A e \in VisibleRows(c) :
                         \/ e.seq <= cursor[c]
                         \/ e.seq <= from /\ \E i \in DOMAIN frames : frames[i] = EventFrame(e)
                    /\ \A i \in DOMAIN frames : frames[i].id > cursor[c] /\ \E e \in log : frames[i] = EventFrame(e)
<1>1. Checkpoint(c) \in Nat /\ Latest(c) \in Int /\ cursor[c] \in Int
  BY LatestBounds
<1>2. CASE cursor[c] = None \/ cursor[c] > Latest(c) \/ Truncated(c) \/ Expired(c)
  <2> DEFINE frames == <<FullFrame(Latest(c))>>
  <2>1. frames \in Seq(Frames) /\ DOMAIN frames = {1} /\ frames[1].id = Latest(c)
    BY <1>1 DEF FullFrame, Frames
  <2>2. pending' = [pending EXCEPT ![c] = frames] /\ start' = [start EXCEPT ![c] = Latest(c)]
    BY <1>2 DEF ReadStart
  <2> HIDE DEF frames
  <2>3. /\ \A i, j \in DOMAIN frames : i < j => frames[i].id < frames[j].id
        /\ \A i \in DOMAIN frames : frames[i].id <= Latest(c)
    BY <1>1, <2>1
  <2>4. frames = <<FullFrame(Latest(c))>>
    BY DEF frames
  <2>5. Latest(c) = Checkpoint(c) \/ \E e \in log : Latest(c) = e.seq
    BY LatestBounds
  <2> QED BY <1>1, <2>1, <2>2, <2>3, <2>4, <2>5, LatestBounds
<1>3. CASE ~(cursor[c] = None \/ cursor[c] > Latest(c) \/ Truncated(c) \/ Expired(c))
  <2> DEFINE rows == RowsAfter(c, cursor[c])
             N == Cardinality(rows)
             frames == [i \in 1..N |-> EventFrame(Ordered(rows)[i])]
             from == Max({cursor[c]} \cup {e.seq : e \in rows})
  <2>1. pending' = [pending EXCEPT ![c] = frames] /\ start' = [start EXCEPT ![c] = from]
    BY <1>3 DEF ReadStart
  <2>2. /\ Keyed(rows) /\ rows \subseteq log /\ rows \subseteq VisibleRows(c)
        /\ \A e \in rows : e.seq > cursor[c]
        /\ \A e \in VisibleRows(c) : e \in rows \/ ~(e.seq > cursor[c])
    BY RowsAfterKeyed DEF RowsAfter
  <2>3. from \in Int /\ from >= cursor[c] /\ \A e \in rows : from >= e.seq
    BY <1>1, <2>2, MaxOfRows
  <2>13. from = cursor[c] \/ \E e \in log : from = e.seq
    <3>1. from = cursor[c] \/ \E e \in rows : from = e.seq
      BY <1>1, <2>2, MaxOfRows
    <3> QED BY <2>2, <3>1
  <2>4. /\ N \in Nat /\ \A i \in 1..N : Ordered(rows)[i] \in rows
        /\ \A i, j \in 1..N : i < j => Ordered(rows)[i].seq < Ordered(rows)[j].seq
        /\ \A e \in rows : \E i \in 1..N : Ordered(rows)[i] = e
    BY <2>2, OrderedAscends, RankOnto
  <2> HIDE DEF from, N, rows
  <2>5. \A e \in rows : e \in Row /\ e.seq \in Nat /\ EventFrame(e) \in Frames /\ EventFrame(e).id = e.seq
    BY <2>2 DEF LogTypes, Row, EventFrame, Frames
  <2>6. \A i \in 1..N : frames[i] \in Frames /\ frames[i].id = Ordered(rows)[i].seq
    BY <2>4, <2>5
  <2>7. frames \in Seq(Frames) /\ DOMAIN frames = 1..N
    BY <2>4, <2>6
  <2>8. \A i \in 1..N : frames[i] = EventFrame(Ordered(rows)[i])
    OBVIOUS
  <2> HIDE DEF frames
  <2>9. \A i, j \in DOMAIN frames : i < j => frames[i].id < frames[j].id
    BY <2>4, <2>6, <2>7
  <2>10. \A i \in DOMAIN frames : /\ frames[i].id <= from /\ frames[i].id > cursor[c]
                                  /\ \E e \in log : frames[i] = EventFrame(e)
    BY <2>2, <2>3, <2>4, <2>5, <2>6, <2>7, <2>8
  <2>11. \A e \in VisibleRows(c) : \/ e.seq <= cursor[c]
                                   \/ e.seq <= from /\ \E i \in DOMAIN frames : frames[i] = EventFrame(e)
    <3> SUFFICES ASSUME NEW e \in VisibleRows(c), ~(e.seq <= cursor[c])
                 PROVE  e.seq <= from /\ \E i \in DOMAIN frames : frames[i] = EventFrame(e)
      OBVIOUS
    <3>1. e \in rows
      BY <1>1, <2>2, LatestBounds DEF Keyed
    <3>2. PICK i \in 1..N : Ordered(rows)[i] = e
      BY <3>1, <2>4
    <3> QED BY <3>1, <3>2, <2>3, <2>5, <2>7, <2>8
  <2>12. cursor[c] >= Checkpoint(c) /\ cursor[c] # None
    BY <1>1, <1>3 DEF Expired
  <2> QED BY <2>1, <2>3, <2>7, <2>9, <2>10, <2>11, <2>12, <2>13
<1> QED BY <1>2, <1>3

\* The types hold at first.
LEMMA TypesInit == Init => StreamTypes
<1>1. Keyed({})
  BY FS_EmptySet DEF Keyed
<1> QED BY <1>1 DEF Init, StreamTypes, LogTypes, HandlerTypes, ViewTypes, None

\* A handler that returns keeps its types.
LEMMA CloseTypes ==
    ASSUME HandlerTypes, NEW C \in SUBSET Clients, CloseHandler(C)
    PROVE  HandlerTypes'
  BY DEF HandlerTypes, CloseHandler

\* The fields of a row and of the frame that announces it.
LEMMA RowTypes == \A e \in Row : /\ e.seq \in Nat \ {0} /\ e.aud \in Audiences /\ e.res \in Resources
                                 /\ EventFrame(e) \in Frames /\ EventFrame(e).id = e.seq /\ EventFrame(e).res = {e.res}
  BY DEF Row, EventFrame, Frames

\* The fields of a frame.
LEMMA FrameTypes == \A f \in Frames : f.id \in Int /\ f.res \in SUBSET Resources
  BY DEF Frames

\* Appending to a sequence and taking its head keep its type.
LEMMA SeqTypes ==
    ASSUME NEW S, NEW q \in Seq(S)
    PROVE  /\ \A e \in S : Append(q, e) \in Seq(S)
           /\ q # <<>> => Head(q) \in S /\ Tail(q) \in Seq(S)
  OBVIOUS

\* Pruning goes no further than the last row given out.
LEMMA PruneBounds ==
    ASSUME LogTypes, NEW a, NEW keep
    PROVE  /\ PruneThrough(a, keep) \in Int /\ PruneThrough(a, keep) >= 0
           /\ PruneThrough(a, keep) <= lastSeq
<1> DEFINE R == {r \in log : /\ r.aud = a
                             /\ Cardinality({n \in log : n.aud = a /\ n.seq > r.seq}) >= keep}
<1>1. R \in SUBSET log
  OBVIOUS
<1>2. Keyed(R)
  BY <1>1, FS_Subset DEF Keyed, LogTypes
<1>3. PruneThrough(a, keep) = Max({0} \cup {e.seq : e \in R})
  BY DEF PruneThrough
<1> HIDE DEF R
<1>4. PruneThrough(a, keep) = 0 \/ \E e \in R : PruneThrough(a, keep) = e.seq
  BY ONLY <1>2, <1>3, MaxOfRows, 0 \in Int
<1>5. PruneThrough(a, keep) <= lastSeq
  BY <1>1, <1>4 DEF LogTypes
<1> QED BY <1>2, <1>3, <1>5, MaxOfRows

\* The greater of two checkpoints.
LEMMA MaxOfTwo == ASSUME NEW a \in Int, NEW b \in Int
                  PROVE  Max({a, b}) \in {a, b} /\ Max({a, b}) >= a /\ Max({a, b}) >= b
<1>1. \E x \in {a, b} : \A y \in {a, b} : x >= y
  <2>1. CASE a >= b
    BY <2>1
  <2>2. CASE b >= a
    BY <2>2
  <2> QED BY <2>1, <2>2
<1> QED BY <1>1 DEF Max

\* Every step keeps the types.
LEMMA TypesStep == StreamTypes /\ [Next]_vars => StreamTypes'
<1> SUFFICES ASSUME StreamTypes, [Next]_vars PROVE StreamTypes'
  OBVIOUS
<1> USE DEF StreamTypes
<1>1. ASSUME NEW w \in Writers, Commit(w) PROVE StreamTypes'
  <2>1. PICK a \in Audiences, r \in Resources :
            LET e == [seq |-> lastSeq + 1, aud |-> a, res |-> r] IN
            /\ log' = log \cup {e}
            /\ unnotified' = [unnotified EXCEPT ![w] = e]
            /\ stale' = [c \in Clients |-> IF Visible(e, c) THEN stale[c] \cup {e} ELSE stale[c]]
    BY <1>1 DEF Commit
  <2> DEFINE e == [seq |-> lastSeq + 1, aud |-> a, res |-> r]
  <2>2. e \in Row /\ e.seq = lastSeq + 1 /\ lastSeq \in Nat
    BY DEF LogTypes, Row
  <2> HIDE DEF e
  <2>3. /\ lastSeq' = lastSeq + 1 /\ log' = log \cup {e} /\ unnotified' = [unnotified EXCEPT ![w] = e]
        /\ UNCHANGED <<checkpoint, handler, wire, session, cursor, alert, sent>>
    BY <1>1, <2>1 DEF Commit, history, e
  <2>4. Keyed(log')
    <3>1. IsFiniteSet(log')
      BY <2>3, FS_AddElement DEF LogTypes, Keyed
    <3>2. \A f \in log : f.seq # e.seq /\ f.seq \in Nat
      BY <2>2 DEF LogTypes, Keyed
    <3> QED BY <2>2, <2>3, <3>1, <3>2 DEF LogTypes, Keyed
  <2>5. LogTypes'
    BY <2>2, <2>3, <2>4 DEF LogTypes, Keyed
  <2>6. stale' \in [Clients -> SUBSET Row]
    BY <2>1, <2>2 DEF ViewTypes, e
  <2> QED BY <2>3, <2>5, <2>6 DEF HandlerTypes, ViewTypes, handler
<1>2. ASSUME NEW w \in Writers, Notify(w) PROVE StreamTypes'
  <2>1. /\ unnotified[w] \in Row /\ unnotified' = [unnotified EXCEPT ![w] = NoEvent]
        /\ UNCHANGED <<durable, conn, start, pending, armed, wire, session, browser, history>>
        /\ queue' \in [Clients -> Seq(Row)]
    <3>1. unnotified[w] \in Row
      BY <1>2 DEF Notify, LogTypes
    <3>2. \A c \in Clients : queue[c] \in Seq(Row) /\ Append(queue[c], unnotified[w]) \in Seq(Row)
      BY <3>1 DEF HandlerTypes
    <3> QED BY <1>2, <3>1, <3>2 DEF Notify
  <2>2. open' \in [Clients -> BOOLEAN]
    BY <1>2, Zenon DEF Notify, HandlerTypes
  <2> QED BY <2>1, <2>2 DEF LogTypes, HandlerTypes, ViewTypes, durable, browser, history
<1>3. ASSUME NEW c \in Clients, Subscribe(c) PROVE StreamTypes'
  BY <1>3 DEF Subscribe, LogTypes, HandlerTypes, ViewTypes, durable, browser
<1>4. ASSUME NEW c \in Clients, ReadStart(c) PROVE StreamTypes'
  <2>1. pending' \in [Clients -> Seq(Frames)] /\ start' \in [Clients -> Int]
    BY <1>4, StartFrames DEF HandlerTypes, ViewTypes
  <2>2. conn' \in [Clients -> {"closed", "subscribed", "starting", "live"}]
    BY <1>4 DEF ReadStart, HandlerTypes
  <2>3. UNCHANGED <<durable, unnotified, queue, open, armed, wire, session, browser, history>>
    BY <1>4 DEF ReadStart
  <2> QED BY <2>1, <2>2, <2>3 DEF LogTypes, HandlerTypes, ViewTypes, durable, browser, history
<1>5. ASSUME NEW c \in Clients, ArmOpening(c) \/ GoLive(c) \/ TakeLive(c) PROVE StreamTypes'
  <2>1. UNCHANGED <<durable, unnotified, open, start, wire, session, browser, history>>
    BY <1>5 DEF ArmOpening, GoLive, TakeLive
  <2>2. conn' \in [Clients -> {"closed", "subscribed", "starting", "live"}]
    BY <1>5 DEF ArmOpening, GoLive, TakeLive, HandlerTypes
  <2>3. /\ queue[c] # <<>> => Head(queue[c]) \in Row /\ Tail(queue[c]) \in Seq(Row)
        /\ pending[c] # <<>> => Head(pending[c]) \in Frames /\ Tail(pending[c]) \in Seq(Frames)
    BY SeqTypes DEF HandlerTypes
  <2>4. queue' \in [Clients -> Seq(Row)] /\ pending' \in [Clients -> Seq(Frames)]
    BY <1>5, <2>3 DEF ArmOpening, GoLive, TakeLive, HandlerTypes
  <2>5. armed' \in [Clients -> Frames \cup {NoFrame}]
    BY <1>5, <2>3, RowTypes DEF ArmOpening, GoLive, TakeLive, HandlerTypes
  <2> QED BY <2>1, <2>2, <2>4, <2>5 DEF LogTypes, HandlerTypes, ViewTypes, durable, browser, history
<1>6. ASSUME NEW c \in Clients, Write(c) PROVE StreamTypes'
  <2>1. armed[c] \in Frames
    BY <1>6 DEF Write, HandlerTypes
  <2>2. wire' \in [Clients -> Seq(Frames)]
    BY <1>6, <2>1, SeqTypes DEF Write, ViewTypes
  <2>3. armed' \in [Clients -> Frames \cup {NoFrame}] /\ armed[c].id \in Int
    BY <1>6, <2>1, FrameTypes DEF Write, HandlerTypes
  <2>4. sent' \in [Clients -> SUBSET Int]
    BY <1>6, <2>3 DEF Write, ViewTypes
  <2>5. UNCHANGED <<durable, unnotified, conn, queue, open, start, pending, session, browser>>
    BY <1>6 DEF Write
  <2> QED BY <2>2, <2>3, <2>4, <2>5 DEF LogTypes, HandlerTypes, ViewTypes, durable, browser
<1>7. ASSUME NEW c \in Clients, Return(c) PROVE StreamTypes'
  <2>1. CloseHandler({c}) /\ UNCHANGED <<durable, unnotified, wire, session, browser, history>>
    BY <1>7 DEF Return
  <2> QED BY <2>1, CloseTypes DEF LogTypes, ViewTypes, durable, browser, history
<1>8. ASSUME NEW c \in Clients, Receive(c) PROVE StreamTypes'
  <2>1. Head(wire[c]) \in Frames /\ Tail(wire[c]) \in Seq(Frames)
    BY <1>8, SeqTypes DEF Receive, ViewTypes
  <2>2. /\ wire' = [wire EXCEPT ![c] = Tail(wire[c])]
        /\ cursor' = [cursor EXCEPT ![c] = Head(wire[c]).id]
        /\ stale' = [stale EXCEPT ![c] = IF up THEN {e \in @ : e.res \notin Head(wire[c]).res} ELSE @]
        /\ alert' = [alert EXCEPT ![c] = @ \/ ~up]
        /\ UNCHANGED <<durable, unnotified, handler, session, history>>
    BY <1>8 DEF Receive
  <2>3. cursor' \in [Clients -> Int]
    BY <2>1, <2>2, FrameTypes DEF ViewTypes
  <2>4. alert' \in [Clients -> BOOLEAN]
    BY <2>2, Zenon DEF ViewTypes
  <2>5. stale' \in [Clients -> SUBSET Row] /\ wire' \in [Clients -> Seq(Frames)]
    BY <2>1, <2>2 DEF ViewTypes
  <2> QED BY <2>2, <2>3, <2>4, <2>5 DEF LogTypes, HandlerTypes, ViewTypes, durable, handler, history
<1>9. ASSUME NEW c \in Clients, Break(c) PROVE StreamTypes'
  <2>1. /\ CloseHandler({c}) /\ UNCHANGED <<durable, unnotified, session, browser, history>>
        /\ wire' = [wire EXCEPT ![c] = <<>>]
    BY <1>9 DEF Break
  <2> QED BY <2>1, CloseTypes DEF LogTypes, ViewTypes, durable, browser, history
<1>10. ASSUME NEW c \in Clients, Revoke(c) PROVE StreamTypes'
  BY <1>10 DEF Revoke, LogTypes, HandlerTypes, ViewTypes, durable, handler, browser
<1>11. ASSUME NEW c \in Clients, SignIn(c) PROVE StreamTypes'
  <2>1. /\ CloseHandler({c}) /\ UNCHANGED <<durable, unnotified, stale, alert, history>>
        /\ session' = [session EXCEPT ![c] = TRUE] /\ cursor' = [cursor EXCEPT ![c] = None]
        /\ wire' = [wire EXCEPT ![c] = <<>>]
    BY <1>11 DEF SignIn
  <2> QED BY <2>1, CloseTypes DEF LogTypes, ViewTypes, durable, history, None
<1>12. CASE Stop
  <2>1. /\ CloseHandler(Clients) /\ UNCHANGED <<durable, wire, session, browser, history>>
        /\ unnotified' = [w \in Writers |-> NoEvent]
    BY <1>12 DEF Stop
  <2> QED BY <2>1, CloseTypes DEF LogTypes, ViewTypes, durable, browser, history
<1>13. CASE Prune
  <2>1. PICK keep \in 0..1 :
          /\ checkpoint' = [a \in Audiences |-> Max({checkpoint[a], PruneThrough(a, keep)})]
          /\ log' = {e \in log : e.seq > PruneThrough(e.aud, keep)}
    BY <1>13 DEF Prune
  <2>2. log' \in SUBSET log
    BY <2>1
  <2>3. Keyed(log')
    BY <2>2, FS_Subset DEF LogTypes, Keyed
  <2>4. \A a \in Audiences : checkpoint[a] \in Nat /\ PruneThrough(a, keep) \in Nat
    BY PruneBounds DEF LogTypes
  <2>5. checkpoint' \in [Audiences -> Nat]
    <3>1. \A a \in Audiences : Max({checkpoint[a], PruneThrough(a, keep)}) \in Nat
      <4> TAKE a \in Audiences
      <4>1. checkpoint[a] \in Int /\ PruneThrough(a, keep) \in Int
        BY <2>4
      <4>2. Max({checkpoint[a], PruneThrough(a, keep)}) \in {checkpoint[a], PruneThrough(a, keep)}
        BY ONLY <4>1, MaxOfTwo
      <4> QED BY <2>4, <4>2
    <3> QED BY <2>1, <3>1
  <2>6. UNCHANGED <<lastSeq, unnotified, handler, wire, session, browser, history>>
    BY <1>13 DEF Prune
  <2> QED BY <2>2, <2>3, <2>5, <2>6 DEF LogTypes, HandlerTypes, ViewTypes, handler, browser, history
<1>14. CASE Start \/ UNCHANGED vars
  BY <1>14 DEF Start, vars, LogTypes, HandlerTypes, ViewTypes, durable, handler, browser, history
<1> QED
  BY <1>1, <1>2, <1>3, <1>4, <1>5, <1>6, <1>7, <1>8, <1>9, <1>10, <1>11, <1>12, <1>13, <1>14 DEF Next, Handle

-----------------------------------------------------------------------------
(* What each row still has to go through.                                  *)

\* Every row is announced once: no other writer, and no queue it is not in, holds its number.
AnnouncedOnce ==
    /\ \A w \in Writers : unnotified[w].seq <= lastSeq
    /\ \A v, w \in Writers : unnotified[v] # NoEvent /\ unnotified[v].seq = unnotified[w].seq => v = w
    /\ \A c \in Clients : \A i \in DOMAIN queue[c] :
         /\ queue[c][i].seq <= lastSeq
         /\ \A w \in Writers : unnotified[w].seq # queue[c][i].seq
         /\ \A j \in DOMAIN queue[c] : queue[c][i].seq = queue[c][j].seq => i = j

\* A number that can still be given to client c's handler.
ToCome(c, x) ==
    \/ x > lastSeq
    \/ \E w \in Writers : unnotified[w] # NoEvent /\ unnotified[w].seq = x
    \/ \E i \in DOMAIN queue[c] : queue[c][i].seq = x

\* What each phase of a handler holds.
Phases(c) ==
    /\ conn[c] = "closed" => queue[c] = <<>>
    /\ conn[c] \in {"closed", "subscribed"} => pending[c] = <<>> /\ armed[c] = NoFrame
    /\ conn[c] = "subscribed" => wire[c] = <<>> /\ sent[c] = {}
    /\ conn[c] = "live" => pending[c] = <<>>
    /\ conn[c] # "closed" => up

\* Opening frames are written in ascending order up to the start, and whatever was written
\* or is in hand above the start is not to come again.
OnceFor(c) ==
    conn[c] # "closed" =>
      /\ armed[c] # NoFrame =>
           /\ armed[c].id \notin sent[c]
           /\ armed[c].id > start[c] => ~ToCome(c, armed[c].id)
           /\ \A i \in DOMAIN pending[c] : armed[c].id < pending[c][i].id
      /\ \A x \in sent[c] : /\ x > start[c] => ~ToCome(c, x)
                            /\ \A i \in DOMAIN pending[c] : x < pending[c][i].id
      /\ \A i \in DOMAIN pending[c] :
           /\ pending[c][i].id <= start[c]
           /\ \A j \in DOMAIN pending[c] : i < j => pending[c][i].id < pending[c][j].id

OnceInv == AnnouncedOnce /\ \A c \in Clients : Phases(c) /\ OnceFor(c)

-----------------------------------------------------------------------------
(* What a stale view still waits for.                                      *)

OnWire(c, e) == \E i \in DOMAIN wire[c] : e.res \in wire[c][i].res
InHand(c, e) == armed[c] # NoFrame /\ e.res \in armed[c].res
InLine(c, e) == \E i \in DOMAIN pending[c] : e.res \in pending[c][i].res

\* Row e will be announced to client c, or its resource is about to be read again.
OnItsWay(c, e) ==
    \/ \E w \in Writers : unnotified[w] = e
    \/ \E i \in DOMAIN queue[c] : queue[c][i] = e
    \/ InHand(c, e) \/ OnWire(c, e)

Known(c, e) == Visible(e, c) /\ (e \in log \/ e.seq <= Checkpoint(c))

Reading(c) == conn[c] \in {"starting", "live"}

GapFor(c) ==
    /\ \A e \in stale[c] : Known(c, e)
    /\ Reading(c) /\ open[c] /\ ~alert[c] =>
         \A e \in stale[c] : e.seq <= start[c] \/ OnItsWay(c, e)

GapInv == \A c \in Clients : GapFor(c)

\* One writer at a time has a row that it committed and has not announced.
OneWriter == \A v, w \in Writers : unnotified[v] # NoEvent /\ unnotified[w] # NoEvent => v = w

\* Then the queues hold their rows in the order of the log.
QueuesAscend ==
    \A c \in Clients : \A i \in DOMAIN queue[c] :
      /\ \A j \in DOMAIN queue[c] : i < j => queue[c][i].seq < queue[c][j].seq
      /\ \A w \in Writers : unnotified[w] # NoEvent => queue[c][i].seq < unnotified[w].seq

\* No number is ahead of the log.
Behind ==
    /\ \A a \in Audiences : checkpoint[a] <= lastSeq
    /\ \A c \in Clients :
         /\ cursor[c] <= lastSeq /\ start[c] <= lastSeq
         /\ armed[c] # NoFrame => armed[c].id <= lastSeq
         /\ \A i \in DOMAIN pending[c] : pending[c][i].id <= lastSeq
         /\ \A i \in DOMAIN wire[c] : wire[c][i].id <= lastSeq

\* Nothing overtakes a row that the view of client c lacks: whatever has its number or a
\* greater one comes with or after a frame that reads the row's resource again.
FreshFor(c, e) ==
    /\ e.seq > cursor[c]
    /\ \A i \in DOMAIN wire[c] : e.seq <= wire[c][i].id => \E j \in 1..i : e.res \in wire[c][j].res
    /\ armed[c] # NoFrame /\ e.seq <= armed[c].id => InHand(c, e) \/ OnWire(c, e)
    /\ \A i \in DOMAIN pending[c] : e.seq <= pending[c][i].id =>
         InHand(c, e) \/ OnWire(c, e) \/ \E j \in 1..i : e.res \in pending[c][j].res
    /\ Reading(c) /\ e.seq <= start[c] => InHand(c, e) \/ OnWire(c, e) \/ InLine(c, e)
    /\ Reading(c) /\ e.seq > start[c] =>
         \/ OnItsWay(c, e)
         \/ ~open[c] /\ \A i \in DOMAIN queue[c] : e.seq > queue[c][i].seq

FreshInv ==
    /\ QueuesAscend
    /\ \A c \in Clients : ~alert[c] => \A e \in stale[c] : FreshFor(c, e)

\* A client whose handler a step leaves alone, and to whom no number is given that was not to come.
LEMMA OnceStays ==
    ASSUME NEW c \in Clients, OnceFor(c), StreamTypes, conn'[c] = conn[c], start'[c] = start[c],
           pending'[c] = pending[c], armed'[c] = armed[c], sent'[c] = sent[c],
           \A x \in Int : ToCome(c, x)' => ToCome(c, x)
    PROVE  OnceFor(c)'
<1>1. (armed[c] # NoFrame => armed[c].id \in Int) /\ \A x \in sent[c] : x \in Int
  BY FrameTypes DEF StreamTypes, HandlerTypes, ViewTypes
<1> QED BY <1>1 DEF OnceFor

\* A client that a step leaves alone.
LEMMA OnceElsewhere ==
    ASSUME NEW c \in Clients, Phases(c), OnceFor(c), StreamTypes, up' \/ up' = up,
           conn'[c] = conn[c], queue'[c] = queue[c], start'[c] = start[c], wire'[c] = wire[c],
           pending'[c] = pending[c], armed'[c] = armed[c], sent'[c] = sent[c],
           lastSeq' = lastSeq, unnotified' = unnotified
    PROVE  Phases(c)' /\ OnceFor(c)'
<1>1. \A x \in Int : ToCome(c, x)' => ToCome(c, x)
  BY DEF ToCome
<1>2. OnceFor(c)'
  BY <1>1, OnceStays
<1> QED BY <1>2 DEF Phases

\* Handlers that return keep nothing.
LEMMA OnceClosed ==
    ASSUME OnceInv, StreamTypes, NEW C \in SUBSET Clients, CloseHandler(C), sent' = sent, lastSeq' = lastSeq,
           \A c \in Clients \ C : wire'[c] = wire[c],
           unnotified' = unnotified \/ unnotified' = [w \in Writers |-> NoEvent],
           up' = up \/ C = Clients
    PROVE  OnceInv'
<1> USE DEF StreamTypes, HandlerTypes
<1>1. AnnouncedOnce'
  <2>1. \A c \in Clients : queue'[c] = <<>> \/ queue'[c] = queue[c]
    BY DEF CloseHandler
  <2>2. \A w \in Writers : unnotified'[w] = NoEvent \/ unnotified'[w] = unnotified[w]
    OBVIOUS
  <2>3. lastSeq \in Nat /\ NoEvent.seq = 0 /\ \A c \in Clients : \A i \in DOMAIN queue[c] : queue[c][i].seq # 0
    BY RowTypes, Unlike DEF LogTypes
  <2>4. \A w \in Writers : unnotified'[w].seq = 0 \/ unnotified'[w] = unnotified[w]
    BY <2>2, <2>3
  <2>5. \A c \in Clients : \A i \in DOMAIN queue'[c] : queue'[c] = queue[c]
    BY <2>1
  <2>6. \A v, w \in Writers : unnotified'[v] # NoEvent /\ unnotified'[v].seq = unnotified'[w].seq => v = w
    <3>1. \A v \in Writers : unnotified[v] # NoEvent => unnotified[v].seq # 0
      BY RowTypes DEF LogTypes
    <3> QED BY <2>2, <2>3, <3>1 DEF OnceInv, AnnouncedOnce
  <2> QED BY <2>3, <2>4, <2>5, <2>6 DEF OnceInv, AnnouncedOnce
<1>2. ASSUME NEW c \in C PROVE Phases(c)' /\ OnceFor(c)'
  BY <1>2 DEF CloseHandler, Phases, OnceFor
<1>3. ASSUME NEW c \in Clients \ C PROVE Phases(c)' /\ OnceFor(c)'
  <2>1. /\ conn'[c] = conn[c] /\ queue'[c] = queue[c] /\ start'[c] = start[c] /\ wire'[c] = wire[c]
        /\ pending'[c] = pending[c] /\ armed'[c] = armed[c] /\ up' = up
    BY <1>3 DEF CloseHandler
  <2>2. \A x \in Int : ToCome(c, x)' => ToCome(c, x)
    BY <2>1 DEF ToCome
  <2>3. OnceFor(c)'
    BY <2>1, <2>2, OnceStays DEF OnceInv
  <2> QED BY <2>1, <2>3 DEF OnceInv, Phases
<1> QED BY <1>1, <1>2, <1>3 DEF OnceInv

\* The invariant of single writing holds at first.
LEMMA OnceInit == Init => OnceInv
  BY Unlike DEF Init, OnceInv, AnnouncedOnce, Phases, OnceFor

\* Every step keeps it.
LEMMA OnceStep == OnceInv /\ StreamTypes /\ [Next]_vars => OnceInv'
<1> SUFFICES ASSUME OnceInv, StreamTypes, [Next]_vars PROVE OnceInv'
  OBVIOUS
<1> USE DEF StreamTypes, HandlerTypes, OnceInv
\* Steps of one client, which announce nothing.
<1>0. ASSUME NEW c \in Clients, AnnouncedOnce', Phases(c)', OnceFor(c)', lastSeq' = lastSeq,
             unnotified' = unnotified, up' = up,
             \A d \in Clients \ {c} : /\ conn'[d] = conn[d] /\ queue'[d] = queue[d] /\ start'[d] = start[d]
                                      /\ wire'[d] = wire[d] /\ pending'[d] = pending[d]
                                      /\ armed'[d] = armed[d] /\ sent'[d] = sent[d]
      PROVE  OnceInv'
  <2>1. ASSUME NEW d \in Clients, d # c PROVE Phases(d)' /\ OnceFor(d)'
    BY <1>0, <2>1, OnceElsewhere
  <2> QED BY <1>0, <2>1
<1>1. ASSUME NEW w \in Writers, Commit(w) PROVE OnceInv'
  <2>1. PICK e : /\ e.seq = lastSeq + 1 /\ e # NoEvent /\ unnotified' = [unnotified EXCEPT ![w] = e]
    <3>1. \A a \in Audiences, r \in Resources :
            LET e == [seq |-> lastSeq + 1, aud |-> a, res |-> r] IN e.seq = lastSeq + 1 /\ e # NoEvent
      BY DEF NoEvent, LogTypes
    <3> QED BY <1>1, <3>1 DEF Commit
  <2>2. /\ lastSeq \in Nat /\ lastSeq' = lastSeq + 1 /\ up /\ up' = up
        /\ UNCHANGED <<handler, wire, sent>>
    BY <1>1 DEF Commit, history, LogTypes
  <2>3. \A v \in Writers : unnotified[v].seq \in Nat
    BY RowTypes, Unlike DEF LogTypes
  <2>4. \A c \in Clients : \A i \in DOMAIN queue[c] : queue[c][i].seq \in Nat
    BY RowTypes
  <2>5. AnnouncedOnce'
    BY <2>1, <2>2, <2>3, <2>4 DEF AnnouncedOnce, handler, LogTypes
  <2>6. ASSUME NEW c \in Clients PROVE Phases(c)' /\ OnceFor(c)'
    <3>1. \A x \in Int : ToCome(c, x)' => ToCome(c, x)
      BY <2>1, <2>2 DEF ToCome, handler, LogTypes
    <3>2. OnceFor(c)'
      BY <2>2, <3>1, OnceStays DEF handler
    <3> QED BY <2>2, <3>2 DEF Phases, handler
  <2> QED BY <2>5, <2>6
<1>2. ASSUME NEW w \in Writers, Notify(w) PROVE OnceInv'
  <2> DEFINE e == unnotified[w]
  <2>1. /\ e # NoEvent /\ e \in Row /\ e.seq \in Nat /\ e.seq <= lastSeq /\ lastSeq \in Nat
        /\ unnotified' = [unnotified EXCEPT ![w] = NoEvent]
        /\ UNCHANGED <<lastSeq, up, conn, start, pending, armed, wire, sent>> /\ up
    BY <1>2, RowTypes DEF Notify, LogTypes, AnnouncedOnce, durable, history
  <2>2. \A c \in Clients : queue'[c] = queue[c] \/ (conn[c] # "closed" /\ queue'[c] = Append(queue[c], e))
    BY <1>2 DEF Notify, Wakes, Subscribed
  <2>3. \A v \in Writers : v # w => unnotified[v].seq # e.seq
    BY <2>1 DEF AnnouncedOnce
  <2> HIDE DEF e
  <2>4. ASSUME NEW c \in Clients
        PROVE  /\ \A i \in DOMAIN queue'[c] :
                    /\ queue'[c][i].seq <= lastSeq
                    /\ \A v \in Writers : unnotified'[v].seq # queue'[c][i].seq
                    /\ \A j \in DOMAIN queue'[c] : queue'[c][i].seq = queue'[c][j].seq => i = j
               /\ \A i \in DOMAIN queue'[c] : queue'[c][i] = e \/ \E j \in DOMAIN queue[c] : queue'[c][i] = queue[c][j]
    <3>1. queue[c] \in Seq(Row) /\ \A i \in DOMAIN queue[c] : queue[c][i].seq \in Nat \ {0}
      BY RowTypes
    <3>2. \A v \in Writers : unnotified'[v].seq = 0 \/ (v # w /\ unnotified'[v] = unnotified[v])
      BY <2>1, Unlike DEF LogTypes
    <3>3. CASE queue'[c] = queue[c]
      BY <2>1, <3>1, <3>2, <3>3 DEF AnnouncedOnce
    <3>4. CASE queue'[c] = Append(queue[c], e)
      <4>1. e.seq # 0 /\ \A v \in Writers : unnotified'[v].seq # e.seq
        BY <2>1, <2>3, <3>2, RowTypes
      <4>2. DOMAIN queue'[c] = 1..(Len(queue[c]) + 1) /\ Len(queue[c]) \in Nat /\ DOMAIN queue[c] = 1..Len(queue[c])
        BY <3>1, <3>4
      <4>3. /\ queue'[c][Len(queue[c]) + 1] = e
            /\ \A i \in DOMAIN queue[c] : queue'[c][i] = queue[c][i]
        BY <3>1, <3>4, <4>2
      <4>4. \A i \in DOMAIN queue[c] : queue[c][i].seq # e.seq
        BY DEF AnnouncedOnce, e
      <4>5. \A i \in DOMAIN queue'[c] : i \in DOMAIN queue[c] \/ i = Len(queue[c]) + 1
        BY <4>2
      <4>6. \A i, j \in DOMAIN queue[c] : queue[c][i].seq = queue[c][j].seq => i = j
        BY DEF AnnouncedOnce
      <4>7. \A i, j \in DOMAIN queue'[c] : queue'[c][i].seq = queue'[c][j].seq => i = j
        BY <4>3, <4>4, <4>5, <4>6
      <4>8. \A i \in DOMAIN queue[c] : queue[c][i].seq <= lastSeq /\ \A v \in Writers : unnotified'[v].seq # queue[c][i].seq
        BY <3>1, <3>2 DEF AnnouncedOnce
      <4>9. \A i \in DOMAIN queue'[c] : queue'[c][i] = e \/ \E j \in DOMAIN queue[c] : queue'[c][i] = queue[c][j]
        BY <4>3, <4>5
      <4>10. \A i \in DOMAIN queue'[c] :
                queue'[c][i].seq <= lastSeq /\ \A v \in Writers : unnotified'[v].seq # queue'[c][i].seq
        <5>1. e.seq <= lastSeq
          BY <2>1
        <5> QED BY ONLY <5>1, <4>1, <4>8, <4>9
      <4> QED BY <4>7, <4>9, <4>10
    <3> QED BY <2>2, <3>3, <3>4
  <2>5. AnnouncedOnce'
    <3>1. \A v \in Writers : unnotified'[v].seq <= lastSeq'
      BY <2>1, Unlike DEF AnnouncedOnce
    <3>2. \A v, u \in Writers : unnotified'[v] # NoEvent /\ unnotified'[v].seq = unnotified'[u].seq => v = u
      <4>1. \A v \in Writers : unnotified'[v] = NoEvent \/ (v # w /\ unnotified'[v] = unnotified[v])
        BY <2>1 DEF LogTypes
      <4>2. \A v \in Writers : unnotified[v] # NoEvent => unnotified[v].seq # NoEvent.seq
        BY RowTypes, Unlike DEF LogTypes
      <4> QED BY <4>1, <4>2 DEF AnnouncedOnce
    <3> QED BY <2>1, <2>4, <3>1, <3>2 DEF AnnouncedOnce
  <2>6. ASSUME NEW c \in Clients PROVE Phases(c)' /\ OnceFor(c)'
    <3>1. ASSUME NEW x \in Int, ToCome(c, x)' PROVE ToCome(c, x)
      <4>1. CASE \E v \in Writers : unnotified'[v] # NoEvent /\ unnotified'[v].seq = x
        BY <2>1, <4>1 DEF ToCome
      <4>2. CASE \E i \in DOMAIN queue'[c] : queue'[c][i].seq = x
        <5>1. PICK i \in DOMAIN queue'[c] : queue'[c][i].seq = x
          BY <4>2
        <5>2. CASE queue'[c][i] = e
          BY <5>1, <5>2, <2>1 DEF ToCome, e
        <5>3. CASE \E j \in DOMAIN queue[c] : queue'[c][i] = queue[c][j]
          BY <5>1, <5>3 DEF ToCome
        <5> QED BY <5>1, <5>2, <5>3, <2>4
      <4> QED BY <3>1, <4>1, <4>2, <2>1 DEF ToCome
    <3>2. OnceFor(c)'
      BY <2>1, <3>1, OnceStays
    <3> QED BY <2>1, <2>2, <3>2 DEF Phases
  <2> QED BY <2>5, <2>6
<1>3. ASSUME NEW c \in Clients, Subscribe(c) PROVE OnceInv'
  <2>1. /\ conn[c] = "closed" /\ wire[c] = <<>> /\ up
        /\ conn' = [conn EXCEPT ![c] = "subscribed"] /\ sent' = [sent EXCEPT ![c] = {}]
        /\ UNCHANGED <<lastSeq, up, unnotified, queue, start, pending, armed, wire>>
    BY <1>3 DEF Subscribe, durable
  <2>2. AnnouncedOnce'
    BY <2>1 DEF AnnouncedOnce
  <2>3. Phases(c)' /\ pending'[c] = <<>> /\ armed'[c] = NoFrame /\ sent'[c] = {}
    BY <2>1 DEF Phases, ViewTypes
  <2>4. OnceFor(c)'
    BY <2>3 DEF OnceFor
  <2> QED BY <2>1, <2>2, <2>3, <2>4, <1>0 DEF ViewTypes
<1>4. ASSUME NEW c \in Clients, ReadStart(c) PROVE OnceInv'
  <2>1. PICK frames, from :
              /\ pending' = [pending EXCEPT ![c] = frames] /\ start' = [start EXCEPT ![c] = from]
              /\ frames \in Seq(Frames) /\ from \in Int
              /\ \A i, j \in DOMAIN frames : i < j => frames[i].id < frames[j].id
              /\ \A i \in DOMAIN frames : frames[i].id <= from
    BY <1>4, StartFrames DEF ViewTypes
  <2>2. /\ conn[c] = "subscribed" /\ up /\ conn' = [conn EXCEPT ![c] = "starting"]
        /\ UNCHANGED <<lastSeq, up, unnotified, queue, armed, wire, sent>>
    BY <1>4 DEF ReadStart, durable, history
  <2>3. AnnouncedOnce'
    BY <2>2 DEF AnnouncedOnce
  <2>4. Phases(c)' /\ armed'[c] = NoFrame /\ sent'[c] = {} /\ pending'[c] = frames /\ start'[c] = from
    BY <2>1, <2>2 DEF Phases
  <2>5. OnceFor(c)'
    BY <2>1, <2>4 DEF OnceFor
  <2> QED BY <2>1, <2>2, <2>3, <2>4, <2>5, <1>0
<1>5. ASSUME NEW c \in Clients, ArmOpening(c) PROVE OnceInv'
  <2>1. /\ conn[c] = "starting" /\ pending[c] # <<>> /\ armed[c] = NoFrame
        /\ armed' = [armed EXCEPT ![c] = Head(pending[c])]
        /\ pending' = [pending EXCEPT ![c] = Tail(pending[c])]
        /\ UNCHANGED <<lastSeq, up, unnotified, conn, queue, start, wire, sent>>
    BY <1>5 DEF ArmOpening, durable, history
  <2>2. AnnouncedOnce'
    BY <2>1 DEF AnnouncedOnce
  <2>3. Phases(c)'
    BY <2>1 DEF Phases
  <2> DEFINE p == pending[c]
  <2>4. /\ p \in Seq(Frames) /\ 1 \in DOMAIN p /\ Len(p) \in Nat /\ Head(p) = p[1]
        /\ DOMAIN Tail(p) = 1..(Len(p) - 1) /\ DOMAIN p = 1..Len(p)
        /\ \A i \in DOMAIN Tail(p) : Tail(p)[i] = p[i + 1]
    BY <2>1
  <2>5. armed'[c] = p[1] /\ pending'[c] = Tail(p) /\ p[1] \in Frames
    BY <2>1, <2>4
  <2>6. \A i \in DOMAIN p : /\ p[i].id <= start[c] /\ \A x \in sent[c] : x < p[i].id
                            /\ \A j \in DOMAIN p : i < j => p[i].id < p[j].id
    BY <2>1 DEF OnceFor
  <2> HIDE DEF p
  <2>7. \A i \in DOMAIN Tail(p) : i + 1 \in DOMAIN p /\ 1 < i + 1
    BY <2>4
  <2>8. \A i \in DOMAIN Tail(p) : p[1].id < Tail(p)[i].id
    BY <2>4, <2>6, <2>7
  <2>14. start[c] \in Int /\ p[1].id \in Int /\ sent[c] \subseteq Int
    BY <2>5, FrameTypes DEF ViewTypes
  <2>15. p[1].id <= start[c] /\ \A x \in sent[c] : x < p[1].id
    BY <2>4, <2>6
  <2>16. \A x \in sent[c] : \A i \in DOMAIN Tail(p) : x < Tail(p)[i].id
    BY <2>4, <2>6, <2>7
  <2>9. /\ p[1].id \notin sent[c] /\ ~(p[1].id > start[c])
        /\ \A x \in sent[c] : \A i \in DOMAIN Tail(p) : x < Tail(p)[i].id
    BY <2>14, <2>15, <2>16
  <2>10. ASSUME NEW i \in DOMAIN Tail(p)
         PROVE  /\ Tail(p)[i].id <= start[c]
                /\ \A j \in DOMAIN Tail(p) : i < j => Tail(p)[i].id < Tail(p)[j].id
    <3>1. Tail(p)[i] = p[i + 1] /\ i + 1 \in DOMAIN p
      BY <2>4, <2>7
    <3>2. \A j \in DOMAIN Tail(p) : i < j => i + 1 < j + 1 /\ Tail(p)[j] = p[j + 1] /\ j + 1 \in DOMAIN p
      BY <2>4, <2>7
    <3> QED BY <2>6, <3>1, <3>2
  <2>11. \A x \in sent[c] : x > start[c] => ~ToCome(c, x)
    BY <2>1 DEF OnceFor
  <2>12. \A x \in Int : ToCome(c, x)' => ToCome(c, x)
    BY <2>1 DEF ToCome
  <2>13. OnceFor(c)'
    BY <2>1, <2>5, <2>8, <2>9, <2>10, <2>11, <2>12, <2>14 DEF OnceFor
  <2> QED BY <2>1, <2>2, <2>3, <2>13, <1>0
<1>6. ASSUME NEW c \in Clients, GoLive(c) PROVE OnceInv'
  <2>1. /\ conn[c] = "starting" /\ pending[c] = <<>> /\ armed[c] = NoFrame
        /\ conn' = [conn EXCEPT ![c] = "live"]
        /\ UNCHANGED <<lastSeq, up, unnotified, armed, pending, queue, start, wire, sent>>
    BY <1>6 DEF GoLive, durable, history
  <2>2. AnnouncedOnce' /\ Phases(c)'
    BY <2>1 DEF AnnouncedOnce, Phases
  <2>3. \A x \in Int : ToCome(c, x)' => ToCome(c, x)
    BY <2>1 DEF ToCome
  <2>4. OnceFor(c)'
    BY <2>1, <2>3 DEF OnceFor, ViewTypes
  <2> QED BY <2>1, <2>2, <2>4, <1>0
<1>7. ASSUME NEW c \in Clients, TakeLive(c) PROVE OnceInv'
  <2> DEFINE q == queue[c]
             e == Head(q)
  <2>1. /\ conn[c] = "live" /\ q # <<>> /\ armed[c] = NoFrame
        /\ queue' = [queue EXCEPT ![c] = Tail(q)]
        /\ armed' = [armed EXCEPT ![c] = IF e.seq <= start[c] THEN NoFrame ELSE EventFrame(e)]
        /\ UNCHANGED <<lastSeq, up, unnotified, conn, pending, start, wire, sent>>
    BY <1>7 DEF TakeLive, durable, history
  <2>2. /\ q \in Seq(Row) /\ 1 \in DOMAIN q /\ Len(q) \in Nat /\ e = q[1]
        /\ DOMAIN Tail(q) = 1..(Len(q) - 1) /\ DOMAIN q = 1..Len(q)
        /\ \A i \in DOMAIN Tail(q) : Tail(q)[i] = q[i + 1]
    BY <2>1
  <2>3. \A i \in DOMAIN Tail(q) : i + 1 \in DOMAIN q /\ 1 # i + 1
    BY <2>2
  <2>4. e \in Row /\ queue'[c] = Tail(q) /\ e.seq \in Nat /\ EventFrame(e).id = e.seq
    BY <2>1, <2>2, RowTypes
  <2> HIDE DEF e, q
  <2>5. \A i \in DOMAIN Tail(q) : \A j \in DOMAIN Tail(q) : Tail(q)[i].seq = Tail(q)[j].seq => i = j
    <3>1. \A i, j \in DOMAIN q : q[i].seq = q[j].seq => i = j
      BY DEF AnnouncedOnce, q
    <3>2. \A i, j \in DOMAIN Tail(q) : i + 1 = j + 1 => i = j
      BY <2>2
    <3> QED BY <2>2, <2>3, <3>1, <3>2
  <2>6. \A d \in Clients : d # c => queue'[d] = queue[d]
    BY <2>1
  <2>7. AnnouncedOnce'
    <3>1. \A i \in DOMAIN Tail(q) : Tail(q)[i].seq <= lastSeq /\ \A w \in Writers : unnotified[w].seq # Tail(q)[i].seq
      BY <2>2, <2>3 DEF AnnouncedOnce, q
    <3> QED BY <2>1, <2>4, <2>5, <2>6, <3>1 DEF AnnouncedOnce
  <2>8. \A x \in Int : ToCome(c, x)' => ToCome(c, x)
    BY <2>1, <2>2, <2>3, <2>4 DEF ToCome, q
  <2>9. Phases(c)' /\ pending[c] = <<>>
    BY <2>1 DEF Phases
  <2>10. CASE e.seq <= start[c]
    <3>1. armed'[c] = armed[c]
      BY <2>1, <2>10
    <3>2. OnceFor(c)'
      BY <2>1, <2>8, <3>1, OnceStays
    <3> QED BY <2>1, <2>6, <2>7, <2>9, <3>2, <1>0
  <2>11. CASE ~(e.seq <= start[c])
    <3>1. PICK x : x = e.seq
      OBVIOUS
    <3>2. armed'[c].id = x /\ x > start[c] /\ x \in Int
      BY <2>1, <2>4, <2>11, <3>1
    <3>3. ToCome(c, x)
      BY <2>2, <3>1 DEF ToCome, q
    <3>4. x \notin sent[c]
      BY <2>1, <3>2, <3>3 DEF OnceFor
    <3>5. ~ToCome(c, x)'
      <4>1. x <= lastSeq /\ \A w \in Writers : unnotified[w].seq # x
        BY <2>2, <3>1 DEF AnnouncedOnce, q
      <4>2. \A i \in DOMAIN Tail(q) : Tail(q)[i].seq # x
        BY <2>2, <2>3, <3>1 DEF AnnouncedOnce, q
      <4> QED BY <2>1, <2>4, <3>2, <4>1, <4>2 DEF ToCome, LogTypes
    <3>6. /\ armed'[c].id \notin sent'[c] /\ pending'[c] = <<>>
          /\ \A y \in sent'[c] : y \in Int /\ y > start'[c] => ~ToCome(c, y)'
      BY <2>1, <2>8, <2>9, <3>2, <3>4 DEF OnceFor
    <3>7. OnceFor(c)'
      BY <2>1, <3>2, <3>5, <3>6 DEF OnceFor, ViewTypes
    <3> QED BY <2>1, <2>6, <2>7, <2>9, <3>7, <1>0
  <2> QED BY <2>10, <2>11
<1>8. ASSUME NEW c \in Clients, Write(c) PROVE OnceInv'
  <2>1. /\ armed[c] # NoFrame /\ armed' = [armed EXCEPT ![c] = NoFrame]
        /\ wire' = [wire EXCEPT ![c] = Append(@, armed[c])]
        /\ sent' = [sent EXCEPT ![c] = IF armed[c].res = Resources THEN @ ELSE @ \cup {armed[c].id}]
        /\ UNCHANGED <<lastSeq, up, unnotified, conn, queue, pending, start>>
    BY <1>8 DEF Write, durable
  <2>2. AnnouncedOnce'
    BY <2>1 DEF AnnouncedOnce
  <2>3. Phases(c)' /\ conn[c] # "closed"
    BY <2>1 DEF Phases
  <2>4. \A x \in sent'[c] : x \in sent[c] \/ x = armed[c].id
    BY <2>1 DEF ViewTypes
  <2>5. \A x \in Int : ToCome(c, x)' => ToCome(c, x)
    BY <2>1 DEF ToCome
  <2>6. OnceFor(c)'
    <3>1. armed[c].id \in Int /\ sent[c] \subseteq Int
      BY <2>1, FrameTypes DEF ViewTypes
    <3>2. /\ armed'[c] = NoFrame /\ pending'[c] = pending[c] /\ start'[c] = start[c]
          /\ (armed[c].id > start[c] => ~ToCome(c, armed[c].id))
      BY <2>1, <2>3 DEF OnceFor
    <3>3. \A x \in sent'[c] : /\ x > start[c] => ~ToCome(c, x)'
                              /\ \A i \in DOMAIN pending[c] : x < pending[c][i].id
      BY <2>1, <2>3, <2>4, <2>5, <3>1, <3>2 DEF OnceFor
    <3> QED BY <2>1, <2>3, <3>2, <3>3 DEF OnceFor
  <2> QED BY <2>1, <2>2, <2>3, <2>6, <1>0 DEF ViewTypes
<1>9. ASSUME NEW c \in Clients, Return(c) \/ Break(c) \/ SignIn(c) PROVE OnceInv'
  <2>1. /\ CloseHandler({c}) /\ sent' = sent /\ lastSeq' = lastSeq /\ unnotified' = unnotified /\ up' = up
        /\ \A d \in Clients \ {c} : wire'[d] = wire[d]
    BY <1>9 DEF Return, Break, SignIn, durable, history, ViewTypes
  <2> QED BY <2>1, OnceClosed
<1>10. CASE Stop
  <2>1. /\ CloseHandler(Clients) /\ sent' = sent /\ lastSeq' = lastSeq
        /\ unnotified' = [w \in Writers |-> NoEvent]
    BY <1>10 DEF Stop, durable, history
  <2> QED BY <2>1, OnceClosed
<1>11. ASSUME NEW c \in Clients, Receive(c) PROVE OnceInv'
  <2>1. /\ UNCHANGED <<lastSeq, up, unnotified, conn, queue, pending, armed, start, sent>> /\ wire[c] # <<>>
        /\ wire' = [wire EXCEPT ![c] = Tail(wire[c])]
    BY <1>11 DEF Receive, durable, handler, history
  <2>2. AnnouncedOnce' /\ Phases(c)'
    BY <2>1 DEF AnnouncedOnce, Phases
  <2>3. \A x \in Int : ToCome(c, x)' => ToCome(c, x)
    BY <2>1 DEF ToCome
  <2>4. OnceFor(c)'
    BY <2>1, <2>3, OnceStays
  <2> QED BY <2>1, <2>2, <2>4, <1>0 DEF ViewTypes
<1>12. CASE Start \/ Prune \/ UNCHANGED vars \/ \E c \in Clients : Revoke(c)
  <2>1. /\ UNCHANGED <<lastSeq, unnotified, conn, queue, pending, armed, start, sent, wire>>
        /\ up' \/ up' = up
    BY <1>12 DEF Start, Prune, vars, Revoke, durable, handler, history
  <2>2. AnnouncedOnce'
    BY <2>1 DEF AnnouncedOnce
  <2>3. \A d \in Clients : Phases(d)' /\ OnceFor(d)'
    BY <2>1, OnceElsewhere
  <2> QED BY <2>2, <2>3
<1> QED
  BY <1>1, <1>2, <1>3, <1>4, <1>5, <1>6, <1>7, <1>8, <1>9, <1>10, <1>11, <1>12 DEF Next, Handle

\* No row is written twice on one connection, although the subscription is taken before the
\* replay is read and a row can reach the handler both ways.
THEOREM EachRowOncePerConnection == Spec => []NoDuplicateOnConnection
<1>1. StreamTypes /\ OnceInv => NoDuplicateOnConnection
  BY DEF StreamTypes, HandlerTypes, OnceInv, Phases, OnceFor, NoDuplicateOnConnection
<1>2. Init => StreamTypes /\ OnceInv
  BY TypesInit, OnceInit
<1>3. (StreamTypes /\ OnceInv) /\ [Next]_vars => (StreamTypes /\ OnceInv)'
  BY TypesStep, OnceStep
<1> QED BY <1>1, <1>2, <1>3, PTL DEF Spec

-----------------------------------------------------------------------------
(* No row above the start is lost on an open channel.                       *)

\* Where the entries of a queue go when its head is taken.
LEMMA TailIndex ==
    ASSUME NEW S, NEW q \in Seq(S), q # <<>>
    PROVE  /\ Head(q) = q[1] /\ q[1] \in S /\ Tail(q) \in Seq(S)
           /\ \A i \in DOMAIN q : i = 1 \/ (i > 1 /\ i - 1 \in DOMAIN Tail(q) /\ Tail(q)[i - 1] = q[i])
           /\ \A i \in DOMAIN Tail(q) : i >= 1 /\ i + 1 \in DOMAIN q /\ Tail(q)[i] = q[i + 1]
<1>1. /\ Len(q) \in Nat /\ DOMAIN q = 1..Len(q) /\ Len(q) # 0
      /\ Tail(q) \in Seq(S) /\ DOMAIN Tail(q) = 1..(Len(q) - 1)
  OBVIOUS
<1>2. \A i \in 1..(Len(q) - 1) : Tail(q)[i] = q[i + 1]
  OBVIOUS
<1>3. Head(q) = q[1] /\ q[1] \in S
  OBVIOUS
<1>4. \A i \in DOMAIN q : i = 1 \/ (i > 1 /\ i - 1 \in DOMAIN Tail(q) /\ Tail(q)[i - 1] = q[i])
  <2> TAKE i \in DOMAIN q
  <2>1. i \in Int /\ 1 <= i /\ i <= Len(q)
    BY <1>1
  <2>2. CASE i # 1
    <3>1. i - 1 \in 1..(Len(q) - 1) /\ (i - 1) + 1 = i /\ i > 1
      BY <1>1, <2>1, <2>2
    <3> QED BY <1>1, <1>2, <3>1
  <2> QED BY <2>2
<1> QED BY <1>1, <1>2, <1>3, <1>4

\* A row stays known while the log only grows.
LEMMA KnownStays ==
    ASSUME NEW c \in Clients, NEW e, Known(c, e), log \subseteq log', checkpoint' = checkpoint
    PROVE  Known(c, e)'
  BY DEF Known, Visible, Checkpoint

\* Pruning leaves every row in the log or at its audience's checkpoint.
LEMMA KnownPruned ==
    ASSUME LogTypes, LogTypes', NEW c \in Clients, NEW e \in Row, Known(c, e), Prune
    PROVE  Known(c, e)'
<1>1. PICK keep \in 0..1 :
          /\ checkpoint' = [a \in Audiences |-> Max({checkpoint[a], PruneThrough(a, keep)})]
          /\ log' = {f \in log : f.seq > PruneThrough(f.aud, keep)}
  BY DEF Prune
<1>2. ASSUME NEW a \in Audiences
      PROVE  checkpoint'[a] >= checkpoint[a] /\ checkpoint'[a] >= PruneThrough(a, keep)
  <2>1. checkpoint[a] \in Int /\ PruneThrough(a, keep) \in Int
    BY PruneBounds DEF LogTypes
  <2>2. /\ Max({checkpoint[a], PruneThrough(a, keep)}) >= checkpoint[a]
        /\ Max({checkpoint[a], PruneThrough(a, keep)}) >= PruneThrough(a, keep)
    BY ONLY <2>1, MaxOfTwo
  <2> QED BY <1>1, <2>2
<1>3. /\ Role[c] \in Audiences /\ "public" \in Audiences
      /\ \A a \in Audiences : checkpoint[a] \in Int /\ checkpoint'[a] \in Int /\ PruneThrough(a, keep) \in Int
  BY StreamAssumption, PruneBounds DEF Audiences, LogTypes
<1>4. Checkpoint(c)' \in Int /\ Checkpoint(c)' >= checkpoint'["public"] /\ Checkpoint(c)' >= checkpoint'[Role[c]]
  BY <1>3 DEF Checkpoint
<1>5. Checkpoint(c) \in Int /\ (Checkpoint(c) = checkpoint["public"] \/ Checkpoint(c) = checkpoint[Role[c]])
  BY <1>3 DEF Checkpoint
<1>6. Checkpoint(c)' >= Checkpoint(c)
  BY <1>2, <1>3, <1>4, <1>5
<1>7. Visible(e, c)' /\ (e.aud = "public" \/ e.aud = Role[c]) /\ e.seq \in Int
  BY RowTypes DEF Known, Visible
<1>8. CASE e \in log
  <2>1. e \in log' \/ ~(e.seq > PruneThrough(e.aud, keep))
    BY <1>1, <1>8
  <2>2. CASE e \in log'
    BY <1>7, <2>2 DEF Known
  <2>3. CASE ~(e.seq > PruneThrough(e.aud, keep))
    <3>1. e.aud \in Audiences
      BY <1>3, <1>7
    <3>2. e.seq <= Checkpoint(c)'
      BY <1>2, <1>3, <1>4, <1>7, <2>3, <3>1
    <3> QED BY <1>7, <3>2 DEF Known
  <2> QED BY <2>1, <2>2, <2>3
<1>9. CASE e.seq <= Checkpoint(c)
  BY <1>4, <1>5, <1>6, <1>7, <1>9 DEF Known
<1> QED BY <1>8, <1>9 DEF Known

\* A client whose handler, wire and view a step leaves alone.
LEMMA GapStays ==
    ASSUME NEW c \in Clients, GapFor(c), stale'[c] \subseteq stale[c],
           \A e \in stale[c] : Known(c, e)', alert'[c] = alert[c],
           Reading(c)' /\ open'[c] => Reading(c) /\ open[c] /\ start'[c] = start[c],
           \A e \in stale[c] : OnItsWay(c, e) => OnItsWay(c, e)' \/ e \notin stale'[c]
    PROVE  GapFor(c)'
  BY DEF GapFor

\* The same when the step is another client's.
LEMMA GapElsewhere ==
    ASSUME NEW c \in Clients, GapFor(c), stale'[c] = stale[c], alert'[c] = alert[c],
           log \subseteq log', checkpoint' = checkpoint, unnotified' = unnotified,
           conn'[c] = conn[c], open'[c] = open[c], start'[c] = start[c], queue'[c] = queue[c],
           armed'[c] = armed[c], wire'[c] = wire[c]
    PROVE  GapFor(c)'
<1>1. \A e \in stale[c] : Known(c, e)'
  BY KnownStays DEF GapFor
<1>2. \A e : OnItsWay(c, e) => OnItsWay(c, e)'
  BY DEF OnItsWay, InHand, OnWire
<1>3. Reading(c)' <=> Reading(c)
  BY DEF Reading
<1> QED BY <1>1, <1>2, <1>3, GapStays

\* A handler that returned promises nothing of the rows to come.
LEMMA GapClosed ==
    ASSUME NEW c \in Clients, GapFor(c), stale'[c] = stale[c], ~Reading(c)',
           \A e \in stale[c] : Known(c, e)'
    PROVE  GapFor(c)'
  BY DEF GapFor

\* The invariant of the gap holds at first.
LEMMA GapInit == Init => GapInv
  BY DEF Init, GapInv, GapFor

\* Every step keeps it.
LEMMA GapStep == GapInv /\ OnceInv /\ StreamTypes /\ StreamTypes' /\ [Next]_vars => GapInv'
<1> SUFFICES ASSUME GapInv, OnceInv, StreamTypes, StreamTypes', [Next]_vars, NEW d \in Clients
             PROVE  GapFor(d)'
  BY DEF GapInv
<1> USE DEF StreamTypes, HandlerTypes, ViewTypes
<1>0. GapFor(d) /\ Phases(d) /\ \A e \in stale[d] : e \in Row /\ Known(d, e)
  BY DEF GapInv, GapFor, OnceInv
<1>1. ASSUME NEW w \in Writers, Commit(w) PROVE GapFor(d)'
  <2>1. PICK e \in Row :
            /\ log' = log \cup {e} /\ unnotified' = [unnotified EXCEPT ![w] = e]
            /\ stale' = [c \in Clients |-> IF Visible(e, c) THEN stale[c] \cup {e} ELSE stale[c]]
    <3>1. PICK a \in Audiences, r \in Resources :
            LET e == [seq |-> lastSeq + 1, aud |-> a, res |-> r] IN
            /\ log' = log \cup {e}
            /\ unnotified' = [unnotified EXCEPT ![w] = e]
            /\ stale' = [c \in Clients |-> IF Visible(e, c) THEN stale[c] \cup {e} ELSE stale[c]]
      BY <1>1 DEF Commit
    <3>2. [seq |-> lastSeq + 1, aud |-> a, res |-> r] \in Row
      BY DEF LogTypes, Row
    <3> QED BY <3>1, <3>2
  <2>2. /\ unnotified[w] = NoEvent /\ UNCHANGED <<checkpoint, handler, wire, alert>>
    BY <1>1 DEF Commit
  <2>3. \A f \in Row : OnItsWay(d, f) => OnItsWay(d, f)'
    BY <2>1, <2>2, Unlike DEF OnItsWay, InHand, OnWire, handler, LogTypes
  <2>4. OnItsWay(d, e)'
    BY <2>1 DEF OnItsWay, LogTypes
  <2>5. \A f \in stale'[d] : f \in stale[d] \/ (f = e /\ Visible(e, d))
    BY <2>1
  <2>6. \A f \in stale[d] : Known(d, f)'
    BY <1>0, <2>1, <2>2, KnownStays
  <2>7. Visible(e, d) => Known(d, e)'
    BY <2>1 DEF Known, Visible
  <2> QED BY <1>0, <2>2, <2>3, <2>4, <2>5, <2>6, <2>7 DEF GapFor, Reading, handler
<1>2. ASSUME NEW w \in Writers, Notify(w) PROVE GapFor(d)'
  <2> DEFINE e == unnotified[w]
  <2>1. /\ unnotified' = [unnotified EXCEPT ![w] = NoEvent]
        /\ UNCHANGED <<log, checkpoint, conn, start, armed, wire, stale, alert>>
    BY <1>2 DEF Notify, durable, browser
  <2>2. queue'[d] = IF Wakes(e, d) /\ HasRoom(d) THEN Append(queue[d], e) ELSE queue[d]
    BY <1>2 DEF Notify
  <2>3. open'[d] => open[d] /\ ~(Wakes(e, d) /\ ~HasRoom(d))
    BY <1>2 DEF Notify
  <2>4. Visible(e, d) /\ conn[d] # "closed" /\ open'[d] => queue'[d] = Append(queue[d], e)
    BY <2>2, <2>3 DEF Wakes, Subscribed, Visible
  <2>5. queue[d] \in Seq(Row) /\ \A i \in DOMAIN queue[d] : i \in DOMAIN queue'[d] /\ queue'[d][i] = queue[d][i]
    BY <2>2
  <2>6. queue'[d] = Append(queue[d], e) => \E i \in DOMAIN queue'[d] : queue'[d][i] = e
    <3>1. SUFFICES ASSUME queue'[d] = Append(queue[d], e)
                   PROVE  Len(queue[d]) + 1 \in DOMAIN queue'[d] /\ queue'[d][Len(queue[d]) + 1] = e
      OBVIOUS
    <3> QED BY <2>5, <3>1
  <2> HIDE DEF e
  <2>7. ASSUME NEW f \in stale[d], Reading(d), open'[d], OnItsWay(d, f) PROVE OnItsWay(d, f)'
    <3>1. CASE f = e
      BY <1>0, <2>4, <2>6, <2>7, <3>1 DEF OnItsWay, Known, Reading
    <3>2. CASE f # e
      BY <2>1, <2>5, <2>7, <3>2 DEF OnItsWay, InHand, OnWire, LogTypes, e
    <3> QED BY <3>1, <3>2
  <2>8. \A f \in stale[d] : Known(d, f)'
    BY <1>0, <2>1, KnownStays
  <2> QED BY <1>0, <2>1, <2>3, <2>7, <2>8 DEF GapFor, Reading
<1>3. ASSUME NEW c \in Clients, Subscribe(c) PROVE GapFor(d)'
  <2>1. UNCHANGED <<log, checkpoint, unnotified, queue, start, armed, wire, stale, alert>>
    BY <1>3 DEF Subscribe, durable, browser
  <2>2. CASE d = c
    <3>1. ~Reading(d)'
      BY <1>3, <2>2 DEF Subscribe, Reading
    <3> QED BY <1>0, <2>1, <3>1, KnownStays, GapClosed
  <2>3. CASE d # c
    BY <1>0, <1>3, <2>1, <2>3, GapElsewhere DEF Subscribe
  <2> QED BY <2>2, <2>3
<1>4. ASSUME NEW c \in Clients, ReadStart(c) PROVE GapFor(d)'
  <2>1. UNCHANGED <<log, checkpoint, unnotified, queue, open, armed, wire, stale, alert>>
    BY <1>4 DEF ReadStart, durable, browser
  <2>2. CASE d = c
    <3>1. start'[c] \in Int /\ start'[c] >= Checkpoint(c) /\ \A e \in VisibleRows(c) : e.seq <= start'[c]
      <4>1. PICK frames, from :
              /\ start' = [start EXCEPT ![c] = from] /\ from \in Int
              /\ \/ from >= Checkpoint(c) /\ \A e \in VisibleRows(c) : e.seq <= from
                 \/ /\ cursor[c] >= Checkpoint(c) /\ from >= cursor[c]
                    /\ \A e \in VisibleRows(c) : e.seq <= cursor[c] \/ e.seq <= from
        BY <1>4, StartFrames
      <4>2. Checkpoint(c) \in Int /\ cursor[c] \in Int /\ \A e \in VisibleRows(c) : e.seq \in Int
        <5>1. Checkpoint(c) \in Int
          BY LatestBounds
        <5>2. \A e \in VisibleRows(c) : e.seq \in Int
          <6>1. Keyed(VisibleRows(c))
            BY LatestBounds
          <6> QED BY <6>1 DEF Keyed
        <5> QED BY <5>1, <5>2
      <4>3. start'[c] = from
        BY <4>1
      <4>4. from >= Checkpoint(c)
        BY ONLY <4>1, <4>2
      <4>5. \A e \in VisibleRows(c) : e.seq <= from
        BY ONLY <4>1, <4>2
      <4> QED BY ONLY <4>1, <4>3, <4>4, <4>5
    <3>2. \A e \in stale[d] : e.seq <= start'[d]
      <4>1. Checkpoint(c) \in Int
        BY LatestBounds
      <4>2. \A e \in stale[d] : e.seq \in Int /\ (e \in VisibleRows(c) \/ e.seq <= Checkpoint(c))
        BY <1>0, <2>2, RowTypes DEF Known, VisibleRows
      <4> QED BY <2>2, <3>1, <4>1, <4>2
    <3> QED BY <1>0, <2>1, <3>2, KnownStays DEF GapFor
  <2>3. CASE d # c
    BY <1>0, <1>4, <2>1, <2>3, GapElsewhere, StartFrames DEF ReadStart
  <2> QED BY <2>2, <2>3
<1>5. ASSUME NEW c \in Clients, ArmOpening(c) PROVE GapFor(d)'
  <2>1. /\ UNCHANGED <<log, checkpoint, unnotified, conn, queue, open, start, wire, stale, alert>>
        /\ armed[c] = NoFrame /\ armed' = [armed EXCEPT ![c] = Head(pending[c])]
    BY <1>5 DEF ArmOpening, durable, browser
  <2>2. \A e : OnItsWay(d, e) => OnItsWay(d, e)'
    BY <2>1 DEF OnItsWay, InHand, OnWire
  <2>3. \A e \in stale[d] : Known(d, e)'
    BY <1>0, <2>1, KnownStays
  <2> QED BY <1>0, <2>1, <2>2, <2>3 DEF GapFor, Reading
<1>6. ASSUME NEW c \in Clients, GoLive(c) PROVE GapFor(d)'
  <2>1. /\ UNCHANGED <<log, checkpoint, unnotified, armed, queue, open, start, wire, stale, alert>>
        /\ conn[c] = "starting" /\ conn' = [conn EXCEPT ![c] = "live"]
    BY <1>6 DEF GoLive, durable, browser
  <2>2. \A e : OnItsWay(d, e) => OnItsWay(d, e)'
    BY <2>1 DEF OnItsWay, InHand, OnWire
  <2>3. \A e \in stale[d] : Known(d, e)'
    BY <1>0, <2>1, KnownStays
  <2> QED BY <1>0, <2>1, <2>2, <2>3 DEF GapFor, Reading
<1>7. ASSUME NEW c \in Clients, TakeLive(c) PROVE GapFor(d)'
  <2>1. PICK q \in Seq(Row) : q = queue[c] /\ q # <<>>
    BY <1>7 DEF TakeLive
  <2>2. PICK e \in Row : e = Head(q) /\ e = q[1]
    BY <2>1
  <2>3. /\ armed[c] = NoFrame /\ queue' = [queue EXCEPT ![c] = Tail(q)]
        /\ armed' = [armed EXCEPT ![c] = IF e.seq <= start[c] THEN NoFrame ELSE EventFrame(e)]
        /\ UNCHANGED <<log, checkpoint, unnotified, conn, open, start, wire, stale, alert>>
    BY <1>7, <2>1, <2>2 DEF TakeLive, durable, browser
  <2>4. CASE d = c
    <3>1. \A i \in DOMAIN q : i = 1 \/ (i - 1 \in DOMAIN Tail(q) /\ Tail(q)[i - 1] = q[i])
      BY <2>1, TailIndex
    <3>2. EventFrame(e) # NoFrame /\ e.res \in EventFrame(e).res
      BY RowTypes, Unlike
    <3>3. ~(e.seq <= start[c]) => InHand(c, e)'
      BY <2>3, <3>2 DEF InHand
    <3>4. queue'[c] = Tail(q) /\ ~InHand(c, e)
      BY <2>3 DEF InHand
    <3>5. ASSUME NEW f \in stale[d], ~(f.seq <= start[c]), OnItsWay(c, f) PROVE OnItsWay(c, f)'
      <4>1. CASE \E w \in Writers : unnotified[w] = f
        BY <2>3, <4>1 DEF OnItsWay
      <4>2. CASE \E i \in DOMAIN queue[c] : queue[c][i] = f
        <5>1. PICK i \in DOMAIN q : q[i] = f
          BY <2>1, <4>2
        <5>2. CASE i = 1
          BY <2>2, <3>3, <3>5, <5>1, <5>2 DEF OnItsWay
        <5>3. CASE i # 1
          BY <3>1, <3>4, <5>1, <5>3 DEF OnItsWay
        <5> QED BY <5>2, <5>3
      <4>3. CASE InHand(c, f) \/ OnWire(c, f)
        BY <2>3, <4>3 DEF OnItsWay, InHand, OnWire
      <4> QED BY <3>5, <4>1, <4>2, <4>3 DEF OnItsWay
    <3>6. \A f \in stale[d] : Known(d, f)'
      BY <1>0, <2>3, KnownStays
    <3> QED BY <1>0, <2>3, <2>4, <3>5, <3>6 DEF GapFor, Reading
  <2>5. CASE d # c
    BY <1>0, <2>3, <2>5, GapElsewhere
  <2> QED BY <2>4, <2>5
<1>8. ASSUME NEW c \in Clients, Write(c) PROVE GapFor(d)'
  <2>1. /\ armed[c] # NoFrame /\ armed[c] \in Frames /\ armed' = [armed EXCEPT ![c] = NoFrame]
        /\ wire' = [wire EXCEPT ![c] = Append(wire[c], armed[c])]
        /\ UNCHANGED <<log, checkpoint, unnotified, conn, queue, open, start, stale, alert>>
    BY <1>8 DEF Write, durable, browser
  <2>2. CASE d = c
    <3>1. /\ wire'[c] = Append(wire[c], armed[c]) /\ wire[c] \in Seq(Frames)
          /\ \A i \in DOMAIN wire[c] : i \in DOMAIN wire'[c] /\ wire'[c][i] = wire[c][i]
          /\ Len(wire[c]) + 1 \in DOMAIN wire'[c] /\ wire'[c][Len(wire[c]) + 1] = armed[c]
      BY <2>1
    <3>2. \A e : OnItsWay(c, e) => OnItsWay(c, e)'
      BY <2>1, <3>1 DEF OnItsWay, InHand, OnWire
    <3>3. \A e \in stale[d] : Known(d, e)'
      BY <1>0, <2>1, KnownStays
    <3> QED BY <1>0, <2>1, <2>2, <3>2, <3>3 DEF GapFor, Reading
  <2>3. CASE d # c
    BY <1>0, <2>1, <2>3, GapElsewhere
  <2> QED BY <2>2, <2>3
<1>9. ASSUME NEW c \in Clients, Return(c) \/ Break(c) \/ SignIn(c) PROVE GapFor(d)'
  <2>1. /\ CloseHandler({c}) /\ UNCHANGED <<log, checkpoint, unnotified, stale, alert>>
        /\ c # d => wire'[d] = wire[d]
    BY <1>9 DEF Return, Break, SignIn, durable, browser
  <2>2. CASE d = c
    <3>1. ~Reading(d)'
      BY <2>1, <2>2 DEF CloseHandler, Reading
    <3> QED BY <1>0, <2>1, <3>1, KnownStays, GapClosed
  <2>3. CASE d # c
    BY <1>0, <2>1, <2>3, GapElsewhere DEF CloseHandler
  <2> QED BY <2>2, <2>3
<1>10. CASE Stop
  <2>1. CloseHandler(Clients) /\ UNCHANGED <<log, checkpoint, stale, alert>>
    BY <1>10 DEF Stop, durable, browser
  <2>2. ~Reading(d)'
    BY <2>1 DEF CloseHandler, Reading
  <2> QED BY <1>0, <2>1, <2>2, KnownStays, GapClosed
<1>11. ASSUME NEW c \in Clients, Receive(c) PROVE GapFor(d)'
  <2>1. PICK q \in Seq(Frames) : q = wire[c] /\ q # <<>>
    BY <1>11 DEF Receive
  <2>2. /\ UNCHANGED <<log, checkpoint, unnotified, conn, queue, open, start, armed>>
        /\ wire' = [wire EXCEPT ![c] = Tail(q)]
        /\ stale' = [stale EXCEPT ![c] = IF up THEN {e \in @ : e.res \notin Head(q).res} ELSE @]
        /\ alert' = [alert EXCEPT ![c] = @ \/ ~up]
    BY <1>11, <2>1 DEF Receive, durable, handler
  <2>3. CASE d = c
    <3>1. /\ Head(q) = q[1]
          /\ \A i \in DOMAIN q : i = 1 \/ (i - 1 \in DOMAIN Tail(q) /\ Tail(q)[i - 1] = q[i])
      BY <2>1, TailIndex
    <3>2. stale'[c] \subseteq stale[c] /\ (up => \A e \in stale'[c] : e.res \notin q[1].res)
      BY <2>2, <3>1
    <3>3. ASSUME NEW e \in stale'[c], up, OnItsWay(c, e) PROVE OnItsWay(c, e)'
      <4>1. ASSUME OnWire(c, e) PROVE OnWire(c, e)'
        <5>1. PICK i \in DOMAIN q : e.res \in q[i].res
          BY <2>1, <4>1 DEF OnWire
        <5>2. i # 1 /\ wire'[c] = Tail(q)
          BY <2>2, <3>2, <3>3, <5>1
        <5> QED BY <3>1, <5>1, <5>2 DEF OnWire
      <4> QED BY <2>2, <3>3, <4>1 DEF OnItsWay, InHand
    <3>4. \A e \in stale[d] : Known(d, e)'
      BY <1>0, <2>2, KnownStays
    <3>5. Reading(d) => up
      BY <1>0 DEF Phases, Reading
    <3>6. ~alert'[c] => ~alert[c]
      BY <2>2, Zenon
    <3> QED BY <1>0, <2>2, <2>3, <3>2, <3>3, <3>4, <3>5, <3>6 DEF GapFor, Reading
  <2>4. CASE d # c
    BY <1>0, <2>2, <2>4, GapElsewhere
  <2> QED BY <2>3, <2>4
<1>12. CASE Prune
  <2>1. UNCHANGED <<conn, stale, alert>> /\ ~up
    BY <1>12 DEF Prune, handler, browser
  <2>2. ~Reading(d)'
    BY <1>0, <2>1 DEF Reading, Phases
  <2>3. \A e \in stale[d] : Known(d, e)'
    BY <1>0, <1>12, KnownPruned
  <2> QED BY <1>0, <2>1, <2>2, <2>3, GapClosed
<1>13. CASE Start \/ UNCHANGED vars \/ \E c \in Clients : Revoke(c)
  <2>1. UNCHANGED <<log, checkpoint, unnotified, handler, wire, stale, alert>>
    BY <1>13 DEF Start, vars, Revoke, durable, browser
  <2> QED BY <1>0, <2>1, GapElsewhere DEF handler
<1> QED
  BY <1>1, <1>2, <1>3, <1>4, <1>5, <1>6, <1>7, <1>8, <1>9, <1>10, <1>11, <1>12, <1>13 DEF Next, Handle

\* A quiet viewer lacks nothing above the number its connection began at.
LEMMA GapWhenQuiet == StreamTypes /\ OnceInv /\ GapInv => QuietGapIsBelowStart
<1> SUFFICES ASSUME StreamTypes, OnceInv, GapInv, NEW c \in Clients, Quiet(c), ~alert[c], NEW e \in stale[c]
             PROVE  e.seq <= start[c]
  BY DEF QuietGapIsBelowStart
<1>1. e \in Row /\ Reading(c) /\ open[c]
  BY DEF StreamTypes, ViewTypes, Quiet, Reading
<1>2. ~OnItsWay(c, e)
  BY <1>1, Unlike DEF Quiet, OnItsWay, InHand, OnWire
<1> QED BY <1>1, <1>2 DEF GapInv, GapFor

\* On one connection no row above the number the connection began at is lost, whatever the
\* order in which the writers announce their rows: what a quiet viewer still lacks is below it.
THEOREM NoRowLostAboveTheStart == Spec => []QuietGapIsBelowStart
<1>1. Init => StreamTypes /\ OnceInv /\ GapInv
  BY TypesInit, OnceInit, GapInit
<1>2. StreamTypes /\ OnceInv /\ GapInv /\ [Next]_vars => (StreamTypes /\ OnceInv /\ GapInv)'
  BY TypesStep, OnceStep, GapStep
<1> QED BY <1>1, <1>2, GapWhenQuiet, PTL DEF Spec

-----------------------------------------------------------------------------
(* With one writer at a time, no row is lost.                               *)

\* No number is ahead of the empty log, and no view lacks anything.
LEMMA BehindInit == Init => Behind /\ FreshInv
  BY DEF Init, Behind, FreshInv, QueuesAscend, None

\* Every step leaves every number at or behind the log's.
LEMMA BehindStep == Behind /\ OnceInv /\ StreamTypes /\ StreamTypes' /\ [Next]_vars => Behind'
<1> SUFFICES ASSUME Behind, OnceInv, StreamTypes, StreamTypes', [Next]_vars PROVE Behind'
  OBVIOUS
<1> USE DEF StreamTypes, HandlerTypes, ViewTypes
<1>0. lastSeq \in Nat /\ \A a \in Audiences : checkpoint[a] \in Nat
  BY DEF LogTypes
\* Steps of one client that leave the numbers of the log.
<1>1. ASSUME NEW c \in Clients, lastSeq' = lastSeq, checkpoint' = checkpoint,
             \A d \in Clients \ {c} : /\ cursor'[d] = cursor[d] /\ start'[d] = start[d] /\ armed'[d] = armed[d]
                                      /\ pending'[d] = pending[d] /\ wire'[d] = wire[d],
             cursor'[c] <= lastSeq, start'[c] <= lastSeq,
             armed'[c] # NoFrame => armed'[c].id <= lastSeq,
             \A i \in DOMAIN pending'[c] : pending'[c][i].id <= lastSeq,
             \A i \in DOMAIN wire'[c] : wire'[c][i].id <= lastSeq
      PROVE  Behind'
  BY <1>1 DEF Behind
<1>2. ASSUME NEW w \in Writers, Commit(w) PROVE Behind'
  <2>1. lastSeq' = lastSeq + 1 /\ UNCHANGED <<checkpoint, cursor, start, armed, pending, wire>>
    BY <1>2 DEF Commit, handler
  <2>2. \A c \in Clients : /\ cursor[c] \in Int /\ start[c] \in Int
                           /\ armed[c] # NoFrame => armed[c].id \in Int
                           /\ \A i \in DOMAIN pending[c] : pending[c][i].id \in Int
                           /\ \A i \in DOMAIN wire[c] : wire[c][i].id \in Int
    BY FrameTypes
  <2> QED BY <1>0, <2>1, <2>2 DEF Behind
<1>3. ASSUME NEW w \in Writers, Notify(w) PROVE Behind'
  BY <1>3 DEF Notify, durable, browser, Behind
<1>4. ASSUME NEW c \in Clients, ReadStart(c) PROVE Behind'
  <2>1. PICK frames, from :
              /\ pending' = [pending EXCEPT ![c] = frames] /\ start' = [start EXCEPT ![c] = from]
              /\ frames \in Seq(Frames) /\ from \in Int
              /\ \A i \in DOMAIN frames : frames[i].id <= from
              /\ from = Checkpoint(c) \/ from = cursor[c] \/ \E e \in log : from = e.seq
    BY <1>4, StartFrames
  <2>2. from <= lastSeq
    <3>1. Checkpoint(c) <= lastSeq
      <4>1. Checkpoint(c) = checkpoint["public"] \/ Checkpoint(c) = checkpoint[Role[c]]
        BY LatestBounds
      <4>2. Role[c] \in Audiences /\ "public" \in Audiences
        BY StreamAssumption DEF Audiences
      <4> QED BY <4>1, <4>2 DEF Behind
    <3> QED BY <2>1, <3>1 DEF Behind, LogTypes
  <2>3. \A i \in DOMAIN frames : frames[i].id <= lastSeq
    BY <1>0, <2>1, <2>2, FrameTypes
  <2>4. UNCHANGED <<lastSeq, checkpoint, cursor, armed, wire>>
    BY <1>4 DEF ReadStart, durable, browser
  <2> QED BY <2>1, <2>2, <2>3, <2>4, <1>1 DEF Behind
<1>5. ASSUME NEW c \in Clients, ArmOpening(c) PROVE Behind'
  <2>1. PICK q \in Seq(Frames) : q = pending[c] /\ q # <<>>
    BY <1>5 DEF ArmOpening
  <2>2. /\ armed' = [armed EXCEPT ![c] = Head(q)] /\ pending' = [pending EXCEPT ![c] = Tail(q)]
        /\ UNCHANGED <<lastSeq, checkpoint, cursor, start, wire>>
    BY <1>5, <2>1 DEF ArmOpening, durable, browser
  <2>3. Head(q).id <= lastSeq /\ \A i \in DOMAIN Tail(q) : Tail(q)[i].id <= lastSeq
    <3>1. \A i \in DOMAIN q : q[i].id <= lastSeq
      BY <2>1 DEF Behind
    <3>2. 1 \in DOMAIN q
      BY <2>1
    <3> QED BY <2>1, <3>1, <3>2, TailIndex
  <2> QED BY <2>2, <2>3, <1>1 DEF Behind
<1>6. ASSUME NEW c \in Clients, TakeLive(c) PROVE Behind'
  <2>1. queue[c] # <<>> /\ queue[c] \in Seq(Row) /\ 1 \in DOMAIN queue[c] /\ Head(queue[c]) = queue[c][1]
    BY <1>6 DEF TakeLive
  <2>2. PICK e \in Row : e = Head(queue[c]) /\ e.seq <= lastSeq
    BY <2>1 DEF OnceInv, AnnouncedOnce
  <2>3. /\ armed' = [armed EXCEPT ![c] = IF e.seq <= start[c] THEN NoFrame ELSE EventFrame(e)]
        /\ UNCHANGED <<lastSeq, checkpoint, cursor, start, pending, wire>>
    BY <1>6, <2>2 DEF TakeLive, durable, browser
  <2>4. armed'[c] # NoFrame => armed'[c].id <= lastSeq
    BY <2>2, <2>3, RowTypes
  <2> QED BY <2>3, <2>4, <1>1 DEF Behind
<1>7. ASSUME NEW c \in Clients, Write(c) PROVE Behind'
  <2>1. /\ armed[c] # NoFrame /\ armed[c] \in Frames /\ armed' = [armed EXCEPT ![c] = NoFrame]
        /\ wire' = [wire EXCEPT ![c] = Append(wire[c], armed[c])]
        /\ UNCHANGED <<lastSeq, checkpoint, cursor, start, pending>>
    BY <1>7 DEF Write, durable, browser
  <2>2. wire'[c] = Append(wire[c], armed[c]) /\ wire[c] \in Seq(Frames)
    BY <2>1
  <2>3. \A i \in DOMAIN wire'[c] : wire'[c][i] = armed[c] \/ \E j \in DOMAIN wire[c] : wire'[c][i] = wire[c][j]
    BY <2>2
  <2>4. \A i \in DOMAIN wire'[c] : wire'[c][i].id <= lastSeq
    BY <2>1, <2>3 DEF Behind
  <2> QED BY <2>1, <2>4, <1>1 DEF Behind
<1>8. ASSUME NEW c \in Clients, Return(c) \/ Break(c) \/ SignIn(c) PROVE Behind'
  <2>1. /\ CloseHandler({c}) /\ lastSeq' = lastSeq /\ checkpoint' = checkpoint
        /\ wire' = wire \/ wire' = [wire EXCEPT ![c] = <<>>]
        /\ cursor' = cursor \/ cursor' = [cursor EXCEPT ![c] = -1]
    BY <1>8 DEF Return, Break, SignIn, durable, browser, None
  <2>2. start'[c] = 0 /\ armed'[c] = NoFrame /\ pending'[c] = <<>>
    BY <2>1 DEF CloseHandler
  <2>3. \A d \in Clients \ {c} : /\ start'[d] = start[d] /\ armed'[d] = armed[d] /\ pending'[d] = pending[d]
                                 /\ cursor'[d] = cursor[d] /\ wire'[d] = wire[d]
    BY <2>1 DEF CloseHandler
  <2>4. cursor'[c] <= lastSeq /\ \A i \in DOMAIN wire'[c] : wire'[c][i].id <= lastSeq
    BY <1>0, <2>1 DEF Behind
  <2>5. start'[c] <= lastSeq /\ \A i \in DOMAIN pending'[c] : pending'[c][i].id <= lastSeq
    BY <1>0, <2>2
  <2>6. lastSeq' = lastSeq /\ checkpoint' = checkpoint
    BY <2>1
  <2> QED BY ONLY <1>1, <2>2, <2>3, <2>4, <2>5, <2>6
<1>9. CASE Stop
  <2>1. CloseHandler(Clients) /\ UNCHANGED <<lastSeq, checkpoint, wire, cursor>>
    BY <1>9 DEF Stop, durable, browser
  <2>2. \A c \in Clients : start'[c] = 0 /\ armed'[c] = NoFrame /\ pending'[c] = <<>>
    BY <2>1 DEF CloseHandler
  <2>3. \A c \in Clients : \A i \in DOMAIN pending'[c] : FALSE
    BY <2>2
  <2> QED BY <1>0, <2>1, <2>2, <2>3 DEF Behind
<1>10. ASSUME NEW c \in Clients, Receive(c) PROVE Behind'
  <2>1. PICK q \in Seq(Frames) : q = wire[c] /\ q # <<>>
    BY <1>10 DEF Receive
  <2>2. /\ wire' = [wire EXCEPT ![c] = Tail(q)] /\ cursor' = [cursor EXCEPT ![c] = Head(q).id]
        /\ UNCHANGED <<lastSeq, checkpoint, start, armed, pending>>
    BY <1>10, <2>1 DEF Receive, durable, handler
  <2>3. Head(q).id <= lastSeq /\ \A i \in DOMAIN Tail(q) : Tail(q)[i].id <= lastSeq
    <3>1. \A i \in DOMAIN q : q[i].id <= lastSeq
      BY <2>1 DEF Behind
    <3>2. 1 \in DOMAIN q
      BY <2>1
    <3> QED BY <2>1, <3>1, <3>2, TailIndex
  <2> QED BY <2>2, <2>3, <1>1 DEF Behind
<1>11. CASE Prune
  <2>1. PICK keep \in 0..1 : checkpoint' = [a \in Audiences |-> Max({checkpoint[a], PruneThrough(a, keep)})]
    BY <1>11 DEF Prune
  <2>2. ASSUME NEW a \in Audiences PROVE checkpoint'[a] <= lastSeq
    <3>1. checkpoint[a] \in Int /\ PruneThrough(a, keep) \in Int /\ PruneThrough(a, keep) <= lastSeq
      BY PruneBounds DEF LogTypes
    <3>2. Max({checkpoint[a], PruneThrough(a, keep)}) \in {checkpoint[a], PruneThrough(a, keep)}
      BY ONLY <3>1, MaxOfTwo
    <3> QED BY <2>1, <3>1, <3>2 DEF Behind
  <2>3. UNCHANGED <<lastSeq, cursor, start, armed, pending, wire>>
    BY <1>11 DEF Prune, handler, browser
  <2> QED BY <2>2, <2>3 DEF Behind
<1>12. CASE Start \/ UNCHANGED vars \/ \E c \in Clients : Revoke(c) \/ Subscribe(c) \/ GoLive(c)
  <2>1. UNCHANGED <<lastSeq, checkpoint, cursor, start, armed, pending, wire>>
    BY <1>12 DEF Start, vars, Revoke, Subscribe, GoLive, durable, handler, browser
  <2> QED BY <2>1 DEF Behind
<1> QED
  BY <1>2, <1>3, <1>4, <1>5, <1>6, <1>7, <1>8, <1>9, <1>10, <1>11, <1>12 DEF Next, Handle

\* With one writer at a time every step leaves the queues in order.
LEMMA AscendStep ==
    OneWriter /\ QueuesAscend /\ OnceInv /\ StreamTypes /\ StreamTypes' /\ [Next]_vars => QueuesAscend'
<1> SUFFICES ASSUME OneWriter, QueuesAscend, OnceInv, StreamTypes, StreamTypes', [Next]_vars PROVE QueuesAscend'
  OBVIOUS
<1> USE DEF StreamTypes, HandlerTypes
<1>1. ASSUME NEW w \in Writers, Commit(w) PROVE QueuesAscend'
  <2>1. /\ queue' = queue /\ \A v \in Writers : unnotified'[v] = unnotified[v] \/ unnotified'[v].seq = lastSeq + 1
    BY <1>1 DEF Commit, handler, LogTypes
  <2>2. /\ lastSeq \in Nat
        /\ \A c \in Clients : \A i \in DOMAIN queue[c] : queue[c][i].seq \in Nat /\ queue[c][i].seq <= lastSeq
    BY RowTypes DEF LogTypes, OnceInv, AnnouncedOnce
  <2>3. \A c \in Clients : \A i \in DOMAIN queue[c] : queue[c][i].seq < lastSeq + 1
    BY <2>2
  <2>4. \A v \in Writers : unnotified'[v] # NoEvent =>
           unnotified'[v].seq = lastSeq + 1 \/ (unnotified[v] # NoEvent /\ unnotified'[v] = unnotified[v])
    BY <2>1
  <2> QED BY <2>1, <2>3, <2>4 DEF QueuesAscend
<1>2. ASSUME NEW w \in Writers, Notify(w) PROVE QueuesAscend'
  <2>1. PICK e \in Row : e = unnotified[w] /\ e # NoEvent
    BY <1>2 DEF Notify, LogTypes
  <2>2. \A v \in Writers : unnotified'[v] = NoEvent
    BY <1>2, <2>1 DEF Notify, OneWriter, LogTypes
  <2>3. ASSUME NEW c \in Clients, NEW i \in DOMAIN queue'[c], NEW j \in DOMAIN queue'[c], i < j
        PROVE  queue'[c][i].seq < queue'[c][j].seq
    <3>1. queue'[c] = queue[c] \/ queue'[c] = Append(queue[c], e)
      BY <1>2, <2>1 DEF Notify
    <3>2. \A k \in DOMAIN queue[c] : queue[c][k].seq < e.seq
      BY <2>1 DEF QueuesAscend
    <3>3. queue[c] \in Seq(Row)
      OBVIOUS
    <3>4. CASE queue'[c] = queue[c]
      BY <2>3, <3>4 DEF QueuesAscend
    <3>5. CASE queue'[c] = Append(queue[c], e)
      <4>1. /\ Len(queue[c]) \in Nat /\ DOMAIN queue[c] = 1..Len(queue[c])
            /\ DOMAIN queue'[c] = 1..(Len(queue[c]) + 1)
            /\ \A k \in DOMAIN queue[c] : queue'[c][k] = queue[c][k]
            /\ queue'[c][Len(queue[c]) + 1] = e
        BY <3>3, <3>5
      <4>2. i \in DOMAIN queue[c] /\ (j \in DOMAIN queue[c] \/ j = Len(queue[c]) + 1)
        BY <2>3, <4>1
      <4> QED BY <2>3, <3>2, <4>1, <4>2 DEF QueuesAscend
    <3> QED BY <3>1, <3>4, <3>5
  <2> QED BY <2>2, <2>3 DEF QueuesAscend
<1>3. ASSUME NEW c \in Clients, TakeLive(c) PROVE QueuesAscend'
  <2>1. PICK q \in Seq(Row) : q = queue[c] /\ q # <<>>
    BY <1>3 DEF TakeLive
  <2>2. queue' = [queue EXCEPT ![c] = Tail(q)] /\ unnotified' = unnotified
    BY <1>3, <2>1 DEF TakeLive
  <2>3. \A i \in DOMAIN q : /\ \A j \in DOMAIN q : i < j => q[i].seq < q[j].seq
                            /\ \A w \in Writers : unnotified[w] # NoEvent => q[i].seq < unnotified[w].seq
    BY <2>1 DEF QueuesAscend
  <2>4. ASSUME NEW i \in DOMAIN Tail(q)
        PROVE  /\ \A j \in DOMAIN Tail(q) : i < j => Tail(q)[i].seq < Tail(q)[j].seq
               /\ \A w \in Writers : unnotified[w] # NoEvent => Tail(q)[i].seq < unnotified[w].seq
    <3>1. Tail(q)[i] = q[i + 1] /\ i + 1 \in DOMAIN q
      BY <2>1, TailIndex
    <3>2. \A j \in DOMAIN Tail(q) : i < j => i + 1 < j + 1 /\ Tail(q)[j] = q[j + 1] /\ j + 1 \in DOMAIN q
      <4> TAKE j \in DOMAIN Tail(q)
      <4>1. Tail(q)[j] = q[j + 1] /\ j + 1 \in DOMAIN q
        BY <2>1, TailIndex
      <4>2. i \in Int /\ j \in Int
        BY <2>1
      <4> QED BY <4>1, <4>2
    <3> QED BY <2>3, <3>1, <3>2
  <2> QED BY <2>2, <2>4 DEF QueuesAscend
<1>4. ASSUME NEW C \in SUBSET Clients, CloseHandler(C), unnotified' = unnotified \/ unnotified' = [w \in Writers |-> NoEvent]
      PROVE  QueuesAscend'
  <2>1. \A c \in Clients : queue'[c] = <<>> \/ queue'[c] = queue[c]
    BY <1>4 DEF CloseHandler
  <2>2. \A w \in Writers : unnotified'[w] = NoEvent \/ unnotified'[w] = unnotified[w]
    BY <1>4
  <2> QED BY <2>1, <2>2 DEF QueuesAscend
<1>5. ASSUME NEW c \in Clients, Return(c) \/ Break(c) \/ SignIn(c) PROVE QueuesAscend'
  BY <1>4, <1>5 DEF Return, Break, SignIn
<1>6. CASE Stop
  BY <1>4, <1>6 DEF Stop
<1>7. CASE \/ Start \/ Prune \/ UNCHANGED vars
           \/ \E c \in Clients : \/ Revoke(c) \/ Subscribe(c) \/ GoLive(c) \/ ReadStart(c) \/ ArmOpening(c)
                                 \/ Write(c) \/ Receive(c)
  <2>1. UNCHANGED <<queue, unnotified>>
    BY <1>7 DEF Start, Prune, vars, Revoke, Subscribe, GoLive, ReadStart, ArmOpening, Write, Receive, handler
  <2> QED BY <2>1 DEF QueuesAscend
<1> QED
  BY <1>1, <1>2, <1>3, <1>5, <1>6, <1>7 DEF Next, Handle

-----------------------------------------------------------------------------
(* What a view lacks is read again before it is overtaken.                  *)

\* Taking the head of a sequence of frames leaves the other readings of row e where they are.
LEMMA ReadingsTaken ==
    ASSUME NEW q \in Seq(Frames), q # <<>>, NEW e
    PROVE  /\ q[1] = Head(q) /\ q[1].id \in Int /\ 1 \in DOMAIN q
           /\ \A i \in DOMAIN q : e.res \in q[i].res =>
                e.res \in Head(q).res \/ \E j \in DOMAIN Tail(q) : e.res \in Tail(q)[j].res
           /\ \A i \in DOMAIN Tail(q) :
                /\ i + 1 \in DOMAIN q /\ Tail(q)[i] = q[i + 1]
                /\ \A j \in 1..(i + 1) : e.res \in q[j].res =>
                     e.res \in Head(q).res \/ \E k \in 1..i : e.res \in Tail(q)[k].res
<1>1. /\ Head(q) = q[1] /\ q[1] \in Frames
      /\ \A i \in DOMAIN q : i = 1 \/ (i > 1 /\ i - 1 \in DOMAIN Tail(q) /\ Tail(q)[i - 1] = q[i])
      /\ \A i \in DOMAIN Tail(q) : i >= 1 /\ i + 1 \in DOMAIN q /\ Tail(q)[i] = q[i + 1]
  BY TailIndex
<1>2. /\ Len(q) \in Nat /\ DOMAIN q = 1..Len(q) /\ Len(q) # 0
  OBVIOUS
<1>3. q[1].id \in Int
  BY <1>1 DEF Frames
<1>4. ASSUME NEW i \in DOMAIN Tail(q), NEW j \in 1..(i + 1), e.res \in q[j].res
      PROVE  e.res \in Head(q).res \/ \E k \in 1..i : e.res \in Tail(q)[k].res
  <2>1. i \in Int /\ i + 1 \in 1..Len(q)
    BY <1>1, <1>2
  <2>2. j \in DOMAIN q /\ j \in Int /\ j <= i + 1
    BY <1>2, <2>1
  <2>3. CASE j = 1
    BY <1>1, <1>4, <2>3
  <2>4. CASE j # 1
    <3>1. Tail(q)[j - 1] = q[j] /\ j > 1
      BY <1>1, <2>2, <2>4
    <3>2. j - 1 \in 1..i
      BY <2>1, <2>2, <3>1
    <3> QED BY <1>4, <3>1, <3>2
  <2> QED BY <2>3, <2>4
<1>5. 1 \in DOMAIN q
  BY <1>2
<1>6. ASSUME NEW i \in DOMAIN q, e.res \in q[i].res
      PROVE  e.res \in Head(q).res \/ \E j \in DOMAIN Tail(q) : e.res \in Tail(q)[j].res
  BY <1>1, <1>6
<1> QED BY ONLY <1>1, <1>3, <1>4, <1>5, <1>6

\* Appending a frame leaves the readings before it where they are.
LEMMA ReadingsAppended ==
    ASSUME NEW q \in Seq(Frames), NEW a, NEW e
    PROVE  /\ \A i \in DOMAIN q : i \in DOMAIN Append(q, a) /\ Append(q, a)[i] = q[i]
           /\ Len(q) + 1 \in DOMAIN Append(q, a) /\ Append(q, a)[Len(q) + 1] = a
           /\ \A i \in DOMAIN Append(q, a) : i \in DOMAIN q \/ i = Len(q) + 1
           /\ \A i \in DOMAIN q : \A j \in 1..i : Append(q, a)[j] = q[j]
           /\ (\E j \in DOMAIN q : e.res \in q[j].res) \/ e.res \in a.res =>
                \E j \in 1..(Len(q) + 1) : e.res \in Append(q, a)[j].res
<1>1. /\ Len(q) \in Nat /\ DOMAIN q = 1..Len(q) /\ DOMAIN Append(q, a) = 1..(Len(q) + 1)
      /\ \A i \in 1..Len(q) : Append(q, a)[i] = q[i]
      /\ Append(q, a)[Len(q) + 1] = a
  OBVIOUS
<1>2. \A i \in DOMAIN q : \A j \in 1..i : j \in DOMAIN q
  BY <1>1
<1> QED BY ONLY <1>1, <1>2

\* Ascending frames that read a row under its own number read nothing older before it.
LEMMA FirstReading ==
    ASSUME NEW frames \in Seq(Frames), NEW k \in DOMAIN frames, NEW e \in Row, frames[k].id = e.seq,
           \A i, j \in DOMAIN frames : i < j => frames[i].id < frames[j].id
    PROVE  \A i \in DOMAIN frames : e.seq <= frames[i].id => k <= i
<1>1. k \in Int /\ e.seq \in Int /\ \A i \in DOMAIN frames : i \in Int /\ frames[i].id \in Int
  BY FrameTypes, RowTypes
<1>2. \A i \in DOMAIN frames : i < k => frames[i].id < e.seq
  OBVIOUS
<1> QED BY ONLY <1>1, <1>2

\* A client whose handler, wire and cursor a step leaves alone.
LEMMA FreshElsewhere ==
    ASSUME NEW c \in Clients, NEW e, FreshFor(c, e), cursor'[c] = cursor[c], wire'[c] = wire[c],
           armed'[c] = armed[c], pending'[c] = pending[c], conn'[c] = conn[c], start'[c] = start[c],
           open'[c] = open[c], queue'[c] = queue[c], OnItsWay(c, e) => OnItsWay(c, e)'
    PROVE  FreshFor(c, e)'
  BY DEF FreshFor, InHand, OnWire, InLine, Reading

\* A handler that returned: only what it flushed is still to be read.
LEMMA FreshClosed ==
    ASSUME NEW c \in Clients, NEW e \in Row, FreshFor(c, e), cursor'[c] = cursor[c] \/ cursor'[c] = -1,
           wire'[c] = wire[c] \/ wire'[c] = <<>>, pending'[c] = <<>>, armed'[c] = NoFrame, ~Reading(c)'
    PROVE  FreshFor(c, e)'
<1>1. e.seq > cursor'[c]
  BY RowTypes DEF FreshFor
<1>2. \A i \in DOMAIN wire'[c] : e.seq <= wire'[c][i].id => \E j \in 1..i : e.res \in wire'[c][j].res
  BY DEF FreshFor
<1>3. \A i \in DOMAIN pending'[c] : FALSE
  OBVIOUS
<1> QED BY <1>1, <1>2, <1>3 DEF FreshFor

\* How a start reads again what the view lacks.
LEMMA FreshStarted ==
    ASSUME StreamTypes, NEW c \in Clients, ReadStart(c), Phases(c), NEW e \in Row, Known(c, e),
           e.seq > cursor[c]
    PROVE  FreshFor(c, e)'
<1> USE DEF StreamTypes, HandlerTypes, ViewTypes
<1>1. PICK frames, from :
          /\ pending' = [pending EXCEPT ![c] = frames] /\ start' = [start EXCEPT ![c] = from]
          /\ frames \in Seq(Frames) /\ from \in Int
          /\ \A i, j \in DOMAIN frames : i < j => frames[i].id < frames[j].id
          /\ \/ /\ frames = <<FullFrame(from)>> /\ from >= Checkpoint(c)
                /\ \A f \in VisibleRows(c) : f.seq <= from
             \/ /\ cursor[c] >= Checkpoint(c)
                /\ \A f \in VisibleRows(c) :
                     \/ f.seq <= cursor[c]
                     \/ f.seq <= from /\ \E i \in DOMAIN frames : frames[i] = EventFrame(f)
  BY StartFrames
<1>2. /\ UNCHANGED <<cursor, armed, wire>>
      /\ armed[c] = NoFrame /\ wire[c] = <<>> /\ pending'[c] = frames /\ start'[c] = from
  BY <1>1 DEF ReadStart, Phases, browser
<1>3. /\ Checkpoint(c) \in Int /\ cursor[c] \in Int /\ e.seq \in Int /\ e.res \in Resources
      /\ e \in VisibleRows(c) \/ e.seq <= Checkpoint(c)
  <2>1. Checkpoint(c) \in Int
    BY LatestBounds
  <2> QED BY <2>1, RowTypes DEF Known, VisibleRows
<1>4. \E k \in DOMAIN frames : /\ e.res \in frames[k].res
                               /\ \A i \in DOMAIN frames : e.seq <= frames[i].id => k <= i
  <2>1. CASE frames = <<FullFrame(from)>>
    <3>1. DOMAIN frames = {1} /\ frames[1].res = Resources
      BY <2>1 DEF FullFrame
    <3> QED BY <1>3, <3>1
  <2>2. CASE cursor[c] >= Checkpoint(c) /\ \E i \in DOMAIN frames : frames[i] = EventFrame(e)
    <3>1. PICK k \in DOMAIN frames : frames[k] = EventFrame(e)
      BY <2>2
    <3>2. frames[k].id = e.seq /\ e.res \in frames[k].res
      BY <3>1, RowTypes
    <3>3. \A i \in DOMAIN frames : e.seq <= frames[i].id => k <= i
      BY ONLY <1>1, <3>2, FirstReading, e \in Row
    <3> QED BY <3>2, <3>3
  <2>3. \/ frames = <<FullFrame(from)>>
        \/ cursor[c] >= Checkpoint(c) /\ \E i \in DOMAIN frames : frames[i] = EventFrame(e)
    <3>1. /\ ~(e.seq <= cursor[c])
          /\ cursor[c] >= Checkpoint(c) => ~(e.seq <= Checkpoint(c))
      BY <1>3
    <3>2. cursor[c] >= Checkpoint(c) => e \in VisibleRows(c)
      BY ONLY <1>3, <3>1
    <3> QED BY ONLY <1>1, <3>1, <3>2
  <2> QED BY ONLY <2>1, <2>2, <2>3
<1>5. e.seq <= from
  BY <1>1, <1>3
<1>6. PICK k \in DOMAIN frames : /\ e.res \in frames[k].res
                                 /\ \A i \in DOMAIN frames : e.seq <= frames[i].id => k <= i
  BY <1>4
<1>7. \A i \in DOMAIN frames : e.seq <= frames[i].id => \E j \in 1..i : e.res \in frames[j].res
  <2>1. k \in Int /\ 1 <= k /\ \A i \in DOMAIN frames : i \in Int
    BY <1>1, <1>6
  <2>2. \A i \in DOMAIN frames : k <= i => k \in 1..i
    BY <2>1
  <2> QED BY <1>6, <2>2
<1>8. InLine(c, e)'
  BY <1>2, <1>6 DEF InLine
<1>9. e.seq > cursor'[c] /\ armed'[c] = NoFrame /\ \A i \in DOMAIN wire'[c] : FALSE
  BY <1>2
<1>10. ~(e.seq > start'[c])
  BY <1>1, <1>2, <1>3, <1>5
<1> QED BY ONLY <1>2, <1>7, <1>8, <1>9, <1>10 DEF FreshFor

\* With one writer at a time no step lets anything overtake a row that a view lacks.
LEMMA FreshStep ==
    /\ OneWriter /\ FreshInv /\ Behind /\ GapInv /\ OnceInv
    /\ StreamTypes /\ StreamTypes' /\ [Next]_vars
    => FreshInv'
<1> SUFFICES ASSUME OneWriter, FreshInv, Behind, GapInv, OnceInv, StreamTypes, StreamTypes', [Next]_vars,
                    NEW d \in Clients, ~alert'[d], NEW e \in stale'[d]
             PROVE  FreshFor(d, e)'
  BY AscendStep DEF FreshInv
<1> USE DEF StreamTypes, HandlerTypes, ViewTypes
<1>0. /\ e \in Row /\ e.seq \in Int /\ Phases(d)
      /\ ~alert[d] /\ e \in stale[d] => FreshFor(d, e) /\ Known(d, e)
  BY RowTypes DEF FreshInv, OnceInv, GapInv, GapFor
<1>1. ASSUME NEW w \in Writers, Commit(w) PROVE FreshFor(d, e)'
  <2>1. PICK f \in Row :
            /\ f.seq = lastSeq + 1 /\ unnotified' = [unnotified EXCEPT ![w] = f]
            /\ stale' = [c \in Clients |-> IF Visible(f, c) THEN stale[c] \cup {f} ELSE stale[c]]
    <3>1. PICK a \in Audiences, r \in Resources :
            LET f == [seq |-> lastSeq + 1, aud |-> a, res |-> r] IN
            /\ unnotified' = [unnotified EXCEPT ![w] = f]
            /\ stale' = [c \in Clients |-> IF Visible(f, c) THEN stale[c] \cup {f} ELSE stale[c]]
      BY <1>1 DEF Commit
    <3>2. /\ [seq |-> lastSeq + 1, aud |-> a, res |-> r] \in Row
          /\ [seq |-> lastSeq + 1, aud |-> a, res |-> r].seq = lastSeq + 1
      BY DEF LogTypes, Row
    <3> QED BY <3>1, <3>2
  <2>2. /\ unnotified[w] = NoEvent /\ UNCHANGED <<handler, wire, cursor, alert>> /\ lastSeq \in Nat
    BY <1>1 DEF Commit, LogTypes
  <2>3. CASE e \in stale[d]
    <3>1. OnItsWay(d, e) => OnItsWay(d, e)'
      BY <1>0, <2>1, <2>2, Unlike DEF OnItsWay, InHand, OnWire, handler, LogTypes
    <3> QED BY <1>0, <2>2, <2>3, <3>1, FreshElsewhere DEF handler
  <2>4. CASE e = f
    <3>1. /\ cursor'[d] <= lastSeq /\ start'[d] <= lastSeq
          /\ armed'[d] # NoFrame => armed'[d].id <= lastSeq /\ armed'[d].id \in Int
          /\ \A i \in DOMAIN pending'[d] : pending'[d][i].id <= lastSeq /\ pending'[d][i].id \in Int
          /\ \A i \in DOMAIN wire'[d] : wire'[d][i].id <= lastSeq /\ wire'[d][i].id \in Int
      BY <2>2, FrameTypes DEF Behind, handler
    <3>2. OnItsWay(d, e)'
      BY <2>1, <2>4 DEF OnItsWay, LogTypes
    <3>3. e.seq = lastSeq + 1 /\ cursor'[d] \in Int /\ start'[d] \in Int
      BY <2>1, <2>4
    <3>4. /\ \A x \in Int : x <= lastSeq => ~(e.seq <= x) /\ e.seq > x
      BY <2>2, <3>3
    <3> QED BY <3>1, <3>2, <3>3, <3>4 DEF FreshFor
  <2> QED BY <2>1, <2>3, <2>4
<1>2. ASSUME NEW w \in Writers, Notify(w) PROVE FreshFor(d, e)'
  <2>1. PICK f \in Row : f = unnotified[w]
    BY <1>2 DEF Notify, LogTypes
  <2>2. /\ unnotified' = [unnotified EXCEPT ![w] = NoEvent] /\ f # NoEvent
        /\ UNCHANGED <<conn, start, pending, armed, wire, cursor, stale, alert>>
    BY <1>2, <2>1 DEF Notify, browser
  <2>3. /\ queue'[d] = IF Wakes(f, d) /\ HasRoom(d) THEN Append(queue[d], f) ELSE queue[d]
        /\ open'[d] = (open[d] /\ ~(Wakes(f, d) /\ ~HasRoom(d)))
    BY <1>2, <2>1 DEF Notify
  <2>4. FreshFor(d, e) /\ Known(d, e)
    BY <1>0, <2>2
  <2>5. ASSUME Reading(d), OnItsWay(d, e)
        PROVE  OnItsWay(d, e)' \/ (~open'[d] /\ \A i \in DOMAIN queue'[d] : e.seq > queue'[d][i].seq)
    <3>1. \A i \in DOMAIN queue[d] : f.seq > queue[d][i].seq
      <4>1. \A i \in DOMAIN queue[d] : queue[d][i].seq < f.seq /\ queue[d][i].seq \in Int /\ f.seq \in Int
        BY <2>1, <2>2, RowTypes DEF FreshInv, QueuesAscend
      <4> QED BY <4>1
    <3>2. CASE e = f /\ Wakes(f, d) /\ HasRoom(d)
      <4>1. queue'[d] = Append(queue[d], e) /\ queue[d] \in Seq(Row)
        BY <2>3, <3>2
      <4>2. Len(queue[d]) + 1 \in DOMAIN queue'[d] /\ queue'[d][Len(queue[d]) + 1] = e
        BY <4>1
      <4> QED BY <4>2 DEF OnItsWay
    <3>3. CASE e = f /\ ~(Wakes(f, d) /\ HasRoom(d))
      <4>1. ~open'[d] /\ queue'[d] = queue[d]
        BY <2>3, <2>4, <2>5, <3>3 DEF Wakes, Subscribed, Known, Visible, Reading
      <4> QED BY <3>1, <3>3, <4>1
    <3>4. CASE e # f
      <4>1. queue[d] \in Seq(Row) /\ \A i \in DOMAIN queue[d] : i \in DOMAIN queue'[d] /\ queue'[d][i] = queue[d][i]
        BY <2>3
      <4> QED BY <2>1, <2>2, <2>5, <3>4, <4>1 DEF OnItsWay, InHand, OnWire, LogTypes
    <3> QED BY <3>2, <3>3, <3>4
  <2>6. ~open[d] => ~open'[d] /\ queue'[d] = queue[d]
    BY <2>3 DEF Wakes, Subscribed
  <2>7. Reading(d)' <=> Reading(d)
    BY <2>2 DEF Reading
  <2>8. Reading(d)' /\ e.seq > start'[d] =>
             OnItsWay(d, e)' \/ (~open'[d] /\ \A i \in DOMAIN queue'[d] : e.seq > queue'[d][i].seq)
    BY <2>2, <2>4, <2>5, <2>6, <2>7 DEF FreshFor
  <2>9. (InHand(d, e)' <=> InHand(d, e)) /\ (OnWire(d, e)' <=> OnWire(d, e)) /\ (InLine(d, e)' <=> InLine(d, e))
    BY <2>2 DEF InHand, OnWire, InLine
  <2> QED BY <2>2, <2>4, <2>7, <2>8, <2>9 DEF FreshFor
<1>3. ASSUME NEW c \in Clients, Subscribe(c) PROVE FreshFor(d, e)'
  <2>1. /\ UNCHANGED <<unnotified, queue, start, pending, armed, wire, cursor, stale, alert>>
        /\ FreshFor(d, e)
    BY <1>0, <1>3 DEF Subscribe, browser
  <2>2. CASE d = c
    <3>1. ~Reading(d)' /\ pending'[d] = <<>> /\ armed'[d] = NoFrame
      BY <1>0, <1>3, <2>1, <2>2 DEF Subscribe, Reading, Phases
    <3> QED BY <1>0, <2>1, <3>1, FreshClosed
  <2>3. CASE d # c
    <3>1. conn'[d] = conn[d] /\ open'[d] = open[d]
      BY <1>3, <2>3 DEF Subscribe
    <3>2. OnItsWay(d, e) => OnItsWay(d, e)'
      BY <2>1 DEF OnItsWay, InHand, OnWire
    <3> QED BY <2>1, <3>1, <3>2, FreshElsewhere
  <2> QED BY <2>2, <2>3
<1>4. ASSUME NEW c \in Clients, ReadStart(c) PROVE FreshFor(d, e)'
  <2>1. /\ UNCHANGED <<unnotified, queue, open, armed, wire, cursor, stale, alert>>
        /\ FreshFor(d, e) /\ Known(d, e)
    BY <1>0, <1>4 DEF ReadStart, browser
  <2>2. CASE d = c
    BY <1>0, <1>4, <2>1, <2>2, FreshStarted DEF FreshFor
  <2>3. CASE d # c
    <3>1. conn'[d] = conn[d] /\ pending'[d] = pending[d] /\ start'[d] = start[d]
      BY <1>4, <2>3, StartFrames DEF ReadStart
    <3>2. OnItsWay(d, e) => OnItsWay(d, e)'
      BY <2>1 DEF OnItsWay, InHand, OnWire
    <3> QED BY <2>1, <3>1, <3>2, FreshElsewhere
  <2> QED BY <2>2, <2>3
<1>5. ASSUME NEW c \in Clients, ArmOpening(c) PROVE FreshFor(d, e)'
  <2>1. PICK q \in Seq(Frames) : q = pending[c] /\ q # <<>>
    BY <1>5 DEF ArmOpening
  <2>2. /\ UNCHANGED <<unnotified, conn, queue, open, start, wire, cursor, stale, alert>>
        /\ armed[c] = NoFrame /\ armed' = [armed EXCEPT ![c] = q[1]]
        /\ pending' = [pending EXCEPT ![c] = Tail(q)]
    BY <1>5, <2>1, TailIndex DEF ArmOpening, browser
  <2>3. FreshFor(d, e)
    BY <1>0, <2>2
  <2>4. CASE d = c
    <3>1. /\ armed'[d] = q[1] /\ pending'[d] = Tail(q) /\ ~InHand(d, e) /\ q[1] \in Frames
          /\ (InHand(d, e)' <=> e.res \in q[1].res) /\ (OnWire(d, e)' <=> OnWire(d, e))
          /\ (InLine(d, e)' <=> \E j \in DOMAIN Tail(q) : e.res \in Tail(q)[j].res)
      BY <2>1, <2>2, <2>4, TailIndex, Unlike DEF InHand, OnWire, InLine
    <3>2. \A i \in DOMAIN q : e.seq <= q[i].id => OnWire(d, e) \/ \E j \in 1..i : e.res \in q[j].res
      BY <2>1, <2>3, <2>4, <3>1 DEF FreshFor
    <3>3. e.seq <= q[1].id => InHand(d, e)' \/ OnWire(d, e)'
      <4>1. 1 \in DOMAIN q /\ \A j \in 1..1 : j = 1
        BY <2>1
      <4> QED BY <3>1, <3>2, <4>1
    <3>4. ASSUME NEW i \in DOMAIN Tail(q), e.seq <= Tail(q)[i].id
          PROVE  InHand(d, e)' \/ OnWire(d, e)' \/ \E j \in 1..i : e.res \in Tail(q)[j].res
      <4>1. i + 1 \in DOMAIN q /\ e.seq <= q[i + 1].id
        BY ONLY <2>1, <3>4, ReadingsTaken
      <4>2. OnWire(d, e) \/ \E j \in 1..(i + 1) : e.res \in q[j].res
        BY ONLY <3>2, <4>1
      <4>3. OnWire(d, e) \/ e.res \in q[1].res \/ \E k \in 1..i : e.res \in Tail(q)[k].res
        BY ONLY <2>1, <3>4, <4>2, ReadingsTaken
      <4> QED BY ONLY <3>1, <4>3
    <3>5. InLine(d, e) => InHand(d, e)' \/ InLine(d, e)'
      <4>1. InLine(d, e) => \E j \in DOMAIN q : e.res \in q[j].res
        BY <2>1, <2>4 DEF InLine
      <4>2. InLine(d, e) => e.res \in q[1].res \/ \E j \in DOMAIN Tail(q) : e.res \in Tail(q)[j].res
        BY ONLY <2>1, <4>1, ReadingsTaken
      <4> QED BY ONLY <3>1, <4>2
    <3>6. OnItsWay(d, e) => OnItsWay(d, e)'
      BY <2>2, <3>1 DEF OnItsWay
    <3>7. Reading(d)' <=> Reading(d)
      BY <2>2 DEF Reading
    <3> QED BY <2>2, <2>3, <3>1, <3>3, <3>4, <3>5, <3>6, <3>7 DEF FreshFor
  <2>5. CASE d # c
    <3>1. OnItsWay(d, e) => OnItsWay(d, e)'
      BY <2>2, <2>5 DEF OnItsWay, InHand, OnWire
    <3> QED BY <2>2, <2>3, <2>5, <3>1, FreshElsewhere
  <2> QED BY <2>4, <2>5
<1>6. ASSUME NEW c \in Clients, GoLive(c) PROVE FreshFor(d, e)'
  <2>1. /\ UNCHANGED <<unnotified, armed, queue, open, start, wire, pending, cursor, stale, alert>>
        /\ conn[c] = "starting" /\ conn' = [conn EXCEPT ![c] = "live"] /\ FreshFor(d, e)
    BY <1>0, <1>6 DEF GoLive, browser
  <2>2. Reading(d)' <=> Reading(d)
    BY <2>1 DEF Reading
  <2>3. /\ (InHand(d, e)' <=> InHand(d, e)) /\ (OnWire(d, e)' <=> OnWire(d, e)) /\ (InLine(d, e)' <=> InLine(d, e))
        /\ OnItsWay(d, e) => OnItsWay(d, e)'
    BY <2>1 DEF InHand, OnWire, InLine, OnItsWay
  <2> QED BY <2>1, <2>2, <2>3 DEF FreshFor
<1>7. ASSUME NEW c \in Clients, TakeLive(c) PROVE FreshFor(d, e)'
  <2>1. PICK q \in Seq(Row) : q = queue[c] /\ q # <<>>
    BY <1>7 DEF TakeLive
  <2>2. PICK f \in Row : f = Head(q) /\ f = q[1]
    BY <2>1, TailIndex
  <2>3. /\ conn[c] = "live" /\ armed[c] = NoFrame /\ queue' = [queue EXCEPT ![c] = Tail(q)]
        /\ armed' = [armed EXCEPT ![c] = IF f.seq <= start[c] THEN NoFrame ELSE EventFrame(f)]
        /\ UNCHANGED <<unnotified, conn, open, pending, start, wire, cursor, stale, alert>>
    BY <1>7, <2>1, <2>2 DEF TakeLive, browser
  <2>4. FreshFor(d, e)
    BY <1>0, <2>3
  <2>5. CASE d = c
    <3>1. /\ ~InHand(d, e) /\ ~InLine(d, e) /\ ~InLine(d, e)' /\ (OnWire(d, e)' <=> OnWire(d, e))
          /\ pending'[d] = <<>> /\ Reading(d) /\ Reading(d)' /\ start'[d] = start[d] /\ queue'[d] = Tail(q)
      BY <1>0, <2>3, <2>5 DEF InHand, InLine, OnWire, Phases, Reading
    <3>2. f.seq \in Int /\ start[d] \in Int /\ EventFrame(f).id = f.seq /\ EventFrame(f).res = {f.res}
          /\ EventFrame(f) # NoFrame
      <4>1. start[d] \in Int
        OBVIOUS
      <4>2. f.seq \in Int /\ EventFrame(f) \in Frames /\ EventFrame(f).id = f.seq /\ EventFrame(f).res = {f.res}
        BY ONLY RowTypes, f \in Row
      <4> QED BY ONLY <4>1, <4>2, Unlike
    <3>3. \A w \in Writers : unnotified[w] = e => f.seq < e.seq
      <4>1. 1 \in DOMAIN queue[c] /\ queue[c][1] = f
        BY <2>1, <2>2
      <4> QED BY <1>0, <4>1, Unlike DEF FreshInv, QueuesAscend
    <3>4. \A i \in DOMAIN q : i = 1 \/ f.seq < q[i].seq
      <4>1. \A i \in DOMAIN q : 1 < i => f.seq < q[i].seq
        <5>1. 1 \in DOMAIN q
          BY <2>1
        <5> QED BY <2>1, <2>2, <5>1 DEF FreshInv, QueuesAscend
      <4> QED BY <2>1, <4>1, TailIndex
    <3>5. \A i \in DOMAIN q : i = 1 \/ (i - 1 \in DOMAIN Tail(q) /\ Tail(q)[i - 1] = q[i])
      BY <2>1, TailIndex
    <3>6. e.seq > start[d] =>
            \/ \E w \in Writers : unnotified[w] = e
            \/ \E i \in DOMAIN q : q[i] = e
            \/ OnWire(d, e)
            \/ ~open[d] /\ \A i \in DOMAIN q : e.seq > q[i].seq
      BY <2>1, <2>4, <2>5, <3>1 DEF FreshFor, OnItsWay
    <3>7. armed'[d] # NoFrame /\ e.seq <= armed'[d].id => InHand(d, e)' \/ OnWire(d, e)'
      <4> SUFFICES ASSUME armed'[d] # NoFrame, e.seq <= armed'[d].id, ~OnWire(d, e) PROVE InHand(d, e)'
        BY <3>1
      <4>1. armed'[d] = EventFrame(f) /\ ~(f.seq <= start[d])
        BY <2>3, <2>5
      <4>2. e.seq <= f.seq
        BY <3>2, <4>1
      <4>3. e.seq > start[d]
        <5>1. Reading(d) /\ e.seq <= start[d] => InHand(d, e) \/ OnWire(d, e) \/ InLine(d, e)
          BY <2>4 DEF FreshFor
        <5>2. ~(e.seq <= start[d])
          BY ONLY <3>1, <5>1, ~OnWire(d, e)
        <5>3. e.seq \in Int /\ start[d] \in Int
          BY ONLY <1>0, <3>2
        <5> QED BY ONLY <5>2, <5>3
      <4>4. 1 \in DOMAIN q /\ q[1] = f /\ ~(e.seq > f.seq) /\ ~(f.seq < e.seq)
        <5>1. e.seq \in Int /\ f.seq \in Int /\ e.seq <= f.seq
          BY <1>0, <3>2, <4>2
        <5>2. 1 \in DOMAIN q /\ q[1] = f
          BY <2>1, <2>2
        <5> QED BY ONLY <5>1, <5>2
      <4>5. ~(\E w \in Writers : unnotified[w] = e) /\ ~(\A i \in DOMAIN q : e.seq > q[i].seq)
        BY ONLY <3>3, <4>4
      <4>6. \E i \in DOMAIN q : q[i] = e
        BY <3>6, <4>3, <4>5
      <4>7. e = f
        BY ONLY <3>4, <4>4, <4>6
      <4> QED BY ONLY <3>2, <4>1, <4>7, e \in Row DEF InHand
    <3>8. e.seq > start[d] =>
            OnItsWay(d, e)' \/ (~open'[d] /\ \A i \in DOMAIN queue'[d] : e.seq > queue'[d][i].seq)
      <4> SUFFICES ASSUME e.seq > start[d]
                   PROVE  OnItsWay(d, e)' \/ (~open'[d] /\ \A i \in DOMAIN queue'[d] : e.seq > queue'[d][i].seq)
        OBVIOUS
      <4>1. CASE \E w \in Writers : unnotified[w] = e
        BY <2>3, <4>1 DEF OnItsWay
      <4>2. CASE \E i \in DOMAIN q : q[i] = e
        <5>1. PICK i \in DOMAIN q : q[i] = e
          BY <4>2
        <5>2. CASE i = 1
          <6>1. e = f /\ ~(f.seq <= start[d])
            <7>1. e = f
              BY <2>1, <2>2, <5>1, <5>2
            <7> QED BY ONLY <3>2, <7>1, e.seq > start[d]
          <6>2. armed'[d] = EventFrame(f)
            BY <2>3, <2>5, <6>1
          <6>3. InHand(d, e)'
            BY <3>2, <6>1, <6>2 DEF InHand
          <6> QED BY <6>3 DEF OnItsWay
        <5>3. CASE i # 1
          BY <3>1, <3>5, <5>1, <5>3 DEF OnItsWay
        <5> QED BY <5>2, <5>3
      <4>3. CASE OnWire(d, e)
        BY <3>1, <4>3 DEF OnItsWay
      <4>4. CASE ~open[d] /\ \A i \in DOMAIN q : e.seq > q[i].seq
        <5>1. \A i \in DOMAIN Tail(q) : i + 1 \in DOMAIN q /\ Tail(q)[i] = q[i + 1]
          BY <2>1, TailIndex
        <5>2. \A i \in DOMAIN Tail(q) : e.seq > Tail(q)[i].seq
          BY ONLY <4>4, <5>1
        <5> QED BY <2>3, <3>1, <4>4, <5>2
      <4> QED BY <3>6, <4>1, <4>2, <4>3, <4>4
    <3>9. e.seq <= start[d] => OnWire(d, e)'
      BY <2>4, <3>1 DEF FreshFor
    <3>10. /\ e.seq > cursor'[d] /\ \A i \in DOMAIN pending'[d] : FALSE
           /\ \A i \in DOMAIN wire'[d] : e.seq <= wire'[d][i].id => \E j \in 1..i : e.res \in wire'[d][j].res
      BY <2>3, <2>4, <3>1 DEF FreshFor
    <3> QED BY <3>1, <3>7, <3>8, <3>9, <3>10 DEF FreshFor
  <2>6. CASE d # c
    <3>1. OnItsWay(d, e) => OnItsWay(d, e)'
      BY <2>3, <2>6 DEF OnItsWay, InHand, OnWire
    <3> QED BY <2>3, <2>4, <2>6, <3>1, FreshElsewhere
  <2> QED BY <2>5, <2>6
<1>8. ASSUME NEW c \in Clients, Write(c) PROVE FreshFor(d, e)'
  <2>1. PICK a \in Frames : a = armed[c]
    BY <1>8 DEF Write
  <2>2. /\ armed[c] # NoFrame /\ armed' = [armed EXCEPT ![c] = NoFrame]
        /\ wire' = [wire EXCEPT ![c] = Append(wire[c], a)]
        /\ UNCHANGED <<unnotified, conn, queue, open, start, pending, cursor, stale, alert>>
    BY <1>8, <2>1 DEF Write, browser
  <2>3. FreshFor(d, e)
    BY <1>0, <2>2
  <2>4. CASE d = c
    <3>1. PICK q \in Seq(Frames) : q = wire[d]
      OBVIOUS
    <3>2. /\ wire'[d] = Append(q, a) /\ Len(q) \in Nat /\ DOMAIN q = 1..Len(q)
          /\ DOMAIN wire'[d] = 1..(Len(q) + 1) /\ wire'[d][Len(q) + 1] = a
          /\ \A i \in DOMAIN q : i \in DOMAIN wire'[d] /\ wire'[d][i] = q[i]
      BY <2>2, <2>4, <3>1
    <3>3. /\ armed'[d] = NoFrame /\ (InHand(d, e) <=> e.res \in a.res)
          /\ (InLine(d, e)' <=> InLine(d, e)) /\ (Reading(d)' <=> Reading(d))
      BY <2>1, <2>2, <2>4 DEF InHand, InLine, Reading
    <3>4. InHand(d, e) \/ OnWire(d, e) => \E j \in 1..(Len(q) + 1) : e.res \in wire'[d][j].res
      <4>1. OnWire(d, e) <=> \E j \in DOMAIN q : e.res \in q[j].res
        BY <3>1 DEF OnWire
      <4> QED BY ONLY <3>1, <3>2, <3>3, <4>1, ReadingsAppended
    <3>14. InHand(d, e) \/ OnWire(d, e) => OnWire(d, e)'
      BY ONLY <3>2, <3>4 DEF OnWire
    <3>5. OnItsWay(d, e) => OnItsWay(d, e)'
      BY <2>2, <3>14 DEF OnItsWay
    <3>6. ASSUME NEW i \in DOMAIN wire'[d], e.seq <= wire'[d][i].id
          PROVE  \E j \in 1..i : e.res \in wire'[d][j].res
      <4>1. CASE i \in DOMAIN q
        <5>1. PICK j \in 1..i : e.res \in q[j].res
          BY <2>3, <3>1, <3>2, <3>6, <4>1 DEF FreshFor
        <5>2. j \in DOMAIN q
          BY <3>2, <4>1
        <5> QED BY <3>2, <5>1, <5>2
      <4>2. CASE i = Len(q) + 1
        <5>1. InHand(d, e) \/ OnWire(d, e)
          BY <2>1, <2>2, <2>3, <2>4, <3>2, <3>6, <4>2 DEF FreshFor
        <5> QED BY ONLY <3>4, <4>2, <5>1
      <4>3. i \in DOMAIN q \/ i = Len(q) + 1
        BY ONLY <3>1, <3>2, ReadingsAppended, i \in DOMAIN wire'[d]
      <4> QED BY ONLY <4>1, <4>2, <4>3
    <3> QED BY <2>2, <2>3, <3>3, <3>14, <3>5, <3>6 DEF FreshFor
  <2>5. CASE d # c
    <3>1. OnItsWay(d, e) => OnItsWay(d, e)'
      BY <2>2, <2>5 DEF OnItsWay, InHand, OnWire
    <3> QED BY <2>2, <2>3, <2>5, <3>1, FreshElsewhere
  <2> QED BY <2>4, <2>5
<1>9. ASSUME NEW c \in Clients, Return(c) \/ Break(c) \/ SignIn(c) PROVE FreshFor(d, e)'
  <2>1. /\ CloseHandler({c}) /\ UNCHANGED <<unnotified, stale, alert>>
        /\ wire' = wire \/ wire' = [wire EXCEPT ![c] = <<>>]
        /\ cursor' = cursor \/ cursor' = [cursor EXCEPT ![c] = -1]
    BY <1>9 DEF Return, Break, SignIn, browser, None
  <2>2. FreshFor(d, e)
    BY <1>0, <2>1
  <2>3. CASE d = c
    <3>1. ~Reading(d)' /\ pending'[d] = <<>> /\ armed'[d] = NoFrame
      BY <2>1, <2>3 DEF CloseHandler, Reading
    <3>2. (cursor'[d] = cursor[d] \/ cursor'[d] = -1) /\ (wire'[d] = wire[d] \/ wire'[d] = <<>>)
      BY <2>1, <2>3
    <3> QED BY <1>0, <2>2, <3>1, <3>2, FreshClosed
  <2>4. CASE d # c
    <3>1. /\ conn'[d] = conn[d] /\ queue'[d] = queue[d] /\ start'[d] = start[d] /\ pending'[d] = pending[d]
          /\ armed'[d] = armed[d] /\ cursor'[d] = cursor[d] /\ wire'[d] = wire[d]
      BY <2>1, <2>4 DEF CloseHandler
    <3>2. open'[d] = open[d]
      BY <2>1, <2>4 DEF CloseHandler
    <3>3. OnItsWay(d, e) => OnItsWay(d, e)'
      BY <2>1, <3>1 DEF OnItsWay, InHand, OnWire
    <3> QED BY <2>2, <3>1, <3>2, <3>3, FreshElsewhere
  <2> QED BY <2>3, <2>4
<1>10. CASE Stop
  <2>1. CloseHandler(Clients) /\ UNCHANGED <<wire, cursor, stale, alert>>
    BY <1>10 DEF Stop, browser
  <2>2. ~Reading(d)' /\ pending'[d] = <<>> /\ armed'[d] = NoFrame /\ FreshFor(d, e)
    BY <1>0, <2>1 DEF CloseHandler, Reading
  <2> QED BY <1>0, <2>1, <2>2, FreshClosed
<1>11. ASSUME NEW c \in Clients, Receive(c) PROVE FreshFor(d, e)'
  <2>1. PICK q \in Seq(Frames) : q = wire[c] /\ q # <<>>
    BY <1>11 DEF Receive
  <2>2. /\ UNCHANGED <<unnotified, conn, queue, open, start, pending, armed>>
        /\ wire' = [wire EXCEPT ![c] = Tail(q)] /\ cursor' = [cursor EXCEPT ![c] = Head(q).id]
        /\ stale' = [stale EXCEPT ![c] = IF up THEN {f \in @ : f.res \notin Head(q).res} ELSE @]
        /\ alert' = [alert EXCEPT ![c] = @ \/ ~up]
    BY <1>11, <2>1 DEF Receive, handler
  <2>3. CASE d = c
    <3>1. alert'[c] = (alert[c] \/ ~up) /\ stale'[c] = IF up THEN {f \in stale[c] : f.res \notin Head(q).res} ELSE stale[c]
      BY <2>2
    <3>2. up /\ ~alert[d] /\ e \in stale[d] /\ e.res \notin Head(q).res
      BY <2>3, <3>1
    <3>3. FreshFor(d, e)
      BY <1>0, <3>2
    <3>4. Head(q) = q[1] /\ q[1] \in Frames /\ q[1].id \in Int /\ 1 \in DOMAIN q
      BY <2>1, TailIndex, FrameTypes
    <3>5. \A i \in DOMAIN q : e.seq <= q[i].id => \E j \in 1..i : e.res \in q[j].res
      BY <2>1, <2>3, <3>3 DEF FreshFor
    <3>6. e.seq > cursor'[d]
      <4>1. ~(e.seq <= q[1].id)
        <5>1. \A j \in 1..1 : j = 1
          OBVIOUS
        <5> QED BY <3>2, <3>4, <3>5, <5>1
      <4> QED BY <1>0, <2>2, <2>3, <3>4, <4>1
    <3>7. ASSUME NEW i \in DOMAIN Tail(q), e.seq <= Tail(q)[i].id
          PROVE  \E j \in 1..i : e.res \in Tail(q)[j].res
      <4>1. i + 1 \in DOMAIN q /\ Tail(q)[i] = q[i + 1]
        BY ONLY <2>1, <3>7, ReadingsTaken
      <4>2. PICK j \in 1..(i + 1) : e.res \in q[j].res
        BY ONLY <3>5, <3>7, <4>1
      <4> QED BY ONLY <2>1, <3>2, <3>7, <4>2, ReadingsTaken
    <3>8. wire'[d] = Tail(q) /\ (InHand(d, e)' <=> InHand(d, e)) /\ (InLine(d, e)' <=> InLine(d, e))
          /\ (Reading(d)' <=> Reading(d))
      BY <2>2, <2>3 DEF InHand, InLine, Reading
    <3>9. OnWire(d, e) => OnWire(d, e)'
      <4>1. ASSUME NEW i \in DOMAIN q, e.res \in q[i].res PROVE OnWire(d, e)'
        <5>1. \E j \in DOMAIN Tail(q) : e.res \in Tail(q)[j].res
          BY ONLY <2>1, <3>2, <4>1, ReadingsTaken
        <5> QED BY ONLY <3>8, <5>1 DEF OnWire
      <4> QED BY <2>1, <2>3, <4>1 DEF OnWire
    <3>10. OnItsWay(d, e) => OnItsWay(d, e)'
      BY <2>2, <3>8, <3>9 DEF OnItsWay
    <3> QED BY <2>2, <3>3, <3>6, <3>7, <3>8, <3>9, <3>10 DEF FreshFor
  <2>4. CASE d # c
    <3>1. /\ alert'[d] = alert[d] /\ stale'[d] = stale[d] /\ wire'[d] = wire[d] /\ cursor'[d] = cursor[d]
      BY <2>2, <2>4
    <3>2. OnItsWay(d, e) => OnItsWay(d, e)'
      BY <2>2, <3>1 DEF OnItsWay, InHand, OnWire
    <3>3. FreshFor(d, e)
      BY <1>0, <3>1
    <3> QED BY <2>2, <3>1, <3>2, <3>3, FreshElsewhere
  <2> QED BY <2>3, <2>4
<1>12. CASE Prune \/ Start \/ UNCHANGED vars \/ \E c \in Clients : Revoke(c)
  <2>1. UNCHANGED <<unnotified, handler, wire, cursor, stale, alert>>
    BY <1>12 DEF Prune, Start, vars, Revoke, handler, browser
  <2>2. OnItsWay(d, e) => OnItsWay(d, e)'
    BY <2>1 DEF OnItsWay, InHand, OnWire, handler
  <2>3. FreshFor(d, e)
    BY <1>0, <2>1
  <2> QED BY <2>1, <2>2, <2>3, FreshElsewhere DEF handler
<1> QED
  BY <1>1, <1>2, <1>3, <1>4, <1>5, <1>6, <1>7, <1>8, <1>9, <1>10, <1>11, <1>12 DEF Next, Handle

\* Where one writer at a time is between its commit and its announcement, nothing a quiet
\* viewer should see is missing.
LEMMA FreshWhenQuiet ==
    StreamTypes /\ OnceInv /\ GapInv /\ FreshInv => QuietViewIsFreshOrAlerted
<1> SUFFICES ASSUME StreamTypes, OnceInv, GapInv, FreshInv, NEW c \in Clients, Quiet(c), ~alert[c], NEW e \in stale[c]
             PROVE  FALSE
  BY DEF QuietViewIsFreshOrAlerted, StreamTypes, ViewTypes
<1>1. /\ e \in Row /\ Reading(c) /\ open[c] /\ pending[c] = <<>>
      /\ start[c] \in Int /\ e.seq \in Int
  BY RowTypes DEF StreamTypes, HandlerTypes, ViewTypes, Quiet, Reading, OnceInv, Phases
<1>2. ~OnItsWay(c, e) /\ ~InHand(c, e) /\ ~OnWire(c, e) /\ ~InLine(c, e)
  BY <1>1, Unlike DEF Quiet, OnItsWay, InHand, OnWire, InLine
<1>3. FreshFor(c, e)
  BY DEF FreshInv
<1> QED BY <1>1, <1>2, <1>3 DEF FreshFor

\* What holds whatever the writers do.
StreamInv == StreamTypes /\ OnceInv /\ GapInv /\ Behind

\* All the invariants hold at first.
LEMMA StreamInit == Init => StreamInv /\ FreshInv
  BY TypesInit, OnceInit, GapInit, BehindInit DEF StreamInv

\* The invariants that need no assumption on the writers are kept by every step.
LEMMA StreamStep == StreamInv /\ [Next]_vars => StreamInv'
<1>1. StreamTypes /\ [Next]_vars => StreamTypes'
  BY TypesStep
<1> QED BY <1>1, OnceStep, GapStep, BehindStep DEF StreamInv

\* As long as one writer at a time is between the commit of a row and its announcement,
\* every viewer whose stream is quiet has re-read all that it should see, or was told that
\* a re-read failed: no subscription, replay, reset, eviction, break or stop loses a row.
THEOREM OneWriterMissesNothing == Spec /\ []OneWriter => []QuietViewIsFreshOrAlerted
<1>1. StreamInv /\ FreshInv => QuietViewIsFreshOrAlerted
  BY FreshWhenQuiet DEF StreamInv
<1>2. StreamInv /\ FreshInv /\ OneWriter /\ [Next]_vars => (StreamInv /\ FreshInv)'
  BY StreamStep, FreshStep DEF StreamInv
<1> QED BY <1>1, <1>2, StreamInit, PTL DEF Spec

\* The same of the checked settings: with one writer no quiet viewer lacks a row unless it
\* was told so; with two, what it lacks lies below the number its connection began at.
THEOREM QuietViewsMissNothingHolds ==
    ASSUME Writers = {w1, w2}
    PROVE  MCSpec => []QuietViewsMissNothing
<1> DEFINE Alone == setting = "one writer" => OneWriter /\ FreshInv
           Inv == StreamInv /\ Alone
<1>1. Inv => QuietViewsMissNothing
  <2>1. StreamInv => QuietGapIsBelowStart
    BY GapWhenQuiet DEF StreamInv
  <2> QED BY <2>1, FreshWhenQuiet DEF QuietViewsMissNothing, StreamInv
<1>2. MCInit => Inv
  <2>1. Init => OneWriter
    BY DEF Init, OneWriter
  <2> QED BY <2>1, StreamInit DEF MCInit
<1>3. Inv /\ [Stays(Next)]_allVars => Inv'
  <2> SUFFICES ASSUME Inv, [Stays(Next)]_allVars PROVE Inv'
    OBVIOUS
  <2>1. [Next]_vars /\ setting' = setting
    BY DEF Stays, allVars
  <2>2. StreamInv' /\ (OneWriter /\ FreshInv => FreshInv')
    BY <2>1, StreamStep, FreshStep DEF StreamInv
  <2>3. setting = "one writer" => OneWriter'
    <3>1. CASE Stays(Next)
      BY <3>1 DEF Stays, Within, OneWriter
    <3>2. CASE UNCHANGED allVars
      BY <3>2 DEF allVars, vars, OneWriter
    <3> QED BY <3>1, <3>2
  <2> QED BY <2>1, <2>2, <2>3
<1> QED BY <1>1, <1>2, <1>3, PTL DEF MCSpec

-----------------------------------------------------------------------------
(* A session that has ended.                                                *)

\* The variables the argument is about, as functions over the clients.
RevocationTypes ==
  /\ session \in [Clients -> BOOLEAN]
  /\ late \in [Clients -> Nat]
  /\ armed = [c \in Clients |-> armed[c]]

\* Frames written late, and the one that is past its check, are at most one.
RevocationBound ==
  \A c \in Clients :
    ~session[c] => /\ late[c] <= 1
                   /\ late[c] = 1 => armed[c] = NoFrame

RevocationInv == RevocationTypes /\ RevocationBound

\* A closed handler has no frame in hand; it leaves every other one alone.
LEMMA CloseHandlerDisarms ==
  ASSUME NEW C \in SUBSET Clients, RevocationTypes, CloseHandler(C)
  PROVE  /\ armed' = [c \in Clients |-> armed'[c]]
         /\ \A c \in Clients : armed'[c] = NoFrame \/ armed'[c] = armed[c]
  BY DEF CloseHandler, RevocationTypes

\* The bound on late frames holds at first.
LEMMA RevocationInit == Init => RevocationInv
  BY DEF Init, RevocationInv, RevocationTypes, RevocationBound

\* Every step keeps it.
LEMMA RevocationStep == RevocationInv /\ [Next]_vars => RevocationInv'
<1> SUFFICES ASSUME RevocationInv, [Next]_vars PROVE RevocationInv'
  OBVIOUS
<1> USE DEF RevocationInv, RevocationTypes, RevocationBound
\* Steps that leave the session, the count and the frame in hand alone.
<1>0. ASSUME UNCHANGED <<session, late, armed>> PROVE RevocationInv'
  BY <1>0
<1>1. ASSUME NEW w \in Writers, Commit(w) \/ Notify(w) PROVE RevocationInv'
  BY <1>0, <1>1 DEF Commit, Notify, handler, history
<1>2. ASSUME NEW c \in Clients, Subscribe(c) PROVE RevocationInv'
  BY <1>0, <1>2 DEF Subscribe
<1>3. ASSUME NEW c \in Clients, Handle(c) PROVE RevocationInv'
  <2>1. CASE ReadStart(c)
    BY <1>0, <2>1 DEF ReadStart, history
  <2>2. CASE ArmOpening(c)
    <3>1. session[c] /\ session' = session /\ late' = late
      BY <2>2 DEF ArmOpening, history
    <3>2. armed' = [armed EXCEPT ![c] = Head(pending[c])]
      BY <2>2 DEF ArmOpening
    <3> QED BY <3>1, <3>2
  <2>3. CASE GoLive(c)
    BY <1>0, <2>3 DEF GoLive, history
  <2>4. CASE TakeLive(c)
    <3>1. session[c] /\ session' = session /\ late' = late
      BY <2>4 DEF TakeLive, history
    <3>2. \E f : armed' = [armed EXCEPT ![c] = f]
      BY <2>4 DEF TakeLive
    <3> QED BY <3>1, <3>2
  <2>5. CASE Write(c)
    <3>1. /\ session' = session
          /\ armed[c] # NoFrame /\ armed' = [armed EXCEPT ![c] = NoFrame]
          /\ late' = [late EXCEPT ![c] = IF session[c] THEN @ ELSE @ + 1]
      BY <2>5 DEF Write
    <3>2. ~session[c] => late[c] = 0
      BY <3>1 DEF NoFrame
    <3> QED BY <3>1, <3>2
  <2>6. CASE Return(c)
    <3>1. CloseHandler({c}) /\ UNCHANGED <<session, late>>
      BY <2>6 DEF Return, history
    <3> QED BY <3>1, CloseHandlerDisarms
  <2> QED BY <1>3, <2>1, <2>2, <2>3, <2>4, <2>5, <2>6 DEF Handle
<1>4. ASSUME NEW c \in Clients, Receive(c) PROVE RevocationInv'
  BY <1>0, <1>4 DEF Receive, handler, history
<1>5. ASSUME NEW c \in Clients, Break(c) PROVE RevocationInv'
  <2>1. CloseHandler({c}) /\ UNCHANGED <<session, late>>
    BY <1>5 DEF Break, history
  <2> QED BY <2>1, CloseHandlerDisarms
<1>6. ASSUME NEW c \in Clients, Revoke(c) PROVE RevocationInv'
  <2>1. /\ session' = [session EXCEPT ![c] = FALSE]
        /\ late' = [late EXCEPT ![c] = 0] /\ armed' = armed
    BY <1>6 DEF Revoke, handler
  <2> QED BY <2>1
<1>7. ASSUME NEW c \in Clients, SignIn(c) PROVE RevocationInv'
  <2>1. /\ session' = [session EXCEPT ![c] = TRUE]
        /\ CloseHandler({c}) /\ late' = late
    BY <1>7 DEF SignIn, history
  <2> QED BY <2>1, CloseHandlerDisarms
<1>8. CASE Stop
  <2>1. CloseHandler(Clients) /\ UNCHANGED <<session, late>>
    BY <1>8 DEF Stop, history
  <2> QED BY <2>1, CloseHandlerDisarms
<1>9. CASE Start \/ Prune
  BY <1>0, <1>9 DEF Start, Prune, handler, history
<1>10. CASE UNCHANGED vars
  BY <1>0, <1>10 DEF vars, handler, history
<1> QED
  BY <1>1, <1>2, <1>3, <1>4, <1>5, <1>6, <1>7, <1>8, <1>9, <1>10 DEF Next

\* A stream writes at most one more frame after its session ended: the one that
\* had already passed eventSessionCurrent (internal/transport/httpapi/events.go).
THEOREM RevocationSafety == Spec => []AtMostOneFrameAfterRevocation
<1>1. RevocationInv => AtMostOneFrameAfterRevocation
  BY DEF RevocationInv, RevocationBound, AtMostOneFrameAfterRevocation
<1> QED BY <1>1, RevocationInit, RevocationStep, PTL DEF Spec

==============================================================================
