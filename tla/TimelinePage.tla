---------------------------- MODULE TimelinePage ----------------------------
(***************************************************************************)
(* The timeline (app/codex-timeline.ts with campaign-timeline.ts): events  *)
(* in columns, one per session, in the order the events store.  Moves by   *)
(* key or by drag make one draft over the whole timeline; saving renumbers *)
(* the columns that the draft changed.                                     *)
(***************************************************************************)
EXTENDS PageWrites, SequencesExt

CONSTANTS
    EventSeq,    \* events, in the order the campaign lists its records
    MaxSession   \* bound: the last session a move can reach

Events == ToSet(EventSeq)

\* Sessions are numbered from 1.
ASSUME TimelineAssumption ==
    MaxSession \in Nat \ {0} /\ EventSeq \in Seq(Parts) /\ Gone \notin [sitting : Int, order : Int]

EventsShown == Restrict(shown, Events)

\* By order; events of one order stay as they are listed.
Earlier(records, d, e) ==
    LET Rank(x) == CHOOSE i \in DOMAIN EventSeq : EventSeq[i] = x IN
    \/ records[d].val.order < records[e].val.order
    \/ records[d].val.order = records[e].val.order /\ Rank(d) < Rank(e)

\* The events of a session.
InSession(records, s) == {e \in Events : Exists(records[e]) /\ records[e].val.sitting = s}

\* They in their order, which has no ties.
Column(records, s) ==
    CHOOSE col \in [1..Cardinality(InSession(records, s)) -> InSession(records, s)] :
        \A i, j \in DOMAIN col : i < j => Earlier(records, col[i], col[j])

\* The sessions that have events, and the events of each.
Columns(records) ==
    [s \in {records[e].val.sitting : e \in {x \in Events : Exists(records[x])}} |-> Column(records, s)]

LatestSession(cols) == Max(DOMAIN cols \cup {0})

\* Mutant: an event that only changes its session keeps its number.
PlacedByNumber(r, s, i) == r.val.order = i

Placed(r, s, i) == r.val.sitting = s /\ r.val.order = i

\* An event of another session joins the end of one.
AtTheEnd(records, e, s) ==
    LET rest == {records[x].val.order : x \in InSession(records, s) \ {e}}
    IN  [sitting |-> s, order |-> Max(rest \cup {0}) + 1]

\* One event taken out of its column and put into another.
Moved(cols, e, s, i) ==
    LET without == [t \in DOMAIN cols \cup {s} |->
                      IF t \in DOMAIN cols THEN RemoveFirst(cols[t], e) ELSE <<>>]
        at == IF i > Len(without[s]) THEN Len(without[s]) + 1 ELSE i
        all == [without EXCEPT ![s] = InsertAt(@, at, e)]
    IN  Restrict(all, {t \in DOMAIN all : all[t] # <<>>})

-----------------------------------------------------------------------------

TimelineView == [kind |-> "timeline", editing |-> FALSE, base |-> None, cols |-> <<>>,
                 drag |-> None, error |-> FALSE]

Drafted == page.base # None

\* What the board is drawn from: the draft's campaign, the drag's, or the current one.
Opened == IF Drafted THEN page.base
          ELSE IF page.drag # None THEN page.drag.base ELSE EventsShown
Board == IF Drafted THEN page.cols ELSE Columns(Opened)

TimelineIdle == page.kind = "timeline" /\ ~Locked /\ UNCHANGED <<server, shown, turn>>

NoDraft(view) == [view EXCEPT !.base = None, !.cols = <<>>, !.drag = None]

\* A move back to the stored order is no draft.
Move(e, s, i, drag) ==
    LET cols == Moved(Board, e, s, i) IN
    page' = IF cols = Columns(Opened) THEN [NoDraft(page) EXCEPT !.drag = drag]
            ELSE [page EXCEPT !.base = Opened, !.cols = cols, !.drag = drag]

\* Up, down, or to the end of a session, the one after the last included.
MoveByKey(e, s, i) ==
    /\ TimelineIdle /\ page.editing
    /\ s <= LatestSession(Board) + 1 /\ s <= MaxSession
    /\ \E t \in DOMAIN Board : \E j \in DOMAIN Board[t] :
          /\ Board[t][j] = e
          /\ IF s = t THEN i \in {j - 1, j + 1, Len(Board[t])} \cap DOMAIN Board[t]
             ELSE i = Len(EventSeq)
    /\ Move(e, s, i, page.drag)

DragStart(e) ==
    /\ TimelineIdle /\ page.editing
    /\ \E s \in DOMAIN Board : e \in ToSet(Board[s])
    /\ page' = [page EXCEPT !.drag = [event |-> e, base |-> Opened]]

\* Dropped where the pointer is; while a write runs the drop does nothing.
Drop(s, i) ==
    /\ page.kind = "timeline" /\ page.drag # None
    /\ s <= LatestSession(Board) + 1 /\ s <= MaxSession
    /\ IF Locked THEN page' = [page EXCEPT !.drag = None]
       ELSE Move(page.drag.event, s, i, None)
    /\ UNCHANGED <<server, shown, turn>>

DragEnd ==
    /\ page.kind = "timeline" /\ page.drag # None
    /\ page' = [page EXCEPT !.drag = None]
    /\ UNCHANGED <<server, shown, turn>>

CancelReorder ==
    /\ TimelineIdle /\ Drafted
    /\ page' = [NoDraft(page) EXCEPT !.error = FALSE]

ToggleEditing ==
    /\ TimelineIdle
    /\ page' = [NoDraft(page) EXCEPT !.error = FALSE, !.editing = ~@]

SaveReorder ==
    /\ page.kind = "timeline" /\ Drafted
    /\ Ask([kind |-> "timeline", base |-> page.base, cols |-> page.cols])
    /\ page' = [page EXCEPT !.error = FALSE]
    /\ UNCHANGED <<server, shown>>

-----------------------------------------------------------------------------
(* prepareTimelineReorder.                                                 *)

\* Another set of events, or one of another revision.
StaleTimeline(req) == \E e \in Events : Revision(shown[e]) # Revision(req.base[e])

\* The columns that differ are renumbered.
TimelineMutations(req) ==
    LET now == Columns(shown)
        changed == {s \in DOMAIN req.cols : s \notin DOMAIN now \/ now[s] # req.cols[s]}
    IN  UNION {{Change(req.cols[s][i], shown[req.cols[s][i]].rev, [sitting |-> s, order |-> i])
                  : i \in {j \in DOMAIN req.cols[s] : ~Placed(shown[req.cols[s][j]], s, j)}}
                  : s \in changed}

TimelineHears(ok) == IF ok THEN NoDraft(page) ELSE [page EXCEPT !.error = TRUE]

-----------------------------------------------------------------------------

\* Another browser adds an event, moves one to another session, or deletes one.
OthersChangeTimeline ==
    /\ page.kind = "timeline" /\ UNCHANGED page
    /\ \E e \in Events :
         \/ Exists(server[e]) /\ OthersStore(e, Gone)
         \/ \E s \in 1..MaxSession :
              /\ Exists(server[e]) => server[e].val.sitting # s
              /\ OthersStore(e, AtTheEnd(server, e, s))

TimelineSteps ==
    \/ \E e \in Events, s \in 1..MaxSession, i \in 1..Len(EventSeq) : MoveByKey(e, s, i)
    \/ \E e \in Events : DragStart(e)
    \/ \E s \in 1..MaxSession, i \in 1..Len(EventSeq) : Drop(s, i)
    \/ DragEnd \/ CancelReorder \/ ToggleEditing \/ SaveReorder
    \/ OthersChangeTimeline

=============================================================================
