------------------------- MODULE RecordEditingProofs -------------------------
(***************************************************************************)
(* What the editors of a record promise, for any fields, values, resets    *)
(* and number of revisions: no write changes what its author did not see,  *)
(* and a draft that its save closes is the value shown.                    *)
(*                                                                         *)
(* Two facts carry both.  Each editor waits for at most one request, so an *)
(* answer finds the draft that asked.  And one revision is one record: all *)
(* copies that the page holds agree with the server's where they carry its *)
(* revision, so a revision that still matches vouches for the values.      *)
(***************************************************************************)
EXTENDS RecordEditing, TLAPS

-----------------------------------------------------------------------------
(* Types.                                                                  *)

Snapshot == [rev : Nat, val : [Fields -> Values], live : BOOLEAN, link : Nat]

Senders == Fields \cup {"undo", "panel", "form", "delete", "nobody"}
Patch == UNION {[S -> Values] : S \in SUBSET Fields}
Requests == [from : Senders, base : Snapshot, fields : Patch, relinks : BOOLEAN]
Turns == [phase : {"sent", "written"}, req : Requests, expected : Nat, link : Nat,
          put : [Fields -> Values], live : BOOLEAN]
Draft == [open : {TRUE}, value : Values, original : Values, base : Snapshot, pending : BOOLEAN,
          again : BOOLEAN, closing : BOOLEAN, error : BOOLEAN, conflict : BOOLEAN]

StoreTypes == server \in Snapshot /\ shown \in Snapshot
WriteTypes == queue \in Seq(Requests) /\ turn \in Turns \cup {NoTurn}
EditorTypes ==
    /\ drafts \in [Inline -> Draft \cup {None}]
    /\ undo \in [open : {TRUE}, base : Snapshot, fields : Patch] \cup {None}
    /\ panel \in [open : {TRUE}, wiki : BOOLEAN, base : Snapshot, saving : BOOLEAN, stuck : BOOLEAN] \cup {None}
    /\ form \in [open : {TRUE}, base : Snapshot, saving : BOOLEAN] \cup {None}
EditingTypes == StoreTypes /\ WriteTypes /\ EditorTypes

-----------------------------------------------------------------------------
(* One revision, one record.                                               *)

\* The records that some part of the page, or the server, holds.
Held(s) ==
    \/ s = server \/ s = shown
    \/ \E i \in DOMAIN queue : s = queue[i].base
    \/ Busy /\ s = turn.req.base
    \/ \E f \in Inline : drafts[f] # None /\ s = drafts[f].base
    \/ undo # None /\ s = undo.base
    \/ panel # None /\ s = panel.base
    \/ form # None /\ s = form.base

\* Two records of the same revision are the same, and none is newer than the server's.
Agreement ==
    /\ \A s \in Snapshot : Held(s) => s.rev <= server.rev
    /\ \A s, t \in Snapshot : Held(s) /\ Held(t) /\ s.rev = t.rev => s.val = t.val

\* A write that the server would still take changes only what its author saw ...
SentIsSeen ==
    turn.phase = "sent" =>
      /\ turn.expected <= server.rev
      /\ turn.expected = server.rev =>
           \A g \in Fields : turn.put[g] # server.val[g] => server.val[g] = turn.req.base.val[g]
      /\ turn.req.relinks => turn.link = turn.req.base.link

\* ... and one that it took is the record of its revision.
WrittenIsStored ==
    turn.phase = "written" =>
      /\ turn.expected <= server.rev
      /\ \A s \in Snapshot : Held(s) /\ s.rev = turn.expected => s.val = turn.put

SeenInv == Agreement /\ SentIsSeen /\ WrittenIsStored

-----------------------------------------------------------------------------
(* One save of a field at a time.                                          *)

\* The request of a field names that field only.
OfField(req) == req.from \in Fields => req.from \in Inline /\ DOMAIN req.fields = {req.from} /\ ~req.relinks

\* The editor that sent a request waits for its answer ...
Awaited(from) ==
    /\ from \in Inline => drafts[from] # None /\ drafts[from].pending
    /\ from = "panel" => panel # None /\ panel.saving
    /\ from \in {"form", "delete"} => form # None /\ form.saving

\* ... and sends no other meanwhile.
Same(a, b) ==
    \/ a = b /\ (a \in Inline \/ a = "panel")
    \/ a \in {"form", "delete"} /\ b \in {"form", "delete"}

SaveInv ==
    /\ Busy => /\ OfField(turn.req) /\ Awaited(turn.req.from)
               /\ turn.req.from \in Inline =>
                    turn.live /\ turn.put[turn.req.from] = turn.req.fields[turn.req.from]
               /\ \A i \in DOMAIN queue : ~Same(queue[i].from, turn.req.from)
    /\ \A i \in DOMAIN queue :
         /\ OfField(queue[i]) /\ Awaited(queue[i].from)
         /\ \A j \in DOMAIN queue : Same(queue[i].from, queue[j].from) => i = j

\* What a save of each editor hears, one case for each sender.
LEMMA HearCases ==
    ASSUME NEW answer, NEW req \in Requests, NEW rest, OfField(req), Hear(answer, req, rest)
    PROVE  \/ /\ req.from \in Inline
              /\ DraftHears(req.from, answer, req, rest)
              /\ undo' = (IF answer = "ok" THEN UndoAfter(req) ELSE undo) /\ UNCHANGED <<panel, form>>
           \/ /\ req.from = "undo"
              /\ undo' = (IF answer = "ok" THEN undo ELSE [open |-> TRUE, base |-> req.base, fields |-> req.fields])
              /\ drafts' = (IF answer = "ok" THEN WithoutSettled(DOMAIN req.fields) ELSE drafts)
              /\ queue' = rest /\ UNCHANGED <<panel, form>>
           \/ /\ req.from = "panel" /\ panel' = PanelHears(answer)
              /\ queue' = rest /\ UNCHANGED <<drafts, undo, form>>
           \/ /\ req.from \in {"form", "delete"}
              /\ form' = (IF answer = "ok" THEN None ELSE [form EXCEPT !.saving = FALSE])
              /\ queue' = rest /\ UNCHANGED <<drafts, undo, panel>>
           \/ req.from = "nobody" /\ queue' = rest /\ UNCHANGED <<drafts, undo, panel, form>>
<1>1. req.from \in Inline \/ req.from \in {"undo", "panel", "form", "delete", "nobody"}
  BY DEF OfField, Requests, Senders
<1>2. req.from \in Inline => req.from \notin {"undo", "panel", "form", "delete", "nobody"}
  BY EditingAssumption DEF Inline
<1>3. CASE req.from \in Inline
  BY <1>2, <1>3 DEF Hear
<1>4. CASE req.from = "undo"
  BY <1>2, <1>4 DEF Hear
<1>5. CASE req.from = "panel"
  BY <1>2, <1>5 DEF Hear
<1>6. CASE req.from \in {"form", "delete"}
  BY <1>2, <1>6 DEF Hear
<1>7. CASE req.from = "nobody"
  BY <1>2, <1>7 DEF Hear
<1> QED BY <1>1, <1>3, <1>4, <1>5, <1>6, <1>7

\* A patch of one field, of no field, and of the fields that an undo puts back.
LEMMA Patches ==
    /\ \A f \in Fields, v \in Values : Restrict1(f, v) \in Patch /\ DOMAIN Restrict1(f, v) = {f} /\ Restrict1(f, v)[f] = v
    /\ <<>> \in Patch
    /\ \A p \in Patch : DOMAIN p \in SUBSET Fields /\ \A g \in DOMAIN p : p[g] \in Values
    /\ \A S \in SUBSET Fields : [S -> Values] \subseteq Patch
<1>1. \A S \in SUBSET Fields : [S -> Values] \subseteq Patch
  BY DEF Patch
<1>2. \A f \in Fields, v \in Values : Restrict1(f, v) \in [{f} -> Values]
  BY DEF Restrict1
<1>3. <<>> \in [{} -> Values]
  OBVIOUS
<1>4. \A p \in Patch : DOMAIN p \in SUBSET Fields /\ \A g \in DOMAIN p : p[g] \in Values
  BY DEF Patch
<1>5. \A f \in Fields, v \in Values : DOMAIN Restrict1(f, v) = {f} /\ Restrict1(f, v)[f] = v
  BY DEF Restrict1
<1>6. {} \in SUBSET Fields /\ \A f \in Fields : {f} \in SUBSET Fields
  OBVIOUS
<1> QED BY <1>1, <1>2, <1>3, <1>4, <1>5, <1>6

\* The request that a submission of field f queues.
LEMMA FieldRequest ==
    ASSUME NEW f \in Inline, NEW base \in Snapshot, NEW v \in Values
    PROVE  /\ Request(f, base, Restrict1(f, v)) \in Requests
           /\ OfField(Request(f, base, Restrict1(f, v)))
           /\ Request(f, base, Restrict1(f, v)).base = base
           /\ Request(f, base, Restrict1(f, v)).from = f
           /\ Request(f, base, Restrict1(f, v)).fields = Restrict1(f, v)
<1>1. f \in Fields /\ f \in Senders
  BY DEF Inline, Senders
<1>2. Restrict1(f, v) \in Patch /\ DOMAIN Restrict1(f, v) = {f}
  BY <1>1, Patches
<1> QED BY <1>1, <1>2 DEF Request, Asked, Requests, OfField

\* The types and the one save of each editor hold at first.
LEMMA EditingInit == Init => EditingTypes /\ SaveInv
<1> SUFFICES ASSUME Init PROVE EditingTypes /\ SaveInv
  OBVIOUS
<1>1. server \in Snapshot /\ shown \in Snapshot
  BY EditingAssumption DEF Init, Snapshot
<1>2. queue = <<>> /\ turn = NoTurn
  BY DEF Init
<1>3. EditorTypes
  BY DEF Init, EditorTypes
<1>4. \A i \in DOMAIN queue : FALSE
  BY <1>2
<1>5. ~Busy
  BY <1>2 DEF Busy
<1> QED BY <1>1, <1>2, <1>3, <1>4, <1>5 DEF EditingTypes, StoreTypes, WriteTypes, SaveInv

\* Drafts stay drafts.
LEMMA DraftTypes ==
    ASSUME NEW d \in Draft, NEW b \in Snapshot, NEW v \in Values, NEW p \in BOOLEAN, NEW q \in BOOLEAN
    PROVE  /\ [d EXCEPT !.base = b, !.original = v, !.pending = FALSE] \in Draft
           /\ [d EXCEPT !.again = FALSE, !.closing = FALSE] \in Draft
           /\ Submitted(d, p) \in Draft
           /\ [d EXCEPT !.pending = FALSE, !.again = FALSE, !.closing = FALSE, !.error = TRUE, !.conflict = q] \in Draft
           /\ d # None /\ d.value \in Values /\ d.closing \in BOOLEAN /\ d.base \in Snapshot
<1>1. d # None
  BY DEF Draft, None
<1> QED BY <1>1 DEF Draft, Submitted

\* An answer keeps the types.
LEMMA HearTypes ==
    ASSUME EditorTypes, NEW answer, NEW req \in Requests, NEW rest \in Seq(Requests), OfField(req),
           shown' \in Snapshot, Hear(answer, req, rest), Awaited(req.from)
    PROVE  EditorTypes' /\ queue' \in Seq(Requests)
<1>1. CASE /\ req.from \in Inline
           /\ DraftHears(req.from, answer, req, rest)
           /\ undo' = (IF answer = "ok" THEN UndoAfter(req) ELSE undo) /\ UNCHANGED <<panel, form>>
  <2>1. PICK f \in Inline, d \in Draft : f = req.from /\ d = drafts[f]
    BY <1>1 DEF Awaited, EditorTypes
  <2>2. req.base \in Snapshot /\ req.fields \in Patch /\ DOMAIN req.fields = {f} /\ req.fields[f] \in Values
    BY <2>1, Patches DEF Requests, OfField, Inline
  <2>3. undo' \in [open : {TRUE}, base : Snapshot, fields : Patch] \cup {None}
    <3>1. CASE answer = "ok"
      <4> DEFINE S == DOMAIN req.fields \cup UNION {Resets[h] : h \in DOMAIN req.fields}
      <4>1. S \in SUBSET Fields
        BY <2>1, <2>2, EditingAssumption DEF Inline
      <4> HIDE DEF S
      <4>2. [g \in S |-> req.base.val[g]] \in [S -> Values]
        BY <2>2, <4>1 DEF Snapshot
      <4>3. [g \in S |-> req.base.val[g]] \in Patch
        BY <4>1, <4>2, Patches
      <4>4. undo' = [open |-> TRUE, base |-> shown', fields |-> [g \in S |-> req.base.val[g]]]
        BY <1>1, <3>1 DEF UndoAfter, S
      <4> QED BY <4>3, <4>4
    <3>2. CASE answer # "ok"
      BY <1>1, <3>2 DEF EditorTypes
    <3> QED BY <3>1, <3>2
  <2>4. drafts' \in [Inline -> Draft \cup {None}] /\ queue' \in Seq(Requests)
    <3>1. CASE answer # "ok"
      <4>1. drafts' = [drafts EXCEPT ![f] = [d EXCEPT !.pending = FALSE, !.again = FALSE, !.closing = FALSE,
                                                     !.error = TRUE, !.conflict = answer = "conflict"]]
            /\ queue' = rest
        BY <1>1, <2>1, <3>1 DEF DraftHears
      <4>2. \A q \in BOOLEAN : [d EXCEPT !.pending = FALSE, !.again = FALSE, !.closing = FALSE,
                                         !.error = TRUE, !.conflict = q] \in Draft
        <5> TAKE q \in BOOLEAN
        <5> QED BY ONLY d \in Draft, q \in BOOLEAN DEF Draft
      <4>3. [d EXCEPT !.pending = FALSE, !.again = FALSE, !.closing = FALSE,
                      !.error = TRUE, !.conflict = answer = "conflict"] \in Draft
        BY ONLY <4>2, Zenon
      <4> QED BY <4>1, <4>3 DEF EditorTypes
    <3>2. CASE answer = "ok"
      <4>1. PICK b \in Draft : b = Rebased(f, req.fields[f])
        BY <2>1, <2>2, DraftTypes DEF Rebased
      <4>2. CASE Dirty(b) /\ b.again
        <5>1. /\ drafts' = [drafts EXCEPT ![f] = Submitted(b, b.closing)]
              /\ queue' = Append(rest, Request(f, b.base, Restrict1(f, b.value)))
          BY <1>1, <2>1, <3>2, <4>1, <4>2 DEF DraftHears
        <5>2. b.closing \in BOOLEAN /\ b.base \in Snapshot /\ b.value \in Values
          BY ONLY b \in Draft DEF Draft
        <5>3. Submitted(b, b.closing) \in Draft
          BY ONLY <5>2, b \in Draft DEF Submitted, Draft
        <5>4. Request(f, b.base, Restrict1(f, b.value)) \in Requests
          BY <5>2, FieldRequest
        <5> QED BY <5>1, <5>3, <5>4 DEF EditorTypes
      <4>3. CASE ~(Dirty(b) /\ b.again)
        <5>1. /\ drafts' = [drafts EXCEPT ![f] = IF ~Dirty(b) /\ b.closing THEN None
                                                 ELSE [b EXCEPT !.again = FALSE, !.closing = FALSE]]
              /\ queue' = rest
          BY <1>1, <2>1, <3>2, <4>1, <4>3 DEF DraftHears
        <5>2. [b EXCEPT !.again = FALSE, !.closing = FALSE] \in Draft
          BY ONLY b \in Draft DEF Draft
        <5> QED BY <5>1, <5>2 DEF EditorTypes
      <4> QED BY <4>2, <4>3
    <3> QED BY <3>1, <3>2
  <2> QED BY <1>1, <2>3, <2>4 DEF EditorTypes
<1>2. CASE /\ req.from = "undo"
           /\ undo' = (IF answer = "ok" THEN undo ELSE [open |-> TRUE, base |-> req.base, fields |-> req.fields])
           /\ drafts' = (IF answer = "ok" THEN WithoutSettled(DOMAIN req.fields) ELSE drafts)
           /\ queue' = rest /\ UNCHANGED <<panel, form>>
  <2>1. undo' \in [open : {TRUE}, base : Snapshot, fields : Patch] \cup {None}
    BY <1>2 DEF EditorTypes, Requests
  <2>2. drafts' \in [Inline -> Draft \cup {None}]
    BY <1>2 DEF EditorTypes, WithoutSettled
  <2> QED BY <1>2, <2>1, <2>2 DEF EditorTypes
<1>3. CASE /\ req.from = "panel" /\ panel' = PanelHears(answer)
           /\ queue' = rest /\ UNCHANGED <<drafts, undo, form>>
  <2>1. panel \in [open : {TRUE}, wiki : BOOLEAN, base : Snapshot, saving : BOOLEAN, stuck : BOOLEAN]
    BY <1>3 DEF Awaited, EditorTypes
  <2>2. (panel.wiki /\ answer = "conflict") \in BOOLEAN
    OBVIOUS
  <2>3. PanelHears(answer) \in [open : {TRUE}, wiki : BOOLEAN, base : Snapshot, saving : BOOLEAN, stuck : BOOLEAN] \cup {None}
    BY <2>1, <2>2 DEF PanelHears
  <2> QED BY <1>3, <2>3 DEF EditorTypes
<1>4. CASE /\ req.from \in {"form", "delete"}
           /\ form' = (IF answer = "ok" THEN None ELSE [form EXCEPT !.saving = FALSE])
           /\ queue' = rest /\ UNCHANGED <<drafts, undo, panel>>
  <2>1. form \in [open : {TRUE}, base : Snapshot, saving : BOOLEAN]
    BY <1>4 DEF Awaited, EditorTypes
  <2> QED BY <1>4, <2>1 DEF EditorTypes
<1>5. CASE req.from = "nobody" /\ queue' = rest /\ UNCHANGED <<drafts, undo, panel, form>>
  BY <1>5 DEF EditorTypes
<1> QED BY <1>1, <1>2, <1>3, <1>4, <1>5, HearCases

\* Where the requests are after one joins the queue, and after the first one leaves it.
LEMMA Joined ==
    ASSUME NEW S, NEW q \in Seq(S), NEW r \in S
    PROVE  /\ Append(q, r) \in Seq(S)
           /\ \A i \in DOMAIN Append(q, r) :
                \/ i \in DOMAIN q /\ Append(q, r)[i] = q[i]
                \/ i = Len(q) + 1 /\ Append(q, r)[i] = r
  OBVIOUS

\* Where the requests are after the first one leaves the queue.
LEMMA Taken ==
    ASSUME NEW S, NEW q \in Seq(S), q # <<>>
    PROVE  /\ Head(q) \in S /\ Tail(q) \in Seq(S)
           /\ 1 \in DOMAIN q /\ q[1] = Head(q)
           /\ \A i \in DOMAIN Tail(q) : i \in Nat \ {0} /\ i + 1 \in DOMAIN q /\ Tail(q)[i] = q[i + 1]
<1>1. /\ Len(q) \in Nat /\ DOMAIN q = 1..Len(q) /\ Len(q) # 0
      /\ Tail(q) \in Seq(S) /\ DOMAIN Tail(q) = 1..(Len(q) - 1)
  OBVIOUS
<1>2. \A i \in 1..(Len(q) - 1) : Tail(q)[i] = q[i + 1]
  OBVIOUS
<1>3. Head(q) \in S /\ q[1] = Head(q)
  OBVIOUS
<1> QED BY <1>1, <1>2, <1>3

\* After an answer the page holds no record that was not held before.
LEMMA HearHeld ==
    ASSUME EditingTypes, NEW answer, NEW req \in Requests, NEW rest \in Seq(Requests), OfField(req),
           Awaited(req.from), Hear(answer, req, rest), turn' = NoTurn, shown' \in {server, shown},
           Held(req.base), \A i \in DOMAIN rest : Held(rest[i].base), NEW s \in Snapshot, Held(s)'
    PROVE  Held(s) \/ s = server'
<1> SUFFICES ASSUME s # server' PROVE Held(s)
  OBVIOUS
<1>1. Held(server) /\ Held(shown) /\ Held(shown')
  BY DEF Held
<1>2. ASSUME s # shown'
      PROVE  \/ \E i \in DOMAIN queue' : s = queue'[i].base
             \/ \E f \in Inline : drafts'[f] # None /\ s = drafts'[f].base
             \/ undo' # None /\ s = undo'.base
             \/ panel' # None /\ s = panel'.base
             \/ form' # None /\ s = form'.base
  BY <1>2 DEF Held, Busy
<1>3. ASSUME queue' = rest, \E i \in DOMAIN queue' : s = queue'[i].base PROVE Held(s)
  BY <1>3
<1>4. /\ \A f \in Inline : drafts[f] # None => Held(drafts[f].base)
      /\ undo # None => Held(undo.base)
      /\ panel # None => Held(panel.base)
      /\ form # None => Held(form.base)
  BY DEF Held
<1>5. CASE s = shown'
  BY <1>1, <1>5
<1>6. CASE /\ s # shown' /\ req.from \in Inline
           /\ DraftHears(req.from, answer, req, rest)
           /\ undo' = (IF answer = "ok" THEN UndoAfter(req) ELSE undo) /\ UNCHANGED <<panel, form>>
  <2>1. PICK f \in Inline, d \in Draft : f = req.from /\ d = drafts[f]
    BY <1>6 DEF Awaited, EditorTypes, EditingTypes
  <2>2. Held(d.base)
    BY <1>4, <1>6, <2>1 DEF Awaited
  <2>3. undo' # None /\ s = undo'.base => Held(s)
    BY <1>4, <1>6 DEF UndoAfter
  <2>4. CASE answer # "ok"
    <3>1. /\ drafts' = [drafts EXCEPT ![f] = [d EXCEPT !.pending = FALSE, !.again = FALSE, !.closing = FALSE,
                                              !.error = TRUE, !.conflict = answer = "conflict"]]
          /\ queue' = rest
      BY <1>6, <2>1, <2>4 DEF DraftHears
    <3>2. \A g \in Inline : drafts'[g] # None /\ s = drafts'[g].base => Held(s)
      <4>1. drafts'[f].base = d.base
        BY <3>1 DEF EditingTypes, EditorTypes, Draft
      <4>2. \A g \in Inline \ {f} : drafts'[g] = drafts[g]
        BY <3>1 DEF EditingTypes, EditorTypes
      <4> QED BY ONLY <1>4, <2>2, <4>1, <4>2
    <3> QED BY <1>2, <1>3, <1>4, <1>6, <2>3, <3>1, <3>2
  <2>5. CASE answer = "ok"
    <3>1. req.fields[f] \in Values /\ shown' \in Snapshot
      BY <2>1, Patches DEF Requests, OfField, Inline, EditingTypes, StoreTypes
    <3>2. PICK b \in Draft : b = Rebased(f, req.fields[f]) /\ b.base = shown'
      <4>1. Rebased(f, req.fields[f]) = [d EXCEPT !.base = shown', !.original = req.fields[f], !.pending = FALSE]
        BY <2>1 DEF Rebased
      <4>2. /\ [d EXCEPT !.base = shown', !.original = req.fields[f], !.pending = FALSE] \in Draft
            /\ [d EXCEPT !.base = shown', !.original = req.fields[f], !.pending = FALSE].base = shown'
        BY ONLY <3>1, d \in Draft DEF Draft
      <4> QED BY <4>1, <4>2
    <3>3. \A g \in Inline : drafts'[g] # None => drafts'[g].base = shown' \/ (drafts[g] # None /\ drafts'[g].base = drafts[g].base)
      <4>1. \A g \in Inline \ {f} : drafts'[g] = drafts[g]
        BY <1>6, <2>1, <2>5, <3>2 DEF DraftHears, EditingTypes, EditorTypes
      <4>2. drafts'[f] \in {None, Submitted(b, b.closing), [b EXCEPT !.again = FALSE, !.closing = FALSE]}
        BY <1>6, <2>1, <2>5, <3>2 DEF DraftHears, EditingTypes, EditorTypes
      <4>3. Submitted(b, b.closing).base = shown' /\ [b EXCEPT !.again = FALSE, !.closing = FALSE].base = shown'
        BY ONLY <3>2 DEF Submitted, Draft
      <4> QED BY <4>1, <4>2, <4>3
    <3>4. queue' = rest \/ queue' = Append(rest, Request(f, b.base, Restrict1(f, b.value)))
      BY <1>6, <2>1, <2>5, <3>2 DEF DraftHears
    <3>5. \A i \in DOMAIN queue' : Held(queue'[i].base) \/ queue'[i].base = shown'
      <4>1. CASE queue' = rest
        BY <4>1
      <4>2. CASE queue' = Append(rest, Request(f, b.base, Restrict1(f, b.value)))
        <5>1. PICK r \in Requests : r = Request(f, b.base, Restrict1(f, b.value)) /\ r.base = shown'
          BY <3>2, FieldRequest DEF Draft
        <5> QED BY <4>2, <5>1, Joined
      <4> QED BY <3>4, <4>1, <4>2
    <3> QED BY <1>1, <1>2, <1>4, <1>6, <2>3, <3>3, <3>5
  <2> QED BY <2>4, <2>5
<1>7. CASE /\ s # shown' /\ req.from = "undo"
           /\ undo' = (IF answer = "ok" THEN undo ELSE [open |-> TRUE, base |-> req.base, fields |-> req.fields])
           /\ drafts' = (IF answer = "ok" THEN WithoutSettled(DOMAIN req.fields) ELSE drafts)
           /\ queue' = rest /\ UNCHANGED <<panel, form>>
  <2>1. \A f \in Inline : drafts'[f] # None => drafts'[f] = drafts[f]
    BY <1>7 DEF WithoutSettled
  <2>2. undo' # None => undo'.base = req.base \/ (undo # None /\ undo'.base = undo.base)
    BY <1>7
  <2> QED BY <1>2, <1>3, <1>4, <1>7, <2>1, <2>2
<1>8. CASE /\ s # shown' /\ req.from = "panel" /\ panel' = PanelHears(answer)
           /\ queue' = rest /\ UNCHANGED <<drafts, undo, form>>
  <2>1. panel \in [open : {TRUE}, wiki : BOOLEAN, base : Snapshot, saving : BOOLEAN, stuck : BOOLEAN] /\ panel # None
    BY <1>8 DEF Awaited, EditingTypes, EditorTypes
  <2>2. panel' # None => panel'.base = shown' \/ panel'.base = panel.base
    BY <1>8, <2>1 DEF PanelHears
  <2> QED BY <1>2, <1>3, <1>4, <1>8, <2>1, <2>2
<1>9. CASE /\ s # shown' /\ req.from \in {"form", "delete"}
           /\ form' = (IF answer = "ok" THEN None ELSE [form EXCEPT !.saving = FALSE])
           /\ queue' = rest /\ UNCHANGED <<drafts, undo, panel>>
  <2>1. form \in [open : {TRUE}, base : Snapshot, saving : BOOLEAN] /\ form # None
    BY <1>9 DEF Awaited, EditingTypes, EditorTypes
  <2>2. form' # None => form'.base = form.base
    BY <1>9, <2>1
  <2> QED BY <1>2, <1>3, <1>4, <1>9, <2>1, <2>2
<1>10. CASE s # shown' /\ req.from = "nobody" /\ queue' = rest /\ UNCHANGED <<drafts, undo, panel, form>>
  BY <1>2, <1>3, <1>4, <1>10
<1> QED BY <1>5, <1>6, <1>7, <1>8, <1>9, <1>10, HearCases

\* After an answer every request that waits still has its editor waiting for it.
LEMMA HearSave ==
    ASSUME EditingTypes, NEW answer, NEW req \in Requests, NEW rest \in Seq(Requests), OfField(req),
           Awaited(req.from), Hear(answer, req, rest), turn' = NoTurn, shown' \in Snapshot,
           \A i \in DOMAIN rest : /\ OfField(rest[i]) /\ Awaited(rest[i].from)
                                  /\ ~Same(rest[i].from, req.from)
                                  /\ \A j \in DOMAIN rest : Same(rest[i].from, rest[j].from) => i = j
    PROVE  SaveInv'
<1>1. ~Busy'
  BY DEF Busy
<1>2. ASSUME queue' = rest, \A i \in DOMAIN rest : Awaited(rest[i].from)' PROVE SaveInv'
  BY <1>1, <1>2 DEF SaveInv, OfField, Same
<1>3. CASE /\ req.from \in Inline
           /\ DraftHears(req.from, answer, req, rest)
           /\ undo' = (IF answer = "ok" THEN UndoAfter(req) ELSE undo) /\ UNCHANGED <<panel, form>>
  <2>1. PICK f \in Inline, d \in Draft : f = req.from /\ d = drafts[f]
    BY <1>3 DEF Awaited, EditorTypes, EditingTypes
  <2>2. \A g \in Inline \ {f} : drafts'[g] = drafts[g]
    BY <1>3, <2>1 DEF DraftHears, EditingTypes, EditorTypes
  <2>3. \A i \in DOMAIN rest : Awaited(rest[i].from)'
    BY <1>3, <2>1, <2>2 DEF Awaited, Same
  <2>4. CASE queue' = rest
    BY <1>2, <2>3, <2>4
  <2>5. CASE queue' # rest
    <3>1. req.fields[f] \in Values /\ answer = "ok"
      BY <1>3, <2>1, <2>5, Patches DEF Requests, OfField, Inline, DraftHears
    <3>2. PICK b \in Draft : b = Rebased(f, req.fields[f])
      BY <2>1, <3>1 DEF Rebased, Draft
    <3>3. PICK r \in Requests : r = Request(f, b.base, Restrict1(f, b.value)) /\ r.from = f /\ OfField(r)
      BY FieldRequest DEF Draft
    <3>4. drafts' = [drafts EXCEPT ![f] = Submitted(b, b.closing)] /\ queue' = Append(rest, r)
      BY <1>3, <2>1, <2>5, <3>1, <3>2, <3>3 DEF DraftHears
    <3>5. drafts'[f] # None /\ drafts'[f].pending
      <4>1. drafts'[f] = Submitted(b, b.closing)
        BY <3>4 DEF EditingTypes, EditorTypes
      <4>2. Submitted(b, b.closing).open /\ Submitted(b, b.closing).pending /\ ~None.open
        BY ONLY b \in Draft DEF Submitted, Draft, None
      <4> QED BY ONLY <4>1, <4>2
    <3>6. Awaited(r.from)'
      BY <3>3, <3>5, EditingAssumption DEF Awaited, Inline
    <3>7. \A i \in DOMAIN rest : ~Same(rest[i].from, r.from) /\ ~Same(r.from, rest[i].from)
      BY <2>1, <3>3 DEF Same
    <3>8. PICK q \in Seq(Requests) :
             /\ q = queue'
             /\ \A i \in DOMAIN q : (i \in DOMAIN rest /\ q[i] = rest[i]) \/ (i = Len(rest) + 1 /\ q[i] = r)
      BY <3>4, Joined
    <3>9. \A i, j \in DOMAIN q : Same(q[i].from, q[j].from) => i = j
      BY <3>7, <3>8
    <3>10. \A i \in DOMAIN q : OfField(q[i]) /\ Awaited(q[i].from)'
      BY <2>3, <3>3, <3>6, <3>8
    <3> QED BY <1>1, <3>8, <3>9, <3>10 DEF SaveInv, OfField, Same, Awaited
  <2> QED BY <2>4, <2>5
<1>4. CASE /\ req.from = "undo"
           /\ undo' = (IF answer = "ok" THEN undo ELSE [open |-> TRUE, base |-> req.base, fields |-> req.fields])
           /\ drafts' = (IF answer = "ok" THEN WithoutSettled(DOMAIN req.fields) ELSE drafts)
           /\ queue' = rest /\ UNCHANGED <<panel, form>>
  <2>1. \A f \in Inline : drafts[f] # None /\ drafts[f].pending => drafts'[f] = drafts[f]
    BY <1>4 DEF WithoutSettled
  <2> QED BY <1>2, <1>4, <2>1 DEF Awaited
<1>5. CASE /\ req.from = "panel" /\ panel' = PanelHears(answer)
           /\ queue' = rest /\ UNCHANGED <<drafts, undo, form>>
  BY <1>2, <1>5 DEF Awaited, Same
<1>6. CASE /\ req.from \in {"form", "delete"}
           /\ form' = (IF answer = "ok" THEN None ELSE [form EXCEPT !.saving = FALSE])
           /\ queue' = rest /\ UNCHANGED <<drafts, undo, panel>>
  BY <1>2, <1>6 DEF Awaited, Same
<1>7. CASE req.from = "nobody" /\ queue' = rest /\ UNCHANGED <<drafts, undo, panel, form>>
  BY <1>2, <1>7 DEF Awaited
<1> QED BY <1>3, <1>4, <1>5, <1>6, <1>7, HearCases

-----------------------------------------------------------------------------
(* Each step keeps the types and the one save of each editor, and shows the *)
(* page no record but those it held and the server's.                       *)

\* What the steps need of each other.
SteadyInv == EditingTypes /\ SaveInv

\* No record comes from elsewhere.
Inherits == \A s \in Snapshot : Held(s)' => Held(s) \/ s = server'

\* What waits was sent by somebody.
LEMMA Sending ==
    ASSUME EditingTypes
    PROVE  /\ \A i \in DOMAIN queue : queue[i] \in Requests /\ queue[i].from \in Senders
           /\ Busy => turn \in Turns /\ turn.req \in Requests /\ turn.req.from \in Senders
<1>1. \A i \in DOMAIN queue : queue[i] \in Requests
  BY DEF EditingTypes, WriteTypes
<1>2. Busy => turn \in Turns
  BY DEF EditingTypes, WriteTypes, Busy
<1>3. \A t \in Turns : t.req \in Requests
  BY DEF Turns
<1>4. \A r \in Requests : r.from \in Senders
  BY DEF Requests
<1> QED BY <1>1, <1>2, <1>3, <1>4

\* A request that waits keeps its editor waiting while the editors only begin, type and end.
LEMMA SaveStays ==
    ASSUME SaveInv, UNCHANGED <<queue, turn>>, \A from \in Senders : Awaited(from) => Awaited(from)',
           EditingTypes
    PROVE  SaveInv'
<1>1. /\ \A i \in DOMAIN queue : queue[i].from \in Senders
      /\ Busy => turn.req.from \in Senders
  BY Sending
<1>2. PICK q, t : q = queue /\ t = turn
  OBVIOUS
<1>3. /\ \A i \in DOMAIN q : Awaited(q[i].from)'
      /\ t # NoTurn => Awaited(t.req.from)'
  BY <1>1, <1>2 DEF SaveInv, Busy
<1> QED BY <1>2, <1>3 DEF SaveInv, Busy, OfField, Same, Awaited

\* A request may join when nothing else waits for its editor.
LEMMA SaveJoins ==
    ASSUME SaveInv, EditingTypes, NEW r \in Requests, OfField(r), queue' = Append(queue, r), turn' = turn,
           \A from \in Senders : Awaited(from) => Awaited(from)', Awaited(r.from)',
           r.from # "undo" => ~Awaited(r.from)
    PROVE  SaveInv' /\ queue' \in Seq(Requests)
<1>1. /\ \A i \in DOMAIN queue : queue[i].from \in Senders
      /\ Busy => turn.req.from \in Senders
  BY Sending
<1>2. PICK q, t : q = queue' /\ t = turn
  OBVIOUS
<1>3. /\ q \in Seq(Requests)
      /\ \A i \in DOMAIN q : (i \in DOMAIN queue /\ q[i] = queue[i]) \/ (i = Len(queue) + 1 /\ q[i] = r)
  BY <1>2, Joined DEF EditingTypes, WriteTypes
<1>4. \A x \in Senders : Awaited(x) => ~Same(x, r.from) /\ ~Same(r.from, x)
  BY EditingAssumption DEF Same, Awaited, Inline
<1>5. /\ \A i \in DOMAIN q : OfField(q[i]) /\ Awaited(q[i].from)'
      /\ t # NoTurn => Awaited(t.req.from)'
  BY <1>1, <1>2, <1>3 DEF SaveInv, Busy
<1>6. \A i, j \in DOMAIN q : Same(q[i].from, q[j].from) => i = j
  <2>1. \A i \in DOMAIN queue : ~Same(queue[i].from, r.from) /\ ~Same(r.from, queue[i].from)
    BY <1>1, <1>4 DEF SaveInv
  <2> QED BY <1>3, <2>1 DEF SaveInv
<1>7. t # NoTurn => \A i \in DOMAIN q : ~Same(q[i].from, t.req.from)
  <2>1. t # NoTurn => Awaited(t.req.from) /\ t.req.from \in Senders
    BY <1>1, <1>2 DEF SaveInv, Busy
  <2> QED BY <1>2, <1>3, <1>4, <2>1 DEF SaveInv, Busy
<1> QED BY <1>2, <1>3, <1>5, <1>6, <1>7 DEF SaveInv, Busy, OfField, Same, Awaited

\* An answer, to the first request of the queue or to the write whose turn it is.
LEMMA AnswerStep ==
    ASSUME SteadyInv, NEW answer, NEW req, NEW rest, Hear(answer, req, rest), turn' = NoTurn,
           shown' \in {server, shown}, server' \in Snapshot,
           \/ turn = NoTurn /\ queue # <<>> /\ req = Head(queue) /\ rest = Tail(queue)
           \/ Busy /\ req = turn.req /\ rest = queue
    PROVE  SteadyInv' /\ Inherits
<1>1. req \in Requests /\ rest \in Seq(Requests)
  BY Taken DEF SteadyInv, EditingTypes, WriteTypes, Busy, Turns
<1>2. /\ OfField(req) /\ Awaited(req.from) /\ Held(req.base)
      /\ \A i \in DOMAIN rest : /\ OfField(rest[i]) /\ Awaited(rest[i].from)
                                /\ ~Same(rest[i].from, req.from)
                                /\ \A j \in DOMAIN rest : Same(rest[i].from, rest[j].from) => i = j
      /\ \A i \in DOMAIN rest : Held(rest[i].base)
  <2>1. CASE Busy /\ req = turn.req /\ rest = queue
    BY <2>1 DEF SteadyInv, SaveInv, Held
  <2>2. CASE queue # <<>> /\ req = Head(queue) /\ rest = Tail(queue)
    <3>1. /\ 1 \in DOMAIN queue /\ queue[1] = req
          /\ \A i \in DOMAIN rest : i \in Nat \ {0} /\ i + 1 \in DOMAIN queue /\ rest[i] = queue[i + 1]
      BY <2>2, Taken DEF SteadyInv, EditingTypes, WriteTypes
    <3>2. \A i \in DOMAIN rest : i + 1 # 1 /\ \A j \in DOMAIN rest : i + 1 = j + 1 => i = j
      <4>1. \A i \in DOMAIN rest : i \in Nat \ {0}
        BY <3>1
      <4> QED BY ONLY <4>1
    <3>3. ASSUME NEW i \in DOMAIN rest
          PROVE  /\ OfField(rest[i]) /\ Awaited(rest[i].from) /\ Held(rest[i].base)
                 /\ ~Same(rest[i].from, req.from)
                 /\ \A j \in DOMAIN rest : Same(rest[i].from, rest[j].from) => i = j
      BY <3>1, <3>2 DEF SteadyInv, SaveInv, Held
    <3> QED BY <3>1, <3>3 DEF SteadyInv, SaveInv, Held
  <2> QED BY <2>1, <2>2
<1>3. shown' \in Snapshot
  BY DEF SteadyInv, EditingTypes, StoreTypes
<1>4. EditorTypes' /\ queue' \in Seq(Requests)
  BY <1>1, <1>2, <1>3, HearTypes DEF SteadyInv, EditingTypes
<1>5. SaveInv'
  BY <1>1, <1>2, <1>3, HearSave DEF SteadyInv
<1>6. Inherits
  BY <1>1, <1>2, HearHeld DEF Inherits, SteadyInv
<1> QED BY <1>3, <1>4, <1>5, <1>6 DEF SteadyInv, EditingTypes, StoreTypes, WriteTypes

\* The record that the server stores.
LEMMA CommitTypes ==
    ASSUME SteadyInv, Commits
    PROVE  /\ turn \in Turns /\ server' \in Snapshot /\ server'.rev = server.rev + 1
           /\ server'.val = turn.put /\ turn.expected = server.rev
           /\ server'.live = turn.live
<1>1. turn \in Turns
  BY DEF Commits, SteadyInv, EditingTypes, WriteTypes, NoTurn
<1>2. server \in Snapshot
  BY DEF SteadyInv, EditingTypes, StoreTypes
<1> QED BY <1>1, <1>2 DEF Commits, Current, Turns, Snapshot

\* The steps of the write controller.
LEMMA WritingStep == SteadyInv /\ Writing => SteadyInv' /\ Inherits
<1> SUFFICES ASSUME SteadyInv, Writing PROVE SteadyInv' /\ Inherits
  OBVIOUS
<1>0. server \in Snapshot /\ shown \in Snapshot /\ queue \in Seq(Requests) /\ turn \in Turns \cup {NoTurn}
  BY DEF SteadyInv, EditingTypes, StoreTypes, WriteTypes
<1>1. CASE RefuseTurn \/ FindStale
  BY <1>0, <1>1, AnswerStep DEF RefuseTurn, FindStale, NextRequest
<1>2. CASE ServerConflicts \/ RequestFails \/ ReadBack
  <2>1. Busy /\ turn' = NoTurn /\ server' \in Snapshot /\ shown' \in {server, shown}
    BY <1>0, <1>2, CommitTypes DEF ServerConflicts, RequestFails, ReadBack, Busy, NoTurn
  <2>2. \E answer : Hear(answer, turn.req, queue)
    BY <1>2 DEF ServerConflicts, RequestFails, ReadBack
  <2> QED BY <2>1, <2>2, AnswerStep
<1>3. CASE SendWrite
  <2>1. PICK req \in Requests : req = Head(queue) /\ queue # <<>> /\ turn = NoTurn
    BY <1>0, <1>3, Taken DEF SendWrite, NextRequest
  <2>2. /\ turn' = [phase |-> "sent", req |-> req, expected |-> shown.rev, link |-> shown.link,
                    put |-> Prepared(req), live |-> req.from # "delete"]
        /\ queue' = Tail(queue) /\ UNCHANGED <<server, shown, drafts, undo, panel, form>>
    BY <1>3, <2>1 DEF SendWrite
  <2>3. /\ Tail(queue) \in Seq(Requests) /\ 1 \in DOMAIN queue /\ queue[1] = req
        /\ \A i \in DOMAIN Tail(queue) : i \in Nat \ {0} /\ i + 1 \in DOMAIN queue /\ Tail(queue)[i] = queue[i + 1]
    BY <1>0, <2>1, Taken
  <2>4. Prepared(req) \in [Fields -> Values] /\ \A g \in DOMAIN req.fields : g \in Fields => Prepared(req)[g] = req.fields[g]
    <3>1. req.fields \in Patch
      BY DEF Requests
    <3>2. \A g \in DOMAIN req.fields : req.fields[g] \in Values
      BY <3>1, Patches
    <3> QED BY <1>0, <3>2, EditingAssumption DEF Prepared, Snapshot
  <2>5. turn' \in Turns
    <3>1. (req.from # "delete") \in BOOLEAN
      OBVIOUS
    <3> QED BY <1>0, <2>2, <2>4, <3>1 DEF Turns, Snapshot
  <2>6. EditingTypes'
    BY <1>0, <2>2, <2>3, <2>5 DEF EditingTypes, StoreTypes, WriteTypes, EditorTypes, SteadyInv
  <2>7. SaveInv'
    <3>1. PICK q, t : q = queue' /\ t = turn'
      OBVIOUS
    <3>2. \A from \in Senders : Awaited(from)' <=> Awaited(from)
      BY <2>2 DEF Awaited
    <3>3. OfField(req) /\ Awaited(req.from)
      BY <2>3 DEF SteadyInv, SaveInv
    <3>4. \A i \in DOMAIN q : i + 1 # 1 /\ \A j \in DOMAIN q : i + 1 = j + 1 => i = j
      BY <2>2, <2>3, <3>1
    <3>5. ASSUME NEW i \in DOMAIN q
          PROVE  /\ OfField(q[i]) /\ Awaited(q[i].from) /\ ~Same(q[i].from, req.from) /\ q[i].from \in Senders
                 /\ \A j \in DOMAIN q : Same(q[i].from, q[j].from) => i = j
      <4>1. q[i] \in Requests
        BY <2>2, <2>3, <3>1
      <4> QED BY <2>2, <2>3, <3>1, <3>4, <4>1 DEF SteadyInv, SaveInv, Requests
    <3>6. req.from \in Inline => req.from # "delete" /\ req.from \in Fields /\ req.from \in DOMAIN req.fields
      BY <3>3, EditingAssumption DEF Inline, OfField
    <3>7. t.req = req /\ t.live = (req.from # "delete") /\ t.put = Prepared(req)
      BY <2>2, <3>1
    <3>8. t.req.from \in Inline => t.live /\ t.put[t.req.from] = t.req.fields[t.req.from]
      BY <2>4, <3>6, <3>7
    <3>9. \A i \in DOMAIN q : Awaited(q[i].from)'
      BY <3>2, <3>5
    <3>10. Awaited(req.from)'
      BY <3>2, <3>3 DEF Requests
    <3> QED BY <3>1, <3>3, <3>5, <3>7, <3>8, <3>9, <3>10 DEF SaveInv, OfField, Same, Awaited
  <2>8. Inherits
    <3>1. \A i \in DOMAIN queue' : \E j \in DOMAIN queue : queue'[i] = queue[j]
      BY <2>2, <2>3
    <3>2. turn'.req.base = queue[1].base
      BY <2>2, <2>3
    <3> QED BY <2>2, <2>3, <3>1, <3>2 DEF Inherits, Held
  <2> QED BY <2>6, <2>7, <2>8 DEF SteadyInv
<1>4. CASE ServerCommits
  <2>1. /\ turn \in Turns /\ server' \in Snapshot /\ UNCHANGED <<shown, queue, drafts, undo, panel, form>>
        /\ turn' = [turn EXCEPT !.phase = "written", !.expected = server'.rev, !.link = server'.link]
    BY <1>4, CommitTypes DEF ServerCommits
  <2>2. turn' \in Turns /\ turn'.req = turn.req /\ turn'.live = turn.live /\ turn'.put = turn.put
    BY <2>1 DEF Turns, Snapshot
  <2>3. Busy /\ Busy'
    BY <2>1, <2>2 DEF Turns, Busy, NoTurn
  <2>4. EditingTypes'
    BY <1>0, <2>1, <2>2 DEF EditingTypes, StoreTypes, WriteTypes, EditorTypes, SteadyInv
  <2>5. SaveInv'
    BY <2>1, <2>2, <2>3 DEF SteadyInv, SaveInv, OfField, Awaited, Same
  <2>6. Inherits
    BY <2>1, <2>2, <2>3 DEF Inherits, Held
  <2> QED BY <2>4, <2>5, <2>6 DEF SteadyInv
<1> QED BY <1>1, <1>2, <1>3, <1>4 DEF Writing

\* A record stays one when its revision, its values, its links or its life change.
LEMMA SnapshotTypes ==
    ASSUME NEW s \in Snapshot
    PROVE  /\ s.rev \in Nat /\ s.link \in Nat /\ s.val \in [Fields -> Values]
           /\ \A p \in [Fields -> Values] : [s EXCEPT !.rev = s.rev + 1, !.val = p] \in Snapshot
           /\ [s EXCEPT !.rev = s.rev + 1, !.live = FALSE] \in Snapshot
           /\ [s EXCEPT !.link = s.link + 1] \in Snapshot
<1>1. s.rev \in Nat /\ s.link \in Nat /\ s.rev + 1 \in Nat /\ s.link + 1 \in Nat /\ s.val \in [Fields -> Values]
  BY DEF Snapshot
<1>2. ASSUME NEW n \in Nat, NEW p \in [Fields -> Values] PROVE [s EXCEPT !.rev = n, !.val = p] \in Snapshot
  BY DEF Snapshot
<1>3. ASSUME NEW n \in Nat PROVE [s EXCEPT !.rev = n, !.live = FALSE] \in Snapshot /\ [s EXCEPT !.link = n] \in Snapshot
  BY DEF Snapshot
<1> QED BY <1>1, <1>2, <1>3

\* The steps of the other author, and the refreshes.
LEMMA OthersStep == SteadyInv /\ (Others \/ UNCHANGED vars) => SteadyInv' /\ Inherits
<1> SUFFICES ASSUME SteadyInv, Others \/ UNCHANGED vars PROVE SteadyInv' /\ Inherits
  OBVIOUS
<1>0. server \in Snapshot /\ shown \in Snapshot
  BY DEF SteadyInv, EditingTypes, StoreTypes
<1>1. UNCHANGED <<queue, turn, drafts, undo, panel, form>>
  BY DEF Others, OthersWrite, OthersRelink, OthersDelete, Refresh, Elsewhere, vars
<1>2. server' \in Snapshot /\ shown' \in {server, shown}
  <2>1. ASSUME NEW f \in Fields, NEW v \in Values, OthersWrite(f, v) PROVE server' \in Snapshot /\ shown' = shown
    <3>1. PICK p \in [Fields -> Values] : p = [server.val EXCEPT ![f] = v]
      BY <1>0 DEF Snapshot
    <3>2. server' = [server EXCEPT !.rev = server.rev + 1, !.val = p] /\ shown' = shown
      BY <2>1, <3>1 DEF OthersWrite
    <3>3. [server EXCEPT !.rev = server.rev + 1, !.val = p] \in Snapshot
      BY ONLY <1>0, p \in [Fields -> Values], SnapshotTypes
    <3> QED BY ONLY <3>2, <3>3
  <2>2. CASE OthersRelink \/ OthersDelete
    <3>1. CASE OthersRelink
      <4>1. server' = [server EXCEPT !.link = server.link + 1] /\ shown' = shown
        BY <3>1 DEF OthersRelink
      <4> QED BY ONLY <1>0, <4>1, SnapshotTypes
    <3>2. CASE OthersDelete
      <4>1. server' = [server EXCEPT !.rev = server.rev + 1, !.live = FALSE] /\ shown' = shown
        BY <3>2 DEF OthersDelete
      <4> QED BY ONLY <1>0, <4>1, SnapshotTypes
    <3> QED BY <2>2, <3>1, <3>2
  <2>3. CASE Refresh \/ UNCHANGED vars
    BY <1>0, <2>3 DEF Refresh, vars
  <2>4. Others => \/ \E f \in Fields, v \in Values : OthersWrite(f, v)
                  \/ OthersRelink \/ OthersDelete \/ Refresh
    BY DEF Others
  <2>5. CASE \E f \in Fields, v \in Values : OthersWrite(f, v)
    BY <2>1, <2>5
  <2> QED BY <2>2, <2>3, <2>4, <2>5
<1>3. EditingTypes'
  BY <1>0, <1>1, <1>2 DEF SteadyInv, EditingTypes, StoreTypes, WriteTypes, EditorTypes
<1>4. SaveInv'
  BY <1>1, SaveStays DEF SteadyInv, Awaited
<1>5. Inherits
  BY <1>1, <1>2 DEF Inherits, Held, Busy
<1> QED BY <1>3, <1>4, <1>5 DEF SteadyInv

\* A step of one editor, which may send a request over the record it works on.
LEMMA EditStep ==
    ASSUME SteadyInv, UNCHANGED <<server, shown, turn>>, EditorTypes',
           \A from \in Senders : Awaited(from) => Awaited(from)',
           \A f \in Inline : drafts'[f] # None =>
             drafts'[f].base = shown \/ (drafts[f] # None /\ drafts'[f].base = drafts[f].base),
           undo' # None => undo # None /\ undo'.base = undo.base,
           panel' # None => panel'.base = shown \/ (panel # None /\ panel'.base = panel.base),
           form' # None => form'.base = shown \/ (form # None /\ form'.base = form.base),
           \/ queue' = queue
           \/ \E r \in Requests : /\ OfField(r) /\ Held(r.base) /\ queue' = Append(queue, r)
                                  /\ Awaited(r.from)' /\ (r.from # "undo" => ~Awaited(r.from))
    PROVE  SteadyInv' /\ Inherits
<1>1. CASE queue' = queue
  <2>1. EditingTypes'
    BY <1>1 DEF SteadyInv, EditingTypes, StoreTypes, WriteTypes
  <2>2. SaveInv'
    BY <1>1, SaveStays DEF SteadyInv
  <2>3. Inherits
    BY <1>1 DEF Inherits, Held, Busy
  <2> QED BY <2>1, <2>2, <2>3 DEF SteadyInv
<1>2. ASSUME NEW r \in Requests, OfField(r), Held(r.base), queue' = Append(queue, r), Awaited(r.from)',
             r.from # "undo" => ~Awaited(r.from)
      PROVE  SteadyInv' /\ Inherits
  <2>1. SaveInv' /\ queue' \in Seq(Requests)
    BY <1>2, SaveJoins DEF SteadyInv
  <2>2. EditingTypes'
    BY <2>1 DEF SteadyInv, EditingTypes, StoreTypes, WriteTypes
  <2>3. \A i \in DOMAIN queue' : Held(queue'[i].base)
    <3>1. \A i \in DOMAIN queue' : \/ i \in DOMAIN queue /\ queue'[i] = queue[i]
                                   \/ queue'[i] = r
      BY <1>2, Joined DEF SteadyInv, EditingTypes, WriteTypes
    <3>2. \A i \in DOMAIN queue : Held(queue[i].base)
      BY DEF Held
    <3> QED BY <1>2, <3>1, <3>2
  <2>4. /\ Held(shown) /\ (Busy <=> Busy') /\ (Busy => Held(turn.req.base))
        /\ \A f \in Inline : drafts[f] # None => Held(drafts[f].base)
        /\ undo # None => Held(undo.base)
        /\ panel # None => Held(panel.base)
        /\ form # None => Held(form.base)
    BY DEF Held, Busy
  <2>5. ASSUME NEW s \in Snapshot, Held(s)' PROVE Held(s) \/ s = server'
    <3>1. \/ s = server' \/ s = shown
          \/ \E i \in DOMAIN queue' : s = queue'[i].base
          \/ Busy /\ s = turn.req.base
          \/ \E f \in Inline : drafts'[f] # None /\ s = drafts'[f].base
          \/ undo' # None /\ s = undo'.base
          \/ panel' # None /\ s = panel'.base
          \/ form' # None /\ s = form'.base
      BY <2>4, <2>5 DEF Held
    <3> QED BY <2>3, <2>4, <3>1
  <2> QED BY <2>1, <2>2, <2>5 DEF SteadyInv, Inherits
<1> QED BY <1>1, <1>2

\* What the steps of a draft make of it.
LEMMA DraftEdits ==
    ASSUME NEW d \in Draft
    PROVE  /\ \A b \in Snapshot, v \in Values : \E n \in Draft :
                /\ n = [d EXCEPT !.base = b, !.original = v, !.conflict = FALSE, !.error = FALSE]
                /\ n.base = b /\ n.pending = d.pending
           /\ \A v \in Values : \E n \in Draft :
                n = [d EXCEPT !.value = v, !.error = FALSE] /\ n.base = d.base /\ n.pending = d.pending
           /\ \A p \in BOOLEAN : \E n \in Draft :
                n = [d EXCEPT !.again = TRUE, !.closing = p] /\ n.base = d.base /\ n.pending = d.pending
           /\ \A p \in BOOLEAN : \E n \in Draft : n = Submitted(d, p) /\ n.base = d.base /\ n.pending
<1>1. ASSUME NEW b \in Snapshot, NEW v \in Values
      PROVE  LET n == [d EXCEPT !.base = b, !.original = v, !.conflict = FALSE, !.error = FALSE]
             IN  n \in Draft /\ n.base = b /\ n.pending = d.pending
  BY DEF Draft
<1>2. ASSUME NEW v \in Values
      PROVE  LET n == [d EXCEPT !.value = v, !.error = FALSE] IN n \in Draft /\ n.base = d.base /\ n.pending = d.pending
  BY DEF Draft
<1>3. ASSUME NEW p \in BOOLEAN
      PROVE  LET n == [d EXCEPT !.again = TRUE, !.closing = p] IN n \in Draft /\ n.base = d.base /\ n.pending = d.pending
  BY DEF Draft
<1>4. ASSUME NEW p \in BOOLEAN PROVE Submitted(d, p) \in Draft /\ Submitted(d, p).base = d.base /\ Submitted(d, p).pending
  BY DEF Draft, Submitted
<1>5. \A b \in Snapshot, v \in Values : \E n \in Draft :
        /\ n = [d EXCEPT !.base = b, !.original = v, !.conflict = FALSE, !.error = FALSE]
        /\ n.base = b /\ n.pending = d.pending
  BY ONLY <1>1
<1>6. \A v \in Values : \E n \in Draft :
        n = [d EXCEPT !.value = v, !.error = FALSE] /\ n.base = d.base /\ n.pending = d.pending
  BY ONLY <1>2
<1>7. \A p \in BOOLEAN : \E n \in Draft :
        n = [d EXCEPT !.again = TRUE, !.closing = p] /\ n.base = d.base /\ n.pending = d.pending
  BY ONLY <1>3
<1>8. \A p \in BOOLEAN : \E n \in Draft : n = Submitted(d, p) /\ n.base = d.base /\ n.pending
  BY ONLY <1>4
<1> QED BY ONLY <1>5, <1>6, <1>7, <1>8

\* The steps of the fields edited in place.
LEMMA DraftingStep == SteadyInv /\ Drafting => SteadyInv' /\ Inherits
<1> SUFFICES ASSUME SteadyInv, NEW f \in Inline,
                    \/ OpenDraft(f) \/ Keep(f) \/ Discard(f)
                    \/ \E v \in Values : Input(f, v)
                    \/ \E close \in BOOLEAN : Commit(f, close)
             PROVE  SteadyInv' /\ Inherits
  BY DEF Drafting
<1>0. /\ EditorTypes /\ shown \in Snapshot /\ shown.val[f] \in Values
      /\ f \in Fields /\ f # "panel" /\ f \notin {"form", "delete", "undo"} /\ f \in Senders
  BY EditingAssumption DEF SteadyInv, EditingTypes, StoreTypes, Snapshot, Inline, Senders
<1>1. UNCHANGED <<server, shown, turn, undo, panel, form>>
  BY DEF OpenDraft, Keep, Discard, Input, Commit, Page
\* The draft becomes d, or is closed.
<1>2. ASSUME NEW d \in Draft \cup {None}, drafts' = [drafts EXCEPT ![f] = d],
             d # None => d.base = shown \/ (drafts[f] # None /\ d.base = drafts[f].base),
             drafts[f] # None /\ drafts[f].pending => d # None /\ d.pending
      PROVE  /\ EditorTypes'
             /\ \A from \in Senders : Awaited(from) => Awaited(from)'
             /\ \A g \in Inline : drafts'[g] # None =>
                  drafts'[g].base = shown \/ (drafts[g] # None /\ drafts'[g].base = drafts[g].base)
  <2>1. EditorTypes'
    BY <1>0, <1>1, <1>2 DEF EditorTypes
  <2>2. drafts'[f] = d /\ \A g \in Inline \ {f} : drafts'[g] = drafts[g]
    BY <1>0, <1>2 DEF EditorTypes
  <2> QED BY <1>1, <1>2, <2>1, <2>2 DEF Awaited
<1>3. ASSUME NEW d \in Draft \cup {None}, drafts' = [drafts EXCEPT ![f] = d], UNCHANGED queue,
             d # None => d.base = shown \/ (drafts[f] # None /\ d.base = drafts[f].base),
             drafts[f] # None /\ drafts[f].pending => d # None /\ d.pending
      PROVE  SteadyInv' /\ Inherits
  BY <1>1, <1>2, <1>3, EditStep
<1>4. CASE OpenDraft(f)
  <2> DEFINE d == [open |-> TRUE, value |-> shown.val[f], original |-> shown.val[f], base |-> shown,
                   pending |-> FALSE, again |-> FALSE, closing |-> FALSE, error |-> FALSE, conflict |-> FALSE]
  <2>1. d \in Draft /\ d.base = shown
    BY <1>0 DEF Draft
  <2>2. drafts' = [drafts EXCEPT ![f] = d] /\ drafts[f] = None /\ UNCHANGED queue
    BY <1>4 DEF OpenDraft
  <2> HIDE DEF d
  <2> QED BY <1>3, <2>1, <2>2
<1>5. CASE drafts[f] = None
  <2>1. OpenDraft(f)
    BY <1>5 DEF Keep, Discard, Input, Commit
  <2> QED BY <1>4, <2>1
<1>6. ASSUME NEW d \in Draft, d = drafts[f], d # None, ~OpenDraft(f)
      PROVE  SteadyInv' /\ Inherits
  <2>1. CASE Keep(f)
    <3>1. /\ drafts' = [drafts EXCEPT ![f] = [d EXCEPT !.base = shown, !.original = shown.val[f],
                                                       !.conflict = FALSE, !.error = FALSE]]
          /\ UNCHANGED queue
      BY <1>6, <2>1 DEF Keep
    <3>2. PICK n \in Draft : /\ n = [d EXCEPT !.base = shown, !.original = shown.val[f], !.conflict = FALSE, !.error = FALSE]
                             /\ n.base = shown /\ n.pending = d.pending
      <4>1. \A b \in Snapshot, v \in Values : \E n \in Draft :
              /\ n = [d EXCEPT !.base = b, !.original = v, !.conflict = FALSE, !.error = FALSE]
              /\ n.base = b /\ n.pending = d.pending
        BY DraftEdits
      <4>2. shown \in Snapshot /\ shown.val[f] \in Values
        BY <1>0
      <4> QED BY ONLY <4>1, <4>2
    <3>3. n # None
      BY DraftTypes, <1>0
    <3> QED BY <1>3, <1>6, <3>1, <3>2, <3>3
  <2>2. CASE Discard(f)
    BY <1>3, <1>6, <2>2 DEF Discard
  <2>3. ASSUME NEW v \in Values, Input(f, v) PROVE SteadyInv' /\ Inherits
    <3>1. PICK n \in Draft : n = [d EXCEPT !.value = v, !.error = FALSE] /\ n.base = d.base /\ n.pending = d.pending
      BY <1>0, DraftEdits
    <3>2. drafts' = [drafts EXCEPT ![f] = n] /\ UNCHANGED queue
      BY <1>0, <1>6, <2>3, <3>1 DEF Input, EditorTypes
    <3>3. n # None
      BY DraftTypes, <1>0
    <3> QED BY <1>3, <1>6, <3>1, <3>2, <3>3
  <2>4. ASSUME NEW close \in BOOLEAN, Commit(f, close) PROVE SteadyInv' /\ Inherits
    <3>1. CASE /\ d.pending /\ drafts' = [drafts EXCEPT ![f].again = TRUE, ![f].closing = close] /\ UNCHANGED queue
      <4>1. PICK n \in Draft : n = [d EXCEPT !.again = TRUE, !.closing = close] /\ n.base = d.base /\ n.pending = d.pending
        BY <1>0, DraftEdits
      <4>2. drafts' = [drafts EXCEPT ![f] = n]
        BY <1>0, <1>6, <3>1, <4>1 DEF EditorTypes
      <4>3. n # None
        BY DraftTypes, <1>0
      <4> QED BY <1>3, <1>6, <3>1, <4>1, <4>2, <4>3
    <3>2. CASE ~d.pending /\ drafts' = [drafts EXCEPT ![f] = None] /\ UNCHANGED queue
      BY <1>3, <1>6, <3>2
    <3>3. CASE /\ ~d.pending /\ drafts' = [drafts EXCEPT ![f] = Submitted(d, close)]
               /\ queue' = Append(queue, Request(f, d.base, Restrict1(f, d.value)))
      <4>1. PICK n \in Draft : n = Submitted(d, close) /\ n.base = d.base /\ n.pending
        BY <1>0, DraftEdits
      <4>2. n # None
        BY DraftTypes, <1>0
      <4>3. PICK r \in Requests : /\ r = Request(f, d.base, Restrict1(f, d.value)) /\ OfField(r)
                                  /\ r.base = d.base /\ r.from = f
        BY FieldRequest DEF Draft
      <4>4. /\ EditorTypes'
            /\ \A from \in Senders : Awaited(from) => Awaited(from)'
            /\ \A g \in Inline : drafts'[g] # None =>
                 drafts'[g].base = shown \/ (drafts[g] # None /\ drafts'[g].base = drafts[g].base)
        BY <1>2, <1>6, <3>3, <4>1, <4>2
      <4>5. ~Awaited(r.from)
        BY <1>6, <3>3, <4>3 DEF Awaited
      <4>6. Awaited(r.from)'
        <5>1. drafts'[f] = n
          BY <1>0, <3>3, <4>1 DEF EditorTypes
        <5> QED BY <1>0, <4>1, <4>2, <4>3, <5>1 DEF Awaited
      <4>7. Held(r.base)
        BY <1>6, <4>3 DEF Held
      <4> QED BY <1>1, <3>3, <4>3, <4>4, <4>5, <4>6, <4>7, EditStep
    <3> QED BY <1>6, <2>4, <3>1, <3>2, <3>3 DEF Commit
  <2> QED BY <1>6, <2>1, <2>2, <2>3, <2>4
<1> QED BY <1>0, <1>4, <1>5, <1>6 DEF EditorTypes

\* The request of an editor other than a field's.
LEMMA OtherRequest ==
    ASSUME NEW from \in {"undo", "panel", "form", "delete"}, NEW base \in Snapshot, NEW p \in Patch,
           NEW relinks \in BOOLEAN
    PROVE  /\ Asked(from, base, p, relinks) \in Requests /\ OfField(Asked(from, base, p, relinks))
           /\ Asked(from, base, p, relinks).base = base /\ Asked(from, base, p, relinks).from = from
<1>1. from \in Senders /\ from \notin Fields
  BY EditingAssumption DEF Senders
<1> QED BY <1>1 DEF Asked, Requests, OfField

\* The panel of a record, and the form of its fields, while they are open.
PanelOf == [open : {TRUE}, wiki : BOOLEAN, base : Snapshot, saving : BOOLEAN, stuck : BOOLEAN]
FormOf == [open : {TRUE}, base : Snapshot, saving : BOOLEAN]

\* The record that each open editor works on.
LEMMA EditorFacts ==
    ASSUME SteadyInv
    PROVE  /\ shown \in Snapshot /\ EditorTypes
           /\ undo # None => undo.base \in Snapshot /\ undo.fields \in Patch /\ Held(undo.base)
           /\ panel # None => panel \in PanelOf /\ panel.base \in Snapshot /\ Held(panel.base)
           /\ form # None => form \in FormOf /\ form.base \in Snapshot /\ Held(form.base)
  BY DEF SteadyInv, EditingTypes, EditorTypes, StoreTypes, PanelOf, FormOf, Held

\* The steps of the profile's undo, panel and wiki editor.
LEMMA ProfileStep == SteadyInv /\ Profile => SteadyInv' /\ Inherits
<1> SUFFICES ASSUME SteadyInv, Profile PROVE SteadyInv' /\ Inherits
  OBVIOUS
<1>0. EditorTypes /\ shown \in Snapshot
  BY EditorFacts
<1>1. CASE Undo
  <2>1. PICK r \in Requests : /\ r = Request("undo", undo.base, undo.fields) /\ OfField(r)
                              /\ r.base = undo.base /\ r.from = "undo"
    <3>1. undo.base \in Snapshot /\ undo.fields \in Patch
      BY <1>1, EditorFacts DEF Undo
    <3>2. Request("undo", undo.base, undo.fields) = Asked("undo", undo.base, undo.fields, FALSE)
      BY DEF Request
    <3>3. ASSUME NEW relinks \in BOOLEAN
          PROVE  LET r == Asked("undo", undo.base, undo.fields, relinks)
                 IN  r \in Requests /\ OfField(r) /\ r.base = undo.base /\ r.from = "undo"
      BY <3>1, OtherRequest
    <3> QED BY <3>2, <3>3
  <2>2. /\ undo # None /\ undo' = None /\ queue' = Append(queue, r) /\ UNCHANGED <<server, shown, turn, drafts, panel, form>>
    BY <1>1, <2>1 DEF Undo
  <2>3. EditorTypes' /\ \A from \in Senders : Awaited(from) => Awaited(from)'
    BY <1>0, <2>2 DEF EditorTypes, Awaited
  <2>4. Awaited(r.from)' /\ Held(r.base)
    BY <2>1, <2>2, EditorFacts, EditingAssumption DEF Awaited, Inline
  <2> QED BY <2>1, <2>2, <2>3, <2>4, EditStep
\* The panel becomes p, or is closed.
<1>2. ASSUME NEW p \in PanelOf \cup {None}, panel' = p, UNCHANGED <<server, shown, turn, drafts, undo, form>>,
             panel # None /\ panel.saving => p # None /\ p.saving,
             p # None => p.base = shown \/ (panel # None /\ p.base = panel.base),
             \/ queue' = queue
             \/ /\ panel # None /\ ~panel.saving /\ p # None /\ p.saving
                /\ \E r \in Requests : OfField(r) /\ Held(r.base) /\ queue' = Append(queue, r) /\ r.from = "panel"
      PROVE  SteadyInv' /\ Inherits
  <2>1. EditorTypes' /\ \A from \in Senders : Awaited(from) => Awaited(from)'
    BY <1>0, <1>2 DEF EditorTypes, PanelOf, Awaited
  <2>2. CASE queue' = queue
    BY <1>2, <2>1, <2>2, EditStep
  <2>3. CASE queue' # queue
    <3>1. PICK r \in Requests : OfField(r) /\ Held(r.base) /\ queue' = Append(queue, r) /\ r.from = "panel"
      BY <1>2, <2>3
    <3>2. Awaited(r.from)' /\ ~Awaited(r.from)
      BY <1>2, <2>3, <3>1, EditingAssumption DEF Awaited, Inline
    <3> QED BY <1>2, <2>1, <3>1, <3>2, EditStep
  <2> QED BY <2>2, <2>3
<1>3. ASSUME NEW wiki \in BOOLEAN, OpenPanel(wiki) PROVE SteadyInv' /\ Inherits
  <2>1. PICK p \in PanelOf : p = [open |-> TRUE, wiki |-> wiki, base |-> shown, saving |-> FALSE, stuck |-> FALSE]
                             /\ p.base = shown
    <3>1. [open |-> TRUE, wiki |-> wiki, base |-> shown, saving |-> FALSE, stuck |-> FALSE] \in PanelOf
      BY <1>0 DEF PanelOf
    <3> QED BY <3>1
  <2> QED BY <1>2, <1>3, <2>1 DEF OpenPanel
<1>4. ASSUME NEW p \in Patch, NEW relinks \in BOOLEAN, panel # None, ~panel.saving,
             panel' = [panel EXCEPT !.saving = TRUE],
             queue' = Append(queue, Asked("panel", panel.base, p, relinks)),
             UNCHANGED <<server, shown, turn, drafts, undo, form>>
      PROVE  SteadyInv' /\ Inherits
  <2>1. panel \in PanelOf /\ panel.base \in Snapshot /\ Held(panel.base)
    BY <1>4, EditorFacts
  <2>2. PICK n \in PanelOf : n = [panel EXCEPT !.saving = TRUE] /\ n.base = panel.base /\ n.saving /\ n # None
    <3>1. /\ [panel EXCEPT !.saving = TRUE] \in PanelOf /\ [panel EXCEPT !.saving = TRUE].base = panel.base
          /\ [panel EXCEPT !.saving = TRUE].saving /\ [panel EXCEPT !.saving = TRUE].open /\ ~None.open
      BY ONLY <2>1 DEF PanelOf, None
    <3> QED BY ONLY <3>1
  <2>3. PICK r \in Requests : /\ r = Asked("panel", panel.base, p, relinks) /\ OfField(r)
                              /\ r.base = panel.base /\ r.from = "panel"
    BY <2>1, OtherRequest
  <2> QED BY <1>2, <1>4, <2>1, <2>2, <2>3
<1>5. ASSUME NEW v \in Values, SavePanel(v) PROVE SteadyInv' /\ Inherits
  <2>1. Restrict1(PanelField, v) \in Patch
    BY Patches, EditingAssumption
  <2> QED BY <1>4, <1>5, <2>1 DEF SavePanel, Request
<1>6. CASE SaveLinks
  BY <1>4, <1>6, Patches DEF SaveLinks
<1>7. CASE ClosePanel
  BY <1>2, <1>7 DEF ClosePanel
<1> QED BY <1>1, <1>3, <1>5, <1>6, <1>7 DEF Profile

\* The steps of the full form, and leaving the page.
LEMMA FormStep == SteadyInv /\ Form => SteadyInv' /\ Inherits
<1> SUFFICES ASSUME SteadyInv, Form PROVE SteadyInv' /\ Inherits
  OBVIOUS
<1>0. EditorTypes /\ shown \in Snapshot
  BY EditorFacts
\* The form becomes p, or is closed.
<1>1. ASSUME NEW p \in FormOf \cup {None}, form' = p, UNCHANGED <<server, shown, turn, drafts, panel>>,
             undo' = undo \/ undo' = None,
             form # None /\ form.saving => p # None /\ p.saving,
             p # None => p.base = shown \/ (form # None /\ p.base = form.base),
             \/ queue' = queue
             \/ /\ form # None /\ ~form.saving /\ p # None /\ p.saving
                /\ \E r \in Requests : /\ OfField(r) /\ Held(r.base) /\ queue' = Append(queue, r)
                                       /\ r.from \in {"form", "delete"}
      PROVE  SteadyInv' /\ Inherits
  <2>1. EditorTypes' /\ \A from \in Senders : Awaited(from) => Awaited(from)'
    BY <1>0, <1>1 DEF EditorTypes, FormOf, Awaited
  <2>2. CASE queue' = queue
    BY <1>1, <2>1, <2>2, EditStep
  <2>3. CASE queue' # queue
    <3>1. PICK r \in Requests : /\ OfField(r) /\ Held(r.base) /\ queue' = Append(queue, r)
                                /\ r.from \in {"form", "delete"}
      BY <1>1, <2>3
    <3>2. Awaited(r.from)' /\ ~Awaited(r.from)
      BY <1>1, <2>3, <3>1, EditingAssumption DEF Awaited, Inline
    <3> QED BY <1>1, <2>1, <3>1, <3>2, EditStep
  <2> QED BY <2>2, <2>3
<1>2. CASE OpenForm
  <2>1. PICK p \in FormOf : p = [open |-> TRUE, base |-> shown, saving |-> FALSE] /\ p.base = shown
    <3>1. [open |-> TRUE, base |-> shown, saving |-> FALSE] \in FormOf
      BY <1>0 DEF FormOf
    <3> QED BY <3>1
  <2> QED BY <1>1, <1>2, <2>1 DEF OpenForm
<1>3. ASSUME NEW from \in {"form", "delete"}, NEW p \in Patch, NEW relinks \in BOOLEAN, form # None, ~form.saving,
             form' = [form EXCEPT !.saving = TRUE],
             queue' = Append(queue, Asked(from, form.base, p, relinks)),
             UNCHANGED <<server, shown, turn, drafts, undo, panel>>
      PROVE  SteadyInv' /\ Inherits
  <2>1. form \in FormOf /\ form.base \in Snapshot /\ Held(form.base)
    BY <1>3, EditorFacts
  <2>2. PICK n \in FormOf : n = [form EXCEPT !.saving = TRUE] /\ n.base = form.base /\ n.saving /\ n # None
    <3>1. /\ [form EXCEPT !.saving = TRUE] \in FormOf /\ [form EXCEPT !.saving = TRUE].base = form.base
          /\ [form EXCEPT !.saving = TRUE].saving /\ [form EXCEPT !.saving = TRUE].open /\ ~None.open
      BY ONLY <2>1 DEF FormOf, None
    <3> QED BY ONLY <3>1
  <2>3. PICK r \in Requests : /\ r = Asked(from, form.base, p, relinks) /\ OfField(r)
                              /\ r.base = form.base /\ r.from = from
    BY <2>1, OtherRequest
  <2> QED BY <1>1, <1>3, <2>1, <2>2, <2>3
<1>4. ASSUME NEW val \in [Fields -> Values], NEW relinks \in BOOLEAN, SaveForm(val, relinks)
      PROVE  SteadyInv' /\ Inherits
  <2> DEFINE S == {f \in Fields : val[f] # form.base.val[f]}
  <2>1. [f \in S |-> val[f]] \in Patch
    <3>1. S \in SUBSET Fields /\ [f \in S |-> val[f]] \in [S -> Values]
      OBVIOUS
    <3> HIDE DEF S
    <3> QED BY <3>1, Patches
  <2>2. /\ form # None /\ ~form.saving /\ form' = [form EXCEPT !.saving = TRUE]
        /\ queue' = Append(queue, Asked("form", form.base, [f \in S |-> val[f]], relinks))
        /\ UNCHANGED <<server, shown, turn, drafts, undo, panel>>
    BY <1>4 DEF SaveForm
  <2> HIDE DEF S
  <2> QED BY <1>3, <2>1, <2>2
<1>5. CASE DeleteRecord
  BY <1>3, <1>5, Patches DEF DeleteRecord, Request
<1>6. CASE CloseForm
  BY <1>1, <1>6 DEF CloseForm
<1>7. CASE LeavePage
  <2>1. /\ drafts' = [f \in Inline |-> None] /\ undo' = None /\ panel' = None /\ form' = None
        /\ queue' = <<>> /\ UNCHANGED <<server, shown>>
        /\ turn' = IF Busy THEN [turn EXCEPT !.req.from = "nobody"] ELSE turn
    BY <1>7 DEF LeavePage
  <2>2. \A i \in DOMAIN queue' : FALSE
    BY <2>1
  <2>3. CASE Busy
    <3>1. turn \in Turns /\ turn.req \in Requests
      BY <2>3, Sending DEF SteadyInv
    <3>2. PICK r \in Requests : r = [turn.req EXCEPT !.from = "nobody"] /\ r.from = "nobody" /\ r.base = turn.req.base
      <4>1. [turn.req EXCEPT !.from = "nobody"] \in Requests
        BY ONLY <3>1 DEF Requests, Senders
      <4>2. /\ [turn.req EXCEPT !.from = "nobody"].from = "nobody"
            /\ [turn.req EXCEPT !.from = "nobody"].base = turn.req.base
        BY ONLY <3>1 DEF Requests, Senders
      <4> QED BY <4>1, <4>2
    <3>3. turn' = [turn EXCEPT !.req = r]
      BY <2>1, <2>3, <3>1, <3>2 DEF Turns
    <3>4. turn' \in Turns /\ turn'.req = r
      BY ONLY <3>1, <3>3, r \in Requests DEF Turns
    <3>5. Busy'
      BY <3>4 DEF Busy, Turns, NoTurn
    <3>6. OfField(r) /\ r.from \notin Inline /\ r.from \notin {"panel", "form", "delete"}
      BY <3>2, EditingAssumption DEF OfField, Inline
    <3>7. EditingTypes'
      BY <2>1, <3>4 DEF EditingTypes, StoreTypes, WriteTypes, EditorTypes, SteadyInv
    <3>8. SaveInv'
      <4>1. PICK t : t = turn'
        OBVIOUS
      <4>2. Awaited(r.from)'
        BY <3>6 DEF Awaited
      <4> QED BY <2>2, <3>4, <3>6, <4>1, <4>2 DEF SaveInv, OfField, Awaited
    <3>9. Inherits
      BY <2>1, <2>2, <2>3, <3>2, <3>4 DEF Inherits, Held
    <3> QED BY <3>7, <3>8, <3>9 DEF SteadyInv
  <2>4. CASE ~Busy
    <3>1. turn' = turn
      BY <2>1, <2>4
    <3>2. EditingTypes'
      BY <2>1, <3>1 DEF EditingTypes, StoreTypes, WriteTypes, EditorTypes, SteadyInv
    <3>3. SaveInv'
      BY <2>2, <2>4, <3>1 DEF SaveInv, Busy
    <3>4. Inherits
      BY <2>1, <2>2, <2>4, <3>1 DEF Inherits, Held, Busy
    <3> QED BY <3>2, <3>3, <3>4 DEF SteadyInv
  <2> QED BY <2>3, <2>4
<1> QED BY <1>2, <1>4, <1>5, <1>6, <1>7 DEF Form

\* Every step.
LEMMA SteadyStep == SteadyInv /\ [Next]_vars => SteadyInv' /\ Inherits
  BY WritingStep, OthersStep, DraftingStep, ProfileStep, FormStep DEF Next

-----------------------------------------------------------------------------
(* What the author of a write saw.                                         *)

\* The stored record keeps its values with its revision, or gets the next revision.
LEMMA ServerMoves ==
    ASSUME SteadyInv, [Next]_vars
    PROVE  /\ server \in Snapshot /\ server' \in Snapshot
           /\ \/ server'.rev = server.rev /\ server'.val = server.val
              \/ server'.rev = server.rev + 1
<1>1. server \in Snapshot /\ server' \in Snapshot
  BY SteadyStep DEF SteadyInv, EditingTypes, StoreTypes
<1>2. CASE server' = server
  BY <1>1, <1>2
<1>3. CASE Commits
  BY <1>1, <1>3, CommitTypes
<1>4. ASSUME NEW f \in Fields, NEW v \in Values, OthersWrite(f, v) PROVE server'.rev = server.rev + 1
  BY <1>1, <1>4 DEF OthersWrite, Snapshot
<1>5. CASE OthersRelink
  BY <1>1, <1>5 DEF OthersRelink, Snapshot
<1>6. CASE OthersDelete
  BY <1>1, <1>6 DEF OthersDelete, Snapshot
<1>7. \/ server' = server \/ Commits \/ OthersRelink \/ OthersDelete
      \/ \E f \in Fields, v \in Values : OthersWrite(f, v)
  <2>1. Writing => server' = server \/ Commits
    BY DEF Writing, RefuseTurn, FindStale, SendWrite, ServerCommits, ServerConflicts, RequestFails, ReadBack
  <2>2. Drafting \/ Profile \/ Form \/ UNCHANGED vars => server' = server
    BY DEF Drafting, OpenDraft, Keep, Discard, Input, Commit, Page, Profile, Undo, OpenPanel, SavePanel, SaveLinks,
           ClosePanel, Form, OpenForm, SaveForm, DeleteRecord, CloseForm, LeavePage, vars
  <2> QED BY <2>1, <2>2 DEF Next, Others, Refresh
<1> QED BY <1>1, <1>2, <1>3, <1>4, <1>5, <1>6, <1>7

\* Two turns that write the same record over the same one.
SameWrite(t, u) ==
    /\ t.phase = u.phase /\ t.expected = u.expected /\ t.link = u.link /\ t.put = u.put
    /\ t.req.base = u.req.base /\ t.req.relinks = u.req.relinks

\* A turn begins, is answered by the server, ends, or stays the same write.
LEMMA TurnMoves ==
    ASSUME SteadyInv, [Next]_vars
    PROVE  \/ turn' = NoTurn
           \/ Busy /\ SameWrite(turn', turn)
           \/ SendWrite
           \/ ServerCommits
<1>1. CASE Writing
  BY <1>1 DEF Writing, RefuseTurn, FindStale, NextRequest, ServerConflicts, RequestFails, ReadBack
<1>2. CASE turn' = turn
  BY <1>2 DEF Busy, SameWrite
<1>3. CASE LeavePage
  <2>1. ~Busy => turn' = turn
    BY <1>3 DEF LeavePage
  <2>2. ASSUME Busy PROVE SameWrite(turn', turn)
    <3>1. turn \in Turns /\ turn.req \in Requests /\ turn' = [turn EXCEPT !.req.from = "nobody"]
      BY <1>3, <2>2, Sending DEF LeavePage, SteadyInv
    <3> QED BY <3>1 DEF SameWrite, Turns, Requests
  <2> QED BY <1>2, <2>1, <2>2
<1>4. Others \/ Drafting \/ Profile \/ Form \/ UNCHANGED vars => turn' = turn \/ LeavePage
  BY DEF Others, OthersWrite, OthersRelink, OthersDelete, Refresh, Elsewhere,
         Drafting, OpenDraft, Keep, Discard, Input, Commit, Page, Profile, Undo, OpenPanel, SavePanel, SaveLinks,
         ClosePanel, Form, OpenForm, SaveForm, DeleteRecord, CloseForm, vars
<1> QED BY <1>1, <1>2, <1>3, <1>4 DEF Next

\* A write that is sent changes only the fields whose value its editor started from.
LEMMA PreparedIsSeen ==
    ASSUME SteadyInv, Agreement, NEW req \in Requests, Held(req.base), ~Stale(req), NEW g \in Fields,
           Prepared(req)[g] # shown.val[g]
    PROVE  shown.val[g] = req.base.val[g]
<1>1. shown \in Snapshot /\ req.base \in Snapshot /\ Held(shown)
  BY DEF SteadyInv, EditingTypes, StoreTypes, Requests, Held
<1>2. CASE req.from \in {"form", "delete"}
  <2>1. req.base.rev = shown.rev
    BY <1>2 DEF Stale
  <2> QED BY <1>1, <2>1 DEF Agreement
<1>3. CASE req.from \notin {"form", "delete"}
  <2>1. \A h \in PatchKeys(DOMAIN req.fields) : req.base.val[h] = shown.val[h]
    BY <1>3 DEF Stale
  <2>2. g \in DOMAIN req.fields \/ Reset(req, g)
    BY DEF Prepared
  <2>3. g \in PatchKeys(DOMAIN req.fields)
    BY <2>2 DEF PatchKeys, Reset
  <2> QED BY <2>1, <2>3
<1> QED BY <1>2, <1>3

\* At first everybody holds the one record there is.
LEMMA SeenInit == Init => SeenInv
<1> SUFFICES ASSUME Init PROVE SeenInv
  OBVIOUS
<1>1. server = shown /\ server.rev = 1 /\ turn = NoTurn /\ undo = None /\ panel = None /\ form = None
      /\ drafts = [f \in Inline |-> None] /\ queue = <<>>
  BY DEF Init
<1>2. \A i \in DOMAIN queue : FALSE
  BY <1>1
<1>3. \A s \in Snapshot : Held(s) => s = server
  BY <1>1, <1>2 DEF Held, Busy
<1> QED BY <1>1, <1>3 DEF SeenInv, Agreement, SentIsSeen, WrittenIsStored, NoTurn

\* Every step keeps revisions and records together.
LEMMA SeenStep == SteadyInv /\ SeenInv /\ [Next]_vars => SeenInv'
<1> SUFFICES ASSUME SteadyInv, SeenInv, [Next]_vars PROVE SeenInv'
  OBVIOUS
<1>0. SteadyInv' /\ Inherits
  BY SteadyStep
<1>1. /\ server \in Snapshot /\ server' \in Snapshot /\ server.rev \in Nat /\ server'.rev \in Nat
      /\ \A s \in Snapshot : s.rev \in Nat
  BY ServerMoves DEF Snapshot
<1>2. (server'.rev = server.rev /\ server'.val = server.val) \/ server'.rev = server.rev + 1
  BY ServerMoves
<1>3. Held(server)
  BY DEF Held
\* What is held afterwards was held before, or is the record just stored.
<1>4. ASSUME NEW s \in Snapshot, Held(s)'
      PROVE  \/ Held(s)
             \/ /\ s.rev = server'.rev /\ s.val = server'.val
                /\ server'.rev = server.rev => s.val = server.val /\ s.rev = server.rev
  BY <1>0, <1>1, <1>2, <1>4 DEF Inherits
<1>5. Agreement'
  <2>1. ASSUME NEW s \in Snapshot, Held(s)' PROVE s.rev <= server'.rev
    BY <1>1, <1>2, <1>4, <2>1 DEF SeenInv, Agreement
  <2>2. ASSUME NEW s \in Snapshot, NEW t \in Snapshot, Held(s)', Held(t)', s.rev = t.rev PROVE s.val = t.val
    <3>1. CASE server'.rev = server.rev
      BY <1>1, <1>3, <1>4, <2>2, <3>1 DEF SeenInv, Agreement
    <3>2. CASE server'.rev = server.rev + 1
      <4>1. \A u \in Snapshot : Held(u) => u.rev <= server.rev
        BY DEF SeenInv, Agreement
      <4>2. \A u \in Snapshot : Held(u) => u.rev # server'.rev
        BY ONLY <1>1, <3>2, <4>1
      <4> QED BY <1>4, <2>2, <4>2 DEF SeenInv, Agreement
    <3> QED BY <1>2, <3>1, <3>2
  <2> QED BY <2>1, <2>2 DEF Agreement
<1>6. SentIsSeen' /\ WrittenIsStored'
  <2>1. CASE turn' = NoTurn
    BY <2>1 DEF SentIsSeen, WrittenIsStored, NoTurn
  <2>2. CASE Busy /\ SameWrite(turn', turn)
    <3>1. turn \in Turns /\ turn.expected \in Nat
      BY <2>2, Sending DEF SteadyInv, Turns
    <3>2. SentIsSeen'
      BY <1>1, <1>2, <2>2, <3>1 DEF SeenInv, SentIsSeen, SameWrite
    <3>3. WrittenIsStored'
      <4> SUFFICES ASSUME turn.phase = "written"
                   PROVE  /\ turn.expected <= server'.rev
                          /\ \A s \in Snapshot : Held(s)' /\ s.rev = turn.expected => s.val = turn.put
        BY <2>2 DEF SameWrite, WrittenIsStored
      <4>1. turn.expected <= server.rev /\ \A s \in Snapshot : Held(s) /\ s.rev = turn.expected => s.val = turn.put
        BY DEF SeenInv, WrittenIsStored
      <4>2. ASSUME NEW s \in Snapshot, Held(s)', s.rev = turn.expected PROVE s.val = turn.put
        <5>1. CASE Held(s)
          BY <4>1, <4>2, <5>1
        <5>2. CASE ~Held(s)
          <6>1. server'.rev = server.rev
            BY <1>1, <1>2, <1>4, <3>1, <4>1, <4>2, <5>2
          <6> QED BY <1>1, <1>3, <1>4, <4>1, <4>2, <5>2, <6>1
        <5> QED BY <5>1, <5>2
      <4> QED BY <1>1, <1>2, <3>1, <4>1, <4>2
    <3> QED BY <3>2, <3>3
  <2>3. CASE SendWrite
    <3>1. PICK req \in Requests : req = Head(queue) /\ queue # <<>> /\ ~Stale(req) /\ Held(req.base)
      <4>1. queue # <<>> /\ queue \in Seq(Requests) /\ ~Stale(Head(queue))
        BY <2>3 DEF SendWrite, NextRequest, SteadyInv, EditingTypes, WriteTypes
      <4>2. 1 \in DOMAIN queue /\ queue[1] = Head(queue) /\ Head(queue) \in Requests
        BY <4>1, Taken
      <4> QED BY <4>1, <4>2 DEF Held
    <3>2. /\ turn' = [phase |-> "sent", req |-> req, expected |-> shown.rev, link |-> shown.link,
                      put |-> Prepared(req), live |-> req.from # "delete"]
          /\ server' = server
      BY <2>3, <3>1 DEF SendWrite
    <3>3. shown \in Snapshot /\ Held(shown) /\ shown.rev <= server.rev
      BY DEF Held, SeenInv, Agreement, SteadyInv, EditingTypes, StoreTypes
    <3>4. shown.rev = server.rev => shown.val = server.val
      BY <1>1, <1>3, <3>3 DEF SeenInv, Agreement
    <3>5. \A g \in Fields : Prepared(req)[g] # shown.val[g] => shown.val[g] = req.base.val[g]
      BY <3>1, PreparedIsSeen DEF SeenInv
    <3>6. req.relinks => shown.link = req.base.link
      BY <3>1 DEF Stale
    <3> QED BY <3>2, <3>3, <3>4, <3>5, <3>6 DEF SentIsSeen, WrittenIsStored
  <2>4. CASE ServerCommits
    <3>1. turn \in Turns /\ server'.rev = server.rev + 1 /\ server'.val = turn.put
      BY <2>4, CommitTypes DEF ServerCommits
    <3>2. turn'.phase = "written" /\ turn'.expected = server'.rev /\ turn'.put = turn.put
      BY <2>4, <3>1 DEF ServerCommits, Turns
    <3>3. \A s \in Snapshot : Held(s)' /\ s.rev = server'.rev => s.val = turn.put
      <4>1. \A u \in Snapshot : Held(u) => u.rev <= server.rev
        BY DEF SeenInv, Agreement
      <4>2. \A u \in Snapshot : Held(u) => u.rev # server'.rev
        BY ONLY <1>1, <3>1, <4>1
      <4> QED BY <1>4, <3>1, <4>2
    <3> QED BY <1>1, <3>2, <3>3 DEF SentIsSeen, WrittenIsStored
  <2> QED BY <2>1, <2>2, <2>3, <2>4, TurnMoves
<1> QED BY <1>5, <1>6 DEF SeenInv

\* Nothing the author did not see is overwritten, for any fields, values and resets: a write
\* that the server takes, whether its answer arrives or not, changes only what its editor
\* started from, rebased on or was told about (campaign-write-handlers.ts, the patch review).
THEOREM NothingUnseenIsOverwritten == Spec => NoBlindOverwrite
<1> DEFINE Inv == SteadyInv /\ SeenInv
<1>1. Init => Inv
  BY EditingInit, SeenInit DEF SteadyInv
<1>2. Inv /\ [Next]_vars => Inv'
  BY SteadyStep, SeenStep
<1>3. Inv /\ [Next]_vars =>
        [Busy /\ turn.phase = "sent" /\ turn' # turn /\ server' # server =>
           /\ \A f \in Fields : server'.val[f] # server.val[f] => server.val[f] = turn.req.base.val[f]
           /\ server'.link # server.link => server.link = turn.req.base.link]_vars
  <2> SUFFICES ASSUME Inv, [Next]_vars, Busy, turn.phase = "sent", turn' # turn, server' # server
               PROVE  /\ \A f \in Fields : server'.val[f] # server.val[f] => server.val[f] = turn.req.base.val[f]
                      /\ server'.link # server.link => server.link = turn.req.base.link
    OBVIOUS
  <2>1. Commits
    BY DEF Next, vars, Writing, RefuseTurn, FindStale, SendWrite, NextRequest, ServerCommits, ServerConflicts, RequestFails,
         ReadBack, Busy, Others, OthersWrite, OthersRelink, OthersDelete, Refresh, Elsewhere,
         Drafting, OpenDraft, Keep, Discard, Input, Commit, Page, Profile, Undo, OpenPanel, SavePanel, SaveLinks,
         ClosePanel, Form, OpenForm, SaveForm, DeleteRecord, CloseForm, LeavePage
  <2>2. turn.expected = server.rev /\ server'.val = turn.put
    BY <2>1, CommitTypes
  <2>3. \A f \in Fields : server'.val[f] # server.val[f] => server.val[f] = turn.req.base.val[f]
    BY <2>2 DEF SeenInv, SentIsSeen
  <2>4. server'.link # server.link => server.link = turn.req.base.link
    BY <2>1 DEF Commits, Current, SeenInv, SentIsSeen
  <2> QED BY <2>3, <2>4
<1> QED BY <1>1, <1>2, <1>3, PTL DEF Spec, NoBlindOverwrite

\* A draft that its save closes shows what is stored: neither what another author wrote before
\* the campaign was read back, nor text that was typed while it was saved, is hidden by it.
THEOREM AClosedDraftIsShown == Spec => ClosedDraftsAreShown
<1> DEFINE Inv == SteadyInv /\ SeenInv
<1>1. Init => Inv
  BY EditingInit, SeenInit DEF SteadyInv
<1>2. Inv /\ [Next]_vars => Inv'
  BY SteadyStep, SeenStep
<1>3. Inv /\ [Next]_vars =>
        [\A f \in Inline :
           Busy /\ ~Busy' /\ turn.req.from = f /\ drafts'[f] = None
             => shown'.live /\ shown'.val[f] = drafts[f].value]_vars
  <2> SUFFICES ASSUME Inv, [Next]_vars, NEW f \in Inline, Busy, ~Busy', turn.req.from = f, drafts'[f] = None
               PROVE  shown'.live /\ shown'.val[f] = drafts[f].value
    OBVIOUS
  <2>1. turn \in Turns /\ turn.req \in Requests /\ turn' = NoTurn
    BY Sending DEF SteadyInv, Busy
  <2>2. ServerConflicts \/ RequestFails \/ ReadBack
    <3>1. CASE Writing
      <4>1. ~ServerCommits
        BY <2>1 DEF ServerCommits, Turns, NoTurn
      <4> QED BY <3>1, <4>1 DEF Writing, RefuseTurn, FindStale, SendWrite, NextRequest, Busy
    <3>2. ~LeavePage
      BY <2>1 DEF LeavePage, Turns, NoTurn
    <3> QED BY <3>1, <3>2 DEF Next, vars, Busy, Others, OthersWrite, OthersRelink, OthersDelete, Refresh, Elsewhere,
         Drafting, OpenDraft, Keep, Discard, Input, Commit, Page, Profile, Undo, OpenPanel, SavePanel, SaveLinks,
         ClosePanel, Form, OpenForm, SaveForm, DeleteRecord, CloseForm
  <2>3. PICK answer : Hear(answer, turn.req, queue) /\ (answer = "ok" => ReadBack /\ Includes /\ ~Overwritten)
    <3>1. CASE ServerConflicts \/ RequestFails
      BY <3>1 DEF ServerConflicts, RequestFails
    <3>2. CASE ReadBack
      <4>1. Hear(IF ~Includes THEN "failed" ELSE IF Overwritten THEN "conflict" ELSE "ok", turn.req, queue)
        BY <3>2 DEF ReadBack
      <4> QED BY <3>2, <4>1
    <3> QED BY <2>2, <3>1, <3>2
  <2>4. /\ OfField(turn.req) /\ turn.live /\ turn.put[f] = turn.req.fields[f]
        /\ DOMAIN turn.req.fields = {f}
    BY DEF SteadyInv, SaveInv, OfField, Inline
  <2>5. PICK d \in Draft : d = drafts[f]
    BY DEF SteadyInv, SaveInv, Awaited, EditingTypes, EditorTypes
  <2>6. DraftHears(f, answer, turn.req, queue)
    <3>1. f \notin {"undo", "panel", "form", "delete", "nobody"}
      BY EditingAssumption DEF Inline
    <3> QED BY <2>1, <2>3, <2>4, <3>1, HearCases
  <2>7. answer = "ok"
    <3> SUFFICES ASSUME answer # "ok" PROVE FALSE
      OBVIOUS
    <3>1. drafts'[f] = [d EXCEPT !.pending = FALSE, !.again = FALSE, !.closing = FALSE, !.error = TRUE,
                                 !.conflict = answer = "conflict"]
      BY <2>5, <2>6 DEF DraftHears, SteadyInv, EditingTypes, EditorTypes
    <3>2. drafts'[f].open
      BY ONLY <3>1, d \in Draft DEF Draft
    <3> QED BY <3>2 DEF None
  <2>8. ReadBack /\ Includes /\ ~Overwritten
    BY <2>3, <2>7
  <2>9. turn.req.fields[f] \in Values /\ shown' \in Snapshot /\ (shown' = server \/ shown' = shown)
    BY <1>2, <2>1, <2>4, <2>8, Patches DEF Requests, ReadBack, SteadyInv, EditingTypes, StoreTypes
  <2>10. drafts[f].value = turn.put[f]
    <3>1. PICK b \in Draft : /\ b = Rebased(f, turn.req.fields[f])
                             /\ b.original = turn.req.fields[f] /\ b.value = d.value
      <4>1. Rebased(f, turn.req.fields[f]) = [d EXCEPT !.base = shown', !.original = turn.req.fields[f], !.pending = FALSE]
        BY <2>5 DEF Rebased
      <4>2. /\ [d EXCEPT !.base = shown', !.original = turn.req.fields[f], !.pending = FALSE] \in Draft
            /\ [d EXCEPT !.base = shown', !.original = turn.req.fields[f], !.pending = FALSE].original = turn.req.fields[f]
            /\ [d EXCEPT !.base = shown', !.original = turn.req.fields[f], !.pending = FALSE].value = d.value
        BY ONLY <2>9, d \in Draft DEF Draft
      <4> QED BY <4>1, <4>2
    <3>2. /\ Submitted(b, b.closing) # None
          /\ [b EXCEPT !.again = FALSE, !.closing = FALSE] # None
      <4>1. /\ Submitted(b, b.closing).open /\ [b EXCEPT !.again = FALSE, !.closing = FALSE].open /\ ~None.open
        BY ONLY b \in Draft DEF Submitted, Draft, None
      <4> QED BY ONLY <4>1
    <3>3. ~Dirty(b)
      BY <2>6, <2>7, <3>1, <3>2 DEF DraftHears, SteadyInv, EditingTypes, EditorTypes
    <3> QED BY <2>4, <2>5, <3>1, <3>3 DEF Dirty
  <2>11. shown'.live /\ shown'.rev >= turn.expected
    BY <2>4, <2>8 DEF Includes
  <2>12. shown'.val[f] = turn.put[f]
    <3>1. CASE shown'.rev > turn.expected
      <4>1. f \in PatchKeys(DOMAIN turn.req.fields) /\ turn.req.from \notin {"form", "delete"}
        BY <2>4, EditingAssumption DEF PatchKeys, Inline
      <4> QED BY <2>8, <3>1, <4>1 DEF Overwritten
    <3>2. CASE shown'.rev = turn.expected
      <4>1. Held(server) /\ Held(shown) /\ turn.phase = "written"
        BY <2>8 DEF Held, ReadBack
      <4> QED BY <2>9, <3>2, <4>1 DEF SeenInv, WrittenIsStored
    <3>3. shown'.rev \in Nat /\ turn.expected \in Nat
      BY <2>1, <2>9 DEF Snapshot, Turns
    <3> QED BY <2>11, <3>1, <3>2, <3>3
  <2> QED BY <2>10, <2>11, <2>12
<1> QED BY <1>1, <1>2, <1>3, PTL DEF Spec, ClosedDraftsAreShown

==============================================================================
