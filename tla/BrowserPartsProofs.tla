------------------------ MODULE BrowserPartsProofs ------------------------
(***************************************************************************)
(* Proofs about the parts of the browser, each for every value of its      *)
(* constants and whatever its bounds are.                                  *)
(*                                                                         *)
(* Local drafts: a writer's editor and its queue of storage operations     *)
(* (SelfInv), and what the editors, the storage and the copies that were   *)
(* taken over have in common (DraftsInv).                                  *)
(*                                                                         *)
(* The Markdown writer: the document is that of the text it was last       *)
(* written as (TextInv), the search is that of its field (SearchInv), and  *)
(* the word that is to be linked is where it was (LinkInv).                *)
(*                                                                         *)
(* The campaign graph: each canvas keeps its cards, its draft and its      *)
(* requests together (CanvasKeeps, Holds, Laying), and one that was told   *)
(* of nothing newer and saved its own shows what is stored (Agrees).       *)
(*                                                                         *)
(* Add-on links: the entries that are loading are the ones that are asked  *)
(* for, once (AsksKeep), and a view that listens under the role it has     *)
(* holds and awaits only what is so now (Current).                         *)
(***************************************************************************)
EXTENDS BrowserParts, SequenceTheorems, FiniteSetTheorems, TLAPS

(***************************************************************************)
(* Local drafts.                                                           *)
(***************************************************************************)
Copies == [id : Nat, text : Wordings]

Operations ==
  [kind : {"put", "clear"}, text : Wordings]
  \cup [kind : {"saved"}, text : Wordings, accepted : SUBSET Copies]
  \cup [kind : {"discard"}, accepted : SUBSET Copies]

Editors ==
  [open : BOOLEAN, id : Nat, rev : Nat, base : Wordings, text : Wordings,
   entry : {None} \cup [text : Wordings], accepted : SUBSET Copies, candidates : SUBSET Copies,
   status : {"idle", "saving", "saved", "unavailable"}, timer : BOOLEAN, active : BOOLEAN,
   queue : Seq(Operations), recovering : {None} \cup [copy : Copies, id : Nat, text : Wordings],
   saving : {None} \cup [text : Wordings, answer : {"none", "ok", "conflict", "failed"}],
   conflict : BOOLEAN, skipped : BOOLEAN]

DraftsTyped ==
  /\ store \subseteq Copies /\ handled \subseteq Copies /\ ids \in Nat
  /\ server \in [rev : Nat, text : Wordings]
  /\ editor \in [Writers -> Editors]

LEMMA OpeningWord == Opening \in Wordings
  BY DraftsAssumption DEF DraftsAssumption

LEMMA ClosedTyped == Closed \in Editors
  BY OpeningWord DEF Closed, Editors, None

\* What each change of an editor leaves alone.
LEMMA ChangedFacts ==
  ASSUME NEW e \in Editors, NEW text \in Wordings
  PROVE  /\ Changed(e, text) \in Editors
         /\ Changed(e, text).open = e.open /\ Changed(e, text).id = e.id
         /\ Changed(e, text).base = e.base /\ Changed(e, text).text = text
         /\ Changed(e, text).entry = e.entry /\ Changed(e, text).accepted = e.accepted
         /\ Changed(e, text).queue = e.queue /\ Changed(e, text).active = e.active
         /\ Changed(e, text).recovering = e.recovering
         /\ e.active = TRUE => Changed(e, text).timer = TRUE
BY DEF Changed, Editors

LEMMA EnqueueFacts ==
  ASSUME NEW e \in Editors, NEW op \in Operations
  PROVE  /\ Enqueue(e, op) \in Editors /\ Enqueue(e, op).queue = Append(e.queue, op)
         /\ Enqueue(e, op).open = e.open /\ Enqueue(e, op).id = e.id
         /\ Enqueue(e, op).base = e.base /\ Enqueue(e, op).text = e.text
         /\ Enqueue(e, op).entry = e.entry /\ Enqueue(e, op).accepted = e.accepted
         /\ Enqueue(e, op).status = e.status /\ Enqueue(e, op).timer = e.timer
         /\ Enqueue(e, op).active = e.active /\ Enqueue(e, op).recovering = e.recovering
         /\ Enqueue(e, op).skipped = e.skipped
<1>1. Append(e.queue, op) \in Seq(Operations)
  BY DEF Editors
<1>2. Enqueue(e, op) = [e EXCEPT !.queue = Append(e.queue, op)]
  BY DEF Enqueue, Editors
<1> HIDE DEF Editors
<1>3. Enqueue(e, op) \in Editors /\ Enqueue(e, op).queue = Append(e.queue, op)
  BY <1>1, <1>2 DEF Editors
<1> QED BY <1>2, <1>3 DEF Editors

LEMMA FlushedFacts ==
  ASSUME NEW e \in Editors
  PROVE  /\ Flushed(e) \in Editors /\ Flushed(e).timer = FALSE
         /\ Flushed(e).open = e.open /\ Flushed(e).id = e.id /\ Flushed(e).base = e.base
         /\ Flushed(e).text = e.text /\ Flushed(e).entry = e.entry
         /\ Flushed(e).accepted = e.accepted /\ Flushed(e).active = e.active
         /\ Flushed(e).recovering = e.recovering /\ Flushed(e).status = e.status
         /\ Settled(e) => Flushed(e).queue = e.queue /\ (Flushed(e).skipped = FALSE => e.queue = <<>>)
         /\ ~Settled(e) => Flushed(e).queue = Append(e.queue,
              [kind |-> IF e.text = e.base THEN "clear" ELSE "put", text |-> e.text])
<1> DEFINE op == [kind |-> IF e.text = e.base THEN "clear" ELSE "put", text |-> e.text]
<1>1. op \in Operations
  BY DEF Operations, Editors
<1>2. CASE Settled(e)
  <2>1. Flushed(e) = [e EXCEPT !.timer = FALSE, !.skipped = (e.queue # <<>>)]
    BY <1>2 DEF Flushed
  <2>2. (e.queue # <<>>) \in BOOLEAN
    OBVIOUS
  <2> QED BY <1>2, <2>1, <2>2 DEF Editors
<1>3. CASE ~Settled(e)
  <2> DEFINE d == [e EXCEPT !.timer = FALSE, !.skipped = FALSE]
  <2>1. d \in Editors
    BY DEF Editors
  <2>2. /\ d.timer = FALSE /\ d.open = e.open /\ d.id = e.id /\ d.base = e.base
        /\ d.text = e.text /\ d.entry = e.entry /\ d.accepted = e.accepted
        /\ d.active = e.active /\ d.recovering = e.recovering /\ d.status = e.status
        /\ d.queue = e.queue
    BY DEF Editors
  <2>3. Flushed(e) = Enqueue(d, op)
    BY <1>3 DEF Flushed
  <2> HIDE DEF d, op
  <2>4. /\ Flushed(e) \in Editors /\ Flushed(e).queue = Append(e.queue, op)
        /\ Flushed(e).timer = FALSE /\ Flushed(e).open = e.open /\ Flushed(e).id = e.id
        /\ Flushed(e).base = e.base /\ Flushed(e).text = e.text /\ Flushed(e).entry = e.entry
        /\ Flushed(e).accepted = e.accepted /\ Flushed(e).active = e.active
        /\ Flushed(e).recovering = e.recovering /\ Flushed(e).status = e.status
    BY <1>1, <2>1, <2>2, <2>3, EnqueueFacts
  <2> QED BY <1>3, <2>4 DEF op
<1> QED BY <1>2, <1>3

LEMMA UnmountedFacts ==
  ASSUME NEW e \in Editors
  PROVE  /\ Unmounted(e) \in Editors /\ Unmounted(e).open = FALSE /\ Unmounted(e).id = e.id
         /\ Unmounted(e).text = e.text /\ Unmounted(e).entry = e.entry
         /\ Unmounted(e).accepted = e.accepted /\ Unmounted(e).queue = Flushed(e).queue
         /\ Unmounted(e).recovering = e.recovering
  BY FlushedFacts DEF Unmounted, Editors

LEMMA SavedFacts ==
  ASSUME NEW e \in Editors, NEW text \in Wordings
  PROVE  /\ Saved(e, text) \in Editors
         /\ Saved(e, text).open = e.open /\ Saved(e, text).id = e.id
         /\ Saved(e, text).base = text /\ Saved(e, text).text = e.text
         /\ Saved(e, text).entry = e.entry /\ Saved(e, text).accepted = e.accepted
         /\ Saved(e, text).active = e.active /\ Saved(e, text).recovering = e.recovering
         /\ e.active = TRUE => Saved(e, text).timer = TRUE \/ e.text = text
         /\ Saved(e, text).queue =
              Append(e.queue, [kind |-> "saved", text |-> text, accepted |-> e.accepted])
<1> DEFINE op == [kind |-> "saved", text |-> text, accepted |-> e.accepted]
           d == [e EXCEPT !.timer = FALSE, !.base = text]
           s == Enqueue(d, op)
<1>1. op \in Operations /\ d \in Editors
  BY DEF Operations, Editors
<1>2. /\ d.open = e.open /\ d.id = e.id /\ d.base = text /\ d.text = e.text /\ d.entry = e.entry
      /\ d.accepted = e.accepted /\ d.active = e.active /\ d.recovering = e.recovering
      /\ d.queue = e.queue
  BY DEF Editors
<1> HIDE DEF d
<1>3. /\ s \in Editors
      /\ s.open = e.open /\ s.id = e.id /\ s.base = text /\ s.text = e.text /\ s.entry = e.entry
      /\ s.accepted = e.accepted /\ s.active = e.active /\ s.recovering = e.recovering
      /\ s.queue = Append(e.queue, op)
  BY <1>1, <1>2, EnqueueFacts
<1>4. Saved(e, text) = IF e.text # text THEN Changed(s, e.text) ELSE s
  BY DEF Saved, d
<1>5. e.text \in Wordings
  BY DEF Editors
<1> HIDE DEF s, op
<1>6. CASE e.text = text
  <2>1. Saved(e, text) = s
    BY <1>4, <1>6
  <2> QED BY <1>3, <1>6, <2>1 DEF op
<1>7. CASE e.text # text
  <2>1. Saved(e, text) = Changed(s, e.text)
    BY <1>4, <1>7
  <2> DEFINE c == Changed(s, e.text)
  <2>2. /\ c \in Editors /\ c.open = s.open /\ c.id = s.id /\ c.base = s.base /\ c.text = e.text
        /\ c.entry = s.entry /\ c.accepted = s.accepted /\ c.queue = s.queue
        /\ c.active = s.active /\ c.recovering = s.recovering
        /\ s.active = TRUE => c.timer = TRUE
    BY <1>3, <1>5, ChangedFacts
  <2> HIDE DEF c
  <2>3. Saved(e, text) = c
    BY <2>1 DEF c
  <2> QED BY <1>3, <2>2, <2>3 DEF op
<1> QED BY <1>6, <1>7

LEMMA DiscardedFacts ==
  ASSUME NEW e \in Editors
  PROVE  /\ Discarded(e) \in Editors
         /\ Discarded(e).open = e.open /\ Discarded(e).id = e.id /\ Discarded(e).text = e.text /\ Discarded(e).entry = e.entry
         /\ Discarded(e).accepted = e.accepted /\ Discarded(e).recovering = e.recovering
         /\ Discarded(e).active = FALSE
         /\ Discarded(e).queue = Append(e.queue, [kind |-> "discard", accepted |-> e.accepted])
<1> DEFINE op == [kind |-> "discard", accepted |-> e.accepted]
           d == [e EXCEPT !.timer = FALSE, !.active = FALSE]
<1>1. op \in Operations /\ d \in Editors
  BY DEF Operations, Editors
<1>2. /\ d.open = e.open /\ d.id = e.id /\ d.text = e.text /\ d.entry = e.entry
      /\ d.accepted = e.accepted /\ d.recovering = e.recovering /\ d.active = FALSE /\ d.queue = e.queue
  BY DEF Editors
<1>3. Discarded(e) = Enqueue(d, op)
  BY DEF Discarded
<1> HIDE DEF d
<1> QED BY <1>1, <1>2, <1>3, EnqueueFacts

LEMMA NoneIsNoEntry == \A x : None # [text |-> x]
<1>1. \A x : "none" \in DOMAIN None /\ "none" \notin DOMAIN [text |-> x]
  BY DEF None
<1> QED BY <1>1

\* The head of a queue is done and gone.
LEMMA OperationFacts ==
  ASSUME NEW e \in Editors, e.queue # <<>>
  PROVE  /\ Head(e.queue) \in Operations /\ Tail(e.queue) \in Seq(Operations)
         /\ OperationDone(e) \in Editors
         /\ OperationDone(e).open = e.open /\ OperationDone(e).id = e.id
         /\ OperationDone(e).base = e.base /\ OperationDone(e).text = e.text
         /\ OperationDone(e).active = e.active /\ OperationDone(e).timer = e.timer
         /\ OperationDone(e).skipped = e.skipped /\ OperationDone(e).recovering = e.recovering
         /\ OperationDone(e).queue = Tail(e.queue)
         /\ OperationDone(e).accepted = IF Head(e.queue).kind = "saved" THEN {} ELSE e.accepted
         /\ OperationDone(e).entry = CASE Head(e.queue).kind = "put" -> [text |-> Head(e.queue).text]
                                       [] Head(e.queue).kind \in {"clear", "saved"} -> None
                                       [] OTHER -> e.entry
<1> DEFINE op == Head(e.queue)
           entry == CASE op.kind = "put" -> [text |-> op.text]
                      [] op.kind \in {"clear", "saved"} -> None
                      [] OTHER -> e.entry
           accepted == IF op.kind = "saved" THEN {} ELSE e.accepted
<1>1. op \in Operations /\ Tail(e.queue) \in Seq(Operations)
  BY HeadTailProperties DEF Editors
<1>2. op.kind \in {"put", "clear", "saved", "discard"} /\ (op.kind # "discard" => op.text \in Wordings)
  BY <1>1 DEF Operations
<1>3. Reported(e) \in {"idle", "saving", "saved", "unavailable"}
  BY <1>2 DEF Reported, Editors
<1>4. entry \in {None} \cup [text : Wordings] /\ accepted \in SUBSET Copies
  BY <1>2 DEF Editors
<1> HIDE DEF entry, accepted
<1>5. OperationDone(e) = [e EXCEPT !.queue = Tail(e.queue), !.status = Reported(e),
                                   !.entry = entry, !.accepted = accepted]
  BY DEF OperationDone, entry, accepted, Editors
<1>6. /\ OperationDone(e) \in Editors
      /\ OperationDone(e).queue = Tail(e.queue) /\ OperationDone(e).entry = entry
      /\ OperationDone(e).accepted = accepted
  <2> DEFINE tail == Tail(e.queue)
             status == Reported(e)
  <2>1. tail \in Seq(Operations) /\ status \in {"idle", "saving", "saved", "unavailable"}
    BY <1>1, <1>3
  <2>2. OperationDone(e) = [e EXCEPT !.queue = tail, !.status = status,
                                     !.entry = entry, !.accepted = accepted]
    BY <1>5
  <2> HIDE DEF tail, status
  <2>3. OperationDone(e) \in Editors
    BY ONLY e \in Editors, <1>4, <2>1, <2>2 DEF Editors
  <2>4. /\ OperationDone(e).queue = tail /\ OperationDone(e).entry = entry
        /\ OperationDone(e).accepted = accepted
    BY <2>2 DEF Editors
  <2> QED BY <2>3, <2>4 DEF tail
<1>7. /\ OperationDone(e).open = e.open /\ OperationDone(e).id = e.id
      /\ OperationDone(e).base = e.base /\ OperationDone(e).text = e.text
      /\ OperationDone(e).active = e.active /\ OperationDone(e).timer = e.timer
      /\ OperationDone(e).skipped = e.skipped /\ OperationDone(e).recovering = e.recovering
  BY <1>5 DEF Editors
<1> QED BY <1>1, <1>6, <1>7 DEF entry, accepted

\* What waits in an editor's queue.
Waiting(e) == {e.queue[i] : i \in 1..Len(e.queue)}
Taking(op) == op.kind \in {"saved", "discard"}

LEMMA WaitingFacts ==
  ASSUME NEW e \in Editors, NEW n \in Editors
  PROVE  /\ n.queue = e.queue => Waiting(n) = Waiting(e)
         /\ \A op \in Operations : n.queue = Append(e.queue, op) => Waiting(n) = Waiting(e) \cup {op}
         /\ e.queue # <<>> => /\ Head(e.queue) \in Waiting(e)
                              /\ n.queue = Tail(e.queue) => Waiting(n) \subseteq Waiting(e)
<1> DEFINE q == e.queue
<1>1. q \in Seq(Operations)
  BY DEF Editors
<1>2. n.queue = q => Waiting(n) = Waiting(e)
  BY DEF Waiting
<1>3. ASSUME NEW op \in Operations, n.queue = Append(q, op) PROVE Waiting(n) = Waiting(e) \cup {op}
  <2>1. Len(n.queue) = Len(q) + 1 /\ n.queue[Len(q) + 1] = op /\ \A i \in 1..Len(q) : n.queue[i] = q[i]
    BY <1>1, <1>3
  <2> QED BY <1>1, <2>1 DEF Waiting
<1>4. ASSUME q # <<>> PROVE Head(q) \in Waiting(e)
  BY <1>1, <1>4 DEF Waiting
<1>5. ASSUME q # <<>>, n.queue = Tail(q) PROVE Waiting(n) \subseteq Waiting(e)
  <2>1. Len(n.queue) = Len(q) - 1 /\ \A i \in 1..Len(n.queue) : n.queue[i] = q[i + 1]
    BY <1>1, <1>5
  <2>2. \A i \in 1..Len(n.queue) : n.queue[i] \in Waiting(e)
    BY <1>1, <2>1 DEF Waiting
  <2> QED BY <2>2 DEF Waiting
<1> QED BY <1>2, <1>3, <1>4, <1>5

\* What a step of a writer leaves of what it asked and took over: it asks for nothing but
\* the removal of what it took over, and takes over what is handled.
Continues(e, n) ==
  /\ n \in Editors /\ n.id = e.id /\ n.entry = e.entry /\ n.open \in {e.open, FALSE}
  /\ \A op \in Waiting(n) : op \in Waiting(e) \/ ~Taking(op) \/ op.accepted = e.accepted
  /\ n.accepted \subseteq e.accepted \cup handled'
  /\ n.recovering \in {e.recovering, None}

\* Copies leave the storage only as handled.
OnlyHandledLeave ==
  /\ store' \subseteq store /\ store \subseteq store' \cup handled'
  /\ handled \subseteq handled' /\ handled' \subseteq Copies

Proceeds(w, n) ==
  editor[w] # Closed /\ EditorIs(w, n) /\ Continues(editor[w], n) /\ OnlyHandledLeave /\ ids' = ids

\* Nothing but what is shown or typed changes.
LEMMA SameContinues ==
  ASSUME NEW e \in Editors, NEW n \in Editors, n.id = e.id, n.entry = e.entry,
         n.accepted = e.accepted, n.open \in {e.open, FALSE}, n.recovering \in {e.recovering, None}, n.queue = e.queue
  PROVE  Continues(e, n)
BY WaitingFacts DEF Continues

\* An operation is asked for.
LEMMA AskContinues ==
  ASSUME NEW e \in Editors, NEW n \in Editors, n.id = e.id, n.entry = e.entry,
         n.accepted = e.accepted, n.open \in {e.open, FALSE}, n.recovering \in {e.recovering, None},
         NEW op \in Operations, n.queue = Append(e.queue, op),
         Taking(op) => op.accepted = e.accepted
  PROVE  Continues(e, n)
<1>1. Waiting(n) = Waiting(e) \cup {op}
  BY WaitingFacts
<1> QED BY <1>1 DEF Continues

LEMMA TwiceContinues ==
  ASSUME NEW e \in Editors, NEW d \in Editors, NEW n \in Editors,
         Continues(e, d), Continues(d, n), d.accepted = e.accepted
  PROVE  Continues(e, n)
BY DEF Continues

LEMMA NothingLeaves == DraftsTyped /\ UNCHANGED <<store, handled>> => OnlyHandledLeave
BY DEF DraftsTyped, OnlyHandledLeave

LEMMA FlushContinues ==
  ASSUME NEW e \in Editors
  PROVE  Continues(e, Flushed(e)) /\ Continues(e, Unmounted(e))
<1> DEFINE op == [kind |-> IF e.text = e.base THEN "clear" ELSE "put", text |-> e.text]
<1>1. op \in Operations /\ ~Taking(op)
  BY DEF Operations, Editors, Taking
<1> DEFINE n == Flushed(e)
           u == Unmounted(e)
<1>2. /\ n \in Editors /\ n.id = e.id /\ n.entry = e.entry /\ n.accepted = e.accepted
      /\ n.recovering = e.recovering /\ n.open = e.open
      /\ n.queue = e.queue \/ n.queue = Append(e.queue, op)
  BY FlushedFacts
<1>3. /\ u \in Editors /\ u.id = e.id /\ u.entry = e.entry /\ u.accepted = e.accepted
      /\ u.recovering = e.recovering /\ u.queue = n.queue /\ u.open = FALSE
  BY UnmountedFacts
<1> HIDE DEF op, n, u
<1>4. Continues(e, n)
  BY <1>1, <1>2, AskContinues, SameContinues
<1>5. Continues(e, u)
  BY <1>1, <1>2, <1>3, AskContinues, SameContinues
<1> QED BY <1>4, <1>5 DEF n, u

LEMMA SaveContinues ==
  ASSUME NEW e \in Editors, NEW text \in Wordings
  PROVE  /\ Continues(e, Saved(e, text)) /\ Continues(e, Unmounted(Saved(e, text)))
         /\ Continues(e, Unmounted(Discarded(e)))
<1>1. /\ [kind |-> "saved", text |-> text, accepted |-> e.accepted] \in Operations
      /\ [kind |-> "discard", accepted |-> e.accepted] \in Operations
  BY DEF Operations, Editors
<1>2. Continues(e, Saved(e, text))
  BY <1>1, SavedFacts, AskContinues
<1>3. Continues(e, Discarded(e))
  BY <1>1, DiscardedFacts, AskContinues
<1>4. Continues(e, Unmounted(Saved(e, text)))
  BY <1>2, SavedFacts, FlushContinues, UnmountedFacts, TwiceContinues
<1>5. Continues(e, Unmounted(Discarded(e)))
  BY <1>3, DiscardedFacts, FlushContinues, UnmountedFacts, TwiceContinues
<1> QED BY <1>2, <1>4, <1>5

\* The text of an open editor that rests and is not what needs no copy is being stored,
\* or is stored, or could not be.
Ends(e) ==
  IF e.queue = <<>> THEN e.status = "unavailable" \/ e.entry = [text |-> e.text]
  ELSE e.queue[Len(e.queue)] = [kind |-> "put", text |-> e.text]

SelfInv(e) ==
  e.open = TRUE =>
    /\ e.active = TRUE
    /\ \A op \in Waiting(e) : op.kind # "discard"
    /\ e.timer = FALSE /\ e.skipped = FALSE /\ e.text # e.base => Ends(e)

ProceedsWell(w) == \E n : Proceeds(w, n) /\ SelfInv(n)

LEMMA ProceedsBy ==
  ASSUME NEW w, NEW n, editor[w] # Closed, EditorIs(w, n), Continues(editor[w], n),
         OnlyHandledLeave, ids' = ids, SelfInv(n)
  PROVE  ProceedsWell(w)
BY DEF ProceedsWell, Proceeds

\* What is done to an editor is done to one that was opened.
LEMMA OpenedFacts ==
  ASSUME NEW e \in Editors,
         \/ e.open = TRUE \/ e.timer = TRUE \/ e.queue # <<>> \/ e.recovering # None
         \/ e.saving # None \/ e.conflict = TRUE
  PROVE  e # Closed
BY DEF Closed, Editors

LEMMA SelfSame ==
  ASSUME NEW e \in Editors, NEW n \in Editors, SelfInv(e), n.open = e.open, n.active = e.active,
         n.queue = e.queue, n.timer = e.timer, n.skipped = e.skipped, n.text = e.text,
         n.base = e.base, n.entry = e.entry, n.status \in {e.status, "unavailable"}
  PROVE  SelfInv(n)
BY WaitingFacts DEF SelfInv, Ends

LEMMA LastWaiting ==
  ASSUME NEW e \in Editors, NEW n \in Editors
  PROVE  /\ \A op \in Operations : n.queue = Append(e.queue, op) =>
              n.queue # <<>> /\ n.queue[Len(n.queue)] = op
         /\ e.queue # <<>> /\ n.queue = Tail(e.queue) =>
              IF n.queue = <<>> THEN e.queue[Len(e.queue)] = Head(e.queue)
              ELSE n.queue[Len(n.queue)] = e.queue[Len(e.queue)]
<1> DEFINE q == e.queue
<1>1. q \in Seq(Operations) /\ n.queue \in Seq(Operations)
  BY DEF Editors
<1>2. ASSUME NEW op \in Operations, n.queue = Append(q, op)
      PROVE  n.queue # <<>> /\ n.queue[Len(n.queue)] = op
  BY <1>1, <1>2
<1>3. ASSUME q # <<>>, n.queue = Tail(q)
      PROVE  IF n.queue = <<>> THEN q[Len(q)] = Head(q) ELSE n.queue[Len(n.queue)] = q[Len(q)]
  <2>1. Len(n.queue) = Len(q) - 1 /\ \A i \in 1..Len(n.queue) : n.queue[i] = q[i + 1]
    BY <1>1, <1>3
  <2>2. CASE n.queue = <<>>
    <3>1. Len(q) = 1
      BY <1>1, <2>1, <2>2, <1>3
    <3> QED BY <1>1, <2>2, <3>1
  <2>3. CASE n.queue # <<>>
    <3>1. Len(n.queue) \in 1..Len(n.queue)
      BY <1>1, <2>3
    <3> QED BY <1>1, <2>1, <2>3, <3>1
  <2> QED BY <2>2, <2>3
<1> QED BY <1>2, <1>3

LEMMA SelfFlushed ==
  ASSUME NEW e \in Editors, SelfInv(e)
  PROVE  SelfInv(Flushed(e)) /\ SelfInv(Unmounted(e))
<1> DEFINE op == [kind |-> IF e.text = e.base THEN "clear" ELSE "put", text |-> e.text]
           n == Flushed(e)
<1>1. op \in Operations /\ op.kind # "discard"
  BY DEF Operations, Editors
<1>2. /\ n \in Editors /\ n.timer = FALSE /\ n.open = e.open /\ n.base = e.base /\ n.text = e.text
      /\ n.entry = e.entry /\ n.active = e.active /\ n.status = e.status
      /\ Settled(e) => n.queue = e.queue /\ (n.skipped = FALSE => e.queue = <<>>)
      /\ ~Settled(e) => n.queue = Append(e.queue, op)
  BY FlushedFacts
<1> HIDE DEF n
<1>3. ASSUME Settled(e) PROVE SelfInv(n)
  <2>1. Waiting(n) = Waiting(e)
    BY <1>2, <1>3, WaitingFacts
  <2>2. e.open = TRUE /\ n.skipped = FALSE /\ n.text # n.base => Ends(n)
    BY <1>2, <1>3 DEF Settled, SelfInv, Ends
  <2> QED BY <1>2, <2>1, <2>2 DEF SelfInv
<1>4. ASSUME ~Settled(e) PROVE SelfInv(n)
  <2>1. Waiting(n) = Waiting(e) \cup {op}
    BY <1>1, <1>2, <1>4, WaitingFacts
  <2>2. n.queue # <<>> /\ n.queue[Len(n.queue)] = op
    BY <1>1, <1>2, <1>4, LastWaiting
  <2>3. n.text # n.base => Ends(n)
    BY <1>2, <2>2 DEF Ends
  <2> QED BY <1>1, <1>2, <2>1, <2>3 DEF SelfInv
<1>5. SelfInv(Unmounted(e))
  BY UnmountedFacts DEF SelfInv
<1> QED BY <1>3, <1>4, <1>5 DEF n

LEMMA SelfSaved ==
  ASSUME NEW e \in Editors, NEW text \in Wordings, SelfInv(e)
  PROVE  SelfInv(Saved(e, text))
<1> DEFINE op == [kind |-> "saved", text |-> text, accepted |-> e.accepted]
           n == Saved(e, text)
<1>1. op \in Operations
  BY DEF Operations, Editors
<1>2. /\ n \in Editors /\ n.open = e.open /\ n.base = text /\ n.text = e.text /\ n.active = e.active
      /\ e.active = TRUE => n.timer = TRUE \/ e.text = text
      /\ n.queue = Append(e.queue, op)
  BY SavedFacts
<1> HIDE DEF n
<1>3. Waiting(n) = Waiting(e) \cup {op}
  BY <1>1, <1>2, WaitingFacts
<1>4. SelfInv(n)
  BY <1>2, <1>3 DEF SelfInv
<1> QED BY <1>4 DEF n

LEMMA SelfChanged ==
  ASSUME NEW e \in Editors, NEW text \in Wordings, SelfInv(e)
  PROVE  SelfInv(Changed(e, text))
<1> DEFINE n == Changed(e, text)
<1>1. /\ n \in Editors /\ n.open = e.open /\ n.active = e.active /\ n.queue = e.queue
      /\ e.active = TRUE => n.timer = TRUE
  BY ChangedFacts
<1> HIDE DEF n
<1>2. Waiting(n) = Waiting(e)
  BY <1>1, WaitingFacts
<1>3. SelfInv(n)
  BY <1>1, <1>2 DEF SelfInv
<1> QED BY <1>3 DEF n

\* One writer's step, from an editor that keeps its invariant.
Before(w) == w \in Writers /\ DraftsTyped /\ SelfInv(editor[w])

LEMMA WriteProceeds ==
  ASSUME NEW w, Before(w), \E text \in Wordings : Write(w, text)
  PROVE  ProceedsWell(w)
<1>1. PICK text \in Wordings : Write(w, text)
  OBVIOUS
<1> DEFINE e == editor[w]
           n == Changed(e, text)
<1>2. e \in Editors /\ SelfInv(e) /\ e.open = TRUE /\ EditorIs(w, n)
  BY <1>1 DEF Before, DraftsTyped, Write, Acts, Editors
<1>3. n \in Editors /\ SelfInv(n) /\ Continues(e, n)
  BY <1>2, SelfChanged, ChangedFacts, SameContinues
<1>4. OnlyHandledLeave /\ ids' = ids
  BY <1>1, NothingLeaves DEF Before, Write
<1> QED BY <1>2, <1>3, <1>4, OpenedFacts, ProceedsBy

LEMMA FlushProceeds ==
  ASSUME NEW w, Before(w), Flush(w)
  PROVE  ProceedsWell(w)
<1> DEFINE e == editor[w]
           n == Flushed(e)
<1>1. e \in Editors /\ SelfInv(e) /\ (e.open = TRUE \/ e.timer = TRUE) /\ EditorIs(w, n)
  BY DEF Before, DraftsTyped, Flush, Acts, Editors
<1>2. SelfInv(n) /\ Continues(e, n)
  BY <1>1, SelfFlushed, FlushContinues
<1>3. OnlyHandledLeave /\ ids' = ids
  BY NothingLeaves DEF Before, Flush
<1> QED BY <1>1, <1>2, <1>3, OpenedFacts, ProceedsBy

LEMMA OperationFailsProceeds ==
  ASSUME NEW w, Before(w), OperationFails(w)
  PROVE  ProceedsWell(w)
<1> DEFINE e == editor[w]
           n == [e EXCEPT !.queue = Tail(@), !.status = "unavailable"]
<1>1. e \in Editors /\ SelfInv(e) /\ e.queue # <<>> /\ EditorIs(w, n)
  BY DEF Before, DraftsTyped, OperationFails
<1>2. Tail(e.queue) \in Seq(Operations)
  BY <1>1, OperationFacts
<1>3. /\ n \in Editors /\ n.queue = Tail(e.queue) /\ n.id = e.id /\ n.entry = e.entry
      /\ n.accepted = e.accepted /\ n.recovering = e.recovering /\ n.status = "unavailable"
      /\ n.open = e.open /\ n.active = e.active /\ n.timer = e.timer /\ n.skipped = e.skipped
      /\ n.text = e.text /\ n.base = e.base
  <2> DEFINE tail == Tail(e.queue)
  <2>1. n = [e EXCEPT !.queue = tail, !.status = "unavailable"]
    BY <1>1 DEF Editors
  <2>2. tail \in Seq(Operations)
    BY <1>2
  <2> HIDE DEF tail, n
  <2>3. n \in Editors
    BY <1>1, <2>1, <2>2 DEF Editors
  <2>4. /\ n.queue = tail /\ n.id = e.id /\ n.entry = e.entry /\ n.accepted = e.accepted
        /\ n.recovering = e.recovering /\ n.status = "unavailable"
    BY <1>1, <2>1 DEF Editors
  <2>5. /\ n.open = e.open /\ n.active = e.active /\ n.timer = e.timer /\ n.skipped = e.skipped
        /\ n.text = e.text /\ n.base = e.base
    BY <1>1, <2>1 DEF Editors
  <2> QED BY <2>3, <2>4, <2>5 DEF tail
<1> HIDE DEF n
<1>4. Waiting(n) \subseteq Waiting(e)
  BY <1>1, <1>3, WaitingFacts
<1>5. SelfInv(n)
  BY <1>1, <1>3, <1>4, LastWaiting DEF SelfInv, Ends
<1>6. Continues(e, n)
  BY <1>3, <1>4 DEF Continues
<1>7. OnlyHandledLeave /\ ids' = ids
  BY NothingLeaves DEF Before, OperationFails
<1> QED BY <1>1, <1>5, <1>6, <1>7, OpenedFacts, ProceedsBy DEF n

\* Candidates, saving, conflict, revision, status or recovery: nothing that is stored.
LEMMA AsideProceeds ==
  ASSUME NEW w, Before(w),
         Refresh(w) \/ SaveText(w) \/ ServerAnswers(w) \/ KeepDraft(w) \/ ProtectionFails(w)
  PROVE  ProceedsWell(w)
<1> DEFINE e == editor[w]
<1>1. e \in Editors /\ SelfInv(e) /\ store \subseteq Copies /\ server \in [rev : Nat, text : Wordings]
  BY DEF Before, DraftsTyped
<1>2. OnlyHandledLeave /\ ids' = ids
  BY NothingLeaves DEF Before, Refresh, SaveText, ServerAnswers, KeepDraft, ProtectionFails
<1>3. e # Closed
  BY <1>1, OpenedFacts DEF Refresh, SaveText, ServerAnswers, KeepDraft, ProtectionFails, Acts, Editors
<1>4. \E n \in Editors :
        /\ EditorIs(w, n) /\ n.id = e.id /\ n.entry = e.entry /\ n.accepted = e.accepted
        /\ n.recovering \in {e.recovering, None} /\ n.queue = e.queue
        /\ n.open = e.open /\ n.active = e.active /\ n.timer = e.timer /\ n.skipped = e.skipped
        /\ n.text = e.text /\ n.base = e.base /\ n.status \in {e.status, "unavailable"}
  <2>1. CASE Refresh(w)
    <3>1. Offered(e, store) \in SUBSET Copies
      BY <1>1 DEF Offered
    <3>2. CASE EditorIs(w, [e EXCEPT !.candidates = Offered(e, store)])
      <4>1. [e EXCEPT !.candidates = Offered(e, store)] \in Editors
        BY <1>1, <3>1 DEF Editors
      <4> QED BY <1>1, <3>2, <4>1 DEF Editors
    <3>3. CASE EditorIs(w, [e EXCEPT !.status = "unavailable"])
      <4>1. [e EXCEPT !.status = "unavailable"] \in Editors
        BY <1>1 DEF Editors
      <4> QED BY <1>1, <3>3, <4>1 DEF Editors
    <3> QED BY <2>1, <3>2, <3>3 DEF Refresh
  <2>2. CASE SaveText(w)
    <3> DEFINE n == [e EXCEPT !.saving = [text |-> e.text, answer |-> "none"]]
    <3>1. n \in Editors
      BY <1>1 DEF Editors
    <3>2. EditorIs(w, n)
      BY <2>2 DEF SaveText
    <3> QED BY <1>1, <3>1, <3>2 DEF Editors
  <2>3. CASE ServerAnswers(w)
    <3>1. PICK answer \in {"ok", "conflict", "failed"} : EditorIs(w, [e EXCEPT !.saving.answer = answer])
      BY <2>3 DEF ServerAnswers
    <3> DEFINE n == [e EXCEPT !.saving.answer = answer]
    <3>2. e.saving \in [text : Wordings, answer : {"none", "ok", "conflict", "failed"}]
      BY <1>1, <2>3 DEF ServerAnswers, Editors
    <3>3. n \in Editors
      BY <1>1, <3>2 DEF Editors
    <3> QED BY <1>1, <3>1, <3>3 DEF Editors
  <2>4. CASE KeepDraft(w)
    <3> DEFINE n == [e EXCEPT !.conflict = FALSE, !.rev = server.rev]
    <3>1. n \in Editors
      BY <1>1 DEF Editors
    <3>2. EditorIs(w, n)
      BY <2>4 DEF KeepDraft
    <3> QED BY <1>1, <3>1, <3>2 DEF Editors
  <2>5. CASE ProtectionFails(w)
    <3> DEFINE n == [e EXCEPT !.recovering = None, !.status = "unavailable"]
    <3>1. n \in Editors
      BY <1>1 DEF Editors
    <3>2. EditorIs(w, n)
      BY <2>5 DEF ProtectionFails
    <3> QED BY <1>1, <3>1, <3>2 DEF Editors
  <2> QED BY <2>1, <2>2, <2>3, <2>4, <2>5
<1>5. PICK n \in Editors :
        /\ EditorIs(w, n) /\ n.id = e.id /\ n.entry = e.entry /\ n.accepted = e.accepted
        /\ n.recovering \in {e.recovering, None} /\ n.queue = e.queue
        /\ n.open = e.open /\ n.active = e.active /\ n.timer = e.timer /\ n.skipped = e.skipped
        /\ n.text = e.text /\ n.base = e.base /\ n.status \in {e.status, "unavailable"}
  BY <1>4
<1>6. SelfInv(n) /\ Continues(e, n)
  BY <1>1, <1>5, SelfSame, SameContinues
<1> QED BY <1>2, <1>3, <1>5, <1>6, ProceedsBy

LEMMA SaveHeardProceeds ==
  ASSUME NEW w, Before(w), SaveHeard(w)
  PROVE  ProceedsWell(w)
<1> DEFINE e == editor[w]
           d == [e EXCEPT !.saving = None]
           text == e.saving.text
<1>1. e \in Editors /\ SelfInv(e) /\ e.saving # None
  BY DEF Before, DraftsTyped, SaveHeard
<1>2. text \in Wordings
  BY <1>1 DEF Editors
<1>3. /\ d \in Editors /\ d.id = e.id /\ d.entry = e.entry /\ d.accepted = e.accepted
      /\ d.recovering = e.recovering /\ d.queue = e.queue
      /\ d.open = e.open /\ d.active = e.active /\ d.timer = e.timer /\ d.skipped = e.skipped
      /\ d.text = e.text /\ d.base = e.base /\ d.status = e.status
  BY <1>1 DEF Editors
<1>4. \/ \E b \in BOOLEAN : EditorIs(w, [d EXCEPT !.conflict = b])
      \/ EditorIs(w, Unmounted(Saved(d, text)))
      \/ EditorIs(w, [Saved(d, text) EXCEPT !.rev = @ + 1])
  BY DEF SaveHeard
<1>5. OnlyHandledLeave /\ ids' = ids
  BY NothingLeaves DEF Before, SaveHeard
<1> HIDE DEF d, text
<1>6. SelfInv(d) /\ Continues(e, d)
  BY <1>1, <1>3, SelfSame, SameContinues
<1>7. CASE \E b \in BOOLEAN : EditorIs(w, [d EXCEPT !.conflict = b])
  <2>1. PICK b \in BOOLEAN : EditorIs(w, [d EXCEPT !.conflict = b])
    BY <1>7
  <2> DEFINE n == [d EXCEPT !.conflict = b]
  <2>2. /\ n \in Editors /\ n.id = e.id /\ n.entry = e.entry /\ n.accepted = e.accepted
        /\ n.recovering = e.recovering /\ n.queue = e.queue
        /\ n.open = e.open /\ n.active = e.active /\ n.timer = e.timer /\ n.skipped = e.skipped
        /\ n.text = e.text /\ n.base = e.base /\ n.status = e.status
    BY <1>3 DEF Editors
  <2>3. SelfInv(n) /\ Continues(e, n)
    BY <1>1, <2>2, SelfSame, SameContinues
  <2> QED BY <1>1, <1>5, <2>1, <2>3, OpenedFacts, ProceedsBy
<1> DEFINE s == Saved(d, text)
<1>8. SelfInv(s) /\ Continues(d, s) /\ Continues(d, Unmounted(s)) /\ s \in Editors
  BY <1>2, <1>3, <1>6, SelfSaved, SaveContinues, SavedFacts
<1> HIDE DEF s
<1>9. CASE EditorIs(w, Unmounted(s))
  <2>1. SelfInv(Unmounted(s)) /\ Unmounted(s) \in Editors
    BY <1>8, SelfFlushed, UnmountedFacts
  <2>2. Continues(e, Unmounted(s))
    BY <1>1, <1>3, <1>6, <1>8, <2>1, TwiceContinues
  <2> QED BY <1>1, <1>5, <1>9, <2>1, <2>2, OpenedFacts, ProceedsBy
<1>10. CASE EditorIs(w, [s EXCEPT !.rev = @ + 1])
  <2> DEFINE n == [s EXCEPT !.rev = @ + 1]
  <2>1. /\ n \in Editors /\ n.id = s.id /\ n.entry = s.entry /\ n.accepted = s.accepted
        /\ n.recovering = s.recovering /\ n.queue = s.queue
        /\ n.open = s.open /\ n.active = s.active /\ n.timer = s.timer /\ n.skipped = s.skipped
        /\ n.text = s.text /\ n.base = s.base /\ n.status = s.status
    BY <1>8 DEF Editors
  <2>2. SelfInv(n) /\ Continues(s, n)
    BY <1>8, <2>1, SelfSame, SameContinues
  <2>3. s.accepted = d.accepted
    BY <1>2, <1>3, SavedFacts DEF s
  <2>4. Continues(d, n)
    BY <1>3, <1>8, <2>1, <2>2, <2>3, TwiceContinues
  <2>5. Continues(e, n)
    BY <1>1, <1>3, <1>6, <2>1, <2>4, TwiceContinues
  <2> QED BY <1>1, <1>5, <1>10, <2>2, <2>5, OpenedFacts, ProceedsBy
<1> QED BY <1>4, <1>7, <1>9, <1>10 DEF s

LEMMA LeaveProceeds ==
  ASSUME NEW w, Before(w), Cancel(w) \/ LeaveEditor(w)
  PROVE  ProceedsWell(w)
<1> DEFINE e == editor[w]
<1>1. e \in Editors /\ SelfInv(e) /\ e.open = TRUE
  BY DEF Before, DraftsTyped, Cancel, LeaveEditor, Acts, Editors
<1>2. OnlyHandledLeave /\ ids' = ids
  BY NothingLeaves DEF Before, Cancel, LeaveEditor
<1>3. \E n : EditorIs(w, n) /\ Continues(e, n) /\ SelfInv(n)
  <2>1. CASE Cancel(w)
    <3>1. SelfInv(Unmounted(Discarded(e))) /\ Continues(e, Unmounted(Discarded(e)))
      BY <1>1, OpeningWord, DiscardedFacts, UnmountedFacts, SaveContinues DEF SelfInv
    <3> QED BY <2>1, <3>1 DEF Cancel
  <2>2. CASE LeaveEditor(w)
    <3>1. SelfInv(Unmounted(e)) /\ Continues(e, Unmounted(e))
      BY <1>1, SelfFlushed, FlushContinues
    <3> QED BY <2>2, <3>1 DEF LeaveEditor
  <2> QED BY <2>1, <2>2
<1> QED BY <1>1, <1>2, <1>3, OpenedFacts, ProceedsBy

LEMMA DiscardProceeds ==
  ASSUME NEW w, Before(w), \E d \in editor[w].candidates : Discard(w, d)
  PROVE  ProceedsWell(w)
<1> DEFINE e == editor[w]
<1>1. e \in Editors /\ SelfInv(e) /\ store \subseteq Copies /\ handled \subseteq Copies
  BY DEF Before, DraftsTyped
<1>2. PICK d \in e.candidates : Discard(w, d)
  OBVIOUS
<1>3. d \in Copies /\ e.open = TRUE
  BY <1>1, <1>2 DEF Editors, Discard, Acts
<1>4. store' = store \ {d} /\ handled' = handled \cup {d} /\ ids' = ids
  BY <1>2 DEF Discard, Removed
<1>5. OnlyHandledLeave
  BY <1>1, <1>3, <1>4 DEF OnlyHandledLeave
<1> DEFINE shown == Offered(e, store')
           n == [e EXCEPT !.candidates = shown]
<1>6. EditorIs(w, n)
  BY <1>2 DEF Discard
<1>7. shown \in SUBSET Copies
  BY <1>1, <1>4 DEF Offered
<1> HIDE DEF shown
<1>8. /\ n \in Editors /\ n.id = e.id /\ n.entry = e.entry /\ n.accepted = e.accepted
      /\ n.recovering = e.recovering /\ n.queue = e.queue
      /\ n.open = e.open /\ n.active = e.active /\ n.timer = e.timer /\ n.skipped = e.skipped
      /\ n.text = e.text /\ n.base = e.base /\ n.status = e.status
  BY <1>1, <1>7 DEF Editors
<1>9. SelfInv(n) /\ Continues(e, n)
  BY <1>1, <1>8, SelfSame, SameContinues
<1> QED BY <1>1, <1>3, <1>4, <1>5, <1>6, <1>9, OpenedFacts, ProceedsBy

\* A copy is taken over at once; its text is the editor's from then on.
LEMMA AcceptFacts ==
  ASSUME NEW w \in Writers, NEW d \in Copies, DraftsTyped, Accept(w, d), SelfInv(editor[w])
  PROVE  \E n \in Editors :
           /\ EditorIs(w, n) /\ SelfInv(n) /\ n.id = editor[w].id /\ n.entry = editor[w].entry
           /\ n.queue = editor[w].queue /\ n.accepted = editor[w].accepted \cup {d}
           /\ n.recovering = None /\ n.text = d.text /\ handled' = handled \cup {d}
<1> DEFINE e == editor[w]
           c == [e EXCEPT !.recovering = None, !.accepted = @ \cup {d},
                          !.candidates = {x \in @ : x.id # d.id}]
           n == Changed(c, d.text)
<1>1. e \in Editors /\ d.text \in Wordings
  BY DEF DraftsTyped, Copies
<1>2. /\ c \in Editors /\ c.id = e.id /\ c.entry = e.entry /\ c.queue = e.queue
      /\ c.accepted = e.accepted \cup {d} /\ c.recovering = None
  <2> DEFINE accepted == e.accepted \cup {d}
             shown == {x \in e.candidates : x.id # d.id}
  <2>1. accepted \in SUBSET Copies /\ shown \in SUBSET Copies
    BY <1>1 DEF Editors
  <2>2. c = [e EXCEPT !.recovering = None, !.accepted = accepted, !.candidates = shown]
    BY <1>1 DEF Editors
  <2> HIDE DEF accepted, shown, c
  <2>3. c \in Editors /\ c.accepted = accepted
    BY <1>1, <2>1, <2>2 DEF Editors
  <2>4. c.id = e.id /\ c.entry = e.entry /\ c.queue = e.queue /\ c.recovering = None
    BY <1>1, <2>2 DEF Editors
  <2> QED BY <2>3, <2>4 DEF accepted
<1>3. /\ c.open = e.open /\ c.active = e.active /\ c.timer = e.timer /\ c.skipped = e.skipped
      /\ c.text = e.text /\ c.base = e.base /\ c.status = e.status
  BY <1>1 DEF Editors
<1>4. EditorIs(w, n) /\ handled' = handled \cup {d}
  BY DEF Accept
<1> HIDE DEF c
<1>5. SelfInv(c)
  BY <1>1, <1>2, <1>3, SelfSame
<1>6. n \in Editors /\ SelfInv(n)
  BY <1>1, <1>2, <1>5, SelfChanged, ChangedFacts
<1>7. /\ n.id = c.id /\ n.entry = c.entry /\ n.queue = c.queue /\ n.accepted = c.accepted
      /\ n.recovering = c.recovering /\ n.text = d.text
  BY <1>1, <1>2, ChangedFacts
<1> HIDE DEF n
<1> QED BY <1>2, <1>4, <1>6, <1>7

(***************************************************************************)
(* The storage and everybody's copies.                                     *)
(***************************************************************************)
Numbered ==
  /\ \A d \in store : d.id <= ids
  /\ \A w \in Writers : editor[w].id <= ids /\ (editor[w].id = 0 => editor[w] = Closed)
  /\ \A v, w \in Writers : v # w /\ editor[v].id = editor[w].id => editor[v].id = 0

\* The ID of a protective copy is nobody's until it is stored.
Reserved ==
  \A w \in Writers : LET r == editor[w].recovering IN r # None =>
    /\ r.id # 0 /\ r.id <= ids /\ \A d \in store : d.id # r.id
    /\ \A v \in Writers : editor[v].id # r.id
    /\ \A v \in Writers \ {w} : editor[v].recovering # None => editor[v].recovering.id # r.id

\* What is removed for having been taken over was.
TakenOver ==
  \A w \in Writers :
    /\ editor[w].accepted \subseteq handled
    /\ \A op \in Waiting(editor[w]) : Taking(op) => op.accepted \subseteq handled

\* The copy that an open editor knows to have put is there.
Held ==
  \A w \in Writers : editor[w].open = TRUE /\ editor[w].entry # None =>
    Copy(editor[w].id, editor[w].entry.text) \in store \cup handled

EachSelf == \A w \in Writers : SelfInv(editor[w])

DraftsInv == DraftsTyped /\ Numbered /\ Reserved /\ TakenOver /\ Held /\ EachSelf

LEMMA DraftsInitInv == DraftsInit => DraftsInv
<1> SUFFICES ASSUME DraftsInit PROVE DraftsInv
  OBVIOUS
<1>1. \A w \in Writers : editor[w] = Closed
  BY DEF DraftsInit
<1>2. /\ Closed.id = 0 /\ Closed.open = FALSE /\ Closed.recovering = None /\ Closed.accepted = {}
      /\ Closed.queue = <<>>
  BY DEF Closed
<1>3. Waiting(Closed) = {} /\ SelfInv(Closed)
  BY <1>2 DEF Waiting, SelfInv
<1>4. \A d \in store : d \in Copies /\ d.id = 0
  BY DEF DraftsInit, Copy, Copies
<1>5. DraftsTyped
  BY <1>4, ClosedTyped, OpeningWord DEF DraftsInit, DraftsTyped
<1>6. ids = 0 /\ handled = {}
  BY DEF DraftsInit
<1> HIDE DEF DraftsInit
<1>7. Numbered
  BY <1>1, <1>2, <1>4, <1>6 DEF Numbered
<1>8. Reserved
  BY <1>1, <1>2 DEF Reserved
<1>9. TakenOver
  BY <1>1, <1>2, <1>3 DEF TakenOver
<1>10. Held
  BY <1>1, <1>2 DEF Held
<1>11. EachSelf
  BY <1>1, <1>3 DEF EachSelf
<1> QED BY <1>5, <1>7, <1>8, <1>9, <1>10, <1>11 DEF DraftsInv

ServerTyped == server \in [rev : Nat, text : Wordings]

LEMMA ServerStep ==
  ASSUME DraftsTyped, [DraftsNext]_draftVars
  PROVE  ServerTyped'
<1>1. ServerTyped
  BY DEF DraftsTyped, ServerTyped
<1>2. CASE UNCHANGED server
  BY <1>1, <1>2 DEF ServerTyped
<1>3. CASE \E w \in Writers : ServerAnswers(w) /\ ~UNCHANGED server
  <2>1. PICK w \in Writers : ServerAnswers(w) /\ ~UNCHANGED server
    BY <1>3
  <2>2. /\ server' = [rev |-> server.rev + 1, text |-> editor[w].saving.text]
        /\ editor[w].saving # None
    BY <2>1 DEF ServerAnswers
  <2>3. editor[w].saving.text \in Wordings
    BY <2>2 DEF DraftsTyped, Editors
  <2> QED BY <1>1, <2>2, <2>3 DEF ServerTyped
<1>4. CASE \E text \in Wordings : OthersWrite(text)
  BY <1>1, <1>4 DEF OthersWrite, ServerTyped
<1> QED
  BY <1>2, <1>3, <1>4 DEF DraftsNext, draftVars, Open, Flush, Operate, OperationFails, Refresh,
     Protected, ProtectionFails, SaveText, SaveHeard, KeepDraft, Cancel, LeaveEditor, Crash,
     Write, Recover, Discard, LibraryDeletes, Acts

\* Everything is kept by a step in which copies only leave as handled and editors stay.
LEMMA AsideKeeps ==
  ASSUME DraftsInv, ServerTyped', UNCHANGED <<editor, ids>>, OnlyHandledLeave
  PROVE  DraftsInv'
<1>1. DraftsTyped'
  BY DEF DraftsInv, DraftsTyped, ServerTyped, OnlyHandledLeave
<1>2. Numbered' /\ Reserved'
  BY DEF DraftsInv, Numbered, Reserved, OnlyHandledLeave
<1>3. TakenOver'
  BY DEF DraftsInv, TakenOver, OnlyHandledLeave
<1>4. Held'
  BY DEF DraftsInv, Held, OnlyHandledLeave
<1>5. EachSelf'
  BY DEF DraftsInv, EachSelf
<1> QED BY <1>1, <1>2, <1>3, <1>4, <1>5 DEF DraftsInv

\* One editor proceeds; the others stay.
LEMMA ProceedsKeeps ==
  ASSUME NEW w \in Writers, DraftsInv, ServerTyped', ProceedsWell(w)
  PROVE  DraftsInv'
<1>1. PICK n : Proceeds(w, n) /\ SelfInv(n)
  BY DEF ProceedsWell
<1> DEFINE e == editor[w]
<1>2. /\ e # Closed /\ Continues(e, n) /\ OnlyHandledLeave /\ ids' = ids
      /\ editor' = [editor EXCEPT ![w] = n] /\ e \in Editors /\ n \in Editors
  BY <1>1 DEF Proceeds, EditorIs, Continues, DraftsInv, DraftsTyped
<1>3. editor'[w] = n /\ \A v \in Writers \ {w} : editor'[v] = editor[v]
  BY <1>2 DEF DraftsInv, DraftsTyped
<1>4. DraftsTyped'
  BY <1>2 DEF DraftsInv, DraftsTyped, ServerTyped, OnlyHandledLeave
<1>5. /\ n.id = e.id /\ n.entry = e.entry /\ n.open \in {e.open, FALSE}
      /\ n.recovering \in {e.recovering, None} /\ n.accepted \subseteq e.accepted \cup handled'
      /\ \A op \in Waiting(n) : op \in Waiting(e) \/ ~Taking(op) \/ op.accepted = e.accepted
  BY <1>2 DEF Continues
<1>6. store' \subseteq store /\ handled \subseteq handled' /\ store \cup handled \subseteq store' \cup handled'
  BY <1>2 DEF OnlyHandledLeave
<1>7. e.id # 0 /\ e.id <= ids
  BY <1>2 DEF DraftsInv, Numbered
<1>8. Numbered'
  BY <1>2, <1>3, <1>5, <1>6, <1>7 DEF DraftsInv, Numbered
<1>9. Reserved'
  BY <1>2, <1>3, <1>5, <1>6 DEF DraftsInv, Reserved
<1>10. TakenOver'
  BY <1>2, <1>3, <1>5, <1>6 DEF DraftsInv, TakenOver
<1>11. Held'
  BY <1>2, <1>3, <1>5, <1>6 DEF DraftsInv, Held
<1>12. EachSelf'
  BY <1>1, <1>3 DEF DraftsInv, EachSelf
<1> QED BY <1>4, <1>8, <1>9, <1>10, <1>11, <1>12 DEF DraftsInv

\* A writer's first operation is done: it puts or removes the writer's own copy, and what
\* the writer took over.
LEMMA StoredFacts ==
  ASSUME NEW e \in Editors, e.queue # <<>>, store \subseteq Copies,
         NEW kept, kept = Stored(e)
  PROVE  LET op == Head(e.queue) IN
         /\ kept \subseteq Copies /\ \A d \in kept : d \in store \/ d.id = e.id
         /\ \A d \in store : d \in kept \/ d.id = e.id \/ (Taking(op) /\ d \in op.accepted)
         /\ op.kind = "put" => Copy(e.id, op.text) \in kept
<1> DEFINE op == Head(e.queue)
<1>1. op \in Operations /\ e.id \in Nat
  BY OperationFacts DEF Editors
<1>2. op.kind \in {"put", "clear", "saved", "discard"}
  BY <1>1 DEF Operations
<1>3. \A d \in Own(e) : d.id = e.id
  BY DEF Own, Copy
<1>4. \A x : Copy(e.id, x).id = e.id
  BY DEF Copy
<1>5. op.kind = "put" => Copy(e.id, op.text) \in Copies
  BY <1>1 DEF Copy, Copies, Operations
<1> HIDE DEF op
<1>6. CASE op.kind = "put"
  <2>1. kept = {d \in store : d.id # Copy(e.id, op.text).id} \cup {Copy(e.id, op.text)}
    BY <1>6 DEF Stored, Put, op
  <2> QED BY <1>4, <1>5, <1>6, <2>1 DEF op
<1>7. CASE op.kind = "clear"
  <2>1. kept = store \ Own(e)
    BY <1>7 DEF Stored, Removed, op
  <2> QED BY <1>3, <1>7, <2>1 DEF op
<1>8. CASE op.kind = "saved"
  <2>1. \E mine \in SUBSET Own(e) : kept = store \ (op.accepted \cup mine)
    BY <1>8 DEF Stored, Removed, op
  <2> QED BY <1>3, <1>8, <2>1 DEF op, Taking
<1>9. CASE op.kind = "discard"
  <2>1. kept = store \ (op.accepted \cup Own(e))
    BY <1>9 DEF Stored, Removed, op
  <2> QED BY <1>3, <1>9, <2>1 DEF op, Taking
<1> QED BY <1>2, <1>6, <1>7, <1>8, <1>9

LEMMA OperateKeeps ==
  ASSUME NEW w \in Writers, DraftsInv, ServerTyped', Operate(w)
  PROVE  DraftsInv'
<1> DEFINE e == editor[w]
           n == OperationDone(e)
           op == Head(e.queue)
<1>1. /\ e \in Editors /\ e.queue # <<>> /\ store' = Stored(e) /\ store \subseteq Copies
      /\ editor' = [editor EXCEPT ![w] = n] /\ handled' = handled /\ ids' = ids
  BY DEF Operate, EditorIs, DraftsInv, DraftsTyped
<1>2. /\ n \in Editors /\ n.open = e.open /\ n.id = e.id /\ n.recovering = e.recovering
      /\ n.queue = Tail(e.queue) /\ n.base = e.base /\ n.text = e.text /\ n.active = e.active
      /\ n.timer = e.timer /\ n.skipped = e.skipped
      /\ n.accepted = IF op.kind = "saved" THEN {} ELSE e.accepted
      /\ op \in Operations
  BY <1>1, OperationFacts
<1>3. n.entry = CASE op.kind = "put" -> [text |-> op.text]
                  [] op.kind \in {"clear", "saved"} -> None
                  [] OTHER -> e.entry
  BY <1>1, OperationFacts
<1>4. /\ store' \subseteq Copies /\ \A d \in store' : d \in store \/ d.id = e.id
      /\ \A d \in store : d \in store' \/ d.id = e.id \/ (Taking(op) /\ d \in op.accepted)
      /\ op.kind = "put" => Copy(e.id, op.text) \in store'
  BY <1>1, StoredFacts
<1>5. Waiting(n) \subseteq Waiting(e) /\ op \in Waiting(e)
  BY <1>1, <1>2, WaitingFacts
<1>6. IF n.queue = <<>> THEN e.queue[Len(e.queue)] = op ELSE n.queue[Len(n.queue)] = e.queue[Len(e.queue)]
  BY <1>1, <1>2, LastWaiting
<1> HIDE DEF n, op
<1>7. Taking(op) => op.accepted \subseteq handled
  BY <1>5 DEF DraftsInv, TakenOver
<1>8. \A d \in store : d \in store' \cup handled \/ d.id = e.id
  BY <1>4, <1>7
<1>9. e.id # 0 /\ e.id <= ids
  BY <1>1, OpenedFacts DEF DraftsInv, Numbered
<1>10. editor'[w] = n /\ \A v \in Writers \ {w} : editor'[v] = editor[v] /\ editor[v].id # e.id
  BY <1>1, <1>9 DEF DraftsInv, DraftsTyped, Numbered
<1>11. DraftsTyped'
  BY <1>1, <1>2, <1>4 DEF DraftsInv, DraftsTyped, ServerTyped
<1>12. Numbered'
  BY <1>1, <1>2, <1>4, <1>9, <1>10 DEF DraftsInv, Numbered
<1>13. Reserved'
  BY <1>1, <1>2, <1>4, <1>10 DEF DraftsInv, Reserved
<1>14. TakenOver'
  BY <1>1, <1>2, <1>5, <1>10 DEF DraftsInv, TakenOver
<1>15. ASSUME n.open = TRUE, n.entry # None
       PROVE  Copy(n.id, n.entry.text) \in store' \cup handled
  <2>1. op.kind # "discard"
    BY <1>1, <1>2, <1>5, <1>15 DEF DraftsInv, EachSelf, SelfInv
  <2>2. op.kind = "put"
    BY <1>2, <1>3, <1>15, <2>1 DEF Operations
  <2>3. n.entry = [text |-> op.text]
    BY <1>3, <2>2
  <2> QED BY <1>2, <1>4, <2>2, <2>3
<1>16. Held'
  <2>1. ASSUME NEW v \in Writers \ {w}, editor[v].open = TRUE, editor[v].entry # None
        PROVE  Copy(editor[v].id, editor[v].entry.text) \in store' \cup handled
    <3>1. Copy(editor[v].id, editor[v].entry.text) \in store \cup handled
      BY <2>1 DEF DraftsInv, Held
    <3>2. Copy(editor[v].id, editor[v].entry.text).id = editor[v].id
      BY DEF Copy
    <3> QED BY <1>8, <1>10, <3>1, <3>2
  <2> QED BY <1>1, <1>10, <1>15, <2>1 DEF Held
<1>17. SelfInv(n)
  <2>1. SelfInv(e)
    BY DEF DraftsInv, EachSelf
  <2>2. n.queue # <<>> /\ Ends(e) => Ends(n)
    BY <1>1, <1>2, <1>6 DEF Ends
  <2>3. n.queue = <<>> /\ Ends(e) => Ends(n)
    <3>1. SUFFICES ASSUME n.queue = <<>>, Ends(e) PROVE n.entry = [text |-> n.text]
      BY DEF Ends
    <3>2. op = [kind |-> "put", text |-> e.text]
      BY <1>1, <1>6, <3>1 DEF Ends
    <3> QED BY <1>2, <1>3, <3>2
  <2> QED BY <1>2, <1>5, <2>1, <2>2, <2>3 DEF SelfInv
<1>18. EachSelf'
  BY <1>10, <1>17 DEF DraftsInv, EachSelf
<1> QED BY <1>11, <1>12, <1>13, <1>14, <1>16, <1>18 DEF DraftsInv

LEMMA RecoverKeeps ==
  ASSUME NEW w \in Writers, DraftsInv, ServerTyped', \E d \in editor[w].candidates : Recover(w, d)
  PROVE  DraftsInv'
<1> DEFINE e == editor[w]
<1>1. /\ e \in Editors /\ SelfInv(e) /\ store \subseteq Copies /\ handled \subseteq Copies /\ ids \in Nat
  BY DEF DraftsInv, DraftsTyped, EachSelf
<1>2. PICK d \in e.candidates : Recover(w, d)
  OBVIOUS
<1>3. d \in Copies /\ e.open = TRUE /\ store' = store /\ e.recovering = None
  BY <1>1, <1>2 DEF Editors, Recover, Acts
<1>4. e # Closed /\ e.id # 0 /\ e.id <= ids
  BY <1>1, <1>3, OpenedFacts DEF DraftsInv, Numbered
<1>5. CASE Accept(w, d) /\ UNCHANGED ids
  <2>1. PICK n \in Editors :
           /\ EditorIs(w, n) /\ SelfInv(n) /\ n.id = e.id /\ n.entry = e.entry
           /\ n.queue = e.queue /\ n.accepted = e.accepted \cup {d}
           /\ n.recovering = None /\ n.text = d.text /\ handled' = handled \cup {d}
    BY <1>1, <1>3, <1>5, AcceptFacts DEF DraftsInv
  <2>2. Waiting(n) = Waiting(e)
    BY <1>1, <2>1, WaitingFacts
  <2>3. n.open \in {e.open, FALSE}
    BY <1>3, <2>1 DEF Editors
  <2>4. Continues(e, n)
    BY <2>1, <2>2, <2>3 DEF Continues
  <2>5. OnlyHandledLeave
    BY <1>1, <1>3, <2>1 DEF OnlyHandledLeave
  <2>6. ProceedsWell(w)
    BY <1>4, <1>5, <2>1, <2>4, <2>5, ProceedsBy
  <2> QED BY <2>6, ProceedsKeeps
<1>6. CASE ids' = ids + 1 /\ handled' = handled
           /\ EditorIs(w, [e EXCEPT !.recovering = [copy |-> d, id |-> ids', text |-> e.text]])
  <2> DEFINE r == [copy |-> d, id |-> ids + 1, text |-> e.text]
             n == [e EXCEPT !.recovering = r]
  <2>1. n \in Editors /\ n.recovering = r /\ r.id = ids + 1 /\ r # None
    <3>1. r \in [copy : Copies, id : Nat, text : Wordings]
      BY <1>1, <1>3 DEF Editors
    <3>2. "none" \in DOMAIN None /\ "none" \notin DOMAIN r
      BY DEF None
    <3>3. r.id = ids + 1
      OBVIOUS
    <3> HIDE DEF r
    <3> QED BY <1>1, <3>1, <3>2, <3>3 DEF Editors
  <2>2. /\ n.id = e.id /\ n.entry = e.entry /\ n.accepted = e.accepted /\ n.queue = e.queue
        /\ n.open = e.open /\ n.active = e.active /\ n.timer = e.timer /\ n.skipped = e.skipped
        /\ n.text = e.text /\ n.base = e.base /\ n.status = e.status
    BY <1>1 DEF Editors
  <2>3. editor' = [editor EXCEPT ![w] = n]
    BY <1>6 DEF EditorIs
  <2> HIDE DEF n, r
  <2>4. Waiting(n) = Waiting(e) /\ SelfInv(n)
    BY <1>1, <2>1, <2>2, SelfSame, WaitingFacts
  <2>5. editor'[w] = n /\ \A v \in Writers \ {w} : editor'[v] = editor[v]
    BY <2>3 DEF DraftsInv, DraftsTyped
  <2>6. DraftsTyped'
    BY <1>1, <1>3, <1>6, <2>1, <2>3 DEF DraftsInv, DraftsTyped, ServerTyped
  <2>7. Numbered'
    <3>1. \A c \in store : c.id <= ids' /\ c.id # ids'
      BY <1>1, <1>6 DEF DraftsInv, Numbered, Copies
    <3>2. \A v \in Writers : editor[v].id <= ids'
      BY <1>1, <1>6 DEF DraftsInv, DraftsTyped, Numbered, Editors
    <3> QED BY <1>3, <1>4, <2>2, <2>5, <3>1, <3>2 DEF DraftsInv, Numbered
  <2>8. Reserved'
    <3>1. \A c \in store : c.id # ids'
      BY <1>1, <1>6 DEF DraftsInv, Numbered, Copies
    <3>2. \A v \in Writers : editor[v].id # ids'
      BY <1>1, <1>6 DEF DraftsInv, DraftsTyped, Numbered, Editors
    <3>3. \A v \in Writers : editor[v].recovering # None =>
            editor[v].recovering.id # ids' /\ editor[v].recovering.id <= ids'
      <4>1. \A v \in Writers : editor[v].recovering # None => editor[v].recovering.id \in Nat
        BY DEF DraftsInv, DraftsTyped, Editors
      <4> QED BY <1>1, <1>6, <4>1 DEF DraftsInv, Reserved
    <3>4. \A v \in Writers : editor'[v].id = editor[v].id
      BY <2>2, <2>5
    <3>5. ids' # 0
      BY <1>1, <1>6
    <3>6. editor'[w].recovering.id = ids'
      BY <1>6, <2>1, <2>5
    <3>7. ASSUME NEW v \in Writers, editor'[v].recovering # None
          PROVE  LET q == editor'[v].recovering IN
                 /\ q.id # 0 /\ q.id <= ids' /\ \A c \in store' : c.id # q.id
                 /\ \A u \in Writers : editor'[u].id # q.id
                 /\ \A u \in Writers \ {v} : editor'[u].recovering # None => editor'[u].recovering.id # q.id
      <4>1. CASE v = w
        <5>1. \A u \in Writers \ {v} : editor'[u].recovering # None => editor'[u].recovering.id # ids'
          BY <2>5, <3>3, <4>1
        <5> QED BY <1>1, <1>3, <1>6, <3>1, <3>2, <3>4, <3>5, <3>6, <4>1, <5>1
      <4>2. CASE v # w
        <5>1. editor'[v] = editor[v] /\ editor[v].recovering # None
          BY <2>5, <3>7, <4>2
        <5>2. \A u \in Writers \ {v} : editor'[u].recovering # None =>
                editor'[u].recovering.id # editor[v].recovering.id
          BY <2>5, <3>3, <3>6, <5>1 DEF DraftsInv, Reserved
        <5> QED BY <1>3, <3>3, <3>4, <5>1, <5>2 DEF DraftsInv, Reserved
      <4> QED BY <4>1, <4>2
    <3> QED BY <3>7 DEF Reserved
  <2>9. TakenOver'
    BY <1>6, <2>2, <2>4, <2>5 DEF DraftsInv, TakenOver
  <2>10. Held'
    BY <1>3, <1>6, <2>2, <2>5 DEF DraftsInv, Held
  <2>11. EachSelf'
    BY <2>4, <2>5 DEF DraftsInv, EachSelf
  <2> QED BY <2>6, <2>7, <2>8, <2>9, <2>10, <2>11 DEF DraftsInv
<1> QED BY <1>2, <1>5, <1>6 DEF Recover

\* The protective copy is stored under its own ID, and the other one may be taken over.
LEMMA ProtectedFacts ==
  ASSUME NEW w \in Writers, DraftsInv, Protected(w)
  PROVE  LET e == editor[w]
             c == Copy(e.recovering.id, e.recovering.text) IN
         /\ c \in Copies /\ c.id = e.recovering.id /\ e.recovering # None
         /\ store' = store \cup {c} /\ ids' = ids
         /\ \E n \in Editors :
              /\ EditorIs(w, n) /\ SelfInv(n) /\ n.id = e.id /\ n.entry = e.entry
              /\ n.open \in {e.open, FALSE} /\ n.queue = e.queue
              /\ n.accepted \subseteq e.accepted \cup handled'
              /\ n.recovering = None /\ handled \subseteq handled' /\ handled' \subseteq Copies
              /\ n.accepted = e.accepted \/ e.text = e.recovering.text
<1> DEFINE e == editor[w]
           r == e.recovering
           c == Copy(r.id, r.text)
<1>1. /\ e \in Editors /\ SelfInv(e) /\ store \subseteq Copies /\ handled \subseteq Copies /\ ids \in Nat
      /\ e.recovering # None
  BY DEF DraftsInv, DraftsTyped, EachSelf, Protected
<1>2. r \in [copy : Copies, id : Nat, text : Wordings]
  BY <1>1 DEF Editors
<1>3. c \in Copies /\ c.id = r.id
  BY <1>2 DEF Copy, Copies
<1>4. store' = store \cup {c} /\ ids' = ids
  <2>1. store' = {d \in store : d.id # c.id} \cup {c} /\ ids' = ids
    BY DEF Protected, Put
  <2>2. \A d \in store : d.id # r.id
    BY <1>1 DEF DraftsInv, Reserved
  <2> QED BY <1>3, <2>1, <2>2
<1>5. \E n \in Editors :
        /\ EditorIs(w, n) /\ SelfInv(n) /\ n.id = e.id /\ n.entry = e.entry
        /\ n.open \in {e.open, FALSE} /\ n.queue = e.queue
        /\ n.accepted \subseteq e.accepted \cup handled'
        /\ n.recovering = None /\ handled \subseteq handled' /\ handled' \subseteq Copies
        /\ n.accepted = e.accepted \/ e.text = r.text
  <2>1. CASE Untouched(e) /\ Accept(w, r.copy)
    <3>1. r.copy \in Copies /\ e.text = r.text
      BY <1>2, <2>1 DEF Untouched
    <3>2. PICK n \in Editors :
           /\ EditorIs(w, n) /\ SelfInv(n) /\ n.id = e.id /\ n.entry = e.entry
           /\ n.queue = e.queue /\ n.accepted = e.accepted \cup {r.copy} /\ n.recovering = None
           /\ n.text = r.copy.text /\ handled' = handled \cup {r.copy}
      BY <1>1, <2>1, <3>1, AcceptFacts DEF DraftsInv
    <3>3. n.open \in {e.open, FALSE}
      <4>1. EditorIs(w, Changed([e EXCEPT !.recovering = None, !.accepted = @ \cup {r.copy},
                          !.candidates = {x \in @ : x.id # r.copy.id}], r.copy.text))
        BY <2>1 DEF Accept
      <4>2. n = Changed([e EXCEPT !.recovering = None, !.accepted = @ \cup {r.copy},
                          !.candidates = {x \in @ : x.id # r.copy.id}], r.copy.text)
        BY <3>2, <4>1 DEF EditorIs, DraftsInv, DraftsTyped
      <4> QED BY <1>1, <4>2 DEF Changed, Editors
    <3> QED BY <1>1, <3>1, <3>2, <3>3
  <2>2. CASE EditorIs(w, [e EXCEPT !.recovering = None]) /\ UNCHANGED handled
    <3> DEFINE n == [e EXCEPT !.recovering = None]
    <3>1. /\ n \in Editors /\ n.id = e.id /\ n.entry = e.entry /\ n.accepted = e.accepted
          /\ n.recovering = None /\ n.queue = e.queue
          /\ n.open = e.open /\ n.active = e.active /\ n.timer = e.timer /\ n.skipped = e.skipped
          /\ n.text = e.text /\ n.base = e.base /\ n.status = e.status
      BY <1>1 DEF Editors
    <3>2. SelfInv(n)
      BY <1>1, <3>1, SelfSame
    <3> QED BY <1>1, <2>2, <3>1, <3>2
  <2> QED BY <2>1, <2>2 DEF Protected
<1> QED BY <1>1, <1>3, <1>4, <1>5

LEMMA ProtectedKeeps ==
  ASSUME NEW w \in Writers, DraftsInv, ServerTyped', Protected(w)
  PROVE  DraftsInv'
<1> DEFINE e == editor[w]
           c == Copy(e.recovering.id, e.recovering.text)
<1>1. /\ c \in Copies /\ c.id = e.recovering.id /\ e.recovering # None
      /\ store' = store \cup {c} /\ ids' = ids
  BY ProtectedFacts
<1>2. PICK n \in Editors :
              /\ EditorIs(w, n) /\ SelfInv(n) /\ n.id = e.id /\ n.entry = e.entry
              /\ n.open \in {e.open, FALSE} /\ n.queue = e.queue
              /\ n.accepted \subseteq e.accepted \cup handled'
              /\ n.recovering = None /\ handled \subseteq handled' /\ handled' \subseteq Copies
  BY ProtectedFacts
<1> HIDE DEF c
<1>3. e \in Editors /\ e # Closed /\ editor' = [editor EXCEPT ![w] = n]
  BY <1>1, <1>2, OpenedFacts DEF DraftsInv, DraftsTyped, EditorIs
<1>4. editor'[w] = n /\ \A v \in Writers \ {w} : editor'[v] = editor[v]
  BY <1>3 DEF DraftsInv, DraftsTyped
<1>5. Waiting(n) = Waiting(e)
  BY <1>2, <1>3, WaitingFacts
<1>6. e.recovering.id # 0 /\ e.recovering.id <= ids /\ (\A v \in Writers : editor[v].id # e.recovering.id)
      /\ (\A v \in Writers \ {w} : editor[v].recovering # None => editor[v].recovering.id # e.recovering.id)
  BY <1>1 DEF DraftsInv, Reserved
<1>7. e.id # 0
  BY <1>3 DEF DraftsInv, Numbered
<1>8. DraftsTyped'
  BY <1>1, <1>2, <1>3 DEF DraftsInv, DraftsTyped, ServerTyped
<1>9. Numbered'
  BY <1>1, <1>2, <1>4, <1>6, <1>7 DEF DraftsInv, Numbered
<1>10. Reserved'
  BY <1>1, <1>2, <1>4, <1>6 DEF DraftsInv, Reserved
<1>11. TakenOver'
  BY <1>2, <1>4, <1>5 DEF DraftsInv, TakenOver
<1>12. Held'
  BY <1>1, <1>2, <1>4 DEF DraftsInv, Held
<1>13. EachSelf'
  BY <1>2, <1>4 DEF DraftsInv, EachSelf
<1> QED BY <1>8, <1>9, <1>10, <1>11, <1>12, <1>13 DEF DraftsInv

\* A new editor, under a new ID, or the end of a tab.
LEMMA FreshKeeps ==
  ASSUME NEW w \in Writers, DraftsInv, ServerTyped', Open(w) \/ Crash(w)
  PROVE  DraftsInv'
<1>1. \E n \in Editors :
        /\ editor' = [editor EXCEPT ![w] = n] /\ store' = store /\ handled' = handled
        /\ ids' \in {ids, ids + 1} /\ SelfInv(n) /\ Waiting(n) = {} /\ n.accepted = {}
        /\ n.entry = None /\ n.recovering = None
        /\ n = Closed \/ (n.id = ids' /\ ids' = ids + 1)
  <2>0. Closed.queue = <<>> /\ Closed.open = FALSE
    BY DEF Closed
  <2>1. CASE Open(w)
    <3> DEFINE n == [Closed EXCEPT !.open = TRUE, !.id = ids', !.rev = server.rev,
                        !.base = server.text, !.text = server.text, !.active = TRUE]
    <3>1. ids' = ids + 1 /\ ids' \in Nat /\ server \in [rev : Nat, text : Wordings]
      BY <2>1 DEF Open, DraftsInv, DraftsTyped
    <3> DEFINE num == ids'
               rev == server.rev
               text == server.text
    <3>a. num \in Nat /\ rev \in Nat /\ text \in Wordings /\ Closed \in Editors
      BY <3>1, ClosedTyped
    <3>b. n = [Closed EXCEPT !.open = TRUE, !.id = num, !.rev = rev, !.base = text,
                             !.text = text, !.active = TRUE]
      OBVIOUS
    <3>c. /\ Closed.queue = <<>> /\ Closed.accepted = {} /\ Closed.entry = None
          /\ Closed.recovering = None
      BY DEF Closed
    <3> HIDE DEF n, num, rev, text
    <3>d. n \in Editors
      BY ONLY <3>a, <3>b DEF Editors
    <3>e. /\ n.queue = Closed.queue /\ n.accepted = Closed.accepted /\ n.entry = Closed.entry
          /\ n.recovering = Closed.recovering
      BY ONLY <3>a, <3>b DEF Editors
    <3>f. n.id = num /\ n.base = text /\ n.text = text /\ n.active = TRUE
      BY ONLY <3>a, <3>b DEF Editors
    <3>2. /\ n \in Editors /\ n.queue = <<>> /\ n.accepted = {} /\ n.entry = None
          /\ n.recovering = None /\ n.id = ids' /\ n.base = n.text /\ n.active = TRUE
      BY <3>c, <3>d, <3>e, <3>f DEF num
    <3>3. Waiting(n) = {} /\ SelfInv(n)
      BY <3>2 DEF Waiting, SelfInv
    <3>4. EditorIs(w, n) /\ UNCHANGED <<store, handled>>
      BY <2>1 DEF Open, n
    <3> QED BY <3>1, <3>2, <3>3, <3>4 DEF EditorIs
  <2>2. CASE Crash(w)
    <3>1. Waiting(Closed) = {} /\ SelfInv(Closed)
      BY <2>0 DEF Waiting, SelfInv
    <3>2. Closed.accepted = {} /\ Closed.entry = None /\ Closed.recovering = None
      BY DEF Closed
    <3>3. EditorIs(w, Closed) /\ UNCHANGED <<store, handled, ids>>
      BY <2>2 DEF Crash
    <3> QED BY <3>1, <3>2, <3>3, ClosedTyped DEF EditorIs
  <2> QED BY <2>1, <2>2
<1>2. PICK n \in Editors :
        /\ editor' = [editor EXCEPT ![w] = n] /\ store' = store /\ handled' = handled
        /\ ids' \in {ids, ids + 1} /\ SelfInv(n) /\ Waiting(n) = {} /\ n.accepted = {}
        /\ n.entry = None /\ n.recovering = None
        /\ n = Closed \/ (n.id = ids' /\ ids' = ids + 1)
  BY <1>1
<1>3. editor'[w] = n /\ \A v \in Writers \ {w} : editor'[v] = editor[v]
  BY <1>2 DEF DraftsInv, DraftsTyped
<1>4. ids \in Nat /\ ids' \in Nat /\ ids <= ids' /\ Closed.id = 0
  BY <1>2 DEF DraftsInv, DraftsTyped, Closed
<1>5. /\ \A v \in Writers : editor[v].id \in Nat /\ editor[v].id <= ids
      /\ \A d \in store : d.id \in Nat /\ d.id <= ids
      /\ \A v \in Writers : editor[v].recovering # None =>
            editor[v].recovering.id \in Nat /\ editor[v].recovering.id <= ids
  BY DEF DraftsInv, DraftsTyped, Numbered, Reserved, Editors, Copies
<1>6. DraftsTyped'
  BY <1>2, <1>4 DEF DraftsInv, DraftsTyped, ServerTyped
<1>7. n.id \in {0, ids + 1} /\ n.id <= ids' /\ (n.id = 0 => n = Closed)
  BY <1>2, <1>4
<1>8. Numbered'
  <2>1. \A d \in store' : d.id <= ids'
    BY <1>2, <1>4, <1>5
  <2>2. \A v \in Writers : editor'[v].id <= ids' /\ (editor'[v].id = 0 => editor'[v] = Closed)
    BY <1>3, <1>4, <1>5, <1>7 DEF DraftsInv, Numbered
  <2>3. \A u, v \in Writers : u # v /\ editor'[u].id = editor'[v].id => editor'[u].id = 0
    <3>1. \A v \in Writers \ {w} : editor[v].id = n.id => n.id = 0
      BY <1>4, <1>5, <1>7
    <3> QED BY <1>3, <3>1 DEF DraftsInv, Numbered
  <2> QED BY <2>1, <2>2, <2>3 DEF Numbered
<1>9. Reserved'
  <2>1. \A v \in Writers : editor[v].recovering # None =>
           editor[v].recovering.id # 0 /\ editor[v].recovering.id # n.id /\ editor[v].recovering.id <= ids'
    BY <1>4, <1>5, <1>7 DEF DraftsInv, Reserved
  <2> QED BY <1>2, <1>3, <2>1 DEF DraftsInv, Reserved
<1>10. TakenOver'
  BY <1>2, <1>3 DEF DraftsInv, TakenOver
<1>11. Held'
  BY <1>2, <1>3 DEF DraftsInv, Held
<1>12. EachSelf'
  BY <1>2, <1>3 DEF DraftsInv, EachSelf
<1> QED BY <1>6, <1>8, <1>9, <1>10, <1>11, <1>12 DEF DraftsInv

\* Copies deleted from the list, and what other users store.
LEMMA ElsewhereAside ==
  ASSUME DraftsTyped,
         (\E d \in store : LibraryDeletes(d)) \/ (\E text \in Wordings : OthersWrite(text))
           \/ UNCHANGED draftVars
  PROVE  UNCHANGED <<editor, ids>> /\ OnlyHandledLeave
<1>1. CASE \E d \in store : LibraryDeletes(d)
  BY <1>1 DEF LibraryDeletes, Removed, OnlyHandledLeave, DraftsTyped
<1>2. CASE \E text \in Wordings : OthersWrite(text)
  BY <1>2 DEF OthersWrite, OnlyHandledLeave, DraftsTyped
<1>3. CASE UNCHANGED draftVars
  BY <1>3 DEF draftVars, OnlyHandledLeave, DraftsTyped
<1> QED BY <1>1, <1>2, <1>3

\* The steps of one writer that leave the storage but for handled copies.
Usual(w) ==
  \/ Flush(w) \/ OperationFails(w) \/ Refresh(w) \/ ProtectionFails(w) \/ SaveText(w)
  \/ ServerAnswers(w) \/ SaveHeard(w) \/ KeepDraft(w) \/ Cancel(w) \/ LeaveEditor(w)
  \/ (\E text \in Wordings : Write(w, text)) \/ (\E d \in editor[w].candidates : Discard(w, d))

LEMMA UsualProceeds ==
  ASSUME NEW w \in Writers, DraftsInv, Usual(w)
  PROVE  ProceedsWell(w)
<1>1. Before(w)
  BY DEF Before, DraftsInv, EachSelf
<1> QED BY <1>1, FlushProceeds, OperationFailsProceeds, AsideProceeds, SaveHeardProceeds,
           LeaveProceeds, WriteProceeds, DiscardProceeds DEF Usual

LEMMA DraftCases ==
  ASSUME [DraftsNext]_draftVars
  PROVE  \/ \E w \in Writers :
              \/ Usual(w) \/ Operate(w) \/ Protected(w) \/ Open(w) \/ Crash(w)
              \/ \E d \in editor[w].candidates : Recover(w, d)
         \/ (\E d \in store : LibraryDeletes(d)) \/ (\E text \in Wordings : OthersWrite(text))
         \/ UNCHANGED draftVars
BY DEF DraftsNext, Usual

LEMMA DraftsStep == DraftsInv /\ [DraftsNext]_draftVars => DraftsInv'
<1> SUFFICES ASSUME DraftsInv, [DraftsNext]_draftVars PROVE DraftsInv'
  OBVIOUS
<1>1. DraftsTyped /\ ServerTyped'
  BY ServerStep DEF DraftsInv
<1>2. ASSUME NEW w \in Writers,
             \/ Usual(w) \/ Operate(w) \/ Protected(w) \/ Open(w) \/ Crash(w)
             \/ \E d \in editor[w].candidates : Recover(w, d)
      PROVE  DraftsInv'
  BY <1>1, <1>2, UsualProceeds, ProceedsKeeps, OperateKeeps, ProtectedKeeps, FreshKeeps, RecoverKeeps
<1>3. CASE \/ (\E d \in store : LibraryDeletes(d)) \/ (\E text \in Wordings : OthersWrite(text))
           \/ UNCHANGED draftVars
  BY <1>1, <1>3, ElsewhereAside, AsideKeeps
<1> QED BY <1>2, <1>3, DraftCases

LEMMA DraftsInvariance == DraftsSpec => []DraftsInv
<1> QED BY DraftsInitInv, DraftsStep, PTL DEF DraftsSpec

LEMMA DraftsOfParts == PartsSpec => DraftsSpec
<1>1. PartsInit => DraftsInit
  BY DEF PartsInit
<1>2. [PartsNext]_partVars => [DraftsNext]_draftVars
  BY DEF PartsNext, partVars, draftVars
<1> QED BY <1>1, <1>2, PTL DEF PartsSpec, DraftsSpec

\* For every number of writers, whatever they type, recover, save, fail and leave, and
\* whatever the other tabs do to the same storage: an open editor that rests has its
\* unsaved text in the browser's storage, unless a user took that copy over or deleted
\* it, a failure is shown, or the pause came while an operation was still to come.
THEOREM UnsavedTextIsStored == PartsSpec => []UnsavedIsStored
<1>1. DraftsInv => UnsavedIsStored
  <2> SUFFICES ASSUME DraftsInv, NEW w \in Writers,
                      editor[w].open, editor[w].text # editor[w].base, ~editor[w].timer,
                      editor[w].queue = <<>>, editor[w].status # "unavailable", ~editor[w].skipped
               PROVE  Copy(editor[w].id, editor[w].text) \in store \cup handled
    BY DEF UnsavedIsStored
  <2> DEFINE e == editor[w]
  <2>1. e \in Editors
    BY DEF DraftsInv, DraftsTyped
  <2>2. e.open = TRUE /\ e.timer = FALSE /\ e.skipped = FALSE
    BY <2>1 DEF Editors
  <2>3. Ends(e)
    BY <2>2 DEF DraftsInv, EachSelf, SelfInv
  <2>4. e.entry = [text |-> e.text]
    BY <2>3 DEF Ends
  <2>5. e.entry # None /\ e.entry.text = e.text
    BY <2>4, NoneIsNoEntry
  <2> QED BY <2>2, <2>5 DEF DraftsInv, Held
<1> QED BY <1>1, DraftsInvariance, DraftsOfParts, PTL

\* A step that takes a copy from the storage.
LEMMA CopiesLeaveStep ==
  ASSUME DraftsInv, DraftsInv', [DraftsNext]_draftVars
  PROVE  CopiesLeaveForAReason
<1>1. DraftsTyped
  BY DEF DraftsInv
<1>2. CASE OnlyHandledLeave
  BY <1>2 DEF OnlyHandledLeave, CopiesLeaveForAReason
<1>3. ASSUME NEW w \in Writers, Usual(w) PROVE OnlyHandledLeave
  BY <1>3, UsualProceeds DEF ProceedsWell, Proceeds
<1>4. ASSUME NEW w \in Writers, Operate(w) PROVE CopiesLeaveForAReason
  <2> DEFINE e == editor[w]
             op == Head(e.queue)
  <2>1. /\ e \in Editors /\ e.queue # <<>> /\ store' = Stored(e) /\ store \subseteq Copies
        /\ editor' = [editor EXCEPT ![w] = OperationDone(e)] /\ handled' = handled
    BY <1>1, <1>4 DEF Operate, EditorIs, DraftsTyped
  <2>2. \A d \in store : d \in store' \/ d.id = e.id \/ (Taking(op) /\ d \in op.accepted)
    BY <2>1, StoredFacts
  <2>3. op \in Waiting(e)
    BY <2>1, WaitingFacts
  <2>4. Taking(op) => op.accepted \subseteq handled
    BY <2>3 DEF DraftsInv, TakenOver
  <2>5. editor'[w].queue = Tail(e.queue)
    BY <1>1, <2>1, OperationFacts DEF DraftsTyped
  <2>6. Tail(e.queue) # e.queue
    <3>1. Len(Tail(e.queue)) = Len(e.queue) - 1 /\ Len(e.queue) \in Nat
      BY <2>1 DEF Editors
    <3>2. SUFFICES ASSUME Tail(e.queue) = e.queue PROVE FALSE
      OBVIOUS
    <3>3. Len(Tail(e.queue)) = Len(e.queue)
      BY <3>2
    <3> HIDE DEF e
    <3> QED BY ONLY <3>1, <3>3
  <2> QED BY <2>1, <2>2, <2>4, <2>5, <2>6 DEF CopiesLeaveForAReason
<1>5. ASSUME NEW w \in Writers, Protected(w) \/ Open(w) \/ Crash(w)
                                  \/ \E d \in editor[w].candidates : Recover(w, d)
      PROVE  CopiesLeaveForAReason
  <2>1. store \subseteq store'
    BY <1>5, ProtectedFacts DEF Open, Crash, Recover
  <2> QED BY <2>1 DEF CopiesLeaveForAReason
<1>6. CASE \/ (\E d \in store : LibraryDeletes(d)) \/ (\E text \in Wordings : OthersWrite(text))
           \/ UNCHANGED draftVars
  BY <1>1, <1>2, <1>6, ElsewhereAside
<1> QED BY <1>2, <1>3, <1>4, <1>5, <1>6, DraftCases

\* Only a copy that is taken over changes what was.
LEMMA UsualTakesNothing ==
  ASSUME NEW w, Before(w), Usual(w)
  PROVE  editor'[w].accepted = editor[w].accepted
<1> DEFINE e == editor[w]
<1>1. e \in Editors /\ store \subseteq Copies /\ w \in Writers /\ editor \in [Writers -> Editors]
  BY DEF Before, DraftsTyped
<1>2. ASSUME NEW n, EditorIs(w, n) PROVE editor'[w] = n
  BY <1>1, <1>2 DEF EditorIs
<1>3. CASE \E text \in Wordings : Write(w, text)
  <2>1. PICK text \in Wordings : Write(w, text)
    BY <1>3
  <2>2. editor'[w] = Changed(e, text)
    BY <1>2, <2>1 DEF Write
  <2>3. text \in Wordings
    BY <2>1
  <2>4. Changed(e, text).accepted = e.accepted
    BY <1>1, <2>3, ChangedFacts
  <2> QED BY <2>2, <2>4
<1>4. CASE Flush(w)
  BY <1>1, <1>2, <1>4, FlushedFacts DEF Flush
<1>5. CASE OperationFails(w)
  <2>1. EditorIs(w, [e EXCEPT !.queue = Tail(@), !.status = "unavailable"])
    BY <1>5 DEF OperationFails
  <2>2. [e EXCEPT !.queue = Tail(@), !.status = "unavailable"].accepted = e.accepted
    BY <1>1 DEF Editors
  <2> QED BY <1>2, <2>1, <2>2
<1>6. CASE Refresh(w) \/ SaveText(w) \/ ServerAnswers(w) \/ KeepDraft(w) \/ ProtectionFails(w)
  <2>1. /\ \A c : [e EXCEPT !.candidates = c].accepted = e.accepted
        /\ \A s : [e EXCEPT !.saving = s].accepted = e.accepted
        /\ \A a : [e EXCEPT !.saving.answer = a].accepted = e.accepted
        /\ \A r : [e EXCEPT !.conflict = FALSE, !.rev = r].accepted = e.accepted
        /\ [e EXCEPT !.status = "unavailable"].accepted = e.accepted
        /\ [e EXCEPT !.recovering = None, !.status = "unavailable"].accepted = e.accepted
    BY <1>1 DEF Editors
  <2>2. CASE Refresh(w)
    <3>1. \/ \E c : EditorIs(w, [e EXCEPT !.candidates = c])
          \/ EditorIs(w, [e EXCEPT !.status = "unavailable"])
      BY <2>2 DEF Refresh
    <3> QED BY <1>2, <2>1, <3>1
  <2>3. CASE SaveText(w)
    <3>1. \E s : EditorIs(w, [e EXCEPT !.saving = s])
      BY <2>3 DEF SaveText
    <3> QED BY <1>2, <2>1, <3>1
  <2>4. CASE ServerAnswers(w)
    <3>1. \E a : EditorIs(w, [e EXCEPT !.saving.answer = a])
      BY <2>4 DEF ServerAnswers
    <3> QED BY <1>2, <2>1, <3>1
  <2>5. CASE KeepDraft(w)
    <3>1. \E r : EditorIs(w, [e EXCEPT !.conflict = FALSE, !.rev = r])
      BY <2>5 DEF KeepDraft
    <3> QED BY <1>2, <2>1, <3>1
  <2>6. CASE ProtectionFails(w)
    BY <1>2, <2>1, <2>6 DEF ProtectionFails
  <2> QED BY <1>6, <2>2, <2>3, <2>4, <2>5, <2>6
<1>7. CASE SaveHeard(w)
  <2> DEFINE d == [e EXCEPT !.saving = None]
             text == e.saving.text
  <2>1. e.saving # None /\ text \in Wordings
    BY <1>1, <1>7 DEF SaveHeard, Editors
  <2>2. d \in Editors /\ d.accepted = e.accepted
    BY <1>1 DEF Editors
  <2>3. \/ \E b \in BOOLEAN : EditorIs(w, [d EXCEPT !.conflict = b])
        \/ EditorIs(w, Unmounted(Saved(d, text)))
        \/ EditorIs(w, [Saved(d, text) EXCEPT !.rev = @ + 1])
    BY <1>7 DEF SaveHeard
  <2> HIDE DEF d, text
  <2>4. Saved(d, text) \in Editors /\ Saved(d, text).accepted = e.accepted
    BY <2>1, <2>2, SavedFacts
  <2>5. Unmounted(Saved(d, text)).accepted = e.accepted
    BY <2>4, UnmountedFacts
  <2>6. [Saved(d, text) EXCEPT !.rev = @ + 1].accepted = e.accepted
    BY <2>4 DEF Editors
  <2>7. \A b : [d EXCEPT !.conflict = b].accepted = e.accepted
    BY <2>2 DEF Editors
  <2> QED BY <1>2, <2>3, <2>5, <2>6, <2>7
<1>8. CASE Cancel(w)
  <2>1. EditorIs(w, Unmounted(Discarded(e)))
    BY <1>8 DEF Cancel
  <2>2. Discarded(e) \in Editors /\ Discarded(e).accepted = e.accepted
    BY <1>1, DiscardedFacts
  <2>3. Unmounted(Discarded(e)).accepted = e.accepted
    BY <2>2, UnmountedFacts
  <2> QED BY <1>2, <2>1, <2>3
<1>9. CASE LeaveEditor(w)
  BY <1>1, <1>2, <1>9, UnmountedFacts DEF LeaveEditor
<1>10. CASE \E d \in e.candidates : Discard(w, d)
  <2>1. \E c : EditorIs(w, [e EXCEPT !.candidates = c])
    BY <1>10 DEF Discard
  <2>2. \A c : [e EXCEPT !.candidates = c].accepted = e.accepted
    BY <1>1 DEF Editors
  <2> QED BY <1>2, <2>1, <2>2
<1>11. \/ (\E text \in Wordings : Write(w, text)) \/ Flush(w) \/ OperationFails(w)
       \/ (Refresh(w) \/ SaveText(w) \/ ServerAnswers(w) \/ KeepDraft(w) \/ ProtectionFails(w))
       \/ SaveHeard(w) \/ Cancel(w) \/ LeaveEditor(w) \/ \E d \in e.candidates : Discard(w, d)
  BY DEF Usual
<1> QED BY <1>3, <1>4, <1>5, <1>6, <1>7, <1>8, <1>9, <1>10, <1>11

\* A step that replaces text that was not saved.
LEMMA RecoveryStep ==
  ASSUME DraftsInv, [DraftsNext]_draftVars
  PROVE  RecoveryKeepsText
<1> SUFFICES ASSUME NEW v \in Writers, editor'[v].accepted # {},
                    editor'[v].accepted # editor[v].accepted,
                    editor[v].text # editor[v].base, editor[v].text # editor'[v].text
             PROVE  \E d \in store' \cup handled : d.text = editor[v].text /\ d.id # editor[v].id
  BY DEF RecoveryKeepsText
<1> DEFINE e == editor[v]
           n == editor'[v]
<1>1. DraftsTyped
  BY DEF DraftsInv
<1>2. ASSUME NEW w \in Writers, EditorIs(w, editor'[w]) PROVE w = v
  BY <1>1, <1>2 DEF EditorIs, DraftsTyped
<1>3. ASSUME NEW w \in Writers, NEW m, EditorIs(w, m) PROVE w = v /\ n = m
  BY <1>1, <1>3 DEF EditorIs, DraftsTyped
<1>4. ASSUME NEW w \in Writers, Protected(w)
      PROVE  \E d \in store' : d.text = e.text /\ d.id # e.id
  <2>1. PICK m \in Editors : EditorIs(w, m) /\ (m.accepted = editor[w].accepted \/ editor[w].text = editor[w].recovering.text)
    BY <1>4, ProtectedFacts
  <2>2. w = v /\ n = m
    BY <1>3, <2>1
  <2>3. e.text = e.recovering.text
    BY <2>1, <2>2
  <2> DEFINE c == Copy(e.recovering.id, e.recovering.text)
  <2>4. c \in store' /\ c.id = e.recovering.id /\ e.recovering # None
    BY <1>4, <2>2, ProtectedFacts
  <2>5. c.text = e.text
    BY <2>3 DEF Copy
  <2>6. c.id # e.id
    BY <2>4 DEF DraftsInv, Reserved
  <2> QED BY <2>4, <2>5, <2>6
<1>5. ASSUME NEW w \in Writers, \E d \in editor[w].candidates : Recover(w, d) PROVE FALSE
  <2>1. PICK d \in editor[w].candidates : Recover(w, d)
    BY <1>5
  <2>2. editor[w] \in Editors /\ d \in Copies /\ SelfInv(editor[w]) /\ ids \in Nat
    BY <1>1, <2>1 DEF DraftsTyped, DraftsInv, EachSelf, Editors
  <2>3. CASE Accept(w, d) /\ editor[w].text \in {editor[w].base, d.text}
    <3>1. PICK m \in Editors : EditorIs(w, m) /\ m.text = d.text
      BY <1>1, <2>2, <2>3, AcceptFacts
    <3> QED BY <1>3, <2>3, <3>1
  <2>4. CASE EditorIs(w, [editor[w] EXCEPT !.recovering =
                             [copy |-> d, id |-> ids', text |-> editor[w].text]])
    <3>1. w = v /\ n = [e EXCEPT !.recovering = [copy |-> d, id |-> ids', text |-> e.text]]
      BY <1>3, <2>4
    <3>2. n.accepted = e.accepted
      BY <2>2, <3>1 DEF Editors
    <3> QED BY <3>2
  <2> QED BY <2>1, <2>3, <2>4 DEF Recover
<1>6. ASSUME NEW w \in Writers, Open(w) \/ Crash(w) PROVE FALSE
  <2>1. \E m : EditorIs(w, m) /\ m.accepted = {}
    <3>1. Closed.accepted = {}
      BY DEF Closed
    <3>2. [Closed EXCEPT !.open = TRUE, !.id = ids', !.rev = server.rev,
                     !.base = server.text, !.text = server.text, !.active = TRUE].accepted = {}
      BY DEF Closed
    <3> QED BY <1>6, <3>1, <3>2 DEF Open, Crash
  <2> QED BY <1>3, <2>1
<1>7. ASSUME NEW w \in Writers, Operate(w) PROVE FALSE
  <2>1. editor[w] \in Editors /\ editor[w].queue # <<>> /\ EditorIs(w, OperationDone(editor[w]))
    BY <1>1, <1>7 DEF Operate, DraftsTyped
  <2>2. OperationDone(editor[w]).accepted \in {{}, editor[w].accepted}
    BY <2>1, OperationFacts
  <2> QED BY <1>3, <2>1, <2>2
<1>8. ASSUME NEW w \in Writers, Usual(w) PROVE FALSE
  <2>1. Before(w)
    BY DEF Before, DraftsInv, EachSelf
  <2>2. \A u \in Writers \ {w} : editor'[u] = editor[u]
    BY <1>1, <1>8, UsualProceeds DEF ProceedsWell, Proceeds, EditorIs, DraftsTyped
  <2> QED BY <1>8, <2>1, <2>2, UsualTakesNothing
<1>9. CASE \/ (\E d \in store : LibraryDeletes(d)) \/ (\E text \in Wordings : OthersWrite(text))
           \/ UNCHANGED draftVars
  BY <1>1, <1>9, ElsewhereAside
<1> QED BY <1>4, <1>5, <1>6, <1>7, <1>8, <1>9, DraftCases

\* For every number of writers: a copy leaves the storage only by an operation of the
\* writer that put it or as one that a user took over or deleted, and text that was not
\* saved is a copy of its own before another copy replaces it.
THEOREM CopiesStay == PartsSpec => CopiesAreKept
<1>1. DraftsInv /\ DraftsInv' /\ [DraftsNext]_draftVars
        => [CopiesLeaveForAReason /\ RecoveryKeepsText]_draftVars
  BY CopiesLeaveStep, RecoveryStep
<1> QED BY <1>1, DraftsInvariance, DraftsOfParts, PTL DEF DraftsSpec, CopiesAreKept

(***************************************************************************)
(* The Markdown writer.                                                    *)
(***************************************************************************)
Nodes == [word : Words, form : {"authored", "written", "linked"}, kept : BOOLEAN]

\* How a node is written back.
Wrote(n) == [word |-> n.word,
             form |-> IF n.form = "authored" /\ ~n.kept THEN "written" ELSE n.form]

Links == [source : BOOLEAN, at : Nat, word : Words, moved : BOOLEAN]
Asked == [query : Queries, aborted : BOOLEAN]

WriterStates ==
  [value : Seq(Source), last : Seq(Source), doc : Seq(Nodes), parsed : Seq(Source),
   past : Seq(Seq(Nodes)), mode : {"formatted", "markdown", "preview"}, sel : Nat,
   disabled : BOOLEAN, recovering : {Nothing} \cup [copy : Seq(Source), opening : Seq(Source)],
   link : {Nothing} \cup Links, field : Queries \cup {""}, asked : SUBSET Asked,
   shown : {Nothing} \cup [query : Queries, found : BOOLEAN], again : BOOLEAN, edits : Nat]

\* What a writer's text, its document and its source have in common.
LEMMA WroteSource == \A n \in Nodes : Wrote(n) \in Source
BY DEF Wrote, Nodes, Source

LEMMA SerializeFacts ==
  ASSUME NEW doc \in Seq(Nodes)
  PROVE  /\ Serialize(doc) \in Seq(Source) /\ Len(Serialize(doc)) = Len(doc)
         /\ DOMAIN Serialize(doc) = 1..Len(doc) /\ DOMAIN doc = 1..Len(doc)
         /\ \A i \in 1..Len(doc) : doc[i] \in Nodes /\ Serialize(doc)[i] = Wrote(doc[i])
<1>1. DOMAIN doc = 1..Len(doc) /\ Len(doc) \in Nat /\ \A i \in 1..Len(doc) : doc[i] \in Nodes
  OBVIOUS
<1>2. Serialize(doc) = [i \in 1..Len(doc) |-> Wrote(doc[i])]
  BY <1>1 DEF Serialize, Wrote
<1>3. Serialize(doc) \in Seq(Source)
  BY <1>1, <1>2, WroteSource
<1> QED BY <1>1, <1>2, <1>3

LEMMA ParseFacts ==
  ASSUME NEW text \in Seq(Source)
  PROVE  Parse(text) \in Seq(Nodes) /\ Serialize(Parse(text)) = text /\ Len(Parse(text)) = Len(text)
<1>1. DOMAIN text = 1..Len(text) /\ Len(text) \in Nat /\ \A i \in 1..Len(text) : text[i] \in Source
  OBVIOUS
<1>2. \A s \in Source : Node(s, TRUE) \in Nodes /\ Wrote(Node(s, TRUE)) = s
  BY DEF Node, Nodes, Source, Wrote
<1>3. Parse(text) = [i \in 1..Len(text) |-> Node(text[i], TRUE)]
  BY <1>1 DEF Parse
<1>4. Parse(text) \in Seq(Nodes) /\ Len(Parse(text)) = Len(text)
  <2>1. \A i \in 1..Len(text) : Node(text[i], TRUE) \in Nodes
    BY <1>1, <1>2
  <2>2. Parse(text) \in [1..Len(text) -> Nodes]
    BY <1>3, <2>1
  <2> QED BY <1>1, <2>2
<1>5. \A i \in 1..Len(text) : Serialize(Parse(text))[i] = text[i]
  BY <1>1, <1>2, <1>3, <1>4, SerializeFacts
<1>6. Serialize(Parse(text)) \in Seq(Source) /\ Len(Serialize(Parse(text))) = Len(text)
  BY <1>4, SerializeFacts
<1>7. Serialize(Parse(text)) = text
  BY <1>1, <1>5, <1>6
<1> QED BY <1>4, <1>7

\* A sequence without one of its elements, and with another one.
LEMMA WithoutFacts ==
  ASSUME NEW S, NEW s \in Seq(S), NEW i \in 1..Len(s)
  PROVE  /\ Without(s, i) \in Seq(S) /\ Len(Without(s, i)) = Len(s) - 1
         /\ \A j \in 1..(Len(s) - 1) : Without(s, i)[j] = s[IF j < i THEN j ELSE j + 1]
<1> DEFINE a == SubSeq(s, 1, i - 1)
           b == SubSeq(s, i + 1, Len(s))
<1>1. Len(s) \in Nat /\ i \in Nat
  OBVIOUS
<1>2. /\ a \in Seq(S) /\ Len(a) = i - 1 /\ \A j \in 1..(i - 1) : a[j] = s[j]
      /\ b \in Seq(S) /\ Len(b) = Len(s) - i /\ \A j \in 1..(Len(s) - i) : b[j] = s[i + j]
  <2>1. /\ a \in Seq(S) /\ Len(a) = i - 1 /\ \A j \in 1..(i - 1) : a[j] = s[j]
    BY <1>1
  <2>2. b \in Seq(S) /\ Len(b) = Len(s) - i
    BY <1>1
  <2>3. \A j \in 1..(Len(s) - i) : b[j] = s[i + j]
    BY <1>1
  <2> QED BY <2>1, <2>2, <2>3
<1>3. Without(s, i) = a \o b
  BY DEF Without
<1> HIDE DEF a, b
<1>4. a \o b \in Seq(S) /\ Len(a \o b) = Len(s) - 1
  <2>1. a \o b \in Seq(S) /\ Len(a \o b) = Len(a) + Len(b)
    BY <1>2, ConcatProperties
  <2>2. Len(a) = i - 1 /\ Len(b) = Len(s) - i
    BY <1>2
  <2> QED BY ONLY <1>1, <2>1, <2>2
<1>5. ASSUME NEW j \in 1..(Len(s) - 1) PROVE (a \o b)[j] = s[IF j < i THEN j ELSE j + 1]
  <2>1. (a \o b)[j] = IF j <= Len(a) THEN a[j] ELSE b[j - Len(a)]
    BY <1>1, <1>2, ConcatProperties
  <2>2. CASE j < i
    BY <1>1, <1>2, <1>5, <2>1, <2>2
  <2>3. CASE j >= i
    <3>1. (a \o b)[j] = b[j - (i - 1)] /\ j - (i - 1) \in 1..(Len(s) - i)
      BY <1>1, <1>2, <2>1, <2>3
    <3>2. b[j - (i - 1)] = s[i + (j - (i - 1))] /\ i + (j - (i - 1)) = j + 1
      BY <1>1, <1>2, <3>1
    <3> QED BY <1>1, <2>3, <3>1, <3>2
  <2>4. j < i \/ j >= i
    BY <1>1
  <2> QED BY ONLY <2>2, <2>3, <2>4
<1> QED BY <1>3, <1>4, <1>5

LEMMA WithFacts ==
  ASSUME NEW S, NEW s \in Seq(S), NEW i \in 1..(Len(s) + 1), NEW x \in S
  PROVE  /\ With(s, i, x) \in Seq(S) /\ Len(With(s, i, x)) = Len(s) + 1
         /\ \A j \in 1..(Len(s) + 1) :
              With(s, i, x)[j] = IF j < i THEN s[j] ELSE IF j = i THEN x ELSE s[j - 1]
<1> DEFINE a == SubSeq(s, 1, i - 1)
           b == SubSeq(s, i, Len(s))
           c == a \o <<x>>
<1>1. Len(s) \in Nat /\ i \in Nat
  OBVIOUS
<1>2. a \in Seq(S) /\ Len(a) = i - 1 /\ \A j \in 1..(i - 1) : a[j] = s[j]
  BY <1>1
<1>3. /\ b \in Seq(S) /\ Len(b) = Len(s) - i + 1
      /\ \A j \in 1..(Len(s) - i + 1) : b[j] = s[i + j - 1]
  <2>1. b \in Seq(S) /\ Len(b) = Len(s) - i + 1
    BY <1>1
  <2>2. \A j \in 1..(Len(s) - i + 1) : b[j] = s[i + j - 1]
    BY <1>1
  <2> QED BY <2>1, <2>2
<1>4. With(s, i, x) = c \o b
  BY DEF With
<1> HIDE DEF a, b
<1>5. /\ c \in Seq(S) /\ Len(c) = i /\ c[i] = x /\ \A j \in 1..(i - 1) : c[j] = s[j]
  BY <1>1, <1>2
<1> HIDE DEF c
<1>6. c \o b \in Seq(S) /\ Len(c \o b) = Len(s) + 1
  BY <1>1, <1>3, <1>5
<1>7. ASSUME NEW j \in 1..(Len(s) + 1)
      PROVE  (c \o b)[j] = IF j < i THEN s[j] ELSE IF j = i THEN x ELSE s[j - 1]
  <2>1. (c \o b)[j] = IF j <= Len(c) THEN c[j] ELSE b[j - Len(c)]
    BY <1>1, <1>3, <1>5, ConcatProperties
  <2>2. CASE j <= i
    BY <1>1, <1>5, <2>1, <2>2
  <2>3. CASE j > i
    <3>1. (c \o b)[j] = b[j - i] /\ j - i \in 1..(Len(s) - i + 1)
      BY <1>1, <1>3, <1>5, <2>1, <2>3
    <3>2. b[j - i] = s[i + (j - i) - 1] /\ i + (j - i) - 1 = j - 1
      BY <1>1, <1>3, <3>1
    <3> QED BY <1>1, <2>3, <3>1, <3>2
  <2>4. j <= i \/ j > i
    BY <1>1
  <2> QED BY ONLY <2>2, <2>3, <2>4
<1> QED BY <1>4, <1>6, <1>7

SameText(e, n) ==
  /\ n.value = e.value /\ n.last = e.last /\ n.doc = e.doc /\ n.parsed = e.parsed
  /\ n.past = e.past /\ n.again = e.again
SameSearch(e, n) ==
  n.link = e.link /\ n.field = e.field /\ n.asked = e.asked /\ n.shown = e.shown
SamePlace(e, n) == n.mode = e.mode /\ n.disabled = e.disabled /\ n.recovering = e.recovering
Searchless(n) ==
  n.link = Nothing /\ n.shown = Nothing /\ \A r \in n.asked : r.aborted = TRUE

LEMMA UnsearchedFacts ==
  ASSUME NEW e \in WriterStates
  PROVE  LET n == Unsearched(e) IN
         /\ n \in WriterStates /\ SameText(e, n) /\ SamePlace(e, n) /\ Searchless(n)
         /\ n.edits = e.edits /\ n.sel = e.sel
<1> DEFINE asked == {[r EXCEPT !.aborted = TRUE] : r \in e.asked}
           n == [e EXCEPT !.link = Nothing, !.field = "", !.shown = Nothing, !.asked = asked]
<1>1. e.asked \in SUBSET Asked
  BY DEF WriterStates
<1>2. asked \in SUBSET Asked /\ \A r \in asked : r.aborted = TRUE
  BY <1>1 DEF Asked
<1>3. Unsearched(e) = n
  BY DEF Unsearched, WriterStates
<1> HIDE DEF asked
<1>4. n \in WriterStates
  BY <1>2 DEF WriterStates
<1>5. /\ n.link = Nothing /\ n.shown = Nothing /\ n.asked = asked
      /\ n.edits = e.edits /\ n.sel = e.sel
  BY DEF WriterStates
<1>6. SameText(e, n) /\ SamePlace(e, n)
  BY DEF WriterStates, SameText, SamePlace
<1> HIDE DEF n
<1> QED BY <1>2, <1>3, <1>4, <1>5, <1>6 DEF Searchless

LEMMA CountedFacts ==
  ASSUME NEW e \in WriterStates
  PROVE  LET n == Counted(e) IN
         /\ n \in WriterStates /\ SameText(e, n) /\ SamePlace(e, n) /\ SameSearch(e, n)
         /\ n.edits = e.edits + 1 /\ n.sel = e.sel
<1> DEFINE edits == e.edits + 1
           n == [e EXCEPT !.edits = edits]
<1>1. Counted(e) = n /\ edits \in Nat
  <2>1. e.edits \in Nat
    BY DEF WriterStates
  <2>2. Counted(e) = n
    BY DEF Counted
  <2> QED BY <2>1, <2>2
<1> HIDE DEF edits
<1>2. n \in WriterStates
  BY <1>1 DEF WriterStates
<1>3. n.edits = edits /\ n.sel = e.sel
  BY DEF WriterStates
<1>4. SameText(e, n) /\ SamePlace(e, n) /\ SameSearch(e, n)
  BY DEF WriterStates, SameText, SamePlace, SameSearch
<1> HIDE DEF n
<1> QED BY <1>1, <1>2, <1>3, <1>4 DEF edits

\* The user turns to the text: the search is closed.
LEMMA TurnedFacts ==
  ASSUME NEW e \in WriterStates
  PROVE  LET n == Counted(Elsewhere(e)) IN
         /\ n \in WriterStates /\ SameText(e, n) /\ SamePlace(e, n) /\ Searchless(n)
         /\ n.edits # e.edits
<1> DEFINE d == Unsearched(e)
           n == Counted(d)
<1>1. /\ d \in WriterStates /\ SameText(e, d) /\ SamePlace(e, d) /\ Searchless(d)
      /\ d.edits = e.edits /\ e.edits \in Nat
  BY UnsearchedFacts DEF WriterStates
<1>2. Elsewhere(e) = d
  BY DEF Elsewhere
<1> HIDE DEF d
<1>3. /\ n \in WriterStates /\ SameText(d, n) /\ SamePlace(d, n) /\ SameSearch(d, n)
      /\ n.edits = d.edits + 1
  BY <1>1, CountedFacts
<1> HIDE DEF n
<1>4. SameText(e, n) /\ SamePlace(e, n) /\ Searchless(n) /\ n.edits # e.edits
  BY <1>1, <1>3 DEF SameText, SamePlace, SameSearch, Searchless
<1> QED BY <1>2, <1>3, <1>4 DEF n

LEMMA ChangeFacts ==
  ASSUME NEW e \in WriterStates, NEW text \in Seq(Source)
  PROVE  LET n == Change(e, text) IN
         /\ n \in WriterStates /\ n.value = text /\ n.last = text /\ n.again = FALSE
         /\ n.doc = e.doc /\ n.parsed = e.parsed /\ n.past = e.past
         /\ SamePlace(e, n) /\ SameSearch(e, n) /\ n.edits = e.edits /\ n.sel = e.sel
<1> DEFINE n == Change(e, text)
<1>1. n \in WriterStates
  BY DEF WriterStates, Change
<1>2. /\ n.value = text /\ n.last = text /\ n.again = FALSE
      /\ n.doc = e.doc /\ n.parsed = e.parsed /\ n.past = e.past /\ n.edits = e.edits /\ n.sel = e.sel
  BY DEF WriterStates, Change
<1>3. SamePlace(e, n) /\ SameSearch(e, n)
  BY DEF WriterStates, Change, SamePlace, SameSearch
<1> QED BY <1>1, <1>2, <1>3

LEMMA LoadRichFacts ==
  ASSUME NEW e \in WriterStates
  PROVE  LET n == LoadRich(e) IN
         /\ n \in WriterStates /\ n.value = e.value /\ n.last = e.last /\ n.again = e.again
         /\ n.doc = Parse(e.value) /\ Serialize(n.doc) = e.value /\ n.parsed = e.value
         /\ n.past = <<>> /\ SamePlace(e, n) /\ SameSearch(e, n) /\ n.edits = e.edits
<1> DEFINE text == e.value
           doc == Parse(text)
           n == [e EXCEPT !.doc = doc, !.parsed = text, !.past = <<>>]
<1>1. text \in Seq(Source)
  BY DEF WriterStates
<1>2. doc \in Seq(Nodes) /\ Serialize(doc) = text
  BY <1>1, ParseFacts
<1>3. LoadRich(e) = n
  BY DEF LoadRich
<1>a. <<>> \in Seq(Seq(Nodes))
  OBVIOUS
<1> HIDE DEF doc
<1>4. n \in WriterStates
  BY <1>1, <1>2, <1>a DEF WriterStates
<1>5. /\ n.value = e.value /\ n.last = e.last /\ n.again = e.again /\ n.doc = doc
      /\ n.parsed = e.value /\ n.past = <<>> /\ n.edits = e.edits
  BY DEF WriterStates
<1>6. SamePlace(e, n) /\ SameSearch(e, n)
  BY DEF WriterStates, SamePlace, SameSearch
<1> HIDE DEF n
<1> QED BY <1>2, <1>3, <1>4, <1>5, <1>6 DEF doc

\* The document is written, or left as it was for being too long.
LEMMA DispatchFacts ==
  ASSUME NEW e \in WriterStates, NEW doc \in Seq(Nodes), NEW before \in Seq(Nodes)
  PROVE  LET n == Dispatch(e, doc, <<before>>) IN
         \/ n = e
         \/ /\ n \in WriterStates /\ n.doc = doc /\ n.value = Serialize(doc)
            /\ n.last = Serialize(doc) /\ n.parsed = Serialize(doc) /\ n.past = <<before>>
            /\ n.again = FALSE /\ SamePlace(e, n) /\ SameSearch(e, n) /\ n.edits = e.edits
<1>1. CASE Len(doc) > Length
  BY <1>1 DEF Dispatch
<1>2. CASE ~(Len(doc) > Length)
  <2> DEFINE text == Serialize(doc)
             past == <<before>>
             d == [e EXCEPT !.doc = doc, !.parsed = text, !.past = past]
             n == Change(d, text)
  <2>1. text \in Seq(Source) /\ past \in Seq(Seq(Nodes))
    BY SerializeFacts
  <2>2. Dispatch(e, doc, <<before>>) = n
    BY <1>2 DEF Dispatch
  <2> HIDE DEF text, past
  <2>3. d \in WriterStates
    BY <2>1 DEF WriterStates
  <2>4. d.doc = doc /\ d.parsed = text /\ d.past = past /\ d.edits = e.edits
    BY DEF WriterStates
  <2>5. SamePlace(e, d) /\ SameSearch(e, d)
    BY DEF WriterStates, SamePlace, SameSearch
  <2> HIDE DEF d
  <2>6. /\ n \in WriterStates /\ n.value = text /\ n.last = text /\ n.again = FALSE
        /\ n.doc = d.doc /\ n.parsed = d.parsed /\ n.past = d.past
        /\ SamePlace(d, n) /\ SameSearch(d, n) /\ n.edits = d.edits
    BY <2>1, <2>3, ChangeFacts
  <2> HIDE DEF n
  <2>7. SamePlace(e, n) /\ SameSearch(e, n)
    BY <2>5, <2>6 DEF SamePlace, SameSearch
  <2> QED BY <2>2, <2>4, <2>6, <2>7 DEF text, past
<1> QED BY <1>1, <1>2

\* The page's text comes under an open search.
LEMMA MovedFacts ==
  ASSUME NEW e \in WriterStates
  PROVE  LET n == Moved(e) IN
         /\ n \in WriterStates /\ SameText(e, n) /\ SamePlace(e, n) /\ n.edits = e.edits
         /\ n.field = e.field /\ n.asked = e.asked /\ n.shown = e.shown
         /\ (n.link = Nothing <=> e.link = Nothing)
         /\ n.link # Nothing => n.link.moved = TRUE /\ n.link.source = e.link.source
<1>1. CASE e.link = Nothing
  BY <1>1 DEF Moved, SameText, SamePlace
<1>2. CASE e.link # Nothing
  <2> DEFINE link == [e.link EXCEPT !.moved = TRUE]
             n == [e EXCEPT !.link = link]
  <2>1. e.link \in Links
    BY <1>2 DEF WriterStates
  <2>2. link \in Links /\ link.moved = TRUE /\ link.source = e.link.source
    BY <2>1 DEF Links
  <2>3. link # Nothing
    <3>1. "moved" \in DOMAIN link /\ "moved" \notin DOMAIN Nothing
      BY <2>1 DEF Links, Nothing
    <3> QED BY <3>1
  <2>4. Moved(e) = n
    BY <1>2 DEF Moved, WriterStates
  <2> HIDE DEF link
  <2>5. n \in WriterStates
    BY <2>2 DEF WriterStates
  <2>6. /\ n.link = link /\ n.edits = e.edits
        /\ n.field = e.field /\ n.asked = e.asked /\ n.shown = e.shown
    BY DEF WriterStates
  <2>7. SameText(e, n) /\ SamePlace(e, n)
    BY DEF WriterStates, SameText, SamePlace
  <2> HIDE DEF n
  <2> QED BY <1>2, <2>2, <2>3, <2>4, <2>5, <2>6, <2>7
<1> QED BY <1>1, <1>2

\* The search asks for what the field holds, and for that only.
LEMMA SearchFacts ==
  ASSUME NEW e \in WriterStates, NEW query \in Queries
  PROVE  LET n == Search(e, query) IN
         /\ n \in WriterStates /\ SameText(e, n) /\ SamePlace(e, n) /\ n.edits = e.edits
         /\ n.link = e.link /\ n.field = query /\ (n.shown # Nothing => n.shown.query = query)
         /\ \A r \in n.asked : r.aborted = FALSE => r.query = query
<1> DEFINE old == {[r EXCEPT !.aborted = TRUE] : r \in e.asked}
           asked == old \cup {[query |-> query, aborted |-> FALSE]}
           shown == [query |-> query, found |-> FALSE]
           n == [e EXCEPT !.field = query, !.shown = shown, !.asked = asked]
<1>1. e.asked \in SUBSET Asked
  BY DEF WriterStates
<1>2. old \in SUBSET Asked /\ \A r \in old : r.aborted = TRUE
  BY <1>1 DEF Asked
<1> HIDE DEF old
<1>3. asked \in SUBSET Asked /\ \A r \in asked : r.aborted = FALSE => r.query = query
  <2> DEFINE new == [query |-> query, aborted |-> FALSE]
  <2>1. new \in Asked /\ new.query = query
    BY DEF Asked
  <2> HIDE DEF new
  <2>2. asked = old \cup {new}
    BY DEF new
  <2> QED BY <1>2, <2>1, <2>2
<1>4. shown \in [query : Queries, found : BOOLEAN] /\ shown.query = query
  OBVIOUS
<1>5. Search(e, query) = n
  BY DEF Search, WriterStates, old
<1> HIDE DEF asked, shown
<1>6. n \in WriterStates
  BY <1>3, <1>4 DEF WriterStates
<1>7. /\ n.link = e.link /\ n.field = query /\ n.shown = shown /\ n.asked = asked
      /\ n.edits = e.edits
  BY DEF WriterStates
<1>8. SameText(e, n) /\ SamePlace(e, n)
  BY DEF WriterStates, SameText, SamePlace
<1> HIDE DEF n
<1> QED BY <1>3, <1>4, <1>5, <1>6, <1>7, <1>8

\* A command replaces one paragraph, or adds one, or is refused.
LEMMA ReplacedFacts ==
  ASSUME NEW e \in WriterStates, NEW s \in Source
  PROVE  \/ Replaced(e, s) = e
         \/ \E text \in Seq(Source) :
              /\ Replaced(e, s) = Change(e, text)
              /\ e.sel \in 1..Len(e.value) =>
                   /\ Len(text) = Len(e.value)
                   /\ \A i \in 1..Len(text) : text[i] = IF i = e.sel THEN s ELSE e.value[i]
<1> DEFINE v == e.value
           l == Len(v)
           k == e.sel
           m == IF k > l THEN l ELSE k - 1
           a == SubSeq(v, 1, m)
           b == SubSeq(v, k + 1, l)
           c == a \o <<s>>
           text == c \o b
<1>1. v \in Seq(Source) /\ k \in Nat /\ l \in Nat
  <2>1. v \in Seq(Source) /\ k \in Nat
    BY DEF WriterStates
  <2> QED BY <2>1
<1>2. Replaced(e, s) = e \/ Replaced(e, s) = Change(e, text)
  BY DEF Replaced
<1>3. \A i \in 1..l : v[i] \in Source
  BY <1>1
<1> HIDE DEF v
<1>4. m \in Int /\ m <= l
  BY <1>1
<1>5. a \in Seq(Source) /\ (k \in 1..l => Len(a) = k - 1 /\ \A i \in 1..(k - 1) : a[i] = v[i])
  <2>1. \A i \in 1..m : v[i] \in Source
    BY <1>1, <1>3, <1>4
  <2>2. /\ a \in Seq(Source) /\ Len(a) = IF 1 <= m THEN m - 1 + 1 ELSE 0
        /\ \A i \in 1..(m - 1 + 1) : a[i] = v[1 + i - 1]
    BY <1>4, <2>1, SubSeqProperties
  <2>3. ASSUME k \in 1..l PROVE Len(a) = k - 1 /\ \A i \in 1..(k - 1) : a[i] = v[i]
    BY <1>1, <2>2, <2>3
  <2> QED BY <2>2, <2>3
<1>6. /\ b \in Seq(Source)
      /\ k \in 1..l => Len(b) = l - k /\ \A i \in 1..(l - k) : b[i] = v[k + i]
  <2>1. \A i \in (k + 1)..l : v[i] \in Source
    BY <1>1, <1>3
  <2>2. /\ b \in Seq(Source) /\ Len(b) = IF k + 1 <= l THEN l - (k + 1) + 1 ELSE 0
        /\ \A i \in 1..(l - (k + 1) + 1) : b[i] = v[(k + 1) + i - 1]
    BY <1>1, <2>1, SubSeqProperties
  <2>3. ASSUME k \in 1..l PROVE Len(b) = l - k /\ \A i \in 1..(l - k) : b[i] = v[k + i]
    BY <1>1, <2>2, <2>3
  <2> QED BY <2>2, <2>3
<1> HIDE DEF a, b, m, l, k
<1>7. c \in Seq(Source) /\ (k \in 1..l => Len(c) = k /\ c[k] = s /\ \A i \in 1..(k - 1) : c[i] = v[i])
  BY <1>1, <1>5
<1> HIDE DEF c
<1>8. text \in Seq(Source)
  BY <1>6, <1>7, ConcatProperties
<1>9. ASSUME k \in 1..l
      PROVE  Len(text) = l /\ \A i \in 1..l : text[i] = IF i = k THEN s ELSE v[i]
  <2>1. /\ Len(text) = Len(c) + Len(b)
        /\ \A i \in 1..(Len(c) + Len(b)) : text[i] = IF i <= Len(c) THEN c[i] ELSE b[i - Len(c)]
    BY <1>6, <1>7, ConcatProperties
  <2>2. Len(c) = k /\ Len(b) = l - k /\ k + (l - k) = l
    BY <1>1, <1>6, <1>7, <1>9
  <2>3. ASSUME NEW i \in 1..l PROVE text[i] = IF i = k THEN s ELSE v[i]
    <3>1. text[i] = IF i <= k THEN c[i] ELSE b[i - k]
      BY <1>1, <2>1, <2>2, <2>3
    <3>2. CASE i < k
      BY <1>1, <1>7, <1>9, <3>1, <3>2
    <3>3. CASE i = k
      BY <1>1, <1>7, <1>9, <3>1, <3>3
    <3>4. CASE i > k
      <4>1. text[i] = b[i - k] /\ i - k \in 1..(l - k)
        BY <1>1, <1>9, <3>1, <3>4
      <4>2. b[i - k] = v[k + (i - k)] /\ k + (i - k) = i
        BY <1>1, <1>6, <1>9, <4>1
      <4> QED BY <1>1, <1>9, <3>4, <4>1, <4>2
    <3>5. i < k \/ i = k \/ i > k
      BY <1>1, <1>9
    <3> QED BY ONLY <3>2, <3>3, <3>4, <3>5
  <2> QED BY <2>1, <2>2, <2>3
<1>10. \E t \in Seq(Source) :
         /\ t = text
         /\ k \in 1..l => Len(t) = l /\ \A i \in 1..l : t[i] = IF i = k THEN s ELSE v[i]
  BY <1>8, <1>9
<1> HIDE DEF text
<1> QED BY <1>2, <1>10 DEF k, l, v

\* Of the one document's sources all but one at most are the other's, too.
Near(d, p) == \E x : ToSet(Serialize(d)) \ ToSet(Serialize(p)) \subseteq {x}
OneApart(d, p) == Near(d, p) /\ Near(p, d)

TextInv(e) ==
  /\ Serialize(e.doc) = e.parsed
  /\ e.mode = "formatted" /\ e.again = FALSE => e.parsed = e.value
  /\ e.past # <<>> => OneApart(e.doc, Head(e.past))

\* What was asked and not given up is what the field holds.
SearchInv(e) ==
  /\ e.shown # Nothing => e.shown.query = e.field
  /\ \A r \in e.asked : r.aborted = FALSE => r.query = e.field

\* The view that the search was opened in, and the word that is selected there.
Linkable(e) == IF e.link.source = TRUE THEN e.value ELSE e.doc
LinkInv(e) ==
  e.link # Nothing =>
    /\ e.mode = IF e.link.source = TRUE THEN "markdown" ELSE "formatted"
    /\ e.link.moved = FALSE => /\ e.link.at \in 1..Len(Linkable(e))
                               /\ Linkable(e)[e.link.at].word = e.link.word

WriterInv(e) == e \in WriterStates /\ TextInv(e) /\ SearchInv(e) /\ LinkInv(e)

\* The two halves of AuthorsTextStands for a step from one state of the writer to another.
RewritesOne(e, n) ==
  e.mode = "formatted" /\ e.again = FALSE /\ n.last # e.last /\ n.past # <<>> =>
    Cardinality(ToSet(e.value) \ ToSet(n.value)) <= 1
KeepsWords(e, n) ==
  e.link # Nothing /\ n.link = Nothing /\ n.last # e.last /\ e.again = FALSE
    /\ e.link.moved = FALSE /\ n.edits = e.edits =>
      [i \in DOMAIN n.value |-> n.value[i].word] = [i \in DOMAIN e.value |-> e.value[i].word]

Steps(e, n) == WriterInv(n) /\ RewritesOne(e, n) /\ KeepsWords(e, n)

LEMMA SearchlessInv == \A n : Searchless(n) => SearchInv(n) /\ LinkInv(n)
BY DEF Searchless, SearchInv, LinkInv

\* Steps that leave the document, and the text of the formatted view.
LEMMA AsideSteps ==
  ASSUME NEW e, NEW n \in WriterStates, WriterInv(e),
         n.doc = e.doc, n.parsed = e.parsed, n.past = e.past,
         n.mode = "formatted" /\ n.again = FALSE => n.parsed = n.value,
         Searchless(n) \/ (SearchInv(n) /\ LinkInv(n)),
         n.last = e.last \/ (n.edits # e.edits /\ e.mode # "formatted")
  PROVE  Steps(e, n)
<1>1. SearchInv(n) /\ LinkInv(n)
  BY SearchlessInv
<1>2. TextInv(n)
  BY DEF WriterInv, TextInv
<1>3. RewritesOne(e, n) /\ KeepsWords(e, n)
  BY DEF RewritesOne, KeepsWords
<1> QED BY <1>1, <1>2, <1>3 DEF Steps, WriterInv

\* Steps that parse the text anew.
LEMMA LoadedSteps ==
  ASSUME NEW e, NEW n \in WriterStates, WriterInv(e),
         Serialize(n.doc) = n.value, n.parsed = n.value, n.past = <<>>,
         Searchless(n) \/ (SearchInv(n) /\ LinkInv(n)),
         n.link # Nothing \/ e.link = Nothing \/ n.last = e.last
  PROVE  Steps(e, n)
<1>1. SearchInv(n) /\ LinkInv(n)
  BY SearchlessInv
<1>2. TextInv(n)
  BY DEF TextInv
<1>3. RewritesOne(e, n) /\ KeepsWords(e, n)
  BY DEF RewritesOne, KeepsWords
<1> QED BY <1>1, <1>2, <1>3 DEF Steps, WriterInv

\* Two documents that agree but for one node.
HasAllBut(p, d, i) == \A j \in 1..Len(d) : j = i \/ \E k \in 1..Len(p) : p[k] = d[j]

LEMMA NearBy ==
  ASSUME NEW d \in Seq(Nodes), NEW p \in Seq(Nodes), NEW i, HasAllBut(p, d, i)
  PROVE  Near(d, p)
<1> DEFINE a == Serialize(d)
           b == Serialize(p)
<1>1. /\ DOMAIN a = 1..Len(d) /\ \A j \in 1..Len(d) : a[j] = Wrote(d[j])
      /\ DOMAIN b = 1..Len(p) /\ \A k \in 1..Len(p) : b[k] = Wrote(p[k])
  <2>1. Len(a) = Len(d) /\ DOMAIN a = 1..Len(d) /\ \A j \in 1..Len(d) : a[j] = Wrote(d[j])
    BY SerializeFacts
  <2>2. Len(b) = Len(p) /\ DOMAIN b = 1..Len(p) /\ \A k \in 1..Len(p) : b[k] = Wrote(p[k])
    BY SerializeFacts
  <2> QED BY <2>1, <2>2
<1> HIDE DEF a, b
<1>2. ASSUME NEW y \in ToSet(a) \ ToSet(b) PROVE y = a[i]
  <2>1. PICK j \in 1..Len(d) : y = a[j]
    BY <1>1, <1>2 DEF ToSet
  <2>2. ASSUME NEW k \in 1..Len(p), p[k] = d[j] PROVE FALSE
    <3>1. b[k] = y
      BY <1>1, <2>1, <2>2
    <3> QED BY <1>1, <1>2, <3>1 DEF ToSet
  <2> QED BY <2>1, <2>2 DEF HasAllBut
<1> QED BY <1>2 DEF Near, a, b

LEMMA AtMostOne == ASSUME NEW S, NEW x, S \subseteq {x} PROVE Cardinality(S) <= 1
<1>1. S = {} \/ S = {x}
  OBVIOUS
<1>2. Cardinality({}) = 0 /\ Cardinality({x}) = 1
  BY FS_EmptySet, FS_Singleton
<1> QED BY <1>1, <1>2

\* What the formatted view does to the document.
LEMMA DispatchSteps ==
  ASSUME NEW e \in WriterStates, TextInv(e), e.mode = "formatted", Searchless(e),
         NEW doc \in Seq(Nodes), NEW before \in Seq(Nodes),
         OneApart(doc, before), Near(e.doc, doc),
         NEW n, n = Dispatch(e, doc, <<before>>)
  PROVE  /\ WriterInv(n) /\ RewritesOne(e, n) /\ n.link = Nothing /\ n.edits = e.edits
         /\ n = e \/ (n.value = Serialize(doc) /\ n.last = n.value)
<1>1. CASE n = e
  BY <1>1, SearchlessInv DEF WriterInv, RewritesOne, Searchless
<1>2. CASE /\ n \in WriterStates /\ n.doc = doc /\ n.value = Serialize(doc)
           /\ n.last = Serialize(doc) /\ n.parsed = Serialize(doc) /\ n.past = <<before>>
           /\ n.again = FALSE /\ SamePlace(e, n) /\ SameSearch(e, n) /\ n.edits = e.edits
  <2>1. Searchless(n)
    BY <1>2 DEF Searchless, SameSearch
  <2>2. Head(n.past) = before
    BY <1>2
  <2>3. TextInv(n)
    BY <1>2, <2>2 DEF TextInv
  <2>4. ASSUME e.again = FALSE PROVE Cardinality(ToSet(e.value) \ ToSet(n.value)) <= 1
    <3>1. e.value = Serialize(e.doc)
      BY <2>4 DEF TextInv
    <3>2. PICK x : ToSet(Serialize(e.doc)) \ ToSet(Serialize(doc)) \subseteq {x}
      BY DEF Near
    <3> QED BY <1>2, <3>1, <3>2, AtMostOne
  <2>5. RewritesOne(e, n)
    BY <2>4 DEF RewritesOne
  <2> QED BY <1>2, <2>1, <2>3, <2>5, SearchlessInv DEF WriterInv, Searchless
<1> QED BY <1>1, <1>2, DispatchFacts

\* One node changed, one is gone, or one is new.
LEMMA OneChanged ==
  ASSUME NEW d \in Seq(Nodes), NEW i, NEW x \in Nodes
  PROVE  [d EXCEPT ![i] = x] \in Seq(Nodes) /\ OneApart(d, [d EXCEPT ![i] = x])
<1> DEFINE p == [d EXCEPT ![i] = x]
<1>1. p \in Seq(Nodes) /\ Len(p) = Len(d) /\ \A j \in 1..Len(d) : j = i \/ p[j] = d[j]
  <2>1. d \in [1..Len(d) -> Nodes] /\ Len(d) \in Nat
    OBVIOUS
  <2>2. p \in [1..Len(d) -> Nodes] /\ \A j \in 1..Len(d) : j = i \/ p[j] = d[j]
    BY <2>1
  <2>3. p \in Seq(Nodes)
    BY <2>1, <2>2
  <2>4. Len(p) = Len(d)
    BY <2>1, <2>2, <2>3
  <2> QED BY <2>2, <2>3, <2>4
<1> HIDE DEF p
<1>2. HasAllBut(p, d, i) /\ HasAllBut(d, p, i)
  BY <1>1 DEF HasAllBut
<1>3. Near(d, p) /\ Near(p, d)
  BY <1>1, <1>2, NearBy
<1> QED BY <1>1, <1>3 DEF OneApart, p

LEMMA OneGone ==
  ASSUME NEW d \in Seq(Nodes), NEW i \in 1..Len(d)
  PROVE  Without(d, i) \in Seq(Nodes) /\ OneApart(Without(d, i), d)
<1> DEFINE p == Without(d, i)
<1>1. /\ p \in Seq(Nodes) /\ Len(p) = Len(d) - 1 /\ Len(d) \in Nat /\ i \in Nat
      /\ \A j \in 1..(Len(d) - 1) : p[j] = d[IF j < i THEN j ELSE j + 1]
  BY WithoutFacts
<1> HIDE DEF p
<1>2. Near(p, d)
  <2>1. ASSUME NEW j \in 1..Len(p) PROVE \E k \in 1..Len(d) : d[k] = p[j]
    <3> DEFINE k == IF j < i THEN j ELSE j + 1
    <3>1. k \in 1..Len(d)
      BY <1>1, <2>1
    <3>2. p[j] = d[k]
      BY <1>1, <2>1
    <3> QED BY <3>1, <3>2
  <2>2. HasAllBut(d, p, i)
    BY <2>1 DEF HasAllBut
  <2> QED BY <1>1, <2>2, NearBy
<1>3. Near(d, p)
  <2>1. ASSUME NEW j \in 1..Len(d), j # i PROVE \E k \in 1..Len(p) : p[k] = d[j]
    <3>1. CASE j < i
      <4>1. j \in 1..(Len(d) - 1)
        BY <1>1, <2>1, <3>1
      <4> QED BY <1>1, <3>1, <4>1
    <3>2. CASE j > i
      <4>1. j - 1 \in 1..(Len(d) - 1) /\ ~(j - 1 < i) /\ (j - 1) + 1 = j
        BY <1>1, <2>1, <3>2
      <4>2. p[j - 1] = d[j]
        BY <1>1, <4>1
      <4> QED BY <1>1, <4>1, <4>2
    <3>3. j < i \/ j > i
      BY <1>1, <2>1
    <3> QED BY <3>1, <3>2, <3>3
  <2>2. HasAllBut(p, d, i)
    BY <2>1 DEF HasAllBut
  <2> QED BY <1>1, <2>2, NearBy
<1> QED BY <1>1, <1>2, <1>3 DEF OneApart, p

LEMMA OneNew ==
  ASSUME NEW d \in Seq(Nodes), NEW i \in 1..(Len(d) + 1), NEW x \in Nodes
  PROVE  With(d, i, x) \in Seq(Nodes) /\ OneApart(With(d, i, x), d)
<1> DEFINE p == With(d, i, x)
<1>1. /\ p \in Seq(Nodes) /\ Len(p) = Len(d) + 1 /\ Len(d) \in Nat /\ i \in Nat
      /\ \A j \in 1..(Len(d) + 1) : p[j] = IF j < i THEN d[j] ELSE IF j = i THEN x ELSE d[j - 1]
  BY WithFacts
<1> HIDE DEF p
<1>2. Near(d, p)
  <2>1. ASSUME NEW j \in 1..Len(d) PROVE \E k \in 1..Len(p) : p[k] = d[j]
    <3>1. CASE j < i
      <4>1. j \in 1..(Len(d) + 1)
        BY <1>1, <2>1
      <4> QED BY <1>1, <3>1, <4>1
    <3>2. CASE j >= i
      <4>1. j + 1 \in 1..(Len(d) + 1) /\ ~(j + 1 < i) /\ j + 1 # i /\ (j + 1) - 1 = j
        BY <1>1, <2>1, <3>2
      <4>2. p[j + 1] = d[j]
        BY <1>1, <4>1
      <4> QED BY <1>1, <4>1, <4>2
    <3>3. j < i \/ j >= i
      BY <1>1, <2>1
    <3> QED BY <3>1, <3>2, <3>3
  <2>2. HasAllBut(p, d, i)
    BY <2>1 DEF HasAllBut
  <2> QED BY <1>1, <2>2, NearBy
<1>3. Near(p, d)
  <2>1. ASSUME NEW j \in 1..Len(p), j # i PROVE \E k \in 1..Len(d) : d[k] = p[j]
    <3>1. CASE j < i
      <4>1. j \in 1..Len(d) /\ j \in 1..(Len(d) + 1)
        BY <1>1, <2>1, <3>1
      <4> QED BY <1>1, <3>1, <4>1
    <3>2. CASE j > i
      <4>1. j - 1 \in 1..Len(d) /\ ~(j < i) /\ j # i /\ j \in 1..(Len(d) + 1)
        BY <1>1, <2>1, <3>2
      <4>2. p[j] = d[j - 1]
        BY <1>1, <4>1
      <4> QED BY <4>1, <4>2
    <3>3. j < i \/ j > i
      BY <1>1, <2>1
    <3> QED BY <3>1, <3>2, <3>3
  <2>2. HasAllBut(d, p, i)
    BY <2>1 DEF HasAllBut
  <2> QED BY <1>1, <2>2, NearBy
<1> QED BY <1>1, <1>2, <1>3 DEF OneApart, p

\* An edit of the formatted view.
LEMMA EditSteps ==
  ASSUME NEW e, WriterInv(e), e.mode = "formatted",
         NEW doc \in Seq(Nodes), NEW before \in Seq(Nodes),
         OneApart(doc, before), Near(e.doc, doc)
  PROVE  Steps(e, Dispatch(Counted(Elsewhere(e)), doc, <<before>>))
<1> DEFINE q == Counted(Elsewhere(e))
           n == Dispatch(q, doc, <<before>>)
<1>1. /\ q \in WriterStates /\ SameText(e, q) /\ SamePlace(e, q) /\ Searchless(q)
      /\ q.edits # e.edits
  BY TurnedFacts DEF WriterInv
<1> HIDE DEF q
<1>2. TextInv(q) /\ q.mode = "formatted" /\ Near(q.doc, doc)
  BY <1>1 DEF WriterInv, TextInv, SameText, SamePlace
<1>3. WriterInv(n) /\ RewritesOne(q, n) /\ n.edits = q.edits
  BY <1>1, <1>2, DispatchSteps
<1> HIDE DEF n
<1>4. RewritesOne(e, n)
  BY <1>1, <1>2, <1>3 DEF RewritesOne, SameText
<1>5. KeepsWords(e, n)
  BY <1>1, <1>3 DEF KeepsWords
<1> QED BY <1>3, <1>4, <1>5 DEF Steps, n, q

LEMMA TypeRichSteps == ASSUME WriterInv(writer), TypeRich PROVE Steps(writer, writer')
<1> DEFINE e == writer
           q == Counted(Elsewhere(e))
           doc == e.doc
<1>1. e \in WriterStates /\ doc \in Seq(Nodes) /\ e.mode = "formatted"
  BY DEF WriterInv, WriterStates, TypeRich
<1>2. q.doc = doc
  BY <1>1, TurnedFacts DEF SameText
<1>3. \/ \E i \in DOMAIN doc, form \in {"written", "linked"} :
           LET touched == [doc EXCEPT ![i].kept = FALSE] IN
           writer' = Dispatch(q, [touched EXCEPT ![i].form = form], <<touched>>)
      \/ \E i \in DOMAIN doc : writer' = Dispatch(q, Without(doc, i), <<doc>>)
      \/ \E i \in 1..(Len(doc) + 1), w \in Words :
           writer' = Dispatch(q, With(doc, i, Node([word |-> w, form |-> "written"], FALSE)), <<doc>>)
  BY <1>2 DEF TypeRich, WriterIs
<1>4. DOMAIN doc = 1..Len(doc)
  BY <1>1
<1> HIDE DEF doc, q
<1>5. ASSUME NEW i \in DOMAIN doc, NEW form \in {"written", "linked"},
             writer' = Dispatch(q, [[doc EXCEPT ![i].kept = FALSE] EXCEPT ![i].form = form],
                                <<[doc EXCEPT ![i].kept = FALSE]>>)
      PROVE  Steps(writer, writer')
  <2> DEFINE x == [doc[i] EXCEPT !.kept = FALSE]
             y == [x EXCEPT !.form = form]
             touched == [doc EXCEPT ![i] = x]
             new == [touched EXCEPT ![i] = y]
  <2>1. doc[i] \in Nodes
    BY <1>1, <1>5
  <2>2. x \in Nodes /\ y \in Nodes
    BY <2>1 DEF Nodes
  <2>3. writer' = Dispatch(q, new, <<touched>>)
    BY <1>1, <1>5
  <2>4. new = [doc EXCEPT ![i] = y]
    BY <1>1
  <2> HIDE DEF x, y
  <2>5. touched \in Seq(Nodes)
    BY <1>1, <2>2, OneChanged
  <2>6. new \in Seq(Nodes) /\ Near(doc, new)
    BY <1>1, <2>2, <2>4, OneChanged DEF OneApart
  <2>7. OneApart(new, touched)
    <3> HIDE DEF touched
    <3> QED BY <2>2, <2>5, OneChanged DEF OneApart
  <2> HIDE DEF touched, new
  <2> QED BY <1>1, <2>3, <2>5, <2>6, <2>7, EditSteps DEF q, doc
<1>6. ASSUME NEW i \in DOMAIN doc, writer' = Dispatch(q, Without(doc, i), <<doc>>)
      PROVE  Steps(writer, writer')
  <2>1. Without(doc, i) \in Seq(Nodes) /\ OneApart(Without(doc, i), doc)
    BY <1>1, <1>4, <1>6, OneGone
  <2>2. Near(doc, Without(doc, i))
    BY <2>1 DEF OneApart
  <2> QED BY <1>1, <1>6, <2>1, <2>2, EditSteps DEF q, doc
<1>7. ASSUME NEW i \in 1..(Len(doc) + 1), NEW w \in Words,
             writer' = Dispatch(q, With(doc, i, Node([word |-> w, form |-> "written"], FALSE)), <<doc>>)
      PROVE  Steps(writer, writer')
  <2> DEFINE x == Node([word |-> w, form |-> "written"], FALSE)
  <2>1. x \in Nodes
    BY <1>7 DEF Node, Nodes
  <2> HIDE DEF x
  <2>2. With(doc, i, x) \in Seq(Nodes) /\ OneApart(With(doc, i, x), doc)
    BY <1>1, <1>7, <2>1, OneNew
  <2>3. Near(doc, With(doc, i, x))
    BY <2>2 DEF OneApart
  <2>4. writer' = Dispatch(q, With(doc, i, x), <<doc>>)
    BY <1>7 DEF x
  <2> QED BY <1>1, <2>2, <2>3, <2>4, EditSteps DEF q, doc
<1> QED BY <1>3, <1>5, <1>6, <1>7

LEMMA UndoSteps == ASSUME WriterInv(writer), Undo PROVE Steps(writer, writer')
<1> DEFINE e == writer
<1>1. /\ e \in WriterStates /\ e.doc \in Seq(Nodes) /\ e.mode = "formatted"
      /\ e.past \in Seq(Seq(Nodes)) /\ e.past # <<>>
  BY DEF WriterInv, WriterStates, Undo
<1>2. Counted(Elsewhere(e)).past = e.past /\ Counted(Elsewhere(e)).doc = e.doc
  BY <1>1, TurnedFacts DEF SameText
<1>3. writer' = Dispatch(Counted(Elsewhere(e)), Head(e.past), <<e.doc>>)
  BY DEF Undo, WriterIs
<1>4. Head(e.past) \in Seq(Nodes)
  BY <1>1, HeadTailProperties
<1>5. OneApart(Head(e.past), e.doc) /\ Near(e.doc, Head(e.past))
  BY <1>1 DEF WriterInv, TextInv, OneApart
<1> QED BY <1>1, <1>3, <1>4, <1>5, EditSteps

\* The source: the formatted document waits for its view.
LEMMA SourceSteps ==
  ASSUME NEW e, WriterInv(e), e.mode # "formatted", NEW text \in Seq(Source), NEW sel \in Nat,
         NEW q \in WriterStates, SameText(e, q), SamePlace(e, q), Searchless(q), q.edits # e.edits
  PROVE  Steps(e, [Change(q, text) EXCEPT !.sel = sel]) /\ Steps(e, Change(q, text))
<1> DEFINE c == Change(q, text)
           n == [c EXCEPT !.sel = sel]
<1>1. /\ c \in WriterStates /\ c.doc = q.doc /\ c.parsed = q.parsed /\ c.past = q.past
      /\ SamePlace(q, c) /\ SameSearch(q, c) /\ c.edits = q.edits
  BY ChangeFacts
<1>2. /\ c.doc = e.doc /\ c.parsed = e.parsed /\ c.past = e.past /\ c.mode = e.mode
      /\ c.edits # e.edits /\ Searchless(c)
  BY <1>1 DEF SameText, SamePlace, SameSearch, Searchless
<1> HIDE DEF c
<1>3. n \in WriterStates
  BY <1>1 DEF WriterStates
<1>4. /\ n.doc = c.doc /\ n.parsed = c.parsed /\ n.past = c.past /\ n.mode = c.mode
      /\ n.edits = c.edits /\ n.link = c.link /\ n.shown = c.shown /\ n.asked = c.asked
  BY <1>1 DEF WriterStates
<1> HIDE DEF n
<1>5. Searchless(n)
  BY <1>2, <1>4 DEF Searchless
<1> QED BY <1>1, <1>2, <1>3, <1>4, <1>5, AsideSteps DEF n, c

LEMMA TypeSourceSteps == ASSUME WriterInv(writer), TypeSource PROVE Steps(writer, writer')
<1> DEFINE e == writer
           q == Counted(Elsewhere(e))
<1>1. /\ q \in WriterStates /\ SameText(e, q) /\ SamePlace(e, q) /\ Searchless(q)
      /\ q.edits # e.edits
  BY TurnedFacts DEF WriterInv
<1>2. e.mode # "formatted"
  BY DEF TypeSource
<1>3. q.value \in Seq(Source)
  BY <1>1 DEF WriterStates
<1>4. \E i \in 1..Length :
        \/ i \in DOMAIN q.value /\ writer' = [Change(q, Without(q.value, i)) EXCEPT !.sel = i]
        \/ /\ i <= Len(q.value) + 1
           /\ \E w \in Words : writer' = [Change(q, With(q.value, i, Authored(w))) EXCEPT !.sel = i]
  BY DEF TypeSource, WriterIs
<1> HIDE DEF q
<1>5. PICK i \in 1..Length :
        \/ i \in DOMAIN q.value /\ writer' = [Change(q, Without(q.value, i)) EXCEPT !.sel = i]
        \/ /\ i <= Len(q.value) + 1
           /\ \E w \in Words : writer' = [Change(q, With(q.value, i, Authored(w))) EXCEPT !.sel = i]
  BY <1>4
<1>6. i \in Nat /\ i >= 1 /\ DOMAIN q.value = 1..Len(q.value)
  BY <1>3, <1>5, WriterAssumption DEF WriterAssumption
<1>7. CASE i \in DOMAIN q.value /\ writer' = [Change(q, Without(q.value, i)) EXCEPT !.sel = i]
  BY <1>1, <1>2, <1>3, <1>6, <1>7, WithoutFacts, SourceSteps
<1>8. ASSUME NEW w \in Words, i <= Len(q.value) + 1,
             writer' = [Change(q, With(q.value, i, Authored(w))) EXCEPT !.sel = i]
      PROVE  Steps(writer, writer')
  <2>1. Authored(w) \in Source /\ i \in 1..(Len(q.value) + 1)
    BY <1>3, <1>6, <1>8 DEF Authored, Source
  <2>2. With(q.value, i, Authored(w)) \in Seq(Source)
    BY <1>3, <2>1, WithFacts
  <2> QED BY <1>1, <1>2, <1>6, <1>8, <2>2, SourceSteps
<1> QED BY <1>5, <1>7, <1>8

LEMMA CommandSteps == ASSUME WriterInv(writer), Command PROVE Steps(writer, writer')
<1> DEFINE e == writer
           q == Counted(Elsewhere(e))
<1>1. /\ q \in WriterStates /\ SameText(e, q) /\ SamePlace(e, q) /\ Searchless(q)
      /\ q.edits # e.edits
  BY TurnedFacts DEF WriterInv
<1>2. e.mode # "formatted" /\ e.value \in Seq(Source)
  BY DEF Command, WriterInv, WriterStates
<1>3. \E i \in Nat, s \in Source : writer' = Replaced([q EXCEPT !.sel = i], s)
  <2>1. \A i \in DOMAIN e.value \cup {Len(e.value) + 1} : i \in Nat
    BY <1>2
  <2>2. \E i \in DOMAIN e.value \cup {Len(e.value) + 1}, s \in Source :
          writer' = Replaced([q EXCEPT !.sel = i], s)
    BY DEF Command, WriterIs
  <2> QED BY <2>1, <2>2
<1> HIDE DEF q
<1>4. PICK i \in Nat, s \in Source : writer' = Replaced([q EXCEPT !.sel = i], s)
  BY <1>3
<1> DEFINE p == [q EXCEPT !.sel = i]
<1>5. p \in WriterStates
  BY <1>1, <1>4 DEF WriterStates
<1>6. /\ SameText(q, p) /\ SamePlace(q, p) /\ SameSearch(q, p)
      /\ p.edits = q.edits
  BY <1>1 DEF WriterStates, SameText, SamePlace, SameSearch
<1> HIDE DEF p
<1>7. SameText(e, p) /\ SamePlace(e, p) /\ Searchless(p) /\ p.edits # e.edits
  BY <1>1, <1>6 DEF SameText, SamePlace, SameSearch, Searchless
<1>8. CASE writer' = p
  BY <1>2, <1>5, <1>7, <1>8, AsideSteps DEF SameText, SamePlace
<1>9. CASE \E text \in Seq(Source) : writer' = Change(p, text)
  BY <1>2, <1>5, <1>7, <1>9, SourceSteps
<1> QED BY <1>4, <1>5, <1>8, <1>9, ReplacedFacts DEF p

LEMMA TextsTyped == \A t \in Texts : t \in Seq(Source)
<1> SUFFICES ASSUME NEW t \in Texts PROVE t \in Seq(Source)
  OBVIOUS
<1>1. PICK n \in 0..Length : t \in [1..n -> {Authored(w) : w \in Words}]
  BY DEF Texts
<1>2. \A w \in Words : Authored(w) \in Source
  BY DEF Authored, Source
<1>3. n \in Nat
  BY <1>1, WriterAssumption DEF WriterAssumption
<1>4. t \in [1..n -> Source]
  BY <1>1, <1>2
<1> QED BY <1>3, <1>4

\* Another view is opened, with the document of the text.
LEMMA SetModeSteps ==
  ASSUME WriterInv(writer), NEW mode \in {"formatted", "markdown", "preview"}, SetMode(mode)
  PROVE  Steps(writer, writer')
<1> DEFINE e == writer
           q == Counted(Elsewhere(e))
           m == [q EXCEPT !.mode = mode]
<1>1. /\ q \in WriterStates /\ SameText(e, q) /\ SamePlace(e, q) /\ Searchless(q)
      /\ q.edits # e.edits
  BY TurnedFacts DEF WriterInv
<1>2. writer' = IF mode = "formatted" THEN Loaded(m) ELSE m
  BY DEF SetMode, WriterIs
<1> HIDE DEF q
<1>3. m \in WriterStates
  BY <1>1 DEF WriterStates
<1>4. m.mode = mode /\ m.link = q.link /\ m.shown = q.shown /\ m.asked = q.asked
  BY <1>1 DEF WriterStates
<1>5. SameText(q, m)
  BY <1>1 DEF WriterStates, SameText
<1> HIDE DEF m
<1>6. SameText(e, m) /\ Searchless(m) /\ e.parsed = Serialize(e.doc)
  BY <1>1, <1>4, <1>5 DEF SameText, Searchless, WriterInv, TextInv
<1>7. CASE writer' = m /\ (mode = "formatted" => m.parsed = m.value)
  BY <1>3, <1>4, <1>6, <1>7, AsideSteps DEF SameText
<1>8. CASE writer' = LoadRich(m)
  <2> DEFINE n == LoadRich(m)
  <2>1. /\ n \in WriterStates /\ n.last = m.last /\ Serialize(n.doc) = m.value /\ n.value = m.value
        /\ n.parsed = m.value /\ n.past = <<>> /\ SameSearch(m, n)
    BY <1>3, LoadRichFacts
  <2> HIDE DEF n
  <2>2. Searchless(n) /\ n.last = e.last
    BY <1>6, <2>1 DEF Searchless, SameSearch, SameText
  <2>3. Steps(e, n)
    BY <2>1, <2>2, LoadedSteps
  <2> QED BY <1>8, <2>3 DEF n
<1> QED BY <1>2, <1>7, <1>8 DEF Loaded

\* The page's text; what the search was opened for may be gone.
LEMMA MovedInv ==
  ASSUME NEW e, WriterInv(e), NEW n \in WriterStates,
         n.field = e.field, n.asked = e.asked, n.shown = e.shown, n.mode = e.mode,
         n.link = Moved(e).link
  PROVE  SearchInv(n) /\ LinkInv(n) /\ (n.link = Nothing <=> e.link = Nothing)
<1>1. /\ n.link = Nothing <=> e.link = Nothing
      /\ n.link # Nothing => n.link.moved = TRUE /\ n.link.source = e.link.source
  BY MovedFacts DEF WriterInv
<1>2. SearchInv(n)
  BY DEF WriterInv, SearchInv
<1>3. LinkInv(n)
  BY <1>1 DEF WriterInv, LinkInv
<1> QED BY <1>1, <1>2, <1>3

LEMMA GivenSteps ==
  ASSUME WriterInv(writer), NEW text \in Seq(Source), NEW other \in BOOLEAN, Given(text, other)
  PROVE  Steps(writer, writer')
<1> DEFINE e == writer
           m == Moved(e)
           q == Counted(m)
           again == IF other THEN FALSE ELSE q.again \/ text = e.last
           g == [q EXCEPT !.value = text, !.again = again]
<1>1. /\ e \in WriterStates /\ m \in WriterStates /\ SameText(e, m) /\ SamePlace(e, m)
      /\ m.field = e.field /\ m.asked = e.asked /\ m.shown = e.shown
  BY MovedFacts DEF WriterInv
<1> HIDE DEF m
<1>2. q \in WriterStates /\ SameText(m, q) /\ SamePlace(m, q) /\ SameSearch(m, q)
  BY <1>1, CountedFacts
<1>3. writer' = IF other \/ (text # g.last /\ text # g.parsed) THEN LoadRich(g) ELSE g
  BY DEF Given, WriterIs, m
<1> HIDE DEF q
<1>4. q.again \in BOOLEAN /\ again \in BOOLEAN
  BY <1>2 DEF WriterStates
<1>5. text = e.last /\ ~other => again = TRUE
  BY <1>4
<1> HIDE DEF again
<1>6. g \in WriterStates
  BY <1>2, <1>4 DEF WriterStates
<1>7. /\ g.value = text /\ g.again = again /\ g.last = q.last /\ g.doc = q.doc
      /\ g.parsed = q.parsed /\ g.past = q.past
  BY <1>2 DEF WriterStates
<1>8. SameSearch(q, g) /\ SamePlace(q, g)
  BY <1>2 DEF WriterStates, SameSearch, SamePlace
<1> HIDE DEF g
<1>9. /\ g.last = e.last /\ g.doc = e.doc /\ g.parsed = e.parsed /\ g.past = e.past
      /\ g.mode = e.mode /\ g.field = e.field /\ g.asked = e.asked /\ g.shown = e.shown
      /\ g.link = m.link
  BY <1>1, <1>2, <1>7, <1>8 DEF SameText, SamePlace, SameSearch
<1>10. SearchInv(g) /\ LinkInv(g) /\ (g.link = Nothing <=> e.link = Nothing)
  BY <1>6, <1>9, MovedInv DEF m
<1>11. CASE ~other /\ (text = g.last \/ text = g.parsed) /\ writer' = g
  BY <1>5, <1>6, <1>7, <1>9, <1>10, <1>11, AsideSteps
<1>12. CASE writer' = LoadRich(g)
  <2> DEFINE n == LoadRich(g)
  <2>1. /\ n \in WriterStates /\ n.last = g.last /\ Serialize(n.doc) = g.value /\ n.value = g.value
        /\ n.parsed = g.value /\ n.past = <<>> /\ SameSearch(g, n) /\ SamePlace(g, n)
    BY <1>6, LoadRichFacts
  <2> HIDE DEF n
  <2>2. SearchInv(n) /\ LinkInv(n) /\ (n.link = Nothing <=> e.link = Nothing)
    BY <1>9, <2>1, MovedInv DEF SameSearch, SamePlace, m
  <2>3. Steps(e, n)
    BY <1>9, <2>1, <2>2, LoadedSteps
  <2> QED BY <1>12, <2>3 DEF n
<1> QED BY <1>3, <1>11, <1>12

LEMMA RecoveredSteps == ASSUME WriterInv(writer), Recovered PROVE Steps(writer, writer')
<1> DEFINE e == writer
           r == e.recovering
           p == [e EXCEPT !.recovering = Nothing]
<1>1. e \in WriterStates /\ r # Nothing
  BY DEF WriterInv, Recovered
<1>2. r.copy \in Seq(Source)
  BY <1>1 DEF WriterStates
<1>3. p \in WriterStates
  BY <1>1 DEF WriterStates
<1>4. /\ SameText(e, p) /\ SameSearch(e, p) /\ p.mode = e.mode
  BY <1>1 DEF WriterStates, SameText, SameSearch
<1>5. writer' = p \/ writer' = LoadRich(Change(Moved(p), r.copy))
  BY DEF Recovered, WriterIs
<1> HIDE DEF p
<1>6. WriterInv(p)
  BY <1>3, <1>4 DEF WriterInv, TextInv, SearchInv, LinkInv, Linkable, SameText, SameSearch
<1>7. CASE writer' = p
  BY <1>3, <1>4, <1>6, <1>7, AsideSteps DEF SameText, WriterInv, TextInv
<1>8. CASE writer' = LoadRich(Change(Moved(p), r.copy))
  <2> DEFINE m == Moved(p)
             c == Change(m, r.copy)
             n == LoadRich(c)
  <2>1. /\ m \in WriterStates /\ SamePlace(p, m)
        /\ m.field = p.field /\ m.asked = p.asked /\ m.shown = p.shown
    BY <1>3, MovedFacts
  <2>2. c \in WriterStates /\ c.value = r.copy /\ SamePlace(m, c) /\ SameSearch(m, c)
    BY <1>2, <2>1, ChangeFacts
  <2> HIDE DEF c, m
  <2>3. /\ n \in WriterStates /\ Serialize(n.doc) = c.value /\ n.value = c.value
        /\ n.parsed = c.value /\ n.past = <<>> /\ SameSearch(c, n) /\ SamePlace(c, n)
    BY <2>2, LoadRichFacts
  <2> HIDE DEF n
  <2>4. SearchInv(n) /\ LinkInv(n) /\ (n.link = Nothing <=> p.link = Nothing)
    <3>1. /\ n.field = p.field /\ n.asked = p.asked /\ n.shown = p.shown /\ n.mode = p.mode
          /\ n.link = m.link
      BY <2>1, <2>2, <2>3 DEF SameSearch, SamePlace
    <3> QED BY <1>6, <2>3, <3>1, MovedInv DEF m
  <2>5. Steps(e, n)
    BY <1>4, <2>3, <2>4, LoadedSteps DEF SameSearch
  <2> QED BY <1>8, <2>5 DEF n, c, m
<1> QED BY <1>5, <1>7, <1>8

\* Saving starts or a copy is to be taken over: the search is closed; or saving is over.
LEMMA HaltSteps ==
  ASSUME WriterInv(writer), Disable \/ Enable \/ CloseSearch \/ \E t \in Seq(Source) : RecoverCopy(t)
  PROVE  Steps(writer, writer')
<1> DEFINE e == writer
           q == Counted(Elsewhere(e))
<1>1. e \in WriterStates /\ e.value \in Seq(Source)
  BY DEF WriterInv, WriterStates
<1>2. /\ q \in WriterStates /\ SameText(e, q) /\ SamePlace(e, q) /\ Searchless(q)
      /\ q.edits # e.edits
  BY <1>1, TurnedFacts
<1>3. Counted(Unsearched(e)) = q
  BY DEF Elsewhere
<1>4. TextInv(e)
  BY DEF WriterInv
<1> HIDE DEF q
<1>5. CASE Disable
  <2> DEFINE n == [q EXCEPT !.disabled = TRUE]
  <2>1. n \in WriterStates
    BY <1>2 DEF WriterStates
  <2>2. /\ SameText(q, n) /\ SameSearch(q, n) /\ n.mode = q.mode
    BY <1>2 DEF WriterStates, SameText, SameSearch
  <2>3. writer' = n
    BY <1>5 DEF Disable, WriterIs, q
  <2> HIDE DEF n
  <2>4. SameText(e, n) /\ n.mode = e.mode /\ Searchless(n)
    BY <1>2, <2>2 DEF SameText, SameSearch, SamePlace, Searchless
  <2> QED BY <1>4, <2>1, <2>3, <2>4, AsideSteps DEF SameText, TextInv
<1>6. CASE Enable
  <2> DEFINE n == [e EXCEPT !.disabled = FALSE]
  <2>1. n \in WriterStates
    BY <1>1 DEF WriterStates
  <2>2. /\ SameText(e, n) /\ SameSearch(e, n) /\ n.mode = e.mode
    BY <1>1 DEF WriterStates, SameText, SameSearch
  <2>3. writer' = n
    BY <1>6 DEF Enable, WriterIs
  <2> HIDE DEF n
  <2>4. SearchInv(n) /\ LinkInv(n)
    BY <2>2 DEF WriterInv, SearchInv, LinkInv, Linkable, SameText, SameSearch
  <2> QED BY <1>4, <2>1, <2>2, <2>3, <2>4, AsideSteps DEF SameText, TextInv
<1>7. CASE CloseSearch
  <2>1. writer' = q
    BY <1>3, <1>7 DEF CloseSearch, WriterIs
  <2> QED BY <1>2, <1>4, <2>1, AsideSteps DEF SameText, SamePlace, TextInv
<1>8. CASE \E t \in Seq(Source) : RecoverCopy(t)
  <2>1. PICK t \in Seq(Source) : RecoverCopy(t)
    BY <1>8
  <2> DEFINE r == [copy |-> t, opening |-> e.value]
             n == [q EXCEPT !.recovering = r]
  <2>2. r \in [copy : Seq(Source), opening : Seq(Source)]
    BY <1>1, <2>1
  <2>3. writer' = n
    BY <2>1 DEF RecoverCopy, WriterIs, q
  <2> HIDE DEF r
  <2>4. n \in WriterStates
    BY <1>2, <2>2 DEF WriterStates
  <2>5. /\ SameText(q, n) /\ SameSearch(q, n) /\ n.mode = q.mode
    BY <1>2 DEF WriterStates, SameText, SameSearch
  <2> HIDE DEF n
  <2>6. SameText(e, n) /\ n.mode = e.mode /\ Searchless(n)
    BY <1>2, <2>5 DEF SameText, SameSearch, SamePlace, Searchless
  <2> QED BY <1>4, <2>3, <2>4, <2>6, AsideSteps DEF SameText, TextInv
<1> QED BY <1>5, <1>6, <1>7, <1>8

LEMMA OpenLinkSteps == ASSUME WriterInv(writer), OpenLinkSearch PROVE Steps(writer, writer')
<1> DEFINE e == writer
           q == Counted(Elsewhere(e))
<1>1. /\ q \in WriterStates /\ SameText(e, q) /\ SamePlace(e, q) /\ Searchless(q)
      /\ q.edits # e.edits
  BY TurnedFacts DEF WriterInv
<1>2. e.mode # "preview"
  BY DEF OpenLinkSearch
<1>3. \E query \in Queries : \E i \in DOMAIN (IF q.mode = "formatted" THEN q.doc ELSE q.value) :
        writer' = [Search(q, query) EXCEPT !.sel = i,
                     !.link = [source |-> q.mode = "markdown", at |-> i,
                     word |-> (IF q.mode = "formatted" THEN q.doc ELSE q.value)[i].word,
                               moved |-> FALSE]]
  BY DEF OpenLinkSearch, WriterIs, Elsewhere
<1>4. q.mode \in {"formatted", "markdown"} /\ q.doc \in Seq(Nodes) /\ q.value \in Seq(Source)
  BY <1>1, <1>2 DEF WriterStates, SamePlace
<1> HIDE DEF q
<1> DEFINE s == IF q.mode = "formatted" THEN q.doc ELSE q.value
<1>5. PICK query \in Queries, i \in DOMAIN s :
        writer' = [Search(q, query) EXCEPT !.sel = i,
                     !.link = [source |-> q.mode = "markdown", at |-> i, word |-> s[i].word,
                               moved |-> FALSE]]
  BY <1>3
<1>6. i \in 1..Len(s) /\ i \in Nat /\ s[i].word \in Words
  <2>1. s \in Seq(Nodes) \/ s \in Seq(Source)
    BY <1>4
  <2>2. i \in DOMAIN s
    BY <1>5
  <2> HIDE DEF s
  <2>3. i \in 1..Len(s) /\ i \in Nat /\ (s[i] \in Nodes \/ s[i] \in Source)
    BY <2>1, <2>2
  <2> QED BY <2>3 DEF Nodes, Source
<1> DEFINE link == [source |-> q.mode = "markdown", at |-> i, word |-> s[i].word, moved |-> FALSE]
           d == Search(q, query)
           n == [d EXCEPT !.sel = i, !.link = link]
<1>7. link \in Links
  BY <1>6 DEF Links
<1>8. /\ link.source = TRUE <=> q.mode = "markdown"
      /\ link.at = i /\ link.word = s[i].word /\ link.moved = FALSE
  OBVIOUS
<1>9. /\ d \in WriterStates /\ SameText(q, d) /\ SamePlace(q, d) /\ d.edits = q.edits
      /\ d.field = query /\ (d.shown # Nothing => d.shown.query = query)
      /\ \A r \in d.asked : r.aborted = FALSE => r.query = query
  BY <1>1, <1>5, SearchFacts
<1>10. writer' = n
  BY <1>5
<1> HIDE DEF d, link, s
<1>11. n \in WriterStates
  BY <1>6, <1>7, <1>9 DEF WriterStates
<1>12. /\ n.link = link /\ n.field = d.field /\ n.shown = d.shown /\ n.asked = d.asked
       /\ n.mode = d.mode /\ n.edits = d.edits
  BY <1>9 DEF WriterStates
<1>13. SameText(d, n)
  BY <1>9 DEF WriterStates, SameText
<1> HIDE DEF n
<1>14. SameText(e, n) /\ SameText(q, n) /\ n.mode = e.mode /\ n.mode = q.mode
  BY <1>1, <1>9, <1>12, <1>13 DEF SameText, SamePlace
<1>15. SearchInv(n)
  BY <1>9, <1>12 DEF SearchInv
<1>16. LinkInv(n)
  <2>1. Linkable(n) = s
    BY <1>4, <1>8, <1>12, <1>14 DEF Linkable, s, SameText
  <2> QED BY <1>4, <1>6, <1>8, <1>12, <1>14, <2>1 DEF LinkInv
<1> QED BY <1>10, <1>11, <1>14, <1>15, <1>16, AsideSteps DEF SameText, WriterInv, TextInv

LEMMA AskAgainSteps ==
  ASSUME WriterInv(writer), NEW query \in Queries, AskAgain(query)
  PROVE  Steps(writer, writer')
<1> DEFINE e == writer
           q == Counted(e)
           n == Search(q, query)
<1>1. q \in WriterStates /\ SameText(e, q) /\ SamePlace(e, q) /\ SameSearch(e, q)
  BY CountedFacts DEF WriterInv
<1>2. writer' = n
  BY DEF AskAgain, WriterIs
<1> HIDE DEF q
<1>3. /\ n \in WriterStates /\ SameText(q, n) /\ SamePlace(q, n) /\ n.link = q.link
      /\ n.field = query /\ (n.shown # Nothing => n.shown.query = query)
      /\ \A r \in n.asked : r.aborted = FALSE => r.query = query
  BY <1>1, SearchFacts
<1> HIDE DEF n
<1>4. SameText(e, n) /\ n.mode = e.mode /\ n.link = e.link
  BY <1>1, <1>3 DEF SameText, SamePlace, SameSearch
<1>5. SearchInv(n)
  BY <1>3 DEF SearchInv
<1>6. LinkInv(n)
  BY <1>4 DEF WriterInv, LinkInv, Linkable, SameText
<1> QED BY <1>2, <1>3, <1>4, <1>5, <1>6, AsideSteps DEF SameText, WriterInv, TextInv

LEMMA AnswersSteps ==
  ASSUME WriterInv(writer), NEW r, SearchAnswers(r)
  PROVE  Steps(writer, writer')
<1> DEFINE e == writer
           left == e.asked \ {r}
           q == [e EXCEPT !.asked = left]
           shown == [query |-> r.query, found |-> TRUE]
           n == [q EXCEPT !.shown = shown]
<1>1. e \in WriterStates /\ r \in e.asked
  BY DEF WriterInv, SearchAnswers
<1>2. left \in SUBSET Asked /\ r \in Asked
  BY <1>1 DEF WriterStates
<1>3. shown \in [query : Queries, found : BOOLEAN] /\ shown.query = r.query
  BY <1>2 DEF Asked
<1>4. writer' = IF ~r.aborted /\ q.link # Nothing THEN n ELSE q
  BY DEF SearchAnswers, WriterIs, HeardBy
<1> HIDE DEF left, shown
<1>5. q \in WriterStates
  BY <1>1, <1>2 DEF WriterStates
<1>6. /\ SameText(e, q) /\ q.mode = e.mode /\ q.link = e.link /\ q.field = e.field
      /\ q.shown = e.shown /\ q.asked = left
  BY <1>1 DEF WriterStates, SameText
<1> HIDE DEF q
<1>7. n \in WriterStates
  BY <1>3, <1>5 DEF WriterStates
<1>8. /\ SameText(q, n) /\ n.mode = q.mode /\ n.link = q.link /\ n.field = q.field
      /\ n.shown = shown /\ n.asked = q.asked
  BY <1>5 DEF WriterStates, SameText
<1> HIDE DEF n
<1>9. \A x \in left : x \in e.asked
  BY DEF left
<1>10. SearchInv(q) /\ LinkInv(q)
  BY <1>6, <1>9 DEF WriterInv, SearchInv, LinkInv, Linkable, SameText
<1>11. CASE writer' = q
  BY <1>5, <1>6, <1>10, <1>11, AsideSteps DEF SameText, WriterInv, TextInv
<1>12. CASE writer' = n /\ r.aborted = FALSE
  <2>1. SearchInv(n)
    BY <1>1, <1>3, <1>6, <1>8, <1>10, <1>12 DEF SearchInv, WriterInv
  <2>2. LinkInv(n)
    BY <1>8, <1>10 DEF LinkInv, Linkable, SameText
  <2>3. SameText(e, n) /\ n.mode = e.mode
    BY <1>6, <1>8 DEF SameText
  <2> QED BY <1>7, <1>12, <2>1, <2>2, <2>3, AsideSteps DEF SameText, WriterInv, TextInv
<1>13. ~r.aborted => r.aborted = FALSE
  BY <1>2 DEF Asked
<1> QED BY <1>4, <1>11, <1>12, <1>13

\* The words of a text of which one paragraph is written anew with its own word.
LEMMA SameWords ==
  ASSUME NEW v \in Seq(Source), NEW t \in Seq(Source), Len(t) = Len(v), NEW k,
         \A i \in 1..Len(v) : i # k => t[i].word = v[i].word,
         t[k].word = v[k].word
  PROVE  [i \in DOMAIN t |-> t[i].word] = [i \in DOMAIN v |-> v[i].word]
<1>1. DOMAIN t = 1..Len(v) /\ DOMAIN v = 1..Len(v)
  OBVIOUS
<1>2. \A i \in 1..Len(v) : t[i].word = v[i].word
  OBVIOUS
<1> QED BY <1>1, <1>2

\* The chosen target takes the place of the word it was looked for.
LEMMA ChooseSteps == ASSUME WriterInv(writer), Choose PROVE Steps(writer, writer')
<1> DEFINE e == writer
           l == e.link
           q == Unsearched(e)
           linked == [word |-> l.word, form |-> "linked"]
           n == ApplyLink(q, l)
<1>1. e \in WriterStates /\ l # Nothing /\ writer' = n
  BY DEF WriterInv, Choose, WriterIs
<1>2. l \in Links
  BY <1>1 DEF WriterStates
<1>3. /\ q \in WriterStates /\ SameText(e, q) /\ SamePlace(e, q) /\ Searchless(q)
      /\ q.edits = e.edits
  BY <1>1, UnsearchedFacts
<1>4. linked \in Source /\ linked.word = l.word /\ l.at \in Nat /\ l.source \in BOOLEAN
  BY <1>2 DEF Links, Source
<1>5. \/ n = q
      \/ l.source = TRUE /\ n = Replaced([q EXCEPT !.sel = l.at], linked)
      \/ /\ l.source = FALSE
         /\ n = Dispatch(q, [q.doc EXCEPT ![l.at] = Node(linked, FALSE)],
                         <<[q.doc EXCEPT ![l.at].kept = FALSE]>>)
  BY <1>4 DEF ApplyLink
<1>6. TextInv(q) /\ q.mode = e.mode /\ q.doc = e.doc /\ q.value = e.value /\ q.last = e.last
  BY <1>3 DEF WriterInv, TextInv, SameText, SamePlace
<1>7. /\ e.mode = IF l.source = TRUE THEN "markdown" ELSE "formatted"
      /\ l.moved = FALSE => l.at \in 1..Len(Linkable(e)) /\ Linkable(e)[l.at].word = l.word
  BY <1>1 DEF WriterInv, LinkInv
<1>8. e.value \in Seq(Source) /\ e.doc \in Seq(Nodes)
  BY <1>1 DEF WriterStates
<1> HIDE DEF q, n, linked
<1>9. CASE n = q
  <2>1. RewritesOne(e, n) /\ KeepsWords(e, n)
    BY <1>6, <1>9 DEF RewritesOne, KeepsWords
  <2> QED BY <1>1, <1>3, <1>6, <1>9, <2>1, SearchlessInv DEF Steps, WriterInv
<1>10. CASE l.source = TRUE /\ n = Replaced([q EXCEPT !.sel = l.at], linked)
  <2> DEFINE p == [q EXCEPT !.sel = l.at]
  <2>1. p \in WriterStates /\ p.sel = l.at
    BY <1>3, <1>4 DEF WriterStates
  <2>2. SameText(q, p) /\ SamePlace(q, p) /\ SameSearch(q, p)
    BY <1>3 DEF WriterStates, SameText, SamePlace, SameSearch
  <2> HIDE DEF p
  <2>3. /\ p.value = e.value /\ p.last = e.last /\ p.doc = e.doc /\ p.parsed = e.parsed
        /\ p.past = e.past /\ p.mode = "markdown" /\ Searchless(p)
    BY <1>3, <1>7, <1>10, <2>2 DEF SameText, SamePlace, SameSearch, Searchless
  <2>4. CASE n = p
    <3>1. TextInv(p)
      BY <2>3 DEF WriterInv, TextInv
    <3>2. RewritesOne(e, n) /\ KeepsWords(e, n)
      BY <2>3, <2>4 DEF RewritesOne, KeepsWords
    <3> QED BY <1>1, <2>1, <2>3, <2>4, <3>1, <3>2, SearchlessInv DEF Steps, WriterInv
  <2>5. ASSUME NEW text \in Seq(Source), n = Change(p, text),
               p.sel \in 1..Len(p.value) =>
                 /\ Len(text) = Len(p.value)
                 /\ \A i \in 1..Len(text) : text[i] = IF i = p.sel THEN linked ELSE p.value[i]
        PROVE  Steps(writer, writer')
    <3>1. /\ n \in WriterStates /\ n.value = text /\ n.doc = p.doc /\ n.parsed = p.parsed
          /\ n.past = p.past /\ SamePlace(p, n) /\ SameSearch(p, n)
      BY <2>1, <2>5, ChangeFacts
    <3>2. Searchless(n) /\ n.mode = "markdown"
      BY <2>3, <3>1 DEF Searchless, SamePlace, SameSearch
    <3>3. TextInv(n)
      BY <2>3, <3>1, <3>2 DEF WriterInv, TextInv
    <3>4. RewritesOne(e, n)
      BY <1>7, <1>10 DEF RewritesOne
    <3>5. KeepsWords(e, n)
      <4>1. SUFFICES ASSUME l.moved = FALSE
                     PROVE  [i \in DOMAIN text |-> text[i].word] = [i \in DOMAIN e.value |-> e.value[i].word]
        BY <3>1 DEF KeepsWords
      <4>2. l.at \in 1..Len(e.value) /\ e.value[l.at].word = l.word
        BY <1>7, <1>10, <4>1 DEF Linkable
      <4>3. /\ Len(text) = Len(e.value)
            /\ \A i \in 1..Len(text) : text[i] = IF i = l.at THEN linked ELSE e.value[i]
        BY <2>1, <2>3, <2>5, <4>2
      <4>4. \A i \in 1..Len(e.value) : i # l.at => text[i].word = e.value[i].word
        BY <4>3
      <4>5. text[l.at].word = e.value[l.at].word
        BY <1>4, <4>2, <4>3
      <4> QED BY <1>8, <2>5, <4>3, <4>4, <4>5, SameWords
    <3>6. WriterInv(n)
      BY <3>1, <3>2, <3>3, SearchlessInv DEF WriterInv
    <3>7. Steps(e, n)
      BY <3>4, <3>5, <3>6 DEF Steps
    <3> QED BY <1>1, <3>7
  <2>6. n = Replaced(p, linked)
    BY <1>10 DEF p
  <2>7. \/ n = p
        \/ \E text \in Seq(Source) :
             /\ n = Change(p, text)
             /\ p.sel \in 1..Len(p.value) =>
                  /\ Len(text) = Len(p.value)
                  /\ \A i \in 1..Len(text) : text[i] = IF i = p.sel THEN linked ELSE p.value[i]
    BY <1>4, <2>1, <2>6, ReplacedFacts
  <2> QED BY <2>4, <2>5, <2>7
<1>11. CASE /\ l.source = FALSE
            /\ n = Dispatch(q, [q.doc EXCEPT ![l.at] = Node(linked, FALSE)],
                            <<[q.doc EXCEPT ![l.at].kept = FALSE]>>)
  <2> DEFINE doc == e.doc
             k == l.at
             x == Node(linked, FALSE)
             y == [doc[k] EXCEPT !.kept = FALSE]
             new == [doc EXCEPT ![k] = x]
             before == [doc EXCEPT ![k] = y]
  <2>1. x \in Nodes /\ x.word = l.word
    BY <1>4 DEF Node, Nodes, Source
  <2>2. n = Dispatch(q, new, <<before>>)
    BY <1>6, <1>8, <1>11
  <2>3. new = [before EXCEPT ![k] = x]
    BY <1>8
  <2> HIDE DEF x
  <2>4. new \in Seq(Nodes) /\ Near(doc, new)
    BY <1>8, <2>1, OneChanged DEF OneApart
  <2>5. before \in Seq(Nodes) /\ OneApart(new, before)
    <3>1. CASE k \in 1..Len(doc)
      <4>1. doc[k] \in Nodes
        BY <1>8, <3>1
      <4>2. y \in Nodes
        BY <4>1 DEF Nodes
      <4> HIDE DEF y
      <4>3. before \in Seq(Nodes)
        BY <1>8, <4>2, OneChanged
      <4> HIDE DEF before, new
      <4> QED BY <2>1, <2>3, <4>3, OneChanged DEF OneApart
    <3>2. CASE k \notin 1..Len(doc)
      <4>1. before = doc
        BY <1>8, <3>2
      <4> HIDE DEF before, new
      <4> QED BY <1>8, <2>1, <2>3, <4>1, OneChanged DEF OneApart
    <3> QED BY <3>1, <3>2
  <2>6. q.mode = "formatted" /\ Near(q.doc, new)
    BY <1>6, <1>7, <1>11, <2>4
  <2>7. /\ l.moved = FALSE => k \in 1..Len(doc) /\ doc[k].word = l.word
        /\ Len(new) = Len(doc)
        /\ \A i \in 1..Len(doc) : i # k => new[i] = doc[i]
        /\ k \in 1..Len(doc) => new[k] = x
    <3>1. l.moved = FALSE => k \in 1..Len(doc) /\ doc[k].word = l.word
      BY <1>7, <1>11 DEF Linkable
    <3>2. /\ Len(new) = Len(doc)
          /\ \A i \in 1..Len(doc) : i # k => new[i] = doc[i]
          /\ k \in 1..Len(doc) => new[k] = x
      BY <1>8
    <3> QED BY <3>1, <3>2
  <2> HIDE DEF new, before
  <2>8. /\ WriterInv(n) /\ RewritesOne(q, n) /\ n.link = Nothing
        /\ n = q \/ (n.value = Serialize(new) /\ n.last = n.value)
    BY <1>3, <1>6, <2>2, <2>4, <2>5, <2>6, DispatchSteps
  <2>9. RewritesOne(e, n)
    BY <1>3, <1>6, <2>8 DEF RewritesOne, SameText
  <2>10. KeepsWords(e, n)
    <3>1. SUFFICES ASSUME l.moved = FALSE, e.again = FALSE, n.value = Serialize(new)
                   PROVE  [i \in DOMAIN n.value |-> n.value[i].word]
                            = [i \in DOMAIN e.value |-> e.value[i].word]
      BY <1>6, <2>8 DEF KeepsWords
    <3>2. e.value = Serialize(doc)
      BY <1>7, <1>11, <3>1 DEF WriterInv, TextInv
    <3>3. /\ Serialize(doc) \in Seq(Source) /\ Len(Serialize(doc)) = Len(doc)
          /\ \A i \in 1..Len(doc) : Serialize(doc)[i] = Wrote(doc[i])
      BY <1>8, SerializeFacts
    <3>4. /\ Serialize(new) \in Seq(Source) /\ Len(Serialize(new)) = Len(doc)
          /\ \A i \in 1..Len(doc) : Serialize(new)[i] = Wrote(new[i])
      BY <2>4, <2>7, SerializeFacts
    <3>5. \A a : Wrote(a).word = a.word
      BY DEF Wrote
    <3>6. \A i \in 1..Len(doc) : i # k => Serialize(new)[i].word = Serialize(doc)[i].word
      BY <2>7, <3>3, <3>4
    <3>7. Serialize(new)[k].word = Serialize(doc)[k].word
      BY <2>1, <2>7, <3>1, <3>3, <3>4, <3>5
    <3> HIDE DEF doc, k
    <3> QED BY <3>1, <3>2, <3>3, <3>4, <3>6, <3>7, SameWords
  <2> QED BY <1>1, <2>8, <2>9, <2>10 DEF Steps
<1> QED BY <1>5, <1>9, <1>10, <1>11

LEMMA WriterInitInv == WriterInit => WriterInv(writer)
<1> SUFFICES ASSUME WriterInit PROVE WriterInv(writer)
  OBVIOUS
<1>1. PICK w \in Words :
        writer = [value |-> <<Authored(w)>>, last |-> <<>>, doc |-> Parse(<<Authored(w)>>),
                parsed |-> <<Authored(w)>>, past |-> <<>>, mode |-> "formatted", sel |-> 1,
                disabled |-> FALSE, recovering |-> Nothing, link |-> Nothing, field |-> "",
                asked |-> {}, shown |-> Nothing, again |-> FALSE, edits |-> 0]
  BY DEF WriterInit
<1> DEFINE text == <<Authored(w)>>
           doc == Parse(text)
<1>2. Authored(w) \in Source
  BY <1>1 DEF Authored, Source
<1>3. text \in Seq(Source)
  BY <1>2
<1>4. doc \in Seq(Nodes) /\ Serialize(doc) = text
  BY <1>3, ParseFacts
<1>5. <<>> \in Seq(Source) /\ <<>> \in Seq(Seq(Nodes))
  OBVIOUS
<1>6. writer = [value |-> text, last |-> <<>>, doc |-> doc,
                parsed |-> text, past |-> <<>>, mode |-> "formatted", sel |-> 1,
                disabled |-> FALSE, recovering |-> Nothing, link |-> Nothing, field |-> "",
                asked |-> {}, shown |-> Nothing, again |-> FALSE, edits |-> 0]
  BY <1>1
<1> HIDE DEF text, doc
<1>7. writer \in WriterStates
  BY <1>3, <1>4, <1>5, <1>6 DEF WriterStates
<1>8. TextInv(writer)
  BY <1>4, <1>6 DEF TextInv
<1>9. Searchless(writer)
  BY <1>6 DEF Searchless
<1> QED BY <1>7, <1>8, <1>9, SearchlessInv DEF WriterInv

LEMMA WriterSteps ==
  ASSUME WriterInv(writer), [WriterNext]_writer
  PROVE  WriterInv(writer') /\ [UntouchedKeepSource /\ LinkKeepsTheWords]_writer
<1>1. CASE UNCHANGED writer
  BY <1>1 DEF WriterInv, TextInv, SearchInv, LinkInv, Linkable
<1>2. CASE WriterNext
  <2>1. writer.last \in Seq(Source)
    BY DEF WriterInv, WriterStates
  <2>2. \A t \in Texts \cup {writer.last} : t \in Seq(Source)
    BY <2>1, TextsTyped
  <2>3. Steps(writer, writer')
    BY <1>2, <2>2, TypeRichSteps, UndoSteps, TypeSourceSteps, CommandSteps, HaltSteps,
       RecoveredSteps, OpenLinkSteps, ChooseSteps, SetModeSteps, GivenSteps, AskAgainSteps,
       AnswersSteps DEF WriterNext
  <2>4. writer.again \in BOOLEAN /\ (writer.link # Nothing => writer.link.moved \in BOOLEAN)
    BY DEF WriterInv, WriterStates, Links
  <2>5. UntouchedKeepSource
    BY <2>3, <2>4 DEF Steps, RewritesOne, UntouchedKeepSource
  <2>6. LinkKeepsTheWords
    BY <2>3, <2>4 DEF Steps, KeepsWords, LinkKeepsTheWords
  <2> QED BY <2>3, <2>5, <2>6 DEF Steps
<1> QED BY <1>1, <1>2

LEMMA WriterOfParts == PartsSpec => WriterSpec
<1>1. PartsInit => WriterInit
  BY DEF PartsInit
<1>2. [PartsNext]_partVars => [WriterNext]_writer
  BY DEF PartsNext, partVars
<1> QED BY <1>1, <1>2, PTL DEF PartsSpec, WriterSpec

LEMMA WriterInvariance == WriterSpec => []WriterInv(writer)
<1>1. WriterInv(writer) /\ [WriterNext]_writer => WriterInv(writer)'
  BY WriterSteps
<1> QED BY <1>1, WriterInitInv, PTL DEF WriterSpec

\* For texts of every length and every vocabulary: what the formatted view shows is the
\* text, unless the page gave back the very text it was last told of, and the matches that
\* the search for a link target shows are those of what its field holds.
THEOREM WriterStaysCurrent == PartsSpec => []WriterIsCurrent
<1>1. WriterInv(writer) => WriterIsCurrent
  <2> SUFFICES ASSUME WriterInv(writer) PROVE WriterIsCurrent
    OBVIOUS
  <2>1. writer.again \in BOOLEAN
    BY DEF WriterInv, WriterStates
  <2>2. FormattedShowsTheText
    BY <2>1 DEF WriterInv, TextInv, FormattedShowsTheText
  <2>3. ResultsMatchTheField
    BY DEF WriterInv, SearchInv, ResultsMatchTheField
  <2> QED BY <2>2, <2>3 DEF WriterIsCurrent
<1> QED BY <1>1, WriterInvariance, WriterOfParts, PTL

\* One edit, a link or an undo rewrites the source of one paragraph at most, and a chosen
\* link target keeps every word, unless the page or a copy replaced the text meanwhile.
THEOREM AuthorsTextIsKept == PartsSpec => AuthorsTextStands
<1>1. WriterInv(writer) /\ [WriterNext]_writer => [UntouchedKeepSource /\ LinkKeepsTheWords]_writer
  BY WriterSteps
<1> QED BY <1>1, WriterInvariance, WriterOfParts, PTL DEF WriterSpec, AuthorsTextStands

(***************************************************************************)
(* The campaign graph.                                                     *)
(***************************************************************************)
Places == Points \cup {Laid, Suggested, Pushed}
Arrangements == UNION {[D -> Places] : D \in SUBSET Cards}
Givens == [view : Views, data : 1..MaxData, registry : Nat]

Canvases ==
  [open : BOOLEAN, given : {NoCanvas} \cup Givens, due : BOOLEAN, view : {NoCanvas} \cup Views,
   cards : SUBSET Cards, positions : Arrangements, unplaced : SUBSET Cards, filter : BOOLEAN,
   gesture : {NoCanvas} \cup [card : Cards \cup {Pan}],
   motion : {NoCanvas} \cup [view : Views, held : Cards, positions : Arrangements,
                             others : SUBSET Cards],
   requests : SUBSET [given : Givens, aborted : BOOLEAN], answer : {NoCanvas} \cup Givens,
   fits : BOOLEAN, onArrival : BOOLEAN, chosen : BOOLEAN, error : BOOLEAN,
   notices : SUBSET Views]

\* The cards that a view may ever show.
OwnCards(v) == Addon(v) \cup UNION {Core(v, d) : d \in 1..MaxData}

PrefsTyped(stored) ==
  /\ stored \in [Views -> [positions : Arrangements, filter : BOOLEAN]]
  /\ \A v \in Views : DOMAIN stored[v].positions \subseteq OwnCards(v)

LEMMA ArrangementFacts ==
  ASSUME NEW f
  PROVE  f \in Arrangements <=>
           f = [c \in DOMAIN f |-> f[c]] /\ DOMAIN f \subseteq Cards /\ \A c \in DOMAIN f : f[c] \in Places
BY DEF Arrangements

LEMMA ExtendedFacts ==
  ASSUME NEW f \in Arrangements, NEW g \in Arrangements
  PROVE  /\ Extended(f, g) \in Arrangements /\ DOMAIN Extended(f, g) = DOMAIN f \cup DOMAIN g
         /\ \A c \in DOMAIN f : Extended(f, g)[c] = f[c]
         /\ \A c \in DOMAIN g \ DOMAIN f : Extended(f, g)[c] = g[c]
<1>1. /\ DOMAIN f \subseteq Cards /\ \A c \in DOMAIN f : f[c] \in Places
      /\ DOMAIN g \subseteq Cards /\ \A c \in DOMAIN g : g[c] \in Places
  BY ArrangementFacts
<1>2. Extended(f, g) = [c \in DOMAIN f \cup DOMAIN g |-> IF c \in DOMAIN f THEN f[c] ELSE g[c]]
  BY DEF Extended
<1>3. Extended(f, g) \in [DOMAIN f \cup DOMAIN g -> Places]
  BY <1>1, <1>2
<1> QED BY <1>1, <1>2, <1>3 DEF Arrangements

\* What one canvas keeps by itself.
CanvasKeeps(e) ==
  /\ e \in Canvases
  /\ e.open = FALSE => e = Away
  /\ e.open = TRUE => e.given # NoCanvas
  /\ e.open = TRUE /\ e.due = FALSE => e.view = e.given.view
  /\ e.view = NoCanvas => e.cards = {} /\ DOMAIN e.positions = {}
  /\ e.view # NoCanvas => e.cards \subseteq OwnCards(e.view) /\ DOMAIN e.positions \subseteq OwnCards(e.view)
  /\ e.cards \subseteq DOMAIN e.positions
  /\ \A r \in e.requests : r.aborted = FALSE =>
       e.open = TRUE /\ r.given.registry = e.given.registry /\ r.given.view = e.view
  /\ e.due = FALSE /\ e.answer # NoCanvas => e.answer = e.given
  /\ e.chosen = TRUE => e.fits = FALSE /\ e.onArrival = FALSE

\* The card that is held, and the draft it is moved in.
Holds(e) ==
  /\ e.gesture # NoCanvas => e.gesture.card \in e.cards \cup {Pan}
  /\ e.motion # NoCanvas =>
       /\ e.motion.view = e.view /\ e.unplaced = {}
       /\ e.motion.held \in DOMAIN e.positions /\ e.motion.held \notin e.motion.others
       /\ DOMAIN e.motion.positions = DOMAIN e.positions
       /\ \A c \in DOMAIN e.positions \ {e.motion.held} : e.motion.positions[c] = e.positions[c]
       /\ e.motion.positions[e.motion.held] \in Points
       /\ e.gesture # NoCanvas => e.gesture.card = e.motion.held

\* Cards that the canvas placed are where it puts them.
Laying(e) == e.unplaced \subseteq DOMAIN e.positions /\ \A c \in e.unplaced : e.positions[c] = Laid

\* A tab that was not told of anything newer shows what is stored.
AgreesWith(positions, stored) ==
  /\ DOMAIN stored \subseteq DOMAIN positions
  /\ \A c \in DOMAIN stored : positions[c] = stored[c]
  /\ \A c \in DOMAIN positions : positions[c] \in Points => c \in DOMAIN stored
Agrees(e, stored) ==
  e.open = TRUE /\ e.view # NoCanvas /\ e.error = FALSE /\ e.view \notin e.notices =>
    AgreesWith(e.positions, stored[e.view].positions)

TabKeeps(e, stored) == CanvasKeeps(e) /\ Holds(e) /\ Laying(e) /\ Agrees(e, stored)

CanvasInv ==
  /\ PrefsTyped(prefs) /\ lost \in Nat /\ tab = [t \in Tabs |-> tab[t]]
  /\ \A t \in Tabs : TabKeeps(tab[t], prefs)

\* No card that the reader placed or pushed is placed by the program, from one state of
\* a canvas to another.
StaysArranged(e, n) ==
  \A c \in DOMAIN e.positions : e.positions[c] \notin {Laid, Suggested} =>
    c \in DOMAIN n.positions /\ n.positions[c] \notin {Laid, Suggested}

LEMMA PlacesApart == Points \cap {Laid, Suggested, Pushed} = {} /\ Pushed \notin {Laid, Suggested}
BY CanvasAssumption DEF CanvasAssumption

LEMMA OwnAreCards == \A v \in Views : OwnCards(v) \subseteq Cards
<1> SUFFICES ASSUME NEW v \in Views, NEW c, c \in OwnCards(v)
             PROVE  c \in Cards
  OBVIOUS
<1>1. CASE c \in Addon(v)
  BY <1>1, CanvasAssumption DEF CanvasAssumption
<1>2. CASE \E d \in 1..MaxData : c \in Core(v, d)
  <2>1. PICK d \in 1..MaxData : c \in Core(v, d)
    BY <1>2
  <2>2. Core(v, d) \subseteq Cards
    BY <2>1, CanvasAssumption DEF CanvasAssumption
  <2> QED BY <2>1, <2>2
<1>3. c \in Addon(v) \/ \E D \in {Core(v, d) : d \in 1..MaxData} : c \in D
  BY Zenon DEF OwnCards
<1>4. (\E D \in {Core(v, d) : d \in 1..MaxData} : c \in D) => \E d \in 1..MaxData : c \in Core(v, d)
  BY Zenon
<1> QED BY <1>1, <1>2, <1>3, <1>4

LEMMA NoCardsFacts == NoCards \in Arrangements /\ DOMAIN NoCards = {}
BY DEF NoCards, Arrangements

LEMMA AwayKeeps == \A stored : TabKeeps(Away, stored)
<1>1. Away \in Canvases
  BY NoCardsFacts DEF Away, Canvases
<1>2. /\ Away.open = FALSE /\ Away.view = NoCanvas /\ Away.cards = {} /\ Away.positions = NoCards
      /\ Away.requests = {} /\ Away.answer = NoCanvas /\ Away.chosen = FALSE /\ Away.unplaced = {}
      /\ Away.gesture = NoCanvas /\ Away.motion = NoCanvas
  BY DEF Away
<1>3. CanvasKeeps(Away)
  BY <1>1, <1>2, NoCardsFacts DEF CanvasKeeps
<1>4. Holds(Away) /\ Laying(Away)
  BY <1>2 DEF Holds, Laying
<1>5. \A stored : Agrees(Away, stored)
  BY <1>2 DEF Agrees
<1> QED BY <1>3, <1>4, <1>5 DEF TabKeeps

LEMMA TabFields ==
  ASSUME NEW e, NEW stored, TabKeeps(e, stored)
  PROVE  /\ e \in Canvases /\ e.positions \in Arrangements
         /\ DOMAIN e.positions \subseteq Cards /\ \A c \in DOMAIN e.positions : e.positions[c] \in Places
         /\ e.cards \subseteq DOMAIN e.positions /\ e.unplaced \subseteq DOMAIN e.positions
<1>1. e \in Canvases
  BY DEF TabKeeps, CanvasKeeps
<1>2. e.positions \in Arrangements
  BY <1>1 DEF Canvases
<1> QED BY <1>1, <1>2, ArrangementFacts DEF TabKeeps, CanvasKeeps, Laying

\* A canvas that keeps to this is spread already.
LEMMA SpreadIs ==
  ASSUME NEW e, NEW stored, TabKeeps(e, stored)
  PROVE  Spread(e) = e
<1>1. e \in Canvases /\ e.positions = [c \in DOMAIN e.positions |-> e.positions[c]]
  BY TabFields, ArrangementFacts
<1>2. [c \in DOMAIN e.positions |-> IF c \in e.unplaced THEN Laid ELSE e.positions[c]] = e.positions
  BY <1>1 DEF TabKeeps, Laying
<1>3. Spread(e) = [e EXCEPT !.positions = e.positions]
  BY <1>2 DEF Spread
<1> QED BY <1>1, <1>3 DEF Canvases

-----------------------------------------------------------------------------
(* What ends a motion.                                                     *)

SameOtherwise(e, d) ==
  /\ d.open = e.open /\ d.given = e.given /\ d.due = e.due /\ d.view = e.view /\ d.cards = e.cards
  /\ d.unplaced = e.unplaced /\ d.filter = e.filter /\ d.requests = e.requests
  /\ d.answer = e.answer /\ d.fits = e.fits /\ d.onArrival = e.onArrival /\ d.chosen = e.chosen
  /\ d.notices = e.notices

\* A canvas that only ended its motion keeps to all of it if it agrees with what is stored.
LEMMA EndedKeeps ==
  ASSUME NEW e, NEW stored, TabKeeps(e, stored), NEW d \in Canvases, SameOtherwise(e, d),
         d.motion = NoCanvas, d.gesture = NoCanvas, e.open = TRUE,
         DOMAIN d.positions = DOMAIN e.positions,
         \A c \in e.unplaced : d.positions[c] = Laid,
         NEW now, Agrees(d, now)
  PROVE  TabKeeps(d, now)
<1>1. CanvasKeeps(d)
  BY DEF TabKeeps, CanvasKeeps, SameOtherwise
<1>2. Holds(d)
  BY DEF Holds
<1>3. Laying(d)
  BY DEF TabKeeps, Laying, SameOtherwise
<1> QED BY <1>1, <1>2, <1>3 DEF TabKeeps

\* The pointer lets go.
LEMMA CancelGestureFacts ==
  ASSUME NEW e, NEW stored, TabKeeps(e, stored)
  PROVE  LET d == CancelGesture(e) IN
         /\ d \in Canvases /\ SameOtherwise(e, d) /\ d.positions = e.positions /\ d.error = e.error
         /\ d.gesture = NoCanvas
         /\ e.gesture # NoCanvas => d.motion = NoCanvas
         /\ e.gesture = NoCanvas => d = e
<1>0. e \in Canvases
  BY TabFields
<1>1. CASE e.gesture = NoCanvas
  <2>1. CancelGesture(e) = e
    BY <1>1 DEF CancelGesture
  <2> QED BY <1>0, <1>1, <2>1 DEF SameOtherwise
<1>2. CASE e.gesture # NoCanvas /\ e.gesture.card = Pan
  <2>1. CancelGesture(e) = [e EXCEPT !.gesture = NoCanvas]
    BY <1>2 DEF CancelGesture
  <2>2. e.motion = NoCanvas
    <3>1. e.motion # NoCanvas => e.motion.held \in Cards /\ e.gesture.card = e.motion.held
      BY <1>2, TabFields DEF TabKeeps, Holds
    <3> QED BY <1>2, <3>1, CanvasAssumption DEF CanvasAssumption
  <2>3. [e EXCEPT !.gesture = NoCanvas] \in Canvases
    BY <1>0 DEF Canvases
  <2>4. SameOtherwise(e, [e EXCEPT !.gesture = NoCanvas])
        /\ [e EXCEPT !.gesture = NoCanvas].positions = e.positions
        /\ [e EXCEPT !.gesture = NoCanvas].error = e.error
        /\ [e EXCEPT !.gesture = NoCanvas].motion = e.motion
        /\ [e EXCEPT !.gesture = NoCanvas].gesture = NoCanvas
    BY <1>0 DEF SameOtherwise, Canvases
  <2> QED BY <1>2, <2>1, <2>2, <2>3, <2>4
<1>3. CASE e.gesture # NoCanvas /\ e.gesture.card # Pan
  <2> DEFINE d == [e EXCEPT !.gesture = NoCanvas, !.motion = NoCanvas]
  <2>1. CancelGesture(e) = d
    BY <1>0, <1>3 DEF CancelGesture, CancelMotion, Canvases
  <2>2. d \in Canvases
    BY <1>0 DEF Canvases
  <2>3. /\ SameOtherwise(e, d) /\ d.positions = e.positions /\ d.error = e.error
        /\ d.motion = NoCanvas /\ d.gesture = NoCanvas
    BY <1>0 DEF SameOtherwise, Canvases
  <2> QED BY <1>3, <2>1, <2>2, <2>3
<1> QED BY <1>1, <1>2, <1>3

LEMMA CancelMotionFacts ==
  ASSUME NEW e \in Canvases
  PROVE  LET d == CancelMotion(e) IN
         /\ d \in Canvases /\ SameOtherwise(e, d) /\ d.positions = e.positions /\ d.error = e.error
         /\ d.gesture = e.gesture /\ d.motion = NoCanvas
<1>1. CancelMotion(e) \in Canvases
  BY DEF CancelMotion, Canvases
<1> QED BY <1>1 DEF CancelMotion, SameOtherwise, Canvases

\* A drop comes to rest.
LEMMA FinishFacts ==
  ASSUME NEW e, NEW stored, TabKeeps(e, stored), Finishes(e),
         NEW pushed \in SUBSET e.motion.others, NEW b \in BOOLEAN
  PROVE  LET f == FinishMotion(e, pushed)
             d == [f EXCEPT !.error = b] IN
         /\ f \in Canvases /\ d \in Canvases /\ SameOtherwise(e, d) /\ d.error = b
         /\ d.motion = NoCanvas /\ d.gesture = NoCanvas
         /\ d.positions = f.positions /\ f.filter = e.filter
         /\ DOMAIN d.positions = DOMAIN e.positions
         /\ d.positions[e.motion.held] = e.motion.positions[e.motion.held]
         /\ StaysArranged(e, d)
<1> DEFINE f == FinishMotion(e, pushed)
           d == [f EXCEPT !.error = b]
           p == [c \in DOMAIN e.motion.positions |-> IF c \in pushed THEN Pushed ELSE e.motion.positions[c]]
           m == e.motion
<1>0. e \in Canvases
  BY TabFields
<1>1. /\ m # NoCanvas /\ e.gesture = NoCanvas
      /\ m \in [view : Views, held : Cards, positions : Arrangements, others : SUBSET Cards]
  BY <1>0 DEF Finishes, Canvases
<1>2. /\ DOMAIN m.positions = DOMAIN e.positions /\ m.held \in DOMAIN e.positions /\ m.held \notin m.others
      /\ \A c \in DOMAIN e.positions \ {m.held} : m.positions[c] = e.positions[c]
      /\ m.positions[m.held] \in Points
  BY <1>1 DEF TabKeeps, Holds
<1>3. p \in Arrangements /\ DOMAIN p = DOMAIN e.positions
  <2>1. m.positions \in Arrangements
    BY <1>1
  <2>2. DOMAIN m.positions \subseteq Cards /\ \A c \in DOMAIN m.positions : m.positions[c] \in Places
    BY <2>1, ArrangementFacts
  <2>3. p \in [DOMAIN m.positions -> Places]
    BY <2>2 DEF Places
  <2> QED BY <1>2, <2>2, <2>3 DEF Arrangements
<1>4. f = [e EXCEPT !.motion = NoCanvas, !.positions = p]
  BY <1>1 DEF FinishMotion
<1> HIDE DEF p
<1>5. f \in Canvases /\ d \in Canvases
  <2>1. f \in Canvases
    BY <1>0, <1>3, <1>4 DEF Canvases
  <2> HIDE DEF f
  <2> QED BY <2>1 DEF Canvases
<1>6. /\ SameOtherwise(e, d) /\ d.error = b /\ d.motion = NoCanvas /\ d.gesture = NoCanvas
      /\ d.positions = p /\ f.positions = p /\ f.filter = e.filter
  BY <1>0, <1>1, <1>4 DEF SameOtherwise, Canvases
<1>7. p[m.held] = m.positions[m.held]
  BY <1>1, <1>2 DEF p
<1>8. StaysArranged(e, d)
  <2> SUFFICES ASSUME NEW c \in DOMAIN e.positions, e.positions[c] \notin {Laid, Suggested}
               PROVE  p[c] \notin {Laid, Suggested}
    BY <1>3, <1>6 DEF StaysArranged
  <2>1. p[c] = IF c \in pushed THEN Pushed ELSE m.positions[c]
    BY <1>2 DEF p
  <2>2. m.positions[c] \in Points \/ m.positions[c] = e.positions[c]
    BY <1>2
  <2> QED BY <2>1, <2>2, PlacesApart
<1> HIDE DEF m, d, f
<1>9. QED BY <1>3, <1>5, <1>6, <1>7, <1>8 DEF m, d, f

-----------------------------------------------------------------------------
(* What a canvas becomes.                                                  *)

SameButPlaces(e, n) ==
  /\ n.open = e.open /\ n.given = e.given /\ n.due = e.due /\ n.view = e.view /\ n.cards = e.cards
  /\ n.filter = e.filter /\ n.gesture = e.gesture /\ n.motion = e.motion /\ n.requests = e.requests
  /\ n.answer = e.answer /\ n.fits = e.fits /\ n.onArrival = e.onArrival /\ n.chosen = e.chosen
  /\ n.error = e.error /\ n.notices = e.notices

LEMMA PlaceFacts ==
  ASSUME NEW e \in Canvases, NEW known \in Arrangements
  PROVE  LET n == Place(e, known) IN
         /\ n \in Canvases /\ SameButPlaces(e, n)
         /\ DOMAIN n.positions = DOMAIN known \cup e.cards
         /\ \A c \in DOMAIN known : n.positions[c] = known[c]
         /\ \A c \in e.cards \ DOMAIN known : n.positions[c] = Laid
         /\ n.unplaced = e.unplaced \cup (e.cards \ DOMAIN known)
<1> DEFINE n == Place(e, known)
           p == Extended(known, [c \in e.cards |-> Laid])
           u == e.unplaced \cup (e.cards \ DOMAIN known)
<1>1. e.cards \subseteq Cards /\ e.unplaced \subseteq Cards
  BY DEF Canvases
<1>2. [c \in e.cards |-> Laid] \in Arrangements
  BY <1>1 DEF Arrangements, Places
<1>3. /\ p \in Arrangements /\ DOMAIN p = DOMAIN known \cup e.cards
      /\ \A c \in DOMAIN known : p[c] = known[c]
      /\ \A c \in e.cards \ DOMAIN known : p[c] = Laid
  BY <1>2, ExtendedFacts
<1>4. n = [e EXCEPT !.positions = p, !.unplaced = u]
  BY DEF Place
<1>5. u \in SUBSET Cards
  BY <1>1
<1> HIDE DEF p, u
<1>6. n \in Canvases
  BY <1>3, <1>4, <1>5 DEF Canvases
<1>7. SameButPlaces(e, n) /\ n.positions = p /\ n.unplaced = u
  BY <1>4 DEF SameButPlaces, Canvases
<1> QED BY <1>3, <1>6, <1>7 DEF u

Asking == [given : Givens, aborted : BOOLEAN]

LEMMA AbortFacts ==
  ASSUME NEW R \in SUBSET Asking
  PROVE  Abort(R) \in SUBSET Asking /\ \A r \in Abort(R) : r.aborted = TRUE
<1> SUFFICES ASSUME NEW r \in Abort(R) PROVE r \in Asking /\ r.aborted = TRUE
  OBVIOUS
<1>1. PICK q \in R : r = [q EXCEPT !.aborted = TRUE]
  BY DEF Abort
<1> QED BY <1>1 DEF Asking

LEMMA OwnFacts ==
  ASSUME NEW v \in Views, NEW d \in 1..MaxData
  PROVE  Core(v, d) \subseteq OwnCards(v) /\ Addon(v) \subseteq OwnCards(v) /\ OwnCards(v) \subseteq Cards
<1>1. Core(v, d) \in {Core(v, x) : x \in 1..MaxData}
  OBVIOUS
<1> QED BY <1>1, OwnAreCards DEF OwnCards

\* What a canvas that was opened is given, and the view it shows.
LEMMA OpenFacts ==
  ASSUME NEW e, NEW stored, TabKeeps(e, stored), e.open = TRUE
  PROVE  /\ e.given \in Givens /\ e.given.view \in Views /\ e.given.data \in 1..MaxData /\ e.given.registry \in Nat
         /\ e.given = [view |-> e.given.view, data |-> e.given.data, registry |-> e.given.registry]
         /\ e.requests \in SUBSET Asking /\ e.view \in {NoCanvas} \cup Views
         /\ e.due = FALSE => e.view = e.given.view
<1>1. e.given \in Givens /\ e.requests \in SUBSET Asking /\ e.view \in {NoCanvas} \cup Views
  BY DEF TabKeeps, CanvasKeeps, Canvases, Asking
<1> QED BY <1>1 DEF Givens, TabKeeps, CanvasKeeps

LEMMA DueIsOpen ==
  ASSUME NEW e, NEW stored, TabKeeps(e, stored), e.open = FALSE
  PROVE  e = Away
BY DEF TabKeeps, CanvasKeeps

\* Stored cards of a view, and what reading them gives.
LEMMA StoredOwnFacts ==
  ASSUME NEW stored, PrefsTyped(stored), NEW v \in Views
  PROVE  /\ stored[v].positions \in Arrangements /\ stored[v].filter \in BOOLEAN
         /\ DOMAIN stored[v].positions \subseteq OwnCards(v)
BY DEF PrefsTyped

\* Reading what is stored.
LEMMA ReadFacts ==
  ASSUME NEW stored, PrefsTyped(stored), NEW e \in Canvases, e.given.view \in Views
  PROVE  LET n == ReadPreferences(e, stored)
             known == stored[e.given.view].positions IN
         /\ n \in Canvases
         /\ n.open = e.open /\ n.given = e.given /\ n.due = e.due /\ n.view = e.view /\ n.cards = e.cards
         /\ n.gesture = e.gesture /\ n.motion = e.motion /\ n.requests = e.requests
         /\ n.answer = e.answer /\ n.fits = e.fits /\ n.onArrival = e.onArrival /\ n.chosen = e.chosen
         /\ n.error = e.error /\ n.notices = e.notices
         /\ DOMAIN n.positions = DOMAIN known \cup e.cards
         /\ \A c \in DOMAIN known : n.positions[c] = known[c]
         /\ \A c \in e.cards \ DOMAIN known : n.positions[c] = Laid
         /\ n.unplaced = e.cards \ DOMAIN known
<1> DEFINE known == stored[e.given.view].positions
           d == [e EXCEPT !.unplaced = {}, !.filter = stored[e.given.view].filter]
           n == Place(d, known)
<1>1. known \in Arrangements /\ stored[e.given.view].filter \in BOOLEAN
  BY StoredOwnFacts
<1>2. d \in Canvases
  BY <1>1 DEF Canvases
<1>3. /\ d.unplaced = {} /\ d.open = e.open /\ d.given = e.given /\ d.due = e.due /\ d.view = e.view
      /\ d.cards = e.cards /\ d.gesture = e.gesture /\ d.motion = e.motion /\ d.requests = e.requests
      /\ d.answer = e.answer /\ d.fits = e.fits /\ d.onArrival = e.onArrival /\ d.chosen = e.chosen
      /\ d.error = e.error /\ d.notices = e.notices
  BY DEF Canvases
<1> HIDE DEF d, known
<1>4. /\ n \in Canvases /\ SameButPlaces(d, n)
      /\ DOMAIN n.positions = DOMAIN known \cup d.cards
      /\ \A c \in DOMAIN known : n.positions[c] = known[c]
      /\ \A c \in d.cards \ DOMAIN known : n.positions[c] = Laid
      /\ n.unplaced = d.unplaced \cup (d.cards \ DOMAIN known)
  BY <1>1, <1>2, PlaceFacts
<1> HIDE DEF n
<1>5. /\ n \in Canvases
      /\ n.open = e.open /\ n.given = e.given /\ n.due = e.due /\ n.view = e.view /\ n.cards = e.cards
      /\ n.gesture = e.gesture /\ n.motion = e.motion /\ n.requests = e.requests
      /\ n.answer = e.answer /\ n.fits = e.fits /\ n.onArrival = e.onArrival /\ n.chosen = e.chosen
      /\ n.error = e.error /\ n.notices = e.notices
      /\ DOMAIN n.positions = DOMAIN known \cup e.cards
      /\ \A c \in DOMAIN known : n.positions[c] = known[c]
      /\ \A c \in e.cards \ DOMAIN known : n.positions[c] = Laid
      /\ n.unplaced = e.cards \ DOMAIN known
  BY <1>3, <1>4 DEF SameButPlaces
<1>6. ReadPreferences(e, stored) = n
  BY <1>3 DEF ReadPreferences, n, d, known
<1> QED BY <1>5, <1>6 DEF known

\* A canvas whose places are what is stored, and for the rest the canvas's own.
LEMMA ReadAgrees ==
  ASSUME NEW n, NEW stored, PrefsTyped(stored), n.view \in Views,
         DOMAIN n.positions = DOMAIN stored[n.view].positions \cup n.cards,
         \A c \in DOMAIN stored[n.view].positions : n.positions[c] = stored[n.view].positions[c],
         \A c \in n.cards \ DOMAIN stored[n.view].positions : n.positions[c] = Laid
  PROVE  Agrees(n, stored)
<1>1. Laid \notin Points
  BY PlacesApart
<1> QED BY <1>1 DEF Agrees, AgreesWith

\* Update: the core cards of the view that is given, placed as they were or as stored.
LEMMA ShownKeeps ==
  ASSUME NEW e, NEW stored, PrefsTyped(stored), TabKeeps(e, stored),
         e.motion = NoCanvas, e.gesture = NoCanvas, e.open = TRUE
  PROVE  LET n == Shown(e, stored) IN
         /\ TabKeeps(n, stored) /\ n.motion = NoCanvas /\ n.notices = e.notices /\ n.open = TRUE
         /\ n.view = e.view => StaysArranged(e, n)
<1> DEFINE v == e.given.view
           asked == IF Addon(v) = {} THEN {} ELSE {[given |-> e.given, aborted |-> FALSE]}
           R == Abort(e.requests) \cup asked
           C == Core(v, e.given.data)
           d == [e EXCEPT !.due = FALSE, !.view = v, !.cards = C, !.answer = NoCanvas, !.requests = R]
           o == [d EXCEPT !.error = FALSE, !.fits = TRUE, !.onArrival = TRUE, !.chosen = FALSE]
           n == Shown(e, stored)
<1>1. /\ e \in Canvases /\ e.positions \in Arrangements
      /\ DOMAIN e.positions \subseteq Cards /\ e.cards \subseteq DOMAIN e.positions
      /\ e.unplaced \subseteq DOMAIN e.positions
  BY TabFields
<1>2. /\ e.given \in Givens /\ v \in Views /\ e.given.data \in 1..MaxData
      /\ e.requests \in SUBSET Asking
  BY OpenFacts
<1>3. C \subseteq OwnCards(v) /\ OwnCards(v) \subseteq Cards
  BY <1>2, OwnFacts
<1>4. R \in SUBSET Asking /\ \A r \in R : r.aborted = FALSE => r.given = e.given
  <2>1. asked \in SUBSET Asking /\ \A r \in asked : r.given = e.given
    BY <1>2 DEF Asking
  <2>2. Abort(e.requests) \in SUBSET Asking /\ \A r \in Abort(e.requests) : r.aborted = TRUE
    BY <1>2, AbortFacts
  <2> HIDE DEF asked
  <2> QED BY <2>1, <2>2
<1>5. \A r \in R : r.aborted = FALSE => r.given = e.given
  BY <1>4
<1>6. v # NoCanvas
  BY <1>2, CanvasAssumption DEF CanvasAssumption
<1> HIDE DEF R, C
<1>7. d \in Canvases
  BY <1>1, <1>2, <1>3, <1>4 DEF Canvases, Asking
<1>8. /\ d.open = TRUE /\ d.given = e.given /\ d.due = FALSE /\ d.view = v /\ d.cards = C /\ d.positions = e.positions
      /\ d.unplaced = e.unplaced /\ d.gesture = NoCanvas /\ d.motion = NoCanvas /\ d.requests = R
      /\ d.answer = NoCanvas /\ d.fits = e.fits /\ d.onArrival = e.onArrival /\ d.chosen = e.chosen
      /\ d.error = e.error /\ d.notices = e.notices
  BY <1>1 DEF Canvases
<1>9. n = IF e.view = v THEN Place(d, e.positions) ELSE ReadPreferences(o, stored)
  BY DEF Shown, R, C
<1>10. CASE e.view = v
  <2>0. n = Place(d, e.positions)
    BY <1>9, <1>10
  <2> HIDE DEF d, n
  <2>1. /\ n \in Canvases /\ SameButPlaces(d, n)
        /\ DOMAIN n.positions = DOMAIN e.positions \cup C
        /\ \A c \in DOMAIN e.positions : n.positions[c] = e.positions[c]
        /\ \A c \in C \ DOMAIN e.positions : n.positions[c] = Laid
        /\ n.unplaced = e.unplaced \cup (C \ DOMAIN e.positions)
    BY <1>1, <1>7, <1>8, <2>0, PlaceFacts
  <2>2. /\ n.open = TRUE /\ n.given = e.given /\ n.due = FALSE /\ n.view = v /\ n.cards = C
        /\ n.gesture = NoCanvas /\ n.motion = NoCanvas /\ n.requests = R
        /\ n.answer = NoCanvas /\ n.fits = e.fits /\ n.onArrival = e.onArrival /\ n.chosen = e.chosen
        /\ n.error = e.error /\ n.notices = e.notices
    BY <1>8, <2>1 DEF SameButPlaces
  <2>3. CanvasKeeps(n)
    <3>1. n.given # NoCanvas /\ n.view = n.given.view
      BY <1>6, <2>2 DEF TabKeeps, CanvasKeeps
    <3>2. n.cards \subseteq OwnCards(n.view) /\ DOMAIN n.positions \subseteq OwnCards(n.view)
      BY <1>3, <1>6, <1>10, <2>1, <2>2 DEF TabKeeps, CanvasKeeps
    <3>3. n.cards \subseteq DOMAIN n.positions
      BY <2>1, <2>2
    <3>4. \A r \in n.requests : r.aborted = FALSE => r.given.registry = n.given.registry /\ r.given.view = n.view
      BY <1>5, <2>2
    <3>5. n.chosen = TRUE => n.fits = FALSE /\ n.onArrival = FALSE
      BY <2>2 DEF TabKeeps, CanvasKeeps
    <3> QED BY <1>6, <2>1, <2>2, <3>1, <3>2, <3>3, <3>4, <3>5 DEF CanvasKeeps
  <2>4. Holds(n)
    BY <2>2 DEF Holds
  <2>5. Laying(n)
    BY <1>1, <2>1 DEF TabKeeps, Laying
  <2>6. Agrees(n, stored)
    <3>1. SUFFICES ASSUME e.error = FALSE, v \notin e.notices
                   PROVE  AgreesWith(n.positions, stored[v].positions)
      BY <2>2 DEF Agrees
    <3>2. AgreesWith(e.positions, stored[v].positions)
      BY <1>6, <1>10, <3>1 DEF TabKeeps, Agrees
    <3> QED BY <1>1, <2>1, <3>2, PlacesApart DEF AgreesWith
  <2>7. StaysArranged(e, n)
    BY <2>1, PlacesApart DEF StaysArranged
  <2>8. TabKeeps(n, stored)
    BY <2>3, <2>4, <2>5, <2>6 DEF TabKeeps
  <2> QED BY <2>2, <2>7, <2>8 DEF n
<1>11. CASE e.view # v
  <2>1. o \in Canvases
    BY <1>7 DEF Canvases
  <2>2. /\ o.open = TRUE /\ o.given = e.given /\ o.due = FALSE /\ o.view = v /\ o.cards = C
        /\ o.gesture = NoCanvas /\ o.motion = NoCanvas /\ o.requests = R
        /\ o.answer = NoCanvas /\ o.chosen = FALSE /\ o.notices = e.notices
    BY <1>7, <1>8 DEF Canvases
  <2> HIDE DEF o
  <2>3. n = ReadPreferences(o, stored)
    BY <1>9, <1>11
  <2>4. /\ n \in Canvases
        /\ n.open = o.open /\ n.given = o.given /\ n.due = o.due /\ n.view = o.view /\ n.cards = o.cards
        /\ n.gesture = o.gesture /\ n.motion = o.motion /\ n.requests = o.requests
        /\ n.answer = o.answer /\ n.fits = o.fits /\ n.onArrival = o.onArrival /\ n.chosen = o.chosen
        /\ n.error = o.error /\ n.notices = o.notices
        /\ DOMAIN n.positions = DOMAIN stored[o.given.view].positions \cup o.cards
        /\ \A c \in DOMAIN stored[o.given.view].positions : n.positions[c] = stored[o.given.view].positions[c]
        /\ \A c \in o.cards \ DOMAIN stored[o.given.view].positions : n.positions[c] = Laid
        /\ n.unplaced = o.cards \ DOMAIN stored[o.given.view].positions
    BY <1>2, <2>1, <2>2, <2>3, ReadFacts
  <2> HIDE DEF n
  <2>5. /\ n.open = TRUE /\ n.given = e.given /\ n.due = FALSE /\ n.view = v /\ n.cards = C
        /\ n.gesture = NoCanvas /\ n.motion = NoCanvas /\ n.requests = R
        /\ n.answer = NoCanvas /\ n.chosen = FALSE /\ n.notices = e.notices
    BY <2>2, <2>4
  <2>6. CanvasKeeps(n)
    <3>1. n.given # NoCanvas /\ n.view = n.given.view
      BY <1>6, <2>5 DEF TabKeeps, CanvasKeeps
    <3>2. n.cards \subseteq OwnCards(n.view) /\ DOMAIN n.positions \subseteq OwnCards(n.view)
      BY <1>2, <1>3, <2>2, <2>4, <2>5, StoredOwnFacts
    <3>3. n.cards \subseteq DOMAIN n.positions
      BY <2>4
    <3>4. \A r \in n.requests : r.aborted = FALSE => r.given.registry = n.given.registry /\ r.given.view = n.view
      BY <1>5, <2>5
    <3> QED BY <1>6, <2>4, <2>5, <3>1, <3>2, <3>3, <3>4 DEF CanvasKeeps
  <2>7. Holds(n)
    BY <2>5 DEF Holds
  <2>8. Laying(n)
    BY <2>4 DEF Laying
  <2>9. Agrees(n, stored)
    BY <1>2, <2>2, <2>4, <2>5, ReadAgrees
  <2>10. TabKeeps(n, stored)
    BY <2>6, <2>7, <2>8, <2>9 DEF TabKeeps
  <2> QED BY <1>11, <2>5, <2>10 DEF n
<1> QED BY <1>10, <1>11

\* Answer: the add-ons' cards join, where the reader left them or where they suggest.
LEMMA ArrivedKeeps ==
  ASSUME NEW e, NEW stored, TabKeeps(e, stored), e.motion = NoCanvas, e.gesture = NoCanvas,
         NEW r \in e.requests, Wanted(e, r)
  PROVE  LET n == Arrived([e EXCEPT !.requests = @ \ {r}], r) IN
         /\ TabKeeps(n, stored) /\ n.motion = NoCanvas /\ n.notices = e.notices /\ n.open = TRUE
         /\ StaysArranged(e, n) /\ n.view = e.view
<1> DEFINE q == [e EXCEPT !.requests = @ \ {r}]
           d == [q EXCEPT !.cards = @ \cup Addon(q.view), !.answer = r.given]
           sug == [c \in Addon(d.view) |-> Suggested]
           known == Overlaid(d)
           f == Place(d, known)
           n == Arrived(q, r)
<1>1. /\ e \in Canvases /\ e.positions \in Arrangements
      /\ DOMAIN e.positions \subseteq Cards /\ e.cards \subseteq DOMAIN e.positions
      /\ e.unplaced \subseteq DOMAIN e.positions
  BY TabFields
<1>2. e.open = TRUE /\ r.aborted = FALSE /\ r.given.registry = e.given.registry /\ r.given.view = e.view
  BY <1>1 DEF Wanted, TabKeeps, CanvasKeeps, Canvases
<1>3. e.given \in Givens /\ e.given.view \in Views /\ e.given.data \in 1..MaxData /\ e.requests \in SUBSET Asking
  BY <1>2, OpenFacts
<1>4. r.given \in Givens
  BY <1>3 DEF Asking
<1>5. r.given = e.given
  BY <1>2, <1>3, <1>4 DEF Wanted, Givens
<1>6. e.view = e.given.view /\ e.view \in Views /\ e.view # NoCanvas
  BY <1>2, <1>3, <1>5, CanvasAssumption DEF CanvasAssumption
<1>7. Addon(e.view) \subseteq OwnCards(e.view) /\ OwnCards(e.view) \subseteq Cards
  BY <1>3, <1>6, OwnFacts
<1>8. q \in Canvases
  BY <1>1, <1>3 DEF Canvases, Asking
<1>9. /\ q.open = e.open /\ q.given = e.given /\ q.due = e.due /\ q.view = e.view /\ q.cards = e.cards
      /\ q.positions = e.positions /\ q.unplaced = e.unplaced /\ q.gesture = e.gesture /\ q.motion = e.motion
      /\ q.requests = e.requests \ {r} /\ q.fits = e.fits /\ q.onArrival = e.onArrival
      /\ q.chosen = e.chosen /\ q.error = e.error /\ q.notices = e.notices
  BY <1>1 DEF Canvases
<1> HIDE DEF q
<1>10. d \in Canvases
  <2>1. q.cards \cup Addon(q.view) \in SUBSET Cards
    BY <1>1, <1>7, <1>9
  <2> QED BY <1>4, <1>8, <2>1 DEF Canvases
<1>11. /\ d.open = TRUE /\ d.given = e.given /\ d.due = e.due /\ d.view = e.view
       /\ d.cards = e.cards \cup Addon(e.view)
       /\ d.positions = e.positions /\ d.unplaced = e.unplaced /\ d.gesture = NoCanvas /\ d.motion = NoCanvas
       /\ d.requests = e.requests \ {r} /\ d.answer = e.given /\ d.fits = e.fits /\ d.onArrival = e.onArrival
       /\ d.chosen = e.chosen /\ d.error = e.error /\ d.notices = e.notices
  BY <1>2, <1>5, <1>8, <1>9 DEF Canvases
<1> HIDE DEF d
<1>12. /\ known \in Arrangements /\ DOMAIN known = DOMAIN e.positions \cup Addon(e.view)
       /\ \A c \in DOMAIN e.positions : known[c] = e.positions[c]
       /\ \A c \in Addon(e.view) \ DOMAIN e.positions : known[c] = Suggested
  <2>1. /\ sug \in Arrangements /\ DOMAIN sug = Addon(e.view) /\ \A c \in Addon(e.view) : sug[c] = Suggested
    BY <1>7, <1>11 DEF Arrangements, Places
  <2>2. known = Extended(e.positions, sug)
    BY <1>11 DEF Overlaid
  <2> HIDE DEF sug, known
  <2> QED BY <1>1, <2>1, <2>2, ExtendedFacts
<1> HIDE DEF known
<1>13. /\ f \in Canvases /\ SameButPlaces(d, f)
       /\ DOMAIN f.positions = DOMAIN known \cup d.cards
       /\ \A c \in DOMAIN known : f.positions[c] = known[c]
       /\ f.unplaced = d.unplaced \cup (d.cards \ DOMAIN known)
  BY <1>10, <1>12, PlaceFacts
<1>14. DOMAIN f.positions = DOMAIN known /\ f.unplaced = e.unplaced
  BY <1>1, <1>11, <1>12, <1>13
<1>15. n = [f EXCEPT !.fits = @ \/ q.onArrival, !.onArrival = FALSE]
  BY DEF Arrived, f, d, known
<1> HIDE DEF f
<1>16. f.fits = e.fits /\ q.onArrival = e.onArrival /\ e.fits \in BOOLEAN /\ e.onArrival \in BOOLEAN
  BY <1>1, <1>9, <1>11, <1>13 DEF Canvases, SameButPlaces
<1> DEFINE b == f.fits \/ q.onArrival
<1>17. b \in BOOLEAN /\ (e.chosen = TRUE => b = FALSE)
  BY <1>16 DEF TabKeeps, CanvasKeeps
<1>18. n = [f EXCEPT !.fits = b, !.onArrival = FALSE]
  BY <1>15
<1> HIDE DEF b, n
<1>19. n \in Canvases
  BY <1>13, <1>17, <1>18 DEF Canvases
<1>20. /\ n.open = f.open /\ n.given = f.given /\ n.due = f.due /\ n.view = f.view /\ n.cards = f.cards
       /\ n.positions = f.positions /\ n.unplaced = f.unplaced
       /\ n.gesture = f.gesture /\ n.motion = f.motion /\ n.requests = f.requests
       /\ n.answer = f.answer /\ n.fits = b /\ n.onArrival = FALSE /\ n.chosen = f.chosen
       /\ n.error = f.error /\ n.notices = f.notices
  BY <1>13, <1>18 DEF Canvases
<1>21. /\ n.open = TRUE /\ n.given = e.given /\ n.due = e.due /\ n.view = e.view
       /\ n.cards = e.cards \cup Addon(e.view) /\ n.unplaced = e.unplaced
       /\ DOMAIN n.positions = DOMAIN e.positions \cup Addon(e.view)
       /\ n.gesture = NoCanvas /\ n.motion = NoCanvas
       /\ n.requests = e.requests \ {r} /\ n.answer = e.given
       /\ n.chosen = e.chosen /\ n.error = e.error /\ n.notices = e.notices
  BY <1>11, <1>12, <1>13, <1>14, <1>20 DEF SameButPlaces
<1>22. /\ \A c \in DOMAIN e.positions : n.positions[c] = e.positions[c]
       /\ \A c \in Addon(e.view) \ DOMAIN e.positions : n.positions[c] = Suggested
  BY <1>12, <1>13, <1>20
<1>23. CanvasKeeps(n)
  <2>1. n.given # NoCanvas /\ n.view = n.given.view
    BY <1>2, <1>6, <1>21 DEF TabKeeps, CanvasKeeps
  <2>2. n.cards \subseteq OwnCards(n.view) /\ DOMAIN n.positions \subseteq OwnCards(n.view)
    BY <1>6, <1>7, <1>21 DEF TabKeeps, CanvasKeeps
  <2>3. n.cards \subseteq DOMAIN n.positions
    BY <1>1, <1>21
  <2>4. \A x \in n.requests : x.aborted = FALSE => x.given.registry = n.given.registry /\ x.given.view = n.view
    BY <1>21 DEF TabKeeps, CanvasKeeps
  <2> QED BY <1>6, <1>17, <1>19, <1>20, <1>21, <2>1, <2>2, <2>3, <2>4 DEF CanvasKeeps
<1>24. Holds(n)
  BY <1>21 DEF Holds
<1>25. Laying(n)
  BY <1>1, <1>21, <1>22 DEF TabKeeps, Laying
<1>26. Agrees(n, stored)
  <2>1. SUFFICES ASSUME e.error = FALSE, e.view \notin e.notices
                 PROVE  AgreesWith(n.positions, stored[e.view].positions)
    BY <1>21 DEF Agrees
  <2>2. AgreesWith(e.positions, stored[e.view].positions)
    BY <1>2, <1>6, <2>1 DEF TabKeeps, Agrees
  <2> QED BY <1>21, <1>22, <2>2, PlacesApart DEF AgreesWith
<1>27. StaysArranged(e, n)
  BY <1>21, <1>22, PlacesApart DEF StaysArranged
<1>28. TabKeeps(n, stored)
  BY <1>23, <1>24, <1>25, <1>26 DEF TabKeeps
<1> QED BY <1>21, <1>27, <1>28 DEF n, q

\* A change of what is beside the arrangement.
LEMMA TweakKeeps ==
  ASSUME NEW e, NEW stored, TabKeeps(e, stored), e.open = TRUE, NEW n \in Canvases,
         n.open = e.open, n.given = e.given, n.due = e.due, n.view = e.view, n.cards = e.cards,
         n.positions = e.positions, n.motion = e.motion, n.answer = e.answer, n.error = e.error,
         n.unplaced = e.unplaced \/ n.unplaced = {}, n.requests \subseteq e.requests,
         \/ n.gesture = e.gesture \/ n.gesture = NoCanvas
         \/ e.motion = NoCanvas /\ n.gesture.card \in e.cards \cup {Pan},
         n.chosen = TRUE => n.fits = FALSE /\ n.onArrival = FALSE,
         e.view \in e.notices => e.view \in n.notices
  PROVE  TabKeeps(n, stored) /\ StaysArranged(e, n)
<1>1. CanvasKeeps(n)
  BY DEF TabKeeps, CanvasKeeps
<1>2. Holds(n)
  BY DEF TabKeeps, Holds
<1>3. Laying(n)
  BY DEF TabKeeps, Laying
<1>4. Agrees(n, stored)
  BY DEF TabKeeps, Agrees
<1>5. StaysArranged(e, n)
  BY PlacesApart DEF StaysArranged
<1> QED BY <1>1, <1>2, <1>3, <1>4, <1>5 DEF TabKeeps

\* Something else is to be shown: due from now on.
LEMMA GivenKeeps ==
  ASSUME NEW e, NEW stored, TabKeeps(e, stored), e.open = TRUE, NEW n \in Canvases,
         n.open = e.open, n.given \in Givens, n.due = TRUE, n.view = e.view, n.cards = e.cards,
         n.positions = e.positions, n.motion = e.motion, n.answer = e.answer, n.error = e.error,
         n.unplaced = e.unplaced, n.gesture = e.gesture, n.fits = e.fits,
         n.onArrival = e.onArrival, n.chosen = e.chosen, n.notices = e.notices,
         \/ n.requests = e.requests /\ n.given.registry = e.given.registry
         \/ \A r \in n.requests : r.aborted = TRUE
  PROVE  TabKeeps(n, stored) /\ StaysArranged(e, n)
<1>0. n.given # NoCanvas
  BY DEF Givens, NoCanvas
<1>1. CanvasKeeps(n)
  BY <1>0 DEF TabKeeps, CanvasKeeps
<1>2. Holds(n)
  BY DEF TabKeeps, Holds
<1>3. Laying(n)
  BY DEF TabKeeps, Laying
<1>4. Agrees(n, stored)
  BY DEF TabKeeps, Agrees
<1>5. StaysArranged(e, n)
  BY PlacesApart DEF StaysArranged
<1> QED BY <1>1, <1>2, <1>3, <1>4, <1>5 DEF TabKeeps

\* A held card is put back where it was.
LEMMA CancelKeeps ==
  ASSUME NEW e, NEW stored, TabKeeps(e, stored), e.open = TRUE, NEW d \in Canvases, SameOtherwise(e, d),
         d.motion = NoCanvas, d.gesture = NoCanvas, d.positions = e.positions, d.error = e.error
  PROVE  TabKeeps(d, stored) /\ StaysArranged(e, d)
<1>1. Agrees(d, stored)
  BY DEF TabKeeps, Agrees, SameOtherwise
<1>2. \A c \in e.unplaced : d.positions[c] = Laid
  BY DEF TabKeeps, Laying
<1>3. TabKeeps(d, stored)
  BY <1>1, <1>2, EndedKeeps
<1>4. StaysArranged(e, d)
  BY PlacesApart DEF StaysArranged
<1> QED BY <1>3, <1>4

\* A canvas that is opened.
LEMMA EnteredKeeps ==
  ASSUME NEW stored, NEW v \in Views, NEW d \in 1..MaxData
  PROVE  LET n == [Away EXCEPT !.open = TRUE, !.due = TRUE,
                     !.given = [view |-> v, data |-> d, registry |-> 0]]
         IN  TabKeeps(n, stored) /\ StaysArranged(Away, n)
<1> DEFINE n == [Away EXCEPT !.open = TRUE, !.due = TRUE,
                   !.given = [view |-> v, data |-> d, registry |-> 0]]
<1>1. Away \in Canvases
  BY NoCardsFacts DEF Away, Canvases
<1>2. /\ Away.open = FALSE /\ Away.view = NoCanvas /\ Away.cards = {} /\ Away.positions = NoCards
      /\ Away.requests = {} /\ Away.answer = NoCanvas /\ Away.chosen = FALSE /\ Away.unplaced = {}
      /\ Away.gesture = NoCanvas /\ Away.motion = NoCanvas
  BY DEF Away
<1>3. [view |-> v, data |-> d, registry |-> 0] \in Givens
  BY DEF Givens
<1>4. n \in Canvases
  BY <1>1, <1>3 DEF Canvases
<1>5. /\ n.open = TRUE /\ n.due = TRUE /\ n.given \in Givens /\ n.view = NoCanvas /\ n.cards = {}
      /\ n.positions = NoCards /\ n.requests = {} /\ n.answer = NoCanvas /\ n.chosen = FALSE
      /\ n.unplaced = {} /\ n.gesture = NoCanvas /\ n.motion = NoCanvas
  BY <1>1, <1>2, <1>3 DEF Canvases
<1> HIDE DEF n
<1>6. n.given # NoCanvas
  BY <1>5 DEF Givens, NoCanvas
<1>7. CanvasKeeps(n)
  BY <1>4, <1>5, <1>6, NoCardsFacts DEF CanvasKeeps
<1>8. Holds(n) /\ Laying(n) /\ Agrees(n, stored)
  BY <1>5, NoCardsFacts DEF Holds, Laying, Agrees
<1>9. StaysArranged(Away, n)
  BY <1>2, NoCardsFacts DEF StaysArranged
<1>10. TabKeeps(n, stored)
  BY <1>7, <1>8 DEF TabKeeps
<1> QED BY <1>9, <1>10 DEF n

\* Another tab's arrangement replaces this one.
LEMMA HeardKeeps ==
  ASSUME NEW e, NEW stored, PrefsTyped(stored), TabKeeps(e, stored), e.open = TRUE, e.due = FALSE,
         NEW x \in Canvases,
         x.open = e.open, x.given = e.given, x.due = e.due, x.view = e.view, x.cards = e.cards,
         x.requests = e.requests, x.answer = e.answer, x.fits = e.fits,
         x.onArrival = e.onArrival, x.chosen = e.chosen, x.notices = e.notices \ {e.given.view}
  PROVE  LET n == ReadPreferences(CancelMotion(CancelGesture(x)), stored)
         IN  TabKeeps(n, stored) /\ n.open = TRUE /\ n.notices = e.notices \ {e.given.view}
<1> DEFINE y == CancelGesture(x)
           d == CancelMotion(y)
           n == ReadPreferences(d, stored)
           v == e.given.view
<1>1. e \in Canvases /\ e.positions \in Arrangements /\ e.cards \subseteq DOMAIN e.positions
  BY TabFields
<1>2. e.given \in Givens /\ v \in Views /\ e.view = v /\ v # NoCanvas
  <2>1. e.given \in Givens /\ v \in Views /\ e.view = v
    BY OpenFacts
  <2> QED BY <2>1, CanvasAssumption DEF CanvasAssumption
<1>3. x \in Canvases
  OBVIOUS
<1>4. /\ x.open = TRUE /\ x.given = e.given /\ x.due = FALSE /\ x.view = v /\ x.cards = e.cards
      /\ x.requests = e.requests /\ x.answer = e.answer /\ x.fits = e.fits
      /\ x.onArrival = e.onArrival /\ x.chosen = e.chosen /\ x.notices = e.notices \ {v}
  BY <1>2
<1>5. /\ d \in Canvases /\ d.motion = NoCanvas /\ d.gesture = NoCanvas
      /\ d.open = TRUE /\ d.given = e.given /\ d.due = FALSE /\ d.view = v /\ d.cards = e.cards
      /\ d.requests = e.requests /\ d.answer = e.answer /\ d.fits = e.fits
      /\ d.onArrival = e.onArrival /\ d.chosen = e.chosen /\ d.notices = e.notices \ {v}
  <2>1. /\ y \in Canvases /\ y.gesture = NoCanvas
        /\ y.open = x.open /\ y.given = x.given /\ y.due = x.due /\ y.view = x.view /\ y.cards = x.cards
        /\ y.requests = x.requests /\ y.answer = x.answer /\ y.fits = x.fits
        /\ y.onArrival = x.onArrival /\ y.chosen = x.chosen /\ y.notices = x.notices
    <3>1. y = x \/ y = [x EXCEPT !.gesture = NoCanvas] \/ y = CancelMotion([x EXCEPT !.gesture = NoCanvas])
      BY DEF CancelGesture
    <3>2. x.gesture = NoCanvas \/ y # x \/ y.gesture = NoCanvas
      BY <1>3 DEF CancelGesture, CancelMotion, Canvases
    <3>3. CASE x.gesture = NoCanvas
      BY <1>3, <3>3 DEF CancelGesture
    <3>4. CASE y = [x EXCEPT !.gesture = NoCanvas]
      <4>1. [x EXCEPT !.gesture = NoCanvas] \in Canvases
        BY <1>3 DEF Canvases
      <4> QED BY <1>3, <3>4, <4>1 DEF Canvases
    <3>5. CASE y = CancelMotion([x EXCEPT !.gesture = NoCanvas])
      <4>1. y = [x EXCEPT !.gesture = NoCanvas, !.motion = NoCanvas]
        BY <1>3, <3>5 DEF CancelMotion, Canvases
      <4>2. [x EXCEPT !.gesture = NoCanvas, !.motion = NoCanvas] \in Canvases
        BY <1>3 DEF Canvases
      <4> QED BY <1>3, <4>1, <4>2 DEF Canvases
    <3>6. x.gesture = NoCanvas \/ y = [x EXCEPT !.gesture = NoCanvas]
          \/ y = CancelMotion([x EXCEPT !.gesture = NoCanvas])
      BY DEF CancelGesture
    <3> QED BY <3>3, <3>4, <3>5, <3>6
  <2> HIDE DEF y
  <2>2. d \in Canvases /\ SameOtherwise(y, d) /\ d.gesture = y.gesture /\ d.motion = NoCanvas
    BY <2>1, CancelMotionFacts
  <2> HIDE DEF d
  <2> QED BY <1>4, <2>1, <2>2 DEF SameOtherwise
<1> HIDE DEF d
<1>6. /\ n \in Canvases
      /\ n.open = d.open /\ n.given = d.given /\ n.due = d.due /\ n.view = d.view /\ n.cards = d.cards
      /\ n.gesture = d.gesture /\ n.motion = d.motion /\ n.requests = d.requests
      /\ n.answer = d.answer /\ n.fits = d.fits /\ n.onArrival = d.onArrival /\ n.chosen = d.chosen
      /\ n.error = d.error /\ n.notices = d.notices
      /\ DOMAIN n.positions = DOMAIN stored[d.given.view].positions \cup d.cards
      /\ \A c \in DOMAIN stored[d.given.view].positions : n.positions[c] = stored[d.given.view].positions[c]
      /\ \A c \in d.cards \ DOMAIN stored[d.given.view].positions : n.positions[c] = Laid
      /\ n.unplaced = d.cards \ DOMAIN stored[d.given.view].positions
  BY <1>2, <1>5, ReadFacts
<1> HIDE DEF n
<1>7. /\ n.open = TRUE /\ n.given = e.given /\ n.due = FALSE /\ n.view = v /\ n.cards = e.cards
      /\ n.motion = NoCanvas /\ n.gesture = NoCanvas /\ n.requests = e.requests /\ n.answer = e.answer
      /\ n.fits = e.fits /\ n.onArrival = e.onArrival /\ n.chosen = e.chosen /\ n.notices = e.notices \ {v}
  BY <1>5, <1>6
<1>8. CanvasKeeps(n)
  <2>1. n.cards \subseteq OwnCards(v) /\ DOMAIN n.positions \subseteq OwnCards(v) /\ n.cards \subseteq DOMAIN n.positions
    <3>1. e.cards \subseteq OwnCards(v)
      BY <1>2 DEF TabKeeps, CanvasKeeps
    <3>2. DOMAIN stored[v].positions \subseteq OwnCards(v)
      BY <1>2, StoredOwnFacts
    <3> QED BY <1>5, <1>6, <3>1, <3>2
  <2>2. n.given # NoCanvas
    BY <1>7 DEF TabKeeps, CanvasKeeps
  <2>3. \A r \in n.requests : r.aborted = FALSE => r.given.registry = n.given.registry /\ r.given.view = n.view
    BY <1>2, <1>7 DEF TabKeeps, CanvasKeeps
  <2>4. n.answer # NoCanvas => n.answer = n.given
    BY <1>7 DEF TabKeeps, CanvasKeeps
  <2>5. n.chosen = TRUE => n.fits = FALSE /\ n.onArrival = FALSE
    BY <1>7 DEF TabKeeps, CanvasKeeps
  <2> QED BY <1>2, <1>6, <1>7, <2>1, <2>2, <2>3, <2>4, <2>5 DEF CanvasKeeps
<1>9. Holds(n)
  BY <1>7 DEF Holds
<1>10. Laying(n)
  BY <1>6 DEF Laying
<1>11. Agrees(n, stored)
  BY <1>2, <1>5, <1>6, <1>7, ReadAgrees
<1>12. TabKeeps(n, stored)
  BY <1>8, <1>9, <1>10, <1>11 DEF TabKeeps
<1> QED BY <1>7, <1>12 DEF n, d

\* A card follows the pointer, in a draft.
LEMMA MovedKeeps ==
  ASSUME NEW e, NEW stored, TabKeeps(e, stored), e.open = TRUE, NEW p \in Points,
         e.gesture # NoCanvas, e.gesture.card # Pan
  PROVE  LET c == e.gesture.card
             d == IF e.motion = NoCanvas THEN StartMotion(e, c) ELSE e
             n == [d EXCEPT !.motion.positions[c] = p]
         IN  TabKeeps(n, stored) /\ StaysArranged(e, n) /\ n.motion # NoCanvas
<1> DEFINE c == e.gesture.card
           d == IF e.motion = NoCanvas THEN StartMotion(e, c) ELSE e
           n == [d EXCEPT !.motion.positions[c] = p]
           M == [view : Views, held : Cards, positions : Arrangements, others : SUBSET Cards]
<1>1. e \in Canvases /\ e.positions \in Arrangements /\ DOMAIN e.positions \subseteq Cards
      /\ e.cards \subseteq DOMAIN e.positions
  BY TabFields
<1>2. c \in e.cards /\ c \in DOMAIN e.positions /\ c \in Cards
  BY <1>1 DEF TabKeeps, Holds
<1>3. e.view \in Views
  BY <1>1, <1>2 DEF TabKeeps, CanvasKeeps, Canvases
<1> HIDE DEF c
<1>4. /\ d \in Canvases /\ d.motion \in M /\ d.motion # NoCanvas /\ d.motion.held = c
      /\ d.motion.view = e.view /\ d.unplaced = {} /\ c \notin d.motion.others
      /\ DOMAIN d.motion.positions = DOMAIN e.positions
      /\ \A x \in DOMAIN e.positions \ {c} : d.motion.positions[x] = e.positions[x]
      /\ d.open = e.open /\ d.given = e.given /\ d.due = e.due /\ d.view = e.view /\ d.cards = e.cards
      /\ d.positions = e.positions /\ d.gesture = e.gesture /\ d.requests = e.requests
      /\ d.answer = e.answer /\ d.fits = e.fits /\ d.onArrival = e.onArrival /\ d.chosen = e.chosen
      /\ d.error = e.error /\ d.notices = e.notices
  <2>1. CASE e.motion = NoCanvas
    <3> DEFINE m == Draft(e, c)
    <3>1. m = [view |-> e.view, held |-> c, positions |-> e.positions, others |-> m.others]
          /\ m.others \in SUBSET Cards /\ c \notin m.others
      BY <1>1 DEF Draft
    <3> HIDE DEF m
    <3>2. m \in M /\ m.held = c /\ m.view = e.view /\ m.positions = e.positions
      BY <1>1, <1>2, <1>3, <3>1
    <3>3. m # NoCanvas
      BY <3>2 DEF NoCanvas
    <3>4. d = [e EXCEPT !.motion = m, !.unplaced = {}]
      BY <2>1 DEF StartMotion, m
    <3> HIDE DEF d
    <3>5. d \in Canvases
      BY <1>1, <3>2, <3>4 DEF Canvases
    <3>6. /\ d.motion = m /\ d.unplaced = {}
          /\ d.open = e.open /\ d.given = e.given /\ d.due = e.due /\ d.view = e.view /\ d.cards = e.cards
          /\ d.positions = e.positions /\ d.gesture = e.gesture /\ d.requests = e.requests
          /\ d.answer = e.answer /\ d.fits = e.fits /\ d.onArrival = e.onArrival /\ d.chosen = e.chosen
          /\ d.error = e.error /\ d.notices = e.notices
      BY <1>1, <3>4 DEF Canvases
    <3> QED BY <3>1, <3>2, <3>3, <3>5, <3>6
  <2>2. CASE e.motion # NoCanvas
    <3>1. d = e
      BY <2>2
    <3>2. e.motion \in M
      BY <1>1, <2>2 DEF Canvases
    <3>3. /\ e.motion.held = c /\ e.motion.view = e.view /\ e.unplaced = {} /\ c \notin e.motion.others
          /\ DOMAIN e.motion.positions = DOMAIN e.positions
          /\ \A x \in DOMAIN e.positions \ {c} : e.motion.positions[x] = e.positions[x]
      BY <2>2 DEF TabKeeps, Holds, c
    <3> HIDE DEF d
    <3> QED BY <1>1, <2>2, <3>1, <3>2, <3>3
  <2> QED BY <2>1, <2>2
<1> HIDE DEF d
<1> DEFINE q == [d.motion.positions EXCEPT ![c] = p]
           m == [d.motion EXCEPT !.positions = q]
<1>5. q \in Arrangements /\ DOMAIN q = DOMAIN e.positions /\ q[c] = p
      /\ \A x \in DOMAIN e.positions \ {c} : q[x] = e.positions[x]
  <2>1. d.motion.positions \in Arrangements
    BY <1>4
  <2>2. d.motion.positions \in [DOMAIN e.positions -> Places]
    BY <1>4, <2>1, ArrangementFacts
  <2>3. p \in Places
    BY DEF Places
  <2>4. q \in [DOMAIN e.positions -> Places]
    BY <1>2, <2>2, <2>3
  <2> QED BY <1>1, <1>2, <1>4, <2>2, <2>4 DEF Arrangements
<1>6. n = [d EXCEPT !.motion = m]
  BY <1>4 DEF Canvases
<1> HIDE DEF q
<1>7. m \in M /\ m.positions = q /\ m.held = c /\ m.view = e.view /\ c \notin m.others
  BY <1>4, <1>5
<1>8. m # NoCanvas
  BY <1>7 DEF NoCanvas
<1> HIDE DEF m, n
<1>9. n \in Canvases
  BY <1>4, <1>6, <1>7 DEF Canvases
<1>10. /\ n.motion = m /\ n.unplaced = {}
       /\ n.open = e.open /\ n.given = e.given /\ n.due = e.due /\ n.view = e.view /\ n.cards = e.cards
       /\ n.positions = e.positions /\ n.gesture = e.gesture /\ n.requests = e.requests
       /\ n.answer = e.answer /\ n.fits = e.fits /\ n.onArrival = e.onArrival /\ n.chosen = e.chosen
       /\ n.error = e.error /\ n.notices = e.notices
  BY <1>4, <1>6 DEF Canvases
<1>11. CanvasKeeps(n)
  BY <1>9, <1>10 DEF TabKeeps, CanvasKeeps
<1>12. Holds(n)
  <2>1. n.gesture # NoCanvas => n.gesture.card = c /\ c \in n.cards
    BY <1>2, <1>10 DEF c
  <2> QED BY <1>2, <1>5, <1>7, <1>10, <2>1 DEF Holds
<1>13. Laying(n) /\ Agrees(n, stored)
  BY <1>10 DEF TabKeeps, Laying, Agrees
<1>14. StaysArranged(e, n)
  BY <1>10, PlacesApart DEF StaysArranged
<1>15. TabKeeps(n, stored) /\ n.motion # NoCanvas
  BY <1>8, <1>10, <1>11, <1>12, <1>13 DEF TabKeeps
<1> QED BY <1>14, <1>15 DEF n, d, c

-----------------------------------------------------------------------------
(* What is stored, and the other tabs.                                     *)

\* What a save makes of the storage.
Stores(v, positions, taken) ==
  /\ PrefsTyped(prefs')
  /\ prefs'[v].positions = IF taken > 0 THEN positions ELSE prefs[v].positions
  /\ \A w \in Views \ {v} : prefs'[w].positions = prefs[w].positions

LEMMA WrittenStores ==
  ASSUME PrefsTyped(prefs), NEW e \in Canvases, NEW v \in Views, NEW taken \in 0..2,
         DOMAIN e.positions \subseteq OwnCards(v), prefs' = Written(e, v, taken)
  PROVE  Stores(v, e.positions, taken)
<1> DEFINE new == [positions |-> IF taken > 0 THEN e.positions ELSE prefs[v].positions,
                   filter |-> IF taken > 1 THEN e.filter ELSE prefs[v].filter]
           Pref == [positions : Arrangements, filter : BOOLEAN]
<1>1. prefs \in [Views -> Pref] /\ \A w \in Views : DOMAIN prefs[w].positions \subseteq OwnCards(w)
  BY DEF PrefsTyped
<1>2. prefs[v] \in Pref /\ e.positions \in Arrangements /\ e.filter \in BOOLEAN
  BY <1>1 DEF Canvases
<1>3. new \in Pref
  BY <1>2
<1>4. prefs' = [prefs EXCEPT ![v] = new]
  BY DEF Written
<1>5. DOMAIN new.positions \subseteq OwnCards(v)
        /\ new.positions = IF taken > 0 THEN e.positions ELSE prefs[v].positions
  BY <1>1
<1> HIDE DEF new
<1>6. prefs' \in [Views -> Pref] /\ prefs'[v] = new /\ \A w \in Views \ {v} : prefs'[w] = prefs[w]
  BY <1>1, <1>3, <1>4
<1>7. \A w \in Views : DOMAIN prefs'[w].positions \subseteq OwnCards(w)
  BY <1>1, <1>5, <1>6
<1>8. PrefsTyped(prefs')
  BY <1>6, <1>7 DEF PrefsTyped
<1> QED BY <1>5, <1>6, <1>8 DEF Stores

\* What the other tabs do when view v is stored.
Told(t, v, taken) ==
  \A u \in Tabs \ {t} :
    tab'[u] = IF tab[u].open /\ taken > 0 THEN [tab[u] EXCEPT !.notices = @ \cup {v}] ELSE tab[u]

OthersKeep(t) ==
  \A u \in Tabs \ {t} :
    TabKeeps(tab'[u], prefs') /\ tab'[u].motion = tab[u].motion /\ tab'[u].positions = tab[u].positions

LEMMA OtherKeeps ==
  ASSUME NEW e, NEW stored, TabKeeps(e, stored), NEW v \in Views, NEW taken \in 0..2, NEW now,
         taken = 0 => now[v].positions = stored[v].positions,
         \A w \in Views \ {v} : now[w].positions = stored[w].positions,
         NEW n, n = IF e.open /\ taken > 0 THEN [e EXCEPT !.notices = @ \cup {v}] ELSE e
  PROVE  TabKeeps(n, now) /\ n.motion = e.motion /\ n.positions = e.positions
<1>1. e \in Canvases
  BY TabFields
<1>2. CASE e.open = TRUE /\ taken > 0
  <2>0. n = [e EXCEPT !.notices = @ \cup {v}]
    BY <1>2
  <2>1. n \in Canvases
    BY <1>1, <2>0 DEF Canvases
  <2>2. /\ n.open = e.open /\ n.given = e.given /\ n.due = e.due /\ n.view = e.view /\ n.cards = e.cards
        /\ n.positions = e.positions /\ n.unplaced = e.unplaced /\ n.gesture = e.gesture
        /\ n.motion = e.motion /\ n.requests = e.requests
        /\ n.answer = e.answer /\ n.fits = e.fits /\ n.onArrival = e.onArrival /\ n.chosen = e.chosen
        /\ n.error = e.error /\ n.notices = e.notices \cup {v}
    BY <1>1, <2>0 DEF Canvases
  <2>3. CanvasKeeps(n)
    BY <1>2, <2>1, <2>2 DEF TabKeeps, CanvasKeeps
  <2>4. Holds(n) /\ Laying(n)
    BY <2>2 DEF TabKeeps, Holds, Laying
  <2>5. Agrees(n, now)
    <3>1. SUFFICES ASSUME e.open = TRUE, e.view # NoCanvas, e.error = FALSE, e.view \notin e.notices \cup {v}
                   PROVE  AgreesWith(e.positions, now[e.view].positions)
      BY <2>2 DEF Agrees
    <3>2. e.view \in Views \ {v}
      BY <1>1, <3>1 DEF Canvases
    <3> QED BY <3>1, <3>2 DEF TabKeeps, Agrees
  <2> QED BY <2>2, <2>3, <2>4, <2>5 DEF TabKeeps
<1>3. CASE e.open = FALSE
  <2>1. n = e /\ e = Away
    BY <1>3, DueIsOpen
  <2> QED BY <2>1, AwayKeeps
<1>4. CASE e.open = TRUE /\ taken = 0
  <2>1. n = e
    BY <1>4
  <2>2. \A w \in Views : now[w].positions = stored[w].positions
    BY <1>4
  <2>3. Agrees(e, now)
    <3>1. e.view \in {NoCanvas} \cup Views
      BY <1>1 DEF Canvases
    <3> QED BY <2>2, <3>1 DEF TabKeeps, Agrees
  <2> QED BY <2>1, <2>3 DEF TabKeeps
<1>5. e.open \in BOOLEAN /\ (taken > 0 \/ taken = 0)
  BY <1>1 DEF Canvases
<1> QED BY <1>2, <1>3, <1>4, <1>5

LEMMA ToldKeep ==
  ASSUME CanvasInv, NEW t \in Tabs, NEW v \in Views, NEW taken \in 0..2, NEW positions,
         Stores(v, positions, taken), Told(t, v, taken)
  PROVE  OthersKeep(t)
<1> SUFFICES ASSUME NEW u \in Tabs \ {t}
             PROVE  TabKeeps(tab'[u], prefs') /\ tab'[u].motion = tab[u].motion /\ tab'[u].positions = tab[u].positions
  BY DEF OthersKeep
<1>1. TabKeeps(tab[u], prefs)
  BY DEF CanvasInv
<1>2. tab'[u] = IF tab[u].open /\ taken > 0 THEN [tab[u] EXCEPT !.notices = @ \cup {v}] ELSE tab[u]
  BY DEF Told
<1>3. /\ taken = 0 => prefs'[v].positions = prefs[v].positions
      /\ \A w \in Views \ {v} : prefs'[w].positions = prefs[w].positions
  BY DEF Stores
<1> QED BY <1>1, <1>2, <1>3, OtherKeeps

\* Where nothing is stored.
LEMMA UntoldKeep ==
  ASSUME CanvasInv, NEW t \in Tabs, prefs' = prefs, \A u \in Tabs \ {t} : tab'[u] = tab[u]
  PROVE  PrefsTyped(prefs') /\ OthersKeep(t)
<1>1. PrefsTyped(prefs')
  BY DEF CanvasInv
<1>2. \A u \in Tabs : TabKeeps(tab[u], prefs')
  BY DEF CanvasInv
<1> QED BY <1>1, <1>2 DEF OthersKeep

-----------------------------------------------------------------------------
(* How a step ends.                                                        *)

CanvasStepOK == CanvasInv' /\ ArrangedStays /\ DropIsKept

\* A drop that a step ends without storing it is counted, or told of.
DropDone(t, n) ==
  LET m == tab[t].motion IN
  Finishes(tab[t]) /\ n.motion = NoCanvas /\ lost' = lost
    /\ tab[t].notices \subseteq n.notices \cup {v \in Views : ~n.open}
  => prefs'[m.view].positions[m.held] = m.positions[m.held]

LEMMA Closes ==
  ASSUME CanvasInv, NEW t \in Tabs, NEW n, tab' = [u \in Tabs |-> tab'[u]], tab'[t] = Spread(n),
         TabKeeps(n, prefs'), PrefsTyped(prefs'), OthersKeep(t), lost' \in Nat,
         tab[t].view = n.view /\ n.notices = tab[t].notices => StaysArranged(tab[t], n),
         DropDone(t, n)
  PROVE  CanvasStepOK
<1>1. tab'[t] = n
  BY SpreadIs
<1>2. \A u \in Tabs : TabKeeps(tab'[u], prefs')
  BY <1>1 DEF OthersKeep
<1>3. CanvasInv'
  BY <1>2 DEF CanvasInv
<1>4. ArrangedStays
  <2> SUFFICES ASSUME NEW u \in Tabs, tab[u].view = tab'[u].view, tab'[u].notices = tab[u].notices,
                      NEW c \in DOMAIN tab[u].positions, tab[u].positions[c] \in Points
               PROVE  tab'[u].positions[c] \notin {Laid, Suggested}
    BY DEF ArrangedStays
  <2>1. tab[u].positions[c] \notin {Laid, Suggested}
    BY PlacesApart
  <2>2. CASE u = t
    BY <1>1, <2>1, <2>2 DEF StaysArranged
  <2>3. CASE u # t
    BY <2>1, <2>3 DEF OthersKeep
  <2> QED BY <2>2, <2>3
<1>5. DropIsKept
  <2> SUFFICES ASSUME NEW u \in Tabs, Finishes(tab[u]), tab'[u].motion = NoCanvas, lost' = lost,
                      tab[u].notices \subseteq tab'[u].notices \cup {v \in Views : ~tab'[u].open}
               PROVE  prefs'[tab[u].motion.view].positions[tab[u].motion.held]
                        = tab[u].motion.positions[tab[u].motion.held]
    BY DEF DropIsKept
  <2>1. u = t
    BY DEF OthersKeep, Finishes
  <2> QED BY <1>1, <2>1 DEF DropDone
<1> QED BY <1>3, <1>4, <1>5 DEF CanvasStepOK

LEMMA TabIs == ASSUME CanvasInv, NEW t \in Tabs
               PROVE  TabKeeps(tab[t], prefs) /\ tab[t] \in Canvases /\ PrefsTyped(prefs) /\ lost \in Nat
BY TabFields DEF CanvasInv

\* A step of one canvas that stores nothing.
LEMMA BecomesCloses ==
  ASSUME CanvasInv, NEW t \in Tabs, NEW n, Becomes(t, n), prefs' = prefs, lost' \in Nat,
         TabKeeps(n, prefs), tab[t].view = n.view /\ n.notices = tab[t].notices => StaysArranged(tab[t], n),
         DropDone(t, n)
  PROVE  CanvasStepOK
<1>1. tab = [u \in Tabs |-> tab[u]]
  BY DEF CanvasInv
<1>2. tab' = [u \in Tabs |-> tab'[u]] /\ tab'[t] = Spread(n) /\ \A u \in Tabs \ {t} : tab'[u] = tab[u]
  BY <1>1 DEF Becomes
<1>3. PrefsTyped(prefs') /\ OthersKeep(t)
  BY <1>2, UntoldKeep
<1>4. TabKeeps(n, prefs')
  OBVIOUS
<1> QED BY <1>2, <1>3, <1>4, Closes

LEMMA SavedBy ==
  ASSUME NEW t \in Tabs, NEW n, NEW v, NEW taken, BecomesSaved(t, n, v, taken)
  PROVE  tab' = [u \in Tabs |-> tab'[u]] /\ tab'[t] = Spread(n) /\ Told(t, v, taken)
BY DEF BecomesSaved, Told

\* A canvas that is stored.
LEMMA SaveCloses ==
  ASSUME CanvasInv, NEW t \in Tabs, NEW x \in Canvases, Save(t, x), lost' = lost,
         tab[t].open = TRUE, tab[t].due = FALSE,
         x.given = tab[t].given, x.view = tab[t].view,
         CanvasKeeps(x), Holds(x), Laying(x), StaysArranged(tab[t], x),
         Finishes(tab[t]) => x.motion # NoCanvas
  PROVE  CanvasStepOK
<1> DEFINE v == x.given.view
<1>1. PICK taken \in 0..2 :
        /\ prefs' = Written(x, v, taken)
        /\ BecomesSaved(t, [x EXCEPT !.error = taken < 2], v, taken)
  BY DEF Save
<1> DEFINE b == taken < 2
           n == [x EXCEPT !.error = b]
<1>2. TabKeeps(tab[t], prefs) /\ PrefsTyped(prefs) /\ lost \in Nat
  BY TabIs
<1>3. v \in Views /\ x.view = v /\ v # NoCanvas
  <2>1. tab[t].given.view \in Views /\ tab[t].view = tab[t].given.view
    BY <1>2, OpenFacts
  <2> QED BY <2>1, CanvasAssumption DEF CanvasAssumption
<1>4. DOMAIN x.positions \subseteq OwnCards(v)
  BY <1>3 DEF CanvasKeeps
<1>5. Stores(v, x.positions, taken)
  BY <1>1, <1>2, <1>3, <1>4, WrittenStores
<1>6. tab' = [u \in Tabs |-> tab'[u]] /\ tab'[t] = Spread(n) /\ Told(t, v, taken)
  BY <1>1, SavedBy
<1>7. OthersKeep(t)
  BY <1>3, <1>5, <1>6, ToldKeep
<1>8. b \in BOOLEAN /\ (b = FALSE => taken > 0)
  BY <1>1
<1> HIDE DEF b
<1>9. n \in Canvases
  BY <1>8 DEF Canvases
<1>10. /\ n.open = x.open /\ n.given = x.given /\ n.due = x.due /\ n.view = x.view /\ n.cards = x.cards
       /\ n.positions = x.positions /\ n.unplaced = x.unplaced /\ n.gesture = x.gesture
       /\ n.motion = x.motion /\ n.requests = x.requests
       /\ n.answer = x.answer /\ n.fits = x.fits /\ n.onArrival = x.onArrival /\ n.chosen = x.chosen
       /\ n.error = b /\ n.notices = x.notices
  BY <1>8 DEF Canvases
<1> HIDE DEF n, v
<1>11. CanvasKeeps(n)
  <2>1. x.open = TRUE
    <3>1. tab[t].given # NoCanvas /\ x.open \in BOOLEAN
      BY <1>2 DEF TabKeeps, CanvasKeeps, Canvases
    <3> QED BY <3>1 DEF CanvasKeeps, Away
  <2> QED BY <1>9, <1>10, <2>1 DEF CanvasKeeps
<1>12. Holds(n) /\ Laying(n)
  BY <1>10 DEF Holds, Laying
<1>13. Agrees(n, prefs')
  <2>1. SUFFICES ASSUME b = FALSE
                 PROVE  AgreesWith(x.positions, prefs'[v].positions)
    BY <1>3, <1>10 DEF Agrees
  <2>2. prefs'[v].positions = x.positions
    BY <1>5, <1>8, <2>1 DEF Stores
  <2> QED BY <2>2 DEF AgreesWith
<1>14. TabKeeps(n, prefs')
  BY <1>11, <1>12, <1>13 DEF TabKeeps
<1>15. StaysArranged(tab[t], n)
  BY <1>10 DEF StaysArranged
<1>16. DropDone(t, n)
  BY <1>10 DEF DropDone
<1>17. PrefsTyped(prefs') /\ lost' \in Nat
  BY <1>2, <1>5 DEF Stores
<1> QED BY <1>6, <1>7, <1>14, <1>15, <1>16, <1>17, Closes

\* The motion of a canvas has ended as d, and it becomes n.
Ended(t, d) ==
  /\ TabKeeps(d, prefs') /\ d.motion = NoCanvas /\ d.gesture = NoCanvas
  /\ SameOtherwise(tab[t], d) /\ StaysArranged(tab[t], d)
  /\ PrefsTyped(prefs') /\ OthersKeep(t) /\ lost' \in Nat
  /\ Finishes(tab[t]) /\ lost' = lost =>
       prefs'[tab[t].motion.view].positions[tab[t].motion.held]
         = tab[t].motion.positions[tab[t].motion.held]
EndsTo(t, d, n) == Ended(t, d) /\ tab' = [u \in Tabs |-> tab'[u]] /\ tab'[t] = Spread(n)

\* A drop comes to rest and is stored.
LEMMA EndsDrop ==
  ASSUME CanvasInv, NEW t \in Tabs, tab[t].open = TRUE, Finishes(tab[t]),
         NEW pushed \in SUBSET tab[t].motion.others, NEW taken \in 0..2, NEW n,
         prefs' = Written(FinishMotion(tab[t], pushed), MotionView(tab[t]), taken),
         BecomesSaved(t, n, MotionView(tab[t]), taken),
         lost' = lost + IF taken = 0 THEN 1 ELSE 0
  PROVE  EndsTo(t, [FinishMotion(tab[t], pushed) EXCEPT !.error = taken < 2], n)
<1> DEFINE e == tab[t]
           f == FinishMotion(e, pushed)
           b == taken < 2
           d == [f EXCEPT !.error = b]
           m == e.motion
           v == e.view
<1>1. TabKeeps(e, prefs) /\ e \in Canvases /\ PrefsTyped(prefs) /\ lost \in Nat
  BY TabIs
<1>2. b \in BOOLEAN /\ (b = FALSE => taken > 0)
  OBVIOUS
<1> HIDE DEF b
<1>3. /\ f \in Canvases /\ d \in Canvases /\ SameOtherwise(e, d) /\ d.error = b
      /\ d.motion = NoCanvas /\ d.gesture = NoCanvas
      /\ d.positions = f.positions
      /\ DOMAIN d.positions = DOMAIN e.positions
      /\ d.positions[m.held] = m.positions[m.held]
      /\ StaysArranged(e, d)
  BY <1>1, <1>2, FinishFacts
<1>4. m # NoCanvas /\ m.view = v /\ e.unplaced = {}
  BY <1>1 DEF Finishes, TabKeeps, Holds
<1>5. m.view \in Views
  BY <1>1, <1>4 DEF Canvases
<1>6. v \in Views /\ v # NoCanvas
  BY <1>4, <1>5, CanvasAssumption DEF CanvasAssumption
<1>7. DOMAIN f.positions \subseteq OwnCards(v)
  BY <1>1, <1>3, <1>6 DEF TabKeeps, CanvasKeeps
<1>8. MotionView(e) = v
  BY <1>4 DEF MotionView
<1> HIDE DEF f, d
<1>9. prefs' = Written(f, v, taken) /\ BecomesSaved(t, n, v, taken)
  BY <1>8 DEF f
<1>10. Stores(v, f.positions, taken)
  BY <1>1, <1>3, <1>6, <1>7, <1>9, WrittenStores
<1>11. tab' = [u \in Tabs |-> tab'[u]] /\ tab'[t] = Spread(n) /\ Told(t, v, taken)
  BY <1>9, SavedBy
<1>12. OthersKeep(t)
  BY <1>6, <1>10, <1>11, ToldKeep
<1>13. Agrees(d, prefs')
  <2>0. d.view = v
    BY <1>3 DEF SameOtherwise
  <2>1. SUFFICES ASSUME b = FALSE
                 PROVE  AgreesWith(d.positions, prefs'[v].positions)
    BY <1>3, <2>0 DEF Agrees
  <2>2. prefs'[v].positions = d.positions
    BY <1>2, <1>3, <1>10, <2>1 DEF Stores
  <2> QED BY <2>2 DEF AgreesWith
<1>14. TabKeeps(d, prefs')
  BY <1>1, <1>3, <1>4, <1>13, EndedKeeps
<1>15. lost' \in Nat
  BY <1>1
<1>16. lost' = lost => prefs'[m.view].positions[m.held] = m.positions[m.held]
  <2> SUFFICES ASSUME lost' = lost PROVE prefs'[m.view].positions[m.held] = m.positions[m.held]
    OBVIOUS
  <2>1. taken > 0
    BY <1>1
  <2>2. prefs'[v].positions = d.positions
    BY <1>3, <1>10, <2>1 DEF Stores
  <2> QED BY <1>3, <1>4, <2>2
<1>17. PrefsTyped(prefs')
  BY <1>10 DEF Stores
<1>18. Ended(t, d)
  BY <1>3, <1>12, <1>14, <1>15, <1>16, <1>17 DEF Ended
<1> QED BY <1>11, <1>18 DEF EndsTo, d, f, b

\* A held card is put back, or nothing was under way.
LEMMA EndsHeld ==
  ASSUME CanvasInv, NEW t \in Tabs, tab[t].open = TRUE, ~Finishes(tab[t]), NEW n,
         prefs' = prefs, Becomes(t, n), lost' = lost
  PROVE  EndsTo(t, InterruptMotion(tab[t], {}), n)
<1> DEFINE e == tab[t]
           d == InterruptMotion(e, {})
<1>1. TabKeeps(e, prefs) /\ e \in Canvases /\ PrefsTyped(prefs) /\ lost \in Nat
  BY TabIs
<1>2. d = IF e.gesture # NoCanvas THEN CancelGesture(e) ELSE e
  BY DEF InterruptMotion, FinishMotion, Finishes
<1>3. /\ d \in Canvases /\ SameOtherwise(e, d) /\ d.positions = e.positions /\ d.error = e.error
      /\ d.gesture = NoCanvas /\ d.motion = NoCanvas
  <2>1. CASE e.gesture # NoCanvas
    <3>1. d = CancelGesture(e)
      BY <1>2, <2>1
    <3> HIDE DEF d
    <3> QED BY <1>1, <2>1, <3>1, CancelGestureFacts
  <2>2. CASE e.gesture = NoCanvas
    BY <1>1, <1>2, <2>2 DEF Finishes, SameOtherwise
  <2> QED BY <2>1, <2>2
<1> HIDE DEF d
<1>4. TabKeeps(d, prefs) /\ StaysArranged(e, d)
  BY <1>1, <1>3, CancelKeeps
<1>5. tab = [u \in Tabs |-> tab[u]]
  BY DEF CanvasInv
<1>6. tab' = [u \in Tabs |-> tab'[u]] /\ tab'[t] = Spread(n) /\ \A u \in Tabs \ {t} : tab'[u] = tab[u]
  BY <1>5 DEF Becomes
<1>7. PrefsTyped(prefs') /\ OthersKeep(t)
  BY <1>6, UntoldKeep
<1>8. TabKeeps(d, prefs') /\ lost' \in Nat
  BY <1>1, <1>4
<1>9. Ended(t, d)
  BY <1>3, <1>4, <1>7, <1>8 DEF Ended
<1> QED BY <1>6, <1>9 DEF EndsTo, d

LEMMA EndsToCloses ==
  ASSUME CanvasInv, NEW t \in Tabs, NEW d, NEW n, EndsTo(t, d, n), TabKeeps(n, prefs'),
         n.view = d.view /\ n.notices = d.notices => StaysArranged(d, n)
  PROVE  CanvasStepOK
<1>1. tab[t].view = n.view /\ n.notices = tab[t].notices => StaysArranged(tab[t], n)
  <2> SUFFICES ASSUME tab[t].view = n.view, n.notices = tab[t].notices PROVE StaysArranged(tab[t], n)
    OBVIOUS
  <2>1. StaysArranged(tab[t], d) /\ StaysArranged(d, n)
    BY DEF EndsTo, Ended, SameOtherwise
  <2> QED BY <2>1 DEF StaysArranged
<1>2. DropDone(t, n)
  BY DEF DropDone, EndsTo, Ended
<1> QED BY <1>1, <1>2, Closes DEF EndsTo, Ended

-----------------------------------------------------------------------------
(* Steps that end a motion.                                                *)

LEMMA UpdateEnds ==
  ASSUME CanvasInv, NEW t \in Tabs, Update(t)
  PROVE  tab[t].open = TRUE /\ \E d : EndsTo(t, d, Shown(d, prefs'))
<1>1. tab[t].open = TRUE
  <2>1. TabKeeps(tab[t], prefs) /\ tab[t].open \in BOOLEAN
    BY TabIs DEF Canvases
  <2>2. tab[t].open = FALSE => tab[t] = Away
    BY <2>1, DueIsOpen
  <2> QED BY <2>1, <2>2 DEF Away, Update
<1>2. CASE Finishes(tab[t])
  <2>1. PICK pushed \in SUBSET tab[t].motion.others, taken \in 0..2 :
          /\ prefs' = Written(FinishMotion(tab[t], pushed), MotionView(tab[t]), taken)
          /\ BecomesSaved(t, Shown([FinishMotion(tab[t], pushed) EXCEPT !.error = taken < 2], prefs'),
                          MotionView(tab[t]), taken)
          /\ lost' = lost + IF taken = 0 THEN 1 ELSE 0
    BY <1>2 DEF Update, Interrupt
  <2> QED BY <1>1, <1>2, <2>1, EndsDrop
<1>3. CASE ~Finishes(tab[t])
  <2>1. prefs' = prefs /\ Becomes(t, Shown(InterruptMotion(tab[t], {}), prefs')) /\ lost' = lost
    BY <1>3 DEF Update, Interrupt
  <2> QED BY <1>1, <1>3, <2>1, EndsHeld
<1> QED BY <1>1, <1>2, <1>3

LEMMA ArrivedEnds ==
  ASSUME CanvasInv, NEW t \in Tabs, NEW r \in tab[t].requests,
         Interrupt(t, LAMBDA e : Arrived([e EXCEPT !.requests = @ \ {r}], r))
  PROVE  tab[t].open = TRUE /\ \E d : EndsTo(t, d, Arrived([d EXCEPT !.requests = @ \ {r}], r))
<1>1. tab[t].open = TRUE
  <2>1. TabKeeps(tab[t], prefs) /\ tab[t].open \in BOOLEAN
    BY TabIs DEF Canvases
  <2>2. tab[t].open = FALSE => tab[t] = Away
    BY <2>1, DueIsOpen
  <2> QED BY <2>1, <2>2 DEF Away
<1>2. CASE Finishes(tab[t])
  <2>1. PICK pushed \in SUBSET tab[t].motion.others, taken \in 0..2 :
          /\ prefs' = Written(FinishMotion(tab[t], pushed), MotionView(tab[t]), taken)
          /\ BecomesSaved(t, Arrived([[FinishMotion(tab[t], pushed) EXCEPT !.error = taken < 2] EXCEPT !.requests = @ \ {r}], r),
                          MotionView(tab[t]), taken)
          /\ lost' = lost + IF taken = 0 THEN 1 ELSE 0
    BY <1>2 DEF Interrupt
  <2> QED BY <1>1, <1>2, <2>1, EndsDrop
<1>3. CASE ~Finishes(tab[t])
  <2>1. prefs' = prefs /\ Becomes(t, Arrived([InterruptMotion(tab[t], {}) EXCEPT !.requests = @ \ {r}], r)) /\ lost' = lost
    BY <1>3 DEF Interrupt
  <2> QED BY <1>1, <1>3, <2>1, EndsHeld
<1> QED BY <1>1, <1>2, <1>3

LEMMA FailedEnds ==
  ASSUME CanvasInv, NEW t \in Tabs, NEW r \in tab[t].requests,
         Interrupt(t, LAMBDA e : [e EXCEPT !.requests = @ \ {r}])
  PROVE  tab[t].open = TRUE /\ \E d : EndsTo(t, d, [d EXCEPT !.requests = @ \ {r}])
<1>1. tab[t].open = TRUE
  <2>1. TabKeeps(tab[t], prefs) /\ tab[t].open \in BOOLEAN
    BY TabIs DEF Canvases
  <2>2. tab[t].open = FALSE => tab[t] = Away
    BY <2>1, DueIsOpen
  <2> QED BY <2>1, <2>2 DEF Away
<1>2. CASE Finishes(tab[t])
  <2>1. PICK pushed \in SUBSET tab[t].motion.others, taken \in 0..2 :
          /\ prefs' = Written(FinishMotion(tab[t], pushed), MotionView(tab[t]), taken)
          /\ BecomesSaved(t, [[FinishMotion(tab[t], pushed) EXCEPT !.error = taken < 2] EXCEPT !.requests = @ \ {r}],
                          MotionView(tab[t]), taken)
          /\ lost' = lost + IF taken = 0 THEN 1 ELSE 0
    BY <1>2 DEF Interrupt
  <2> QED BY <1>1, <1>2, <2>1, EndsDrop
<1>3. CASE ~Finishes(tab[t])
  <2>1. prefs' = prefs /\ Becomes(t, [InterruptMotion(tab[t], {}) EXCEPT !.requests = @ \ {r}]) /\ lost' = lost
    BY <1>3 DEF Interrupt
  <2> QED BY <1>1, <1>3, <2>1, EndsHeld
<1> QED BY <1>1, <1>2, <1>3

LEMMA ZoomEnds ==
  ASSUME CanvasInv, NEW t \in Tabs, Zoom(t)
  PROVE  tab[t].open = TRUE /\ \E d : EndsTo(t, d, Chose([d EXCEPT !.unplaced = {}]))
<1>1. tab[t].open = TRUE
  BY TabIs DEF Zoom, Shows, Canvases
<1>2. CASE Finishes(tab[t])
  <2>1. PICK pushed \in SUBSET tab[t].motion.others, taken \in 0..2 :
          /\ prefs' = Written(FinishMotion(tab[t], pushed), MotionView(tab[t]), taken)
          /\ BecomesSaved(t, Chose([[FinishMotion(tab[t], pushed) EXCEPT !.error = taken < 2] EXCEPT !.unplaced = {}]),
                          MotionView(tab[t]), taken)
          /\ lost' = lost + IF taken = 0 THEN 1 ELSE 0
    BY <1>2 DEF Zoom, Interrupt
  <2> QED BY <1>1, <1>2, <2>1, EndsDrop
<1>3. CASE ~Finishes(tab[t])
  <2>1. prefs' = prefs /\ Becomes(t, Chose([InterruptMotion(tab[t], {}) EXCEPT !.unplaced = {}])) /\ lost' = lost
    BY <1>3 DEF Zoom, Interrupt
  <2> QED BY <1>1, <1>3, <2>1, EndsHeld
<1> QED BY <1>1, <1>2, <1>3

LEMMA FitEnds ==
  ASSUME CanvasInv, NEW t \in Tabs, Fit(t)
  PROVE  tab[t].open = TRUE /\ \E d : EndsTo(t, d, [d EXCEPT !.fits = TRUE, !.chosen = FALSE])
<1>1. tab[t].open = TRUE
  BY TabIs DEF Fit, Event, Shows, Canvases
<1>2. CASE Finishes(tab[t])
  <2>1. PICK pushed \in SUBSET tab[t].motion.others, taken \in 0..2 :
          /\ prefs' = Written(FinishMotion(tab[t], pushed), MotionView(tab[t]), taken)
          /\ BecomesSaved(t, [[FinishMotion(tab[t], pushed) EXCEPT !.error = taken < 2] EXCEPT !.fits = TRUE, !.chosen = FALSE],
                          MotionView(tab[t]), taken)
          /\ lost' = lost + IF taken = 0 THEN 1 ELSE 0
    BY <1>2 DEF Fit, Interrupt
  <2> QED BY <1>1, <1>2, <2>1, EndsDrop
<1>3. CASE ~Finishes(tab[t])
  <2>1. prefs' = prefs /\ Becomes(t, [InterruptMotion(tab[t], {}) EXCEPT !.fits = TRUE, !.chosen = FALSE]) /\ lost' = lost
    BY <1>3 DEF Fit, Interrupt
  <2> QED BY <1>1, <1>3, <2>1, EndsHeld
<1> QED BY <1>1, <1>2, <1>3

LEMMA PointerDownEnds ==
  ASSUME CanvasInv, NEW t \in Tabs, NEW c, PointerDown(t, c)
  PROVE  tab[t].open = TRUE /\ \E d : EndsTo(t, d, Chose([d EXCEPT !.gesture = [card |-> c]]))
<1>1. tab[t].open = TRUE
  BY TabIs DEF PointerDown, Event, Shows, Canvases
<1>2. CASE Finishes(tab[t])
  <2>1. PICK pushed \in SUBSET tab[t].motion.others, taken \in 0..2 :
          /\ prefs' = Written(FinishMotion(tab[t], pushed), MotionView(tab[t]), taken)
          /\ BecomesSaved(t, Chose([[FinishMotion(tab[t], pushed) EXCEPT !.error = taken < 2] EXCEPT !.gesture = [card |-> c]]),
                          MotionView(tab[t]), taken)
          /\ lost' = lost + IF taken = 0 THEN 1 ELSE 0
    BY <1>2 DEF PointerDown, Interrupt
  <2> QED BY <1>1, <1>2, <2>1, EndsDrop
<1>3. CASE ~Finishes(tab[t])
  <2>1. prefs' = prefs /\ Becomes(t, Chose([InterruptMotion(tab[t], {}) EXCEPT !.gesture = [card |-> c]])) /\ lost' = lost
    BY <1>3 DEF PointerDown, Interrupt
  <2> QED BY <1>1, <1>3, <2>1, EndsHeld
<1> QED BY <1>1, <1>2, <1>3

LEMMA SettleEnds ==
  ASSUME CanvasInv, NEW t \in Tabs, Settle(t)
  PROVE  tab[t].open = TRUE /\ \E d : EndsTo(t, d, d)
<1>1. tab[t].open = TRUE
  <2>1. TabKeeps(tab[t], prefs) /\ tab[t].open \in BOOLEAN
    BY TabIs DEF Canvases
  <2>2. tab[t].open = FALSE => tab[t] = Away
    BY <2>1, DueIsOpen
  <2> QED BY <2>1, <2>2 DEF Away, Settle, Finishes
<1>2. CASE Finishes(tab[t])
  <2>1. PICK pushed \in SUBSET tab[t].motion.others, taken \in 0..2 :
          /\ prefs' = Written(FinishMotion(tab[t], pushed), MotionView(tab[t]), taken)
          /\ BecomesSaved(t, [FinishMotion(tab[t], pushed) EXCEPT !.error = taken < 2],
                          MotionView(tab[t]), taken)
          /\ lost' = lost + IF taken = 0 THEN 1 ELSE 0
    BY <1>2 DEF Settle, Interrupt
  <2> QED BY <1>1, <1>2, <2>1, EndsDrop
<1>3. CASE ~Finishes(tab[t])
  <2>1. prefs' = prefs /\ Becomes(t, InterruptMotion(tab[t], {})) /\ lost' = lost
    BY <1>3 DEF Settle, Interrupt
  <2> QED BY <1>1, <1>3, <2>1, EndsHeld
<1> QED BY <1>1, <1>2, <1>3

LEMMA LeaveEnds ==
  ASSUME CanvasInv, NEW t \in Tabs, Leave(t)
  PROVE  tab[t].open = TRUE /\ \E d : EndsTo(t, d, Away)
<1>1. tab[t].open = TRUE
  BY TabIs DEF Leave, Event, Shows, Canvases
<1>2. CASE Finishes(tab[t])
  <2>1. PICK pushed \in SUBSET tab[t].motion.others, taken \in 0..2 :
          /\ prefs' = Written(FinishMotion(tab[t], pushed), MotionView(tab[t]), taken)
          /\ BecomesSaved(t, Away,
                          MotionView(tab[t]), taken)
          /\ lost' = lost + IF taken = 0 THEN 1 ELSE 0
    BY <1>2 DEF Leave, Interrupt
  <2> QED BY <1>1, <1>2, <2>1, EndsDrop
<1>3. CASE ~Finishes(tab[t])
  <2>1. prefs' = prefs /\ Becomes(t, Away) /\ lost' = lost
    BY <1>3 DEF Leave, Interrupt
  <2> QED BY <1>1, <1>3, <2>1, EndsHeld
<1> QED BY <1>1, <1>2, <1>3

\* What Ends leaves of the canvas.
LEMMA EndedFacts ==
  ASSUME NEW t, NEW d, NEW n, EndsTo(t, d, n)
  PROVE  /\ TabKeeps(d, prefs') /\ d \in Canvases /\ PrefsTyped(prefs')
         /\ d.motion = NoCanvas /\ d.gesture = NoCanvas /\ SameOtherwise(tab[t], d)
BY TabFields DEF EndsTo, Ended

LEMMA UpdateOK == ASSUME CanvasInv, NEW t \in Tabs, Update(t) PROVE CanvasStepOK
<1>1. PICK d : EndsTo(t, d, Shown(d, prefs'))
  BY UpdateEnds
<1>2. TabKeeps(d, prefs') /\ PrefsTyped(prefs') /\ d.motion = NoCanvas /\ d.gesture = NoCanvas /\ d.open = TRUE
  BY <1>1, UpdateEnds, EndedFacts DEF SameOtherwise
<1> DEFINE n == Shown(d, prefs')
<1>3. TabKeeps(n, prefs') /\ (n.view = d.view => StaysArranged(d, n))
  BY <1>2, ShownKeeps
<1> QED BY <1>1, <1>3, EndsToCloses

LEMMA ArrivedOK ==
  ASSUME CanvasInv, NEW t \in Tabs, NEW r \in tab[t].requests, Wanted(tab[t], r),
         Interrupt(t, LAMBDA e : Arrived([e EXCEPT !.requests = @ \ {r}], r))
  PROVE  CanvasStepOK
<1>1. PICK d : EndsTo(t, d, Arrived([d EXCEPT !.requests = @ \ {r}], r))
  BY ArrivedEnds
<1>2. TabKeeps(d, prefs') /\ d.motion = NoCanvas /\ d.gesture = NoCanvas /\ SameOtherwise(tab[t], d)
  BY <1>1, EndedFacts
<1>3. r \in d.requests /\ Wanted(d, r)
  BY <1>2 DEF SameOtherwise, Wanted
<1> DEFINE n == Arrived([d EXCEPT !.requests = @ \ {r}], r)
<1>4. TabKeeps(n, prefs') /\ StaysArranged(d, n)
  BY <1>2, <1>3, ArrivedKeeps
<1> QED BY <1>1, <1>4, EndsToCloses

LEMMA FailedOK ==
  ASSUME CanvasInv, NEW t \in Tabs, NEW r \in tab[t].requests,
         Interrupt(t, LAMBDA e : [e EXCEPT !.requests = @ \ {r}])
  PROVE  CanvasStepOK
<1>1. PICK d : EndsTo(t, d, [d EXCEPT !.requests = @ \ {r}])
  BY FailedEnds
<1>2. TabKeeps(d, prefs') /\ d \in Canvases /\ d.motion = NoCanvas /\ d.gesture = NoCanvas /\ d.open = TRUE
  BY <1>1, FailedEnds, EndedFacts DEF SameOtherwise
<1> DEFINE n == [d EXCEPT !.requests = @ \ {r}]
<1>3. n \in Canvases
  BY <1>2 DEF Canvases
<1>4. /\ n.open = d.open /\ n.given = d.given /\ n.due = d.due /\ n.view = d.view /\ n.cards = d.cards
      /\ n.positions = d.positions /\ n.motion = d.motion /\ n.answer = d.answer /\ n.error = d.error
      /\ n.unplaced = d.unplaced /\ n.requests = d.requests \ {r} /\ n.gesture = d.gesture
      /\ n.chosen = d.chosen /\ n.fits = d.fits /\ n.onArrival = d.onArrival /\ n.notices = d.notices
  BY <1>2 DEF Canvases
<1>5. n.chosen = TRUE => n.fits = FALSE /\ n.onArrival = FALSE
  BY <1>2, <1>4 DEF TabKeeps, CanvasKeeps
<1> HIDE DEF n
<1>6. TabKeeps(n, prefs') /\ StaysArranged(d, n)
  BY <1>2, <1>3, <1>4, <1>5, TweakKeeps
<1> QED BY <1>1, <1>6, EndsToCloses DEF n

LEMMA ZoomOK == ASSUME CanvasInv, NEW t \in Tabs, Zoom(t) PROVE CanvasStepOK
<1>1. PICK d : EndsTo(t, d, Chose([d EXCEPT !.unplaced = {}]))
  BY ZoomEnds
<1>2. TabKeeps(d, prefs') /\ d \in Canvases /\ d.motion = NoCanvas /\ d.gesture = NoCanvas /\ d.open = TRUE
  BY <1>1, ZoomEnds, EndedFacts DEF SameOtherwise
<1> DEFINE n == Chose([d EXCEPT !.unplaced = {}])
<1>3. n = [d EXCEPT !.unplaced = {}, !.fits = FALSE, !.onArrival = FALSE, !.chosen = TRUE]
  BY <1>2 DEF Chose, Canvases
<1> HIDE DEF n
<1>4. n \in Canvases
  BY <1>2, <1>3 DEF Canvases
<1>5. /\ n.open = d.open /\ n.given = d.given /\ n.due = d.due /\ n.view = d.view /\ n.cards = d.cards
      /\ n.positions = d.positions /\ n.motion = d.motion /\ n.answer = d.answer /\ n.error = d.error
      /\ n.unplaced = {} /\ n.requests = d.requests /\ n.gesture = d.gesture
      /\ n.fits = FALSE /\ n.onArrival = FALSE /\ n.notices = d.notices
  BY <1>2, <1>3 DEF Canvases
<1>6. TabKeeps(n, prefs') /\ StaysArranged(d, n)
  BY <1>2, <1>4, <1>5, TweakKeeps
<1> QED BY <1>1, <1>6, EndsToCloses DEF n

LEMMA FitOK == ASSUME CanvasInv, NEW t \in Tabs, Fit(t) PROVE CanvasStepOK
<1>1. PICK d : EndsTo(t, d, [d EXCEPT !.fits = TRUE, !.chosen = FALSE])
  BY FitEnds
<1>2. TabKeeps(d, prefs') /\ d \in Canvases /\ d.motion = NoCanvas /\ d.gesture = NoCanvas /\ d.open = TRUE
  BY <1>1, FitEnds, EndedFacts DEF SameOtherwise
<1> DEFINE n == [d EXCEPT !.fits = TRUE, !.chosen = FALSE]
<1>3. n \in Canvases
  BY <1>2 DEF Canvases
<1>4. /\ n.open = d.open /\ n.given = d.given /\ n.due = d.due /\ n.view = d.view /\ n.cards = d.cards
      /\ n.positions = d.positions /\ n.motion = d.motion /\ n.answer = d.answer /\ n.error = d.error
      /\ n.unplaced = d.unplaced /\ n.requests = d.requests /\ n.gesture = d.gesture
      /\ n.chosen = FALSE /\ n.notices = d.notices
  BY <1>2 DEF Canvases
<1> HIDE DEF n
<1>5. TabKeeps(n, prefs') /\ StaysArranged(d, n)
  BY <1>2, <1>3, <1>4, TweakKeeps
<1> QED BY <1>1, <1>5, EndsToCloses DEF n

LEMMA PointerDownOK == ASSUME CanvasInv, NEW t \in Tabs, NEW c, PointerDown(t, c) PROVE CanvasStepOK
<1>1. PICK d : EndsTo(t, d, Chose([d EXCEPT !.gesture = [card |-> c]]))
  BY PointerDownEnds
<1>2. TabKeeps(d, prefs') /\ d \in Canvases /\ d.motion = NoCanvas /\ d.gesture = NoCanvas /\ d.open = TRUE
  BY <1>1, PointerDownEnds, EndedFacts DEF SameOtherwise
<1>3. c \in d.cards \cup {Pan} /\ d.cards \subseteq Cards
  <2>1. c \in tab[t].cards \cup {Pan}
    BY DEF PointerDown
  <2>2. d.cards = tab[t].cards
    BY <1>1, EndedFacts DEF SameOtherwise
  <2> QED BY <1>2, <2>1, <2>2 DEF Canvases
<1> DEFINE n == Chose([d EXCEPT !.gesture = [card |-> c]])
<1>4. n = [d EXCEPT !.gesture = [card |-> c], !.fits = FALSE, !.onArrival = FALSE, !.chosen = TRUE]
  BY <1>2 DEF Chose, Canvases
<1> HIDE DEF n
<1>5. n \in Canvases
  BY <1>2, <1>3, <1>4 DEF Canvases
<1>6. /\ n.open = d.open /\ n.given = d.given /\ n.due = d.due /\ n.view = d.view /\ n.cards = d.cards
      /\ n.positions = d.positions /\ n.motion = d.motion /\ n.answer = d.answer /\ n.error = d.error
      /\ n.unplaced = d.unplaced /\ n.requests = d.requests /\ n.gesture.card = c
      /\ n.fits = FALSE /\ n.onArrival = FALSE /\ n.notices = d.notices
  BY <1>2, <1>4 DEF Canvases
<1>7. TabKeeps(n, prefs') /\ StaysArranged(d, n)
  BY <1>2, <1>3, <1>5, <1>6, TweakKeeps
<1> QED BY <1>1, <1>7, EndsToCloses DEF n

LEMMA SettleOK == ASSUME CanvasInv, NEW t \in Tabs, Settle(t) PROVE CanvasStepOK
<1>1. PICK d : EndsTo(t, d, d)
  BY SettleEnds
<1>2. TabKeeps(d, prefs') /\ StaysArranged(d, d)
  BY <1>1, EndedFacts DEF StaysArranged
<1> QED BY <1>1, <1>2, EndsToCloses

LEMMA LeaveOK == ASSUME CanvasInv, NEW t \in Tabs, Leave(t) PROVE CanvasStepOK
<1>1. PICK d : EndsTo(t, d, Away)
  BY LeaveEnds
<1>2. TabKeeps(d, prefs') /\ SameOtherwise(tab[t], d)
  BY <1>1, EndedFacts
<1>3. tab[t].open = TRUE /\ tab[t].due = FALSE /\ TabKeeps(tab[t], prefs)
  BY LeaveEnds, TabIs DEF Leave, Event, Shows, Canvases
<1>4. tab[t].view \in Views
  BY <1>3, OpenFacts
<1>5. d.view # NoCanvas /\ Away.view = NoCanvas
  BY <1>2, <1>4, CanvasAssumption DEF SameOtherwise, CanvasAssumption, Away
<1>6. TabKeeps(Away, prefs')
  BY AwayKeeps
<1> QED BY <1>1, <1>5, <1>6, EndsToCloses

-----------------------------------------------------------------------------
(* The other steps.                                                        *)

\* A canvas whose page is open.
LEMMA ShowsFacts ==
  ASSUME CanvasInv, NEW t \in Tabs, Shows(t)
  PROVE  /\ tab[t].open = TRUE /\ tab[t].due = FALSE /\ TabKeeps(tab[t], prefs) /\ tab[t] \in Canvases
         /\ tab[t].given \in Givens /\ tab[t].view = tab[t].given.view /\ tab[t].view \in Views
<1>1. tab[t].open = TRUE /\ tab[t].due = FALSE /\ TabKeeps(tab[t], prefs) /\ tab[t] \in Canvases
  BY TabIs DEF Shows, Canvases
<1> QED BY <1>1, OpenFacts

LEMMA EnterOK ==
  ASSUME CanvasInv, NEW t \in Tabs, NEW v \in Views, NEW d \in 1..MaxData, Enter(t, v, d)
  PROVE  CanvasStepOK
<1> DEFINE n == [Away EXCEPT !.open = TRUE, !.due = TRUE,
                   !.given = [view |-> v, data |-> d, registry |-> 0]]
<1>1. tab[t] = Away
  <2>1. TabKeeps(tab[t], prefs) /\ tab[t].open = FALSE
    BY TabIs DEF Enter, Canvases
  <2> QED BY <2>1, DueIsOpen
<1>2. TabKeeps(n, prefs) /\ StaysArranged(Away, n)
  BY EnteredKeeps
<1>3. Becomes(t, n) /\ prefs' = prefs /\ lost' = lost
  BY DEF Enter
<1> HIDE DEF n
<1>4. DropDone(t, n)
  BY <1>1 DEF DropDone, Finishes, Away
<1>5. lost' \in Nat
  BY <1>3, TabIs
<1> QED BY <1>1, <1>2, <1>3, <1>4, <1>5, BecomesCloses

LEMMA GiveOK ==
  ASSUME CanvasInv, NEW t \in Tabs, NEW d \in 1..MaxData, Give(t, d)
  PROVE  CanvasStepOK
<1> DEFINE n == [tab[t] EXCEPT !.given.data = d, !.due = TRUE]
<1>1. /\ tab[t].open = TRUE /\ TabKeeps(tab[t], prefs) /\ tab[t] \in Canvases
      /\ tab[t].given \in Givens /\ tab[t].requests \in SUBSET Asking
  <2>1. Shows(t)
    BY DEF Give, Event
  <2>2. tab[t].open = TRUE /\ TabKeeps(tab[t], prefs) /\ tab[t] \in Canvases
    BY <2>1, ShowsFacts
  <2> QED BY <2>2, OpenFacts DEF Give, Event
<1>2. Becomes(t, n) /\ prefs' = prefs /\ lost' = lost
  BY DEF Give
<1>3. n \in Canvases
  BY <1>1 DEF Canvases, Givens, Asking
<1>4. /\ n.open = tab[t].open /\ n.due = TRUE /\ n.view = tab[t].view /\ n.cards = tab[t].cards
      /\ n.positions = tab[t].positions /\ n.unplaced = tab[t].unplaced /\ n.filter = tab[t].filter /\ n.gesture = tab[t].gesture
      /\ n.motion = tab[t].motion /\ n.requests = tab[t].requests /\ n.answer = tab[t].answer /\ n.fits = tab[t].fits
      /\ n.onArrival = tab[t].onArrival /\ n.chosen = tab[t].chosen /\ n.error = tab[t].error /\ n.notices = tab[t].notices
  BY <1>1 DEF Canvases, Givens
<1> HIDE DEF n
<1>5. n.given \in Givens /\ n.given.registry = tab[t].given.registry
  BY <1>1, <1>3 DEF Canvases, Givens, n
<1>6. TabKeeps(n, prefs) /\ StaysArranged(tab[t], n)
  BY <1>1, <1>3, <1>4, <1>5, GivenKeeps
<1>7. DropDone(t, n)
  BY <1>1, <1>4 DEF DropDone, Finishes
<1>8. lost' \in Nat
  BY <1>2, TabIs
<1> QED BY <1>2, <1>6, <1>7, <1>8, BecomesCloses

LEMMA ShowViewOK ==
  ASSUME CanvasInv, NEW t \in Tabs, NEW v \in Views, ShowView(t, v)
  PROVE  CanvasStepOK
<1> DEFINE n == [tab[t] EXCEPT !.given.view = v, !.due = TRUE]
<1>1. /\ tab[t].open = TRUE /\ TabKeeps(tab[t], prefs) /\ tab[t] \in Canvases
      /\ tab[t].given \in Givens /\ tab[t].requests \in SUBSET Asking
  <2>1. Shows(t)
    BY DEF ShowView, Event
  <2>2. tab[t].open = TRUE /\ TabKeeps(tab[t], prefs) /\ tab[t] \in Canvases
    BY <2>1, ShowsFacts
  <2> QED BY <2>2, OpenFacts DEF ShowView, Event
<1>2. Becomes(t, n) /\ prefs' = prefs /\ lost' = lost
  BY DEF ShowView
<1>3. n \in Canvases
  BY <1>1 DEF Canvases, Givens, Asking
<1>4. /\ n.open = tab[t].open /\ n.due = TRUE /\ n.view = tab[t].view /\ n.cards = tab[t].cards
      /\ n.positions = tab[t].positions /\ n.unplaced = tab[t].unplaced /\ n.filter = tab[t].filter /\ n.gesture = tab[t].gesture
      /\ n.motion = tab[t].motion /\ n.requests = tab[t].requests /\ n.answer = tab[t].answer /\ n.fits = tab[t].fits
      /\ n.onArrival = tab[t].onArrival /\ n.chosen = tab[t].chosen /\ n.error = tab[t].error /\ n.notices = tab[t].notices
  BY <1>1 DEF Canvases, Givens
<1> HIDE DEF n
<1>5. n.given \in Givens /\ n.given.registry = tab[t].given.registry
  BY <1>1, <1>3 DEF Canvases, Givens, n
<1>6. TabKeeps(n, prefs) /\ StaysArranged(tab[t], n)
  BY <1>1, <1>3, <1>4, <1>5, GivenKeeps
<1>7. DropDone(t, n)
  BY <1>1, <1>4 DEF DropDone, Finishes
<1>8. lost' \in Nat
  BY <1>2, TabIs
<1> QED BY <1>2, <1>6, <1>7, <1>8, BecomesCloses

LEMMA AddonsChangeOK ==
  ASSUME CanvasInv, NEW t \in Tabs, AddonsChange(t)
  PROVE  CanvasStepOK
<1> DEFINE n == [tab[t] EXCEPT !.given.registry = @ + 1, !.due = TRUE,
                           !.requests = Abort(@)]
<1>1. /\ tab[t].open = TRUE /\ TabKeeps(tab[t], prefs) /\ tab[t] \in Canvases
      /\ tab[t].given \in Givens /\ tab[t].requests \in SUBSET Asking
  <2>1. Shows(t)
    BY DEF AddonsChange, Event
  <2>2. tab[t].open = TRUE /\ TabKeeps(tab[t], prefs) /\ tab[t] \in Canvases
    BY <2>1, ShowsFacts
  <2> QED BY <2>2, OpenFacts DEF AddonsChange, Event
<1>2. Becomes(t, n) /\ prefs' = prefs /\ lost' = lost
  BY DEF AddonsChange
<1> DEFINE R == Abort(tab[t].requests)
           g == [tab[t].given EXCEPT !.registry = @ + 1]
<1>3. R \in SUBSET Asking /\ \A r \in R : r.aborted = TRUE
  BY <1>1, AbortFacts
<1>4. g \in Givens
  BY <1>1 DEF Givens
<1>5. n = [tab[t] EXCEPT !.given = g, !.due = TRUE, !.requests = R]
  BY <1>1 DEF Canvases
<1> HIDE DEF R, g, n
<1>6. n \in Canvases
  BY <1>1, <1>3, <1>4, <1>5 DEF Canvases, Asking
<1>7. /\ n.given = g /\ n.open = tab[t].open /\ n.due = TRUE /\ n.view = tab[t].view /\ n.cards = tab[t].cards
      /\ n.positions = tab[t].positions /\ n.unplaced = tab[t].unplaced /\ n.filter = tab[t].filter /\ n.gesture = tab[t].gesture
      /\ n.motion = tab[t].motion /\ n.requests = R /\ n.answer = tab[t].answer /\ n.fits = tab[t].fits
      /\ n.onArrival = tab[t].onArrival /\ n.chosen = tab[t].chosen /\ n.error = tab[t].error /\ n.notices = tab[t].notices
  BY <1>1, <1>5 DEF Canvases
<1>8. TabKeeps(n, prefs) /\ StaysArranged(tab[t], n)
  BY <1>1, <1>3, <1>4, <1>6, <1>7, GivenKeeps
<1>9. DropDone(t, n)
  BY <1>1, <1>7 DEF DropDone, Finishes
<1>10. lost' \in Nat
  BY <1>2, TabIs
<1> QED BY <1>2, <1>8, <1>9, <1>10, BecomesCloses DEF n, R

LEMMA UnwantedOK ==
  ASSUME CanvasInv, NEW t \in Tabs, NEW r \in tab[t].requests, Answer(t, r), ~Wanted(tab[t], r)
  PROVE  CanvasStepOK
<1> DEFINE n == [tab[t] EXCEPT !.requests = @ \ {r}]
<1>1. /\ tab[t].open = TRUE /\ TabKeeps(tab[t], prefs) /\ tab[t] \in Canvases
  <2>1. TabKeeps(tab[t], prefs) /\ tab[t] \in Canvases /\ tab[t].open \in BOOLEAN
    BY TabIs DEF Canvases
  <2>2. tab[t].open = FALSE => tab[t] = Away
    BY <2>1, DueIsOpen
  <2> QED BY <2>1, <2>2 DEF Away
<1>2. Becomes(t, n) /\ prefs' = prefs /\ lost' = lost
  BY DEF Answer
<1>3. n \in Canvases
  BY <1>1 DEF Canvases, Givens, Asking
<1>4. /\ n.open = tab[t].open /\ n.given = tab[t].given /\ n.due = tab[t].due /\ n.view = tab[t].view
      /\ n.cards = tab[t].cards /\ n.positions = tab[t].positions /\ n.unplaced = tab[t].unplaced /\ n.filter = tab[t].filter
      /\ n.gesture = tab[t].gesture /\ n.motion = tab[t].motion /\ n.requests = tab[t].requests \ {r} /\ n.answer = tab[t].answer
      /\ n.fits = tab[t].fits /\ n.onArrival = tab[t].onArrival /\ n.chosen = tab[t].chosen /\ n.error = tab[t].error
      /\ n.notices = tab[t].notices
  BY <1>1 DEF Canvases, Givens
<1> HIDE DEF n
<1>5. n.chosen = TRUE => n.fits = FALSE /\ n.onArrival = FALSE
  BY <1>1, <1>4 DEF TabKeeps, CanvasKeeps
<1>6. TabKeeps(n, prefs) /\ StaysArranged(tab[t], n)
  BY <1>1, <1>3, <1>4, <1>5, TweakKeeps
<1>7. DropDone(t, n)
  BY <1>1, <1>4 DEF DropDone, Finishes
<1>8. lost' \in Nat
  BY <1>2, TabIs
<1> QED BY <1>2, <1>6, <1>7, <1>8, BecomesCloses

LEMMA FittedOK ==
  ASSUME CanvasInv, NEW t \in Tabs, Fitted(t)
  PROVE  CanvasStepOK
<1> DEFINE n == [tab[t] EXCEPT !.fits = FALSE]
<1>1. /\ tab[t].open = TRUE /\ TabKeeps(tab[t], prefs) /\ tab[t] \in Canvases
  BY ShowsFacts DEF Fitted
<1>2. Becomes(t, n) /\ prefs' = prefs /\ lost' = lost
  BY DEF Fitted
<1>3. n \in Canvases
  BY <1>1 DEF Canvases, Givens, Asking
<1>4. /\ n.open = tab[t].open /\ n.given = tab[t].given /\ n.due = tab[t].due /\ n.view = tab[t].view
      /\ n.cards = tab[t].cards /\ n.positions = tab[t].positions /\ n.unplaced = tab[t].unplaced /\ n.filter = tab[t].filter
      /\ n.gesture = tab[t].gesture /\ n.motion = tab[t].motion /\ n.requests = tab[t].requests /\ n.answer = tab[t].answer
      /\ n.fits = FALSE /\ n.onArrival = tab[t].onArrival /\ n.chosen = tab[t].chosen /\ n.error = tab[t].error
      /\ n.notices = tab[t].notices
  BY <1>1 DEF Canvases, Givens
<1> HIDE DEF n
<1>5. n.chosen = TRUE => n.fits = FALSE /\ n.onArrival = FALSE
  BY <1>1, <1>4 DEF TabKeeps, CanvasKeeps
<1>6. TabKeeps(n, prefs) /\ StaysArranged(tab[t], n)
  BY <1>1, <1>3, <1>4, <1>5, TweakKeeps
<1>7. DropDone(t, n)
  BY <1>1, <1>4 DEF DropDone, Finishes
<1>8. lost' \in Nat
  BY <1>2, TabIs
<1> QED BY <1>2, <1>6, <1>7, <1>8, BecomesCloses

LEMMA PointerUpOK ==
  ASSUME CanvasInv, NEW t \in Tabs, PointerUp(t)
  PROVE  CanvasStepOK
<1> DEFINE n == [tab[t] EXCEPT !.gesture = NoCanvas]
<1>1. /\ tab[t].open = TRUE /\ TabKeeps(tab[t], prefs) /\ tab[t] \in Canvases
  BY ShowsFacts DEF PointerUp
<1>2. Becomes(t, n) /\ prefs' = prefs /\ lost' = lost
  BY DEF PointerUp
<1>3. n \in Canvases
  BY <1>1 DEF Canvases, Givens, Asking
<1>4. /\ n.open = tab[t].open /\ n.given = tab[t].given /\ n.due = tab[t].due /\ n.view = tab[t].view
      /\ n.cards = tab[t].cards /\ n.positions = tab[t].positions /\ n.unplaced = tab[t].unplaced /\ n.filter = tab[t].filter
      /\ n.gesture = NoCanvas /\ n.motion = tab[t].motion /\ n.requests = tab[t].requests /\ n.answer = tab[t].answer
      /\ n.fits = tab[t].fits /\ n.onArrival = tab[t].onArrival /\ n.chosen = tab[t].chosen /\ n.error = tab[t].error
      /\ n.notices = tab[t].notices
  BY <1>1 DEF Canvases, Givens
<1> HIDE DEF n
<1>5. n.chosen = TRUE => n.fits = FALSE /\ n.onArrival = FALSE
  BY <1>1, <1>4 DEF TabKeeps, CanvasKeeps
<1>6. TabKeeps(n, prefs) /\ StaysArranged(tab[t], n)
  BY <1>1, <1>3, <1>4, <1>5, TweakKeeps
<1>7. DropDone(t, n)
  BY DEF DropDone, Finishes, PointerUp
<1>8. lost' \in Nat
  BY <1>2, TabIs
<1> QED BY <1>2, <1>6, <1>7, <1>8, BecomesCloses

LEMMA PointerMoveOK ==
  ASSUME CanvasInv, NEW t \in Tabs, NEW p \in Points, PointerMove(t, p)
  PROVE  CanvasStepOK
<1> DEFINE c == tab[t].gesture.card
           d == IF tab[t].motion = NoCanvas THEN StartMotion(tab[t], c) ELSE tab[t]
           n == [d EXCEPT !.motion.positions[c] = p]
<1>1. tab[t].open = TRUE /\ TabKeeps(tab[t], prefs) /\ tab[t].gesture # NoCanvas /\ c # Pan
  BY ShowsFacts DEF PointerMove
<1>2. Becomes(t, n) /\ prefs' = prefs /\ lost' = lost
  BY DEF PointerMove
<1>3. TabKeeps(n, prefs) /\ StaysArranged(tab[t], n)
  BY <1>1, MovedKeeps
<1> HIDE DEF n
<1>4. DropDone(t, n)
  BY <1>1 DEF DropDone, Finishes
<1>5. lost' \in Nat
  BY <1>2, TabIs
<1> QED BY <1>2, <1>3, <1>4, <1>5, BecomesCloses

LEMMA LosePointerOK == ASSUME CanvasInv, NEW t \in Tabs, LosePointer(t) PROVE CanvasStepOK
<1> DEFINE n == CancelGesture(tab[t])
<1>1. tab[t].open = TRUE /\ TabKeeps(tab[t], prefs) /\ tab[t].gesture # NoCanvas
  BY ShowsFacts DEF LosePointer, Event
<1>2. Becomes(t, n) /\ prefs' = prefs /\ lost' = lost
  BY DEF LosePointer
<1>3. /\ n \in Canvases /\ SameOtherwise(tab[t], n) /\ n.positions = tab[t].positions
      /\ n.error = tab[t].error /\ n.gesture = NoCanvas /\ n.motion = NoCanvas
  BY <1>1, CancelGestureFacts
<1> HIDE DEF n
<1>4. TabKeeps(n, prefs) /\ StaysArranged(tab[t], n)
  BY <1>1, <1>3, CancelKeeps
<1>5. DropDone(t, n)
  BY <1>1 DEF DropDone, Finishes
<1>6. lost' \in Nat
  BY <1>2, TabIs
<1> QED BY <1>2, <1>4, <1>5, <1>6, BecomesCloses

LEMMA EscapeOK == ASSUME CanvasInv, NEW t \in Tabs, Escape(t) PROVE CanvasStepOK
<1> DEFINE y == CancelGesture(tab[t])
           n == CancelMotion(y)
<1>1. tab[t].open = TRUE /\ TabKeeps(tab[t], prefs)
  BY ShowsFacts DEF Escape, Event
<1>2. Becomes(t, n) /\ prefs' = prefs /\ lost' = lost + IF Finishes(tab[t]) THEN 1 ELSE 0
  BY DEF Escape
<1>3. /\ y \in Canvases /\ SameOtherwise(tab[t], y) /\ y.positions = tab[t].positions
      /\ y.error = tab[t].error /\ y.gesture = NoCanvas
  BY <1>1, CancelGestureFacts
<1> HIDE DEF y
<1>4. /\ n \in Canvases /\ SameOtherwise(y, n) /\ n.positions = y.positions /\ n.error = y.error
      /\ n.gesture = y.gesture /\ n.motion = NoCanvas
  BY <1>3, CancelMotionFacts
<1> HIDE DEF n
<1>5. SameOtherwise(tab[t], n)
  BY <1>3, <1>4 DEF SameOtherwise
<1>6. TabKeeps(n, prefs) /\ StaysArranged(tab[t], n)
  BY <1>1, <1>3, <1>4, <1>5, CancelKeeps
<1>7. lost \in Nat /\ lost' \in Nat
  BY <1>2, TabIs
<1>8. DropDone(t, n)
  BY <1>2, <1>7 DEF DropDone
<1> QED BY <1>2, <1>6, <1>7, <1>8, BecomesCloses

\* A card is put somewhere by an arrow key.
LEMMA MoveNodeOK ==
  ASSUME CanvasInv, NEW t \in Tabs, NEW c \in tab[t].cards, NEW p \in Points, MoveNode(t, c, p)
  PROVE  CanvasStepOK
<1> DEFINE y == CancelGesture(tab[t])
           q == [y.positions EXCEPT ![c] = p]
           e == Chose(y)
           x == [e EXCEPT !.unplaced = {}, !.positions[c] = p]
<1>1. /\ tab[t].open = TRUE /\ tab[t].due = FALSE /\ TabKeeps(tab[t], prefs) /\ tab[t] \in Canvases
      /\ tab[t].view \in Views /\ ~Finishes(tab[t])
  BY ShowsFacts DEF MoveNode, Event
<1>2. Save(t, x) /\ lost' = lost
  BY DEF MoveNode, Save
<1>3. /\ y \in Canvases /\ SameOtherwise(tab[t], y) /\ y.positions = tab[t].positions
      /\ y.gesture = NoCanvas /\ y.motion = NoCanvas
  BY <1>1, CancelGestureFacts DEF Finishes
<1>4. /\ c \in DOMAIN y.positions /\ y.positions \in [DOMAIN y.positions -> Places]
      /\ DOMAIN y.positions \in SUBSET Cards
  <2>1. /\ tab[t].positions \in Arrangements /\ DOMAIN tab[t].positions \subseteq Cards
        /\ \A k \in DOMAIN tab[t].positions : tab[t].positions[k] \in Places
        /\ tab[t].cards \subseteq DOMAIN tab[t].positions
    BY <1>1, TabFields
  <2>2. tab[t].positions = [k \in DOMAIN tab[t].positions |-> tab[t].positions[k]]
    BY <2>1, ArrangementFacts
  <2>3. tab[t].positions \in [DOMAIN tab[t].positions -> Places]
    BY <2>1, <2>2
  <2> QED BY <1>3, <2>1, <2>3
<1>5. /\ q \in Arrangements /\ DOMAIN q = DOMAIN y.positions /\ q[c] = p
      /\ \A k \in DOMAIN q \ {c} : q[k] = y.positions[k]
  <2>1. p \in Places
    BY DEF Places
  <2>2. q \in [DOMAIN y.positions -> Places]
    BY <1>4, <2>1
  <2> QED BY <1>4, <2>2 DEF Arrangements
<1>6. x = [y EXCEPT !.fits = FALSE, !.onArrival = FALSE, !.chosen = TRUE, !.unplaced = {}, !.positions = q]
  BY <1>3 DEF Chose, Canvases
<1> HIDE DEF y, q, x
<1>7. x \in Canvases
  BY <1>3, <1>5, <1>6 DEF Canvases
<1>8. /\ x.open = y.open /\ x.given = y.given /\ x.due = y.due /\ x.view = y.view /\ x.cards = y.cards
      /\ x.positions = q /\ x.unplaced = {} /\ x.gesture = y.gesture /\ x.motion = y.motion
      /\ x.requests = y.requests /\ x.answer = y.answer /\ x.fits = FALSE /\ x.onArrival = FALSE
  BY <1>3, <1>6 DEF Canvases
<1>9. /\ x.open = tab[t].open /\ x.given = tab[t].given /\ x.due = tab[t].due /\ x.view = tab[t].view
      /\ x.cards = tab[t].cards /\ x.requests = tab[t].requests /\ x.answer = tab[t].answer
      /\ DOMAIN x.positions = DOMAIN tab[t].positions
  BY <1>3, <1>5, <1>8 DEF SameOtherwise
<1>10. CanvasKeeps(x)
  BY <1>1, <1>7, <1>8, <1>9 DEF TabKeeps, CanvasKeeps
<1>11. Holds(x) /\ Laying(x)
  BY <1>3, <1>8 DEF Holds, Laying
<1>12. StaysArranged(tab[t], x)
  BY <1>3, <1>5, <1>8, PlacesApart DEF StaysArranged
<1> QED BY <1>1, <1>2, <1>7, <1>9, <1>10, <1>11, <1>12, SaveCloses

\* A filter is chosen.
LEMMA SetFilterOK ==
  ASSUME CanvasInv, NEW t \in Tabs, NEW f \in BOOLEAN, SetFilter(t, f)
  PROVE  CanvasStepOK
<1> DEFINE y == IF f = tab[t].filter THEN tab[t] ELSE CancelGesture(tab[t])
           x == [y EXCEPT !.filter = f]
<1>1. /\ tab[t].open = TRUE /\ tab[t].due = FALSE /\ TabKeeps(tab[t], prefs) /\ tab[t] \in Canvases
  BY ShowsFacts DEF SetFilter, Event
<1>2. Save(t, x) /\ lost' = lost
  BY DEF SetFilter, Save
<1>3. TabKeeps(y, prefs) /\ StaysArranged(tab[t], y) /\ y \in Canvases
      /\ y.open = TRUE /\ y.given = tab[t].given /\ y.view = tab[t].view
      /\ (Finishes(tab[t]) => y.motion # NoCanvas)
  <2>1. CASE y = tab[t]
    BY <1>1, <2>1 DEF StaysArranged, Finishes
  <2>2. CASE tab[t].gesture # NoCanvas /\ y = CancelGesture(tab[t])
    <3> DEFINE d == CancelGesture(tab[t])
    <3>1. /\ d \in Canvases /\ SameOtherwise(tab[t], d) /\ d.positions = tab[t].positions
          /\ d.error = tab[t].error /\ d.gesture = NoCanvas /\ d.motion = NoCanvas
      BY <1>1, <2>2, CancelGestureFacts
    <3> HIDE DEF d
    <3>2. TabKeeps(d, prefs) /\ StaysArranged(tab[t], d)
      BY <1>1, <3>1, CancelKeeps
    <3> QED BY <1>1, <2>2, <3>1, <3>2 DEF SameOtherwise, Finishes, d
  <2>3. tab[t].gesture = NoCanvas => CancelGesture(tab[t]) = tab[t]
    BY DEF CancelGesture
  <2> QED BY <2>1, <2>2, <2>3
<1> HIDE DEF y
<1>4. x \in Canvases
  BY <1>3 DEF Canvases
<1>5. /\ x.open = y.open /\ x.given = y.given /\ x.due = y.due /\ x.view = y.view /\ x.cards = y.cards
      /\ x.positions = y.positions /\ x.unplaced = y.unplaced /\ x.gesture = y.gesture /\ x.motion = y.motion
      /\ x.requests = y.requests /\ x.answer = y.answer /\ x.fits = y.fits /\ x.onArrival = y.onArrival
      /\ x.chosen = y.chosen
  BY <1>3 DEF Canvases
<1> HIDE DEF x
<1>6. CanvasKeeps(x)
  BY <1>3, <1>4, <1>5 DEF TabKeeps, CanvasKeeps
<1>7. Holds(x) /\ Laying(x)
  BY <1>3, <1>5 DEF TabKeeps, Holds, Laying
<1>8. StaysArranged(tab[t], x)
  BY <1>3, <1>5 DEF StaysArranged
<1>9. Finishes(tab[t]) => x.motion # NoCanvas
  BY <1>3, <1>5
<1> QED BY <1>1, <1>2, <1>3, <1>4, <1>5, <1>6, <1>7, <1>8, <1>9, SaveCloses

\* What another tab stored is noticed.
LEMMA OnStorageOK ==
  ASSUME CanvasInv, NEW t \in Tabs, NEW v \in Views, OnStorage(t, v)
  PROVE  CanvasStepOK
<1> DEFINE x == [tab[t] EXCEPT !.notices = @ \ {v}]
           n == IF v = x.given.view THEN Heard(x) ELSE x
<1>1. /\ tab[t].open = TRUE /\ tab[t].due = FALSE /\ TabKeeps(tab[t], prefs) /\ tab[t] \in Canvases
      /\ tab[t].view = tab[t].given.view /\ v \in tab[t].notices
  BY ShowsFacts DEF OnStorage
<1>2. Becomes(t, n) /\ prefs' = prefs /\ lost' = lost
  BY DEF OnStorage
<1>3. x \in Canvases
  BY <1>1 DEF Canvases
<1>4. /\ x.open = tab[t].open /\ x.given = tab[t].given /\ x.due = tab[t].due /\ x.view = tab[t].view
      /\ x.cards = tab[t].cards /\ x.positions = tab[t].positions /\ x.unplaced = tab[t].unplaced
      /\ x.gesture = tab[t].gesture /\ x.motion = tab[t].motion /\ x.requests = tab[t].requests
      /\ x.answer = tab[t].answer /\ x.fits = tab[t].fits /\ x.onArrival = tab[t].onArrival
      /\ x.chosen = tab[t].chosen /\ x.error = tab[t].error /\ x.notices = tab[t].notices \ {v}
  BY <1>1 DEF Canvases
<1> HIDE DEF x
<1>5. TabKeeps(n, prefs) /\ n.open = TRUE /\ n.notices = tab[t].notices \ {v}
  <2>1. CASE v = tab[t].given.view
    <3>1. n = ReadPreferences(CancelMotion(CancelGesture(x)), prefs)
      BY <1>4, <2>1 DEF Heard
    <3>2. x.notices = tab[t].notices \ {tab[t].given.view}
      BY <1>4, <2>1
    <3>3. PrefsTyped(prefs)
      BY TabIs
    <3> DEFINE h == ReadPreferences(CancelMotion(CancelGesture(x)), prefs)
    <3>4. TabKeeps(h, prefs) /\ h.open = TRUE /\ h.notices = tab[t].notices \ {tab[t].given.view}
      BY <1>1, <1>3, <1>4, <3>2, <3>3, HeardKeeps
    <3> HIDE DEF n, h
    <3>5. n = h
      BY <3>1 DEF h
    <3> QED BY <2>1, <3>4, <3>5
  <2>2. CASE v # tab[t].given.view
    <3>1. n = x
      BY <1>4, <2>2
    <3>2. x.chosen = TRUE => x.fits = FALSE /\ x.onArrival = FALSE
      BY <1>1, <1>4 DEF TabKeeps, CanvasKeeps
    <3>3. tab[t].view \in tab[t].notices => tab[t].view \in x.notices
      BY <1>1, <1>4, <2>2
    <3>4. TabKeeps(x, prefs)
      BY <1>1, <1>3, <1>4, <3>2, <3>3, TweakKeeps
    <3> QED BY <1>1, <1>4, <3>1, <3>4
  <2> QED BY <2>1, <2>2
<1> HIDE DEF n
<1>6. n.notices # tab[t].notices
  BY <1>1, <1>5
<1>7. DropDone(t, n)
  BY <1>1, <1>5 DEF DropDone
<1>8. lost' \in Nat
  BY <1>2, TabIs
<1> QED BY <1>2, <1>5, <1>6, <1>7, <1>8, BecomesCloses

LEMMA AnswerOK ==
  ASSUME CanvasInv, NEW t \in Tabs, NEW r \in tab[t].requests, Answer(t, r)
  PROVE  CanvasStepOK
<1>1. CASE ~Wanted(tab[t], r)
  BY <1>1, UnwantedOK
<1>2. CASE Wanted(tab[t], r)
  <2>1. \/ Interrupt(t, LAMBDA e : Arrived([e EXCEPT !.requests = @ \ {r}], r))
        \/ Interrupt(t, LAMBDA e : [e EXCEPT !.requests = @ \ {r}])
    BY <1>2 DEF Answer
  <2> QED BY <1>2, <2>1, ArrivedOK, FailedOK
<1> QED BY <1>1, <1>2

LEMMA CanvasStepKeeps == ASSUME CanvasInv, NEW t \in Tabs, CanvasStep(t) PROVE CanvasStepOK
<1>1. CASE Update(t)
  BY <1>1, UpdateOK
<1>2. CASE Fitted(t)
  BY <1>2, FittedOK
<1>3. CASE Zoom(t)
  BY <1>3, ZoomOK
<1>4. CASE Fit(t)
  BY <1>4, FitOK
<1>5. CASE PointerUp(t)
  BY <1>5, PointerUpOK
<1>6. CASE Settle(t)
  BY <1>6, SettleOK
<1>7. CASE LosePointer(t)
  BY <1>7, LosePointerOK
<1>8. CASE Escape(t)
  BY <1>8, EscapeOK
<1>9. CASE Leave(t)
  BY <1>9, LeaveOK
<1>10. CASE AddonsChange(t)
  BY <1>10, AddonsChangeOK
<1>11. CASE \E v \in Views : ShowView(t, v) \/ OnStorage(t, v) \/ \E d \in 1..MaxData : Enter(t, v, d)
  BY <1>11, ShowViewOK, OnStorageOK, EnterOK
<1>12. CASE \E d \in 1..MaxData : Give(t, d)
  BY <1>12, GiveOK
<1>13. CASE \E r \in tab[t].requests : Answer(t, r)
  BY <1>13, AnswerOK
<1>14. CASE \E c \in tab[t].cards \cup {Pan} : PointerDown(t, c)
  BY <1>14, PointerDownOK
<1>15. CASE \E p \in Points : PointerMove(t, p) \/ \E c \in tab[t].cards : MoveNode(t, c, p)
  BY <1>15, PointerMoveOK, MoveNodeOK
<1>16. CASE \E f \in BOOLEAN : SetFilter(t, f)
  BY <1>16, SetFilterOK
<1> QED BY <1>1, <1>2, <1>3, <1>4, <1>5, <1>6, <1>7, <1>8, <1>9, <1>10, <1>11, <1>12, <1>13,
           <1>14, <1>15, <1>16 DEF CanvasStep

LEMMA CanvasInitInv == CanvasInit => CanvasInv
<1> SUFFICES ASSUME CanvasInit PROVE CanvasInv
  OBVIOUS
<1>1. prefs = [v \in Views |-> [positions |-> NoCards, filter |-> FALSE]] /\ lost = 0
  BY DEF CanvasInit
<1>2. tab = [t \in Tabs |-> Away]
  BY DEF CanvasInit
<1>3. PrefsTyped(prefs)
  BY <1>1, NoCardsFacts DEF PrefsTyped
<1>4. \A t \in Tabs : TabKeeps(tab[t], prefs)
  BY <1>2, AwayKeeps
<1> QED BY <1>1, <1>2, <1>3, <1>4 DEF CanvasInv

LEMMA CanvasSteps ==
  ASSUME CanvasInv, [CanvasNext]_canvas
  PROVE  CanvasInv' /\ [ArrangedStays /\ DropIsKept]_canvas
<1>1. CASE UNCHANGED canvas
  <2>1. prefs' = prefs /\ tab' = tab /\ lost' = lost
    BY <1>1 DEF canvas
  <2>2. CanvasInv'
    BY <2>1 DEF CanvasInv
  <2> QED BY <1>1, <2>2
<1>2. CASE CanvasNext
  <2>1. CanvasStepOK
    BY <1>2, CanvasStepKeeps DEF CanvasNext
  <2> QED BY <2>1 DEF CanvasStepOK
<1> QED BY <1>1, <1>2

LEMMA CanvasOfParts == PartsSpec => CanvasSpec
<1>1. PartsInit => CanvasInit
  BY DEF PartsInit
<1>2. [PartsNext]_partVars => [CanvasNext]_canvas
  BY DEF PartsNext, partVars
<1> QED BY <1>1, <1>2, PTL DEF PartsSpec, CanvasSpec

LEMMA CanvasInvariance == CanvasSpec => []CanvasInv
<1>1. CanvasInv /\ [CanvasNext]_canvas => CanvasInv'
  BY CanvasSteps
<1> QED BY <1>1, CanvasInitInv, PTL DEF CanvasSpec

\* For every number of tabs, views, cards and add-on answers: a view's storage holds cards
\* of that view only, add-on cards are those of what is shown, a tab that was told of
\* nothing newer and whose last save succeeded shows exactly the arrangement that is
\* stored, and the reader's own zoom is not undone.
THEOREM CanvasStaysCurrent == PartsSpec => []CanvasIsCurrent
<1>1. CanvasInv => CanvasIsCurrent
  <2> SUFFICES ASSUME CanvasInv PROVE CanvasIsCurrent
    OBVIOUS
  <2>1. ViewsKeepTheirOwn
    BY DEF CanvasInv, PrefsTyped, OwnCards, ViewsKeepTheirOwn
  <2>2. OnlyCurrentAnswers
    <3> SUFFICES ASSUME NEW t \in Tabs, ~tab[t].due, tab[t].answer # NoCanvas
                 PROVE  tab[t].answer = tab[t].given
      BY DEF OnlyCurrentAnswers
    <3>1. TabKeeps(tab[t], prefs) /\ tab[t].due = FALSE
      BY TabIs DEF Canvases
    <3> QED BY <3>1 DEF TabKeeps, CanvasKeeps
  <2>3. TabsAgree
    <3> SUFFICES ASSUME NEW t \in Tabs, tab[t].open, ~tab[t].due, ~tab[t].error,
                        tab[t].view \notin tab[t].notices
                 PROVE  AgreesWith(tab[t].positions, prefs[tab[t].view].positions)
      BY DEF TabsAgree, AgreesWith
    <3>1. TabKeeps(tab[t], prefs) /\ tab[t].open = TRUE /\ tab[t].due = FALSE /\ tab[t].error = FALSE
      BY TabIs DEF Canvases
    <3>2. tab[t].view \in Views
      BY <3>1, OpenFacts
    <3>3. tab[t].view # NoCanvas
      BY <3>2, CanvasAssumption DEF CanvasAssumption
    <3> QED BY <3>1, <3>3 DEF TabKeeps, Agrees
  <2>4. ChosenViewStays
    <3> SUFFICES ASSUME NEW t \in Tabs, tab[t].chosen PROVE ~tab[t].fits /\ ~tab[t].onArrival
      BY DEF ChosenViewStays
    <3>1. TabKeeps(tab[t], prefs) /\ tab[t].chosen = TRUE
      BY TabIs DEF Canvases
    <3> QED BY <3>1 DEF TabKeeps, CanvasKeeps
  <2> QED BY <2>1, <2>2, <2>3, <2>4 DEF CanvasIsCurrent
<1> QED BY <1>1, CanvasInvariance, CanvasOfParts, PTL

\* The canvas never moves a card that the reader arranged, and a completed drop is stored
\* for its view whatever ends its motion, unless it is given up, the storage refuses it or
\* another tab's arrangement arrives.
THEOREM ArrangementIsKept == PartsSpec => ArrangementStands
<1>1. CanvasInv /\ [CanvasNext]_canvas => [ArrangedStays /\ DropIsKept]_canvas
  BY CanvasSteps
<1> QED BY <1>1, CanvasInvariance, CanvasOfParts, PTL DEF CanvasSpec, ArrangementStands

(***************************************************************************)
(* Add-on links.                                                           *)
(***************************************************************************)
Versions == [addons : Nat, role : Nat]
Entries == [ref : References, loading : BOOLEAN, seen : Versions]
Batches == [refs : SUBSET References, seen : Versions, aborted : BOOLEAN]
Asks == [topic : Topics \cup {NoTopic}, seen : Versions, aborted : BOOLEAN]

LinkViews ==
  [gone : BOOLEAN, subscribed : BOOLEAN, aborted : BOOLEAN, role : Nat, due : BOOLEAN,
   drawing : BOOLEAN, cache : Seq(Entries), pending : SUBSET References, asked : SUBSET Batches,
   typed : Topics \cup {NoTopic}, topic : Topics \cup {NoTopic},
   found : [topic : Topics \cup {NoTopic}, seen : Versions], requests : SUBSET Asks]

\* A reference that is loading in the cache; one that the view e asks for.
Loads(cache, r) == \E i \in DOMAIN cache : cache[i].ref = r /\ cache[i].loading
Awaits(e, r) == r \in e.pending \/ \E b \in e.asked : ~b.aborted /\ r \in b.refs

\* One entry for a reference; those that are loading are those that are asked for, once.
CacheKeeps(cache) ==
  /\ Len(cache) <= Capacity
  /\ \A i, j \in DOMAIN cache : cache[i].ref = cache[j].ref => i = j

AsksKeep(e) ==
  /\ \A r \in References : Awaits(e, r) => Loads(e.cache, r)
  /\ \A i \in DOMAIN e.cache : e.cache[i].loading => e.aborted \/ Awaits(e, e.cache[i].ref)
  /\ \A b \in e.asked : ~b.aborted => b.refs \cap e.pending = {}
  /\ \A b, c \in e.asked : ~b.aborted /\ ~c.aborted /\ b # c => b.refs \cap c.refs = {}

\* A view that listens under the role it has knows only what is so in world w.
CacheCurrent(cache, w) == \A i \in DOMAIN cache : cache[i].loading \/ cache[i].seen = w
Searches(e, w) ==
  /\ \A q \in e.requests : q.aborted \/ (q.seen = w /\ q.topic = e.topic)
  /\ e.found = NoFind \/ e.found = [topic |-> e.topic, seen |-> w]
Current(e, w) ==
  /\ e.subscribed
  /\ CacheCurrent(e.cache, w)
  /\ \A b \in e.asked : b.aborted \/ b.seen = w
  /\ Searches(e, w)

Listens(e, w) == ~e.aborted /\ e.role = w.role

\* Between two requests to draw the view, and the view itself.
Sound(e, w) ==
  /\ e \in LinkViews
  /\ CacheKeeps(e.cache) /\ AsksKeep(e)
  /\ Listens(e, w) => Current(e, w)
  /\ e.aborted => e.gone
  /\ e.role <= w.role

ViewKeeps(e, w) ==
  /\ Sound(e, w)
  /\ e.drawing => Listens(e, w) /\ e.due
  /\ ~e.gone /\ ~e.due => e.role = w.role /\ e.typed = e.topic /\ e.pending = {}

LinksInv ==
  /\ world \in [addons : Nat, role : Nat \ {0}]
  /\ ViewKeeps(links, world)

LEMMA GivenUpFacts ==
  ASSUME NEW S, S \subseteq Batches \/ S \subseteq Asks
  PROVE  /\ S \subseteq Batches => GivenUp(S) \subseteq Batches
         /\ S \subseteq Asks => GivenUp(S) \subseteq Asks
         /\ \A r \in GivenUp(S) : r.aborted
  BY DEF GivenUp, Batches, Asks

LEMMA UnseenIsVersion == Unseen \in Versions
  BY DEF Unseen, Versions

LEMMA NoFindTyped == NoFind \in [topic : Topics \cup {NoTopic}, seen : Versions]
  BY UnseenIsVersion DEF NoFind

\* A view that has forgotten everything and listens, whatever else it is.
LEMMA ForgottenKeeps ==
  ASSUME NEW e \in LinkViews, NEW w \in Versions,
         e.cache = <<>>, e.pending = {}, e.found = NoFind, e.subscribed, e.due,
         ~e.aborted, e.role <= w.role, e.drawing => e.role = w.role,
         \A b \in e.asked : b.aborted, \A q \in e.requests : q.aborted
  PROVE  ViewKeeps(e, w)
<1>1. Len(e.cache) = 0 /\ DOMAIN e.cache = {}
  OBVIOUS
<1>2. CacheKeeps(e.cache)
  BY <1>1, LinksAssumption DEF CacheKeeps, LinksAssumption
<1>3. AsksKeep(e)
  <2>1. \A r \in References : ~Awaits(e, r)
    BY DEF Awaits
  <2> QED BY <1>1, <2>1 DEF AsksKeep
<1>4. Current(e, w)
  BY <1>1 DEF Current, CacheCurrent, Searches
<1> QED BY <1>2, <1>3, <1>4 DEF ViewKeeps, Sound, Listens

LEMMA RetryFacts ==
  ASSUME NEW e \in LinkViews
  PROVE  LET d == Retry(e) IN
         /\ d \in LinkViews
         /\ d.cache = <<>> /\ d.pending = {} /\ d.found = NoFind /\ d.due /\ ~d.aborted
         /\ d.subscribed = e.subscribed /\ d.role = e.role /\ d.drawing = e.drawing /\ d.gone = e.gone
         /\ \A b \in d.asked : b.aborted
         /\ \A q \in d.requests : q.aborted
<1>1. e.asked \subseteq Batches /\ e.requests \subseteq Asks
  BY DEF LinkViews
<1>2. /\ GivenUp(e.asked) \subseteq Batches /\ \A b \in GivenUp(e.asked) : b.aborted
      /\ GivenUp(e.requests) \subseteq Asks /\ \A q \in GivenUp(e.requests) : q.aborted
  BY <1>1, GivenUpFacts
<1>3. <<>> \in Seq(Entries)
  OBVIOUS
<1> QED BY <1>2, <1>3, NoFindTyped DEF Retry, LinkViews

LEMMA VersionsChange ==
  ASSUME world \in [addons : Nat, role : Nat \ {0}]
  PROVE  /\ world \in Versions
         /\ LET w == [world EXCEPT !.addons = @ + 1] IN
              w \in [addons : Nat, role : Nat \ {0}] /\ w \in Versions /\ w.role = world.role
         /\ LET w == [world EXCEPT !.role = @ + 1] IN
              w \in [addons : Nat, role : Nat \ {0}] /\ w \in Versions /\ w.role > world.role
  BY DEF Versions

-----------------------------------------------------------------------------
(* The cache.                                                              *)

\* A sequence without one of its elements.
LEMMA RemovedFacts ==
  ASSUME NEW S, NEW s \in Seq(S), NEW i \in 1..Len(s)
  PROVE  /\ RemoveAt(s, i) \in Seq(S) /\ Len(RemoveAt(s, i)) = Len(s) - 1
         /\ \A j \in 1..(Len(s) - 1) : RemoveAt(s, i)[j] = s[IF j < i THEN j ELSE j + 1]
<1>1. RemoveAt(s, i) = Without(s, i)
  BY DEF RemoveAt, Without
<1> HIDE DEF RemoveAt
<1> QED BY <1>1, WithoutFacts

LEMMA LeastEvictable ==
  ASSUME NEW S \in SUBSET Nat, S # {}
  PROVE  \E i \in S : \A j \in S : i <= j
<1>1. PICK i \in S : \A j \in S : ~(<<j, i>> \in OpToRel(<, Nat))
  BY NatLessThanWellFounded, WFMin
<1>2. \A j \in S : ~(j < i)
  BY <1>1 DEF OpToRel
<1> QED BY <1>2

\* Room is made at the expense of a settled entry only.
LEMMA RoomyFacts ==
  ASSUME NEW e \in LinkViews, CacheKeeps(e.cache)
  PROVE  LET d == Roomy(e) IN
         /\ d = [e EXCEPT !.cache = d.cache]
         /\ d.cache \in Seq(Entries) /\ CacheKeeps(d.cache)
         /\ \A i \in DOMAIN d.cache : \E j \in DOMAIN e.cache : d.cache[i] = e.cache[j]
         /\ \A r : Loads(e.cache, r) => Loads(d.cache, r)
<1> DEFINE d == Roomy(e)
           c == e.cache
<1>1. c \in Seq(Entries) /\ e = [e EXCEPT !.cache = e.cache]
  BY DEF LinkViews
<1>2. CASE Len(c) < Capacity \/ Evictable(e) = {}
  <2>1. d = e
    BY <1>2 DEF Roomy
  <2> QED BY <1>1, <2>1
<1>3. CASE ~(Len(c) < Capacity \/ Evictable(e) = {})
  <2> DEFINE g == CHOOSE i \in Evictable(e) : \A j \in Evictable(e) : i <= j
  <2>1. Evictable(e) \subseteq Nat /\ Evictable(e) # {}
    BY <1>1, <1>3 DEF Evictable
  <2>2. \E i \in Evictable(e) : \A j \in Evictable(e) : i <= j
    BY <2>1, LeastEvictable
  <2>3. g \in Evictable(e)
    BY <2>2
  <2>4. g \in 1..Len(c) /\ ~c[g].loading
    BY <1>1, <2>3 DEF Evictable
  <2>5. d = [e EXCEPT !.cache = RemoveAt(c, g)]
    BY <1>3 DEF Roomy
  <2>6. d.cache = RemoveAt(c, g)
    BY <2>5 DEF LinkViews
  <2> HIDE DEF g, d
  <2> DEFINE s == RemoveAt(c, g)
  <2>7. /\ s \in Seq(Entries) /\ Len(s) = Len(c) - 1
        /\ \A j \in 1..(Len(c) - 1) : s[j] = c[IF j < g THEN j ELSE j + 1]
    BY <1>1, <2>4, RemovedFacts
  <2> HIDE DEF s, c
  <2>8. Len(c) \in Nat /\ DOMAIN c = 1..Len(c) /\ DOMAIN s = 1..(Len(c) - 1)
    BY <1>1, <2>7
  <2>9. CacheKeeps(s)
    <3>1. Len(s) <= Capacity
      BY <2>7, <2>8, LinksAssumption DEF CacheKeeps, LinksAssumption, c
    <3>2. ASSUME NEW i \in DOMAIN s, NEW j \in DOMAIN s, s[i].ref = s[j].ref PROVE i = j
      <4>1. PICK k \in 1..Len(c) : k = (IF i < g THEN i ELSE i + 1) /\ s[i] = c[k]
        BY <2>4, <2>7, <2>8
      <4>2. PICK l \in 1..Len(c) : l = (IF j < g THEN j ELSE j + 1) /\ s[j] = c[l]
        BY <2>4, <2>7, <2>8
      <4>3. k = l
        BY <2>8, <3>2, <4>1, <4>2 DEF CacheKeeps, c
      <4> QED BY <2>4, <2>8, <4>1, <4>2, <4>3
    <3> QED BY <3>1, <3>2 DEF CacheKeeps
  <2>10. \A i \in DOMAIN s : \E j \in DOMAIN c : s[i] = c[j]
    <3> SUFFICES ASSUME NEW i \in DOMAIN s PROVE \E j \in DOMAIN c : s[i] = c[j]
      OBVIOUS
    <3>1. (IF i < g THEN i ELSE i + 1) \in DOMAIN c
      BY <2>4, <2>8
    <3> QED BY <2>7, <2>8, <3>1
  <2>11. ASSUME NEW r, Loads(c, r) PROVE Loads(s, r)
    <3>1. PICK k \in DOMAIN c : c[k].ref = r /\ c[k].loading
      BY <2>11 DEF Loads
    <3>2. k # g
      BY <2>4, <3>1
    <3>3. CASE k < g
      <4>1. k \in DOMAIN s /\ s[k] = c[k]
        BY <2>4, <2>7, <2>8, <3>3
      <4> QED BY <3>1, <4>1 DEF Loads
    <3>4. CASE k > g
      <4>1. k - 1 \in DOMAIN s /\ s[k - 1] = c[k]
        BY <2>4, <2>7, <2>8, <3>4
      <4> QED BY <3>1, <4>1 DEF Loads
    <3> QED BY <2>4, <2>8, <3>2, <3>3, <3>4
  <2>12. d.cache = s
    BY <2>6 DEF s, c
  <2>13. d = [e EXCEPT !.cache = d.cache]
    BY <2>5, <2>6 DEF c
  <2> QED BY <2>7, <2>9, <2>10, <2>11, <2>12, <2>13 DEF d, c
<1> QED BY <1>2, <1>3

\* Fields that showing a reference leaves alone.
SameView(d, e) ==
  /\ d.gone = e.gone /\ d.subscribed = e.subscribed /\ d.aborted = e.aborted /\ d.role = e.role
  /\ d.drawing = e.drawing /\ d.typed = e.typed /\ d.topic = e.topic /\ d.found = e.found
  /\ d.requests = e.requests

\* Another cache whose entries were in the old one, of which none was lost while it loaded.
LEMMA OtherCacheSound ==
  ASSUME NEW e, NEW w \in Versions, Sound(e, w), NEW c \in Seq(Entries), CacheKeeps(c),
         \A i \in DOMAIN c : \E j \in DOMAIN e.cache : c[i] = e.cache[j],
         \A r : Loads(e.cache, r) => Loads(c, r)
  PROVE  Sound([e EXCEPT !.cache = c], w)
<1> DEFINE d == [e EXCEPT !.cache = c]
<1>1. e \in LinkViews
  BY DEF Sound
<1>2. /\ d \in LinkViews /\ SameView(d, e) /\ d.cache = c
      /\ d.due = e.due /\ d.pending = e.pending /\ d.asked = e.asked
  BY <1>1 DEF LinkViews, SameView
<1> HIDE DEF d
<1>3. \A r : Awaits(d, r) <=> Awaits(e, r)
  BY <1>2 DEF Awaits
<1>4. AsksKeep(d)
  <2>1. \A r \in References : Awaits(d, r) => Loads(d.cache, r)
    BY <1>2, <1>3 DEF AsksKeep, Sound
  <2>2. ASSUME NEW i \in DOMAIN c, c[i].loading PROVE d.aborted \/ Awaits(d, c[i].ref)
    BY <1>2, <1>3, <2>2 DEF AsksKeep, Sound, SameView
  <2> QED BY <1>2, <2>1, <2>2 DEF AsksKeep, Sound
<1>5. Listens(d, w) => Current(d, w)
  <2> SUFFICES ASSUME Listens(d, w) PROVE Current(d, w)
    OBVIOUS
  <2>1. Current(e, w)
    BY <1>2 DEF Listens, SameView, Sound
  <2>2. CacheCurrent(c, w)
    BY <2>1 DEF Current, CacheCurrent
  <2> QED BY <1>2, <2>1, <2>2 DEF Current, SameView, Searches
<1> QED BY <1>2, <1>4, <1>5 DEF Sound, SameView, d

LEMMA ResolveSound ==
  ASSUME NEW e, NEW w \in Versions, Sound(e, w), NEW ref \in References
  PROVE  LET f == Resolve(e, ref) IN
         /\ Sound(f, w) /\ SameView(f, e)
         /\ f.due \/ (f.due = e.due /\ f.pending = e.pending)
         /\ e.due => f.due
<1> DEFINE d == Roomy(e)
           f == Resolve(e, ref)
           c == d.cache
           x == [ref |-> ref, loading |-> TRUE, seen |-> Unseen]
<1>1. e \in LinkViews /\ CacheKeeps(e.cache)
  BY DEF Sound
<1>2. /\ d = [e EXCEPT !.cache = c]
      /\ c \in Seq(Entries) /\ CacheKeeps(c)
      /\ \A i \in DOMAIN c : \E j \in DOMAIN e.cache : c[i] = e.cache[j]
      /\ \A r : Loads(e.cache, r) => Loads(c, r)
  BY <1>1, RoomyFacts
<1> HIDE DEF d
<1>3. Sound(d, w)
  BY <1>2, OtherCacheSound
<1>4. SameView(d, e) /\ d.due = e.due /\ d.pending = e.pending /\ d.asked = e.asked
  BY <1>1, <1>2 DEF LinkViews, SameView
<1>5. CASE Cached(e, ref)
  <2>1. f = e
    BY <1>5 DEF Resolve
  <2> QED BY <2>1 DEF SameView
<1>6. CASE ~Cached(e, ref) /\ Len(c) >= Capacity
  <2>1. f = d
    BY <1>6 DEF Resolve, d
  <2> QED BY <1>3, <1>4, <2>1
<1>7. CASE ~Cached(e, ref) /\ ~(Len(c) >= Capacity)
  <2> DEFINE s == Append(c, x)
  <2>1. f = [d EXCEPT !.cache = Append(@, x), !.pending = @ \cup {ref}, !.due = TRUE]
    BY <1>7 DEF Resolve, d
  <2>2. x \in Entries
    BY UnseenIsVersion DEF Entries
  <2>3. d \in LinkViews
    BY <1>3 DEF Sound
  <2>4. /\ s \in Seq(Entries) /\ Len(s) = Len(c) + 1 /\ DOMAIN s = 1..(Len(c) + 1)
        /\ \A i \in 1..Len(c) : s[i] = c[i]
        /\ s[Len(c) + 1] = x
        /\ Len(c) \in Nat /\ DOMAIN c = 1..Len(c)
    BY <1>2, <2>2
  <2> HIDE DEF s, c, f, x
  <2>5. /\ f \in LinkViews /\ SameView(f, d) /\ f.cache = s /\ f.due
        /\ f.pending = d.pending \cup {ref} /\ f.asked = d.asked
    BY <2>1, <2>3, <2>4 DEF LinkViews, SameView, s, c
  <2>6. \A i \in DOMAIN c : c[i].ref # ref
    BY <1>2, <1>7 DEF Cached
  <2>7. ~Awaits(d, ref)
    <3>1. ~Loads(c, ref)
      BY <2>6 DEF Loads
    <3> QED BY <1>3, <3>1 DEF Sound, AsksKeep, c
  <2>8. CacheKeeps(s)
    <3>1. Len(s) <= Capacity
      BY <1>7, <2>4, LinksAssumption DEF LinksAssumption
    <3>2. ASSUME NEW i \in DOMAIN s, NEW j \in DOMAIN s, s[i].ref = s[j].ref PROVE i = j
      BY <1>2, <2>4, <2>6, <3>2 DEF CacheKeeps, x
    <3> QED BY <3>1, <3>2 DEF CacheKeeps
  <2>9. \A r : Loads(c, r) => Loads(s, r)
    BY <2>4 DEF Loads
  <2>10. Loads(s, ref)
    <3>1. Len(c) + 1 \in DOMAIN s /\ s[Len(c) + 1].ref = ref /\ s[Len(c) + 1].loading
      BY <2>4 DEF x
    <3> QED BY <3>1 DEF Loads
  <2>11. \A r : Awaits(f, r) <=> r = ref \/ Awaits(d, r)
    BY <2>5 DEF Awaits
  <2>12. AsksKeep(f)
    <3>1. \A r \in References : Awaits(f, r) => Loads(f.cache, r)
      BY <1>3, <2>5, <2>9, <2>10, <2>11 DEF Sound, AsksKeep, c
    <3>2. ASSUME NEW i \in DOMAIN f.cache, f.cache[i].loading
          PROVE  f.aborted \/ Awaits(f, f.cache[i].ref)
      <4>1. CASE i = Len(c) + 1
        BY <2>4, <2>5, <2>11, <4>1 DEF x
      <4>2. CASE i \in 1..Len(c)
        BY <1>3, <2>4, <2>5, <2>11, <3>2, <4>2 DEF Sound, AsksKeep, SameView, c
      <4> QED BY <2>4, <2>5, <4>1, <4>2
    <3>3. \A b \in f.asked : ~b.aborted => b.refs \cap f.pending = {}
      <4> SUFFICES ASSUME NEW b \in d.asked, ~b.aborted PROVE b.refs \cap f.pending = {}
        BY <2>5
      <4>1. b.refs \cap d.pending = {}
        BY <1>3 DEF Sound, AsksKeep
      <4>2. ref \notin b.refs
        BY <2>7 DEF Awaits
      <4> QED BY <2>5, <4>1, <4>2
    <3>4. \A b, b2 \in f.asked : ~b.aborted /\ ~b2.aborted /\ b # b2 => b.refs \cap b2.refs = {}
      BY <1>3, <2>5 DEF Sound, AsksKeep
    <3> QED BY <3>1, <3>2, <3>3, <3>4 DEF AsksKeep
  <2>13. Listens(f, w) => Current(f, w)
    <3> SUFFICES ASSUME Listens(f, w) PROVE Current(f, w)
      OBVIOUS
    <3>1. Current(d, w)
      BY <1>3, <2>5 DEF Listens, SameView, Sound
    <3>2. CacheCurrent(s, w)
      BY <2>4, <3>1 DEF Current, CacheCurrent, x, c
    <3> QED BY <2>5, <3>1, <3>2 DEF Current, SameView, Searches
  <2>14. Sound(f, w)
    BY <1>3, <2>5, <2>8, <2>12, <2>13 DEF Sound, SameView
  <2>15. SameView(f, e)
    BY <1>4, <2>5 DEF SameView
  <2> QED BY <2>5, <2>14, <2>15 DEF f
<1> QED BY <1>5, <1>6, <1>7

-----------------------------------------------------------------------------
(* Drawing and answers.                                                    *)

\* Fields on which Sound rests.
SameAsks(d, e) ==
  /\ d.gone = e.gone /\ d.subscribed = e.subscribed /\ d.aborted = e.aborted /\ d.role = e.role
  /\ d.cache = e.cache /\ d.pending = e.pending /\ d.asked = e.asked
  /\ d.topic = e.topic /\ d.found = e.found /\ d.requests = e.requests

LEMMA SameAsksSound ==
  ASSUME NEW e, NEW d \in LinkViews, NEW w, Sound(e, w), SameAsks(d, e)
  PROVE  Sound(d, w)
<1>1. AsksKeep(d)
  BY DEF SameAsks, Sound, AsksKeep, Awaits
<1>2. Listens(d, w) => Current(d, w)
  BY DEF SameAsks, Sound, Listens, Current, Searches
<1> QED BY <1>1, <1>2 DEF SameAsks, Sound

LEMMA SearchTopicSound ==
  ASSUME NEW e, world \in Versions, Sound(e, world)
  PROVE  LET f == SearchTopic(e) IN
         /\ Sound(f, world) /\ f.topic = f.typed
         /\ f.gone = e.gone /\ f.aborted = e.aborted /\ f.role = e.role
<1> DEFINE f == SearchTopic(e)
           new == IF e.typed = NoTopic THEN {}
                  ELSE {[topic |-> e.typed, seen |-> world, aborted |-> FALSE]}
<1>1. e \in LinkViews
  BY DEF Sound
<1>2. CASE e.typed = e.topic
  <2>1. f = e
    BY <1>2 DEF SearchTopic
  <2> QED BY <1>2, <2>1
<1>3. CASE e.typed # e.topic
  <2>1. f = [e EXCEPT !.topic = e.typed, !.found = NoFind, !.requests = GivenUp(@) \cup new]
    BY <1>3 DEF SearchTopic
  <2>2. e.requests \subseteq Asks
    BY <1>1 DEF LinkViews
  <2>3. GivenUp(e.requests) \subseteq Asks /\ \A q \in GivenUp(e.requests) : q.aborted
    BY <2>2, GivenUpFacts
  <2>4. new \subseteq Asks /\ \A q \in new : q.seen = world /\ q.topic = e.typed
    <3>1. e.typed \in Topics \cup {NoTopic}
      BY <1>1 DEF LinkViews
    <3>2. [topic |-> e.typed, seen |-> world, aborted |-> FALSE] \in Asks
      BY <3>1 DEF Asks
    <3>3. CASE e.typed = NoTopic
      BY <3>3
    <3>4. CASE e.typed # NoTopic
      <4>1. new = {[topic |-> e.typed, seen |-> world, aborted |-> FALSE]}
        BY <3>4
      <4> HIDE DEF new
      <4> QED BY <3>2, <4>1
    <3> QED BY <3>3, <3>4
  <2> HIDE DEF new
  <2>5. /\ f \in LinkViews /\ f.topic = e.typed /\ f.found = NoFind
        /\ f.requests = GivenUp(e.requests) \cup new
        /\ f.typed = e.typed /\ f.gone = e.gone /\ f.aborted = e.aborted /\ f.role = e.role
        /\ f.subscribed = e.subscribed /\ f.cache = e.cache /\ f.pending = e.pending
        /\ f.asked = e.asked
    BY <1>1, <2>1, <2>3, <2>4, NoFindTyped DEF LinkViews
  <2> HIDE DEF f
  <2>6. AsksKeep(f) /\ CacheKeeps(f.cache)
    BY <2>5 DEF Sound, AsksKeep, Awaits
  <2>7. Listens(f, world) => Current(f, world)
    <3>1. Searches(f, world)
      BY <2>3, <2>4, <2>5 DEF Searches
    <3> QED BY <2>5, <3>1 DEF Sound, Listens, Current
  <2>8. Sound(f, world)
    BY <2>5, <2>6, <2>7 DEF Sound
  <2> QED BY <2>5, <2>8 DEF f
<1> QED BY <1>2, <1>3

LEMMA HostUpdatedSound ==
  ASSUME NEW e, world \in Versions, Sound(e, world), ~e.aborted
  PROVE  LET f == HostUpdated(e) IN
         /\ Sound(f, world) /\ f.pending = {}
         /\ f.gone = e.gone /\ f.aborted = e.aborted /\ f.role = e.role
         /\ f.typed = e.typed /\ f.topic = e.topic
<1> DEFINE f == HostUpdated(e)
           b == [refs |-> e.pending, seen |-> world, aborted |-> FALSE]
<1>1. e \in LinkViews
  BY DEF Sound
<1>2. CASE e.pending = {}
  <2>1. f = e
    BY <1>2 DEF HostUpdated
  <2> QED BY <1>2, <2>1
<1>3. CASE e.pending # {}
  <2>1. f = [e EXCEPT !.pending = {}, !.asked = @ \cup {b}]
    BY <1>3 DEF HostUpdated
  <2>2. b \in Batches /\ b.refs = e.pending /\ b.seen = world /\ b.aborted = FALSE
    BY <1>1 DEF Batches, LinkViews
  <2> HIDE DEF b
  <2>3. /\ f \in LinkViews /\ f.pending = {} /\ f.asked = e.asked \cup {b}
        /\ f.requests = e.requests /\ f.found = e.found
        /\ f.typed = e.typed /\ f.topic = e.topic /\ f.gone = e.gone /\ f.aborted = e.aborted
        /\ f.role = e.role /\ f.subscribed = e.subscribed /\ f.cache = e.cache
    <3>1. e.asked \cup {b} \subseteq Batches
      BY <1>1, <2>2 DEF LinkViews
    <3>2. f \in LinkViews
      BY <1>1, <2>1, <3>1 DEF LinkViews
    <3> QED BY <1>1, <2>1, <3>2 DEF LinkViews
  <2> HIDE DEF f
  <2>4. \A r : Awaits(f, r) <=> Awaits(e, r)
    BY <2>2, <2>3 DEF Awaits
  <2>5. AsksKeep(f)
    <3>1. \A r \in References : Awaits(f, r) => Loads(f.cache, r)
      BY <2>3, <2>4 DEF Sound, AsksKeep
    <3>2. \A i \in DOMAIN f.cache : f.cache[i].loading => f.aborted \/ Awaits(f, f.cache[i].ref)
      BY <2>3, <2>4 DEF Sound, AsksKeep
    <3>3. \A c, d \in f.asked : ~c.aborted /\ ~d.aborted /\ c # d => c.refs \cap d.refs = {}
      <4>1. \A c, d \in e.asked : ~c.aborted /\ ~d.aborted /\ c # d => c.refs \cap d.refs = {}
        BY DEF Sound, AsksKeep
      <4>2. \A c \in e.asked : ~c.aborted => c.refs \cap b.refs = {}
        BY <2>2 DEF Sound, AsksKeep
      <4> QED BY <2>3, <4>1, <4>2
    <3> QED BY <2>3, <3>1, <3>2, <3>3 DEF AsksKeep
  <2>6. Listens(f, world) => Current(f, world)
    BY <2>2, <2>3 DEF Sound, Listens, Current, Searches
  <2>7. Sound(f, world)
    BY <2>3, <2>5, <2>6 DEF Sound
  <2> QED BY <2>3, <2>7 DEF f
<1> QED BY <1>2, <1>3

\* What is asked for still has its entries: answers settle those and add none.
LEMMA SettlesSound ==
  ASSUME NEW e, NEW w \in Versions, Sound(e, w), NEW b \in e.asked, ~b.aborted
  PROVE  LET f == Settles([e EXCEPT !.asked = @ \ {b}], b) IN
         /\ Sound(f, w) /\ f.due
         /\ f.gone = e.gone /\ f.aborted = e.aborted /\ f.role = e.role /\ f.drawing = e.drawing
<1> DEFINE g == [e EXCEPT !.asked = @ \ {b}]
           f == Settles(g, b)
           c == e.cache
           of(r) == [ref |-> r, loading |-> FALSE, seen |-> b.seen]
           known == {r \in b.refs : Cached(g, r)}
           s == [i \in DOMAIN c |-> IF c[i].ref \in b.refs THEN of(c[i].ref) ELSE c[i]]
           more == [i \in 1..Cardinality(b.refs \ known) |-> of(SetToSeq(b.refs \ known)[i])]
<1>1. e \in LinkViews
  BY DEF Sound
<1>2. b \in Batches /\ c \in Seq(Entries) /\ b.refs \subseteq References
  BY <1>1 DEF LinkViews, Batches
<1>3. /\ g \in LinkViews /\ g.asked = e.asked \ {b} /\ g.pending = e.pending /\ g.cache = c
      /\ g.requests = e.requests /\ g.found = e.found /\ g.drawing = e.drawing
      /\ g.typed = e.typed /\ g.topic = e.topic /\ g.gone = e.gone /\ g.aborted = e.aborted
      /\ g.role = e.role /\ g.subscribed = e.subscribed
  BY <1>1 DEF LinkViews
<1>4. f = [g EXCEPT !.due = TRUE,
             !.cache = [i \in DOMAIN @ |-> IF @[i].ref \in known THEN of(@[i].ref) ELSE @[i]] \o more]
  BY DEF Settles
<1> HIDE DEF g
<1>5. known = b.refs
  <2> SUFFICES ASSUME NEW r \in b.refs PROVE Cached(g, r)
    OBVIOUS
  <2>1. Awaits(e, r)
    BY DEF Awaits
  <2>2. Loads(c, r)
    BY <1>2, <2>1 DEF Sound, AsksKeep
  <2> QED BY <1>3, <2>2 DEF Loads, Cached
<1>6. more = <<>>
  <2>1. b.refs \ known = {}
    BY <1>5
  <2>2. Cardinality(b.refs \ known) = 0
    BY <2>1, FS_EmptySet
  <2> DEFINE x(i) == of(SetToSeq(b.refs \ known)[i])
  <2>3. more = [i \in 1..0 |-> x(i)]
    BY <2>2
  <2> HIDE DEF x, more
  <2>4. more \in [1..0 -> {x(i) : i \in 1..0}]
    BY <2>3
  <2> QED BY <2>4
<1>7. /\ s \in Seq(Entries) /\ Len(s) = Len(c) /\ DOMAIN s = DOMAIN c /\ DOMAIN c = 1..Len(c)
      /\ \A i \in DOMAIN c : s[i] = IF c[i].ref \in b.refs THEN of(c[i].ref) ELSE c[i]
  <2>1. DOMAIN c = 1..Len(c) /\ Len(c) \in Nat /\ \A i \in DOMAIN c : c[i] \in Entries
    BY <1>2
  <2>2. \A i \in DOMAIN c : (IF c[i].ref \in b.refs THEN of(c[i].ref) ELSE c[i]) \in Entries
    BY <1>2, <2>1 DEF Entries, Batches
  <2>3. s \in [1..Len(c) -> Entries]
    BY <2>1, <2>2
  <2>4. s \in Seq(Entries) /\ Len(s) = Len(c)
    BY <2>1, <2>3
  <2> QED BY <2>1, <2>4
<1>8. f = [g EXCEPT !.due = TRUE, !.cache = s]
  <2>1. [i \in DOMAIN c |-> IF c[i].ref \in known THEN of(c[i].ref) ELSE c[i]] = s
    BY <1>5
  <2> HIDE DEF known, more, s, f
  <2>2. s \o more = s
    BY <1>6, <1>7
  <2> QED BY <1>3, <1>4, <2>1, <2>2
<1> HIDE DEF s, f, known, more
<1>9. /\ f \in LinkViews /\ f.due /\ f.cache = s
      /\ f.asked = e.asked \ {b} /\ f.pending = e.pending
      /\ f.requests = e.requests /\ f.found = e.found /\ f.drawing = e.drawing
      /\ f.topic = e.topic /\ f.gone = e.gone /\ f.aborted = e.aborted
      /\ f.role = e.role /\ f.subscribed = e.subscribed
  BY <1>3, <1>7, <1>8 DEF LinkViews
<1>10. \A i \in DOMAIN c : s[i].ref = c[i].ref
                           /\ s[i].loading = (c[i].loading /\ c[i].ref \notin b.refs)
  <2> SUFFICES ASSUME NEW i \in DOMAIN c
               PROVE  s[i].ref = c[i].ref /\ s[i].loading = (c[i].loading /\ c[i].ref \notin b.refs)
    OBVIOUS
  <2>1. c[i] \in Entries
    BY <1>2, <1>7
  <2>2. c[i].loading \in BOOLEAN
    BY <2>1 DEF Entries
  <2>3. CASE c[i].ref \in b.refs
    <3>1. s[i] = of(c[i].ref)
      BY <1>7, <2>3
    <3>2. s[i].ref = c[i].ref /\ s[i].loading = FALSE
      BY <3>1
    <3> QED BY <2>3, <3>2
  <2>4. CASE c[i].ref \notin b.refs
    BY <1>7, <2>2, <2>4
  <2> QED BY <2>3, <2>4
<1>11. CacheKeeps(s)
  <2>1. Len(s) <= Capacity
    BY <1>7 DEF Sound, CacheKeeps
  <2>2. \A i, j \in DOMAIN s : s[i].ref = s[j].ref => i = j
    BY <1>7, <1>10 DEF Sound, CacheKeeps
  <2> QED BY <2>1, <2>2 DEF CacheKeeps
<1>12. \A r : Awaits(f, r) <=> Awaits(e, r) /\ r \notin b.refs
  <2> SUFFICES ASSUME NEW r PROVE Awaits(f, r) <=> Awaits(e, r) /\ r \notin b.refs
    OBVIOUS
  <2>1. r \in b.refs => r \notin e.pending
    BY DEF Sound, AsksKeep
  <2>2. \A d \in e.asked : ~d.aborted /\ r \in d.refs /\ r \in b.refs => d = b
    BY DEF Sound, AsksKeep
  <2> QED BY <1>9, <2>1, <2>2 DEF Awaits
<1>13. AsksKeep(f)
  <2>1. ASSUME NEW r \in References, Awaits(f, r) PROVE Loads(f.cache, r)
    <3>1. Loads(c, r) /\ r \notin b.refs
      BY <1>12, <2>1 DEF Sound, AsksKeep
    <3> QED BY <1>7, <1>9, <1>10, <3>1 DEF Loads
  <2>2. ASSUME NEW i \in DOMAIN f.cache, f.cache[i].loading
        PROVE  f.aborted \/ Awaits(f, f.cache[i].ref)
    <3>1. i \in DOMAIN c /\ c[i].loading /\ c[i].ref \notin b.refs /\ f.cache[i].ref = c[i].ref
      BY <1>7, <1>9, <1>10, <2>2
    <3> QED BY <1>9, <1>12, <3>1 DEF Sound, AsksKeep
  <2> QED BY <1>9, <2>1, <2>2 DEF Sound, AsksKeep
<1>14. ASSUME Listens(f, w) PROVE Current(f, w)
  <2>1. Current(e, w)
    BY <1>9, <1>14 DEF Listens, Sound
  <2>2. b.seen = w
    BY <2>1 DEF Current
  <2>3. CacheCurrent(s, w)
    <3> SUFFICES ASSUME NEW i \in DOMAIN c PROVE s[i].loading \/ s[i].seen = w
      BY <1>7 DEF CacheCurrent
    <3>1. c[i].loading \/ c[i].seen = w
      BY <2>1 DEF Current, CacheCurrent
    <3>2. CASE c[i].ref \in b.refs
      <4>1. s[i] = of(c[i].ref)
        BY <1>7, <3>2
      <4>2. s[i].seen = b.seen
        BY <4>1
      <4> QED BY <2>2, <4>2
    <3>3. CASE c[i].ref \notin b.refs
      BY <1>7, <3>1, <3>3
    <3> QED BY <3>2, <3>3
  <2>4. Searches(f, w)
    BY <1>9, <2>1 DEF Current, Searches
  <2> QED BY <1>9, <2>1, <2>3, <2>4 DEF Current
<1>15. Sound(f, w)
  BY <1>9, <1>11, <1>13, <1>14 DEF Sound
<1> QED BY <1>9, <1>15 DEF f, g

-----------------------------------------------------------------------------
(* Steps of a view.                                                        *)

LEMMA LinksInitInv == LinksInit => LinksInv
<1> SUFFICES ASSUME LinksInit PROVE LinksInv
  OBVIOUS
<1>1. world \in [addons : Nat, role : Nat \ {0}] /\ world.role = 1
  BY DEF LinksInit
<1>2. links \in LinkViews
  <2>1. <<>> \in Seq(Entries)
    OBVIOUS
  <2> QED BY <2>1, NoFindTyped DEF LinksInit, LinkViews
<1>3. links.cache = <<>> /\ links.asked = {} /\ links.pending = {} /\ links.role = 0
      /\ ~links.aborted /\ ~links.drawing /\ links.due
  BY DEF LinksInit
<1>4. CacheKeeps(links.cache) /\ AsksKeep(links)
  BY <1>3, LinksAssumption DEF LinksAssumption, CacheKeeps, AsksKeep, Awaits
<1>5. ~Listens(links, world) /\ links.role <= world.role
  BY <1>1, <1>3 DEF Listens
<1> QED BY <1>1, <1>2, <1>3, <1>4, <1>5 DEF LinksInv, ViewKeeps, Sound

LEMMA DrawBeginsKeeps == ASSUME LinksInv, DrawBegins PROVE LinksInv'
<1>1. world \in Versions /\ Sound(links, world) /\ links \in LinkViews /\ links.due
  BY VersionsChange DEF LinksInv, ViewKeeps, Sound, DrawBegins
<1>2. CASE links.role = world.role /\ ~links.aborted
  <2>1. links' = [links EXCEPT !.drawing = TRUE]
    BY <1>2 DEF DrawBegins, LinksAre, HostUpdate
  <2>2. /\ links' \in LinkViews /\ SameAsks(links', links) /\ links'.drawing /\ links'.due
    BY <1>1, <2>1 DEF LinkViews, SameAsks
  <2>3. Sound(links', world)
    BY <1>1, <2>2, SameAsksSound
  <2>4. ViewKeeps(links', world)
    BY <1>2, <2>2, <2>3 DEF ViewKeeps, Listens, SameAsks
  <2> QED BY <2>4 DEF LinksInv, DrawBegins
<1>3. CASE ~(links.role = world.role /\ ~links.aborted)
  <2> DEFINE d == Retry(links)
  <2>1. links' = [[d EXCEPT !.role = world.role, !.subscribed = TRUE] EXCEPT !.drawing = TRUE]
    BY <1>3 DEF DrawBegins, LinksAre, HostUpdate
  <2>2. /\ d \in LinkViews
        /\ d.cache = <<>> /\ d.pending = {} /\ d.found = NoFind /\ d.due /\ ~d.aborted
        /\ \A b \in d.asked : b.aborted
        /\ \A q \in d.requests : q.aborted
    BY <1>1, RetryFacts
  <2> HIDE DEF d
  <2>3. world.role \in Nat
    BY <1>1 DEF Versions
  <2>4. /\ links' \in LinkViews /\ links'.role = world.role /\ links'.subscribed
        /\ links'.cache = <<>> /\ links'.pending = {} /\ links'.found = NoFind /\ links'.due
        /\ ~links'.aborted /\ links'.asked = d.asked /\ links'.requests = d.requests
    BY <2>1, <2>2, <2>3 DEF LinkViews
  <2>5. ViewKeeps(links', world)
    <3>1. links'.role <= world.role
      BY <2>3, <2>4
    <3> QED BY <1>1, <2>2, <2>4, <3>1, ForgottenKeeps
  <2> QED BY <2>5 DEF LinksInv, DrawBegins
<1> QED BY <1>2, <1>3

LEMMA ResolveKeeps ==
  ASSUME LinksInv, NEW ref \in References, ~links.gone \/ links.drawing,
         links' = Resolve(links, ref), UNCHANGED world
  PROVE  LinksInv'
<1>1. world \in Versions /\ Sound(links, world)
  BY VersionsChange DEF LinksInv, ViewKeeps
<1> DEFINE f == Resolve(links, ref)
<1>2. /\ Sound(f, world) /\ SameView(f, links)
      /\ f.due \/ (f.due = links.due /\ f.pending = links.pending)
      /\ links.due => f.due
  BY <1>1, ResolveSound
<1> HIDE DEF f
<1>3. ViewKeeps(f, world)
  BY <1>2 DEF LinksInv, ViewKeeps, SameView, Listens
<1>4. links' = f
  BY DEF f
<1> QED BY <1>3, <1>4 DEF LinksInv

LEMMA DrawEndsKeeps == ASSUME LinksInv, DrawEnds PROVE LinksInv'
<1>1. world \in Versions /\ Sound(links, world) /\ Listens(links, world)
  BY VersionsChange DEF LinksInv, ViewKeeps, DrawEnds
<1> DEFINE e == SearchTopic(links)
           f == HostUpdated(e)
           g == [f EXCEPT !.due = FALSE, !.drawing = FALSE]
<1>2. Sound(e, world) /\ e.topic = e.typed /\ e.aborted = links.aborted /\ e.role = links.role
  BY <1>1, SearchTopicSound
<1> HIDE DEF e
<1>3. ~e.aborted
  BY <1>1, <1>2 DEF Listens
<1>4. Sound(f, world) /\ f.pending = {} /\ f.role = e.role /\ f.typed = e.typed /\ f.topic = e.topic
  BY <1>1, <1>2, <1>3, HostUpdatedSound
<1>5. links' = g
  BY DEF DrawEnds, LinksAre, e
<1> HIDE DEF f
<1>6. f \in LinkViews
  BY <1>4 DEF Sound
<1>7. g \in LinkViews /\ SameAsks(g, f) /\ g.drawing = FALSE /\ g.typed = f.typed
  BY <1>6 DEF LinkViews, SameAsks
<1> HIDE DEF g
<1>8. Sound(g, world)
  BY <1>4, <1>7, SameAsksSound
<1>9. ViewKeeps(g, world)
  BY <1>1, <1>2, <1>4, <1>7, <1>8 DEF ViewKeeps, SameAsks, Listens
<1> QED BY <1>5, <1>9 DEF LinksInv, DrawEnds

LEMMA TypeKeeps == ASSUME LinksInv, NEW t \in Topics, Type(t) PROVE LinksInv'
<1>1. Sound(links, world) /\ links \in LinkViews /\ ~links.drawing
  BY DEF LinksInv, ViewKeeps, Sound, Type, Happens
<1>2. links' = [links EXCEPT !.typed = t, !.due = TRUE]
  BY DEF Type, LinksAre
<1>3. /\ links' \in LinkViews /\ SameAsks(links', links) /\ links'.due
      /\ links'.drawing = links.drawing
  BY <1>1, <1>2 DEF LinkViews, SameAsks
<1>4. Sound(links', world)
  BY <1>1, <1>3, SameAsksSound
<1>5. ViewKeeps(links', world)
  BY <1>1, <1>3, <1>4 DEF ViewKeeps
<1> QED BY <1>5 DEF LinksInv, Type

LEMMA ProvidersChangeKeeps == ASSUME LinksInv, ProvidersChange PROVE LinksInv'
<1> DEFINE w == [world EXCEPT !.addons = @ + 1]
<1>1. world \in Versions /\ Sound(links, world) /\ links \in LinkViews /\ ~links.drawing
  BY VersionsChange DEF LinksInv, ViewKeeps, Sound, ProvidersChange, Happens
<1>2. w \in [addons : Nat, role : Nat \ {0}] /\ w \in Versions /\ w.role = world.role
  BY VersionsChange DEF LinksInv
<1>3. world' = w
  BY DEF ProvidersChange
<1> HIDE DEF w
<1>4. CASE links.subscribed
  <2> DEFINE d == Retry(links)
  <2>1. links' = d
    BY <1>4 DEF ProvidersChange, LinksAre
  <2>2. /\ d \in LinkViews
        /\ d.cache = <<>> /\ d.pending = {} /\ d.found = NoFind /\ d.due /\ ~d.aborted
        /\ d.subscribed = links.subscribed /\ d.role = links.role /\ d.drawing = links.drawing
        /\ \A b \in d.asked : b.aborted
        /\ \A q \in d.requests : q.aborted
    BY <1>1, RetryFacts
  <2> HIDE DEF d
  <2>3. d.role <= w.role
    BY <1>1, <1>2, <2>2 DEF Sound
  <2>4. ViewKeeps(d, w)
    BY <1>1, <1>2, <1>4, <2>2, <2>3, ForgottenKeeps
  <2> QED BY <1>2, <1>3, <2>1, <2>4 DEF LinksInv
<1>5. CASE ~links.subscribed
  <2>1. links' = links
    BY <1>5 DEF ProvidersChange, LinksAre
  <2>2. ~Listens(links, world)
    BY <1>1, <1>5 DEF Sound, Current
  <2>3. ~Listens(links, w)
    BY <1>2, <2>2 DEF Listens
  <2>4. ViewKeeps(links, w)
    BY <1>1, <1>2, <2>3 DEF LinksInv, ViewKeeps, Sound
  <2> QED BY <1>2, <1>3, <2>1, <2>4 DEF LinksInv
<1> QED BY <1>4, <1>5

LEMMA RoleChangesKeeps == ASSUME LinksInv, RoleChanges PROVE LinksInv'
<1> DEFINE w == [world EXCEPT !.role = @ + 1]
<1>1. world \in Versions /\ Sound(links, world) /\ links \in LinkViews /\ ~links.drawing
  BY VersionsChange DEF LinksInv, ViewKeeps, Sound, RoleChanges, Happens
<1>2. w \in [addons : Nat, role : Nat \ {0}] /\ w \in Versions /\ w.role > world.role
  BY VersionsChange DEF LinksInv
<1>3. world' = w /\ links' = [links EXCEPT !.due = TRUE]
  BY DEF RoleChanges, LinksAre
<1> HIDE DEF w
<1>4. /\ links' \in LinkViews /\ SameAsks(links', links) /\ links'.due
      /\ links'.drawing = links.drawing
  BY <1>1, <1>3 DEF LinkViews, SameAsks
<1>5. Sound(links', world)
  BY <1>1, <1>4, SameAsksSound
<1>6. links'.role < w.role
  <2>1. world.role \in Nat /\ w.role \in Nat /\ links'.role \in Nat /\ links'.role <= world.role
    BY <1>1, <1>2, <1>4, <1>5 DEF Versions, LinkViews, Sound
  <2> QED BY <1>2, <2>1
<1>7. ~Listens(links', w) /\ links'.role <= w.role
  <2>1. w.role \in Nat /\ links'.role \in Nat
    BY <1>2, <1>4 DEF Versions, LinkViews
  <2> QED BY <1>6, <2>1 DEF Listens
<1>8. ViewKeeps(links', w)
  BY <1>1, <1>4, <1>5, <1>7 DEF ViewKeeps, Sound
<1> QED BY <1>2, <1>3, <1>8 DEF LinksInv

LEMMA DisconnectKeeps == ASSUME LinksInv, Disconnect PROVE LinksInv'
<1>1. world \in Versions /\ Sound(links, world) /\ links \in LinkViews /\ ~links.drawing
  BY VersionsChange DEF LinksInv, ViewKeeps, Sound, Disconnect, Happens
<1>2. links.asked \subseteq Batches /\ links.requests \subseteq Asks
  BY <1>1 DEF LinkViews
<1>3. /\ GivenUp(links.asked) \subseteq Batches /\ \A b \in GivenUp(links.asked) : b.aborted
      /\ GivenUp(links.requests) \subseteq Asks
  BY <1>2, GivenUpFacts
<1>4. links' = [links EXCEPT !.gone = TRUE, !.subscribed = FALSE, !.aborted = TRUE,
                             !.asked = GivenUp(@), !.requests = GivenUp(@)]
  BY DEF Disconnect, LinksAre
<1>5. /\ links' \in LinkViews /\ links'.gone /\ links'.aborted
      /\ links'.asked = GivenUp(links.asked) /\ links'.pending = links.pending
      /\ links'.cache = links.cache /\ links'.role = links.role
      /\ links'.drawing = links.drawing
  BY <1>1, <1>3, <1>4 DEF LinkViews
<1>6. AsksKeep(links')
  <2>1. \A r : Awaits(links', r) => Awaits(links, r)
    BY <1>3, <1>5 DEF Awaits
  <2> QED BY <1>1, <1>3, <1>5, <2>1 DEF Sound, AsksKeep
<1>7. ViewKeeps(links', world)
  BY <1>1, <1>5, <1>6 DEF ViewKeeps, Sound, Listens
<1> QED BY <1>7 DEF LinksInv, Disconnect

LEMMA AnswersKeeps == ASSUME LinksInv, NEW b \in links.asked, Answers(b) PROVE LinksInv'
<1> DEFINE e == [links EXCEPT !.asked = @ \ {b}]
<1>1. world \in Versions /\ Sound(links, world) /\ links \in LinkViews /\ ~links.drawing
  BY VersionsChange DEF LinksInv, ViewKeeps, Sound, Answers
<1>2. CASE Heeded(b)
  <2> DEFINE f == Settles(e, b)
  <2>1. links' = f
    BY <1>2 DEF Answers, LinksAre
  <2>2. ~b.aborted
    BY <1>2 DEF Heeded
  <2>3. Sound(f, world) /\ f.due /\ f.drawing = links.drawing
    BY <1>1, <2>2, SettlesSound
  <2> HIDE DEF f
  <2>4. ViewKeeps(f, world)
    BY <1>1, <2>3 DEF ViewKeeps
  <2> QED BY <2>1, <2>4 DEF LinksInv, Answers
<1>3. CASE ~Heeded(b)
  <2>1. links' = e
    BY <1>3 DEF Answers, LinksAre
  <2>2. b.aborted
    BY <1>3 DEF Heeded
  <2>3. /\ e \in LinkViews /\ e.asked = links.asked \ {b} /\ e.cache = links.cache /\ e.pending = links.pending
        /\ e.gone = links.gone /\ e.aborted = links.aborted /\ e.role = links.role
        /\ e.subscribed = links.subscribed /\ e.topic = links.topic /\ e.typed = links.typed
        /\ e.requests = links.requests /\ e.found = links.found /\ e.due = links.due
        /\ e.drawing = links.drawing
    BY <1>1 DEF LinkViews
  <2> HIDE DEF e
  <2>4. \A r : Awaits(e, r) <=> Awaits(links, r)
    BY <2>2, <2>3 DEF Awaits
  <2>5. AsksKeep(e)
    BY <1>1, <2>3, <2>4 DEF Sound, AsksKeep
  <2>6. Listens(e, world) => Current(e, world)
    BY <1>1, <2>3 DEF Sound, Listens, Current, Searches
  <2>7. ViewKeeps(e, world)
    BY <1>1, <2>3, <2>5, <2>6 DEF LinksInv, ViewKeeps, Sound, Listens
  <2> QED BY <2>1, <2>7 DEF LinksInv, Answers
<1> QED BY <1>2, <1>3

LEMMA FoundKeeps == ASSUME LinksInv, NEW r \in links.requests, Found(r) PROVE LinksInv'
<1> DEFINE e == [links EXCEPT !.requests = @ \ {r}]
           of == [topic |-> r.topic, seen |-> r.seen]
           f == IF Heeded(r) THEN [e EXCEPT !.found = of, !.due = TRUE] ELSE e
<1>1. world \in Versions /\ Sound(links, world) /\ links \in LinkViews /\ ~links.drawing
  BY VersionsChange DEF LinksInv, ViewKeeps, Sound, Found
<1>2. r \in Asks
  BY <1>1 DEF LinkViews
<1>3. of \in [topic : Topics \cup {NoTopic}, seen : Versions]
  BY <1>2 DEF Asks
<1>4. links' = f
  BY DEF Found, LinksAre
<1>5. e \in LinkViews /\ e.found = links.found /\ e.due = links.due
  BY <1>1 DEF LinkViews
<1>6. /\ f \in LinkViews
      /\ f.requests = links.requests \ {r} /\ f.cache = links.cache /\ f.pending = links.pending
      /\ f.gone = links.gone /\ f.aborted = links.aborted /\ f.role = links.role
      /\ f.subscribed = links.subscribed /\ f.topic = links.topic /\ f.typed = links.typed
      /\ f.asked = links.asked /\ f.drawing = links.drawing
      /\ \/ Heeded(r) /\ f.found = of /\ f.due
         \/ f.found = links.found /\ f.due = links.due
  <2>1. CASE Heeded(r)
    BY <1>1, <1>3, <2>1 DEF LinkViews
  <2>2. CASE ~Heeded(r)
    BY <1>1, <1>5, <2>2 DEF LinkViews
  <2> QED BY <2>1, <2>2
<1> HIDE DEF f, e
<1>7. AsksKeep(f)
  BY <1>1, <1>6 DEF Sound, AsksKeep, Awaits
<1>8. ASSUME Listens(f, world) PROVE Current(f, world)
  <2>1. Current(links, world)
    BY <1>1, <1>6, <1>8 DEF Sound, Listens
  <2>2. Heeded(r) => of = [topic |-> links.topic, seen |-> world]
    BY <2>1 DEF Heeded, Current, Searches
  <2> QED BY <1>6, <2>1, <2>2 DEF Current, Searches
<1>9. ViewKeeps(f, world)
  BY <1>1, <1>6, <1>7, <1>8 DEF LinksInv, ViewKeeps, Sound, Listens
<1> QED BY <1>4, <1>9 DEF LinksInv, Found

LEMMA LinksStep == LinksInv /\ [LinksNext]_linkVars => LinksInv'
<1> SUFFICES ASSUME LinksInv, [LinksNext]_linkVars PROVE LinksInv'
  OBVIOUS
<1>1. CASE UNCHANGED linkVars
  BY <1>1 DEF LinksInv, linkVars
<1>2. ASSUME NEW ref \in References, DrawShows(ref) PROVE LinksInv'
  BY <1>2, ResolveKeeps DEF DrawShows, LinksAre
<1>3. ASSUME NEW ref \in References, ShowDetail(ref) PROVE LinksInv'
  BY <1>3, ResolveKeeps DEF ShowDetail, LinksAre
<1> QED
  BY <1>1, <1>2, <1>3, ProvidersChangeKeeps, RoleChangesKeeps, DisconnectKeeps, DrawBeginsKeeps,
     DrawEndsKeeps, TypeKeeps, AnswersKeeps, FoundKeeps DEF LinksNext

LEMMA LinksOfParts == PartsSpec => LinksSpec
<1>1. PartsInit => LinksInit
  BY DEF PartsInit
<1>2. [PartsNext]_partVars => [LinksNext]_linkVars
  BY DEF PartsNext, partVars
<1> QED BY <1>1, <1>2, PTL DEF PartsSpec, LinksSpec

LEMMA LinksInvariance == LinksSpec => []LinksInv
  BY LinksInitInv, LinksStep, PTL DEF LinksSpec

\* For any number of references, topics and changes, and any capacity: once the view is
\* drawn, what it shows of references and of its search comes from the add-ons and for the
\* role it has now, what is shown as loading is asked for, and the cache is within bounds.
THEOREM LinksAlwaysSettle == PartsSpec => []LinksSettle
<1>1. LinksInv => LinksSettle
  <2> SUFFICES ASSUME LinksInv PROVE LinksSettle
    OBVIOUS
  <2>1. Sound(links, world)
    BY DEF LinksInv, ViewKeeps
  <2>2. ~links.gone /\ ~links.due =>
          Listens(links, world) /\ links.typed = links.topic /\ links.pending = {}
    BY <2>1 DEF LinksInv, ViewKeeps, Sound, Listens
  <2>3. LinksAreCurrent
    BY <2>1, <2>2 DEF LinksAreCurrent, Sound, Current, CacheCurrent, Searches
  <2>4. LoadingIsAsked
    BY <2>1, <2>2 DEF LoadingIsAsked, Sound, AsksKeep, Awaits, Listens
  <2>5. CacheIsBounded
    BY <2>1 DEF CacheIsBounded, Sound, CacheKeeps
  <2> QED BY <2>3, <2>4, <2>5 DEF LinksSettle
<1> QED BY <1>1, LinksInvariance, LinksOfParts, PTL

=============================================================================
