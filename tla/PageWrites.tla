----------------------------- MODULE PageWrites -----------------------------
(***************************************************************************)
(* What the pages that edit the campaign over an exact revision share: the *)
(* stored records, the campaign a browser shows, and one write at a time   *)
(* through app/campaign-write-controller.ts.                               *)
(*                                                                         *)
(* A page hands a request over and waits.  The request carries the records *)
(* as they were when its editor opened; it is prepared over the campaign   *)
(* shown when its turn comes, stored by the server in one transaction,     *)
(* read back, and only then answered.  Meanwhile other browsers write.     *)
(***************************************************************************)
EXTENDS Integers, FiniteSets, Functions

CONSTANTS
    Parts,      \* the campaign's records
    Gone,       \* the value of a record that does not exist
    MaxEdits    \* bound: by kind of page, the revisions of all records together

VARIABLES
    server,  \* each record's stored revision and value
    shown,   \* the records in the campaign the page shows
    turn,    \* the write under way, under the app's busy lease
    page     \* the mounted page and what is typed into it

vars == <<server, shown, turn, page>>

ASSUME PartsAssumption == IsFiniteSet(Parts)

None == [none |-> TRUE]
Idle == [phase |-> "idle"]
Locked == turn # Idle
Exists(r) == r.val # Gone

\* The revision a browser sends for a record: 0 for one it does not see.
Revision(r) == IF Exists(r) THEN r.rev ELSE 0

\* One element per revision of each record.
Written == Cardinality(UNION {{p} \X (1..server[p].rev) : p \in Parts})
Room(n) == Written + n <= MaxEdits[page.kind]

-----------------------------------------------------------------------------
(* A write: mutations [part, rev, val], each over an expected revision.    *)

Change(p, rev, val) == [part |-> p, rev |-> rev, val |-> val]

\* The records that a set of mutations makes of the stored ones.
Applied(muts) ==
    [p \in Parts |-> IF \E m \in muts : m.part = p
                     THEN [rev |-> server[p].rev + 1,
                           val |-> (CHOOSE m \in muts : m.part = p).val]
                     ELSE server[p]]

\* The transaction compares the revision of every record it changes.
Current(muts) == \A m \in muts : server[m.part].rev = m.rev

\* The page asks, and is locked until it hears the answer.
Ask(req) == ~Locked /\ turn' = [phase |-> "asked", req |-> req]

\* Hearing comes last; muts are the changes that were sent.
Answered(answer, muts) ==
    [phase |-> "answered", req |-> turn.req, answer |-> answer, muts |-> muts]

\* Refused before anything is sent: the session may not write now, another
\* operation holds the app, or the prepared write is stale or invalid.
Refuse(answer) ==
    /\ turn.phase = "asked"
    /\ turn' = Answered(answer, {})
    /\ UNCHANGED <<server, shown>>

\* A write without a change is confirmed at once.
Send(muts) ==
    /\ turn.phase = "asked"
    /\ turn' = IF muts = {} THEN Answered("ok", {})
               ELSE [phase |-> "sent", req |-> turn.req, muts |-> muts]
    /\ UNCHANGED <<server, shown>>

Commits == turn.phase = "sent" /\ Current(turn.muts) /\ Room(Cardinality(turn.muts))

ServerCommits ==
    /\ Commits
    /\ server' = Applied(turn.muts)
    /\ turn' = [phase |-> "written", req |-> turn.req, muts |-> turn.muts]
    /\ UNCHANGED shown

ServerConflicts ==
    /\ turn.phase = "sent" /\ ~Current(turn.muts)
    /\ turn' = Answered("conflict", {})
    /\ UNCHANGED <<server, shown>>

\* The request or its answer is lost, so the write may have been received.
RequestFails ==
    /\ turn.phase \in {"sent", "host"}
    /\ \/ Commits /\ server' = Applied(turn.muts)
       \/ UNCHANGED server
    /\ turn' = Answered("failed", {})
    /\ UNCHANGED shown

\* A campaign holds every one of these changes, or a later one.
Includes(records, muts) ==
    \A m \in muts : \/ records[m.part].rev > m.rev /\ Exists(records[m.part])
                    \/ m.val = Gone /\ ~Exists(records[m.part])

\* The campaign is read back, or could not be and stays as it is.
ReadBack ==
    /\ turn.phase = "written"
    /\ shown' \in {server, shown}
    /\ turn' = Answered(IF Includes(shown', turn.muts) THEN "ok" ELSE "failed", turn.muts)
    /\ UNCHANGED server

\* A live event, or the refresh after a failed write; an answer is heard before
\* the browser turns to anything else.
Refresh ==
    /\ shown # server /\ shown' = server /\ turn.phase # "answered"
    /\ UNCHANGED <<server, turn>>

\* Another browser stores a value over the current one.
OthersStore(p, val) ==
    /\ server[p].val # val /\ Room(1)
    /\ server' = [server EXCEPT ![p] = [rev |-> @.rev + 1, val |-> val]]
    /\ UNCHANGED <<shown, turn>>

=============================================================================
