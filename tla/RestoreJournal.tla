----------------------------- MODULE RestoreJournal -----------------------------
(***************************************************************************)
(* Installing a full archive over a data directory, entry by entry:        *)
(* Restore, Recover, Stage and finishStagedRestore of                      *)
(* internal/backuparchive, under the locks of                              *)
(* internal/maintenance/processlock.  The restore command and the host's   *)
(* start run the same code; either can be killed between any two file      *)
(* operations, and the next one resumes from the phase in the journal.     *)
(* A maintenance tool (backup or cleanup) opens the database beside them.  *)
(*                                                                         *)
(* A top-level entry of the data directory is named by a number in the     *)
(* order ReadDir returns it; its content is the installation it came from. *)
(* A crash kills a process: completed file operations survive it.  An I/O  *)
(* error ends the process at the same places, so Crash stands for it too.  *)
(* A staging directory no journal names is never read: it is not kept.     *)
(***************************************************************************)
EXTENDS Integers

CONSTANTS
  Entries,       \* top-level entries, in the order of their names
  Database,      \* codex.db
  Credentials,   \* the server's own entry, never in an archive
  Archives,      \* the sets of entries an archive may hold
  MaxRestores,   \* bound: archives staged
  MaxCrashes,    \* bound: processes killed
  MaxTools       \* bound: maintenance tools started

ASSUME RestoreAssumption ==
  /\ Entries \subseteq Nat /\ Database \in Entries /\ Credentials \in Entries
  /\ Database # Credentials
  /\ Archives \subseteq SUBSET (Entries \ {Credentials})
  /\ \A A \in Archives : Database \in A
  /\ MaxRestores \in Nat /\ MaxCrashes \in Nat /\ MaxTools \in Nat

Nothing == -1                     \* no such entry
Blank == -2                       \* a database SQLite created because there was none
Installations == 0..MaxRestores   \* 0 is what the server had at first
Contents == Installations \cup {Nothing, Blank}
Empty == [e \in Entries |-> Nothing]
Moved == Entries \ {Credentials}  \* what finishStagedRestore does not reserve

VARIABLES
  dir, stage, previous,   \* [Entries -> Contents]: the three directories
  stageExists,            \* the staging directory is there
  journal,                \* .restore-pending.json: absent, torn, or its phase
  holds,                  \* [Installations -> SUBSET Entries]: what each consists of
  restores,               \* archives staged so far; the last is the journal's
  installed,              \* the installation last validated in place
  pc,                     \* [{"host", "restore"} -> where the process is]
  own,                    \* the restore command has written its own journal
  todo,                   \* entries the running moveEntries has still to move
  refused,                \* the last installer ended with ErrRestorePending
  tool, alone,            \* the maintenance tool, and whether its lock is exclusive
  crashes, tools          \* bounds

files == <<dir, stage, previous, stageExists, journal, holds>>
process == <<pc, own, todo, refused>>
maintenance == <<tool, alone, tools>>
vars == <<files, restores, installed, process, maintenance, crashes>>

Phases == {"staged", "moving-out", "moving-in"}
Steps == {"down", "recover", "prepare", "list-out", "out", "list-in", "in",
          "validate", "clean", "stage", "create", "write", "open", "serving"}

TypeOK ==
  /\ dir \in [Entries -> Contents] /\ stage \in [Entries -> Contents]
  /\ previous \in [Entries -> Contents] /\ stageExists \in BOOLEAN
  /\ journal \in Phases \cup {"none", "torn"}
  /\ holds \in [Installations -> SUBSET Moved]
  /\ restores \in Installations /\ installed \in Installations
  /\ pc \in [{"host", "restore"} -> Steps]
  /\ own \in BOOLEAN /\ todo \subseteq Moved /\ refused \in BOOLEAN
  /\ tool \in {"off", "looked", "locked", "open"} /\ alone \in BOOLEAN
  /\ crashes \in 0..MaxCrashes /\ tools \in 0..MaxTools

Init ==
  /\ \E A \in SUBSET Moved :
       /\ Database \in A
       /\ holds = [i \in Installations |-> IF i = 0 THEN A ELSE {}]
       /\ dir = [e \in Entries |-> IF e \in A \cup {Credentials} THEN 0 ELSE Nothing]
  /\ stage = Empty /\ previous = Empty /\ stageExists = FALSE /\ journal = "none"
  /\ restores = 0 /\ installed = 0
  /\ pc = [p \in {"host", "restore"} |-> "down"]
  /\ own = FALSE /\ todo = {} /\ refused = FALSE
  /\ tool = "off" /\ alone = FALSE /\ crashes = 0 /\ tools = 0

--------------------------------------------------------------------------------
(* Locks.  The gate is shared by the host and a backup and exclusive for    *)
(* the restore and cleanup commands; no lock is waited for.                 *)

Locked == tool \in {"locked", "open"}

StartHost ==
  /\ pc["host"] = "down" /\ pc["restore"] = "down" /\ ~(Locked /\ alone)
  /\ pc' = [pc EXCEPT !["host"] = "recover"] /\ refused' = FALSE
  /\ UNCHANGED <<files, restores, installed, own, todo, maintenance, crashes>>

\* Mutant: the restore command takes the gate shared, as a backup does.
StartRestoreShared ==
  /\ pc["restore"] = "down" /\ restores < MaxRestores
  /\ pc' = [pc EXCEPT !["restore"] = "recover"] /\ refused' = FALSE /\ own' = FALSE
  /\ UNCHANGED <<files, restores, installed, todo, maintenance, crashes>>

StartRestore ==
  /\ pc["host"] = "down" /\ pc["restore"] = "down" /\ ~Locked
  /\ restores < MaxRestores
  /\ pc' = [pc EXCEPT !["restore"] = "recover"] /\ refused' = FALSE /\ own' = FALSE
  /\ UNCHANGED <<files, restores, installed, todo, maintenance, crashes>>

Goto(p, step) == pc' = [pc EXCEPT ![p] = step]

\* The next journal is written beside the old one and renamed over it.
Advance(phase) == journal' = phase

Refuse(p) ==
  /\ Goto(p, "down") /\ refused' = TRUE
  /\ UNCHANGED <<files, restores, installed, own, todo>>

\* After finishStagedRestore: the host opens its database, the command goes on.
Finished(p) == IF p = "host" THEN "open" ELSE IF own THEN "down" ELSE "stage"

--------------------------------------------------------------------------------
(* finishStagedRestore                                                      *)

\* Mutant: a resumed restore starts over from its first phase.
ReadJournalAnew(p) ==
  /\ pc[p] = "recover"
  /\ \/ journal = "torn" /\ Refuse(p)
     \/ /\ journal # "torn"
        /\ Goto(p, IF journal = "none" THEN Finished(p) ELSE "prepare")
        /\ UNCHANGED <<files, restores, installed, own, todo, refused>>
  /\ UNCHANGED <<maintenance, crashes>>

ReadJournal(p) ==
  /\ pc[p] = "recover"
  /\ \/ /\ journal = "torn" \/ (journal = "staged" /\ ~stageExists)
        /\ Refuse(p)
     \/ /\ journal # "torn" /\ (journal = "staged" => stageExists)
        /\ Goto(p, CASE journal = "none" -> Finished(p)
                     [] journal = "staged" -> "prepare"
                     [] journal = "moving-out" -> "list-out"
                     [] journal = "moving-in" -> IF stageExists THEN "list-in" ELSE "validate")
        /\ UNCHANGED <<files, restores, installed, own, todo, refused>>
  /\ UNCHANGED <<maintenance, crashes>>

\* MkdirAll of the previous directory, then the journal.
Prepare(p) ==
  /\ pc[p] = "prepare"
  /\ Advance("moving-out") /\ Goto(p, "list-out")
  /\ UNCHANGED <<dir, stage, previous, stageExists, holds, restores, installed,
                 own, todo, refused, maintenance, crashes>>

\* ReadDir of the data directory, less the reserved names.
ListOut(p) ==
  /\ pc[p] = "list-out"
  /\ todo' = {e \in Moved : dir[e] # Nothing} /\ Goto(p, "out")
  /\ UNCHANGED <<files, restores, installed, own, refused, maintenance, crashes>>

First(e) == e \in todo /\ \A d \in todo : e <= d

\* Mutant: an entry already there is replaced instead of refused.
MoveOutOver(p, e) ==
  /\ pc[p] = "out" /\ First(e)
  /\ previous' = [previous EXCEPT ![e] = dir[e]] /\ dir' = [dir EXCEPT ![e] = Nothing]
  /\ todo' = todo \ {e}
  /\ UNCHANGED <<stage, stageExists, journal, holds, restores, installed,
                 pc, own, refused, maintenance, crashes>>

MoveOut(p, e) ==
  /\ pc[p] = "out" /\ First(e)
  /\ \/ previous[e] # Nothing /\ Refuse(p)
     \/ /\ previous[e] = Nothing
        /\ previous' = [previous EXCEPT ![e] = dir[e]] /\ dir' = [dir EXCEPT ![e] = Nothing]
        /\ todo' = todo \ {e}
        /\ UNCHANGED <<stage, stageExists, journal, holds, restores, installed, pc, own, refused>>
  /\ UNCHANGED <<maintenance, crashes>>

\* The journal says moving-in; an absent stage was published already.
MovedOut(p) ==
  /\ pc[p] = "out" /\ todo = {}
  /\ Advance("moving-in") /\ Goto(p, IF stageExists THEN "list-in" ELSE "validate")
  /\ UNCHANGED <<dir, stage, previous, stageExists, holds, restores, installed,
                 own, todo, refused, maintenance, crashes>>

ListIn(p) ==
  /\ pc[p] = "list-in"
  /\ todo' = {e \in Moved : stage[e] # Nothing} /\ Goto(p, "in")
  /\ UNCHANGED <<files, restores, installed, own, refused, maintenance, crashes>>

MoveIn(p, e) ==
  /\ pc[p] = "in" /\ First(e)
  /\ \/ dir[e] # Nothing /\ Refuse(p)
     \/ /\ dir[e] = Nothing
        /\ dir' = [dir EXCEPT ![e] = stage[e]] /\ stage' = [stage EXCEPT ![e] = Nothing]
        /\ todo' = todo \ {e}
        /\ UNCHANGED <<previous, stageExists, journal, holds, restores, installed, pc, own, refused>>
  /\ UNCHANGED <<maintenance, crashes>>

MovedIn(p) ==
  /\ pc[p] = "in" /\ todo = {}
  /\ stageExists' = FALSE /\ Goto(p, "validate")
  /\ UNCHANGED <<dir, stage, previous, journal, holds, restores, installed,
                 own, todo, refused, maintenance, crashes>>

\* What validateAndMigrateDatabase accepts: a database with the files its rows
\* name.  A database without rows, fresh from SQLite, names none.
Valid == \/ dir[Database] = Blank
         \/ /\ dir[Database] \in Installations
            /\ \A e \in holds[dir[Database]] : dir[e] = dir[Database]

\* Opening the database in place to validate it creates one if there is none.
Validate(p) ==
  /\ pc[p] = "validate"
  /\ \/ ~Valid /\ Refuse(p)
     \/ /\ Valid /\ Goto(p, "clean")
        /\ installed' = restores
        /\ UNCHANGED <<files, restores, own, todo, refused>>
  /\ UNCHANGED <<maintenance, crashes>>

\* RemoveAll(previous) goes entry by entry.
RemovePrevious(p, e) ==
  /\ pc[p] = "clean" /\ previous[e] # Nothing
  /\ previous' = [previous EXCEPT ![e] = Nothing]
  /\ UNCHANGED <<dir, stage, stageExists, journal, holds, restores, installed,
                 process, maintenance, crashes>>

RemoveJournal(p) ==
  /\ pc[p] = "clean" /\ previous = Empty
  /\ journal' = "none" /\ Goto(p, Finished(p))
  /\ UNCHANGED <<dir, stage, previous, stageExists, holds, restores, installed,
                 own, todo, refused, maintenance, crashes>>

--------------------------------------------------------------------------------
(* Stage                                                                    *)

\* A valid archive is extracted, migrated and validated in a new directory; the
\* entries of another one are removed and the command ends.
StageArchive ==
  /\ pc["restore"] = "stage"
  /\ \/ \E A \in Archives :
          LET i == restores + 1 IN
          /\ restores < MaxRestores
          /\ restores' = i /\ holds' = [holds EXCEPT ![i] = A]
          /\ stage' = [e \in Entries |-> IF e \in A THEN i ELSE Nothing]
          /\ stageExists' = TRUE /\ Goto("restore", "create")
     \/ Goto("restore", "down") /\ UNCHANGED <<restores, holds, stage, stageExists>>
  /\ UNCHANGED <<dir, previous, journal, installed, own, todo, refused, maintenance, crashes>>

\* writeRestoreJournal: O_CREATE|O_EXCL, and then the contents.
CreateJournal ==
  /\ pc["restore"] = "create" /\ journal = "none"
  /\ journal' = "torn" /\ Goto("restore", "write")
  /\ UNCHANGED <<dir, stage, previous, stageExists, holds, restores, installed,
                 own, todo, refused, maintenance, crashes>>

\* A write that fails removes the journal, and the command its stage.
WriteJournal ==
  /\ pc["restore"] = "write"
  /\ \/ /\ journal' = "staged" /\ own' = TRUE /\ Goto("restore", "recover")
        /\ UNCHANGED <<stage, stageExists>>
     \/ /\ journal' = "none" /\ stage' = Empty /\ stageExists' = FALSE
        /\ Goto("restore", "down") /\ UNCHANGED own
  /\ UNCHANGED <<dir, previous, holds, restores, installed, todo, refused, maintenance, crashes>>

--------------------------------------------------------------------------------
(* The host, the tools, and crashes                                         *)

\* The host opens (or creates) its database and makes the directories it lacks.
OpenHost ==
  /\ pc["host"] = "open"
  /\ LET owner == IF dir[Database] = Nothing THEN Blank ELSE dir[Database] IN
     /\ dir' = [e \in Entries |-> IF dir[e] = Nothing THEN owner ELSE dir[e]]
     /\ holds' = [i \in Installations |-> IF i = owner THEN Moved ELSE holds[i]]
  /\ Goto("host", "serving")
  /\ UNCHANGED <<stage, previous, stageExists, journal, restores, installed,
                 own, todo, refused, maintenance, crashes>>

StopHost ==
  /\ pc["host"] = "serving" /\ Goto("host", "down")
  /\ UNCHANGED <<files, restores, installed, own, todo, refused, maintenance, crashes>>

\* codex-maintenance backup (shared gate) or a cleanup (exclusive): the database
\* is looked for before the lock is taken, and opened after.
ToolLooks ==
  /\ tool = "off" /\ tools < MaxTools /\ dir[Database] # Nothing
  /\ tool' = "looked" /\ alone' \in BOOLEAN /\ tools' = tools + 1
  /\ UNCHANGED <<files, restores, installed, process, crashes>>

ToolLocks ==
  /\ tool = "looked"
  /\ IF pc["restore"] = "down" /\ (alone => pc["host"] = "down")
     THEN tool' = "locked" ELSE tool' = "off"
  /\ UNCHANGED <<files, restores, installed, process, alone, tools, crashes>>

ToolOpens ==
  /\ tool = "locked" /\ tool' = "open"
  /\ dir' = [dir EXCEPT ![Database] = IF @ = Nothing THEN Blank ELSE @]
  /\ UNCHANGED <<stage, previous, stageExists, journal, holds, restores, installed,
                 process, alone, tools, crashes>>

ToolEnds ==
  /\ tool = "open" /\ tool' = "off"
  /\ UNCHANGED <<files, restores, installed, process, alone, tools, crashes>>

Crash(p) ==
  /\ pc[p] # "down" /\ crashes < MaxCrashes
  /\ crashes' = crashes + 1 /\ Goto(p, "down")
  /\ UNCHANGED <<files, restores, installed, own, todo, refused, maintenance>>

--------------------------------------------------------------------------------
FinishStaged(p) ==
  \/ ReadJournal(p) \/ Prepare(p) \/ ListOut(p) \/ MovedOut(p) \/ ListIn(p)
  \/ MovedIn(p) \/ Validate(p) \/ RemoveJournal(p)
  \/ \E e \in Entries : MoveOut(p, e) \/ MoveIn(p, e) \/ RemovePrevious(p, e)

Stage == StageArchive \/ CreateJournal \/ WriteJournal

Tool == ToolLooks \/ ToolLocks \/ ToolOpens \/ ToolEnds

Next ==
  \/ StartHost \/ StartRestore \/ OpenHost \/ StopHost \/ Stage \/ Tool
  \/ \E p \in {"host", "restore"} : FinishStaged(p) \/ Crash(p)

Spec == Init /\ [][Next]_vars

\* A running process goes on, and the operator starts the host when it is down.
FairSpec ==
  /\ Spec
  /\ \A p \in {"host", "restore"} : WF_vars(FinishStaged(p))
  /\ WF_vars(Stage) /\ WF_vars(OpenHost) /\ SF_vars(StartHost)
  /\ WF_vars(ToolLocks \/ ToolOpens \/ ToolEnds)

--------------------------------------------------------------------------------
(* Properties                                                               *)

\* From the moment a restore is in the journal until its data is validated in
\* place, both installations are complete between the three directories: the
\* one before it (data directory or previous copy) and the new one (stage or
\* data directory), so neither a crash nor a refusal loses either.
BothCopiesKept ==
  journal \in Phases =>
    /\ \A e \in holds[restores] : restores \in {stage[e], dir[e]}
    /\ installed # restores => \A e \in holds[installed] : installed \in {dir[e], previous[e]}

\* The server's own credentials never leave the data directory
\* (staged.go:21-22).
CredentialsStay == dir[Credentials] = 0

\* A running host has one whole installation before it and no restore pending.
Whole(i) ==
  /\ \A e \in Moved : dir[e] \in {i, Nothing}
  /\ i \in Installations => \A e \in holds[i] : dir[e] = i

Served == IF pc["host"] # "serving" THEN Nothing
          ELSE IF journal = "none" /\ Whole(dir[Database]) THEN dir[Database] ELSE Blank

Chosen == IF journal \in Phases THEN restores ELSE installed

\* Whatever interrupted it, a restore takes effect at once and wholly: every
\* start of the host serves the installation the last complete journal names.
Promise == INSTANCE InstallPromise WITH
  Down <- Nothing, chosen <- Chosen, served <- Served
KeepsPromise == Promise!Spec

\* A restore is refused only where an operator must look: the journal was cut
\* off while it was first written, or a maintenance tool opened a database in
\* the middle of the move (codex-maintenance looks for codex.db before it holds
\* the lock, and SQLite creates what is missing).  Any other pending restore is
\* finished by the starts that follow.
RestoreSettles ==
  /\ [](refused => journal = "torn" \/ dir[Database] = Blank)
  /\ (journal \in Phases) ~> (journal = "none" \/ dir[Database] = Blank)

================================================================================
