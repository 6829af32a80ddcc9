----------------------------- MODULE RestoresProofs -----------------------------
(***************************************************************************)
(* Proofs about the two ways back to an earlier campaign.                  *)
(*                                                                         *)
(* RestoreJournal, for every set of entries, every archive and any number  *)
(* of restores, crashes and tools: Journaled, the inductive invariant,     *)
(* says of each step of an installer which phase the journal has and what  *)
(* the three directories hold.                                             *)
(*                                                                         *)
(* RecoveryPoints, for any number of points, writers and requests: by      *)
(* PointsInv a review, on the page or on its way, is of what the host has, *)
(* for as long as the host has the revision that was reviewed.             *)
(***************************************************************************)
EXTENDS Restores, FiniteSetTheorems, TLAPS

Processes == {"host", "restore"}

\* The locks leave one installer at a time.
OneInstaller == pc["host"] = "down" \/ pc["restore"] = "down"

\* Each step works in the phase it belongs to.
InPhase == \A p \in Processes :
  /\ pc[p] = "prepare" => journal = "staged"
  /\ pc[p] \in {"list-out", "out"} => journal = "moving-out"
  /\ pc[p] \in {"list-in", "in", "validate", "clean"} => journal = "moving-in"
  /\ pc[p] \in {"stage", "create", "open", "serving"} => journal = "none"
  /\ pc[p] = "write" => journal = "torn"

\* The restores are installed in the order they were staged.
Ordered ==
  /\ installed <= restores
  /\ journal \in {"staged", "moving-out"} => installed < restores
  /\ pc["restore"] \in {"create", "write"} => installed < restores
  /\ \A p \in Processes : pc[p] = "clean" => installed = restores
  /\ \A e \in Entries : dir[e] <= restores
  /\ Database \in holds[installed]

\* A stage that is journaled, or about to be, holds its whole archive.
Staging == journal \in {"staged", "moving-out"} \/ pc["restore"] \in {"create", "write"}

StageComplete == Staging =>
  /\ \A e \in holds[restores] : stage[e] = restores
  /\ \A e \in Moved : dir[e] # restores
  /\ Database \in holds[restores]

\* The stage holds nothing but that archive, and is gone once published.
StagePure ==
  /\ journal \in Phases \/ pc["restore"] \in {"create", "write"} =>
       \A e \in Moved : stage[e] \in {restores, Nothing}
  /\ journal = "moving-in" => Database \in holds[restores]
  /\ ~stageExists => \A e \in Moved : stage[e] = Nothing
  /\ \A p \in Processes : pc[p] = "validate" => ~stageExists
  /\ \A p \in Processes : pc[p] = "in" => \A e \in Moved : e \in todo \/ stage[e] = Nothing

\* A tool can leave a blank database in the place of one that was moved.
Absent(e) == dir[e] = Nothing \/ (e = Database /\ dir[e] = Blank)

\* What is moved out is moved out entirely before anything is moved in.
OutBeforeIn ==
  /\ \A p \in Processes : pc[p] = "out" => \A e \in Moved : e \in todo \/ Absent(e)
  /\ journal = "moving-in" => \A e \in Moved : dir[e] = restores \/ Absent(e)

\* Outside a restore, and from its validation on, one whole installation.
Settled == journal \notin Phases \/ installed = restores =>
  /\ \A e \in holds[installed] : dir[e] = installed
  /\ \A e \in Moved : dir[e] \in {installed, Nothing}

Journaled ==
  /\ TypeOK /\ OneInstaller /\ InPhase /\ Ordered /\ StageComplete /\ StagePure
  /\ OutBeforeIn /\ Settled /\ BothCopiesKept /\ CredentialsStay

\* Starting the host or a restore changes no file.
LEMMA StartHostKeeps ==
  ASSUME Journaled, StartHost
  PROVE  Journaled'
PROOF
<1>. USE DEF Processes, Phases, Moved, Nothing, Blank, Installations, Contents,
         files, process, maintenance, Goto, Advance, Refuse
<1>1. TypeOK'
  BY RestoreAssumption DEF Journaled, TypeOK, StartHost, Steps
<1>2. OneInstaller'
  BY DEF Journaled, TypeOK, OneInstaller, StartHost
<1>3. InPhase'
  BY DEF Journaled, TypeOK, InPhase, StartHost
<1>4. Ordered'
  BY RestoreAssumption DEF Journaled, TypeOK, Ordered, StartHost
<1>5. StageComplete'
  BY DEF Journaled, TypeOK, StageComplete, Staging, StartHost
<1>6. StagePure'
  BY DEF Journaled, TypeOK, StagePure, StartHost
<1>7. OutBeforeIn'
  BY DEF Journaled, TypeOK, OutBeforeIn, Absent, StartHost
<1>8. Settled'
  BY DEF Journaled, TypeOK, Settled, StartHost
<1>9. BothCopiesKept'
  BY DEF Journaled, TypeOK, BothCopiesKept, StartHost
<1>10. CredentialsStay'
  BY RestoreAssumption DEF Journaled, TypeOK, CredentialsStay, StartHost
<1>. QED
  BY <1>1, <1>2, <1>3, <1>4, <1>5, <1>6, <1>7, <1>8, <1>9, <1>10 DEF Journaled

LEMMA StartRestoreKeeps ==
  ASSUME Journaled, StartRestore
  PROVE  Journaled'
PROOF
<1>. USE DEF Processes, Phases, Moved, Nothing, Blank, Installations, Contents,
         files, process, maintenance, Goto, Advance, Refuse
<1>1. TypeOK'
  BY RestoreAssumption DEF Journaled, TypeOK, StartRestore, Steps
<1>2. OneInstaller'
  BY DEF Journaled, TypeOK, OneInstaller, StartRestore
<1>3. InPhase'
  BY DEF Journaled, TypeOK, InPhase, StartRestore
<1>4. Ordered'
  BY RestoreAssumption DEF Journaled, TypeOK, Ordered, StartRestore
<1>5. StageComplete'
  BY DEF Journaled, TypeOK, StageComplete, Staging, StartRestore
<1>6. StagePure'
  BY DEF Journaled, TypeOK, StagePure, StartRestore
<1>7. OutBeforeIn'
  BY DEF Journaled, TypeOK, OutBeforeIn, Absent, StartRestore
<1>8. Settled'
  BY DEF Journaled, TypeOK, Settled, StartRestore
<1>9. BothCopiesKept'
  BY DEF Journaled, TypeOK, BothCopiesKept, StartRestore
<1>10. CredentialsStay'
  BY RestoreAssumption DEF Journaled, TypeOK, CredentialsStay, StartRestore
<1>. QED
  BY <1>1, <1>2, <1>3, <1>4, <1>5, <1>6, <1>7, <1>8, <1>9, <1>10 DEF Journaled

\* Reading the journal only chooses the step to resume from.
LEMMA ReadJournalKeeps ==
  ASSUME Journaled, NEW p \in Processes, ReadJournal(p)
  PROVE  Journaled'
PROOF
<1>. USE DEF Processes, Phases, Moved, Nothing, Blank, Installations, Contents,
         files, process, maintenance, Goto, Advance, Refuse
<1>1. TypeOK'
  <2>1. UNCHANGED <<files, restores, installed, own, todo, maintenance, crashes>> /\ refused' \in BOOLEAN
    BY DEF Journaled, TypeOK, ReadJournal
  <2>2. pc' \in [Processes -> Steps]
    BY DEF Journaled, TypeOK, ReadJournal, Finished, Steps
  <2>. QED
    BY <2>1, <2>2 DEF Journaled, TypeOK
<1>2. OneInstaller'
  BY DEF Journaled, TypeOK, OneInstaller, ReadJournal, Finished
<1>3. InPhase'
  BY DEF Journaled, TypeOK, InPhase, ReadJournal, Finished
<1>4. Ordered'
  BY RestoreAssumption DEF Journaled, TypeOK, Ordered, ReadJournal, Finished
<1>5. StageComplete'
  BY DEF Journaled, TypeOK, StageComplete, Staging, ReadJournal, Finished
<1>6. StagePure'
  BY RestoreAssumption DEF Journaled, TypeOK, StagePure, InPhase, OneInstaller, ReadJournal,
     Finished
<1>7. OutBeforeIn'
  BY DEF Journaled, TypeOK, OutBeforeIn, Absent, ReadJournal, Finished
<1>8. Settled'
  BY DEF Journaled, TypeOK, Settled, ReadJournal, Finished
<1>9. BothCopiesKept'
  BY DEF Journaled, TypeOK, BothCopiesKept, ReadJournal, Finished
<1>10. CredentialsStay'
  BY RestoreAssumption DEF Journaled, TypeOK, CredentialsStay, ReadJournal, Finished
<1>. QED
  BY <1>1, <1>2, <1>3, <1>4, <1>5, <1>6, <1>7, <1>8, <1>9, <1>10 DEF Journaled

LEMMA PrepareKeeps ==
  ASSUME Journaled, NEW p \in Processes, Prepare(p)
  PROVE  Journaled'
PROOF
<1>. USE DEF Processes, Phases, Moved, Nothing, Blank, Installations, Contents,
         files, process, maintenance, Goto, Advance, Refuse
<1>1. TypeOK'
  BY RestoreAssumption DEF Journaled, TypeOK, Prepare, Steps
<1>2. OneInstaller'
  BY DEF Journaled, TypeOK, OneInstaller, Prepare
<1>3. InPhase'
  BY RestoreAssumption DEF Journaled, TypeOK, InPhase, OneInstaller, Prepare
<1>4. Ordered'
  BY RestoreAssumption DEF Journaled, TypeOK, Ordered, InPhase, OneInstaller, Prepare
<1>5. StageComplete'
  BY RestoreAssumption DEF Journaled, TypeOK, StageComplete, InPhase, OneInstaller, Staging,
     Prepare
<1>6. StagePure'
  BY RestoreAssumption DEF Journaled, TypeOK, StagePure, InPhase, OneInstaller, Prepare
<1>7. OutBeforeIn'
  BY DEF Journaled, TypeOK, OutBeforeIn, Absent, Prepare
<1>8. Settled'
  BY DEF Journaled, TypeOK, Settled, Prepare
<1>9. BothCopiesKept'
  BY RestoreAssumption DEF Journaled, TypeOK, BothCopiesKept, InPhase, OneInstaller, Prepare
<1>10. CredentialsStay'
  BY RestoreAssumption DEF Journaled, TypeOK, CredentialsStay, Prepare
<1>. QED
  BY <1>1, <1>2, <1>3, <1>4, <1>5, <1>6, <1>7, <1>8, <1>9, <1>10 DEF Journaled

LEMMA ListOutKeeps ==
  ASSUME Journaled, NEW p \in Processes, ListOut(p)
  PROVE  Journaled'
PROOF
<1>. USE DEF Processes, Phases, Moved, Nothing, Blank, Installations, Contents,
         files, process, maintenance, Goto, Advance, Refuse
<1>1. TypeOK'
  BY RestoreAssumption DEF Journaled, TypeOK, ListOut, Steps
<1>2. OneInstaller'
  BY DEF Journaled, TypeOK, OneInstaller, ListOut
<1>3. InPhase'
  BY DEF Journaled, TypeOK, InPhase, ListOut
<1>4. Ordered'
  BY RestoreAssumption DEF Journaled, TypeOK, Ordered, ListOut
<1>5. StageComplete'
  BY DEF Journaled, TypeOK, StageComplete, Staging, ListOut
<1>6. StagePure'
  BY RestoreAssumption DEF Journaled, TypeOK, StagePure, InPhase, OneInstaller, ListOut
<1>7. OutBeforeIn'
  BY DEF Journaled, TypeOK, OutBeforeIn, Absent, ListOut
<1>8. Settled'
  BY DEF Journaled, TypeOK, Settled, ListOut
<1>9. BothCopiesKept'
  BY DEF Journaled, TypeOK, BothCopiesKept, ListOut
<1>10. CredentialsStay'
  BY RestoreAssumption DEF Journaled, TypeOK, CredentialsStay, ListOut
<1>. QED
  BY <1>1, <1>2, <1>3, <1>4, <1>5, <1>6, <1>7, <1>8, <1>9, <1>10 DEF Journaled

\* An entry moved out is then in the previous copy and nowhere else.
LEMMA MoveOutKeeps ==
  ASSUME Journaled, NEW p \in Processes, NEW e \in Entries, MoveOut(p, e)
  PROVE  Journaled'
PROOF
<1>. USE DEF Processes, Phases, Moved, Nothing, Blank, Installations, Contents,
         files, process, maintenance, Goto, Advance, Refuse
<1>moves. \A d \in Entries :
            \/ dir'[d] = dir[d] /\ previous'[d] = previous[d]
            \/ /\ pc[p] = "out" /\ d \in todo /\ previous[d] = Nothing
               /\ previous'[d] = dir[d] /\ dir'[d] = Nothing
  BY DEF Journaled, TypeOK, MoveOut, First
<1>frame. /\ UNCHANGED <<stage, stageExists, journal, holds, restores, installed>>
          /\ pc[p] = "out" /\ \A q \in Processes : pc'[q] \in {pc[q], "down"}
  BY DEF Journaled, TypeOK, MoveOut, First
<1>1. TypeOK'
  <2>1. dir' \in [Entries -> Contents] /\ previous' \in [Entries -> Contents]
    BY DEF Journaled, TypeOK, MoveOut
  <2>2. pc' \in [Processes -> Steps] /\ todo' \subseteq Moved /\ refused' \in BOOLEAN
    BY DEF Journaled, TypeOK, MoveOut, Steps
  <2>3. UNCHANGED <<own, maintenance, crashes>>
    BY DEF MoveOut
  <2>. QED
    BY <1>frame, <2>1, <2>2, <2>3 DEF Journaled, TypeOK
<1>2. OneInstaller'
  BY DEF Journaled, TypeOK, OneInstaller, MoveOut, First
<1>3. InPhase'
  BY DEF Journaled, TypeOK, InPhase, MoveOut, First
<1>4. Ordered'
  BY <1>moves, <1>frame, RestoreAssumption DEF Journaled, TypeOK, Ordered, MoveOut, First
<1>5. StageComplete'
  BY <1>moves, <1>frame DEF Journaled, TypeOK, StageComplete, Staging
<1>6. StagePure'
  BY <1>moves, <1>frame, RestoreAssumption DEF Journaled, TypeOK, StagePure, InPhase,
     OneInstaller, MoveOut, First
<1>7. OutBeforeIn'
  BY DEF Journaled, TypeOK, OutBeforeIn, Absent, MoveOut, First
<1>8. Settled'
  BY <1>moves, <1>frame, RestoreAssumption DEF Journaled, TypeOK, Settled, InPhase,
     OneInstaller, Ordered, StageComplete, StagePure, Staging
<1>9. BothCopiesKept'
  BY <1>moves, <1>frame, RestoreAssumption DEF Journaled, TypeOK, BothCopiesKept, InPhase,
     OneInstaller, Ordered, StageComplete, StagePure, Staging
<1>10. CredentialsStay'
  BY <1>moves, <1>frame, RestoreAssumption DEF Journaled, TypeOK, CredentialsStay, MoveOut,
     First
<1>. QED
  BY <1>1, <1>2, <1>3, <1>4, <1>5, <1>6, <1>7, <1>8, <1>9, <1>10 DEF Journaled

LEMMA MovedOutKeeps ==
  ASSUME Journaled, NEW p \in Processes, MovedOut(p)
  PROVE  Journaled'
PROOF
<1>. USE DEF Processes, Phases, Moved, Nothing, Blank, Installations, Contents,
         files, process, maintenance, Goto, Advance, Refuse
<1>1. TypeOK'
  BY RestoreAssumption DEF Journaled, TypeOK, MovedOut, Steps
<1>2. OneInstaller'
  BY DEF Journaled, TypeOK, OneInstaller, MovedOut
<1>3. InPhase'
  BY RestoreAssumption DEF Journaled, TypeOK, InPhase, OneInstaller, MovedOut
<1>4. Ordered'
  BY RestoreAssumption DEF Journaled, TypeOK, Ordered, MovedOut
<1>5. StageComplete'
  BY DEF Journaled, TypeOK, StageComplete, Staging, MovedOut
<1>6. StagePure'
  BY RestoreAssumption DEF Journaled, TypeOK, StagePure, InPhase, OneInstaller, Ordered,
     StageComplete, Staging, MovedOut
<1>7. OutBeforeIn'
  BY DEF Journaled, TypeOK, OutBeforeIn, Absent, MovedOut
<1>8. Settled'
  BY DEF Journaled, TypeOK, Settled, MovedOut
<1>9. BothCopiesKept'
  BY RestoreAssumption DEF Journaled, TypeOK, BothCopiesKept, InPhase, OneInstaller, MovedOut
<1>10. CredentialsStay'
  BY RestoreAssumption DEF Journaled, TypeOK, CredentialsStay, MovedOut
<1>. QED
  BY <1>1, <1>2, <1>3, <1>4, <1>5, <1>6, <1>7, <1>8, <1>9, <1>10 DEF Journaled

LEMMA ListInKeeps ==
  ASSUME Journaled, NEW p \in Processes, ListIn(p)
  PROVE  Journaled'
PROOF
<1>. USE DEF Processes, Phases, Moved, Nothing, Blank, Installations, Contents,
         files, process, maintenance, Goto, Advance, Refuse
<1>1. TypeOK'
  BY RestoreAssumption DEF Journaled, TypeOK, ListIn, Steps
<1>2. OneInstaller'
  BY DEF Journaled, TypeOK, OneInstaller, ListIn
<1>3. InPhase'
  BY DEF Journaled, TypeOK, InPhase, ListIn
<1>4. Ordered'
  BY RestoreAssumption DEF Journaled, TypeOK, Ordered, ListIn
<1>5. StageComplete'
  BY DEF Journaled, TypeOK, StageComplete, Staging, ListIn
<1>6. StagePure'
  BY DEF Journaled, TypeOK, StagePure, ListIn
<1>7. OutBeforeIn'
  BY RestoreAssumption DEF Journaled, TypeOK, OutBeforeIn, InPhase, OneInstaller, Absent, ListIn
<1>8. Settled'
  BY DEF Journaled, TypeOK, Settled, ListIn
<1>9. BothCopiesKept'
  BY DEF Journaled, TypeOK, BothCopiesKept, ListIn
<1>10. CredentialsStay'
  BY RestoreAssumption DEF Journaled, TypeOK, CredentialsStay, ListIn
<1>. QED
  BY <1>1, <1>2, <1>3, <1>4, <1>5, <1>6, <1>7, <1>8, <1>9, <1>10 DEF Journaled

\* An entry moved in was in the stage and is then in the data directory.
LEMMA MoveInKeeps ==
  ASSUME Journaled, NEW p \in Processes, NEW e \in Entries, MoveIn(p, e)
  PROVE  Journaled'
PROOF
<1>. USE DEF Processes, Phases, Moved, Nothing, Blank, Installations, Contents,
         files, process, maintenance, Goto, Advance, Refuse
<1>moves. \A d \in Entries :
            \/ dir'[d] = dir[d] /\ stage'[d] = stage[d]
            \/ /\ pc[p] = "in" /\ d \in todo /\ dir[d] = Nothing
               /\ dir'[d] = stage[d] /\ stage'[d] = Nothing
  BY DEF Journaled, TypeOK, MoveIn, First
<1>frame. /\ UNCHANGED <<previous, stageExists, journal, holds, restores, installed>>
          /\ pc[p] = "in" /\ \A q \in Processes : pc'[q] \in {pc[q], "down"}
  BY DEF Journaled, TypeOK, MoveIn, First
<1>1. TypeOK'
  <2>1. dir' \in [Entries -> Contents] /\ stage' \in [Entries -> Contents]
    BY DEF Journaled, TypeOK, MoveIn
  <2>2. pc' \in [Processes -> Steps] /\ todo' \subseteq Moved /\ refused' \in BOOLEAN
    BY DEF Journaled, TypeOK, MoveIn, Steps
  <2>3. UNCHANGED <<own, maintenance, crashes>>
    BY DEF MoveIn
  <2>. QED
    BY <1>frame, <2>1, <2>2, <2>3 DEF Journaled, TypeOK
<1>2. OneInstaller'
  BY DEF Journaled, TypeOK, OneInstaller, MoveIn, First
<1>3. InPhase'
  BY DEF Journaled, TypeOK, InPhase, MoveIn, First
<1>4. Ordered'
  BY <1>moves, <1>frame, RestoreAssumption DEF Journaled, TypeOK, Ordered, InPhase,
     OneInstaller, StageComplete, StagePure, Staging, MoveIn, First
<1>5. StageComplete'
  BY <1>moves, <1>frame, RestoreAssumption DEF Journaled, TypeOK, StageComplete, InPhase,
     OneInstaller, Staging
<1>6. StagePure'
  BY <1>moves, <1>frame DEF Journaled, TypeOK, StagePure, MoveIn, First
<1>7. OutBeforeIn'
  BY <1>moves, <1>frame, RestoreAssumption DEF Journaled, TypeOK, OutBeforeIn, InPhase,
     OneInstaller, Ordered, StageComplete, StagePure, Staging, Absent, MoveIn, First
<1>8. Settled'
  BY <1>moves, <1>frame, RestoreAssumption DEF Journaled, TypeOK, Settled, InPhase,
     OneInstaller, Ordered, StageComplete, StagePure, Staging
<1>9. BothCopiesKept'
  BY <1>moves, <1>frame DEF Journaled, TypeOK, BothCopiesKept
<1>10. CredentialsStay'
  BY <1>moves, <1>frame, RestoreAssumption DEF Journaled, TypeOK, CredentialsStay, MoveIn, First
<1>. QED
  BY <1>1, <1>2, <1>3, <1>4, <1>5, <1>6, <1>7, <1>8, <1>9, <1>10 DEF Journaled

LEMMA MovedInKeeps ==
  ASSUME Journaled, NEW p \in Processes, MovedIn(p)
  PROVE  Journaled'
PROOF
<1>. USE DEF Processes, Phases, Moved, Nothing, Blank, Installations, Contents,
         files, process, maintenance, Goto, Advance, Refuse
<1>1. TypeOK'
  BY RestoreAssumption DEF Journaled, TypeOK, MovedIn, Steps
<1>2. OneInstaller'
  BY DEF Journaled, TypeOK, OneInstaller, MovedIn
<1>3. InPhase'
  BY DEF Journaled, TypeOK, InPhase, MovedIn
<1>4. Ordered'
  BY RestoreAssumption DEF Journaled, TypeOK, Ordered, MovedIn
<1>5. StageComplete'
  BY DEF Journaled, TypeOK, StageComplete, Staging, MovedIn
<1>6. StagePure'
  BY DEF Journaled, TypeOK, StagePure, MovedIn
<1>7. OutBeforeIn'
  BY DEF Journaled, TypeOK, OutBeforeIn, Absent, MovedIn
<1>8. Settled'
  BY DEF Journaled, TypeOK, Settled, MovedIn
<1>9. BothCopiesKept'
  BY DEF Journaled, TypeOK, BothCopiesKept, MovedIn
<1>10. CredentialsStay'
  BY RestoreAssumption DEF Journaled, TypeOK, CredentialsStay, MovedIn
<1>. QED
  BY <1>1, <1>2, <1>3, <1>4, <1>5, <1>6, <1>7, <1>8, <1>9, <1>10 DEF Journaled

\* What validation accepts is the whole archive, so the previous copy may go.
LEMMA ValidateKeeps ==
  ASSUME Journaled, NEW p \in Processes, Validate(p)
  PROVE  Journaled'
PROOF
<1>. USE DEF Processes, Phases, Moved, Nothing, Blank, Installations, Contents,
         files, process, maintenance, Goto, Advance, Refuse
<1>whole. /\ pc[p] = "validate" /\ journal = "moving-in" /\ Database \in holds[restores]
          /\ \A d \in holds[restores] : dir[d] = restores
          /\ \A d \in Moved : dir[d] \in {restores, Nothing}
  BY RestoreAssumption DEF Journaled, TypeOK, InPhase, StagePure, OutBeforeIn, Absent,
     BothCopiesKept, Validate
<1>frame. /\ UNCHANGED files /\ UNCHANGED restores
          /\ \/ installed' = restores /\ pc' = [pc EXCEPT ![p] = "clean"]
             \/ UNCHANGED installed /\ pc' = [pc EXCEPT ![p] = "down"]
  BY DEF Validate
<1>1. TypeOK'
  <2>1. UNCHANGED <<own, todo, maintenance, crashes>> /\ refused' \in BOOLEAN
    BY DEF Journaled, TypeOK, Validate
  <2>2. pc' \in [Processes -> Steps] /\ installed' \in Installations
    BY <1>frame DEF Journaled, TypeOK, Steps
  <2>. QED
    BY <1>frame, <2>1, <2>2 DEF Journaled, TypeOK
<1>2. OneInstaller'
  BY DEF Journaled, TypeOK, OneInstaller, Validate, Valid
<1>3. InPhase'
  BY <1>whole, <1>frame DEF Journaled, TypeOK, InPhase, Validate, Valid
<1>4. Ordered'
  BY <1>whole, <1>frame, RestoreAssumption DEF Journaled, TypeOK, Ordered, InPhase,
     OneInstaller, Validate, Valid
<1>5. StageComplete'
  BY <1>whole, <1>frame DEF Journaled, TypeOK, StageComplete, Staging, Validate, Valid
<1>6. StagePure'
  BY <1>whole, <1>frame DEF Journaled, TypeOK, StagePure, Validate, Valid
<1>7. OutBeforeIn'
  BY <1>whole, <1>frame DEF Journaled, TypeOK, OutBeforeIn, Absent, Validate, Valid
<1>8. Settled'
  BY <1>whole, <1>frame DEF Journaled, TypeOK, Settled
<1>9. BothCopiesKept'
  BY <1>whole, <1>frame DEF Journaled, TypeOK, BothCopiesKept
<1>10. CredentialsStay'
  BY RestoreAssumption DEF Journaled, TypeOK, CredentialsStay, Validate, Valid
<1>. QED
  BY <1>1, <1>2, <1>3, <1>4, <1>5, <1>6, <1>7, <1>8, <1>9, <1>10 DEF Journaled

LEMMA RemovePreviousKeeps ==
  ASSUME Journaled, NEW p \in Processes, NEW e \in Entries, RemovePrevious(p, e)
  PROVE  Journaled'
PROOF
<1>. USE DEF Processes, Phases, Moved, Nothing, Blank, Installations, Contents,
         files, process, maintenance, Goto, Advance, Refuse
<1>1. TypeOK'
  BY RestoreAssumption DEF Journaled, TypeOK, RemovePrevious, Steps
<1>2. OneInstaller'
  BY DEF Journaled, TypeOK, OneInstaller, RemovePrevious
<1>3. InPhase'
  BY DEF Journaled, TypeOK, InPhase, RemovePrevious
<1>4. Ordered'
  BY RestoreAssumption DEF Journaled, TypeOK, Ordered, RemovePrevious
<1>5. StageComplete'
  BY DEF Journaled, TypeOK, StageComplete, Staging, RemovePrevious
<1>6. StagePure'
  BY DEF Journaled, TypeOK, StagePure, RemovePrevious
<1>7. OutBeforeIn'
  BY DEF Journaled, TypeOK, OutBeforeIn, Absent, RemovePrevious
<1>8. Settled'
  BY DEF Journaled, TypeOK, Settled, RemovePrevious
<1>9. BothCopiesKept'
  BY RestoreAssumption DEF Journaled, TypeOK, BothCopiesKept, InPhase, OneInstaller, Ordered,
     StageComplete, StagePure, Staging, RemovePrevious
<1>10. CredentialsStay'
  BY RestoreAssumption DEF Journaled, TypeOK, CredentialsStay, RemovePrevious
<1>. QED
  BY <1>1, <1>2, <1>3, <1>4, <1>5, <1>6, <1>7, <1>8, <1>9, <1>10 DEF Journaled

LEMMA RemoveJournalKeeps ==
  ASSUME Journaled, NEW p \in Processes, RemoveJournal(p)
  PROVE  Journaled'
PROOF
<1>. USE DEF Processes, Phases, Moved, Nothing, Blank, Installations, Contents,
         files, process, maintenance, Goto, Advance, Refuse
<1>1. TypeOK'
  BY RestoreAssumption DEF Journaled, TypeOK, RemoveJournal, Finished, Empty, Steps
<1>2. OneInstaller'
  BY DEF Journaled, TypeOK, OneInstaller, RemoveJournal, Finished, Empty
<1>3. InPhase'
  BY RestoreAssumption DEF Journaled, TypeOK, InPhase, OneInstaller, RemoveJournal, Finished,
     Empty
<1>4. Ordered'
  BY RestoreAssumption DEF Journaled, TypeOK, Ordered, RemoveJournal, Finished, Empty
<1>5. StageComplete'
  BY DEF Journaled, TypeOK, StageComplete, Staging, RemoveJournal, Finished, Empty
<1>6. StagePure'
  BY DEF Journaled, TypeOK, StagePure, RemoveJournal, Finished, Empty
<1>7. OutBeforeIn'
  BY DEF Journaled, TypeOK, OutBeforeIn, Absent, RemoveJournal, Finished, Empty
<1>8. Settled'
  BY RestoreAssumption DEF Journaled, TypeOK, Settled, InPhase, OneInstaller, Ordered,
     StageComplete, StagePure, Staging, RemoveJournal, Finished, Empty
<1>9. BothCopiesKept'
  BY DEF Journaled, TypeOK, BothCopiesKept, RemoveJournal, Finished, Empty
<1>10. CredentialsStay'
  BY RestoreAssumption DEF Journaled, TypeOK, CredentialsStay, RemoveJournal, Finished, Empty
<1>. QED
  BY <1>1, <1>2, <1>3, <1>4, <1>5, <1>6, <1>7, <1>8, <1>9, <1>10 DEF Journaled

\* A new archive is staged beside a settled installation.
LEMMA StageArchiveKeeps ==
  ASSUME Journaled, StageArchive
  PROVE  Journaled'
PROOF
<1>. USE DEF Processes, Phases, Moved, Nothing, Blank, Installations, Contents,
         files, process, maintenance, Goto, Advance, Refuse
<1>frame. /\ UNCHANGED <<dir, previous, journal, installed, own, todo, refused, maintenance, crashes>>
          /\ pc["restore"] = "stage" /\ pc["host"] = "down" /\ journal = "none"
  BY DEF Journaled, TypeOK, OneInstaller, InPhase, StageArchive
<1>rejected. ASSUME Goto("restore", "down"), UNCHANGED <<restores, holds, stage, stageExists>>
             PROVE  Journaled'
  <2>1. TypeOK'
    BY <1>frame, <1>rejected DEF Journaled, TypeOK, Steps
  <2>2. OneInstaller'
    BY <1>frame, <1>rejected DEF Journaled, TypeOK, OneInstaller
  <2>3. InPhase'
    BY <1>frame, <1>rejected DEF Journaled, TypeOK, InPhase
  <2>4. Ordered'
    BY <1>frame, <1>rejected DEF Journaled, TypeOK, Ordered
  <2>5. StageComplete'
    BY <1>frame, <1>rejected DEF Journaled, TypeOK, StageComplete, Staging
  <2>6. StagePure'
    BY <1>frame, <1>rejected DEF Journaled, TypeOK, StagePure
  <2>7. OutBeforeIn'
    BY <1>frame, <1>rejected DEF Journaled, TypeOK, OutBeforeIn, Absent
  <2>8. Settled'
    BY <1>frame, <1>rejected DEF Journaled, TypeOK, Settled
  <2>9. BothCopiesKept'
    BY <1>frame, <1>rejected DEF Journaled, TypeOK, BothCopiesKept
  <2>10. CredentialsStay'
    BY <1>frame, <1>rejected DEF Journaled, TypeOK, CredentialsStay
  <2>. QED
    BY <2>1, <2>2, <2>3, <2>4, <2>5, <2>6, <2>7, <2>8, <2>9, <2>10 DEF Journaled
<1>staged. ASSUME NEW A \in Archives, restores < MaxRestores, restores' = restores + 1,
                  holds' = [holds EXCEPT ![restores + 1] = A],
                  stage' = [e \in Entries |-> IF e \in A THEN restores + 1 ELSE Nothing],
                  stageExists' = TRUE, Goto("restore", "create")
           PROVE  Journaled'
  <2>new. /\ restores + 1 \in Installations /\ A \subseteq Moved /\ Database \in A
          /\ holds' \in [Installations -> SUBSET Moved] /\ holds'[restores'] = A
          /\ installed <= restores /\ holds'[installed] = holds[installed]
    BY <1>staged, RestoreAssumption DEF Journaled, TypeOK, Ordered
  <2>old. /\ \A e \in Entries : dir[e] <= restores
          /\ \A e \in holds[installed] : dir[e] = installed
          /\ \A e \in Moved : dir[e] \in {installed, Nothing}
          /\ Database \in holds[installed] /\ dir \in [Entries -> Contents]
          /\ restores \in Nat /\ installed \in Nat
    BY <1>frame, RestoreAssumption DEF Journaled, TypeOK, Ordered, Settled
  <2>1. TypeOK'
    BY <1>frame, <1>staged, <2>new DEF Journaled, TypeOK, Steps
  <2>2. OneInstaller'
    BY <1>frame, <1>staged DEF Journaled, TypeOK, OneInstaller
  <2>3. InPhase'
    BY <1>frame, <1>staged DEF Journaled, TypeOK, InPhase
  <2>4. Ordered'
    BY <1>frame, <1>staged, <2>new, <2>old DEF Journaled, TypeOK, Ordered
  <2>5. StageComplete'
    BY <1>frame, <1>staged, <2>new, <2>old DEF Journaled, TypeOK, StageComplete, Staging
  <2>6. StagePure'
    BY <1>frame, <1>staged, <2>new DEF Journaled, TypeOK, StagePure
  <2>7. OutBeforeIn'
    BY <1>frame, <1>staged DEF Journaled, TypeOK, OutBeforeIn, Absent
  <2>8. Settled'
    BY <1>frame, <1>staged, <2>new, <2>old DEF Journaled, TypeOK, Settled
  <2>9. BothCopiesKept'
    BY <1>frame, <1>staged DEF Journaled, TypeOK, BothCopiesKept
  <2>10. CredentialsStay'
    BY <1>frame, <1>staged DEF Journaled, TypeOK, CredentialsStay
  <2>. QED
    BY <2>1, <2>2, <2>3, <2>4, <2>5, <2>6, <2>7, <2>8, <2>9, <2>10 DEF Journaled
<1>. QED
  BY <1>rejected, <1>staged DEF StageArchive

LEMMA CreateJournalKeeps ==
  ASSUME Journaled, CreateJournal
  PROVE  Journaled'
PROOF
<1>. USE DEF Processes, Phases, Moved, Nothing, Blank, Installations, Contents,
         files, process, maintenance, Goto, Advance, Refuse
<1>1. TypeOK'
  BY RestoreAssumption DEF Journaled, TypeOK, CreateJournal, Steps
<1>2. OneInstaller'
  BY DEF Journaled, TypeOK, OneInstaller, CreateJournal
<1>3. InPhase'
  BY RestoreAssumption DEF Journaled, TypeOK, InPhase, OneInstaller, CreateJournal
<1>4. Ordered'
  BY RestoreAssumption DEF Journaled, TypeOK, Ordered, CreateJournal
<1>5. StageComplete'
  BY DEF Journaled, TypeOK, StageComplete, Staging, CreateJournal
<1>6. StagePure'
  BY DEF Journaled, TypeOK, StagePure, CreateJournal
<1>7. OutBeforeIn'
  BY DEF Journaled, TypeOK, OutBeforeIn, Absent, CreateJournal
<1>8. Settled'
  BY DEF Journaled, TypeOK, Settled, CreateJournal
<1>9. BothCopiesKept'
  BY DEF Journaled, TypeOK, BothCopiesKept, CreateJournal
<1>10. CredentialsStay'
  BY RestoreAssumption DEF Journaled, TypeOK, CredentialsStay, CreateJournal
<1>. QED
  BY <1>1, <1>2, <1>3, <1>4, <1>5, <1>6, <1>7, <1>8, <1>9, <1>10 DEF Journaled

\* The complete journal makes the staged archive the one to install.
LEMMA WriteJournalKeeps ==
  ASSUME Journaled, WriteJournal
  PROVE  Journaled'
PROOF
<1>. USE DEF Processes, Phases, Moved, Nothing, Blank, Installations, Contents,
         files, process, maintenance, Goto, Advance, Refuse
<1>1. TypeOK'
  BY RestoreAssumption DEF Journaled, TypeOK, WriteJournal, Empty, Steps
<1>2. OneInstaller'
  BY DEF Journaled, TypeOK, OneInstaller, WriteJournal, Empty
<1>3. InPhase'
  BY RestoreAssumption DEF Journaled, TypeOK, InPhase, OneInstaller, WriteJournal, Empty
<1>4. Ordered'
  BY RestoreAssumption DEF Journaled, TypeOK, Ordered, WriteJournal, Empty
<1>5. StageComplete'
  BY DEF Journaled, TypeOK, StageComplete, Staging, WriteJournal, Empty
<1>6. StagePure'
  BY DEF Journaled, TypeOK, StagePure, WriteJournal, Empty
<1>7. OutBeforeIn'
  BY DEF Journaled, TypeOK, OutBeforeIn, Absent, WriteJournal, Empty
<1>8. Settled'
  BY RestoreAssumption DEF Journaled, TypeOK, Settled, InPhase, OneInstaller, WriteJournal,
     Empty
<1>9. BothCopiesKept'
  BY RestoreAssumption DEF Journaled, TypeOK, BothCopiesKept, OneInstaller, InPhase, Ordered,
     StageComplete, StagePure, OutBeforeIn, Settled, CredentialsStay, Staging, Absent,
     WriteJournal, Empty
<1>10. CredentialsStay'
  BY RestoreAssumption DEF Journaled, TypeOK, CredentialsStay, WriteJournal, Empty
<1>. QED
  BY <1>1, <1>2, <1>3, <1>4, <1>5, <1>6, <1>7, <1>8, <1>9, <1>10 DEF Journaled

\* The host opens a settled installation and fills in what it lacks.
LEMMA OpenHostKeeps ==
  ASSUME Journaled, OpenHost
  PROVE  Journaled'
PROOF
<1>. USE DEF Processes, Phases, Moved, Nothing, Blank, Installations, Contents,
         files, process, maintenance, Goto, Advance, Refuse
<1>1. TypeOK'
  BY RestoreAssumption DEF Journaled, TypeOK, OpenHost, Steps
<1>2. OneInstaller'
  BY DEF Journaled, TypeOK, OneInstaller, OpenHost
<1>3. InPhase'
  BY DEF Journaled, TypeOK, InPhase, OpenHost
<1>4. Ordered'
  BY RestoreAssumption DEF Journaled, TypeOK, Ordered, OpenHost
<1>5. StageComplete'
  BY DEF Journaled, TypeOK, StageComplete, Staging, OpenHost
<1>6. StagePure'
  BY DEF Journaled, TypeOK, StagePure, OpenHost
<1>7. OutBeforeIn'
  BY RestoreAssumption DEF Journaled, TypeOK, OutBeforeIn, InPhase, OneInstaller, Absent,
     OpenHost
<1>8. Settled'
  BY RestoreAssumption DEF Journaled, TypeOK, Settled, InPhase, OneInstaller, Ordered,
     StageComplete, StagePure, Staging, OpenHost
<1>9. BothCopiesKept'
  BY RestoreAssumption DEF Journaled, TypeOK, BothCopiesKept, InPhase, OneInstaller, OpenHost
<1>10. CredentialsStay'
  BY RestoreAssumption DEF Journaled, TypeOK, CredentialsStay, OpenHost
<1>. QED
  BY <1>1, <1>2, <1>3, <1>4, <1>5, <1>6, <1>7, <1>8, <1>9, <1>10 DEF Journaled

LEMMA StopHostKeeps ==
  ASSUME Journaled, StopHost
  PROVE  Journaled'
PROOF
<1>. USE DEF Processes, Phases, Moved, Nothing, Blank, Installations, Contents,
         files, process, maintenance, Goto, Advance, Refuse
<1>1. TypeOK'
  BY RestoreAssumption DEF Journaled, TypeOK, StopHost, Steps
<1>2. OneInstaller'
  BY DEF Journaled, TypeOK, OneInstaller, StopHost
<1>3. InPhase'
  BY DEF Journaled, TypeOK, InPhase, StopHost
<1>4. Ordered'
  BY RestoreAssumption DEF Journaled, TypeOK, Ordered, StopHost
<1>5. StageComplete'
  BY DEF Journaled, TypeOK, StageComplete, Staging, StopHost
<1>6. StagePure'
  BY DEF Journaled, TypeOK, StagePure, StopHost
<1>7. OutBeforeIn'
  BY DEF Journaled, TypeOK, OutBeforeIn, Absent, StopHost
<1>8. Settled'
  BY DEF Journaled, TypeOK, Settled, StopHost
<1>9. BothCopiesKept'
  BY DEF Journaled, TypeOK, BothCopiesKept, StopHost
<1>10. CredentialsStay'
  BY RestoreAssumption DEF Journaled, TypeOK, CredentialsStay, StopHost
<1>. QED
  BY <1>1, <1>2, <1>3, <1>4, <1>5, <1>6, <1>7, <1>8, <1>9, <1>10 DEF Journaled

\* A tool can only create the database where there is none.
LEMMA ToolKeeps ==
  ASSUME Journaled, Tool
  PROVE  Journaled'
PROOF
<1>. USE DEF Processes, Phases, Moved, Nothing, Blank, Installations, Contents,
         files, process, maintenance, Goto, Advance, Refuse
<1>moves. \A d \in Entries : \/ dir'[d] = dir[d]
                             \/ d = Database /\ dir[d] = Nothing /\ dir'[d] = Blank
  <2>1. CASE ToolOpens
    BY <2>1, RestoreAssumption DEF Journaled, TypeOK, ToolOpens
  <2>2. CASE ToolLooks \/ ToolLocks \/ ToolEnds
    BY <2>2 DEF ToolLooks, ToolLocks, ToolEnds
  <2>. QED
    BY <2>1, <2>2 DEF Tool
<1>frame. UNCHANGED <<stage, previous, stageExists, journal, holds, restores, installed, process>>
  BY DEF Tool, ToolLooks, ToolLocks, ToolOpens, ToolEnds
<1>1. TypeOK'
  <2>1. dir' \in [Entries -> Contents]
    BY DEF Journaled, TypeOK, Tool, ToolLooks, ToolLocks, ToolOpens, ToolEnds
  <2>2. tool' \in {"off", "looked", "locked", "open"} /\ alone' \in BOOLEAN /\ tools' \in 0..MaxTools
    BY RestoreAssumption DEF Journaled, TypeOK, Tool, ToolLooks, ToolLocks, ToolOpens, ToolEnds
  <2>3. UNCHANGED crashes
    BY DEF Tool, ToolLooks, ToolLocks, ToolOpens, ToolEnds
  <2>. QED
    BY <1>frame, <2>1, <2>2, <2>3 DEF Journaled, TypeOK
<1>2. OneInstaller'
  BY <1>moves, <1>frame DEF Journaled, TypeOK, OneInstaller
<1>3. InPhase'
  BY <1>moves, <1>frame DEF Journaled, TypeOK, InPhase
<1>4. Ordered'
  BY <1>moves, <1>frame, RestoreAssumption DEF Journaled, TypeOK, Ordered
<1>5. StageComplete'
  BY <1>moves, <1>frame DEF Journaled, TypeOK, StageComplete, Staging
<1>6. StagePure'
  BY <1>moves, <1>frame DEF Journaled, TypeOK, StagePure
<1>7. OutBeforeIn'
  BY <1>moves, <1>frame DEF Journaled, TypeOK, OutBeforeIn, Absent
<1>8. Settled'
  BY <1>moves, <1>frame, RestoreAssumption DEF Journaled, TypeOK, Settled, InPhase,
     OneInstaller, Ordered, StageComplete, StagePure, Staging
<1>9. BothCopiesKept'
  BY <1>moves, <1>frame DEF Journaled, TypeOK, BothCopiesKept
<1>10. CredentialsStay'
  BY <1>moves, <1>frame, RestoreAssumption DEF Journaled, TypeOK, CredentialsStay
<1>. QED
  BY <1>1, <1>2, <1>3, <1>4, <1>5, <1>6, <1>7, <1>8, <1>9, <1>10 DEF Journaled

LEMMA CrashKeeps ==
  ASSUME Journaled, NEW p \in Processes, Crash(p)
  PROVE  Journaled'
PROOF
<1>. USE DEF Processes, Phases, Moved, Nothing, Blank, Installations, Contents,
         files, process, maintenance, Goto, Advance, Refuse
<1>1. TypeOK'
  BY RestoreAssumption DEF Journaled, TypeOK, Crash, Steps
<1>2. OneInstaller'
  BY DEF Journaled, TypeOK, OneInstaller, Crash
<1>3. InPhase'
  BY DEF Journaled, TypeOK, InPhase, Crash
<1>4. Ordered'
  BY RestoreAssumption DEF Journaled, TypeOK, Ordered, Crash
<1>5. StageComplete'
  BY DEF Journaled, TypeOK, StageComplete, Staging, Crash
<1>6. StagePure'
  BY DEF Journaled, TypeOK, StagePure, Crash
<1>7. OutBeforeIn'
  BY DEF Journaled, TypeOK, OutBeforeIn, Absent, Crash
<1>8. Settled'
  BY DEF Journaled, TypeOK, Settled, Crash
<1>9. BothCopiesKept'
  BY DEF Journaled, TypeOK, BothCopiesKept, Crash
<1>10. CredentialsStay'
  BY RestoreAssumption DEF Journaled, TypeOK, CredentialsStay, Crash
<1>. QED
  BY <1>1, <1>2, <1>3, <1>4, <1>5, <1>6, <1>7, <1>8, <1>9, <1>10 DEF Journaled

LEMMA InitJournaled == Init => Journaled
PROOF
<1>. USE DEF Processes, Phases, Moved, Nothing, Blank, Installations, Contents
<1>. SUFFICES ASSUME Init PROVE Journaled
  OBVIOUS
<1>a. PICK A \in SUBSET Moved :
       /\ Database \in A
       /\ holds = [i \in Installations |-> IF i = 0 THEN A ELSE {}]
       /\ dir = [e \in Entries |-> IF e \in A \cup {Credentials} THEN 0 ELSE Nothing]
  BY DEF Init
<1>fresh. /\ installed = 0 /\ restores = 0 /\ journal = "none" /\ stageExists = FALSE
          /\ stage = Empty /\ previous = Empty /\ todo = {}
          /\ pc = [p \in Processes |-> "down"]
  BY DEF Init
<1>first. 0 \in Installations /\ holds[0] = A /\ Database \in A /\ A \subseteq Moved
  BY <1>a, RestoreAssumption
<1>there. /\ \A e \in Entries : dir[e] \in {0, Nothing}
          /\ \A e \in A : dir[e] = 0
          /\ dir[Credentials] = 0
  BY <1>a, RestoreAssumption
<1>1. TypeOK
  <2>1. /\ dir \in [Entries -> Contents] /\ holds \in [Installations -> SUBSET Moved]
        /\ stage \in [Entries -> Contents] /\ previous \in [Entries -> Contents]
    BY <1>a, <1>fresh, <1>first DEF Empty
  <2>2. pc \in [Processes -> Steps]
    BY <1>fresh DEF Steps
  <2>3. /\ own \in BOOLEAN /\ refused \in BOOLEAN /\ tool = "off" /\ alone \in BOOLEAN
        /\ crashes = 0 /\ tools = 0
    BY DEF Init
  <2>. QED
    <3>1. crashes \in 0..MaxCrashes /\ tools \in 0..MaxTools
      BY <2>3, RestoreAssumption
    <3>. QED
      BY <1>fresh, <1>first, <2>1, <2>2, <2>3, <3>1 DEF TypeOK
<1>2. OneInstaller /\ InPhase /\ CredentialsStay
  BY <1>fresh, <1>there DEF OneInstaller, InPhase, CredentialsStay
<1>3. Ordered
  <2>1. \A e \in Entries : dir[e] <= 0
    <3>. TAKE e \in Entries
    <3>1. CASE dir[e] = 0
      BY <3>1
    <3>2. CASE dir[e] = Nothing
      BY <3>2
    <3>. QED
      BY <3>1, <3>2, <1>there
  <2>2. \A p \in Processes : pc[p] = "down"
    BY <1>fresh
  <2>. QED
    BY <1>fresh, <1>first, <2>1, <2>2 DEF Ordered
<1>4. StageComplete /\ StagePure
  BY <1>fresh, RestoreAssumption DEF StageComplete, Staging, StagePure, Empty
<1>5. OutBeforeIn /\ Settled /\ BothCopiesKept
  BY <1>fresh, <1>first, <1>there DEF OutBeforeIn, Settled, BothCopiesKept
<1>. QED
  BY <1>1, <1>2, <1>3, <1>4, <1>5 DEF Journaled

LEMMA NextJournaled == Journaled /\ [Next]_vars => Journaled'
PROOF
<1>. SUFFICES ASSUME Journaled, [Next]_vars PROVE Journaled'
  OBVIOUS
<1>1. CASE UNCHANGED vars
  BY <1>1 DEF vars, files, process, maintenance, Journaled, TypeOK, OneInstaller, InPhase,
     Ordered,
              StageComplete, Staging, StagePure, OutBeforeIn, Absent, Settled, BothCopiesKept, CredentialsStay
<1>2. ASSUME NEW p \in Processes, FinishStaged(p) PROVE Journaled'
  BY <1>2, ReadJournalKeeps, PrepareKeeps, ListOutKeeps, MoveOutKeeps, MovedOutKeeps,
     ListInKeeps,
     MoveInKeeps, MovedInKeeps, ValidateKeeps, RemovePreviousKeeps, RemoveJournalKeeps DEF FinishStaged
<1>3. CASE Stage
  BY <1>3, StageArchiveKeeps, CreateJournalKeeps, WriteJournalKeeps DEF Stage
<1>4. CASE StartHost \/ StartRestore \/ OpenHost \/ StopHost \/ Tool
  BY <1>4, StartHostKeeps, StartRestoreKeeps, OpenHostKeeps, StopHostKeeps, ToolKeeps
<1>5. ASSUME NEW p \in Processes, Crash(p) PROVE Journaled'
  BY <1>5, CrashKeeps
<1>. QED
  BY <1>1, <1>2, <1>3, <1>4, <1>5 DEF Next, Processes

\* The variables keep their types: every phase, step and directory content the
\* module names is one the code can be in.
THEOREM RestoreTypeCorrect == Spec => []TypeOK
PROOF
<1>. QED
  BY InitJournaled, NextJournaled, PTL DEF Spec, Journaled

\* Whatever is killed and wherever, an interrupted restore of any archive has
\* both installations complete on disk until the new one is validated in place.
THEOREM RestoreKeepsBothCopies == Spec => []BothCopiesKept
PROOF
<1>. QED
  BY InitJournaled, NextJournaled, PTL DEF Spec, Journaled

\* The server's credentials stay in the data directory through every restore.
THEOREM RestoreKeepsCredentials == Spec => []CredentialsStay
PROOF
<1>. QED
  BY InitJournaled, NextJournaled, PTL DEF Spec, Journaled

\* What the host serves is the installation chosen, by the invariant.
ServesChosen ==
  /\ Chosen \in Installations /\ Chosen # Nothing
  /\ Served = IF pc["host"] = "serving" THEN Chosen ELSE Nothing

LEMMA ServedIsChosen == Journaled => ServesChosen
PROOF
<1>. USE DEF Processes, Phases, Moved, Nothing, Installations
<1>. SUFFICES ASSUME Journaled PROVE ServesChosen
  OBVIOUS
<1>1. Chosen \in Installations /\ Chosen # Nothing
  BY RestoreAssumption DEF Journaled, TypeOK, Chosen
<1>2. CASE pc["host"] = "serving"
  <2>1. journal = "none" /\ Chosen = installed /\ Database \in holds[installed]
    BY <1>2 DEF Journaled, InPhase, Ordered, Chosen
  <2>2. dir[Database] = installed /\ Whole(installed)
    BY <2>1 DEF Journaled, Settled, Whole
  <2>. QED
    BY <1>1, <1>2, <2>1, <2>2 DEF Served, ServesChosen
<1>. QED
  BY <1>1, <1>2 DEF Served, ServesChosen

LEMMA ServedStaysChosen == Journaled' => ServesChosen'
PROOF
<1>. QED
  BY ServedIsChosen, PTL

\* Only the complete journal changes which installation is chosen, and only the
\* host's own steps whether it serves.
LEMMA ChosenSteps ==
  ASSUME Journaled, [Next]_vars
  PROVE  \/ /\ WriteJournal /\ Chosen' > Chosen
            /\ pc["host"] # "serving" /\ pc'["host"] # "serving"
         \/ /\ Chosen' = Chosen
            /\ pc'["host"] = pc["host"] \/ "serving" \notin {pc["host"], pc'["host"]}
         \/ /\ Chosen' = Chosen
            /\ pc["host"] = "open" /\ pc'["host"] = "serving"
         \/ /\ Chosen' = Chosen
            /\ pc["host"] = "serving" /\ pc'["host"] = "down"
PROOF
<1>. USE DEF Processes, Phases, files, process, maintenance, Goto, Advance, Refuse
<1>1. CASE UNCHANGED vars
  BY <1>1 DEF vars, Chosen
<1>2. ASSUME NEW p \in Processes, FinishStaged(p)
      PROVE  Chosen' = Chosen /\ "serving" \notin {pc[p], pc'[p]}
                              /\ \A q \in Processes \ {p} : pc'[q] = pc[q]
  <2>1. CASE ReadJournal(p) \/ ListOut(p) \/ ListIn(p)
    BY <2>1 DEF Journaled, TypeOK, ReadJournal, ListOut, ListIn, Finished, Chosen
  <2>2. CASE Prepare(p) \/ MovedOut(p) \/ MovedIn(p)
    BY <2>2 DEF Journaled, TypeOK, InPhase, Prepare, MovedOut, MovedIn, Chosen
  <2>3. CASE Validate(p) \/ RemoveJournal(p)
    BY <2>3 DEF Journaled, TypeOK, InPhase, Ordered, Validate, RemoveJournal, Finished, Chosen
  <2>4. ASSUME NEW e \in Entries, MoveOut(p, e) \/ MoveIn(p, e) \/ RemovePrevious(p, e)
        PROVE  Chosen' = Chosen /\ "serving" \notin {pc[p], pc'[p]}
                                /\ \A q \in Processes \ {p} : pc'[q] = pc[q]
    BY <2>4 DEF Journaled, TypeOK, MoveOut, MoveIn, RemovePrevious, Chosen
  <2>. QED
    BY <1>2, <2>1, <2>2, <2>3, <2>4 DEF FinishStaged
<1>3. CASE StageArchive \/ CreateJournal
  BY <1>3 DEF Journaled, TypeOK, InPhase, StageArchive, CreateJournal, Chosen
<1>4. CASE WriteJournal
  BY <1>4 DEF Journaled, TypeOK, OneInstaller, InPhase, Ordered, WriteJournal, Chosen
<1>5. CASE StartHost \/ StartRestore \/ OpenHost \/ StopHost
  BY <1>5 DEF Journaled, TypeOK, StartHost, StartRestore, OpenHost, StopHost, Chosen
<1>6. CASE Tool
  BY <1>6 DEF Tool, ToolLooks, ToolLocks, ToolOpens, ToolEnds, Chosen
<1>7. ASSUME NEW p \in Processes, Crash(p)
      PROVE  Chosen' = Chosen /\ pc'[p] = "down" /\ \A q \in Processes \ {p} : pc'[q] = pc[q]
  BY <1>7 DEF Journaled, TypeOK, Crash, Chosen
<1>. QED
  BY <1>1, <1>2, <1>3, <1>4, <1>5, <1>6, <1>7 DEF Next, Stage

\* Every file operation, crash and start maps to a step of the promise: the
\* complete journal is Restore, opening the host is Serve, and its end is Stop.
LEMMA PromiseStep ==
  Journaled /\ Journaled' /\ [Next]_vars => [Promise!Next]_(Promise!vars)
PROOF
<1>. SUFFICES ASSUME Journaled, Journaled', [Next]_vars
              PROVE  [Promise!Next]_(Promise!vars)
  OBVIOUS
<1>1. ServesChosen
  BY ServedIsChosen
<1>2. ServesChosen'
  BY ServedStaysChosen
<1>. USE DEF ServesChosen
<1>3. CASE /\ Chosen' > Chosen
           /\ pc["host"] # "serving" /\ pc'["host"] # "serving"
  BY <1>1, <1>2, <1>3 DEF Promise!Next, Promise!Restore
<1>4. CASE /\ Chosen' = Chosen
           /\ pc'["host"] = pc["host"] \/ "serving" \notin {pc["host"], pc'["host"]}
  BY <1>1, <1>2, <1>4 DEF Promise!vars
<1>5. CASE Chosen' = Chosen /\ pc["host"] = "open" /\ pc'["host"] = "serving"
  BY <1>1, <1>2, <1>5 DEF Promise!Next, Promise!Serve
<1>6. CASE Chosen' = Chosen /\ pc["host"] = "serving" /\ pc'["host"] = "down"
  BY <1>1, <1>2, <1>6 DEF Promise!Next, Promise!Stop
<1>. QED
  BY ChosenSteps, <1>3, <1>4, <1>5, <1>6

\* The journaled move implements the atomic installation, for every archive and
\* any number of crashes: each start of the host serves the one installation
\* that the last complete journal names.
THEOREM RestoreKeepsPromise == Spec => KeepsPromise
PROOF
<1>1. Init => Promise!Init
  <2>. SUFFICES ASSUME Init PROVE Promise!Init
    OBVIOUS
  <2>1. Journaled /\ pc["host"] # "serving"
    BY InitJournaled DEF Init
  <2>. QED
    BY <2>1, ServedIsChosen DEF ServesChosen, Promise!Init
<1>. QED
  BY <1>1, InitJournaled, NextJournaled, PromiseStep, PTL DEF Spec, KeepsPromise, Promise!Spec



-----------------------------------------------------------------------------
(***************************************************************************)
(* Recovery points.                                                        *)
(***************************************************************************)
Reasons == {"save", "download", "pre-restore", "manual", "imported"}
Points == [id : Nat, reason : Reasons, image : [data : Nat, build : Nat]]
Hosts == [revision : Nat, data : [Scopes -> Nat], lives : Nat, build : Nat, last : Nat,
          points : [Scopes -> SUBSET Points], due : [Scopes -> BOOLEAN]]

\* IDs are given once.
Numbered(r) ==
  \A p \in Scopes :
    /\ IsFiniteSet(r.points[p])
    /\ \A x \in r.points[p] : x.id <= r.last
    /\ \A x, y \in r.points[p] : x.id = y.id => x = y

HostInv(r) == r \in Hosts /\ Numbered(r)

\* What was read at a revision is what the host has while it has that revision.
Read(r, revision, points, data) ==
  /\ revision \in Nat /\ revision <= r.revision
  /\ revision = r.revision => points = r.points /\ data = r.data

\* One change of the host to another: what it holds stays, or the revision grows.
Moves(r, s) ==
  /\ r.revision <= s.revision
  /\ s.revision = r.revision => s.points = r.points /\ s.data = r.data

LEMMA MovesTwice ==
  ASSUME NEW r, NEW s, NEW u, HostInv(r), HostInv(s), HostInv(u), Moves(r, s), Moves(s, u)
  PROVE  Moves(r, u)
BY DEF HostInv, Hosts, Moves

LEMMA NewestIs ==
  ASSUME NEW S, NEW n
  PROVE  Newest(n, S) \subseteq S
BY DEF Newest

\* The point with the greatest ID is the newest.
LEMMA FirstIs ==
  ASSUME NEW S, NEW x \in S, \A y \in S : ~(y.id > x.id), NEW n \in Nat \ {0}
  PROVE  x \in Newest(n, S)
<1>1. {y \in S : y.id > x.id} = {}
  OBVIOUS
<1>2. Rank(x, S) = 1
  BY <1>1, FS_EmptySet DEF Rank
<1> QED BY <1>2 DEF Newest

LEMMA ImageTyped ==
  ASSUME NEW r \in Hosts, NEW p \in Scopes
  PROVE  Image(r, p) \in [data : Nat, build : Nat] /\ Image(r, p).data = r.data[p]
BY DEF Hosts, Image

LEMMA InsertFacts ==
  ASSUME NEW r, HostInv(r), NEW p \in Scopes, NEW reason \in Reasons,
         NEW image \in [data : Nat, build : Nat]
  PROVE  LET s == Insert(r, p, reason, image) IN
         /\ HostInv(s) /\ s.revision = r.revision + 1 /\ s.data = r.data /\ s.lives = r.lives
         /\ s.build = r.build /\ s.due = r.due
         /\ \A o \in Scopes \ {p} : s.points[o] = r.points[o]
         /\ \E x \in Newest(1, s.points[p]) : x.image = image
<1> DEFINE x == [id |-> r.last + 1, reason |-> reason, image |-> image]
           all == r.points[p] \cup {x}
           kept == Newest(Kept, all)
           s == Insert(r, p, reason, image)
<1>1. r \in Hosts /\ Numbered(r) /\ r.last \in Nat /\ r.points[p] \in SUBSET Points
  BY DEF HostInv, Hosts
<1>2. x \in Points /\ x.id = r.last + 1 /\ x.image = image
  BY <1>1 DEF Points
<1> HIDE DEF x
<1>3. kept \subseteq all /\ all \in SUBSET Points
  BY <1>1, <1>2, NewestIs
<1>4. s = [r EXCEPT !.revision = r.revision + 1, !.last = r.last + 1, !.points = [r.points EXCEPT ![p] = kept]]
  BY <1>1 DEF Insert, Hosts, x
<1>5. /\ s.revision = r.revision + 1 /\ s.last = r.last + 1 /\ s.points = [r.points EXCEPT ![p] = kept]
      /\ s.data = r.data /\ s.lives = r.lives /\ s.build = r.build /\ s.due = r.due
  BY <1>1, <1>4 DEF Hosts
<1> HIDE DEF s, kept
<1>6. s \in Hosts
  <2> DEFINE now == [r.points EXCEPT ![p] = kept]
  <2>1. kept \in SUBSET Points
    BY <1>3
  <2>2. now \in [Scopes -> SUBSET Points]
    BY <1>1, <2>1 DEF Hosts
  <2>3. s = [r EXCEPT !.revision = r.revision + 1, !.last = r.last + 1, !.points = now]
    BY <1>4
  <2> HIDE DEF now
  <2>4. r.revision + 1 \in Nat /\ r.last + 1 \in Nat
    BY <1>1 DEF Hosts
  <2> QED BY <1>1, <2>2, <2>3, <2>4 DEF Hosts
<1>7. s.points[p] = kept /\ \A o \in Scopes \ {p} : s.points[o] = r.points[o]
  BY <1>1, <1>5 DEF Hosts
<1>8. \A y \in r.points[p] : y.id <= r.last /\ y.id \in Nat
  BY <1>1 DEF Numbered, Points
<1>9. Numbered(s)
  <2> SUFFICES ASSUME NEW o \in Scopes
               PROVE  /\ IsFiniteSet(s.points[o])
                      /\ \A y \in s.points[o] : y.id <= s.last
                      /\ \A y, z \in s.points[o] : y.id = z.id => y = z
    BY DEF Numbered
  <2>1. CASE o = p
    <3>1. IsFiniteSet(all)
      BY <1>1, FS_AddElement DEF Numbered
    <3>2. IsFiniteSet(kept)
      BY <1>3, <3>1, FS_Subset
    <3>3. \A y \in all : y.id <= r.last + 1
      BY <1>1, <1>2, <1>8
    <3>4. \A y, z \in all : y.id = z.id => y = z
      BY <1>1, <1>2, <1>8 DEF Numbered
    <3> QED BY <1>3, <1>5, <1>7, <2>1, <3>2, <3>3, <3>4
  <2>2. CASE o # p
    <3>1. s.points[o] = r.points[o]
      BY <1>7, <2>2
    <3>2. \A y \in r.points[o] : y.id <= r.last /\ y.id \in Nat
      BY <1>1 DEF Numbered, Points, Hosts
    <3> QED BY <1>1, <1>5, <3>1, <3>2 DEF Numbered
  <2> QED BY <2>1, <2>2
<1>10. x \in Newest(1, kept)
  <2>1. \A y \in all : ~(y.id > x.id)
    BY <1>1, <1>2, <1>8
  <2>2. x \in kept
    BY <2>1, PointsAssumption, FirstIs DEF PointsAssumption, kept
  <2>3. \A y \in kept : ~(y.id > x.id)
    BY <1>3, <2>1
  <2> QED BY <2>2, <2>3, FirstIs
<1>11. HostInv(s)
  BY <1>6, <1>9 DEF HostInv
<1> QED BY <1>2, <1>5, <1>7, <1>10, <1>11 DEF s


LEMMA Grown ==
  ASSUME NEW r, NEW s, r.revision \in Nat, s.revision = r.revision + 1
  PROVE  Moves(r, s)
BY DEF Moves

LEMMA CaptureFacts ==
  ASSUME NEW r, HostInv(r), NEW p \in Scopes, NEW reason \in Reasons
  PROVE  LET s == Capture(r, p, reason) IN
         /\ HostInv(s) /\ s.revision = r.revision + 1 /\ s.data = r.data /\ s.lives = r.lives
         /\ s.build = r.build /\ s.due = r.due
         /\ \A o \in Scopes \ {p} : s.points[o] = r.points[o]
         /\ \E x \in Newest(1, s.points[p]) : x.image.data = r.data[p]
<1>1. Image(r, p) \in [data : Nat, build : Nat] /\ Image(r, p).data = r.data[p]
  BY ImageTyped DEF HostInv
<1> QED BY <1>1, InsertFacts DEF Capture

\* Fields of a host that are none of the points.
LEMMA WithFields ==
  ASSUME NEW r, HostInv(r), NEW revision \in Nat, NEW data \in [Scopes -> Nat], NEW lives \in Nat,
         NEW build \in Nat, NEW due \in [Scopes -> BOOLEAN],
         NEW s, s = [revision |-> revision, data |-> data, lives |-> lives, build |-> build,
                     last |-> r.last, points |-> r.points, due |-> due]
  PROVE  HostInv(s)
<1>1. s \in Hosts
  BY DEF HostInv, Hosts
<1> QED BY <1>1 DEF HostInv, Numbered

LEMMA WithPoints ==
  ASSUME NEW r, HostInv(r), NEW revision \in Nat, NEW due \in [Scopes -> BOOLEAN],
         NEW p \in Scopes, NEW kept \in SUBSET r.points[p],
         NEW s, s = [revision |-> revision, data |-> r.data, lives |-> r.lives, build |-> r.build,
                     last |-> r.last, points |-> [r.points EXCEPT ![p] = kept], due |-> due]
  PROVE  HostInv(s)
<1> DEFINE now == [r.points EXCEPT ![p] = kept]
<1>1. r \in Hosts /\ Numbered(r)
  BY DEF HostInv
<1>2. now \in [Scopes -> SUBSET Points] /\ \A o \in Scopes : now[o] \subseteq r.points[o]
  BY <1>1 DEF Hosts
<1>3. s.points = now /\ s.last = r.last
  OBVIOUS
<1> HIDE DEF now
<1>4. s = [revision |-> revision, data |-> r.data, lives |-> r.lives, build |-> r.build,
           last |-> r.last, points |-> now, due |-> due]
  BY DEF now
<1>5. s \in Hosts
  BY <1>1, <1>2, <1>4 DEF Hosts
<1>6. \A o \in Scopes : IsFiniteSet(now[o])
  BY <1>1, <1>2, FS_Subset DEF Numbered
<1>7. Numbered(s)
  BY <1>1, <1>2, <1>3, <1>6 DEF Numbered
<1> QED BY <1>5, <1>7 DEF HostInv

LEMMA HostIs ==
  ASSUME NEW r \in Hosts
  PROVE  /\ r.revision \in Nat /\ r.data \in [Scopes -> Nat] /\ r.lives \in Nat /\ r.build \in Nat
         /\ r.last \in Nat /\ r.points \in [Scopes -> SUBSET Points]
         /\ r.due \in [Scopes -> BOOLEAN]
         /\ r = [revision |-> r.revision, data |-> r.data, lives |-> r.lives, build |-> r.build,
                 last |-> r.last, points |-> r.points, due |-> r.due]
BY DEF Hosts

LEMMA BeforeWriteFacts ==
  ASSUME NEW r, HostInv(r), NEW p \in Scopes
  PROVE  LET s == BeforeWrite(r, p) IN
         /\ HostInv(s) /\ r.revision <= s.revision
         /\ s.data = r.data /\ s.lives = r.lives /\ s.build = r.build
<1> DEFINE u == IF TooLarge(r, p) THEN r ELSE Capture(r, p, "save")
           due == [u.due EXCEPT ![p] = FALSE]
           s == BeforeWrite(r, p)
<1>1. r.revision \in Nat
  BY HostIs DEF HostInv
<1>2. /\ HostInv(u) /\ r.revision <= u.revision
      /\ u.data = r.data /\ u.lives = r.lives /\ u.build = r.build
  <2>1. "save" \in Reasons
    BY DEF Reasons
  <2> DEFINE c == Capture(r, p, "save")
  <2>2. /\ HostInv(c) /\ c.revision = r.revision + 1
        /\ c.data = r.data /\ c.lives = r.lives /\ c.build = r.build
    BY <2>1, CaptureFacts
  <2> HIDE DEF c
  <2>3. u = r \/ u = c
    BY DEF c
  <2> QED BY ONLY <1>1, <2>2, <2>3, HostInv(r)
<1>3. CASE ~r.due[p]
  BY <1>1, <1>3 DEF BeforeWrite
<1>4. CASE r.due[p]
  <2>1. s = [u EXCEPT !.due = [u.due EXCEPT ![p] = FALSE]]
    BY <1>4 DEF BeforeWrite
  <2> HIDE DEF u, s
  <2>2. u \in Hosts
    BY <1>2 DEF HostInv
  <2>3. due \in [Scopes -> BOOLEAN]
    BY <2>2, HostIs
  <2>4. s = [u EXCEPT !.due = due]
    BY <2>1
  <2> HIDE DEF due
  <2>5. s = [revision |-> u.revision, data |-> u.data, lives |-> u.lives, build |-> u.build,
             last |-> u.last, points |-> u.points, due |-> due]
    BY <2>2, <2>4 DEF Hosts
  <2>6. HostInv(s)
    BY <1>2, <2>2, <2>3, <2>5, WithFields, HostIs
  <2> QED BY <1>2, <2>5, <2>6 DEF s
<1> QED BY <1>3, <1>4

LEMMA ChangedFacts ==
  ASSUME NEW r, HostInv(r), NEW p \in Scopes, NEW data \in Nat
  PROVE  LET s == Changed(r, p, data) IN
         /\ HostInv(s) /\ r.revision < s.revision
         /\ s.data = [r.data EXCEPT ![p] = data] /\ s.lives = r.lives /\ s.build = r.build
<1> DEFINE u == BeforeWrite(r, p)
           now == [r.data EXCEPT ![p] = data]
           s == Changed(r, p, data)
<1>1. /\ HostInv(u) /\ r.revision <= u.revision
      /\ u.data = r.data /\ u.lives = r.lives /\ u.build = r.build
  BY BeforeWriteFacts
<1>2. s = [u EXCEPT !.revision = u.revision + 1, !.data = [u.data EXCEPT ![p] = data]]
  BY DEF Changed
<1> HIDE DEF u, s
<1>3. u \in Hosts /\ r.revision \in Nat /\ u.revision \in Nat
  BY <1>1, HostIs DEF HostInv
<1>4. now \in [Scopes -> Nat]
  BY HostIs DEF HostInv
<1>5. s = [u EXCEPT !.revision = u.revision + 1, !.data = now]
  BY <1>1, <1>2
<1> HIDE DEF now
<1>6. s = [revision |-> u.revision + 1, data |-> now, lives |-> u.lives, build |-> u.build,
           last |-> u.last, points |-> u.points, due |-> u.due]
  BY <1>3, <1>5 DEF Hosts
<1>7. HostInv(s)
  <2>1. /\ u.revision + 1 \in Nat /\ u.lives \in Nat /\ u.build \in Nat
        /\ u.due \in [Scopes -> BOOLEAN]
    BY <1>3, HostIs
  <2> QED BY <1>1, <1>4, <1>6, <2>1, WithFields
<1>8. r.revision < u.revision + 1
  BY <1>1, <1>3
<1> QED BY <1>1, <1>6, <1>7, <1>8 DEF s, now

LEMMA CreatedFacts ==
  ASSUME NEW r, HostInv(r)
  PROVE  HostInv(Created(r)) /\ Moves(r, Created(r))
<1> DEFINE u == Changed(r, "campaign", r.lives + 1)
           s == Created(r)
<1>1. HostInv(u) /\ r.revision < u.revision /\ u.lives = r.lives
  <2>1. r.lives + 1 \in Nat /\ "campaign" \in Scopes
    BY HostIs DEF HostInv, Scopes
  <2> QED BY <2>1, ChangedFacts
<1>2. s = [u EXCEPT !.lives = u.lives + 1]
  BY DEF Created
<1> HIDE DEF u, s
<1>3. u \in Hosts /\ r.revision \in Nat
  BY <1>1, HostIs DEF HostInv
<1>4. s = [revision |-> u.revision, data |-> u.data, lives |-> u.lives + 1, build |-> u.build,
           last |-> u.last, points |-> u.points, due |-> u.due]
  BY <1>2, <1>3 DEF Hosts
<1>5. HostInv(s)
  <2>1. /\ u.revision \in Nat /\ u.data \in [Scopes -> Nat] /\ u.lives + 1 \in Nat
        /\ u.build \in Nat /\ u.due \in [Scopes -> BOOLEAN]
    BY <1>3, HostIs
  <2> QED BY <1>1, <1>4, <2>1, WithFields
<1>6. Moves(r, s)
  BY <1>1, <1>3, <1>4, HostIs DEF Moves
<1> QED BY <1>5, <1>6 DEF s

LEMMA ChangeMoves ==
  ASSUME NEW r, HostInv(r), NEW p \in Scopes, NEW data \in Nat
  PROVE  HostInv(Changed(r, p, data)) /\ Moves(r, Changed(r, p, data))
<1>1. r.revision \in Nat
  BY HostIs DEF HostInv
<1> DEFINE s == Changed(r, p, data)
<1>2. HostInv(s) /\ r.revision < s.revision /\ s.revision \in Nat
  BY ChangedFacts, HostIs DEF HostInv
<1> QED BY <1>1, <1>2 DEF Moves

LEMMA MinuteFacts ==
  ASSUME NEW r, HostInv(r)
  PROVE  HostInv(AMinuteLater(r)) /\ Moves(r, AMinuteLater(r))
<1> DEFINE due == [p \in Scopes |-> TRUE]
           s == AMinuteLater(r)
<1>1. s = [r EXCEPT !.due = due] /\ due \in [Scopes -> BOOLEAN] /\ r \in Hosts
  BY DEF AMinuteLater, HostInv
<1> HIDE DEF due, s
<1>2. s = [revision |-> r.revision, data |-> r.data, lives |-> r.lives, build |-> r.build,
           last |-> r.last, points |-> r.points, due |-> due]
  BY <1>1 DEF Hosts
<1>3. HostInv(s)
  BY <1>1, <1>2, WithFields, HostIs
<1> QED BY <1>1, <1>2, <1>3, HostIs DEF Moves, s

LEMMA ActivatedFacts ==
  ASSUME NEW r, HostInv(r),
         NEW s, s = [r EXCEPT !.build = r.build + 1, !.revision = r.revision + 1]
  PROVE  HostInv(s) /\ Moves(r, s)
<1>1. r \in Hosts
  BY DEF HostInv
<1>2. s = [revision |-> r.revision + 1, data |-> r.data, lives |-> r.lives, build |-> r.build + 1,
           last |-> r.last, points |-> r.points, due |-> r.due]
  BY <1>1 DEF Hosts
<1>3. HostInv(s)
  <2>1. /\ r.revision + 1 \in Nat /\ r.data \in [Scopes -> Nat] /\ r.lives \in Nat
        /\ r.build + 1 \in Nat /\ r.due \in [Scopes -> BOOLEAN]
    BY <1>1, HostIs
  <2> QED BY <1>2, <2>1, WithFields
<1> QED BY <1>1, <1>2, <1>3, HostIs, Grown

LEMMA RetiredFacts ==
  ASSUME NEW r, HostInv(r)
  PROVE  HostInv(RetireAddonGeneration(r)) /\ Moves(r, RetireAddonGeneration(r))
<1> DEFINE kept == {x \in r.points["addon"] : x.image.build = r.build}
           due == [r.due EXCEPT !["addon"] = TRUE]
           s == RetireAddonGeneration(r)
<1>1. r \in Hosts /\ "addon" \in Scopes
  BY DEF HostInv, Scopes
<1>2. s = [r EXCEPT !.revision = r.revision + 1, !.due = [r.due EXCEPT !["addon"] = TRUE],
                    !.points = [r.points EXCEPT !["addon"] = kept]]
  BY DEF RetireAddonGeneration
<1>3. kept \in SUBSET r.points["addon"] /\ due \in [Scopes -> BOOLEAN]
  BY <1>1, HostIs
<1> HIDE DEF kept, s
<1>4. s = [revision |-> r.revision + 1, data |-> r.data, lives |-> r.lives, build |-> r.build,
           last |-> r.last, points |-> [r.points EXCEPT !["addon"] = kept], due |-> due]
  BY <1>1, <1>2 DEF Hosts
<1> HIDE DEF due
<1>5. r.revision + 1 \in Nat /\ r.revision \in Nat
  BY <1>1, HostIs
<1>6. HostInv(s)
  BY <1>1, <1>3, <1>4, <1>5, WithPoints
<1> QED BY <1>4, <1>5, <1>6, Grown DEF s


LEMMA CaptureMoves ==
  ASSUME NEW r, HostInv(r), NEW p \in Scopes, NEW reason \in Reasons
  PROVE  HostInv(Capture(r, p, reason)) /\ Moves(r, Capture(r, p, reason))
<1>1. r.revision \in Nat
  BY HostIs DEF HostInv
<1>2. HostInv(Capture(r, p, reason)) /\ Capture(r, p, reason).revision = r.revision + 1
  BY CaptureFacts
<1> QED BY <1>1, <1>2, Grown

LEMMA DownloadMoves ==
  ASSUME NEW r, HostInv(r)
  PROVE  HostInv(Latest(r)) /\ Moves(r, Latest(r))
<1>1. ASSUME NEW s, HostInv(s), NEW p \in Scopes
      PROVE  HostInv(Downloaded(s, p)) /\ Moves(s, Downloaded(s, p))
  <2>1. s.revision \in Nat
    BY <1>1, HostIs DEF HostInv
  <2>2. Moves(s, s)
    BY <2>1 DEF Moves
  <2>3. HostInv(Capture(s, p, "download")) /\ Moves(s, Capture(s, p, "download"))
    BY <1>1, CaptureMoves DEF Reasons
  <2> QED BY <1>1, <2>2, <2>3 DEF Downloaded
<1> DEFINE u == Downloaded(r, "campaign")
           s == Downloaded(u, "addon")
<1>2. HostInv(u) /\ Moves(r, u)
  BY <1>1 DEF Scopes
<1>3. HostInv(s) /\ Moves(u, s)
  BY <1>1, <1>2 DEF Scopes
<1>4. Latest(r) = s
  BY DEF Latest
<1> QED BY <1>2, <1>3, <1>4, MovesTwice

LEMMA CreateMoves ==
  ASSUME NEW r, HostInv(r), NEW q, q.kind = "create"
  PROVE  HostInv(Effect(r, q)) /\ Moves(r, Effect(r, q))
<1> DEFINE u == Capture(r, "campaign", "manual")
           s == Capture(u, "addon", "manual")
<1>1. HostInv(u) /\ Moves(r, u)
  BY CaptureMoves DEF Scopes, Reasons
<1>2. HostInv(s) /\ Moves(u, s)
  BY <1>1, CaptureMoves DEF Scopes, Reasons
<1>3. Effect(r, q) = s
  BY DEF Effect
<1> QED BY <1>1, <1>2, <1>3, MovesTwice

LEMMA ImportMoves ==
  ASSUME NEW r, HostInv(r), NEW q, q.kind = "import"
  PROVE  HostInv(Effect(r, q)) /\ Moves(r, Effect(r, q))
<1>1. ASSUME NEW s, HostInv(s), NEW p \in Scopes
      PROVE  HostInv(InsertImported(s, p)) /\ Moves(s, InsertImported(s, p))
  <2> DEFINE image == [Image(s, p) EXCEPT !.data = s.lives]
  <2>1. s.revision \in Nat /\ s.lives \in Nat /\ "imported" \in Reasons
    BY <1>1, HostIs DEF HostInv, Reasons
  <2>2. Image(s, p) \in [data : Nat, build : Nat]
    BY <1>1, ImageTyped DEF HostInv
  <2>3. /\ image \in [data : Nat, build : Nat]
        /\ InsertImported(s, p) = Insert(s, p, "imported", image)
    BY <2>1, <2>2 DEF InsertImported
  <2> HIDE DEF image
  <2> DEFINE u == Insert(s, p, "imported", image)
  <2>4. HostInv(u) /\ u.revision = s.revision + 1
    BY <1>1, <2>1, <2>3, InsertFacts
  <2> HIDE DEF u
  <2> QED BY <2>1, <2>3, <2>4, Grown DEF u
<1> DEFINE u == InsertImported(r, "campaign")
           s == InsertImported(u, "addon")
<1>2. HostInv(u) /\ Moves(r, u)
  BY <1>1 DEF Scopes
<1>3. HostInv(s) /\ Moves(u, s)
  BY <1>1, <1>2 DEF Scopes
<1>4. Effect(r, q) = s
  BY DEF Effect
<1> QED BY <1>2, <1>3, <1>4, MovesTwice

LEMMA ChosenAre ==
  ASSUME NEW r \in Hosts, NEW q, q.part \in Scopes
  PROVE  ChosenPoints(r, q) \subseteq r.points[q.part] /\ ChosenPoints(r, q) \subseteq Points
<1>1. r.points[q.part] \in SUBSET Points
  BY HostIs
<1> QED BY <1>1 DEF ChosenPoints, Saves

LEMMA DeleteFacts ==
  ASSUME NEW r, HostInv(r), NEW q, q.part \in Scopes, q.kind = "delete"
  PROVE  /\ HostInv(Effect(r, q)) /\ Moves(r, Effect(r, q))
         /\ Effect(r, q).points[q.part] = r.points[q.part] \ ChosenPoints(r, q)
<1> DEFINE kept == r.points[q.part] \ ChosenPoints(r, q)
           s == Effect(r, q)
<1>1. r \in Hosts
  BY DEF HostInv
<1>2. s = [r EXCEPT !.revision = r.revision + 1, !.points = [r.points EXCEPT ![q.part] = kept]]
  BY <1>1 DEF Effect, Delete
<1> HIDE DEF s
<1>3. kept \in SUBSET r.points[q.part]
  OBVIOUS
<1> HIDE DEF kept
<1>4. s = [revision |-> r.revision + 1, data |-> r.data, lives |-> r.lives, build |-> r.build,
           last |-> r.last, points |-> [r.points EXCEPT ![q.part] = kept], due |-> r.due]
  BY <1>1, <1>2 DEF Hosts
<1>5. r.revision + 1 \in Nat /\ r.revision \in Nat /\ r.due \in [Scopes -> BOOLEAN]
  BY <1>1, HostIs
<1>6. HostInv(s)
  BY <1>1, <1>3, <1>4, <1>5, WithPoints
<1>7. Moves(r, s)
  BY <1>4, <1>5, Grown
<1>8. s.points[q.part] = kept
  BY <1>1, <1>4, HostIs
<1> QED BY <1>6, <1>7, <1>8 DEF s, kept

LEMMA RestoreFacts ==
  ASSUME NEW r, HostInv(r), NEW q, q.part \in Scopes, q.kind \in {"restore", "revert"},
         NEW x \in ChosenPoints(r, q), \A y \in ChosenPoints(r, q) : y = x
  PROVE  LET s == Effect(r, q) IN
         /\ HostInv(s) /\ Moves(r, s)
         /\ s.data = [r.data EXCEPT ![q.part] = x.image.data]
         /\ s.due[q.part]
         /\ \A o \in Scopes \ {q.part} : s.points[o] = r.points[o]
         /\ \E y \in Newest(1, s.points[q.part]) : y.image.data = r.data[q.part]
<1> DEFINE u == Capture(r, q.part, "pre-restore")
           due == [u.due EXCEPT ![q.part] = TRUE]
           now == [r.data EXCEPT ![q.part] = x.image.data]
           s == Effect(r, q)
<1>1. r \in Hosts
  BY DEF HostInv
<1>2. (CHOOSE y \in ChosenPoints(r, q) : TRUE) = x
  OBVIOUS
<1>3. s = [u EXCEPT !.revision = u.revision + 1, !.due = [u.due EXCEPT ![q.part] = TRUE],
                    !.data = [u.data EXCEPT ![q.part] = x.image.data]]
  BY <1>2 DEF Effect, Restore
<1>4. /\ HostInv(u) /\ u.revision = r.revision + 1 /\ u.data = r.data
      /\ \A o \in Scopes \ {q.part} : u.points[o] = r.points[o]
      /\ \E y \in Newest(1, u.points[q.part]) : y.image.data = r.data[q.part]
  <2>1. "pre-restore" \in Reasons
    BY DEF Reasons
  <2> QED BY <2>1, CaptureFacts
<1> HIDE DEF u, s
<1>5. u \in Hosts
  BY <1>4 DEF HostInv
<1>6. due \in [Scopes -> BOOLEAN] /\ due[q.part] = TRUE
  BY <1>5, HostIs
<1>7. now \in [Scopes -> Nat]
  <2>1. x \in Points
    BY <1>1, ChosenAre
  <2>2. x.image.data \in Nat
    BY <2>1 DEF Points
  <2> QED BY <1>1, <2>2, HostIs
<1>8. s = [u EXCEPT !.revision = u.revision + 1, !.due = due, !.data = now]
  BY <1>3, <1>4
<1>9. now = [r.data EXCEPT ![q.part] = x.image.data]
  OBVIOUS
<1> HIDE DEF due, now
<1>10. s = [revision |-> u.revision + 1, data |-> now, lives |-> u.lives, build |-> u.build,
            last |-> u.last, points |-> u.points, due |-> due]
  BY <1>5, <1>8 DEF Hosts
<1>11. /\ u.revision + 1 \in Nat /\ u.lives \in Nat /\ u.build \in Nat /\ r.revision \in Nat
  BY <1>1, <1>5, HostIs
<1>12. HostInv(s)
  BY <1>4, <1>6, <1>7, <1>10, <1>11, WithFields
<1>13. s.revision = u.revision + 1 /\ s.data = now /\ s.points = u.points /\ s.due = due
  BY <1>10
<1>14. Moves(r, s)
  BY <1>4, <1>11, <1>13 DEF Moves
<1> QED BY <1>4, <1>6, <1>9, <1>12, <1>13, <1>14 DEF s


\* A rank is that of one point.
LEMMA RanksTell ==
  ASSUME NEW S, IsFiniteSet(S), NEW x \in S, NEW y \in S, x.id \in Int, y.id \in Int, x.id < y.id,
         \A z \in S : z.id \in Int
  PROVE  Rank(x, S) # Rank(y, S)
<1> DEFINE above == {z \in S : z.id > x.id}
           higher == {z \in S : z.id > y.id}
<1>1. IsFiniteSet(above)
  BY FS_Subset
<1>2. higher \in SUBSET above /\ y \in above /\ y \notin higher
  OBVIOUS
<1>3. Cardinality(above) # Cardinality(higher)
  BY <1>1, <1>2, FS_Subset
<1>4. Cardinality(above) \in Nat /\ Cardinality(higher) \in Nat
  BY <1>1, <1>2, FS_Subset, FS_CardinalityType
<1> HIDE DEF above, higher
<1>5. Rank(x, S) = Cardinality(above) + 1 /\ Rank(y, S) = Cardinality(higher) + 1
  BY DEF Rank, above, higher
<1> QED BY <1>3, <1>4, <1>5

\* A request names one point.
LEMMA ChosenUnique ==
  ASSUME NEW r, HostInv(r), NEW q, q.part \in Scopes,
         NEW x \in ChosenPoints(r, q), NEW y \in ChosenPoints(r, q)
  PROVE  x = y
<1> DEFINE S == r.points[q.part]
<1>1. S \in SUBSET Points /\ IsFiniteSet(S) /\ \A a, b \in S : a.id = b.id => a = b
  BY HostIs DEF HostInv, Numbered
<1> HIDE DEF S
<1>2. \A z \in S : z.id \in Int
  BY <1>1 DEF Points
<1>3. CASE q.kind # "revert"
  <2>1. x \in S /\ y \in S /\ x.id = y.id
    BY <1>3 DEF ChosenPoints, S
  <2> QED BY <1>1, <2>1
<1>4. CASE q.kind = "revert"
  <2> DEFINE T == Saves(S)
  <2>1. x \in T /\ y \in T /\ Rank(x, T) = Rank(y, T)
    BY <1>4 DEF ChosenPoints, S
  <2>2. T \in SUBSET S
    BY DEF Saves
  <2>3. IsFiniteSet(T) /\ \A z \in T : z.id \in Int
    BY <1>1, <1>2, <2>2, FS_Subset
  <2> HIDE DEF T
  <2>4. ~(x.id < y.id) /\ ~(y.id < x.id)
    BY <2>1, <2>3, RanksTell
  <2>5. x.id = y.id
    BY <2>1, <2>3, <2>4
  <2> QED BY <1>1, <2>1, <2>2, <2>5
<1> QED BY <1>3, <1>4

\* What a request may ask of the host.
Asked(q) ==
  /\ q.kind \in {"create", "import", "delete", "restore", "revert"}
  /\ q.kind \in {"delete", "restore", "revert"} => q.part \in Scopes

LEMMA EffectMoves ==
  ASSUME NEW r, HostInv(r), NEW q, Asked(q), ~Refused(r, q)
  PROVE  HostInv(Effect(r, q)) /\ Moves(r, Effect(r, q))
<1>1. CASE q.kind = "create"
  BY <1>1, CreateMoves
<1>2. CASE q.kind = "import"
  BY <1>2, ImportMoves
<1>3. CASE q.kind = "delete"
  BY <1>3, DeleteFacts DEF Asked
<1>4. CASE q.kind \in {"restore", "revert"}
  <2>1. PICK x \in ChosenPoints(r, q) : CompatibleContext(r, q.part, x.image)
    BY <1>4 DEF Refused
  <2>2. q.part \in Scopes
    BY <1>4 DEF Asked
  <2>3. \A y \in ChosenPoints(r, q) : y = x
    BY <2>1, <2>2, ChosenUnique
  <2> DEFINE s == Effect(r, q)
  <2>4. HostInv(s) /\ Moves(r, s)
    BY <1>4, <2>1, <2>2, <2>3, RestoreFacts
  <2> QED BY <2>4
<1> QED BY <1>1, <1>2, <1>3, <1>4 DEF Asked

\* Everything that others do to the host.
LEMMA OthersMove ==
  ASSUME HostInv(recovery), Write \/ Packages \/ Download \/ Elsewhere
  PROVE  HostInv(recovery') /\ Moves(recovery, recovery')
<1>1. recovery \in Hosts
  BY DEF HostInv
<1>2. CASE Write
  <2>1. recovery.data["campaign"] \in Nat /\ Gone \in Nat
    BY <1>1, HostIs DEF Scopes, Gone
  <2>2. CASE recovery' = Created(recovery)
    BY <2>2, CreatedFacts
  <2>3. CASE recovery' = Changed(recovery, "campaign", Gone)
    BY <2>1, <2>3, ChangeMoves DEF Scopes
  <2>4. ASSUME NEW life \in {Gone, recovery.data["campaign"]},
               recovery' = Changed(recovery, "addon", life)
        PROVE  HostInv(recovery') /\ Moves(recovery, recovery')
    <3>1. life \in Nat
      BY <2>1, <2>4
    <3> QED BY <2>4, <3>1, ChangeMoves DEF Scopes
  <2> QED BY <1>2, <2>2, <2>3, <2>4 DEF Write, HostDoes
<1>3. CASE Packages
  <2>1. CASE recovery' = [recovery EXCEPT !.build = @ + 1, !.revision = @ + 1]
    BY <2>1, ActivatedFacts
  <2>2. CASE recovery' = RetireAddonGeneration(recovery)
    BY <2>2, RetiredFacts
  <2> QED BY <1>3, <2>1, <2>2 DEF Packages, HostDoes
<1>4. CASE Download
  BY <1>4, DownloadMoves DEF Download, HostDoes
<1>5. CASE Elsewhere
  <2>0. PICK kind \in {"restore", "delete"}, p \in Scopes : \E x \in recovery.points[p] :
          LET q == [kind |-> kind, part |-> p, choice |-> x.id, revision |-> recovery.revision]
          IN  ~Refused(recovery, q) /\ HostDoes(Effect(recovery, q))
    BY <1>5 DEF Elsewhere
  <2>1. PICK x \in recovery.points[p] :
          LET q == [kind |-> kind, part |-> p, choice |-> x.id, revision |-> recovery.revision]
          IN  ~Refused(recovery, q) /\ HostDoes(Effect(recovery, q))
    BY <2>0
  <2> DEFINE q == [kind |-> kind, part |-> p, choice |-> x.id, revision |-> recovery.revision]
  <2>2. q.kind = kind /\ q.part = p
    OBVIOUS
  <2>3. ~Refused(recovery, q) /\ recovery' = Effect(recovery, q)
    BY <2>1 DEF HostDoes
  <2> HIDE DEF q
  <2>4. Asked(q)
    BY <2>2 DEF Asked
  <2> QED BY <2>3, <2>4, EffectMoves
<1> QED BY <1>2, <1>3, <1>4, <1>5


\* A review that still can be confirmed is of what the host has.
GoodReview(r, q) ==
  /\ q.kind \in {"restore", "revert", "delete"} /\ q.part \in Scopes
  /\ q.revision \in Nat /\ q.revision <= r.revision
  /\ q.revision = r.revision => q.over = r.data /\ q.shown \in ChosenPoints(r, q)

ReadList(r, list) == Read(r, list.revision, list.points, list.data)

PageIs(e) ==
  e = [listing |-> e.listing, review |-> e.review, reload |-> e.reload,
       selection |-> e.selection, asked |-> e.asked, importing |-> e.importing]

ListingHolds(r, listing) == listing # NoList => ReadList(r, listing)
AnswerHolds(r, asked) == asked # NoList /\ asked.phase = "listed" => ReadList(r, asked.listing)
ReviewStands(r, review) == review # NoList => GoodReview(r, review)

PanelInv(r, e) ==
  /\ PageIs(e) /\ e.selection \in Scopes
  /\ ListingHolds(r, e.listing) /\ AnswerHolds(r, e.asked) /\ ReviewStands(r, e.review)

WireInv(r, w) == \A m \in w : m.req.kind \in {"create", "import"} \/ GoodReview(r, m.req)

PointsInv == HostInv(recovery) /\ PanelInv(recovery, panel) /\ WireInv(recovery, wire)

LEMMA ReadLater ==
  ASSUME NEW r, NEW s, r.revision \in Nat, s.revision \in Nat, Moves(r, s),
         NEW revision, NEW points, NEW data, Read(r, revision, points, data)
  PROVE  Read(s, revision, points, data)
BY DEF Read, Moves

LEMMA ReviewLater ==
  ASSUME NEW r, NEW s, r.revision \in Nat, s.revision \in Nat, Moves(r, s),
         NEW q, GoodReview(r, q)
  PROVE  GoodReview(s, q)
<1>1. /\ q.kind \in {"restore", "revert", "delete"} /\ q.part \in Scopes
      /\ q.revision \in Nat /\ q.revision <= r.revision /\ r.revision <= s.revision
  BY DEF GoodReview, Moves
<1>2. ASSUME q.revision = s.revision PROVE q.over = s.data /\ q.shown \in ChosenPoints(s, q)
  <2>1. q.revision = r.revision /\ r.revision = s.revision
    BY <1>1, <1>2
  <2>2. s.points = r.points /\ s.data = r.data
    BY <2>1 DEF Moves
  <2>3. ChosenPoints(s, q) = ChosenPoints(r, q)
    BY <2>2 DEF ChosenPoints
  <2> QED BY <2>1, <2>2, <2>3 DEF GoodReview
<1>3. q.revision <= s.revision
  BY <1>1
<1> QED BY <1>1, <1>2, <1>3 DEF GoodReview

LEMMA HeldLater ==
  ASSUME NEW r, NEW s, HostInv(r), HostInv(s), Moves(r, s), NEW e
  PROVE  /\ ListingHolds(r, e.listing) => ListingHolds(s, e.listing)
         /\ AnswerHolds(r, e.asked) => AnswerHolds(s, e.asked)
         /\ ReviewStands(r, e.review) => ReviewStands(s, e.review)
<1>1. r.revision \in Nat /\ s.revision \in Nat
  BY HostIs DEF HostInv
<1>2. \A list : ReadList(r, list) => ReadList(s, list)
  BY <1>1, ReadLater DEF ReadList
<1>3. \A q : GoodReview(r, q) => GoodReview(s, q)
  BY <1>1, ReviewLater
<1> QED BY <1>2, <1>3 DEF ListingHolds, AnswerHolds, ReviewStands

LEMMA PanelLater ==
  ASSUME NEW r, NEW s, HostInv(r), HostInv(s), Moves(r, s), NEW e, PanelInv(r, e)
  PROVE  PanelInv(s, e)
BY HeldLater DEF PanelInv

LEMMA WireLater ==
  ASSUME NEW r, NEW s, HostInv(r), HostInv(s), Moves(r, s), NEW w, WireInv(r, w)
  PROVE  WireInv(s, w)
<1>1. r.revision \in Nat /\ s.revision \in Nat
  BY HostIs DEF HostInv
<1> QED BY <1>1, ReviewLater DEF WireInv

LEMMA PointsBegin ==
  ASSUME PointsInit
  PROVE  PointsInv
<1>1. HostInv(Store)
  <2>1. Store \in Hosts
    BY DEF Store, Hosts, Gone
  <2>2. \A p \in Scopes : Store.points[p] = {}
    BY DEF Store
  <2> QED BY <2>1, <2>2, FS_EmptySet DEF HostInv, Numbered
<1> DEFINE extended(r) == Extended(r)
<1>2. \A r : HostInv(r) => HostInv(Created(r)) /\ HostInv(AMinuteLater(r)) /\ HostInv(Extended(r))
  <2> SUFFICES ASSUME NEW r, HostInv(r)
               PROVE  HostInv(Created(r)) /\ HostInv(AMinuteLater(r)) /\ HostInv(Extended(r))
    OBVIOUS
  <2>1. HostInv(Created(r))
    BY CreatedFacts
  <2>2. HostInv(AMinuteLater(r))
    BY MinuteFacts
  <2>3. r.data["campaign"] \in Nat /\ "addon" \in Scopes
    BY HostIs DEF HostInv, Scopes
  <2>4. HostInv(Extended(r))
    BY <2>3, ChangeMoves DEF Extended
  <2> QED BY <2>1, <2>2, <2>4
<1>3. \A r : HostInv(r) => HostInv(Changed(r, "campaign", Gone))
  BY ChangeMoves DEF Scopes, Gone
<1>4. HostInv(recovery)
  <2> DEFINE once == AMinuteLater(Extended(Created(Store)))
             emptied == Changed(once, "campaign", Gone)
  <2>1. HostInv(once)
    BY <1>1, <1>2
  <2> HIDE DEF once
  <2>2. HostInv(emptied)
    BY <1>3, <2>1
  <2> HIDE DEF emptied
  <2>3. HostInv(AMinuteLater(Extended(Created(emptied))))
    BY <1>2, <2>2
  <2> QED BY <2>3 DEF PointsInit, Begun, emptied, once
<1>5. PanelInv(recovery, Panel)
  BY DEF PanelInv, Panel, PageIs, ListingHolds, AnswerHolds, ReviewStands, Scopes, NoList
<1> QED BY <1>4, <1>5 DEF PointsInit, PointsInv, WireInv


LEMMA PageKeeps ==
  ASSUME NEW r, NEW listing, NEW review, NEW reload, NEW selection \in Scopes, NEW asked, NEW importing,
         ListingHolds(r, listing), AnswerHolds(r, asked), ReviewStands(r, review),
         NEW e, e = [listing |-> listing, review |-> review, reload |-> reload,
                     selection |-> selection, asked |-> asked, importing |-> importing]
  PROVE  PanelInv(r, e)
BY DEF PanelInv, PageIs

\* An answer that is none, or is not yet a list.
LEMMA NoAnswer ==
  ASSUME NEW r, NEW asked, asked = NoList \/ asked.phase # "listed"
  PROVE  AnswerHolds(r, asked)
BY DEF AnswerHolds

LEMMA NothingHeld ==
  ASSUME NEW r
  PROVE  ReviewStands(r, NoList) /\ AnswerHolds(r, NoList) /\ ListingHolds(r, NoList)
BY DEF AnswerHolds, ReviewStands, ListingHolds

\* The page with one of its fields set.
LEMMA AskedNow ==
  ASSUME NEW r, NEW e, PanelInv(r, e), NEW asked, AnswerHolds(r, asked)
  PROVE  PanelInv(r, [e EXCEPT !.asked = asked])
<1> DEFINE f == [e EXCEPT !.asked = asked]
<1>1. f = [listing |-> e.listing, review |-> e.review, reload |-> e.reload,
           selection |-> e.selection, asked |-> asked, importing |-> e.importing]
  BY DEF PanelInv, PageIs
<1> HIDE DEF f
<1>2. PanelInv(r, f)
  BY <1>1, PageKeeps DEF PanelInv
<1> QED BY <1>2 DEF f

LEMMA ReviewNow ==
  ASSUME NEW r, NEW e, PanelInv(r, e), NEW review, ReviewStands(r, review)
  PROVE  PanelInv(r, [e EXCEPT !.review = review])
<1> DEFINE f == [e EXCEPT !.review = review]
<1>1. f = [listing |-> e.listing, review |-> review, reload |-> e.reload,
           selection |-> e.selection, asked |-> e.asked, importing |-> e.importing]
  BY DEF PanelInv, PageIs
<1> HIDE DEF f
<1>2. PanelInv(r, f)
  BY <1>1, PageKeeps DEF PanelInv
<1> QED BY <1>2 DEF f

LEMMA SelectedNow ==
  ASSUME NEW r, NEW e, PanelInv(r, e), NEW selection \in Scopes
  PROVE  PanelInv(r, [e EXCEPT !.selection = selection])
<1> DEFINE f == [e EXCEPT !.selection = selection]
<1>1. f = [listing |-> e.listing, review |-> e.review, reload |-> e.reload,
           selection |-> selection, asked |-> e.asked, importing |-> e.importing]
  BY DEF PanelInv, PageIs
<1> HIDE DEF f
<1>2. PanelInv(r, f)
  BY <1>1, PageKeeps DEF PanelInv
<1> QED BY <1>2 DEF f

LEMMA ImportingNow ==
  ASSUME NEW r, NEW e, PanelInv(r, e), NEW importing
  PROVE  PanelInv(r, [e EXCEPT !.importing = importing])
<1> DEFINE f == [e EXCEPT !.importing = importing]
<1>1. f = [listing |-> e.listing, review |-> e.review, reload |-> e.reload,
           selection |-> e.selection, asked |-> e.asked, importing |-> importing]
  BY DEF PanelInv, PageIs
<1> HIDE DEF f
<1>2. PanelInv(r, f)
  BY <1>1, PageKeeps DEF PanelInv
<1> QED BY <1>2 DEF f

LEMMA ReadingNow ==
  ASSUME NEW r, NEW e, PanelInv(r, e)
  PROVE  PanelInv(r, Reading(e))
<1> DEFINE asked == [kind |-> "list", phase |-> "done"]
<1>1. AnswerHolds(r, asked)
  BY NoAnswer
<1>2. PanelInv(r, [e EXCEPT !.asked = asked])
  BY <1>1, AskedNow
<1> QED BY <1>2 DEF Reading

LEMMA AskingNow ==
  ASSUME NEW r, NEW e, PanelInv(r, e), NEW q
  PROVE  PanelInv(r, Asking(e, q))
<1> DEFINE asked == [kind |-> q.kind, phase |-> "sent", n |-> acts]
<1>1. AnswerHolds(r, asked)
  BY NoAnswer
<1> HIDE DEF asked
<1>2. PanelInv(r, [e EXCEPT !.asked = asked])
  BY <1>1, AskedNow
<1> QED BY <1>2 DEF Asking, asked

\* A review of what the list shows is good as long as the host has that revision.
LEMMA ReviewIsGood ==
  ASSUME NEW r, NEW e, PanelInv(r, e), e.listing # NoList,
         NEW kind \in {"restore", "revert", "delete"}, NEW choice,
         NEW x \in e.listing.points[e.selection],
         IF kind = "revert" THEN /\ x \in Saves(e.listing.points[e.selection])
                                 /\ choice = Rank(x, Saves(e.listing.points[e.selection]))
         ELSE choice = x.id
  PROVE  ReviewStands(r, [kind |-> kind, part |-> e.selection, choice |-> choice,
                          revision |-> e.listing.revision, shown |-> x, over |-> e.listing.data])
<1> DEFINE q == [kind |-> kind, part |-> e.selection, choice |-> choice,
                 revision |-> e.listing.revision, shown |-> x, over |-> e.listing.data]
<1>1. ReadList(r, e.listing) /\ e.selection \in Scopes
  BY DEF PanelInv, ListingHolds
<1>2. e.listing.revision \in Nat /\ e.listing.revision <= r.revision
  BY <1>1 DEF ReadList, Read
<1>3. /\ q.kind = kind /\ q.part = e.selection /\ q.choice = choice /\ q.revision = e.listing.revision
      /\ q.shown = x /\ q.over = e.listing.data
  OBVIOUS
<1> HIDE DEF q
<1>4. ASSUME q.revision = r.revision PROVE q.over = r.data /\ q.shown \in ChosenPoints(r, q)
  <2>1. e.listing.points = r.points /\ e.listing.data = r.data
    BY <1>1, <1>3, <1>4 DEF ReadList, Read
  <2>2. x \in r.points[q.part]
    BY <1>3, <2>1
  <2>3. CASE kind = "revert"
    BY <1>3, <2>1, <2>2, <2>3 DEF ChosenPoints
  <2>4. CASE kind # "revert"
    BY <1>3, <2>1, <2>2, <2>4 DEF ChosenPoints
  <2> QED BY <1>3, <2>1, <2>3, <2>4
<1>5. GoodReview(r, q)
  BY <1>1, <1>2, <1>3, <1>4 DEF GoodReview
<1> QED BY <1>5 DEF ReviewStands, q


\* A change to the host, under the same page and requests.
LEMMA HostMoves ==
  ASSUME PointsInv, HostInv(recovery'), Moves(recovery, recovery'),
         UNCHANGED panel, wire' \subseteq wire
  PROVE  PointsInv'
<1>1. PanelInv(recovery', panel)
  BY PanelLater DEF PointsInv
<1>2. WireInv(recovery', wire)
  BY WireLater DEF PointsInv
<1>3. WireInv(recovery', wire')
  BY <1>2 DEF WireInv
<1> QED BY <1>1, <1>3 DEF PointsInv

\* A change to the page, and the requests that it sends.
LEMMA PageMoves ==
  ASSUME PointsInv, UNCHANGED recovery, PanelInv(recovery, panel'),
         \A m \in wire' \ wire : m.req.kind \in {"create", "import"} \/ GoodReview(recovery, m.req)
  PROVE  PointsInv'
BY DEF PointsInv, WireInv

LEMMA ServesMoves ==
  ASSUME PointsInv, NEW m \in wire, HostServes(m)
  PROVE  PointsInv'
<1>1. Asked(m.req)
  BY DEF PointsInv, WireInv, GoodReview, Asked
<1>2. HostInv(recovery') /\ Moves(recovery, recovery')
  <2>1. CASE Refused(recovery, m.req)
    <3>1. recovery' = recovery
      BY <2>1 DEF HostServes, HostDoes
    <3>2. Moves(recovery, recovery)
      BY HostIs DEF PointsInv, HostInv, Moves
    <3> QED BY <3>1, <3>2 DEF PointsInv
  <2>2. CASE ~Refused(recovery, m.req)
    <3>1. recovery' = Effect(recovery, m.req)
      BY <2>2 DEF HostServes, HostDoes
    <3> QED BY <1>1, <2>2, <3>1, EffectMoves DEF PointsInv
  <2> QED BY <2>1, <2>2
<1>3. PanelInv(recovery', panel)
  BY <1>2, PanelLater DEF PointsInv
<1>4. PanelInv(recovery', panel')
  <2>1. CASE panel' = panel
    BY <1>3, <2>1
  <2>2. ASSUME NEW importing, panel' = [panel EXCEPT !.importing = importing]
        PROVE  PanelInv(recovery', panel')
    BY <1>3, <2>2, ImportingNow
  <2>3. ASSUME NEW phase \in {"refused", "done"},
               panel.asked = [kind |-> m.req.kind, phase |-> "sent", n |-> m.n],
               panel' = [panel EXCEPT !.asked = [panel.asked EXCEPT !.phase = phase]]
        PROVE  PanelInv(recovery', panel')
    <3> DEFINE asked == [panel.asked EXCEPT !.phase = phase]
    <3>1. asked.phase = phase
      BY <2>3
    <3> HIDE DEF asked
    <3>2. AnswerHolds(recovery', asked)
      BY <2>3, <3>1, NoAnswer
    <3>3. panel' = [panel EXCEPT !.asked = asked]
      BY <2>3 DEF asked
    <3> QED BY <1>3, <3>2, <3>3, AskedNow
  <2>4. \/ panel' = panel
        \/ panel' = [panel EXCEPT !.importing = IF panel.importing = "sent" THEN "done" ELSE panel.importing]
        \/ /\ panel.asked = [kind |-> m.req.kind, phase |-> "sent", n |-> m.n]
           /\ \E phase \in {"refused", "done"} :
                panel' = [panel EXCEPT !.asked = [panel.asked EXCEPT !.phase = phase]]
    BY DEF HostServes, Page
  <2> QED BY <2>1, <2>2, <2>3, <2>4
<1>5. WireInv(recovery', wire)
  BY <1>2, WireLater DEF PointsInv
<1>6. WireInv(recovery', wire')
  BY <1>5 DEF WireInv, HostServes
<1> QED BY <1>2, <1>4, <1>6 DEF PointsInv

LEMMA HearMoves ==
  ASSUME PointsInv, Hear
  PROVE  PointsInv'
<1> DEFINE listing == panel.asked.listing
           selection == IF listing.points[panel.selection] = {} THEN "campaign" ELSE panel.selection
<1>1. ReadList(recovery, listing)
  BY DEF PointsInv, PanelInv, AnswerHolds, Hear, Busy
<1>2. selection \in Scopes
  BY DEF PointsInv, PanelInv, Scopes
<1>3. panel' = [listing |-> listing, review |-> NoList, reload |-> FALSE, selection |-> selection,
                asked |-> NoList, importing |-> panel.importing]
  BY DEF PointsInv, PanelInv, PageIs, Hear, Page
<1> HIDE DEF listing, selection
<1>4. ListingHolds(recovery, listing)
  BY <1>1 DEF ListingHolds
<1>5. PanelInv(recovery, panel')
  BY <1>2, <1>3, <1>4, NothingHeld, PageKeeps
<1> QED BY <1>5, PageMoves DEF Hear

LEMMA ListsMoves ==
  ASSUME PointsInv, HostLists
  PROVE  PointsInv'
<1> DEFINE asked == [phase |-> "listed", listing |-> List(recovery)]
<1>1. asked.listing = List(recovery)
  OBVIOUS
<1>2. ReadList(recovery, List(recovery))
  BY HostIs DEF PointsInv, HostInv, ReadList, Read, List
<1>3. AnswerHolds(recovery, asked)
  BY <1>1, <1>2 DEF AnswerHolds
<1> HIDE DEF asked
<1>4. PanelInv(recovery, panel')
  BY <1>3, AskedNow DEF PointsInv, HostLists, Page, asked
<1> QED BY <1>4, PageMoves DEF HostLists

LEMMA FailsMoves ==
  ASSUME PointsInv, RequestFails
  PROVE  PointsInv'
<1>1. panel' = [listing |-> panel.listing, review |-> NoList, reload |-> TRUE,
                selection |-> panel.selection, asked |-> NoList, importing |-> panel.importing]
  BY DEF PointsInv, PanelInv, PageIs, RequestFails, Page
<1>2. PanelInv(recovery, panel')
  BY <1>1, NothingHeld, PageKeeps DEF PointsInv, PanelInv
<1> QED BY <1>2, PageMoves DEF RequestFails

LEMMA ReviewMoves ==
  ASSUME PointsInv, Review \/ Revert
  PROVE  PointsInv'
<1>1. panel.listing # NoList /\ PanelInv(recovery, panel)
  BY DEF Review, Revert, Reviewable, PointsInv
<1>2. CASE Review
  <2>1. PICK kind \in {"restore", "delete"}, x \in Listed : ShowReview(kind, x.id, x)
    BY <1>2 DEF Review
  <2> DEFINE q == [kind |-> kind, part |-> panel.selection, choice |-> x.id,
                   revision |-> panel.listing.revision, shown |-> x, over |-> panel.listing.data]
  <2>2. ReviewStands(recovery, q)
    BY <1>1, <2>1, ReviewIsGood DEF Listed
  <2>3. panel' = [panel EXCEPT !.review = q]
    BY <2>1 DEF ShowReview, Page
  <2> HIDE DEF q
  <2>4. PanelInv(recovery, panel')
    BY <1>1, <2>2, <2>3, ReviewNow
  <2> QED BY <1>2, <2>4, PageMoves DEF Review
<1>3. CASE Revert
  <2>1. PICK x \in Saves(Listed) : ShowReview("revert", Rank(x, Saves(Listed)), x)
    BY <1>3 DEF Revert
  <2> DEFINE q == [kind |-> "revert", part |-> panel.selection, choice |-> Rank(x, Saves(Listed)),
                   revision |-> panel.listing.revision, shown |-> x, over |-> panel.listing.data]
  <2>2. x \in Listed
    BY <2>1 DEF Saves
  <2>3. ReviewStands(recovery, q)
    BY <1>1, <2>1, <2>2, ReviewIsGood DEF Listed
  <2>4. panel' = [panel EXCEPT !.review = q]
    BY <2>1 DEF ShowReview, Page
  <2> HIDE DEF q
  <2>5. PanelInv(recovery, panel')
    BY <1>1, <2>3, <2>4, ReviewNow
  <2> QED BY <1>3, <2>5, PageMoves DEF Revert
<1> QED BY <1>2, <1>3

LEMMA SendsMoves ==
  ASSUME PointsInv, Create \/ Confirm \/ Import
  PROVE  PointsInv'
<1>1. PanelInv(recovery, panel)
  BY DEF PointsInv
<1>2. CASE Create
  <2>1. PanelInv(recovery, panel')
    BY <1>1, <1>2, AskingNow DEF Create, Page
  <2>2. \A m \in wire' \ wire : m.req.kind = "create"
    BY <1>2 DEF Create, Sent
  <2> QED BY <1>2, <2>1, <2>2, PageMoves DEF Create
<1>3. CASE Confirm
  <2>1. PanelInv(recovery, panel')
    BY <1>1, <1>3, AskingNow DEF Confirm, Page
  <2>2. \A m \in wire' \ wire : m.req = panel.review
    BY <1>3 DEF Confirm, Sent
  <2>3. GoodReview(recovery, panel.review)
    BY <1>1, <1>3 DEF Confirm, Reviewing, PanelInv, ReviewStands
  <2> QED BY <1>3, <2>1, <2>2, <2>3, PageMoves DEF Confirm
<1>4. CASE Import
  <2>1. PanelInv(recovery, panel')
    BY <1>1, <1>4, ImportingNow DEF Import, Page
  <2>2. \A m \in wire' \ wire : m.req.kind = "import"
    BY <1>4 DEF Import, Sent
  <2> QED BY <1>4, <2>1, <2>2, PageMoves DEF Import
<1> QED BY <1>2, <1>3, <1>4

LEMMA PageStep ==
  ASSUME PointsInv,
         \/ Refresh \/ CloseReview \/ ImportSucceeds \/ ImportFails \/ Reopen
         \/ \E p \in Scopes : Select(p)
  PROVE  PointsInv'
<1>1. PanelInv(recovery, panel)
  BY DEF PointsInv
<1>2. PanelInv(recovery, panel') /\ UNCHANGED <<recovery, wire>>
  <2>1. CASE Refresh
    BY <1>1, <2>1, ReadingNow DEF Refresh, Page
  <2>2. CASE CloseReview
    BY <1>1, <2>2, ReviewNow, NothingHeld DEF CloseReview, Page
  <2>3. CASE ImportSucceeds
    <3> DEFINE e == [panel EXCEPT !.importing = "no"]
               f == [e EXCEPT !.selection = "campaign"]
    <3>1. PanelInv(recovery, e)
      BY <1>1, ImportingNow
    <3>2. PanelInv(recovery, f)
      BY <3>1, SelectedNow DEF Scopes
    <3>3. f = [panel EXCEPT !.importing = "no", !.selection = "campaign"]
      OBVIOUS
    <3>4. panel' = Reading(f)
      BY <2>3, <3>3 DEF ImportSucceeds, Page
    <3> HIDE DEF e, f
    <3> QED BY <2>3, <3>2, <3>4, ReadingNow DEF ImportSucceeds
  <2>4. CASE ImportFails
    <3> DEFINE e == [panel EXCEPT !.importing = "no"]
    <3>1. PanelInv(recovery, e)
      BY <1>1, ImportingNow
    <3>2. panel' = Reading(e)
      BY <2>4 DEF ImportFails, Page
    <3> HIDE DEF e
    <3> QED BY <2>4, <3>1, <3>2, ReadingNow DEF ImportFails
  <2>5. CASE Reopen
    <3>1. PanelInv(recovery, Panel)
      BY DEF PanelInv, Panel, PageIs, ListingHolds, AnswerHolds, ReviewStands, Scopes, NoList
    <3> QED BY <2>5, <3>1 DEF Reopen, Page
  <2>6. CASE \E p \in Scopes : Select(p)
    BY <1>1, <2>6, SelectedNow DEF Select, Page
  <2> QED BY <2>1, <2>2, <2>3, <2>4, <2>5, <2>6
<1> QED BY <1>2, PageMoves

LEMMA PointsStep ==
  ASSUME PointsInv, [PointsNext]_pointVars
  PROVE  PointsInv'
<1>1. CASE UNCHANGED pointVars
  BY <1>1 DEF pointVars, PointsInv
<1>2. CASE Others
  <2>1. HostInv(recovery') /\ Moves(recovery, recovery')
    BY <1>2, OthersMove DEF Others, PointsInv
  <2> QED BY <1>2, <2>1, HostMoves DEF Others
<1>3. CASE MinutePasses
  <2>1. HostInv(recovery') /\ Moves(recovery, recovery')
    BY <1>3, MinuteFacts DEF MinutePasses, HostDoes, PointsInv
  <2> QED BY <1>3, <2>1, HostMoves DEF MinutePasses
<1>4. CASE \E m \in wire : HostServes(m)
  BY <1>4, ServesMoves
<1>5. CASE \/ Refresh \/ CloseReview \/ ImportSucceeds \/ ImportFails \/ Reopen
           \/ \E p \in Scopes : Select(p)
  BY <1>5, PageStep
<1> QED BY <1>1, <1>2, <1>3, <1>4, <1>5, ListsMoves, HearMoves, FailsMoves, ReviewMoves, SendsMoves
        DEF PointsNext


\* What the host carries out is what was reviewed, over the state that was reviewed.
LEMMA CarriedAsReviewed ==
  ASSUME HostInv(recovery), NEW q, GoodReview(recovery, q), ~Refused(recovery, q),
         recovery' = Effect(recovery, q)
  PROVE  /\ ReviewHolds(q)
         /\ q.kind # "delete" => ReplacedStateIsKept(q)
         /\ q.kind # "delete" /\ q.part = "addon" => ExtensionsFit
<1>1. q.part \in Scopes /\ q.kind \in {"restore", "revert", "delete"} /\ recovery \in Hosts
  BY DEF GoodReview, HostInv
<1>2. q.over = recovery.data /\ q.shown \in ChosenPoints(recovery, q)
  BY <1>1 DEF GoodReview, Refused, Claims
<1>3. CASE q.kind = "delete"
  <2>1. recovery'.points[q.part] = recovery.points[q.part] \ ChosenPoints(recovery, q)
    BY <1>1, <1>3, DeleteFacts
  <2> QED BY <1>2, <1>3, <2>1 DEF ReviewHolds
<1>4. CASE q.kind \in {"restore", "revert"}
  <2>1. \A y \in ChosenPoints(recovery, q) : y = q.shown
    BY <1>1, <1>2, ChosenUnique
  <2>2. CompatibleContext(recovery, q.part, q.shown.image)
    BY <1>4, <2>1 DEF Refused
  <2> DEFINE s == Effect(recovery, q)
  <2>3. /\ s.data = [recovery.data EXCEPT ![q.part] = q.shown.image.data]
        /\ s.due[q.part]
        /\ \A o \in Scopes \ {q.part} : s.points[o] = recovery.points[o]
        /\ \E y \in Newest(1, s.points[q.part]) : y.image.data = recovery.data[q.part]
    BY <1>1, <1>2, <1>4, <2>1, RestoreFacts
  <2>4. recovery' = s
    OBVIOUS
  <2> HIDE DEF s
  <2>5. recovery.data \in [Scopes -> Nat]
    BY <1>1, HostIs
  <2>6. recovery'.data[q.part] = q.shown.image.data
    BY <1>1, <2>3, <2>4, <2>5
  <2>7. \A o \in Scopes \ {q.part} : recovery'.data[o] = recovery.data[o]
    BY <2>3, <2>4, <2>5
  <2>8. ReviewHolds(q)
    BY <1>2, <1>4, <2>6 DEF ReviewHolds
  <2>9. ReplacedStateIsKept(q)
    BY <2>3, <2>4, <2>7 DEF ReplacedStateIsKept
  <2>10. q.part = "addon" => ExtensionsFit
    BY <2>2, <2>6, <2>7 DEF ExtensionsFit, CompatibleContext, Scopes
  <2> QED BY <2>8, <2>9, <2>10
<1> QED BY <1>1, <1>3, <1>4

LEMMA ServedAsReviewed ==
  ASSUME PointsInv, [PointsNext]_pointVars,
         NEW q \in Carried, q.kind \in {"restore", "revert", "delete"}
  PROVE  /\ ReviewHolds(q)
         /\ q.kind # "delete" => ReplacedStateIsKept(q)
         /\ q.kind # "delete" /\ q.part = "addon" => ExtensionsFit
<1>1. PICK x \in wire \ wire' : q = x.req /\ ~Refused(recovery, x.req)
  BY DEF Carried
<1>2. PICK m \in wire : HostServes(m)
  BY <1>1 DEF PointsNext, pointVars, Others, MinutePasses, Refresh, Create, Review, Revert,
     CloseReview, Confirm, Import, HostLists, Hear, RequestFails, ImportSucceeds, ImportFails,
     Reopen, Select, Sent
<1>3. x = m
  BY <1>1, <1>2 DEF HostServes
<1>4. recovery' = Effect(recovery, q) /\ ~Refused(recovery, q)
  BY <1>1, <1>2, <1>3 DEF HostServes, HostDoes
<1>5. HostInv(recovery) /\ GoodReview(recovery, q)
  BY <1>1 DEF PointsInv, WireInv
<1> QED BY <1>4, <1>5, CarriedAsReviewed

\* A restore, a revert or a deletion that the DM reviewed does to the state that was reviewed
\* what was reviewed, however late the host serves it, and what a restore replaces is kept.
THEOREM PointsAreRestoredAsReviewed == RestoresSpec => RestoresAreReviewed
<1>1. RestoresInit => PointsInv
  BY PointsBegin DEF RestoresInit
<1>2. [RestoresNext]_restoreVars => [PointsNext]_pointVars
  BY DEF RestoresNext, restoreVars
<1>3. PointsInv /\ [PointsNext]_pointVars => PointsInv'
  BY PointsStep
<1>4. PointsInv /\ [PointsNext]_pointVars =>
        [\A q \in Carried : q.kind \in {"restore", "revert", "delete"} =>
          /\ ReviewHolds(q)
          /\ q.kind # "delete" => ReplacedStateIsKept(q)
          /\ q.kind # "delete" /\ q.part = "addon" => ExtensionsFit]_pointVars
  BY ServedAsReviewed
<1> QED BY <1>1, <1>2, <1>3, <1>4, PTL DEF RestoresSpec, RestoresAreReviewed

================================================================================
