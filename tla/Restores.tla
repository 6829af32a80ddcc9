------------------------------- MODULE Restores -------------------------------
(***************************************************************************)
(* The two ways back to an earlier campaign: a full archive, installed     *)
(* while the host is down, and a recovery point, restored while it serves. *)
(* They share nothing but the data, which either replaces as a whole; each *)
(* behaviour is one of one way.                                            *)
(***************************************************************************)
EXTENDS RestoreJournal, RecoveryPoints

VARIABLE way   \* "archive" or "points"

restoreVars == <<way, vars, pointVars>>

\* The DM's campaign is on a server that has everything an archive may hold.
RestoresInit ==
  /\ way \in {"archive", "points"} /\ Init /\ PointsInit
  /\ way = "points" => holds[0] = Moved

Archive(A) == way = "archive" /\ A

RestoresNext ==
  /\ UNCHANGED way
  /\ \/ Archive(Next) /\ UNCHANGED pointVars
     \/ way = "points" /\ PointsNext /\ UNCHANGED vars

\* The fairness of RestoreJournal, for the installation of an archive.
RestoresSpec ==
  /\ RestoresInit /\ [][RestoresNext]_restoreVars
  /\ \A p \in {"host", "restore"} : WF_vars(Archive(FinishStaged(p)))
  /\ WF_vars(Archive(Stage)) /\ WF_vars(Archive(OpenHost)) /\ SF_vars(Archive(StartHost))
  /\ WF_vars(Archive(ToolLocks \/ ToolOpens \/ ToolEnds))
================================================================================
