---------------------------- MODULE InstallPromise -----------------------------
(***************************************************************************)
(* What a restore promises the operator, whatever files it moves and       *)
(* wherever it is interrupted: a restore takes effect at one moment, while *)
(* no host serves, and every later start of the host serves that           *)
(* installation and nothing mixed from two.  RestoreJournal shows that the *)
(* journaled move of internal/backuparchive/staged.go keeps this promise.  *)
(***************************************************************************)
EXTENDS Integers

CONSTANTS
  Installations,   \* the first installation and the archives restored over it
  Down             \* no host serves

VARIABLES
  chosen,   \* the installation the next start of the host must serve
  served    \* the installation the running host serves, or Down

vars == <<chosen, served>>

Init == chosen \in Installations /\ served = Down

Restore ==
  /\ served = Down
  /\ chosen' \in Installations /\ chosen' > chosen
  /\ UNCHANGED served

Serve == served = Down /\ served' = chosen /\ UNCHANGED chosen

Stop == served # Down /\ served' = Down /\ UNCHANGED chosen

Next == Restore \/ Serve \/ Stop

Spec == Init /\ [][Next]_vars
================================================================================
