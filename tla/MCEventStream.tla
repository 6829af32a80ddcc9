---------------------------- MODULE MCEventStream ----------------------------
(* EventStream in two settings, chosen at the start: one writer and one     *)
(* viewer, with stops of the host and pruning; and two writers with two     *)
(* viewers, rows of several audiences and resources.                        *)
EXTENDS EventStream, TLC
CONSTANTS w1, w2, player, owner, campaign, addon

VARIABLE setting

allVars == <<vars, setting>>
MCRole == (player :> "public") @@ (owner :> "dm")

\* What the small settings leave out; the bounds besides those of EventStream.
Within ==
    \/ /\ setting = "one writer"
       /\ unnotified[w2] = NoEvent /\ conn[player] = "closed" /\ session[player]
       /\ \A e \in log : e.res = campaign
    \/ setting = "two writers" /\ lastSeq <= 2 /\ stops = 0

Stays(A) == A /\ UNCHANGED setting /\ Within'

MCInit == Init /\ setting \in {"one writer", "two writers"}

MCFairness ==
    /\ \A w \in Writers : WF_allVars(Stays(Notify(w)))
    /\ \A c \in Clients :
         /\ WF_allVars(Stays(Handle(c))) /\ WF_allVars(Stays(Receive(c)))
         /\ WF_allVars(Stays(Subscribe(c))) /\ WF_allVars(Stays(SignIn(c)))
    /\ WF_allVars(Stays(Start))

MCSpec == MCInit /\ [][Stays(Next)]_allVars /\ MCFairness

\* With one writer at a time no row is lost: a quiet viewer's view is fresh, or the viewer
\* was told that a re-read failed.  Two writers who announce their rows out of order leave
\* rows behind, but only below the cursor a connection began at.
QuietViewsMissNothing ==
    /\ setting = "one writer" => QuietViewIsFreshOrAlerted
    /\ QuietGapIsBelowStart

\* With one writer at a time the view catches up for good once the bounded faults are over.
ViewsCatchUp == setting = "one writer" => <>[](stale[owner] = {} \/ alert[owner])
==============================================================================
