---------------------------- MODULE MCRecoveryOrder ----------------------------
EXTENDS RecoveryOrder

\* Every graph of three add-ons in which an add-on is at most one of required
\* and optional for another: all chains, diamonds and cycles.
Edges == {e \in Addons \X Addons : e[1] # e[2]}
Of(R) == [a \in Addons |-> {p \in Addons : <<a, p>> \in R}]
AllGraphs == {[needs |-> Of(R), uses |-> Of(U)] :
                <<R, U>> \in {x \in (SUBSET Edges) \X (SUBSET Edges) : x[1] \cap x[2] = {}}}
================================================================================
