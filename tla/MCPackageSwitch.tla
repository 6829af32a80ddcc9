--------------------------- MODULE MCPackageSwitch ---------------------------
(***************************************************************************)
(* Two generations of one add-on, with the same schema or with two.        *)
(***************************************************************************)
EXTENDS PackageSwitch, TLC

CONSTANTS g1, g2, s1, s2, r1, r2, w1, w2

OneSchema == g1 :> s1 @@ g2 :> s1
TwoSchemas == g1 :> s1 @@ g2 :> s2

\* Reviews and documents only differ by name.
Symmetry == Permutations(Reviews) \cup Permutations(Writes)
=============================================================================
