----------------------------- MODULE MCViewServer -----------------------------
(* ViewServer on small instances; the .cfg files give the constants.       *)
EXTENDS ViewServer, TLC

(* Workers are interchangeable.                                            *)
Symmetry == Permutations(Workers)
=============================================================================
