----------------------------- MODULE MCVisibility -----------------------------
(* SerialVisibility on a small instance; Visibility.cfg gives it.          *)
EXTENDS SerialVisibility, TLC

(* Workers are interchangeable.                                            *)
Symmetry == Permutations(Workers)
=============================================================================
