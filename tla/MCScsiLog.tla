----------------------------- MODULE MCScsiLog -----------------------------
(* Instances of LogReader for TLC.                                         *)
EXTENDS LogReader, TLC

CONSTANTS s1, s2, s3

Symmetry == Permutations(Irps)
=============================================================================
