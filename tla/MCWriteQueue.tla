---------------------------- MODULE MCWriteQueue ----------------------------
(* Instances of WriteQueue for TLC.                                        *)
EXTENDS WriteQueue

CONSTANTS r1, r2, r3

Symmetry == Permutations(Irps)

OneRange   == {{0}}
TwoRanges  == {{0}, {0, 1}}
WithErrors == {{}, {0}, {0, 1, 2}}   \* an empty one, one past a Size of 2
=============================================================================
