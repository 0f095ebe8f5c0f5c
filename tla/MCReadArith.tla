---------------------------- MODULE MCReadArith ----------------------------
(* Instances of ReadArith for TLC: a block of 2 bytes, a device of 3       *)
(* blocks, a word of 4 bits.                                               *)
EXTENDS ReadArith

AllOffsets == 0 .. 7
AllLengths == 0 .. 6
=============================================================================
