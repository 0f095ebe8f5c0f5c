----------------------------- MODULE MCReadPath -----------------------------
(* Instances of ReadPath for TLC.                                          *)
EXTENDS ReadPath

CONSTANTS r1, r2, x1

MiddleSector == {{1}}
WithErrors   == {{}, {0, 1, 2}, {2, 3}}   \* one past a Size of 3
=============================================================================
