---------------------------- MODULE MCScsiPaging ----------------------------
(* Instances of ScsiPaging for TLC.                                        *)
EXTENDS ScsiPaging

CONSTANTS p1, p2, p3

NoLength == {0}
=============================================================================
