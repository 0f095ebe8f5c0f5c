--------------------------- MODULE MCPnpDispatch ---------------------------
(* Instances of PnpDispatch for TLC.                                       *)
EXTENDS PnpDispatch

CONSTANTS p1, p2, p3

TwoLengths == {1, 2}
=============================================================================
