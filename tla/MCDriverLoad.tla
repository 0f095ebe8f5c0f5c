---------------------------- MODULE MCDriverLoad ----------------------------
(* Instances of DriverLoad for TLC: a LONGLONG has two bytes of two values, *)
(* and its buffer takes three; the shortest name with its null has 6; the  *)
(* longest list is one byte longer than a USHORT can say.                  *)
EXTENDS DriverLoad, TLC

CONSTANTS d1, d2

SomeValues  == {<<>>, <<0>>, <<0, 1>>, <<1, 0, 1>>, <<0, 0, 0, 1>>}
DefaultSize == <<1, 1>>
SomeLists   == [names : {<<>>, <<d1>>, <<d1, d2>>, <<d1, d1>>}, tail : {0, 2, 4}]
NameLengths == d1 :> 4 @@ d2 :> 6
=============================================================================
