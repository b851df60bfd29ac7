--------------------------- MODULE MCBatchService ---------------------------
(* MCBatch's recipes, under a program's calls and under the service.       *)
EXTENDS BatchService

PressureBands == {2, 5, 7}
LowLimit  == [a |-> 3, b |-> 2, duration |-> 2, rpm |-> 45, limit |-> 4]
HighLimit == [a |-> 2, b |-> 3, duration |-> 1, rpm |-> 30, limit |-> 6]
TwoRecipes == {LowLimit, HighLimit}
OneOrTwo   == {1, 2}
=============================================================================
