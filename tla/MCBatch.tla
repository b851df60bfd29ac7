------------------------------ MODULE MCBatch ------------------------------
(* Two recipes, one with the guard's own limit and one with a lower one.   *)
EXTENDS BatchController

PressureBands == {2, 5, 7}     \* normal, above the low limit, above both
LowLimit  == [a |-> 3, b |-> 2, duration |-> 2, rpm |-> 45, limit |-> 4]
HighLimit == [a |-> 2, b |-> 3, duration |-> 1, rpm |-> 30, limit |-> 6]
TwoRecipes == {LowLimit, HighLimit}
OneOrTwo   == {1, 2}
=============================================================================
