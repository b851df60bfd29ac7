------------------------------- MODULE MCFoc -------------------------------
(* Gains that saturate the integrator in one sample; the output's clamp   *)
(* (200 Nm) is beyond what a frame carries (127 Nm), as in the code.       *)
EXTENDS FocNode

SomeErrors  == {-2, 1}
HalfCharged == {[soc |-> 80, rpm |-> 258]}
=============================================================================
