-------------------------- MODULE MCWasherRequests --------------------------
(* The controller under every order of start, stop and reset requests.     *)
EXTENDS WasherController

AllOps        == {"start", "stop", "reset"}
TwoLevels     == {0, 2}
Ambient       == {20}
AnyLockResult == BOOLEAN
=============================================================================
