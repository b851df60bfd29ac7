---------------------------- MODULE MessageQueue ----------------------------
(***************************************************************************)
(* What an MQTT connection promises for QoS 0: while it lasts, messages    *)
(* arrive whole, in the order in which they were published and none twice; *)
(* with the connection a tail of them is lost, and a new one begins empty  *)
(* (clean session).                                                        *)
(***************************************************************************)
EXTENDS Integers, Sequences

CONSTANT Messages

VARIABLES
    sent,    \* published over this connection
    got,     \* delivered from it
    open     \* can the connection carry anything still?

vars == <<sent, got, open>>

Init == sent = <<>> /\ got = <<>> /\ open = TRUE

Send ==
    /\ open
    /\ \E m \in Messages : sent' = Append(sent, m)
    /\ UNCHANGED <<got, open>>

Deliver ==
    /\ Len(got) < Len(sent)
    /\ got' = Append(got, sent[Len(got) + 1])
    /\ UNCHANGED <<sent, open>>

Close ==
    /\ open /\ open' = FALSE
    /\ UNCHANGED <<sent, got>>

Renew ==
    /\ ~open /\ open' = TRUE
    /\ sent' = <<>> /\ got' = <<>>

Next == Send \/ Deliver \/ Close \/ Renew

Spec == Init /\ [][Next]_vars
=============================================================================
