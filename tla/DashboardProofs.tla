--------------------------- MODULE DashboardProofs ---------------------------
(***************************************************************************)
(* What the dashboard shows, for any number of open polls, any states and  *)
(* any restarts of the proxy.                                              *)
(***************************************************************************)
EXTENDS Dashboard, TLAPS

USE DEF page, plant

\* Whatever else answers have overwritten, an answer that is not marked as old
\* was true after its request was sent.
FreshInv ==
    \A p \in Polls :
        /\ poll[p].at # "closed" => ctl \in poll[p].since
        /\ poll[p].at \in {"read", "answered"} /\ ~poll[p].old
              => poll[p].state \in poll[p].since
-----------------------------------------------------------------------------
LEMMA InitDash == Init => DashTypeOK /\ FreshInv
<1> SUFFICES ASSUME Init PROVE DashTypeOK /\ FreshInv
    OBVIOUS
<1>1. Closed \in Requests /\ Closed.at = "closed"
    BY DEF Closed, Requests
<1>2. \A p \in Polls : poll[p] = Closed
    BY DEF Init
<1>3. poll \in [Polls -> Requests]
    BY <1>1 DEF Init
<1>4. restarts \in 0..MAX_RESTARTS
    BY RestartAssumption DEF Init
<1>5. DashTypeOK
    BY <1>1, <1>2, <1>3, <1>4 DEF Init, DashTypeOK
<1>6. FreshInv
    BY <1>1, <1>2 DEF FreshInv
<1> QED
    BY <1>5, <1>6

\* The effect of the steps that concern one request: the others are left alone.
LEMMA DashTypesKept == DashTypeOK /\ [Next]_vars => DashTypeOK'
<1> SUFFICES ASSUME DashTypeOK, [Next]_vars PROVE DashTypeOK'
    OBVIOUS
<1> USE DEF DashTypeOK, Requests, Closed
<1>1. ASSUME NEW p \in Polls, Ask(p), UNCHANGED <<ctl, up, last, shown, stale, restarts>>,
             cmd' \in {"none", "sent", "answered"}
      PROVE  DashTypeOK'
    BY <1>1 DEF Ask
<1>2. CASE Tick
    BY <1>1, <1>2 DEF Tick
<1>3. CASE Click
    BY <1>3 DEF Click
<1>4. CASE AskAfterCommand
    BY <1>1, <1>4 DEF AskAfterCommand
<1>5. ASSUME NEW p \in Polls, Read(p) PROVE DashTypeOK'
    BY <1>5, StateAssumption DEF Read
<1>6. ASSUME NEW p \in Polls, Store(p) PROVE DashTypeOK'
    BY <1>6 DEF Store
<1>7. ASSUME NEW p \in Polls, FallBack(p) PROVE DashTypeOK'
  <2>1. CASE last = None
      BY <1>7, <2>1 DEF FallBack
  <2>2. CASE last # None
      BY <1>7, <2>2 DEF FallBack
  <2> QED
      BY <2>1, <2>2
<1>8. ASSUME NEW p \in Polls, Receive(p) PROVE DashTypeOK'
    BY <1>8 DEF Receive
<1>9. CASE AnswerCommand
    BY <1>9 DEF AnswerCommand
<1>10. CASE RestartProxy
    BY <1>10, RestartAssumption DEF RestartProxy
<1>11. CASE Evolve
    BY <1>11 DEF Evolve
<1>12. CASE Reach
    BY <1>12 DEF Reach
<1>13. CASE UNCHANGED vars
    BY <1>13 DEF vars
<1> QED
    BY <1>2, <1>3, <1>4, <1>5, <1>6, <1>7, <1>8, <1>9, <1>10, <1>11, <1>12, <1>13 DEF Next

LEMMA FreshKept == DashTypeOK /\ FreshInv /\ [Next]_vars => FreshInv'
<1> SUFFICES ASSUME DashTypeOK, FreshInv, [Next]_vars PROVE FreshInv'
    OBVIOUS
<1>0. poll \in [Polls -> Requests] /\ ctl \in States
    BY DEF DashTypeOK
<1> USE DEF FreshInv, Requests, Closed
<1>1. ASSUME NEW p \in Polls, Ask(p), UNCHANGED ctl PROVE FreshInv'
    BY <1>0, <1>1 DEF Ask
<1>2. ASSUME NEW p \in Polls, Read(p) PROVE FreshInv'
    BY <1>0, <1>2 DEF Read
<1>3. ASSUME NEW p \in Polls, Store(p) PROVE FreshInv'
    BY <1>0, <1>3 DEF Store
<1>4. ASSUME NEW p \in Polls, FallBack(p) PROVE FreshInv'
  <2>1. CASE last = None
      BY <1>0, <1>4, <2>1 DEF FallBack
  <2>2. CASE last # None
      BY <1>0, <1>4, <2>2 DEF FallBack
  <2> QED
      BY <2>1, <2>2
<1>5. ASSUME NEW p \in Polls, Receive(p) PROVE FreshInv'
    BY <1>0, <1>5 DEF Receive
<1>6. CASE RestartProxy
    BY <1>0, <1>6 DEF RestartProxy
<1>7. CASE Evolve
    BY <1>0, <1>7 DEF Evolve
<1>8. CASE Click \/ AnswerCommand \/ Reach \/ UNCHANGED vars
    BY <1>8 DEF Click, AnswerCommand, Reach, vars
<1> QED
    BY <1>1, <1>2, <1>3, <1>4, <1>5, <1>6, <1>7, <1>8 DEF Next, Tick, AskAfterCommand

LEMMA DashInvariant == Spec => [](DashTypeOK /\ FreshInv)
    BY InitDash, DashTypesKept, FreshKept, PTL DEF Spec

\* The variables keep their types, and no poll is answered without a state.
THEOREM DashTypes == Spec => []DashTypeOK
    BY DashInvariant, PTL

\* An answer brings a state, and a display without the warning was true after its request was sent, however
\* many polls overlap and whatever _last_state held in between.
THEOREM DashHonest == Spec => HonestDisplay
<1>1. DashTypeOK /\ FreshInv /\ [Next]_vars =>
        [\A p \in Polls : Receive(p) =>
            shown' # None /\ (~stale' => shown' \in poll[p].since)]_vars
    BY DEF DashTypeOK, FreshInv, Receive
<1> QED
    BY DashInvariant, <1>1, PTL DEF Spec, HonestDisplay
=============================================================================
