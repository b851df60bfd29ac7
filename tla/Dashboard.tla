----------------------------- MODULE Dashboard -----------------------------
(***************************************************************************)
(* The washer's dashboard (static/index.html) and the proxy it talks to    *)
(* (api.py): polls of /api/state that overlap, the proxy's copy of the     *)
(* last state, commands followed by a poll, outages of the controller and  *)
(* restarts of the proxy.                                                  *)
(*                                                                         *)
(* The controller is any process that changes its state at will: what      *)
(* WasherController does, and what a command does to it, is among that.    *)
(* Of a status the state is kept; the other fields are shown with it.      *)
(***************************************************************************)
EXTENDS Naturals

CONSTANTS
    Polls,        \* requests for /api/state that may be open at a time
    States,       \* states the controller reports
    MAX_RESTARTS  \* of the proxy's container

Resting == {"IDLE", "COMPLETE", "ERROR"}
None    == "none"   \* an empty _last_state, a page that shows no state yet

ASSUME StateAssumption   == None \notin States
ASSUME RestartAssumption == MAX_RESTARTS \in Nat

VARIABLES
    ctl,       \* the controller's state
    up,        \* the controller answers within the proxy's time limit
    last,      \* the state in _last_state
    poll,      \* the requests for /api/state
    shown,     \* the state on the page
    stale,     \* the page warns that it is the last known one
    cmd,       \* the page's request for /api/cmd
    restarts   \* of the proxy so far

page  == <<shown, stale>>
plant == <<ctl, up>>
vars  == <<ctl, up, last, poll, shown, stale, cmd, restarts>>

\* since: the states the controller has had since the request was sent; the
\* code keeps no such thing, HonestDisplay needs it.
Requests == [at : {"closed", "asked", "read", "answered"},
             state : States \cup {None}, old : BOOLEAN, since : SUBSET States]

Closed == [at |-> "closed", state |-> None, old |-> FALSE, since |-> {}]

Init ==
    /\ ctl \in States /\ up \in BOOLEAN
    /\ last = None /\ poll = [p \in Polls |-> Closed]
    /\ shown = None /\ stale = FALSE
    /\ cmd = "none" /\ restarts = 0
-----------------------------------------------------------------------------
(* The page.                                                               *)

\* A button is disabled by the state shown, warning or not; before the first
\* state has come all of them are enabled.
Enabled(command) ==
    \/ shown = None
    \/ command = "start" /\ shown \in {"IDLE", "ERROR"}
    \/ command = "stop"  /\ shown \notin Resting
    \/ command = "reset" /\ shown \in {"COMPLETE", "ERROR"}

Ask(p) ==
    /\ poll[p].at = "closed"
    /\ poll' = [poll EXCEPT ![p] = [Closed EXCEPT !.at = "asked", !.since = {ctl}]]

\* setInterval does not wait for the poll before.
Tick == \E p \in Polls : Ask(p) /\ UNCHANGED <<plant, last, page, cmd, restarts>>

Click ==
    /\ cmd = "none" /\ \E c \in {"start", "stop", "reset"} : Enabled(c)
    /\ cmd' = "sent"
    /\ UNCHANGED <<plant, last, poll, page, restarts>>

\* sendCmd() polls once its command is answered, be it with an error.
AskAfterCommand ==
    /\ cmd = "answered" /\ cmd' = "none"
    /\ \E p \in Polls : Ask(p)
    /\ UNCHANGED <<plant, last, page, restarts>>

\* Mutant: the warning is not set.
ReceiveUnwarned(p) ==
    /\ poll[p].at = "answered"
    /\ shown' = poll[p].state /\ stale' = FALSE
    /\ poll' = [poll EXCEPT ![p] = Closed]
    /\ UNCHANGED <<plant, last, cmd, restarts>>

Receive(p) ==
    /\ poll[p].at = "answered"
    /\ shown' = poll[p].state /\ stale' = poll[p].old
    /\ poll' = [poll EXCEPT ![p] = Closed]
    /\ UNCHANGED <<plant, last, cmd, restarts>>
-----------------------------------------------------------------------------
(* The proxy.                                                              *)

\* Mutant: the controller is asked only while nothing is known.
ReadOnce(p) ==
    /\ poll[p].at = "asked" /\ up /\ last = None
    /\ poll' = [poll EXCEPT ![p].at = "read", ![p].state = ctl]
    /\ UNCHANGED <<plant, last, page, cmd, restarts>>

\* The controller answers the proxy's GET /state ...
Read(p) ==
    /\ poll[p].at = "asked" /\ up
    /\ poll' = [poll EXCEPT ![p].at = "read", ![p].state = ctl]
    /\ UNCHANGED <<plant, last, page, cmd, restarts>>

\* ... and get_state(), resumed, stores the answer, which may be older than
\* the one it replaces.
Store(p) ==
    /\ poll[p].at = "read"
    /\ last' = poll[p].state
    /\ poll' = [poll EXCEPT ![p].at = "answered"]
    /\ UNCHANGED <<plant, page, cmd, restarts>>

\* Mutant: the fallback is not marked.
FallBackUnmarked(p) ==
    /\ poll[p].at \in {"asked", "read"} /\ ~up
    /\ poll' = [poll EXCEPT ![p] =
                  IF last = None THEN Closed
                  ELSE [@ EXCEPT !.at = "answered", !.state = last]]
    /\ UNCHANGED <<plant, last, page, cmd, restarts>>

\* No answer in time, or it was lost: the last state with "stale", or a 503
\* that the page drops.
FallBack(p) ==
    /\ poll[p].at \in {"asked", "read"} /\ ~up
    /\ poll' = [poll EXCEPT ![p] =
                  IF last = None THEN Closed
                  ELSE [@ EXCEPT !.at = "answered", !.state = last, !.old = TRUE]]
    /\ UNCHANGED <<plant, last, page, cmd, restarts>>

\* The controller's answer to a command or, after a time-out, a 503.  In the
\* latter case the command may still be executed.
AnswerCommand ==
    /\ cmd = "sent" /\ cmd' = "answered"
    /\ UNCHANGED <<plant, last, poll, page, restarts>>

\* What the proxy was told is gone; the page's requests fail, and it stays as
\* it is.
RestartProxy ==
    /\ restarts < MAX_RESTARTS /\ restarts' = restarts + 1
    /\ last' = None
    /\ poll' = [p \in Polls |-> Closed] /\ cmd' = "none"
    /\ UNCHANGED <<plant, page>>
-----------------------------------------------------------------------------
(* The controller.                                                         *)

Evolve ==
    /\ ctl' \in States
    /\ poll' = [p \in Polls |->
                  IF poll[p].at = "closed" THEN poll[p]
                  ELSE [poll[p] EXCEPT !.since = @ \cup {ctl'}]]
    /\ UNCHANGED <<up, last, page, cmd, restarts>>

Reach == up' = ~up /\ UNCHANGED <<ctl, last, poll, page, cmd, restarts>>

Next ==
    \/ Tick \/ Click \/ AskAfterCommand
    \/ \E p \in Polls : Read(p) \/ Store(p) \/ FallBack(p) \/ Receive(p)
    \/ AnswerCommand \/ RestartProxy
    \/ Evolve \/ Reach

Fairness ==
    /\ WF_vars(Tick)
    /\ \A p \in Polls : WF_vars(Read(p) \/ Store(p) \/ FallBack(p) \/ Receive(p))

Spec     == Init /\ [][Next]_vars
FairSpec == Spec /\ Fairness
-----------------------------------------------------------------------------
(* Properties.                                                             *)

\* The variables keep their types, and an answer that the page will show has a
\* state in it (api.py:41).
DashTypeOK ==
    /\ ctl \in States /\ up \in BOOLEAN
    /\ last \in States \cup {None} /\ poll \in [Polls -> Requests]
    /\ \A p \in Polls : poll[p].at \in {"read", "answered"} => poll[p].state # None
    /\ shown \in States \cup {None} /\ stale \in BOOLEAN
    /\ cmd \in {"none", "sent", "answered"} /\ restarts \in 0..MAX_RESTARTS

\* An answer always brings a state (api.py:41), and one that the page comes to
\* show without the warning is one the controller has had since the page asked:
\* what the proxy remembers of earlier is never passed off as current.
HonestDisplay ==
    [][\A p \in Polls : Receive(p) =>
          shown' # None /\ (~stale' => shown' \in poll[p].since)]_vars

\* However polls overlap and their answers overtake each other, a controller
\* that can be reached and stays in its state comes to be shown, without the
\* warning; and while it stays in a cycle, passing from phase to phase, the
\* stop button comes to be enabled and remains so (index.html, poll, updateUI).
DisplayFollows ==
    /\ \A s \in States :
          <>[](up /\ ctl = s) => <>[](shown = s /\ ~stale)
    /\ <>[](up /\ ctl \notin Resting) => <>[](Enabled("stop") /\ ~stale)

\* A controller that stays unreachable comes to be reported on the page, once
\* the proxy remembers any state of it (api.py:42).
OutageShown == <>[](~up /\ last # None) => <>[]stale
=============================================================================
