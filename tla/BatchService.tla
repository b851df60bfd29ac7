---------------------------- MODULE BatchService ----------------------------
(***************************************************************************)
(* Who drives the batch controller: a program that makes any of its calls  *)
(* (tests/test_fsm.cpp), or the Windows service (windows_service.cpp).     *)
(* Beside the service's main thread, which runs one batch step by step,    *)
(* the service control manager calls HandlerEx in a thread of its own; the *)
(* two share g_status and g_running.                                       *)
(*                                                                         *)
(* SetStatus() is a write of g_status and a report of whatever it holds by *)
(* then.  The manager sends STOP only to a service that it was told is     *)
(* RUNNING, and a report after STOPPED changes nothing.                    *)
(***************************************************************************)
EXTENDS BatchController

CONSTANT Hosts   \* the programs to look at, of {"program", "service"}

VARIABLES
    host,      \* the one that runs
    svc,       \* where ServiceMain is
    armed,     \* g_running
    status,    \* g_status.dwCurrentState
    reported,  \* the state the control manager knows
    handler    \* where HandlerEx is in a STOP

control == <<armed, status, reported, handler>>
service == <<host, svc, control>>
allvars == <<vars, service>>

MainSteps == {"load", "announce", "arm", "start", "guard", "step", "stopping",
              "report", "ended"}
Statuses  == {"START_PENDING", "RUNNING", "STOP_PENDING", "STOPPED"}

\* ServiceMain is past its loop: no step will be made any more.
Leaving == svc \in {"stopping", "report", "ended"}

ServiceInit ==
    /\ Init
    /\ host \in Hosts /\ svc = "load"
    /\ armed = FALSE /\ handler = "idle"
    /\ status = "START_PENDING" /\ reported = "START_PENDING"

Report == reported' = IF reported = "STOPPED" THEN reported ELSE status
-----------------------------------------------------------------------------
(* ServiceMain.                                                            *)

Load ==
    /\ svc = "load" /\ svc' = "announce"
    /\ \E r \in Recipes : LoadRecipe(r)
    /\ UNCHANGED <<host, control>>

\* SetStatus(SERVICE_RUNNING): no control comes before this report.
Announce ==
    /\ svc = "announce" /\ svc' = "arm"
    /\ status' = "RUNNING" /\ reported' = "RUNNING"
    /\ UNCHANGED <<vars, host, armed, handler>>

\* Without regard for a STOP that has come since the report.
Arm ==
    /\ svc = "arm" /\ svc' = "start"
    /\ armed' = TRUE
    /\ UNCHANGED <<vars, host, status, reported, handler>>

\* The result of start() is not looked at.
StartBatch ==
    /\ svc = "start" /\ svc' = "guard"
    /\ Start \/ (leaky /\ UNCHANGED vars)
    /\ UNCHANGED <<host, control>>

\* Mutant: the loop does not ask.
GuardIgnored ==
    /\ svc = "guard" /\ svc' = "step"
    /\ UNCHANGED <<vars, host, control>>

Guard ==
    /\ svc = "guard"
    /\ svc' = IF armed THEN "step" ELSE "stopping"
    /\ UNCHANGED <<vars, host, control>>

\* One call of step(); an idle controller does nothing in it.
StepBatch ==
    /\ svc = "step"
    /\ Step \/ (Runs /\ state = "IDLE" /\ UNCHANGED vars)
    /\ svc' = IF state' = "EMERGENCY_STOP" THEN "stopping" ELSE "guard"
    /\ UNCHANGED <<host, control>>

WriteStopped ==
    /\ svc = "stopping" /\ svc' = "report"
    /\ status' = "STOPPED"
    /\ UNCHANGED <<vars, host, armed, reported, handler>>

\* Then ServiceMain returns; ~BatchController joins the guard's thread.
ReportStopped ==
    /\ svc = "report" /\ svc' = "ended"
    /\ Report
    /\ UNCHANGED <<vars, host, armed, status, handler>>

ServiceMain ==
    Load \/ Announce \/ Arm \/ StartBatch \/ Guard \/ StepBatch \/ WriteStopped \/ ReportStopped
-----------------------------------------------------------------------------
(* HandlerEx.                                                              *)

StopWrite ==
    /\ handler = "idle" /\ reported = "RUNNING"
    /\ status' = "STOP_PENDING" /\ handler' = "report"
    /\ UNCHANGED <<vars, host, svc, armed, reported>>

StopReport ==
    /\ handler = "report" /\ handler' = "clear"
    /\ Report
    /\ UNCHANGED <<vars, host, svc, armed, status>>

StopClear ==
    /\ handler = "clear" /\ handler' = "idle"
    /\ armed' = FALSE
    /\ UNCHANGED <<vars, host, svc, status, reported>>

Interrogate ==
    /\ reported # "START_PENDING" /\ handler = "idle"
    /\ Report
    /\ UNCHANGED <<vars, host, svc, armed, status, handler>>

HandlerEx == StopReport \/ StopClear
-----------------------------------------------------------------------------
Client ==
    /\ host = "program"
    /\ \/ \E r \in Recipes : LoadRecipe(r)
       \/ Start \/ Step \/ Acknowledge \/ AcknowledgeClear
    /\ UNCHANGED service

Guarding == Watch /\ svc # "ended" /\ UNCHANGED service

ServiceNext ==
    \/ Client
    \/ Guarding
    \/ Pressure /\ UNCHANGED service
    \/ host = "service" /\ (ServiceMain \/ StopWrite \/ HandlerEx \/ Interrogate)

ServiceSpec == ServiceInit /\ [][ServiceNext]_allvars

\* The guard's thread, the thread that calls step(), a call that has begun,
\* and the threads of the service are scheduled; STOP need not come.
ServiceFairness ==
    /\ WF_allvars(Guarding)
    /\ WF_allvars(Client /\ Step) /\ WF_allvars(Client /\ AcknowledgeClear)
    /\ WF_allvars(host = "service" /\ ServiceMain)
    /\ WF_allvars(host = "service" /\ HandlerEx)

ServiceFairSpec == ServiceSpec /\ ServiceFairness
-----------------------------------------------------------------------------
(* Safety.                                                                 *)

\* STOPPED means that the machine is left alone: however the handler's steps,
\* a trip and the loop were interleaved before, nothing moves a valve, a scale
\* or the drum once the control manager has been told so (windows_service.cpp:99).
StoppedMeansStill ==
    [][reported = "STOPPED"
         => UNCHANGED <<state, recipe, valves, leaky, scales, drum, elapsed>>]_allvars

(* Liveness.                                                               *)

\* Pressure above the guard's threshold stops the mixer or falls again; a trip
\* that acknowledge() overwrites is found anew.  A service that is leaving
\* makes no step any more.
OverpressureStops ==
    (pressure > threshold /\ state # "EMERGENCY_STOP")
        ~> (pressure <= threshold \/ state = "EMERGENCY_STOP" \/ Leaving)

\* A batch ends, in IDLE or in EMERGENCY_STOP, unless a STOP of the service
\* breaks it off.
BatchEnds == (state \notin {"IDLE", "EMERGENCY_STOP"})
                ~> (state \in {"IDLE", "EMERGENCY_STOP"} \/ (Leaving /\ ~armed))

\* A STOP that has been taken while the service is in its loop ends it, and
\* the control manager comes to know, whatever the batch is doing.
StopEnds ==
    (svc \in {"guard", "step"} /\ handler = "idle" /\ ~armed) ~> reported = "STOPPED"
=============================================================================
