--------------------------- MODULE PressureGuard ---------------------------
(***************************************************************************)
(* The pressure watchdog of the batch mixer: a thread that reads the       *)
(* sensor every 100 ms and latches a trip, and acknowledge(), which the    *)
(* controller's thread calls to clear it.  Each is a read of the sensor    *)
(* followed by a store, and the two threads interleave between them.       *)
(*                                                                         *)
(* A pressure is one number per interval the thresholds tell apart.  Noise *)
(* and injectPressure() may change it between any two reads.               *)
(***************************************************************************)
EXTENDS Integers

CONSTANTS
    Pressures,   \* what read() may return
    NOMINAL,     \* the pressure at start
    threshold    \* threshold_, fixed when the guard is constructed

ASSUME PressureAssumption == /\ Pressures \subseteq Nat /\ NOMINAL \in Pressures
                             /\ threshold \in Nat

VARIABLES
    pressure,    \* the process value behind PressureSensor::read()
    tripped,     \* tripped_
    watcher,     \* the watcher thread: about to read, or to store a trip
    clearing     \* acknowledge() has read a low pressure and not yet stored

guard == <<pressure, tripped, watcher, clearing>>

GuardInit ==
    /\ pressure = NOMINAL /\ tripped = FALSE
    /\ watcher = "reading" /\ clearing = FALSE

SensorChange ==
    /\ pressure' \in Pressures \ {pressure}
    /\ UNCHANGED <<tripped, watcher, clearing>>

\* double p = sensor_.read(); if (p > threshold_) ...; otherwise sleep.
WatcherRead ==
    /\ watcher = "reading" /\ pressure > threshold
    /\ watcher' = "tripping"
    /\ UNCHANGED <<pressure, tripped, clearing>>

\* tripped_.store(true), then sleep.
WatcherTrip ==
    /\ watcher = "tripping"
    /\ tripped' = TRUE /\ watcher' = "reading"
    /\ UNCHANGED <<pressure, clearing>>

\* acknowledge() up to its check; with too high a reading it returns false.
AckRead ==
    /\ ~clearing /\ pressure < threshold
    /\ clearing' = TRUE
    /\ UNCHANGED <<pressure, tripped, watcher>>

\* tripped_.store(false); return true;
AckClear ==
    /\ clearing
    /\ tripped' = FALSE /\ clearing' = FALSE
    /\ UNCHANGED <<pressure, watcher>>

GuardTypeOK ==
    /\ pressure \in Pressures /\ tripped \in BOOLEAN
    /\ watcher \in {"reading", "tripping"} /\ clearing \in BOOLEAN
=============================================================================
