-------------------------------- MODULE Pid --------------------------------
(***************************************************************************)
(* The discrete PID controller (bare_metal_foc/src/pid.c) in integers: an  *)
(* error is counted in steps that KP turns into steps of the output, and   *)
(* the time step is folded into the integral's and derivative's gains (KI  *)
(* is ki * dt, KD is kd / dt, the integrator is counted in steps of dt).   *)
(* The gains are those of pid_gains.h, all positive: the branch of         *)
(* PID_update for ki = 0 is dead.  Rounding of floats is left out.         *)
(***************************************************************************)
EXTENDS Integers

CONSTANTS
    KP, KI, KD,  \* PID_KP, PID_KI * PID_DT, PID_KD / PID_DT
    CLAMP        \* PID_CLAMP_MAX, and -PID_CLAMP_MIN

ASSUME GainAssumption == /\ KP \in Nat /\ KD \in Nat /\ CLAMP \in Nat
                         /\ KI \in Nat \ {0} /\ CLAMP % KI = 0

VARIABLES integrator, prevError

pid == <<integrator, prevError>>

PidInit == integrator = 0 /\ prevError = 0

Clamp(x, limit) == IF x > limit THEN limit ELSE IF x < -limit THEN -limit ELSE x

\* Mutant: the limit of the output taken for that of the integrator.
ClampAsLimit == CLAMP

\* int_limit, in the integrator's unit.
IntLimit == CLAMP \div KI

\* The integrator after a sample of error e.
Integrate(e) == Clamp(integrator + e, IntLimit)

\* The other two terms of PID_update for error e.
PD(e) == KP * e + KD * (e - prevError)

\* Mutant: the sum of the terms is not clamped again.
OutputUnclamped(e) == PD(e) + KI * Integrate(e)

\* What PID_update returns.
Output(e) == Clamp(PD(e) + KI * Integrate(e), CLAMP)

PidUpdate(e) == integrator' = Integrate(e) /\ prevError' = e

PidReset == integrator' = 0 /\ prevError' = 0
=============================================================================
