-------------------------- MODULE BatchController --------------------------
(***************************************************************************)
(* The batch mixer's controller: dosing of two materials, mixing and       *)
(* discharge, driven by step(dt) calls from one thread, with the pressure  *)
(* guard's thread beside it.                                               *)
(*                                                                         *)
(* Every call is one step of the model except acknowledge(): the others    *)
(* touch only what belongs to the controller's thread, apart from the one  *)
(* read of tripped_ with which step() begins.                              *)
(*                                                                         *)
(* Masses are counted in units of the tolerance's resolution, mixing time  *)
(* in steps of dt.  MixerDrum's temperature is left out: nothing reads it. *)
(***************************************************************************)
EXTENDS PressureGuard

CONSTANTS
    Recipes,          \* the recipes that may be loaded
    MassTolerance,    \* kMassTolerance
    Increments        \* what a scale may gain in one step: flow and noise

DefaultRecipe == [a |-> 0, b |-> 0, duration |-> 0, rpm |-> 0, limit |-> threshold]

RecipeType == [a : Nat, b : Nat, duration : Nat, rpm : Nat, limit : Nat]

ASSUME RecipeAssumption == Recipes \subseteq RecipeType
ASSUME DoseAssumption   == MassTolerance \in Nat /\ Increments \subseteq Nat \ {0}

VARIABLES
    state,                     \* state_
    recipe,                    \* recipe_
    siloA, siloB, discharge,   \* is the valve open?
    leaky,                     \* Valve::leak_ of some valve: selfTest() fails
    scaleA, scaleB,            \* WeighingScale: its mass, whether it is filling
    drum,                      \* MixerDrum: target_rpm_ and rpm_
    elapsed                    \* elapsed_s_

valves == <<siloA, siloB, discharge>>
scales == <<scaleA, scaleB>>
vars   == <<guard, state, recipe, valves, leaky, scales, drum, elapsed>>

States  == {"IDLE", "SILO_DRAIN", "SCALE_FILL", "MIXING", "DISCHARGE", "EMERGENCY_STOP"}
Empty   == [mass |-> 0, filling |-> FALSE]
Stopped == [target |-> 0, rpm |-> 0]

Init ==
    /\ GuardInit
    /\ state = "IDLE" /\ recipe = DefaultRecipe
    /\ siloA = FALSE /\ siloB = FALSE /\ discharge = FALSE
    /\ leaky \in BOOLEAN
    /\ scaleA = Empty /\ scaleB = Empty
    /\ drum = Stopped
    /\ elapsed = 0
-----------------------------------------------------------------------------
\* The controller's thread is in one call at a time.
Free == ~clearing

\* loadRecipe() throws while a batch runs.  guard_ keeps its threshold.
LoadRecipe(r) ==
    /\ Free /\ state = "IDLE"
    /\ recipe' = r
    /\ UNCHANGED <<guard, state, valves, leaky, scales, drum, elapsed>>

\* Mutant: the scales are not reset.
StartUnreset ==
    /\ Free /\ state = "IDLE" /\ ~leaky
    /\ scaleA' = [scaleA EXCEPT !.filling = TRUE] /\ UNCHANGED scaleB
    /\ elapsed' = 0
    /\ state' = "SILO_DRAIN"
    /\ siloA' = TRUE
    /\ UNCHANGED <<guard, recipe, siloB, discharge, leaky, drum>>

\* start() does not ask the guard.
Start ==
    /\ Free /\ state = "IDLE" /\ ~leaky
    /\ scaleA' = [Empty EXCEPT !.filling = TRUE] /\ scaleB' = Empty
    /\ elapsed' = 0
    /\ state' = "SILO_DRAIN"
    /\ siloA' = TRUE
    /\ UNCHANGED <<guard, recipe, siloB, discharge, leaky, drum>>

\* Mutant: the emergency stop leaves the discharge valve alone.
CloseSilos == siloA' = FALSE /\ siloB' = FALSE /\ UNCHANGED discharge

CloseValves == siloA' = FALSE /\ siloB' = FALSE /\ discharge' = FALSE

\* Mutant: an idle mixer is not stopped.
StepTrippedInBatch ==
    /\ Free /\ tripped /\ state \notin {"IDLE", "EMERGENCY_STOP"}
    /\ CloseValves
    /\ drum' = Stopped
    /\ state' = "EMERGENCY_STOP"
    /\ UNCHANGED <<guard, recipe, leaky, scales, elapsed>>

\* The first lines of step(), from any state but EMERGENCY_STOP itself.
StepTripped ==
    /\ Free /\ tripped /\ state # "EMERGENCY_STOP"
    /\ CloseValves
    /\ drum' = Stopped
    /\ state' = "EMERGENCY_STOP"
    /\ UNCHANGED <<guard, recipe, leaky, scales, elapsed>>

\* Mutant: a trip is seen in MIXING only.
OnlyMixingGuarded == Free /\ ~(tripped /\ state = "MIXING")

\* step() gets to its switch.
Runs == Free /\ ~tripped

Gain(scale) ==
    IF scale.filling THEN {[scale EXCEPT !.mass = @ + i] : i \in Increments} ELSE {scale}

Reached(scale, target) == scale.mass >= target - MassTolerance

StepSiloDrain ==
    /\ Runs /\ state = "SILO_DRAIN"
    /\ \E weighed \in Gain(scaleA) :
          IF Reached(weighed, recipe.a)
            THEN /\ siloA' = FALSE /\ siloB' = TRUE
                 /\ scaleA' = [weighed EXCEPT !.filling = FALSE]
                 /\ scaleB' = [scaleB EXCEPT !.filling = TRUE]
                 /\ state' = "SCALE_FILL"
            ELSE /\ scaleA' = weighed
                 /\ UNCHANGED <<siloA, siloB, scaleB, state>>
    /\ UNCHANGED <<guard, recipe, discharge, leaky, drum, elapsed>>

StepScaleFill ==
    /\ Runs /\ state = "SCALE_FILL"
    /\ \E weighed \in Gain(scaleB) :
          IF Reached(weighed, recipe.b)
            THEN /\ siloB' = FALSE
                 /\ scaleB' = [weighed EXCEPT !.filling = FALSE]
                 /\ drum' = [drum EXCEPT !.target = recipe.rpm]
                 /\ state' = "MIXING"
            ELSE /\ scaleB' = weighed
                 /\ UNCHANGED <<siloB, drum, state>>
    /\ UNCHANGED <<guard, recipe, siloA, discharge, leaky, scaleA, elapsed>>

\* Mutant: dt, half a second, is lost in an integer.
StepMixingTruncated ==
    /\ Runs /\ state = "MIXING"
    /\ elapsed' = elapsed
    /\ IF elapsed' >= recipe.duration
         THEN drum' = Stopped /\ discharge' = TRUE /\ state' = "DISCHARGE"
         ELSE drum' = [drum EXCEPT !.rpm = drum.target] /\ UNCHANGED <<discharge, state>>
    /\ UNCHANGED <<guard, recipe, siloA, siloB, leaky, scales>>

\* Mutant: mixing waits for the speed that only mixing sets.
StepMixingAtSpeed ==
    /\ Runs /\ state = "MIXING" /\ drum.rpm = drum.target
    /\ elapsed' = elapsed + 1
    /\ IF elapsed' >= recipe.duration
         THEN drum' = Stopped /\ discharge' = TRUE /\ state' = "DISCHARGE"
         ELSE drum' = [drum EXCEPT !.rpm = drum.target] /\ UNCHANGED <<discharge, state>>
    /\ UNCHANGED <<guard, recipe, siloA, siloB, leaky, scales>>

StepMixing ==
    /\ Runs /\ state = "MIXING"
    /\ elapsed' = elapsed + 1
    /\ IF elapsed' >= recipe.duration
         THEN drum' = Stopped /\ discharge' = TRUE /\ state' = "DISCHARGE"
         ELSE drum' = [drum EXCEPT !.rpm = drum.target] /\ UNCHANGED <<discharge, state>>
    /\ UNCHANGED <<guard, recipe, siloA, siloB, leaky, scales>>

StepDischarge ==
    /\ Runs /\ state = "DISCHARGE"
    /\ discharge' = FALSE
    /\ state' = "IDLE"
    /\ UNCHANGED <<guard, recipe, siloA, siloB, leaky, scales, drum, elapsed>>

Step == StepTripped \/ StepSiloDrain \/ StepScaleFill \/ StepMixing \/ StepDischarge

\* acknowledge(), ignored outside EMERGENCY_STOP.
Acknowledge ==
    /\ state = "EMERGENCY_STOP" /\ AckRead
    /\ UNCHANGED <<state, recipe, valves, leaky, scales, drum, elapsed>>

AcknowledgeClear ==
    /\ AckClear
    /\ state' = "IDLE"
    /\ UNCHANGED <<recipe, valves, leaky, scales, drum, elapsed>>

Watch ==
    /\ WatcherRead \/ WatcherTrip
    /\ UNCHANGED <<state, recipe, valves, leaky, scales, drum, elapsed>>

Pressure ==
    /\ SensorChange
    /\ UNCHANGED <<state, recipe, valves, leaky, scales, drum, elapsed>>

Next == \/ \E r \in Recipes : LoadRecipe(r)
        \/ Start \/ Step \/ Acknowledge \/ AcknowledgeClear
        \/ Watch \/ Pressure

Spec == Init /\ [][Next]_vars

\* The watcher and the thread that calls step() in a loop are scheduled; a
\* call that has begun ends.
Fairness == WF_vars(Watch) /\ WF_vars(Step) /\ WF_vars(AcknowledgeClear)

FairSpec == Spec /\ Fairness
-----------------------------------------------------------------------------

(* Safety.                                                                 *)

\* The variables have the types of the fields they model.
TypeOK ==
    /\ GuardTypeOK
    /\ state \in States /\ recipe \in RecipeType
    /\ siloA \in BOOLEAN /\ siloB \in BOOLEAN /\ discharge \in BOOLEAN
    /\ leaky \in BOOLEAN
    /\ scaleA \in [mass : Nat, filling : BOOLEAN]
    /\ scaleB \in [mass : Nat, filling : BOOLEAN]
    /\ drum \in [target : Nat, rpm : Nat]
    /\ elapsed \in Nat

\* Each state uses its own actuators and no others, whatever step a trip came
\* before: both silos are never open together, nothing is discharged while it
\* is dosed or mixed, and an idle or stopped mixer is closed and still.
ActuatorsFollowState ==
    /\ siloA <=> state = "SILO_DRAIN"
    /\ siloB <=> state = "SCALE_FILL"
    /\ discharge <=> state = "DISCHARGE"
    /\ state # "MIXING" => drum = Stopped

\* A dose is within the tolerance below, and overshoots by less than the last
\* gain of the scale.
Dosed(scale, target) ==
    /\ Reached(scale, target)
    /\ \E i \in Increments : scale.mass = i \/ ~Reached([scale EXCEPT !.mass = @ - i], target)

\* What is mixed and discharged is what the loaded recipe orders: a batch keeps
\* its recipe, and what an earlier, interrupted batch weighed does not count.
DosesAsOrdered ==
    /\ state \in {"SCALE_FILL", "MIXING", "DISCHARGE"} => Dosed(scaleA, recipe.a)
    /\ state \in {"MIXING", "DISCHARGE"} => Dosed(scaleB, recipe.b)

\* Once tripped, the batch goes nowhere but to EMERGENCY_STOP, at the next step.
TripPreempts ==
    [][tripped /\ state \notin {"IDLE", "EMERGENCY_STOP"}
          => state' \in {state, "EMERGENCY_STOP"}]_vars

\* A bound on the calls of step() that a batch still takes: one for each unit
\* that is missing on a scale and each step of mixing, and one per state.
Left(target, value) == IF value < target THEN target - value ELSE 0

StepsLeft ==
    CASE state = "SILO_DRAIN" -> 4 + Left(recipe.a, scaleA.mass) + recipe.b + recipe.duration
      [] state = "SCALE_FILL" -> 3 + Left(recipe.b, scaleB.mass) + recipe.duration
      [] state = "MIXING"     -> 2 + Left(recipe.duration, elapsed)
      [] state = "DISCHARGE"  -> 1
      [] OTHER                -> 0

\* No call of step() in a batch is wasted: each leaves fewer to go, and nothing
\* else that happens, at whatever point of the batch, adds to them.
BatchProgresses ==
    [][state \notin {"IDLE", "EMERGENCY_STOP"}
          => StepsLeft' <= StepsLeft /\ (Step => StepsLeft' < StepsLeft)]_vars

(* What the documents say and the code does not do.                        *)

\* migrations/003_add_pressure_threshold.sql:1: the trip threshold is that of
\* the recipe.
RecipeLimitEnforced ==
    (pressure > recipe.limit /\ state # "EMERGENCY_STOP")
        ~> (pressure <= recipe.limit \/ state = "EMERGENCY_STOP")
=============================================================================
