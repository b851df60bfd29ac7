----------------------- MODULE BatchControllerProofs -----------------------
(***************************************************************************)
(* The safety of the batch mixer for any recipes, pressures and gains.     *)
(*                                                                         *)
(* BInv says when a scale has been weighed in and when it stopped, which   *)
(* is what makes DosesAsOrdered inductive, and that the drum turns only    *)
(* while it mixes.  The last part carries the results over to the mixer    *)
(* with a program or the Windows service around it.                        *)
(***************************************************************************)
EXTENDS BatchService, TLAPS

USE DEF valves, scales, guard

\* A scale fills only while its silo is open, and starts from empty.
ScaleInv ==
    /\ state = "SILO_DRAIN" => scaleA.mass = 0 \/ ~Reached(scaleA, recipe.a)
    /\ state = "SILO_DRAIN" => scaleB = Empty
    /\ state = "SCALE_FILL" => scaleB.mass = 0 \/ ~Reached(scaleB, recipe.b)
    /\ state = "SILO_DRAIN" => scaleA.filling
    /\ state = "SCALE_FILL" => scaleB.filling

\* acknowledge() is in progress only in EMERGENCY_STOP, which is a trip.
AckInv ==
    /\ clearing => state = "EMERGENCY_STOP"
    /\ state = "EMERGENCY_STOP" => tripped

BInv == TypeOK /\ ActuatorsFollowState /\ ScaleInv /\ DosesAsOrdered /\ AckInv
-----------------------------------------------------------------------------
LEMMA InitBatch == Init => BInv
<1> SUFFICES ASSUME Init PROVE BInv
    OBVIOUS
<1>1. recipe \in RecipeType
    BY PressureAssumption DEF Init, RecipeType, DefaultRecipe
<1> QED
    BY <1>1, PressureAssumption
       DEF Init, GuardInit, BInv, TypeOK, GuardTypeOK, States, Empty, Stopped,
           ActuatorsFollowState, ScaleInv, DosesAsOrdered, AckInv

\* Types, step by step.
LEMMA TypesKept == TypeOK /\ [Next]_vars => TypeOK'
<1> SUFFICES ASSUME TypeOK, [Next]_vars PROVE TypeOK'
    OBVIOUS
<1> USE DEF TypeOK, GuardTypeOK, States, Empty, Stopped
<1>1. ASSUME NEW r \in Recipes, LoadRecipe(r) PROVE TypeOK'
    BY <1>1, RecipeAssumption DEF LoadRecipe
<1>2. CASE Start
    BY <1>2 DEF Start
<1>3. CASE StepTripped
    BY <1>3 DEF StepTripped, CloseValves
<1>4. CASE StepSiloDrain
  <2>1. PICK w \in Gain(scaleA) :
            IF Reached(w, recipe.a)
              THEN /\ siloA' = FALSE /\ siloB' = TRUE
                   /\ scaleA' = [w EXCEPT !.filling = FALSE]
                   /\ scaleB' = [scaleB EXCEPT !.filling = TRUE]
                   /\ state' = "SCALE_FILL"
              ELSE scaleA' = w /\ UNCHANGED <<siloA, siloB, scaleB, state>>
      BY <1>4 DEF StepSiloDrain
  <2>2. w \in [mass : Nat, filling : BOOLEAN]
      BY DoseAssumption DEF Gain
  <2>3. UNCHANGED <<guard, recipe, discharge, leaky, drum, elapsed>>
      BY <1>4 DEF StepSiloDrain
  <2> QED
      BY <2>1, <2>2, <2>3
<1>5. CASE StepScaleFill
  <2>1. PICK w \in Gain(scaleB) :
            IF Reached(w, recipe.b)
              THEN /\ siloB' = FALSE
                   /\ scaleB' = [w EXCEPT !.filling = FALSE]
                   /\ drum' = [drum EXCEPT !.target = recipe.rpm]
                   /\ state' = "MIXING"
              ELSE scaleB' = w /\ UNCHANGED <<siloB, drum, state>>
      BY <1>5 DEF StepScaleFill
  <2>2. w \in [mass : Nat, filling : BOOLEAN]
      BY DoseAssumption DEF Gain
  <2>3. UNCHANGED <<guard, recipe, siloA, discharge, leaky, scaleA, elapsed>>
      BY <1>5 DEF StepScaleFill
  <2> QED
      BY <2>1, <2>2, <2>3 DEF RecipeType
<1>6. CASE StepMixing
  <2>1. elapsed' \in Nat /\ drum' \in [target : Nat, rpm : Nat]
      BY <1>6 DEF StepMixing
  <2>2. state' \in States /\ discharge' \in BOOLEAN
      BY <1>6 DEF StepMixing
  <2>3. UNCHANGED <<guard, recipe, siloA, siloB, leaky, scales>>
      BY <1>6 DEF StepMixing
  <2> QED
      BY <2>1, <2>2, <2>3
<1>7. CASE StepDischarge
    BY <1>7 DEF StepDischarge
<1>8. CASE Acknowledge
    BY <1>8 DEF Acknowledge, AckRead
<1>9. CASE AcknowledgeClear
    BY <1>9 DEF AcknowledgeClear, AckClear
<1>10. CASE Watch
    BY <1>10 DEF Watch, WatcherRead, WatcherTrip
<1>11. CASE Pressure
    BY <1>11 DEF Pressure, SensorChange
<1>12. CASE UNCHANGED vars
    BY <1>12 DEF vars
<1> QED
    BY <1>1, <1>2, <1>3, <1>4, <1>5, <1>6, <1>7, <1>8, <1>9, <1>10, <1>11, <1>12
       DEF Next, Step

\* Every state uses its own actuators only, and only a tripped mixer is stopped.
LEMMA ActuatorsKept ==
    TypeOK /\ ActuatorsFollowState /\ AckInv /\ [Next]_vars
        => ActuatorsFollowState' /\ AckInv'
<1> SUFFICES ASSUME TypeOK, ActuatorsFollowState, AckInv, [Next]_vars
             PROVE  ActuatorsFollowState' /\ AckInv'
    OBVIOUS
<1> USE DEF TypeOK, States, ActuatorsFollowState, AckInv
<1>1. ASSUME NEW r \in Recipes, LoadRecipe(r) PROVE ActuatorsFollowState' /\ AckInv'
    BY <1>1 DEF LoadRecipe
<1>2. CASE Start
    BY <1>2 DEF Start, Free
<1>3. CASE StepTripped
    BY <1>3 DEF StepTripped, CloseValves
<1>4. CASE StepSiloDrain
    BY <1>4 DEF StepSiloDrain
<1>5. CASE StepScaleFill
    BY <1>5 DEF StepScaleFill
<1>6. CASE StepMixing
    BY <1>6 DEF StepMixing
<1>7. CASE StepDischarge
    BY <1>7 DEF StepDischarge
<1>8. CASE Acknowledge
    BY <1>8 DEF Acknowledge, AckRead
<1>9. CASE AcknowledgeClear
    BY <1>9 DEF AcknowledgeClear, AckClear
<1>10. CASE Watch
    BY <1>10 DEF Watch, WatcherRead, WatcherTrip
<1>11. CASE Pressure
    BY <1>11 DEF Pressure, SensorChange
<1>12. CASE UNCHANGED vars
    BY <1>12 DEF vars
<1> QED
    BY <1>1, <1>2, <1>3, <1>4, <1>5, <1>6, <1>7, <1>8, <1>9, <1>10, <1>11, <1>12
       DEF Next, Step
-----------------------------------------------------------------------------
(* Doses.                                                                  *)

\* A filling scale that had not reached its target, and now does, has a dose.
LEMMA GainDoses ==
    ASSUME NEW scale \in [mass : Nat, filling : BOOLEAN], NEW target \in Nat,
           scale.filling, scale.mass = 0 \/ ~Reached(scale, target),
           NEW w \in Gain(scale), Reached(w, target)
    PROVE  Dosed([w EXCEPT !.filling = FALSE], target)
<1>1. PICK i \in Increments : w = [scale EXCEPT !.mass = @ + i]
    BY DEF Gain
<1> DEFINE dose == [w EXCEPT !.filling = FALSE]
<1>2. i \in Nat /\ dose.mass = scale.mass + i /\ w.mass = scale.mass + i
    BY <1>1, DoseAssumption
<1>3. [dose EXCEPT !.mass = @ - i].mass = scale.mass
    BY <1>1, <1>2
<1>4. dose.mass = i \/ ~Reached([dose EXCEPT !.mass = @ - i], target)
    BY <1>2, <1>3 DEF Reached
<1>5. Reached(dose, target)
    BY <1>1, <1>2 DEF Reached
<1> QED
    BY <1>4, <1>5 DEF Dosed

\* The steps that weigh: what ScaleInv and DosesAsOrdered need of them.
LEMMA DosesKept ==
    TypeOK /\ ActuatorsFollowState /\ AckInv /\ ScaleInv /\ DosesAsOrdered /\ [Next]_vars
        => ScaleInv' /\ DosesAsOrdered'
<1> SUFFICES ASSUME TypeOK, AckInv, ScaleInv, DosesAsOrdered, [Next]_vars
             PROVE  ScaleInv' /\ DosesAsOrdered'
    OBVIOUS
<1>0. /\ recipe.a \in Nat /\ recipe.b \in Nat
      /\ scaleA \in [mass : Nat, filling : BOOLEAN]
      /\ scaleB \in [mass : Nat, filling : BOOLEAN]
    BY DEF TypeOK, RecipeType
<1>1. ASSUME NEW r \in Recipes, LoadRecipe(r) PROVE ScaleInv' /\ DosesAsOrdered'
    BY <1>1 DEF LoadRecipe, ScaleInv, DosesAsOrdered
<1>2. CASE Start
    BY <1>2 DEF Start, Empty, ScaleInv, DosesAsOrdered
<1>3. CASE StepTripped
    BY <1>3 DEF StepTripped, ScaleInv, DosesAsOrdered
<1>4. CASE StepSiloDrain
  <2>1. PICK w \in Gain(scaleA) :
            IF Reached(w, recipe.a)
              THEN /\ scaleA' = [w EXCEPT !.filling = FALSE]
                   /\ scaleB' = [scaleB EXCEPT !.filling = TRUE]
                   /\ state' = "SCALE_FILL"
              ELSE scaleA' = w /\ UNCHANGED <<scaleB, state>>
      BY <1>4 DEF StepSiloDrain
  <2>2. state = "SILO_DRAIN" /\ recipe' = recipe
      BY <1>4 DEF StepSiloDrain
  <2>3. CASE Reached(w, recipe.a)
    <3>1. Dosed(scaleA', recipe.a)
        BY <1>0, <2>1, <2>2, <2>3, GainDoses DEF ScaleInv
    <3>2. scaleB'.mass = 0 /\ scaleB'.filling /\ state' = "SCALE_FILL"
        BY <1>0, <2>1, <2>2, <2>3 DEF ScaleInv, Empty
    <3> QED
        BY <2>2, <3>1, <3>2 DEF ScaleInv, DosesAsOrdered
  <2>4. CASE ~Reached(w, recipe.a)
    <3>1. w.filling
        BY <1>0, <2>2 DEF ScaleInv, Gain
    <3> QED
        BY <2>1, <2>2, <2>4, <3>1 DEF ScaleInv, DosesAsOrdered
  <2> QED
      BY <2>3, <2>4
<1>5. CASE StepScaleFill
  <2>1. PICK w \in Gain(scaleB) :
            IF Reached(w, recipe.b)
              THEN scaleB' = [w EXCEPT !.filling = FALSE] /\ state' = "MIXING"
              ELSE scaleB' = w /\ UNCHANGED state
      BY <1>5 DEF StepScaleFill
  <2>2. state = "SCALE_FILL" /\ UNCHANGED <<recipe, scaleA>>
      BY <1>5 DEF StepScaleFill
  <2>3. CASE Reached(w, recipe.b)
    <3>1. Dosed(scaleB', recipe.b)
        BY <1>0, <2>1, <2>2, <2>3, GainDoses DEF ScaleInv
    <3> QED
        BY <2>1, <2>2, <2>3, <3>1 DEF ScaleInv, DosesAsOrdered
  <2>4. CASE ~Reached(w, recipe.b)
    <3>1. w.filling
        BY <1>0, <2>2 DEF ScaleInv, Gain
    <3> QED
        BY <2>1, <2>2, <2>4, <3>1 DEF ScaleInv, DosesAsOrdered
  <2> QED
      BY <2>3, <2>4
<1>6. CASE StepMixing
    BY <1>6 DEF StepMixing, ScaleInv, DosesAsOrdered
<1>7. CASE StepDischarge
    BY <1>7 DEF StepDischarge, ScaleInv, DosesAsOrdered
<1>8. CASE AcknowledgeClear
    BY <1>8 DEF AcknowledgeClear, ScaleInv, DosesAsOrdered
<1>9. CASE Acknowledge \/ Watch \/ Pressure \/ UNCHANGED vars
    BY <1>9 DEF Acknowledge, Watch, Pressure, vars, ScaleInv, DosesAsOrdered
<1> QED
    BY <1>1, <1>2, <1>3, <1>4, <1>5, <1>6, <1>7, <1>8, <1>9 DEF Next, Step
-----------------------------------------------------------------------------
LEMMA BatchInvariant == Spec => []BInv
<1>1. BInv /\ [Next]_vars => BInv'
    BY TypesKept, ActuatorsKept, DosesKept DEF BInv
<1> QED
    BY InitBatch, <1>1, PTL DEF Spec

\* The variables keep the types of the fields they model.
THEOREM BatchTypes == Spec => []TypeOK
<1>1. BInv => TypeOK
    BY DEF BInv
<1> QED
    BY BatchInvariant, <1>1, PTL

\* No state has another's valve open or the drum running, whenever a trip came.
THEOREM BatchActuators == Spec => []ActuatorsFollowState
<1>1. BInv => ActuatorsFollowState
    BY DEF BInv
<1> QED
    BY BatchInvariant, <1>1, PTL

\* Every batch that is mixed has been dosed as its recipe orders.
THEOREM BatchDoses == Spec => []DosesAsOrdered
<1>1. BInv => DosesAsOrdered
    BY DEF BInv
<1> QED
    BY BatchInvariant, <1>1, PTL

\* A tripped batch takes no step but the emergency stop.
THEOREM BatchTrips == Spec => TripPreempts
<1>1. BInv /\ [Next]_vars =>
        [tripped /\ state \notin {"IDLE", "EMERGENCY_STOP"}
            => state' \in {state, "EMERGENCY_STOP"}]_vars
  <2> SUFFICES ASSUME BInv, Next, tripped, state \notin {"IDLE", "EMERGENCY_STOP"}
               PROVE  state' \in {state, "EMERGENCY_STOP"}
      OBVIOUS
  <2>1. ~clearing
      BY DEF BInv, AckInv
  <2> QED
      BY <2>1 DEF Next, LoadRecipe, Start, Step, StepTripped, StepSiloDrain, StepScaleFill,
             StepMixing, StepDischarge, Runs, Acknowledge, AcknowledgeClear, AckClear,
             Watch, Pressure
<1> QED
    BY BatchInvariant, <1>1, PTL DEF Spec, TripPreempts
-----------------------------------------------------------------------------
(* Progress.                                                               *)

\* The longest batch that a recipe can make.
Longest(r) == 4 + r.a + r.b + r.duration

LEMMA LeftFacts ==
    ASSUME NEW t \in Nat, NEW v \in Nat
    PROVE  /\ Left(t, v) \in Nat /\ Left(t, v) <= t /\ Left(t, v) \in 0 .. t
           /\ \A w \in Nat : v < w /\ w < t => Left(t, w) < Left(t, v)
    BY DEF Left

LEMMA StepsLeftBounded == BInv => StepsLeft \in 0 .. Longest(recipe)
<1> SUFFICES ASSUME BInv PROVE StepsLeft \in 0 .. Longest(recipe)
    OBVIOUS
<1>1. /\ recipe.a \in Nat /\ recipe.b \in Nat /\ recipe.duration \in Nat
      /\ scaleA.mass \in Nat /\ scaleB.mass \in Nat /\ elapsed \in Nat /\ state \in States
    BY DEF BInv, TypeOK, RecipeType
<1>2. /\ Left(recipe.a, scaleA.mass) \in 0 .. recipe.a
      /\ Left(recipe.b, scaleB.mass) \in 0 .. recipe.b
      /\ Left(recipe.duration, elapsed) \in 0 .. recipe.duration
  <2>1. \A t, v \in Nat : Left(t, v) \in 0 .. t
      BY LeftFacts
  <2> QED
      BY <1>1, <2>1
<1>3. CASE state \in {"IDLE", "EMERGENCY_STOP"}
    BY <1>1, <1>3 DEF StepsLeft, Longest
<1>4. CASE state = "SILO_DRAIN"
    BY <1>1, <1>2, <1>4 DEF StepsLeft, Longest
<1>5. CASE state = "SCALE_FILL"
    BY <1>1, <1>2, <1>5 DEF StepsLeft, Longest
<1>6. CASE state = "MIXING"
    BY <1>1, <1>2, <1>6 DEF StepsLeft, Longest
<1>7. CASE state = "DISCHARGE"
    BY <1>1, <1>7 DEF StepsLeft, Longest
<1> QED
    BY <1>1, <1>3, <1>4, <1>5, <1>6, <1>7 DEF States

LEMMA StepProgresses ==
    ASSUME BInv, Step, state \notin {"IDLE", "EMERGENCY_STOP"}
    PROVE  StepsLeft' < StepsLeft
<1>1. /\ recipe.a \in Nat /\ recipe.b \in Nat /\ recipe.duration \in Nat
      /\ scaleA \in [mass : Nat, filling : BOOLEAN] /\ scaleB \in [mass : Nat, filling : BOOLEAN]
      /\ elapsed \in Nat /\ state \in States
    BY DEF BInv, TypeOK, RecipeType
<1>2. scaleA.mass \in Nat /\ scaleB.mass \in Nat
    BY <1>1
<1> DEFINE leftA == Left(recipe.a, scaleA.mass)
           leftB == Left(recipe.b, scaleB.mass)
           leftT == Left(recipe.duration, elapsed)
<1>3. leftA \in Nat /\ leftB \in Nat /\ leftT \in Nat
    BY <1>1, <1>2, LeftFacts
<1>4. CASE StepTripped
  <2>1. StepsLeft' = 0
      BY <1>4 DEF StepTripped, StepsLeft
  <2> HIDE DEF leftA, leftB, leftT
  <2>2. StepsLeft \in Nat \ {0}
    <3>1. CASE state = "SILO_DRAIN"
        BY <1>1, <1>3, <3>1 DEF StepsLeft, leftA
    <3>2. CASE state = "SCALE_FILL"
        BY <1>1, <1>3, <3>2 DEF StepsLeft, leftB
    <3>3. CASE state = "MIXING"
        BY <1>3, <3>3 DEF StepsLeft, leftT
    <3>4. CASE state = "DISCHARGE"
        BY <3>4 DEF StepsLeft
    <3> QED
        BY <1>1, <3>1, <3>2, <3>3, <3>4 DEF States
  <2> QED
      BY <2>1, <2>2
<1>5. CASE StepSiloDrain
  <2>1. PICK w \in Gain(scaleA) :
            IF Reached(w, recipe.a)
              THEN scaleB' = [scaleB EXCEPT !.filling = TRUE] /\ state' = "SCALE_FILL"
              ELSE scaleA' = w /\ UNCHANGED state
      BY <1>5 DEF StepSiloDrain
  <2>2. state = "SILO_DRAIN" /\ recipe' = recipe
      BY <1>5 DEF StepSiloDrain
  <2>3. StepsLeft = 4 + leftA + recipe.b + recipe.duration
      BY <2>2 DEF StepsLeft
  <2>4. CASE Reached(w, recipe.a)
    <3>1. scaleB'.mass = scaleB.mass /\ state' = "SCALE_FILL"
        BY <1>1, <2>1, <2>4
    <3>2. StepsLeft' = 3 + leftB + recipe.duration
        BY <2>2, <3>1 DEF StepsLeft
    <3>3. leftB <= recipe.b
        BY <1>1, <1>2, LeftFacts
    <3> HIDE DEF leftA, leftB
    <3> QED
        BY <1>1, <1>3, <2>3, <3>2, <3>3
  <2>5. CASE ~Reached(w, recipe.a)
    <3>1. PICK i \in Increments : w = [scaleA EXCEPT !.mass = @ + i]
        BY <2>2 DEF BInv, ScaleInv, Gain
    <3>2. i \in Nat \ {0} /\ w.mass = scaleA.mass + i /\ w.mass \in Nat
        BY <1>1, <1>2, <3>1, DoseAssumption
    <3>3. scaleA.mass < w.mass /\ w.mass < recipe.a
        BY <1>1, <1>2, <2>5, <3>2, DoseAssumption DEF Reached
    <3>4. StepsLeft' = 4 + Left(recipe.a, w.mass) + recipe.b + recipe.duration
        BY <2>1, <2>2, <2>5 DEF StepsLeft
    <3>5. Left(recipe.a, w.mass) < leftA /\ Left(recipe.a, w.mass) \in Nat
        BY <1>1, <1>2, <3>2, <3>3, LeftFacts
    <3> HIDE DEF leftA
    <3> QED
        BY <1>1, <1>3, <2>3, <3>4, <3>5
  <2> QED
      BY <2>4, <2>5
<1>6. CASE StepScaleFill
  <2>1. PICK w \in Gain(scaleB) :
            IF Reached(w, recipe.b)
              THEN state' = "MIXING"
              ELSE scaleB' = w /\ UNCHANGED state
      BY <1>6 DEF StepScaleFill
  <2>2. state = "SCALE_FILL" /\ recipe' = recipe /\ elapsed' = elapsed
      BY <1>6 DEF StepScaleFill
  <2>3. StepsLeft = 3 + leftB + recipe.duration
      BY <2>2 DEF StepsLeft
  <2>4. CASE Reached(w, recipe.b)
    <3>1. StepsLeft' = 2 + leftT
        BY <2>1, <2>2, <2>4 DEF StepsLeft
    <3>2. leftT <= recipe.duration
        BY <1>1, LeftFacts
    <3> HIDE DEF leftB, leftT
    <3> QED
        BY <1>1, <1>3, <2>3, <3>1, <3>2
  <2>5. CASE ~Reached(w, recipe.b)
    <3>1. PICK i \in Increments : w = [scaleB EXCEPT !.mass = @ + i]
        BY <2>2 DEF BInv, ScaleInv, Gain
    <3>2. i \in Nat \ {0} /\ w.mass = scaleB.mass + i /\ w.mass \in Nat
        BY <1>1, <1>2, <3>1, DoseAssumption
    <3>3. scaleB.mass < w.mass /\ w.mass < recipe.b
        BY <1>1, <1>2, <2>5, <3>2, DoseAssumption DEF Reached
    <3>4. StepsLeft' = 3 + Left(recipe.b, w.mass) + recipe.duration
        BY <2>1, <2>2, <2>5 DEF StepsLeft
    <3>5. Left(recipe.b, w.mass) < leftB /\ Left(recipe.b, w.mass) \in Nat
        BY <1>1, <1>2, <3>2, <3>3, LeftFacts
    <3> HIDE DEF leftB
    <3> QED
        BY <1>1, <1>3, <2>3, <3>4, <3>5
  <2> QED
      BY <2>4, <2>5
<1>7. CASE StepMixing
  <2>1. state = "MIXING" /\ recipe' = recipe /\ elapsed' = elapsed + 1
      BY <1>7 DEF StepMixing
  <2>2. StepsLeft = 2 + leftT
      BY <2>1 DEF StepsLeft
  <2>3. CASE elapsed' >= recipe.duration
    <3>1. StepsLeft' = 1
        BY <1>7, <2>3 DEF StepMixing, StepsLeft
    <3> HIDE DEF leftT
    <3> QED
        BY <1>3, <2>2, <3>1
  <2>4. CASE ~(elapsed' >= recipe.duration)
    <3>1. StepsLeft' = 2 + Left(recipe.duration, elapsed + 1)
        BY <1>7, <2>1, <2>4 DEF StepMixing, StepsLeft
    <3>2. elapsed + 1 \in Nat /\ elapsed < elapsed + 1 /\ elapsed + 1 < recipe.duration
        BY <1>1, <2>1, <2>4
    <3>3. Left(recipe.duration, elapsed + 1) < leftT /\ Left(recipe.duration, elapsed + 1) \in Nat
        BY <1>1, <3>2, LeftFacts
    <3> HIDE DEF leftT
    <3> QED
        BY <1>3, <2>2, <3>1, <3>3
  <2> QED
      BY <2>3, <2>4
<1>8. CASE StepDischarge
    BY <1>8 DEF StepDischarge, StepsLeft
<1> QED
    BY <1>4, <1>5, <1>6, <1>7, <1>8 DEF Step

\* A batch comes nearer to its end with every call of step(), whatever trips
\* and readings come in between.
THEOREM BatchProgress == Spec => BatchProgresses
<1>1. BInv /\ [Next]_vars /\ state \notin {"IDLE", "EMERGENCY_STOP"}
        => StepsLeft' <= StepsLeft /\ (Step => StepsLeft' < StepsLeft)
  <2> SUFFICES ASSUME BInv, [Next]_vars, state \notin {"IDLE", "EMERGENCY_STOP"}
               PROVE  StepsLeft' <= StepsLeft /\ (Step => StepsLeft' < StepsLeft)
      OBVIOUS
  <2>1. StepsLeft \in Nat
      BY StepsLeftBounded DEF Longest, BInv, TypeOK, RecipeType
  <2>2. CASE Step
    <3>1. StepsLeft' < StepsLeft
        BY <2>2, StepProgresses
    <3>2. StepsLeft' \in Nat
      <4>1. BInv'
          BY TypesKept, ActuatorsKept, DosesKept DEF BInv
      <4>2. (BInv => StepsLeft \in 0 .. Longest(recipe))'
          BY StepsLeftBounded, PTL
      <4>3. Longest(recipe)' \in Nat
          BY <4>1 DEF Longest, BInv, TypeOK, RecipeType
      <4> QED
          BY <4>1, <4>2, <4>3
    <3> QED
        BY <2>1, <3>1, <3>2
  <2>3. CASE ~Step
    <3>1. ~clearing
        BY DEF BInv, AckInv
    <3>2. UNCHANGED <<state, recipe, scaleA, scaleB, elapsed>>
        BY <2>3, <3>1 DEF Next, LoadRecipe, Start, Acknowledge, AcknowledgeClear, AckClear,
                          Watch, Pressure, vars
    <3>3. StepsLeft' = StepsLeft
        BY <3>2 DEF StepsLeft
    <3> QED
        BY <2>1, <2>3, <3>3
  <2> QED
      BY <2>2, <2>3
<1> QED
    BY BatchInvariant, <1>1, PTL DEF Spec, BatchProgresses

\* And no batch takes more calls than its recipe has units, steps and states.
THEOREM BatchBound == Spec => [](StepsLeft <= Longest(recipe))
<1>1. BInv => StepsLeft <= Longest(recipe)
    BY StepsLeftBounded DEF Longest, BInv, TypeOK, RecipeType
<1> QED
    BY BatchInvariant, <1>1, PTL
-----------------------------------------------------------------------------
(* The program or the service around the mixer.                            *)

\* Whoever drives the mixer, it is used as BatchController allows for: the
\* service's thread calls it in that order only, and HandlerEx does not.
THEOREM ServiceImplements == ServiceSpec => Spec
<1>1. ServiceInit => Init
    BY DEF ServiceInit
<1>2. [ServiceNext]_allvars => [Next]_vars
  <2> SUFFICES ASSUME [ServiceNext]_allvars PROVE [Next]_vars
      OBVIOUS
  <2>1. CASE Client
      BY <2>1 DEF Client, Next
  <2>2. CASE Guarding
      BY <2>2 DEF Guarding, Next
  <2>3. CASE Pressure
      BY <2>3 DEF Next
  <2>4. CASE ServiceMain
    <3>1. CASE Load
        BY <3>1 DEF Load, Next
    <3>2. CASE StartBatch
        BY <3>2 DEF StartBatch, Next
    <3>3. CASE StepBatch
        BY <3>3 DEF StepBatch, Next
    <3>4. CASE Announce \/ Arm \/ Guard \/ WriteStopped \/ ReportStopped
        BY <3>4 DEF Announce, Arm, Guard, WriteStopped, ReportStopped
    <3> QED
        BY <2>4, <3>1, <3>2, <3>3, <3>4 DEF ServiceMain
  <2>5. CASE StopWrite \/ HandlerEx \/ Interrogate
      BY <2>5 DEF StopWrite, HandlerEx, StopReport, StopClear, Interrogate
  <2>6. CASE UNCHANGED allvars
      BY <2>6 DEF allvars
  <2> QED
      BY <2>1, <2>2, <2>3, <2>4, <2>5, <2>6 DEF ServiceNext
<1> QED
    BY <1>1, <1>2, PTL DEF ServiceSpec, Spec

\* What is proved of the mixer holds under the service, at whatever point of a
\* batch a STOP comes.
THEOREM ServiceSafety ==
    ServiceSpec => /\ []TypeOK /\ []ActuatorsFollowState /\ []DosesAsOrdered
                   /\ TripPreempts
    BY ServiceImplements, BatchTypes, BatchActuators, BatchDoses, BatchTrips, PTL

\* STOPPED is written when the loop has been left, and the handler reports what
\* was written: it may announce the end before ServiceMain does, not earlier.
OverInv ==
    /\ "STOPPED" \in {status, reported} => svc \in {"report", "ended"}
    /\ svc # "load" => host = "service"

LEMMA OverKept == OverInv /\ [ServiceNext]_allvars => OverInv'
<1> SUFFICES ASSUME OverInv, [ServiceNext]_allvars PROVE OverInv'
    OBVIOUS
<1> USE DEF OverInv
<1>1. CASE Client \/ Guarding \/ (Pressure /\ UNCHANGED service) \/ UNCHANGED allvars
    BY <1>1 DEF Client, Guarding, service, control, allvars
<1>2. CASE host = "service" /\ ServiceMain
    BY <1>2 DEF ServiceMain, Load, Announce, Arm, StartBatch, Guard, StepBatch,
                WriteStopped, ReportStopped, Report, control
<1>3. CASE StopWrite \/ HandlerEx \/ Interrogate
    BY <1>3 DEF StopWrite, HandlerEx, StopReport, StopClear, Interrogate, Report
<1> QED
    BY <1>1, <1>2, <1>3 DEF ServiceNext

\* After STOPPED nothing of the mixer moves, in any order of the handler's
\* steps, a trip and the loop: the guard's thread alone still runs.
THEOREM StoppedIsStill == ServiceSpec => StoppedMeansStill
<1>1. ServiceInit => OverInv
    BY DEF ServiceInit, OverInv
<1>2. OverInv /\ [ServiceNext]_allvars =>
        [reported = "STOPPED"
           => UNCHANGED <<state, recipe, valves, leaky, scales, drum, elapsed>>]_allvars
  <2> SUFFICES ASSUME OverInv, ServiceNext, reported = "STOPPED"
               PROVE  UNCHANGED <<state, recipe, valves, leaky, scales, drum, elapsed>>
      OBVIOUS
  <2>1. svc \in {"report", "ended"} /\ host = "service"
      BY DEF OverInv
  <2>2. CASE Guarding \/ (Pressure /\ UNCHANGED service)
      BY <2>2 DEF Guarding, Watch, Pressure
  <2>3. CASE ServiceMain \/ StopWrite \/ HandlerEx \/ Interrogate
      BY <2>1, <2>3 DEF ServiceMain, Load, Announce, Arm, StartBatch, Guard, StepBatch,
         WriteStopped, ReportStopped, StopWrite, HandlerEx, StopReport, StopClear,
         Interrogate, vars
  <2> QED
      BY <2>1, <2>2, <2>3 DEF ServiceNext, Client
<1> QED
    BY <1>1, <1>2, OverKept, PTL DEF ServiceSpec, StoppedMeansStill
=============================================================================
