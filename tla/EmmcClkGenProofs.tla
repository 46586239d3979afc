-------------------------- MODULE EmmcClkGenProofs --------------------------
(***************************************************************************)
(* The clock generator is correct for every slow divisor and every set of  *)
(* presets none of which divides by one.                                   *)
(***************************************************************************)
EXTENDS EmmcClkGen, TLAPS

\* A counter reloaded while paused stands still above 0: only a pause that
\* found it at 0 has let one edge out.
PauseHolds ==
    /\ pausedToggles <= 1
    /\ clkPause /\ pausedToggles = 1 => clkDivCnt > 0

\* The counter and the time since the last edge add up to a divisor.
LevelKept == clkDivCnt + sinceToggle \in Reloads

IInv == TypeOK /\ PauseHolds /\ LevelKept

LEMMA ReloadsPositive ==
    ASSUME PresetsDivide
    PROVE  /\ Reloads \subseteq Nat
           /\ \A r \in Reloads : r > 0
<1>1. \A p \in Presets : presetDivM1[p] \in Nat /\ presetDivM1[p] > 0
  BY ClkGenAssumption DEF PresetsDivide
<1> QED
  BY <1>1, ClkGenAssumption DEF Reloads

LEMMA InitEstablishes == ASSUME PresetsDivide, Init PROVE IInv
<1>1. SlowReload \in Reloads /\ presetDivM1[0] \in Reloads
  BY ClkGenAssumption DEF Reloads
<1>2. SlowReload + 0 = SlowReload
  BY ClkGenAssumption
<1>3. TypeOK
  <2>1. {useFastClk, clkPause, emmcClkReg, clkEn} \subseteq BOOLEAN
    BY Zenon DEF Init
  <2>2. /\ fastClkDivReload \in Reloads /\ clkDivReload \in Reloads
        /\ clkDivCnt \in Nat /\ sinceToggle \in Nat /\ pausedToggles \in 0..2
    BY <1>1, ClkGenAssumption DEF Init
  <2> QED
    BY <2>1, <2>2 DEF TypeOK
<1>4. PauseHolds /\ LevelKept
  BY <1>1, <1>2 DEF PauseHolds, LevelKept, Init
<1> QED
  BY <1>3, <1>4 DEF IInv

LEMMA StepPreserves == ASSUME PresetsDivide, IInv, [Edge]_vars PROVE IInv'
<1> USE DEF IInv
<1>1. CASE Edge
  <2> USE <1>1 DEF Edge
  <2>1. /\ clkDivReload \in Nat /\ clkDivReload > 0
        /\ clkDivCnt \in Nat /\ sinceToggle \in Nat /\ pausedToggles \in 0..2
    BY ReloadsPositive DEF TypeOK
  <2>2. clkDivReload' \in Reloads
    BY DEF Divide, TypeOK, Reloads
  <2>3. fastClkDivReload' \in Reloads
    BY DEF FsmInputs, TypeOK, Reloads
  <2>4. useFastClk' \in BOOLEAN /\ clkPause' \in BOOLEAN
    BY DEF FsmInputs
  <2>5. emmcClkReg' \in BOOLEAN /\ clkEn' \in BOOLEAN
    BY Zenon DEF Divide
  <2>6. clkDivCnt' \in Nat /\ sinceToggle' \in Nat /\ pausedToggles' \in 0..2
    BY <2>1 DEF Divide, History, Toggles
  <2>7. TypeOK'
    BY <2>2, <2>3, <2>4, <2>5, <2>6 DEF TypeOK
  <2>8. PauseHolds'
    <3>1. CASE ~clkPause
      BY <3>1 DEF PauseHolds, History
    <3>2. CASE clkPause /\ Toggles
      <4>1. pausedToggles = 0
        BY <3>2, <2>1 DEF PauseHolds, Toggles
      <4>2. pausedToggles' = 1 /\ clkDivCnt' = clkDivReload
        BY <3>2, <4>1 DEF Divide, History
      <4> QED
        BY <4>2, <2>1 DEF PauseHolds
    <3>3. CASE clkPause /\ ~Toggles
      <4>1. pausedToggles' = pausedToggles /\ clkDivCnt' = clkDivCnt
        BY <3>3 DEF Divide, History
      <4> QED
        BY <3>3, <4>1, <2>1 DEF PauseHolds, Toggles
    <3> QED
      BY <3>1, <3>2, <3>3 DEF TypeOK
  <2>9. LevelKept'
    <3>1. CASE Toggles
      <4>1. clkDivCnt' = clkDivReload /\ sinceToggle' = 0
        BY <3>1 DEF Divide, History
      <4> QED
        BY <4>1, <2>1 DEF LevelKept, TypeOK, Reloads
    <3>2. CASE ~Toggles
      <4>1. clkDivCnt' + sinceToggle' = clkDivCnt + sinceToggle
        BY <3>2, <2>1 DEF Divide, History, Toggles
      <4> QED
        BY <4>1 DEF LevelKept, Reloads
    <3> QED
      BY <3>1, <3>2
  <2> QED
    BY <2>7, <2>8, <2>9
<1>2. CASE UNCHANGED vars
  BY <1>2 DEF vars, TypeOK, PauseHolds, LevelKept, Reloads
<1> QED
  BY <1>1, <1>2

LEMMA Invariance == PresetsDivide => (Spec => []IInv)
<1>1. SUFFICES ASSUME PresetsDivide PROVE Spec => []IInv
  OBVIOUS
<1>2. Init => IInv
  BY <1>1, InitEstablishes
<1>3. IInv /\ [Edge]_vars => IInv'
  BY <1>1, StepPreserves
<1> QED
  BY <1>2, <1>3, PTL DEF Spec

(* For all presets that divide by two or more (preset 6 of the code does not)*)
(* the registers keep their types and the counters stay within the divisors *)
(* of the configuration.                                                    *)
THEOREM TypeCorrect == PresetsDivide => (Spec => []TypeOK)
<1>1. IInv => TypeOK
  BY DEF IInv
<1> QED
  BY <1>1, Invariance, PTL

(* For all presets that divide by two or more, a pause lets at most one     *)
(* clock edge through (EmmcController.scala:137-145): the backpressure of a *)
(* multi-block read.                                                        *)
THEOREM PauseStopsClock == PresetsDivide => (Spec => []PauseStops)
<1>1. IInv => PauseStops
  BY DEF IInv, PauseHolds, PauseStops
<1> QED
  BY <1>1, Invariance, PTL

(* For the same presets, and whatever sequence of divisors, modes and pauses*)
(* the FSM applies, every level of the clock lasts a configured divisor.    *)
THEOREM NoRunt == PresetsDivide => (Spec => NoRuntPulse)
<1>1. ASSUME IInv, Toggles PROVE sinceToggle \in Reloads
  <2>1. clkDivCnt + sinceToggle = sinceToggle
    BY <1>1 DEF IInv, TypeOK, Toggles
  <2> QED
    BY <1>1, <2>1 DEF IInv, LevelKept
<1>2. IInv /\ [Edge]_vars => [Toggles => sinceToggle \in Reloads]_vars
  BY <1>1
<1> QED
  BY <1>2, Invariance, PTL DEF Spec, NoRuntPulse
=============================================================================
