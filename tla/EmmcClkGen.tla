----------------------------- MODULE EmmcClkGen -----------------------------
(***************************************************************************)
(* The divider that makes the card's clock (EmmcController.scala:131-158). *)
(* One step of Edge is one edge of the 60 MHz clock.  The FSM above it     *)
(* chooses the divisor (SET_CLK_DIV), the slow clock of initialisation     *)
(* and, between two blocks of a multi-block read, the pause that holds the *)
(* card back; here these inputs may change on any edge.                    *)
(***************************************************************************)
EXTENDS Naturals

CONSTANTS
    SlowReload,     \* CLK_DIV_SLOW - 1 (224 in the code)
    Presets,        \* clock presets SET_CLK_DIV may choose (0..6 in the code)
    presetDivM1     \* the reload value of each preset

ASSUME ClkGenAssumption ==
    /\ SlowReload \in Nat \ {0}
    /\ 0 \in Presets
    /\ presetDivM1 \in [Presets -> Nat]

\* No preset divides by one.  False of preset 6, which has reload 0.
PresetsDivide == \A p \in Presets : presetDivM1[p] > 0

VARIABLES
    useFastClk, fastClkDivReload, clkPause,         \* written by the FSM
    clkDivCnt, clkDivReload, emmcClkReg, clkEn,     \* the divider
    pausedToggles,  \* history: clock edges since the pause began
    sinceToggle     \* history: FPGA edges since the clock's last edge, pauses left out

vars == <<useFastClk, fastClkDivReload, clkPause, clkDivCnt, clkDivReload, emmcClkReg,
          clkEn, pausedToggles, sinceToggle>>

Init ==
    /\ useFastClk = FALSE /\ clkPause = FALSE
    /\ fastClkDivReload = presetDivM1[0]
    /\ clkDivCnt = SlowReload /\ clkDivReload = SlowReload
    /\ emmcClkReg = FALSE /\ clkEn = FALSE
    /\ pausedToggles = 0 /\ sinceToggle = 0

-----------------------------------------------------------------------------
Toggles == clkDivCnt = 0

\* The definitions named Divide... before Divide are plausible mistakes in it,
\* kept to show that the properties tell them apart.
DivideWith(next, enabled) ==
    /\ clkDivCnt' = IF Toggles THEN clkDivReload ELSE next
    /\ emmcClkReg' = (emmcClkReg # Toggles)
    /\ clkEn' = (Toggles /\ ~emmcClkReg /\ enabled)
    /\ clkDivReload' = IF useFastClk THEN fastClkDivReload ELSE SlowReload

\* The pause is not heeded.
DivideOn == DivideWith(clkDivCnt - 1, TRUE)

\* A smaller divisor takes effect at once.
DivideAtOnce ==
    DivideWith(IF clkPause THEN clkDivCnt
               ELSE IF clkDivReload < clkDivCnt THEN clkDivReload ELSE clkDivCnt - 1, TRUE)

\* The engines are enabled on the fast clock only.
DivideFast == DivideWith(IF ~clkPause THEN clkDivCnt - 1 ELSE clkDivCnt, useFastClk)

\* The counter stops while paused, but a counter that has reached 0 still toggles.
Divide ==
    /\ clkDivCnt' = IF Toggles THEN clkDivReload
                    ELSE IF ~clkPause THEN clkDivCnt - 1 ELSE clkDivCnt
    /\ emmcClkReg' = (emmcClkReg # Toggles)
    /\ clkEn' = (Toggles /\ ~emmcClkReg)
    /\ clkDivReload' = IF useFastClk THEN fastClkDivReload ELSE SlowReload

\* SET_CLK_DIV, the init engine's and the FSM's choices.
FsmInputs ==
    /\ fastClkDivReload' \in {fastClkDivReload} \union {presetDivM1[p] : p \in Presets}
    /\ useFastClk' \in BOOLEAN
    /\ clkPause' \in BOOLEAN

History ==
    /\ pausedToggles' = IF ~clkPause THEN 0
                        ELSE IF Toggles /\ pausedToggles < 2 THEN pausedToggles + 1
                        ELSE pausedToggles
    /\ sinceToggle' = IF Toggles THEN 0
                      ELSE IF clkPause THEN sinceToggle ELSE sinceToggle + 1

Edge == Divide /\ FsmInputs /\ History

Spec == Init /\ [][Edge]_vars

\* The FPGA's clock ticks forever.
FairSpec == Spec /\ WF_vars(Edge)

-----------------------------------------------------------------------------
(* Properties. *)

Reloads == {SlowReload} \union {presetDivM1[p] : p \in Presets}

TypeOK ==
    /\ {useFastClk, clkPause, emmcClkReg, clkEn} \subseteq BOOLEAN
    /\ fastClkDivReload \in Reloads /\ clkDivReload \in Reloads
    /\ clkDivCnt \in Nat /\ sinceToggle \in Nat
    /\ pausedToggles \in 0..2

(* A paused clock stops: after the pause has begun the card sees at most    *)
(* one more edge, so it cannot send the next block of a multi-block read    *)
(* into a buffer the UART has not emptied (the "FPGA CLK gating             *)
(* backpressure" of emmc-gui's protocol.rs:827).                            *)
PauseStops == pausedToggles <= 1

(* Every level of the clock lasts as long as one of the configured divisors *)
(* says, however the divisor, the mode and the pause change under it: no    *)
(* runt pulse reaches the card.                                             *)
NoRuntPulse == [][Toggles => sinceToggle \in Reloads]_vars

(* Unless it stays paused the clock keeps running, and with it the engines  *)
(* that advance on clkEn.                                                   *)
KeepsRunning == <>[]~clkPause => []<>clkEn
=============================================================================
