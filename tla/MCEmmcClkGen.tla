---------------------------- MODULE MCEmmcClkGen ----------------------------
(* The clock presets of EmmcController.scala:465-473. *)
EXTENDS EmmcClkGen

AllPresets == 0..6
DividingPresets == 0..5
CodeReload == <<7, 4, 2, 1, 1, 0>>
AllReloads == [p \in AllPresets |-> IF p = 0 THEN 14 ELSE CodeReload[p]]
DividingReloads == [p \in DividingPresets |-> AllReloads[p]]
=============================================================================
