--------------------------- MODULE CommandService ---------------------------
(***************************************************************************)
(* What the card reader promises its host (docs/protocol.md:54-75): one    *)
(* command at a time, the sectors it reads in order, then one completion,  *)
(* which says OK only when all of them have been sent.                     *)
(***************************************************************************)
EXTENDS Naturals

CONSTANTS
    MaxSectors,     \* bound on the sectors of a command
    Statuses        \* what a completion may say

VARIABLES
    phase,      \* "boot", "idle" or "busy" with a command
    expected,   \* sectors the last command reads
    sent,       \* sectors of it sent so far, in order
    status      \* what its completion said, "none" before

vars == <<phase, expected, sent, status>>

Init == phase = "boot" /\ expected = 0 /\ sent = 0 /\ status = "none"

Booted == phase = "boot" /\ phase' = "idle" /\ UNCHANGED <<expected, sent, status>>

Ask ==
    /\ phase = "idle" /\ phase' = "busy"
    /\ expected' \in 0..MaxSectors /\ sent' = 0 /\ status' = "none"

SendSector ==
    /\ phase = "busy" /\ sent < expected
    /\ sent' = sent + 1 /\ UNCHANGED <<phase, expected, status>>

Complete ==
    /\ phase = "busy" /\ phase' = "idle"
    /\ status' \in Statuses
    /\ status' = "OK" => sent = expected
    /\ UNCHANGED <<expected, sent>>

Next == Booted \/ Ask \/ SendSector \/ Complete

Spec == Init /\ [][Next]_vars

(* Every command is completed. *)
Completes == phase = "busy" ~> phase = "idle"
=============================================================================
