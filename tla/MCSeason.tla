------------------------------ MODULE MCSeason -------------------------------
(* A season of three time units, warned of two and one before its end. *)
EXTENDS Season, TLC

CONSTANTS ana, bo

MCCharacters == {ana, bo}
MCHardcore == {ana}
=============================================================================
