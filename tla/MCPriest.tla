------------------------------ MODULE MCPriest -------------------------------
(* Two players, one of them a cleric, a pool of two and a draw of two clues. *)
EXTENDS Priest

CONSTANTS ana, bo, anselm, maeve, candles, dagger, password

MCPlayers == {ana, bo}
MCClerics == {ana}
MCPool == {anselm, maeve}
MCClues == {candles, dagger, password}
MCNightActs == {candles}
MCPlanted == {dagger, password}
MCSmoking == {password}
=============================================================================
